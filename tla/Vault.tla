------------------------------- MODULE Vault -------------------------------
(***************************************************************************)
(* The credential vault of the Project DB (qfs/src/secret_store.rs), the   *)
(* commands that change its key slots (qfs/src/vault.rs), the ladder that  *)
(* opens it (qfs/src/connection.rs) and the cached session                 *)
(* (qfs/src/session_unlock.rs), over any number of processes.              *)
(*                                                                         *)
(* A key is its number.  A wrap is the pair of the key inside and the key  *)
(* around it, a passphrase slot's outer key is the passphrase: it opens    *)
(* with that key and with no other.  A statement of the store is atomic; a *)
(* command is a sequence of them, and of calls to the OS keychain and of   *)
(* accesses to the session file.  A session past its deadline or of an     *)
(* earlier boot is purged by whoever meets it, and modelled as gone.       *)
(***************************************************************************)
EXTENDS Naturals

CONSTANTS
  Procs, Passphrases, Creds,
  NoKey,     \* no passphrase, no keyring entry, no session, no row
  Casts,     \* what is found on disk, which commands each process runs, and
             \* whether the operator may delete the file
  MaxKeys,   \* bound: keys minted
  MaxSlots   \* bound: slot ids given out

Commands == {"put", "rotate", "revoke", "remove", "enroll", "drop keychain",
             "drop passphrase", "rekey", "unlock", "lock"}

ASSUME VaultConstants ==
  /\ Casts \subseteq [store : {"fresh", "unslotted", "established"},
                      does : [Procs -> SUBSET Commands], deletes : BOOLEAN]
  /\ MaxKeys \in Nat \ {0} /\ MaxSlots \in Nat \ {0}
  /\ NoKey \notin Nat \cup Passphrases

VARIABLES
  cast,
  slots,    \* vault_key_slot: rows [id, kind, dek, kek]
  ids,      \* the slot ids given out (AUTOINCREMENT)
  meta,     \* secret_meta: the passphrase that wraps the key of an older store
  rows,     \* secret_store: the key each credential is sealed with, and the mark
  keyring,  \* the one entry the OS keychain holds for this user
  session,  \* the key in session.unlock
  keys,     \* keys minted
  cmd,      \* the command each process runs
  mishaps   \* history: what two commands did to each other, since the file is there

slotVars  == <<slots, ids, meta>>
storeVars == <<slotVars, rows>>
hostVars  == <<keyring, session>>
castVars  == <<cast, mishaps>>
vaultVars == <<castVars, storeVars, hostVars, keys, cmd>>

-----------------------------------------------------------------------------
NoCommand == [at |-> "idle", does |-> "none", pass |-> NoKey, dek |-> NoKey,
         slot |-> NoKey, kek |-> NoKey]
CommandAt(p, place) == cmd[p].at = place
Does(p, what) == CommandAt(p, "ready") /\ cmd[p].does = what
Step(p, place) == cmd' = [cmd EXCEPT ![p].at = place]
Unlocked(p, dek) == cmd' = [cmd EXCEPT ![p].at = "ready", ![p].dek = dek]
Finish(p) == cmd' = [cmd EXCEPT ![p] = NoCommand]

NoRow == [dek |-> NoKey, revoked |-> FALSE]
Present(c) == rows[c] # NoRow
OfKind(kind) == {s \in slots : s.kind = kind}

\* unlock_via_slots: the first slot, by id, that the key opens.
Openable(kind, kek) == {s \in OfKind(kind) : s.kek = kek}
FirstOf(set) == CHOOSE s \in set : \A t \in set : s.id <= t.id

AddSlot(kind, dek, kek) ==
  /\ ids' = ids + 1
  /\ slots' = slots \cup {[id |-> ids + 1, kind |-> kind, dek |-> dek, kek |-> kek]}

\* The one data key of a store that exists when the model begins.
OldKey == 1

VaultInit ==
  /\ cast \in Casts
  /\ \E pass \in Passphrases :
       /\ meta = IF cast.store = "unslotted" THEN pass ELSE NoKey
       /\ slots = IF cast.store # "established" THEN {}
                  ELSE {[id |-> 1, kind |-> "passphrase", dek |-> OldKey, kek |-> pass]}
  /\ ids = IF cast.store = "established" THEN 1 ELSE 0
  /\ rows \in [Creds -> IF cast.store = "fresh" THEN {NoRow}
                        ELSE {NoRow, [dek |-> OldKey, revoked |-> FALSE]}]
  /\ keyring = NoKey /\ session = NoKey
  /\ keys = IF cast.store = "fresh" THEN 0 ELSE OldKey
  /\ cmd = [p \in Procs |-> NoCommand]
  /\ mishaps = {}

-----------------------------------------------------------------------------
(* The ladder of open_store and open_store_for_commit.                     *)

\* QFS_PASSPHRASE or the answer to a prompt, if it comes to that; lock opens
\* nothing.
StartCommand(p) ==
  /\ CommandAt(p, "idle")
  /\ \E what \in cast.does[p], pass \in Passphrases \cup {NoKey} :
       cmd' = [cmd EXCEPT ![p] = [NoCommand EXCEPT !.does = what, !.pass = pass,
                !.at = IF what = "lock" THEN "ready" ELSE "keychain"]]
  /\ UNCHANGED <<castVars, storeVars, hostVars, keys>>

OpenByKeychain(p) ==
  /\ CommandAt(p, "keychain") /\ Openable("keychain", keyring) # {}
  /\ Unlocked(p, FirstOf(Openable("keychain", keyring)).dek)
  /\ UNCHANGED <<castVars, storeVars, hostVars, keys>>

\* Nothing enrolled, a stale entry, or no secret service on this host just now.
KeychainUnavailable(p) ==
  /\ CommandAt(p, "keychain")
  /\ Step(p, "session")
  /\ UNCHANGED <<castVars, storeVars, hostVars, keys>>

\* The file alone opens the store; the slots are not asked, and may be those of
\* another store by now.
OpenBySession(p) ==
  /\ CommandAt(p, "session") /\ session # NoKey
  /\ Unlocked(p, session)
  /\ mishaps' = IF session \in {s.dek : s \in slots} THEN mishaps
                ELSE mishaps \cup {"session outlived its store"}
  /\ UNCHANGED <<cast, storeVars, hostVars, keys>>

NoSession(p) ==
  /\ CommandAt(p, "session") /\ session = NoKey
  /\ Step(p, "passphrase")
  /\ UNCHANGED <<castVars, storeVars, hostVars, keys>>

\* A prompted passphrase leaves a session behind, best effort.
MaybeMintSession(dek) == session' \in {session, dek}

OpenByPassphrase(p) ==
  /\ CommandAt(p, "passphrase") /\ Openable("passphrase", cmd[p].pass) # {}
  /\ LET dek == FirstOf(Openable("passphrase", cmd[p].pass)).dek
     IN  Unlocked(p, dek) /\ MaybeMintSession(dek)
  /\ UNCHANGED <<castVars, storeVars, keyring, keys>>

\* A fresh store has no slot at all.
\* Mutant: no passphrase slot counts as fresh.
FreshStore_NoPassphrase == OfKind("passphrase") = {}
FreshStore == slots = {}

StillLocked(p) ==
  /\ CommandAt(p, "passphrase")
  /\ \/ cmd[p].pass = NoKey
     \/ ~ FreshStore /\ Openable("passphrase", cmd[p].pass) = {}
  /\ Finish(p)
  /\ UNCHANGED <<castVars, storeVars, hostVars, keys>>

\* The load found no slot: a data key is minted, and its wrap inserted by a
\* later statement.
MintDataKey(p) ==
  /\ CommandAt(p, "passphrase") /\ cmd[p].pass # NoKey /\ FreshStore /\ keys < MaxKeys
  /\ keys' = keys + 1
  /\ cmd' = [cmd EXCEPT ![p].at = "init", ![p].dek = keys + 1]
  /\ UNCHANGED <<castVars, storeVars, hostVars>>

InsertFirstSlot(p) ==
  /\ CommandAt(p, "init") /\ ids < MaxSlots
  /\ AddSlot("passphrase", cmd[p].dek, cmd[p].pass)
  /\ Unlocked(p, cmd[p].dek)
  /\ MaybeMintSession(cmd[p].dek)
  /\ mishaps' = IF \A q \in Procs \ {p} : ~ CommandAt(q, "init") THEN mishaps
                ELSE mishaps \cup {"two founders"}
  /\ UNCHANGED <<cast, meta, rows, keyring, keys>>

-----------------------------------------------------------------------------
(* Credentials: one statement each.                                        *)

\* put keeps the mark of a revoked credential, rotate clears it.
Put(p) ==
  /\ Does(p, "put")
  /\ \E c \in Creds : rows' = [rows EXCEPT ![c].dek = cmd[p].dek]
  /\ Finish(p)
  /\ UNCHANGED <<castVars, slotVars, hostVars, keys>>

RotateCredential(p) ==
  /\ Does(p, "rotate")
  /\ \E c \in Creds : rows' = [rows EXCEPT ![c] = [dek |-> cmd[p].dek, revoked |-> FALSE]]
  /\ Finish(p)
  /\ UNCHANGED <<castVars, slotVars, hostVars, keys>>

RevokeCredential(p) ==
  /\ Does(p, "revoke")
  /\ \E c \in Creds : /\ Present(c)
                      /\ rows' = [rows EXCEPT ![c].revoked = TRUE]
  /\ Finish(p)
  /\ UNCHANGED <<castVars, slotVars, hostVars, keys>>

RemoveCredential(p) ==
  /\ Does(p, "remove")
  /\ \E c \in Creds : rows' = [rows EXCEPT ![c] = NoRow]
  /\ Finish(p)
  /\ UNCHANGED <<castVars, slotVars, hostVars, keys>>

-----------------------------------------------------------------------------
(* qfs vault enroll keychain: list, set the entry, insert the slot.        *)

NotYetEnrolled(p) ==
  /\ Does(p, "enroll") /\ OfKind("keychain") = {}
  /\ Step(p, "set entry")
  /\ UNCHANGED <<castVars, storeVars, hostVars, keys>>

\* The entry is somebody else's: a slot has come, or one is on its way, or who
\* revoked one has the entry still to delete.
EntryIsShared(p) ==
  \/ OfKind("keychain") # {}
  \/ \E q \in Procs \ {p} : CommandAt(q, "enroll") \/ CommandAt(q, "delete entry")

SetEntry(p) ==
  /\ CommandAt(p, "set entry") /\ keys < MaxKeys
  /\ keys' = keys + 1 /\ keyring' = keys + 1
  /\ cmd' = [cmd EXCEPT ![p].at = "enroll", ![p].kek = keys + 1]
  /\ mishaps' = IF EntryIsShared(p) THEN mishaps \cup {"entry was shared"} ELSE mishaps
  /\ UNCHANGED <<cast, storeVars, session>>

EnrollSlot(p) ==
  /\ CommandAt(p, "enroll") /\ ids < MaxSlots
  /\ AddSlot("keychain", cmd[p].dek, cmd[p].kek)
  /\ Finish(p)
  /\ UNCHANGED <<castVars, meta, rows, hostVars, keys>>

(* qfs vault revoke: look the slot up, delete it, delete the entry.        *)

FindSlot(p) ==
  /\ \E kind \in {"keychain", "passphrase"} :
       /\ Does(p, IF kind = "keychain" THEN "drop keychain" ELSE "drop passphrase")
       /\ \E s \in OfKind(kind) :
            cmd' = [cmd EXCEPT ![p].at = "delete slot", ![p].slot = s]
  /\ UNCHANGED <<castVars, storeVars, hostVars, keys>>

\* The guard is in the statement that deletes: another slot remains.
MayDelete(id) == (\E s \in slots : s.id = id) /\ (\E s \in slots : s.id # id)

DeleteSlot(p) ==
  /\ CommandAt(p, "delete slot") /\ MayDelete(cmd[p].slot.id)
  /\ slots' = {s \in slots : s.id # cmd[p].slot.id}
  /\ IF cmd[p].slot.kind = "keychain" THEN Step(p, "delete entry") ELSE Finish(p)
  /\ UNCHANGED <<castVars, ids, meta, rows, hostVars, keys>>

\* Mutant: a refusal is not noticed, and the command goes on.
SlotRefused_Ignored(p) ==
  /\ CommandAt(p, "delete slot") /\ ~ MayDelete(cmd[p].slot.id)
  /\ IF cmd[p].slot.kind = "keychain" THEN Step(p, "delete entry") ELSE Finish(p)
  /\ UNCHANGED <<castVars, storeVars, hostVars, keys>>
SlotRefused(p) ==
  /\ CommandAt(p, "delete slot") /\ ~ MayDelete(cmd[p].slot.id)
  /\ Finish(p)
  /\ UNCHANGED <<castVars, storeVars, hostVars, keys>>

\* Whatever entry is there by now.
DeleteEntry(p) ==
  /\ CommandAt(p, "delete entry")
  /\ keyring' = NoKey
  /\ Finish(p)
  /\ UNCHANGED <<castVars, storeVars, session, keys>>

(* qfs vault rekey: read the slots, wrap again, update the row by its id.   *)

Rewrap(p) ==
  /\ Does(p, "rekey") /\ Openable("passphrase", cmd[p].pass) # {}
  /\ \E new \in Passphrases :
       cmd' = [cmd EXCEPT ![p].at = "rewrap", ![p].kek = new,
                          ![p].slot = FirstOf(Openable("passphrase", cmd[p].pass))]
  /\ UNCHANGED <<castVars, storeVars, hostVars, keys>>

\* The row as the statement writes it, around the data key read before.
NewWrap(p) == [cmd[p].slot EXCEPT !.kek = cmd[p].kek]

UpdateSlot(p) ==
  /\ CommandAt(p, "rewrap")
  /\ slots' = {IF s.id = cmd[p].slot.id THEN NewWrap(p) ELSE s : s \in slots}
  /\ Finish(p)
  /\ UNCHANGED <<castVars, ids, meta, rows, hostVars, keys>>

-----------------------------------------------------------------------------
(* The session, and the world around.                                      *)

ForceMintSession(p) ==
  /\ Does(p, "unlock")
  /\ session' \in {session, cmd[p].dek}
  /\ Finish(p)
  /\ UNCHANGED <<castVars, storeVars, keyring, keys>>

PurgeSession(p) ==
  /\ Does(p, "lock")
  /\ session' = NoKey
  /\ Finish(p)
  /\ UNCHANGED <<castVars, storeVars, keyring, keys>>

SessionEnds ==
  /\ session # NoKey
  /\ session' = NoKey
  /\ UNCHANGED <<castVars, storeVars, keyring, keys, cmd>>

\* A command ends with an error, or its process dies.
GiveUp(p) ==
  /\ ~ CommandAt(p, "idle")
  /\ Finish(p)
  /\ UNCHANGED <<castVars, storeVars, hostVars, keys>>

\* rm project.db, with no command running; the next open creates it anew.
DeleteStore ==
  /\ cast.deletes /\ \A p \in Procs : CommandAt(p, "idle")
  /\ slots' = {} /\ ids' = 0 /\ meta' = NoKey
  /\ rows' = [c \in Creds |-> NoRow]
  /\ mishaps' = {}
  /\ UNCHANGED <<cast, hostVars, keys, cmd>>

Command(p) ==
  \/ StartCommand(p) \/ OpenByKeychain(p) \/ KeychainUnavailable(p)
  \/ OpenBySession(p) \/ NoSession(p) \/ OpenByPassphrase(p) \/ StillLocked(p)
  \/ MintDataKey(p) \/ InsertFirstSlot(p)
  \/ Put(p) \/ RotateCredential(p) \/ RevokeCredential(p) \/ RemoveCredential(p)
  \/ NotYetEnrolled(p) \/ SetEntry(p) \/ EnrollSlot(p)
  \/ FindSlot(p) \/ DeleteSlot(p) \/ SlotRefused(p) \/ DeleteEntry(p)
  \/ Rewrap(p) \/ UpdateSlot(p)
  \/ ForceMintSession(p) \/ PurgeSession(p)

\* The migration that introduced the slots: the old wrap becomes slot 1.
CopyOldWrap ==
  /\ IF meta = NoKey THEN UNCHANGED <<slots, ids>>
     ELSE AddSlot("passphrase", OldKey, meta)
  /\ meta' = NoKey
  /\ UNCHANGED <<castVars, rows, hostVars, keys, cmd>>

-----------------------------------------------------------------------------
Wraps == [kind : {"passphrase", "keychain"}, id : 1 .. MaxSlots,
          dek : 1 .. MaxKeys, kek : Passphrases \cup 1 .. MaxKeys]

VaultTypeOK ==
  /\ cast \in Casts
  /\ slots \subseteq Wraps /\ ids \in 0 .. MaxSlots
  /\ meta \in {NoKey} \cup Passphrases
  /\ rows \in [Creds -> [dek : {NoKey} \cup 1 .. MaxKeys, revoked : BOOLEAN]]
  /\ keyring \in {NoKey} \cup 1 .. MaxKeys /\ session \in {NoKey} \cup 1 .. MaxKeys
  /\ keys \in 0 .. MaxKeys
  /\ mishaps \subseteq {"two founders", "session outlived its store", "entry was shared"}

\* Everything the vault holds is sealed with the one key that its slots wrap
\* (secret_store.rs:12, a data key recorded once; vault.rs:219, "the passphrase
\* slot remains as recovery").
OneDataKey ==
  LET dataKeys == {s.dek : s \in slots} \cup (IF meta = NoKey THEN {} ELSE {OldKey})
  IN  \A c \in Creds : Present(c) => dataKeys = {rows[c].dek}

\* A store with slots has one that somebody can still open: the passphrase, or
\* the entry of the OS keychain (secret_store.rs:206, the last slot is refused:
\* such a store "could never be opened again").
SomebodyOpens ==
  slots # {} => \E s \in slots : s.kind = "passphrase" \/ s.kek = keyring

\* Whichever guardian opens the store reads every credential, over enrolments,
\* revocations, changes of passphrase, sessions and a file that is deleted and
\* founded again, by any number of processes: unless two of them founded this
\* store at a time, or a cached session opened it that had outlived another.
EveryRowOpens ==
  mishaps \cap {"two founders", "session outlived its store"} = {} => OneDataKey

\* No order of enrolments and revocations bricks the store, unless one process
\* set the keychain entry while another's slot was there, on its way, or half gone.
NeverBricked == "entry was shared" \notin mishaps => SomebodyOpens

\* After a change of passphrase that reported success, the new one opens a slot
\* (vault.rs:147).  A revocation between its read and its update breaks it.
RekeyTakes ==
  [][\A p \in Procs : UpdateSlot(p) =>
       \E s \in slots' : s.kind = "passphrase" /\ s.kek = cmd[p].kek]_vaultVars
=============================================================================

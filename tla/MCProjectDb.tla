---------------------------- MODULE MCProjectDb ----------------------------
(* The instances of ProjectDb that TLC checks. *)
EXTENDS ProjectDb, TLC

CONSTANTS a, b, old, new

MCBodies == {"account column", "first comments", "secrets", "slots", "unknown"}

\* Version 1 was shipped with three bodies: one named a column differently, one
\* differs from today's in its comments.
MCSchemaOf == ("account column" :> "account") @@ ("first comments" :> "connection")
              @@ ("secrets" :> "connection") @@ ("slots" :> "slots")
              @@ ("unknown" :> "other")
MCSuperseded == ("account column" :> "secrets") @@ ("first comments" :> "secrets")

Today == <<"secrets", "slots">>
OneRelease == [p \in Openers |-> Today]
\* b is a process of the release that knew only the first bodies.
TwoReleases == (a :> Today) @@ (b :> <<"account column", "slots">>)

Past == {<<Absent, Absent>>, <<"account column", Absent>>, <<"first comments", Absent>>,
         <<"secrets", Absent>>, Today, <<"account column", "slots">>,
         <<"unknown", Absent>>}
Empty == {<<Absent, Absent>>}
OldColumn == {<<"account column", Absent>>}

Symmetry == Permutations(Passphrases)

None == [p \in Procs |-> {}]
Found(stores, does) == {[store |-> s, does |-> does, deletes |-> FALSE] : s \in stores}
Deleting(casts) == {[c EXCEPT !.deletes = TRUE] : c \in casts}

Ordinary == {"put", "rotate", "revoke", "remove", "rekey", "unlock", "lock"}

\* Two processes share the slots, the session and the credentials; one does all
\* that an unslotted store allows, or a fresh one; two found a store, which is
\* deleted and founded again while a session is left; two enrol and revoke on the
\* one entry of the keychain.
TwoFounders == Deleting(Found({"fresh"}, [p \in Procs |-> {"put", "unlock"}]))
TwoOnKeychain == Found({"established"}, [p \in Procs |-> {"enroll", "drop keychain", "drop passphrase"}])

MCCasts ==
  Found({"unslotted", "established"},
        (a :> {"put", "enroll", "drop keychain"}) @@ (b :> {"put", "drop passphrase", "rekey", "unlock"}))
  \cup Found({"unslotted"}, (a :> Ordinary) @@ (b :> {"lock"}))
  \cup Found({"fresh"}, [None EXCEPT ![a] = Commands])
  \cup Deleting(Found({"established"}, [None EXCEPT ![a] = {"enroll", "drop keychain", "unlock"}]))
  \cup TwoFounders \cup TwoOnKeychain

\* Openers that do nothing else; a change of passphrase beside a revocation.
OpenersOnly == Found({"fresh"}, None)
RekeyBesideRevoke == Found({"established"}, (a :> {"enroll", "rekey"}) @@ (b :> {"drop passphrase"}))
=============================================================================

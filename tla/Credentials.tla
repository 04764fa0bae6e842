---------------------------- MODULE Credentials ----------------------------
(***************************************************************************)
(* One-shot credentials: sessions, authorization codes and refresh handles *)
(* behind the /authorize and /token handlers (qfs/src/oauth.rs), and       *)
(* invites (qfs/src/invite.rs), over their stores (store/src/              *)
(* session_store.rs, oauth_store.rs, invite_store.rs).                     *)
(*                                                                         *)
(* A store call is one transaction of one connection and is atomic; a      *)
(* handler is a sequence of calls, and handlers run side by side.  A call  *)
(* may fail at any time (the database is locked by another process, the    *)
(* disk is full).  A token is its number: its plaintext is known to whoever*)
(* was given it, its hash is the store's key.  Validation that reads the   *)
(* request alone (PKCE, CSRF, redirect allowlist) is not modelled but for  *)
(* what it makes a handler do.                                             *)
(***************************************************************************)
EXTENDS Naturals, FiniteSets

CONSTANTS
  Slots,      \* handlers that can run at once
  Roles,      \* what each slot may serve: a set of functions from Slots
  Invites, Emails,
  MaxTokens   \* bound: tokens minted

ASSUME CredentialConstants ==
  /\ Roles \subseteq [Slots -> {"browser", "app", "invitee", "inviter"}]
  /\ MaxTokens \in Nat

VARIABLES
  role,       \* the role of each slot
  minted,     \* tokens minted so far
  sessions,   \* sessions: live rows [id, root], root the sign-in they go back to
  codes,      \* oauth_codes: live rows [id, root], root the code itself
  handles,    \* oauth_refresh_tokens: live rows [id, root], root the code
  held,       \* tokens given to a client
  req,        \* the handler running in each slot
  invites,    \* invites: the state of each row
  members,    \* memberships: rows [invite, email]
  users       \* users: e-mail addresses

oauthVars  == <<minted, sessions, codes, handles, held>>
inviteVars == <<invites, members, users>>
vars == <<role, oauthVars, req, inviteVars>>

-----------------------------------------------------------------------------
(* A handler: where it is, the token it works for, the tokens its answer   *)
(* will carry.                                                             *)
Idle == [at |-> "idle", token |-> 0, root |-> 0, gives |-> {}]
At(r, place) == req[r].at = place
Done(r) == req' = [req EXCEPT ![r] = Idle]
Goto(r, place, root, gives) ==
  req' = [req EXCEPT ![r] = [at |-> place, token |-> 0, root |-> root, gives |-> gives]]

Fresh == minted + 1
MayMint == minted < MaxTokens
Row(id, root) == [id |-> id, root |-> root]
Live(table, id) == \E row \in table : row.id = id
Without(table, id) == {row \in table : row.id # id}
\* What a token goes back to; one without a row, to itself.
RootOf(table, id) ==
  IF Live(table, id) THEN (CHOOSE row \in table : row.id = id).root ELSE id

Init ==
  /\ role \in Roles
  /\ minted = 0 /\ sessions = {} /\ codes = {} /\ handles = {} /\ held = {}
  /\ req = [r \in Slots |-> Idle]
  /\ invites = [i \in Invites |-> "open"] /\ members = {} /\ users = {}

-----------------------------------------------------------------------------
(* POST /authorize.                                                        *)

\* authenticate: the cookie's session is live.
Authenticate(r) ==
  /\ role[r] = "browser" /\ At(r, "idle")
  /\ \E s \in held : /\ Live(sessions, s)
                     /\ req' = [req EXCEPT ![r] = [Idle EXCEPT !.at = "consent", !.token = s]]
  /\ UNCHANGED <<role, oauthVars, inviteVars>>

\* No live session: the password sign-in issues one.
SignIn(r) ==
  /\ role[r] = "browser" /\ At(r, "idle") /\ MayMint
  /\ minted' = Fresh
  /\ sessions' = sessions \cup {Row(Fresh, Fresh)}
  /\ Goto(r, "mint", 0, {Fresh})
  /\ UNCHANGED <<role, codes, handles, held, inviteVars>>

\* Mutant: the rotated session stays valid.
Replaced_KeepsOld(table, old, row) == table \cup {row}
Replaced(table, old, row) == Without(table, old) \cup {row}

\* Mutant: the session is not looked up again.
Rotatable_Unchecked(id) == TRUE
Rotatable(id) == Live(sessions, id)

\* rotate_session: a new row for the same user, the old one deleted.
Rotate(r) ==
  /\ At(r, "consent") /\ Rotatable(req[r].token) /\ MayMint
  /\ minted' = Fresh
  /\ sessions' = Replaced(sessions, req[r].token,
                          Row(Fresh, RootOf(sessions, req[r].token)))
  /\ Goto(r, "mint", 0, {Fresh})
  /\ UNCHANGED <<role, codes, handles, held, inviteVars>>

\* It fails, or the session is gone by now: the handler goes on without.
RotateFails(r) ==
  /\ At(r, "consent")
  /\ Goto(r, "mint", 0, {})
  /\ UNCHANGED <<role, oauthVars, inviteVars>>

MintCode(r) ==
  /\ At(r, "mint") /\ MayMint
  /\ minted' = Fresh
  /\ codes' = codes \cup {Row(Fresh, Fresh)}
  /\ Goto(r, "answer", 0, req[r].gives \cup {Fresh})
  /\ UNCHANGED <<role, sessions, handles, held, inviteVars>>

\* insert_code fails, or the form carries no decision: the error answer has no
\* Set-Cookie.
MintFails(r) ==
  /\ At(r, "mint")
  /\ Done(r)
  /\ UNCHANGED <<role, oauthVars, inviteVars>>

-----------------------------------------------------------------------------
(* POST /token.                                                            *)

\* Mutant: the presented handle is read and not deleted.
Burned_Never(table, id) == table
Burned(table, id) == Without(table, id)

TakeCode(r) ==
  /\ role[r] = "app" /\ At(r, "idle")
  /\ \E c \in held : /\ Live(codes, c)
                     /\ codes' = Without(codes, c)
                     /\ Goto(r, "issue", RootOf(codes, c), {})
  /\ UNCHANGED <<role, minted, sessions, handles, held, inviteVars>>

TakeRefresh(r) ==
  /\ role[r] = "app" /\ At(r, "idle")
  /\ \E h \in held : /\ Live(handles, h)
                     /\ handles' = Burned(handles, h)
                     /\ Goto(r, "issue", RootOf(handles, h), {})
  /\ UNCHANGED <<role, minted, sessions, codes, held, inviteVars>>

\* Another client's token, another redirect, a wrong verifier, a signature
\* that fails: refused, and the token is burned all the same.
RefuseBurned(r) ==
  /\ At(r, "issue")
  /\ Done(r)
  /\ UNCHANGED <<role, oauthVars, inviteVars>>

\* insert_refresh, insert_refresh_rotated: the outcome is ignored.
Issue(r) ==
  /\ At(r, "issue") /\ MayMint
  /\ minted' = Fresh
  /\ \/ handles' = handles \cup {Row(Fresh, req[r].root)}
     \/ UNCHANGED handles
  /\ Goto(r, "answer", req[r].root, {Fresh})
  /\ UNCHANGED <<role, sessions, codes, held, inviteVars>>

-----------------------------------------------------------------------------
(* Answers, expiry, restarts. *)

Answer(r) ==
  /\ At(r, "answer")
  /\ held' = held \cup req[r].gives
  /\ Done(r)
  /\ UNCHANGED <<role, minted, sessions, codes, handles, inviteVars>>

\* The connection is gone.
LoseAnswer(r) ==
  /\ At(r, "answer")
  /\ Done(r)
  /\ UNCHANGED <<role, oauthVars, inviteVars>>

\* A row past its expires_at is never returned again, whenever it is reaped.
Expire ==
  /\ \E id \in 1..minted :
       /\ Live(sessions, id) \/ Live(codes, id) \/ Live(handles, id)
       /\ sessions' = Without(sessions, id)
       /\ codes' = Without(codes, id)
       /\ handles' = Without(handles, id)
  /\ UNCHANGED <<role, minted, held, req, inviteVars>>

Restart ==
  /\ \E r \in Slots : ~At(r, "idle")
  /\ req' = [r \in Slots |-> Idle]
  /\ UNCHANGED <<role, oauthVars, inviteVars>>

-----------------------------------------------------------------------------
(* Invites.  accept_invite reads the row, creates the user and membership  *)
(* and burns the invite in one transaction that starts with a read: the    *)
(* commands of other processes commit between its read and its writes.     *)
(* (SQLite also refuses to write on an outdated snapshot; that refusal is  *)
(* one of the failures, and nothing below relies on it.)                   *)

Look(r) ==
  /\ role[r] = "invitee" /\ At(r, "idle")
  /\ \E i \in Invites : /\ invites[i] = "open"
                        /\ Goto(r, "accept", i, {})
  /\ UNCHANGED <<role, oauthVars, inviteVars>>

\* Mutant: the burn does not look at the row again.
Burnable_Always(i) == TRUE
\* UPDATE ... WHERE consumed_at IS NULL AND revoked_at IS NULL.
Burnable(i) == invites[i] \in {"open", "expired"}

Accept(r) ==
  /\ At(r, "accept")
  /\ LET i == req[r].root
     IN  /\ Burnable(i)
         /\ \E e \in Emails \ users : /\ users' = users \cup {e}
                                      /\ members' = members \cup {[invite |-> i, email |-> e]}
         /\ invites' = [invites EXCEPT ![i] = "consumed"]
  /\ Done(r)
  /\ UNCHANGED <<role, oauthVars>>

\* A duplicate address, a row burned meanwhile, a busy database: all rolled
\* back, the invite unspent by this attempt.
AcceptFails(r) ==
  /\ At(r, "accept")
  /\ Done(r)
  /\ UNCHANGED <<role, oauthVars, inviteVars>>

Revoke(r) ==
  /\ role[r] = "inviter" /\ At(r, "idle")
  /\ \E i \in Invites : /\ Burnable(i)
                        /\ invites' = [invites EXCEPT ![i] = "revoked"]
  /\ UNCHANGED <<role, oauthVars, req, members, users>>

ExpireInvite(r) ==
  /\ role[r] = "inviter"
  /\ \E i \in Invites : /\ invites[i] = "open"
                        /\ invites' = [invites EXCEPT ![i] = "expired"]
  /\ UNCHANGED <<role, oauthVars, req, members, users>>

-----------------------------------------------------------------------------
Next ==
  \/ \E r \in Slots :
       \/ Authenticate(r) \/ SignIn(r) \/ Rotate(r) \/ RotateFails(r)
       \/ MintCode(r) \/ MintFails(r)
       \/ TakeCode(r) \/ TakeRefresh(r) \/ RefuseBurned(r) \/ Issue(r)
       \/ Answer(r) \/ LoseAnswer(r)
       \/ Look(r) \/ Accept(r) \/ AcceptFails(r) \/ Revoke(r) \/ ExpireInvite(r)
  \/ Expire
  \/ Restart

Spec == Init /\ [][Next]_vars

-----------------------------------------------------------------------------
(* Properties. *)

Rows == [id : 1..minted, root : 1..minted]
TypeOK ==
  /\ role \in Roles /\ minted \in 0..MaxTokens
  /\ sessions \subseteq Rows /\ codes \subseteq Rows /\ handles \subseteq Rows
  /\ held \subseteq 1..minted
  /\ invites \in [Invites -> {"open", "consumed", "revoked", "expired"}]
  /\ members \subseteq [invite : Invites, email : Emails]
  /\ users \subseteq Emails

\* One consent, one live credential: the code, the request that has burned it
\* and not yet stored its successor, and the handles rotated from it are never
\* two at a time, whatever is retried, replayed, answered late or lost
\* (take_refresh: "the presented handle is burned so a replay finds nothing").
OfRoot(table, g) == {row.id : row \in {x \in table : x.root = g}}
Exchanging(g) == {r \in Slots : At(r, "issue") /\ req[r].root = g}
ConsentHasOneCredential ==
  \A g \in 1..minted :
    Cardinality(OfRoot(codes, g)) + Cardinality(OfRoot(handles, g))
      + Cardinality(Exchanging(g)) <= 1

\* One sign-in, one live session: two consents submitted from one browser at
\* the same time leave one successor of its session (rotate, "so its token can
\* no longer resolve").
SignInHasOneSession ==
  \A g \in 1..minted : Cardinality(OfRoot(sessions, g)) <= 1

\* What is over stays over: a token that was burned, replaced or has expired
\* never resolves again, and once nothing is left of a sign-in or a consent no
\* handler brings it back, however long ago it read the session, code or handle
\* it works for (rotate, "the OLD session must still be live").
Resolving == {row.id : row \in sessions \cup codes \cup handles}
SignIns   == {row.root : row \in sessions}
Consents  == {row.root : row \in codes \cup handles}
             \cup {req[r].root : r \in {x \in Slots : At(x, "issue")}}
OverStaysOver ==
  [][/\ Resolving' \subseteq Resolving \cup {Fresh}
     /\ SignIns' \subseteq SignIns \cup {Fresh}
     /\ Consents' \subseteq Consents \cup {Fresh}]_vars

\* An invite makes one member or none: exactly one when it is consumed, none
\* when it was revoked first, and no user without the membership the invite
\* granted, though several commands redeem and revoke it at once
\* (accept_invite: "GUARDED so a concurrent redeem cannot also consume it").
InviteMakesOneMember ==
  /\ \A i \in Invites :
       Cardinality({m \in members : m.invite = i})
         = IF invites[i] = "consumed" THEN 1 ELSE 0
  /\ users = {m.email : m \in members}

\* The refresh handle an answer carries was stored before.  Violated: the
\* outcome of its insert is ignored.
AnsweredIsStored ==
  [][\A r \in Slots :
       At(r, "issue") /\ req'[r].at = "answer" =>
         \A h \in req'[r].gives : Live(handles', h)]_vars
=============================================================================

------------------------- MODULE Credentials_proofs -------------------------
(***************************************************************************)
(* Proofs about the stores of the database file: first Credentials, for    *)
(* any number of handlers, tokens, invites and users, then Migration and   *)
(* Vault as ProjectDb composes them, for any number of processes.          *)
(*                                                                         *)
(* The three properties of Credentials count rows; the inductive invariant *)
(* says the same without counting: two places that hold a credential of    *)
(* one consent, or a session of one sign-in, are the same place.           *)
(***************************************************************************)
EXTENDS Credentials, ProjectDb, FiniteSetTheorems, WellFoundedInduction, TLAPS

Places == {"idle", "consent", "mint", "issue", "answer", "accept"}

\* The requests there can be when m tokens have been minted.
Requests(m) == [at : Places, token : Nat, root : Nat \cup Invites, gives : SUBSET (1..m)]

\* A handler works for tokens that were minted, or for an invite.
ReqOK ==
  /\ req \in [Slots -> Requests(minted)]
  /\ \A r \in Slots : /\ At(r, "issue") => req[r].root \in 1..minted
                      /\ At(r, "accept") => req[r].root \in Invites

\* No two rows go back to the same root.
OneRowPerRoot(table) == \A x, y \in table : x.root = y.root => x = y

\* A code is its own root, and whatever holds a credential of a consent, a
\* code, a handle or a request that exchanges one, is the only one that does.
OneHolder ==
  /\ \A x \in codes : x.id = x.root
  /\ OneRowPerRoot(handles)
  /\ \A x \in codes, y \in handles : x.root # y.root
  /\ \A r \in Slots : At(r, "issue") => \A x \in codes \cup handles : x.root # req[r].root
  /\ \A r, s \in Slots : At(r, "issue") /\ At(s, "issue") /\ req[r].root = req[s].root => r = s

\* The members an invite has made.
MembersBy(i) == {m \in members : m.invite = i}
OneMember ==
  /\ \A i \in Invites : IF invites[i] = "consumed" THEN \E m \in members : MembersBy(i) = {m}
                                                   ELSE MembersBy(i) = {}
  /\ users = {m.email : m \in members}

IInv == TypeOK /\ ReqOK /\ OneHolder /\ OneRowPerRoot(sessions) /\ OneMember

-----------------------------------------------------------------------------
(* The invariant without counting gives the properties that count.         *)

LEMMA AtMostOne ==
  ASSUME NEW S, \A x, y \in S : x = y
  PROVE  Cardinality(S) = IF S = {} THEN 0 ELSE 1
  <1>1. CASE S = {}
    BY <1>1, FS_EmptySet
  <1>2. CASE S # {}
    <2>1. PICK x \in S : S = {x}
      BY <1>2
    <2>2. Cardinality({x}) = 1
      BY FS_Singleton
    <2>3. QED
      BY <1>2, <2>1, <2>2
  <1>3. QED
    BY <1>1, <1>2

LEMMA InvariantCounts ==
  ASSUME IInv
  PROVE  ConsentHasOneCredential /\ SignInHasOneSession /\ InviteMakesOneMember
  <1> USE DEF IInv
  <1>1. ConsentHasOneCredential
    <2> SUFFICES ASSUME NEW g \in 1..minted
                 PROVE  Cardinality(OfRoot(codes, g)) + Cardinality(OfRoot(handles, g))
                          + Cardinality(Exchanging(g)) <= 1
      BY DEF ConsentHasOneCredential
    <2> DEFINE C == OfRoot(codes, g)
               H == OfRoot(handles, g)
               X == Exchanging(g)
    <2>1. \A i, j \in C : i = j
      BY DEF OneHolder, OfRoot
    <2>2. \A i, j \in H : i = j
      BY DEF OneHolder, OneRowPerRoot, OfRoot
    <2>3. \A r, s \in X : r = s
      BY DEF OneHolder, Exchanging
    <2>4. C = {} \/ H = {}
      BY DEF OneHolder, OfRoot
    <2>5. X = {} \/ (C = {} /\ H = {})
      <3>1. ASSUME NEW r \in X PROVE \A x \in codes \cup handles : x.root # g
        BY <3>1 DEF OneHolder, Exchanging
      <3>2. QED
        BY <3>1 DEF OfRoot
    <2> HIDE DEF C, H, X
    <2>6. /\ Cardinality(C) = IF C = {} THEN 0 ELSE 1
          /\ Cardinality(H) = IF H = {} THEN 0 ELSE 1
          /\ Cardinality(X) = IF X = {} THEN 0 ELSE 1
      BY <2>1, <2>2, <2>3, AtMostOne
    <2>7. Cardinality(C) + Cardinality(H) + Cardinality(X) <= 1
      BY <2>4, <2>5, <2>6
    <2>8. QED
      BY <2>7 DEF C, H, X
  <1>2. SignInHasOneSession
    <2> SUFFICES ASSUME NEW g \in 1..minted PROVE Cardinality(OfRoot(sessions, g)) <= 1
      BY DEF SignInHasOneSession
    <2>1. \A i, j \in OfRoot(sessions, g) : i = j
      BY DEF OneRowPerRoot, OfRoot
    <2>2. QED
      BY <2>1, AtMostOne
  <1>3. InviteMakesOneMember
    <2>1. ASSUME NEW i \in Invites
          PROVE  Cardinality(MembersBy(i)) = IF invites[i] = "consumed" THEN 1 ELSE 0
      BY FS_EmptySet, FS_Singleton DEF OneMember
    <2>2. QED
      BY <2>1 DEF InviteMakesOneMember, OneMember, MembersBy
  <1>4. QED
    BY <1>1, <1>2, <1>3

-----------------------------------------------------------------------------
LEMMA InitIInv == Init => IInv
  <1> SUFFICES ASSUME Init PROVE IInv
    OBVIOUS
  <1>1. TypeOK
    BY CredentialConstants DEF Init, TypeOK
  <1>2. ReqOK
    BY DEF Init, ReqOK, Requests, Idle, Places, At
  <1>3. OneHolder /\ OneRowPerRoot(sessions)
    BY DEF Init, OneHolder, OneRowPerRoot, At, Idle
  <1>4. OneMember
    BY DEF Init, OneMember, MembersBy
  <1>5. QED
    BY <1>1, <1>2, <1>3, <1>4 DEF IInv

-----------------------------------------------------------------------------
(* What a handler's step does to its request.                              *)

\* The place a handler goes to, and what it takes along.
LEMMA GotoFacts ==
  ASSUME ReqOK, NEW r \in Slots, NEW place, NEW root, NEW gives, Goto(r, place, root, gives)
  PROVE  /\ req'[r].at = place /\ req'[r].root = root
         /\ \A s \in Slots \ {r} : req'[s] = req[s]
  BY DEF ReqOK, Goto

\* Every step of a handler works for what was minted by then.
LEMMA ReqMoves ==
  ASSUME ReqOK, minted \in Nat, minted' \in Nat, minted <= minted',
         NEW r \in Slots, NEW q \in Requests(minted'),
         q.at = "issue" => q.root \in 1..minted',
         q.at = "accept" => q.root \in Invites,
         req' = [req EXCEPT ![r] = q]
  PROVE  ReqOK'
  <1>1. Requests(minted) \subseteq Requests(minted') /\ 1..minted \subseteq 1..minted'
    <2>1. SUBSET (1..minted) \subseteq SUBSET (1..minted')
      OBVIOUS
    <2>2. QED
      BY <2>1 DEF Requests
  <1>2. req \in [Slots -> Requests(minted')]
    BY <1>1 DEF ReqOK
  <1>3. req' \in [Slots -> Requests(minted')]
    BY <1>2
  <1>4. \A s \in Slots : req'[s] = IF s = r THEN q ELSE req[s]
    BY <1>2
  <1>5. QED
    BY <1>1, <1>3, <1>4 DEF ReqOK, At

\* A token of a live row: the row that answers for it is one of the table's.
LEMMA LiveRow ==
  ASSUME NEW table, NEW id, Live(table, id)
  PROVE  \E row \in table : row.id = id /\ row.root = RootOf(table, id)
  BY DEF Live, RootOf

-----------------------------------------------------------------------------
(* Types.                                                                  *)

LEMMA TypeStep ==
  ASSUME TypeOK, ReqOK, [Next]_vars
  PROVE  TypeOK' /\ ReqOK'
  <1> USE CredentialConstants
  <1>1. /\ minted \in Nat /\ minted <= MaxTokens
        /\ \A T \in SUBSET Rows : \A n : Without(T, n) \subseteq T
    BY DEF TypeOK, Without
  <1>2. /\ 1..minted \subseteq 1..Fresh /\ Fresh \in Nat /\ Fresh \in 1..Fresh
        /\ Rows \subseteq [id : 1..Fresh, root : 1..Fresh]
        /\ MayMint => Fresh \in 0..MaxTokens
    BY <1>1 DEF Fresh, Rows, MayMint
  <1>3. \A r \in Slots : req[r] \in Requests(minted)
    BY DEF ReqOK
  <1>4. \A r \in Slots : \A place, root, gives :
          Goto(r, place, root, gives)
            <=> req' = [req EXCEPT ![r] = [at |-> place, token |-> 0, root |-> root, gives |-> gives]]
    BY DEF Goto
  <1>5. ASSUME NEW r \in Slots, Done(r), UNCHANGED minted PROVE ReqOK'
    <2>1. Idle \in Requests(minted') /\ Idle.at = "idle"
      BY <1>1 DEF Idle, Places, Requests
    <2>2. minted \in Nat /\ minted' \in Nat /\ minted <= minted'
      BY <1>1, <1>5
    <2>3. req' = [req EXCEPT ![r] = Idle]
      BY <1>5 DEF Done
    <2>4. /\ Idle.at = "issue" => Idle.root \in 1..minted'
          /\ Idle.at = "accept" => Idle.root \in Invites
      BY <2>1
    <2>5. QED
      BY <2>1, <2>2, <2>3, <2>4, ReqMoves
  <1>6. ASSUME NEW r \in Slots, NEW place \in Places \ {"issue", "accept"}, NEW root \in Nat,
               NEW gives \in SUBSET (1..minted'), Goto(r, place, root, gives),
               minted' \in {minted, Fresh}
        PROVE  ReqOK'
    <2> DEFINE q == [at |-> place, token |-> 0, root |-> root, gives |-> gives]
    <2>1. q \in Requests(minted') /\ q.at = place
      BY DEF Requests
    <2>2. minted \in Nat /\ minted' \in Nat /\ minted <= minted'
      BY <1>1, <1>2, <1>6 DEF Fresh
    <2>3. req' = [req EXCEPT ![r] = q]
      BY <1>4, <1>6
    <2>4. /\ q.at = "issue" => q.root \in 1..minted'
          /\ q.at = "accept" => q.root \in Invites
      BY <2>1
    <2> HIDE DEF q
    <2>5. QED
      BY <2>1, <2>2, <2>3, <2>4, ReqMoves
  <1>7. ASSUME NEW r \in Slots, NEW root, Goto(r, "issue", root, {}), root \in 1..minted,
               UNCHANGED minted
        PROVE  ReqOK'
    <2> DEFINE q == [at |-> "issue", token |-> 0, root |-> root, gives |-> {}]
    <2>1. q \in Requests(minted') /\ q.at = "issue" /\ q.root = root
      BY <1>7 DEF Places, Requests
    <2>2. req' = [req EXCEPT ![r] = q]
      BY <1>4, <1>7
    <2>3. minted \in Nat /\ minted' \in Nat /\ minted <= minted'
      BY <1>1, <1>7
    <2>4. /\ q.at = "issue" => q.root \in 1..minted'
          /\ q.at = "accept" => q.root \in Invites
      BY <1>7, <2>1
    <2> HIDE DEF q
    <2>5. QED
      BY <2>1, <2>2, <2>3, <2>4, ReqMoves
  <1>8. ASSUME NEW r \in Slots, NEW i \in Invites, Goto(r, "accept", i, {}), UNCHANGED minted
        PROVE  ReqOK'
    <2> DEFINE q == [at |-> "accept", token |-> 0, root |-> i, gives |-> {}]
    <2>1. q \in Requests(minted') /\ q.at = "accept" /\ q.root = i
      BY DEF Places, Requests
    <2>2. req' = [req EXCEPT ![r] = q]
      BY <1>4, <1>8
    <2>3. minted \in Nat /\ minted' \in Nat /\ minted <= minted'
      BY <1>1, <1>8
    <2>4. /\ q.at = "issue" => q.root \in 1..minted'
          /\ q.at = "accept" => q.root \in Invites
      BY <1>8, <2>1
    <2> HIDE DEF q
    <2>5. QED
      BY <2>1, <2>2, <2>3, <2>4, ReqMoves
  <1>9. ASSUME NEW r \in Slots, Authenticate(r) PROVE TypeOK' /\ ReqOK'
    <2>1. PICK s \in held : req' = [req EXCEPT ![r] = [Idle EXCEPT !.at = "consent", !.token = s]]
      BY <1>9 DEF Authenticate
    <2> DEFINE q == [Idle EXCEPT !.at = "consent", !.token = s]
    <2>2. s \in Nat
      BY DEF TypeOK
    <2>3. q \in Requests(minted) /\ q.at = "consent"
      BY <2>2 DEF Idle, Places, Requests
    <2>4. UNCHANGED <<role, oauthVars, inviteVars>>
      BY <1>9 DEF Authenticate
    <2>5. req' = [req EXCEPT ![r] = q]
      BY <2>1
    <2>6. minted' = minted /\ minted \in Nat /\ minted' \in Nat /\ minted <= minted'
      BY <1>1, <2>4 DEF oauthVars
    <2>7. /\ q.at = "issue" => q.root \in 1..minted'
          /\ q.at = "accept" => q.root \in Invites
      BY <2>3
    <2> HIDE DEF q
    <2>8. q \in Requests(minted')
      BY <2>3, <2>6
    <2>9. ReqOK'
      BY <2>5, <2>6, <2>7, <2>8, ReqMoves
    <2>10. QED
      BY <2>4, <2>9 DEF TypeOK, Rows, oauthVars, inviteVars
  <1>10. ASSUME NEW r \in Slots, SignIn(r) PROVE TypeOK' /\ ReqOK'
    <2>1. ReqOK'
      BY <1>2, <1>6, <1>10 DEF SignIn, Places
    <2>2. Row(Fresh, Fresh) \in [id : 1..Fresh, root : 1..Fresh]
      BY <1>2 DEF Row
    <2>3. QED
      BY <1>2, <1>10, <2>1, <2>2 DEF SignIn, TypeOK, Rows, inviteVars
  <1>11. ASSUME NEW r \in Slots, Rotate(r) PROVE TypeOK' /\ ReqOK'
    <2>1. ReqOK'
      BY <1>2, <1>6, <1>11 DEF Rotate, Places
    <2>2. RootOf(sessions, req[r].token) \in 1..minted
      BY <1>11, LiveRow DEF Rotate, Rotatable, TypeOK, Rows
    <2>3. Row(Fresh, RootOf(sessions, req[r].token)) \in [id : 1..Fresh, root : 1..Fresh]
      BY <1>2, <2>2 DEF Row
    <2>4. Replaced(sessions, req[r].token, Row(Fresh, RootOf(sessions, req[r].token)))
            \subseteq [id : 1..Fresh, root : 1..Fresh]
      BY <1>1, <1>2, <2>3 DEF Replaced, TypeOK
    <2>5. QED
      BY <1>2, <1>11, <2>1, <2>4 DEF Rotate, TypeOK, Rows, inviteVars
  <1>12. ASSUME NEW r \in Slots, RotateFails(r) \/ MintFails(r) \/ RefuseBurned(r)
                                 \/ LoseAnswer(r) \/ AcceptFails(r)
         PROVE  TypeOK' /\ ReqOK'
    <2>1. UNCHANGED <<role, oauthVars, inviteVars>>
      BY <1>12 DEF RotateFails, MintFails, RefuseBurned, LoseAnswer, AcceptFails
    <2>2. ReqOK'
      BY <1>5, <1>6, <1>12, <2>1 DEF RotateFails, MintFails, RefuseBurned, LoseAnswer, AcceptFails,
         Places, oauthVars
    <2>3. QED
      BY <2>1, <2>2 DEF TypeOK, Rows, oauthVars, inviteVars
  <1>13. ASSUME NEW r \in Slots, MintCode(r) PROVE TypeOK' /\ ReqOK'
    <2>1. req[r].gives \cup {Fresh} \in SUBSET (1..Fresh)
      BY <1>2, <1>3 DEF Requests
    <2>2. ReqOK'
      BY <1>2, <1>6, <1>13, <2>1 DEF MintCode, Places
    <2>3. Row(Fresh, Fresh) \in [id : 1..Fresh, root : 1..Fresh]
      BY <1>2 DEF Row
    <2>4. QED
      BY <1>2, <1>13, <2>2, <2>3 DEF MintCode, TypeOK, Rows, inviteVars
  <1>14. ASSUME NEW r \in Slots, TakeCode(r) PROVE TypeOK' /\ ReqOK'
    <2>1. PICK c \in held : /\ Live(codes, c) /\ codes' = Without(codes, c)
                            /\ Goto(r, "issue", RootOf(codes, c), {})
      BY <1>14 DEF TakeCode
    <2>2. RootOf(codes, c) \in 1..minted
      BY <2>1, LiveRow DEF TypeOK, Rows
    <2>3. UNCHANGED <<role, minted, sessions, handles, held, inviteVars>>
      BY <1>14 DEF TakeCode
    <2>4. QED
      BY <1>1, <1>7, <2>1, <2>2, <2>3 DEF TypeOK, Rows, inviteVars
  <1>15. ASSUME NEW r \in Slots, TakeRefresh(r) PROVE TypeOK' /\ ReqOK'
    <2>1. PICK h \in held : /\ Live(handles, h) /\ handles' = Without(handles, h)
                            /\ Goto(r, "issue", RootOf(handles, h), {})
      BY <1>15 DEF TakeRefresh, Burned
    <2>2. RootOf(handles, h) \in 1..minted
      BY <2>1, LiveRow DEF TypeOK, Rows
    <2>3. UNCHANGED <<role, minted, sessions, codes, held, inviteVars>>
      BY <1>15 DEF TakeRefresh
    <2>4. QED
      BY <1>1, <1>7, <2>1, <2>2, <2>3 DEF TypeOK, Rows, inviteVars
  <1>16. ASSUME NEW r \in Slots, Issue(r) PROVE TypeOK' /\ ReqOK'
    <2>1. req[r].root \in 1..minted
      BY <1>16 DEF Issue, ReqOK
    <2>2. ReqOK'
      BY <1>2, <1>6, <1>16, <2>1 DEF Issue, Places
    <2>3. Row(Fresh, req[r].root) \in [id : 1..Fresh, root : 1..Fresh]
      BY <1>2, <2>1 DEF Row
    <2>4. QED
      BY <1>2, <1>16, <2>2, <2>3 DEF Issue, TypeOK, Rows, inviteVars
  <1>17. ASSUME NEW r \in Slots, Answer(r) PROVE TypeOK' /\ ReqOK'
    <2>1. req[r].gives \subseteq 1..minted
      BY <1>3 DEF Requests
    <2>2. QED
      BY <1>5, <1>17, <2>1 DEF Answer, TypeOK, Rows, inviteVars
  <1>18. ASSUME NEW r \in Slots, Look(r) PROVE TypeOK' /\ ReqOK'
    BY <1>8, <1>18 DEF Look, TypeOK, Rows, oauthVars, inviteVars
  <1>19. ASSUME NEW r \in Slots, Accept(r) PROVE TypeOK' /\ ReqOK'
    <2>1. req[r].root \in Invites
      BY <1>19 DEF Accept, ReqOK
    <2>2. QED
      BY <1>5, <1>19, <2>1 DEF Accept, TypeOK, Rows, oauthVars
  <1>20. ASSUME NEW r \in Slots, Revoke(r) \/ ExpireInvite(r) PROVE TypeOK' /\ ReqOK'
    <2>1. UNCHANGED <<role, oauthVars, req, members, users>>
      BY <1>20 DEF Revoke, ExpireInvite
    <2>2. QED
      BY <1>20, <2>1 DEF Revoke, ExpireInvite, TypeOK, ReqOK, Rows, oauthVars, At
  <1>21. CASE Expire
    BY <1>1, <1>21 DEF Expire, TypeOK, ReqOK, Rows, inviteVars, At
  <1>22. CASE Restart
    <2>1. Idle \in Requests(minted) /\ Idle.at = "idle"
      BY <1>1 DEF Idle, Places, Requests
    <2>2. UNCHANGED <<role, oauthVars, inviteVars>> /\ req' = [r \in Slots |-> Idle]
      BY <1>22 DEF Restart
    <2>3. ReqOK'
      BY <2>1, <2>2 DEF ReqOK, At, oauthVars
    <2>4. QED
      BY <2>2, <2>3 DEF TypeOK, Rows, oauthVars, inviteVars
  <1>23. CASE UNCHANGED vars
    BY <1>23 DEF vars, oauthVars, inviteVars, TypeOK, ReqOK, Rows, At
  <1>24. QED
    BY <1>9, <1>10, <1>11, <1>12, <1>13, <1>14, <1>15, <1>16, <1>17, <1>18, <1>19, <1>20, <1>21,
       <1>22, <1>23 DEF Next

-----------------------------------------------------------------------------
(* One session per sign-in.                                                *)

LEMMA SessionStep ==
  ASSUME TypeOK, OneRowPerRoot(sessions), [Next]_vars
  PROVE  OneRowPerRoot(sessions)'
  <1> USE DEF OneRowPerRoot
  <1>1. /\ sessions \subseteq [id : 1..minted, root : 1..minted]
        /\ minted \in Nat /\ Fresh = minted + 1
    BY DEF TypeOK, Rows, Fresh
  <1>2. ASSUME sessions' \subseteq sessions PROVE OneRowPerRoot(sessions)'
    BY <1>2
  <1>3. ASSUME NEW r \in Slots, SignIn(r) PROVE OneRowPerRoot(sessions)'
    <2>1. sessions' = sessions \cup {Row(Fresh, Fresh)} /\ Row(Fresh, Fresh).root = Fresh
      BY <1>3 DEF SignIn, Row
    <2>2. \A x \in sessions : x.root # Fresh
      BY <1>1
    <2>3. QED
      BY <2>1, <2>2
  <1>4. ASSUME NEW r \in Slots, Rotate(r) PROVE OneRowPerRoot(sessions)'
    <2> DEFINE old == req[r].token
               new == Row(Fresh, RootOf(sessions, old))
    <2>1. Live(sessions, old) /\ sessions' = Without(sessions, old) \cup {new}
      BY <1>4 DEF Rotate, Rotatable, Replaced
    <2>2. PICK x \in sessions : x.id = old /\ x.root = RootOf(sessions, old)
      BY <2>1, LiveRow
    <2>3. new.root = x.root
      BY <2>2 DEF Row
    <2>4. \A y \in Without(sessions, old) : y \in sessions /\ y # x
      BY <2>2 DEF Without
    <2>5. \A y \in Without(sessions, old) : y.root # new.root
      BY <2>2, <2>3, <2>4
    <2> HIDE DEF new
    <2>6. QED
      BY <2>1, <2>4, <2>5
  <1>5. CASE \A r \in Slots : ~ SignIn(r) /\ ~ Rotate(r)
    <2>1. sessions' \subseteq sessions
      BY <1>5 DEF Next, vars, oauthVars, Authenticate, RotateFails, MintCode, MintFails, TakeCode,
         TakeRefresh, RefuseBurned, Issue, Answer, LoseAnswer, Look, Accept, AcceptFails, Revoke,
         ExpireInvite, Expire, Restart, Without
    <2>2. QED
      BY <1>2, <2>1
  <1>6. QED
    BY <1>3, <1>4, <1>5

-----------------------------------------------------------------------------
(* One holder per consent.                                                 *)

\* Nothing is added, and nobody starts an exchange.
HoldersShrink ==
  /\ codes' \subseteq codes /\ handles' \subseteq handles
  /\ \A r \in Slots : req'[r].at = "issue" => req'[r] = req[r]

\* The code or handle with this token is burned by a request that starts to
\* exchange it, and by nobody else.
Exchanges(r, root) ==
  /\ codes' \subseteq codes /\ handles' \subseteq handles
  /\ req'[r].at = "issue" /\ req'[r].root = root
  /\ \A s \in Slots \ {r} : req'[s] = req[s]
  /\ \E x \in codes \cup handles : x.root = root
  /\ \A x \in codes' \cup handles' : x.root # root

LEMMA HolderShrinks ==
  ASSUME OneHolder, HoldersShrink
  PROVE  OneHolder'
  BY DEF OneHolder, OneRowPerRoot, HoldersShrink, At

LEMMA HolderExchanges ==
  ASSUME OneHolder, NEW r \in Slots, NEW root, Exchanges(r, root)
  PROVE  OneHolder'
  <1>1. \A s \in Slots \ {r} : At(s, "issue") => req[s].root # root
    BY DEF OneHolder, Exchanges
  <1>2. QED
    BY <1>1 DEF OneHolder, OneRowPerRoot, Exchanges, At

LEMMA TakeExchanges ==
  ASSUME ReqOK, OneHolder, NEW r \in Slots, TakeCode(r) \/ TakeRefresh(r)
  PROVE  OneHolder'
  <1>1. CASE TakeCode(r)
    <2>1. PICK c \in held : /\ Live(codes, c) /\ codes' = Without(codes, c)
                            /\ Goto(r, "issue", RootOf(codes, c), {})
      BY <1>1 DEF TakeCode
    <2>2. handles' = handles
      BY <1>1 DEF TakeCode
    <2>3. PICK x \in codes : x.id = c /\ x.root = RootOf(codes, c)
      BY <2>1, LiveRow
    <2>4. \A y \in codes' : y \in codes /\ y.id # c
      BY <2>1 DEF Without
    <2>5. \A y \in codes' \cup handles' : y.root # RootOf(codes, c)
      BY <2>2, <2>3, <2>4 DEF OneHolder
    <2>6. Exchanges(r, RootOf(codes, c))
      BY <2>1, <2>2, <2>3, <2>4, <2>5, GotoFacts DEF Exchanges
    <2>7. QED
      BY <2>6, HolderExchanges
  <1>2. CASE TakeRefresh(r)
    <2>1. PICK h \in held : /\ Live(handles, h) /\ handles' = Without(handles, h)
                            /\ Goto(r, "issue", RootOf(handles, h), {})
      BY <1>2 DEF TakeRefresh, Burned
    <2>2. codes' = codes
      BY <1>2 DEF TakeRefresh
    <2>3. PICK x \in handles : x.id = h /\ x.root = RootOf(handles, h)
      BY <2>1, LiveRow
    <2>4. \A y \in handles' : y \in handles /\ y # x
      BY <2>1, <2>3 DEF Without
    <2>5. \A y \in codes' \cup handles' : y.root # RootOf(handles, h)
      BY <2>2, <2>3, <2>4 DEF OneHolder, OneRowPerRoot
    <2>6. Exchanges(r, RootOf(handles, h))
      BY <2>1, <2>2, <2>3, <2>4, <2>5, GotoFacts DEF Exchanges
    <2>7. QED
      BY <2>6, HolderExchanges
  <1>3. QED
    BY <1>1, <1>2

\* The handle a request stores takes over from the request.
LEMMA IssueHolds ==
  ASSUME ReqOK, OneHolder, NEW r \in Slots, Issue(r)
  PROVE  OneHolder'
  <1> DEFINE g == req[r].root
  <1>1. /\ At(r, "issue") /\ codes' = codes
        /\ handles' = handles \/ handles' = handles \cup {Row(Fresh, g)}
        /\ Goto(r, "answer", g, {Fresh})
    BY DEF Issue
  <1>2. req'[r].at = "answer" /\ \A s \in Slots \ {r} : req'[s] = req[s]
    BY <1>1, GotoFacts
  <1>3. CASE handles' = handles
    <2>1. HoldersShrink
      BY <1>1, <1>2, <1>3 DEF HoldersShrink
    <2>2. QED
      BY <2>1, HolderShrinks
  <1>4. CASE handles' = handles \cup {Row(Fresh, g)}
    <2>1. Row(Fresh, g).root = g
      BY DEF Row
    <2>2. \A x \in codes \cup handles : x.root # g
      BY <1>1 DEF OneHolder
    <2>3. \A s \in Slots \ {r} : At(s, "issue") => req[s].root # g
      BY <1>1 DEF OneHolder
    <2> HIDE DEF g
    <2>4. QED
      BY <1>1, <1>2, <1>4, <2>1, <2>2, <2>3 DEF OneHolder, OneRowPerRoot, At
  <1>5. QED
    BY <1>1, <1>3, <1>4

\* A code that is minted starts a consent of its own.
LEMMA MintHolds ==
  ASSUME TypeOK, ReqOK, OneHolder, NEW r \in Slots, MintCode(r)
  PROVE  OneHolder'
  <1>1. /\ codes' = codes \cup {Row(Fresh, Fresh)} /\ handles' = handles
        /\ Goto(r, "answer", 0, req[r].gives \cup {Fresh})
    BY DEF MintCode
  <1>2. req'[r].at = "answer" /\ \A s \in Slots \ {r} : req'[s] = req[s]
    BY <1>1, GotoFacts
  <1>3. /\ minted \in Nat /\ Fresh = minted + 1
        /\ \A x \in codes \cup handles : x.root \in 1..minted
        /\ \A s \in Slots : At(s, "issue") => req[s].root \in 1..minted
    BY DEF TypeOK, ReqOK, Rows, Fresh
  <1>4. /\ Row(Fresh, Fresh).id = Fresh /\ Row(Fresh, Fresh).root = Fresh
        /\ \A x \in codes \cup handles : x.root # Fresh
        /\ \A s \in Slots : At(s, "issue") => req[s].root # Fresh
    BY <1>3 DEF Row
  <1>5. QED
    BY <1>1, <1>2, <1>4 DEF OneHolder, OneRowPerRoot, At

LEMMA HolderStep ==
  ASSUME TypeOK, ReqOK, OneHolder, [Next]_vars
  PROVE  OneHolder'
  <1>1. ASSUME NEW r \in Slots, NEW q, req' = [req EXCEPT ![r] = q], q.at # "issue",
               codes' \subseteq codes, handles' \subseteq handles
        PROVE  OneHolder'
    <2>1. \A s \in Slots : req'[s] = IF s = r THEN q ELSE req[s]
      BY <1>1 DEF ReqOK
    <2>2. HoldersShrink
      BY <1>1, <2>1 DEF HoldersShrink
    <2>3. QED
      BY <2>2, HolderShrinks
  <1>2. ASSUME codes' \subseteq codes, handles' \subseteq handles, UNCHANGED req PROVE OneHolder'
    BY <1>2, HolderShrinks DEF HoldersShrink
  <1>3. Idle.at = "idle" /\ \A s : [Idle EXCEPT !.at = "consent", !.token = s].at = "consent"
    BY DEF Idle
  <1>4. ASSUME NEW r \in Slots,
               \/ Authenticate(r) \/ SignIn(r) \/ Rotate(r) \/ RotateFails(r) \/ MintFails(r)
               \/ RefuseBurned(r) \/ Answer(r) \/ LoseAnswer(r) \/ Look(r) \/ Accept(r)
               \/ AcceptFails(r)
        PROVE  OneHolder'
    <2>1. codes' = codes /\ handles' = handles
      BY <1>4 DEF Authenticate, SignIn, Rotate, RotateFails, MintFails, RefuseBurned, Answer,
         LoseAnswer, Look, Accept, AcceptFails, oauthVars
    <2>2. \E q : req' = [req EXCEPT ![r] = q] /\ q.at # "issue"
      <3>1. CASE Authenticate(r)
        BY <1>3, <3>1 DEF Authenticate
      <3>2. CASE Done(r)
        BY <1>3, <3>2 DEF Done
      <3>3. ASSUME NEW place, place # "issue", NEW root, NEW gives, Goto(r, place, root, gives)
            PROVE  \E q : req' = [req EXCEPT ![r] = q] /\ q.at # "issue"
        <4> DEFINE q == [at |-> place, token |-> 0, root |-> root, gives |-> gives]
        <4>1. req' = [req EXCEPT ![r] = q] /\ q.at # "issue"
          BY <3>3 DEF Goto
        <4> HIDE DEF q
        <4>2. QED
          BY <4>1
      <3>4. QED
        BY <1>4, <3>1, <3>2, <3>3 DEF SignIn, Rotate, RotateFails, MintFails, RefuseBurned, Answer,
           LoseAnswer, Look, Accept, AcceptFails
    <2>3. QED
      BY <1>1, <2>1, <2>2
  <1>5. CASE Restart
    <2>1. HoldersShrink
      BY <1>3, <1>5 DEF Restart, HoldersShrink, oauthVars
    <2>2. QED
      BY <2>1, HolderShrinks
  <1>6. CASE Expire \/ UNCHANGED vars \/ \E r \in Slots : Revoke(r) \/ ExpireInvite(r)
    BY <1>2, <1>6 DEF Expire, Revoke, ExpireInvite, Without, vars, oauthVars
  <1>7. QED
    BY <1>4, <1>5, <1>6, TakeExchanges, IssueHolds, MintHolds DEF Next

-----------------------------------------------------------------------------
(* One member per invite.                                                  *)

LEMMA MemberStep ==
  ASSUME TypeOK, ReqOK, OneMember, [Next]_vars
  PROVE  OneMember'
  <1> USE DEF OneMember
  <1>1. ASSUME UNCHANGED inviteVars PROVE OneMember'
    BY <1>1 DEF inviteVars, MembersBy
  <1>2. ASSUME NEW r \in Slots, Accept(r) PROVE OneMember'
    <2>1. PICK i \in Invites : i = req[r].root
      BY <1>2 DEF Accept, ReqOK
    <2>2. PICK e \in Emails \ users : /\ users' = users \cup {e}
                                       /\ members' = members \cup {[invite |-> i, email |-> e]}
      BY <1>2, <2>1 DEF Accept
    <2>3. /\ invites[i] # "consumed" /\ invites' = [invites EXCEPT ![i] = "consumed"]
      BY <1>2, <2>1 DEF Accept, Burnable
    <2> DEFINE m == [invite |-> i, email |-> e]
    <2>4. m.invite = i /\ m.email = e /\ members' = members \cup {m}
      BY <2>2
    <2>5. invites'[i] = "consumed" /\ \A j \in Invites \ {i} : invites'[j] = invites[j]
      BY <2>3 DEF TypeOK
    <2> HIDE DEF m
    <2>6. MembersBy(i)' = MembersBy(i) \cup {m} /\ MembersBy(i) = {}
      BY <2>3, <2>4 DEF MembersBy
    <2>7. \A j \in Invites \ {i} : MembersBy(j)' = MembersBy(j)
      BY <2>4 DEF MembersBy
    <2>8. users' = {n.email : n \in members'}
      BY <2>2, <2>4
    <2>9. ASSUME NEW j \in Invites
          PROVE  IF invites'[j] = "consumed" THEN \E n \in members' : MembersBy(j)' = {n}
                                             ELSE MembersBy(j)' = {}
      <3>1. CASE j = i
        BY <2>4, <2>5, <2>6, <3>1
      <3>2. CASE j # i
        BY <2>4, <2>5, <2>7, <3>2
      <3>3. QED
        BY <3>1, <3>2
    <2>10. QED
      BY <2>8, <2>9
  <1>3. ASSUME NEW r \in Slots, Revoke(r) \/ ExpireInvite(r) PROVE OneMember'
    <2>1. PICK i \in Invites : /\ invites[i] # "consumed"
                               /\ \E to \in {"revoked", "expired"} : invites' = [invites EXCEPT ![i] = to]
      BY <1>3 DEF Revoke, ExpireInvite, Burnable
    <2>2. UNCHANGED <<members, users>>
      BY <1>3 DEF Revoke, ExpireInvite
    <2>3. \A j \in Invites : invites'[j] = "consumed" <=> invites[j] = "consumed"
      BY <2>1 DEF TypeOK
    <2>4. \A j : MembersBy(j)' = MembersBy(j)
      BY <2>2 DEF MembersBy
    <2>5. QED
      BY <2>2, <2>3, <2>4
  <1>4. CASE \A r \in Slots : ~ Accept(r) /\ ~ Revoke(r) /\ ~ ExpireInvite(r)
    <2>1. UNCHANGED inviteVars
      BY <1>4 DEF Next, vars, inviteVars, Authenticate, SignIn, Rotate, RotateFails, MintCode,
         MintFails, TakeCode, TakeRefresh, RefuseBurned, Issue, Answer, LoseAnswer, Look,
         AcceptFails, Expire, Restart
    <2>2. QED
      BY <1>1, <2>1
  <1>5. QED
    BY <1>2, <1>3, <1>4

-----------------------------------------------------------------------------
(* What is over stays over.                                                *)

\* A session that appears is a new token, of a new sign-in or of one that has
\* a session.
LEMMA SessionsCarryOn ==
  ASSUME Next, NEW x \in sessions'
  PROVE  \/ x \in sessions
         \/ x.id = Fresh /\ (x.root = Fresh \/ x.root \in SignIns)
  <1>1. ASSUME NEW r \in Slots, SignIn(r)
        PROVE  x \in sessions \/ (x.id = Fresh /\ x.root = Fresh)
    BY <1>1 DEF SignIn, Row
  <1>2. ASSUME NEW r \in Slots, Rotate(r)
        PROVE  x \in sessions \/ (x.id = Fresh /\ x.root \in SignIns)
    <2> DEFINE old == req[r].token
    <2>1. /\ Live(sessions, old)
          /\ sessions' = Without(sessions, old) \cup {Row(Fresh, RootOf(sessions, old))}
      BY <1>2 DEF Rotate, Rotatable, Replaced
    <2>2. RootOf(sessions, old) \in SignIns
      BY <2>1, LiveRow DEF SignIns
    <2>3. QED
      BY <2>1, <2>2 DEF Without, Row
  <1>3. CASE \A r \in Slots : ~ SignIn(r) /\ ~ Rotate(r)
    BY <1>3 DEF Next, oauthVars, Authenticate, RotateFails, MintCode, MintFails, TakeCode,
       TakeRefresh, RefuseBurned, Issue, Answer, LoseAnswer, Look, Accept, AcceptFails, Revoke,
       ExpireInvite, Expire, Restart, Without
  <1>4. QED
    BY <1>1, <1>2, <1>3

\* A code that appears is a new token of a consent of its own.
LEMMA CodesCarryOn ==
  ASSUME Next, NEW x \in codes'
  PROVE  x \in codes \/ (x.id = Fresh /\ x.root = Fresh)
  <1>1. ASSUME NEW r \in Slots, MintCode(r)
        PROVE  x \in codes \/ (x.id = Fresh /\ x.root = Fresh)
    BY <1>1 DEF MintCode, Row
  <1>2. CASE \A r \in Slots : ~ MintCode(r)
    BY <1>2 DEF Next, oauthVars, Authenticate, SignIn, Rotate, RotateFails, MintFails, TakeCode,
       TakeRefresh, RefuseBurned, Issue, Answer, LoseAnswer, Look, Accept, AcceptFails, Revoke,
       ExpireInvite, Expire, Restart, Without
  <1>3. QED
    BY <1>1, <1>2

\* A handle that appears is a new token of the consent its request exchanges.
LEMMA HandlesCarryOn ==
  ASSUME Next, NEW x \in handles'
  PROVE  x \in handles \/ (x.id = Fresh /\ x.root \in Consents)
  <1>1. ASSUME NEW r \in Slots, Issue(r)
        PROVE  x \in handles \/ (x.id = Fresh /\ x.root \in Consents)
    <2>1. x \in handles \/ x = Row(Fresh, req[r].root)
      BY <1>1 DEF Issue
    <2>2. req[r].root \in Consents
      BY <1>1 DEF Issue, Consents
    <2>3. QED
      BY <2>1, <2>2 DEF Row
  <1>2. CASE \A r \in Slots : ~ Issue(r)
    BY <1>2 DEF Next, oauthVars, Authenticate, SignIn, Rotate, RotateFails, MintCode, MintFails,
       TakeCode, TakeRefresh, Burned, RefuseBurned, Answer, LoseAnswer, Look, Accept, AcceptFails,
       Revoke, ExpireInvite, Expire, Restart, Without
  <1>3. QED
    BY <1>1, <1>2

\* A request that starts to exchange a token works for the consent of a live
\* one.
LEMMA ExchangesCarryOn ==
  ASSUME ReqOK, Next, NEW s \in Slots, req'[s].at = "issue"
  PROVE  req'[s].root \in Consents
  <1>1. CASE req'[s] = req[s]
    BY <1>1 DEF Consents, At
  <1>2. ASSUME NEW r \in Slots, NEW table, table = codes \/ table = handles,
               NEW t, Live(table, t), Goto(r, "issue", RootOf(table, t), {})
        PROVE  req'[s] = req[s] \/ req'[s].root \in Consents
    <2>1. RootOf(table, t) \in Consents
      BY <1>2, LiveRow DEF Consents
    <2>2. CASE s = r
      BY <1>2, <2>1, <2>2, GotoFacts
    <2>3. CASE s # r
      BY <1>2, <2>3, GotoFacts
    <2>4. QED
      BY <2>2, <2>3
  <1>3. ASSUME NEW r \in Slots, TakeCode(r) \/ TakeRefresh(r)
        PROVE  req'[s] = req[s] \/ req'[s].root \in Consents
    <2>1. CASE TakeCode(r)
      <3>1. PICK c \in held : Live(codes, c) /\ Goto(r, "issue", RootOf(codes, c), {})
        BY <2>1 DEF TakeCode
      <3>2. QED
        BY <1>2, <3>1
    <2>2. CASE TakeRefresh(r)
      <3>1. PICK h \in held : Live(handles, h) /\ Goto(r, "issue", RootOf(handles, h), {})
        BY <2>2 DEF TakeRefresh
      <3>2. QED
        BY <1>2, <3>1
    <2>3. QED
      BY <1>3, <2>1, <2>2
  <1>4. ASSUME NEW r \in Slots, NEW q, q.at # "issue", req' = [req EXCEPT ![r] = q]
        PROVE  req'[s] = req[s]
    BY <1>4 DEF ReqOK
  <1>5. Idle.at # "issue" /\ \A t : [Idle EXCEPT !.at = "consent", !.token = t].at # "issue"
    BY DEF Idle
  <1>6. ASSUME NEW r \in Slots, NEW place, place # "issue", NEW root, NEW gives,
               Goto(r, place, root, gives)
        PROVE  req'[s] = req[s]
    BY <1>4, <1>6 DEF Goto
  <1>7. ASSUME NEW r \in Slots, Done(r)  PROVE req'[s] = req[s]
    BY <1>4, <1>5, <1>7 DEF Done
  <1>8. ASSUME NEW r \in Slots, Authenticate(r)  PROVE req'[s] = req[s]
    BY <1>4, <1>5, <1>8 DEF Authenticate
  <1>9. ~ Restart
    BY <1>5 DEF Restart
  <1>10. CASE \A r \in Slots : ~ TakeCode(r) /\ ~ TakeRefresh(r) /\ ~ Authenticate(r)
    <2>1. \/ UNCHANGED req
          \/ \E r \in Slots : Done(r)
          \/ \E r \in Slots, place \in Places \ {"issue"} :
               \E root, gives : Goto(r, place, root, gives)
      BY <1>9, <1>10 DEF Next, SignIn, Rotate, RotateFails, MintCode, MintFails, RefuseBurned,
         Issue, Answer, LoseAnswer, Look, Accept, AcceptFails, Revoke, ExpireInvite, Expire, Places
    <2>2. QED
      BY <1>1, <1>6, <1>7, <2>1
  <1>11. QED
    BY <1>1, <1>3, <1>8, <1>10

LEMMA CarryOn ==
  ASSUME ReqOK, Next
  PROVE  /\ Resolving' \subseteq Resolving \cup {Fresh}
         /\ SignIns' \subseteq SignIns \cup {Fresh}
         /\ Consents' \subseteq Consents \cup {Fresh}
  <1>1. ASSUME NEW x \in sessions' \cup codes' \cup handles'
        PROVE  x.id \in Resolving \cup {Fresh}
    BY SessionsCarryOn, CodesCarryOn, HandlesCarryOn DEF Resolving
  <1>2. ASSUME NEW x \in sessions'  PROVE x.root \in SignIns \cup {Fresh}
    BY SessionsCarryOn DEF SignIns
  <1>3. ASSUME NEW x \in codes' \cup handles'  PROVE x.root \in Consents \cup {Fresh}
    BY CodesCarryOn, HandlesCarryOn DEF Consents
  <1>4. ASSUME NEW g \in Consents'  PROVE g \in Consents \cup {Fresh}
    <2>1. \/ \E x \in codes' \cup handles' : g = x.root
          \/ \E s \in Slots : req'[s].at = "issue" /\ g = req'[s].root
      BY DEF Consents, At
    <2>2. QED
      BY <1>3, <2>1, ExchangesCarryOn
  <1>5. QED
    BY <1>1, <1>2, <1>4 DEF Resolving, SignIns

-----------------------------------------------------------------------------
LEMMA Invariance == Spec => []IInv
  <1>1. Init => IInv
    BY InitIInv
  <1>2. IInv /\ [Next]_vars => IInv'
    <2> SUFFICES ASSUME IInv, [Next]_vars PROVE IInv'
      OBVIOUS
    <2>1. /\ TypeOK /\ ReqOK /\ OneHolder
          /\ OneRowPerRoot(sessions) /\ OneMember
      BY DEF IInv
    <2>2. TypeOK' /\ ReqOK'
      BY <2>1, TypeStep
    <2>3. OneRowPerRoot(sessions)' /\ OneHolder' /\ OneMember'
      BY <2>1, SessionStep, HolderStep, MemberStep
    <2>4. QED
      BY <2>2, <2>3 DEF IInv
  <1>3. QED
    BY <1>1, <1>2, PTL DEF Spec

\* Type correctness of the stores behind /authorize, /token and the invites.
THEOREM TypeCorrect == Spec => []TypeOK
  BY Invariance, PTL DEF IInv

\* A consent never has two live credentials: the code burned by take_code or
\* the handle burned by take_refresh and the request that replaces it are one
\* chain, however many requests present the same token at once.
THEOREM OneCredentialPerConsent == Spec => []ConsentHasOneCredential
  <1>1. IInv => ConsentHasOneCredential
    BY InvariantCounts
  <1>2. QED
    BY <1>1, Invariance, PTL

\* A sign-in never has two live sessions: rotate_session replaces the row it
\* was asked to, and a second rotation of the same cookie finds none.
THEOREM OneSessionPerSignIn == Spec => []SignInHasOneSession
  <1>1. IInv => SignInHasOneSession
    BY InvariantCounts
  <1>2. QED
    BY <1>1, Invariance, PTL

\* accept_invite's guarded UPDATE is enough: an invite makes one member when it
\* ends consumed and none otherwise, with any number of commands at once.
THEOREM OneMemberPerInvite == Spec => []InviteMakesOneMember
  <1>1. IInv => InviteMakesOneMember
    BY InvariantCounts
  <1>2. QED
    BY <1>1, Invariance, PTL

\* A burned, replaced or expired token never resolves again, and a sign-in or a
\* consent of which nothing is left is not brought back by any handler.
THEOREM NothingComesBack == Spec => OverStaysOver
  <1> DEFINE CarriesOn == /\ Resolving' \subseteq Resolving \cup {Fresh}
                          /\ SignIns' \subseteq SignIns \cup {Fresh}
                          /\ Consents' \subseteq Consents \cup {Fresh}
  <1>1. IInv /\ [Next]_vars => [CarriesOn]_vars
    BY CarryOn DEF IInv
  <1>2. QED
    BY Invariance, <1>1, PTL DEF Spec, OverStaysOver

-----------------------------------------------------------------------------
(* Migration: any number of processes that open one database file.         *)

\* A process in its open is at one of its versions, or just past the last.
Opening(p) == op[p].at \in {"check", "apply", "heal"}
AtAVersion ==
  \A p \in Openers :
    /\ Opening(p) => op[p].v \in Nat \ {0} /\ op[p].v <= LastVersion + 1
    /\ op[p].at \in {"apply", "heal"} => op[p].v <= LastVersion

\* What an open has passed is in the ledger.
PassedIsThere ==
  \A p \in Openers, v \in Versions :
    (Opening(p) /\ v < op[p].v) \/ Opened(p) => ledger[v] # Absent

\* There is something to heal.
HealIsThere ==
  \A p \in Openers : op[p].at = "heal" => op[p].v \in Versions /\ ledger[op[p].v] # Absent

MigrationIInv ==
  MigrationTypeOK /\ AtAVersion /\ PassedIsThere /\ HealIsThere /\ OpenersDoNotCollide

\* One process does a step of its open, or dies in it.
Migrating(p) == LookUp(p) \/ Apply(p) \/ DieOpening(p)

LEMMA MigrationFacts ==
  /\ LastVersion \in Nat \ {0} /\ Versions = 1 .. LastVersion
  /\ \A v : v \in Versions <=> v \in Nat \ {0} /\ v <= LastVersion
  /\ Absent \notin Bodies
  /\ \A p \in Openers, v \in Versions : Embeds[p][v] \in Bodies
  /\ \A p \in Openers : Embeds[p] = [v \in Versions |-> Embeds[p][v]]
  /\ \A found \in Ledgers : found \in [Versions -> Bodies \cup {Absent}]
  /\ \A b \in DOMAIN Superseded : b \in Bodies
  BY MigrationConstants DEF Versions

\* What there is to an open.
Opens == [at : {"closed", "check", "apply", "heal", "open", "failed"},
          v : 0 .. LastVersion + 1, prev : Bodies \cup {Absent},
          why : {"none", "mismatch", "duplicate row", "no such column", "busy"}]

LEMMA OpensFacts ==
  /\ Closed \in Opens /\ Closed.why = "none" /\ Closed.at = "closed"
  /\ \A n \in 0 .. LastVersion + 1 :
       \E r \in Opens : /\ r = [Closed EXCEPT !.at = "check", !.v = n]
                        /\ r.at = "check" /\ r.v = n /\ r.why = "none"
  /\ \A reason \in {"mismatch", "no such column", "busy"} :
       \E r \in Opens : /\ r = [Closed EXCEPT !.at = "failed", !.why = reason]
                        /\ r.at = "failed" /\ r.why # "duplicate row"
  /\ \E r \in Opens : r = [Closed EXCEPT !.at = "open"] /\ r.at = "open" /\ r.why = "none"
  <1>1. 0 \in 0 .. LastVersion + 1
    BY MigrationFacts
  <1>2. Closed \in Opens /\ Closed.why = "none" /\ Closed.at = "closed"
    BY <1>1 DEF Closed, Opens
  <1>3. ASSUME NEW n \in 0 .. LastVersion + 1
        PROVE  LET r == [Closed EXCEPT !.at = "check", !.v = n]
               IN  r \in Opens /\ r.at = "check" /\ r.v = n /\ r.why = "none"
    BY DEF Closed, Opens
  <1>4. ASSUME NEW reason \in {"mismatch", "no such column", "busy"}
        PROVE  LET r == [Closed EXCEPT !.at = "failed", !.why = reason]
               IN  r \in Opens /\ r.at = "failed" /\ r.why # "duplicate row"
    BY <1>1 DEF Closed, Opens
  <1>5. LET r == [Closed EXCEPT !.at = "open"]
        IN  r \in Opens /\ r.at = "open" /\ r.why = "none"
    BY <1>1 DEF Closed, Opens
  <1>6. \A n \in 0 .. LastVersion + 1 :
          \E r \in Opens : /\ r = [Closed EXCEPT !.at = "check", !.v = n]
                           /\ r.at = "check" /\ r.v = n /\ r.why = "none"
    BY <1>3
  <1>7. \A reason \in {"mismatch", "no such column", "busy"} :
          \E r \in Opens : /\ r = [Closed EXCEPT !.at = "failed", !.why = reason]
                           /\ r.at = "failed" /\ r.why # "duplicate row"
    BY <1>4
  <1>8. \E r \in Opens : r = [Closed EXCEPT !.at = "open"] /\ r.at = "open" /\ r.why = "none"
    BY <1>5
  <1>9. QED
    BY <1>2, <1>6, <1>7, <1>8

\* p moves its open to r.
Moves(p, r) == op' = [op EXCEPT ![p] = r]

\* A step of p's open: where it may go from where it is, and what it does to the
\* ledger.
StaysOpening(p, r) ==
  /\ r.at \in {"apply", "heal"} /\ r.v = op[p].v /\ op[p].at = "check" /\ op[p].v \in Versions
  /\ r.at = "heal" => ledger[op[p].v] # Absent
  /\ ledger' = ledger
GoesOn(p, r) ==
  /\ r.at = "check" /\ r.v = op[p].v + 1 /\ Opening(p) /\ op[p].v \in Versions
  /\ \/ ledger' = ledger /\ ledger[op[p].v] # Absent
     \/ ledger' = [ledger EXCEPT ![op[p].v] = Embeds[p][op[p].v]]
Begins(p, r) == r.at = "check" /\ r.v = 1 /\ ledger' = ledger
Ends(p, r) ==
  /\ \/ r.at \in {"closed", "failed"}
     \/ r.at = "open" /\ op[p].at = "check" /\ op[p].v \notin Versions
  /\ ledger' = ledger

LEMMA MigratingFacts ==
  ASSUME MigrationTypeOK, AtAVersion, NEW p \in Openers, Migrating(p)
  PROVE  \E r \in Opens :
           /\ Moves(p, r)
           /\ r.why = "duplicate row" => op[p].why = "duplicate row"
           /\ StaysOpening(p, r) \/ GoesOn(p, r) \/ Begins(p, r) \/ Ends(p, r)
  <1>1. op \in [Openers -> Opens] /\ op[p] \in Opens
    BY DEF MigrationTypeOK, Opens
  <1>2. op[p].at \in {"apply", "heal"} => op[p].v \in Versions
    BY <1>1, MigrationFacts DEF AtAVersion, Opening, Opens
  <1>3. op[p].v \in Versions => op[p].v + 1 \in 0 .. LastVersion + 1
    BY MigrationFacts
  <1>4. op[p].v \in Versions => Mine(p) \in Bodies /\ Mine(p) = Embeds[p][op[p].v]
    BY MigrationFacts DEF Mine
  <1>5. Absent \notin Bodies
    BY MigrationFacts
  <1>6. CASE BeginOpen(p)
    <2>1. 1 \in 0 .. LastVersion + 1
      BY MigrationFacts
    <2>2. PICK r \in Opens : r = [Closed EXCEPT !.at = "check", !.v = 1] /\ r.at = "check"
                             /\ r.v = 1 /\ r.why = "none"
      BY <2>1, OpensFacts
    <2>3. QED
      BY <1>6, <2>2 DEF BeginOpen, Moves, Begins
  <1>7. ASSUME NextVersion(p), Opening(p), op[p].v \in Versions,
               \/ ledger' = ledger /\ ledger[op[p].v] # Absent
               \/ ledger' = [ledger EXCEPT ![op[p].v] = Embeds[p][op[p].v]]
        PROVE  \E r \in Opens : Moves(p, r) /\ GoesOn(p, r) /\ r.why # "duplicate row"
    <2>1. PICK n \in 0 .. LastVersion + 1 : n = op[p].v + 1
      BY <1>3, <1>7
    <2>2. PICK r \in Opens : r = [Closed EXCEPT !.at = "check", !.v = n] /\ r.at = "check"
                             /\ r.v = n /\ r.why = "none"
      BY OpensFacts
    <2>3. QED
      BY <1>7, <2>1, <2>2 DEF NextVersion, Moves, GoesOn
  <1>8. ASSUME NEW reason \in {"mismatch", "no such column", "busy"}, Fail(p, reason), ledger' = ledger
        PROVE  \E r \in Opens : Moves(p, r) /\ Ends(p, r) /\ r.why # "duplicate row"
    <2>1. PICK r \in Opens : r = [Closed EXCEPT !.at = "failed", !.why = reason] /\ r.at = "failed"
                             /\ r.why # "duplicate row"
      BY OpensFacts
    <2>2. QED
      BY <1>8, <2>1 DEF Fail, Moves, Ends
  <1>9. CASE Verified(p)
    <2>1. NextVersion(p) /\ Opening(p) /\ op[p].v \in Versions /\ ledger' = ledger
          /\ ledger[op[p].v] # Absent
      BY <1>4, <1>5, <1>9 DEF Verified, Due, Recorded, Opening
    <2>2. QED
      BY <1>7, <2>1
  <1>10. CASE Pending(p)
    <2>1. /\ op' = [op EXCEPT ![p].at = "apply"] /\ ledger' = ledger
          /\ op[p].at = "check" /\ op[p].v \in Versions
      BY <1>10 DEF Pending, MoveTo, Due
    <2>2. PICK r \in Opens : r = [op[p] EXCEPT !.at = "apply"]
      BY <1>1 DEF Opens
    <2>3. r.at = "apply" /\ r.v = op[p].v /\ r.why = op[p].why
      BY <1>1, <2>2 DEF Opens
    <2>4. Moves(p, r)
      BY <1>1, <2>1, <2>2 DEF Moves
    <2>5. QED
      BY <2>1, <2>3, <2>4 DEF StaysOpening
  <1>11. CASE IsSuperseded(p)
    <2>1. /\ op' = [op EXCEPT ![p].at = "heal", ![p].prev = Recorded(p)] /\ ledger' = ledger
          /\ op[p].at = "check" /\ op[p].v \in Versions /\ Recorded(p) \in Bodies
          /\ ledger[op[p].v] # Absent
      BY <1>11, MigrationFacts DEF IsSuperseded, Due, Recorded
    <2>2. PICK r \in Opens : r = [op[p] EXCEPT !.at = "heal", !.prev = Recorded(p)]
      BY <1>1, <2>1 DEF Opens
    <2>3. r.at = "heal" /\ r.v = op[p].v /\ r.why = op[p].why
      BY <1>1, <2>2 DEF Opens
    <2>4. Moves(p, r)
      BY <1>1, <2>1, <2>2 DEF Moves
    <2>5. QED
      BY <2>1, <2>3, <2>4 DEF StaysOpening
  <1>12. CASE Mismatch(p)
    BY <1>8, <1>12 DEF Mismatch
  <1>13. CASE AppliedMeanwhile(p)
    <2>1. NextVersion(p) /\ Opening(p) /\ op[p].v \in Versions /\ ledger' = ledger
          /\ ledger[op[p].v] # Absent
      BY <1>2, <1>13 DEF AppliedMeanwhile, StillPending, Recorded, Opening
    <2>2. QED
      BY <1>7, <2>1
  <1>14. CASE Apply(p)
    <2>1. /\ NextVersion(p) /\ Opening(p) /\ op[p].v \in Versions
          /\ ledger' = [ledger EXCEPT ![op[p].v] = Embeds[p][op[p].v]]
      BY <1>2, <1>4, <1>14 DEF Apply, StillPending, Opening
    <2>2. QED
      BY <1>7, <2>1
  <1>15. CASE Heal(p)
    <2>1. CASE NextVersion(p) /\ ledger' = [ledger EXCEPT ![op[p].v] = Mine(p)]
      BY <1>2, <1>4, <1>7, <1>15, <2>1 DEF Heal, Opening
    <2>2. CASE Fail(p, "no such column") /\ ledger' = ledger
      BY <1>8, <2>2
    <2>3. QED
      BY <1>15, <2>1, <2>2 DEF Heal
  <1>16. CASE LockTimesOut(p)
    BY <1>8, <1>16 DEF LockTimesOut
  <1>17. CASE EndOpen(p)
    <2>1. PICK r \in Opens : r = [Closed EXCEPT !.at = "open"] /\ r.at = "open" /\ r.why = "none"
      BY OpensFacts
    <2>2. QED
      BY <1>17, <2>1 DEF EndOpen, Moves, Ends
  <1>18. CASE DieOpening(p)
    BY <1>18, OpensFacts DEF DieOpening, Moves, Ends
  <1>19. QED
    BY <1>6, <1>7, <1>9, <1>10, <1>11, <1>12, <1>13, <1>14, <1>15, <1>16, <1>17, <1>18
       DEF Migrating, LookUp

LEMMA MigratingKeeps ==
  ASSUME MigrationIInv, NEW p \in Openers, Migrating(p)
  PROVE  /\ MigrationIInv'
         /\ \A v \in Versions : ledger[v] # Absent => ledger'[v] # Absent
  <1>1. PICK r \in Opens :
           /\ Moves(p, r)
           /\ r.why = "duplicate row" => op[p].why = "duplicate row"
           /\ StaysOpening(p, r) \/ GoesOn(p, r) \/ Begins(p, r) \/ Ends(p, r)
    BY MigratingFacts DEF MigrationIInv
  <1>2. op \in [Openers -> Opens] /\ ledger \in [Versions -> Bodies \cup {Absent}]
    BY DEF MigrationIInv, MigrationTypeOK, Opens
  <1>3. op' \in [Openers -> Opens] /\ op'[p] = r /\ \A q \in Openers \ {p} : op'[q] = op[q]
    BY <1>1, <1>2 DEF Moves
  <1>4. \/ ledger' = ledger
        \/ /\ op[p].v \in Versions /\ Embeds[p][op[p].v] \in Bodies
           /\ ledger' = [ledger EXCEPT ![op[p].v] = Embeds[p][op[p].v]]
    BY <1>1, MigrationFacts DEF StaysOpening, GoesOn, Begins, Ends
  <1>5. /\ ledger' \in [Versions -> Bodies \cup {Absent}]
        /\ \A v \in Versions : ledger[v] # Absent => ledger'[v] # Absent
    BY <1>2, <1>4, MigrationFacts
  <1>6. MigrationTypeOK'
    BY <1>3, <1>5 DEF MigrationTypeOK, Opens
  <1>7. op[p].v \in Versions => op[p].v \in Nat \ {0} /\ op[p].v <= LastVersion
    BY MigrationFacts
  <1>8. /\ r.at \in {"check", "apply", "heal"} => r.v \in Nat \ {0} /\ r.v <= LastVersion + 1
        /\ r.at \in {"apply", "heal"} => r.v <= LastVersion
    <2>1. LastVersion \in Nat \ {0}
      BY MigrationFacts
    <2>2. CASE StaysOpening(p, r)
      BY <1>7, <2>1, <2>2 DEF StaysOpening
    <2>3. CASE GoesOn(p, r)
      BY <1>7, <2>1, <2>3 DEF GoesOn
    <2>4. CASE Begins(p, r)
      BY <2>1, <2>4 DEF Begins
    <2>5. CASE Ends(p, r)
      BY <2>5 DEF Ends
    <2>6. QED
      BY <1>1, <2>2, <2>3, <2>4, <2>5
  <1>9. AtAVersion'
    <2> SUFFICES ASSUME NEW q \in Openers
                 PROVE  /\ Opening(q)' => op'[q].v \in Nat \ {0} /\ op'[q].v <= LastVersion + 1
                        /\ op'[q].at \in {"apply", "heal"} => op'[q].v <= LastVersion
      BY DEF AtAVersion
    <2>1. CASE q = p
      BY <1>3, <1>8, <2>1 DEF Opening
    <2>2. CASE q # p
      BY <1>3, <2>2 DEF Opening, MigrationIInv, AtAVersion
    <2>3. QED
      BY <2>1, <2>2
  <1>10. PassedIsThere'
    <2> SUFFICES ASSUME NEW q \in Openers, NEW v \in Versions,
                        (Opening(q)' /\ v < op'[q].v) \/ Opened(q)'
                 PROVE  ledger'[v] # Absent
      BY DEF PassedIsThere
    <2>1. v \in Nat \ {0} /\ v <= LastVersion /\ LastVersion \in Nat
      BY MigrationFacts
    <2>2. CASE q # p
      <3>1. op'[q] = op[q]
        BY <1>3, <2>2
      <3>2. ledger[v] # Absent
        BY <3>1 DEF MigrationIInv, PassedIsThere, Opening, Opened
      <3>3. QED
        BY <1>5, <3>2
    <2>3. CASE q = p /\ StaysOpening(p, r)
      <3>1. Opening(p) /\ v < op[p].v
        BY <1>3, <2>3 DEF StaysOpening, Opening, Opened
      <3>2. QED
        BY <1>5, <3>1 DEF MigrationIInv, PassedIsThere
    <2>4. CASE q = p /\ GoesOn(p, r)
      <3>1. Opening(p) /\ v < op[p].v + 1 /\ op[p].v \in Versions /\ op[p].v \in Nat
        BY <1>3, <1>7, <2>4 DEF GoesOn, Opening, Opened
      <3>2. CASE v < op[p].v
        BY <1>5, <3>1, <3>2 DEF MigrationIInv, PassedIsThere
      <3>3. CASE v = op[p].v
        <4>1. ledger'[op[p].v] # Absent
          BY <1>2, <1>5, <2>4, <3>1, MigrationFacts DEF GoesOn
        <4>2. QED
          BY <3>3, <4>1
      <3>4. QED
        BY <2>1, <3>1, <3>2, <3>3
    <2>5. CASE q = p /\ Begins(p, r)
      BY <1>3, <2>1, <2>5 DEF Begins, Opening, Opened
    <2>6. CASE q = p /\ Ends(p, r)
      <3>1. op[p].at = "check" /\ op[p].v \notin Versions
        BY <1>3, <2>6 DEF Ends, Opening, Opened
      <3>2. op[p].v \in Nat \ {0} /\ ~ (op[p].v <= LastVersion) /\ Opening(p)
        BY <3>1, MigrationFacts DEF MigrationIInv, AtAVersion, Opening
      <3>3. v < op[p].v
        BY <2>1, <3>2
      <3>4. QED
        BY <1>5, <3>2, <3>3 DEF MigrationIInv, PassedIsThere
    <2>7. QED
      BY <1>1, <2>2, <2>3, <2>4, <2>5, <2>6
  <1>11. OpenersDoNotCollide'
    <2>1. op[p].why # "duplicate row"
      BY DEF MigrationIInv, OpenersDoNotCollide
    <2>2. \A q \in Openers \ {p} : op'[q].why # "duplicate row"
      BY <1>3 DEF MigrationIInv, OpenersDoNotCollide
    <2>3. op'[p].why # "duplicate row"
      BY <1>1, <1>3, <2>1
    <2>4. QED
      BY <2>2, <2>3 DEF OpenersDoNotCollide
  <1>12. HealIsThere'
    <2> SUFFICES ASSUME NEW q \in Openers, op'[q].at = "heal"
                 PROVE  op'[q].v \in Versions /\ ledger'[op'[q].v] # Absent
      BY DEF HealIsThere
    <2>1. CASE q # p
      BY <1>3, <1>5, <2>1 DEF MigrationIInv, HealIsThere
    <2>2. CASE q = p
      BY <1>1, <1>3, <1>5, <2>2 DEF StaysOpening, GoesOn, Begins, Ends
    <2>3. QED
      BY <2>1, <2>2
  <1>13. QED
    BY <1>5, <1>6, <1>9, <1>10, <1>11, <1>12 DEF MigrationIInv

\* Every running process is of one release, and what its heals make of the older
\* bodies this file may have is what its own bodies make (migrate.rs:57).
SameRelease == \A p, q \in Openers : Embeds[p] = Embeds[q]
HealsReachToday ==
  \A p \in Openers, found \in Ledgers, v \in Versions :
    found[v] \in DOMAIN Superseded =>
      SchemaOf[Superseded[found[v]]] = SchemaOf[Embeds[p][v]]

\* The ledger says what the tables are, and knows no body but the found ones and
\* the release's.
TablesFit == tables = TablesOf(ledger)
LedgerIsKnown ==
  \A v \in Versions :
    \/ ledger[v] = Absent
    \/ \E p \in Openers : ledger[v] = Embeds[p][v]
    \/ \E found \in Ledgers : ledger[v] = found[v]

\* What an open has passed is its release's.
PassedIsCurrent ==
  \A p \in Openers, v \in Versions :
    (Opening(p) /\ v < op[p].v) \/ Opened(p) => ledger[v] = Embeds[p][v]

\* Whoever came in between has applied the same body; a heal leads to it.
ApplyFinds ==
  \A p \in Openers : op[p].at = "apply" =>
    ledger[op[p].v] \in {Absent, Embeds[p][op[p].v]}
HealFinds ==
  \A p \in Openers : op[p].at = "heal" =>
    SchemaOf[Superseded[op[p].prev]] = SchemaOf[Embeds[p][op[p].v]]

CurrentIInv ==
  /\ MigrationIInv /\ TablesFit /\ LedgerIsKnown /\ PassedIsCurrent
  /\ ApplyFinds /\ HealFinds

\* What a step of p's open finds in the ledger and does to the contents.
LEMMA ContentFacts ==
  ASSUME CurrentIInv, NEW p \in Openers, Migrating(p)
  PROVE  /\ \/ UNCHANGED <<ledger, tables>>
            \/ /\ op[p].v \in Versions
               /\ ledger' = [ledger EXCEPT ![op[p].v] = Embeds[p][op[p].v]]
               /\ tables' = [tables EXCEPT ![op[p].v] = SchemaOf[Embeds[p][op[p].v]]]
         /\ op'[p].at = "apply" => ledger[op[p].v] = Absent
         /\ op'[p].at = "heal" =>
              /\ op'[p].prev = ledger[op[p].v]
              /\ ledger[op[p].v] \in DOMAIN Superseded
              /\ ledger[op[p].v] # Embeds[p][op[p].v]
         /\ op'[p].at = "check" => op'[p].v = 1 \/ ledger'[op[p].v] = Embeds[p][op[p].v]
  <1>1. op \in [Openers -> Opens] /\ op[p] \in Opens
    BY DEF CurrentIInv, MigrationIInv, MigrationTypeOK, Opens
  <1>2. op[p].at \in {"apply", "heal"} => op[p].v \in Versions
    BY <1>1, MigrationFacts DEF CurrentIInv, MigrationIInv, AtAVersion, Opening, Opens
  <1>3. Mine(p) = Embeds[p][op[p].v]
    BY DEF Mine
  <1>4. NextVersion(p) => op'[p].at = "check"
    BY <1>1 DEF NextVersion, Closed
  <1>5. \A reason : Fail(p, reason) => op'[p].at = "failed"
    BY <1>1 DEF Fail, Closed
  <1>6. ledger \in [Versions -> Bodies \cup {Absent}]
    BY DEF CurrentIInv, MigrationIInv, MigrationTypeOK
  <1>7. CASE BeginOpen(p)
    BY <1>1, <1>7 DEF BeginOpen, Closed
  <1>8. CASE Verified(p)
    BY <1>3, <1>4, <1>8 DEF Verified, Recorded
  <1>9. CASE Pending(p)
    <2>1. op'[p].at = "apply"
      BY <1>1, <1>9 DEF Pending, MoveTo, Opens
    <2>2. QED
      BY <1>9, <2>1 DEF Pending, Recorded
  <1>10. CASE IsSuperseded(p)
    <2>1. op'[p].at = "heal" /\ op'[p].prev = Recorded(p)
      BY <1>1, <1>10 DEF IsSuperseded, Opens
    <2>2. QED
      BY <1>3, <1>10, <2>1 DEF IsSuperseded, Recorded
  <1>11. CASE Mismatch(p)
    BY <1>5, <1>11 DEF Mismatch
  <1>12. CASE AppliedMeanwhile(p)
    <2>1. ledger[op[p].v] = Embeds[p][op[p].v]
      BY <1>12 DEF AppliedMeanwhile, StillPending, Recorded, CurrentIInv, ApplyFinds
    <2>2. QED
      BY <1>4, <1>12, <2>1 DEF AppliedMeanwhile
  <1>13. CASE Apply(p)
    <2>1. /\ NextVersion(p) /\ op[p].v \in Versions
          /\ ledger' = [ledger EXCEPT ![op[p].v] = Embeds[p][op[p].v]]
          /\ tables' = [tables EXCEPT ![op[p].v] = SchemaOf[Embeds[p][op[p].v]]]
      BY <1>2, <1>3, <1>13 DEF Apply, StillPending
    <2>2. ledger'[op[p].v] = Embeds[p][op[p].v]
      BY <1>6, <2>1
    <2>3. QED
      BY <1>4, <2>1, <2>2
  <1>14. CASE Heal(p)
    <2>1. CASE Fail(p, "no such column") /\ UNCHANGED <<ledger, tables>>
      BY <1>5, <2>1
    <2>2. CASE /\ tables' = HealedTables(p)
               /\ ledger' = [ledger EXCEPT ![op[p].v] = Mine(p)]
               /\ NextVersion(p)
      <3>1. tables' = [tables EXCEPT ![op[p].v] = SchemaOf[Embeds[p][op[p].v]]]
        BY <1>14, <2>2 DEF HealedTables, Heal, CurrentIInv, HealFinds
      <3>2. op[p].v \in Versions /\ ledger'[op[p].v] = Embeds[p][op[p].v]
        BY <1>2, <1>3, <1>6, <1>14, <2>2 DEF Heal
      <3>3. QED
        BY <1>3, <1>4, <2>2, <3>1, <3>2
    <2>3. QED
      BY <1>14, <2>1, <2>2 DEF Heal
  <1>15. CASE LockTimesOut(p)
    BY <1>5, <1>15 DEF LockTimesOut
  <1>16. CASE EndOpen(p)
    BY <1>1, <1>16 DEF EndOpen, Closed
  <1>17. CASE DieOpening(p)
    BY <1>1, <1>17 DEF DieOpening, Closed
  <1>18. QED
    BY <1>7, <1>8, <1>9, <1>10, <1>11, <1>12, <1>13, <1>14, <1>15, <1>16, <1>17
       DEF Migrating, LookUp

LEMMA MigratingStaysCurrent ==
  ASSUME SameRelease, HealsReachToday, CurrentIInv, NEW p \in Openers, Migrating(p)
  PROVE  CurrentIInv'
  <1>1. MigrationIInv'
    BY MigratingKeeps DEF CurrentIInv
  <1>2. /\ op \in [Openers -> Opens] /\ ledger \in [Versions -> Bodies \cup {Absent}]
        /\ ledger' \in [Versions -> Bodies \cup {Absent}]
    BY <1>1 DEF CurrentIInv, MigrationIInv, MigrationTypeOK, Opens
  <1>3. PICK r \in Opens :
           /\ Moves(p, r)
           /\ StaysOpening(p, r) \/ GoesOn(p, r) \/ Begins(p, r) \/ Ends(p, r)
    BY MigratingFacts DEF CurrentIInv, MigrationIInv
  <1>4. op'[p] = r /\ \A q \in Openers \ {p} : op'[q] = op[q]
    BY <1>2, <1>3 DEF Moves
  <1>5. \/ UNCHANGED <<ledger, tables>>
        \/ /\ op[p].v \in Versions
           /\ ledger' = [ledger EXCEPT ![op[p].v] = Embeds[p][op[p].v]]
           /\ tables' = [tables EXCEPT ![op[p].v] = SchemaOf[Embeds[p][op[p].v]]]
    BY ContentFacts
  \* A version of the ledger stays as it is or comes to be the release's.
  <1>6. \A v \in Versions : ledger'[v] = ledger[v] \/ \A q \in Openers : ledger'[v] = Embeds[q][v]
    BY <1>2, <1>5 DEF SameRelease
  <1>7. TablesFit'
    <2>1. tables = [v \in Versions |-> IF ledger[v] = Absent THEN Absent ELSE SchemaOf[ledger[v]]]
      BY DEF CurrentIInv, TablesFit, TablesOf
    <2>2. CASE UNCHANGED <<ledger, tables>>
      BY <2>1, <2>2 DEF TablesFit, TablesOf
    <2>3. CASE /\ op[p].v \in Versions
               /\ ledger' = [ledger EXCEPT ![op[p].v] = Embeds[p][op[p].v]]
               /\ tables' = [tables EXCEPT ![op[p].v] = SchemaOf[Embeds[p][op[p].v]]]
      <3>1. Embeds[p][op[p].v] # Absent
        BY <2>3, MigrationFacts
      <3>2. tables' = [v \in Versions |-> IF ledger'[v] = Absent THEN Absent ELSE SchemaOf[ledger'[v]]]
        BY <1>2, <2>1, <2>3, <3>1
      <3>3. QED
        BY <3>2 DEF TablesFit, TablesOf
    <2>4. QED
      BY <1>5, <2>2, <2>3
  <1>8. LedgerIsKnown'
    BY <1>6 DEF CurrentIInv, LedgerIsKnown
  <1>9. ASSUME NEW q \in Openers, NEW v \in Versions, ledger[v] = Embeds[q][v]
        PROVE  ledger'[v] = Embeds[q][v]
    BY <1>6, <1>9
  <1>10. PassedIsCurrent'
    <2> SUFFICES ASSUME NEW q \in Openers, NEW v \in Versions,
                        (Opening(q)' /\ v < op'[q].v) \/ Opened(q)'
                 PROVE  ledger'[v] = Embeds[q][v]
      BY DEF PassedIsCurrent
    <2>1. v \in Nat \ {0} /\ v <= LastVersion /\ LastVersion \in Nat
      BY MigrationFacts
    <2>2. ASSUME (Opening(q) /\ v < op[q].v) \/ Opened(q)
          PROVE  ledger'[v] = Embeds[q][v]
      BY <1>9, <2>2 DEF CurrentIInv, PassedIsCurrent
    <2>3. CASE q # p
      BY <1>4, <2>2, <2>3 DEF Opening, Opened
    <2>4. CASE q = p /\ StaysOpening(p, r)
      BY <1>4, <2>2, <2>4 DEF StaysOpening, Opening, Opened
    <2>5. CASE q = p /\ GoesOn(p, r)
      <3>1. /\ Opening(p) /\ v < op[p].v + 1 /\ op[p].v \in Versions /\ op[p].v \in Nat \ {0}
            /\ op'[p].at = "check" /\ op'[p].v # 1
        BY <1>4, <2>5, MigrationFacts DEF GoesOn, Opening, Opened
      <3>2. ledger'[op[p].v] = Embeds[p][op[p].v]
        BY <3>1, ContentFacts
      <3>3. QED
        BY <2>1, <2>2, <2>5, <3>1, <3>2
    <2>6. CASE q = p /\ Begins(p, r)
      BY <1>4, <2>1, <2>6 DEF Begins, Opening, Opened
    <2>7. CASE q = p /\ Ends(p, r)
      <3>1. op[p].at = "check" /\ op[p].v \notin Versions
        BY <1>4, <2>7 DEF Ends, Opening, Opened
      <3>2. op[p].v \in Nat \ {0} /\ ~ (op[p].v <= LastVersion) /\ Opening(p)
        BY <3>1, MigrationFacts DEF CurrentIInv, MigrationIInv, AtAVersion, Opening
      <3>3. QED
        BY <2>1, <2>2, <2>7, <3>2
    <2>8. QED
      BY <1>3, <2>3, <2>4, <2>5, <2>6, <2>7
  <1>11. \A q \in Openers : op[q].at \in {"apply", "heal"} => op[q].v \in Versions
    BY <1>2, MigrationFacts DEF CurrentIInv, MigrationIInv, AtAVersion, Opening, Opens
  <1>12. r.at \in {"apply", "heal"} => StaysOpening(p, r)
    BY <1>3 DEF GoesOn, Begins, Ends
  <1>13. ApplyFinds'
    <2> SUFFICES ASSUME NEW q \in Openers, op'[q].at = "apply"
                 PROVE  ledger'[op'[q].v] \in {Absent, Embeds[q][op'[q].v]}
      BY DEF ApplyFinds
    <2>1. CASE q # p
      <3>1. op'[q] = op[q] /\ op[q].v \in Versions
        BY <1>4, <1>11, <2>1
      <3>2. QED
        BY <1>6, <2>1, <3>1 DEF CurrentIInv, ApplyFinds
    <2>2. CASE q = p
      <3>1. StaysOpening(p, r) /\ ledger[op[p].v] = Absent
        BY <1>4, <1>12, <2>2, ContentFacts
      <3>2. QED
        BY <1>4, <2>2, <3>1 DEF StaysOpening
    <2>3. QED
      BY <2>1, <2>2
  <1>14. HealFinds'
    <2> SUFFICES ASSUME NEW q \in Openers, op'[q].at = "heal"
                 PROVE  SchemaOf[Superseded[op'[q].prev]] = SchemaOf[Embeds[q][op'[q].v]]
      BY DEF HealFinds
    <2>1. CASE q # p
      BY <1>4, <2>1 DEF CurrentIInv, HealFinds
    <2>2. CASE q = p
      <3>1. /\ StaysOpening(p, r) /\ r.prev = ledger[op[p].v]
            /\ ledger[op[p].v] \in DOMAIN Superseded /\ ledger[op[p].v] # Embeds[p][op[p].v]
        BY <1>4, <1>12, <2>2, ContentFacts
      <3>2. PICK v \in Versions : v = op[p].v /\ v = r.v
        BY <3>1 DEF StaysOpening
      <3>3. ledger[v] # Absent
        BY <3>1, <3>2, MigrationFacts
      <3>4. \A s \in Openers : ledger[v] # Embeds[s][v]
        BY <3>1, <3>2 DEF SameRelease
      <3>5. PICK found \in Ledgers : ledger[v] = found[v]
        BY <3>3, <3>4 DEF CurrentIInv, LedgerIsKnown
      <3>6. QED
        BY <1>4, <2>2, <3>1, <3>2, <3>5 DEF HealsReachToday
    <2>3. QED
      BY <2>1, <2>2
  <1>15. QED
    BY <1>1, <1>7, <1>8, <1>10, <1>13, <1>14 DEF CurrentIInv

\* A file that is deleted is a file with nothing in it, and nobody has it open.
LEMMA DeletedIsEmpty ==
  ASSUME DeleteFile
  PROVE  /\ ledger' = [v \in Versions |-> Absent] /\ tables' = ledger'
         /\ \A p \in Openers : op'[p] = Closed
         /\ MigrationIInv' /\ (CurrentIInv => CurrentIInv')
  <1>1. /\ ledger' = [v \in Versions |-> Absent] /\ tables' = ledger'
        /\ op' = [p \in Openers |-> Closed]
    BY DEF DeleteFile
  <1>2. \A v \in Versions : ledger'[v] = Absent
    BY <1>1
  <1>3. \A p \in Openers : op'[p] = Closed /\ op'[p].at = "closed" /\ op'[p].why = "none"
    BY <1>1, OpensFacts
  <1>4. op' \in [Openers -> Opens]
    BY <1>1, OpensFacts
  <1>5. MigrationIInv'
    BY <1>1, <1>3, <1>4 DEF MigrationIInv, MigrationTypeOK, Opens, AtAVersion, PassedIsThere, HealIsThere,
       OpenersDoNotCollide, Opening, Opened
  <1>6. TablesFit'
    BY <1>1, <1>2 DEF TablesFit, TablesOf
  <1>7. CurrentIInv'
    BY <1>2, <1>3, <1>5, <1>6 DEF CurrentIInv, LedgerIsKnown, PassedIsCurrent, ApplyFinds,
       HealFinds, Opening, Opened
  <1>8. QED
    BY <1>1, <1>3, <1>5, <1>7

LEMMA InitMigration == MigrationInit => MigrationIInv /\ CurrentIInv
  <1> SUFFICES ASSUME MigrationInit PROVE MigrationIInv /\ CurrentIInv
    OBVIOUS
  <1>1. \A p \in Openers : op[p] = Closed /\ op[p].at = "closed" /\ op[p].why = "none"
    BY OpensFacts DEF MigrationInit
  <1>2. op \in [Openers -> Opens] /\ ledger \in Ledgers
    BY OpensFacts DEF MigrationInit
  <1>3. ledger \in [Versions -> Bodies \cup {Absent}]
    BY <1>2, MigrationFacts
  <1>4. MigrationIInv
    BY <1>1, <1>2, <1>3 DEF MigrationIInv, MigrationTypeOK, Opens, AtAVersion, PassedIsThere, HealIsThere,
       OpenersDoNotCollide, Opening, Opened
  <1>5. QED
    BY <1>1, <1>2, <1>4 DEF MigrationInit, CurrentIInv, TablesFit, LedgerIsKnown, PassedIsCurrent,
       ApplyFinds, HealFinds, Opening, Opened

\* A step of the project database is a step of one open, the deletion of the
\* file, or none of the migrations' business.
LEMMA ProjectDbSteps ==
  ASSUME [ProjectDbNext]_projectDbVars
  PROVE  \/ \E p \in Openers : Migrating(p)
         \/ DeleteFile
         \/ UNCHANGED migrationVars
  BY SlotVersionIsOne DEF ProjectDbNext, projectDbVars, MigrateStep, ApplyBody, VaultStep, Abort,
     Die, TimePasses, Migrating

LEMMA MigrationStays ==
  ASSUME UNCHANGED migrationVars
  PROVE  (MigrationIInv => MigrationIInv') /\ (CurrentIInv => CurrentIInv')
  <1>1. MigrationIInv => MigrationIInv'
    BY DEF migrationVars, MigrationIInv, MigrationTypeOK, AtAVersion, PassedIsThere, HealIsThere,
       OpenersDoNotCollide, Opening, Opened
  <1>2. TablesFit /\ LedgerIsKnown => TablesFit' /\ LedgerIsKnown'
    BY DEF migrationVars, TablesFit, TablesOf, LedgerIsKnown
  <1>3. PassedIsCurrent /\ ApplyFinds /\ HealFinds => PassedIsCurrent' /\ ApplyFinds' /\ HealFinds'
    BY DEF migrationVars, Opening, Opened, PassedIsCurrent, ApplyFinds, HealFinds
  <1>4. QED
    BY <1>1, <1>2, <1>3 DEF CurrentIInv

\* The ledger, and every open of the file, keep their types.
THEOREM MigrationTypeCorrect == ProjectDbSpec => []MigrationTypeOK
  <1>1. ProjectDbInit => MigrationIInv
    BY InitMigration DEF ProjectDbInit
  <1>2. MigrationIInv /\ [ProjectDbNext]_projectDbVars => MigrationIInv'
    BY ProjectDbSteps, MigratingKeeps, DeletedIsEmpty, MigrationStays
  <1>3. MigrationIInv => MigrationTypeOK
    BY DEF MigrationIInv
  <1>4. QED
    BY <1>1, <1>2, <1>3, PTL DEF ProjectDbSpec

\* The lookup outside the transaction never ends in a second row for a version,
\* for any number of openers of any releases.
THEOREM OpenersGoThrough == ProjectDbSpec => []OpenersDoNotCollide
  <1>1. ProjectDbInit => MigrationIInv
    BY InitMigration DEF ProjectDbInit
  <1>2. MigrationIInv /\ [ProjectDbNext]_projectDbVars => MigrationIInv'
    BY ProjectDbSteps, MigratingKeeps, DeletedIsEmpty, MigrationStays
  <1>3. MigrationIInv => OpenersDoNotCollide
    BY DEF MigrationIInv
  <1>4. QED
    BY <1>1, <1>2, <1>3, PTL DEF ProjectDbSpec

\* Whoever got through migrate has its release's ledger and tables, where every
\* running process is of one release and its heals reach its own tables.
THEOREM OpenIsCurrent ==
  ASSUME SameRelease, HealsReachToday
  PROVE  ProjectDbSpec => []OpenedIsCurrent
  <1>1. ProjectDbInit => CurrentIInv
    BY InitMigration DEF ProjectDbInit
  <1>2. CurrentIInv /\ [ProjectDbNext]_projectDbVars => CurrentIInv'
    BY ProjectDbSteps, MigratingStaysCurrent, DeletedIsEmpty, MigrationStays
  <1>3. CurrentIInv => OpenedIsCurrent
    <2> SUFFICES ASSUME CurrentIInv, NEW p \in Openers, Opened(p)
                 PROVE  ledger = Embeds[p] /\ tables = TablesOf(Embeds[p])
      BY DEF OpenedIsCurrent
    <2>1. \A v \in Versions : ledger[v] = Embeds[p][v]
      BY DEF CurrentIInv, PassedIsCurrent
    <2>2. ledger \in [Versions -> Bodies \cup {Absent}]
      BY DEF CurrentIInv, MigrationIInv, MigrationTypeOK
    <2>3. ledger = Embeds[p]
      BY <2>1, <2>2, MigrationFacts
    <2>4. QED
      BY <2>3 DEF CurrentIInv, TablesFit
  <1>4. QED
    BY <1>1, <1>2, <1>3, PTL DEF ProjectDbSpec

-----------------------------------------------------------------------------
(* Vault: the commands of any number of processes on one credential store. *)

CommandPlaces == {"idle", "keychain", "session", "passphrase", "init", "ready", "set entry",
           "enroll", "delete slot", "delete entry", "rewrap"}
KeyOrNone == {NoKey} \cup 1 .. MaxKeys
CommandStates ==
  [at : CommandPlaces, does : Commands \cup {"none"}, pass : Passphrases \cup {NoKey},
   dek : KeyOrNone, slot : {NoKey} \cup Wraps, kek : KeyOrNone \cup Passphrases]

\* A command that p may be in: what it has in hand fits the place it is at.
CommandFits(p, r) ==
  /\ r.at # "idle" => r.does \in cast.does[p]
  /\ r.at = "idle" => r.dek = NoKey
  /\ r.at \notin {"idle", "ready"} => r.does # "lock"
  /\ r.at \in {"init", "set entry", "enroll"} \/ (r.at = "ready" /\ r.does # "lock") => r.dek # NoKey
  /\ r.at = "init" => r.pass \in Passphrases
  /\ r.at \in {"set entry", "enroll"} => r.does = "enroll"
  /\ r.at = "enroll" => r.kek \in 1 .. MaxKeys
  /\ r.at \in {"delete slot", "rewrap"} => r.slot \in Wraps
  /\ r.at = "delete slot" /\ r.slot.kind = "keychain" => r.does = "drop keychain"
  /\ r.at = "delete entry" => r.does = "drop keychain"
  /\ r.at = "rewrap" => r.kek \in Passphrases /\ r.slot.kind = "passphrase"

VaultBase ==
  /\ VaultTypeOK
  /\ cmd \in [Procs -> CommandStates]
  /\ \A p \in Procs : CommandFits(p, cmd[p])

\* An older wrap is there until the slot table is, and while it is there are no slots.
Unmigrated == meta # NoKey => slots = {} /\ ids = 0 /\ ledger[SlotVersion] = Absent

\* Slot ids are given out once: a slot found earlier is still of its kind.
IdsFit ==
  /\ \A s \in slots : s.id <= ids
  /\ \A s, t \in slots : s.id = t.id => s.kind = t.kind
  /\ \A p \in Procs : cmd[p].at \in {"delete slot", "rewrap"} =>
       /\ cmd[p].slot.id <= ids
       /\ \A s \in slots : s.id = cmd[p].slot.id => s.kind = cmd[p].slot.kind

\* The one keychain slot fits the entry; who is between the entry and the slot, in
\* either direction, finds no slot, and who enrols is alone there.
KeychainFits ==
  /\ \A s \in OfKind("keychain") : s.kek = keyring
  /\ \A s, t \in OfKind("keychain") : s.id = t.id
  /\ \A p \in Procs :
       /\ cmd[p].at \in {"enroll", "delete entry"} => OfKind("keychain") = {}
       /\ cmd[p].at = "enroll" =>
            /\ cmd[p].kek = keyring
            /\ \A q \in Procs \ {p} : cmd[q].at \notin {"enroll", "delete entry"}

\* The keys that the store wraps.
DataKeys == {s.dek : s \in slots} \cup (IF meta = NoKey THEN {} ELSE {OldKey})

\* There is one, once there is one, and every process and every credential has
\* that one.  The session may have another, of a file that is no more.
OneKey ==
  /\ \A j, k \in DataKeys : j = k
  /\ \A c \in Creds : Present(c) => rows[c].dek \in DataKeys
  /\ \A p \in Procs :
       /\ IF cmd[p].at = "init" THEN DataKeys = {} ELSE cmd[p].dek \in DataKeys \cup {NoKey}
       /\ cmd[p].at = "rewrap" => cmd[p].slot.dek \in DataKeys

\* What happened to the file that is there, that either needs not to have happened.
Founded == mishaps \cap {"two founders", "session outlived its store"} = {}
NotShared == "entry was shared" \notin mishaps

VaultIInv == MigrationIInv /\ VaultBase /\ Unmigrated
OneKeyIInv == VaultIInv /\ (Founded => OneKey)
KeychainIInv == VaultIInv /\ IdsFit /\ (NotShared => KeychainFits)

LEMMA VaultFacts ==
  /\ MaxKeys \in Nat \ {0} /\ MaxSlots \in Nat \ {0}
  /\ NoKey \notin Nat /\ NoKey \notin Passphrases
  /\ NoKey \notin 1 .. MaxKeys /\ OldKey \in 1 .. MaxKeys /\ 1 \in 1 .. MaxSlots
  /\ NoKey \in KeyOrNone
  /\ \A w \in Wraps : w.dek \in 1 .. MaxKeys /\ w.dek \in KeyOrNone /\ w.id \in 1 .. MaxSlots
                      /\ w.kind \in {"passphrase", "keychain"}
  /\ \A c \in Casts : /\ c.store \in {"fresh", "unslotted", "established"}
                      /\ \A p \in Procs : c.does[p] \subseteq Commands
  /\ SlotVersion \in Versions /\ Procs = Openers
  <1>1. MaxKeys \in Nat \ {0} /\ MaxSlots \in Nat \ {0} /\ NoKey \notin Nat /\ NoKey \notin Passphrases
    BY VaultConstants
  <1>2. NoKey \notin 1 .. MaxKeys /\ OldKey \in 1 .. MaxKeys /\ 1 \in 1 .. MaxSlots
    BY <1>1 DEF OldKey
  <1>3. \A c \in Casts : /\ c.store \in {"fresh", "unslotted", "established"}
                         /\ \A p \in Procs : c.does[p] \subseteq Commands
    BY VaultConstants
  <1>4. \A w \in Wraps : w.dek \in 1 .. MaxKeys /\ w.dek \in KeyOrNone /\ w.id \in 1 .. MaxSlots
                         /\ w.kind \in {"passphrase", "keychain"}
    BY DEF Wraps, KeyOrNone
  <1>5. QED
    BY <1>1, <1>2, <1>3, <1>4, SlotVersionIsOne DEF KeyOrNone

\* The first slot of some is one of them.
LEMMA FirstIsOne ==
  ASSUME NEW some, some \subseteq Wraps, some # {}
  PROVE  FirstOf(some) \in some
  <1> DEFINE Less == {ss \in Nat \X Nat : ss[1] < ss[2]}
             Names == {s.id : s \in some}
  <1>1. IsWellFoundedOn(Less, Nat)
    BY NatLessThanWellFounded DEF OpToRel
  <1>2. Names \subseteq Nat /\ Names # {}
    BY VaultFacts
  <1>3. PICK e \in Names : \A f \in Names : <<f, e>> \notin Less
    <2> HIDE DEF Less, Names
    <2> QED
      BY <1>1, <1>2, WFMin
  <1>4. \A f \in Names : e <= f
    <2> TAKE f \in Names
    <2>1. <<f, e>> \in Nat \X Nat /\ <<f, e>> \notin Less
      BY <1>2, <1>3
    <2>2. ~ (<<f, e>>[1] < <<f, e>>[2])
      BY <2>1
    <2>3. QED
      BY <1>2, <2>2
  <1>5. PICK s \in some : s.id = e
    OBVIOUS
  <1>6. \A t \in some : s.id <= t.id
    BY <1>4, <1>5
  <1>7. QED
    BY <1>6 DEF FirstOf

\* p's command comes to be r.
Turns(p, r) == cmd' = [cmd EXCEPT ![p] = r]

LEMMA TurnFacts ==
  ASSUME cmd \in [Procs -> CommandStates], NEW p \in Procs, NEW r \in CommandStates, Turns(p, r)
  PROVE  /\ cmd' \in [Procs -> CommandStates] /\ cmd'[p] = r
         /\ \A q \in Procs \ {p} : cmd'[q] = cmd[q]
  BY DEF Turns

LEMMA HandMoves ==
  ASSUME cmd \in [Procs -> CommandStates], NEW p \in Procs, NEW place \in CommandPlaces,
         Step(p, place)
  PROVE  \E r \in CommandStates :
            /\ Turns(p, r) /\ r.at = place /\ r.does = cmd[p].does /\ r.pass = cmd[p].pass
            /\ r.dek = cmd[p].dek /\ r.slot = cmd[p].slot /\ r.kek = cmd[p].kek
  <1>1. cmd[p] \in CommandStates
    OBVIOUS
  <1>2. PICK r \in CommandStates : r = [cmd[p] EXCEPT !.at = place]
    BY <1>1 DEF CommandStates
  <1>3. /\ r.at = place /\ r.does = cmd[p].does /\ r.pass = cmd[p].pass
        /\ r.dek = cmd[p].dek /\ r.slot = cmd[p].slot /\ r.kek = cmd[p].kek
    BY <1>1, <1>2 DEF CommandStates
  <1>4. Turns(p, r)
    BY <1>2 DEF Step, Turns
  <1>5. QED
    BY <1>3, <1>4

LEMMA HandTurns ==
  ASSUME cmd \in [Procs -> CommandStates], NEW p \in Procs
  PROVE  /\ \A place \in CommandPlaces : Step(p, place) =>
              \E r \in CommandStates :
                /\ Turns(p, r) /\ r.at = place /\ r.does = cmd[p].does /\ r.pass = cmd[p].pass
                /\ r.dek = cmd[p].dek /\ r.slot = cmd[p].slot /\ r.kek = cmd[p].kek
         /\ \A dek \in KeyOrNone : Unlocked(p, dek) =>
              \E r \in CommandStates :
                /\ Turns(p, r) /\ r.at = "ready" /\ r.does = cmd[p].does /\ r.dek = dek
                /\ r.slot = cmd[p].slot
         /\ Finish(p) =>
              \E r \in CommandStates :
                /\ Turns(p, r) /\ r.at = "idle" /\ r.dek = NoKey /\ r.slot = NoKey
  <1>1. cmd[p] \in CommandStates
    OBVIOUS
  <1>2. ASSUME NEW place \in CommandPlaces, Step(p, place)
        PROVE  \E r \in CommandStates :
                /\ Turns(p, r) /\ r.at = place /\ r.does = cmd[p].does /\ r.pass = cmd[p].pass
                /\ r.dek = cmd[p].dek /\ r.slot = cmd[p].slot /\ r.kek = cmd[p].kek
    BY <1>2, HandMoves
  <1>3. ASSUME NEW dek \in KeyOrNone, Unlocked(p, dek)
        PROVE  \E r \in CommandStates :
                /\ Turns(p, r) /\ r.at = "ready" /\ r.does = cmd[p].does /\ r.dek = dek
                /\ r.slot = cmd[p].slot
    <2>1. PICK r \in CommandStates : r = [cmd[p] EXCEPT !.at = "ready", !.dek = dek]
      BY <1>1 DEF CommandStates, CommandPlaces
    <2>2. r.at = "ready" /\ r.does = cmd[p].does /\ r.dek = dek /\ r.slot = cmd[p].slot
      BY <1>1, <2>1 DEF CommandStates
    <2>3. Turns(p, r)
      BY <1>3, <2>1 DEF Unlocked, Turns
    <2>4. QED
      BY <2>2, <2>3
  <1>4. NoCommand \in CommandStates
    BY DEF NoCommand, CommandStates, CommandPlaces, KeyOrNone
  <1>5. Finish(p) => Turns(p, NoCommand)
    BY DEF Finish, Turns
  <1>6. NoCommand.at = "idle" /\ NoCommand.dek = NoKey /\ NoCommand.slot = NoKey
    BY DEF NoCommand
  <1>7. QED
    BY <1>2, <1>3, <1>4, <1>5, <1>6

\* The key that opens what p has in hand: it is there, or p is about to mint.
Held(p) == {NoKey} \cup {s.dek : s \in slots}
           \cup (IF cmd[p].at = "init" THEN {} ELSE {cmd[p].dek})

\* Where p's command may go, and what it has seen by then.
Follows(p, r) ==
  /\ r.at = "init" => slots = {}
  /\ r.at # "init" => r.dek \in Held(p) \/ InsertFirstSlot(p) \/ OpenBySession(p)
  /\ r.at = "rewrap" => r.slot \in slots
  /\ r.at = "set entry" => OfKind("keychain") = {}
  /\ r.at = "enroll" => SetEntry(p) /\ r.kek = keys + 1
  /\ r.at = "delete entry" => DeleteSlot(p) /\ cmd[p].slot.kind = "keychain"
  /\ r.at = "delete slot" => r.slot \in slots

LEMMA CommandTurns ==
  ASSUME VaultBase, NEW p \in Procs, Command(p) \/ GiveUp(p)
  PROVE  \E r \in CommandStates : Turns(p, r) /\ CommandFits(p, r) /\ Follows(p, r)
  <1>1. /\ cmd \in [Procs -> CommandStates] /\ cmd[p] \in CommandStates /\ CommandFits(p, cmd[p])
        /\ slots \subseteq Wraps /\ session \in KeyOrNone /\ cast \in Casts /\ keys \in 0 .. MaxKeys
    BY DEF VaultBase, VaultTypeOK, KeyOrNone
  <1>2. /\ cmd[p].dek \in KeyOrNone /\ cmd[p].at \in CommandPlaces
        /\ cmd[p].pass \in Passphrases \cup {NoKey} /\ cast.does[p] \subseteq Commands
    BY <1>1, VaultFacts DEF CommandStates
  <1>3. \A r \in CommandStates :
          r.at = "idle" /\ r.dek = NoKey => CommandFits(p, r) /\ Follows(p, r)
    BY DEF CommandFits, Follows, Held
  <1>4. CASE Finish(p)
    BY <1>1, <1>3, <1>4, HandTurns
  <1>5. ASSUME NEW place \in {"session", "passphrase", "set entry"}, Step(p, place),
               cmd[p].at \in {"keychain", "session", "ready"},
               place = "set entry" => Does(p, "enroll") /\ OfKind("keychain") = {},
               place # "set entry" => cmd[p].at # "ready"
        PROVE  \E r \in CommandStates : Turns(p, r) /\ CommandFits(p, r) /\ Follows(p, r)
    <2>1. place \in CommandPlaces
      BY DEF CommandPlaces
    <2>2. PICK r \in CommandStates :
            /\ Turns(p, r) /\ r.at = place /\ r.does = cmd[p].does /\ r.pass = cmd[p].pass
            /\ r.dek = cmd[p].dek /\ r.slot = cmd[p].slot /\ r.kek = cmd[p].kek
      BY <1>1, <1>5, <2>1, HandMoves
    <2>3. CommandFits(p, r)
      BY <1>1, <1>5, <2>2 DEF CommandFits, Does, CommandAt
    <2>4. Follows(p, r)
      BY <1>5, <2>2 DEF Follows, Held, Does, CommandAt
    <2>5. QED
      BY <2>2, <2>3, <2>4
  <1>6. ASSUME NEW dek \in KeyOrNone, Unlocked(p, dek), dek # NoKey,
               dek \in Held(p) \/ InsertFirstSlot(p) \/ OpenBySession(p), cmd[p].at \notin {"idle", "ready"}
        PROVE  \E r \in CommandStates : Turns(p, r) /\ CommandFits(p, r) /\ Follows(p, r)
    <2>1. PICK r \in CommandStates :
            /\ Turns(p, r) /\ r.at = "ready" /\ r.does = cmd[p].does /\ r.dek = dek
            /\ r.slot = cmd[p].slot
      BY <1>1, <1>6, HandTurns
    <2>2. CommandFits(p, r)
      BY <1>1, <1>6, <2>1 DEF CommandFits
    <2>3. Follows(p, r)
      BY <1>6, <2>1 DEF Follows
    <2>4. QED
      BY <2>1, <2>2, <2>3
  <1>7. ASSUME NEW kind, NEW kek, Openable(kind, kek) # {}
        PROVE  /\ FirstOf(Openable(kind, kek)) \in slots
               /\ FirstOf(Openable(kind, kek)) \in Wraps
               /\ FirstOf(Openable(kind, kek)).kind = kind
               /\ FirstOf(Openable(kind, kek)).dek \in Held(p)
               /\ FirstOf(Openable(kind, kek)).dek \in KeyOrNone \ {NoKey}
    <2>1. Openable(kind, kek) \subseteq Wraps
      BY <1>1 DEF Openable, OfKind
    <2>2. FirstOf(Openable(kind, kek)) \in Openable(kind, kek)
      BY <1>7, <2>1, FirstIsOne
    <2>3. PICK s \in slots : s = FirstOf(Openable(kind, kek)) /\ s.kind = kind
      BY <2>2 DEF Openable, OfKind
    <2>4. s \in Wraps /\ s.dek \in Held(p) /\ s.dek \in KeyOrNone \ {NoKey}
      BY <1>1, VaultFacts DEF Held
    <2>5. QED
      BY <2>3, <2>4
  <1>8. CASE StartCommand(p)
    <2>1. PICK what \in cast.does[p], pass \in Passphrases \cup {NoKey} :
            cmd' = [cmd EXCEPT ![p] = [NoCommand EXCEPT !.does = what, !.pass = pass,
                     !.at = IF what = "lock" THEN "ready" ELSE "keychain"]]
      BY <1>8 DEF StartCommand
    <2>2. PICK place \in CommandPlaces :
            /\ place = (IF what = "lock" THEN "ready" ELSE "keychain")
            /\ cmd' = [cmd EXCEPT ![p] = [NoCommand EXCEPT !.does = what, !.pass = pass,
                         !.at = place]]
      BY <2>1 DEF CommandPlaces
    <2>3. what \in Commands
      BY <1>2
    <2>4. NoCommand \in CommandStates /\ NoCommand.dek = NoKey
      BY DEF NoCommand, CommandStates, CommandPlaces, KeyOrNone
    <2>5. PICK r \in CommandStates :
            r = [NoCommand EXCEPT !.does = what, !.pass = pass, !.at = place]
      BY <2>3, <2>4 DEF CommandStates
    <2>6. r.at = place /\ r.does = what /\ r.dek = NoKey
      BY <2>4, <2>5 DEF CommandStates
    <2>7. Turns(p, r)
      BY <2>2, <2>5 DEF Turns
    <2>8. CommandFits(p, r)
      BY <2>2, <2>6 DEF CommandFits
    <2>9. Follows(p, r)
      BY <2>2, <2>6 DEF Follows, Held
    <2>10. QED
      BY <2>7, <2>8, <2>9
  <1>9. CASE OpenByKeychain(p)
    <2>1. Openable("keychain", keyring) # {} /\ Unlocked(p, FirstOf(Openable("keychain", keyring)).dek)
          /\ cmd[p].at = "keychain"
      BY <1>9 DEF OpenByKeychain, CommandAt
    <2>2. QED
      BY <1>6, <1>7, <2>1
  <1>10. CASE OpenBySession(p)
    <2>1. Unlocked(p, session) /\ session # NoKey /\ cmd[p].at = "session"
      BY <1>10 DEF OpenBySession, CommandAt
    <2>2. QED
      BY <1>1, <1>6, <1>10, <2>1
  <1>11. CASE OpenByPassphrase(p)
    <2>1. /\ Openable("passphrase", cmd[p].pass) # {} /\ cmd[p].at = "passphrase"
          /\ Unlocked(p, FirstOf(Openable("passphrase", cmd[p].pass)).dek)
      BY <1>11 DEF OpenByPassphrase, CommandAt
    <2>2. QED
      BY <1>6, <1>7, <2>1
  <1>12. CASE InsertFirstSlot(p)
    <2>1. cmd[p].at = "init" /\ cmd[p].dek # NoKey /\ Unlocked(p, cmd[p].dek)
      BY <1>1, <1>12 DEF InsertFirstSlot, CommandAt, CommandFits
    <2>2. QED
      BY <1>2, <1>6, <1>12, <2>1
  <1>13. CASE KeychainUnavailable(p) \/ NoSession(p)
    BY <1>5, <1>13 DEF KeychainUnavailable, NoSession, CommandAt
  <1>14. CASE NotYetEnrolled(p)
    BY <1>5, <1>14 DEF NotYetEnrolled, Does, CommandAt
  <1>15. CASE MintDataKey(p)
    <2>1. PICK dek \in KeyOrNone : dek = keys + 1 /\ dek # NoKey
      BY <1>1, <1>15, VaultFacts DEF MintDataKey, KeyOrNone
    <2>2. PICK r \in CommandStates : r = [cmd[p] EXCEPT !.at = "init", !.dek = dek]
      BY <1>1 DEF CommandStates, CommandPlaces
    <2>3. r.at = "init" /\ r.dek = dek /\ r.does = cmd[p].does /\ r.pass = cmd[p].pass
      BY <1>1, <2>2 DEF CommandStates
    <2>4. Turns(p, r)
      BY <1>15, <2>1, <2>2 DEF MintDataKey, Turns
    <2>5. CommandFits(p, r)
      BY <1>1, <1>2, <1>15, <2>1, <2>3 DEF MintDataKey, CommandFits, CommandAt
    <2>6. Follows(p, r)
      BY <1>15, <2>3 DEF Follows, MintDataKey, FreshStore
    <2>7. QED
      BY <2>4, <2>5, <2>6
  <1>16. CASE SetEntry(p)
    <2>1. PICK kek \in 1 .. MaxKeys : kek = keys + 1
      <3>1. keys < MaxKeys /\ MaxKeys \in Nat
        BY <1>16, VaultFacts DEF SetEntry
      <3>2. keys + 1 \in 1 .. MaxKeys
        BY <1>1, <3>1
      <3>3. QED
        BY <3>2
    <2>2. PICK r \in CommandStates : r = [cmd[p] EXCEPT !.at = "enroll", !.kek = kek]
      BY <1>1 DEF CommandStates, CommandPlaces, KeyOrNone
    <2>3. r.at = "enroll" /\ r.dek = cmd[p].dek /\ r.does = cmd[p].does /\ r.kek = kek
      BY <1>1, <2>2 DEF CommandStates
    <2>4. Turns(p, r)
      BY <1>16, <2>1, <2>2 DEF SetEntry, Turns
    <2>5. CommandFits(p, r)
      BY <1>1, <1>16, <2>1, <2>3 DEF SetEntry, CommandFits, CommandAt
    <2>6. Follows(p, r)
      BY <1>16, <2>1, <2>3 DEF Follows, Held, SetEntry, CommandAt
    <2>7. QED
      BY <2>4, <2>5, <2>6
  <1>17. CASE FindSlot(p)
    <2>1. PICK kind \in {"keychain", "passphrase"} : \E s \in OfKind(kind) :
            /\ Does(p, IF kind = "keychain" THEN "drop keychain" ELSE "drop passphrase")
            /\ cmd' = [cmd EXCEPT ![p].at = "delete slot", ![p].slot = s]
      BY <1>17 DEF FindSlot
    <2>2. PICK s \in OfKind(kind) :
            /\ Does(p, IF kind = "keychain" THEN "drop keychain" ELSE "drop passphrase")
            /\ cmd' = [cmd EXCEPT ![p].at = "delete slot", ![p].slot = s]
      BY <2>1
    <2>3. s \in slots /\ s \in Wraps /\ s.kind = kind
      BY <1>1 DEF OfKind
    <2>4. PICK r \in CommandStates : r = [cmd[p] EXCEPT !.at = "delete slot", !.slot = s]
      BY <1>1, <2>3 DEF CommandStates, CommandPlaces
    <2>5. r.at = "delete slot" /\ r.dek = cmd[p].dek /\ r.does = cmd[p].does /\ r.slot = s
      BY <1>1, <2>4 DEF CommandStates
    <2>6. Turns(p, r)
      BY <2>2, <2>4 DEF Turns
    <2>7. CommandFits(p, r)
      BY <1>1, <2>2, <2>3, <2>5 DEF Does, CommandFits, CommandAt
    <2>8. Follows(p, r)
      BY <2>2, <2>3, <2>5 DEF Follows, Held, Does, CommandAt
    <2>9. QED
      BY <2>6, <2>7, <2>8
  <1>18. CASE DeleteSlot(p)
    <2>1. CASE cmd[p].slot.kind = "keychain"
      <3>1. Step(p, "delete entry") /\ cmd[p].at = "delete slot"
        BY <1>18, <2>1 DEF DeleteSlot, CommandAt
      <3>2. PICK r \in CommandStates :
              /\ Turns(p, r) /\ r.at = "delete entry" /\ r.does = cmd[p].does /\ r.pass = cmd[p].pass
              /\ r.dek = cmd[p].dek /\ r.slot = cmd[p].slot /\ r.kek = cmd[p].kek
        BY <1>1, <3>1, HandTurns DEF CommandPlaces
      <3>3. CommandFits(p, r)
        BY <1>1, <2>1, <3>1, <3>2 DEF CommandFits
      <3>4. Follows(p, r)
        BY <1>18, <2>1, <3>1, <3>2 DEF Follows, Held
      <3>5. QED
        BY <3>2, <3>3, <3>4
    <2>2. CASE cmd[p].slot.kind # "keychain"
      BY <1>4, <1>18, <2>2 DEF DeleteSlot
    <2>3. QED
      BY <2>1, <2>2
  <1>19. CASE Rewrap(p)
    <2>1. PICK new \in Passphrases :
            cmd' = [cmd EXCEPT ![p].at = "rewrap", ![p].kek = new,
                               ![p].slot = FirstOf(Openable("passphrase", cmd[p].pass))]
      BY <1>19 DEF Rewrap
    <2>2. PICK s \in slots : /\ s = FirstOf(Openable("passphrase", cmd[p].pass)) /\ s \in Wraps
                             /\ s.kind = "passphrase"
      BY <1>7, <1>19 DEF Rewrap
    <2>3. PICK r \in CommandStates : r = [cmd[p] EXCEPT !.at = "rewrap", !.kek = new, !.slot = s]
      BY <1>1, <2>2 DEF CommandStates, CommandPlaces
    <2>4. r.at = "rewrap" /\ r.dek = cmd[p].dek /\ r.does = cmd[p].does /\ r.slot = s /\ r.kek = new
      BY <1>1, <2>3 DEF CommandStates
    <2>5. Turns(p, r)
      BY <2>1, <2>2, <2>3 DEF Turns
    <2>6. CommandFits(p, r)
      BY <1>1, <1>19, <2>2, <2>4 DEF Rewrap, Does, CommandFits, CommandAt
    <2>7. Follows(p, r)
      BY <1>19, <2>2, <2>4 DEF Follows, Held, Rewrap, Does, CommandAt
    <2>8. QED
      BY <2>5, <2>6, <2>7
  <1>20. CASE \/ StillLocked(p) \/ Put(p) \/ RotateCredential(p) \/ RevokeCredential(p)
              \/ RemoveCredential(p) \/ EnrollSlot(p) \/ SlotRefused(p) \/ DeleteEntry(p)
              \/ UpdateSlot(p) \/ ForceMintSession(p) \/ PurgeSession(p) \/ GiveUp(p)
    BY <1>4, <1>20 DEF StillLocked, Put, RotateCredential, RevokeCredential, RemoveCredential,
       EnrollSlot, SlotRefused, DeleteEntry, UpdateSlot, ForceMintSession, PurgeSession, GiveUp
  <1>21. QED
    BY <1>8, <1>9, <1>10, <1>11, <1>12, <1>13, <1>14, <1>15, <1>16, <1>17, <1>18, <1>19, <1>20
       DEF Command

LEMMA AddedSlot ==
  ASSUME VaultTypeOK, ids < MaxSlots, NEW kind \in {"passphrase", "keychain"},
         NEW dek \in 1 .. MaxKeys, NEW kek \in Passphrases \cup 1 .. MaxKeys,
         AddSlot(kind, dek, kek)
  PROVE  \E w \in Wraps : /\ w = [id |-> ids + 1, kind |-> kind, dek |-> dek, kek |-> kek]
                          /\ w.kind = kind /\ w.dek = dek /\ w.kek = kek
                          /\ slots' = slots \cup {w} /\ slots' \subseteq Wraps
                          /\ ids' \in 0 .. MaxSlots
  <1>1. ids \in 0 .. MaxSlots /\ MaxSlots \in Nat /\ slots \subseteq Wraps
    BY VaultFacts DEF VaultTypeOK
  <1>2. ids + 1 \in 1 .. MaxSlots /\ ids + 1 \in 0 .. MaxSlots
    BY <1>1
  <1>3. PICK w \in Wraps : w = [id |-> ids + 1, kind |-> kind, dek |-> dek, kek |-> kek]
    BY <1>2 DEF Wraps
  <1>4. slots' = slots \cup {w} /\ ids' = ids + 1
    BY <1>3 DEF AddSlot
  <1>5. w.kind = kind /\ w.dek = dek /\ w.kek = kek
    BY <1>3
  <1>6. QED
    BY <1>1, <1>2, <1>3, <1>4, <1>5

\* What a command puts into a slot is a slot.
LEMMA SlotsStayWraps ==
  ASSUME VaultBase, NEW p \in Procs
  PROVE  /\ InsertFirstSlot(p) =>
              \E w \in Wraps : /\ w.kind = "passphrase" /\ w.dek = cmd[p].dek
                               /\ slots' = slots \cup {w}
                               /\ slots' \subseteq Wraps /\ ids' \in 0 .. MaxSlots
         /\ EnrollSlot(p) =>
              \E w \in Wraps : /\ w.kind = "keychain" /\ w.dek = cmd[p].dek /\ w.kek = cmd[p].kek
                               /\ slots' = slots \cup {w}
                               /\ slots' \subseteq Wraps /\ ids' \in 0 .. MaxSlots
         /\ UpdateSlot(p) =>
              /\ NewWrap(p) \in Wraps /\ NewWrap(p).kind = "passphrase"
              /\ NewWrap(p).dek = cmd[p].slot.dek /\ slots' \subseteq Wraps
  <1>1. /\ cmd[p] \in CommandStates /\ CommandFits(p, cmd[p])
        /\ slots \subseteq Wraps /\ VaultTypeOK
    BY DEF VaultBase, VaultTypeOK
  <1>2. cmd[p].dek # NoKey => cmd[p].dek \in 1 .. MaxKeys
    BY <1>1 DEF CommandStates, KeyOrNone
  <1>3. /\ InsertFirstSlot(p) => cmd[p].at = "init"
        /\ EnrollSlot(p) => cmd[p].at = "enroll"
        /\ UpdateSlot(p) => cmd[p].at = "rewrap"
    BY DEF InsertFirstSlot, EnrollSlot, UpdateSlot, CommandAt
  <1>4. CASE InsertFirstSlot(p)
    <2>1. /\ ids < MaxSlots /\ cmd[p].dek \in 1 .. MaxKeys /\ cmd[p].pass \in Passphrases
          /\ AddSlot("passphrase", cmd[p].dek, cmd[p].pass)
      BY <1>1, <1>2, <1>4 DEF InsertFirstSlot, CommandAt, CommandFits
    <2>2. QED
      BY <1>1, <1>4, <1>3, <2>1, AddedSlot
  <1>5. CASE EnrollSlot(p)
    <2>1. /\ ids < MaxSlots /\ cmd[p].dek \in 1 .. MaxKeys /\ cmd[p].kek \in 1 .. MaxKeys
          /\ AddSlot("keychain", cmd[p].dek, cmd[p].kek)
      BY <1>1, <1>2, <1>5 DEF EnrollSlot, CommandAt, CommandFits
    <2>2. QED
      BY <1>1, <1>5, <1>3, <2>1, AddedSlot
  <1>6. CASE UpdateSlot(p)
    <2>1. /\ cmd[p].slot \in Wraps /\ cmd[p].kek \in Passphrases
          /\ cmd[p].slot.kind = "passphrase" /\ cmd[p].at = "rewrap"
      BY <1>1, <1>6 DEF UpdateSlot, CommandAt, CommandFits
    <2>2. PICK w \in Wraps : w = [cmd[p].slot EXCEPT !.kek = cmd[p].kek]
      BY <2>1 DEF Wraps
    <2>3. w.kind = "passphrase" /\ w.dek = cmd[p].slot.dek
      BY <2>1, <2>2 DEF Wraps
    <2>4. w = NewWrap(p)
      BY <2>2 DEF NewWrap
    <2>5. slots' \subseteq Wraps
      BY <1>1, <1>6, <2>4 DEF UpdateSlot
    <2>6. QED
      BY <1>6, <1>3, <2>3, <2>4, <2>5
  <1>7. QED
    BY <1>4, <1>5, <1>6

\* What has happened is remembered.
LEMMA MishapsGrow ==
  ASSUME NEW p \in Procs, Command(p) \/ GiveUp(p)
  PROVE  /\ mishaps \subseteq mishaps'
         /\ mishaps' \subseteq mishaps \cup {"two founders", "session outlived its store",
                                             "entry was shared"}
         /\ ~ InsertFirstSlot(p) /\ ~ OpenBySession(p) /\ ~ SetEntry(p) => mishaps' = mishaps
  BY DEF Command, GiveUp, StartCommand, OpenByKeychain, KeychainUnavailable, OpenBySession,
         NoSession, OpenByPassphrase, StillLocked, MintDataKey, InsertFirstSlot, Put,
         RotateCredential, RevokeCredential, RemoveCredential, NotYetEnrolled, SetEntry,
         EnrollSlot, FindSlot, DeleteSlot, SlotRefused, DeleteEntry, Rewrap, UpdateSlot,
         ForceMintSession, PurgeSession, castVars

LEMMA CommandKeepsTypes ==
  ASSUME VaultBase, NEW p \in Procs, Command(p) \/ GiveUp(p)
  PROVE  VaultTypeOK' /\ cast' = cast /\ meta' = meta
  <1> DEFINE SameSlots == slots' = slots /\ ids' = ids
             SessionFits == session' \in KeyOrNone
             RowsFit == rows' \in [Creds -> [dek : KeyOrNone, revoked : BOOLEAN]]
             KeysFit == keys' \in 0 .. MaxKeys /\ keyring' \in KeyOrNone
  <1>1. /\ cmd \in [Procs -> CommandStates] /\ cmd[p] \in CommandStates
        /\ slots \subseteq Wraps /\ ids \in 0 .. MaxSlots /\ cast \in Casts
        /\ meta \in {NoKey} \cup Passphrases
        /\ rows \in [Creds -> [dek : KeyOrNone, revoked : BOOLEAN]]
        /\ keyring \in KeyOrNone /\ session \in KeyOrNone /\ keys \in 0 .. MaxKeys
    BY DEF VaultBase, VaultTypeOK, KeyOrNone
  <1>2. mishaps' \subseteq {"two founders", "session outlived its store", "entry was shared"}
    BY MishapsGrow DEF VaultBase, VaultTypeOK
  <1>3. cmd[p].dek \in KeyOrNone /\ NoKey \in KeyOrNone
    BY <1>1 DEF CommandStates, KeyOrNone
  <1>4. keys < MaxKeys => keys + 1 \in 0 .. MaxKeys /\ keys + 1 \in KeyOrNone
    BY <1>1, VaultFacts DEF KeyOrNone
  <1>5. ASSUME cast' = cast, meta' = meta, slots' \subseteq Wraps, ids' \in 0 .. MaxSlots,
               SessionFits, RowsFit, KeysFit
        PROVE  VaultTypeOK'
    BY <1>1, <1>5, <1>2 DEF VaultTypeOK, KeyOrNone
  <1>6. CASE UNCHANGED <<cast, storeVars, hostVars, keys>>
    BY <1>1, <1>5, <1>6 DEF storeVars, slotVars, hostVars
  <1>7. CASE OpenByPassphrase(p)
    <2>1. Openable("passphrase", cmd[p].pass) \subseteq Wraps
      BY <1>1 DEF Openable, OfKind
    <2>2. PICK s \in Wraps : s = FirstOf(Openable("passphrase", cmd[p].pass))
      BY <1>7, <2>1, FirstIsOne DEF OpenByPassphrase
    <2>3. s.dek \in KeyOrNone
      BY VaultFacts
    <2>4. SessionFits
      BY <1>1, <1>7, <2>2, <2>3 DEF OpenByPassphrase, MaybeMintSession
    <2>5. QED
      BY <1>1, <1>5, <1>7, <2>4 DEF OpenByPassphrase, storeVars, slotVars, castVars
  <1>8. CASE InsertFirstSlot(p)
    <2>1. slots' \subseteq Wraps /\ ids' \in 0 .. MaxSlots
      BY <1>8, SlotsStayWraps
    <2>2. SessionFits
      BY <1>1, <1>3, <1>8 DEF InsertFirstSlot, MaybeMintSession
    <2>3. QED
      BY <1>1, <1>5, <1>8, <2>1, <2>2 DEF InsertFirstSlot
  <1>9. CASE EnrollSlot(p)
    <2>1. slots' \subseteq Wraps /\ ids' \in 0 .. MaxSlots
      BY <1>9, SlotsStayWraps
    <2>2. QED
      BY <1>1, <1>5, <1>9, <2>1 DEF EnrollSlot, hostVars, castVars
  <1>10. CASE UpdateSlot(p)
    <2>1. slots' \subseteq Wraps
      BY <1>10, SlotsStayWraps
    <2>2. QED
      BY <1>1, <1>5, <1>10, <2>1 DEF UpdateSlot, hostVars, castVars
  <1>11. CASE DeleteSlot(p)
    BY <1>1, <1>5, <1>11 DEF DeleteSlot, hostVars, castVars
  <1>12. CASE MintDataKey(p)
    BY <1>1, <1>4, <1>5, <1>12 DEF MintDataKey, storeVars, slotVars, hostVars, castVars
  <1>13. CASE SetEntry(p)
    BY <1>1, <1>4, <1>5, <1>13 DEF SetEntry, storeVars, slotVars
  <1>14. CASE DeleteEntry(p)
    BY <1>1, <1>3, <1>5, <1>14 DEF DeleteEntry, storeVars, slotVars, castVars
  <1>15. CASE ForceMintSession(p)
    BY <1>1, <1>3, <1>5, <1>15 DEF ForceMintSession, storeVars, slotVars, castVars
  <1>16. CASE PurgeSession(p)
    BY <1>1, <1>3, <1>5, <1>16 DEF PurgeSession, storeVars, slotVars, castVars
  <1>17. ASSUME RowsFit, UNCHANGED <<cast, slotVars, hostVars, keys>>
         PROVE  VaultTypeOK' /\ cast' = cast /\ meta' = meta
    BY <1>1, <1>5, <1>17 DEF slotVars, hostVars
  <1>18. CASE Put(p)
    <2>1. PICK c \in Creds : rows' = [rows EXCEPT ![c].dek = cmd[p].dek]
      BY <1>18 DEF Put
    <2>2. RowsFit
      BY <1>1, <1>3, <2>1
    <2>3. QED
      BY <1>17, <1>18, <2>2 DEF Put, castVars
  <1>19. CASE RotateCredential(p)
    <2>1. PICK c \in Creds : rows' = [rows EXCEPT ![c] = [dek |-> cmd[p].dek, revoked |-> FALSE]]
      BY <1>19 DEF RotateCredential
    <2>2. RowsFit
      BY <1>1, <1>3, <2>1
    <2>3. QED
      BY <1>17, <1>19, <2>2 DEF RotateCredential, castVars
  <1>20. CASE RevokeCredential(p)
    <2>1. PICK c \in Creds : rows' = [rows EXCEPT ![c].revoked = TRUE]
      BY <1>20 DEF RevokeCredential
    <2>2. RowsFit
      BY <1>1, <2>1
    <2>3. QED
      BY <1>17, <1>20, <2>2 DEF RevokeCredential, castVars
  <1>21. CASE RemoveCredential(p)
    <2>1. PICK c \in Creds : rows' = [rows EXCEPT ![c] = NoRow]
      BY <1>21 DEF RemoveCredential
    <2>2. RowsFit
      BY <1>1, <1>3, <2>1 DEF NoRow
    <2>3. QED
      BY <1>17, <1>21, <2>2 DEF RemoveCredential, castVars
  <1>22. QED
    BY <1>6, <1>7, <1>8, <1>9, <1>10, <1>11, <1>12, <1>13, <1>14, <1>15, <1>16, <1>18, <1>19,
       <1>20, <1>21
       DEF Command, GiveUp, StartCommand, OpenByKeychain, KeychainUnavailable, OpenBySession,
           NoSession, StillLocked, NotYetEnrolled, FindSlot, SlotRefused, Rewrap,
           OpenByPassphrase, InsertFirstSlot, EnrollSlot, UpdateSlot, DeleteSlot, MintDataKey,
           SetEntry, DeleteEntry, ForceMintSession, PurgeSession, slotVars, castVars

LEMMA CommandKeepsBase ==
  ASSUME VaultBase, NEW p \in Procs, Command(p) \/ GiveUp(p)
  PROVE  VaultBase' /\ cast' = cast /\ meta' = meta
  <1>1. PICK r \in CommandStates : Turns(p, r) /\ CommandFits(p, r)
    BY CommandTurns
  <1>2. VaultTypeOK' /\ cast' = cast /\ meta' = meta
    BY CommandKeepsTypes
  <1>3. /\ cmd' \in [Procs -> CommandStates] /\ cmd'[p] = r
        /\ \A q \in Procs \ {p} : cmd'[q] = cmd[q]
    BY <1>1, TurnFacts DEF VaultBase
  <1>4. \A q \in Procs : CommandFits(q, cmd[q])
    BY DEF VaultBase
  <1>5. ASSUME NEW q \in Procs
        PROVE  CommandFits(q, cmd[q])'
    <2>1. CommandFits(q, cmd'[q])
      BY <1>1, <1>3, <1>4
    <2>2. QED
      BY <1>2, <2>1 DEF CommandFits
  <1>6. QED
    BY <1>2, <1>3, <1>5 DEF VaultBase

\* One data key.

LEMMA KeptOneKey ==
  ASSUME VaultBase, OneKey, NEW p \in Procs, NEW r \in CommandStates, Turns(p, r), Follows(p, r),
         ~ InsertFirstSlot(p), ~ OpenBySession(p) \/ r.dek \in DataKeys, meta = NoKey,
         DataKeys' = DataKeys,
         \A c \in Creds : Present(c)' => rows'[c].dek \in DataKeys
  PROVE  OneKey'
  <1>1. cmd'[p] = r /\ \A q \in Procs \ {p} : cmd'[q] = cmd[q]
    BY TurnFacts DEF VaultBase
  <1>2. DataKeys = {s.dek : s \in slots}
    BY DEF DataKeys
  <1>3. Held(p) \subseteq DataKeys \cup {NoKey}
    BY <1>2 DEF Held, OneKey
  <1>4. /\ IF r.at = "init" THEN DataKeys = {} ELSE r.dek \in DataKeys \cup {NoKey}
        /\ r.at = "rewrap" => r.slot.dek \in DataKeys
    <2>1. CASE r.at = "init"
      BY <1>2, <2>1 DEF Follows
    <2>2. CASE r.at # "init"
      BY <1>2, <1>3, <2>2 DEF Follows
    <2>3. QED
      BY <2>1, <2>2
  <1>5. ASSUME NEW q \in Procs
        PROVE  /\ IF cmd'[q].at = "init" THEN DataKeys = {} ELSE cmd'[q].dek \in DataKeys \cup {NoKey}
               /\ cmd'[q].at = "rewrap" => cmd'[q].slot.dek \in DataKeys
    <2>1. CASE q = p
      BY <1>1, <1>4, <2>1
    <2>2. CASE q # p
      <3>1. cmd'[q] = cmd[q]
        BY <1>1, <2>2
      <3>2. QED
        BY <3>1 DEF OneKey
    <2>3. QED
      BY <2>1, <2>2
  <1>6. \A j, k \in DataKeys : j = k
    BY DEF OneKey
  <1>7. QED
    BY <1>5, <1>6 DEF OneKey

LEMMA FoundedOneKey ==
  ASSUME VaultBase, OneKey, NEW p \in Procs, InsertFirstSlot(p), Founded', meta = NoKey
  PROVE  OneKey'
  <1>1. cmd[p].at = "init" /\ cmd[p].dek # NoKey /\ Unlocked(p, cmd[p].dek)
        /\ cmd \in [Procs -> CommandStates] /\ cmd[p] \in CommandStates
    BY DEF InsertFirstSlot, CommandAt, VaultBase, CommandFits
  <1>2. DataKeys = {} /\ slots = {}
    <2>1. DataKeys = {}
      BY <1>1 DEF OneKey
    <2>2. slots = {}
      BY <2>1 DEF DataKeys
    <2>3. QED
      BY <2>1, <2>2
  <1>3. PICK w \in Wraps : w.dek = cmd[p].dek /\ slots' = slots \cup {w}
    BY SlotsStayWraps
  <1>4. meta' = meta /\ rows' = rows
    BY DEF InsertFirstSlot
  <1>5. DataKeys' = {cmd[p].dek}
    BY <1>2, <1>3, <1>4 DEF DataKeys
  <1>7. \A c \in Creds : ~ Present(c)'
    BY <1>2, <1>4 DEF OneKey, Present
  <1>8. cmd[p].dek \in KeyOrNone
    BY <1>1 DEF CommandStates
  <1>9. PICK r \in CommandStates : Turns(p, r) /\ r.at = "ready" /\ r.dek = cmd[p].dek
    BY <1>1, <1>8, HandTurns
  <1>10. cmd'[p] = r /\ \A q \in Procs \ {p} : cmd'[q] = cmd[q]
    BY <1>1, <1>9, TurnFacts
  <1>11. ASSUME NEW q \in Procs, q # p
         PROVE  cmd[q].at # "init"
    BY <1>11 DEF InsertFirstSlot, CommandAt, Founded
  <1>12. ASSUME NEW q \in Procs
         PROVE  /\ cmd'[q].at # "init" /\ cmd'[q].dek \in {NoKey, cmd[p].dek}
                /\ cmd'[q].at # "rewrap"
    <2>1. CASE q = p
      BY <1>9, <1>10, <2>1
    <2>2. CASE q # p
      <3>1. cmd'[q] = cmd[q] /\ cmd[q].at # "init"
        BY <1>10, <1>11, <2>2
      <3>2. QED
        BY <1>2, <3>1 DEF OneKey
    <2>3. QED
      BY <2>1, <2>2
  <1>13. QED
    BY <1>4, <1>5, <1>7, <1>12 DEF OneKey

LEMMA CommandKeepsOneKey ==
  ASSUME VaultBase, OneKey, Founded', meta = NoKey, NEW p \in Procs, Command(p)
  PROVE  OneKey'
  <1>1. PICK r \in CommandStates : Turns(p, r) /\ CommandFits(p, r) /\ Follows(p, r)
    BY CommandTurns
  <1>2. meta' = NoKey
    BY CommandKeepsTypes
  <1>3. cmd'[p] = r /\ cmd[p] \in CommandStates /\ CommandFits(p, cmd[p])
    BY <1>1, TurnFacts DEF VaultBase
  <1>4. DataKeys = {s.dek : s \in slots} /\ DataKeys' = {s.dek : s \in slots'}
    BY <1>2 DEF DataKeys
  <1>5. /\ \A j, k \in DataKeys : j = k
        /\ \A c \in Creds : Present(c) => rows[c].dek \in DataKeys
        /\ cmd[p].at # "init" => cmd[p].dek \in DataKeys \cup {NoKey}
        /\ cmd[p].at = "rewrap" => cmd[p].slot.dek \in DataKeys
    BY DEF OneKey
  <1>6. CASE InsertFirstSlot(p)
    BY <1>6, FoundedOneKey
  <1>7. OpenBySession(p) => r.dek \in DataKeys
    <2> SUFFICES ASSUME OpenBySession(p) PROVE r.dek \in DataKeys
      OBVIOUS
    <2>1. session \in DataKeys /\ Unlocked(p, session)
      BY <1>4 DEF OpenBySession, Founded
    <2>2. r.dek = session
      BY <1>3, <2>1 DEF Unlocked, VaultBase, CommandStates
    <2>3. QED
      BY <2>1, <2>2
  <1>8. ASSUME ~ InsertFirstSlot(p), DataKeys' = DataKeys,
               \A c \in Creds : Present(c)' => rows'[c].dek \in DataKeys
        PROVE  OneKey'
    BY <1>1, <1>8, <1>7, KeptOneKey
  <1>9. ASSUME ~ InsertFirstSlot(p), slots' = slots, rows' = rows
        PROVE  OneKey'
    BY <1>4, <1>5, <1>8, <1>9 DEF Present
  <1>10. ASSUME ~ InsertFirstSlot(p), DataKeys' = DataKeys, rows' = rows
        PROVE  OneKey'
    BY <1>5, <1>8, <1>10 DEF Present
  <1>11. ASSUME ~ InsertFirstSlot(p), UNCHANGED slotVars,
                \A c \in Creds : Present(c)' => rows'[c].dek \in DataKeys
         PROVE  OneKey'
    BY <1>4, <1>8, <1>11 DEF slotVars
  <1>12. cmd[p].at # "init" => ~ InsertFirstSlot(p)
    BY DEF InsertFirstSlot, CommandAt
  <1>13. CASE ~ InsertFirstSlot(p) /\ UNCHANGED <<slots, rows>>
    BY <1>9, <1>13
  <1>14. CASE Put(p) \/ RotateCredential(p)
    <2>1. cmd[p].at = "ready" /\ cmd[p].dek \in DataKeys
      BY <1>3, <1>5, <1>14 DEF Put, RotateCredential, Does, CommandAt, CommandFits
    <2>2. rows \in [Creds -> [dek : KeyOrNone, revoked : BOOLEAN]]
      BY DEF VaultBase, VaultTypeOK, KeyOrNone
    <2>3. \E c \in Creds : rows'[c].dek = cmd[p].dek /\ \A d \in Creds \ {c} : rows'[d] = rows[d]
      BY <1>14, <2>2 DEF Put, RotateCredential
    <2>4. \A c \in Creds : Present(c)' => rows'[c].dek \in DataKeys
      BY <1>5, <2>1, <2>3 DEF Present
    <2>5. QED
      BY <1>11, <1>12, <1>14, <2>1, <2>4 DEF Put, RotateCredential
  <1>15. CASE RevokeCredential(p)
    <2>1. PICK c \in Creds : Present(c) /\ rows' = [rows EXCEPT ![c].revoked = TRUE]
      BY <1>15 DEF RevokeCredential
    <2>2. rows \in [Creds -> [dek : KeyOrNone, revoked : BOOLEAN]]
      BY DEF VaultBase, VaultTypeOK, KeyOrNone
    <2>3. rows'[c].dek = rows[c].dek /\ \A d \in Creds \ {c} : rows'[d] = rows[d]
      BY <2>1, <2>2
    <2>4. \A d \in Creds : Present(d)' => rows'[d].dek \in DataKeys
      BY <1>5, <2>1, <2>3 DEF Present
    <2>5. QED
      BY <1>11, <1>12, <1>15, <2>4 DEF RevokeCredential, Does, CommandAt
  <1>16. CASE RemoveCredential(p)
    <2>1. PICK c \in Creds : rows' = [rows EXCEPT ![c] = NoRow]
      BY <1>16 DEF RemoveCredential
    <2>2. rows \in [Creds -> [dek : KeyOrNone, revoked : BOOLEAN]]
      BY DEF VaultBase, VaultTypeOK, KeyOrNone
    <2>3. rows'[c] = NoRow /\ \A d \in Creds \ {c} : rows'[d] = rows[d]
      BY <2>1, <2>2
    <2>4. \A d \in Creds : Present(d)' => rows'[d].dek \in DataKeys
      BY <1>5, <2>3 DEF Present, NoRow
    <2>5. QED
      BY <1>11, <1>12, <1>16, <2>4 DEF RemoveCredential, Does, CommandAt
  <1>17. CASE EnrollSlot(p)
    <2>1. PICK w \in Wraps : w.dek = cmd[p].dek /\ slots' = slots \cup {w}
      BY <1>17, SlotsStayWraps
    <2>2. cmd[p].at = "enroll" /\ cmd[p].dek \in DataKeys
      BY <1>3, <1>5, <1>17 DEF EnrollSlot, CommandAt, CommandFits
    <2>3. DataKeys' = DataKeys
      BY <1>4, <2>1, <2>2
    <2>4. QED
      BY <1>10, <1>12, <1>17, <2>2, <2>3 DEF EnrollSlot
  <1>18. CASE DeleteSlot(p)
    <2>1. /\ slots' = {s \in slots : s.id # cmd[p].slot.id} /\ cmd[p].at = "delete slot"
          /\ \E s \in slots : s.id # cmd[p].slot.id
      BY <1>18 DEF DeleteSlot, MayDelete, CommandAt
    <2>2. DataKeys' = DataKeys
      <3>1. PICK t \in slots : t.id # cmd[p].slot.id
        BY <2>1
      <3>2. t.dek \in DataKeys'
        BY <1>4, <2>1, <3>1
      <3>3. DataKeys' \subseteq DataKeys
        BY <1>4, <2>1
      <3>4. QED
        BY <1>5, <3>2, <3>3
    <2>3. QED
      BY <1>10, <1>12, <1>18, <2>1, <2>2 DEF DeleteSlot
  <1>19. CASE UpdateSlot(p)
    <2>1. /\ slots' = {IF s.id = cmd[p].slot.id THEN NewWrap(p) ELSE s : s \in slots}
          /\ cmd[p].at = "rewrap" /\ NewWrap(p).dek \in DataKeys
      BY <1>5, <1>19, SlotsStayWraps DEF UpdateSlot, CommandAt
    <2>2. \A s \in slots' : s.dek \in DataKeys
      BY <1>4, <2>1
    <2>3. slots # {} /\ slots' # {}
      BY <1>4, <2>1
    <2>4. DataKeys' = DataKeys
      <3>1. DataKeys' \subseteq DataKeys /\ DataKeys' # {}
        BY <1>4, <2>2, <2>3
      <3>2. QED
        BY <1>5, <3>1
    <2>5. QED
      BY <1>10, <1>12, <1>19, <2>1, <2>4 DEF UpdateSlot
  <1>20. QED
    <2>1. CASE \/ StartCommand(p) \/ OpenByKeychain(p) \/ KeychainUnavailable(p)
               \/ OpenBySession(p) \/ NoSession(p) \/ StillLocked(p) \/ MintDataKey(p)
               \/ NotYetEnrolled(p) \/ SetEntry(p) \/ FindSlot(p) \/ SlotRefused(p)
               \/ DeleteEntry(p) \/ Rewrap(p) \/ OpenByPassphrase(p)
               \/ ForceMintSession(p) \/ PurgeSession(p)
      <3>1. UNCHANGED <<slots, rows>>
        BY <2>1 DEF StartCommand, OpenByKeychain, KeychainUnavailable, OpenBySession, NoSession,
           OpenByPassphrase, StillLocked, MintDataKey, NotYetEnrolled, SetEntry, FindSlot,
           SlotRefused, DeleteEntry, Rewrap, ForceMintSession, PurgeSession, storeVars, slotVars
      <3>2. QED
        BY <1>6, <1>13, <3>1
    <2>2. QED
      BY <1>6, <1>14, <1>15, <1>16, <1>17, <1>18, <1>19, <2>1 DEF Command

LEMMA GiveUpKeepsOneKey ==
  ASSUME VaultBase, OneKey, NEW p \in Procs, GiveUp(p)
  PROVE  OneKey'
  <1>1. UNCHANGED <<slots, meta, rows>> /\ DataKeys' = DataKeys
    BY DEF GiveUp, storeVars, slotVars, DataKeys
  <1>2. PICK r \in CommandStates : Turns(p, r) /\ r.at = "idle" /\ r.dek = NoKey
    BY HandTurns DEF GiveUp, VaultBase
  <1>3. cmd'[p] = r /\ \A q \in Procs \ {p} : cmd'[q] = cmd[q]
    BY <1>2, TurnFacts DEF VaultBase
  <1>4. ASSUME NEW q \in Procs
        PROVE  /\ IF cmd'[q].at = "init" THEN DataKeys = {} ELSE cmd'[q].dek \in DataKeys \cup {NoKey}
               /\ cmd'[q].at = "rewrap" => cmd'[q].slot.dek \in DataKeys
    BY <1>2, <1>3 DEF OneKey
  <1>5. QED
    BY <1>1, <1>4 DEF OneKey, Present

\* The slot ids.

LEMMA CommandKeepsIds ==
  ASSUME VaultBase, IdsFit, NEW p \in Procs, Command(p) \/ GiveUp(p)
  PROVE  IdsFit'
  <1>1. PICK r \in CommandStates : Turns(p, r) /\ CommandFits(p, r) /\ Follows(p, r)
    BY CommandTurns
  <1>2. /\ cmd' \in [Procs -> CommandStates] /\ cmd'[p] = r
        /\ \A q \in Procs \ {p} : cmd'[q] = cmd[q]
    BY <1>1, TurnFacts DEF VaultBase
  <1>3. slots \subseteq Wraps /\ ids \in Nat
    <2>1. slots \subseteq Wraps /\ ids \in 0 .. MaxSlots /\ MaxSlots \in Nat
      BY VaultFacts DEF VaultBase, VaultTypeOK
    <2>2. QED
      BY <2>1
  <1>4. \A q \in Procs : cmd[q].at \in {"delete slot", "rewrap"} => cmd[q].slot \in Wraps
    BY DEF VaultBase, CommandFits
  <1>5. \A s \in Wraps : s.id \in Nat
    BY DEF Wraps
  <1>6. \A s \in slots : s.id <= ids /\ ~ (s.id > ids)
    <2>1. \A s \in slots : s.id <= ids
      BY DEF IdsFit
    <2>2. QED
      BY <1>3, <1>5, <2>1
  <1>7. r.at \in {"delete slot", "rewrap"} => r.slot \in slots
    BY <1>1 DEF Follows
  <1>8. \A q \in Procs : cmd'[q].at \in {"delete slot", "rewrap"} =>
          /\ cmd'[q].slot \in Wraps /\ cmd'[q].slot.id <= ids
          /\ \A s \in slots : s.id = cmd'[q].slot.id => s.kind = cmd'[q].slot.kind
    <2> SUFFICES ASSUME NEW q \in Procs, cmd'[q].at \in {"delete slot", "rewrap"}
                 PROVE  /\ cmd'[q].slot \in Wraps /\ cmd'[q].slot.id <= ids
                        /\ \A s \in slots : s.id = cmd'[q].slot.id => s.kind = cmd'[q].slot.kind
      OBVIOUS
    <2>0. cmd'[q].at \in {"delete slot", "rewrap"}
      OBVIOUS
    <2>1. CASE q = p
      <3>1. cmd'[q].slot \in slots
        BY <1>2, <1>7, <2>1
      <3>2. cmd'[q].slot \in Wraps
        BY <1>3, <3>1
      <3>3. QED
        BY <3>1, <3>2 DEF IdsFit
    <2>2. CASE q # p
      <3>1. cmd'[q] = cmd[q]
        BY <1>2, <2>2
      <3>2. cmd[q].slot \in Wraps
        BY <1>4, <2>0, <3>1
      <3>3. /\ cmd[q].slot.id <= ids
            /\ \A s \in slots : s.id = cmd[q].slot.id => s.kind = cmd[q].slot.kind
        BY <2>0, <3>1 DEF IdsFit
      <3>4. QED
        BY <3>1, <3>2, <3>3
    <2>3. QED
      BY <2>1, <2>2
  \* A slot of the next state is one of this by id and kind, or the one new one.
  <1>9. ASSUME NEW next \in Nat, ids' = next, ids <= next,
               \A s \in slots' : \/ \E t \in slots : t.id = s.id /\ t.kind = s.kind
                                 \/ s.id = next /\ ids < next,
               \A s, t \in slots' : s.id > ids /\ t.id > ids => s = t
        PROVE  IdsFit'
    <2>1. ASSUME NEW s \in slots'
          PROVE  /\ s.id \in Nat /\ s.id <= next
                 /\ s.id <= ids => \E t \in slots : t.id = s.id /\ t.kind = s.kind
      <3>1. CASE s.id = next /\ ids < next
        BY <1>3, <1>9, <3>1
      <3>2. CASE \E t \in slots : t.id = s.id /\ t.kind = s.kind
        <4>1. PICK t \in slots : t.id = s.id /\ t.kind = s.kind
          BY <3>2
        <4>2. t.id \in Nat /\ t.id <= ids
          BY <1>3, <1>5 DEF IdsFit
        <4>3. s.id \in Nat /\ s.id <= next
          BY <1>3, <1>9, <4>1, <4>2
        <4>4. QED
          BY <4>1, <4>3
      <3>3. QED
        BY <1>9, <3>1, <3>2
    <2>2. ASSUME NEW s \in slots', NEW t \in slots', s.id = t.id
          PROVE  s.kind = t.kind
      <3>1. CASE s.id > ids
        BY <1>9, <2>2, <3>1
      <3>2. CASE ~ (s.id > ids)
        <4>1. s.id <= ids
          BY <1>3, <2>1, <3>2
        <4>2. PICK s1 \in slots : s1.id = s.id /\ s1.kind = s.kind
          BY <2>1, <4>1
        <4>3. PICK t1 \in slots : t1.id = t.id /\ t1.kind = t.kind
          BY <2>1, <2>2, <4>1
        <4>4. s1.kind = t1.kind
          BY <2>2, <4>2, <4>3 DEF IdsFit
        <4>5. QED
          BY <4>2, <4>3, <4>4
      <3>3. QED
        BY <3>1, <3>2
    <2>3. ASSUME NEW q \in Procs, cmd'[q].at \in {"delete slot", "rewrap"}
          PROVE  /\ cmd'[q].slot.id <= next
                 /\ \A s \in slots' : s.id = cmd'[q].slot.id => s.kind = cmd'[q].slot.kind
      <3>1. cmd'[q].slot.id \in Nat /\ cmd'[q].slot.id <= ids
        BY <1>5, <1>8, <2>3
      <3>2. cmd'[q].slot.id <= next
        BY <1>3, <1>9, <3>1
      <3>3. ASSUME NEW s \in slots', s.id = cmd'[q].slot.id
            PROVE  s.kind = cmd'[q].slot.kind
        <4>1. PICK t \in slots : t.id = s.id /\ t.kind = s.kind
          BY <2>1, <3>1, <3>3
        <4>2. QED
          BY <1>8, <2>3, <3>3, <4>1
      <3>4. QED
        BY <3>2, <3>3
    <2>4. QED
      BY <1>9, <2>1, <2>2, <2>3 DEF IdsFit
  <1>10. ASSUME \A s \in slots' : \E t \in slots : t.id = s.id /\ t.kind = s.kind, ids' = ids
        PROVE  IdsFit'
    <2>1. \A s \in slots' : ~ (s.id > ids)
      BY <1>10, <1>6
    <2>2. QED
      BY <1>3, <1>9, <1>10, <2>1
  <1>11. CASE InsertFirstSlot(p) \/ EnrollSlot(p)
    <2>1. PICK w : slots' = slots \cup {w} /\ w.id = ids + 1 /\ ids' = ids + 1
      BY <1>11 DEF InsertFirstSlot, EnrollSlot, AddSlot
    <2>2. QED
      BY <1>3, <1>9, <1>6, <2>1
  <1>12. CASE UpdateSlot(p)
    <2>1. /\ slots' = {IF s.id = cmd[p].slot.id THEN NewWrap(p) ELSE s : s \in slots} /\ ids' = ids
          /\ cmd[p].at = "rewrap" /\ cmd[p].slot \in Wraps
      BY <1>12, <1>4 DEF UpdateSlot, CommandAt
    <2>2. NewWrap(p).id = cmd[p].slot.id /\ NewWrap(p).kind = cmd[p].slot.kind
      BY <2>1 DEF NewWrap, Wraps
    <2>3. \A s \in slots : s.id = cmd[p].slot.id => s.kind = cmd[p].slot.kind
      BY <2>1 DEF IdsFit
    <2>4. QED
      BY <1>10, <2>1, <2>2, <2>3
  <1>13. CASE slots' \subseteq slots /\ ids' = ids
    BY <1>10, <1>13
  <1>14. QED
    BY <1>11, <1>12, <1>13
       DEF Command, GiveUp, StartCommand, OpenByKeychain, KeychainUnavailable, OpenBySession,
           NoSession, OpenByPassphrase, StillLocked, MintDataKey, Put, RotateCredential,
           RevokeCredential, RemoveCredential, NotYetEnrolled, SetEntry, FindSlot, DeleteSlot,
           SlotRefused, DeleteEntry, Rewrap, ForceMintSession, PurgeSession, storeVars, slotVars

\* The keychain.

\* q is between the entry and the slot.
Between(q) == cmd[q].at \in {"enroll", "delete entry"}

LEMMA KeychainTurns ==
  ASSUME VaultBase, KeychainFits, NEW p \in Procs, NEW r \in CommandStates, Turns(p, r),
         \A s \in OfKind("keychain")' : s.kek = keyring',
         \A s, t \in OfKind("keychain")' : s.id = t.id,
         r.at \in {"enroll", "delete entry"} => OfKind("keychain")' = {},
         r.at = "enroll" => r.kek = keyring' /\ \A q \in Procs \ {p} : ~ Between(q),
         \A q \in Procs \ {p} : Between(q) => OfKind("keychain")' = {},
         \A q \in Procs \ {p} : cmd[q].at = "enroll" =>
           keyring' = keyring /\ r.at \notin {"enroll", "delete entry"}
  PROVE  KeychainFits'
  <1>1. cmd'[p] = r /\ \A q \in Procs \ {p} : cmd'[q] = cmd[q]
    BY TurnFacts DEF VaultBase
  <1>2. ASSUME NEW q \in Procs
        PROVE  /\ cmd'[q].at \in {"enroll", "delete entry"} => OfKind("keychain")' = {}
               /\ cmd'[q].at = "enroll" =>
                    /\ cmd'[q].kek = keyring'
                    /\ \A o \in Procs \ {q} : cmd'[o].at \notin {"enroll", "delete entry"}
    <2>1. CASE q = p
      BY <1>1, <2>1 DEF Between
    <2>2. CASE q # p
      <3>1. cmd'[q] = cmd[q]
        BY <1>1, <2>2
      <3>2. cmd[q].at = "enroll" => \A o \in Procs \ {q} : cmd'[o].at \notin {"enroll", "delete entry"}
        BY <1>1, <2>2 DEF KeychainFits
      <3>3. cmd[q].at = "enroll" => cmd[q].kek = keyring
        BY DEF KeychainFits
      <3>4. cmd[q].at \in {"enroll", "delete entry"} => OfKind("keychain")' = {}
        BY <2>2 DEF Between
      <3>5. cmd[q].at = "enroll" => keyring' = keyring
        BY <2>2
      <3>6. QED
        BY <3>1, <3>2, <3>3, <3>4, <3>5
    <2>3. QED
      BY <2>1, <2>2
  <1>3. QED
    BY <1>2 DEF KeychainFits

LEMMA CommandKeepsKeychain ==
  ASSUME VaultBase, IdsFit, KeychainFits, NEW p \in Procs, Command(p) \/ GiveUp(p), NotShared'
  PROVE  KeychainFits'
  <1>1. PICK r \in CommandStates : Turns(p, r) /\ CommandFits(p, r) /\ Follows(p, r)
    BY CommandTurns
  <1>2. cmd'[p] = r /\ cmd[p] \in CommandStates /\ CommandFits(p, cmd[p])
    BY <1>1, TurnFacts DEF VaultBase
  <1>3. /\ \A s \in OfKind("keychain") : s.kek = keyring
        /\ \A s, t \in OfKind("keychain") : s.id = t.id
        /\ \A q \in Procs : Between(q) => OfKind("keychain") = {}
    BY DEF KeychainFits, Between
  <1>4. Finish(p) => r.at = "idle"
    BY <1>2 DEF Finish, VaultBase, NoCommand
  \* Most steps are none of the keychain's business.
  <1>5. ASSUME OfKind("keychain")' \subseteq OfKind("keychain"), keyring' = keyring,
               r.at \notin {"enroll", "delete entry"}
        PROVE  KeychainFits'
    <2>1. \A s \in OfKind("keychain")' : s \in OfKind("keychain")
      BY <1>5
    <2>2. /\ \A s \in OfKind("keychain")' : s.kek = keyring'
          /\ \A s, t \in OfKind("keychain")' : s.id = t.id
          /\ \A q \in Procs : Between(q) => OfKind("keychain")' = {}
      BY <1>3, <1>5, <2>1
    <2>3. QED
      BY <1>1, <1>5, <2>2, KeychainTurns
  <1>6. ~ SetEntry(p) /\ ~ DeleteSlot(p) => r.at \notin {"enroll", "delete entry"}
    BY <1>1 DEF Follows
  <1>7. CASE SetEntry(p)
    <2>1. /\ keyring' = keys + 1 /\ slots' = slots /\ cmd[p].at = "set entry"
          /\ cmd' = [cmd EXCEPT ![p].at = "enroll", ![p].kek = keys + 1]
      BY <1>7 DEF SetEntry, CommandAt, storeVars, slotVars
    <2>2. OfKind("keychain") = {} /\ \A q \in Procs \ {p} : ~ Between(q)
      BY <1>7 DEF SetEntry, EntryIsShared, NotShared, CommandAt, Between
    <2>3. OfKind("keychain")' = {}
      BY <2>1, <2>2 DEF OfKind
    <2>4. r.at = "enroll" /\ r.kek = keys + 1
      BY <1>2, <2>1 DEF VaultBase, CommandStates
    <2>5. \A q \in Procs \ {p} : cmd[q].at # "enroll"
      BY <2>2 DEF Between
    <2>6. QED
      BY <1>1, <2>1, <2>2, <2>3, <2>4, <2>5, KeychainTurns
  <1>8. CASE EnrollSlot(p)
    <2>1. /\ cmd[p].at = "enroll" /\ keyring' = keyring /\ OfKind("keychain") = {}
          /\ cmd[p].kek = keyring /\ r.at = "idle" /\ \A q \in Procs \ {p} : ~ Between(q)
      BY <1>4, <1>8 DEF EnrollSlot, CommandAt, KeychainFits, Between, hostVars
    <2>2. PICK w \in Wraps : w.kind = "keychain" /\ w.kek = cmd[p].kek /\ slots' = slots \cup {w}
      BY <1>8, SlotsStayWraps
    <2>3. OfKind("keychain")' = {w}
      BY <2>1, <2>2 DEF OfKind
    <2>4. /\ \A s \in OfKind("keychain")' : s.kek = keyring'
          /\ \A s, t \in OfKind("keychain")' : s.id = t.id
      BY <2>1, <2>2, <2>3
    <2>5. \A q \in Procs \ {p} : cmd[q].at # "enroll"
      BY <2>1 DEF Between
    <2>6. QED
      BY <1>1, <2>1, <2>4, <2>5, KeychainTurns
  <1>9. CASE DeleteSlot(p)
    <2>1. /\ slots' = {s \in slots : s.id # cmd[p].slot.id} /\ cmd[p].at = "delete slot"
          /\ keyring' = keyring
      BY <1>9 DEF DeleteSlot, CommandAt, hostVars
    <2>2. OfKind("keychain")' = {s \in OfKind("keychain") : s.id # cmd[p].slot.id}
      BY <2>1 DEF OfKind
    <2>3. CASE cmd[p].slot.kind = "keychain"
      <3>1. PICK t \in slots : t.id = cmd[p].slot.id
        BY <1>9 DEF DeleteSlot, MayDelete
      <3>2. t \in OfKind("keychain")
        BY <2>1, <2>3, <3>1 DEF IdsFit, OfKind
      <3>3. OfKind("keychain")' = {}
        BY <1>3, <2>2, <3>1, <3>2
      <3>4. \A q \in Procs : ~ Between(q)
        BY <1>3, <3>2
      <3>5. Step(p, "delete entry")
        BY <1>9, <2>3 DEF DeleteSlot
      <3>6. r.at = "delete entry"
        BY <1>2, <3>5 DEF Step, VaultBase, CommandStates
      <3>7. \A q \in Procs \ {p} : cmd[q].at # "enroll"
        BY <3>4 DEF Between
      <3>8. QED
        BY <1>1, <3>3, <3>4, <3>6, <3>7, KeychainTurns
    <2>4. CASE cmd[p].slot.kind # "keychain"
      <3>1. r.at = "idle"
        BY <1>4, <1>9, <2>4 DEF DeleteSlot
      <3>2. QED
        BY <1>5, <2>1, <2>2, <3>1
    <2>5. QED
      BY <2>3, <2>4
  <1>10. CASE DeleteEntry(p)
    <2>1. cmd[p].at = "delete entry" /\ OfKind("keychain") = {} /\ slots' = slots /\ r.at = "idle"
      BY <1>4, <1>10 DEF DeleteEntry, CommandAt, KeychainFits, storeVars, slotVars
    <2>2. OfKind("keychain")' = {}
      BY <2>1 DEF OfKind
    <2>3. \A q \in Procs \ {p} : cmd[q].at # "enroll"
      BY <2>1 DEF KeychainFits
    <2>4. QED
      BY <1>1, <2>1, <2>2, <2>3, KeychainTurns
  <1>11. CASE InsertFirstSlot(p) \/ UpdateSlot(p)
    <2>1. ~ SetEntry(p) /\ ~ DeleteSlot(p) /\ keyring' = keyring
      BY <1>11 DEF InsertFirstSlot, UpdateSlot, SetEntry, DeleteSlot, CommandAt, hostVars
    <2>2. \A s \in slots' : s \in slots \/ s.kind = "passphrase"
      BY <1>11, SlotsStayWraps DEF UpdateSlot
    <2>3. OfKind("keychain")' \subseteq OfKind("keychain")
      BY <2>2 DEF OfKind
    <2>4. QED
      BY <1>5, <1>6, <2>1, <2>3
  <1>12. CASE ~ SetEntry(p) /\ ~ DeleteSlot(p) /\ slots' = slots /\ keyring' = keyring
    BY <1>5, <1>6, <1>12 DEF OfKind
  <1>13. QED
    <2>1. CASE \/ StartCommand(p) \/ OpenByKeychain(p) \/ KeychainUnavailable(p)
               \/ OpenBySession(p) \/ NoSession(p) \/ StillLocked(p) \/ MintDataKey(p)
               \/ NotYetEnrolled(p) \/ FindSlot(p) \/ SlotRefused(p) \/ Rewrap(p) \/ GiveUp(p)
               \/ OpenByPassphrase(p) \/ ForceMintSession(p) \/ PurgeSession(p)
               \/ Put(p) \/ RotateCredential(p) \/ RevokeCredential(p) \/ RemoveCredential(p)
      <3>1. slots' = slots /\ keyring' = keyring
        BY <2>1 DEF StartCommand, OpenByKeychain, KeychainUnavailable, OpenBySession, NoSession,
           StillLocked, MintDataKey, NotYetEnrolled, FindSlot, SlotRefused, Rewrap, GiveUp,
           OpenByPassphrase, ForceMintSession, PurgeSession, Put, RotateCredential,
           RevokeCredential, RemoveCredential, storeVars, slotVars, hostVars
      <3>2. QED
        BY <1>7, <1>9, <1>12, <3>1
    <2>2. QED
      BY <1>7, <1>8, <1>9, <1>10, <1>11, <2>1 DEF Command

\* The steps of the project database, and what they leave of the vault.

\* A version that is missing stays missing but for the body that creates it.
LEMMA LookUpKeepsAbsent ==
  ASSUME MigrationIInv, NEW p \in Openers, LookUp(p), NEW v \in Versions, ledger[v] = Absent
  PROVE  ledger'[v] = Absent
  <1>1. CASE Heal(p)
    <2>1. op[p].v \in Versions /\ ledger[op[p].v] # Absent
      BY <1>1 DEF Heal, MigrationIInv, HealIsThere
    <2>2. ledger \in [Versions -> Bodies \cup {Absent}]
      BY DEF MigrationIInv, MigrationTypeOK
    <2>3. ledger' = ledger \/ ledger' = [ledger EXCEPT ![op[p].v] = Mine(p)]
      BY <1>1 DEF Heal
    <2>4. QED
      BY <2>1, <2>2, <2>3
  <1>2. CASE ledger' = ledger
    BY <1>2
  <1>3. QED
    BY <1>1, <1>2 DEF LookUp, BeginOpen, Verified, Pending, IsSuperseded, Mismatch,
       AppliedMeanwhile, LockTimesOut, EndOpen

LEMMA ApplyKeepsAbsent ==
  ASSUME MigrationIInv, NEW p \in Openers, Apply(p), NEW v \in Versions, ledger[v] = Absent,
         op[p].v # v \/ ledger' = ledger
  PROVE  ledger'[v] = Absent
  BY DEF Apply, MigrationIInv, MigrationTypeOK

\* Whoever works on the vault has the slot table, and no older wrap.
LEMMA OpenedIsMigrated ==
  ASSUME VaultIInv, NEW p \in Procs, Opened(p)
  PROVE  meta = NoKey
  <1>1. ledger[SlotVersion] # Absent
    BY VaultFacts DEF VaultIInv, MigrationIInv, PassedIsThere
  <1>2. QED
    BY <1>1 DEF VaultIInv, Unmigrated

\* The step that carries an older wrap over.
LEMMA CopyKeeps ==
  ASSUME VaultBase, Unmigrated, CopyOldWrap
  PROVE  /\ VaultBase' /\ meta' = NoKey /\ mishaps' = mishaps
         /\ (IdsFit => IdsFit') /\ (KeychainFits => KeychainFits') /\ (OneKey => OneKey')
  <1>1. meta' = NoKey /\ UNCHANGED <<cast, mishaps, rows, keyring, session, keys, cmd>>
    BY DEF CopyOldWrap, castVars, hostVars
  <1>2. CASE meta = NoKey
    <2>1. slots' = slots /\ ids' = ids /\ meta' = meta
      BY <1>1, <1>2 DEF CopyOldWrap
    <2>2. VaultBase'
      BY <1>1, <2>1 DEF VaultBase, VaultTypeOK, CommandFits
    <2>3. (IdsFit => IdsFit') /\ (KeychainFits => KeychainFits')
      BY <1>1, <2>1 DEF IdsFit, KeychainFits, OfKind
    <2>4. OneKey => OneKey'
      BY <1>1, <2>1 DEF OneKey, DataKeys, Present
    <2>5. QED
      BY <1>1, <2>2, <2>3, <2>4
  <1>3. CASE meta # NoKey
    <2>1. /\ slots = {} /\ ids = 0 /\ ids < MaxSlots /\ meta \in Passphrases
          /\ AddSlot("passphrase", OldKey, meta) /\ VaultTypeOK
      <3>1. VaultTypeOK /\ meta \in Passphrases
        BY <1>3 DEF VaultBase, VaultTypeOK
      <3>2. slots = {} /\ ids = 0 /\ 0 < MaxSlots
        BY <1>3, VaultFacts DEF Unmigrated
      <3>3. QED
        BY <1>3, <3>1, <3>2 DEF CopyOldWrap
    <2>2. PICK w \in Wraps : /\ w.kind = "passphrase" /\ w.dek = OldKey
                             /\ slots' = slots \cup {w} /\ slots' \subseteq Wraps
                             /\ ids' \in 0 .. MaxSlots
      BY <2>1, AddedSlot, VaultFacts
    <2>3. VaultTypeOK'
      BY <1>1, <2>1, <2>2 DEF VaultTypeOK
    <2>4. VaultBase'
      BY <1>1, <2>3 DEF VaultBase, CommandFits
    <2>5. KeychainFits => KeychainFits'
      <3>1. OfKind("keychain")' = OfKind("keychain")
        BY <2>1, <2>2 DEF OfKind
      <3>2. QED
        BY <1>1, <3>1 DEF KeychainFits
    <2>6. DataKeys' = DataKeys
      BY <1>1, <1>3, <2>1, <2>2 DEF DataKeys
    <2>7. OneKey => OneKey'
      BY <1>1, <2>6 DEF OneKey, Present
    <2>8. \A n \in 1 .. MaxSlots : ~ (n <= 0)
      BY VaultFacts
    <2>9. IdsFit => IdsFit'
      <3> SUFFICES ASSUME IdsFit PROVE IdsFit'
        OBVIOUS
      <3>1. slots' = {[id |-> 1, kind |-> "passphrase", dek |-> OldKey, kek |-> meta]} /\ ids' = 1
        BY <2>1 DEF AddSlot
      <3>2. \A q \in Procs : cmd[q].at \notin {"delete slot", "rewrap"}
        <4> SUFFICES ASSUME NEW q \in Procs, cmd[q].at \in {"delete slot", "rewrap"} PROVE FALSE
          OBVIOUS
        <4>1. cmd[q].slot.id \in 1 .. MaxSlots
          <5>1. CommandFits(q, cmd[q])
            BY DEF VaultBase
          <5>2. cmd[q].slot \in Wraps
            BY <5>1 DEF CommandFits
          <5>3. QED
            BY <5>2, VaultFacts
        <4>2. cmd[q].slot.id <= ids
          BY DEF IdsFit
        <4>3. cmd[q].slot.id <= 0
          BY <2>1, <4>2, Zenon
        <4>4. QED
          BY <2>8, <4>1, <4>3, Zenon
      <3>3. \A q \in Procs : cmd'[q].at \notin {"delete slot", "rewrap"}
        BY <1>1, <3>2
      <3>4. (\A s \in slots' : s.id <= ids') /\ \A s, t \in slots' : s.kind = t.kind
        BY <3>1
      <3>5. QED
        BY <3>3, <3>4 DEF IdsFit
    <2>10. QED
      BY <1>1, <2>4, <2>5, <2>7, <2>9
  <1>4. QED
    BY <1>2, <1>3

LEMMA VaultStays ==
  ASSUME UNCHANGED vaultVars
  PROVE  /\ VaultBase => VaultBase' /\ meta' = meta /\ slots' = slots /\ ids' = ids
         /\ mishaps' = mishaps
         /\ (IdsFit => IdsFit') /\ (KeychainFits => KeychainFits') /\ (OneKey => OneKey')
  <1>1. UNCHANGED <<cast, mishaps, slots, ids, meta, rows, keyring, session, keys, cmd>>
    BY DEF vaultVars, castVars, storeVars, slotVars, hostVars
  <1>2. VaultBase => VaultBase'
    BY <1>1 DEF VaultBase, VaultTypeOK, CommandFits
  <1>3. (IdsFit => IdsFit') /\ (KeychainFits => KeychainFits')
    BY <1>1 DEF IdsFit, KeychainFits, OfKind
  <1>4. OneKey => OneKey'
    BY <1>1 DEF OneKey, DataKeys, Present
  <1>5. QED
    BY <1>1, <1>2, <1>3, <1>4

\* A cached session that ends, and a file that is deleted.
LEMMA EndingKeeps ==
  ASSUME VaultBase, SessionEnds
  PROVE  /\ VaultBase' /\ meta' = meta /\ slots' = slots /\ ids' = ids
         /\ mishaps' = mishaps
         /\ (IdsFit => IdsFit') /\ (KeychainFits => KeychainFits') /\ (OneKey => OneKey')
  <1>1. UNCHANGED <<cast, mishaps, slots, ids, meta, rows, keyring, keys, cmd>> /\ session' = NoKey
    BY DEF SessionEnds, castVars, storeVars, slotVars
  <1>2. VaultBase'
    BY <1>1 DEF VaultBase, VaultTypeOK, CommandFits
  <1>3. (IdsFit => IdsFit') /\ (KeychainFits => KeychainFits')
    BY <1>1 DEF IdsFit, KeychainFits, OfKind
  <1>4. OneKey => OneKey'
    BY <1>1 DEF OneKey, DataKeys, Present
  <1>5. QED
    BY <1>1, <1>2, <1>3, <1>4

LEMMA DeletingKeeps ==
  ASSUME VaultBase, DeleteStore
  PROVE  VaultBase' /\ meta' = NoKey /\ IdsFit' /\ KeychainFits' /\ OneKey'
  <1>1. /\ slots' = {} /\ ids' = 0 /\ meta' = NoKey /\ rows' = [c \in Creds |-> NoRow]
        /\ \A p \in Procs : cmd[p].at = "idle" /\ cmd[p].dek = NoKey
        /\ mishaps' = {} /\ UNCHANGED <<cast, keyring, session, keys, cmd>>
    <2>1. \A p \in Procs : CommandFits(p, cmd[p])
      BY DEF VaultBase
    <2>2. \A p \in Procs : cmd[p].at = "idle" /\ cmd[p].dek = NoKey
      BY <2>1 DEF DeleteStore, CommandAt, CommandFits
    <2>3. QED
      BY <2>2 DEF DeleteStore, hostVars
  <1>2. VaultTypeOK'
    <2>1. VaultTypeOK /\ 0 \in 0 .. MaxSlots
      BY VaultFacts DEF VaultBase
    <2>2. rows' \in [Creds -> [dek : KeyOrNone, revoked : BOOLEAN]]
      BY <1>1 DEF NoRow, KeyOrNone
    <2>3. QED
      BY <1>1, <2>1, <2>2 DEF VaultTypeOK, KeyOrNone
  <1>3. VaultBase'
    BY <1>1, <1>2 DEF VaultBase, CommandFits
  <1>4. OfKind("keychain")' = {}
    BY <1>1 DEF OfKind
  <1>5. IdsFit' /\ KeychainFits'
    BY <1>1, <1>4 DEF IdsFit, KeychainFits
  <1>6. DataKeys' = {} /\ \A c \in Creds : ~ Present(c)'
    BY <1>1 DEF DataKeys, Present
  <1>7. OneKey'
    BY <1>1, <1>6 DEF OneKey
  <1>8. QED
    BY <1>1, <1>3, <1>5, <1>7

\* The parts of the invariants that go with the file.
LEMMA HistoryOfFile ==
  ASSUME mishaps \subseteq mishaps'
  PROVE  (Founded' => Founded) /\ (NotShared' => NotShared)
  BY DEF Founded, NotShared

LEMMA VaultInvariance ==
  ASSUME VaultIInv, [ProjectDbNext]_projectDbVars
  PROVE  /\ VaultIInv'
         /\ IdsFit /\ (NotShared => KeychainFits) => (IdsFit /\ (NotShared => KeychainFits))'
         /\ (Founded => OneKey) => (Founded => OneKey)'
  <1> DEFINE Kept ==
        /\ VaultIInv'
        /\ IdsFit /\ (NotShared => KeychainFits) => (IdsFit /\ (NotShared => KeychainFits))'
        /\ (Founded => OneKey) => (Founded => OneKey)'
  <1>1. MigrationIInv'
    BY ProjectDbSteps, MigratingKeeps, DeletedIsEmpty, MigrationStays DEF VaultIInv
  <1>2. VaultBase /\ Unmigrated /\ MigrationIInv /\ Procs = Openers /\ SlotVersion \in Versions
    BY VaultFacts DEF VaultIInv
  <1>3. ASSUME UNCHANGED vaultVars, ledger[SlotVersion] = Absent => ledger'[SlotVersion] = Absent
        PROVE  Kept
    BY <1>1, <1>2, <1>3, VaultStays DEF VaultIInv, Unmigrated, Founded, NotShared
  <1>4. CASE UNCHANGED projectDbVars
    BY <1>3, <1>4 DEF projectDbVars, migrationVars
  <1>5. ASSUME NEW p \in Procs, MigrateStep(p) \/ Die(p)
        PROVE  Kept
    BY <1>2, <1>3, <1>5, LookUpKeepsAbsent DEF MigrateStep, Die, DieOpening
  <1>6. ASSUME NEW p \in Procs, ApplyBody(p)
        PROVE  Kept
    <2>1. CASE op[p].v = SlotVersion /\ ledger' # ledger
      BY <1>1, <1>2, <1>6, <2>1, CopyKeeps DEF ApplyBody, VaultIInv, Unmigrated, Founded, NotShared
    <2>2. CASE ~ (op[p].v = SlotVersion /\ ledger' # ledger)
      <3>1. UNCHANGED vaultVars /\ Apply(p)
        BY <1>6, <2>2 DEF ApplyBody
      <3>2. ledger[SlotVersion] = Absent => ledger'[SlotVersion] = Absent
        BY <1>2, <2>2, <3>1, ApplyKeepsAbsent
      <3>3. QED
        BY <1>3, <3>1, <3>2
    <2>3. QED
      BY <2>1, <2>2
  <1>7. ASSUME NEW p \in Procs, VaultStep(p)
        PROVE  Kept
    <2>1. Opened(p) /\ Command(p) /\ meta = NoKey
      BY <1>7, OpenedIsMigrated DEF VaultStep
    <2>2. VaultBase' /\ meta' = NoKey
      BY <1>2, <2>1, CommandKeepsBase
    <2>3. VaultIInv'
      BY <1>1, <2>2 DEF VaultIInv, Unmigrated
    <2>4. (Founded' => Founded) /\ (NotShared' => NotShared)
      BY <2>1, MishapsGrow, HistoryOfFile
    <2>5. IdsFit /\ (NotShared => KeychainFits) => IdsFit' /\ (NotShared' => KeychainFits')
      BY <1>2, <2>1, <2>4, CommandKeepsIds, CommandKeepsKeychain
    <2>6. (Founded => OneKey) => (Founded' => OneKey')
      BY <1>2, <2>1, <2>4, CommandKeepsOneKey
    <2>7. QED
      BY <2>3, <2>5, <2>6
  <1>8. ASSUME NEW p \in Procs, Abort(p)
        PROVE  Kept
    <2>1. GiveUp(p) /\ ledger' = ledger
      BY <1>8 DEF Abort, migrationVars
    <2>2. VaultBase' /\ UNCHANGED <<meta, slots, ids>>
      BY <1>2, <2>1, CommandKeepsBase DEF GiveUp, storeVars, slotVars
    <2>3. VaultIInv'
      BY <1>1, <1>2, <2>1, <2>2 DEF VaultIInv, Unmigrated
    <2>4. (Founded' => Founded) /\ (NotShared' => NotShared)
      BY <2>1, MishapsGrow, HistoryOfFile
    <2>5. IdsFit /\ (NotShared => KeychainFits) => IdsFit' /\ (NotShared' => KeychainFits')
      BY <1>2, <2>1, <2>4, CommandKeepsIds, CommandKeepsKeychain
    <2>6. (Founded => OneKey) => (Founded' => OneKey')
      BY <1>2, <2>1, <2>4, GiveUpKeepsOneKey
    <2>7. QED
      BY <2>3, <2>5, <2>6
  <1>9. CASE TimePasses
    <2>1. SessionEnds /\ ledger' = ledger
      BY <1>9 DEF TimePasses, migrationVars
    <2>2. QED
      BY <1>1, <1>2, <2>1, EndingKeeps DEF VaultIInv, Unmigrated, Founded, NotShared
  <1>10. CASE DeleteFile
    BY <1>1, <1>2, <1>10, DeletingKeeps DEF DeleteFile, VaultIInv, Unmigrated
  <1>11. QED
    BY <1>4, <1>5, <1>6, <1>7, <1>8, <1>9, <1>10 DEF ProjectDbNext

LEMMA InitVault == ProjectDbInit => VaultIInv /\ IdsFit /\ KeychainFits /\ OneKey
  <1> SUFFICES ASSUME ProjectDbInit PROVE VaultIInv /\ IdsFit /\ KeychainFits /\ OneKey
    OBVIOUS
  <1>1. MigrationIInv
    BY InitMigration DEF ProjectDbInit
  <1>2. PICK pass \in Passphrases :
          /\ meta = IF cast.store = "unslotted" THEN pass ELSE NoKey
          /\ slots = IF cast.store # "established" THEN {}
                     ELSE {[id |-> 1, kind |-> "passphrase", dek |-> OldKey, kek |-> pass]}
    BY DEF ProjectDbInit, VaultInit
  <1>3. /\ cast \in Casts /\ keyring = NoKey /\ session = NoKey /\ mishaps = {}
        /\ ids = (IF cast.store = "established" THEN 1 ELSE 0)
        /\ keys = (IF cast.store = "fresh" THEN 0 ELSE OldKey)
        /\ cmd = [p \in Procs |-> NoCommand]
        /\ rows \in [Creds -> IF cast.store = "fresh" THEN {NoRow}
                              ELSE {NoRow, [dek |-> OldKey, revoked |-> FALSE]}]
    BY DEF ProjectDbInit, VaultInit
  <1>4. PICK w \in Wraps : /\ w = [id |-> 1, kind |-> "passphrase", dek |-> OldKey, kek |-> pass]
                           /\ w.kind = "passphrase" /\ w.dek = OldKey
    <2>1. OldKey \in 1 .. MaxKeys /\ 1 \in 1 .. MaxSlots
      BY VaultFacts
    <2>2. PICK w \in Wraps : w = [id |-> 1, kind |-> "passphrase", dek |-> OldKey, kek |-> pass]
      BY <2>1 DEF Wraps
    <2>3. w.kind = "passphrase" /\ w.dek = OldKey
      BY <2>2
    <2>4. QED
      BY <2>2, <2>3
  <1>5. slots = IF cast.store # "established" THEN {} ELSE {w}
    BY <1>2, <1>4
  <1>6. cast.store \in {"fresh", "unslotted", "established"}
    BY <1>3, VaultFacts
  <1>7. NoCommand \in CommandStates /\ NoCommand.at = "idle" /\ NoCommand.dek = NoKey
    BY DEF NoCommand, CommandStates, CommandPlaces, KeyOrNone
  <1>8. \A p \in Procs : cmd[p].at = "idle" /\ cmd[p].dek = NoKey
    BY <1>3, <1>7
  <1>9. \A c \in Creds : /\ rows[c] \in {NoRow, [dek |-> OldKey, revoked |-> FALSE]}
                         /\ cast.store = "fresh" => rows[c] = NoRow
    BY <1>3
  <1>10. VaultTypeOK
    <2>1. rows \in [Creds -> [dek : KeyOrNone, revoked : BOOLEAN]]
      <3>1. NoRow \in [dek : KeyOrNone, revoked : BOOLEAN]
            /\ [dek |-> OldKey, revoked |-> FALSE] \in [dek : KeyOrNone, revoked : BOOLEAN]
        BY VaultFacts DEF NoRow, KeyOrNone
      <3>2. QED
        BY <1>3, <1>9, <3>1
    <2>2. ids \in 0 .. MaxSlots /\ keys \in 0 .. MaxKeys
      BY <1>3, VaultFacts
    <2>3. slots \subseteq Wraps /\ meta \in {NoKey} \cup Passphrases
      BY <1>2, <1>5
    <2>4. QED
      BY <1>3, <2>1, <2>2, <2>3 DEF VaultTypeOK, KeyOrNone
  <1>11. VaultBase
    BY <1>3, <1>7, <1>8, <1>10 DEF VaultBase, CommandFits
  <1>12. Unmigrated
    BY <1>2, <1>3 DEF Unmigrated, ProjectDbInit
  <1>13. KeychainFits
    <2>1. OfKind("keychain") = {}
      BY <1>4, <1>5 DEF OfKind
    <2>2. QED
      BY <1>8, <2>1 DEF KeychainFits
  <1>14. IdsFit
    <2>1. \A s \in slots : s.id <= ids
      BY <1>2, <1>3
    <2>2. \A s, t \in slots : s.kind = t.kind
      BY <1>2
    <2>3. QED
      BY <1>8, <2>1, <2>2 DEF IdsFit
  <1>15. DataKeys = IF cast.store = "fresh" THEN {} ELSE {OldKey}
    <2>1. cast.store = "unslotted" => meta # NoKey
      BY <1>2, VaultFacts
    <2>2. cast.store # "unslotted" => meta = NoKey
      BY <1>2
    <2>3. QED
      BY <1>4, <1>5, <1>6, <2>1, <2>2 DEF DataKeys
  <1>16. OneKey
    BY <1>3, <1>8, <1>9, <1>15 DEF OneKey, Present
  <1>17. QED
    BY <1>1, <1>11, <1>12, <1>13, <1>16, <1>14 DEF VaultIInv

\* The slots, the credentials, the entry and the session keep their types.
THEOREM VaultTypeCorrect == ProjectDbSpec => []VaultTypeOK
  <1>1. ProjectDbInit => VaultIInv
    BY InitVault
  <1>2. VaultIInv /\ [ProjectDbNext]_projectDbVars => VaultIInv'
    BY VaultInvariance
  <1>3. VaultIInv => VaultTypeOK
    BY DEF VaultIInv, VaultBase
  <1>4. QED
    BY <1>1, <1>2, <1>3, PTL DEF ProjectDbSpec

\* Every credential is sealed with the one key the slots wrap, whoever enrols,
\* revokes, rekeys, deletes or dies, unless two processes founded this store at a
\* time or a session opened it that had outlived another.
THEOREM RowsOpen == ProjectDbSpec => []EveryRowOpens
  <1>1. ProjectDbInit => OneKeyIInv
    BY InitVault DEF OneKeyIInv
  <1>2. OneKeyIInv /\ [ProjectDbNext]_projectDbVars => OneKeyIInv'
    BY VaultInvariance DEF OneKeyIInv
  <1>3. OneKeyIInv => EveryRowOpens
    <2>1. ASSUME OneKey, NEW c \in Creds, Present(c)
          PROVE  DataKeys = {rows[c].dek}
      BY <2>1 DEF OneKey
    <2>2. OneKey => OneDataKey
      BY <2>1 DEF OneDataKey, DataKeys
    <2>3. QED
      BY <2>2 DEF OneKeyIInv, EveryRowOpens, Founded
  <1>4. QED
    BY <1>1, <1>2, <1>3, PTL DEF ProjectDbSpec

\* A store with slots can be opened by somebody, unless one process set the
\* keychain entry beside another's slot.
THEOREM StoreStaysOpenable == ProjectDbSpec => []NeverBricked
  <1>1. ProjectDbInit => KeychainIInv
    BY InitVault DEF KeychainIInv
  <1>2. KeychainIInv /\ [ProjectDbNext]_projectDbVars => KeychainIInv'
    BY VaultInvariance DEF KeychainIInv
  <1>3. KeychainIInv => NeverBricked
    <2> SUFFICES ASSUME KeychainIInv, NotShared, NEW s \in slots
                 PROVE  s.kind = "passphrase" \/ s.kek = keyring
      BY DEF NeverBricked, SomebodyOpens, NotShared
    <2>1. s.kind \in {"passphrase", "keychain"}
      BY VaultFacts DEF KeychainIInv, VaultIInv, VaultBase, VaultTypeOK
    <2>2. QED
      BY <2>1 DEF KeychainIInv, KeychainFits, OfKind
  <1>4. QED
    BY <1>1, <1>2, <1>3, PTL DEF ProjectDbSpec
=============================================================================

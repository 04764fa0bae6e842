-------------------------- MODULE Watchtower_proofs --------------------------
(***************************************************************************)
(* Proofs about what starts a handler: Watchtower, for every set of        *)
(* events, requests, triggers and configurations, with and without failing *)
(* commits and redelivery; then Watcher, for any source and any number of  *)
(* watchers; then Sweeper, for any jobs and agents.  Each part has an      *)
(* inductive invariant; IInv is Watchtower's: what the loop holds is tied  *)
(* to what it has marked, settled and been allowed.                        *)
(***************************************************************************)
EXTENDS Watchtower, Watcher, Sweeper, FiniteSetTheorems, WellFoundedInduction, TLAPS

\* The triggers a walk has fired and those it has still to try are different.
FiredFits == disp.fired + Cardinality(disp.todo) <= TriggerCount

\* The loop holds an event exactly while it is not waiting for one.
HoldsOne == disp.at # "recv" => disp.event \in Events

\* Nobody walks over an event that is marked already.
WalksUnseen == disp.at = "walk" => disp.event \notin seen

\* A trigger that committed for an event no handle failed on is behind the walk
\* or the event is marked.
CommitsAreMarked ==
  \A e \in Events \ blemished : \A t \in Triggers :
    commits[e][t] > 0 =>
      \/ e \in seen
      \/ disp.at = "walk" /\ disp.event = e /\ t \notin disp.todo /\ disp.fired > 0

\* What is about to be acknowledged was handled to the end.
AckedIsSettled == disp.at = "ack" => disp.event \in settled

\* A permission in hand was in force at some moment since the event was taken.
SinceIsPast == disp.since <= version["policies"]
GrantedWasAllowed ==
  disp.granted =>
    \E v \in disp.since .. version["policies"] : Current \in Configs[v].allows

IInv ==
  /\ TypeOK /\ FiredFits /\ HoldsOne /\ WalksUnseen /\ CommitsAreMarked
  /\ AckedIsSettled /\ SinceIsPast /\ GrantedWasAllowed
  /\ OneNetEffect /\ AcceptedIsTracked

-----------------------------------------------------------------------------
LEMMA TowerFacts ==
  /\ TriggerCount \in Nat /\ Capacity \in Nat \ {0} /\ Events \subseteq Nat
  /\ NoEvent \notin Events
  /\ Matches \in [Events -> SUBSET Triggers]
  /\ Len(Configs) \in Nat \ {0} /\ DOMAIN Configs = 1 .. Len(Configs)
  /\ \A e \in Events : Matched(e) \subseteq Triggers
  /\ IsFiniteSet(Triggers) /\ Cardinality(Triggers) = TriggerCount
  <1>1. Len(Configs) \in Nat \ {0} /\ DOMAIN Configs = 1 .. Len(Configs)
    BY TowerConstants
  <1>2. IsFiniteSet(Triggers) /\ Cardinality(Triggers) = TriggerCount
    BY TowerConstants, FS_Interval DEF Triggers
  <1>3. QED
    BY <1>1, <1>2, TowerConstants, BusConstants DEF Matched

\* What receiving and sending do to the set of queued events.
LEMMA SendQueues ==
  ASSUME channel \in Seq(Events), NEW e \in Events, TrySend(e)
  PROVE  /\ channel' \in Seq(Events) /\ Len(channel') <= Capacity
         /\ Queued' = Queued \cup {e}
  <1>1. /\ channel' \in Seq(Events) /\ Len(channel') = Len(channel) + 1
        /\ Len(channel) < Capacity
        /\ \A i \in 1 .. Len(channel) : channel'[i] = channel[i]
        /\ channel'[Len(channel) + 1] = e
    BY DEF TrySend, HasRoom
  <1>2. /\ DOMAIN channel = 1 .. Len(channel) /\ Len(channel) \in Nat
        /\ DOMAIN channel' = 1 .. Len(channel) + 1
    BY <1>1
  <1>3. Queued \cup {e} \subseteq Queued'
    BY <1>1, <1>2 DEF Queued
  <1>4. Queued' \subseteq Queued \cup {e}
    BY <1>1, <1>2 DEF Queued
  <1>5. QED
    BY <1>1, <1>2, <1>3, <1>4, TowerFacts

LEMMA ReceiveQueues ==
  ASSUME channel \in Seq(Events), NEW e, Receive(e)
  PROVE  /\ channel' \in Seq(Events) /\ Len(channel') < Len(channel)
         /\ e \in Events
         /\ Queued \subseteq Queued' \cup {e}
  <1>1. /\ channel # << >> /\ channel' = Tail(channel) /\ e = channel[1]
        /\ channel' \in Seq(Events) /\ Len(channel') = Len(channel) - 1
        /\ Len(channel) \in Nat \ {0}
    BY DEF Receive
  <1>2. \A i \in 2 .. Len(channel) : channel'[i - 1] = channel[i] /\ i - 1 \in DOMAIN channel'
    BY <1>1
  <1>3. ASSUME NEW x \in Queued, x # e PROVE x \in Queued'
    <2>1. PICK i \in DOMAIN channel : channel[i] = x
      BY DEF Queued
    <2>2. i \in 2 .. Len(channel)
      BY <1>1, <1>3, <2>1
    <2>3. channel'[i - 1] = x /\ i - 1 \in DOMAIN channel'
      BY <1>2, <2>1, <2>2
    <2>4. QED
      BY <2>3 DEF Queued
  <1>4. QED
    BY <1>1, <1>3

\* A set of naturals has a least member, and Least names it.
LEMMA LeastIsMember ==
  ASSUME NEW S, S \subseteq Nat, S # {}
  PROVE  Least(S) \in S /\ \A f \in S : Least(S) <= f
  <1> DEFINE Less == {ss \in Nat \X Nat : ss[1] < ss[2]}
  <1>1. IsWellFoundedOn(Less, Nat)
    BY NatLessThanWellFounded DEF OpToRel
  <1>2. PICK e \in S : \A f \in S : <<f, e>> \notin Less
    <2> HIDE DEF Less
    <2> QED
      BY <1>1, WFMin
  <1>3. \A f \in S : e <= f
    <2> TAKE f \in S
    <2>1. <<f, e>> \in Nat \X Nat /\ <<f, e>> \notin Less
      BY <1>2
    <2>2. ~ (<<f, e>>[1] < <<f, e>>[2])
      BY <2>1
    <2>3. QED
      BY <2>2
  <1>4. QED
    BY <1>3 DEF Least

LEMMA InitIInv == Init => IInv
  <1> SUFFICES ASSUME Init PROVE IInv
    OBVIOUS
  <1>1. disp \in DispStates
    BY TowerFacts DEF Init, Idle, DispStates
  <1>2. commits \in [Events -> [Triggers -> 0 .. 2]] /\ \A e \in Events, t \in Triggers : commits[e][t] = 0
    BY DEF Init
  <1>3. req \in [Requests -> {"new", "routed", "spooled"} \cup Answers] /\ \A r \in Requests : req[r] = "new"
    BY DEF Init
  <1>4. version \in [{"routes", "triggers", "policies"} -> DOMAIN Configs] /\ version["policies"] = 1
    BY TowerFacts DEF Init
  <1>5. BusTypeOK
    BY TowerFacts DEF Init, BusInit, BusTypeOK
  <1>6. Cardinality({}) = 0
    BY FS_EmptySet
  <1>7. TypeOK
    BY <1>1, <1>2, <1>3, <1>4, <1>5 DEF Init, TypeOK
  <1>8. /\ FiredFits /\ HoldsOne /\ WalksUnseen /\ AckedIsSettled /\ SinceIsPast
        /\ GrantedWasAllowed
    BY <1>4, <1>6, TowerFacts DEF Init, Idle, FiredFits, HoldsOne, WalksUnseen, AckedIsSettled,
       SinceIsPast, GrantedWasAllowed
  <1>9. CommitsAreMarked /\ OneNetEffect /\ AcceptedIsTracked
    BY <1>2, <1>3 DEF CommitsAreMarked, OneNetEffect, AcceptedIsTracked
  <1>10. QED
    BY <1>7, <1>8, <1>9 DEF IInv

-----------------------------------------------------------------------------
(* Types.                                                                  *)

\* The trigger a walk has come to is one of those it has still to try.
LEMMA CurrentFacts ==
  ASSUME TypeOK, HoldsOne, Walking
  PROVE  /\ Current \in disp.todo /\ Current \in Triggers
         /\ disp.todo \subseteq Triggers
         /\ disp.event \in Events /\ disp.at = "walk"
  <1>1. disp.todo \subseteq Triggers /\ disp.todo # {} /\ disp.at = "walk"
    BY DEF TypeOK, DispStates, Walking
  <1>2. Current \in disp.todo
    BY <1>1, LeastIsMember, TowerFacts DEF Current, Triggers
  <1>3. QED
    BY <1>1, <1>2 DEF HoldsOne

\* A walk that fires or passes over a trigger has one less to try.
LEMMA OneLess ==
  ASSUME TypeOK, HoldsOne, Walking
  PROVE  /\ Cardinality(disp.todo) \in Nat \ {0}
         /\ Cardinality(disp.todo \ {Current}) = Cardinality(disp.todo) - 1
         /\ Cardinality(disp.todo) <= TriggerCount
  <1>1. disp.todo \in SUBSET Triggers /\ Current \in disp.todo
    BY CurrentFacts
  <1>2. IsFiniteSet(disp.todo) /\ Cardinality(disp.todo) <= TriggerCount
    BY <1>1, TowerFacts, FS_Subset
  <1>3. Cardinality(disp.todo) \in Nat
    BY <1>2, FS_CardinalityType
  <1>4. Cardinality(disp.todo \ {Current}) = Cardinality(disp.todo) - 1
    BY <1>1, <1>2, FS_RemoveElement
  <1>5. Cardinality(disp.todo \ {Current}) \in Nat
    BY <1>2, FS_RemoveElement, FS_CardinalityType
  <1>6. QED
    BY <1>2, <1>3, <1>4, <1>5

LEMMA DispTypes ==
  ASSUME TypeOK, HoldsOne, FiredFits, Dispatch
  PROVE  disp' \in DispStates /\ FiredFits' /\ HoldsOne'
  <1> USE TowerFacts
  <1>1. Idle \in DispStates /\ Idle.fired = 0 /\ Idle.todo = {} /\ Idle.at = "recv"
    BY DEF Idle, DispStates
  <1>2. disp \in DispStates
    BY DEF TypeOK
  <1>3. \A T \in SUBSET Triggers : Cardinality(T) \in Nat /\ Cardinality(T) <= TriggerCount
    BY FS_Subset, FS_CardinalityType
  <1>4. ASSUME disp' = Idle PROVE disp' \in DispStates /\ FiredFits' /\ HoldsOne'
    <2>1. disp'.fired + Cardinality(disp'.todo) = 0
      BY <1>4, <1>1, FS_EmptySet
    <2>2. QED
      BY <1>4, <1>1, <2>1 DEF FiredFits, HoldsOne
  <1>5. ASSUME NEW e \in Events, Take(e) PROVE disp' \in DispStates /\ FiredFits' /\ HoldsOne'
    <2>1. version["policies"] \in DOMAIN Configs
      BY DEF TypeOK
    <2>2. CASE AlreadySeen(e) \/ Matched(e) = {}
      <3>1. disp' = [Idle EXCEPT !.at = "ack", !.event = e]
        BY <1>5, <2>2 DEF Take
      <3>2. disp' \in DispStates /\ disp'.fired = 0 /\ disp'.todo = {} /\ disp'.event = e
        BY <1>1, <3>1 DEF DispStates
      <3>3. QED
        BY <3>2, <1>3 DEF FiredFits, HoldsOne
    <2>3. CASE ~ (AlreadySeen(e) \/ Matched(e) = {})
      <3>1. disp' = [Idle EXCEPT !.at = "walk", !.event = e, !.todo = Matched(e),
                                 !.since = version["policies"]]
        BY <1>5, <2>3 DEF Take
      <3>2. disp' \in DispStates /\ disp'.fired = 0 /\ disp'.todo \subseteq Triggers /\ disp'.event = e
        BY <1>1, <2>1, <3>1 DEF DispStates
      <3>3. QED
        BY <3>2, <1>3 DEF FiredFits, HoldsOne
    <2>4. QED
      BY <2>2, <2>3
  <1>6. ASSUME Walking, PassOver PROVE disp' \in DispStates /\ FiredFits' /\ HoldsOne'
    <2>1. /\ disp' \in DispStates /\ disp'.fired = disp.fired /\ disp'.event = disp.event
          /\ disp'.todo = disp.todo \ {Current}
      BY <1>2, <1>6 DEF PassOver, DispStates
    <2>2. disp.fired \in Nat
      BY <1>2 DEF DispStates
    <2>3. QED
      BY <1>6, <2>1, <2>2, OneLess, CurrentFacts DEF FiredFits, HoldsOne
  <1>7. CASE Gate
    BY <1>6, <1>7 DEF Gate, Asking
  <1>8. CASE Grant
    <2>1. /\ disp' \in DispStates /\ disp'.fired = disp.fired /\ disp'.event = disp.event
          /\ disp'.todo = disp.todo /\ disp'.at = disp.at
      BY <1>2, <1>8 DEF Grant, DispStates
    <2>2. QED
      BY <2>1 DEF FiredFits, HoldsOne
  <1>9. CASE CommitOk
    <2>1. /\ disp'.fired = disp.fired + 1 /\ disp'.event = disp.event
          /\ disp'.todo = disp.todo \ {Current} /\ disp'.at = disp.at
          /\ disp'.granted = FALSE /\ disp'.since = disp.since
          /\ disp' = [at |-> disp'.at, event |-> disp'.event, todo |-> disp'.todo,
                      fired |-> disp'.fired, granted |-> disp'.granted, since |-> disp'.since]
      BY <1>2, <1>9 DEF CommitOk, DispStates
    <2>2. disp.fired \in Nat /\ Walking
      BY <1>2, <1>9 DEF DispStates, CommitOk
    <2>3. disp.fired + 1 \in 0 .. TriggerCount /\ FiredFits'
      BY <2>1, <2>2, OneLess DEF FiredFits
    <2>4. disp' \in DispStates
      BY <1>2, <2>1, <2>3 DEF DispStates
    <2>5. QED
      BY <2>1, <2>2, <2>3, <2>4, CurrentFacts DEF HoldsOne
  <1>10. CASE CommitErr
    BY <1>4, <1>10 DEF CommitErr
  <1>11. CASE Finish
    <2>1. /\ disp' \in DispStates /\ disp'.fired = disp.fired /\ disp'.event = disp.event
          /\ disp'.todo = disp.todo /\ disp.at = "walk"
      BY <1>2, <1>11 DEF Finish, DispStates
    <2>2. QED
      BY <2>1 DEF FiredFits, HoldsOne
  <1>12. CASE AckIt
    BY <1>4, <1>12 DEF AckIt
  <1>13. QED
    BY <1>5, <1>7, <1>8, <1>9, <1>10, <1>11, <1>12 DEF Dispatch

\* Every action keeps the types.
LEMMA TypeStep ==
  ASSUME TypeOK, HoldsOne, FiredFits, [Next]_vars
  PROVE  TypeOK' /\ HoldsOne' /\ FiredFits'
  <1> USE TowerFacts DEF TypeOK, BusTypeOK
  <1>1. CASE Dispatch
    <2> HIDE DEF TypeOK, BusTypeOK
    <2>1. disp' \in DispStates /\ FiredFits' /\ HoldsOne'
      BY <1>1, DispTypes
    <2>2. SUFFICES TypeOK'
      BY <2>1
    <2> USE DEF TypeOK, BusTypeOK
    <2>3. ASSUME NEW e \in Events, Take(e) PROVE TypeOK'
      <3>1. channel' \in Seq(Events) /\ Len(channel') <= Capacity
        BY <2>3, ReceiveQueues DEF Take
      <3>2. QED
        BY <2>1, <2>3, <3>1 DEF Take
    <2>4. CASE Gate
      BY <2>1, <2>4 DEF Gate
    <2>5. CASE Grant
      BY <2>1, <2>5 DEF Grant
    <2>6. CASE CommitOk
      <3>1. disp.event \in Events /\ Current \in Triggers
        BY <2>6, CurrentFacts DEF CommitOk
      <3>2. commits' \in [Events -> [Triggers -> 0 .. 2]]
        <4> DEFINE n == commits[disp.event][Current]
                   m == IF n = 2 THEN 2 ELSE n + 1
        <4>1. commits \in [Events -> [Triggers -> 0 .. 2]]
          BY DEF TypeOK
        <4>2. n \in 0 .. 2
          <5> HIDE DEF TypeOK
          <5> QED
            BY <3>1, <4>1
        <4>3. m \in 0 .. 2
          BY <4>2
        <4>4. commits' = [commits EXCEPT ![disp.event][Current] = m]
          BY <2>6 DEF CommitOk
        <4> HIDE DEF m
        <4>5. QED
          BY <3>1, <4>3, <4>4
      <3>3. QED
        BY <2>1, <2>6, <3>2 DEF CommitOk
    <2>7. CASE CommitErr
      <3>1. disp.event \in Events
        BY <2>7, CurrentFacts DEF CommitErr
      <3>2. QED
        BY <2>1, <2>7, <3>1 DEF CommitErr
    <2>8. CASE Finish
      <3>1. disp.event \in Events
        BY <2>8 DEF Finish, HoldsOne
      <3>2. QED
        BY <2>1, <2>8, <3>1 DEF Finish, Marked
    <2>9. CASE AckIt
      BY <2>1, <2>9 DEF AckIt, Ack
    <2>10. QED
      BY <1>1, <2>3, <2>4, <2>5, <2>6, <2>7, <2>8, <2>9 DEF Dispatch
  <1>2. CASE Reconcile
    <2>1. PICK table \in DOMAIN version : Swap(table)
      BY <1>2 DEF Reconcile
    <2>2. version[table] \in 1 .. Len(Configs) /\ version[table] < Len(Configs)
      BY <2>1 DEF Swap
    <2>3. version' \in [{"routes", "triggers", "policies"} -> DOMAIN Configs]
      BY <2>1, <2>2 DEF Swap
    <2>4. QED
      BY <2>1, <2>3 DEF Swap, HoldsOne, FiredFits
  <1>3. ASSUME NEW r \in Requests, Ingest(r) PROVE TypeOK' /\ HoldsOne' /\ FiredFits'
    <2>1. Asks[r] \in Events
      BY TowerConstants
    <2>2. \A a \in {"routed", "spooled"} \cup Answers :
             Answer(r, a) => req' \in [Requests -> {"new", "routed", "spooled"} \cup Answers]
      BY DEF Answer
    <2>3. CASE LookUp(r)
      BY <2>2, <2>3 DEF LookUp, Answers, HoldsOne, FiredFits
    <2>4. CASE Refuse(r)
      BY <2>2, <2>4 DEF Refuse, Answers, HoldsOne, FiredFits
    <2>5. CASE PublishSpool(r)
      BY <2>1, <2>2, <2>5 DEF PublishSpool, Spool, HoldsOne, FiredFits
    <2>6. CASE PublishSend(r)
      BY <2>1, <2>2, <2>6, SendQueues DEF PublishSend, Answers, HoldsOne, FiredFits
    <2>7. QED
      BY <1>3, <2>3, <2>4, <2>5, <2>6 DEF Ingest
  <1>4. CASE StartReplay
    BY <1>4 DEF StartReplay, HoldsOne, FiredFits
  <1>5. CASE ReplayOne
    <2>1. replay \subseteq Nat /\ replay # {}
      BY <1>5 DEF ReplayOne
    <2>2. Least(replay) \in Events
      BY <2>1, LeastIsMember
    <2>3. QED
      BY <1>5, <2>2, SendQueues DEF ReplayOne, HoldsOne, FiredFits
  <1>6. CASE UNCHANGED vars
    BY <1>6 DEF vars, HoldsOne, FiredFits
  <1>7. QED
    BY <1>1, <1>2, <1>3, <1>4, <1>5, <1>6 DEF Next, Redelivery

-----------------------------------------------------------------------------
(* What the dispatch loop does, and that nothing else touches its state.   *)

DispVars == <<disp, seen, commits, settled, failed, blemished>>

LEMMA OthersLeaveTheLoop ==
  ASSUME TypeOK, [Next]_vars, ~ Dispatch
  PROVE  UNCHANGED DispVars
  <1> USE DEF DispVars
  <1>1. CASE \E r \in Requests : Ingest(r)
    BY <1>1 DEF Ingest, LookUp, Refuse, PublishSpool, PublishSend
  <1>2. CASE Reconcile
    BY <1>2 DEF Reconcile, Swap
  <1>3. CASE Redelivery
    BY <1>3 DEF Redelivery, StartReplay, ReplayOne
  <1>4. CASE UNCHANGED vars
    BY <1>4 DEF vars
  <1>5. QED
    BY <1>1, <1>2, <1>3, <1>4 DEF Next

\* The policy table only moves to later configurations, and only a reconcile
\* moves it.
LEMMA PoliciesAdvance ==
  ASSUME TypeOK, [Next]_vars
  PROVE  /\ version["policies"] \in Nat /\ version'["policies"] \in Nat
         /\ version["policies"] <= version'["policies"]
         /\ Dispatch => version' = version
  <1>1. /\ version \in [{"routes", "triggers", "policies"} -> 1 .. Len(Configs)]
        /\ Len(Configs) \in Nat
    BY TowerFacts DEF TypeOK
  <1>2. Dispatch => version' = version
    BY DEF Dispatch, Take, Gate, Grant, CommitOk, CommitErr, Finish, AckIt
  <1>3. CASE Reconcile
    <2>1. PICK table \in DOMAIN version : Swap(table)
      BY <1>3 DEF Reconcile
    <2>2. version' = [version EXCEPT ![table] = @ + 1]
      BY <2>1 DEF Swap
    <2>3. QED
      BY <1>1, <1>2, <2>1, <2>2
  <1>4. CASE ~ Reconcile
    <2>1. version' = version
      BY <1>2, <1>4 DEF Next, vars, Ingest, LookUp, Refuse, PublishSpool, PublishSend, Redelivery,
         StartReplay, ReplayOne
    <2>2. QED
      BY <1>1, <2>1
  <1>5. QED
    BY <1>3, <1>4

\* A commit adds at most one to the count of one trigger of the event in hand.
LEMMA CommitFacts ==
  ASSUME TypeOK, HoldsOne, CommitOk
  PROVE  /\ disp.event \in Events /\ Current \in disp.todo /\ Current \in Triggers
         /\ disp.at = "walk" /\ disp.granted
         /\ commits'[disp.event][Current] <= commits[disp.event][Current] + 1
         /\ \A e \in Events, t \in Triggers :
              e # disp.event \/ t # Current => commits'[e][t] = commits[e][t]
         /\ disp'.at = "walk" /\ disp'.event = disp.event /\ disp'.fired = disp.fired + 1
         /\ disp'.todo = disp.todo \ {Current}
         /\ disp'.since = disp.since /\ disp'.granted = FALSE
         /\ UNCHANGED <<seen, settled, failed, blemished, channel, req>>
  <1>1. /\ disp.event \in Events /\ Current \in disp.todo /\ Current \in Triggers
        /\ disp.at = "walk" /\ disp.granted
    BY CurrentFacts DEF CommitOk
  <1>2. commits \in [Events -> [Triggers -> 0 .. 2]]
    BY DEF TypeOK
  <1> DEFINE n == commits[disp.event][Current]
             m == IF n = 2 THEN 2 ELSE n + 1
  <1>3. n \in 0 .. 2 /\ m <= n + 1
    BY <1>1, <1>2
  <1>4. commits' = [commits EXCEPT ![disp.event][Current] = m]
    BY DEF CommitOk
  <1> HIDE DEF m
  <1>5. /\ commits'[disp.event][Current] = m
        /\ \A e \in Events, t \in Triggers :
             e # disp.event \/ t # Current => commits'[e][t] = commits[e][t]
    BY <1>1, <1>2, <1>4
  <1>6. /\ disp'.at = "walk" /\ disp'.event = disp.event /\ disp'.fired = disp.fired + 1
        /\ disp'.todo = disp.todo \ {Current}
        /\ disp'.since = disp.since /\ disp'.granted = FALSE
        /\ UNCHANGED <<seen, settled, failed, blemished, channel, req>>
    BY <1>1 DEF CommitOk, TypeOK, DispStates
  <1>7. QED
    BY <1>1, <1>3, <1>5, <1>6

\* The other steps of the loop commit nothing.
LEMMA QuietSteps ==
  ASSUME TypeOK, [Next]_vars, ~ CommitOk
  PROVE  commits' = commits
  BY OthersLeaveTheLoop DEF DispVars, Dispatch, Take, Gate, Grant, CommitErr, Finish, AckIt

LEMMA TakeFacts ==
  ASSUME TypeOK, NEW e \in Events, Take(e)
  PROVE  /\ disp.at = "recv" /\ disp'.event = e /\ disp'.granted = FALSE
         /\ \/ disp'.at = "ack" /\ e \in settled'
            \/ /\ disp'.at = "walk" /\ e \notin seen /\ disp'.fired = 0
               /\ disp'.since = version["policies"]
               /\ UNCHANGED <<settled, failed>>
         /\ settled \subseteq settled' /\ settled \cup failed \subseteq settled' \cup failed'
         /\ UNCHANGED <<seen, commits, blemished, req, version>>
  <1>1. CASE AlreadySeen(e) \/ Matched(e) = {}
    BY <1>1 DEF Take, Idle
  <1>2. CASE ~ (AlreadySeen(e) \/ Matched(e) = {})
    BY <1>2 DEF Take, Idle, AlreadySeen
  <1>3. QED
    BY <1>1, <1>2

-----------------------------------------------------------------------------
(* One net effect.                                                         *)

LEMMA EffectStep ==
  ASSUME IInv, [Next]_vars
  PROVE  WalksUnseen' /\ CommitsAreMarked' /\ OneNetEffect'
  <1> USE DEF WalksUnseen, CommitsAreMarked, OneNetEffect
  <1>1. TypeOK /\ HoldsOne /\ WalksUnseen /\ CommitsAreMarked /\ OneNetEffect
    BY DEF IInv
  <1>2. commits \in [Events -> [Triggers -> 0 .. 2]] /\ disp \in DispStates
    BY <1>1 DEF TypeOK
  <1>3. \A e \in Events, t \in Triggers : commits[e][t] \in 0 .. 2
    BY <1>2
  <1>4. CASE ~ Dispatch
    BY <1>1, <1>4, OthersLeaveTheLoop DEF DispVars
  <1>5. ASSUME NEW e \in Events, Take(e) PROVE WalksUnseen' /\ CommitsAreMarked' /\ OneNetEffect'
    BY <1>1, <1>5, TakeFacts
  <1>6. CASE Gate
    <2>1. /\ disp'.at = disp.at /\ disp'.event = disp.event /\ disp'.fired = disp.fired
          /\ disp'.todo \subseteq disp.todo
          /\ UNCHANGED <<seen, commits, blemished>>
      BY <1>2, <1>6 DEF Gate, PassOver, DispStates
    <2>2. QED
      BY <1>1, <2>1
  <1>7. CASE Grant
    <2>1. /\ disp'.at = disp.at /\ disp'.event = disp.event /\ disp'.fired = disp.fired
          /\ disp'.todo = disp.todo
          /\ UNCHANGED <<seen, commits, blemished>>
      BY <1>2, <1>7 DEF Grant, DispStates
    <2>2. QED
      BY <1>1, <2>1
  <1>8. CASE CommitOk
    <2> DEFINE e0 == disp.event
               t0 == Current
    <2>1. e0 \in Events \ blemished => commits[e0][t0] = 0
      BY <1>1, <1>3, <1>8, CommitFacts
    <2>2. disp.fired \in Nat /\ commits'[e0][t0] <= commits[e0][t0] + 1
      BY <1>1, <1>2, <1>8, CommitFacts DEF DispStates
    <2>3. CommitsAreMarked'
      <3> SUFFICES ASSUME NEW e \in Events \ blemished', NEW t \in Triggers, commits'[e][t] > 0
                   PROVE  e \in seen' \/ (/\ disp'.at = "walk" /\ disp'.event = e
                                          /\ t \notin disp'.todo /\ disp'.fired > 0)
        OBVIOUS
      <3>1. CASE e = e0 /\ t = t0
        BY <1>1, <1>8, <2>2, <3>1, CommitFacts
      <3>2. CASE e # e0 \/ t # t0
        BY <1>1, <1>8, <2>2, <3>2, CommitFacts
      <3>3. QED
        BY <3>1, <3>2
    <2>4. OneNetEffect'
      <3> SUFFICES ASSUME NEW e \in Events \ blemished', NEW t \in Triggers
                   PROVE  commits'[e][t] <= 1
        OBVIOUS
      <3>1. CASE e = e0 /\ t = t0
        BY <1>1, <1>8, <2>1, <2>2, <3>1, CommitFacts
      <3>2. CASE e # e0 \/ t # t0
        BY <1>1, <1>8, <3>2, CommitFacts
      <3>3. QED
        BY <3>1, <3>2
    <2>5. WalksUnseen'
      BY <1>1, <1>8, CommitFacts
    <2>6. QED
      BY <2>3, <2>4, <2>5
  <1>9. CASE CommitErr
    <2>1. /\ disp'.at = "recv" /\ blemished' = blemished \cup {disp.event}
          /\ UNCHANGED <<seen, commits>>
      BY <1>9 DEF CommitErr, Idle
    <2>2. QED
      BY <1>1, <2>1
  <1>10. CASE Finish
    <2>1. /\ disp.at = "walk" /\ disp'.at = "ack"
          /\ disp.fired > 0 => disp.event \in seen'
          /\ seen \subseteq seen' /\ UNCHANGED <<commits, blemished>>
      BY <1>2, <1>10 DEF Finish, Marked, DispStates
    <2>2. QED
      BY <1>1, <2>1
  <1>11. CASE AckIt
    <2>1. disp.at = "ack" /\ disp'.at = "recv" /\ UNCHANGED <<seen, commits, blemished>>
      BY <1>11 DEF AckIt, Idle
    <2>2. QED
      BY <1>1, <2>1
  <1>12. QED
    BY <1>4, <1>5, <1>6, <1>7, <1>8, <1>9, <1>10, <1>11 DEF Dispatch

-----------------------------------------------------------------------------
(* No silence after a 202.                                                 *)

Tracked(e) ==
  e \in Queued \cup settled \cup failed \/ (disp.at # "recv" /\ disp.event = e)

\* Nothing that is on its way is lost by a step.
LEMMA StaysTracked ==
  ASSUME TypeOK, HoldsOne, AckedIsSettled, [Next]_vars
  PROVE  AckedIsSettled' /\ \A e \in Events : Tracked(e) => Tracked(e)'
  <1> USE DEF Tracked, AckedIsSettled
  <1>1. disp \in DispStates /\ channel \in Seq(Events)
    BY DEF TypeOK, BusTypeOK
  <1>2. ASSUME UNCHANGED DispVars, Queued \subseteq Queued'
        PROVE  AckedIsSettled' /\ \A e \in Events : Tracked(e) => Tracked(e)'
    BY <1>2 DEF DispVars
  <1>3. CASE Dispatch
    <2>1. ASSUME NEW f \in Events, Take(f)
          PROVE  AckedIsSettled' /\ \A e \in Events : Tracked(e) => Tracked(e)'
      <3>1. Queued \subseteq Queued' \cup {f}
        BY <1>1, <2>1, ReceiveQueues DEF Take
      <3>2. QED
        BY <2>1, <3>1, TakeFacts
    <2>2. CASE Gate
      <3>1. disp'.at = disp.at /\ disp'.event = disp.event /\ disp.at = "walk"
        BY <1>1, <2>2 DEF Gate, Asking, Walking, PassOver, DispStates
      <3>2. QED
        BY <2>2, <3>1 DEF Gate, Queued
    <2>3. CASE Grant
      <3>1. disp'.at = disp.at /\ disp'.event = disp.event /\ disp.at = "walk"
        BY <1>1, <2>3 DEF Grant, Asking, Walking, DispStates
      <3>2. QED
        BY <2>3, <3>1 DEF Grant, Queued
    <2>4. CASE CommitOk
      BY <2>4, CommitFacts DEF Queued
    <2>5. CASE CommitErr
      BY <2>5 DEF CommitErr, Idle, Queued
    <2>6. CASE Finish
      <3>1. /\ disp'.at = "ack" /\ disp'.event = disp.event /\ settled' = settled \cup {disp.event}
            /\ failed' = failed \ {disp.event} /\ channel' = channel
        BY <1>1, <2>6 DEF Finish, DispStates
      <3>2. QED
        BY <3>1 DEF Queued
    <2>7. CASE AckIt
      BY <2>7 DEF AckIt, Idle, Queued
    <2>8. QED
      BY <1>3, <2>1, <2>2, <2>3, <2>4, <2>5, <2>6, <2>7 DEF Dispatch
  <1>4. CASE ~ Dispatch
    <2>1. UNCHANGED DispVars
      BY <1>4, OthersLeaveTheLoop
    <2>2. CASE UNCHANGED channel
      BY <1>2, <2>1, <2>2 DEF Queued
    <2>3. ASSUME NEW e \in Events, TrySend(e) PROVE Queued \subseteq Queued'
      BY <1>1, <2>3, SendQueues
    <2>4. CASE ~ UNCHANGED channel
      <3>1. ASSUME NEW r \in Requests, Ingest(r) PROVE Queued \subseteq Queued'
        <4>1. Asks[r] \in Events
          BY TowerConstants
        <4>2. QED
          BY <2>3, <2>4, <3>1, <4>1 DEF Ingest, LookUp, Refuse, PublishSpool, PublishSend
      <3>2. CASE Redelivery
        <4>1. replay # {} /\ TrySend(Least(replay))
          BY <2>4, <3>2 DEF Redelivery, StartReplay, ReplayOne
        <4>2. Least(replay) \in Events
          BY <4>1, LeastIsMember, TowerFacts DEF TypeOK
        <4>3. QED
          BY <1>2, <2>1, <2>3, <4>1, <4>2
      <3>3. ~ Reconcile
        BY <2>4 DEF Reconcile, Swap
      <3>4. QED
        BY <1>2, <1>4, <2>1, <2>4, <3>1, <3>2, <3>3 DEF Next, vars
    <2>5. QED
      BY <2>2, <2>4
  <1>5. QED
    BY <1>3, <1>4

LEMMA TrackStep ==
  ASSUME IInv, [Next]_vars
  PROVE  AckedIsSettled' /\ AcceptedIsTracked'
  <1>1. TypeOK /\ HoldsOne /\ AckedIsSettled /\ AcceptedIsTracked
    BY DEF IInv
  <1>2. Asks \in [Requests -> Events] /\ req \in [Requests -> {"new", "routed", "spooled"} \cup Answers]
    BY <1>1, TowerConstants DEF TypeOK
  <1>3. \A r \in Requests : req[r] = "202" => Tracked(Asks[r])'
    BY <1>1, <1>2, StaysTracked DEF AcceptedIsTracked, Tracked
  <1>4. ASSUME NEW r \in Requests, req'[r] = "202", req[r] # "202" PROVE Tracked(Asks[r])'
    <2>1. PICK s \in Requests : Ingest(s)
      BY <1>4 DEF Next, vars, Reconcile, Swap, Redelivery, StartReplay, ReplayOne, Dispatch, Take,
         Gate, Grant, CommitOk, CommitErr, Finish, AckIt
    <2>2. PublishSend(s) /\ r = s /\ TrySend(Asks[r])
      BY <1>2, <1>4, <2>1 DEF Ingest, LookUp, Refuse, PublishSpool, PublishSend, Answer
    <2>3. Asks[r] \in Queued'
      BY <1>1, <1>2, <2>2, SendQueues DEF TypeOK, BusTypeOK
    <2>4. QED
      BY <2>3 DEF Tracked
  <1>5. \A r \in Requests : req'[r] = "202" => Tracked(Asks[r])'
    BY <1>3, <1>4
  <1>6. AckedIsSettled'
    BY <1>1, StaysTracked
  <1>7. QED
    BY <1>5, <1>6 DEF AcceptedIsTracked, Tracked

-----------------------------------------------------------------------------
(* Permissions.                                                            *)

LEMMA GrantStep ==
  ASSUME IInv, [Next]_vars
  PROVE  SinceIsPast' /\ GrantedWasAllowed'
  <1> USE DEF SinceIsPast, GrantedWasAllowed
  <1>1. TypeOK /\ HoldsOne /\ SinceIsPast /\ GrantedWasAllowed
    BY DEF IInv
  <1>2. /\ disp \in DispStates /\ disp.since \in Nat
        /\ version["policies"] \in Nat /\ 1 <= version["policies"]
    BY <1>1, TowerFacts DEF TypeOK, DispStates
  <1>3. version["policies"] <= version'["policies"] /\ version'["policies"] \in Nat
    BY <1>1, PoliciesAdvance
  <1>4. CASE ~ Dispatch
    <2>1. disp' = disp
      BY <1>1, <1>4, OthersLeaveTheLoop DEF DispVars
    <2>2. Current' = Current
      BY <2>1 DEF Current, Least
    <2>3. QED
      BY <1>1, <1>2, <1>3, <2>1, <2>2
  <1>5. CASE Dispatch
    <2>1. version' = version
      BY <1>1, <1>5, PoliciesAdvance
    <2>2. ASSUME disp'.granted = FALSE, disp'.since = disp.since \/ disp'.since = 1
                                        \/ disp'.since = version["policies"]
          PROVE  SinceIsPast' /\ GrantedWasAllowed'
      BY <1>1, <1>2, <2>1, <2>2
    <2>3. ASSUME NEW e \in Events, Take(e) PROVE SinceIsPast' /\ GrantedWasAllowed'
      BY <2>2, <2>3 DEF Take, Idle
    <2>4. CASE Gate
      BY <1>2, <2>2, <2>4 DEF Gate, PassOver, Asking, DispStates
    <2>5. CASE Grant
      <3>1. disp'.since = disp.since /\ disp'.todo = disp.todo
        BY <1>2, <2>5 DEF Grant, DispStates
      <3>2. Current' = Current
        BY <3>1 DEF Current, Least
      <3>3. Current \in Configs[version["policies"]].allows
        BY <2>5 DEF Grant, Allowed
      <3>4. QED
        BY <1>1, <1>2, <2>1, <3>1, <3>2, <3>3
    <2>6. CASE CommitOk
      BY <1>1, <2>2, <2>6, CommitFacts
    <2>7. CASE CommitErr
      BY <2>2, <2>7 DEF CommitErr, Idle
    <2>8. CASE Finish
      <3>1. disp'.since = disp.since /\ disp'.todo = disp.todo /\ disp'.granted = disp.granted
        BY <1>2, <2>8 DEF Finish, DispStates
      <3>2. Current' = Current
        BY <3>1 DEF Current, Least
      <3>3. QED
        BY <1>1, <2>1, <3>1, <3>2
    <2>9. CASE AckIt
      BY <2>2, <2>9 DEF AckIt, Idle
    <2>10. QED
      BY <1>5, <2>3, <2>4, <2>5, <2>6, <2>7, <2>8, <2>9 DEF Dispatch
  <1>6. QED
    BY <1>4, <1>5

-----------------------------------------------------------------------------
LEMMA Invariance == Spec => []IInv
  <1>1. Init => IInv
    BY InitIInv
  <1>2. IInv /\ [Next]_vars => IInv'
    <2> SUFFICES ASSUME IInv, [Next]_vars PROVE IInv'
      OBVIOUS
    <2>1. TypeOK /\ HoldsOne /\ FiredFits
      BY DEF IInv
    <2>2. TypeOK' /\ HoldsOne' /\ FiredFits'
      BY <2>1, TypeStep
    <2>3. QED
      BY <2>2, EffectStep, TrackStep, GrantStep DEF IInv
  <1>3. QED
    BY <1>1, <1>2, PTL DEF Spec

\* Type correctness of the ingest, the bus, the loop and the reconcile.
THEOREM TypeCorrect == Spec => []TypeOK
  BY Invariance, PTL DEF IInv

\* The ledger of keys gives one net effect: as long as no handle of an event
\* failed, no trigger commits twice for it, whatever is redelivered, retried by
\* a sender or reconfigured under the loop.
THEOREM OneEffectPerKey == Spec => []OneNetEffect
  BY Invariance, PTL DEF IInv

\* A request answered 202 is never followed by silence: publish has queued its
\* event, and every way the loop lets go of an event leaves a verdict on it.
THEOREM NoSilenceAfterAccept == Spec => []AcceptedIsTracked
  BY Invariance, PTL DEF IInv

\* The committer's gate and the three swapped tables: a commit uses a permission
\* that some policy table, live since its event was taken, gave.
THEOREM CommitsWerePermitted == Spec => RevokedNeverCommits
  <1> DEFINE Permitted ==
        \A e \in Events, t \in Triggers :
          commits'[e][t] # commits[e][t] =>
            \E v \in disp.since .. version["policies"] : t \in Configs[v].allows
  <1>1. IInv /\ [Next]_vars => Permitted
    <2> SUFFICES ASSUME IInv, [Next]_vars, NEW e \in Events, NEW t \in Triggers,
                        commits'[e][t] # commits[e][t]
                 PROVE  \E v \in disp.since .. version["policies"] : t \in Configs[v].allows
      OBVIOUS
    <2>1. TypeOK /\ HoldsOne /\ GrantedWasAllowed
      BY DEF IInv
    <2>2. CommitOk
      BY <2>1, QuietSteps
    <2>3. disp.granted /\ t = Current
      BY <2>1, <2>2, CommitFacts
    <2>4. QED
      BY <2>1, <2>3 DEF GrantedWasAllowed
  <1>2. QED
    BY <1>1, Invariance, PTL DEF Spec, RevokedNeverCommits

-----------------------------------------------------------------------------
(* The watchers.  A native id names one row for good when the source has   *)
(* the id column, or when no row ever leaves it, and no row is rewritten.  *)

IdsLast == Versions = 1 /\ (HasIds \/ ~ Deletes)

Cursors == SUBSET Nat
Polls == [at : {"rest", "scanned", "read"}, rows : Seq(Rows), next : Nat \ {0},
          loaded : Cursors, advanced : Cursors]

\* The event of the row that the id names was sent.
Sent(id) ==
  IF HasIds THEN [key |-> id, version |-> 1] \in published
  ELSE id \in 1 .. Len(source) /\ source[id] \in published

SourceOK == source \in Seq(Rows)
CursorOK == cursor \in Cursors /\ \A id \in cursor : Sent(id)

\* A poll read rows that are still where they were, if their place is their
\* name; every id it holds was sent, and it holds the ids it has gone past.
PollOK ==
  /\ poll \in [Pollers -> Polls]
  /\ \A p \in Pollers :
       /\ poll[p].loaded \subseteq poll[p].advanced
       /\ \A id \in poll[p].advanced : Sent(id)
       /\ \A i \in 1 .. Len(poll[p].rows) :
            /\ ~ HasIds => i \in 1 .. Len(source) /\ source[i] = poll[p].rows[i]
            /\ i < poll[p].next => NativeId(poll[p].rows, i) \in poll[p].advanced

WatcherIInv == SourceOK /\ CursorOK /\ PollOK /\ NothingSkipped

LEMMA RowFields ==
  ASSUME IdsLast, NEW r \in Rows
  PROVE  r = [key |-> r.key, version |-> 1] /\ r.key \in Nat
  <1>1. r \in [key : Keys, version : 1 .. 1]
    BY DEF IdsLast, Rows
  <1>2. PICK k \in Keys, v \in 1 .. 1 : r = [key |-> k, version |-> v]
    BY <1>1
  <1>3. v = 1
    OBVIOUS
  <1>4. QED
    BY <1>2, <1>3, WatcherConstants

\* The world only adds to what an id can name.
LEMMA WorldKeepsNames ==
  ASSUME IdsLast, WatcherIInv, World
  PROVE  /\ SourceOK'
         /\ ~ HasIds => /\ Len(source') \in Nat /\ Len(source) <= Len(source')
                       /\ \A i \in 1 .. Len(source) : source'[i] = source[i]
  <1>1. source \in Seq(Rows) /\ Len(source) \in Nat /\ DOMAIN source = 1 .. Len(source)
    BY DEF WatcherIInv, SourceOK
  <1>2. ASSUME NEW k \in Keys, Insert(k)
        PROVE  /\ source' \in Seq(Rows) /\ Len(source') = Len(source) + 1
               /\ \A i \in 1 .. Len(source) : source'[i] = source[i]
    <2> DEFINE r == [key |-> k, version |-> 1]
    <2>1. r \in Rows
      BY WatcherConstants DEF Rows
    <2>2. source' = Append(source, r)
      BY <1>2 DEF Insert
    <2> HIDE DEF r
    <2>3. QED
      BY <1>1, <2>1, <2>2
  <1>3. ASSUME NEW i \in DOMAIN source, Rewrite(i) PROVE FALSE
    <2>1. source[i] \in Rows
      BY <1>1
    <2>2. source[i].version = 1
      BY <2>1, RowFields
    <2>3. QED
      BY <1>3, <2>2 DEF Rewrite, IdsLast
  <1>4. ASSUME NEW i \in DOMAIN source, Delete(i) PROVE HasIds /\ source' \in Seq(Rows)
    <2>1. HasIds
      BY <1>4 DEF Delete, IdsLast
    <2>2. Len(source) - 1 \in Nat
      BY <1>1
    <2>3. \A j \in 1 .. Len(source) - 1 :
             (IF j < i THEN source[j] ELSE source[j + 1]) \in Rows
      BY <1>1
    <2>4. source' \in [1 .. Len(source) - 1 -> Rows]
      BY <1>4, <2>3 DEF Delete
    <2>5. QED
      BY <2>1, <2>2, <2>4
  <1>5. QED
    BY <1>1, <1>2, <1>3, <1>4 DEF World, SourceOK

\* What was sent stays sent, as long as names stay what they are.
LEMMA SentStays ==
  ASSUME NEW id, Sent(id), SourceOK, published \subseteq published',
         ~ HasIds => /\ Len(source') \in Nat /\ Len(source) <= Len(source')
                     /\ \A i \in 1 .. Len(source) : source'[i] = source[i]
  PROVE  Sent(id)'
  <1>1. CASE HasIds
    BY <1>1 DEF Sent
  <1>2. CASE ~ HasIds
    <2>1. Len(source) \in Nat
      BY DEF SourceOK
    <2>2. QED
      BY <1>2, <2>1 DEF Sent
  <1>3. QED
    BY <1>1, <1>2

\* The rows a poll holds have their names.
LEMMA HeldRow ==
  ASSUME IdsLast, WatcherIInv, NEW p \in Pollers, NEW i \in 1 .. Len(poll[p].rows)
  PROVE  /\ poll[p].rows[i] \in Rows
         /\ NativeId(poll[p].rows, i) \in Nat
         /\ Sent(NativeId(poll[p].rows, i)) <=> poll[p].rows[i] \in published
  <1>1. poll[p] \in Polls /\ poll[p].rows \in Seq(Rows)
    BY DEF WatcherIInv, PollOK, Polls
  <1>2. poll[p].rows[i] \in Rows
    BY <1>1
  <1>3. /\ poll[p].rows[i] = [key |-> poll[p].rows[i].key, version |-> 1]
        /\ poll[p].rows[i].key \in Nat
    BY <1>2, RowFields
  <1>4. ~ HasIds => i \in 1 .. Len(source) /\ source[i] = poll[p].rows[i]
    BY DEF WatcherIInv, PollOK
  <1>5. i \in Nat
    BY <1>1
  <1>6. QED
    BY <1>2, <1>3, <1>4, <1>5 DEF NativeId, Sent

LEMMA InitWatcher == WatcherInit => WatcherIInv
  <1> SUFFICES ASSUME WatcherInit PROVE WatcherIInv
    OBVIOUS
  <1>1. Resting \in Polls /\ Len(Resting.rows) = 0
    BY DEF Resting, Polls, Cursors
  <1>2. Resting.loaded = {} /\ Resting.advanced = {}
    BY DEF Resting
  <1>3. poll \in [Pollers -> Polls] /\ \A p \in Pollers : poll[p] = Resting
    BY <1>1 DEF WatcherInit
  <1>4. PollOK
    <2> HIDE DEF Resting
    <2> QED
      BY <1>1, <1>2, <1>3 DEF PollOK
  <1>5. QED
    BY <1>4 DEF WatcherInit, WatcherIInv, SourceOK, CursorOK, Cursors, NothingSkipped

\* A poll as it is, in a step that leaves the polls alone.
LEMMA PollStays ==
  ASSUME WatcherIInv, NEW p \in Pollers, poll'[p] = poll[p], published \subseteq published',
         ~ HasIds => /\ Len(source') \in Nat /\ Len(source) <= Len(source')
                     /\ \A i \in 1 .. Len(source) : source'[i] = source[i]
  PROVE  /\ poll'[p] \in Polls
         /\ poll'[p].loaded \subseteq poll'[p].advanced
         /\ \A id \in poll'[p].advanced : Sent(id)'
         /\ \A i \in 1 .. Len(poll'[p].rows) :
              /\ ~ HasIds => i \in 1 .. Len(source') /\ source'[i] = poll'[p].rows[i]
              /\ i < poll'[p].next => NativeId(poll'[p].rows, i) \in poll'[p].advanced
  <1>1. \A id \in poll[p].advanced : Sent(id)'
    <2> TAKE id \in poll[p].advanced
    <2>1. Sent(id)
      BY DEF WatcherIInv, PollOK
    <2>2. QED
      BY <2>1, SentStays DEF WatcherIInv
  <1>2. Len(source) \in Nat
    BY DEF WatcherIInv, SourceOK
  <1>3. QED
    BY <1>1, <1>2 DEF WatcherIInv, PollOK

\* One poll moves to r, and the others stay.
LEMMA OnePollMoves ==
  ASSUME WatcherIInv, NEW p \in Pollers, NEW r \in Polls, poll' = [poll EXCEPT ![p] = r],
         source' = source, published \subseteq published',
         r.loaded \subseteq r.advanced, \A id \in r.advanced : Sent(id)',
         \A i \in 1 .. Len(r.rows) :
            /\ ~ HasIds => i \in 1 .. Len(source) /\ source[i] = r.rows[i]
            /\ i < r.next => NativeId(r.rows, i) \in r.advanced
  PROVE  PollOK'
  <1>1. poll \in [Pollers -> Polls]
    BY DEF WatcherIInv, PollOK
  <1>2. poll' \in [Pollers -> Polls] /\ poll'[p] = r
    BY <1>1
  <1>3. \A q \in Pollers \ {p} : poll'[q] = poll[q]
    BY <1>1
  <1>4. Len(source) \in Nat
    BY DEF WatcherIInv, SourceOK
  <1>5. ASSUME NEW q \in Pollers
        PROVE  /\ poll'[q].loaded \subseteq poll'[q].advanced
               /\ \A id \in poll'[q].advanced : Sent(id)'
               /\ \A i \in 1 .. Len(poll'[q].rows) :
                    /\ ~ HasIds => i \in 1 .. Len(source') /\ source'[i] = poll'[q].rows[i]
                    /\ i < poll'[q].next => NativeId(poll'[q].rows, i) \in poll'[q].advanced
    <2>1. CASE q = p
      BY <1>2, <2>1
    <2>2. CASE q # p
      BY <1>3, <1>4, <2>2, PollStays
    <2>3. QED
      BY <2>1, <2>2
  <1>6. QED
    BY <1>2, <1>5 DEF PollOK

LEMMA RestingPoll ==
  /\ Resting \in Polls /\ Resting.loaded = {} /\ Resting.advanced = {}
  /\ 1 .. Len(Resting.rows) = {}
  BY DEF Resting, Polls, Cursors

LEMMA ScanKeeps ==
  ASSUME IdsLast, WatcherIInv, NEW p \in Pollers, Scan(p)
  PROVE  WatcherIInv'
  <1> DEFINE r == [at |-> "scanned", rows |-> source, next |-> 1,
                   loaded |-> {}, advanced |-> {}]
  <1>1. /\ poll' = [poll EXCEPT ![p] = r]
        /\ source' = source /\ cursor' = cursor
        /\ published' = published /\ covered' = covered
    BY DEF Scan
  <1>2. source \in Seq(Rows) /\ Len(source) \in Nat
    BY DEF WatcherIInv, SourceOK
  <1>3. {} \in Cursors
    BY DEF Cursors
  <1>4. r \in Polls
    BY <1>2, <1>3 DEF Polls
  <1>5. \A id : Sent(id)' <=> Sent(id)
    BY <1>1 DEF Sent
  <1>6. /\ r.loaded \subseteq r.advanced /\ \A id \in r.advanced : Sent(id)'
        /\ \A i \in 1 .. Len(r.rows) :
              /\ ~ HasIds => i \in 1 .. Len(source) /\ source[i] = r.rows[i]
              /\ i < r.next => NativeId(r.rows, i) \in r.advanced
    BY <1>2, <1>3, <1>5
  <1>7. PollOK'
    <2> HIDE DEF r
    <2> QED
      BY <1>1, <1>4, <1>6, OnePollMoves
  <1>8. QED
    BY <1>1, <1>5, <1>7 DEF WatcherIInv, SourceOK, CursorOK, NothingSkipped

LEMMA LoadKeeps ==
  ASSUME IdsLast, WatcherIInv, NEW p \in Pollers, LoadCursor(p)
  PROVE  WatcherIInv'
  <1> DEFINE r == [at |-> "read", rows |-> poll[p].rows, next |-> 1,
                   loaded |-> cursor, advanced |-> cursor]
  <1>1. /\ poll' = [poll EXCEPT ![p] = r]
        /\ source' = source /\ cursor' = cursor
        /\ published' = published /\ covered' = covered
    BY DEF LoadCursor
  <1>2. /\ poll[p] \in Polls /\ poll[p].rows \in Seq(Rows) /\ Len(poll[p].rows) \in Nat
        /\ \A i \in 1 .. Len(poll[p].rows) :
              ~ HasIds => i \in 1 .. Len(source) /\ source[i] = poll[p].rows[i]
    BY DEF WatcherIInv, PollOK, Polls
  <1>3. cursor \in Cursors /\ \A id \in cursor : Sent(id)
    BY DEF WatcherIInv, CursorOK
  <1>4. r \in Polls
    BY <1>2, <1>3 DEF Polls
  <1>5. \A id : Sent(id)' <=> Sent(id)
    BY <1>1 DEF Sent
  <1>6. /\ r.loaded \subseteq r.advanced /\ \A id \in r.advanced : Sent(id)'
        /\ \A i \in 1 .. Len(r.rows) :
              /\ ~ HasIds => i \in 1 .. Len(source) /\ source[i] = r.rows[i]
              /\ i < r.next => NativeId(r.rows, i) \in r.advanced
    BY <1>2, <1>3, <1>5
  <1>7. PollOK'
    <2> HIDE DEF r
    <2> QED
      BY <1>1, <1>4, <1>6, OnePollMoves
  <1>8. QED
    BY <1>1, <1>5, <1>7 DEF WatcherIInv, SourceOK, CursorOK, NothingSkipped

LEMMA PassKnownKeeps ==
  ASSUME IdsLast, WatcherIInv, NEW p \in Pollers, PassKnown(p)
  PROVE  WatcherIInv'
  <1> DEFINE r == [poll[p] EXCEPT !.next = @ + 1]
  <1>1. /\ poll' = [poll EXCEPT ![p] = r]
        /\ source' = source /\ cursor' = cursor
        /\ published' = published /\ covered' = covered
    BY DEF PassKnown
  <1>2. poll[p] \in Polls
    BY DEF WatcherIInv, PollOK
  <1>3. /\ r \in Polls /\ r.rows = poll[p].rows /\ r.next = poll[p].next + 1
        /\ r.loaded = poll[p].loaded /\ r.advanced = poll[p].advanced
        /\ poll[p].next \in Nat /\ Len(poll[p].rows) \in Nat
    BY <1>2 DEF Polls
  <1>4. \A id : Sent(id)' <=> Sent(id)
    BY <1>1 DEF Sent
  <1>5. NativeId(poll[p].rows, poll[p].next) \in poll[p].advanced
    BY DEF PassKnown, ThisId, WatcherIInv, PollOK
  <1>6. /\ r.loaded \subseteq r.advanced /\ \A id \in r.advanced : Sent(id)'
        /\ \A i \in 1 .. Len(r.rows) :
              /\ ~ HasIds => i \in 1 .. Len(source) /\ source[i] = r.rows[i]
              /\ i < r.next => NativeId(r.rows, i) \in r.advanced
    <2> HIDE DEF r
    <2>1. \A i \in 1 .. Len(poll[p].rows) : i < poll[p].next + 1 => i < poll[p].next \/ i = poll[p].next
      BY <1>3
    <2> QED
      BY <1>3, <1>4, <1>5, <2>1 DEF WatcherIInv, PollOK
  <1>7. PollOK'
    <2> HIDE DEF r
    <2> QED
      BY <1>1, <1>3, <1>6, OnePollMoves
  <1>8. QED
    BY <1>1, <1>4, <1>7 DEF WatcherIInv, SourceOK, CursorOK, NothingSkipped

\* A step that ends the poll and publishes nothing.
LEMMA RestKeeps ==
  ASSUME IdsLast, WatcherIInv, NEW p \in Pollers, poll' = [poll EXCEPT ![p] = Resting],
         UNCHANGED <<source, published>>,
         cursor' \in Cursors, \A id \in cursor' : Sent(id), covered' \subseteq published
  PROVE  WatcherIInv'
  <1>1. \A id : Sent(id)' <=> Sent(id)
    BY DEF Sent
  <1>2. PollOK'
    BY RestingPoll, OnePollMoves
  <1>3. QED
    BY <1>1, <1>2 DEF WatcherIInv, SourceOK, CursorOK, NothingSkipped

LEMMA PublishKeeps ==
  ASSUME IdsLast, WatcherIInv, NEW p \in Pollers, Publish(p)
  PROVE  WatcherIInv'
  <1>1. CASE /\ poll' = [poll EXCEPT ![p] = Resting]
             /\ AfterFull(p) /\ UNCHANGED published
    BY <1>1, RestKeeps DEF Publish, AfterFull, WatcherIInv, CursorOK, NothingSkipped
  <1>2. CASE /\ poll' = [poll EXCEPT ![p].next = @ + 1, ![p].advanced = @ \cup {ThisId(p)}]
             /\ published' = published \cup {poll[p].rows[poll[p].next]}
             /\ UNCHANGED cursor
    <2>1. PICK h \in Polls : h = poll[p]
      BY DEF WatcherIInv, PollOK
    <2>2. PICK id : id = NativeId(h.rows, h.next)
      OBVIOUS
    <2>3. PICK row : row = h.rows[h.next]
      OBVIOUS
    <2>4. h.next \in 1 .. Len(h.rows) /\ Len(h.rows) \in Nat /\ h.next \in Nat
      BY <2>1 DEF Publish, AtRow, Polls
    <2>5. row \in Rows /\ id \in Nat /\ row = [key |-> row.key, version |-> 1]
      BY <2>1, <2>2, <2>3, <2>4, HeldRow, RowFields
    <2>6. PICK r : r = [h EXCEPT !.next = @ + 1, !.advanced = @ \cup {id}]
      OBVIOUS
    <2>7. /\ r \in Polls /\ r.rows = h.rows /\ r.next = h.next + 1
          /\ r.loaded = h.loaded /\ r.advanced = h.advanced \cup {id}
      <3>1. PICK c \in {"rest", "scanned", "read"}, w \in Seq(Rows), x \in Nat \ {0},
                 l \in Cursors, a \in Cursors :
                   h = [at |-> c, rows |-> w, next |-> x, loaded |-> l, advanced |-> a]
        BY DEF Polls
      <3>2. r = [at |-> c, rows |-> w, next |-> x + 1, loaded |-> l, advanced |-> a \cup {id}]
        BY <2>6, <3>1
      <3>3. a \cup {id} \in Cursors /\ x + 1 \in Nat \ {0}
        BY <2>5 DEF Cursors
      <3>4. QED
        BY <3>1, <3>2, <3>3 DEF Polls
    <2>8. /\ poll' = [poll EXCEPT ![p] = r]
          /\ source' = source /\ cursor' = cursor /\ covered' = covered
          /\ published' = published \cup {row}
      <3>1. poll \in [Pollers -> Polls] /\ ThisId(p) = id
        BY <2>1, <2>2 DEF WatcherIInv, PollOK, ThisId
      <3>2. QED
        BY <1>2, <2>1, <2>3, <2>6, <3>1 DEF Publish
    <2>9. /\ ~ HasIds => h.next \in 1 .. Len(source) /\ source[h.next] = row
          /\ h.loaded \subseteq h.advanced
          /\ \A x \in h.advanced : Sent(x)
          /\ \A i \in 1 .. Len(h.rows) :
                /\ ~ HasIds => i \in 1 .. Len(source) /\ source[i] = h.rows[i]
                /\ i < h.next => NativeId(h.rows, i) \in h.advanced
      BY <2>1, <2>3, <2>4 DEF WatcherIInv, PollOK
    <2>10. Sent(id)'
      BY <2>2, <2>3, <2>5, <2>8, <2>9 DEF NativeId, Sent
    <2>11. \A x : Sent(x) => Sent(x)'
      BY <2>8 DEF Sent
    <2>12. \A x \in r.advanced : Sent(x)'
      BY <2>7, <2>9, <2>10, <2>11
    <2>13. \A i \in 1 .. Len(r.rows) :
              /\ ~ HasIds => i \in 1 .. Len(source) /\ source[i] = r.rows[i]
              /\ i < r.next => NativeId(r.rows, i) \in r.advanced
      <3>1. \A i \in 1 .. Len(h.rows) : i < h.next + 1 => i < h.next \/ i = h.next
        BY <2>4
      <3>2. QED
        BY <2>2, <2>7, <2>9, <3>1
    <2>14. PollOK'
      BY <2>7, <2>8, <2>9, <2>12, <2>13, OnePollMoves
    <2>15. QED
      BY <2>8, <2>11, <2>14 DEF WatcherIInv, SourceOK, CursorOK, NothingSkipped
  <1>3. QED
    BY <1>1, <1>2 DEF Publish

LEMMA SaveKeeps ==
  ASSUME IdsLast, WatcherIInv, NEW p \in Pollers, Save(p)
  PROVE  WatcherIInv'
  <1>1. /\ cursor' = poll[p].advanced
        /\ covered' = covered \cup {poll[p].rows[i] : i \in DOMAIN poll[p].rows}
        /\ poll' = [poll EXCEPT ![p] = Resting]
        /\ UNCHANGED <<source, published>>
        /\ poll[p].next > Len(poll[p].rows)
    BY DEF Save, SavedCursor
  <1>2. poll[p] \in Polls
    BY DEF WatcherIInv, PollOK
  <1>3. /\ Len(poll[p].rows) \in Nat /\ DOMAIN poll[p].rows = 1 .. Len(poll[p].rows)
        /\ poll[p].next \in Nat /\ poll[p].advanced \in Cursors
    BY <1>2 DEF Polls
  <1>4. ASSUME NEW i \in 1 .. Len(poll[p].rows) PROVE poll[p].rows[i] \in published
    <2>1. i < poll[p].next
      BY <1>1, <1>3
    <2>2. Sent(NativeId(poll[p].rows, i))
      BY <2>1 DEF WatcherIInv, PollOK
    <2>3. QED
      BY <2>2, HeldRow
  <1>5. covered' \subseteq published
    BY <1>1, <1>3, <1>4 DEF WatcherIInv, NothingSkipped
  <1>6. cursor' \in Cursors /\ \A id \in cursor' : Sent(id)
    BY <1>1, <1>3 DEF WatcherIInv, PollOK
  <1>7. QED
    BY <1>1, <1>5, <1>6, RestKeeps

LEMMA WatcherStep ==
  ASSUME IdsLast, WatcherIInv, [WatcherNext]_watcherVars
  PROVE  WatcherIInv'
  <1>1. CASE World
    <2>1. /\ SourceOK'
          /\ ~ HasIds => /\ Len(source') \in Nat /\ Len(source) <= Len(source')
                        /\ \A i \in 1 .. Len(source) : source'[i] = source[i]
      BY <1>1, WorldKeepsNames
    <2>2. UNCHANGED <<cursor, poll, published, covered>>
      BY <1>1 DEF World
    <2>3. PollOK'
      <3>1. poll' \in [Pollers -> Polls]
        BY <2>2 DEF WatcherIInv, PollOK
      <3>2. QED
        BY <2>1, <2>2, <3>1, PollStays DEF PollOK
    <2>4. \A id \in cursor : Sent(id)'
      <3> TAKE id \in cursor
      <3>1. Sent(id)
        BY DEF WatcherIInv, CursorOK
      <3>2. QED
        BY <2>1, <2>2, <3>1, SentStays DEF WatcherIInv
    <2>5. QED
      BY <2>1, <2>2, <2>3, <2>4 DEF WatcherIInv, CursorOK, NothingSkipped
  <1>2. CASE UNCHANGED <<source, cursor, poll, published, covered>>
    BY <1>2 DEF WatcherIInv, SourceOK, CursorOK, PollOK, NothingSkipped, Sent
  <1>3. ASSUME NEW p \in Pollers, Poll(p) PROVE WatcherIInv'
    BY <1>3, ScanKeeps, LoadKeeps, PassKnownKeeps, PublishKeeps, SaveKeeps DEF Poll
  <1>4. ASSUME NEW p \in Pollers, Cancel(p) PROVE WatcherIInv'
    BY <1>4, RestKeeps DEF Cancel, WatcherIInv, CursorOK, NothingSkipped
  <1>5. QED
    BY <1>1, <1>2, <1>3, <1>4 DEF WatcherNext, Consume, watcherVars

\* poll_once never silently skips a row: whatever a poll had read when it saved
\* its cursor has been published, for any number of watchers of one source,
\* full buses and cancelled polls, where an id names one row for good.
THEOREM WatcherSkipsNothing ==
  ASSUME IdsLast
  PROVE  WatcherSpec => []NothingSkipped
  <1>1. WatcherIInv => NothingSkipped
    BY DEF WatcherIInv
  <1>2. WatcherIInv /\ [WatcherNext]_watcherVars => WatcherIInv'
    BY WatcherStep
  <1>3. QED
    BY InitWatcher, <1>1, <1>2, PTL DEF WatcherSpec

\* What a poll may hold where rows have an id column.
HeldPolls == [at : {"rest", "scanned", "read"}, rows : Seq(Rows), next : Nat \ {0},
              loaded : SUBSET Events, advanced : SUBSET Events]
HeldOK ==
  /\ poll \in [Pollers -> HeldPolls]
  /\ \A p \in Pollers : poll[p].next <= Len(poll[p].rows) + 1
WatcherTypes == WatcherTypeOK /\ HeldOK

LEMMA HeldIsTyped ==
  ASSUME HeldOK, NEW p \in Pollers
  PROVE  /\ poll[p] \in HeldPolls
         /\ poll[p].at \in {"rest", "scanned", "read"} /\ poll[p].rows \in Seq(Rows)
         /\ Len(poll[p].rows) \in Nat /\ poll[p].next \in Nat \ {0}
         /\ poll[p].next \in 1 .. (Len(poll[p].rows) + 1)
         /\ poll[p].loaded \subseteq Events /\ poll[p].advanced \subseteq Events
  BY DEF HeldOK, HeldPolls

\* One poll comes to hold r, and what there is stays of its type.
LEMMA HoldsTyped ==
  ASSUME WatcherTypes, NEW p \in Pollers, NEW r \in HeldPolls, r.next <= Len(r.rows) + 1,
         poll' = [poll EXCEPT ![p] = r], BusTypeOK', source' = source, born' = born,
         cursor' \subseteq Events, published' \subseteq Rows, covered' \subseteq Rows
  PROVE  WatcherTypes'
  <1>1. poll \in [Pollers -> HeldPolls] /\ \A q \in Pollers : poll[q].next <= Len(poll[q].rows) + 1
    BY DEF WatcherTypes, HeldOK
  <1>2. poll' \in [Pollers -> HeldPolls] /\ \A q \in Pollers : poll'[q] = IF q = p THEN r ELSE poll[q]
    BY <1>1
  <1>3. HeldOK'
    BY <1>1, <1>2 DEF HeldOK
  <1>4. \A q \in Pollers : /\ poll'[q].at \in {"rest", "scanned", "read"} /\ poll'[q].rows \in Seq(Rows)
                           /\ poll'[q].next \in 1 .. (Len(poll'[q].rows) + 1)
                           /\ poll'[q].loaded \subseteq Events /\ poll'[q].advanced \subseteq Events
    BY <1>3 DEF HeldOK, HeldPolls
  <1>5. QED
    BY <1>3, <1>4 DEF WatcherTypes, WatcherTypeOK

\* One poll ends.
LEMMA RestsTyped ==
  ASSUME WatcherTypes, NEW p \in Pollers, poll' = [poll EXCEPT ![p] = Resting], BusTypeOK',
         source' = source, born' = born,
         cursor' \subseteq Events, published' \subseteq Rows, covered' \subseteq Rows
  PROVE  WatcherTypes'
  <1>1. Resting \in HeldPolls /\ Resting.next <= Len(Resting.rows) + 1
    BY DEF Resting, HeldPolls
  <1>2. QED
    BY <1>1, HoldsTyped

\* The id of a row is an event's.
LEMMA IdIsAnEvent ==
  ASSUME HasIds, HeldOK, NEW p \in Pollers, AtRow(p)
  PROVE  ThisId(p) \in Events /\ poll[p].rows[poll[p].next] \in Rows
  <1>1. /\ poll[p].rows \in Seq(Rows) /\ Len(poll[p].rows) \in Nat
        /\ poll[p].next \in Nat \ {0} /\ poll[p].next <= Len(poll[p].rows)
    BY HeldIsTyped DEF AtRow
  <1>2. poll[p].rows[poll[p].next] \in Rows
    BY <1>1
  <1>3. poll[p].rows[poll[p].next].key \in Events
    BY <1>2, WatcherConstants DEF Rows
  <1>4. QED
    BY <1>2, <1>3 DEF ThisId, NativeId

LEMMA WatcherTypeStep ==
  ASSUME HasIds, WatcherTypes, [WatcherNext]_watcherVars
  PROVE  WatcherTypes'
  <1>1. /\ BusTypeOK /\ source \in Seq(Rows) /\ born \in SUBSET Keys /\ cursor \in SUBSET Events
        /\ published \subseteq Rows /\ covered \subseteq Rows /\ HeldOK /\ WatcherTypeOK
    BY DEF WatcherTypes, WatcherTypeOK
  <1>2. ASSUME channel' = channel, spool' = spool PROVE BusTypeOK'
    BY <1>1, <1>2 DEF BusTypeOK
  <1>3. CASE World
    <2>1. UNCHANGED <<channel, spool, cursor, poll, published, covered>>
      BY <1>3 DEF World
    <2>2. source' \in Seq(Rows) /\ born' \in SUBSET Keys
      <3>1. ASSUME NEW k \in Keys, Insert(k)
            PROVE  source' \in Seq(Rows) /\ born' \in SUBSET Keys
        <4>1. [key |-> k, version |-> 1] \in Rows
          BY WatcherConstants DEF Rows
        <4>2. QED
          BY <1>1, <3>1, <4>1 DEF Insert
      <3>2. ASSUME NEW i \in DOMAIN source, Rewrite(i)
            PROVE  source' \in Seq(Rows) /\ born' \in SUBSET Keys
        <4>1. i \in 1 .. Len(source) /\ source[i] \in Rows /\ source[i].version < Versions
          BY <1>1, <3>2 DEF Rewrite
        <4>2. [source[i] EXCEPT !.version = @ + 1] \in Rows
          BY <4>1, WatcherConstants DEF Rows
        <4>3. source' = [source EXCEPT ![i] = [source[i] EXCEPT !.version = @ + 1]]
          BY <3>2 DEF Rewrite
        <4>4. QED
          BY <1>1, <3>2, <4>1, <4>2, <4>3 DEF Rewrite
      <3>3. ASSUME NEW i \in DOMAIN source, Delete(i)
            PROVE  source' \in Seq(Rows) /\ born' \in SUBSET Keys
        <4>1. Len(source) \in Nat \ {0} /\ \A j \in 1 .. Len(source) : source[j] \in Rows
          BY <1>1
        <4>2. PICK n \in Nat : n = Len(source) - 1
          BY <4>1
        <4>3. source' = [j \in 1 .. n |-> IF j < i THEN source[j] ELSE source[j + 1]]
          BY <3>3, <4>2 DEF Delete
        <4>4. \A j \in 1 .. n : j \in 1 .. Len(source) /\ j + 1 \in 1 .. Len(source)
          BY <4>1, <4>2
        <4>5. \A j \in 1 .. n : source'[j] \in Rows
          BY <4>1, <4>3, <4>4
        <4>6. source' \in [1 .. n -> Rows]
          BY <4>3, <4>5
        <4>7. QED
          BY <1>1, <3>3, <4>6 DEF Delete
      <3>4. QED
        BY <1>3, <3>1, <3>2, <3>3 DEF World
    <2>3. QED
      BY <1>1, <1>2, <2>1, <2>2 DEF WatcherTypes, WatcherTypeOK, HeldOK
  <1>4. CASE Consume
    <2>1. PICK e \in Events : Receive(e) /\ Ack(e)
      BY <1>4 DEF Consume
    <2>2. /\ channel' = Tail(channel) /\ channel # << >> /\ spool' = spool \ {e}
          /\ channel \in Seq(Events) /\ Len(channel) <= Capacity /\ Capacity \in Nat
      BY <1>1, <2>1, BusConstants DEF Receive, Ack, BusTypeOK
    <2>3. BusTypeOK'
      BY <1>1, <2>2 DEF BusTypeOK
    <2>4. QED
      BY <1>1, <1>4, <2>3 DEF Consume, WatcherTypes, WatcherTypeOK, HeldOK
  <1>5. ASSUME NEW p \in Pollers, Scan(p) PROVE WatcherTypes'
    <2>1. PICK w \in Seq(Rows) : w = source
      BY <1>1
    <2>2. PICK r \in HeldPolls :
            /\ r = [at |-> "scanned", rows |-> w, next |-> 1, loaded |-> {}, advanced |-> {}]
            /\ r.next = 1 /\ r.rows = w
      <3>1. [at |-> "scanned", rows |-> w, next |-> 1, loaded |-> {}, advanced |-> {}] \in HeldPolls
        BY DEF HeldPolls
      <3>2. QED
        BY <3>1
    <2>3. r.next <= Len(r.rows) + 1
      BY <2>2
    <2>4. QED
      BY <1>1, <1>2, <1>5, <2>1, <2>2, <2>3, HoldsTyped DEF Scan
  <1>6. ASSUME NEW p \in Pollers, LoadCursor(p) PROVE WatcherTypes'
    <2>1. PICK w \in Seq(Rows), c \in SUBSET Events : w = poll[p].rows /\ c = cursor
      BY <1>1, HeldIsTyped
    <2>2. PICK r \in HeldPolls :
            /\ r = [at |-> "read", rows |-> w, next |-> 1, loaded |-> c, advanced |-> c]
            /\ r.next = 1 /\ r.rows = w
      <3>1. [at |-> "read", rows |-> w, next |-> 1, loaded |-> c, advanced |-> c] \in HeldPolls
        BY DEF HeldPolls
      <3>2. QED
        BY <3>1
    <2>3. r.next <= Len(r.rows) + 1
      BY <2>2
    <2>4. poll' = [poll EXCEPT ![p] = r]
      BY <1>6, <2>1, <2>2 DEF LoadCursor
    <2>5. QED
      BY <1>1, <1>2, <1>6, <2>2, <2>3, <2>4, HoldsTyped DEF LoadCursor
  <1>7. ASSUME NEW p \in Pollers, PassKnown(p) PROVE WatcherTypes'
    <2>a. PICK h \in HeldPolls, x \in Nat \ {0} : h = poll[p] /\ x = h.next + 1
      <3>1. poll[p] \in HeldPolls /\ poll[p].next + 1 \in Nat \ {0}
        BY <1>1, HeldIsTyped
      <3>2. QED
        BY <3>1
    <2>1. PICK r : r = [h EXCEPT !.next = x]
      OBVIOUS
    <2>c. r \in HeldPolls /\ r.next = x /\ r.rows = h.rows
      BY <2>a, <2>1 DEF HeldPolls
    <2>2. r.next = poll[p].next + 1 /\ r.rows = poll[p].rows
      BY <2>a, <2>c
    <2>b. poll' = [poll EXCEPT ![p] = r]
      BY <1>7, <2>a, <2>1 DEF PassKnown
    <2>3. r.next <= Len(r.rows) + 1
      BY <1>1, <1>7, <2>2, HeldIsTyped DEF PassKnown, AtRow
    <2>4. QED
      BY <1>1, <1>2, <1>7, <2>b, <2>c, <2>3, HoldsTyped DEF PassKnown
  <1>8. ASSUME NEW p \in Pollers, Publish(p) PROVE WatcherTypes'
    <2>1. AtRow(p) /\ ThisId(p) \in Events /\ poll[p].rows[poll[p].next] \in Rows
      BY <1>1, <1>8, IdIsAnEvent DEF Publish
    <2>2. spool' \in SUBSET Events /\ source' = source /\ born' = born /\ covered' = covered
          /\ cursor' = cursor
      BY <1>1, <1>8, <2>1 DEF Publish, Spool, BusTypeOK, AfterFull
    <2>3. CASE TrySend(ThisId(p)) /\ published' = published \cup {poll[p].rows[poll[p].next]}
               /\ poll' = [poll EXCEPT ![p].next = @ + 1, ![p].advanced = @ \cup {ThisId(p)}]
      <3>1. PICK e \in Events : e = ThisId(p)
        BY <2>1
      <3>2. channel' = Append(channel, e) /\ Len(channel) < Capacity /\ channel \in Seq(Events)
            /\ Capacity \in Nat
        BY <1>1, <2>3, <3>1, BusConstants DEF TrySend, HasRoom, BusTypeOK
      <3>3. BusTypeOK'
        BY <2>2, <3>2 DEF BusTypeOK
      <3>a. PICK h \in HeldPolls, x \in Nat \ {0}, a \in SUBSET Events :
              h = poll[p] /\ x = h.next + 1 /\ a = h.advanced \cup {e}
        <4>1. /\ poll[p] \in HeldPolls /\ poll[p].next + 1 \in Nat \ {0}
              /\ poll[p].advanced \cup {e} \in SUBSET Events
          BY <1>1, HeldIsTyped
        <4>2. QED
          BY <4>1
      <3>4. PICK r : r = [h EXCEPT !.next = x, !.advanced = a]
        OBVIOUS
      <3>b. r \in HeldPolls /\ r.next = x /\ r.rows = h.rows
        BY <3>a, <3>4 DEF HeldPolls
      <3>5. r.next = poll[p].next + 1 /\ r.rows = poll[p].rows
        BY <3>a, <3>b
      <3>6. r.next <= Len(r.rows) + 1
        BY <1>1, <2>1, <3>5, HeldIsTyped DEF AtRow
      <3>7. poll' = [poll EXCEPT ![p] = r]
        BY <2>3, <3>1, <3>a, <3>4
      <3>8. QED
        BY <1>1, <2>1, <2>2, <2>3, <3>b, <3>3, <3>6, <3>7, HoldsTyped
    <2>4. CASE poll' = [poll EXCEPT ![p] = Resting] /\ UNCHANGED <<channel, published>>
      <3>1. BusTypeOK'
        BY <1>1, <2>2, <2>4 DEF BusTypeOK
      <3>2. QED
        BY <1>1, <2>2, <2>4, <3>1, RestsTyped
    <2>5. QED
      BY <1>8, <2>3, <2>4 DEF Publish
  <1>9. ASSUME NEW p \in Pollers, Save(p) PROVE WatcherTypes'
    <2>1. cursor' \subseteq Events /\ covered' \subseteq Rows
      <3>1. poll[p].rows \in Seq(Rows) /\ poll[p].advanced \subseteq Events
        BY <1>1, HeldIsTyped
      <3>2. \A i \in DOMAIN poll[p].rows : poll[p].rows[i] \in Rows
        BY <3>1
      <3>3. QED
        BY <1>1, <1>9, <3>1, <3>2 DEF Save, SavedCursor
    <2>2. QED
      BY <1>1, <1>2, <1>9, <2>1, RestsTyped DEF Save
  <1>10. ASSUME NEW p \in Pollers, Cancel(p) PROVE WatcherTypes'
    BY <1>1, <1>2, <1>10, RestsTyped DEF Cancel
  <1>11. CASE UNCHANGED watcherVars
    BY <1>1, <1>2, <1>11 DEF watcherVars, WatcherTypes, WatcherTypeOK, HeldOK
  <1>12. QED
    BY <1>3, <1>4, <1>5, <1>6, <1>7, <1>8, <1>9, <1>10, <1>11 DEF WatcherNext, Poll

\* The source, the saved cursor and every poll keep their types, where rows have
\* an id column; a position need not be the id of an event.
THEOREM WatcherTypeCorrect ==
  ASSUME HasIds
  PROVE  WatcherSpec => []WatcherTypeOK
  <1>1. WatcherInit => WatcherTypes
    <2>1. Resting \in HeldPolls /\ Resting.at = "rest" /\ Resting.rows = << >> /\ Resting.next = 1
          /\ Resting.loaded = {} /\ Resting.advanced = {}
      BY DEF Resting, HeldPolls
    <2>2. << >> \in Seq(Rows) /\ << >> \in Seq(Events) /\ Len(<< >>) = 0 /\ 0 <= Capacity
      BY BusConstants
    <2> SUFFICES ASSUME WatcherInit PROVE WatcherTypes
      OBVIOUS
    <2>3. HeldOK /\ \A p \in Pollers : poll[p] = Resting
      <3>1. poll = [p \in Pollers |-> Resting]
        BY DEF WatcherInit
      <3>2. Resting.next <= Len(Resting.rows) + 1
        BY <2>1, <2>2
      <3>3. QED
        BY <2>1, <3>1, <3>2 DEF HeldOK
    <2>4. BusTypeOK
      BY <2>2 DEF WatcherInit, BusInit, BusTypeOK
    <2>5. /\ source \in Seq(Rows) /\ born \in SUBSET Keys /\ cursor \in SUBSET Events
          /\ published \subseteq Rows /\ covered \subseteq Rows
      BY <2>2 DEF WatcherInit
    <2>6. \A p \in Pollers : /\ poll[p].at \in {"rest", "scanned", "read"} /\ poll[p].rows \in Seq(Rows)
                             /\ poll[p].next \in 1 .. (Len(poll[p].rows) + 1)
                             /\ poll[p].loaded \subseteq Events /\ poll[p].advanced \subseteq Events
      BY <2>3, HeldIsTyped
    <2>7. WatcherTypeOK
      BY <2>4, <2>5, <2>6 DEF WatcherTypeOK
    <2>8. QED
      BY <2>3, <2>7 DEF WatcherTypes
  <1>2. WatcherTypes /\ [WatcherNext]_watcherVars => WatcherTypes'
    BY WatcherTypeStep
  <1>3. WatcherTypes => WatcherTypeOK
    BY DEF WatcherTypes
  <1>4. QED
    BY <1>1, <1>2, <1>3, PTL DEF WatcherSpec

-----------------------------------------------------------------------------
(* Sweeper: the marks of the cron rows.                                    *)

\* What a pass may hold: hydrated copies of rows, and firings of units.
PassRows == UNION {[S -> CronRows] : S \in SUBSET Units}
Firings  == [unit : Units, outcome : Outcomes]
RunRecords == [at : Times, outcome : Outcomes]

SweepStates ==
  {NoSweep}
    \cup {s \in [at : {"hydrate"}, now : Times, units : SUBSET Units, row : PassRows,
                 raised : SUBSET Units] : s.raised \subseteq DOMAIN s.row}
    \cup [at : {"fire"}, now : Times, units : SUBSET Units, row : PassRows,
          todo : SUBSET Units, done : Seq(Firings)]
    \cup [at : {"persist"}, now : Times, units : SUBSET Units, marks : SUBSET Units]

SweeperTypes ==
  /\ SweeperTypeOK /\ sweep \in SweepStates
  /\ runs \in [Units -> Seq(RunRecords)]
  /\ \A u \in booting : config[u] \in Cadences

\* Nothing has fired after the pass under way, and no pass is of the future.
FiringsArePast ==
  \A u \in Units :
    lastFired[u] # None =>
      /\ lastFired[u] <= clock
      /\ sweep.at # "idle" => lastFired[u] <= sweep.now
PassIsPast == sweep.at # "idle" => sweep.now <= clock

\* What a pass still fires is due and has not been fired, and it fires a unit once.
FiresOnce ==
  sweep.at = "fire" =>
    /\ \A u \in sweep.todo : u \in DOMAIN sweep.row /\ Due(sweep.row[u], sweep.now)
    /\ \A i, j \in DOMAIN sweep.done :
         sweep.done[i].unit = sweep.done[j].unit => i = j
    /\ \A i \in DOMAIN sweep.done : sweep.done[i].unit \notin sweep.todo

\* What a pass holds of a unit is a firing under its key: the mark of its copy is
\* one, and what it committed or has still to persist fired at its instant.
CopyIsAFiring ==
  sweep.at \in {"hydrate", "fire"} =>
    \A u \in DOMAIN sweep.row :
      sweep.row[u].mark # None => IsAFiring(sweep.row[u].mark, u)
CommittedNow ==
  /\ sweep.at = "fire" =>
       \A i \in DOMAIN sweep.done :
         sweep.done[i].outcome = "fired" => lastFired[sweep.done[i].unit] = sweep.now
  /\ sweep.at = "persist" => \A u \in sweep.marks : lastFired[u] = sweep.now

\* The last firing of a unit, or a later one under its key, is held somewhere: in
\* its durable mark, in its live row, or in the pass that fired it.
Held(u) ==
  \/ NotBefore(lastFired[u], durable[Key(u)])
  \/ rows[u] # None /\ NotBefore(lastFired[u], rows[u].mark)
  \/ sweep.at = "fire" /\ [unit |-> u, outcome |-> "fired"] \in
       {sweep.done[i] : i \in DOMAIN sweep.done}
  \/ sweep.at = "persist" /\ u \in sweep.marks
NotLost == \A u \in Units \ forgot : lastFired[u] # None => Held(u)

\* The copy a pass is going to fire on carries the last firing, or a later one.
CopyIsCurrent ==
  \A u \in Units \ forgot :
    lastFired[u] # None =>
      /\ sweep.at = "hydrate" /\ u \in DOMAIN sweep.row =>
            NotBefore(lastFired[u], sweep.row[u].mark)
      /\ sweep.at = "fire" /\ u \in sweep.todo =>
            NotBefore(lastFired[u], sweep.row[u].mark)

SweeperIInv ==
  /\ SweeperTypes /\ FiringsArePast /\ PassIsPast /\ FiresOnce /\ CopyIsAFiring
  /\ CommittedNow /\ NotLost /\ CopyIsCurrent /\ MarkIsAFiring

LEMMA CronFacts ==
  /\ MaxTime \in Nat /\ HistoryCap \in Nat \ {0}
  /\ Times \subseteq Nat /\ Marks = Times \cup {None} /\ None \notin Nat
  /\ \A t \in Times : t + 1 <= MaxTime => t + 1 \in Times
  /\ Periods \subseteq Nat /\ Cadences = Periods \cup {Never}
  /\ \A u \in Units : Key(u) \in MarkKeys
  /\ None \notin CronRows
  /\ \A every \in Cadences, mark \in Marks : [every |-> every, mark |-> mark] \in CronRows
  /\ \A r \in CronRows : r.every \in Cadences /\ r.mark \in Marks
  BY BoundsAssumption, PeriodsAssumption, NoneAssumption, NoRowAssumption
     DEF Times, Marks, Cadences, MarkKeys, Key, CronRows

\* A row with another mark is a row.
LEMMA OtherMark ==
  ASSUME NEW r \in CronRows, NEW mark \in Marks
  PROVE  /\ [r EXCEPT !.mark = mark] \in CronRows
         /\ [r EXCEPT !.mark = mark].mark = mark
         /\ [r EXCEPT !.mark = mark].every = r.every
  BY DEF CronRows

\* The newer of two marks is one of them, and before neither.
LEMMA NewerFacts ==
  ASSUME NEW m \in Marks, NEW n \in Marks
  PROVE  /\ NewerMark(m, n) \in {m, n} /\ NewerMark(m, n) \in Marks
         /\ \A l \in Marks :
              NotBefore(l, m) \/ NotBefore(l, n) => NotBefore(l, NewerMark(m, n))
  <1>1. m \in Nat \cup {None} /\ n \in Nat \cup {None} /\ Marks \subseteq Nat \cup {None}
        /\ None \notin Nat
    BY CronFacts
  <1>2. CASE n = None \/ (m # None /\ n <= m)
    BY <1>1, <1>2 DEF NewerMark, NotBefore
  <1>3. CASE ~ (n = None \/ (m # None /\ n <= m))
    BY <1>1, <1>3 DEF NewerMark, NotBefore
  <1>4. QED
    BY <1>2, <1>3

\* A mark that stays is not before itself.
LEMMA SameMark ==
  ASSUME NEW m \in Marks
  PROVE  NotBefore(m, m)
  BY CronFacts DEF NotBefore

\* What is a firing under a key stays one when nothing is unfired.
FiringIn(fired, mark, u) == \E v \in Namesakes(u) : fired[v] # None /\ mark <= fired[v]
LEMMA LaterFirings ==
  ASSUME NEW u \in Units, NEW mark \in Marks, mark # None,
         NEW fired \in [Units -> Marks], NEW later \in [Units -> Marks],
         \A v \in Units : fired[v] # None => later[v] # None /\ fired[v] <= later[v],
         FiringIn(fired, mark, u)
  PROVE  FiringIn(later, mark, u)
  <1>1. PICK v \in Namesakes(u) : fired[v] # None /\ mark <= fired[v]
    BY DEF FiringIn
  <1>2. v \in Units /\ later[v] # None /\ fired[v] <= later[v]
    BY <1>1 DEF Namesakes
  <1>3. fired[v] \in Nat /\ later[v] \in Nat /\ mark \in Nat
    BY <1>1, <1>2, CronFacts
  <1>4. mark <= later[v]
    BY <1>1, <1>2, <1>3
  <1>5. QED
    BY <1>1, <1>2, <1>4 DEF FiringIn

\* No firing is after the pass under way.
LEMMA PastFirings ==
  ASSUME SweeperIInv, sweep.at # "idle", sweep.now \in Nat, NEW u \in Units,
         NEW mark \in Nat, IsAFiring(mark, u)
  PROVE  mark <= sweep.now
  <1>1. PICK v \in Namesakes(u) : lastFired[v] # None /\ mark <= lastFired[v]
    BY DEF IsAFiring
  <1>2. lastFired[v] <= sweep.now /\ lastFired[v] \in Nat
    BY <1>1, CronFacts DEF Namesakes, SweeperIInv, FiringsArePast, SweeperTypes, SweeperTypeOK
  <1>3. QED
    BY <1>1, <1>2

LEMMA PassRowFacts ==
  ASSUME NEW r
  PROVE  r \in PassRows <=> /\ DOMAIN r \subseteq Units
                           /\ r \in [DOMAIN r -> CronRows]
  BY DEF PassRows

\* What the sweep under way is made of.
LEMMA SweepFacts ==
  ASSUME sweep \in SweepStates
  PROVE  /\ sweep.at \in {"idle", "hydrate", "fire", "persist"}
         /\ sweep.at # "idle" => sweep.now \in Times /\ sweep.units \subseteq Units
         /\ sweep.at \in {"hydrate", "fire"} =>
              /\ sweep.row \in PassRows /\ DOMAIN sweep.row \subseteq Units
              /\ \A u \in DOMAIN sweep.row : sweep.row[u] \in CronRows
         /\ sweep.at = "hydrate" => sweep.raised \subseteq DOMAIN sweep.row
         /\ sweep.at = "fire" =>
              /\ sweep.todo \subseteq Units /\ sweep.done \in Seq(Firings)
              /\ DOMAIN sweep.done = 1 .. Len(sweep.done) /\ Len(sweep.done) \in Nat
              /\ \A i \in DOMAIN sweep.done : /\ sweep.done[i].unit \in Units
                                              /\ sweep.done[i].outcome \in Outcomes
                                              /\ sweep.done[i] = [unit |-> sweep.done[i].unit,
                                                     outcome |-> sweep.done[i].outcome]
         /\ sweep.at = "persist" => sweep.marks \subseteq Units
  <1>1. CASE sweep = NoSweep
    BY <1>1 DEF NoSweep
  <1>2. CASE sweep \in {s \in [at : {"hydrate"}, now : Times, units : SUBSET Units,
                             row : PassRows, raised : SUBSET Units] : s.raised \subseteq DOMAIN s.row}
    BY <1>2, PassRowFacts
  <1>3. CASE sweep \in [at : {"fire"}, now : Times, units : SUBSET Units, row : PassRows,
                        todo : SUBSET Units, done : Seq(Firings)]
    <2>1. /\ sweep.at = "fire" /\ sweep.now \in Times /\ sweep.units \subseteq Units
          /\ sweep.row \in PassRows /\ sweep.todo \subseteq Units /\ sweep.done \in Seq(Firings)
      BY <1>3
    <2>2. DOMAIN sweep.done = 1 .. Len(sweep.done) /\ Len(sweep.done) \in Nat
      BY <2>1
    <2>3. \A i \in DOMAIN sweep.done : sweep.done[i] \in Firings
      BY <2>1, <2>2
    <2>4. QED
      BY <2>1, <2>2, <2>3, PassRowFacts DEF Firings
  <1>4. CASE sweep \in [at : {"persist"}, now : Times, units : SUBSET Units, marks : SUBSET Units]
    BY <1>4
  <1>5. QED
    BY <1>1, <1>2, <1>3, <1>4 DEF SweepStates

LEMMA InitSweeper == SweeperInit => SweeperIInv
  <1> SUFFICES ASSUME SweeperInit PROVE SweeperIInv
    OBVIOUS
  <1> USE CronFacts DEF SweeperInit, NoSweep
  <1>1. SweeperTypes
    <2>1. runs \in [Units -> Seq(RunRecords)] /\ \A u \in Units : Len(runs[u]) = 0
      BY DEF SweeperInit
    <2>2. \A u \in booting : config[u] \in Cadences
      OBVIOUS
    <2>3. 0 \in Times /\ sweep \in SweepStates
      BY DEF Times, SweepStates
    <2>4. QED
      BY <2>1, <2>2, <2>3 DEF SweeperTypes, SweeperTypeOK
  <1>2. QED
    BY <1>1 DEF SweeperIInv, FiringsArePast, PassIsPast, FiresOnce, CopyIsAFiring, CommittedNow,
       NotLost, CopyIsCurrent, MarkIsAFiring

-----------------------------------------------------------------------------
(* Rows that come, change and go.                                          *)

\* The parts of a row a write puts in place.
LEMMA ReplacingFacts ==
  ASSUME SweeperTypes, NEW u \in Units, NEW every \in Cadences
  PROVE  /\ Replacing(u, every) \in CronRows
         /\ rows[u] = None => Replacing(u, every).mark = None
         /\ rows[u] # None => Replacing(u, every).mark = rows[u].mark
  <1>1. rows[u] # None => rows[u] \in CronRows
    BY DEF SweeperTypes, SweeperTypeOK
  <1>2. QED
    BY <1>1, CronFacts DEF Replacing

\* A write that puts a row in place moves no mark.
LEMMA ReplacedKeeps ==
  ASSUME SweeperIInv, NEW u \in Units, NEW every \in Cadences,
         rows' = [rows EXCEPT ![u] = Replacing(u, every)],
         UNCHANGED <<clock, runs, durable, sweep, lastFired, lastTry, forgot>>,
         config' \in [Units -> Cadences \cup {None}],
         booting' \subseteq booting, \A v \in booting' : config'[v] \in Cadences
  PROVE  SweeperIInv'
  <1> USE DEF SweeperIInv
  <1>1. /\ rows' \in [Units -> CronRows \cup {None}]
        /\ rows'[u] = Replacing(u, every) /\ rows'[u] \in CronRows
        /\ \A v \in Units \ {u} : rows'[v] = rows[v]
    BY ReplacingFacts DEF SweeperTypes, SweeperTypeOK
  <1>2. SweeperTypes'
    BY <1>1 DEF SweeperTypes, SweeperTypeOK
  <1>3. \A v \in Units : Held(v) => Held(v)'
    BY <1>1, ReplacingFacts, CronFacts DEF Held, Key, NotBefore
  <1>4. MarkIsAFiring'
    BY <1>1, ReplacingFacts DEF MarkIsAFiring, IsAFiring, Namesakes, Key
  <1>5. NotLost'
    BY <1>3 DEF NotLost
  <1>6. CopyIsAFiring'
    BY DEF CopyIsAFiring, IsAFiring, Namesakes, Key
  <1>7. QED
    BY <1>2, <1>4, <1>5, <1>6 DEF FiringsArePast, PassIsPast, FiresOnce, CommittedNow, CopyIsCurrent

LEMMA ReplayKeeps ==
  ASSUME SweeperIInv, NEW u \in Units, Replay(u) PROVE SweeperIInv'
  <1>1. config[u] \in Cadences /\ config \in [Units -> Cadences \cup {None}]
        /\ \A v \in booting : config[v] \in Cadences
    BY DEF Replay, SweeperIInv, SweeperTypes, SweeperTypeOK
  <1>2. booting' = booting \ {u} /\ config' = config
    BY DEF Replay
  <1>3. UNCHANGED <<clock, runs, durable, sweep, lastFired, lastTry, forgot>>
    BY DEF Replay, pastVars
  <1>4. rows' = [rows EXCEPT ![u] = Replacing(u, config[u])]
    BY DEF Replay
  <1>5. QED
    BY <1>1, <1>2, <1>3, <1>4, ReplacedKeeps

LEMMA PutKeeps ==
  ASSUME SweeperIInv, NEW u \in Units, NEW every \in Cadences, Put(u, every)
  PROVE  SweeperIInv'
  <1>1. config' \in [Units -> Cadences \cup {None}] /\ booting' = {}
    BY DEF Put, Accepting, SweeperIInv, SweeperTypes, SweeperTypeOK
  <1>2. booting' \subseteq booting /\ \A v \in booting' : config'[v] \in Cadences
    BY <1>1
  <1>3. UNCHANGED <<clock, runs, durable, sweep, lastFired, lastTry, forgot>>
    BY DEF Put, pastVars
  <1>4. rows' = [rows EXCEPT ![u] = Replacing(u, every)]
    BY DEF Put
  <1>5. QED
    BY <1>1, <1>2, <1>3, <1>4, ReplacedKeeps

\* Rows that go take only a mark with them that is written down.
LEMMA GoneKeeps ==
  ASSUME SweeperIInv, NEW S, S \subseteq Units,
         rows' \in [Units -> CronRows \cup {None}],
         \A u \in S : rows'[u] = None, \A u \in Units \ S : rows'[u] = rows[u],
         forgot' = forgot \cup Forgetting(S),
         sweep' = sweep \/ (S = Units /\ sweep' = NoSweep),
         UNCHANGED <<clock, durable, lastFired, lastTry>>,
         runs' \in [Units -> Seq(RunRecords)], \A u \in Units : Len(runs'[u]) <= HistoryCap,
         config' \in [Units -> Cadences \cup {None}],
         booting' \subseteq Units, \A u \in booting' : config'[u] \in Cadences
  PROVE  SweeperIInv'
  <1> USE DEF SweeperIInv
  <1>1. NoSweep \in SweepStates /\ NoSweep.at = "idle"
    BY DEF SweepStates, NoSweep
  <1>2. SweeperTypes'
    <2>1. forgot' \subseteq Units
      BY DEF SweeperTypes, SweeperTypeOK, Forgetting
    <2>2. sweep' \in SweepStates
      BY <1>1 DEF SweeperTypes
    <2>3. sweep'.at \in {"idle", "hydrate", "fire", "persist"}
      BY <1>1 DEF SweeperTypes, SweeperTypeOK
    <2>4. QED
      BY <2>1, <2>2, <2>3 DEF SweeperTypes, SweeperTypeOK
  <1>3. NotLost'
    <2> SUFFICES ASSUME NEW u \in Units \ forgot', lastFired[u] # None
                 PROVE  Held(u)'
      BY DEF NotLost
    <2>1. CASE u \in S
      <3>1. NotBefore(lastFired[u], durable[Key(u)])
        BY <2>1 DEF Forgetting
      <3>2. QED
        BY <3>1 DEF Held, Key
    <2>2. CASE u \notin S
      <3>1. Held(u) /\ sweep' = sweep /\ rows'[u] = rows[u]
        BY <2>2 DEF NotLost
      <3>2. QED
        BY <3>1 DEF Held, Key
    <2>3. QED
      BY <2>1, <2>2
  <1>4. MarkIsAFiring'
    BY DEF MarkIsAFiring, IsAFiring, Namesakes, Key
  <1>5. CASE sweep' = sweep
    <2>1. CopyIsAFiring'
      BY <1>5 DEF CopyIsAFiring, IsAFiring, Namesakes, Key
    <2>2. QED
      BY <1>2, <1>3, <1>4, <1>5, <2>1 DEF FiringsArePast, PassIsPast, FiresOnce, CommittedNow, CopyIsCurrent
  <1>6. CASE sweep' = NoSweep
    BY <1>1, <1>2, <1>3, <1>4, <1>6 DEF FiringsArePast, PassIsPast, FiresOnce, CopyIsAFiring, CommittedNow, CopyIsCurrent
  <1>7. QED
    BY <1>5, <1>6

LEMMA RemoveKeeps ==
  ASSUME SweeperIInv, NEW u \in Units, Remove(u) PROVE SweeperIInv'
  <1> USE DEF SweeperIInv, SweeperTypes, SweeperTypeOK
  <1>1. /\ rows' \in [Units -> CronRows \cup {None}] /\ rows'[u] = None
        /\ \A v \in Units \ {u} : rows'[v] = rows[v]
    BY DEF Remove
  <1>2. /\ runs' \in [Units -> Seq(RunRecords)] /\ \A v \in Units : Len(runs'[v]) <= HistoryCap
    <2>1. << >> \in Seq(RunRecords) /\ Len(<< >>) = 0
      OBVIOUS
    <2>2. QED
      BY <2>1, CronFacts DEF Remove
  <1>3. config' \in [Units -> Cadences \cup {None}] /\ booting' = {}
    BY DEF Remove, Accepting
  <1>4. QED
    <2> HIDE DEF SweeperIInv, SweeperTypes, SweeperTypeOK
    <2> QED
      BY <1>1, <1>2, <1>3, GoneKeeps DEF Remove

LEMMA CrashKeeps ==
  ASSUME SweeperIInv, Crash PROVE SweeperIInv'
  <1>1. /\ rows' \in [Units -> CronRows \cup {None}] /\ \A u \in Units : rows'[u] = None
        /\ runs' \in [Units -> Seq(RunRecords)] /\ \A u \in Units : Len(runs'[u]) = 0
    BY DEF Crash
  <1>2. booting' \subseteq Units /\ config' = config /\ config \in [Units -> Cadences \cup {None}]
        /\ \A u \in booting' : config[u] \in Cadences
    BY DEF Crash, SweeperIInv, SweeperTypes, SweeperTypeOK
  <1>3. QED
    BY <1>1, <1>2, CronFacts, GoneKeeps DEF Crash

-----------------------------------------------------------------------------
(* A sweep.                                                                *)

\* Hydrating a row copies its last firing, if it is not lost.
LEMMA HydratedFacts ==
  ASSUME SweeperIInv, NEW u \in Units, rows[u] # None
  PROVE  /\ Hydrated(u) \in CronRows
         /\ Hydrated(u).mark # None => IsAFiring(Hydrated(u).mark, u)
         /\ NotBefore(lastFired[u], durable[Key(u)]) \/ NotBefore(lastFired[u], rows[u].mark)
              => NotBefore(lastFired[u], Hydrated(u).mark)
  <1>1. /\ rows[u] \in CronRows /\ rows[u].mark \in Marks /\ durable[Key(u)] \in Marks
        /\ lastFired[u] \in Marks
    BY CronFacts DEF SweeperIInv, SweeperTypes, SweeperTypeOK
  <1>2. PICK mark \in Marks : mark = NewerMark(rows[u].mark, durable[Key(u)])
    BY <1>1, NewerFacts
  <1>3. Hydrated(u) \in CronRows /\ Hydrated(u).mark = mark
    BY <1>1, <1>2, OtherMark DEF Hydrated
  <1>4. /\ durable[Key(u)] # None => IsAFiring(durable[Key(u)], u)
        /\ rows[u].mark # None => IsAFiring(rows[u].mark, u)
    BY DEF SweeperIInv, MarkIsAFiring
  <1>5. mark \in {rows[u].mark, durable[Key(u)]}
    BY <1>1, <1>2, NewerFacts
  <1>6. ASSUME NotBefore(lastFired[u], durable[Key(u)]) \/ NotBefore(lastFired[u], rows[u].mark)
        PROVE  NotBefore(lastFired[u], mark)
    <2>1. PICK m \in Marks, n \in Marks, last \in Marks :
            m = rows[u].mark /\ n = durable[Key(u)] /\ last = lastFired[u]
      BY <1>1
    <2>2. mark = NewerMark(m, n) /\ (NotBefore(last, n) \/ NotBefore(last, m))
      BY <1>2, <1>6, <2>1
    <2>3. NotBefore(last, mark)
      BY <2>2, NewerFacts
    <2>4. QED
      BY <2>1, <2>3
  <1>7. QED
    BY <1>3, <1>4, <1>5, <1>6

\* A pass begins: the copies are taken.
LEMMA PassKeeps ==
  ASSUME SweeperIInv, NEW now \in Times, NEW units, units \subseteq Units,
         sweep' = Pass(now, units), now <= clock,
         \A u \in Units : lastFired[u] # None => lastFired[u] <= now,
         sweep.at = "idle" \/ (sweep.at = "persist" /\ sweep.marks = {}),
         UNCHANGED <<clock, rowVars, durable, boundVars, pastVars>>
  PROVE  SweeperIInv'
  <1>1. /\ sweep'.at = "hydrate" /\ sweep'.now = now
        /\ DOMAIN sweep'.row = {u \in units : rows[u] # None}
        /\ \A u \in DOMAIN sweep'.row : sweep'.row[u] = Hydrated(u)
    BY DEF Pass
  <1> USE DEF Key, Namesakes
  <1>2. sweep' \in SweepStates
    <2> DEFINE r == [u \in {v \in units : rows[v] # None} |-> Hydrated(u)]
               up == {u \in {v \in units : rows[v] # None} : Hydrated(u) # rows[u]}
    <2>1. r \in [{v \in units : rows[v] # None} -> CronRows]
      BY HydratedFacts
    <2>2. r \in PassRows
      BY <2>1, PassRowFacts
    <2>3. sweep' = [at |-> "hydrate", now |-> now, units |-> units, row |-> r, raised |-> up]
      BY DEF Pass
    <2>4. up \in SUBSET Units /\ up \subseteq DOMAIN r
      OBVIOUS
    <2> HIDE DEF r, up
    <2>5. QED
      BY <2>2, <2>3, <2>4 DEF SweepStates
  <1>3. UNCHANGED <<clock, rows, runs, config, booting, durable, lastFired, lastTry, forgot>>
    BY DEF rowVars, pastVars
  <1>4. SweeperTypes'
    BY <1>1, <1>2, <1>3 DEF SweeperIInv, SweeperTypes, SweeperTypeOK
  <1>5. \A u \in Units \ forgot : lastFired[u] # None =>
           \/ NotBefore(lastFired[u], durable[Key(u)])
           \/ rows[u] # None /\ NotBefore(lastFired[u], rows[u].mark)
    BY DEF SweeperIInv, NotLost, Held
  <1>6. NotLost' /\ MarkIsAFiring'
    BY <1>3, <1>5 DEF SweeperIInv, NotLost, Held, MarkIsAFiring, IsAFiring
  <1>7. CopyIsAFiring' /\ CopyIsCurrent'
    <2>1. \A u \in DOMAIN sweep'.row : u \in Units /\ rows[u] # None
      BY <1>1
    <2>2. \A u \in DOMAIN sweep'.row :
             Hydrated(u).mark # None => \E v \in Namesakes(u) :
                lastFired[v] # None /\ Hydrated(u).mark <= lastFired[v]
      BY <2>1, HydratedFacts DEF IsAFiring
    <2>3. CopyIsAFiring'
      BY <1>1, <1>3, <2>2 DEF CopyIsAFiring, IsAFiring
    <2>4. \A u \in DOMAIN sweep'.row :
             u \notin forgot /\ lastFired[u] # None => NotBefore(lastFired[u], Hydrated(u).mark)
      BY <1>5, <2>1, HydratedFacts
    <2>5. CopyIsCurrent'
      BY <1>1, <1>3, <2>4 DEF CopyIsCurrent
    <2>6. QED
      BY <2>3, <2>5
  <1>8. FiringsArePast' /\ PassIsPast' /\ FiresOnce' /\ CommittedNow'
    BY <1>1, <1>3 DEF SweeperIInv, FiringsArePast, PassIsPast, FiresOnce, CommittedNow
  <1>9. QED
    BY <1>4, <1>6, <1>7, <1>8 DEF SweeperIInv

LEMMA BeginSweepKeeps == ASSUME SweeperIInv, BeginSweep PROVE SweeperIInv'
  <1>1. clock \in Times /\ Jobs \subseteq Units /\ clock <= clock
    BY CronFacts DEF SweeperIInv, SweeperTypes, SweeperTypeOK, Units
  <1>2. \A u \in Units : lastFired[u] # None => lastFired[u] <= clock
    BY DEF SweeperIInv, FiringsArePast
  <1>3. QED
    BY <1>1, <1>2, PassKeeps DEF BeginSweep

LEMMA EndPassKeeps == ASSUME SweeperIInv, EndPass PROVE SweeperIInv'
  <1>1. sweep.at = "persist" /\ sweep.marks = {} /\ sweep.now \in Times /\ sweep.now <= clock
    BY SweepFacts DEF EndPass, SweeperIInv, SweeperTypes, PassIsPast
  <1>2. \A u \in Units : lastFired[u] # None => lastFired[u] <= sweep.now
    BY <1>1 DEF SweeperIInv, FiringsArePast
  <1>3. CASE sweep' = Pass(sweep.now, Agents)
    BY <1>1, <1>2, <1>3, PassKeeps DEF EndPass, Units
  <1>4. CASE sweep' = NoSweep
    <2>1. NoSweep \in SweepStates /\ NoSweep.at = "idle"
      BY DEF SweepStates, NoSweep
    <2>2. UNCHANGED <<clock, rows, runs, config, booting, durable, lastFired, lastTry, forgot>>
      BY DEF EndPass, rowVars, pastVars
    <2>3. SweeperTypes'
      BY <1>4, <2>1, <2>2 DEF SweeperIInv, SweeperTypes, SweeperTypeOK
    <2>4. NotLost'
      BY <1>1, <1>4, <2>1, <2>2 DEF SweeperIInv, NotLost, Held, Key
    <2>5. QED
      BY <1>4, <2>1, <2>2, <2>3, <2>4 DEF SweeperIInv, FiringsArePast, PassIsPast, FiresOnce,
         CopyIsAFiring, CommittedNow, CopyIsCurrent, MarkIsAFiring, IsAFiring, Namesakes, Key
  <1>5. QED
    BY <1>3, <1>4 DEF EndPass

LEMMA HydrateKeeps == ASSUME SweeperIInv, Hydrate PROVE SweeperIInv'
  <1>1. /\ sweep.at = "hydrate" /\ sweep.now \in Times /\ sweep.units \subseteq Units
        /\ sweep.row \in PassRows /\ DOMAIN sweep.row \subseteq Units
        /\ \A u \in DOMAIN sweep.row : sweep.row[u] \in CronRows
        /\ sweep.raised \subseteq DOMAIN sweep.row
    BY SweepFacts DEF Hydrate, SweeperIInv, SweeperTypes
  <1>2. UNCHANGED <<clock, runs, config, booting, durable, lastFired, lastTry, forgot>>
    BY DEF Hydrate, pastVars
  <1> DEFINE back(u) == u \in sweep.raised /\ rows[u] # None
             raised(u) == NewerMark(rows[u].mark, sweep.row[u].mark)
  <1>3. ASSUME NEW u \in Units, back(u)
        PROVE  /\ rows[u] \in CronRows /\ rows[u].mark \in Marks /\ sweep.row[u].mark \in Marks
               /\ rows'[u] = [rows[u] EXCEPT !.mark = raised(u)]
               /\ rows'[u] \in CronRows /\ rows'[u].mark = raised(u)
    <2>1. rows[u] \in CronRows /\ rows[u].mark \in Marks /\ sweep.row[u].mark \in Marks
      BY <1>1, <1>3, CronFacts DEF SweeperIInv, SweeperTypes, SweeperTypeOK
    <2>2. rows'[u] = [rows[u] EXCEPT !.mark = raised(u)]
      BY <1>3 DEF Hydrate
    <2>3. raised(u) \in Marks
      BY <2>1, NewerFacts
    <2>4. QED
      BY <2>1, <2>2, <2>3, OtherMark
  <1>4. \A u \in Units : ~ back(u) => rows'[u] = rows[u]
    BY DEF Hydrate
  <1>5. rows' \in [Units -> CronRows \cup {None}]
    BY <1>3, <1>4 DEF Hydrate, SweeperIInv, SweeperTypes, SweeperTypeOK
  <1>6. /\ sweep'.at = "fire" /\ sweep'.now = sweep.now /\ sweep'.row = sweep.row
        /\ sweep'.done = << >> /\ sweep' \in SweepStates
        /\ \A u \in sweep'.todo : u \in DOMAIN sweep.row /\ Due(sweep.row[u], sweep.now)
    <2>1. << >> \in Seq(Firings)
      OBVIOUS
    <2>2. QED
      BY <1>1, <2>1 DEF Hydrate, SweepStates
  <1>7. SweeperTypes'
    BY <1>2, <1>5, <1>6 DEF SweeperIInv, SweeperTypes, SweeperTypeOK
  <1>8. ASSUME NEW u \in Units, back(u)
        PROVE  /\ rows'[u].mark # None => FiringIn(lastFired, rows'[u].mark, u)
               /\ \A l \in Marks : NotBefore(l, rows[u].mark) => NotBefore(l, rows'[u].mark)
    <2>1. PICK m \in Marks, n \in Marks :
             m = rows[u].mark /\ n = sweep.row[u].mark /\ rows'[u].mark = NewerMark(m, n)
      <3>1. rows[u].mark \in Marks /\ sweep.row[u].mark \in Marks /\ rows'[u].mark = raised(u)
        BY <1>3, <1>8
      <3>2. QED
        BY <3>1
    <2>2. /\ rows[u].mark # None => IsAFiring(rows[u].mark, u)
          /\ sweep.row[u].mark # None => IsAFiring(sweep.row[u].mark, u)
      BY <1>1, <1>8 DEF SweeperIInv, MarkIsAFiring, CopyIsAFiring
    <2>3. rows'[u].mark # None => FiringIn(lastFired, rows'[u].mark, u)
      <3>1. NewerMark(m, n) \in {m, n}
        BY <2>1, NewerFacts
      <3>2. rows'[u].mark \in {rows[u].mark, sweep.row[u].mark}
        BY <2>1, <3>1
      <3>3. QED
        BY <2>2, <3>2 DEF IsAFiring, FiringIn
    <2>4. \A l \in Marks : NotBefore(l, rows[u].mark) => NotBefore(l, rows'[u].mark)
      BY <2>1, NewerFacts
    <2>5. QED
      BY <2>3, <2>4
  <1>9. MarkIsAFiring'
    <2>1. ASSUME NEW u \in Units, rows'[u] # None, rows'[u].mark # None
          PROVE  FiringIn(lastFired, rows'[u].mark, u)
      BY <1>4, <1>8, <2>1 DEF SweeperIInv, MarkIsAFiring, IsAFiring, FiringIn
    <2> HIDE DEF back, raised
    <2>2. QED
      BY <1>2, <2>1 DEF SweeperIInv, MarkIsAFiring, IsAFiring, FiringIn, Namesakes, Key
  <1>10. NotLost'
    <2> SUFFICES ASSUME NEW u \in Units \ forgot, lastFired[u] # None
                 PROVE  Held(u)'
      BY <1>2 DEF NotLost
    <2>1. \/ NotBefore(lastFired[u], durable[Key(u)])
          \/ rows[u] # None /\ NotBefore(lastFired[u], rows[u].mark)
      BY <1>1 DEF SweeperIInv, NotLost, Held
    <2>2. lastFired[u] \in Marks
      BY DEF SweeperIInv, SweeperTypes, SweeperTypeOK
    <2>3. rows[u] # None /\ NotBefore(lastFired[u], rows[u].mark) =>
            rows'[u] # None /\ NotBefore(lastFired[u], rows'[u].mark)
      BY <1>3, <1>4, <1>8, <2>2, CronFacts
    <2>4. QED
      BY <1>2, <2>1, <2>3 DEF Held, NotBefore, Key
  <1>11. CopyIsAFiring' /\ CopyIsCurrent'
    BY <1>1, <1>2, <1>6 DEF SweeperIInv, CopyIsAFiring, CopyIsCurrent, IsAFiring, Namesakes, Key, NotBefore
  <1>12. FiringsArePast' /\ PassIsPast' /\ FiresOnce' /\ CommittedNow'
    BY <1>1, <1>2, <1>6 DEF SweeperIInv, FiringsArePast, PassIsPast, FiresOnce, CommittedNow
  <1>13. QED
    BY <1>7, <1>9, <1>10, <1>11, <1>12 DEF SweeperIInv

\* A firing joins what the pass has done, and leaves what it has to do.
LEMMA FireFacts ==
  ASSUME SweeperIInv, NEW u \in Units, NEW outcome \in Outcomes, Fire(u, outcome)
  PROVE  /\ sweep.at = "fire" /\ u \in sweep.todo /\ sweep.now \in Times
         /\ sweep' \in SweepStates /\ sweep'.at = "fire" /\ sweep'.now = sweep.now
         /\ sweep'.row = sweep.row /\ sweep'.todo = sweep.todo \ {u}
         /\ DOMAIN sweep'.done = 1 .. Len(sweep.done) + 1 /\ Len(sweep.done) \in Nat
         /\ DOMAIN sweep.done = 1 .. Len(sweep.done)
         /\ \A i \in DOMAIN sweep.done : sweep'.done[i] = sweep.done[i]
         /\ sweep'.done[Len(sweep.done) + 1] = [unit |-> u, outcome |-> outcome]
  <1>1. /\ sweep.at = "fire" /\ u \in sweep.todo
        /\ sweep' = [sweep EXCEPT !.todo = @ \ {u},
                                  !.done = Append(@, [unit |-> u, outcome |-> outcome])]
    BY DEF Fire
  <1>2. sweep \in [at : {"fire"}, now : Times, units : SUBSET Units, row : PassRows,
                   todo : SUBSET Units, done : Seq(Firings)]
    BY <1>1 DEF SweeperIInv, SweeperTypes, SweepStates, NoSweep
  <1>3. PICK e \in Firings : e = [unit |-> u, outcome |-> outcome]
    BY DEF Firings
  <1>4. PICK done \in Seq(Firings) : done = sweep.done
    BY <1>2
  <1>5. PICK longer \in Seq(Firings) : longer = Append(done, e)
    <2>1. Append(done, e) \in Seq(Firings)
      OBVIOUS
    <2>2. QED
      BY <2>1
  <1>6. /\ DOMAIN longer = 1 .. Len(done) + 1 /\ Len(done) \in Nat
        /\ DOMAIN done = 1 .. Len(done)
        /\ \A i \in DOMAIN done : longer[i] = done[i]
        /\ longer[Len(done) + 1] = e
    BY <1>5
  <1>7. /\ sweep'.at = "fire" /\ sweep'.now = sweep.now /\ sweep'.row = sweep.row
        /\ sweep'.todo = sweep.todo \ {u} /\ sweep'.done = longer
        /\ sweep' \in SweepStates /\ sweep.now \in Times
    BY <1>1, <1>2, <1>3, <1>4, <1>5 DEF SweepStates
  <1>8. QED
    BY <1>1, <1>3, <1>4, <1>6, <1>7

LEMMA FireKeeps ==
  ASSUME SweeperIInv, NEW u \in Units, NEW outcome \in Outcomes, Fire(u, outcome)
  PROVE  SweeperIInv'
  <1> DEFINE n == Len(sweep.done) + 1
  <1>1. /\ sweep.at = "fire" /\ u \in sweep.todo /\ sweep.now \in Times
        /\ sweep' \in SweepStates /\ sweep'.at = "fire" /\ sweep'.now = sweep.now
        /\ sweep'.row = sweep.row /\ sweep'.todo = sweep.todo \ {u}
        /\ n \in DOMAIN sweep'.done /\ n \notin DOMAIN sweep.done
        /\ DOMAIN sweep'.done = DOMAIN sweep.done \cup {n}
        /\ \A i \in DOMAIN sweep.done : sweep'.done[i] = sweep.done[i]
        /\ sweep'.done[n] = [unit |-> u, outcome |-> outcome]
    BY FireFacts
  <1> HIDE DEF n
  <1>2. UNCHANGED <<clock, rows, runs, config, booting, durable>>
    BY DEF Fire, rowVars
  <1>3. /\ lastTry' = [lastTry EXCEPT ![u] = sweep.now]
        /\ lastFired' = IF outcome = "fired" THEN [lastFired EXCEPT ![u] = sweep.now]
                        ELSE lastFired
        /\ forgot' = IF outcome = "fired" THEN forgot \ {u} ELSE forgot
    BY DEF Fire
  <1>4. /\ lastFired \in [Units -> Marks] /\ lastTry \in [Units -> Marks] /\ sweep.now \in Marks
        /\ sweep.now # None
    BY <1>1, CronFacts DEF SweeperIInv, SweeperTypes, SweeperTypeOK
  <1>5. /\ lastFired' \in [Units -> Marks] /\ lastTry' \in [Units -> Marks]
        /\ \A v \in Units \ {u} : lastFired'[v] = lastFired[v]
        /\ outcome = "fired" => lastFired'[u] = sweep.now
        /\ outcome # "fired" => lastFired'[u] = lastFired[u]
        /\ \A v \in Units \ {u} : v \in forgot' <=> v \in forgot
    BY <1>3, <1>4
  <1>6. SweeperTypes'
    BY <1>1, <1>2, <1>3, <1>5 DEF SweeperIInv, SweeperTypes, SweeperTypeOK
  <1>7. \A v \in Units : lastFired[v] # None => lastFired[v] <= sweep.now
    BY <1>1 DEF SweeperIInv, FiringsArePast
  <1>8. sweep.now <= clock
    BY <1>1 DEF SweeperIInv, PassIsPast
  <1>9. FiringsArePast' /\ PassIsPast'
    <2>1. sweep.now \in Nat /\ clock \in Nat
      BY <1>1, CronFacts DEF SweeperIInv, SweeperTypes, SweeperTypeOK
    <2>2. ASSUME NEW v \in Units, lastFired'[v] # None
          PROVE  lastFired'[v] <= clock /\ lastFired'[v] <= sweep.now
      <3>1. CASE lastFired'[v] = sweep.now
        BY <1>8, <2>1, <3>1
      <3>2. CASE lastFired'[v] = lastFired[v]
        BY <1>7, <2>2, <3>2 DEF SweeperIInv, FiringsArePast
      <3>3. QED
        BY <1>5, <3>1, <3>2
    <2>3. QED
      BY <1>1, <1>2, <1>8, <2>2 DEF FiringsArePast, PassIsPast
  <1>10. FiresOnce'
    <2>1. \A i \in DOMAIN sweep.done : sweep.done[i].unit \notin sweep.todo
      BY <1>1 DEF SweeperIInv, FiresOnce
    <2>2. \A i, j \in DOMAIN sweep.done : sweep.done[i].unit = sweep.done[j].unit => i = j
      BY <1>1 DEF SweeperIInv, FiresOnce
    <2>3. sweep'.done[n].unit = u /\ \A i \in DOMAIN sweep.done : sweep'.done[i].unit # u
      BY <1>1, <2>1
    <2>4. \A v \in sweep'.todo : v \in DOMAIN sweep'.row /\ Due(sweep'.row[v], sweep'.now)
      BY <1>1 DEF SweeperIInv, FiresOnce
    <2>5. QED
      BY <1>1, <2>1, <2>2, <2>3, <2>4 DEF FiresOnce
  <1>11. \A i \in DOMAIN sweep.done : sweep.done[i].unit \in Units /\ sweep.done[i].unit # u
    BY <1>1, SweepFacts DEF SweeperIInv, SweeperTypes, FiresOnce
  <1>12. CommittedNow'
    BY <1>1, <1>5, <1>11 DEF SweeperIInv, CommittedNow
  <1>18. \A v \in Units : lastFired[v] # None => lastFired'[v] # None /\ lastFired[v] <= lastFired'[v]
    <2> SUFFICES ASSUME NEW v \in Units, lastFired[v] # None
                 PROVE  lastFired'[v] # None /\ lastFired[v] <= lastFired'[v]
      OBVIOUS
    <2>1. lastFired[v] \in Nat /\ sweep.now \in Nat /\ lastFired[v] <= sweep.now
      BY <1>4, <1>7, CronFacts
    <2>2. lastFired'[v] \in {lastFired[v], sweep.now}
      BY <1>5
    <2>3. QED
      BY <1>4, <2>1, <2>2
  <1>13. CopyIsAFiring'
    <2>1. \A v \in DOMAIN sweep.row : v \in Units
      BY <1>1, SweepFacts DEF SweeperIInv, SweeperTypes
    <2>2. \A v \in DOMAIN sweep.row : sweep.row[v].mark \in Marks
      BY <1>1, SweepFacts, CronFacts DEF SweeperIInv, SweeperTypes
    <2>3. \A v \in DOMAIN sweep.row :
             sweep.row[v].mark # None => FiringIn(lastFired, sweep.row[v].mark, v)
      BY <1>1 DEF SweeperIInv, CopyIsAFiring, IsAFiring, FiringIn
    <2>4. \A v \in DOMAIN sweep.row :
             sweep.row[v].mark # None => FiringIn(lastFired', sweep.row[v].mark, v)
      BY <1>4, <1>5, <1>18, <2>1, <2>2, <2>3, LaterFirings
    <2>5. QED
      BY <1>1, <2>4 DEF CopyIsAFiring, IsAFiring, FiringIn, Namesakes, Key
  <1>14. MarkIsAFiring'
    <2>1. \A v \in Units : /\ durable[Key(v)] \in Marks
                           /\ rows[v] # None => rows[v].mark \in Marks
      BY CronFacts DEF SweeperIInv, SweeperTypes, SweeperTypeOK
    <2>2. \A v \in Units :
             /\ durable[Key(v)] # None => FiringIn(lastFired, durable[Key(v)], v)
             /\ rows[v] # None /\ rows[v].mark # None => FiringIn(lastFired, rows[v].mark, v)
      BY DEF SweeperIInv, MarkIsAFiring, IsAFiring, FiringIn
    <2>3. \A v \in Units :
             /\ durable[Key(v)] # None => FiringIn(lastFired', durable[Key(v)], v)
             /\ rows[v] # None /\ rows[v].mark # None => FiringIn(lastFired', rows[v].mark, v)
      BY <1>4, <1>5, <1>18, <2>1, <2>2, LaterFirings
    <2>4. QED
      BY <1>2, <2>3 DEF MarkIsAFiring, IsAFiring, FiringIn, Namesakes, Key
  <1>15. NotLost'
    <2> SUFFICES ASSUME NEW v \in Units \ forgot', lastFired'[v] # None
                 PROVE  Held(v)'
      BY DEF NotLost
    <2>1. CASE v = u /\ outcome = "fired"
      BY <1>1, <2>1 DEF Held
    <2>2. CASE ~ (v = u /\ outcome = "fired")
      <3>1. lastFired'[v] = lastFired[v] /\ v \notin forgot
        BY <1>3, <1>5, <2>2
      <3>2. Held(v)
        BY <3>1 DEF SweeperIInv, NotLost
      <3>3. \A i \in DOMAIN sweep.done : sweep.done[i] \in {sweep'.done[j] : j \in DOMAIN sweep'.done}
        BY <1>1
      <3>4. QED
        BY <1>1, <1>2, <3>1, <3>2, <3>3 DEF Held, Key, NotBefore
    <2>3. QED
      BY <2>1, <2>2
  <1>16. CopyIsCurrent'
    BY <1>1, <1>3, <1>5 DEF SweeperIInv, CopyIsCurrent, NotBefore
  <1>17. QED
    BY <1>6, <1>9, <1>10, <1>12, <1>13, <1>14, <1>15, <1>16 DEF SweeperIInv

\* The history keeps the newest records.
LEMMA RecordedFacts ==
  ASSUME NEW history \in Seq(RunRecords), NEW run \in RunRecords
  PROVE  Recorded(history, run) \in Seq(RunRecords) /\ Len(Recorded(history, run)) <= HistoryCap
  <1>1. PICK longer \in Seq(RunRecords) : longer = Append(history, run)
    <2>1. Append(history, run) \in Seq(RunRecords)
      OBVIOUS
    <2>2. QED
      BY <2>1
  <1>2. Len(longer) \in Nat \ {0}
    BY <1>1
  <1>3. PICK m \in Nat \ {0} :
           m = IF Len(longer) > HistoryCap THEN Len(longer) - HistoryCap + 1 ELSE 1
    <2>1. PICK cap \in Nat \ {0}, len \in Nat \ {0} : cap = HistoryCap /\ len = Len(longer)
      BY <1>2, CronFacts
    <2>2. (IF len > cap THEN len - cap + 1 ELSE 1) \in Nat \ {0}
      OBVIOUS
    <2>3. QED
      BY <2>1, <2>2
  <1>4. m \in 1 .. Len(longer) + 1 /\ Len(longer) - m + 1 <= HistoryCap
    BY <1>2, <1>3, CronFacts
  <1>5. /\ SubSeq(longer, m, Len(longer)) \in Seq(RunRecords)
        /\ Len(SubSeq(longer, m, Len(longer))) =
             IF m <= Len(longer) THEN Len(longer) - m + 1 ELSE 0
    BY <1>2, <1>4
  <1>6. QED
    BY <1>1, <1>2, <1>3, <1>4, <1>5, CronFacts DEF Recorded

\* The one firing a pass made of a unit.
LEMMA RunOfFacts ==
  ASSUME SweeperIInv, sweep.at = "fire", NEW u \in Ran
  PROVE  /\ u \in Units /\ RunOf(u) \in DOMAIN sweep.done /\ sweep.done[RunOf(u)].unit = u
         /\ sweep.done[RunOf(u)].outcome \in Outcomes
         /\ \A i \in DOMAIN sweep.done : sweep.done[i].unit = u => i = RunOf(u)
  <1>1. \E i \in DOMAIN sweep.done : sweep.done[i].unit = u
    BY DEF Ran
  <1>2. RunOf(u) \in DOMAIN sweep.done /\ sweep.done[RunOf(u)].unit = u
    BY <1>1 DEF RunOf
  <1>3. QED
    BY <1>2, SweepFacts DEF SweeperIInv, SweeperTypes, FiresOnce

LEMMA RecordKeeps == ASSUME SweeperIInv, Record PROVE SweeperIInv'
  <1>1. /\ sweep.at = "fire" /\ sweep.now \in Times /\ sweep.units \subseteq Units
        /\ sweep.now # None
    BY SweepFacts, CronFacts DEF Record, SweeperIInv, SweeperTypes
  <1>2. UNCHANGED <<clock, config, booting, durable, lastFired, lastTry, forgot>>
    BY DEF Record, pastVars
  <1> DEFINE stamped == {u \in Ran : Stamps(sweep.done[RunOf(u)].outcome)}
  <1>3. Ran \subseteq Units
    BY <1>1, RunOfFacts
  <1>4. /\ sweep'.at = "persist" /\ sweep'.now = sweep.now /\ sweep'.marks = stamped
        /\ sweep' \in SweepStates
    BY <1>1, <1>3 DEF Record, SweepStates
  <1>5. \A u \in stamped : u \in Units /\ lastFired[u] = sweep.now
    <2> TAKE u \in stamped
    <2>1. u \in Ran /\ sweep.done[RunOf(u)].outcome = "fired"
      BY DEF Stamps
    <2>2. QED
      BY <1>1, <2>1, RunOfFacts DEF SweeperIInv, CommittedNow
  <1>6. \A u \in Units : [unit |-> u, outcome |-> "fired"] \in {sweep.done[i] : i \in DOMAIN sweep.done}
           => u \in stamped
    <2> SUFFICES ASSUME NEW u \in Units, NEW i \in DOMAIN sweep.done,
                        sweep.done[i] = [unit |-> u, outcome |-> "fired"]
                 PROVE  u \in stamped
      OBVIOUS
    <2>1. sweep.done[i].unit = u /\ sweep.done[i].outcome = "fired"
      OBVIOUS
    <2>2. u \in Ran
      BY <2>1 DEF Ran
    <2>3. i = RunOf(u)
      BY <1>1, <2>1, <2>2, RunOfFacts
    <2>4. QED
      BY <2>1, <2>2, <2>3 DEF Stamps
  <1>7. /\ \A u \in Units : u \in stamped /\ rows[u] # None =>
              rows'[u] = [rows[u] EXCEPT !.mark = sweep.now]
        /\ \A u \in Units : ~ (u \in stamped /\ rows[u] # None) => rows'[u] = rows[u]
        /\ DOMAIN rows' = Units /\ rows' = [u \in Units |-> rows'[u]]
    BY DEF Record
  <1> HIDE DEF stamped
  <1>8. ASSUME NEW u \in Units, u \in stamped, rows[u] # None
        PROVE  rows'[u] \in CronRows /\ rows'[u].mark = sweep.now
    <2>1. rows[u] \in CronRows /\ sweep.now \in Marks
      BY <1>1, <1>8, CronFacts DEF SweeperIInv, SweeperTypes, SweeperTypeOK
    <2>2. PICK r \in CronRows, mark \in Marks : r = rows[u] /\ mark = sweep.now
      BY <2>1
    <2>3. rows'[u] = [r EXCEPT !.mark = mark]
      BY <1>7, <1>8, <2>2
    <2>4. QED
      BY <2>2, <2>3, OtherMark
  <1>9. rows' \in [Units -> CronRows \cup {None}]
    BY <1>7, <1>8 DEF SweeperIInv, SweeperTypes, SweeperTypeOK
  <1>10. /\ runs' \in [Units -> Seq(RunRecords)]
         /\ \A u \in Units : Len(runs'[u]) <= HistoryCap
    <2> DEFINE run(u) == [at |-> sweep.now, outcome |-> sweep.done[RunOf(u)].outcome]
    <2>1. \A u \in Ran : run(u) \in RunRecords
      BY <1>1, RunOfFacts DEF RunRecords
    <2>2. runs \in [Units -> Seq(RunRecords)] /\ \A u \in Units : Len(runs[u]) <= HistoryCap
      BY DEF SweeperIInv, SweeperTypes, SweeperTypeOK
    <2>3. runs' = [u \in Units |-> IF u \in Ran THEN Recorded(runs[u], run(u)) ELSE runs[u]]
      BY DEF Record
    <2> HIDE DEF run
    <2>4. ASSUME NEW u \in Units
          PROVE  runs'[u] \in Seq(RunRecords) /\ Len(runs'[u]) <= HistoryCap
      <3>1. runs[u] \in Seq(RunRecords) /\ Len(runs[u]) <= HistoryCap
        BY <2>2
      <3>2. CASE u \in Ran
        <4>1. PICK r \in RunRecords : r = run(u)
          BY <2>1, <3>2
        <4>2. PICK h \in Seq(RunRecords) : h = runs[u]
          BY <3>1
        <4>3. runs'[u] = Recorded(h, r)
          BY <2>3, <3>2, <4>1, <4>2
        <4>4. QED
          BY <4>3, RecordedFacts
      <3>3. CASE u \notin Ran
        BY <2>3, <3>1, <3>3
      <3>4. QED
        BY <3>2, <3>3
    <2>5. DOMAIN runs' = Units /\ runs' = [u \in Units |-> runs'[u]]
      BY <2>3
    <2>6. QED
      BY <2>4, <2>5
  <1>11. SweeperTypes'
    BY <1>2, <1>4, <1>9, <1>10 DEF SweeperIInv, SweeperTypes, SweeperTypeOK
  <1>12. MarkIsAFiring'
    <2> SUFFICES ASSUME NEW u \in Units
                 PROVE  /\ durable[Key(u)] # None => FiringIn(lastFired, durable[Key(u)], u)
                        /\ rows'[u] # None /\ rows'[u].mark # None =>
                              FiringIn(lastFired, rows'[u].mark, u)
      BY <1>2 DEF MarkIsAFiring, IsAFiring, FiringIn, Namesakes, Key
    <2>1. CASE u \in stamped /\ rows[u] # None
      <3>1. rows'[u].mark = lastFired[u] /\ lastFired[u] = sweep.now /\ sweep.now \in Nat
            /\ lastFired[u] # None
        BY <1>1, <1>5, <1>8, <2>1, CronFacts
      <3>2. FiringIn(lastFired, rows'[u].mark, u)
        BY <3>1 DEF FiringIn, Namesakes
      <3>3. QED
        BY <3>2 DEF SweeperIInv, MarkIsAFiring, IsAFiring, FiringIn
    <2>2. CASE ~ (u \in stamped /\ rows[u] # None)
      BY <1>7, <2>2 DEF SweeperIInv, MarkIsAFiring, IsAFiring, FiringIn
    <2>3. QED
      BY <2>1, <2>2
  <1>13. NotLost'
    <2> SUFFICES ASSUME NEW u \in Units \ forgot, lastFired[u] # None
                 PROVE  Held(u)'
      BY <1>2 DEF NotLost
    <2>1. CASE u \in stamped
      BY <1>4, <2>1 DEF Held
    <2>2. CASE u \notin stamped
      <3>1. Held(u) /\ rows'[u] = rows[u]
        BY <1>7, <2>2 DEF SweeperIInv, NotLost
      <3>2. \/ NotBefore(lastFired[u], durable[Key(u)])
            \/ rows[u] # None /\ NotBefore(lastFired[u], rows[u].mark)
        <4>1. [unit |-> u, outcome |-> "fired"] \notin {sweep.done[i] : i \in DOMAIN sweep.done}
          BY <1>6, <2>2
        <4>2. sweep.at # "persist"
          BY <1>1
        <4>3. QED
          BY <3>1, <4>1, <4>2 DEF Held
      <3>3. QED
        BY <1>2, <3>1, <3>2 DEF Held, Key, NotBefore
    <2>3. QED
      BY <2>1, <2>2
  <1>14. /\ FiringsArePast' /\ PassIsPast' /\ FiresOnce' /\ CopyIsAFiring' /\ CommittedNow'
         /\ CopyIsCurrent'
    BY <1>1, <1>2, <1>4, <1>5 DEF SweeperIInv, FiringsArePast, PassIsPast, FiresOnce,
       CopyIsAFiring, CommittedNow, CopyIsCurrent, IsAFiring, Namesakes, Key
  <1>15. QED
    BY <1>11, <1>12, <1>13, <1>14 DEF SweeperIInv

\* One mark is written, or is given up.
LEMMA MarkDone ==
  ASSUME SweeperIInv, NEW u \in Units, sweep.at = "persist", u \in sweep.marks,
         sweep' = [sweep EXCEPT !.marks = @ \ {u}]
  PROVE  /\ sweep.now \in Times /\ lastFired[u] = sweep.now
         /\ sweep' \in SweepStates /\ sweep'.at = "persist" /\ sweep'.now = sweep.now
         /\ sweep'.marks = sweep.marks \ {u}
  <1>1. sweep \in [at : {"persist"}, now : Times, units : SUBSET Units, marks : SUBSET Units]
    BY DEF SweeperIInv, SweeperTypes, SweepStates, NoSweep
  <1>2. QED
    BY <1>1 DEF SweepStates, SweeperIInv, CommittedNow

LEMMA PersistKeeps == ASSUME SweeperIInv, NEW u \in Units, Persist(u) PROVE SweeperIInv'
  <1>1. /\ sweep.at = "persist" /\ sweep.now \in Times /\ lastFired[u] = sweep.now
        /\ sweep' \in SweepStates /\ sweep'.at = "persist" /\ sweep'.now = sweep.now
        /\ sweep'.marks = sweep.marks \ {u}
    BY MarkDone DEF Persist
  <1>2. UNCHANGED <<clock, rows, runs, config, booting, lastFired, lastTry>>
    BY DEF Persist, rowVars
  <1>3. durable' = [durable EXCEPT ![Key(u)] = sweep.now] /\ forgot' = forgot \ {u}
    BY DEF Persist
  <1>4. /\ durable \in [MarkKeys -> Marks] /\ Key(u) \in MarkKeys
        /\ sweep.now \in Marks /\ sweep.now \in Nat /\ sweep.now # None
    BY <1>1, CronFacts DEF SweeperIInv, SweeperTypes, SweeperTypeOK
  <1>5. durable' \in [MarkKeys -> Marks] /\ durable'[Key(u)] = sweep.now
        /\ \A k \in MarkKeys \ {Key(u)} : durable'[k] = durable[k]
    BY <1>3, <1>4
  <1>6. SweeperTypes'
    BY <1>1, <1>2, <1>3, <1>5 DEF SweeperIInv, SweeperTypes, SweeperTypeOK
  <1>7. MarkIsAFiring'
    <2> SUFFICES ASSUME NEW v \in Units
                 PROVE  /\ durable'[Key(v)] # None => FiringIn(lastFired, durable'[Key(v)], v)
                        /\ rows[v] # None /\ rows[v].mark # None =>
                              FiringIn(lastFired, rows[v].mark, v)
      BY <1>2 DEF MarkIsAFiring, IsAFiring, FiringIn, Namesakes, Key
    <2>1. CASE Key(v) = Key(u)
      <3>1. u \in Namesakes(v) /\ lastFired[u] # None /\ durable'[Key(v)] <= lastFired[u]
        BY <1>1, <1>4, <1>5, <2>1 DEF Namesakes
      <3>2. QED
        BY <3>1 DEF SweeperIInv, MarkIsAFiring, IsAFiring, FiringIn
    <2>2. CASE Key(v) # Key(u)
      BY <1>5, <2>2, CronFacts DEF SweeperIInv, MarkIsAFiring, IsAFiring, FiringIn
    <2>3. QED
      BY <2>1, <2>2
  <1>8. NotLost'
    <2> SUFFICES ASSUME NEW v \in Units \ forgot', lastFired[v] # None
                 PROVE  Held(v)'
      BY <1>2 DEF NotLost
    <2>1. CASE Key(v) = Key(u)
      <3>1. lastFired[v] <= sweep.now
        BY <1>1 DEF SweeperIInv, FiringsArePast
      <3>2. QED
        BY <1>1, <1>2, <1>4, <1>5, <2>1, <3>1 DEF Held, Key, NotBefore
    <2>2. CASE Key(v) # Key(u)
      <3>1. Held(v) /\ v # u
        BY <1>3, <2>2 DEF SweeperIInv, NotLost
      <3>2. durable'[Key(v)] = durable[Key(v)]
        BY <1>5, <2>2, CronFacts
      <3>3. QED
        BY <1>1, <1>2, <3>1, <3>2 DEF Held, Key, NotBefore
    <2>3. QED
      BY <2>1, <2>2
  <1>9. /\ FiringsArePast' /\ PassIsPast' /\ FiresOnce' /\ CopyIsAFiring' /\ CommittedNow'
        /\ CopyIsCurrent'
    BY <1>1, <1>2 DEF SweeperIInv, FiringsArePast, PassIsPast, FiresOnce,
       CopyIsAFiring, CommittedNow, CopyIsCurrent, IsAFiring, Namesakes, Key
  <1>10. QED
    BY <1>6, <1>7, <1>8, <1>9 DEF SweeperIInv

LEMMA PersistFailsKeeps == ASSUME SweeperIInv, NEW u \in Units, PersistFails(u) PROVE SweeperIInv'
  <1>1. /\ sweep.at = "persist" /\ sweep.now \in Times /\ lastFired[u] = sweep.now
        /\ sweep' \in SweepStates /\ sweep'.at = "persist" /\ sweep'.now = sweep.now
        /\ sweep'.marks = sweep.marks \ {u}
    BY MarkDone DEF PersistFails
  <1>2. UNCHANGED <<clock, rows, runs, config, booting, durable, lastFired, lastTry>>
    BY DEF PersistFails, rowVars
  <1>3. /\ forgot \subseteq forgot' /\ forgot' \subseteq Units
        /\ u \notin forgot' => rows[u] # None /\ rows[u].mark = sweep.now
    BY DEF PersistFails, SweeperIInv, SweeperTypes, SweeperTypeOK
  <1>4. SweeperTypes'
    BY <1>1, <1>2, <1>3 DEF SweeperIInv, SweeperTypes, SweeperTypeOK
  <1>5. NotLost'
    <2> SUFFICES ASSUME NEW v \in Units \ forgot', lastFired[v] # None
                 PROVE  Held(v)'
      BY <1>2 DEF NotLost
    <2>1. CASE v = u
      <3>1. rows[u] # None /\ rows[u].mark = lastFired[u]
        BY <1>1, <1>3, <2>1
      <3>2. lastFired[u] \in Marks
        BY DEF SweeperIInv, SweeperTypes, SweeperTypeOK
      <3>3. NotBefore(lastFired[u], rows[u].mark)
        BY <3>1, <3>2, SameMark
      <3>4. QED
        BY <1>2, <2>1, <3>1, <3>3 DEF Held, NotBefore, Key
    <2>2. CASE v # u
      <3>1. Held(v)
        BY <1>3 DEF SweeperIInv, NotLost
      <3>2. QED
        BY <1>1, <1>2, <2>2, <3>1 DEF Held, Key, NotBefore
    <2>3. QED
      BY <2>1, <2>2
  <1>6. /\ FiringsArePast' /\ PassIsPast' /\ FiresOnce' /\ CopyIsAFiring' /\ CommittedNow'
        /\ CopyIsCurrent' /\ MarkIsAFiring'
    BY <1>1, <1>2 DEF SweeperIInv, FiringsArePast, PassIsPast, FiresOnce,
       CopyIsAFiring, CommittedNow, CopyIsCurrent, MarkIsAFiring, IsAFiring, Namesakes, Key
  <1>7. QED
    BY <1>4, <1>5, <1>6 DEF SweeperIInv

LEMMA TickKeeps == ASSUME SweeperIInv, Tick PROVE SweeperIInv'
  <1>1. /\ UNCHANGED <<rows, runs, config, booting, durable, sweep, lastFired, lastTry, forgot>>
        /\ clock' = clock + 1 /\ clock \in Times /\ clock < MaxTime
    BY DEF Tick, rowVars, pastVars, SweeperIInv, SweeperTypes, SweeperTypeOK
  <1>2. clock' \in Times /\ \A t \in Nat : t <= clock => t <= clock'
    BY <1>1, CronFacts DEF Times
  <1>3. SweeperTypes'
    BY <1>1, <1>2 DEF SweeperIInv, SweeperTypes, SweeperTypeOK
  <1>4. /\ sweep.at # "idle" => sweep.now \in Nat
        /\ \A u \in Units : lastFired[u] # None => lastFired[u] \in Nat
    BY SweepFacts, CronFacts DEF SweeperIInv, SweeperTypes, SweeperTypeOK
  <1>5. FiringsArePast' /\ PassIsPast'
    BY <1>1, <1>2, <1>4 DEF SweeperIInv, FiringsArePast, PassIsPast
  <1>6. NotLost'
    BY <1>1 DEF SweeperIInv, NotLost, Held, Key
  <1>7. QED
    BY <1>1, <1>3, <1>5, <1>6 DEF SweeperIInv, FiresOnce, CopyIsAFiring, CommittedNow,
       CopyIsCurrent, MarkIsAFiring, IsAFiring, Namesakes, Key

LEMMA SweeperStep ==
  ASSUME SweeperIInv, [SweeperNext]_sweeperVars
  PROVE  SweeperIInv'
  <1>1. CASE UNCHANGED sweeperVars
    <2>1. UNCHANGED <<clock, rows, runs, config, booting, durable, sweep, lastFired, lastTry, forgot>>
      BY <1>1 DEF sweeperVars, rowVars, pastVars
    <2>2. NotLost' /\ CopyIsCurrent'
      BY <2>1 DEF SweeperIInv, NotLost, Held, CopyIsCurrent, NotBefore, Key
    <2>3. CopyIsAFiring' /\ MarkIsAFiring'
      BY <2>1 DEF SweeperIInv, CopyIsAFiring, MarkIsAFiring, IsAFiring, Namesakes, Key
    <2>4. SweeperTypes'
      BY <2>1 DEF SweeperIInv, SweeperTypes, SweeperTypeOK
    <2>5. QED
      BY <2>1, <2>2, <2>3, <2>4 DEF SweeperIInv, FiringsArePast, PassIsPast, FiresOnce, CommittedNow
  <1>2. CASE Boot
    BY <1>2, ReplayKeeps DEF Boot
  <1>3. CASE SweepStep
    BY <1>3, BeginSweepKeeps, HydrateKeeps, RecordKeeps, EndPassKeeps, PersistKeeps,
       PersistFailsKeeps, FireKeeps DEF SweepStep
  <1>4. ASSUME NEW u \in Units, Remove(u) PROVE SweeperIInv'
    BY <1>4, RemoveKeeps
  <1>5. ASSUME NEW u \in Units, NEW every \in Cadences, Put(u, every) PROVE SweeperIInv'
    BY <1>5, PutKeeps
  <1>6. CASE Tick \/ Crash
    BY <1>6, TickKeeps, CrashKeeps
  <1>7. QED
    BY <1>1, <1>2, <1>3, <1>4, <1>5, <1>6 DEF SweeperNext

\* Whatever is written, removed, replayed or lost meanwhile, a mark the sweeper
\* reads is not after the last committed firing under its durable key: of that
\* very row, where no other row has its key.
THEOREM MarksAreFirings == SweeperSpec => []MarkIsAFiring
  <1>1. SweeperIInv => MarkIsAFiring
    BY DEF SweeperIInv
  <1>2. SweeperIInv /\ [SweeperNext]_sweeperVars => SweeperIInv'
    BY SweeperStep
  <1>3. QED
    BY InitSweeper, <1>1, <1>2, PTL DEF SweeperSpec

\* The rows, their histories, the marks and the pass keep their types; a history
\* never outgrows its cap.
THEOREM SweeperTypeCorrect == SweeperSpec => []SweeperTypeOK
  <1>1. SweeperIInv => SweeperTypeOK
    BY DEF SweeperIInv, SweeperTypes
  <1>2. SweeperIInv /\ [SweeperNext]_sweeperVars => SweeperIInv'
    BY SweeperStep
  <1>3. QED
    BY InitSweeper, <1>1, <1>2, PTL DEF SweeperSpec

\* A step that commits a firing of a unit that fired before, and whose last mark
\* is not lost, comes a period after it.
LEMMA FiresAPeriodApart ==
  ASSUME SweeperIInv, SweeperNext
  PROVE  \A u \in Units :
            lastFired'[u] # lastFired[u] /\ lastFired[u] # None =>
              \/ u \in forgot
              \/ lastFired'[u] >= lastFired[u] + sweep.row[u].every
  <1> SUFFICES ASSUME NEW u \in Units, lastFired'[u] # lastFired[u], lastFired[u] # None,
                      u \notin forgot
               PROVE  lastFired'[u] >= lastFired[u] + sweep.row[u].every
    OBVIOUS
  <1>1. PICK v \in Units, outcome \in Outcomes : Fire(v, outcome)
    BY DEF SweeperNext, Boot, SweepStep, Replay, Put, Remove, BeginSweep, Hydrate, Record,
       EndPass, Persist, PersistFails, Tick, Crash, pastVars
  <1>2. v = u /\ lastFired'[u] = sweep.now
    BY <1>1 DEF Fire, SweeperIInv, SweeperTypes, SweeperTypeOK
  <1>3. sweep.at = "fire" /\ u \in sweep.todo /\ NotBefore(lastFired[u], sweep.row[u].mark)
    BY <1>1, <1>2 DEF Fire, SweeperIInv, CopyIsCurrent
  <1>4. Due(sweep.row[u], sweep.now) /\ u \in DOMAIN sweep.row
    BY <1>3 DEF SweeperIInv, FiresOnce
  <1>5. /\ sweep.row[u].mark # None /\ lastFired[u] <= sweep.row[u].mark
        /\ sweep.row[u].every # Never /\ sweep.now >= sweep.row[u].mark + sweep.row[u].every
    BY <1>3, <1>4 DEF Due, NotBefore
  <1>6. /\ sweep.row[u].mark \in Nat /\ sweep.row[u].every \in Nat
        /\ lastFired[u] \in Nat /\ sweep.now \in Nat
    <2>1. sweep.row[u] \in CronRows /\ sweep.now \in Times
      BY <1>3, <1>4, SweepFacts DEF SweeperIInv, SweeperTypes
    <2>2. lastFired[u] \in Marks
      BY DEF SweeperIInv, SweeperTypes, SweeperTypeOK
    <2>3. QED
      BY <1>5, <2>1, <2>2, CronFacts
  <1>7. QED
    BY <1>2, <1>5, <1>6

\* Two firings of a row that both committed are a period apart, over config
\* writes and restarts, unless its last mark is lost with the only place that
\* held it.
THEOREM OncePerPeriodHolds == SweeperSpec => OncePerPeriod
  <1> DEFINE Apart ==
        \A u \in Units :
          lastFired'[u] # lastFired[u] /\ lastFired[u] # None =>
            \/ u \in forgot
            \/ lastFired'[u] >= lastFired[u] + sweep.row[u].every
  <1>1. SweeperIInv /\ [SweeperNext]_sweeperVars => SweeperIInv'
    BY SweeperStep
  <1>2. SweeperIInv /\ SweeperNext => Apart
    BY FiresAPeriodApart
  <1>3. QED
    BY InitSweeper, <1>1, <1>2, PTL DEF SweeperSpec, OncePerPeriod

\* A step writes a durable mark only for a firing of its own instant, which
\* nothing that is in the store is newer than.
LEMMA StoreMovesOn ==
  ASSUME SweeperIInv, SweeperNext, NEW u \in Units
  PROVE  NotBefore(durable[Key(u)], durable'[Key(u)])
  <1>1. durable \in [MarkKeys -> Marks] /\ durable[Key(u)] \in Marks
    BY CronFacts DEF SweeperIInv, SweeperTypes, SweeperTypeOK
  <1>2. CASE durable'[Key(u)] = durable[Key(u)]
    BY <1>1, <1>2, SameMark
  <1>3. ASSUME NEW v \in Units, Persist(v), durable'[Key(u)] # durable[Key(u)]
        PROVE  NotBefore(durable[Key(u)], durable'[Key(u)])
    <2>1. /\ durable' = [durable EXCEPT ![Key(v)] = sweep.now] /\ sweep.now \in Nat
          /\ sweep.at = "persist"
      BY <1>3, MarkDone, CronFacts DEF Persist
    <2>2. durable'[Key(u)] = sweep.now
      BY <1>1, <1>3, <2>1, CronFacts
    <2>3. durable[Key(u)] # None => durable[Key(u)] \in Nat /\ IsAFiring(durable[Key(u)], u)
      BY <1>1, CronFacts DEF SweeperIInv, MarkIsAFiring
    <2>4. durable[Key(u)] # None => durable[Key(u)] <= sweep.now
      BY <2>1, <2>3, PastFirings
    <2>5. QED
      BY <2>1, <2>2, <2>4, CronFacts DEF NotBefore
  <1>4. durable' = durable \/ \E v \in Units : Persist(v)
    BY DEF SweeperNext, Boot, SweepStep, Replay, Put, Remove, BeginSweep, Hydrate, Fire,
       Record, EndPass, PersistFails, Tick, Crash
  <1>5. QED
    BY <1>2, <1>3, <1>4

\* A step leaves the mark of a row that stays, raises it to that of the pass's
\* copy, or stamps it with a firing of its own instant.
LEMMA RowMovesOn ==
  ASSUME SweeperIInv, SweeperNext, NEW u \in Units, rows[u] # None, rows'[u] # None
  PROVE  NotBefore(rows[u].mark, rows'[u].mark)
  <1>1. rows \in [Units -> CronRows \cup {None}] /\ rows[u].mark \in Marks
    BY CronFacts DEF SweeperIInv, SweeperTypes, SweeperTypeOK
  <1>2. CASE rows'[u].mark = rows[u].mark
    BY <1>1, <1>2, SameMark
  <1>3. ASSUME Hydrate, rows'[u].mark # rows[u].mark
        PROVE  NotBefore(rows[u].mark, rows'[u].mark)
    <2>1. u \in DOMAIN sweep.row /\ u \in sweep.raised
      BY <1>3, SweepFacts DEF Hydrate, SweeperIInv, SweeperTypes
    <2>2. sweep.row[u].mark \in Marks
      BY <1>3, <2>1, SweepFacts, CronFacts DEF Hydrate, SweeperIInv, SweeperTypes
    <2>3. PICK m \in Marks, n \in Marks : m = rows[u].mark /\ n = sweep.row[u].mark
      BY <1>1, <2>2
    <2>4. rows'[u] = [rows[u] EXCEPT !.mark = NewerMark(m, n)]
      BY <1>3, <2>1, <2>3 DEF Hydrate
    <2>5. rows'[u].mark = NewerMark(m, n)
      <3>1. PICK r \in CronRows, mark \in Marks : r = rows[u] /\ mark = NewerMark(m, n)
        BY <1>1, NewerFacts
      <3>2. QED
        BY <2>4, <3>1, OtherMark
    <2>6. NotBefore(m, NewerMark(m, n))
      BY NewerFacts, SameMark
    <2>7. QED
      BY <2>3, <2>5, <2>6
  <1>4. ASSUME Record, rows'[u].mark # rows[u].mark
        PROVE  NotBefore(rows[u].mark, rows'[u].mark)
    <2>1. u \in Ran /\ sweep.done[RunOf(u)].outcome = "fired"
      BY <1>4 DEF Record, Stamps
    <2>2. sweep.at = "fire" /\ sweep.now \in Times
      BY <1>4, SweepFacts DEF Record, SweeperIInv, SweeperTypes
    <2>3. sweep.now \in Nat
      BY <2>2, CronFacts
    <2>4. rows[u].mark # None => rows[u].mark <= sweep.now
      <3>1. rows[u].mark # None => rows[u].mark \in Nat /\ IsAFiring(rows[u].mark, u)
        BY <1>1, CronFacts DEF SweeperIInv, MarkIsAFiring
      <3>2. QED
        BY <2>2, <2>3, <3>1, PastFirings
    <2>5. rows'[u] = [rows[u] EXCEPT !.mark = sweep.now]
      BY <1>4, <2>1 DEF Record, Stamps
    <2>6. PICK r \in CronRows, mark \in Marks : r = rows[u] /\ mark = sweep.now
      BY <1>1, <2>2, CronFacts
    <2>7. rows'[u].mark = sweep.now
      BY <2>5, <2>6, OtherMark
    <2>8. QED
      BY <2>2, <2>4, <2>7, CronFacts DEF NotBefore
  <1>5. ASSUME NEW v \in Units, NEW every, rows' = [rows EXCEPT ![v] = Replacing(v, every)]
        PROVE  rows'[u].mark = rows[u].mark
    BY <1>1, <1>5 DEF Replacing
  <1>6. ASSUME NEW v \in Units, Remove(v)
        PROVE  rows'[u].mark = rows[u].mark
    BY <1>1, <1>6 DEF Remove
  <1>7. ~ Crash
    BY DEF Crash
  <1>8. \/ rows' = rows \/ Hydrate \/ Record \/ Crash
        \/ \E v \in Units : Remove(v)
        \/ \E v \in Units : \E every : rows' = [rows EXCEPT ![v] = Replacing(v, every)]
    BY DEF SweeperNext, Boot, SweepStep, Replay, Put, BeginSweep, Fire, EndPass, Persist,
       PersistFails, Tick, rowVars
  <1>9. QED
    BY <1>2, <1>3, <1>4, <1>5, <1>6, <1>7, <1>8

\* No step takes a mark back, durable or live: a firing that was recorded is
\* never forgotten for an earlier one.
THEOREM MarksMoveOnHolds == SweeperSpec => MarksMoveOn
  <1> DEFINE On ==
        \A u \in Units :
          /\ NotBefore(durable[Key(u)], durable'[Key(u)])
          /\ rows[u] # None /\ rows'[u] # None => NotBefore(rows[u].mark, rows'[u].mark)
  <1>1. SweeperIInv /\ [SweeperNext]_sweeperVars => SweeperIInv'
    BY SweeperStep
  <1>2. SweeperIInv /\ SweeperNext => On
    BY StoreMovesOn, RowMovesOn DEF Key
  <1>3. QED
    BY InitSweeper, <1>1, <1>2, PTL DEF SweeperSpec, MarksMoveOn
=============================================================================

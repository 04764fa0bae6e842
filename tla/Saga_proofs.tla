----------------------------- MODULE Saga_proofs -----------------------------
(***************************************************************************)
(* Proofs about Saga, for every number of legs, every choice of their      *)
(* shapes, both executors and any number of runs, retries and foreign      *)
(* writes.  IInv is the inductive invariant: what landed, was applied and  *)
(* was undone is tied to the leg the run has come to.                      *)
(***************************************************************************)
EXTENDS Saga, TLAPS

Walking == pc \in {"leg", "apply", "settle"}

\* A leg is in the applier's hands only in a run that has not failed yet.
InHand == pc \in {"apply", "settle"} => pos \in Legs /\ ~ failure /\ pos \in intents

\* Nothing has happened yet to the legs ahead of the walk.
Ahead ==
  Walking =>
    /\ compensated = {} /\ undoFailed = {}
    /\ \A l \in Legs : l >= pos =>
         /\ records[l] = "none" /\ l \notin appliedNow
         /\ landed[l] = 0 \/ (pc = "settle" /\ l = pos)

\* What the answer says of the write of the leg in hand: a conflict, which is
\* all that is retried, never wrote.
AnswerIsTrue ==
  pc = "settle" =>
    /\ reply = "ok" => landed[pos] = 1
    /\ reply \in {"conflict", "already"} => landed[pos] = 0

\* What the walk has applied is in the World, once.
AppliedLanded == Walking => \A l \in appliedNow : landed[l] = 1

\* This run's writes are a part of all that is in the World.
OwnIsPart == \A l \in Legs : landed[l] <= effects[l]

\* The legs from the newest down to UndoLeg + 1 are undone, and no others.
Passed(l) == l > UndoLeg
UndoneSoFar ==
  pc = "undo" =>
    /\ failure /\ pos # 0 /\ (mode = "acid" => pos = 1)
    /\ \A l \in appliedNow :
         landed[l] = IF Passed(l) /\ Undoable(l) /\ l \notin undoFailed THEN 0 ELSE 1
    /\ \A l \in undoFailed : Passed(l)
    /\ \A l \in Legs :
         l \in compensated <=> l \in appliedNow /\ Passed(l) /\ Compensable(l)

\* A run that is over compensated nothing or everything it could.
AllOrNothing ==
  pc = "idle" =>
    \/ compensated = {}
    \/ \A l \in appliedNow : Compensable(l) => l \in compensated

IInv ==
  /\ TypeOK /\ InHand /\ Ahead /\ AnswerIsTrue /\ AppliedLanded /\ OwnIsPart
  /\ UndoneSoFar /\ AllOrNothing /\ LandsOncePerRun /\ NoOrphans

-----------------------------------------------------------------------------
LEMMA LegsFacts ==
  /\ LegCount \in Nat /\ ConflictRetries \in Nat /\ MaxRuns \in Nat
  /\ Legs \subseteq Nat \ {0}
  /\ \A l \in Legs : l <= LegCount
  /\ \A n \in Nat \ {0} : n <= LegCount => n \in Legs
  BY SagaConstants DEF Legs

LEMMA InitIInv == Init => IInv
  <1> SUFFICES ASSUME Init PROVE IInv
    OBVIOUS
  <1>1. TypeOK
    <2>1. records \in [Legs -> Hard \cup Success \cup {"none", "skipped"}]
      BY DEF Init
    <2>2. Zero \in [Legs -> Nat]
      BY DEF Zero
    <2>3. plan \in [Legs -> LegShapes]
      BY DEF Init
    <2>4. runs \in 0 .. MaxRuns /\ pos \in 0 .. (LegCount + 1) /\ attempt \in 0 .. ConflictRetries
      BY LegsFacts DEF Init
    <2>5. QED
      BY <2>1, <2>2, <2>3, <2>4 DEF Init, TypeOK
  <1>2. QED
    BY <1>1, LegsFacts DEF Init, IInv, InHand, Ahead, Walking, AnswerIsTrue,
       AppliedLanded, OwnIsPart, UndoneSoFar, AllOrNothing, LandsOncePerRun,
       NoOrphans, Failed, Zero

-----------------------------------------------------------------------------
(* Types.                                                                  *)

LEMMA RecordTypes ==
  ASSUME TypeOK, pos \in Legs, NEW outcome \in Hard \cup Success \cup {"none", "skipped"},
         Record(outcome)
  PROVE  /\ records' \in [Legs -> Hard \cup Success \cup {"none", "skipped"}]
         /\ failure' \in BOOLEAN
         /\ pos' \in 0 .. (LegCount + 1)
         /\ pc' = "leg"
  BY LegsFacts DEF TypeOK, Record

\* Every action keeps the types.
LEMMA TypeStep ==
  ASSUME TypeOK, InHand, AppliedLanded, OwnIsPart, UndoneSoFar, [Next]_vars
  PROVE  TypeOK'
  <1> USE LegsFacts DEF TypeOK, ledger, world, Hard, Success
  <1>1. CASE Start
    <2>1. records' \in [Legs -> Hard \cup Success \cup {"none", "skipped"}]
      BY <1>1 DEF Start
    <2>2. landed' \in [Legs -> Nat]
      BY <1>1 DEF Start, Zero
    <2>3. runs' \in 0 .. MaxRuns /\ pos' \in 0 .. (LegCount + 1)
      BY <1>1 DEF Start
    <2>4. QED
      BY <1>1, <2>1, <2>2, <2>3 DEF Start
  <1>2. CASE PassLeg
    BY <1>2, RecordTypes DEF PassLeg
  <1>3. CASE Intend
    BY <1>3 DEF Intend
  <1>4. CASE Apply
    <2>1. CASE UNCHANGED world
      BY <1>4, <2>1 DEF Apply
    <2>2. CASE Land
      BY <1>4, <2>2 DEF Apply, Land, InHand
    <2>3. QED
      BY <1>4, <2>1, <2>2, Zenon DEF Apply
  <1>5. CASE Rebase
    BY <1>5 DEF Rebase, MayRebase, Attempts, InHand
  <1>6. CASE Settle
    <2>1. pos \in Legs /\ pos \in intents /\ Outcome \in Hard \cup Success \cup {"none", "skipped"}
      BY <1>6 DEF Settle, InHand, Outcome
    <2>2. QED
      BY <1>6, <2>1, RecordTypes DEF Settle
  <1>7. CASE Finish
    BY <1>7 DEF Finish
  <1>8. CASE Compensate
    <2>1. UndoLeg \in Legs
      BY <1>8 DEF Compensate, UndoLeg, Legs
    <2>2. Compensable(UndoLeg) => landed[UndoLeg] = 1 /\ effects[UndoLeg] >= 1
      BY <1>8, <2>1 DEF Compensate, UndoneSoFar, Compensable, Passed, OwnIsPart, UndoLeg
    <2>3. effects' \in [Legs -> Nat] /\ landed' \in [Legs -> Nat] /\ undoFailed' \subseteq Legs
      <3>1. CASE Compensable(UndoLeg)
        <4>1. RunUndo(UndoLeg)
          BY <1>8, <3>1 DEF Compensate
        <4>2. CASE UNCHANGED <<effects, landed>>
          BY <2>1, <4>1, <4>2 DEF RunUndo
        <4>3. CASE /\ effects' = [effects EXCEPT ![UndoLeg] = @ - 1]
                   /\ landed' = [landed EXCEPT ![UndoLeg] = @ - 1]
                   /\ UNCHANGED undoFailed
          BY <2>1, <2>2, <3>1, <4>3
        <4>4. QED
          BY <4>1, <4>2, <4>3 DEF RunUndo
      <3>2. CASE ~ Compensable(UndoLeg)
        BY <1>8, <3>2 DEF Compensate
      <3>3. QED
        BY <3>1, <3>2
    <2>4. compensated' \subseteq Legs
      BY <1>8, <2>1 DEF Compensate
    <2>5. QED
      BY <1>8, <2>3, <2>4 DEF Compensate
  <1>9. CASE Rollback
    BY <1>9 DEF Rollback, OwnIsPart, Zero
  <1>10. CASE Report
    BY <1>10 DEF Report
  <1>11. CASE Crash
    BY <1>11 DEF Crash, OwnIsPart, Zero
  <1>12. CASE \E l \in Legs : ForeignWrite(l)
    BY <1>12 DEF ForeignWrite
  <1>13. CASE UNCHANGED vars
    BY <1>13 DEF vars
  <1>14. QED
    BY <1>1, <1>2, <1>3, <1>4, <1>5, <1>6, <1>7, <1>8, <1>9, <1>10, <1>11,
       <1>12, <1>13 DEF Next

-----------------------------------------------------------------------------
(* The walk and the World.                                                 *)

\* IInv but for the types.
Rest ==
  /\ InHand /\ Ahead /\ AnswerIsTrue /\ AppliedLanded /\ OwnIsPart
  /\ UndoneSoFar /\ AllOrNothing /\ LandsOncePerRun /\ NoOrphans

\* Every action keeps it.
LEMMA RestStep == ASSUME IInv, [Next]_vars, TypeOK' PROVE Rest'
  <1> USE LegsFacts DEF IInv, Rest, TypeOK, ledger, world, Hard, Success, InHand, Ahead, Walking,
       AnswerIsTrue, AppliedLanded, OwnIsPart, UndoneSoFar, AllOrNothing, LandsOncePerRun,
       NoOrphans, Failed
  <1>1. CASE Start
    BY <1>1 DEF Start, Zero
  <1>2. CASE PassLeg
    BY <1>2 DEF PassLeg, Record
  <1>3. CASE Intend
    BY <1>3 DEF Intend
  <1>4. CASE Apply
    BY <1>4 DEF Apply, Land
  <1>5. CASE Rebase
    BY <1>5 DEF Rebase, MayRebase, Attempts
  <1>6. CASE Settle
    BY <1>6 DEF Settle, Record, Outcome
  <1>7. CASE Finish
    <2>1. /\ pc = "leg" /\ pos \notin Legs
          /\ UNCHANGED <<plan, mode, failure, records, appliedNow, compensated, effects, landed,
                        undoFailed>>
      BY <1>7 DEF Finish
    <2>2. CASE failure
      <3>1. pc' = "undo" /\ pos' = 1 /\ UndoLeg' = LegCount
        BY <1>7, <2>2 DEF Finish, UndoLeg
      <3>2. \A l \in Legs : ~ Passed(l)'
        BY <3>1 DEF Passed
      <3>3. QED
        BY <2>1, <2>2, <3>1, <3>2
    <2>3. CASE ~ failure
      <3>1. pc' = "idle"
        BY <1>7, <2>3 DEF Finish
      <3>2. QED
        BY <2>1, <2>3, <3>1
    <2>4. QED
      BY <2>2, <2>3
  <1>8. CASE Compensate
    <2> DEFINE u == UndoLeg
    <2> DEFINE Undone == u \in appliedNow /\ Undoable(u) /\ u \notin undoFailed'
    <2>1. /\ pc = "undo" /\ pc' = "undo" /\ pos' = pos + 1 /\ u \in Legs
          /\ plan' = plan /\ mode' = mode /\ failure' = failure /\ mode = "saga"
          /\ appliedNow' = appliedNow /\ records' = records
      BY <1>8 DEF Compensate, UndoLeg, Legs
    <2>2. /\ UndoLeg' = u - 1
          /\ \A l \in Legs : Passed(l)' <=> Passed(l) \/ l = u
      BY <1>8, <2>1 DEF Compensate, UndoLeg, Passed
    <2>3. /\ \A l \in Legs : Compensable(l)' <=> Compensable(l)
          /\ \A l \in Legs : Undoable(l)' <=> Undoable(l)
      BY <2>1 DEF Compensable, Undoable
    <2>4. ~ Passed(u)
      BY <2>1 DEF Passed
    <2>5. plan[u].undo \in Undos
      BY <2>1, SagaConstants
    <2>6. /\ \A l \in Legs : l # u => landed'[l] = landed[l] /\ effects'[l] = effects[l]
          /\ undoFailed \subseteq undoFailed' /\ undoFailed' \subseteq undoFailed \cup {u}
          /\ Undone => landed'[u] = landed[u] - 1 /\ effects'[u] = effects[u] - 1
          /\ ~ Undone => landed'[u] = landed[u] /\ effects'[u] = effects[u]
      <3>1. CASE Compensable(u)
        <4>1. RunUndo(u)
          BY <1>8, <3>1 DEF Compensate
        <4>2. Compensable(u) /\ plan[u].undo # "manual_reconcile" <=> u \in appliedNow /\ Undoable(u)
          BY <2>5 DEF Compensable, Undoable, Undos
        <4>3. QED
          BY <2>1, <2>4, <3>1, <4>1, <4>2 DEF RunUndo
      <3>2. CASE ~ Compensable(u)
        <4>1. UNCHANGED <<effects, landed, undoFailed>>
          BY <1>8, <3>2 DEF Compensate
        <4>2. ~ (u \in appliedNow /\ Undoable(u))
          BY <3>2 DEF Compensable, Undoable
        <4>3. QED
          BY <4>1, <4>2
      <3>3. QED
        BY <3>1, <3>2
    <2>7. Undoable(u) /\ u \in appliedNow => landed[u] = 1 /\ effects[u] >= 1
      BY <2>1, <2>4
    <2>8. \A l \in Legs : l \in compensated' <=> l \in compensated \/ (l = u /\ Compensable(u))
      BY <1>8, <2>1 DEF Compensate
    <2>9. UndoneSoFar'
      <3>1. \A l \in Legs : l \in appliedNow' =>
              landed'[l] = IF Passed(l)' /\ Undoable(l)' /\ l \notin undoFailed' THEN 0 ELSE 1
        <4> SUFFICES ASSUME NEW l \in Legs, l \in appliedNow
                     PROVE  landed'[l] = IF Passed(l)' /\ Undoable(l)' /\ l \notin undoFailed' THEN 0 ELSE 1
          BY <2>1
        <4>1. CASE l = u
          BY <2>1, <2>2, <2>3, <2>4, <2>6, <2>7, <4>1
        <4>2. CASE l # u
          BY <2>1, <2>2, <2>3, <2>6, <4>2
        <4>3. QED
          BY <4>1, <4>2
      <3>2. \A l \in Legs :
              l \in compensated' <=> l \in appliedNow' /\ Passed(l)' /\ Compensable(l)'
        BY <2>1, <2>2, <2>3, <2>4, <2>8 DEF Compensable
      <3>3. failure' /\ pos' # 0 /\ mode' # "acid" /\ appliedNow' \subseteq Legs
        BY <2>1
      <3>4. \A l \in undoFailed' : Passed(l)'
        BY <2>1, <2>2, <2>6
      <3>5. QED
        BY <3>1, <3>2, <3>3, <3>4
    <2>10. OwnIsPart' /\ LandsOncePerRun'
      <3> SUFFICES ASSUME NEW l \in Legs
                   PROVE  /\ landed'[l] <= effects'[l] /\ landed'[l] <= 1
                          /\ records'[l] = "already" => landed'[l] = 0
        OBVIOUS
      <3>1. CASE l # u \/ ~ Undone
        BY <2>1, <2>6, <3>1
      <3>2. CASE l = u /\ Undone
        BY <2>1, <2>6, <2>7, <3>2
      <3>3. QED
        BY <3>1, <3>2
    <2>11. QED
      BY <2>1, <2>9, <2>10
  <1>9. CASE Rollback
    BY <1>9 DEF Rollback, Zero, Compensable, Passed, UndoLeg
  <1>10. CASE Report
    BY <1>10 DEF Report, UndoLeg, Passed, Compensable, Undoable
  <1>11. CASE Crash
    BY <1>11 DEF Crash, Zero
  <1>12. CASE \E l \in Legs : ForeignWrite(l)
    BY <1>12 DEF ForeignWrite, Compensable, Passed, UndoLeg, Undoable
  <1>13. CASE UNCHANGED vars
    BY <1>13 DEF vars, Compensable, Passed, UndoLeg, Undoable
  <1>14. QED
    BY <1>1, <1>2, <1>3, <1>4, <1>5, <1>6, <1>7, <1>8, <1>9, <1>10, <1>11,
       <1>12, <1>13 DEF Next

-----------------------------------------------------------------------------
LEMMA Invariance == Spec => []IInv
  <1>1. IInv /\ [Next]_vars => IInv'
    BY TypeStep, RestStep DEF IInv, Rest
  <1>2. QED
    BY InitIInv, <1>1, PTL DEF Spec

\* The saga's variables keep their types, whatever the plan, the executor and
\* the bounds.
THEOREM TypeCorrect == Spec => []TypeOK
  BY Invariance, PTL DEF IInv

\* Once a failed saga has reported, of the legs it applied those whose undo exists
\* and worked are out of the World and the others are in it, and every undo there
\* is was asked for, however many of them failed (run_saga's compensation loop).
THEOREM FailedSagaLeavesNone == Spec => []NoOrphans
  BY Invariance, PTL DEF IInv

\* However often a conflict is rebased and retried, a run lands at most one write
\* of a leg, and none of a leg that was sealed before (apply_leg).
THEOREM OneLandingPerRun == Spec => []LandsOncePerRun
  BY Invariance, PTL DEF IInv

\* What is still to be undone was applied before everything already undone: the
\* loop goes through applied_this_run from its end.
THEOREM UndoneNewestFirst == Spec => []ReverseOrder
  <1>1. IInv => ReverseOrder
    <2> SUFFICES ASSUME IInv, NEW i \in compensated, NEW j \in appliedNow \ compensated,
                        Compensable(j)
                 PROVE  j < i
      BY DEF ReverseOrder
    <2>1. i \in Legs /\ j \in Legs
      BY DEF IInv, TypeOK
    <2>2. pc = "undo"
      BY DEF IInv, TypeOK, AllOrNothing, Ahead, Walking
    <2>3. Passed(i) /\ ~ Passed(j)
      BY <2>1, <2>2 DEF IInv, UndoneSoFar
    <2>4. UndoLeg \in Nat
      BY <2>2, LegsFacts DEF IInv, TypeOK, UndoneSoFar, UndoLeg
    <2>5. QED
      BY <2>1, <2>3, <2>4, LegsFacts DEF Passed
  <1>2. QED
    BY Invariance, <1>1, PTL
=============================================================================

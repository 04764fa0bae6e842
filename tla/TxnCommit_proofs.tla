--------------------------- MODULE TxnCommit_proofs ---------------------------
(***************************************************************************)
(* Proofs about TxnCommit, for every number of legs, every choice of their *)
(* shapes and every number of runs.  IInv is the inductive invariant; its  *)
(* conjuncts are named after the argument they carry.                      *)
(***************************************************************************)
EXTENDS TxnCommit, TLAPS

\* A leg is in the driver's hands only in a run that has not failed yet.
InHand == pc \in {"apply", "seal"} => pos \in Legs /\ ~ failure

\* A walk that has not failed left only sealed legs behind.
PrefixSealed ==
    pc # "idle" /\ ~ failure => \A l \in Legs : l < pos => l \in sealed

\* Append-before-apply: nothing is in the World without an intent.
IntentFirst ==
    /\ pc \in {"apply", "seal"} => pos \in intents
    /\ \A l \in Legs : effects[l] > 0 => l \in intents

\* A leg that is not replay-safe reaches the driver only if it never landed.
FreshInsert == pc = "apply" /\ ~ ReplaySafe(pos) => effects[pos] = 0

\* A checked leg that landed finds its own write when it is tried again.
OwnWriteSeen ==
    \A l \in Legs : plan[l].checked /\ effects[l] > 0 => ~ matches[l]

\* An Ok vouches for the effect; a saga has no transaction that undoes it.
OkIsTrue == pc = "seal" /\ reply = "ok" => effects[pos] > 0
SagaKeeps == strategy = "saga" => fresh = {}

\* A run that ended without failure sealed every leg.
CompleteIsSealed == completed => Legs \subseteq sealed

IInv ==
    /\ TypeOK
    /\ InHand /\ PrefixSealed /\ IntentFirst /\ FreshInsert /\ OwnWriteSeen
    /\ OkIsTrue /\ SagaKeeps /\ CompleteIsSealed
    /\ ApplyOnce /\ NoHoles /\ SealedIsHeld /\ ResumeCallsNobody

LEMMA LegsFacts == Legs \subseteq Nat \ {0}
  BY LegsAssumption DEF Legs

LEMMA InitIInv == Init => IInv
  <1> SUFFICES ASSUME Init PROVE IInv
    OBVIOUS
  <1> USE LegsAssumption, RunsAssumption
  <1>1. TypeOK
    <2>1. records \in [Legs -> Outcome \cup {"none"}]
      BY DEF Init
    <2>2. runs \in 0 .. MaxRuns /\ pos \in Nat \ {0}
      BY DEF Init
    <2>3. plan \in [Legs -> LegShapes] /\ effects \in [Legs -> Nat]
      BY DEF Init
    <2>4. matches \in [Legs -> BOOLEAN]
      BY DEF Init
    <2>5. QED
      BY <2>1, <2>2, <2>3, <2>4 DEF Init, TypeOK
  <1>2. QED
    BY <1>1 DEF Init, IInv, InHand, PrefixSealed, IntentFirst, FreshInsert,
       OwnWriteSeen, OkIsTrue, SagaKeeps, CompleteIsSealed, ApplyOnce, NoHoles,
       SealedIsHeld, ResumeCallsNobody

LEMMA RecordTypes ==
    ASSUME TypeOK, pos \in Legs, NEW outcome \in Outcome, Record(outcome)
    PROVE  /\ records' \in [Legs -> Outcome \cup {"none"}]
           /\ failure' \in BOOLEAN
           /\ pos' \in Nat \ {0}
           /\ pc' = "leg"
  BY LegsFacts DEF TypeOK, Record, StopsTheWalk

\* Every action keeps the types.
LEMMA TypeStep == TypeOK /\ InHand /\ [Next]_vars => TypeOK'
  <1> SUFFICES ASSUME TypeOK, InHand, [Next]_vars PROVE TypeOK'
    OBVIOUS
  <1> USE LegsFacts, LegsAssumption, RunsAssumption
      DEF TypeOK, ledgerVars, worldVars, history, Outcome, Hard, Success
  <1>1. CASE Start
    <2>1. records' \in [Legs -> Outcome \cup {"none"}]
      BY <1>1 DEF Start
    <2>2. runs' \in 0 .. MaxRuns /\ pos' \in Nat \ {0}
      BY <1>1 DEF Start
    <2>3. QED
      BY <1>1, <2>1, <2>2 DEF Start
  <1>2. CASE SkipLeg
    BY <1>2, RecordTypes DEF SkipLeg
  <1>3. CASE Refuse
    BY <1>3, RecordTypes DEF Refuse
  <1>4. CASE Intend
    <2>1. pos \in Legs /\ intents' \subseteq Legs
      BY <1>4 DEF Intend
    <2>2. CASE plan[pos].registered
      BY <1>4, <2>1, <2>2 DEF Intend
    <2>3. CASE ~ plan[pos].registered
      BY <1>4, <2>1, <2>3, RecordTypes DEF Intend
    <2>4. QED
      BY <2>2, <2>3
  <1>5. CASE DriverApplies
    <2>1. Written(pos) \in Nat
      BY <1>5 DEF DriverApplies, InHand, Written
    <2>2. CASE UNCHANGED worldVars
      BY <1>5, <2>2 DEF DriverApplies
    <2>3. CASE Land
      <3>1. effects' \in [Legs -> Nat]
        BY <2>1, <2>3 DEF Land
      <3>2. (matches[pos] /\ ~ plan[pos].checked) \in BOOLEAN
        BY Zenon
      <3>3. matches' \in [Legs -> BOOLEAN]
        BY <2>3, <3>2, Zenon DEF Land
      <3>4. fresh' \subseteq Legs
        BY <1>5, <2>3 DEF Land, DriverApplies, InHand
      <3>5. QED
        BY <1>5, <3>1, <3>3, <3>4 DEF DriverApplies
    <2>4. QED
      BY <1>5, <2>2, <2>3, Zenon DEF DriverApplies
  <1>6. CASE Settle
    <2>1. Answered \in Outcome
      BY DEF Answered
    <2>2. pos \in Legs /\ sealed' \subseteq Legs
      BY <1>6 DEF Settle, InHand, Sealed
    <2>3. QED
      BY <1>6, <2>1, <2>2, RecordTypes DEF Settle
  <1>7. CASE Report
    BY <1>7 DEF Report
  <1>8. CASE Rollback
    BY <1>8 DEF Rollback, Undo
  <1>9. CASE Crash
    BY <1>9 DEF Crash, InHand, Undo
  <1>10. CASE \E l \in Legs : ForeignWrite(l)
    BY <1>10 DEF ForeignWrite
  <1>11. CASE UNCHANGED vars
    BY <1>11 DEF vars
  <1>12. QED
    BY <1>1, <1>2, <1>3, <1>4, <1>5, <1>6, <1>7, <1>8, <1>9, <1>10, <1>11
       DEF Next

-----------------------------------------------------------------------------
(* The walk: what the position, the failure flag and the seals have to do  *)
(* with each other.                                                        *)

LEMMA WalkStep ==
    ASSUME TypeOK, InHand, PrefixSealed, [Next]_vars
    PROVE  InHand' /\ PrefixSealed'
  <1> USE LegsFacts DEF TypeOK, InHand, PrefixSealed, ledgerVars, worldVars,
          history
  <1>1. CASE Start
    BY <1>1 DEF Start
  <1>2. CASE SkipLeg
    BY <1>2 DEF SkipLeg, Record
  <1>3. CASE Refuse
    <2>1. /\ pc' = "leg" /\ pos' = pos + 1 /\ sealed' = sealed
          /\ pc = "leg" /\ ~ failure /\ pos \in Legs
      BY <1>3 DEF Refuse, Record
    <2>2. ~ failure' => pos \in sealed
      BY <1>3 DEF Refuse, Record, StopsTheWalk, Hard, AlreadyApplied
    <2>3. QED
      BY <2>1, <2>2
  <1>4. CASE Intend
    <2>1. pc = "leg" /\ ~ failure /\ pos \in Legs /\ sealed' = sealed
      BY <1>4 DEF Intend
    <2>2. CASE plan[pos].registered
      BY <1>4, <2>1, <2>2 DEF Intend
    <2>3. CASE ~ plan[pos].registered
      BY <1>4, <2>1, <2>3 DEF Intend, Record, StopsTheWalk, Hard
    <2>4. QED
      BY <2>2, <2>3
  <1>5. CASE DriverApplies
    BY <1>5 DEF DriverApplies
  <1>6. CASE Settle
    <2>1. /\ pc' = "leg" /\ pos' = pos + 1 /\ pc = "seal"
          /\ ~ failure /\ pos \in Legs /\ sealed \subseteq sealed'
      BY <1>6 DEF Settle, Record, Sealed
    <2>2. ~ failure' => pos \in sealed'
      BY <1>6 DEF Settle, Record, StopsTheWalk, Hard, Answered, Sealed
    <2>3. QED
      BY <2>1, <2>2
  <1>7. CASE Report
    BY <1>7 DEF Report
  <1>8. CASE Rollback
    BY <1>8 DEF Rollback
  <1>9. CASE Crash
    BY <1>9 DEF Crash
  <1>10. CASE \E l \in Legs : ForeignWrite(l)
    BY <1>10 DEF ForeignWrite
  <1>11. CASE UNCHANGED vars
    BY <1>11 DEF vars
  <1>12. QED
    BY <1>1, <1>2, <1>3, <1>4, <1>5, <1>6, <1>7, <1>8, <1>9, <1>10, <1>11
       DEF Next

-----------------------------------------------------------------------------
(* The World: what a step can do to the effects.                           *)

\* No effect appears; the ledger only grows.
Quiet ==
    /\ plan' = plan /\ strategy' = strategy
    /\ \A l \in Legs : effects'[l] = effects[l] \/ effects'[l] = 0
    /\ intents \subseteq intents' /\ sealed \subseteq sealed'

LEMMA QuietSteps ==
    ASSUME TypeOK, InHand, [Next]_vars, ~ DriverApplies
    PROVE  Quiet
  <1> USE DEF TypeOK, InHand, Quiet, ledgerVars, worldVars, history
  <1>1. CASE Start
    BY <1>1 DEF Start
  <1>2. CASE SkipLeg
    BY <1>2 DEF SkipLeg
  <1>3. CASE Refuse
    BY <1>3 DEF Refuse
  <1>4. CASE Intend
    BY <1>4 DEF Intend
  <1>5. CASE Settle
    BY <1>5 DEF Settle, Sealed
  <1>6. CASE Report
    BY <1>6 DEF Report
  <1>7. CASE Rollback
    BY <1>7 DEF Rollback, Undo
  <1>8. CASE Crash
    BY <1>8 DEF Crash, Undo
  <1>9. CASE \E l \in Legs : ForeignWrite(l)
    BY <1>9 DEF ForeignWrite
  <1>10. CASE UNCHANGED vars
    BY <1>10 DEF vars
  <1>11. QED
    BY <1>1, <1>2, <1>3, <1>4, <1>5, <1>6, <1>7, <1>8, <1>9, <1>10 DEF Next

\* What the driver's call may do: nothing to the World, or one write of pos.
LEMMA DriverFacts ==
    ASSUME TypeOK, InHand, DriverApplies
    PROVE  /\ pos \in Legs /\ ~ failure /\ pc = "apply" /\ pc' = "seal"
           /\ plan' = plan /\ strategy' = strategy /\ pos' = pos
           /\ intents' = intents /\ sealed' = sealed
           /\ completed' = completed
           /\ \A l \in Legs \ {pos} : effects'[l] = effects[l]
           /\ \/ UNCHANGED worldVars /\ reply' # "ok"
              \/ /\ Land
                 /\ effects'[pos] = Written(pos)
                 /\ plan[pos].checked => matches[pos]
  <1> USE DEF TypeOK, InHand, ledgerVars, worldVars, history
  <1>1. CASE UNCHANGED worldVars
    BY <1>1 DEF DriverApplies, Land
  <1>2. CASE Land
    <2>1. effects' = [effects EXCEPT ![pos] = Written(pos)]
      BY <1>2 DEF Land
    <2>2. plan[pos].checked => matches[pos] \/ UNCHANGED worldVars
      BY DEF DriverApplies
    <2>3. QED
      BY <1>2, <2>1, <2>2 DEF DriverApplies
  <1>3. QED
    BY <1>1, <1>2 DEF DriverApplies

\* No hole is opened: a write lands at pos only, behind a sealed prefix.
LEMMA NoHolesStep ==
    ASSUME TypeOK, InHand, PrefixSealed, NoHoles, [Next]_vars
    PROVE  NoHoles'
  <1> USE LegsFacts DEF NoHoles
  <1>1. CASE DriverApplies
    <2>1. \A i \in Legs : i < pos => i \in sealed
      BY <1>1, DriverFacts DEF PrefixSealed
    <2>2. QED
      BY <1>1, <2>1, DriverFacts DEF TypeOK
  <1>2. CASE ~ DriverApplies
    BY <1>2, QuietSteps DEF Quiet, TypeOK
  <1>3. QED
    BY <1>1, <1>2

\* No second write: what lands a second time is an upsert or an update, or
\* is refused because it finds the version its first write left.
LEMMA ApplyOnceStep ==
    ASSUME TypeOK, InHand, FreshInsert, OwnWriteSeen, ApplyOnce, [Next]_vars
    PROVE  ApplyOnce'
  <1> SUFFICES ASSUME GuardsReachDriver', NEW l \in Legs
               PROVE  effects'[l] <= 1
    BY DEF ApplyOnce
  <1>1. plan' = plan
    BY QuietSteps, DriverFacts DEF Quiet
  <1>2. effects[l] <= 1 /\ effects[l] \in Nat
    BY <1>1 DEF ApplyOnce, GuardsReachDriver, TypeOK
  <1>3. CASE ~ DriverApplies
    BY <1>2, <1>3, QuietSteps DEF Quiet
  <1>4. CASE DriverApplies /\ l = pos /\ effects'[pos] = Written(pos)
             /\ (plan[pos].checked => matches[pos])
    <2>1. plan[pos].checked => effects[pos] = 0
      BY <1>4 DEF OwnWriteSeen, TypeOK
    <2>2. plan[pos].guarded => plan[pos].checked
      BY <1>1, <1>4 DEF GuardsReachDriver
    <2>3. plan[pos].kind \in {"insert", "call"} => effects[pos] = 0
      BY <1>4, <2>1, <2>2, DriverFacts DEF FreshInsert, ReplaySafe
    <2>4. QED
      BY <1>4, <2>3 DEF Written
  <1>5. CASE DriverApplies /\ (l # pos \/ UNCHANGED worldVars)
    BY <1>2, <1>5, DriverFacts DEF worldVars
  <1>6. QED
    BY <1>3, <1>4, <1>5, DriverFacts

-----------------------------------------------------------------------------
(* The facts the two lemmas above rest on, kept by every step.             *)

\* An intent is recorded before the driver is called, and a leg that is not
\* replay-safe gets there only without one, hence without an effect.
LEMMA IntentStep ==
    ASSUME TypeOK, InHand, IntentFirst, FreshInsert, [Next]_vars
    PROVE  IntentFirst' /\ FreshInsert'
  <1> USE DEF TypeOK, InHand, IntentFirst, FreshInsert, ledgerVars, worldVars,
          history
  <1>1. CASE DriverApplies
    BY <1>1, DriverFacts
  <1>2. ~ DriverApplies =>
            \A l \in Legs : effects'[l] > 0 => l \in intents'
    BY QuietSteps DEF Quiet
  <1>3. CASE Intend
    <2>1. intents' = intents \cup {pos} /\ effects' = effects /\ plan' = plan
          /\ pos \in Legs
      BY <1>3 DEF Intend
    <2>2. pc' = "apply" => pos' = pos
      BY <1>3 DEF Intend, Record
    <2>3. ~ ReplaySafe(pos) => effects[pos] = 0
      BY <1>3, <2>1 DEF Intend, MustNotReplay
    <2>4. pc' \in {"leg", "apply"}
      BY <1>3 DEF Intend, Record
    <2>5. QED
      BY <2>1, <2>2, <2>3, <2>4 DEF ReplaySafe
  <1>4. CASE (\E l \in Legs : ForeignWrite(l)) \/ UNCHANGED vars
    BY <1>4 DEF ForeignWrite, vars, ReplaySafe
  <1>5. CASE Start \/ SkipLeg \/ Refuse \/ Settle \/ Report \/ Rollback \/ Crash
    <2>1. pc' \notin {"apply", "seal"}
      BY <1>5 DEF Start, SkipLeg, Refuse, Settle, Report, Rollback, Crash, Record
    <2>2. ~ DriverApplies
      BY <2>1 DEF DriverApplies
    <2>3. QED
      BY <1>2, <2>1, <2>2
  <1>6. QED
    BY <1>1, <1>3, <1>4, <1>5 DEF Next

\* The version a checked write was conditioned on is gone once it landed, and
\* comes back only with the rollback that undoes it.
LEMMA OwnWriteStep ==
    ASSUME TypeOK, InHand, OwnWriteSeen, [Next]_vars
    PROVE  OwnWriteSeen'
  <1> USE DEF TypeOK, InHand, OwnWriteSeen, ledgerVars, worldVars, history
  <1>1. CASE DriverApplies
    <2>1. CASE UNCHANGED worldVars
      BY <1>1, <2>1, DriverFacts
    <2>2. CASE Land
      <3>1. \A l \in Legs \ {pos} : matches'[l] = matches[l]
        BY <2>2 DEF Land
      <3>2. matches'[pos] = (matches[pos] /\ ~ plan[pos].checked)
        BY <1>1, <2>2, DriverFacts DEF Land
      <3>3. plan[pos].checked => ~ matches'[pos]
        BY <3>2
      <3>4. QED
        BY <1>1, <3>1, <3>3, DriverFacts
    <2>3. QED
      BY <1>1, <2>1, <2>2, DriverFacts
  <1>2. CASE Rollback \/ Crash
    <2>1. Undo /\ plan' = plan
      BY <1>2 DEF Rollback, Crash
    <2>2. ASSUME NEW l \in Legs, plan'[l].checked, effects'[l] > 0
          PROVE  ~ matches'[l]
      <3>1. l \notin fresh /\ effects[l] > 0
        BY <2>1, <2>2 DEF Undo
      <3>2. matches'[l] = (matches[l] \/ (l \in fresh /\ plan[l].checked))
        BY <2>1 DEF Undo
      <3>3. QED
        BY <2>1, <2>2, <3>1, <3>2
    <2>3. QED
      BY <2>2
  <1>3. CASE \E l \in Legs : ForeignWrite(l)
    BY <1>3 DEF ForeignWrite
  <1>4. CASE \/ Start \/ SkipLeg \/ Refuse \/ Intend \/ Settle \/ Report
             \/ UNCHANGED vars
    <2>1. UNCHANGED <<plan, effects, matches>>
      BY <1>4 DEF Start, SkipLeg, Refuse, Intend, Settle, Report, vars
    <2>2. QED
      BY <2>1
  <1>5. QED
    BY <1>1, <1>2, <1>3, <1>4 DEF Next

\* The seal follows the driver's Ok, which follows the write.
LEMMA SealStep ==
    ASSUME TypeOK, InHand, OkIsTrue, SagaKeeps, SealedIsHeld, [Next]_vars
    PROVE  OkIsTrue' /\ SagaKeeps' /\ SealedIsHeld'
  <1> USE DEF TypeOK, InHand, OkIsTrue, SagaKeeps, SealedIsHeld, ledgerVars,
          worldVars, history
  <1>1. CASE DriverApplies
    <2>1. Land => Written(pos) > 0
      BY <1>1, DriverFacts DEF Written
    <2>2. reply' = "ok" => effects'[pos'] > 0
      BY <1>1, <2>1, DriverFacts
    <2>3. strategy = "saga" => fresh' = {}
      BY <1>1, DriverFacts DEF Land
    <2>4. ASSUME strategy = "saga", NEW l \in sealed'
          PROVE  effects'[l] > 0
      BY <1>1, <2>1, <2>4, DriverFacts
    <2>5. QED
      BY <1>1, <2>2, <2>3, <2>4, DriverFacts
  <1>2. CASE Settle
    BY <1>2 DEF Settle, Sealed, Record
  <1>3. CASE Rollback \/ Crash
    BY <1>3 DEF Rollback, Crash, Undo
  <1>4. CASE \E l \in Legs : ForeignWrite(l)
    BY <1>4 DEF ForeignWrite
  <1>5. CASE Start \/ Report
    BY <1>5 DEF Start, Report
  <1>6. CASE SkipLeg \/ Refuse \/ Intend
    BY <1>6 DEF SkipLeg, Refuse, Intend, Record
  <1>7. CASE UNCHANGED vars
    BY <1>7 DEF vars
  <1>8. QED
    BY <1>1, <1>2, <1>3, <1>4, <1>5, <1>6, <1>7 DEF Next

\* A walk that reaches its end without failure sealed every leg.
LEMMA CompleteStep ==
    ASSUME TypeOK, InHand, PrefixSealed, CompleteIsSealed, ResumeCallsNobody,
           [Next]_vars
    PROVE  CompleteIsSealed' /\ ResumeCallsNobody'
  <1> USE DEF TypeOK, InHand, CompleteIsSealed, ResumeCallsNobody, ledgerVars,
          worldVars, history
  <1>1. CASE Report
    <2>1. ASSUME ~ failure PROVE Legs \subseteq sealed
      BY <1>1, <2>1, LegsAssumption DEF Report, PrefixSealed, Legs
    <2>2. QED
      BY <1>1, <2>1 DEF Report
  <1>2. CASE Intend
    BY <1>2 DEF Intend, AlreadyApplied
  <1>3. CASE DriverApplies
    BY <1>3, DriverFacts
  <1>4. CASE Settle
    BY <1>4 DEF Settle, Sealed, Record
  <1>5. CASE Start \/ SkipLeg \/ Refuse \/ Rollback \/ Crash
    BY <1>5 DEF Start, SkipLeg, Refuse, Rollback, Crash, Record
  <1>6. CASE (\E l \in Legs : ForeignWrite(l)) \/ UNCHANGED vars
    BY <1>6 DEF ForeignWrite, vars
  <1>7. QED
    BY <1>1, <1>2, <1>3, <1>4, <1>5, <1>6 DEF Next

-----------------------------------------------------------------------------
\* The inductive invariant holds in every reachable state.
THEOREM Invariance == Spec => []IInv
  <1>1. IInv /\ [Next]_vars => IInv'
    BY TypeStep, WalkStep, NoHolesStep, ApplyOnceStep, IntentStep,
       OwnWriteStep, SealStep, CompleteStep DEF IInv
  <1>2. QED
    BY InitIInv, <1>1, PTL DEF Spec

\* The types of the variables, whatever the number of legs and of runs.
THEOREM TypeCorrect == Spec => []TypeOK
  <1>1. IInv => TypeOK
    BY DEF IInv
  <1>2. QED
    BY Invariance, <1>1, PTL

\* Apply-once: re-running a plan over crashes and lost answers never puts an
\* effect in the World a second time (apply_txn_leg's resume gate).
THEOREM AppliedOnce == Spec => []ApplyOnce
  <1>1. IInv => ApplyOnce
    BY DEF IInv
  <1>2. QED
    BY Invariance, <1>1, PTL

\* The walk never writes past an unsealed leg, in this run or a later one.
THEOREM NoHoleOpens == Spec => []NoHoles
  <1>1. IInv => NoHoles
    BY DEF IInv
  <1>2. QED
    BY Invariance, <1>1, PTL

\* On the saga strategy the ledger's seals are all true of the World.
THEOREM SealsAreTrue == Spec => []SealedIsHeld
  <1>1. IInv => SealedIsHeld
    BY DEF IInv
  <1>2. QED
    BY Invariance, <1>1, PTL

\* After a clean run no later run of the plan calls a driver.
THEOREM ResumeIsNoOp == Spec => []ResumeCallsNobody
  <1>1. IInv => ResumeCallsNobody
    BY DEF IInv
  <1>2. QED
    BY Invariance, <1>1, PTL
===============================================================================

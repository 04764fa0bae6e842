-------------------------------- MODULE Saga --------------------------------
(***************************************************************************)
(* SagaExecutor (txn/src/saga.rs): run_saga and run_acid over the ledger   *)
(* that TxnCommit also uses, with the bounded retry of a conflict and the  *)
(* compensation, in reverse, of the legs a failed run applied.  The        *)
(* LegApplier behind it is external: it compares the version of the leg's  *)
(* target with the precondition, writes or refuses, and undoes on request, *)
(* as best it can: compensate returns nothing, and its default does        *)
(* nothing.                                                                *)
(***************************************************************************)
EXTENDS Naturals

CONSTANTS
  LegCount,         \* the legs are 1 .. LegCount, in saga order
  LegShapes,        \* the shapes a leg may have
  Modes,            \* the executors considered: run_saga, run_acid
  ConflictRetries,  \* SagaPolicy.conflict_retries
  MaxRuns,          \* bound on the runs over one ledger
  MaxForeign        \* bound on the versions other writers reach

Legs == 1..LegCount
Undos == {"none", "delete_created", "restore_version", "manual_reconcile"}

ASSUME SagaConstants ==
  /\ LegCount \in Nat /\ ConflictRetries \in Nat
  /\ MaxRuns \in Nat /\ MaxForeign \in Nat
  /\ Modes \subseteq {"saga", "acid"}
  /\ LegShapes \subseteq [irreversible : BOOLEAN, conditional : BOOLEAN, undo : Undos]

VARIABLES
  plan, mode,       \* each leg's shape; "saga" or "acid"
  runs, pc, pos,    \* runs begun, where the run stands, its leg
  attempt,          \* conflict retries spent on this leg
  expected,         \* the version the leg's precondition now names
  failure,          \* failure_at is set
  records,          \* the run's outcome of each leg
  intents, sealed,  \* the ledger
  reply,            \* what the applier answered
  appliedNow,       \* applied_this_run
  compensated,      \* the report's compensated legs
  effects,          \* the World: copies of each leg's write
  version,          \* the World: the version of each leg's target
  landed,           \* history: writes of each leg that landed in this run
  undoFailed        \* history: legs whose undo, asked for in this run, left the write

ledger == <<intents, sealed>>
world == <<effects, version, landed, undoFailed>>
vars == <<plan, mode, runs, pc, pos, attempt, expected, failure, records,
          ledger, reply, appliedNow, compensated, world>>

Hard == {"failed", "conflict"}
Success == {"applied", "already"}
Zero == [l \in Legs |-> 0]

TypeOK ==
  /\ plan \in [Legs -> LegShapes] /\ mode \in Modes
  /\ runs \in 0..MaxRuns
  /\ pc \in {"idle", "leg", "apply", "settle", "undo"}
  /\ pos \in 0..(LegCount + 1)
  /\ attempt \in 0..ConflictRetries
  /\ expected \in Nat /\ failure \in BOOLEAN
  /\ records \in [Legs -> Hard \cup Success \cup {"none", "skipped"}]
  /\ intents \subseteq Legs /\ sealed \subseteq intents
  /\ reply \in {"none", "ok", "conflict", "failed", "already"}
  /\ appliedNow \subseteq Legs /\ compensated \subseteq Legs
  /\ effects \in [Legs -> Nat] /\ version \in [Legs -> Nat]
  /\ landed \in [Legs -> Nat] /\ undoFailed \subseteq Legs

Init ==
  /\ plan \in [Legs -> LegShapes] /\ mode \in Modes
  /\ runs = 0 /\ pc = "idle" /\ pos = 1
  /\ attempt = 0 /\ expected = 0 /\ failure = FALSE
  /\ records = [l \in Legs |-> "none"]
  /\ intents = {} /\ sealed = {} /\ reply = "none"
  /\ appliedNow = {} /\ compensated = {}
  /\ effects = Zero /\ version = Zero /\ landed = Zero /\ undoFailed = {}
-----------------------------------------------------------------------------
Start ==
  /\ pc = "idle" /\ runs < MaxRuns
  /\ runs' = runs + 1 /\ pc' = "leg" /\ pos' = 1
  /\ failure' = FALSE /\ records' = [l \in Legs |-> "none"]
  /\ appliedNow' = {} /\ compensated' = {} /\ landed' = Zero /\ undoFailed' = {}
  /\ UNCHANGED <<plan, mode, attempt, expected, ledger, reply, effects, version>>

Record(outcome) ==
  /\ records' = [records EXCEPT ![pos] = outcome]
  /\ failure' = (failure \/ outcome \in Hard)
  /\ pos' = pos + 1 /\ pc' = "leg"

\* After a hard failure a leg is skipped; a sealed one is not applied again.
PassLeg ==
  /\ pc = "leg" /\ pos \in Legs
  /\ \/ failure /\ Record("skipped")
     \/ ~failure /\ pos \in sealed /\ Record("already")
  /\ UNCHANGED <<plan, mode, runs, attempt, expected, ledger, reply, appliedNow,
                 compensated, world>>

\* record_intent; the precondition is the one the leg was built with.
Intend ==
  /\ pc = "leg" /\ pos \in Legs
  /\ ~failure /\ pos \notin sealed
  /\ intents' = intents \cup {pos}
  /\ attempt' = 0 /\ expected' = 0 /\ pc' = "apply"
  /\ UNCHANGED <<plan, mode, runs, pos, failure, records, sealed, reply, appliedNow,
                 compensated, world>>

Stale == plan[pos].conditional /\ version[pos] # expected

Land ==
  /\ effects' = [effects EXCEPT ![pos] = @ + 1]
  /\ version' = [version EXCEPT ![pos] = @ + 1]
  /\ landed' = [landed EXCEPT ![pos] = @ + 1]
  /\ UNCHANGED undoFailed

\* The applier: a conflict, a write, or a failure before or after the write (an
\* Indeterminate is one as well: both are hard, neither is retried), or its own
\* finding that the effect is already there.
Apply ==
  /\ pc = "apply" /\ pc' = "settle"
  /\ \/ Stale /\ reply' = "conflict" /\ UNCHANGED world
     \/ ~Stale /\ reply' \in {"ok", "failed"} /\ Land
     \/ ~Stale /\ reply' = "failed" /\ UNCHANGED world
     \/ effects[pos] > 0 /\ reply' = "already" /\ UNCHANGED world
  /\ UNCHANGED <<plan, mode, runs, pos, attempt, expected, failure, records, ledger,
                 appliedNow, compensated>>

\* An irreversible leg surfaces its first conflict.
Attempts == IF plan[pos].irreversible THEN 0 ELSE ConflictRetries
\* Mutant: a retry of any failure.
MayRebase_AnyFailure == reply \in {"conflict", "failed"} /\ attempt < Attempts
MayRebase == reply = "conflict" /\ attempt < Attempts

\* The retry's precondition is the version the World holds.
Rebase ==
  /\ pc = "settle" /\ MayRebase
  /\ attempt' = attempt + 1
  /\ expected' = version[pos]
  /\ pc' = "apply" /\ reply' = "none"
  /\ UNCHANGED <<plan, mode, runs, pos, failure, records, ledger, appliedNow,
                 compensated, world>>

Outcome == IF reply = "ok" THEN "applied" ELSE reply
Settle ==
  /\ pc = "settle" /\ ~MayRebase
  /\ sealed' = IF reply = "ok" THEN sealed \cup {pos} ELSE sealed
  /\ appliedNow' = IF reply = "ok" THEN appliedNow \cup {pos} ELSE appliedNow
  /\ Record(Outcome)
  /\ reply' = "none"
  /\ UNCHANGED <<plan, mode, runs, attempt, expected, intents, compensated, world>>

\* All legs have a record: compensate after a failure, from the last leg back.
Finish ==
  /\ pc = "leg" /\ pos \notin Legs
  /\ IF failure THEN pc' = "undo" /\ pos' = 1 ELSE pc' = "idle" /\ UNCHANGED pos
  /\ UNCHANGED <<plan, mode, runs, attempt, expected, failure, records, ledger, reply,
                 appliedNow, compensated, world>>

\* Mutant: irreversible legs too.
Compensable_All(l) == l \in appliedNow /\ plan[l].undo # "none"
Compensable(l) == l \in appliedNow /\ ~plan[l].irreversible /\ plan[l].undo # "none"

\* The undo a compensation names can be carried out; a reconciliation is a
\* human's task.
Undoable(l) == ~plan[l].irreversible /\ plan[l].undo \in {"delete_created", "restore_version"}

\* What the applier does with a compensation: the undo, or nothing, because it
\* failed or because the applier has none.
RunUndo(l) ==
  \/ /\ plan[l].undo # "manual_reconcile"
     /\ effects' = [effects EXCEPT ![l] = @ - 1]
     /\ landed' = [landed EXCEPT ![l] = @ - 1]
     /\ UNCHANGED undoFailed
  \/ undoFailed' = undoFailed \cup {l} /\ UNCHANGED <<effects, landed>>

\* Newest first; the leg is reported compensated whatever came of its undo.
UndoLeg == LegCount + 1 - pos
Compensate ==
  /\ pc = "undo" /\ mode = "saga" /\ pos \in Legs
  /\ IF Compensable(UndoLeg)
       THEN RunUndo(UndoLeg) /\ compensated' = compensated \cup {UndoLeg}
       ELSE UNCHANGED <<effects, landed, undoFailed, compensated>>
  /\ pos' = pos + 1
  /\ UNCHANGED <<plan, mode, runs, pc, attempt, expected, failure, records, ledger, reply,
                 appliedNow, version>>

\* run_acid compensates nothing: its caller rolls the transaction back, and with
\* it every write of this run.
Rollback ==
  /\ pc = "undo" /\ mode = "acid"
  /\ effects' = [l \in Legs |-> effects[l] - landed[l]]
  /\ landed' = Zero
  /\ pc' = "idle"
  /\ UNCHANGED <<plan, mode, runs, pos, attempt, expected, failure, records, ledger, reply,
                 appliedNow, compensated, version, undoFailed>>

Report ==
  /\ pc = "undo" /\ mode = "saga" /\ pos \notin Legs
  /\ pc' = "idle"
  /\ UNCHANGED <<plan, mode, runs, pos, attempt, expected, failure, records, ledger, reply,
                 appliedNow, compensated, world>>

\* The process dies; the open transaction of an ACID run dies with it.
Crash ==
  /\ pc # "idle" /\ pc' = "idle"
  /\ effects' = [l \in Legs |-> IF mode = "acid" THEN effects[l] - landed[l] ELSE effects[l]]
  /\ landed' = Zero
  /\ failure' = TRUE /\ reply' = "none"
  /\ records' = [l \in Legs |-> "none"]
  /\ appliedNow' = {} /\ compensated' = {} /\ undoFailed' = {}
  /\ UNCHANGED <<plan, mode, runs, pos, attempt, expected, ledger, version>>

ForeignWrite(l) ==
  /\ plan[l].conditional /\ version[l] < MaxForeign
  /\ version' = [version EXCEPT ![l] = @ + 1]
  /\ UNCHANGED <<plan, mode, runs, pc, pos, attempt, expected, failure, records, ledger,
                 reply, appliedNow, compensated, effects, landed, undoFailed>>

Next ==
  \/ Start \/ PassLeg \/ Intend \/ Apply \/ Rebase \/ Settle \/ Finish
  \/ Compensate \/ Rollback \/ Report \/ Crash
  \/ \E l \in Legs : ForeignWrite(l)
Spec == Init /\ [][Next]_vars
-----------------------------------------------------------------------------
(* properties *)

Failed == pc = "idle" /\ failure /\ runs > 0

\* No silent orphan: once a failed saga has reported, a leg it had applied is out
\* of the World if it has an undo and that undo did not fail, and is in the World
\* otherwise; and the undo that failed stopped no older one from being asked for.
NoOrphans ==
  Failed /\ mode = "saga" =>
    \A l \in appliedNow :
      /\ landed[l] = IF Undoable(l) /\ l \notin undoFailed THEN 0 ELSE 1
      /\ Undoable(l) => l \in compensated

\* "a failed compensation is recorded by the caller" (leg.rs): what the report
\* lists as compensated is out of the World.
CompensatedIsUndone ==
  Failed /\ mode = "saga" => \A l \in compensated : Undoable(l) => landed[l] = 0

\* Reverse order: while a saga compensates, whatever is still to be undone was
\* applied before everything already undone.
ReverseOrder ==
  \A i \in compensated, j \in appliedNow \ compensated : Compensable(j) => j < i

\* However often a conflict is rebased and retried, one run lands one write of a
\* leg, and a leg that was sealed before the run lands none.
LandsOncePerRun ==
  \A l \in Legs : landed[l] <= 1 /\ (records[l] = "already" => landed[l] = 0)

\* "an intent with no matching applied is a leg that may have partially landed
\* and must be reconciled on resume" (ledger.rs): it is not written twice.
AppliedOnceAcrossRuns == \A l \in Legs : effects[l] <= 1

\* "both a fresh apply and an AlreadyApplied no-op mean the world holds the
\* effect" (outcome.rs).
SuccessIsHeld ==
  pc = "idle" /\ ~failure =>
    \A l \in Legs : records[l] \in Success => effects[l] > 0
=============================================================================

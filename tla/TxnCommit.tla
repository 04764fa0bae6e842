------------------------------ MODULE TxnCommit ------------------------------
(***************************************************************************)
(* The transactional COMMIT of crates/runtime/src/txn.rs (commit_txn and   *)
(* apply_txn_leg) over the AuditLedger of crates/txn/src/ledger.rs: the    *)
(* write legs of a plan are applied one by one in topological order, each  *)
(* bracketed by record_intent and mark_applied.  The same plan is run      *)
(* again over the same ledger after a failure, a crash or a success.       *)
(*                                                                         *)
(* The ledger is external, behind the trait AuditLedger: it survives Crash *)
(* as the trait's documentation wants of it.  The one implementation there *)
(* is, InMemoryLedger, dies with its process, so today a crash here is a   *)
(* commit future that is dropped and a run is another call in the process. *)
(* External are also the driver and the transaction it keeps for an ACID   *)
(* commit: the driver is handed an EffectInput, which has no precondition  *)
(* in it, so it refuses a stale write only if the effect's own arguments   *)
(* carry the version (checked), whatever precondition the caller gave the  *)
(* leg (guarded).                                                          *)
(***************************************************************************)
EXTENDS Naturals

CONSTANTS
    LegCount,   \* the write legs are 1 .. LegCount, in topological order
    LegShapes,  \* the shapes a leg may have
    MaxRuns     \* bound on the number of runs of the plan

ASSUME LegsAssumption == LegCount \in Nat
ASSUME RunsAssumption == MaxRuns \in Nat

Legs == 1 .. LegCount

Kinds == {"insert", "upsert", "update", "remove", "call"}
ASSUME ShapesAssumption ==
    LegShapes \subseteq [kind : Kinds, guarded : BOOLEAN, checked : BOOLEAN,
                         permitted : BOOLEAN, registered : BOOLEAN]

VARIABLES
    plan,        \* the shape of each leg
    strategy,    \* "acid" or "saga", from select_strategy
    runs,        \* runs begun
    pc,          \* where the current run stands
    pos,         \* the leg the run is at
    failure,     \* commit_txn's failure flag
    records,     \* the run's outcome of each leg
    intents,     \* ledger: keys with a recorded intent
    sealed,      \* ledger: keys marked applied
    reply,       \* what the driver answered for the leg at pos
    effects,     \* the World: how often the leg's effect is present
    matches,     \* the World: the target still has the version that was read
    fresh,       \* legs written under the transaction that is still open
    cut,         \* history: legs whose apply a crash interrupted
    completed    \* history: some run ended without a failure

ledgerVars == <<intents, sealed>>
worldVars  == <<effects, matches, fresh>>
history    == <<cut, completed>>
vars == <<plan, strategy, runs, pc, pos, failure, records, ledgerVars, reply,
          worldVars, history>>

Hard    == {"failed", "conflict", "indeterminate"}
Success == {"applied", "already"}
Outcome == Hard \cup Success \cup {"skipped"}

TypeOK ==
    /\ plan \in [Legs -> LegShapes]
    /\ strategy \in {"acid", "saga"}
    /\ runs \in 0 .. MaxRuns
    /\ pc \in {"idle", "leg", "apply", "seal", "rollback"}
    /\ pos \in Nat \ {0}
    /\ failure \in BOOLEAN
    /\ records \in [Legs -> Outcome \cup {"none"}]
    /\ intents \subseteq Legs
    /\ sealed \subseteq Legs
    /\ reply \in {"none", "ok", "conflict", "failed"}
    /\ effects \in [Legs -> Nat]
    /\ matches \in [Legs -> BOOLEAN]
    /\ fresh \subseteq Legs
    /\ cut \subseteq Legs
    /\ completed \in BOOLEAN

\* An ACID plan has one write source, registered or not for all legs alike.
StrategyFits(p, s) ==
    s = "acid" => \A i, j \in Legs : p[i].registered = p[j].registered

Init ==
    /\ plan \in [Legs -> LegShapes]
    /\ strategy \in {"acid", "saga"}
    /\ StrategyFits(plan, strategy)
    /\ runs = 0
    /\ pc = "idle" /\ pos = 1 /\ failure = FALSE
    /\ records = [l \in Legs |-> "none"]
    /\ intents = {} /\ sealed = {}
    /\ reply = "none"
    /\ effects = [l \in Legs |-> 0]
    /\ matches = [l \in Legs |-> TRUE]
    /\ fresh = {}
    /\ cut = {} /\ completed = FALSE

-----------------------------------------------------------------------------
\* Whether re-applying a leg whose outcome is unknown is safe: an UPSERT, or a
\* conditional write that would find its own earlier write as a conflict.
ReplaySafe(l) == plan[l].kind = "upsert" \/ plan[l].guarded

\* Mutant of MustNotReplay: the crash-window gate is missing.
MustNotReplay_Off(l) == FALSE
MustNotReplay(l) == l \in intents /\ ~ ReplaySafe(l)

\* Mutant of AlreadyApplied: no dedup.
AlreadyApplied_Never(l)  == FALSE
AlreadyApplied(l)        == l \in sealed

\* A fresh call of commit_txn over the surviving ledger.
Start ==
    /\ pc = "idle"
    /\ runs < MaxRuns
    /\ runs' = runs + 1
    /\ pc' = "leg" /\ pos' = 1 /\ failure' = FALSE
    /\ records' = [l \in Legs |-> "none"]
    /\ reply' = "none"
    /\ fresh' = {}
    /\ UNCHANGED <<plan, strategy, ledgerVars, effects, matches, history>>

\* Mutant of StopsTheWalk: an indeterminate leg does not stop the walk.
StopsTheWalk_Definite(outcome) == outcome \in {"failed", "conflict"}
StopsTheWalk(outcome)          == outcome \in Hard

\* The leg at pos gets its outcome; the walk moves on.
Record(outcome) ==
    /\ records' = [records EXCEPT ![pos] = outcome]
    /\ failure' = (failure \/ StopsTheWalk(outcome))
    /\ pos' = pos + 1
    /\ pc' = "leg"

\* After a hard failure the remaining legs are recorded, not attempted.
SkipLeg ==
    /\ pc = "leg" /\ pos \in Legs
    /\ failure
    /\ Record("skipped")
    /\ UNCHANGED <<plan, strategy, runs, ledgerVars, reply, worldVars, history>>

\* The ledger and the capabilities decide before anything is written.
Refuse ==
    /\ pc = "leg" /\ pos \in Legs
    /\ ~ failure
    /\ \/ AlreadyApplied(pos) /\ Record("already")
       \/ ~ AlreadyApplied(pos) /\ MustNotReplay(pos) /\ Record("indeterminate")
       \/ /\ ~ AlreadyApplied(pos) /\ ~ MustNotReplay(pos)
          /\ ~ plan[pos].permitted
          /\ Record("failed")
    /\ UNCHANGED <<plan, strategy, runs, ledgerVars, reply, worldVars, history>>

\* record_intent, then the driver, or a failure when none is registered.
Intend ==
    /\ pc = "leg" /\ pos \in Legs
    /\ ~ failure
    /\ ~ AlreadyApplied(pos) /\ ~ MustNotReplay(pos) /\ plan[pos].permitted
    /\ intents' = intents \cup {pos}
    /\ IF plan[pos].registered
       THEN pc' = "apply" /\ UNCHANGED <<pos, failure, records>>
       ELSE Record("failed")
    /\ UNCHANGED <<plan, strategy, runs, sealed, reply, worldVars, history>>

-----------------------------------------------------------------------------
(* The World behind the driver (external).                                 *)

\* An insert or a call adds an effect; an upsert, an update or a remove leaves one,
\* whatever was there.
Written(l) == IF plan[l].kind \in {"insert", "call"} THEN effects[l] + 1 ELSE 1

\* The write lands: a checked one moves the version it was conditioned on.
Land ==
    /\ effects' = [effects EXCEPT ![pos] = Written(pos)]
    /\ matches' = [matches EXCEPT ![pos] = @ /\ ~ plan[pos].checked]
    /\ fresh' = IF strategy = "acid" /\ effects[pos] = 0
                THEN fresh \cup {pos} ELSE fresh

\* A checked write whose version moved is refused with the conflict; any write
\* may fail cleanly, or fail in transit after it landed.
DriverApplies ==
    /\ pc = "apply"
    /\ pc' = "seal"
    /\ IF plan[pos].checked /\ ~ matches[pos]
       THEN reply' = "conflict" /\ UNCHANGED worldVars
       ELSE \/ reply' = "ok"     /\ Land
            \/ reply' = "failed" /\ Land
            \/ reply' = "failed" /\ UNCHANGED worldVars
    /\ UNCHANGED <<plan, strategy, runs, pos, failure, records, ledgerVars,
                   history>>

\* Someone else writes the target the leg is conditioned on.
ForeignWrite(l) ==
    /\ plan[l].checked /\ matches[l]
    /\ matches' = [matches EXCEPT ![l] = FALSE]
    /\ UNCHANGED <<plan, strategy, runs, pc, pos, failure, records, ledgerVars,
                   reply, effects, fresh, history>>

-----------------------------------------------------------------------------
\* Mutant of Sealed: whatever the driver answered.
Sealed_Always == sealed \cup {pos}

\* mark_applied seals the leg only on the driver's Ok.
Sealed == IF reply = "ok" THEN sealed \cup {pos} ELSE sealed

\* The driver's answer becomes the leg's outcome; a conflict on a leg that has
\* no precondition is a plain failure (map_effect_error).
Answered == IF reply = "ok" THEN "applied"
            ELSE IF reply = "conflict" /\ plan[pos].guarded THEN "conflict"
            ELSE "failed"

Settle ==
    /\ pc = "seal"
    /\ sealed' = Sealed
    /\ Record(Answered)
    /\ reply' = "none"
    /\ UNCHANGED <<plan, strategy, runs, intents, worldVars, history>>

\* The report: clean, or failed, and then rolled back on the ACID strategy.
Report ==
    /\ pc = "leg" /\ pos \notin Legs
    /\ IF failure /\ strategy = "acid"
       THEN pc' = "rollback" /\ UNCHANGED fresh
       ELSE pc' = "idle" /\ fresh' = {}
    /\ completed' = (completed \/ ~ failure)
    /\ UNCHANGED <<plan, strategy, runs, pos, failure, records, ledgerVars,
                   reply, effects, matches, cut>>

\* What the open transaction wrote is gone; a checked row has its version back.
Undo ==
    /\ effects' = [l \in Legs |-> IF l \in fresh THEN 0 ELSE effects[l]]
    /\ matches' = [l \in Legs |-> matches[l] \/ (l \in fresh /\ plan[l].checked)]
    /\ fresh' = {}

\* The caller issues the ROLLBACK the report's rolled_back flag asks for.
Rollback ==
    /\ pc = "rollback"
    /\ Undo
    /\ pc' = "idle"
    /\ UNCHANGED <<plan, strategy, runs, pos, failure, records, ledgerVars,
                   reply, history>>

\* The commit future is dropped, or the process dies and the ledger does not.  A
\* database drops the transaction nobody committed.
Crash ==
    /\ pc # "idle"
    /\ pc' = "idle"
    /\ Undo
    /\ cut' = IF pc \in {"apply", "seal"} THEN cut \cup {pos} ELSE cut
    /\ failure' = TRUE
    /\ reply' = "none"
    /\ records' = [l \in Legs |-> "none"]
    /\ UNCHANGED <<plan, strategy, runs, pos, ledgerVars, completed>>

Next ==
    \/ Start \/ SkipLeg \/ Refuse \/ Intend \/ DriverApplies \/ Settle
    \/ Report \/ Rollback \/ Crash
    \/ \E l \in Legs : ForeignWrite(l)

Spec == Init /\ [][Next]_vars

-----------------------------------------------------------------------------
(* Properties.                                                             *)

\* A caller who conditions a leg on a version also put it in its arguments.
GuardsReachDriver == \A l \in Legs : plan[l].guarded => plan[l].checked

\* No leg's effect is in the World twice, however often the plan is re-run
\* over crashes and lost answers (the apply-once of apply_txn_leg's gate), as
\* long as the driver sees the precondition the gate relies on.
ApplyOnce == GuardsReachDriver => \A l \in Legs : effects[l] <= 1

\* Nothing past an unsealed leg was ever written: a later leg's effect is in
\* the World only if every earlier leg is sealed in the ledger, across runs.
NoHoles ==
    \A i, j \in Legs : i < j /\ effects[j] > 0 => i \in sealed

\* Outside of an ACID rollback the ledger never claims too much: what is
\* sealed is in the World, so a resumed run may skip it.
SealedIsHeld ==
    strategy = "saga" => \A l \in sealed : effects[l] > 0

\* Once a run ended without failure, running the plan again, crashing in it
\* and running it once more never calls a driver (the idempotent resume).
ResumeCallsNobody == completed => pc \notin {"apply", "seal"}

\* LegOutcome::is_success (outcome.rs): a success means that the World holds
\* the effect.  Read on the report of a finished run without failure.
CleanReportIsHeld ==
    pc = "idle" /\ ~ failure /\ runs > 0 =>
        \A l \in Legs : records[l] \in Success => effects[l] > 0

\* The comment over the resume gate (txn.rs): an intent with no seal means
\* that a prior run crashed between the two.
IndeterminateMeansCrash ==
    \A l \in Legs : records[l] = "indeterminate" => l \in cut

\* is_replay_safe (outcome.rs): a leg that carries a precondition is
\* self-guarding, a stale re-apply of it is never a silent double-apply.
GuardedIsSelfGuarding ==
    \A l \in Legs : plan[l].guarded => effects[l] <= 1
=============================================================================

------------------------------ MODULE EffectWalk ------------------------------
(***************************************************************************)
(* What a commit promises of every effect of its plan, whatever the order, *)
(* the batching and the concurrency it is carried out with: an effect is   *)
(* decided exactly once, only after everything it depends on was decided;  *)
(* it is skipped exactly when something it depends on did not apply, and   *)
(* an effect the actor lacks the capability for is never applied.          *)
(*                                                                         *)
(* PlanCommit (the sequential walk of crates/plan) and Interpreter (the    *)
(* concurrent one of crates/runtime) are both shown to implement this.     *)
(***************************************************************************)
EXTENDS PlanGraph

CONSTANT Plans   \* the plans considered: records with (at least) deps, denied

VARIABLES
    plan,        \* the plan being committed
    status       \* what became of each node

vars == <<plan, status>>

Status == {"pending", "applied", "failed", "skipped"}

TypeOK ==
    /\ plan \in Plans
    /\ status \in [Node -> Status]

Pending    == {n \in Node : status[n] = "pending"}
Blocked(n) == \E p \in Parents(plan.deps, n) : status[p] \in {"failed", "skipped"}
Decidable  == {n \in Pending : Parents(plan.deps, n) \cap Pending = {}}

Init ==
    /\ plan \in Plans
    /\ status = [n \in Node |-> "pending"]

\* A set of decidable effects is decided together (a batch, or one ready-set).
Decide(S, ok) ==
    /\ S \subseteq Decidable
    /\ ok \cap plan.denied = {}
    /\ status' = [n \in Node |->
                     IF n \notin S      THEN status[n]
                     ELSE IF Blocked(n) THEN "skipped"
                     ELSE IF n \in ok   THEN "applied"
                     ELSE                    "failed"]
    /\ UNCHANGED plan

Next == \E S \in (SUBSET Node) \ {{}} : \E ok \in SUBSET S : Decide(S, ok)

SafeSpec == Init /\ [][Next]_vars
Spec     == SafeSpec /\ WF_vars(Next)

AppliedAfterParents ==
    \A n \in Node : status[n] \in {"applied", "failed"} =>
        \A p \in Parents(plan.deps, n) : status[p] = "applied"

SkippedForACause ==
    \A n \in Node : status[n] = "skipped" => Blocked(n)

DeniedNeverApplied ==
    \A n \in plan.denied \cap Node : status[n] # "applied"

EveryEffectDecided == <>(Pending = {})
=============================================================================

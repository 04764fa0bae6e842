----------------------------- MODULE Interpreter -----------------------------
(***************************************************************************)
(* The concurrent COMMIT of crates/runtime: Interpreter::commit drives the *)
(* frontier of the plan, coalesces each ready-set into batches, admits     *)
(* batches under a global and a per-driver limit, and retries the legs of  *)
(* a batch.  One task runs the commit loop and polls the batch futures     *)
(* only while it awaits one of them (pc = "await"); each leg's apply runs  *)
(* on a blocking thread, which no timeout stops.                           *)
(***************************************************************************)
EXTENDS PlanGraph

CONSTANTS
    Driver,       \* driver ids
    Key,          \* batch keys <<driver, kind>>, numbered in GroupKey order
    DriverOf,     \* the driver of a batch key
    Registered,   \* the drivers present in the DriverRegistry
    Plans,        \* the commits considered: [deps, key, denied, irreversible,
                  \* timed], timed when RetryPolicy.timeout_millis is set
    Global,       \* ConcurrencyLimits.global
    PerDriver,    \* ConcurrencyLimits.per_driver
    MaxAttempts   \* RetryPolicy.max_attempts

\* The constructors clamp both limits and the attempts to at least one.
ASSUME LimitsAssumption ==
    /\ Global \in Nat \ {0}
    /\ PerDriver \in Nat \ {0}
    /\ MaxAttempts \in Nat \ {0}

ASSUME KeyAssumption ==
    /\ Key \subseteq Nat
    /\ IsFiniteSet(Key)
    /\ DriverOf \in [Key -> Driver]
    /\ Registered \subseteq Driver

\* commit refuses a cyclic plan before it touches anything (see PlanCommit).
ASSUME PlansAssumption ==
    \A p \in Plans :
        /\ p.deps \in Edges
        /\ Acyclic(p.deps)
        /\ p.key \in [Node -> Key]
        /\ p.denied \subseteq Node
        /\ p.irreversible \subseteq Node
        /\ p.timed \in BOOLEAN

VARIABLES
    plan,        \* the plan being committed
    pc,          \* where the commit loop stands
    progressed,  \* the loop's "this pass made progress" flag
    indegree,    \* Frontier.indegree: unresolved parents
    dispatched,  \* Frontier.dispatched
    settled,     \* Frontier.settled
    tainted,     \* Frontier.tainted
    ledger,      \* ledger_by_id: "none" until the node has an entry
    queue,       \* admit_queue: batches (sets of nodes) awaiting admission
    resident,    \* in_flight: batches holding a global permit
    leg,         \* where each node of an admitted batch stands
    attempt,     \* attempts[]: dispatches of the node so far
    jobs,        \* blocking applies still running: <<node, attempt>>
    landed       \* the World: how often the node's effect was written

frontierVars == <<indegree, dispatched, settled, tainted>>
worldVars    == <<jobs, landed>>
vars == <<plan, pc, progressed, frontierVars, ledger, queue, resident, leg,
          attempt, worldVars>>

LegState ==
    {"idle",                            \* not in an admitted batch
     "waiting",                         \* batch waits for its driver's permit
     "due",                             \* to be dispatched at the next attempt
     "called", "running",               \* in the driver call: not begun, begun
     "ok", "retryable", "terminal",     \* its result, before the call returned
     "applied", "failed"}               \* its outcome, pinned

Verdict   == {"ok", "retryable", "terminal"}
InCall    == {"called", "running"} \cup Verdict

TypeOK ==
    /\ plan \in Plans
    /\ pc \in {"surface", "admit", "await", "done"}
    /\ progressed \in BOOLEAN
    /\ indegree \in [Node -> Nat]
    /\ dispatched \subseteq Node
    /\ settled \subseteq Node
    /\ tainted \subseteq Node
    /\ ledger \in [Node -> {"none", "applied", "failed", "skipped"}]
    /\ queue \in Seq(SUBSET Node)
    /\ resident \subseteq SUBSET Node
    /\ leg \in [Node -> LegState]
    /\ attempt \in [Node -> 0 .. MaxAttempts]
    /\ jobs \subseteq Node \X (1 .. MaxAttempts)
    /\ landed \in [Node -> Nat]

Init ==
    /\ plan \in Plans
    /\ pc = "surface"
    /\ progressed = FALSE
    /\ indegree = [n \in Node |-> Cardinality(Parents(plan.deps, n))]
    /\ dispatched = {} /\ settled = {} /\ tainted = {}
    /\ ledger = [n \in Node |-> "none"]
    /\ queue = << >>
    /\ resident = {}
    /\ leg = [n \in Node |-> "idle"]
    /\ attempt = [n \in Node |-> 0]
    /\ jobs = {}
    /\ landed = [n \in Node |-> 0]

-----------------------------------------------------------------------------
(* The frontier (schedule.rs).                                             *)

\* Mutant of ReadySet: surfaces a node with one parent still unresolved.
ReadySet_OneShort == {n \in Node : indegree[n] <= 1} \ (dispatched \cup settled)

\* Every node with no unresolved parent that was not surfaced before.
ReadySet == {n \in Node : indegree[n] = 0} \ (dispatched \cup settled)

\* Mutant of Skipped: only a parent that ran and failed, not a skipped one.
Skipped_DirectOnly(ready) ==
    {n \in ready : \E p \in Parents(plan.deps, n) : ledger[p] = "failed"}

\* A ready node is skipped when a parent failed or was itself skipped.
Skipped(ready) ==
    {n \in ready : Parents(plan.deps, n) \cap tainted # {}}

\* The apply-time capability re-check.
Denied(ready) == ready \cap plan.denied

\* Settling a node takes one from the in-degree of each of its children.
RelaxChildren(S) ==
    [n \in Node |-> indegree[n] - Cardinality(Parents(plan.deps, n) \cap S)]

\* complete / fail: the first settlement of a node counts, a failure taints.
Settle(applied, notApplied) ==
    LET S == (applied \cup notApplied) \ settled
    IN  /\ settled' = settled \cup S
        /\ tainted' = tainted \cup (notApplied \ settled)
        /\ indegree' = RelaxChildren(S)

\* coalesce: one batch per (driver, kind) key, in key order.
BatchOf(run, k) == {n \in run : plan.key[n] = k}
Batches(run) == {BatchOf(run, k) : k \in {plan.key[n] : n \in run}}
KeyOf(batch) == plan.key[CHOOSE n \in batch : TRUE]
CoalescedIn(run, s) ==
    /\ Range(s) = Batches(run)
    /\ \A i, j \in DOMAIN s : i < j => KeyOf(s[i]) < KeyOf(s[j])

-----------------------------------------------------------------------------
(* The commit loop (interpreter.rs).                                       *)

\* Surface the ready-set, record skips and denials, queue the coalesced rest.
Surface ==
    /\ pc = "surface"
    /\ LET skips  == Skipped(ReadySet)
           denied == Denied(ReadySet \ skips)
           run    == (ReadySet \ skips) \ denied
       IN  /\ Settle({}, skips \cup denied)
           /\ dispatched' = dispatched \cup run
           /\ ledger' = [n \in Node |-> IF n \in skips  THEN "skipped"
                                   ELSE IF n \in denied THEN "failed"
                                   ELSE ledger[n]]
           /\ \E s \in [1 .. Cardinality(Batches(run)) -> Batches(run)] :
                 CoalescedIn(run, s) /\ queue' = queue \o s
    /\ progressed' = (ReadySet # {})
    /\ pc' = "admit"
    /\ UNCHANGED <<plan, resident, leg, attempt, worldVars>>

\* Mutant of Admissible: admits one batch beyond the global limit.
Admissible_OneMore == queue # << >> /\ Cardinality(resident) <= Global

\* A batch leaves the queue only with a global permit in hand.
Admissible == queue # << >> /\ Cardinality(resident) < Global

Admit ==
    /\ pc = "admit"
    /\ Admissible
    /\ resident' = resident \cup {Head(queue)}
    /\ leg' = [n \in Node |-> IF n \in Head(queue) THEN "waiting" ELSE leg[n]]
    /\ queue' = Tail(queue)
    /\ UNCHANGED <<plan, pc, progressed, frontierVars, ledger, attempt,
                   worldVars>>

\* Mutant of AfterPass: stops as soon as nothing is in flight.
AfterPass_Eager == IF resident # {} THEN "await" ELSE "done"

\* The end of a pass: stop, go round again, or await a batch.
AfterPass ==
    IF resident # {} THEN "await"
    ELSE IF settled = Node /\ queue = << >> THEN "done"
    ELSE IF progressed \/ queue # << >> THEN "surface"
    ELSE "done"

EndPass ==
    /\ pc = "admit"
    /\ ~ Admissible
    /\ pc' = AfterPass
    /\ UNCHANGED <<plan, progressed, frontierVars, ledger, queue, resident,
                   leg, attempt, worldVars>>

-----------------------------------------------------------------------------
(* A batch (run_group), polled while the loop awaits.                      *)

DriverOfBatch(g) == DriverOf[KeyOf(g)]
HoldsPermit(g) == \E n \in g : leg[n] # "waiting"
Holders(d) == {g \in resident : DriverOfBatch(g) = d /\ HoldsPermit(g)}
Calling(g) == \E n \in g : leg[n] \in InCall
Pinned(g)  == \A n \in g : leg[n] \in {"applied", "failed"}

SetLegs(S, to) == leg' = [n \in Node |-> IF n \in S THEN to ELSE leg[n]]

\* The per-driver permit is awaited with the global one already held; without
\* a registered driver every leg fails terminally, counted as one attempt.
AcquirePermit(g) ==
    /\ pc = "await"
    /\ ~ HoldsPermit(g)
    /\ Cardinality(Holders(DriverOfBatch(g))) < PerDriver
    /\ IF DriverOfBatch(g) \in Registered
       THEN SetLegs(g, "due") /\ UNCHANGED attempt
       ELSE /\ SetLegs(g, "failed")
            /\ attempt' = [n \in Node |-> IF n \in g THEN 1 ELSE attempt[n]]
    /\ UNCHANGED <<plan, pc, progressed, frontierVars, ledger, queue,
                   resident, worldVars>>

\* One attempt: every leg still pending goes into one driver call.
Dispatch(g) ==
    /\ pc = "await"
    /\ ~ Calling(g)
    /\ \E n \in g : leg[n] = "due"
    /\ LET subset == {n \in g : leg[n] = "due"}
       IN  /\ SetLegs(subset, "called")
           /\ attempt' = [n \in Node |-> IF n \in subset THEN attempt[n] + 1
                                         ELSE attempt[n]]
    /\ UNCHANGED <<plan, pc, progressed, frontierVars, ledger, queue,
                   resident, worldVars>>

\* apply_batch maps over singletons in NodeId order, awaiting each in turn;
\* apply_one hands the leg to a blocking thread.
ApplyOne(g) ==
    /\ pc = "await"
    /\ \A n \in g : leg[n] # "running"
    /\ \E n \in g : leg[n] = "called"
    /\ LET n == SmallestId({m \in g : leg[m] = "called"})
       IN  SetLegs({n}, "running") /\ jobs' = jobs \cup {<<n, attempt[n]>>}
    /\ UNCHANGED <<plan, pc, progressed, frontierVars, ledger, queue,
                   resident, attempt, landed>>

\* Mutant of MayRetry: an irreversible leg is retried like any other.
MayRetry_Any(n) == attempt[n] < MaxAttempts

\* A transient failure is retried on a reversible leg, up to the last attempt.
MayRetry(n) == n \notin plan.irreversible /\ attempt[n] < MaxAttempts

\* Mutant of Succeeded: a leg out of retries is pinned as if it had applied.
Succeeded_Optimistic(n) == leg[n] # "terminal"
Succeeded(n)            == leg[n] = "ok"

\* The call returned a result per leg; what is not retried is pinned.
BatchReturns(g) ==
    /\ pc = "await"
    /\ Calling(g)
    /\ \A n \in g : leg[n] \notin {"called", "running"}
    /\ leg' = [n \in Node |-> IF n \notin g \/ leg[n] \notin Verdict THEN leg[n]
                         ELSE IF leg[n] = "retryable" /\ MayRetry(n) THEN "due"
                         ELSE IF Succeeded(n) THEN "applied"
                         ELSE "failed"]
    /\ UNCHANGED <<plan, pc, progressed, frontierVars, ledger, queue,
                   resident, attempt, worldVars>>

\* The deadline passed first: every leg of the call is TimedOut, those that
\* already returned included.  The abandoned blocking thread keeps running.
BatchTimesOut(g) ==
    /\ plan.timed
    /\ pc = "await"
    /\ \E n \in g : leg[n] \in {"called", "running"}
    /\ leg' = [n \in Node |->
                  IF n \notin g \/ leg[n] \notin InCall THEN leg[n]
                  ELSE IF MayRetry(n) THEN "due" ELSE "failed"]
    /\ UNCHANGED <<plan, pc, progressed, frontierVars, ledger, queue,
                   resident, attempt, worldVars>>

\* The finished batch's permits are released with its future, and the mutant
\* that never lets go of them.
Release_Never(g) == resident
Release(g)       == resident \ {g}

\* in_flight.next() yields a finished batch: its entries, permits released.
Fold(g) ==
    /\ pc = "await"
    /\ Pinned(g)
    /\ LET ok == {n \in g : leg[n] = "applied"}
       IN  Settle(ok, g \ ok)
    /\ dispatched' = dispatched \ g
    /\ ledger' = [n \in Node |-> IF n \in g THEN leg[n] ELSE ledger[n]]
    /\ resident' = Release(g)
    /\ pc' = "surface"
    /\ UNCHANGED <<plan, progressed, queue, leg, attempt, worldVars>>

-----------------------------------------------------------------------------
(* The blocking threads (bridge.rs) and the World behind the driver.       *)

\* The thread of one attempt ends.  Whatever it reports, its write may have
\* reached the World; "ok" means it did.  Only the call that still awaits the
\* thread sees the report.
JobEnds(n, k) ==
    /\ <<n, k>> \in jobs
    /\ jobs' = jobs \ {<<n, k>>}
    /\ \E verdict \in Verdict, wrote \in BOOLEAN :
          /\ verdict = "ok" => wrote
          /\ landed' = [landed EXCEPT ![n] = IF wrote THEN @ + 1 ELSE @]
          /\ leg' = [leg EXCEPT ![n] = IF @ = "running" /\ attempt[n] = k
                                       THEN verdict ELSE @]
    /\ UNCHANGED <<plan, pc, progressed, frontierVars, ledger, queue,
                   resident, attempt>>

-----------------------------------------------------------------------------
Batch(g) == AcquirePermit(g) \/ Dispatch(g) \/ ApplyOne(g) \/ BatchReturns(g)
            \/ BatchTimesOut(g) \/ Fold(g)

Runtime == Surface \/ Admit \/ EndPass \/ \E g \in resident : Batch(g)

Threads == \E n \in Node, k \in 1 .. MaxAttempts : JobEnds(n, k)

Returned == pc = "done" /\ jobs = {} /\ UNCHANGED vars

Next == Runtime \/ Threads \/ Returned

Spec == Init /\ [][Next]_vars

\* The executor polls the commit task whenever it can move, and fires its
\* timer if there is one.  Of the threads something is assumed only where no
\* timeout is set, as by default: then every driver call is taken to end.
FairSpec == Spec /\ WF_vars(Runtime) /\ (~ plan.timed => WF_vars(Threads))

-----------------------------------------------------------------------------
(* PREVIEW (interpreter.rs): the same frontier, every permitted node taken *)
(* as applied, nothing dispatched.                                         *)

\* Mutant of PreviewVerdict: a dependent of a skipped node shows as applied.
PreviewVerdict_Shallow(deps, denied, shown, n) ==
    IF \E p \in Parents(deps, n) : shown[p] = "failed" THEN "skipped"
    ELSE IF n \in denied THEN "failed" ELSE "applied"

PreviewVerdict(deps, denied, shown, n) ==
    IF \E p \in Parents(deps, n) : shown[p] \in {"failed", "skipped"}
    THEN "skipped"
    ELSE IF n \in denied THEN "failed" ELSE "applied"

\* Each round surfaces the nodes whose parents all have a disposition.
PreviewRound(p, shown) ==
    [n \in Node |->
        IF /\ shown[n] = "none"
           /\ \A q \in Parents(p.deps, n) : shown[q] # "none"
        THEN PreviewVerdict(p.deps, p.denied, shown, n)
        ELSE shown[n]]

Preview(p) ==
    LET shown[k \in 0 .. Cardinality(Node)] ==
            IF k = 0 THEN [n \in Node |-> "none"] ELSE PreviewRound(p, shown[k - 1])
    IN  shown[Cardinality(Node)]

-----------------------------------------------------------------------------
(* Properties.                                                             *)

\* A write of the node may be in, or on its way to, the World.
Started(n) == landed[n] > 0 \/ \E k \in 1 .. MaxAttempts : <<n, k>> \in jobs

\* No effect is started before every effect it depends on is recorded as
\* applied, however batches overlap, time out and are retried (schedule.rs's
\* ready, run_group).
EffectsRespectOrder ==
    \A n \in Node : Started(n) =>
        \A p \in Parents(plan.deps, n) : ledger[p] = "applied"

\* An irreversible effect is handed to the World at most once: not retried
\* after a transient error, nor while an abandoned thread of it still runs.
IrreversibleAtMostOnce ==
    \A n \in plan.irreversible :
        landed[n] + Cardinality({k \in 1 .. MaxAttempts : <<n, k>> \in jobs})
            <= 1

\* The ledger never claims an effect the World does not hold (the attempt a
\* retry abandoned cannot be what vouches for it).
AppliedIsTrue ==
    \A n \in Node : ledger[n] = "applied" => landed[n] > 0

\* What was refused for lack of capability, or skipped because of a failure
\* upstream, never reaches a driver: neither now nor by a late thread.
RefusedNeverStarts ==
    \A n \in Node : n \in plan.denied \/ ledger[n] = "skipped" => ~ Started(n)

\* Both concurrency ceilings hold at every instant.
PermitsRespected ==
    /\ Cardinality(resident) <= Global
    /\ \A d \in Driver : Cardinality(Holders(d)) <= PerDriver

\* What the documentation of ConcurrencyLimits says of the per-driver ceiling
\* (caps.rs): it keeps one driver from consuming the whole budget, so the
\* global permits are never all held by one driver while another one waits.
BudgetIsShared ==
    \A d \in Driver :
        /\ PerDriver < Global
        /\ Cardinality(resident) = Global
        /\ \A g \in resident : DriverOfBatch(g) = d
        => \A i \in DOMAIN queue : DriverOfBatch(queue[i]) = d

\* What the documentation of RetryPolicy.timeout_millis says (caps.rs): the
\* timeout is per leg, so a leg that answered in time does not fail by it.
AnsweredIsKept ==
    [][\A n \in Node : leg[n] = "ok" => leg'[n] \in {"ok", "applied"}]_vars

\* The loop's early exits never drop a node: when commit returns, every node
\* of the plan has its ledger entry and no batch is left behind.
NothingLost ==
    pc = "done" => /\ \A n \in Node : ledger[n] # "none"
                   /\ queue = << >> /\ resident = {}

\* PREVIEW is an upper bound of COMMIT, and exact when no driver fails.
PreviewIsHonest ==
    /\ \A n \in Node : ledger[n] = "applied" => Preview(plan)[n] = "applied"
    /\ (pc = "done" /\ \A n \in Node : leg[n] # "failed") =>
           ledger = Preview(plan)

\* What a commit promises of its effects (EffectWalk), seen in the ledger.
StatusOf(entry) == IF entry = "none" THEN "pending" ELSE entry
Walk == INSTANCE EffectWalk WITH status <- [n \in Node |-> StatusOf(ledger[n])]
ImplementsWalk == Walk!SafeSpec

\* A commit returns.
Terminates == <>(pc = "done")
=============================================================================

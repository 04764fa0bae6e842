----------------------------- MODULE PlanCommit -----------------------------
(***************************************************************************)
(* The sequential commit of crates/plan/src/apply.rs: walk the plan in its *)
(* topological order, call the applier once per node, taint a node whose   *)
(* apply failed and skip whatever depends on a tainted node.               *)
(***************************************************************************)
EXTENDS PlanGraph

CONSTANTS
    Strangers,  \* ids that an edge may name and no node of the plan has
    MaxCopies   \* bound: entries of one edge in plan.deps

ASSUME ListAssumption ==
    Strangers \cap Node = {} /\ IsFiniteSet(Strangers) /\ MaxCopies \in Nat

VARIABLES
    plan,       \* the plan: what its list of edges says (and no denied effects)
    order,      \* topo_order(plan), or the empty walk of a cyclic plan
    pos,        \* nodes of order already handled
    tainted,    \* nodes that failed or were skipped
    applied,    \* report.applied: the applied nodes in apply order
    skipped,    \* report.skipped: node -> the failed parent it names
    failed      \* report.failed: at most one node, the first whose apply failed

vars == <<plan, order, pos, tainted, applied, skipped, failed>>

TypeOK ==
    /\ plan \in [deps : Edges, denied : {{}}]
    /\ order \in Seq(Node)
    /\ pos \in 0 .. Len(order)
    /\ tainted \subseteq Node
    /\ applied \in Seq(Node)
    /\ DOMAIN skipped \subseteq Node /\ Range(skipped) \subseteq Node
    /\ failed \subseteq Node /\ Cardinality(failed) <= 1

\* The lists plan.deps may be: each edge some times, none or all of the edges
\* that lead to or from a stranger.
EdgeLists ==
    {{e \in Node \X Node \X (1 .. MaxCopies) : e[3] <= times[<<e[1], e[2]>>]} \cup dangling :
        times \in [Node \X Node -> 0 .. MaxCopies],
        dangling \in {{}, (Node \X Strangers \X {1}) \cup (Strangers \X Node \X {1})}}

\* A cyclic plan yields an empty report: nothing is walked.
WalkOrder(list) == IF HasTopoOrder(list) THEN TopoOrder(list) ELSE << >>

Init ==
    /\ \E list \in EdgeLists : /\ plan = [deps |-> DepsOf(list), denied |-> {}]
                               /\ order = WalkOrder(list)
    /\ pos = 0
    /\ tainted = {}
    /\ applied = << >>
    /\ skipped = << >>
    /\ failed = {}

\* Mutant of FailedParents: forgets that a skipped parent taints as well.
FailedParents_Direct(n) == Parents(plan.deps, n) \cap (tainted \ DOMAIN skipped)

\* The parents whose failure, or skipping, forces the node to be skipped.
FailedParents(n) == Parents(plan.deps, n) \cap tainted

\* The node at the head of the remaining walk.
Current == order[pos + 1]

SkipNode ==
    /\ pos < Len(order)
    /\ \E p \in FailedParents(Current) :
          skipped' = [n \in DOMAIN skipped \cup {Current} |->
                         IF n = Current THEN p ELSE skipped[n]]
    /\ tainted' = tainted \cup {Current}
    /\ pos' = pos + 1
    /\ UNCHANGED <<plan, order, applied, failed>>

ApplyOk ==
    /\ pos < Len(order)
    /\ FailedParents(Current) = {}
    /\ applied' = Append(applied, Current)
    /\ pos' = pos + 1
    /\ UNCHANGED <<plan, order, tainted, skipped, failed>>

\* The first failure is the one the report keeps; the walk goes on.
ApplyErr ==
    /\ pos < Len(order)
    /\ FailedParents(Current) = {}
    /\ tainted' = tainted \cup {Current}
    /\ failed' = IF failed = {} THEN {Current} ELSE failed
    /\ pos' = pos + 1
    /\ UNCHANGED <<plan, order, applied, skipped>>

Returned == pos = Len(order) /\ UNCHANGED vars

Next == SkipNode \/ ApplyOk \/ ApplyErr \/ Returned

Spec == Init /\ [][Next]_vars /\ WF_vars(Next)
-----------------------------------------------------------------------------
(* Properties.                                                             *)

\* topo_order orders every acyclic plan, and only those, however often its list
\* names an edge and whatever strangers it names: each edge leads forward, and at
\* every place the smallest available NodeId is taken.
TopoOrderIsRight ==
    /\ IF Acyclic(plan.deps)
       THEN Range(order) = Node /\ Len(order) = Cardinality(Node)
       ELSE order = << >>
    /\ \A i, j \in DOMAIN order :
          <<order[i], order[j]>> \in plan.deps => i < j
    /\ \A i, j \in DOMAIN order : i < j /\ order[j] < order[i] =>
          \E p \in Parents(plan.deps, order[j]) :
              \E k \in i .. j - 1 : order[k] = p

\* The sequential commit implements the promise of EffectWalk.
Status(n) ==
    IF n \in Range(applied) THEN "applied"
    ELSE IF n \in DOMAIN skipped THEN "skipped"
    ELSE IF n \in tainted THEN "failed" ELSE "pending"
Walk == INSTANCE EffectWalk
    WITH Plans <- [deps : Edges, denied : {{}}],
         status <- [n \in Node |-> Status(n)]
ImplementsWalk == Walk!SafeSpec

\* What the documentation of CommitReport.failed says: after the first failure
\* commit attempts no new root.
NoNewRootAfterFailure ==
    [][failed # {} /\ Len(applied') > Len(applied) =>
           Parents(plan.deps, Current) # {}]_vars
=============================================================================

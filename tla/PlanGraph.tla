------------------------------ MODULE PlanGraph ------------------------------
(***************************************************************************)
(* The effect graph of a plan and its deterministic topological order      *)
(* (crates/plan/src/topo.rs).  A plan is a set of nodes, numbered by their *)
(* NodeId, and dependencies <<parent, child>>: the child's effect may be   *)
(* applied only once the parent's has been.                                *)
(***************************************************************************)
EXTENDS Naturals, Sequences, FiniteSets, Functions

CONSTANT Node    \* the NodeIds of the plan's effect nodes

ASSUME NodeAssumption == Node \subseteq Nat /\ IsFiniteSet(Node)

\* The dependencies of a plan, as a relation on its nodes.
Edges == SUBSET (Node \X Node)

Parents(deps, n)  == {p \in Node : <<p, n>> \in deps}
Children(deps, n) == {c \in Node : <<n, c>> \in deps}

-----------------------------------------------------------------------------
(* Kahn's algorithm.  plan.deps is a list: it may hold an edge more than   *)
(* once, which merge makes of two plans, and edges of no node of the plan, *)
(* which are skipped.  An entry is <<parent, child, number>>.              *)

Known(list) == {e \in list : e[1] \in Node /\ e[2] \in Node}
DepsOf(list) == {<<e[1], e[2]>> : e \in Known(list)}
Into(list, n) == {e \in Known(list) : e[2] = n}
EntriesFrom(list, p, n) == {e \in Into(list, n) : e[1] = p}

SmallestId(S) == CHOOSE n \in S : \A m \in S : n <= m

\* The counters and the ready list, kept sorted by NodeId, hence a set.
KahnStart(list) ==
    LET indegree == [n \in Node |-> Cardinality(Into(list, n))]
    IN  [indegree |-> indegree, ready |-> {n \in Node : indegree[n] = 0}, order |-> << >>]

\* By how much the counter of n sinks when p is emitted: the child is among p's
\* kids once per entry.
\* Mutant: once per child.
Relaxed_OncePerChild(list, p, n) == IF EntriesFrom(list, p, n) = {} THEN 0 ELSE 1
Relaxed(list, p, n) == Cardinality(EntriesFrom(list, p, n))

\* One turn of the loop: the smallest ready node is emitted, and those kids of
\* which that was the last missing parent become ready.
KahnTurn(list, s) ==
    IF s.ready = {} THEN s
    ELSE LET next == SmallestId(s.ready)
             indegree == [n \in Node |-> s.indegree[n] - Relaxed(list, next, n)]
             freed == {n \in Node : EntriesFrom(list, next, n) # {} /\ indegree[n] = 0}
         IN  [indegree |-> indegree, ready |-> (s.ready \ {next}) \cup freed,
              order |-> Append(s.order, next)]

\* The loop ends when the list is empty: at most one emission per node.
TopoOrder(list) ==
    LET turn[k \in 0 .. Cardinality(Node)] ==
            IF k = 0 THEN KahnStart(list) ELSE KahnTurn(list, turn[k - 1])
    IN  turn[Cardinality(Node)].order

\* topo_order answers None when some node never reached in-degree zero.
HasTopoOrder(list) == Len(TopoOrder(list)) = Cardinality(Node)

\* The definition the algorithm is checked against: a graph is acyclic iff no
\* non-empty set of nodes has, for each member, a parent inside the set.
Acyclic(deps) ==
    ~ \E S \in (SUBSET Node) \ {{}} :
          \A n \in S : \E p \in S : <<p, n>> \in deps
=============================================================================

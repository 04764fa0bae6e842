---------------------------- MODULE MCInterpreter ----------------------------
(* Instances of Interpreter for TLC.                                        *)
EXTENDS Interpreter

CONSTANTS d1, d2

\* Two kinds of effect on d1 (keys 1 and 2), one on d2 (key 3).
MCDriverOf == [k \in Key |-> IF k = 3 THEN d2 ELSE d1]

\* Every acyclic dependency graph on the nodes; the keys, the denied and the
\* irreversible nodes are given by each instance.
Dags == {deps \in Edges : Acyclic(deps)}

PlansWith(dags, keys, denied, irreversible, timed) ==
    [deps : dags, key : keys, denied : denied, irreversible : irreversible,
     timed : timed]

Keys(S) == {k \in [Node -> Key] : Range(k) \subseteq S}

\* Shape: every graph over four nodes whose edges lead to a higher NodeId
\* (chains, diamonds, forks, joins), any one of two nodes denied, every split
\* of the nodes over a registered batch, another of its driver, and a batch of
\* an unregistered driver.
Forward == {deps \in Edges : \A e \in deps : e[1] < e[2]}

ShapePlans ==
    PlansWith(Forward, {k \in Keys({1, 2, 3}) : k[1] = 1 /\ k[4] # 2},
              {{}, {1}, {2}}, {{}}, {FALSE})

\* Retry: three nodes in one or two batches, any graph over them, at most one
\* node irreversible.
TwoBatches == {k \in Keys({1, 2}) : k[1] = 1}
RetryPlans == PlansWith(Dags, TwoBatches, {{}}, {{}, {2}}, {TRUE})

\* Widest: no dependency at all, so that batches compete for permits.
WidePlans == PlansWith({{}}, {k \in Keys({1, 2, 3}) : k[1] = 1 /\ k[3] = 3},
                       {{}}, {{}}, {TRUE})

\* Liveness: the widest with a timeout, and any graph over two batches without.
LivePlans == WidePlans \cup PlansWith(Dags, TwoBatches, {{}}, {{}}, {FALSE})

\* Every fault in one instance.
FaultPlans == RetryPlans \cup LivePlans
=============================================================================

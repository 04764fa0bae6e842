-------------------------- MODULE Interpreter_proofs --------------------------
(***************************************************************************)
(* Proofs about Interpreter, for every finite set of nodes, every plan and *)
(* all limits.  IInv is the inductive invariant; its conjuncts are named   *)
(* after the part of the argument they carry.                              *)
(***************************************************************************)
EXTENDS Interpreter, FiniteSetTheorems, WellFoundedInduction, TLAPS

\* The frontier: in-degrees count the unsettled parents, and what is settled
\* is exactly what has a ledger entry.
FrontierOK ==
    /\ dispatched \cap settled = {}
    /\ \A n \in Node :
          /\ indegree[n] = Cardinality(Parents(plan.deps, n) \ settled)
          /\ ledger[n] = "none" <=> n \notin settled
          /\ ledger[n] \in {"failed", "skipped"} <=> n \in tainted

\* The batches: what was dispatched and not yet folded is in exactly one of
\* them, queued or resident.
Queued   == {queue[i] : i \in DOMAIN queue}
InBatch(B) == {n \in Node : \E g \in B : n \in g}

BatchesOK ==
    /\ dispatched = InBatch(Queued) \cup InBatch(resident)
    /\ \A g \in Queued \cup resident : g # {}
    /\ \A i, j \in DOMAIN queue : i # j => queue[i] \cap queue[j] = {}
    /\ \A i \in DOMAIN queue, g \in resident : queue[i] \cap g = {}
    /\ \A g, h \in resident : g # h => g \cap h = {}

\* What is dispatched was cleared for it.
Cleared(n) ==
    /\ n \notin plan.denied
    /\ \A p \in Parents(plan.deps, n) : ledger[p] = "applied"

\* A node's leg is where its batch and its ledger entry say.
LegsOK ==
    \A n \in Node :
        /\ n \in dispatched => Cleared(n)
        /\ leg[n] # "idle" => Cleared(n) /\ ledger[n] # "skipped"
        /\ n \in InBatch(resident) => leg[n] # "idle"
        /\ n \in InBatch(Queued) => leg[n] = "idle"
        /\ n \notin dispatched => leg[n] \in {"idle", "applied", "failed"}
        /\ n \notin dispatched \cup settled => leg[n] = "idle"
        /\ ledger[n] = "applied" => leg[n] = "applied"

\* Attempts are counted, and stop in time.
AttemptsOK ==
    \A n \in Node :
        /\ leg[n] \in {"idle", "waiting"} => attempt[n] = 0
        /\ leg[n] = "due" => attempt[n] < MaxAttempts
        /\ leg[n] \in {"called", "running"} => attempt[n] > 0
        /\ n \in plan.irreversible /\ leg[n] = "due" => attempt[n] = 0

\* The World: nothing starts before its call, and an Ok vouches for a write.
Running(n) == {k \in 1 .. MaxAttempts : <<n, k>> \in jobs}

WorldOK ==
    \A n \in Node :
        /\ leg[n] \in {"idle", "waiting"} => ~ Started(n)
        /\ leg[n] \in {"ok", "applied"} => landed[n] > 0

\* An irreversible effect has one thread or one write, never both.
Once(n) ==
    /\ leg[n] \in {"due", "called"} => ~ Started(n)
    /\ landed[n] <= 1
    /\ landed[n] > 0 => Running(n) = {}
    /\ \A j, k \in Running(n) : j = k

OnceOK == \A n \in plan.irreversible \cap Node : Once(n)

\* A pass without progress had nothing to surface; done means all settled.
LoopOK ==
    /\ pc = "admit" /\ ~ progressed => ReadySet = {}
    /\ pc = "done" => settled = Node /\ queue = << >> /\ resident = {}

IInv ==
    /\ TypeOK
    /\ FrontierOK /\ BatchesOK /\ LegsOK /\ AttemptsOK /\ WorldOK /\ OnceOK
    /\ LoopOK /\ PermitsRespected
-----------------------------------------------------------------------------
(* Lemmas about the operators the model is built from.                     *)

LEMMA NodeFacts ==
    /\ IsFiniteSet(Node) /\ Node \subseteq Nat
    /\ \A S \in SUBSET Node : IsFiniteSet(S) /\ Cardinality(S) \in Nat
  <1>1. IsFiniteSet(Node) /\ Node \subseteq Nat
    BY NodeAssumption
  <1>2. \A S \in SUBSET Node : IsFiniteSet(S) /\ Cardinality(S) \in Nat
    BY <1>1, FS_Subset, FS_CardinalityType
  <1>3. QED
    BY <1>1, <1>2

\* A set of batches is finite, as there are finitely many sets of nodes.
LEMMA BatchSetsFinite ==
    \A B \in SUBSET SUBSET Node : IsFiniteSet(B) /\ Cardinality(B) \in Nat
  <1>1. IsFiniteSet(SUBSET Node)
    BY NodeAssumption, FS_SUBSET
  <1>2. QED
    BY <1>1, FS_Subset, FS_CardinalityType

\* The in-degree of a node is zero only when all its parents have settled.
LEMMA NoParentLeft ==
    ASSUME NEW S \in SUBSET Node
    PROVE  Cardinality(S) = 0 <=> S = {}
  BY NodeFacts, FS_EmptySet

\* Relaxing the children of newly settled nodes keeps the count right.
LEMMA RelaxCounts ==
    ASSUME NEW P \in SUBSET Node, NEW S \in SUBSET Node, NEW T \in SUBSET Node,
           S \cap T = {}
    PROVE  Cardinality(P \ (S \cup T)) = Cardinality(P \ S) - Cardinality(P \cap T)
  <1>1. IsFiniteSet(P \ S)
    BY NodeFacts
  <1>2. Cardinality((P \ S) \ T) = Cardinality(P \ S) - Cardinality((P \ S) \cap T)
    BY <1>1, FS_Difference
  <1>3. (P \ S) \ T = P \ (S \cup T) /\ (P \ S) \cap T = P \cap T
    OBVIOUS
  <1>4. QED
    BY <1>2, <1>3

\* A non-empty set of nodes has a smallest id, and SmallestId names it.
LEMMA SmallestIdIsMember ==
    ASSUME NEW S \in SUBSET Node, S # {}
    PROVE  SmallestId(S) \in S
  <1> DEFINE Less == {ss \in Nat \X Nat : ss[1] < ss[2]}
  <1>1. S \subseteq Nat
    BY NodeFacts
  <1>2. IsWellFoundedOn(Less, Nat)
    BY NatLessThanWellFounded DEF OpToRel
  <1>3. PICK n \in S : \A m \in S : <<m, n>> \notin Less
    <2> HIDE DEF Less
    <2> QED
      BY <1>1, <1>2, WFMin
  <1>4. \A m \in S : n <= m
    <2> TAKE m \in S
    <2>1. <<m, n>> \in Nat \X Nat /\ <<m, n>> \notin Less
      BY <1>1, <1>3
    <2>2. ~ (<<m, n>>[1] < <<m, n>>[2])
      BY <2>1
    <2>3. QED
      BY <1>1, <2>2
  <1>5. QED
    BY <1>4 DEF SmallestId
\* What the plans are known to be.
LEMMA PlanFacts ==
    ASSUME TypeOK
    PROVE  /\ plan.deps \subseteq Node \X Node /\ Acyclic(plan.deps)
           /\ plan.key \in [Node -> Key]
           /\ plan.denied \subseteq Node /\ plan.irreversible \subseteq Node
           /\ \A n \in Node : Parents(plan.deps, n) \in SUBSET Node
  BY PlansAssumption DEF TypeOK, Edges, Parents

\* Coalescing: the batches of a ready-set partition it.
LEMMA BatchFacts ==
    ASSUME TypeOK, NEW run \in SUBSET Node, NEW g \in Batches(run)
    PROVE  /\ g \in SUBSET run /\ g # {}
           /\ KeyOf(g) \in Nat
           /\ g = BatchOf(run, KeyOf(g))
  <1>1. PICK m \in run : g = BatchOf(run, plan.key[m])
    BY DEF Batches
  <1>2. m \in g /\ g \in SUBSET run
    BY <1>1 DEF BatchOf
  <1>3. (CHOOSE n \in g : TRUE) \in g
    BY <1>2
  <1>4. KeyOf(g) = plan.key[m]
    BY <1>1, <1>3 DEF KeyOf, BatchOf
  <1>5. KeyOf(g) \in Nat
    BY <1>4, PlanFacts, KeyAssumption
  <1>6. QED
    BY <1>1, <1>2, <1>4, <1>5

LEMMA CoalescedFacts ==
    ASSUME TypeOK, NEW run \in SUBSET Node,
           NEW s \in [1 .. Cardinality(Batches(run)) -> Batches(run)],
           CoalescedIn(run, s)
    PROVE  /\ s \in Seq(SUBSET Node)
           /\ \A i \in DOMAIN s : s[i] # {} /\ s[i] \subseteq run
           /\ \A n \in run : \E i \in DOMAIN s : n \in s[i]
           /\ \A i, j \in DOMAIN s : i # j => s[i] \cap s[j] = {}
  <1>1. Batches(run) \in SUBSET SUBSET Node
    BY DEF Batches, BatchOf
  <1>2. Cardinality(Batches(run)) \in Nat
    BY <1>1, BatchSetsFinite
  <1>3. s \in Seq(SUBSET Node)
    BY <1>1, <1>2
  <1>4. \A i \in DOMAIN s : /\ s[i] \in Batches(run) /\ s[i] # {}
                            /\ s[i] \subseteq run /\ KeyOf(s[i]) \in Nat
    BY BatchFacts
  <1>5. ASSUME NEW n \in run PROVE \E i \in DOMAIN s : n \in s[i]
    <2>1. BatchOf(run, plan.key[n]) \in Range(s)
      BY DEF CoalescedIn, Batches
    <2>2. QED
      BY <2>1 DEF Range, BatchOf
  <1>6. ASSUME NEW i \in DOMAIN s, NEW j \in DOMAIN s, i < j
        PROVE  s[i] \cap s[j] = {}
    <2>1. KeyOf(s[i]) # KeyOf(s[j])
      BY <1>4, <1>6 DEF CoalescedIn
    <2>2. s[i] = BatchOf(run, KeyOf(s[i])) /\ s[j] = BatchOf(run, KeyOf(s[j]))
      BY <1>4, BatchFacts
    <2>3. \A k, l : k # l => BatchOf(run, k) \cap BatchOf(run, l) = {}
      BY DEF BatchOf
    <2>4. QED
      BY <2>1, <2>2, <2>3
  <1>7. \A i, j \in DOMAIN s : i # j => i < j \/ j < i
    BY <1>2
  <1>8. \A i, j \in DOMAIN s : i # j => s[i] \cap s[j] = {}
    BY <1>6, <1>7
  <1>9. QED
    BY <1>3, <1>4, <1>5, <1>8

\* Where the elements of a concatenation come from.
LEMMA ConcatFacts ==
    ASSUME NEW q \in Seq(SUBSET Node), NEW s \in Seq(SUBSET Node)
    PROVE  /\ q \o s \in Seq(SUBSET Node)
           /\ \A i \in DOMAIN (q \o s) :
                 IF i <= Len(q) THEN i \in DOMAIN q /\ (q \o s)[i] = q[i]
                 ELSE i - Len(q) \in DOMAIN s /\ (q \o s)[i] = s[i - Len(q)]
           /\ \A i \in DOMAIN q : i \in DOMAIN (q \o s) /\ (q \o s)[i] = q[i]
           /\ \A i \in DOMAIN s : /\ i + Len(q) \in DOMAIN (q \o s)
                                  /\ (q \o s)[i + Len(q)] = s[i]
  OBVIOUS

LEMMA TailFacts ==
    ASSUME NEW q \in Seq(SUBSET Node), q # << >>
    PROVE  /\ Tail(q) \in Seq(SUBSET Node)
           /\ 1 \in DOMAIN q /\ Head(q) = q[1]
           /\ \A i \in DOMAIN Tail(q) : /\ i + 1 \in DOMAIN q /\ i + 1 # 1
                                        /\ Tail(q)[i] = q[i + 1]
           /\ \A i \in DOMAIN q : i # 1 => /\ i - 1 \in DOMAIN Tail(q)
                                           /\ Tail(q)[i - 1] = q[i]
  OBVIOUS
-----------------------------------------------------------------------------
(* Initially.                                                              *)

LEMMA InitIInv == Init => IInv
  <1> SUFFICES ASSUME Init PROVE IInv
    OBVIOUS
  <1>1. TypeOK
    <2>1. \A n \in Node : Parents(plan.deps, n) \in SUBSET Node
      BY DEF Parents
    <2>2. indegree \in [Node -> Nat]
      BY <2>1, NodeFacts DEF Init
    <2>3. leg \in [Node -> LegState] /\ ledger \in [Node -> {"none", "applied", "failed", "skipped"}]
      BY DEF Init, LegState
    <2>4. attempt \in [Node -> 0 .. MaxAttempts] /\ landed \in [Node -> Nat]
      BY LimitsAssumption DEF Init
    <2>5. queue \in Seq(SUBSET Node)
      BY DEF Init
    <2>6. QED
      BY <2>2, <2>3, <2>4, <2>5 DEF Init, TypeOK
  <1>2. FrontierOK
    <2>1. \A n \in Node : Parents(plan.deps, n) \ settled = Parents(plan.deps, n)
      BY DEF Init
    <2>2. QED
      BY <2>1 DEF Init, FrontierOK
  <1>3. BatchesOK
    BY DEF Init, BatchesOK, Queued, InBatch
  <1>4. \A n \in Node : ~ Started(n) /\ Running(n) = {}
    BY DEF Init, Started, Running
  <1>5. LegsOK
    BY DEF Init, LegsOK, Queued, InBatch
  <1>6. AttemptsOK /\ WorldOK /\ OnceOK
    BY <1>4 DEF Init, AttemptsOK, WorldOK, OnceOK, Once
  <1>7. LoopOK
    BY DEF Init, LoopOK
  <1>8. PermitsRespected
    <2>1. resident = {} /\ \A d \in Driver : Holders(d) = {}
      BY DEF Init, Holders
    <2>2. QED
      BY <2>1, FS_EmptySet, LimitsAssumption DEF PermitsRespected
  <1>9. QED
    BY <1>1, <1>2, <1>3, <1>5, <1>6, <1>7, <1>8 DEF IInv

-----------------------------------------------------------------------------
(* What several actions have in common.                                    *)

\* The permits: no batch comes in, and none that waits stops waiting.
LEMMA PermitsKept ==
    ASSUME IInv, plan' = plan, resident' \subseteq resident,
           \A n \in Node : leg[n] = "waiting" => leg'[n] = "waiting"
    PROVE  PermitsRespected'
  <1>1. resident \in SUBSET SUBSET Node /\ resident' \in SUBSET SUBSET Node
    BY DEF IInv, TypeOK
  <1>2. Cardinality(resident') <= Cardinality(resident)
    BY <1>1, BatchSetsFinite, FS_Subset
  <1>3. Cardinality(resident') <= Global
    BY <1>1, <1>2, BatchSetsFinite, LimitsAssumption DEF IInv, PermitsRespected
  <1>4. ASSUME NEW d \in Driver
        PROVE  Cardinality(Holders(d)') <= PerDriver
    <2>1. \A g \in resident' : DriverOfBatch(g)' = DriverOfBatch(g)
      BY DEF DriverOfBatch, KeyOf
    <2>2. \A g \in resident' : HoldsPermit(g)' => HoldsPermit(g)
      BY <1>1 DEF HoldsPermit
    <2>3. Holders(d)' \subseteq Holders(d)
      BY <2>1, <2>2 DEF Holders
    <2>4. Holders(d) \in SUBSET SUBSET Node /\ Holders(d)' \in SUBSET SUBSET Node
      BY <1>1 DEF Holders
    <2>5. Cardinality(Holders(d)') <= Cardinality(Holders(d))
      BY <2>3, <2>4, BatchSetsFinite, FS_Subset
    <2>6. Cardinality(Holders(d)) <= PerDriver
      BY DEF IInv, PermitsRespected
    <2>7. QED
      BY <2>4, <2>5, <2>6, BatchSetsFinite, LimitsAssumption
  <1>5. QED
    BY <1>3, <1>4 DEF PermitsRespected

\* The frontier, the batches and the ledger: a step that only moves legs of
\* resident batches leaves them as they were.
LEMMA LegsMove ==
    ASSUME IInv, UNCHANGED <<plan, pc, progressed, frontierVars, ledger, queue, resident>>,
           leg' \in [Node -> LegState],
           \A n \in Node : leg'[n] # leg[n] =>
                n \in InBatch(resident) /\ leg'[n] \notin {"idle", "waiting"}
    PROVE  /\ FrontierOK' /\ BatchesOK' /\ LegsOK' /\ LoopOK'
           /\ PermitsRespected' \/ \E n \in Node : leg[n] = "waiting" /\ leg'[n] # "waiting"
  <1> USE DEF frontierVars
  <1>1. FrontierOK'
    BY DEF IInv, FrontierOK
  <1>2. BatchesOK'
    BY DEF IInv, BatchesOK, Queued, InBatch
  <1>3. \A n \in Node : Cleared(n)' = Cleared(n)
    BY DEF Cleared
  <1>4. InBatch(resident)' = InBatch(resident) /\ InBatch(Queued)' = InBatch(Queued)
    BY DEF InBatch, Queued
  <1>5. LegsOK'
    <2> SUFFICES ASSUME NEW n \in Node
                 PROVE  /\ n \in dispatched => Cleared(n)
                        /\ leg'[n] # "idle" => Cleared(n) /\ ledger[n] # "skipped"
                        /\ n \in InBatch(resident) => leg'[n] # "idle"
                        /\ n \in InBatch(Queued) => leg'[n] = "idle"
                        /\ n \notin dispatched => leg'[n] \in {"idle", "applied", "failed"}
                        /\ n \notin dispatched \cup settled => leg'[n] = "idle"
                        /\ ledger[n] = "applied" => leg'[n] = "applied"
      BY <1>3, <1>4 DEF LegsOK
    <2>1. CASE leg'[n] = leg[n]
      BY <2>1 DEF IInv, LegsOK
    <2>2. CASE leg'[n] # leg[n]
      <3>1. n \in InBatch(resident) /\ n \in dispatched
        BY <2>2 DEF IInv, BatchesOK
      <3>2. leg[n] # "idle" /\ n \notin InBatch(Queued)
        BY <3>1 DEF IInv, LegsOK
      <3>3. n \notin settled /\ ledger[n] = "none"
        BY <3>1 DEF IInv, FrontierOK
      <3>4. QED
        BY <2>2, <3>1, <3>2, <3>3 DEF IInv, LegsOK
    <2>3. QED
      BY <2>1, <2>2
  <1>6. LoopOK'
    BY DEF IInv, LoopOK, ReadySet
  <1>7. PermitsRespected' \/ \E n \in Node : leg[n] = "waiting" /\ leg'[n] # "waiting"
    BY PermitsKept
  <1>8. QED
    BY <1>1, <1>2, <1>5, <1>6, <1>7
-----------------------------------------------------------------------------
(* One lemma per action: it keeps the invariant.                           *)

LEMMA SurfaceKeeps == IInv /\ Surface => IInv'
  <1> SUFFICES ASSUME IInv, Surface PROVE IInv'
    OBVIOUS
  <1> DEFINE skips  == Skipped(ReadySet)
             denied == Denied(ReadySet \ skips)
             run    == (ReadySet \ skips) \ denied
             gone   == skips \cup denied
  <1>1. PICK s \in [1 .. Cardinality(Batches(run)) -> Batches(run)] :
            CoalescedIn(run, s) /\ queue' = queue \o s
    BY DEF Surface
  <1>2. /\ ReadySet \subseteq Node /\ ReadySet \cap (dispatched \cup settled) = {}
        /\ skips \subseteq ReadySet /\ denied \subseteq ReadySet /\ run \subseteq ReadySet
        /\ run \cap gone = {} /\ skips \cap denied = {} /\ gone \cup run = ReadySet
        /\ run \in SUBSET Node /\ gone \in SUBSET Node
    BY DEF ReadySet, Skipped, Denied
  <1>3. /\ settled' = settled \cup gone /\ tainted' = tainted \cup gone
        /\ indegree' = RelaxChildren(gone)
    BY <1>2 DEF Surface, Settle
  <1>4. /\ dispatched' = dispatched \cup run /\ pc' = "admit"
        /\ progressed' = (ReadySet # {})
        /\ UNCHANGED <<plan, resident, leg, attempt, jobs, landed>>
        /\ ledger' = [n \in Node |-> IF n \in skips  THEN "skipped"
                                 ELSE IF n \in denied THEN "failed"
                                 ELSE ledger[n]]
    BY DEF Surface, worldVars
  <1> HIDE DEF skips, denied, run, gone
  <1>5. /\ s \in Seq(SUBSET Node)
        /\ \A i \in DOMAIN s : s[i] # {} /\ s[i] \subseteq run
        /\ \A n \in run : \E i \in DOMAIN s : n \in s[i]
        /\ \A i, j \in DOMAIN s : i # j => s[i] \cap s[j] = {}
    BY <1>1, <1>2, CoalescedFacts DEF IInv
  <1>6. queue \in Seq(SUBSET Node)
    BY DEF IInv, TypeOK
  <1>7. \A n \in Node : Parents(plan.deps, n) \in SUBSET Node
    BY PlanFacts DEF IInv
  <1>8. settled \in SUBSET Node /\ settled \cap gone = {}
    BY <1>2 DEF IInv, TypeOK
  <1>9. ASSUME NEW n \in Node
        PROVE  indegree'[n] = Cardinality(Parents(plan.deps, n) \ settled')
    <2>1. indegree'[n] = indegree[n] - Cardinality(Parents(plan.deps, n) \cap gone)
      BY <1>3 DEF RelaxChildren
    <2>2. indegree[n] = Cardinality(Parents(plan.deps, n) \ settled)
      BY DEF IInv, FrontierOK
    <2>3. Cardinality(Parents(plan.deps, n) \ (settled \cup gone))
          = Cardinality(Parents(plan.deps, n) \ settled)
            - Cardinality(Parents(plan.deps, n) \cap gone)
      <3>1. /\ gone \in SUBSET Node /\ Parents(plan.deps, n) \in SUBSET Node
            /\ settled \in SUBSET Node /\ settled \cap gone = {}
        BY <1>2, <1>7, <1>8
      <3>2. QED
        BY <3>1, RelaxCounts
    <2>4. settled' = settled \cup gone
      BY <1>3
    <2>5. QED
      BY <2>1, <2>2, <2>3, <2>4
  <1>10. TypeOK'
    <2>1. indegree' \in [Node -> Nat]
      <3>1. \A n \in Node : Cardinality(Parents(plan.deps, n) \ settled') \in Nat
        BY <1>7, NodeFacts
      <3>2. indegree' = [n \in Node |-> indegree'[n]]
        BY <1>3 DEF RelaxChildren
      <3>3. QED
        BY <1>9, <3>1, <3>2
    <2>2. ledger' \in [Node -> {"none", "applied", "failed", "skipped"}]
      BY <1>4 DEF IInv, TypeOK
    <2>3. queue' \in Seq(SUBSET Node)
      BY <1>1, <1>5, <1>6, ConcatFacts
    <2>4. progressed' \in BOOLEAN
      BY <1>4
    <2>5. QED
      BY <1>2, <1>3, <1>4, <1>8, <2>1, <2>2, <2>3, <2>4 DEF IInv, TypeOK
  <1>11. FrontierOK'
    <2>1. dispatched' \cap settled' = {}
      BY <1>2, <1>3, <1>4 DEF IInv, FrontierOK
    <2>2. ASSUME NEW n \in Node
          PROVE  /\ ledger'[n] = "none" <=> n \notin settled'
                 /\ ledger'[n] \in {"failed", "skipped"} <=> n \in tainted'
      <3>1. gone = skips \cup denied
        BY DEF gone
      <3>2. QED
        BY <1>3, <1>4, <3>1 DEF IInv, FrontierOK
    <2>3. QED
      BY <1>4, <1>9, <2>1, <2>2 DEF FrontierOK
  <1>12. /\ \A i \in DOMAIN queue' :
               \/ i \in DOMAIN queue /\ queue'[i] = queue[i]
               \/ /\ i \notin DOMAIN queue /\ i - Len(queue) \in DOMAIN s
                  /\ queue'[i] = s[i - Len(queue)]
         /\ \A i \in DOMAIN queue : i \in DOMAIN queue' /\ queue'[i] = queue[i]
         /\ \A i \in DOMAIN s : /\ i + Len(queue) \in DOMAIN queue'
                                /\ queue'[i + Len(queue)] = s[i]
    <2>1. s \in Seq(SUBSET Node) /\ queue' = queue \o s
      BY <1>1, <1>5
    <2>2. \A i : i \in DOMAIN queue <=> i \in Nat /\ 1 <= i /\ i <= Len(queue)
      BY <1>6
    <2>3. \A i \in DOMAIN queue' : i \in Nat /\ 1 <= i
      BY <1>6, <2>1
    <2>4. \A i \in DOMAIN queue' :
             IF i <= Len(queue) THEN i \in DOMAIN queue /\ queue'[i] = queue[i]
             ELSE i - Len(queue) \in DOMAIN s /\ queue'[i] = s[i - Len(queue)]
      BY <1>6, <2>1, ConcatFacts
    <2>5. \A i \in DOMAIN queue : i \in DOMAIN queue' /\ queue'[i] = queue[i]
      BY <1>6, <2>1, ConcatFacts
    <2>6. \A i \in DOMAIN s : /\ i + Len(queue) \in DOMAIN queue'
                             /\ queue'[i + Len(queue)] = s[i]
      BY <1>6, <2>1, ConcatFacts
    <2>7. QED
      BY <2>2, <2>3, <2>4, <2>5, <2>6
  <1>13. /\ InBatch(Queued)' = InBatch(Queued) \cup run
         /\ InBatch(resident)' = InBatch(resident)
    <2>1. InBatch(Queued)' \subseteq InBatch(Queued) \cup run
      BY <1>5, <1>12 DEF InBatch, Queued
    <2>2. InBatch(Queued) \subseteq InBatch(Queued)'
      BY <1>12 DEF InBatch, Queued
    <2>3. run \subseteq InBatch(Queued)'
      BY <1>2, <1>5, <1>12 DEF InBatch, Queued
    <2>4. QED
      BY <1>4, <2>1, <2>2, <2>3 DEF InBatch
  <1>14. BatchesOK'
    <2>1. dispatched' = (InBatch(Queued) \cup InBatch(resident))'
      BY <1>4, <1>13 DEF IInv, BatchesOK
    <2>2. \A g \in (Queued \cup resident)' : g # {}
      BY <1>4, <1>5, <1>12 DEF IInv, BatchesOK, Queued
    <2>3. \A i \in DOMAIN queue : queue[i] \subseteq dispatched
      BY <1>6 DEF IInv, BatchesOK, InBatch, Queued
    <2>4. \A g \in resident : g \subseteq dispatched
      BY DEF IInv, TypeOK, BatchesOK, InBatch
    <2>5. run \cap dispatched = {}
      BY <1>2
    <2>6. \A i, j \in DOMAIN queue' : i # j => queue'[i] \cap queue'[j] = {}
      <3> SUFFICES ASSUME NEW i \in DOMAIN queue', NEW j \in DOMAIN queue', i # j
                   PROVE  queue'[i] \cap queue'[j] = {}
        OBVIOUS
      <3>1. CASE i \in DOMAIN queue /\ j \in DOMAIN queue
        BY <1>12, <3>1 DEF IInv, BatchesOK
      <3>2. CASE i \in DOMAIN queue /\ j \notin DOMAIN queue
        BY <1>5, <1>12, <2>3, <2>5, <3>2
      <3>3. CASE i \notin DOMAIN queue /\ j \in DOMAIN queue
        BY <1>5, <1>12, <2>3, <2>5, <3>3
      <3>4. CASE i \notin DOMAIN queue /\ j \notin DOMAIN queue
        <4>1. i - Len(queue) \in DOMAIN s /\ j - Len(queue) \in DOMAIN s
          BY <1>12, <3>4
        <4>2. i - Len(queue) # j - Len(queue)
          <5>1. i \in Int /\ j \in Int /\ Len(queue) \in Int
            BY <1>1, <1>5, <1>6, ConcatFacts
          <5>2. QED
            BY <5>1
        <4>3. QED
          BY <1>5, <1>12, <3>4, <4>1, <4>2
      <3>5. QED
        BY <3>1, <3>2, <3>3, <3>4
    <2>7. \A i \in DOMAIN queue', g \in resident' : queue'[i] \cap g = {}
      <3> SUFFICES ASSUME NEW i \in DOMAIN queue', NEW g \in resident
                   PROVE  queue'[i] \cap g = {}
        BY <1>4
      <3>1. CASE i \in DOMAIN queue
        BY <1>12, <3>1 DEF IInv, BatchesOK
      <3>2. CASE i \notin DOMAIN queue
        BY <1>5, <1>12, <2>4, <2>5, <3>2
      <3>3. QED
        BY <3>1, <3>2
    <2>8. QED
      BY <1>4, <2>1, <2>2, <2>6, <2>7 DEF IInv, BatchesOK
  <1>15. ASSUME NEW n \in Node, Cleared(n)
         PROVE  Cleared(n)'
    <2>1. \A p \in Parents(plan.deps, n) : p \in Node /\ p \in settled /\ ledger[p] = "applied"
      BY <1>7, <1>15 DEF Cleared, IInv, FrontierOK
    <2>2. QED
      BY <1>2, <1>4, <1>15, <2>1 DEF Cleared
  <1>16. ASSUME NEW n \in run
         PROVE  Cleared(n)'
    <2>1. n \in Node /\ n \notin plan.denied /\ Parents(plan.deps, n) \cap tainted = {}
      BY <1>2 DEF run, denied, Denied, skips, Skipped
    <2>2. Parents(plan.deps, n) \ settled = {}
      <3>1. indegree[n] = 0
        BY <1>2, <1>16 DEF ReadySet
      <3>2. QED
        BY <1>7, <2>1, <3>1, NoParentLeft DEF IInv, FrontierOK
    <2>3. \A p \in Parents(plan.deps, n) : p \in Node /\ ledger[p] = "applied"
      BY <1>7, <2>1, <2>2 DEF IInv, FrontierOK, TypeOK
    <2>4. \A p \in Parents(plan.deps, n) : ledger'[p] = "applied"
      BY <1>2, <1>4, <2>2, <2>3
    <2>5. QED
      BY <1>4, <2>1, <2>4 DEF Cleared
  <1>17. LegsOK'
    <2> SUFFICES ASSUME NEW n \in Node
                 PROVE  /\ n \in dispatched' => Cleared(n)'
                        /\ leg[n] # "idle" => Cleared(n)' /\ ledger'[n] # "skipped"
                        /\ n \in InBatch(resident) => leg[n] # "idle"
                        /\ n \in InBatch(Queued)' => leg[n] = "idle"
                        /\ n \notin dispatched' => leg[n] \in {"idle", "applied", "failed"}
                        /\ n \notin dispatched' \cup settled' => leg[n] = "idle"
                        /\ ledger'[n] = "applied" => leg[n] = "applied"
      BY <1>4, <1>13 DEF LegsOK
    <2>1. n \in ReadySet => leg[n] = "idle"
      BY <1>2 DEF IInv, LegsOK
    <2>2. n \in dispatched' => Cleared(n)'
      BY <1>4, <1>15, <1>16 DEF IInv, LegsOK
    <2>3. leg[n] # "idle" => Cleared(n)' /\ ledger'[n] # "skipped"
      BY <1>2, <1>4, <1>15, <2>1 DEF IInv, LegsOK
    <2>4. n \in InBatch(Queued)' => leg[n] = "idle"
      BY <1>2, <1>13, <2>1 DEF IInv, LegsOK
    <2>5. ledger'[n] = "applied" => leg[n] = "applied"
      BY <1>4 DEF IInv, LegsOK
    <2>6. QED
      BY <1>3, <1>4, <2>2, <2>3, <2>4, <2>5 DEF IInv, LegsOK
  <1>18. AttemptsOK' /\ WorldOK' /\ OnceOK'
    BY <1>4 DEF IInv, AttemptsOK, WorldOK, OnceOK, Once, Started, Running
  <1>19. LoopOK'
    <2>1. ASSUME ReadySet = {} PROVE ReadySet' = {}
      <3>1. gone = {} /\ run = {}
        BY <1>2, <2>1
      <3>2. settled' = settled /\ dispatched' = dispatched
        BY <1>3, <1>4, <3>1
      <3>3. ASSUME NEW n \in Node PROVE indegree'[n] = indegree[n]
        <4>1. indegree'[n] = Cardinality(Parents(plan.deps, n) \ settled)
          BY <1>9, <3>2
        <4>2. indegree[n] = Cardinality(Parents(plan.deps, n) \ settled)
          BY DEF IInv, FrontierOK
        <4>3. QED
          BY <4>1, <4>2
      <3>4. QED
        BY <2>1, <3>2, <3>3 DEF ReadySet
    <2>2. QED
      BY <1>4, <2>1 DEF LoopOK
  <1>20. PermitsRespected'
    BY <1>4, PermitsKept
  <1>21. QED
    BY <1>10, <1>11, <1>14, <1>17, <1>18, <1>19, <1>20 DEF IInv
LEMMA AdmitKeeps == IInv /\ Admit => IInv'
  <1> SUFFICES ASSUME IInv, Admit PROVE IInv'
    OBVIOUS
  <1>0. PICK g : g = Head(queue)
    OBVIOUS
  <1>1. /\ queue # << >> /\ Cardinality(resident) < Global
        /\ resident' = resident \cup {g} /\ queue' = Tail(queue)
        /\ leg' = [n \in Node |-> IF n \in g THEN "waiting" ELSE leg[n]]
        /\ UNCHANGED <<plan, pc, progressed, indegree, dispatched, settled,
                       tainted, ledger, attempt, jobs, landed>>
    BY <1>0 DEF Admit, Admissible, frontierVars, worldVars
  <1>2. queue \in Seq(SUBSET Node) /\ resident \in SUBSET SUBSET Node
    BY DEF IInv, TypeOK
  <1>3. /\ queue' \in Seq(SUBSET Node)
        /\ 1 \in DOMAIN queue /\ g = queue[1]
        /\ \A i \in DOMAIN queue' : /\ i + 1 \in DOMAIN queue /\ i + 1 # 1
                                    /\ queue'[i] = queue[i + 1]
        /\ \A i \in DOMAIN queue : i # 1 => /\ i - 1 \in DOMAIN queue'
                                            /\ queue'[i - 1] = queue[i]
    BY <1>0, <1>1, <1>2, TailFacts
  <1>4. g \in SUBSET Node /\ g # {} /\ g \in Queued
    <2>1. g \in Queued
      BY <1>3 DEF Queued
    <2>2. g # {}
      BY <2>1 DEF IInv, BatchesOK
    <2>3. g \in SUBSET Node
      BY <1>2, <1>3
    <2>4. QED
      BY <2>1, <2>2, <2>3
  <1>5. \A n \in g : leg[n] = "idle" /\ n \in Node
    BY <1>4 DEF IInv, LegsOK, InBatch
  <1>6. TypeOK'
    <2>1. leg' \in [Node -> LegState]
      BY <1>1 DEF IInv, TypeOK, LegState
    <2>2. QED
      BY <1>1, <1>2, <1>3, <1>4, <2>1 DEF IInv, TypeOK
  <1>7. FrontierOK'
    BY <1>1 DEF IInv, FrontierOK
  <1>8. /\ InBatch(resident)' = InBatch(resident) \cup g
        /\ InBatch(Queued) = InBatch(Queued)' \cup g
        /\ InBatch(Queued)' \cap g = {}
    <2>1. InBatch(resident)' = InBatch(resident) \cup g
      BY <1>1, <1>4 DEF InBatch
    <2>2. InBatch(Queued)' \cup g \subseteq InBatch(Queued)
      BY <1>3, <1>4 DEF InBatch, Queued
    <2>3. InBatch(Queued) \subseteq InBatch(Queued)' \cup g
      BY <1>3 DEF InBatch, Queued
    <2>4. InBatch(Queued)' \cap g = {}
      BY <1>3 DEF InBatch, Queued, IInv, BatchesOK
    <2>5. QED
      BY <2>1, <2>2, <2>3, <2>4
  <1>9. BatchesOK'
    <2>1. dispatched' = (InBatch(Queued) \cup InBatch(resident))'
      BY <1>1, <1>8 DEF IInv, BatchesOK
    <2>2. \A h \in (Queued \cup resident)' : h # {}
      <3>1. Queued' \subseteq Queued
        BY <1>3 DEF Queued
      <3>2. QED
        BY <1>1, <1>4, <3>1 DEF IInv, BatchesOK
    <2>3. \A i, j \in DOMAIN queue' : i # j => queue'[i] \cap queue'[j] = {}
      <3>1. \A i, j \in DOMAIN queue' : i # j => i + 1 # j + 1
        BY <1>3
      <3>2. QED
        BY <1>3, <3>1 DEF IInv, BatchesOK
    <2>4. \A i \in DOMAIN queue', h \in resident' : queue'[i] \cap h = {}
      BY <1>1, <1>3 DEF IInv, BatchesOK
    <2>5. \A h, k \in resident' : h # k => h \cap k = {}
      BY <1>1, <1>3 DEF IInv, BatchesOK
    <2>6. QED
      BY <2>1, <2>2, <2>3, <2>4, <2>5 DEF BatchesOK
  <1>10. LegsOK'
    <2> SUFFICES ASSUME NEW n \in Node
                 PROVE  /\ n \in dispatched => Cleared(n)
                        /\ leg'[n] # "idle" => Cleared(n) /\ ledger[n] # "skipped"
                        /\ n \in InBatch(resident)' => leg'[n] # "idle"
                        /\ n \in InBatch(Queued)' => leg'[n] = "idle"
                        /\ n \notin dispatched => leg'[n] \in {"idle", "applied", "failed"}
                        /\ n \notin dispatched \cup settled => leg'[n] = "idle"
                        /\ ledger[n] = "applied" => leg'[n] = "applied"
      BY <1>1 DEF LegsOK, Cleared
    <2>1. CASE n \notin g
      BY <1>1, <1>8, <2>1 DEF IInv, LegsOK
    <2>2. CASE n \in g
      <3>1. leg'[n] = "waiting"
        BY <1>1, <2>2
      <3>2. n \in dispatched /\ n \notin settled /\ ledger[n] = "none"
        BY <1>8, <2>2 DEF IInv, BatchesOK, FrontierOK
      <3>3. QED
        BY <1>8, <2>2, <3>1, <3>2 DEF IInv, LegsOK
    <2>3. QED
      BY <2>1, <2>2
  <1>11. AttemptsOK' /\ WorldOK' /\ OnceOK'
    <2>1. \A n \in Node : leg'[n] = leg[n] \/ (leg[n] = "idle" /\ leg'[n] = "waiting")
      BY <1>1, <1>5
    <2>2. AttemptsOK'
      BY <1>1, <2>1 DEF IInv, AttemptsOK
    <2>3. WorldOK'
      BY <1>1, <2>1 DEF IInv, WorldOK, Started
    <2>4. OnceOK'
      BY <1>1, <2>1 DEF IInv, OnceOK, Once, Started, Running
    <2>5. QED
      BY <2>2, <2>3, <2>4
  <1>12. LoopOK'
    BY <1>1 DEF IInv, LoopOK, ReadySet, Admit
  <1>13. PermitsRespected'
    <2>1. Cardinality(resident') <= Global
      <3>1. Cardinality(resident') <= Cardinality(resident) + 1
        <4>1. IsFiniteSet(resident) /\ Cardinality(resident) \in Nat
          BY <1>2, BatchSetsFinite
        <4>2. Cardinality(resident \cup {g})
              = IF g \in resident THEN Cardinality(resident) ELSE Cardinality(resident) + 1
          BY <4>1, FS_AddElement
        <4>3. QED
          BY <1>1, <4>1, <4>2
      <3>2. Cardinality(resident) \in Nat /\ Cardinality(resident') \in Nat
        BY <1>1, <1>2, <1>4, BatchSetsFinite
      <3>3. QED
        BY <1>1, <3>1, <3>2, LimitsAssumption
    <2>2. ASSUME NEW d \in Driver PROVE Holders(d)' \subseteq Holders(d)
      <3>1. ~ HoldsPermit(g)'
        BY <1>1, <1>4 DEF HoldsPermit
      <3>2. ASSUME NEW h \in resident PROVE HoldsPermit(h)' => HoldsPermit(h)
        <4>1. h \cap g = {} /\ h \in SUBSET Node
          BY <1>2, <1>3 DEF IInv, BatchesOK
        <4>2. QED
          BY <1>1, <4>1 DEF HoldsPermit
      <3>3. \A h : DriverOfBatch(h)' = DriverOfBatch(h)
        BY <1>1 DEF DriverOfBatch, KeyOf
      <3>4. QED
        BY <1>1, <3>1, <3>2, <3>3 DEF Holders
    <2>3. ASSUME NEW d \in Driver PROVE Cardinality(Holders(d)') <= PerDriver
      <3>1. Holders(d) \in SUBSET SUBSET Node /\ Holders(d)' \in SUBSET SUBSET Node
        BY <1>2, <2>2 DEF Holders
      <3>2. Cardinality(Holders(d)') <= Cardinality(Holders(d))
        BY <2>2, <3>1, BatchSetsFinite, FS_Subset
      <3>3. Cardinality(Holders(d)) <= PerDriver
        BY DEF IInv, PermitsRespected
      <3>4. QED
        BY <3>1, <3>2, <3>3, BatchSetsFinite, LimitsAssumption
    <2>4. QED
      BY <2>1, <2>3 DEF PermitsRespected
  <1>14. QED
    BY <1>6, <1>7, <1>9, <1>10, <1>11, <1>12, <1>13 DEF IInv

\* The loop ends only when every node has settled: otherwise the smallest
\* unsettled set closed under parents would be a cycle.
LEMMA EndPassKeeps == IInv /\ EndPass => IInv'
  <1> SUFFICES ASSUME IInv, EndPass PROVE IInv'
    OBVIOUS
  <1>1. /\ pc = "admit" /\ pc' = AfterPass
        /\ UNCHANGED <<plan, progressed, indegree, dispatched, settled, tainted,
                       ledger, queue, resident, leg, attempt, jobs, landed>>
    BY DEF EndPass, frontierVars, worldVars
  <1>2. pc' \in {"await", "done", "surface"}
    BY <1>1 DEF AfterPass
  <1>3. ASSUME pc' = "done"
        PROVE  settled = Node /\ queue = << >> /\ resident = {}
    <2>1. resident = {} /\ queue = << >> /\ (settled = Node \/ ~ progressed)
      BY <1>1, <1>3 DEF AfterPass
    <2>2. CASE settled # Node
      <3>1. ReadySet = {} /\ queue = << >>
        BY <1>1, <2>1, <2>2 DEF IInv, LoopOK
      <3>2. dispatched = {}
        BY <2>1, <3>1 DEF IInv, BatchesOK, InBatch, Queued
      <3>3. settled \in SUBSET Node /\ Node \ settled # {}
        BY <2>2 DEF IInv, TypeOK
      <3>4. ASSUME NEW n \in Node \ settled
            PROVE  \E p \in Node \ settled : <<p, n>> \in plan.deps
        <4>1. indegree[n] # 0
          BY <3>1, <3>2 DEF ReadySet
        <4>2. Parents(plan.deps, n) \ settled # {}
          <5>1. Parents(plan.deps, n) \ settled \in SUBSET Node
            BY PlanFacts DEF IInv
          <5>2. Cardinality(Parents(plan.deps, n) \ settled) # 0
            BY <4>1 DEF IInv, FrontierOK
          <5>3. QED
            BY <5>1, <5>2, NoParentLeft
        <4>3. QED
          BY <4>2 DEF Parents
      <3>5. ~ Acyclic(plan.deps)
        BY <3>3, <3>4 DEF Acyclic
      <3>6. QED
        BY <3>5, PlanFacts DEF IInv
    <2>3. QED
      BY <2>1, <2>2
  <1>4. TypeOK'
    BY <1>1, <1>2 DEF IInv, TypeOK
  <1>5. FrontierOK' /\ BatchesOK'
    BY <1>1 DEF IInv, FrontierOK, BatchesOK, Queued, InBatch
  <1>6. LegsOK'
    BY <1>1 DEF IInv, LegsOK, Cleared, Queued, InBatch
  <1>7. AttemptsOK' /\ WorldOK' /\ OnceOK'
    BY <1>1 DEF IInv, AttemptsOK, WorldOK, OnceOK, Once, Started, Running
  <1>8. LoopOK'
    BY <1>1, <1>2, <1>3 DEF LoopOK
  <1>9. PermitsRespected'
    BY <1>1, PermitsKept
  <1>10. QED
    BY <1>4, <1>5, <1>6, <1>7, <1>8, <1>9 DEF IInv
\* What is known of a resident batch.
LEMMA ResidentFacts ==
    ASSUME IInv, NEW g \in resident
    PROVE  /\ g \in SUBSET Node /\ g # {}
           /\ g \subseteq InBatch(resident) /\ g \subseteq dispatched
           /\ g \cap settled = {}
           /\ \A h \in resident : h # g => h \cap g = {}
  <1>1. g \in SUBSET Node /\ g # {}
    BY DEF IInv, TypeOK, BatchesOK
  <1>2. g \subseteq InBatch(resident)
    BY <1>1 DEF InBatch
  <1>3. QED
    BY <1>1, <1>2 DEF IInv, BatchesOK, FrontierOK

LEMMA AcquirePermitKeeps ==
    ASSUME IInv, NEW g \in resident, AcquirePermit(g)
    PROVE  IInv'
  <1>1. /\ UNCHANGED <<plan, pc, progressed, frontierVars, ledger, queue, resident>>
        /\ jobs' = jobs /\ landed' = landed
    BY DEF AcquirePermit, worldVars
  <1>2. \A n \in g : n \in Node /\ leg[n] = "waiting" /\ n \in InBatch(resident)
    BY ResidentFacts DEF AcquirePermit, HoldsPermit
  <1>3. PICK to \in {"due", "failed"} :
            /\ leg' = [n \in Node |-> IF n \in g THEN to ELSE leg[n]]
            /\ \/ attempt' = attempt
               \/ to = "failed" /\ attempt' = [n \in Node |-> IF n \in g THEN 1 ELSE attempt[n]]
    BY DEF AcquirePermit, SetLegs
  <1>4. leg' \in [Node -> LegState] /\ attempt' \in [Node -> 0 .. MaxAttempts]
    <2>1. leg' \in [Node -> LegState]
      BY <1>3 DEF IInv, TypeOK, LegState
    <2>2. 1 \in 0 .. MaxAttempts /\ attempt \in [Node -> 0 .. MaxAttempts]
      BY LimitsAssumption DEF IInv, TypeOK
    <2>3. QED
      BY <1>3, <2>1, <2>2
  <1>5. TypeOK'
    BY <1>1, <1>4 DEF IInv, TypeOK, frontierVars
  <1>6. \A n \in Node : leg'[n] # leg[n] =>
            n \in InBatch(resident) /\ leg'[n] \notin {"idle", "waiting"}
    BY <1>2, <1>3
  <1>7. FrontierOK' /\ BatchesOK' /\ LegsOK' /\ LoopOK'
    BY <1>1, <1>4, <1>6, LegsMove
  <1>8. \A n \in Node : \/ leg'[n] = leg[n] /\ attempt'[n] = attempt[n]
                        \/ leg[n] = "waiting" /\ leg'[n] = "due" /\ attempt'[n] = attempt[n]
                        \/ leg[n] = "waiting" /\ leg'[n] = "failed"
    BY <1>2, <1>3
  <1>9. AttemptsOK'
    BY <1>1, <1>8, LimitsAssumption DEF IInv, AttemptsOK
  <1>10. WorldOK'
    BY <1>1, <1>8 DEF IInv, WorldOK, Started
  <1>11. OnceOK'
    <2>1. ASSUME NEW n \in plan.irreversible \cap Node PROVE Once(n)'
      BY <1>1, <1>8 DEF IInv, OnceOK, WorldOK, Once, Started, Running
    <2>2. QED
      BY <1>1, <2>1 DEF OnceOK
  <1>12. PermitsRespected'
    <2>1. ASSUME NEW h \in resident, h # g PROVE HoldsPermit(h)' => HoldsPermit(h)
      <3>1. h \cap g = {} /\ h \in SUBSET Node
        BY <2>1, ResidentFacts
      <3>2. QED
        BY <1>3, <3>1 DEF HoldsPermit
    <2>2. \A h : DriverOfBatch(h)' = DriverOfBatch(h)
      BY <1>1 DEF DriverOfBatch, KeyOf
    <2>3. ASSUME NEW d \in Driver PROVE Cardinality(Holders(d)') <= PerDriver
      <3>1. Holders(d)' \subseteq
              Holders(d) \cup (IF d = DriverOfBatch(g) THEN {g} ELSE {})
        BY <1>1, <2>1, <2>2 DEF Holders
      <3>2. /\ Holders(d) \in SUBSET SUBSET Node /\ Holders(d)' \in SUBSET SUBSET Node
            /\ Holders(d) \cup {g} \in SUBSET SUBSET Node
        BY <1>1, ResidentFacts DEF Holders, IInv, TypeOK
      <3>3. Cardinality(Holders(d)) <= PerDriver
        BY DEF IInv, PermitsRespected
      <3>4. CASE d = DriverOfBatch(g)
        <4>1. Cardinality(Holders(d)) < PerDriver
          BY <3>4 DEF AcquirePermit
        <4>2. Cardinality(Holders(d)') <= Cardinality(Holders(d) \cup {g})
          BY <3>1, <3>2, <3>4, BatchSetsFinite, FS_Subset
        <4>3. Cardinality(Holders(d) \cup {g}) =
                IF g \in Holders(d) THEN Cardinality(Holders(d))
                ELSE Cardinality(Holders(d)) + 1
          BY <3>2, BatchSetsFinite, FS_AddElement
        <4>4. /\ Cardinality(Holders(d)) \in Nat /\ Cardinality(Holders(d)') \in Nat
              /\ Cardinality(Holders(d) \cup {g}) \in Nat
          BY <3>2, BatchSetsFinite
        <4>5. QED
          BY <4>1, <4>2, <4>3, <4>4, LimitsAssumption
      <3>5. CASE d # DriverOfBatch(g)
        <4>1. Cardinality(Holders(d)') <= Cardinality(Holders(d))
          BY <3>1, <3>2, <3>5, BatchSetsFinite, FS_Subset
        <4>2. Cardinality(Holders(d)) \in Nat /\ Cardinality(Holders(d)') \in Nat
          BY <3>2, BatchSetsFinite
        <4>3. QED
          BY <3>3, <4>1, <4>2, LimitsAssumption
      <3>6. QED
        BY <3>4, <3>5
    <2>4. Cardinality(resident') <= Global
      BY <1>1 DEF IInv, PermitsRespected
    <2>5. QED
      BY <2>3, <2>4 DEF PermitsRespected
  <1>13. QED
    BY <1>5, <1>7, <1>9, <1>10, <1>11, <1>12 DEF IInv

\* The steps of a call: they move legs of one batch that already holds its
\* permits.  What each may do to a leg and to its attempts is stated once.
CallStep(n) ==
    \/ leg'[n] = leg[n] /\ attempt'[n] = attempt[n]
    \/ leg[n] = "due" /\ leg'[n] = "called" /\ attempt'[n] = attempt[n] + 1
    \/ leg[n] \in InCall /\ leg'[n] = "due" /\ attempt'[n] = attempt[n] /\ MayRetry(n)
    \/ leg[n] = "ok" /\ leg'[n] = "applied" /\ attempt'[n] = attempt[n]
    \/ leg[n] \in InCall /\ leg'[n] = "failed" /\ attempt'[n] = attempt[n]

LEMMA CallStepKeeps ==
    ASSUME IInv, NEW g \in resident,
           UNCHANGED <<plan, pc, progressed, frontierVars, ledger, queue, resident, worldVars>>,
           leg' \in [Node -> LegState],
           attempt' = [n \in Node |-> attempt'[n]],
           \A n \in Node : CallStep(n) /\ (leg'[n] # leg[n] => n \in g)
    PROVE  IInv'
  <1> USE DEF worldVars
  <1>1. \A n \in Node : leg'[n] # leg[n] =>
            n \in InBatch(resident) /\ leg'[n] \notin {"idle", "waiting"}
    BY ResidentFacts DEF CallStep
  <1>2. \A n \in Node : leg[n] = "waiting" => leg'[n] = "waiting"
    BY DEF CallStep, InCall, Verdict
  <1>3. FrontierOK' /\ BatchesOK' /\ LegsOK' /\ LoopOK'
    BY <1>1, LegsMove
  <1>4. PermitsRespected'
    BY <1>2, PermitsKept
  <1>5. ASSUME NEW n \in Node
        PROVE  /\ attempt'[n] \in 0 .. MaxAttempts
               /\ leg'[n] \in {"idle", "waiting"} => attempt'[n] = 0
               /\ leg'[n] = "due" => attempt'[n] < MaxAttempts
               /\ leg'[n] \in {"called", "running"} => attempt'[n] > 0
               /\ n \in plan.irreversible /\ leg'[n] = "due" => attempt'[n] = 0
    <2>1. attempt[n] \in 0 .. MaxAttempts /\ MaxAttempts \in Nat
      BY LimitsAssumption DEF IInv, TypeOK
    <2>2. /\ leg[n] \in {"idle", "waiting"} => attempt[n] = 0
          /\ leg[n] = "due" => attempt[n] < MaxAttempts
          /\ leg[n] \in {"called", "running"} => attempt[n] > 0
          /\ n \in plan.irreversible /\ leg[n] = "due" => attempt[n] = 0
      BY DEF IInv, AttemptsOK
    <2>3. CallStep(n)
      OBVIOUS
    <2>4. QED
      BY <2>1, <2>2, <2>3 DEF CallStep, MayRetry
  <1>6. TypeOK'
    <2>1. attempt' \in [Node -> 0 .. MaxAttempts]
      BY <1>5
    <2>2. QED
      BY <2>1 DEF IInv, TypeOK, frontierVars
  <1>7. AttemptsOK'
    BY <1>5 DEF AttemptsOK
  <1>8. WorldOK'
    BY DEF CallStep, InCall, Verdict, IInv, WorldOK, Started
  <1>9. OnceOK'
    <2>1. ASSUME NEW n \in plan.irreversible \cap Node PROVE Once(n)'
      <3>1. Once(n) /\ CallStep(n)
        BY DEF IInv, OnceOK
      <3>2. QED
        BY <3>1 DEF Once, CallStep, MayRetry, Started, Running
    <2>2. QED
      BY <2>1 DEF OnceOK
  <1>10. QED
    BY <1>3, <1>4, <1>6, <1>7, <1>8, <1>9 DEF IInv

LEMMA DispatchKeeps ==
    ASSUME IInv, NEW g \in resident, Dispatch(g)
    PROVE  IInv'
  <1> DEFINE subset == {n \in g : leg[n] = "due"}
  <1>1. /\ UNCHANGED <<plan, pc, progressed, frontierVars, ledger, queue, resident, worldVars>>
        /\ leg' = [n \in Node |-> IF n \in subset THEN "called" ELSE leg[n]]
        /\ attempt' = [n \in Node |-> IF n \in subset THEN attempt[n] + 1 ELSE attempt[n]]
    BY DEF Dispatch, SetLegs
  <1>2. leg' \in [Node -> LegState] /\ attempt' = [n \in Node |-> attempt'[n]]
    BY <1>1 DEF IInv, TypeOK, LegState
  <1>3. \A n \in Node : CallStep(n) /\ (leg'[n] # leg[n] => n \in g)
    BY <1>1 DEF CallStep
  <1>4. QED
    BY <1>1, <1>2, <1>3, CallStepKeeps

LEMMA BatchReturnsKeeps ==
    ASSUME IInv, NEW g \in resident, BatchReturns(g)
    PROVE  IInv'
  <1>1. /\ UNCHANGED <<plan, pc, progressed, frontierVars, ledger, queue, resident, worldVars>>
        /\ attempt' = attempt
        /\ leg' = [n \in Node |->
                      IF n \notin g \/ leg[n] \notin Verdict THEN leg[n]
                      ELSE IF leg[n] = "retryable" /\ MayRetry(n) THEN "due"
                      ELSE IF Succeeded(n) THEN "applied"
                      ELSE "failed"]
    BY DEF BatchReturns
  <1>2. leg' \in [Node -> LegState] /\ attempt' = [n \in Node |-> attempt'[n]]
    BY <1>1 DEF IInv, TypeOK, LegState
  <1>3. \A n \in Node : CallStep(n) /\ (leg'[n] # leg[n] => n \in g)
    BY <1>1 DEF CallStep, Succeeded, InCall
  <1>4. QED
    BY <1>1, <1>2, <1>3, CallStepKeeps

LEMMA BatchTimesOutKeeps ==
    ASSUME IInv, NEW g \in resident, BatchTimesOut(g)
    PROVE  IInv'
  <1>1. /\ UNCHANGED <<plan, pc, progressed, frontierVars, ledger, queue, resident, worldVars>>
        /\ attempt' = attempt
        /\ leg' = [n \in Node |->
                      IF n \notin g \/ leg[n] \notin InCall THEN leg[n]
                      ELSE IF MayRetry(n) THEN "due" ELSE "failed"]
    BY DEF BatchTimesOut
  <1>2. leg' \in [Node -> LegState] /\ attempt' = [n \in Node |-> attempt'[n]]
    BY <1>1 DEF IInv, TypeOK, LegState
  <1>3. \A n \in Node : CallStep(n) /\ (leg'[n] # leg[n] => n \in g)
    BY <1>1 DEF CallStep
  <1>4. QED
    BY <1>1, <1>2, <1>3, CallStepKeeps

LEMMA ApplyOneKeeps ==
    ASSUME IInv, NEW g \in resident, ApplyOne(g)
    PROVE  IInv'
  <1>1. /\ UNCHANGED <<plan, pc, progressed, frontierVars, ledger, queue, resident>>
        /\ attempt' = attempt /\ landed' = landed
    BY DEF ApplyOne
  <1>2. PICK n \in g : /\ n \in Node /\ leg[n] = "called"
                       /\ leg' = [m \in Node |-> IF m = n THEN "running" ELSE leg[m]]
                       /\ jobs' = jobs \cup {<<n, attempt[n]>>}
    <2> DEFINE called == {m \in g : leg[m] = "called"}
    <2>1. called \in SUBSET Node /\ called # {}
      BY ResidentFacts DEF ApplyOne
    <2>2. SmallestId(called) \in called
      BY <2>1, SmallestIdIsMember
    <2>3. /\ leg' = [m \in Node |-> IF m \in {SmallestId(called)} THEN "running" ELSE leg[m]]
          /\ jobs' = jobs \cup {<<SmallestId(called), attempt[SmallestId(called)]>>}
      BY DEF ApplyOne, SetLegs
    <2>4. QED
      BY <2>1, <2>2, <2>3
  <1>3. leg' \in [Node -> LegState]
    BY <1>2 DEF IInv, TypeOK, LegState
  <1>4. attempt[n] \in 1 .. MaxAttempts
    BY <1>2, LimitsAssumption DEF IInv, TypeOK, AttemptsOK
  <1>5. TypeOK'
    BY <1>1, <1>2, <1>3, <1>4 DEF IInv, TypeOK, frontierVars
  <1>6. \A m \in Node : leg'[m] # leg[m] =>
            m \in InBatch(resident) /\ leg'[m] \notin {"idle", "waiting"}
    BY <1>2, ResidentFacts
  <1>7. FrontierOK' /\ BatchesOK' /\ LegsOK' /\ LoopOK'
    BY <1>1, <1>3, <1>6, LegsMove
  <1>8. PermitsRespected'
    BY <1>1, <1>2, PermitsKept
  <1>9. AttemptsOK'
    BY <1>1, <1>2, <1>4 DEF IInv, AttemptsOK
  <1>10. \A m \in Node : m # n =>
            /\ leg'[m] = leg[m] /\ (Started(m)' <=> Started(m))
            /\ Running(m)' = Running(m)
    BY <1>1, <1>2 DEF Started, Running
  <1>11. leg'[n] = "running"
    BY <1>2
  <1>12. WorldOK'
    <2>1. ASSUME NEW m \in Node, m # n
          PROVE  /\ leg'[m] \in {"idle", "waiting"} => ~ Started(m)'
                 /\ leg'[m] \in {"ok", "applied"} => landed'[m] > 0
      BY <1>1, <1>10, <2>1 DEF IInv, WorldOK
    <2>2. QED
      BY <1>11, <2>1 DEF WorldOK
  <1>13. ASSUME NEW m \in plan.irreversible \cap Node PROVE Once(m)'
    <2>1. Once(m)
      BY DEF IInv, OnceOK
    <2>2. CASE m # n
      BY <1>1, <1>10, <2>1, <2>2 DEF Once
    <2>3. CASE m = n
      <3>1. ~ Started(n) /\ landed[n] \in Nat
        BY <1>2, <2>1, <2>3 DEF Once, IInv, TypeOK
      <3>2. landed[n] = 0 /\ Running(n) = {}
        BY <3>1 DEF Started, Running
      <3>3. Running(n)' = {attempt[n]}
        BY <1>2, <1>4, <3>2 DEF Running
      <3>4. QED
        BY <1>1, <1>11, <2>3, <3>2, <3>3 DEF Once
    <2>4. QED
      BY <2>2, <2>3
  <1>14. OnceOK'
    BY <1>1, <1>13 DEF OnceOK
  <1>15. QED
    BY <1>5, <1>7, <1>8, <1>9, <1>12, <1>14 DEF IInv

LEMMA JobEndsKeeps ==
    ASSUME IInv, NEW n \in Node, NEW k \in 1 .. MaxAttempts, JobEnds(n, k)
    PROVE  IInv'
  <1>1. /\ UNCHANGED <<plan, pc, progressed, frontierVars, ledger, queue, resident>>
        /\ attempt' = attempt
        /\ <<n, k>> \in jobs /\ jobs' = jobs \ {<<n, k>>}
    BY DEF JobEnds
  <1>2. PICK verdict \in Verdict, wrote \in BOOLEAN :
          /\ verdict = "ok" => wrote
          /\ landed' = [landed EXCEPT ![n] = IF wrote THEN @ + 1 ELSE @]
          /\ leg' = [leg EXCEPT ![n] = IF @ = "running" /\ attempt[n] = k
                                       THEN verdict ELSE @]
    BY DEF JobEnds
  <1>3. /\ leg \in [Node -> LegState] /\ landed \in [Node -> Nat]
    BY DEF IInv, TypeOK
  <1>4. leg' \in [Node -> LegState] /\ landed' \in [Node -> Nat]
    BY <1>2, <1>3 DEF LegState, Verdict
  <1>5. TypeOK'
    BY <1>1, <1>4 DEF IInv, TypeOK, frontierVars
  <1>6. \A m \in Node : m # n => leg'[m] = leg[m] /\ landed'[m] = landed[m]
    BY <1>2, <1>3
  <1>7. \/ leg'[n] = leg[n]
        \/ leg[n] = "running" /\ leg'[n] = verdict
    BY <1>2, <1>3
  <1>8. landed'[n] = IF wrote THEN landed[n] + 1 ELSE landed[n]
    BY <1>2, <1>3
  <1>9. leg[n] \notin {"idle", "waiting"}
    BY <1>1 DEF IInv, WorldOK, Started
  <1>10. \A m \in Node : leg'[m] # leg[m] =>
            m \in InBatch(resident) /\ leg'[m] \notin {"idle", "waiting"}
    <2>1. leg[n] = "running" => n \in InBatch(resident)
      BY DEF IInv, LegsOK, BatchesOK
    <2>2. QED
      BY <1>6, <1>7, <2>1 DEF Verdict
  <1>11. FrontierOK' /\ BatchesOK' /\ LegsOK' /\ LoopOK'
    BY <1>1, <1>4, <1>10, LegsMove
  <1>12. PermitsRespected'
    BY <1>1, <1>6, <1>7, PermitsKept
  <1>13. AttemptsOK'
    BY <1>1, <1>6, <1>7 DEF IInv, AttemptsOK, Verdict
  <1>14. \A m \in Node : m # n =>
            (Started(m)' <=> Started(m)) /\ Running(m)' = Running(m)
    BY <1>1, <1>6 DEF Started, Running
  <1>15. WorldOK'
    <2>1. ASSUME NEW m \in Node, m # n
          PROVE  /\ leg'[m] \in {"idle", "waiting"} => ~ Started(m)'
                 /\ leg'[m] \in {"ok", "applied"} => landed'[m] > 0
      BY <1>6, <1>14, <2>1 DEF IInv, WorldOK
    <2>2. leg'[n] \notin {"idle", "waiting"}
      BY <1>7, <1>9 DEF Verdict
    <2>3. ASSUME leg'[n] \in {"ok", "applied"} PROVE landed'[n] > 0
      <3>1. CASE leg'[n] = leg[n]
        BY <1>3, <1>8, <2>3, <3>1 DEF IInv, WorldOK
      <3>2. CASE leg'[n] = verdict
        BY <1>2, <1>3, <1>8, <2>3, <3>2 DEF Verdict
      <3>3. QED
        BY <1>7, <3>1, <3>2
    <2>4. QED
      BY <2>1, <2>2, <2>3 DEF WorldOK
  <1>16. ASSUME NEW m \in plan.irreversible \cap Node PROVE Once(m)'
    <2>1. Once(m)
      BY DEF IInv, OnceOK
    <2>2. CASE m # n
      BY <1>6, <1>14, <2>1, <2>2 DEF Once
    <2>3. CASE m = n
      <3>1. k \in Running(n)
        BY <1>1 DEF Running
      <3>2. landed[n] = 0
        BY <1>3, <2>1, <2>3, <3>1 DEF Once
      <3>3. Running(n)' = {}
        BY <1>1, <2>1, <2>3, <3>1 DEF Once, Running
      <3>4. leg[n] \notin {"due", "called"}
        BY <1>1, <2>1, <2>3 DEF Once, Started
      <3>5. leg'[n] \notin {"due", "called"}
        BY <1>7, <3>4 DEF Verdict
      <3>6. landed'[n] <= 1
        BY <1>8, <3>2
      <3>7. QED
        BY <2>3, <3>3, <3>5, <3>6 DEF Once
    <2>4. QED
      BY <2>2, <2>3
  <1>17. OnceOK'
    BY <1>1, <1>16 DEF OnceOK
  <1>18. QED
    BY <1>5, <1>11, <1>12, <1>13, <1>15, <1>17 DEF IInv

LEMMA FoldKeeps ==
    ASSUME IInv, NEW g \in resident, Fold(g)
    PROVE  IInv'
  <1> DEFINE ok == {n \in g : leg[n] = "applied"}
  <1>1. /\ UNCHANGED <<plan, progressed, queue, leg, attempt, jobs, landed>>
        /\ pc' = "surface" /\ resident' = resident \ {g} /\ dispatched' = dispatched \ g
        /\ ledger' = [n \in Node |-> IF n \in g THEN leg[n] ELSE ledger[n]]
        /\ \A n \in g : leg[n] \in {"applied", "failed"}
    BY DEF Fold, worldVars, Release, Pinned
  <1>2. /\ g \in SUBSET Node /\ g # {} /\ g \subseteq dispatched /\ g \cap settled = {}
        /\ \A h \in resident : h # g => h \cap g = {}
    BY ResidentFacts
  <1>3. /\ settled' = settled \cup g /\ tainted' = tainted \cup (g \ ok)
        /\ indegree' = RelaxChildren(g)
    <2>1. (ok \cup (g \ ok)) \ settled = g /\ (g \ ok) \ settled = g \ ok
      BY <1>2
    <2>2. Settle(ok, g \ ok)
      BY DEF Fold
    <2>3. QED
      BY <2>1, <2>2 DEF Settle
  <1>4. \A n \in Node : Parents(plan.deps, n) \in SUBSET Node
    BY PlanFacts DEF IInv
  <1>5. ASSUME NEW n \in Node
        PROVE  indegree'[n] = Cardinality(Parents(plan.deps, n) \ settled')
    <2>1. indegree'[n] = indegree[n] - Cardinality(Parents(plan.deps, n) \cap g)
      BY <1>3 DEF RelaxChildren
    <2>2. indegree[n] = Cardinality(Parents(plan.deps, n) \ settled)
      BY DEF IInv, FrontierOK
    <2>3. /\ settled \in SUBSET Node /\ g \in SUBSET Node /\ settled \cap g = {}
          /\ Parents(plan.deps, n) \in SUBSET Node
      BY <1>2, <1>4 DEF IInv, TypeOK
    <2>4. Cardinality(Parents(plan.deps, n) \ (settled \cup g))
          = Cardinality(Parents(plan.deps, n) \ settled)
            - Cardinality(Parents(plan.deps, n) \cap g)
      BY <2>3, RelaxCounts
    <2>5. settled' = settled \cup g
      BY <1>3
    <2>6. QED
      BY <2>1, <2>2, <2>4, <2>5
  <1>6. TypeOK'
    <2>1. indegree' \in [Node -> Nat]
      <3>1. \A n \in Node : Cardinality(Parents(plan.deps, n) \ settled') \in Nat
        BY <1>4, NodeFacts
      <3>2. indegree' = [n \in Node |-> indegree'[n]]
        BY <1>3 DEF RelaxChildren
      <3>3. QED
        BY <1>5, <3>1, <3>2
    <2>2. ledger' \in [Node -> {"none", "applied", "failed", "skipped"}]
      BY <1>1, <1>2 DEF IInv, TypeOK
    <2>3. QED
      BY <1>1, <1>2, <1>3, <2>1, <2>2 DEF IInv, TypeOK
  <1>7. FrontierOK'
    <2>1. dispatched' \cap settled' = {}
      BY <1>1, <1>3 DEF IInv, FrontierOK
    <2>2. ASSUME NEW n \in Node
          PROVE  /\ ledger'[n] = "none" <=> n \notin settled'
                 /\ ledger'[n] \in {"failed", "skipped"} <=> n \in tainted'
      <3>1. CASE n \notin g
        BY <1>1, <1>3, <3>1 DEF IInv, FrontierOK
      <3>2. CASE n \in g
        <4>1. n \notin tainted
          BY <1>2, <3>2 DEF IInv, FrontierOK
        <4>2. QED
          BY <1>1, <1>3, <3>2, <4>1
      <3>3. QED
        BY <3>1, <3>2
    <2>3. QED
      BY <1>1, <1>5, <2>1, <2>2 DEF FrontierOK
  <1>8. /\ InBatch(Queued)' = InBatch(Queued) /\ InBatch(resident)' = InBatch(resident) \ g
        /\ InBatch(Queued) \cap g = {}
    <2>1. InBatch(Queued)' = InBatch(Queued)
      BY <1>1 DEF InBatch, Queued
    <2>2. InBatch(resident)' = InBatch(resident) \ g
      BY <1>1, <1>2 DEF InBatch
    <2>3. InBatch(Queued) \cap g = {}
      BY DEF InBatch, Queued, IInv, BatchesOK
    <2>4. QED
      BY <2>1, <2>2, <2>3
  <1>9. BatchesOK'
    <2>1. dispatched' = (InBatch(Queued) \cup InBatch(resident))'
      BY <1>1, <1>8 DEF IInv, BatchesOK
    <2>2. Queued' = Queued /\ resident' \subseteq resident
      BY <1>1 DEF Queued
    <2>3. QED
      BY <1>1, <2>1, <2>2 DEF IInv, BatchesOK
  <1>10. \A n \in Node : Cleared(n) => Cleared(n)'
    <2>1. ASSUME NEW p \in Node, ledger[p] = "applied" PROVE ledger'[p] = "applied"
      <3>1. p \in settled
        BY <2>1 DEF IInv, FrontierOK
      <3>2. QED
        BY <1>1, <1>2, <2>1, <3>1
    <2>2. QED
      BY <1>1, <1>4, <2>1 DEF Cleared
  <1>11. LegsOK'
    <2> SUFFICES ASSUME NEW n \in Node
                 PROVE  /\ n \in dispatched' => Cleared(n)'
                        /\ leg[n] # "idle" => Cleared(n)' /\ ledger'[n] # "skipped"
                        /\ n \in InBatch(resident)' => leg[n] # "idle"
                        /\ n \in InBatch(Queued)' => leg[n] = "idle"
                        /\ n \notin dispatched' => leg[n] \in {"idle", "applied", "failed"}
                        /\ n \notin dispatched' \cup settled' => leg[n] = "idle"
                        /\ ledger'[n] = "applied" => leg[n] = "applied"
      BY <1>1 DEF LegsOK
    <2>1. CASE n \notin g
      BY <1>1, <1>3, <1>8, <1>10, <2>1 DEF IInv, LegsOK
    <2>2. CASE n \in g
      BY <1>1, <1>3, <1>8, <1>10, <2>2 DEF IInv, LegsOK
    <2>3. QED
      BY <2>1, <2>2
  <1>12. AttemptsOK' /\ WorldOK' /\ OnceOK'
    BY <1>1 DEF IInv, AttemptsOK, WorldOK, OnceOK, Once, Started, Running
  <1>13. LoopOK'
    BY <1>1 DEF LoopOK
  <1>14. PermitsRespected'
    BY <1>1, PermitsKept
  <1>15. QED
    BY <1>6, <1>7, <1>9, <1>11, <1>12, <1>13, <1>14 DEF IInv

LEMMA NextKeeps == IInv /\ [Next]_vars => IInv'
  <1> SUFFICES ASSUME IInv, [Next]_vars PROVE IInv'
    OBVIOUS
  <1>1. CASE Surface
    BY <1>1, SurfaceKeeps
  <1>2. CASE Admit
    BY <1>2, AdmitKeeps
  <1>3. CASE EndPass
    BY <1>3, EndPassKeeps
  <1>4. ASSUME NEW g \in resident, Batch(g) PROVE IInv'
    BY <1>4, AcquirePermitKeeps, DispatchKeeps, ApplyOneKeeps, BatchReturnsKeeps,
       BatchTimesOutKeeps, FoldKeeps DEF Batch
  <1>5. CASE Threads
    BY <1>5, JobEndsKeeps DEF Threads
  <1>6. CASE UNCHANGED vars
    <2>1. UNCHANGED <<plan, pc, progressed, indegree, dispatched, settled, tainted,
                      ledger, queue, resident, leg, attempt, jobs, landed>>
      BY <1>6 DEF vars, frontierVars, worldVars
    <2>2. FrontierOK' /\ BatchesOK' /\ LegsOK'
      BY <2>1 DEF IInv, FrontierOK, BatchesOK, LegsOK, Cleared, Queued, InBatch
    <2>3. AttemptsOK' /\ WorldOK' /\ OnceOK' /\ LoopOK'
      BY <2>1 DEF IInv, AttemptsOK, WorldOK, OnceOK, Once, Started, Running, LoopOK,
                  ReadySet
    <2>4. TypeOK'
      BY <2>1 DEF IInv, TypeOK
    <2>5. PermitsRespected'
      BY <2>1, PermitsKept
    <2>6. QED
      BY <2>2, <2>3, <2>4, <2>5 DEF IInv
  <1>7. QED
    BY <1>1, <1>2, <1>3, <1>4, <1>5, <1>6 DEF Next, Runtime, Returned
-----------------------------------------------------------------------------
(* The theorems.                                                           *)

\* The inductive invariant holds in every reachable state.
THEOREM Invariance == Spec => []IInv
  BY InitIInv, NextKeeps, PTL DEF Spec

\* The types of the variables, for any set of nodes and any limits; among them
\* that no node's in-degree is ever taken below zero, and that no leg is
\* dispatched more often than the retry policy allows.
THEOREM TypeCorrect == Spec => []TypeOK
  <1>1. IInv => TypeOK
    BY DEF IInv
  <1>2. QED
    BY Invariance, <1>1, PTL

\* No effect starts before everything it depends on is recorded as applied,
\* for any plan, however its batches overlap, time out and are retried.
THEOREM OrderHolds == Spec => []EffectsRespectOrder
  <1>1. IInv => EffectsRespectOrder
    <2> SUFFICES ASSUME IInv, NEW n \in Node, Started(n),
                        NEW p \in Parents(plan.deps, n)
                 PROVE  ledger[p] = "applied"
      BY DEF EffectsRespectOrder
    <2>1. leg[n] # "idle"
      BY DEF IInv, WorldOK
    <2>2. QED
      BY <2>1 DEF IInv, LegsOK, Cleared
  <1>2. QED
    BY Invariance, <1>1, PTL

\* An irreversible effect is handed to the World at most once: never again
\* after a transient error, nor beside the abandoned thread of a timed-out call.
THEOREM IrreversibleOnce == Spec => []IrreversibleAtMostOnce
  <1>1. IInv => IrreversibleAtMostOnce
    <2> SUFFICES ASSUME IInv, NEW n \in plan.irreversible
                 PROVE  landed[n] + Cardinality(Running(n)) <= 1
      BY DEF IrreversibleAtMostOnce, Running
    <2>1. n \in Node /\ Once(n)
      BY PlanFacts DEF IInv, OnceOK
    <2>2. landed[n] \in Nat
      BY <2>1 DEF IInv, TypeOK
    <2>3. CASE Running(n) = {}
      <3>1. Cardinality(Running(n)) = 0
        BY <2>3, FS_EmptySet
      <3>2. QED
        BY <2>1, <2>2, <3>1 DEF Once
    <2>4. CASE Running(n) # {}
      <3>1. PICK k \in Running(n) : Running(n) = {k}
        BY <2>1, <2>4 DEF Once
      <3>2. Cardinality({k}) = 1
        BY FS_Singleton
      <3>3. Cardinality(Running(n)) = 1
        BY <3>1, <3>2
      <3>4. landed[n] = 0
        BY <2>1, <2>2, <2>4 DEF Once
      <3>5. QED
        BY <3>3, <3>4
    <2>5. QED
      BY <2>3, <2>4
  <1>2. QED
    BY Invariance, <1>1, PTL

\* The ledger never claims an effect that no attempt has written.
THEOREM LedgerIsTrue == Spec => []AppliedIsTrue
  <1>1. IInv => AppliedIsTrue
    BY DEF IInv, AppliedIsTrue, LegsOK, WorldOK
  <1>2. QED
    BY Invariance, <1>1, PTL

\* What was denied, or skipped for a failure upstream, never reaches a driver.
THEOREM RefusedIsSilent == Spec => []RefusedNeverStarts
  <1>1. IInv => RefusedNeverStarts
    <2> SUFFICES ASSUME IInv, NEW n \in Node, Started(n)
                 PROVE  n \notin plan.denied /\ ledger[n] # "skipped"
      BY DEF RefusedNeverStarts
    <2>1. leg[n] # "idle"
      BY DEF IInv, WorldOK
    <2>2. QED
      BY <2>1 DEF IInv, LegsOK, Cleared
  <1>2. QED
    BY Invariance, <1>1, PTL

\* Both concurrency ceilings hold at every instant, for every pair of limits.
THEOREM CeilingsHold == Spec => []PermitsRespected
  <1>1. IInv => PermitsRespected
    BY DEF IInv
  <1>2. QED
    BY Invariance, <1>1, PTL

\* The loop's early exits drop no node: a commit that returned has a ledger
\* entry for every effect of the plan.  This is where the plan must be acyclic.
THEOREM NoneDropped == Spec => []NothingLost
  <1>1. IInv => NothingLost
    BY DEF IInv, NothingLost, LoopOK, FrontierOK
  <1>2. QED
    BY Invariance, <1>1, PTL
-----------------------------------------------------------------------------
(* The concurrent commit implements the walk of EffectWalk.                *)

LEMMA WalkStatus ==
    ASSUME IInv, NEW n \in Node
    PROVE  /\ StatusOf(ledger[n]) = "pending" <=> n \notin settled
           /\ StatusOf(ledger[n]) \in {"failed", "skipped"} <=> n \in tainted
           /\ StatusOf(ledger[n]) = "applied" <=> ledger[n] = "applied"
  BY DEF IInv, TypeOK, FrontierOK, StatusOf

\* Surfacing decides what is skipped or denied, and nothing else.
LEMMA SurfaceWalks ==
    ASSUME IInv, Surface
    PROVE  Walk!Next \/ UNCHANGED Walk!vars
  <1> DEFINE skips  == Skipped(ReadySet)
             denied == Denied(ReadySet \ skips)
             gone   == skips \cup denied
  <1>1. /\ plan' = plan
        /\ ledger' = [n \in Node |-> IF n \in skips  THEN "skipped"
                                 ELSE IF n \in denied THEN "failed"
                                 ELSE ledger[n]]
    BY DEF Surface
  <1>2. ledger \in [Node -> {"none", "applied", "failed", "skipped"}]
    BY DEF IInv, TypeOK
  <1>3. CASE gone = {}
    <2>1. ledger' = ledger
      BY <1>1, <1>2, <1>3
    <2>2. QED
      BY <1>1, <2>1 DEF Walk!vars
  <1>4. CASE gone # {}
    <2>1. ASSUME NEW n \in ReadySet
          PROVE  n \in Node /\ n \notin settled /\ Parents(plan.deps, n) \subseteq settled
      <3>1. n \in Node /\ indegree[n] = 0 /\ n \notin settled
        BY DEF ReadySet
      <3>2. Parents(plan.deps, n) \ settled \in SUBSET Node
        BY <3>1, PlanFacts DEF IInv
      <3>3. Cardinality(Parents(plan.deps, n) \ settled) = 0
        BY <3>1 DEF IInv, FrontierOK
      <3>4. Parents(plan.deps, n) \ settled = {}
        BY <3>2, <3>3, NoParentLeft
      <3>5. QED
        BY <3>1, <3>4
    <2>2. gone \subseteq ReadySet /\ gone \in SUBSET Node
      BY DEF Skipped, Denied, ReadySet
    <2>3. gone \subseteq Walk!Decidable
      BY <2>1, <2>2, WalkStatus, PlanFacts DEF Walk!Decidable, Walk!Pending, Walk!Parents, Parents, IInv
    <2>4. ASSUME NEW n \in gone PROVE n \in skips <=> Walk!Blocked(n)
      <3>1. n \in skips <=> \E p \in Parents(plan.deps, n) : p \in tainted
        BY <2>2 DEF Skipped, Denied
      <3>2. Parents(plan.deps, n) \in SUBSET Node
        BY <2>2, PlanFacts DEF IInv
      <3>3. QED
        BY <3>1, <3>2, WalkStatus DEF Walk!Blocked, Walk!Parents, Parents
    <2>5. \A n \in gone : n \in skips \/ n \in denied
      OBVIOUS
    <2>6. \A n \in Node : StatusOf(ledger'[n]) =
              IF n \notin gone           THEN StatusOf(ledger[n])
              ELSE IF Walk!Blocked(n)    THEN "skipped"
              ELSE IF n \in {}           THEN "applied"
              ELSE                            "failed"
      <3> HIDE DEF skips, denied
      <3>1. QED
        BY <1>1, <2>4 DEF StatusOf
    <2>7. Walk!Decide(gone, {})
      <3> HIDE DEF gone
      <3>1. QED
        BY <1>1, <2>3, <2>6 DEF Walk!Decide
    <2>8. QED
      BY <1>4, <2>2, <2>7 DEF Walk!Next
  <1>5. QED
    BY <1>3, <1>4

\* Folding a batch decides all of it: as applied or as failed, never skipped.
LEMMA FoldWalks ==
    ASSUME IInv, NEW g \in resident, Fold(g)
    PROVE  Walk!Next
  <1> DEFINE ok == {n \in g : leg[n] = "applied"}
  <1>1. /\ plan' = plan
        /\ ledger' = [n \in Node |-> IF n \in g THEN leg[n] ELSE ledger[n]]
        /\ \A n \in g : leg[n] \in {"applied", "failed"}
    BY DEF Fold, Pinned
  <1>2. g \in SUBSET Node /\ g # {} /\ g \subseteq dispatched /\ g \cap settled = {}
    BY ResidentFacts
  <1>3. \A n \in g : Cleared(n)
    BY <1>2 DEF IInv, LegsOK
  <1>4. \A n \in g : Parents(plan.deps, n) \in SUBSET Node
    BY <1>2, PlanFacts DEF IInv
  <1>5. \A n \in g : \A p \in Parents(plan.deps, n) : StatusOf(ledger[p]) = "applied"
    BY <1>3, <1>4 DEF Cleared, StatusOf
  <1>6. g \subseteq Walk!Decidable
    BY <1>2, <1>5, WalkStatus DEF Walk!Decidable, Walk!Pending, Walk!Parents, Parents
  <1>7. \A n \in g : ~ Walk!Blocked(n)
    BY <1>4, <1>5 DEF Walk!Blocked, Walk!Parents, Parents
  <1>8. ok \in SUBSET g /\ ok \cap plan.denied = {}
    BY <1>3 DEF Cleared
  <1>9. \A n \in Node : StatusOf(ledger'[n]) =
              IF n \notin g              THEN StatusOf(ledger[n])
              ELSE IF Walk!Blocked(n)    THEN "skipped"
              ELSE IF n \in ok           THEN "applied"
              ELSE                            "failed"
    BY <1>1, <1>7 DEF StatusOf
  <1>10. Walk!Decide(g, ok)
    <2> HIDE DEF ok
    <2>1. QED
      BY <1>1, <1>6, <1>8, <1>9 DEF Walk!Decide
  <1>11. QED
    BY <1>2, <1>8, <1>10 DEF Walk!Next

\* Refinement: seen in its ledger, the concurrent, batched, retrying commit is
\* the walk that decides each effect once, after everything it depends on.
THEOREM ImplementsTheWalk == Spec => ImplementsWalk
  <1>1. Init => Walk!Init
    BY DEF Init, Walk!Init, StatusOf
  <1>2. IInv /\ [Next]_vars => [Walk!Next]_(Walk!vars)
    <2> SUFFICES ASSUME IInv, [Next]_vars PROVE Walk!Next \/ UNCHANGED Walk!vars
      OBVIOUS
    <2>1. CASE Surface
      BY <2>1, SurfaceWalks
    <2>2. ASSUME NEW g \in resident, Fold(g) PROVE Walk!Next
      BY <2>2, FoldWalks
    <2>3. CASE UNCHANGED <<plan, ledger>>
      BY <2>3 DEF Walk!vars
    <2>4. CASE Admit \/ EndPass \/ Threads \/ Returned \/ UNCHANGED vars
      BY <2>3, <2>4 DEF Admit, EndPass, Threads, JobEnds, Returned, vars
    <2>5. ASSUME NEW g \in resident, Batch(g), ~ Fold(g)
          PROVE  UNCHANGED <<plan, ledger>>
      BY <2>5 DEF Batch, AcquirePermit, Dispatch, ApplyOne, BatchReturns, BatchTimesOut
    <2>6. QED
      BY <2>1, <2>2, <2>3, <2>4, <2>5 DEF Next, Runtime
  <1>3. QED
    BY Invariance, <1>1, <1>2, PTL DEF Spec, ImplementsWalk, Walk!SafeSpec
-----------------------------------------------------------------------------
(* PREVIEW.  Its rounds end with every node decided, because each surfaces *)
(* some node as long as one is left (the plan is acyclic), and what it     *)
(* shows then follows one rule: a node's verdict is that of its parents.   *)
(* A clean commit's ledger follows the same rule, and a rule of this kind  *)
(* has one solution on an acyclic plan.                                    *)

\* Induction over the naturals, for a set of them.
LEMMA SetInduction ==
    ASSUME NEW S \in SUBSET Nat, 0 \in S, \A k \in S : k + 1 \in S
    PROVE  S = Nat
  <1> DEFINE Less == {ss \in Nat \X Nat : ss[1] < ss[2]}
             Left == Nat \ S
  <1>1. IsWellFoundedOn(Less, Nat)
    BY NatLessThanWellFounded DEF OpToRel
  <1>2. ASSUME Left # {} PROVE FALSE
    <2>1. PICK n \in Left : \A m \in Left : <<m, n>> \notin Less
      <3> HIDE DEF Less
      <3> QED
        BY <1>1, <1>2, WFMin
    <2>2. n \in Nat /\ n # 0 /\ n - 1 \in Nat
      BY <2>1
    <2>3. n - 1 \notin S
      BY <2>1, <2>2
    <2>4. <<n - 1, n>> \in Less
      <3>1. <<n - 1, n>> \in Nat \X Nat /\ <<n - 1, n>>[1] < <<n - 1, n>>[2]
        BY <2>2
      <3>2. QED
        BY <3>1
    <2>5. QED
      BY <2>1, <2>2, <2>3, <2>4
  <1>3. QED
    BY <1>2

Disposition == {"none", "applied", "failed", "skipped"}
NothingShown == [n \in Node |-> "none"]

\* The rounds of PREVIEW up to the m-th.
RoundsOf(f, p, m) ==
    /\ f \in [0 .. m -> [Node -> Disposition]]
    /\ f[0] = NothingShown
    /\ \A k \in 1 .. m : f[k] = PreviewRound(p, f[k - 1])

LEMMA RoundType ==
    ASSUME NEW p, NEW d \in [Node -> Disposition]
    PROVE  PreviewRound(p, d) \in [Node -> Disposition]
  BY DEF PreviewRound, PreviewVerdict, Disposition

LEMMA RoundsExist ==
    ASSUME NEW p, NEW m \in Nat
    PROVE  \E f : RoundsOf(f, p, m)
  <1> DEFINE S == {k \in Nat : \E f : RoundsOf(f, p, k)}
  <1>1. 0 \in S
    <2> DEFINE f == [k \in 0 .. 0 |-> NothingShown]
    <2>1. f \in [0 .. 0 -> [Node -> Disposition]] /\ f[0] = NothingShown
      BY DEF NothingShown, Disposition
    <2> HIDE DEF f
    <2>2. RoundsOf(f, p, 0)
      BY <2>1 DEF RoundsOf
    <2>3. QED
      BY <2>2
  <1>2. ASSUME NEW k \in S PROVE k + 1 \in S
    <2>1. PICK f : RoundsOf(f, p, k)
      BY <1>2
    <2> DEFINE g == [j \in 0 .. k + 1 |->
                        IF j = k + 1 THEN PreviewRound(p, f[k]) ELSE f[j]]
    <2>2. /\ k \in Nat /\ f \in [0 .. k -> [Node -> Disposition]]
          /\ f[0] = NothingShown /\ \A j \in 1 .. k : f[j] = PreviewRound(p, f[j - 1])
      BY <2>1 DEF RoundsOf
    <2>3. PreviewRound(p, f[k]) \in [Node -> Disposition]
      BY <2>2, RoundType
    <2>4. /\ \A j \in 0 .. k : g[j] = f[j]
          /\ g[k + 1] = PreviewRound(p, f[k])
          /\ g \in [0 .. k + 1 -> [Node -> Disposition]]
      BY <2>2, <2>3
    <2> HIDE DEF g
    <2>5. ASSUME NEW j \in 1 .. k + 1 PROVE g[j] = PreviewRound(p, g[j - 1])
      <3>1. CASE j = k + 1
        BY <2>2, <2>4, <3>1
      <3>2. CASE j # k + 1
        <4>1. j \in 1 .. k /\ j \in 0 .. k /\ j - 1 \in 0 .. k
          BY <2>2, <3>2
        <4>2. g[j] = f[j] /\ g[j - 1] = f[j - 1]
          BY <2>4, <4>1
        <4>3. QED
          BY <2>2, <4>1, <4>2
      <3>3. QED
        BY <3>1, <3>2
    <2>6. g[0] = NothingShown
      BY <2>2, <2>4
    <2>7. RoundsOf(g, p, k + 1)
      BY <2>4, <2>5, <2>6 DEF RoundsOf
    <2>8. QED
      BY <2>2, <2>7
  <1>3. S = Nat
    <2> HIDE DEF S
    <2>1. S \in SUBSET Nat
      BY DEF S
    <2>2. QED
      BY <1>1, <1>2, <2>1, SetInduction
  <1>4. QED
    BY <1>3

\* What PREVIEW shows is its last round.
LEMMA PreviewIsLastRound ==
    ASSUME NEW p
    PROVE  \E f : RoundsOf(f, p, Cardinality(Node)) /\ Preview(p) = f[Cardinality(Node)]
  <1> DEFINE N == Cardinality(Node)
             Rule(f) == [k \in 0 .. N |-> IF k = 0 THEN [n \in Node |-> "none"]
                                          ELSE PreviewRound(p, f[k - 1])]
             g == CHOOSE f : f = Rule(f)
  <1>1. N \in Nat
    BY NodeFacts
  <1>2. Preview(p) = g[N]
    BY DEF Preview
  <1> HIDE DEF N
  <1>3. PICK f : RoundsOf(f, p, N)
    BY <1>1, RoundsExist
  <1>4. f = Rule(f)
    <2>1. f \in [0 .. N -> [Node -> Disposition]]
      BY <1>3 DEF RoundsOf
    <2>2. ASSUME NEW k \in 0 .. N
          PROVE  f[k] = IF k = 0 THEN [n \in Node |-> "none"] ELSE PreviewRound(p, f[k - 1])
      <3>1. CASE k = 0
        BY <1>3, <3>1 DEF RoundsOf, NothingShown
      <3>2. CASE k # 0
        <4>1. k \in 1 .. N
          BY <1>1, <3>2
        <4>2. QED
          BY <1>3, <3>2, <4>1 DEF RoundsOf
      <3>3. QED
        BY <3>1, <3>2
    <2>3. QED
      BY <2>1, <2>2
  <1>5. g = Rule(g)
    <2> HIDE DEF Rule
    <2>1. QED
      BY <1>4
  <1> HIDE DEF g
  <1> DEFINE S == {k \in Nat : k <= N => g[k] = f[k]}
  <1>6. 0 \in S
    BY <1>1, <1>3, <1>5 DEF RoundsOf, NothingShown
  <1>7. ASSUME NEW k \in S PROVE k + 1 \in S
    <2>1. CASE k + 1 <= N
      <3>1. k \in Nat /\ k <= N /\ g[k] = f[k] /\ k + 1 \in 1 .. N /\ k + 1 \in 0 .. N
        BY <1>1, <1>7, <2>1
      <3>2. g[k + 1] = PreviewRound(p, g[k])
        BY <1>5, <3>1
      <3>3. f[k + 1] = PreviewRound(p, f[k])
        BY <1>3, <3>1 DEF RoundsOf
      <3>4. QED
        BY <3>1, <3>2, <3>3
    <2>2. CASE ~ (k + 1 <= N)
      BY <2>2
    <2>3. QED
      BY <2>1, <2>2
  <1>8. S = Nat
    <2> HIDE DEF S
    <2>1. S \in SUBSET Nat
      BY DEF S
    <2>2. QED
      BY <1>6, <1>7, <2>1, SetInduction
  <1>9. g[N] = f[N]
    BY <1>1, <1>8
  <1>10. QED
    BY <1>2, <1>3, <1>9 DEF N

Undecided(d) == {n \in Node : d[n] = "none"}

\* Whoever has a disposition has that which its parents give it.
Ruled(p, d) ==
    \A n \in Node : d[n] # "none" =>
        /\ \A q \in Parents(p.deps, n) : d[q] # "none"
        /\ d[n] = PreviewVerdict(p.deps, p.denied, d, n)

\* A round keeps what was shown and the rule, and decides some node if one is
\* left.
LEMMA RoundDecides ==
    ASSUME NEW p \in Plans, NEW d \in [Node -> Disposition], Ruled(p, d)
    PROVE  /\ Ruled(p, PreviewRound(p, d))
           /\ Undecided(PreviewRound(p, d)) \subseteq Undecided(d)
           /\ Undecided(d) # {} => Undecided(PreviewRound(p, d)) # Undecided(d)
  <1> DEFINE e == PreviewRound(p, d)
             Ready(n) == d[n] = "none" /\ \A q \in Parents(p.deps, n) : d[q] # "none"
  <1>1. \A n \in Node : e[n] = IF Ready(n) THEN PreviewVerdict(p.deps, p.denied, d, n)
                               ELSE d[n]
    BY DEF PreviewRound
  <1>2. e \in [Node -> Disposition]
    BY RoundType
  <1>3. \A n \in Node : PreviewVerdict(p.deps, p.denied, d, n) # "none"
    BY DEF PreviewVerdict
  <1> HIDE DEF e
  <1>4. \A n \in Node : d[n] # "none" => e[n] = d[n]
    BY <1>1
  <1>5. Ruled(p, e)
    <2> SUFFICES ASSUME NEW n \in Node, e[n] # "none"
                 PROVE  /\ \A q \in Parents(p.deps, n) : e[q] # "none"
                        /\ e[n] = PreviewVerdict(p.deps, p.denied, e, n)
      BY DEF Ruled
    <2>1. /\ \A q \in Parents(p.deps, n) : d[q] # "none"
          /\ e[n] = PreviewVerdict(p.deps, p.denied, d, n)
      BY <1>1, <1>4 DEF Ruled
    <2>2. \A q \in Parents(p.deps, n) : e[q] = d[q]
      BY <1>4, <2>1 DEF Parents
    <2>3. QED
      BY <2>1, <2>2 DEF PreviewVerdict
  <1>6. Undecided(e) \subseteq Undecided(d)
    BY <1>4 DEF Undecided
  <1>7. ASSUME Undecided(d) # {} PROVE Undecided(e) # Undecided(d)
    <2>1. Acyclic(p.deps)
      BY PlansAssumption
    <2>2. PICK n \in Undecided(d) : \A q \in Undecided(d) : <<q, n>> \notin p.deps
      BY <1>7, <2>1 DEF Acyclic, Undecided
    <2>3. n \in Node /\ Ready(n)
      BY <2>2 DEF Undecided, Parents
    <2>4. e[n] # "none"
      BY <1>1, <1>3, <2>3
    <2>5. QED
      BY <2>2, <2>4 DEF Undecided
  <1>8. QED
    BY <1>5, <1>6, <1>7 DEF e

\* PREVIEW decides every node, by the rule.
LEMMA PreviewFollowsTheRule ==
    ASSUME NEW p \in Plans
    PROVE  \A n \in Node : /\ Preview(p)[n] # "none"
                           /\ Preview(p)[n] = PreviewVerdict(p.deps, p.denied, Preview(p), n)
  <1> DEFINE N == Cardinality(Node)
  <1>1. N \in Nat
    BY NodeFacts
  <1>2. PICK f : RoundsOf(f, p, N) /\ Preview(p) = f[N]
    BY PreviewIsLastRound
  <1>3. /\ f \in [0 .. N -> [Node -> Disposition]] /\ f[0] = NothingShown
        /\ \A k \in 1 .. N : f[k] = PreviewRound(p, f[k - 1])
    BY <1>2 DEF RoundsOf
  <1> DEFINE S == {k \in Nat : k <= N => /\ Ruled(p, f[k])
                                         /\ Cardinality(Undecided(f[k])) <= N - k}
  <1>4. 0 \in S
    <2>1. Undecided(NothingShown) = Node
      BY DEF Undecided, NothingShown
    <2>2. Ruled(p, NothingShown)
      BY DEF Ruled, NothingShown
    <2>3. QED
      BY <1>1, <1>3, <2>1, <2>2
  <1>5. ASSUME NEW k \in S, k + 1 <= N PROVE k + 1 \in S
    <2> DEFINE d == f[k]
               e == f[k + 1]
    <2>1. k \in Nat /\ k <= N /\ k \in 0 .. N /\ k + 1 \in 1 .. N /\ (k + 1) - 1 = k
      BY <1>1, <1>5
    <2>2. d \in [Node -> Disposition] /\ e = PreviewRound(p, d)
      BY <1>3, <2>1
    <2>3. Ruled(p, d) /\ Cardinality(Undecided(d)) <= N - k
      BY <2>1
    <2> HIDE DEF d, e, N
    <2>4. /\ Ruled(p, e) /\ Undecided(e) \subseteq Undecided(d)
          /\ Undecided(d) # {} => Undecided(e) # Undecided(d)
      BY <2>2, <2>3, RoundDecides
    <2>5. Undecided(d) \in SUBSET Node /\ Undecided(e) \in SUBSET Node
      BY DEF Undecided
    <2>6. /\ IsFiniteSet(Undecided(d)) /\ Cardinality(Undecided(d)) \in Nat
          /\ Cardinality(Undecided(e)) \in Nat
      BY <2>5, NodeFacts
    <2>7. Cardinality(Undecided(e)) <= N - (k + 1)
      <3>1. CASE Undecided(d) = {}
        <4>1. Undecided(e) = {}
          BY <2>4, <3>1
        <4>2. Cardinality(Undecided(e)) = 0
          BY <4>1, FS_EmptySet
        <4>3. QED
          BY <1>1, <1>5, <2>1, <4>2
      <3>2. CASE Undecided(d) # {}
        <4>1. Cardinality(Undecided(e)) < Cardinality(Undecided(d))
          <5>1. Cardinality(Undecided(e)) <= Cardinality(Undecided(d))
            BY <2>4, <2>6, FS_Subset
          <5>2. Cardinality(Undecided(e)) # Cardinality(Undecided(d))
            BY <2>4, <2>6, <3>2, FS_Subset
          <5>3. QED
            BY <2>6, <5>1, <5>2
        <4>2. QED
          BY <1>1, <2>1, <2>3, <2>6, <4>1
      <3>3. QED
        BY <3>1, <3>2
    <2>8. QED
      BY <2>1, <2>4, <2>7 DEF e
  <1>6. ASSUME NEW k \in S, ~ (k + 1 <= N) PROVE k + 1 \in S
    BY <1>6
  <1>7. S = Nat
    <2> HIDE DEF S
    <2>1. S \in SUBSET Nat
      BY DEF S
    <2>2. \A k \in S : k + 1 \in S
      BY <1>5, <1>6
    <2>3. QED
      BY <1>4, <2>1, <2>2, SetInduction
  <1>8. Ruled(p, f[N]) /\ Cardinality(Undecided(f[N])) <= 0
    BY <1>1, <1>7
  <1>9. Undecided(f[N]) = {}
    <2>1. Undecided(f[N]) \in SUBSET Node
      BY DEF Undecided
    <2>2. Cardinality(Undecided(f[N])) = 0
      BY <1>8, <2>1, NodeFacts
    <2>3. QED
      BY <2>1, <2>2, NoParentLeft
  <1>10. QED
    BY <1>2, <1>8, <1>9 DEF Ruled, Undecided

\* On an acyclic plan the rule has one solution.
LEMMA RuleHasOneSolution ==
    ASSUME NEW p \in Plans, NEW a, NEW b,
           \A n \in Node : a[n] = PreviewVerdict(p.deps, p.denied, a, n),
           \A n \in Node : b[n] = PreviewVerdict(p.deps, p.denied, b, n)
    PROVE  \A n \in Node : a[n] = b[n]
  <1> DEFINE D == {n \in Node : a[n] # b[n]}
  <1>1. Acyclic(p.deps)
    BY PlansAssumption
  <1>2. ASSUME D # {} PROVE FALSE
    <2>1. PICK n \in D : \A q \in D : <<q, n>> \notin p.deps
      BY <1>1, <1>2 DEF Acyclic
    <2>2. \A q \in Parents(p.deps, n) : a[q] = b[q]
      BY <2>1 DEF Parents
    <2>3. PreviewVerdict(p.deps, p.denied, a, n) = PreviewVerdict(p.deps, p.denied, b, n)
      BY <2>2 DEF PreviewVerdict
    <2>4. QED
      BY <2>1, <2>3
  <1>3. QED
    BY <1>2

-----------------------------------------------------------------------------
(* The ledger follows the rule, too, but for legs that a driver failed.    *)

VerdictsOK ==
    \A n \in Node :
        /\ ledger[n] = "failed" =>
              /\ \A q \in Parents(plan.deps, n) : ledger[q] = "applied"
              /\ n \in plan.denied \/ leg[n] = "failed"
        /\ ledger[n] = "skipped" =>
              \E q \in Parents(plan.deps, n) : ledger[q] \in {"failed", "skipped"}

\* Entries and the legs they were taken from stay.
LEMMA VerdictsStay ==
    ASSUME IInv, VerdictsOK, plan' = plan, ledger' = ledger,
           \A n \in Node : ledger[n] # "none" => leg'[n] = leg[n]
    PROVE  VerdictsOK'
  BY DEF VerdictsOK

\* Only a leg in an admitted batch, or about to be in one, moves.
LEMMA SettledLegsStay ==
    ASSUME IInv, NEW n \in Node, ledger[n] # "none"
    PROVE  /\ n \notin dispatched /\ leg[n] \in {"idle", "applied", "failed"}
           /\ \A g \in resident : n \notin g
           /\ queue # << >> => n \notin Head(queue)
  <1>1. n \in settled /\ n \notin dispatched
    BY DEF IInv, FrontierOK
  <1>2. leg[n] \in {"idle", "applied", "failed"}
    BY <1>1 DEF IInv, LegsOK
  <1>3. \A g \in resident : n \notin g
    BY <1>1, ResidentFacts
  <1>4. ASSUME queue # << >> PROVE n \notin Head(queue)
    <2>1. queue \in Seq(SUBSET Node)
      BY DEF IInv, TypeOK
    <2>2. 1 \in DOMAIN queue /\ Head(queue) = queue[1]
      BY <1>4, <2>1
    <2>3. Head(queue) \in Queued
      BY <2>2 DEF Queued
    <2>4. QED
      BY <1>1, <2>3 DEF IInv, BatchesOK, InBatch
  <1>5. QED
    BY <1>1, <1>2, <1>3, <1>4

\* Surfacing: skipped for a failure upstream, failed for a denial.
LEMMA SurfaceRules ==
    ASSUME IInv, VerdictsOK, Surface
    PROVE  VerdictsOK'
  <1> DEFINE skips  == Skipped(ReadySet)
             denied == Denied(ReadySet \ skips)
  <1>1. /\ plan' = plan /\ leg' = leg
        /\ ledger' = [n \in Node |-> IF n \in skips  THEN "skipped"
                                 ELSE IF n \in denied THEN "failed"
                                 ELSE ledger[n]]
    BY DEF Surface
  <1>2. \A n \in Node : Parents(plan.deps, n) \in SUBSET Node
    BY PlanFacts DEF IInv
  <1>3. ASSUME NEW n \in ReadySet
        PROVE  n \in Node /\ n \notin settled /\ ledger[n] = "none"
               /\ \A q \in Parents(plan.deps, n) : q \in Node /\ q \in settled
    <2>1. n \in Node /\ indegree[n] = 0 /\ n \notin settled
      BY DEF ReadySet
    <2>2. Cardinality(Parents(plan.deps, n) \ settled) = 0
      BY <2>1 DEF IInv, FrontierOK
    <2>3. Parents(plan.deps, n) \ settled \in SUBSET Node
      BY <1>2, <2>1
    <2>4. Parents(plan.deps, n) \ settled = {}
      BY <2>2, <2>3, NoParentLeft
    <2>5. QED
      BY <1>2, <2>1, <2>4 DEF IInv, FrontierOK
  <1>4. \A n \in Node : /\ ledger[n] = "none" <=> n \notin settled
                        /\ ledger[n] \in {"failed", "skipped"} <=> n \in tainted
                        /\ ledger[n] \in {"none", "applied", "failed", "skipped"}
    BY DEF IInv, FrontierOK, TypeOK
  <1>5. skips \subseteq ReadySet /\ denied \subseteq ReadySet
    BY DEF Skipped, Denied
  <1>6. \A n \in Node : ledger[n] # "none" => ledger'[n] = ledger[n]
    BY <1>1, <1>3, <1>5
  <1>7. ASSUME NEW n \in skips
        PROVE  \E q \in Parents(plan.deps, n) : ledger'[q] \in {"failed", "skipped"}
    <2>1. PICK q \in Parents(plan.deps, n) : q \in tainted
      BY DEF Skipped
    <2>2. q \in Node /\ ledger[q] \in {"failed", "skipped"}
      BY <1>3, <1>4, <1>5, <2>1
    <2>3. QED
      BY <1>6, <2>2
  <1>8. ASSUME NEW n \in denied
        PROVE  n \in plan.denied /\ \A q \in Parents(plan.deps, n) : ledger'[q] = "applied"
    <2>1. n \in plan.denied /\ n \in ReadySet /\ n \notin skips
      BY DEF Denied
    <2>2. \A q \in Parents(plan.deps, n) : q \in Node /\ q \in settled /\ q \notin tainted
      BY <1>3, <2>1 DEF Skipped
    <2>3. \A q \in Parents(plan.deps, n) : ledger[q] = "applied"
      BY <1>4, <2>2
    <2>4. QED
      BY <1>6, <2>1, <2>2, <2>3
  <1> HIDE DEF skips, denied
  <1>9. \A n \in Node : n \notin skips /\ n \notin denied => ledger'[n] = ledger[n]
    BY <1>1
  <1>10. ASSUME NEW n \in Node, n \notin skips, n \notin denied
         PROVE  /\ ledger'[n] = "failed" =>
                     /\ \A q \in Parents(plan.deps, n) : ledger'[q] = "applied"
                     /\ n \in plan.denied \/ leg[n] = "failed"
                /\ ledger'[n] = "skipped" =>
                     \E q \in Parents(plan.deps, n) : ledger'[q] \in {"failed", "skipped"}
    BY <1>2, <1>6, <1>9, <1>10 DEF VerdictsOK
  <1>11. /\ \A n \in skips : ledger'[n] = "skipped"
         /\ \A n \in denied : n \notin skips => ledger'[n] = "failed"
    BY <1>1, <1>3, <1>5
  <1>12. QED
    BY <1>1, <1>7, <1>8, <1>10, <1>11 DEF VerdictsOK

\* Folding: the legs of a batch were cleared, and end applied or failed.
LEMMA FoldRules ==
    ASSUME IInv, VerdictsOK, NEW g \in resident, Fold(g)
    PROVE  VerdictsOK'
  <1>1. /\ plan' = plan /\ leg' = leg
        /\ ledger' = [n \in Node |-> IF n \in g THEN leg[n] ELSE ledger[n]]
        /\ \A n \in g : leg[n] \in {"applied", "failed"}
    BY DEF Fold, Pinned
  <1>2. g \in SUBSET Node /\ g \subseteq dispatched /\ g \cap settled = {}
    BY ResidentFacts
  <1>3. \A n \in Node : Parents(plan.deps, n) \in SUBSET Node
    BY PlanFacts DEF IInv
  <1>4. \A n \in Node : ledger[n] # "none" => n \notin g
    BY <1>2 DEF IInv, FrontierOK
  <1>5. \A n \in Node : ledger[n] # "none" => ledger'[n] = ledger[n]
    BY <1>1, <1>4
  <1>6. ASSUME NEW n \in g
        PROVE  \A q \in Parents(plan.deps, n) : ledger'[q] = "applied"
    <2>1. n \in Node /\ Cleared(n)
      BY <1>2 DEF IInv, LegsOK
    <2>2. QED
      BY <1>3, <1>5, <2>1 DEF Cleared
  <1>7. ASSUME NEW n \in Node, n \notin g
        PROVE  /\ ledger'[n] = "failed" =>
                    /\ \A q \in Parents(plan.deps, n) : ledger'[q] = "applied"
                    /\ n \in plan.denied \/ leg[n] = "failed"
               /\ ledger'[n] = "skipped" =>
                    \E q \in Parents(plan.deps, n) : ledger'[q] \in {"failed", "skipped"}
    BY <1>1, <1>3, <1>5, <1>7 DEF VerdictsOK
  <1>8. \A n \in g : ledger'[n] = leg[n]
    BY <1>1, <1>2
  <1>9. QED
    BY <1>1, <1>6, <1>7, <1>8 DEF VerdictsOK

LEMMA VerdictsHold == Spec => []VerdictsOK
  <1>1. Init => VerdictsOK
    BY DEF Init, VerdictsOK
  <1>2. IInv /\ VerdictsOK /\ [Next]_vars => VerdictsOK'
    <2> SUFFICES ASSUME IInv, VerdictsOK, [Next]_vars PROVE VerdictsOK'
      OBVIOUS
    <2>0. leg \in [Node -> LegState]
      BY DEF IInv, TypeOK
    <2>1. CASE Surface
      BY <2>1, SurfaceRules
    <2>2. ASSUME NEW g \in resident, Fold(g) PROVE VerdictsOK'
      BY <2>2, FoldRules
    <2>3. CASE UNCHANGED <<plan, ledger, leg>>
      BY <2>3, VerdictsStay
    <2>4. CASE Admit
      <3>1. /\ plan' = plan /\ ledger' = ledger /\ queue # << >>
            /\ leg' = [n \in Node |-> IF n \in Head(queue) THEN "waiting" ELSE leg[n]]
        BY <2>4 DEF Admit, Admissible
      <3>2. \A n \in Node : ledger[n] # "none" => leg'[n] = leg[n]
        BY <3>1, SettledLegsStay
      <3>3. QED
        BY <3>1, <3>2, VerdictsStay
    <2>5. ASSUME NEW g \in resident, Batch(g), ~ Fold(g) PROVE VerdictsOK'
      <3>1. plan' = plan /\ ledger' = ledger /\ \A n \in Node : n \notin g => leg'[n] = leg[n]
        <4>1. CASE AcquirePermit(g) \/ Dispatch(g)
          BY <4>1 DEF AcquirePermit, Dispatch, SetLegs
        <4>2. CASE BatchReturns(g) \/ BatchTimesOut(g)
          BY <4>2 DEF BatchReturns, BatchTimesOut
        <4>3. CASE ApplyOne(g)
          <5>1. {m \in g : leg[m] = "called"} # {} /\ {m \in g : leg[m] = "called"} \in SUBSET Node
            BY <4>3, ResidentFacts DEF ApplyOne
          <5>2. SmallestId({m \in g : leg[m] = "called"}) \in g
            BY <5>1, SmallestIdIsMember
          <5>3. QED
            BY <4>3, <5>2 DEF ApplyOne, SetLegs
        <4>4. QED
          BY <2>5, <4>1, <4>2, <4>3 DEF Batch
      <3>2. \A n \in Node : ledger[n] # "none" => leg'[n] = leg[n]
        BY <3>1, SettledLegsStay
      <3>3. QED
        BY <3>1, <3>2, VerdictsStay
    <2>6. CASE Threads
      <3>1. PICK n \in Node, k \in 1 .. MaxAttempts : JobEnds(n, k)
        BY <2>6 DEF Threads
      <3>2. PICK verdict \in Verdict :
               leg' = [leg EXCEPT ![n] = IF @ = "running" /\ attempt[n] = k
                                         THEN verdict ELSE @]
        BY <3>1 DEF JobEnds
      <3>3. plan' = plan /\ ledger' = ledger
        BY <3>1 DEF JobEnds
      <3>4. \A m \in Node : leg[m] # "running" => leg'[m] = leg[m]
        BY <2>0, <3>2
      <3>5. \A m \in Node : ledger[m] # "none" => leg[m] # "running"
        BY SettledLegsStay
      <3>6. QED
        BY <3>3, <3>4, <3>5, VerdictsStay
    <2>7. CASE EndPass \/ Returned \/ UNCHANGED vars
      BY <2>3, <2>7 DEF EndPass, Returned, vars
    <2>8. QED
      BY <2>1, <2>2, <2>3, <2>4, <2>5, <2>6, <2>7 DEF Next, Runtime
  <1>3. QED
    BY Invariance, <1>1, <1>2, PTL DEF Spec

\* PREVIEW is an upper bound of what a commit applies, and once a commit has
\* returned in which no driver failed, the ledger is what PREVIEW showed: for
\* every acyclic plan, every set of denied effects and all limits.
THEOREM PreviewHolds == Spec => []PreviewIsHonest
  <1>1. ASSUME IInv, VerdictsOK PROVE PreviewIsHonest
    <2> DEFINE shown == Preview(plan)
    <2>1. plan \in Plans /\ ledger \in [Node -> {"none", "applied", "failed", "skipped"}]
      BY <1>1 DEF IInv, TypeOK
    <2>2. \A n \in Node : shown[n] = PreviewVerdict(plan.deps, plan.denied, shown, n)
      BY <2>1, PreviewFollowsTheRule
    <2>3. \A n \in Node : ledger[n] = "applied" => Cleared(n)
      BY <1>1 DEF IInv, LegsOK
    <2>4. \A n \in Node : Parents(plan.deps, n) \in SUBSET Node
      BY <1>1, PlanFacts DEF IInv
    <2> HIDE DEF shown
    <2>5. ASSUME NEW n \in Node, ledger[n] = "applied" PROVE shown[n] = "applied"
      <3> DEFINE D == {m \in Node : ledger[m] = "applied" /\ shown[m] # "applied"}
      <3>1. ASSUME D # {} PROVE FALSE
        <4>1. Acyclic(plan.deps)
          BY <2>1, PlansAssumption
        <4>2. PICK m \in D : \A q \in D : <<q, m>> \notin plan.deps
          BY <3>1, <4>1 DEF Acyclic
        <4>3. m \notin plan.denied /\ \A q \in Parents(plan.deps, m) : ledger[q] = "applied"
          BY <2>3 DEF Cleared
        <4>4. \A q \in Parents(plan.deps, m) : shown[q] = "applied"
          BY <4>2, <4>3 DEF Parents
        <4>5. QED
          BY <2>2, <4>3, <4>4 DEF PreviewVerdict
      <3>2. QED
        BY <2>5, <3>1
    <2>6. ASSUME pc = "done", \A n \in Node : leg[n] # "failed"
          PROVE  ledger = shown
      <3>1. \A n \in Node : ledger[n] # "none"
        BY <1>1, <2>6 DEF IInv, LoopOK, FrontierOK
      <3>2. ASSUME NEW n \in Node
            PROVE  ledger[n] = PreviewVerdict(plan.deps, plan.denied, ledger, n)
        <4>1. CASE ledger[n] = "applied"
          BY <2>3, <2>4, <4>1 DEF Cleared, PreviewVerdict
        <4>2. CASE ledger[n] = "failed"
          BY <1>1, <2>4, <2>6, <4>2 DEF VerdictsOK, PreviewVerdict
        <4>3. CASE ledger[n] = "skipped"
          BY <1>1, <4>3 DEF VerdictsOK, PreviewVerdict
        <4>4. QED
          BY <2>1, <3>1, <4>1, <4>2, <4>3
      <3>3. \A n \in Node : ledger[n] = shown[n]
        BY <2>1, <2>2, <3>2, RuleHasOneSolution
      <3>4. shown \in [Node -> Disposition]
        <4>1. PICK f : RoundsOf(f, plan, Cardinality(Node)) /\ shown = f[Cardinality(Node)]
          BY PreviewIsLastRound DEF shown
        <4>2. Cardinality(Node) \in 0 .. Cardinality(Node)
          BY NodeFacts
        <4>3. QED
          BY <4>1, <4>2 DEF RoundsOf
      <3>5. QED
        BY <2>1, <3>3, <3>4
    <2>7. QED
      BY <2>5, <2>6 DEF PreviewIsHonest, shown
  <1>2. QED
    BY Invariance, VerdictsHold, <1>1, PTL
=============================================================================

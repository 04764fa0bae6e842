-------------------------- MODULE PlanCommit_proofs --------------------------
(***************************************************************************)
(* Proofs about PlanCommit, for every finite set of nodes and every edge   *)
(* set: what Kahn's algorithm returns, that the sequential walk keeps its  *)
(* books, and that it implements EffectWalk.  The last section is about    *)
(* EffectWalk alone, hence about both of its implementations.              *)
(***************************************************************************)
EXTENDS PlanCommit, FiniteSetTheorems, WellFoundedInduction, TLAPS

CONSTANT AnyPlans     \* the plans of an implementation of EffectWalk
VARIABLE verdict      \* what became of each of its nodes

\* An arbitrary implementation of the walk.
Any == INSTANCE EffectWalk WITH Plans <- AnyPlans, status <- verdict

-----------------------------------------------------------------------------
(* Induction, and the smallest of some NodeIds.                            *)

LEMMA LeastNatural ==
    ASSUME NEW S \in SUBSET Nat, S # {}
    PROVE  \E n \in S : \A m \in S : n <= m
  <1> DEFINE Less == {ss \in Nat \X Nat : ss[1] < ss[2]}
  <1>1. IsWellFoundedOn(Less, Nat)
    BY NatLessThanWellFounded DEF OpToRel
  <1>2. PICK n \in S : \A m \in S : <<m, n>> \notin Less
    <2> HIDE DEF Less
    <2> QED
      BY <1>1, WFMin
  <1>3. ASSUME NEW m \in S, m < n PROVE FALSE
    <2>1. <<m, n>> \in Nat \X Nat /\ <<m, n>>[1] < <<m, n>>[2]
      BY <1>3
    <2>2. QED
      BY <1>2, <2>1
  <1>4. QED
    BY <1>3

\* Induction over the naturals, for a set of them.
LEMMA SetInduction ==
    ASSUME NEW S \in SUBSET Nat, 0 \in S, \A k \in S : k + 1 \in S
    PROVE  S = Nat
  <1>1. ASSUME Nat \ S # {} PROVE FALSE
    <2>1. PICK n \in Nat \ S : \A m \in Nat \ S : n <= m
      BY <1>1, LeastNatural
    <2>2. n # 0 /\ n - 1 \in Nat
      BY <2>1
    <2>3. n - 1 \in S
      BY <2>1, <2>2
    <2>4. QED
      BY <2>1, <2>2, <2>3
  <1>2. QED
    BY <1>1

LEMMA SmallestIsLeast ==
    ASSUME NEW S \in SUBSET Node, S # {}
    PROVE  SmallestId(S) \in S /\ \A m \in S : SmallestId(S) <= m
  <1>1. \E n \in S : \A m \in S : n <= m
    BY LeastNatural, NodeAssumption
  <1>2. QED
    BY <1>1 DEF SmallestId

-----------------------------------------------------------------------------
(* Kahn's algorithm.  A Kahn walk emits nodes once, parents first, and at  *)
(* every place the smallest node that could be there.                      *)

Before(s, i) == {s[k] : k \in 1 .. i - 1}

\* The nodes that may be emitted next once those of done were.
KahnReady(deps, done) == {n \in Node \ done : Parents(deps, n) \subseteq done}

Distinct(s) == \A i, j \in 1 .. Len(s) : s[i] = s[j] => i = j
ParentsFirst(deps, s) ==
    \A i \in 1 .. Len(s) : Parents(deps, s[i]) \subseteq Before(s, i)
SmallestFirst(deps, s) ==
    \A i \in 1 .. Len(s) : \A m \in KahnReady(deps, Before(s, i)) : s[i] <= m

KahnWalk(deps, s) ==
    /\ s \in Seq(Node)
    /\ Distinct(s)
    /\ ParentsFirst(deps, s)
    /\ SmallestFirst(deps, s)

\* The entries that lead to n from nodes not emitted yet.
Missing(list, n, done) == {e \in Into(list, n) : e[1] \notin done}

\* A counter counts what is missing, and the ready list is what can go next.
KahnHolds(list, s) ==
    /\ KahnWalk(DepsOf(list), s.order)
    /\ s.indegree \in [Node -> Nat]
    /\ \A n \in Node : s.indegree[n] = Cardinality(Missing(list, n, Range(s.order)))
    /\ s.ready = KahnReady(DepsOf(list), Range(s.order))

\* A list of edges is a finite set of entries.
IsList(list) == IsFiniteSet(list)

LEMMA EntriesAreFinite ==
    ASSUME NEW list, IsList(list), NEW n, NEW done, NEW p
    PROVE  /\ IsFiniteSet(Into(list, n))
           /\ IsFiniteSet(Missing(list, n, done)) /\ Cardinality(Missing(list, n, done)) \in Nat
           /\ IsFiniteSet(EntriesFrom(list, p, n))
           /\ Cardinality(EntriesFrom(list, p, n)) \in Nat
  <1>1. /\ Into(list, n) \subseteq list /\ Missing(list, n, done) \subseteq list
        /\ EntriesFrom(list, p, n) \subseteq list
    BY DEF Into, Known, Missing, EntriesFrom
  <1>2. /\ IsFiniteSet(Into(list, n)) /\ IsFiniteSet(Missing(list, n, done))
        /\ IsFiniteSet(EntriesFrom(list, p, n))
    BY <1>1, FS_Subset DEF IsList
  <1>3. QED
    BY <1>2, FS_CardinalityType

\* Nothing is missing iff every parent was emitted, however many entries there are.
LEMMA NothingMissing ==
    ASSUME NEW list, IsList(list), NEW n \in Node, NEW done
    PROVE  Cardinality(Missing(list, n, done)) = 0 <=> Parents(DepsOf(list), n) \subseteq done
  <1>1. Cardinality(Missing(list, n, done)) = 0 <=> Missing(list, n, done) = {}
    BY EntriesAreFinite, FS_EmptySet
  <1>2. ASSUME NEW e \in Missing(list, n, done) PROVE e[1] \in Parents(DepsOf(list), n) \ done
    <2>1. e \in Known(list) /\ e[2] = n /\ e[1] \notin done /\ e[1] \in Node
      BY DEF Missing, Into, Known
    <2>2. <<e[1], n>> \in DepsOf(list)
      BY <2>1 DEF DepsOf
    <2>3. QED
      BY <2>1, <2>2 DEF Parents
  <1>3. ASSUME NEW p \in Parents(DepsOf(list), n), p \notin done
        PROVE  \E e \in Missing(list, n, done) : e[1] = p
    <2>1. <<p, n>> \in DepsOf(list)
      BY DEF Parents
    <2>2. PICK e \in Known(list) : <<e[1], e[2]>> = <<p, n>>
      BY <2>1 DEF DepsOf
    <2>3. e[1] = p /\ e[2] = n
      BY <2>2
    <2>4. QED
      BY <1>3, <2>2, <2>3 DEF Missing, Into
  <1>4. QED
    BY <1>1, <1>2, <1>3

LEMMA StartHolds ==
    ASSUME NEW list, IsList(list)
    PROVE  KahnHolds(list, KahnStart(list)) /\ Len(KahnStart(list).order) = 0
  <1> DEFINE s == KahnStart(list)
  <1>1. /\ s.order = << >> /\ s.indegree = [n \in Node |-> Cardinality(Into(list, n))]
        /\ s.ready = {n \in Node : Cardinality(Into(list, n)) = 0}
    BY DEF KahnStart
  <1> HIDE DEF s
  <1>2. Range(s.order) = {} /\ Len(s.order) = 0
    BY <1>1 DEF Range
  <1>3. \A n \in Node : Missing(list, n, {}) = Into(list, n)
    BY DEF Missing
  <1>4. KahnWalk(DepsOf(list), << >>)
    BY DEF KahnWalk, Distinct, ParentsFirst, SmallestFirst
  <1>5. s.indegree \in [Node -> Nat]
    <2>1. \A n \in Node : Cardinality(Into(list, n)) \in Nat
      BY <1>3, EntriesAreFinite
    <2>2. QED
      BY <1>1, <2>1
  <1>6. s.ready = KahnReady(DepsOf(list), {})
    BY <1>1, <1>3, NothingMissing DEF KahnReady
  <1>7. QED
    BY <1>1, <1>2, <1>3, <1>4, <1>5, <1>6 DEF KahnHolds, s

\* Emitting a ready node that is the smallest keeps the walk.
LEMMA EmitKeeps ==
    ASSUME NEW deps, NEW s, KahnWalk(deps, s), NEW m \in KahnReady(deps, Range(s)),
           \A x \in KahnReady(deps, Range(s)) : m <= x
    PROVE  KahnWalk(deps, Append(s, m)) /\ Len(Append(s, m)) = Len(s) + 1
           /\ Range(Append(s, m)) = Range(s) \cup {m}
  <1> DEFINE t == Append(s, m)
  <1>1. s \in Seq(Node) /\ Range(s) = {s[k] : k \in 1 .. Len(s)}
    BY DEF KahnWalk, Range
  <1>2. Parents(deps, m) \subseteq Range(s) /\ m \in Node \ Range(s)
    BY DEF KahnReady
  <1>3. /\ t \in Seq(Node) /\ Len(t) = Len(s) + 1 /\ t[Len(s) + 1] = m
        /\ \A k \in 1 .. Len(s) : t[k] = s[k]
    BY <1>1, <1>2
  <1>4. /\ Len(s) \in Nat
        /\ \A i \in 1 .. Len(s) + 1 : i \in 1 .. Len(s) \/ i = Len(s) + 1
    BY <1>1
  <1> HIDE DEF t
  <1>5. \A i \in 1 .. Len(s) : Before(t, i) = Before(s, i)
    BY <1>3, <1>4 DEF Before
  <1>6. Before(t, Len(s) + 1) = Range(s)
    BY <1>1, <1>3, <1>4 DEF Before
  <1>7. Distinct(t)
    <2>1. \A k \in 1 .. Len(s) : s[k] # m
      BY <1>1, <1>2
    <2>2. \A i, j \in 1 .. Len(s) : s[i] = s[j] => i = j
      BY DEF KahnWalk, Distinct
    <2>3. QED
      BY <1>3, <1>4, <2>1, <2>2 DEF Distinct
  <1>8. ParentsFirst(deps, t)
    BY <1>2, <1>3, <1>4, <1>5, <1>6 DEF KahnWalk, ParentsFirst
  <1>9. SmallestFirst(deps, t)
    BY <1>3, <1>4, <1>5, <1>6 DEF KahnWalk, SmallestFirst
  <1>10. Range(t) = Range(s) \cup {m}
    <2>1. Range(t) = {t[k] : k \in 1 .. Len(s) + 1}
      BY <1>3 DEF Range
    <2>2. QED
      BY <1>1, <1>3, <1>4, <2>1
  <1>11. QED
    BY <1>3, <1>7, <1>8, <1>9, <1>10 DEF KahnWalk, t

\* A turn of the loop lengthens the walk by one, or nothing was ready.
LEMMA KahnTurnKeeps ==
    ASSUME NEW list, IsList(list), NEW s, KahnHolds(list, s)
    PROVE  /\ KahnHolds(list, KahnTurn(list, s))
           /\ IF s.ready = {} THEN KahnTurn(list, s) = s
              ELSE Len(KahnTurn(list, s).order) = Len(s.order) + 1
  <1> DEFINE deps == DepsOf(list)
             done == Range(s.order)
             next == SmallestId(s.ready)
             left == [n \in Node |-> s.indegree[n] - Relaxed(list, next, n)]
             freed == {n \in Node : EntriesFrom(list, next, n) # {} /\ left[n] = 0}
             t == KahnTurn(list, s)
  <1>1. CASE s.ready = {}
    BY <1>1 DEF KahnTurn
  <1>2. CASE s.ready # {}
    <2>1. /\ t.order = Append(s.order, next) /\ t.indegree = left
          /\ t.ready = (s.ready \ {next}) \cup freed
      BY <1>2 DEF KahnTurn
    <2>2. /\ KahnWalk(deps, s.order) /\ s.ready = KahnReady(deps, done) /\ s.ready \in SUBSET Node
          /\ \A n \in Node : s.indegree[n] = Cardinality(Missing(list, n, done))
      BY DEF KahnHolds, KahnReady
    <2>3. next \in s.ready /\ \A x \in s.ready : next <= x
      BY <1>2, <2>2, SmallestIsLeast
    <2>4. next \in Node \ done /\ Parents(deps, next) \subseteq done
      BY <2>2, <2>3 DEF KahnReady
    <2> HIDE DEF t, next, deps, done
    <2>5. /\ KahnWalk(deps, t.order) /\ Len(t.order) = Len(s.order) + 1
          /\ Range(t.order) = done \cup {next}
      BY <2>1, <2>2, <2>3, EmitKeeps DEF done
    <2>6. \A n \in Node : left[n] = Cardinality(Missing(list, n, done \cup {next}))
      <3> SUFFICES ASSUME NEW n \in Node
                   PROVE  left[n] = Cardinality(Missing(list, n, done \cup {next}))
        OBVIOUS
      <3> DEFINE all == Missing(list, n, done)
                 part == EntriesFrom(list, next, n)
      <3>1. IsFiniteSet(all) /\ part \subseteq all
        <4>1. IsFiniteSet(all)
          BY EntriesAreFinite
        <4>2. next \notin done
          BY <2>4
        <4>3. part \subseteq all
          BY <4>2 DEF Missing, EntriesFrom
        <4>4. QED
          BY <4>1, <4>3
      <3>2. Missing(list, n, done \cup {next}) = all \ part
        BY DEF Missing, EntriesFrom
      <3>3. left[n] = Cardinality(all) - Cardinality(part)
        BY <2>2 DEF Relaxed
      <3>4. all \cap part = part
        BY <3>1
      <3> HIDE DEF all, part
      <3>5. IsFiniteSet(part)
        BY <3>1, FS_Subset
      <3>6. Cardinality(all \ part) = Cardinality(all) - Cardinality(part)
        BY <3>1, <3>4, <3>5, FS_Difference
      <3>7. QED
        BY <3>2, <3>3, <3>6
    <2>7. left \in [Node -> Nat]
      <3>1. \A n \in Node : left[n] \in Nat
        BY <2>6, EntriesAreFinite
      <3>2. QED
        BY <3>1
    <2> HIDE DEF left
    <2>8. \A n \in Node : left[n] = 0 <=> Parents(deps, n) \subseteq done \cup {next}
      BY <2>6, NothingMissing DEF deps
    <2>9. \A n \in Node : EntriesFrom(list, next, n) # {} <=> next \in Parents(deps, n)
      <3> SUFFICES ASSUME NEW n \in Node
                   PROVE  EntriesFrom(list, next, n) # {} <=> next \in Parents(deps, n)
        OBVIOUS
      <3>1. next \in Parents(deps, n) <=> \E e \in Known(list) : <<e[1], e[2]>> = <<next, n>>
        BY <2>4 DEF Parents, DepsOf, deps
      <3>2. QED
        BY <3>1 DEF EntriesFrom, Into
    <2>10. t.ready = KahnReady(deps, done \cup {next})
      <3>1. ASSUME NEW n \in t.ready PROVE n \in KahnReady(deps, done \cup {next})
        <4>1. CASE n \in s.ready \ {next}
          BY <2>2, <4>1 DEF KahnReady
        <4>2. CASE n \in freed
          <5>1. n \in Node /\ next \in Parents(deps, n) /\ Parents(deps, n) \subseteq done \cup {next}
            BY <2>8, <2>9, <4>2
          <5>2. n # next
            BY <2>4, <5>1
          <5>3. n \notin done
            <6> SUFFICES ASSUME n \in done PROVE FALSE
              OBVIOUS
            <6>1. PICK i \in 1 .. Len(s.order) : s.order[i] = n
              BY <2>2 DEF done, Range, KahnWalk
            <6>2. next \in Before(s.order, i)
              BY <2>2, <5>1, <6>1 DEF KahnWalk, ParentsFirst
            <6>3. PICK k \in 1 .. i - 1 : s.order[k] = next
              BY <6>2 DEF Before
            <6>4. k \in 1 .. Len(s.order)
              BY <2>2, <6>1, <6>3 DEF KahnWalk
            <6>5. QED
              BY <2>2, <2>4, <6>3, <6>4 DEF done, Range, KahnWalk
          <5>4. QED
            BY <5>1, <5>2, <5>3 DEF KahnReady
        <4>3. QED
          BY <2>1, <4>1, <4>2
      <3>2. ASSUME NEW n \in KahnReady(deps, done \cup {next}) PROVE n \in t.ready
        <4>1. n \in Node /\ n \notin done /\ n # next /\ Parents(deps, n) \subseteq done \cup {next}
          BY DEF KahnReady
        <4>2. CASE next \in Parents(deps, n)
          BY <2>1, <2>8, <2>9, <4>1, <4>2
        <4>3. CASE next \notin Parents(deps, n)
          BY <2>1, <2>2, <4>1, <4>3 DEF KahnReady
        <4>4. QED
          BY <4>2, <4>3
      <3>3. QED
        BY <3>1, <3>2
    <2>11. KahnHolds(list, t)
      BY <2>1, <2>5, <2>6, <2>7, <2>10 DEF KahnHolds, deps
    <2>12. QED
      BY <1>2, <2>5, <2>11 DEF t
  <1>3. QED
    BY <1>1, <1>2

\* The loop's successive states, up to the m-th turn.
Turns(f, list, m) ==
    /\ DOMAIN f = 0 .. m /\ f = [k \in 0 .. m |-> f[k]]
    /\ f[0] = KahnStart(list)
    /\ \A k \in 1 .. m : f[k] = KahnTurn(list, f[k - 1])
    /\ \A k \in 0 .. m : KahnHolds(list, f[k]) /\ (Len(f[k].order) = k \/ f[k].ready = {})

LEMMA TurnsExist ==
    ASSUME NEW list, IsList(list), NEW m \in Nat
    PROVE  \E f : Turns(f, list, m)
  <1> DEFINE S == {k \in Nat : \E f : Turns(f, list, k)}
  <1>1. 0 \in S
    <2> DEFINE f == [k \in 0 .. 0 |-> KahnStart(list)]
    <2>1. DOMAIN f = 0 .. 0 /\ f = [k \in 0 .. 0 |-> f[k]] /\ f[0] = KahnStart(list)
      OBVIOUS
    <2> HIDE DEF f
    <2>2. Turns(f, list, 0)
      BY <2>1, StartHolds DEF Turns
    <2>3. QED
      BY <2>2
  <1>2. ASSUME NEW k \in S PROVE k + 1 \in S
    <2>1. PICK f : Turns(f, list, k)
      BY <1>2
    <2> DEFINE t == KahnTurn(list, f[k])
               g == [j \in 0 .. k + 1 |-> IF j = k + 1 THEN t ELSE f[j]]
    <2>2. k \in Nat /\ k \in 0 .. k
      BY <1>2
    <2>3. /\ f[0] = KahnStart(list)
          /\ \A j \in 1 .. k : f[j] = KahnTurn(list, f[j - 1])
          /\ \A j \in 0 .. k : KahnHolds(list, f[j]) /\ (Len(f[j].order) = j \/ f[j].ready = {})
      BY <2>1 DEF Turns
    <2>4. KahnHolds(list, t) /\ (Len(t.order) = k + 1 \/ t.ready = {})
      BY <2>2, <2>3, KahnTurnKeeps
    <2>5. /\ \A j \in 0 .. k : g[j] = f[j]
          /\ g[k + 1] = t
          /\ DOMAIN g = 0 .. k + 1 /\ g = [j \in 0 .. k + 1 |-> g[j]]
      <3> HIDE DEF t
      <3> QED
        BY <2>2
    <2> HIDE DEF g
    <2>6. \A j \in 0 .. k + 1 : j \in 0 .. k \/ j = k + 1
      BY <2>2
    <2>7. ASSUME NEW j \in 1 .. k + 1 PROVE g[j] = KahnTurn(list, g[j - 1])
      <3>1. CASE j = k + 1
        <4>1. j - 1 = k
          BY <2>2, <3>1
        <4>2. g[j - 1] = f[k] /\ g[j] = t
          BY <2>2, <2>5, <3>1, <4>1
        <4>3. QED
          BY <4>2
      <3>2. CASE j # k + 1
        <4>1. j \in 1 .. k /\ j \in 0 .. k /\ j - 1 \in 0 .. k
          BY <2>2, <3>2
        <4>2. QED
          BY <2>3, <2>5, <4>1
      <3>3. QED
        BY <3>1, <3>2
    <2>8. g[0] = KahnStart(list)
      BY <2>2, <2>3, <2>5
    <2>9. \A j \in 0 .. k + 1 : KahnHolds(list, g[j]) /\ (Len(g[j].order) = j \/ g[j].ready = {})
      <3> HIDE DEF t
      <3> QED
        BY <2>3, <2>4, <2>5, <2>6
    <2>10. Turns(g, list, k + 1)
      BY <2>5, <2>7, <2>8, <2>9 DEF Turns
    <2>11. QED
      BY <2>2, <2>10
  <1>3. S = Nat
    <2> HIDE DEF S
    <2>1. S \in SUBSET Nat
      BY DEF S
    <2>2. QED
      BY <1>1, <1>2, <2>1, SetInduction
  <1>4. QED
    BY <1>3

LEMMA SizeType == Cardinality(Node) \in Nat /\ IsFiniteSet(Node)
  BY NodeAssumption, FS_CardinalityType

\* What topo_order returns is a Kahn walk, and either it has as many turns as
\* there are nodes or nothing more was ready.
LEMMA TopoOrderIsKahn ==
    ASSUME NEW list, IsList(list)
    PROVE  /\ KahnWalk(DepsOf(list), TopoOrder(list))
           /\ \/ Len(TopoOrder(list)) = Cardinality(Node)
              \/ KahnReady(DepsOf(list), Range(TopoOrder(list))) = {}
  <1> DEFINE N == Cardinality(Node)
             Rule(f) == [k \in 0 .. N |-> IF k = 0 THEN KahnStart(list)
                                          ELSE KahnTurn(list, f[k - 1])]
             g == CHOOSE f : f = Rule(f)
  <1>1. N \in Nat
    BY SizeType
  <1>2. TopoOrder(list) = g[N].order
    BY DEF TopoOrder
  <1> HIDE DEF N
  <1>3. PICK f : Turns(f, list, N)
    BY <1>1, TurnsExist
  <1>4. f = Rule(f)
    <2>1. f = [k \in 0 .. N |-> f[k]]
      BY <1>3 DEF Turns
    <2>2. ASSUME NEW k \in 0 .. N
          PROVE  f[k] = IF k = 0 THEN KahnStart(list) ELSE KahnTurn(list, f[k - 1])
      <3>1. CASE k = 0
        BY <1>3, <3>1 DEF Turns
      <3>2. CASE k # 0
        <4>1. k \in 1 .. N
          BY <1>1, <3>2
        <4>2. QED
          BY <1>3, <3>2, <4>1 DEF Turns
      <3>3. QED
        BY <3>1, <3>2
    <2>3. QED
      BY <2>1, <2>2
  <1>5. \E h : h = Rule(h)
    BY <1>4
  <1>6. g = Rule(g)
    <2> HIDE DEF Rule
    <2> QED
      BY <1>5
  <1>7. ASSUME NEW k \in 0 .. N
        PROVE  g[k] = IF k = 0 THEN KahnStart(list) ELSE KahnTurn(list, g[k - 1])
    BY <1>6
  <1> HIDE DEF g, Rule
  <1> DEFINE S == {k \in Nat : k <= N => g[k] = f[k]}
  <1>8. S = Nat
    <2>1. 0 \in S
      <3>1. 0 \in 0 .. N
        BY <1>1
      <3>2. g[0] = KahnStart(list) /\ f[0] = KahnStart(list)
        BY <1>3, <1>7, <3>1 DEF Turns
      <3>3. QED
        BY <3>2
    <2>2. ASSUME NEW k \in S PROVE k + 1 \in S
      <3>1. k \in Nat
        BY <2>2
      <3>2. CASE k + 1 <= N
        <4>1. k + 1 \in 1 .. N /\ k + 1 \in 0 .. N /\ k <= N /\ (k + 1) - 1 = k
          BY <1>1, <3>1, <3>2
        <4>2. g[k] = f[k]
          BY <2>2, <4>1
        <4>3. g[k + 1] = KahnTurn(list, g[k])
          BY <1>7, <3>1, <4>1
        <4>4. f[k + 1] = KahnTurn(list, f[k])
          BY <1>3, <4>1 DEF Turns
        <4>5. QED
          BY <3>1, <4>2, <4>3, <4>4
      <3>3. CASE ~ (k + 1 <= N)
        BY <3>1, <3>3
      <3>4. QED
        BY <3>2, <3>3
    <2> HIDE DEF S
    <2>3. S \in SUBSET Nat
      BY DEF S
    <2>4. QED
      BY <2>1, <2>2, <2>3, SetInduction
  <1>9. TopoOrder(list) = f[N].order
    BY <1>1, <1>2, <1>8
  <1>10. N \in 0 .. N
    BY <1>1
  <1>11. KahnHolds(list, f[N]) /\ (Len(f[N].order) = N \/ f[N].ready = {})
    BY <1>3, <1>10 DEF Turns
  <1>12. QED
    BY <1>9, <1>11 DEF KahnHolds, N

\* A walk has as many entries as there are nodes iff every node is in it.
LEMMA FullWalk ==
    ASSUME NEW deps, NEW s, KahnWalk(deps, s)
    PROVE  Len(s) = Cardinality(Node) <=> Range(s) = Node
  <1>1. s \in [1 .. Len(s) -> Node] /\ Len(s) \in Nat
    BY DEF KahnWalk
  <1>2. s \in Injection(1 .. Len(s), Node)
    BY <1>1 DEF KahnWalk, Distinct, Injection, IsInjective
  <1>3. Cardinality(1 .. Len(s)) = Len(s)
    <2>1. Cardinality(1 .. Len(s)) = IF 1 > Len(s) THEN 0 ELSE Len(s) - 1 + 1
      <3>1. 1 \in Int /\ Len(s) \in Int
        BY <1>1
      <3>2. QED
        BY <3>1, FS_Interval
    <2>2. QED
      BY <1>1, <2>1
  <1>4. Len(s) = Cardinality(Node) <=> s \in Surjection(1 .. Len(s), Node)
    BY <1>2, <1>3, SizeType, FS_Injection
  <1>5. s \in Surjection(1 .. Len(s), Node) <=> Range(s) = Node
    BY <1>1 DEF Surjection, Range
  <1>6. QED
    BY <1>4, <1>5

\* topo_order orders every acyclic plan, and no other.
LEMMA OrdersTheAcyclic ==
    ASSUME NEW list, IsList(list)
    PROVE  HasTopoOrder(list) <=> Acyclic(DepsOf(list))
  <1> DEFINE deps == DepsOf(list)
             s == TopoOrder(list)
             Out == Node \ Range(s)
  <1>1. KahnWalk(deps, s)
    BY TopoOrderIsKahn
  <1>2. HasTopoOrder(list) <=> Range(s) = Node
    BY <1>1, FullWalk DEF HasTopoOrder
  <1>3. s \in Seq(Node) /\ Range(s) = {s[k] : k \in 1 .. Len(s)}
    BY <1>1 DEF KahnWalk, Range
  <1>4. Range(s) \subseteq Node
    BY <1>3
  <1>5. ASSUME ~ HasTopoOrder(list) PROVE ~ Acyclic(deps)
    <2>1. KahnReady(deps, Range(s)) = {}
      BY <1>5, TopoOrderIsKahn DEF HasTopoOrder
    <2> HIDE DEF s
    <2>2. Out \in (SUBSET Node) \ {{}}
      BY <1>2, <1>4, <1>5
    <2>3. \A n \in Out : \E p \in Out : <<p, n>> \in deps
      BY <2>1 DEF KahnReady, Parents
    <2>4. QED
      BY <2>2, <2>3 DEF Acyclic
  <1>6. ASSUME HasTopoOrder(list), ~ Acyclic(deps) PROVE FALSE
    <2>1. PICK C \in (SUBSET Node) \ {{}} : \A n \in C : \E p \in C : <<p, n>> \in deps
      BY <1>6 DEF Acyclic
    <2> DEFINE At == {k \in 1 .. Len(s) : s[k] \in C}
    <2>2. At # {} /\ At \in SUBSET Nat
      <3> HIDE DEF s
      <3> QED
        BY <1>2, <1>3, <1>6, <2>1
    <2>3. PICK k \in At : \A j \in At : k <= j
      <3> HIDE DEF At
      <3> QED
        BY <2>2, LeastNatural
    <2>4. PICK p \in C : <<p, s[k]>> \in deps
      BY <2>1, <2>3
    <2>5. p \in Parents(deps, s[k])
      BY <2>1, <2>4 DEF Parents
    <2>6. PICK j \in 1 .. k - 1 : p = s[j]
      BY <1>1, <2>3, <2>5 DEF KahnWalk, ParentsFirst, Before
    <2>7. j \in At /\ j < k
      <3> HIDE DEF s
      <3> QED
        BY <1>3, <2>3, <2>4, <2>6
    <2>8. QED
      BY <2>3, <2>7
  <1>7. QED
    BY <1>5, <1>6

-----------------------------------------------------------------------------
(* The sequential walk.  Its order is a Kahn walk of the plan, and its     *)
(* report accounts for exactly the nodes it has passed.                    *)

OrderOK == KahnWalk(plan.deps, order)

Passed == {order[k] : k \in 1 .. pos}

\* Each node passed is in exactly one part of the report, or is a failure of
\* which the report keeps the first only; a skip names a tainted parent.
BooksOK ==
    /\ Range(applied) \cup tainted = Passed
    /\ Range(applied) \cap tainted = {}
    /\ DOMAIN skipped \cup failed \subseteq tainted
    /\ \A n \in DOMAIN skipped :
          skipped[n] \in Parents(plan.deps, n) \cap tainted

IInv == TypeOK /\ TopoOrderIsRight /\ OrderOK /\ BooksOK

LEMMA KahnWalkIsRight ==
    ASSUME NEW deps, NEW s, KahnWalk(deps, s)
    PROVE  /\ \A i, j \in DOMAIN s : <<s[i], s[j]>> \in deps => i < j
           /\ \A i, j \in DOMAIN s : i < j /\ s[j] < s[i] =>
                 \E p \in Parents(deps, s[j]) :
                     \E k \in i .. j - 1 : s[k] = p
  <1>1. s \in Seq(Node) /\ Len(s) \in Nat /\ DOMAIN s = 1 .. Len(s)
    BY DEF KahnWalk
  <1>2. \A i \in 1 .. Len(s) : s[i] \in Node /\ s[i] \in Nat
    <2>1. \A i \in 1 .. Len(s) : s[i] \in Node
      BY <1>1
    <2>2. QED
      BY <2>1, NodeAssumption
  <1>3. ASSUME NEW i \in DOMAIN s, NEW j \in DOMAIN s, <<s[i], s[j]>> \in deps
        PROVE  i < j
    <2>1. s[i] \in Parents(deps, s[j])
      BY <1>1, <1>2, <1>3 DEF Parents
    <2>2. PICK k \in 1 .. j - 1 : s[i] = s[k]
      BY <1>1, <1>3, <2>1 DEF KahnWalk, ParentsFirst, Before
    <2>3. k \in 1 .. Len(s)
      BY <1>1, <1>3, <2>2
    <2>4. i = k
      BY <1>1, <1>3, <2>2, <2>3 DEF KahnWalk, Distinct
    <2>5. QED
      BY <1>1, <2>2, <2>4
  <1>4. ASSUME NEW i \in DOMAIN s, NEW j \in DOMAIN s, i < j, s[j] < s[i]
        PROVE  \E p \in Parents(deps, s[j]) : \E k \in i .. j - 1 : s[k] = p
    <2>1. i \in 1 .. Len(s) /\ j \in 1 .. Len(s)
      BY <1>1
    <2>2. s[j] \notin KahnReady(deps, Before(s, i))
      BY <1>2, <1>4, <2>1 DEF KahnWalk, SmallestFirst
    <2>3. s[j] \notin Before(s, i)
      <3> SUFFICES ASSUME NEW k \in 1 .. i - 1, s[j] = s[k] PROVE FALSE
        BY DEF Before
      <3>1. k \in 1 .. Len(s) /\ k # j
        BY <1>1, <1>4, <2>1
      <3>2. QED
        BY <2>1, <3>1 DEF KahnWalk, Distinct
    <2>4. PICK p \in Parents(deps, s[j]) : p \notin Before(s, i)
      BY <1>2, <2>1, <2>2, <2>3 DEF KahnReady
    <2>5. PICK k \in 1 .. j - 1 : s[k] = p
      BY <2>1, <2>4 DEF KahnWalk, ParentsFirst, Before
    <2>6. k \in i .. j - 1
      BY <1>1, <2>1, <2>4, <2>5 DEF Before
    <2>7. QED
      BY <2>5, <2>6
  <1>5. QED
    BY <1>3, <1>4

\* What the entries of a plan are.
LEMMA ListsAreFinite ==
    ASSUME NEW list \in EdgeLists
    PROVE  IsList(list)
  <1> DEFINE copies == Node \X Node \X (1 .. MaxCopies)
             others == (Node \X Strangers \X {1}) \cup (Strangers \X Node \X {1})
  <1>1. list \subseteq copies \cup others
    <2>1. PICK times \in [Node \X Node -> 0 .. MaxCopies], dangling \in {{}, others} :
             list = {e \in copies : e[3] <= times[<<e[1], e[2]>>]} \cup dangling
      BY DEF EdgeLists
    <2> HIDE DEF copies, others
    <2>2. QED
      BY <2>1
  <1>2. /\ IsFiniteSet(Node) /\ IsFiniteSet(Strangers)
        /\ IsFiniteSet(1 .. MaxCopies) /\ IsFiniteSet({1})
    <2>1. IsFiniteSet({} \cup {1})
      BY FS_EmptySet, FS_AddElement
    <2>2. {} \cup {1} = {1}
      OBVIOUS
    <2>3. IsFiniteSet({1})
      BY <2>1, <2>2, Zenon
    <2>4. IsFiniteSet(1 .. MaxCopies)
      BY ListAssumption, FS_Interval
    <2>5. QED
      BY <2>3, <2>4, NodeAssumption, ListAssumption
  <1>3. ASSUME NEW A, NEW B, NEW C, IsFiniteSet(A), IsFiniteSet(B), IsFiniteSet(C)
        PROVE  IsFiniteSet(A \X B \X C)
    <2>1. IsFiniteSet((A \X B) \X C)
      BY <1>3, FS_Product
    <2> DEFINE F == [x \in (A \X B) \X C |-> <<x[1][1], x[1][2], x[2]>>]
    <2>2. F \in Surjection((A \X B) \X C, A \X B \X C)
      <3>1. F \in [(A \X B) \X C -> A \X B \X C]
        OBVIOUS
      <3>2. ASSUME NEW y \in A \X B \X C PROVE \E x \in (A \X B) \X C : F[x] = y
        <4>1. <<<<y[1], y[2]>>, y[3]>> \in (A \X B) \X C
          OBVIOUS
        <4>2. F[<<<<y[1], y[2]>>, y[3]>>] = y
          BY <4>1
        <4>3. QED
          BY <4>1, <4>2
      <3>3. QED
        BY <3>1, <3>2 DEF Surjection
    <2>3. QED
      BY <2>1, <2>2, FS_Surjection
  <1>4. IsFiniteSet(copies) /\ IsFiniteSet(Node \X Strangers \X {1})
        /\ IsFiniteSet(Strangers \X Node \X {1})
    BY <1>2, <1>3
  <1>5. IsFiniteSet(copies \cup others)
    BY <1>4, FS_Union
  <1>6. QED
    BY <1>1, <1>5, FS_Subset DEF IsList

LEMMA DepsAreEdges ==
    ASSUME NEW list
    PROVE  DepsOf(list) \in Edges
  BY DEF DepsOf, Known, Edges

LEMMA InitRight == Init => OrderOK /\ TopoOrderIsRight
  <1> SUFFICES ASSUME Init PROVE OrderOK /\ TopoOrderIsRight
    OBVIOUS
  <1>0. PICK list \in EdgeLists : /\ plan = [deps |-> DepsOf(list), denied |-> {}]
                                  /\ order = WalkOrder(list)
    BY DEF Init
  <1> DEFINE deps == plan.deps
             s == TopoOrder(list)
  <1>1. IsList(list) /\ deps = DepsOf(list)
    BY <1>0, ListsAreFinite
  <1>2. order = IF Acyclic(deps) THEN s ELSE << >>
    BY <1>0, <1>1, OrdersTheAcyclic DEF WalkOrder
  <1>3. KahnWalk(deps, s) /\ KahnWalk(deps, << >>)
    BY <1>1, TopoOrderIsKahn DEF KahnWalk, Distinct, ParentsFirst, SmallestFirst
  <1>4. KahnWalk(deps, order)
    <2> HIDE DEF s, deps
    <2> QED
      BY <1>2, <1>3
  <1>5. ASSUME Acyclic(deps) PROVE Len(s) = Cardinality(Node) /\ Range(s) = Node
    BY <1>1, <1>3, <1>5, OrdersTheAcyclic, FullWalk DEF HasTopoOrder
  <1>6. IF Acyclic(deps)
        THEN Range(order) = Node /\ Len(order) = Cardinality(Node)
        ELSE order = << >>
    <2> HIDE DEF s, deps
    <2> QED
      BY <1>2, <1>5
  <1>7. QED
    BY <1>4, <1>6, KahnWalkIsRight DEF OrderOK, TopoOrderIsRight

\* What the walk knows of the node it is at: it is new, and whatever it
\* depends on was passed.
LEMMA AtCurrent ==
    ASSUME IInv, pos < Len(order)
    PROVE  /\ Current \in Node \ Passed
           /\ Parents(plan.deps, Current) \subseteq Passed
           /\ pos \in Nat /\ pos + 1 \in 1 .. Len(order)
           /\ Passed \cup {Current} = {order[k] : k \in 1 .. pos + 1}
           /\ Passed \subseteq Node
  <1>1. order \in Seq(Node) /\ Len(order) \in Nat /\ pos \in Nat /\ pos <= Len(order)
    BY DEF IInv, TypeOK
  <1>2. pos + 1 \in 1 .. Len(order) /\ \A k \in 1 .. pos : k \in 1 .. Len(order) /\ k # pos + 1
    BY <1>1
  <1>3. \A k \in 1 .. Len(order) : order[k] \in Node
    BY <1>1
  <1>4. Current \notin Passed
    <2> SUFFICES ASSUME NEW k \in 1 .. pos, order[pos + 1] = order[k] PROVE FALSE
      BY DEF Passed, Current
    <2>1. QED
      BY <1>2 DEF IInv, OrderOK, KahnWalk, Distinct
  <1>5. (pos + 1) - 1 = pos
    BY <1>1
  <1>6. Parents(plan.deps, Current) \subseteq Passed
    BY <1>2, <1>5 DEF IInv, OrderOK, KahnWalk, ParentsFirst, Before, Passed, Current
  <1>7. Passed \cup {Current} = {order[k] : k \in 1 .. pos + 1}
    <2>1. \A k : k \in 1 .. pos + 1 <=> k \in 1 .. pos \/ k = pos + 1
      BY <1>1
    <2>2. QED
      BY <2>1 DEF Passed, Current
  <1>8. QED
    BY <1>1, <1>2, <1>3, <1>4, <1>6, <1>7 DEF Passed, Current

\* The plan and the order are read only, so what they satisfy stays.
LEMMA OrderStays ==
    ASSUME IInv, UNCHANGED <<plan, order>>
    PROVE  OrderOK' /\ TopoOrderIsRight'
  BY DEF IInv, OrderOK, TopoOrderIsRight

LEMMA PlanType ==
    ASSUME IInv
    PROVE  /\ plan.deps \in Edges /\ plan.denied = {}
           /\ \A n : Parents(plan.deps, n) \subseteq Node
  BY DEF IInv, TypeOK, Parents

LEMMA InitInv == Init => IInv
  <1> SUFFICES ASSUME Init PROVE IInv
    OBVIOUS
  <1>1. OrderOK /\ TopoOrderIsRight
    BY InitRight
  <1>2. order \in Seq(Node) /\ Len(order) \in Nat
    BY <1>1 DEF OrderOK, KahnWalk
  <1>3. Range(applied) = {} /\ DOMAIN skipped = {} /\ Range(skipped) = {}
    BY DEF Init, Range
  <1>4. Cardinality(failed) = 0
    BY FS_EmptySet DEF Init
  <1>5. TypeOK
    <2>1. plan \in [deps : Edges, denied : {{}}]
      BY DepsAreEdges DEF Init
    <2>2. QED
      BY <1>2, <1>3, <1>4, <2>1 DEF Init, TypeOK
  <1>6. BooksOK
    <2>1. Passed = {}
      BY DEF Init, Passed
    <2>2. QED
      BY <1>3, <2>1 DEF Init, BooksOK
  <1>7. QED
    BY <1>1, <1>5, <1>6 DEF IInv

LEMMA AppendRange ==
    ASSUME NEW s \in Seq(Node), NEW n \in Node
    PROVE  Append(s, n) \in Seq(Node) /\ Range(Append(s, n)) = Range(s) \cup {n}
  <1> DEFINE t == Append(s, n)
  <1>1. /\ t \in Seq(Node) /\ Len(s) \in Nat
        /\ DOMAIN s = 1 .. Len(s) /\ DOMAIN t = 1 .. Len(s) + 1
        /\ t[Len(s) + 1] = n
        /\ \A k \in 1 .. Len(s) : t[k] = s[k]
    OBVIOUS
  <1>2. \A k : k \in 1 .. Len(s) + 1 <=> k \in 1 .. Len(s) \/ k = Len(s) + 1
    BY <1>1
  <1> HIDE DEF t
  <1>3. t \in Seq(Node) /\ Range(t) = Range(s) \cup {n}
    BY <1>1, <1>2 DEF Range
  <1>4. QED
    BY <1>3 DEF t

LEMMA SkipNodeKeeps ==
    ASSUME IInv, SkipNode
    PROVE  IInv'
  <1>1. /\ Current \in Node \ Passed
        /\ pos \in Nat /\ pos + 1 \in 1 .. Len(order)
        /\ Passed \cup {Current} = {order[k] : k \in 1 .. pos + 1}
        /\ Passed \subseteq Node
    BY AtCurrent DEF SkipNode
  <1>2. PICK p \in FailedParents(Current) :
             skipped' = [n \in DOMAIN skipped \cup {Current} |->
                            IF n = Current THEN p ELSE skipped[n]]
    BY DEF SkipNode
  <1>3. p \in Parents(plan.deps, Current) /\ p \in tainted
    BY <1>2 DEF FailedParents
  <1>4. /\ tainted' = tainted \cup {Current} /\ pos' = pos + 1
        /\ plan' = plan /\ order' = order /\ applied' = applied /\ failed' = failed
    BY DEF SkipNode
  <1>5. DOMAIN skipped' = DOMAIN skipped \cup {Current}
    BY <1>2
  <1>6. Passed' = Passed \cup {Current}
    BY <1>1, <1>4 DEF Passed
  <1>7. BooksOK'
    <2>1. Current \notin DOMAIN skipped /\ Current \notin Range(applied)
      BY <1>1 DEF IInv, BooksOK
    <2>2. \A n \in DOMAIN skipped : skipped'[n] = skipped[n]
      BY <1>2, <2>1
    <2>3. skipped'[Current] = p
      BY <1>2
    <2>4. \A n \in DOMAIN skipped' : skipped'[n] \in Parents(plan.deps, n) \cap tainted'
      BY <1>3, <1>4, <1>5, <2>2, <2>3 DEF IInv, BooksOK
    <2>5. QED
      BY <1>4, <1>5, <1>6, <2>1, <2>4 DEF IInv, BooksOK
  <1>8. TypeOK'
    <2>1. Range(skipped') \subseteq Node
      BY <1>4, <1>7, PlanType DEF BooksOK, Range
    <2>2. /\ plan \in [deps : Edges, denied : {{}}] /\ order \in Seq(Node)
          /\ applied \in Seq(Node) /\ tainted \subseteq Node /\ DOMAIN skipped \subseteq Node
          /\ failed \subseteq Node /\ Cardinality(failed) <= 1
      BY DEF IInv, TypeOK
    <2>3. pos + 1 \in 0 .. Len(order)
      BY <1>1
    <2>4. QED
      BY <1>1, <1>4, <1>5, <2>1, <2>2, <2>3 DEF TypeOK
  <1>9. QED
    BY <1>4, <1>7, <1>8, OrderStays DEF IInv

LEMMA ApplyOkKeeps ==
    ASSUME IInv, ApplyOk
    PROVE  IInv'
  <1>1. /\ Current \in Node \ Passed
        /\ pos \in Nat /\ pos + 1 \in 1 .. Len(order)
        /\ Passed \cup {Current} = {order[k] : k \in 1 .. pos + 1}
        /\ Passed \subseteq Node
    BY AtCurrent DEF ApplyOk
  <1>2. /\ applied' = Append(applied, Current) /\ pos' = pos + 1
        /\ plan' = plan /\ order' = order /\ tainted' = tainted
        /\ skipped' = skipped /\ failed' = failed
    BY DEF ApplyOk
  <1>3. Passed' = Passed \cup {Current}
    BY <1>1, <1>2 DEF Passed
  <1>4. /\ plan \in [deps : Edges, denied : {{}}] /\ order \in Seq(Node)
        /\ applied \in Seq(Node) /\ tainted \subseteq Node
        /\ DOMAIN skipped \subseteq Node /\ Range(skipped) \subseteq Node
        /\ failed \subseteq Node /\ Cardinality(failed) <= 1
    BY DEF IInv, TypeOK
  <1>5. Range(applied') = Range(applied) \cup {Current} /\ applied' \in Seq(Node)
    BY <1>1, <1>2, <1>4, AppendRange
  <1>6. BooksOK'
    BY <1>1, <1>2, <1>3, <1>5 DEF IInv, BooksOK
  <1>7. TypeOK'
    <2>1. pos + 1 \in 0 .. Len(order)
      BY <1>1
    <2>2. QED
      BY <1>2, <1>4, <1>5, <2>1 DEF TypeOK
  <1>8. QED
    BY <1>2, <1>6, <1>7, OrderStays DEF IInv

LEMMA ApplyErrKeeps ==
    ASSUME IInv, ApplyErr
    PROVE  IInv'
  <1>1. /\ Current \in Node \ Passed
        /\ pos \in Nat /\ pos + 1 \in 1 .. Len(order)
        /\ Passed \cup {Current} = {order[k] : k \in 1 .. pos + 1}
        /\ Passed \subseteq Node
    BY AtCurrent DEF ApplyErr
  <1>2. /\ tainted' = tainted \cup {Current} /\ pos' = pos + 1
        /\ failed' = (IF failed = {} THEN {Current} ELSE failed)
        /\ plan' = plan /\ order' = order /\ applied' = applied /\ skipped' = skipped
    BY DEF ApplyErr
  <1>3. Passed' = Passed \cup {Current}
    BY <1>1, <1>2 DEF Passed
  <1>4. /\ plan \in [deps : Edges, denied : {{}}] /\ order \in Seq(Node)
        /\ applied \in Seq(Node) /\ tainted \subseteq Node
        /\ DOMAIN skipped \subseteq Node /\ Range(skipped) \subseteq Node
        /\ failed \subseteq Node /\ Cardinality(failed) <= 1
    BY DEF IInv, TypeOK
  <1>5. Cardinality(failed') <= 1 /\ failed' \subseteq Node
    <2>1. Cardinality({Current}) = 1
      BY FS_Singleton
    <2>2. QED
      BY <1>1, <1>2, <1>4, <2>1
  <1>6. BooksOK'
    BY <1>1, <1>2, <1>3 DEF IInv, BooksOK
  <1>7. TypeOK'
    <2>1. pos + 1 \in 0 .. Len(order)
      BY <1>1
    <2>2. QED
      BY <1>1, <1>2, <1>4, <1>5, <2>1 DEF TypeOK
  <1>8. QED
    BY <1>2, <1>6, <1>7, OrderStays DEF IInv

LEMMA NextKeeps == IInv /\ [Next]_vars => IInv'
  <1> SUFFICES ASSUME IInv, [Next]_vars PROVE IInv'
    OBVIOUS
  <1>1. CASE SkipNode
    BY <1>1, SkipNodeKeeps
  <1>2. CASE ApplyOk
    BY <1>2, ApplyOkKeeps
  <1>3. CASE ApplyErr
    BY <1>3, ApplyErrKeeps
  <1>4. CASE UNCHANGED vars
    <2>1. OrderOK' /\ TopoOrderIsRight'
      BY <1>4, OrderStays DEF vars
    <2>2. TypeOK' /\ BooksOK'
      BY <1>4 DEF vars, IInv, TypeOK, BooksOK, Passed
    <2>3. QED
      BY <2>1, <2>2 DEF IInv
  <1>5. QED
    BY <1>1, <1>2, <1>3, <1>4 DEF Next, Returned

LEMMA Invariance == Spec => []IInv
  BY InitInv, NextKeeps, PTL DEF Spec

\* Types of the sequential commit: every index, entry and skip is of a node,
\* and the report keeps at most one failure.
THEOREM TypeCorrect == Spec => []TypeOK
  <1>1. IInv => TypeOK
    BY DEF IInv
  <1>2. QED
    BY Invariance, <1>1, PTL

\* topo_order, which every walk of a plan starts from, orders the acyclic plans
\* and no others, along their edges, with ties broken by NodeId.
THEOREM OrderIsRight == Spec => []TopoOrderIsRight
  <1>1. IInv => TopoOrderIsRight
    BY DEF IInv
  <1>2. QED
    BY Invariance, <1>1, PTL

-----------------------------------------------------------------------------
(* Each turn of the loop decides the node it is at.                        *)

\* What the report says of a node: nothing of one not passed yet.
LEMMA StatusFits ==
    ASSUME IInv, NEW n \in Node
    PROVE  /\ Status(n) = "pending" <=> n \notin Passed
           /\ Status(n) \in {"failed", "skipped"} <=> n \in tainted
  BY DEF IInv, BooksOK, Status

LEMMA CurrentIsDecidable ==
    ASSUME IInv, pos < Len(order)
    PROVE  /\ Current \in Walk!Decidable
           /\ Walk!Blocked(Current) <=> FailedParents(Current) # {}
  <1> DEFINE st == [n \in Node |-> Status(n)]
  <1>1. Current \in Node \ Passed /\ Parents(plan.deps, Current) \subseteq Passed
    BY AtCurrent
  <1>2. \A n : Walk!Parents(plan.deps, n) = Parents(plan.deps, n)
    BY DEF Walk!Parents, Parents
  <1>3. Parents(plan.deps, Current) \subseteq Node
    BY PlanType
  <1>4. \A n \in Node : /\ st[n] = "pending" <=> n \notin Passed
                        /\ st[n] \in {"failed", "skipped"} <=> n \in tainted
    BY StatusFits
  <1> HIDE DEF st
  <1>5. Walk!Pending = {n \in Node : st[n] = "pending"}
    BY DEF Walk!Pending, st
  <1>6. Current \in Walk!Decidable
    BY <1>1, <1>2, <1>3, <1>4, <1>5 DEF Walk!Decidable
  <1>7. Walk!Blocked(Current) <=>
            \E p \in Parents(plan.deps, Current) : st[p] \in {"failed", "skipped"}
    BY <1>2 DEF Walk!Blocked, st
  <1>8. QED
    BY <1>3, <1>4, <1>6, <1>7 DEF FailedParents

\* A turn that decides the current node c, and leaves the others alone.
LEMMA TurnWalks ==
    ASSUME IInv, pos < Len(order), UNCHANGED plan, NEW c \in Node, c = Current,
           \A n \in Node \ {c} : Status(n)' = Status(n),
           \/ FailedParents(c) # {} /\ Status(c)' = "skipped"
           \/ FailedParents(c) = {} /\ Status(c)' \in {"applied", "failed"}
    PROVE  Walk!Next
  <1> DEFINE ok == IF Status(c)' = "applied" THEN {c} ELSE {}
  <1>1. c \in Walk!Decidable /\ (Walk!Blocked(c) <=> FailedParents(c) # {})
    BY CurrentIsDecidable
  <1>2. ok \cap plan.denied = {}
    BY PlanType
  <1>3. \A n \in Node : Status(n)' = IF n \notin {c} THEN Status(n)
                                     ELSE IF Walk!Blocked(n) THEN "skipped"
                                     ELSE IF n \in ok THEN "applied" ELSE "failed"
    BY <1>1
  <1>4. Walk!Decide({c}, ok)
    <2> HIDE DEF ok
    <2> QED
      BY <1>1, <1>2, <1>3 DEF Walk!Decide
  <1>5. {c} \in (SUBSET Node) \ {{}} /\ ok \in SUBSET {c}
    OBVIOUS
  <1>6. QED
    BY <1>4, <1>5 DEF Walk!Next

\* Refinement: read off its report, the sequential walk is a walk that decides
\* one effect at a time, each after everything it depends on.
THEOREM ImplementsTheWalk == Spec => ImplementsWalk
  <1>1. Init => Walk!Init
    <2> SUFFICES ASSUME Init PROVE Walk!Init
      OBVIOUS
    <2>1. plan \in [deps : Edges, denied : {{}}]
      BY DepsAreEdges DEF Init
    <2>2. \A n \in Node : Status(n) = "pending"
      BY DEF Init, Status, Range
    <2>3. QED
      BY <2>1, <2>2 DEF Walk!Init
  <1>2. IInv /\ [Next]_vars => [Walk!Next]_(Walk!vars)
    <2> SUFFICES ASSUME IInv, [Next]_vars PROVE Walk!Next \/ UNCHANGED Walk!vars
      OBVIOUS
    <2>1. ASSUME SkipNode PROVE Walk!Next
      <3>1. PICK c \in Node \ Passed : c = Current
        BY <2>1, AtCurrent DEF SkipNode
      <3>2. c \notin Range(applied)
        BY <3>1 DEF IInv, BooksOK
      <3>3. /\ DOMAIN skipped' = DOMAIN skipped \cup {c} /\ FailedParents(c) # {}
            /\ tainted' = tainted \cup {c} /\ applied' = applied
            /\ pos < Len(order) /\ UNCHANGED plan
        BY <2>1, <3>1 DEF SkipNode
      <3>4. /\ \A n \in Node \ {c} : Status(n)' = Status(n)
            /\ Status(c)' = "skipped"
        BY <3>2, <3>3 DEF Status
      <3>5. QED
        BY <3>1, <3>3, <3>4, TurnWalks
    <2>2. ASSUME ApplyOk PROVE Walk!Next
      <3>1. PICK c \in Node \ Passed : c = Current
        BY <2>2, AtCurrent DEF ApplyOk
      <3>2. Range(applied') = Range(applied) \cup {c}
        BY <2>2, <3>1, AppendRange DEF ApplyOk, IInv, TypeOK
      <3>3. /\ FailedParents(c) = {} /\ UNCHANGED <<plan, skipped, tainted>>
            /\ pos < Len(order)
        BY <2>2, <3>1 DEF ApplyOk
      <3>4. /\ \A n \in Node \ {c} : Status(n)' = Status(n)
            /\ Status(c)' = "applied"
        BY <3>2, <3>3 DEF Status
      <3>5. QED
        BY <3>1, <3>3, <3>4, TurnWalks
    <2>3. ASSUME ApplyErr PROVE Walk!Next
      <3>1. PICK c \in Node \ Passed : c = Current
        BY <2>3, AtCurrent DEF ApplyErr
      <3>2. c \notin Range(applied) /\ c \notin DOMAIN skipped
        BY <3>1 DEF IInv, BooksOK
      <3>3. /\ FailedParents(c) = {} /\ UNCHANGED <<plan, skipped, applied>>
            /\ tainted' = tainted \cup {c} /\ pos < Len(order)
        BY <2>3, <3>1 DEF ApplyErr
      <3>4. /\ \A n \in Node \ {c} : Status(n)' = Status(n)
            /\ Status(c)' = "failed"
        BY <3>2, <3>3 DEF Status
      <3>5. QED
        BY <3>1, <3>3, <3>4, TurnWalks
    <2>4. CASE UNCHANGED vars
      BY <2>4 DEF vars, Walk!vars, Status
    <2>5. QED
      BY <2>1, <2>2, <2>3, <2>4 DEF Next, Returned
  <1>3. QED
    BY Invariance, <1>1, <1>2, PTL DEF Spec, ImplementsWalk, Walk!SafeSpec

-----------------------------------------------------------------------------
(* What follows from EffectWalk alone.  PlanCommit and Interpreter         *)
(* implement it, so these hold of what their reports and ledgers say,      *)
(* however they order the work.                                            *)

WInv == Any!TypeOK /\ Any!AppliedAfterParents /\ Any!SkippedForACause /\ Any!DeniedNeverApplied

LEMMA InitWInv == Any!Init => WInv
  BY DEF Any!Init, WInv, Any!TypeOK, Any!Status, Any!AppliedAfterParents, Any!SkippedForACause,
         Any!DeniedNeverApplied

\* Once decided, an effect keeps its verdict: apply.rs pushes one entry per
\* node and the interpreter's ledger takes one per settled id.
LEMMA DecidedStays ==
    ASSUME WInv, NEW S \in SUBSET Node, NEW ok \in SUBSET S, Any!Decide(S, ok)
    PROVE  /\ plan' = plan
           /\ \A n \in Node : verdict[n] # "pending" => verdict'[n] = verdict[n]
  BY DEF Any!Decide, Any!Decidable, Any!Pending

LEMMA DecideKeeps ==
    ASSUME WInv, NEW S \in SUBSET Node, NEW ok \in SUBSET S, Any!Decide(S, ok)
    PROVE  WInv'
  <1>1. /\ plan' = plan
        /\ \A n \in Node : verdict[n] # "pending" => verdict'[n] = verdict[n]
    BY DecidedStays
  <1>2. \A n \in Node : verdict[n] \in Any!Status
    BY DEF WInv, Any!TypeOK
  <1>3. Any!TypeOK'
    BY <1>1, <1>2 DEF WInv, Any!TypeOK, Any!Decide, Any!Status
  <1>4. \A n \in S : \A p \in Any!Parents(plan.deps, n) : p \in Node /\ verdict[p] # "pending"
    BY DEF Any!Decide, Any!Decidable, Any!Pending, Any!Parents
  <1>5. ASSUME NEW n \in S, ~ Any!Blocked(n), NEW p \in Any!Parents(plan.deps, n)
        PROVE  verdict'[p] = "applied"
    <2>1. verdict[p] \in Any!Status /\ verdict[p] \notin {"pending", "failed", "skipped"}
      BY <1>2, <1>4, <1>5 DEF Any!Blocked
    <2>2. QED
      BY <1>1, <1>4, <2>1 DEF Any!Status
  <1>6. Any!AppliedAfterParents'
    <2> SUFFICES ASSUME NEW n \in Node, verdict'[n] \in {"applied", "failed"},
                        NEW p \in Any!Parents(plan.deps, n)
                 PROVE  verdict'[p] = "applied"
      BY <1>1 DEF Any!AppliedAfterParents
    <2>1. CASE n \in S
      BY <1>5, <2>1 DEF Any!Decide
    <2>2. CASE n \notin S
      <3>1. verdict[n] \in {"applied", "failed"}
        BY <2>2 DEF Any!Decide
      <3>2. p \in Node /\ verdict[p] = "applied"
        BY <3>1 DEF WInv, Any!AppliedAfterParents, Any!Parents
      <3>3. QED
        BY <1>1, <3>2
    <2>3. QED
      BY <2>1, <2>2
  <1>7. Any!SkippedForACause'
    <2> SUFFICES ASSUME NEW n \in Node, verdict'[n] = "skipped" PROVE Any!Blocked(n)'
      BY DEF Any!SkippedForACause
    <2>1. Any!Blocked(n)
      BY DEF Any!Decide, WInv, Any!SkippedForACause
    <2>2. QED
      BY <1>1, <2>1 DEF Any!Blocked, Any!Parents
  <1>8. Any!DeniedNeverApplied'
    BY <1>1 DEF Any!Decide, WInv, Any!DeniedNeverApplied
  <1>9. QED
    BY <1>3, <1>6, <1>7, <1>8 DEF WInv

LEMMA StepKeeps == WInv /\ [Any!Next]_Any!vars => WInv'
  <1>1. ASSUME WInv, Any!Next PROVE WInv'
    BY <1>1, DecideKeeps DEF Any!Next
  <1>2. ASSUME WInv, UNCHANGED Any!vars PROVE WInv'
    BY <1>2 DEF Any!vars, WInv, Any!TypeOK, Any!AppliedAfterParents, Any!SkippedForACause,
                Any!DeniedNeverApplied, Any!Blocked
  <1>3. QED
    BY <1>1, <1>2

\* Of any commit that implements the walk: an effect was attempted only when
\* everything it depends on had applied, it was skipped only for a failure or
\* a skip upstream, and a denied effect never applied.
THEOREM WalkIsSafe ==
    Any!SafeSpec => [](Any!AppliedAfterParents /\ Any!SkippedForACause /\ Any!DeniedNeverApplied)
  <1>1. WInv => Any!AppliedAfterParents /\ Any!SkippedForACause /\ Any!DeniedNeverApplied
    BY DEF WInv
  <1>2. QED
    BY InitWInv, StepKeeps, <1>1, PTL DEF Any!SafeSpec

\* Of any commit that implements the walk: what became of an effect is final,
\* no later round rewrites its entry.
THEOREM VerdictsAreFinal ==
    Any!SafeSpec => [][\A n \in Node : verdict[n] # "pending" => verdict'[n] = verdict[n]]_Any!vars
  <1>1. ASSUME WInv, [Any!Next]_Any!vars
        PROVE  [\A n \in Node : verdict[n] # "pending" => verdict'[n] = verdict[n]]_Any!vars
    BY <1>1, DecidedStays DEF Any!Next
  <1>2. QED
    BY InitWInv, StepKeeps, <1>1, PTL DEF Any!SafeSpec
=============================================================================

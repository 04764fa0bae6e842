------------------------- MODULE AuditChain_proofs -------------------------
(***************************************************************************)
(* Proofs about AuditChain, for any number of connections and sealers, any *)
(* effects and rows, and any cap of the live tail.                         *)
(*                                                                         *)
(* The argument.  The history is what the head's hash commits to, and the  *)
(* head and the tail are functions of it: an append turns the head and the *)
(* tail of a history into those of the longer history, provided it worked  *)
(* on the newest head.  That is what the database's locking gives: whoever *)
(* may still write has seen the newest head, and there is one such writer. *)
(* A seal is a row of the history, and a row stays what it was when the    *)
(* history grows.  What replaying the log gives and what the tables show   *)
(* stay the same under a write, whatever it redacts and whatever aliases   *)
(* it deletes, but for the rows it deletes unnamed.                        *)
(***************************************************************************)
EXTENDS AuditChain, SequenceTheorems, TLAPS

-----------------------------------------------------------------------------
(* The head and the tail as functions of the history. *)

\* The row of the n-th event of a history.
Row(h, n) == [seq |-> n, content |-> h[n], prev |-> SubSeq(h, 1, n - 1),
              hash |-> SubSeq(h, 1, n)]

IsHeadOf(row, h) ==
  IF h = << >> THEN row = NoHead ELSE row = HeadOf(Row(h, Len(h)))

Live(h) == {n \in 1..Len(h) : n + TailCap > Len(h)}
IsTailOf(t, h) == t = [n \in Live(h) |-> Row(h, n)]

\* The fields of a row.
LEMMA RowFields ==
  ASSUME NEW h, NEW n
  PROVE  /\ Row(h, n).seq = n /\ Row(h, n).content = h[n]
         /\ Row(h, n).prev = SubSeq(h, 1, n - 1) /\ Row(h, n).hash = SubSeq(h, 1, n)
BY DEF Row

\* The chain tells the history h.
Tells(chain, h) ==
  h \in Seq(Contents) /\ IsHeadOf(chain.head, h) /\ IsTailOf(chain.tail, h)

\* A seal is the head some prefix of the history had.
SealOf(seal, h) == seal.seq \in 1..Len(h) /\ seal = HeadOf(Row(h, seal.seq))

\* What an append leaves of a sequence: its length, its elements and its
\* prefixes.
LEMMA AppendFacts ==
  ASSUME NEW S, NEW h \in Seq(S), NEW c \in S
  PROVE  /\ Append(h, c) \in Seq(S) /\ Append(h, c) # << >>
         /\ Len(h) \in Nat /\ Len(Append(h, c)) = Len(h) + 1
         /\ \A i \in 1..Len(h) : Append(h, c)[i] = h[i]
         /\ Append(h, c)[Len(h) + 1] = c
         /\ \A n \in 0..Len(h) : SubSeq(Append(h, c), 1, n) = SubSeq(h, 1, n)
         /\ SubSeq(Append(h, c), 1, Len(h)) = h
         /\ SubSeq(Append(h, c), 1, Len(h) + 1) = Append(h, c)
<1>1. /\ Append(h, c) \in Seq(S) /\ Append(h, c) # << >>
      /\ Len(h) \in Nat /\ Len(Append(h, c)) = Len(h) + 1
      /\ \A i \in 1..Len(h) : Append(h, c)[i] = h[i]
      /\ Append(h, c)[Len(h) + 1] = c
  BY AppendProperties, LenProperties
<1>2. ASSUME NEW n \in 0..Len(h)
      PROVE  SubSeq(Append(h, c), 1, n) = SubSeq(h, 1, n)
  <2>1. CASE n = 0
    BY <2>1, SubSeqEmpty
  <2>2. CASE n # 0
    <3>1. n \in 1..Len(h) /\ 1 \in 1..Len(h) /\ << c >> \in Seq(S)
      BY <1>1, <2>2
    <3>2. SubSeq(h \o << c >>, 1, n) = SubSeq(h, 1, n)
      BY <3>1, SubSeqOfConcat1
    <3> QED  BY <3>2, AppendIsConcat
  <2> QED  BY <2>1, <2>2
<1>3. SubSeq(h, 1, Len(h)) = h /\ SubSeq(Append(h, c), 1, Len(Append(h, c))) = Append(h, c)
  BY <1>1, SubSeqFull
<1>4. Len(h) \in 0..Len(h)
  BY <1>1
<1> QED  BY <1>1, <1>2, <1>3, <1>4

\* The elements of one sequence after another.
LEMMA ConcatElements ==
  ASSUME NEW S, NEW a \in Seq(S), NEW b \in Seq(S)
  PROVE  /\ DOMAIN (a \o b) = 1..(Len(a) + Len(b))
         /\ \A i \in DOMAIN (a \o b) : (a \o b)[i] = IF i <= Len(a) THEN a[i]
                                                     ELSE b[i - Len(a)]
<1>1. /\ a \o b \in Seq(S) /\ Len(a \o b) = Len(a) + Len(b)
      /\ \A i \in 1..Len(a) + Len(b) : (a \o b)[i] = IF i <= Len(a) THEN a[i]
                                                     ELSE b[i - Len(a)]
  BY ConcatProperties
<1>2. DOMAIN (a \o b) = 1..Len(a \o b)
  BY <1>1, LenProperties
<1> QED  BY <1>1, <1>2

\* A sequence of one element and one of two, by their elements.
LEMMA ShortSeqs ==
  ASSUME NEW S, NEW w \in Seq(S)
  PROVE  /\ Len(w) = 1 => w = << w[1] >>
         /\ Len(w) = 2 => w = << w[1] >> \o << w[2] >>
<1>1. ASSUME Len(w) = 1  PROVE w = << w[1] >>
  <2>1. w[1] \in S
    BY <1>1, LenProperties
  <2>2. << w[1] >> \in Seq(S) /\ Len(<< w[1] >>) = 1 /\ << w[1] >>[1] = w[1]
    BY <2>1
  <2> DEFINE v == << w[1] >>
  <2>3. v \in Seq(S) /\ Len(v) = Len(w) /\ v[1] = w[1]
    BY <1>1, <2>2
  <2> HIDE DEF v
  <2>4. \A i \in 1..Len(w) : w[i] = v[i]
    BY <1>1, <2>3
  <2>5. w = v
    BY <2>3, <2>4, SeqEqual
  <2> QED  BY <2>5 DEF v
<1>2. ASSUME Len(w) = 2  PROVE w = << w[1] >> \o << w[2] >>
  <2>1. w[1] \in S /\ w[2] \in S
    BY <1>2, LenProperties
  <2>2. << w[1] >> \in Seq(S) /\ << w[2] >> \in Seq(S)
    BY <2>1
  <2> DEFINE v == << w[1] >> \o << w[2] >>
  <2>3. v \in Seq(S) /\ Len(v) = Len(w) /\ v[1] = w[1] /\ v[2] = w[2]
    BY <1>2, <2>2, ConcatProperties
  <2> HIDE DEF v
  <2>4. \A i \in 1..Len(w) : w[i] = v[i]
    BY <1>2, <2>3
  <2>5. w = v
    BY <2>3, <2>4, SeqEqual
  <2> QED  BY <2>5 DEF v
<1> QED  BY <1>1, <1>2

\* The prefix of length n is the one before it and the n-th element.
LEMMA PrefixStep ==
  ASSUME NEW S, NEW h \in Seq(S), NEW n \in 1..Len(h)
  PROVE  SubSeq(h, 1, n) = Append(SubSeq(h, 1, n - 1), h[n])
<1>1. Len(h) \in Nat /\ 1 \in 1..Len(h) /\ h[n] \in S
  BY LenProperties, ElementOfSeq
<1>2. SubSeq(h, 1, n) = SubSeq(h, 1, n - 1) \o << h[n] >>
  BY <1>1, SubSeqRecursiveSecond
<1>3. \A i \in 1..(n - 1) : h[i] \in S
  BY <1>1, ElementOfSeq
<1>4. SubSeq(h, 1, n - 1) \in Seq(S)
  BY <1>3, SubSeqProperties
<1> QED  BY <1>1, <1>2, <1>4, AppendIsConcat

\* The head of a history commits to exactly that history.
LEMMA HeadCommits ==
  ASSUME NEW h \in Seq(Contents), NEW row, IsHeadOf(row, h)
  PROVE  HeadHash(row) = h /\ row.seq = Len(h) /\ (row = NoHead <=> h = << >>)
<1>1. CASE h = << >>
  BY <1>1 DEF IsHeadOf, HeadHash, NoHead, Genesis
<1>2. CASE h # << >>
  <2>1. Len(h) \in Nat \ {0} /\ Len(h) \in 1..Len(h)
    BY <1>2, EmptySeq
  <2>2. row = [seq |-> Len(h), content |-> h[Len(h)], prev |-> SubSeq(h, 1, Len(h) - 1)]
    BY <1>2 DEF IsHeadOf, HeadOf, Row
  <2>3. row # NoHead
    BY <2>1, <2>2 DEF NoHead
  <2>4. SubSeq(h, 1, Len(h)) = Append(SubSeq(h, 1, Len(h) - 1), h[Len(h)])
    BY <2>1, PrefixStep
  <2>5. SubSeq(h, 1, Len(h)) = h
    BY SubSeqFull
  <2>6. HeadHash(row) = Append(row.prev, row.content)
    BY <2>3 DEF HeadHash, Link
  <2> QED  BY <1>2, <2>2, <2>3, <2>4, <2>5, <2>6
<1> QED  BY <1>1, <1>2

\* An append to the chain of a history gives the chain of the longer history.
LEMMA AppendTells ==
  ASSUME NEW chain, NEW h, NEW c \in Contents, Tells(chain, h)
  PROVE  Tells(AppendTo(chain, c), Append(h, c))
<1> DEFINE g   == Append(h, c)
           row == Chained(c, chain.head)
<1>1. h \in Seq(Contents) /\ IsHeadOf(chain.head, h) /\ IsTailOf(chain.tail, h)
  BY DEF Tells
<1>2. HeadHash(chain.head) = h /\ chain.head.seq = Len(h)
  BY <1>1, HeadCommits
<1>3. /\ g \in Seq(Contents) /\ g # << >>
      /\ Len(h) \in Nat /\ Len(g) = Len(h) + 1
      /\ \A i \in 1..Len(h) : g[i] = h[i]
      /\ g[Len(h) + 1] = c
      /\ \A n \in 0..Len(h) : SubSeq(g, 1, n) = SubSeq(h, 1, n)
      /\ SubSeq(g, 1, Len(h)) = h
      /\ SubSeq(g, 1, Len(h) + 1) = g
  BY <1>1, AppendFacts
<1>4. row = [seq |-> Len(h) + 1, content |-> c, prev |-> h, hash |-> g]
  BY <1>2 DEF Chained, Link
<1> HIDE DEF g, row
<1>5. row = Row(g, Len(g))
  <2>1. (Len(h) + 1) - 1 = Len(h)
    BY <1>3
  <2> QED  BY <2>1, <1>3, <1>4 DEF Row
<1>6. \A n \in 1..Len(h) : Row(g, n) = Row(h, n)
  <2> SUFFICES ASSUME NEW n \in 1..Len(h)  PROVE Row(g, n) = Row(h, n)
    OBVIOUS
  <2>1. n \in 0..Len(h) /\ n - 1 \in 0..Len(h)
    BY <1>3
  <2> QED  BY <2>1, <1>3 DEF Row
<1>7. IsHeadOf(HeadOf(row), g)
  BY <1>3, <1>5 DEF IsHeadOf
<1>8. IsTailOf(Trim(Insert(chain.tail, row), row.seq), g)
  <2>1. row.seq = Len(h) + 1
    BY <1>4
  <2>2. DOMAIN chain.tail = Live(h) /\ \A n \in Live(h) : chain.tail[n] = Row(h, n)
    BY <1>1 DEF IsTailOf
  <2>3. DOMAIN Insert(chain.tail, row) = Live(h) \cup {Len(h) + 1}
    BY <2>1, <2>2 DEF Insert
  <2>4. \A n \in Live(h) \cup {Len(h) + 1} : Insert(chain.tail, row)[n] = Row(g, n)
    <3> SUFFICES ASSUME NEW n \in Live(h) \cup {Len(h) + 1}
                 PROVE  Insert(chain.tail, row)[n] = Row(g, n)
      OBVIOUS
    <3>1. CASE n = Len(h) + 1
      BY <3>1, <2>1, <2>2, <1>3, <1>5 DEF Insert
    <3>2. CASE n # Len(h) + 1
      <4>1. n \in Live(h) /\ n \in 1..Len(h)
        BY <3>2 DEF Live
      <4>2. Insert(chain.tail, row)[n] = chain.tail[n]
        BY <3>2, <4>1, <2>1, <2>2 DEF Insert
      <4> QED  BY <4>1, <4>2, <2>2, <1>6
    <3> QED  BY <3>1, <3>2
  <2>5. {m \in Live(h) \cup {Len(h) + 1} : m + TailCap > Len(h) + 1} = Live(g)
    BY <1>3, AuditConstants DEF Live
  <2>6. Trim(Insert(chain.tail, row), row.seq)
          = [n \in Live(g) |-> Insert(chain.tail, row)[n]]
    BY <2>1, <2>3, <2>5 DEF Trim
  <2>7. \A n \in Live(g) : Insert(chain.tail, row)[n] = Row(g, n)
    BY <2>4, <2>5
  <2> QED  BY <2>6, <2>7 DEF IsTailOf
<1>9. AppendTo(chain, c) = [head |-> HeadOf(row), tail |-> Trim(Insert(chain.tail, row), row.seq)]
  BY DEF AppendTo, row
<1> QED  BY <1>3, <1>7, <1>8, <1>9 DEF Tells, g

\* A seal of a history is a seal of every longer one.
LEMMA SealStays ==
  ASSUME NEW h \in Seq(Contents), NEW c \in Contents, NEW seal, SealOf(seal, h)
  PROVE  SealOf(seal, Append(h, c))
<1> DEFINE g == Append(h, c)
<1>1. /\ Len(h) \in Nat /\ Len(g) = Len(h) + 1
      /\ \A i \in 1..Len(h) : g[i] = h[i]
      /\ \A n \in 0..Len(h) : SubSeq(g, 1, n) = SubSeq(h, 1, n)
  BY AppendFacts
<1> HIDE DEF g
<1>2. PICK n \in 1..Len(h) : n = seal.seq /\ seal = HeadOf(Row(h, n))
  BY DEF SealOf
<1>3. n \in 0..Len(h) /\ n - 1 \in 0..Len(h) /\ n \in 1..Len(g)
  BY <1>1
<1>4. Row(g, n) = Row(h, n)
  BY <1>1, <1>3 DEF Row
<1> QED  BY <1>2, <1>3, <1>4 DEF SealOf, g

-----------------------------------------------------------------------------
(* The replayable log: what one more entry, and one more effect on the     *)
(* audit stream, leave true of it.                                         *)

Verbs == {"INSERT", "UPSERT", "UPDATE", "REMOVE"}
Writing == Verbs \ {"REMOVE"}

\* What is known of a write, of its kinds.
LEMMA PutFacts ==
  ASSUME NEW verb \in Writing, NEW k \in Keys, NEW v \in RowsOf[k], NEW w,
         w.verb = verb, w.acts = {k}, w.told = {k}, w.val = v, w.text = LogText[k][v]
  PROVE  /\ w.verb \in Verbs /\ w.acts \subseteq Keys /\ w.told = w.acts
         /\ w.val \in Values /\ w.text \in Values
         /\ \A x \in w.acts : w.text = LogText[x][w.val]
<1>1. v \in Values
  BY SysConstants
<1>2. LogText[k][v] \in Values
  BY <1>1, SysConstants
<1> QED  BY <1>1, <1>2 DEF Writing

LEMMA RemoveFacts ==
  ASSUME NEW w \in Removes
  PROVE  /\ w.verb = "REMOVE" /\ w.by = Absent
         /\ w.acts \subseteq Keys /\ w.told \subseteq w.acts
         /\ w.acts \ w.told \subseteq Declared
<1>1. ASSUME NEW acts, NEW told, w = Remove(acts, told)
      PROVE  w.verb = "REMOVE" /\ w.by = Absent /\ w.acts = acts /\ w.told = told
  BY <1>1 DEF Remove
<1>2. CASE \E k \in Policies \cup (Settings \ Secret) \cup Paths : w = Remove({k}, {k})
  BY <1>1, <1>2 DEF Keys
<1>3. CASE \E k \in Declared : w = Remove(Of(KindOf[k], NameOf[k]), Of(KindOf[k], NameOf[k]))
  BY <1>1, <1>3 DEF Keys, Of
<1>4. CASE \E k \in Declared : w = RemoveDriver(NameOf[k])
  BY <1>1, <1>4 DEF Keys, Of, RemoveDriver
<1> QED  BY <1>2, <1>3, <1>4 DEF Removes

\* What is known of any write.
LEMMA WriteFields ==
  ASSUME NEW w \in Writes
  PROVE  /\ w.verb \in Verbs /\ w.by \in Deliveries \cup {Absent}
         /\ w.acts \subseteq Keys /\ w.told \subseteq w.acts
         /\ w.acts \ w.told \subseteq Declared
         /\ w.verb # "REMOVE" => /\ w.told = w.acts /\ w.val \in Values /\ w.text \in Values
                                 /\ \A x \in w.acts : w.text = LogText[x][w.val]
<1>1. CASE w \in Removes
  BY <1>1, RemoveFacts DEF Verbs
<1>2. ASSUME NEW k \in Declared, w = Remove({k}, {k})
      PROVE  /\ w.verb = "REMOVE" /\ w.by = Absent /\ w.acts = {k} /\ w.told = {k} /\ k \in Keys
  BY <1>2 DEF Remove, Keys
<1>3. ASSUME NEW verb \in {"INSERT", "UPSERT", "UPDATE"}, NEW k \in Keys, NEW v \in RowsOf[k],
             w = Put(verb, k, v)
      PROVE  /\ w.verb \in Verbs /\ w.by = Absent /\ w.acts \subseteq Keys /\ w.told = w.acts
             /\ w.val \in Values /\ w.text \in Values
             /\ \A x \in w.acts : w.text = LogText[x][w.val]
  <2>1. /\ w.verb = verb /\ w.acts = {k} /\ w.told = {k} /\ w.val = v
        /\ w.text = LogText[k][v] /\ w.by = Absent /\ verb \in Writing
    BY <1>3 DEF Put, Writing, Verbs
  <2> QED  BY <2>1, PutFacts
<1>4. ASSUME NEW d \in Deliveries, w = Bill(d)
      PROVE  /\ w.verb \in Verbs /\ w.by = d /\ w.acts \subseteq Keys /\ w.told = w.acts
             /\ w.val \in Values /\ w.text \in Values
             /\ \A x \in w.acts : w.text = LogText[x][w.val]
  <2>1. TeamOf[d] \in Keys /\ StatusOf[d] \in RowsOf[TeamOf[d]]
    BY SysConstants DEF Keys
  <2>2. /\ w.verb = "UPSERT" /\ w.acts = {TeamOf[d]} /\ w.told = {TeamOf[d]}
        /\ w.val = StatusOf[d] /\ w.text = LogText[TeamOf[d]][StatusOf[d]] /\ w.by = d
        /\ "UPSERT" \in Writing
    BY <1>4 DEF Bill, Put, Writing, Verbs
  <2> QED  BY <2>1, <2>2, PutFacts
<1>5. \/ w \in Removes
      \/ \E k \in Declared : w = Remove({k}, {k})
      \/ \E verb \in {"INSERT", "UPSERT", "UPDATE"} : w \in Puts(verb, Keys)
      \/ \E d \in Deliveries : w = Bill(d)
  BY DEF Writes
<1>6. CASE \E k \in Declared : w = Remove({k}, {k})
  <2>1. PICK k \in Declared : w = Remove({k}, {k})
    BY <1>6
  <2>2. w.verb = "REMOVE" /\ w.by = Absent /\ w.acts = {k} /\ w.told = {k} /\ k \in Keys
    BY <1>2, <2>1
  <2> QED  BY <2>2 DEF Verbs
<1>7. CASE \E verb \in {"INSERT", "UPSERT", "UPDATE"} : w \in Puts(verb, Keys)
  <2>1. PICK verb \in {"INSERT", "UPSERT", "UPDATE"} : w \in Puts(verb, Keys)
    BY <1>7
  <2>2. PICK k \in Keys : w \in {Put(verb, k, v) : v \in RowsOf[k]}
    BY <2>1 DEF Puts
  <2>3. PICK v \in RowsOf[k] : w = Put(verb, k, v)
    BY <2>2
  <2>4. /\ w.verb \in Verbs /\ w.by = Absent /\ w.acts \subseteq Keys /\ w.told = w.acts
        /\ w.val \in Values /\ w.text \in Values
        /\ \A x \in w.acts : w.text = LogText[x][w.val]
    BY <1>3, <2>3
  <2> QED  BY <2>4
<1>8. CASE \E d \in Deliveries : w = Bill(d)
  BY <1>4, <1>8
<1> QED  BY <1>1, <1>5, <1>6, <1>7, <1>8

\* An entry, and what the stream shows of it: none of the effects' events.
LEMMA EntryFields ==
  ASSUME NEW e \in Entries
  PROVE  /\ e.verb \in Verbs /\ e.told \subseteq Keys
         /\ e.verb # "REMOVE" => e.text \in Values
         /\ e.by \in Deliveries \cup {Absent}
         /\ Shows(e) \in Contents /\ Shows(e) \notin Events
<1>1. PICK w \in Writes : e = Logged(w)
  BY DEF Entries
<1>2. e.verb = w.verb /\ e.told = w.told /\ e.text = w.text /\ e.by = w.by
  BY <1>1 DEF Logged
<1>3. /\ e.verb \in Verbs /\ e.told \subseteq Keys
      /\ e.verb # "REMOVE" => e.text \in Values
      /\ e.by \in Deliveries \cup {Absent}
  BY <1>2, WriteFields
<1>4. Shows(e) \in [what : AuditVerbs, committed : {TRUE}]
  BY <1>3 DEF Shows, AuditVerbs, Verbs
<1>5. Shows(e).what \in AuditVerbs
  BY <1>4
<1>6. Shows(e) \notin Events
  BY <1>5, AuditConstants DEF Events
<1> QED  BY <1>3, <1>4, <1>6 DEF Contents

LEMMA LoggedIs ==
  ASSUME NEW w \in Writes
  PROVE  /\ Logged(w) \in Entries /\ Shows(Logged(w)) = Shows(w)
         /\ Logged(w).verb = w.verb /\ Logged(w).told = w.told
         /\ Logged(w).text = w.text /\ Logged(w).by = w.by
<1>1. /\ Logged(w).verb = w.verb /\ Logged(w).told = w.told
      /\ Logged(w).text = w.text /\ Logged(w).by = w.by
  BY DEF Logged
<1>2. Logged(w) \in Entries
  BY DEF Entries
<1> QED  BY <1>1, <1>2 DEF Shows

\* An effect appended to the stream is not a write of the log.
LEMMA EffectLeavesTheLog ==
  ASSUME NEW h \in Seq(Contents), NEW c \in Events,
         NEW log \in Seq(Entries), ShowsInOrder(h, log)
  PROVE  ShowsInOrder(Append(h, c), log)
<1> DEFINE g == Append(h, c)
<1>1. /\ Len(h) \in Nat /\ Len(g) = Len(h) + 1 /\ g \in Seq(Contents)
      /\ \A i \in 1..Len(h) : g[i] = h[i]
      /\ g[Len(h) + 1] = c
  <2>1. c \in Contents
    BY DEF Contents
  <2> QED  BY <2>1, AppendFacts
<1>2. DOMAIN h = 1..Len(h) /\ DOMAIN g = 1..(Len(h) + 1)
  BY <1>1, LenProperties
<1> HIDE DEF g
<1>3. PICK at \in [DOMAIN log -> DOMAIN h] :
        /\ \A m, n \in DOMAIN log : m < n => at[m] < at[n]
        /\ \A n \in DOMAIN log : h[at[n]] = Shows(log[n])
        /\ \A i \in DOMAIN h : h[i] \in Events <=> \A n \in DOMAIN log : at[n] # i
  BY DEF ShowsInOrder
<1>4. at \in [DOMAIN log -> DOMAIN g]
  BY <1>1, <1>2
<1>5. \A n \in DOMAIN log : g[at[n]] = Shows(log[n])
  BY <1>1, <1>2, <1>3
<1>6. ASSUME NEW i \in DOMAIN g
      PROVE  g[i] \in Events <=> \A n \in DOMAIN log : at[n] # i
  <2>1. CASE i \in 1..Len(h)
    BY <2>1, <1>1, <1>2, <1>3
  <2>2. CASE i = Len(h) + 1
    BY <2>2, <1>1, <1>2
  <2> QED  BY <2>1, <2>2, <1>1, <1>2
<1> QED  BY <1>3, <1>4, <1>5, <1>6 DEF ShowsInOrder, g

\* A write appended to both is shown at the end of both.
LEMMA WriteIsShown ==
  ASSUME NEW h \in Seq(Contents), NEW log \in Seq(Entries), NEW e \in Entries,
         ShowsInOrder(h, log)
  PROVE  ShowsInOrder(Append(h, Shows(e)), Append(log, e))
<1> DEFINE g  == Append(h, Shows(e))
           lg == Append(log, e)
<1>1. Shows(e) \in Contents /\ Shows(e) \notin Events
  BY EntryFields
<1>2. /\ Len(h) \in Nat /\ Len(g) = Len(h) + 1 /\ g \in Seq(Contents)
      /\ \A i \in 1..Len(h) : g[i] = h[i]
      /\ g[Len(h) + 1] = Shows(e)
  BY <1>1, AppendFacts
<1>3. /\ Len(log) \in Nat /\ Len(lg) = Len(log) + 1 /\ lg \in Seq(Entries)
      /\ \A i \in 1..Len(log) : lg[i] = log[i]
      /\ lg[Len(log) + 1] = e
  BY AppendFacts
<1>4. DOMAIN h = 1..Len(h) /\ DOMAIN g = 1..(Len(h) + 1)
      /\ DOMAIN log = 1..Len(log) /\ DOMAIN lg = 1..(Len(log) + 1)
  BY <1>2, <1>3, LenProperties
<1> HIDE DEF g, lg
<1>5. PICK at \in [DOMAIN log -> DOMAIN h] :
        /\ \A m, n \in DOMAIN log : m < n => at[m] < at[n]
        /\ \A n \in DOMAIN log : h[at[n]] = Shows(log[n])
        /\ \A i \in DOMAIN h : h[i] \in Events <=> \A n \in DOMAIN log : at[n] # i
  BY DEF ShowsInOrder
<1> DEFINE now == [n \in DOMAIN lg |-> IF n = Len(log) + 1 THEN Len(h) + 1 ELSE at[n]]
<1>6. /\ \A n \in 1..Len(log) : now[n] = at[n] /\ at[n] \in 1..Len(h)
      /\ now[Len(log) + 1] = Len(h) + 1
      /\ now \in [DOMAIN lg -> DOMAIN g]
  <2>1. \A n \in 1..Len(log) : n # Len(log) + 1 /\ n \in DOMAIN lg /\ at[n] \in 1..Len(h)
    BY <1>3, <1>4
  <2>2. Len(log) + 1 \in DOMAIN lg
    BY <1>3, <1>4
  <2>3. \A n \in 1..Len(log) : now[n] = at[n]
    BY <2>1
  <2>4. now[Len(log) + 1] = Len(h) + 1
    BY <2>2
  <2>5. ASSUME NEW n \in DOMAIN lg
        PROVE  (IF n = Len(log) + 1 THEN Len(h) + 1 ELSE at[n]) \in DOMAIN g
    BY <2>1, <1>2, <1>3, <1>4
  <2>6. now \in [DOMAIN lg -> DOMAIN g]
    BY <2>5
  <2> QED  BY <2>1, <2>3, <2>4, <2>6
<1> HIDE DEF now
<1>7. ASSUME NEW m \in DOMAIN lg, NEW n \in DOMAIN lg, m < n
      PROVE  now[m] < now[n]
  <2>1. m \in 1..Len(log)
    BY <1>3, <1>4, <1>7
  <2>2. CASE n = Len(log) + 1
    BY <2>1, <2>2, <1>2, <1>6
  <2>3. CASE n # Len(log) + 1
    <3>1. n \in 1..Len(log)
      BY <2>3, <1>3, <1>4
    <3>2. now[m] = at[m] /\ now[n] = at[n] /\ m \in DOMAIN log /\ n \in DOMAIN log
      BY <2>1, <3>1, <1>3, <1>6
    <3>3. at[m] < at[n]
      BY <3>2, <1>5, <1>7
    <3> QED  BY <3>2, <3>3
  <2> QED  BY <2>2, <2>3
<1>8. ASSUME NEW n \in DOMAIN lg
      PROVE  g[now[n]] = Shows(lg[n])
  <2>1. CASE n = Len(log) + 1
    BY <2>1, <1>2, <1>3, <1>6
  <2>2. CASE n # Len(log) + 1
    <3>1. n \in 1..Len(log)
      BY <2>2, <1>3, <1>4
    <3>2. now[n] = at[n] /\ at[n] \in 1..Len(h) /\ lg[n] = log[n]
      BY <3>1, <1>3, <1>6
    <3> QED  BY <3>1, <3>2, <1>2, <1>4, <1>5
  <2> QED  BY <2>1, <2>2
<1>9. ASSUME NEW i \in DOMAIN g
      PROVE  g[i] \in Events <=> \A n \in DOMAIN lg : now[n] # i
  <2>1. CASE i = Len(h) + 1
    <3>1. Len(log) + 1 \in DOMAIN lg
      BY <1>3, <1>4
    <3> QED  BY <2>1, <3>1, <1>1, <1>2, <1>6
  <2>2. CASE i # Len(h) + 1
    <3>1. i \in 1..Len(h) /\ g[i] = h[i]
      BY <2>2, <1>2, <1>4
    <3>2. (\A n \in DOMAIN lg : now[n] # i) <=> \A n \in DOMAIN log : at[n] # i
      <4>1. \A n \in DOMAIN log : n \in DOMAIN lg /\ now[n] = at[n]
        BY <1>3, <1>4, <1>6
      <4>2. \A n \in DOMAIN lg : n \in DOMAIN log \/ n = Len(log) + 1
        BY <1>3, <1>4
      <4>3. now[Len(log) + 1] # i
        BY <2>2, <1>6
      <4> QED  BY <4>1, <4>2, <4>3
    <3> QED  BY <3>1, <3>2, <1>4, <1>5
  <2> QED  BY <2>1, <2>2
<1> QED  BY <1>6, <1>7, <1>8, <1>9 DEF ShowsInOrder, g, lg

-----------------------------------------------------------------------------
(* Replaying the log: the tables it gives and the ones there are agree, as *)
(* the payloads show them, on every key but those in u.                    *)

Agree(r, t, u) == \A k \in Keys \ u : r[k] = Shown(t)[k]

\* The tables stay tables.
LEMMA AppliedType ==
  ASSUME NEW t \in Tables, NEW verb \in Verbs, NEW ks, NEW v,
         verb # "REMOVE" => v \in Values
  PROVE  Applied(t, verb, ks, v) \in Tables
<1> SUFFICES ASSUME NEW k \in Keys
             PROVE  Applied(t, verb, ks, v)[k] \in Seq(Values)
  BY DEF Applied, Tables
<1>1. t[k] \in Seq(Values)
  BY DEF Tables
<1>2. v \in Values => /\ Append(t[k], v) \in Seq(Values) /\ << v >> \in Seq(Values)
                      /\ [i \in DOMAIN t[k] |-> v] \in Seq(Values)
  <2> SUFFICES ASSUME v \in Values
               PROVE  /\ Append(t[k], v) \in Seq(Values) /\ << v >> \in Seq(Values)
                      /\ [i \in DOMAIN t[k] |-> v] \in Seq(Values)
    OBVIOUS
  <2>1. DOMAIN t[k] = 1..Len(t[k]) /\ Len(t[k]) \in Nat
    BY <1>1, LenProperties
  <2>2. [i \in DOMAIN t[k] |-> v] \in Seq(Values)
    BY <2>1
  <2> QED  BY <1>1, <2>2, AppendProperties
<1>3. << >> \in Seq(Values)
  OBVIOUS
<1> QED  BY <1>1, <1>2, <1>3 DEF Applied, Verbs

\* A binding is there on one side if it is on the other, with the same alias.
LEMMA SameAliases ==
  ASSUME NEW t \in Tables, NEW r \in Tables, NEW u, u \subseteq Declared, Agree(r, t, u),
         NEW S
  PROVE  AliasClosed(t, S) <=> AliasClosed(r, S)
<1> SUFFICES ASSUME NEW k \in Paths
             PROVE  /\ Present(t, k) <=> Present(r, k)
                    /\ Present(t, k) => AliasOf[t[k][1]] = AliasOf[r[k][1]]
  BY DEF AliasClosed
<1>1. k \in Keys \ u /\ t[k] \in Seq(Values)
  BY SysConstants DEF Keys, Tables
<1>2. r[k] = [i \in DOMAIN t[k] |-> LogText[k][t[k][i]]]
  BY <1>1 DEF Agree, Shown
<1>3. DOMAIN t[k] = 1..Len(t[k]) /\ Len(t[k]) \in Nat
  BY <1>1, LenProperties
<1>4. CASE t[k] = << >>
  BY <1>2, <1>4 DEF Present
<1>5. CASE t[k] # << >>
  <2>1. 1 \in DOMAIN t[k]
    BY <1>1, <1>3, <1>5, EmptySeq
  <2>2. t[k][1] \in Values
    BY <1>1, <2>1
  <2>3. r[k][1] = LogText[k][t[k][1]] /\ r[k] # << >>
    BY <1>2, <2>1
  <2>4. AliasOf[LogText[k][t[k][1]]] = AliasOf[t[k][1]]
    BY <2>2, SysConstants
  <2> QED  BY <1>5, <2>3, <2>4 DEF Present
<1> QED  BY <1>4, <1>5

\* One more row, on both sides.
LEMMA ShownAppend ==
  ASSUME NEW L, NEW s \in Seq(Values), NEW r \in Seq(Values), NEW v \in Values,
         L[v] \in Values, r = [i \in DOMAIN s |-> L[s[i]]]
  PROVE  Append(r, L[v]) = [i \in DOMAIN Append(s, v) |-> L[Append(s, v)[i]]]
<1>1. /\ Len(s) \in Nat /\ DOMAIN s = 1..Len(s) /\ DOMAIN r = DOMAIN s
      /\ DOMAIN r = 1..Len(r) /\ Len(r) = Len(s)
  BY LenProperties
<1>2. /\ Append(s, v) \in Seq(Values) /\ Append(r, L[v]) \in Seq(Values)
      /\ Len(Append(s, v)) = Len(s) + 1 /\ Len(Append(r, L[v])) = Len(s) + 1
      /\ \A i \in 1..Len(s) : Append(s, v)[i] = s[i] /\ Append(r, L[v])[i] = r[i]
      /\ Append(s, v)[Len(s) + 1] = v /\ Append(r, L[v])[Len(s) + 1] = L[v]
  BY <1>1, AppendFacts
<1> DEFINE a == Append(s, v)
           b == Append(r, L[v])
<1>3. /\ DOMAIN a = 1..(Len(s) + 1) /\ DOMAIN b = 1..(Len(s) + 1)
      /\ b = [i \in DOMAIN b |-> b[i]]
  BY <1>2, LenProperties
<1>4. \A i \in 1..(Len(s) + 1) : b[i] = L[a[i]]
  <2> SUFFICES ASSUME NEW i \in 1..(Len(s) + 1)  PROVE b[i] = L[a[i]]
    OBVIOUS
  <2>1. CASE i = Len(s) + 1
    BY <1>2, <2>1
  <2>2. CASE i # Len(s) + 1
    <3>1. i \in 1..Len(s)
      BY <1>1, <2>2
    <3> QED  BY <1>1, <1>2, <3>1
  <2> QED  BY <2>1, <2>2
<1> HIDE DEF a, b
<1>5. b = [i \in DOMAIN a |-> L[a[i]]]
  BY <1>3, <1>4
<1> QED  BY <1>5 DEF a, b

\* A write leaves the two sides in agreement, but on what it deletes unnamed.
LEMMA WriteKeepsAgreement ==
  ASSUME NEW t \in Tables, NEW r \in Tables, NEW u, u \subseteq Declared, Agree(r, t, u),
         NEW w \in Writes
  PROVE  /\ Written(t, w) \in Tables /\ Replayed(r, Logged(w)) \in Tables
         /\ Strayed(u, t, w) \subseteq Declared
         /\ Agree(Replayed(r, Logged(w)), Written(t, w), Strayed(u, t, w))
<1> DEFINE now  == Written(t, w)
           then == Replayed(r, Logged(w))
<1>1. /\ w.verb \in Verbs /\ w.acts \subseteq Keys /\ w.told \subseteq w.acts
      /\ w.acts \ w.told \subseteq Declared
      /\ w.verb # "REMOVE" => /\ w.told = w.acts /\ w.val \in Values /\ w.text \in Values
                              /\ \A x \in w.acts : w.text = LogText[x][w.val]
  BY WriteFields
<1>2. /\ now = Applied(t, w.verb, w.acts, w.val)
      /\ then = Applied(r, w.verb, w.told, w.text)
  BY LoggedIs DEF Written, Replayed
<1>3. now \in Tables /\ then \in Tables
  BY <1>1, <1>2, AppliedType
<1>4. Strayed(u, t, w) \subseteq Declared
  BY <1>1 DEF Strayed
<1>5. ASSUME NEW k \in Keys \ Strayed(u, t, w)
      PROVE  then[k] = Shown(now)[k]
  <2>1. Shown(now)[k] = [i \in DOMAIN now[k] |-> LogText[k][now[k][i]]]
    BY DEF Shown
  <2>2. /\ k \notin u => r[k] = [i \in DOMAIN t[k] |-> LogText[k][t[k][i]]]
        /\ t[k] \in Seq(Values) /\ r[k] \in Seq(Values)
    BY DEF Agree, Shown, Tables
  <2>3. CASE w.verb = "REMOVE"
    <3>2. k \in Dropped(t, w.acts) <=> k \in Dropped(r, w.told) \/ k \in w.acts \ w.told
      <4>1. w.told \subseteq w.acts /\ w.acts \cap Paths = w.told \cap Paths
        BY <1>1, SysConstants
      <4>2. \A S : AliasClosed(t, S) <=> AliasClosed(r, S)
        BY SameAliases
      <4> QED  BY <4>1, <4>2 DEF Dropped
    <3>3. /\ now[k] = IF k \in Dropped(t, w.acts) THEN << >> ELSE t[k]
          /\ then[k] = IF k \in Dropped(r, w.told) THEN << >> ELSE r[k]
      BY <1>2, <2>3 DEF Applied
    <3>4. CASE k \in Dropped(r, w.told)
      BY <2>1, <3>2, <3>3, <3>4
    <3>5. CASE k \notin Dropped(r, w.told)
      <4>1. k \notin w.told
        BY <3>5 DEF Dropped
      <4>2. k \notin u /\ ~(k \in w.acts \ w.told /\ Present(t, k))
        BY <4>1, <2>3 DEF Strayed
      <4>3. CASE k \in w.acts \ w.told
        <5>1. t[k] = << >> /\ now[k] = << >> /\ then[k] = r[k]
          BY <3>2, <3>3, <3>5, <4>2, <4>3 DEF Present
        <5> QED  BY <2>1, <2>2, <4>2, <5>1
      <4>4. CASE k \notin w.acts \ w.told
        <5>1. now[k] = t[k] /\ then[k] = r[k]
          BY <3>2, <3>3, <3>5, <4>4
        <5> QED  BY <2>1, <2>2, <4>2, <5>1
      <4> QED  BY <4>3, <4>4
    <3> QED  BY <3>4, <3>5
  <2>4. CASE w.verb # "REMOVE"
    <3>1. /\ w.told = w.acts /\ k \notin u
          /\ k \in w.acts => w.text = LogText[k][w.val]
      BY <1>1, <2>4 DEF Strayed
    <3>2. r[k] = [i \in DOMAIN t[k] |-> LogText[k][t[k][i]]] /\ DOMAIN r[k] = DOMAIN t[k]
      BY <2>2, <3>1
    <3>3. CASE k \notin w.acts
      <4>1. now[k] = t[k] /\ then[k] = r[k]
        BY <1>2, <2>4, <3>1, <3>3 DEF Applied
      <4> QED  BY <2>1, <3>2, <4>1
    <3>4. CASE k \in w.acts /\ w.verb = "INSERT" /\ k \in Adds
      <4>1. now[k] = Append(t[k], w.val) /\ then[k] = Append(r[k], LogText[k][w.val])
        BY <1>2, <3>1, <3>4 DEF Applied
      <4>2. w.val \in Values /\ LogText[k][w.val] \in Values
        BY <1>1, <2>4, SysConstants
      <4> HIDE DEF now, then
      <4> DEFINE L == LogText[k]
      <4>3. r[k] = [i \in DOMAIN t[k] |-> L[t[k][i]]] /\ L[w.val] \in Values
        BY <3>2, <4>2
      <4> HIDE DEF L
      <4>4. Append(r[k], L[w.val])
              = [i \in DOMAIN Append(t[k], w.val) |-> L[Append(t[k], w.val)[i]]]
        BY <2>2, <4>2, <4>3, ShownAppend
      <4> QED  BY <2>1, <4>1, <4>4 DEF L
    <3>5. CASE k \in w.acts /\ ((w.verb = "INSERT" /\ k \notin Adds) \/ w.verb = "UPSERT")
      <4>1. now[k] = << w.val >> /\ then[k] = << LogText[k][w.val] >>
        BY <1>2, <3>1, <3>5 DEF Applied
      <4> QED  BY <2>1, <4>1
    <3>6. CASE k \in w.acts /\ w.verb = "UPDATE"
      <4>1. /\ now[k] = [i \in DOMAIN t[k] |-> w.val]
            /\ then[k] = [i \in DOMAIN r[k] |-> LogText[k][w.val]]
        BY <1>2, <3>1, <3>6 DEF Applied
      <4> QED  BY <2>1, <3>2, <4>1
    <3> QED  BY <1>1, <2>4, <3>3, <3>4, <3>5, <3>6 DEF Verbs
  <2> QED  BY <2>3, <2>4
<1> HIDE DEF now, then
<1>6. Agree(then, now, Strayed(u, t, w))
  BY <1>5 DEF Agree
<1> QED  BY <1>3, <1>4, <1>6 DEF now, then

\* The replay of a log as the rule of its recursion.
Rule(f, log) ==
  [n \in 0..Len(log) |-> IF n = 0 THEN NoRows ELSE Replayed(f[n - 1], log[n])]
Replays(log, t, u) ==
  /\ \E f : f = Rule(f, log)
  /\ \A f : f = Rule(f, log) => f[Len(log)] \in Tables /\ Agree(f[Len(log)], t, u)

LEMMA ReplayAgrees ==
  ASSUME NEW log, NEW t, NEW u, Replays(log, t, u)
  PROVE  Agree(Replay(log), t, u)
<1> DEFINE g == CHOOSE f : f = Rule(f, log)
<1>1. Replay(log) = g[Len(log)]
  BY DEF Replay, Rule
<1>2. g = Rule(g, log)
  BY DEF Replays
<1> HIDE DEF g
<1> QED  BY <1>1, <1>2 DEF Replays

\* Replaying one more entry.
LEMMA ReplayOneMore ==
  ASSUME NEW log \in Seq(Entries), NEW t \in Tables, NEW u, u \subseteq Declared,
         NEW w \in Writes, Replays(log, t, u)
  PROVE  Replays(Append(log, Logged(w)), Written(t, w), Strayed(u, t, w))
<1> DEFINE e  == Logged(w)
           lg == Append(log, e)
           N  == Len(log)
<1>1. /\ N \in Nat /\ Len(lg) = N + 1
      /\ \A i \in 1..N : lg[i] = log[i]
      /\ lg[N + 1] = e
  BY LoggedIs, AppendFacts
<1> HIDE DEF e, lg, N
<1>2. ASSUME NEW f, f = Rule(f, lg)
      PROVE  f[Len(lg)] \in Tables /\ Agree(f[Len(lg)], Written(t, w), Strayed(u, t, w))
  <2> DEFINE g == [n \in 0..N |-> f[n]]
  <2>1. \A n \in 0..(N + 1) : f[n] = IF n = 0 THEN NoRows ELSE Replayed(f[n - 1], lg[n])
    BY <1>1, <1>2 DEF Rule
  <2>2. g = [n \in 0..N |-> IF n = 0 THEN NoRows ELSE Replayed(g[n - 1], log[n])]
    <3>1. ASSUME NEW n \in 0..N
          PROVE  g[n] = IF n = 0 THEN NoRows ELSE Replayed(g[n - 1], log[n])
      <4>1. CASE n = 0
        BY <1>1, <2>1, <4>1
      <4>2. CASE n # 0
        <5>1. n \in 1..N /\ n - 1 \in 0..N /\ n \in 0..(N + 1)
          BY <1>1, <4>2
        <5> QED  BY <1>1, <2>1, <4>2, <5>1
      <4> QED  BY <4>1, <4>2
    <3> QED  BY <3>1
  <2>3. g = Rule(g, log)
    BY <2>2 DEF Rule, N
  <2>4. N \in 0..N /\ g[N] = f[N]
    BY <1>1
  <2> HIDE DEF g
  <2>5. f[N] \in Tables /\ Agree(f[N], t, u)
    BY <2>3, <2>4 DEF Replays, N
  <2>6. f[N + 1] = Replayed(f[N], e)
    <3>1. N + 1 \in 0..(N + 1) /\ N + 1 # 0 /\ (N + 1) - 1 = N
      BY <1>1
    <3> QED  BY <1>1, <2>1, <3>1
  <2>7. /\ Replayed(f[N], e) \in Tables
        /\ Agree(Replayed(f[N], e), Written(t, w), Strayed(u, t, w))
    BY <2>5, WriteKeepsAgreement DEF e
  <2> QED  BY <1>1, <2>6, <2>7
<1>3. \E f : f = Rule(f, lg)
  <2>1. PICK g : g = Rule(g, log)
    BY DEF Replays
  <2>2. \A n \in 0..N : g[n] = IF n = 0 THEN NoRows ELSE Replayed(g[n - 1], log[n])
    BY <2>1 DEF Rule, N
  <2> DEFINE f == [n \in 0..(N + 1) |-> IF n = N + 1 THEN Replayed(g[N], e) ELSE g[n]]
  <2>3. ASSUME NEW n \in 0..(N + 1)
        PROVE  f[n] = IF n = 0 THEN NoRows ELSE Replayed(f[n - 1], lg[n])
    <3>1. CASE n = N + 1
      <4>1. n # 0 /\ n - 1 = N /\ N \in 0..(N + 1) /\ N # N + 1
        BY <1>1, <3>1
      <4>2. f[n] = Replayed(g[N], e) /\ f[n - 1] = g[N] /\ lg[n] = e
        BY <1>1, <3>1, <4>1
      <4> QED  BY <4>1, <4>2
    <3>2. CASE n = 0
      BY <1>1, <2>2, <3>2
    <3>3. CASE n # 0 /\ n # N + 1
      <4>1. n \in 1..N /\ n \in 0..N /\ n - 1 \in 0..(N + 1) /\ n - 1 # N + 1
        BY <1>1, <3>3
      <4>2. f[n] = g[n] /\ f[n - 1] = g[n - 1] /\ lg[n] = log[n]
        BY <1>1, <3>3, <4>1
      <4> QED  BY <2>2, <3>3, <4>1, <4>2
    <3> QED  BY <3>1, <3>2, <3>3
  <2>4. f = [n \in 0..(N + 1) |-> IF n = 0 THEN NoRows ELSE Replayed(f[n - 1], lg[n])]
    BY <2>3
  <2>5. f = Rule(f, lg)
    BY <1>1, <2>4 DEF Rule
  <2> QED  BY <2>5
<1> QED  BY <1>2, <1>3 DEF Replays, e, lg

-----------------------------------------------------------------------------
(* The inductive invariant. *)

\* Types, those of the two variables TypeOK leaves out included.
Types ==
  /\ TypeOK
  /\ ddl \in Seq(Entries)
  /\ write \in [Clients -> Seq(Writes)]

\* The head and the tail are those of the history.
ChainOK == Tells([head |-> head, tail |-> tail], History)

\* A seal, in the witness or on its way there, is a row of the history.
SealsOK ==
  /\ \A s \in witness : SealOf(s, History)
  /\ \A x \in Sealers : sealing[x] = NoHead \/ SealOf(sealing[x], History)

\* One connection at a time may write.
OneWriter == \A c, d \in Clients : mode[c] = "write" /\ mode[d] = "write" => c = d

\* Replaying the log gives the tables as it shows them.
LogOK == Replays(ddl, rows, untold)

\* The writes of a statement name no delivery that was applied, and none twice.
Fresh(w) ==
  /\ Len(w) \in {1, 2}
  /\ \A i \in DOMAIN w : w[i].by # Absent => w[i].by \notin billed
  /\ \A i, j \in DOMAIN w : w[i].by = w[j].by /\ w[i].by # Absent => i = j

\* Whoever may still write has seen the newest head; an open transaction has
\* something to append or to write.
ConnOK ==
  \A c \in Clients :
    /\ mode[c] \in {"read", "write"} => seen[c] = head
    /\ mode[c] # "write" => write[c] = << >>
    /\ mode[c] \in {"read", "stale"} => todo[c] # << >>
    /\ mode[c] = "write" /\ write[c] = << >> => todo[c] # << >>
    /\ write[c] # << >> => Fresh(write[c])

\* The log's deliveries are marked as applied.
Billed == \A i \in DOMAIN ddl : ddl[i].by # Absent => ddl[i].by \in billed

\* What is still to be appended is earned, and of one effect on one list once.
TodoOK ==
  /\ \A c \in Clients : \A i \in DOMAIN todo[c] : Earned(todo[c][i])
  /\ \A c, d \in Clients : \A i \in DOMAIN todo[c], j \in DOMAIN todo[d] :
       todo[c][i].what = todo[d][j].what => c = d /\ i = j

IInv ==
  /\ Types /\ ChainOK /\ SealsOK /\ OneWriter /\ ConnOK
  /\ Billed /\ TodoOK /\ LogOK /\ LedgersAgree /\ EventsAreEarned

-----------------------------------------------------------------------------
(* What the two kinds of commit do to the ledgers. *)

\* The chain that tells g is the chain of the next state if that is what the
\* step wrote.
LEMMA ChainNow ==
  ASSUME NEW chain, NEW g, Tells(chain, g), head' = chain.head, tail' = chain.tail
  PROVE  History' = g /\ ChainOK'
<1>1. g \in Seq(Contents) /\ IsHeadOf(head', g) /\ IsTailOf(tail', g)
  BY DEF Tells
<1>2. HeadHash(head') = g
  BY <1>1, HeadCommits
<1> QED  BY <1>1, <1>2 DEF History, ChainOK, Tells

\* An append puts the first event of the list at the end of the history.
LEMMA CommitAppendFacts ==
  ASSUME IInv, NEW c \in Clients, CommitAppend(c)
  PROVE  /\ todo[c] # << >> /\ Head(todo[c]) \in Events
         /\ History \in Seq(Contents)
         /\ History' = Append(History, Head(todo[c])) /\ ChainOK'
<1> DEFINE e     == Head(todo[c])
           chain == [head |-> seen[c], tail |-> tail]
<1>1. todo[c] # << >> /\ seen[c] = head
  BY DEF IInv, ConnOK, CommitAppend
<1>2. todo[c] \in Seq(Events)
  BY DEF IInv, Types, TypeOK
<1>3. e \in Events /\ e \in Contents
  BY <1>1, <1>2, HeadTailProperties DEF Contents
<1>4. Tells(chain, History)
  BY <1>1 DEF IInv, ChainOK
<1>5. Tells(AppendTo(chain, e), Append(History, e))
  BY <1>3, <1>4, AppendTells
<1>6. head' = AppendTo(chain, e).head /\ tail' = AppendTo(chain, e).tail
  BY DEF CommitAppend
<1> HIDE DEF e, chain
<1>7. History' = Append(History, e) /\ ChainOK'
  BY <1>5, <1>6, ChainNow
<1> QED  BY <1>1, <1>3, <1>4, <1>7 DEF e, Tells

\* The ledgers tell one story: what h shows of the log, and what replaying it
\* gives.
Story(h, log, t, u) ==
  /\ h \in Seq(Contents) /\ log \in Seq(Entries) /\ t \in Tables /\ u \subseteq Declared
  /\ ShowsInOrder(h, log) /\ Replays(log, t, u)

LEMMA StoryGoesOn ==
  ASSUME NEW h, NEW log, NEW t, NEW u, Story(h, log, t, u), NEW w \in Writes
  PROVE  Story(Append(h, Shows(w)), Append(log, Logged(w)), Written(t, w), Strayed(u, t, w))
<1>1. /\ h \in Seq(Contents) /\ log \in Seq(Entries) /\ t \in Tables /\ u \subseteq Declared
      /\ Logged(w) \in Entries /\ Shows(Logged(w)) = Shows(w) /\ Shows(w) \in Contents
  BY LoggedIs, EntryFields DEF Story
<1>2. Append(h, Shows(w)) \in Seq(Contents) /\ Append(log, Logged(w)) \in Seq(Entries)
  BY <1>1, AppendProperties
<1>3. Replays(Append(log, Logged(w)), Written(t, w), Strayed(u, t, w))
  BY <1>1, ReplayOneMore DEF Story
<1>4. ShowsInOrder(Append(h, Shows(w)), Append(log, Logged(w)))
  <2>1. ShowsInOrder(Append(h, Shows(Logged(w))), Append(log, Logged(w)))
    BY <1>1, WriteIsShown DEF Story
  <2> QED  BY <1>1, <2>1
<1>5. Written(t, w) \in Tables /\ Strayed(u, t, w) \subseteq Declared
  <2>1. PICK f : f = Rule(f, log)
    BY DEF Story, Replays
  <2>2. f[Len(log)] \in Tables /\ Agree(f[Len(log)], t, u)
    BY <2>1 DEF Story, Replays
  <2> QED  BY <1>1, <2>2, WriteKeepsAgreement
<1> QED  BY <1>2, <1>3, <1>4, <1>5 DEF Story

LEMMA StoryNow ==
  ASSUME IInv
  PROVE  Story(History, ddl, rows, untold)
BY DEF IInv, Types, TypeOK, ChainOK, Tells, LedgersAgree, LogOK, Story

\* What the stream shows of one write or two, and their entries.
LEMMA EntriesOf ==
  ASSUME NEW w \in Seq(Writes), Len(w) \in {1, 2}, NEW log \in Seq(Entries)
  PROVE  LET es == [i \in DOMAIN w |-> Logged(w[i])]
         IN  /\ es \in Seq(Entries) /\ Len(es) = Len(w) /\ DOMAIN es = DOMAIN w
             /\ w[1] \in Writes /\ Logged(w[1]) \in Entries
             /\ Len(w) = 1 => log \o es = Append(log, Logged(w[1]))
             /\ Len(w) = 2 => /\ w[2] \in Writes /\ Logged(w[2]) \in Entries
                              /\ log \o es = Append(Append(log, Logged(w[1])), Logged(w[2]))
<1> DEFINE es == [i \in DOMAIN w |-> Logged(w[i])]
<1>1. DOMAIN w = 1..Len(w) /\ \A i \in DOMAIN w : w[i] \in Writes /\ Logged(w[i]) \in Entries
  BY LenProperties, LoggedIs
<1>2. es \in Seq(Entries) /\ Len(es) = Len(w) /\ DOMAIN es = DOMAIN w
  BY <1>1
<1>3. 1 \in DOMAIN w /\ es[1] = Logged(w[1])
  BY <1>1
<1>4. Len(w) = 2 => 2 \in DOMAIN w /\ es[2] = Logged(w[2])
  BY <1>1
<1> HIDE DEF es
<1>5. ASSUME Len(w) = 1  PROVE log \o es = Append(log, Logged(w[1]))
  <2>1. es = << es[1] >>
    BY <1>2, <1>5, ShortSeqs
  <2>2. es[1] \in Entries
    BY <1>1, <1>3
  <2>3. Append(log, es[1]) = log \o << es[1] >>
    BY <2>2, AppendIsConcat
  <2> QED  BY <1>3, <2>1, <2>3
<1>6. ASSUME Len(w) = 2
      PROVE  log \o es = Append(Append(log, Logged(w[1])), Logged(w[2]))
  <2>1. es = << es[1] >> \o << es[2] >>
    BY <1>2, <1>6, ShortSeqs
  <2>2. es[1] \in Entries /\ es[2] \in Entries
    BY <1>1, <1>3, <1>4, <1>6
  <2> DEFINE x == es[1]
             y == es[2]
  <2> HIDE DEF x, y
  <2>3. x \in Entries /\ y \in Entries /\ << x >> \in Seq(Entries) /\ << y >> \in Seq(Entries)
    BY <2>2 DEF x, y
  <2>4. log \o (<< x >> \o << y >>) = (log \o << x >>) \o << y >>
    BY <2>3, ConcatAssociative
  <2>5. Append(log, x) = log \o << x >> /\ Append(log, x) \in Seq(Entries)
    BY <2>3, AppendIsConcat, AppendProperties
  <2>6. Append(Append(log, x), y) = Append(log, x) \o << y >>
    BY <2>3, <2>5, AppendIsConcat
  <2>7. log \o es = Append(Append(log, x), y)
    BY <2>1, <2>4, <2>5, <2>6 DEF x, y
  <2> QED  BY <1>3, <1>4, <1>6, <2>7 DEF x, y
<1>7. /\ w[1] \in Writes /\ Logged(w[1]) \in Entries
      /\ Len(w) = 2 => w[2] \in Writes /\ Logged(w[2]) \in Entries
  BY <1>1, <1>3, <1>4
<1> QED  BY <1>2, <1>5, <1>6, <1>7 DEF es

\* A statement of one write or of two puts their events at the end of the
\* history and their entries at the end of the log, and leaves the tables they
\* give.
LEMMA SysCommitFacts ==
  ASSUME IInv, NEW c \in Clients, SysCommit(c)
  PROVE  /\ ChainOK' /\ Story(History', ddl', rows', untold')
         /\ Fresh(write[c]) /\ write[c] \in Seq(Writes)
         /\ \E e \in Entries :
              \/ /\ ddl' = Append(ddl, e)
                 /\ History' = Append(History, Shows(e))
              \/ \E f \in Entries :
                   /\ ddl' = Append(Append(ddl, e), f)
                   /\ History' = Append(Append(History, Shows(e)), Shows(f))
<1> DEFINE w     == write[c]
           chain == [head |-> seen[c], tail |-> tail]
<1>1. mode[c] = "write" /\ w # << >> /\ seen[c] = head /\ Fresh(w) /\ w \in Seq(Writes)
  BY DEF IInv, ConnOK, SysCommit, Types
<1>2. Tells(chain, History)
  BY <1>1 DEF IInv, ChainOK
<1>3. Story(History, ddl, rows, untold)
  BY StoryNow
<1>4. /\ head' = AppendAll(chain, w).head /\ tail' = AppendAll(chain, w).tail
      /\ rows' = TablesAfter(w) /\ untold' = UntoldAfter(w)
      /\ ddl' = ddl \o [i \in DOMAIN w |-> Logged(w[i])]
  BY DEF SysCommit
<1>5. Len(w) \in {1, 2}
  BY <1>1 DEF Fresh
<1> HIDE DEF w, chain
<1>6. /\ w[1] \in Writes /\ Logged(w[1]) \in Entries
      /\ Len(w) = 1 => ddl' = Append(ddl, Logged(w[1]))
      /\ Len(w) = 2 => /\ w[2] \in Writes /\ Logged(w[2]) \in Entries
                       /\ ddl' = Append(Append(ddl, Logged(w[1])), Logged(w[2]))
  BY <1>1, <1>3, <1>4, <1>5, EntriesOf DEF Story
<1>7. \A x \in Writes : Shows(x) \in Contents /\ Shows(Logged(x)) = Shows(x)
  BY LoggedIs, EntryFields
<1>8. CASE Len(w) = 1
  <2>1. Tells(AppendTo(chain, Shows(w[1])), Append(History, Shows(w[1])))
    BY <1>2, <1>6, <1>7, AppendTells
  <2>2. History' = Append(History, Shows(w[1])) /\ ChainOK'
    BY <1>4, <1>8, <2>1, ChainNow DEF AppendAll
  <2>3. rows' = Written(rows, w[1]) /\ untold' = Strayed(untold, rows, w[1])
    BY <1>4, <1>8 DEF TablesAfter, UntoldAfter
  <2>4. Story(History', ddl', rows', untold')
    BY <1>3, <1>6, <1>8, <2>2, <2>3, StoryGoesOn
  <2> QED  BY <1>1, <1>6, <1>7, <1>8, <2>2, <2>4 DEF w
<1>9. CASE Len(w) = 2
  <2> DEFINE one == AppendTo(chain, Shows(w[1]))
             h1  == Append(History, Shows(w[1]))
             l1  == Append(ddl, Logged(w[1]))
             t1  == Written(rows, w[1])
             u1  == Strayed(untold, rows, w[1])
  <2>1. Tells(one, h1)
    BY <1>2, <1>6, <1>7, AppendTells
  <2>2. Story(h1, l1, t1, u1)
    BY <1>3, <1>6, StoryGoesOn
  <2>3. /\ AppendAll(chain, w) = AppendTo(one, Shows(w[2])) /\ rows' = Written(t1, w[2])
        /\ untold' = Strayed(u1, t1, w[2]) /\ ddl' = Append(l1, Logged(w[2]))
    BY <1>4, <1>6, <1>9 DEF AppendAll, TablesAfter, UntoldAfter
  <2> HIDE DEF one, h1, l1, t1, u1
  <2>4. Tells(AppendTo(one, Shows(w[2])), Append(h1, Shows(w[2])))
    BY <1>6, <1>7, <1>9, <2>1, AppendTells
  <2>5. History' = Append(h1, Shows(w[2])) /\ ChainOK'
    BY <1>4, <2>3, <2>4, ChainNow
  <2>6. Story(History', ddl', rows', untold')
    BY <1>6, <1>9, <2>2, <2>3, <2>5, StoryGoesOn
  <2> QED  BY <1>1, <1>6, <1>7, <1>9, <2>3, <2>5, <2>6 DEF w, h1, l1
<1> QED  BY <1>5, <1>8, <1>9

\* What such a write leaves on the history alone.
LEMMA SysCommitShows ==
  ASSUME IInv, NEW c \in Clients, SysCommit(c)
  PROVE  \E e \in Contents \ Events :
           \/ History' = Append(History, e)
           \/ \E f \in Contents \ Events : History' = Append(Append(History, e), f)
<1>1. PICK e \in Entries : \/ History' = Append(History, Shows(e))
                          \/ \E f \in Entries :
                               History' = Append(Append(History, Shows(e)), Shows(f))
  BY SysCommitFacts
<1>2. \A f \in Entries : Shows(f) \in Contents \ Events
  BY EntryFields
<1> QED  BY <1>1, <1>2

-----------------------------------------------------------------------------
(* The initial states. *)

LEMMA InitIInv == Init => IInv
<1> SUFFICES ASSUME Init  PROVE IInv
  OBVIOUS
<1>1. History = << >> /\ << >> \in Seq(Contents)
  BY DEF Init, History, HeadHash, Genesis
<1>2. Types
  <2>1. NoHead \in Heads
    BY DEF NoHead, Heads, Genesis
  <2>2. NoRows \in Tables
    <3>1. << >> \in Seq(Values)
      OBVIOUS
    <3> QED  BY <3>1 DEF NoRows, Tables
  <2> QED  BY <2>1, <2>2 DEF Init, Types, TypeOK, Statuses
<1>3. ChainOK
  <2>1. IsHeadOf(head, << >>)
    BY DEF Init, IsHeadOf
  <2>2. IsTailOf(tail, << >>)
    <3>1. Live(<< >>) = {}
      BY DEF Live
    <3> QED  BY <3>1 DEF Init, IsTailOf
  <2> QED  BY <1>1, <2>1, <2>2 DEF ChainOK, Tells
<1>4. SealsOK /\ OneWriter /\ ConnOK /\ Billed /\ TodoOK
  BY DEF Init, SealsOK, OneWriter, ConnOK, Billed, TodoOK
<1>5. LogOK
  <2> DEFINE f == [n \in 0..0 |-> NoRows]
  <2>1. Len(ddl) = 0 /\ rows = NoRows /\ untold = {}
    BY DEF Init
  <2>2. f[0] = NoRows /\ f = [n \in 0..0 |-> IF n = 0 THEN NoRows ELSE Replayed(f[n - 1], ddl[n])]
    OBVIOUS
  <2>3. f = Rule(f, ddl)
    BY <2>1, <2>2 DEF Rule
  <2> HIDE DEF f
  <2>4. \A g : g = Rule(g, ddl) => g[Len(ddl)] = NoRows
    BY <2>1 DEF Rule
  <2>5. NoRows \in Tables
    <3>1. << >> \in Seq(Values)
      OBVIOUS
    <3> QED  BY <3>1 DEF NoRows, Tables
  <2>6. Agree(NoRows, NoRows, {})
    BY DEF Agree, Shown, NoRows
  <2> QED  BY <2>1, <2>3, <2>4, <2>5, <2>6 DEF LogOK, Replays
<1>6. LedgersAgree
  <2>1. \A k \in Keys \ untold : Replay(ddl)[k] = Shown(rows)[k]
    BY <1>5, ReplayAgrees DEF LogOK, Agree
  <2>2. ShowsInOrder(History, ddl)
    <3>1. DOMAIN ddl = {} /\ DOMAIN History = {}
      BY <1>1 DEF Init
    <3>2. [x \in {} |-> x] \in [DOMAIN ddl -> DOMAIN History]
      BY <3>1
    <3> QED  BY <3>1, <3>2 DEF ShowsInOrder
  <2> QED  BY <2>1, <2>2 DEF LedgersAgree, Init
<1>7. EventsAreEarned
  BY <1>1 DEF EventsAreEarned, OnChain
<1> QED  BY <1>2, <1>3, <1>4, <1>5, <1>6, <1>7 DEF IInv

-----------------------------------------------------------------------------
(* Every step preserves the invariant, part by part. *)

\* Only the two kinds of commit touch the ledgers.
LEMMA OnlyCommitsWrite ==
  ASSUME [Next]_vars
  PROVE  \/ UNCHANGED <<head, tail, ddl, rows, untold, billed>>
         \/ \E c \in Clients : CommitAppend(c) \/ SysCommit(c)
BY DEF Next, vars, chainVars, tableVars, connVars, sealVars, CommitPlan, SkipEmission,
       BeginAppend, Upgrade, DropEvent, SysBegin, Crash, ReadHead, AppendSeal

\* The head and the tail stay those of the history.
LEMMA StepChain ==
  ASSUME IInv, [Next]_vars
  PROVE  ChainOK'
<1>1. CASE UNCHANGED <<head, tail, ddl, rows, untold, billed>>
  BY <1>1 DEF IInv, ChainOK, History
<1>2. ASSUME NEW c \in Clients, CommitAppend(c)  PROVE ChainOK'
  BY <1>2, CommitAppendFacts
<1>3. ASSUME NEW c \in Clients, SysCommit(c)  PROVE ChainOK'
  BY <1>3, SysCommitFacts
<1> QED  BY <1>1, <1>2, <1>3, OnlyCommitsWrite

\* The history is kept or gets events at its end.
LEMMA HistoryGrows ==
  ASSUME IInv, [Next]_vars
  PROVE  /\ History \in Seq(Contents)
         /\ \/ History' = History
            \/ \E e \in Contents : History' = Append(History, e)
            \/ \E e, f \in Contents : History' = Append(Append(History, e), f)
<1>0. History \in Seq(Contents)
  BY DEF IInv, ChainOK, Tells
<1>1. CASE UNCHANGED <<head, tail, ddl, rows, untold, billed>>
  BY <1>0, <1>1 DEF History
<1>2. ASSUME NEW c \in Clients, CommitAppend(c)
      PROVE  \E e \in Contents : History' = Append(History, e)
  BY <1>2, CommitAppendFacts DEF Contents
<1>3. ASSUME NEW c \in Clients, SysCommit(c)
      PROVE  \/ \E e \in Contents : History' = Append(History, e)
             \/ \E e, f \in Contents : History' = Append(Append(History, e), f)
  BY <1>3, SysCommitShows
<1> QED  BY <1>0, <1>1, <1>2, <1>3, OnlyCommitsWrite

\* Seals stay rows of the history, and a sealer reads one.
LEMMA StepSeals ==
  ASSUME IInv, [Next]_vars
  PROVE  SealsOK'
<1>1. ASSUME NEW s, SealOf(s, History)  PROVE SealOf(s, History')
  <2>1. History \in Seq(Contents)
    BY HistoryGrows
  <2>2. CASE History' = History
    BY <1>1, <2>2
  <2>3. ASSUME NEW e \in Contents, History' = Append(History, e)
        PROVE  SealOf(s, History')
    BY <1>1, <2>1, <2>3, SealStays
  <2>4. ASSUME NEW e \in Contents, NEW f \in Contents,
               History' = Append(Append(History, e), f)
        PROVE  SealOf(s, History')
    <3>1. Append(History, e) \in Seq(Contents)
      BY <2>1, AppendProperties
    <3>2. SealOf(s, Append(History, e))
      BY <1>1, <2>1, SealStays
    <3> QED  BY <2>4, <3>1, <3>2, SealStays
  <2> QED  BY <2>2, <2>3, <2>4, HistoryGrows
<1>2. CASE UNCHANGED sealVars
  BY <1>1, <1>2 DEF IInv, SealsOK, sealVars
<1>3. ASSUME NEW x \in Sealers, ReadHead(x)  PROVE SealsOK'
  <2>1. head # NoHead /\ sealing' = [sealing EXCEPT ![x] = head] /\ witness' = witness
    BY <1>3 DEF ReadHead
  <2>2. SealOf(head, History)
    <3>1. History \in Seq(Contents) /\ IsHeadOf(head, History)
      BY DEF IInv, ChainOK, Tells
    <3>2. History # << >> /\ head.seq = Len(History)
      BY <2>1, <3>1, HeadCommits
    <3>3. Len(History) \in 1..Len(History)
      BY <3>1, <3>2, EmptySeq
    <3> QED  BY <3>1, <3>2, <3>3 DEF SealOf, IsHeadOf
  <2>3. SealOf(head, History')
    BY <1>1, <2>2
  <2>4. sealing \in [Sealers -> Heads]
    BY DEF IInv, Types, TypeOK
  <2> QED  BY <1>1, <2>1, <2>3, <2>4 DEF IInv, SealsOK
<1>4. ASSUME NEW x \in Sealers, AppendSeal(x)  PROVE SealsOK'
  <2>1. /\ sealing[x] # NoHead /\ witness' = witness \cup {sealing[x]}
        /\ sealing' = [sealing EXCEPT ![x] = NoHead]
    BY <1>4 DEF AppendSeal
  <2>2. sealing \in [Sealers -> Heads]
    BY DEF IInv, Types, TypeOK
  <2>3. SealOf(sealing[x], History)
    BY <2>1 DEF IInv, SealsOK
  <2>4. \A s \in witness' : SealOf(s, History')
    BY <1>1, <2>1, <2>3 DEF IInv, SealsOK
  <2>5. \A y \in Sealers : sealing'[y] = NoHead \/ SealOf(sealing'[y], History')
    BY <1>1, <2>1, <2>2 DEF IInv, SealsOK
  <2> QED  BY <2>4, <2>5 DEF SealsOK
<1>5. \/ UNCHANGED sealVars
      \/ \E x \in Sealers : ReadHead(x) \/ AppendSeal(x)
  BY DEF Next, vars, sealVars, CommitPlan, SkipEmission, BeginAppend, Upgrade, DropEvent,
         CommitAppend, SysBegin, SysCommit, Crash
<1> QED  BY <1>2, <1>3, <1>4, <1>5

\* What the actions do to the lists of events still to be appended: a list is
\* kept, emptied or loses its first event, or it is that of a new commit.
LEMMA TodoMoves ==
  ASSUME IInv, [Next]_vars
  PROVE  \/ \E c \in Clients : CommitPlan(c)
         \/ /\ ran' = ran
            /\ todo' \in [Clients -> Seq(Events)]
            /\ \A d \in Clients : \E k \in {0, 1} : \A j \in DOMAIN todo'[d] :
                 j + k \in DOMAIN todo[d] /\ todo'[d][j] = todo[d][j + k]
<1> DEFINE Shrinks(d) == \E k \in {0, 1} : \A j \in DOMAIN todo'[d] :
             j + k \in DOMAIN todo[d] /\ todo'[d][j] = todo[d][j + k]
<1>0. todo \in [Clients -> Seq(Events)]
  BY DEF IInv, Types, TypeOK
<1>1. ASSUME NEW d \in Clients, todo'[d] = todo[d]  PROVE Shrinks(d)
  <2>1. \A j \in DOMAIN todo[d] : j + 0 = j
    BY <1>0, LenProperties
  <2> QED  BY <1>1, <2>1
<1>2. ASSUME NEW d \in Clients, todo'[d] = << >>  PROVE Shrinks(d)
  BY <1>2
<1>3. ASSUME NEW d \in Clients, todo[d] # << >>, todo'[d] = Tail(todo[d])
      PROVE  Shrinks(d) /\ todo'[d] \in Seq(Events)
  <2>1. /\ Tail(todo[d]) \in Seq(Events)
        /\ Len(Tail(todo[d])) = Len(todo[d]) - 1
        /\ \A i \in 1..Len(Tail(todo[d])) : Tail(todo[d])[i] = todo[d][i + 1]
        /\ Len(todo[d]) \in Nat /\ DOMAIN todo[d] = 1..Len(todo[d])
    BY <1>0, <1>3, HeadTailProperties, LenProperties
  <2>2. DOMAIN todo'[d] = 1..(Len(todo[d]) - 1)
    BY <1>3, <2>1, LenProperties
  <2>3. \A j \in DOMAIN todo'[d] : j + 1 \in DOMAIN todo[d] /\ todo'[d][j] = todo[d][j + 1]
    BY <1>3, <2>1, <2>2
  <2> QED  BY <1>3, <2>1, <2>3
<1> HIDE DEF Shrinks
<1>4. CASE UNCHANGED <<todo, ran>>
  BY <1>0, <1>1, <1>4 DEF Shrinks
<1>5. ASSUME NEW c \in Clients, ran' = ran, todo' = [todo EXCEPT ![c] = << >>]
      PROVE  todo' \in [Clients -> Seq(Events)] /\ \A d \in Clients : Shrinks(d)
  <2>1. \A d \in Clients : todo'[d] = IF d = c THEN << >> ELSE todo[d]
    BY <1>0, <1>5
  <2>2. todo' \in [Clients -> Seq(Events)]
    BY <1>0, <1>5
  <2> QED  BY <1>1, <1>2, <2>1, <2>2
<1>6. ASSUME NEW c \in Clients, ran' = ran, todo[c] # << >>,
             todo' = [todo EXCEPT ![c] = Tail(@)]
      PROVE  todo' \in [Clients -> Seq(Events)] /\ \A d \in Clients : Shrinks(d)
  <2>1. \A d \in Clients : todo'[d] = IF d = c THEN Tail(todo[c]) ELSE todo[d]
    BY <1>0, <1>6
  <2>2. Tail(todo[c]) \in Seq(Events)
    BY <1>0, <1>6, HeadTailProperties
  <2>3. todo' \in [Clients -> Seq(Events)]
    BY <1>0, <1>6, <2>2
  <2> QED  BY <1>1, <1>3, <1>6, <2>1, <2>3
<1>7. ASSUME NEW c \in Clients, DropEvent(c) \/ CommitAppend(c)
      PROVE  ran' = ran /\ todo[c] # << >> /\ todo' = [todo EXCEPT ![c] = Tail(@)]
  BY <1>7 DEF IInv, ConnOK, DropEvent, CommitAppend, Rest
<1>8. ASSUME NEW c \in Clients, SkipEmission(c) \/ Crash(c)
      PROVE  ran' = ran /\ todo' = [todo EXCEPT ![c] = << >>]
  BY <1>8 DEF SkipEmission, Crash
<1>9. \/ \E c \in Clients : CommitPlan(c) \/ (DropEvent(c) \/ CommitAppend(c))
                            \/ (SkipEmission(c) \/ Crash(c))
      \/ UNCHANGED <<todo, ran>>
  BY DEF Next, vars, BeginAppend, Upgrade, SysBegin, SysCommit, ReadHead, AppendSeal
<1> QED  BY <1>4, <1>5, <1>6, <1>7, <1>8, <1>9 DEF Shrinks

\* What an outcome earns.
EarnedBy(out, event) ==
  IF event.committed THEN out[event.what] = "applied"
  ELSE event.what \in Irreversible /\ out[event.what] = "failed"

\* The events of a commit: of effects no commit came to before, each once.
LEMMA PlanFacts ==
  ASSUME IInv, NEW c \in Clients, CommitPlan(c)
  PROVE  /\ ran' \in [Effects -> Statuses \cup {"none"}]
         /\ \A e \in Effects : ran[e] # "none" => ran'[e] = ran[e]
         /\ \E list \in Seq(Events) :
              /\ todo' = [todo EXCEPT ![c] = list]
              /\ \A i \in DOMAIN list : /\ ran[list[i].what] = "none"
                                       /\ EarnedBy(ran', list[i])
              /\ \A i, j \in DOMAIN list : list[i].what = list[j].what => i = j
              /\ \A x : x \in EventsOf(list) <=>
                          \E e \in Effects : /\ ran'[e] # ran[e] /\ Audited(e, ran'[e])
                                             /\ x = Event(e, ran'[e])
<1>1. PICK now \in [Effects -> Statuses \cup {"none"}], p \in Orders :
        /\ \A e \in Effects : ran[e] # "none" => now[e] = ran[e]
        /\ EventsOf(p) = {e \in Effects : now[e] # ran[e] /\ Audited(e, now[e])}
        /\ ran' = now
        /\ todo' = [todo EXCEPT ![c] = [i \in DOMAIN p |-> Event(p[i], now[p[i]])]]
  BY DEF CommitPlan
<1>2. PICK n \in 0..PlanSize : p \in [1..n -> Effects]
  BY DEF Orders
<1>3. n \in Nat /\ DOMAIN p = 1..n
  BY <1>2
<1>4. \A i, j \in DOMAIN p : p[i] = p[j] => i = j
  BY DEF Orders
<1> DEFINE list == [i \in DOMAIN p |-> Event(p[i], now[p[i]])]
<1>5. \A i \in DOMAIN p : /\ p[i] \in Effects /\ now[p[i]] # ran[p[i]]
                          /\ Audited(p[i], now[p[i]]) /\ ran[p[i]] = "none"
  BY <1>1, <1>2 DEF EventsOf
<1>6. \A e, x : /\ Event(e, x).what = e /\ Event(e, x).committed = (x = "applied")
                /\ e \in Effects => Event(e, x) \in Events
  BY DEF Event, Events
<1>7. list \in Seq(Events) /\ DOMAIN list = DOMAIN p
  BY <1>3, <1>5, <1>6
<1>8. \A i \in DOMAIN list : list[i] = Event(p[i], now[p[i]])
  OBVIOUS
<1> HIDE DEF list
<1>9. ASSUME NEW i \in DOMAIN list
      PROVE  ran[list[i].what] = "none" /\ EarnedBy(ran', list[i])
  <2>1. list[i].what = p[i] /\ list[i].committed = (now[p[i]] = "applied")
    BY <1>6, <1>8
  <2>2. Audited(p[i], now[p[i]]) /\ ran[p[i]] = "none"
    BY <1>5, <1>7
  <2> QED  BY <1>1, <2>1, <2>2 DEF EarnedBy, Audited
<1>10. \A i, j \in DOMAIN list : list[i].what = list[j].what => i = j
  BY <1>4, <1>6, <1>7, <1>8
<1>11. ASSUME NEW x
       PROVE  x \in EventsOf(list) <=>
                \E e \in Effects : /\ now[e] # ran[e] /\ Audited(e, now[e])
                                   /\ x = Event(e, now[e])
  <2>1. x \in EventsOf(list) <=> \E i \in DOMAIN p : x = Event(p[i], now[p[i]])
    BY <1>7, <1>8 DEF EventsOf
  <2>2. ASSUME NEW i \in DOMAIN p, x = Event(p[i], now[p[i]])
        PROVE  \E e \in Effects : /\ now[e] # ran[e] /\ Audited(e, now[e])
                                   /\ x = Event(e, now[e])
    BY <1>5, <2>2
  <2>3. ASSUME NEW e \in Effects, now[e] # ran[e], Audited(e, now[e]), x = Event(e, now[e])
        PROVE  \E i \in DOMAIN p : x = Event(p[i], now[p[i]])
    <3>1. PICK i \in DOMAIN p : e = p[i]
      BY <1>1, <2>3 DEF EventsOf
    <3> QED  BY <2>3, <3>1
  <2> QED  BY <2>1, <2>2, <2>3
<1>12. todo' = [todo EXCEPT ![c] = list]
  BY <1>1 DEF list
<1>13. \A x : x \in EventsOf(list) <=>
                \E e \in Effects : /\ ran'[e] # ran[e] /\ Audited(e, ran'[e])
                                   /\ x = Event(e, ran'[e])
  BY <1>1, <1>11
<1>14. \A i \in DOMAIN list : ran[list[i].what] = "none" /\ EarnedBy(ran', list[i])
  BY <1>9
<1> QED  BY <1>1, <1>7, <1>10, <1>12, <1>13, <1>14

\* No effect is on two lists or on one twice, and what is on one is earned.
LEMMA StepTodo ==
  ASSUME IInv, [Next]_vars
  PROVE  TodoOK'
<1>0. /\ todo \in [Clients -> Seq(Events)]
      /\ \A c \in Clients : \A i \in DOMAIN todo[c] :
           todo[c][i].what \in Effects /\ EarnedBy(ran, todo[c][i])
  <2>1. todo \in [Clients -> Seq(Events)]
    BY DEF IInv, Types, TypeOK
  <2>2. \A c \in Clients : \A i \in DOMAIN todo[c] : todo[c][i] \in Events
    BY <2>1, LenProperties
  <2> QED  BY <2>1, <2>2 DEF IInv, TodoOK, Events, Earned, EarnedBy
<1>1. ASSUME NEW c \in Clients, CommitPlan(c)  PROVE TodoOK'
  <2>1. \A e \in Effects : ran[e] # "none" => ran'[e] = ran[e]
    BY <1>1, PlanFacts
  <2>2. PICK list \in Seq(Events) :
          /\ todo' = [todo EXCEPT ![c] = list]
          /\ \A i \in DOMAIN list : ran[list[i].what] = "none" /\ EarnedBy(ran', list[i])
          /\ \A i, j \in DOMAIN list : list[i].what = list[j].what => i = j
    BY <1>1, PlanFacts
  <2>3. \A d \in Clients : todo'[d] = IF d = c THEN list ELSE todo[d]
    BY <1>0, <2>2
  <2>4. \A d \in Clients : \A i \in DOMAIN todo[d] :
          ran[todo[d][i].what] # "none" /\ EarnedBy(ran', todo[d][i])
    BY <1>0, <2>1 DEF EarnedBy
  <2>5. \A d \in Clients : \A i \in DOMAIN todo'[d] : EarnedBy(ran', todo'[d][i])
    BY <2>2, <2>3, <2>4
  <2>6. \A d, x \in Clients : \A i \in DOMAIN todo'[d], j \in DOMAIN todo'[x] :
          todo'[d][i].what = todo'[x][j].what => d = x /\ i = j
    BY <2>2, <2>3, <2>4 DEF IInv, TodoOK
  <2> QED  BY <2>5, <2>6 DEF TodoOK, Earned, EarnedBy
<1>2. ASSUME ran' = ran, todo' \in [Clients -> Seq(Events)],
             \A d \in Clients : \E k \in {0, 1} : \A j \in DOMAIN todo'[d] :
               j + k \in DOMAIN todo[d] /\ todo'[d][j] = todo[d][j + k]
      PROVE  TodoOK'
  <2>1. ASSUME NEW d \in Clients, NEW i \in DOMAIN todo'[d]
        PROVE  EarnedBy(ran', todo'[d][i])
    <3>1. PICK k \in {0, 1} : i + k \in DOMAIN todo[d] /\ todo'[d][i] = todo[d][i + k]
      BY <1>2
    <3>2. EarnedBy(ran, todo[d][i + k])
      BY <1>0, <3>1
    <3> QED  BY <1>2, <3>1, <3>2
  <2>2. ASSUME NEW d \in Clients, NEW x \in Clients,
               NEW i \in DOMAIN todo'[d], NEW j \in DOMAIN todo'[x],
               todo'[d][i].what = todo'[x][j].what
        PROVE  d = x /\ i = j
    <3>1. PICK k \in {0, 1} : \A n \in DOMAIN todo'[d] :
            n + k \in DOMAIN todo[d] /\ todo'[d][n] = todo[d][n + k]
      BY <1>2
    <3>2. PICK m \in {0, 1} : \A n \in DOMAIN todo'[x] :
            n + m \in DOMAIN todo[x] /\ todo'[x][n] = todo[x][n + m]
      BY <1>2
    <3>3. d = x
      BY <2>2, <3>1, <3>2 DEF IInv, TodoOK
    <3>4. i + k = j + k
      BY <2>2, <3>1, <3>3 DEF IInv, TodoOK
    <3>5. i \in Nat /\ j \in Nat
      BY <1>2, <3>3, LenProperties
    <3> QED  BY <3>3, <3>4, <3>5
  <2> QED  BY <2>1, <2>2 DEF TodoOK, Earned, EarnedBy
<1> QED  BY <1>1, <1>2, TodoMoves

\* At most one writer: the lock is taken only while nobody holds it.
LEMMA StepWriter ==
  ASSUME IInv, [Next]_vars
  PROVE  OneWriter'
<1>0. mode \in [Clients -> {"idle", "read", "stale", "write"}]
  BY DEF IInv, Types, TypeOK
<1>1. CASE \A d \in Clients : mode'[d] = "write" => mode[d] = "write"
  BY <1>1 DEF IInv, OneWriter
<1>2. ASSUME NEW c \in Clients, Upgrade(c) \/ SysBegin(c)  PROVE OneWriter'
  <2>1. \A d \in Clients : mode[d] # "write"
    BY <1>2 DEF Upgrade, MayUpgrade, SysBegin, Locked
  <2>2. mode' = [mode EXCEPT ![c] = "write"]
    BY <1>2 DEF Upgrade, SysBegin
  <2> QED  BY <1>0, <2>1, <2>2 DEF OneWriter
<1>3. ASSUME NEW c \in Clients, CommitAppend(c) \/ SysCommit(c)
      PROVE  \A d \in Clients : mode'[d] = "write" => mode[d] = "write"
  BY <1>0, <1>3 DEF CommitAppend, SysCommit, OutdateOthers
<1>4. ASSUME NEW c \in Clients, BeginAppend(c) \/ DropEvent(c) \/ Crash(c)
      PROVE  \A d \in Clients : mode'[d] = "write" => mode[d] = "write"
  BY <1>0, <1>4 DEF BeginAppend, DropEvent, Crash
<1>5. \/ \E c \in Clients : \/ Upgrade(c) \/ SysBegin(c)
                            \/ CommitAppend(c) \/ SysCommit(c)
                            \/ BeginAppend(c) \/ DropEvent(c) \/ Crash(c)
      \/ UNCHANGED mode
  BY DEF Next, vars, connVars, CommitPlan, SkipEmission, ReadHead, AppendSeal
<1> QED  BY <1>1, <1>2, <1>3, <1>4, <1>5

\* A statement under /sys is one write or two, and applies no delivery again.
LEMMA WriteFacts ==
  ASSUME NEW w \in Statements(rows, billed)
  PROVE  w \in Seq(Writes) /\ w # << >> /\ Fresh(w)
<1>1. ASSUME NEW x \in Writes, x.by = Absent \/ x.by \notin billed, w = << x >>
      PROVE  w \in Seq(Writes) /\ w # << >> /\ Fresh(w)
  <2>1. Len(w) = 1 /\ DOMAIN w = 1..1 /\ w[1] = x /\ w \in Seq(Writes) /\ w # << >>
    BY <1>1
  <2> QED  BY <1>1, <2>1 DEF Fresh
<1>2. ASSUME NEW x \in Writes, NEW y \in Writes, x.by = Absent, y.by = Absent, w = << x, y >>
      PROVE  w \in Seq(Writes) /\ w # << >> /\ Fresh(w)
  <2>1. Len(w) = 2 /\ DOMAIN w = 1..2 /\ w[1] = x /\ w[2] = y
        /\ w \in Seq(Writes) /\ w # << >>
    BY <1>2
  <2>2. \A i \in DOMAIN w : w[i].by = Absent
    BY <1>2, <2>1
  <2> QED  BY <2>1, <2>2 DEF Fresh
<1>3. ASSUME NEW verb \in {"INSERT", "UPSERT", "UPDATE"}, NEW S \in SUBSET Keys,
             NEW x \in Puts(verb, S)
      PROVE  x \in Writes /\ x.by = Absent
  <2>1. PICK k \in S : x \in {Put(verb, k, v) : v \in RowsOf[k]}
    BY <1>3 DEF Puts
  <2>2. k \in Keys
    BY <2>1
  <2>3. x \in Puts(verb, Keys)
    BY <2>1, <2>2 DEF Puts
  <2>4. x \in Writes
    BY <2>3 DEF Writes
  <2>5. PICK v \in RowsOf[k] : x = Put(verb, k, v)
    BY <2>1
  <2>6. x.by = Absent
    BY <2>5 DEF Put
  <2> QED  BY <2>4, <2>6
<1>4. \A x \in Removes : x \in Writes /\ x.by = Absent
  <2> SUFFICES ASSUME NEW x \in Removes  PROVE x \in Writes /\ x.by = Absent
    OBVIOUS
  <2>1. x \in Writes
    BY DEF Writes
  <2> QED  BY <2>1, RemoveFacts
<1>5. ASSUME NEW k \in Keys, NEW v \in RowsOf[k]  PROVE Put("INSERT", k, v) \in Puts("INSERT", Keys)
  BY <1>5 DEF Puts
<1>6. ASSUME NEW k \in Declared, NEW v \in RowsOf[k], w = Declare(rows, k, v)
      PROVE  w \in Seq(Writes) /\ w # << >> /\ Fresh(w)
  <2>1. Put("INSERT", k, v) \in Writes /\ Put("INSERT", k, v).by = Absent
    BY <1>3, <1>5 DEF Keys
  <2>2. Remove({k}, {k}) \in Writes
    BY DEF Writes
  <2>3. Remove({k}, {k}).by = Absent
    BY DEF Remove
  <2> QED  BY <1>1, <1>2, <1>6, <2>1, <2>2, <2>3 DEF Declare
<1>7. ASSUME NEW d \in Deliveries, d \notin billed  PROVE Bill(d) \in Writes /\ Bill(d).by \notin billed
  <2>1. Bill(d) \in Writes
    BY DEF Writes
  <2>2. Bill(d).by = d
    BY DEF Bill, Put
  <2> QED  BY <1>7, <2>1, <2>2
<1>8. ASSUME NEW x, w = << x >>,
             \/ x \in Puts("INSERT", Policies) \/ x \in Puts("UPDATE", Policies)
             \/ x \in Puts("UPSERT", Settings \cup Teams) \/ x \in Removes
             \/ \E d \in Deliveries : d \notin billed /\ x = Bill(d)
      PROVE  w \in Seq(Writes) /\ w # << >> /\ Fresh(w)
  <2>1. Policies \in SUBSET Keys /\ Settings \cup Teams \in SUBSET Keys
    BY DEF Keys
  <2>2. CASE \E d \in Deliveries : d \notin billed /\ x = Bill(d)
    BY <1>1, <1>7, <1>8, <2>2
  <2>3. CASE x \in Puts("INSERT", Policies) \/ x \in Puts("UPDATE", Policies)
    BY <1>1, <1>3, <1>8, <2>1, <2>3
  <2>4. CASE x \in Puts("UPSERT", Settings \cup Teams) \/ x \in Removes
    BY <1>1, <1>3, <1>4, <1>8, <2>1, <2>4
  <2> QED  BY <1>8, <2>2, <2>3, <2>4
<1>9. ASSUME NEW k \in Paths, w \in Binds(rows, k)
      PROVE  w \in Seq(Writes) /\ w # << >> /\ Fresh(w)
  <2>1. PICK v \in RowsOf[k] : w = << Put("INSERT", k, v) >>
    BY <1>9 DEF Binds
  <2>2. Put("INSERT", k, v) \in Writes /\ Put("INSERT", k, v).by = Absent
    BY <1>3, <1>5 DEF Keys
  <2> QED  BY <1>1, <2>1, <2>2
<1>10. \/ \E k \in Paths : w \in Binds(rows, k)
       \/ \E k \in Declared : w \in Declares(rows, k)
       \/ w \in Alone(Puts("INSERT", Policies) \cup Puts("UPDATE", Policies)
                      \cup Puts("UPSERT", Settings \cup Teams) \cup Removes
                      \cup {Bill(d) : d \in Undelivered(billed)})
  BY DEF Statements
<1>11. CASE \E k \in Declared : w \in Declares(rows, k)
  BY <1>6, <1>11 DEF Declares
<1>12. CASE w \in Alone(Puts("INSERT", Policies) \cup Puts("UPDATE", Policies)
                       \cup Puts("UPSERT", Settings \cup Teams) \cup Removes
                       \cup {Bill(d) : d \in Undelivered(billed)})
  <2>1. PICK x : /\ w = << x >>
                 /\ x \in Puts("INSERT", Policies) \cup Puts("UPDATE", Policies)
                          \cup Puts("UPSERT", Settings \cup Teams) \cup Removes
                          \cup {Bill(d) : d \in Undelivered(billed)}
    BY <1>12 DEF Alone
  <2> QED  BY <1>8, <2>1 DEF Undelivered
<1> QED  BY <1>9, <1>10, <1>11, <1>12

\* A commit makes every other open transaction one that can only fail, and
\* there is no other writer.
LEMMA CommitOutdates ==
  ASSUME IInv, NEW c \in Clients, CommitAppend(c) \/ SysCommit(c)
  PROVE  /\ mode[c] = "write" /\ mode'[c] = "idle" /\ write'[c] = << >>
         /\ \A d \in Clients \ {c} : /\ mode[d] # "write" /\ write[d] = << >>
                                     /\ mode'[d] = IF mode[d] = "read" THEN "stale"
                                                   ELSE mode[d]
                                     /\ write'[d] = << >> /\ todo'[d] = todo[d]
<1>0. /\ mode \in [Clients -> {"idle", "read", "stale", "write"}]
      /\ write \in [Clients -> Seq(Writes)] /\ todo \in [Clients -> Seq(Events)]
  BY DEF IInv, Types, TypeOK
<1>1. mode[c] = "write" /\ OutdateOthers(c)
  BY DEF CommitAppend, SysCommit
<1>2. \A d \in Clients \ {c} : mode[d] # "write" /\ write[d] = << >>
  BY <1>1 DEF IInv, OneWriter, ConnOK
<1>3. \A d \in Clients : mode'[d] = CASE d = c -> "idle"
                                      [] d # c /\ mode[d] = "read" -> "stale"
                                      [] OTHER -> mode[d]
  BY <1>1 DEF OutdateOthers
<1>4. \A d \in Clients \ {c} : mode'[d] = IF mode[d] = "read" THEN "stale" ELSE mode[d]
  BY <1>3
<1>5. mode'[c] = "idle"
  BY <1>3
<1>6. write'[c] = << >> /\ \A d \in Clients \ {c} : write'[d] = write[d] /\ todo'[d] = todo[d]
  BY <1>0 DEF CommitAppend, SysCommit
<1> QED  BY <1>1, <1>2, <1>4, <1>5, <1>6

\* What holds of an open transaction goes on holding.
LEMMA StepConn ==
  ASSUME IInv, [Next]_vars
  PROVE  ConnOK'
<1>0. /\ mode \in [Clients -> {"idle", "read", "stale", "write"}]
      /\ write \in [Clients -> Seq(Writes)] /\ todo \in [Clients -> Seq(Events)]
      /\ seen \in [Clients -> Heads]
  BY DEF IInv, Types, TypeOK
<1> USE <1>0 DEF ConnOK
<1>1. CASE UNCHANGED <<head, mode, seen, write, todo, billed>>
  BY <1>1 DEF IInv, Fresh
<1>2. ASSUME NEW c \in Clients, CommitPlan(c)  PROVE ConnOK'
  BY <1>2 DEF IInv, Fresh, CommitPlan, chainVars, tableVars, connVars
<1>3. ASSUME NEW c \in Clients, SkipEmission(c)  PROVE ConnOK'
  BY <1>3 DEF IInv, Fresh, SkipEmission, chainVars, tableVars, connVars
<1>4. ASSUME NEW c \in Clients, BeginAppend(c)  PROVE ConnOK'
  BY <1>4 DEF IInv, Fresh, BeginAppend, chainVars, tableVars
<1>5. ASSUME NEW c \in Clients, Upgrade(c)  PROVE ConnOK'
  BY <1>5 DEF IInv, Fresh, Upgrade, MayUpgrade, chainVars, tableVars
<1>6. ASSUME NEW c \in Clients, DropEvent(c)  PROVE ConnOK'
  BY <1>6 DEF IInv, Fresh, DropEvent, EndSnapshot, chainVars, tableVars
<1>7. ASSUME NEW c \in Clients, Crash(c)  PROVE ConnOK'
  BY <1>7 DEF IInv, Fresh, Crash, EndSnapshot, chainVars, tableVars
<1>8. ASSUME NEW c \in Clients, SysBegin(c)  PROVE ConnOK'
  <2>1. PICK w \in Statements(rows, billed) : write' = [write EXCEPT ![c] = w]
    BY <1>8 DEF SysBegin
  <2>2. w # << >> /\ Fresh(w)
    BY WriteFacts
  <2>3. /\ mode' = [mode EXCEPT ![c] = "write"] /\ seen' = [seen EXCEPT ![c] = head]
        /\ head' = head /\ billed' = billed /\ todo' = todo
    BY <1>8 DEF SysBegin, chainVars, tableVars
  <2>4. \A d \in Clients : write'[d] # << >> => Fresh(write'[d])
    BY <2>1, <2>2 DEF IInv
  <2>5. \A d \in Clients : write'[d] # << >> => Fresh(write[d])'
    BY <2>3, <2>4 DEF Fresh
  <2>6. /\ mode'[c] = "write" /\ seen'[c] = head /\ write'[c] = w
        /\ \A d \in Clients \ {c} : /\ mode'[d] = mode[d] /\ seen'[d] = seen[d]
                                    /\ write'[d] = write[d]
    BY <2>1, <2>3
  <2>7. ASSUME NEW d \in Clients
        PROVE  /\ mode'[d] \in {"read", "write"} => seen'[d] = head'
               /\ mode'[d] # "write" => write'[d] = << >>
               /\ mode'[d] \in {"read", "stale"} => todo'[d] # << >>
               /\ mode'[d] = "write" /\ write'[d] = << >> => todo'[d] # << >>
    BY <2>2, <2>3, <2>6 DEF IInv
  <2> QED  BY <2>5, <2>7
<1>9. ASSUME NEW c \in Clients, CommitAppend(c) \/ SysCommit(c)  PROVE ConnOK'
  BY <1>9, CommitOutdates DEF IInv
<1>10. \/ UNCHANGED <<head, mode, seen, write, todo, billed>>
       \/ \E c \in Clients : \/ CommitPlan(c) \/ SkipEmission(c) \/ BeginAppend(c)
                             \/ Upgrade(c) \/ DropEvent(c) \/ Crash(c) \/ SysBegin(c)
                             \/ (CommitAppend(c) \/ SysCommit(c))
  BY DEF Next, vars, chainVars, tableVars, connVars, ReadHead, AppendSeal
<1> QED  BY <1>1, <1>2, <1>3, <1>4, <1>5, <1>6, <1>7, <1>8, <1>9, <1>10

\* No entry of a fresh write is marked as applied or in the log, so the log
\* names each delivery once.
LEMMA SysCommitDeliveries ==
  ASSUME IInv, NEW c \in Clients, SysCommit(c)
  PROVE  /\ Billed'
         /\ \A i, j \in DOMAIN ddl' : ddl'[i].by = ddl'[j].by /\ ddl'[i].by # Absent => i = j
<1> DEFINE w  == write[c]
           es == [i \in DOMAIN w |-> Logged(w[i])]
<1>1. w \in Seq(Writes) /\ Fresh(w) /\ ddl \in Seq(Entries)
  BY SysCommitFacts DEF IInv, Types
<1>2. ddl' = ddl \o es /\ billed' = billed \cup ({w[i].by : i \in DOMAIN w} \ {Absent})
  BY DEF SysCommit
<1> HIDE DEF w
<1>3. /\ Len(ddl) \in Nat /\ Len(w) \in Nat
      /\ DOMAIN ddl = 1..Len(ddl) /\ DOMAIN w = 1..Len(w)
      /\ \A i \in DOMAIN w : w[i] \in Writes
  BY <1>1, LenProperties
<1>4. /\ es \in Seq(Entries) /\ Len(es) = Len(w)
      /\ \A i \in DOMAIN w : es[i].by = w[i].by
  <2>1. \A i \in DOMAIN w : Logged(w[i]) \in Entries /\ Logged(w[i]).by = w[i].by
    BY <1>3, LoggedIs
  <2>2. es \in [1..Len(w) -> Entries]
    BY <1>3, <2>1
  <2> QED  BY <1>3, <2>1, <2>2
<1> HIDE DEF es
<1>10. /\ DOMAIN ddl' = 1..(Len(ddl) + Len(w))
       /\ \A i \in DOMAIN ddl' : ddl'[i] = IF i <= Len(ddl) THEN ddl[i] ELSE es[i - Len(ddl)]
  <2>1. /\ DOMAIN (ddl \o es) = 1..(Len(ddl) + Len(es))
        /\ \A i \in DOMAIN (ddl \o es) : (ddl \o es)[i] = IF i <= Len(ddl) THEN ddl[i]
                                                             ELSE es[i - Len(ddl)]
    BY <1>1, <1>4, ConcatElements
  <2> QED  BY <1>2, <1>4, <2>1
<1>5. ASSUME NEW i \in DOMAIN ddl'
      PROVE  \/ i \in DOMAIN ddl /\ ddl'[i] = ddl[i]
             \/ i - Len(ddl) \in DOMAIN w /\ ddl'[i].by = w[i - Len(ddl)].by
  BY <1>3, <1>4, <1>10
<1>6. \A i \in DOMAIN ddl : ddl[i].by # Absent => ddl[i].by \in billed
  BY DEF IInv, Billed
<1>7. \A i \in DOMAIN w : w[i].by # Absent => w[i].by \notin billed
  BY <1>1 DEF Fresh
<1>8. Billed'
  <2> SUFFICES ASSUME NEW i \in DOMAIN ddl', ddl'[i].by # Absent
               PROVE  ddl'[i].by \in billed'
    BY DEF Billed
  <2>1. CASE i \in DOMAIN ddl /\ ddl'[i] = ddl[i]
    BY <2>1, <1>2, <1>6
  <2>2. CASE i - Len(ddl) \in DOMAIN w /\ ddl'[i].by = w[i - Len(ddl)].by
    BY <2>2, <1>2
  <2> QED  BY <2>1, <2>2, <1>5
<1>9. ASSUME NEW i \in DOMAIN ddl', NEW j \in DOMAIN ddl',
             ddl'[i].by = ddl'[j].by, ddl'[i].by # Absent
      PROVE  i = j
  <2>1. CASE i \in DOMAIN ddl /\ ddl'[i] = ddl[i] /\ j \in DOMAIN ddl /\ ddl'[j] = ddl[j]
    BY <2>1, <1>9 DEF IInv, LedgersAgree
  <2>2. CASE /\ i - Len(ddl) \in DOMAIN w /\ ddl'[i].by = w[i - Len(ddl)].by
             /\ j - Len(ddl) \in DOMAIN w /\ ddl'[j].by = w[j - Len(ddl)].by
    <3>1. i - Len(ddl) = j - Len(ddl)
      BY <2>2, <1>1, <1>9 DEF Fresh
    <3> QED  BY <3>1, <1>3, <1>10
  <2>3. CASE /\ i \in DOMAIN ddl /\ ddl'[i] = ddl[i]
             /\ j - Len(ddl) \in DOMAIN w /\ ddl'[j].by = w[j - Len(ddl)].by
    BY <2>3, <1>6, <1>7, <1>9
  <2>4. CASE /\ j \in DOMAIN ddl /\ ddl'[j] = ddl[j]
             /\ i - Len(ddl) \in DOMAIN w /\ ddl'[i].by = w[i - Len(ddl)].by
    BY <2>4, <1>6, <1>7, <1>9
  <2> QED  BY <2>1, <2>2, <2>3, <2>4, <1>5
<1> QED  BY <1>8, <1>9

\* The log's deliveries stay marked.
LEMMA StepBilled ==
  ASSUME IInv, [Next]_vars
  PROVE  Billed'
<1>1. CASE UNCHANGED <<ddl, billed>>
  BY <1>1 DEF IInv, Billed
<1>2. ASSUME NEW c \in Clients, SysCommit(c)  PROVE Billed'
  BY <1>2, SysCommitDeliveries
<1>3. ASSUME NEW c \in Clients, CommitAppend(c)  PROVE UNCHANGED <<ddl, billed>>
  BY <1>3 DEF CommitAppend, tableVars
<1> QED  BY <1>1, <1>2, <1>3, OnlyCommitsWrite

\* The log rebuilds the tables and the stream shows the log.
LEMMA StepLedgers ==
  ASSUME IInv, [Next]_vars
  PROVE  LogOK' /\ LedgersAgree'
<1>1. CASE UNCHANGED <<head, tail, ddl, rows, untold, billed>>
  <2>1. History' = History /\ ddl' = ddl /\ rows' = rows /\ untold' = untold
    BY <1>1 DEF History
  <2> QED  BY <2>1 DEF IInv, LedgersAgree, LogOK
<1>2. ASSUME NEW c \in Clients, CommitAppend(c)  PROVE LogOK' /\ LedgersAgree'
  <2>1. ddl' = ddl /\ rows' = rows /\ untold' = untold
    BY <1>2 DEF CommitAppend, tableVars
  <2>2. PICK e \in Events : History' = Append(History, e)
    BY <1>2, CommitAppendFacts
  <2>3. /\ History \in Seq(Contents) /\ ddl \in Seq(Entries) /\ ShowsInOrder(History, ddl)
    BY StoryNow DEF Story
  <2>4. ShowsInOrder(Append(History, e), ddl)
    BY <2>3, EffectLeavesTheLog
  <2>5. ShowsInOrder(History', ddl')
    BY <2>1, <2>2, <2>4
  <2> QED  BY <2>1, <2>5 DEF IInv, LedgersAgree, LogOK
<1>3. ASSUME NEW c \in Clients, SysCommit(c)  PROVE LogOK' /\ LedgersAgree'
  <2>1. ShowsInOrder(History', ddl') /\ Replays(ddl', rows', untold')
    BY <1>3, SysCommitFacts DEF Story
  <2>2. \A i, j \in DOMAIN ddl' : ddl'[i].by = ddl'[j].by /\ ddl'[i].by # Absent => i = j
    BY <1>3, SysCommitDeliveries
  <2>3. \A k \in Keys \ untold' : Replay(ddl')[k] = Shown(rows')[k]
    BY <2>1, ReplayAgrees DEF Agree
  <2> QED  BY <2>1, <2>2, <2>3 DEF LedgersAgree, LogOK
<1> QED  BY <1>1, <1>2, <1>3, OnlyCommitsWrite

\* Where a history shows an effect.
EventsIn(h) == {i \in DOMAIN h : h[i] \in Events}

\* A /sys write at the end of a history shows no effect, an effect shows one more.
LEMMA EventsInFacts ==
  ASSUME NEW h \in Seq(Contents), NEW c \in Contents
  PROVE  /\ \A i \in EventsIn(h) : i \in EventsIn(Append(h, c)) /\ Append(h, c)[i] = h[i]
         /\ c \notin Events => EventsIn(Append(h, c)) = EventsIn(h)
         /\ c \in Events => /\ EventsIn(Append(h, c)) = EventsIn(h) \cup {Len(h) + 1}
                             /\ Append(h, c)[Len(h) + 1] = c
<1> DEFINE g == Append(h, c)
<1>1. /\ Len(h) \in Nat /\ Len(g) = Len(h) + 1 /\ g \in Seq(Contents)
      /\ \A i \in 1..Len(h) : g[i] = h[i]
      /\ g[Len(h) + 1] = c
  BY AppendFacts
<1>2. DOMAIN h = 1..Len(h) /\ DOMAIN g = 1..(Len(h) + 1)
  BY <1>1, LenProperties
<1> HIDE DEF g
<1>3. EventsIn(g) = EventsIn(h) \cup {i \in {Len(h) + 1} : c \in Events}
  BY <1>1, <1>2 DEF EventsIn
<1> QED  BY <1>1, <1>2, <1>3 DEF EventsIn, g

\* A write of the tables' own shows nothing on the stream.
LEMMA HiddenFacts ==
  ASSUME NEW h \in Seq(Contents), NEW c \in Contents \ Events
  PROVE  /\ EventsIn(Append(h, c)) = EventsIn(h)
         /\ \A i \in EventsIn(h) : Append(h, c)[i] = h[i]
<1>1. PICK d \in Contents : d = c /\ d \notin Events
  OBVIOUS
<1> DEFINE g == Append(h, d)
<1>2. /\ \A i \in EventsIn(h) : i \in EventsIn(g) /\ g[i] = h[i]
      /\ d \notin Events => EventsIn(g) = EventsIn(h)
      /\ d \in Events => EventsIn(g) = EventsIn(h) \cup {Len(h) + 1} /\ g[Len(h) + 1] = d
  BY EventsInFacts, Zenon
<1> HIDE DEF g
<1>3. EventsIn(g) = EventsIn(h) /\ \A i \in EventsIn(h) : g[i] = h[i]
  BY <1>1, <1>2
<1> QED  BY <1>1, <1>3, Zenon DEF g

\* The stream goes on showing what was earned, each effect once.
LEMMA StepEvents ==
  ASSUME IInv, [Next]_vars
  PROVE  EventsAreEarned'
<1>0. /\ todo \in [Clients -> Seq(Events)] /\ History \in Seq(Contents)
      /\ OnChain = EventsIn(History) /\ OnChain' = EventsIn(History')
  BY HistoryGrows DEF IInv, Types, TypeOK, OnChain, EventsIn
<1>1. /\ \A i \in EventsIn(History) : EarnedBy(ran, History[i]) /\ History[i].what \in Effects
      /\ \A i, j \in EventsIn(History) : History[i].what = History[j].what => i = j
      /\ \A c \in Clients : \A i \in EventsIn(History), j \in DOMAIN todo[c] :
           History[i].what # todo[c][j].what
  BY <1>0 DEF IInv, EventsAreEarned, Earned, EarnedBy, EventsIn, Events
<1>2. CASE \E c \in Clients : CommitPlan(c)
  <2>1. PICK c \in Clients : CommitPlan(c)
    BY <1>2
  <2>2. PICK list \in Seq(Events) :
          /\ todo' = [todo EXCEPT ![c] = list]
          /\ \A i \in DOMAIN list : ran[list[i].what] = "none"
    <3>1. PICK l \in Seq(Events) :
            /\ todo' = [todo EXCEPT ![c] = l]
            /\ \A i \in DOMAIN l : ran[l[i].what] = "none" /\ EarnedBy(ran', l[i])
      BY <2>1, PlanFacts
    <3> QED  BY <3>1
  <2>3. \A e \in Effects : ran[e] # "none" => ran'[e] = ran[e]
    BY <2>1, PlanFacts
  <2>4. History' = History
    BY <2>1 DEF CommitPlan, chainVars, History
  <2>5. \A d \in Clients : todo'[d] = IF d = c THEN list ELSE todo[d]
    BY <1>0, <2>2
  <2>6. \A i \in EventsIn(History) : ran[History[i].what] # "none" /\ EarnedBy(ran', History[i])
    BY <1>1, <2>3 DEF EarnedBy
  <2>7. \A d \in Clients : \A i \in EventsIn(History), j \in DOMAIN todo'[d] :
          History[i].what # todo'[d][j].what
    BY <1>1, <2>2, <2>5, <2>6
  <2> QED  BY <1>0, <1>1, <2>4, <2>6, <2>7 DEF EventsAreEarned, Earned, EarnedBy
<1>3. CASE /\ ran' = ran /\ EventsIn(History') = EventsIn(History)
           /\ \A i \in EventsIn(History) : History'[i] = History[i]
           /\ \A d \in Clients : \E k \in {0, 1} : \A j \in DOMAIN todo'[d] :
                j + k \in DOMAIN todo[d] /\ todo'[d][j] = todo[d][j + k]
  <2>1. \A i \in EventsIn(History') : EarnedBy(ran', History'[i])
    BY <1>1, <1>3
  <2>2. \A i, j \in EventsIn(History') : History'[i].what = History'[j].what => i = j
    BY <1>1, <1>3
  <2>3. \A c \in Clients : \A i \in EventsIn(History'), j \in DOMAIN todo'[c] :
          History'[i].what # todo'[c][j].what
    BY <1>1, <1>3
  <2> QED  BY <1>0, <2>1, <2>2, <2>3 DEF EventsAreEarned, Earned, EarnedBy
<1>4. ASSUME NEW c \in Clients, CommitAppend(c)  PROVE EventsAreEarned'
  <2> DEFINE e == Head(todo[c])
             n == Len(History) + 1
  <2>1. todo[c] # << >> /\ e \in Events /\ e \in Contents /\ History' = Append(History, e)
    BY <1>4, CommitAppendFacts DEF Contents
  <2>2. /\ \A i \in EventsIn(History) : History'[i] = History[i]
        /\ EventsIn(History') = EventsIn(History) \cup {n} /\ History'[n] = e
    BY <1>0, <2>1, EventsInFacts
  <2>3. /\ todo[c] \in Seq(Events) /\ Len(todo[c]) \in Nat \ {0}
        /\ DOMAIN todo[c] = 1..Len(todo[c]) /\ e = todo[c][1]
        /\ 1 \in DOMAIN todo[c]
    BY <1>0, <2>1, EmptySeq, LenProperties
  <2>4. ran' = ran /\ todo' = [todo EXCEPT ![c] = Tail(@)]
    BY <1>4 DEF CommitAppend, Rest
  <2>5. /\ Len(Tail(todo[c])) = Len(todo[c]) - 1 /\ Tail(todo[c]) \in Seq(Events)
        /\ \A i \in 1..Len(Tail(todo[c])) : Tail(todo[c])[i] = todo[c][i + 1]
    BY <2>1, <2>3, HeadTailProperties
  <2>6. ASSUME NEW j \in DOMAIN todo'[c]
        PROVE  j \in Nat \ {0} /\ j + 1 \in DOMAIN todo[c] /\ todo'[c][j] = todo[c][j + 1]
    <3>1. todo'[c] = Tail(todo[c]) /\ DOMAIN Tail(todo[c]) = 1..Len(Tail(todo[c]))
      BY <1>0, <2>4, <2>5, LenProperties
    <3> QED  BY <3>1, <2>3, <2>5
  <2>7. EarnedBy(ran, e) /\ \A i \in EventsIn(History) : History[i].what # e.what
    BY <1>1, <2>3 DEF IInv, TodoOK, Earned, EarnedBy
  <2>8. \A d \in Clients : \A j \in DOMAIN todo'[d] :
          /\ e.what # todo'[d][j].what
          /\ \A i \in EventsIn(History) : History[i].what # todo'[d][j].what
    <3> SUFFICES ASSUME NEW d \in Clients, NEW j \in DOMAIN todo'[d]
                 PROVE  /\ e.what # todo'[d][j].what
                        /\ \A i \in EventsIn(History) : History[i].what # todo'[d][j].what
      OBVIOUS
    <3>1. CASE d = c
      <4>1. j \in Nat \ {0} /\ j + 1 \in DOMAIN todo[c] /\ todo'[c][j] = todo[c][j + 1]
        BY <2>6, <3>1
      <4>2. j + 1 # 1
        BY <4>1
      <4> QED  BY <1>1, <2>3, <3>1, <4>1, <4>2 DEF IInv, TodoOK
    <3>2. CASE d # c
      <4>1. todo'[d] = todo[d]
        BY <1>0, <2>4, <3>2
      <4> QED  BY <1>1, <2>3, <3>2, <4>1 DEF IInv, TodoOK
    <3> QED  BY <3>1, <3>2
  <2> HIDE DEF e, n
  <2>9. \A i \in EventsIn(History') : EarnedBy(ran', History'[i])
    BY <1>1, <2>2, <2>4, <2>7
  <2>10. \A i, j \in EventsIn(History') : History'[i].what = History'[j].what => i = j
    BY <1>1, <2>2, <2>7
  <2>11. \A d \in Clients : \A i \in EventsIn(History'), j \in DOMAIN todo'[d] :
           History'[i].what # todo'[d][j].what
    BY <2>2, <2>8
  <2> QED  BY <1>0, <2>9, <2>10, <2>11 DEF EventsAreEarned, Earned, EarnedBy
<1>5. ASSUME NEW c \in Clients, SysCommit(c)
      PROVE  /\ EventsIn(History') = EventsIn(History)
             /\ \A i \in EventsIn(History) : History'[i] = History[i]
  <2>1. PICK e \in Contents \ Events :
          \/ History' = Append(History, e)
          \/ \E f \in Contents \ Events : History' = Append(Append(History, e), f)
    BY <1>5, SysCommitShows
  <2>2. Append(History, e) \in Seq(Contents)
    BY <1>0, AppendProperties
  <2>3. /\ EventsIn(Append(History, e)) = EventsIn(History)
        /\ \A i \in EventsIn(History) : Append(History, e)[i] = History[i]
    BY <1>0, HiddenFacts
  <2>4. ASSUME NEW f \in Contents \ Events, History' = Append(Append(History, e), f)
        PROVE  /\ EventsIn(History') = EventsIn(History)
               /\ \A i \in EventsIn(History) : History'[i] = History[i]
    <3>1. /\ EventsIn(History') = EventsIn(Append(History, e))
          /\ \A i \in EventsIn(Append(History, e)) : History'[i] = Append(History, e)[i]
      BY <2>2, <2>4, HiddenFacts
    <3> QED  BY <2>3, <3>1
  <2> QED  BY <2>1, <2>3, <2>4
<1>6. CASE UNCHANGED <<head, tail, ddl, rows, untold, billed>>
  <2>1. History' = History
    BY <1>6 DEF History
  <2> QED  BY <2>1, <1>2, <1>3, TodoMoves
<1>7. ASSUME NEW c \in Clients, SysCommit(c)  PROVE EventsAreEarned'
  <2>1. ran' = ran /\ todo' = todo
    BY <1>7 DEF SysCommit
  <2>2. \A d \in Clients : \E k \in {0, 1} : \A j \in DOMAIN todo'[d] :
          j + k \in DOMAIN todo[d] /\ todo'[d][j] = todo[d][j + k]
    <3>1. \A d \in Clients : \A j \in DOMAIN todo[d] : j + 0 = j
      BY <1>0, LenProperties
    <3> QED  BY <2>1, <3>1
  <2> QED  BY <1>3, <1>5, <1>7, <2>1, <2>2
<1> QED  BY <1>4, <1>6, <1>7, OnlyCommitsWrite

\* Types.
LEMMA StepTypes ==
  ASSUME IInv, [Next]_vars
  PROVE  Types'
<1>0. /\ head \in Heads /\ rows \in Tables /\ untold \subseteq Declared
      /\ billed \subseteq Deliveries
      /\ mode \in [Clients -> {"idle", "read", "stale", "write"}]
      /\ seen \in [Clients -> Heads]
      /\ todo \in [Clients -> Seq(Events)] /\ ran \in [Effects -> Statuses \cup {"none"}]
      /\ sealing \in [Sealers -> Heads] /\ witness \subseteq Heads
      /\ ddl \in Seq(Entries) /\ write \in [Clients -> Seq(Writes)]
  BY DEF IInv, Types, TypeOK
<1>1. head' \in Heads
  <2>1. History' \in Seq(Contents) /\ IsHeadOf(head', History')
    BY StepChain DEF ChainOK, Tells
  <2>2. CASE History' = << >>
    <3>1. NoHead \in Heads
      BY DEF NoHead, Heads, Genesis
    <3>2. head' = NoHead
      BY <2>1, <2>2 DEF IsHeadOf
    <3> QED  BY <3>1, <3>2
  <2>3. CASE History' # << >>
    <3> DEFINE h == History'
               n == Len(h)
    <3>1. n \in Nat \ {0} /\ n \in 1..n
      BY <2>1, <2>3, EmptySeq
    <3>2. h[n] \in Contents /\ \A i \in 1..(n - 1) : h[i] \in Contents
      BY <2>1, <3>1, ElementOfSeq
    <3>3. SubSeq(h, 1, n - 1) \in Seq(Contents)
      BY <3>1, <3>2, SubSeqProperties
    <3>4. head' = [seq |-> n, content |-> h[n], prev |-> SubSeq(h, 1, n - 1)]
      BY <2>1, <2>3 DEF IsHeadOf, HeadOf, Row
    <3> HIDE DEF h, n
    <3> QED  BY <3>1, <3>2, <3>3, <3>4 DEF Heads
  <2> QED  BY <2>2, <2>3
<1>2. /\ rows' \in Tables /\ untold' \subseteq Declared
      /\ ddl' \in Seq(Entries) /\ billed' \subseteq Deliveries
  <2>1. CASE UNCHANGED <<head, tail, ddl, rows, untold, billed>>
    BY <1>0, <2>1
  <2>2. ASSUME NEW c \in Clients, CommitAppend(c)  PROVE UNCHANGED <<ddl, rows, untold, billed>>
    BY <2>2 DEF CommitAppend, tableVars
  <2>3. ASSUME NEW c \in Clients, SysCommit(c)
        PROVE  /\ rows' \in Tables /\ untold' \subseteq Declared
               /\ ddl' \in Seq(Entries) /\ billed' \subseteq Deliveries
    <3>1. write[c] \in Seq(Writes) /\ Story(History', ddl', rows', untold')
      BY <2>3, SysCommitFacts
    <3>2. \A i \in DOMAIN write[c] : write[c][i].by \in Deliveries \cup {Absent}
      <4>1. \A i \in DOMAIN write[c] : write[c][i] \in Writes
        BY <3>1, LenProperties
      <4> QED  BY <4>1, WriteFields
    <3>3. billed' = billed \cup ({write[c][i].by : i \in DOMAIN write[c]} \ {Absent})
      BY <2>3 DEF SysCommit
    <3> QED  BY <1>0, <3>1, <3>2, <3>3 DEF Story
  <2> QED  BY <1>0, <2>1, <2>2, <2>3, OnlyCommitsWrite
<1>3. mode' \in [Clients -> {"idle", "read", "stale", "write"}]
  <2>1. ASSUME NEW c \in Clients, OutdateOthers(c)
        PROVE  mode' \in [Clients -> {"idle", "read", "stale", "write"}]
    BY <1>0, <2>1 DEF OutdateOthers
  <2>2. \/ \E c \in Clients : \/ OutdateOthers(c)
                              \/ \E m \in {"idle", "read", "write"} :
                                   mode' = [mode EXCEPT ![c] = m]
        \/ UNCHANGED mode
    BY DEF Next, vars, connVars, CommitPlan, SkipEmission, BeginAppend, Upgrade, DropEvent,
           CommitAppend, SysBegin, SysCommit, Crash, ReadHead, AppendSeal
  <2> QED  BY <1>0, <2>1, <2>2
<1>4. seen' \in [Clients -> Heads]
  <2>1. NoHead \in Heads
    BY DEF NoHead, Heads, Genesis
  <2>2. \/ \E c \in Clients : \/ seen' = [seen EXCEPT ![c] = NoHead]
                              \/ seen' = [seen EXCEPT ![c] = head]
        \/ UNCHANGED seen
    BY DEF Next, vars, connVars, EndSnapshot, CommitPlan, SkipEmission, BeginAppend, Upgrade,
           DropEvent, CommitAppend, SysBegin, SysCommit, Crash, ReadHead, AppendSeal
  <2> QED  BY <1>0, <2>1, <2>2
<1>5. todo' \in [Clients -> Seq(Events)] /\ ran' \in [Effects -> Statuses \cup {"none"}]
  <2>1. ASSUME NEW c \in Clients, CommitPlan(c)
        PROVE  todo' \in [Clients -> Seq(Events)] /\ ran' \in [Effects -> Statuses \cup {"none"}]
    <3>1. PICK list \in Seq(Events) : todo' = [todo EXCEPT ![c] = list]
      BY <2>1, PlanFacts
    <3>2. ran' \in [Effects -> Statuses \cup {"none"}]
      BY <2>1, PlanFacts
    <3> QED  BY <1>0, <3>1, <3>2
  <2> QED  BY <1>0, <2>1, TodoMoves
<1>6. write' \in [Clients -> Seq(Writes)]
  <2>1. ASSUME NEW c \in Clients, SysBegin(c)  PROVE write' \in [Clients -> Seq(Writes)]
    BY <1>0, <2>1, WriteFacts DEF SysBegin
  <2>2. \/ \E c \in Clients : SysBegin(c) \/ write' = [write EXCEPT ![c] = << >>]
        \/ UNCHANGED write
    BY DEF Next, vars, connVars, CommitPlan, SkipEmission, BeginAppend, Upgrade, DropEvent,
           CommitAppend, SysCommit, Crash, ReadHead, AppendSeal
  <2>3. << >> \in Seq(Writes)
    OBVIOUS
  <2> QED  BY <1>0, <2>1, <2>2, <2>3
<1>7. sealing' \in [Sealers -> Heads] /\ witness' \subseteq Heads
  <2>1. NoHead \in Heads
    BY DEF NoHead, Heads, Genesis
  <2>2. \/ \E x \in Sealers : ReadHead(x) \/ AppendSeal(x)
        \/ UNCHANGED <<sealing, witness>>
    BY DEF Next, vars, sealVars, CommitPlan, SkipEmission, BeginAppend, Upgrade, DropEvent,
           CommitAppend, SysBegin, SysCommit, Crash
  <2> QED  BY <1>0, <2>1, <2>2 DEF ReadHead, AppendSeal
<1> QED  BY <1>1, <1>2, <1>3, <1>4, <1>5, <1>6, <1>7 DEF Types, TypeOK

LEMMA Invariance == Spec => []IInv
<1>1. IInv /\ [Next]_vars => IInv'
  BY StepTypes, StepChain, StepSeals, StepWriter, StepConn, StepBilled, StepTodo,
     StepLedgers, StepEvents DEF IInv
<1> QED  BY InitIInv, <1>1, PTL DEF Spec

-----------------------------------------------------------------------------
(* The theorems. *)

\* Type correctness.
THEOREM TypeCorrect == Spec => []TypeOK
<1>1. IInv => TypeOK
  BY DEF IInv, Types
<1> QED  BY Invariance, <1>1, PTL

\* The durable head and the live tail never disagree: the tail is the newest
\* rows up to its cap, without a gap, it recomputes and ends in the head.
THEOREM HeadAndTailAgree == Spec => []TailVerifies
<1>1. IInv => TailVerifies
  <2> SUFFICES ASSUME IInv  PROVE TailVerifies
    OBVIOUS
  <2> DEFINE h == History
  <2>1. h \in Seq(Contents) /\ IsHeadOf(head, h) /\ IsTailOf(tail, h)
    BY DEF IInv, ChainOK, Tells
  <2>2. head.seq = Len(h) /\ Len(h) \in Nat /\ (head = NoHead <=> h = << >>)
    BY <2>1, HeadCommits, LenProperties
  <2> HIDE DEF h
  <2>3. Live(h) = Oldest..head.seq
    BY <2>2, AuditConstants DEF Live, Oldest
  <2>4. DOMAIN tail = Oldest..head.seq /\ \A n \in DOMAIN tail : tail[n] = Row(h, n)
    BY <2>1, <2>3 DEF IsTailOf
  <2>5. \A n \in DOMAIN tail : tail[n].seq = n
    BY <2>4, RowFields
  <2>6. ASSUME head # NoHead
        PROVE  Divergences(tail, tail[Oldest].prev) = {} /\ HeadOf(tail[head.seq]) = head
    <3>1. Oldest \in 1..Len(h) /\ Len(h) \in Oldest..head.seq
      <4>1. Len(h) \in Nat \ {0}
        BY <2>1, <2>2, <2>6, EmptySeq
      <4> QED  BY <2>2, <4>1, AuditConstants DEF Oldest
    <3>2. ASSUME NEW n \in DOMAIN tail
          PROVE  /\ tail[n].hash = Link(tail[n].content, tail[n].prev)
                 /\ tail[n].prev = IF n - 1 \in DOMAIN tail THEN tail[n - 1].hash
                                   ELSE tail[Oldest].prev
      <4>1. n \in 1..Len(h) /\ Oldest <= n /\ n \in Int /\ tail[n] = Row(h, n)
        BY <2>2, <2>4, <3>1, <3>2
      <4>2. SubSeq(h, 1, n) = Append(SubSeq(h, 1, n - 1), h[n])
        BY <2>1, <4>1, PrefixStep
      <4>3. /\ tail[n].content = h[n] /\ tail[n].prev = SubSeq(h, 1, n - 1)
            /\ tail[n].hash = SubSeq(h, 1, n)
        BY <4>1, RowFields
      <4>4. tail[n].hash = Link(tail[n].content, tail[n].prev)
        BY <4>2, <4>3 DEF Link
      <4>5. CASE n = Oldest
        <5>1. n - 1 \notin DOMAIN tail
          BY <2>2, <2>4, <3>1, <4>1, <4>5
        <5> QED  BY <4>4, <4>5, <5>1
      <4>6. CASE n # Oldest
        <5>1. n - 1 \in DOMAIN tail
          BY <2>2, <2>4, <3>1, <4>1, <4>6
        <5>2. tail[n - 1].hash = SubSeq(h, 1, n - 1)
          BY <2>4, <5>1, RowFields
        <5> QED  BY <4>3, <4>4, <5>1, <5>2
      <4> QED  BY <4>5, <4>6
    <3>3. Divergences(tail, tail[Oldest].prev) = {}
      BY <3>2 DEF Divergences
    <3>4. head = HeadOf(Row(h, Len(h)))
      BY <2>1, <2>2, <2>6 DEF IsHeadOf
    <3> QED  BY <2>2, <2>4, <3>1, <3>3, <3>4
  <2> QED  BY <2>4, <2>5, <2>6 DEF TailVerifies
<1> QED  BY Invariance, <1>1, PTL

\* No later append contradicts a seal that was handed out.
THEOREM NoSealIsContradicted == Spec => []SealsHold
<1>1. IInv => SealsHold
  <2> SUFFICES ASSUME IInv, NEW s \in witness
               PROVE  s.seq <= Len(History) /\ SealHolds(s, Kept(s.seq))
    BY DEF SealsHold
  <2> DEFINE h == History
  <2>1. h \in Seq(Contents) /\ SealOf(s, h)
    BY DEF IInv, ChainOK, Tells, SealsOK
  <2>2. PICK m \in 1..Len(h) : m = s.seq /\ s = HeadOf(Row(h, m))
    BY <2>1 DEF SealOf
  <2>3. Len(h) \in Nat /\ m \in Nat \ {0} /\ m <= Len(h)
    BY <2>1, <2>2, LenProperties
  <2> DEFINE kept == Kept(m)
  <2>4. kept = [i \in 1..m |-> Row(h, i)]
    BY DEF Kept, Row
  <2> HIDE DEF h, kept
  <2>5. DOMAIN kept = 1..m /\ Len(kept) = m /\ kept # << >>
        /\ \A i \in 1..m : kept[i] = Row(h, i)
    BY <2>3, <2>4
  <2>6. ASSUME NEW n \in DOMAIN kept
        PROVE  /\ kept[n].hash = Link(kept[n].content, kept[n].prev)
               /\ kept[n].prev = IF n - 1 \in DOMAIN kept THEN kept[n - 1].hash ELSE Genesis
    <3>1. n \in 1..m /\ n \in 1..Len(h) /\ kept[n] = Row(h, n)
      BY <2>3, <2>5
    <3>2. SubSeq(h, 1, n) = Append(SubSeq(h, 1, n - 1), h[n])
      BY <2>1, <3>1, PrefixStep
    <3>3. /\ kept[n].content = h[n] /\ kept[n].prev = SubSeq(h, 1, n - 1)
          /\ kept[n].hash = SubSeq(h, 1, n)
      BY <3>1, RowFields
    <3>4. kept[n].hash = Link(kept[n].content, kept[n].prev)
      BY <3>2, <3>3 DEF Link
    <3>5. CASE n = 1
      <4>1. n - 1 \notin DOMAIN kept
        BY <2>5, <3>5
      <4>2. SubSeq(h, 1, n - 1) = << >>
        BY <3>5, SubSeqEmpty
      <4> QED  BY <3>3, <3>4, <4>1, <4>2 DEF Genesis
    <3>6. CASE n # 1
      <4>1. n - 1 \in 1..m
        BY <2>3, <3>1, <3>6
      <4>2. n - 1 \in DOMAIN kept /\ kept[n - 1].hash = SubSeq(h, 1, n - 1)
        BY <2>5, <4>1, RowFields
      <4> QED  BY <3>3, <3>4, <4>2
    <3> QED  BY <3>5, <3>6
  <2>7. Divergences(kept, Genesis) = {}
    BY <2>6 DEF Divergences
  <2>8. HeadOf(kept[Len(kept)]) = s
    <3>1. m \in 1..m
      BY <2>3
    <3>2. kept[Len(kept)] = Row(h, m)
      BY <2>5, <3>1
    <3> QED  BY <2>2, <3>2
  <2>9. SealHolds(s, kept)
    BY <2>5, <2>7, <2>8 DEF SealHolds
  <2> QED  BY <2>2, <2>3, <2>9 DEF h, kept
<1> QED  BY Invariance, <1>1, PTL

\* Every /sys write is on both ledgers or on neither, whoever appends beside
\* it and wherever a process dies.
THEOREM BothLedgersTell == Spec => []LedgersAgree
<1>1. IInv => LedgersAgree
  BY DEF IInv
<1> QED  BY Invariance, <1>1, PTL

\* The stream shows effects that applied, and irreversible ones that were tried
\* and failed, as what they are, and each effect at most once.
THEOREM NothingInvented == Spec => []EventsAreEarned
<1>1. IInv => EventsAreEarned
  BY DEF IInv
<1> QED  BY Invariance, <1>1, PTL

-----------------------------------------------------------------------------
(* The chain implements one append-only log. *)

\* The events on the lists of everyone but c.
OthersOwe(c) == UNION {EventsOf(todo[d]) : d \in Clients \ {c}}

\* The list of one connection set to another: what is owed is what the others
\* owe and what is on the new list.
LEMMA OwedNow ==
  ASSUME NEW c \in Clients, NEW list,
         todo \in [Clients -> Seq(Events)], todo' = [todo EXCEPT ![c] = list]
  PROVE  Owed' = OthersOwe(c) \cup EventsOf(list)
<1>1. \A d \in Clients : todo'[d] = IF d = c THEN list ELSE todo[d]
  OBVIOUS
<1>2. Owed' = UNION {{todo'[d][i] : i \in DOMAIN todo'[d]} : d \in Clients}
  BY DEF Owed, EventsOf
<1>3. ASSUME NEW x \in Owed'  PROVE x \in OthersOwe(c) \cup EventsOf(list)
  <2>1. PICK d \in Clients : \E i \in DOMAIN todo'[d] : x = todo'[d][i]
    BY <1>2
  <2>2. CASE d = c
    BY <1>1, <2>1, <2>2 DEF EventsOf
  <2>3. CASE d # c
    <3>1. d \in Clients \ {c} /\ x \in EventsOf(todo[d])
      BY <1>1, <2>1, <2>3 DEF EventsOf
    <3> QED  BY <3>1 DEF OthersOwe
  <2> QED  BY <2>2, <2>3
<1>4. ASSUME NEW x \in OthersOwe(c)  PROVE x \in Owed'
  <2>1. PICK d \in Clients \ {c} : \E i \in DOMAIN todo[d] : x = todo[d][i]
    BY DEF OthersOwe, EventsOf
  <2>2. todo'[d] = todo[d]
    BY <1>1
  <2>3. x \in {todo'[d][j] : j \in DOMAIN todo'[d]}
    BY <2>1, <2>2
  <2> QED  BY <1>2, <2>3
<1>5. ASSUME NEW x \in EventsOf(list)  PROVE x \in Owed'
  <2>1. x \in {todo'[c][j] : j \in DOMAIN todo'[c]}
    BY <1>1 DEF EventsOf
  <2> QED  BY <1>2, <2>1
<1> QED  BY <1>3, <1>4, <1>5

\* What a connection owes, nobody else does.
LEMMA OwedElsewhere ==
  ASSUME IInv, NEW c \in Clients
  PROVE  /\ Owed = OthersOwe(c) \cup EventsOf(todo[c])
         /\ OthersOwe(c) \cap EventsOf(todo[c]) = {}
<1>1. ASSUME NEW x \in Owed  PROVE x \in OthersOwe(c) \cup EventsOf(todo[c])
  <2>1. PICK d \in Clients : x \in EventsOf(todo[d])
    BY DEF Owed, EventsOf
  <2>2. CASE d = c
    BY <2>1, <2>2
  <2>3. CASE d # c
    BY <2>1, <2>3 DEF OthersOwe
  <2> QED  BY <2>2, <2>3
<1>2. OthersOwe(c) \subseteq Owed /\ EventsOf(todo[c]) \subseteq Owed
  BY DEF OthersOwe, EventsOf, Owed
<1>3. ASSUME NEW x \in OthersOwe(c), x \in EventsOf(todo[c])  PROVE FALSE
  <2>1. PICK d \in Clients \ {c} : x \in EventsOf(todo[d])
    BY DEF OthersOwe
  <2>2. PICK i \in DOMAIN todo[c] : x = todo[c][i]
    BY <1>3 DEF EventsOf
  <2>3. PICK j \in DOMAIN todo[d] : x = todo[d][j]
    BY <2>1 DEF EventsOf
  <2> QED  BY <2>2, <2>3 DEF IInv, TodoOK
<1> QED  BY <1>1, <1>2, <1>3

\* A list without its first event holds the others, if no event is on it twice.
LEMMA RestOf ==
  ASSUME NEW t \in Seq(Events), t # << >>,
         \A i, j \in DOMAIN t : t[i] = t[j] => i = j
  PROVE  Head(t) \in EventsOf(t) /\ EventsOf(Tail(t)) = EventsOf(t) \ {Head(t)}
<1>1. /\ Len(t) \in Nat \ {0} /\ DOMAIN t = 1..Len(t) /\ Head(t) = t[1]
      /\ Len(Tail(t)) = Len(t) - 1 /\ DOMAIN Tail(t) = 1..(Len(t) - 1)
      /\ \A i \in 1..(Len(t) - 1) : Tail(t)[i] = t[i + 1]
  BY HeadTailProperties, LenProperties, EmptySeq
<1>2. ASSUME NEW x \in EventsOf(Tail(t))  PROVE x \in EventsOf(t) \ {Head(t)}
  <2>1. PICK i \in 1..(Len(t) - 1) : x = t[i + 1]
    BY <1>1 DEF EventsOf
  <2>2. i + 1 \in DOMAIN t /\ 1 \in DOMAIN t /\ i + 1 # 1
    BY <1>1, <2>1
  <2>3. x # Head(t)
    BY <1>1, <2>1, <2>2
  <2> QED  BY <2>1, <2>2, <2>3 DEF EventsOf
<1>3. ASSUME NEW x \in EventsOf(t) \ {Head(t)}  PROVE x \in EventsOf(Tail(t))
  <2>1. PICK i \in DOMAIN t : x = t[i]
    BY DEF EventsOf
  <2>2. i # 1
    BY <1>1, <1>3, <2>1
  <2>3. i - 1 \in 1..(Len(t) - 1) /\ (i - 1) + 1 = i
    BY <1>1, <2>1, <2>2
  <2>4. Tail(t)[i - 1] = x /\ i - 1 \in DOMAIN Tail(t)
    BY <1>1, <2>1, <2>3
  <2> QED  BY <2>4 DEF EventsOf
<1>4. Head(t) \in EventsOf(t)
  BY <1>1 DEF EventsOf
<1> QED  BY <1>2, <1>3, <1>4

\* A list that is emptied gives up all its events, and one that loses its first
\* that one.
LEMMA OwedLess ==
  ASSUME IInv, NEW c \in Clients
  PROVE  /\ EventsOf(todo[c]) \subseteq Owed
         /\ todo' = [todo EXCEPT ![c] = << >>] => Owed' = Owed \ EventsOf(todo[c])
         /\ todo[c] # << >> /\ todo' = [todo EXCEPT ![c] = Tail(@)] =>
              Head(todo[c]) \in Owed /\ Owed' = Owed \ {Head(todo[c])}
<1>0. todo \in [Clients -> Seq(Events)]
  BY DEF IInv, Types, TypeOK
<1>1. /\ Owed = OthersOwe(c) \cup EventsOf(todo[c])
      /\ OthersOwe(c) \cap EventsOf(todo[c]) = {}
  BY OwedElsewhere
<1>2. ASSUME todo' = [todo EXCEPT ![c] = << >>]  PROVE Owed' = Owed \ EventsOf(todo[c])
  <2>1. Owed' = OthersOwe(c) \cup EventsOf(<< >>)
    BY <1>0, <1>2, OwedNow
  <2>2. EventsOf(<< >>) = {}
    BY DEF EventsOf
  <2> QED  BY <1>1, <2>1, <2>2
<1>3. ASSUME todo[c] # << >>, todo' = [todo EXCEPT ![c] = Tail(@)]
      PROVE  Head(todo[c]) \in Owed /\ Owed' = Owed \ {Head(todo[c])}
  <2>1. todo' = [todo EXCEPT ![c] = Tail(todo[c])]
    BY <1>0, <1>3
  <2>2. Owed' = OthersOwe(c) \cup EventsOf(Tail(todo[c]))
    BY <1>0, <2>1, OwedNow
  <2>3. todo[c] \in Seq(Events) /\ \A i, j \in DOMAIN todo[c] : todo[c][i] = todo[c][j] => i = j
    BY <1>0 DEF IInv, TodoOK
  <2>4. /\ Head(todo[c]) \in EventsOf(todo[c])
        /\ EventsOf(Tail(todo[c])) = EventsOf(todo[c]) \ {Head(todo[c])}
    BY <1>3, <2>3, RestOf
  <2> QED  BY <1>1, <2>2, <2>4
<1> QED  BY <1>1, <1>2, <1>3

\* Every step is one of the log, or none.
LEMMA StepLog ==
  ASSUME IInv, [Next]_vars
  PROVE  [Ledger!Next]_(Ledger!vars)
<1>0. /\ todo \in [Clients -> Seq(Events)] /\ ran \in [Effects -> Statuses \cup {"none"}]
      /\ Owed \subseteq Events
  <2>1. todo \in [Clients -> Seq(Events)]
    BY DEF IInv, Types, TypeOK
  <2>2. \A c \in Clients : EventsOf(todo[c]) \subseteq Events
    BY <2>1, LenProperties DEF EventsOf
  <2> QED  BY <2>1, <2>2 DEF Owed, IInv, Types, TypeOK
<1>1. ASSUME NEW c \in Clients, CommitPlan(c)  PROVE [Ledger!Next]_(Ledger!vars)
  <2>1. PICK list \in Seq(Events) :
          /\ todo' = [todo EXCEPT ![c] = list]
          /\ \A x : x \in EventsOf(list) <=>
                      \E e \in Effects : /\ ran'[e] # ran[e] /\ Audited(e, ran'[e])
                                         /\ x = Event(e, ran'[e])
    BY <1>1, PlanFacts
  <2>2. \A e \in Effects : ran[e] # "none" => ran'[e] = ran[e]
    BY <1>1, PlanFacts
  <2> DEFINE S == EventsOf(list)
  <2>3. \A x : x \in Due <=> \E e \in Effects : Audited(e, ran[e]) /\ x = Event(e, ran[e])
    BY DEF Due, EventOf
  <2>4. \A x : x \in Due' <=> \E e \in Effects : Audited(e, ran'[e]) /\ x = Event(e, ran'[e])
    BY DEF Due, EventOf, Event, Audited
  <2>5. \A e, x : Event(e, x).what = e
    BY DEF Event
  <2>6. \A e \in Effects : Audited(e, ran[e]) => ran[e] # "none"
    BY DEF Audited
  <2>7. S \subseteq Events
    BY LenProperties DEF EventsOf
  <2>8. Due' = Due \cup S
    BY <2>1, <2>2, <2>3, <2>4, <2>6
  <2>9. S \cap Due = {}
    <3> SUFFICES ASSUME NEW x \in S, x \in Due  PROVE FALSE
      OBVIOUS
    <3>1. PICK e \in Effects : ran'[e] # ran[e] /\ x = Event(e, ran'[e])
      BY <2>1
    <3>2. PICK f \in Effects : Audited(f, ran[f]) /\ x = Event(f, ran[f])
      BY <2>3
    <3>3. Event(e, ran'[e]).what = e /\ Event(f, ran[f]).what = f
      BY <2>5
    <3>4. e = f
      BY <3>1, <3>2, <3>3
    <3> QED  BY <2>2, <2>6, <3>1, <3>2, <3>4
  <2>10. \A x, y \in Due \cup S : x.what = y.what => x = y
    <3> SUFFICES ASSUME NEW x \in Due', NEW y \in Due', x.what = y.what  PROVE x = y
      BY <2>8
    <3>1. PICK e \in Effects : x = Event(e, ran'[e])
      BY <2>4
    <3>2. PICK f \in Effects : y = Event(f, ran'[f])
      BY <2>4
    <3> QED  BY <2>5, <3>1, <3>2
  <2>11. todo[c] = << >> /\ History' = History /\ ddl' = ddl
    BY <1>1 DEF CommitPlan, chainVars, tableVars, History
  <2>12. Owed = OthersOwe(c)
    <3>1. EventsOf(todo[c]) = {}
      BY <2>11 DEF EventsOf
    <3> QED  BY <3>1, OwedElsewhere
  <2>13. Owed' = Owed \cup S
    BY <1>0, <2>1, <2>12, OwedNow
  <2> HIDE DEF S
  <2>14. CASE S = {}
    BY <2>8, <2>11, <2>13, <2>14 DEF Ledger!vars
  <2>15. CASE S # {}
    <3>1. Ledger!Commit(S)
      BY <2>8, <2>9, <2>10, <2>11, <2>13 DEF Ledger!Commit
    <3>2. S \in (SUBSET Events) \ {{}}
      BY <2>7, <2>15
    <3> QED  BY <3>1, <3>2 DEF Ledger!Next
  <2> QED  BY <2>14, <2>15
<1>2. ASSUME NEW S, S \subseteq Owed, Owed' = Owed \ S,
             History' = History, ddl' = ddl, Due' = Due
      PROVE  [Ledger!Next]_(Ledger!vars)
  <2>1. CASE S = {}
    BY <1>2, <2>1 DEF Ledger!vars
  <2>2. CASE S # {}
    <3>1. Ledger!GiveUp(S)
      BY <1>2 DEF Ledger!GiveUp
    <3>2. S \in (SUBSET Events) \ {{}}
      BY <1>0, <1>2, <2>2
    <3> QED  BY <3>1, <3>2 DEF Ledger!Next
  <2> QED  BY <2>1, <2>2
<1>3. ASSUME NEW c \in Clients, SkipEmission(c) \/ Crash(c)
      PROVE  [Ledger!Next]_(Ledger!vars)
  <2>1. /\ todo' = [todo EXCEPT ![c] = << >>]
        /\ History' = History /\ ddl' = ddl /\ Due' = Due
    BY <1>3 DEF SkipEmission, Crash, chainVars, tableVars, History, Due, EventOf
  <2>2. EventsOf(todo[c]) \subseteq Owed /\ Owed' = Owed \ EventsOf(todo[c])
    BY <2>1, OwedLess
  <2> QED  BY <1>2, <2>1, <2>2
<1>4. ASSUME NEW c \in Clients, DropEvent(c)
      PROVE  [Ledger!Next]_(Ledger!vars)
  <2>1. /\ todo' = [todo EXCEPT ![c] = Tail(@)] /\ todo[c] # << >>
        /\ History' = History /\ ddl' = ddl /\ Due' = Due
    BY <1>4 DEF IInv, ConnOK, DropEvent, chainVars, tableVars, History, Due, EventOf
  <2>2. Head(todo[c]) \in Owed /\ Owed' = Owed \ {Head(todo[c])}
    BY <2>1, OwedLess
  <2> QED  BY <1>2, <2>1, <2>2
<1>5. ASSUME NEW c \in Clients, CommitAppend(c)  PROVE Ledger!Next
  <2>1. /\ todo[c] # << >> /\ Head(todo[c]) \in Events
        /\ History' = Append(History, Head(todo[c]))
    BY <1>5, CommitAppendFacts
  <2>2. todo' = [todo EXCEPT ![c] = Tail(@)] /\ ddl' = ddl /\ Due' = Due
    BY <1>5 DEF CommitAppend, Rest, tableVars, Due, EventOf
  <2>3. Head(todo[c]) \in Owed /\ Owed' = Owed \ {Head(todo[c])}
    BY <2>1, <2>2, OwedLess
  <2>4. Ledger!Record(Head(todo[c]))
    BY <2>1, <2>2, <2>3 DEF Ledger!Record
  <2> QED  BY <2>1, <2>4 DEF Ledger!Next
<1>6. ASSUME NEW c \in Clients, SysCommit(c)  PROVE Ledger!Next
  <2>1. PICK e \in Entries : \/ /\ ddl' = Append(ddl, e)
                                /\ History' = Append(History, Shows(e))
                             \/ \E f \in Entries :
                                  /\ ddl' = Append(Append(ddl, e), f)
                                  /\ History' = Append(Append(History, Shows(e)), Shows(f))
    BY <1>6, SysCommitFacts
  <2>2. Due' = Due /\ Owed' = Owed
    BY <1>6 DEF SysCommit, Owed, Due, EventOf
  <2>3. Ledger!WriteOne(e) \/ \E f \in Entries : Ledger!WriteTwo(e, f)
    BY <2>1, <2>2 DEF Ledger!WriteOne, Ledger!WriteTwo
  <2>4. ddl' # ddl
    <3>1. ddl \in Seq(Entries)
      BY DEF IInv, Types
    <3>2. Len(ddl) \in Nat
      BY <3>1
    <3>3. Len(Append(ddl, e)) = Len(ddl) + 1 /\ Append(ddl, e) \in Seq(Entries)
      BY <3>1
    <3>4. ASSUME NEW f \in Entries  PROVE Len(Append(Append(ddl, e), f)) = Len(ddl) + 2
      BY <3>2, <3>3
    <3>5. Len(ddl') \in {Len(ddl) + 1, Len(ddl) + 2}
      BY <2>1, <3>3, <3>4
    <3> QED  BY <3>2, <3>5
  <2> QED  BY <2>3, <2>4 DEF Ledger!Next
<1>7. \/ \E c \in Clients : \/ CommitPlan(c) \/ SkipEmission(c) \/ Crash(c)
                            \/ DropEvent(c) \/ CommitAppend(c) \/ SysCommit(c)
      \/ UNCHANGED <<head, ddl, todo, ran>>
  BY DEF Next, vars, chainVars, tableVars, BeginAppend, Upgrade, SysBegin, ReadHead, AppendSeal
<1>8. CASE UNCHANGED <<head, ddl, todo, ran>>
  <2>1. History' = History /\ ddl' = ddl /\ Due' = Due /\ Owed' = Owed
    BY <1>8 DEF History, Owed, Due, EventOf
  <2> QED  BY <2>1 DEF Ledger!vars
<1> QED  BY <1>1, <1>3, <1>4, <1>5, <1>6, <1>7, <1>8

\* However many connections append on snapshots and die between two steps,
\* the ledgers are one append-only audit log, on which an event is recorded
\* once or given up for good, and one configuration log that a write reaches
\* in the same step.
THEOREM ImplementsTheLog == Spec => ImplementsLog
<1>1. Init => Ledger!Init
  <2> SUFFICES ASSUME Init  PROVE Ledger!Init
    OBVIOUS
  <2>1. History = << >>
    BY DEF Init, History, HeadHash, Genesis
  <2>2. Owed = {}
    BY DEF Init, Owed, EventsOf
  <2>3. Due = {}
    BY DEF Init, Due, Audited
  <2> QED  BY <2>1, <2>2, <2>3 DEF Init, Ledger!Init
<1>2. IInv /\ [Next]_vars => [Ledger!Next]_(Ledger!vars)
  BY StepLog
<1> QED  BY Invariance, <1>1, <1>2, PTL DEF Spec, ImplementsLog, Ledger!Spec
=============================================================================

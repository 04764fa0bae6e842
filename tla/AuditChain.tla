----------------------------- MODULE AuditChain -----------------------------
(***************************************************************************)
(* The System DB's ledgers: the hash-chained audit stream with its one     *)
(* durable head and its bounded tail (qfs/src/audit.rs, store/src/audit.rs)*)
(* the replayable log of configuration writes (qfs/src/sys.rs; what it     *)
(* keeps of a write is in SysTables), and the seals handed to an external  *)
(* witness (qfs/src/worm.rs).                                              *)
(*                                                                         *)
(* Every client is a connection of its own.  SQLite in WAL mode: a         *)
(* transaction whose first statement reads works on a snapshot and may     *)
(* write only if that snapshot is still the newest and nobody else holds   *)
(* the write lock, otherwise it fails at once; one whose first statement   *)
(* writes waits for the lock and then sees the newest state.               *)
(*                                                                         *)
(* The hash of a link is the sequence of contents it stands for, which is  *)
(* what a collision-free hash can tell apart.                              *)
(***************************************************************************)
EXTENDS SysTables, FiniteSets

CONSTANTS
  Clients,       \* connections that commit plans or write under /sys
  Sealers,       \* invocations of seal_chain_head
  Effects,       \* the effects of plans, outside /sys
  Irreversible,  \* those that cannot be taken back
  TailCap,       \* TAIL_CAP
  PlanSize,      \* bound: audited effects of one plan
  MaxWrites,     \* bound: entries of the replayable log
  MaxSeals       \* bound: seals appended to the witness

\* What the audit stream calls a /sys write: an upsert is an INSERT there.
AuditVerbs == {"INSERT", "UPDATE", "REMOVE"}

ASSUME AuditConstants ==
  /\ TailCap \in Nat \ {0}
  /\ Effects \cap AuditVerbs = {} /\ Irreversible \subseteq Effects

VARIABLES
  head,     \* the row of audit_chain_head
  tail,     \* audit_tail by its primary key seq
  ddl,      \* sys_ddl_events
  rows,     \* the /sys tables
  untold,   \* history: keys a write emptied, its log entry naming others
  billed,   \* billing_events: the deliveries already applied
  mode,     \* what the client's transaction is doing
  seen,     \* the head its snapshot holds
  write,    \* its /sys writes, << >> for an audit append
  todo,     \* the events of a finished commit not yet appended
  ran,      \* what came of each effect: the statuses of the outcomes' ledgers
  sealing,  \* the head a sealer has read
  witness   \* the seals appended to the witness

chainVars == <<head, tail>>
tableVars == <<ddl, rows, untold, billed>>
connVars  == <<mode, seen, write>>
sealVars  == <<sealing, witness>>
vars == <<chainVars, tableVars, connVars, todo, ran, sealVars>>

-----------------------------------------------------------------------------
(* The chain. *)
Genesis == << >>
Link(content, prev) == Append(prev, content)

\* The events: of an effect that was tried, and of a /sys write.
Statuses == {"applied", "failed", "skipped"}
Events == [what : Effects, committed : BOOLEAN]
Event(e, status) == [what |-> e, committed |-> status = "applied"]
Shows(entry) ==
  [what |-> IF entry.verb = "UPSERT" THEN "INSERT" ELSE entry.verb, committed |-> TRUE]
Contents == Events \cup [what : AuditVerbs, committed : {TRUE}]

NoHead == [seq |-> 0, content |-> Absent, prev |-> Genesis]

\* What the next event chains onto.
HeadHash(h) == IF h = NoHead THEN Genesis ELSE Link(h.content, h.prev)

Chained(content, h) ==
  [seq |-> h.seq + 1, content |-> content, prev |-> HeadHash(h),
   hash |-> Link(content, HeadHash(h))]

HeadOf(row) == [seq |-> row.seq, content |-> row.content, prev |-> row.prev]

\* Mutant: the trim takes one row too many.
Trim_OneLess(t, seq) == [n \in {m \in DOMAIN t : m + TailCap > seq + 1} |-> t[n]]
Trim(t, seq) == [n \in {m \in DOMAIN t : m + TailCap > seq} |-> t[n]]

Insert(t, row) ==
  [n \in DOMAIN t \cup {row.seq} |-> IF n = row.seq THEN row ELSE t[n]]

\* One event on a head and a tail.
AppendTo(chain, content) ==
  LET row == Chained(content, chain.head)
  IN  [head |-> HeadOf(row), tail |-> Trim(Insert(chain.tail, row), row.seq)]

\* The numbers at which recorded events, numbered without a gap, fail to
\* recompute.
Divergences(events, genesis) ==
  {i \in DOMAIN events :
     \/ events[i].prev # IF i - 1 \in DOMAIN events THEN events[i - 1].hash
                         ELSE genesis
     \/ events[i].hash # Link(events[i].content, events[i].prev)}

\* A consumer's check of a seal against the rows it stored itself.
SealHolds(seal, events) ==
  /\ Divergences(events, Genesis) = {}
  /\ events # << >>
  /\ HeadOf(events[Len(events)]) = seal

-----------------------------------------------------------------------------
Init ==
  /\ head = NoHead /\ tail = << >>
  /\ ddl = << >> /\ rows = NoRows /\ untold = {} /\ billed = {}
  /\ mode = [c \in Clients |-> "idle"]
  /\ seen = [c \in Clients |-> NoHead]
  /\ write = [c \in Clients |-> << >>]
  /\ todo = [c \in Clients |-> << >>]
  /\ ran = [e \in Effects |-> "none"]
  /\ sealing = [s \in Sealers |-> NoHead] /\ witness = {}

Locked == \E c \in Clients : mode[c] = "write"

\* Another transaction has committed: an open snapshot is no longer the newest.
OutdateOthers(c) ==
  mode' = [x \in Clients |-> CASE x = c -> "idle"
                               [] x # c /\ mode[x] = "read" -> "stale"
                               [] OTHER -> mode[x]]
EndSnapshot(c) == seen' = [seen EXCEPT ![c] = NoHead]

-----------------------------------------------------------------------------
(* A commit: apply_plan_rooted runs the whole plan, then emit_audit opens  *)
(* the System DB and appends its events one transaction at a time.  An     *)
(* event whose append fails is logged and left out.                        *)

\* An effect that applied, or an irreversible one that was tried and failed.
Audited(e, status) ==
  status = "applied" \/ (e \in Irreversible /\ status = "failed")

\* The orders of a plan's audited effects.
Orders == {p \in UNION {[1..n -> Effects] : n \in 0..PlanSize} :
             \A i, j \in DOMAIN p : p[i] = p[j] => i = j}
EventsOf(list) == {list[i] : i \in DOMAIN list}

CommitPlan(c) ==
  /\ mode[c] = "idle" /\ todo[c] = << >>
  /\ \E now \in [Effects -> Statuses \cup {"none"}], p \in Orders :
       /\ now # ran /\ \A e \in Effects : ran[e] # "none" => now[e] = ran[e]
       /\ EventsOf(p) = {e \in Effects : now[e] # ran[e] /\ Audited(e, now[e])}
       /\ ran' = now
       /\ todo' = [todo EXCEPT ![c] = [i \in DOMAIN p |-> Event(p[i], now[p[i]])]]
  /\ UNCHANGED <<chainVars, tableVars, connVars, sealVars>>

\* No config home, or the database cannot be opened.
SkipEmission(c) ==
  /\ mode[c] = "idle" /\ todo[c] # << >>
  /\ todo' = [todo EXCEPT ![c] = << >>]
  /\ UNCHANGED <<chainVars, tableVars, connVars, ran, sealVars>>

BeginAppend(c) ==
  /\ mode[c] = "idle" /\ todo[c] # << >>
  /\ mode' = [mode EXCEPT ![c] = "read"]
  /\ seen' = [seen EXCEPT ![c] = head]
  /\ UNCHANGED <<chainVars, tableVars, write, todo, ran, sealVars>>

\* Mutant: the transaction upgrades on an old snapshot.
MayUpgrade_Stale(c) == mode[c] \in {"read", "stale"} /\ ~Locked
MayUpgrade(c) == mode[c] = "read" /\ ~Locked

Upgrade(c) ==
  /\ MayUpgrade(c)
  /\ mode' = [mode EXCEPT ![c] = "write"]
  /\ UNCHANGED <<chainVars, tableVars, seen, write, todo, ran, sealVars>>

\* SQLITE_BUSY: the event is dropped.
DropEvent(c) ==
  /\ mode[c] \in {"read", "stale"} /\ ~MayUpgrade(c)
  /\ mode' = [mode EXCEPT ![c] = "idle"]
  /\ todo' = [todo EXCEPT ![c] = Tail(@)]
  /\ EndSnapshot(c)
  /\ UNCHANGED <<chainVars, tableVars, write, ran, sealVars>>

\* Mutant: the event stays on the list after it was appended.
Rest_Kept(events) == events
Rest(events) == Tail(events)

CommitAppend(c) ==
  /\ mode[c] = "write" /\ write[c] = << >>
  /\ LET chain == AppendTo([head |-> seen[c], tail |-> tail], Head(todo[c]))
     IN  head' = chain.head /\ tail' = chain.tail
  /\ todo' = [todo EXCEPT ![c] = Rest(@)]
  /\ OutdateOthers(c) /\ EndSnapshot(c)
  /\ UNCHANGED <<tableVars, write, ran, sealVars>>

-----------------------------------------------------------------------------
(* A /sys write: the table's row, its audit events and its log entries in  *)
(* one transaction, whose first statement writes.                          *)

SysBegin(c) ==
  /\ mode[c] = "idle" /\ todo[c] = << >> /\ ~Locked
  /\ \E w \in Statements(rows, billed) :
       /\ Len(ddl) + Len(w) <= MaxWrites
       /\ write' = [write EXCEPT ![c] = w]
  /\ mode' = [mode EXCEPT ![c] = "write"]
  /\ seen' = [seen EXCEPT ![c] = head]
  /\ UNCHANGED <<chainVars, tableVars, todo, ran, sealVars>>

\* The audit events of one or two writes, the tables after them, and the keys
\* whose rows they delete unnamed.
AppendAll(chain, w) ==
  IF Len(w) = 1 THEN AppendTo(chain, Shows(w[1]))
  ELSE AppendTo(AppendTo(chain, Shows(w[1])), Shows(w[2]))

TablesAfter(w) ==
  IF Len(w) = 1 THEN Written(rows, w[1])
  ELSE Written(Written(rows, w[1]), w[2])

\* A removal in the log makes the keys it names agree again.
Strayed(u, t, x) ==
  (u \cup {k \in x.acts \ x.told : Present(t, k)})
    \ (IF x.verb = "REMOVE" THEN x.told ELSE {})
UntoldAfter(w) ==
  IF Len(w) = 1 THEN Strayed(untold, rows, w[1])
  ELSE Strayed(Strayed(untold, rows, w[1]), Written(rows, w[1]), w[2])

SysCommit(c) ==
  /\ mode[c] = "write" /\ write[c] # << >>
  /\ LET chain == AppendAll([head |-> seen[c], tail |-> tail], write[c])
     IN  head' = chain.head /\ tail' = chain.tail
  /\ rows' = TablesAfter(write[c])
  /\ untold' = UntoldAfter(write[c])
  /\ ddl' = ddl \o [i \in DOMAIN write[c] |-> Logged(write[c][i])]
  /\ billed' = billed \cup ({write[c][i].by : i \in DOMAIN write[c]} \ {Absent})
  /\ write' = [write EXCEPT ![c] = << >>]
  /\ OutdateOthers(c) /\ EndSnapshot(c)
  /\ UNCHANGED <<todo, ran, sealVars>>

\* The process dies: its transaction rolls back, its events are gone.
Crash(c) ==
  /\ mode[c] # "idle" \/ todo[c] # << >>
  /\ mode' = [mode EXCEPT ![c] = "idle"]
  /\ write' = [write EXCEPT ![c] = << >>]
  /\ todo' = [todo EXCEPT ![c] = << >>]
  /\ EndSnapshot(c)
  /\ UNCHANGED <<chainVars, tableVars, ran, sealVars>>

-----------------------------------------------------------------------------
(* seal_chain_head: read the head, sign it, append it to the witness.      *)

ReadHead(s) ==
  /\ sealing[s] = NoHead /\ head # NoHead /\ Cardinality(witness) < MaxSeals
  /\ sealing' = [sealing EXCEPT ![s] = head]
  /\ UNCHANGED <<chainVars, tableVars, connVars, todo, ran, witness>>

AppendSeal(s) ==
  /\ sealing[s] # NoHead
  /\ witness' = witness \cup {sealing[s]}
  /\ sealing' = [sealing EXCEPT ![s] = NoHead]
  /\ UNCHANGED <<chainVars, tableVars, connVars, todo, ran>>

Next ==
  \/ \E c \in Clients : \/ CommitPlan(c) \/ SkipEmission(c)
                        \/ BeginAppend(c) \/ Upgrade(c) \/ DropEvent(c)
                        \/ CommitAppend(c)
                        \/ SysBegin(c) \/ SysCommit(c)
                        \/ Crash(c)
  \/ \E s \in Sealers : ReadHead(s) \/ AppendSeal(s)

Spec == Init /\ [][Next]_vars

-----------------------------------------------------------------------------
(* Properties. *)

Heads == [seq : Nat, content : Contents \cup {Absent}, prev : Seq(Contents)]
TypeOK ==
  /\ head \in Heads
  /\ rows \in Tables /\ untold \subseteq Declared
  /\ billed \subseteq Deliveries
  /\ mode \in [Clients -> {"idle", "read", "stale", "write"}]
  /\ seen \in [Clients -> Heads]
  /\ todo \in [Clients -> Seq(Events)]
  /\ ran \in [Effects -> Statuses \cup {"none"}]
  /\ sealing \in [Sealers -> Heads]
  /\ witness \subseteq Heads

\* All that was ever appended, and the rows of a consumer that kept the first
\* n of it.
History == HeadHash(head)
Kept(n) == [i \in 1..n |-> [seq |-> i, content |-> History[i],
                            prev |-> SubSeq(History, 1, i - 1),
                            hash |-> SubSeq(History, 1, i)]]

\* The head and the live tail never disagree, whoever appends at the same time
\* and whoever dies half way: the tail holds the newest rows up to its cap,
\* numbered without a gap, it recomputes, and its last row is the head
\* (append_event's doc, "the durable head and the live tail never disagree
\* even across a crash").
Oldest == IF head.seq < TailCap THEN 1 ELSE head.seq - TailCap + 1
TailVerifies ==
  /\ DOMAIN tail = Oldest..head.seq
  /\ \A n \in DOMAIN tail : tail[n].seq = n
  /\ head # NoHead => /\ Divergences(tail, tail[Oldest].prev) = {}
                     /\ HeadOf(tail[head.seq]) = head

\* No later append contradicts a seal: a consumer that kept every row finds
\* each seal to be the head of the first rows of its store (worm.rs,
\* verify_seal_against_events).
SealsHold ==
  \A s \in witness : s.seq <= Len(History) /\ SealHolds(s, Kept(s.seq))

\* Every /sys write is on both ledgers or on neither: replaying the log gives
\* the tables as its payloads show them, but for the declarations a
\* remove_driver deleted under a payload that names only the driver, and the
\* audit stream shows exactly the writes of the log, in order, each delivery
\* of the provider once, though other connections append effects between them
\* and processes die at any point (append_audit_tx, "the policy row + its
\* audit row commit atomically").
ShowsInOrder(history, log) ==
  \E at \in [DOMAIN log -> DOMAIN history] :
    /\ \A m, n \in DOMAIN log : m < n => at[m] < at[n]
    /\ \A n \in DOMAIN log : history[at[n]] = Shows(log[n])
    /\ \A i \in DOMAIN history :
         history[i] \in Events <=> \A n \in DOMAIN log : at[n] # i
LedgersAgree ==
  /\ \A k \in Keys \ untold : Replay(ddl)[k] = Shown(rows)[k]
  /\ ShowsInOrder(History, ddl)
  /\ \A i, j \in DOMAIN ddl :
       ddl[i].by = ddl[j].by /\ ddl[i].by # Absent => i = j

\* Replaying the log gives the tables, as the payloads show them or as they are
\* (system_ddl_events.sql, "events that can rebuild current-state tables such
\* as sys_drivers, sys_policies, and sys_settings").  Both violated: the
\* payload of remove_driver names less than it deletes, and secrets are
\* redacted.
LogRebuilds == Replay(ddl) = Shown(rows)
LogHoldsTheRows == \A k \in Keys \ untold : Replay(ddl)[k] = rows[k]

\* The stream shows what plans did and nothing else: an event says committed
\* of an effect that applied, or not committed of an irreversible one that was
\* tried and failed, and there is one event of an effect, on the chain or
\* still to be appended (commit.rs, audit_events).
OnChain == {i \in DOMAIN History : History[i] \in Events}
Earned(event) ==
  IF event.committed THEN ran[event.what] = "applied"
  ELSE event.what \in Irreversible /\ ran[event.what] = "failed"
EventsAreEarned ==
  /\ \A i \in OnChain : Earned(History[i])
  /\ \A i, j \in OnChain : History[i].what = History[j].what => i = j
  /\ \A c \in Clients : \A i \in OnChain, j \in DOMAIN todo[c] :
       History[i].what # todo[c][j].what

\* What the ledgers promise (AuditLog), seen on the chain: however many
\* connections append on snapshots of the head and die between two steps, the
\* history the head commits to grows like one log, by whole commits and never
\* otherwise; an event leaves the list of its commit only for the end of that
\* log or for good, and a /sys write is on both logs in the same step
\* (append_audit_tx, append_event).
EventOf(e) == Event(e, ran[e])
Due == {EventOf(e) : e \in {x \in Effects : Audited(x, ran[x])}}
Owed == UNION {EventsOf(todo[c]) : c \in Clients}
Ledger == INSTANCE AuditLog WITH log <- History, config <- ddl, due <- Due, owed <- Owed,
                                 ShownAs <- [a \in Entries |-> Shows(a)]
ImplementsLog == Ledger!Spec

\* One event per effect that is to be audited: what is on no list is on the
\* chain.  Violated: an append that loses against another connection is
\* dropped, a crash between the commit and the appends loses them all.
EffectsAreAudited ==
  \A e \in Effects : Audited(e, ran[e]) =>
    \/ \E i \in OnChain : History[i] = EventOf(e)
    \/ EventOf(e) \in Owed
=============================================================================

------------------------------- MODULE Watcher -------------------------------
(***************************************************************************)
(* Polling watchers of one source (watchtower/src/watcher.rs).  poll_once  *)
(* reads the source, publishes one event per row whose native id its       *)
(* cursor does not hold, and saves the cursor last.  A trigger on a path   *)
(* gets a watcher of its own (binding.rs), so two pollers may share the    *)
(* source and, with it, the cursor's key.  Events are native ids; the rows *)
(* they carry are kept in a history.                                       *)
(***************************************************************************)
EXTENDS EventBus

CONSTANTS
  Pollers,
  Keys,        \* the keys rows can have
  HasIds,      \* the rows have the id column the watcher diffs on
  Versions,    \* a row is rewritten up to this version
  Deletes,     \* rows may be deleted
  Cancels      \* a poll may be cut short, or its save fail

ASSUME WatcherConstants ==
  /\ Keys \subseteq Nat /\ Versions \in Nat \ {0}
  /\ HasIds \in BOOLEAN /\ Deletes \in BOOLEAN /\ Cancels \in BOOLEAN
  /\ Keys \subseteq Events

Rows == [key : Keys, version : 1..Versions]

VARIABLES
  source,     \* the rows of the source, in its order
  born,       \* the keys inserted so far: no key is used twice
  cursor,     \* the saved WatcherCursor of the source's key
  poll,       \* what each poller holds of the poll it is in
  published,  \* history: the rows an event was sent for
  covered     \* history: the rows read by polls that saved their cursor

watcherVars == <<channel, spool, source, born, cursor, poll, published, covered>>

Resting == [at |-> "rest", rows |-> << >>, next |-> 1, loaded |-> {}, advanced |-> {}]

WatcherTypeOK ==
  /\ BusTypeOK
  /\ source \in Seq(Rows) /\ born \in SUBSET Keys
  /\ cursor \in SUBSET Events
  /\ \A p \in Pollers :
       /\ poll[p].at \in {"rest", "scanned", "read"} /\ poll[p].rows \in Seq(Rows)
       /\ poll[p].next \in 1..(Len(poll[p].rows) + 1)
       /\ poll[p].loaded \subseteq Events /\ poll[p].advanced \subseteq Events
  /\ published \subseteq Rows /\ covered \subseteq Rows

WatcherInit ==
  /\ BusInit
  /\ source = << >> /\ born = {} /\ cursor = {}
  /\ poll = [p \in Pollers |-> Resting]
  /\ published = {} /\ covered = {}
-----------------------------------------------------------------------------
(* the source, which the world writes *)

Insert(k) ==
  /\ k \notin born
  /\ born' = born \cup {k}
  /\ source' = Append(source, [key |-> k, version |-> 1])
Rewrite(i) ==
  /\ source[i].version < Versions
  /\ source' = [source EXCEPT ![i].version = @ + 1]
  /\ UNCHANGED born
Delete(i) ==
  /\ Deletes
  /\ source' = [j \in 1..(Len(source) - 1) |-> IF j < i THEN source[j] ELSE source[j + 1]]
  /\ UNCHANGED born
World ==
  /\ \/ \E k \in Keys : Insert(k)
     \/ \E i \in DOMAIN source : Rewrite(i) \/ Delete(i)
  /\ UNCHANGED <<channel, spool, cursor, poll, published, covered>>
-----------------------------------------------------------------------------
(* poll_once *)

\* Mutant: the position even where rows have ids.
NativeId_Position(rows, i) == i
\* The id column's value, or the row's position when there is none.
NativeId(rows, i) == IF HasIds THEN rows[i].key ELSE i

\* The read is awaited: what happens before the cursor is loaded may be no part of it.
Scan(p) ==
  /\ poll[p].at = "rest"
  /\ poll' = [poll EXCEPT ![p] = 
       [at |-> "scanned", rows |-> source, next |-> 1, loaded |-> {}, advanced |-> {}]]
  /\ UNCHANGED <<channel, spool, source, born, cursor, published, covered>>

LoadCursor(p) ==
  /\ poll[p].at = "scanned"
  /\ poll' = [poll EXCEPT ![p] =
       [at |-> "read", rows |-> @.rows, next |-> 1, loaded |-> cursor, advanced |-> cursor]]
  /\ UNCHANGED <<channel, spool, source, born, cursor, published, covered>>

AtRow(p) == poll[p].at = "read" /\ poll[p].next <= Len(poll[p].rows)
ThisId(p) == NativeId(poll[p].rows, poll[p].next)

PassKnown(p) ==
  /\ AtRow(p) /\ ThisId(p) \in poll[p].loaded
  /\ poll' = [poll EXCEPT ![p].next = @ + 1]
  /\ UNCHANGED <<channel, spool, source, born, cursor, published, covered>>

\* A full bus ends the poll with an error; what it had marked is forgotten.
AfterFull(p) == UNCHANGED cursor
Publish(p) ==
  /\ AtRow(p) /\ ThisId(p) \notin poll[p].loaded
  /\ Spool(ThisId(p))
  /\ \/ /\ TrySend(ThisId(p))
        /\ poll' = [poll EXCEPT ![p].next = @ + 1, ![p].advanced = @ \cup {ThisId(p)}]
        /\ published' = published \cup {poll[p].rows[poll[p].next]}
        /\ UNCHANGED cursor
     \/ /\ ~HasRoom
        /\ poll' = [poll EXCEPT ![p] = Resting]
        /\ AfterFull(p)
        /\ UNCHANGED <<channel, published>>
  /\ UNCHANGED <<source, born, covered>>

SavedCursor(p) == poll[p].advanced
Save(p) ==
  /\ poll[p].at = "read" /\ poll[p].next > Len(poll[p].rows)
  /\ cursor' = SavedCursor(p)
  /\ covered' = covered \cup {poll[p].rows[i] : i \in DOMAIN poll[p].rows}
  /\ poll' = [poll EXCEPT ![p] = Resting]
  /\ UNCHANGED <<channel, spool, source, born, published>>

\* The task is cancelled, or the save fails.
Cancel(p) ==
  /\ Cancels /\ poll[p].at # "rest"
  /\ poll' = [poll EXCEPT ![p] = Resting]
  /\ UNCHANGED <<channel, spool, source, born, cursor, published, covered>>

\* The dispatch loop on an event that succeeds.
Consume ==
  /\ \E e \in Events : Receive(e) /\ Ack(e)
  /\ UNCHANGED <<source, born, cursor, poll, published, covered>>

Poll(p) == Scan(p) \/ LoadCursor(p) \/ PassKnown(p) \/ Publish(p) \/ Save(p)
WatcherNext == World \/ Consume \/ \E p \in Pollers : Poll(p) \/ Cancel(p)
WatcherSpec == WatcherInit /\ [][WatcherNext]_watcherVars

\* Whoever polls polls again and again (the daemon has no such timer yet), and the
\* dispatch loop consumes.
WatcherLiveSpec == WatcherSpec /\ (\A p \in Pollers : WF_watcherVars(Poll(p))) /\ WF_watcherVars(Consume)
-----------------------------------------------------------------------------
(* properties *)

\* "never silently skips" (watcher.rs): a row that a poll read before it saved
\* its cursor has been published, the version it read included.
NothingSkipped == covered \subseteq published

\* A row that stays in the source is published in the end.
StayingRowIsSent ==
  \A k \in Keys : <>[](\E i \in DOMAIN source : source[i].key = k)
                    => <>(\E r \in published : r.key = k)
=============================================================================

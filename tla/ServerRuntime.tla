--------------------------- MODULE ServerRuntime ---------------------------
(***************************************************************************)
(* The daemon's configuration state and the three things that follow it.   *)
(*                                                                         *)
(* A request that writes /server runs on a thread of its own               *)
(* (commit_plan, ServeMcpEngine::apply): it reads the policy table, applies *)
(* the write under the state lock, hands the change to the run loop, and   *)
(* then re-emits the whole state into the boot config: a snapshot of its   *)
(* own, a temporary file, a rename. The run loop (Runtime::run) takes one  *)
(* notification at a time: it records it in the audit ledger and rebuilds  *)
(* every binding from a fresh snapshot. A boot replays the config file     *)
(* statement by statement, and ends when one of them is refused. The four  *)
(* records of one truth (the state, the bindings, the ledger, the file)    *)
(* are brought together by nothing else.                                   *)
(*                                                                         *)
(* A file is modelled by the state it was rendered from; ReadAs is what a  *)
(* boot makes of the statement rendered for a row. They differ: a policy's *)
(* name and handler are written as they are, so one that holds a space or  *)
(* a rule reads back as something else, or as nothing.                     *)
(*                                                                         *)
(* The disk is modelled by inodes, because the temporary name is the same  *)
(* for every request of a process: a thread writes through the descriptor  *)
(* it opened, whatever name that inode has in the meantime.                *)
(***************************************************************************)
EXTENDS Naturals, Sequences, FiniteSets, Functions

CONSTANTS
    Rows,        \* names of /server rows
    Grant,       \* the policy row the statement bridge commits under
    Defs,        \* contents a row may have; Grant allows writes whatever its content
    ReadAs,      \* what a boot reads in the statement of a row; None: it is refused
    None,        \* no row, no temporary file, no statement
    Empty, Torn, \* a file just truncated, and the bytes of two documents in one
    Clients,     \* requests that may be under way at once
    MaxCommits,  \* bound: requests in all
    MaxStops     \* bound: times the process ends

ASSUME GrantAssumption == Grant \in Rows
ASSUME ClientsAssumption == IsFiniteSet(Clients)
ASSUME BoundsAssumption == MaxCommits \in Nat /\ MaxStops \in Nat

States == [Rows -> Defs \cup {None}]
Nowhere == [r \in Rows |-> None]             \* ServerState::new()
Inodes == 0 .. (Cardinality(Clients) + 1)

\* The row and the content that a statement of the file writes.
Statements == [row : Rows, def : Defs]
ASSUME ReadAsAssumption == ReadAs \in [Rows -> [Defs -> Statements \cup {None}]]

\* A truncated and a torn file are no documents, no inode and no statement is None.
ASSUME NamesAssumption ==
    /\ None \notin Statements
    /\ Empty \notin States /\ Torn \notin States /\ Empty # Torn
    /\ None \notin Inodes

VARIABLES
    stage,    \* of the process: down, booting, serving, drained, stopped
    server,   \* the live ServerState
    replayed, \* rows of the file that the boot has applied
    live,     \* the snapshot the bindings were last reconciled to
    queue,    \* notifications the run loop has not taken
    ledger,   \* the AuditSink: entries since this process began, drained at its end
    disk,     \* content of every inode
    file, tmp,\* the inodes the config path and the temporary path name
    reqs,     \* one request per client
    commits,  \* requests begun
    stops,    \* times the process ended
    applied,  \* history: the changes made since this process began
    saved     \* history: how the last re-emission went, "yes", "overlapped", "failed";
              \* "misread" when the process has booted from a file that reads back otherwise

stateVars == <<server, live>>
auditVars == <<queue, ledger, applied>>
diskVars  == <<disk, file, tmp>>
procVars  == <<stage, replayed, stops>>
vars == <<stateVars, auditVars, diskVars, procVars, reqs, commits, saved>>

Idle == [at |-> "idle"]

Ops == {"INSERT", "UPSERT", "UPDATE", "REMOVE"}

\* Requests by stage of progress.
At(c, places)  == reqs[c].at \in places
Emitting(c)    == At(c, {"notify", "snapshot", "open", "write", "rename"})
Overlapping    == \E c \in Clients : Emitting(c) /\ ~reqs[c].solo

-----------------------------------------------------------------------------
\* apply_server_write: a duplicate INSERT and an UPDATE of nothing are refused,
\* a REMOVE of nothing is a change that changes nothing.
Refused(op, old) == \/ op = "INSERT" /\ old # None
                    \/ op = "UPDATE" /\ old = None

\* A REMOVE carries no row (def = None); the other verbs replace the row whole.
Written(r, def) == [server EXCEPT ![r] = def]

\* ConfigChange: the row and whether it existed before and exists after.
Change(r, def) == [row |-> r, before |-> server[r] # None, after |-> def # None]

\* Runtime::snapshot and Runtime::reconcile_all: every binding is rebuilt from
\* the state as it is now, never from the change that woke the loop.
\* Mutant: the bindings are rebuilt only when a row appeared or went away.
Reconciled_OnMembership(change) == IF change.before = change.after THEN live ELSE server
Reconciled(change) == server

-----------------------------------------------------------------------------
\* A document that a boot reads as what it was rendered from.
ReadsBack(r, def) == ReadAs[r][def] = [row |-> r, def |-> def]
Faithful(doc)     == \A r \in Rows : doc[r] # None => ReadsBack(r, doc[r])

\* The first config file: written whole by the operator, and meant as it reads.
Init ==
    /\ stage = "down" /\ stops = 0 /\ replayed = {}
    /\ server = Nowhere /\ live = Nowhere
    /\ queue = <<>> /\ ledger = <<>> /\ applied = <<>>
    /\ \E def \in Defs :
          /\ ReadsBack(Grant, def)
          /\ disk = [i \in Inodes |->
                        IF i = 0 THEN [Nowhere EXCEPT ![Grant] = def] ELSE Empty]
    /\ file = 0 /\ tmp = None
    /\ reqs = [c \in Clients |-> Idle] /\ commits = 0
    /\ saved = "yes"

-----------------------------------------------------------------------------
(* Boot *)

\* An empty file is a document of no statements; a torn one does not parse.
Document(content) == IF content = Empty THEN Nowhere ELSE content
Parses == disk[file] # Torn

StartProcess ==
    /\ stage = "down" /\ Parses
    /\ stage' = "booting" /\ replayed' = {}
    /\ server' = Nowhere /\ live' = Nowhere
    /\ queue' = <<>> /\ ledger' = <<>> /\ applied' = <<>>
    /\ UNCHANGED <<diskVars, stops, reqs, commits, saved>>

\* The statements of the document, in any order, and what the next one reads as.
Pending      == {r \in Rows \ replayed : Document(disk[file])[r] # None}
Statement(r) == ReadAs[r][Document(disk[file])[r]]

\* One statement of the document: commit, audit entry, reconcile. Every emitted
\* statement lowers to an upsert, so no row it meets makes it fail.
ReplayStatement(r) ==
    /\ stage = "booting" /\ r \in Pending
    /\ Statement(r) # None
    /\ LET s == Statement(r) IN
        /\ server' = Written(s.row, s.def)
        /\ ledger' = Append(ledger, Change(s.row, s.def))
        /\ applied' = Append(applied, Change(s.row, s.def))
    /\ live' = server'
    /\ replayed' = replayed \cup {r}
    /\ UNCHANGED <<stage, stops, queue, diskVars, reqs, commits, saved>>

\* A statement that does not tokenize, parse or lower ends the boot, and with it
\* the process; the file stays, and the next boot reads the same.
BootFails(r) ==
    /\ stage = "booting" /\ r \in Pending
    /\ Statement(r) = None
    /\ stage' = "down"
    /\ UNCHANGED <<stateVars, auditVars, diskVars, replayed, stops, reqs, commits, saved>>

\* The final reconcile, then the listener.
Serve ==
    /\ stage = "booting"
    /\ Pending = {}
    /\ live' = server
    /\ stage' = "serving"
    /\ saved' = IF ~Faithful(Document(disk[file])) THEN "misread"
                ELSE IF saved = "failed" THEN "yes" ELSE saved
    /\ UNCHANGED <<server, auditVars, diskVars, replayed, stops, reqs, commits>>

-----------------------------------------------------------------------------
(* One request *)

\* The listener accepts until it is told to stop, which is after the drain.
Listening == stage \in {"serving", "drained"}
Alive     == stage \in {"serving", "drained", "stopped"}

Answer(c) == reqs' = [reqs EXCEPT ![c] = Idle]

\* commit_policy: the policy row is read under the read lock and decided on alone.
Gate(c, op, r, def) ==
    /\ Listening /\ commits < MaxCommits
    /\ At(c, {"idle"})
    /\ commits' = commits + 1
    /\ reqs' = [reqs EXCEPT ![c] =
                  IF server[Grant] = None THEN Idle
                                          ELSE [at |-> "apply", op |-> op, row |-> r, def |-> def]]
    /\ UNCHANGED <<stateVars, auditVars, diskVars, procVars, saved>>

ApplyRefused(c) ==
    /\ Alive /\ At(c, {"apply"})
    /\ Refused(reqs[c].op, server[reqs[c].row])
    /\ Answer(c)
    /\ UNCHANGED <<stateVars, auditVars, diskVars, procVars, commits, saved>>

ApplyWrite(c) ==
    /\ Alive /\ At(c, {"apply"})
    /\ LET q == reqs[c] IN
        /\ ~Refused(q.op, server[q.row])
        /\ server' = Written(q.row, q.def)
        /\ applied' = Append(applied, Change(q.row, q.def))
        /\ reqs' = [d \in Clients |->
              IF d = c THEN [at |-> "notify", change |-> Change(q.row, q.def),
                             solo |-> \A e \in Clients \ {c} : ~Emitting(e)]
              ELSE IF Emitting(d) THEN [reqs[d] EXCEPT !.solo = FALSE]
              ELSE reqs[d]]
    /\ UNCHANGED <<live, queue, ledger, diskVars, procVars, commits, saved>>

\* ReconfigureHandle::notify. After run has returned the receiver is gone and
\* the notification is dropped.
Notify(c) ==
    /\ Alive /\ At(c, {"notify"})
    /\ queue' = IF stage = "serving" THEN Append(queue, reqs[c].change) ELSE queue
    /\ reqs' = [reqs EXCEPT ![c] = [at |-> "snapshot", solo |-> reqs[c].solo]]
    /\ UNCHANGED <<stateVars, ledger, applied, diskVars, procVars, commits, saved>>

\* reemit_after_commit clones the state under the read lock, at a moment of its own.
\* Mutant: the file is made of what the bindings were last reconciled to.
EmittedState_Reconciled == live
EmittedState == server

Snapshot(c) ==
    /\ Alive /\ At(c, {"snapshot"})
    /\ reqs' = [reqs EXCEPT ![c] =
                  [at |-> "open", doc |-> EmittedState, solo |-> reqs[c].solo]]
    /\ UNCHANGED <<stateVars, auditVars, diskVars, procVars, commits, saved>>

\* An inode no name and no descriptor holds.
Held(i)   == i \in {file, tmp} \/ \E d \in Clients : At(d, {"write"}) /\ reqs[d].fd = i
FreeInode == CHOOSE i \in Inodes : ~Held(i) /\ \A j \in Inodes : j < i => Held(j)

\* fs::write(tmp): create or truncate, then write through the descriptor.
\* The path that is opened: the sibling of the config file, one per process.
\* Mutant: the config file is written in place.
OpenPath_InPlace == file
OpenPath == tmp

OpenTmp(c) ==
    /\ Alive /\ At(c, {"open"})
    /\ LET i == IF OpenPath = None THEN FreeInode ELSE OpenPath IN
        /\ disk' = [disk EXCEPT ![i] = Empty]
        /\ tmp' = i
        /\ reqs' = [reqs EXCEPT ![c] = [at |-> "write", doc |-> reqs[c].doc, fd |-> i,
                                          solo |-> reqs[c].solo]]
    /\ UNCHANGED <<stateVars, auditVars, file, procVars, commits, saved>>

\* Over the bytes of another writer of the same inode the result is the newer
\* document, when it is no shorter, or a mixture.
Overwritten(content, doc) == IF content \in {Empty, doc} THEN {doc} ELSE {doc, Torn}

WriteTmp(c) ==
    /\ Alive /\ At(c, {"write"})
    /\ \E content \in Overwritten(disk[reqs[c].fd], reqs[c].doc) :
          disk' = [disk EXCEPT ![reqs[c].fd] = content]
    /\ reqs' = [reqs EXCEPT ![c] = [at |-> "rename", solo |-> reqs[c].solo]]
    /\ UNCHANGED <<stateVars, auditVars, file, tmp, procVars, commits, saved>>

\* The rename gives the config path whatever inode the temporary path names by
\* now; without one it fails, which is logged, and the client is answered all
\* the same.
Rename(c) ==
    /\ Alive /\ At(c, {"rename"})
    /\ IF tmp = None THEN UNCHANGED <<file, tmp>>
                     ELSE file' = tmp /\ tmp' = None
    /\ Answer(c)
    /\ saved' = IF reqs[c].solo THEN "yes" ELSE "overlapped"
    /\ UNCHANGED <<stateVars, auditVars, disk, procVars, commits>>

\* A full disk or a missing directory: the open, the write or the rename fails,
\* and the temporary file stays as it is. The client is answered all the same.
EmitFails(c) ==
    /\ Alive /\ At(c, {"open", "write", "rename"})
    /\ Answer(c)
    /\ saved' = IF reqs[c].solo /\ saved # "overlapped" THEN "failed" ELSE "overlapped"
    /\ UNCHANGED <<stateVars, auditVars, diskVars, procVars, commits>>

-----------------------------------------------------------------------------
(* The run loop *)

\* The notifications left: one recv takes one of them.
\* Mutant: the loop empties the channel and handles the first.
Left_Nothing(q) == <<>>
Left(q) == Tail(q)

HandleReconfigure ==
    /\ stage = "serving" /\ queue # <<>>
    /\ queue' = Left(queue)
    /\ ledger' = Append(ledger, Head(queue))
    /\ live' = Reconciled(Head(queue))
    /\ UNCHANGED <<server, applied, diskVars, procVars, reqs, commits, saved>>

\* select! takes the shutdown arm whatever the queue holds; run drains the
\* ledger and returns, and the receiver goes with it.
ShutDown ==
    /\ stage = "serving" /\ stops < MaxStops
    /\ stage' = "drained"
    /\ queue' = <<>>
    /\ UNCHANGED <<stateVars, ledger, applied, diskVars, replayed, stops, reqs, commits, saved>>

StopListener ==
    /\ stage = "drained"
    /\ stage' = "stopped"
    /\ UNCHANGED <<stateVars, auditVars, diskVars, replayed, stops, reqs, commits, saved>>

\* A kill at any point, or the end of a graceful stop, takes the requests with it.
\* The temporary name carries the process id: the next process has another one.
Gone ==
    /\ stage' = "down" /\ stops' = stops + 1
    /\ reqs' = [c \in Clients |-> Idle]
    /\ tmp' = None
    /\ saved' = IF Overlapping THEN "overlapped" ELSE saved
    /\ UNCHANGED <<stateVars, auditVars, disk, file, replayed, commits>>

Exit  == stage = "stopped" /\ Gone
Crash == stage \in {"booting", "serving", "drained"} /\ stops < MaxStops /\ Gone

Request(c) ==
    \/ \E op \in Ops, r \in Rows, def \in Defs \cup {None} :
          (op = "REMOVE" <=> def = None) /\ Gate(c, op, r, def)
    \/ ApplyRefused(c) \/ ApplyWrite(c) \/ Notify(c) \/ Snapshot(c)
    \/ OpenTmp(c) \/ WriteTmp(c) \/ Rename(c) \/ EmitFails(c)

Next ==
    \/ StartProcess
    \/ \E r \in Rows : ReplayStatement(r) \/ BootFails(r)
    \/ Serve \/ HandleReconfigure
    \/ \E c \in Clients : Request(c)
    \/ ShutDown \/ StopListener \/ Exit \/ Crash

\* The loop polls its queue and the threads of the pool run.
Fairness ==
    /\ WF_vars(HandleReconfigure)
    /\ \A c \in Clients : WF_vars(Notify(c))

Spec == Init /\ [][Next]_vars /\ Fairness
-----------------------------------------------------------------------------
TypeOK ==
    /\ stage \in {"down", "booting", "serving", "drained", "stopped"}
    /\ server \in States /\ live \in States
    /\ replayed \subseteq Rows
    /\ disk \in [Inodes -> States \cup {Empty, Torn}]
    /\ file \in Inodes /\ tmp \in Inodes \cup {None} /\ tmp # file
    /\ \A c \in Clients : reqs[c].at \in {"idle", "apply", "notify", "snapshot", "open", "write", "rename"}
    /\ saved \in {"yes", "overlapped", "failed", "misread"}
    /\ commits \in 0 .. MaxCommits /\ stops \in 0 .. MaxStops

Times(ch, seq) == Cardinality({i \in DOMAIN seq : seq[i] = ch})
Unnotified == {c \in Clients : At(c, {"notify"})}
Quiet      == \A c \in Clients : ~Emitting(c)

\* The bindings are the state whenever the loop owes them nothing: whatever the
\* order in which the notifications of concurrent commits arrive, the last
\* reconcile is to a snapshot no older than the last change.
BindingsFollow ==
    stage = "serving" /\ queue = <<>> /\ Unnotified = {} => live = server

\* Every change of a serving process is in the ledger, in the queue, or about
\* to be put into it, each exactly once.
NothingUnrecorded ==
    stage = "serving" =>
        \A ch \in Range(applied) \cup Range(ledger) \cup Range(queue) :
            Times(ch, ledger) + Times(ch, queue)
                + Cardinality({c \in Unnotified : reqs[c].change = ch})
            = Times(ch, applied)

\* With no re-emission under way the file is the rendering of the state, as long
\* as the last re-emission neither failed nor overlapped another; and a boot from
\* a file whose statements read back as they were meant comes to that state again.
FileIsState ==
    stage \in {"serving", "drained", "stopped"} /\ Quiet /\ saved = "yes" =>
        disk[file] # Torn /\ Document(disk[file]) = server

\* Whatever the point at which the process dies, the config path names a whole
\* document, as long as no two re-emissions overlapped.
FileIsWhole ==
    saved # "overlapped" /\ ~Overlapping => disk[file] \in States

\* A change reaches the bindings as long as the loop runs.
Converges ==
    (stage = "serving" /\ live # server) ~> (live = server \/ stage # "serving")

\* What the guide says of every committed change: "captured the moment it
\* commits", written atomically. No failure of the disk excuses a loss.
CommitsSurvive ==
    stage = "serving" /\ Quiet /\ saved \in {"yes", "overlapped"} =>
        disk[file] # Torn /\ Document(disk[file]) = server

\* What the comment on reemit_boot_config says of the file it writes: "an applied
\* reconcile survives a restart". A boot reads every statement as it was meant.
SurvivesRestart ==
    stage = "serving" /\ Quiet /\ saved = "yes" => Faithful(Document(disk[file]))

\* What run says of a graceful stop: no plan is accepted any more and the
\* ledger is drained, so what it drained is everything that was applied.
DrainedIsWhole == stage = "stopped" => \A ch \in Range(applied) : ch \in Range(ledger)
=============================================================================

------------------------------ MODULE Sweeper ------------------------------
(***************************************************************************)
(* The cron sweeper of the daemon: jobs first, then agents, one sweep at a *)
(* time.                                                                   *)
(*                                                                         *)
(* A pass (sweep_once) copies the rows out of the live ServerState, raises *)
(* each copy's last_run to the durable mark, fires what is due with no     *)
(* lock held, records every firing and its stamp under one write guard,    *)
(* and then writes the durable marks one by one. Meanwhile requests insert, *)
(* replace and remove rows (apply_server_write), a restart empties the     *)
(* live state and replays the config file row by row, and the sweeper runs *)
(* through all of it. last_run is execution state: the config file does not *)
(* carry it, and a durable mark outlives the row it was written for. Two   *)
(* rows may even have one durable key: "cron/", the job's name, "/last_run" *)
(* is the key of an agent as well when that name begins with "agent/".     *)
(***************************************************************************)
EXTENDS Naturals, Sequences, FiniteSets

CONSTANTS
    Jobs, Agents,  \* the rows of /server/jobs and of /server/agents
    KeyOf,         \* the durable key of each row's mark
    Periods,       \* intervals an EVERY clause may name
    Never,         \* a cadence that does not parse, or an agent with no cadence
    None,          \* no row, no mark
    HistoryCap,    \* JOB_RUN_HISTORY_CAP
    MaxTime,       \* bound: the clock
    MaxWrites,     \* bound: config writes
    MaxCrashes     \* bound: restarts

ASSUME BoundsAssumption == MaxTime \in Nat /\ MaxWrites \in Nat /\ MaxCrashes \in Nat
ASSUME PeriodsAssumption == Periods \subseteq Nat \ {0} /\ HistoryCap \in Nat \ {0}
ASSUME NoneAssumption == None \notin Nat

Units    == Jobs \cup Agents
Cadences == Periods \cup {Never}
Times    == 0 .. MaxTime
Marks    == Times \cup {None}
CronRows == [every : Cadences, mark : Marks]

ASSUME NoRowAssumption == None \notin CronRows

\* last_run_key and agent_last_run_key, and the rows that have the key of u.
Key(u)       == KeyOf[u]
MarkKeys     == {Key(u) : u \in Units}
Namesakes(u) == {v \in Units : Key(v) = Key(u)}
Outcomes == {"fired", "refused"}   \* refused: denied, blocked and failed alike

VARIABLES
    clock,
    rows,      \* live row of each unit: None or its cadence and last_run
    runs,      \* run history of each unit, newest last
    config,    \* cadence of each unit in the boot config file
    booting,   \* units the boot has still to replay
    durable,   \* durable last_run marks, by key
    sweep,     \* the sweep under way
    writes, crashes,
    lastFired, \* history: instant of the last firing that committed
    lastTry,   \* history: instant of the last firing of any outcome
    forgot     \* history: units whose last mark was lost with the only place that held it

rowVars   == <<rows, runs, config, booting>>
boundVars == <<writes, crashes>>
pastVars  == <<lastFired, lastTry, forgot>>
sweeperVars == <<clock, rowVars, durable, sweep, boundVars, pastVars>>

NoSweep == [at |-> "idle"]

SweeperInit ==
    /\ clock = 0
    /\ config \in [Units -> Cadences \cup {None}]
    /\ booting = {u \in Units : config[u] # None}
    /\ rows = [u \in Units |-> None] /\ runs = [u \in Units |-> <<>>]
    /\ durable = [k \in MarkKeys |-> None]
    /\ sweep = NoSweep
    /\ writes = 0 /\ crashes = 0
    /\ lastFired = [u \in Units |-> None] /\ lastTry = [u \in Units |-> None]
    /\ forgot = {}

-----------------------------------------------------------------------------
\* The newer of two marks.
\* Mutant: the durable mark wins, whatever the live row says.
NewerMark_Second(m, n) == IF n = None THEN m ELSE n
NewerMark(m, n) == IF n = None \/ (m # None /\ n <= m) THEN m ELSE n

\* is_due over interval_secs: a missed interval collapses into one firing.
\* Mutant: a row that never ran waits for a first run.
Due_NotTheFirst(row, now) == row.every # Never /\ row.mark # None /\ now >= row.mark + row.every
Due(row, now) ==
    row.every # Never /\ (row.mark = None \/ now >= row.mark + row.every)

\* An instant that is not before another; any instant is after none.
NotBefore(old, new) == old # None => new # None /\ old <= new

\* CronOutcome::committed: only a firing that committed is stamped.
\* Mutant: a refusal is stamped too.
Stamps_Refusals(outcome) == TRUE
Stamps(outcome) == outcome = "fired"

\* insert_row: a replaced row keeps its last_run, a fresh one has none.
\* Mutant: the row is replaced whole.
Replacing_Whole(u, every) == [every |-> every, mark |-> None]
Replacing(u, every) ==
    [every |-> every, mark |-> IF rows[u] = None THEN None ELSE rows[u].mark]

-----------------------------------------------------------------------------
(* Configuration *)

Replay(u) ==
    /\ u \in booting
    /\ rows' = [rows EXCEPT ![u] = Replacing(u, config[u])]
    /\ booting' = booting \ {u}
    /\ UNCHANGED <<clock, runs, config, durable, sweep, boundVars, pastVars>>

Accepting == booting = {} /\ writes < MaxWrites

\* INSERT, UPDATE and UPSERT; the file is re-emitted without runtime fields.
Put(u, every) ==
    /\ Accepting
    /\ rows' = [rows EXCEPT ![u] = Replacing(u, every)]
    /\ config' = [config EXCEPT ![u] = every]
    /\ writes' = writes + 1
    /\ UNCHANGED <<clock, runs, booting, durable, sweep, crashes, pastVars>>

Forgetting(S) == {u \in S : ~NotBefore(lastFired[u], durable[Key(u)])}

\* REMOVE drops the row and its history, and leaves the durable mark.
Remove(u) ==
    /\ Accepting /\ rows[u] # None
    /\ rows' = [rows EXCEPT ![u] = None]
    /\ runs' = [runs EXCEPT ![u] = <<>>]
    /\ config' = [config EXCEPT ![u] = None]
    /\ forgot' = forgot \cup Forgetting({u})
    /\ writes' = writes + 1
    /\ UNCHANGED <<clock, booting, durable, sweep, crashes, lastFired, lastTry>>

-----------------------------------------------------------------------------
(* One sweep *)

\* The rows of a pass, hydrated: the live last_run raised to the durable mark.
Hydrated(u) == [rows[u] EXCEPT !.mark = NewerMark(@, durable[Key(u)])]

Pass(now, units) ==
    LET seen == {u \in units : rows[u] # None} IN
    [at |-> "hydrate", now |-> now, units |-> units, row |-> [u \in seen |-> Hydrated(u)],
     raised |-> {u \in seen : Hydrated(u) # rows[u]}]

\* now_secs() is read once for the two passes.
BeginSweep ==
    /\ sweep.at = "idle"
    /\ sweep' = Pass(clock, Jobs)
    /\ UNCHANGED <<clock, rowVars, durable, boundVars, pastVars>>

\* The marks that were raised go back into the rows that are still there.
Hydrate ==
    /\ sweep.at = "hydrate"
    /\ rows' = [u \in Units |->
                  IF u \in sweep.raised /\ rows[u] # None
                  THEN [rows[u] EXCEPT !.mark = NewerMark(@, sweep.row[u].mark)]
                  ELSE rows[u]]
    /\ sweep' = [at |-> "fire", now |-> sweep.now, units |-> sweep.units, row |-> sweep.row,
                 todo |-> {u \in DOMAIN sweep.row : Due(sweep.row[u], sweep.now)},
                 done |-> <<>>]
    /\ UNCHANGED <<clock, runs, config, booting, durable, boundVars, pastVars>>

\* fire_one: build, policy gate, irreversibility gate, commit, with no lock held.
Fire(u, outcome) ==
    /\ sweep.at = "fire" /\ u \in sweep.todo
    /\ sweep' = [sweep EXCEPT !.todo = @ \ {u},
                              !.done = Append(@, [unit |-> u, outcome |-> outcome])]
    /\ lastTry' = [lastTry EXCEPT ![u] = sweep.now]
    /\ lastFired' = IF outcome = "fired" THEN [lastFired EXCEPT ![u] = sweep.now] ELSE lastFired
    /\ forgot' = IF outcome = "fired" THEN forgot \ {u} ELSE forgot
    /\ UNCHANGED <<clock, rowVars, durable, boundVars>>

\* record_job_run: the newest HistoryCap records.
Recorded(history, run) ==
    LET longer == Append(history, run) IN
    SubSeq(longer, IF Len(longer) > HistoryCap THEN Len(longer) - HistoryCap + 1 ELSE 1, Len(longer))

RunOf(u) == CHOOSE i \in DOMAIN sweep.done : sweep.done[i].unit = u
Ran      == {sweep.done[i].unit : i \in DOMAIN sweep.done}

\* One write guard over every run of the pass: the record goes in whether or not
\* the row is still there, the stamp only into a row.
Record ==
    /\ sweep.at = "fire" /\ sweep.todo = {}
    /\ runs' = [u \in Units |->
                  IF u \in Ran
                  THEN Recorded(runs[u], [at |-> sweep.now, outcome |-> sweep.done[RunOf(u)].outcome])
                  ELSE runs[u]]
    /\ rows' = [u \in Units |->
                  IF u \in Ran /\ rows[u] # None /\ Stamps(sweep.done[RunOf(u)].outcome)
                  THEN [rows[u] EXCEPT !.mark = sweep.now]
                  ELSE rows[u]]
    /\ sweep' = [at |-> "persist", now |-> sweep.now, units |-> sweep.units,
                 marks |-> {u \in Ran : Stamps(sweep.done[RunOf(u)].outcome)}]
    /\ UNCHANGED <<clock, config, booting, durable, boundVars, pastVars>>

\* write_last_run.
Persist(u) ==
    /\ sweep.at = "persist" /\ u \in sweep.marks
    /\ durable' = [durable EXCEPT ![Key(u)] = sweep.now]
    /\ sweep' = [sweep EXCEPT !.marks = @ \ {u}]
    /\ forgot' = forgot \ {u}
    /\ UNCHANGED <<clock, rowVars, boundVars, lastFired, lastTry>>

\* A failed write is logged: the live row alone carries the mark from now on.
PersistFails(u) ==
    /\ sweep.at = "persist" /\ u \in sweep.marks
    /\ sweep' = [sweep EXCEPT !.marks = @ \ {u}]
    /\ forgot' = IF rows[u] # None /\ rows[u].mark = sweep.now THEN forgot ELSE forgot \cup {u}
    /\ UNCHANGED <<clock, rowVars, durable, boundVars, lastFired, lastTry>>

\* The agents' pass follows the jobs' pass with the same now, then the sweep ends.
EndPass ==
    /\ sweep.at = "persist" /\ sweep.marks = {}
    /\ sweep' = IF sweep.units = Jobs THEN Pass(sweep.now, Agents) ELSE NoSweep
    /\ UNCHANGED <<clock, rowVars, durable, boundVars, pastVars>>

-----------------------------------------------------------------------------
(* Time and failure *)

Tick ==
    /\ clock < MaxTime
    /\ clock' = clock + 1
    /\ UNCHANGED <<rowVars, durable, sweep, boundVars, pastVars>>

\* The process dies and starts again: the sweeper is spawned before the boot.
Crash ==
    /\ crashes < MaxCrashes
    /\ crashes' = crashes + 1
    /\ rows' = [u \in Units |-> None] /\ runs' = [u \in Units |-> <<>>]
    /\ booting' = {u \in Units : config[u] # None}
    /\ sweep' = NoSweep
    /\ forgot' = forgot \cup Forgetting(Units)
    /\ UNCHANGED <<clock, config, durable, writes, lastFired, lastTry>>

SweepStep ==
    \/ BeginSweep \/ Hydrate \/ Record \/ EndPass
    \/ \E u \in Units : \/ Persist(u) \/ PersistFails(u)
                        \/ \E outcome \in Outcomes : Fire(u, outcome)

Boot == \E u \in Units : Replay(u)

SweeperNext ==
    \/ Boot \/ SweepStep
    \/ \E u \in Units : Remove(u) \/ \E every \in Cadences : Put(u, every)
    \/ Tick \/ Crash

\* The interval keeps ticking, a sweep is awaited and a commit returns; the
\* boot goes through its file. Time itself need not pass.
Fairness == WF_sweeperVars(SweepStep) /\ WF_sweeperVars(Boot)

SweeperSpec == SweeperInit /\ [][SweeperNext]_sweeperVars /\ Fairness

-----------------------------------------------------------------------------
SweeperTypeOK ==
    /\ clock \in Times
    /\ rows \in [Units -> CronRows \cup {None}]
    /\ \A u \in Units : Len(runs[u]) <= HistoryCap
    /\ config \in [Units -> Cadences \cup {None}]
    /\ booting \subseteq Units /\ forgot \subseteq Units
    /\ durable \in [MarkKeys -> Marks]
    /\ lastFired \in [Units -> Marks] /\ lastTry \in [Units -> Marks]
    /\ sweep.at \in {"idle", "hydrate", "fire", "persist"}

\* Two firings of a row that both committed are a period apart, over replaced,
\* removed and re-created rows and restarts, unless the process died or the
\* row was removed while nothing but it carried the mark.
OncePerPeriod ==
    [][\A u \in Units :
        lastFired'[u] # lastFired[u] /\ lastFired[u] # None =>
            \/ u \in forgot
            \/ lastFired'[u] >= lastFired[u] + sweep.row[u].every]_sweeperVars

\* A mark, live or durable, is not after the last committed firing of a row with
\* its durable key, that is of the row itself where no other has its key: no
\* refusal, failed write or stale copy moves it on.
IsAFiring(mark, u) == \E v \in Namesakes(u) : lastFired[v] # None /\ mark <= lastFired[v]
MarkIsAFiring ==
    \A u \in Units :
        /\ durable[Key(u)] # None => IsAFiring(durable[Key(u)], u)
        /\ rows[u] # None /\ rows[u].mark # None => IsAFiring(rows[u].mark, u)

\* No step takes a mark back: the durable mark of a key, and the live one of a
\* row that stays, only move on to a later firing, though a row is replaced
\* while it fires, a durable write fails and leaves the older mark in the
\* store, and the stamp of a pass goes into whatever row has the name by then.
MarksMoveOn ==
    [][\A u \in Units :
        /\ NotBefore(durable[Key(u)], durable'[Key(u)])
        /\ rows[u] # None /\ rows'[u] # None => NotBefore(rows[u].mark, rows'[u].mark)]_sweeperVars

\* A row whose period has passed since the last committed firing under its key
\* does not wait for ever for a try, whatever is written meanwhile and however
\* often the process restarts.
PeriodOver(u, v) == lastFired[v] = None \/ clock >= lastFired[v] + rows[u].every
Untried(u) == /\ rows[u] # None /\ rows[u].every # Never
              /\ lastTry[u] = None \/ lastTry[u] < clock
Waiting(u) == Untried(u) /\ \A v \in Namesakes(u) : PeriodOver(u, v)
DueIsTried == \A u \in Units : []<>~Waiting(u)

\* The comment on agent_last_run_key: a namespace of its own, "so an agent and a
\* job of the same name never collide". A mark is a firing of that very row.
OwnMarks ==
    \A u \in Units : rows[u] # None => NotBefore(rows[u].mark, lastFired[u])

\* cron.rs of is_due: a job is due once its own interval is over.
OwnPeriodIsTried == \A u \in Units : []<>~(Untried(u) /\ PeriodOver(u, u))

\* driver.rs of REMOVE: "The run history lives and dies with its job row".
HistoryHasRow == \A u \in Units : runs[u] # <<>> => rows[u] # None

\* cron.rs of is_due: a never-run job is due immediately. What was removed and
\* created again has not run.
FreshIsDue ==
    \A u \in Units :
        sweep.at = "fire" /\ u \in DOMAIN sweep.row /\ rows[u] # None
            /\ sweep.row[u].every # Never /\ runs[u] = <<>> /\ crashes = 0
            => sweep.row[u].mark = None
=============================================================================

# qfs: formal models, checks and proofs

This directory specifies the core of `qmu/qfs` in TLA+. qfs puts one pipe-SQL
language over many services: a statement is described, previewed as a *plan* (a
graph of effects), and committed. Around that core it runs a server with
webhooks, triggers, scheduled jobs and policies, stores for credentials and
identities, and a hash-chained audit log. The code lives under
`src/packages/qfs/crates/<crate>/src`; paths below are relative to `crates/`.

Contents:

1. [Inventory of the system](#1-inventory)
2. [The modules and the code they stand for](#2-modules)
3. [Runs: what is checked, with which bounds](#3-runs)
4. [Fairness](#4-fairness)
5. [Proofs](#5-proofs)
6. [Where code and documentation disagree](#6-divergences)
7. [What is not modelled, and the plan](#7-plan)
8. [Running it](#8-running)

## 1. Inventory

How the parts interact: the language front end turns text into a plan; the
plan is committed by one of four walks (sequential, concurrent, transactional,
saga) that call *drivers*, clients of the outside services. The server keeps
endpoints, triggers, jobs, webhooks and policies as rows of its own state; a
change of that state is itself a committed plan, after which every *binding*
(HTTP router, watchtower, cron) is reconciled to the new state. Webhooks and
watchers publish events on a bus; a dispatch loop matches them with triggers
and commits the handler's plan under the trigger's policy. The sweeper fires
due jobs the same way. Commits are followed by audit events on a hash chain.

### Parts with concurrency, failure or persistence

| Part (code) | State | Operations | What is hard | What makes it correct |
|---|---|---|---|---|
| Plan graph (`plan/src/topo.rs`, `plan.rs`) | none (pure) | `topo_order` | duplicate and dangling edges, cycles | orders every acyclic plan and no other; ties by `NodeId` |
| Sequential commit (`plan/src/apply.rs`) | report (applied, skipped, first failure), taint | `commit` | a failure halfway | dependents of a failure are skipped, nothing else is; call log respects the graph |
| Concurrent interpreter (`runtime/src/interpreter.rs`, `schedule.rs`, `batch.rs`, `bridge.rs`, `caps.rs`) | frontier (in-degrees, dispatched, settled, tainted), admission queue, batches in flight, permits, per-leg outcome and attempts, blocking threads | `commit`, `run_group`, `dispatch_with_timeout`, `apply_one`, `preview` | batches finish in any order; two ceilings taken at different times; a timeout does not stop the blocking thread; retry of what may have landed | order, at-most-once for irreversible effects, truthful ledger, refused effects never start, ceilings, nothing dropped, termination, PREVIEW an upper bound |
| Transactional commit (`runtime/src/txn.rs`, `txn/src/ledger.rs`, `outcome.rs`, `report.rs`, `strategy.rs`) | ledger of intents and seals (in memory), outcome per leg | `commit_txn`, `apply_txn_leg` | cut off between write and seal; answer lost; re-run over an old ledger; ACID rollback | apply-once over any runs, no hole in the applied prefix, seals true, clean re-run a no-op |
| Saga executor (`txn/src/saga.rs`, `leg.rs`, `version.rs`) | the same ledger, applied-this-run, compensations | `run_saga`, `run_acid` | conflict retry against other writers; undo halfway; re-run | only own legs undone, newest first, none left; one landing per run |
| Event bus (`watchtower/src/bus.rs`) | bounded channel, spool by event id | `publish`, `ack`, `redeliver_unacked` | publish is two steps; full channel; ack by key | accepted events are delivered at least once |
| Webhook ingest, dispatcher, daemon loop (`watchtower/src/webhook.rs`, `dispatch.rs`, `commit.rs`, `binding.rs`, `qfs/src/watchtower.rs`) | route, trigger and policy tables (each swapped on its own), ledger of seen keys, history of fires | `ingest`, `handle`, `commit`, `reconcile` | sender retries, redelivery, partial failure, live reconfiguration | one net effect per key, seen keys silent, permissions in force, the spool drains |
| Watchers (`watchtower/src/watcher.rs`) | cursor (in memory), rows in hand | `poll_once` | a changing source, a full bus, a cancelled poll, two watchers of one source | nothing skipped, the cursor never ahead of the bus |
| Cron and sweeper (`watchtower/src/cron.rs`, `qfs/src/sweeper.rs`) | `last_run` marks (live and durable), run history, the sweep in hand | `is_due`, `fire_due`, `sweep_once` | crash between commit and mark; a row replaced, removed or created again while it fires; a mark that outlives its row | marks are firings, one firing per period while a mark survives, what is due is tried |
| Server runtime (`server/src/runtime.rs`, `state.rs`, `driver.rs`, `binding.rs`, `qfs/src/provision.rs`) | configuration rows, bindings, notifications, audit ledger, the boot config file, materialized views | a request's commit and re-emission, `run`, `handle_reconfigure`, `boot`, `refresh_materialized_view` | requests on threads of their own, one temporary file name, shutdown with work under way | bindings, ledger and file tell the story of the state |
| One-shot credentials (`store/src/invite_store.rs`, `oauth_store.rs`, `session_store.rs`, `qfs/src/oauth.rs`, `invite.rs`) | rows with used, revoked and expiry marks, handlers half way through | `/authorize`, `/token`, accept or revoke an invite | two connections, a handler of several transactions, ignored failures | one live credential per consent, one session per sign-in, one member per invite |
| Audit chain and witness (`store/src/audit.rs`, `worm.rs`, `qfs/src/audit.rs`, `commit.rs`, `sys.rs`) | chained rows, one head row, bounded tail, log of `/sys` writes, seals | append, prune, `/sys` write, seal, verify | several processes, deferred transactions, crash after the commit | head and tail agree, seals hold, both ledgers of a write agree |
| Migrations (`store/src/migrate.rs`) | ledger of applied bodies, the tables, the open of each process | `migrate`: look up, apply, heal | every process migrates the file it opens; the lookup is outside the transaction; bodies that were edited after their release | an opened file has the tables the code was written for; openers do not collide |
| Secrets vault (`qfs/src/secret_store.rs`, `vault.rs`, `connection.rs`, `session_unlock.rs`, `secrets/src/slots.rs`) | slots (wraps of one data key), credentials, the keychain entry, the cached session | open through the guardians, put, rotate, revoke and remove a credential, enroll, revoke, rekey, unlock, lock | several processes, commands of several statements, three stores (database, keychain, session file) that no transaction spans | every credential is sealed with the key the slots wrap; a slot can always be opened |

### Sequential parts

| Part | What it does | What would make it correct |
|---|---|---|
| Policy enforcement (`server/src/policy`) | decides a plan's effects against a policy | default deny; the first matching rule decides |
| Pushdown planner (`pushdown`) | splits a query between source and engine | same result as the unsplit query |
| Provisioning (`provision`) | diffs two configurations, orders the difference | applying the diff yields the target |
| Language front end (`lang`, `parser`, `core`, `types`) | lexing, parsing, names, types, constant evaluation | round trip, type soundness |
| Query execution and codecs (`exec`, `engine`, `codec`, `sql-core`) | evaluates read queries row by row | relational semantics |
| Drivers (`driver-*`) | clients of outside services | external to the models |
| Tunnel, MCP, HTTP face (`tunnel`, `mcp`, `http`) | framing, routing, request handling | one answer per request |
| Identity and sign-in (`identity`, `session`, `oauth`) | validation of tokens and requests | see the one-shot stores |
| Host daemon, command line, console, viewer | composition, terminal and browser I/O | |

`PROJECT.json` lists every part with its status and, under `hazards`, the
places in the code where these things can go wrong, with the properties that
watch them.

## 2. Modules

```
PlanGraph ── EffectWalk
    ├── PlanCommit   (implements EffectWalk) ── PlanCommit_proofs
    └── Interpreter  (implements EffectWalk) ── MCInterpreter, Interpreter_proofs
TxnCommit ── MCTxnCommit, TxnCommit_proofs
Saga ── MCSaga, Saga_proofs
EventBus ── Watchtower ── MCWatchtower ─┐
        └── Watcher ────────────────────┼─ Watchtower_proofs
Sweeper ── MCSweeper ───────────────────┘
ServerRuntime ── MCServerRuntime, ServerRuntime_proofs
SysTables ── AuditChain  (implements AuditLog) ── MCAuditChain, AuditChain_proofs
Credentials ── MCCredentials ───────┐
Migration ─┐                        ├─ Credentials_proofs
Vault ─────┴─ ProjectDb ── MCProjectDb ─┘
```

**PlanGraph** (`plan/src/topo.rs`). A plan is a set of node ids and a list of
edges that may name one edge twice and nodes that do not exist; `TopoOrder` is
Kahn's algorithm as the code runs it (a counter per node, lowered once per list
entry, and a ready list sorted by id), written as a recursive function. `Acyclic`
is the reference definition it is compared with. Payloads, drivers and verbs of
effects are abstracted away. `Interpreter` has counters of its own, over a set
of edges: copies of an edge are only in this part.

**EffectWalk** is the abstract specification: what any commit promises of each
effect. Effects are decided once, in any order and in sets of any size, each
only after its parents; a blocked one is skipped, a denied one is never applied.

**PlanCommit** (`plan/src/apply.rs`). One action per turn of the `for` loop:
`SkipNode`, `ApplyOk`, `ApplyErr`. The applier's answer is nondeterministic.

**Interpreter** (`runtime/src`). The commit loop is one task: `Surface` (the
ready-set, skips, denials, coalescing), `Admit` (a global permit and a place in
`in_flight`), `EndPass` (the loop's exits), and, while it awaits a batch, the
steps of the batch futures it polls: `AcquirePermit`, `Dispatch`, `ApplyOne`,
`BatchReturns`, `BatchTimesOut`, `Fold`. `JobEnds` is the blocking thread of one
attempt: it runs whether or not anybody still awaits it, and its write may have
reached the World whatever it reports. A leg's whole life is one value of
`leg`; the World is a counter of writes per node. A capability is a set of
denied nodes, a transient failure the verdict `"retryable"`. Backoff and tokens
are left out: they delay or label, and decide nothing that a property reads.

**TxnCommit** (`runtime/src/txn.rs`, `txn/src/ledger.rs`). Each leg goes
through `SkipLeg`, `Refuse` or `Intend`, then `DriverApplies` and `Settle`;
`Crash` may come anywhere and keeps the ledger, as the documentation of the trait
`AuditLedger` wants it; the only ledger there is, `InMemoryLedger`
(`txn/src/ledger.rs:21`), dies with its process, so for today's code a crash is a
commit whose future was dropped and a run a later call in the same process.
`Report` and `Rollback` end an ACID run. The service behind the driver is external: it may write and fail to
answer, refuse a stale version, and be written by others (`ForeignWrite`).

**Saga** (`txn/src/saga.rs`). `run_saga` and `run_acid` over the same kind of
ledger: `Intend`, `Apply`, `Rebase` (the bounded conflict retry), `Settle`, then
`Compensate` from the newest leg back, or `Rollback`. An undo may fail, or be the
default that does nothing (`RunUndo`); the saga cannot know and goes on, and
`undoFailed` remembers it for the properties.

**EventBus** (`watchtower/src/bus.rs`). The two halves of `publish` (spool, then
`try_send`), `ack` and the channel, as operators that Watchtower and Watcher
compose with their own steps. An event is its id: id and dedup key come from the
same source and native id.

**Watchtower** (`watchtower/src/webhook.rs`, `dispatch.rs`, `commit.rs`,
`binding.rs`, `qfs/src/watchtower.rs`). Three kinds of actor interleave:
listener threads (`LookUp`, `Refuse`, `PublishSpool`, `PublishSend`), the dispatch task
(`Take`, then trigger by trigger `Gate`, `Grant`, `CommitOk`, `CommitErr`, then
`Finish`, `AckIt`), and the runtime's reconcile (`Swap`, one table at a time, in
the order routes, triggers, policies). The gate's reading of the policy table
and the commit are separate steps, as in the code. `Redelivers` switches on the
callers of `redeliver_unacked`, which only tests have.

**Watcher** (`watchtower/src/watcher.rs`). `poll_once` row by row: `Scan` (the
read, which is awaited), `LoadCursor`, `PassKnown`, `Publish`, `Save`, with `Cancel` anywhere; the world inserts,
rewrites and deletes rows, and a second watcher may poll the same source, hence
the same cursor key.

**ServerRuntime** (`server/src/runtime.rs`, `state.rs`, `driver.rs`, `qfs/src/mcp.rs`,
`qfs/src/provision.rs`). A configuration write is a request on a thread of its
own: `Gate`, `ApplyWrite` under the state lock, `Notify`, then the re-emission of
the boot config as `Snapshot`, `OpenTmp`, `WriteTmp`, `Rename`. The run loop is
`HandleReconfigure` and `ShutDown`; a boot replays the file (`ReplayStatement`,
`Serve`); `Crash` may come anywhere. A file is the state it was rendered from, and
the constant `ReadAs` says what a boot makes of the statement rendered for a row:
`provision/src/emit.rs:229` writes a policy's name and handler unquoted, so a
statement may read back as another row or content, or be refused, which ends the
boot (`BootFails`). The disk is a set of inodes, because the
temporary name is one for the whole process: a writer keeps the descriptor it
opened whatever the name means by then.

**Sweeper** (`watchtower/src/cron.rs`, `qfs/src/sweeper.rs`, `server/src/driver.rs`).
One sweep is `BeginSweep`, `Hydrate`, a `Fire` per due row, `Record`, a `Persist`
or `PersistFails` per mark, `EndPass`, first for jobs, then for agents with the
same `now`. Between any two of these a request writes a row (`Put`, `Remove`),
the boot replays one (`Replay`), the clock moves, or the process dies. `KeyOf` gives
each row its durable key: the key of a job named `agent/x` is that of the agent
`x`, so that two rows (`Namesakes`) may have one mark between them.

**AuditChain** (`store/src/audit.rs`, `worm.rs`, `qfs/src/audit.rs`, `commit.rs`,
`sys.rs`). Every client is a connection. A transaction that begins with a read
has a snapshot and may write only if it is still the newest, one that begins with
a write waits for the lock; a lost upgrade drops the event, as `emit_audit` does.
A hash is the sequence of contents it stands for. `/sys` writes put their row,
their audit entry and their log entry down together. A commit owes an event for
each effect that applied (`committed`) and each irreversible one that was tried
and failed (not `committed`).

**SysTables** (`qfs/src/sys.rs`, `path_binding.rs`). The tables under `/sys` and
the statements that write them: policies (no unique key), settings, billing (an
operator's upsert, a provider's delivery), paths with aliases that cascade, and
declarations of a kind, a name and a verb. A write has the keys its statement
acts on (`acts`) and those its payload names (`told`), the value and what the
payload shows of it (`LogText`: secrets redacted). `Replay` runs the payloads
again on empty tables. `/sys/accounts` is left out, its rows are in the Project
DB. `refuse_if_driver_has_dependents` (`driver-sys/src/applier.rs:222`) looks in
a transaction before the removal and holds nothing, so `RemoveDriver` is not
guarded by it.

**AuditLog** is the abstract specification of that: one audit log and one
configuration log, both growing at the end only. A commit owes one event per
effect, which is recorded once or given up; a configuration write enters both
logs in one step. AuditChain implements it with the history that the head's hash
stands for as the audit log, and what is still on some connection's list as owed.

**Credentials** (`qfs/src/oauth.rs`, `invite.rs`, `store/src/*_store.rs`). A store
call is one transaction; a handler is a sequence of them, and every call may fail
on its own. `root` ties a token to the consent or sign-in it goes back to, over
any number of rotations. An invite is looked up and burned in two steps, with
other commands between them.

**Migration** (`store/src/migrate.rs`). One open is `BeginOpen`, then version by
version `Verified`, `Pending` followed by `Apply` or `AppliedMeanwhile`,
`IsSuperseded` followed by `Heal`, or `Mismatch`, then `EndOpen`. The lookup and
the transaction are separate steps; `Apply` and `Heal` are one transaction each.
A body stands for its SQL and its checksum, and `SchemaOf` for what it leaves the
tables as, so that a body edited in its comments differs in the first only.

**Vault** (`qfs/src/secret_store.rs`, `vault.rs`, `connection.rs`,
`session_unlock.rs`). A command climbs the ladder of `open_store` (keychain,
session, passphrase) and then does its work one statement at a time. A wrap is
the pair of the key inside and the key around it. The first open mints the data
key (`MintDataKey`) and inserts its wrap (`InsertFirstSlot`); an enrolment is
`NotYetEnrolled`, `SetEntry`, `EnrollSlot`, a revocation `FindSlot`, `DeleteSlot`
or `SlotRefused`, `DeleteEntry`, a rekey `Rewrap`, `UpdateSlot`. `GiveUp` ends a
command anywhere. The keychain may be unavailable at any time, so reading it and
loading the slots are one step. A session past its deadline is gone
(`SessionEnds`).

**ProjectDb** composes the two: every process migrates the file and then works
on the vault in it, and the migration that creates the slot table carries the
wrap of an older store into it (`CopyOldWrap`). The vault found fits the ledger
found. A process opens the file many times; after its first open `migrate` finds
nothing to do as long as the file is there, so the model has one open per life.

An operator named `X_Something` next to `X` is a plausible wrong version of `X`
(a dropped guard, an off-by-one, a lost reset), and a comment says which. It is
not part of any specification; it is there to show that a property can fail.

## 3. Runs

Deadlock is checked for the commit walks, whose end is an explicit stuttering
step (`Returned`). It is off (`CHECK_DEADLOCK FALSE`) for the others, which stop
when their bounded runs, requests or rows are used up.

| Run | Question | Bounds and why they are enough |
|---|---|---|
| `plan_commit` | Is the topological order right, and does the sequential walk implement EffectWalk? | All edge lists over three nodes with no, one or two entries per edge, alone or with edges to and from a node that is not there (39366): cycles, self-loops, forks, joins, chains, duplicates |
| `interp_shape` | Does the loop lose nothing, keep both ceilings, agree with PREVIEW, implement EffectWalk? | All forward graphs over four nodes (the first size with a diamond and a queue behind two permits), splits into batches of two drivers, one of them unregistered, a denied node; global 2, per driver 1, no retry |
| `interp_live` | Do order, at-most-once and truth survive timeouts, retries and late threads, and does the commit return? | All DAGs over three nodes, one or two batches, an irreversible node or none, with and without a timeout; two attempts, the least number with a retry racing an abandoned thread |
| `txn_resume` | Is a plan applied once over any history of runs? | Three legs of eight shapes (every kind of write), three runs, a crash anywhere: a crash in the first, its consequences in the second, a resume of both in the third |
| `saga` | Are compensation and conflict retry right, also when an undo fails? | Three legs of four shapes, two runs, one retry, two foreign versions |
| `tower` | Do ingest, delivery and reconfiguration keep their promises together? | Two events, three requests (one event asked for twice), two triggers, three configurations, a bus of two slots, failing commits, redelivery |
| `watcher` | Does a poll never skip a row? | Two rows that may be deleted, two watchers of one source, a bus of one slot |
| `audit_chain` | Do head, tail and seals stay in step, do the log of `/sys` writes, the stream and the tables tell one story up to what the payloads leave out, and do the connections implement AuditLog? | Two connections, an irreversible effect, one sealer and one seal (one is contradicted or it is not); a tail of two rows, pruned while the seal is out; every table: a policy with two values, a secret setting, a team with a delivery, a path and its alias, a driver and a view of one name; three log entries (a binding, its alias, their removal; a driver, a view, the removal of both) |
| `credentials` | Is every one-shot token redeemed at most once, and does what is over stay over? | Three handlers in three casts (two browsers and an application, a browser and two applications, two redeemers and an inviter), two invites, six tokens: a sign-in, its rotation, a code, a handle and two rotations of it |
| `server` | Do bindings, audit ledger and boot config follow the state? | Two rows, one of them the policy that admits the writes, two requests at once, three in all, one stop or crash: the third request meets what two overlapping ones left behind; one statement that reads back as another content and one that is refused; 3.4 million states |
| `sweeper` | Is a mark a firing that nothing takes back, does no period see two, and is what is due tried? | A job `agent/x` and an agent `x`, whose durable key is one, period 2, clock to 3 (a first firing, an early sweep, the next period), two config writes (removed and created again), one restart; 1.3 million states |
| `project_db` | Is an opened file current, does it hold what its slots open, and can they be opened? | Two processes; two versions, the first with two superseded bodies (one edited in a column, one in its comments) and one nobody knows, found in seven states of the ledger; two passphrases, one credential, four keys and four slots (the first, an enrolment and a second one after a revocation, and the other process's), in seven casts of commands, two processes each in those about founding, the keychain and the passphrase; 3 million states |

Two configurations widen a run and pass as well: `MCAuditChain_plans` checks the
chain and its refinement with plans of two effects, one of them irreversible, and
`MCSweeper_live` checks `DueIsTried` where the job and the agent have keys of
their own and neither firing excuses the other.

In `project_db` two processes may found a store at a time, save into it beside a
deletion of the file, and work on the one keychain entry at a time: the code
prevents none of this and breaks its promises there. So what it promises without
a condition (`OneDataKey`, `SomebodyOpens`) is in section 6, and the invariants
(`EveryRowOpens`, `NeverBricked`) say it of every file that three steps have not
met: an insert of a first slot beside another founder, a session that opened a
file without its key, an entry set beside another's slot. The history variable
`mishaps` records these steps and forgets them with the file.

The parameters bound: `MaxRuns` the runs over one ledger, `MaxForeign` the
versions other writers reach, `MaxAttempts` and `ConflictRetries` are the code's
own policies, `MaxTokens`, `MaxWrites`, `MaxCommits`, `MaxStops`, `MaxTime` and
`MaxCrashes` end the histories of ServerRuntime, Sweeper,
AuditChain and Credentials, `PlanSize` the events of one commit, `MaxSeals` the
seals of the witness, `MaxKeys` and `MaxSlots` the keys minted and the slot
ids given out in Vault, `commits` in Watchtower counts to two (once, or more than once),
`Versions` and `Keys` the source a watcher reads.

The type invariants are not among the properties of the runs: they are proved
(section 5), Watcher's for sources with an id column, and were checked with the
same configurations first.

What the deeper properties say:

* `IrreversibleAtMostOnce`: writes that landed plus threads still running are at
  most one per irreversible effect. It needs the retry rule and the fact that a
  timed-out attempt is not stopped.
* `NothingLost`: the loop has three ways to end a pass; none of them leaves a
  queued batch or an undecided node when commit returns.
* `PreviewIsHonest`: every effect that COMMIT applies was shown as applied, and
  a commit in which no leg failed has exactly the previewed ledger.
* `ApplyOnce`, `NoHoles`, `SealedIsHeld`, `ResumeCallsNobody`: together, the
  resume story of `commit_txn`. `ApplyOnce` assumes that a leg's precondition is
  also in the arguments the driver gets (`GuardsReachDriver`), see section 6.
* `NoOrphans`, `LandsOncePerRun`: the saga asks for every undo it can and for no
  other, whichever of them fail, and what is left in the World is exactly what
  has no undo or whose undo failed. The report does not tell the latter
  (`CompensatedIsUndone`, section 6).
* `OneNetEffect`: no second commit for a key, over duplicates,
  redelivery and reconfiguration, unless a commit of the key failed.
* `RevokedNeverCommits`: a commit has a permission that was in force since its
  event was taken; a policy table that is not live yet does not count, though
  the trigger table of the same configuration already is.
* `BindingsFollow`, `NothingUnrecorded`: a change is applied under the lock and
  notified after it, so the loop hears of changes in another order than they
  happened; it still ends at the newest state and records each change once.
* `FileIsState`, `FileIsWhole`: the boot config is the rendering of the state, and
  a whole document at every instant, as long as re-emissions do not overlap and the
  disk does not refuse one; and a process that booted from a file which reads back
  as it was meant has that state again. The excuses are values of the history
  variable `saved`; section 6 shows what happens without them.
* `OncePerPeriod`, `MarkIsAFiring`, `MarksMoveOn`, `DueIsTried`: the marks of a
  row, live and durable, never say more than what fired under its key, are never
  taken back, and hold no row back whose period is over for every row of its key.
  `forgot` excuses a firing whose only mark was lost. The three safety properties
  are checked where two rows have one key, where they are harder, and hold with
  keys of their own as well; of a row's own mark and period see section 6.
* `TailVerifies`, `SealsHold`: the chain is one line under concurrent
  connections, and a seal is a prefix of it.
* `LedgersAgree`: replaying the log gives the tables as the payloads show them.
  Declarations that `remove_driver` deleted under another kind's payload are
  excused (`untold`) until an entry names them again. Without the excuse, and
  against the rows themselves, it is violated (`LogRebuilds`, `LogHoldsTheRows`
  in section 6).
* `ImplementsLog` says what no state
  shows: that an entry, once on a log, stays where it is, and that nothing leaves
  a connection's list except for the end of the log or for good.
* `ConsentHasOneCredential` counts the code, the request between its burn and
  its insert, and the live handles of one consent: never two. A rotation that
  keeps the old handle, or a replay let through, breaks it.
* `OverStaysOver`: a handler works for a session, code or handle that it read
  some transactions ago; whatever happened to it meanwhile, no token that stopped
  resolving resolves again, and no sign-in or consent of which nothing is left
  comes back. Without the second look of `rotate` a session that expired would.
* `InviteMakesOneMember`: the burn is guarded again inside the transaction that
  creates the user; without that guard two redeemers make two members.
* `OpenedIsCurrent`, `OpenersDoNotCollide`: two processes look a version up at
  the same time and one acts on what the other has changed, or dies; neither ends
  with other tables than its code expects, nor with a second row.
* `EveryRowOpens`: the slots wrap one key and every credential is sealed with it,
  over enrolments, revocations, changes of passphrase, cached sessions and files
  deleted and founded again, unless two processes founded this file at a time or
  a session of an earlier file opened it. It needs the rule that only a store
  with no slot at all is fresh.
* `NeverBricked`: a keychain slot without its entry opens nothing, so it is not
  enough that a slot is left. The order of the steps (entry before slot, slot
  before entry) keeps one that opens, by any number of processes and over any
  that die, until one sets the entry beside another's slot.

## 4. Fairness

* `Interpreter!FairSpec`: weak fairness of the commit task (`Runtime`), which
  the executor polls whenever it can move and whose timer fires if there is one.
  Threads get weak fairness only in plans without a timeout: there the commit
  can only return if every driver call ends, and nothing in the code makes it.
* `EffectWalk!Spec` and `PlanCommit!Spec`: weak fairness of the one loop.
* `Watchtower!LiveSpec`: each listener thread, the dispatch task and the
  reconcile run on (weak fairness); where `Redelivers` holds, redelivery is
  called again and again. Strong fairness of `Grant` and `CommitOk`, per event
  and trigger, is an assumption about the outside: a commit that is tried again
  and again does not fail for ever. In the daemon (`MCWatchtower_daemon`) it helps
  nothing, because the second try never comes.
* `Sweeper!SweeperSpec`: weak fairness of the sweep (`SweepStep`: the interval ticks and
  each sweep is awaited) and of the boot's replay. The clock need not move.
* `ServerRuntime!Spec`: weak fairness of the run loop's `HandleReconfigure` and
  of each request's `Notify`. Nothing else is promised to happen.
* `AuditChain`, `Credentials` and `ProjectDb` state safety only.
* `Watcher!WatcherLiveSpec`: whoever polls (a timer, once there is one: section 7)
  polls again, the loop consumes.

## 5. Proofs

Eight modules hold theorems. Each is for every value of the constants that
satisfies the named assumptions of the modules: any sets of nodes, requests,
processes, rows and keys, any plans, shapes, configurations and bounds. Every
type invariant, safety invariant and step property of the runs is stated by a
theorem; liveness is not (see the end of this section).

The proofs have one shape. The property alone is seldom inductive, so a module
defines `IInv`, the property and what its actions rely on; the steps of the
specification have a lemma each that they keep it, and the theorem puts them
together. What follows is what the invariants say that the code states nowhere
in one place.

**PlanCommit_proofs** (any finite set of node ids, any edge list: any number of
entries per edge, any finite set of unknown nodes).
* `OrderIsRight`: Kahn's algorithm returns an order exactly for the acyclic
  plans, along the edges, ties by id. `KahnWalk` describes the sequence after
  any number of turns: a node comes when all its parents have, and is the
  smallest that could. `KahnHolds` ties it to the counters: each counts the
  entries that lead to its node from nodes not emitted yet (`Missing`), so it is
  zero exactly when every parent was. If the ready list runs dry too early, the nodes left over
  each have a parent left over, and a finite set like that contains a cycle.
  The library's induction theorems cannot be used, since they take an operator
  as a parameter; `SetInduction` states the induction over a *set* of naturals.
* `TypeCorrect` and `ImplementsTheWalk`: the report accounts for exactly the
  nodes the walk has passed (`BooksOK`), so each turn of the loop is a step of
  EffectWalk.
* `WalkIsSafe`, `VerdictsAreFinal`: about EffectWalk alone (`Any`, an instance
  with its own variable and plans), hence about whatever implements it.

**Interpreter_proofs** (`NodeAssumption`, `LimitsAssumption`, `KeyAssumption`,
`PlansAssumption`: finitely many nodes and batch keys, positive limits, acyclic
plans; the code clamps the limits and refuses cyclic plans before it starts).

* `FrontierOK`: an in-degree counts exactly the unsettled parents; settled means
  having a ledger entry; tainted means failed or skipped.
* `BatchesOK`: what was dispatched and not folded is in exactly one batch,
  queued or resident; batches are disjoint and never empty.
* `LegsOK`: the place of a leg fits its batch and its ledger entry, and whoever
  was dispatched was cleared: not denied, all parents recorded as applied.
* `AttemptsOK`: attempts are zero before the first call, below the maximum when
  a leg is due, and zero for an irreversible leg that is due.
* `WorldOK`: nothing starts before its call; an Ok or an applied leg has landed.
* `OnceOK`: for an irreversible node, one thread or one write, never both.
* `LoopOK`: a pass that made no progress had nothing to surface; done means
  everything has settled. Here acyclicity enters: if nothing is ready and
  nothing is in flight, the unsettled nodes would each have an unsettled parent.

From it follow `TypeCorrect`, `OrderHolds`, `IrreversibleOnce`, `LedgerIsTrue`,
`RefusedIsSilent`, `CeilingsHold`, `NoneDropped`, and `ImplementsTheWalk`: under
the refinement mapping that reads a node's status off the ledger, `Surface` and
`Fold` are steps of EffectWalk and everything else stutters. For
`PreviewHolds`, each round of PREVIEW decides at least one more node of an acyclic
plan, so after as many rounds as nodes every node has been decided by the rule
(`PreviewFollowsTheRule`), which is then compared with the ledger.

**TxnCommit_proofs** (numbers of legs and runs are naturals). `IInv` adds to the
four properties that a walk that has not failed left only sealed legs behind
(`PrefixSealed`), that nothing is in the World without an intent (`IntentFirst`),
that a leg which is not replay-safe reaches the driver only if it never landed
(`FreshInsert`), that a checked leg which landed meets its own write
(`OwnWriteSeen`), that an Ok vouches for the effect (`OkIsTrue`) and that a
finished run sealed everything (`CompleteIsSealed`). Theorems: `TypeCorrect`,
`AppliedOnce`, `NoHoleOpens`, `SealsAreTrue`, `ResumeIsNoOp`.

**Saga_proofs** (both executors, any numbers of legs, runs, retries and foreign
writes). Nothing has happened yet to the legs ahead of the walk (`Ahead`); a
reply of conflict, the only one that is retried, never wrote (`AnswerIsTrue`);
while compensation runs, exactly the legs from the newest down to the one in hand
are undone, but for those whose undo failed (`UndoneSoFar`). Theorems: `TypeCorrect`, `FailedSagaLeavesNone`,
`OneLandingPerRun`, `UndoneNewestFirst`.

**Watchtower_proofs** has three parts, for what starts a handler.
* Watchtower: `OneEffectPerKey`, `NoSilenceAfterAccept`, `CommitsWerePermitted`.
  A trigger that has committed for an unblemished event is either behind the
  walk or the event is marked (`CommitsAreMarked`), nobody walks over a marked
  event (`WalksUnseen`), and a permission in hand was in force at some version
  since the event was taken (`GrantedWasAllowed`).
* Watcher: `WatcherSkipsNothing` under `IdsLast`: a row keeps its contents, and
  an id names one row for good, either because rows have an id column or because
  none is deleted. Section 6 shows a skipped row without each half. Under it,
  what a cursor holds, saved or in a poll's hands, was sent. `WatcherTypeCorrect`
  needs an id column, because a position need not be an event of the model.
* Sweeper: `MarksAreFirings`, `OncePerPeriodHolds`, `MarksMoveOnHolds`, for any
  assignment of keys to rows. The last firing of a row, or a later one under its
  key, is held somewhere, in its durable mark, its live row or the pass that fired
  it (`Held`), unless `forgot` says it was lost; so the copy a pass is going to
  fire carries it (`CopyIsCurrent`). No mark is newer than the last firing under
  its key, which is not after the pass (`PastFirings`), and a stamp is a firing of
  the pass's own instant, so no mark moves back (`StoreMovesOn`, `RowMovesOn`).

**ServerRuntime_proofs** (`ClientsAssumption`: finitely many requests at a time;
`NamesAssumption`: the empty and the torn document are no states;
`ReadAsAssumption`: a boot reads a statement as some row and content, or refuses
it, and any such reading is allowed). `BindingsCatchUp`,
`EveryChangeIsRecorded`: a change of a serving process is as often in the ledger,
the queue and unnotified requests together as it was applied (`EachOnce`).
`FileFollowsState`, `FileStaysWhole`: a re-emission that nobody overlaps is the
only one, and finds under the temporary name the inode it opened
(`SoloEmission`); a boot has replayed a part of the document, and that is its
state if the document reads back (`ReplayedSoFar`).

**AuditChain_proofs** (any number of connections and sealers, any cap). Head and
tail are functions of one history (`ChainOK`), and an append to the newest head
turns those of a history into those of the longer one. The locking gives the
rest: whoever may still write has seen the newest head (`ConnOK`) and is alone
(`OneWriter`). A seal is a row of the history and stays one. Theorems:
`HeadAndTailAgree`, `NoSealIsContradicted`, `BothLedgersTell`, `NothingInvented`,
and `ImplementsTheLog`: since the writer's snapshot is the newest head, what it
appends extends the history by exactly its entries (`StepLog`); and since effects
on different lists and on the chain are different, taking one off a list takes it
out of what is owed (`OwedLess`). Only `Commit`, `Record`, `GiveUp` and the two
writes are visible; locking, sealing and a crash with an empty list stutter.
`BothLedgersTell` carries the agreement of replay and tables through one write
(`WriteKeepsAgreement`); it needs of `LogText` only that an alias is not redacted
(`SysConstants`).


**Credentials_proofs** has three parts, for the stores of the database file.
* Credentials: `OneCredentialPerConsent`, `OneSessionPerSignIn`,
  `OneMemberPerInvite`, `NothingComesBack`. The properties count; the invariant says without counting
  that two places which hold a credential of one consent are the same place
  (`OneHolder`), and `AtMostOne` turns that into a count.
* Migration: `OpenersGoThrough` for any releases; `OpenIsCurrent` where the
  processes are of one release (`SameRelease`) and a heal leaves the tables of
  the body the release embeds (`HealsReachToday`: that is what `migrate.rs:57`
  is written for, and `OpenedIsVerified` of section 6 is what two releases do).
  A lookup goes stale before its transaction, but whatever another opener did to
  the version in between is what this one would have done (`ApplyFinds`,
  `HealFinds`).
* Vault: `RowsOpen` and `StoreStaysOpenable`, for any casts. While no mishap of
  its kind has met the file, one data key is in every wrap, every process's hand
  and under every credential (`OneKey`; the session may hold another), and there
  is at most one keychain slot, which fits the entry, and none while somebody is
  between entry and slot (`KeychainFits`). The mishaps only grow while the file
  is there, so a step that ends without one started without one, and deleting the
  file establishes both anew. A slot found earlier is still of its kind, because
  ids are given out once (`IdsFit`).

**Proved, not among the runs' properties.** The type invariants, and what another
property of the run already implies or one guard all but states:
`RefusedIsSilent` (a denied or skipped effect never reaches a driver),
`UndoneNewestFirst` (the order of compensation) and `NothingInvented` (the audit
stream shows committed effects, each once: this also follows from `ImplementsLog`).
TLC agreed with each before it was proved.

**Only model-checked.** The prover does not do liveness under fairness:
`Terminates` and `DueIsTried`, and `SpoolDrains`, `StayingRowIsSent` and
`Converges` in the configurations of section 6. `ImplementsWalk` is the safety
part of EffectWalk, which the theorems cover whole.

## 6. Divergences

Where the code does something else than its documentation says. Each row names the
configuration that reproduces it, run as in section 8; where it names changes,
they replace lines of that configuration, and the row's property its properties.

| Configuration | Property | What the code does, and what the text says |
|---|---|---|
| `MCPlanCommit` | `NoNewRootAfterFailure` | After a failure the walk goes on with every untainted node, roots included; `plan/src/apply.rs:153` says it stops attempting new roots. |
| `MCInterpreter_budget` | `BudgetIsShared` | The batch that waits for its driver's permit already holds a global one, so one driver can hold them all; `runtime/src/caps.rs:242` says it cannot consume the whole budget. |
| `MCInterpreter_legtimeout` | `AnsweredIsKept` | The timeout is around the whole batch call: a leg that had answered Ok fails with it; `runtime/src/caps.rs:279` says per leg. |
| `MCTxnCommit` | `CleanReportIsHeld` | An ACID failure rolls the World back and leaves the seals, so the next run reports the legs applied; `txn/src/outcome.rs:195` says success means held. |
| `MCTxnCommit` | `IndeterminateMeansCrash` | The intent of a leg that failed cleanly is kept, so its retry is `Indeterminate`; `runtime/src/txn.rs:167` says it means a crash. |
| `MCTxnCommit`, `LegShapes <- Conditioned` | `GuardedIsSelfGuarding` | The driver is handed the effect without its precondition, so it cannot refuse a stale re-apply; `txn/src/outcome.rs:41` says such a leg is self-guarding. |
| `MCWatchtower_daemon` | `SpoolDrains` | A failed event stays un-acked, and nothing in the daemon sends it again: `redeliver_unacked` is an inherent method of the bus that only tests call; `watchtower/src/dispatch.rs:7` says the bus redelivers. |
| `MCWatchtower`, `Redelivers = FALSE` | `OneNetEffectAlways` | A failing trigger leaves the key unmarked, so the triggers before it commit again; `watchtower/src/dispatch.rs:12` says one net effect. |
| `MCWatchtower`, `Redelivers = FALSE` | `FailedStaysSpooled` | The spool is keyed by id: the ack of one delivery removes what a second request put there; `qfs/src/watchtower.rs:116` says a failed commit stays in the spool. |
| `MCWatchtower`, `Redelivers = FALSE` | `RefusedHasNoEffect` | The event is spooled before the channel refuses it, so an event answered 500 may fire; `watchtower/src/webhook.rs:76` says zero events. |
| `MCWatcher`, `HasIds = FALSE` | `NothingSkipped` | Without an id column a row is its position, and a deletion moves a new row onto a known one; `watchtower/src/watcher.rs:174` calls this deterministic. |
| `MCWatcher`, `Versions = 2` | `NothingSkipped` | A changed row under a known id emits nothing; `watchtower/src/watcher.rs:2` says per new or changed row. |
| `MCWatcher_backlog` | `StayingRowIsSent` | A poll that meets a full bus forgets what it had published and meets the full bus at the same row again; `watcher.rs:140` says un-published rows re-emit. |
| `MCSaga` | `AppliedOnceAcrossRuns` | `apply_leg` never asks for an open intent and rebases the conflict of its own write; `txn/src/ledger.rs:57` says it must be reconciled. |
| `MCSaga` | `CompensatedIsUndone` | `compensate` answers nothing, so a leg whose undo failed, or met the default that does nothing, is listed as compensated; `txn/src/leg.rs:104` says a failed compensation is recorded by the caller. |
| `MCSaga` | `SuccessIsHeld` | A compensated leg keeps its seal, so the next run reports it applied; `txn/src/outcome.rs:195` says success means held. |
| `MCAuditChain` | `EffectsAreAudited` | An append that loses to another connection is dropped, and a crash after the commit loses them all; `qfs/src/commit.rs:111` says one event per committed effect (and, below, that it is best effort). |
| `MCAuditChain` | `LogRebuilds` | `remove_driver` deletes the declarations of every kind under a name and its payload names the driver (`qfs/src/sys.rs:736`), so a replay keeps the others; `store/src/schema/system_ddl_events.sql:4` says the events can rebuild the tables. |
| `MCAuditChain` | `LogHoldsTheRows` | Settings and fields with a secret's name are `<redacted>` in the payload (`qfs/src/sys.rs:1240`, pinned by the test at `:2243`), so a replay puts that in the table; the same line says `sys_settings` can be rebuilt. |
| `MCCredentials` | `AnsweredIsStored` | The outcome of the insert is ignored (`qfs/src/oauth.rs:366`, `:419`), so a client may be given a handle no store knows; `store/src/oauth_store.rs:324` says the new handle is minted and returned. |
| `MCServerRuntime` | `CommitsSurvive` | Of two overlapping re-emissions the one with the older snapshot may rename last, or both write one temporary file; `docs/guide/module-system.md:183` says after every committed change, atomically, `qfs/src/provision.rs:816` that a reader never sees a half-written config. |
| `MCServerRuntime` | `SurvivesRestart` | A policy's name and handler are emitted as they are (`provision/src/emit.rs:229`), so a committed row with a space in one of them is a statement that the next boot refuses, and with it the daemon, or reads as something else; `qfs/src/provision.rs:816` says an applied reconcile survives a restart. |
| `MCServerRuntime` | `DrainedIsWhole` | The shutdown arm is taken with notifications in the queue, and requests under way apply afterwards; `server/src/runtime.rs:405` says no plan is accepted any more and the ledger drains. |
| `MCSweeper` | `HistoryHasRow` | A run is recorded under the name of a job removed while it fired; `server/src/driver.rs:320` says the history lives and dies with its row. |
| `MCSweeper` | `FreshIsDue` | A job created again under an old name inherits the durable mark of the removed one; `watchtower/src/cron.rs:51` says a never-run job is due immediately. |
| `MCSweeper` | `OwnMarks` | The key of a job named `agent/x` is the key of the agent `x` (`qfs/src/sweeper.rs:320`, `:346`), so each takes the other's firing for its own; the comment at `:344` says an agent and a job of the same name never collide. |
| `MCSweeper` | `OwnPeriodIsTried` | Of two rows with one key the one with the longer period is never due while the other keeps firing; `watchtower/src/cron.rs:51` says a job is due when its interval has elapsed since its last run. |
| `MCProjectDb`, `Casts <- TwoFounders`, `Ledgers <- Empty` | `OneDataKey` | The first open reads an empty slot table, mints a key and inserts its wrap in a later statement, so two first openers mint two keys and each seals under its own; `qfs/src/secret_store.rs:12` says on first open one data key is recorded once. And a cached session opens without asking the slots, also after the database was deleted, so that a credential is sealed under a key that no slot wraps; `qfs/src/secret_store.rs:119` says it opens an established store. Either is a violation by itself. |
| `MCProjectDb`, `Casts <- TwoOnKeychain` | `SomebodyOpens` | The keychain entry is one for all processes, set before and deleted after the statement on its slot, and the guard of a revocation counts the slots, not those that open; `qfs/src/secret_store.rs:206` says a store is not to be bricked. |
| `MCProjectDb`, `Casts <- RekeyBesideRevoke` | `RekeyTakes` | The new wrap is written with an UPDATE by slot number whose count of rows nobody reads, so a rekey beside a revocation reports success and changes nothing; `qfs/src/vault.rs:147` says re-wrapped. |
| `MCProjectDb`, `Casts <- OpenersOnly`, `Ledgers <- OldColumn` | `HealIsIdempotent` | Two openers decide on the same heal, and the second rename finds no such column; `store/src/migrate.rs:56` says the SQL is idempotent. |
| `MCProjectDb`, `Casts <- OpenersOnly`, `Ledgers <- Empty`, `Embeds <- TwoReleases` | `OpenedIsVerified` | The second look takes any row for its own, so a process may open over another release's body; `store/src/migrate.rs:11` says a checksum that differs is an error. |

`MCWatchtower_live` (`SpoolDrains` where something redelivers) and
`MCServerRuntime_live` (`Converges`: a change reaches the bindings as long as the
loop runs) pass, and are kept as configurations only.

## 7. Not modelled, and the plan

In this order; each module gets its runs, mutants and, where marked, proofs.

1. **PolicyGate** (`server/src/policy`), **Provision** (`provision`) and
   **Pushdown** (`pushdown`): pure operators against reference definitions over
   bounded inputs. PolicyGate first, since Watchtower and ServerRuntime take its
   answer as an input.
2. Further actions of modelled components: the rows of the vault's file that the
   next paragraph leaves out, each with its share of the proofs of section 5.

Inside the modelled parts: an INSERT that carries an explicit `last_run` is left
out of Sweeper; in Credentials a rotation whose handler then fails to mint a code
answers without a cookie, so that the browser keeps one that is dead (the
session's own promise, one successor, holds); Vault has no consents, shared
connections or recipient wraps, rows of the same file. ServerRuntime has no
`refresh_materialized_view`: its only caller is the one-shot `qfs view refresh`,
which boots a runtime of its own (`host/src/view.rs:24`), so nothing runs beside
it, and the rows it caches end with the process. It has no failing binding
either: `reconcile` of the two bindings fails on a poisoned lock only.

What the program does not compose yet, so that the models speak of the crates and
not of the daemon: the commit behind a trigger is applied to a `RecordingApplier`
(`watchtower/src/commit.rs:262`); the daemon makes watchers
(`watchtower/src/binding.rs:43`) and polls none of them, so that `poll_once` has
callers in tests only, as have `commit_txn`, `run_saga` and `run_acid`. The
transaction ledger, the watchers' cursors, the spool and the dispatcher's seen keys
are in memory: Watchtower and Watcher have no restart, which would lose them, and
TxnCommit and Saga keep the ledger over one as a durable ledger would.

Left out: the language front end, query execution and codecs (sequential and
pure over unbounded text and terms); drivers, HTTP, tunnel, MCP, console and
viewer (input and output, with little state of their own: what a commit can
meet of a driver is in the World of the commit models); cryptography.

## 8. Running it

```
tlc -workers 2 -config MCInterpreter_shape.cfg MCInterpreter
tlapm Interpreter_proofs.tla
```

A configuration is run with the module its name begins with (`MCPlanCommit*`
with `PlanCommit`, `MCWatcher_*` and `MCWatcher` with `Watcher`). `PROJECT.json`
lists the runs, the mutants, the source lines behind each definition, the
hazards and the theorems.

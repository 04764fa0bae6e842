----------------------------- MODULE Watchtower -----------------------------
(***************************************************************************)
(* Webhook ingest, the event bus, the dispatch loop and the reconcile that *)
(* swaps their configuration under them (crate watchtower, composed by     *)
(* qfs/src/watchtower.rs).  Requests run on listener threads, the          *)
(* dispatcher is one task, the reconcile is the server runtime's: their    *)
(* steps interleave.  With Redelivers the harness of the crate's tests     *)
(* calls redeliver_unacked; the daemon holds the bus as a dyn EventBus,    *)
(* which has no such operation.                                            *)
(***************************************************************************)
EXTENDS EventBus

CONSTANTS
  TriggerCount,  \* triggers, numbered in the order of the state's BTreeMap
  Requests,      \* the requests senders make, a sender's own retries included
  Asks,          \* the event of each request
  Matches,       \* the triggers whose source or kind is the event's
  Passes,        \* those of them whose WHERE guard accepts its row
  Configs,       \* the configurations the server goes through
  CanFail,       \* a commit may fail in the build, in apply, or as irreversible
  NoEvent,       \* the loop's hands are empty
  Redelivers     \* something calls redeliver_unacked

Triggers == 1..TriggerCount
Answers == {"202", "401", "404", "500"}

ASSUME TowerConstants ==
  /\ TriggerCount \in Nat
  /\ Asks \in [Requests -> Events]
  /\ Matches \in [Events -> SUBSET Triggers]
  /\ Passes \in [Events -> SUBSET Triggers]
  /\ Configs \in Seq([routes : SUBSET Events, triggers : SUBSET Triggers,
                      allows : SUBSET Triggers])
  /\ Configs # << >>
  /\ NoEvent \notin Events
  /\ CanFail \in BOOLEAN /\ Redelivers \in BOOLEAN

VARIABLES
  req,        \* where each request is: "new", "routed", "spooled", or its answer
  version,    \* the configuration each swapped table comes from
  disp,       \* the dispatch loop
  seen,       \* Dispatcher.seen
  replay,     \* the rest of a redeliver_unacked under way
  commits,    \* history: commits per event and trigger, counted up to two
  settled,    \* history: events whose handle returned Ok at least once
  failed,     \* history: events whose last handle returned Err
  blemished   \* history: events some handle of which returned Err

vars == <<channel, spool, req, version, disp, seen, replay, commits, settled, failed,
          blemished>>

\* granted: the policy gate let the plan of the next trigger through; since:
\* (history) the policy table that was live when the event was taken.
Idle == [at |-> "recv", event |-> NoEvent, todo |-> {}, fired |-> 0,
         granted |-> FALSE, since |-> 1]
DispStates == [at : {"recv", "walk", "ack"}, event : Events \cup {NoEvent},
               todo : SUBSET Triggers, fired : 0..TriggerCount,
               granted : BOOLEAN, since : DOMAIN Configs]

TypeOK ==
  /\ BusTypeOK
  /\ req \in [Requests -> {"new", "routed", "spooled"} \cup Answers]
  /\ version \in [{"routes", "triggers", "policies"} -> DOMAIN Configs]
  /\ disp \in DispStates
  /\ seen \in SUBSET Events /\ replay \in SUBSET Events
  /\ commits \in [Events -> [Triggers -> 0..2]]
  /\ settled \in SUBSET Events /\ failed \in SUBSET Events /\ blemished \in SUBSET Events

Init ==
  /\ BusInit
  /\ req = [r \in Requests |-> "new"]
  /\ version = [table \in {"routes", "triggers", "policies"} |-> 1]
  /\ disp = Idle /\ seen = {} /\ replay = {}
  /\ commits = [e \in Events |-> [t \in Triggers |-> 0]]
  /\ settled = {} /\ failed = {} /\ blemished = {}

-----------------------------------------------------------------------------
(* ingest *)

Answer(r, a) == req' = [req EXCEPT ![r] = a]

\* The live route set is copied and looked at once.
LookUp(r) ==
  /\ req[r] = "new"
  /\ Answer(r, IF Asks[r] \in Configs[version["routes"]].routes THEN "routed" ELSE "404")
  /\ UNCHANGED <<channel, spool, version, disp, seen, replay, commits, settled, failed, blemished>>

\* A signature that does not verify: nothing is enqueued.
Refuse(r) ==
  /\ req[r] = "routed"
  /\ Answer(r, "401")
  /\ UNCHANGED <<channel, spool, version, disp, seen, replay, commits, settled, failed, blemished>>

PublishSpool(r) ==
  /\ req[r] = "routed"
  /\ Spool(Asks[r])
  /\ Answer(r, "spooled")
  /\ UNCHANGED <<channel, version, disp, seen, replay, commits, settled, failed, blemished>>

\* 202 once the channel took the event, 500 when it is full.
PublishSend(r) ==
  /\ req[r] = "spooled"
  /\ \/ TrySend(Asks[r]) /\ Answer(r, "202")
     \/ ~HasRoom /\ Answer(r, "500") /\ UNCHANGED channel
  /\ UNCHANGED <<spool, version, disp, seen, replay, commits, settled, failed, blemished>>
-----------------------------------------------------------------------------
(* the dispatch loop *)

\* The triggers of the snapshot that match; handle filters the guard later.
Matched(e) == Matches[e] \cap Configs[version["triggers"]].triggers

\* recv, the snapshot of the live triggers, and handle up to its loop: a key
\* already seen, like an event nothing matches, goes straight to the ack.
AlreadySeen(e) == e \in seen
Take(e) ==
  /\ disp.at = "recv"
  /\ Receive(e)
  /\ disp' = IF AlreadySeen(e) \/ Matched(e) = {}
               THEN [Idle EXCEPT !.at = "ack", !.event = e]
               ELSE [Idle EXCEPT !.at = "walk", !.event = e, !.todo = Matched(e),
                                 !.since = version["policies"]]
  /\ IF AlreadySeen(e) \/ Matched(e) = {}
       THEN settled' = settled \cup {e} /\ failed' = failed \ {e}
       ELSE UNCHANGED <<settled, failed>>
  /\ UNCHANGED <<spool, req, version, seen, replay, commits, blemished>>

Current == Least(disp.todo)
Walking == disp.at = "walk" /\ disp.todo # {}
\* Mutant of Allowed: the table that came with the live triggers.
Allowed_AsDeclared(t) == t \in Configs[version["triggers"]].allows
Allowed(t) == t \in Configs[version["policies"]].allows
PassOver == disp' = [disp EXCEPT !.todo = @ \ {Current}]
Asking == Walking /\ ~disp.granted

\* The WHERE guard rejects the row, or the committer's policy gate, reading the
\* live table, denies the plan: this trigger fires nothing and the walk goes on.
Gate ==
  /\ Asking
  /\ Current \notin Passes[disp.event] \/ ~Allowed(Current)
  /\ PassOver
  /\ UNCHANGED <<channel, spool, req, version, seen, replay, commits, settled, failed, blemished>>

\* The gate has read the policy table; the commit comes after it.
Grant ==
  /\ Asking
  /\ Current \in Passes[disp.event] /\ Allowed(Current)
  /\ disp' = [disp EXCEPT !.granted = TRUE]
  /\ UNCHANGED <<channel, spool, req, version, seen, replay, commits, settled, failed, blemished>>

CommitOk ==
  /\ Walking /\ disp.granted
  /\ commits' = [commits EXCEPT ![disp.event][Current] = IF @ = 2 THEN 2 ELSE @ + 1]
  /\ disp' = [disp EXCEPT !.todo = @ \ {Current}, !.fired = @ + 1, !.granted = FALSE]
  /\ UNCHANGED <<channel, spool, req, version, seen, replay, settled, failed, blemished>>

\* The plan cannot be built, before the gate is asked, or is irreversible or
\* not applied, after it: handle returns at once, with no ack, no mark, and
\* the triggers behind this one not tried.
CommitErr ==
  /\ CanFail
  /\ Walking /\ Current \in Passes[disp.event]
  /\ disp' = Idle
  /\ failed' = failed \cup {disp.event}
  /\ blemished' = blemished \cup {disp.event}
  /\ UNCHANGED <<channel, spool, req, version, seen, replay, commits, settled>>

\* Mutant: only an event that fired every trigger counts.
Marked_All(d) == IF d.fired = TriggerCount THEN {d.event} ELSE {}
\* The ledger of keys is written once every trigger is done and one fired.
Marked(d) == IF d.fired > 0 THEN {d.event} ELSE {}
Finish ==
  /\ disp.at = "walk" /\ disp.todo = {}
  /\ seen' = seen \cup Marked(disp)
  /\ settled' = settled \cup {disp.event}
  /\ failed' = failed \ {disp.event}
  /\ disp' = [disp EXCEPT !.at = "ack"]
  /\ UNCHANGED <<channel, spool, req, version, replay, commits, blemished>>

AckIt ==
  /\ disp.at = "ack"
  /\ Ack(disp.event)
  /\ disp' = Idle
  /\ UNCHANGED <<channel, req, version, seen, replay, commits, settled, failed, blemished>>

Dispatch == (\E e \in Events : Take(e)) \/ Gate \/ Grant \/ CommitOk \/ CommitErr \/ Finish
            \/ AckIt
-----------------------------------------------------------------------------
(* reconcile: each table is its own pointer, swapped in this order *)

Lagging == {table \in DOMAIN version : version[table] < version["routes"]}
Swap(table) ==
  /\ CASE table = "routes"   -> Lagging = {}
       [] table = "triggers" -> Lagging = {"triggers", "policies"}
       [] table = "policies" -> Lagging = {"policies"}
  /\ version[table] < Len(Configs)
  /\ version' = [version EXCEPT ![table] = @ + 1]
  /\ UNCHANGED <<channel, spool, req, disp, seen, replay, commits, settled, failed, blemished>>
Reconcile == \E table \in DOMAIN version : Swap(table)
-----------------------------------------------------------------------------
(* redeliver_unacked *)

StartReplay ==
  /\ Redelivers
  /\ replay = {} /\ spool # {}
  /\ replay' = spool
  /\ UNCHANGED <<channel, spool, req, version, disp, seen, commits, settled, failed, blemished>>

\* The first send that is refused ends the replay.
ReplayOne ==
  /\ replay # {}
  /\ \/ TrySend(Least(replay)) /\ replay' = replay \ {Least(replay)}
     \/ ~HasRoom /\ replay' = {} /\ UNCHANGED channel
  /\ UNCHANGED <<spool, req, version, disp, seen, commits, settled, failed, blemished>>

Redelivery == StartReplay \/ ReplayOne
-----------------------------------------------------------------------------
Ingest(r) == LookUp(r) \/ Refuse(r) \/ PublishSpool(r) \/ PublishSend(r)
Next == (\E r \in Requests : Ingest(r)) \/ Dispatch \/ Reconcile \/ Redelivery
Spec == Init /\ [][Next]_vars

\* The loop is one task and redelivery, where it exists, is called again and
\* again.  A commit that is tried again and again does not fail for ever: that
\* is an assumption about the committer, made for the liveness runs only.
Gets(step, e, t) == step /\ disp.event = e /\ Current = t
LiveSpec ==
  /\ Spec
  /\ \A r \in Requests : WF_vars(Ingest(r))
  /\ WF_vars(Dispatch)
  /\ WF_vars(Reconcile)
  /\ WF_vars(Redelivery)
  /\ \A e \in Events : \A t \in Matches[e] :
       SF_vars(Gets(Grant, e, t)) /\ SF_vars(Gets(CommitOk, e, t))
-----------------------------------------------------------------------------
(* properties *)

\* However often an event is sent, sent again by its sender, redelivered or met
\* by a new configuration: as long as none of its handles failed, no trigger
\* commits twice for its key.
OneNetEffect ==
  \A e \in Events \ blemished : \A t \in Triggers : commits[e][t] <= 1

\* "So delivering the same Event twice yields ONE net effect" (dispatch.rs), said
\* without that proviso.
OneNetEffectAlways == \A e \in Events, t \in Triggers : commits[e][t] <= 1

\* A 202 is never followed by silence: the event is queued, in the loop's hands,
\* or handle came to an end on it, well or with an error.
AcceptedIsTracked ==
  \A r \in Requests : req[r] = "202" =>
    \/ Asks[r] \in Queued \cup settled \cup failed
    \/ disp.at # "recv" /\ disp.event = Asks[r]

\* A trigger commits only with a permission that was in force at some moment
\* since its event was taken: neither a table that is not live yet, though the
\* trigger already is, nor one revoked before the event came up, lets it through.
RevokedNeverCommits ==
  [][\A e \in Events, t \in Triggers :
       commits'[e][t] # commits[e][t] =>
         \E v \in disp.since .. version["policies"] : t \in Configs[v].allows]_vars

\* Everything spooled is acknowledged in the end: at-least-once delivery (bus.rs,
\* dispatch.rs).
SpoolDrains == \A e \in Events : e \in spool ~> e \notin spool

\* "a commit failure leaves the event un-acked in the spool for redelivery"
\* (qfs/src/watchtower.rs).
FailedStaysSpooled == failed \subseteq spool

\* "A 500 outcome (secret resolution / publish failure; zero events)"
\* (webhook.rs): an event whose every request was refused has no effect.
RefusedHasNoEffect ==
  \A e \in Events :
    (\A r \in Requests : Asks[r] = e => req[r] \in {"401", "404", "500"})
      => e \notin spool /\ \A t \in Triggers : commits[e][t] = 0
=============================================================================

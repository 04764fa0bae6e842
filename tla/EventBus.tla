------------------------------ MODULE EventBus ------------------------------
(***************************************************************************)
(* LocalBus (watchtower/src/bus.rs): a bounded channel for live delivery   *)
(* and, beside it, a spool of every event published and not yet            *)
(* acknowledged.  An event is named by its id; watcher and webhook derive  *)
(* the id and the dedup_key from the same source and native id             *)
(* (event.rs), so one value stands for both.  Events are numbered in the   *)
(* order of the spool's BTreeMap.                                          *)
(***************************************************************************)
EXTENDS Naturals, Sequences

CONSTANTS Events, Capacity
ASSUME BusConstants == Events \subseteq Nat /\ Capacity \in Nat \ {0}

VARIABLES
  channel,    \* the mpsc channel: the events sent and not yet received
  spool       \* LocalBus.spool

busVars == <<channel, spool>>
BusTypeOK ==
  /\ channel \in Seq(Events) /\ Len(channel) <= Capacity
  /\ spool \in SUBSET Events
BusInit == channel = << >> /\ spool = {}

Queued == {channel[i] : i \in DOMAIN channel}

HasRoom == Len(channel) < Capacity

\* Mutant of TrySend: a refusal that is not reported.
TrySend_Lossy(e) == channel' = IF HasRoom THEN Append(channel, e) ELSE channel
\* try_send: refused when the channel is full.
TrySend(e) == HasRoom /\ channel' = Append(channel, e)

\* publish is two steps, the spool first: another thread may run in between.
Spool(e) == spool' = spool \cup {e}
Ack(e) == spool' = spool \ {e}

Receive(e) == /\ channel # << >>
              /\ e = Head(channel)
              /\ channel' = Tail(channel)

\* redeliver_unacked walks a copy of the spool in key order.
Least(S) == CHOOSE e \in S : \A f \in S : e <= f
=============================================================================

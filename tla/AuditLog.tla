------------------------------ MODULE AuditLog ------------------------------
(***************************************************************************)
(* What the System DB promises of its ledgers, whatever the connections,   *)
(* their snapshots and their crashes: there is one audit log and one       *)
(* configuration log, and both only ever grow at the end.  A commit owes   *)
(* the audit log one event per effect; each is either recorded, once, or   *)
(* given up, and never both.  A configuration write reaches both logs in   *)
(* one step, with its entries side by side.                                *)
(*                                                                         *)
(* AuditChain, where connections append to a hash chain under SQLite's     *)
(* locking, is shown to implement this.                                    *)
(* What an effect came to is one event: it was applied, or it was an       *)
(* irreversible one and failed.                                            *)
(***************************************************************************)
EXTENDS Sequences

CONSTANTS
  Events,   \* what commits can owe: an effect and whether it was committed
  Entries,  \* entries of the configuration log
  ShownAs   \* Entries -> what the audit log shows of one

VARIABLES
  log,     \* the audit log
  config,  \* the configuration log
  due,     \* the events commits have owed so far
  owed     \* those neither recorded nor given up

vars == <<log, config, due, owed>>

Init == log = << >> /\ config = << >> /\ due = {} /\ owed = {}

\* A commit owes one event per effect, of effects no commit came to before.
Commit(S) ==
  /\ \A e, f \in due \cup S : e.what = f.what => e = f
  /\ S \cap due = {}
  /\ due' = due \cup S
  /\ owed' = owed \cup S
  /\ UNCHANGED <<log, config>>

Record(e) ==
  /\ e \in owed
  /\ log' = Append(log, e)
  /\ owed' = owed \ {e}
  /\ UNCHANGED <<config, due>>

\* The events of a commit can be lost; nothing takes one back from the log.
GiveUp(S) ==
  /\ S \subseteq owed
  /\ owed' = owed \ S
  /\ UNCHANGED <<log, config, due>>

\* One statement under /sys makes one entry or two.
WriteOne(a) ==
  /\ config' = Append(config, a)
  /\ log' = Append(log, ShownAs[a])
  /\ UNCHANGED <<due, owed>>

WriteTwo(a, b) ==
  /\ config' = Append(Append(config, a), b)
  /\ log' = Append(Append(log, ShownAs[a]), ShownAs[b])
  /\ UNCHANGED <<due, owed>>

Next ==
  \/ \E S \in (SUBSET Events) \ {{}} : Commit(S) \/ GiveUp(S)
  \/ \E e \in Events : Record(e)
  \/ /\ config' # config  \* as both do; TLC need not look further where not
     /\ \E a \in Entries : WriteOne(a) \/ \E b \in Entries : WriteTwo(a, b)

Spec == Init /\ [][Next]_vars
=============================================================================

----------------------------- MODULE MCSweeper -----------------------------
(***************************************************************************)
(* Instances of Sweeper: a job and an agent, whose marks have durable keys *)
(* of their own, or one key when the job is named "agent/x" and the agent  *)
(* x.                                                                      *)
(***************************************************************************)
EXTENDS Sweeper

CONSTANTS job, agent

OwnKeys == [u \in {job, agent} |-> u]
OneKey  == [u \in {job, agent} |-> agent]
=============================================================================

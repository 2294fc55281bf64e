---------------------------- MODULE MCAgentScheduler ----------------------------
(* Small instances of AgentScheduler for TLC. *)
EXTENDS AgentSchedulerProperties
================================================================================

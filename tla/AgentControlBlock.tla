--------------------------- MODULE AgentControlBlock ---------------------------
(***************************************************************************)
(* The scheduling state of a long-lived agent (agent-control-block).       *)
(* A control block accepts only the edges of a fixed table; any other      *)
(* request throws InvalidAgentTransitionError.  The scheduler is the only  *)
(* caller, so the table is a contract between two modules of the program:  *)
(* a request outside it is an internal fault of the scheduler.             *)
(***************************************************************************)

\* AgentState
AgentState == {"READY", "RUNNING", "BLOCKED", "SLEEPING"}

\* The state in which `transition` leaves a block that has just thrown: no
\* caller of the scheduler recovers from it, so it absorbs every request.
InvalidTransition == "InvalidAgentTransition"

transitions ==
  [s \in AgentState |->
     CASE s = "SLEEPING" -> {"READY"}
       [] s = "READY"    -> {"RUNNING", "BLOCKED"}
       [] s = "RUNNING"  -> {"READY", "BLOCKED", "SLEEPING"}
       [] s = "BLOCKED"  -> {"READY"}]

canAgentTransition(from, to) == from \in AgentState /\ to \in transitions[from]

\* ControlBlock.transition: the new state, or the thrown error.
transition(from, to) ==
  IF canAgentTransition(from, to) THEN to ELSE InvalidTransition
================================================================================

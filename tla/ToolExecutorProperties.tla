------------------------- MODULE ToolExecutorProperties -------------------------
(***************************************************************************)
(* What the executor of ToolExecutor promises the host, the agents and the *)
(* workspaces.                                                             *)
(***************************************************************************)
EXTENDS ToolExecutor

\* Types.  A record is in one of the six states of ExecutionOperation, the
\* only ones its schema accepts when the store is read again.
TypeOK ==
  /\ store \in [Ops -> Records \cup {Absent}]
  /\ sched \in [Ops -> Entries]
  /\ memo \in [Ops -> States \cup {"none"}]
  /\ told \in [Ops -> SUBSET (States \cup Ended)]
  /\ status \in [Agents -> {"active", "paused", "cancelled", "dismissed"}]
  /\ task \in [Ops -> [pc : {"idle", "queued", "awaiting"}, copy : Records \cup {Absent}]]
  /\ tails \in [Workspaces -> Seq(Ops)]
  /\ reconc \subseteq Ops /\ approved \subseteq Ops /\ open \subseteq Agents
  /\ body \subseteq Ops /\ aborted \subseteq Ops
  /\ touched \subseteq Ops /\ ruled \subseteq Ops /\ starts \in [Ops -> Nat]
  /\ phase \in {"down", "init", "up"} /\ stopping \in BOOLEAN /\ recovered \subseteq Agents
  /\ crashes \in 0 .. MaxCrashes /\ pauses \in 0 .. MaxPauses

\* The tool of a mutating call is called at most once, through repeated rounds,
\* pauses, recoveries and crashes at any write.
AtMostOnce == \A o \in Ops : mutating(o) => starts[o] <= 1

\* At most one mutating tool executes in a workspace, also after the host
\* stopped waiting for it and whoever its agent is.
MutationsExclusive ==
  \A o, p \in body : mutating(o) /\ mutating(p) /\ place(o) = place(p) => o = p

\* No tool mutates a workspace in which the result of another mutation is
\* unknown.
UnknownBlocksWorkspace ==
  \A o \in body, p \in Ops :
    mutating(o) /\ mutating(p) /\ place(o) = place(p) /\ store[p].state = "unknown" => o = p

\* Failed means not done: a mutating call that is failed without the host's word
\* has not touched the workspace, and its tool is not executing.
FailedMeansUntouched ==
  \A o \in Ops : mutating(o) /\ store[o].state = "failed" /\ o \notin ruled =>
                  o \notin touched \cup body

\* A finished call stays as it is: no stale copy held by a promise, no late
\* abort and no repeated round overwrites it.
FinishedIsFinal ==
  [][\A o \in Ops : store[o].state \in Terminal => store'[o].state = store[o].state]_vars

\* When the agent has received the result of a call that is finished, it has
\* been told that state, or the reconciliation that tells it is outstanding.
OutcomeTold ==
  \A o \in Ops :
    sched[o].stage = "received" /\ store[o].state \in Terminal /\ starts[o] > 0
      /\ status[owner(o)] # "dismissed" =>
      store[o].state \in told[o] \/ o \in reconc

----------------------------------------------------------------------------
(* Progress *)

\* Fairness.  Promise continuations run, tools end, the pump runs the rounds
\* and a round eventually commits, a stopped or dead process is started again.
\* Nothing is assumed of deadlines, and nothing of the host.
Fairness ==
  /\ \A a \in Agents : WF_vars(Stage(a, TRUE)) /\ WF_vars(Recover(a))
  /\ \A o \in Ops :
       /\ WF_vars(ExecuteExpired(o) \/ ExecutePaused(o) \/ ExecuteRefused(o) \/ ExecuteStart(o))
       /\ WF_vars(AbortSeen(o))
       /\ WF_vars(\E how \in Endings : ToolEnds(o, how))
       /\ WF_vars(ResolveWait(o)) /\ WF_vars(ReceiveResult(o))
  /\ WF_vars(stopping /\ Crash) /\ WF_vars(Boot)

FairSpec == Spec /\ Fairness

\* A call waits for the host: its approval is open, or its agent does not run.
WaitsForHost(o) == store[o].state = "approval" \/ status[owner(o)] # "active"

\* A record that was expired before it was registered, and no longer names the
\* operation that was registered for it meanwhile (see UnregisteredIsKept).
Orphaned(o) == store[o] = [state |-> "failed", handle |-> FALSE]

\* Every call that was stored is eventually answered, whatever write the
\* process died at and without the help of its deadline, unless it waits for
\* the host or was orphaned.
Answered ==
  \A o \in Ops :
    store[o] # Absent ~> sched[o].stage = "received" \/ WaitsForHost(o) \/ Orphaned(o)

----------------------------------------------------------------------------
(* What a comment of the executor says, and the code does not do *)

\* A call that was stored, and not registered because the process died, can be
\* taken up again under its id: it stays registered, to be staged by the round
\* that is run again, unless its agent is dismissed.  (resume launches it
\* without a scheduler operation, and #execute then expires it.)
UnregisteredIsKept ==
  [][\A o \in Ops :
       store[o] = [state |-> "registered", handle |-> FALSE] =>
         store'[o].state = "registered" \/ status'[owner(o)] = "dismissed"]_vars
================================================================================

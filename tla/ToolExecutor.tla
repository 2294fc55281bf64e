------------------------------ MODULE ToolExecutor ------------------------------
(***************************************************************************)
(* The executor of tool calls (src/agent-runtime/internal/executor.ts) and *)
(* the runtime methods that drive it: the round that stages the calls of   *)
(* the model, the host that approves, pauses, resumes, cancels, dismisses  *)
(* and reconciles, the deadlines of the scheduler, and the death of the    *)
(* process between any two writes of the store.                            *)
(*                                                                         *)
(* A call is stored, registered with the scheduler under its stable id,    *)
(* and launched.  Launched calls that mutate one workspace follow each     *)
(* other; a call that was interrupted after it began to mutate is unknown, *)
(* stops its agent and blocks its workspace until the host reconciles it.  *)
(*                                                                         *)
(* Abstractions.  Each agent has one batch of tool calls.  Results are     *)
(* known by the state they report.  Of the scheduler an operation keeps    *)
(* the stage it is in (AgentScheduler is the detailed model).  The code    *)
(* between two awaits is one action; the continuations that an abort       *)
(* leaves in the microtask queue are actions of their own.                 *)
(***************************************************************************)
EXTENDS Naturals, Sequences, SequencesExt, FiniteSets

CONSTANTS
  Agents,       \* agent ids
  Ops,          \* operation ids: batch id and index of the call
  calls,        \* calls[a]: the tool calls of agent a's batch, in order
  workspace,    \* workspace[a]: the canonical workspace of agent a
  effect,       \* effect[o]: "read_only", "side_effect" or "privileged"
  verdict,      \* verdict[o] of the checks of stage: "allowed", "approval" or "denied"
  MaxCrashes,   \* bound: deaths of the process in a behaviour
  MaxPauses     \* bound: calls of pause, cancel and dismiss in a behaviour

Workspaces == {workspace[a] : a \in Agents}

ASSUME ExecutorAssumption ==
  /\ calls \in [Agents -> Seq(Ops)]
  /\ \A o \in Ops : \E a \in Agents : o \in ToSet(calls[a])
  /\ \A a, b \in Agents : a # b => ToSet(calls[a]) \cap ToSet(calls[b]) = {}
  /\ \A a \in Agents : \A i, j \in DOMAIN calls[a] : calls[a][i] = calls[a][j] => i = j
  /\ workspace \in [Agents -> Workspaces]
  /\ effect \in [Ops -> {"read_only", "side_effect", "privileged"}]
  /\ verdict \in [Ops -> {"allowed", "approval", "denied"}]
  /\ MaxCrashes \in Nat /\ MaxPauses \in Nat

VARIABLES
  store,      \* runtime_operations: the record of each operation
  reconc,     \* operations whose reconciliation is not yet received
  approved,   \* operations the host granted (agent.grants)
  status,     \* RuntimeAgent.status
  sched,      \* where the scheduler has each operation
  memo,       \* wait-result: what resolveWait answered for an operation
  told,       \* what each agent's context has received about an operation
  open,       \* agents whose round over the batch is not committed
  phase,      \* "down", "init" (recovering) or "up"
  stopping,   \* #stopping
  recovered,  \* agents recovered since the process started
  task,       \* #active: the launched promise of an operation and its copy
  tails,      \* #mutationTails: unresolved mutations of each workspace
  body,       \* operations whose tool is really executing (#mutationWork)
  aborted,    \* operations whose promise awaits the tool on an aborted signal
  starts,     \* history: how often the tool of each operation was called
  touched,    \* history: operations whose tool has changed the workspace
  ruled,      \* history: operations the host reconciled
  crashes, pauses

diskVars  == <<store, reconc, approved, status, sched, memo, told, open>>
memVars   == <<task, tails, body, aborted>>
procVars  == <<phase, stopping, recovered>>
histVars  == <<starts, touched, ruled>>
boundVars == <<crashes, pauses>>
vars      == <<diskVars, memVars, procVars, histVars, boundVars>>

----------------------------------------------------------------------------
(* Data *)

States == {"approval", "registered", "running", "succeeded", "failed", "unknown"}
Terminal == {"succeeded", "failed"}

\* The state of an ExecutionOperation, and whether schedulerOperation is set.
Records == [state : States, handle : BOOLEAN]
Absent  == [state |-> "absent", handle |-> FALSE]

\* in flight, before or after the deadline; ended, waiting for a round; received
\* by the context
InFlight == {"pending", "overdue"}
Ended    == {"returned", "timed_out", "cancelled"}
Stages   == {"none", "received"} \cup InFlight \cup Ended
Entries == [stage : Stages, ref : States \cup {"none"}]

NoTask == [pc |-> "idle", copy |-> Absent]

owner(o)    == CHOOSE a \in Agents : o \in ToSet(calls[a])
place(o)    == workspace[owner(o)]
mutating(o) == effect[o] # "read_only"
OpsOf(a)    == ToSet(calls[a])

Alive == phase # "down"
Ready == phase = "up" /\ ~stopping       \* #checkOpen

----------------------------------------------------------------------------
(* The scheduler, as the executor sees it *)

\* registerOperations with a stable id: registering again changes nothing
Registered(s) == IF s.stage = "none" THEN [s EXCEPT !.stage = "pending"] ELSE s

\* completeOperation, called by deliver with the snapshot of the record
Delivered(s, c) ==
  CASE c.handle /\ s.stage = "pending" -> [stage |-> "returned", ref |-> c.state]
    [] c.handle /\ s.stage = "overdue" -> [s EXCEPT !.stage = "timed_out"]
    [] OTHER -> s

\* #pending
Pending(o, c) == c.handle /\ sched[o].stage = "pending"

\* cancelOperations
Cancelled(a) ==
  [o \in Ops |-> IF o \in OpsOf(a) /\ sched[o].stage \in InFlight
                   THEN [sched[o] EXCEPT !.stage = "cancelled"] ELSE sched[o]]

\* The promises of agent a whose signal an abort of all its calls reaches.
InFlightOf(a) == {o \in OpsOf(a) : sched[o].stage \in InFlight}
Awaiting(a)   == {o \in OpsOf(a) : task[o].pc = "awaiting"}

----------------------------------------------------------------------------
(* The executor's private steps *)

Unknown(a) == {o \in OpsOf(a) : store[o].state = "unknown"}

\* Mutant of UnknownMutation: only the agent's own calls are looked at.
UnknownMutationOfAgent(o) ==
  \E p \in OpsOf(owner(o)) : store[p].state = "unknown" /\ mutating(p)

\* hasUnknownMutation
UnknownMutation(o) ==
  \E p \in Ops : store[p].state = "unknown" /\ mutating(p) /\ place(p) = place(o)

\* #pauseUnknown
Paused(a) == IF status[a] \in {"cancelled", "dismissed"} THEN status
             ELSE [status EXCEPT ![a] = "paused"]

\* #expire, on a record that may be a copy
Expirable(c) == c.state \in {"registered", "approval"}
Expired(c)   == IF Expirable(c) THEN [c EXCEPT !.state = "failed"] ELSE c

\* launch, for the records c[o] of the operations L of agent a, in call order.
\* Each promise keeps the record it was launched with.
Launchable(L) == {o \in L : ~stopping /\ task[o].pc = "idle"}

Launched(L, c) ==
  [o \in Ops |-> IF o \in Launchable(L) THEN [pc |-> "queued", copy |-> c[o]] ELSE task[o]]

\* The operations M of agent a, in call order.
Earlier(a, o, p) ==
  \E i, j \in DOMAIN calls[a] : i < j /\ calls[a][i] = o /\ calls[a][j] = p

InCallOrder(a, M) ==
  {s \in [1 .. Cardinality(M) -> M] :
     ToSet(s) = M /\ \A i, j \in DOMAIN s : i < j => Earlier(a, s[i], s[j])}

\* The launched mutations line up in their workspace.
Line(a, L) ==
  \E s \in InCallOrder(a, {o \in Launchable(L) : mutating(o)}) :
    tails' = [tails EXCEPT ![workspace[a]] = @ \o s]

\* The tail of o resolves once its promise and its real execution are over.
Unlined(o, bodies) ==
  IF o \in bodies THEN tails ELSE [tails EXCEPT ![place(o)] = RemoveFirst(@, o)]

\* The promise of o ends with the record c put and delivered.
Settle(o, c) ==
  /\ store' = [store EXCEPT ![o] = c]
  /\ sched' = [sched EXCEPT ![o] = Delivered(@, c)]
  /\ task' = [task EXCEPT ![o] = NoTask]
  /\ aborted' = aborted \ {o}

\* The process dies: what is in memory is lost, and the tools with it.
Die ==
  /\ crashes < MaxCrashes
  /\ crashes' = crashes + 1
  /\ phase' = "down" /\ stopping' = FALSE /\ recovered' = {}
  /\ task' = [o \in Ops |-> NoTask]
  /\ tails' = [w \in Workspaces |-> <<>>]
  /\ body' = {} /\ aborted' = {}
  /\ UNCHANGED <<starts, touched, pauses>>

----------------------------------------------------------------------------
(* stage: the round of an agent executes the tool calls of its batch *)

First(o) == CASE verdict[o] = "allowed"  -> "registered"
              [] verdict[o] = "approval" -> "approval"
              [] verdict[o] = "denied"   -> "failed"

\* The record a call is stored with, or was stored with by an earlier try.
Stored(o) == IF store[o] = Absent THEN [state |-> First(o), handle |-> FALSE] ELSE store[o]
Staged(o) == [Stored(o) EXCEPT !.handle = TRUE]

StageSched(o) ==
  LET s == Registered(sched[o]) IN
  IF Staged(o).state \in Terminal \cup {"unknown"} THEN Delivered(s, Staged(o)) ELSE s

\* The round commits after staging unless an unknown call stops it; a round
\* that fails to commit is run again over the same batch.
Stage(a, commit) ==
  LET L == {o \in OpsOf(a) : Staged(o).state \in {"registered", "running"}}
      c == [o \in Ops |-> IF o \in OpsOf(a) THEN Staged(o) ELSE store[o]]
  IN /\ Ready /\ status[a] = "active" /\ a \in open
     /\ commit => Unknown(a) = {}
     /\ store' = c
     /\ sched' = [o \in Ops |-> IF o \in OpsOf(a) THEN StageSched(o) ELSE sched[o]]
     /\ task' = Launched(L, c)
     /\ Line(a, L)
     /\ status' = IF Unknown(a) # {} THEN Paused(a) ELSE status
     /\ open' = IF commit THEN open \ {a} ELSE open
     /\ UNCHANGED <<reconc, approved, memo, told, body, aborted, procVars,
                    histVars, boundVars>>

\* The process dies while it stages call i: the call is stored, or stored and
\* registered, and the calls before it are staged.
StageCut(a, i, registered) ==
  LET before == {calls[a][j] : j \in 1 .. i - 1}
      o      == calls[a][i]
  IN /\ Ready /\ status[a] = "active" /\ a \in open
     /\ Unknown(a) = {}
     /\ store' = [p \in Ops |-> IF p \in before THEN Staged(p)
                                ELSE IF p = o THEN Stored(p) ELSE store[p]]
     /\ sched' = [p \in Ops |-> IF p \in before THEN StageSched(p)
                                ELSE IF p = o /\ registered THEN Registered(sched[p])
                                ELSE sched[p]]
     /\ Die
     /\ UNCHANGED <<reconc, approved, status, memo, told, open, ruled>>

----------------------------------------------------------------------------
(* #execute *)

\* Mutant of Turn: a mutation does not wait for the mutations before it.
TurnAtOnce(o) == Alive /\ ~stopping /\ task[o].pc = "queued"

\* The promises before it in its workspace have resolved.
Turn(o) ==
  /\ Alive /\ ~stopping
  /\ task[o].pc = "queued"
  /\ mutating(o) => Head(tails[place(o)]) = o

\* The scheduler no longer waits for the operation.
ExecuteExpired(o) ==
  LET c == task[o].copy IN
  /\ Turn(o)
  /\ ~Pending(o, c)
  /\ IF Expirable(c) THEN Settle(o, Expired(c))
     ELSE task' = [task EXCEPT ![o] = NoTask] /\ UNCHANGED <<store, sched, aborted>>
  /\ tails' = Unlined(o, body)
  /\ UNCHANGED <<reconc, approved, status, memo, told, open, body, procVars, histVars,
                 boundVars>>

\* The agent was paused meanwhile: the call stays registered for resume.
ExecutePaused(o) ==
  /\ Turn(o)
  /\ Pending(o, task[o].copy)
  /\ status[owner(o)] # "active"
  /\ task' = [task EXCEPT ![o] = NoTask]
  /\ tails' = Unlined(o, body)
  /\ UNCHANGED <<diskVars, body, aborted, procVars, histVars, boundVars>>

MayExecute(o) ==
  /\ Turn(o)
  /\ Pending(o, task[o].copy)
  /\ status[owner(o)] = "active"

\* The agent's grants do not cover the call, or its workspace holds a mutation
\* nobody has confirmed.
Refused(o) ==
  \/ verdict[o] # "allowed" /\ o \notin approved
  \/ mutating(o) /\ UnknownMutation(o)

ExecuteRefused(o) ==
  /\ MayExecute(o)
  /\ Refused(o)
  /\ Settle(o, [task[o].copy EXCEPT !.state = "failed"])
  /\ tails' = Unlined(o, body)
  /\ UNCHANGED <<reconc, approved, status, memo, told, open, body, procVars, histVars,
                 boundVars>>

\* The record is running on disk before the tool is called.
ExecuteStart(o) ==
  LET c == [task[o].copy EXCEPT !.state = "running"] IN
  /\ MayExecute(o)
  /\ ~Refused(o)
  /\ store' = [store EXCEPT ![o] = c]
  /\ task' = [task EXCEPT ![o] = [pc |-> "awaiting", copy |-> c]]
  /\ body' = body \cup {o}
  /\ starts' = [starts EXCEPT ![o] = @ + 1]
  /\ UNCHANGED <<reconc, approved, status, sched, memo, told, open, tails, aborted,
                 procVars, touched, ruled, boundVars>>

----------------------------------------------------------------------------
(* The tool, and the continuation of #execute after it *)

\* What the tool ended with, or that the wait for it was aborted.
Endings == {"result", "error", "precondition", "aborted"}

\* Mutant of Concluded: an ordinary error counts as not done.
ConcludedOptimistic(o, how) ==
  CASE how = "result" -> "succeeded"
    [] how \in {"precondition", "error"} -> "failed"
    [] how = "aborted" -> IF mutating(o) THEN "unknown" ELSE "failed"

Concluded(o, how) ==
  CASE how = "result"       -> "succeeded"
    [] how = "precondition" -> "failed"
    [] OTHER                -> IF mutating(o) THEN "unknown" ELSE "failed"

\* The record is put; then an unknown result pauses the agent; then the
\* scheduler is told.
Conclude(o, how, bodies) ==
  LET c == [task[o].copy EXCEPT !.state = Concluded(o, how)] IN
  /\ Settle(o, c)
  /\ tails' = Unlined(o, bodies)
  /\ status' = IF c.state = "unknown" THEN Paused(owner(o)) ELSE status

\* The process dies after the record was put.
ConcludeCut(o, how) ==
  /\ Alive /\ task[o].pc = "awaiting"
  /\ IF o \in aborted THEN how = "aborted" ELSE how # "aborted"
  /\ how = "result" /\ mutating(o) => o \in touched
  /\ how = "precondition" => o \notin touched
  /\ store' = [store EXCEPT ![o] = [task[o].copy EXCEPT !.state = Concluded(o, how)]]
  /\ Die
  /\ UNCHANGED <<reconc, approved, status, sched, memo, told, open, ruled>>

\* The tool changes the workspace.
ToolActs(o) ==
  /\ o \in body /\ mutating(o)
  /\ o \notin touched
  /\ touched' = touched \cup {o}
  /\ UNCHANGED <<diskVars, memVars, procVars, starts, ruled, boundVars>>

\* The tool ends.  ToolPreconditionError proves that nothing was changed, any
\* other error proves nothing; a result is returned after the change.  The
\* ending of a tool that nobody awaits any more only frees the workspace.
ToolEnds(o, how) ==
  /\ o \in body
  /\ how # "aborted"
  /\ how = "result" /\ mutating(o) => o \in touched
  /\ how = "precondition" => o \notin touched
  /\ body' = body \ {o}
  /\ IF task[o].pc = "awaiting" /\ o \notin aborted
       THEN Conclude(o, how, body')
       ELSE /\ tails' = IF task[o].pc = "awaiting" THEN tails ELSE Unlined(o, body')
            /\ UNCHANGED <<store, sched, task, aborted, status>>
  /\ UNCHANGED <<reconc, approved, memo, told, open, procVars, histVars, boundVars>>

\* The rejection of abortable reaches #execute.
AbortSeen(o) ==
  /\ Alive
  /\ task[o].pc = "awaiting" /\ o \in aborted
  /\ Conclude(o, "aborted", body)
  /\ UNCHANGED <<reconc, approved, memo, told, open, body, procVars, histVars, boundVars>>

----------------------------------------------------------------------------
(* Deadlines and the rounds that receive results *)

DeadlinePasses(o) ==
  /\ sched[o].stage = "pending"
  /\ sched' = [sched EXCEPT ![o].stage = "overdue"]
  /\ UNCHANGED <<store, reconc, approved, status, memo, told, open, memVars, procVars,
                 histVars, boundVars>>

\* The scheduler's timer ends the wait and aborts the signal.
TimesOut(o) ==
  /\ Alive
  /\ sched[o].stage = "overdue"
  /\ sched' = [sched EXCEPT ![o].stage = "timed_out"]
  /\ aborted' = IF task[o].pc = "awaiting" THEN aborted \cup {o} ELSE aborted
  /\ UNCHANGED <<store, reconc, approved, status, memo, told, open, task, tails, body,
                 procVars, histVars, boundVars>>

\* The record resolveWait leaves.
Resolved(o) ==
  IF sched[o].stage = "returned" THEN store[o]
  ELSE IF store[o].state = "running"
    THEN [store[o] EXCEPT !.state = IF mutating(o) THEN "unknown" ELSE "failed"]
    ELSE Expired(store[o])

\* The operation the scheduler's result is found by.
Found(o) == store[o].handle

\* resolveResult: the answer is fixed when it is first asked for.
ResolveWait(o) ==
  /\ Ready /\ status[owner(o)] = "active" /\ owner(o) \notin open
  /\ sched[o].stage \in Ended
  /\ Found(o) /\ memo[o] = "none"
  /\ store' = [store EXCEPT ![o] = Resolved(o)]
  /\ memo' = [memo EXCEPT ![o] = IF sched[o].stage = "returned" THEN sched[o].ref
                                 ELSE Resolved(o).state]
  /\ status' = IF Resolved(o).state = "unknown" /\ store[o].state = "running"
                 THEN Paused(owner(o)) ELSE status
  /\ UNCHANGED <<reconc, approved, sched, told, open, memVars, procVars, histVars,
                 boundVars>>

\* The round stores the answer in the agent's context.
ReceiveResult(o) ==
  /\ Ready /\ owner(o) \notin open
  /\ sched[o].stage \in Ended
  /\ Found(o) => memo[o] # "none"
  /\ told' = [told EXCEPT ![o] = @ \cup {IF Found(o) THEN memo[o] ELSE sched[o].stage}]
  /\ sched' = [sched EXCEPT ![o] = [stage |-> "received", ref |-> "none"]]
  /\ UNCHANGED <<store, reconc, approved, status, memo, open, memVars, procVars,
                 histVars, boundVars>>

\* resolveEvent and inputsReceived, for a reconciliation
ReceiveReconciliation(o) ==
  /\ Ready /\ status[owner(o)] = "active" /\ owner(o) \notin open
  /\ o \in reconc
  /\ told' = [told EXCEPT ![o] = @ \cup {store[o].state}]
  /\ reconc' = reconc \ {o}
  /\ UNCHANGED <<store, approved, status, sched, memo, open, memVars, procVars,
                 histVars, boundVars>>

----------------------------------------------------------------------------
(* The host *)

Approve(o, allowed) ==
  LET c == [store[o] EXCEPT !.state = IF allowed THEN "registered" ELSE "failed"] IN
  /\ Ready
  /\ store[o].state = "approval"
  /\ Pending(o, store[o])
  /\ status[owner(o)] = "active"
  /\ store' = [store EXCEPT ![o] = c]
  /\ IF allowed
       THEN /\ approved' = approved \cup {o}
            /\ task' = Launched({o}, store')
            /\ Line(owner(o), {o})
            /\ UNCHANGED sched
       ELSE /\ sched' = [sched EXCEPT ![o] = Delivered(@, c)]
            /\ UNCHANGED <<approved, task, tails>>
  /\ UNCHANGED <<reconc, status, memo, told, open, body, aborted, procVars,
                 histVars, boundVars>>

\* approve, after the wait for the operation has ended
ApproveLate(o) ==
  /\ Ready
  /\ store[o].state = "approval"
  /\ ~Pending(o, store[o])
  /\ store' = [store EXCEPT ![o] = Expired(@)]
  /\ sched' = [sched EXCEPT ![o] = Delivered(@, Expired(store[o]))]
  /\ UNCHANGED <<reconc, approved, status, memo, told, open, memVars, procVars,
                 histVars, boundVars>>

\* Mutant of Reconcilable: the tool may still be executing.
ReconcilableWhileExecuting(o) == store[o].state = "unknown"

\* The entry of #mutationWork goes when the promise and the tool have ended.
Reconcilable(o) ==
  store[o].state = "unknown" /\ o \notin body /\ task[o].pc # "awaiting"

\* Mutant of Outboxed: the reconciliation is not marked for delivery.
OutboxedNever(o) == reconc

\* The mark that putReconciliation sets in the same transaction; a dismissed
\* agent hears nothing more.
Outboxed(o) == IF status[owner(o)] = "dismissed" THEN reconc ELSE reconc \cup {o}

Reconcile(o, outcome) ==
  LET c == [store[o] EXCEPT !.state = outcome] IN
  /\ Ready
  /\ Reconcilable(o)
  /\ store' = [store EXCEPT ![o] = c]
  /\ reconc' = Outboxed(o)
  /\ sched' = [sched EXCEPT ![o] = Delivered(@, c)]
  /\ ruled' = ruled \cup {o}
  /\ UNCHANGED <<approved, status, memo, told, open, memVars, procVars, starts,
                 touched, boundVars>>

\* The process dies after the transaction.
ReconcileCut(o, outcome) ==
  /\ Ready
  /\ Reconcilable(o)
  /\ store' = [store EXCEPT ![o].state = outcome]
  /\ reconc' = reconc \cup {o}
  /\ ruled' = ruled \cup {o}
  /\ Die
  /\ UNCHANGED <<approved, status, sched, memo, told, open>>

\* pause: tools that execute go on
Pause(a) ==
  /\ Ready /\ pauses < MaxPauses
  /\ status[a] # "dismissed"
  /\ pauses' = pauses + 1
  /\ status' = [status EXCEPT ![a] = "paused"]
  /\ UNCHANGED <<store, reconc, approved, sched, memo, told, open, memVars, procVars,
                 histVars, crashes>>

Resumable(a) == status[a] # "dismissed" /\ Unknown(a) = {}

\* resume, and the executor's resume
Resume(a) ==
  LET L == {o \in OpsOf(a) : store[o].state = "registered"} IN
  /\ Ready
  /\ Resumable(a)
  /\ status' = [status EXCEPT ![a] = "active"]
  /\ task' = Launched(L, store)
  /\ Line(a, L)
  /\ UNCHANGED <<store, reconc, approved, sched, memo, told, open, body, aborted, procVars,
                 histVars, boundVars>>

\* cancel, after the pause it begins with has been awaited
Cancel(a) ==
  /\ Ready /\ pauses < MaxPauses
  /\ status[a] # "dismissed"
  /\ pauses' = pauses + 1
  /\ sched' = Cancelled(a)
  /\ aborted' = aborted \cup (Awaiting(a) \cap InFlightOf(a))
  /\ status' = [status EXCEPT ![a] = "cancelled"]
  /\ UNCHANGED <<store, reconc, approved, memo, told, open, task, tails, body, procVars,
                 histVars, crashes>>

\* The executor's dismiss: what has not begun expires, what executes is aborted.
Withdrawn(a) == [o \in Ops |-> IF o \in OpsOf(a) THEN Expired(store[o]) ELSE store[o]]

Dismiss(a) ==
  /\ Ready /\ pauses < MaxPauses
  /\ pauses' = pauses + 1
  /\ status' = [status EXCEPT ![a] = "dismissed"]
  /\ approved' = approved \ OpsOf(a)
  /\ sched' = Cancelled(a)
  /\ store' = Withdrawn(a)
  /\ aborted' = aborted \cup Awaiting(a)
  /\ UNCHANGED <<reconc, memo, told, open, task, tails, body, procVars, histVars,
                 crashes>>

\* The process dies after the tombstone was saved.
DismissCut(a) ==
  /\ Ready
  /\ status[a] # "dismissed"
  /\ status' = [status EXCEPT ![a] = "dismissed"]
  /\ approved' = approved \ OpsOf(a)
  /\ Die
  /\ UNCHANGED <<store, reconc, sched, memo, told, open, ruled>>

\* stop, for close and for failStop: signals are aborted, nothing more is begun
Stop ==
  /\ Alive /\ ~stopping
  /\ crashes < MaxCrashes
  /\ stopping' = TRUE
  /\ aborted' = aborted \cup {o \in Ops : task[o].pc = "awaiting"}
  /\ UNCHANGED <<diskVars, task, tails, body, phase, recovered, histVars, boundVars>>

Crash ==
  /\ Alive
  /\ Die
  /\ UNCHANGED <<diskVars, ruled>>

----------------------------------------------------------------------------
(* Starting again *)

\* Mutant of Isolated: every interrupted call is tried again.
IsolatedAsRetry(o) ==
  IF store[o].state = "running" THEN [store[o] EXCEPT !.state = "registered"] ELSE store[o]

\* isolateRestoredOperations
Isolated(o) ==
  IF store[o].state = "running"
    THEN [store[o] EXCEPT !.state = IF mutating(o) THEN "unknown" ELSE "registered"]
    ELSE store[o]

Boot ==
  /\ phase = "down"
  /\ phase' = "init"
  /\ store' = [o \in Ops |-> Isolated(o)]
  /\ UNCHANGED <<reconc, approved, status, sched, memo, told, open, memVars, stopping,
                 recovered, histVars, boundVars>>

\* initialize, for one agent; launched calls may execute before the next agent
\* is recovered
Recovering(a) == /\ phase = "init" /\ ~stopping
                 /\ a \notin recovered
                 /\ recovered' = recovered \cup {a}
                 /\ phase' = IF recovered' = Agents THEN "up" ELSE "init"
                 /\ UNCHANGED stopping

\* Mutant of Relaunched: only results are delivered again.
RelaunchedNone(a) == {}

\* The calls recover launches; one that was not registered with the scheduler
\* is left to the round that will stage it again.
Relaunched(a) == {o \in OpsOf(a) : store[o].state = "registered" /\ store[o].handle}

Recover(a) ==
  LET L == Relaunched(a)
      D == {o \in OpsOf(a) : store[o].state \in Terminal \cup {"unknown"}}
  IN /\ Recovering(a)
     /\ status[a] # "dismissed"
     /\ task' = Launched(L, store)
     /\ Line(a, L)
     /\ sched' = [o \in Ops |-> IF o \in D THEN Delivered(sched[o], store[o]) ELSE sched[o]]
     /\ status' = IF Unknown(a) # {} THEN Paused(a) ELSE status
     /\ UNCHANGED <<store, reconc, approved, memo, told, open, body, aborted,
                    histVars, boundVars>>

RecoverDismissed(a) ==
  /\ Recovering(a)
  /\ status[a] = "dismissed"
  /\ sched' = Cancelled(a)
  /\ store' = Withdrawn(a)
  /\ reconc' = reconc \ OpsOf(a)
  /\ UNCHANGED <<approved, status, memo, told, open, memVars, histVars, boundVars>>

----------------------------------------------------------------------------

Init ==
  /\ store = [o \in Ops |-> Absent]
  /\ reconc = {} /\ approved = {}
  /\ status = [a \in Agents |-> "active"]
  /\ sched = [o \in Ops |-> [stage |-> "none", ref |-> "none"]]
  /\ memo = [o \in Ops |-> "none"]
  /\ told = [o \in Ops |-> {}]
  /\ open = Agents
  /\ phase = "up" /\ stopping = FALSE /\ recovered = Agents
  /\ task = [o \in Ops |-> NoTask]
  /\ tails = [w \in Workspaces |-> <<>>]
  /\ body = {} /\ aborted = {}
  /\ starts = [o \in Ops |-> 0] /\ touched = {} /\ ruled = {}
  /\ crashes = 0 /\ pauses = 0

RoundStep(a) ==
  \/ \E commit \in BOOLEAN : Stage(a, commit)
  \/ \E i \in DOMAIN calls[a], registered \in BOOLEAN : StageCut(a, i, registered)

ExecuteStep(o) ==
  \/ ExecuteExpired(o) \/ ExecutePaused(o) \/ ExecuteRefused(o) \/ ExecuteStart(o)
  \/ AbortSeen(o)
  \/ \E how \in Endings : ConcludeCut(o, how)

ToolStep(o) == ToolActs(o) \/ \E how \in Endings : ToolEnds(o, how)

WaitStep(o) ==
  DeadlinePasses(o) \/ TimesOut(o) \/ ResolveWait(o) \/ ReceiveResult(o)
    \/ ReceiveReconciliation(o)

HostStep(o) ==
  \/ \E allowed \in BOOLEAN : Approve(o, allowed)
  \/ ApproveLate(o)
  \/ \E outcome \in Terminal : Reconcile(o, outcome) \/ ReconcileCut(o, outcome)

AgentStep(a) ==
  \/ Pause(a) \/ Resume(a) \/ Cancel(a) \/ Dismiss(a) \/ DismissCut(a)
  \/ Recover(a) \/ RecoverDismissed(a)

Next ==
  \/ \E a \in Agents : RoundStep(a) \/ AgentStep(a)
  \/ \E o \in Ops : ExecuteStep(o) \/ ToolStep(o) \/ WaitStep(o) \/ HostStep(o)
  \/ Stop \/ Crash \/ Boot

Spec == Init /\ [][Next]_vars
================================================================================

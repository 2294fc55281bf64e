--------------------------- MODULE TaskControlBlock -------------------------
(***************************************************************************)
(* The control block of one task (src/src/kernel/task-control-block.ts) as *)
(* operations on a record:                                                 *)
(*   st, why    status; why it is BLOCKED, or the kind of termination      *)
(*   tries      model attempts started                                     *)
(*   works      the asynchronous work table: a record per work id          *)
(*   due        a batch deadline is set for the open generation            *)
(*   packed     a secondary summary covers the whole context               *)
(*   grants     the capability grants, in the order they were installed    *)
(*   ask        the latest capability request                              *)
(*   graph      the local work graph                                       *)
(* A work id is a tool call or the id of a child task.  At most one         *)
(* generation of work is open; `open' marks its members, and the           *)
(* generation is closed by the claim that finds them all finished.  The    *)
(* context itself, events, budgets and summaries are left out, except for   *)
(* what delivery leaves behind: `told' counts how often the result of a     *)
(* work item was put into the context.                                     *)
(***************************************************************************)
EXTENDS Naturals, Sequences, FiniteSets, SequencesExt, AgentWorkGraph,
        CapabilityManager

CONSTANTS
  Tasks,     \* ids the id generator can produce
  Calls,     \* ids of tool calls
  Parent     \* the task an id is created under; Orphan for a root id

Orphan == "no parent"
NoTask == [st |-> "none"]
NoRef  == <<>>
NoAsk  == [n |-> 0, reqs |-> {}, route |-> "none", status |-> "none",
           path |-> <<>>, hop |-> 0]

(* The ancestors of a task, nearest first.  Ids are at most three deep,    *)
(* MAX_AGENT_DEPTH.                                                        *)
Ancestors(t) ==
  IF Parent[t] = Orphan THEN <<>>
  ELSE IF Parent[Parent[t]] = Orphan THEN <<Parent[t]>>
  ELSE <<Parent[t], Parent[Parent[t]]>>

depth(t)      == 1 + Len(Ancestors(t))
rootTaskId(t) == IF Parent[t] = Orphan THEN t ELSE Ancestors(t)[Len(Ancestors(t))]

createAgent(grants) ==
  [st |-> "READY", why |-> "submitted", tries |-> 0, works |-> <<>>,
   due |-> FALSE, packed |-> FALSE, grants |-> grants, ask |-> NoAsk,
   graph |-> NoGraph]

(* TaskControlBlock.restore refuses a snapshot whose graph is not valid.   *)
Restorable(b) == b.graph # NoGraph => validateAgentWorkGraph(b.graph)

Live(b) == b.st \in {"READY", "RUNNING", "BLOCKED"}

(* state-machine.ts: the transitions assertTaskTransition accepts.         *)
LEGAL_TRANSITIONS ==
  {<<"READY", "RUNNING">>, <<"READY", "TERMINATED">>,
   <<"RUNNING", "BLOCKED">>, <<"RUNNING", "READY">>, <<"RUNNING", "TERMINATED">>,
   <<"BLOCKED", "READY">>, <<"BLOCKED", "TERMINATED">>}

transition(b, st, why) ==
  [b EXCEPT !.st = st, !.why = why,
            !.graph = syncCurrentWorkGraphNode(b.graph, st)]

(* Anything appended to the context makes the secondary summary partial.   *)
appendContext(b) == [b EXCEPT !.packed = FALSE]

-----------------------------------------------------------------------------
(* The work table.                                                         *)

Finished(w) == w.st \in {"completed", "failed", "cancelled"}

Open(b) == {i \in DOMAIN b.works : b.works[i].open}

usedWorkIds(b) == DOMAIN b.works

registerAsyncWork(b, ids) ==
  [b EXCEPT !.works = [i \in DOMAIN b.works \cup ids |->
     IF i \in ids
     THEN [st |-> "running", open |-> TRUE, told |-> 0, ref |-> NoRef, seen |-> FALSE]
     ELSE b.works[i]]]

(* completeAsyncWork throws unless the item is open and not finished.      *)
Completable(b, i) == i \in Open(b) /\ ~Finished(b.works[i])

Ended(w, st) == [w EXCEPT !.st = st, !.ref = NoRef, !.seen = FALSE]

completeAsyncWork(b, i, st) == [b EXCEPT !.works[i] = Ended(@, st)]

subagentResult(kind) == IF kind \in {"failed", "cancelled"} THEN kind ELSE "completed"

completeSubagentWork(b, kid, kind) == completeAsyncWork(b, kid, subagentResult(kind))

(* The same for every item that st, or kind, names.                        *)
completeAsyncWorks(b, st) ==
  [b EXCEPT !.works = [i \in DOMAIN b.works |->
     IF i \in DOMAIN st THEN Ended(b.works[i], st[i]) ELSE b.works[i]]]

completeSubagentWorks(b, kind) ==
  completeAsyncWorks(b, [k \in DOMAIN kind |-> subagentResult(kind[k])])

Blocking(w) == w.st = "waiting" /\ w.ref # NoRef

(* markSubagentWaitingForCapability throws when there is a blocker already. *)
Markable(b, kid) == kid \in Open(b) /\ b.works[kid].st = "running"

markSubagentWaitingForCapability(b, kid, ref) ==
  [b EXCEPT !.works[kid].st = "waiting", !.works[kid].ref = ref,
            !.works[kid].seen = FALSE]

Clearable(b, kid, ref) ==
  kid \in Open(b) /\ b.works[kid].st = "waiting" /\ b.works[kid].ref = ref

clearSubagentCapabilityBlocker(b, kid) ==
  [b EXCEPT !.works[kid].st = "running", !.works[kid].ref = NoRef,
            !.works[kid].seen = FALSE]

activeAsyncWorkPendingIds(b) == {i \in Open(b) : ~Finished(b.works[i])}

hasActiveCapabilityBlockers(b) == \E i \in Open(b) : Blocking(b.works[i])

hasDeliveredCapabilityBlockerAwaitingDecision(b) ==
  \E i \in Open(b) : Blocking(b.works[i]) /\ b.works[i].seen

requeueActiveCapabilityBlockers(b) ==
  [b EXCEPT !.works = [i \in DOMAIN b.works |->
     IF i \in Open(b) /\ b.works[i].st = "waiting"
     THEN [b.works[i] EXCEPT !.seen = FALSE] ELSE b.works[i]]]

Undelivered(b) ==
  {i \in Open(b) : \/ Finished(b.works[i]) /\ b.works[i].told = 0
                   \/ Blocking(b.works[i]) /\ ~b.works[i].seen}

hasUndeliveredAsyncWorkResults(b) == Undelivered(b) # {}

isActiveAsyncWorkComplete(b) ==
  Open(b) # {} /\ \A i \in Open(b) : Finished(b.works[i])

(* Results and blockers enter the context; the last claim closes the       *)
(* generation.                                                             *)
claimAsyncWorkUpdate(b) ==
  LET all == isActiveAsyncWorkComplete(b)
      new == Undelivered(b)
  IN  appendContext([b EXCEPT
        !.due = FALSE,
        !.works = [i \in DOMAIN b.works |->
          LET w == b.works[i] IN
            IF i \notin Open(b) THEN w
            ELSE [w EXCEPT !.told = IF i \in new /\ Finished(w) THEN @ + 1 ELSE @,
                           !.seen = @ \/ (i \in new /\ Blocking(w)),
                           !.open = ~all]]])

-----------------------------------------------------------------------------
(* Capability grants and the request record.                               *)

addCapabilityGrants(b, new) == [b EXCEPT !.grants = @ \o new]


(* A limited grant is used up by one operation, which may use it again.    *)
consumeCapabilityGrant(b, at, op) ==
  [b EXCEPT !.grants = [i \in DOMAIN b.grants |->
     IF i \in at /\ b.grants[i].limited /\ b.grants[i].usedBy # op
     THEN [b.grants[i] EXCEPT !.uses = @ - 1, !.usedBy = op] ELSE b.grants[i]]]

Pending(b) == b.ask.status = "pending"

registerCapabilityRequest(b, reqs, route, path) ==
  [b EXCEPT !.ask = [n |-> b.ask.n + 1, reqs |-> reqs, route |-> route,
                     status |-> "pending", path |-> path,
                     hop |-> IF route = "parent" THEN 1 ELSE 0]]

HasHop(b) == Pending(b) /\ b.ask.hop \in DOMAIN b.ask.path

currentCapabilityDelegationHop(b) == b.ask.path[b.ask.hop]

advanceCapabilityDelegation(b) == [b EXCEPT !.ask.hop = @ + 1]

resolveCapabilityRequest(b, status, grants) ==
  [addCapabilityGrants(b, grants) EXCEPT !.ask.status = status]

denyPendingCapabilityRequests(b) ==
  IF Pending(b) THEN [b EXCEPT !.ask.status = "denied"] ELSE b

=============================================================================

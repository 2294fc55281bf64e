---------------------------- MODULE TaskScheduler ---------------------------
(***************************************************************************)
(* The task scheduler (src/src/scheduler/task-scheduler.ts) over the task  *)
(* control blocks, the agent pool, the capability manager and the durable  *)
(* task store, under crashes of the process.                               *)
(*                                                                         *)
(* An asynchronous function of the code is a stack of frames: what it has  *)
(* still to do, outermost last.  A job is one such stack: the scheduling   *)
(* loop, the host call, the request of a task, a tool call, the expiry of  *)
(* a batch timer.  A step runs the code from one await to the next; as the *)
(* shipped stores write synchronously, a step ends with the write it       *)
(* awaits, and a crash falls between two steps.  Frames waiting for the    *)
(* provider or a tool go on whenever the answer comes.                     *)
(*                                                                         *)
(* serializeAsyncWorkMutation is a lock: a frame "unlock" in a stack means *)
(* that the job holds the chain of that task.                              *)
(***************************************************************************)
EXTENDS AgentPool, TLC

CONSTANTS
  Ids,          \* all task ids, in the order the generator produces them
  Answers,      \* what the provider may answer to a request of each task
  Needs,        \* the capabilities a tool call requires
  ReadOnly,     \* tool calls without effects
  RootGrants,   \* the capability requests a root is submitted with
  Ceiling,      \* capabilityCeiling of the Character of each id
  Requestable,  \* requestableCapabilities of the Character of each id
  Coordination, \* "legacy" or "ai_graph"
  Fits,         \* outcomes of the context selection: "fits", "packs", "over"
  MaxTries,     \* maxModelAttempts of each task
  Overlap,      \* TRUE when providers, tools and waits may answer at once
  MayFail,      \* faults that may happen: "send", "tool", "refuse", "compact"
  MaxCrashes,   \* bound on crashes of the process
  MaxCancels    \* bound on cancel and wake calls of the host

(* Ids come from a generator that never repeats one, an agent is created   *)
(* no deeper than MAX_AGENT_DEPTH, and what a provider answers is finite.  *)
ASSUME TaskAssumption ==
  /\ IsFiniteSet(Tasks) /\ Tasks \cap Calls = {}
  /\ Orphan \notin Tasks /\ Parent \in [Tasks -> Tasks \cup {Orphan}]
  /\ \A t \in Tasks : Parent[t] # Orphan /\ Parent[Parent[t]] # Orphan
                       => Parent[Parent[Parent[t]]] = Orphan
  /\ Ids \in Seq(Tasks) /\ ToSet(Ids) = Tasks /\ IsInjective(Ids)
  /\ Fits \subseteq {"fits", "packs", "over"}
  /\ \A t \in Tasks : \A a \in Answers[t] :
       /\ a.type \in {"spawn_subagents", "tool_calls", "async_work"} =>
            a.calls \in Seq(Calls) /\ Len(a.kids) \in Nat
       /\ a.type = "set_graph" => IsFiniteSet(DOMAIN a.graph)

(* The mark of a node without a child is not an id.                        *)
ASSUME ChildAssumption == NoChild \notin Tasks

VARIABLES
  mem,      \* #tasks: the control blocks in memory
  disk,     \* the snapshots in the task store
  queue,    \* #readyQueue, whose order is the subject of ReadyQueue
  packing,  \* #pendingContextCompactions
  timers,   \* #asyncWorkTimers
  wake,     \* #asyncWorkWakeReady
  pool,     \* #agentPool
  jobs,     \* the functions under way
  phase,    \* "down", "boot" while restoreMany runs, "up"
  ran,      \* the tool calls whose execute was entered, over all crashes
  approved, \* the number of requests a human granted to each task
  crashes, cancels

vars == <<mem, disk, queue, packing, timers, wake, pool, jobs, phase, ran,
          approved, crashes, cancels>>

Jobs == {<<"loop">>, <<"host">>} \cup ({"model", "turn", "timer"} \X Tasks)
        \cup ({"call"} \X Calls)

S == [mem |-> mem, disk |-> disk, queue |-> queue, packing |-> packing,
      timers |-> timers, wake |-> wake, pool |-> pool, jobs |-> jobs, ran |-> ran]

(* Leading frames that only mark what they enclose, a lock held or the try  *)
(* around a delegation, take no step of their own.                         *)
Trim(q) ==
  LET busy == {i \in DOMAIN q : q[i].op \notin {"unlock", "try"}}
  IN  IF busy = {} THEN <<>>
      ELSE SubSeq(q, CHOOSE i \in busy : \A k \in busy : i <= k, Len(q))

Do(s) ==
  /\ mem' = s.mem /\ disk' = s.disk /\ queue' = s.queue /\ packing' = s.packing
  /\ timers' = s.timers /\ wake' = s.wake /\ pool' = s.pool /\ ran' = s.ran
  /\ jobs' = [j \in Jobs |-> Trim(s.jobs[j])]

Frame(op, t, x) == [op |-> op, t |-> t, x |-> x]
Then(op, t)     == Frame(op, t, <<>>)
Push(s, j, frames) == [s EXCEPT !.jobs[j] = frames \o @]
Pop(s, j) == [s EXCEPT !.jobs[j] = Tail(@)]
At(j, op) == jobs[j] # <<>> /\ jobs[j][1].op = op

Locked(t) == \E j \in Jobs : \E i \in DOMAIN jobs[j] :
               jobs[j][i].op = "unlock" /\ jobs[j][i].t = t

Put(s, t, b)  == [s EXCEPT !.mem[t] = b]
Persist(s, t) == [s EXCEPT !.disk[t] = s.mem[t]]

(* Every function under way waits for the provider, a tool or a timer.  A  *)
(* call waits also for the calls before it.                                *)
Unhindered(j) == \A i \in DOMAIN jobs[j][1].x : jobs[<<"call", jobs[j][1].x[i]>>] = <<>>

AllWait ==
  \A j \in Jobs : jobs[j] # <<>> =>
    jobs[j][1].op \in {"model", "compact", "exec"} \/ (jobs[j][1].op = "start" /\ ~Unhindered(j))

(* Answers, results and timers come as events of their own, after the      *)
(* functions under way went as far as they can; those that are produced    *)
(* inside the process without any input or output may overtake them.       *)
Event == Overlap \/ AllWait

(* Types.  A control block is one of the records its snapshot schema names, *)
(* and each item of its work table is a call or a child of the task.       *)
BlockOK(t, b) ==
  \/ b = NoTask
  \/ /\ Live(b) \/ b.st = "TERMINATED"
     /\ b.tries \in 0..MaxTries[t]
     /\ \A i \in DOMAIN b.works :
          /\ i \in Calls \/ (i \in Tasks /\ Parent[i] = t)
          /\ b.works[i].st \in {"running", "waiting", "completed", "failed", "cancelled"}
          /\ b.works[i].told \in 0..1
     /\ b.ask.status \in {"none", "pending", "granted", "denied"}
     /\ b.ask.hop \in 0..Len(b.ask.path) + 1
     /\ b.graph # NoGraph => b.graph.phase \in {"planning", "executing"}

TypeOK ==
  /\ \A t \in Tasks : BlockOK(t, mem[t]) /\ BlockOK(t, disk[t])
  /\ queue \subseteq Tasks /\ packing \subseteq Tasks
  /\ timers \subseteq Tasks /\ wake \subseteq Tasks
  /\ pool.live \subseteq Tasks
  /\ DOMAIN jobs = Jobs
  /\ phase \in {"down", "boot", "up"}
  /\ ran \subseteq Calls
  /\ crashes \in 0..MaxCrashes /\ cancels \in 0..MaxCancels

Nothing == [t \in Tasks |-> NoTask]
Idle    == [j \in Jobs |-> <<>>]

Init ==
  /\ mem = Nothing /\ disk = Nothing /\ queue = {} /\ packing = {}
  /\ timers = {} /\ wake = {} /\ pool = EmptyPool /\ jobs = Idle
  /\ phase = "up" /\ ran = {} /\ approved = [t \in Tasks |-> 0]
  /\ crashes = 0 /\ cancels = 0

Stay == UNCHANGED <<phase, approved, crashes, cancels>>

-----------------------------------------------------------------------------
(* Termination.  The children are cancelled one after the other and the    *)
(* parent is told last.                                                    *)

terminateTask(s, j, t, kind) ==
  IF s.mem[t].st = "TERMINATED" THEN s
  ELSE LET b    == transition(denyPendingCapabilityRequests(s.mem[t]), "TERMINATED", kind)
           kids == childrenOf(s.pool, t)
           s1   == [s EXCEPT !.queue = @ \ {t}, !.packing = @ \ {t},
                             !.timers = @ \ {t}, !.wake = @ \ {t},
                             !.pool = release(@, t)]
       IN  Push(Persist(Put(s1, t, b), t), j,
                <<Frame("cancel", t, SetToSeq(kids)), Frame("notify", t, <<kind>>)>>)

(* Mutant of prepareTaskForQueue: a task handed to the compactor stays queued. *)
prepareTaskForQueueTwice(s, j, t, fit) ==
  CASE fit = "fits" -> [s EXCEPT !.queue = @ \cup {t}]
    [] fit = "packs" /\ ~s.mem[t].packed -> [s EXCEPT !.packing = @ \cup {t}]
    [] fit = "over" \/ (fit = "packs" /\ s.mem[t].packed) -> terminateTask(s, j, t, "failed")

(* prepareTaskForQueue: queue the task, hand it to the compactor, or give  *)
(* it up because its context cannot be made to fit.                        *)
prepareTaskForQueue(s, j, t, fit) ==
  LET s1 == [s EXCEPT !.queue = @ \ {t}, !.packing = @ \ {t}]
  IN  CASE fit = "fits" -> [s1 EXCEPT !.queue = @ \cup {t}]
        [] fit = "packs" /\ ~s.mem[t].packed -> [s1 EXCEPT !.packing = @ \cup {t}]
        [] fit = "over" \/ (fit = "packs" /\ s.mem[t].packed) ->
             terminateTask(s1, j, t, "failed")

(* The common end of a turn: READY, prepared and saved.                    *)
Requeue(s, j, t, b, fit) ==
  Persist(prepareTaskForQueue(Put(s, t, transition(b, "READY", "")), j, t, fit), t)

(* handleModelFailure.                                                     *)
handleModelFailure(s, j, t, fit) ==
  IF s.mem[t].tries >= MaxTries[t] THEN terminateTask(s, j, t, "failed")
  ELSE CASE s.mem[t].st = "RUNNING" -> Requeue(s, j, t, s.mem[t], fit)
         [] s.mem[t].st = "BLOCKED" -> Persist(s, t)
         [] s.mem[t].st = "READY"   -> Persist(prepareTaskForQueue(s, j, t, fit), t)

(* An exception inside a job drops what the job had still to do, releases  *)
(* the chains it holds and reaches the catch of executeModelRequest when   *)
(* the job is a request, that of advanceReadyGraphTask when the loop       *)
(* delegates nodes.                                                        *)
Throw(s, j, fit) ==
  LET s1  == [s EXCEPT !.jobs[j] = <<>>]
      t   == j[2]
      tries == {i \in DOMAIN s.jobs[j] : s.jobs[j][i].op = "try"}
      try == s.jobs[j][CHOOSE i \in tries : TRUE]
  IN  IF tries # {} THEN Push(s1, j, <<Frame("failnodes", try.t, try.x)>>)
      ELSE IF j[1] # "turn" THEN s1
      ELSE IF s.mem[t].st = "TERMINATED" THEN s1
      ELSE IF t \in s.wake /\ hasUndeliveredAsyncWorkResults(s.mem[t])
      THEN Push(s1, j, <<Then("settle", t)>>)
      ELSE handleModelFailure(s1, j, t, fit)

(* Mutant of CancelChildren: a child whose request is under way is left.   *)
CancelWaitingChildren(j) ==
  /\ At(j, "cancel")
  /\ LET f    == jobs[j][1]
         live == {k \in ToSet(f.x) : mem[k].st \in {"READY", "BLOCKED"}}
     IN  IF live = {} THEN Do(Pop(S, j))
         ELSE \E k \in live :
                Do(terminateTask(Push(Pop(S, j), j, <<Frame("cancel", f.t, SetToSeq(live \ {k}))>>),
                                 j, k, "cancelled"))
  /\ Stay

CancelChildren(j) ==
  /\ At(j, "cancel")
  /\ LET f    == jobs[j][1]
         live == {k \in ToSet(f.x) : Live(mem[k])}
     IN  IF live = {} THEN Do(Pop(S, j))
         ELSE \E k \in live :
                Do(terminateTask(Push(Pop(S, j), j, <<Frame("cancel", f.t, SetToSeq(live \ {k}))>>),
                                 j, k, "cancelled"))
  /\ Stay

(* notifyParentOfTermination.                                              *)
NotifyParent(j) ==
  /\ At(j, "notify")
  /\ LET f == jobs[j][1]
         p == Parent[f.t]
     IN  IF p = Orphan THEN Do(Pop(S, j))
         ELSE IF ~Live(mem[p]) THEN Do(Pop(S, j))
         ELSE IF ~Completable(mem[p], f.t) THEN Do(Pop(S, j))
         ELSE Do(Push(Put(Pop(S, j), p,
                   [completeSubagentWork(mem[p], f.t, f.x[1]) EXCEPT
                     !.graph = completeDelegatedWorkGraphNode(@, f.t, f.x[1])]),
                 j, <<Then("progress", p)>>))
  /\ Stay

-----------------------------------------------------------------------------
(* Results of asynchronous work.                                           *)

CancelTimer(s, t) == [s EXCEPT !.timers = @ \ {t}, !.mem[t].due = FALSE]

(* Mutant of deliverAsyncWorkUpdate: the parent is not looked at again.    *)
deliverAsyncWorkUpdateAnyway(s, j, p, fit) ==
  LET b  == s.mem[p]
      s1 == [s EXCEPT !.wake = @ \ {p}]
  IN  IF Open(b) = {} THEN s1
      ELSE IF ~hasUndeliveredAsyncWorkResults(b) THEN CancelTimer(s1, p)
      ELSE Requeue(CancelTimer(s1, p), j, p, claimAsyncWorkUpdate(b), fit)

deliverAsyncWorkUpdate(s, j, p, fit) ==
  LET b  == s.mem[p]
      s1 == [s EXCEPT !.wake = @ \ {p}]
  IN  CASE b.st = "TERMINATED" -> s1
        [] b.st = "RUNNING" \/ (b.st = "BLOCKED" /\ b.why # "work") ->
             [s EXCEPT !.wake = @ \cup {p}]
        [] b.st = "READY" \/ (b.st = "BLOCKED" /\ b.why = "work") ->
             IF Open(b) = {} THEN s1
             ELSE IF ~hasUndeliveredAsyncWorkResults(b) THEN CancelTimer(s1, p)
             ELSE Requeue(CancelTimer(s1, p), j, p, claimAsyncWorkUpdate(b), fit)

(* processAsyncWorkProgress up to its write.                               *)
AsyncWorkProgress(j) ==
  /\ At(j, "progress")
  /\ LET p == jobs[j][1].t
         b == mem[p]
         s == Pop(S, j)
     IN  /\ ~Locked(p)
         /\ Do(IF ~Live(b) THEN s
               ELSE IF ~hasUndeliveredAsyncWorkResults(b) THEN Persist(s, p)
               ELSE IF isActiveAsyncWorkComplete(b)
               THEN Push(Persist(CancelTimer([s EXCEPT !.wake = @ \cup {p}], p), p), j,
                         <<Then("deliver", p), Then("unlock", p)>>)
               ELSE IF p \in timers THEN Persist(s, p)
               ELSE Persist([s EXCEPT !.timers = @ \cup {p}, !.mem[p].due = TRUE], p))
  /\ Stay

(* Mutant of DeliverWhenIdle: only a task that is queued is given results. *)
DeliverWhenReady(j, fit) ==
  /\ At(j, "deliver")
  /\ LET p == jobs[j][1].t
     IN  Do(IF mem[p].st # "READY" THEN Pop(S, j)
            ELSE deliverAsyncWorkUpdate(Pop(S, j), j, p, fit))
  /\ Stay

(* The rest of processAsyncWorkProgress once everything is finished.       *)
DeliverWhenIdle(j, fit) ==
  /\ At(j, "deliver")
  /\ LET p == jobs[j][1].t
     IN  Do(IF mem[p].st = "RUNNING" THEN Pop(S, j)
            ELSE deliverAsyncWorkUpdate(Pop(S, j), j, p, fit))
  /\ Stay

(* The batch window ends: scheduleAsyncWorkTimer after its wait.           *)
TimerFires(t, fit) ==
  LET j == <<"timer", t>>
      s == [CancelTimer(S, t) EXCEPT !.wake = @ \cup {t}]
  IN  /\ Event /\ phase # "down" /\ t \in timers /\ jobs[j] = <<>> /\ ~Locked(t)
      /\ Do(IF mem[t].st = "RUNNING" THEN Persist(s, t)
            ELSE deliverAsyncWorkUpdate(Push(s, j, <<Then("unlock", t)>>), j, t, fit))
      /\ Stay

(* Mutant of Settle: a result that came during the turn is not looked for. *)
SettleIgnoringResults(j, fit) ==
  /\ At(j, "settle")
  /\ LET p == jobs[j][1].t
         s == Pop(S, j)
     IN  /\ ~Locked(p)
         /\ Do(IF mem[p].st # "RUNNING" THEN s
               ELSE IF activeAsyncWorkPendingIds(mem[p]) = {} THEN Throw(s, j, fit)
               ELSE Persist(Put(s, p, transition(mem[p], "BLOCKED", "work")), p))
  /\ Stay

(* processParentAfterAsyncWorkTurn.                                        *)
Settle(j, fit) ==
  /\ At(j, "settle")
  /\ LET p == jobs[j][1].t
         b == mem[p]
         s == Pop(S, j)
         held == Push(s, j, <<Then("unlock", p)>>)
     IN  /\ ~Locked(p)
         /\ Do(IF b.st # "RUNNING" THEN s
               ELSE IF p \in wake /\ hasUndeliveredAsyncWorkResults(b)
               THEN Requeue(CancelTimer([held EXCEPT !.wake = @ \ {p}], p), j, p,
                            claimAsyncWorkUpdate(b), fit)
               ELSE IF activeAsyncWorkPendingIds(b) = {} THEN Throw(s, j, fit)
               ELSE Persist(Put(s, p, transition(b, "BLOCKED", "work")), p))
  /\ Stay

-----------------------------------------------------------------------------
(* Starting asynchronous work.                                             *)

(* The ids of a set, in the order of the generator.                        *)
Ordered(X) ==
  LET kept[i \in 0 .. Len(Ids)] ==
        IF i = 0 THEN <<>>
        ELSE IF Ids[i] \in X THEN Append(kept[i - 1], Ids[i]) ELSE kept[i - 1]
  IN  kept[Len(Ids)]

FreshIds(s, p) ==
  Ordered({k \in Tasks : /\ Parent[k] = p /\ s.mem[k] = NoTask
                         /\ k \notin usedWorkIds(s.mem[p])})

(* The first n of them, or all when the bound on ids leaves fewer.         *)
NewIds(s, p, n) == LET fresh == FreshIds(s, p)
                   IN  SubSeq(fresh, 1, IF n < Len(fresh) THEN n ELSE Len(fresh))


OutsideCeiling(t, reqs) == \E req \in reqs : req.cap \notin Ceiling[t]

(* resolveAuthorizedTool throws: the tool declares nothing, or the task    *)
(* lacks what it declares.                                                 *)
Unauthorized(b, c) == Needs[c] = {} \/ Missing(b.grants, Needs[c], c) # {}

(* The checks of startAsyncWork before anything is registered.             *)
WorkRefused(s, p, calls, kids, asks) ==
  \/ ToSet(calls) \cap usedWorkIds(s.mem[p]) # {}
  \/ \E i \in DOMAIN kids : \/ OutsideCeiling(kids[i], asks[i])
                            \/ ~validateDelegation(s.mem[p].grants, asks[i])
  \/ \E i \in DOMAIN calls : Unauthorized(s.mem[p], calls[i])
  \/ asks # <<>> /\ ~tryReserveChildren(s.pool, p, Len(asks))

(* rejectSubagentSpawn, rejectToolCall and rejectGraphAction: the reason    *)
(* enters the context and the task is queued again.                        *)
Reject(s, j, t, fit) == Requeue(s, j, t, appendContext(s.mem[t]), fit)

(* The synchronous section of startAsyncWork: children, work table, pool;  *)
(* then the parent settles, the children are sent, the tools are launched. *)
startAsyncWork(s, j, p, calls, kids, asks, nodes) ==
  LET b0 == registerAsyncWork(s.mem[p], ToSet(calls) \cup ToSet(kids))
      b1 == IF calls = <<>> THEN b0 ELSE appendContext(b0)
      b2 == IF nodes = <<>> THEN b1
            ELSE [b1 EXCEPT !.graph = bindDelegatedWorkGraphNodes(@, nodes, kids)]
      s1 == [s EXCEPT
              !.mem = [t \in Tasks |->
                 IF t = p THEN b2
                 ELSE IF t \in ToSet(kids)
                 THEN createAgent(delegate(p, asks[CHOOSE i \in DOMAIN kids : kids[i] = t]))
                 ELSE s.mem[t]],
              !.pool = IF kids = <<>> THEN @ ELSE commit(@, p, ToSet(kids))]
      sends  == [i \in DOMAIN kids |-> Then("send", kids[i])]
      launch == IF calls = <<>> THEN <<>> ELSE <<Frame("launch", p, calls)>>
  IN  Push(s1, j, <<Then("settle", p)>> \o sends \o launch)

(* sendSpawnedChild: the child is saved, then queued.                      *)
SendChild(j) ==
  /\ At(j, "send")
  /\ LET k == jobs[j][1].t
     IN  Do(Push(Persist(Pop(S, j), k), j, <<Then("enqueue", k)>>))
  /\ Stay

(* Its catch: the slot is given back and the work fails at the parent.     *)
SendFailed(j, k, fit) ==
  LET p  == Parent[k]
      s1 == [Pop(S, j) EXCEPT !.mem[k] = NoTask, !.pool = release(@, k)]
  IN  IF ~Live(mem[p]) THEN s1
      ELSE IF ~Completable(mem[p], k) THEN Throw(s1, j, fit)
      ELSE Push(Put(s1, p, [completeSubagentWork(mem[p], k, "failed") EXCEPT
                              !.graph = completeDelegatedWorkGraphNode(@, k, "failed")]),
                j, <<Then("progress", p)>>)

SendChildFails(j, fit) ==
  /\ "send" \in MayFail /\ At(j, "send")
  /\ Do(SendFailed(j, jobs[j][1].t, fit))
  /\ Stay

EnqueueChild(j, fit) ==
  /\ At(j, "enqueue")
  /\ LET k == jobs[j][1].t
     IN  Do(IF mem[k].st = "READY" THEN prepareTaskForQueue(Pop(S, j), j, k, fit)
            ELSE SendFailed(j, k, fit))
  /\ Stay

(* executeAsyncToolCalls: calls without effects run together, the others   *)
(* one after the other behind them.                                        *)
Earlier(calls, i) ==
  IF calls[i] \in ReadOnly THEN {}
  ELSE {calls[k] : k \in {k \in DOMAIN calls : calls[k] \in ReadOnly \/ k < i}}

Launch(s, t, calls) ==
  [s EXCEPT !.jobs = [j \in Jobs |->
     IF \E i \in DOMAIN calls : j = <<"call", calls[i]>>
     THEN LET i == CHOOSE i \in DOMAIN calls : j = <<"call", calls[i]>>
          IN  Append(s.jobs[j], Frame("start", t, SetToSeq(Earlier(calls, i))))
     ELSE s.jobs[j]]]

LaunchCalls(j) ==
  /\ At(j, "launch")
  /\ Do(Launch(Pop(S, j), jobs[j][1].t, jobs[j][1].x))
  /\ Stay

(* executeAsyncToolCall and executeResolvedTool up to tool.execute.        *)
StartCall(c) ==
  LET j == <<"call", c>>
      t == jobs[j][1].t
      b == mem[t]
      s == Pop(S, j)
  IN  /\ At(j, "start")
      /\ Unhindered(j)
      /\ Do(IF b.st = "TERMINATED" THEN s
            ELSE IF Unauthorized(b, c)
            THEN Push(Put(s, t, completeAsyncWork(b, c, "failed")), j,
                      <<Then("progress", t)>>)
            ELSE Push(Persist(Put([s EXCEPT !.ran = @ \cup {c}], t,
                        consumeCapabilityGrant(b, Used(b.grants, Needs[c], c), c)), t),
                      j, <<Then("exec", t)>>))
      /\ Stay

(* The tool returns or throws.                                             *)
EndCall(c) ==
  LET j == <<"call", c>>
      t == jobs[j][1].t
      s == Pop(S, j)
  IN  /\ Event /\ At(j, "exec")
      /\ \E st \in {"completed"} \cup (IF "tool" \in MayFail THEN {"failed"} ELSE {}) :
           Do(IF mem[t].st = "TERMINATED" THEN s
              ELSE Push(Put(s, t, completeAsyncWork(mem[t], c, st)), j,
                        <<Then("progress", t)>>))
      /\ Stay

-----------------------------------------------------------------------------
(* Answers of the provider: executeModelRequest.                           *)

(* The request of a task, and what is left to do of an answered one: the    *)
(* task may be admitted again while its last turn still sends children.     *)
ModelJob(t) == <<"model", t>>
TurnJob(t)  == <<"turn", t>>

(* validateGraphResponse.                                                  *)
AnswerAllowed(g, a) ==
  IF Coordination # "ai_graph"
  THEN a.type \notin {"set_graph", "complete_node", "request_replan"}
  ELSE LET mode == agentWorkGraphMode(g) IN
    /\ a.type \in {"resolve_capability_request", "wait_for_async_work"} \cup
         CASE mode = "plan" -> {"final", "needs_parent_action",
                                "request_capabilities", "set_graph"}
           [] mode = "execute" -> {"async_work", "complete_node", "tool_calls",
                                   "request_capabilities", "request_replan"}
           [] mode = "waiting" -> {}
    /\ mode = "execute" /\ a.type = "async_work" => a.kids = <<>>

(* The answer a has come for t and is one the protocol accepts.            *)
Answered(t, a) ==
  /\ Event /\ At(ModelJob(t), "model") /\ jobs[TurnJob(t)] = <<>> /\ a \in Answers[t]
  /\ mem[t].st # "TERMINATED" /\ AnswerAllowed(mem[t].graph, a)

Turn(t) == Pop(S, ModelJob(t))

(* The task was terminated while the request was under way.                *)
LateAnswer(t) ==
  /\ Event /\ At(ModelJob(t), "model") /\ mem[t].st = "TERMINATED"
  /\ Do(Turn(t)) /\ Stay

(* The request fails, or the answer is malformed.                          *)
RequestFails(t, fit) ==
  /\ Event /\ At(ModelJob(t), "model") /\ jobs[TurnJob(t)] = <<>> /\ [type |-> "error"] \in Answers[t]
  /\ mem[t].st # "TERMINATED"
  /\ Do(Throw(Turn(t), TurnJob(t), fit)) /\ Stay

AnswerRefused(t, fit) ==
  /\ Event /\ At(ModelJob(t), "model") /\ jobs[TurnJob(t)] = <<>>
  /\ mem[t].st # "TERMINATED"
  /\ \E a \in Answers[t] : a.type # "error" /\ ~AnswerAllowed(mem[t].graph, a)
  /\ Do(Reject(Turn(t), TurnJob(t), t, fit)) /\ Stay

(* final, refused while the graph is not complete, and needs_parent_action. *)
AnswerFinal(t, a, fit) ==
  /\ Answered(t, a) /\ a.type \in {"final", "needs_parent_action"}
  /\ Do(IF /\ a.type = "final" /\ Coordination = "ai_graph"
           /\ mem[t].graph # NoGraph /\ ~isAgentWorkGraphComplete(mem[t].graph)
        THEN Reject(Turn(t), TurnJob(t), t, fit)
        ELSE terminateTask(Turn(t), TurnJob(t), t,
                           IF a.type = "final" THEN "completed" ELSE "needs_parent_action"))
  /\ Stay

(* spawn_subagents, tool_calls and async_work.  a.calls are the calls,     *)
(* a.kids the capabilities asked for each child.                           *)
AnswerWork(t, a, fit) ==
  /\ Answered(t, a) /\ a.type \in {"spawn_subagents", "tool_calls", "async_work"}
  /\ LET kids == NewIds(S, t, Len(a.kids))
         no   == WorkRefused(S, t, a.calls, kids, a.kids)
     IN  /\ no \/ Len(kids) = Len(a.kids)
         /\ Do(IF no THEN Reject(Turn(t), TurnJob(t), t, fit)
               ELSE startAsyncWork(Turn(t), TurnJob(t), t, a.calls, kids, a.kids, <<>>))
  /\ Stay

AnswerWait(t, a, fit) ==
  /\ Answered(t, a) /\ a.type = "wait_for_async_work"
  /\ Do(IF hasActiveCapabilityBlockers(mem[t]) THEN Throw(Turn(t), TurnJob(t), fit)
        ELSE Push(Turn(t), TurnJob(t), <<Then("settle", t)>>))
  /\ Stay

(* validateGraphProposal.  The children a task may have share a Character. *)
GraphRefused(t, p) ==
  \/ ~validateAgentWorkGraphProposal(p)
  \/ \E a \in {a \in DOMAIN p : p[a].who # "self"} :
       \/ ~canTaskSpawn(pool, t)
       \/ \E k \in Tasks : Parent[k] = t /\ OutsideCeiling(k, p[a].asks)
       \/ ~validateDelegation(mem[t].grants, p[a].asks)

(* set_graph, complete_node and request_replan.                            *)
AnswerGraph(t, a, fit) ==
  /\ Answered(t, a) /\ a.type \in {"set_graph", "complete_node", "request_replan"}
  /\ LET b == mem[t]
         g == CASE a.type = "set_graph" -> createAgentWorkGraph(a.graph)
                [] a.type = "complete_node" -> completeCurrentWorkGraphNode(b.graph)
                [] a.type = "request_replan" -> requestCurrentWorkGraphReplan(b.graph)
         revised == IF a.type = "set_graph" /\ b.graph # NoGraph THEN appendContext(b) ELSE b
     IN  Do(IF a.type = "set_graph" /\ GraphRefused(t, a.graph)
            THEN Reject(Turn(t), TurnJob(t), t, fit)
            ELSE Requeue(Turn(t), TurnJob(t), t, [revised EXCEPT !.graph = g], fit))
  /\ Stay

-----------------------------------------------------------------------------
(* Capability requests.                                                    *)

(* capabilityAncestors: up to the first one that is gone.                  *)
capabilityAncestors(t) ==
  LET up == Ancestors(t)
  IN  IF up = <<>> \/ ~Live(mem[up[1]]) THEN <<>>
      ELSE IF Len(up) = 1 \/ ~Live(mem[up[2]]) THEN <<up[1]>> ELSE up

Ref(t) == <<t, mem[t].ask.n>>

(* requestCapabilities: answered at once when nothing is missing or no     *)
(* route exists, otherwise the task blocks until someone decides.          *)
AnswerAsk(t, a, fit) ==
  /\ Answered(t, a) /\ a.type = "request_capabilities"
  /\ LET b       == mem[t]
         j       == TurnJob(t)
         missing == Missing(b.grants, a.reqs, NoOp)
         chain   == IF Parent[t] = Orphan THEN <<t>> ELSE capabilityAncestors(t)
         plan    == planRequest(t, chain, [x \in Tasks |-> IF mem[x] = NoTask THEN <<>>
                                                           ELSE mem[x].grants], missing)
         asked   == transition(registerCapabilityRequest(b, missing, plan.route, plan.path),
                               "BLOCKED", IF plan.route = "human" THEN "human" ELSE "ask")
     IN  Do(IF \/ missing = {} \/ plan = NoRoute
               \/ \E req \in missing : req.cap \notin Requestable[t]
            THEN Reject(Turn(t), j, t, fit)
            ELSE IF Pending(b) THEN Throw(Turn(t), j, fit)
            ELSE LET s == Persist(Put(Turn(t), t, asked), t)
                 IN  IF plan.route = "human" THEN s
                     ELSE Push(s, j, <<Then("publish", t)>>))
  /\ Stay


(* publishCurrentCapabilityHop: the grantor's work record of the grantee   *)
(* is marked, which wakes the grantor through the batch window.            *)
PublishHop(j, fit) ==
  /\ At(j, "publish")
  /\ LET t   == jobs[j][1].t
         hop == currentCapabilityDelegationHop(mem[t])
         ok  == /\ mem[t].ask.hop \in DOMAIN mem[t].ask.path /\ mem[hop.grantor] # NoTask
                /\ Markable(mem[hop.grantor], hop.grantee)
     IN  Do(IF ~ok THEN Throw(S, j, fit)
            ELSE Push(Put(Pop(S, j), hop.grantor,
                          markSubagentWaitingForCapability(mem[hop.grantor],
                                                           hop.grantee, Ref(t))),
                      j, <<Then("progress", hop.grantor)>>))
  /\ Stay

(* finishCapabilityRequest.                                                *)
finishCapabilityRequest(s, j, t, status, grants, fit) ==
  LET b == appendContext(resolveCapabilityRequest(s.mem[t], status, grants))
      r == Put(s, t, transition(b, "READY", ""))
  IN  IF s.mem[t].st # "BLOCKED" \/ s.mem[t].why \notin {"ask", "human"}
      THEN Throw(s, j, fit)
      ELSE IF t \in s.wake /\ hasUndeliveredAsyncWorkResults(b)
      THEN deliverAsyncWorkUpdate(r, j, t, fit)
      ELSE Persist(prepareTaskForQueue(r, j, t, fit), t)

(* resolveParentCapabilityRequest: p decides on a request it was told of.  *)
AnswerDecide(p, a, fit) ==
  /\ Answered(p, a) /\ a.type = "resolve_capability_request"
  /\ \E k \in Open(mem[p]) :
       /\ Blocking(mem[p].works[k]) /\ mem[p].works[k].seen
       /\ LET ref  == mem[p].works[k].ref
              t    == ref[1]
              j    == TurnJob(p)
              open == /\ mem[t] # NoTask /\ Ref(t) = ref /\ HasHop(mem[t])
                      /\ currentCapabilityDelegationHop(mem[t]) = [grantor |-> p, grantee |-> k]
              rest == Push(Put(Turn(p), p, clearSubagentCapabilityBlocker(mem[p], k)), j,
                           <<Then("continue", p)>>)
          IN  Do(IF ~open THEN Throw(Turn(p), j, fit)
                 ELSE IF a.ok /\ validateDelegation(mem[p].grants, mem[t].ask.reqs)
                 THEN Push(Persist(Put(rest, k, addCapabilityGrants(mem[k],
                                              delegate(p, mem[t].ask.reqs))), k),
                           j, <<Then("advance", t)>>)
                 ELSE finishCapabilityRequest(rest, j, t, "denied", <<>>, fit))
  /\ Stay

(* The granted hop is passed; the next one is published, or the request is *)
(* finished.                                                               *)
AdvanceHop(j, fit) ==
  /\ At(j, "advance")
  /\ LET t == jobs[j][1].t
         b == advanceCapabilityDelegation(mem[t])
         s == Put(Pop(S, j), t, b)
     IN  Do(IF ~HasHop(mem[t]) THEN Throw(S, j, fit)
            ELSE IF HasHop(b) THEN Push(Persist(s, t), j, <<Then("publish", t)>>)
            ELSE finishCapabilityRequest(s, j, t, "granted", <<>>, fit))
  /\ Stay

(* continueParentAfterCapabilityResolution.                                *)
ContinueParent(j, fit) ==
  /\ At(j, "continue")
  /\ LET p == jobs[j][1].t
         b == mem[p]
         s == Pop(S, j)
     IN  Do(IF b.st # "RUNNING" THEN s
            ELSE IF hasActiveCapabilityBlockers(b)
            THEN Push(Put(s, p, requeueActiveCapabilityBlockers(b)), j,
                      <<Then("settle", p), Then("progress", p)>>)
            ELSE IF activeAsyncWorkPendingIds(b) # {}
            THEN Push(s, j, <<Then("settle", p)>>)
            ELSE Requeue(s, j, p, b, fit))
  /\ Stay

-----------------------------------------------------------------------------
(* The scheduling loop: scheduleReadyTasks and scheduleContextCompactions. *)

(* It goes round again when an operation has ended.                        *)
LoopFree == Event /\ phase = "up" /\ jobs[<<"loop">>] = <<>>

(* advanceReadyGraphTask has something to do for t without the model.      *)
GraphDriven(t) ==
  /\ Coordination = "ai_graph" /\ mem[t].graph # NoGraph
  /\ agentWorkGraphMode(mem[t].graph) = "waiting"
  /\ \/ readyAgentWorkNodes(mem[t].graph) # {}
     \/ activeAsyncWorkPendingIds(mem[t]) = {}
     \/ ~hasDeliveredCapabilityBlockerAwaitingDecision(mem[t])

OutOfTries(t) ==
  /\ LoopFree /\ t \in queue /\ mem[t].tries >= MaxTries[t]
  /\ Do(terminateTask(S, <<"loop">>, t, "failed")) /\ Stay

(* The task is admitted and its request goes out.                          *)
Admit(t) ==
  /\ LoopFree /\ t \in queue /\ mem[t].tries < MaxTries[t] /\ ~GraphDriven(t)
  /\ jobs[ModelJob(t)] = <<>>
  /\ Do(Push(Persist(Put([S EXCEPT !.queue = @ \ {t}], t,
               [transition(mem[t], "RUNNING", "") EXCEPT !.tries = @ + 1]), t),
             ModelJob(t), <<Then("model", t)>>))
  /\ Stay

(* The admission controller refuses for good (handleAdmissionDenied).      *)
AdmissionRefused(t) ==
  /\ "refuse" \in MayFail
  /\ LoopFree /\ t \in queue \cup packing
  /\ t \in queue => mem[t].tries < MaxTries[t] /\ ~GraphDriven(t)
  /\ Do(terminateTask(S, <<"loop">>, t, "failed")) /\ Stay

StartCompaction(t) ==
  /\ LoopFree /\ t \in packing /\ jobs[ModelJob(t)] = <<>>
  /\ Do(Push(Persist(Put([S EXCEPT !.packing = @ \ {t}], t,
                         transition(mem[t], "RUNNING", "")), t),
             ModelJob(t), <<Then("compact", t)>>))
  /\ Stay

(* executeContextCompaction after the compactor answered or failed.        *)
EndCompaction(t, fit) ==
  LET j == TurnJob(t)
      s == Turn(t)
  IN  /\ Event /\ At(ModelJob(t), "compact") /\ jobs[j] = <<>>
      /\ \E ok \in {TRUE} \cup (IF "compact" \in MayFail THEN {FALSE} ELSE {}) :
           Do(IF mem[t].st = "TERMINATED" THEN s
              ELSE IF ok THEN Requeue(s, j, t, [mem[t] EXCEPT !.packed = TRUE], fit)
              ELSE terminateTask(s, j, t, "failed"))
      /\ Stay

(* advanceReadyGraphTask: delegate the ready nodes, activate a self node,  *)
(* wait for what is pending, or hand the graph back to planning.           *)
AdvanceGraph(t, fit) ==
  LET g     == mem[t].graph
      ready == readyAgentWorkNodes(g)
      gone  == [S EXCEPT !.queue = @ \ {t}]
      away  == Put(gone, t, transition(mem[t], "RUNNING", ""))
      kids  == {a \in ready : g.nodes[a].who # "self"}
      loop  == <<"loop">>
      Again(g2) == Persist(prepareTaskForQueue(Put(gone, t, [mem[t] EXCEPT !.graph = g2]),
                                               loop, t, fit), t)
  IN  /\ LoopFree /\ t \in queue /\ mem[t].tries < MaxTries[t] /\ GraphDriven(t)
      /\ \/ /\ kids # {}
            /\ Do(Push(Persist(away, t), loop, <<Frame("dispatch", t, SetToSeq(kids))>>))
         \/ /\ kids = {}
            /\ \E a \in ready : Do(Again(activateSelfWorkGraphNode(g, a)))
         \/ /\ ready = {} /\ activeAsyncWorkPendingIds(mem[t]) # {}
            /\ Do(Push(away, loop, <<Then("settle", t)>>))
         \/ /\ ready = {} /\ activeAsyncWorkPendingIds(mem[t]) = {}
            /\ Do(Again(enterWorkGraphPlan(g)))
      /\ Stay

(* The capabilities that the plan asks for the child of each node.          *)
toGraphChildRequest(g, nodes) == [i \in DOMAIN nodes |-> g.nodes[nodes[i]].asks]

(* The delegation of graph nodes; a refusal fails the nodes.               *)
DispatchNodes(fit) ==
  LET loop == <<"loop">>
      t     == jobs[loop][1].t
      nodes == jobs[loop][1].x
      asks  == toGraphChildRequest(mem[t].graph, nodes)
      kids  == NewIds(S, t, Len(nodes))
      no    == WorkRefused(S, t, <<>>, kids, asks)
      s     == Pop(S, loop)
  IN  /\ At(loop, "dispatch")
      /\ no \/ Len(kids) = Len(nodes)
      /\ Do(IF mem[t].st # "RUNNING" THEN Push(s, loop, <<Frame("failnodes", t, nodes)>>)
            ELSE IF no THEN Reject(Push(s, loop, <<Frame("failnodes", t, nodes)>>), loop, t, fit)
            ELSE startAsyncWork(Push(s, loop, <<Frame("try", t, nodes)>>),
                                loop, t, <<>>, kids, asks, nodes))
      /\ Stay

FailNodes(fit) ==
  LET loop == <<"loop">>
      t == jobs[loop][1].t
      nodes == jobs[loop][1].x
      b == [mem[t] EXCEPT !.graph = failWorkGraphNodes(@, ToSet(nodes))]
      s == Put(Pop(S, loop), t,
               IF b.st = "RUNNING" THEN transition(b, "READY", "graph_replan") ELSE b)
  IN  /\ At(loop, "failnodes")
      /\ Do(Persist(IF s.mem[t].st = "READY" THEN prepareTaskForQueue(s, loop, t, fit) ELSE s, t))
      /\ Stay

-----------------------------------------------------------------------------
(* The host.  Its calls are events too.                                    *)

Quiet == phase = "up" /\ AllWait

Submit(t, fit) ==
  /\ Quiet /\ Parent[t] = Orphan /\ mem[t] = NoTask
  /\ availableLiveSlots(pool) > 0
  /\ Do(Persist(prepareTaskForQueue(
          Put([S EXCEPT !.pool = registerRoot(@, t)], t,
              createAgent(issueRootGrants(RootGrants[t]))), <<"host">>, t, fit), t))
  /\ Stay

Cancel(t) ==
  /\ Quiet /\ cancels < MaxCancels /\ Live(mem[t])
  /\ cancels' = cancels + 1
  /\ Do(terminateTask(S, <<"host">>, t, "cancelled"))
  /\ UNCHANGED <<phase, approved, crashes>>

(* wake: an external result for a blocked task.                            *)
WakeTask(t, fit) ==
  /\ Quiet /\ cancels < MaxCancels /\ mem[t] # NoTask /\ mem[t].st = "BLOCKED"
  /\ cancels' = cancels + 1
  /\ Do(Requeue(S, <<"host">>, t, appendContext(mem[t]), fit))
  /\ UNCHANGED <<phase, approved, crashes>>

(* resolveHumanCapabilityRequest.                                          *)
HumanDecides(t, ok, fit) ==
  /\ Quiet /\ Live(mem[t]) /\ Pending(mem[t]) /\ mem[t].ask.route = "human"
  /\ approved' = [approved EXCEPT ![t] = IF ok THEN @ + 1 ELSE @]
  /\ Do(finishCapabilityRequest(S, <<"host">>, t, IF ok THEN "granted" ELSE "denied",
          IF ok THEN grantByHuman(mem[t].ask.reqs) ELSE <<>>, fit))
  /\ UNCHANGED <<phase, crashes, cancels>>

-----------------------------------------------------------------------------
(* Crash and restoreMany.                                                  *)

Crash ==
  /\ crashes < MaxCrashes /\ phase # "down"
  /\ crashes' = crashes + 1 /\ phase' = "down"
  /\ mem' = Nothing /\ queue' = {} /\ packing' = {} /\ timers' = {} /\ wake' = {}
  /\ pool' = EmptyPool /\ jobs' = Idle
  /\ UNCHANGED <<disk, ran, approved, cancels>>

Stored == {t \in Tasks : disk[t] # NoTask}

(* What restoreMany demands before it registers anything.                  *)
RestoreAccepted ==
  /\ \A t \in Stored : /\ Restorable(disk[t])
                       /\ \A i \in DOMAIN disk[t].grants : disk[t].grants[i].cap \in Ceiling[t]
  /\ RestoreFits({t \in Stored : Live(disk[t])})

(* The first phase registers everything; the others follow as frames, the  *)
(* tasks in the order of their depth.                                      *)
Restore ==
  LET known    == Ordered(Stored)
      each(op) == [i \in DOMAIN known |-> Then(op, known[i])]
  IN  /\ phase = "down" /\ RestoreAccepted
      /\ phase' = "boot"
      /\ Do([S EXCEPT !.mem = disk,
                      !.pool = registerRestored(Stored, {t \in Stored : Live(disk[t])}),
                      !.jobs[<<"host">>] = each("orphan")
                          \o <<Then("reconcile", "")>> \o each("rerun")
                          \o each("retool") \o each("resume") \o <<Then("booted", "")>>])
      /\ UNCHANGED <<approved, crashes, cancels>>

Boot == <<"host">>
Booting(op) == phase = "boot" /\ At(Boot, op)

(* A live task whose parent is terminated or missing is cancelled.         *)
RestoreOrphan ==
  /\ Booting("orphan")
  /\ LET t == jobs[Boot][1].t
         p == Parent[t]
     IN  Do(IF p # Orphan /\ Live(mem[t]) /\ ~Live(mem[p])
            THEN terminateTask(Pop(S, Boot), Boot, t, "cancelled") ELSE Pop(S, Boot))
  /\ Stay

(* reconcileRestoredSubagentResult for every terminated child.             *)
Reconcile ==
  /\ Booting("reconcile")
  /\ Do([Pop(S, Boot) EXCEPT !.mem = [p \in Tasks |->
       IF ~Live(mem[p]) THEN mem[p]
       ELSE LET ended == {k \in Tasks : /\ Parent[k] = p /\ mem[k].st = "TERMINATED"
                                        /\ Completable(mem[p], k)}
                kind  == [k \in ended |-> mem[k].why]
            IN  [completeSubagentWorks(mem[p], kind) EXCEPT
                   !.graph = completeDelegatedWorkGraphNodes(@, kind)]]])
  /\ Stay

(* A request of the crashed process is void: RUNNING becomes READY.        *)
RestoreRunning ==
  /\ Booting("rerun")
  /\ LET t == jobs[Boot][1].t
     IN  Do(IF mem[t].st = "RUNNING"
            THEN Persist(Put(Pop(S, Boot), t, transition(mem[t], "READY", "")), t)
            ELSE Pop(S, Boot))
  /\ Stay

(* restorePendingToolWork: unfinished calls are authorised and launched    *)
(* again, or fail.                                                         *)
RestoreTools ==
  /\ Booting("retool")
  /\ LET t       == jobs[Boot][1].t
         b       == mem[t]
         pending == IF Live(b) THEN Calls \cap activeAsyncWorkPendingIds(b) ELSE {}
         barred  == {c \in pending : Unauthorized(b, c)}
         s       == IF barred = {} THEN Pop(S, Boot)
                    ELSE Put(Pop(S, Boot), t, completeAsyncWorks(b, [c \in barred |-> "failed"]))
         frames  == (IF barred = {} THEN <<>> ELSE <<Then("progress", t)>>)
                    \o (IF pending = barred THEN <<>>
                        ELSE <<Frame("launch", t, SetToSeq(pending \ barred))>>)
     IN  Do(Push(s, Boot, frames))
  /\ Stay

(* restoreAsyncWorkScheduling and the ready queue.                         *)
Resume(fit) ==
  /\ Booting("resume")
  /\ LET t  == jobs[Boot][1].t
         b  == mem[t]
         s  == Pop(S, Boot)
         s1 == IF ~Live(b) \/ ~hasUndeliveredAsyncWorkResults(b) THEN s
               ELSE IF ~isActiveAsyncWorkComplete(b) /\ b.due
               THEN [s EXCEPT !.timers = @ \cup {t}]
               ELSE IF b.st = "RUNNING" THEN [s EXCEPT !.wake = @ \cup {t}]
               ELSE deliverAsyncWorkUpdate([s EXCEPT !.wake = @ \cup {t}], Boot, t, fit)
     IN  Do(IF s1.mem[t].st = "READY" /\ t \notin s1.queue \cup s1.packing
            THEN prepareTaskForQueue(s1, Boot, t, fit) ELSE s1)
  /\ Stay

Booted ==
  /\ Booting("booted") /\ phase' = "up"
  /\ Do(Pop(S, Boot))
  /\ UNCHANGED <<approved, crashes, cancels>>

-----------------------------------------------------------------------------
(* Everything the process does by itself once it is up or booting.         *)
JobStep(j) ==
  \/ CancelChildren(j)
  \/ NotifyParent(j)
  \/ AsyncWorkProgress(j)
  \/ SendChild(j)
  \/ LaunchCalls(j)
  \/ \E fit \in Fits : \/ DeliverWhenIdle(j, fit)
                       \/ Settle(j, fit)
                       \/ SendChildFails(j, fit)
                       \/ EnqueueChild(j, fit)
                       \/ PublishHop(j, fit)
                       \/ AdvanceHop(j, fit)
                       \/ ContinueParent(j, fit)

CallStep(c) == StartCall(c) \/ EndCall(c)

AnswerStep(t) ==
  \/ LateAnswer(t)
  \/ \E fit \in Fits : \/ RequestFails(t, fit)
                       \/ AnswerRefused(t, fit)
                       \/ EndCompaction(t, fit)
                       \/ \E a \in Answers[t] : \/ AnswerFinal(t, a, fit)
                                                \/ AnswerWork(t, a, fit)
                                                \/ AnswerWait(t, a, fit)
                                                \/ AnswerGraph(t, a, fit)
                                                \/ AnswerAsk(t, a, fit)
                                                \/ AnswerDecide(t, a, fit)

LoopStep ==
  \/ \E t \in Tasks : \/ OutOfTries(t)
                      \/ Admit(t)
                      \/ AdmissionRefused(t)
                      \/ StartCompaction(t)
                      \/ \E fit \in Fits : AdvanceGraph(t, fit)
  \/ \E fit \in Fits : DispatchNodes(fit) \/ FailNodes(fit)

BootStep ==
  \/ Restore
  \/ RestoreOrphan
  \/ Reconcile
  \/ RestoreRunning
  \/ RestoreTools
  \/ \E fit \in Fits : Resume(fit)
  \/ Booted

Human == \E t \in Tasks, ok \in BOOLEAN, fit \in Fits : HumanDecides(t, ok, fit)

Host ==
  \/ \E t \in Tasks, fit \in Fits : Submit(t, fit) \/ WakeTask(t, fit)
  \/ \E t \in Tasks : Cancel(t)

(* What goes on without the host.                                          *)
Process ==
  \/ \E j \in Jobs : JobStep(j)
  \/ \E c \in Calls : CallStep(c)
  \/ \E t \in Tasks : AnswerStep(t)
  \/ \E t \in Tasks, fit \in Fits : TimerFires(t, fit)
  \/ LoopStep
  \/ BootStep
  \/ Human

Next == Process \/ Host \/ Crash

Spec == Init /\ [][Next]_vars

(* Promises go on, requests and tools are answered, timers fire, the loop  *)
(* is run while there is work, and a human decides what is asked.  As the  *)
(* attempts of a task are bounded, no step can be put off for ever by      *)
(* others, and one condition for all of them is enough.                    *)
FairSpec == Spec /\ WF_vars(Process)

=============================================================================

----------------------------- MODULE AgentScheduler -----------------------------
(***************************************************************************)
(* The scheduler of long-lived agents (src/agent-scheduler).               *)
(*                                                                         *)
(* Each agent has two maps, the operations in flight (pending) and the     *)
(* results not yet delivered (completed), a buffer of wake-up events, and  *)
(* at most one sealed batch, which is queued or being run.  Every public   *)
(* method is synchronous and runs to its end without an await, so each is  *)
(* one action; the interleaving is that of the callers: the pump that      *)
(* takes runs, the round that registers operations and finishes a run, the *)
(* executor that completes operations, the host that notifies, suspends,   *)
(* resumes and cancels, the timers, and the death of the process.          *)
(*                                                                         *)
(* Abstractions.  UUIDs are counters.  An instant (a deadline, the end of  *)
(* a batch window, a resumption time) is known only by whether it still    *)
(* lies ahead: time is an action that makes it pass.  The text of results, *)
(* events and reasons is left out, and so are the two fields of a batch    *)
(* that only the prompt reads (pendingOperations, continuation).           *)
(***************************************************************************)
EXTENDS Integers, Sequences, SequencesExt, FiniteSets, AgentControlBlock

CONSTANTS
  Agents,                 \* agent ids
  Keys,                   \* operation ids supplied by the executor
  Events,                 \* ids of wake-up events
  maxConcurrentRuns,      \* AgentSchedulerOptions.maxConcurrentRuns
  maxBufferedOperations,  \* AgentSchedulerOptions.maxBufferedOperations
  maxBufferedEvents,      \* AgentSchedulerOptions.maxBufferedEvents
  recentEventLimit,       \* AgentSchedulerOptions.recentEventLimit
  MaxRuns,                \* bound: run credentials handed out in a behaviour
  MaxRestarts,            \* bound: times the process is started again
  MaxSuspensions,         \* bound: calls of suspend in a behaviour
  SavesFail               \* whether the store may refuse to save

ASSUME SchedulerAssumption ==
  /\ maxConcurrentRuns \in Nat \ {0}
  /\ maxBufferedOperations \in Nat \ {0}
  /\ maxBufferedEvents \in Nat \ {0}
  /\ recentEventLimit \in Nat \ {0}
  /\ MaxRuns \in Nat /\ MaxRestarts \in Nat /\ MaxSuspensions \in Nat
  /\ SavesFail \in BOOLEAN

VARIABLES
  rec,         \* #agents: the AgentRecord of each registered agent
  queue,       \* #queue: agents whose sealed batch waits for a run
  running,     \* #running: credentials handed out and not given back
  waiting,     \* #readyWaiters: the pump sleeps in waitForReady
  failure,     \* #failure: a save failed, the scheduler delivers nothing more
  closed,      \* #closed
  disk,        \* the last AgentSchedulerCheckpoint saved for each agent
  expired,     \* operations whose deadline has passed
  nextRun,     \* the next run id (randomUUID)
  nextBatch,   \* the next batch id (randomUUID)
  restarts,    \* counts restarts, for the bound
  suspensions, \* counts suspensions, for the bound
  hist         \* history of what was durably accepted and consumed

procVars == <<rec, queue, running, waiting, failure, closed>>
idVars   == <<nextRun, nextBatch, restarts, suspensions>>
vars     == <<procVars, disk, expired, idVars, hist>>

\* The fields of the history: operations registered, operations whose result a
\* finished run consumed, and events accepted that no finished run consumed yet.
issued == hist.issued
acked  == hist.acked
owed   == hist.owed

----------------------------------------------------------------------------
(* Data *)

Operations == [agent : Agents, key : Keys, origin : Nat]
Outcomes   == {"returned", "timed_out", "cancelled"}
Results    == [operation : Operations, outcome : Outcomes]
Batches    == [id : Nat, results : SUBSET Results, events : SUBSET Events]

\* null, or an instant that lies ahead or has passed
Instants    == {"null", "ahead", "passed"}
\* AgentSuspension: none, one without resumeAt, or one with it
Suspensions == {"none", "manual", "ahead", "passed"}

NoBatch      == [id |-> -1, results |-> {}, events |-> {}]
NoRun        == -1
Unregistered == [state |-> "Unregistered"]
NotSaved     == [state |-> "NotSaved"]

\* What a timer can be armed for, beside the deadline of an operation.
ResumeInstant == [instant |-> "resumeAt"]
WindowInstant == [instant |-> "batchDueAt"]

\* AgentSchedulerCheckpoint, without the field that says what was running: a
\* restored record keeps the batch and drops the run.
Checkpoint(r) ==
  [state |-> r.state, pending |-> r.pending, completed |-> r.completed,
   events |-> r.events, recentEvents |-> r.recentEvents, batch |-> r.batch,
   continuation |-> r.continuation, batchDueAt |-> r.batchDueAt,
   suspension |-> r.suspension]

Registered == {a \in Agents : rec[a] # Unregistered}
HasBatch(r) == r.batch # NoBatch
HasRun(r)   == r.run # NoRun
Ops(results) == {x.operation : x \in results}
KeysOf(ops)  == {o.key : o \in ops}

----------------------------------------------------------------------------
(* The private methods, as functions on a working view of one agent:       *)
(* r its record, q the ready queue, nb the next batch id and signal, which *)
(* says that #signalReady was called.                                      *)

View(r, q) == [r |-> r, q |-> q, nb |-> nextBatch, signal |-> FALSE]

Goto(r, next) ==
  IF r.state = next THEN r ELSE [r EXCEPT !.state = transition(r.state, next)]

\* #recordResult, for a set of operations that end the same way
RecordResults(r, ops, outcome) ==
  [r EXCEPT !.pending = @ \ ops,
            !.completed = @ \cup [operation : ops, outcome : {outcome}],
            !.batchDueAt = IF ops # {} /\ @ = "null" THEN "ahead" ELSE @]

\* Mutant of Seal: the events stay in the collecting map too.
SealKeepingEvents(a, v) ==
  LET batch == [id |-> v.nb, results |-> v.r.completed, events |-> v.r.events] IN
  [v EXCEPT !.r = [Goto(v.r, "READY") EXCEPT !.completed = {}, !.batch = batch,
                     !.batchDueAt = "null", !.continuation = FALSE],
            !.q = Append(@, a),
            !.nb = @ + 1]

\* #seal
Seal(a, v) ==
  LET batch == [id |-> v.nb, results |-> v.r.completed, events |-> v.r.events] IN
  [v EXCEPT !.r = [Goto(v.r, "READY") EXCEPT !.completed = {}, !.events = {},
                     !.batch = batch, !.batchDueAt = "null", !.continuation = FALSE],
            !.q = Append(@, a),
            !.nb = @ + 1]


\* #armTimer: the instants over which the timeout takes its minimum
ArmTimer(r) ==
  [r EXCEPT !.timer =
     r.pending
       \cup (IF r.suspension \in {"ahead", "passed"} THEN {ResumeInstant} ELSE {})
       \cup (IF r.suspension = "none" /\ ~HasBatch(r) /\ r.batchDueAt # "null"
               THEN {WindowInstant} ELSE {})]

\* Mutant of Parked: a running agent is blocked under its round.
ParkedWhileRunning(r) ==
  Goto(IF r.state = "SLEEPING" THEN Goto(r, "READY") ELSE r, "BLOCKED")

\* The state a suspended agent that holds no run is put in.
Parked(r) ==
  IF HasRun(r) THEN r
  ELSE Goto(IF r.state = "SLEEPING" THEN Goto(r, "READY") ELSE r, "BLOCKED")

ResultsReady(r) ==
  r.completed # {} /\ (r.pending = {} \/ r.batchDueAt = "passed")

\* Mutant of ReconcileActive: an event alone does not make a batch.
ReconcileActiveIgnoringEvents(a, v) ==
  LET ready  == IF HasBatch(v.r) /\ ~HasRun(v.r)
                  THEN [v EXCEPT !.r = Goto(v.r, "READY")] ELSE v
      idle   == Goto(v.r, IF v.r.pending # {} THEN "BLOCKED" ELSE "SLEEPING")
      chosen == IF HasBatch(v.r) THEN ready
                ELSE IF v.r.continuation \/ ResultsReady(v.r) THEN Seal(a, v)
                ELSE [v EXCEPT !.r = idle]
  IN [chosen EXCEPT !.r = ArmTimer(chosen.r), !.signal = TRUE]

\* #reconcile of an agent that is not suspended
ReconcileActive(a, v) ==
  LET ready  == IF HasBatch(v.r) /\ ~HasRun(v.r)
                  THEN [v EXCEPT !.r = Goto(v.r, "READY")] ELSE v
      idle   == Goto(v.r, IF v.r.pending # {} THEN "BLOCKED" ELSE "SLEEPING")
      chosen == IF HasBatch(v.r) THEN ready
                ELSE IF v.r.continuation \/ v.r.events # {} \/ ResultsReady(v.r)
                  THEN Seal(a, v)
                  ELSE [v EXCEPT !.r = idle]
  IN [chosen EXCEPT !.r = ArmTimer(chosen.r), !.signal = TRUE]

\* resume, up to its call of #reconcile
Resumed(a, v) ==
  LET r == [v.r EXCEPT !.suspension = "none"]
      s == IF r.state = "BLOCKED" THEN Goto(r, "READY") ELSE r
  IN [v EXCEPT !.r = IF HasBatch(s) THEN s ELSE [s EXCEPT !.continuation = TRUE],
               !.q = IF HasBatch(s) /\ ~HasRun(s) THEN Append(@, a) ELSE @]

\* #reconcile
Reconcile(a, v) ==
  CASE v.r.suspension = "none"   -> ReconcileActive(a, v)
    [] v.r.suspension = "passed" -> ReconcileActive(a, Resumed(a, v))
    [] OTHER -> [v EXCEPT !.r = ArmTimer(Parked(v.r))]

----------------------------------------------------------------------------
(* Saving.  #persist is called at the end of every public method; a failed *)
(* save is thrown at the caller, wakes the pump and stops the scheduler.   *)
(* #persist reads the record through inspect, which throws after close and *)
(* after a failure, so it cannot write then either: register and           *)
(* completeOperation, which do not check first, are stopped there.         *)

Available == ~closed /\ ~failure

\* #hasCapacity
HasCapacity(n) == n < maxConcurrentRuns

\* #signalReady
Woken(v, n) == v.signal /\ v.q # <<>> /\ HasCapacity(n)

\* #persist reads the record it saves through inspect.
Inspectable == Available

\* A method that leaves the view v of agent a, with n credentials out, and
\* saves it; h is the history if the save succeeds.  What memory holds after a
\* failed save is not modelled: every method that would show it throws.
Persist(a, v, n, h) ==
  \/ /\ Inspectable
     /\ \E w \in {v} :
          /\ rec' = [rec EXCEPT ![a] = w.r]
          /\ queue' = w.q
          /\ nextBatch' = w.nb
          /\ disk' = [disk EXCEPT ![a] = Checkpoint(w.r)]
          /\ waiting' = (waiting /\ ~Woken(w, n))
     /\ running' = n
     /\ hist' = h
     /\ UNCHANGED failure
  \/ /\ SavesFail \/ ~Inspectable
     /\ failure' = TRUE
     /\ waiting' = FALSE
     /\ UNCHANGED <<rec, queue, running, nextBatch, disk, hist>>

----------------------------------------------------------------------------
(* Registration *)

\* #attach passes READY when the checkpoint, the suspension or the context
\* (needsRun, decided elsewhere) asks for work.
HostState(saved, needsRun) ==
  IF \/ needsRun
     \/ saved # NotSaved /\ \/ saved.batch # NoBatch
                            \/ saved.pending # {}
                            \/ saved.completed # {}
                            \/ saved.events # {}
                            \/ saved.suspension # "none"
  THEN "READY" ELSE "SLEEPING"

FreshRecord(state) ==
  [state |-> state, pending |-> {}, completed |-> {}, events |-> {},
   recentEvents |-> <<>>, batch |-> NoBatch, run |-> NoRun,
   continuation |-> (state = "READY"), batchDueAt |-> "null", timer |-> {},
   suspension |-> "none"]

\* Mutant of RestoredRecord: work accepted while the agent slept does not wake it.
RestoredAsleep(state, saved) ==
  [state |-> state, pending |-> saved.pending, completed |-> saved.completed,
   events |-> saved.events, recentEvents |-> saved.recentEvents,
   batch |-> saved.batch, run |-> NoRun, continuation |-> saved.continuation,
   batchDueAt |-> saved.batchDueAt, timer |-> {}, suspension |-> saved.suspension]

\* The record register rebuilds from a checkpoint.
RestoredRecord(state, saved) ==
  LET nothing == /\ saved.batch = NoBatch /\ saved.pending = {}
                 /\ saved.completed = {} /\ saved.events = {}
  IN [state |-> state, pending |-> saved.pending, completed |-> saved.completed,
      events |-> saved.events, recentEvents |-> saved.recentEvents,
      batch |-> saved.batch, run |-> NoRun,
      continuation |-> \/ saved.continuation
                       \/ state = "READY" /\ saved.state = "SLEEPING" /\ nothing,
      batchDueAt |-> saved.batchDueAt, timer |-> {},
      suspension |-> saved.suspension]

Register(a, needsRun) ==
  LET saved == disk[a]
      state == HostState(saved, needsRun)
      r     == IF saved = NotSaved THEN FreshRecord(state)
                                   ELSE RestoredRecord(state, saved)
      q     == IF HasBatch(r) /\ r.suspension = "none" THEN Append(queue, a) ELSE queue
  IN /\ rec[a] = Unregistered
     /\ Persist(a, Reconcile(a, View(r, q)), running, hist)
     /\ UNCHANGED <<closed, expired, nextRun, restarts, suspensions>>

Unregister(a) ==
  LET r == rec[a] IN
  /\ Available
  /\ a \in Registered
  /\ r.state = "SLEEPING"
  /\ r.pending = {} /\ r.completed = {} /\ r.events = {}
  /\ ~HasBatch(r) /\ ~HasRun(r)
  /\ rec' = [rec EXCEPT ![a] = Unregistered]
  /\ UNCHANGED <<queue, running, waiting, failure, closed, disk, expired, idVars, hist>>

----------------------------------------------------------------------------
(* The host and the pump *)

\* The oldest ids beyond the limit leave the de-duplication cache.
Remember(recent, e) ==
  LET all == Append(recent, e) IN
  IF Len(all) > recentEventLimit THEN Tail(all) ELSE all

Notify(a, e) ==
  LET r == rec[a] IN
  /\ Available
  /\ a \in Registered
  /\ e \notin ToSet(r.recentEvents) \cup r.events \cup r.batch.events
  /\ Cardinality(r.events) + Cardinality(r.batch.events) < maxBufferedEvents
  /\ Persist(a, Reconcile(a, View([r EXCEPT !.events = @ \cup {e},
                                            !.recentEvents = Remember(@, e)], queue)),
             running, [hist EXCEPT !.owed = @ \cup {<<a, e>>}])
  /\ UNCHANGED <<closed, expired, nextRun, restarts, suspensions>>

\* takeNextRun, when it hands out a credential
TakeNextRun ==
  /\ Available
  /\ HasCapacity(running)
  /\ queue # <<>>
  /\ nextRun < MaxRuns
  /\ LET a == Head(queue)
         r == [Goto(rec[a], "RUNNING") EXCEPT !.run = nextRun]
     IN /\ HasBatch(rec[a]) /\ ~HasRun(rec[a])
        /\ Persist(a, View(r, Tail(queue)), running + 1, hist)
  /\ nextRun' = nextRun + 1
  /\ UNCHANGED <<closed, expired, restarts, suspensions>>

\* takeNextRun found nothing and the pump awaits waitForReady, whose promise
\* stays open
WaitForReady ==
  /\ Available
  /\ ~waiting
  /\ queue = <<>> \/ ~HasCapacity(running)
  /\ waiting' = TRUE
  /\ UNCHANGED <<rec, queue, running, failure, closed, disk, expired, idVars, hist>>

\* Mutant of Suspended: the timer still stands for the time before.
SuspendedWithoutTimer(a, until) == Parked([rec[a] EXCEPT !.suspension = until])

\* The record suspend leaves.
Suspended(a, until) == ArmTimer(Parked([rec[a] EXCEPT !.suspension = until]))

\* Mutant of Suspend: the suspension is not saved.
SuspendUnsaved(a, until) ==
  /\ Available
  /\ a \in Registered
  /\ suspensions < MaxSuspensions
  /\ suspensions' = suspensions + 1
  /\ rec' = [rec EXCEPT ![a] = Suspended(a, until)]
  /\ queue' = RemoveFirst(queue, a)
  /\ UNCHANGED <<running, waiting, failure, closed, disk, expired, nextRun, nextBatch,
                 restarts, hist>>

Suspend(a, until) ==
  /\ Available
  /\ a \in Registered
  /\ suspensions < MaxSuspensions
  /\ suspensions' = suspensions + 1
  /\ Persist(a, View(Suspended(a, until), RemoveFirst(queue, a)), running, hist)
  /\ UNCHANGED <<closed, expired, nextRun, restarts>>

Resume(a) ==
  /\ Available
  /\ a \in Registered
  /\ rec[a].suspension # "none"
  /\ Persist(a, ReconcileActive(a, Resumed(a, View(rec[a], queue))), running, hist)
  /\ UNCHANGED <<closed, expired, nextRun, restarts, suspensions>>

CancelOperations(a) ==
  LET r == rec[a] IN
  /\ Available
  /\ a \in Registered
  /\ Persist(a, Reconcile(a, View(RecordResults(r, r.pending, "cancelled"), queue)),
             running, hist)
  /\ UNCHANGED <<closed, expired, nextRun, restarts, suspensions>>

Close ==
  /\ ~closed
  /\ closed' = TRUE
  /\ rec' = [a \in Agents |-> IF rec[a] = Unregistered THEN rec[a]
                              ELSE [rec[a] EXCEPT !.timer = {}]]
  /\ waiting' = FALSE
  /\ UNCHANGED <<queue, running, failure, disk, expired, idVars, hist>>

----------------------------------------------------------------------------
(* The holder of a run credential *)

\* #activeRecord: credential c is the one agent a runs under
ActiveRecord(a, c) ==
  /\ Available
  /\ a \in Registered
  /\ rec[a].run = c
  /\ rec[a].state = "RUNNING"

\* Mutant of Known: finished operations are forgotten at once.
KnownInFlight(r) == KeysOf(r.pending)

\* The keys in flight or finished and not yet consumed: registering one again
\* is answered with the operation it already names.
Known(r) == KeysOf(r.pending \cup Ops(r.completed \cup r.batch.results))

\* registerOperations, for a group of keys
RegisterOperations(a, c, keys) ==
  LET r        == rec[a]
      staged   == [agent : {a}, key : keys \ Known(r), origin : {c}]
      buffered == Cardinality(r.pending) + Cardinality(r.completed)
                    + Cardinality(r.batch.results)
  IN /\ ActiveRecord(a, c)
     /\ buffered + Cardinality(staged) <= maxBufferedOperations
     /\ Persist(a, View(ArmTimer([r EXCEPT !.pending = @ \cup staged]), queue), running,
                [hist EXCEPT !.issued = @ \cup staged])
     /\ UNCHANGED <<closed, expired, nextRun, restarts, suspensions>>

\* The #signalReady at the end of finishRun and returnRun.
Released(v) == [v EXCEPT !.signal = TRUE]

FinishRun(a, c, intent) ==
  LET r == rec[a]
      v == Reconcile(a, View([r EXCEPT !.run = NoRun, !.batch = NoBatch,
                                       !.continuation = (intent = "continue")], queue))
  IN /\ ActiveRecord(a, c)
     /\ Persist(a, Released(v), running - 1,
                [hist EXCEPT !.acked = @ \cup Ops(r.batch.results),
                             !.owed = @ \ {<<a, e>> : e \in r.batch.events}])
     /\ UNCHANGED <<closed, expired, nextRun, restarts, suspensions>>

\* returnRun saves twice: after giving the batch back, and in #reconcile.
Returned(a) == [Goto(rec[a], "READY") EXCEPT !.run = NoRun]

\* Mutant of Requeued: the suspension is overlooked.
RequeuedAlways(a) == Append(queue, a)

Requeued(a) == IF rec[a].suspension = "none" THEN Append(queue, a) ELSE queue

ReturnRun(a, c) ==
  LET v == Reconcile(a, View(Returned(a), Requeued(a))) IN
  /\ ActiveRecord(a, c)
  /\ Persist(a, Released(v), running - 1, hist)
  /\ UNCHANGED <<closed, expired, nextRun, restarts, suspensions>>

\* The second save of returnRun fails after the first has succeeded.
ReturnRunHalfSaved(a, c) ==
  /\ ActiveRecord(a, c)
  /\ SavesFail
  /\ disk' = [disk EXCEPT ![a] = Checkpoint(Returned(a))]
  /\ failure' = TRUE
  /\ waiting' = FALSE
  /\ UNCHANGED <<rec, queue, running, closed, expired, idVars, hist>>

----------------------------------------------------------------------------
(* The executor and time *)

\* The report names the operation in flight, not an earlier one with its key.
IsPending(r, o) == o \in r.pending

\* completeOperation.  A duplicate, a late report of an operation that ended, or
\* of an earlier operation with the same key, is answered false.
CompleteOperation(o) ==
  LET r == rec[o.agent] IN
  /\ o.agent \in Registered
  /\ IsPending(r, o)
  /\ Persist(o.agent,
             Reconcile(o.agent,
                View(RecordResults(r, {o}, IF o \in expired THEN "timed_out" ELSE "returned"),
                     queue)),
             running, hist)
  /\ UNCHANGED <<closed, expired, nextRun, restarts, suspensions>>

\* #onTimer.  The delay is clamped to 2^31-1 ms, so the timer may also fire
\* before the first of its instants has passed.
OnTimer(a) ==
  LET r   == rec[a]
      now == [RecordResults(r, r.pending \cap expired, "timed_out") EXCEPT !.timer = {}]
  IN /\ Available
     /\ a \in Registered
     /\ r.timer # {}
     /\ Persist(a, Reconcile(a, View(now, queue)), running, hist)
     /\ UNCHANGED <<closed, expired, nextRun, restarts, suspensions>>

\* Instants pass whether or not the process runs: they are absolute times, the
\* same in memory and in the checkpoint.
DeadlinePasses(o) ==
  /\ o \in issued \ expired
  /\ expired' = expired \cup {o}
  /\ UNCHANGED <<procVars, disk, idVars, hist>>

Elapsed(r, field) ==
  IF field \in DOMAIN r /\ r[field] = "ahead" THEN [r EXCEPT ![field] = "passed"] ELSE r

InstantPasses(a, field) ==
  /\ rec' = [rec EXCEPT ![a] = Elapsed(@, field)]
  /\ disk' = [disk EXCEPT ![a] = Elapsed(@, field)]
  /\ UNCHANGED <<queue, running, waiting, failure, closed, expired, idVars, hist>>

WindowPasses(a)     == InstantPasses(a, "batchDueAt")
ResumptionPasses(a) == InstantPasses(a, "suspension")

\* The process dies, or stops after close or a failure, and is started again
\* with a new scheduler over the same store.
Restart ==
  /\ restarts < MaxRestarts
  /\ restarts' = restarts + 1
  /\ rec' = [a \in Agents |-> Unregistered]
  /\ queue' = <<>> /\ running' = 0 /\ waiting' = FALSE
  /\ failure' = FALSE /\ closed' = FALSE
  /\ UNCHANGED <<disk, expired, nextRun, nextBatch, suspensions, hist>>

----------------------------------------------------------------------------

Init ==
  /\ rec = [a \in Agents |-> Unregistered]
  /\ queue = <<>> /\ running = 0 /\ waiting = FALSE
  /\ failure = FALSE /\ closed = FALSE
  /\ disk = [a \in Agents |-> NotSaved]
  /\ expired = {}
  /\ nextRun = 0 /\ nextBatch = 0 /\ restarts = 0 /\ suspensions = 0
  /\ hist = [issued |-> {}, acked |-> {}, owed |-> {}]

AgentStep(a) ==
  \/ \E needsRun \in BOOLEAN : Register(a, needsRun)
  \/ Unregister(a)
  \/ \E e \in Events : Notify(a, e)
  \/ \E until \in {"manual", "ahead"} : Suspend(a, until)
  \/ Resume(a)
  \/ CancelOperations(a)
  \/ OnTimer(a)
  \/ WindowPasses(a)
  \/ ResumptionPasses(a)

\* A caller may present any credential handed out so far, and any operation.
RunStep(a, c) ==
  \/ \E keys \in SUBSET Keys : RegisterOperations(a, c, keys)
  \/ \E intent \in {"continue", "idle"} : FinishRun(a, c, intent)
  \/ ReturnRun(a, c)
  \/ ReturnRunHalfSaved(a, c)

Next ==
  \/ \E a \in Agents : AgentStep(a)
  \/ \E a \in Agents, c \in 0 .. nextRun - 1 : RunStep(a, c)
  \/ \E o \in issued : CompleteOperation(o)
  \/ \E o \in issued : DeadlinePasses(o)
  \/ TakeNextRun
  \/ WaitForReady
  \/ Close
  \/ Restart

Spec == Init /\ [][Next]_vars
================================================================================

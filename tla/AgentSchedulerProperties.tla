------------------------ MODULE AgentSchedulerProperties ------------------------
(***************************************************************************)
(* What the scheduler of AgentScheduler promises its callers.              *)
(***************************************************************************)
EXTENDS AgentScheduler

RecordType ==
  [state : AgentState, pending : SUBSET Operations, completed : SUBSET Results,
   events : SUBSET Events, recentEvents : Seq(Events), batch : Batches \cup {NoBatch},
   run : Nat \cup {NoRun}, continuation : BOOLEAN, batchDueAt : Instants,
   timer : SUBSET (Operations \cup {ResumeInstant, WindowInstant}),
   suspension : Suspensions]

CheckpointType ==
  [state : AgentState, pending : SUBSET Operations, completed : SUBSET Results,
   events : SUBSET Events, recentEvents : Seq(Events), batch : Batches \cup {NoBatch},
   continuation : BOOLEAN, batchDueAt : Instants, suspension : Suspensions]

\* Types.  A record's state is one of the four of the control block: in
\* particular #reconcile, suspend, resume and takeNextRun never ask the block
\* for an edge outside its table, so InvalidAgentTransitionError is not thrown.
TypeOK ==
  /\ rec \in [Agents -> RecordType \cup {Unregistered}]
  /\ disk \in [Agents -> CheckpointType \cup {NotSaved}]
  /\ queue \in Seq(Agents)
  /\ running \in Int
  /\ waiting \in BOOLEAN /\ failure \in BOOLEAN /\ closed \in BOOLEAN
  /\ expired \subseteq Operations
  /\ nextRun \in Nat /\ nextBatch \in Nat /\ restarts \in Nat /\ suspensions \in Nat
  /\ hist \in [issued : SUBSET Operations, acked : SUBSET Operations,
               owed : SUBSET (Agents \X Events)]

----------------------------------------------------------------------------
(* The state of an agent and the work it holds *)

InQueue(a) == a \in ToSet(queue)

\* What agent-scheduler/README.md says the four states mean.
StateOf(r) ==
  IF HasRun(r) THEN "RUNNING"
  ELSE IF r.suspension # "none" THEN "BLOCKED"
  ELSE IF HasBatch(r) THEN "READY"
  ELSE IF r.pending # {} THEN "BLOCKED" ELSE "SLEEPING"

\* The state shown to the rest of the program is always the one the maps, the
\* batch, the run and the suspension of the record imply, and an agent that
\* sleeps holds no result, event or wish to continue that nobody will look at.
StateMatchesWork ==
  Available => \A a \in Registered :
    LET r == rec[a] IN
    /\ r.state = StateOf(r)
    /\ r.state = "SLEEPING" => r.completed = {} /\ r.events = {} /\ ~r.continuation

\* The ready queue holds exactly the agents whose sealed batch can be taken,
\* each once: takeNextRun never throws "ready queue and batch disagree", and no
\* sealed batch is stranded outside the queue.
QueueIsExact ==
  Available =>
    /\ \A i, j \in DOMAIN queue : queue[i] = queue[j] => i = j
    /\ \A a \in Agents :
         InQueue(a) <=> a \in Registered /\ HasBatch(rec[a]) /\ ~HasRun(rec[a])
                          /\ rec[a].suspension = "none"

\* The timer of an agent always covers every instant at which something has to
\* happen by itself: a deadline, the end of the batch window when no batch is
\* held, the end of a timed suspension.
TimerCoversInstants ==
  Available => \A a \in Registered : rec[a].timer = ArmTimer(rec[a]).timer

----------------------------------------------------------------------------
(* Delivery, judged on what is on disk *)

Saved == {a \in Agents : disk[a] # NotSaved}

\* A wake-up event that notify accepted is buffered or in the batch, and in one
\* of the two, until a run that saw it finishes, also after a crash; and no
\* event is delivered again after that unless it is notified again.
EventsConserved ==
  /\ owed = UNION {{a} \X (disk[a].events \cup disk[a].batch.events) : a \in Saved}
  /\ \A a \in Saved : disk[a].events \cap disk[a].batch.events = {}

\* While the scheduler answers calls, what it shows is what is on disk: no
\* method leaves a change in memory that a crash would silently undo.
DiskInSync ==
  Available => \A a \in Registered : disk[a] = Checkpoint(rec[a])

\* The scheduler implements OperationDelivery, read off the checkpoints: through
\* crashes, failed saves, suspensions, timeouts and stale callbacks an operation
\* only moves forward, results are sealed and consumed batch by batch, and a key
\* never names two live operations of an agent.
Delivery == INSTANCE OperationDelivery WITH
  Runs     <- 0 .. MaxRuns - 1,
  inflight <- UNION {disk[a].pending : a \in Saved},
  buffered <- UNION {Ops(disk[a].completed) : a \in Saved},
  sealed   <- UNION {Ops(disk[a].batch.results) : a \in Saved},
  consumed <- acked

ImplementsDelivery == Delivery!Spec

----------------------------------------------------------------------------
(* Progress *)

\* Fairness.  Timers fire; the pump takes a run when one is ready and it does
\* not sleep in waitForReady, so that a lost wake-up shows as a batch that is
\* never taken; a holder of a credential eventually finishes with it (the
\* round's finally and catch clauses call finishRun or returnRun on every
\* path), and does not return it for ever; time passes.  Nothing is assumed of
\* the executor.
Fairness ==
  /\ \A a \in Agents : /\ WF_vars(OnTimer(a))
                       /\ WF_vars(WindowPasses(a))
                       /\ WF_vars(ResumptionPasses(a))
                       /\ SF_vars(\E c \in 0 .. nextRun - 1 :
                                    \E intent \in {"continue", "idle"} : FinishRun(a, c, intent))
  /\ WF_vars(\E o \in issued : DeadlinePasses(o))
  /\ WF_vars(~waiting /\ TakeNextRun)

FairSpec == Spec /\ Fairness

\* Situations in which the scheduler owes an agent nothing: the host holds it
\* suspended, the scheduler was stopped, or the bound on runs is reached.
Excused(a) == \/ rec[a] # Unregistered /\ rec[a].suspension = "manual"
              \/ ~Available
              \/ nextRun = MaxRuns


\* Every accepted event eventually reaches a finished run, also when it arrives
\* while a batch is being run or another agent holds the only slot.
EventsDelivered ==
  \A a \in Agents, e \in Events :
    (<<a, e>> \in owed) ~> (<<a, e>> \notin owed \/ Excused(a))
================================================================================

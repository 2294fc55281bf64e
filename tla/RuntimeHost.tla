------------------------------ MODULE RuntimeHost ------------------------------
(***************************************************************************)
(* The host of the agent runtime (src/agent-runtime/internal/runtime.ts,   *)
(* limits.ts, work-budget.ts) around conversations and their memory: it    *)
(* gives the agents their mail, runs their rounds one job at a time,       *)
(* carries out what they say, retries or stops them, and lets the user     *)
(* write, pause, resume, cancel and dismiss, while the process may die.    *)
(*                                                                         *)
(* One step is one durable write of a round, so that a death can fall      *)
(* between any two; other actors act only where the code awaits.           *)
(*                                                                         *)
(* Abstractions.  Agents are created with startMode on_message, and work   *)
(* only on batches of messages.  Of the scheduler: whether the agent has   *)
(* nothing to do, a batch to run or a run, and how it is suspended         *)
(* (AgentScheduler is the detailed model); of a context: its conversation  *)
(* and whether it needs another round, and a round is applied and finished *)
(* in one step (AgentRound).  A reply is saved, judged and carried out;    *)
(* tools are left to ToolExecutor.                                         *)
(***************************************************************************)
EXTENDS ConversationMemory

CONSTANT Worlds   \* the options of a runtime, with the bounds on its environment

\* runs: limits.maxConcurrentRequests; maxBatch: messages that fit into a batch;
\* auto: policy.maxAutomaticMessages; rounds, retries, repeats: limits.maxRounds,
\* maxRetries, repeatedActionLimit; recentMessages, compactAfter, fits,
\* maxSummaryAttempts: policy of the memory
\* words: what a model may reply; posts: what the user may write
\* messages, crashes, stops, resumes: how often the environment acts
ASSUME WorldAssumption ==
  \A w \in Worlds :
    /\ {w.runs, w.maxBatch, w.auto, w.rounds, w.repeats, w.recentMessages, w.compactAfter,
        w.fits, w.maxSummaryAttempts} \subseteq Nat \ {0}
    /\ {w.retries, w.messages, w.crashes, w.stops, w.resumes} \subseteq Nat
    /\ \A m \in w.posts : m.conv \in Conversations /\ m.to \subseteq Agents
    /\ \A r \in w.words :
         /\ r.kind \in {"send", "silent", "go", "bad"}
         /\ r.kind = "send" => r.conv \in Conversations /\ r.to \subseteq Agents

VARIABLES
  world,   \* the options the process is started with
  chat,    \* the stored conversations
  memory,  \* the stored summaries
  agent,   \* what the host knows of each agent
  pump,    \* the agent whose run the pump holds until its last job ends, or User
  timer,   \* the mail timer is armed
  fatal,   \* #failStop
  hist,    \* history: see Remembered
  env      \* how often the environment acted

vars == <<world, chat, memory, agent, pump, timer, fatal, hist, env>>

NoReply  == [kind |-> "none"]
NoBudget == [key |-> None, used |-> 0, closed |-> TRUE]

\* The part of an agent that is kept under the key of a round; a key is not reused.
\* plan, outcome: the row of memory_rounds; reply: the saved completion
\* marked: action:<round>; retries: retries:<round>; fault: the last interrupt
NewRound == [plan |-> Unplanned, outcome |-> FALSE, reply |-> NoReply, marked |-> FALSE,
             retries |-> 0, fault |-> "none"]

\* status, last, repeated: RuntimeAgent; conv, needs: the context
\* sched: "none", "ready" or "running"; susp: "none", "retry" or "stop"
\* pc, aborted, leaving: the job, its signal, a cancellation that awaits its end
NewAgent == [status |-> "active", conv |-> "none", needs |-> FALSE, sched |-> "none",
             susp |-> "none", pc |-> "none", aborted |-> FALSE, leaving |-> FALSE,
             round |-> NewRound, budget |-> NoBudget, last |-> NoReply, repeated |-> 0]

\* seen: messages that were given to the agent; said: rounds that recorded a sent message
\* asked: requests since the batch began or the host allowed more, and the batch
\* chain: the ranges the summaries of a conversation took in, in turn
\* redone: agents whose reply was thrown away after its message was sent
Remembered == [seen |-> [a \in Agents |-> {}], said |-> [a \in Agents |-> 0],
               asked |-> [a \in Agents |-> [key |-> None, n |-> 0]],
               chain |-> [c \in Conversations |-> <<>>], redone |-> {}]

Init ==
  /\ world \in Worlds
  /\ chat = NewStore /\ memory = NewMemory
  /\ agent = [a \in Agents |-> NewAgent]
  /\ pump = User /\ timer = FALSE /\ fatal = FALSE
  /\ hist = Remembered
  /\ env = [crashes |-> 0, stops |-> 0, resumes |-> 0]

----------------------------------------------------------------------------
(* The mail of the agents *)

\* The agents #refreshMail looks at: active, and nothing to do
idle(ag) == {a \in Agents : /\ ag[a].status = "active" /\ ag[a].pc = "none"
                            /\ ag[a].sched = "none" /\ ag[a].susp = "none"}

\* The store after #refreshMail of agent a: a batch that is done with is acknowledged,
\* and the next one is sealed.
acked(ch, ag, a) ==
  IF ch.batch[a].status = "delivered" /\ ~ag[a].needs THEN acknowledge(ch, a) ELSE ch

sealed(ch, ag, a, w) ==
  LET c == acked(ch, ag, a) IN
  IF active(c, a) \/ ag[a].needs THEN c ELSE seal(c, a, w.maxBatch)

\* finishWorkBudget
finished(b) == [b EXCEPT !.closed = TRUE]

\* The agent: its budget ends with the batch; a new batch switches the conversation
\* and is announced to the scheduler.
mailed(ch, ag, a, w) ==
  LET c == sealed(ch, ag, a, w)
      x == IF active(acked(ch, ag, a), a) \/ ag[a].needs THEN ag[a]
           ELSE [ag[a] EXCEPT !.budget = finished(@)]
  IN IF ag[a].needs \/ ~active(c, a) THEN x
     ELSE [x EXCEPT !.conv = c.batch[a].conv, !.sched = "ready",
                    !.last = IF active(acked(ch, ag, a), a) THEN @ ELSE NoReply,
                    !.repeated = IF active(acked(ch, ag, a), a) THEN @ ELSE 0]

\* A fold over the agents is a map: each has its own batch and mailboxes.
mailOf(ch, ag, w) ==
  [ch EXCEPT !.batch = [a \in Agents |->
                IF a \in idle(ag) THEN sealed(ch, ag, a, w).batch[a] ELSE @[a]],
             !.box = [a \in Agents |->
                IF a \in idle(ag) THEN sealed(ch, ag, a, w).box[a] ELSE @[a]]]


\* #refreshMail, the end of every step that may make mail deliverable; it arms the
\* timer for the mail of idle agents that is not due yet
RefreshMail(ch, ag, w) ==
  /\ chat' = mailOf(ch, ag, w)
  /\ agent' = [a \in Agents |-> IF a \in idle(ag) THEN mailed(ch, ag, a, w) ELSE ag[a]]
  /\ timer' = \E a \in idle(ag) : /\ ~ag[a].needs /\ ~active(chat', a)
                                  /\ \E c \in Conversations : chat'.box[a][c].first # None

----------------------------------------------------------------------------
(* Who may act *)

At(a, pc)   == agent[a].pc = pc
Round(a)    == agent[a].round
Resting     == {"none", "asked"}

\* No job and no pump is about to go on: what comes from outside the process, the
\* answer of a model included, or from a timer, is handled only then.
Settled ==
  /\ ~fatal
  /\ \A a \in Agents : agent[a].pc \in Resting
  /\ pump # User => ~At(pump, "none")

\* The pump may go on while a job begins or ends.
Settling == ~fatal /\ \A a \in Agents : agent[a].pc \in Resting \cup {"taken", "ending"}

----------------------------------------------------------------------------
(* The pump *)

started(x) == [x EXCEPT !.sched = "running", !.pc = "taken", !.aborted = FALSE]

\* takeNextRun, and the job begins unless the previous job of the agent is ending
Take(a) ==
  /\ Settling /\ pump = User
  /\ agent[a].sched = "ready" /\ agent[a].susp = "none"
  /\ Cardinality({b \in Agents : agent[b].sched = "running"}) < world.runs
  /\ IF At(a, "none")
     THEN agent' = [agent EXCEPT ![a] = started(@)] /\ UNCHANGED pump
     ELSE agent' = [agent EXCEPT ![a].sched = "running"] /\ pump' = a
  /\ UNCHANGED <<world, chat, memory, timer, fatal, hist, env>>

\* The previous job has ended: the agent may have been stopped while the pump waited.
GoOn ==
  /\ ~fatal /\ pump # User /\ At(pump, "none")
  /\ pump' = User
  /\ agent' = [agent EXCEPT ![pump] =
       IF @.status = "active" THEN started(@)
       ELSE [@ EXCEPT !.sched = "ready", !.susp = "stop"]]
  /\ UNCHANGED <<world, chat, memory, timer, fatal, hist, env>>

\* Mutant of left: the agent may have been dismissed while the cancellation waited.
leftAnyway(x) ==
  [x EXCEPT !.pc = "none", !.aborted = FALSE, !.leaving = FALSE,
            !.status = IF x.leaving THEN "cancelled" ELSE @]

\* The agent without its job; a cancellation that waited for its end goes on.
left(x) ==
  LET y == [x EXCEPT !.pc = "none", !.aborted = FALSE, !.leaving = FALSE] IN
  IF x.leaving /\ x.status # "dismissed"
  THEN [y EXCEPT !.status = "cancelled", !.round.fault = "other"] ELSE y

\* The job is removed, and the mail is looked at.
JobEnds(a) ==
  /\ At(a, "ending")
  /\ RefreshMail(chat, [agent EXCEPT ![a] = left(@)], world)
  /\ UNCHANGED <<world, memory, pump, fatal, hist, env>>

----------------------------------------------------------------------------
(* Failures *)

\* classifyFault and the limit of #failure, for the n-th failure of a round
retried(kind, n) == kind \in {"network", "protocol"} /\ n <= world.retries

\* repairRequest: the saved reply is archived
repaired(r) == [r EXCEPT !.reply = NoReply]

\* #failure and the end of the job; x is the agent as it is stored by now
failed(x, kind) ==
  LET r == [x.round EXCEPT !.retries = @ + 1] IN
  IF x.status # "active" THEN [x EXCEPT !.sched = "ready", !.susp = "stop", !.pc = "ending"]
  ELSE IF retried(kind, r.retries)
  THEN [x EXCEPT !.sched = "ready", !.susp = "retry", !.pc = "ending",
                 !.round = [(IF kind = "protocol" THEN repaired(r) ELSE r)
                            EXCEPT !.fault = "retry"]]
  ELSE [x EXCEPT !.sched = "ready", !.susp = "stop", !.pc = "ending", !.status = "paused",
                 !.round = [r EXCEPT !.fault = kind]]

Fail(a, x, kind) ==
  /\ agent' = [agent EXCEPT ![a] = failed(x, kind)]
  /\ fatal' = (kind = "internal" /\ x.status = "active")
  /\ UNCHANGED <<world, chat, memory, pump, timer, env>>

\* throwIfAborted, before a request and after it
Abort(a) ==
  /\ agent[a].aborted /\ (At(a, "planned") \/ At(a, "asked") \/ At(a, "answered"))
  /\ Fail(a, agent[a], "abort") /\ UNCHANGED hist

----------------------------------------------------------------------------
(* A round *)

\* resolveEvent, receiveAvailable and inputsReceived: the batch enters the context
\* of its conversation
Receive(a) ==
  /\ At(a, "taken")
  /\ IF active(chat, a) /\ agent[a].conv # chat.batch[a].conv
     THEN Fail(a, agent[a], "internal") /\ UNCHANGED hist
     ELSE /\ agent' = [agent EXCEPT ![a].needs = TRUE, ![a].pc = "received"]
          /\ chat' = delivered(chat, a)
          /\ hist' = [hist EXCEPT !.seen[a] = @ \cup
               {i \in DOMAIN chat.log :
                  LET b == chat.batch[a] IN
                  /\ chat.log[i].conv = b.conv /\ i <= b.upper
                  /\ i > chat.box[a][b.conv].processed}]
          /\ UNCHANGED <<world, memory, pump, timer, fatal, env>>

\* The purpose of the round is stored before anything is asked.
Plan(a) ==
  /\ At(a, "received")
  /\ IF Round(a).plan # Unplanned
     THEN agent' = [agent EXCEPT ![a].pc = "planned"] /\ UNCHANGED memory
     ELSE \E cooled \in BOOLEAN : \E p \in {plan(memory, chat, world, a, cooled)} :
            /\ agent' = [agent EXCEPT ![a].pc = "planned", ![a].round.plan = p]
            /\ memory' = lent(memory, chat, a, p)
  /\ UNCHANGED <<world, chat, pump, timer, fatal, hist, env>>

\* Mutant of workBudget: every round has a budget of its own.
freshBudget(b, key) == [key |-> key, used |-> 0, closed |-> FALSE]

\* workBudget: the budget of the batch, though it was closed, or a new one
workBudget(b, key) ==
  IF b.key = key THEN [b EXCEPT !.closed = FALSE]
  ELSE [key |-> key, used |-> 0, closed |-> FALSE]

\* dispatchRequest: the round is counted and stored, then the request is sent
Ask(a) ==
  /\ At(a, "planned") /\ ~agent[a].aborted /\ Round(a).reply = NoReply /\ ~Round(a).outcome
  /\ \E b \in {workBudget(agent[a].budget, chat.batch[a].upper)} :
       IF b.used >= world.rounds
       THEN Fail(a, [agent[a] EXCEPT !.budget = b], "budget") /\ UNCHANGED hist
       ELSE /\ agent' = [agent EXCEPT ![a].budget = [b EXCEPT !.used = b.used + 1], ![a].pc = "asked"]
            /\ hist' = [hist EXCEPT !.asked[a] =
                 [key |-> b.key, n |-> IF @.key = b.key THEN @.n + 1 ELSE 1]]
            /\ UNCHANGED <<world, chat, memory, pump, timer, fatal, env>>

\* A saved reply is used again; a round that was lent and has an outcome asks nothing.
Saved(a) ==
  /\ At(a, "planned") /\ ~agent[a].aborted
  /\ Round(a).outcome \/ Round(a).reply # NoReply
  /\ agent' = [agent EXCEPT ![a].pc = IF Round(a).outcome THEN "acted" ELSE "answered"]
  /\ UNCHANGED <<world, chat, memory, pump, timer, fatal, hist, env>>

\* The reply is stored before it is looked at.
Reply(a) ==
  /\ Settled /\ At(a, "asked") /\ ~agent[a].aborted
  /\ \E r \in IF Round(a).plan.kind = "compact" THEN {[kind |-> "digest"], [kind |-> "bad"]}
               ELSE world.words :
       agent' = [agent EXCEPT ![a].round.reply = r, ![a].pc = "answered"]
  /\ UNCHANGED <<world, chat, memory, pump, timer, fatal, hist, env>>

\* The requester fails or times out.
Unanswered(a) ==
  /\ Settled /\ At(a, "asked") /\ ~agent[a].aborted
  /\ Fail(a, agent[a], "network") /\ UNCHANGED hist

----------------------------------------------------------------------------
(* A round that was lent to the memory *)

\* The summary is committed, and then the outcome of the round.
Summarise(a) ==
  /\ At(a, "answered") /\ ~agent[a].aborted
  /\ Round(a).plan.kind = "compact" /\ Round(a).reply.kind = "digest"
  /\ LET p == Round(a).plan IN
     IF current(memory, p) /\ ~ascends(memory, p)
     THEN Fail(a, agent[a], "internal") /\ UNCHANGED hist
     ELSE /\ memory' = commitSummary(memory, p)
          /\ hist' = IF memory' = memory THEN hist
                     ELSE [hist EXCEPT !.chain[p.conv] = Append(@, [from |-> p.from, upto |-> p.upto])]
          /\ agent' = [agent EXCEPT ![a].pc = "summed"]
          /\ UNCHANGED <<world, chat, pump, timer, fatal, env>>

Outcome(a) ==
  /\ At(a, "summed")
  /\ agent' = [agent EXCEPT ![a].pc = "acted", ![a].round.outcome = TRUE]
  /\ UNCHANGED <<world, chat, memory, pump, timer, fatal, hist, env>>

\* The failure and the outcome are one transaction.
RefuseDigest(a) ==
  /\ At(a, "answered") /\ ~agent[a].aborted
  /\ Round(a).plan.kind = "compact" /\ Round(a).reply.kind = "bad"
  /\ memory' = recordFailure(memory, Round(a).plan)
  /\ agent' = [agent EXCEPT ![a].pc = "acted", ![a].round.outcome = TRUE]
  /\ UNCHANGED <<world, chat, pump, timer, fatal, hist, env>>

----------------------------------------------------------------------------
(* A round of work *)

\* The model replied something that is refused, and may try again.
RefuseReply(a) ==
  /\ At(a, "answered") /\ ~agent[a].aborted
  /\ Round(a).plan = Work /\ Round(a).reply.kind = "bad"
  /\ Fail(a, agent[a], "protocol") /\ UNCHANGED hist

\* How often the action was taken in a row.
repeatedNow(x) ==
  IF x.round.reply = x.last \/ x.round.reply.kind = "go" THEN x.repeated + 1 ELSE 1

\* The action is remembered under the key of the round, unless it goes in circles.
Judge(a) ==
  /\ At(a, "answered") /\ ~agent[a].aborted
  /\ Round(a).plan = Work /\ Round(a).reply.kind # "bad"
  /\ IF ~Round(a).marked /\ repeatedNow(agent[a]) >= world.repeats
     THEN Fail(a, agent[a], "loop")
     ELSE /\ agent' = [agent EXCEPT ![a] =
                 IF @.round.marked THEN [@ EXCEPT !.pc = "acting"]
                 ELSE [@ EXCEPT !.pc = "acting", !.round.marked = TRUE,
                                !.last = Round(a).reply, !.repeated = repeatedNow(agent[a])]]
          /\ UNCHANGED <<world, chat, memory, pump, timer, fatal, env>>
  /\ UNCHANGED hist

Sends(a) == Round(a).plan = Work /\ Round(a).reply.kind = "send"

message(a) == [conv |-> Round(a).reply.conv, from |-> a, to |-> Round(a).reply.to,
               phase |-> chat.batch[a].phase]

\* #messageDestination and the checks of the store
verdict(a) ==
  IF \E b \in members[message(a).conv] \cap Agents : agent[b].status = "cancelled"
  THEN "permission" ELSE refusal(chat, message(a), world.auto)

\* send_message: the message is stored once, and wakes the others
Say(a) ==
  /\ At(a, "acting") /\ Sends(a)
  /\ LET x == [agent EXCEPT ![a].pc = "acted"] IN
     CASE verdict(a) = "new" ->
            \E late \in BOOLEAN : RefreshMail(append(chat, message(a), late), x, world)
       [] verdict(a) = "known" -> RefreshMail(chat, x, world)
       [] OTHER -> agent' = [agent EXCEPT ![a] = failed(@, verdict(a))] /\ UNCHANGED <<chat, timer>>
  /\ fatal' = (verdict(a) = "internal" /\ agent[a].status = "active")
  /\ UNCHANGED <<world, memory, pump, hist, env>>

\* Whether the decision asks for another round.
continues(r) == \/ r.plan # Work \/ r.reply.kind = "go"
                \/ r.reply.kind = "send" /\ ~r.reply.finish

\* apply and finishRun: the round is recorded, and its key is not used again
Commit(a) ==
  /\ At(a, "acted") \/ (At(a, "acting") /\ ~Sends(a))
  /\ agent' = [agent EXCEPT ![a] =
       [@ EXCEPT !.needs = continues(Round(a)), !.pc = "ending", !.round = NewRound,
                 !.sched = IF continues(Round(a)) THEN "ready" ELSE "none"]]
  /\ chat' = [chat EXCEPT !.outbox[a] = None]
  /\ hist' = [hist EXCEPT !.said[a] = IF Sends(a) THEN @ + 1 ELSE @]
  /\ UNCHANGED <<world, memory, pump, timer, fatal, env>>

----------------------------------------------------------------------------
(* The user *)

\* sendMessage: a message of the user opens a phase
SendMessage(c, to) ==
  /\ Settled
  /\ Cardinality({i \in DOMAIN chat.log : chat.log[i].from = User}) < world.messages
  /\ \A a \in members[c] \cap Agents : agent[a].status # "cancelled"
  /\ LET m == [conv |-> c, from |-> User, to |-> to, phase |-> Len(chat.log) + 1] IN
     /\ refusal(chat, m, world.auto) = "new"
     /\ \E late \in BOOLEAN : RefreshMail(append(chat, m, late), agent, world)
  /\ UNCHANGED <<world, memory, pump, fatal, hist, env>>

\* The agent is stopped; a job in progress is told to end.
stopped(x, status) == [x EXCEPT !.status = status, !.susp = "stop", !.aborted = (@ \/ x.pc # "none")]

Stopping ==
  /\ Settled /\ env.stops < world.stops
  /\ env' = [env EXCEPT !.stops = @ + 1]
  /\ UNCHANGED <<world, memory, pump, fatal, hist>>

Pause(a) ==
  /\ Stopping /\ agent[a].status # "dismissed"
  /\ agent' = [agent EXCEPT ![a] = stopped(@, "paused")]
  /\ UNCHANGED <<chat, timer>>

\* cancel pauses, awaits the job and then cancels.
Cancel(a) ==
  /\ Stopping /\ agent[a].status # "dismissed"
  /\ agent' = [agent EXCEPT ![a] =
       IF @.pc = "none"
       THEN [stopped(@, "cancelled") EXCEPT !.round.fault = "other"]
       ELSE [stopped(@, "paused") EXCEPT !.leaving = TRUE]]
  /\ UNCHANGED <<chat, timer>>

\* The tombstone comes first; a job in progress ends later and looks at the mail.
Dismiss(a) ==
  /\ Stopping /\ agent[a].status # "dismissed"
  /\ LET x == [agent EXCEPT ![a] = stopped(@, "dismissed")] IN
     IF At(a, "none") THEN RefreshMail(dismiss(chat, a), x, world)
     ELSE agent' = x /\ chat' = dismiss(chat, a) /\ UNCHANGED timer

\* renewWorkBudget
renewed(b) == IF ~b.closed /\ b.used >= world.rounds THEN [b EXCEPT !.used = 0] ELSE b

\* failedLoop: the action that was refused was not begun
loops(x) == x.round.fault = "loop" /\ x.sched = "ready" /\ ~x.round.marked

\* resume: the budget is renewed, and a reply that was refused is asked for again;
\* so is one that came after the refusal and was carried out before the process died
Resume(a) ==
  /\ Settled /\ env.resumes < world.resumes
  /\ agent[a].status # "dismissed"
  /\ agent[a].status # "active" \/ agent[a].susp # "none"
  /\ agent[a].status # "active" => At(a, "none")
  /\ LET x      == agent[a]
         paused == x.status = "paused"
         again  == paused /\ (loops(x) \/ x.round.fault = "protocol")
         y == [x EXCEPT !.status = "active", !.susp = "none",
                 !.budget = IF paused THEN renewed(@) ELSE @,
                 !.round = IF again THEN [repaired(@) EXCEPT !.retries = 0] ELSE @,
                 !.last = IF paused /\ loops(x) THEN NoReply ELSE @,
                 !.repeated = IF paused /\ loops(x) THEN 0 ELSE @]
     IN /\ RefreshMail(chat, [agent EXCEPT ![a] = y], world)
        /\ hist' = [hist EXCEPT
             !.asked[a].n = IF y.budget # x.budget THEN 0 ELSE @,
             !.redone = IF again /\ chat.outbox[a] # None THEN @ \cup {a} ELSE @]
  /\ env' = [env EXCEPT !.resumes = @ + 1]
  /\ UNCHANGED <<world, memory, pump, fatal>>

----------------------------------------------------------------------------
(* Time, death and restart *)

Lapse(a, c) ==
  /\ Settled /\ chat.box[a][c].first # None /\ ~chat.box[a][c].ripe
  /\ chat' = [chat EXCEPT !.box[a][c].ripe = TRUE]
  /\ UNCHANGED <<world, memory, agent, pump, timer, fatal, hist, env>>

\* The mail timer was set for the first due time of an idle agent.
TimerFires ==
  /\ Settled /\ timer
  /\ \E a \in idle(agent) : ripe(chat, a) # {}
  /\ RefreshMail(chat, agent, world)
  /\ UNCHANGED <<world, memory, pump, fatal, hist, env>>

RetryDue(a) ==
  /\ Settled /\ agent[a].susp = "retry"
  /\ agent' = [agent EXCEPT ![a].susp = "none"]
  /\ UNCHANGED <<world, chat, memory, pump, timer, fatal, hist, env>>

\* What initialize makes of a stored agent: a run that was under way is queued
\* again, and an agent that is not active is suspended.
restored(x) ==
  [x EXCEPT !.sched = IF x.sched = "running" \/ x.needs THEN "ready" ELSE @,
            !.susp = IF x.status # "active" THEN "stop" ELSE @,
            !.pc = "none", !.aborted = FALSE, !.leaving = FALSE]

\* The process dies and is started again.
Restart ==
  /\ env.crashes < world.crashes
  /\ LET gone == {a \in Agents : agent[a].status = "dismissed"}
         ch == [chat EXCEPT !.batch = [a \in Agents |-> IF a \in gone THEN NoBatch ELSE @[a]],
                            !.gone = @ \cup gone]
     IN RefreshMail(ch, [a \in Agents |-> restored(agent[a])], world)
  /\ pump' = User /\ fatal' = FALSE
  /\ env' = [env EXCEPT !.crashes = @ + 1]
  /\ UNCHANGED <<world, memory, hist>>

----------------------------------------------------------------------------

Job(a) ==
  \/ Abort(a) \/ Receive(a) \/ Plan(a) \/ Ask(a) \/ Saved(a) \/ Reply(a) \/ Unanswered(a)
  \/ Summarise(a) \/ Outcome(a) \/ RefuseDigest(a)
  \/ RefuseReply(a) \/ Judge(a) \/ Say(a) \/ Commit(a) \/ JobEnds(a)

\* What the process does by itself.
Process ==
  \/ \E a \in Agents : Job(a) \/ Take(a) \/ RetryDue(a)
  \/ GoOn \/ TimerFires
  \/ \E a \in Agents, c \in Conversations : Lapse(a, c)

Host ==
  \/ \E m \in world.posts : SendMessage(m.conv, m.to)
  \/ \E a \in Agents : Pause(a) \/ Cancel(a) \/ Dismiss(a) \/ Resume(a)

Next == Process \/ Host \/ Restart

Spec == Init /\ [][Next]_vars

\* Nothing is assumed of the user, and nothing of the replies of the model: limits
\* alone must bring a piece of work to an end.
FairSpec == Spec /\ WF_vars(Process)
================================================================================

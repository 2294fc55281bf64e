------------------------------- MODULE AgentRound -------------------------------
(***************************************************************************)
(* The round of an agent (src/agent-round/runner.ts) over a sealed batch   *)
(* of inputs, with the runtime around it: the replies of the model it      *)
(* keeps, the side effects of the work, the failures it retries or stops   *)
(* on, the host that pauses, resumes, gives feedback and changes budgets,  *)
(* and the death of the process between any two durable writes.            *)
(*                                                                         *)
(* One step of the round is one durable write, so that a death can fall    *)
(* between any two; other actors act only where the code awaits.           *)
(*                                                                         *)
(* Abstractions.  One agent.  Of the scheduler: the inputs that arrived,   *)
(* the batch sealed from them, the wish to continue and the operations in  *)
(* flight (AgentScheduler is the detailed model).  Receipts and saved      *)
(* replies are kept for the current batch and the current summary; batch   *)
(* and summary ids are never used again.                                   *)
(***************************************************************************)
EXTENDS AgentContext

CONSTANTS
  Ops,          \* operations the work may stage; the result is an input
  wake,         \* wake[f]: the input that the event announcing feedback f carries
  Bounds        \* bounds on the behaviours, for each maxTasks of a budget

\* Inputs the host puts into the context itself.
Feedbacks == DOMAIN wake

NoBatch == <<"none">>
NoOp    == "no operation"

\* Keys of messages and other events, of results and of feedback differ by their
\* prefixes event:, operation: and host-feedback:; no batch is NoBatch.
\* messages, feedbacks: the inputs that may arrive as events, and from the host
\* count: the size of the plans; types: the decisions the model may take
\* frames, revision: how many frames are created, how many plans a frame has
\* retries: limits.maxRetries
\* faults: deaths of the process, pauses and changes of budget; resumes by the host
ASSUME RoundAssumption ==
  /\ Ops \cup Feedbacks \cup {wake[f] : f \in Feedbacks} \subseteq Inputs
  /\ Ops \cap Feedbacks = {} /\ NoBatch \notin Seq(Inputs) /\ NoOp \notin Ops
  /\ \A f \in Feedbacks : wake[f] \notin Ops \cup Feedbacks
  /\ \A f, g \in Feedbacks : wake[f] = wake[g] => f = g
  /\ \A n \in {b.maxTasks : b \in Budgets} :
       /\ Bounds[n].messages \subseteq Inputs \ (Ops \cup Feedbacks)
       /\ Bounds[n].feedbacks \subseteq Feedbacks
       /\ \A f \in Bounds[n].feedbacks : wake[f] \notin Bounds[n].messages
       /\ Bounds[n].types \subseteq DecisionTypes
       /\ {Bounds[n].count, Bounds[n].frames, Bounds[n].revision,
           Bounds[n].retries, Bounds[n].faults, Bounds[n].resumes} \subseteq Nat

VARIABLES
  context,    \* the checkpoint of the context manager
  records,    \* inputs whose history record is stored
  receipt,    \* intent of round:<batch>, or "none"
  summarised, \* round-summary:<batch> is stored
  batch,      \* the sealed batch: a sequence of inputs, or NoBatch
  arrived,    \* inputs the scheduler holds for the next batch
  cont,       \* the scheduler owes a round without inputs
  inflight,   \* operations the scheduler waits for
  target,     \* cursor each operation and feedback was issued under
  reply,      \* saved completion of the batch: a decision, or NoReply
  text,       \* saved completion of the summary: "none", "good" or "bad"
  acted,      \* the effects of the work of this batch took place
  status,     \* RuntimeAgent.status: "active" or "paused"
  held,       \* suspended until a retry is due
  fault,      \* the last interrupt: "none", "protocol" or "other"
  retries,    \* retries:<batch>
  round,      \* the round in progress: step, whether all inputs are in, cursor
  aborted,    \* the signal of the round is aborted
  taking,     \* history: how often each input entered a frame
  acked,      \* history: inputs whose source was told to forget them
  sends,      \* history: requests sent for the current summary since its seal
  dropped,    \* history: a batch left with effects that no commit recorded
  faults, resumes

diskVars  == <<context, records, receipt, summarised, target, reply, text, acted, retries, fault>>
schedVars == <<batch, arrived, cont, inflight>>
hostVars  == <<status, held>>
roundVars == <<round, aborted>>
histVars  == <<taking, acked, sends, dropped>>
boundVars == <<faults, resumes>>
vars == <<diskVars, schedVars, hostVars, roundVars, histVars, boundVars>>

NoReply == [type |-> "none"]
Idle    == [pc |-> "idle", all |-> FALSE, attempted |-> FALSE, cursor |-> NoCursor]

\* A context keeps the maxTasks it was created with, and with it its bounds.
bound == Bounds[context.budget.maxTasks]

Decisions == [type : bound.types, count : {bound.count}, notes : {0, 1}, op : Ops \cup {NoOp}]

At(pc)     == round.pc = pc
To(pc)     == round' = [round EXCEPT !.pc = pc]
Awaiting   == round.pc \in {"idle", "resolve", "asked", "working"}
Sleeping   == batch = NoBatch /\ arrived = <<>> /\ ~cont /\ inflight = {} /\ At("idle")
delivery(k) == [key |-> k, target |-> target[k]]

Init ==
  /\ \E b \in Budgets : context = Initial(b)
  /\ records = {} /\ receipt = "none" /\ summarised = FALSE
  /\ batch = NoBatch /\ arrived = <<>> /\ cont = FALSE /\ inflight = {}
  /\ target = [k \in Inputs |-> NoCursor]
  /\ reply = NoReply /\ text = "none" /\ acted = FALSE
  /\ status = "active" /\ held = FALSE /\ fault = "none" /\ retries = 0
  /\ round = Idle /\ aborted = FALSE
  /\ taking = [k \in Inputs |-> 0] /\ acked = {} /\ sends = 0 /\ dropped = FALSE
  /\ faults = 0 /\ resumes = 0

----------------------------------------------------------------------------
(* The scheduler, as the round sees it *)

Announced == ToSet(arrived) \cup ToSet(batch)

\* A message reaches the scheduler; its source announces it until it may forget it.
Notify(k) ==
  /\ Awaiting
  /\ k \in bound.messages \ (acked \cup Announced)
  /\ arrived' = Append(arrived, k)
  /\ UNCHANGED <<diskVars, batch, cont, inflight, hostVars, roundVars, histVars, boundVars>>

\* An operation ends; its result waits for the next batch.
CompleteOperation(o) ==
  /\ Awaiting
  /\ o \in inflight
  /\ inflight' = inflight \ {o}
  /\ arrived' = Append(arrived, o)
  /\ UNCHANGED <<diskVars, batch, cont, hostVars, roundVars, histVars, boundVars>>

\* #seal and takeNextRun; a batch that was returned is taken again as it was
TakeNextRun ==
  /\ At("idle") /\ status = "active" /\ ~held
  /\ batch # NoBatch \/ arrived # <<>> \/ cont
  /\ round' = [Idle EXCEPT !.pc = "taken"]
  /\ aborted' = FALSE
  /\ IF batch # NoBatch THEN UNCHANGED <<batch, arrived, cont>>
     ELSE /\ batch' = Among(arrived, Inputs \ Ops) \o Among(arrived, Ops)
          /\ arrived' = <<>> /\ cont' = FALSE
  /\ UNCHANGED <<diskVars, inflight, hostVars, histVars, boundVars>>

\* finishRun: the batch leaves the scheduler, and its receipts and replies are
\* never asked for again
Finish(intent) ==
  /\ batch' = NoBatch /\ cont' = (intent = "continue")
  /\ receipt' = "none" /\ summarised' = FALSE
  /\ reply' = NoReply /\ retries' = 0 /\ fault' = "none" /\ acted' = FALSE
  /\ round' = Idle /\ aborted' = FALSE

intent(c) == IF needsRun(c) THEN "continue" ELSE "idle"

----------------------------------------------------------------------------
(* Failures: the catch block of execute and #failure of the runtime *)

\* repairRequest of #requestKey: the saved reply is archived
Repaired(c) == IF pending(c) THEN text' = "none" /\ UNCHANGED reply
               ELSE reply' = NoReply /\ UNCHANGED text

\* Mutant of Counted: a failure is not remembered.
Uncounted(kind) == retries

\* Waiting for admission is not a failure of the batch.
Counted(kind) == IF kind = "admission" THEN retries ELSE retries + 1

\* classifyFault and the limit of #failure
Retries(kind) ==
  kind = "admission" \/ (kind \in {"network", "protocol"} /\ retries < bound.retries)

\* The batch stays; the agent waits for a retry or is paused.  c is the
\* context as it is stored by now.
Fail(kind, c) ==
  /\ context' = c
  /\ round' = Idle /\ aborted' = FALSE
  /\ IF status # "active"
     THEN UNCHANGED <<hostVars, fault, retries, reply, text>>
     ELSE /\ retries' = Counted(kind)
          /\ held' = Retries(kind)
          /\ status' = IF Retries(kind) THEN "active" ELSE "paused"
          /\ fault' = IF kind \in {"protocol", "exhausted"} /\ ~Retries(kind)
                         THEN "protocol" ELSE "other"
          /\ IF Retries(kind) /\ kind = "protocol" THEN Repaired(c) ELSE UNCHANGED <<reply, text>>
  /\ UNCHANGED <<records, receipt, summarised, target, acted, schedVars, histVars, boundVars>>

\* throwIfAborted
Abort ==
  /\ aborted /\ (At("request") \/ At("act"))
  /\ Fail("abort", context)

----------------------------------------------------------------------------
(* Receiving the batch *)

\* The replies to the batch are known: its round is not run again.
Replayed ==
  /\ At("taken") /\ receipt # "none"
  /\ Finish(IF needsRun(context) THEN "continue" ELSE receipt)
  /\ UNCHANGED <<context, records, target, text, arrived, inflight, hostVars,
                 histVars, boundVars>>

\* The contents of the inputs are looked up by resolveEvent and resolveResult.
Resolve ==
  /\ At("taken") /\ receipt = "none"
  /\ To("resolve")
  /\ UNCHANGED <<diskVars, schedVars, hostVars, aborted, histVars, boundVars>>

\* One prepare, at the step before or after the inputs were received.
Prepare(pc, next) ==
  /\ At(pc)
  /\ \E m \in {prepare(context)} :
       IF m.refused THEN Fail("budget", context)
       ELSE /\ context' = m.draft
            /\ taking' = [k \in Inputs |-> taking[k] +
                 Cardinality({i \in DOMAIN m.taken : m.taken[i].key = k})]
            /\ sends' = IF pending(m.draft) /\ ~pending(context) THEN 0 ELSE sends
            /\ text' = IF pending(m.draft) /\ ~pending(context) THEN "none" ELSE text
            /\ To(next)
            /\ UNCHANGED <<records, receipt, summarised, target, reply, acted, retries, fault,
                           schedVars, hostVars, aborted, acked, dropped, boundVars>>

PrepareFirst == Prepare("resolve", "receive")
PrepareAgain == Prepare("received", "prepared")

\* #freshDeliveries
Fresh ==
  LET new == Among(batch, Inputs \ records)
  IN [i \in DOMAIN new |-> delivery(new[i])]

Free == maxInbox - Len(context.inbox)

\* receiveAvailable
ReceiveAvailable ==
  /\ At("receive")
  /\ \E ds \in {SubSeq(Fresh, 1, IF Len(Fresh) < Free THEN Len(Fresh) ELSE Free)} :
       /\ context' = receive(context, ds)
       /\ records' = records \cup {ds[i].key : i \in DOMAIN ds}
  /\ round' = [round EXCEPT !.pc = "received", !.all = Len(Fresh) <= Free]
  /\ UNCHANGED <<receipt, summarised, target, reply, text, acted, retries, fault,
                 schedVars, hostVars, aborted, histVars, boundVars>>

\* The loop receives the rest of the batch while draining makes room for it.
ReceiveMore ==
  /\ At("prepared") /\ ~round.all /\ ~pending(context) /\ Free > 0
  /\ To("receive")
  /\ UNCHANGED <<diskVars, schedVars, hostVars, aborted, histVars, boundVars>>

\* The inbox cannot take the rest of the batch.
InboxFull ==
  /\ At("prepared") /\ ~round.all /\ ~pending(context) /\ Free = 0
  /\ Fail("budget", context)

\* Mutant of InputsReceived: the sources are told although inputs are left out.
InputsReceivedEarly ==
  /\ At("prepared") /\ (round.all \/ pending(context))
  /\ acked' = acked \cup ToSet(batch)
  /\ To(IF round.all /\ summarised THEN "acknowledge" ELSE "request")
  /\ UNCHANGED <<diskVars, schedVars, hostVars, aborted, taking, sends, dropped, boundVars>>

\* inputsReceived, and the choice between a replayed, a summary and a work round
InputsReceived ==
  /\ At("prepared") /\ (round.all \/ pending(context))
  /\ acked' = IF round.all THEN acked \cup ToSet(batch) ELSE acked
  /\ To(IF round.all /\ summarised THEN "acknowledge" ELSE "request")
  /\ UNCHANGED <<diskVars, schedVars, hostVars, aborted, taking, sends, dropped, boundVars>>

----------------------------------------------------------------------------
(* The summary round *)

\* summaryRequest: what compaction keeps leaves no room for a summary
NoCapacity ==
  /\ At("request") /\ ~aborted /\ pending(context) /\ ~summaryCapacity(context)
  /\ Fail("budget", context)

\* RequestAdmission.acquire turns a request down that has no saved reply.
NotAdmitted ==
  /\ At("request") /\ ~aborted
  /\ IF pending(context) THEN text = "none" /\ summaryCapacity(context) ELSE reply = NoReply
  /\ Fail("admission", context)

\* A saved reply is used again and costs no attempt.
SavedSummary ==
  /\ At("request") /\ ~aborted /\ pending(context) /\ summaryCapacity(context)
  /\ text # "none"
  /\ To("answered")
  /\ UNCHANGED <<diskVars, schedVars, hostVars, aborted, histVars, boundVars>>

\* beforeSend: the attempt is stored, then the request is sent
BeginSummaryAttempt ==
  /\ At("request") /\ ~aborted /\ pending(context) /\ summaryCapacity(context)
  /\ text = "none"
  /\ context.pendingSummary.attempts < maxSummaryAttempts
  /\ context' = attempted(context)
  /\ sends' = sends + 1
  /\ round' = [round EXCEPT !.pc = "asked", !.attempted = TRUE]
  /\ UNCHANGED <<records, receipt, summarised, target, reply, text, acted, retries, fault,
                 schedVars, hostVars, aborted, taking, acked, dropped, boundVars>>

SummaryExhausted ==
  /\ At("request") /\ ~aborted /\ pending(context) /\ summaryCapacity(context)
  /\ text = "none"
  /\ context.pendingSummary.attempts >= maxSummaryAttempts
  /\ Fail("exhausted", context)

\* The completion is stored before it is looked at.
SummaryReply ==
  /\ At("asked") /\ ~aborted
  /\ text' \in {"good", "bad"}
  /\ To("answered")
  /\ UNCHANGED <<context, records, receipt, summarised, target, reply, acted, retries, fault,
                 schedVars, hostVars, aborted, histVars, boundVars>>

\* failSummary: the model did not answer, or the host aborted the request
SummaryUnanswered ==
  /\ At("asked")
  /\ Fail(IF aborted THEN "abort" ELSE "network", failed(context))

\* commitSummaryPhase: the summary and the receipt of the phase, together
CommitSummaryPhase ==
  /\ At("answered") /\ text = "good" /\ SummaryFits(context)
  /\ context' = integrateSummary(context)
  /\ summarised' = TRUE
  /\ text' = "none"
  /\ To("committed")
  /\ UNCHANGED <<records, receipt, target, reply, acted, retries, fault,
                 schedVars, hostVars, aborted, histVars, boundVars>>

\* parseSummary or integrateSummary refuse the reply.
RefuseSummary ==
  /\ At("answered") /\ (text = "bad" \/ ~SummaryFits(context))
  /\ Fail(IF text = "bad" THEN "protocol" ELSE "budget",
          IF round.attempted THEN failed(context) ELSE context)

\* returnRun: inputs of the batch are still outside the context
ReturnRun ==
  /\ At("committed") /\ ~round.all
  /\ round' = Idle /\ aborted' = FALSE
  /\ UNCHANGED <<diskVars, schedVars, hostVars, histVars, boundVars>>

Committed ==
  /\ At("committed") /\ round.all
  /\ To("acknowledge")
  /\ UNCHANGED <<diskVars, schedVars, hostVars, aborted, histVars, boundVars>>

\* acknowledgeRound
AcknowledgeRound ==
  /\ At("acknowledge")
  /\ receipt' = intent(context)
  /\ dropped' = (dropped \/ acted)
  /\ To("finish")
  /\ UNCHANGED <<context, records, summarised, target, reply, text, acted, retries, fault,
                 schedVars, hostVars, aborted, taking, acked, sends, boundVars>>

----------------------------------------------------------------------------
(* The work round *)

\* The model is asked for a decision, unless its reply is saved.
Ask ==
  /\ At("request") /\ ~aborted /\ ~pending(context)
  /\ round' = [round EXCEPT !.pc = IF reply = NoReply THEN "working" ELSE "act",
                            !.cursor = cursor(context)]
  /\ UNCHANGED <<diskVars, schedVars, hostVars, aborted, histVars, boundVars>>

\* Decisions within the bounds of the model; a tool call is a wait with its
\* operation, and sending a message or an output adds an entry.
Bounded(d) ==
  /\ d.type \in {"plan", "replan"} => active(context).revision < bound.revision /\ d.notes = 0
  /\ d.type = "advance" => level(context) = 3 \/ context.created < bound.frames
  /\ d.op # NoOp => d.type = "wait" /\ target[d.op] = NoCursor
  /\ d.notes = 1 <=> d.op # NoOp \/ d.type \in {"continue", "finish_turn", "idle", "complete"}

WorkReply ==
  /\ At("working") /\ ~aborted
  /\ \E d \in Decisions : Bounded(d) /\ reply' = d
  /\ To("act")
  /\ UNCHANGED <<context, records, receipt, summarised, target, text, acted, retries, fault,
                 schedVars, hostVars, aborted, histVars, boundVars>>

WorkUnanswered ==
  /\ At("working")
  /\ Fail(IF aborted THEN "abort" ELSE "network", context)

\* The effects of the work, stored under keys of the batch: a repeated round
\* finds them done.  A tool call is registered with the scheduler.
Act ==
  /\ At("act") /\ ~aborted
  /\ acted' = (acted \/ reply.notes = 1)
  /\ IF reply.op \in Ops /\ target[reply.op] = NoCursor
     THEN target' = [target EXCEPT ![reply.op] = round.cursor] /\ inflight' = inflight \cup {reply.op}
     ELSE UNCHANGED <<target, inflight>>
  /\ To("apply")
  /\ UNCHANGED <<context, records, receipt, summarised, reply, text, retries, fault,
                 batch, arrived, cont, hostVars, aborted, histVars, boundVars>>

\* Work may not end over operations in flight, nor wait for none.
WakePath ==
  /\ reply.type \in {"complete", "idle", "finish_turn"} => inflight = {}
  /\ reply.type = "wait" => inflight # {} \/ ToSet(arrived) \cap Ops # {}

Accepted == WakePath /\ Applicable(context, round.cursor, reply)

\* apply: the decision and the receipt of the batch, together
Apply ==
  /\ At("apply") /\ Accepted
  /\ context' = applyDecision(context, reply)
  /\ receipt' = intent(applyDecision(context, reply))
  /\ sends' = IF pending(context') THEN 0 ELSE sends
  /\ text' = "none"
  /\ To("finish")
  /\ UNCHANGED <<records, summarised, target, reply, acted, retries, fault,
                 schedVars, hostVars, aborted, taking, acked, dropped, boundVars>>

Refuse ==
  /\ At("apply") /\ ~Accepted
  /\ Fail(IF WakePath /\ DecisionAllowed(context, reply) THEN "budget" ELSE "protocol", context)

\* finishRun after the commit of the round
FinishRun ==
  /\ At("finish")
  /\ Finish(intent(context))
  /\ UNCHANGED <<context, records, target, text, arrived, inflight, hostVars,
                 histVars, boundVars>>

----------------------------------------------------------------------------
(* The host *)

\* The cursor under which feedback was first given stays with its key.
Kept(f) == target' = [target EXCEPT ![f] = IF @ = NoCursor THEN cursor(context) ELSE @]

\* receive; feedback that is given again has its record
Entered(f) ==
  /\ Kept(f)
  /\ IF f \in records THEN UNCHANGED <<context, records>>
     ELSE /\ Free > 0
          /\ context' = receive(context, <<[key |-> f, target |-> target'[f]]>>)
          /\ records' = records \cup {f}

\* The scheduler may have forgotten the id of an event it delivered before.
Woken(f) ==
  \/ wake[f] \notin Announced /\ arrived' = Append(arrived, wake[f])
  \/ wake[f] \in Announced \cup records /\ UNCHANGED arrived

\* provideFeedback
Feedback(f) ==
  /\ Awaiting
  /\ Entered(f) /\ Woken(f)
  /\ UNCHANGED <<receipt, summarised, reply, text, acted, retries, fault, batch, cont, inflight,
                 hostVars, roundVars, histVars, boundVars>>

\* The inbox is full: the host is told, and the cursor is stored.
FeedbackRefused(f) ==
  /\ Awaiting
  /\ f \notin records /\ Free = 0
  /\ Kept(f)
  /\ UNCHANGED <<context, records, receipt, summarised, reply, text, acted, retries, fault,
                 schedVars, hostVars, roundVars, histVars, boundVars>>

\* The process dies between the input and its event.
FeedbackCut(f) ==
  /\ Awaiting /\ faults < bound.faults
  /\ Entered(f)
  /\ cont' = (cont \/ needsRun(context'))
  /\ round' = Idle /\ aborted' = FALSE
  /\ faults' = faults + 1
  /\ UNCHANGED <<receipt, summarised, reply, text, acted, retries, fault, batch, arrived, inflight,
                 hostVars, histVars, resumes>>

\* pause
Pause ==
  /\ Awaiting /\ status = "active" /\ faults < bound.faults
  /\ status' = "paused" /\ held' = FALSE
  /\ aborted' = ~At("idle")
  /\ faults' = faults + 1
  /\ UNCHANGED <<diskVars, schedVars, round, histVars, resumes>>

\* resume: failed summaries and refused replies get new attempts
Resume ==
  /\ At("idle") /\ status = "paused" /\ resumes < bound.resumes
  /\ LET lastError == pending(context) /\ context.pendingSummary.failed
         again == lastError \/ (batch # NoBatch /\ fault = "protocol") IN
     /\ context' = IF lastError THEN retried(context) ELSE context
     /\ sends' = IF lastError THEN 0 ELSE sends
     /\ IF again /\ batch # NoBatch THEN retries' = 0 /\ Repaired(context)
        ELSE UNCHANGED <<retries, reply, text>>
  /\ status' = "active" /\ held' = FALSE
  /\ resumes' = resumes + 1
  /\ UNCHANGED <<records, receipt, summarised, target, acted, fault, schedVars, roundVars,
                 taking, acked, dropped, faults>>

\* The suspension of a failed round ends.
RetryDue ==
  /\ held
  /\ held' = FALSE
  /\ UNCHANGED <<diskVars, schedVars, status, roundVars, histVars, boundVars>>

\* configureTokens, while the agent is paused or asleep
ConfigureBudget(b) ==
  /\ At("idle") /\ (status = "paused" \/ (Sleeping /\ ~needsRun(context)))
  /\ faults < bound.faults
  /\ b # context.budget /\ b.maxTasks = context.budget.maxTasks
  /\ \A i \in DOMAIN context.frames : Size(context.frames[i]) <= b.max
  /\ context' = configured(context, b)
  /\ text' = IF pending(context) /\ batch # NoBatch THEN "none" ELSE text
  /\ faults' = faults + 1
  /\ UNCHANGED <<records, receipt, summarised, target, reply, acted, retries, fault,
                 schedVars, hostVars, roundVars, histVars, resumes>>

\* The process dies and is started again: #attach asks for a round when the
\* restored context needs one.
Crash ==
  /\ faults < bound.faults
  /\ round' = Idle /\ aborted' = FALSE
  /\ cont' = (cont \/ needsRun(context))
  /\ faults' = faults + 1
  /\ UNCHANGED <<diskVars, batch, arrived, inflight, hostVars, histVars, resumes>>

----------------------------------------------------------------------------

RoundStep ==
  \/ Abort \/ Replayed \/ Resolve
  \/ PrepareFirst \/ ReceiveAvailable \/ PrepareAgain \/ ReceiveMore \/ InboxFull \/ InputsReceived
  \/ NoCapacity \/ SavedSummary \/ BeginSummaryAttempt \/ SummaryExhausted \/ SummaryReply
  \/ CommitSummaryPhase \/ RefuseSummary \/ ReturnRun \/ Committed \/ AcknowledgeRound
  \/ Ask \/ WorkReply \/ Act \/ Apply \/ Refuse \/ FinishRun

HostStep ==
  \/ \E f \in bound.feedbacks : Feedback(f) \/ FeedbackRefused(f) \/ FeedbackCut(f)
  \/ Pause \/ Resume \/ Crash
  \/ \E b \in Budgets : ConfigureBudget(b)

Next ==
  \/ \E k \in bound.messages : Notify(k)
  \/ \E o \in Ops : CompleteOperation(o)
  \/ TakeNextRun \/ RetryDue
  \/ RoundStep
  \/ NotAdmitted \/ SummaryUnanswered \/ WorkUnanswered
  \/ HostStep

Spec == Init /\ [][Next]_vars

\* The process keeps running the round it took, the pump keeps taking runs,
\* timers fire, operations have deadlines, and requests are not refused
\* admission for ever.
Fairness ==
  /\ WF_vars(RoundStep \/ SummaryUnanswered \/ WorkUnanswered)
  /\ WF_vars(TakeNextRun) /\ WF_vars(RetryDue)
  /\ \A o \in Ops : WF_vars(CompleteOperation(o))
  /\ SF_vars(SavedSummary \/ BeginSummaryAttempt \/ SummaryExhausted \/ Ask)

FairSpec == Spec /\ Fairness
================================================================================

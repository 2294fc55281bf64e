------------------------------ MODULE AgentContext ------------------------------
(***************************************************************************)
(* The context manager of an agent (src/agent-context): up to three frames *)
(* with a task chain each, an inbox of deliveries, and a pending summary.  *)
(* Every method of the manager is one transaction on the checkpoint        *)
(* (#mutate): this module defines what each makes of it and when it is     *)
(* refused.  AgentRound keeps the checkpoint and takes the steps.          *)
(*                                                                         *)
(* Abstractions.  Sizes are counted in units: an entry, a summary, a task  *)
(* and the result of a task weigh one each, everything else in a frame     *)
(* weighs nothing.  Of the archived frames only the one a pending summary  *)
(* is sealed on is kept.                                                   *)
(***************************************************************************)
EXTENDS Naturals, Sequences, SequencesExt, FiniteSets

CONSTANTS
  Inputs,              \* delivery keys
  Budgets,             \* ContextBudget records the host may configure
  maxInbox,            \* policy.maxInbox
  maxSummaryAttempts   \* policy.maxSummaryAttempts

\* validateBudget and validatePolicy
ASSUME ContextAssumption ==
  /\ Budgets \subseteq [max : Nat, compactAt : Nat, target : Nat, maxTasks : Nat \ {0}]
  /\ \A b \in Budgets : 0 < b.target /\ b.target < b.compactAt /\ b.compactAt < b.max
  /\ maxInbox \in Nat \ {0} /\ maxSummaryAttempts \in Nat \ {0}

----------------------------------------------------------------------------
(* Frames.  A chain is EXECUTING when one of its tasks is RUNNING.  Replaced *)
(* plans are archived, so SUPERSEDED tasks are never part of a frame.       *)

TaskStates == {"WAITING", "RUNNING", "COMPLETED", "INTERRUPTED"}
Purposes   == {"complete", "interrupt", "compact", "idle"}

Cursors  == [frame : Nat, revision : Nat]
NoCursor == [frame |-> 0, revision |-> 0]   \* a delivery without a target

\* parent is currentTask: the plan of the frame above and the task of it
Frames ==
  [id : Nat \ {0}, revision : Nat, tasks : Seq(TaskStates), inputs : SUBSET Inputs,
   notes : Nat, summary : BOOLEAN, parent : [revision : Nat, task : Nat]]

Root ==
  [id |-> 1, revision |-> 0, tasks |-> <<>>, inputs |-> {}, notes |-> 0,
   summary |-> FALSE, parent |-> [revision |-> 0, task |-> 0]]

\* sealed is the archived context that sourceRef names
Summaries ==
  [purpose : Purposes, cursor : Cursors, sealed : Seq(Frames), budget : Budgets,
   attempts : Nat, failed : BOOLEAN]
NoSummary == [purpose |-> "none"]

Tasks(f, state) == {i \in DOMAIN f.tasks : f.tasks[i] = state}
Unfinished(f)   == Tasks(f, "WAITING") \cup Tasks(f, "RUNNING") # {}
Executing(f)    == Tasks(f, "RUNNING") # {}

\* estimateContextTokens of a frame
Size(f) == Cardinality(f.inputs) + f.notes + (IF f.summary THEN 1 ELSE 0) + Len(f.tasks)
           + Cardinality(Tasks(f, "COMPLETED") \cup Tasks(f, "INTERRUPTED"))

level(c)      == Len(c.frames)
active(c)     == c.frames[level(c)]
cursor(c)     == [frame |-> active(c).id, revision |-> active(c).revision]
pending(c)    == c.pendingSummary # NoSummary
needsRun(c)   == c.runnable \/ pending(c)
withActive(c, f) == [c EXCEPT !.frames[level(c)] = f]

assertBudgets(c) ==
  \A i \in DOMAIN c.frames : /\ Size(c.frames[i]) <= c.budget.max
                             /\ Len(c.frames[i].tasks) <= c.budget.maxTasks

\* The checkpoint createAgentContextManager stores; the runtime starts idle.
Initial(budget) ==
  [frames |-> <<Root>>, pendingSummary |-> NoSummary, inbox |-> <<>>,
   runnable |-> FALSE, budget |-> budget, created |-> 1]

----------------------------------------------------------------------------
(* Summaries *)

SummaryAllowed(c, purpose) ==
  /\ ~pending(c)
  /\ purpose \in {"complete", "idle"} => ~Unfinished(active(c))
  /\ purpose \in {"complete", "interrupt"} => level(c) > 1
  /\ purpose = "idle" => level(c) = 1

scheduleSummary(c, purpose) ==
  [c EXCEPT !.pendingSummary =
       [purpose |-> purpose, cursor |-> cursor(c), sealed |-> c.frames,
        budget |-> c.budget, attempts |-> 0, failed |-> FALSE],
     !.runnable = TRUE]

\* A chain with nothing left to do is dropped and keeps its revision.
compactedFrame(f) ==
  [f EXCEPT !.tasks = IF Unfinished(f) THEN @ ELSE <<>>,
            !.inputs = {}, !.notes = 0, !.summary = TRUE]

\* summaryCapacity: a summary of one unit fits beside what compaction keeps
summaryCapacity(c) == Size(compactedFrame(active(c))) <= c.budget.target

\* The child hands its summary to the running task of its parent and is released.
returned(c) ==
  LET f == active(c)
      ended == IF c.pendingSummary.purpose = "complete" THEN "COMPLETED" ELSE "INTERRUPTED"
  IN [c EXCEPT !.frames = Front([@ EXCEPT ![level(c) - 1].tasks[f.parent.task] = ended])]

merged(c) ==
  IF c.pendingSummary.purpose \in {"compact", "idle"}
    THEN withActive(c, compactedFrame(active(c))) ELSE returned(c)

SummaryFits(c) ==
  /\ summaryCapacity(c)
  /\ c.pendingSummary.cursor = cursor(c)
  /\ c.pendingSummary.purpose \in {"complete", "interrupt"} =>
       LET f == active(c) p == c.frames[level(c) - 1]
       IN f.parent.revision = p.revision /\ f.parent.task \in Tasks(p, "RUNNING")
  /\ assertBudgets(merged(c))

\* Mutant of integrateSummary: the inbox is not looked at.
integrateForgetsInbox(c) ==
  [merged(c) EXCEPT !.pendingSummary = NoSummary,
                    !.runnable = c.pendingSummary.purpose # "idle"]

integrateSummary(c) ==
  [merged(c) EXCEPT !.pendingSummary = NoSummary,
                    !.runnable = c.pendingSummary.purpose # "idle" \/ c.inbox # <<>>]

----------------------------------------------------------------------------
(* The inbox.  A delivery is its key and the cursor it was issued under. *)

\* The elements of s that are in S, in order (filter).
Among(s, S) ==
  LET kept[i \in 0 .. Len(s)] ==
        IF i = 0 THEN <<>>
        ELSE IF s[i] \in S THEN Append(kept[i - 1], s[i]) ELSE kept[i - 1]
  IN kept[Len(s)]

receive(c, deliveries) ==
  IF deliveries = <<>> THEN c
  ELSE [c EXCEPT !.inbox = @ \o deliveries, !.runnable = TRUE]

\* Mutant of isTarget: a frame is known by its id alone.
isTargetById(f, d) == f.id = d.target.frame

isTarget(f, d) == f.id = d.target.frame /\ f.revision = d.target.revision

\* The level a delivery is for: its target, and the root without one or when
\* its target is gone.
addressee(c, d) ==
  LET found == {i \in DOMAIN c.frames : isTarget(c.frames[i], d)}
  IN IF found = {} THEN 1 ELSE CHOOSE i \in found : TRUE

stale(c, d) == d.target # NoCursor /\ \A i \in DOMAIN c.frames : ~isTarget(c.frames[i], d)

\* A stale input is reported to the root by reference.
absorbed(f, c, d) ==
  IF stale(c, d) THEN [f EXCEPT !.notes = @ + 1]
  ELSE [f EXCEPT !.inputs = @ \cup {d.key}]

\* Mutant of taken: the delivery stays in the inbox.
takenAndKept(c, d) == [withActive(c, absorbed(active(c), c, d)) EXCEPT !.runnable = TRUE]

taken(c, d) ==
  [withActive(c, absorbed(active(c), c, d)) EXCEPT
     !.inbox = Among(@, {e \in ToSet(@) : e.key # d.key}), !.runnable = TRUE]

\* One turn of the loop of drainInbox over m: the draft, the keys taken so far,
\* whether the loop has returned and whether it threw.
drainOne(m, d) ==
  LET c == m.draft
      f == absorbed(active(c), c, d)
  IN IF m.left \/ addressee(c, d) # level(c) THEN m
     ELSE IF Size(f) > c.budget.max
       THEN IF active(c).inputs = {} /\ active(c).notes = 0
              THEN [m EXCEPT !.left = TRUE, !.refused = TRUE]
              ELSE [m EXCEPT !.left = TRUE, !.draft = scheduleSummary(c, "compact")]
     ELSE LET t == taken(c, d)
              full == Size(f) >= c.budget.compactAt
          IN [m EXCEPT !.taken = Append(@, d), !.left = full,
                       !.draft = IF full THEN scheduleSummary(t, "compact") ELSE t]

\* The loop over the deliveries the inbox holds when it starts.
turns(c) ==
  LET turn[i \in 0 .. Len(c.inbox)] ==
        IF i = 0 THEN [draft |-> c, taken |-> <<>>, left |-> FALSE, refused |-> FALSE]
        ELSE drainOne(turn[i - 1], c.inbox[i])
  IN turn

drainInbox(c) ==
  LET m == turns(c)[Len(c.inbox)]
      d == m.draft
  IN IF ~m.left /\ Size(active(d)) >= d.budget.compactAt
       THEN [m EXCEPT !.draft = scheduleSummary(d, "compact")] ELSE m

\* prepare
prepare(c) ==
  IF pending(c) THEN [draft |-> c, taken |-> <<>>, left |-> TRUE, refused |-> FALSE]
  ELSE drainInbox(c)

----------------------------------------------------------------------------
(* Decisions of a work round *)

DecisionTypes ==
  {"plan", "replan", "advance", "step_completed", "interrupt", "complete",
   "compact", "idle", "finish_turn", "continue", "wait"}

\* What the work of the round added to the memory of the active frame.
noted(c, notes) == withActive(c, [active(c) EXCEPT !.notes = @ + notes])

planned(c, count) ==
  withActive(c, [active(c) EXCEPT !.revision = @ + 1,
                                  !.tasks = [i \in 1..count |-> "WAITING"]])

\* The child sees the memory its task rests on.
child(c, task) ==
  [active(c) EXCEPT !.id = c.created + 1, !.revision = 0, !.tasks = <<>>,
                    !.parent = [revision |-> active(c).revision, task |-> task]]

\* Mutant of advanced: a task of the third level gets a frame of its own too.
advancedDeeper(c) ==
  LET next == CHOOSE i \in Tasks(active(c), "WAITING") :
                \A j \in Tasks(active(c), "WAITING") : i <= j
      d == withActive(c, [active(c) EXCEPT !.tasks[next] = "RUNNING"])
  IN [d EXCEPT !.frames = Append(@, child(c, next)), !.created = @ + 1]

advanced(c) ==
  LET next == CHOOSE i \in Tasks(active(c), "WAITING") :
                \A j \in Tasks(active(c), "WAITING") : i <= j
      d == withActive(c, [active(c) EXCEPT !.tasks[next] = "RUNNING"])
  IN IF level(c) = 3 THEN d
     ELSE [d EXCEPT !.frames = Append(@, child(c, next)), !.created = @ + 1]

stepCompleted(c) ==
  withActive(c, [active(c) EXCEPT !.tasks =
    [i \in DOMAIN @ |-> IF @[i] = "RUNNING" THEN "COMPLETED" ELSE @[i]]])

DecisionAllowed(c, d) ==
  CASE d.type = "plan"           -> d.count <= c.budget.maxTasks /\ ~Unfinished(active(c))
    [] d.type = "replan"         -> d.count <= c.budget.maxTasks
    [] d.type = "advance"        -> ~Executing(active(c)) /\ Tasks(active(c), "WAITING") # {}
    [] d.type = "step_completed" -> level(c) = 3 /\ Executing(active(c))
    [] d.type = "finish_turn"    -> level(c) = 1 /\ ~Unfinished(active(c))
    [] d.type \in Purposes       -> SummaryAllowed(c, d.type)
    [] OTHER                     -> TRUE

applyDecision(c, d) ==
  LET e == [noted(c, d.notes) EXCEPT !.runnable = d.type \notin {"finish_turn", "wait"}]
  IN CASE d.type \in {"plan", "replan"} -> planned(e, d.count)
       [] d.type = "advance"            -> advanced(e)
       [] d.type = "step_completed"     -> stepCompleted(e)
       [] d.type \in Purposes           -> scheduleSummary(e, d.type)
       [] OTHER                         -> e

\* apply: what assertCursor, applyDecision and validateCheckpoint let pass
Applicable(c, from, d) ==
  /\ ~pending(c)
  /\ from = cursor(c)
  /\ DecisionAllowed(c, d)
  /\ assertBudgets(applyDecision(c, d))

----------------------------------------------------------------------------
(* Attempts and budgets *)

attempted(c) == [c EXCEPT !.pendingSummary.attempts = @ + 1]
failed(c)    == [c EXCEPT !.pendingSummary.failed = TRUE]
retried(c)   == [c EXCEPT !.pendingSummary.attempts = 0]

\* Mutant of configured: the summary stays sealed on the old budgets.
configuredUnsealed(c, budget) == [c EXCEPT !.budget = budget]

\* configureBudget: a pending summary is sealed again on the new budgets
configured(c, budget) ==
  [c EXCEPT !.budget = budget,
            !.pendingSummary = IF pending(c) THEN [@ EXCEPT !.budget = budget] ELSE @]

\* What restoreAgentContextManager demands of a stored checkpoint: the checks of
\* validateCheckpoint across frames, and the sealed source of a pending summary.
Restorable(c) ==
  /\ assertBudgets(c) /\ Len(c.inbox) <= maxInbox
  /\ \A i, j \in DOMAIN c.inbox : c.inbox[i].key = c.inbox[j].key => i = j
  /\ \A i \in DOMAIN c.frames :
       /\ Cardinality(Tasks(c.frames[i], "RUNNING")) <= 1
       /\ c.frames[i].revision > 0 \/ c.frames[i].tasks = <<>>
       /\ i > 1 => /\ c.frames[i].parent.revision = c.frames[i - 1].revision
                   /\ c.frames[i].parent.task \in Tasks(c.frames[i - 1], "RUNNING")
       /\ i < 3 /\ Executing(c.frames[i]) => i < level(c)
  /\ pending(c) =>
       LET p == c.pendingSummary IN
       /\ p.attempts <= maxSummaryAttempts /\ p.cursor = cursor(c) /\ c.runnable
       /\ SummaryAllowed([c EXCEPT !.pendingSummary = NoSummary], p.purpose)
       /\ p.sealed = c.frames /\ p.budget = c.budget
================================================================================

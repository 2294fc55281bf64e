------------------------------ MODULE MCAgentRound ------------------------------
(* Small instances of AgentRound for TLC. *)
EXTENDS AgentRoundProperties

CONSTANTS m1, o1, f1, w1

\* Feedback, failures and changes of budget meet a context with one frame and
\* plans of one task; the frames and plans of a deep context meet none.
Hectic ==
  [messages |-> {m1}, feedbacks |-> {f1}, count |-> 1,
   types |-> {"continue", "wait", "idle", "finish_turn"},
   frames |-> 1, revision |-> 1, retries |-> 1, faults |-> 1, resumes |-> 1]
Deep ==
  [messages |-> {m1, w1}, feedbacks |-> {}, count |-> 2,
   types |-> {"plan", "replan", "advance", "step_completed", "interrupt", "complete", "idle", "wait"},
   frames |-> 3, revision |-> 2, retries |-> 0, faults |-> 0, resumes |-> 0]
HecticOnly == 1 :> Hectic
HecticOrDeep == 1 :> Hectic @@ 2 :> Deep

\* A message and a note or two make a frame full.
SmallBudget == [max |-> 5, compactAt |-> 3, target |-> 2, maxTasks |-> 1]
TightBudget == [max |-> 4, compactAt |-> 2, target |-> 1, maxTasks |-> 1]
TwoBudgets  == {SmallBudget, TightBudget}

\* Plans of two tasks; one that is half done cannot be compacted.
DeepBudget  == [max |-> 7, compactAt |-> 5, target |-> 3, maxTasks |-> 2]
AllBudgets  == TwoBudgets \cup {DeepBudget}

AllInputs   == {m1, o1, f1, w1}
OneWake     == [f \in {f1} |-> w1]
================================================================================

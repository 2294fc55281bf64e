--------------------------- MODULE ConversationMemory ---------------------------
(***************************************************************************)
(* The summaries of conversations                                          *)
(* (src/agent-runtime/internal/memory-store.ts and memory-compactor.ts).   *)
(* A round of an agent may be lent, once for each batch, to summarise what *)
(* a conversation of the agent has beyond its summary.  The members share  *)
(* one summary, so that two agents may summarise the same messages; the    *)
(* first to commit wins.                                                   *)
(*                                                                         *)
(* Abstractions.  A summary is the sequence number it covers and its       *)
(* version.  Of the failures, those at the range that is covered now are   *)
(* counted, the only ones a plan looks at; the cool-down is over or not.   *)
(* What fits into a request is a number of messages.                       *)
(***************************************************************************)
EXTENDS Conversations

NewMemory ==
  [summary |-> [c \in Conversations |-> [covered |-> 0, version |-> 0, failures |-> 0]],
   borrowed |-> [a \in Agents |-> None]]

Unplanned == [kind |-> "none"]
Work      == [kind |-> "work"]

\* What the summary of conversation c does not cover, as much as is looked at.
range(m, s, c, limit) == firstOf(places(s, c, m.summary[c].covered), limit)

latest(s, c) == Max({0} \cup places(s, c, 0))

\* Conversations whose messages may be summarised now; w: the policy
compactable(m, s, w, a, cooled) ==
  {c \in Conversations :
     /\ a \in members[c]
     /\ m.summary[c].failures = 0 \/ (cooled /\ m.summary[c].failures < w.maxSummaryAttempts)
     /\ Cardinality(range(m, s, c, w.recentMessages)) >= w.compactAfter}

\* #plan: the latest of them first
plan(m, s, w, a, cooled) ==
  LET cs == compactable(m, s, w, a, cooled) IN
  IF ~active(s, a) \/ m.borrowed[a] = s.batch[a].upper \/ cs = {} THEN Work
  ELSE LET c   == CHOOSE c \in cs : \A d \in cs : latest(s, d) <= latest(s, c)
       IN [kind |-> "compact", conv |-> c, from |-> m.summary[c].covered,
           version |-> m.summary[c].version + 1,
           upto |-> Max(firstOf(range(m, s, c, w.recentMessages), w.fits))]

\* INSERT INTO memory_compact_batches: a batch lends one round
lent(m, s, a, p) ==
  IF p.kind = "compact" THEN [m EXCEPT !.borrowed[a] = s.batch[a].upper] ELSE m

\* Mutant of current: the plan is taken to be still valid.
unchecked(m, p) == TRUE

\* commitSummary: someone else may have covered the range meanwhile
current(m, p) == m.summary[p.conv].covered = p.from

\* The check before the summary is replaced.
ascends(m, p) ==
  p.upto > m.summary[p.conv].covered /\ p.version = m.summary[p.conv].version + 1

\* Mutant of commitSummary: what someone else committed meanwhile is overwritten.
commitBlindly(m, p) ==
  [m EXCEPT !.summary[p.conv] = [covered |-> p.upto, version |-> p.version, failures |-> 0]]

commitSummary(m, p) ==
  IF current(m, p)
  THEN [m EXCEPT !.summary[p.conv] = [covered |-> p.upto, version |-> p.version, failures |-> 0]]
  ELSE m

\* #recordFailure
recordFailure(m, p) ==
  IF current(m, p) THEN [m EXCEPT !.summary[p.conv].failures = @ + 1] ELSE m
================================================================================

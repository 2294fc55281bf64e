----------------------------- MODULE Conversations -----------------------------
(***************************************************************************)
(* The store of conversations of the agent runtime                         *)
(* (src/agent-runtime/internal/conversations.ts): the messages, the        *)
(* mailbox of every agent in every conversation, the batch an agent works  *)
(* on, the messages it was told to send, and the agents that were          *)
(* dismissed.  An operator is one transaction: it maps the stored value to *)
(* the next one.                                                           *)
(*                                                                         *)
(* Abstractions.  A message is its conversation, its sender, the agents it *)
(* addresses (by name or by a reply to them) and the phase it belongs to;  *)
(* its sequence number is its place in the log.  A phase is                *)
(* named by the message of the user that opened it.  The counter of a      *)
(* phase is the number of its automatic messages, which are stored in the  *)
(* same transaction.  Instants are left out: a mailbox is ripe when its    *)
(* due time has come.  Of the outbox, the entry of the round in progress   *)
(* is kept, the only one that is asked for.                                *)
(***************************************************************************)
EXTENDS Naturals, Sequences, FiniteSets, SequencesExt, FiniteSetsExt

CONSTANTS
  Agents, User,   \* those who take part
  members,        \* members[c]: who takes part in conversation c
  groups,         \* the group conversations; the others are direct
  mentionedOnly   \* the groups that wake only those a message addresses

Conversations == DOMAIN members

ASSUME ConversationAssumption ==
  /\ User \notin Agents
  /\ \A c \in Conversations : members[c] \subseteq Agents \cup {User}
  /\ \A c \in Conversations \ groups : Cardinality(members[c]) = 2
  /\ mentionedOnly \subseteq groups /\ groups \subseteq Conversations

\* No message, where a sequence number is asked for.
None    == 0
NoBatch == [conv |-> "none", upper |-> None, phase |-> None, status |-> "done"]
Empty   == [processed |-> 0, first |-> None, ripe |-> FALSE, priority |-> FALSE]

NewStore ==
  [log |-> <<>>, box |-> [a \in Agents |-> [c \in Conversations |-> Empty]],
   batch |-> [a \in Agents |-> NoBatch], outbox |-> [a \in Agents |-> None], gone |-> {}]

----------------------------------------------------------------------------
(* Sending *)

\* Message m wakes a member of its conversation other than its sender.
wakes(m, a) ==
  /\ a \in members[m.conv] \ {m.from}
  /\ m.conv \in mentionedOnly => a \in m.to

\* UPDATE chat_mailboxes: message i reaches mailbox b.  One that does not address
\* the agent leaves the due time of one that did; late: the longest wait is over.
arrive(b, i, addressed, late) ==
  [b EXCEPT !.first = IF @ = None THEN i ELSE @,
            !.ripe = @ /\ (late \/ (b.priority /\ ~addressed)),
            !.priority = @ \/ addressed]

automatic(s, phase) ==
  Cardinality({i \in DOMAIN s.log : s.log[i].phase = phase /\ s.log[i].from # User})

\* Mutant of refusal: the outbox is not consulted.
forgetful(s, m, maxAutomatic) ==
  IF m.from # User /\ automatic(s, m.phase) >= maxAutomatic THEN "loop" ELSE "new"

\* What the store answers to message m, in the order of its checks; for an agent
\* an outbox entry of the round in progress means it was sent before.
refusal(s, m, maxAutomatic) ==
  IF \/ m.from \in s.gone
     \/ m.conv \notin groups /\ members[m.conv] \cap s.gone # {}
     \/ m.from \notin members[m.conv]
     \/ \E a \in m.to : a \in s.gone \/ a \notin members[m.conv]
  THEN "permission"
  ELSE IF m.from # User /\ s.outbox[m.from] # None
  THEN IF s.log[s.outbox[m.from]] = m THEN "known" ELSE "internal"
  ELSE IF m.from # User /\ automatic(s, m.phase) >= maxAutomatic THEN "loop"
  ELSE "new"

\* The rest of the transaction of send, for a new message.
append(s, m, late) ==
  LET i == Len(s.log) + 1 IN
  [s EXCEPT !.log = Append(@, m),
            !.outbox = [a \in Agents |-> IF a = m.from THEN i ELSE @[a]],
            !.box = [a \in Agents |->
               IF a \in s.gone \/ ~wakes(m, a) THEN @[a]
               ELSE [s.box[a] EXCEPT ![m.conv] = arrive(@, i, a \in m.to, late)]]]

----------------------------------------------------------------------------
(* Batches *)

active(s, a) == s.batch[a] # NoBatch

\* The places after a sequence number that conversation c has in the log.
places(s, c, after) == {i \in DOMAIN s.log : s.log[i].conv = c /\ i > after}

\* The first n of some places.
firstOf(all, n) == {i \in all : Cardinality({j \in all : j <= i}) <= n}

ripe(s, a) == {c \in Conversations : s.box[a][c].first # None /\ s.box[a][c].ripe}

\* ORDER BY priority DESC, first_at
chosen(s, a) ==
  CHOOSE c \in ripe(s, a) : \A d \in ripe(s, a) :
    LET x == s.box[a][c]  y == s.box[a][d] IN
    \/ x.priority /\ ~y.priority
    \/ x.priority = y.priority /\ x.first <= y.first

\* seal, where no batch is active: the batch keeps what has arrived and fits, and
\* the mailbox begins to wait anew
seal(s, a, maxBatch) ==
  IF a \in s.gone \/ ripe(s, a) = {} THEN s
  ELSE LET c    == chosen(s, a)
           last == Max(firstOf(places(s, c, s.box[a][c].processed), maxBatch))
       IN [s EXCEPT !.batch[a] = [conv |-> c, upper |-> last, phase |-> s.log[last].phase,
                                  status |-> "queued"],
                    !.box[a][c] = [Empty EXCEPT !.processed = s.box[a][c].processed]]

delivered(s, a) ==
  IF s.batch[a].status = "queued" THEN [s EXCEPT !.batch[a].status = "delivered"] ELSE s

\* Mutant of acknowledge: what was cut off is left without a due time.
acknowledgeOnly(s, a) ==
  LET b == s.batch[a] IN
  [s EXCEPT !.batch[a] = NoBatch,
            !.box[a][b.conv].processed = IF @ > b.upper THEN @ ELSE b.upper]

\* The cursor moves to the end of the batch; what came later, or was cut off,
\* keeps a due time or gets one.
acknowledge(s, a) ==
  LET b     == s.batch[a]
      later == {i \in places(s, b.conv, b.upper) : wakes(s.log[i], a)}
      box   == [s.box[a][b.conv] EXCEPT !.processed = IF @ > b.upper THEN @ ELSE b.upper]
  IN IF ~active(s, a) THEN s
     ELSE [s EXCEPT !.batch[a] = NoBatch,
                    !.box[a][b.conv] =
                       IF later # {} /\ box.first = None
                       THEN [box EXCEPT !.first = Min(later), !.ripe = TRUE] ELSE box]

dismiss(s, a) ==
  [s EXCEPT !.gone = @ \cup {a}, !.batch[a] = NoBatch,
            !.box[a] = [c \in Conversations |-> [Empty EXCEPT !.processed = s.box[a][c].processed]]]
================================================================================

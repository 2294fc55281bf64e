------------------------- MODULE RuntimeHostProperties -------------------------
(* What the host of the agent runtime promises. *)
EXTENDS RuntimeHost

\* Message i is for agent a, who has not worked on it yet.
Unread(a, i) ==
  LET m == chat.log[i] IN wakes(m, a) /\ i > chat.box[a][m.conv].processed

\* No message is forgotten: what an agent has not worked on waits in a mailbox with a
\* due time, or is behind the batch in work, whose acknowledgement gives it one, even
\* if a batch cut it off or it came during the work; and nothing is skipped: the
\* cursor only passes messages that were given to the agent
\* (conversations.ts seal, acknowledge).
MailKept ==
  \A a \in Agents \ chat.gone, i \in DOMAIN chat.log :
    LET c == chat.log[i].conv IN
    /\ Unread(a, i) => chat.box[a][c].first # None \/ chat.batch[a].conv = c
    /\ wakes(chat.log[i], a) /\ ~Unread(a, i) => i \in hist.seen[a]

\* A round puts one message into the conversations at most, and every message of an
\* agent but that of its present round is recorded by a committed round: a death or an
\* abort between the sending and the commit repeats nothing (conversations.ts send with
\* the key of the round, runtime.ts #performWork).  Excepted is an agent whose host
\* threw away a reply that had been carried out (runtime.ts resume).
SentOnce ==
  \A a \in Agents \ hist.redone :
    Cardinality({i \in DOMAIN chat.log : chat.log[i].from = a})
      = hist.said[a] + (IF chat.outbox[a] = None THEN 0 ELSE 1)

\* A batch of mail gets at most maxRounds requests until the host allows more,
\* through retries, repaired replies, restarts and stops (work-budget.ts).
WithinAllocation == \A a \in Agents : hist.asked[a].n <= world.rounds

\* Summaries take in a conversation without gap or overlap, whoever writes them and
\* wherever the process dies (memory-store.ts commitSummary).
SummariesChain ==
  \A c \in Conversations :
    LET ch == hist.chain[c] IN
    /\ \A i \in DOMAIN ch : /\ ch[i].from = (IF i = 1 THEN 0 ELSE ch[i - 1].upto)
                            /\ ch[i].from < ch[i].upto
    /\ memory.summary[c].covered = (IF ch = <<>> THEN 0 ELSE Last(ch).upto)

\* Nothing agents and their host do to one another stops the process: no reply is
\* sent under the key of another one, no summary is committed out of turn, and no
\* batch reaches the context of another conversation (runtime.ts #failStop), as long as
\* the host asks for no reply again that was carried out.
NeverFatal == fatal => hist.redone # {}

\* An agent that was dismissed stays so; it says nothing more, and what it had not
\* worked on is never acknowledged (conversations.ts dismiss), though a job of it may
\* be in progress or the process restart.
DismissedIsFinal ==
  [][\A a \in Agents : agent[a].status = "dismissed" =>
       /\ agent'[a].status = "dismissed"
       /\ \A c \in Conversations : chat'.box[a][c] = chat.box[a][c]
       /\ \A i \in DOMAIN chat'.log \ DOMAIN chat.log : chat'.log[i].from # a]_vars

================================================================================

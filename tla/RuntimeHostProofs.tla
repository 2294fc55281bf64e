--------------------------- MODULE RuntimeHostProofs ---------------------------
(***************************************************************************)
(* Proofs about RuntimeHost: that no message is forgotten or sent twice,   *)
(* that a batch of mail keeps to its allocation of requests, that the      *)
(* summaries of a conversation join, that agents and host never stop the   *)
(* process, and that a dismissed agent stays dismissed.                    *)
(*                                                                         *)
(* Most actions change the store and the agents and then look at the mail  *)
(* of all agents (RefreshMail).  The invariant is therefore stated of any  *)
(* store, agents, memory and history (Good): an action makes good ones of  *)
(* good ones, and so does looking at the mail.                             *)
(***************************************************************************)
EXTENDS RuntimeHostProperties, QueueLemmas, FiniteSetTheorems

\* The provers that a leaf is given, in turn.
USE SMT, Zenon, SMTT(6), SMTT(7), SMTT(8)

----------------------------------------------------------------------------
(* Types *)

Messages == [conv : Conversations, from : Agents \cup {User}, to : SUBSET Agents, phase : Nat]
Boxes    == [processed : Nat, first : Nat, ripe : BOOLEAN, priority : BOOLEAN]
Batches  == [conv : Conversations, upper : Nat \ {0}, phase : Nat,
             status : {"queued", "delivered"}]
Stores   == [log : Seq(Messages), box : [Agents -> [Conversations -> Boxes]],
             batch : [Agents -> Batches \cup {NoBatch}], outbox : [Agents -> Nat],
             gone : SUBSET Agents]

Memories == [summary : [Conversations -> [covered : Nat, version : Nat, failures : Nat]],
             borrowed : [Agents -> Nat]]

Digests  == [kind : {"compact"}, conv : Conversations, from : Nat, version : Nat, upto : Nat]
Plans    == Digests \cup {Unplanned, Work}
Words    == UNION {w.words : w \in Worlds}
Replies  == Words \cup {NoReply, [kind |-> "digest"], [kind |-> "bad"]}
Faults   == {"none", "other", "retry", "network", "protocol", "internal", "budget", "loop",
             "permission", "abort"}
Rounds   == [plan : Plans, outcome : BOOLEAN, reply : Replies, marked : BOOLEAN,
             retries : Nat, fault : Faults]
Budgets  == [key : Nat, used : Nat, closed : BOOLEAN]
AgentRecords ==
  [status : {"active", "paused", "cancelled", "dismissed"}, conv : Conversations \cup {"none"},
   needs : BOOLEAN, sched : {"none", "ready", "running"}, susp : {"none", "retry", "stop"},
   pc : {"none", "taken", "received", "planned", "asked", "answered", "summed", "acting",
         "acted", "ending"},
   aborted : BOOLEAN, leaving : BOOLEAN, round : Rounds, budget : Budgets,
   last : Replies, repeated : Nat]

Ranges    == [from : Nat, upto : Nat]
Histories == [seen : [Agents -> SUBSET Nat], said : [Agents -> Nat],
              asked : [Agents -> [key : Nat, n : Nat]], chain : [Conversations -> Seq(Ranges)],
              redone : SUBSET Agents]

TypeOK ==
  /\ world \in Worlds /\ chat \in Stores /\ memory \in Memories
  /\ agent \in [Agents -> AgentRecords] /\ pump \in Agents \cup {User}
  /\ timer \in BOOLEAN /\ fatal \in BOOLEAN /\ hist \in Histories
  /\ env \in [crashes : Nat, stops : Nat, resumes : Nat]

----------------------------------------------------------------------------
(* The invariant, part by part; x is an agent, a its name *)

\* The mailboxes and the batch name messages that are there: a due time is that of a
\* message the cursor has not passed, and that came after the batch in work, which
\* goes beyond the cursor.
Fits(log, box, b) ==
  /\ \A c \in Conversations :
       /\ box[c].processed <= Len(log)
       /\ box[c].first # None => /\ box[c].first \in DOMAIN log
                                 /\ log[box[c].first].conv = c
                                 /\ box[c].first > box[c].processed
  /\ b # NoBatch => /\ b.upper <= Len(log) /\ b.upper > box[b.conv].processed
                    /\ box[b.conv].first # None => box[b.conv].first > b.upper

\* What wakes the agent and was not passed by the cursor has a due time or belongs to
\* the conversation of the batch; what was passed, or is in a batch that was
\* delivered, has been given to the agent.
Kept(log, box, b, seen, a) ==
  \A i \in DOMAIN log : wakes(log[i], a) =>
    /\ i > box[log[i].conv].processed =>
         box[log[i].conv].first # None \/ (b # NoBatch /\ b.conv = log[i].conv)
    /\ i <= box[log[i].conv].processed => i \in seen
    /\ b.status = "delivered" /\ b.conv = log[i].conv /\ i <= b.upper => i \in seen

\* The context is in the conversation of the batch.
Suits(x, b) == b # NoBatch => x.conv = b.conv

\* The requests of a batch are counted in its budget.
Allocated(x, k, w) ==
  /\ k.key = x.budget.key /\ k.n <= x.budget.used /\ x.budget.used <= w.rounds

\* A plan that is still current continues the summary as it is.
Ascends(me, p) ==
  p.kind = "compact" =>
    /\ p.from < p.upto /\ p.from <= me.summary[p.conv].covered
    /\ me.summary[p.conv].covered = p.from =>
         p.version = me.summary[p.conv].version + 1

AtWork == {"taken", "received", "planned", "asked", "answered", "summed", "acting", "acted"}

\* An agent with a job is running; what it asks for it has not got, and only a round
\* that was lent has an outcome.
Working(x) ==
  /\ x.pc \in AtWork => x.sched = "running"
  /\ x.pc = "asked" => x.round.reply = NoReply
  /\ x.pc = "summed" \/ x.round.outcome => x.round.plan.kind = "compact"

Speaks(r) == r.plan = Work /\ r.reply.kind = "send"

\* A round whose message was stored is not over, and one that is carried out has
\* stored its message.
Sending(x, o) ==
  /\ o # None => x.sched # "none"
  /\ x.pc = "acted" /\ Speaks(x.round) => o # None

\* The stored message of the round is the one its reply asks for.
Bound(ch, x, a) ==
  ch.outbox[a] # None =>
    /\ Speaks(x.round)
    /\ ch.outbox[a] \in DOMAIN ch.log
    /\ a \notin ch.gone =>
         ch.log[ch.outbox[a]] = [conv |-> x.round.reply.conv, from |-> a,
                                 to |-> x.round.reply.to, phase |-> ch.batch[a].phase]

SentBy(log, a) == {i \in DOMAIN log : log[i].from = a}

\* Every message of the agent is recorded by a round, or is that of the present one.
Counted(ch, n, a) ==
  Cardinality(SentBy(ch.log, a)) = n + (IF ch.outbox[a] = None THEN 0 ELSE 1)

\* The ranges join, and the summary covers them.
Joined(ch, s) ==
  /\ \A i \in DOMAIN ch : /\ ch[i].from = (IF i = 1 THEN 0 ELSE ch[i - 1].upto)
                          /\ ch[i].from < ch[i].upto
  /\ s.covered = (IF ch = <<>> THEN 0 ELSE ch[Len(ch)].upto)

GoodTypes(ch, ag, me, h) ==
  /\ ch \in Stores /\ ag \in [Agents -> AgentRecords]
  /\ me \in Memories /\ h \in Histories

GoodMail(ch, ag, h) ==
  \A a \in Agents :
    /\ Fits(ch.log, ch.box[a], ch.batch[a])
    /\ a \notin ch.gone => Kept(ch.log, ch.box[a], ch.batch[a], h.seen[a], a)
    /\ Suits(ag[a], ch.batch[a])
    /\ ag[a].status = "dismissed" => a \in ch.gone

GoodWork(ag, me, h, w) ==
  /\ \A a \in Agents : /\ Allocated(ag[a], h.asked[a], w)
                       /\ Ascends(me, ag[a].round.plan)
                       /\ Working(ag[a])
  /\ \A c \in Conversations : Joined(h.chain[c], me.summary[c])

GoodWords(ch, ag, h) ==
  \A a \in Agents : /\ Sending(ag[a], ch.outbox[a])
                    /\ a \notin h.redone => /\ Bound(ch, ag[a], a)
                                            /\ Counted(ch, h.said[a], a)

Good(ch, ag, me, h, w) ==
  /\ GoodTypes(ch, ag, me, h) /\ GoodMail(ch, ag, h)
  /\ GoodWork(ag, me, h, w) /\ GoodWords(ch, ag, h)

IInv == TypeOK /\ Good(chat, agent, memory, hist, world) /\ NeverFatal

----------------------------------------------------------------------------
(* The places of messages *)

\* The places are places of the log.
LEMMA Places ==
  ASSUME NEW ch \in Stores, NEW c, NEW k
  PROVE  /\ places(ch, c, k) \subseteq 1 .. Len(ch.log)
         /\ IsFiniteSet(places(ch, c, k))
  <1>1. places(ch, c, k) \subseteq 1 .. Len(ch.log)
    BY DEF places, Stores
  <1>2. IsFiniteSet(1 .. Len(ch.log))
    BY FS_Interval DEF Stores
  <1> QED BY <1>1, <1>2, FS_Subset

\* The first of some places are some of them, and the very first is one.
LEMMA FirstOf ==
  ASSUME NEW n \in Nat, NEW all \in SUBSET (1 .. n), NEW k \in Nat \ {0}, all # {}
  PROVE  firstOf(all, k) \subseteq all /\ firstOf(all, k) # {}
  <1>1. all \in SUBSET Nat
    <2>1. 1 .. n \subseteq Nat
      OBVIOUS
    <2> QED BY <2>1
  <1>2. PICK m \in Nat : m = Min(all) /\ m \in all /\ \A i \in all : m <= i
    BY <1>1, NatMin
  <1>3. {j \in all : j <= m} = {m}
    <2>1. ASSUME NEW j \in all, j <= m PROVE j = m
      <3>1. j \in Nat /\ m <= j
        BY <1>1, <1>2
      <3> QED BY <2>1, <3>1
    <2>2. m <= m
      BY <1>2
    <2> QED BY <1>2, <2>1, <2>2
  <1>4. Cardinality({m}) = 1
    BY FS_Singleton
  <1>5. m \in firstOf(all, k)
    BY <1>2, <1>3, <1>4 DEF firstOf
  <1> QED BY <1>5 DEF firstOf

\* The last of the first is one of them.
LEMMA LastOfFirst ==
  ASSUME NEW n \in Nat, NEW all \in SUBSET (1 .. n), NEW k \in Nat \ {0}, all # {}
  PROVE  Max(firstOf(all, k)) \in all
  <1>1. firstOf(all, k) \subseteq all /\ firstOf(all, k) # {}
    BY FirstOf
  <1>2. firstOf(all, k) \in SUBSET (0 .. n)
    <2>1. 1 .. n \subseteq 0 .. n
      OBVIOUS
    <2> QED BY <1>1, <2>1
  <1> QED BY <1>1, <1>2, NatMax

\* A ripe mailbox is chosen, if there is one.
LEMMA Chosen ==
  ASSUME NEW ch \in Stores, NEW a \in Agents, ripe(ch, a) # {}
  PROVE  chosen(ch, a) \in ripe(ch, a)
  <1> DEFINE B(c) == ch.box[a][c]
             Best(c) == \A d \in ripe(ch, a) : \/ B(c).priority /\ ~B(d).priority
                                               \/ /\ B(c).priority = B(d).priority
                                                  /\ B(c).first <= B(d).first
             P == {c \in ripe(ch, a) : B(c).priority}
             Q == IF P # {} THEN P ELSE ripe(ch, a)
             F == {B(c).first : c \in Q}
  <1>1. \A c \in ripe(ch, a) : B(c).first \in Nat /\ B(c).priority \in BOOLEAN
    BY DEF ripe, Stores, Boxes
  <1>2. Q \subseteq ripe(ch, a) /\ Q # {}
    OBVIOUS
  <1>3. F \in SUBSET Nat /\ F # {}
    BY <1>1, <1>2
  <1>4. Min(F) \in F /\ \A f \in F : Min(F) <= f
    BY <1>3, NatMin
  <1>5. PICK c \in Q : B(c).first = Min(F)
    BY <1>4
  <1>6. \A d \in Q : B(c).first <= B(d).first
    BY <1>4, <1>5
  <1>7. Best(c)
    <2>1. CASE P # {}
      <3>1. \A d \in ripe(ch, a) : d \in P <=> B(d).priority
        OBVIOUS
      <3>2. B(c).priority
        BY <2>1
      <3> QED BY <1>1, <1>6, <2>1, <3>1, <3>2, Zenon
    <2>2. CASE P = {}
      <3>1. \A d \in ripe(ch, a) : B(d).priority = FALSE
        BY <1>1, <2>2
      <3> QED BY <1>1, <1>2, <1>6, <2>2, <3>1, Zenon
    <2> QED BY <2>1, <2>2
  <1>8. chosen(ch, a) = CHOOSE d \in ripe(ch, a) : Best(d)
    BY DEF chosen
  <1>9. c \in ripe(ch, a)
    BY <1>2
  <1> HIDE DEF Best
  <1> QED BY <1>7, <1>8, <1>9

----------------------------------------------------------------------------
(* What the store makes of the mail of one agent *)

\* The mail of the agent is of its types and in order; seen: what it was given.
Orderly(ch, a, seen) ==
  /\ ch.box[a] \in [Conversations -> Boxes] /\ ch.batch[a] \in Batches \cup {NoBatch}
  /\ Fits(ch.log, ch.box[a], ch.batch[a])
  /\ a \notin ch.gone => Kept(ch.log, ch.box[a], ch.batch[a], seen, a)

\* The messages of a store are messages.
LEMMA Logged ==
  ASSUME NEW ch \in Stores
  PROVE  /\ Len(ch.log) \in Nat /\ DOMAIN ch.log = 1 .. Len(ch.log)
         /\ \A i \in DOMAIN ch.log : /\ i \in Nat \ {0} /\ ch.log[i] \in Messages
                                     /\ ch.log[i].conv \in Conversations
  <1>1. PICK log \in Seq(Messages) : log = ch.log
    BY DEF Stores
  <1>2. Len(log) \in Nat /\ DOMAIN log = 1 .. Len(log) /\ \A i \in 1 .. Len(log) : log[i] \in Messages
    OBVIOUS
  <1>3. \A m \in Messages : m.conv \in Conversations
    BY DEF Messages
  <1> QED BY <1>1, <1>2, <1>3

\* A new batch takes the due time of its mailbox with it.
LEMMA SealKeeps ==
  ASSUME NEW ch \in Stores, NEW a \in Agents, NEW seen, NEW n \in Nat \ {0},
         ch.batch[a] = NoBatch, Orderly(ch, a, seen)
  PROVE  /\ Orderly(seal(ch, a, n), a, seen)
         /\ seal(ch, a, n).log = ch.log /\ seal(ch, a, n).gone = ch.gone
  <1>1. CASE a \in ch.gone \/ ripe(ch, a) = {}
    BY <1>1 DEF seal
  <1>2. CASE ~(a \in ch.gone \/ ripe(ch, a) = {})
    <2>1. PICK c : c = chosen(ch, a)
      OBVIOUS
    <2>2. c \in ripe(ch, a)
      BY <1>2, <2>1, Chosen
    <2>3. PICK box : box = ch.box[a]
      OBVIOUS
    <2>4. c \in Conversations /\ box[c].first # None
      BY <2>2, <2>3 DEF ripe
    <2>5. PICK all : all = places(ch, c, box[c].processed)
      OBVIOUS
    <2>6. Len(ch.log) \in Nat /\ DOMAIN ch.log = 1 .. Len(ch.log)
      BY Logged
    <2>7. Fits(ch.log, box, NoBatch)
      BY <2>3 DEF Orderly
    <2>8. box[c].first \in all
      BY <2>4, <2>5, <2>7 DEF Fits, places
    <2>9. PICK last : last = Max(firstOf(all, n))
      OBVIOUS
    <2>10. all \in SUBSET (1 .. Len(ch.log))
      BY <2>5, Places
    <2>11. last \in all
      BY <2>6, <2>8, <2>9, <2>10, LastOfFirst
    <2>12. last \in 1 .. Len(ch.log) /\ last > box[c].processed
      BY <2>5, <2>10, <2>11 DEF places
    <2>13. ch.log[last] \in Messages
      BY <2>12 DEF Stores
    <2>14. PICK b : b = [conv |-> c, upper |-> last, phase |-> ch.log[last].phase,
                         status |-> "queued"]
      OBVIOUS
    <2>15. PICK nbox : nbox = [box EXCEPT ![c] = [Empty EXCEPT !.processed = box[c].processed]]
      OBVIOUS
    <2>16. PICK s : s = seal(ch, a, n)
      OBVIOUS
    <2>17. s = [ch EXCEPT !.batch[a] = b,
                   !.box[a][c] = [Empty EXCEPT !.processed = ch.box[a][c].processed]]
      BY <1>2, <2>1, <2>3, <2>5, <2>9, <2>14, <2>16 DEF seal
    <2>18. s.log = ch.log /\ s.gone = ch.gone /\ s.batch[a] = b /\ s.box[a] = nbox
      <3>1. ch.box[a] = box /\ DOMAIN ch.box = Agents /\ DOMAIN ch.batch = Agents
        BY <2>3 DEF Stores
      <3>2. DOMAIN ch = {"log", "box", "batch", "outbox", "gone"}
        BY DEF Stores
      <3> QED BY <2>15, <2>17, <3>1, <3>2
    <2>19. box \in [Conversations -> Boxes]
      BY <2>3 DEF Stores
    <2>20. b \in Batches /\ b # NoBatch /\ b.conv = c /\ b.upper = last /\ b.status = "queued"
      BY <2>4, <2>6, <2>12, <2>13, <2>14 DEF Batches, Messages, NoBatch
    <2>21. nbox[c].first = None /\ nbox[c].processed = box[c].processed
      BY <2>4, <2>15, <2>19 DEF Empty
    <2>22. nbox \in [Conversations -> Boxes]
      BY <2>4, <2>15, <2>19 DEF Boxes, Empty, None
    <2>23. \A d \in Conversations \ {c} : nbox[d] = box[d]
      BY <2>15, <2>19
    <2>24. Fits(ch.log, nbox, b)
      BY <2>6, <2>7, <2>12, <2>20, <2>21, <2>23 DEF Fits
    <2>25. ASSUME a \notin ch.gone PROVE Kept(ch.log, nbox, b, seen, a)
      <3>1. Kept(ch.log, box, NoBatch, seen, a)
        BY <2>3, <2>25 DEF Orderly
      <3>2. \A i \in DOMAIN ch.log : ch.log[i].conv \in Conversations
        BY Logged
      <3>3. \A i \in DOMAIN ch.log : nbox[ch.log[i].conv].processed = box[ch.log[i].conv].processed
        BY <2>21, <2>23, <3>2
      <3>4. \A i \in DOMAIN ch.log :
              ch.log[i].conv # c => nbox[ch.log[i].conv].first = box[ch.log[i].conv].first
        BY <2>23, <3>2
      <3> QED BY <2>20, <3>1, <3>3, <3>4 DEF Kept
    <2> QED BY <2>16, <2>18, <2>20, <2>22, <2>24, <2>25 DEF Orderly
  <1> QED BY <1>1, <1>2

\* The end of a batch leaves what came later with a due time.
LEMMA AcknowledgeKeeps ==
  ASSUME NEW ch \in Stores, NEW a \in Agents, NEW seen,
         ch.batch[a].status = "delivered", Orderly(ch, a, seen)
  PROVE  /\ acknowledge(ch, a) \in Stores /\ Orderly(acknowledge(ch, a), a, seen)
         /\ acknowledge(ch, a).batch[a] = NoBatch
         /\ acknowledge(ch, a).log = ch.log /\ acknowledge(ch, a).gone = ch.gone
  <1>1. PICK b : b = ch.batch[a]
    OBVIOUS
  <1>2. PICK box : box = ch.box[a]
    OBVIOUS
  <1>3. b \in Batches /\ b # NoBatch
    BY <1>1 DEF Orderly, NoBatch
  <1>4. box \in [Conversations -> Boxes]
    BY <1>2 DEF Orderly
  <1>5. PICK c : c = b.conv
    OBVIOUS
  <1>6. PICK u : u = b.upper
    OBVIOUS
  <1>7. c \in Conversations /\ u \in Nat \ {0}
    BY <1>3, <1>5, <1>6 DEF Batches
  <1>8. Len(ch.log) \in Nat /\ DOMAIN ch.log = 1 .. Len(ch.log)
    BY Logged
  <1>9. box[c] \in Boxes /\ box[c].processed \in Nat /\ box[c].first \in Nat
    BY <1>4, <1>7 DEF Boxes
  <1>10. PICK later : later = {i \in places(ch, c, u) : wakes(ch.log[i], a)}
    OBVIOUS
  <1>11. later \subseteq 1 .. Len(ch.log)
         /\ \A i \in later : ch.log[i].conv = c /\ i > u /\ wakes(ch.log[i], a)
    BY <1>10, Places DEF places
  <1>12. \A i \in DOMAIN ch.log : ch.log[i].conv = c /\ i > u /\ wakes(ch.log[i], a) => i \in later
    BY <1>10 DEF places
  <1>13. PICK p : p = IF box[c].processed > u THEN box[c].processed ELSE u
    OBVIOUS
  <1>14. p \in Nat /\ p >= u /\ p >= box[c].processed /\ (p = u \/ p = box[c].processed)
    BY <1>7, <1>9, <1>13
  <1>15. PICK x : x = [box[c] EXCEPT !.processed = p]
    OBVIOUS
  <1>16. x \in Boxes /\ x.processed = p /\ x.first = box[c].first
    BY <1>9, <1>14, <1>15 DEF Boxes
  <1>17. PICK y : y = IF later # {} /\ x.first = None
                      THEN [x EXCEPT !.first = Min(later), !.ripe = TRUE] ELSE x
    OBVIOUS
  <1>18. PICK s : s = acknowledge(ch, a)
    OBVIOUS
  <1>19. s = [ch EXCEPT !.batch[a] = NoBatch, !.box[a][c] = y]
    BY <1>1, <1>2, <1>3, <1>5, <1>6, <1>10, <1>13, <1>15, <1>17, <1>18 DEF acknowledge, active
  <1>20. PICK nbox : nbox = [box EXCEPT ![c] = y]
    OBVIOUS
  <1>21. s.log = ch.log /\ s.gone = ch.gone /\ s.batch[a] = NoBatch /\ s.box[a] = nbox
    <2>1. ch.box[a] = box /\ DOMAIN ch.box = Agents /\ DOMAIN ch.batch = Agents
      BY <1>2 DEF Stores
    <2>2. DOMAIN ch = {"log", "box", "batch", "outbox", "gone"}
      BY DEF Stores
    <2> QED BY <1>19, <1>20, <2>1, <2>2
  <1>22. later # {} => Min(later) \in later
    <2>1. later \in SUBSET Nat
      BY <1>8, <1>11
    <2> QED BY <2>1, NatMin
  <1>23. y \in Boxes /\ y.processed = p /\ (y.first = x.first \/ y.first \in later)
         /\ (later # {} => y.first # None) /\ (x.first # None => y.first = x.first)
    <2>1. CASE later # {} /\ x.first = None
      <3>1. Min(later) \in Nat \ {0}
        <4>1. Min(later) \in 1 .. Len(ch.log)
          BY <1>11, <1>22, <2>1
        <4> QED BY <1>8, <4>1
      <3> QED BY <1>16, <1>17, <1>22, <2>1, <3>1 DEF Boxes, None
    <2>2. CASE ~(later # {} /\ x.first = None)
      BY <1>16, <1>17, <2>2
    <2> QED BY <2>1, <2>2
  <1>24. nbox[c] = y /\ \A d \in Conversations \ {c} : nbox[d] = box[d]
    BY <1>4, <1>7, <1>20
  <1>25. nbox \in [Conversations -> Boxes]
    BY <1>4, <1>7, <1>20, <1>23
  <1>26. Fits(ch.log, box, b)
    BY <1>1, <1>2 DEF Orderly
  <1>27. u <= Len(ch.log) /\ (box[c].first # None => box[c].first > u)
         /\ box[c].processed <= Len(ch.log) /\ u > box[c].processed
         /\ (box[c].first # None => /\ box[c].first \in DOMAIN ch.log
                                    /\ ch.log[box[c].first].conv = c
                                    /\ box[c].first > box[c].processed)
    BY <1>3, <1>5, <1>6, <1>7, <1>26 DEF Fits
  <1>28. y.processed <= Len(ch.log)
         /\ (y.first # None => /\ y.first \in DOMAIN ch.log /\ ch.log[y.first].conv = c
                               /\ y.first > y.processed)
    <2>1. p <= Len(ch.log)
      BY <1>14, <1>27
    <2>2. CASE y.first \in later /\ box[c].first = None
      <3>1. y.first \in DOMAIN ch.log /\ ch.log[y.first].conv = c /\ y.first > u
        BY <1>8, <1>11, <2>2
      <3>2. y.first > p
        BY <1>7, <1>9, <1>13, <1>27, <3>1
      <3> QED BY <1>23, <2>1, <3>1, <3>2
    <2>3. CASE y.first = box[c].first
      BY <1>7, <1>8, <1>9, <1>14, <1>23, <1>27, <2>1, <2>3
    <2> QED BY <1>16, <1>23, <2>2, <2>3
  <1>29. Fits(ch.log, nbox, NoBatch)
    BY <1>24, <1>26, <1>28 DEF Fits
  <1>30. ASSUME a \notin ch.gone PROVE Kept(ch.log, nbox, NoBatch, seen, a)
    <2>1. Kept(ch.log, box, b, seen, a)
      BY <1>1, <1>2, <1>30 DEF Orderly
    <2>2. b.status = "delivered"
      BY <1>1
    <2> SUFFICES ASSUME NEW i \in DOMAIN ch.log, wakes(ch.log[i], a)
                 PROVE  /\ i > nbox[ch.log[i].conv].processed => nbox[ch.log[i].conv].first # None
                        /\ i <= nbox[ch.log[i].conv].processed => i \in seen
      BY DEF Kept, NoBatch
    <2>3. ch.log[i].conv \in Conversations /\ i \in Nat
      BY <1>8, Logged
    <2>4. CASE ch.log[i].conv # c
      BY <1>5, <1>24, <2>1, <2>3, <2>4 DEF Kept
    <2>5. CASE ch.log[i].conv = c
      <3>1. ASSUME i > p PROVE y.first # None
        <4>1. i > u
          BY <1>7, <1>14, <2>3, <3>1
        <4>2. i \in later
          BY <1>12, <2>5, <4>1
        <4> QED BY <1>23, <4>2
      <3>2. ASSUME i <= p PROVE i \in seen
        <4>1. i <= u \/ i <= box[c].processed
          BY <1>14, <3>2
        <4> QED BY <1>5, <1>6, <2>1, <2>2, <2>5, <4>1 DEF Kept
      <3> QED BY <1>23, <1>24, <2>5, <3>1, <3>2
    <2> QED BY <2>4, <2>5
  <1>31. s \in Stores
    <2>1. ch.box \in [Agents -> [Conversations -> Boxes]]
          /\ ch.batch \in [Agents -> Batches \cup {NoBatch}]
      BY DEF Stores
    <2>2. [ch.box EXCEPT ![a] = nbox] \in [Agents -> [Conversations -> Boxes]]
      BY <1>25, <2>1
    <2>3. [ch.batch EXCEPT ![a] = NoBatch] \in [Agents -> Batches \cup {NoBatch}]
      BY <2>1
    <2>4. s = [ch EXCEPT !.batch = [ch.batch EXCEPT ![a] = NoBatch],
                         !.box = [ch.box EXCEPT ![a] = nbox]]
      BY <1>2, <1>19, <1>20, <2>1
    <2> QED BY <2>2, <2>3, <2>4 DEF Stores
  <1> QED BY <1>18, <1>21, <1>25, <1>29, <1>30, <1>31 DEF Orderly

----------------------------------------------------------------------------
(* Looking at the mail *)

\* What may be stored as a reply, and what a message of a reply is made of.
LEMMA Answers ==
  /\ NoReply \in Replies /\ [kind |-> "digest"] \in Replies /\ [kind |-> "bad"] \in Replies
  /\ \A w \in Worlds : w.words \subseteq Replies
  /\ \A r \in Replies : r.kind = "send" => r.conv \in Conversations /\ r.to \subseteq Agents
  <1>1. \A r \in Words : \E w \in Worlds : r \in w.words
    BY DEF Words
  <1>2. \A w \in Worlds : w.words \subseteq Words
    BY DEF Words
  <1>3. \A r \in Words : r.kind = "send" => r.conv \in Conversations /\ r.to \subseteq Agents
    BY <1>1, WorldAssumption
  <1>4. /\ NoReply.kind # "send" /\ [kind |-> "digest"].kind # "send"
        /\ [kind |-> "bad"].kind # "send"
    BY DEF NoReply
  <1> QED BY <1>2, <1>3, <1>4 DEF Replies

\* What looking at the mail leaves of an agent: all but its conversation, that it has
\* something to do, how often it repeated itself, and whether its budget is closed.
Mailed(x, y) ==
  /\ y.status = x.status /\ y.needs = x.needs /\ y.susp = x.susp /\ y.pc = x.pc
  /\ y.aborted = x.aborted /\ y.leaving = x.leaving /\ y.round = x.round
  /\ y.budget.key = x.budget.key /\ y.budget.used = x.budget.used
  /\ y.sched \in {x.sched, "ready"}

\* The agent with a new batch is in its conversation.
LEMMA MailedKeeps ==
  ASSUME NEW ch \in Stores, NEW ag \in [Agents -> AgentRecords], NEW a \in Agents,
         NEW w \in Worlds, NEW seen, Orderly(ch, a, seen), Suits(ag[a], ch.batch[a])
  PROVE  LET s == sealed(ch, ag, a, w)
             y == mailed(ch, ag, a, w)
         IN /\ Orderly(s, a, seen) /\ s.log = ch.log /\ s.gone = ch.gone
            /\ y \in AgentRecords /\ Mailed(ag[a], y) /\ Suits(y, s.batch[a])
  <1>1. PICK x \in AgentRecords : x = ag[a]
    OBVIOUS
  <1>2. PICK c : c = acked(ch, ag, a)
    OBVIOUS
  <1>3. c \in Stores /\ Orderly(c, a, seen) /\ c.log = ch.log /\ c.gone = ch.gone
        /\ (c.batch[a] = ch.batch[a] \/ c.batch[a] = NoBatch)
    <2>1. CASE ch.batch[a].status = "delivered" /\ ~ag[a].needs
      BY <1>2, <2>1, AcknowledgeKeeps DEF acked
    <2>2. CASE ~(ch.batch[a].status = "delivered" /\ ~ag[a].needs)
      BY <1>2, <2>2 DEF acked
    <2> QED BY <2>1, <2>2
  <1>4. PICK s : s = sealed(ch, ag, a, w)
    OBVIOUS
  <1>5. PICK y : y = mailed(ch, ag, a, w)
    OBVIOUS
  <1>6. w.maxBatch \in Nat \ {0}
    BY WorldAssumption
  <1>7. CASE c.batch[a] # NoBatch \/ x.needs
    <2>1. s = c
      BY <1>1, <1>2, <1>4, <1>7 DEF sealed, active
    <2>2. c.batch[a] # NoBatch => c.batch[a].conv \in Conversations
      BY <1>3 DEF Orderly, Batches
    <2>3. y = IF x.needs \/ c.batch[a] = NoBatch THEN x
              ELSE [x EXCEPT !.conv = c.batch[a].conv, !.sched = "ready",
                             !.last = x.last, !.repeated = x.repeated]
      BY <1>1, <1>2, <1>4, <1>5, <1>7, <2>1 DEF mailed, active
    <2>4. y \in AgentRecords /\ Mailed(x, y)
      BY <2>2, <2>3 DEF Mailed, AgentRecords
    <2>5. Suits(y, c.batch[a])
      BY <1>1, <1>3, <2>3 DEF Suits, AgentRecords
    <2> QED BY <1>1, <1>3, <1>4, <1>5, <2>1, <2>4, <2>5
  <1>8. CASE c.batch[a] = NoBatch /\ ~x.needs
    <2>1. s = seal(c, a, w.maxBatch)
      BY <1>1, <1>2, <1>4, <1>8 DEF sealed, active
    <2>2. Orderly(s, a, seen) /\ s.log = ch.log /\ s.gone = ch.gone
      BY <1>3, <1>6, <1>8, <2>1, SealKeeps
    <2>3. PICK z : z = [x EXCEPT !.budget = finished(x.budget)]
      OBVIOUS
    <2>4. z \in AgentRecords /\ Mailed(x, z) /\ z.sched = x.sched
      BY <2>3 DEF AgentRecords, Budgets, finished, Mailed
    <2>5. y = IF s.batch[a] = NoBatch THEN z
              ELSE [z EXCEPT !.conv = s.batch[a].conv, !.sched = "ready",
                             !.last = NoReply, !.repeated = 0]
      BY <1>1, <1>2, <1>4, <1>5, <1>8, <2>3 DEF mailed, active
    <2>6. s.batch[a] # NoBatch => s.batch[a].conv \in Conversations
      BY <2>2 DEF Orderly, Batches
    <2>7. NoReply \in Replies
      BY Answers
    <2>8. y \in AgentRecords /\ Mailed(x, y)
      BY <2>4, <2>5, <2>6, <2>7, ZenonT(40) DEF Mailed, AgentRecords
    <2>9. Suits(y, s.batch[a])
      BY <2>4, <2>5 DEF Suits, AgentRecords
    <2> QED BY <1>1, <1>4, <1>5, <2>2, <2>8, <2>9
  <1> QED BY <1>7, <1>8

\* Looking at the mail changes the mail and what concerns it, of idle agents.
LEMMA Looking ==
  ASSUME NEW ch \in Stores, NEW ag \in [Agents -> AgentRecords], NEW w \in Worlds,
         RefreshMail(ch, ag, w)
  PROVE  /\ chat' = [log |-> ch.log, box |-> chat'.box, batch |-> chat'.batch,
                     outbox |-> ch.outbox, gone |-> ch.gone]
         /\ chat'.log = ch.log /\ chat'.outbox = ch.outbox /\ chat'.gone = ch.gone
         /\ DOMAIN agent' = Agents /\ DOMAIN chat'.box = Agents /\ DOMAIN chat'.batch = Agents
         /\ agent' = [a \in Agents |-> agent'[a]]
         /\ chat'.box = [a \in Agents |-> chat'.box[a]]
         /\ chat'.batch = [a \in Agents |-> chat'.batch[a]]
         /\ \A a \in idle(ag) : /\ chat'.box[a] = sealed(ch, ag, a, w).box[a]
                                /\ chat'.batch[a] = sealed(ch, ag, a, w).batch[a]
                                /\ agent'[a] = mailed(ch, ag, a, w)
         /\ \A a \in Agents \ idle(ag) : /\ chat'.box[a] = ch.box[a]
                                         /\ chat'.batch[a] = ch.batch[a]
                                         /\ agent'[a] = ag[a]
         /\ idle(ag) \subseteq Agents
         /\ timer' \in BOOLEAN
  <1>1. PICK n : n = chat'
    OBVIOUS
  <1>2. PICK bat : bat = [a \in Agents |-> IF a \in idle(ag) THEN sealed(ch, ag, a, w).batch[a]
                                           ELSE ch.batch[a]]
    OBVIOUS
  <1>3. PICK box : box = [a \in Agents |-> IF a \in idle(ag) THEN sealed(ch, ag, a, w).box[a]
                                           ELSE ch.box[a]]
    OBVIOUS
  <1>4. n = [ch EXCEPT !.batch = bat, !.box = box]
    BY <1>1, <1>2, <1>3 DEF RefreshMail, mailOf
  <1>5. ch = [log |-> ch.log, box |-> ch.box, batch |-> ch.batch, outbox |-> ch.outbox,
              gone |-> ch.gone]
    BY DEF Stores
  <1>6. n = [log |-> ch.log, box |-> box, batch |-> bat, outbox |-> ch.outbox, gone |-> ch.gone]
    BY <1>4, <1>5
  <1>7. n.log = ch.log /\ n.box = box /\ n.batch = bat /\ n.outbox = ch.outbox /\ n.gone = ch.gone
    BY <1>6
  <1>8. idle(ag) \subseteq Agents
    BY DEF idle
  <1>9. agent' = [a \in Agents |-> IF a \in idle(ag) THEN mailed(ch, ag, a, w) ELSE ag[a]]
    BY DEF RefreshMail
  <1>10. timer' \in BOOLEAN
    BY DEF RefreshMail
  <1> QED BY <1>1, <1>2, <1>3, <1>6, <1>7, <1>8, <1>9, <1>10

\* Looking at the mail makes a good state of a good one.
LEMMA LookingIsGood ==
  ASSUME NEW ch, NEW ag, NEW me, NEW h, NEW w \in Worlds,
         Good(ch, ag, me, h, w), RefreshMail(ch, ag, w)
  PROVE  /\ Good(chat', agent', me, h, w)
         /\ timer' \in BOOLEAN
         /\ chat'.log = ch.log /\ chat'.gone = ch.gone
         /\ \A a \in Agents : agent'[a].status = ag[a].status
         /\ \A a \in Agents \ idle(ag) : chat'.box[a] = ch.box[a]
  <1>1. ch \in Stores /\ ag \in [Agents -> AgentRecords] /\ me \in Memories /\ h \in Histories
    BY DEF Good, GoodTypes
  <1> DEFINE n == chat'
             y == agent'
  <1>2. /\ n.log = ch.log /\ n.outbox = ch.outbox /\ n.gone = ch.gone
        /\ n = [log |-> ch.log, box |-> n.box, batch |-> n.batch, outbox |-> ch.outbox,
                gone |-> ch.gone]
        /\ y = [a \in Agents |-> y[a]]
        /\ n.box = [a \in Agents |-> n.box[a]] /\ n.batch = [a \in Agents |-> n.batch[a]]
        /\ timer' \in BOOLEAN
    BY <1>1, Looking
  <1>3. ASSUME NEW a \in Agents
        PROVE  /\ Orderly(n, a, h.seen[a]) /\ Suits(y[a], n.batch[a])
               /\ y[a] \in AgentRecords /\ Mailed(ag[a], y[a])
               /\ a \notin idle(ag) => /\ y[a] = ag[a] /\ n.box[a] = ch.box[a]
                                       /\ n.batch[a] = ch.batch[a]
    <2>1. Orderly(ch, a, h.seen[a]) /\ Suits(ag[a], ch.batch[a])
      BY <1>1 DEF Good, GoodMail, Orderly, Stores
    <2>2. CASE a \in idle(ag)
      <3>1. PICK s : s = sealed(ch, ag, a, w)
        OBVIOUS
      <3>2. /\ Orderly(s, a, h.seen[a]) /\ s.log = ch.log /\ s.gone = ch.gone
            /\ mailed(ch, ag, a, w) \in AgentRecords /\ Mailed(ag[a], mailed(ch, ag, a, w))
            /\ Suits(mailed(ch, ag, a, w), s.batch[a])
        BY <1>1, <2>1, <3>1, MailedKeeps
      <3>3. n.box[a] = s.box[a] /\ n.batch[a] = s.batch[a] /\ y[a] = mailed(ch, ag, a, w)
        BY <1>1, <2>2, <3>1, Looking
      <3> HIDE DEF n, y
      <3>4. Orderly(n, a, h.seen[a])
        BY <1>2, <3>2, <3>3 DEF Orderly
      <3> QED BY <2>2, <3>2, <3>3, <3>4
    <2>3. CASE a \notin idle(ag)
      <3>1. y[a] = ag[a] /\ n.box[a] = ch.box[a] /\ n.batch[a] = ch.batch[a]
        <4>1. a \in Agents \ idle(ag)
          BY <2>3
        <4> QED BY <1>1, <4>1, Looking, ZenonT(40)
      <3>2. ag[a] \in AgentRecords /\ Mailed(ag[a], ag[a])
        BY <1>1 DEF Mailed
      <3> HIDE DEF n, y
      <3>3. Orderly(n, a, h.seen[a])
        BY <1>2, <2>1, <3>1 DEF Orderly
      <3> QED BY <2>1, <3>1, <3>2, <3>3
    <2> QED BY <2>2, <2>3
  <1> HIDE DEF n, y
  <1>4. GoodTypes(n, y, me, h)
    <2>1. y \in [Agents -> AgentRecords]
      BY <1>2, <1>3
    <2>2. n.box \in [Agents -> [Conversations -> Boxes]]
          /\ n.batch \in [Agents -> Batches \cup {NoBatch}]
      BY <1>2, <1>3 DEF Orderly
    <2>3. ch.log \in Seq(Messages) /\ ch.outbox \in [Agents -> Nat] /\ ch.gone \in SUBSET Agents
      BY <1>1 DEF Stores
    <2>4. n \in Stores
      BY <1>2, <2>2, <2>3 DEF Stores
    <2> QED BY <1>1, <2>1, <2>4 DEF GoodTypes
  <1>5. GoodMail(n, y, h)
    <2> SUFFICES ASSUME NEW a \in Agents
                 PROVE  /\ Fits(n.log, n.box[a], n.batch[a])
                        /\ a \notin n.gone => Kept(n.log, n.box[a], n.batch[a], h.seen[a], a)
                        /\ Suits(y[a], n.batch[a])
                        /\ y[a].status = "dismissed" => a \in n.gone
      BY DEF GoodMail
    <2>1. Orderly(n, a, h.seen[a]) /\ Suits(y[a], n.batch[a]) /\ Mailed(ag[a], y[a])
      BY <1>3
    <2>2. ag[a].status = "dismissed" => a \in ch.gone
      BY DEF Good, GoodMail
    <2> QED BY <1>2, <2>1, <2>2 DEF Orderly, Mailed
  <1>6. GoodWork(y, me, h, w)
    <2>1. ASSUME NEW a \in Agents
          PROVE  /\ Allocated(y[a], h.asked[a], w) /\ Ascends(me, y[a].round.plan)
                 /\ Working(y[a])
      <3>1. Allocated(ag[a], h.asked[a], w) /\ Ascends(me, ag[a].round.plan) /\ Working(ag[a])
        BY DEF Good, GoodWork
      <3>2. Mailed(ag[a], y[a])
        BY <1>3
      <3>3. Allocated(y[a], h.asked[a], w) /\ Ascends(me, y[a].round.plan)
        BY <3>1, <3>2 DEF Mailed, Allocated
      <3>4. CASE a \in idle(ag)
        BY <3>1, <3>2, <3>3, <3>4 DEF idle, Mailed, Working, AtWork
      <3>5. CASE a \notin idle(ag)
        BY <1>3, <3>1, <3>5
      <3> QED BY <3>3, <3>4, <3>5
    <2> QED BY <2>1 DEF Good, GoodWork
  <1>7. GoodWords(n, y, h)
    <2> SUFFICES ASSUME NEW a \in Agents
                 PROVE  /\ Sending(y[a], n.outbox[a])
                        /\ a \notin h.redone => Bound(n, y[a], a) /\ Counted(n, h.said[a], a)
      BY DEF GoodWords
    <2>1. /\ Sending(ag[a], ch.outbox[a])
          /\ a \notin h.redone => Bound(ch, ag[a], a) /\ Counted(ch, h.said[a], a)
      BY DEF Good, GoodWords
    <2>2. Mailed(ag[a], y[a])
      BY <1>3
    <2>3. Sending(y[a], n.outbox[a])
      <3>1. CASE a \in idle(ag)
        BY <1>2, <2>1, <2>2, <3>1 DEF idle, Sending, Mailed
      <3>2. CASE a \notin idle(ag)
        BY <1>2, <1>3, <2>1, <3>2
      <3> QED BY <3>1, <3>2
    <2>4. ch.outbox[a] # None => a \notin idle(ag)
      BY <2>1 DEF idle, Sending
    <2>5. ASSUME a \notin h.redone PROVE Bound(n, y[a], a) /\ Counted(n, h.said[a], a)
      <3>1. Counted(n, h.said[a], a)
        BY <1>2, <2>1, <2>5 DEF Counted
      <3>2. ASSUME n.outbox[a] # None
            PROVE  y[a] = ag[a] /\ n.batch[a] = ch.batch[a]
        BY <1>2, <1>3, <2>4, <3>2
      <3>3. Bound(n, y[a], a)
        BY <1>2, <2>1, <2>5, <3>2 DEF Bound
      <3> QED BY <3>1, <3>3
    <2> QED BY <2>3, <2>5
  <1> QED BY <1>2, <1>3, <1>4, <1>5, <1>6, <1>7 DEF Good, Mailed, n, y

----------------------------------------------------------------------------
(* Changing an agent *)

\* An agent that fits in.
Welcome(ch, me, h, w, x, y, a) ==
  /\ y.conv = x.conv
  /\ y.status = "dismissed" => x.status = "dismissed" \/ a \in ch.gone
  /\ Allocated(y, h.asked[a], w) /\ Ascends(me, y.round.plan) /\ Working(y)
  /\ Sending(y, ch.outbox[a])
  /\ a \notin h.redone => Bound(ch, y, a)

\* Agents that fit in make a good state of a good one.
LEMMA WelcomeIsGood ==
  ASSUME NEW ch, NEW ag, NEW me, NEW h, NEW w, Good(ch, ag, me, h, w),
         NEW ag2 \in [Agents -> AgentRecords],
         \A a \in Agents : ag2[a] = ag[a] \/ Welcome(ch, me, h, w, ag[a], ag2[a], a)
  PROVE  Good(ch, ag2, me, h, w)
  <1>1. GoodTypes(ch, ag2, me, h)
    BY DEF Good, GoodTypes
  <1>2. GoodMail(ch, ag2, h)
    BY DEF Good, GoodMail, Welcome, Suits
  <1>3. GoodWork(ag2, me, h, w)
    BY DEF Good, GoodWork, Welcome
  <1>4. GoodWords(ch, ag2, h)
    BY DEF Good, GoodWords, Welcome
  <1> QED BY <1>1, <1>2, <1>3, <1>4 DEF Good

\* The same for one agent.
LEMMA OneIsGood ==
  ASSUME NEW ch, NEW ag, NEW me, NEW h, NEW w, Good(ch, ag, me, h, w),
         NEW a \in Agents, NEW y \in AgentRecords, Welcome(ch, me, h, w, ag[a], y, a)
  PROVE  Good(ch, [ag EXCEPT ![a] = y], me, h, w)
  <1>1. ag \in [Agents -> AgentRecords]
    BY DEF Good, GoodTypes
  <1>2. PICK ag2 : ag2 = [ag EXCEPT ![a] = y]
    OBVIOUS
  <1>3. ag2 \in [Agents -> AgentRecords] /\ ag2[a] = y /\ \A b \in Agents \ {a} : ag2[b] = ag[b]
    BY <1>1, <1>2
  <1>4. \A b \in Agents : ag2[b] = ag[b] \/ Welcome(ch, me, h, w, ag[b], ag2[b], b)
    BY <1>3
  <1>5. Good(ch, ag2, me, h, w)
    BY <1>3, <1>4, WelcomeIsGood
  <1> QED BY <1>2, <1>5

\* Changes that touch neither the plan, the reply and the outcome of a round nor what
\* is spent for it, and that neither end a round nor carry out its message.
Quiet(x, y) ==
  /\ y.conv = x.conv /\ (y.status = "dismissed" => x.status = "dismissed")
  /\ y.budget.key = x.budget.key /\ y.budget.used = x.budget.used
  /\ y.round.plan = x.round.plan /\ y.round.reply = x.round.reply
  /\ y.round.outcome = x.round.outcome
  /\ x.sched # "none" => y.sched # "none"
  /\ y.pc = "acted" => x.pc = "acted" \/ ~Speaks(x.round)
  /\ Working(y)

\* An agent that changes quietly fits in.
LEMMA QuietIsWelcome ==
  ASSUME NEW ch, NEW ag, NEW me, NEW h, NEW w, Good(ch, ag, me, h, w),
         NEW a \in Agents, NEW y \in AgentRecords, Quiet(ag[a], y)
  PROVE  Welcome(ch, me, h, w, ag[a], y, a)
  <1>1. PICK x : x = ag[a]
    OBVIOUS
  <1>2. Allocated(x, h.asked[a], w) /\ Ascends(me, x.round.plan)
    BY <1>1 DEF Good, GoodWork
  <1>3. Sending(x, ch.outbox[a]) /\ (a \notin h.redone => Bound(ch, x, a))
    BY <1>1 DEF Good, GoodWords
  <1>4. Allocated(y, h.asked[a], w) /\ Ascends(me, y.round.plan)
    BY <1>1, <1>2 DEF Quiet, Allocated
  <1>5. Speaks(y.round) = Speaks(x.round)
    BY <1>1 DEF Quiet, Speaks
  <1>6. Sending(y, ch.outbox[a])
    BY <1>1, <1>3, <1>5 DEF Quiet, Sending
  <1>7. a \notin h.redone => Bound(ch, y, a)
    BY <1>1, <1>3, <1>5 DEF Quiet, Bound
  <1> QED BY <1>1, <1>4, <1>6, <1>7 DEF Quiet, Welcome

\* A quiet change of one agent makes a good state of a good one.
LEMMA QuietIsGood ==
  ASSUME NEW ch, NEW ag, NEW me, NEW h, NEW w, Good(ch, ag, me, h, w),
         NEW a \in Agents, NEW y \in AgentRecords, Quiet(ag[a], y)
  PROVE  Good(ch, [ag EXCEPT ![a] = y], me, h, w)
  BY QuietIsWelcome, OneIsGood

\* A failure suspends the agent; only a reply that says nothing is archived.
LEMMA FailedIsGood ==
  ASSUME NEW ch, NEW ag, NEW me, NEW h, NEW w, Good(ch, ag, me, h, w),
         NEW a \in Agents, NEW x \in AgentRecords, Quiet(ag[a], x), NEW kind \in Faults,
         kind = "protocol" => ~Speaks(x.round)
  PROVE  Good(ch, [ag EXCEPT ![a] = failed(x, kind)], me, h, w)
  <1>1. PICK y : y = failed(x, kind)
    OBVIOUS
  <1>2. x.round \in Rounds /\ x.round.retries \in Nat /\ x.round.retries + 1 \in Nat
    BY DEF AgentRecords, Rounds
  <1>3. PICK r : r = [x.round EXCEPT !.retries = @ + 1]
    OBVIOUS
  <1>4. r \in Rounds /\ r.plan = x.round.plan /\ r.reply = x.round.reply
        /\ r.outcome = x.round.outcome
    BY <1>2, <1>3 DEF Rounds
  <1>5. Welcome(ch, me, h, w, ag[a], x, a)
    BY QuietIsWelcome
  <1>6. CASE kind = "protocol" /\ x.status = "active" /\ retried(kind, r.retries)
    <2>1. NoReply \in Replies /\ ~(NoReply.kind = "send")
      BY Answers DEF NoReply
    <2>2. PICK q : q = [repaired(r) EXCEPT !.fault = "retry"]
      OBVIOUS
    <2>3. q \in Rounds /\ q.plan = r.plan /\ q.reply = NoReply /\ q.outcome = r.outcome
      BY <1>4, <2>1, <2>2 DEF repaired, Rounds, Faults
    <2>4. y = [x EXCEPT !.sched = "ready", !.susp = "retry", !.pc = "ending", !.round = q]
      BY <1>1, <1>3, <1>6, <2>2 DEF failed
    <2>5. /\ y \in AgentRecords /\ y.conv = x.conv /\ y.status = x.status
          /\ y.budget = x.budget /\ y.sched = "ready" /\ y.pc = "ending" /\ y.round = q
      BY <2>3, <2>4 DEF AgentRecords
    <2>6. ~Speaks(q)
      BY <2>1, <2>3 DEF Speaks
    <2>7. Allocated(y, h.asked[a], w) /\ Ascends(me, y.round.plan) /\ Working(y)
      BY <1>4, <1>5, <2>3, <2>5 DEF Welcome, Allocated, Working, AtWork
    <2>8. a \notin h.redone => ch.outbox[a] = None
      BY <1>5, <1>6 DEF Welcome, Bound
    <2>9. Sending(y, ch.outbox[a]) /\ (a \notin h.redone => Bound(ch, y, a))
      BY <2>5, <2>8 DEF Sending, Bound
    <2>10. Welcome(ch, me, h, w, ag[a], y, a)
      BY <1>5, <2>5, <2>7, <2>9 DEF Welcome
    <2> QED BY <1>1, <2>5, <2>10, OneIsGood
  <1>7. CASE ~(kind = "protocol" /\ x.status = "active" /\ retried(kind, r.retries))
    <2>1. PICK q : q = IF x.status # "active" THEN x.round
                       ELSE IF retried(kind, r.retries) THEN [r EXCEPT !.fault = "retry"]
                       ELSE [r EXCEPT !.fault = kind]
      OBVIOUS
    <2>2. q \in Rounds /\ q.plan = x.round.plan /\ q.reply = x.round.reply
          /\ q.outcome = x.round.outcome
      BY <1>2, <1>4, <2>1 DEF Rounds, Faults
    <2>3. \E s \in {"retry", "stop"}, t \in {x.status, "paused"} :
             y = [x EXCEPT !.sched = "ready", !.susp = s, !.pc = "ending", !.status = t,
                           !.round = q]
      <3>1. x = [x EXCEPT !.round = x.round, !.status = x.status]
        BY DEF AgentRecords
      <3>2. CASE x.status # "active"
        <4>1. y = [x EXCEPT !.sched = "ready", !.susp = "stop", !.pc = "ending"]
          BY <1>1, <3>2 DEF failed
        <4>2. y = [x EXCEPT !.sched = "ready", !.susp = "stop", !.pc = "ending",
                            !.status = x.status, !.round = q]
          BY <2>1, <3>2, <4>1 DEF AgentRecords
        <4> QED BY <4>2
      <3>3. CASE x.status = "active" /\ retried(kind, r.retries)
        <4>1. y = [x EXCEPT !.sched = "ready", !.susp = "retry", !.pc = "ending", !.round = q]
          BY <1>1, <1>3, <1>7, <2>1, <3>3 DEF failed
        <4>2. y = [x EXCEPT !.sched = "ready", !.susp = "retry", !.pc = "ending",
                            !.status = x.status, !.round = q]
          BY <4>1 DEF AgentRecords
        <4> QED BY <4>2
      <3>4. CASE x.status = "active" /\ ~retried(kind, r.retries)
        <4>1. y = [x EXCEPT !.sched = "ready", !.susp = "stop", !.pc = "ending",
                            !.status = "paused", !.round = q]
          BY <1>1, <1>3, <2>1, <3>4 DEF failed
        <4> QED BY <4>1
      <3> QED BY <3>2, <3>3, <3>4
    <2>4. /\ y \in AgentRecords /\ y.conv = x.conv /\ y.status \in {x.status, "paused"}
          /\ y.budget = x.budget /\ y.sched = "ready" /\ y.pc = "ending" /\ y.round = q
      <3>1. PICK s \in {"retry", "stop"}, t \in {x.status, "paused"} :
              y = [x EXCEPT !.sched = "ready", !.susp = s, !.pc = "ending", !.status = t,
                            !.round = q]
        BY <2>3
      <3>2. t \in {"active", "paused", "cancelled", "dismissed"}
        BY <3>1 DEF AgentRecords
      <3> QED BY <2>2, <3>1, <3>2 DEF AgentRecords
    <2>5. Quiet(ag[a], y)
      BY <2>2, <2>4 DEF Quiet, Working, AtWork
    <2> QED BY <1>1, <2>4, <2>5, QuietIsGood
  <1> QED BY <1>6, <1>7

----------------------------------------------------------------------------
(* Changing the store *)

\* A store whose mail is in order makes a good state of a good one, if it keeps the
\* messages and the phases of the batches in work.
LEMMA StoreIsGood ==
  ASSUME NEW ch, NEW ag, NEW me, NEW h, NEW w, Good(ch, ag, me, h, w),
         NEW ch2 \in Stores, ch2.log = ch.log, ch2.outbox = ch.outbox, ch.gone \subseteq ch2.gone,
         NEW h2 \in Histories, h2.said = h.said, h2.asked = h.asked, h2.chain = h.chain,
         h2.redone = h.redone,
         \A a \in Agents : /\ Orderly(ch2, a, h2.seen[a]) /\ Suits(ag[a], ch2.batch[a])
                           /\ a \notin ch2.gone => ch2.batch[a].phase = ch.batch[a].phase
  PROVE  Good(ch2, ag, me, h2, w)
  <1>1. GoodTypes(ch2, ag, me, h2)
    BY DEF Good, GoodTypes
  <1>2. GoodMail(ch2, ag, h2)
    BY DEF Good, GoodMail, Orderly
  <1>3. GoodWork(ag, me, h2, w)
    BY DEF Good, GoodWork
  <1>4. GoodWords(ch2, ag, h2)
    <2> SUFFICES ASSUME NEW a \in Agents
                 PROVE  /\ Sending(ag[a], ch2.outbox[a])
                        /\ a \notin h2.redone => /\ Bound(ch2, ag[a], a)
                                                 /\ Counted(ch2, h2.said[a], a)
      BY DEF GoodWords
    <2>1. Sending(ag[a], ch.outbox[a])
          /\ (a \notin h.redone => Bound(ch, ag[a], a) /\ Counted(ch, h.said[a], a))
      BY DEF Good, GoodWords
    <2>2. a \notin h.redone => Counted(ch2, h2.said[a], a)
      BY <2>1 DEF Counted
    <2>3. a \notin ch2.gone => a \notin ch.gone /\ ch2.batch[a].phase = ch.batch[a].phase
      OBVIOUS
    <2>4. a \notin h.redone => Bound(ch2, ag[a], a)
      BY <2>1, <2>3 DEF Bound
    <2> QED BY <2>1, <2>2, <2>4
  <1> QED BY <1>1, <1>2, <1>3, <1>4 DEF Good

\* The mail of a good state is in order.
LEMMA GoodIsOrderly ==
  ASSUME NEW ch, NEW ag, NEW me, NEW h, NEW w, Good(ch, ag, me, h, w), NEW a \in Agents
  PROVE  Orderly(ch, a, h.seen[a]) /\ Suits(ag[a], ch.batch[a])
  BY DEF Good, GoodTypes, GoodMail, Orderly, Stores

\* The longest wait of a mailbox is over.
LEMMA LapsedIsGood ==
  ASSUME NEW ch, NEW ag, NEW me, NEW h, NEW w, Good(ch, ag, me, h, w),
         NEW a \in Agents, NEW c \in Conversations
  PROVE  Good([ch EXCEPT !.box[a][c].ripe = TRUE], ag, me, h, w)
  <1>1. ch \in Stores /\ h \in Histories
    BY DEF Good, GoodTypes
  <1>2. PICK x : x = [ch.box[a][c] EXCEPT !.ripe = TRUE]
    OBVIOUS
  <1>3. ch.box \in [Agents -> [Conversations -> Boxes]]
    BY <1>1 DEF Stores
  <1>4. x \in Boxes /\ x.first = ch.box[a][c].first /\ x.processed = ch.box[a][c].processed
    <2>1. PICK z \in Boxes : z = ch.box[a][c]
      BY <1>3
    <2>2. x = [z EXCEPT !.ripe = TRUE]
      BY <1>2, <2>1
    <2> QED BY <2>1, <2>2 DEF Boxes
  <1>5. PICK nbox : nbox = [ch.box[a] EXCEPT ![c] = x]
    OBVIOUS
  <1>6. nbox \in [Conversations -> Boxes] /\ nbox[c] = x
        /\ \A d \in Conversations \ {c} : nbox[d] = ch.box[a][d]
    BY <1>3, <1>4, <1>5
  <1>7. \A d \in Conversations : /\ nbox[d].first = ch.box[a][d].first
                                 /\ nbox[d].processed = ch.box[a][d].processed
    BY <1>4, <1>6
  <1>8. PICK box : box = [ch.box EXCEPT ![a] = nbox]
    OBVIOUS
  <1>9. box \in [Agents -> [Conversations -> Boxes]] /\ box[a] = nbox
        /\ \A b \in Agents \ {a} : box[b] = ch.box[b]
    BY <1>3, <1>6, <1>8
  <1>10. PICK ch2 : ch2 = [ch EXCEPT !.box[a][c].ripe = TRUE]
    OBVIOUS
  <1>11. ch2 = [ch EXCEPT !.box = box]
    BY <1>2, <1>3, <1>5, <1>8, <1>10
  <1>12. /\ ch2 \in Stores /\ ch2.log = ch.log /\ ch2.outbox = ch.outbox /\ ch2.gone = ch.gone
         /\ ch2.batch = ch.batch /\ ch2.box = box
    BY <1>1, <1>9, <1>11 DEF Stores
  <1>13. ASSUME NEW b \in Agents PROVE Orderly(ch2, b, h.seen[b]) /\ Suits(ag[b], ch2.batch[b])
    <2>1. Orderly(ch, b, h.seen[b]) /\ Suits(ag[b], ch.batch[b])
      BY GoodIsOrderly
    <2>2. CASE b # a
      BY <1>9, <1>12, <2>1, <2>2 DEF Orderly
    <2>3. CASE b = a
      <3>1. ch.batch[a] # NoBatch => ch.batch[a].conv \in Conversations
        BY <1>1 DEF Stores, Batches
      <3>2. Fits(ch.log, nbox, ch.batch[a])
        BY <1>7, <2>1, <2>3, <3>1 DEF Orderly, Fits
      <3>3. a \notin ch.gone => Kept(ch.log, nbox, ch.batch[a], h.seen[a], a)
        BY <1>1, <1>7, <2>1, <2>3, Logged DEF Orderly, Kept
      <3> QED BY <1>6, <1>9, <1>12, <2>1, <2>3, <3>2, <3>3 DEF Orderly
    <2> QED BY <2>2, <2>3
  <1>14. Good(ch2, ag, me, h, w)
    BY <1>1, <1>12, <1>13, StoreIsGood
  <1> QED BY <1>10, <1>14

\* The agent is given the messages of its batch.
LEMMA DeliveredIsGood ==
  ASSUME NEW ch, NEW ag, NEW me, NEW h, NEW w, Good(ch, ag, me, h, w), NEW a \in Agents,
         NEW S \in SUBSET Nat,
         \A i \in DOMAIN ch.log :
           /\ ch.log[i].conv = ch.batch[a].conv /\ i <= ch.batch[a].upper
           /\ i > ch.box[a][ch.batch[a].conv].processed
           => i \in S
  PROVE  Good(delivered(ch, a), ag, me, [h EXCEPT !.seen[a] = @ \cup S], w)
  <1>1. ch \in Stores /\ h \in Histories
    BY DEF Good, GoodTypes
  <1>2. PICK h2 : h2 = [h EXCEPT !.seen[a] = @ \cup S]
    OBVIOUS
  <1>3. h.seen \in [Agents -> SUBSET Nat]
    BY <1>1 DEF Histories
  <1>4. PICK sn : sn = [h.seen EXCEPT ![a] = @ \cup S]
    OBVIOUS
  <1>5. sn \in [Agents -> SUBSET Nat] /\ sn[a] = h.seen[a] \cup S
        /\ \A b \in Agents \ {a} : sn[b] = h.seen[b]
    BY <1>3, <1>4
  <1>6. h2 = [h EXCEPT !.seen = sn]
    BY <1>1, <1>2, <1>4
  <1>7. /\ h2 \in Histories /\ h2.seen = sn /\ h2.said = h.said /\ h2.asked = h.asked
        /\ h2.chain = h.chain /\ h2.redone = h.redone
    BY <1>1, <1>5, <1>6 DEF Histories
  <1>8. PICK ch2 : ch2 = delivered(ch, a)
    OBVIOUS
  <1>9. PICK b : b = IF ch.batch[a].status = "queued"
                     THEN [ch.batch[a] EXCEPT !.status = "delivered"] ELSE ch.batch[a]
    OBVIOUS
  <1>10. ch.batch \in [Agents -> Batches \cup {NoBatch}]
    BY <1>1 DEF Stores
  <1>11. /\ b \in Batches \cup {NoBatch} /\ b.conv = ch.batch[a].conv /\ b.upper = ch.batch[a].upper
         /\ b.phase = ch.batch[a].phase /\ (b = NoBatch <=> ch.batch[a] = NoBatch)
         /\ b.status = "delivered" => b \in Batches
    BY <1>9, <1>10 DEF Batches, NoBatch
  <1>12. PICK bat : bat = [ch.batch EXCEPT ![a] = b]
    OBVIOUS
  <1>13. bat \in [Agents -> Batches \cup {NoBatch}] /\ bat[a] = b
         /\ \A d \in Agents \ {a} : bat[d] = ch.batch[d]
    BY <1>10, <1>11, <1>12
  <1>14. ch2 = [ch EXCEPT !.batch = bat]
    <2>1. CASE ch.batch[a].status = "queued"
      BY <1>1, <1>8, <1>9, <1>10, <1>12, <2>1 DEF delivered
    <2>2. CASE ch.batch[a].status # "queued"
      <3>1. bat = ch.batch
        BY <1>9, <1>10, <1>12, <2>2
      <3> QED BY <1>1, <1>8, <2>2, <3>1 DEF delivered, Stores
    <2> QED BY <2>1, <2>2
  <1>15. /\ ch2 \in Stores /\ ch2.log = ch.log /\ ch2.outbox = ch.outbox /\ ch2.gone = ch.gone
         /\ ch2.batch = bat /\ ch2.box = ch.box
    BY <1>1, <1>13, <1>14 DEF Stores
  <1>16. ASSUME NEW d \in Agents
         PROVE  /\ Orderly(ch2, d, h2.seen[d]) /\ Suits(ag[d], ch2.batch[d])
                /\ ch2.batch[d].phase = ch.batch[d].phase
    <2>1. Orderly(ch, d, h.seen[d]) /\ Suits(ag[d], ch.batch[d])
      BY GoodIsOrderly
    <2>2. CASE d # a
      BY <1>5, <1>7, <1>13, <1>15, <2>1, <2>2 DEF Orderly
    <2>3. CASE d = a
      <3>1. Fits(ch.log, ch.box[a], b)
        BY <1>11, <2>1, <2>3 DEF Orderly, Fits
      <3>2. ASSUME a \notin ch.gone PROVE Kept(ch.log, ch.box[a], b, sn[a], a)
        <4>1. Kept(ch.log, ch.box[a], ch.batch[a], h.seen[a], a)
          BY <2>1, <2>3, <3>2 DEF Orderly
        <4>2. ASSUME NEW i \in DOMAIN ch.log, wakes(ch.log[i], a), b.status = "delivered",
                     b.conv = ch.log[i].conv, i <= b.upper
              PROVE  i \in sn[a]
          <5>1. i \in Nat /\ ch.log[i].conv \in Conversations
            BY <1>1, Logged
          <5>2. ch.box[a][b.conv].processed \in Nat
            BY <1>1, <4>2, <5>1 DEF Stores, Boxes
          <5>3. CASE i > ch.box[a][b.conv].processed
            BY <1>5, <1>11, <4>2, <5>3
          <5>4. CASE i <= ch.box[a][b.conv].processed
            BY <1>5, <4>1, <4>2, <5>4 DEF Kept
          <5> QED BY <5>1, <5>2, <5>3, <5>4
        <4> QED BY <1>5, <1>11, <4>1, <4>2 DEF Kept
      <3>3. Suits(ag[a], b)
        BY <1>11, <2>1, <2>3 DEF Suits
      <3> QED BY <1>7, <1>11, <1>13, <1>15, <2>1, <2>3, <3>1, <3>2, <3>3 DEF Orderly
    <2> QED BY <2>2, <2>3
  <1>17. Good(ch2, ag, me, h2, w)
    BY <1>7, <1>15, <1>16, StoreIsGood
  <1> QED BY <1>2, <1>8, <1>17

----------------------------------------------------------------------------
(* Plans, summaries and accounts *)

\* A plan continues the summary with messages that are there.
LEMMA Planned ==
  ASSUME NEW ch \in Stores, NEW me \in Memories, NEW w \in Worlds, NEW a, NEW cooled
  PROVE  plan(me, ch, w, a, cooled) \in Plans /\ Ascends(me, plan(me, ch, w, a, cooled))
  <1>1. PICK cs : cs = compactable(me, ch, w, a, cooled)
    OBVIOUS
  <1>2. PICK p : p = plan(me, ch, w, a, cooled)
    OBVIOUS
  <1>3. CASE ~active(ch, a) \/ me.borrowed[a] = ch.batch[a].upper \/ cs = {}
    <2>1. p = Work
      BY <1>1, <1>2, <1>3 DEF plan
    <2> QED BY <1>2, <2>1 DEF Plans, Ascends, Work
  <1>4. CASE ~(~active(ch, a) \/ me.borrowed[a] = ch.batch[a].upper \/ cs = {})
    <2>1. PICK c : c = CHOOSE d \in cs : \A e \in cs : latest(ch, e) <= latest(ch, d)
      OBVIOUS
    <2> DEFINE L == {latest(ch, d) : d \in cs}
    <2>2. Len(ch.log) \in Nat
      BY Logged
    <2>3. \A d \in cs : latest(ch, d) \in 0 .. Len(ch.log)
      <3> SUFFICES ASSUME NEW d \in cs PROVE latest(ch, d) \in 0 .. Len(ch.log)
        OBVIOUS
      <3>1. PICK S : S = {0} \cup places(ch, d, 0)
        OBVIOUS
      <3>2. S \in SUBSET (0 .. Len(ch.log)) /\ S # {}
        <4>1. 1 .. Len(ch.log) \subseteq 0 .. Len(ch.log) /\ 0 \in 0 .. Len(ch.log)
          BY <2>2
        <4> QED BY <3>1, <4>1, Places
      <3>3. Max(S) \in S
        BY <2>2, <3>2, NatMax
      <3> QED BY <3>1, <3>2, <3>3 DEF latest
    <2>4. L \in SUBSET (0 .. Len(ch.log)) /\ L # {}
      BY <1>4, <2>3
    <2>5. Max(L) \in L /\ \A i \in L : i <= Max(L)
      BY <2>2, <2>4, NatMax
    <2>6. PICK d \in cs : latest(ch, d) = Max(L)
      BY <2>5
    <2>7. \A e \in cs : latest(ch, e) <= latest(ch, d)
      BY <2>5, <2>6
    <2>8. c \in cs
      BY <2>1, <2>7
    <2>9. PICK r : r = range(me, ch, c, w.recentMessages)
      OBVIOUS
    <2>10. c \in Conversations /\ Cardinality(r) >= w.compactAfter
      BY <1>1, <2>8, <2>9 DEF compactable
    <2>11. w.compactAfter \in Nat \ {0} /\ w.fits \in Nat \ {0}
      BY WorldAssumption
    <2>12. r # {}
      BY <2>10, <2>11, FS_EmptySet
    <2>13. PICK v \in [covered : Nat, version : Nat, failures : Nat] : v = me.summary[c]
      BY <2>10 DEF Memories
    <2>14. r \subseteq places(ch, c, v.covered)
      BY <2>9, <2>13 DEF range, firstOf
    <2>15. r \in SUBSET (1 .. Len(ch.log))
      BY <2>14, Places
    <2>16. PICK u : u = Max(firstOf(r, w.fits))
      OBVIOUS
    <2>17. u \in r
      BY <2>2, <2>11, <2>12, <2>15, <2>16, LastOfFirst
    <2>18. u \in Nat /\ u > v.covered
      <3>1. u \in 1 .. Len(ch.log)
        BY <2>15, <2>17
      <3> QED BY <2>2, <2>14, <2>17, <3>1 DEF places
    <2>19. p = [kind |-> "compact", conv |-> c, from |-> v.covered, version |-> v.version + 1,
                upto |-> u]
      BY <1>1, <1>2, <1>4, <2>1, <2>9, <2>13, <2>16 DEF plan
    <2>20. p \in Digests
      BY <2>10, <2>13, <2>18, <2>19 DEF Digests
    <2>21. Ascends(me, p)
      BY <2>13, <2>18, <2>19 DEF Ascends
    <2> QED BY <1>2, <2>20, <2>21 DEF Plans
  <1> QED BY <1>3, <1>4

\* A memory that covers the same makes a good state of a good one.
LEMMA MemoryIsGood ==
  ASSUME NEW ch, NEW ag, NEW me, NEW h, NEW w, Good(ch, ag, me, h, w), NEW me2 \in Memories,
         \A c \in Conversations : /\ me2.summary[c].covered = me.summary[c].covered
                                  /\ me2.summary[c].version = me.summary[c].version
  PROVE  Good(ch, ag, me2, h, w)
  <1>1. GoodTypes(ch, ag, me2, h)
    BY DEF Good, GoodTypes
  <1>2. \A a \in Agents : Ascends(me2, ag[a].round.plan)
    <2> SUFFICES ASSUME NEW a \in Agents PROVE Ascends(me2, ag[a].round.plan)
      OBVIOUS
    <2>1. Ascends(me, ag[a].round.plan)
      BY DEF Good, GoodWork
    <2>2. ag[a].round.plan \in Plans
      BY DEF Good, GoodTypes, AgentRecords, Rounds
    <2>3. ag[a].round.plan.kind = "compact" => ag[a].round.plan.conv \in Conversations
      BY <2>2 DEF Plans, Digests, Unplanned, Work
    <2> QED BY <2>1, <2>3 DEF Ascends
  <1>3. \A c \in Conversations : Joined(h.chain[c], me2.summary[c])
    BY DEF Good, GoodWork, Joined
  <1>4. GoodWork(ag, me2, h, w)
    BY <1>2, <1>3 DEF Good, GoodWork
  <1> QED BY <1>1, <1>4 DEF Good

\* What one agent does to its account.
LEMMA AccountIsGood ==
  ASSUME NEW ch, NEW ag, NEW me, NEW h, NEW w, Good(ch, ag, me, h, w),
         NEW a \in Agents, NEW y \in AgentRecords, NEW h2 \in Histories,
         h2.seen = h.seen, h2.said = h.said, h2.chain = h.chain,
         \A b \in Agents \ {a} : h2.asked[b] = h.asked[b],
         h.redone \subseteq h2.redone, h2.redone \subseteq h.redone \cup {a},
         Welcome(ch, me, h2, w, ag[a], y, a)
  PROVE  Good(ch, [ag EXCEPT ![a] = y], me, h2, w)
  <1>1. ag \in [Agents -> AgentRecords]
    BY DEF Good, GoodTypes
  <1>2. PICK ag2 : ag2 = [ag EXCEPT ![a] = y]
    OBVIOUS
  <1>3. ag2 \in [Agents -> AgentRecords] /\ ag2[a] = y /\ \A b \in Agents \ {a} : ag2[b] = ag[b]
    BY <1>1, <1>2
  <1>4. GoodTypes(ch, ag2, me, h2)
    BY <1>3 DEF Good, GoodTypes
  <1>5. GoodMail(ch, ag2, h2)
    BY <1>3 DEF Good, GoodMail, Welcome, Suits
  <1>6. GoodWork(ag2, me, h2, w)
    BY <1>3 DEF Good, GoodWork, Welcome
  <1>7. GoodWords(ch, ag2, h2)
    BY <1>3 DEF Good, GoodWords, Welcome
  <1> QED BY <1>2, <1>4, <1>5, <1>6, <1>7 DEF Good

\* A summary that is committed continues the chain, and outdates the other plans.
LEMMA SummedIsGood ==
  ASSUME NEW ch, NEW ag, NEW me, NEW h, NEW w, Good(ch, ag, me, h, w), NEW p \in Digests,
         Ascends(me, p), current(me, p)
  PROVE  Good(ch, ag, commitSummary(me, p),
              [h EXCEPT !.chain[p.conv] = Append(@, [from |-> p.from, upto |-> p.upto])], w)
  <1>1. PICK c \in Conversations : c = p.conv
    BY DEF Digests
  <1>2. p.kind = "compact" /\ p.from \in Nat /\ p.upto \in Nat /\ p.version \in Nat
    BY DEF Digests
  <1>3. me \in Memories /\ h \in Histories
    BY DEF Good, GoodTypes
  <1>4. me.summary[c].covered = p.from /\ p.from < p.upto
    BY <1>1, <1>2 DEF current, Ascends
  <1>5. PICK v : v = [covered |-> p.upto, version |-> p.version, failures |-> 0]
    OBVIOUS
  <1>6. PICK me2 : me2 = commitSummary(me, p)
    OBVIOUS
  <1>7. me2 = [me EXCEPT !.summary[c] = v]
    BY <1>1, <1>5, <1>6 DEF commitSummary
  <1>8. me2 \in Memories /\ me2.summary[c] = v
        /\ \A d \in Conversations \ {c} : me2.summary[d] = me.summary[d]
    BY <1>2, <1>3, <1>5, <1>7 DEF Memories
  <1>9. PICK g : g = [from |-> p.from, upto |-> p.upto]
    OBVIOUS
  <1>10. g \in Ranges /\ g.from = p.from /\ g.upto = p.upto
    BY <1>2, <1>9 DEF Ranges
  <1>11. PICK q \in Seq(Ranges) : q = h.chain[c]
    BY <1>3 DEF Histories
  <1>12. PICK h2 : h2 = [h EXCEPT !.chain[p.conv] = Append(@, [from |-> p.from, upto |-> p.upto])]
    OBVIOUS
  <1>13. PICK q2 : q2 = Append(q, g)
    OBVIOUS
  <1>14. /\ q2 \in Seq(Ranges) /\ Len(q2) = Len(q) + 1 /\ q2[Len(q) + 1] = g
         /\ \A i \in 1 .. Len(q) : q2[i] = q[i]
    BY <1>10, <1>13
  <1>15. h2 = [h EXCEPT !.chain[c] = q2]
    BY <1>1, <1>9, <1>11, <1>12, <1>13
  <1>16. /\ h2 \in Histories /\ h2.seen = h.seen /\ h2.said = h.said /\ h2.asked = h.asked
         /\ h2.redone = h.redone /\ h2.chain[c] = q2
         /\ \A d \in Conversations \ {c} : h2.chain[d] = h.chain[d]
    BY <1>3, <1>14, <1>15 DEF Histories
  <1>17. Joined(q2, v)
    <2>1. Joined(q, me.summary[c])
      BY <1>11 DEF Good, GoodWork
    <2>2. Len(q) \in Nat /\ DOMAIN q = 1 .. Len(q) /\ DOMAIN q2 = 1 .. Len(q) + 1
      BY <1>14
    <2>3. ASSUME NEW i \in 1 .. Len(q)
          PROVE  /\ q2[i].from = (IF i = 1 THEN 0 ELSE q2[i - 1].upto)
                 /\ q2[i].from < q2[i].upto
      <3>1. q2[i] = q[i] /\ (i # 1 => i - 1 \in 1 .. Len(q) /\ q2[i - 1] = q[i - 1])
        BY <1>14, <2>2
      <3> QED BY <2>1, <2>2, <3>1 DEF Joined
    <2>4. g.from = (IF Len(q) + 1 = 1 THEN 0 ELSE q2[Len(q)].upto)
      <3>1. g.from = (IF q = <<>> THEN 0 ELSE q[Len(q)].upto)
        BY <1>4, <1>10, <2>1 DEF Joined
      <3>2. CASE q = <<>>
        BY <3>1, <3>2
      <3>3. CASE q # <<>>
        <4>1. Len(q) \in 1 .. Len(q)
          BY <3>3
        <4> QED BY <1>14, <2>2, <3>1, <3>3, <4>1
      <3> QED BY <3>2, <3>3
    <2>5. q2[Len(q) + 1].from = (IF Len(q) + 1 = 1 THEN 0 ELSE q2[Len(q) + 1 - 1].upto)
      BY <1>14, <2>2, <2>4
    <2>6. ASSUME NEW i \in DOMAIN q2
          PROVE  /\ q2[i].from = (IF i = 1 THEN 0 ELSE q2[i - 1].upto)
                 /\ q2[i].from < q2[i].upto
      <3>1. CASE i \in 1 .. Len(q)
        BY <2>3, <3>1
      <3>2. CASE i = Len(q) + 1
        BY <1>4, <1>10, <1>14, <2>5, <3>2
      <3> QED BY <2>2, <3>1, <3>2
    <2>7. q2 # <<>> /\ q2[Len(q2)].upto = p.upto
      BY <1>10, <1>14, <2>2
    <2> QED BY <1>5, <2>6, <2>7 DEF Joined
  <1>18. \A d \in Conversations : Joined(h2.chain[d], me2.summary[d])
    <2> SUFFICES ASSUME NEW d \in Conversations PROVE Joined(h2.chain[d], me2.summary[d])
      OBVIOUS
    <2>1. Joined(h.chain[d], me.summary[d])
      BY DEF Good, GoodWork
    <2> QED BY <1>8, <1>16, <1>17, <2>1
  <1>19. ASSUME NEW a \in Agents PROVE Ascends(me2, ag[a].round.plan)
    <2>1. PICK q1 \in Plans : q1 = ag[a].round.plan
      BY DEF Good, GoodTypes, AgentRecords, Rounds
    <2>2. Ascends(me, q1)
      BY <2>1 DEF Good, GoodWork
    <2>3. q1.kind = "compact" => q1 \in Digests
      BY <2>1 DEF Plans, Unplanned, Work
    <2>4. q1.kind = "compact" => /\ q1.conv \in Conversations /\ q1.from \in Nat
                                 /\ q1.upto \in Nat
      BY <2>3 DEF Digests
    <2>5. CASE q1.kind = "compact" /\ q1.conv = c
      <3>1. q1.from < q1.upto /\ q1.from <= p.from
        BY <1>4, <2>2, <2>5 DEF Ascends
      <3>2. q1.from < p.upto /\ me2.summary[c].covered = p.upto
        BY <1>2, <1>4, <1>5, <1>8, <2>4, <2>5, <3>1
      <3>3. q1.from <= me2.summary[c].covered /\ me2.summary[c].covered # q1.from
        BY <1>2, <2>4, <2>5, <3>2
      <3> QED BY <2>1, <2>5, <3>1, <3>3 DEF Ascends
    <2>6. CASE q1.kind = "compact" /\ q1.conv # c
      BY <1>8, <2>1, <2>2, <2>4, <2>6 DEF Ascends
    <2>7. CASE q1.kind # "compact"
      BY <2>1, <2>7 DEF Ascends
    <2> QED BY <2>5, <2>6, <2>7
  <1>20. GoodTypes(ch, ag, me2, h2)
    BY <1>8, <1>16 DEF Good, GoodTypes
  <1>21. GoodMail(ch, ag, h2)
    BY <1>16 DEF Good, GoodMail
  <1>22. GoodWork(ag, me2, h2, w)
    BY <1>16, <1>18, <1>19 DEF Good, GoodWork
  <1>23. GoodWords(ch, ag, h2)
    BY <1>16 DEF Good, GoodWords
  <1>24. Good(ch, ag, me2, h2, w)
    BY <1>20, <1>21, <1>22, <1>23 DEF Good
  <1> QED BY <1>6, <1>12, <1>24

----------------------------------------------------------------------------
(* Messages *)

\* A message that reaches a mailbox leaves it with a due time.
LEMMA ArriveKeeps ==
  ASSUME NEW ch \in Stores, NEW m \in Messages, NEW late \in BOOLEAN, NEW a \in Agents,
         NEW seen, Orderly(ch, a, seen)
  PROVE  Orderly(append(ch, m, late), a, seen)
  <1>1. PICK n \in Nat : n = Len(ch.log)
    BY Logged
  <1>2. PICK s : s = append(ch, m, late)
    OBVIOUS
  <1>3. PICK box \in [Conversations -> Boxes] : box = ch.box[a]
    BY DEF Stores
  <1>4. PICK b \in Batches \cup {NoBatch} : b = ch.batch[a]
    BY DEF Stores
  <1>5. PICK nbox : nbox = IF a \in ch.gone \/ ~wakes(m, a) THEN box
                           ELSE [box EXCEPT ![m.conv] = arrive(@, n + 1, a \in m.to, late)]
    OBVIOUS
  <1>6. PICK log : log = Append(ch.log, m)
    OBVIOUS
  <1>7. s.box[a] = nbox /\ s.log = log /\ s.batch[a] = b /\ s.gone = ch.gone
    <2>1. ch.box \in [Agents -> [Conversations -> Boxes]] /\ ch.batch \in [Agents -> Batches \cup {NoBatch}]
      BY DEF Stores
    <2>2. s = [ch EXCEPT !.log = Append(ch.log, m),
                 !.outbox = [d \in Agents |-> IF d = m.from THEN Len(ch.log) + 1 ELSE ch.outbox[d]],
                 !.box = [d \in Agents |->
                    IF d \in ch.gone \/ ~wakes(m, d) THEN ch.box[d]
                    ELSE [ch.box[d] EXCEPT ![m.conv] =
                            arrive(@, Len(ch.log) + 1, d \in m.to, late)]]]
      BY <1>2 DEF append
    <2>3. DOMAIN ch = {"log", "box", "batch", "outbox", "gone"}
      BY DEF Stores
    <2> QED BY <1>1, <1>3, <1>4, <1>5, <1>6, <2>2, <2>3
  <1>8. m.conv \in Conversations
    BY DEF Messages
  <1>9. PICK z \in Boxes : z = box[m.conv]
    BY <1>3, <1>8
  <1>10. PICK y : y = arrive(z, n + 1, a \in m.to, late)
    OBVIOUS
  <1>11. /\ y \in Boxes /\ y.processed = z.processed /\ y.first # None
         /\ y.first = (IF z.first = None THEN n + 1 ELSE z.first)
    <2>1. PICK r \in BOOLEAN : r = (z.ripe /\ (late \/ (z.priority /\ ~(a \in m.to))))
      OBVIOUS
    <2>2. PICK q \in BOOLEAN : q = (z.priority \/ a \in m.to)
      OBVIOUS
    <2>3. PICK f \in Nat \ {0} : f = IF z.first = None THEN n + 1 ELSE z.first
      BY <1>1 DEF Boxes, None
    <2>4. y = [z EXCEPT !.first = f, !.ripe = r, !.priority = q]
      BY <1>10, <2>1, <2>2, <2>3 DEF arrive
    <2> QED BY <2>3, <2>4 DEF Boxes, None
  <1>12. /\ nbox \in [Conversations -> Boxes]
         /\ \A c \in Conversations \ {m.conv} : nbox[c] = box[c]
         /\ nbox[m.conv] = (IF a \in ch.gone \/ ~wakes(m, a) THEN z ELSE y)
    BY <1>3, <1>5, <1>8, <1>9, <1>10, <1>11
  <1>13. PICK old \in Seq(Messages) : old = ch.log
    BY DEF Stores
  <1>14. /\ DOMAIN log = 1 .. n + 1 /\ Len(log) = n + 1 /\ log[n + 1] = m
         /\ DOMAIN ch.log = 1 .. n /\ \A i \in 1 .. n : log[i] = ch.log[i]
    BY <1>1, <1>6, <1>13
  <1>15. Fits(ch.log, box, b) /\ (a \notin ch.gone => Kept(ch.log, box, b, seen, a))
    BY <1>3, <1>4 DEF Orderly
  <1>16. \A c \in Conversations : /\ nbox[c].processed = box[c].processed
                                  /\ nbox[c].processed \in Nat /\ nbox[c].first \in Nat
                                  /\ nbox[c].first # box[c].first =>
                                       /\ box[c].first = None /\ nbox[c].first = n + 1 /\ c = m.conv
    BY <1>3, <1>9, <1>11, <1>12 DEF Boxes
  <1>17. Fits(log, nbox, b)
    <2>1. ASSUME NEW c \in Conversations
          PROVE  /\ nbox[c].processed <= n + 1
                 /\ nbox[c].first # None => /\ nbox[c].first \in 1 .. n + 1
                                            /\ log[nbox[c].first].conv = c
                                            /\ nbox[c].first > nbox[c].processed
      <3>1. nbox[c].processed <= n
        BY <1>1, <1>15, <1>16 DEF Fits
      <3>2. CASE nbox[c].first = box[c].first
        BY <1>14, <1>15, <1>16, <3>1, <3>2 DEF Fits
      <3>3. CASE nbox[c].first # box[c].first
        BY <1>14, <1>16, <3>1, <3>3
      <3> QED BY <1>16, <3>1, <3>2, <3>3
    <2>2. ASSUME b # NoBatch
          PROVE  /\ b.upper <= n + 1 /\ b.upper > nbox[b.conv].processed
                 /\ nbox[b.conv].first # None => nbox[b.conv].first > b.upper
      <3>1. b.conv \in Conversations /\ b.upper \in Nat
        BY <1>4, <2>2 DEF Batches
      <3>2. b.upper <= n /\ b.upper > box[b.conv].processed
            /\ (box[b.conv].first # None => box[b.conv].first > b.upper)
        BY <1>1, <1>15, <2>2 DEF Fits
      <3> QED BY <1>16, <3>1, <3>2
    <2> QED BY <1>14, <2>1, <2>2 DEF Fits
  <1>18. ASSUME a \notin ch.gone PROVE Kept(log, nbox, b, seen, a)
    <2> SUFFICES ASSUME NEW i \in DOMAIN log, wakes(log[i], a)
                 PROVE  /\ i > nbox[log[i].conv].processed =>
                              nbox[log[i].conv].first # None \/ (b # NoBatch /\ b.conv = log[i].conv)
                        /\ i <= nbox[log[i].conv].processed => i \in seen
                        /\ b.status = "delivered" /\ b.conv = log[i].conv /\ i <= b.upper => i \in seen
      BY DEF Kept
    <2>1. CASE i \in 1 .. n
      <3>1. log[i] = ch.log[i] /\ i \in DOMAIN ch.log /\ log[i].conv \in Conversations
        BY <1>14, <2>1, Logged
      <3>2. box[log[i].conv].first # None => nbox[log[i].conv].first # None
        BY <1>16, <3>1
      <3>3. nbox[log[i].conv].processed = box[log[i].conv].processed
        BY <1>16, <3>1
      <3> QED BY <1>15, <1>18, <3>1, <3>2, <3>3 DEF Kept
    <2>2. CASE i = n + 1
      <3>1. log[i] = m /\ wakes(m, a)
        BY <1>14, <2>2
      <3>2. nbox[m.conv] = y
        BY <1>12, <1>18, <3>1
      <3>3. nbox[m.conv].processed <= n
        BY <1>1, <1>8, <1>15, <1>16 DEF Fits
      <3>4. ~(i <= nbox[m.conv].processed)
        BY <1>8, <1>16, <2>2, <3>3
      <3>5. ~(b.status = "delivered" /\ i <= b.upper)
        <4>1. b.status = "delivered" => b # NoBatch /\ b.upper \in Nat
          BY <1>4 DEF NoBatch, Batches
        <4>2. b # NoBatch => b.upper <= n
          BY <1>1, <1>15 DEF Fits
        <4> QED BY <2>2, <4>1, <4>2
      <3> QED BY <1>11, <3>1, <3>2, <3>4, <3>5
    <2> QED BY <1>14, <2>1, <2>2
  <1> QED BY <1>2, <1>4, <1>7, <1>12, <1>17, <1>18 DEF Orderly

\* A message is a message more of its sender.
LEMMA SentMore ==
  ASSUME NEW ch \in Stores, NEW m \in Messages, NEW a
  PROVE  Cardinality(SentBy(Append(ch.log, m), a))
           = Cardinality(SentBy(ch.log, a)) + (IF m.from = a THEN 1 ELSE 0)
         /\ Cardinality(SentBy(ch.log, a)) \in Nat
  <1>1. PICK log \in Seq(Messages) : log = ch.log
    BY DEF Stores
  <1>2. PICK n \in Nat : n = Len(log)
    OBVIOUS
  <1>3. PICK log2 : log2 = Append(log, m)
    OBVIOUS
  <1>4. /\ DOMAIN log = 1 .. n /\ DOMAIN log2 = 1 .. n + 1 /\ log2[n + 1] = m
        /\ \A i \in 1 .. n : log2[i] = log[i]
    BY <1>2, <1>3
  <1>5. PICK S : S = SentBy(log, a)
    OBVIOUS
  <1>6. S \subseteq 1 .. n /\ n + 1 \notin S
    BY <1>2, <1>4, <1>5 DEF SentBy
  <1>7. IsFiniteSet(S) /\ Cardinality(S) \in Nat
    <2>1. IsFiniteSet(1 .. n)
      BY <1>2, FS_Interval
    <2> QED BY <1>6, <2>1, FS_Subset, FS_CardinalityType
  <1>8. CASE m.from = a
    <2>1. SentBy(log2, a) = S \cup {n + 1}
      BY <1>2, <1>4, <1>5, <1>8 DEF SentBy
    <2>2. Cardinality(S \cup {n + 1}) = Cardinality(S) + 1
      BY <1>6, <1>7, FS_AddElement
    <2> QED BY <1>1, <1>3, <1>5, <1>7, <1>8, <2>1, <2>2
  <1>9. CASE m.from # a
    <2>1. SentBy(log2, a) = S
      BY <1>2, <1>4, <1>5, <1>9 DEF SentBy
    <2> QED BY <1>1, <1>3, <1>5, <1>7, <1>9, <2>1
  <1> QED BY <1>8, <1>9

\* A message of the user, or one that a round asks for and has not stored yet.
LEMMA AppendedIsGood ==
  ASSUME NEW ch, NEW ag, NEW me, NEW h, NEW w, Good(ch, ag, me, h, w),
         NEW m \in Messages, NEW late \in BOOLEAN,
         \A a \in Agents : m.from = a =>
           /\ ch.outbox[a] = None /\ ag[a].sched # "none" /\ Speaks(ag[a].round)
           /\ m = [conv |-> ag[a].round.reply.conv, from |-> a, to |-> ag[a].round.reply.to,
                   phase |-> ch.batch[a].phase]
  PROVE  /\ Good(append(ch, m, late), ag, me, h, w)
         /\ append(ch, m, late).log = Append(ch.log, m)
         /\ append(ch, m, late).gone = ch.gone
         /\ \A a \in Agents : m.from = a => append(ch, m, late).outbox[a] # None
         /\ \A a \in ch.gone : append(ch, m, late).box[a] = ch.box[a]
  <1>1. ch \in Stores /\ h \in Histories
    BY DEF Good, GoodTypes
  <1>2. PICK n \in Nat : n = Len(ch.log)
    BY <1>1, Logged
  <1>3. PICK s : s = append(ch, m, late)
    OBVIOUS
  <1>4. PICK log : log = Append(ch.log, m)
    OBVIOUS
  <1>5. PICK out : out = [d \in Agents |-> IF d = m.from THEN Len(ch.log) + 1 ELSE ch.outbox[d]]
    OBVIOUS
  <1>6. PICK box : box = [d \in Agents |->
                    IF d \in ch.gone \/ ~wakes(m, d) THEN ch.box[d]
                    ELSE [ch.box[d] EXCEPT ![m.conv] =
                            arrive(@, Len(ch.log) + 1, d \in m.to, late)]]
    OBVIOUS
  <1>7. s = [ch EXCEPT !.log = log, !.outbox = out, !.box = box]
    BY <1>3, <1>4, <1>5, <1>6 DEF append
  <1>8. ch = [log |-> ch.log, box |-> ch.box, batch |-> ch.batch, outbox |-> ch.outbox,
              gone |-> ch.gone]
    BY <1>1 DEF Stores
  <1>9. s = [log |-> log, box |-> box, batch |-> ch.batch, outbox |-> out, gone |-> ch.gone]
    BY <1>7, <1>8
  <1>10. s.log = log /\ s.box = box /\ s.batch = ch.batch /\ s.outbox = out /\ s.gone = ch.gone
    BY <1>9
  <1>11. \A a \in Agents : Orderly(s, a, h.seen[a])
    BY <1>1, <1>3, GoodIsOrderly, ArriveKeeps
  <1>12. s \in Stores
    <2>1. box \in [Agents -> [Conversations -> Boxes]]
      <3>1. \A a \in Agents : box[a] \in [Conversations -> Boxes]
        BY <1>10, <1>11 DEF Orderly
      <3> QED BY <1>6, <3>1
    <2>2. ch.outbox \in [Agents -> Nat] /\ ch.batch \in [Agents -> Batches \cup {NoBatch}]
          /\ ch.gone \in SUBSET Agents /\ ch.log \in Seq(Messages)
      BY <1>1 DEF Stores
    <2>3. out \in [Agents -> Nat]
      BY <1>2, <1>5, <2>2
    <2>4. log \in Seq(Messages)
      BY <1>4, <2>2
    <2> QED BY <1>9, <2>1, <2>2, <2>3, <2>4 DEF Stores
  <1>13. GoodTypes(s, ag, me, h)
    BY <1>12 DEF Good, GoodTypes
  <1>14. GoodMail(s, ag, h)
    BY <1>10, <1>11 DEF Good, GoodMail, Orderly
  <1>15. GoodWork(ag, me, h, w)
    BY DEF Good
  <1>16. PICK old \in Seq(Messages) : old = ch.log
    BY <1>1 DEF Stores
  <1>17. /\ DOMAIN log = 1 .. n + 1 /\ log[n + 1] = m /\ DOMAIN ch.log = 1 .. n
         /\ \A i \in 1 .. n : log[i] = ch.log[i]
    BY <1>2, <1>4, <1>16
  <1>18. GoodWords(s, ag, h)
    <2> SUFFICES ASSUME NEW a \in Agents
                 PROVE  /\ Sending(ag[a], s.outbox[a])
                        /\ a \notin h.redone => Bound(s, ag[a], a) /\ Counted(s, h.said[a], a)
      BY DEF GoodWords
    <2>1. /\ Sending(ag[a], ch.outbox[a])
          /\ a \notin h.redone => Bound(ch, ag[a], a) /\ Counted(ch, h.said[a], a)
      BY DEF Good, GoodWords
    <2>2. Cardinality(SentBy(log, a)) = Cardinality(SentBy(ch.log, a))
                                          + (IF m.from = a THEN 1 ELSE 0)
          /\ Cardinality(SentBy(ch.log, a)) \in Nat
      BY <1>1, <1>4, SentMore
    <2>3. h.said[a] \in Nat
      BY <1>1 DEF Histories
    <2>4. CASE m.from = a
      <3>1. s.outbox[a] = n + 1 /\ n + 1 # None
        BY <1>2, <1>5, <1>10, <2>4 DEF None
      <3>2. Sending(ag[a], s.outbox[a])
        BY <2>4, <3>1 DEF Sending
      <3>3. Bound(s, ag[a], a)
        BY <1>2, <1>10, <1>17, <2>4, <3>1 DEF Bound
      <3>4. a \notin h.redone => Counted(s, h.said[a], a)
        BY <1>10, <2>1, <2>2, <2>3, <2>4, <3>1 DEF Counted
      <3> QED BY <3>2, <3>3, <3>4
    <2>5. CASE m.from # a
      <3>1. s.outbox[a] = ch.outbox[a]
        BY <1>5, <1>10, <2>5
      <3>2. a \notin h.redone => Counted(s, h.said[a], a)
        BY <1>10, <2>1, <2>2, <2>3, <2>5, <3>1 DEF Counted
      <3>3. a \notin h.redone => Bound(s, ag[a], a)
        BY <1>2, <1>10, <1>17, <2>1, <3>1 DEF Bound
      <3> QED BY <2>1, <3>1, <3>2, <3>3
    <2> QED BY <2>4, <2>5
  <1>19. Good(s, ag, me, h, w)
    BY <1>13, <1>14, <1>15, <1>18 DEF Good
  <1>20. \A a \in Agents : m.from = a => s.outbox[a] # None
    BY <1>2, <1>5, <1>10 DEF None
  <1>21. \A a \in ch.gone : s.box[a] = ch.box[a]
    BY <1>1, <1>6, <1>10 DEF Stores
  <1> QED BY <1>3, <1>4, <1>10, <1>19, <1>20, <1>21

\* The end of a round: its message, if it has one, is recorded.
LEMMA CommittedIsGood ==
  ASSUME NEW ch, NEW ag, NEW me, NEW h, NEW w, Good(ch, ag, me, h, w), NEW a \in Agents,
         ag[a].pc = "acted" \/ ~Speaks(ag[a].round),
         NEW y \in AgentRecords, y.conv = ag[a].conv, y.status = ag[a].status,
         y.budget = ag[a].budget, y.round = NewRound, y.pc = "ending",
         NEW h2 \in Histories, h2.seen = h.seen, h2.asked = h.asked, h2.chain = h.chain,
         h2.redone = h.redone, \A b \in Agents \ {a} : h2.said[b] = h.said[b],
         h2.said[a] = h.said[a] + (IF Speaks(ag[a].round) THEN 1 ELSE 0)
  PROVE  Good([ch EXCEPT !.outbox[a] = None], [ag EXCEPT ![a] = y], me, h2, w)
  <1>1. ch \in Stores /\ ag \in [Agents -> AgentRecords] /\ h \in Histories
    BY DEF Good, GoodTypes
  <1>2. PICK x \in AgentRecords : x = ag[a]
    BY <1>1
  <1>3. PICK ag2 : ag2 = [ag EXCEPT ![a] = y]
    OBVIOUS
  <1>4. ag2 \in [Agents -> AgentRecords] /\ ag2[a] = y /\ \A b \in Agents \ {a} : ag2[b] = ag[b]
    BY <1>1, <1>3
  <1>5. PICK s : s = [ch EXCEPT !.outbox[a] = None]
    OBVIOUS
  <1>6. PICK out : out = [ch.outbox EXCEPT ![a] = None]
    OBVIOUS
  <1>7. out \in [Agents -> Nat] /\ out[a] = None /\ \A b \in Agents \ {a} : out[b] = ch.outbox[b]
    BY <1>1, <1>6 DEF Stores, None
  <1>8. /\ s \in Stores /\ s.log = ch.log /\ s.box = ch.box /\ s.batch = ch.batch
        /\ s.outbox = out /\ s.gone = ch.gone
    BY <1>1, <1>5, <1>6, <1>7 DEF Stores
  <1>9. GoodTypes(s, ag2, me, h2)
    BY <1>4, <1>8 DEF Good, GoodTypes
  <1>10. GoodMail(s, ag2, h2)
    BY <1>2, <1>4, <1>8 DEF Good, GoodMail, Suits
  <1>11. GoodWork(ag2, me, h2, w)
    <2>1. /\ NewRound.plan.kind # "compact" /\ NewRound.outcome = FALSE
          /\ ~Speaks(NewRound)
      BY DEF NewRound, Unplanned, Speaks, Work
    <2>2. Allocated(x, h.asked[a], w)
      BY <1>2 DEF Good, GoodWork
    <2>3. Allocated(y, h2.asked[a], w) /\ Ascends(me, y.round.plan) /\ Working(y)
      BY <1>2, <2>1, <2>2 DEF Allocated, Ascends, Working, AtWork
    <2> QED BY <1>4, <2>3 DEF Good, GoodWork
  <1>12. GoodWords(s, ag2, h2)
    <2>1. /\ Sending(x, ch.outbox[a])
          /\ a \notin h.redone => Bound(ch, x, a) /\ Counted(ch, h.said[a], a)
      BY <1>2 DEF Good, GoodWords
    <2>2. a \notin h.redone => (ch.outbox[a] # None <=> Speaks(x.round))
      BY <1>2, <2>1 DEF Sending, Bound
    <2>3. h.said[a] \in Nat
      BY <1>1 DEF Histories
    <2>4. a \notin h2.redone => Counted(s, h2.said[a], a)
      BY <1>2, <1>7, <1>8, <2>1, <2>2, <2>3 DEF Counted
    <2>5. Sending(y, s.outbox[a]) /\ Bound(s, y, a)
      BY <1>7, <1>8 DEF Sending, Bound
    <2>6. ASSUME NEW b \in Agents \ {a}
          PROVE  /\ Sending(ag2[b], s.outbox[b])
                 /\ b \notin h2.redone => Bound(s, ag2[b], b) /\ Counted(s, h2.said[b], b)
      BY <1>4, <1>7, <1>8 DEF Good, GoodWords, Bound, Counted
    <2> QED BY <1>4, <2>4, <2>5, <2>6 DEF GoodWords
  <1>13. Good(s, ag2, me, h2, w)
    BY <1>9, <1>10, <1>11, <1>12 DEF Good
  <1> QED BY <1>3, <1>5, <1>13

----------------------------------------------------------------------------
(* The steps *)

\* What there is besides the good state.
LEMMA Assemble ==
  ASSUME IInv, world' = world, Good(chat', agent', memory', hist', world),
         pump' \in Agents \cup {User}, timer' \in BOOLEAN, fatal' \in BOOLEAN,
         env' \in [crashes : Nat, stops : Nat, resumes : Nat],
         fatal' => fatal \/ hist'.redone # {}, hist.redone \subseteq hist'.redone
  PROVE  IInv'
  BY DEF IInv, TypeOK, Good, GoodTypes, NeverFatal

\* The parts of the invariant.
LEMMA Parts ==
  ASSUME IInv
  PROVE  /\ world \in Worlds /\ pump \in Agents \cup {User} /\ timer \in BOOLEAN
         /\ fatal \in BOOLEAN /\ env \in [crashes : Nat, stops : Nat, resumes : Nat]
         /\ Good(chat, agent, memory, hist, world) /\ (fatal => hist.redone # {})
         /\ chat \in Stores /\ agent \in [Agents -> AgentRecords]
         /\ memory \in Memories /\ hist \in Histories
         /\ \A a \in Agents : /\ agent[a] \in AgentRecords /\ Working(agent[a])
                              /\ Sending(agent[a], chat.outbox[a])
                              /\ a \notin hist.redone => Bound(chat, agent[a], a)
  BY DEF IInv, TypeOK, NeverFatal, Good, GoodTypes, GoodWork, GoodWords

LEMMA BatchFields ==
  ASSUME NEW c \in Stores, NEW a \in Agents
  PROVE  c.batch[a].upper \in Nat /\ c.batch[a].phase \in Nat
  <1>1. c.batch[a] \in Batches \cup {NoBatch}
    BY DEF Stores
  <1>2. ASSUME NEW b \in Batches PROVE b.upper \in Nat /\ b.phase \in Nat
    BY DEF Batches
  <1>3. NoBatch.upper \in Nat /\ NoBatch.phase \in Nat
    BY DEF NoBatch, None
  <1> QED BY <1>1, <1>2, <1>3

\* A step of one agent that changes nothing else.
LEMMA QuietStep ==
  ASSUME IInv, NEW a \in Agents, NEW y \in AgentRecords, Quiet(agent[a], y),
         agent' = [agent EXCEPT ![a] = y], pump' \in Agents \cup {User},
         UNCHANGED <<world, chat, memory, timer, fatal, hist>>,
         env' \in [crashes : Nat, stops : Nat, resumes : Nat]
  PROVE  IInv'
  <1>1. Good(chat, [agent EXCEPT ![a] = y], memory, hist, world)
    BY Parts, QuietIsGood
  <1>2. Good(chat', agent', memory', hist', world)
    BY <1>1
  <1> QED BY <1>2, Parts, Assemble

\* takeNextRun
LEMMA TakeKeeps ==
  ASSUME IInv, NEW a \in Agents, Take(a)
  PROVE  IInv'
  <1>1. PICK x : x = agent[a]
    OBVIOUS
  <1>2. x \in AgentRecords /\ Working(x) /\ x.sched = "ready"
    BY <1>1, Parts DEF Take
  <1>3. CASE At(a, "none")
    <2>1. PICK y : y = started(x)
      OBVIOUS
    <2>2. y \in AgentRecords /\ Quiet(x, y)
      BY <1>2, <2>1 DEF started, AgentRecords, Quiet, Working
    <2>3. agent' = [agent EXCEPT ![a] = y]
      BY <1>1, <1>3, <2>1 DEF Take
    <2> QED BY <1>1, <1>3, <2>2, <2>3, Parts, QuietStep DEF Take
  <1>4. CASE ~At(a, "none")
    <2>1. PICK y : y = [x EXCEPT !.sched = "running"]
      OBVIOUS
    <2>2. y \in AgentRecords /\ Quiet(x, y)
      BY <1>2, <2>1 DEF AgentRecords, Quiet, Working
    <2>3. agent' = [agent EXCEPT ![a] = y]
      BY <1>1, <1>4, <2>1 DEF Take
    <2> QED BY <1>1, <1>4, <2>2, <2>3, Parts, QuietStep DEF Take
  <1> QED BY <1>3, <1>4

\* The pump goes on, with the agent or without it.
LEMMA GoOnKeeps ==
  ASSUME IInv, GoOn
  PROVE  IInv'
  <1>1. PICK a \in Agents : a = pump
    BY Parts DEF GoOn
  <1>2. PICK x : x = agent[a]
    OBVIOUS
  <1>3. x \in AgentRecords /\ Working(x) /\ x.pc = "none"
    BY <1>1, <1>2, Parts DEF GoOn, At
  <1>4. PICK y : y = IF x.status = "active" THEN started(x)
                     ELSE [x EXCEPT !.sched = "ready", !.susp = "stop"]
    OBVIOUS
  <1>5. y \in AgentRecords /\ Quiet(x, y)
    BY <1>3, <1>4 DEF started, AgentRecords, Quiet, Working, AtWork
  <1>6. agent' = [agent EXCEPT ![a] = y]
    BY <1>1, <1>2, <1>4 DEF GoOn
  <1> QED BY <1>2, <1>5, <1>6, Parts, QuietStep DEF GoOn

\* The end of a step that looks at the mail.
LEMMA LookStep ==
  ASSUME IInv, NEW ch, NEW ag, NEW h, Good(ch, ag, memory, h, world),
         RefreshMail(ch, ag, world), h = hist', UNCHANGED <<world, memory>>,
         pump' \in Agents \cup {User}, fatal' \in BOOLEAN,
         env' \in [crashes : Nat, stops : Nat, resumes : Nat],
         fatal' => fatal \/ h.redone # {}, hist.redone \subseteq h.redone
  PROVE  IInv'
  <1>1. Good(chat', agent', memory, h, world) /\ timer' \in BOOLEAN
    BY Parts, LookingIsGood
  <1> QED BY <1>1, Assemble

\* The end of a job, and the cancellation that waited for it.
LEMMA LeftIsQuiet ==
  ASSUME NEW x \in AgentRecords, Working(x)
  PROVE  left(x) \in AgentRecords /\ Quiet(x, left(x))
  <1>1. PICK y : y = [x EXCEPT !.pc = "none", !.aborted = FALSE, !.leaving = FALSE]
    OBVIOUS
  <1>2. y \in AgentRecords /\ Quiet(x, y) /\ y.pc = "none" /\ y.status = x.status
        /\ y.round = x.round
    BY <1>1, ZenonT(40) DEF AgentRecords, Quiet, Working, AtWork
  <1>3. PICK r : r = [y.round EXCEPT !.fault = "other"]
    OBVIOUS
  <1>4. r \in Rounds /\ r.plan = x.round.plan /\ r.reply = x.round.reply
        /\ r.outcome = x.round.outcome
    BY <1>2, <1>3 DEF AgentRecords, Rounds, Faults
  <1>5. left(x) = IF x.leaving /\ x.status # "dismissed"
                  THEN [y EXCEPT !.status = "cancelled", !.round = r] ELSE y
    BY <1>1, <1>3 DEF left
  <1>6. PICK z : z = left(x)
    OBVIOUS
  <1>7. z \in AgentRecords /\ Quiet(x, z)
    <2>1. CASE x.leaving /\ x.status # "dismissed"
      <3>1. z = [y EXCEPT !.status = "cancelled", !.round = r]
        BY <1>5, <1>6, <2>1
      <3>2. /\ z \in AgentRecords /\ z.status = "cancelled" /\ z.round = r
            /\ z.pc = "none" /\ z.sched = y.sched /\ z.conv = y.conv /\ z.budget = y.budget
        BY <1>2, <1>4, <3>1 DEF AgentRecords
      <3> QED BY <1>2, <1>4, <3>2 DEF Quiet, Working, AtWork
    <2>2. CASE ~(x.leaving /\ x.status # "dismissed")
      BY <1>2, <1>5, <1>6, <2>2
    <2> QED BY <2>1, <2>2
  <1> QED BY <1>6, <1>7

\* The agent is without its job, and the mail is looked at.
LEMMA JobEndsKeeps ==
  ASSUME IInv, NEW a \in Agents, JobEnds(a)
  PROVE  IInv'
  <1>1. PICK y : y = left(agent[a])
    OBVIOUS
  <1>2. y \in AgentRecords /\ Quiet(agent[a], y)
    BY <1>1, Parts, LeftIsQuiet
  <1>3. PICK ag : ag = [agent EXCEPT ![a] = y]
    OBVIOUS
  <1>4. Good(chat, ag, memory, hist, world)
    BY <1>2, <1>3, Parts, QuietIsGood
  <1>5. RefreshMail(chat, ag, world) /\ hist' = hist
    BY <1>1, <1>3 DEF JobEnds
  <1>6. PICK h : h = hist
    OBVIOUS
  <1> QED BY <1>4, <1>5, <1>6, Parts, LookStep DEF JobEnds

\* No change at all is a quiet one.
LEMMA QuietSelf ==
  ASSUME NEW x \in AgentRecords, Working(x)
  PROVE  Quiet(x, x)
  BY DEF Quiet

\* A job that fails; nothing fails for the process.
LEMMA FailStep ==
  ASSUME IInv, NEW a \in Agents, NEW x \in AgentRecords, Quiet(agent[a], x),
         NEW kind \in Faults \ {"internal"}, kind = "protocol" => ~Speaks(x.round),
         Fail(a, x, kind), hist' = hist
  PROVE  IInv'
  <1>1. Good(chat, [agent EXCEPT ![a] = failed(x, kind)], memory, hist, world)
    BY Parts, FailedIsGood
  <1>2. Good(chat', agent', memory', hist', world)
    BY <1>1 DEF Fail
  <1>3. ~fatal'
    BY DEF Fail
  <1> QED BY <1>2, <1>3, Parts, Assemble DEF Fail

\* A job that was told to end.
LEMMA AbortKeeps ==
  ASSUME IInv, NEW a \in Agents, Abort(a)
  PROVE  IInv'
  <1>1. Fail(a, agent[a], "abort") /\ hist' = hist
    BY DEF Abort
  <1>2. "abort" \in Faults \ {"internal"}
    BY DEF Faults
  <1> QED BY <1>1, <1>2, Parts, QuietSelf, FailStep

\* A request that fails is tried again, with what was planned.
LEMMA UnansweredKeeps ==
  ASSUME IInv, NEW a \in Agents, Unanswered(a)
  PROVE  IInv'
  <1>1. Fail(a, agent[a], "network") /\ hist' = hist
    BY DEF Unanswered
  <1>2. "network" \in Faults \ {"internal"}
    BY DEF Faults
  <1> QED BY <1>1, <1>2, Parts, QuietSelf, FailStep

\* A reply that is refused says nothing, so that archiving it loses no message.
LEMMA RefuseReplyKeeps ==
  ASSUME IInv, NEW a \in Agents, RefuseReply(a)
  PROVE  IInv'
  <1>1. Fail(a, agent[a], "protocol") /\ hist' = hist
    BY DEF RefuseReply
  <1>2. "protocol" \in Faults \ {"internal"}
    BY DEF Faults
  <1>3. ~Speaks(agent[a].round)
    BY DEF RefuseReply, Round, Speaks
  <1> QED BY <1>1, <1>2, <1>3, Parts, QuietSelf, FailStep

\* The round goes on from what was saved.
LEMMA SavedKeeps ==
  ASSUME IInv, NEW a \in Agents, Saved(a)
  PROVE  IInv'
  <1>1. PICK x : x = agent[a]
    OBVIOUS
  <1>2. x \in AgentRecords /\ Working(x) /\ x.pc = "planned"
    BY <1>1, Parts DEF Saved, At
  <1>3. PICK y : y = [x EXCEPT !.pc = IF x.round.outcome THEN "acted" ELSE "answered"]
    OBVIOUS
  <1>4. y \in AgentRecords
    BY <1>2, <1>3 DEF AgentRecords
  <1>5. x.round.outcome => ~Speaks(x.round)
    BY <1>2 DEF Working, Speaks, Work
  <1>6. Quiet(x, y)
    BY <1>2, <1>3, <1>5 DEF AgentRecords, Quiet, Working, AtWork
  <1>7. agent' = [agent EXCEPT ![a] = y]
    BY <1>1, <1>3 DEF Saved, Round
  <1> QED BY <1>1, <1>4, <1>6, <1>7, Parts, QuietStep DEF Saved

\* The outcome of a round that was lent.
LEMMA OutcomeKeeps ==
  ASSUME IInv, NEW a \in Agents, Outcome(a)
  PROVE  IInv'
  <1>1. PICK x : x = agent[a]
    OBVIOUS
  <1>2. x \in AgentRecords /\ Working(x) /\ x.pc = "summed"
    BY <1>1, Parts DEF Outcome, At
  <1>3. PICK r : r = [x.round EXCEPT !.outcome = TRUE]
    OBVIOUS
  <1>4. r \in Rounds /\ r.plan = x.round.plan /\ r.reply = x.round.reply
    BY <1>2, <1>3 DEF AgentRecords, Rounds
  <1>5. PICK y : y = [x EXCEPT !.pc = "acted", !.round = r]
    OBVIOUS
  <1>6. /\ y \in AgentRecords /\ y.pc = "acted" /\ y.round = r /\ y.sched = x.sched
        /\ y.conv = x.conv /\ y.status = x.status /\ y.budget = x.budget
    BY <1>2, <1>4, <1>5 DEF AgentRecords
  <1>7. r.plan.kind = "compact" /\ ~Speaks(r)
    BY <1>2, <1>4 DEF Working, Speaks, Work
  <1>8. agent' = [agent EXCEPT ![a] = y]
    BY <1>1, <1>3, <1>5 DEF Outcome
  <1>9. Welcome(chat, memory, hist, world, x, x, a)
    BY <1>1, <1>2, Parts, QuietSelf, QuietIsWelcome
  <1>10. Working(y) /\ Sending(y, chat.outbox[a])
    BY <1>2, <1>6, <1>7, <1>9 DEF Working, AtWork, Welcome, Sending
  <1>11. a \notin hist.redone => Bound(chat, y, a)
    BY <1>4, <1>6, <1>9 DEF Welcome, Bound, Speaks
  <1>12. Welcome(chat, memory, hist, world, agent[a], y, a)
    BY <1>1, <1>4, <1>6, <1>9, <1>10, <1>11 DEF Welcome, Allocated
  <1>13. Good(chat, [agent EXCEPT ![a] = y], memory, hist, world)
    BY <1>6, <1>12, Parts, OneIsGood
  <1>14. Good(chat', agent', memory', hist', world)
    BY <1>8, <1>13 DEF Outcome
  <1> QED BY <1>14, Parts, Assemble DEF Outcome

\* A reply comes to a round that has none.
LEMMA ReplyKeeps ==
  ASSUME IInv, NEW a \in Agents, Reply(a)
  PROVE  IInv'
  <1>1. PICK x : x = agent[a]
    OBVIOUS
  <1>2. x \in AgentRecords /\ Working(x) /\ x.pc = "asked"
    BY <1>1, Parts DEF Reply, At
  <1>3. PICK v \in Replies :
          agent' = [agent EXCEPT ![a].round.reply = v, ![a].pc = "answered"]
    <2>1. {[kind |-> "digest"], [kind |-> "bad"]} \subseteq Replies /\ world.words \subseteq Replies
      BY Answers, Parts
    <2> QED BY <2>1 DEF Reply
  <1>4. PICK r : r = [x.round EXCEPT !.reply = v]
    OBVIOUS
  <1>5. r \in Rounds /\ r.plan = x.round.plan /\ r.outcome = x.round.outcome
    BY <1>2, <1>3, <1>4 DEF AgentRecords, Rounds
  <1>6. PICK y : y = [x EXCEPT !.pc = "answered", !.round = r]
    OBVIOUS
  <1>7. /\ y \in AgentRecords /\ y.pc = "answered" /\ y.round = r /\ y.sched = x.sched
        /\ y.conv = x.conv /\ y.status = x.status /\ y.budget = x.budget
    BY <1>2, <1>5, <1>6 DEF AgentRecords
  <1>8. agent' = [agent EXCEPT ![a] = y]
    <2>1. agent' = [agent EXCEPT ![a] = [agent[a] EXCEPT !.round.reply = v, !.pc = "answered"]]
      BY <1>3, Parts
    <2>2. [x EXCEPT !.round.reply = v, !.pc = "answered"] = y
      BY <1>2, <1>4, <1>6 DEF AgentRecords
    <2> QED BY <1>1, <2>1, <2>2
  <1>9. Welcome(chat, memory, hist, world, x, x, a)
    BY <1>1, <1>2, Parts, QuietSelf, QuietIsWelcome
  <1>10. Working(y) /\ Sending(y, chat.outbox[a])
    BY <1>2, <1>5, <1>7, <1>9 DEF Working, AtWork, Welcome, Sending
  <1>11. ~Speaks(x.round)
    BY <1>2 DEF Working, AtWork, Speaks, NoReply
  <1>12. a \notin hist.redone => Bound(chat, y, a)
    BY <1>9, <1>11 DEF Welcome, Bound
  <1>13. Welcome(chat, memory, hist, world, agent[a], y, a)
    BY <1>1, <1>5, <1>7, <1>9, <1>10, <1>12 DEF Welcome, Allocated
  <1>14. Good(chat, [agent EXCEPT ![a] = y], memory, hist, world)
    BY <1>7, <1>13, Parts, OneIsGood
  <1>15. Good(chat', agent', memory', hist', world)
    BY <1>8, <1>14 DEF Reply
  <1> QED BY <1>15, Parts, Assemble DEF Reply

\* The action is carried out, or the round goes in circles.
LEMMA JudgeKeeps ==
  ASSUME IInv, NEW a \in Agents, Judge(a)
  PROVE  IInv'
  <1>1. PICK x : x = agent[a]
    OBVIOUS
  <1>2. x \in AgentRecords /\ Working(x) /\ x.pc = "answered"
    BY <1>1, Parts DEF Judge, At
  <1>3. CASE ~Round(a).marked /\ repeatedNow(agent[a]) >= world.repeats
    <2>1. Fail(a, agent[a], "loop") /\ hist' = hist
      BY <1>3 DEF Judge
    <2>2. "loop" \in Faults \ {"internal"}
      BY DEF Faults
    <2> QED BY <2>1, <2>2, Parts, QuietSelf, FailStep
  <1>4. CASE ~(~Round(a).marked /\ repeatedNow(agent[a]) >= world.repeats)
    <2>1. PICK r : r = [x.round EXCEPT !.marked = TRUE]
      OBVIOUS
    <2>2. r \in Rounds /\ r.plan = x.round.plan /\ r.reply = x.round.reply
          /\ r.outcome = x.round.outcome
      BY <1>2, <2>1 DEF AgentRecords, Rounds
    <2>3. PICK n : n = repeatedNow(x)
      OBVIOUS
    <2>4. n \in Nat
      BY <1>2, <2>3 DEF repeatedNow, AgentRecords
    <2>5. PICK y : y = IF x.round.marked THEN [x EXCEPT !.pc = "acting"]
                       ELSE [x EXCEPT !.pc = "acting", !.round = r, !.last = x.round.reply,
                                      !.repeated = n]
      OBVIOUS
    <2>6. x.round.reply \in Replies
      BY <1>2 DEF AgentRecords, Rounds
    <2>7. y \in AgentRecords /\ Quiet(x, y)
      <3>1. CASE x.round.marked
        <4>1. y = [x EXCEPT !.pc = "acting"]
          BY <2>5, <3>1
        <4> QED BY <1>2, <4>1 DEF AgentRecords, Quiet, Working, AtWork
      <3>2. CASE ~x.round.marked
        <4>1. y = [x EXCEPT !.pc = "acting", !.round = r, !.last = x.round.reply, !.repeated = n]
          BY <2>5, <3>2
        <4>2. /\ y \in AgentRecords /\ y.pc = "acting" /\ y.round = r /\ y.sched = x.sched
              /\ y.conv = x.conv /\ y.status = x.status /\ y.budget = x.budget
          BY <1>2, <2>2, <2>4, <2>6, <4>1 DEF AgentRecords
        <4> QED BY <1>2, <2>2, <4>2 DEF Quiet, Working, AtWork
      <3> QED BY <3>1, <3>2
    <2>8. agent' = [agent EXCEPT ![a] = y]
      <3>1. agent' = [agent EXCEPT ![a] =
                 IF agent[a].round.marked THEN [agent[a] EXCEPT !.pc = "acting"]
                 ELSE [agent[a] EXCEPT !.pc = "acting", !.round.marked = TRUE,
                                !.last = Round(a).reply, !.repeated = repeatedNow(agent[a])]]
        BY <1>4 DEF Judge
      <3>2. CASE x.round.marked
        BY <1>1, <2>5, <3>1, <3>2
      <3>3. CASE ~x.round.marked
        <4>1. [x EXCEPT !.pc = "acting", !.round.marked = TRUE, !.last = x.round.reply,
                        !.repeated = n]
              = [x EXCEPT !.pc = "acting", !.round = r, !.last = x.round.reply, !.repeated = n]
          BY <1>2, <2>1 DEF AgentRecords
        <4> QED BY <1>1, <2>3, <2>5, <3>1, <3>3, <4>1 DEF Round
      <3> QED BY <3>2, <3>3
    <2> QED BY <1>1, <1>4, <2>7, <2>8, Parts, QuietStep DEF Judge
  <1> QED BY <1>3, <1>4

\* A retry that is due.
LEMMA RetryDueKeeps ==
  ASSUME IInv, NEW a \in Agents, RetryDue(a)
  PROVE  IInv'
  <1>1. PICK x : x = agent[a]
    OBVIOUS
  <1>2. x \in AgentRecords /\ Working(x)
    BY <1>1, Parts
  <1>3. PICK y : y = [x EXCEPT !.susp = "none"]
    OBVIOUS
  <1>4. y \in AgentRecords /\ Quiet(x, y)
    BY <1>2, <1>3 DEF AgentRecords, Quiet, Working
  <1>5. agent' = [agent EXCEPT ![a] = y]
    BY <1>1, <1>3 DEF RetryDue
  <1> QED BY <1>1, <1>4, <1>5, Parts, QuietStep DEF RetryDue

\* The mail timer looks at the mail.
LEMMA TimerFiresKeeps ==
  ASSUME IInv, TimerFires
  PROVE  IInv'
  <1>1. PICK ch : ch = chat
    OBVIOUS
  <1>2. PICK ag : ag = agent
    OBVIOUS
  <1>3. PICK h : h = hist
    OBVIOUS
  <1>4. Good(ch, ag, memory, h, world) /\ RefreshMail(ch, ag, world) /\ h = hist'
    BY <1>1, <1>2, <1>3, Parts DEF TimerFires
  <1> QED BY <1>3, <1>4, Parts, LookStep DEF TimerFires

\* The agent is stopped, but not dismissed.
LEMMA StoppedIsQuiet ==
  ASSUME NEW x \in AgentRecords, Working(x), NEW s \in {"paused", "cancelled"}
  PROVE  /\ stopped(x, s) \in AgentRecords /\ Quiet(x, stopped(x, s))
         /\ stopped(x, s).pc = x.pc /\ stopped(x, s).round = x.round
  <1>1. PICK b \in BOOLEAN : b = (x.aborted \/ x.pc # "none")
    OBVIOUS
  <1>2. PICK y : y = stopped(x, s)
    OBVIOUS
  <1>3. y = [x EXCEPT !.status = s, !.susp = "stop", !.aborted = b]
    BY <1>1, <1>2 DEF stopped
  <1>4. /\ y \in AgentRecords /\ y.pc = x.pc /\ y.round = x.round /\ y.sched = x.sched
        /\ y.conv = x.conv /\ y.status = s /\ y.budget = x.budget
    BY <1>3 DEF AgentRecords
  <1> QED BY <1>2, <1>4 DEF Quiet, Working

\* The user pauses an agent.
LEMMA PauseKeeps ==
  ASSUME IInv, NEW a \in Agents, Pause(a)
  PROVE  IInv'
  <1>1. PICK x : x = agent[a]
    OBVIOUS
  <1>2. PICK y : y = stopped(x, "paused")
    OBVIOUS
  <1>3. y \in AgentRecords /\ Quiet(x, y)
    BY <1>1, <1>2, Parts, StoppedIsQuiet
  <1>4. agent' = [agent EXCEPT ![a] = y]
    BY <1>1, <1>2 DEF Pause
  <1>5. env' \in [crashes : Nat, stops : Nat, resumes : Nat]
    BY Parts DEF Pause, Stopping
  <1> QED BY <1>1, <1>3, <1>4, <1>5, Parts, QuietStep DEF Pause, Stopping

\* The user cancels an agent, at once or when its job ends.
LEMMA CancelKeeps ==
  ASSUME IInv, NEW a \in Agents, Cancel(a)
  PROVE  IInv'
  <1>1. PICK x : x = agent[a]
    OBVIOUS
  <1>2. x \in AgentRecords /\ Working(x)
    BY <1>1, Parts
  <1>3. PICK y : y = IF x.pc = "none"
                     THEN [stopped(x, "cancelled") EXCEPT !.round.fault = "other"]
                     ELSE [stopped(x, "paused") EXCEPT !.leaving = TRUE]
    OBVIOUS
  <1>4. y \in AgentRecords /\ Quiet(x, y)
    <2>1. CASE x.pc = "none"
      <3>1. PICK z : z = stopped(x, "cancelled")
        OBVIOUS
      <3>2. z \in AgentRecords /\ Quiet(x, z) /\ z.pc = "none" /\ z.round = x.round
        BY <1>2, <2>1, <3>1, StoppedIsQuiet
      <3>3. PICK r : r = [z.round EXCEPT !.fault = "other"]
        OBVIOUS
      <3>4. r \in Rounds /\ r.plan = x.round.plan /\ r.reply = x.round.reply
            /\ r.outcome = x.round.outcome
        BY <3>2, <3>3 DEF AgentRecords, Rounds, Faults
      <3>5. y = [z EXCEPT !.round = r]
        BY <1>3, <2>1, <3>1, <3>3
      <3>6. /\ y \in AgentRecords /\ y.pc = "none" /\ y.round = r /\ y.sched = z.sched
            /\ y.conv = z.conv /\ y.status = z.status /\ y.budget = z.budget
        BY <3>2, <3>4, <3>5 DEF AgentRecords
      <3> QED BY <3>2, <3>4, <3>6 DEF Quiet, Working, AtWork
    <2>2. CASE x.pc # "none"
      <3>1. PICK z : z = stopped(x, "paused")
        OBVIOUS
      <3>2. z \in AgentRecords /\ Quiet(x, z)
        BY <1>2, <3>1, StoppedIsQuiet
      <3>3. y = [z EXCEPT !.leaving = TRUE]
        BY <1>3, <2>2, <3>1
      <3> QED BY <3>2, <3>3 DEF AgentRecords, Quiet, Working
    <2> QED BY <2>1, <2>2
  <1>5. agent' = [agent EXCEPT ![a] = y]
    BY <1>1, <1>3 DEF Cancel
  <1>6. env' \in [crashes : Nat, stops : Nat, resumes : Nat]
    BY Parts DEF Cancel, Stopping
  <1> QED BY <1>1, <1>4, <1>5, <1>6, Parts, QuietStep DEF Cancel, Stopping

\* A mailbox becomes ripe.
LEMMA LapseKeeps ==
  ASSUME IInv, NEW a \in Agents, NEW c \in Conversations, Lapse(a, c)
  PROVE  IInv'
  <1>1. Good([chat EXCEPT !.box[a][c].ripe = TRUE], agent, memory, hist, world)
    BY Parts, LapsedIsGood
  <1>2. Good(chat', agent', memory', hist', world)
    BY <1>1 DEF Lapse
  <1> QED BY <1>2, Parts, Assemble DEF Lapse

\* The batch is in the conversation of the context, so it is received.
LEMMA ReceiveKeeps ==
  ASSUME IInv, NEW a \in Agents, Receive(a)
  PROVE  IInv'
  <1>1. PICK x : x = agent[a]
    OBVIOUS
  <1>2. x \in AgentRecords /\ Working(x) /\ x.pc = "taken"
    BY <1>1, Parts DEF Receive, At
  <1>3. Suits(x, chat.batch[a])
    BY <1>1, Parts, GoodIsOrderly
  <1>4. ~(active(chat, a) /\ agent[a].conv # chat.batch[a].conv)
    BY <1>1, <1>3 DEF Suits, active
  <1>5. PICK S : S = {i \in DOMAIN chat.log :
                        LET b == chat.batch[a] IN
                        /\ chat.log[i].conv = b.conv /\ i <= b.upper
                        /\ i > chat.box[a][b.conv].processed}
    OBVIOUS
  <1>6. /\ agent' = [agent EXCEPT ![a].needs = TRUE, ![a].pc = "received"]
        /\ chat' = delivered(chat, a)
        /\ hist' = [hist EXCEPT !.seen[a] = @ \cup S]
        /\ UNCHANGED <<world, memory, pump, timer, fatal, env>>
    BY <1>4, <1>5 DEF Receive
  <1>7. S \in SUBSET Nat
    <2>1. DOMAIN chat.log \subseteq Nat
      BY Parts, Logged
    <2> QED BY <1>5, <2>1
  <1>8. \A i \in DOMAIN chat.log :
           /\ chat.log[i].conv = chat.batch[a].conv /\ i <= chat.batch[a].upper
           /\ i > chat.box[a][chat.batch[a].conv].processed
           => i \in S
    BY <1>5
  <1>9. PICK y : y = [x EXCEPT !.needs = TRUE, !.pc = "received"]
    OBVIOUS
  <1>10. y \in AgentRecords /\ Quiet(x, y)
    BY <1>2, <1>9 DEF AgentRecords, Quiet, Working, AtWork
  <1>11. PICK ag : ag = [agent EXCEPT ![a] = y]
    OBVIOUS
  <1>12. agent' = ag
    BY <1>1, <1>6, <1>9, <1>11, Parts
  <1>13. Good(chat, ag, memory, hist, world)
    BY <1>1, <1>10, <1>11, Parts, QuietIsGood
  <1>14. Good(delivered(chat, a), ag, memory, [hist EXCEPT !.seen[a] = @ \cup S], world)
    BY <1>7, <1>8, <1>13, DeliveredIsGood
  <1>15. Good(chat', agent', memory', hist', world)
    BY <1>6, <1>12, <1>14
  <1> QED BY <1>6, <1>15, Parts, Assemble

\* A round without a plan has no message.
LEMMA PlanKeeps ==
  ASSUME IInv, NEW a \in Agents, Plan(a)
  PROVE  IInv'
  <1>1. PICK x : x = agent[a]
    OBVIOUS
  <1>2. x \in AgentRecords /\ Working(x) /\ x.pc = "received"
    BY <1>1, Parts DEF Plan, At
  <1>3. CASE x.round.plan # Unplanned
    <2>1. PICK y : y = [x EXCEPT !.pc = "planned"]
      OBVIOUS
    <2>2. y \in AgentRecords /\ Quiet(x, y)
      BY <1>2, <2>1 DEF AgentRecords, Quiet, Working, AtWork
    <2>3. agent' = [agent EXCEPT ![a] = y] /\ memory' = memory
      BY <1>1, <1>3, <2>1, Parts DEF Plan, Round
    <2> QED BY <1>1, <2>2, <2>3, Parts, QuietStep DEF Plan
  <1>4. CASE x.round.plan = Unplanned
    <2>0. PICK cooled \in BOOLEAN :
            \E p \in {plan(memory, chat, world, a, cooled)} :
              /\ agent' = [agent EXCEPT ![a].pc = "planned", ![a].round.plan = p]
              /\ memory' = lent(memory, chat, a, p)
      BY <1>1, <1>4 DEF Plan, Round
    <2>1. PICK p \in {plan(memory, chat, world, a, cooled)} :
            /\ agent' = [agent EXCEPT ![a].pc = "planned", ![a].round.plan = p]
            /\ memory' = lent(memory, chat, a, p)
      BY <2>0
    <2>2. p \in Plans /\ Ascends(memory, p)
      BY <2>1, Parts, Planned
    <2>3. PICK r : r = [x.round EXCEPT !.plan = p]
      OBVIOUS
    <2>4. r \in Rounds /\ r.plan = p /\ r.reply = x.round.reply /\ r.outcome = x.round.outcome
      BY <1>2, <2>2, <2>3 DEF AgentRecords, Rounds
    <2>5. PICK y : y = [x EXCEPT !.pc = "planned", !.round = r]
      OBVIOUS
    <2>6. /\ y \in AgentRecords /\ y.pc = "planned" /\ y.round = r /\ y.sched = x.sched
          /\ y.conv = x.conv /\ y.status = x.status /\ y.budget = x.budget
      BY <1>2, <2>4, <2>5 DEF AgentRecords
    <2>7. PICK ag : ag = [agent EXCEPT ![a] = y]
      OBVIOUS
    <2>8. agent' = ag
      <3>1. [x EXCEPT !.pc = "planned", !.round.plan = p] = y
        BY <1>2, <2>3, <2>5 DEF AgentRecords
      <3>2. agent' = [agent EXCEPT ![a] = [agent[a] EXCEPT !.pc = "planned", !.round.plan = p]]
        BY <2>1, Parts
      <3> QED BY <1>1, <2>7, <3>1, <3>2
    <2>9. Welcome(chat, memory, hist, world, x, x, a)
      BY <1>1, <1>2, Parts, QuietSelf, QuietIsWelcome
    <2>10. ~Speaks(x.round) /\ x.round.outcome = FALSE
      BY <1>2, <1>4 DEF Speaks, Unplanned, Work, Working, AgentRecords, Rounds
    <2>11. Working(y) /\ Sending(y, chat.outbox[a])
      BY <1>2, <2>4, <2>6, <2>9, <2>10 DEF Working, AtWork, Welcome, Sending
    <2>12. a \notin hist.redone => Bound(chat, y, a)
      BY <2>9, <2>10 DEF Welcome, Bound
    <2>13. Welcome(chat, memory, hist, world, agent[a], y, a)
      BY <1>1, <2>2, <2>4, <2>6, <2>9, <2>11, <2>12 DEF Welcome, Allocated
    <2>14. Good(chat, ag, memory, hist, world)
      BY <2>6, <2>7, <2>13, Parts, OneIsGood
    <2>15. PICK me : me = lent(memory, chat, a, p)
      OBVIOUS
    <2>16. me \in Memories /\ me.summary = memory.summary
      <3>1. chat.batch[a].upper \in Nat
        BY Parts DEF Stores, Batches, NoBatch, None
      <3>2. PICK u \in Nat : u = chat.batch[a].upper
        BY <3>1
      <3>3. me = [memory EXCEPT !.borrowed[a] = u] \/ me = memory
        BY <2>15, <3>2 DEF lent
      <3> QED BY <3>2, <3>3, Parts DEF Memories
    <2>17. Good(chat, ag, me, hist, world)
      BY <2>14, <2>16, MemoryIsGood
    <2>18. Good(chat', agent', memory', hist', world)
      BY <2>1, <2>8, <2>15, <2>17 DEF Plan
    <2> QED BY <2>18, Parts, Assemble DEF Plan
  <1> QED BY <1>3, <1>4

\* A request is counted in the budget of its batch, if anything is left of it.
LEMMA AskKeeps ==
  ASSUME IInv, NEW a \in Agents, Ask(a)
  PROVE  IInv'
  <1>1. PICK x : x = agent[a]
    OBVIOUS
  <1>2. x \in AgentRecords /\ Working(x) /\ x.pc = "planned" /\ x.round.reply = NoReply
    BY <1>1, Parts DEF Ask, At, Round
  <1>3. PICK k \in Nat : k = chat.batch[a].upper
    BY Parts, BatchFields
  <1>4. PICK b : b = workBudget(x.budget, k)
    OBVIOUS
  <1>5. /\ b \in Budgets /\ b.key = k /\ b.used = (IF x.budget.key = k THEN x.budget.used ELSE 0)
    BY <1>2, <1>3, <1>4 DEF workBudget, AgentRecords, Budgets
  <1>6. world.rounds \in Nat \ {0}
    BY Parts, WorldAssumption
  <1>7. Welcome(chat, memory, hist, world, x, x, a)
    BY <1>1, <1>2, Parts, QuietSelf, QuietIsWelcome
  <1>8. Allocated(x, hist.asked[a], world)
    BY <1>7 DEF Welcome
  <1>9. CASE b.used >= world.rounds
    <2>1. b.key = x.budget.key /\ b.used = x.budget.used
      BY <1>5, <1>6, <1>9
    <2>2. PICK z : z = [x EXCEPT !.budget = b]
      OBVIOUS
    <2>3. z \in AgentRecords /\ Quiet(x, z) /\ z.round = x.round
      BY <1>2, <1>5, <2>1, <2>2 DEF AgentRecords, Quiet, Working
    <2>4. Fail(a, z, "budget") /\ hist' = hist
      BY <1>1, <1>3, <1>4, <1>9, <2>2 DEF Ask
    <2>5. "budget" \in Faults \ {"internal"}
      BY DEF Faults
    <2> QED BY <1>1, <2>3, <2>4, <2>5, FailStep
  <1>10. CASE ~(b.used >= world.rounds)
    <2>1. /\ agent' = [agent EXCEPT ![a].budget = [b EXCEPT !.used = b.used + 1], ![a].pc = "asked"]
          /\ hist' = [hist EXCEPT !.asked[a] =
               [key |-> b.key, n |-> IF @.key = b.key THEN @.n + 1 ELSE 1]]
          /\ UNCHANGED <<world, chat, memory, pump, timer, fatal, env>>
      BY <1>1, <1>3, <1>4, <1>10 DEF Ask
    <2>2. PICK q : q = [b EXCEPT !.used = b.used + 1]
      OBVIOUS
    <2>3. q \in Budgets /\ q.key = k /\ q.used = b.used + 1
      BY <1>5, <2>2 DEF Budgets
    <2>4. PICK y : y = [x EXCEPT !.budget = q, !.pc = "asked"]
      OBVIOUS
    <2>5. /\ y \in AgentRecords /\ y.pc = "asked" /\ y.round = x.round /\ y.sched = x.sched
          /\ y.conv = x.conv /\ y.status = x.status /\ y.budget = q
      BY <1>2, <2>3, <2>4 DEF AgentRecords
    <2>6. agent' = [agent EXCEPT ![a] = y]
      BY <1>1, <2>1, <2>2, <2>4, Parts
    <2>7. PICK n \in [key : Nat, n : Nat] : n = hist.asked[a]
      BY Parts DEF Histories
    <2>8. PICK n2 : n2 = [key |-> k, n |-> IF n.key = k THEN n.n + 1 ELSE 1]
      OBVIOUS
    <2>9. n2 \in [key : Nat, n : Nat] /\ n2.key = k /\ n2.n = (IF n.key = k THEN n.n + 1 ELSE 1)
      BY <1>3, <2>7, <2>8
    <2>10. PICK h : h = [hist EXCEPT !.asked[a] = n2]
      OBVIOUS
    <2>11. hist' = h
      BY <1>5, <2>1, <2>7, <2>8, <2>10
    <2>12. /\ h \in Histories /\ h.seen = hist.seen /\ h.said = hist.said /\ h.chain = hist.chain
           /\ h.redone = hist.redone /\ h.asked[a] = n2
           /\ \A d \in Agents \ {a} : h.asked[d] = hist.asked[d]
      BY <2>9, <2>10, Parts DEF Histories
    <2>13. Allocated(y, n2, world)
      <3>1. x.budget.used \in Nat /\ x.budget.key \in Nat
        BY <1>2 DEF AgentRecords, Budgets
      <3>2. n.key = x.budget.key /\ n.n <= x.budget.used /\ n.n \in Nat
        BY <1>8, <2>7 DEF Allocated
      <3>3. b.used < world.rounds /\ b.used \in Nat
        BY <1>5, <1>6, <1>10, <3>1
      <3>4. n2.n <= b.used + 1
        BY <1>5, <2>9, <3>1, <3>2, <3>3
      <3>5. b.used + 1 <= world.rounds
        BY <1>6, <3>3
      <3> QED BY <2>3, <2>5, <2>9, <3>4, <3>5 DEF Allocated
    <2>14. Ascends(memory, y.round.plan) /\ Working(y) /\ Sending(y, chat.outbox[a])
      BY <1>2, <1>7, <2>5 DEF Welcome, Working, AtWork, Sending
    <2>15. a \notin hist.redone => Bound(chat, y, a)
      BY <1>7, <2>5 DEF Welcome, Bound
    <2>16. Welcome(chat, memory, h, world, agent[a], y, a)
      BY <1>1, <1>7, <2>5, <2>12, <2>13, <2>14, <2>15 DEF Welcome
    <2>17. Good(chat, [agent EXCEPT ![a] = y], memory, h, world)
      BY <2>5, <2>12, <2>16, Parts, AccountIsGood, ZenonT(40)
    <2>18. Good(chat', agent', memory', hist', world)
      BY <2>1, <2>6, <2>11, <2>17
    <2> QED BY <2>1, <2>11, <2>12, <2>18, Parts, Assemble
  <1> QED BY <1>9, <1>10

\* A summary that is still current ascends, so it is committed.
LEMMA SummariseKeeps ==
  ASSUME IInv, NEW a \in Agents, Summarise(a)
  PROVE  IInv'
  <1>1. PICK x : x = agent[a]
    OBVIOUS
  <1>2. x \in AgentRecords /\ Working(x) /\ x.pc = "answered" /\ x.round.plan.kind = "compact"
    BY <1>1, Parts DEF Summarise, At, Round
  <1>3. PICK p : p = x.round.plan
    OBVIOUS
  <1>4. p \in Digests
    <2>1. p \in Plans
      BY <1>2, <1>3 DEF AgentRecords, Rounds
    <2> QED BY <1>2, <1>3, <2>1 DEF Plans, Unplanned, Work
  <1>5. Ascends(memory, p)
    BY <1>1, <1>3, Parts DEF Good, GoodWork
  <1>6. PICK v \in [covered : Nat, version : Nat, failures : Nat] : v = memory.summary[p.conv]
    BY <1>4, Parts DEF Memories, Digests
  <1>7. p.kind = "compact" /\ p.from \in Nat /\ p.upto \in Nat /\ p.version \in Nat
    BY <1>4 DEF Digests
  <1>8. current(memory, p) => ascends(memory, p)
    BY <1>5, <1>6, <1>7 DEF current, ascends, Ascends
  <1>9. /\ memory' = commitSummary(memory, p)
        /\ hist' = IF memory' = memory THEN hist
                   ELSE [hist EXCEPT !.chain[p.conv] =
                           Append(@, [from |-> p.from, upto |-> p.upto])]
        /\ agent' = [agent EXCEPT ![a].pc = "summed"]
        /\ UNCHANGED <<world, chat, pump, timer, fatal, env>>
    BY <1>1, <1>3, <1>8 DEF Summarise, Round
  <1>10. PICK y : y = [x EXCEPT !.pc = "summed"]
    OBVIOUS
  <1>11. y \in AgentRecords /\ Quiet(x, y)
    BY <1>2, <1>10 DEF AgentRecords, Quiet, Working, AtWork
  <1>12. PICK ag : ag = [agent EXCEPT ![a] = y]
    OBVIOUS
  <1>13. agent' = ag
    BY <1>1, <1>9, <1>10, <1>12
  <1>14. Good(chat, ag, memory, hist, world)
    BY <1>1, <1>11, <1>12, Parts, QuietIsGood
  <1>15. CASE current(memory, p)
    <2>1. Good(chat, ag, commitSummary(memory, p),
               [hist EXCEPT !.chain[p.conv] = Append(@, [from |-> p.from, upto |-> p.upto])], world)
      BY <1>4, <1>5, <1>14, <1>15, SummedIsGood
    <2>2. commitSummary(memory, p) # memory
      <3>1. PICK me : me = commitSummary(memory, p)
        OBVIOUS
      <3>2. me = [memory EXCEPT !.summary[p.conv] =
                    [covered |-> p.upto, version |-> p.version, failures |-> 0]]
        BY <1>15, <3>1 DEF commitSummary
      <3>3. p.conv \in Conversations
        BY <1>4 DEF Digests
      <3>4. me.summary[p.conv].covered = p.upto
        BY <3>2, <3>3, Parts DEF Memories
      <3>5. p.upto # v.covered
        BY <1>5, <1>6, <1>7, <1>15 DEF current, Ascends
      <3> QED BY <1>6, <3>1, <3>4, <3>5
    <2>3. Good(chat', agent', memory', hist', world)
      BY <1>9, <1>13, <2>1, <2>2
    <2>4. hist'.redone = hist.redone
      BY <1>9, <2>2, Parts DEF Histories
    <2> QED BY <1>9, <2>3, <2>4, Parts, Assemble
  <1>16. CASE ~current(memory, p)
    <2>1. commitSummary(memory, p) = memory
      BY <1>16 DEF commitSummary
    <2>2. Good(chat', agent', memory', hist', world) /\ hist' = hist
      BY <1>9, <1>13, <1>14, <2>1
    <2> QED BY <1>9, <2>2, Parts, Assemble
  <1> QED BY <1>15, <1>16

\* A digest that is refused covers nothing.
LEMMA RefuseDigestKeeps ==
  ASSUME IInv, NEW a \in Agents, RefuseDigest(a)
  PROVE  IInv'
  <1>1. PICK x : x = agent[a]
    OBVIOUS
  <1>2. x \in AgentRecords /\ Working(x) /\ x.pc = "answered" /\ x.round.plan.kind = "compact"
    BY <1>1, Parts DEF RefuseDigest, At, Round
  <1>3. PICK p : p = x.round.plan
    OBVIOUS
  <1>4. p \in Digests
    <2>1. p \in Plans
      BY <1>2, <1>3 DEF AgentRecords, Rounds
    <2> QED BY <1>2, <1>3, <2>1 DEF Plans, Unplanned, Work
  <1>5. PICK c \in Conversations : c = p.conv
    BY <1>4 DEF Digests
  <1>6. PICK v \in [covered : Nat, version : Nat, failures : Nat] : v = memory.summary[c]
    BY Parts DEF Memories
  <1>7. PICK me : me = recordFailure(memory, p)
    OBVIOUS
  <1>8. PICK v2 : v2 = [v EXCEPT !.failures = @ + 1]
    OBVIOUS
  <1>9. v2 \in [covered : Nat, version : Nat, failures : Nat]
        /\ v2.covered = v.covered /\ v2.version = v.version
    BY <1>8
  <1>10. me = [memory EXCEPT !.summary[c] = v2] \/ me = memory
    BY <1>5, <1>6, <1>7, <1>8, Parts DEF recordFailure, Memories
  <1>11. /\ me \in Memories
         /\ \A d \in Conversations : /\ me.summary[d].covered = memory.summary[d].covered
                                     /\ me.summary[d].version = memory.summary[d].version
    BY <1>6, <1>9, <1>10, Parts DEF Memories
  <1>12. PICK r : r = [x.round EXCEPT !.outcome = TRUE]
    OBVIOUS
  <1>13. r \in Rounds /\ r.plan = x.round.plan /\ r.reply = x.round.reply
    BY <1>2, <1>12 DEF AgentRecords, Rounds
  <1>14. PICK y : y = [x EXCEPT !.pc = "acted", !.round = r]
    OBVIOUS
  <1>15. /\ y \in AgentRecords /\ y.pc = "acted" /\ y.round = r /\ y.sched = x.sched
         /\ y.conv = x.conv /\ y.status = x.status /\ y.budget = x.budget
    BY <1>2, <1>13, <1>14 DEF AgentRecords
  <1>16. r.plan.kind = "compact" /\ ~Speaks(r)
    BY <1>2, <1>13 DEF Speaks, Work
  <1>17. PICK ag : ag = [agent EXCEPT ![a] = y]
    OBVIOUS
  <1>18. agent' = ag
    BY <1>1, <1>12, <1>14, <1>17 DEF RefuseDigest
  <1>19. Welcome(chat, memory, hist, world, x, x, a)
    BY <1>1, <1>2, Parts, QuietSelf, QuietIsWelcome
  <1>20. Working(y) /\ Sending(y, chat.outbox[a])
    BY <1>2, <1>15, <1>16, <1>19 DEF Working, AtWork, Welcome, Sending
  <1>21. a \notin hist.redone => Bound(chat, y, a)
    BY <1>13, <1>15, <1>19 DEF Welcome, Bound, Speaks
  <1>22. Welcome(chat, memory, hist, world, agent[a], y, a)
    BY <1>1, <1>13, <1>15, <1>19, <1>20, <1>21 DEF Welcome, Allocated
  <1>23. Good(chat, ag, memory, hist, world)
    BY <1>15, <1>17, <1>22, Parts, OneIsGood
  <1>24. Good(chat, ag, me, hist, world)
    BY <1>11, <1>23, MemoryIsGood
  <1>25. Good(chat', agent', memory', hist', world)
    BY <1>1, <1>3, <1>7, <1>18, <1>24 DEF RefuseDigest, Round
  <1> QED BY <1>25, Parts, Assemble DEF RefuseDigest

\* The round is recorded, and its message with it.
LEMMA CommitKeeps ==
  ASSUME IInv, NEW a \in Agents, Commit(a)
  PROVE  IInv'
  <1>1. PICK x : x = agent[a]
    OBVIOUS
  <1>2. x \in AgentRecords /\ Working(x)
    BY <1>1, Parts
  <1>3. Sends(a) <=> Speaks(x.round)
    BY <1>1 DEF Sends, Speaks, Round
  <1>4. x.pc = "acted" \/ ~Speaks(x.round)
    BY <1>1, <1>3 DEF Commit, At
  <1>5. NewRound \in Rounds
    <2>1. Unplanned \in Plans
      BY DEF Plans
    <2> QED BY <2>1, Answers DEF NewRound, Rounds, Faults
  <1>6. PICK t \in BOOLEAN : t = continues(x.round)
    BY <1>2 DEF continues
  <1>7. PICK y : y = [x EXCEPT !.needs = t, !.pc = "ending", !.round = NewRound,
                               !.sched = IF t THEN "ready" ELSE "none"]
    OBVIOUS
  <1>8. /\ y \in AgentRecords /\ y.conv = x.conv /\ y.status = x.status
        /\ y.budget = x.budget /\ y.round = NewRound /\ y.pc = "ending"
    BY <1>2, <1>5, <1>7 DEF AgentRecords
  <1>9. agent' = [agent EXCEPT ![a] = y]
    BY <1>1, <1>6, <1>7 DEF Commit, Round
  <1>10. PICK h : h = [hist EXCEPT !.said[a] = IF Sends(a) THEN @ + 1 ELSE @]
    OBVIOUS
  <1>11. /\ h \in Histories /\ h.seen = hist.seen /\ h.asked = hist.asked /\ h.chain = hist.chain
         /\ h.redone = hist.redone /\ (\A b \in Agents \ {a} : h.said[b] = hist.said[b])
         /\ h.said[a] = hist.said[a] + (IF Speaks(x.round) THEN 1 ELSE 0)
    <2>1. PICK n \in Nat : n = hist.said[a]
      BY Parts DEF Histories
    <2>2. PICK n2 \in Nat : n2 = n + (IF Speaks(x.round) THEN 1 ELSE 0)
      OBVIOUS
    <2>3. n2 = IF Sends(a) THEN n + 1 ELSE n
      BY <1>3, <2>1, <2>2
    <2>4. h = [hist EXCEPT !.said[a] = n2]
      BY <1>10, <2>1, <2>3
    <2> QED BY <2>1, <2>2, <2>4, Parts DEF Histories
  <1>12. Good([chat EXCEPT !.outbox[a] = None], [agent EXCEPT ![a] = y], memory, h, world)
    BY <1>1, <1>4, <1>8, <1>11, Parts, CommittedIsGood, ZenonT(40)
  <1>13. hist' = h /\ chat' = [chat EXCEPT !.outbox[a] = None]
    BY <1>10 DEF Commit
  <1>14. Good(chat', agent', memory', hist', world)
    BY <1>9, <1>12, <1>13 DEF Commit
  <1> QED BY <1>11, <1>13, <1>14, Parts, Assemble DEF Commit

\* What the store answers to the message of a round.  It is another one's only if a
\* reply was thrown away that had been carried out.
LEMMA Verdict ==
  ASSUME IInv, NEW a \in Agents, Sends(a)
  PROVE  /\ message(a) \in Messages
         /\ verdict(a) \in {"new", "known"} \cup (Faults \ {"protocol"})
         /\ verdict(a) = "new" => chat.outbox[a] = None
         /\ verdict(a) = "known" => chat.outbox[a] # None
         /\ verdict(a) = "internal" => hist.redone # {}
         /\ verdict(a) \in {"new", "known"} => a \notin chat.gone
  <1>1. PICK x \in AgentRecords : x = agent[a]
    BY Parts
  <1>2. x.round.reply \in Replies /\ x.round.reply.kind = "send" /\ Speaks(x.round)
    BY <1>1 DEF Sends, Round, Speaks, AgentRecords, Rounds
  <1>3. x.round.reply.conv \in Conversations /\ x.round.reply.to \subseteq Agents
    BY <1>2, Answers
  <1>4. PICK m : m = message(a)
    OBVIOUS
  <1>5. PICK f \in Nat : f = chat.batch[a].phase
    BY Parts, BatchFields
  <1>6. m = [conv |-> x.round.reply.conv, from |-> a, to |-> x.round.reply.to, phase |-> f]
    BY <1>1, <1>4, <1>5 DEF message, Round
  <1>7. m \in Messages /\ m.from = a /\ a # User
    BY <1>3, <1>6, ConversationAssumption DEF Messages
  <1>8. PICK v : v = refusal(chat, m, world.auto)
    OBVIOUS
  <1>9. verdict(a) = "permission" \/ verdict(a) = v
    BY <1>4, <1>8 DEF verdict
  <1>10. /\ v \in {"permission", "known", "internal", "loop", "new"}
         /\ v = "new" => chat.outbox[a] = None
         /\ v = "known" => chat.outbox[a] # None
         /\ v = "internal" => chat.outbox[a] # None /\ chat.log[chat.outbox[a]] # m
         /\ v # "permission" => a \notin chat.gone
    <2>1. m.from \in chat.gone => v = "permission"
      BY <1>8 DEF refusal
    <2>2. v \in {"permission", "known", "internal", "loop", "new"}
      BY <1>8 DEF refusal
    <2>3. CASE chat.outbox[a] = None
      <3>1. v \in {"permission", "loop", "new"}
        BY <1>7, <1>8, <2>3 DEF refusal
      <3> QED BY <1>7, <2>1, <2>3, <3>1
    <2>4. CASE chat.outbox[a] # None
      <3>1. \/ v = "permission"
            \/ v = "known"
            \/ v = "internal" /\ chat.log[chat.outbox[a]] # m
        BY <1>7, <1>8, <2>4 DEF refusal
      <3> QED BY <1>7, <2>1, <2>4, <3>1
    <2> QED BY <2>3, <2>4
  <1>11. v = "internal" => a \in hist.redone
    <2> SUFFICES ASSUME v = "internal", a \notin hist.redone PROVE FALSE
      OBVIOUS
    <2>1. Bound(chat, x, a)
      BY <1>1, Parts
    <2> QED BY <1>5, <1>6, <1>10, <2>1 DEF Bound
  <1> QED BY <1>4, <1>7, <1>9, <1>10, <1>11 DEF Faults

\* A message is sent once, or refused.
LEMMA SayKeeps ==
  ASSUME IInv, NEW a \in Agents, Say(a)
  PROVE  IInv'
  <1>1. PICK x : x = agent[a]
    OBVIOUS
  <1>2. x \in AgentRecords /\ Working(x) /\ x.pc = "acting" /\ Sends(a)
    BY <1>1, Parts DEF Say, At
  <1>3. PICK v : v = verdict(a)
    OBVIOUS
  <1>4. PICK m : m = message(a)
    OBVIOUS
  <1>5. /\ m \in Messages /\ v \in {"new", "known"} \cup (Faults \ {"protocol"})
        /\ v = "new" => chat.outbox[a] = None
        /\ v = "known" => chat.outbox[a] # None
        /\ v = "internal" => hist.redone # {}
    BY <1>2, <1>3, <1>4, Verdict
  <1>6. UNCHANGED <<world, memory, pump, hist, env>>
        /\ fatal' = (v = "internal" /\ agent[a].status = "active")
    BY <1>3 DEF Say
  <1>7. PICK y : y = [x EXCEPT !.pc = "acted"]
    OBVIOUS
  <1>8. /\ y \in AgentRecords /\ y.pc = "acted" /\ y.round = x.round /\ y.sched = "running"
        /\ y.conv = x.conv /\ y.status = x.status /\ y.budget = x.budget
    BY <1>2, <1>7 DEF AgentRecords, Working, AtWork
  <1>9. PICK h : h = hist
    OBVIOUS
  \* A store that holds the message makes a good state with the message carried out.
  <1>10. ASSUME NEW ch, Good(ch, agent, memory, hist, world), ch.outbox[a] # None
         PROVE  Good(ch, [agent EXCEPT ![a] = y], memory, hist, world)
    <2>1. Welcome(ch, memory, hist, world, x, x, a)
      BY <1>1, <1>2, <1>10, QuietSelf, QuietIsWelcome
    <2>2. Working(y) /\ Sending(y, ch.outbox[a])
      BY <1>2, <1>8, <1>10 DEF Working, AtWork, Sending
    <2>3. a \notin hist.redone => Bound(ch, y, a)
      BY <1>8, <2>1 DEF Welcome, Bound
    <2>4. Welcome(ch, memory, hist, world, agent[a], y, a)
      BY <1>1, <1>8, <2>1, <2>2, <2>3 DEF Welcome, Allocated
    <2> QED BY <1>8, <1>10, <2>4, OneIsGood
  <1>11. CASE v = "new"
    <2>1. PICK late \in BOOLEAN :
            RefreshMail(append(chat, m, late), [agent EXCEPT ![a].pc = "acted"], world)
      BY <1>3, <1>4, <1>11 DEF Say
    <2>2. m.from = a /\ m = [conv |-> x.round.reply.conv, from |-> a, to |-> x.round.reply.to,
                             phase |-> chat.batch[a].phase]
      BY <1>1, <1>4 DEF message, Round
    <2>3. Speaks(agent[a].round) /\ agent[a].sched # "none"
      BY <1>1, <1>2 DEF Sends, Speaks, Round, Working, AtWork
    <2>4. PICK ch : ch = append(chat, m, late)
      OBVIOUS
    <2>5. Good(ch, agent, memory, hist, world) /\ ch.outbox[a] # None
      BY <1>1, <1>5, <1>11, <2>2, <2>3, <2>4, Parts, AppendedIsGood
    <2>6. PICK ag : ag = [agent EXCEPT ![a] = y]
      OBVIOUS
    <2>7. Good(ch, ag, memory, h, world)
      BY <1>9, <1>10, <2>5, <2>6
    <2>8. RefreshMail(ch, ag, world)
      BY <1>1, <1>7, <2>1, <2>4, <2>6
    <2> QED BY <1>6, <1>9, <1>11, <2>7, <2>8, Parts, LookStep
  <1>12. CASE v = "known"
    <2>1. RefreshMail(chat, [agent EXCEPT ![a].pc = "acted"], world)
      BY <1>3, <1>12 DEF Say
    <2>2. PICK ch : ch = chat
      OBVIOUS
    <2>3. PICK ag : ag = [agent EXCEPT ![a] = y]
      OBVIOUS
    <2>4. Good(ch, ag, memory, h, world)
      BY <1>5, <1>9, <1>10, <1>12, <2>2, <2>3, Parts
    <2>5. RefreshMail(ch, ag, world)
      BY <1>1, <1>7, <2>1, <2>2, <2>3
    <2> QED BY <1>6, <1>9, <1>12, <2>4, <2>5, Parts, LookStep
  <1>13. CASE v \notin {"new", "known"}
    <2>1. agent' = [agent EXCEPT ![a] = failed(x, v)] /\ UNCHANGED <<chat, timer>>
      BY <1>1, <1>3, <1>13 DEF Say
    <2>2. Good(chat, [agent EXCEPT ![a] = failed(x, v)], memory, hist, world)
      BY <1>1, <1>2, <1>5, <1>13, Parts, QuietSelf, FailedIsGood
    <2>3. Good(chat', agent', memory', hist', world)
      BY <1>6, <2>1, <2>2
    <2> QED BY <1>5, <1>6, <2>1, <2>3, Parts, Assemble
  <1> QED BY <1>11, <1>12, <1>13

\* The user is no agent, and has no outbox.
LEMMA SendMessageKeeps ==
  ASSUME IInv, NEW c \in Conversations, NEW to \in SUBSET Agents, SendMessage(c, to)
  PROVE  IInv'
  <1>1. PICK m : m = [conv |-> c, from |-> User, to |-> to, phase |-> Len(chat.log) + 1]
    OBVIOUS
  <1>2. m \in Messages /\ \A a \in Agents : m.from # a
    BY <1>1, Parts, Logged, ConversationAssumption DEF Messages
  <1>3. PICK late \in BOOLEAN : RefreshMail(append(chat, m, late), agent, world)
    BY <1>1 DEF SendMessage
  <1>4. PICK ch : ch = append(chat, m, late)
    OBVIOUS
  <1>5. PICK ag : ag = agent
    OBVIOUS
  <1>6. PICK h : h = hist
    OBVIOUS
  <1>7. Good(ch, ag, memory, h, world)
    BY <1>2, <1>4, <1>5, <1>6, Parts, AppendedIsGood
  <1>8. RefreshMail(ch, ag, world)
    BY <1>3, <1>4, <1>5
  <1> QED BY <1>6, <1>7, <1>8, Parts, LookStep DEF SendMessage

\* What was not worked on stays behind the cursor of an agent that is dismissed.
LEMMA DismissedIsGood ==
  ASSUME NEW ch, NEW ag, NEW me, NEW h, NEW w, Good(ch, ag, me, h, w), NEW a \in Agents
  PROVE  Good(dismiss(ch, a), ag, me, h, w) /\ a \in dismiss(ch, a).gone
  <1>1. ch \in Stores
    BY DEF Good, GoodTypes
  <1>2. PICK nbox : nbox = [c \in Conversations |->
                              [Empty EXCEPT !.processed = ch.box[a][c].processed]]
    OBVIOUS
  <1>3. nbox \in [Conversations -> Boxes]
        /\ \A c \in Conversations : /\ nbox[c].processed = ch.box[a][c].processed
                                    /\ nbox[c].first = None
    BY <1>1, <1>2, ZenonT(40) DEF Empty, Boxes, Stores, None
  <1>4. PICK ch2 : ch2 = dismiss(ch, a)
    OBVIOUS
  <1>5. ch2 = [ch EXCEPT !.gone = ch.gone \cup {a}, !.batch[a] = NoBatch, !.box[a] = nbox]
    BY <1>2, <1>4 DEF dismiss
  <1>6. /\ ch2 \in Stores /\ ch2.log = ch.log /\ ch2.outbox = ch.outbox
        /\ ch2.gone = ch.gone \cup {a} /\ ch2.batch[a] = NoBatch /\ ch2.box[a] = nbox
        /\ \A b \in Agents \ {a} : ch2.batch[b] = ch.batch[b] /\ ch2.box[b] = ch.box[b]
    BY <1>1, <1>3, <1>5 DEF Stores
  <1>7. Fits(ch.log, ch.box[a], ch.batch[a])
    BY GoodIsOrderly DEF Orderly
  <1>8. Fits(ch2.log, nbox, NoBatch)
    BY <1>3, <1>6, <1>7 DEF Fits
  <1>9. Orderly(ch2, a, h.seen[a])
    BY <1>3, <1>6, <1>8 DEF Orderly
  <1>10. \A b \in Agents \ {a} : Orderly(ch, b, h.seen[b]) /\ Suits(ag[b], ch.batch[b])
    BY GoodIsOrderly
  <1>11. \A b \in Agents \ {a} : Orderly(ch2, b, h.seen[b])
    BY <1>6, <1>10 DEF Orderly
  <1>12. \A b \in Agents : /\ Orderly(ch2, b, h.seen[b]) /\ Suits(ag[b], ch2.batch[b])
                           /\ b \notin ch2.gone => ch2.batch[b].phase = ch.batch[b].phase
    BY <1>6, <1>9, <1>10, <1>11 DEF Suits
  <1>13. h \in Histories /\ ch.gone \subseteq ch2.gone
    BY <1>6 DEF Good, GoodTypes
  <1>14. Good(ch2, ag, me, h, w)
    BY <1>6, <1>12, <1>13, StoreIsGood
  <1> QED BY <1>4, <1>6, <1>14

\* The tombstone is there when the agent is dismissed.
LEMMA DismissKeeps ==
  ASSUME IInv, NEW a \in Agents, Dismiss(a)
  PROVE  IInv'
  <1>1. PICK x : x = agent[a]
    OBVIOUS
  <1>2. x \in AgentRecords /\ Working(x)
    BY <1>1, Parts
  <1>3. PICK t \in BOOLEAN : t = (x.aborted \/ x.pc # "none")
    OBVIOUS
  <1>4. PICK y : y = stopped(x, "dismissed")
    OBVIOUS
  <1>5. y = [x EXCEPT !.status = "dismissed", !.susp = "stop", !.aborted = t]
    BY <1>3, <1>4 DEF stopped
  <1>6. /\ y \in AgentRecords /\ y.pc = x.pc /\ y.round = x.round /\ y.sched = x.sched
        /\ y.conv = x.conv /\ y.budget = x.budget
    BY <1>2, <1>5 DEF AgentRecords
  <1>7. PICK ch : ch = dismiss(chat, a)
    OBVIOUS
  <1>8. Good(ch, agent, memory, hist, world) /\ a \in ch.gone
    BY <1>7, Parts, DismissedIsGood
  <1>9. Welcome(ch, memory, hist, world, x, x, a)
    BY <1>1, <1>2, <1>8, QuietSelf, QuietIsWelcome
  <1>10. Welcome(ch, memory, hist, world, agent[a], y, a)
    BY <1>1, <1>6, <1>8, <1>9 DEF Welcome, Allocated, Working, Sending, Bound
  <1>11. PICK ag : ag = [agent EXCEPT ![a] = y]
    OBVIOUS
  <1>12. PICK h : h = hist
    OBVIOUS
  <1>13. Good(ch, ag, memory, h, world)
    BY <1>6, <1>8, <1>10, <1>11, <1>12, OneIsGood
  <1>14. UNCHANGED <<world, memory, pump, fatal, hist>>
         /\ env' \in [crashes : Nat, stops : Nat, resumes : Nat]
    BY Parts DEF Dismiss, Stopping
  <1>15. CASE At(a, "none")
    <2>1. RefreshMail(ch, ag, world)
      BY <1>1, <1>4, <1>7, <1>11, <1>15 DEF Dismiss
    <2> QED BY <1>12, <1>13, <1>14, <2>1, Parts, LookStep
  <1>16. CASE ~At(a, "none")
    <2>1. agent' = ag /\ chat' = ch /\ timer' = timer
      BY <1>1, <1>4, <1>7, <1>11, <1>16 DEF Dismiss
    <2>2. Good(chat', agent', memory', hist', world)
      BY <1>12, <1>13, <1>14, <2>1
    <2> QED BY <1>14, <2>1, <2>2, Parts, Assemble
  <1> QED BY <1>15, <1>16

\* The host allows more, and may ask again for a reply that was carried out.
LEMMA ResumeKeeps ==
  ASSUME IInv, NEW a \in Agents, Resume(a)
  PROVE  IInv'
  <1>1. PICK x : x = agent[a]
    OBVIOUS
  <1>2. x \in AgentRecords /\ Working(x) /\ (x.status # "active" => x.pc = "none")
    BY <1>1, Parts DEF Resume, At
  <1>3. PICK again \in BOOLEAN :
          again = (x.status = "paused" /\ (loops(x) \/ x.round.fault = "protocol"))
    OBVIOUS
  <1>4. PICK b : b = IF x.status = "paused" THEN renewed(x.budget) ELSE x.budget
    OBVIOUS
  <1>5. PICK r : r = IF again THEN [repaired(x.round) EXCEPT !.retries = 0] ELSE x.round
    OBVIOUS
  <1>6. PICK l : l = IF x.status = "paused" /\ loops(x) THEN NoReply ELSE x.last
    OBVIOUS
  <1>7. PICK n : n = IF x.status = "paused" /\ loops(x) THEN 0 ELSE x.repeated
    OBVIOUS
  <1>8. PICK y : y = [x EXCEPT !.status = "active", !.susp = "none", !.budget = b, !.round = r,
                               !.last = l, !.repeated = n]
    OBVIOUS
  <1>9. PICK h : h = [hist EXCEPT
                        !.asked[a].n = IF b # x.budget THEN 0 ELSE @,
                        !.redone = IF again /\ chat.outbox[a] # None THEN @ \cup {a} ELSE @]
    OBVIOUS
  <1>10. b \in Budgets /\ b.key = x.budget.key /\ (b = x.budget \/ b.used = 0)
    BY <1>2, <1>4 DEF renewed, AgentRecords, Budgets
  <1>11. /\ r \in Rounds /\ r.plan = x.round.plan /\ r.outcome = x.round.outcome
         /\ again => r.reply = NoReply
         /\ ~again => r = x.round
    BY <1>2, <1>5, Answers DEF repaired, AgentRecords, Rounds
  <1>12. l \in Replies /\ n \in Nat
    BY <1>2, <1>6, <1>7, Answers DEF AgentRecords
  <1>13. /\ y \in AgentRecords /\ y.pc = x.pc /\ y.round = r /\ y.sched = x.sched
         /\ y.conv = x.conv /\ y.budget = b /\ y.status = "active"
    BY <1>2, <1>8, <1>10, <1>11, <1>12 DEF AgentRecords
  <1>14. PICK k \in [key : Nat, n : Nat] : k = hist.asked[a]
    BY Parts DEF Histories
  <1>15. PICK k2 : k2 = [k EXCEPT !.n = IF b # x.budget THEN 0 ELSE @]
    OBVIOUS
  <1>16. k2 \in [key : Nat, n : Nat] /\ k2.key = k.key /\ k2.n = (IF b # x.budget THEN 0 ELSE k.n)
    BY <1>14, <1>15
  <1>17. PICK R : R = IF again /\ chat.outbox[a] # None THEN hist.redone \cup {a} ELSE hist.redone
    OBVIOUS
  <1>18. h = [hist EXCEPT !.asked[a] = k2, !.redone = R]
    BY <1>9, <1>14, <1>15, <1>17, Parts DEF Histories
  <1>19. /\ h \in Histories /\ h.seen = hist.seen /\ h.said = hist.said /\ h.chain = hist.chain
         /\ h.asked[a] = k2 /\ (\A c \in Agents \ {a} : h.asked[c] = hist.asked[c])
         /\ h.redone = R /\ hist.redone \subseteq R /\ R \subseteq hist.redone \cup {a}
         /\ (again /\ chat.outbox[a] # None => a \in R)
    BY <1>16, <1>17, <1>18, Parts DEF Histories
  <1>20. Welcome(chat, memory, hist, world, x, x, a)
    BY <1>1, <1>2, Parts, QuietSelf, QuietIsWelcome
  <1>21. Allocated(y, k2, world)
    <2>1. k.key = x.budget.key /\ k.n <= x.budget.used /\ x.budget.used <= world.rounds
      BY <1>14, <1>20 DEF Welcome, Allocated
    <2>2. world.rounds \in Nat
      BY Parts, WorldAssumption
    <2>3. b # x.budget => k2.n = 0 /\ b.used = 0
      BY <1>10, <1>16
    <2>4. b = x.budget => k2.n = k.n /\ b.used = x.budget.used
      BY <1>16
    <2> QED BY <1>10, <1>13, <1>16, <2>1, <2>2, <2>3, <2>4 DEF Allocated
  <1>22. Working(y)
    <2>1. CASE again
      BY <1>2, <1>3, <1>11, <1>13, <2>1 DEF Working, AtWork
    <2>2. CASE ~again
      BY <1>2, <1>11, <1>13, <2>2 DEF Working
    <2> QED BY <2>1, <2>2
  <1>23. Sending(y, chat.outbox[a])
    <2>1. CASE again
      BY <1>2, <1>3, <1>13, <1>20, <2>1 DEF Welcome, Sending
    <2>2. CASE ~again
      BY <1>11, <1>13, <1>20, <2>2 DEF Welcome, Sending
    <2> QED BY <2>1, <2>2
  <1>24. a \notin h.redone => Bound(chat, y, a)
    <2>1. CASE again
      BY <1>19, <2>1 DEF Bound
    <2>2. CASE ~again
      BY <1>11, <1>13, <1>19, <1>20, <2>2 DEF Welcome, Bound
    <2> QED BY <2>1, <2>2
  <1>25. Welcome(chat, memory, h, world, agent[a], y, a)
    BY <1>1, <1>11, <1>13, <1>19, <1>20, <1>21, <1>22, <1>23, <1>24 DEF Welcome
  <1>26. PICK ch : ch = chat
    OBVIOUS
  <1>27. PICK ag : ag = [agent EXCEPT ![a] = y]
    OBVIOUS
  <1>28. Good(ch, ag, memory, h, world)
    BY <1>13, <1>19, <1>25, <1>26, <1>27, Parts, AccountIsGood
  <1>29. RefreshMail(ch, ag, world) /\ hist' = h
    <2>1. y = [x EXCEPT !.status = "active", !.susp = "none",
                 !.budget = IF x.status = "paused" THEN renewed(@) ELSE @,
                 !.round = IF again THEN [repaired(@) EXCEPT !.retries = 0] ELSE @,
                 !.last = IF x.status = "paused" /\ loops(x) THEN NoReply ELSE @,
                 !.repeated = IF x.status = "paused" /\ loops(x) THEN 0 ELSE @]
      BY <1>2, <1>4, <1>5, <1>6, <1>7, <1>8 DEF AgentRecords
    <2> QED BY <1>1, <1>3, <1>9, <1>13, <1>26, <1>27, <2>1, ZenonT(40) DEF Resume
  <1>30. env' \in [crashes : Nat, stops : Nat, resumes : Nat]
    BY Parts DEF Resume
  <1> QED BY <1>19, <1>28, <1>29, <1>30, Parts, LookStep DEF Resume

\* A restart ends the jobs, and clears the batches of dismissed agents.
LEMMA RestartKeeps ==
  ASSUME IInv, Restart
  PROVE  IInv'
  <1>1. PICK gone : gone = {a \in Agents : agent[a].status = "dismissed"}
    OBVIOUS
  <1>2. PICK ch : ch = [chat EXCEPT
                          !.batch = [a \in Agents |-> IF a \in gone THEN NoBatch ELSE chat.batch[a]],
                          !.gone = chat.gone \cup gone]
    OBVIOUS
  <1>3. gone \subseteq chat.gone
    BY <1>1, Parts DEF Good, GoodMail
  <1>4. /\ ch \in Stores /\ ch.log = chat.log /\ ch.outbox = chat.outbox /\ ch.gone = chat.gone
        /\ ch.box = chat.box
        /\ \A a \in Agents : ch.batch[a] = (IF a \in gone THEN NoBatch ELSE chat.batch[a])
    BY <1>2, <1>3, Parts DEF Stores
  <1>5. ASSUME NEW a \in Agents
        PROVE  /\ Orderly(ch, a, hist.seen[a]) /\ Suits(agent[a], ch.batch[a])
               /\ a \notin ch.gone => ch.batch[a].phase = chat.batch[a].phase
    <2>1. Orderly(chat, a, hist.seen[a]) /\ Suits(agent[a], chat.batch[a])
      BY Parts, GoodIsOrderly
    <2>2. CASE a \in gone
      <3>1. Fits(ch.log, ch.box[a], ch.batch[a])
        BY <1>4, <2>1, <2>2 DEF Orderly, Fits
      <3> QED BY <1>3, <1>4, <2>1, <2>2, <3>1 DEF Orderly, Suits
    <2>3. CASE a \notin gone
      BY <1>4, <2>1, <2>3 DEF Orderly
    <2> QED BY <2>2, <2>3
  <1>6. Good(ch, agent, memory, hist, world)
    BY <1>4, <1>5, Parts, StoreIsGood
  <1>7. PICK ag : ag = [a \in Agents |-> restored(agent[a])]
    OBVIOUS
  <1>8. ASSUME NEW a \in Agents
        PROVE  ag[a] \in AgentRecords /\ Welcome(ch, memory, hist, world, agent[a], ag[a], a)
    <2>1. PICK x : x = agent[a]
      OBVIOUS
    <2>2. x \in AgentRecords /\ Working(x)
      BY <2>1, Parts
    <2>3. PICK y : y = restored(x)
      OBVIOUS
    <2>4. /\ y \in AgentRecords /\ y.pc = "none" /\ y.round = x.round /\ y.status = x.status
          /\ y.conv = x.conv /\ y.budget = x.budget /\ y.sched \in {x.sched, "ready"}
      BY <2>2, <2>3, ZenonT(40) DEF AgentRecords, restored
    <2>5. Quiet(x, y)
      BY <2>2, <2>4 DEF Quiet, Working, AtWork
    <2>6. ag[a] = y
      BY <1>7, <2>1, <2>3
    <2> QED BY <1>6, <2>1, <2>4, <2>5, <2>6, QuietIsWelcome
  <1>9. PICK h : h = hist
    OBVIOUS
  <1>10. ag \in [Agents -> AgentRecords]
    BY <1>7, <1>8
  <1>11. Good(ch, ag, memory, h, world)
    BY <1>6, <1>8, <1>9, <1>10, WelcomeIsGood
  <1>12. RefreshMail(ch, ag, world)
    BY <1>1, <1>2, <1>7, Parts DEF Restart, Stores
  <1>13. UNCHANGED <<world, memory, hist>> /\ pump' = User /\ fatal' = FALSE
         /\ env' \in [crashes : Nat, stops : Nat, resumes : Nat]
    BY Parts DEF Restart
  <1> QED BY <1>9, <1>11, <1>12, <1>13, Parts, LookStep

----------------------------------------------------------------------------
(* The invariant *)

\* Nothing has been sent, asked or summed up yet.
LEMMA InitKeeps ==
  ASSUME Init
  PROVE  IInv
  <1>1. Empty \in Boxes /\ Empty.first = None /\ Empty.processed = 0
    BY DEF Empty, Boxes, None
  <1>2. chat \in Stores /\ chat.log = <<>>
        /\ \A a \in Agents : /\ \A c \in Conversations : chat.box[a][c] = Empty
                             /\ chat.batch[a] = NoBatch /\ chat.outbox[a] = None
    BY <1>1 DEF Init, NewStore, Stores, None
  <1>3. Len(chat.log) = 0 /\ DOMAIN chat.log = {}
    BY <1>2
  <1>4. memory \in Memories /\ \A c \in Conversations : memory.summary[c].covered = 0
    BY DEF Init, NewMemory, Memories, None
  <1>5. Unplanned \in Plans /\ Unplanned.kind # "compact" /\ Unplanned # Work
    BY DEF Plans, Unplanned, Work
  <1>6. NewRound \in Rounds /\ NewRound.plan = Unplanned /\ NewRound.outcome = FALSE
        /\ NewRound.reply = NoReply
    BY <1>5, Answers DEF NewRound, Rounds, Faults
  <1>7. /\ NewAgent \in AgentRecords /\ NewAgent.round = NewRound /\ NewAgent.pc = "none"
        /\ NewAgent.sched = "none" /\ NewAgent.budget = NoBudget /\ NewAgent.status = "active"
    BY <1>6, Answers DEF NewAgent, AgentRecords, NoBudget, Budgets, None
  <1>8. agent \in [Agents -> AgentRecords] /\ \A a \in Agents : agent[a] = NewAgent
    BY <1>7 DEF Init
  <1>9. hist \in Histories
    BY DEF Init, Remembered, Histories, Ranges, None
  <1>10. /\ \A a \in Agents : hist.asked[a] = [key |-> None, n |-> 0] /\ hist.said[a] = 0
         /\ \A c \in Conversations : hist.chain[c] = <<>>
    BY DEF Init, Remembered
  <1>11. world \in Worlds /\ world.rounds \in Nat
    BY WorldAssumption DEF Init
  <1>12. GoodMail(chat, agent, hist)
    BY <1>1, <1>2, <1>3, <1>7, <1>8 DEF GoodMail, Fits, Kept, Suits
  <1>13. GoodWork(agent, memory, hist, world)
    <2>1. ASSUME NEW a \in Agents
          PROVE  /\ Allocated(agent[a], hist.asked[a], world)
                 /\ Ascends(memory, agent[a].round.plan) /\ Working(agent[a])
      BY <1>5, <1>6, <1>7, <1>8, <1>10, <1>11
         DEF Allocated, Ascends, Working, AtWork, NoBudget, None
    <2>2. ASSUME NEW c \in Conversations PROVE Joined(hist.chain[c], memory.summary[c])
      BY <1>4, <1>10 DEF Joined
    <2> QED BY <2>1, <2>2 DEF GoodWork
  <1>14. GoodWords(chat, agent, hist)
    <2>1. ASSUME NEW a \in Agents
          PROVE  /\ Sending(agent[a], chat.outbox[a]) /\ Bound(chat, agent[a], a)
                 /\ Counted(chat, hist.said[a], a)
      <3>1. SentBy(chat.log, a) = {}
        BY <1>3 DEF SentBy
      <3>2. Cardinality(SentBy(chat.log, a)) = 0
        BY <3>1, FS_EmptySet
      <3> QED BY <1>2, <1>7, <1>8, <1>10, <3>2 DEF Sending, Bound, Counted
    <2> QED BY <2>1 DEF GoodWords
  <1>15. Good(chat, agent, memory, hist, world)
    BY <1>2, <1>4, <1>8, <1>9, <1>12, <1>13, <1>14 DEF Good, GoodTypes
  <1> QED BY <1>2, <1>4, <1>8, <1>9, <1>11, <1>15 DEF Init, IInv, TypeOK, NeverFatal

\* Every action keeps the invariant.
LEMMA NextKeeps ==
  ASSUME IInv, [Next]_vars
  PROVE  IInv'
  <1>1. CASE UNCHANGED vars
    <2>1. Good(chat', agent', memory', hist', world)
      BY <1>1, Parts DEF vars
    <2> QED BY <1>1, <2>1, Parts, Assemble DEF vars
  <1>2. ASSUME NEW a \in Agents, Job(a) PROVE IInv'
    <2>1. CASE Abort(a) \/ Receive(a) \/ Plan(a) \/ Ask(a) \/ Saved(a)
      BY <2>1, AbortKeeps, ReceiveKeeps, PlanKeeps, AskKeeps, SavedKeeps
    <2>2. CASE Reply(a) \/ Unanswered(a) \/ Summarise(a) \/ Outcome(a) \/ RefuseDigest(a)
      BY <2>2, ReplyKeeps, UnansweredKeeps, SummariseKeeps, OutcomeKeeps, RefuseDigestKeeps
    <2>3. CASE RefuseReply(a) \/ Judge(a) \/ Say(a) \/ Commit(a) \/ JobEnds(a)
      BY <2>3, RefuseReplyKeeps, JudgeKeeps, SayKeeps, CommitKeeps, JobEndsKeeps
    <2> QED BY <1>2, <2>1, <2>2, <2>3 DEF Job
  <1>3. CASE Process
    BY <1>2, <1>3, TakeKeeps, RetryDueKeeps, GoOnKeeps, TimerFiresKeeps, LapseKeeps DEF Process
  <1>4. CASE Host
    <2>1. ASSUME NEW m \in world.posts, SendMessage(m.conv, m.to) PROVE IInv'
      <3>1. m.conv \in Conversations /\ m.to \in SUBSET Agents
        BY Parts, WorldAssumption
      <3> QED BY <2>1, <3>1, SendMessageKeeps
    <2> QED BY <1>4, <2>1, PauseKeeps, CancelKeeps, DismissKeeps, ResumeKeeps DEF Host
  <1> QED BY <1>1, <1>3, <1>4, RestartKeeps DEF Next

\* The invariant holds in every reachable state.
THEOREM Consistency == Spec => []IInv
  BY InitKeeps, NextKeeps, PTL DEF Spec

----------------------------------------------------------------------------
(* What it says *)

\* The store, the memory, the agents and the books of the host keep their types.
THEOREM TypeCorrect == Spec => []TypeOK
  BY Consistency, PTL DEF IInv

\* No message is forgotten, and the cursor passes none that was not given to the agent.
THEOREM MailIsKept == Spec => []MailKept
  <1>1. ASSUME IInv PROVE MailKept
    <2> SUFFICES ASSUME NEW a \in Agents \ chat.gone, NEW i \in DOMAIN chat.log
                 PROVE  LET c == chat.log[i].conv IN
                        /\ Unread(a, i) => chat.box[a][c].first # None \/ chat.batch[a].conv = c
                        /\ wakes(chat.log[i], a) /\ ~Unread(a, i) => i \in hist.seen[a]
      BY DEF MailKept
    <2>1. Kept(chat.log, chat.box[a], chat.batch[a], hist.seen[a], a)
      BY <1>1 DEF IInv, Good, GoodMail
    <2>2. i \in Nat /\ chat.box[a][chat.log[i].conv].processed \in Nat
      <3>1. i \in Nat /\ chat.log[i].conv \in Conversations
        BY <1>1, Parts, Logged
      <3>2. chat.box[a] \in [Conversations -> Boxes]
        BY <1>1, Parts DEF Stores
      <3>3. chat.box[a][chat.log[i].conv] \in Boxes
        BY <3>1, <3>2
      <3> QED BY <3>1, <3>3 DEF Boxes
    <2> QED BY <2>1, <2>2 DEF Kept, Unread
  <1> QED BY <1>1, Consistency, PTL

\* Every message of an agent but that of its present round is recorded by a committed
\* round, whatever ends and is repeated in between.
THEOREM MessagesSentOnce == Spec => []SentOnce
  <1>1. ASSUME IInv PROVE SentOnce
    <2> SUFFICES ASSUME NEW a \in Agents \ hist.redone
                 PROVE  Counted(chat, hist.said[a], a)
      BY DEF SentOnce, Counted, SentBy
    <2> QED BY <1>1 DEF IInv, Good, GoodWords
  <1> QED BY <1>1, Consistency, PTL

\* A batch of mail gets at most maxRounds requests until the host allows more.
THEOREM RequestsWithinAllocation == Spec => []WithinAllocation
  <1>1. ASSUME IInv PROVE WithinAllocation
    <2> SUFFICES ASSUME NEW a \in Agents PROVE hist.asked[a].n <= world.rounds
      BY DEF WithinAllocation
    <2>1. Allocated(agent[a], hist.asked[a], world)
      BY <1>1 DEF IInv, Good, GoodWork
    <2>2. hist.asked[a].n \in Nat /\ agent[a].budget.used \in Nat
      BY <1>1, Parts DEF Histories, AgentRecords, Budgets
    <2>3. world.rounds \in Nat
      BY <1>1, Parts, WorldAssumption
    <2> QED BY <2>1, <2>2, <2>3 DEF Allocated
  <1> QED BY <1>1, Consistency, PTL

\* Summaries take in a conversation without gap or overlap.
THEOREM SummariesJoin == Spec => []SummariesChain
  <1>1. ASSUME IInv PROVE SummariesChain
    <2> SUFFICES ASSUME NEW c \in Conversations
                 PROVE  Joined(hist.chain[c], memory.summary[c])
      BY DEF SummariesChain, Joined, Last
    <2> QED BY <1>1 DEF IInv, Good, GoodWork
  <1> QED BY <1>1, Consistency, PTL

\* Agents and their host do not stop the process.
THEOREM NobodyStopsTheProcess == Spec => []NeverFatal
  BY Consistency, PTL DEF IInv

----------------------------------------------------------------------------
(* Dismissed agents *)

\* The step neither dismisses the agent nor, if it is dismissed, does anything for it.
Still(a) ==
  /\ agent'[a].status = "dismissed" <=> agent[a].status = "dismissed"
  /\ agent[a].status = "dismissed" =>
       /\ chat'.box[a] = chat.box[a]
       /\ \A i \in DOMAIN chat'.log \ DOMAIN chat.log : chat'.log[i].from # a

\* A dismissed agent has no mail.
Silenced(a) ==
  agent[a].status = "dismissed" => \A c \in Conversations : chat.box[a][c].first = None

\* A step of one agent that neither looks at the mail nor sends a message.
LEMMA StillAlone ==
  ASSUME IInv, NEW b \in Agents, NEW y, agent' = [agent EXCEPT ![b] = y],
         y.status = "dismissed" <=> agent[b].status = "dismissed",
         chat'.log = chat.log, chat'.box = chat.box
  PROVE  \A a \in Agents : Still(a)
  BY Parts DEF Still

\* Looking at the mail leaves the agents that are not active alone.
LEMMA StillLooking ==
  ASSUME IInv, NEW ch, DOMAIN ch = {"log", "box", "batch", "outbox", "gone"},
         DOMAIN ch.box = Agents, NEW ag, RefreshMail(ch, ag, world), NEW a \in Agents,
         "status" \in DOMAIN ag[a]
  PROVE  /\ chat'.log = ch.log
         /\ agent'[a].status = "dismissed" <=> ag[a].status = "dismissed"
         /\ ag[a].status = "dismissed" => chat'.box[a] = ch.box[a]
  <1>1. chat'.log = ch.log
    BY DEF RefreshMail, mailOf
  <1>2. a \notin idle(ag) => agent'[a] = ag[a] /\ chat'.box[a] = ch.box[a]
    BY DEF RefreshMail, mailOf
  <1>3. ag[a].status = "dismissed" => a \notin idle(ag)
    BY DEF idle
  <1>4. ASSUME a \in idle(ag) PROVE agent'[a].status # "dismissed"
    <2>1. ag[a].status = "active"
      BY <1>4 DEF idle
    <2>2. agent'[a] = mailed(ch, ag, a, world)
      BY <1>4 DEF RefreshMail, idle
    <2>3. PICK x : x = [ag[a] EXCEPT !.budget = finished(@)]
      OBVIOUS
    <2>4. PICK z : z = IF active(acked(ch, ag, a), a) \/ ag[a].needs THEN ag[a] ELSE x
      OBVIOUS
    <2>5. z.status = "active" /\ "status" \in DOMAIN z
      BY <2>1, <2>3, <2>4
    <2>6. \A c, l, r : [z EXCEPT !.conv = c, !.sched = "ready", !.last = l,
                                !.repeated = r].status = "active"
      BY <2>5
    <2>7. agent'[a].status = "active"
      BY <2>2, <2>3, <2>4, <2>5, <2>6 DEF mailed
    <2> QED BY <2>7
  <1> QED BY <1>1, <1>2, <1>3, <1>4

\* The fields of an agent and of the store.
LEMMA Fields ==
  ASSUME IInv
  PROVE  /\ DOMAIN chat = {"log", "box", "batch", "outbox", "gone"} /\ DOMAIN chat.box = Agents
         /\ DOMAIN agent = Agents
         /\ \A a \in Agents : "status" \in DOMAIN agent[a]
  <1>1. DOMAIN chat = {"log", "box", "batch", "outbox", "gone"} /\ DOMAIN chat.box = Agents
    BY Parts DEF Stores
  <1>2. DOMAIN agent = Agents /\ \A a \in Agents : agent[a] \in AgentRecords
    BY Parts
  <1>3. \A x \in AgentRecords : "status" \in DOMAIN x
    BY DEF AgentRecords
  <1> QED BY <1>1, <1>2, <1>3

\* A step that changes one agent and then looks at the mail.
LEMMA StillThenLooking ==
  ASSUME IInv, NEW b \in Agents, NEW y, RefreshMail(chat, [agent EXCEPT ![b] = y], world),
         "status" \in DOMAIN y, y.status = "dismissed" <=> agent[b].status = "dismissed"
  PROVE  \A a \in Agents : Still(a)
  <1>1. PICK ag : ag = [agent EXCEPT ![b] = y]
    OBVIOUS
  <1>2. PICK ch : ch = chat
    OBVIOUS
  <1> SUFFICES ASSUME NEW a \in Agents PROVE Still(a)
    OBVIOUS
  <1>3. "status" \in DOMAIN ag[a] /\ (ag[a].status = "dismissed" <=> agent[a].status = "dismissed")
    BY <1>1, Fields
  <1>4. RefreshMail(ch, ag, world) /\ DOMAIN ch = {"log", "box", "batch", "outbox", "gone"}
        /\ DOMAIN ch.box = Agents
    BY <1>1, <1>2, Fields
  <1>5. /\ chat'.log = ch.log
        /\ agent'[a].status = "dismissed" <=> ag[a].status = "dismissed"
        /\ ag[a].status = "dismissed" => chat'.box[a] = ch.box[a]
    BY <1>3, <1>4, StillLooking
  <1> QED BY <1>2, <1>3, <1>5 DEF Still

\* A failure may pause an agent, but dismisses none.
LEMMA FailedDismissesNone ==
  ASSUME NEW x, "status" \in DOMAIN x, NEW kind
  PROVE  failed(x, kind).status = "dismissed" <=> x.status = "dismissed"
  <1>1. CASE x.status # "active"
    BY <1>1 DEF failed
  <1>2. CASE x.status = "active"
    <2>1. \A r : [x EXCEPT !.sched = "ready", !.susp = "retry", !.pc = "ending",
                           !.round = r].status = "active"
      BY <1>2
    <2>2. \A r : [x EXCEPT !.sched = "ready", !.susp = "stop", !.pc = "ending",
                           !.status = "paused", !.round = r].status = "paused"
      OBVIOUS
    <2>3. failed(x, kind).status \in {"active", "paused"}
      BY <1>2, <2>1, <2>2 DEF failed
    <2> QED BY <1>2, <2>3
  <1> QED BY <1>1, <1>2

\* A failing job.
LEMMA StillFailing ==
  ASSUME IInv, NEW b \in Agents, NEW x, NEW kind, Fail(b, x, kind),
         "status" \in DOMAIN x, x.status = agent[b].status
  PROVE  \A a \in Agents : Still(a)
  <1>1. PICK y : y = failed(x, kind)
    OBVIOUS
  <1>2. y.status = "dismissed" <=> agent[b].status = "dismissed"
    BY <1>1, FailedDismissesNone
  <1>3. agent' = [agent EXCEPT ![b] = y] /\ chat' = chat
    BY <1>1 DEF Fail
  <1> QED BY <1>2, <1>3, StillAlone

\* The actions of a job, but what it says.
LEMMA StillJob ==
  ASSUME IInv, NEW b \in Agents, Job(b), ~Say(b)
  PROVE  \A a \in Agents : Still(a)
  <1>1. PICK x : x = agent[b]
    OBVIOUS
  <1>2. "status" \in DOMAIN x /\ DOMAIN chat = {"log", "box", "batch", "outbox", "gone"}
    BY <1>1, Fields
  <1>3. CASE Abort(b) \/ Unanswered(b) \/ RefuseReply(b)
    BY <1>1, <1>2, <1>3, StillFailing DEF Abort, Unanswered, RefuseReply
  <1>4. CASE Receive(b)
    <2>1. CASE active(chat, b) /\ agent[b].conv # chat.batch[b].conv
      BY <1>1, <1>2, <1>4, <2>1, StillFailing DEF Receive
    <2>2. CASE ~(active(chat, b) /\ agent[b].conv # chat.batch[b].conv)
      <3>1. PICK y : y = [x EXCEPT !.needs = TRUE, !.pc = "received"]
        OBVIOUS
      <3>2. agent' = [agent EXCEPT ![b] = y] /\ y.status = x.status
        BY <1>1, <1>2, <1>4, <2>2, <3>1 DEF Receive
      <3>3. chat'.log = chat.log /\ chat'.box = chat.box
        BY <1>2, <1>4, <2>2 DEF Receive, delivered
      <3> QED BY <1>1, <3>2, <3>3, StillAlone
    <2> QED BY <2>1, <2>2
  <1>5. CASE Plan(b) \/ Saved(b) \/ Reply(b) \/ Outcome(b) \/ RefuseDigest(b)
    <2>1. chat' = chat
      BY <1>5 DEF Plan, Saved, Reply, Outcome, RefuseDigest
    <2>2. \E y : agent' = [agent EXCEPT ![b] = y] /\ y.status = x.status
      <3>1. CASE Plan(b)
        <4>1. CASE Round(b).plan # Unplanned
          <5>1. PICK y : y = [x EXCEPT !.pc = "planned"]
            OBVIOUS
          <5>2. agent' = [agent EXCEPT ![b] = y]
            BY <1>1, <3>1, <4>1, <5>1 DEF Plan
          <5>3. y.status = x.status
            BY <1>2, <5>1
          <5> QED BY <5>2, <5>3
        <4>2. CASE Round(b).plan = Unplanned
          <5>1. PICK p : agent' = [agent EXCEPT ![b].pc = "planned", ![b].round.plan = p]
            BY <3>1, <4>2 DEF Plan
          <5>2. agent' = [agent EXCEPT ![b] = [x EXCEPT !.pc = "planned", !.round.plan = p]]
            BY <1>1, <5>1, Fields
          <5>3. [x EXCEPT !.pc = "planned", !.round.plan = p].status = x.status
            BY <1>2
          <5> QED BY <5>2, <5>3
        <4> QED BY <4>1, <4>2
      <3>2. CASE Saved(b)
        <4>1. PICK y : y = [x EXCEPT !.pc = IF Round(b).outcome THEN "acted" ELSE "answered"]
          OBVIOUS
        <4>2. agent' = [agent EXCEPT ![b] = y]
          BY <1>1, <3>2, <4>1 DEF Saved
        <4>3. y.status = x.status
          BY <1>2, <4>1
        <4> QED BY <4>2, <4>3
      <3>3. CASE Reply(b)
        <4>1. PICK r : agent' = [agent EXCEPT ![b].round.reply = r, ![b].pc = "answered"]
          BY <3>3 DEF Reply
        <4>2. agent' = [agent EXCEPT ![b] = [x EXCEPT !.round.reply = r, !.pc = "answered"]]
          BY <1>1, <4>1, Fields
        <4>3. [x EXCEPT !.round.reply = r, !.pc = "answered"].status = x.status
          BY <1>2
        <4> QED BY <4>2, <4>3
      <3>4. CASE Outcome(b) \/ RefuseDigest(b)
        <4>1. agent' = [agent EXCEPT ![b].pc = "acted", ![b].round.outcome = TRUE]
          BY <3>4 DEF Outcome, RefuseDigest
        <4>2. agent' = [agent EXCEPT ![b] = [x EXCEPT !.pc = "acted", !.round.outcome = TRUE]]
          BY <1>1, <4>1, Fields
        <4>3. [x EXCEPT !.pc = "acted", !.round.outcome = TRUE].status = x.status
          BY <1>2
        <4> QED BY <4>2, <4>3
      <3> QED BY <1>5, <3>1, <3>2, <3>3, <3>4
    <2> QED BY <1>1, <2>1, <2>2, StillAlone
  <1>6. CASE Ask(b)
    <2>1. PICK u : /\ u = workBudget(agent[b].budget, chat.batch[b].upper)
                   /\ IF u.used >= world.rounds
                      THEN Fail(b, [agent[b] EXCEPT !.budget = u], "budget")
                      ELSE /\ agent' = [agent EXCEPT ![b].budget = [u EXCEPT !.used = u.used + 1],
                                                     ![b].pc = "asked"]
                           /\ chat' = chat
      BY <1>6 DEF Ask
    <2>2. CASE u.used >= world.rounds
      <3>1. PICK z : z = [x EXCEPT !.budget = u]
        OBVIOUS
      <3>2. "status" \in DOMAIN z /\ z.status = x.status
        BY <1>2, <3>1
      <3>3. Fail(b, z, "budget")
        BY <1>1, <2>1, <2>2, <3>1
      <3> QED BY <1>1, <3>2, <3>3, StillFailing
    <2>3. CASE ~(u.used >= world.rounds)
      <3>1. PICK v : v = [u EXCEPT !.used = u.used + 1]
        OBVIOUS
      <3>2. PICK y : y = [x EXCEPT !.budget = v, !.pc = "asked"]
        OBVIOUS
      <3>3. agent' = [agent EXCEPT ![b] = y] /\ y.status = x.status
        BY <1>1, <1>2, <2>1, <2>3, <3>1, <3>2, Fields
      <3> QED BY <1>1, <2>1, <2>3, <3>3, StillAlone
    <2> QED BY <2>2, <2>3
  <1>7. CASE Summarise(b)
    <2>1. CASE Fail(b, agent[b], "internal")
      BY <1>1, <1>2, <2>1, StillFailing
    <2>2. CASE ~Fail(b, agent[b], "internal")
      <3>1. PICK y : y = [x EXCEPT !.pc = "summed"]
        OBVIOUS
      <3>2. agent' = [agent EXCEPT ![b] = y] /\ y.status = x.status /\ chat' = chat
        BY <1>1, <1>2, <1>7, <2>2, <3>1 DEF Summarise
      <3> QED BY <1>1, <3>2, StillAlone
    <2> QED BY <2>1, <2>2
  <1>8. CASE Judge(b)
    <2>1. CASE Fail(b, agent[b], "loop")
      BY <1>1, <1>2, <2>1, StillFailing
    <2>2. CASE ~Fail(b, agent[b], "loop")
      <3>1. PICK y : y = IF x.round.marked THEN [x EXCEPT !.pc = "acting"]
                         ELSE [x EXCEPT !.pc = "acting", !.round.marked = TRUE,
                                        !.last = Round(b).reply, !.repeated = repeatedNow(x)]
        OBVIOUS
      <3>2. [x EXCEPT !.pc = "acting", !.round.marked = TRUE, !.last = Round(b).reply,
                      !.repeated = repeatedNow(x)].status = x.status
        BY <1>2
      <3>3. y.status = x.status
        BY <1>2, <3>1, <3>2
      <3>4. agent' = [agent EXCEPT ![b] = y] /\ chat' = chat
        BY <1>1, <1>8, <2>2, <3>1 DEF Judge
      <3> QED BY <1>1, <3>3, <3>4, StillAlone
    <2> QED BY <2>1, <2>2
  <1>9. CASE Commit(b)
    <2>1. PICK y : y = [x EXCEPT !.needs = continues(Round(b)), !.pc = "ending",
                         !.round = NewRound,
                         !.sched = IF continues(Round(b)) THEN "ready" ELSE "none"]
      OBVIOUS
    <2>2. agent' = [agent EXCEPT ![b] = y] /\ y.status = x.status
      BY <1>1, <1>2, <1>9, <2>1 DEF Commit
    <2>3. chat'.log = chat.log /\ chat'.box = chat.box
      BY <1>2, <1>9 DEF Commit
    <2> QED BY <1>1, <2>2, <2>3, StillAlone
  <1>10. CASE JobEnds(b)
    <2>1. x \in AgentRecords /\ Working(x)
      BY <1>1, Parts
    <2>2. PICK y : y = left(x)
      OBVIOUS
    <2>3. "status" \in DOMAIN y /\ (y.status = "dismissed" <=> x.status = "dismissed")
      <3>1. PICK z : z = [x EXCEPT !.pc = "none", !.aborted = FALSE, !.leaving = FALSE]
        OBVIOUS
      <3>2. "status" \in DOMAIN z /\ z.status = x.status
        BY <1>2, <3>1
      <3>3. [z EXCEPT !.status = "cancelled", !.round.fault = "other"].status = "cancelled"
            /\ "status" \in DOMAIN [z EXCEPT !.status = "cancelled", !.round.fault = "other"]
        BY <3>2
      <3> QED BY <2>2, <3>1, <3>2, <3>3 DEF left
    <2>4. RefreshMail(chat, [agent EXCEPT ![b] = y], world)
      BY <1>1, <1>10, <2>2 DEF JobEnds
    <2> QED BY <1>1, <2>3, <2>4, StillThenLooking
  <1> QED BY <1>3, <1>4, <1>5, <1>6, <1>7, <1>8, <1>9, <1>10 DEF Job

\* An agent with a tombstone says nothing more.
LEMMA StillSaying ==
  ASSUME IInv, NEW b \in Agents, Say(b)
  PROVE  \A a \in Agents : Still(a)
  <1>1. PICK x : x = agent[b]
    OBVIOUS
  <1>2. "status" \in DOMAIN x
    BY <1>1, Fields
  <1>3. PICK v : v = verdict(b)
    OBVIOUS
  <1>4. PICK m : m = message(b)
    OBVIOUS
  <1>5. Sends(b) /\ (v \in {"new", "known"} => b \notin chat.gone)
    BY <1>3, Verdict DEF Say
  <1>6. PICK y : y = [x EXCEPT !.pc = "acted"]
    OBVIOUS
  <1>7. "status" \in DOMAIN y /\ y.status = x.status
    BY <1>2, <1>6
  <1>8. CASE v = "new"
    <2>1. PICK late \in BOOLEAN :
            RefreshMail(append(chat, m, late), [agent EXCEPT ![b].pc = "acted"], world)
      BY <1>3, <1>4, <1>8 DEF Say
    <2>2. PICK ch : ch = append(chat, m, late)
      OBVIOUS
    <2>3. PICK ag : ag = [agent EXCEPT ![b] = y]
      OBVIOUS
    <2>4. RefreshMail(ch, ag, world)
      BY <1>1, <1>6, <2>1, <2>2, <2>3
    <2>5. /\ DOMAIN ch = {"log", "box", "batch", "outbox", "gone"} /\ DOMAIN ch.box = Agents
          /\ ch.log = Append(chat.log, m)
          /\ \A a \in chat.gone \cap Agents : ch.box[a] = chat.box[a]
      BY <2>2, Fields DEF append
    <2>6. m.from = b
      BY <1>4 DEF message
    <2> SUFFICES ASSUME NEW a \in Agents PROVE Still(a)
      OBVIOUS
    <2>7. "status" \in DOMAIN ag[a] /\ ag[a].status = agent[a].status
      BY <1>1, <1>7, <2>3, Fields
    <2>8. /\ chat'.log = ch.log
          /\ agent'[a].status = "dismissed" <=> ag[a].status = "dismissed"
          /\ ag[a].status = "dismissed" => chat'.box[a] = ch.box[a]
      BY <2>4, <2>5, <2>7, StillLooking
    <2>9. agent[a].status = "dismissed" => a \in chat.gone
      BY Parts DEF Good, GoodMail
    <2>10. agent[a].status = "dismissed" => a # b
      BY <1>5, <1>8, <2>9
    <2>11. \A i \in DOMAIN ch.log \ DOMAIN chat.log : ch.log[i] = m
      <3>1. chat.log \in Seq(Messages)
        BY Parts DEF Stores
      <3>2. DOMAIN ch.log = 1 .. Len(chat.log) + 1
        BY <2>5, <3>1
      <3>3. ch.log[Len(chat.log) + 1] = m
        BY <2>5, <3>1
      <3> QED BY <3>1, <3>2, <3>3
    <2> QED BY <2>5, <2>6, <2>7, <2>8, <2>9, <2>10, <2>11 DEF Still
  <1>9. CASE v = "known"
    <2>1. RefreshMail(chat, [agent EXCEPT ![b] = y], world)
      BY <1>1, <1>3, <1>6, <1>9 DEF Say
    <2> QED BY <1>1, <1>7, <2>1, StillThenLooking
  <1>10. CASE v \notin {"new", "known"}
    <2>1. PICK z : z = failed(x, v)
      OBVIOUS
    <2>2. agent' = [agent EXCEPT ![b] = z] /\ chat' = chat
      BY <1>1, <1>3, <1>10, <2>1 DEF Say
    <2>3. z.status = "dismissed" <=> agent[b].status = "dismissed"
      BY <1>1, <1>2, <2>1, FailedDismissesNone
    <2> QED BY <2>2, <2>3, StillAlone
  <1> QED BY <1>8, <1>9, <1>10

\* The pump, the timers and the host: none of them wakes a dismissed agent.
LEMMA StillPump ==
  ASSUME IInv, (\E b \in Agents : Take(b) \/ RetryDue(b)) \/ GoOn
  PROVE  \A a \in Agents : Still(a)
  <1>1. ASSUME NEW b \in Agents, Take(b) PROVE \A a \in Agents : Still(a)
    <2>1. PICK x : x = agent[b]
      OBVIOUS
    <2>2. PICK y : y = IF At(b, "none") THEN started(x) ELSE [x EXCEPT !.sched = "running"]
      OBVIOUS
    <2>3. agent' = [agent EXCEPT ![b] = y] /\ chat' = chat
      BY <1>1, <2>1, <2>2 DEF Take
    <2>4. y.status = x.status
      BY <2>1, <2>2, Fields DEF started
    <2> QED BY <2>1, <2>3, <2>4, StillAlone
  <1>2. ASSUME NEW b \in Agents, RetryDue(b) PROVE \A a \in Agents : Still(a)
    <2>1. PICK y : y = [agent[b] EXCEPT !.susp = "none"]
      OBVIOUS
    <2>2. agent' = [agent EXCEPT ![b] = y] /\ chat' = chat
      BY <1>2, <2>1 DEF RetryDue
    <2>3. y.status = agent[b].status
      BY <2>1, Fields
    <2> QED BY <2>2, <2>3, StillAlone
  <1>3. ASSUME GoOn PROVE \A a \in Agents : Still(a)
    <2>1. pump \in Agents
      BY <1>3, Parts DEF GoOn
    <2>2. PICK y : y = IF agent[pump].status = "active" THEN started(agent[pump])
                       ELSE [agent[pump] EXCEPT !.sched = "ready", !.susp = "stop"]
      OBVIOUS
    <2>3. agent' = [agent EXCEPT ![pump] = y] /\ chat' = chat
      BY <1>3, <2>2 DEF GoOn
    <2>4. y.status = agent[pump].status
      BY <2>1, <2>2, Fields DEF started
    <2> QED BY <2>1, <2>3, <2>4, StillAlone
  <1> QED BY <1>1, <1>2, <1>3

\* The mail timer, and the death of the process.
LEMMA StillTimer ==
  ASSUME IInv, TimerFires \/ Restart
  PROVE  \A a \in Agents : Still(a)
  <1>1. PICK ch, ag :
          /\ RefreshMail(ch, ag, world) /\ ch.log = chat.log /\ ch.box = chat.box
          /\ DOMAIN ch = {"log", "box", "batch", "outbox", "gone"}
          /\ \A a \in Agents : "status" \in DOMAIN ag[a] /\ ag[a].status = agent[a].status
    <2>1. CASE TimerFires
      BY <2>1, Fields DEF TimerFires
    <2>2. CASE Restart
      <3>1. PICK gone : gone = {a \in Agents : agent[a].status = "dismissed"}
        OBVIOUS
      <3>2. PICK ch : ch = [chat EXCEPT
                              !.batch = [a \in Agents |-> IF a \in gone THEN NoBatch ELSE @[a]],
                              !.gone = @ \cup gone]
        OBVIOUS
      <3>3. PICK ag : ag = [a \in Agents |-> restored(agent[a])]
        OBVIOUS
      <3>4. RefreshMail(ch, ag, world)
        BY <2>2, <3>1, <3>2, <3>3 DEF Restart
      <3>5. ch.log = chat.log /\ ch.box = chat.box
            /\ DOMAIN ch = {"log", "box", "batch", "outbox", "gone"}
        BY <3>2, Fields
      <3>6. \A a \in Agents : "status" \in DOMAIN ag[a] /\ ag[a].status = agent[a].status
        BY <3>3, Fields DEF restored
      <3> QED BY <3>4, <3>5, <3>6
    <2> QED BY <2>1, <2>2
  <1> SUFFICES ASSUME NEW a \in Agents PROVE Still(a)
    OBVIOUS
  <1>2. DOMAIN ch.box = Agents
    BY <1>1, Fields
  <1>3. /\ chat'.log = ch.log
        /\ agent'[a].status = "dismissed" <=> ag[a].status = "dismissed"
        /\ ag[a].status = "dismissed" => chat'.box[a] = ch.box[a]
    BY <1>1, <1>2, StillLooking
  <1> QED BY <1>1, <1>3 DEF Still

\* The user wakes no dismissed agent, and resumes none.
LEMMA StillUser ==
  ASSUME IInv, \/ \E c \in Conversations, to \in SUBSET Agents : SendMessage(c, to)
               \/ \E b \in Agents : Pause(b) \/ Cancel(b) \/ Resume(b)
  PROVE  \A a \in Agents : Still(a)
  <1>1. ASSUME NEW c \in Conversations, NEW to \in SUBSET Agents, SendMessage(c, to)
        PROVE  \A a \in Agents : Still(a)
    <2>1. PICK m : m = [conv |-> c, from |-> User, to |-> to, phase |-> Len(chat.log) + 1]
      OBVIOUS
    <2>2. PICK late \in BOOLEAN : RefreshMail(append(chat, m, late), agent, world)
      BY <1>1, <2>1 DEF SendMessage
    <2>3. PICK ch : ch = append(chat, m, late)
      OBVIOUS
    <2>4. PICK ag : ag = agent
      OBVIOUS
    <2>5. /\ DOMAIN ch = {"log", "box", "batch", "outbox", "gone"} /\ DOMAIN ch.box = Agents
          /\ ch.log = Append(chat.log, m)
          /\ \A a \in chat.gone \cap Agents : ch.box[a] = chat.box[a]
      BY <2>3, Fields DEF append
    <2> SUFFICES ASSUME NEW a \in Agents PROVE Still(a)
      OBVIOUS
    <2>6. RefreshMail(ch, ag, world) /\ "status" \in DOMAIN ag[a]
      BY <2>2, <2>3, <2>4, Fields
    <2>7. /\ chat'.log = ch.log
          /\ agent'[a].status = "dismissed" <=> ag[a].status = "dismissed"
          /\ ag[a].status = "dismissed" => chat'.box[a] = ch.box[a]
      BY <2>5, <2>6, StillLooking
    <2>8. agent[a].status = "dismissed" => a \in chat.gone
      BY Parts DEF Good, GoodMail
    <2>9. \A i \in DOMAIN ch.log \ DOMAIN chat.log : ch.log[i] = m
      <3>1. chat.log \in Seq(Messages)
        BY Parts DEF Stores
      <3>2. DOMAIN ch.log = 1 .. Len(chat.log) + 1
        BY <2>5, <3>1
      <3>3. ch.log[Len(chat.log) + 1] = m
        BY <2>5, <3>1
      <3> QED BY <3>1, <3>2, <3>3
    <2>10. m.from # a
      BY <2>1, ConversationAssumption
    <2> QED BY <2>4, <2>5, <2>7, <2>8, <2>9, <2>10 DEF Still
  <1>2. ASSUME NEW b \in Agents, Pause(b) \/ Cancel(b) PROVE \A a \in Agents : Still(a)
    <2>1. PICK x : x = agent[b]
      OBVIOUS
    <2>2. "status" \in DOMAIN x /\ x.status # "dismissed" /\ chat' = chat
      BY <1>2, <2>1, Fields DEF Pause, Cancel
    <2>3. \A s : "status" \in DOMAIN stopped(x, s) /\ stopped(x, s).status = s
      BY <2>2 DEF stopped
    <2>4. PICK z : z = stopped(x, "paused")
      OBVIOUS
    <2>5. PICK u : u = stopped(x, "cancelled")
      OBVIOUS
    <2>6. \E v : agent' = [agent EXCEPT ![b] = v] /\ v \in {z, [u EXCEPT !.round.fault = "other"],
                                                            [z EXCEPT !.leaving = TRUE]}
      BY <1>2, <2>1, <2>4, <2>5 DEF Pause, Cancel
    <2>7. \A v \in {z, [u EXCEPT !.round.fault = "other"], [z EXCEPT !.leaving = TRUE]} :
             v.status # "dismissed"
      BY <2>3, <2>4, <2>5
    <2> QED BY <2>1, <2>2, <2>6, <2>7, StillAlone
  <1>3. ASSUME NEW b \in Agents, Resume(b) PROVE \A a \in Agents : Still(a)
    <2>1. PICK y : /\ RefreshMail(chat, [agent EXCEPT ![b] = y], world)
                   /\ "status" \in DOMAIN y /\ y.status = "active"
      <3>1. "status" \in DOMAIN agent[b]
        BY Fields
      <3>2. PICK r, u, l, n : RefreshMail(chat, [agent EXCEPT ![b] =
                [agent[b] EXCEPT !.status = "active", !.susp = "none", !.budget = u,
                                 !.round = r, !.last = l, !.repeated = n]], world)
        BY <1>3, ZenonT(40) DEF Resume
      <3>3. PICK y : y = [agent[b] EXCEPT !.status = "active", !.susp = "none", !.budget = u,
                                          !.round = r, !.last = l, !.repeated = n]
        OBVIOUS
      <3>4. "status" \in DOMAIN y /\ y.status = "active"
        BY <3>1, <3>3
      <3> QED BY <3>2, <3>3, <3>4
    <2>2. agent[b].status # "dismissed"
      BY <1>3 DEF Resume
    <2> QED BY <2>1, <2>2, StillThenLooking
  <1> QED BY <1>1, <1>2, <1>3

\* A mailbox of a dismissed agent has no due time that could come.
LEMMA StillLapse ==
  ASSUME IInv, \A a \in Agents : Silenced(a),
         NEW b \in Agents, NEW c \in Conversations, Lapse(b, c)
  PROVE  \A a \in Agents : Still(a)
  <1> SUFFICES ASSUME NEW a \in Agents PROVE Still(a)
    OBVIOUS
  <1>1. agent' = agent /\ chat' = [chat EXCEPT !.box[b][c].ripe = TRUE]
    BY DEF Lapse
  <1>2. chat'.log = chat.log /\ (a # b => chat'.box[a] = chat.box[a])
    BY <1>1, Fields
  <1>3. agent[b].status # "dismissed"
    BY DEF Lapse, Silenced
  <1> QED BY <1>1, <1>2, <1>3 DEF Still

\* The mail of an agent goes with it.
LEMMA DismissSilences ==
  ASSUME IInv, NEW b \in Agents, Dismiss(b)
  PROVE  /\ \A a \in Agents \ {b} : Still(a)
         /\ agent[b].status # "dismissed" /\ Silenced(b)'
  <1>1. PICK y : y = stopped(agent[b], "dismissed")
    OBVIOUS
  <1>2. PICK ag : ag = [agent EXCEPT ![b] = y]
    OBVIOUS
  <1>3. PICK ch : ch = dismiss(chat, b)
    OBVIOUS
  <1>4. "status" \in DOMAIN y /\ y.status = "dismissed"
    BY <1>1, Fields DEF stopped
  <1>5. \A a \in Agents : "status" \in DOMAIN ag[a]
    BY <1>2, <1>4, Fields
  <1>6. /\ DOMAIN ch = {"log", "box", "batch", "outbox", "gone"} /\ DOMAIN ch.box = Agents
        /\ ch.log = chat.log /\ \A a \in Agents \ {b} : ch.box[a] = chat.box[a]
    BY <1>3, Fields DEF dismiss
  <1>7. \A c \in Conversations : ch.box[b][c].first = None
    BY <1>3, Fields DEF dismiss, Empty
  <1>8. RefreshMail(ch, ag, world) \/ (agent' = ag /\ chat' = ch)
    <2>1. CASE At(b, "none")
      <3>1. RefreshMail(dismiss(chat, b), [agent EXCEPT ![b] = stopped(@, "dismissed")], world)
        BY <2>1 DEF Dismiss
      <3>2. ag = [agent EXCEPT ![b] = stopped(@, "dismissed")]
        BY <1>1, <1>2
      <3> QED BY <1>3, <3>1, <3>2
    <2>2. CASE ~At(b, "none")
      BY <1>1, <1>2, <1>3, <2>2 DEF Dismiss
    <2> QED BY <2>1, <2>2
  <1>9. ASSUME NEW a \in Agents
        PROVE  /\ chat'.log = ch.log
               /\ agent'[a].status = "dismissed" <=> ag[a].status = "dismissed"
               /\ ag[a].status = "dismissed" => chat'.box[a] = ch.box[a]
    BY <1>5, <1>6, <1>8, StillLooking
  <1>10. \A a \in Agents \ {b} : Still(a)
    BY <1>2, <1>6, <1>9, Fields DEF Still
  <1>11. Silenced(b)'
    BY <1>2, <1>4, <1>7, <1>9, Fields DEF Silenced
  <1> QED BY <1>10, <1>11 DEF Dismiss

\* Every step leaves the dismissed agents as they are, and dismisses none but those
\* the user dismisses.
LEMMA NextIsStill ==
  ASSUME IInv, \A a \in Agents : Silenced(a), [Next]_vars, NEW a \in Agents
  PROVE  Still(a) \/ (agent[a].status # "dismissed" /\ Silenced(a)')
  <1>1. CASE UNCHANGED vars
    BY <1>1 DEF vars, Still
  <1>2. CASE Process
    <2>1. ASSUME NEW b \in Agents, Job(b) PROVE Still(a)
      BY <2>1, StillJob, StillSaying
    <2>2. ASSUME NEW b \in Agents, NEW c \in Conversations, Lapse(b, c) PROVE Still(a)
      BY <2>2, StillLapse
    <2> QED BY <1>2, <2>1, <2>2, StillPump, StillTimer DEF Process
  <1>3. CASE Host
    <2>1. ASSUME NEW m \in world.posts, SendMessage(m.conv, m.to) PROVE Still(a)
      <3>1. m.conv \in Conversations /\ m.to \in SUBSET Agents
        BY Parts, WorldAssumption
      <3> QED BY <2>1, <3>1, StillUser
    <2>2. ASSUME NEW b \in Agents, Dismiss(b)
          PROVE  Still(a) \/ (agent[a].status # "dismissed" /\ Silenced(a)')
      BY <2>2, DismissSilences
    <2> QED BY <1>3, <2>1, <2>2, StillUser DEF Host
  <1>4. CASE Restart
    BY <1>4, StillTimer
  <1> QED BY <1>1, <1>2, <1>3, <1>4 DEF Next

\* Dismissed agents stay without mail.
LEMMA Silence == Spec => [](\A a \in Agents : Silenced(a))
  <1> DEFINE S == \A a \in Agents : Silenced(a)
  <1>1. Init => S
    <2>1. ASSUME Init, NEW a \in Agents PROVE agent[a].status = "active"
      BY <2>1 DEF Init, NewAgent
    <2> QED BY <2>1 DEF Silenced
  <1>2. IInv /\ S /\ [Next]_vars => S'
    <2> SUFFICES ASSUME IInv, S, [Next]_vars, NEW a \in Agents PROVE Silenced(a)'
      OBVIOUS
    <2>1. Still(a) \/ Silenced(a)'
      BY NextIsStill
    <2> QED BY <2>1 DEF Still, Silenced
  <1> HIDE DEF S
  <1>3. Spec => []S
    BY <1>1, <1>2, Consistency, PTL DEF Spec
  <1> QED BY <1>3 DEF S

\* An agent that was dismissed stays so, says nothing more, and its mail stays as it is.
THEOREM DismissedStays == Spec => DismissedIsFinal
  <1> DEFINE S == \A a \in Agents : Silenced(a)
             A == \A a \in Agents : agent[a].status = "dismissed" =>
                    /\ agent'[a].status = "dismissed"
                    /\ \A c \in Conversations : chat'.box[a][c] = chat.box[a][c]
                    /\ \A i \in DOMAIN chat'.log \ DOMAIN chat.log : chat'.log[i].from # a
  <1>1. IInv /\ S /\ [Next]_vars => A
    <2> SUFFICES ASSUME IInv, S, [Next]_vars, NEW a \in Agents, agent[a].status = "dismissed"
                 PROVE  /\ agent'[a].status = "dismissed"
                        /\ \A c \in Conversations : chat'.box[a][c] = chat.box[a][c]
                        /\ \A i \in DOMAIN chat'.log \ DOMAIN chat.log : chat'.log[i].from # a
      OBVIOUS
    <2>1. Still(a)
      BY NextIsStill
    <2> QED BY <2>1 DEF Still
  <1>2. Spec => []S
    BY Silence
  <1> HIDE DEF S, A
  <1>3. Spec => [][A]_vars
    BY <1>1, <1>2, Consistency, PTL DEF Spec
  <1> QED BY <1>3 DEF A, DismissedIsFinal

================================================================================

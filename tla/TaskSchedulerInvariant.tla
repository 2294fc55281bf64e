----------------------- MODULE TaskSchedulerInvariant -----------------------
(***************************************************************************)
(* The inductive invariant of TaskScheduler, which the books of the        *)
(* scheduler, its transitions and the end of a tree of tasks rest on, for  *)
(* any ids, answers and faults; and the proofs that the steps of the jobs  *)
(* under way, of the answers and of the creation of children preserve it.  *)
(***************************************************************************)
EXTENDS TaskSchedulerProperties, QueueLemmas, FiniteSetTheorems, TLAPS

\* The provers that a leaf is given, in turn.
USE SMT, Zenon, SMTT(6), SMTT(7), SMTT(8)

----------------------------------------------------------------------------
(* The inductive invariant, stated of a record s like S and a phase ph.  L *)
(* names what is left to do in the middle of a step: a READY task that is  *)
(* not queued yet, a live task that nobody is going to cancel yet.         *)

Late(t) == <<t, "queue">>
Lone(t) == <<t, "cancel">>

BlockFields == {"st", "why", "tries", "works", "due", "packed", "grants", "ask", "graph"}
AskFields   == {"n", "reqs", "route", "status", "path", "hop"}
WorkFields  == {"st", "open", "told", "ref", "seen"}

\* A request asks its ancestors one after the other, each of them once.
AskOK(a) ==
  /\ DOMAIN a = AskFields
  /\ a.n \in Nat /\ a.hop \in Nat /\ Len(a.path) \in Nat /\ DOMAIN a.path = 1 .. Len(a.path)
  /\ \A g, h \in DOMAIN a.path : a.path[g] = a.path[h] => g = h
  /\ a.n = 0 => Len(a.path) = 0

GraphOK(g) ==
  g = NoGraph \/ (DOMAIN g = {"phase", "cur", "nodes"} /\ IsFiniteSet(DOMAIN g.nodes))

Block(b) ==
  /\ DOMAIN b = BlockFields
  /\ b.st \in {"READY", "RUNNING", "BLOCKED", "TERMINATED"}
  /\ \A i \in DOMAIN b.works : DOMAIN b.works[i] = WorkFields /\ b.works[i].open \in BOOLEAN
  /\ AskOK(b.ask) /\ GraphOK(b.graph)

\* Blocked until someone decides what the task asked for.
Waits(b) == b.st = "BLOCKED" /\ b.why # "work"

\* The children that the task was told about and that wait for its decision.
Marks(b) == {i \in DOMAIN b.works : Blocking(b.works[i])}

IsStack(q) == q \in Seq(ToSet(q))

\* What a function under way may still have to do, by the kind of the function.
Casc == {"cancel", "notify", "progress", "deliver", "unlock"}
BootOps == {"orphan", "reconcile", "rerun", "retool", "resume", "booted"}
Sends == {"send", "enqueue"}
Heads == {"publish", "advance", "settle", "dispatch"}

OpsOf(kind) ==
  CASE kind = "model" -> {"model", "compact"}
    [] kind = "turn"  -> Casc \cup Sends \cup {"settle", "launch", "publish", "advance", "continue"}
    [] kind = "loop"  -> Casc \cup Sends \cup {"dispatch", "settle", "failnodes", "try"}
    [] kind = "host"  -> Casc \cup BootOps \cup {"launch"}
    [] kind = "timer" -> Casc
    [] kind = "call"  -> Casc \cup {"start", "exec"}

\* The order of the frames of a stack.  What follows a termination is never dropped,
\* and a decision on a request is taken in the turn of the task that decides.
FrameFits(q, i, j, ph) ==
  LET f == q[i] IN
  /\ f.op \in OpsOf(j[1])
  /\ f.op \in Heads => i = 1
  /\ f.op \in {"model", "compact", "dispatch"} => Len(q) = 1
  /\ f.op \in {"model", "compact", "settle", "continue"} /\ j[1] # "loop" => f.t = j[2]
  /\ f.op \in {"continue", "failnodes", "booted"} => i = Len(q)
  /\ f.op = "settle" => \A k \in DOMAIN q : q[k].op \in Sends => Parent[q[k].t] = f.t
  /\ f.op \in {"cancel", "notify", "failnodes"} => \A k \in 1 .. i - 1 : q[k].op \in Casc
  /\ f.op = "continue" => \A k \in 1 .. i - 1 : q[k].op \in Casc \cup {"publish", "advance"}
  /\ f.op \in {"publish", "advance"} =>
       \/ Len(q) = 1 /\ f.op = "publish" /\ f.t = j[2]
       \/ Len(q) = 2 /\ q[2].op = "continue"
  /\ f.op = "rerun" => \E k \in i + 1 .. Len(q) : q[k].op = "resume" /\ q[k].t = f.t
  /\ f.op \in BootOps => ph = "boot" /\ \A k \in i .. Len(q) : q[k].op \in BootOps
  /\ f.op \in Sends => \A k \in DOMAIN q : q[k].op \in Sends /\ q[k].t = f.t => k = i

StackOK(q, j, ph) == IsStack(q) /\ \A i \in DOMAIN q : FrameFits(q, i, j, ph)

Held(s, j) == ToSet(s.jobs[j])
Holds(s, t, j, ops) == \E f \in Held(s, j) : f.op \in ops /\ f.t = t

\* A child whose creation is not through.
Born(s, k) == \E j \in Jobs : Holds(s, k, j, Sends)

Known(s, t) == t \in Tasks /\ s.mem[t] # NoTask /\ ~Born(s, t)

\* What the turn, or the loop, is still going to do with its task.
Hot(s, t)    == \E f \in Held(s, TurnJob(t)) : f.op \in {"settle", "publish", "advance", "continue"}
Looped(s, t) == Holds(s, t, <<"loop">>, {"dispatch", "settle"})
InLoop(s, t) == Holds(s, t, <<"loop">>, {"dispatch", "settle", "failnodes", "try"})

\* A hop of the request of c is being published or was just granted.
HopAt(s, j, c) == s.jobs[j] # <<>> /\ s.jobs[j][1].op \in {"publish", "advance"} /\ s.jobs[j][1].t = c
OwnHop(s, j)   == Len(s.jobs[j]) = 1 /\ s.jobs[j][1].op = "publish"

\* Nobody was told of the latest request of c.
Unmarked(s, c) ==
  \A p \in Tasks : s.mem[p] # NoTask =>
    \A i \in Marks(s.mem[p]) : s.mem[p].works[i].ref # <<c, s.mem[c].ask.n>>

\* The work of a task is its calls and its children, and a request of it goes from its
\* ancestors down to it.
Route(t, h) ==
  /\ h = [grantor |-> h.grantor, grantee |-> h.grantee] /\ h.grantor \in Tasks
  /\ h.grantee = t \/ (Parent[t] # Orphan /\ (h.grantee = Parent[t] \/
       (Parent[Parent[t]] # Orphan /\ h.grantee = Parent[Parent[t]])))

Owned(t, b) == b # NoTask =>
  /\ \A i \in DOMAIN b.works : i \in Calls \/ (i \in Tasks /\ Parent[i] = t)
  /\ \A h \in DOMAIN b.ask.path : Route(t, b.ask.path[h])

Typed(s) ==
  /\ DOMAIN s = {"mem", "disk", "queue", "packing", "timers", "wake", "pool", "jobs", "ran"}
  /\ DOMAIN s.mem = Tasks /\ DOMAIN s.disk = Tasks /\ DOMAIN s.jobs = Jobs
  /\ DOMAIN s.pool = {"live", "spawned"}
  /\ \A t \in Tasks : /\ s.mem[t] = NoTask \/ Block(s.mem[t])
                      /\ s.disk[t] = NoTask \/ Block(s.disk[t])
                      /\ Owned(t, s.mem[t]) /\ Owned(t, s.disk[t])

Stacks(s, ph) == \A j \in Jobs : StackOK(s.jobs[j], j, ph)

\* Whatever is under way is under way for a task that exists.
Nameless == Sends \cup {"cancel", "notify", "unlock", "reconcile", "booted"}

\* t ended, or its creation was given up when its parent had ended.
Over(s, t) ==
  \/ s.mem[t].st = "TERMINATED"
  \/ /\ s.mem[t].st = "none" /\ Parent[t] # Orphan
     /\ Known(s, Parent[t]) /\ s.mem[Parent[t]].st = "TERMINATED"

FrameKnown(s, f) ==
  /\ f.op \notin Nameless => Known(s, f.t)
  /\ f.op \in {"cancel", "notify"} => f.t \in Tasks /\ Over(s, f.t)
  /\ f.op = "cancel" => \A k \in ToSet(f.x) : k \in Tasks /\ Parent[k] = f.t
  /\ f.op = "dispatch" => Len(f.x) \in Nat

FramesKnown(s) == \A j \in Jobs : \A f \in Held(s, j) : FrameKnown(s, f)

ListsKnown(s) == \A t \in s.queue \cup s.packing \cup s.timers \cup s.wake : Known(s, t)

Family(s, ph) == \A t \in Tasks :
  /\ s.mem[t] # NoTask /\ Parent[t] # Orphan => Known(s, Parent[t])
  /\ s.disk[t] # NoTask /\ Parent[t] # Orphan => s.disk[Parent[t]] # NoTask
  /\ ph # "down" /\ s.disk[t] # NoTask /\ s.mem[t] = NoTask =>
       Parent[t] # Orphan /\ ~Live(s.mem[Parent[t]])

\* A child being created is new, its work is open at its parent, and nobody else
\* creates it.
NewbornFits(s, f) ==
  LET k == f.t IN
  /\ k \in Tasks /\ s.mem[k] # NoTask /\ Parent[k] # Orphan
  /\ s.mem[k].st \in {"READY", "TERMINATED"} /\ s.mem[k].works = <<>> /\ s.mem[k].ask = NoAsk
  /\ Live(s.mem[Parent[k]]) => s.mem[k].st = "READY" /\ Completable(s.mem[Parent[k]], k)
  /\ s.disk[k] # NoTask => s.disk[k].ask = NoAsk /\ s.disk[k].works = <<>>
  /\ f.op = "send" /\ s.mem[k].st = "READY" => s.disk[k] = NoTask
  /\ f.op = "enqueue" => s.disk[k] # NoTask

Newborns(s) ==
  \A j \in Jobs : \A f \in Held(s, j) : f.op \in Sends =>
    /\ NewbornFits(s, f)
    /\ \A i \in Jobs : Holds(s, f.t, i, Sends) => i = j

\* Requests are saved before anyone is told of them.
Saved(s, ph) == ph # "down" =>
  \A t \in Tasks : Known(s, t) =>
    /\ s.disk[t] # NoTask
    /\ s.disk[t].ask.n = s.mem[t].ask.n /\ s.disk[t].ask.path = s.mem[t].ask.path
    /\ s.disk[t].ask.hop <= s.mem[t].ask.hop

Books(s) ==
  /\ s.pool.live = {t \in Tasks : Live(s.mem[t])}
  /\ s.queue \cap s.packing = {}
  /\ \A t \in s.queue \cup s.packing : s.mem[t].st = "READY"

ListedTask(s, t) ==
  t \in s.queue \cup s.packing \/ Born(s, t) \/ Holds(s, t, <<"host">>, {"resume"})

Listed(s, L) == \A t \in Tasks : s.mem[t].st = "READY" => Late(t) \in L \/ ListedTask(s, t)

\* At most one function acts for a task, and it finds the task RUNNING unless the
\* task ended or waits for the answer to its request.
HandlesFor(s, t, b) ==
  LET st == b.st IN
  /\ s.jobs[ModelJob(t)] # <<>> => st \in {"RUNNING", "TERMINATED"}
  /\ Hot(s, t) => s.jobs[ModelJob(t)] = <<>> /\ ~InLoop(s, t)
  /\ InLoop(s, t) => s.jobs[ModelJob(t)] = <<>>
  /\ Looped(s, t) => st \in {"RUNNING", "TERMINATED"}
  /\ Holds(s, t, TurnJob(t), {"continue"}) => st \in {"RUNNING", "TERMINATED"}
  /\ Holds(s, t, TurnJob(t), {"settle"}) => st \in {"RUNNING", "TERMINATED"} \/ Waits(b)
  /\ OwnHop(s, TurnJob(t)) => st = "TERMINATED" \/ Waits(b)

HandlesOf(s, t) == HandlesFor(s, t, s.mem[t])

Handles(s) == \A t \in Tasks : HandlesOf(s, t)

\* One function at a time acts on a request; what its own turn has not published
\* yet is known to nobody.
AsksOf(s, c) ==
  /\ \A j \in Jobs : HopAt(s, j, c) =>
       /\ Pending(s.mem[c]) \/ s.mem[c].st = "TERMINATED"
       /\ \A k \in Jobs : HopAt(s, k, c) => j = k
       /\ s.jobs[j][1].op = "publish" => s.disk[c].ask.hop = s.mem[c].ask.hop
       /\ OwnHop(s, j) => Unmarked(s, c)
  /\ Holds(s, c, TurnJob(c), {"settle"}) /\ Waits(s.mem[c]) =>
       Unmarked(s, c) /\ \A j \in Jobs : ~HopAt(s, j, c)

Asks(s) == \A c \in Tasks : AsksOf(s, c)

\* A mark names a request that was made and a hop that was reached.
MarkOK(s, p, i, ref) ==
  LET c == ref[1]
      n == ref[2] IN
  /\ ref = <<c, n>> /\ c \in Tasks /\ n \in Nat \ {0}
  /\ s.disk[c] # NoTask /\ n <= s.disk[c].ask.n
  /\ n = s.disk[c].ask.n => \E h \in DOMAIN s.disk[c].ask.path :
       h <= s.disk[c].ask.hop /\ s.disk[c].ask.path[h] = [grantor |-> p, grantee |-> i]

\* While a function acts on a request, the marks of it are of earlier hops.
EarlierHop(s, p, i, c) ==
  \E h \in DOMAIN s.mem[c].ask.path :
    h < s.mem[c].ask.hop /\ s.mem[c].ask.path[h] = [grantor |-> p, grantee |-> i]

Told(s) == \A p \in Tasks :
  /\ s.disk[p] # NoTask => \A i \in Marks(s.disk[p]) : MarkOK(s, p, i, s.disk[p].works[i].ref)
  /\ s.mem[p] # NoTask => \A i \in Marks(s.mem[p]) :
       /\ MarkOK(s, p, i, s.mem[p].works[i].ref)
       /\ \A c \in Tasks : \A j \in Jobs :
            HopAt(s, j, c) /\ s.mem[p].works[i].ref = <<c, s.mem[c].ask.n>> => EarlierHop(s, p, i, c)

Orphans(s, L) == \A k \in Tasks :
  Live(s.mem[k]) /\ Parent[k] # Orphan /\ ~Live(s.mem[Parent[k]]) =>
    \/ Lone(k) \in L
    \/ \E j \in Jobs : \E f \in Held(s, j) : f.op = "cancel" /\ k \in ToSet(f.x)
    \/ Holds(s, k, <<"host">>, {"orphan"})

Inv(s, ph, L) ==
  /\ Typed(s) /\ Stacks(s, ph)
  /\ FramesKnown(s) /\ ListsKnown(s) /\ Family(s, ph) /\ Newborns(s) /\ Saved(s, ph)
  /\ Books(s) /\ Listed(s, L) /\ Handles(s) /\ Asks(s) /\ Told(s) /\ Orphans(s, L)

\* Nothing survives in memory while the process is down.
Down == phase = "down" =>
  /\ mem = Nothing /\ queue = {} /\ packing = {} /\ timers = {} /\ wake = {}
  /\ pool = EmptyPool /\ jobs = Idle

IInv == phase \in {"down", "boot", "up"} /\ Inv(S, phase, {}) /\ Down

----------------------------------------------------------------------------
(* Stacks of frames *)

\* A finite set is listed by the sequence made of it, each element once.
LEMMA Listing ==
  ASSUME NEW X, IsFiniteSet(X)
  PROVE  /\ SetToSeq(X) \in Seq(X) /\ ToSet(SetToSeq(X)) = X
         /\ \A i, k \in DOMAIN SetToSeq(X) : SetToSeq(X)[i] = SetToSeq(X)[k] => i = k
  <1> DEFINE n == Cardinality(X)
  <1>1. n \in Nat /\ ExistsBijection(1 .. n, X)
    BY FS_CardinalityType
  <1>2. PICK f \in [1 .. n -> X] : IsInjective(f)
    BY <1>1, Zenon DEF ExistsBijection, Bijection, Injection
  <1>3. SetToSeq(X) \in [1 .. n -> X] /\ IsInjective(SetToSeq(X))
    BY <1>2 DEF SetToSeq
  <1> DEFINE q == SetToSeq(X)
  <1>4. q \in [1 .. n -> X] /\ IsInjective(q)
    BY <1>3
  <1> HIDE DEF q
  <1>5. q \in Injection(1 .. n, X)
    BY <1>4 DEF Injection
  <1>6. IsFiniteSet(1 .. n) /\ Cardinality(1 .. n) = n
    BY <1>1, FS_Interval
  <1>7. q \in Surjection(1 .. n, X)
    BY <1>5, <1>6, FS_Injection
  <1>8. ToSet(q) = X
    BY <1>4, <1>7 DEF Surjection, ToSet
  <1>9. q \in Seq(X)
    BY <1>1, <1>4
  <1> QED BY <1>4, <1>8, <1>9 DEF IsInjective, q

\* What is in a stack.
LEMMA StackFacts ==
  ASSUME NEW q, IsStack(q)
  PROVE  /\ Len(q) \in Nat /\ DOMAIN q = 1 .. Len(q)
         /\ \A i \in 1 .. Len(q) : q[i] \in ToSet(q)
         /\ \A f \in ToSet(q) : \E i \in 1 .. Len(q) : q[i] = f
         /\ q = <<>> <=> Len(q) = 0
         /\ q = <<>> <=> ToSet(q) = {}
  <1>1. Len(q) \in Nat /\ DOMAIN q = 1 .. Len(q) /\ (q = <<>> <=> Len(q) = 0)
    BY DEF IsStack
  <1>2. ToSet(q) = {q[i] : i \in 1 .. Len(q)}
    BY <1>1 DEF ToSet
  <1>3. /\ \A i \in 1 .. Len(q) : q[i] \in ToSet(q)
        /\ \A f \in ToSet(q) : \E i \in 1 .. Len(q) : q[i] = f
    BY <1>2
  <1>4. Len(q) = 0 => ToSet(q) = {}
    BY <1>3
  <1>5. Len(q) # 0 => 1 \in 1 .. Len(q)
    BY <1>1
  <1> QED BY <1>1, <1>3, <1>4, <1>5

\* A function on 1 .. n is a stack.
LEMMA StackIs ==
  ASSUME NEW n \in Nat, NEW q, q = [i \in 1 .. n |-> q[i]]
  PROVE  IsStack(q) /\ Len(q) = n
  <1>1. DOMAIN q = 1 .. n
    BY SMT
  <1>2. \A i \in 1 .. n : q[i] \in ToSet(q)
    BY <1>1 DEF ToSet
  <1>3. q \in [1 .. n -> ToSet(q)]
    BY <1>1, <1>2
  <1>4. q \in Seq(ToSet(q))
    BY <1>3
  <1> QED BY <1>1, <1>4 DEF IsStack

\* Pushing frames.
LEMMA StackOn ==
  ASSUME NEW p, NEW q, IsStack(p), IsStack(q)
  PROVE  /\ IsStack(p \o q) /\ Len(p \o q) = Len(p) + Len(q)
         /\ \A i \in 1 .. Len(p) : (p \o q)[i] = p[i]
         /\ \A i \in Len(p) + 1 .. Len(p) + Len(q) : (p \o q)[i] = q[i - Len(p)]
         /\ ToSet(p \o q) = ToSet(p) \cup ToSet(q)
  <1> DEFINE X == ToSet(p) \cup ToSet(q)
  <1>1. p \in Seq(X) /\ q \in Seq(X)
    BY DEF IsStack
  <1> HIDE DEF X
  <1>2. /\ p \o q \in Seq(X) /\ Len(p \o q) = Len(p) + Len(q)
        /\ \A i \in 1 .. Len(p) + Len(q) :
             (p \o q)[i] = IF i <= Len(p) THEN p[i] ELSE q[i - Len(p)]
    BY <1>1, ConcatProperties
  <1>3. Len(p) \in Nat /\ Len(q) \in Nat
    BY <1>1
  <1>4. \A i \in 1 .. Len(p) : (p \o q)[i] = p[i]
    BY <1>2, <1>3
  <1>5. \A i \in Len(p) + 1 .. Len(p) + Len(q) : (p \o q)[i] = q[i - Len(p)]
    BY <1>2, <1>3
  <1>6. PICK r : r = p \o q
    OBVIOUS
  <1>7. /\ r \in Seq(X) /\ DOMAIN r = 1 .. Len(p) + Len(q) /\ Len(r) = Len(p) + Len(q)
    BY <1>2, <1>6
  <1>8. ToSet(r) \subseteq ToSet(p) \cup ToSet(q)
    <2>1. SUFFICES ASSUME NEW i \in 1 .. Len(p) + Len(q) PROVE r[i] \in ToSet(p) \cup ToSet(q)
      BY <1>7 DEF ToSet
    <2>2. CASE i <= Len(p)
      BY <1>3, <1>4, <1>6, <2>2, StackFacts
    <2>3. CASE i > Len(p)
      <3>1. r[i] = q[i - Len(p)] /\ i - Len(p) \in 1 .. Len(q)
        BY <1>3, <1>5, <1>6, <2>3
      <3> QED BY <3>1, StackFacts
    <2> QED BY <1>3, <2>2, <2>3
  <1>9. ToSet(p) \subseteq ToSet(r)
    <2>1. SUFFICES ASSUME NEW f \in ToSet(p) PROVE f \in ToSet(r)
      OBVIOUS
    <2>2. PICK i \in 1 .. Len(p) : p[i] = f
      BY StackFacts
    <2>3. i \in DOMAIN r /\ r[i] = f
      BY <1>3, <1>4, <1>6, <1>7, <2>2
    <2> QED BY <2>3 DEF ToSet
  <1>10. ToSet(q) \subseteq ToSet(r)
    <2>1. SUFFICES ASSUME NEW f \in ToSet(q) PROVE f \in ToSet(r)
      OBVIOUS
    <2>2. PICK i \in 1 .. Len(q) : q[i] = f
      BY StackFacts
    <2>3. Len(p) + i \in Len(p) + 1 .. Len(p) + Len(q) /\ (Len(p) + i) - Len(p) = i
      BY <1>3, <2>2
    <2>4. Len(p) + i \in DOMAIN r /\ r[Len(p) + i] = f
      BY <1>3, <1>5, <1>6, <1>7, <2>2, <2>3
    <2> QED BY <2>4 DEF ToSet
  <1>11. IsStack(r)
    <2>1. \A i \in 1 .. Len(r) : r[i] \in ToSet(r)
      BY <1>7 DEF ToSet
    <2>2. r \in Seq(ToSet(r))
      BY <1>7, <2>1
    <2> QED BY <2>2 DEF IsStack
  <1> QED BY <1>2, <1>4, <1>5, <1>6, <1>8, <1>9, <1>10, <1>11

\* r is what is left of q after its first d frames are dropped.
Suffix(r, q, d) ==
  /\ d \in 0 .. Len(q) /\ IsStack(r) /\ Len(r) = Len(q) - d
  /\ \A i \in 1 .. Len(q) - d : r[i] = q[i + d]

LEMMA SuffixTail ==
  ASSUME NEW q, IsStack(q), q # <<>>
  PROVE  Suffix(Tail(q), q, 1)
  <1>1. q \in Seq(ToSet(q)) /\ Len(q) \in Nat \ {0}
    BY StackFacts DEF IsStack
  <1>2. PICK r : r = Tail(q)
    OBVIOUS
  <1>a. /\ r \in Seq(ToSet(q)) /\ Len(r) = Len(q) - 1
        /\ \A i \in 1 .. Len(q) - 1 : r[i] = q[i + 1]
    BY <1>1, <1>2
  <1>3. r = [i \in 1 .. Len(q) - 1 |-> r[i]] /\ \A i \in 1 .. Len(q) - 1 : r[i] = q[i + 1]
    BY <1>1, <1>a
  <1>4. IsStack(r) /\ Len(r) = Len(q) - 1
    BY <1>1, <1>3, StackIs
  <1> QED BY <1>1, <1>2, <1>3, <1>4 DEF Suffix

LEMMA SuffixNone ==
  ASSUME NEW q, IsStack(q)
  PROVE  Suffix(<<>>, q, Len(q)) /\ Suffix(q, q, 0) /\ IsStack(<<>>) /\ ToSet(<<>>) = {}
  <1>1. Len(q) \in Nat
    BY StackFacts
  <1>2. IsStack(<<>>) /\ Len(<<>>) = 0 /\ ToSet(<<>>) = {}
    BY DEF IsStack, ToSet
  <1>3. Len(q) \in 0 .. Len(q) /\ 0 \in 0 .. Len(q) /\ Len(q) - Len(q) = 0 /\ Len(q) - 0 = Len(q)
    BY <1>1
  <1>4. Suffix(<<>>, q, Len(q))
    BY <1>2, <1>3 DEF Suffix
  <1>5. Suffix(q, q, 0)
    BY <1>1, <1>3 DEF Suffix
  <1> QED BY <1>2, <1>4, <1>5

LEMMA SuffixSet ==
  ASSUME NEW q, NEW r, NEW d, IsStack(q), Suffix(r, q, d)
  PROVE  /\ ToSet(r) \subseteq ToSet(q)
         /\ \A f \in ToSet(q) \ ToSet(r) : \E i \in 1 .. d : q[i] = f
         /\ d = 0 => r = q
  <1>1. /\ Len(q) \in Nat /\ d \in 0 .. Len(q) /\ IsStack(r) /\ Len(r) = Len(q) - d
        /\ \A i \in 1 .. Len(q) - d : r[i] = q[i + d]
    BY StackFacts DEF Suffix
  <1>2. ToSet(r) \subseteq ToSet(q)
    <2>1. SUFFICES ASSUME NEW f \in ToSet(r) PROVE f \in ToSet(q)
      OBVIOUS
    <2>2. PICK i \in 1 .. Len(r) : r[i] = f
      BY <1>1, StackFacts
    <2>3. i + d \in 1 .. Len(q) /\ q[i + d] = f
      BY <1>1, <2>2
    <2> QED BY <2>3, StackFacts
  <1>3. ASSUME NEW f \in ToSet(q) \ ToSet(r) PROVE \E i \in 1 .. d : q[i] = f
    <2>1. PICK i \in 1 .. Len(q) : q[i] = f
      BY StackFacts
    <2>2. CASE i <= d
      BY <1>1, <2>1, <2>2
    <2>3. CASE i > d
      <3>1. i - d \in 1 .. Len(r) /\ r[i - d] = f
        BY <1>1, <2>1, <2>3
      <3>2. f \in ToSet(r)
        BY <1>1, <3>1, StackFacts
      <3> QED BY <3>2
    <2> QED BY <1>1, <2>1, <2>2, <2>3
  <1>4. ASSUME d = 0 PROVE r = q
    <2>1. Len(r) = Len(q) /\ \A i \in 1 .. Len(q) : r[i] = q[i]
      BY <1>1, <1>4
    <2>2. r \in Seq(ToSet(r) \cup ToSet(q)) /\ q \in Seq(ToSet(r) \cup ToSet(q))
      BY <1>1 DEF IsStack
    <2> QED BY <2>1, <2>2
  <1> QED BY <1>2, <1>3, <1>4

LEMMA SavedStays ==
  ASSUME NEW s, NEW r, NEW ph, Saved(s, ph),
         \A x \in Tasks : Known(r, x) => Known(s, x) /\ r.mem[x] = s.mem[x] /\ r.disk[x] = s.disk[x]
  PROVE  Saved(r, ph)
  BY DEF Saved

LEMMA SubSeqForm ==
  ASSUME NEW T, NEW q \in Seq(T), NEW c \in 1 .. Len(q), NEW r, r = SubSeq(q, c, Len(q))
  PROVE  /\ r = [i \in 1 .. Len(q) - (c - 1) |-> r[i]]
         /\ \A i \in 1 .. Len(q) - (c - 1) : r[i] = q[i + (c - 1)]
  OBVIOUS

\* Frames that only mark what they enclose are left out at the head.
LEMMA SuffixTrim ==
  ASSUME NEW q, IsStack(q)
  PROVE  \E d : /\ Suffix(Trim(q), q, d)
                /\ \A i \in 1 .. d : q[i].op \in {"unlock", "try"}
  <1> DEFINE busy == {i \in DOMAIN q : q[i].op \notin {"unlock", "try"}}
  <1>1. Len(q) \in Nat /\ DOMAIN q = 1 .. Len(q)
    BY StackFacts
  <1>2. CASE busy = {}
    <2>1. Trim(q) = <<>>
      BY <1>2 DEF Trim
    <2>2. \A i \in 1 .. Len(q) : q[i].op \in {"unlock", "try"}
      BY <1>1, <1>2
    <2> QED BY <2>1, <2>2, SuffixNone
  <1>3. CASE busy # {}
    <2>1. busy \in SUBSET Nat
      BY <1>1
    <2>2. PICK m \in busy : \A k \in busy : m <= k
      BY <1>3, <2>1, NatMin
    <2> DEFINE c == CHOOSE i \in busy : \A k \in busy : i <= k
    <2>3. c \in busy /\ \A k \in busy : c <= k
      BY <2>2
    <2>4. Trim(q) = SubSeq(q, c, Len(q))
      BY <1>3 DEF Trim
    <2> HIDE DEF c
    <2>5. c \in 1 .. Len(q) /\ \A i \in 1 .. c - 1 : q[i].op \in {"unlock", "try"}
      <3>1. c \in 1 .. Len(q)
        BY <1>1, <2>3
      <3>2. ASSUME NEW i \in 1 .. c - 1, q[i].op \notin {"unlock", "try"} PROVE FALSE
        <4>1. i \in busy
          BY <1>1, <3>1, <3>2
        <4>2. c <= i
          BY <2>3, <4>1
        <4> QED BY <3>1, <4>2
      <3> QED BY <3>1, <3>2
    <2>6. PICK r : r = SubSeq(q, c, Len(q))
      OBVIOUS
    <2>7. /\ r = [i \in 1 .. Len(q) - (c - 1) |-> r[i]]
          /\ \A i \in 1 .. Len(q) - (c - 1) : r[i] = q[i + (c - 1)]
      <3>1. q \in Seq(ToSet(q)) /\ c \in 1 .. Len(q)
        BY <1>1, <2>5 DEF IsStack
      <3> QED BY <2>6, <3>1, SubSeqForm
    <2>8. IsStack(r) /\ Len(r) = Len(q) - (c - 1)
      BY <1>1, <2>5, <2>7, StackIs
    <2>9. Suffix(r, q, c - 1)
      BY <1>1, <2>5, <2>7, <2>8 DEF Suffix
    <2> QED BY <2>4, <2>5, <2>6, <2>9
  <1> QED BY <1>2, <1>3

----------------------------------------------------------------------------
(* The jobs of the scheduler and the record that describes them *)

LEMMA JobFacts ==
  /\ <<"loop">> \in Jobs /\ <<"host">> \in Jobs
  /\ \A t \in Tasks : TurnJob(t) \in Jobs /\ ModelJob(t) \in Jobs /\ <<"timer", t>> \in Jobs
  /\ \A c \in Calls : <<"call", c>> \in Jobs
  /\ <<"loop">>[1] = "loop" /\ <<"host">>[1] = "host"
  /\ \A t : /\ TurnJob(t)[1] = "turn" /\ TurnJob(t)[2] = t
            /\ ModelJob(t)[1] = "model" /\ ModelJob(t)[2] = t
            /\ <<"timer", t>>[1] = "timer" /\ <<"timer", t>>[2] = t
            /\ <<"call", t>>[1] = "call" /\ <<"call", t>>[2] = t
  /\ \A j \in Jobs :
       /\ j[1] \in {"loop", "host", "model", "turn", "timer", "call"}
       /\ j[1] = "loop" => j = <<"loop">>
       /\ j[1] = "host" => j = <<"host">>
       /\ j[1] = "turn" => j[2] \in Tasks /\ j = TurnJob(j[2])
       /\ j[1] = "model" => j[2] \in Tasks /\ j = ModelJob(j[2])
       /\ j[1] = "timer" => j[2] \in Tasks /\ j = <<"timer", j[2]>>
       /\ j[1] = "call" => j[2] \in Calls /\ j = <<"call", j[2]>>
  <1>1. ASSUME NEW j \in Jobs
        PROVE  \/ j = <<"loop">> \/ j = <<"host">>
               \/ \E k \in {"model", "turn", "timer"}, t \in Tasks : j = <<k, t>>
               \/ \E c \in Calls : j = <<"call", c>>
    BY DEF Jobs
  <1> QED BY <1>1 DEF Jobs, TurnJob, ModelJob

Fields == {"mem", "disk", "queue", "packing", "timers", "wake", "pool", "jobs", "ran"}

\* r consists of these parts; ran is of no matter here.
Is(r, m, d, qu, pk, ti, wk, po, jo) ==
  /\ DOMAIN r = Fields /\ r.mem = m /\ r.disk = d /\ r.queue = qu /\ r.packing = pk
  /\ r.timers = ti /\ r.wake = wk /\ r.pool = po /\ r.jobs = jo

LEMMA IsItself ==
  ASSUME NEW s, DOMAIN s = Fields
  PROVE  Is(s, s.mem, s.disk, s.queue, s.packing, s.timers, s.wake, s.pool, s.jobs)
  BY DEF Is

\* A live task that nothing will cancel unless something is under way for it.
Stray(s, k) == Live(s.mem[k]) /\ Parent[k] # Orphan /\ ~Live(s.mem[Parent[k]])

\* What is dropped from the jobs between s and r is nobody's only hope, except for K.
Dropped(s, r, K) ==
  \A i \in Jobs : \A f \in Held(s, i) : f \notin Held(r, i) =>
    /\ f.op # "send"
    /\ f.op \in {"enqueue", "resume"} /\ s.mem[f.t].st = "READY" =>
         Late(f.t) \in K \/ f.t \in s.queue \cup s.packing
    /\ f.op = "cancel" => \A k \in ToSet(f.x) : Live(s.mem[k]) => Lone(k) \in K
    /\ f.op = "orphan" /\ Stray(s, f.t) => Lone(f.t) \in K

\* Frames come that create nobody, for tasks that exist.
Coming(s, r) ==
  \A i \in Jobs : \A f \in Held(r, i) :
    f \in Held(s, i) \/ (f.op \notin Sends /\ FrameKnown(s, f))

\* Whoever was told of the request of c was so for an earlier hop.
ToldEarlier(s, c) ==
  \A p \in Tasks : s.mem[p] # NoTask =>
    \A i \in Marks(s.mem[p]) :
      s.mem[p].works[i].ref = <<c, s.mem[c].ask.n>> => EarlierHop(s, p, i, c)

\* A mark names an accepted request of its task.
LEMMA MarkFacts ==
  ASSUME NEW s, NEW p, NEW i, NEW ref, MarkOK(s, p, i, ref)
  PROVE  /\ s.disk[ref[1]] # NoTask /\ ref[2] \in Nat \ {0} /\ ref[2] <= s.disk[ref[1]].ask.n
  BY ZenonT(30) DEF MarkOK

LEMMA NoAskIsNone == NoAsk.n = 0
  BY DEF NoAsk

\* A frame stays known while the tasks stay known and what ended, or was given up,
\* stays so.
LEMMA FrameStays ==
  ASSUME NEW s, NEW r, \A t : Known(s, t) => Known(r, t),
         \A t \in Tasks : s.mem[t].st \in {"TERMINATED", "none"} => r.mem[t].st = s.mem[t].st,
         NEW f, FrameKnown(s, f)
  PROVE  FrameKnown(r, f)
  <1>1. ASSUME NEW t \in Tasks, Over(s, t) PROVE Over(r, t)
    <2>1. CASE s.mem[t].st = "TERMINATED"
      BY <2>1 DEF Over
    <2>2. CASE /\ s.mem[t].st = "none" /\ Parent[t] # Orphan
               /\ Known(s, Parent[t]) /\ s.mem[Parent[t]].st = "TERMINATED"
      <3>1. Known(r, Parent[t]) /\ Parent[t] \in Tasks
        BY <2>2 DEF Known
      <3> QED BY <2>2, <3>1 DEF Over
    <2> QED BY <1>1, <2>1, <2>2 DEF Over
  <1> QED BY <1>1 DEF FrameKnown

\* The functions under way go on without touching a task.
LEMMA Work ==
  ASSUME NEW s, NEW ph, NEW L, Inv(s, ph, L), NEW K, L \subseteq K,
         NEW jo, DOMAIN jo = Jobs, NEW r,
         Is(r, s.mem, s.disk, s.queue, s.packing, s.timers, s.wake, s.pool, jo),
         Stacks(r, ph), Dropped(s, r, K), Coming(s, r), Handles(r), Asks(r),
         \A c \in Tasks, i \in Jobs : HopAt(r, i, c) => (\E j \in Jobs : HopAt(s, j, c)) \/ ToldEarlier(s, c)
  PROVE  Inv(r, ph, K)
  <1>1. /\ r.mem = s.mem /\ r.disk = s.disk /\ r.queue = s.queue /\ r.packing = s.packing
        /\ r.timers = s.timers /\ r.wake = s.wake /\ r.pool = s.pool /\ r.jobs = jo
        /\ DOMAIN r = Fields
    BY DEF Is
  <1>2. \A i \in Jobs : \A f \in Held(r, i) : f \in Held(s, i) \/ (f.op \notin Sends /\ FrameKnown(s, f))
    BY DEF Coming
  <1>3. \A i \in Jobs : \A k : Holds(r, k, i, Sends) => Holds(s, k, i, Sends)
    BY <1>2 DEF Holds
  <1>4. \A k : Born(r, k) => Born(s, k)
    BY <1>3 DEF Born
  <1>5. \A t : Known(s, t) => Known(r, t)
    BY <1>1, <1>4 DEF Known
  <1>6. Typed(r)
    BY <1>1 DEF Inv, Typed, Fields
  <1>7. FramesKnown(r)
    <2>1. SUFFICES ASSUME NEW i \in Jobs, NEW f \in Held(r, i) PROVE FrameKnown(r, f)
      BY DEF FramesKnown
    <2>2. FrameKnown(s, f)
      BY <1>2 DEF Inv, FramesKnown
    <2> QED BY <1>1, <1>5, <2>2, FrameStays
  <1>8. ListsKnown(r)
    BY <1>1, <1>5 DEF Inv, ListsKnown
  <1>9. Family(r, ph)
    BY <1>1, <1>5 DEF Inv, Family
  <1>10. Newborns(r)
    <2>1. SUFFICES ASSUME NEW i \in Jobs, NEW f \in Held(r, i), f.op \in Sends
                   PROVE  NewbornFits(r, f) /\ \A j \in Jobs : Holds(r, f.t, j, Sends) => j = i
      BY DEF Newborns
    <2>2. f \in Held(s, i)
      BY <1>2, <2>1
    <2>3. NewbornFits(s, f) /\ \A j \in Jobs : Holds(s, f.t, j, Sends) => j = i
      BY <2>1, <2>2 DEF Inv, Newborns
    <2>4. NewbornFits(r, f)
      BY <1>1, <2>3 DEF NewbornFits
    <2> QED BY <1>3, <2>3, <2>4
  <1>11. Saved(r, ph)
    <2>1. SUFFICES ASSUME ph # "down", NEW t \in Tasks, Known(r, t)
                   PROVE  /\ r.disk[t] # NoTask
                          /\ r.disk[t].ask.n = r.mem[t].ask.n /\ r.disk[t].ask.path = r.mem[t].ask.path
                          /\ r.disk[t].ask.hop <= r.mem[t].ask.hop
      BY DEF Saved
    <2>2. CASE Known(s, t)
      BY <1>1, <2>1, <2>2 DEF Inv, Saved
    <2>3. CASE ~Known(s, t)
      <3>p1. PICK i \in Jobs : \E f \in Held(s, i) : f.op \in Sends /\ f.t = t
        BY <1>1, <2>1, <2>3 DEF Known, Born, Holds
      <3>1. PICK f \in Held(s, i) : f.op \in Sends /\ f.t = t
        BY <3>p1
      <3>2. f \notin Held(r, i)
        BY <2>1, <3>1 DEF Known, Born, Holds
      <3>3. f.op = "enqueue"
        BY <3>1, <3>2 DEF Dropped, Sends
      <3>4. s.disk[t] # NoTask /\ s.mem[t].ask = NoAsk /\ s.disk[t].ask = NoAsk
        BY <3>1, <3>3 DEF Inv, Newborns, NewbornFits
      <3>5. NoAsk.hop <= NoAsk.hop
        BY DEF NoAsk
      <3> QED BY <1>1, <3>4, <3>5
    <2> QED BY <2>2, <2>3
  <1>12. Books(r)
    BY <1>1 DEF Inv, Books
  <1>13. Listed(r, K)
    <2>1. SUFFICES ASSUME NEW t \in Tasks, s.mem[t].st = "READY", Late(t) \notin K, t \notin s.queue \cup s.packing
                   PROVE  Born(r, t) \/ Holds(r, t, <<"host">>, {"resume"})
      BY <1>1 DEF Listed, ListedTask
    <2>2. ListedTask(s, t)
      BY <2>1 DEF Inv, Listed
    <2>3. CASE Born(s, t)
      <3>p1. PICK i \in Jobs : \E f \in Held(s, i) : f.op \in Sends /\ f.t = t
        BY <2>3 DEF Born, Holds
      <3>1. PICK f \in Held(s, i) : f.op \in Sends /\ f.t = t
        BY <3>p1
      <3>2. f \in Held(r, i)
        BY <2>1, <3>1 DEF Dropped, Sends
      <3> QED BY <3>1, <3>2 DEF Born, Holds
    <2>4. CASE Holds(s, t, <<"host">>, {"resume"})
      <3>1. PICK f \in Held(s, <<"host">>) : f.op = "resume" /\ f.t = t
        BY <2>4 DEF Holds
      <3>2. f \in Held(r, <<"host">>)
        BY <2>1, <3>1, JobFacts DEF Dropped
      <3> QED BY <3>1, <3>2 DEF Holds
    <2> QED BY <2>1, <2>2, <2>3, <2>4 DEF ListedTask
  <1>14. Told(r)
    <2>1. SUFFICES ASSUME NEW p \in Tasks
                   PROVE  /\ r.disk[p] # NoTask => \A i \in Marks(r.disk[p]) : MarkOK(r, p, i, r.disk[p].works[i].ref)
                          /\ r.mem[p] # NoTask => \A i \in Marks(r.mem[p]) :
                               /\ MarkOK(r, p, i, r.mem[p].works[i].ref)
                               /\ \A c \in Tasks : \A j \in Jobs :
                                    HopAt(r, j, c) /\ r.mem[p].works[i].ref = <<c, r.mem[c].ask.n>> => EarlierHop(r, p, i, c)
      BY DEF Told
    <2>2. \A i, ref : MarkOK(s, p, i, ref) => MarkOK(r, p, i, ref)
      BY <1>1 DEF MarkOK
    <2>3. \A i, c : EarlierHop(s, p, i, c) => EarlierHop(r, p, i, c)
      BY <1>1 DEF EarlierHop
    <2>4. /\ s.disk[p] # NoTask => \A i \in Marks(s.disk[p]) : MarkOK(s, p, i, s.disk[p].works[i].ref)
          /\ s.mem[p] # NoTask => \A i \in Marks(s.mem[p]) :
                               /\ MarkOK(s, p, i, s.mem[p].works[i].ref)
                               /\ \A c \in Tasks : \A j \in Jobs :
                                    HopAt(s, j, c) /\ s.mem[p].works[i].ref = <<c, s.mem[c].ask.n>> => EarlierHop(s, p, i, c)
      BY DEF Inv, Told
    <2>5. ASSUME s.mem[p] # NoTask, NEW i \in Marks(s.mem[p]), NEW c \in Tasks, NEW j \in Jobs,
                 HopAt(r, j, c), s.mem[p].works[i].ref = <<c, s.mem[c].ask.n>>
          PROVE  EarlierHop(s, p, i, c)
      BY <2>4, <2>5 DEF ToldEarlier
    <2> QED BY <1>1, <2>2, <2>3, <2>4, <2>5
  <1>15. Orphans(r, K)
    <2>1. SUFFICES ASSUME NEW k \in Tasks, Stray(s, k), Lone(k) \notin K
                   PROVE  \/ \E j \in Jobs : \E f \in Held(r, j) : f.op = "cancel" /\ k \in ToSet(f.x)
                          \/ Holds(r, k, <<"host">>, {"orphan"})
      BY <1>1 DEF Orphans, Stray
    <2>2. \/ \E j \in Jobs : \E f \in Held(s, j) : f.op = "cancel" /\ k \in ToSet(f.x)
          \/ Holds(s, k, <<"host">>, {"orphan"})
      BY <2>1 DEF Inv, Orphans, Stray
    <2>3. CASE \E j \in Jobs : \E f \in Held(s, j) : f.op = "cancel" /\ k \in ToSet(f.x)
      <3>p1. PICK j \in Jobs : \E f \in Held(s, j) : f.op = "cancel" /\ k \in ToSet(f.x)
        BY <2>3
      <3>1. PICK f \in Held(s, j) : f.op = "cancel" /\ k \in ToSet(f.x)
        BY <3>p1
      <3>2. f \in Held(r, j)
        BY <2>1, <3>1 DEF Dropped, Stray
      <3> QED BY <3>1, <3>2
    <2>4. CASE Holds(s, k, <<"host">>, {"orphan"})
      <3>1. PICK f \in Held(s, <<"host">>) : f.op = "orphan" /\ f.t = k
        BY <2>4 DEF Holds
      <3>2. f \in Held(r, <<"host">>)
        BY <2>1, <3>1, JobFacts DEF Dropped
      <3> QED BY <3>1, <3>2 DEF Holds
    <2> QED BY <2>2, <2>3, <2>4
  <1> QED BY <1>6, <1>7, <1>8, <1>9, <1>10, <1>11, <1>12, <1>13, <1>14, <1>15 DEF Inv

\* Frames that no function of a task, of its request or of its creation depends on.
Plain == Casc \cup {"launch", "start", "exec"}

\* The functions under way go on, or drop what they had to do.
LEMMA Calm ==
  ASSUME NEW s, NEW ph, NEW L, Inv(s, ph, L), NEW K, L \subseteq K,
         NEW jo, DOMAIN jo = Jobs, NEW r,
         Is(r, s.mem, s.disk, s.queue, s.packing, s.timers, s.wake, s.pool, jo),
         Stacks(r, ph), Dropped(s, r, K),
         \A i \in Jobs : \A f \in Held(r, i) : f \in Held(s, i) \/ (f.op \in Plain /\ FrameKnown(s, f)),
         \A i \in Jobs : i[1] = "model" /\ s.jobs[i] = <<>> => jo[i] = <<>>,
         \A i \in Jobs : \A c : HopAt(r, i, c) => jo[i] = s.jobs[i]
  PROVE  Inv(r, ph, K)
  <1>1. r.mem = s.mem /\ r.disk = s.disk /\ r.jobs = jo
    BY DEF Is
  <1>2. Coming(s, r)
    BY DEF Coming, Plain, Casc, Sends
  <1>3. \A i \in Jobs : \A t, ops : ops \cap Plain = {} /\ Holds(r, t, i, ops) => Holds(s, t, i, ops)
    BY DEF Holds
  <1>4. \A i \in Jobs : \A c : HopAt(r, i, c) => HopAt(s, i, c) /\ r.jobs[i] = s.jobs[i]
    BY <1>1 DEF HopAt
  <1>5. \A i \in Jobs : OwnHop(r, i) => OwnHop(s, i)
    <2>1. SUFFICES ASSUME NEW i \in Jobs, OwnHop(r, i) PROVE OwnHop(s, i)
      OBVIOUS
    <2>2. r.jobs[i] # <<>>
      <3>1. IsStack(r.jobs[i])
        BY DEF Stacks, StackOK
      <3> QED BY <2>1, <3>1, StackFacts DEF OwnHop
    <2>3. HopAt(r, i, r.jobs[i][1].t)
      BY <2>1, <2>2 DEF OwnHop, HopAt
    <2>4. r.jobs[i] = s.jobs[i]
      BY <1>4, <2>3
    <2> QED BY <2>1, <2>4 DEF OwnHop
  <1>6. Handles(r)
    <2>1. SUFFICES ASSUME NEW t \in Tasks PROVE HandlesOf(r, t)
      BY DEF Handles
    <2>2. ModelJob(t) \in Jobs /\ TurnJob(t) \in Jobs /\ <<"loop">> \in Jobs /\ ModelJob(t)[1] = "model"
      BY JobFacts
    <2>3. s.jobs[ModelJob(t)] = <<>> => r.jobs[ModelJob(t)] = <<>>
      BY <1>1, <2>2
    <2>4. Hot(r, t) => Hot(s, t)
      BY <2>2 DEF Hot, Plain, Casc
    <2>5. (Looped(r, t) => Looped(s, t)) /\ (InLoop(r, t) => InLoop(s, t))
      BY <1>3, <2>2 DEF Looped, InLoop, Plain, Casc
    <2>6. /\ Holds(r, t, TurnJob(t), {"continue"}) => Holds(s, t, TurnJob(t), {"continue"})
          /\ Holds(r, t, TurnJob(t), {"settle"}) => Holds(s, t, TurnJob(t), {"settle"})
      BY <1>3, <2>2 DEF Plain, Casc
    <2>7. HandlesOf(s, t)
      BY DEF Inv, Handles
    <2> QED BY <1>1, <1>5, <2>2, <2>3, <2>4, <2>5, <2>6, <2>7 DEF HandlesOf, HandlesFor
  <1>7. Asks(r)
    <2>1. SUFFICES ASSUME NEW c \in Tasks PROVE AsksOf(r, c)
      BY DEF Asks
    <2>2. AsksOf(s, c)
      BY DEF Inv, Asks
    <2>3. Unmarked(s, c) => Unmarked(r, c)
      BY <1>1 DEF Unmarked
    <2>4. Holds(r, c, TurnJob(c), {"settle"}) => Holds(s, c, TurnJob(c), {"settle"})
      BY <1>3, JobFacts DEF Plain, Casc
    <2> QED BY <1>1, <1>4, <1>5, <2>2, <2>3, <2>4 DEF AsksOf
  <1>8. \A c \in Tasks, i \in Jobs : HopAt(r, i, c) => (\E j \in Jobs : HopAt(s, j, c)) \/ ToldEarlier(s, c)
    BY <1>4
  <1> QED BY <1>2, <1>6, <1>7, <1>8, Work

\* What is left of a stack is in order.
LEMMA StackLess ==
  ASSUME NEW q, NEW j, NEW ph, StackOK(q, j, ph), NEW r, NEW d, Suffix(r, q, d)
  PROVE  StackOK(r, j, ph) /\ (r # <<>> /\ r[1].op \in Heads => r = q)
  <1>1. /\ IsStack(q) /\ IsStack(r) /\ Len(q) \in Nat /\ Len(r) \in Nat /\ d \in 0 .. Len(q)
        /\ Len(r) = Len(q) - d /\ DOMAIN q = 1 .. Len(q) /\ DOMAIN r = 1 .. Len(r)
        /\ \A i \in 1 .. Len(r) : r[i] = q[i + d]
    BY StackFacts DEF StackOK, Suffix
  <1>2. \A i \in 1 .. Len(q) : FrameFits(q, i, j, ph)
    BY <1>1 DEF StackOK
  <1>3. d = 0 => r = q
    BY <1>1, SuffixSet
  <1>4. ASSUME NEW i \in 1 .. Len(r) PROVE FrameFits(r, i, j, ph)
    <2>1. i + d \in 1 .. Len(q) /\ r[i] = q[i + d] /\ FrameFits(q, i + d, j, ph)
      BY <1>1, <1>2
    <2>2. CASE d = 0
      BY <1>1, <1>2, <1>3, <2>2
    <2>3. CASE d # 0
      <3> DEFINE f == r[i]
      <3>1. /\ f.op \in OpsOf(j[1]) /\ f.op \notin Heads
            /\ f.op \notin {"model", "compact", "dispatch"}
        BY <1>1, <2>1, <2>3 DEF FrameFits, Heads
      <3>2. /\ f.op \in {"model", "compact", "settle", "continue"} /\ j[1] # "loop" => f.t = j[2]
            /\ f.op \in BootOps => ph = "boot"
        BY <2>1 DEF FrameFits
      <3>3. f.op \in {"continue", "failnodes", "booted"} => i = Len(r)
        BY <1>1, <2>1 DEF FrameFits
      <3>4. \A k \in 1 .. i - 1 : k + d \in 1 .. (i + d) - 1 /\ r[k] = q[k + d]
        BY <1>1
      <3>5. /\ f.op \in {"cancel", "notify", "failnodes"} => \A k \in 1 .. i - 1 : r[k].op \in Casc
            /\ f.op = "continue" => \A k \in 1 .. i - 1 : r[k].op \in Casc \cup {"publish", "advance"}
        BY <2>1, <3>4 DEF FrameFits
      <3>6. f.op = "rerun" => \E k \in i + 1 .. Len(r) : r[k].op = "resume" /\ r[k].t = f.t
        <4>1. SUFFICES ASSUME f.op = "rerun" PROVE \E k \in i + 1 .. Len(r) : r[k].op = "resume" /\ r[k].t = f.t
          OBVIOUS
        <4>2. PICK k \in (i + d) + 1 .. Len(q) : q[k].op = "resume" /\ q[k].t = f.t
          BY <2>1, <4>1 DEF FrameFits
        <4>3. k - d \in i + 1 .. Len(r) /\ r[k - d] = q[k]
          BY <1>1, <4>2
        <4> QED BY <4>2, <4>3
      <3>7. f.op \in Sends => \A k \in DOMAIN r : r[k].op \in Sends /\ r[k].t = f.t => k = i
        <4>1. SUFFICES ASSUME f.op \in Sends, NEW k \in 1 .. Len(r), r[k].op \in Sends, r[k].t = f.t PROVE k = i
          BY <1>1
        <4>2. k + d \in DOMAIN q /\ r[k] = q[k + d]
          BY <1>1
        <4>3. k + d = i + d
          BY <2>1, <4>1, <4>2 DEF FrameFits
        <4> QED BY <1>1, <4>3
      <3>8. f.op \notin {"settle", "publish", "advance"}
        BY <3>1 DEF Heads
      <3>9. f.op \in BootOps => \A k \in i .. Len(r) : r[k].op \in BootOps
        <4>1. SUFFICES ASSUME f.op \in BootOps, NEW k \in i .. Len(r) PROVE r[k].op \in BootOps
          OBVIOUS
        <4>2. \A h \in i + d .. Len(q) : q[h].op \in BootOps
          BY <2>1, <4>1 DEF FrameFits
        <4>3. k + d \in i + d .. Len(q) /\ r[k] = q[k + d]
          BY <1>1
        <4> QED BY <4>2, <4>3
      <3> HIDE DEF f
      <3> QED BY <3>1, <3>2, <3>3, <3>5, <3>6, <3>7, <3>8, <3>9 DEF FrameFits, f
    <2> QED BY <2>2, <2>3
  <1>5. ASSUME r # <<>>, r[1].op \in Heads PROVE r = q
    <2>1. 1 \in 1 .. Len(r)
      BY <1>1, <1>5, StackFacts
    <2>2. r[1] = q[1 + d] /\ 1 + d \in 1 .. Len(q)
      BY <1>1, <2>1
    <2>3. d = 0
      BY <1>1, <1>2, <1>5, <2>2 DEF FrameFits
    <2> QED BY <1>3, <2>3
  <1> QED BY <1>1, <1>4, <1>5 DEF StackOK

\* Why the first d frames of a stack may be dropped.
Expendable(s, q, d, K) ==
  \A i \in 1 .. d :
    /\ q[i].op # "send"
    /\ q[i].op \in {"enqueue", "resume"} /\ s.mem[q[i].t].st = "READY" =>
         Late(q[i].t) \in K \/ q[i].t \in s.queue \cup s.packing
    /\ q[i].op = "cancel" => \A k \in ToSet(q[i].x) : Live(s.mem[k]) => Lone(k) \in K
    /\ q[i].op = "orphan" /\ Stray(s, q[i].t) => Lone(q[i].t) \in K

\* Any of the functions drops its first frames.
LEMMA Lessen ==
  ASSUME NEW s, NEW ph, NEW L, Inv(s, ph, L), NEW K, L \subseteq K,
         NEW jo, DOMAIN jo = Jobs, NEW r,
         Is(r, s.mem, s.disk, s.queue, s.packing, s.timers, s.wake, s.pool, jo),
         \A i \in Jobs : \E d : Suffix(jo[i], s.jobs[i], d) /\ Expendable(s, s.jobs[i], d, K)
  PROVE  Inv(r, ph, K)
  <1>1. r.jobs = jo
    BY DEF Is
  <1>2. \A i \in Jobs : StackOK(s.jobs[i], i, ph) /\ IsStack(s.jobs[i])
    BY DEF Inv, Stacks, StackOK
  <1>3. \A i \in Jobs : StackOK(jo[i], i, ph) /\ (jo[i] # <<>> /\ jo[i][1].op \in Heads => jo[i] = s.jobs[i])
    BY <1>2, StackLess
  <1>4. Stacks(r, ph)
    BY <1>1, <1>3 DEF Stacks
  <1>5. \A i \in Jobs : ToSet(jo[i]) \subseteq ToSet(s.jobs[i])
    BY <1>2, SuffixSet
  <1>6. Dropped(s, r, K)
    <2>1. SUFFICES ASSUME NEW i \in Jobs, NEW f \in ToSet(s.jobs[i]), f \notin ToSet(jo[i])
                   PROVE  /\ f.op # "send"
                          /\ f.op \in {"enqueue", "resume"} /\ s.mem[f.t].st = "READY" =>
                               Late(f.t) \in K \/ f.t \in s.queue \cup s.packing
                          /\ f.op = "cancel" => \A k \in ToSet(f.x) : Live(s.mem[k]) => Lone(k) \in K
                          /\ f.op = "orphan" /\ Stray(s, f.t) => Lone(f.t) \in K
      BY <1>1 DEF Dropped, Held
    <2>2. PICK d : Suffix(jo[i], s.jobs[i], d) /\ Expendable(s, s.jobs[i], d, K)
      OBVIOUS
    <2>3. PICK k \in 1 .. d : s.jobs[i][k] = f
      BY <1>2, <2>1, <2>2, SuffixSet
    <2> QED BY <2>2, <2>3 DEF Expendable
  <1>7. \A i \in Jobs : \A f \in Held(r, i) : f \in Held(s, i) \/ (f.op \in Plain /\ FrameKnown(s, f))
    BY <1>1, <1>5 DEF Held
  <1>8. \A i \in Jobs : s.jobs[i] = <<>> => jo[i] = <<>>
    <2>1. SUFFICES ASSUME NEW i \in Jobs, s.jobs[i] = <<>> PROVE jo[i] = <<>>
      OBVIOUS
    <2>2. ToSet(jo[i]) = {} /\ IsStack(jo[i])
      BY <1>2, <1>3, <1>5, <2>1, SuffixNone DEF StackOK
    <2> QED BY <2>2, StackFacts
  <1>9. \A i \in Jobs : \A c : HopAt(r, i, c) => jo[i] = s.jobs[i]
    BY <1>1, <1>3 DEF HopAt, Heads
  <1> QED BY <1>4, <1>6, <1>7, <1>8, <1>9, Calm

\* One function drops its first frames.
LEMMA Less ==
  ASSUME NEW s, NEW ph, NEW L, Inv(s, ph, L), NEW K, L \subseteq K,
         NEW j \in Jobs, NEW q, NEW d, Suffix(q, s.jobs[j], d), Expendable(s, s.jobs[j], d, K),
         NEW r, Is(r, s.mem, s.disk, s.queue, s.packing, s.timers, s.wake, s.pool, [s.jobs EXCEPT ![j] = q])
  PROVE  Inv(r, ph, K)
  <1> DEFINE jo == [s.jobs EXCEPT ![j] = q]
  <1>1. DOMAIN s.jobs = Jobs /\ \A i \in Jobs : IsStack(s.jobs[i])
    BY DEF Inv, Typed, Stacks, StackOK
  <1>2. DOMAIN jo = Jobs /\ jo[j] = q /\ \A i \in Jobs : i # j => jo[i] = s.jobs[i]
    BY <1>1
  <1> HIDE DEF jo
  <1>3. ASSUME NEW i \in Jobs PROVE \E e : Suffix(jo[i], s.jobs[i], e) /\ Expendable(s, s.jobs[i], e, K)
    <2>1. CASE i = j
      BY <1>2, <2>1
    <2>2. CASE i # j
      <3>1. Suffix(jo[i], s.jobs[i], 0)
        BY <1>1, <1>2, <2>2, SuffixNone
      <3>2. Expendable(s, s.jobs[i], 0, K)
        BY DEF Expendable
      <3> QED BY <3>1, <3>2
    <2> QED BY <2>1, <2>2
  <1>4. Is(r, s.mem, s.disk, s.queue, s.packing, s.timers, s.wake, s.pool, jo)
    BY DEF jo
  <1> QED BY <1>2, <1>3, <1>4, Lessen

\* The record after the frames of every stack are trimmed.
Trimmed(s) == [s EXCEPT !.jobs = [j \in Jobs |-> Trim(s.jobs[j])]]

LEMMA Trims ==
  ASSUME NEW s, NEW ph, NEW L, Inv(s, ph, L), NEW r,
         Is(r, s.mem, s.disk, s.queue, s.packing, s.timers, s.wake, s.pool, [j \in Jobs |-> Trim(s.jobs[j])])
  PROVE  Inv(r, ph, L)
  <1> DEFINE jo == [j \in Jobs |-> Trim(s.jobs[j])]
  <1>1. \A i \in Jobs : IsStack(s.jobs[i])
    BY DEF Inv, Stacks, StackOK
  <1>2. DOMAIN jo = Jobs /\ \A i \in Jobs : jo[i] = Trim(s.jobs[i])
    OBVIOUS
  <1> HIDE DEF jo
  <1>3. ASSUME NEW i \in Jobs PROVE \E d : Suffix(jo[i], s.jobs[i], d) /\ Expendable(s, s.jobs[i], d, L)
    <2>1. PICK d : Suffix(Trim(s.jobs[i]), s.jobs[i], d) /\ \A k \in 1 .. d : s.jobs[i][k].op \in {"unlock", "try"}
      BY <1>1, SuffixTrim
    <2>2. Expendable(s, s.jobs[i], d, L)
      BY <2>1 DEF Expendable
    <2> QED BY <1>2, <2>1, <2>2
  <1>4. Is(r, s.mem, s.disk, s.queue, s.packing, s.timers, s.wake, s.pool, jo)
    BY DEF jo
  <1> QED BY <1>2, <1>3, <1>4, Lessen

\* A step of the scheduler ends with what is described by s.
LEMMA Done ==
  ASSUME NEW s, NEW ph, Inv(s, ph, {}), Do(s)
  PROVE  Inv(S', ph, {}) /\ mem' = s.mem
  <1>1. Is(S', s.mem, s.disk, s.queue, s.packing, s.timers, s.wake, s.pool, [j \in Jobs |-> Trim(s.jobs[j])])
    BY DEF Do, S, Is, Fields
  <1> QED BY <1>1, Trims DEF Do

----------------------------------------------------------------------------
(* Frames pushed on a stack *)

\* A stack on which frames may be pushed: its head does not insist on its place.
Loose(q) == q # <<>> => q[1].op \notin Heads \cup {"model", "compact"}

\* What may lie below frames that are not part of a termination.
Bare(q) == \A i \in DOMAIN q : q[i].op \in {"try"} \cup BootOps

LEMMA StackPush ==
  ASSUME NEW q, NEW p, NEW j, NEW ph, StackOK(q, j, ph), StackOK(p, j, ph), Loose(q),
         \A i \in DOMAIN p : p[i].op \in Plain \cup {"settle"} \cup Sends,
         Bare(q) \/ \A i \in DOMAIN p : p[i].op \in Casc
  PROVE  StackOK(p \o q, j, ph)
  <1>1. /\ IsStack(q) /\ IsStack(p) /\ Len(q) \in Nat /\ Len(p) \in Nat
        /\ DOMAIN q = 1 .. Len(q) /\ DOMAIN p = 1 .. Len(p)
    BY StackFacts DEF StackOK
  <1>2. PICK r : r = p \o q
    OBVIOUS
  <1>3. /\ IsStack(r) /\ Len(r) = Len(p) + Len(q)
        /\ \A i \in 1 .. Len(p) : r[i] = p[i]
        /\ \A i \in Len(p) + 1 .. Len(p) + Len(q) : r[i] = q[i - Len(p)]
    BY <1>1, <1>2, StackOn
  <1>4. DOMAIN r = 1 .. Len(r)
    BY <1>3, StackFacts
  <1>5. (\A i \in 1 .. Len(p) : FrameFits(p, i, j, ph)) /\ (\A i \in 1 .. Len(q) : FrameFits(q, i, j, ph))
    BY <1>1 DEF StackOK
  <1>6. \A k \in 1 .. Len(r) : \/ k \in 1 .. Len(p) /\ r[k] = p[k]
                               \/ k - Len(p) \in 1 .. Len(q) /\ r[k] = q[k - Len(p)] /\ k > Len(p)
    BY <1>1, <1>3
  <1>7. \A k \in 1 .. Len(q) : q[k].op \notin Heads \cup {"model", "compact"}
    <2>1. SUFFICES ASSUME NEW k \in 1 .. Len(q), q[k].op \in Heads \cup {"model", "compact"} PROVE FALSE
      OBVIOUS
    <2>a. FrameFits(q, k, j, ph)
      BY <1>5
    <2>b. /\ q[k].op \in Heads => k = 1
          /\ q[k].op \in {"model", "compact"} => Len(q) = 1
      BY <2>a DEF FrameFits
    <2>2. k = 1
      BY <1>1, <2>1, <2>b
    <2>3. q # <<>>
      BY <1>1, <2>2, StackFacts
    <2> QED BY <2>1, <2>2, <2>3 DEF Loose
  <1>8. ASSUME NEW i \in 1 .. Len(p) PROVE FrameFits(r, i, j, ph)
    <2>1. r[i] = p[i] /\ FrameFits(p, i, j, ph) /\ p[i].op \in Plain \cup {"settle"} \cup Sends
      BY <1>1, <1>3, <1>5
    <2> DEFINE f == r[i]
    <2>2. /\ f.op \in OpsOf(j[1]) /\ (f.op \in Heads => i = 1)
          /\ f.op \notin {"model", "compact", "dispatch", "continue", "failnodes", "booted",
                          "publish", "advance", "rerun"} \cup BootOps
          /\ f.op = "settle" /\ j[1] # "loop" => f.t = j[2]
      BY <2>1 DEF FrameFits, Plain, Casc, Sends, Heads, BootOps
    <2>3. f.op \in {"cancel", "notify"} => \A k \in 1 .. i - 1 : r[k].op \in Casc
      BY <1>1, <1>3, <2>1 DEF FrameFits
    <2>4. f.op = "settle" => \A k \in DOMAIN r : r[k].op \in Sends => Parent[r[k].t] = f.t
      <3>1. SUFFICES ASSUME f.op = "settle", NEW k \in 1 .. Len(r), r[k].op \in Sends PROVE Parent[r[k].t] = f.t
        BY <1>4
      <3>2. Bare(q)
        BY <1>1, <2>1, <3>1 DEF Casc
      <3>3. k \in 1 .. Len(p) /\ r[k] = p[k]
        BY <1>1, <1>6, <3>1, <3>2, ZenonT(30) DEF Bare, Sends, BootOps
      <3> QED BY <1>1, <2>1, <3>1, <3>3 DEF FrameFits
    <2>5. f.op \in Sends => \A k \in DOMAIN r : r[k].op \in Sends /\ r[k].t = f.t => k = i
      <3>1. SUFFICES ASSUME f.op \in Sends, NEW k \in 1 .. Len(r), r[k].op \in Sends, r[k].t = f.t PROVE k = i
        BY <1>4
      <3>2. Bare(q)
        BY <1>1, <2>1, <3>1 DEF Casc, Sends
      <3>3. k \in 1 .. Len(p) /\ r[k] = p[k]
        BY <1>1, <1>6, <3>1, <3>2 DEF Bare, Sends, BootOps
      <3> QED BY <1>1, <2>1, <3>1, <3>3, ZenonT(30) DEF FrameFits
    <2> HIDE DEF f
    <2> QED BY <2>2, <2>3, <2>4, <2>5 DEF FrameFits, f
  <1>9. ASSUME NEW i \in 1 .. Len(q) PROVE FrameFits(r, Len(p) + i, j, ph)
    <2> DEFINE m == Len(p) + i
    <2>1. r[m] = q[i] /\ FrameFits(q, i, j, ph) /\ m \in 1 .. Len(r)
      BY <1>1, <1>3, <1>5
    <2> DEFINE f == r[m]
    <2>2. /\ f.op \in OpsOf(j[1]) /\ f.op \notin Heads \cup {"model", "compact"}
          /\ f.op \in {"settle", "continue"} /\ j[1] # "loop" => f.t = j[2]
          /\ f.op \in BootOps => ph = "boot"
      BY <1>7, <2>1 DEF FrameFits
    <2>3. f.op \in {"continue", "failnodes", "booted"} => m = Len(r)
      BY <1>1, <1>3, <2>1, ZenonT(30) DEF FrameFits
    <2>4. \A k \in 1 .. m - 1 : \/ k \in 1 .. Len(p) /\ r[k] = p[k]
                                \/ k - Len(p) \in 1 .. i - 1 /\ r[k] = q[k - Len(p)]
      BY <1>1, <1>3
    <2>5. f.op \in {"cancel", "notify", "failnodes"} => \A k \in 1 .. m - 1 : r[k].op \in Casc
      <3>1. SUFFICES ASSUME f.op \in {"cancel", "notify", "failnodes"} PROVE \A k \in 1 .. m - 1 : r[k].op \in Casc
        OBVIOUS
      <3>2. \A k \in 1 .. Len(p) : p[k].op \in Casc
        BY <1>1, <2>1, <3>1 DEF Bare, BootOps
      <3>3. \A k \in 1 .. i - 1 : q[k].op \in Casc
        BY <2>1, <3>1 DEF FrameFits
      <3> QED BY <2>4, <3>2, <3>3
    <2>6. f.op = "continue" => \A k \in 1 .. m - 1 : r[k].op \in Casc \cup {"publish", "advance"}
      <3>1. SUFFICES ASSUME f.op = "continue" PROVE \A k \in 1 .. m - 1 : r[k].op \in Casc \cup {"publish", "advance"}
        OBVIOUS
      <3>2. \A k \in 1 .. Len(p) : p[k].op \in Casc
        BY <1>1, <2>1, <3>1 DEF Bare, BootOps
      <3>3. \A k \in 1 .. i - 1 : q[k].op \in Casc \cup {"publish", "advance"}
        BY <2>1, <3>1 DEF FrameFits
      <3> QED BY <2>4, <3>2, <3>3
    <2>7. f.op = "rerun" => \E k \in m + 1 .. Len(r) : r[k].op = "resume" /\ r[k].t = f.t
      <3>1. SUFFICES ASSUME f.op = "rerun" PROVE \E k \in m + 1 .. Len(r) : r[k].op = "resume" /\ r[k].t = f.t
        OBVIOUS
      <3>2. PICK k \in i + 1 .. Len(q) : q[k].op = "resume" /\ q[k].t = f.t
        BY <2>1, <3>1 DEF FrameFits
      <3>3. Len(p) + k \in m + 1 .. Len(r) /\ r[Len(p) + k] = q[k]
        BY <1>1, <1>3, <3>2
      <3> QED BY <3>2, <3>3
    <2>8. f.op \in Sends => \A k \in DOMAIN r : r[k].op \in Sends /\ r[k].t = f.t => k = m
      <3>1. SUFFICES ASSUME f.op \in Sends, NEW k \in 1 .. Len(r), r[k].op \in Sends, r[k].t = f.t PROVE k = m
        BY <1>4
      <3>2. \A n \in 1 .. Len(p) : p[n].op \in Casc
        BY <1>1, <2>1, <3>1 DEF Bare, BootOps, Sends
      <3>3. k - Len(p) \in 1 .. Len(q) /\ r[k] = q[k - Len(p)] /\ k > Len(p)
        BY <1>6, <3>1, <3>2 DEF Casc, Sends
      <3>4. k - Len(p) = i
        BY <1>1, <2>1, <3>1, <3>3, ZenonT(30) DEF FrameFits
      <3> QED BY <1>1, <3>3, <3>4
    <2>9. f.op \notin {"dispatch", "settle", "publish", "advance"}
      BY <2>2 DEF Heads
    <2>a. f.op \in BootOps => \A k \in m .. Len(r) : r[k].op \in BootOps
      <3>1. SUFFICES ASSUME f.op \in BootOps, NEW k \in m .. Len(r) PROVE r[k].op \in BootOps
        OBVIOUS
      <3>2. \A h \in i .. Len(q) : q[h].op \in BootOps
        BY <2>1, <3>1 DEF FrameFits
      <3>3. k - Len(p) \in i .. Len(q) /\ r[k] = q[k - Len(p)]
        BY <1>1, <1>3
      <3> QED BY <3>2, <3>3
    <2> HIDE DEF f, m
    <2>10. FrameFits(r, m, j, ph)
      BY <2>2, <2>3, <2>5, <2>6, <2>7, <2>8, <2>9, <2>a DEF FrameFits, f
    <2> QED BY <2>10 DEF m
  <1>10. ASSUME NEW i \in DOMAIN r PROVE FrameFits(r, i, j, ph)
    <2>1. CASE i <= Len(p)
      BY <1>1, <1>4, <1>8, <2>1
    <2>2. CASE i > Len(p)
      <3>1. i - Len(p) \in 1 .. Len(q) /\ Len(p) + (i - Len(p)) = i
        BY <1>1, <1>3, <1>4, <2>2
      <3> QED BY <1>9, <3>1
    <2> QED BY <1>1, <1>3, <1>4, <2>1, <2>2
  <1> QED BY <1>2, <1>3, <1>10 DEF StackOK

\* The frames of a termination are in order whichever way they lie.
LEMMA CascStack ==
  ASSUME NEW p, NEW j, NEW ph, IsStack(p), j[1] \in {"turn", "loop", "host", "timer", "call"},
         \A i \in DOMAIN p : p[i].op \in Casc
  PROVE  StackOK(p, j, ph)
  <1>1. DOMAIN p = 1 .. Len(p) /\ Len(p) \in Nat
    BY StackFacts
  <1>2. SUFFICES ASSUME NEW i \in 1 .. Len(p) PROVE FrameFits(p, i, j, ph)
    BY <1>1 DEF StackOK
  <1>3. p[i].op \in Casc /\ \A k \in 1 .. i - 1 : p[k].op \in Casc
    BY <1>1
  <1>4. p[i].op \in OpsOf(j[1])
    BY <1>3 DEF OpsOf
  <1>5. p[i].op \notin Heads \cup BootOps \cup Sends \cup {"model", "compact", "continue", "failnodes"}
    BY <1>3 DEF Casc, Heads, BootOps, Sends
  <1>6. p[i].op \notin {"settle", "publish", "advance", "dispatch", "booted", "rerun"}
    BY <1>5 DEF Heads, BootOps
  <1> QED BY <1>3, <1>4, <1>5, <1>6 DEF FrameFits

\* Frames of terminations and of work are pushed.
LEMMA PushPlain ==
  ASSUME NEW s, NEW ph, NEW L, Inv(s, ph, L), NEW j \in Jobs, j[1] # "model", NEW p,
         StackOK(p, j, ph), Loose(s.jobs[j]),
         \A i \in DOMAIN p : p[i].op \in Plain /\ FrameKnown(s, p[i]),
         Bare(s.jobs[j]) \/ \A i \in DOMAIN p : p[i].op \in Casc,
         NEW r, Is(r, s.mem, s.disk, s.queue, s.packing, s.timers, s.wake, s.pool,
                   [s.jobs EXCEPT ![j] = p \o @])
  PROVE  Inv(r, ph, L)
  <1> DEFINE q  == s.jobs[j]
             jo == [s.jobs EXCEPT ![j] = p \o @]
  <1>1. DOMAIN s.jobs = Jobs /\ \A i \in Jobs : StackOK(s.jobs[i], i, ph)
    BY DEF Inv, Typed, Stacks
  <1>2. DOMAIN jo = Jobs /\ jo[j] = p \o q /\ \A i \in Jobs : i # j => jo[i] = s.jobs[i]
    BY <1>1
  <1>3. /\ IsStack(p) /\ IsStack(q) /\ StackOK(q, j, ph) /\ Len(p) \in Nat /\ DOMAIN p = 1 .. Len(p)
    BY <1>1, StackFacts DEF StackOK
  <1>4. StackOK(p \o q, j, ph)
    BY <1>3, StackPush
  <1>5. ToSet(p \o q) = ToSet(p) \cup ToSet(q)
    BY <1>3, StackOn
  <1>6. r.jobs = jo
    BY DEF Is
  <1>x. Is(r, s.mem, s.disk, s.queue, s.packing, s.timers, s.wake, s.pool, jo)
    OBVIOUS
  <1>7. IF p = <<>> THEN p \o q = q ELSE p \o q # <<>> /\ (p \o q)[1] = p[1] /\ 1 \in DOMAIN p
    <2>1. CASE p = <<>>
      <3>1. q \in Seq(ToSet(q))
        BY <1>3 DEF IsStack
      <3> QED BY <2>1, <3>1
    <2>2. CASE p # <<>>
      <3>1. 1 \in 1 .. Len(p)
        BY <1>3, <2>2, StackFacts
      <3>2. (p \o q)[1] = p[1] /\ IsStack(p \o q) /\ Len(p \o q) = Len(p) + Len(q) /\ Len(q) \in Nat
        BY <1>3, <3>1, StackOn, StackFacts
      <3> QED BY <1>3, <2>2, <3>1, <3>2, StackFacts
    <2> QED BY <2>1, <2>2
  <1> HIDE DEF jo, q
  <1>8. Stacks(r, ph)
    BY <1>1, <1>2, <1>4, <1>6 DEF Stacks
  <1>9. Dropped(s, r, L)
    <2>1. \A i \in Jobs : \A f \in Held(s, i) : f \in Held(r, i)
      BY <1>2, <1>5, <1>6 DEF Held, q
    <2> QED BY <2>1 DEF Dropped
  <1>10. \A i \in Jobs : \A f \in Held(r, i) : f \in Held(s, i) \/ (f.op \in Plain /\ FrameKnown(s, f))
    <2>1. SUFFICES ASSUME NEW f \in ToSet(p) PROVE f.op \in Plain /\ FrameKnown(s, f)
      BY <1>2, <1>5, <1>6 DEF Held, q
    <2>2. PICK i \in DOMAIN p : p[i] = f
      BY <1>3, StackFacts
    <2> QED BY <2>2
  <1>11. \A i \in Jobs : i[1] = "model" /\ s.jobs[i] = <<>> => jo[i] = <<>>
    BY <1>2
  <1>12. \A i \in Jobs : \A c : HopAt(r, i, c) => jo[i] = s.jobs[i]
    <2>1. SUFFICES ASSUME NEW c, HopAt(r, j, c), p # <<>> PROVE FALSE
      BY <1>2, <1>7 DEF q
    <2>2. p[1].op \in {"publish", "advance"} /\ p[1].op \in Plain
      BY <1>2, <1>6, <1>7, <2>1 DEF HopAt, q
    <2> QED BY <2>2 DEF Plain, Casc
  <1> QED BY <1>2, <1>8, <1>9, <1>10, <1>11, <1>12, <1>x, Calm

----------------------------------------------------------------------------
(* Control blocks that change *)

LEMMA BlockFacts ==
  ASSUME NEW b, Block(b)
  PROVE  /\ b # NoTask
         /\ Live(b) <=> b.st # "TERMINATED"
         /\ b.st # "none"
         /\ b.ask.n \in Nat /\ b.ask.hop \in Nat /\ Len(b.ask.path) \in Nat
         /\ DOMAIN b.ask.path = 1 .. Len(b.ask.path)
  BY DEF Block, NoTask, Live, AskOK

LEMMA NoTaskFacts ==
  NoTask.st = "none" /\ ~Live(NoTask)
  BY DEF NoTask, Live

\* b may take the place of the control block of t: what others rely on stays.
Fitting(s, K, t, b) ==
  /\ Known(s, t) /\ Block(b)
  /\ Live(b) <=> Live(s.mem[t])
  /\ b.ask.n = s.mem[t].ask.n /\ b.ask.path = s.mem[t].ask.path /\ b.ask.hop >= s.mem[t].ask.hop
  /\ DOMAIN b.works = DOMAIN s.mem[t].works
  /\ \A i \in Marks(b) : i \in Marks(s.mem[t]) /\ b.works[i].ref = s.mem[t].works[i].ref
  /\ \A k \in Tasks : Born(s, k) /\ Completable(s.mem[t], k) => Completable(b, k)
  /\ t \in s.queue \cup s.packing => b.st = "READY"
  /\ b.st = "READY" => s.mem[t].st = "READY" \/ Late(t) \in K
  /\ HandlesFor(s, t, b)
  /\ \A j \in Jobs : HopAt(s, j, t) =>
       (Pending(b) \/ b.st = "TERMINATED") /\ b.ask.hop = s.mem[t].ask.hop
  /\ Holds(s, t, TurnJob(t), {"settle"}) /\ Waits(b) => Waits(s.mem[t])

LEMMA OwnedSame ==
  ASSUME NEW t, NEW a, a # NoTask, Owned(t, a), NEW b, DOMAIN b.works = DOMAIN a.works,
         b.ask.path = a.ask.path
  PROVE  Owned(t, b)
  BY DEF Owned

LEMMA Puts ==
  ASSUME NEW s, NEW ph, NEW L, Inv(s, ph, L), NEW K, L \subseteq K,
         NEW m, DOMAIN m = Tasks, \A t \in Tasks : m[t] = s.mem[t] \/ Fitting(s, K, t, m[t]),
         NEW r, Is(r, m, s.disk, s.queue, s.packing, s.timers, s.wake, s.pool, s.jobs)
  PROVE  Inv(r, ph, K)
  <1>1. /\ r.mem = m /\ r.disk = s.disk /\ r.queue = s.queue /\ r.packing = s.packing
        /\ r.timers = s.timers /\ r.wake = s.wake /\ r.pool = s.pool /\ r.jobs = s.jobs
        /\ DOMAIN r = Fields
    BY DEF Is
  <1>2. \A i, t, ops : Holds(r, t, i, ops) <=> Holds(s, t, i, ops)
    BY <1>1 DEF Holds, Held
  <1>3. \A k : Born(r, k) <=> Born(s, k)
    BY <1>2 DEF Born
  <1>4. \A t \in Tasks : s.mem[t] = NoTask \/ Block(s.mem[t])
    BY DEF Inv, Typed
  <1>5. ASSUME NEW t \in Tasks
        PROVE  /\ m[t] = NoTask <=> s.mem[t] = NoTask
               /\ m[t] = NoTask \/ Block(m[t])
               /\ Live(m[t]) <=> Live(s.mem[t])
               /\ m[t].st = "TERMINATED" <=> s.mem[t].st = "TERMINATED"
               /\ m[t].st \in {"TERMINATED", "none"} <=> s.mem[t].st \in {"TERMINATED", "none"}
    <2>1. CASE m[t] = s.mem[t]
      BY <1>4, <2>1
    <2>2. CASE Fitting(s, K, t, m[t])
      <3>1. Block(m[t]) /\ Block(s.mem[t]) /\ (Live(m[t]) <=> Live(s.mem[t]))
        BY <1>4, <2>2 DEF Fitting, Known
      <3> QED BY <3>1, BlockFacts
    <2> QED BY <2>1, <2>2
  <1>6. \A t : Known(r, t) <=> Known(s, t)
    BY <1>1, <1>3, <1>5 DEF Known
  <1>7. Typed(r)
    <2>1. \A t \in Tasks : Owned(t, s.mem[t]) /\ Owned(t, s.disk[t]) /\ (s.disk[t] = NoTask \/ Block(s.disk[t]))
      BY DEF Inv, Typed
    <2>2. ASSUME NEW t \in Tasks PROVE Owned(t, m[t])
      <3>1. CASE m[t] = s.mem[t]
        BY <2>1, <3>1
      <3>2. CASE Fitting(s, K, t, m[t])
        <4>1. s.mem[t] # NoTask /\ DOMAIN m[t].works = DOMAIN s.mem[t].works /\ m[t].ask.path = s.mem[t].ask.path
          BY <3>2 DEF Fitting, Known
        <4> QED BY <2>1, <4>1, OwnedSame
      <3> QED BY <3>1, <3>2
    <2>3. /\ DOMAIN s.disk = Tasks /\ DOMAIN s.jobs = Jobs /\ DOMAIN s.pool = {"live", "spawned"}
      BY DEF Inv, Typed
    <2> QED BY <1>1, <1>5, <2>1, <2>2, <2>3 DEF Typed, Fields
  <1>8. Stacks(r, ph)
    BY <1>1 DEF Inv, Stacks
  <1>9. FramesKnown(r)
    <2>1. SUFFICES ASSUME NEW i \in Jobs, NEW f \in Held(s, i) PROVE FrameKnown(r, f)
      BY <1>1 DEF FramesKnown, Held
    <2>2. FrameKnown(s, f)
      BY DEF Inv, FramesKnown
    <2>3. \A t \in Tasks : s.mem[t].st \in {"TERMINATED", "none"} => r.mem[t].st = s.mem[t].st
      BY <1>1, <1>5
    <2> QED BY <1>6, <2>2, <2>3, FrameStays
  <1>10. ListsKnown(r)
    BY <1>1, <1>6 DEF Inv, ListsKnown
  <1>11. Family(r, ph)
    <2>1. SUFFICES ASSUME NEW t \in Tasks
                   PROVE  /\ r.mem[t] # NoTask /\ Parent[t] # Orphan => Known(r, Parent[t])
                          /\ r.disk[t] # NoTask /\ Parent[t] # Orphan => r.disk[Parent[t]] # NoTask
                          /\ ph # "down" /\ r.disk[t] # NoTask /\ r.mem[t] = NoTask =>
                               Parent[t] # Orphan /\ ~Live(r.mem[Parent[t]])
      BY DEF Family
    <2>2. Parent[t] # Orphan => Parent[t] \in Tasks
      BY TaskAssumption
    <2> QED BY <1>1, <1>5, <1>6, <2>2 DEF Inv, Family
  <1>12. Newborns(r)
    <2>1. SUFFICES ASSUME NEW i \in Jobs, NEW f \in Held(s, i), f.op \in Sends
                   PROVE  NewbornFits(r, f) /\ \A j \in Jobs : Holds(r, f.t, j, Sends) => j = i
      BY <1>1 DEF Newborns, Held
    <2>2. NewbornFits(s, f) /\ \A j \in Jobs : Holds(s, f.t, j, Sends) => j = i
      BY <2>1 DEF Inv, Newborns
    <2>3. Born(s, f.t) /\ f.t \in Tasks /\ Parent[f.t] \in Tasks
      BY <2>1, <2>2, TaskAssumption DEF Born, Holds, NewbornFits
    <2>4. m[f.t] = s.mem[f.t]
      BY <2>3 DEF Fitting, Known
    <2>5. Completable(s.mem[Parent[f.t]], f.t) => Completable(m[Parent[f.t]], f.t)
      BY <2>3 DEF Fitting
    <2>6. NewbornFits(r, f)
      BY <1>1, <1>5, <2>2, <2>3, <2>4, <2>5 DEF NewbornFits
    <2> QED BY <1>2, <2>2, <2>6
  <1>13. Saved(r, ph)
    <2>1. SUFFICES ASSUME ph # "down", NEW t \in Tasks, Known(s, t)
                   PROVE  /\ s.disk[t] # NoTask
                          /\ s.disk[t].ask.n = m[t].ask.n /\ s.disk[t].ask.path = m[t].ask.path
                          /\ s.disk[t].ask.hop <= m[t].ask.hop
      BY <1>1, <1>6 DEF Saved
    <2>2. /\ s.disk[t] # NoTask
          /\ s.disk[t].ask.n = s.mem[t].ask.n /\ s.disk[t].ask.path = s.mem[t].ask.path
          /\ s.disk[t].ask.hop <= s.mem[t].ask.hop
      BY <2>1 DEF Inv, Saved
    <2>3. CASE m[t] = s.mem[t]
      BY <2>2, <2>3
    <2>4. CASE Fitting(s, K, t, m[t])
      <3>1. m[t].ask.n = s.mem[t].ask.n /\ m[t].ask.path = s.mem[t].ask.path /\ m[t].ask.hop >= s.mem[t].ask.hop
        BY <2>4 DEF Fitting
      <3>2. Block(s.disk[t]) /\ Block(s.mem[t]) /\ Block(m[t])
        BY <2>1, <2>2, <2>4 DEF Fitting, Inv, Typed, Known
      <3>3. s.disk[t].ask.hop \in Nat /\ s.mem[t].ask.hop \in Nat /\ m[t].ask.hop \in Nat
        BY <3>2, BlockFacts
      <3> QED BY <2>2, <3>1, <3>3
    <2> QED BY <2>3, <2>4
  <1>14. Books(r)
    <2>1. ASSUME NEW t \in s.queue \cup s.packing PROVE m[t].st = "READY"
      <3>1. t \in Tasks /\ s.mem[t].st = "READY"
        BY DEF Inv, Books, ListsKnown, Known
      <3> QED BY <3>1 DEF Fitting
    <2> QED BY <1>1, <1>5, <2>1 DEF Inv, Books
  <1>15. Listed(r, K)
    <2>1. SUFFICES ASSUME NEW t \in Tasks, m[t].st = "READY", Late(t) \notin K PROVE ListedTask(r, t)
      BY <1>1 DEF Listed
    <2>2. s.mem[t].st = "READY"
      BY <2>1 DEF Fitting
    <2>3. ListedTask(s, t)
      BY <2>1, <2>2 DEF Inv, Listed
    <2> QED BY <1>1, <1>2, <1>3, <2>3 DEF ListedTask
  <1>16. Handles(r)
    <2>1. SUFFICES ASSUME NEW t \in Tasks PROVE HandlesFor(r, t, m[t])
      BY <1>1 DEF Handles, HandlesOf
    <2>2. HandlesFor(s, t, m[t])
      BY DEF Fitting, Inv, Handles, HandlesOf
    <2> QED BY <1>1, <1>2, <2>2 DEF HandlesFor, Hot, Looped, InLoop, OwnHop, Held
  <1>17. \A c \in Tasks : m[c].ask.n = s.mem[c].ask.n
    BY DEF Fitting
  <1>18. \A p \in Tasks : s.mem[p] # NoTask =>
           \A i \in Marks(m[p]) : i \in Marks(s.mem[p]) /\ m[p].works[i].ref = s.mem[p].works[i].ref
    BY DEF Fitting
  <1>19. \A i, c : HopAt(r, i, c) <=> HopAt(s, i, c)
    BY <1>1 DEF HopAt
  <1>20. Asks(r)
    <2>1. SUFFICES ASSUME NEW c \in Tasks PROVE AsksOf(r, c)
      BY DEF Asks
    <2>2. AsksOf(s, c)
      BY DEF Inv, Asks
    <2>3. Unmarked(s, c) => Unmarked(r, c)
      BY <1>1, <1>5, <1>17, <1>18 DEF Unmarked
    <2>4. Holds(s, c, TurnJob(c), {"settle"}) /\ Waits(m[c]) => Waits(s.mem[c])
      BY DEF Fitting
    <2>5. \A j \in Jobs : HopAt(s, j, c) =>
            (Pending(m[c]) \/ m[c].st = "TERMINATED") /\ m[c].ask.hop = s.mem[c].ask.hop
      BY <2>2 DEF Fitting, AsksOf
    <2>6. \A j : OwnHop(r, j) <=> OwnHop(s, j)
      BY <1>1 DEF OwnHop
    <2> QED BY <1>1, <1>2, <1>19, <2>2, <2>3, <2>4, <2>5, <2>6 DEF AsksOf
  <1>21. Told(r)
    <2>1. SUFFICES ASSUME NEW p \in Tasks
                   PROVE  /\ r.disk[p] # NoTask => \A i \in Marks(r.disk[p]) : MarkOK(r, p, i, r.disk[p].works[i].ref)
                          /\ r.mem[p] # NoTask => \A i \in Marks(r.mem[p]) :
                               /\ MarkOK(r, p, i, r.mem[p].works[i].ref)
                               /\ \A c \in Tasks : \A j \in Jobs :
                                    HopAt(r, j, c) /\ r.mem[p].works[i].ref = <<c, r.mem[c].ask.n>> => EarlierHop(r, p, i, c)
      BY DEF Told
    <2>2. \A i, ref : MarkOK(s, p, i, ref) => MarkOK(r, p, i, ref)
      BY <1>1 DEF MarkOK
    <2>3. /\ s.disk[p] # NoTask => \A i \in Marks(s.disk[p]) : MarkOK(s, p, i, s.disk[p].works[i].ref)
          /\ s.mem[p] # NoTask => \A i \in Marks(s.mem[p]) :
                               /\ MarkOK(s, p, i, s.mem[p].works[i].ref)
                               /\ \A c \in Tasks : \A j \in Jobs :
                                    HopAt(s, j, c) /\ s.mem[p].works[i].ref = <<c, s.mem[c].ask.n>> => EarlierHop(s, p, i, c)
      BY DEF Inv, Told
    <2>4. ASSUME NEW i, NEW c \in Tasks, NEW j \in Jobs, HopAt(s, j, c), EarlierHop(s, p, i, c)
          PROVE  EarlierHop(r, p, i, c)
      <3>1. CASE m[c] = s.mem[c]
        BY <1>1, <2>4, <3>1 DEF EarlierHop
      <3>2. CASE Fitting(s, K, c, m[c])
        <4>1. m[c].ask.hop = s.mem[c].ask.hop /\ m[c].ask.path = s.mem[c].ask.path
          BY <2>4, <3>2 DEF Fitting
        <4> QED BY <1>1, <2>4, <4>1 DEF EarlierHop
      <3> QED BY <3>1, <3>2
    <2>5. ASSUME m[p] # NoTask, NEW i \in Marks(m[p])
          PROVE  /\ MarkOK(r, p, i, m[p].works[i].ref)
                 /\ \A c \in Tasks : \A j \in Jobs :
                      HopAt(r, j, c) /\ m[p].works[i].ref = <<c, m[c].ask.n>> => EarlierHop(r, p, i, c)
      <3>1. s.mem[p] # NoTask
        BY <1>5, <2>5
      <3>2. i \in Marks(s.mem[p]) /\ m[p].works[i].ref = s.mem[p].works[i].ref
        BY <1>18, <2>5, <3>1
      <3> QED BY <1>17, <1>19, <2>2, <2>3, <2>4, <3>1, <3>2
    <2> QED BY <1>1, <2>2, <2>3, <2>5
  <1>22. Orphans(r, K)
    <2>1. SUFFICES ASSUME NEW k \in Tasks, Live(m[k]), Parent[k] # Orphan, ~Live(m[Parent[k]]), Lone(k) \notin K
                   PROVE  \/ \E j \in Jobs : \E f \in Held(r, j) : f.op = "cancel" /\ k \in ToSet(f.x)
                          \/ Holds(r, k, <<"host">>, {"orphan"})
      BY <1>1 DEF Orphans
    <2>2. Parent[k] \in Tasks
      BY <2>1, TaskAssumption
    <2>3. \/ \E j \in Jobs : \E f \in Held(s, j) : f.op = "cancel" /\ k \in ToSet(f.x)
          \/ Holds(s, k, <<"host">>, {"orphan"})
      BY <1>5, <2>1, <2>2 DEF Inv, Orphans
    <2> QED BY <1>1, <1>2, <2>3 DEF Held
  <1> QED BY <1>7, <1>8, <1>9, <1>10, <1>11, <1>12, <1>13, <1>14, <1>15, <1>16, <1>20, <1>21, <1>22 DEF Inv

----------------------------------------------------------------------------
(* Lists and snapshots that change *)

LEMMA Lists ==
  ASSUME NEW s, NEW ph, NEW L, Inv(s, ph, L), NEW K, L \subseteq K,
         NEW qu, NEW pk, NEW ti, NEW wk, \A t \in qu \cup pk \cup ti \cup wk : Known(s, t),
         qu \cap pk = {}, \A t \in qu \cup pk : s.mem[t].st = "READY",
         \A t \in s.queue \cup s.packing : t \in qu \cup pk \/ Late(t) \in K,
         NEW r, Is(r, s.mem, s.disk, qu, pk, ti, wk, s.pool, s.jobs)
  PROVE  Inv(r, ph, K)
  <1>1. /\ r.mem = s.mem /\ r.disk = s.disk /\ r.queue = qu /\ r.packing = pk
        /\ r.timers = ti /\ r.wake = wk /\ r.pool = s.pool /\ r.jobs = s.jobs
        /\ DOMAIN r = Fields
    BY DEF Is
  <1>2. \A i, t, ops : Holds(r, t, i, ops) <=> Holds(s, t, i, ops)
    BY <1>1 DEF Holds, Held
  <1>3. \A k : Born(r, k) <=> Born(s, k)
    BY <1>2 DEF Born
  <1>4. \A t : Known(r, t) <=> Known(s, t)
    BY <1>1, <1>3 DEF Known
  <1>5. Typed(r) /\ Stacks(r, ph)
    BY <1>1 DEF Inv, Typed, Fields, Stacks
  <1>6. FramesKnown(r) /\ ListsKnown(r)
    BY <1>1, <1>4, FrameStays DEF Inv, FramesKnown, Held, ListsKnown
  <1>7. Family(r, ph) /\ Saved(r, ph)
    BY <1>1, <1>4 DEF Inv, Family, Saved
  <1>8. Newborns(r)
    BY <1>1, <1>2 DEF Inv, Newborns, NewbornFits, Held
  <1>9. Books(r)
    BY <1>1 DEF Inv, Books
  <1>10. Listed(r, K)
    BY <1>1, <1>2, <1>3 DEF Inv, Listed, ListedTask
  <1>11. Handles(r)
    <2>1. SUFFICES ASSUME NEW x \in Tasks PROVE HandlesFor(r, x, s.mem[x])
      BY <1>1 DEF Handles, HandlesOf
    <2>2. HandlesFor(s, x, s.mem[x])
      BY DEF Inv, Handles, HandlesOf
    <2>3. (Hot(r, x) <=> Hot(s, x)) /\ (OwnHop(r, TurnJob(x)) <=> OwnHop(s, TurnJob(x)))
      BY <1>1 DEF Hot, OwnHop, Held
    <2>4. (Looped(r, x) <=> Looped(s, x)) /\ (InLoop(r, x) <=> InLoop(s, x))
      BY <1>2 DEF Looped, InLoop
    <2> QED BY <1>1, <1>2, <2>2, <2>3, <2>4 DEF HandlesFor
  <1>12. \A i, c : HopAt(r, i, c) <=> HopAt(s, i, c)
    BY <1>1 DEF HopAt
  <1>13. Asks(r)
    BY <1>1, <1>2, <1>12 DEF Inv, Asks, AsksOf, Unmarked, OwnHop
  <1>14. Told(r)
    <2>1. \A p, i, ref : MarkOK(r, p, i, ref) <=> MarkOK(s, p, i, ref)
      BY <1>1 DEF MarkOK
    <2>2. \A p, i, c : EarlierHop(r, p, i, c) <=> EarlierHop(s, p, i, c)
      BY <1>1 DEF EarlierHop
    <2>3. Told(s)
      BY DEF Inv
    <2> QED BY <1>1, <1>12, <2>1, <2>2, <2>3 DEF Told
  <1>15. Orphans(r, K)
    <2>1. Orphans(s, K)
      BY DEF Inv, Orphans
    <2> QED BY <1>1, <1>2, <2>1 DEF Orphans, Held
  <1> QED BY <1>5, <1>6, <1>7, <1>8, <1>9, <1>10, <1>11, <1>13, <1>14, <1>15 DEF Inv

\* The control block of t is saved.
LEMMA Writes ==
  ASSUME NEW s, NEW ph, NEW L, Inv(s, ph, L), ph # "down",
         NEW t, Known(s, t) \/ (Born(s, t) /\ s.mem[t].st = "TERMINATED"),
         NEW r, Is(r, s.mem, [s.disk EXCEPT ![t] = s.mem[t]], s.queue, s.packing, s.timers,
                   s.wake, s.pool, s.jobs)
  PROVE  Inv(r, ph, L)
  <1>1. /\ r.mem = s.mem /\ r.disk = [s.disk EXCEPT ![t] = s.mem[t]] /\ r.queue = s.queue
        /\ r.packing = s.packing /\ r.timers = s.timers /\ r.wake = s.wake /\ r.pool = s.pool
        /\ r.jobs = s.jobs /\ DOMAIN r = Fields
    BY DEF Is
  <1>b. Born(s, t) => /\ t \in Tasks /\ s.mem[t] # NoTask
                      /\ s.mem[t].works = <<>> /\ s.mem[t].ask = NoAsk
                      /\ s.disk[t] # NoTask => s.disk[t].ask = NoAsk
    BY DEF Born, Holds, Inv, Newborns, NewbornFits
  <1>t. t \in Tasks /\ s.mem[t] # NoTask /\ Block(s.mem[t])
    BY <1>b DEF Known, Inv, Typed
  <1>d. DOMAIN s.disk = Tasks /\ DOMAIN r.disk = Tasks
    BY <1>1 DEF Inv, Typed
  <1>e. r.disk[t] = s.mem[t] /\ \A k \in Tasks : k # t => r.disk[k] = s.disk[k]
    BY <1>1, <1>t, <1>d
  <1>f. Known(s, t) =>
        /\ s.disk[t] # NoTask /\ Block(s.disk[t])
        /\ s.disk[t].ask.n = s.mem[t].ask.n /\ s.disk[t].ask.path = s.mem[t].ask.path
        /\ s.disk[t].ask.hop <= s.mem[t].ask.hop
    BY <1>t DEF Inv, Saved, Typed
  <1>2. \A i, k, ops : Holds(r, k, i, ops) <=> Holds(s, k, i, ops)
    BY <1>1 DEF Holds, Held
  <1>3. \A k : Born(r, k) <=> Born(s, k)
    BY <1>2 DEF Born
  <1>4. \A k : Known(r, k) <=> Known(s, k)
    BY <1>1, <1>3 DEF Known
  <1>5. Typed(r)
    BY <1>1, <1>t, <1>d, <1>e DEF Inv, Typed, Fields
  <1>6. Stacks(r, ph)
    BY <1>1 DEF Inv, Stacks
  <1>7. FramesKnown(r) /\ ListsKnown(r)
    BY <1>1, <1>4, FrameStays DEF Inv, FramesKnown, Held, ListsKnown
  <1>8. Family(r, ph)
    <2>1. SUFFICES ASSUME NEW k \in Tasks
                   PROVE  /\ r.mem[k] # NoTask /\ Parent[k] # Orphan => Known(r, Parent[k])
                          /\ r.disk[k] # NoTask /\ Parent[k] # Orphan => r.disk[Parent[k]] # NoTask
                          /\ ph # "down" /\ r.disk[k] # NoTask /\ r.mem[k] = NoTask =>
                               Parent[k] # Orphan /\ ~Live(r.mem[Parent[k]])
      BY DEF Family
    <2>2. Parent[k] # Orphan => Parent[k] \in Tasks
      BY TaskAssumption
    <2>3. \A x \in Tasks : s.disk[x] # NoTask => r.disk[x] # NoTask
      BY <1>e, <1>t
    <2>4. k = t /\ Parent[t] # Orphan => s.disk[Parent[t]] # NoTask
      BY <1>t, <2>2 DEF Inv, Family, Saved
    <2> QED BY <1>1, <1>4, <1>e, <1>t, <2>2, <2>3, <2>4 DEF Inv, Family
  <1>9. Saved(r, ph)
    <2>1. SUFFICES ASSUME NEW k \in Tasks, Known(s, k)
                   PROVE  /\ r.disk[k] # NoTask
                          /\ r.disk[k].ask.n = s.mem[k].ask.n /\ r.disk[k].ask.path = s.mem[k].ask.path
                          /\ r.disk[k].ask.hop <= s.mem[k].ask.hop
      BY <1>1, <1>4 DEF Saved
    <2>2. CASE k = t
      <3>1. s.mem[t].ask.hop \in Nat
        BY <1>t, BlockFacts
      <3> QED BY <1>t, <1>e, <2>2, <3>1
    <2>3. CASE k # t
      BY <1>e, <2>1, <2>3 DEF Inv, Saved
    <2> QED BY <2>2, <2>3
  <1>10. Newborns(r)
    <2>1. SUFFICES ASSUME NEW i \in Jobs, NEW f \in Held(s, i), f.op \in Sends
                   PROVE  NewbornFits(r, f) /\ \A j \in Jobs : Holds(r, f.t, j, Sends) => j = i
      BY <1>1 DEF Newborns, Held
    <2>2. NewbornFits(s, f) /\ \A j \in Jobs : Holds(s, f.t, j, Sends) => j = i
      BY <2>1 DEF Inv, Newborns
    <2>3. f.t \in Tasks
      BY <2>2 DEF NewbornFits
    <2>4. NewbornFits(r, f)
      <3>1. CASE f.t # t
        BY <1>1, <1>e, <2>2, <2>3, <3>1 DEF NewbornFits
      <3>2. CASE f.t = t
        <4>1. Born(s, t)
          BY <2>1, <3>2 DEF Born, Holds
        <4>2. s.mem[t].st = "TERMINATED"
          BY <4>1 DEF Known
        <4> QED BY <1>1, <1>b, <1>e, <1>t, <2>2, <3>2, <4>1, <4>2 DEF NewbornFits
      <3> QED BY <3>1, <3>2
    <2> QED BY <1>2, <2>2, <2>4
  <1>11. Books(r) /\ Listed(r, L)
    BY <1>1, <1>2, <1>3 DEF Inv, Books, Listed, ListedTask
  <1>12. Handles(r)
    BY <1>1, <1>2 DEF Inv, Handles, HandlesOf, HandlesFor, Hot, Looped, InLoop, OwnHop, Held
  <1>13. \A i, c : HopAt(r, i, c) <=> HopAt(s, i, c)
    BY <1>1 DEF HopAt
  <1>14. Asks(r)
    <2>1. SUFFICES ASSUME NEW c \in Tasks PROVE AsksOf(r, c)
      BY DEF Asks
    <2>2. AsksOf(s, c)
      BY DEF Inv, Asks
    <2>3. Unmarked(s, c) <=> Unmarked(r, c)
      BY <1>1 DEF Unmarked
    <2>4. s.disk[c].ask.hop = s.mem[c].ask.hop => r.disk[c].ask.hop = s.mem[c].ask.hop
      BY <1>e
    <2>5. \A j : OwnHop(r, j) <=> OwnHop(s, j)
      BY <1>1 DEF OwnHop
    <2> QED BY <1>1, <1>2, <1>13, <2>2, <2>3, <2>4, <2>5 DEF AsksOf
  <1>15. Told(r)
    <2>1. ASSUME NEW p, NEW i, NEW ref, MarkOK(s, p, i, ref) PROVE MarkOK(r, p, i, ref)
      <3>1. CASE ref[1] # t
        BY <1>e, <2>1, <3>1 DEF MarkOK
      <3>3. CASE ref[1] = t /\ ~Known(s, t)
        <4>1. s.disk[t] # NoTask /\ s.disk[t].ask = NoAsk /\ ref[2] \in Nat \ {0} /\ ref[2] <= s.disk[t].ask.n
          BY <1>b, <2>1, <3>3 DEF MarkOK
        <4> QED BY <4>1 DEF NoAsk
      <3>2. CASE ref[1] = t /\ Known(s, t)
        <4> DEFINE n == ref[2]
        <4>1. /\ ref = <<t, n>> /\ n \in Nat \ {0} /\ n <= s.disk[t].ask.n
              /\ n = s.disk[t].ask.n => \E h \in DOMAIN s.disk[t].ask.path :
                   h <= s.disk[t].ask.hop /\ s.disk[t].ask.path[h] = [grantor |-> p, grantee |-> i]
          BY <2>1, <3>2 DEF MarkOK
        <4> HIDE DEF n
        <4>2. n = s.mem[t].ask.n => \E h \in DOMAIN s.mem[t].ask.path :
                h <= s.mem[t].ask.hop /\ s.mem[t].ask.path[h] = [grantor |-> p, grantee |-> i]
          <5>1. SUFFICES ASSUME n = s.mem[t].ask.n
                         PROVE  \E h \in DOMAIN s.mem[t].ask.path :
                                  h <= s.mem[t].ask.hop /\ s.mem[t].ask.path[h] = [grantor |-> p, grantee |-> i]
            OBVIOUS
          <5>2. PICK h \in DOMAIN s.disk[t].ask.path :
                   h <= s.disk[t].ask.hop /\ s.disk[t].ask.path[h] = [grantor |-> p, grantee |-> i]
            BY <1>f, <3>2, <4>1, <5>1
          <5>3. h \in Nat /\ s.disk[t].ask.hop \in Nat /\ s.mem[t].ask.hop \in Nat
            BY <1>f, <3>2, <1>t, <5>2, BlockFacts
          <5>4. h <= s.mem[t].ask.hop
            BY <1>f, <3>2, <5>2, <5>3
          <5> QED BY <1>f, <3>2, <5>2, <5>4
        <4>3. s.disk[t].ask.n = s.mem[t].ask.n /\ r.disk[t] = s.mem[t]
          BY <1>e, <1>f, <3>2
        <4>4. ref[1] = t /\ ref[2] = n
          BY <3>2 DEF n
        <4> QED BY <1>t, <4>1, <4>2, <4>3, <4>4 DEF MarkOK
      <3> QED BY <3>1, <3>2, <3>3
    <2>2. SUFFICES ASSUME NEW p \in Tasks
                   PROVE  /\ r.disk[p] # NoTask => \A i \in Marks(r.disk[p]) : MarkOK(r, p, i, r.disk[p].works[i].ref)
                          /\ r.mem[p] # NoTask => \A i \in Marks(r.mem[p]) :
                               /\ MarkOK(r, p, i, r.mem[p].works[i].ref)
                               /\ \A c \in Tasks : \A j \in Jobs :
                                    HopAt(r, j, c) /\ r.mem[p].works[i].ref = <<c, r.mem[c].ask.n>> => EarlierHop(r, p, i, c)
      BY DEF Told
    <2>3. \A i, c : EarlierHop(r, p, i, c) <=> EarlierHop(s, p, i, c)
      BY <1>1 DEF EarlierHop
    <2>4. /\ s.disk[p] # NoTask => \A i \in Marks(s.disk[p]) : MarkOK(s, p, i, s.disk[p].works[i].ref)
          /\ s.mem[p] # NoTask => \A i \in Marks(s.mem[p]) :
                               /\ MarkOK(s, p, i, s.mem[p].works[i].ref)
                               /\ \A c \in Tasks : \A j \in Jobs :
                                    HopAt(s, j, c) /\ s.mem[p].works[i].ref = <<c, s.mem[c].ask.n>> => EarlierHop(s, p, i, c)
      BY DEF Inv, Told
    <2>5. r.disk[p] # NoTask => \A i \in Marks(r.disk[p]) : MarkOK(s, p, i, r.disk[p].works[i].ref)
      BY <1>e, <1>t, <2>4
    <2> QED BY <1>1, <1>13, <2>1, <2>3, <2>4, <2>5
  <1>16. Orphans(r, L)
    BY <1>1, <1>2 DEF Inv, Orphans, Held
  <1> QED BY <1>5, <1>6, <1>7, <1>8, <1>9, <1>10, <1>11, <1>12, <1>14, <1>15, <1>16 DEF Inv

----------------------------------------------------------------------------
(* The operations of the control block *)

\* b asks for nothing new, and no work but that of X is finished in it.
Milder(a, b, X) ==
  /\ Block(b)
  /\ b.ask.n = a.ask.n /\ b.ask.path = a.ask.path /\ b.ask.hop = a.ask.hop
  /\ DOMAIN b.works = DOMAIN a.works
  /\ \A i \in Marks(b) : i \in Marks(a) /\ b.works[i].ref = a.works[i].ref
  /\ \A k : k \notin X /\ Completable(a, k) => Completable(b, k)

LEMMA MilderThen ==
  ASSUME NEW a, NEW b, NEW c, NEW X, Milder(a, b, X), Milder(b, c, X)
  PROVE  Milder(a, c, X)
  BY DEF Milder

LEMMA MilderSelf ==
  ASSUME NEW a, Block(a), NEW X
  PROVE  Milder(a, a, X)
  BY DEF Milder

\* The requests and the work of a task stay what they are.
LEMMA MilderSame ==
  ASSUME NEW a, NEW b, NEW X, Block(b), b.ask = a.ask, b.works = a.works
  PROVE  Milder(a, b, X)
  BY DEF Milder, Marks, Completable, Open

LEMMA GraphOps ==
  ASSUME NEW g, GraphOK(g), g # NoGraph
  PROVE  /\ \A a, st : GraphOK(Mark(g, a, st))
         /\ \A a : GraphOK(activateSelfWorkGraphNode(g, a))
         /\ GraphOK(completeCurrentWorkGraphNode(g))
         /\ GraphOK(requestCurrentWorkGraphReplan(g))
         /\ GraphOK(enterWorkGraphPlan(g))
         /\ \A nodes, kids : GraphOK(bindDelegatedWorkGraphNodes(g, nodes, kids))
         /\ \A as : GraphOK(failWorkGraphNodes(g, as))
  <1>1. DOMAIN g = {"phase", "cur", "nodes"} /\ IsFiniteSet(DOMAIN g.nodes)
    BY DEF GraphOK
  <1>2. \A a, st : DOMAIN Mark(g, a, st) = DOMAIN g /\ DOMAIN Mark(g, a, st).nodes = DOMAIN g.nodes
    BY <1>1 DEF Mark
  <1>3. \A a : GraphOK(activateSelfWorkGraphNode(g, a))
    <2>1. SUFFICES ASSUME NEW a PROVE GraphOK([Mark(g, a, "ready") EXCEPT !.cur = a])
      BY DEF activateSelfWorkGraphNode
    <2>2. PICK h : h = Mark(g, a, "ready")
      OBVIOUS
    <2>3. DOMAIN h = DOMAIN g /\ DOMAIN h.nodes = DOMAIN g.nodes
      BY <1>2, <2>2
    <2> QED BY <1>1, <2>2, <2>3 DEF GraphOK
  <1>4. GraphOK(completeCurrentWorkGraphNode(g))
    <2>1. PICK h : h = Mark(g, g.cur, "completed")
      OBVIOUS
    <2>2. DOMAIN h = DOMAIN g /\ DOMAIN h.nodes = DOMAIN g.nodes
      BY <1>2, <2>1
    <2>3. completeCurrentWorkGraphNode(g) = [h EXCEPT !.cur = NoNode]
      BY <2>1 DEF completeCurrentWorkGraphNode
    <2> QED BY <1>1, <2>2, <2>3 DEF GraphOK
  <1>5. GraphOK(requestCurrentWorkGraphReplan(g))
    <2>1. PICK h : h = Mark(g, g.cur, "failed")
      OBVIOUS
    <2>2. DOMAIN h = DOMAIN g /\ DOMAIN h.nodes = DOMAIN g.nodes
      BY <1>2, <2>1
    <2>3. requestCurrentWorkGraphReplan(g) = [h EXCEPT !.cur = NoNode, !.phase = "planning"]
      BY <2>1 DEF requestCurrentWorkGraphReplan
    <2> QED BY <1>1, <2>2, <2>3 DEF GraphOK
  <1>6. GraphOK(enterWorkGraphPlan(g))
    BY <1>1 DEF GraphOK, enterWorkGraphPlan
  <1>7. \A nodes, kids : GraphOK(bindDelegatedWorkGraphNodes(g, nodes, kids))
    BY <1>1 DEF GraphOK, bindDelegatedWorkGraphNodes
  <1>8. \A as : GraphOK(failWorkGraphNodes(g, as))
    BY <1>1 DEF GraphOK, failWorkGraphNodes
  <1> QED BY <1>1, <1>2, <1>3, <1>4, <1>5, <1>6, <1>7, <1>8 DEF GraphOK

LEMMA GraphFollows ==
  ASSUME NEW g, GraphOK(g)
  PROVE  /\ \A st \in {"READY", "RUNNING", "BLOCKED", "TERMINATED"} : GraphOK(syncCurrentWorkGraphNode(g, st))
         /\ \A k, kind : GraphOK(completeDelegatedWorkGraphNode(g, k, kind))
         /\ \A kind : GraphOK(completeDelegatedWorkGraphNodes(g, kind))
  <1>1. CASE g = NoGraph
    BY <1>1 DEF syncCurrentWorkGraphNode, completeDelegatedWorkGraphNode, completeDelegatedWorkGraphNodes
  <1>2. CASE g # NoGraph
    <2>1. DOMAIN g = {"phase", "cur", "nodes"} /\ IsFiniteSet(DOMAIN g.nodes)
      BY <1>2 DEF GraphOK
    <2>2. \A k, kind : GraphOK(completeDelegatedWorkGraphNode(g, k, kind))
      BY <1>2, <2>1 DEF GraphOK, completeDelegatedWorkGraphNode
    <2>3. \A kind : GraphOK(completeDelegatedWorkGraphNodes(g, kind))
      BY <1>2, <2>1 DEF GraphOK, completeDelegatedWorkGraphNodes
    <2>4. ASSUME NEW st \in {"READY", "RUNNING", "BLOCKED", "TERMINATED"}
          PROVE  GraphOK(syncCurrentWorkGraphNode(g, st))
      <3>1. \A a, x : GraphOK(Mark(g, a, x))
        BY <1>2, GraphOps
      <3> QED BY <3>1, <2>4 DEF syncCurrentWorkGraphNode
    <2> QED BY <2>2, <2>3, <2>4
  <1> QED BY <1>1, <1>2

LEMMA TransitionMild ==
  ASSUME NEW b, Block(b), NEW st \in {"READY", "RUNNING", "BLOCKED", "TERMINATED"}, NEW why, NEW X
  PROVE  /\ Milder(b, transition(b, st, why), X)
         /\ transition(b, st, why).st = st /\ transition(b, st, why).why = why
         /\ transition(b, st, why).ask = b.ask /\ transition(b, st, why).works = b.works
         /\ transition(b, st, why).graph = syncCurrentWorkGraphNode(b.graph, st)
  <1>1. GraphOK(syncCurrentWorkGraphNode(b.graph, st))
    BY GraphFollows DEF Block
  <1>2. PICK c : c = transition(b, st, why)
    OBVIOUS
  <1>3. /\ DOMAIN c = BlockFields /\ c.st = st /\ c.why = why /\ c.ask = b.ask /\ c.works = b.works
        /\ c.graph = syncCurrentWorkGraphNode(b.graph, st)
    BY <1>2 DEF transition, Block, BlockFields
  <1>4. Block(c)
    BY <1>1, <1>3 DEF Block
  <1> QED BY <1>2, <1>3, <1>4, MilderSame

\* Fields that nobody else looks at.
LEMMA FieldMild ==
  ASSUME NEW b, Block(b), NEW c, DOMAIN c = BlockFields, c.st = b.st, c.ask = b.ask, c.works = b.works,
         GraphOK(c.graph), NEW X
  PROVE  Milder(b, c, X)
  <1>1. Block(c)
    BY DEF Block
  <1> QED BY <1>1, MilderSame

LEMMA ContextMild ==
  ASSUME NEW b, Block(b), NEW X
  PROVE  /\ Milder(b, appendContext(b), X)
         /\ appendContext(b).st = b.st /\ appendContext(b).why = b.why /\ appendContext(b).works = b.works
         /\ appendContext(b).ask = b.ask /\ appendContext(b).graph = b.graph
  <1>1. PICK c : c = appendContext(b)
    OBVIOUS
  <1>2. /\ DOMAIN c = BlockFields /\ c.st = b.st /\ c.why = b.why /\ c.ask = b.ask /\ c.works = b.works
        /\ c.graph = b.graph
    BY <1>1 DEF appendContext, Block, BlockFields
  <1>3. Milder(b, c, X)
    BY <1>2, FieldMild DEF Block
  <1> QED BY <1>1, <1>2, <1>3

LEMMA GrantsMild ==
  ASSUME NEW b, Block(b), NEW X
  PROVE  /\ \A g : Milder(b, addCapabilityGrants(b, g), X) /\ addCapabilityGrants(b, g).st = b.st
                   /\ addCapabilityGrants(b, g).why = b.why /\ addCapabilityGrants(b, g).ask = b.ask
         /\ \A at, op : Milder(b, consumeCapabilityGrant(b, at, op), X) /\ consumeCapabilityGrant(b, at, op).st = b.st
                        /\ consumeCapabilityGrant(b, at, op).why = b.why
                        /\ consumeCapabilityGrant(b, at, op).ask = b.ask
  <1>1. ASSUME NEW c, NEW g, c = [b EXCEPT !.grants = g]
        PROVE  Milder(b, c, X) /\ c.st = b.st /\ c.why = b.why /\ c.ask = b.ask
    <2>1. /\ DOMAIN c = BlockFields /\ c.st = b.st /\ c.why = b.why /\ c.ask = b.ask /\ c.works = b.works
          /\ c.graph = b.graph
      BY <1>1 DEF Block, BlockFields
    <2> QED BY <2>1, FieldMild DEF Block
  <1>2. \A g : addCapabilityGrants(b, g) = [b EXCEPT !.grants = b.grants \o g]
    BY DEF addCapabilityGrants
  <1>3. ASSUME NEW at, NEW op
        PROVE  \E g : consumeCapabilityGrant(b, at, op) = [b EXCEPT !.grants = g]
    <2> DEFINE g == [i \in DOMAIN b.grants |->
                       IF i \in at /\ b.grants[i].limited /\ b.grants[i].usedBy # op
                       THEN [b.grants[i] EXCEPT !.uses = @ - 1, !.usedBy = op] ELSE b.grants[i]]
    <2>1. consumeCapabilityGrant(b, at, op) = [b EXCEPT !.grants = g]
      BY Zenon DEF consumeCapabilityGrant
    <2> HIDE DEF g
    <2> QED BY <2>1
  <1>4. ASSUME NEW g
        PROVE  /\ Milder(b, addCapabilityGrants(b, g), X) /\ addCapabilityGrants(b, g).st = b.st
               /\ addCapabilityGrants(b, g).why = b.why /\ addCapabilityGrants(b, g).ask = b.ask
    <2>1. PICK c : c = addCapabilityGrants(b, g)
      OBVIOUS
    <2>2. PICK h : h = b.grants \o g
      OBVIOUS
    <2> QED BY <1>1, <1>2, <2>1, <2>2, ZenonT(30)
  <1>5. ASSUME NEW at, NEW op
        PROVE  /\ Milder(b, consumeCapabilityGrant(b, at, op), X) /\ consumeCapabilityGrant(b, at, op).st = b.st
               /\ consumeCapabilityGrant(b, at, op).why = b.why
               /\ consumeCapabilityGrant(b, at, op).ask = b.ask
    <2>1. PICK c : c = consumeCapabilityGrant(b, at, op)
      OBVIOUS
    <2>2. PICK h : c = [b EXCEPT !.grants = h]
      BY <1>3, <2>1
    <2> QED BY <1>1, <2>1, <2>2
  <1> QED BY <1>4, <1>5, Zenon

\* A table of works in which the marks of some items are gone.
LEMMA WorksMild ==
  ASSUME NEW b, Block(b), NEW w, DOMAIN w = DOMAIN b.works, NEW X,
         \A i \in DOMAIN w : /\ DOMAIN w[i] = WorkFields /\ w[i].open \in BOOLEAN
                             /\ Blocking(w[i]) => Blocking(b.works[i]) /\ w[i].ref = b.works[i].ref
                             /\ i \notin X /\ Completable(b, i) => w[i].open /\ ~Finished(w[i]),
         NEW c, c = [b EXCEPT !.works = w]
  PROVE  Milder(b, c, X) /\ c.st = b.st /\ c.why = b.why /\ c.ask = b.ask /\ c.works = w /\ c.graph = b.graph
  <1>1. /\ DOMAIN c = BlockFields /\ c.st = b.st /\ c.why = b.why /\ c.ask = b.ask /\ c.works = w
        /\ c.graph = b.graph
    BY DEF Block, BlockFields
  <1>2. Block(c)
    BY <1>1 DEF Block
  <1>3. \A i \in Marks(c) : i \in Marks(b) /\ c.works[i].ref = b.works[i].ref
    BY <1>1 DEF Marks
  <1>4. \A k : k \notin X /\ Completable(b, k) => Completable(c, k)
    BY <1>1 DEF Completable, Open
  <1> QED BY <1>1, <1>2, <1>3, <1>4 DEF Milder

LEMMA CompleteMild ==
  ASSUME NEW b, Block(b), NEW st
  PROVE  /\ \A i, x : /\ Milder(b, completeAsyncWork(b, i, x), {i})
                      /\ completeAsyncWork(b, i, x).st = b.st /\ completeAsyncWork(b, i, x).why = b.why
                      /\ completeAsyncWork(b, i, x).ask = b.ask /\ completeAsyncWork(b, i, x).graph = b.graph
         /\ Milder(b, completeAsyncWorks(b, st), DOMAIN st)
         /\ completeAsyncWorks(b, st).st = b.st /\ completeAsyncWorks(b, st).why = b.why
         /\ completeAsyncWorks(b, st).ask = b.ask /\ completeAsyncWorks(b, st).graph = b.graph
  <1>1. ASSUME NEW i \in DOMAIN b.works, NEW x
        PROVE  /\ DOMAIN Ended(b.works[i], x) = WorkFields
               /\ Ended(b.works[i], x).open \in BOOLEAN
               /\ ~Blocking(Ended(b.works[i], x))
    BY DEF Block, WorkFields, Ended, Blocking
  <1>2. ASSUME NEW i, NEW x
        PROVE  /\ Milder(b, completeAsyncWork(b, i, x), {i})
               /\ completeAsyncWork(b, i, x).st = b.st /\ completeAsyncWork(b, i, x).why = b.why
               /\ completeAsyncWork(b, i, x).ask = b.ask /\ completeAsyncWork(b, i, x).graph = b.graph
    <2>1. PICK w : w = [b.works EXCEPT ![i] = Ended(@, x)]
      OBVIOUS
    <2>2. completeAsyncWork(b, i, x) = [b EXCEPT !.works = w]
      <3>1. w = [b.works EXCEPT ![i] = Ended(b.works[i], x)]
        BY <2>1
      <3>2. completeAsyncWork(b, i, x) = [b EXCEPT !.works = [b.works EXCEPT ![i] = Ended(b.works[i], x)]]
        BY Zenon DEF completeAsyncWork
      <3> QED BY <3>1, <3>2
    <2>3. DOMAIN w = DOMAIN b.works
      BY <2>1
    <2>4. \A k \in DOMAIN w : w[k] = IF k = i THEN Ended(b.works[i], x) ELSE b.works[k]
      BY <2>1
    <2>5. \A k \in DOMAIN b.works : DOMAIN b.works[k] = WorkFields /\ b.works[k].open \in BOOLEAN
      BY DEF Block
    <2>6. \A k : Completable(b, k) => k \in DOMAIN b.works /\ b.works[k].open /\ ~Finished(b.works[k])
      BY DEF Completable, Open
    <2>7. ASSUME NEW k \in DOMAIN w
          PROVE  /\ DOMAIN w[k] = WorkFields /\ w[k].open \in BOOLEAN
                 /\ Blocking(w[k]) => Blocking(b.works[k]) /\ w[k].ref = b.works[k].ref
                 /\ k \notin {i} /\ Completable(b, k) => w[k].open /\ ~Finished(w[k])
      BY <1>1, <2>3, <2>4, <2>5, <2>6
    <2> QED BY <2>2, <2>3, <2>7, WorksMild
  <1>3. /\ Milder(b, completeAsyncWorks(b, st), DOMAIN st)
        /\ completeAsyncWorks(b, st).st = b.st /\ completeAsyncWorks(b, st).why = b.why
        /\ completeAsyncWorks(b, st).ask = b.ask /\ completeAsyncWorks(b, st).graph = b.graph
    <2>1. PICK w : w = [i \in DOMAIN b.works |-> IF i \in DOMAIN st THEN Ended(b.works[i], st[i]) ELSE b.works[i]]
      OBVIOUS
    <2>2. completeAsyncWorks(b, st) = [b EXCEPT !.works = w]
      BY <2>1 DEF completeAsyncWorks
    <2>3. /\ DOMAIN w = DOMAIN b.works
          /\ \A k \in DOMAIN w : w[k] = IF k \in DOMAIN st THEN Ended(b.works[k], st[k]) ELSE b.works[k]
      BY <2>1
    <2>5. \A k \in DOMAIN b.works : DOMAIN b.works[k] = WorkFields /\ b.works[k].open \in BOOLEAN
      BY DEF Block
    <2>6. \A k : Completable(b, k) => k \in DOMAIN b.works /\ b.works[k].open /\ ~Finished(b.works[k])
      BY DEF Completable, Open
    <2>7. ASSUME NEW k \in DOMAIN w
          PROVE  /\ DOMAIN w[k] = WorkFields /\ w[k].open \in BOOLEAN
                 /\ Blocking(w[k]) => Blocking(b.works[k]) /\ w[k].ref = b.works[k].ref
                 /\ k \notin DOMAIN st /\ Completable(b, k) => w[k].open /\ ~Finished(w[k])
      BY <1>1, <2>3, <2>5, <2>6
    <2> QED BY <2>2, <2>3, <2>7, WorksMild
  <1> QED BY <1>2, <1>3

\* The decision of a blocker is heard, or every blocker is put forward again.
LEMMA BlockerMild ==
  ASSUME NEW b, Block(b)
  PROVE  /\ \A k : /\ Milder(b, clearSubagentCapabilityBlocker(b, k), {})
                   /\ clearSubagentCapabilityBlocker(b, k).st = b.st
                   /\ clearSubagentCapabilityBlocker(b, k).why = b.why
                   /\ clearSubagentCapabilityBlocker(b, k).ask = b.ask
         /\ Milder(b, requeueActiveCapabilityBlockers(b), {})
         /\ requeueActiveCapabilityBlockers(b).st = b.st /\ requeueActiveCapabilityBlockers(b).why = b.why
         /\ requeueActiveCapabilityBlockers(b).ask = b.ask
         /\ \A k : Completable(requeueActiveCapabilityBlockers(b), k) <=> Completable(b, k)
  <1>1. \A k \in DOMAIN b.works : DOMAIN b.works[k] = WorkFields /\ b.works[k].open \in BOOLEAN
    BY DEF Block
  <1>2. \A k : Completable(b, k) <=> k \in DOMAIN b.works /\ b.works[k].open /\ ~Finished(b.works[k])
    BY DEF Completable, Open
  <1>3. ASSUME NEW k
        PROVE  /\ Milder(b, clearSubagentCapabilityBlocker(b, k), {})
               /\ clearSubagentCapabilityBlocker(b, k).st = b.st
               /\ clearSubagentCapabilityBlocker(b, k).why = b.why
               /\ clearSubagentCapabilityBlocker(b, k).ask = b.ask
    <2>1. PICK v : v = [[[b.works[k] EXCEPT !.st = "running"] EXCEPT !.ref = NoRef] EXCEPT !.seen = FALSE]
      OBVIOUS
    <2>2. PICK w : w = [b.works EXCEPT ![k] = v]
      OBVIOUS
    <2>3. PICK c : c = clearSubagentCapabilityBlocker(b, k)
      OBVIOUS
    <2>4. c = [b EXCEPT !.works = c.works] /\ DOMAIN c.works = DOMAIN b.works
      BY <2>3, ZenonT(30) DEF clearSubagentCapabilityBlocker, Block, BlockFields
    <2>5. \A i \in DOMAIN b.works : i # k => c.works[i] = b.works[i]
      BY <2>3 DEF clearSubagentCapabilityBlocker, Block, BlockFields
    <2>6. k \in DOMAIN b.works =>
            /\ DOMAIN c.works[k] = WorkFields /\ c.works[k].open = b.works[k].open
            /\ c.works[k].ref = NoRef /\ c.works[k].st = "running"
      BY <1>1, <2>3 DEF clearSubagentCapabilityBlocker, Block, BlockFields, WorkFields
    <2>7. ASSUME NEW i \in DOMAIN c.works
          PROVE  /\ DOMAIN c.works[i] = WorkFields /\ c.works[i].open \in BOOLEAN
                 /\ Blocking(c.works[i]) => Blocking(b.works[i]) /\ c.works[i].ref = b.works[i].ref
                 /\ i \notin {} /\ Completable(b, i) => c.works[i].open /\ ~Finished(c.works[i])
      <3>1. CASE i = k
        BY <1>1, <1>2, <2>4, <2>6, <3>1 DEF Blocking, Finished
      <3>2. CASE i # k
        BY <1>1, <1>2, <2>4, <2>5, <3>2
      <3> QED BY <3>1, <3>2
    <2> QED BY <2>3, <2>4, <2>7, WorksMild
  <1>4. /\ Milder(b, requeueActiveCapabilityBlockers(b), {})
        /\ requeueActiveCapabilityBlockers(b).st = b.st /\ requeueActiveCapabilityBlockers(b).why = b.why
        /\ requeueActiveCapabilityBlockers(b).ask = b.ask
        /\ \A k : Completable(requeueActiveCapabilityBlockers(b), k) <=> Completable(b, k)
    <2>1. PICK w : w = [i \in DOMAIN b.works |->
                          IF i \in Open(b) /\ b.works[i].st = "waiting"
                          THEN [b.works[i] EXCEPT !.seen = FALSE] ELSE b.works[i]]
      OBVIOUS
    <2>2. PICK c : c = requeueActiveCapabilityBlockers(b)
      OBVIOUS
    <2>3. c = [b EXCEPT !.works = w]
      BY <2>1, <2>2 DEF requeueActiveCapabilityBlockers
    <2>4. /\ DOMAIN w = DOMAIN b.works
          /\ \A i \in DOMAIN w : /\ DOMAIN w[i] = WorkFields /\ w[i].open = b.works[i].open
                                 /\ w[i].st = b.works[i].st /\ w[i].ref = b.works[i].ref
      BY <1>1, <2>1 DEF WorkFields
    <2>5. ASSUME NEW i \in DOMAIN w
          PROVE  /\ DOMAIN w[i] = WorkFields /\ w[i].open \in BOOLEAN
                 /\ Blocking(w[i]) => Blocking(b.works[i]) /\ w[i].ref = b.works[i].ref
                 /\ i \notin {} /\ Completable(b, i) => w[i].open /\ ~Finished(w[i])
      BY <1>1, <1>2, <2>4 DEF Blocking, Finished
    <2>6. Milder(b, c, {}) /\ c.st = b.st /\ c.why = b.why /\ c.ask = b.ask /\ c.works = w
      BY <2>3, <2>4, <2>5, WorksMild
    <2>7. \A k : Completable(c, k) <=> Completable(b, k)
      BY <1>2, <2>4, <2>6 DEF Completable, Open, Finished
    <2> QED BY <2>2, <2>6, <2>7
  <1> QED BY <1>3, <1>4

\* The claim of results.
LEMMA ClaimMild ==
  ASSUME NEW b, Block(b), NEW X
  PROVE  /\ Milder(b, claimAsyncWorkUpdate(b), X)
         /\ claimAsyncWorkUpdate(b).st = b.st /\ claimAsyncWorkUpdate(b).why = b.why
         /\ claimAsyncWorkUpdate(b).ask = b.ask
  <1>1. \A k \in DOMAIN b.works : DOMAIN b.works[k] = WorkFields /\ b.works[k].open \in BOOLEAN
    BY DEF Block
  <1> DEFINE all == isActiveAsyncWorkComplete(b)
             new == Undelivered(b)
  <1>2. PICK w : w = [i \in DOMAIN b.works |->
                        IF i \notin Open(b) THEN b.works[i]
                        ELSE [b.works[i] EXCEPT
                                !.told = IF i \in new /\ Finished(b.works[i]) THEN @ + 1 ELSE @,
                                !.seen = @ \/ (i \in new /\ Blocking(b.works[i])),
                                !.open = ~all]]
    OBVIOUS
  <1>3. PICK d : d = [b EXCEPT !.due = FALSE]
    OBVIOUS
  <1>4. PICK c : c = [d EXCEPT !.works = w]
    OBVIOUS
  <1>5. claimAsyncWorkUpdate(b) = appendContext(c)
    BY <1>2, <1>3, <1>4 DEF claimAsyncWorkUpdate
  <1>6. /\ DOMAIN d = BlockFields /\ d.st = b.st /\ d.why = b.why /\ d.ask = b.ask /\ d.works = b.works
        /\ d.graph = b.graph
    BY <1>3 DEF Block, BlockFields
  <1>7. Milder(b, d, X) /\ Block(d)
    BY <1>6, FieldMild DEF Block, Milder
  <1>8. DOMAIN w = DOMAIN b.works
    BY <1>2
  <1>9. ASSUME NEW i \in DOMAIN w
        PROVE  /\ DOMAIN w[i] = WorkFields
               /\ w[i].open = b.works[i].open \/ (i \in Open(b) /\ w[i].open = ~all)
               /\ w[i].st = b.works[i].st /\ w[i].ref = b.works[i].ref
    <2>1. CASE i \notin Open(b)
      BY <1>1, <1>2, <1>8, <2>1
    <2>2. CASE i \in Open(b)
      <3>1. PICK x : x = b.works[i]
        OBVIOUS
      <3>2. DOMAIN x = WorkFields
        BY <1>1, <1>8, <3>1
      <3>3. PICK told, seen, now : now = ~all /\ w[i] = [x EXCEPT !.told = told, !.seen = seen, !.open = now]
        BY <1>2, <1>8, <2>2, <3>1, Zenon
      <3>4. /\ DOMAIN w[i] = WorkFields /\ w[i].open = now
            /\ w[i].st = x.st /\ w[i].ref = x.ref
        BY <3>2, <3>3 DEF WorkFields
      <3> QED BY <2>2, <3>1, <3>3, <3>4
    <2> QED BY <2>1, <2>2
  <1>10. all \in BOOLEAN
    BY DEF isActiveAsyncWorkComplete
  <1>11. \A k : Completable(b, k) => ~all /\ k \in DOMAIN b.works /\ b.works[k].open /\ ~Finished(b.works[k])
    BY DEF Completable, Open, isActiveAsyncWorkComplete
  <1> HIDE DEF all, new
  <1>12. ASSUME NEW i \in DOMAIN w
         PROVE  /\ DOMAIN w[i] = WorkFields /\ w[i].open \in BOOLEAN
                /\ Blocking(w[i]) => Blocking(d.works[i]) /\ w[i].ref = d.works[i].ref
                /\ i \notin X /\ Completable(d, i) => w[i].open /\ ~Finished(w[i])
    <2>1. DOMAIN w[i] = WorkFields /\ w[i].open \in BOOLEAN
      BY <1>1, <1>8, <1>9, <1>10
    <2>2. Blocking(w[i]) => Blocking(d.works[i]) /\ w[i].ref = d.works[i].ref
      BY <1>6, <1>9 DEF Blocking
    <2>3. Completable(d, i) => Completable(b, i)
      BY <1>6 DEF Completable, Open
    <2>4. Completable(b, i) => w[i].open /\ ~Finished(w[i])
      BY <1>9, <1>11 DEF Finished
    <2> QED BY <2>1, <2>2, <2>3, <2>4
  <1>13. Milder(d, c, X) /\ c.st = d.st /\ c.why = d.why /\ c.ask = d.ask
    BY <1>4, <1>6, <1>7, <1>8, <1>12, WorksMild
  <1>14. Block(c)
    BY <1>13 DEF Milder
  <1>15. /\ Milder(c, appendContext(c), X) /\ appendContext(c).st = c.st /\ appendContext(c).why = c.why
         /\ appendContext(c).ask = c.ask
    BY <1>14, ContextMild
  <1> QED BY <1>5, <1>6, <1>7, <1>13, <1>15, MilderThen

\* A pending request is denied when its task ends.
LEMMA DenyMild ==
  ASSUME NEW b, Block(b), NEW X
  PROVE  /\ Milder(b, denyPendingCapabilityRequests(b), X)
         /\ denyPendingCapabilityRequests(b).st = b.st /\ denyPendingCapabilityRequests(b).works = b.works
         /\ b.ask = NoAsk => denyPendingCapabilityRequests(b).ask = NoAsk
  <1>1. CASE ~Pending(b)
    BY <1>1, MilderSelf DEF denyPendingCapabilityRequests
  <1>2. CASE Pending(b)
    <2>1. PICK c : c = denyPendingCapabilityRequests(b)
      OBVIOUS
    <2>2. /\ DOMAIN c = BlockFields /\ c.st = b.st /\ c.works = b.works /\ c.graph = b.graph
          /\ DOMAIN c.ask = AskFields /\ c.ask.n = b.ask.n /\ c.ask.path = b.ask.path /\ c.ask.hop = b.ask.hop
      BY <1>2, <2>1 DEF denyPendingCapabilityRequests, Block, BlockFields, AskOK, AskFields
    <2>3. AskOK(c.ask)
      BY <2>2 DEF Block, AskOK
    <2>4. Block(c)
      BY <2>2, <2>3 DEF Block
    <2>5. Milder(b, c, X)
      BY <2>2, <2>4 DEF Milder, Marks, Completable, Open
    <2>6. b.ask # NoAsk
      BY <1>2 DEF Pending, NoAsk
    <2> QED BY <2>1, <2>2, <2>5, <2>6
  <1> QED BY <1>1, <1>2

----------------------------------------------------------------------------
(* The records that the operators make, field by field *)

\* The basic writes touch one field.
LEMMA Shapes ==
  ASSUME NEW s, DOMAIN s = Fields
  PROVE  /\ \A t, b : Is(Put(s, t, b), [s.mem EXCEPT ![t] = b], s.disk, s.queue, s.packing, s.timers,
                         s.wake, s.pool, s.jobs)
         /\ \A t : Is(Persist(s, t), s.mem, [s.disk EXCEPT ![t] = s.mem[t]], s.queue, s.packing, s.timers,
                      s.wake, s.pool, s.jobs)
         /\ \A j, p : Is(Push(s, j, p), s.mem, s.disk, s.queue, s.packing, s.timers, s.wake, s.pool,
                         [s.jobs EXCEPT ![j] = p \o @])
         /\ \A j : Is(Pop(s, j), s.mem, s.disk, s.queue, s.packing, s.timers, s.wake, s.pool,
                      [s.jobs EXCEPT ![j] = Tail(@)])
  <1>1. ASSUME NEW t, NEW b
        PROVE  Is(Put(s, t, b), [s.mem EXCEPT ![t] = b], s.disk, s.queue, s.packing, s.timers,
                         s.wake, s.pool, s.jobs)
    BY DEF Is, Fields, Put
  <1>2. ASSUME NEW t
        PROVE  Is(Persist(s, t), s.mem, [s.disk EXCEPT ![t] = s.mem[t]], s.queue, s.packing, s.timers,
                      s.wake, s.pool, s.jobs)
    BY DEF Is, Fields, Persist
  <1>3. ASSUME NEW j, NEW p
        PROVE  Is(Push(s, j, p), s.mem, s.disk, s.queue, s.packing, s.timers, s.wake, s.pool,
                         [s.jobs EXCEPT ![j] = p \o @])
    BY DEF Is, Fields, Push
  <1>4. ASSUME NEW j
        PROVE  Is(Pop(s, j), s.mem, s.disk, s.queue, s.packing, s.timers, s.wake, s.pool,
                      [s.jobs EXCEPT ![j] = Tail(@)])
    BY DEF Is, Fields, Pop
  <1> QED BY <1>1, <1>2, <1>3, <1>4

----------------------------------------------------------------------------
(* Which blocks may take the place of a task *)

\* Nothing under way is going to change the status of the task.
Free(s, t) ==
  /\ s.jobs[ModelJob(t)] = <<>> /\ ~Looped(s, t)
  /\ ~Holds(s, t, TurnJob(t), {"settle", "continue"})
  /\ ~OwnHop(s, TurnJob(t))

LEMMA NatSame ==
  ASSUME NEW x, NEW y, x = y, x \in Nat
  PROVE  x >= y
  OBVIOUS

\* The hop of the request of a block counts what was granted of it.
LEMMA BlockHop ==
  ASSUME NEW b, Block(b)
  PROVE  b.ask.hop \in Nat
  BY DEF Block, AskOK

\* The same status and the same request.
LEMMA FitSame ==
  ASSUME NEW s, NEW ph, NEW L, Inv(s, ph, L), NEW t, Known(s, t), NEW b, NEW X, Milder(s.mem[t], b, X),
         b.st = s.mem[t].st, b.why = s.mem[t].why, b.ask = s.mem[t].ask,
         \A k \in Tasks : Born(s, k) => k \notin X
  PROVE  Fitting(s, {}, t, b)
  <1>1. t \in Tasks /\ Block(s.mem[t]) /\ Block(b) /\ (Live(b) <=> Live(s.mem[t])) /\ (Waits(b) <=> Waits(s.mem[t]))
    BY DEF Inv, Typed, Known, Milder, Live, Waits
  <1>2. b.ask.hop >= s.mem[t].ask.hop
    <2>1. b.ask.hop = s.mem[t].ask.hop /\ b.ask.hop \in Nat
      BY <1>1, BlockHop
    <2> QED BY <2>1, NatSame
  <1>3. \A k \in Tasks : Born(s, k) /\ Completable(s.mem[t], k) => Completable(b, k)
    BY DEF Milder
  <1>4. \A i \in Marks(b) : i \in Marks(s.mem[t]) /\ b.works[i].ref = s.mem[t].works[i].ref
    BY DEF Milder
  <1>5. t \in s.queue \cup s.packing => b.st = "READY"
    BY DEF Inv, Books
  <1>6. HandlesFor(s, t, b)
    <2>1. HandlesFor(s, t, s.mem[t])
      BY <1>1 DEF Inv, Handles, HandlesOf
    <2> QED BY <1>1, <2>1 DEF HandlesFor
  <1>7. \A j \in Jobs : HopAt(s, j, t) =>
       (Pending(b) \/ b.st = "TERMINATED") /\ b.ask.hop = s.mem[t].ask.hop
    BY <1>1 DEF Inv, Asks, AsksOf, Pending
  <1>8. DOMAIN b.works = DOMAIN s.mem[t].works
    BY DEF Milder
  <1> QED BY <1>1, <1>2, <1>3, <1>4, <1>5, <1>6, <1>7, <1>8 DEF Fitting

\* A new status, when the task is free.
LEMMA FitFree ==
  ASSUME NEW s, NEW ph, NEW L, Inv(s, ph, L), NEW t, Known(s, t), NEW b, NEW X, Milder(s.mem[t], b, X),
         Live(s.mem[t]), b.st # "TERMINATED", Free(s, t),
         \A j \in Jobs : HopAt(s, j, t) => Pending(b),
         \A k \in Tasks : Born(s, k) => k \notin X,
         t \in s.queue \cup s.packing => b.st = "READY", NEW K, b.st = "READY" => Late(t) \in K
  PROVE  Fitting(s, K, t, b)
  <1>1. t \in Tasks /\ Block(s.mem[t]) /\ Block(b) /\ Live(b)
    BY BlockFacts DEF Inv, Typed, Known, Milder
  <1>2. b.ask.n = s.mem[t].ask.n /\ b.ask.path = s.mem[t].ask.path /\ b.ask.hop = s.mem[t].ask.hop
    BY DEF Milder
  <1>3. b.ask.hop >= s.mem[t].ask.hop
    <2>1. b.ask.hop = s.mem[t].ask.hop /\ b.ask.hop \in Nat
      BY <1>1, <1>2, BlockHop
    <2> QED BY <2>1, NatSame
  <1>4. \A k \in Tasks : Born(s, k) /\ Completable(s.mem[t], k) => Completable(b, k)
    BY DEF Milder
  <1>5. \A i \in Marks(b) : i \in Marks(s.mem[t]) /\ b.works[i].ref = s.mem[t].works[i].ref
    BY DEF Milder
  <1>6. HandlesFor(s, t, b)
    <2>1. HandlesFor(s, t, s.mem[t])
      BY <1>1 DEF Inv, Handles, HandlesOf
    <2>2. ~Holds(s, t, TurnJob(t), {"continue"}) /\ ~Holds(s, t, TurnJob(t), {"settle"})
      BY DEF Free, Holds
    <2> QED BY <2>1, <2>2 DEF HandlesFor, Free
  <1>7. ~Holds(s, t, TurnJob(t), {"settle"})
    BY DEF Free, Holds
  <1>8. DOMAIN b.works = DOMAIN s.mem[t].works
    BY DEF Milder
  <1> QED BY <1>1, <1>2, <1>3, <1>4, <1>5, <1>6, <1>7, <1>8 DEF Fitting

\* r is s but for the block of t.
Replaced(s, t, b, r) ==
  /\ r.mem[t] = b /\ \A x \in Tasks : x # t => r.mem[x] = s.mem[x]
  /\ r.jobs = s.jobs /\ r.queue = s.queue /\ r.packing = s.packing
  /\ r.timers = s.timers /\ r.wake = s.wake

\* One block takes the place of another.
LEMMA OnePut ==
  ASSUME NEW s, NEW ph, NEW L, Inv(s, ph, L), NEW t, NEW K, L \subseteq K, NEW b, Fitting(s, K, t, b)
  PROVE  /\ Inv(Put(s, t, b), ph, K) /\ Replaced(s, t, b, Put(s, t, b))
         /\ \A x \in Tasks : Known(Put(s, t, b), x) <=> Known(s, x)
  <1>1. PICK r : r = Put(s, t, b)
    OBVIOUS
  <1>2. DOMAIN s = Fields /\ t \in Tasks /\ DOMAIN s.mem = Tasks /\ s.mem[t] # NoTask
    BY DEF Inv, Typed, Fields, Fitting, Known
  <1>3. Is(r, [s.mem EXCEPT ![t] = b], s.disk, s.queue, s.packing, s.timers, s.wake, s.pool, s.jobs)
    BY <1>1, <1>2, Shapes
  <1> DEFINE m == [s.mem EXCEPT ![t] = b]
  <1>4. DOMAIN m = Tasks /\ m[t] = b /\ \A x \in Tasks : m[x] = s.mem[x] \/ x = t
    BY <1>2
  <1>5. \A x \in Tasks : m[x] = s.mem[x] \/ Fitting(s, K, x, m[x])
    BY <1>4
  <1>6. Inv(r, ph, K)
    <2> HIDE DEF m
    <2> QED BY <1>3, <1>4, <1>5, Puts DEF m
  <1>7. r.mem = m /\ r.jobs = s.jobs
    BY <1>3 DEF Is
  <1>8. b # NoTask
    BY BlockFacts DEF Fitting
  <1>9. \A x \in Tasks : Known(r, x) <=> Known(s, x)
    BY <1>2, <1>4, <1>7, <1>8 DEF Known, Born, Holds, Held
  <1>10. Replaced(s, t, b, r)
    BY <1>3, <1>4 DEF Is, Replaced
  <1> QED BY <1>1, <1>6, <1>9, <1>10

\* A task that is READY, or waits for work, is free.
LEMMA IdleFree ==
  ASSUME NEW s, NEW ph, NEW L, Inv(s, ph, L), NEW t \in Tasks, s.mem[t] # NoTask,
         s.mem[t].st = "READY" \/ (s.mem[t].st = "BLOCKED" /\ s.mem[t].why = "work")
  PROVE  Free(s, t) /\ ~Hot(s, t) /\ \A j \in Jobs : HopAt(s, j, t) => Pending(s.mem[t])
  <1>1. HandlesFor(s, t, s.mem[t]) /\ ~Waits(s.mem[t]) /\ s.mem[t].st \notin {"RUNNING", "TERMINATED"}
    BY DEF Inv, Handles, HandlesOf, Waits
  <1>2. Free(s, t)
    BY <1>1 DEF HandlesFor, Free, Holds
  <1>3. \A j \in Jobs : HopAt(s, j, t) => Pending(s.mem[t])
    BY <1>1 DEF Inv, Asks, AsksOf
  <1>4. ~Hot(s, t)
    <2>1. SUFFICES ASSUME NEW f \in Held(s, TurnJob(t)), f.op \in {"settle", "publish", "advance", "continue"}
                   PROVE FALSE
      BY DEF Hot
    <2>2. TurnJob(t) \in Jobs /\ TurnJob(t)[2] = t /\ TurnJob(t)[1] = "turn"
      BY JobFacts
    <2>3. PICK q : q = s.jobs[TurnJob(t)]
      OBVIOUS
    <2>4. StackOK(q, TurnJob(t), ph) /\ f \in ToSet(q)
      BY <2>2, <2>3 DEF Inv, Stacks, Held
    <2>5. PICK i \in 1 .. Len(q) : q[i] = f
      BY <2>4, StackFacts DEF StackOK
    <2>6. DOMAIN q = 1 .. Len(q) /\ FrameFits(q, i, TurnJob(t), ph)
      BY <2>4, <2>5, StackFacts DEF StackOK
    <2>10. f.op \notin {"settle", "continue"}
      <3>1. f.op \in {"settle", "continue"} => f.t = t
        BY <2>2, <2>5, <2>6 DEF FrameFits
      <3> QED BY <1>2, <2>1, <3>1 DEF Free, Holds
    <2>7. i = 1 /\ (\/ Len(q) = 1 /\ f.op = "publish"
                    \/ Len(q) = 2 /\ q[2].op = "continue")
      BY <2>1, <2>5, <2>6, <2>10 DEF FrameFits, Heads
    <2>8. CASE Len(q) = 1 /\ f.op = "publish"
      BY <1>2, <2>1, <2>3, <2>5, <2>7, <2>8 DEF Free, OwnHop
    <2>9. CASE Len(q) = 2 /\ q[2].op = "continue"
      <3>1. 2 \in 1 .. Len(q) /\ FrameFits(q, 2, TurnJob(t), ph) /\ q[2] \in ToSet(q)
        BY <2>4, <2>9, StackFacts DEF StackOK
      <3>2. q[2].t = t
        BY <2>2, <2>9, <3>1 DEF FrameFits
      <3> QED BY <1>2, <2>3, <2>9, <3>1, <3>2 DEF Free, Holds, Held
    <2> QED BY <2>7, <2>8, <2>9
  <1> QED BY <1>2, <1>3, <1>4

\* The tasks of which the invariant still has something to say.
LEMMA Smaller ==
  ASSUME NEW s, NEW ph, NEW L, Inv(s, ph, L), NEW K,
         \A k \in Tasks :
           /\ s.mem[k].st = "READY" /\ Late(k) \in L => Late(k) \in K \/ ListedTask(s, k)
           /\ Stray(s, k) /\ Lone(k) \in L => Lone(k) \in K \/
                \E j \in Jobs : \E f \in Held(s, j) : f.op = "cancel" /\ k \in ToSet(f.x)
  PROVE  Inv(s, ph, K)
  <1>1. Listed(s, K)
    BY DEF Inv, Listed
  <1>2. Orphans(s, K)
    BY DEF Inv, Orphans, Stray
  <1> QED BY <1>1, <1>2 DEF Inv

----------------------------------------------------------------------------
(* The end of a task *)

\* A live task that may end, and the block that it ends with.
Mortal(s, t) == t \in Tasks /\ Live(s.mem[t]) /\ (Known(s, t) \/ (Born(s, t) /\ ~Live(s.mem[Parent[t]])))

Final(s, t, b) ==
  /\ Milder(s.mem[t], b, {}) /\ b.st = "TERMINATED"
  /\ Born(s, t) => b.works = <<>> /\ b.ask = NoAsk

\* What is left to do after the end of t.
Left(s, t, L, K) ==
  /\ \A k \in L : k \in K \/ k = Late(t) \/ k = Lone(t)
  /\ \A k \in s.pool.live : Parent[k] = t => Lone(k) \in K

\* A task ends: its block, its slot and its places in the lists.  Its children are left
\* to be cancelled.
Buried(s, t, b, r) ==
  /\ DOMAIN r = Fields /\ r.mem = [s.mem EXCEPT ![t] = b] /\ r.disk = s.disk /\ r.jobs = s.jobs
  /\ r.queue = s.queue \ {t} /\ r.packing = s.packing \ {t}
  /\ r.timers = s.timers \ {t} /\ r.wake = s.wake \ {t} /\ r.pool = release(s.pool, t)

LEMMA Ends ==
  ASSUME NEW s, NEW ph, NEW L, Inv(s, ph, L), NEW t, Mortal(s, t), NEW b, Final(s, t, b),
         NEW K, Left(s, t, L, K), NEW r, Buried(s, t, b, r)
  PROVE  Inv(r, ph, K) /\ \A x \in Tasks : Known(r, x) <=> Known(s, x)
  <1> t \in Tasks
    BY DEF Mortal
  <1> /\ Live(s.mem[t]) /\ (Known(s, t) \/ (Born(s, t) /\ ~Live(s.mem[Parent[t]])))
      /\ Milder(s.mem[t], b, {}) /\ b.st = "TERMINATED" /\ (Born(s, t) => b.works = <<>> /\ b.ask = NoAsk)
      /\ (\A k \in L : k \in K \/ k = Late(t) \/ k = Lone(t))
      /\ (\A k \in s.pool.live : Parent[k] = t => Lone(k) \in K)
    BY DEF Mortal, Final, Left
  <1>a. PICK m : m = [s.mem EXCEPT ![t] = b]
    OBVIOUS
  <1>1. /\ r.mem = m /\ r.disk = s.disk /\ r.queue = s.queue \ {t} /\ r.packing = s.packing \ {t}
        /\ r.timers = s.timers \ {t} /\ r.wake = s.wake \ {t} /\ r.pool = release(s.pool, t) /\ r.jobs = s.jobs
        /\ DOMAIN r = Fields
    BY <1>a DEF Buried
  <1>0. /\ DOMAIN s.mem = Tasks /\ s.mem[t] # NoTask /\ Block(s.mem[t])
        /\ \A x \in Tasks : s.mem[x] = NoTask \/ Block(s.mem[x])
    BY NoTaskFacts DEF Inv, Typed
  <1>m. DOMAIN m = Tasks /\ m[t] = b /\ \A x \in Tasks : x # t => m[x] = s.mem[x]
    BY <1>0, <1>a
  <1>b. /\ Block(b) /\ b # NoTask /\ ~Live(b) /\ b.st = "TERMINATED"
        /\ b.ask.n = s.mem[t].ask.n /\ b.ask.path = s.mem[t].ask.path /\ b.ask.hop = s.mem[t].ask.hop
        /\ \A i \in Marks(b) : i \in Marks(s.mem[t]) /\ b.works[i].ref = s.mem[t].works[i].ref
    BY BlockFacts DEF Milder
  <1>2. \A i, k, ops : Holds(r, k, i, ops) <=> Holds(s, k, i, ops)
    BY <1>1 DEF Holds, Held
  <1>3. \A k : Born(r, k) <=> Born(s, k)
    BY <1>2 DEF Born
  <1>4. \A x \in Tasks : m[x] = NoTask <=> s.mem[x] = NoTask
    BY <1>0, <1>b, <1>m
  <1>5. \A x : Known(r, x) <=> Known(s, x)
    BY <1>1, <1>3, <1>4 DEF Known
  <1>6. Typed(r)
    <2>1. DOMAIN r.pool = {"live", "spawned"}
      BY <1>1 DEF Inv, Typed, release
    <2>2. /\ DOMAIN s.disk = Tasks /\ DOMAIN s.jobs = Jobs
          /\ \A x \in Tasks : /\ s.disk[x] = NoTask \/ Block(s.disk[x])
                              /\ Owned(x, s.mem[x]) /\ Owned(x, s.disk[x])
      BY DEF Inv, Typed
    <2>3. DOMAIN b.works = DOMAIN s.mem[t].works
      BY DEF Milder
    <2>4. Owned(t, b)
      BY <1>0, <1>b, <2>2, <2>3, OwnedSame
    <2> QED BY <1>0, <1>1, <1>b, <1>m, <2>1, <2>2, <2>4 DEF Typed, Fields
  <1>7. Stacks(r, ph)
    BY <1>1 DEF Inv, Stacks
  <1>8. FramesKnown(r)
    <2>1. SUFFICES ASSUME NEW i \in Jobs, NEW f \in Held(s, i) PROVE FrameKnown(r, f)
      BY <1>1 DEF FramesKnown, Held
    <2>2. FrameKnown(s, f)
      BY DEF Inv, FramesKnown
    <2>3. \A x \in Tasks : s.mem[x].st \in {"TERMINATED", "none"} => r.mem[x].st = s.mem[x].st
      <3>1. s.mem[t].st # "none"
        BY <1>0, BlockFacts
      <3> QED BY <1>1, <1>b, <1>m, <3>1
    <2> QED BY <1>5, <2>2, <2>3, FrameStays
  <1>9. ListsKnown(r)
    BY <1>1, <1>5 DEF Inv, ListsKnown
  <1>10. Family(r, ph)
    <2>1. SUFFICES ASSUME NEW x \in Tasks
                   PROVE  /\ r.mem[x] # NoTask /\ Parent[x] # Orphan => Known(r, Parent[x])
                          /\ r.disk[x] # NoTask /\ Parent[x] # Orphan => r.disk[Parent[x]] # NoTask
                          /\ ph # "down" /\ r.disk[x] # NoTask /\ r.mem[x] = NoTask =>
                               Parent[x] # Orphan /\ ~Live(r.mem[Parent[x]])
      BY DEF Family
    <2>2. Parent[x] # Orphan => Parent[x] \in Tasks
      BY TaskAssumption
    <2> QED BY <1>1, <1>4, <1>5, <1>b, <1>m, <2>2 DEF Inv, Family
  <1>11. Newborns(r)
    <2>1. SUFFICES ASSUME NEW i \in Jobs, NEW f \in Held(s, i), f.op \in Sends
                   PROVE  NewbornFits(r, f) /\ \A j \in Jobs : Holds(r, f.t, j, Sends) => j = i
      BY <1>1 DEF Newborns, Held
    <2>2. NewbornFits(s, f) /\ \A j \in Jobs : Holds(s, f.t, j, Sends) => j = i
      BY <2>1 DEF Inv, Newborns
    <2>3. Born(s, f.t) /\ f.t \in Tasks /\ Parent[f.t] \in Tasks
      BY <2>1, <2>2, TaskAssumption DEF Born, Holds, NewbornFits
    <2>4. CASE f.t = t
      <3>1. ~Live(s.mem[Parent[t]]) /\ b.works = <<>> /\ b.ask = NoAsk
        BY <2>3, <2>4 DEF Known
      <3>2. ~Live(m[Parent[t]])
        BY <1>b, <1>m, <2>3, <2>4, <3>1
      <3> QED BY <1>1, <1>b, <1>m, <1>2, <2>2, <2>4, <3>1, <3>2 DEF NewbornFits
    <2>5. CASE f.t # t
      <3>1. m[f.t] = s.mem[f.t]
        BY <1>m, <2>3, <2>5
      <3>2. Live(m[Parent[f.t]]) => m[Parent[f.t]] = s.mem[Parent[f.t]]
        BY <1>b, <1>m, <2>3
      <3> QED BY <1>1, <1>2, <2>2, <3>1, <3>2 DEF NewbornFits
    <2> QED BY <2>4, <2>5
  <1>12. Saved(r, ph)
    <2>1. SUFFICES ASSUME ph # "down", NEW x \in Tasks, Known(s, x)
                   PROVE  /\ s.disk[x] # NoTask
                          /\ s.disk[x].ask.n = m[x].ask.n /\ s.disk[x].ask.path = m[x].ask.path
                          /\ s.disk[x].ask.hop <= m[x].ask.hop
      BY <1>1, <1>5 DEF Saved
    <2>2. /\ s.disk[x] # NoTask
          /\ s.disk[x].ask.n = s.mem[x].ask.n /\ s.disk[x].ask.path = s.mem[x].ask.path
          /\ s.disk[x].ask.hop <= s.mem[x].ask.hop
      BY <2>1 DEF Inv, Saved
    <2>3. m[x].ask.n = s.mem[x].ask.n /\ m[x].ask.path = s.mem[x].ask.path /\ m[x].ask.hop = s.mem[x].ask.hop
      BY <1>b, <1>m
    <2> QED BY <2>2, <2>3
  <1>13. Books(r)
    <2>1. release(s.pool, t).live = s.pool.live \ {t}
      BY DEF Inv, Typed, release
    <2>2. s.pool.live = {x \in Tasks : Live(s.mem[x])}
      BY DEF Inv, Books
    <2>3. s.pool.live \ {t} = {x \in Tasks : Live(m[x])}
      BY <1>b, <1>m, <2>2
    <2>4. \A x \in (s.queue \ {t}) \cup (s.packing \ {t}) : m[x].st = "READY"
      BY <1>m DEF Inv, Books, ListsKnown, Known
    <2> QED BY <1>1, <2>1, <2>3, <2>4 DEF Inv, Books
  <1>14. Listed(r, K)
    <2>1. SUFFICES ASSUME NEW x \in Tasks, m[x].st = "READY", Late(x) \notin K PROVE ListedTask(r, x)
      BY <1>1 DEF Listed
    <2>2. x # t /\ s.mem[x].st = "READY" /\ Late(x) \notin L
      BY <1>b, <1>m, <2>1 DEF Late, Lone
    <2>3. ListedTask(s, x)
      BY <2>2 DEF Inv, Listed
    <2> QED BY <1>1, <1>2, <1>3, <2>2, <2>3 DEF ListedTask
  <1>15. Handles(r)
    <2>1. SUFFICES ASSUME NEW x \in Tasks PROVE HandlesFor(r, x, m[x])
      BY <1>1 DEF Handles, HandlesOf
    <2>2. HandlesFor(s, x, s.mem[x])
      BY DEF Inv, Handles, HandlesOf
    <2>3. HandlesFor(s, x, m[x])
      BY <1>b, <1>m, <2>2 DEF HandlesFor
    <2> QED BY <1>1, <1>2, <2>3 DEF HandlesFor, Hot, Looped, InLoop, OwnHop, Held
  <1>16. \A c \in Tasks : m[c].ask.n = s.mem[c].ask.n /\ m[c].ask.path = s.mem[c].ask.path
                          /\ m[c].ask.hop = s.mem[c].ask.hop
    BY <1>b, <1>m
  <1>17. \A p \in Tasks : s.mem[p] # NoTask =>
           \A i \in Marks(m[p]) : i \in Marks(s.mem[p]) /\ m[p].works[i].ref = s.mem[p].works[i].ref
    BY <1>b, <1>m
  <1>18. \A i, c : HopAt(r, i, c) <=> HopAt(s, i, c)
    BY <1>1 DEF HopAt
  <1>19. Asks(r)
    <2>1. SUFFICES ASSUME NEW c \in Tasks PROVE AsksOf(r, c)
      BY DEF Asks
    <2>2. AsksOf(s, c)
      BY DEF Inv, Asks
    <2>3. Unmarked(s, c) => Unmarked(r, c)
      BY <1>1, <1>4, <1>16, <1>17 DEF Unmarked
    <2>4. Waits(m[c]) => Waits(s.mem[c])
      BY <1>b, <1>m DEF Waits
    <2>5. (Pending(s.mem[c]) \/ s.mem[c].st = "TERMINATED") => (Pending(m[c]) \/ m[c].st = "TERMINATED")
      BY <1>b, <1>m
    <2>6. \A j : OwnHop(r, j) <=> OwnHop(s, j)
      BY <1>1 DEF OwnHop
    <2> QED BY <1>1, <1>2, <1>16, <1>18, <2>2, <2>3, <2>4, <2>5, <2>6 DEF AsksOf
  <1>20. Told(r)
    <2>1. SUFFICES ASSUME NEW p \in Tasks
                   PROVE  /\ r.disk[p] # NoTask => \A i \in Marks(r.disk[p]) : MarkOK(r, p, i, r.disk[p].works[i].ref)
                          /\ r.mem[p] # NoTask => \A i \in Marks(r.mem[p]) :
                               /\ MarkOK(r, p, i, r.mem[p].works[i].ref)
                               /\ \A c \in Tasks : \A j \in Jobs :
                                    HopAt(r, j, c) /\ r.mem[p].works[i].ref = <<c, r.mem[c].ask.n>> => EarlierHop(r, p, i, c)
      BY DEF Told
    <2>2. \A i, ref : MarkOK(s, p, i, ref) => MarkOK(r, p, i, ref)
      BY <1>1 DEF MarkOK
    <2>3. /\ s.disk[p] # NoTask => \A i \in Marks(s.disk[p]) : MarkOK(s, p, i, s.disk[p].works[i].ref)
          /\ s.mem[p] # NoTask => \A i \in Marks(s.mem[p]) :
                               /\ MarkOK(s, p, i, s.mem[p].works[i].ref)
                               /\ \A c \in Tasks : \A j \in Jobs :
                                    HopAt(s, j, c) /\ s.mem[p].works[i].ref = <<c, s.mem[c].ask.n>> => EarlierHop(s, p, i, c)
      BY DEF Inv, Told
    <2>4. \A c \in Tasks : \A i : EarlierHop(s, p, i, c) => EarlierHop(r, p, i, c)
      BY <1>1, <1>16 DEF EarlierHop
    <2>5. ASSUME m[p] # NoTask, NEW i \in Marks(m[p])
          PROVE  /\ MarkOK(r, p, i, m[p].works[i].ref)
                 /\ \A c \in Tasks : \A j \in Jobs :
                      HopAt(r, j, c) /\ m[p].works[i].ref = <<c, m[c].ask.n>> => EarlierHop(r, p, i, c)
      <3>1. s.mem[p] # NoTask
        BY <1>4, <2>5
      <3>2. i \in Marks(s.mem[p]) /\ m[p].works[i].ref = s.mem[p].works[i].ref
        BY <1>17, <2>5, <3>1
      <3> QED BY <1>16, <1>18, <2>2, <2>3, <2>4, <3>1, <3>2
    <2> QED BY <1>1, <2>2, <2>3, <2>5
  <1>21. Orphans(r, K)
    <2>1. SUFFICES ASSUME NEW k \in Tasks, Live(m[k]), Parent[k] # Orphan, ~Live(m[Parent[k]]), Lone(k) \notin K
                   PROVE  \/ \E j \in Jobs : \E f \in Held(r, j) : f.op = "cancel" /\ k \in ToSet(f.x)
                          \/ Holds(r, k, <<"host">>, {"orphan"})
      BY <1>1 DEF Orphans
    <2>2. Parent[k] \in Tasks /\ k # t /\ Live(s.mem[k])
      BY <1>b, <1>m, <2>1, TaskAssumption
    <2>3. k \in s.pool.live
      BY <2>2 DEF Inv, Books
    <2>4. Parent[k] # t /\ Lone(k) \notin L
      BY <2>1, <2>2, <2>3 DEF Late, Lone
    <2>5. ~Live(s.mem[Parent[k]])
      BY <1>m, <2>1, <2>2, <2>4
    <2>6. \/ \E j \in Jobs : \E f \in Held(s, j) : f.op = "cancel" /\ k \in ToSet(f.x)
          \/ Holds(s, k, <<"host">>, {"orphan"})
      BY <2>1, <2>2, <2>4, <2>5 DEF Inv, Orphans
    <2> QED BY <1>1, <1>2, <2>6 DEF Held
  <1> QED BY <1>5, <1>6, <1>7, <1>8, <1>9, <1>10, <1>11, <1>12, <1>13, <1>14, <1>15, <1>19, <1>20, <1>21 DEF Inv

\* What may happen to the tasks while something ends or is queued: each keeps its status,
\* or goes from a live one to READY or to its end, or is dropped.
Falls(s, r) == \A x \in Tasks :
  /\ s.mem[x] = NoTask => r.mem[x] = NoTask
  /\ s.mem[x] # NoTask =>
       \/ r.mem[x] = NoTask
       \/ r.mem[x].st = s.mem[x].st
       \/ Live(s.mem[x]) /\ r.mem[x].st \in {"READY", "TERMINATED"}

LEMMA FallsSame ==
  ASSUME NEW s, NEW r, r.mem = s.mem
  PROVE  Falls(s, r)
  BY DEF Falls

LEMMA FallsThen ==
  ASSUME NEW s, NEW r, NEW q, Falls(s, r), Falls(r, q)
  PROVE  Falls(s, q)
  <1>1. SUFFICES ASSUME NEW x \in Tasks
                 PROVE  /\ s.mem[x] = NoTask => q.mem[x] = NoTask
                        /\ s.mem[x] # NoTask =>
                             \/ q.mem[x] = NoTask
                             \/ q.mem[x].st = s.mem[x].st
                             \/ Live(s.mem[x]) /\ q.mem[x].st \in {"READY", "TERMINATED"}
    BY DEF Falls
  <1>2. /\ s.mem[x] = NoTask => r.mem[x] = NoTask
        /\ s.mem[x] # NoTask =>
             \/ r.mem[x] = NoTask
             \/ r.mem[x].st = s.mem[x].st
             \/ Live(s.mem[x]) /\ r.mem[x].st \in {"READY", "TERMINATED"}
        /\ r.mem[x] = NoTask => q.mem[x] = NoTask
        /\ r.mem[x] # NoTask =>
             \/ q.mem[x] = NoTask
             \/ q.mem[x].st = r.mem[x].st
             \/ Live(r.mem[x]) /\ q.mem[x].st \in {"READY", "TERMINATED"}
    BY DEF Falls
  <1> QED BY <1>2 DEF Live

\* The block of one task changes.
LEMMA FallsOne ==
  ASSUME NEW s, NEW t \in Tasks, s.mem[t] # NoTask, NEW b, NEW r,
         r.mem[t] = b, \A x \in Tasks : x # t => r.mem[x] = s.mem[x],
         b.st = s.mem[t].st \/ (Live(s.mem[t]) /\ b.st \in {"READY", "TERMINATED"})
  PROVE  Falls(s, r)
  BY DEF Falls

\* What is in the stacks after a push.
LEMMA PushHeld ==
  ASSUME NEW s, NEW j \in Jobs, NEW p, IsStack(p), IsStack(s.jobs[j]), NEW r,
         r.jobs[j] = p \o s.jobs[j], \A i \in Jobs : i # j => r.jobs[i] = s.jobs[i],
         \A i \in DOMAIN p : p[i].op \notin Sends
  PROVE  /\ Held(r, j) = ToSet(p) \cup Held(s, j)
         /\ \A k : Born(r, k) <=> Born(s, k)
  <1>1. r.jobs[j] = p \o s.jobs[j] /\ \A i \in Jobs : i # j => r.jobs[i] = s.jobs[i]
    OBVIOUS
  <1>2. Held(r, j) = ToSet(p) \cup Held(s, j)
    BY <1>1, StackOn DEF Held
  <1>3. \A f \in ToSet(p) : f.op \notin Sends
    BY StackFacts
  <1>4. \A i \in Jobs : \A k : Holds(r, k, i, Sends) <=> Holds(s, k, i, Sends)
    BY <1>1, <1>2, <1>3 DEF Holds, Held
  <1> QED BY <1>1, <1>2, <1>4 DEF Born

\* terminateTask.
LEMMA Terminates ==
  ASSUME NEW s, NEW ph, NEW L, Inv(s, ph, L), ph # "down", NEW t, Mortal(s, t), NEW j \in Jobs, j[1] # "model", Loose(s.jobs[j]), NEW kind,
         NEW K, \A k \in L : k \in K \/ k = Late(t) \/ k = Lone(t)
  PROVE  /\ Inv(terminateTask(s, j, t, kind), ph, K)
         /\ Falls(s, terminateTask(s, j, t, kind))
         /\ Loose(terminateTask(s, j, t, kind).jobs[j])
         /\ \A x \in Tasks : Known(terminateTask(s, j, t, kind), x) <=> Known(s, x)
  <1>0. /\ DOMAIN s = Fields /\ DOMAIN s.mem = Tasks /\ DOMAIN s.jobs = Jobs /\ t \in Tasks
        /\ s.mem[t] # NoTask /\ Block(s.mem[t]) /\ s.mem[t].st # "TERMINATED" /\ Live(s.mem[t])
    BY NoTaskFacts, BlockFacts DEF Inv, Typed, Fields, Mortal
  <1> DEFINE kids == childrenOf(s.pool, t)
  <1>1. PICK d : d = denyPendingCapabilityRequests(s.mem[t])
    OBVIOUS
  <1>2. PICK b : b = transition(d, "TERMINATED", kind)
    OBVIOUS
  <1>3. PICK s1 : s1 = [s EXCEPT !.queue = @ \ {t}, !.packing = @ \ {t},
                             !.timers = @ \ {t}, !.wake = @ \ {t},
                             !.pool = release(@, t)]
    OBVIOUS
  <1>4. PICK s2 : s2 = Put(s1, t, b)
    OBVIOUS
  <1>5. PICK s3 : s3 = Persist(s2, t)
    OBVIOUS
  <1>6. PICK p : p = <<Frame("cancel", t, SetToSeq(kids)), Frame("notify", t, <<kind>>)>>
    OBVIOUS
  <1>7. PICK r : r = Push(s3, j, p)
    OBVIOUS
  <1>8. r = terminateTask(s, j, t, kind)
    BY <1>0, <1>1, <1>2, <1>3, <1>4, <1>5, <1>6, <1>7, Zenon DEF terminateTask
  <1>9. Milder(s.mem[t], d, {}) /\ Block(d) /\ d.works = s.mem[t].works /\ (s.mem[t].ask = NoAsk => d.ask = NoAsk)
    <2>1. Milder(s.mem[t], d, {}) /\ d.works = s.mem[t].works /\ (s.mem[t].ask = NoAsk => d.ask = NoAsk)
      BY <1>0, <1>1, DenyMild
    <2> QED BY <2>1 DEF Milder
  <1>10. Milder(d, b, {}) /\ b.st = "TERMINATED" /\ b.ask = d.ask /\ b.works = d.works
    BY <1>2, <1>9, TransitionMild
  <1>11. Milder(s.mem[t], b, {})
    BY <1>9, <1>10, MilderThen
  <1>12. Born(s, t) => b.works = <<>> /\ b.ask = NoAsk
    BY <1>9, <1>10 DEF Born, Holds, Inv, Newborns, NewbornFits
  <1>13. Is(s1, s.mem, s.disk, s.queue \ {t}, s.packing \ {t}, s.timers \ {t}, s.wake \ {t},
            release(s.pool, t), s.jobs)
    BY <1>0, <1>3 DEF Is, Fields
  <1>14. Buried(s, t, b, s2)
    <2>1. DOMAIN s1 = Fields
      BY <1>13 DEF Is
    <2>2. Is(s2, [s1.mem EXCEPT ![t] = b], s1.disk, s1.queue, s1.packing, s1.timers, s1.wake, s1.pool, s1.jobs)
      BY <1>4, <2>1, Shapes
    <2> QED BY <1>13, <2>2 DEF Is, Buried
  <1>18. PICK K2 : K2 = {Lone(k) : k \in kids} \cup K
    OBVIOUS
  <1>15. Left(s, t, L, K2)
    BY <1>18 DEF childrenOf, Left
  <1>16. Final(s, t, b)
    BY <1>10, <1>11, <1>12 DEF Final
  <1>17. kids \subseteq Tasks /\ IsFiniteSet(kids) /\ \A k \in kids : Parent[k] = t
    BY TaskAssumption, FS_Subset DEF childrenOf, Inv, Books
  <1> HIDE DEF kids
  <1>19. Inv(s2, ph, K2) /\ \A x \in Tasks : Known(s2, x) <=> Known(s, x)
    BY <1>14, <1>15, <1>16, Ends
  <1>20. /\ s2.mem = [s.mem EXCEPT ![t] = b] /\ s2.jobs = s.jobs /\ DOMAIN s2 = Fields
         /\ s2.mem[t].st = "TERMINATED" /\ \A x \in Tasks : x # t => s2.mem[x] = s.mem[x]
    BY <1>0, <1>10, <1>14 DEF Buried
  <1>21. Born(s2, t) <=> Born(s, t)
    BY <1>20 DEF Born, Holds, Held
  <1>22. Is(s3, s2.mem, [s2.disk EXCEPT ![t] = s2.mem[t]], s2.queue, s2.packing, s2.timers,
                   s2.wake, s2.pool, s2.jobs)
    BY <1>5, <1>20, Shapes
  <1>23. Inv(s3, ph, K2)
    BY <1>19, <1>20, <1>21, <1>22, Writes DEF Mortal
  <1>24. s3.mem = s2.mem /\ s3.jobs = s.jobs /\ DOMAIN s3 = Fields
    BY <1>20, <1>22 DEF Is
  <1>25. ToSet(SetToSeq(kids)) = kids
    BY <1>17, Listing
  <1>26. PICK x : x = SetToSeq(kids)
    OBVIOUS
  <1>27. p = <<Frame("cancel", t, x), Frame("notify", t, <<kind>>)>>
    BY <1>6, <1>26
  <1>28. IsStack(p) /\ Len(p) = 2 /\ DOMAIN p = 1 .. 2
    <2>1. p \in Seq({p[1], p[2]}) /\ Len(p) = 2
      BY <1>27
    <2>2. ToSet(p) = {p[1], p[2]}
      BY <2>1 DEF ToSet
    <2> QED BY <2>1, <2>2 DEF IsStack
  <1>29. \A i \in DOMAIN p : p[i].op \in Casc /\ FrameKnown(s3, p[i])
    <2>1. /\ p[1].op = "cancel" /\ p[1].t = t /\ p[1].x = x
          /\ p[2].op = "notify" /\ p[2].t = t
      BY <1>27 DEF Frame
    <2>2. s3.mem[t].st = "TERMINATED"
      BY <1>20, <1>24
    <2>3. FrameKnown(s3, p[1])
      BY <1>0, <1>17, <1>25, <1>26, <2>1, <2>2 DEF FrameKnown, Nameless, Over
    <2>4. FrameKnown(s3, p[2])
      BY <1>0, <2>1, <2>2 DEF FrameKnown, Nameless, Over
    <2> QED BY <1>28, <2>1, <2>3, <2>4 DEF Casc
  <1>30. j[1] \in {"turn", "loop", "host", "timer", "call"}
    BY JobFacts
  <1>31. StackOK(p, j, ph)
    BY <1>28, <1>29, <1>30, CascStack
  <1>32. Is(r, s3.mem, s3.disk, s3.queue, s3.packing, s3.timers, s3.wake, s3.pool,
                   [s3.jobs EXCEPT ![j] = p \o @])
    BY <1>7, <1>24, Shapes
  <1>33. Inv(r, ph, K2)
    BY <1>23, <1>24, <1>29, <1>31, <1>32, PushPlain DEF Plain
  <1>34. /\ r.mem = s2.mem /\ r.jobs = [s.jobs EXCEPT ![j] = p \o @] /\ r.jobs[j] = p \o s.jobs[j]
         /\ \A i \in Jobs : i # j => r.jobs[i] = s.jobs[i]
    BY <1>0, <1>24, <1>32 DEF Is
  <1>35. IsStack(s.jobs[j])
    BY DEF Inv, Stacks, StackOK
  <1>36. /\ Held(r, j) = ToSet(p) \cup Held(s, j) /\ (p \o s.jobs[j])[1] = p[1] /\ p[1] \in ToSet(p)
    BY <1>28, <1>34, <1>35, StackOn, StackFacts DEF Held
  <1>37. Inv(r, ph, K)
    <2>1. \A k \in Tasks : Lone(k) \in K2 => Lone(k) \in K \/ k \in kids
      BY <1>18 DEF Lone
    <2>2. \A k \in Tasks : Late(k) \in K2 => Late(k) \in K
      BY <1>18 DEF Lone, Late
    <2>3. p[1].op = "cancel" /\ ToSet(p[1].x) = kids
      BY <1>25, <1>26, <1>27 DEF Frame
    <2> QED BY <1>33, <1>36, <2>1, <2>2, <2>3, Smaller
  <1>38. Falls(s, r)
    <2>1. r.mem[t] = b /\ \A x1 \in Tasks : x1 # t => r.mem[x1] = s.mem[x1]
      BY <1>0, <1>20, <1>34
    <2> QED BY <1>0, <1>10, <2>1, FallsOne
  <1>39. Loose(r.jobs[j])
    <2>1. p[1].op = "cancel"
      BY <1>27 DEF Frame
    <2> QED BY <1>34, <1>36, <2>1 DEF Loose, Heads
  <1>40. \A x1 \in Tasks : Known(r, x1) <=> Known(s, x1)
    <2>1. \A i \in DOMAIN p : p[i].op \notin Sends
      BY <1>29 DEF Casc, Sends
    <2>2. \A k : Born(r, k) <=> Born(s3, k)
      <3>1. /\ r.jobs[j] = p \o s3.jobs[j] /\ IsStack(s3.jobs[j])
            /\ \A i \in Jobs : i # j => r.jobs[i] = s3.jobs[i]
        BY <1>24, <1>34, <1>35
      <3> QED BY <1>28, <2>1, <3>1, PushHeld
    <2>3. \A k : Born(s3, k) <=> Born(s2, k)
      BY <1>20, <1>24 DEF Born, Holds, Held
    <2> QED BY <1>19, <1>34, <2>2, <2>3 DEF Known
  <1> QED BY <1>8, <1>37, <1>38, <1>39, <1>40

----------------------------------------------------------------------------
(* A task is queued again *)

\* The work of L is done but for K, once t is queued or has ended.
Without(L, t, K) == \A k \in L : k \in K \/ k = Late(t)

\* The outcome of a function that job j runs: the invariant, and what its caller relies on.
Outcome(s, r, j, ph, K) ==
  /\ Inv(r, ph, K) /\ Falls(s, r) /\ Loose(r.jobs[j])
  /\ \A x \in Tasks : Known(r, x) <=> Known(s, x)

LEMMA OutcomeThen ==
  ASSUME NEW s, NEW m, NEW r, NEW j, NEW ph, NEW L, NEW K, Outcome(s, m, j, ph, L), Outcome(m, r, j, ph, K)
  PROVE  Outcome(s, r, j, ph, K)
  BY FallsThen DEF Outcome

\* A snapshot is saved.
LEMMA Persists ==
  ASSUME NEW s, NEW ph, NEW L, Inv(s, ph, L), ph # "down", NEW t, Known(s, t), NEW j, Loose(s.jobs[j])
  PROVE  /\ Outcome(s, Persist(s, t), j, ph, L) /\ Persist(s, t).mem = s.mem /\ Persist(s, t).jobs = s.jobs
         /\ Persist(s, t).queue = s.queue /\ Persist(s, t).packing = s.packing
  <1>1. PICK r : r = Persist(s, t)
    OBVIOUS
  <1>2. DOMAIN s = Fields
    BY DEF Inv, Typed, Fields
  <1>3. Is(r, s.mem, [s.disk EXCEPT ![t] = s.mem[t]], s.queue, s.packing, s.timers, s.wake, s.pool, s.jobs)
    BY <1>1, <1>2, Shapes
  <1>4. Inv(r, ph, L)
    BY <1>3, Writes
  <1>5. r.mem = s.mem /\ r.jobs = s.jobs /\ r.queue = s.queue /\ r.packing = s.packing
    BY <1>3 DEF Is
  <1>6. \A x \in Tasks : Known(r, x) <=> Known(s, x)
    BY <1>5 DEF Known, Born, Holds, Held
  <1> QED BY <1>1, <1>4, <1>5, <1>6, FallsSame DEF Outcome

\* prepareTaskForQueue.
LEMMA Prepares ==
  ASSUME NEW s, NEW ph, NEW L, Inv(s, ph, L), ph # "down", NEW t, Known(s, t), s.mem[t].st = "READY",
         NEW j \in Jobs, j[1] # "model", Loose(s.jobs[j]), NEW fit \in Fits, NEW K, Without(L, t, K)
  PROVE  Outcome(s, prepareTaskForQueue(s, j, t, fit), j, ph, K)
  <1>1. PICK r : r = prepareTaskForQueue(s, j, t, fit)
    OBVIOUS
  <1>2. PICK s1 : s1 = [s EXCEPT !.queue = @ \ {t}, !.packing = @ \ {t}]
    OBVIOUS
  <1>3. fit \in {"fits", "packs", "over"}
    BY TaskAssumption
  <1>4. DOMAIN s = Fields /\ t \in Tasks /\ t \notin s.queue \ {t} /\ t \notin s.packing \ {t}
    BY DEF Inv, Typed, Fields, Known
  <1>5. Is(s1, s.mem, s.disk, s.queue \ {t}, s.packing \ {t}, s.timers, s.wake, s.pool, s.jobs)
    BY <1>2, <1>4 DEF Is, Fields
  <1>6. ASSUME NEW qu, NEW pk, Is(r, s.mem, s.disk, qu, pk, s.timers, s.wake, s.pool, s.jobs),
               \/ qu = (s.queue \ {t}) \cup {t} /\ pk = s.packing \ {t}
               \/ qu = s.queue \ {t} /\ pk = (s.packing \ {t}) \cup {t}
        PROVE  Outcome(s, r, j, ph, K)
    <2>1. \A x \in qu \cup pk \cup s.timers \cup s.wake : Known(s, x)
      BY <1>6 DEF Inv, ListsKnown
    <2>2. qu \cap pk = {} /\ \A x \in qu \cup pk : s.mem[x].st = "READY"
      BY <1>6 DEF Inv, Books
    <2>3. \A x \in s.queue \cup s.packing : x \in qu \cup pk
      BY <1>6
    <2>4. Inv(r, ph, L)
      BY <1>6, <2>1, <2>2, <2>3, Lists
    <2>5. r.mem = s.mem /\ r.jobs = s.jobs /\ t \in r.queue \cup r.packing
      BY <1>6 DEF Is
    <2>6. \A k \in Tasks : Late(k) \in L => Late(k) \in K \/ k = t
      BY DEF Without, Late
    <2>7. \A k \in Tasks : Lone(k) \in L => Lone(k) \in K
      BY DEF Without, Late, Lone
    <2>8. Inv(r, ph, K)
      BY <2>4, <2>5, <2>6, <2>7, Smaller DEF ListedTask
    <2>9. \A x \in Tasks : Known(r, x) <=> Known(s, x)
      BY <2>5 DEF Known, Born, Holds, Held
    <2> QED BY <2>5, <2>8, <2>9, FallsSame DEF Outcome
  <1>7. CASE fit = "fits"
    <2>1. r = [s1 EXCEPT !.queue = @ \cup {t}]
      BY <1>1, <1>2, <1>7 DEF prepareTaskForQueue
    <2>2. Is(r, s.mem, s.disk, (s.queue \ {t}) \cup {t}, s.packing \ {t}, s.timers, s.wake, s.pool, s.jobs)
      BY <1>5, <2>1 DEF Is, Fields
    <2> QED BY <1>1, <1>6, <2>2
  <1>8. CASE fit = "packs" /\ ~s.mem[t].packed
    <2>1. r = [s1 EXCEPT !.packing = @ \cup {t}]
      BY <1>1, <1>2, <1>8 DEF prepareTaskForQueue
    <2>2. Is(r, s.mem, s.disk, s.queue \ {t}, (s.packing \ {t}) \cup {t}, s.timers, s.wake, s.pool, s.jobs)
      BY <1>5, <2>1 DEF Is, Fields
    <2> QED BY <1>1, <1>6, <2>2
  <1>9. CASE fit = "over" \/ (fit = "packs" /\ s.mem[t].packed)
    <2>1. r = terminateTask(s1, j, t, "failed")
      BY <1>1, <1>2, <1>9, Zenon DEF prepareTaskForQueue
    <2> DEFINE M == L \cup {Late(t)}
    <2>2. Inv(s1, ph, M)
      <3>1. \A x \in (s.queue \ {t}) \cup (s.packing \ {t}) \cup s.timers \cup s.wake : Known(s, x)
        BY DEF Inv, ListsKnown
      <3>2. /\ (s.queue \ {t}) \cap (s.packing \ {t}) = {}
            /\ \A x \in (s.queue \ {t}) \cup (s.packing \ {t}) : s.mem[x].st = "READY"
        BY DEF Inv, Books
      <3>3. \A x \in s.queue \cup s.packing : x \in (s.queue \ {t}) \cup (s.packing \ {t}) \/ Late(x) \in M
        OBVIOUS
      <3>4. PICK qu, pk : qu = s.queue \ {t} /\ pk = s.packing \ {t}
        OBVIOUS
      <3>5. PICK N : N = M /\ L \subseteq N
        OBVIOUS
      <3> HIDE DEF M
      <3>6. Inv(s1, ph, N)
        BY <1>5, <3>1, <3>2, <3>3, <3>4, <3>5, Lists
      <3> QED BY <3>5, <3>6
    <2>3. s1.mem = s.mem /\ s1.jobs = s.jobs
      BY <1>5 DEF Is
    <2>4. \A x \in Tasks : Known(s1, x) <=> Known(s, x)
      BY <2>3 DEF Known, Born, Holds, Held
    <2>5. Mortal(s1, t)
      BY <1>4, <2>3, <2>4 DEF Mortal, Live
    <2>6. \A k \in M : k \in K \/ k = Late(t) \/ k = Lone(t)
      BY DEF Without
    <2> HIDE DEF M
    <2>7. Outcome(s1, r, j, ph, K)
      BY <2>1, <2>2, <2>3, <2>5, <2>6, Terminates DEF Outcome
    <2>8. Falls(s, s1)
      BY <2>3, FallsSame
    <2>9. Falls(s, r)
      BY <2>7, <2>8, FallsThen DEF Outcome
    <2> QED BY <1>1, <2>4, <2>7, <2>9 DEF Outcome
  <1> QED BY <1>1, <1>3, <1>7, <1>8, <1>9

\* The block that a task is READY with again.
Resumable(s, t, b) ==
  /\ Known(s, t) /\ Live(s.mem[t]) /\ Free(s, t)
  /\ Milder(s.mem[t], b, {})
  /\ \A j \in Jobs : HopAt(s, j, t) => Pending(b)

\* A block takes the place of that of a task that stays as it is, or is free.
LEMMA PutOutcome ==
  ASSUME NEW s, NEW ph, NEW L, Inv(s, ph, L), NEW t, NEW K, L \subseteq K, NEW b, Fitting(s, K, t, b),
         b.st \in {s.mem[t].st, "READY"}, NEW j, Loose(s.jobs[j])
  PROVE  Outcome(s, Put(s, t, b), j, ph, K) /\ Replaced(s, t, b, Put(s, t, b))
  <1>0. /\ Inv(Put(s, t, b), ph, K) /\ Replaced(s, t, b, Put(s, t, b))
        /\ \A x \in Tasks : Known(Put(s, t, b), x) <=> Known(s, x)
    BY OnePut
  <1>1. PICK r : r = Put(s, t, b)
    OBVIOUS
  <1>2. Inv(r, ph, K) /\ Replaced(s, t, b, r) /\ \A x \in Tasks : Known(r, x) <=> Known(s, x)
    BY <1>0, <1>1
  <1>3. DOMAIN s.mem = Tasks /\ t \in Tasks /\ s.mem[t] # NoTask /\ DOMAIN s = Fields /\ Block(s.mem[t]) /\ Block(b)
        /\ (Live(b) <=> Live(s.mem[t]))
    BY DEF Inv, Typed, Fields, Fitting, Known
  <1>4. r.jobs = s.jobs /\ r.mem[t] = b /\ \A x \in Tasks : x # t => r.mem[x] = s.mem[x]
    BY <1>2 DEF Replaced
  <1>5. b.st = s.mem[t].st \/ (Live(s.mem[t]) /\ b.st \in {"READY", "TERMINATED"})
    BY <1>3 DEF Live
  <1>6. Falls(s, r)
    BY <1>3, <1>4, <1>5, FallsOne
  <1> QED BY <1>1, <1>2, <1>4, <1>6 DEF Outcome

\* A free task becomes READY.
LEMMA Readies ==
  ASSUME NEW s, NEW ph, NEW L, Inv(s, ph, L), NEW t, NEW b, Resumable(s, t, b), NEW why,
         NEW j, Loose(s.jobs[j]), NEW c, c = transition(b, "READY", why), NEW r, r = Put(s, t, c)
  PROVE  /\ Outcome(s, r, j, ph, L \cup {Late(t)}) /\ Replaced(s, t, c, r)
         /\ r.mem[t].st = "READY" /\ Known(r, t)
  <1>1. c = transition(b, "READY", why)
    OBVIOUS
  <1>2. Block(b) /\ Milder(s.mem[t], b, {})
    BY DEF Resumable, Milder
  <1>3. Milder(b, c, {}) /\ c.st = "READY" /\ c.ask = b.ask
    BY <1>1, <1>2, TransitionMild
  <1>4. Milder(s.mem[t], c, {})
    BY <1>2, <1>3, MilderThen
  <1>5. PICK K : K = L \cup {Late(t)}
    OBVIOUS
  <1>6. \A i \in Jobs : HopAt(s, i, t) => Pending(c)
    BY <1>3 DEF Resumable, Pending
  <1>7. Known(s, t) /\ Live(s.mem[t]) /\ Free(s, t)
    BY DEF Resumable
  <1>8. Fitting(s, K, t, c)
    BY <1>3, <1>4, <1>5, <1>6, <1>7, FitFree
  <1>9. L \subseteq K
    BY <1>5
  <1>10. c.st \in {s.mem[t].st, "READY"}
    BY <1>3
  <1>11. Outcome(s, r, j, ph, K) /\ Replaced(s, t, c, r)
    BY <1>8, <1>9, <1>10, PutOutcome
  <1>12. Known(r, t)
    BY <1>7, <1>11 DEF Outcome, Known
  <1> QED BY <1>3, <1>5, <1>11, <1>12 DEF Replaced

\* Requeue.
LEMMA Requeues ==
  ASSUME NEW s, NEW ph, NEW L, Inv(s, ph, L), ph # "down", NEW t, NEW b, Resumable(s, t, b),
         NEW j \in Jobs, j[1] # "model", Loose(s.jobs[j]), NEW fit \in Fits, NEW K, Without(L, t, K)
  PROVE  Outcome(s, Requeue(s, j, t, b, fit), j, ph, K)
  <1>0. PICK c : c = transition(b, "READY", "")
    OBVIOUS
  <1>1. PICK s1 : s1 = Put(s, t, c)
    OBVIOUS
  <1>2. PICK s2 : s2 = prepareTaskForQueue(s1, j, t, fit)
    OBVIOUS
  <1>3. Requeue(s, j, t, b, fit) = Persist(s2, t)
    BY <1>0, <1>1, <1>2 DEF Requeue
  <1>4. PICK M : M = L \cup {Late(t)}
    OBVIOUS
  <1>5. Outcome(s, s1, j, ph, M) /\ s1.mem[t].st = "READY" /\ Known(s1, t)
    BY <1>0, <1>1, <1>4, Readies
  <1>6. Without(M, t, K)
    BY <1>4 DEF Without
  <1>7. Inv(s1, ph, M) /\ Loose(s1.jobs[j])
    BY <1>5 DEF Outcome
  <1>8. Outcome(s1, s2, j, ph, K)
    BY <1>2, <1>5, <1>6, <1>7, Prepares
  <1>9. Inv(s2, ph, K) /\ Loose(s2.jobs[j]) /\ Known(s2, t)
    BY <1>5, <1>8 DEF Outcome, Known
  <1>10. Outcome(s2, Persist(s2, t), j, ph, K)
    BY <1>9, Persists
  <1> QED BY <1>3, <1>5, <1>8, <1>10, OutcomeThen

----------------------------------------------------------------------------
(* Timers and the delivery of results *)

\* r is s but for the timers and the tasks to be woken.
Rung(s, r, ti, wk) == Is(r, s.mem, s.disk, s.queue, s.packing, ti, wk, s.pool, s.jobs)

LEMMA Rings ==
  ASSUME NEW s, NEW ph, NEW L, Inv(s, ph, L), NEW ti, NEW wk, \A t \in ti \cup wk : Known(s, t),
         NEW r, Rung(s, r, ti, wk), NEW j, Loose(s.jobs[j])
  PROVE  /\ Outcome(s, r, j, ph, L)
         /\ r.mem = s.mem /\ r.jobs = s.jobs /\ r.queue = s.queue /\ r.packing = s.packing /\ DOMAIN r = Fields
         /\ r.wake = wk /\ r.timers = ti
  <1>1. Is(r, s.mem, s.disk, s.queue, s.packing, ti, wk, s.pool, s.jobs)
    BY DEF Rung
  <1>2. \A t \in s.queue \cup s.packing \cup ti \cup wk : Known(s, t)
    BY DEF Inv, ListsKnown
  <1>3. /\ s.queue \cap s.packing = {} /\ \A t \in s.queue \cup s.packing : s.mem[t].st = "READY"
        /\ \A t \in s.queue \cup s.packing : t \in s.queue \cup s.packing \/ Late(t) \in L
    BY DEF Inv, Books
  <1>4. Inv(r, ph, L)
    BY <1>1, <1>2, <1>3, Lists
  <1>5. /\ r.mem = s.mem /\ r.jobs = s.jobs /\ r.queue = s.queue /\ r.packing = s.packing /\ DOMAIN r = Fields
        /\ r.wake = wk /\ r.timers = ti
    BY <1>1 DEF Is
  <1>6. \A x \in Tasks : Known(r, x) <=> Known(s, x)
    BY <1>5 DEF Known, Born, Holds, Held
  <1> QED BY <1>4, <1>5, <1>6, FallsSame DEF Outcome

\* The blocks of a task that differ in what no invariant speaks of.
Same(a, b) == Block(b) /\ b.st = a.st /\ b.why = a.why /\ b.ask = a.ask /\ b.works = a.works

LEMMA SameFits ==
  ASSUME NEW s, NEW ph, NEW L, Inv(s, ph, L), NEW t, Known(s, t), NEW b, Same(s.mem[t], b), NEW j, Loose(s.jobs[j])
  PROVE  Outcome(s, Put(s, t, b), j, ph, L) /\ Replaced(s, t, b, Put(s, t, b))
  <1>0. Block(s.mem[t])
    BY DEF Known, Inv, Typed
  <1>1. Milder(s.mem[t], b, {})
    BY <1>0, MilderSame DEF Same
  <1>2. b.st = s.mem[t].st /\ b.why = s.mem[t].why /\ b.ask = s.mem[t].ask
    BY DEF Same
  <1>3. Fitting(s, {}, t, b)
    BY <1>1, <1>2, FitSame
  <1>4. Fitting(s, L, t, b)
    BY <1>2, <1>3 DEF Fitting
  <1>5. L \subseteq L /\ b.st \in {s.mem[t].st, "READY"}
    BY <1>2
  <1> QED BY <1>4, <1>5, PutOutcome

\* CancelTimer, and the setting of a timer.
LEMMA DueSame ==
  ASSUME NEW b, Block(b), NEW due
  PROVE  Same(b, [b EXCEPT !.due = due])
  <1>1. PICK c : c = [b EXCEPT !.due = due]
    OBVIOUS
  <1>2. /\ DOMAIN c = BlockFields /\ c.st = b.st /\ c.why = b.why /\ c.ask = b.ask /\ c.works = b.works
        /\ c.graph = b.graph
    BY <1>1 DEF Block, BlockFields
  <1> QED BY <1>1, <1>2 DEF Same, Block

LEMMA CancelsTimer ==
  ASSUME NEW s, NEW ph, NEW L, Inv(s, ph, L), NEW t, Known(s, t), NEW j, Loose(s.jobs[j])
  PROVE  /\ Outcome(s, CancelTimer(s, t), j, ph, L)
         /\ Same(s.mem[t], CancelTimer(s, t).mem[t]) /\ CancelTimer(s, t).jobs = s.jobs
         /\ \A x \in Tasks : x # t => CancelTimer(s, t).mem[x] = s.mem[x]
         /\ CancelTimer(s, t).wake = s.wake
         /\ CancelTimer(s, t).queue = s.queue /\ CancelTimer(s, t).packing = s.packing
  <1>0. DOMAIN s = Fields /\ DOMAIN s.mem = Tasks /\ t \in Tasks /\ Block(s.mem[t])
    BY DEF Inv, Typed, Fields, Known
  <1>1. PICK s1 : s1 = [s EXCEPT !.timers = @ \ {t}]
    OBVIOUS
  <1>2. PICK b : b = [s.mem[t] EXCEPT !.due = FALSE]
    OBVIOUS
  <1>3. PICK r : r = CancelTimer(s, t)
    OBVIOUS
  <1>4. Rung(s, s1, s.timers \ {t}, s.wake)
    BY <1>0, <1>1 DEF Rung, Is, Fields
  <1>5. \A x \in (s.timers \ {t}) \cup s.wake : Known(s, x)
    BY DEF Inv, ListsKnown
  <1>6. PICK ti : ti = s.timers \ {t}
    OBVIOUS
  <1>7. /\ Outcome(s, s1, j, ph, L) /\ s1.mem = s.mem /\ s1.jobs = s.jobs /\ s1.wake = s.wake
        /\ s1.queue = s.queue /\ s1.packing = s.packing
    BY <1>4, <1>5, <1>6, Rings
  <1>8. Same(s.mem[t], b)
    BY <1>0, <1>2, DueSame
  <1>9. r = Put(s1, t, b)
    BY <1>0, <1>1, <1>2, <1>3 DEF CancelTimer, Put, Fields
  <1>10. Inv(s1, ph, L) /\ Known(s1, t) /\ Loose(s1.jobs[j]) /\ Same(s1.mem[t], b)
    BY <1>7, <1>8, <1>0 DEF Outcome
  <1>11. Outcome(s1, r, j, ph, L) /\ Replaced(s1, t, b, r)
    BY <1>9, <1>10, SameFits
  <1>12. Outcome(s, r, j, ph, L)
    BY <1>7, <1>11, OutcomeThen
  <1> QED BY <1>3, <1>7, <1>8, <1>11, <1>12 DEF Replaced

LEMMA SetsTimer ==
  ASSUME NEW s, NEW ph, NEW L, Inv(s, ph, L), NEW t, Known(s, t), NEW j, Loose(s.jobs[j]),
         NEW r, r = [s EXCEPT !.timers = @ \cup {t}, !.mem[t].due = TRUE]
  PROVE  Outcome(s, r, j, ph, L) /\ r.jobs = s.jobs
  <1>0. DOMAIN s = Fields /\ DOMAIN s.mem = Tasks /\ t \in Tasks /\ Block(s.mem[t])
    BY DEF Inv, Typed, Fields, Known
  <1>1. PICK s1 : s1 = [s EXCEPT !.timers = @ \cup {t}]
    OBVIOUS
  <1>2. PICK b : b = [s.mem[t] EXCEPT !.due = TRUE]
    OBVIOUS
  <1>4. Rung(s, s1, s.timers \cup {t}, s.wake)
    BY <1>0, <1>1 DEF Rung, Is, Fields
  <1>5. \A x \in (s.timers \cup {t}) \cup s.wake : Known(s, x)
    BY DEF Inv, ListsKnown
  <1>6. PICK ti : ti = s.timers \cup {t}
    OBVIOUS
  <1>7. Outcome(s, s1, j, ph, L) /\ s1.mem = s.mem /\ s1.jobs = s.jobs
    BY <1>4, <1>5, <1>6, Rings
  <1>8. Same(s.mem[t], b)
    BY <1>0, <1>2, DueSame
  <1>9. r = Put(s1, t, b)
    BY <1>0, <1>1, <1>2 DEF Put, Fields
  <1>10. Inv(s1, ph, L) /\ Known(s1, t) /\ Loose(s1.jobs[j]) /\ Same(s1.mem[t], b)
    BY <1>7, <1>8, <1>0 DEF Outcome
  <1>11. Outcome(s1, r, j, ph, L) /\ Replaced(s1, t, b, r)
    BY <1>9, <1>10, SameFits
  <1>12. Outcome(s, r, j, ph, L)
    BY <1>7, <1>11, OutcomeThen
  <1> QED BY <1>7, <1>11, <1>12 DEF Replaced

\* The blocks that Same relates can do the same.
LEMMA SameMild ==
  ASSUME NEW a, NEW b, Same(a, b), NEW c, Milder(a, c, {})
  PROVE  Milder(b, c, {})
  BY DEF Same, Milder, Marks, Completable, Open

\* The claim of the results of a task that is idle, after its timer was cancelled.
LEMMA Claims ==
  ASSUME NEW s, NEW ph, NEW L, Inv(s, ph, L), NEW p, Known(s, p), Live(s.mem[p]), Free(s, p), NEW b, Same(b, s.mem[p]), Block(b)
  PROVE  Resumable(s, p, claimAsyncWorkUpdate(b))
  <1>1. PICK c : c = claimAsyncWorkUpdate(b)
    OBVIOUS
  <1>2. Milder(b, c, {}) /\ c.ask = b.ask
    BY <1>1, ClaimMild
  <1>3. Milder(s.mem[p], c, {})
    BY <1>2, SameMild
  <1>4. p \in Tasks /\ Block(s.mem[p])
    BY DEF Known, Inv, Typed
  <1>5. \A j \in Jobs : HopAt(s, j, p) => Pending(c)
    <2>1. s.mem[p].st # "TERMINATED"
      BY <1>4, BlockFacts
    <2>2. \A j \in Jobs : HopAt(s, j, p) => Pending(s.mem[p])
      BY <1>4, <2>1 DEF Inv, Asks, AsksOf
    <2> QED BY <1>2, <2>2 DEF Same, Pending
  <1> QED BY <1>1, <1>3, <1>5 DEF Resumable

\* deliverAsyncWorkUpdate.
LEMMA Delivers ==
  ASSUME NEW s, NEW ph, NEW L, Inv(s, ph, L), ph # "down", NEW p, Known(s, p),
         NEW j \in Jobs, j[1] # "model", Loose(s.jobs[j]), NEW fit \in Fits, NEW K, Without(L, p, K),
         L \subseteq K \/ (s.mem[p].st = "READY" /\ hasUndeliveredAsyncWorkResults(s.mem[p]))
  PROVE  Outcome(s, deliverAsyncWorkUpdate(s, j, p, fit), j, ph, K)
  <1>0. DOMAIN s = Fields /\ DOMAIN s.mem = Tasks /\ p \in Tasks /\ Block(s.mem[p])
    BY DEF Inv, Typed, Fields, Known
  <1>1. PICK b : b = s.mem[p]
    OBVIOUS
  <1>2. PICK s1 : s1 = [s EXCEPT !.wake = @ \ {p}]
    OBVIOUS
  <1>3. PICK r : r = deliverAsyncWorkUpdate(s, j, p, fit)
    OBVIOUS
  <1>4. ASSUME L \subseteq K, NEW q, Outcome(s, q, j, ph, L)
        PROVE  Outcome(s, q, j, ph, K)
    <2>1. Inv(q, ph, L) /\ Outcome(s, q, j, ph, L)
      BY <1>4 DEF Outcome
    <2>2. Inv(q, ph, K)
      BY <1>4, <2>1, Smaller
    <2> QED BY <2>1, <2>2 DEF Outcome
  <1>7. PICK wk : wk = s.wake \ {p}
    OBVIOUS
  <1>5. Rung(s, s1, s.timers, wk)
    BY <1>0, <1>2, <1>7 DEF Rung, Is, Fields
  <1>6. \A x \in s.timers \cup wk : Known(s, x)
    BY <1>7 DEF Inv, ListsKnown
  <1>8. Outcome(s, s1, j, ph, L) /\ s1.mem = s.mem /\ s1.jobs = s.jobs
    BY <1>5, <1>6, Rings
  <1>9. Inv(s1, ph, L) /\ Known(s1, p) /\ Loose(s1.jobs[j])
    BY <1>0, <1>8 DEF Outcome
  <1>10. CASE b.st = "TERMINATED"
    <2>1. r = s1
      BY <1>1, <1>2, <1>3, <1>10 DEF deliverAsyncWorkUpdate
    <2> QED BY <1>1, <1>3, <1>4, <1>8, <1>10, <2>1
  <1>11. CASE b.st = "RUNNING" \/ (b.st = "BLOCKED" /\ b.why # "work")
    <2>1. r = [s EXCEPT !.wake = @ \cup {p}]
      BY <1>1, <1>2, <1>3, <1>11 DEF deliverAsyncWorkUpdate
    <2>2. Rung(s, r, s.timers, s.wake \cup {p})
      BY <1>0, <2>1 DEF Rung, Is, Fields
    <2>3. PICK w2 : w2 = s.wake \cup {p}
      OBVIOUS
    <2>4. \A x \in s.timers \cup w2 : Known(s, x)
      BY <2>3 DEF Inv, ListsKnown
    <2>5. Outcome(s, r, j, ph, L)
      BY <2>2, <2>3, <2>4, Rings
    <2> QED BY <1>1, <1>3, <1>4, <1>11, <2>5
  <1>12. CASE b.st = "READY" \/ (b.st = "BLOCKED" /\ b.why = "work")
    <2>0. r = IF Open(b) = {} THEN s1
              ELSE IF ~hasUndeliveredAsyncWorkResults(b) THEN CancelTimer(s1, p)
              ELSE Requeue(CancelTimer(s1, p), j, p, claimAsyncWorkUpdate(b), fit)
      BY <1>1, <1>2, <1>3, <1>12, Zenon DEF deliverAsyncWorkUpdate
    <2>1. hasUndeliveredAsyncWorkResults(b) => Open(b) # {}
      BY DEF hasUndeliveredAsyncWorkResults, Undelivered
    <2>2. PICK s2 : s2 = CancelTimer(s1, p)
      OBVIOUS
    <2>3. Outcome(s1, s2, j, ph, L) /\ Same(s1.mem[p], s2.mem[p]) /\ s2.jobs = s1.jobs
      BY <1>9, <2>2, CancelsTimer
    <2>4. Outcome(s, s2, j, ph, L)
      BY <1>8, <2>3, OutcomeThen
    <2>5. CASE Open(b) = {}
      BY <1>1, <1>3, <1>4, <1>8, <2>0, <2>1, <2>5
    <2>6. CASE Open(b) # {} /\ ~hasUndeliveredAsyncWorkResults(b)
      BY <1>1, <1>3, <1>4, <2>0, <2>2, <2>4, <2>6
    <2>7. CASE hasUndeliveredAsyncWorkResults(b)
      <3>1. r = Requeue(s2, j, p, claimAsyncWorkUpdate(b), fit)
        BY <2>0, <2>1, <2>2, <2>7
      <3>2. Inv(s2, ph, L) /\ Known(s2, p) /\ Loose(s2.jobs[j]) /\ Same(b, s2.mem[p])
        <4>1. Known(s2, p)
          BY <1>0, <1>9, <2>3 DEF Outcome
        <4>2. Inv(s2, ph, L) /\ Loose(s2.jobs[j])
          BY <2>3 DEF Outcome
        <4> QED BY <1>1, <1>8, <2>3, <4>1, <4>2
      <3>3. s2.mem[p] # NoTask /\ (s2.mem[p].st = "READY" \/ (s2.mem[p].st = "BLOCKED" /\ s2.mem[p].why = "work"))
        BY <1>12, <3>2 DEF Same, Known
      <3>4. Free(s2, p) /\ Live(s2.mem[p])
        BY <1>0, <3>2, <3>3, IdleFree DEF Live
      <3>5. Resumable(s2, p, claimAsyncWorkUpdate(b))
        BY <1>0, <1>1, <3>2, <3>4, Claims
      <3>6. Outcome(s2, r, j, ph, K)
        BY <3>1, <3>2, <3>5, Requeues
      <3> QED BY <1>3, <2>4, <3>6, OutcomeThen
    <2> QED BY <2>5, <2>6, <2>7
  <1> QED BY <1>0, <1>1, <1>10, <1>11, <1>12 DEF Block

----------------------------------------------------------------------------
(* The steps of the functions under way *)

\* A frame whose end leaves nothing undone but K.
Spent(s, f, K) ==
  /\ f.op \notin Sends
  /\ f.op = "resume" /\ s.mem[f.t].st = "READY" => Late(f.t) \in K \/ f.t \in s.queue \cup s.packing
  /\ f.op = "cancel" => \A k \in ToSet(f.x) : Live(s.mem[k]) => Lone(k) \in K
  /\ f.op = "orphan" /\ Stray(s, f.t) => Lone(f.t) \in K

\* r is s without the first frame of job j.
Popped(s, r, j) ==
  /\ r.mem = s.mem /\ r.disk = s.disk /\ r.queue = s.queue /\ r.packing = s.packing
  /\ r.timers = s.timers /\ r.wake = s.wake /\ r.pool = s.pool /\ DOMAIN r = Fields
  /\ r.jobs[j] = Tail(s.jobs[j]) /\ \A i \in Jobs : i # j => r.jobs[i] = s.jobs[i]

LEMMA PopShape ==
  ASSUME NEW s, NEW ph, Typed(s), Stacks(s, ph), NEW j \in Jobs, s.jobs[j] # <<>>, NEW r, r = Pop(s, j)
  PROVE  /\ Popped(s, r, j) /\ Loose(r.jobs[j])
         /\ s.jobs[j][1] \in Held(s, j) /\ IsStack(s.jobs[j]) /\ Len(s.jobs[j]) \in Nat \ {0}
         /\ Suffix(r.jobs[j], s.jobs[j], 1)
         /\ FrameFits(s.jobs[j], 1, j, ph)
         /\ r.jobs = [s.jobs EXCEPT ![j] = Tail(@)]
  <1>1. PICK q : q = s.jobs[j]
    OBVIOUS
  <1>2. IsStack(q) /\ \A i \in DOMAIN q : FrameFits(q, i, j, ph)
    BY <1>1 DEF Stacks, StackOK
  <1>3. Len(q) \in Nat /\ DOMAIN q = 1 .. Len(q) /\ Len(q) # 0 /\ \A i \in 1 .. Len(q) : q[i] \in ToSet(q)
    BY <1>1, <1>2, StackFacts
  <1>4. Suffix(Tail(q), q, 1)
    BY <1>1, <1>2, SuffixTail
  <1>5. DOMAIN s = Fields /\ DOMAIN s.jobs = Jobs
    BY DEF Typed, Fields
  <1>6. Is(r, s.mem, s.disk, s.queue, s.packing, s.timers, s.wake, s.pool, [s.jobs EXCEPT ![j] = Tail(@)])
    BY <1>5, Shapes
  <1>7. Popped(s, r, j) /\ r.jobs[j] = Tail(q) /\ r.jobs = [s.jobs EXCEPT ![j] = Tail(@)]
    BY <1>1, <1>5, <1>6 DEF Is, Popped
  <1>8. Loose(Tail(q))
    <2>1. SUFFICES ASSUME Tail(q) # <<>>
                   PROVE  Tail(q)[1].op \notin Heads \cup {"model", "compact"}
      BY DEF Loose
    <2>2. IsStack(Tail(q)) /\ Len(Tail(q)) = Len(q) - 1 /\ \A i \in 1 .. Len(q) - 1 : Tail(q)[i] = q[i + 1]
      BY <1>4 DEF Suffix
    <2>3. Len(Tail(q)) # 0
      BY <2>1, <2>2, StackFacts
    <2>4. Len(q) >= 2 /\ Tail(q)[1] = q[2] /\ 2 \in DOMAIN q
      BY <1>3, <2>2, <2>3
    <2> QED BY <1>2, <2>4 DEF FrameFits, Heads
  <1> QED BY <1>1, <1>2, <1>3, <1>4, <1>7, <1>8 DEF Held

LEMMA Pops ==
  ASSUME NEW s, NEW ph, NEW L, Inv(s, ph, L), NEW j \in Jobs, s.jobs[j] # <<>>, NEW K, L \subseteq K,
         NEW f, f = s.jobs[j][1], Spent(s, f, K), NEW r, r = Pop(s, j)
  PROVE  /\ Outcome(s, r, j, ph, K) /\ Popped(s, r, j) /\ FrameKnown(s, f)
         /\ FrameFits(s.jobs[j], 1, j, ph)
  <1>1. Typed(s) /\ Stacks(s, ph)
    BY DEF Inv
  <1>2. /\ Popped(s, r, j) /\ Loose(r.jobs[j]) /\ f \in Held(s, j) /\ Suffix(r.jobs[j], s.jobs[j], 1)
        /\ FrameFits(s.jobs[j], 1, j, ph) /\ IsStack(s.jobs[j]) /\ r.jobs = [s.jobs EXCEPT ![j] = Tail(@)]
    BY <1>1, PopShape
  <1>3. FrameKnown(s, f)
    BY <1>2 DEF Inv, FramesKnown
  <1>4. Expendable(s, s.jobs[j], 1, K)
    <2>1. \A i \in 1 .. 1 : s.jobs[j][i] = f
      OBVIOUS
    <2> QED BY <2>1 DEF Expendable, Spent, Sends
  <1>5. DOMAIN s = Fields /\ DOMAIN s.jobs = Jobs
    BY <1>1 DEF Typed, Fields
  <1>6. PICK q : q = r.jobs[j]
    OBVIOUS
  <1>7. Is(r, s.mem, s.disk, s.queue, s.packing, s.timers, s.wake, s.pool, [s.jobs EXCEPT ![j] = q])
    BY <1>2, <1>5, <1>6 DEF Popped, Is
  <1>8. Inv(r, ph, K)
    BY <1>2, <1>4, <1>6, <1>7, Less
  <1>9. r.mem = s.mem /\ \A i \in Jobs : i # j => Held(r, i) = Held(s, i)
    BY <1>2 DEF Popped, Held
  <1>10. Held(r, j) \subseteq Held(s, j) /\ \A g \in Held(s, j) \ Held(r, j) : g = f
    <2>1. /\ ToSet(r.jobs[j]) \subseteq ToSet(s.jobs[j])
          /\ \A g \in ToSet(s.jobs[j]) \ ToSet(r.jobs[j]) : \E i \in 1 .. 1 : s.jobs[j][i] = g
      BY <1>2, SuffixSet
    <2> QED BY <2>1 DEF Held
  <1>11. f.op \notin Sends
    BY DEF Spent
  <1>12. \A x : Born(r, x) <=> Born(s, x)
    BY <1>9, <1>10, <1>11 DEF Born, Holds
  <1>13. \A x \in Tasks : Known(r, x) <=> Known(s, x)
    BY <1>9, <1>12 DEF Known
  <1> QED BY <1>2, <1>3, <1>8, <1>9, <1>13, FallsSame DEF Outcome

\* A job has the frames of p to do first.
Topped(s, r, j, p) == r.jobs[j] = p \o s.jobs[j] /\ \A i \in Jobs : i # j => r.jobs[i] = s.jobs[i]

LEMMA ToppedBorn ==
  ASSUME NEW s, NEW r, NEW j \in Jobs, NEW p, Topped(s, r, j, p), IsStack(p), IsStack(s.jobs[j]),
         \A i \in DOMAIN p : p[i].op \notin Sends
  PROVE  \A k : Born(r, k) <=> Born(s, k)
  BY PushHeld DEF Topped

\* A function leaves the next steps of a cascade to do.
LEMMA Pushes ==
  ASSUME NEW s, NEW ph, NEW L, Inv(s, ph, L), NEW j \in Jobs, j[1] # "model", NEW p, IsStack(p),
         Loose(s.jobs[j]), \A i \in DOMAIN p : p[i].op \in Casc /\ FrameKnown(s, p[i]),
         NEW r, r = Push(s, j, p)
  PROVE  /\ Outcome(s, r, j, ph, L) /\ r.mem = s.mem /\ r.disk = s.disk /\ r.queue = s.queue
         /\ r.packing = s.packing /\ r.wake = s.wake /\ r.timers = s.timers /\ r.pool = s.pool
         /\ r.jobs[j] = p \o s.jobs[j] /\ \A i \in Jobs : i # j => r.jobs[i] = s.jobs[i]
  <1>1. DOMAIN s = Fields /\ DOMAIN s.jobs = Jobs
    BY DEF Inv, Typed, Fields
  <1>2. Is(r, s.mem, s.disk, s.queue, s.packing, s.timers, s.wake, s.pool, [s.jobs EXCEPT ![j] = p \o @])
    BY <1>1, Shapes
  <1>3. j[1] \in {"turn", "loop", "host", "timer", "call"}
    BY JobFacts
  <1>4. StackOK(p, j, ph)
    BY <1>3, CascStack
  <1>5. \A i \in DOMAIN p : p[i].op \in Plain /\ FrameKnown(s, p[i])
    BY DEF Plain
  <1>6. Inv(r, ph, L)
    BY <1>2, <1>4, <1>5, PushPlain
  <1>7. r.mem = s.mem /\ r.jobs[j] = p \o s.jobs[j] /\ \A i \in Jobs : i # j => r.jobs[i] = s.jobs[i]
    BY <1>1, <1>2 DEF Is
  <1>8. IsStack(s.jobs[j])
    BY DEF Inv, Stacks, StackOK
  <1>9. \A i \in DOMAIN p : p[i].op \notin Sends
    BY DEF Casc, Sends
  <1>10. \A k : Born(r, k) <=> Born(s, k)
    <2>1. Topped(s, r, j, p)
      BY <1>7 DEF Topped
    <2> QED BY <1>8, <1>9, <2>1, ToppedBorn
  <1>11. \A x \in Tasks : Known(r, x) <=> Known(s, x)
    BY <1>7, <1>10 DEF Known
  <1>12. Loose(r.jobs[j])
    <2>1. /\ Len(p) \in Nat /\ DOMAIN p = 1 .. Len(p) /\ (p = <<>> <=> Len(p) = 0)
          /\ IsStack(p \o s.jobs[j]) /\ \A i \in 1 .. Len(p) : (p \o s.jobs[j])[i] = p[i]
      BY <1>8, StackFacts, StackOn
    <2>2. CASE p = <<>>
      <3>1. p \o s.jobs[j] = s.jobs[j]
        BY <1>8, <2>2 DEF IsStack
      <3> QED BY <1>7, <3>1
    <2>3. CASE p # <<>>
      <3>1. 1 \in DOMAIN p /\ (p \o s.jobs[j])[1] = p[1]
        BY <2>1, <2>3
      <3>2. p[1].op \in Casc
        BY <3>1
      <3> QED BY <1>7, <3>1, <3>2 DEF Loose, Casc, Heads
    <2> QED BY <2>2, <2>3
  <1>13. Falls(s, r)
    BY <1>7, FallsSame
  <1> QED BY <1>2, <1>6, <1>7, <1>11, <1>12, <1>13 DEF Outcome, Is

\* Stacks of one and of two frames.
LEMMA OneFrame ==
  ASSUME NEW f
  PROVE  IsStack(<<f>>) /\ DOMAIN <<f>> = {1} /\ <<f>>[1] = f /\ Len(<<f>>) = 1
  <1>1. <<f>> \in Seq({f}) /\ ToSet(<<f>>) = {f}
    BY DEF ToSet
  <1> QED BY <1>1 DEF IsStack

LEMMA TwoFrames ==
  ASSUME NEW f, NEW g
  PROVE  IsStack(<<f, g>>) /\ DOMAIN <<f, g>> = {1, 2} /\ <<f, g>>[1] = f /\ <<f, g>>[2] = g /\ Len(<<f, g>>) = 2
  <1>1. <<f, g>> \in Seq({f, g}) /\ ToSet(<<f, g>>) = {f, g}
    BY DEF ToSet
  <1> QED BY <1>1 DEF IsStack

----------------------------------------------------------------------------
(* A step of the system *)

\* The statuses of the tasks of r follow from those of s in one legal transition.
Legal(s, r) ==
  \A t \in Tasks : s.mem[t] # NoTask /\ r.mem[t] # NoTask /\ s.mem[t].st # r.mem[t].st
    => <<s.mem[t].st, r.mem[t].st>> \in LEGAL_TRANSITIONS

\* What a step has to show of the state it leaves behind, before the marks are trimmed.
Good(r) == Inv(r, phase, {}) /\ Legal(S, r)

\* What every step of the running process preserves.
Onward == IInv' /\ Legal(S, S')

LEMMA SFacts ==
  /\ S.mem = mem /\ S.disk = disk /\ S.queue = queue /\ S.packing = packing /\ S.timers = timers
  /\ S.wake = wake /\ S.pool = pool /\ S.jobs = jobs /\ S.ran = ran /\ DOMAIN S = Fields
  BY DEF S, Fields

\* A job with something to do shows that the process runs.
LEMMA Running ==
  ASSUME IInv, NEW j \in Jobs, jobs[j] # <<>>
  PROVE  phase # "down" /\ Inv(S, phase, {}) /\ S.jobs[j] = jobs[j]
  BY SFacts DEF IInv, Down, Idle

LEMMA FallsLegal ==
  ASSUME NEW s, NEW ph, NEW L, Inv(s, ph, L), NEW r, NEW Q, Inv(r, ph, Q), Falls(s, r)
  PROVE  Legal(s, r)
  <1>1. \A t \in Tasks : (s.mem[t] = NoTask \/ Block(s.mem[t])) /\ (r.mem[t] = NoTask \/ Block(r.mem[t]))
    BY DEF Inv, Typed
  <1>2. SUFFICES ASSUME NEW t \in Tasks, s.mem[t] # NoTask, r.mem[t] # NoTask, s.mem[t].st # r.mem[t].st
                 PROVE  <<s.mem[t].st, r.mem[t].st>> \in LEGAL_TRANSITIONS
    BY DEF Legal
  <1>3. Live(s.mem[t]) /\ r.mem[t].st \in {"READY", "TERMINATED"}
    BY <1>2 DEF Falls
  <1> QED BY <1>2, <1>3 DEF Live, LEGAL_TRANSITIONS

LEMMA OutcomeGood ==
  ASSUME IInv, NEW r, NEW j, Outcome(S, r, j, phase, {})
  PROVE  Good(r)
  <1>1. Inv(S, phase, {})
    BY DEF IInv
  <1>2. Inv(r, phase, {}) /\ Falls(S, r)
    BY DEF Outcome
  <1> QED BY <1>1, <1>2, FallsLegal DEF Good

LEMMA Closes ==
  ASSUME IInv, NEW r, Good(r), Do(r), phase # "down", phase' = phase
  PROVE  Onward
  <1>1. Inv(S', phase, {}) /\ mem' = r.mem
    BY Done DEF Good
  <1>2. S'.mem = r.mem
    BY <1>1 DEF S
  <1>3. Legal(S, S')
    BY <1>2 DEF Good, Legal
  <1>4. IInv'
    BY <1>1 DEF IInv, Down
  <1> QED BY <1>3, <1>4 DEF Onward

\* The functions that may do something.
LEMMA Kinds ==
  ASSUME NEW q, NEW i, NEW j \in Jobs, NEW ph, FrameFits(q, i, j, ph)
  PROVE  /\ q[i].op \notin {"model", "compact"} => j[1] # "model"
         /\ q[i].op \in {"send", "enqueue", "settle"} => j[1] \in {"turn", "loop"}
         /\ q[i].op \in {"publish", "advance", "continue"} => j[1] = "turn"
         /\ q[i].op \in {"dispatch", "failnodes", "try"} => j = <<"loop">>
         /\ q[i].op \in BootOps => j = <<"host">>
         /\ q[i].op \in {"start", "exec"} => j[1] = "call"
         /\ q[i].op = "launch" => j[1] \in {"turn", "host"}
         /\ q[i].op \in {"model", "compact"} => j[1] = "model"
  <1>1. j[1] \in {"loop", "host", "model", "turn", "timer", "call"} /\ (j[1] = "loop" => j = <<"loop">>)
        /\ (j[1] = "host" => j = <<"host">>)
    BY JobFacts
  <1>2. q[i].op \in OpsOf(j[1])
    BY DEF FrameFits
  <1>3. CASE j[1] = "loop"
    BY <1>1, <1>2, <1>3 DEF OpsOf, Casc, BootOps, Sends
  <1>4. CASE j[1] = "host"
    BY <1>1, <1>2, <1>4 DEF OpsOf, Casc, BootOps, Sends
  <1>5. CASE j[1] = "model"
    BY <1>1, <1>2, <1>5 DEF OpsOf, Casc, BootOps, Sends
  <1>6. CASE j[1] = "turn"
    BY <1>1, <1>2, <1>6 DEF OpsOf, Casc, BootOps, Sends
  <1>7. CASE j[1] = "timer"
    BY <1>1, <1>2, <1>7 DEF OpsOf, Casc, BootOps, Sends
  <1>8. CASE j[1] = "call"
    BY <1>1, <1>2, <1>8 DEF OpsOf, Casc, BootOps, Sends
  <1> QED BY <1>1, <1>3, <1>4, <1>5, <1>6, <1>7, <1>8

\* A step of job j takes its first frame.
LEMMA Takes ==
  ASSUME IInv, NEW j \in Jobs, jobs[j] # <<>>, NEW f, f = jobs[j][1], NEW K, Spent(S, f, K), NEW r, r = Pop(S, j)
  PROVE  /\ Outcome(S, r, j, phase, K) /\ Popped(S, r, j) /\ FrameKnown(S, f) /\ FrameFits(jobs[j], 1, j, phase)
         /\ phase # "down" /\ Inv(S, phase, {}) /\ Inv(r, phase, K) /\ Loose(r.jobs[j])
         /\ r.mem = mem /\ S.mem = mem /\ \A x \in Tasks : Known(r, x) <=> Known(S, x)
  <1>1. phase # "down" /\ Inv(S, phase, {}) /\ S.jobs[j] = jobs[j] /\ S.mem = mem
    BY Running, SFacts
  <1>2. PICK L : L = {}
    OBVIOUS
  <1>3. PICK s : s = S
    OBVIOUS
  <1>4. Inv(s, phase, L) /\ L \subseteq K /\ s.jobs[j] # <<>> /\ f = s.jobs[j][1] /\ Spent(s, f, K) /\ r = Pop(s, j)
    BY <1>1, <1>2, <1>3
  <1>5. Outcome(s, r, j, phase, K) /\ Popped(s, r, j) /\ FrameKnown(s, f) /\ FrameFits(s.jobs[j], 1, j, phase)
    BY <1>4, Pops
  <1>6. Outcome(S, r, j, phase, K) /\ Popped(S, r, j) /\ FrameKnown(S, f) /\ FrameFits(jobs[j], 1, j, phase)
    BY <1>1, <1>3, <1>5
  <1> QED BY <1>1, <1>6 DEF Outcome, Popped

\* CancelChildren.
LEMMA CancelChildrenStep ==
  ASSUME IInv, NEW j \in Jobs, CancelChildren(j)
  PROVE  Onward
  <1>0. jobs[j] # <<>> /\ jobs[j][1].op = "cancel" /\ phase' = phase
    BY DEF CancelChildren, At, Stay
  <1>1. S.mem = mem
    BY SFacts
  <1>2. PICK f : f = jobs[j][1]
    OBVIOUS
  <1>3. PICK live : live = {k \in ToSet(f.x) : Live(mem[k])}
    OBVIOUS
  <1>4. PICK K : K = {Lone(x) : x \in live}
    OBVIOUS
  <1>5. PICK s0 : s0 = Pop(S, j)
    OBVIOUS
  <1>6. Spent(S, f, K)
    BY <1>0, <1>1, <1>2, <1>3, <1>4 DEF Spent, Sends
  <1>7. /\ Outcome(S, s0, j, phase, K) /\ FrameKnown(S, f) /\ FrameFits(jobs[j], 1, j, phase)
        /\ phase # "down" /\ Inv(s0, phase, K) /\ Loose(s0.jobs[j]) /\ s0.mem = mem
        /\ S.mem = mem /\ \A x \in Tasks : Known(s0, x) <=> Known(S, x)
    BY <1>0, <1>2, <1>5, <1>6, Takes
  <1>8. j[1] # "model"
    BY <1>0, <1>7, Kinds
  <1>12. FrameKnown(s0, f)
    <2>1. \A x : Known(S, x) => Known(s0, x)
      BY <1>7 DEF Known
    <2>2. \A x \in Tasks : S.mem[x].st \in {"TERMINATED", "none"} => s0.mem[x].st = S.mem[x].st
      BY <1>7
    <2> QED BY <1>7, <2>1, <2>2, FrameStays
  <1>9. /\ f.t \in Tasks /\ mem[f.t].st \in {"TERMINATED", "none"} /\ Over(s0, f.t)
        /\ \A k \in ToSet(f.x) : k \in Tasks /\ Parent[k] = f.t
    BY <1>0, <1>2, <1>7, <1>12 DEF FrameKnown, Over
  <1>10. CASE live = {}
    <2>1. Do(s0)
      BY <1>2, <1>3, <1>5, <1>10 DEF CancelChildren
    <2>2. K = {}
      BY <1>4, <1>10
    <2>3. Good(s0)
      BY <1>7, <2>2, OutcomeGood
    <2> QED BY <1>0, <1>7, <2>1, <2>3, Closes
  <1>11. CASE live # {}
    <2>1. PICK k \in live :
            Do(terminateTask(Push(s0, j, <<Frame("cancel", f.t, SetToSeq(live \ {k}))>>), j, k, "cancelled"))
      BY <1>2, <1>3, <1>5, <1>11 DEF CancelChildren
    <2>2. PICK g : g = Frame("cancel", f.t, SetToSeq(live \ {k}))
      OBVIOUS
    <2>3. PICK p : p = <<g>>
      OBVIOUS
    <2>4. PICK s1 : s1 = Push(s0, j, p)
      OBVIOUS
    <2>5. PICK r : r = terminateTask(s1, j, k, "cancelled")
      OBVIOUS
    <2>6. live \subseteq Tasks /\ IsFiniteSet(live \ {k})
      BY <1>3, <1>9, TaskAssumption, FS_Subset
    <2>7. ToSet(SetToSeq(live \ {k})) = live \ {k}
      BY <2>6, Listing
    <2>8. g.op = "cancel" /\ g.t = f.t /\ ToSet(g.x) = live \ {k}
      BY <2>2, <2>7 DEF Frame
    <2>10. FrameKnown(s0, g)
      BY <1>3, <1>9, <2>8 DEF FrameKnown, Nameless
    <2>11. IsStack(p) /\ \A i \in DOMAIN p : p[i].op \in Casc /\ FrameKnown(s0, p[i])
      BY <2>3, <2>8, <2>10, OneFrame DEF Casc
    <2>12. Outcome(s0, s1, j, phase, K) /\ s1.mem = s0.mem /\ s1.jobs[j] = p \o s0.jobs[j]
      BY <1>7, <1>8, <2>4, <2>11, Pushes
    <2>13. Inv(s1, phase, K) /\ Loose(s1.jobs[j]) /\ IsStack(s1.jobs[j]) /\ IsStack(s0.jobs[j])
      BY <1>7, <2>12 DEF Outcome, Inv, Stacks, StackOK
    <2>14. g \in Held(s1, j)
      <3>1. ToSet(p \o s0.jobs[j]) = ToSet(p) \cup ToSet(s0.jobs[j])
        BY <2>11, <2>13, StackOn
      <3>2. g \in ToSet(p)
        BY <2>3, <2>11, OneFrame, StackFacts
      <3> QED BY <2>12, <3>1, <3>2 DEF Held
    <2>15. PICK M : M = {Lone(k)}
      OBVIOUS
    <2>16. Inv(s1, phase, M)
      <3>1. \A x \in Tasks : Late(x) \notin K
        BY <1>4 DEF Late, Lone
      <3>2. \A x \in Tasks : Lone(x) \in K => x \in live
        BY <1>4 DEF Lone
      <3>3. \A x \in Tasks : Lone(x) \in K => Lone(x) \in M \/ x \in ToSet(g.x)
        BY <2>8, <2>15, <3>2
      <3> QED BY <2>13, <2>14, <3>1, <3>3, <2>8, Smaller
    <2>17. Mortal(s1, k)
      <3>1. k \in Tasks /\ Live(mem[k]) /\ Parent[k] = f.t /\ ~Live(mem[Parent[k]])
        BY <1>3, <1>9 DEF Live
      <3>2. s1.mem = mem /\ mem[k] # NoTask
        BY <1>7, <2>12, <3>1, NoTaskFacts
      <3> QED BY <3>1, <3>2 DEF Mortal, Known
    <2>18. \A x \in M : x \in {} \/ x = Late(k) \/ x = Lone(k)
      BY <2>15
    <2>19. Outcome(s1, r, j, phase, {})
      BY <1>7, <1>8, <2>5, <2>13, <2>16, <2>17, <2>18, Terminates DEF Outcome
    <2>20. Outcome(S, r, j, phase, {})
      BY <1>7, <2>12, <2>19, OutcomeThen
    <2> QED BY <1>0, <1>7, <2>1, <2>2, <2>3, <2>4, <2>5, <2>20, OutcomeGood, Closes
  <1> QED BY <1>10, <1>11

\* A task takes note of a result, which is processed next.
LEMMA Notes ==
  ASSUME NEW s, NEW ph, NEW L, Inv(s, ph, L), NEW p, Known(s, p), NEW b, NEW X, Milder(s.mem[p], b, X),
         b.st = s.mem[p].st, b.why = s.mem[p].why, b.ask = s.mem[p].ask,
         \A k \in Tasks : Born(s, k) => k \notin X, NEW j, Loose(s.jobs[j])
  PROVE  Outcome(s, Put(s, p, b), j, ph, L) /\ Replaced(s, p, b, Put(s, p, b))
  <1>1. Fitting(s, {}, p, b)
    BY FitSame
  <1>2. Fitting(s, L, p, b)
    BY <1>1 DEF Fitting
  <1>3. L \subseteq L /\ b.st \in {s.mem[p].st, "READY"}
    OBVIOUS
  <1> QED BY <1>2, <1>3, PutOutcome

LEMMA PushesOne ==
  ASSUME NEW s, NEW ph, NEW L, Inv(s, ph, L), NEW j \in Jobs, j[1] # "model", Loose(s.jobs[j]),
         NEW op \in {"progress", "deliver", "unlock"}, NEW p, Known(s, p)
  PROVE  /\ Outcome(s, Push(s, j, <<Then(op, p)>>), j, ph, L)
         /\ Push(s, j, <<Then(op, p)>>).mem = s.mem
         /\ Push(s, j, <<Then(op, p)>>).jobs[j] = <<Then(op, p)>> \o s.jobs[j]
         /\ \A i \in Jobs : i # j => Push(s, j, <<Then(op, p)>>).jobs[i] = s.jobs[i]
  <1>1. PICK q : q = <<Then(op, p)>>
    OBVIOUS
  <1>2. PICK r : r = Push(s, j, q)
    OBVIOUS
  <1>3. IsStack(q) /\ DOMAIN q = {1} /\ q[1] = Then(op, p)
    BY <1>1, OneFrame
  <1>4. q[1].op = op /\ q[1].t = p
    BY <1>3 DEF Then, Frame
  <1>5. FrameKnown(s, q[1])
    BY <1>4 DEF FrameKnown
  <1>6. \A i \in DOMAIN q : q[i].op \in Casc /\ FrameKnown(s, q[i])
    BY <1>3, <1>4, <1>5 DEF Casc
  <1>7. /\ Outcome(s, r, j, ph, L) /\ r.mem = s.mem /\ r.jobs[j] = q \o s.jobs[j]
        /\ \A i \in Jobs : i # j => r.jobs[i] = s.jobs[i]
    BY <1>2, <1>3, <1>6, Pushes
  <1> QED BY <1>1, <1>2, <1>7

LEMMA Reports ==
  ASSUME NEW s, NEW ph, NEW L, Inv(s, ph, L), NEW p, Known(s, p), NEW b, NEW X, Milder(s.mem[p], b, X),
         b.st = s.mem[p].st, b.why = s.mem[p].why, b.ask = s.mem[p].ask,
         \A k \in Tasks : Born(s, k) => k \notin X,
         NEW j \in Jobs, j[1] # "model", Loose(s.jobs[j])
  PROVE  Outcome(s, Push(Put(s, p, b), j, <<Then("progress", p)>>), j, ph, L)
  <1>1. PICK s1 : s1 = Put(s, p, b)
    OBVIOUS
  <1>2. Outcome(s, s1, j, ph, L)
    BY <1>1, Notes
  <1>3. Inv(s1, ph, L) /\ Loose(s1.jobs[j]) /\ Known(s1, p)
    BY <1>2 DEF Outcome, Known
  <1>4. Outcome(s1, Push(s1, j, <<Then("progress", p)>>), j, ph, L)
    BY <1>3, PushesOne
  <1> QED BY <1>1, <1>2, <1>4, OutcomeThen

\* The result of a child and the node bound to it.
ChildEnded(b, k, kind) ==
  [completeSubagentWork(b, k, kind) EXCEPT !.graph = completeDelegatedWorkGraphNode(@, k, kind)]

LEMMA ChildResult ==
  ASSUME NEW b, Block(b), NEW k, NEW kind, NEW c, c = ChildEnded(b, k, kind)
  PROVE  Milder(b, c, {k}) /\ c.st = b.st /\ c.why = b.why /\ c.ask = b.ask
  <1>1. PICK a : a = completeSubagentWork(b, k, kind)
    OBVIOUS
  <1>2. Milder(b, a, {k}) /\ a.st = b.st /\ a.why = b.why /\ a.ask = b.ask /\ Block(a)
    <2>1. Milder(b, a, {k}) /\ a.st = b.st /\ a.why = b.why /\ a.ask = b.ask
      BY <1>1, CompleteMild DEF completeSubagentWork
    <2> QED BY <2>1 DEF Milder
  <1>3. GraphOK(completeDelegatedWorkGraphNode(a.graph, k, kind))
    BY <1>2, GraphFollows DEF Block
  <1>4. /\ DOMAIN c = BlockFields /\ c.st = a.st /\ c.why = a.why /\ c.ask = a.ask /\ c.works = a.works
        /\ GraphOK(c.graph)
    <2>1. DOMAIN a = BlockFields
      BY <1>2 DEF Block
    <2>2. PICK g : g = completeDelegatedWorkGraphNode(a.graph, k, kind)
      OBVIOUS
    <2>3. c = [a EXCEPT !.graph = g]
      BY <1>1, <2>2 DEF ChildEnded
    <2> QED BY <1>3, <2>1, <2>2, <2>3 DEF BlockFields
  <1>5. Milder(a, c, {k})
    BY <1>2, <1>4, FieldMild
  <1> QED BY <1>2, <1>4, <1>5, MilderThen

\* A task with an unfinished work item is known.
LEMMA Workers ==
  ASSUME NEW s, NEW ph, NEW L, Inv(s, ph, L), NEW p \in Tasks, s.mem[p] # NoTask, NEW k, Completable(s.mem[p], k)
  PROVE  Known(s, p)
  <1>1. s.mem[p].works # <<>>
    BY DEF Completable, Open
  <1>2. ~Born(s, p)
    BY <1>1 DEF Inv, Newborns, NewbornFits, Born, Holds
  <1> QED BY <1>2 DEF Known

\* NotifyParent.
LEMMA NotifyParentStep ==
  ASSUME IInv, NEW j \in Jobs, NotifyParent(j)
  PROVE  Onward
  <1>0. jobs[j] # <<>> /\ jobs[j][1].op = "notify" /\ phase' = phase
    BY DEF NotifyParent, At, Stay
  <1>1. PICK f : f = jobs[j][1]
    OBVIOUS
  <1>2. PICK s : s = Pop(S, j)
    OBVIOUS
  <1>3. PICK p : p = Parent[f.t]
    OBVIOUS
  <1>4. Spent(S, f, {})
    BY <1>0, <1>1 DEF Spent, Sends
  <1>5. /\ Outcome(S, s, j, phase, {}) /\ FrameKnown(S, f) /\ FrameFits(jobs[j], 1, j, phase)
        /\ phase # "down" /\ Inv(S, phase, {}) /\ Inv(s, phase, {}) /\ Loose(s.jobs[j]) /\ s.mem = mem
        /\ S.mem = mem /\ \A x \in Tasks : Known(s, x) <=> Known(S, x)
    BY <1>0, <1>1, <1>2, <1>4, Takes
  <1>6. j[1] # "model" /\ f.t \in Tasks /\ mem[f.t].st \in {"TERMINATED", "none"}
    <2>1. f.op = "notify"
      BY <1>0, <1>1
    <2>2. f.t \in Tasks /\ Over(S, f.t)
      BY <1>5, <2>1 DEF FrameKnown
    <2> QED BY <1>0, <1>1, <1>5, <2>2, Kinds DEF Over
  <1>7. CASE p = Orphan \/ ~Live(mem[p]) \/ ~Completable(mem[p], f.t)
    <2>1. Do(s)
      BY <1>1, <1>2, <1>3, <1>7 DEF NotifyParent
    <2> QED BY <1>0, <1>5, <2>1, OutcomeGood, Closes
  <1>8. CASE p # Orphan /\ Live(mem[p]) /\ Completable(mem[p], f.t)
    <2>1. PICK b : b = [completeSubagentWork(mem[p], f.t, f.x[1]) EXCEPT
                          !.graph = completeDelegatedWorkGraphNode(@, f.t, f.x[1])]
      BY ZenonT(30)
    <2>2. Do(Push(Put(s, p, b), j, <<Then("progress", p)>>))
      BY <1>1, <1>2, <1>3, <1>8, <2>1, ZenonT(30) DEF NotifyParent
    <2>3. p \in Tasks /\ mem[p] # NoTask
      BY <1>3, <1>6, <1>8, TaskAssumption, NoTaskFacts
    <2>4. Known(s, p) /\ Block(s.mem[p])
      BY <1>5, <1>8, <2>3, Workers DEF Inv, Typed
    <2>5. \A k \in Tasks : Born(s, k) => k \notin {f.t}
      <3>1. SUFFICES ASSUME Born(s, f.t) PROVE FALSE
        OBVIOUS
      <3>2. s.mem[f.t].st = "READY"
        BY <1>3, <1>5, <1>8, <3>1 DEF Inv, Newborns, NewbornFits, Born, Holds
      <3> QED BY <1>5, <1>6, <3>2
    <2>6. Milder(s.mem[p], b, {f.t}) /\ b.st = s.mem[p].st /\ b.why = s.mem[p].why /\ b.ask = s.mem[p].ask
      <3>1. PICK a : a = s.mem[p]
        OBVIOUS
      <3>2. PICK k, kind : k = f.t /\ kind = f.x[1]
        OBVIOUS
      <3>3. b = ChildEnded(a, k, kind)
        BY <1>5, <2>1, <3>1, <3>2 DEF ChildEnded
      <3>4. Block(a)
        BY <2>4, <3>1
      <3>5. Milder(a, b, {k}) /\ b.st = a.st /\ b.why = a.why /\ b.ask = a.ask
        BY <3>3, <3>4, ChildResult
      <3> QED BY <3>1, <3>2, <3>5
    <2>7. Outcome(s, Push(Put(s, p, b), j, <<Then("progress", p)>>), j, phase, {})
      BY <1>5, <1>6, <2>4, <2>5, <2>6, Reports
    <2>8. PICK r : r = Push(Put(s, p, b), j, <<Then("progress", p)>>)
      OBVIOUS
    <2>9. Outcome(S, r, j, phase, {})
      BY <1>5, <2>7, <2>8, OutcomeThen
    <2> QED BY <1>0, <1>5, <2>2, <2>8, <2>9, OutcomeGood, Closes
  <1> QED BY <1>7, <1>8

\* A step that takes a frame whose end leaves nothing undone.
LEMMA TakesPlain ==
  ASSUME IInv, NEW j \in Jobs, jobs[j] # <<>>, jobs[j][1].op \notin Sends \cup {"resume", "cancel", "orphan"},
         NEW r, r = Pop(S, j)
  PROVE  /\ Outcome(S, r, j, phase, {}) /\ Popped(S, r, j) /\ FrameKnown(S, jobs[j][1]) /\ FrameFits(jobs[j], 1, j, phase)
         /\ phase # "down" /\ Inv(S, phase, {}) /\ Inv(r, phase, {}) /\ Loose(r.jobs[j])
         /\ r.mem = mem /\ S.mem = mem /\ \A x \in Tasks : Known(r, x) <=> Known(S, x)
  <1>1. PICK f : f = jobs[j][1]
    OBVIOUS
  <1>2. PICK K : K = {}
    OBVIOUS
  <1>3. Spent(S, f, K)
    BY <1>1 DEF Spent, Sends
  <1>4. /\ Outcome(S, r, j, phase, K) /\ Popped(S, r, j) /\ FrameKnown(S, f) /\ FrameFits(jobs[j], 1, j, phase)
        /\ phase # "down" /\ Inv(S, phase, {}) /\ Inv(r, phase, K) /\ Loose(r.jobs[j])
        /\ r.mem = mem /\ S.mem = mem /\ \A x \in Tasks : Known(r, x) <=> Known(S, x)
    BY <1>1, <1>3, Takes
  <1> QED BY <1>1, <1>2, <1>4

\* AsyncWorkProgress.
LEMMA AsyncWorkProgressStep ==
  ASSUME IInv, NEW j \in Jobs, AsyncWorkProgress(j)
  PROVE  Onward
  <1>0. jobs[j] # <<>> /\ jobs[j][1].op = "progress" /\ phase' = phase
    BY DEF AsyncWorkProgress, At, Stay
  <1>1. PICK s : s = Pop(S, j)
    OBVIOUS
  <1>2. PICK p : p = jobs[j][1].t
    OBVIOUS
  <1>3. /\ Outcome(S, s, j, phase, {}) /\ FrameKnown(S, jobs[j][1]) /\ FrameFits(jobs[j], 1, j, phase) /\ Popped(S, s, j)
        /\ phase # "down" /\ Inv(s, phase, {}) /\ Loose(s.jobs[j]) /\ s.mem = mem
        /\ \A x \in Tasks : Known(s, x) <=> Known(S, x)
    BY <1>0, <1>1, TakesPlain DEF Sends
  <1>4. Known(s, p) /\ j[1] # "model"
    <2>1. Known(S, p)
      BY <1>0, <1>2, <1>3 DEF FrameKnown, Nameless, Sends
    <2> QED BY <1>0, <1>3, <2>1, Kinds DEF Known
  <1>5. ASSUME NEW r, Outcome(s, r, j, phase, {}), Do(r)
        PROVE  Onward
    <2>1. Outcome(S, r, j, phase, {})
      BY <1>3, <1>5, OutcomeThen
    <2> QED BY <1>0, <1>3, <1>5, <2>1, OutcomeGood, Closes
  <1>6. PICK b : b = mem[p]
    OBVIOUS
  <1>7. CASE ~Live(b)
    <2>1. Do(s)
      BY <1>1, <1>2, <1>6, <1>7 DEF AsyncWorkProgress
    <2> QED BY <1>0, <1>3, <2>1, OutcomeGood, Closes
  <1>8. CASE Live(b) /\ (~hasUndeliveredAsyncWorkResults(b) \/ (~isActiveAsyncWorkComplete(b) /\ p \in timers))
    <2>1. Do(Persist(s, p))
      BY <1>1, <1>2, <1>6, <1>8 DEF AsyncWorkProgress
    <2>2. Outcome(s, Persist(s, p), j, phase, {})
      BY <1>3, <1>4, Persists
    <2> QED BY <1>5, <2>1, <2>2
  <1>9. CASE Live(b) /\ hasUndeliveredAsyncWorkResults(b) /\ isActiveAsyncWorkComplete(b)
    <2>1. PICK s1 : s1 = [s EXCEPT !.wake = @ \cup {p}]
      OBVIOUS
    <2>2. PICK s2 : s2 = CancelTimer(s1, p)
      OBVIOUS
    <2>3. PICK s3 : s3 = Persist(s2, p)
      OBVIOUS
    <2>4. PICK q : q = <<Then("deliver", p), Then("unlock", p)>>
      OBVIOUS
    <2>5. Do(Push(s3, j, q))
      BY <1>1, <1>2, <1>6, <1>9, <2>1, <2>2, <2>3, <2>4 DEF AsyncWorkProgress
    <2>6. PICK wk : wk = s.wake \cup {p}
      OBVIOUS
    <2>7. Rung(s, s1, s.timers, wk)
      BY <1>3, <2>1, <2>6 DEF Rung, Is, Fields, Popped
    <2>8. \A x \in s.timers \cup wk : Known(s, x)
      BY <1>3, <1>4, <2>6 DEF Inv, ListsKnown
    <2>9. Outcome(s, s1, j, phase, {})
      BY <1>3, <2>7, <2>8, Rings
    <2>10. Inv(s1, phase, {}) /\ Known(s1, p) /\ Loose(s1.jobs[j])
      BY <1>4, <2>9 DEF Outcome, Known
    <2>11. Outcome(s1, s2, j, phase, {})
      BY <2>2, <2>10, CancelsTimer
    <2>12. Inv(s2, phase, {}) /\ Known(s2, p) /\ Loose(s2.jobs[j])
      BY <2>10, <2>11 DEF Outcome, Known
    <2>13. Outcome(s2, s3, j, phase, {})
      BY <1>3, <2>3, <2>12, Persists
    <2>14. Inv(s3, phase, {}) /\ Known(s3, p) /\ Loose(s3.jobs[j])
      BY <2>12, <2>13 DEF Outcome, Known
    <2>15. IsStack(q) /\ \A i \in DOMAIN q : q[i].op \in Casc /\ FrameKnown(s3, q[i])
      <3>1. IsStack(q) /\ DOMAIN q = {1, 2} /\ q[1] = Then("deliver", p) /\ q[2] = Then("unlock", p)
        BY <2>4, TwoFrames
      <3>2. q[1].op = "deliver" /\ q[1].t = p /\ q[2].op = "unlock" /\ q[2].t = p
        BY <3>1 DEF Then, Frame
      <3>3. FrameKnown(s3, q[1]) /\ FrameKnown(s3, q[2])
        BY <2>14, <3>2 DEF FrameKnown
      <3> QED BY <3>1, <3>2, <3>3 DEF Casc
    <2>16. PICK r : r = Push(s3, j, q)
      OBVIOUS
    <2>17. Outcome(s3, r, j, phase, {})
      BY <1>4, <2>14, <2>15, <2>16, Pushes
    <2>18. Outcome(s, r, j, phase, {})
      <3>1. Outcome(s, s2, j, phase, {})
        BY <2>9, <2>11, OutcomeThen
      <3>2. Outcome(s, s3, j, phase, {})
        BY <2>13, <3>1, OutcomeThen
      <3> QED BY <2>17, <3>2, OutcomeThen
    <2> QED BY <1>5, <2>5, <2>16, <2>18
  <1>10. CASE Live(b) /\ hasUndeliveredAsyncWorkResults(b) /\ ~isActiveAsyncWorkComplete(b) /\ p \notin timers
    <2>1. PICK s1 : s1 = [s EXCEPT !.timers = @ \cup {p}, !.mem[p].due = TRUE]
      OBVIOUS
    <2>2. Do(Persist(s1, p))
      BY <1>1, <1>2, <1>6, <1>10, <2>1 DEF AsyncWorkProgress
    <2>3. Outcome(s, s1, j, phase, {})
      BY <1>3, <1>4, <2>1, SetsTimer
    <2>4. Inv(s1, phase, {}) /\ Known(s1, p) /\ Loose(s1.jobs[j])
      BY <1>4, <2>3 DEF Outcome, Known
    <2>5. Outcome(s1, Persist(s1, p), j, phase, {})
      BY <1>3, <2>4, Persists
    <2>6. Outcome(s, Persist(s1, p), j, phase, {})
      BY <2>3, <2>5, OutcomeThen
    <2> QED BY <1>5, <2>2, <2>6
  <1> QED BY <1>7, <1>8, <1>9, <1>10

\* DeliverWhenIdle.
LEMMA DeliverWhenIdleStep ==
  ASSUME IInv, NEW j \in Jobs, NEW fit \in Fits, DeliverWhenIdle(j, fit)
  PROVE  Onward
  <1>0. jobs[j] # <<>> /\ jobs[j][1].op = "deliver" /\ phase' = phase
    BY DEF DeliverWhenIdle, At, Stay
  <1>1. PICK s : s = Pop(S, j)
    OBVIOUS
  <1>2. PICK p : p = jobs[j][1].t
    OBVIOUS
  <1>3. /\ Outcome(S, s, j, phase, {}) /\ FrameKnown(S, jobs[j][1]) /\ FrameFits(jobs[j], 1, j, phase)
        /\ phase # "down" /\ Inv(s, phase, {}) /\ Loose(s.jobs[j])
        /\ \A x \in Tasks : Known(s, x) <=> Known(S, x)
    BY <1>0, <1>1, TakesPlain DEF Sends
  <1>4. Known(s, p) /\ j[1] # "model"
    <2>1. Known(S, p)
      BY <1>0, <1>2, <1>3 DEF FrameKnown, Nameless, Sends
    <2> QED BY <1>0, <1>3, <2>1, Kinds DEF Known
  <1>5. Do(s) \/ Do(deliverAsyncWorkUpdate(s, j, p, fit))
    BY <1>1, <1>2 DEF DeliverWhenIdle
  <1>6. PICK r : r = deliverAsyncWorkUpdate(s, j, p, fit)
    OBVIOUS
  <1>7. Outcome(s, r, j, phase, {})
    <2>1. PICK L : L = {}
      OBVIOUS
    <2>2. Inv(s, phase, L) /\ Without(L, p, L) /\ (L \subseteq L \/ (s.mem[p].st = "READY" /\ hasUndeliveredAsyncWorkResults(s.mem[p])))
      BY <1>3, <2>1 DEF Without
    <2>3. Outcome(s, r, j, phase, L)
      BY <1>3, <1>4, <1>6, <2>2, Delivers
    <2> QED BY <2>1, <2>3
  <1>8. Outcome(S, r, j, phase, {})
    BY <1>3, <1>7, OutcomeThen
  <1> QED BY <1>0, <1>3, <1>5, <1>6, <1>8, OutcomeGood, Closes

----------------------------------------------------------------------------
(* A function begins *)

\* r is s where job j, which was idle, has p to do.
Begun(s, r, j, p) ==
  /\ Is(r, s.mem, s.disk, s.queue, s.packing, s.timers, s.wake, s.pool, [s.jobs EXCEPT ![j] = p])
  /\ r.jobs[j] = p /\ \A i \in Jobs : i # j => r.jobs[i] = s.jobs[i]
  /\ Held(r, j) = ToSet(p) /\ \A i \in Jobs : i # j => Held(r, i) = Held(s, i)

LEMMA BeginShape ==
  ASSUME NEW s, NEW ph, NEW L, Inv(s, ph, L), NEW j \in Jobs, s.jobs[j] = <<>>, NEW p, IsStack(p),
         NEW r, r = Push(s, j, p)
  PROVE  Begun(s, r, j, p)
  <1>1. DOMAIN s = Fields /\ DOMAIN s.jobs = Jobs
    BY DEF Inv, Typed, Fields
  <1>2. Is(r, s.mem, s.disk, s.queue, s.packing, s.timers, s.wake, s.pool, [s.jobs EXCEPT ![j] = p \o @])
    BY <1>1, Shapes
  <1>3. p \o s.jobs[j] = p
    <2>1. p \in Seq(ToSet(p))
      BY DEF IsStack
    <2> QED BY <2>1
  <1>4. [s.jobs EXCEPT ![j] = p \o @] = [s.jobs EXCEPT ![j] = p]
    BY <1>1, <1>3
  <1>5. Is(r, s.mem, s.disk, s.queue, s.packing, s.timers, s.wake, s.pool, [s.jobs EXCEPT ![j] = p])
    BY <1>2, <1>4
  <1>6. r.jobs[j] = p /\ \A i \in Jobs : i # j => r.jobs[i] = s.jobs[i]
    BY <1>1, <1>5 DEF Is
  <1> QED BY <1>5, <1>6 DEF Begun, Held

LEMMA Begins ==
  ASSUME NEW s, NEW ph, NEW L, Inv(s, ph, L), NEW j \in Jobs, s.jobs[j] = <<>>, NEW p, StackOK(p, j, ph),
         \A f \in ToSet(p) : f.op \notin Sends /\ FrameKnown(s, f),
         NEW r, Begun(s, r, j, p), Handles(r), Asks(r),
         \A c \in Tasks : HopAt(r, j, c) => ToldEarlier(s, c)
  PROVE  Inv(r, ph, L) /\ r.mem = s.mem /\ \A x \in Tasks : Known(r, x) <=> Known(s, x)
  <1>1. PICK jo : jo = [s.jobs EXCEPT ![j] = p]
    OBVIOUS
  <1>2. DOMAIN jo = Jobs
    BY <1>1 DEF Inv, Typed
  <1>3. Is(r, s.mem, s.disk, s.queue, s.packing, s.timers, s.wake, s.pool, jo)
    BY <1>1 DEF Begun
  <1>4. Held(s, j) = {}
    <2>1. IsStack(s.jobs[j])
      BY DEF Inv, Stacks, StackOK
    <2> QED BY <2>1, StackFacts DEF Held
  <1>5. \A i \in Jobs : Held(s, i) \subseteq Held(r, i)
    BY <1>4 DEF Begun
  <1>6. Dropped(s, r, L)
    BY <1>5 DEF Dropped
  <1>7. Coming(s, r)
    BY DEF Coming, Begun
  <1>8. Stacks(r, ph)
    BY DEF Inv, Stacks, Begun
  <1>9. \A c \in Tasks, i \in Jobs : HopAt(r, i, c) => (\E k \in Jobs : HopAt(s, k, c)) \/ ToldEarlier(s, c)
    BY DEF HopAt, Begun
  <1>10. L \subseteq L
    OBVIOUS
  <1>11. Inv(r, ph, L)
    BY <1>2, <1>3, <1>6, <1>7, <1>8, <1>9, <1>10, Work
  <1>12. r.mem = s.mem
    BY <1>3 DEF Is
  <1>13. \A x \in Tasks : Born(r, x) <=> Born(s, x)
    BY <1>4 DEF Born, Holds, Begun
  <1> QED BY <1>11, <1>12, <1>13 DEF Known

\* What a task has to be for its turn to go on with p.
TurnMay(s, t, p) ==
  /\ t \in Tasks /\ s.jobs[TurnJob(t)] = <<>> /\ s.jobs[ModelJob(t)] = <<>> /\ ~InLoop(s, t)
  /\ \A f \in ToSet(p) : f.op \notin Sends /\ FrameKnown(s, f)
  /\ (\E f \in ToSet(p) : f.op = "settle") =>
       \/ s.mem[t].st \in {"RUNNING", "TERMINATED"}
       \/ Waits(s.mem[t]) /\ Unmarked(s, t) /\ \A i \in Jobs : ~HopAt(s, i, t)
  /\ (\E f \in ToSet(p) : f.op = "continue") => s.mem[t].st \in {"RUNNING", "TERMINATED"}
  /\ p # <<>> /\ p[1].op \in {"publish", "advance"} =>
       LET c == p[1].t IN
       /\ Pending(s.mem[c]) \/ s.mem[c].st = "TERMINATED"
       /\ \A i \in Jobs : ~HopAt(s, i, c)
       /\ p[1].op = "publish" => s.disk[c].ask.hop = s.mem[c].ask.hop
       /\ Len(p) = 1 /\ p[1].op = "publish" =>
            Unmarked(s, c) /\ (s.mem[t].st = "TERMINATED" \/ Waits(s.mem[t]))
       /\ ToldEarlier(s, c)
       /\ ~(Holds(s, c, TurnJob(c), {"settle"}) /\ Waits(s.mem[c]))

LEMMA TurnBegins ==
  ASSUME NEW s, NEW ph, NEW L, Inv(s, ph, L), NEW t, NEW p, TurnMay(s, t, p), NEW j, j = TurnJob(t),
         StackOK(p, j, ph), NEW r, r = Push(s, j, p)
  PROVE  Inv(r, ph, L) /\ r.mem = s.mem /\ \A x \in Tasks : Known(r, x) <=> Known(s, x)
  <1>1. j \in Jobs /\ s.jobs[j] = <<>> /\ IsStack(p)
    BY JobFacts DEF TurnMay, StackOK
  <1>2. Begun(s, r, j, p)
    BY <1>1, BeginShape
  <1>3. r.mem = s.mem /\ r.disk = s.disk
    BY <1>2 DEF Begun, Is
  <1>4. \A x \in Tasks : j # ModelJob(x) /\ j # <<"loop">> /\ (j = TurnJob(x) <=> x = t) /\ TurnJob(x) \in Jobs /\ ModelJob(x) \in Jobs
    <2>1. j[1] = "turn" /\ j[2] = t
      BY JobFacts
    <2> SUFFICES ASSUME NEW x \in Tasks
                 PROVE  j # ModelJob(x) /\ j # <<"loop">> /\ (j = TurnJob(x) <=> x = t) /\ TurnJob(x) \in Jobs /\ ModelJob(x) \in Jobs
      OBVIOUS
    <2>2. ModelJob(x)[1] = "model" /\ TurnJob(x)[2] = x /\ <<"loop">>[1] = "loop" /\ TurnJob(x) \in Jobs /\ ModelJob(x) \in Jobs
      BY JobFacts
    <2>3. j # ModelJob(x) /\ j # <<"loop">>
      BY <2>1, <2>2
    <2>4. j = TurnJob(x) <=> x = t
      BY <2>1, <2>2
    <2> QED BY <2>2, <2>3, <2>4
  <1>5. t \in Tasks /\ <<"loop">> \in Jobs
    BY JobFacts DEF TurnMay
  <1>6. \A x \in Tasks : /\ r.jobs[ModelJob(x)] = s.jobs[ModelJob(x)] /\ Held(r, <<"loop">>) = Held(s, <<"loop">>)
                         /\ x # t => Held(r, TurnJob(x)) = Held(s, TurnJob(x)) /\ r.jobs[TurnJob(x)] = s.jobs[TurnJob(x)]
    BY <1>2, <1>4, <1>5 DEF Begun
  <1>7. \A x \in Tasks : (InLoop(r, x) <=> InLoop(s, x)) /\ (Looped(r, x) <=> Looped(s, x))
    BY <1>6 DEF InLoop, Looped, Holds
  <1>8. Handles(r)
    <2>1. SUFFICES ASSUME NEW x \in Tasks PROVE HandlesFor(r, x, s.mem[x])
      BY <1>3 DEF Handles, HandlesOf
    <2>2. HandlesFor(s, x, s.mem[x])
      BY DEF Inv, Handles, HandlesOf
    <2>3. CASE x # t
      <3>1. /\ Hot(r, x) <=> Hot(s, x)
            /\ \A ops : Holds(r, x, TurnJob(x), ops) <=> Holds(s, x, TurnJob(x), ops)
            /\ OwnHop(r, TurnJob(x)) <=> OwnHop(s, TurnJob(x))
        BY <1>6, <2>3 DEF Hot, Holds, OwnHop
      <3> QED BY <1>6, <1>7, <2>2, <3>1 DEF HandlesFor
    <2>4. CASE x = t
      <3>1. r.jobs[ModelJob(x)] = <<>> /\ ~InLoop(r, x) /\ ~Looped(r, x)
        BY <1>6, <1>7, <2>4 DEF TurnMay, InLoop, Looped, Holds
      <3>2. r.jobs[TurnJob(x)] = p /\ Held(r, TurnJob(x)) = ToSet(p)
        BY <1>2, <2>4 DEF Begun
      <3>3. Holds(r, x, TurnJob(x), {"continue"}) => s.mem[x].st \in {"RUNNING", "TERMINATED"}
        BY <2>4, <3>2 DEF Holds, TurnMay
      <3>4. Holds(r, x, TurnJob(x), {"settle"}) => s.mem[x].st \in {"RUNNING", "TERMINATED"} \/ Waits(s.mem[x])
        BY <2>4, <3>2 DEF Holds, TurnMay
      <3>5. OwnHop(r, TurnJob(x)) => s.mem[x].st = "TERMINATED" \/ Waits(s.mem[x])
        <4>1. SUFFICES ASSUME Len(p) = 1, p[1].op = "publish" PROVE s.mem[x].st = "TERMINATED" \/ Waits(s.mem[x])
          BY <3>2 DEF OwnHop
        <4>2. p # <<>>
          BY <4>1, SMT
        <4> QED BY <2>4, <4>1, <4>2 DEF TurnMay
      <3> QED BY <3>1, <3>3, <3>4, <3>5 DEF HandlesFor
    <2> QED BY <2>3, <2>4
  <1>9. \A c : Unmarked(r, c) <=> Unmarked(s, c)
    BY <1>3 DEF Unmarked
  <1>10. \A i \in Jobs : \A c : i # j => (HopAt(r, i, c) <=> HopAt(s, i, c)) /\ (OwnHop(r, i) <=> OwnHop(s, i))
    BY <1>2 DEF HopAt, OwnHop, Begun
  <1>11. \A c : HopAt(r, j, c) => p # <<>> /\ p[1].op \in {"publish", "advance"} /\ c = p[1].t
    BY <1>2 DEF HopAt, Begun
  <1>12. OwnHop(r, j) => Len(p) = 1 /\ p[1].op = "publish"
    BY <1>2 DEF OwnHop, Begun
  <1>13. Asks(r)
    <2>1. SUFFICES ASSUME NEW c \in Tasks PROVE AsksOf(r, c)
      BY DEF Asks
    <2>2. AsksOf(s, c)
      BY DEF Inv, Asks
    <2>3. ASSUME NEW i \in Jobs, HopAt(r, i, c)
          PROVE  /\ Pending(r.mem[c]) \/ r.mem[c].st = "TERMINATED"
                 /\ \A k \in Jobs : HopAt(r, k, c) => i = k
                 /\ r.jobs[i][1].op = "publish" => r.disk[c].ask.hop = r.mem[c].ask.hop
                 /\ OwnHop(r, i) => Unmarked(r, c)
      <3>1. CASE i = j
        <4>1. p # <<>> /\ p[1].op \in {"publish", "advance"} /\ c = p[1].t /\ r.jobs[i] = p
          BY <1>2, <1>11, <2>3, <3>1 DEF Begun
        <4>2. \A k \in Jobs : ~HopAt(s, k, c)
          BY <4>1 DEF TurnMay
        <4>3. \A k \in Jobs : HopAt(r, k, c) => i = k
          BY <1>10, <3>1, <4>2
        <4>4. Pending(r.mem[c]) \/ r.mem[c].st = "TERMINATED"
          BY <1>3, <4>1 DEF TurnMay
        <4>5. r.jobs[i][1].op = "publish" => r.disk[c].ask.hop = r.mem[c].ask.hop
          BY <1>3, <4>1 DEF TurnMay
        <4>6. OwnHop(r, i) => Unmarked(r, c)
          BY <1>9, <1>12, <3>1, <4>1 DEF TurnMay
        <4> QED BY <4>3, <4>4, <4>5, <4>6
      <3>2. CASE i # j
        <4>1. HopAt(s, i, c) /\ r.jobs[i] = s.jobs[i] /\ (OwnHop(r, i) <=> OwnHop(s, i))
          BY <1>2, <1>10, <2>3, <3>2 DEF Begun
        <4>2. \A k \in Jobs : HopAt(r, k, c) => i = k
          <5>1. ~HopAt(r, j, c)
            BY <1>11, <4>1 DEF TurnMay
          <5> QED BY <1>10, <2>2, <4>1, <5>1 DEF AsksOf
        <4> QED BY <1>3, <1>9, <2>2, <4>1, <4>2 DEF AsksOf
      <3> QED BY <3>1, <3>2
    <2>4. ASSUME Holds(r, c, TurnJob(c), {"settle"}), Waits(r.mem[c])
          PROVE  Unmarked(r, c) /\ \A i \in Jobs : ~HopAt(r, i, c)
      <3>1. CASE c = t
        <4>1. \E f \in ToSet(p) : f.op = "settle"
          BY <1>2, <2>4, <3>1 DEF Holds, Begun
        <4>2. Unmarked(s, t) /\ \A i \in Jobs : ~HopAt(s, i, t)
          BY <1>3, <2>4, <3>1, <4>1 DEF TurnMay, Waits
        <4>3. ~HopAt(r, j, t)
          <5>1. PICK i \in 1 .. Len(p) : p[i].op = "settle"
            BY <1>1, <4>1, StackFacts
          <5>2. FrameFits(p, i, j, ph) /\ DOMAIN p = 1 .. Len(p)
            BY <1>1, <5>1, StackFacts DEF StackOK
          <5>3. i = 1
            BY <5>1, <5>2 DEF FrameFits, Heads
          <5> QED BY <1>11, <5>1, <5>3
        <4> QED BY <1>9, <1>10, <3>1, <4>2, <4>3
      <3>2. CASE c # t
        <4>1. Holds(s, c, TurnJob(c), {"settle"})
          BY <1>6, <2>4, <3>2 DEF Holds
        <4>2. ~HopAt(r, j, c)
          BY <1>3, <1>11, <2>4, <4>1 DEF TurnMay
        <4> QED BY <1>3, <1>9, <1>10, <2>2, <2>4, <4>1, <4>2 DEF AsksOf
      <3> QED BY <3>1, <3>2
    <2> QED BY <2>3, <2>4 DEF AsksOf
  <1>14. \A c \in Tasks : HopAt(r, j, c) => ToldEarlier(s, c)
    BY <1>11 DEF TurnMay
  <1>15. \A f \in ToSet(p) : f.op \notin Sends /\ FrameKnown(s, f)
    BY DEF TurnMay
  <1> QED BY <1>1, <1>2, <1>8, <1>13, <1>14, <1>15, Begins

\* The loop begins to act for a task.
LEMMA LoopBegins ==
  ASSUME NEW s, NEW ph, NEW L, Inv(s, ph, L), NEW f, f.op \in {"dispatch", "settle", "failnodes", "try"}, Known(s, f.t),
         f.op = "dispatch" => Len(f.x) \in Nat,
         s.jobs[<<"loop">>] = <<>>, s.jobs[ModelJob(f.t)] = <<>>, ~Hot(s, f.t),
         f.op # "failnodes" => s.mem[f.t].st \in {"RUNNING", "TERMINATED"},
         NEW r, r = Push(s, <<"loop">>, <<f>>)
  PROVE  Inv(r, ph, L) /\ r.mem = s.mem /\ \A x \in Tasks : Known(r, x) <=> Known(s, x)
  <1>1. PICK j : j = <<"loop">>
    OBVIOUS
  <1>2. PICK p : p = <<f>>
    OBVIOUS
  <1>3. j \in Jobs /\ s.jobs[j] = <<>> /\ j[1] = "loop" /\ f.t \in Tasks
    BY <1>1, JobFacts DEF Known
  <1>4. IsStack(p) /\ DOMAIN p = {1} /\ p[1] = f /\ Len(p) = 1 /\ ToSet(p) = {f}
    <2>1. IsStack(p) /\ DOMAIN p = {1} /\ p[1] = f /\ Len(p) = 1
      BY <1>2, OneFrame
    <2> QED BY <2>1, StackFacts
  <1>5. StackOK(p, j, ph)
    <2>1. f.op \in OpsOf(j[1])
      BY <1>3 DEF OpsOf
    <2>2. f.op \in {"dispatch", "settle", "failnodes", "try"} /\ f.op \notin Sends
      BY DEF Sends
    <2>3. \A k \in 1 .. 1 - 1 : FALSE
      OBVIOUS
    <2>4. FrameFits(p, 1, j, ph)
      BY <1>3, <1>4, <2>1, <2>2, <2>3 DEF FrameFits, BootOps
    <2> QED BY <1>4, <2>4 DEF StackOK
  <1>6. Begun(s, r, j, p)
    BY <1>1, <1>2, <1>3, <1>4, BeginShape
  <1>7. r.mem = s.mem /\ r.disk = s.disk
    BY <1>6 DEF Begun, Is
  <1>8. \A x \in Tasks : j # ModelJob(x) /\ j # TurnJob(x) /\ TurnJob(x) \in Jobs /\ ModelJob(x) \in Jobs
    <2> SUFFICES ASSUME NEW x \in Tasks
                 PROVE  j # ModelJob(x) /\ j # TurnJob(x) /\ TurnJob(x) \in Jobs /\ ModelJob(x) \in Jobs
      OBVIOUS
    <2>1. ModelJob(x)[1] = "model" /\ TurnJob(x)[1] = "turn" /\ TurnJob(x) \in Jobs /\ ModelJob(x) \in Jobs
      BY JobFacts
    <2> QED BY <1>3, <2>1
  <1>9. \A x \in Tasks : /\ r.jobs[ModelJob(x)] = s.jobs[ModelJob(x)] /\ r.jobs[TurnJob(x)] = s.jobs[TurnJob(x)]
                         /\ Held(r, TurnJob(x)) = Held(s, TurnJob(x))
    BY <1>6, <1>8 DEF Begun
  <1>10. \A x \in Tasks : /\ Hot(r, x) <=> Hot(s, x)
                          /\ \A ops : Holds(r, x, TurnJob(x), ops) <=> Holds(s, x, TurnJob(x), ops)
                          /\ OwnHop(r, TurnJob(x)) <=> OwnHop(s, TurnJob(x))
    BY <1>9 DEF Hot, Holds, OwnHop
  <1>11. Handles(r)
    <2>1. SUFFICES ASSUME NEW x \in Tasks PROVE HandlesFor(r, x, s.mem[x])
      BY <1>7 DEF Handles, HandlesOf
    <2>2. HandlesFor(s, x, s.mem[x])
      BY DEF Inv, Handles, HandlesOf
    <2>3. InLoop(r, x) => x = f.t
      BY <1>1, <1>4, <1>6 DEF InLoop, Holds, Begun
    <2>4. Looped(r, x) => x = f.t /\ f.op # "failnodes"
      BY <1>1, <1>4, <1>6 DEF Looped, Holds, Begun
    <2> QED BY <1>9, <1>10, <2>2, <2>3, <2>4 DEF HandlesFor
  <1>12. \A i \in Jobs : \A c : (HopAt(r, i, c) <=> HopAt(s, i, c)) /\ (HopAt(r, i, c) => r.jobs[i] = s.jobs[i])
    <2>1. \A c : ~HopAt(r, j, c) /\ ~HopAt(s, j, c)
      BY <1>3, <1>4, <1>6 DEF HopAt, Begun
    <2> QED BY <1>6, <2>1 DEF HopAt, Begun
  <1>13. Asks(r)
    <2>1. SUFFICES ASSUME NEW c \in Tasks PROVE AsksOf(r, c)
      BY DEF Asks
    <2>2. AsksOf(s, c)
      BY DEF Inv, Asks
    <2>3. Unmarked(r, c) <=> Unmarked(s, c)
      BY <1>7 DEF Unmarked
    <2>4. \A i \in Jobs : HopAt(r, i, c) => (OwnHop(r, i) <=> OwnHop(s, i)) /\ r.jobs[i] = s.jobs[i]
      BY <1>12 DEF OwnHop
    <2> QED BY <1>7, <1>10, <1>12, <2>2, <2>3, <2>4 DEF AsksOf
  <1>14. \A c \in Tasks : HopAt(r, j, c) => ToldEarlier(s, c)
    BY <1>3, <1>12 DEF HopAt
  <1>15. \A g \in ToSet(p) : g.op \notin Sends /\ FrameKnown(s, g)
    BY <1>4 DEF FrameKnown, Sends
  <1> QED BY <1>3, <1>5, <1>6, <1>11, <1>13, <1>14, <1>15, Begins

\* The request of a task, or of its compaction, goes out.
LEMMA ModelBegins ==
  ASSUME NEW s, NEW ph, NEW L, Inv(s, ph, L), NEW f, f.op \in {"model", "compact"}, Known(s, f.t),
         s.jobs[ModelJob(f.t)] = <<>>, ~Hot(s, f.t), ~InLoop(s, f.t), s.mem[f.t].st = "RUNNING",
         NEW r, r = Push(s, ModelJob(f.t), <<f>>)
  PROVE  Inv(r, ph, L) /\ r.mem = s.mem
  <1>1. PICK j : j = ModelJob(f.t)
    OBVIOUS
  <1>2. PICK p : p = <<f>>
    OBVIOUS
  <1>3. f.t \in Tasks /\ j \in Jobs /\ s.jobs[j] = <<>> /\ j[1] = "model" /\ j[2] = f.t
    BY <1>1, JobFacts, ZenonT(30) DEF Known
  <1>4. IsStack(p) /\ DOMAIN p = {1} /\ p[1] = f /\ Len(p) = 1 /\ ToSet(p) = {f}
    <2>1. IsStack(p) /\ DOMAIN p = {1} /\ p[1] = f /\ Len(p) = 1
      BY <1>2, OneFrame
    <2> QED BY <2>1, StackFacts
  <1>5. StackOK(p, j, ph)
    <2>1. f.op \in OpsOf(j[1]) /\ f.op \notin Sends
      BY <1>3 DEF OpsOf, Sends
    <2>2. \A k \in 1 .. 1 - 1 : FALSE
      OBVIOUS
    <2>4. FrameFits(p, 1, j, ph)
      BY <1>3, <1>4, <2>1, <2>2 DEF FrameFits, BootOps
    <2> QED BY <1>4, <2>4 DEF StackOK
  <1>6. Begun(s, r, j, p)
    BY <1>1, <1>2, <1>3, <1>4, BeginShape
  <1>7. r.mem = s.mem /\ r.disk = s.disk
    BY <1>6 DEF Begun, Is
  <1>8. \A x \in Tasks : (j = ModelJob(x) => x = f.t) /\ j # TurnJob(x) /\ j # <<"loop">> /\ TurnJob(x) \in Jobs /\ ModelJob(x) \in Jobs
        /\ <<"loop">> \in Jobs
    <2> SUFFICES ASSUME NEW x \in Tasks
                 PROVE  (j = ModelJob(x) => x = f.t) /\ j # TurnJob(x) /\ j # <<"loop">> /\ TurnJob(x) \in Jobs /\ ModelJob(x) \in Jobs
                        /\ <<"loop">> \in Jobs
      OBVIOUS
    <2>1. ModelJob(x)[2] = x /\ TurnJob(x)[1] = "turn" /\ TurnJob(x) \in Jobs /\ ModelJob(x) \in Jobs /\ <<"loop">>[1] = "loop"
          /\ <<"loop">> \in Jobs
      BY JobFacts, ZenonT(30)
    <2> QED BY <1>3, <2>1
  <1>9. \A x \in Tasks : /\ x # f.t => r.jobs[ModelJob(x)] = s.jobs[ModelJob(x)]
                         /\ r.jobs[TurnJob(x)] = s.jobs[TurnJob(x)] /\ Held(r, <<"loop">>) = Held(s, <<"loop">>)
                         /\ Held(r, TurnJob(x)) = Held(s, TurnJob(x))
    BY <1>6, <1>8 DEF Begun
  <1>10. \A x \in Tasks : /\ Hot(r, x) <=> Hot(s, x)
                          /\ \A ops : Holds(r, x, TurnJob(x), ops) <=> Holds(s, x, TurnJob(x), ops)
                          /\ OwnHop(r, TurnJob(x)) <=> OwnHop(s, TurnJob(x))
                          /\ Looped(r, x) <=> Looped(s, x)
                          /\ InLoop(r, x) <=> InLoop(s, x)
    BY <1>9 DEF Hot, Holds, OwnHop, Looped, InLoop
  <1>11. Handles(r)
    <2>1. SUFFICES ASSUME NEW x \in Tasks PROVE HandlesFor(r, x, s.mem[x])
      BY <1>7 DEF Handles, HandlesOf
    <2>2. HandlesFor(s, x, s.mem[x])
      BY DEF Inv, Handles, HandlesOf
    <2> QED BY <1>9, <1>10, <2>2 DEF HandlesFor
  <1>12. \A i \in Jobs : \A c : (HopAt(r, i, c) <=> HopAt(s, i, c)) /\ (HopAt(r, i, c) => r.jobs[i] = s.jobs[i])
    <2>1. \A c : ~HopAt(r, j, c) /\ ~HopAt(s, j, c)
      BY <1>3, <1>4, <1>6 DEF HopAt, Begun
    <2> QED BY <1>6, <2>1 DEF HopAt, Begun
  <1>13. Asks(r)
    <2>1. SUFFICES ASSUME NEW c \in Tasks PROVE AsksOf(r, c)
      BY DEF Asks
    <2>2. AsksOf(s, c)
      BY DEF Inv, Asks
    <2>3. Unmarked(r, c) <=> Unmarked(s, c)
      BY <1>7 DEF Unmarked
    <2>4. \A i \in Jobs : HopAt(r, i, c) => (OwnHop(r, i) <=> OwnHop(s, i)) /\ r.jobs[i] = s.jobs[i]
      BY <1>12 DEF OwnHop
    <2> QED BY <1>7, <1>10, <1>12, <2>2, <2>3, <2>4 DEF AsksOf
  <1>14. \A c \in Tasks : HopAt(r, j, c) => ToldEarlier(s, c)
    BY <1>3, <1>12 DEF HopAt
  <1>15. \A g \in ToSet(p) : g.op \notin Sends /\ FrameKnown(s, g)
    BY <1>4 DEF FrameKnown, Sends
  <1> QED BY <1>3, <1>5, <1>6, <1>11, <1>13, <1>14, <1>15, Begins

----------------------------------------------------------------------------
(* Exceptions *)

\* What an exception may drop without anything left undone.
Light(s, j) == \A f \in Held(s, j) : f.op \notin Sends \cup {"cancel", "resume", "orphan"}

\* r is s where job j has nothing to do.
Cleared(s, r, j) ==
  /\ DOMAIN r = Fields /\ r.mem = s.mem /\ r.disk = s.disk /\ r.queue = s.queue /\ r.packing = s.packing
  /\ r.timers = s.timers /\ r.wake = s.wake
  /\ r.jobs[j] = <<>> /\ Held(r, j) = {}
  /\ \A i \in Jobs : i # j => r.jobs[i] = s.jobs[i] /\ Held(r, i) = Held(s, i)

LEMMA Clears ==
  ASSUME NEW s, NEW ph, NEW L, Inv(s, ph, L), NEW j \in Jobs, Light(s, j), NEW r, r = [s EXCEPT !.jobs[j] = <<>>]
  PROVE  Outcome(s, r, j, ph, L) /\ Cleared(s, r, j)
  <1>1. DOMAIN s = Fields /\ DOMAIN s.jobs = Jobs /\ IsStack(s.jobs[j])
    BY DEF Inv, Typed, Fields, Stacks, StackOK
  <1>2. PICK q : q = <<>>
    OBVIOUS
  <1>3. Is(r, s.mem, s.disk, s.queue, s.packing, s.timers, s.wake, s.pool, [s.jobs EXCEPT ![j] = q])
    BY <1>1, <1>2 DEF Is, Fields
  <1>4. PICK d : d = Len(s.jobs[j])
    OBVIOUS
  <1>5. Suffix(q, s.jobs[j], d) /\ ToSet(q) = {} /\ IsStack(q)
    BY <1>1, <1>2, <1>4, SuffixNone
  <1>6. \A i \in 1 .. d : s.jobs[j][i] \in Held(s, j)
    BY <1>1, <1>4, StackFacts DEF Held
  <1>7. Expendable(s, s.jobs[j], d, L)
    BY <1>6 DEF Expendable, Light, Sends
  <1>8. L \subseteq L
    OBVIOUS
  <1>9. Inv(r, ph, L)
    BY <1>3, <1>5, <1>7, <1>8, Less
  <1>10. /\ r.mem = s.mem /\ r.disk = s.disk /\ r.queue = s.queue /\ r.packing = s.packing /\ r.timers = s.timers
         /\ r.wake = s.wake /\ DOMAIN r = Fields /\ r.jobs[j] = <<>> /\ \A i \in Jobs : i # j => r.jobs[i] = s.jobs[i]
    BY <1>1, <1>2, <1>3 DEF Is
  <1>11. Held(r, j) = {} /\ \A i \in Jobs : i # j => Held(r, i) = Held(s, i)
    BY <1>2, <1>5, <1>10 DEF Held
  <1>12. \A x : Born(r, x) <=> Born(s, x)
    BY <1>11 DEF Born, Holds, Light
  <1>13. \A x \in Tasks : Known(r, x) <=> Known(s, x)
    BY <1>10, <1>12 DEF Known
  <1>14. Loose(r.jobs[j])
    BY <1>10 DEF Loose
  <1> QED BY <1>9, <1>10, <1>11, <1>13, <1>14, FallsSame DEF Outcome, Cleared

\* handleModelFailure.
LEMMA Fails ==
  ASSUME NEW s, NEW ph, NEW L, Inv(s, ph, L), ph # "down", NEW t, Known(s, t), Live(s.mem[t]),
         s.mem[t].st = "RUNNING" => Free(s, t),
         NEW j \in Jobs, j[1] # "model", Loose(s.jobs[j]), NEW fit \in Fits
  PROVE  Outcome(s, handleModelFailure(s, j, t, fit), j, ph, L)
  <1>1. PICK r : r = handleModelFailure(s, j, t, fit)
    OBVIOUS
  <1>2. t \in Tasks /\ s.mem[t] # NoTask /\ Block(s.mem[t])
    BY DEF Known, Inv, Typed
  <1>3. Without(L, t, L)
    BY DEF Without
  <1>4. CASE s.mem[t].tries >= MaxTries[t]
    <2>1. r = terminateTask(s, j, t, "failed")
      BY <1>1, <1>4 DEF handleModelFailure
    <2>2. Mortal(s, t)
      BY <1>2 DEF Mortal
    <2>3. \A k \in L : k \in L \/ k = Late(t) \/ k = Lone(t)
      OBVIOUS
    <2> QED BY <1>1, <2>1, <2>2, <2>3, Terminates DEF Outcome
  <1>5. CASE ~(s.mem[t].tries >= MaxTries[t]) /\ s.mem[t].st = "RUNNING"
    <2>1. PICK b : b = s.mem[t]
      OBVIOUS
    <2>2. r = Requeue(s, j, t, b, fit)
      BY <1>1, <1>5, <2>1 DEF handleModelFailure
    <2>3. Milder(s.mem[t], b, {})
      BY <1>2, <2>1, MilderSelf
    <2>4. \A i \in Jobs : HopAt(s, i, t) => Pending(b)
      BY <1>2, <1>5, <2>1 DEF Inv, Asks, AsksOf
    <2>5. Resumable(s, t, b)
      BY <1>5, <2>3, <2>4 DEF Resumable
    <2> QED BY <1>1, <1>3, <2>2, <2>5, Requeues
  <1>6. CASE ~(s.mem[t].tries >= MaxTries[t]) /\ s.mem[t].st = "BLOCKED"
    <2>1. r = Persist(s, t)
      BY <1>1, <1>6 DEF handleModelFailure
    <2> QED BY <1>1, <2>1, Persists
  <1>7. CASE ~(s.mem[t].tries >= MaxTries[t]) /\ s.mem[t].st = "READY"
    <2>1. PICK s1 : s1 = prepareTaskForQueue(s, j, t, fit)
      OBVIOUS
    <2>2. r = Persist(s1, t)
      BY <1>1, <1>7, <2>1 DEF handleModelFailure
    <2>3. Outcome(s, s1, j, ph, L)
      BY <1>3, <1>7, <2>1, Prepares
    <2>4. Inv(s1, ph, L) /\ Loose(s1.jobs[j]) /\ Known(s1, t)
      BY <1>2, <2>3 DEF Outcome
    <2>5. Outcome(s1, r, j, ph, L)
      BY <2>2, <2>4, Persists
    <2> QED BY <1>1, <2>3, <2>5, OutcomeThen
  <1> QED BY <1>2, <1>4, <1>5, <1>6, <1>7 DEF Live

\* The task of a turn that may throw: the catch finds it running, ended, or blocked on
\* a request that it could not publish.
Catching(s, j) ==
  LET t == j[2] IN
  /\ Known(s, t) /\ s.jobs[ModelJob(t)] = <<>> /\ ~InLoop(s, t)
  /\ \/ s.mem[t].st \in {"RUNNING", "TERMINATED"}
     \/ Waits(s.mem[t]) /\ Unmarked(s, t) /\ \A i \in Jobs : HopAt(s, i, t) => i = j

LEMMA Throws ==
  ASSUME NEW s, NEW ph, NEW L, Inv(s, ph, L), ph # "down", NEW j \in Jobs, j[1] # "model", Light(s, j),
         j[1] = "turn" => Catching(s, j), NEW fit \in Fits
  PROVE  /\ Inv(Throw(s, j, fit), ph, L) /\ Falls(s, Throw(s, j, fit))
         /\ \A x \in Tasks : Known(Throw(s, j, fit), x) <=> Known(s, x)
  <1>1. PICK r : r = Throw(s, j, fit)
    OBVIOUS
  <1>2. PICK s1 : s1 = [s EXCEPT !.jobs[j] = <<>>]
    OBVIOUS
  <1>3. PICK tries : tries = {i \in DOMAIN s.jobs[j] : s.jobs[j][i].op = "try"}
    OBVIOUS
  <1>4. PICK t : t = j[2]
    OBVIOUS
  <1>5. Outcome(s, s1, j, ph, L) /\ Cleared(s, s1, j)
    BY <1>2, Clears
  <1>6. /\ Inv(s1, ph, L) /\ Loose(s1.jobs[j]) /\ Falls(s, s1) /\ s1.mem = s.mem /\ s1.jobs[j] = <<>> /\ s1.wake = s.wake
        /\ \A x \in Tasks : Known(s1, x) <=> Known(s, x)
    BY <1>5 DEF Outcome, Cleared
  <1>7. ASSUME NEW q, Outcome(s1, q, j, ph, L), r = q
        PROVE  Inv(r, ph, L) /\ Falls(s, r) /\ \A x \in Tasks : Known(r, x) <=> Known(s, x)
    <2>1. Outcome(s, q, j, ph, L)
      BY <1>5, <1>7, OutcomeThen
    <2> QED BY <1>7, <2>1 DEF Outcome
  <1>8. CASE tries # {}
    <2>1. PICK try : try = s.jobs[j][CHOOSE i \in tries : TRUE]
      BY ZenonT(30)
    <2>2. PICK f : f = Frame("failnodes", try.t, try.x)
      OBVIOUS
    <2>3. r = Push(s1, j, <<f>>)
      BY <1>1, <1>2, <1>3, <1>8, <2>1, <2>2, ZenonT(30) DEF Throw
    <2>4. PICK i \in DOMAIN s.jobs[j] : s.jobs[j][i].op = "try" /\ try = s.jobs[j][i]
      BY <1>3, <1>8, <2>1
    <2>5. FrameFits(s.jobs[j], i, j, ph) /\ IsStack(s.jobs[j])
      BY DEF Inv, Stacks, StackOK
    <2>6. j = <<"loop">>
      BY <2>4, <2>5, Kinds
    <2>7. try \in Held(s, j)
      BY <2>4, <2>5, StackFacts DEF Held
    <2>8. Known(s, try.t) /\ InLoop(s, try.t)
      BY <2>4, <2>6, <2>7 DEF Inv, FramesKnown, FrameKnown, InLoop, Holds, Nameless, Sends
    <2>9. f.op = "failnodes" /\ f.t = try.t
      BY <2>2 DEF Frame
    <2>10. try.t \in Tasks /\ ModelJob(try.t) \in Jobs /\ ModelJob(try.t) # j /\ TurnJob(try.t) \in Jobs /\ TurnJob(try.t) # j
      <3>1. try.t \in Tasks /\ ModelJob(try.t)[1] = "model" /\ TurnJob(try.t)[1] = "turn" /\ j[1] = "loop"
        BY <2>6, <2>8, JobFacts DEF Known
      <3> QED BY <3>1, JobFacts
    <2>11. s1.jobs[ModelJob(f.t)] = <<>> /\ ~Hot(s1, f.t)
      <3>1. s.jobs[ModelJob(try.t)] = <<>> /\ ~Hot(s, try.t)
        BY <2>8, <2>10 DEF Inv, Handles, HandlesOf, HandlesFor
      <3> QED BY <1>5, <2>9, <2>10, <3>1 DEF Cleared, Hot
    <2>12. Known(s1, f.t)
      BY <1>6, <2>8, <2>9, <2>10
    <2>13. Inv(r, ph, L) /\ r.mem = s1.mem /\ \A x \in Tasks : Known(r, x) <=> Known(s1, x)
      BY <1>6, <2>3, <2>6, <2>9, <2>11, <2>12, LoopBegins
    <2> QED BY <1>1, <1>6, <2>13, FallsSame
  <1>9. CASE tries = {} /\ (j[1] # "turn" \/ s.mem[t].st = "TERMINATED")
    <2>1. r = s1
      BY <1>1, <1>2, <1>3, <1>4, <1>9 DEF Throw
    <2> QED BY <1>1, <1>6, <2>1
  <1>10. CASE tries = {} /\ j[1] = "turn" /\ s.mem[t].st # "TERMINATED"
    <2>1. r = IF t \in s.wake /\ hasUndeliveredAsyncWorkResults(s.mem[t]) THEN Push(s1, j, <<Then("settle", t)>>)
              ELSE handleModelFailure(s1, j, t, fit)
      BY <1>1, <1>2, <1>3, <1>4, <1>10 DEF Throw
    <2>2. /\ Known(s, t) /\ s.jobs[ModelJob(t)] = <<>> /\ ~InLoop(s, t)
          /\ \/ s.mem[t].st = "RUNNING"
             \/ Waits(s.mem[t]) /\ Unmarked(s, t) /\ \A i \in Jobs : HopAt(s, i, t) => i = j
      BY <1>4, <1>10 DEF Catching
    <2>3. t \in Tasks /\ j = TurnJob(t) /\ Block(s.mem[t]) /\ ModelJob(t) \in Jobs /\ ModelJob(t) # j
          /\ <<"loop">> \in Jobs /\ <<"loop">> # j
      <3>1. t \in Tasks /\ j = TurnJob(t) /\ Block(s.mem[t])
        BY <1>4, <1>10, <2>2, JobFacts DEF Known, Inv, Typed
      <3>2. ModelJob(t)[1] = "model" /\ ModelJob(t) \in Jobs /\ <<"loop">>[1] = "loop" /\ <<"loop">> \in Jobs
        BY <3>1, JobFacts
      <3> QED BY <1>10, <3>1, <3>2
    <2>4. Known(s1, t) /\ Live(s1.mem[t]) /\ s1.jobs[ModelJob(t)] = <<>> /\ ~InLoop(s1, t) /\ s1.jobs[TurnJob(t)] = <<>>
          /\ Held(s1, TurnJob(t)) = {}
      <3>1. Live(s1.mem[t])
        BY <1>6, <1>10, <2>3 DEF Block, Live
      <3>2. s1.jobs[ModelJob(t)] = <<>> /\ Held(s1, <<"loop">>) = Held(s, <<"loop">>) /\ Held(s1, j) = {}
        BY <1>5, <2>2, <2>3 DEF Cleared
      <3> QED BY <1>6, <2>2, <2>3, <3>1, <3>2 DEF InLoop, Holds
    <2>5. CASE t \in s.wake /\ hasUndeliveredAsyncWorkResults(s.mem[t])
      <3>1. PICK p : p = <<Then("settle", t)>>
        OBVIOUS
      <3>2. r = Push(s1, j, p)
        BY <2>1, <2>5, <3>1
      <3>3. IsStack(p) /\ DOMAIN p = {1} /\ Len(p) = 1 /\ p[1] = Then("settle", t) /\ ToSet(p) = {p[1]}
        <4>1. IsStack(p) /\ DOMAIN p = {1} /\ Len(p) = 1 /\ p[1] = Then("settle", t)
          BY <3>1, OneFrame
        <4> QED BY <4>1, StackFacts
      <3>4. p[1].op = "settle" /\ p[1].t = t
        BY <3>3 DEF Then, Frame
      <3>5. StackOK(p, j, ph)
        <4>1. j[1] = "turn" /\ j[2] = t /\ "settle" \in OpsOf("turn")
          BY <1>4, <1>10 DEF OpsOf
        <4>2. FrameFits(p, 1, j, ph)
          BY <3>3, <3>4, <4>1 DEF FrameFits, BootOps, Sends
        <4> QED BY <3>3, <4>2 DEF StackOK
      <3>6. TurnMay(s1, t, p)
        <4>1. FrameKnown(s1, p[1])
          BY <2>4, <3>4 DEF FrameKnown, Sends
        <4>2. \/ s1.mem[t].st \in {"RUNNING", "TERMINATED"}
              \/ Waits(s1.mem[t]) /\ Unmarked(s1, t) /\ \A i \in Jobs : ~HopAt(s1, i, t)
          <5>1. CASE s.mem[t].st = "RUNNING"
            BY <1>6, <5>1
          <5>2. CASE Waits(s.mem[t]) /\ Unmarked(s, t) /\ \A i \in Jobs : HopAt(s, i, t) => i = j
            <6>1. Unmarked(s1, t)
              BY <1>6, <5>2 DEF Unmarked
            <6>2. \A i \in Jobs : ~HopAt(s1, i, t)
              BY <1>5, <5>2 DEF HopAt, Cleared
            <6> QED BY <1>6, <5>2, <6>1, <6>2
          <5> QED BY <2>2, <5>1, <5>2
        <4> QED BY <2>3, <2>4, <3>3, <3>4, <4>1, <4>2 DEF TurnMay, Sends
      <3>7. Inv(r, ph, L) /\ r.mem = s1.mem /\ \A x \in Tasks : Known(r, x) <=> Known(s1, x)
        BY <1>6, <2>3, <3>2, <3>5, <3>6, TurnBegins
      <3> QED BY <1>1, <1>6, <3>7, FallsSame
    <2>6. CASE ~(t \in s.wake /\ hasUndeliveredAsyncWorkResults(s.mem[t]))
      <3>1. r = handleModelFailure(s1, j, t, fit)
        BY <2>1, <2>6
      <3>2. Free(s1, t)
        <4>1. ~Looped(s1, t)
          BY <2>4 DEF Looped, InLoop, Holds
        <4>2. ~OwnHop(s1, TurnJob(t))
          <5>1. Len(<<>>) = 0
            OBVIOUS
          <5> QED BY <2>4, <5>1 DEF OwnHop
        <4> QED BY <2>4, <4>1, <4>2 DEF Free, Holds
      <3>3. Outcome(s1, r, j, ph, L)
        BY <1>6, <2>4, <3>1, <3>2, Fails
      <3> QED BY <1>1, <1>7, <3>3
    <2> QED BY <2>5, <2>6
  <1> QED BY <1>8, <1>9, <1>10

----------------------------------------------------------------------------
(* Answers of the provider *)

\* The turn of t begins in s: its request is answered and nothing else acts for it.
AtTurn(s, t) ==
  /\ Outcome(S, s, TurnJob(t), phase, {}) /\ Inv(s, phase, {}) /\ Loose(s.jobs[TurnJob(t)])
  /\ s.mem = mem /\ t \in Tasks /\ Known(s, t) /\ mem[t].st = "RUNNING" /\ Block(mem[t])
  /\ s.jobs[TurnJob(t)] = <<>> /\ s.jobs[ModelJob(t)] = <<>> /\ ~InLoop(s, t) /\ Free(s, t) /\ Light(s, TurnJob(t))
  /\ \A j \in Jobs : HopAt(s, j, t) => Pending(mem[t])
  /\ phase # "down" /\ TurnJob(t) \in Jobs /\ TurnJob(t)[1] = "turn" /\ TurnJob(t)[2] = t

LEMMA TurnTaken ==
  ASSUME IInv, NEW t \in Tasks, jobs[ModelJob(t)] # <<>>, jobs[ModelJob(t)][1].op \in {"model", "compact"},
         jobs[TurnJob(t)] = <<>>, mem[t].st # "TERMINATED", NEW s, s = Turn(t)
  PROVE  AtTurn(s, t)
  <1>1. PICK j : j = ModelJob(t)
    OBVIOUS
  <1>2. j \in Jobs /\ TurnJob(t) \in Jobs /\ TurnJob(t)[1] = "turn" /\ TurnJob(t)[2] = t /\ j[1] = "model" /\ j[2] = t
        /\ <<"loop">> \in Jobs /\ <<"loop">>[1] = "loop"
    BY <1>1, JobFacts
  <1>3. j # TurnJob(t) /\ j # <<"loop">>
    BY <1>2
  <1>4. jobs[j] # <<>> /\ jobs[j][1].op \notin Sends \cup {"resume", "cancel", "orphan"} /\ s = Pop(S, j)
        /\ jobs[j][1].op \in {"model", "compact"}
    BY <1>1 DEF Sends, Turn
  <1>5. /\ Outcome(S, s, j, phase, {}) /\ Popped(S, s, j) /\ FrameKnown(S, jobs[j][1]) /\ FrameFits(jobs[j], 1, j, phase)
        /\ phase # "down" /\ Inv(S, phase, {}) /\ Inv(s, phase, {}) /\ s.mem = mem /\ S.mem = mem
        /\ \A x \in Tasks : Known(s, x) <=> Known(S, x)
    BY <1>2, <1>4, TakesPlain
  <1>6. jobs[j][1].t = t /\ Len(jobs[j]) = 1
    BY <1>2, <1>4, <1>5 DEF FrameFits
  <1>7. Known(s, t)
    BY <1>4, <1>5, <1>6 DEF FrameKnown, Nameless, Sends
  <1>8. Block(mem[t]) /\ mem[t].st = "RUNNING"
    <2>1. Block(mem[t])
      BY <1>5, <1>7 DEF Known, Inv, Typed
    <2>2. S.jobs[ModelJob(t)] # <<>>
      BY SFacts
    <2> QED BY <1>5, <2>1, <2>2 DEF Inv, Handles, HandlesOf, HandlesFor
  <1>9. s.jobs[j] = <<>>
    <2>1. S.jobs[j] = jobs[j] /\ IsStack(jobs[j])
      BY <1>2, <1>5, SFacts DEF Inv, Stacks, StackOK
    <2>2. Suffix(Tail(jobs[j]), jobs[j], 1)
      BY <1>4, <2>1, SuffixTail
    <2>3. IsStack(Tail(jobs[j])) /\ Len(Tail(jobs[j])) = 0
      BY <1>6, <2>2 DEF Suffix
    <2>4. Tail(jobs[j]) = <<>>
      BY <2>3, StackFacts
    <2> QED BY <1>5, <2>1, <2>4 DEF Popped
  <1>10. s.jobs[TurnJob(t)] = <<>> /\ s.jobs[<<"loop">>] = S.jobs[<<"loop">>]
    BY <1>2, <1>3, <1>5, SFacts DEF Popped
  <1>11. ~InLoop(s, t)
    <2>1. ~InLoop(S, t)
      BY <1>1, <1>4, <1>5, SFacts DEF Inv, Handles, HandlesOf, HandlesFor
    <2> QED BY <1>10, <2>1 DEF InLoop, Holds, Held
  <1>12. Held(s, TurnJob(t)) = {}
    BY <1>10, SuffixNone DEF Held, ToSet
  <1>13. Free(s, t)
    <2>1. ~Looped(s, t)
      BY <1>11 DEF Looped, InLoop, Holds
    <2>2. ~OwnHop(s, TurnJob(t))
      <3>1. Len(<<>>) = 0
        OBVIOUS
      <3> QED BY <1>10, <3>1 DEF OwnHop
    <2> QED BY <1>1, <1>9, <1>12, <2>1, <2>2 DEF Free, Holds
  <1>14. \A i \in Jobs : HopAt(s, i, t) => Pending(mem[t])
    BY <1>5, <1>8 DEF Inv, Asks, AsksOf
  <1>15. Loose(s.jobs[TurnJob(t)])
    BY <1>10 DEF Loose
  <1>16. Outcome(S, s, TurnJob(t), phase, {})
    BY <1>5, <1>15 DEF Outcome
  <1>17. Light(s, TurnJob(t))
    BY <1>12 DEF Light
  <1>18. s.jobs[ModelJob(t)] = <<>>
    BY <1>1, <1>9
  <1> QED BY <1>2, <1>5, <1>7, <1>8, <1>10, <1>11, <1>13, <1>14, <1>15, <1>16, <1>17, <1>18 DEF AtTurn

\* What the turn of t may come to.
LEMMA TurnEnds ==
  ASSUME IInv, NEW t, NEW s, AtTurn(s, t), NEW r, Outcome(s, r, TurnJob(t), phase, {})
  PROVE  Good(r)
  <1>1. Outcome(S, r, TurnJob(t), phase, {})
    BY OutcomeThen DEF AtTurn
  <1> QED BY <1>1, OutcomeGood

LEMMA TurnFalls ==
  ASSUME IInv, NEW t, NEW s, AtTurn(s, t), NEW r, Inv(r, phase, {}), Falls(s, r)
  PROVE  Good(r)
  <1>1. Falls(S, r)
    BY FallsThen DEF AtTurn, Outcome
  <1>2. Inv(S, phase, {})
    BY DEF IInv
  <1> QED BY <1>1, <1>2, FallsLegal DEF Good

LEMMA TurnThrows ==
  ASSUME IInv, NEW t, NEW s, AtTurn(s, t), NEW fit \in Fits
  PROVE  Good(Throw(s, TurnJob(t), fit))
  <1>1. PICK j : j = TurnJob(t)
    OBVIOUS
  <1>2. j \in Jobs /\ j[1] = "turn" /\ j[2] = t /\ Inv(s, phase, {}) /\ phase # "down" /\ Light(s, j)
    BY <1>1 DEF AtTurn
  <1>3. Catching(s, j)
    BY <1>2 DEF AtTurn, Catching
  <1>4. Inv(Throw(s, j, fit), phase, {}) /\ Falls(s, Throw(s, j, fit))
    BY <1>2, <1>3, Throws
  <1> QED BY <1>1, <1>4, TurnFalls

LEMMA TurnTerminates ==
  ASSUME IInv, NEW t, NEW s, AtTurn(s, t), NEW kind
  PROVE  Good(terminateTask(s, TurnJob(t), t, kind))
  <1>1. PICK j : j = TurnJob(t)
    OBVIOUS
  <1>2. j \in Jobs /\ j[1] = "turn" /\ Inv(s, phase, {}) /\ phase # "down" /\ Loose(s.jobs[j])
    BY <1>1 DEF AtTurn
  <1>3. Mortal(s, t)
    BY DEF AtTurn, Mortal, Live
  <1>4. PICK K : K = {}
    OBVIOUS
  <1>5. Inv(s, phase, K) /\ \A k \in K : k \in K \/ k = Late(t) \/ k = Lone(t)
    BY <1>2, <1>4
  <1>6. PICK r : r = terminateTask(s, j, t, kind)
    OBVIOUS
  <1>7. Inv(r, phase, K) /\ Falls(s, r)
    BY <1>2, <1>3, <1>5, <1>6, Terminates
  <1> QED BY <1>1, <1>4, <1>6, <1>7, TurnFalls

LEMMA TurnRequeues ==
  ASSUME IInv, NEW t, NEW s, AtTurn(s, t), NEW b, Milder(mem[t], b, {}), b.ask = mem[t].ask, NEW fit \in Fits
  PROVE  Good(Requeue(s, TurnJob(t), t, b, fit))
  <1>1. PICK j : j = TurnJob(t)
    OBVIOUS
  <1>2. j \in Jobs /\ j[1] # "model" /\ Inv(s, phase, {}) /\ phase # "down" /\ Loose(s.jobs[j])
    BY <1>1 DEF AtTurn
  <1>3. PICK K : K = {}
    OBVIOUS
  <1>4. Inv(s, phase, K) /\ Without(K, t, K)
    BY <1>2, <1>3 DEF Without
  <1>5. Known(s, t) /\ Live(s.mem[t]) /\ Free(s, t) /\ Milder(s.mem[t], b, {})
    BY DEF AtTurn, Live
  <1>6. \A i \in Jobs : HopAt(s, i, t) => Pending(b)
    BY DEF AtTurn, Pending
  <1>7. Resumable(s, t, b)
    BY <1>5, <1>6 DEF Resumable
  <1>8. Outcome(s, Requeue(s, j, t, b, fit), j, phase, K)
    BY <1>2, <1>4, <1>7, Requeues
  <1> QED BY <1>1, <1>3, <1>8, TurnEnds

\* rejectModelAction.
LEMMA TurnRejects ==
  ASSUME IInv, NEW t, NEW s, AtTurn(s, t), NEW fit \in Fits
  PROVE  Good(Reject(s, TurnJob(t), t, fit))
  <1>1. PICK b : b = appendContext(mem[t])
    OBVIOUS
  <1>2. Milder(mem[t], b, {}) /\ b.ask = mem[t].ask /\ s.mem = mem
    BY <1>1, ContextMild DEF AtTurn
  <1>3. Good(Requeue(s, TurnJob(t), t, b, fit))
    BY <1>2, TurnRequeues
  <1> QED BY <1>1, <1>2, <1>3 DEF Reject

\* The turn goes on behind another await.
LEMMA TurnGoesOn ==
  ASSUME IInv, NEW t, NEW s, AtTurn(s, t), NEW op \in {"settle", "continue"}
  PROVE  Inv(Push(s, TurnJob(t), <<Then(op, t)>>), phase, {}) /\ Push(s, TurnJob(t), <<Then(op, t)>>).mem = mem
  <1>1. PICK j : j = TurnJob(t)
    OBVIOUS
  <1>2. PICK p : p = <<Then(op, t)>>
    OBVIOUS
  <1>3. PICK r : r = Push(s, j, p)
    OBVIOUS
  <1>4. IsStack(p) /\ DOMAIN p = {1} /\ Len(p) = 1 /\ p[1] = Then(op, t) /\ ToSet(p) = {p[1]}
    <2>1. IsStack(p) /\ DOMAIN p = {1} /\ Len(p) = 1 /\ p[1] = Then(op, t)
      BY <1>2, OneFrame
    <2> QED BY <2>1, StackFacts
  <1>5. p[1].op = op /\ p[1].t = t
    BY <1>4 DEF Then, Frame
  <1>6. j[1] = "turn" /\ j[2] = t
    BY <1>1 DEF AtTurn
  <1>7. StackOK(p, j, phase)
    <2>1. op \in OpsOf("turn") /\ op \notin Sends
      BY DEF OpsOf, Sends
    <2>2. \A k \in 1 .. 1 - 1 : FALSE
      OBVIOUS
    <2>3. FrameFits(p, 1, j, phase)
      BY <1>4, <1>5, <1>6, <2>1, <2>2 DEF FrameFits, BootOps
    <2> QED BY <1>4, <2>3 DEF StackOK
  <1>8. TurnMay(s, t, p)
    <2>1. FrameKnown(s, p[1]) /\ p[1].op \notin Sends
      BY <1>5 DEF FrameKnown, Sends, AtTurn
    <2> QED BY <1>4, <1>5, <2>1 DEF TurnMay, AtTurn
  <1>9. Inv(s, phase, {})
    BY DEF AtTurn
  <1>10. Inv(r, phase, {}) /\ r.mem = s.mem
    BY <1>1, <1>3, <1>7, <1>8, <1>9, TurnBegins
  <1> QED BY <1>1, <1>2, <1>3, <1>10 DEF AtTurn

\* LateAnswer.
LEMMA LateAnswerStep ==
  ASSUME IInv, NEW t \in Tasks, LateAnswer(t)
  PROVE  Onward
  <1>1. PICK j : j = ModelJob(t)
    OBVIOUS
  <1>2. jobs[j] # <<>> /\ jobs[j][1].op = "model" /\ j \in Jobs /\ phase' = phase
    BY <1>1, JobFacts DEF LateAnswer, At, Stay
  <1>3. PICK s : s = Pop(S, j)
    OBVIOUS
  <1>4. Do(s)
    BY <1>1, <1>3 DEF LateAnswer, Turn
  <1>5. Outcome(S, s, j, phase, {}) /\ phase # "down"
    BY <1>2, <1>3, TakesPlain DEF Sends
  <1> QED BY <1>2, <1>4, <1>5, OutcomeGood, Closes

\* RequestFails.
LEMMA RequestFailsStep ==
  ASSUME IInv, NEW t \in Tasks, NEW fit \in Fits, RequestFails(t, fit)
  PROVE  Onward
  <1>1. PICK s : s = Turn(t)
    OBVIOUS
  <1>2. AtTurn(s, t)
    BY <1>1, TurnTaken DEF RequestFails, At
  <1>3. PICK r : r = Throw(s, TurnJob(t), fit)
    OBVIOUS
  <1>4. Do(r) /\ phase' = phase
    BY <1>1, <1>3 DEF RequestFails, Stay
  <1>5. Good(r)
    BY <1>2, <1>3, TurnThrows
  <1> QED BY <1>2, <1>4, <1>5, Closes DEF AtTurn

\* AnswerRefused.
LEMMA AnswerRefusedStep ==
  ASSUME IInv, NEW t \in Tasks, NEW fit \in Fits, AnswerRefused(t, fit)
  PROVE  Onward
  <1>1. PICK s : s = Turn(t)
    OBVIOUS
  <1>2. AtTurn(s, t)
    BY <1>1, TurnTaken DEF AnswerRefused, At
  <1>3. PICK r : r = Reject(s, TurnJob(t), t, fit)
    OBVIOUS
  <1>4. Do(r) /\ phase' = phase
    BY <1>1, <1>3 DEF AnswerRefused, Stay
  <1>5. Good(r)
    BY <1>2, <1>3, TurnRejects
  <1> QED BY <1>2, <1>4, <1>5, Closes DEF AtTurn

\* EndCompaction.
LEMMA EndCompactionStep ==
  ASSUME IInv, NEW t \in Tasks, NEW fit \in Fits, EndCompaction(t, fit)
  PROVE  Onward
  <1>0. jobs[ModelJob(t)] # <<>> /\ jobs[ModelJob(t)][1].op = "compact" /\ phase' = phase /\ jobs[TurnJob(t)] = <<>>
    BY DEF EndCompaction, At, Stay
  <1>1. PICK s : s = Turn(t)
    OBVIOUS
  <1>2. CASE mem[t].st = "TERMINATED"
    <2>1. PICK j : j = ModelJob(t)
      OBVIOUS
    <2>2. j \in Jobs /\ jobs[j] # <<>> /\ jobs[j][1].op = "compact" /\ s = Pop(S, j)
      BY <1>0, <1>1, <2>1, JobFacts DEF Turn
    <2>3. Do(s)
      BY <1>1, <1>2 DEF EndCompaction
    <2>4. Outcome(S, s, j, phase, {}) /\ phase # "down"
      BY <2>2, TakesPlain DEF Sends
    <2> QED BY <1>0, <2>3, <2>4, OutcomeGood, Closes
  <1>3. CASE mem[t].st # "TERMINATED"
    <2>1. AtTurn(s, t)
      BY <1>0, <1>1, <1>3, TurnTaken
    <2>2. PICK b : b = [mem[t] EXCEPT !.packed = TRUE]
      OBVIOUS
    <2>3. PICK r1 : r1 = Requeue(s, TurnJob(t), t, b, fit)
      OBVIOUS
    <2>4. PICK r2 : r2 = terminateTask(s, TurnJob(t), t, "failed")
      OBVIOUS
    <2>5. Do(r1) \/ Do(r2)
      BY <1>1, <1>3, <2>2, <2>3, <2>4 DEF EndCompaction
    <2>6. Milder(mem[t], b, {}) /\ b.ask = mem[t].ask
      <3>1. Block(mem[t])
        BY <2>1 DEF AtTurn
      <3>2. /\ DOMAIN b = BlockFields /\ b.st = mem[t].st /\ b.ask = mem[t].ask /\ b.works = mem[t].works
            /\ b.graph = mem[t].graph
        BY <2>2, <3>1 DEF Block, BlockFields
      <3>3. GraphOK(b.graph)
        BY <3>1, <3>2 DEF Block
      <3> QED BY <3>1, <3>2, <3>3, FieldMild
    <2>7. Good(r1)
      BY <2>1, <2>3, <2>6, TurnRequeues
    <2>8. Good(r2)
      BY <2>1, <2>4, TurnTerminates
    <2> QED BY <1>0, <2>1, <2>5, <2>7, <2>8, Closes DEF AtTurn
  <1> QED BY <1>2, <1>3

\* The turn of an answer.
LEMMA AnswerTurn ==
  ASSUME IInv, NEW t \in Tasks, NEW a, Answered(t, a), NEW s, s = Turn(t)
  PROVE  AtTurn(s, t)
  BY TurnTaken DEF Answered, At

\* AnswerFinal.
LEMMA AnswerFinalStep ==
  ASSUME IInv, NEW t \in Tasks, NEW a, NEW fit \in Fits, AnswerFinal(t, a, fit)
  PROVE  Onward
  <1>1. PICK s : s = Turn(t)
    OBVIOUS
  <1>2. AtTurn(s, t)
    BY <1>1, AnswerTurn DEF AnswerFinal
  <1>3. PICK r1 : r1 = Reject(s, TurnJob(t), t, fit)
    OBVIOUS
  <1>4. PICK kind : kind = IF a.type = "final" THEN "completed" ELSE "needs_parent_action"
    OBVIOUS
  <1>5. PICK r2 : r2 = terminateTask(s, TurnJob(t), t, kind)
    OBVIOUS
  <1>6. (Do(r1) \/ Do(r2)) /\ phase' = phase
    BY <1>1, <1>3, <1>4, <1>5 DEF AnswerFinal, Stay
  <1>7. Good(r1)
    BY <1>2, <1>3, TurnRejects
  <1>8. Good(r2)
    BY <1>2, <1>5, TurnTerminates
  <1> QED BY <1>2, <1>6, <1>7, <1>8, Closes DEF AtTurn

\* AnswerWait.
LEMMA AnswerWaitStep ==
  ASSUME IInv, NEW t \in Tasks, NEW a, NEW fit \in Fits, AnswerWait(t, a, fit)
  PROVE  Onward
  <1>1. PICK s : s = Turn(t)
    OBVIOUS
  <1>2. AtTurn(s, t)
    BY <1>1, AnswerTurn DEF AnswerWait
  <1>3. PICK r1 : r1 = Throw(s, TurnJob(t), fit)
    OBVIOUS
  <1>4. PICK r2 : r2 = Push(s, TurnJob(t), <<Then("settle", t)>>)
    OBVIOUS
  <1>5. (Do(r1) \/ Do(r2)) /\ phase' = phase
    BY <1>1, <1>3, <1>4 DEF AnswerWait, Stay
  <1>6. Good(r1)
    BY <1>2, <1>3, TurnThrows
  <1>7. Good(r2)
    <2>1. Inv(r2, phase, {}) /\ r2.mem = mem
      BY <1>2, <1>4, TurnGoesOn
    <2>2. Falls(s, r2)
      BY <1>2, <2>1, FallsSame DEF AtTurn
    <2> QED BY <1>2, <2>1, <2>2, TurnFalls
  <1> QED BY <1>2, <1>5, <1>6, <1>7, Closes DEF AtTurn

\* AnswerGraph.
LEMMA AnswerGraphStep ==
  ASSUME IInv, NEW t \in Tasks, NEW a, a \in Answers[t], NEW fit \in Fits, AnswerGraph(t, a, fit)
  PROVE  Onward
  <1>1. PICK s : s = Turn(t)
    OBVIOUS
  <1>2. AtTurn(s, t)
    BY <1>1, AnswerTurn DEF AnswerGraph
  <1>3. PICK b : b = mem[t]
    OBVIOUS
  <1>4. PICK g : g = CASE a.type = "set_graph" -> createAgentWorkGraph(a.graph)
                      [] a.type = "complete_node" -> completeCurrentWorkGraphNode(b.graph)
                      [] a.type = "request_replan" -> requestCurrentWorkGraphReplan(b.graph)
    OBVIOUS
  <1>5. PICK revised : revised = IF a.type = "set_graph" /\ b.graph # NoGraph THEN appendContext(b) ELSE b
    OBVIOUS
  <1>6. PICK c : c = [revised EXCEPT !.graph = g]
    OBVIOUS
  <1>7. PICK r1 : r1 = Reject(s, TurnJob(t), t, fit)
    OBVIOUS
  <1>8. PICK r2 : r2 = Requeue(s, TurnJob(t), t, c, fit)
    OBVIOUS
  <1>9. a.type \in {"set_graph", "complete_node", "request_replan"} /\ phase' = phase /\ Answered(t, a)
    BY DEF AnswerGraph, Stay
  <1>10. Do(r1) \/ Do(r2)
    BY <1>1, <1>3, <1>4, <1>5, <1>6, <1>7, <1>8 DEF AnswerGraph
  <1>11. Good(r1)
    BY <1>2, <1>7, TurnRejects
  <1>12. Block(b) /\ GraphOK(b.graph)
    BY <1>2, <1>3 DEF AtTurn, Block
  <1>13. GraphOK(g)
    <2>1. CASE a.type = "set_graph"
      <3>1. g = createAgentWorkGraph(a.graph)
        BY <1>4, <2>1
      <3>2. IsFiniteSet(DOMAIN a.graph)
        BY <2>1, TaskAssumption
      <3>3. DOMAIN g = {"phase", "cur", "nodes"} /\ DOMAIN g.nodes = DOMAIN a.graph
        BY <3>1 DEF createAgentWorkGraph
      <3> QED BY <3>2, <3>3 DEF GraphOK
    <2>2. CASE a.type # "set_graph"
      <3>1. AnswerAllowed(b.graph, a)
        BY <1>3, <1>9 DEF Answered
      <3>2. b.graph # NoGraph
        <4>1. a.type \in {"complete_node", "request_replan"}
          BY <1>9, <2>2
        <4> QED BY <3>1, <4>1 DEF AnswerAllowed, agentWorkGraphMode
      <3>3. g = completeCurrentWorkGraphNode(b.graph) \/ g = requestCurrentWorkGraphReplan(b.graph)
        BY <1>4, <1>9, <2>2
      <3> QED BY <1>12, <3>2, <3>3, GraphOps
    <2> QED BY <2>1, <2>2
  <1>14. Block(revised) /\ revised.ask = b.ask /\ Milder(b, revised, {})
    <2>1. Milder(b, appendContext(b), {}) /\ appendContext(b).ask = b.ask /\ Block(appendContext(b))
      <3>1. Milder(b, appendContext(b), {}) /\ appendContext(b).ask = b.ask
        BY <1>12, ContextMild
      <3> QED BY <3>1 DEF Milder
    <2>2. Milder(b, b, {})
      BY <1>12, MilderSelf
    <2> QED BY <1>5, <1>12, <2>1, <2>2
  <1>15. Milder(revised, c, {}) /\ c.ask = revised.ask
    <2>1. /\ DOMAIN c = BlockFields /\ c.st = revised.st /\ c.ask = revised.ask /\ c.works = revised.works
          /\ c.graph = g
      BY <1>6, <1>14 DEF Block, BlockFields
    <2> QED BY <1>13, <1>14, <2>1, FieldMild
  <1>16. Milder(mem[t], c, {}) /\ c.ask = mem[t].ask
    BY <1>3, <1>14, <1>15, MilderThen
  <1>17. Good(r2)
    BY <1>2, <1>8, <1>16, TurnRequeues
  <1> QED BY <1>2, <1>9, <1>10, <1>11, <1>17, Closes DEF AtTurn

----------------------------------------------------------------------------
(* Timers and tool calls *)

\* TimerFires.
LEMMA TimerFiresStep ==
  ASSUME IInv, NEW t \in Tasks, NEW fit \in Fits, TimerFires(t, fit)
  PROVE  Onward
  <1>0. PICK j : j = <<"timer", t>>
    OBVIOUS
  <1>1. j \in Jobs /\ j[1] = "timer" /\ j[1] # "model"
    BY <1>0, JobFacts
  <1>2. phase # "down" /\ t \in timers /\ jobs[j] = <<>> /\ phase' = phase
    BY <1>0 DEF TimerFires, Stay
  <1>3. PICK s0 : s0 = CancelTimer(S, t)
    OBVIOUS
  <1>4. PICK s : s = [s0 EXCEPT !.wake = @ \cup {t}]
    OBVIOUS
  <1>5. PICK r1 : r1 = Persist(s, t)
    OBVIOUS
  <1>6. PICK s2 : s2 = Push(s, j, <<Then("unlock", t)>>)
    OBVIOUS
  <1>7. PICK r2 : r2 = deliverAsyncWorkUpdate(s2, j, t, fit)
    OBVIOUS
  <1>8. Do(r1) \/ Do(r2)
    BY <1>0, <1>3, <1>4, <1>5, <1>6, <1>7 DEF TimerFires
  <1>9. Inv(S, phase, {}) /\ Known(S, t) /\ Loose(S.jobs[j])
    BY <1>2, SFacts DEF IInv, Inv, ListsKnown, Loose
  <1>10. Outcome(S, s0, j, phase, {})
    BY <1>3, <1>9, CancelsTimer
  <1>11. Inv(s0, phase, {}) /\ Known(s0, t) /\ Loose(s0.jobs[j]) /\ DOMAIN s0 = Fields
    <2>1. Inv(s0, phase, {}) /\ Known(s0, t) /\ Loose(s0.jobs[j])
      BY <1>9, <1>10 DEF Outcome, Known
    <2> QED BY <2>1 DEF Inv, Typed, Fields
  <1>12. PICK wk : wk = s0.wake \cup {t}
    OBVIOUS
  <1>13. Rung(s0, s, s0.timers, wk)
    BY <1>4, <1>11, <1>12 DEF Rung, Is, Fields
  <1>14. \A x \in s0.timers \cup wk : Known(s0, x)
    BY <1>11, <1>12 DEF Inv, ListsKnown
  <1>15. Outcome(s0, s, j, phase, {})
    BY <1>11, <1>13, <1>14, Rings
  <1>16. Inv(s, phase, {}) /\ Known(s, t) /\ Loose(s.jobs[j]) /\ Outcome(S, s, j, phase, {})
    BY <1>10, <1>11, <1>15, OutcomeThen DEF Outcome, Known
  <1>17. Good(r1)
    <2>1. Outcome(s, r1, j, phase, {})
      BY <1>2, <1>5, <1>16, Persists
    <2>2. Outcome(S, r1, j, phase, {})
      BY <1>16, <2>1, OutcomeThen
    <2> QED BY <2>2, OutcomeGood
  <1>18. Good(r2)
    <2>1. Outcome(s, s2, j, phase, {})
      BY <1>1, <1>6, <1>16, PushesOne
    <2>2. Inv(s2, phase, {}) /\ Known(s2, t) /\ Loose(s2.jobs[j])
      BY <1>16, <2>1 DEF Outcome, Known
    <2>3. PICK L : L = {}
      OBVIOUS
    <2>4. Inv(s2, phase, L) /\ Without(L, t, L) /\ (L \subseteq L \/ (s2.mem[t].st = "READY" /\ hasUndeliveredAsyncWorkResults(s2.mem[t])))
      BY <2>2, <2>3 DEF Without
    <2>5. Outcome(s2, r2, j, phase, L)
      BY <1>1, <1>2, <1>7, <2>2, <2>4, Delivers
    <2>6. Outcome(s, r2, j, phase, {})
      BY <2>1, <2>3, <2>5, OutcomeThen
    <2>7. Outcome(S, r2, j, phase, {})
      BY <1>16, <2>6, OutcomeThen
    <2> QED BY <2>7, OutcomeGood
  <1> QED BY <1>2, <1>8, <1>17, <1>18, Closes

\* The result of a tool call is noted by its task.
LEMMA CallReports ==
  ASSUME NEW s, NEW ph, NEW L, Inv(s, ph, L), NEW t, Known(s, t), NEW c \in Calls, NEW st,
         NEW j \in Jobs, j[1] # "model", Loose(s.jobs[j])
  PROVE  Outcome(s, Push(Put(s, t, completeAsyncWork(s.mem[t], c, st)), j, <<Then("progress", t)>>), j, ph, L)
  <1>1. PICK b : b = completeAsyncWork(s.mem[t], c, st)
    OBVIOUS
  <1>2. Block(s.mem[t])
    BY DEF Known, Inv, Typed
  <1>3. Milder(s.mem[t], b, {c}) /\ b.st = s.mem[t].st /\ b.why = s.mem[t].why /\ b.ask = s.mem[t].ask
    BY <1>1, <1>2, CompleteMild
  <1>4. \A k \in Tasks : Born(s, k) => k \notin {c}
    BY TaskAssumption
  <1>5. Outcome(s, Push(Put(s, t, b), j, <<Then("progress", t)>>), j, ph, L)
    BY <1>3, <1>4, Reports
  <1> QED BY <1>1, <1>5

\* EndCall.
LEMMA EndCallStep ==
  ASSUME IInv, NEW c \in Calls, EndCall(c)
  PROVE  Onward
  <1>0. PICK j : j = <<"call", c>>
    OBVIOUS
  <1>1. j \in Jobs /\ j[1] # "model" /\ jobs[j] # <<>> /\ jobs[j][1].op = "exec" /\ phase' = phase
    BY <1>0, JobFacts DEF EndCall, At, Stay
  <1>2. PICK s : s = Pop(S, j)
    OBVIOUS
  <1>3. PICK t : t = jobs[j][1].t
    OBVIOUS
  <1>4. Do(s) \/ \E st : Do(Push(Put(s, t, completeAsyncWork(mem[t], c, st)), j, <<Then("progress", t)>>))
    BY <1>0, <1>2, <1>3 DEF EndCall
  <1>5. /\ Outcome(S, s, j, phase, {}) /\ FrameKnown(S, jobs[j][1])
        /\ phase # "down" /\ Inv(s, phase, {}) /\ Loose(s.jobs[j]) /\ s.mem = mem
        /\ \A x \in Tasks : Known(s, x) <=> Known(S, x)
    BY <1>1, <1>2, TakesPlain DEF Sends
  <1>6. Known(s, t)
    BY <1>1, <1>3, <1>5 DEF FrameKnown, Nameless, Sends, Known
  <1>7. ASSUME NEW st
        PROVE  Good(Push(Put(s, t, completeAsyncWork(mem[t], c, st)), j, <<Then("progress", t)>>))
    <2>1. PICK r : r = Push(Put(s, t, completeAsyncWork(s.mem[t], c, st)), j, <<Then("progress", t)>>)
      OBVIOUS
    <2>2. Outcome(s, r, j, phase, {})
      BY <1>1, <1>5, <1>6, <2>1, CallReports
    <2>3. Outcome(S, r, j, phase, {})
      BY <1>5, <2>2, OutcomeThen
    <2> QED BY <1>5, <2>1, <2>3, OutcomeGood
  <1>8. PICK r : Do(r) /\ Good(r)
    BY <1>4, <1>5, <1>7, OutcomeGood
  <1> QED BY <1>1, <1>5, <1>8, Closes

\* A call goes on with its tool.
LEMMA CallStack ==
  ASSUME NEW q, NEW j, NEW ph, StackOK(q, j, ph), j[1] = "call", q # <<>>, q[1].op = "start", NEW f, f.op = "exec"
  PROVE  StackOK(<<f>> \o Tail(q), j, ph)
  <1>1. IsStack(q) /\ \A i \in DOMAIN q : FrameFits(q, i, j, ph)
    BY DEF StackOK
  <1>2. Len(q) \in Nat /\ DOMAIN q = 1 .. Len(q) /\ Len(q) # 0
    BY <1>1, StackFacts
  <1>3. Suffix(Tail(q), q, 1)
    BY <1>1, SuffixTail
  <1>4. IsStack(Tail(q)) /\ Len(Tail(q)) = Len(q) - 1 /\ \A i \in 1 .. Len(q) - 1 : Tail(q)[i] = q[i + 1]
    BY <1>3 DEF Suffix
  <1>5. IsStack(<<f>>) /\ Len(<<f>>) = 1 /\ <<f>>[1] = f
    BY OneFrame
  <1>6. PICK p : p = <<f>> \o Tail(q)
    OBVIOUS
  <1>7. /\ IsStack(p) /\ Len(p) = Len(q) /\ p[1] = f /\ \A i \in 2 .. Len(q) : p[i] = Tail(q)[i - 1]
    <2>1. /\ IsStack(<<f>> \o Tail(q)) /\ Len(<<f>> \o Tail(q)) = 1 + (Len(q) - 1)
          /\ \A i \in 1 .. 1 : (<<f>> \o Tail(q))[i] = <<f>>[i]
          /\ \A i \in 1 + 1 .. 1 + (Len(q) - 1) : (<<f>> \o Tail(q))[i] = Tail(q)[i - 1]
      BY <1>4, <1>5, StackOn
    <2> QED BY <1>2, <1>5, <1>6, <2>1
  <1>8. \A i \in 2 .. Len(q) : p[i] = q[i]
    BY <1>2, <1>4, <1>7
  <1>9. DOMAIN p = 1 .. Len(q)
    BY <1>7, StackFacts
  <1>10. \A i \in DOMAIN q : q[i].op \in Casc \cup {"start", "exec"}
    BY <1>1 DEF FrameFits, OpsOf
  <1>11. \A i \in 2 .. Len(q) : q[i].op \notin {"cancel", "notify"}
    BY <1>1, <1>2 DEF FrameFits, Casc
  <1>12. \A i \in 1 .. Len(q) : p[i].op \in {"progress", "deliver", "unlock", "start", "exec"}
    BY <1>2, <1>7, <1>8, <1>10, <1>11 DEF Casc
  <1>13. \A i \in DOMAIN p : FrameFits(p, i, j, ph)
    <2>1. SUFFICES ASSUME NEW i \in 1 .. Len(q) PROVE FrameFits(p, i, j, ph)
      BY <1>9
    <2>2. p[i].op \in {"progress", "deliver", "unlock", "start", "exec"}
      BY <1>12
    <2>3. p[i].op \in OpsOf(j[1])
      BY <2>2 DEF OpsOf, Casc
    <2> QED BY <2>2, <2>3 DEF FrameFits, Heads, Sends, BootOps
  <1> QED BY <1>6, <1>7, <1>13 DEF StackOK

\* A function goes on with frames that stand where they belong.
LEMMA PushesInto ==
  ASSUME NEW s, NEW ph, NEW L, Inv(s, ph, L), NEW j \in Jobs, j[1] # "model", NEW p, IsStack(p), Len(p) # 0,
         StackOK(p \o s.jobs[j], j, ph),
         \A i \in DOMAIN p : p[i].op \in Plain /\ FrameKnown(s, p[i]),
         NEW r, r = Push(s, j, p)
  PROVE  Inv(r, ph, L) /\ r.mem = s.mem
  <1>0. PICK q : q = p \o s.jobs[j]
    OBVIOUS
  <1>1. DOMAIN s = Fields /\ DOMAIN s.jobs = Jobs /\ \A i \in Jobs : StackOK(s.jobs[i], i, ph)
    BY DEF Inv, Typed, Fields, Stacks
  <1>2. PICK jo : jo = [s.jobs EXCEPT ![j] = p \o @]
    OBVIOUS
  <1>3. DOMAIN jo = Jobs /\ jo[j] = q /\ \A i \in Jobs : i # j => jo[i] = s.jobs[i]
    BY <1>0, <1>1, <1>2
  <1>4. Is(r, s.mem, s.disk, s.queue, s.packing, s.timers, s.wake, s.pool, jo)
    BY <1>1, <1>2, Shapes
  <1>5. r.jobs = jo /\ r.mem = s.mem
    BY <1>4 DEF Is
  <1>6. Stacks(r, ph)
    BY <1>0, <1>1, <1>3, <1>5 DEF Stacks
  <1>7. IsStack(s.jobs[j]) /\ Len(p) \in Nat /\ DOMAIN p = 1 .. Len(p)
    BY <1>1, StackFacts DEF StackOK
  <1>8. ToSet(q) = ToSet(p) \cup ToSet(s.jobs[j]) /\ q[1] = p[1] /\ 1 \in DOMAIN p
    <2>1. \A i \in 1 .. Len(p) : (p \o s.jobs[j])[i] = p[i]
      BY <1>7, StackOn
    <2>2. 1 \in 1 .. Len(p)
      BY <1>7
    <2>3. ToSet(p \o s.jobs[j]) = ToSet(p) \cup ToSet(s.jobs[j])
      BY <1>7, StackOn
    <2> QED BY <1>0, <1>7, <2>1, <2>2, <2>3
  <1>9. Held(r, j) = ToSet(p) \cup Held(s, j) /\ \A i \in Jobs : i # j => Held(r, i) = Held(s, i)
    BY <1>3, <1>5, <1>8 DEF Held
  <1>10. Dropped(s, r, L)
    BY <1>9 DEF Dropped
  <1>11. \A f \in ToSet(p) : f.op \in Plain /\ FrameKnown(s, f)
    <2>1. SUFFICES ASSUME NEW f \in ToSet(p) PROVE f.op \in Plain /\ FrameKnown(s, f)
      OBVIOUS
    <2>2. PICK i \in 1 .. Len(p) : p[i] = f
      BY StackFacts
    <2> QED BY <1>7, <2>2
  <1>12. \A i \in Jobs : \A f \in Held(r, i) : f \in Held(s, i) \/ (f.op \in Plain /\ FrameKnown(s, f))
    BY <1>9, <1>11
  <1>13. \A i \in Jobs : i[1] = "model" /\ s.jobs[i] = <<>> => jo[i] = <<>>
    BY <1>3
  <1>14. \A i \in Jobs : \A c : HopAt(r, i, c) => jo[i] = s.jobs[i]
    <2>1. SUFFICES ASSUME NEW c, HopAt(r, j, c) PROVE FALSE
      BY <1>3
    <2>2. p[1].op \in {"publish", "advance"} /\ p[1].op \in Plain
      BY <1>3, <1>5, <1>8, <2>1 DEF HopAt
    <2> QED BY <2>2 DEF Plain, Casc
  <1>15. Inv(r, ph, L)
    BY <1>3, <1>4, <1>6, <1>10, <1>12, <1>13, <1>14, Calm
  <1> QED BY <1>5, <1>15

\* StartCall.
LEMMA StartCallStep ==
  ASSUME IInv, NEW c \in Calls, StartCall(c)
  PROVE  Onward
  <1>0. PICK j : j = <<"call", c>>
    OBVIOUS
  <1>1. j \in Jobs /\ j[1] = "call" /\ jobs[j] # <<>> /\ jobs[j][1].op = "start" /\ phase' = phase
    BY <1>0, JobFacts DEF StartCall, At, Stay
  <1>2. PICK s : s = Pop(S, j)
    OBVIOUS
  <1>3. PICK t : t = jobs[j][1].t
    OBVIOUS
  <1>a. PICK e : e = [s EXCEPT !.ran = @ \cup {c}]
    OBVIOUS
  <1>b. PICK b : b = consumeCapabilityGrant(mem[t], Used(mem[t].grants, Needs[c], c), c)
    OBVIOUS
  <1>4. \/ Do(s)
        \/ Do(Push(Put(s, t, completeAsyncWork(mem[t], c, "failed")), j, <<Then("progress", t)>>))
        \/ Do(Push(Persist(Put(e, t, b), t), j, <<Then("exec", t)>>))
    BY <1>0, <1>2, <1>3, <1>a, <1>b DEF StartCall
  <1>5. /\ Outcome(S, s, j, phase, {}) /\ FrameKnown(S, jobs[j][1]) /\ Popped(S, s, j)
        /\ phase # "down" /\ Inv(S, phase, {}) /\ Inv(s, phase, {}) /\ Loose(s.jobs[j]) /\ s.mem = mem
        /\ \A x \in Tasks : Known(s, x) <=> Known(S, x)
    BY <1>1, <1>2, TakesPlain DEF Sends
  <1>6. Known(s, t) /\ t \in Tasks
    BY <1>1, <1>3, <1>5 DEF FrameKnown, Nameless, Sends, Known
  <1>7. Good(Push(Put(s, t, completeAsyncWork(mem[t], c, "failed")), j, <<Then("progress", t)>>))
    <2>1. PICK r : r = Push(Put(s, t, completeAsyncWork(s.mem[t], c, "failed")), j, <<Then("progress", t)>>)
      OBVIOUS
    <2>2. Outcome(s, r, j, phase, {})
      BY <1>1, <1>5, <1>6, <2>1, CallReports
    <2>3. Outcome(S, r, j, phase, {})
      BY <1>5, <2>2, OutcomeThen
    <2> QED BY <1>5, <2>1, <2>3, OutcomeGood
  <1>8. Good(Push(Persist(Put(e, t, b), t), j, <<Then("exec", t)>>))
    <2>0. PICK ti, wk : ti = s.timers /\ wk = s.wake
      OBVIOUS
    <2>1. DOMAIN s = Fields /\ Rung(s, e, ti, wk)
      BY <1>5, <1>a, <2>0 DEF Inv, Typed, Rung, Is, Fields
    <2>2. \A x \in ti \cup wk : Known(s, x)
      BY <1>5, <2>0 DEF Inv, ListsKnown
    <2>a. PICK ph, E : ph = phase /\ E = {}
      OBVIOUS
    <2>b. Inv(s, ph, E) /\ Loose(s.jobs[j])
      BY <1>5, <2>a
    <2>c. Outcome(s, e, j, ph, E) /\ e.mem = s.mem /\ e.jobs = s.jobs
      BY <2>b, <2>1, <2>2, Rings
    <2>3. Outcome(s, e, j, phase, {}) /\ e.mem = s.mem /\ e.jobs = s.jobs
      BY <2>a, <2>c
    <2>4. Inv(e, phase, {}) /\ Known(e, t) /\ Loose(e.jobs[j])
      BY <1>6, <2>3 DEF Outcome
    <2>5. Block(e.mem[t])
      BY <2>4 DEF Known, Inv, Typed
    <2>x. PICK X : X = {}
      OBVIOUS
    <2>6. Milder(e.mem[t], b, X) /\ b.st = e.mem[t].st /\ b.why = e.mem[t].why /\ b.ask = e.mem[t].ask
      BY <1>5, <1>b, <2>3, <2>5, GrantsMild
    <2>7. PICK m : m = Put(e, t, b)
      OBVIOUS
    <2>8. \A k \in Tasks : Born(e, k) => k \notin X
      BY <2>x
    <2>9. Outcome(e, m, j, phase, {}) /\ Replaced(e, t, b, m)
      BY <2>4, <2>6, <2>7, <2>8, Notes
    <2>10. Inv(m, phase, {}) /\ Known(m, t) /\ Loose(m.jobs[j]) /\ m.jobs = s.jobs
      BY <2>3, <2>4, <2>9, <1>6 DEF Outcome, Replaced
    <2>11. PICK w : w = Persist(m, t)
      OBVIOUS
    <2>12. Outcome(m, w, j, phase, {}) /\ w.jobs = m.jobs
      BY <1>5, <2>10, <2>11, Persists
    <2>13. Outcome(S, w, j, phase, {})
      <3>1. Outcome(S, e, j, phase, {})
        BY <1>5, <2>3, OutcomeThen
      <3>2. Outcome(S, m, j, phase, {})
        BY <2>9, <3>1, OutcomeThen
      <3> QED BY <2>12, <3>2, OutcomeThen
    <2>14. Inv(w, phase, {}) /\ Known(w, t) /\ Falls(S, w)
      BY <1>6, <2>12, <2>13, <2>10 DEF Outcome
    <2>15. PICK f : f = Then("exec", t)
      OBVIOUS
    <2>16. f.op = "exec" /\ f.t = t
      BY <2>15 DEF Then, Frame
    <2>17. FrameKnown(w, f) /\ f.op \in Plain
      BY <2>14, <2>16 DEF FrameKnown, Nameless, Sends, Plain
    <2>18. w.jobs[j] = Tail(S.jobs[j])
      BY <1>1, <1>5, <2>10, <2>12 DEF Popped
    <2>19. StackOK(S.jobs[j], j, phase) /\ S.jobs[j] = jobs[j]
      BY <1>1, <1>5, SFacts DEF Inv, Stacks
    <2>20. StackOK(<<f>> \o w.jobs[j], j, phase)
      BY <1>1, <2>16, <2>18, <2>19, CallStack
    <2>21. PICK r : r = Push(w, j, <<f>>)
      OBVIOUS
    <2>y. PICK p : p = <<f>>
      OBVIOUS
    <2>22. IsStack(p) /\ Len(p) # 0 /\ \A i \in DOMAIN p : p[i].op \in Plain /\ FrameKnown(w, p[i])
      BY <2>17, <2>y, OneFrame
    <2>z. StackOK(p \o w.jobs[j], j, ph) /\ r = Push(w, j, p) /\ j \in Jobs /\ j[1] # "model" /\ Inv(w, ph, E)
      BY <1>1, <2>14, <2>20, <2>21, <2>a, <2>y
    <2>d. Inv(r, ph, E) /\ r.mem = w.mem
      BY <2>22, <2>z, PushesInto
    <2>23. Inv(r, phase, {}) /\ r.mem = w.mem
      BY <2>a, <2>d
    <2>24. Falls(S, r)
      BY <2>14, <2>23 DEF Falls
    <2>25. Good(r)
      BY <1>5, <2>23, <2>24, FallsLegal DEF Good
    <2> QED BY <2>7, <2>11, <2>15, <2>21, <2>25
  <1>9. PICK r : Do(r) /\ Good(r)
    BY <1>4, <1>5, <1>7, <1>8, OutcomeGood
  <1> QED BY <1>1, <1>5, <1>9, Closes

\* A call is appended to what the job of the call has to do.
LEMMA CallAppended ==
  ASSUME NEW q, NEW j, NEW ph, StackOK(q, j, ph), j[1] = "call", NEW f, f.op = "start", NEW r, r = Append(q, f)
  PROVE  StackOK(r, j, ph) /\ ToSet(r) = ToSet(q) \cup {f} /\ r # <<>> /\ r[1].op \notin {"publish", "advance"}
  <1>1. IsStack(q) /\ \A i \in DOMAIN q : FrameFits(q, i, j, ph)
    BY DEF StackOK
  <1>2. Len(q) \in Nat /\ DOMAIN q = 1 .. Len(q)
    BY <1>1, StackFacts
  <1>3. r = q \o <<f>>
    BY <1>1 DEF IsStack
  <1>4. IsStack(<<f>>) /\ Len(<<f>>) = 1 /\ <<f>>[1] = f /\ ToSet(<<f>>) = {f}
    BY OneFrame DEF ToSet
  <1>5. /\ IsStack(r) /\ Len(r) = Len(q) + 1 /\ ToSet(r) = ToSet(q) \cup {f}
        /\ \A i \in 1 .. Len(q) : r[i] = q[i]
        /\ \A i \in Len(q) + 1 .. Len(q) + 1 : r[i] = <<f>>[i - Len(q)]
    BY <1>1, <1>3, <1>4, StackOn
  <1>6. r[Len(q) + 1] = f
    BY <1>2, <1>4, <1>5
  <1>7. DOMAIN r = 1 .. Len(q) + 1
    BY <1>5, StackFacts
  <1>8. \A i \in DOMAIN q : q[i].op \in Casc \cup {"start", "exec"}
    BY <1>1 DEF FrameFits, OpsOf
  <1>9. \A i \in DOMAIN r : r[i].op \in Casc \cup {"start", "exec"}
    <2>1. SUFFICES ASSUME NEW i \in 1 .. Len(q) + 1 PROVE r[i].op \in Casc \cup {"start", "exec"}
      BY <1>7
    <2>2. i \in 1 .. Len(q) \/ i = Len(q) + 1
      BY <1>2
    <2> QED BY <1>2, <1>5, <1>6, <1>8, <2>2
  <1>10. \A i \in DOMAIN r : r[i].op \in {"cancel", "notify"} => \A k \in 1 .. i - 1 : r[k].op \in Casc
    <2>1. SUFFICES ASSUME NEW i \in 1 .. Len(q) + 1, r[i].op \in {"cancel", "notify"}, NEW k \in 1 .. i - 1
                   PROVE  r[k].op \in Casc
      BY <1>7
    <2>2. i \in 1 .. Len(q)
      BY <1>2, <1>6, <2>1
    <2>3. k \in 1 .. Len(q) /\ r[i] = q[i] /\ r[k] = q[k]
      BY <1>2, <1>5, <2>2
    <2>4. FrameFits(q, i, j, ph)
      BY <1>1, <1>2, <2>2
    <2> QED BY <2>1, <2>3, <2>4 DEF FrameFits
  <1>11. \A i \in DOMAIN r : FrameFits(r, i, j, ph)
    <2>1. SUFFICES ASSUME NEW i \in DOMAIN r PROVE FrameFits(r, i, j, ph)
      OBVIOUS
    <2>2. r[i].op \in {"cancel", "notify", "progress", "deliver", "unlock", "start", "exec"}
      BY <1>9 DEF Casc
    <2>3. r[i].op \in OpsOf(j[1])
      BY <2>2 DEF OpsOf, Casc
    <2>4. r[i].op \in {"cancel", "notify"} => \A k \in 1 .. i - 1 : r[k].op \in Casc
      BY <1>10
    <2> QED BY <2>2, <2>3, <2>4 DEF FrameFits, Heads, Sends, BootOps
  <1>12. r # <<>> /\ 1 \in DOMAIN r
    BY <1>2, <1>5, <1>7, StackFacts
  <1>13. r[1].op \notin {"publish", "advance"}
    BY <1>9, <1>12 DEF Casc
  <1> QED BY <1>5, <1>11, <1>12, <1>13 DEF StackOK

\* executeAsyncToolCalls.
LEMMA Launches ==
  ASSUME NEW s, NEW ph, NEW L, Inv(s, ph, L), NEW t, Known(s, t), NEW calls, NEW r, r = Launch(s, t, calls)
  PROVE  Inv(r, ph, L) /\ r.mem = s.mem
  <1>1. DOMAIN s = Fields /\ DOMAIN s.jobs = Jobs /\ \A i \in Jobs : StackOK(s.jobs[i], i, ph)
    BY DEF Inv, Typed, Fields, Stacks
  <1>2. PICK jo : jo = r.jobs
    OBVIOUS
  <1>3. /\ DOMAIN jo = Jobs
        /\ Is(r, s.mem, s.disk, s.queue, s.packing, s.timers, s.wake, s.pool, jo)
    BY <1>1, <1>2 DEF Launch, Is, Fields
  <1>4. ASSUME NEW j \in Jobs
        PROVE  \/ jo[j] = s.jobs[j]
               \/ j[1] = "call" /\ \E x : jo[j] = Append(s.jobs[j], Frame("start", t, x))
    <2>1. jo[j] = IF \E i \in DOMAIN calls : j = <<"call", calls[i]>>
                  THEN LET i == CHOOSE i \in DOMAIN calls : j = <<"call", calls[i]>>
                       IN  Append(s.jobs[j], Frame("start", t, SetToSeq(Earlier(calls, i))))
                  ELSE s.jobs[j]
      BY <1>1, <1>2 DEF Launch, Fields
    <2>2. CASE \E i \in DOMAIN calls : j = <<"call", calls[i]>>
      <3>1. j[1] = "call"
        BY <2>2
      <3>2. PICK x : x = SetToSeq(Earlier(calls, CHOOSE i \in DOMAIN calls : j = <<"call", calls[i]>>))
        OBVIOUS
      <3>3. jo[j] = Append(s.jobs[j], Frame("start", t, x))
        BY <2>1, <2>2, <3>2
      <3> QED BY <3>1, <3>3
    <2>3. CASE ~ \E i \in DOMAIN calls : j = <<"call", calls[i]>>
      BY <2>1, <2>3
    <2> QED BY <2>2, <2>3
  <1>5. ASSUME NEW j \in Jobs
        PROVE  /\ StackOK(jo[j], j, ph)
               /\ \A f \in ToSet(s.jobs[j]) : f \in ToSet(jo[j])
               /\ \A f \in ToSet(jo[j]) : f \in ToSet(s.jobs[j]) \/ (f.op = "start" /\ f.t = t)
               /\ jo[j] = s.jobs[j] \/ (j[1] = "call" /\ jo[j][1].op \notin {"publish", "advance"})
    <2>1. CASE jo[j] = s.jobs[j]
      BY <1>1, <2>1
    <2>2. CASE j[1] = "call" /\ \E x : jo[j] = Append(s.jobs[j], Frame("start", t, x))
      <3>1. PICK x : jo[j] = Append(s.jobs[j], Frame("start", t, x))
        BY <2>2
      <3>2. PICK f : f = Frame("start", t, x)
        OBVIOUS
      <3>3. f.op = "start" /\ f.t = t
        BY <3>2 DEF Frame
      <3>a. PICK q, u : q = s.jobs[j] /\ u = jo[j]
        OBVIOUS
      <3>4. StackOK(q, j, ph) /\ u = Append(q, f) /\ j[1] = "call"
        BY <1>1, <2>2, <3>1, <3>2, <3>a
      <3>b. StackOK(u, j, ph) /\ ToSet(u) = ToSet(q) \cup {f} /\ u[1].op \notin {"publish", "advance"}
        BY <3>3, <3>4, CallAppended
      <3>5. /\ StackOK(jo[j], j, ph) /\ ToSet(jo[j]) = ToSet(s.jobs[j]) \cup {f}
            /\ jo[j][1].op \notin {"publish", "advance"}
        BY <3>a, <3>b
      <3> QED BY <2>2, <3>3, <3>5
    <2> QED BY <1>4, <2>1, <2>2
  <1>6. r.jobs = jo /\ r.mem = s.mem
    BY <1>3 DEF Is
  <1>7. Stacks(r, ph)
    BY <1>5, <1>6 DEF Stacks
  <1>8. Dropped(s, r, L)
    BY <1>5, <1>6 DEF Dropped, Held
  <1>9. \A f : f.op = "start" /\ f.t = t => f.op \in Plain /\ FrameKnown(s, f)
    BY DEF Plain, FrameKnown, Nameless, Sends
  <1>10. \A i \in Jobs : \A f \in Held(r, i) : f \in Held(s, i) \/ (f.op \in Plain /\ FrameKnown(s, f))
    BY <1>5, <1>6, <1>9 DEF Held
  <1>11. \A i \in Jobs : i[1] = "model" /\ s.jobs[i] = <<>> => jo[i] = <<>>
    BY <1>5
  <1>12. \A i \in Jobs : \A c : HopAt(r, i, c) => jo[i] = s.jobs[i]
    BY <1>5, <1>6 DEF HopAt
  <1>13. Inv(r, ph, L)
    BY <1>3, <1>7, <1>8, <1>10, <1>11, <1>12, Calm
  <1> QED BY <1>6, <1>13

\* LaunchCalls.
LEMMA LaunchCallsStep ==
  ASSUME IInv, NEW j \in Jobs, LaunchCalls(j)
  PROVE  Onward
  <1>1. jobs[j] # <<>> /\ jobs[j][1].op = "launch" /\ phase' = phase
    BY DEF LaunchCalls, At, Stay
  <1>2. PICK s : s = Pop(S, j)
    OBVIOUS
  <1>3. PICK t, calls : t = jobs[j][1].t /\ calls = jobs[j][1].x
    OBVIOUS
  <1>4. PICK r : r = Launch(s, t, calls)
    OBVIOUS
  <1>5. Do(r)
    BY <1>2, <1>3, <1>4 DEF LaunchCalls
  <1>6. /\ Outcome(S, s, j, phase, {}) /\ FrameKnown(S, jobs[j][1])
        /\ phase # "down" /\ Inv(S, phase, {}) /\ Inv(s, phase, {}) /\ s.mem = mem /\ S.mem = mem
        /\ \A x \in Tasks : Known(s, x) <=> Known(S, x)
    BY <1>1, <1>2, TakesPlain DEF Sends
  <1>7. Known(s, t) /\ t \in Tasks
    BY <1>1, <1>3, <1>6 DEF FrameKnown, Nameless, Sends, Known
  <1>8. Inv(r, phase, {}) /\ r.mem = s.mem
    BY <1>4, <1>6, <1>7, Launches
  <1>9. Falls(S, r)
    BY <1>6, <1>8, FallsSame
  <1>10. Good(r)
    BY <1>6, <1>8, <1>9, FallsLegal DEF Good
  <1> QED BY <1>1, <1>5, <1>6, <1>10, Closes

----------------------------------------------------------------------------
(* The end of a turn that waits for work *)

\* Job j has taken the settling of p out of its stack, and p is still in its turn.
AtSettle(s, j, p) ==
  /\ Outcome(S, s, j, phase, {}) /\ Inv(s, phase, {}) /\ Loose(s.jobs[j])
  /\ s.mem = mem /\ S.mem = mem /\ p \in Tasks /\ Known(s, p) /\ mem[p].st = "RUNNING" /\ Block(mem[p])
  /\ Free(s, p) /\ (j[1] = "turn" => j[2] = p /\ ~InLoop(s, p))
  /\ \A i \in Jobs : HopAt(s, i, p) => Pending(mem[p])
  /\ activeAsyncWorkPendingIds(mem[p]) = {} => Light(s, j)
  /\ phase # "down" /\ j \in Jobs /\ j[1] # "model"

LEMMA SettleTaken ==
  ASSUME IInv, NEW j \in Jobs, jobs[j] # <<>>, jobs[j][1].op = "settle", NEW p, p = jobs[j][1].t,
         mem[p].st = "RUNNING", NEW s, s = Pop(S, j)
  PROVE  AtSettle(s, j, p)
  <1>1. /\ Outcome(S, s, j, phase, {}) /\ Popped(S, s, j) /\ FrameKnown(S, jobs[j][1]) /\ FrameFits(jobs[j], 1, j, phase)
        /\ phase # "down" /\ Inv(S, phase, {}) /\ Inv(s, phase, {}) /\ s.mem = mem /\ S.mem = mem /\ Loose(s.jobs[j])
        /\ \A x \in Tasks : Known(s, x) <=> Known(S, x)
    BY TakesPlain DEF Sends
  <1>2. PICK q : q = jobs[j]
    OBVIOUS
  <1>3. q = S.jobs[j] /\ StackOK(q, j, phase) /\ IsStack(q) /\ q # <<>> /\ q[1].op = "settle" /\ q[1].t = p
    BY <1>1, <1>2, SFacts DEF Inv, Stacks, StackOK
  <1>4. Len(q) \in Nat \ {0} /\ DOMAIN q = 1 .. Len(q) /\ \A i \in 1 .. Len(q) : FrameFits(q, i, j, phase)
    BY <1>3, StackFacts DEF StackOK
  <1>5. PICK u : u = s.jobs[j]
    OBVIOUS
  <1>6. u = Tail(q) /\ Suffix(u, q, 1)
    BY <1>1, <1>3, <1>5, SuffixTail DEF Popped
  <1>7. IsStack(u) /\ Len(u) = Len(q) - 1 /\ (\A i \in 1 .. Len(q) - 1 : u[i] = q[i + 1])
    BY <1>6 DEF Suffix
  <1>8. \A f \in ToSet(u) : \E i \in 2 .. Len(q) : q[i] = f
    <2>1. SUFFICES ASSUME NEW f \in ToSet(u) PROVE \E i \in 2 .. Len(q) : q[i] = f
      OBVIOUS
    <2>2. PICK i \in 1 .. Len(u) : u[i] = f
      BY <1>7, StackFacts
    <2>3. i + 1 \in 2 .. Len(q) /\ q[i + 1] = f
      BY <1>4, <1>7, <2>2
    <2> QED BY <2>3
  <1>9. ASSUME NEW i \in 2 .. Len(q)
        PROVE  /\ q[i].op \notin Heads \cup {"continue", "cancel", "resume", "orphan"}
               /\ q[i].op \in Sends => Parent[q[i].t] = p
    <2>1. i \in 1 .. Len(q) /\ i # 1 /\ 1 \in 1 .. i - 1 /\ i \in DOMAIN q
      BY <1>4
    <2>2. FrameFits(q, i, j, phase) /\ FrameFits(q, 1, j, phase)
      BY <1>4, <2>1
    <2>3. q[i].op \notin Heads
      BY <2>1, <2>2 DEF FrameFits
    <2>4. q[i].op \notin {"continue", "cancel"}
      <3>1. q[1].op \notin Casc \cup {"publish", "advance"}
        BY <1>3 DEF Casc
      <3> QED BY <2>1, <2>2, <3>1 DEF FrameFits
    <2>5. j # <<"host">>
      <3>1. j[1] \in {"turn", "loop"}
        BY <1>3, <2>2, Kinds
      <3> QED BY <3>1, JobFacts
    <2>6. q[i].op \notin {"resume", "orphan"}
      BY <2>2, <2>5, Kinds DEF BootOps
    <2>7. q[i].op \in Sends => Parent[q[i].t] = p
      BY <1>3, <2>1, <2>2 DEF FrameFits
    <2> QED BY <2>3, <2>4, <2>6, <2>7
  <1>10. \A f \in ToSet(u) : /\ f.op \notin Heads \cup {"continue", "cancel", "resume", "orphan"}
                             /\ f.op \in Sends => Parent[f.t] = p
    BY <1>8, <1>9
  <1>11. Known(s, p) /\ Known(S, p) /\ p \in Tasks /\ Block(mem[p])
    <2>1. Known(S, p)
      BY <1>1, <1>2, <1>3 DEF FrameKnown, Nameless, Sends
    <2> QED BY <1>1, <2>1 DEF Known, Inv, Typed
  <1>12. j[1] \in {"turn", "loop"} /\ (j[1] = "turn" => j[2] = p /\ j = TurnJob(p)) /\ (j[1] = "loop" => j = <<"loop">>)
    <2>1. FrameFits(q, 1, j, phase)
      BY <1>4
    <2>2. j[1] \in {"turn", "loop"}
      BY <1>3, <2>1, Kinds
    <2>3. j[1] = "turn" => j[2] = p
      BY <1>3, <2>1 DEF FrameFits
    <2> QED BY <2>2, <2>3, JobFacts
  <1>13. HandlesFor(S, p, mem[p])
    BY <1>1, <1>11 DEF Inv, Handles, HandlesOf
  <1>14. S.jobs[ModelJob(p)] = <<>> /\ (j[1] = "turn" => ~InLoop(S, p)) /\ (j[1] = "loop" => ~Hot(S, p))
    <2>1. q[1] \in Held(S, j)
      BY <1>3, <1>4, StackFacts DEF Held
    <2>2. CASE j[1] = "turn"
      <3>1. Hot(S, p)
        BY <1>3, <1>12, <2>1, <2>2 DEF Hot
      <3> QED BY <1>13, <2>2, <3>1 DEF HandlesFor
    <2>3. CASE j[1] = "loop"
      <3>1. InLoop(S, p)
        BY <1>3, <1>12, <2>1, <2>3 DEF InLoop, Holds
      <3> QED BY <1>13, <2>3, <3>1 DEF HandlesFor
    <2> QED BY <1>12, <2>2, <2>3
  <1>15. /\ TurnJob(p) \in Jobs /\ ModelJob(p) \in Jobs /\ <<"loop">> \in Jobs
         /\ ModelJob(p)[1] = "model" /\ TurnJob(p)[1] = "turn" /\ <<"loop">>[1] = "loop"
    BY <1>11, JobFacts
  <1>16. s.jobs[ModelJob(p)] = <<>>
    BY <1>1, <1>12, <1>14, <1>15 DEF Popped
  <1>17. Held(s, j) = ToSet(u) /\ \A i \in Jobs : i # j => Held(s, i) = Held(S, i) /\ s.jobs[i] = S.jobs[i]
    BY <1>1, <1>5 DEF Popped, Held
  <1>18. ~Looped(s, p) /\ (j[1] = "turn" => ~InLoop(s, p))
    <2>1. CASE j[1] = "turn"
      <3>1. Held(s, <<"loop">>) = Held(S, <<"loop">>)
        BY <1>15, <1>17, <2>1
      <3> QED BY <1>14, <2>1, <3>1 DEF Looped, InLoop, Holds
    <2>2. CASE j[1] = "loop"
      <3>1. Held(s, <<"loop">>) = ToSet(u)
        BY <1>12, <1>17, <2>2
      <3> QED BY <1>10, <2>2, <3>1 DEF Looped, Holds, Heads
    <2> QED BY <1>12, <2>1, <2>2
  <1>19. ~Holds(s, p, TurnJob(p), {"settle", "continue"}) /\ ~OwnHop(s, TurnJob(p))
    <2>1. CASE j[1] = "turn"
      <3>1. Held(s, TurnJob(p)) = ToSet(u) /\ s.jobs[TurnJob(p)] = u
        BY <1>5, <1>12, <1>17, <2>1
      <3>2. Len(u) = 1 => u[1] \in ToSet(u)
        BY <1>7, StackFacts
      <3> QED BY <1>10, <3>1, <3>2 DEF Holds, OwnHop, Heads
    <2>2. CASE j[1] = "loop"
      <3>1. Held(s, TurnJob(p)) = Held(S, TurnJob(p)) /\ s.jobs[TurnJob(p)] = S.jobs[TurnJob(p)]
        BY <1>15, <1>17, <2>2
      <3>2. \A f \in Held(S, TurnJob(p)) : f.op \notin {"settle", "publish", "advance", "continue"}
        BY <1>14, <2>2 DEF Hot
      <3>3. Len(S.jobs[TurnJob(p)]) = 1 => S.jobs[TurnJob(p)][1] \in Held(S, TurnJob(p))
        <4>1. IsStack(S.jobs[TurnJob(p)])
          BY <1>1, <1>15 DEF Inv, Stacks, StackOK
        <4> QED BY <4>1, StackFacts DEF Held
      <3> QED BY <3>1, <3>2, <3>3 DEF Holds, OwnHop
    <2> QED BY <1>12, <2>1, <2>2
  <1>20. Free(s, p)
    BY <1>16, <1>18, <1>19 DEF Free
  <1>21. \A i \in Jobs : HopAt(s, i, p) => Pending(mem[p])
    BY <1>1, <1>11 DEF Inv, Asks, AsksOf
  <1>22. ASSUME activeAsyncWorkPendingIds(mem[p]) = {} PROVE Light(s, j)
    <2>1. SUFFICES ASSUME NEW f \in ToSet(u) PROVE f.op \notin Sends
      BY <1>10, <1>17 DEF Light
    <2>2. SUFFICES ASSUME f.op \in Sends PROVE FALSE
      OBVIOUS
    <2>3. NewbornFits(s, f) /\ Parent[f.t] = p
      BY <1>1, <1>10, <1>17, <2>2 DEF Inv, Newborns
    <2>4. Completable(mem[p], f.t)
      BY <1>1, <2>3, SFacts DEF NewbornFits, Live
    <2> QED BY <1>22, <2>4 DEF Completable, activeAsyncWorkPendingIds
  <1> QED BY <1>1, <1>11, <1>12, <1>18, <1>20, <1>21, <1>22 DEF AtSettle

\* r is s where job j has the frame f to do first.
PushedOn(s, r, j, f) ==
  /\ r.mem = s.mem /\ r.jobs[j] = <<f>> \o s.jobs[j] /\ \A i \in Jobs : i # j => r.jobs[i] = s.jobs[i]

LEMMA PushesFrame ==
  ASSUME NEW s, NEW ph, NEW L, Inv(s, ph, L), NEW j \in Jobs, j[1] # "model", Loose(s.jobs[j]),
         NEW f, f.op \in Casc, FrameKnown(s, f)
  PROVE  Outcome(s, Push(s, j, <<f>>), j, ph, L) /\ PushedOn(s, Push(s, j, <<f>>), j, f)
  <1>1. PICK q : q = <<f>>
    OBVIOUS
  <1>0. PICK r : r = Push(s, j, q)
    OBVIOUS
  <1>2. IsStack(q) /\ \A i \in DOMAIN q : q[i].op \in Casc /\ FrameKnown(s, q[i])
    BY <1>1, OneFrame
  <1>4. /\ Outcome(s, r, j, ph, L) /\ r.mem = s.mem /\ r.jobs[j] = q \o s.jobs[j]
        /\ \A i \in Jobs : i # j => r.jobs[i] = s.jobs[i]
    BY <1>0, <1>2, Pushes
  <1> QED BY <1>0, <1>1, <1>4 DEF PushedOn

\* The results that came during the turn are claimed at its end.
LEMMA SettleClaims ==
  ASSUME IInv, NEW j, NEW p, NEW s, AtSettle(s, j, p), NEW fit \in Fits
  PROVE  Good(Requeue(CancelTimer([Push(s, j, <<Then("unlock", p)>>) EXCEPT !.wake = @ \ {p}], p), j, p,
                      claimAsyncWorkUpdate(mem[p]), fit))
  <1>a. PICK h : h = Push(s, j, <<Then("unlock", p)>>)
    OBVIOUS
  <1>b. PICK w : w = [h EXCEPT !.wake = @ \ {p}]
    OBVIOUS
  <1>c. PICK r : r = Requeue(CancelTimer(w, p), j, p, claimAsyncWorkUpdate(mem[p]), fit)
    OBVIOUS
  <1>1. /\ Outcome(S, s, j, phase, {}) /\ Inv(s, phase, {}) /\ Loose(s.jobs[j]) /\ j \in Jobs /\ j[1] # "model"
        /\ Known(s, p) /\ p \in Tasks /\ Free(s, p) /\ s.mem = mem /\ phase # "down" /\ mem[p].st = "RUNNING"
    BY DEF AtSettle
  <1>2. PICK ph, E : ph = phase /\ E = {}
    OBVIOUS
  <1>d. PICK f : f = Then("unlock", p)
    OBVIOUS
  <1>e. f.op = "unlock"
    BY <1>d DEF Then, Frame
  <1>3. Outcome(s, h, j, ph, E) /\ PushedOn(s, h, j, f)
    <2>1. f.op \in Casc /\ FrameKnown(s, f)
      BY <1>e DEF Casc, FrameKnown, Nameless
    <2>2. h = Push(s, j, <<f>>) /\ Inv(s, ph, E)
      BY <1>1, <1>2, <1>a, <1>d
    <2> QED BY <1>1, <2>1, <2>2, PushesFrame
  <1>4. Inv(h, ph, E) /\ Known(h, p) /\ Loose(h.jobs[j]) /\ DOMAIN h = Fields
    <2>1. Inv(h, ph, E) /\ Known(h, p) /\ Loose(h.jobs[j])
      BY <1>1, <1>2, <1>3 DEF Outcome
    <2> QED BY <2>1 DEF Inv, Typed, Fields
  <1>5. PICK ti, wk : ti = h.timers /\ wk = h.wake \ {p}
    OBVIOUS
  <1>6. Rung(h, w, ti, wk)
    BY <1>4, <1>5, <1>b DEF Rung, Is, Fields
  <1>7. \A x \in ti \cup wk : Known(h, x)
    BY <1>4, <1>5 DEF Inv, ListsKnown
  <1>8. Outcome(h, w, j, ph, E) /\ w.mem = h.mem /\ w.jobs = h.jobs
    BY <1>4, <1>6, <1>7, Rings
  <1>9. Inv(w, ph, E) /\ Known(w, p) /\ Loose(w.jobs[j])
    BY <1>1, <1>4, <1>8 DEF Outcome
  <1>10. PICK c : c = CancelTimer(w, p)
    OBVIOUS
  <1>11. Outcome(w, c, j, ph, E) /\ Same(w.mem[p], c.mem[p]) /\ c.jobs = w.jobs
    BY <1>9, <1>10, CancelsTimer
  <1>12. Inv(c, ph, E) /\ Known(c, p) /\ Loose(c.jobs[j])
    BY <1>1, <1>9, <1>11 DEF Outcome
  <1>13. Block(mem[p]) /\ Same(mem[p], c.mem[p]) /\ Live(c.mem[p])
    BY <1>1, <1>3, <1>8, <1>11 DEF Same, AtSettle, Live, PushedOn
  <1>14. Free(c, p)
    <2>1. c.jobs[j] = <<f>> \o s.jobs[j] /\ \A i \in Jobs : i # j => c.jobs[i] = s.jobs[i]
      BY <1>3, <1>8, <1>11 DEF PushedOn
    <2>3. f.op = "unlock" /\ IsStack(<<f>>) /\ Len(<<f>>) = 1 /\ <<f>>[1] = f /\ ToSet(<<f>>) = {f}
      BY <1>e, OneFrame DEF ToSet
    <2>4. IsStack(s.jobs[j])
      BY <1>1 DEF Inv, Stacks, StackOK
    <2>5. PICK q, u : q = s.jobs[j] /\ u = <<f>> \o q
      OBVIOUS
    <2>6. ToSet(u) = {f} \cup ToSet(q) /\ u[1] = f
      BY <2>3, <2>4, <2>5, StackOn
    <2>7. Held(c, j) = {f} \cup Held(s, j) /\ c.jobs[j][1] = f
      BY <2>1, <2>5, <2>6 DEF Held
    <2>8. \A i \in Jobs : i # j => Held(c, i) = Held(s, i)
      BY <2>1 DEF Held
    <2>9. ModelJob(p) \in Jobs /\ TurnJob(p) \in Jobs /\ <<"loop">> \in Jobs /\ ModelJob(p)[1] = "model"
      BY <1>1, JobFacts
    <2>10. c.jobs[ModelJob(p)] = <<>>
      BY <1>1, <2>1, <2>9 DEF Free
    <2>11. ~Looped(c, p) /\ ~Holds(c, p, TurnJob(p), {"settle", "continue"})
      BY <1>1, <2>3, <2>7, <2>8, <2>9 DEF Looped, Holds, Free
    <2>12. ~OwnHop(c, TurnJob(p))
      <3>1. CASE TurnJob(p) = j
        BY <2>3, <2>7, <3>1 DEF OwnHop
      <3>2. CASE TurnJob(p) # j
        BY <1>1, <2>1, <2>9, <3>2 DEF OwnHop, Free
      <3> QED BY <3>1, <3>2
    <2> QED BY <2>10, <2>11, <2>12 DEF Free
  <1>15. Resumable(c, p, claimAsyncWorkUpdate(mem[p]))
    BY <1>12, <1>13, <1>14, Claims
  <1>16. r = Requeue(c, j, p, claimAsyncWorkUpdate(mem[p]), fit)
    BY <1>10, <1>c
  <1>17. Outcome(c, r, j, ph, E)
    <2>1. Without(E, p, E)
      BY DEF Without
    <2> QED BY <1>1, <1>2, <1>12, <1>15, <1>16, <2>1, Requeues
  <1>18. Outcome(s, h, j, ph, E) /\ Outcome(S, s, j, ph, E)
    BY <1>1, <1>2, <1>3
  <1>19. Outcome(S, w, j, ph, E)
    BY <1>8, <1>18, OutcomeThen
  <1>20. Outcome(S, r, j, ph, E)
    <2>1. Outcome(S, c, j, ph, E)
      BY <1>11, <1>19, OutcomeThen
    <2> QED BY <1>17, <2>1, OutcomeThen
  <1>21. Good(r)
    BY <1>2, <1>20, OutcomeGood
  <1> QED BY <1>21, <1>a, <1>b, <1>c

\* Otherwise the turn throws when there is nothing to wait for.
LEMMA SettleThrows ==
  ASSUME IInv, NEW j, NEW p, NEW s, AtSettle(s, j, p), activeAsyncWorkPendingIds(mem[p]) = {}, NEW fit \in Fits,
         NEW r, r = Throw(s, j, fit)
  PROVE  Good(r)
  <1>1. /\ Outcome(S, s, j, phase, {}) /\ Inv(s, phase, {}) /\ j \in Jobs /\ j[1] # "model" /\ Light(s, j)
        /\ Known(s, p) /\ Free(s, p) /\ s.mem = mem /\ phase # "down" /\ mem[p].st = "RUNNING"
        /\ (j[1] = "turn" => j[2] = p /\ ~InLoop(s, p)) /\ Inv(S, phase, {})
    BY DEF AtSettle, IInv
  <1>2. j[1] = "turn" => Catching(s, j)
    BY <1>1 DEF Catching, Free
  <1>3. Inv(r, phase, {}) /\ Falls(s, r)
    BY <1>1, <1>2, Throws
  <1>4. Falls(S, r)
    BY <1>1, <1>3, FallsThen DEF Outcome
  <1> QED BY <1>1, <1>3, <1>4, FallsLegal DEF Good

\* A turn ends and its task waits for the work.
LEMMA SettleWaits ==
  ASSUME IInv, NEW j, NEW p, NEW s, AtSettle(s, j, p), NEW b, b = transition(mem[p], "BLOCKED", "work"),
         NEW r, r = Persist(Put(s, p, b), p)
  PROVE  Good(r)
  <1>1. /\ Outcome(S, s, j, phase, {}) /\ Inv(s, phase, {}) /\ Loose(s.jobs[j]) /\ s.mem = mem /\ S.mem = mem
        /\ Known(s, p) /\ p \in Tasks /\ Free(s, p) /\ phase # "down" /\ mem[p].st = "RUNNING" /\ Block(mem[p])
        /\ \A i \in Jobs : HopAt(s, i, p) => Pending(mem[p])
    BY DEF AtSettle
  <1>2. PICK ph, E : ph = phase /\ E = {}
    OBVIOUS
  <1>3. Milder(mem[p], b, E) /\ b.st = "BLOCKED" /\ b.ask = mem[p].ask
    BY <1>1, TransitionMild
  <1>4. Fitting(s, E, p, b)
    <2>1. Inv(s, ph, E) /\ Known(s, p) /\ Milder(s.mem[p], b, E) /\ Live(s.mem[p]) /\ b.st # "TERMINATED" /\ Free(s, p)
      BY <1>1, <1>2, <1>3 DEF Live
    <2>2. \A i \in Jobs : HopAt(s, i, p) => Pending(b)
      BY <1>1, <1>3 DEF Pending
    <2>3. \A k \in Tasks : Born(s, k) => k \notin E
      BY <1>2
    <2>4. p \in s.queue \cup s.packing => b.st = "READY"
      BY <1>1 DEF Inv, Books
    <2>5. b.st = "READY" => Late(p) \in E
      BY <1>3
    <2> QED BY <2>1, <2>2, <2>3, <2>4, <2>5, FitFree
  <1>5. PICK m : m = Put(s, p, b)
    OBVIOUS
  <1>6. Inv(m, ph, E) /\ Replaced(s, p, b, m) /\ \A x \in Tasks : Known(m, x) <=> Known(s, x)
    <2>1. Inv(s, ph, E) /\ E \subseteq E
      BY <1>1, <1>2
    <2> QED BY <1>4, <1>5, <2>1, OnePut
  <1>7. Loose(m.jobs[j]) /\ Known(m, p) /\ r = Persist(m, p)
    BY <1>1, <1>5, <1>6 DEF Replaced
  <1>8. Outcome(m, r, j, ph, E) /\ r.mem = m.mem
    BY <1>1, <1>2, <1>6, <1>7, Persists
  <1>9. Inv(r, phase, {})
    BY <1>2, <1>8 DEF Outcome
  <1>10. Legal(S, r)
    <2>1. r.mem[p].st = "BLOCKED" /\ \A x \in Tasks : x # p => r.mem[x] = S.mem[x]
      BY <1>1, <1>3, <1>6, <1>8 DEF Replaced
    <2> QED BY <1>1, <2>1 DEF Legal, LEGAL_TRANSITIONS
  <1> QED BY <1>9, <1>10 DEF Good

\* Settle.
LEMMA SettleStep ==
  ASSUME IInv, NEW j \in Jobs, NEW fit \in Fits, Settle(j, fit)
  PROVE  Onward
  <1>1. jobs[j] # <<>> /\ jobs[j][1].op = "settle" /\ phase' = phase
    BY DEF Settle, At, Stay
  <1>2. PICK s : s = Pop(S, j)
    OBVIOUS
  <1>3. PICK p : p = jobs[j][1].t
    OBVIOUS
  <1>4. PICK h : h = Push(s, j, <<Then("unlock", p)>>)
    OBVIOUS
  <1>5. PICK w : w = [h EXCEPT !.wake = @ \ {p}]
    OBVIOUS
  <1>6. PICK r1 : r1 = Requeue(CancelTimer(w, p), j, p, claimAsyncWorkUpdate(mem[p]), fit)
    OBVIOUS
  <1>7. PICK r2 : r2 = Throw(s, j, fit)
    OBVIOUS
  <1>8. PICK b : b = transition(mem[p], "BLOCKED", "work")
    OBVIOUS
  <1>9. PICK r3 : r3 = Persist(Put(s, p, b), p)
    OBVIOUS
  <1>10. /\ mem[p].st # "RUNNING" => Do(s)
         /\ mem[p].st = "RUNNING" => \/ Do(r1)
                                     \/ activeAsyncWorkPendingIds(mem[p]) = {} /\ Do(r2)
                                     \/ Do(r3)
    BY <1>2, <1>3, <1>4, <1>5, <1>6, <1>7, <1>8, <1>9 DEF Settle
  <1>11. Outcome(S, s, j, phase, {}) /\ phase # "down"
    BY <1>1, <1>2, TakesPlain DEF Sends
  <1>12. CASE mem[p].st # "RUNNING"
    BY <1>1, <1>10, <1>11, <1>12, Closes, OutcomeGood
  <1>13. CASE mem[p].st = "RUNNING"
    <2>1. AtSettle(s, j, p)
      BY <1>1, <1>2, <1>3, <1>13, SettleTaken
    <2>2. Good(r1)
      <3>1. Good(Requeue(CancelTimer([Push(s, j, <<Then("unlock", p)>>) EXCEPT !.wake = @ \ {p}], p), j, p,
                         claimAsyncWorkUpdate(mem[p]), fit))
        BY <2>1, SettleClaims
      <3> QED BY <1>4, <1>5, <1>6, <3>1
    <2>3. activeAsyncWorkPendingIds(mem[p]) = {} => Good(r2)
      BY <1>7, <2>1, SettleThrows
    <2>4. Good(r3)
      BY <1>8, <1>9, <2>1, SettleWaits
    <2> QED BY <1>1, <1>10, <1>11, <1>13, <2>2, <2>3, <2>4, Closes
  <1> QED BY <1>12, <1>13

----------------------------------------------------------------------------
(* The creation of a child *)

\* The first frame of a stack gives way to another.
Turned(u, g, q) ==
  /\ IsStack(q) /\ Len(q) = Len(u) /\ DOMAIN q = 1 .. Len(u) /\ Len(u) \in Nat \ {0}
  /\ q[1] = g /\ \A i \in 2 .. Len(u) : q[i] = u[i]
  /\ \A f \in ToSet(q) : f = g \/ \E i \in 2 .. Len(u) : u[i] = f
  /\ \A i \in 2 .. Len(u) : u[i] \in ToSet(q)
  /\ g \in ToSet(q)

LEMMA HeadTurned ==
  ASSUME NEW u, IsStack(u), u # <<>>, NEW g
  PROVE  Turned(u, g, <<g>> \o Tail(u))
  <1>q. PICK q : q = <<g>> \o Tail(u)
    OBVIOUS
  <1>1. PICK r : r = Tail(u)
    OBVIOUS
  <1>2. Suffix(r, u, 1)
    BY <1>1, SuffixTail
  <1>3. /\ Len(u) \in Nat /\ DOMAIN u = 1 .. Len(u) /\ Len(u) # 0
    BY StackFacts
  <1>4. /\ IsStack(r) /\ Len(r) = Len(u) - 1 /\ \A i \in 1 .. Len(u) - 1 : r[i] = u[i + 1]
    BY <1>2 DEF Suffix
  <1>5. PICK p : p = <<g>>
    OBVIOUS
  <1>6. IsStack(p) /\ DOMAIN p = {1} /\ p[1] = g /\ Len(p) = 1
    BY <1>5, OneFrame
  <1>7. /\ IsStack(p \o r) /\ Len(p \o r) = Len(p) + Len(r)
        /\ \A i \in 1 .. Len(p) : (p \o r)[i] = p[i]
        /\ \A i \in Len(p) + 1 .. Len(p) + Len(r) : (p \o r)[i] = r[i - Len(p)]
    BY <1>4, <1>6, StackOn, ZenonT(30)
  <1>8. q = p \o r
    BY <1>1, <1>5, <1>q
  <1>9. IsStack(q) /\ Len(q) = Len(u) /\ q[1] = g
    <2>1. Len(p) + Len(r) = Len(u) /\ 1 \in 1 .. Len(p)
      BY <1>3, <1>4, <1>6
    <2>2. IsStack(q) /\ Len(q) = Len(p) + Len(r)
      BY <1>7, <1>8
    <2>3. q[1] = p[1]
      BY <1>7, <1>8, <2>1
    <2> QED BY <1>6, <2>1, <2>2, <2>3
  <1>10. ASSUME NEW i \in 2 .. Len(u) PROVE q[i] = u[i]
    <2>0. i \in Len(p) + 1 .. Len(p) + Len(r) /\ i - Len(p) = i - 1
      BY <1>3, <1>4, <1>6
    <2>1. q[i] = r[i - 1]
      BY <1>7, <1>8, <2>0
    <2>2. i - 1 \in 1 .. Len(u) - 1 /\ (i - 1) + 1 = i
      BY <1>3
    <2> QED BY <1>4, <2>1, <2>2
  <1>11. /\ DOMAIN q = 1 .. Len(q) /\ \A i \in 1 .. Len(q) : q[i] \in ToSet(q)
         /\ \A f \in ToSet(q) : \E i \in 1 .. Len(q) : q[i] = f
    BY <1>9, StackFacts
  <1>12. ASSUME NEW f \in ToSet(q) PROVE f = g \/ \E i \in 2 .. Len(u) : u[i] = f
    <2>1. PICK i \in 1 .. Len(u) : q[i] = f
      BY <1>9, <1>11
    <2>2. i = 1 \/ i \in 2 .. Len(u)
      BY <1>3
    <2> QED BY <1>9, <1>10, <2>1, <2>2
  <1>13. \A i \in 2 .. Len(u) : u[i] \in ToSet(q)
    BY <1>3, <1>9, <1>10, <1>11
  <1>14. g \in ToSet(q)
    BY <1>3, <1>9, <1>11
  <1> QED BY <1>3, <1>9, <1>10, <1>11, <1>12, <1>13, <1>14, <1>q DEF Turned

\* A child that is being saved and one that is being queued stand at the same places.
LEMMA SendFits ==
  ASSUME NEW u, NEW q, NEW j \in Jobs, NEW ph, NEW i, i \in 1 .. Len(u), Len(u) \in Nat,
         DOMAIN u = 1 .. Len(u), DOMAIN q = 1 .. Len(u), Len(q) = Len(u), FrameFits(u, i, j, ph),
         \A h \in 1 .. Len(u) : /\ q[h].t = u[h].t
                                /\ q[h].op = u[h].op \/ (u[h].op = "send" /\ q[h].op = "enqueue")
  PROVE  FrameFits(q, i, j, ph)
  <1>1. \A h \in 1 .. Len(u) : /\ q[h].op \in Sends <=> u[h].op \in Sends
                               /\ q[h].op \in Casc <=> u[h].op \in Casc
                               /\ q[h].op \in Casc \cup {"publish", "advance"} <=> u[h].op \in Casc \cup {"publish", "advance"}
                               /\ \A o : o \notin Sends => (q[h].op = o <=> u[h].op = o)
    BY DEF Sends, Casc
  <1>b. q[i].t = u[i].t /\ (q[i].op = u[i].op \/ (u[i].op = "send" /\ q[i].op = "enqueue"))
    OBVIOUS
  <1>c. q[i].op \in OpsOf(j[1])
    <2>1. u[i].op \in OpsOf(j[1])
      BY DEF FrameFits
    <2>2. PICK kind : kind = j[1]
      OBVIOUS
    <2>3. "send" \in OpsOf(kind) => "enqueue" \in OpsOf(kind)
      <3>1. kind \in {"turn", "loop"} => "enqueue" \in OpsOf(kind)
        BY DEF OpsOf, Casc, Sends
      <3>2. ASSUME "send" \in OpsOf(kind), kind \in {"model", "host", "timer", "call"} PROVE FALSE
        BY <3>2 DEF OpsOf, Casc, Sends, BootOps
      <3>3. kind \in {"turn", "loop", "model", "host", "timer", "call"}
        BY <2>2, JobFacts
      <3> QED BY <3>1, <3>2, <3>3
    <2> QED BY <1>b, <2>1, <2>2, <2>3
  <1>d. q[i].op \in Heads \cup {"model", "compact", "dispatch", "settle", "continue", "failnodes", "booted"} \cup BootOps
          => q[i].op = u[i].op
    BY <1>b DEF Heads, BootOps
  <1>2. /\ q[i].op \in Heads => i = 1
        /\ q[i].op \in {"model", "compact", "dispatch"} => Len(q) = 1
        /\ q[i].op \in {"model", "compact", "settle", "continue"} /\ j[1] # "loop" => q[i].t = j[2]
        /\ q[i].op \in {"continue", "failnodes", "booted"} => i = Len(q)
        /\ q[i].op \in BootOps => ph = "boot"
    BY <1>b, <1>d DEF FrameFits
  <1>3. q[i].op = "settle" => \A k \in DOMAIN q : q[k].op \in Sends => Parent[q[k].t] = q[i].t
    BY <1>1 DEF FrameFits, Sends
  <1>a. \A k \in 1 .. i - 1 : k \in 1 .. Len(u)
    OBVIOUS
  <1>4. q[i].op \in {"cancel", "notify", "failnodes"} => \A k \in 1 .. i - 1 : q[k].op \in Casc
    <2>1. SUFFICES ASSUME q[i].op \in {"cancel", "notify", "failnodes"}, NEW k \in 1 .. i - 1 PROVE q[k].op \in Casc
      OBVIOUS
    <2>2. u[i].op \in {"cancel", "notify", "failnodes"}
      BY <2>1
    <2>3. u[k].op \in Casc
      BY <2>2 DEF FrameFits
    <2> QED BY <1>1, <1>a, <2>3
  <1>5. q[i].op = "continue" => \A k \in 1 .. i - 1 : q[k].op \in Casc \cup {"publish", "advance"}
    <2>1. SUFFICES ASSUME q[i].op = "continue", NEW k \in 1 .. i - 1 PROVE q[k].op \in Casc \cup {"publish", "advance"}
      OBVIOUS
    <2>2. u[i].op = "continue"
      BY <2>1
    <2>3. u[k].op \in Casc \cup {"publish", "advance"}
      BY <2>2 DEF FrameFits
    <2> QED BY <1>1, <1>a, <2>3
  <1>6. q[i].op \in {"publish", "advance"} =>
          \/ Len(q) = 1 /\ q[i].op = "publish" /\ q[i].t = j[2]
          \/ Len(q) = 2 /\ q[2].op = "continue"
    <2>1. SUFFICES ASSUME q[i].op \in {"publish", "advance"}
                   PROVE  \/ Len(q) = 1 /\ q[i].op = "publish" /\ q[i].t = j[2]
                          \/ Len(q) = 2 /\ q[2].op = "continue"
      OBVIOUS
    <2>2. u[i].op \in {"publish", "advance"} /\ u[i].op = q[i].op /\ u[i].t = q[i].t
      BY <2>1
    <2>3. \/ Len(u) = 1 /\ u[i].op = "publish" /\ u[i].t = j[2]
          \/ Len(u) = 2 /\ u[2].op = "continue"
      BY <2>2, ZenonT(30) DEF FrameFits
    <2>4. Len(u) = 2 /\ u[2].op = "continue" => q[2].op = "continue"
      <3>1. Len(u) = 2 => 2 \in 1 .. Len(u)
        OBVIOUS
      <3> QED BY <3>1
    <2> QED BY <2>2, <2>3, <2>4
  <1>7. q[i].op = "rerun" => \E k \in i + 1 .. Len(q) : q[k].op = "resume" /\ q[k].t = q[i].t
    <2>1. SUFFICES ASSUME q[i].op = "rerun" PROVE \E k \in i + 1 .. Len(q) : q[k].op = "resume" /\ q[k].t = q[i].t
      OBVIOUS
    <2>2. u[i].op = "rerun" /\ u[i].t = q[i].t
      BY <2>1
    <2>3. PICK k \in i + 1 .. Len(u) : u[k].op = "resume" /\ u[k].t = u[i].t
      BY <2>2 DEF FrameFits
    <2>4. k \in 1 .. Len(u)
      OBVIOUS
    <2>5. q[k].op = "resume" /\ q[k].t = u[k].t
      BY <2>3, <2>4
    <2> QED BY <2>2, <2>3, <2>5
  <1>8. q[i].op \in Sends => \A k \in DOMAIN q : q[k].op \in Sends /\ q[k].t = q[i].t => k = i
    <2>1. SUFFICES ASSUME q[i].op \in Sends, NEW k \in 1 .. Len(u), q[k].op \in Sends, q[k].t = q[i].t PROVE k = i
      OBVIOUS
    <2>2. u[i].op \in Sends /\ u[k].op \in Sends /\ u[k].t = u[i].t
      BY <1>1, <2>1
    <2> QED BY <2>2, ZenonT(30) DEF FrameFits
  <1>9. q[i].op \in BootOps => \A k \in i .. Len(q) : q[k].op \in BootOps
    <2>1. SUFFICES ASSUME q[i].op \in BootOps, NEW k \in i .. Len(q) PROVE q[k].op \in BootOps
      OBVIOUS
    <2>2. u[i].op \in BootOps
      BY <1>d, <2>1
    <2>3. u[k].op \in BootOps /\ k \in 1 .. Len(u)
      <3>1. \A h \in i .. Len(u) : u[h].op \in BootOps
        BY <2>2, ZenonT(30) DEF FrameFits
      <3> QED BY <2>1, <3>1
    <2>4. q[k].op = u[k].op
      BY <2>3 DEF BootOps
    <2> QED BY <2>3, <2>4
  <1> QED BY <1>2, <1>3, <1>4, <1>5, <1>6, <1>7, <1>8, <1>9, <1>c, ZenonT(30) DEF FrameFits

\* The job j is going to queue the child k that it saved.
SavedChild(s, r, j, k) ==
  /\ Is(r, s.mem, [s.disk EXCEPT ![k] = s.mem[k]], s.queue, s.packing, s.timers, s.wake, s.pool, r.jobs)
  /\ r.jobs[j] = <<Then("enqueue", k)>> \o Tail(s.jobs[j])
  /\ DOMAIN r.jobs = Jobs /\ \A i \in Jobs : i # j => r.jobs[i] = s.jobs[i]

LEMMA SendSaved ==
  ASSUME NEW s, NEW ph, NEW L, Inv(s, ph, L), ph # "down", NEW j \in Jobs, s.jobs[j] # <<>>,
         s.jobs[j][1].op = "send", NEW k, k = s.jobs[j][1].t, NEW r, SavedChild(s, r, j, k)
  PROVE  Inv(r, ph, L)
  <1>1. /\ DOMAIN s = Fields /\ DOMAIN s.jobs = Jobs /\ DOMAIN s.mem = Tasks /\ DOMAIN s.disk = Tasks
        /\ \A i \in Jobs : StackOK(s.jobs[i], i, ph)
    BY DEF Inv, Typed, Fields, Stacks
  <1>2. PICK u, f, g : u = s.jobs[j] /\ f = u[1] /\ g = Then("enqueue", k)
    OBVIOUS
  <1>q. PICK q : q = <<g>> \o Tail(u)
    OBVIOUS
  <1>3. f.op = "send" /\ f.t = k /\ g.op = "enqueue" /\ g.t = k
    BY <1>2 DEF Then, Frame
  <1>4. IsStack(u) /\ u # <<>>
    BY <1>1, <1>2 DEF StackOK
  <1>5. /\ IsStack(q) /\ Len(q) = Len(u) /\ DOMAIN q = 1 .. Len(u) /\ Len(u) \in Nat \ {0}
        /\ q[1] = g /\ \A i \in 2 .. Len(u) : q[i] = u[i]
        /\ \A e \in ToSet(q) : e = g \/ \E i \in 2 .. Len(u) : u[i] = e
        /\ \A i \in 2 .. Len(u) : u[i] \in ToSet(q)
        /\ g \in ToSet(q)
    <2>1. Turned(u, g, <<g>> \o Tail(u))
      BY <1>4, HeadTurned
    <2>2. Turned(u, g, q)
      BY <1>q, <2>1
    <2> QED BY <2>2 DEF Turned
  <1>6. /\ DOMAIN u = 1 .. Len(u) /\ \A i \in 1 .. Len(u) : u[i] \in ToSet(u)
        /\ \A e \in ToSet(u) : \E i \in 1 .. Len(u) : u[i] = e
    BY <1>4, StackFacts
  <1>7. f \in Held(s, j) /\ Held(s, j) = ToSet(u) /\ Held(r, j) = ToSet(q) /\ r.jobs[j] = q
        /\ \A i \in Jobs : i # j => Held(r, i) = Held(s, i) /\ r.jobs[i] = s.jobs[i]
    <2>1. r.jobs[j] = q /\ \A i \in Jobs : i # j => r.jobs[i] = s.jobs[i]
      BY <1>2, <1>q, ZenonT(30) DEF SavedChild
    <2>2. Held(s, j) = ToSet(u) /\ Held(r, j) = ToSet(q) /\ \A i \in Jobs : i # j => Held(r, i) = Held(s, i)
      BY <1>2, <2>1 DEF Held
    <2>3. 1 \in 1 .. Len(u)
      BY <1>5
    <2>4. f \in ToSet(u)
      BY <1>2, <1>6, <2>3
    <2> QED BY <2>1, <2>2, <2>4
  <1>8. /\ NewbornFits(s, f) /\ \A i \in Jobs : Holds(s, k, i, Sends) => i = j
    BY <1>3, <1>7 DEF Inv, Newborns, Sends
  <1>9. /\ k \in Tasks /\ s.mem[k] # NoTask /\ Parent[k] # Orphan /\ s.mem[k].works = <<>> /\ s.mem[k].ask = NoAsk
        /\ s.disk[k] # NoTask => s.disk[k].ask = NoAsk /\ s.disk[k].works = <<>>
    BY <1>3, <1>8 DEF NewbornFits
  <1>10. Born(s, k)
    BY <1>3, <1>7 DEF Born, Holds, Sends
  \* the frames of the stacks are the same but for the first
  <1>11. ASSUME NEW e \in Held(s, j), e.t # k \/ e.op # "send" PROVE e \in Held(r, j)
    <2>1. PICK i \in 1 .. Len(u) : u[i] = e
      BY <1>6, <1>7
    <2>2. i # 1
      BY <1>2, <1>3, <1>11, <2>1
    <2> QED BY <1>5, <1>7, <2>1, <2>2
  <1>12. ASSUME NEW e \in Held(r, j), e # g PROVE e \in Held(s, j) /\ (e.op \in Sends => e.t # k)
    <2>1. PICK i \in 2 .. Len(u) : u[i] = e
      BY <1>5, <1>7, <1>12
    <2>2. i \in 1 .. Len(u) /\ 1 \in 1 .. Len(u) /\ i # 1
      BY <1>5
    <2>3. FrameFits(u, 1, j, ph)
      BY <1>1, <1>2, <1>6, <2>2 DEF StackOK
    <2>a. u[1].op \in Sends => \A h \in DOMAIN u : u[h].op \in Sends /\ u[h].t = u[1].t => h = 1
      BY <2>3 DEF FrameFits
    <2>b. u[1].op \in Sends /\ u[1].t = k
      BY <1>2, <1>3 DEF Sends
    <2>4. e.op \in Sends => e.t # k
      BY <1>6, <2>1, <2>2, <2>a, <2>b
    <2> QED BY <1>6, <1>7, <2>1, <2>2, <2>4
  <1>13. ASSUME NEW x, NEW i \in Jobs PROVE Holds(r, x, i, Sends) <=> Holds(s, x, i, Sends)
    <2>1. CASE i # j
      BY <1>7, <2>1 DEF Holds
    <2>2. CASE i = j /\ x # k
      BY <1>3, <1>11, <1>12, <2>2 DEF Holds
    <2>3. CASE i = j /\ x = k
      BY <1>3, <1>5, <1>7, <2>3 DEF Holds, Sends
    <2> QED BY <2>1, <2>2, <2>3
  <1>14. ASSUME NEW x, NEW i \in Jobs, NEW ops, "send" \notin ops, "enqueue" \notin ops
         PROVE  Holds(r, x, i, ops) <=> Holds(s, x, i, ops)
    <2>1. CASE i # j
      BY <1>7, <2>1 DEF Holds
    <2>2. CASE i = j
      BY <1>3, <1>11, <1>12, <1>14, <2>2 DEF Holds
    <2> QED BY <2>1, <2>2
  <1>15. r.mem = s.mem /\ r.queue = s.queue /\ r.packing = s.packing /\ r.timers = s.timers /\ r.wake = s.wake
         /\ r.pool = s.pool /\ DOMAIN r = Fields /\ DOMAIN r.jobs = Jobs /\ DOMAIN r.disk = Tasks
         /\ r.disk[k] = s.mem[k] /\ \A x \in Tasks : x # k => r.disk[x] = s.disk[x]
    BY <1>1, <1>9 DEF SavedChild, Is
  <1>16. \A x : Born(r, x) <=> Born(s, x)
    BY <1>13 DEF Born
  <1>17. \A x : Known(r, x) <=> Known(s, x)
    BY <1>15, <1>16 DEF Known
  <1>18. ~Known(s, k)
    BY <1>10 DEF Known
  <1>19. \A e : FrameKnown(r, e) <=> FrameKnown(s, e)
    BY <1>15, <1>17, FrameStays
  <1>20. Typed(r)
    <2>1. Block(s.mem[k])
      BY <1>9 DEF Inv, Typed
    <2> QED BY <1>15, <2>1 DEF Inv, Typed, Fields
  <1>21. Stacks(r, ph)
    <2>1. SUFFICES ASSUME NEW i \in 1 .. Len(u) PROVE FrameFits(q, i, j, ph)
      BY <1>1, <1>5, <1>7 DEF Stacks, StackOK
    <2>2. FrameFits(u, i, j, ph)
      BY <1>1, <1>2, <1>6 DEF StackOK
    <2>3. i = 1 \/ i \in 2 .. Len(u)
      BY <1>5
    <2>5. \A h \in 1 .. Len(u) : /\ q[h].t = u[h].t
                                 /\ q[h].op = u[h].op \/ (u[h].op = "send" /\ q[h].op = "enqueue")
      <3>1. SUFFICES ASSUME NEW h \in 1 .. Len(u)
                     PROVE  /\ q[h].t = u[h].t
                            /\ q[h].op = u[h].op \/ (u[h].op = "send" /\ q[h].op = "enqueue")
        OBVIOUS
      <3>2. h = 1 \/ h \in 2 .. Len(u)
        BY <1>5
      <3> QED BY <1>2, <1>3, <1>5, <3>2
    <2> QED BY <1>5, <1>6, <2>2, <2>5, SendFits
  <1>22. FramesKnown(r)
    <2>1. SUFFICES ASSUME NEW i \in Jobs, NEW e \in Held(r, i) PROVE FrameKnown(s, e)
      BY <1>19 DEF FramesKnown
    <2>2. CASE e \in Held(s, i)
      BY <2>2 DEF Inv, FramesKnown
    <2>3. CASE e = g
      BY <1>3, <2>3 DEF FrameKnown, Nameless, Sends
    <2> QED BY <1>7, <1>12, <2>2, <2>3
  <1>23. ListsKnown(r)
    BY <1>15, <1>17 DEF Inv, ListsKnown
  <1>24. Family(r, ph)
    <2>1. SUFFICES ASSUME NEW x \in Tasks
                   PROVE  /\ r.mem[x] # NoTask /\ Parent[x] # Orphan => Known(r, Parent[x])
                          /\ r.disk[x] # NoTask /\ Parent[x] # Orphan => r.disk[Parent[x]] # NoTask
                          /\ ph # "down" /\ r.disk[x] # NoTask /\ r.mem[x] = NoTask =>
                               Parent[x] # Orphan /\ ~Live(r.mem[Parent[x]])
      BY DEF Family
    <2>2. Parent[x] # Orphan => Parent[x] \in Tasks
      BY TaskAssumption
    <2>3. \A y \in Tasks : s.disk[y] # NoTask => r.disk[y] # NoTask
      BY <1>9, <1>15
    <2>4. s.disk[Parent[k]] # NoTask
      <3>1. Known(s, Parent[k])
        BY <1>9 DEF Inv, Family
      <3> QED BY <3>1 DEF Inv, Saved, Known
    <2> QED BY <1>9, <1>15, <1>17, <2>2, <2>3, <2>4, ZenonT(30) DEF Inv, Family
  <1>25. Newborns(r)
    <2>1. SUFFICES ASSUME NEW i \in Jobs, NEW e \in Held(r, i), e.op \in Sends
                   PROVE  NewbornFits(r, e) /\ \A h \in Jobs : Holds(r, e.t, h, Sends) => h = i
      BY DEF Newborns
    <2>2. CASE e = g /\ i = j
      <3>1. NewbornFits(r, e)
        BY <1>3, <1>8, <1>9, <1>15, <2>2, ZenonT(30) DEF NewbornFits
      <3> QED BY <1>3, <1>8, <1>13, <2>2, <3>1
    <2>3. CASE e \in Held(s, i) /\ e.t # k
      <3>1. NewbornFits(s, e) /\ \A h \in Jobs : Holds(s, e.t, h, Sends) => h = i
        BY <2>1, <2>3 DEF Inv, Newborns
      <3>2. NewbornFits(r, e)
        BY <1>15, <2>3, <3>1 DEF NewbornFits
      <3> QED BY <1>13, <3>1, <3>2
    <2>4. CASE i # j
      <3>1. e \in Held(s, i)
        BY <1>7, <2>4
      <3>2. e.t # k
        BY <1>8, <2>1, <2>4, <3>1 DEF Holds
      <3> QED BY <2>3, <3>1, <3>2
    <2>5. CASE i = j /\ e # g
      BY <1>12, <2>1, <2>3, <2>5
    <2> QED BY <2>2, <2>4, <2>5
  <1>26. Saved(r, ph)
    <2>1. Saved(s, ph)
      BY DEF Inv
    <2>2. \A x \in Tasks : Known(r, x) => Known(s, x) /\ r.mem[x] = s.mem[x] /\ r.disk[x] = s.disk[x]
      BY <1>15, <1>17, <1>18
    <2> QED BY <2>1, <2>2, SavedStays
  <1>27. Books(r) /\ Listed(r, L)
    <2>1. Books(r)
      BY <1>15 DEF Inv, Books
    <2>2. \A x : Holds(r, x, <<"host">>, {"resume"}) <=> Holds(s, x, <<"host">>, {"resume"})
      BY <1>14, JobFacts
    <2>3. \A x : ListedTask(s, x) <=> ListedTask(r, x)
      BY <1>15, <1>16, <2>2 DEF ListedTask
    <2> QED BY <1>15, <2>1, <2>3 DEF Inv, Listed
  <1>a. \A i \in Jobs : \A x : HopAt(r, i, x) <=> HopAt(s, i, x)
    <2>1. SUFFICES ASSUME NEW i \in Jobs, NEW x PROVE HopAt(r, i, x) <=> HopAt(s, i, x)
      OBVIOUS
    <2>2. CASE i # j
      BY <1>7, <2>2 DEF HopAt
    <2>3. CASE i = j
      BY <1>2, <1>3, <1>5, <1>7, <2>3 DEF HopAt
    <2> QED BY <2>2, <2>3
  <1>b. \A i \in Jobs : OwnHop(r, i) <=> OwnHop(s, i)
    <2>1. SUFFICES ASSUME NEW i \in Jobs PROVE OwnHop(r, i) <=> OwnHop(s, i)
      OBVIOUS
    <2>2. CASE i # j
      BY <1>7, <2>2 DEF OwnHop
    <2>3. CASE i = j
      BY <1>2, <1>3, <1>5, <1>7, <2>3 DEF OwnHop
    <2> QED BY <2>2, <2>3
  <1>c. \A i \in Jobs : r.jobs[i] = <<>> <=> s.jobs[i] = <<>>
    BY <1>2, <1>4, <1>5, <1>7, StackFacts
  <1>28. Handles(r)
    <2>1. SUFFICES ASSUME NEW x \in Tasks PROVE HandlesFor(r, x, s.mem[x])
      BY <1>15 DEF Handles, HandlesOf
    <2>2. HandlesFor(s, x, s.mem[x])
      BY DEF Inv, Handles, HandlesOf
    <2>3. TurnJob(x) \in Jobs /\ ModelJob(x) \in Jobs /\ <<"loop">> \in Jobs
      BY JobFacts
    <2>4. Hot(r, x) <=> Hot(s, x)
      BY <1>3, <1>7, <1>11, <1>12, <2>3 DEF Hot
    <2>5. Looped(r, x) <=> Looped(s, x)
      BY <1>14, <2>3 DEF Looped
    <2>6. InLoop(r, x) <=> InLoop(s, x)
      BY <1>14, <2>3 DEF InLoop
    <2>7. /\ Holds(r, x, TurnJob(x), {"continue"}) <=> Holds(s, x, TurnJob(x), {"continue"})
          /\ Holds(r, x, TurnJob(x), {"settle"}) <=> Holds(s, x, TurnJob(x), {"settle"})
      BY <1>14, <2>3
    <2> QED BY <1>b, <1>c, <2>2, <2>3, <2>4, <2>5, <2>6, <2>7 DEF HandlesFor
  <1>29. Asks(r)
    <2>1. SUFFICES ASSUME NEW c \in Tasks PROVE AsksOf(r, c)
      BY DEF Asks
    <2>2. AsksOf(s, c)
      BY DEF Inv, Asks
    <2>3. \A x : Unmarked(r, x) <=> Unmarked(s, x)
      BY <1>15 DEF Unmarked
    <2>4. Holds(r, c, TurnJob(c), {"settle"}) <=> Holds(s, c, TurnJob(c), {"settle"})
      BY <1>14, JobFacts
    <2>5. ASSUME NEW i \in Jobs, HopAt(s, i, c) PROVE /\ r.disk[c] = s.disk[c] /\ r.jobs[i] = s.jobs[i]
      <3>1. i # j
        BY <1>2, <1>3, <2>5 DEF HopAt
      <3>2. s.jobs[i][1] \in Held(s, i) /\ s.jobs[i][1].op \in {"publish", "advance"} /\ s.jobs[i][1].t = c
        <4>1. IsStack(s.jobs[i]) /\ s.jobs[i] # <<>>
          BY <1>1, <2>5 DEF StackOK, HopAt
        <4>2. 1 \in 1 .. Len(s.jobs[i])
          BY <4>1, StackFacts
        <4>3. s.jobs[i][1] \in ToSet(s.jobs[i])
          BY <4>1, <4>2, StackFacts
        <4> QED BY <2>5, <4>3 DEF HopAt, Held
      <3>3. Known(s, c)
        BY <3>2 DEF Inv, FramesKnown, FrameKnown, Nameless, Sends
      <3>4. c # k
        BY <1>18, <3>3
      <3> QED BY <1>7, <1>15, <3>1, <3>4
    <2> QED BY <1>15, <1>a, <1>b, <2>2, <2>3, <2>4, <2>5, ZenonT(30) DEF AsksOf
  <1>30. Told(r)
    <2>1. ASSUME NEW p, NEW i, NEW ref, MarkOK(s, p, i, ref) PROVE MarkOK(r, p, i, ref)
      <3>1. ref[1] # k
        <4>1. /\ s.disk[ref[1]] # NoTask /\ ref[2] \in Nat \ {0} /\ ref[2] <= s.disk[ref[1]].ask.n
          BY <2>1, MarkFacts
        <4>2. SUFFICES ASSUME ref[1] = k PROVE FALSE
          OBVIOUS
        <4>3. s.disk[k].ask = NoAsk /\ ref[2] <= s.disk[k].ask.n
          BY <1>9, <4>1, <4>2
        <4>4. ref[2] <= 0
          BY <4>3, NoAskIsNone
        <4> QED BY <4>1, <4>4
      <3>2. r.disk[ref[1]] = s.disk[ref[1]]
        BY <1>15, <2>1, <3>1 DEF MarkOK
      <3> QED BY <2>1, <3>2 DEF MarkOK
    <2>2. \A p, i, c : EarlierHop(r, p, i, c) <=> EarlierHop(s, p, i, c)
      BY <1>15 DEF EarlierHop
    <2>3. SUFFICES ASSUME NEW p \in Tasks
                   PROVE  /\ r.disk[p] # NoTask => \A i \in Marks(r.disk[p]) : MarkOK(r, p, i, r.disk[p].works[i].ref)
                          /\ r.mem[p] # NoTask => \A i \in Marks(r.mem[p]) :
                               /\ MarkOK(r, p, i, r.mem[p].works[i].ref)
                               /\ \A c \in Tasks : \A h \in Jobs :
                                    HopAt(r, h, c) /\ r.mem[p].works[i].ref = <<c, r.mem[c].ask.n>> => EarlierHop(r, p, i, c)
      BY DEF Told
    <2>4. r.disk[p] # NoTask => \A i \in Marks(r.disk[p]) : MarkOK(r, p, i, r.disk[p].works[i].ref)
      <3>1. CASE p = k
        <4>0. PICK b : b = r.disk[k]
          OBVIOUS
        <4>b. b.works = <<>>
          BY <1>9, <1>15, <4>0
        <4>c. DOMAIN <<>> = {}
          OBVIOUS
        <4>a. DOMAIN b.works = {}
          BY <4>b, <4>c
        <4>1. Marks(r.disk[k]) = {}
          BY <4>0, <4>a DEF Marks
        <4> QED BY <3>1, <4>1
      <3>2. CASE p # k
        BY <1>15, <2>1, <3>2 DEF Inv, Told
      <3> QED BY <3>1, <3>2
    <2>5. r.mem[p] # NoTask => \A i \in Marks(r.mem[p]) :
             /\ MarkOK(r, p, i, r.mem[p].works[i].ref)
             /\ \A c \in Tasks : \A h \in Jobs :
                  HopAt(r, h, c) /\ r.mem[p].works[i].ref = <<c, r.mem[c].ask.n>> => EarlierHop(r, p, i, c)
      BY <1>15, <1>a, <2>1, <2>2 DEF Inv, Told
    <2> QED BY <2>4, <2>5
  <1>31. Orphans(r, L)
    <2>1. SUFFICES ASSUME NEW x \in Tasks, Live(s.mem[x]), Parent[x] # Orphan, ~Live(s.mem[Parent[x]]), Lone(x) \notin L
                   PROVE  \/ \E i \in Jobs : \E e \in Held(r, i) : e.op = "cancel" /\ x \in ToSet(e.x)
                          \/ Holds(r, x, <<"host">>, {"orphan"})
      BY <1>15 DEF Orphans
    <2>2. CASE Holds(s, x, <<"host">>, {"orphan"})
      BY <1>14, <2>2, JobFacts
    <2>3. CASE \E i \in Jobs : \E e \in Held(s, i) : e.op = "cancel" /\ x \in ToSet(e.x)
      BY <1>7, <1>11, <2>3
    <2> QED BY <2>1, <2>2, <2>3 DEF Inv, Orphans
  <1> QED BY <1>20, <1>21, <1>22, <1>23, <1>24, <1>25, <1>26, <1>27, <1>28, <1>29, <1>30, <1>31 DEF Inv

\* SendChild.
LEMMA SendChildStep ==
  ASSUME IInv, NEW j \in Jobs, SendChild(j)
  PROVE  Onward
  <1>1. jobs[j] # <<>> /\ jobs[j][1].op = "send" /\ phase' = phase
    BY DEF SendChild, At, Stay
  <1>2. phase # "down" /\ Inv(S, phase, {}) /\ S.jobs[j] = jobs[j]
    BY <1>1, Running
  <1>3. PICK k : k = jobs[j][1].t
    OBVIOUS
  <1>4. PICK s : s = S
    OBVIOUS
  <1>5. PICK s1, s2, r : s1 = Pop(s, j) /\ s2 = Persist(s1, k) /\ r = Push(s2, j, <<Then("enqueue", k)>>)
    OBVIOUS
  <1>6. Do(r)
    BY <1>3, <1>4, <1>5 DEF SendChild
  <1>7. DOMAIN s = Fields /\ DOMAIN s.jobs = Jobs
    BY <1>2, <1>4 DEF Inv, Typed, Fields
  <1>8. Is(s1, s.mem, s.disk, s.queue, s.packing, s.timers, s.wake, s.pool, [s.jobs EXCEPT ![j] = Tail(@)])
    BY <1>5, <1>7, Shapes
  <1>9. Is(s2, s1.mem, [s1.disk EXCEPT ![k] = s1.mem[k]], s1.queue, s1.packing, s1.timers, s1.wake, s1.pool, s1.jobs)
    <2>1. DOMAIN s1 = Fields
      BY <1>8 DEF Is
    <2> QED BY <1>5, <2>1, Shapes
  <1>10. Is(r, s2.mem, s2.disk, s2.queue, s2.packing, s2.timers, s2.wake, s2.pool,
            [s2.jobs EXCEPT ![j] = <<Then("enqueue", k)>> \o @])
    <2>1. DOMAIN s2 = Fields
      BY <1>9 DEF Is
    <2> QED BY <1>5, <2>1, Shapes
  <1>11. /\ r.mem = s.mem /\ r.disk = [s.disk EXCEPT ![k] = s.mem[k]] /\ r.queue = s.queue /\ r.packing = s.packing
         /\ r.timers = s.timers /\ r.wake = s.wake /\ r.pool = s.pool /\ DOMAIN r = Fields
    BY <1>8, <1>9, <1>10 DEF Is
  <1>12. r.jobs = [[s.jobs EXCEPT ![j] = Tail(@)] EXCEPT ![j] = <<Then("enqueue", k)>> \o @]
    BY <1>8, <1>9, <1>10 DEF Is
  <1>13. /\ r.jobs[j] = <<Then("enqueue", k)>> \o Tail(s.jobs[j])
         /\ DOMAIN r.jobs = Jobs /\ \A i \in Jobs : i # j => r.jobs[i] = s.jobs[i]
    BY <1>7, <1>12
  <1>14. SavedChild(s, r, j, k)
    BY <1>11, <1>13 DEF SavedChild, Is
  <1>15. PICK ph, E : ph = phase /\ E = {}
    OBVIOUS
  <1>16. Inv(s, ph, E) /\ ph # "down" /\ s.jobs[j] # <<>> /\ s.jobs[j][1].op = "send" /\ k = s.jobs[j][1].t
    BY <1>1, <1>2, <1>3, <1>4, <1>15
  <1>17. Inv(r, ph, E)
    BY <1>14, <1>16, SendSaved
  <1>18. Falls(s, r)
    BY <1>11, FallsSame
  <1>19. Good(r)
    BY <1>4, <1>15, <1>16, <1>17, <1>18, FallsLegal DEF Good
  <1> QED BY <1>1, <1>2, <1>6, <1>19, Closes

\* The creation of the child k, which job j was about to go on with, is given up.
ChildGone(s, r, j, k) ==
  /\ Is(r, [s.mem EXCEPT ![k] = NoTask], s.disk, s.queue, s.packing, s.timers, s.wake, release(s.pool, k), r.jobs)
  /\ r.jobs[j] = Tail(s.jobs[j])
  /\ DOMAIN r.jobs = Jobs /\ \A i \in Jobs : i # j => r.jobs[i] = s.jobs[i]

LEMMA ChildDropped ==
  ASSUME NEW s, NEW ph, NEW L, Inv(s, ph, L), ph # "down", NEW j \in Jobs, s.jobs[j] # <<>>,
         s.jobs[j][1].op \in Sends, NEW k, k = s.jobs[j][1].t,
         s.jobs[j][1].op = "enqueue" => s.mem[k].st # "READY", NEW r, ChildGone(s, r, j, k)
  PROVE  /\ Inv(r, ph, L) /\ Loose(r.jobs[j]) /\ k \in Tasks
         /\ \A x \in Tasks : Known(r, x) <=> Known(s, x)
  <1>1. /\ DOMAIN s = Fields /\ DOMAIN s.jobs = Jobs /\ DOMAIN s.mem = Tasks /\ DOMAIN s.disk = Tasks
        /\ DOMAIN s.pool = {"live", "spawned"}
        /\ \A i \in Jobs : StackOK(s.jobs[i], i, ph)
    BY DEF Inv, Typed, Fields, Stacks
  <1>2. PICK u, f, q : u = s.jobs[j] /\ f = u[1] /\ q = Tail(u)
    OBVIOUS
  <1>3. f.op \in Sends /\ f.t = k
    BY <1>2
  <1>4. IsStack(u) /\ u # <<>> /\ StackOK(u, j, ph)
    BY <1>1, <1>2 DEF StackOK
  <1>5. Suffix(q, u, 1)
    BY <1>2, <1>4, SuffixTail
  <1>6. /\ DOMAIN u = 1 .. Len(u) /\ \A i \in 1 .. Len(u) : u[i] \in ToSet(u)
        /\ Len(u) \in Nat \ {0}
    BY <1>4, StackFacts
  <1>7. /\ ToSet(q) \subseteq ToSet(u) /\ \A e \in ToSet(u) \ ToSet(q) : e = f
        /\ IsStack(q) /\ Len(q) = Len(u) - 1 /\ \A i \in 1 .. Len(u) - 1 : q[i] = u[i + 1]
    <2>1. ToSet(q) \subseteq ToSet(u) /\ \A e \in ToSet(u) \ ToSet(q) : \E i \in 1 .. 1 : u[i] = e
      BY <1>4, <1>5, SuffixSet
    <2> QED BY <1>2, <1>5, <2>1 DEF Suffix
  <1>8. f \in Held(s, j) /\ Held(s, j) = ToSet(u) /\ Held(r, j) = ToSet(q) /\ r.jobs[j] = q
        /\ \A i \in Jobs : i # j => Held(r, i) = Held(s, i) /\ r.jobs[i] = s.jobs[i]
    BY <1>2, <1>6 DEF Held, ChildGone
  <1>9. /\ NewbornFits(s, f) /\ \A i \in Jobs : Holds(s, k, i, Sends) => i = j
    BY <1>3, <1>8 DEF Inv, Newborns
  <1>10. k \in Tasks /\ s.mem[k] # NoTask /\ Parent[k] # Orphan
    BY <1>3, <1>9 DEF NewbornFits
  <1>11. Born(s, k) /\ ~Known(s, k)
    BY <1>3, <1>8 DEF Born, Holds, Known
  <1>12. ASSUME NEW e \in ToSet(q), e.op \in Sends PROVE e.t # k
    <2>1. PICK i \in 1 .. Len(q) : q[i] = e
      BY <1>7, StackFacts
    <2>2. i + 1 \in 1 .. Len(u) /\ i \in 1 .. Len(u) - 1 /\ i + 1 # 1 /\ 1 \in 1 .. Len(u)
      BY <1>6, <1>7
    <2>3. u[i + 1] = e
      BY <1>7, <2>1, <2>2
    <2>4. FrameFits(u, 1, j, ph)
      BY <1>4, <1>6, <2>2 DEF StackOK
    <2>5. u[1].op \in Sends => \A h \in DOMAIN u : u[h].op \in Sends /\ u[h].t = u[1].t => h = 1
      BY <2>4 DEF FrameFits
    <2>6. u[1].op \in Sends /\ u[1].t = k
      BY <1>2, <1>3
    <2> QED BY <1>6, <1>12, <2>2, <2>3, <2>5, <2>6
  <1>13. /\ DOMAIN r = Fields /\ DOMAIN r.mem = Tasks /\ r.mem[k] = NoTask /\ r.disk = s.disk
         /\ \A x \in Tasks : x # k => r.mem[x] = s.mem[x]
         /\ r.queue = s.queue /\ r.packing = s.packing /\ r.timers = s.timers /\ r.wake = s.wake
         /\ DOMAIN r.pool = {"live", "spawned"} /\ r.pool.live = s.pool.live \ {k} /\ DOMAIN r.jobs = Jobs
    BY <1>1, <1>10 DEF ChildGone, Is, release
  <1>14. \A x, i, ops : i \in Jobs /\ Holds(r, x, i, ops) => Holds(s, x, i, ops)
    BY <1>7, <1>8 DEF Holds
  <1>15. \A x, i, ops : i \in Jobs /\ Holds(s, x, i, ops) /\ (x # k \/ ops \cap Sends = {}) => Holds(r, x, i, ops)
    BY <1>3, <1>7, <1>8 DEF Holds
  <1>16. \A x : Born(r, x) <=> Born(s, x) /\ x # k
    <2>1. \A x : x # k => (Born(r, x) <=> Born(s, x))
      BY <1>14, <1>15 DEF Born
    <2>2. ~Born(r, k)
      <3>1. SUFFICES ASSUME NEW i \in Jobs, NEW e \in Held(r, i), e.op \in Sends, e.t = k PROVE FALSE
        BY DEF Born, Holds
      <3>2. CASE i = j
        BY <1>8, <1>12, <3>1, <3>2
      <3>3. CASE i # j
        BY <1>8, <1>9, <3>1, <3>3 DEF Holds
      <3> QED BY <3>2, <3>3
    <2> QED BY <2>1, <2>2
  <1>17. \A x \in Tasks : Known(r, x) <=> Known(s, x)
    BY <1>11, <1>13, <1>16 DEF Known
  <1>18. \A x \in Tasks : s.mem[x] # NoTask /\ Parent[x] # Orphan => Parent[x] # k /\ Parent[x] \in Tasks
    BY <1>11, TaskAssumption DEF Inv, Family
  <1>19. Typed(r)
    <2>1. /\ DOMAIN s.disk = Tasks
          /\ \A x \in Tasks : /\ s.mem[x] = NoTask \/ Block(s.mem[x])
                              /\ s.disk[x] = NoTask \/ Block(s.disk[x])
                              /\ Owned(x, s.mem[x]) /\ Owned(x, s.disk[x])
      BY DEF Inv, Typed
    <2>2. \A x : Owned(x, NoTask)
      BY DEF Owned
    <2> QED BY <1>13, <2>1, <2>2 DEF Typed, Fields
  <1>20. Stacks(r, ph) /\ (q # <<>> => q[1].op \notin Heads)
    <2>1. StackOK(q, j, ph) /\ (q # <<>> /\ q[1].op \in Heads => q = u)
      BY <1>4, <1>5, StackLess
    <2>2. q # u
      BY <1>6, <1>7
    <2> QED BY <1>1, <1>8, <2>1, <2>2 DEF Stacks
  <1>21. FramesKnown(r)
    <2>1. SUFFICES ASSUME NEW i \in Jobs, NEW e \in Held(r, i) PROVE FrameKnown(r, e)
      BY DEF FramesKnown
    <2>2. FrameKnown(s, e)
      BY <1>7, <1>8, <2>1 DEF Inv, FramesKnown
    <2>3. \A x : Known(s, x) => Known(r, x)
      BY <1>17 DEF Known
    <2>4. ASSUME NEW x \in Tasks, Over(s, x) PROVE Over(r, x)
      <3>1. ASSUME Parent[x] # Orphan, Known(s, Parent[x]) PROVE Known(r, Parent[x]) /\ r.mem[Parent[x]] = s.mem[Parent[x]]
        BY <1>11, <1>13, <2>3, <3>1 DEF Known
      <3>2. CASE x # k
        BY <1>13, <2>4, <3>1, <3>2 DEF Over
      <3>3. CASE x = k
        <4>1. s.mem[k] # NoTask /\ Block(s.mem[k])
          BY <1>10 DEF Inv, Typed
        <4>2. s.mem[k].st = "TERMINATED"
          BY <2>4, <3>3, <4>1, BlockFacts DEF Over
        <4>3. ~Live(s.mem[Parent[k]])
          BY <1>3, <1>9, <4>2 DEF NewbornFits
        <4>4. Known(s, Parent[k])
          BY <1>10 DEF Inv, Family
        <4>5. Block(s.mem[Parent[k]])
          BY <4>4 DEF Known, Inv, Typed
        <4>6. s.mem[Parent[k]].st = "TERMINATED"
          BY <4>3, <4>5, BlockFacts, ZenonT(30)
        <4> QED BY <1>10, <1>13, <3>1, <3>3, <4>4, <4>6, NoTaskFacts, ZenonT(30) DEF Over
      <3> QED BY <3>2, <3>3
    <2> QED BY <2>2, <2>3, <2>4 DEF FrameKnown
  <1>22. ListsKnown(r)
    BY <1>13, <1>17 DEF Inv, ListsKnown, Known
  <1>23. Family(r, ph)
    <2>1. SUFFICES ASSUME NEW x \in Tasks
                   PROVE  /\ r.mem[x] # NoTask /\ Parent[x] # Orphan => Known(r, Parent[x])
                          /\ r.disk[x] # NoTask /\ Parent[x] # Orphan => r.disk[Parent[x]] # NoTask
                          /\ ph # "down" /\ r.disk[x] # NoTask /\ r.mem[x] = NoTask =>
                               Parent[x] # Orphan /\ ~Live(r.mem[Parent[x]])
      BY DEF Family
    <2>2. r.mem[x] # NoTask /\ Parent[x] # Orphan => Known(r, Parent[x])
      <3>1. SUFFICES ASSUME r.mem[x] # NoTask, Parent[x] # Orphan PROVE Known(r, Parent[x])
        OBVIOUS
      <3>2. x # k /\ s.mem[x] # NoTask
        BY <1>13, <3>1
      <3>3. Known(s, Parent[x]) /\ Parent[x] \in Tasks
        BY <1>18, <3>1, <3>2 DEF Inv, Family
      <3> QED BY <1>17, <3>3
    <2>3. r.disk[x] # NoTask /\ Parent[x] # Orphan => r.disk[Parent[x]] # NoTask
      BY <1>13 DEF Inv, Family
    <2>4. ASSUME NEW y \in Tasks, ~Live(s.mem[y]) PROVE ~Live(r.mem[y])
      BY <1>13, <2>4, NoTaskFacts
    <2>5. CASE x = k
      <3>1. s.disk[k] # NoTask => ~Live(s.mem[Parent[k]])
        <4>1. SUFFICES ASSUME s.disk[k] # NoTask PROVE s.mem[k].st # "READY"
          BY <1>3, <1>9 DEF NewbornFits
        <4>2. CASE f.op = "send"
          BY <1>3, <1>9, <4>1, <4>2 DEF NewbornFits
        <4>3. CASE f.op = "enqueue"
          BY <1>2, <4>3
        <4> QED BY <1>3, <4>2, <4>3 DEF Sends
      <3> QED BY <1>10, <1>13, <1>18, <2>2, <2>3, <2>4, <2>5, <3>1
    <2>6. CASE x # k
      <3>1. ph # "down" /\ s.disk[x] # NoTask /\ s.mem[x] = NoTask =>
               Parent[x] # Orphan /\ ~Live(s.mem[Parent[x]])
        BY DEF Inv, Family
      <3>2. Parent[x] # Orphan => Parent[x] \in Tasks
        BY TaskAssumption
      <3> QED BY <1>13, <2>2, <2>3, <2>4, <2>6, <3>1, <3>2
    <2> QED BY <2>5, <2>6
  <1>24. Newborns(r)
    <2>1. SUFFICES ASSUME NEW i \in Jobs, NEW e \in Held(r, i), e.op \in Sends
                   PROVE  NewbornFits(r, e) /\ \A h \in Jobs : Holds(r, e.t, h, Sends) => h = i
      BY DEF Newborns
    <2>2. e \in Held(s, i) /\ e.t # k
      <3>1. CASE i = j
        BY <1>7, <1>8, <1>12, <2>1, <3>1
      <3>2. CASE i # j
        BY <1>8, <1>9, <2>1, <3>2 DEF Holds
      <3> QED BY <3>1, <3>2
    <2>3. NewbornFits(s, e) /\ \A h \in Jobs : Holds(s, e.t, h, Sends) => h = i
      BY <2>1, <2>2 DEF Inv, Newborns
    <2>4. e.t \in Tasks /\ s.mem[e.t] # NoTask /\ Parent[e.t] # k /\ Parent[e.t] \in Tasks
      BY <1>18, <2>3 DEF NewbornFits
    <2>5. NewbornFits(r, e)
      BY <1>13, <2>2, <2>3, <2>4 DEF NewbornFits
    <2> QED BY <1>14, <2>3, <2>5
  <1>25. Saved(r, ph)
    <2>1. Saved(s, ph)
      BY DEF Inv
    <2>2. ~Known(s, k)
      BY <1>11 DEF Known
    <2>3. \A x \in Tasks : Known(r, x) => Known(s, x) /\ r.mem[x] = s.mem[x] /\ r.disk[x] = s.disk[x]
      BY <1>13, <1>17, <2>2
    <2> QED BY <2>1, <2>3, SavedStays
  <1>26. Books(r) /\ Listed(r, L)
    <2>1. Books(r)
      <3>1. s.pool.live = {x \in Tasks : Live(s.mem[x])} /\ k \notin s.queue \cup s.packing
        BY <1>11 DEF Inv, Books, ListsKnown
      <3>2. r.pool.live = {x \in Tasks : Live(r.mem[x])}
        BY <1>13, <3>1, NoTaskFacts
      <3>3. s.queue \cap s.packing = {} /\ \A x \in s.queue \cup s.packing : s.mem[x].st = "READY" /\ x \in Tasks
        BY DEF Inv, Books, ListsKnown, Known
      <3> QED BY <1>13, <3>1, <3>2, <3>3 DEF Books
    <2>2. SUFFICES ASSUME NEW x \in Tasks, r.mem[x].st = "READY" PROVE Late(x) \in L \/ ListedTask(r, x)
      BY <2>1 DEF Listed
    <2>3. x # k /\ s.mem[x].st = "READY"
      BY <1>13, <2>2, NoTaskFacts
    <2>4. Late(x) \in L \/ ListedTask(s, x)
      BY <2>3 DEF Inv, Listed
    <2>5. Holds(s, x, <<"host">>, {"resume"}) => Holds(r, x, <<"host">>, {"resume"})
      BY <1>15, <2>3, JobFacts
    <2> QED BY <1>13, <1>16, <2>3, <2>4, <2>5 DEF ListedTask
  <1>a. j[1] # "model"
    <2>1. FrameFits(u, 1, j, ph)
      BY <1>4, <1>6 DEF StackOK
    <2>2. u[1].op \in {"send", "enqueue", "settle"}
      BY <1>2, <1>3 DEF Sends
    <2> QED BY <2>1, <2>2, Kinds
  <1>b. \A i \in Jobs : OwnHop(r, i) => i # j /\ OwnHop(s, i)
    BY <1>6, <1>7, <1>8, <1>20 DEF OwnHop, Heads
  <1>c. \A i \in Jobs : \A x : HopAt(r, i, x) => i # j /\ HopAt(s, i, x)
    BY <1>8, <1>20 DEF HopAt, Heads
  <1>d. \A i \in Jobs : \A x : HopAt(s, i, x) => Known(s, x) /\ x # k
    <2>1. SUFFICES ASSUME NEW i \in Jobs, NEW x, HopAt(s, i, x) PROVE Known(s, x)
      BY <1>11
    <2>2. IsStack(s.jobs[i]) /\ s.jobs[i] # <<>>
      BY <1>1, <2>1 DEF StackOK, HopAt
    <2>3. s.jobs[i][1] \in Held(s, i)
      BY <2>2, StackFacts DEF Held
    <2> QED BY <2>1, <2>3 DEF HopAt, Inv, FramesKnown, FrameKnown, Nameless, Sends
  <1>28. Handles(r)
    <2>1. SUFFICES ASSUME NEW x \in Tasks PROVE HandlesFor(r, x, r.mem[x])
      BY DEF Handles, HandlesOf
    <2>2. HandlesFor(s, x, s.mem[x])
      BY DEF Inv, Handles, HandlesOf
    <2>3. TurnJob(x) \in Jobs /\ ModelJob(x) \in Jobs /\ <<"loop">> \in Jobs /\ ModelJob(x) # j
      BY <1>a, JobFacts
    <2>4. /\ Hot(r, x) => Hot(s, x)
          /\ Looped(r, x) => Looped(s, x)
          /\ InLoop(r, x) => InLoop(s, x)
          /\ Holds(r, x, TurnJob(x), {"continue"}) => Holds(s, x, TurnJob(x), {"continue"})
          /\ Holds(r, x, TurnJob(x), {"settle"}) => Holds(s, x, TurnJob(x), {"settle"})
          /\ OwnHop(r, TurnJob(x)) => OwnHop(s, TurnJob(x))
          /\ r.jobs[ModelJob(x)] = s.jobs[ModelJob(x)]
      BY <1>7, <1>8, <1>14, <1>b, <2>3 DEF Hot, Looped, InLoop
    <2>5. CASE x # k
      BY <1>13, <2>2, <2>4, <2>5 DEF HandlesFor
    <2>6. CASE x = k
      <3>1. \A i \in Jobs : \A e \in Held(s, i) : e.op \notin Nameless => e.t # k
        BY <1>11 DEF Inv, FramesKnown, FrameKnown
      <3>2. ~Looped(s, k) /\ ~Holds(s, k, TurnJob(k), {"continue"}) /\ ~Holds(s, k, TurnJob(k), {"settle"})
        BY <2>3, <2>6, <3>1 DEF Looped, Holds, Nameless, Sends
      <3>3. s.jobs[ModelJob(k)] = <<>>
        <4>1. SUFFICES ASSUME s.jobs[ModelJob(k)] # <<>> PROVE FALSE
          OBVIOUS
        <4>2. PICK i, w : i = ModelJob(k) /\ w = s.jobs[i]
          OBVIOUS
        <4>3. StackOK(w, i, ph) /\ w # <<>> /\ i \in Jobs /\ i[1] = "model" /\ i[2] = k
          BY <1>1, <2>3, <2>6, <4>1, <4>2, JobFacts
        <4>4. 1 \in DOMAIN w /\ w[1] \in ToSet(w)
          BY <4>3, StackFacts DEF StackOK
        <4>5. FrameFits(w, 1, i, ph)
          BY <4>3, <4>4 DEF StackOK
        <4>6. w[1].op \in {"model", "compact"} /\ w[1].t = k
          BY <4>3, <4>5 DEF FrameFits, OpsOf
        <4> QED BY <2>3, <2>6, <3>1, <4>2, <4>4, <4>6 DEF Held, Nameless, Sends
      <3>4. ~OwnHop(s, TurnJob(k))
        <4>1. SUFFICES ASSUME OwnHop(s, TurnJob(k)) PROVE FALSE
          OBVIOUS
        <4>2. PICK i, w : i = TurnJob(k) /\ w = s.jobs[i]
          OBVIOUS
        <4>3. StackOK(w, i, ph) /\ Len(w) = 1 /\ w[1].op = "publish" /\ i \in Jobs /\ i[2] = k
          BY <1>1, <2>3, <2>6, <4>1, <4>2, JobFacts DEF OwnHop
        <4>a. IsStack(w) /\ 1 \in 1 .. Len(w)
          BY <4>3 DEF StackOK
        <4>4. 1 \in DOMAIN w /\ w[1] \in ToSet(w)
          BY <4>a, StackFacts
        <4>5. FrameFits(w, 1, i, ph)
          BY <4>3, <4>4 DEF StackOK
        <4>6. w[1].t = k
          BY <4>3, <4>5 DEF FrameFits
        <4> QED BY <2>3, <2>6, <3>1, <4>2, <4>3, <4>4, <4>6 DEF Held, Nameless, Sends
      <3> QED BY <2>2, <2>4, <2>6, <3>2, <3>3, <3>4 DEF HandlesFor
    <2> QED BY <2>5, <2>6
  <1>29. Asks(r)
    <2>1. SUFFICES ASSUME NEW c \in Tasks PROVE AsksOf(r, c)
      BY DEF Asks
    <2>2. AsksOf(s, c)
      BY DEF Inv, Asks
    <2>3. ASSUME c # k, Unmarked(s, c) PROVE Unmarked(r, c)
      BY <1>13, <2>3 DEF Unmarked
    <2>4. Holds(r, c, TurnJob(c), {"settle"}) => Holds(s, c, TurnJob(c), {"settle"})
      BY <1>14, JobFacts
    <2>5. CASE c # k
      <3>1. ASSUME NEW i \in Jobs, HopAt(r, i, c)
            PROVE  /\ Pending(r.mem[c]) \/ r.mem[c].st = "TERMINATED"
                   /\ \A h \in Jobs : HopAt(r, h, c) => i = h
                   /\ r.jobs[i][1].op = "publish" => r.disk[c].ask.hop = r.mem[c].ask.hop
                   /\ OwnHop(r, i) => Unmarked(r, c)
        BY <1>8, <1>13, <1>b, <1>c, <2>2, <2>3, <2>5, <3>1 DEF AsksOf
      <3>2. Holds(r, c, TurnJob(c), {"settle"}) /\ Waits(r.mem[c]) =>
              Unmarked(r, c) /\ \A i \in Jobs : ~HopAt(r, i, c)
        BY <1>13, <1>c, <2>2, <2>3, <2>4, <2>5 DEF AsksOf
      <3> QED BY <3>1, <3>2 DEF AsksOf
    <2>6. CASE c = k
      BY <1>13, <1>c, <1>d, <2>6, NoTaskFacts, ZenonT(30) DEF AsksOf, Waits
    <2> QED BY <2>5, <2>6
  <1>30. Told(r)
    <2>1. \A p, i, ref : MarkOK(r, p, i, ref) <=> MarkOK(s, p, i, ref)
      BY <1>13 DEF MarkOK
    <2>2. \A p, i, c : c \in Tasks /\ c # k => (EarlierHop(r, p, i, c) <=> EarlierHop(s, p, i, c))
      BY <1>13 DEF EarlierHop
    <2>3. SUFFICES ASSUME NEW p \in Tasks
                   PROVE  /\ r.disk[p] # NoTask => \A i \in Marks(r.disk[p]) : MarkOK(r, p, i, r.disk[p].works[i].ref)
                          /\ r.mem[p] # NoTask => \A i \in Marks(r.mem[p]) :
                               /\ MarkOK(r, p, i, r.mem[p].works[i].ref)
                               /\ \A c \in Tasks : \A h \in Jobs :
                                    HopAt(r, h, c) /\ r.mem[p].works[i].ref = <<c, r.mem[c].ask.n>> => EarlierHop(r, p, i, c)
      BY DEF Told
    <2>4. r.disk[p] # NoTask => \A i \in Marks(r.disk[p]) : MarkOK(r, p, i, r.disk[p].works[i].ref)
      BY <1>13, <2>1 DEF Inv, Told
    <2>5. ASSUME r.mem[p] # NoTask, NEW i \in Marks(r.mem[p])
          PROVE  /\ MarkOK(r, p, i, r.mem[p].works[i].ref)
                 /\ \A c \in Tasks : \A h \in Jobs :
                      HopAt(r, h, c) /\ r.mem[p].works[i].ref = <<c, r.mem[c].ask.n>> => EarlierHop(r, p, i, c)
      <3>1. p # k /\ r.mem[p] = s.mem[p]
        BY <1>13, <2>5
      <3>2. /\ MarkOK(s, p, i, s.mem[p].works[i].ref)
            /\ \A c \in Tasks : \A h \in Jobs :
                 HopAt(s, h, c) /\ s.mem[p].works[i].ref = <<c, s.mem[c].ask.n>> => EarlierHop(s, p, i, c)
        BY <2>5, <3>1 DEF Inv, Told
      <3>3. MarkOK(r, p, i, r.mem[p].works[i].ref)
        BY <2>1, <3>1, <3>2
      <3>4. ASSUME NEW c \in Tasks, NEW h \in Jobs, HopAt(r, h, c), r.mem[p].works[i].ref = <<c, r.mem[c].ask.n>>
            PROVE  EarlierHop(r, p, i, c)
        <4>1. HopAt(s, h, c) /\ c # k
          BY <1>c, <1>d, <3>4
        <4>2. r.mem[c] = s.mem[c]
          BY <1>13, <4>1
        <4>3. EarlierHop(s, p, i, c)
          BY <3>1, <3>2, <3>4, <4>1, <4>2
        <4> QED BY <2>2, <4>1, <4>3
      <3> QED BY <3>3, <3>4
    <2> QED BY <2>4, <2>5
  <1>31. Orphans(r, L)
    <2>1. SUFFICES ASSUME NEW x \in Tasks, Live(r.mem[x]), Parent[x] # Orphan, ~Live(r.mem[Parent[x]]), Lone(x) \notin L
                   PROVE  \/ \E i \in Jobs : \E e \in Held(r, i) : e.op = "cancel" /\ x \in ToSet(e.x)
                          \/ Holds(r, x, <<"host">>, {"orphan"})
      BY DEF Orphans
    <2>2. x # k /\ Live(s.mem[x])
      BY <1>13, <2>1, NoTaskFacts
    <2>3. ~Live(s.mem[Parent[x]])
      BY <1>13, <1>18, <2>1, <2>2, NoTaskFacts
    <2>4. CASE Holds(s, x, <<"host">>, {"orphan"})
      BY <1>15, <2>2, <2>4, JobFacts
    <2>5. CASE \E i \in Jobs : \E e \in Held(s, i) : e.op = "cancel" /\ x \in ToSet(e.x)
      BY <1>3, <1>7, <1>8, <2>5 DEF Sends
    <2> QED BY <2>1, <2>2, <2>3, <2>4, <2>5 DEF Inv, Orphans
  <1>32. Inv(r, ph, L)
    BY <1>19, <1>20, <1>21, <1>22, <1>23, <1>24, <1>25, <1>26, <1>28, <1>29, <1>30, <1>31 DEF Inv
  <1>33. Loose(q)
    <2>1. SUFFICES ASSUME q # <<>> PROVE q[1].op \notin {"model", "compact"}
      BY <1>20 DEF Loose
    <2>2. 1 \in DOMAIN q
      BY <1>7, <2>1, StackFacts
    <2>3. FrameFits(q, 1, j, ph)
      BY <1>8, <1>20, <2>2 DEF Stacks, StackOK
    <2> QED BY <1>a, <2>3, Kinds
  <1> QED BY <1>8, <1>10, <1>17, <1>32, <1>33

\* The catch of sendSpawnedChild.
LEMMA SendFails ==
  ASSUME IInv, NEW j \in Jobs, jobs[j] # <<>>, jobs[j][1].op \in Sends, NEW k, k = jobs[j][1].t,
         jobs[j][1].op = "enqueue" => mem[k].st # "READY", NEW fit \in Fits, NEW r, r = SendFailed(j, k, fit)
  PROVE  Good(r) /\ phase # "down"
  <1>1. phase # "down" /\ Inv(S, phase, {}) /\ S.jobs[j] = jobs[j] /\ S.mem = mem
    BY Running, SFacts
  <1>2. PICK s, ph, E : s = S /\ ph = phase /\ E = {}
    OBVIOUS
  <1>3. Inv(s, ph, E) /\ ph # "down" /\ s.jobs[j] = jobs[j] /\ s.mem = mem
    BY <1>1, <1>2
  <1>4. PICK s0, s1 : s0 = Pop(s, j) /\ s1 = [s0 EXCEPT !.mem[k] = NoTask, !.pool = release(@, k)]
    OBVIOUS
  <1>5. DOMAIN s = Fields /\ DOMAIN s.jobs = Jobs
    BY <1>3 DEF Inv, Typed, Fields
  <1>6. Is(s0, s.mem, s.disk, s.queue, s.packing, s.timers, s.wake, s.pool, [s.jobs EXCEPT ![j] = Tail(@)])
    BY <1>4, <1>5, Shapes
  <1>7. ChildGone(s, s1, j, k)
    <2>1. Is(s1, [s.mem EXCEPT ![k] = NoTask], s.disk, s.queue, s.packing, s.timers, s.wake, release(s.pool, k), s0.jobs)
      BY <1>4, <1>6 DEF Is, Fields
    <2>2. s1.jobs = [s.jobs EXCEPT ![j] = Tail(@)] /\ s1.jobs = s0.jobs
      BY <1>6, <2>1 DEF Is
    <2>3. s1.jobs[j] = Tail(s.jobs[j]) /\ DOMAIN s1.jobs = Jobs /\ \A i \in Jobs : i # j => s1.jobs[i] = s.jobs[i]
      BY <1>5, <2>2
    <2> QED BY <2>1, <2>2, <2>3 DEF ChildGone
  <1>8. /\ Inv(s1, ph, E) /\ Loose(s1.jobs[j]) /\ k \in Tasks
        /\ \A x \in Tasks : Known(s1, x) <=> Known(s, x)
    <2>1. /\ s.jobs[j] # <<>> /\ s.jobs[j][1].op \in Sends /\ k = s.jobs[j][1].t
          /\ s.jobs[j][1].op = "enqueue" => s.mem[k].st # "READY"
      BY <1>3
    <2>2. Inv(s, ph, E) /\ ph # "down"
      BY <1>3
    <2> QED BY <1>7, <2>1, <2>2, ChildDropped
  <1>9. s1.mem[k] = NoTask /\ \A x \in Tasks : x # k => s1.mem[x] = mem[x]
    <2>1. DOMAIN s.mem = Tasks /\ s1.mem = [s.mem EXCEPT ![k] = NoTask]
      BY <1>3, <1>7 DEF Inv, Typed, ChildGone, Is
    <2> QED BY <1>3, <1>8, <2>1
  <1>10. Falls(s, s1)
    BY <1>3, <1>9 DEF Falls
  <1>11. PICK f : f = jobs[j][1]
    OBVIOUS
  <1>12. f.op \in Sends /\ f.t = k /\ f \in Held(s, j)
    <2>1. IsStack(s.jobs[j]) /\ s.jobs[j] # <<>>
      BY <1>3 DEF Inv, Stacks, StackOK
    <2> QED BY <1>3, <1>11, <2>1, StackFacts DEF Held
  <1>13. NewbornFits(s, f)
    BY <1>3, <1>12 DEF Inv, Newborns
  <1>14. PICK p : p = Parent[k]
    OBVIOUS
  <1>15. mem[k] # NoTask /\ p # Orphan /\ (Live(mem[p]) => Completable(mem[p], k))
    BY <1>3, <1>12, <1>13, <1>14 DEF NewbornFits
  <1>16. Known(s, p) /\ p \in Tasks /\ p # k /\ Block(mem[p])
    <2>1. Known(s, p)
      BY <1>3, <1>8, <1>14, <1>15 DEF Inv, Family
    <2>2. Born(s, k)
      BY <1>12 DEF Born, Holds
    <2> QED BY <1>3, <2>1, <2>2 DEF Known, Inv, Typed
  <1>17. r = IF ~Live(mem[p]) THEN s1
             ELSE IF ~Completable(mem[p], k) THEN Throw(s1, j, fit)
             ELSE Push(Put(s1, p, ChildEnded(mem[p], k, "failed")), j, <<Then("progress", p)>>)
    BY <1>2, <1>4, <1>14 DEF SendFailed, ChildEnded
  <1>18. CASE ~Live(mem[p])
    BY <1>1, <1>2, <1>3, <1>8, <1>10, <1>17, <1>18, FallsLegal DEF Good
  <1>19. CASE Live(mem[p])
    <2>1. PICK b : b = ChildEnded(mem[p], k, "failed")
      OBVIOUS
    <2>2. r = Push(Put(s1, p, b), j, <<Then("progress", p)>>)
      BY <1>15, <1>17, <1>19, <2>1
    <2>3. Milder(mem[p], b, {k}) /\ b.st = mem[p].st /\ b.why = mem[p].why /\ b.ask = mem[p].ask
      BY <1>16, <2>1, ChildResult
    <2>4. s1.mem[p] = mem[p] /\ Known(s1, p)
      BY <1>8, <1>9, <1>16
    <2>5. ASSUME NEW x \in Tasks, Born(s1, x) PROVE x \notin {k}
      BY <1>8, <1>9, <2>5 DEF Born, Holds, Inv, Newborns, NewbornFits
    <2>6. j[1] # "model"
      <3>1. FrameFits(s.jobs[j], 1, j, ph)
        <4>1. StackOK(s.jobs[j], j, ph) /\ s.jobs[j] # <<>>
          BY <1>3 DEF Inv, Stacks
        <4>2. 1 \in DOMAIN s.jobs[j]
          BY <4>1, StackFacts DEF StackOK
        <4> QED BY <4>1, <4>2 DEF StackOK
      <3>2. s.jobs[j][1].op \notin {"model", "compact"}
        BY <1>3, <1>11, <1>12 DEF Sends
      <3> QED BY <3>1, <3>2, Kinds
    <2>7. PICK X : X = {k}
      OBVIOUS
    <2>8. Milder(s1.mem[p], b, X) /\ b.st = s1.mem[p].st /\ b.why = s1.mem[p].why /\ b.ask = s1.mem[p].ask
          /\ \A x \in Tasks : Born(s1, x) => x \notin X
      BY <2>3, <2>4, <2>5, <2>7
    <2>9. Outcome(s1, Push(Put(s1, p, b), j, <<Then("progress", p)>>), j, ph, E)
      BY <1>8, <2>4, <2>6, <2>8, Reports
    <2>10. Inv(r, ph, E) /\ Falls(s1, r)
      BY <2>2, <2>9 DEF Outcome
    <2>11. Falls(s, r)
      BY <1>10, <2>10, FallsThen
    <2> QED BY <1>1, <1>2, <1>3, <2>10, <2>11, FallsLegal DEF Good
  <1> QED BY <1>1, <1>18, <1>19

\* SendChildFails.
LEMMA SendChildFailsStep ==
  ASSUME IInv, NEW j \in Jobs, NEW fit \in Fits, SendChildFails(j, fit)
  PROVE  Onward
  <1>1. jobs[j] # <<>> /\ jobs[j][1].op = "send" /\ phase' = phase
    BY DEF SendChildFails, At, Stay
  <1>2. PICK k, r : k = jobs[j][1].t /\ r = SendFailed(j, k, fit)
    OBVIOUS
  <1>3. Do(r)
    BY <1>2 DEF SendChildFails
  <1>4. jobs[j][1].op \in Sends /\ jobs[j][1].op # "enqueue"
    BY <1>1 DEF Sends
  <1>5. Good(r) /\ phase # "down"
    BY <1>1, <1>2, <1>4, SendFails
  <1> QED BY <1>1, <1>3, <1>5, Closes

\* EnqueueChild.
LEMMA EnqueueChildStep ==
  ASSUME IInv, NEW j \in Jobs, NEW fit \in Fits, EnqueueChild(j, fit)
  PROVE  Onward
  <1>1. jobs[j] # <<>> /\ jobs[j][1].op = "enqueue" /\ phase' = phase
    BY DEF EnqueueChild, At, Stay
  <1>2. PICK k : k = jobs[j][1].t
    OBVIOUS
  <1>3. CASE mem[k].st # "READY"
    <2>1. PICK r : r = SendFailed(j, k, fit)
      OBVIOUS
    <2>2. Do(r)
      BY <1>2, <1>3, <2>1 DEF EnqueueChild
    <2>3. jobs[j][1].op \in Sends
      BY <1>1 DEF Sends
    <2>4. Good(r) /\ phase # "down"
      BY <1>1, <1>2, <1>3, <2>1, <2>3, SendFails
    <2> QED BY <1>1, <2>2, <2>4, Closes
  <1>4. CASE mem[k].st = "READY"
    <2>1. phase # "down" /\ Inv(S, phase, {}) /\ S.jobs[j] = jobs[j] /\ S.mem = mem
      BY <1>1, Running, SFacts
    <2>2. PICK s, ph, E, K : s = S /\ ph = phase /\ E = {} /\ K = {Late(k)}
      OBVIOUS
    <2>3. Inv(s, ph, E) /\ ph # "down" /\ s.jobs[j] = jobs[j] /\ s.mem = mem /\ E \subseteq K
      BY <2>1, <2>2
    <2>4. PICK s1, r : s1 = Pop(s, j) /\ r = prepareTaskForQueue(s1, j, k, fit)
      OBVIOUS
    <2>5. Do(r)
      BY <1>2, <1>4, <2>2, <2>4 DEF EnqueueChild
    <2>6. Typed(s) /\ Stacks(s, ph) /\ s.jobs[j] # <<>>
      BY <1>1, <2>3 DEF Inv
    <2>7. /\ Popped(s, s1, j) /\ Loose(s1.jobs[j])
          /\ s.jobs[j][1] \in Held(s, j) /\ IsStack(s.jobs[j]) /\ Len(s.jobs[j]) \in Nat \ {0}
          /\ Suffix(s1.jobs[j], s.jobs[j], 1) /\ FrameFits(s.jobs[j], 1, j, ph)
          /\ s1.jobs = [s.jobs EXCEPT ![j] = Tail(@)]
      BY <2>4, <2>6, PopShape
    <2>8. PICK u, q : u = s.jobs[j] /\ q = Tail(u)
      OBVIOUS
    <2>9. Suffix(q, u, 1) /\ s1.jobs[j] = q
      BY <2>7, <2>8 DEF Popped
    <2>10. u[1].op = "enqueue" /\ u[1].t = k /\ s.mem[k].st = "READY"
      BY <1>1, <1>2, <1>4, <2>3, <2>8
    <2>11. Expendable(s, u, 1, K)
      BY <2>2, <2>10 DEF Expendable
    <2>12. Is(s1, s.mem, s.disk, s.queue, s.packing, s.timers, s.wake, s.pool, [s.jobs EXCEPT ![j] = q])
      BY <2>3, <2>7, <2>8 DEF Popped, Is
    <2>13. Inv(s1, ph, K)
      BY <2>3, <2>8, <2>9, <2>11, <2>12, Less
    <2>14. NewbornFits(s, u[1]) /\ \A i \in Jobs : Holds(s, k, i, Sends) => i = j
      BY <2>3, <2>7, <2>8, <2>10 DEF Inv, Newborns, Sends
    <2>15. k \in Tasks /\ s.mem[k] # NoTask
      BY <2>10, <2>14 DEF NewbornFits
    <2>16. ~Born(s1, k)
      <3>1. SUFFICES ASSUME NEW i \in Jobs, NEW e \in Held(s1, i), e.op \in Sends, e.t = k PROVE FALSE
        BY DEF Born, Holds
      <3>2. CASE i # j
        BY <2>7, <2>14, <3>1, <3>2 DEF Holds, Held, Popped
      <3>3. CASE i = j
        <4>1. e \in ToSet(q) /\ IsStack(q) /\ Len(q) = Len(u) - 1 /\ \A h \in 1 .. Len(u) - 1 : q[h] = u[h + 1]
          BY <2>9, <3>1, <3>3 DEF Held, Suffix
        <4>2. PICK h \in 1 .. Len(q) : q[h] = e
          BY <4>1, StackFacts
        <4>3. h + 1 \in 1 .. Len(u) /\ h \in 1 .. Len(u) - 1 /\ h + 1 # 1
          BY <2>7, <2>8, <4>1
        <4>4. u[h + 1] = e /\ DOMAIN u = 1 .. Len(u)
          BY <2>7, <2>8, <4>1, <4>2, <4>3, StackFacts
        <4>5. u[1].op \in Sends => \A g \in DOMAIN u : u[g].op \in Sends /\ u[g].t = u[1].t => g = 1
          BY <2>7, <2>8 DEF FrameFits
        <4>6. u[1].op \in Sends
          BY <2>10 DEF Sends
        <4> QED BY <2>10, <3>1, <4>3, <4>4, <4>5, <4>6
      <3> QED BY <3>2, <3>3
    <2>17. Known(s1, k) /\ s1.mem[k].st = "READY"
      BY <2>7, <2>10, <2>15, <2>16 DEF Known, Popped
    <2>18. j[1] # "model"
      <3>1. s.jobs[j][1].op \notin {"model", "compact"}
        BY <2>8, <2>10
      <3> QED BY <2>7, <3>1, Kinds
    <2>19. Without(K, k, E)
      BY <2>2 DEF Without
    <2>20. Outcome(s1, prepareTaskForQueue(s1, j, k, fit), j, ph, E)
      BY <2>3, <2>7, <2>13, <2>17, <2>18, <2>19, Prepares
    <2>21. Inv(r, ph, E) /\ Falls(s1, r)
      BY <2>4, <2>20 DEF Outcome
    <2>22. Falls(s, s1)
      BY <2>7, FallsSame DEF Popped
    <2>23. Falls(s, r)
      BY <2>21, <2>22, FallsThen
    <2>24. Good(r)
      BY <2>2, <2>3, <2>21, <2>23, FallsLegal DEF Good
    <2> QED BY <1>1, <2>1, <2>5, <2>24, Closes
  <1> QED BY <1>3, <1>4

=============================================================================

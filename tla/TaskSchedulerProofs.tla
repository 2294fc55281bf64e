------------------------ MODULE TaskSchedulerProofs -------------------------
(***************************************************************************)
(* More steps of TaskScheduler that preserve its invariant: the requests   *)
(* for capabilities, the loop, the host, crashes and restarts, and the     *)
(* start of asynchronous work.                                             *)
(***************************************************************************)
EXTENDS TaskSchedulerInvariant

\* The provers that a leaf is given, in turn.
USE SMT, Zenon, SMTT(6), SMTT(7), SMTT(8)

----------------------------------------------------------------------------
(* Capability requests *)

\* The continuation of a turn is the last that the turn has to do.
LEMMA ContinueTaken ==
  ASSUME IInv, NEW j \in Jobs, At(j, "continue"), NEW p, p = jobs[j][1].t, NEW s, s = Pop(S, j)
  PROVE  /\ Outcome(S, s, j, phase, {}) /\ phase # "down"
         /\ mem[p].st = "RUNNING" => AtTurn(s, p) /\ j = TurnJob(p)
  <1>1. jobs[j] # <<>> /\ jobs[j][1].op = "continue"
    BY DEF At
  <1>2. jobs[j][1].op \notin Sends \cup {"resume", "cancel", "orphan"}
    BY <1>1 DEF Sends
  <1>3. /\ Outcome(S, s, j, phase, {}) /\ Popped(S, s, j) /\ FrameKnown(S, jobs[j][1]) /\ FrameFits(jobs[j], 1, j, phase)
        /\ phase # "down" /\ Inv(S, phase, {}) /\ Inv(s, phase, {}) /\ Loose(s.jobs[j])
        /\ s.mem = mem /\ S.mem = mem /\ \A x \in Tasks : Known(s, x) <=> Known(S, x)
    BY <1>1, <1>2, TakesPlain
  <1>4. PICK u : u = jobs[j]
    OBVIOUS
  <1>5. u[1].op = "continue" /\ u[1].t = p /\ u # <<>> /\ S.jobs[j] = u
    BY <1>1, <1>4, SFacts
  <1>6. j[1] = "turn" /\ Len(u) = 1 /\ p = j[2]
    <2>1. FrameFits(u, 1, j, phase)
      BY <1>3, <1>4
    <2>2. j[1] = "turn"
      BY <1>5, <2>1, Kinds
    <2>3. 1 = Len(u)
      BY <1>5, <2>1 DEF FrameFits
    <2>4. u[1].t = j[2]
      BY <1>5, <2>1, <2>2 DEF FrameFits
    <2> QED BY <1>5, <2>2, <2>3, <2>4
  <1>7. j = TurnJob(p) /\ p \in Tasks
    BY <1>6, JobFacts
  <1>8. IsStack(u) /\ Held(S, j) = ToSet(u) /\ u[1] \in ToSet(u)
    <2>1. IsStack(u)
      BY <1>3, <1>5 DEF Inv, Stacks, StackOK
    <2> QED BY <1>5, <1>6, <2>1, StackFacts DEF Held
  <1>9. s.jobs[j] = <<>> /\ \A i \in Jobs : i # j => s.jobs[i] = S.jobs[i]
    <2>1. s.jobs[j] = Tail(u) /\ \A i \in Jobs : i # j => s.jobs[i] = S.jobs[i]
      BY <1>3, <1>5 DEF Popped
    <2>2. Suffix(Tail(u), u, 1)
      BY <1>5, <1>8, SuffixTail
    <2>3. IsStack(Tail(u)) /\ Len(Tail(u)) = 0
      BY <1>6, <2>2 DEF Suffix
    <2>4. Tail(u) = <<>>
      BY <2>3, StackFacts
    <2> QED BY <2>1, <2>4
  <1>10. Held(s, j) = {} /\ \A i \in Jobs : i # j => Held(s, i) = Held(S, i)
    BY <1>8, <1>9, SuffixNone DEF Held
  <1>11. Known(S, p) /\ Known(s, p)
    BY <1>1, <1>3, <1>5, <1>7, <1>4 DEF FrameKnown, Nameless, Sends
  <1>12. ModelJob(p) \in Jobs /\ <<"loop">> \in Jobs /\ ModelJob(p) # j /\ <<"loop">> # j
    <2>1. ModelJob(p)[1] = "model" /\ <<"loop">>[1] = "loop" /\ ModelJob(p) \in Jobs /\ <<"loop">> \in Jobs
      BY <1>7, JobFacts, ZenonT(30)
    <2> QED BY <1>6, <2>1
  <1>13. HandlesFor(S, p, mem[p])
    BY <1>3, <1>7, ZenonT(30) DEF Inv, Handles, HandlesOf
  <1>14. Hot(S, p)
    BY <1>5, <1>7, <1>8 DEF Hot
  <1>15. s.jobs[ModelJob(p)] = <<>> /\ ~InLoop(s, p)
    BY <1>9, <1>10, <1>12, <1>13, <1>14 DEF HandlesFor, InLoop, Holds
  <1>16. Free(s, p)
    <2>1. ~Looped(s, p)
      BY <1>15 DEF Looped, InLoop, Holds
    <2>2. ~Holds(s, p, TurnJob(p), {"settle", "continue"})
      BY <1>7, <1>10 DEF Holds
    <2>3. ~OwnHop(s, TurnJob(p))
      <3>1. s.jobs[TurnJob(p)] = <<>>
        BY <1>7, <1>9
      <3> QED BY <3>1 DEF OwnHop
    <2> QED BY <1>15, <2>1, <2>2, <2>3 DEF Free
  <1>17. Light(s, j)
    BY <1>10 DEF Light
  <1>18. ASSUME mem[p].st = "RUNNING", NEW i \in Jobs, HopAt(s, i, p) PROVE Pending(mem[p])
    BY <1>3, <1>7, <1>18, ZenonT(30) DEF Inv, Asks, AsksOf
  <1>19. Block(mem[p])
    BY <1>3, <1>7, <1>11, ZenonT(30) DEF Inv, Typed, Known
  <1>20. ASSUME mem[p].st = "RUNNING" PROVE AtTurn(s, p)
    BY <1>3, <1>6, <1>7, <1>9, <1>11, <1>15, <1>16, <1>17, <1>18, <1>19, <1>20 DEF AtTurn
  <1> QED BY <1>3, <1>7, <1>20, ZenonT(30)

\* A turn that was told of requests waits for its work, while the requests are put before
\* the task again.
LEMMA SettlesAndProgresses ==
  ASSUME NEW j, NEW p, j[1] = "turn", j[2] = p, NEW ph
  PROVE  StackOK(<<Then("settle", p), Then("progress", p)>>, j, ph)
  <1>1. PICK f, g : f = Then("settle", p) /\ g = Then("progress", p)
    OBVIOUS
  <1>2. f.op = "settle" /\ f.t = p /\ g.op = "progress"
    BY <1>1 DEF Then, Frame
  <1>3. PICK q : q = <<f, g>>
    OBVIOUS
  <1>4. IsStack(q) /\ DOMAIN q = {1, 2} /\ q[1] = f /\ q[2] = g /\ Len(q) = 2
    BY <1>3, TwoFrames
  <1>5. FrameFits(q, 1, j, ph)
    BY <1>2, <1>4 DEF FrameFits, OpsOf, Casc, Sends, BootOps
  <1>6. FrameFits(q, 2, j, ph)
    BY <1>2, <1>4 DEF FrameFits, OpsOf, Casc, Sends, BootOps, Heads
  <1>7. StackOK(q, j, ph)
    BY <1>4, <1>5, <1>6 DEF StackOK
  <1> QED BY <1>1, <1>3, <1>7

LEMMA Reminds ==
  ASSUME IInv, NEW t, NEW s, AtTurn(s, t), NEW b, b = requeueActiveCapabilityBlockers(mem[t]),
         NEW r, r = Push(Put(s, t, b), TurnJob(t), <<Then("settle", t), Then("progress", t)>>)
  PROVE  Good(r)
  <1>1. PICK j, s1, p : j = TurnJob(t) /\ s1 = Put(s, t, b) /\ p = <<Then("settle", t), Then("progress", t)>>
    OBVIOUS
  <1>2. PICK ph, E, X : ph = phase /\ E = {} /\ X = {}
    OBVIOUS
  <1>3. Milder(mem[t], b, X) /\ b.st = mem[t].st /\ b.why = mem[t].why /\ b.ask = mem[t].ask
    BY <1>2, BlockerMild DEF AtTurn
  <1>4. /\ Inv(s, ph, E) /\ Known(s, t) /\ Loose(s.jobs[j]) /\ s.mem = mem /\ \A k \in Tasks : Born(s, k) => k \notin X
    BY <1>1, <1>2 DEF AtTurn
  <1>5. Outcome(s, s1, j, ph, E) /\ Replaced(s, t, b, s1)
    BY <1>1, <1>3, <1>4, Notes
  <1>6. Inv(s1, ph, E)
    BY <1>5 DEF Outcome
  <1>7. StackOK(p, j, ph)
    BY <1>1, SettlesAndProgresses DEF AtTurn
  <1>8. \A f \in ToSet(p) : f.op \in {"settle", "progress"} /\ f.t = t
    <2>1. ToSet(p) = {Then("settle", t), Then("progress", t)}
      <3>1. DOMAIN p = {1, 2} /\ p[1] = Then("settle", t) /\ p[2] = Then("progress", t)
        BY <1>1, TwoFrames
      <3> QED BY <3>1 DEF ToSet
    <2> QED BY <2>1 DEF Then, Frame
  <1>9. Known(s1, t) /\ t \in Tasks
    BY <1>4, <1>5 DEF Outcome, Known
  <1>10. \A f \in ToSet(p) : f.op \notin Sends /\ FrameKnown(s1, f)
    BY <1>8, <1>9 DEF FrameKnown, Sends
  <1>11. p[1].op \notin {"publish", "advance"}
    BY <1>1 DEF Then, Frame
  <1>12. s1.jobs = s.jobs /\ s1.mem[t].st = "RUNNING"
    BY <1>3, <1>5 DEF Replaced, AtTurn
  <1>13. TurnMay(s1, t, p)
    <2>1. s1.jobs[TurnJob(t)] = <<>> /\ s1.jobs[ModelJob(t)] = <<>>
      BY <1>12 DEF AtTurn
    <2>2. ~InLoop(s1, t)
      BY <1>12 DEF AtTurn, InLoop, Holds, Held
    <2> QED BY <1>8, <1>9, <1>10, <1>11, <1>12, <2>1, <2>2 DEF TurnMay
  <1>14. r = Push(s1, j, p)
    BY <1>1
  <1>15. Inv(r, ph, E) /\ r.mem = s1.mem
    BY <1>1, <1>6, <1>7, <1>13, <1>14, TurnBegins
  <1>16. Falls(s, r)
    <2>1. Falls(s, s1) /\ Falls(s1, r)
      BY <1>5, <1>15, FallsSame DEF Outcome
    <2> QED BY <2>1, FallsThen
  <1> QED BY <1>2, <1>15, <1>16, TurnFalls

\* ContinueParent.
LEMMA ContinueParentStep ==
  ASSUME IInv, NEW j \in Jobs, NEW fit \in Fits, ContinueParent(j, fit)
  PROVE  Onward
  <1>1. PICK p, s : p = jobs[j][1].t /\ s = Pop(S, j)
    OBVIOUS
  <1>2. At(j, "continue") /\ phase' = phase
    BY DEF ContinueParent, Stay
  <1>3. /\ Outcome(S, s, j, phase, {}) /\ phase # "down"
        /\ mem[p].st = "RUNNING" => AtTurn(s, p) /\ j = TurnJob(p)
    BY <1>1, <1>2, ContinueTaken
  <1>4. CASE mem[p].st # "RUNNING"
    <2>1. Do(s)
      BY <1>1, <1>4 DEF ContinueParent
    <2>2. Good(s)
      BY <1>3, OutcomeGood
    <2> QED BY <1>2, <1>3, <2>1, <2>2, Closes
  <1>5. CASE mem[p].st = "RUNNING"
    <2>1. AtTurn(s, p) /\ j = TurnJob(p)
      BY <1>3, <1>5
    <2>2. PICK b : b = requeueActiveCapabilityBlockers(mem[p])
      OBVIOUS
    <2>3. PICK r1 : r1 = Push(Put(s, p, b), j, <<Then("settle", p), Then("progress", p)>>)
      OBVIOUS
    <2>4. PICK r2 : r2 = Push(s, j, <<Then("settle", p)>>)
      OBVIOUS
    <2>5. PICK r3 : r3 = Requeue(s, j, p, mem[p], fit)
      OBVIOUS
    <2>6. Do(r1) \/ Do(r2) \/ Do(r3)
      BY <1>1, <1>5, <2>2, <2>3, <2>4, <2>5 DEF ContinueParent
    <2>7. Good(r1)
      BY <2>1, <2>2, <2>3, Reminds
    <2>8. Good(r2)
      <3>1. Inv(r2, phase, {}) /\ r2.mem = mem
        BY <2>1, <2>4, TurnGoesOn
      <3>2. Falls(s, r2)
        BY <2>1, <3>1, FallsSame DEF AtTurn
      <3> QED BY <2>1, <3>1, <3>2, TurnFalls
    <2>9. Good(r3)
      <3>1. Milder(mem[p], mem[p], {})
        BY <2>1, MilderSelf DEF AtTurn
      <3> QED BY <2>1, <2>5, <3>1, TurnRequeues
    <2> QED BY <1>2, <1>3, <2>6, <2>7, <2>8, <2>9, Closes
  <1> QED BY <1>4, <1>5

\* The work record i of g names the latest request of c, which nothing acts on.
MarkMade(s, g, i, c, b) ==
  /\ Known(s, g) /\ c \in Tasks /\ Block(b)
  /\ b.st = s.mem[g].st /\ b.why = s.mem[g].why /\ b.ask = s.mem[g].ask
  /\ DOMAIN b.works = DOMAIN s.mem[g].works
  /\ \A k : Completable(s.mem[g], k) => Completable(b, k)
  /\ \A x \in Marks(b) : \/ x \in Marks(s.mem[g]) /\ b.works[x].ref = s.mem[g].works[x].ref
                         \/ x = i /\ b.works[x].ref = <<c, s.mem[c].ask.n>>
  /\ MarkOK(s, g, i, <<c, s.mem[c].ask.n>>)
  /\ \A j \in Jobs : ~HopAt(s, j, c)
  /\ ~(Holds(s, c, TurnJob(c), {"settle"}) /\ Waits(s.mem[c]))

LEMMA MarksMore ==
  ASSUME NEW s, NEW ph, NEW L, Inv(s, ph, L), NEW g, NEW i, NEW c, NEW b, MarkMade(s, g, i, c, b),
         NEW r, r = Put(s, g, b)
  PROVE  /\ Inv(r, ph, L) /\ Replaced(s, g, b, r)
         /\ \A x \in Tasks : Known(r, x) <=> Known(s, x)
  <1>0. /\ Known(s, g) /\ g \in Tasks /\ c \in Tasks /\ Block(b) /\ s.mem[g] # NoTask /\ Block(s.mem[g])
        /\ DOMAIN s = Fields /\ DOMAIN s.mem = Tasks
    BY DEF MarkMade, Known, Inv, Typed, Fields
  <1>a. PICK m : m = [s.mem EXCEPT ![g] = b]
    OBVIOUS
  <1>m. DOMAIN m = Tasks /\ m[g] = b /\ \A x \in Tasks : x # g => m[x] = s.mem[x]
    BY <1>0, <1>a
  <1>1. /\ r.mem = m /\ r.disk = s.disk /\ r.queue = s.queue /\ r.packing = s.packing
        /\ r.timers = s.timers /\ r.wake = s.wake /\ r.pool = s.pool /\ r.jobs = s.jobs
        /\ DOMAIN r = Fields
    BY <1>0, <1>a, Shapes DEF Is
  <1>b. /\ b.st = s.mem[g].st /\ b.why = s.mem[g].why /\ b.ask = s.mem[g].ask /\ b # NoTask
        /\ (Live(b) <=> Live(s.mem[g])) /\ (Waits(b) <=> Waits(s.mem[g])) /\ (Pending(b) <=> Pending(s.mem[g]))
    BY <1>0, BlockFacts DEF MarkMade, Live, Waits, Pending
  <1>2. \A h, t, ops : Holds(r, t, h, ops) <=> Holds(s, t, h, ops)
    BY <1>1 DEF Holds, Held
  <1>3. \A k : Born(r, k) <=> Born(s, k)
    BY <1>2 DEF Born
  <1>5. \A t \in Tasks : /\ m[t] = NoTask <=> s.mem[t] = NoTask
                         /\ m[t].st = s.mem[t].st /\ m[t].ask = s.mem[t].ask
                         /\ Live(m[t]) <=> Live(s.mem[t])
                         /\ Waits(m[t]) <=> Waits(s.mem[t])
                         /\ Pending(m[t]) <=> Pending(s.mem[t])
                         /\ m[t] # NoTask => m[t].why = s.mem[t].why
    BY <1>0, <1>b, <1>m
  <1>6. \A t : Known(r, t) <=> Known(s, t)
    BY <1>1, <1>3, <1>5 DEF Known
  <1>7. Typed(r)
    <2>1. /\ DOMAIN s.disk = Tasks /\ DOMAIN s.jobs = Jobs /\ DOMAIN s.pool = {"live", "spawned"}
          /\ \A x \in Tasks : /\ s.mem[x] = NoTask \/ Block(s.mem[x])
                              /\ s.disk[x] = NoTask \/ Block(s.disk[x])
                              /\ Owned(x, s.mem[x]) /\ Owned(x, s.disk[x])
      BY DEF Inv, Typed
    <2>2. DOMAIN b.works = DOMAIN s.mem[g].works
      BY DEF MarkMade
    <2>3. Owned(g, b)
      BY <1>0, <1>b, <2>1, <2>2, OwnedSame
    <2> QED BY <1>0, <1>1, <1>m, <2>1, <2>3 DEF Typed, Fields
  <1>8. Stacks(r, ph)
    BY <1>1 DEF Inv, Stacks
  <1>9. FramesKnown(r)
    <2>1. SUFFICES ASSUME NEW h \in Jobs, NEW f \in Held(s, h) PROVE FrameKnown(r, f)
      BY <1>1 DEF FramesKnown, Held
    <2>2. FrameKnown(s, f)
      BY DEF Inv, FramesKnown
    <2>3. \A x \in Tasks : s.mem[x].st \in {"TERMINATED", "none"} => r.mem[x].st = s.mem[x].st
      BY <1>1, <1>5
    <2> QED BY <1>6, <2>2, <2>3, FrameStays
  <1>10. ListsKnown(r)
    BY <1>1, <1>6 DEF Inv, ListsKnown
  <1>11. Family(r, ph)
    <2>1. SUFFICES ASSUME NEW t \in Tasks
                   PROVE  /\ r.mem[t] # NoTask /\ Parent[t] # Orphan => Known(r, Parent[t])
                          /\ r.disk[t] # NoTask /\ Parent[t] # Orphan => r.disk[Parent[t]] # NoTask
                          /\ ph # "down" /\ r.disk[t] # NoTask /\ r.mem[t] = NoTask =>
                               Parent[t] # Orphan /\ ~Live(r.mem[Parent[t]])
      BY DEF Family
    <2>2. Parent[t] # Orphan => Parent[t] \in Tasks
      BY TaskAssumption
    <2> QED BY <1>1, <1>5, <1>6, <2>2 DEF Inv, Family
  <1>12. Newborns(r)
    <2>1. SUFFICES ASSUME NEW h \in Jobs, NEW f \in Held(s, h), f.op \in Sends
                   PROVE  NewbornFits(r, f) /\ \A j \in Jobs : Holds(r, f.t, j, Sends) => j = h
      BY <1>1 DEF Newborns, Held
    <2>2. NewbornFits(s, f) /\ \A j \in Jobs : Holds(s, f.t, j, Sends) => j = h
      BY <2>1 DEF Inv, Newborns
    <2>3. Born(s, f.t) /\ f.t \in Tasks /\ Parent[f.t] \in Tasks
      BY <2>1, <2>2, TaskAssumption DEF Born, Holds, NewbornFits
    <2>4. m[f.t] = s.mem[f.t]
      BY <1>0, <1>m, <2>3 DEF Known
    <2>5. Completable(s.mem[Parent[f.t]], f.t) => Completable(m[Parent[f.t]], f.t)
      BY <1>m, <2>3 DEF MarkMade
    <2>6. NewbornFits(r, f)
      BY <1>1, <1>5, <2>2, <2>3, <2>4, <2>5 DEF NewbornFits
    <2> QED BY <1>2, <2>2, <2>6
  <1>13. Saved(r, ph)
    <2>1. SUFFICES ASSUME ph # "down", NEW t \in Tasks, Known(s, t)
                   PROVE  /\ s.disk[t] # NoTask
                          /\ s.disk[t].ask.n = m[t].ask.n /\ s.disk[t].ask.path = m[t].ask.path
                          /\ s.disk[t].ask.hop <= m[t].ask.hop
      BY <1>1, <1>6 DEF Saved
    <2>2. /\ s.disk[t] # NoTask
          /\ s.disk[t].ask.n = s.mem[t].ask.n /\ s.disk[t].ask.path = s.mem[t].ask.path
          /\ s.disk[t].ask.hop <= s.mem[t].ask.hop
      BY <2>1 DEF Inv, Saved
    <2> QED BY <1>5, <2>2
  <1>14. Books(r)
    <2>1. \A t \in s.queue \cup s.packing : t \in Tasks /\ s.mem[t].st = "READY"
      BY DEF Inv, Books, ListsKnown, Known
    <2> QED BY <1>1, <1>5, <2>1 DEF Inv, Books
  <1>15. Listed(r, L)
    <2>1. SUFFICES ASSUME NEW t \in Tasks, m[t].st = "READY", Late(t) \notin L PROVE ListedTask(r, t)
      BY <1>1 DEF Listed
    <2>3. ListedTask(s, t)
      BY <1>5, <2>1 DEF Inv, Listed
    <2> QED BY <1>1, <1>2, <1>3, <2>3 DEF ListedTask
  <1>16. Handles(r)
    <2>1. SUFFICES ASSUME NEW t \in Tasks PROVE HandlesFor(r, t, m[t])
      BY <1>1 DEF Handles, HandlesOf
    <2>2. HandlesFor(s, t, s.mem[t])
      BY DEF Inv, Handles, HandlesOf
    <2>3. HandlesFor(s, t, m[t])
      BY <1>5, <2>2 DEF HandlesFor
    <2> QED BY <1>1, <1>2, <2>3 DEF HandlesFor, Hot, Looped, InLoop, OwnHop, Held
  <1>18. \A p \in Tasks : s.mem[p] # NoTask =>
           \A x \in Marks(m[p]) :
             \/ x \in Marks(s.mem[p]) /\ m[p].works[x].ref = s.mem[p].works[x].ref
             \/ p = g /\ x = i /\ m[p].works[x].ref = <<c, s.mem[c].ask.n>>
    BY <1>m DEF MarkMade
  <1>19. \A h, k : HopAt(r, h, k) <=> HopAt(s, h, k)
    BY <1>1 DEF HopAt
  <1>20. Asks(r)
    <2>1. SUFFICES ASSUME NEW k \in Tasks PROVE AsksOf(r, k)
      BY DEF Asks
    <2>2. AsksOf(s, k)
      BY DEF Inv, Asks
    <2>3. k # c /\ Unmarked(s, k) => Unmarked(r, k)
      BY <1>1, <1>5, <1>18 DEF Unmarked
    <2>4. k = c => ~(Holds(s, k, TurnJob(k), {"settle"}) /\ Waits(s.mem[k])) /\ \A j \in Jobs : ~HopAt(s, j, k)
      BY DEF MarkMade
    <2>6. \A j : OwnHop(r, j) <=> OwnHop(s, j)
      BY <1>1 DEF OwnHop
    <2> QED BY <1>1, <1>2, <1>5, <1>19, <2>2, <2>3, <2>4, <2>6 DEF AsksOf
  <1>21. Told(r)
    <2>1. SUFFICES ASSUME NEW p \in Tasks
                   PROVE  /\ r.disk[p] # NoTask => \A x \in Marks(r.disk[p]) : MarkOK(r, p, x, r.disk[p].works[x].ref)
                          /\ r.mem[p] # NoTask => \A x \in Marks(r.mem[p]) :
                               /\ MarkOK(r, p, x, r.mem[p].works[x].ref)
                               /\ \A k \in Tasks : \A j \in Jobs :
                                    HopAt(r, j, k) /\ r.mem[p].works[x].ref = <<k, r.mem[k].ask.n>> => EarlierHop(r, p, x, k)
      BY DEF Told
    <2>2. \A x, ref : MarkOK(s, p, x, ref) => MarkOK(r, p, x, ref)
      BY <1>1 DEF MarkOK
    <2>3. /\ s.disk[p] # NoTask => \A x \in Marks(s.disk[p]) : MarkOK(s, p, x, s.disk[p].works[x].ref)
          /\ s.mem[p] # NoTask => \A x \in Marks(s.mem[p]) :
                               /\ MarkOK(s, p, x, s.mem[p].works[x].ref)
                               /\ \A k \in Tasks : \A j \in Jobs :
                                    HopAt(s, j, k) /\ s.mem[p].works[x].ref = <<k, s.mem[k].ask.n>> => EarlierHop(s, p, x, k)
      BY DEF Inv, Told
    <2>4. \A x : \A k \in Tasks : EarlierHop(s, p, x, k) => EarlierHop(r, p, x, k)
      BY <1>1, <1>5 DEF EarlierHop
    <2>5. ASSUME m[p] # NoTask, NEW x \in Marks(m[p])
          PROVE  /\ MarkOK(r, p, x, m[p].works[x].ref)
                 /\ \A k \in Tasks : \A j \in Jobs :
                      HopAt(r, j, k) /\ m[p].works[x].ref = <<k, m[k].ask.n>> => EarlierHop(r, p, x, k)
      <3>1. s.mem[p] # NoTask
        BY <1>5, <2>5
      <3>2. CASE x \in Marks(s.mem[p]) /\ m[p].works[x].ref = s.mem[p].works[x].ref
        BY <1>5, <1>19, <2>2, <2>3, <2>4, <3>1, <3>2
      <3>3. CASE p = g /\ x = i /\ m[p].works[x].ref = <<c, s.mem[c].ask.n>>
        <4>1. MarkOK(s, g, i, <<c, s.mem[c].ask.n>>) /\ \A j \in Jobs : ~HopAt(s, j, c)
          BY DEF MarkMade
        <4> QED BY <1>19, <2>2, <3>3, <4>1
      <3> QED BY <1>18, <2>5, <3>1, <3>2, <3>3
    <2> QED BY <1>1, <2>2, <2>3, <2>5
  <1>22. Orphans(r, L)
    <2>1. SUFFICES ASSUME NEW k \in Tasks, Live(m[k]), Parent[k] # Orphan, ~Live(m[Parent[k]]), Lone(k) \notin L
                   PROVE  \/ \E j \in Jobs : \E f \in Held(r, j) : f.op = "cancel" /\ k \in ToSet(f.x)
                          \/ Holds(r, k, <<"host">>, {"orphan"})
      BY <1>1 DEF Orphans
    <2>2. Parent[k] \in Tasks
      BY <2>1, TaskAssumption
    <2>3. \/ \E j \in Jobs : \E f \in Held(s, j) : f.op = "cancel" /\ k \in ToSet(f.x)
          \/ Holds(s, k, <<"host">>, {"orphan"})
      BY <1>5, <2>1, <2>2 DEF Inv, Orphans
    <2> QED BY <1>1, <1>2, <2>3 DEF Held
  <1>23. Replaced(s, g, b, r)
    BY <1>1, <1>m DEF Replaced
  <1> QED BY <1>6, <1>7, <1>8, <1>9, <1>10, <1>11, <1>12, <1>13, <1>14, <1>15, <1>16, <1>20, <1>21, <1>22, <1>23 DEF Inv

LEMMA Single ==
  ASSUME NEW v, IsStack(v), Len(v) = 1
  PROVE  v = <<v[1]>>
  <1>1. PICK A : v \in Seq(A)
    BY DEF IsStack
  <1> QED BY <1>1

\* Job j acts on the request of t: what the invariant says of it, and s without the frame.
AtHop(s, j, t) ==
  /\ Outcome(S, s, j, phase, {}) /\ Inv(s, phase, {}) /\ Inv(S, phase, {}) /\ phase # "down" /\ Popped(S, s, j)
  /\ j[1] = "turn" /\ j = TurnJob(j[2]) /\ Loose(s.jobs[j]) /\ s.mem = mem /\ S.mem = mem
  /\ t \in Tasks /\ Known(S, t) /\ Known(s, t) /\ Block(mem[t]) /\ HopAt(S, j, t)
  /\ \A i \in Jobs : HopAt(S, i, t) => i = j
  /\ Light(S, j) /\ Catching(S, j)
  /\ \A i \in Jobs : ~HopAt(s, i, t)
  /\ ~(Holds(s, t, TurnJob(t), {"settle"}) /\ Waits(mem[t]))

LEMMA HopTaken ==
  ASSUME IInv, NEW j \in Jobs, jobs[j] # <<>>, jobs[j][1].op \in {"publish", "advance"}, NEW t, t = jobs[j][1].t,
         NEW s, s = Pop(S, j)
  PROVE  /\ AtHop(s, j, t)
         /\ jobs[j][1].op = "advance" => Len(jobs[j]) = 2
         /\ Len(jobs[j]) = 2 =>
              /\ s.jobs[j] = <<jobs[j][2]>> /\ jobs[j][2].op = "continue" /\ jobs[j][2].t = j[2]
              /\ FrameKnown(S, jobs[j][2]) /\ mem[j[2]].st \in {"RUNNING", "TERMINATED"}
  <1>1. jobs[j][1].op \notin Sends \cup {"resume", "cancel", "orphan"}
    BY DEF Sends
  <1>2. /\ Outcome(S, s, j, phase, {}) /\ Popped(S, s, j) /\ FrameKnown(S, jobs[j][1]) /\ FrameFits(jobs[j], 1, j, phase)
        /\ phase # "down" /\ Inv(S, phase, {}) /\ Inv(s, phase, {}) /\ Loose(s.jobs[j])
        /\ s.mem = mem /\ S.mem = mem /\ \A x \in Tasks : Known(s, x) <=> Known(S, x)
    BY <1>1, TakesPlain
  <1>3. PICK u : u = jobs[j]
    OBVIOUS
  <1>4. u[1].op \in {"publish", "advance"} /\ u[1].t = t /\ u # <<>> /\ S.jobs[j] = u
    BY <1>3, SFacts
  <1>5. /\ j[1] = "turn"
        /\ (Len(u) = 1 /\ u[1].op = "publish" /\ t = j[2]) \/ (Len(u) = 2 /\ u[2].op = "continue")
    <2>1. FrameFits(u, 1, j, phase)
      BY <1>2, <1>3
    <2>0. u[1].op \in {"publish", "advance", "continue"} => j[1] = "turn"
      BY <2>1, Kinds
    <2>2. j[1] = "turn"
      BY <1>4, <2>0
    <2>3. \/ Len(u) = 1 /\ u[1].op = "publish" /\ u[1].t = j[2]
          \/ Len(u) = 2 /\ u[2].op = "continue"
      BY <1>4, <2>1 DEF FrameFits
    <2> QED BY <1>4, <2>2, <2>3
  <1>6. PICK p : p = j[2]
    OBVIOUS
  <1>7. j = TurnJob(p) /\ p \in Tasks
    BY <1>5, <1>6, JobFacts
  <1>8. IsStack(u) /\ Held(S, j) = ToSet(u) /\ DOMAIN u = 1 .. Len(u) /\ Len(u) \in Nat /\ StackOK(u, j, phase)
        /\ \A i \in 1 .. Len(u) : u[i] \in ToSet(u)
    <2>1. IsStack(u) /\ StackOK(u, j, phase)
      BY <1>2, <1>4 DEF Inv, Stacks, StackOK
    <2> QED BY <1>4, <2>1, StackFacts DEF Held
  <1>9. \A f \in ToSet(u) : f = u[1] \/ (Len(u) = 2 /\ f = u[2])
    <2>1. SUFFICES ASSUME NEW f \in ToSet(u) PROVE f = u[1] \/ (Len(u) = 2 /\ f = u[2])
      OBVIOUS
    <2>2. PICK i \in 1 .. Len(u) : u[i] = f
      BY <1>8, StackFacts
    <2> QED BY <1>5, <2>2
  <1>10. t \in Tasks /\ Known(S, t) /\ Known(s, t) /\ Block(mem[t])
    <2>1. FrameKnown(S, u[1])
      BY <1>2, <1>3
    <2>2. Known(S, t)
      BY <1>4, <2>1 DEF FrameKnown, Nameless, Sends
    <2> QED BY <1>2, <2>2 DEF Known, Inv, Typed
  <1>11. HopAt(S, j, t)
    BY <1>4 DEF HopAt
  <1>12. AsksOf(S, t)
    BY <1>2, <1>10 DEF Inv, Asks
  <1>13. /\ \A i \in Jobs : HopAt(S, i, t) => i = j
         /\ OwnHop(S, j) => Unmarked(S, t)
         /\ ~(Holds(S, t, TurnJob(t), {"settle"}) /\ Waits(mem[t]))
    BY <1>2, <1>11, <1>12 DEF AsksOf
  <1>14. Light(S, j)
    BY <1>4, <1>5, <1>8, <1>9 DEF Light, Sends
  <1>15. HandlesFor(S, p, mem[p])
    BY <1>2, <1>7 DEF Inv, Handles, HandlesOf
  <1>16. Hot(S, p)
    <2>1. 1 \in 1 .. Len(u)
      BY <1>5
    <2>2. u[1] \in Held(S, TurnJob(p))
      BY <1>7, <1>8, <2>1
    <2> QED BY <1>4, <2>2 DEF Hot
  <1>17. S.jobs[ModelJob(p)] = <<>> /\ ~InLoop(S, p)
    BY <1>15, <1>16 DEF HandlesFor
  <1>18. ASSUME Len(u) = 2
         PROVE  /\ s.jobs[j] = <<u[2]>> /\ u[2].op = "continue" /\ u[2].t = p
                /\ FrameKnown(S, u[2]) /\ mem[p].st \in {"RUNNING", "TERMINATED"} /\ Known(S, p)
    <2>1. 2 \in 1 .. Len(u) /\ u[2].op = "continue" /\ u[2] \in ToSet(u)
      BY <1>5, <1>8, <1>18
    <2>2. FrameFits(u, 2, j, phase)
      BY <1>8, <2>1 DEF StackOK
    <2>3. u[2].t = p
      BY <1>5, <1>6, <2>1, <2>2 DEF FrameFits
    <2>4. FrameKnown(S, u[2])
      BY <1>2, <1>8, <2>1 DEF Inv, FramesKnown
    <2>5. Known(S, p)
      BY <2>1, <2>3, <2>4 DEF FrameKnown, Nameless, Sends
    <2>6. Holds(S, p, TurnJob(p), {"continue"})
      BY <1>7, <1>8, <2>1, <2>3 DEF Holds
    <2>7. mem[p].st \in {"RUNNING", "TERMINATED"}
      BY <1>15, <2>6 DEF HandlesFor
    <2>8. s.jobs[j] = <<u[2]>>
      <3>1. s.jobs[j] = Tail(u)
        BY <1>2, <1>4 DEF Popped
      <3>2. Suffix(Tail(u), u, 1)
        BY <1>4, <1>8, SuffixTail
      <3>3. PICK v : v = Tail(u)
        OBVIOUS
      <3>4. IsStack(v) /\ Len(v) = Len(u) - 1 /\ \A i \in 1 .. Len(u) - 1 : v[i] = u[i + 1]
        BY <3>2, <3>3 DEF Suffix
      <3>5. Len(v) = 1 /\ v[1] = u[2]
        BY <1>18, <3>4
      <3>6. v = <<v[1]>>
        BY <3>4, <3>5, Single
      <3> QED BY <3>1, <3>3, <3>5, <3>6
    <2> QED BY <2>1, <2>3, <2>4, <2>5, <2>7, <2>8
  <1>19. Catching(S, j)
    <2>1. CASE Len(u) = 2
      BY <1>2, <1>6, <1>17, <1>18, <2>1 DEF Catching
    <2>2. CASE Len(u) = 1 /\ u[1].op = "publish" /\ t = p
      <3>1. OwnHop(S, j)
        BY <1>4, <2>2 DEF OwnHop
      <3>2. OwnHop(S, TurnJob(t))
        BY <1>7, <2>2, <3>1
      <3>3. mem[t].st = "TERMINATED" \/ Waits(mem[t])
        BY <1>15, <2>2, <3>2 DEF HandlesFor
      <3>4. Known(S, t) /\ S.jobs[ModelJob(t)] = <<>> /\ ~InLoop(S, t)
        BY <1>10, <1>17, <2>2
      <3> QED BY <1>2, <1>6, <1>13, <2>2, <3>1, <3>3, <3>4 DEF Catching
    <2> QED BY <1>5, <1>6, <2>1, <2>2
  <1>20. \A i \in Jobs : ~HopAt(s, i, t)
    <2>1. \A i \in Jobs : i # j => s.jobs[i] = S.jobs[i]
      BY <1>2 DEF Popped
    <2>2. s.jobs[j] # <<>> => s.jobs[j][1].op \notin Heads
      BY <1>2 DEF Loose
    <2> QED BY <1>13, <2>1, <2>2 DEF HopAt, Heads
  <1>21. ~(Holds(s, t, TurnJob(t), {"settle"}) /\ Waits(mem[t]))
    <2>1. \A i \in Jobs : Held(s, i) \subseteq Held(S, i)
      <3>1. SUFFICES ASSUME NEW i \in Jobs PROVE Held(s, i) \subseteq Held(S, i)
        OBVIOUS
      <3>2. CASE i # j
        BY <1>2, <3>2 DEF Popped, Held
      <3>3. CASE i = j
        <4>1. s.jobs[j] = Tail(u)
          BY <1>2, <1>4 DEF Popped
        <4>2. Suffix(Tail(u), u, 1)
          BY <1>4, <1>8, SuffixTail
        <4>3. ToSet(Tail(u)) \subseteq ToSet(u)
          BY <1>8, <4>2, SuffixSet
        <4> QED BY <1>4, <3>3, <4>1, <4>3 DEF Held
      <3> QED BY <3>2, <3>3
    <2>2. TurnJob(t) \in Jobs
      BY <1>10, JobFacts
    <2> QED BY <1>13, <2>1, <2>2 DEF Holds
  <1>22. AtHop(s, j, t)
    BY <1>2, <1>5, <1>6, <1>7, <1>10, <1>11, <1>13, <1>14, <1>19, <1>20, <1>21 DEF AtHop
  <1> QED BY <1>3, <1>4, <1>5, <1>6, <1>18, <1>22

\* The block of a task that is told of a request.
LEMMA MarkBlock ==
  ASSUME NEW b, Block(b), NEW i, Markable(b, i), NEW ref, NEW c, c = markSubagentWaitingForCapability(b, i, ref)
  PROVE  /\ Block(c) /\ c.st = b.st /\ c.why = b.why /\ c.ask = b.ask /\ DOMAIN c.works = DOMAIN b.works
         /\ \A k : Completable(b, k) => Completable(c, k)
         /\ \A x \in Marks(c) : \/ x \in Marks(b) /\ c.works[x].ref = b.works[x].ref
                                \/ x = i /\ c.works[x].ref = ref
  <1>1. \A k \in DOMAIN b.works : DOMAIN b.works[k] = WorkFields /\ b.works[k].open \in BOOLEAN
    BY DEF Block
  <1>2. i \in DOMAIN b.works /\ b.works[i].open
    BY DEF Markable, Open
  <1>3. DOMAIN c = BlockFields /\ DOMAIN c.works = DOMAIN b.works /\ c.st = b.st /\ c.why = b.why /\ c.ask = b.ask
        /\ c.graph = b.graph
    BY DEF markSubagentWaitingForCapability, Block, BlockFields
  <1>4. \A x \in DOMAIN b.works : x # i => c.works[x] = b.works[x]
    BY DEF markSubagentWaitingForCapability, Block, BlockFields
  <1>5. /\ DOMAIN c.works[i] = WorkFields /\ c.works[i].open = b.works[i].open
        /\ c.works[i].ref = ref /\ c.works[i].st = "waiting"
    BY <1>1, <1>2, ZenonT(30) DEF markSubagentWaitingForCapability, Block, BlockFields, WorkFields
  <1>6. Block(c)
    BY <1>1, <1>2, <1>3, <1>4, <1>5 DEF Block
  <1>7. \A k : Completable(b, k) => Completable(c, k)
    <2>1. SUFFICES ASSUME NEW k, Completable(b, k) PROVE Completable(c, k)
      OBVIOUS
    <2>2. k \in DOMAIN b.works /\ b.works[k].open /\ ~Finished(b.works[k])
      BY <2>1 DEF Completable, Open
    <2>3. CASE k = i
      BY <1>2, <1>3, <1>5, <2>3 DEF Completable, Open, Finished
    <2>4. CASE k # i
      BY <1>3, <1>4, <2>2, <2>4 DEF Completable, Open, Finished
    <2> QED BY <2>3, <2>4
  <1>8. ASSUME NEW x \in Marks(c)
        PROVE  \/ x \in Marks(b) /\ c.works[x].ref = b.works[x].ref
               \/ x = i /\ c.works[x].ref = ref
    <2>1. x \in DOMAIN b.works /\ Blocking(c.works[x])
      BY <1>3 DEF Marks
    <2>2. CASE x = i
      BY <1>5, <2>2
    <2>3. CASE x # i
      BY <1>4, <2>1, <2>3 DEF Marks
    <2> QED BY <2>2, <2>3
  <1> QED BY <1>3, <1>6, <1>7, <1>8

\* PublishHop.
LEMMA PublishHopStep ==
  ASSUME IInv, NEW j \in Jobs, NEW fit \in Fits, PublishHop(j, fit)
  PROVE  Onward
  <1>1. PICK t, s : t = jobs[j][1].t /\ s = Pop(S, j)
    OBVIOUS
  <1>2. jobs[j] # <<>> /\ jobs[j][1].op = "publish" /\ phase' = phase
    BY DEF PublishHop, At, Stay
  <1>3. AtHop(s, j, t)
    BY <1>1, <1>2, HopTaken
  <1>4. PICK hop : hop = currentCapabilityDelegationHop(mem[t])
    OBVIOUS
  <1>5. PICK g, i, ref : g = hop.grantor /\ i = hop.grantee /\ ref = Ref(t)
    OBVIOUS
  <1>6. PICK b : b = markSubagentWaitingForCapability(mem[g], i, ref)
    OBVIOUS
  <1>7. PICK r1 : r1 = Throw(S, j, fit)
    OBVIOUS
  <1>8. PICK s1 : s1 = Put(s, g, b)
    OBVIOUS
  <1>9. PICK r2 : r2 = Push(s1, j, <<Then("progress", g)>>)
    OBVIOUS
  <1> DEFINE ok == mem[t].ask.hop \in DOMAIN mem[t].ask.path /\ mem[g] # NoTask /\ Markable(mem[g], i)
  <1>10. Do(r1) \/ (ok /\ Do(r2))
    BY <1>1, <1>4, <1>5, <1>6, <1>7, <1>8, <1>9, ZenonT(30) DEF PublishHop
  <1> HIDE DEF ok
  <1>11. PICK ph, E : ph = phase /\ E = {}
    OBVIOUS
  <1>12. j[1] # "model" /\ phase # "down" /\ ph # "down"
    BY <1>3, <1>11 DEF AtHop
  <1>13. Good(r1)
    <2>1. Inv(S, ph, E) /\ Light(S, j) /\ (j[1] = "turn" => Catching(S, j))
      BY <1>3, <1>11 DEF AtHop
    <2>2. Inv(r1, ph, E) /\ Falls(S, r1)
      BY <1>7, <1>12, <2>1, Throws
    <2>3. Legal(S, r1)
      BY <2>1, <2>2, FallsLegal
    <2> QED BY <1>11, <2>2, <2>3 DEF Good
  <1>14. ASSUME ok PROVE Good(r2)
    <2>1. mem[t].ask.hop \in DOMAIN mem[t].ask.path /\ mem[g] # NoTask /\ Markable(mem[g], i)
      BY <1>14 DEF ok
    <2>2. hop = mem[t].ask.path[mem[t].ask.hop]
      BY <1>4 DEF currentCapabilityDelegationHop
    <2>3. t \in Tasks /\ Known(S, t) /\ Block(mem[t]) /\ S.mem = mem /\ Inv(S, ph, E) /\ mem[t] # NoTask
      BY <1>3, <1>11 DEF AtHop, Known
    <2>4. hop = [grantor |-> g, grantee |-> i] /\ g \in Tasks
      <3>1. Owned(t, mem[t])
        BY <2>3 DEF Inv, Typed
      <3>2. Route(t, hop)
        BY <2>1, <2>2, <2>3, <3>1 DEF Owned
      <3> QED BY <1>5, <3>2 DEF Route
    <2>5. Known(S, g) /\ Known(s, g) /\ Block(mem[g])
      <3>1. Completable(S.mem[g], i)
        BY <2>1, <2>3 DEF Markable, Completable, Finished
      <3>2. Known(S, g)
        BY <2>1, <2>3, <2>4, <3>1, Workers
      <3>3. Known(s, g)
        BY <1>3, <2>4, <3>2 DEF AtHop, Outcome
      <3>4. Block(mem[g])
        BY <2>1, <2>3, <2>4 DEF Inv, Typed
      <3> QED BY <3>2, <3>3, <3>4
    <2>6. /\ Block(b) /\ b.st = mem[g].st /\ b.why = mem[g].why /\ b.ask = mem[g].ask /\ DOMAIN b.works = DOMAIN mem[g].works
          /\ \A k : Completable(mem[g], k) => Completable(b, k)
          /\ \A x \in Marks(b) : \/ x \in Marks(mem[g]) /\ b.works[x].ref = mem[g].works[x].ref
                                 \/ x = i /\ b.works[x].ref = ref
      BY <1>6, <2>1, <2>5, MarkBlock
    <2>7. ref = <<t, mem[t].ask.n>> /\ s.mem = mem
      BY <1>3, <1>5 DEF Ref, AtHop
    <2>8. MarkOK(s, g, i, ref)
      <3>1. PICK n, h : n = mem[t].ask.n /\ h = mem[t].ask.hop
        OBVIOUS
      <3>2. n \in Nat \ {0}
        <4>1. AskOK(mem[t].ask)
          BY <2>3 DEF Block
        <4>2. n \in Nat /\ (n = 0 => Len(mem[t].ask.path) = 0) /\ DOMAIN mem[t].ask.path = 1 .. Len(mem[t].ask.path)
          BY <3>1, <4>1 DEF AskOK
        <4>3. Len(mem[t].ask.path) = 0 => DOMAIN mem[t].ask.path = {}
          BY <4>2
        <4> QED BY <2>1, <4>2, <4>3
      <3>3. disk[t] # NoTask /\ disk[t].ask.n = n /\ disk[t].ask.path = mem[t].ask.path
        BY <1>11, <1>12, <2>3, <3>1, SFacts DEF Inv, Saved
      <3>4. disk[t].ask.hop = h
        <4>1. AsksOf(S, t) /\ HopAt(S, j, t)
          BY <1>3, <2>3 DEF Inv, Asks, AtHop
        <4>2. S.jobs[j][1].op = "publish"
          BY <1>2, SFacts
        <4> QED BY <2>3, <3>1, <4>1, <4>2, SFacts DEF AsksOf
      <3>5. s.disk = disk
        BY <1>3, SFacts DEF AtHop, Popped
      <3>6. h \in Nat /\ h <= h /\ n <= n
        BY <2>3, <3>1, <3>2, BlockFacts
      <3>7. \E k \in DOMAIN s.disk[t].ask.path : k <= s.disk[t].ask.hop /\ s.disk[t].ask.path[k] = [grantor |-> g, grantee |-> i]
        BY <2>1, <2>2, <2>4, <3>1, <3>3, <3>4, <3>5, <3>6
      <3>8. ref = <<ref[1], ref[2]>> /\ ref[1] = t /\ ref[2] = n
        BY <2>7, <3>1
      <3> QED BY <2>3, <3>2, <3>3, <3>5, <3>6, <3>7, <3>8 DEF MarkOK
    <2>9. MarkMade(s, g, i, t, b)
      BY <1>3, <2>3, <2>5, <2>6, <2>7, <2>8 DEF MarkMade, AtHop
    <2>10. Inv(s, ph, E) /\ Outcome(S, s, j, ph, E) /\ Loose(s.jobs[j])
      BY <1>3, <1>11 DEF AtHop
    <2>11. /\ Inv(s1, ph, E) /\ Replaced(s, g, b, s1)
           /\ \A x \in Tasks : Known(s1, x) <=> Known(s, x)
      BY <1>8, <2>9, <2>10, MarksMore
    <2>12. Outcome(s, s1, j, ph, E)
      <3>1. Falls(s, s1)
        BY <2>1, <2>4, <2>6, <2>7, <2>11, FallsOne DEF Replaced
      <3>2. Loose(s1.jobs[j])
        BY <2>10, <2>11 DEF Replaced
      <3> QED BY <2>11, <3>1, <3>2 DEF Outcome
    <2>13. Outcome(s1, r2, j, ph, E)
      <3>1. Loose(s1.jobs[j]) /\ Known(s1, g)
        BY <2>4, <2>5, <2>11, <2>12 DEF Outcome
      <3> QED BY <1>9, <1>12, <2>11, <3>1, PushesOne
    <2>14. Outcome(S, r2, j, ph, E)
      <3>1. Outcome(S, s1, j, ph, E)
        BY <2>10, <2>12, OutcomeThen
      <3> QED BY <2>13, <3>1, OutcomeThen
    <2> QED BY <1>11, <2>14, OutcomeGood
  <1> QED BY <1>2, <1>10, <1>12, <1>13, <1>14, Closes

\* The request of a task is resolved.
LEMMA ResolveMild ==
  ASSUME NEW b, Block(b), NEW status, NEW grants, NEW c, c = appendContext(resolveCapabilityRequest(b, status, grants))
  PROVE  Milder(b, c, {}) /\ c.st = b.st
  <1>1. PICK a, d : a = addCapabilityGrants(b, grants) /\ d = resolveCapabilityRequest(b, status, grants)
    OBVIOUS
  <1>2. PICK X : X = {}
    OBVIOUS
  <1>3. Milder(b, a, X) /\ a.st = b.st
    BY <1>1, GrantsMild
  <1>4. Block(a)
    BY <1>3 DEF Milder
  <1>5. d = [a EXCEPT !.ask.status = status]
    BY <1>1 DEF resolveCapabilityRequest
  <1>6. /\ DOMAIN d = BlockFields /\ d.st = a.st /\ d.works = a.works /\ d.graph = a.graph
        /\ DOMAIN d.ask = AskFields /\ d.ask.n = a.ask.n /\ d.ask.path = a.ask.path /\ d.ask.hop = a.ask.hop
    BY <1>4, <1>5 DEF Block, BlockFields, AskOK, AskFields
  <1>7. AskOK(d.ask)
    BY <1>4, <1>6 DEF Block, AskOK
  <1>8. Block(d)
    BY <1>4, <1>6, <1>7 DEF Block
  <1>9. Milder(a, d, X)
    BY <1>6, <1>8 DEF Milder, Marks, Completable, Open
  <1>10. Milder(d, c, X) /\ c.st = d.st
    BY <1>1, <1>8, ContextMild
  <1>11. Milder(b, c, X)
    BY <1>3, <1>9, <1>10, MilderThen
  <1> QED BY <1>2, <1>3, <1>6, <1>10, <1>11

\* The request of t may be finished by job j, or the attempt throws.
MayFinish(s, j, t) ==
  /\ Known(s, t) /\ \A i \in Jobs : ~HopAt(s, i, t)
  /\ Waits(s.mem[t]) => Free(s, t)
  /\ j \in Jobs /\ j[1] # "model" /\ Light(s, j) /\ Loose(s.jobs[j])
  /\ j[1] = "turn" => Catching(s, j)

\* finishCapabilityRequest.
LEMMA Finishes ==
  ASSUME NEW s, NEW ph, NEW L, Inv(s, ph, L), ph # "down", NEW j, NEW t, MayFinish(s, j, t),
         NEW status, NEW grants, NEW fit \in Fits, NEW r, r = finishCapabilityRequest(s, j, t, status, grants, fit)
  PROVE  Inv(r, ph, L) /\ Falls(s, r)
  <1>1. PICK b : b = appendContext(resolveCapabilityRequest(s.mem[t], status, grants))
    OBVIOUS
  <1>2. PICK c, why : why = "" /\ c = transition(b, "READY", why)
    OBVIOUS
  <1>3. PICK s1 : s1 = Put(s, t, c)
    OBVIOUS
  <1>4. PICK r1, r2, r3, s2 : /\ r1 = Throw(s, j, fit) /\ r2 = deliverAsyncWorkUpdate(s1, j, t, fit)
                              /\ s2 = prepareTaskForQueue(s1, j, t, fit) /\ r3 = Persist(s2, t)
    OBVIOUS
  <1>5. \/ r = r1
        \/ /\ Waits(s.mem[t])
           /\ (hasUndeliveredAsyncWorkResults(b) /\ r = r2) \/ r = r3
    BY <1>1, <1>2, <1>3, <1>4 DEF finishCapabilityRequest, Waits
  <1>6. /\ Known(s, t) /\ t \in Tasks /\ Block(s.mem[t]) /\ j \in Jobs /\ j[1] # "model" /\ Loose(s.jobs[j])
    BY DEF MayFinish, Known, Inv, Typed
  <1>7. CASE r = r1
    <2>1. Light(s, j) /\ (j[1] = "turn" => Catching(s, j))
      BY DEF MayFinish
    <2> QED BY <1>4, <1>6, <1>7, <2>1, Throws
  <1>8. ASSUME Waits(s.mem[t])
        PROVE  /\ Outcome(s, s1, j, ph, L \cup {Late(t)}) /\ Replaced(s, t, c, s1)
               /\ s1.mem[t].st = "READY" /\ Known(s1, t)
    <2>1. Milder(s.mem[t], b, {})
      BY <1>1, <1>6, ResolveMild
    <2>2. Live(s.mem[t])
      BY <1>8 DEF Waits, Live
    <2>3. Free(s, t) /\ \A i \in Jobs : HopAt(s, i, t) => Pending(b)
      BY <1>8 DEF MayFinish
    <2>4. Resumable(s, t, b)
      BY <1>6, <2>1, <2>2, <2>3 DEF Resumable
    <2> QED BY <1>2, <1>3, <1>6, <2>4, Readies
  <1>9. PICK M : M = L \cup {Late(t)}
    OBVIOUS
  <1>10. Without(M, t, L)
    BY <1>9 DEF Without
  <1>11. ASSUME Waits(s.mem[t]) PROVE Inv(s1, ph, M) /\ Loose(s1.jobs[j]) /\ Known(s1, t) /\ s1.mem[t].st = "READY"
    BY <1>8, <1>9, <1>11 DEF Outcome
  <1>12. CASE Waits(s.mem[t]) /\ hasUndeliveredAsyncWorkResults(b) /\ r = r2
    <2>1. hasUndeliveredAsyncWorkResults(s1.mem[t])
      <3>1. Block(b)
        BY <1>1, <1>6, ResolveMild DEF Milder
      <3>2. c.works = b.works
        BY <1>2, <3>1 DEF transition, Block, BlockFields
      <3>3. s1.mem[t].works = b.works
        BY <1>8, <1>12, <3>2 DEF Replaced
      <3> QED BY <1>12, <3>3 DEF hasUndeliveredAsyncWorkResults, Undelivered, Open
    <2>2. Outcome(s1, r2, j, ph, L)
      BY <1>4, <1>6, <1>10, <1>11, <1>12, <2>1, Delivers
    <2> QED BY <1>8, <1>12, <2>2, FallsThen DEF Outcome
  <1>13. CASE Waits(s.mem[t]) /\ r = r3
    <2>1. Outcome(s1, s2, j, ph, L)
      BY <1>4, <1>6, <1>10, <1>11, <1>13, Prepares
    <2>2. Inv(s2, ph, L) /\ Loose(s2.jobs[j]) /\ Known(s2, t)
      BY <1>6, <1>11, <1>13, <2>1 DEF Outcome
    <2>3. Outcome(s2, Persist(s2, t), j, ph, L)
      BY <2>2, Persists
    <2>4. Outcome(s1, r3, j, ph, L)
      BY <1>4, <2>1, <2>3, OutcomeThen
    <2> QED BY <1>8, <1>13, <2>4, FallsThen DEF Outcome
  <1> QED BY <1>5, <1>7, <1>12, <1>13

\* A turn that acts on a request goes on when the request is passed on.
LEMMA HopStack ==
  ASSUME NEW j, NEW ph, j[1] = "turn", NEW f, NEW g, f.op \in {"publish", "advance"}, g.op = "continue", g.t = j[2]
  PROVE  /\ StackOK(<<f, g>>, j, ph) /\ Len(<<f, g>>) = 2 /\ <<f, g>>[1] = f
         /\ \A e \in ToSet(<<f, g>>) : e = f \/ e = g
  <1>1. PICK q : q = <<f, g>>
    OBVIOUS
  <1>2. IsStack(q) /\ DOMAIN q = {1, 2} /\ q[1] = f /\ q[2] = g /\ Len(q) = 2
    BY <1>1, TwoFrames
  <1>3. FrameFits(q, 1, j, ph)
    BY <1>2 DEF FrameFits, OpsOf, Casc, Sends, BootOps, Heads
  <1>4. FrameFits(q, 2, j, ph)
    <2>1. \A k \in 1 .. 2 - 1 : k = 1
      OBVIOUS
    <2>2. 2 # 1 /\ 2 = Len(q)
      BY <1>2
    <2> QED BY <1>2, <2>1, <2>2 DEF FrameFits, OpsOf, Casc, Sends, BootOps, Heads
  <1>5. StackOK(q, j, ph)
    BY <1>2, <1>3, <1>4 DEF StackOK
  <1>6. \A e \in ToSet(q) : e = f \/ e = g
    BY <1>2 DEF ToSet
  <1> QED BY <1>1, <1>2, <1>5, <1>6

\* A frame is pushed on the one that is left in a stack.
LEMMA PushPair ==
  ASSUME NEW s, DOMAIN s = Fields, DOMAIN s.jobs = Jobs, NEW j \in Jobs, NEW f, NEW g, s.jobs[j] = <<g>>,
         NEW z, z = [s EXCEPT !.jobs[j] = <<>>]
  PROVE  Push(s, j, <<f>>) = Push(z, j, <<f, g>>)
  <1>1. PICK a, b : a = <<f>> \o s.jobs[j] /\ b = <<f, g>> \o <<>>
    OBVIOUS
  <1>2. a = b
    <2>1. /\ <<f>> \in Seq({f, g}) /\ <<g>> \in Seq({f, g}) /\ <<f, g>> \in Seq({f, g})
      OBVIOUS
    <2>2. PICK u, v : u = <<f>> /\ v = <<g>>
      OBVIOUS
    <2>3. IsStack(u) /\ IsStack(v) /\ Len(u) = 1 /\ Len(v) = 1 /\ u[1] = f /\ v[1] = g
      BY <2>2, OneFrame
    <2>4. IsStack(u \o v) /\ Len(u \o v) = 2 /\ (u \o v)[1] = u[1] /\ (u \o v)[2] = v[2 - 1]
      <3>1. /\ IsStack(u \o v) /\ Len(u \o v) = Len(u) + Len(v)
            /\ \A i \in 1 .. Len(u) : (u \o v)[i] = u[i]
            /\ \A i \in Len(u) + 1 .. Len(u) + Len(v) : (u \o v)[i] = v[i - Len(u)]
        BY <2>3, StackOn
      <3>2. 1 \in 1 .. Len(u) /\ 2 \in Len(u) + 1 .. Len(u) + Len(v)
        BY <2>3
      <3> QED BY <2>3, <3>1, <3>2
    <2>5. u \o v = <<f, g>>
      <3>1. PICK A : u \o v \in Seq(A)
        BY <2>4 DEF IsStack
      <3>2. PICK w : w = u \o v
        OBVIOUS
      <3>3. w \in Seq(A) /\ Len(w) = 2 /\ w[1] = f /\ w[2] = g
        BY <2>3, <2>4, <3>1, <3>2
      <3>4. w = <<f, g>>
        BY <3>3
      <3> QED BY <3>2, <3>4
    <2>6. <<f, g>> \o <<>> = <<f, g>>
      BY <2>1
    <2> QED BY <1>1, <2>2, <2>5, <2>6
  <1>3. Push(s, j, <<f>>) = [s EXCEPT !.jobs = [s.jobs EXCEPT ![j] = a]]
    BY <1>1 DEF Push
  <1>4. PICK jo : jo = [s.jobs EXCEPT ![j] = <<>>]
    OBVIOUS
  <1>5. z = [s EXCEPT !.jobs = jo] /\ z.jobs = jo /\ z.jobs[j] = <<>>
    BY <1>4 DEF Fields
  <1>6. Push(z, j, <<f, g>>) = [z EXCEPT !.jobs = [jo EXCEPT ![j] = b]]
    BY <1>1, <1>5 DEF Push
  <1>7. [jo EXCEPT ![j] = b] = [s.jobs EXCEPT ![j] = b]
    BY <1>4
  <1>8. PICK j2 : j2 = [s.jobs EXCEPT ![j] = b]
    OBVIOUS
  <1>9. [z EXCEPT !.jobs = j2] = [s EXCEPT !.jobs = j2]
    BY <1>5 DEF Fields
  <1> QED BY <1>2, <1>3, <1>6, <1>7, <1>8, <1>9

\* The request of t goes on to its next hop.
\* The request of t has another hop behind it, and all else of t is as it was.
Advanced(s, r, j, t, b) ==
  /\ Outcome(s, r, j, phase, {}) /\ Replaced(s, t, b, r)
  /\ Block(b) /\ b.st = mem[t].st /\ b.why = mem[t].why /\ b.works = mem[t].works
  /\ b.ask.n = mem[t].ask.n /\ b.ask.path = mem[t].ask.path /\ b.ask.hop = mem[t].ask.hop + 1

LEMMA HopAdvances ==
  ASSUME IInv, NEW j \in Jobs, NEW t, NEW s, AtHop(s, j, t), NEW b, b = advanceCapabilityDelegation(mem[t]),
         NEW r, r = Put(s, t, b)
  PROVE  Advanced(s, r, j, t, b)
  <1>1. /\ Inv(s, phase, {}) /\ t \in Tasks /\ Known(s, t) /\ Block(mem[t]) /\ s.mem = mem /\ Loose(s.jobs[j])
        /\ \A i \in Jobs : ~HopAt(s, i, t)
    BY DEF AtHop
  <1>2. /\ DOMAIN b = BlockFields /\ b.st = mem[t].st /\ b.why = mem[t].why /\ b.works = mem[t].works /\ b.graph = mem[t].graph
        /\ DOMAIN b.ask = AskFields /\ b.ask.n = mem[t].ask.n /\ b.ask.path = mem[t].ask.path
        /\ b.ask.hop = mem[t].ask.hop + 1
    BY <1>1 DEF advanceCapabilityDelegation, Block, BlockFields, AskOK, AskFields
  <1>3. AskOK(mem[t].ask)
    BY <1>1 DEF Block
  <1>4. b.ask.hop \in Nat /\ b.ask.hop >= mem[t].ask.hop
    BY <1>2, <1>3 DEF AskOK
  <1>5. AskOK(b.ask)
    BY <1>2, <1>3, <1>4 DEF AskOK
  <1>6. Block(b)
    BY <1>1, <1>2, <1>5 DEF Block
  <1>7. /\ Live(b) <=> Live(mem[t])
        /\ Waits(b) <=> Waits(mem[t])
        /\ \A i \in Marks(b) : i \in Marks(mem[t]) /\ b.works[i].ref = mem[t].works[i].ref
        /\ \A k : Completable(mem[t], k) => Completable(b, k)
    BY <1>2 DEF Live, Waits, Marks, Completable, Open
  <1>8. HandlesFor(s, t, b)
    <2>1. HandlesFor(s, t, mem[t])
      BY <1>1 DEF Inv, Handles, HandlesOf
    <2> QED BY <1>2, <1>7, <2>1 DEF HandlesFor
  <1>9. t \in s.queue \cup s.packing => b.st = "READY"
    BY <1>1, <1>2 DEF Inv, Books
  <1>10. PICK K : K = {}
    OBVIOUS
  <1>11. Fitting(s, K, t, b)
    BY <1>1, <1>2, <1>4, <1>6, <1>7, <1>8, <1>9 DEF Fitting
  <1>12. Inv(s, phase, K) /\ K \subseteq K /\ b.st \in {s.mem[t].st, "READY"}
    BY <1>1, <1>2, <1>10
  <1>13. Outcome(s, r, j, phase, K) /\ Replaced(s, t, b, r)
    BY <1>1, <1>11, <1>12, PutOutcome
  <1> QED BY <1>2, <1>6, <1>10, <1>13 DEF Advanced

\* A task whose request nothing acts on, and which waits for it, is free.
LEMMA WaitsFree ==
  ASSUME NEW s, NEW ph, NEW L, Inv(s, ph, L), NEW t \in Tasks, Waits(s.mem[t]), \A i \in Jobs : ~HopAt(s, i, t),
         ~Holds(s, t, TurnJob(t), {"settle"})
  PROVE  Free(s, t)
  <1>1. HandlesFor(s, t, s.mem[t])
    BY DEF Inv, Handles, HandlesOf
  <1>2. s.mem[t].st \notin {"RUNNING", "TERMINATED"}
    BY DEF Waits
  <1>3. s.jobs[ModelJob(t)] = <<>> /\ ~Looped(s, t) /\ ~Holds(s, t, TurnJob(t), {"continue"})
    BY <1>1, <1>2 DEF HandlesFor
  <1>4. ~Holds(s, t, TurnJob(t), {"settle", "continue"})
    BY <1>3 DEF Holds
  <1>5. ~OwnHop(s, TurnJob(t))
    <2>1. SUFFICES ASSUME OwnHop(s, TurnJob(t)) PROVE FALSE
      OBVIOUS
    <2>2. TurnJob(t) \in Jobs /\ TurnJob(t)[1] = "turn" /\ TurnJob(t)[2] = t
      BY JobFacts
    <2>3. PICK j, q : j = TurnJob(t) /\ q = s.jobs[j]
      OBVIOUS
    <2>4. StackOK(q, j, ph) /\ Len(q) = 1 /\ q[1].op = "publish"
      BY <2>1, <2>2, <2>3 DEF Inv, Stacks, OwnHop
    <2>5. IsStack(q) /\ q # <<>> /\ 1 \in DOMAIN q
      <3>1. IsStack(q)
        BY <2>4 DEF StackOK
      <3>2. DOMAIN q = 1 .. Len(q) /\ (q = <<>> <=> Len(q) = 0)
        BY <3>1, StackFacts
      <3>3. 1 .. Len(q) = 1 .. 1
        BY <2>4
      <3>4. 1 \in 1 .. 1 /\ Len(q) # 0
        BY <2>4
      <3> QED BY <3>1, <3>2, <3>3, <3>4
    <2>6. FrameFits(q, 1, j, ph)
      BY <2>4, <2>5 DEF StackOK
    <2>7. \/ Len(q) = 1 /\ q[1].op = "publish" /\ q[1].t = j[2]
          \/ Len(q) = 2 /\ q[2].op = "continue"
      BY <2>4, <2>6 DEF FrameFits
    <2>8. q[1].t = t
      BY <2>2, <2>3, <2>4, <2>7
    <2> QED BY <2>2, <2>3, <2>4, <2>5, <2>8 DEF HopAt
  <1> QED BY <1>3, <1>4, <1>5 DEF Free

\* The last hop was passed: the request is finished.
LEMMA AdvanceFinishes ==
  ASSUME IInv, NEW j \in Jobs, jobs[j] # <<>>, jobs[j][1].op = "advance", NEW t, t = jobs[j][1].t,
         NEW s, s = Put(Pop(S, j), t, advanceCapabilityDelegation(mem[t])), NEW fit \in Fits,
         NEW r, r = finishCapabilityRequest(s, j, t, "granted", <<>>, fit)
  PROVE  Good(r)
  <1>1. PICK s0, b, p, e : s0 = Pop(S, j) /\ b = advanceCapabilityDelegation(mem[t]) /\ p = j[2] /\ e = jobs[j][2]
    OBVIOUS
  <1>2. AtHop(s0, j, t) /\ s0.jobs[j] = <<e>> /\ e.op = "continue" /\ e.t = p /\ mem[p].st \in {"RUNNING", "TERMINATED"}
    BY <1>1, HopTaken
  <1>3. s = Put(s0, t, b)
    BY <1>1
  <1>4. /\ Outcome(s0, s, j, phase, {}) /\ Replaced(s0, t, b, s)
        /\ b.st = mem[t].st /\ b.why = mem[t].why
    <2>1. AtHop(s0, j, t) /\ b = advanceCapabilityDelegation(mem[t]) /\ s = Put(s0, t, b)
      BY <1>1, <1>2, <1>3
    <2>2. Advanced(s0, s, j, t, b)
      BY <2>1, HopAdvances
    <2> QED BY <2>2 DEF Advanced
  <1>5. /\ t \in Tasks /\ Known(s0, t) /\ s0.mem = mem /\ S.mem = mem /\ phase # "down" /\ j[1] = "turn" /\ j = TurnJob(p)
        /\ Outcome(S, s0, j, phase, {}) /\ \A i \in Jobs : ~HopAt(s0, i, t)
        /\ ~(Holds(s0, t, TurnJob(t), {"settle"}) /\ Waits(mem[t])) /\ Catching(S, j) /\ Popped(S, s0, j)
    BY <1>1, <1>2 DEF AtHop
  <1>6. s.jobs = s0.jobs /\ s.mem[t] = b /\ \A x \in Tasks : s.mem[x].st = mem[x].st
    BY <1>4, <1>5, ZenonT(30) DEF Replaced
  <1>7. \A i \in Jobs : ~HopAt(s, i, t)
    BY <1>5, <1>6, ZenonT(30) DEF HopAt
  <1>8. Inv(s, phase, {}) /\ Known(s, t) /\ Loose(s.jobs[j])
    BY <1>4, <1>5 DEF Outcome
  <1>9. Waits(s.mem[t]) => Free(s, t)
    <2>1. Waits(s.mem[t]) => Waits(mem[t])
      BY <1>4, <1>6 DEF Waits
    <2>2. Waits(s.mem[t]) => ~Holds(s, t, TurnJob(t), {"settle"})
      BY <1>5, <1>6, <2>1, ZenonT(30) DEF Holds, Held
    <2> QED BY <1>5, <1>7, <1>8, <2>2, WaitsFree, ZenonT(30)
  <1>10. Held(s, j) = {e}
    <2>1. s.jobs[j] = <<e>>
      BY <1>2, <1>6
    <2>2. DOMAIN <<e>> = {1} /\ <<e>>[1] = e
      BY OneFrame
    <2> QED BY <2>1, <2>2 DEF Held, ToSet
  <1>11. Light(s, j)
    BY <1>2, <1>10 DEF Light, Sends
  <1>12. Catching(s, j)
    <2>1. Known(S, p) /\ S.jobs[ModelJob(p)] = <<>> /\ ~InLoop(S, p)
      BY <1>1, <1>5 DEF Catching
    <2>2. p \in Tasks
      BY <2>1 DEF Known
    <2>3. ModelJob(p) # j /\ <<"loop">> # j /\ ModelJob(p) \in Jobs /\ <<"loop">> \in Jobs
      <3>1. ModelJob(p)[1] = "model" /\ <<"loop">>[1] = "loop" /\ ModelJob(p) \in Jobs /\ <<"loop">> \in Jobs
        BY <2>2, JobFacts, ZenonT(30)
      <3> QED BY <1>5, <3>1
    <2>4. s.jobs[ModelJob(p)] = <<>> /\ s.jobs[<<"loop">>] = S.jobs[<<"loop">>]
      BY <1>5, <1>6, <2>1, <2>3, ZenonT(30) DEF Popped
    <2>5. ~InLoop(s, p)
      BY <2>1, <2>4 DEF InLoop, Holds, Held
    <2>6. Known(s, p)
      BY <1>4, <1>5, <2>1, <2>2 DEF Outcome
    <2>7. s.mem[p].st \in {"RUNNING", "TERMINATED"}
      BY <1>2, <1>6, <2>2
    <2> QED BY <1>1, <2>4, <2>5, <2>6, <2>7, ZenonT(30) DEF Catching
  <1>13. PICK ph, E, status, grants : ph = phase /\ E = {} /\ status = "granted" /\ grants = <<>>
    OBVIOUS
  <1>14. MayFinish(s, j, t)
    BY <1>5, <1>7, <1>8, <1>9, <1>11, <1>12, ZenonT(30) DEF MayFinish
  <1>15. Inv(s, ph, E) /\ ph # "down" /\ r = finishCapabilityRequest(s, j, t, status, grants, fit)
    BY <1>5, <1>8, <1>13
  <1>16. Inv(r, ph, E) /\ Falls(s, r)
    BY <1>14, <1>15, Finishes
  <1>17. Outcome(S, s, j, ph, E)
    BY <1>4, <1>5, <1>13, OutcomeThen
  <1>18. Falls(S, r)
    BY <1>16, <1>17, FallsThen DEF Outcome
  <1>19. Inv(S, ph, E)
    BY <1>2, <1>13 DEF AtHop
  <1>20. Legal(S, r)
    BY <1>16, <1>18, <1>19, FallsLegal
  <1> QED BY <1>13, <1>16, <1>20 DEF Good

\* Job j is going to continue the turn, and may act on the request of t before.
HopReady(s, j, t, e) ==
  /\ Inv(s, phase, {}) /\ phase # "down"
  /\ j \in Jobs /\ j[1] = "turn" /\ j = TurnJob(j[2]) /\ s.jobs[j] = <<e>> /\ e.op = "continue" /\ e.t = j[2]
  /\ Known(s, j[2]) /\ s.jobs[ModelJob(j[2])] = <<>> /\ ~InLoop(s, j[2]) /\ s.mem[j[2]].st \in {"RUNNING", "TERMINATED"}
  /\ Known(s, t) /\ Pending(s.mem[t]) /\ ToldEarlier(s, t) /\ \A i \in Jobs : ~HopAt(s, i, t)
  /\ ~(Holds(s, t, TurnJob(t), {"settle"}) /\ Waits(s.mem[t]))

LEMMA ToldEarlierSame ==
  ASSUME NEW s, NEW z, z.mem = s.mem, NEW t, ToldEarlier(s, t)
  PROVE  ToldEarlier(z, t)
  <1>1. \A p, i : EarlierHop(s, p, i, t) => EarlierHop(z, p, i, t)
    BY DEF EarlierHop
  <1> QED BY <1>1 DEF ToldEarlier

LEMMA HopBegins ==
  ASSUME NEW s, NEW j, NEW t, NEW e, HopReady(s, j, t, e), NEW f, f.op \in {"publish", "advance"}, f.t = t,
         f.op = "publish" => s.disk[t].ask.hop = s.mem[t].ask.hop
  PROVE  Inv(Push(s, j, <<f>>), phase, {}) /\ Push(s, j, <<f>>).mem = s.mem
  <1>1. PICK p, z, q, ph, E : p = j[2] /\ z = [s EXCEPT !.jobs[j] = <<>>] /\ q = <<f, e>> /\ ph = phase /\ E = {}
    OBVIOUS
  <1>2. /\ Inv(s, ph, E) /\ ph # "down" /\ j \in Jobs /\ j[1] = "turn" /\ j = TurnJob(p) /\ s.jobs[j] = <<e>>
        /\ e.op = "continue" /\ e.t = p
    BY <1>1 DEF HopReady
  <1>3. /\ Known(s, p) /\ s.jobs[ModelJob(p)] = <<>> /\ ~InLoop(s, p) /\ s.mem[p].st \in {"RUNNING", "TERMINATED"}
        /\ p \in Tasks
    BY <1>1 DEF HopReady, Known
  <1>4. /\ Known(s, t) /\ Pending(s.mem[t]) /\ ToldEarlier(s, t) /\ t \in Tasks
        /\ ~(Holds(s, t, TurnJob(t), {"settle"}) /\ Waits(s.mem[t]))
    BY DEF HopReady, Known
  <1>5. \A i \in Jobs : ~HopAt(s, i, t)
    BY DEF HopReady
  <1>6. Held(s, j) = {e}
    <2>1. DOMAIN <<e>> = {1} /\ <<e>>[1] = e
      BY OneFrame
    <2> QED BY <1>2, <2>1 DEF Held, ToSet
  <1>7. Light(s, j)
    BY <1>2, <1>6 DEF Light, Sends
  <1>8. Outcome(s, z, j, ph, E) /\ Cleared(s, z, j)
    BY <1>1, <1>2, <1>7, Clears
  <1>9. Push(s, j, <<f>>) = Push(z, j, q)
    <2>1. DOMAIN s = Fields /\ DOMAIN s.jobs = Jobs
      BY <1>2 DEF Inv, Typed, Fields
    <2> QED BY <1>1, <1>2, <2>1, PushPair
  <1>10. /\ StackOK(q, j, ph) /\ Len(q) = 2 /\ q[1] = f
         /\ \A x \in ToSet(q) : x = f \/ x = e
    <2>1. j[2] = p
      BY <1>1
    <2>2. StackOK(<<f, e>>, j, ph) /\ Len(<<f, e>>) = 2 /\ <<f, e>>[1] = f /\ \A x \in ToSet(<<f, e>>) : x = f \/ x = e
      BY <1>2, <2>1, HopStack
    <2> QED BY <1>1, <2>2
  <1>11. z.mem = s.mem /\ z.disk = s.disk /\ z.jobs[j] = <<>> /\ \A i \in Jobs : i # j => z.jobs[i] = s.jobs[i]
    BY <1>8 DEF Cleared
  <1>12. Inv(z, ph, E) /\ Known(z, t) /\ Known(z, p)
    BY <1>3, <1>4, <1>8 DEF Outcome
  <1>13. z.jobs[ModelJob(p)] = <<>> /\ ~InLoop(z, p)
    <2>1. ModelJob(p)[1] = "model" /\ <<"loop">>[1] = "loop" /\ ModelJob(p) \in Jobs /\ <<"loop">> \in Jobs
      BY <1>3, JobFacts
    <2>2. ModelJob(p) # j /\ <<"loop">> # j
      BY <1>2, <2>1
    <2>3. z.jobs[ModelJob(p)] = <<>> /\ z.jobs[<<"loop">>] = s.jobs[<<"loop">>]
      BY <1>3, <1>11, <2>1, <2>2
    <2> QED BY <1>3, <2>3 DEF InLoop, Holds, Held
  <1>14. \A i \in Jobs : ~HopAt(z, i, t)
    BY <1>5, <1>11 DEF HopAt
  <1>15. ~(Holds(z, t, TurnJob(t), {"settle"}) /\ Waits(z.mem[t]))
    <2>1. TurnJob(t) \in Jobs
      BY <1>4, JobFacts
    <2>2. Held(z, TurnJob(t)) \subseteq Held(s, TurnJob(t))
      BY <1>8, <2>1 DEF Cleared
    <2>3. Holds(z, t, TurnJob(t), {"settle"}) => Holds(s, t, TurnJob(t), {"settle"})
      BY <2>2 DEF Holds
    <2> QED BY <1>4, <1>11, <2>3
  <1>16. ToldEarlier(z, t)
    BY <1>4, <1>11, ToldEarlierSame
  <1>17. \A x \in ToSet(q) : x.op \notin Sends /\ FrameKnown(z, x)
    <2>1. FrameKnown(z, f)
      BY <1>12 DEF FrameKnown
    <2>2. FrameKnown(z, e)
      BY <1>2, <1>12 DEF FrameKnown
    <2> QED BY <1>2, <1>10, <2>1, <2>2 DEF Sends
  <1>18. TurnMay(z, p, q)
    <2>1. z.jobs[TurnJob(p)] = <<>>
      BY <1>2, <1>11
    <2>2. ~ \E x \in ToSet(q) : x.op = "settle"
      BY <1>2, <1>10
    <2>3. z.mem[p].st \in {"RUNNING", "TERMINATED"}
      BY <1>3, <1>11
    <2>4. Pending(z.mem[t]) /\ (f.op = "publish" => z.disk[t].ask.hop = z.mem[t].ask.hop)
      BY <1>4, <1>11
    <2>5. q[1] = f /\ f.t = t /\ Len(q) # 1
      BY <1>10
    <2> QED BY <1>3, <1>13, <1>17, <1>14, <1>15, <1>16, <2>1, <2>2, <2>3, <2>4, <2>5 DEF TurnMay
  <1>19. Inv(Push(z, j, q), ph, E) /\ Push(z, j, q).mem = z.mem
    BY <1>2, <1>10, <1>12, <1>18, TurnBegins
  <1> QED BY <1>1, <1>9, <1>11, <1>19

\* The next hop is saved and will be published.
LEMMA AdvanceSaves ==
  ASSUME IInv, NEW j \in Jobs, jobs[j] # <<>>, jobs[j][1].op = "advance", NEW t, t = jobs[j][1].t,
         HasHop(advanceCapabilityDelegation(mem[t]))
  PROVE  \E s : /\ s = Persist(Put(Pop(S, j), t, advanceCapabilityDelegation(mem[t])), t)
                /\ Outcome(S, s, j, phase, {}) /\ HopReady(s, j, t, jobs[j][2])
                /\ s.disk[t].ask.hop = s.mem[t].ask.hop
  <1>1. PICK s0, b, p, e : s0 = Pop(S, j) /\ b = advanceCapabilityDelegation(mem[t]) /\ p = j[2] /\ e = jobs[j][2]
    OBVIOUS
  <1>2. PICK s1 : s1 = Put(s0, t, b)
    OBVIOUS
  <1>3. PICK s : s = Persist(s1, t)
    OBVIOUS
  <1>4. /\ AtHop(s0, j, t) /\ s0.jobs[j] = <<e>> /\ e.op = "continue" /\ e.t = p
        /\ mem[p].st \in {"RUNNING", "TERMINATED"} /\ HasHop(b)
    BY <1>1, HopTaken
  <1>5. /\ Outcome(s0, s1, j, phase, {}) /\ Replaced(s0, t, b, s1)
        /\ b.st = mem[t].st /\ b.why = mem[t].why /\ b.works = mem[t].works
        /\ b.ask.n = mem[t].ask.n /\ b.ask.path = mem[t].ask.path /\ b.ask.hop = mem[t].ask.hop + 1
    <2>1. AtHop(s0, j, t) /\ b = advanceCapabilityDelegation(mem[t]) /\ s1 = Put(s0, t, b)
      BY <1>1, <1>2, <1>4
    <2>2. Advanced(s0, s1, j, t, b)
      BY <2>1, HopAdvances
    <2> QED BY <2>2 DEF Advanced
  <1>6. PICK ph, E : ph = phase /\ E = {}
    OBVIOUS
  <1>7. /\ t \in Tasks /\ Known(s0, t) /\ s0.mem = mem /\ S.mem = mem /\ ph # "down" /\ j[1] = "turn" /\ j = TurnJob(p)
        /\ Outcome(S, s0, j, ph, E) /\ ~(Holds(s0, t, TurnJob(t), {"settle"}) /\ Waits(mem[t]))
        /\ Popped(S, s0, j) /\ Inv(S, ph, E) /\ HopAt(S, j, t) /\ Block(mem[t])
    BY <1>1, <1>4, <1>6 DEF AtHop
  <1>8. \A i \in Jobs : ~HopAt(s0, i, t)
    BY <1>4 DEF AtHop
  <1>9. Known(S, p) /\ S.jobs[ModelJob(p)] = <<>> /\ ~InLoop(S, p) /\ p \in Tasks
    BY <1>1, <1>4 DEF AtHop, Catching, Known
  <1>10. Inv(s1, ph, E) /\ Known(s1, t) /\ Loose(s1.jobs[j])
    BY <1>5, <1>6, <1>7 DEF Outcome
  <1>11. Outcome(s1, s, j, ph, E) /\ s.mem = s1.mem /\ s.jobs = s1.jobs
    BY <1>3, <1>7, <1>10, Persists
  <1>12. Outcome(S, s, j, ph, E)
    <2>1. Outcome(S, s1, j, ph, E)
      BY <1>5, <1>6, <1>7, OutcomeThen
    <2> QED BY <1>11, <2>1, OutcomeThen
  <1>13. s.jobs = s0.jobs /\ s.mem[t] = b /\ \A x \in Tasks : x # t => s.mem[x] = mem[x]
    BY <1>5, <1>7, <1>11 DEF Replaced
  <1>14. s.disk[t] = b
    <2>1. DOMAIN s1 = Fields /\ DOMAIN s1.disk = Tasks
      BY <1>10 DEF Inv, Typed, Fields
    <2>2. PICK d : d = [s1.disk EXCEPT ![t] = s1.mem[t]]
      OBVIOUS
    <2>3. Is(Persist(s1, t), s1.mem, [s1.disk EXCEPT ![t] = s1.mem[t]], s1.queue, s1.packing, s1.timers, s1.wake, s1.pool, s1.jobs)
      BY <2>1, Shapes
    <2>4. s.disk = d
      BY <1>3, <2>2, <2>3 DEF Is
    <2>5. s1.mem[t] = b
      BY <1>5 DEF Replaced
    <2> QED BY <1>7, <2>1, <2>2, <2>4, <2>5
  <1>15. \A x \in Tasks : s.mem[x].st = mem[x].st
    BY <1>5, <1>13
  <1>16. Waits(s.mem[t]) => Waits(mem[t])
    BY <1>5, <1>13 DEF Waits
  <1>17. s.jobs[ModelJob(p)] = <<>> /\ ~InLoop(s, p)
    <2>1. ModelJob(p)[1] = "model" /\ <<"loop">>[1] = "loop" /\ ModelJob(p) \in Jobs /\ <<"loop">> \in Jobs
      BY <1>9, JobFacts
    <2>2. ModelJob(p) # j /\ <<"loop">> # j
      BY <1>7, <2>1
    <2>3. s.jobs[ModelJob(p)] = <<>> /\ s.jobs[<<"loop">>] = S.jobs[<<"loop">>]
      BY <1>7, <1>9, <1>13, <2>1, <2>2 DEF Popped
    <2> QED BY <1>9, <2>3 DEF InLoop, Holds, Held
  <1>18. \A i \in Jobs : ~HopAt(s, i, t)
    BY <1>8, <1>13 DEF HopAt
  <1>19. ~(Holds(s, t, TurnJob(t), {"settle"}) /\ Waits(s.mem[t]))
    BY <1>7, <1>13, <1>16 DEF Holds, Held
  <1>20. ToldEarlier(s, t)
    <2>1. SUFFICES ASSUME NEW x \in Tasks, s.mem[x] # NoTask, NEW i \in Marks(s.mem[x]),
                          s.mem[x].works[i].ref = <<t, s.mem[t].ask.n>>
                   PROVE  EarlierHop(s, x, i, t)
      BY DEF ToldEarlier
    <2>2. s.mem[x].works = mem[x].works
      BY <1>5, <1>13
    <2>3. mem[x] # NoTask
      BY <1>7, <1>13, <2>1, BlockFacts
    <2>4. i \in Marks(mem[x]) /\ mem[x].works[i].ref = <<t, mem[t].ask.n>>
      BY <1>5, <1>13, <2>1, <2>2 DEF Marks
    <2>5. Told(S)
      BY <1>7 DEF Inv
    <2>6. HopAt(S, j, t) /\ S.mem[x].works[i].ref = <<t, S.mem[t].ask.n>>
      BY <1>7, <2>4
    <2>7. \A c \in Tasks : \A jj \in Jobs :
            HopAt(S, jj, c) /\ S.mem[x].works[i].ref = <<c, S.mem[c].ask.n>> => EarlierHop(S, x, i, c)
      BY <1>7, <2>3, <2>4, <2>5 DEF Told
    <2>8. EarlierHop(S, x, i, t)
      BY <1>7, <2>6, <2>7
    <2>9. PICK h \in DOMAIN mem[t].ask.path : h < mem[t].ask.hop /\ mem[t].ask.path[h] = [grantor |-> x, grantee |-> i]
      BY <1>7, <2>8, ZenonT(30) DEF EarlierHop
    <2>10. h \in Nat /\ mem[t].ask.hop \in Nat
      <3>1. DOMAIN mem[t].ask.path = 1 .. Len(mem[t].ask.path) /\ Len(mem[t].ask.path) \in Nat /\ mem[t].ask.hop \in Nat
        BY <1>7, BlockFacts
      <3> QED BY <3>1
    <2>11. h < mem[t].ask.hop + 1
      BY <2>9, <2>10
    <2>12. s.mem[t].ask.path = mem[t].ask.path /\ s.mem[t].ask.hop = mem[t].ask.hop + 1
      BY <1>5, <1>13
    <2> QED BY <2>9, <2>11, <2>12, ZenonT(30) DEF EarlierHop
  <1>21. Inv(s, ph, E) /\ Known(s, t) /\ Known(s, p)
    BY <1>7, <1>9, <1>10, <1>11, <1>12 DEF Outcome
  <1>22. HopReady(s, j, t, e)
    <2>1. s.jobs[j] = <<e>>
      BY <1>4, <1>13
    <2>2. Pending(s.mem[t])
      BY <1>4, <1>13 DEF HasHop
    <2>3. s.mem[p].st \in {"RUNNING", "TERMINATED"}
      BY <1>4, <1>9, <1>15
    <2> QED BY <1>1, <1>4, <1>6, <1>7, <1>17, <1>18, <1>19, <1>20, <1>21, <2>1, <2>2, <2>3, ZenonT(30) DEF HopReady
  <1>23. s = Persist(Put(Pop(S, j), t, advanceCapabilityDelegation(mem[t])), t)
    BY <1>1, <1>2, <1>3
  <1>24. Outcome(S, s, j, phase, {}) /\ HopReady(s, j, t, jobs[j][2]) /\ s.disk[t].ask.hop = s.mem[t].ask.hop
    BY <1>1, <1>6, <1>12, <1>13, <1>14, <1>22
  <1> QED BY <1>23, <1>24, ZenonT(30)

LEMMA AdvancePublishes ==
  ASSUME IInv, NEW j \in Jobs, jobs[j] # <<>>, jobs[j][1].op = "advance",
         HasHop(advanceCapabilityDelegation(mem[jobs[j][1].t]))
  PROVE  Good(Push(Persist(Put(Pop(S, j), jobs[j][1].t, advanceCapabilityDelegation(mem[jobs[j][1].t])), jobs[j][1].t),
                   j, <<Then("publish", jobs[j][1].t)>>))
  <1>1. PICK t, e, f : t = jobs[j][1].t /\ e = jobs[j][2] /\ f = Then("publish", t)
    OBVIOUS
  <1>2. PICK s : /\ s = Persist(Put(Pop(S, j), t, advanceCapabilityDelegation(mem[t])), t)
                 /\ Outcome(S, s, j, phase, {}) /\ HopReady(s, j, t, e) /\ s.disk[t].ask.hop = s.mem[t].ask.hop
    BY <1>1, AdvanceSaves
  <1>3. f.op = "publish" /\ f.t = t
    BY <1>1 DEF Then, Frame
  <1>4. PICK r : r = Push(s, j, <<f>>)
    OBVIOUS
  <1>5. HopReady(s, j, t, e) /\ (f.op = "publish" => s.disk[t].ask.hop = s.mem[t].ask.hop) /\ f.op \in {"publish", "advance"}
    BY <1>2, <1>3
  <1>6. Inv(Push(s, j, <<f>>), phase, {}) /\ Push(s, j, <<f>>).mem = s.mem
    BY <1>3, <1>5, HopBegins
  <1>7. Falls(S, s)
    BY <1>2 DEF Outcome
  <1>8. Inv(r, phase, {}) /\ r.mem = s.mem
    BY <1>4, <1>6
  <1>9. Falls(S, r)
    BY <1>7, <1>8 DEF Falls
  <1>10. Legal(S, r)
    BY <1>8, <1>9, FallsLegal DEF IInv
  <1> QED BY <1>1, <1>2, <1>4, <1>8, <1>10, ZenonT(30) DEF Good

\* AdvanceHop.
LEMMA AdvanceHopStep ==
  ASSUME IInv, NEW j \in Jobs, NEW fit \in Fits, AdvanceHop(j, fit)
  PROVE  Onward
  <1>1. PICK t, b : t = jobs[j][1].t /\ b = advanceCapabilityDelegation(mem[t])
    OBVIOUS
  <1>2. jobs[j] # <<>> /\ jobs[j][1].op = "advance" /\ phase' = phase
    BY DEF AdvanceHop, At, Stay
  <1>3. AtHop(Pop(S, j), j, t)
    BY <1>1, <1>2, HopTaken
  <1>4. PICK s, s1, r1, r2, r3 :
          /\ s = Put(Pop(S, j), t, b) /\ s1 = Persist(s, t) /\ r1 = Throw(S, j, fit)
          /\ r2 = Push(s1, j, <<Then("publish", t)>>)
          /\ r3 = finishCapabilityRequest(s, j, t, "granted", <<>>, fit)
    OBVIOUS
  <1>5. Do(r1) \/ (HasHop(b) /\ Do(r2)) \/ Do(r3)
    BY <1>1, <1>4 DEF AdvanceHop
  <1>6. phase # "down"
    BY <1>3 DEF AtHop
  <1>7. Good(r1)
    <2>1. PICK ph, E : ph = phase /\ E = {}
      OBVIOUS
    <2>2. Inv(S, ph, E) /\ Light(S, j) /\ (j[1] = "turn" => Catching(S, j)) /\ j[1] # "model" /\ ph # "down"
      BY <1>3, <2>1 DEF AtHop
    <2>3. Inv(r1, ph, E) /\ Falls(S, r1)
      BY <1>4, <2>2, Throws
    <2>4. Legal(S, r1)
      BY <2>2, <2>3, FallsLegal
    <2> QED BY <2>1, <2>3, <2>4 DEF Good
  <1>8. HasHop(b) => Good(r2)
    BY <1>1, <1>2, <1>4, AdvancePublishes
  <1>9. Good(r3)
    BY <1>1, <1>2, <1>4, AdvanceFinishes
  <1> QED BY <1>2, <1>5, <1>6, <1>7, <1>8, <1>9, Closes

\* The task p decides on the request of t that it was told of for its child k.
Decides(p, k, t) ==
  /\ p \in Tasks /\ phase # "down" /\ mem[p] # NoTask /\ k \in Marks(mem[p])
  /\ mem[t] # NoTask /\ mem[p].works[k].ref = <<t, mem[t].ask.n>> /\ HasHop(mem[t])
  /\ currentCapabilityDelegationHop(mem[t]) = [grantor |-> p, grantee |-> k]

LEMMA Decided ==
  ASSUME IInv, NEW p, NEW k, NEW t, Decides(p, k, t)
  PROVE  /\ t \in Tasks /\ Known(S, t) /\ Pending(mem[t])
         /\ k \in Tasks /\ k # p /\ Known(S, k)
         /\ \A i \in Jobs : ~HopAt(S, i, t)
         /\ ~(Holds(S, t, TurnJob(t), {"settle"}) /\ Waits(mem[t]))
         /\ \A x \in Tasks : mem[x] # NoTask => \A i \in Marks(mem[x]) :
              mem[x].works[i].ref = <<t, mem[t].ask.n>> => (x = p /\ i = k) \/ EarlierHop(S, x, i, t)
  <1>1. PICK m, d, n, ph, E : m = mem[t] /\ d = S.disk[t] /\ n = mem[t].ask.n /\ ph = phase /\ E = {}
    OBVIOUS
  <1>2. S.mem = mem /\ Inv(S, ph, E) /\ ph # "down"
    BY <1>1, SFacts DEF IInv, Decides
  <1>3. mem[p].works[k].ref = <<t, n>> /\ k \in DOMAIN mem[p].works /\ k \in Marks(mem[p]) /\ p \in Tasks /\ mem[p] # NoTask
    BY <1>1 DEF Marks, Decides
  <1>4. MarkOK(S, p, k, mem[p].works[k].ref)
    BY <1>2, <1>3 DEF Inv, Told
  <1>5. t \in Tasks
    <2>1. <<t, n>>[1] = t
      OBVIOUS
    <2> QED BY <1>3, <1>4, <2>1 DEF MarkOK
  <1>6. Block(m) /\ Owned(t, m) /\ Owned(p, mem[p])
    <2>1. Typed(S) /\ m # NoTask /\ m = S.mem[t] /\ mem[p] = S.mem[p]
      BY <1>1, <1>2 DEF Inv, Decides
    <2>2. (S.mem[t] = NoTask \/ Block(S.mem[t])) /\ Owned(t, S.mem[t]) /\ Owned(p, S.mem[p])
      BY <1>3, <1>5, <2>1 DEF Typed
    <2> QED BY <2>1, <2>2
  <1>7. Pending(m) /\ m.ask.hop \in DOMAIN m.ask.path /\ m.ask.path[m.ask.hop] = [grantor |-> p, grantee |-> k] /\ m # NoTask
    BY <1>1 DEF HasHop, currentCapabilityDelegationHop, Decides
  <1>8. /\ DOMAIN m.ask.path = 1 .. Len(m.ask.path) /\ Len(m.ask.path) \in Nat /\ m.ask.hop \in Nat
        /\ \A g, h \in DOMAIN m.ask.path : m.ask.path[g] = m.ask.path[h] => g = h
    BY <1>6 DEF Block, AskOK
  <1>9. Known(S, t)
    <2>1. SUFFICES ASSUME Born(S, t) PROVE FALSE
      BY <1>1, <1>2, <1>5, <1>7 DEF Known
    <2>2. m.ask = NoAsk
      BY <1>1, <1>2, <2>1 DEF Born, Holds, Inv, Newborns, NewbornFits
    <2> QED BY <1>7, <2>2 DEF Pending, NoAsk
  <1>10. Route(t, [grantor |-> p, grantee |-> k])
    BY <1>6, <1>7 DEF Owned
  <1>11. k \in Tasks /\ Known(S, k)
    <2>1. \A x \in Tasks : Known(S, x) /\ Parent[x] # Orphan => Known(S, Parent[x])
      BY <1>2 DEF Inv, Family, Known
    <2>2. k = t \/ (Parent[t] # Orphan /\ (k = Parent[t] \/ (Parent[Parent[t]] # Orphan /\ k = Parent[Parent[t]])))
      BY <1>10 DEF Route
    <2>3. Known(S, k)
      <3>1. Parent[t] # Orphan => Known(S, Parent[t]) /\ Parent[t] \in Tasks
        BY <1>5, <1>9, <2>1 DEF Known
      <3> QED BY <1>9, <2>1, <2>2, <3>1
    <2> QED BY <2>3 DEF Known
  <1>12. Parent[k] = p /\ k # p
    <2>1. Parent[k] = p
      BY <1>3, <1>6, <1>11, TaskAssumption DEF Owned
    <2>2. k = p => FALSE
      <3>1. SUFFICES ASSUME Parent[k] = k PROVE FALSE
        BY <2>1
      <3>2. k # Orphan /\ Orphan \notin Tasks
        BY <1>11, TaskAssumption
      <3> QED BY <1>11, <3>1, <3>2, TaskAssumption
    <2> QED BY <2>1, <2>2
  <1>13. \A i \in Jobs : ~HopAt(S, i, t)
    <2>1. SUFFICES ASSUME NEW i \in Jobs, HopAt(S, i, t) PROVE FALSE
      OBVIOUS
    <2>2. Told(S)
      BY <1>2 DEF Inv
    <2>3. S.mem[p].works[k].ref = <<t, S.mem[t].ask.n>> /\ k \in Marks(S.mem[p]) /\ S.mem[p] # NoTask
      BY <1>1, <1>2, <1>3
    <2>4. EarlierHop(S, p, k, t)
      BY <1>3, <1>5, <2>1, <2>2, <2>3 DEF Told
    <2>5. PICK h \in DOMAIN m.ask.path : h < m.ask.hop /\ m.ask.path[h] = [grantor |-> p, grantee |-> k]
      BY <1>1, <1>2, <2>4 DEF EarlierHop
    <2>6. h = m.ask.hop /\ h \in Nat
      BY <1>7, <1>8, <2>5
    <2> QED BY <1>8, <2>5, <2>6
  <1>14. ~(Holds(S, t, TurnJob(t), {"settle"}) /\ Waits(mem[t]))
    <2>1. SUFFICES ASSUME Unmarked(S, t) PROVE FALSE
      BY <1>2, <1>5 DEF Inv, Asks, AsksOf
    <2> QED BY <1>1, <1>2, <1>3, <2>1 DEF Unmarked
  <1>15. ASSUME NEW x \in Tasks, mem[x] # NoTask, NEW i \in Marks(mem[x]), mem[x].works[i].ref = <<t, mem[t].ask.n>>,
                ~(x = p /\ i = k)
         PROVE  EarlierHop(S, x, i, t)
    <2>1. MarkOK(S, x, i, <<t, n>>)
      BY <1>1, <1>2, <1>15 DEF Inv, Told
    <2>2. d.ask.n = n /\ d.ask.path = m.ask.path /\ d.ask.hop <= m.ask.hop /\ d # NoTask
      BY <1>1, <1>2, <1>5, <1>9 DEF Inv, Saved
    <2>3. PICK h \in DOMAIN m.ask.path : h <= d.ask.hop /\ m.ask.path[h] = [grantor |-> x, grantee |-> i]
      <3>1. <<t, n>>[1] = t /\ <<t, n>>[2] = n
        OBVIOUS
      <3> QED BY <1>1, <2>1, <2>2, <3>1 DEF MarkOK
    <2>4. Block(d)
      BY <1>1, <1>2, <1>5, <2>2 DEF Inv, Typed
    <2>5. d.ask.hop \in Nat /\ h \in Nat
      <3>1. h \in 1 .. Len(m.ask.path)
        BY <1>8, <2>3
      <3>2. h \in Nat
        BY <1>8, <3>1
      <3> QED BY <2>4, <3>2, BlockFacts
    <2>6. h # m.ask.hop
      <3>1. SUFFICES ASSUME h = m.ask.hop PROVE FALSE
        OBVIOUS
      <3>2. [grantor |-> x, grantee |-> i] = [grantor |-> p, grantee |-> k]
        BY <1>7, <2>3, <3>1
      <3>3. x = p /\ i = k
        BY <3>2
      <3> QED BY <1>15, <3>3
    <2>7. h < m.ask.hop
      BY <1>8, <2>2, <2>3, <2>5, <2>6
    <2> QED BY <1>1, <1>2, <2>3, <2>7 DEF EarlierHop
  <1> QED BY <1>1, <1>5, <1>7, <1>9, <1>11, <1>12, <1>13, <1>14, <1>15

\* The turn of p that decides goes on without the request k put before it.
Deciding(s, p, k, t) ==
  /\ Inv(s, phase, {}) /\ Outcome(S, s, TurnJob(p), phase, {}) /\ HopReady(s, TurnJob(p), t, Then("continue", p))
  /\ Known(s, k) /\ s.mem[k] = mem[k] /\ Loose(s.jobs[TurnJob(p)])
  /\ Light(s, TurnJob(p)) /\ Catching(s, TurnJob(p))

\* s does nothing for the request of t that is not done in S.
Calmer(s, t) ==
  /\ \A i \in Jobs : HopAt(s, i, t) => HopAt(S, i, t)
  /\ Held(s, TurnJob(t)) \subseteq Held(S, TurnJob(t))

LEMMA DecidingTurn ==
  ASSUME IInv, NEW p, NEW s0, AtTurn(s0, p), NEW k, NEW t, Decides(p, k, t), Calmer(s0, t)
  PROVE  Deciding(Push(Put(s0, p, clearSubagentCapabilityBlocker(mem[p], k)), TurnJob(p), <<Then("continue", p)>>), p, k, t)
  <1>1. PICK b, s1, e, j, ph, E : /\ b = clearSubagentCapabilityBlocker(mem[p], k) /\ s1 = Put(s0, p, b)
                                  /\ e = Then("continue", p) /\ j = TurnJob(p) /\ ph = phase /\ E = {}
    OBVIOUS
  <1>2. PICK s : s = Push(s1, j, <<e>>)
    OBVIOUS
  <1>3. /\ Outcome(S, s0, j, ph, E) /\ Inv(s0, ph, E) /\ s0.mem = mem /\ Known(s0, p) /\ mem[p].st = "RUNNING" /\ Block(mem[p])
        /\ s0.jobs[j] = <<>> /\ s0.jobs[ModelJob(p)] = <<>> /\ ~InLoop(s0, p) /\ ph # "down"
        /\ j \in Jobs /\ j[1] = "turn" /\ j[2] = p /\ Loose(s0.jobs[j])
    BY <1>1 DEF AtTurn
  <1>4. mem[p] # NoTask /\ p \in Tasks
    BY DEF Decides
  <1>5. /\ t \in Tasks /\ Known(S, t) /\ Pending(mem[t])
        /\ k \in Tasks /\ k # p /\ Known(S, k)
        /\ \A i \in Jobs : ~HopAt(S, i, t)
        /\ ~(Holds(S, t, TurnJob(t), {"settle"}) /\ Waits(mem[t]))
        /\ \A x \in Tasks : mem[x] # NoTask => \A i \in Marks(mem[x]) :
             mem[x].works[i].ref = <<t, mem[t].ask.n>> => (x = p /\ i = k) \/ EarlierHop(S, x, i, t)
    BY Decided
  <1>6. Milder(mem[p], b, {}) /\ b.st = mem[p].st /\ b.why = mem[p].why /\ b.ask = mem[p].ask
    BY <1>1, <1>3, BlockerMild
  <1>7. Outcome(s0, s1, j, ph, E) /\ Replaced(s0, p, b, s1)
    <2>1. PICK X : X = {}
      OBVIOUS
    <2>2. /\ Milder(s0.mem[p], b, X) /\ b.st = s0.mem[p].st /\ b.why = s0.mem[p].why /\ b.ask = s0.mem[p].ask
          /\ \A x \in Tasks : Born(s0, x) => x \notin X
      BY <1>3, <1>6, <2>1
    <2>3. Outcome(s0, Put(s0, p, b), j, ph, E) /\ Replaced(s0, p, b, Put(s0, p, b))
      BY <1>3, <2>2, Notes
    <2> QED BY <1>1, <2>3
  <1>8. Inv(s1, ph, E) /\ Known(s1, p) /\ Known(s1, t) /\ Known(s1, k)
    BY <1>3, <1>4, <1>5, <1>7 DEF Outcome
  <1>9. s1.jobs = s0.jobs /\ s1.mem[p] = b /\ \A x \in Tasks : x # p => s1.mem[x] = mem[x]
    BY <1>3, <1>7 DEF Replaced
  <1>10. s1.jobs[j] = <<>> /\ s1.jobs[ModelJob(p)] = <<>> /\ ~InLoop(s1, p)
    BY <1>3, <1>9 DEF InLoop, Holds, Held
  <1>11. e.op = "continue" /\ e.t = p
    BY <1>1 DEF Then, Frame
  <1>12. IsStack(<<e>>) /\ DOMAIN <<e>> = {1} /\ <<e>>[1] = e /\ Len(<<e>>) = 1
    BY OneFrame
  <1>13. PICK q : q = <<e>>
    OBVIOUS
  <1>14. IsStack(q) /\ DOMAIN q = {1} /\ q[1] = e /\ Len(q) = 1
    BY <1>12, <1>13
  <1>15. ToSet(q) = {e}
    BY <1>14 DEF ToSet
  <1>16. StackOK(q, j, ph)
    <2>1. FrameFits(q, 1, j, ph)
      <3>1. \A x \in 1 .. 1 - 1 : FALSE
        OBVIOUS
      <3> QED BY <1>3, <1>11, <1>14, <3>1 DEF FrameFits, OpsOf, Casc, Sends, BootOps, Heads
    <2> QED BY <1>14, <2>1 DEF StackOK
  <1>17. TurnMay(s1, p, q)
    <2>1. FrameKnown(s1, e)
      BY <1>8, <1>11 DEF FrameKnown
    <2>2. s1.mem[p].st = "RUNNING"
      BY <1>3, <1>6, <1>9
    <2>3. \A f \in ToSet(q) : f.op \notin Sends /\ FrameKnown(s1, f)
      BY <1>11, <1>15, <2>1 DEF Sends
    <2>4. ~ \E f \in ToSet(q) : f.op = "settle"
      BY <1>11, <1>15
    <2>5. ~(q # <<>> /\ q[1].op \in {"publish", "advance"})
      BY <1>11, <1>14
    <2>6. s1.jobs[TurnJob(p)] = <<>>
      BY <1>1, <1>10
    <2> QED BY <1>4, <1>10, <2>2, <2>3, <2>4, <2>5, <2>6 DEF TurnMay
  <1>18. Inv(s, ph, E) /\ s.mem = s1.mem /\ \A x \in Tasks : Known(s, x) <=> Known(s1, x)
    <2>1. s = Push(s1, j, q) /\ j = TurnJob(p) /\ Inv(s1, ph, E)
      BY <1>1, <1>2, <1>8, <1>13
    <2> QED BY <1>16, <1>17, <2>1, TurnBegins
  <1>19. Begun(s1, s, j, q)
    BY <1>2, <1>3, <1>8, <1>10, <1>13, <1>14, BeginShape
  <1>20. s.jobs[j] = <<e>> /\ Held(s, j) = {e} /\ \A i \in Jobs : i # j => s.jobs[i] = s1.jobs[i]
    BY <1>13, <1>15, <1>19 DEF Begun
  <1>21. Loose(s.jobs[j]) /\ Light(s, j)
    <2>1. Loose(s.jobs[j])
      BY <1>11, <1>12, <1>20 DEF Loose, Heads
    <2> QED BY <1>11, <1>20, <2>1 DEF Light, Sends
  <1>22. Outcome(S, s, j, ph, E)
    <2>1. Outcome(S, s1, j, ph, E)
      BY <1>3, <1>7, OutcomeThen
    <2>2. Falls(s1, s)
      BY <1>18, FallsSame
    <2>3. Outcome(s1, s, j, ph, E)
      BY <1>18, <1>21, <2>2 DEF Outcome
    <2> QED BY <2>1, <2>3, OutcomeThen
  <1>23. Known(s, p) /\ Known(s, t) /\ Known(s, k)
    BY <1>4, <1>5, <1>8, <1>18
  <1>24. s.jobs[ModelJob(p)] = <<>> /\ ~InLoop(s, p)
    <2>1. ModelJob(p)[1] = "model" /\ <<"loop">>[1] = "loop" /\ ModelJob(p) \in Jobs /\ <<"loop">> \in Jobs
      BY <1>4, JobFacts
    <2>2. ModelJob(p) # j /\ <<"loop">> # j
      BY <1>3, <2>1
    <2>3. s.jobs[ModelJob(p)] = <<>> /\ s.jobs[<<"loop">>] = s1.jobs[<<"loop">>]
      BY <1>10, <1>20, <2>1, <2>2
    <2>4. Held(s, <<"loop">>) = Held(s1, <<"loop">>)
      BY <2>3 DEF Held
    <2>5. ~InLoop(s, p)
      BY <1>10, <2>4 DEF InLoop, Holds
    <2> QED BY <2>3, <2>5
  <1>25. s.mem[p] = b /\ s.mem[p].st = "RUNNING" /\ \A x \in Tasks : x # p => s.mem[x] = mem[x]
    BY <1>3, <1>6, <1>9, <1>18
  <1>26. Catching(s, j)
    BY <1>3, <1>23, <1>24, <1>25 DEF Catching
  <1>27. \A i \in Jobs : ~HopAt(s, i, t)
    <2>1. SUFFICES ASSUME NEW i \in Jobs, HopAt(s, i, t) PROVE FALSE
      OBVIOUS
    <2>2. i # j
      BY <1>11, <1>12, <1>20, <2>1 DEF HopAt
    <2>3. s.jobs[i] = s0.jobs[i]
      BY <1>9, <1>20, <2>2
    <2>4. HopAt(s0, i, t)
      BY <2>1, <2>3 DEF HopAt
    <2> QED BY <1>5, <2>4 DEF Calmer
  <1>28. s.mem[t].ask = mem[t].ask /\ (Waits(s.mem[t]) <=> Waits(mem[t]))
    BY <1>5, <1>6, <1>25 DEF Waits
  <1>29. ~(Holds(s, t, TurnJob(t), {"settle"}) /\ Waits(s.mem[t]))
    <2>1. Held(s, TurnJob(t)) \subseteq Held(s0, TurnJob(t)) \cup {e}
      <3>1. TurnJob(t) \in Jobs
        BY <1>5, JobFacts
      <3>2. CASE TurnJob(t) = j
        BY <1>20, <3>2
      <3>3. CASE TurnJob(t) # j
        <4>1. s.jobs[TurnJob(t)] = s0.jobs[TurnJob(t)]
          BY <1>9, <1>20, <3>1, <3>3
        <4> QED BY <4>1 DEF Held
      <3> QED BY <3>2, <3>3
    <2>2. Held(s0, TurnJob(t)) \subseteq Held(S, TurnJob(t))
      BY DEF Calmer
    <2>3. Holds(s, t, TurnJob(t), {"settle"}) => Holds(S, t, TurnJob(t), {"settle"})
      BY <1>11, <2>1, <2>2 DEF Holds
    <2> QED BY <1>5, <1>28, <2>3
  <1>30. ToldEarlier(s, t)
    <2>1. SUFFICES ASSUME NEW x \in Tasks, s.mem[x] # NoTask, NEW i \in Marks(s.mem[x]),
                          s.mem[x].works[i].ref = <<t, s.mem[t].ask.n>>
                   PROVE  EarlierHop(s, x, i, t)
      BY DEF ToldEarlier
    <2>2. ~(x = p /\ i = k)
      <3>1. SUFFICES ASSUME x = p, i = k PROVE FALSE
        OBVIOUS
      <3>2. k \in DOMAIN b.works /\ Blocking(b.works[k])
        BY <1>25, <2>1, <3>1 DEF Marks
      <3>3. k \in DOMAIN mem[p].works /\ b.works[k].st = "running"
        <4>1. DOMAIN mem[p] = BlockFields /\ DOMAIN b.works = DOMAIN mem[p].works
          BY <1>3, <1>6 DEF Block, Milder
        <4>2. DOMAIN mem[p].works[k] = WorkFields
          BY <1>3, <3>2, <4>1 DEF Block
        <4> QED BY <1>1, <3>2, <4>1, <4>2 DEF clearSubagentCapabilityBlocker, BlockFields, WorkFields
      <3> QED BY <3>2, <3>3 DEF Blocking
    <2>3. mem[x] # NoTask /\ i \in Marks(mem[x]) /\ mem[x].works[i].ref = <<t, mem[t].ask.n>>
      <3>1. CASE x = p
        BY <1>4, <1>6, <1>25, <1>28, <2>1, <3>1 DEF Milder
      <3>2. CASE x # p
        BY <1>25, <1>28, <2>1, <3>2
      <3> QED BY <3>1, <3>2
    <2>4. EarlierHop(S, x, i, t)
      BY <1>5, <2>2, <2>3
    <2> QED BY <1>28, <2>4, SFacts DEF EarlierHop
  <1>31. HopReady(s, j, t, e)
    <2>1. Pending(s.mem[t])
      BY <1>5, <1>28 DEF Pending
    <2>2. e.t = j[2] /\ j = TurnJob(j[2]) /\ j[2] = p
      BY <1>1, <1>3, <1>11
    <2>3. Inv(s, phase, {}) /\ phase # "down"
      BY <1>1, <1>3, <1>18
    <2>4. Known(s, j[2]) /\ s.jobs[ModelJob(j[2])] = <<>> /\ ~InLoop(s, j[2]) /\ s.mem[j[2]].st \in {"RUNNING", "TERMINATED"}
      BY <1>23, <1>24, <1>25, <2>2
    <2> QED BY <1>3, <1>11, <1>20, <1>23, <1>27, <1>29, <1>30, <2>1, <2>2, <2>3, <2>4 DEF HopReady
  <1>32. s.mem[k] = mem[k]
    BY <1>5, <1>25
  <1>33. Deciding(s, p, k, t)
    BY <1>1, <1>18, <1>21, <1>22, <1>23, <1>26, <1>31, <1>32 DEF Deciding
  <1> QED BY <1>1, <1>2, <1>33

\* A task is granted what is asked, and the turn goes on to the next hop.
LEMMA DecideGrants ==
  ASSUME IInv, NEW p, NEW k, NEW t, NEW s, Deciding(s, p, k, t), NEW g
  PROVE  Good(Push(Persist(Put(s, k, addCapabilityGrants(mem[k], g)), k), TurnJob(p), <<Then("advance", t)>>))
  <1>1. PICK b, j, e, f, ph, E, X : /\ b = addCapabilityGrants(mem[k], g) /\ j = TurnJob(p) /\ e = Then("continue", p)
                                    /\ f = Then("advance", t) /\ ph = phase /\ E = {} /\ X = {}
    OBVIOUS
  <1>2. PICK s1 : s1 = Put(s, k, b)
    OBVIOUS
  <1>3. PICK s2 : s2 = Persist(s1, k)
    OBVIOUS
  <1>4. PICK r : r = Push(s2, j, <<f>>)
    OBVIOUS
  <1>5. /\ Inv(s, ph, E) /\ Outcome(S, s, j, ph, E) /\ HopReady(s, j, t, e) /\ Known(s, k) /\ s.mem[k] = mem[k]
        /\ Loose(s.jobs[j])
    BY <1>1 DEF Deciding
  <1>6. k \in Tasks /\ Block(mem[k])
    BY <1>5 DEF Known, Inv, Typed
  <1>7. Milder(s.mem[k], b, X) /\ b.st = s.mem[k].st /\ b.why = s.mem[k].why /\ b.ask = s.mem[k].ask
    BY <1>1, <1>5, <1>6, GrantsMild
  <1>8. Outcome(s, s1, j, ph, E) /\ Replaced(s, k, b, s1)
    <2>1. \A x \in Tasks : Born(s, x) => x \notin X
      BY <1>1
    <2>2. Outcome(s, Put(s, k, b), j, ph, E) /\ Replaced(s, k, b, Put(s, k, b))
      BY <1>5, <1>7, <2>1, Notes
    <2> QED BY <1>2, <2>2
  <1>9. /\ t \in Tasks /\ Known(s, t) /\ j \in Jobs /\ ph # "down" /\ Known(s, j[2]) /\ j[2] \in Tasks
        /\ s.jobs[j] = <<e>> /\ s.jobs[ModelJob(j[2])] = <<>> /\ ~InLoop(s, j[2]) /\ s.mem[j[2]].st \in {"RUNNING", "TERMINATED"}
        /\ Pending(s.mem[t]) /\ ToldEarlier(s, t)
        /\ ~(Holds(s, t, TurnJob(t), {"settle"}) /\ Waits(s.mem[t]))
        /\ j[1] = "turn" /\ j = TurnJob(j[2]) /\ e.op = "continue" /\ e.t = j[2]
    BY <1>1, <1>5 DEF HopReady, Known
  <1>10. \A i \in Jobs : ~HopAt(s, i, t)
    BY <1>5 DEF HopReady
  <1>11. Inv(s1, ph, E) /\ Known(s1, k) /\ Known(s1, t) /\ Known(s1, j[2]) /\ Loose(s1.jobs[j])
    BY <1>5, <1>6, <1>8, <1>9 DEF Outcome
  <1>12. Outcome(s1, s2, j, ph, E) /\ s2.mem = s1.mem /\ s2.jobs = s1.jobs
    BY <1>3, <1>9, <1>11, Persists
  <1>13. Inv(s2, ph, E) /\ Known(s2, t) /\ Known(s2, j[2])
    BY <1>9, <1>11, <1>12 DEF Outcome
  <1>14. s2.jobs = s.jobs /\ s2.mem[k] = b /\ \A x \in Tasks : x # k => s2.mem[x] = s.mem[x]
    BY <1>8, <1>12 DEF Replaced
  <1>15. \A x \in Tasks : /\ s2.mem[x].st = s.mem[x].st /\ s2.mem[x].why = s.mem[x].why /\ s2.mem[x].ask = s.mem[x].ask
                          /\ \A i \in Marks(s2.mem[x]) : i \in Marks(s.mem[x]) /\ s2.mem[x].works[i].ref = s.mem[x].works[i].ref
    BY <1>7, <1>14 DEF Milder
  <1>16. \A i \in Jobs : ~HopAt(s2, i, t)
    BY <1>10, <1>14 DEF HopAt
  <1>17. ~(Holds(s2, t, TurnJob(t), {"settle"}) /\ Waits(s2.mem[t]))
    BY <1>9, <1>14, <1>15 DEF Holds, Held, Waits
  <1>18. ToldEarlier(s2, t)
    <2>1. SUFFICES ASSUME NEW x \in Tasks, s2.mem[x] # NoTask, NEW i \in Marks(s2.mem[x]),
                          s2.mem[x].works[i].ref = <<t, s2.mem[t].ask.n>>
                   PROVE  EarlierHop(s2, x, i, t)
      BY DEF ToldEarlier
    <2>2. s.mem[x] # NoTask
      BY <1>5, <1>6, <1>14, <2>1, BlockFacts
    <2>3. i \in Marks(s.mem[x]) /\ s.mem[x].works[i].ref = <<t, s.mem[t].ask.n>>
      BY <1>9, <1>15, <2>1
    <2>4. EarlierHop(s, x, i, t)
      BY <1>9, <2>2, <2>3 DEF ToldEarlier
    <2> QED BY <1>9, <1>15, <2>4 DEF EarlierHop
  <1>19. Pending(s2.mem[t])
    BY <1>9, <1>15 DEF Pending
  <1>20. HopReady(s2, j, t, e)
    <2>1. s2.jobs[j] = <<e>> /\ s2.jobs[ModelJob(j[2])] = <<>> /\ ~InLoop(s2, j[2])
      BY <1>9, <1>14 DEF InLoop, Holds, Held
    <2>2. s2.mem[j[2]].st \in {"RUNNING", "TERMINATED"}
      BY <1>9, <1>15
    <2>3. Inv(s2, phase, {}) /\ phase # "down"
      BY <1>1, <1>9, <1>13
    <2> QED BY <1>9, <1>13, <1>16, <1>17, <1>18, <1>19, <2>1, <2>2, <2>3 DEF HopReady
  <1>21. f.op \in {"publish", "advance"} /\ f.t = t /\ f.op # "publish"
    BY <1>1 DEF Then, Frame
  <1>22. Inv(Push(s2, j, <<f>>), phase, {}) /\ Push(s2, j, <<f>>).mem = s2.mem
    BY <1>20, <1>21, HopBegins
  <1>23. Falls(S, s2)
    <2>1. Outcome(S, s1, j, ph, E)
      BY <1>5, <1>8, OutcomeThen
    <2>2. Outcome(S, s2, j, ph, E)
      BY <1>12, <2>1, OutcomeThen
    <2> QED BY <2>2 DEF Outcome
  <1>24. Inv(r, phase, {}) /\ Falls(S, r)
    BY <1>4, <1>22, <1>23 DEF Falls
  <1>25. Legal(S, r)
    BY <1>24, FallsLegal DEF IInv
  <1>26. Good(r)
    BY <1>24, <1>25 DEF Good
  <1> QED BY <1>1, <1>2, <1>3, <1>4, <1>26

\* The request is denied.
LEMMA DecideDenies ==
  ASSUME IInv, NEW p, NEW k, NEW t, NEW s, Deciding(s, p, k, t), NEW fit \in Fits
  PROVE  Good(finishCapabilityRequest(s, TurnJob(p), t, "denied", <<>>, fit))
  <1>1. PICK j, e, ph, E, status, grants : /\ j = TurnJob(p) /\ e = Then("continue", p) /\ ph = phase /\ E = {}
                                           /\ status = "denied" /\ grants = <<>>
    OBVIOUS
  <1>2. PICK r : r = finishCapabilityRequest(s, j, t, status, grants, fit)
    OBVIOUS
  <1>3. /\ Inv(s, ph, E) /\ Outcome(S, s, j, ph, E) /\ HopReady(s, j, t, e) /\ Loose(s.jobs[j]) /\ Light(s, j) /\ Catching(s, j)
    BY <1>1 DEF Deciding
  <1>4. /\ t \in Tasks /\ Known(s, t) /\ j \in Jobs /\ j[1] = "turn" /\ ph # "down"
        /\ ~(Holds(s, t, TurnJob(t), {"settle"}) /\ Waits(s.mem[t]))
    BY <1>1, <1>3 DEF HopReady, Known
  <1>5. \A i \in Jobs : ~HopAt(s, i, t)
    BY <1>3 DEF HopReady
  <1>6. Waits(s.mem[t]) => Free(s, t)
    BY <1>3, <1>4, <1>5, WaitsFree
  <1>7. MayFinish(s, j, t)
    BY <1>3, <1>4, <1>5, <1>6 DEF MayFinish
  <1>8. Inv(r, ph, E) /\ Falls(s, r)
    BY <1>2, <1>3, <1>4, <1>7, Finishes
  <1>9. Falls(S, r)
    BY <1>3, <1>8, FallsThen DEF Outcome
  <1>10. Inv(r, phase, {})
    BY <1>1, <1>8
  <1>11. Legal(S, r)
    BY <1>9, <1>10, FallsLegal DEF IInv
  <1>12. Good(r)
    BY <1>10, <1>11 DEF Good
  <1> QED BY <1>1, <1>2, <1>12

\* The answer of a task is no function on a request.
LEMMA TurnCalm ==
  ASSUME IInv, NEW p \in Tasks, jobs[ModelJob(p)] # <<>>, NEW s, s = Turn(p), AtTurn(s, p), NEW t \in Tasks
  PROVE  Calmer(s, t)
  <1>1. PICK j : j = ModelJob(p)
    OBVIOUS
  <1>2. j \in Jobs /\ j[1] = "model" /\ TurnJob(t) \in Jobs /\ TurnJob(t)[1] = "turn"
    BY <1>1, JobFacts
  <1>3. Typed(S) /\ Stacks(S, phase) /\ S.jobs[j] # <<>> /\ s = Pop(S, j)
    BY <1>1, SFacts DEF IInv, Inv, Turn
  <1>4. Popped(S, s, j)
    BY <1>2, <1>3, PopShape
  <1>5. s.jobs[j] = <<>> /\ \A i \in Jobs : i # j => s.jobs[i] = S.jobs[i]
    BY <1>1, <1>4 DEF Popped, AtTurn
  <1>6. TurnJob(t) # j
    BY <1>2
  <1>7. Held(s, TurnJob(t)) \subseteq Held(S, TurnJob(t))
    BY <1>2, <1>5, <1>6 DEF Held
  <1>8. \A i \in Jobs : HopAt(s, i, t) => HopAt(S, i, t)
    BY <1>5 DEF HopAt
  <1> QED BY <1>7, <1>8 DEF Calmer

\* AnswerDecide.
LEMMA AnswerDecideStep ==
  ASSUME IInv, NEW p \in Tasks, NEW a, NEW fit \in Fits, AnswerDecide(p, a, fit)
  PROVE  Onward
  <1>1. PICK s : s = Turn(p)
    OBVIOUS
  <1>2. Answered(p, a) /\ phase' = phase
    BY ZenonT(30) DEF AnswerDecide, Stay
  <1>3. AtTurn(s, p)
    BY <1>1, <1>2, AnswerTurn
  <1>4. jobs[ModelJob(p)] # <<>>
    BY <1>2 DEF Answered, At
  <1>5. mem[p] # NoTask /\ Block(mem[p]) /\ phase # "down"
    BY <1>3, BlockFacts DEF AtTurn
  <1>6. PICK k \in Open(mem[p]) :
          /\ Blocking(mem[p].works[k])
          /\ LET ref  == mem[p].works[k].ref
                 t    == ref[1]
                 j    == TurnJob(p)
                 open == /\ mem[t] # NoTask /\ Ref(t) = ref /\ HasHop(mem[t])
                         /\ currentCapabilityDelegationHop(mem[t]) = [grantor |-> p, grantee |-> k]
                 rest == Push(Put(s, p, clearSubagentCapabilityBlocker(mem[p], k)), j,
                              <<Then("continue", p)>>)
             IN  Do(IF ~open THEN Throw(s, j, fit)
                    ELSE IF a.ok /\ validateDelegation(mem[p].grants, mem[t].ask.reqs)
                    THEN Push(Persist(Put(rest, k, addCapabilityGrants(mem[k],
                                                 delegate(p, mem[t].ask.reqs))), k),
                              j, <<Then("advance", t)>>)
                    ELSE finishCapabilityRequest(rest, j, t, "denied", <<>>, fit))
    BY <1>1, ZenonT(30) DEF AnswerDecide
  <1>7. PICK t, g, z : /\ t = mem[p].works[k].ref[1] /\ g = delegate(p, mem[t].ask.reqs)
                       /\ z = Push(Put(s, p, clearSubagentCapabilityBlocker(mem[p], k)), TurnJob(p), <<Then("continue", p)>>)
    OBVIOUS
  <1>8. PICK r1, r2, r3 : /\ r1 = Throw(s, TurnJob(p), fit)
                          /\ r2 = Push(Persist(Put(z, k, addCapabilityGrants(mem[k], g)), k), TurnJob(p), <<Then("advance", t)>>)
                          /\ r3 = finishCapabilityRequest(z, TurnJob(p), t, "denied", <<>>, fit)
    OBVIOUS
  <1>9. DEFINE open == /\ mem[t] # NoTask /\ Ref(t) = mem[p].works[k].ref /\ HasHop(mem[t])
                       /\ currentCapabilityDelegationHop(mem[t]) = [grantor |-> p, grantee |-> k]
  <1>10. Do(r1) \/ (open /\ (Do(r2) \/ Do(r3)))
    BY <1>6, <1>7, <1>8, ZenonT(30)
  <1>11. k \in Marks(mem[p])
    BY <1>6 DEF Marks, Open
  <1>12. ASSUME open PROVE Deciding(z, p, k, t)
    <2>1. Decides(p, k, t)
      BY <1>5, <1>11, <1>12 DEF Decides, Ref
    <2>2. t \in Tasks
      BY <2>1, Decided
    <2>3. Calmer(s, t)
      BY <1>1, <1>3, <1>4, <2>2, TurnCalm
    <2>4. Deciding(Push(Put(s, p, clearSubagentCapabilityBlocker(mem[p], k)), TurnJob(p), <<Then("continue", p)>>), p, k, t)
      BY <1>3, <2>1, <2>3, DecidingTurn
    <2> QED BY <1>7, <2>4
  <1>13. Good(r1)
    BY <1>3, <1>8, TurnThrows
  <1>14. open => Good(r2)
    BY <1>8, <1>12, DecideGrants
  <1>15. open => Good(r3)
    BY <1>8, <1>12, DecideDenies
  <1> QED BY <1>2, <1>5, <1>10, <1>13, <1>14, <1>15, Closes

\* The tasks that a request of t is put to: itself, or one or two ancestors.
ChainOf(t) == IF Parent[t] = Orphan THEN <<t>> ELSE capabilityAncestors(t)

LEMMA ChainFacts ==
  ASSUME NEW t \in Tasks, NEW c, c = ChainOf(t)
  PROVE  \/ c = <<>>
         \/ Len(c) = 1 /\ DOMAIN c = {1} /\ c[1] \in Tasks
         \/ /\ Len(c) = 2 /\ DOMAIN c = {1, 2} /\ Parent[t] # Orphan /\ c[1] = Parent[t] /\ c[2] \in Tasks /\ c[1] \in Tasks
            /\ c[1] # c[2]
  <1>1. CASE Parent[t] = Orphan
    BY <1>1, OneFrame DEF ChainOf
  <1>2. CASE Parent[t] # Orphan
    <2>1. PICK p : p = Parent[t]
      OBVIOUS
    <2>2. p \in Tasks /\ p # Orphan
      BY <1>2, <2>1, TaskAssumption
    <2>3. c = capabilityAncestors(t)
      BY <1>2 DEF ChainOf
    <2>4. PICK up : up = Ancestors(t)
      OBVIOUS
    <2>5. CASE Parent[p] = Orphan
      <3>1. up = <<p>>
        BY <1>2, <2>1, <2>4, <2>5 DEF Ancestors
      <3>2. Len(up) = 1 /\ up[1] = p
        BY <3>1, OneFrame
      <3>3. c = <<>> \/ c = <<p>>
        BY <2>3, <2>4, <3>2 DEF capabilityAncestors
      <3> QED BY <2>2, <3>3, OneFrame
    <2>6. CASE Parent[p] # Orphan
      <3>1. PICK q : q = Parent[p]
        OBVIOUS
      <3>2. q \in Tasks /\ up = <<p, q>> /\ Parent[q] = Orphan
        BY <1>2, <2>1, <2>2, <2>4, <2>6, <3>1, TaskAssumption DEF Ancestors
      <3>3. p # q
        BY <2>6, <3>1, <3>2
      <3>4. Len(up) = 2 /\ up[1] = p /\ up[2] = q /\ DOMAIN up = {1, 2}
        BY <3>2, TwoFrames
      <3>5. c = <<>> \/ c = <<p>> \/ c = up
        BY <2>3, <2>4, <3>4 DEF capabilityAncestors
      <3> QED BY <1>2, <2>1, <2>2, <3>2, <3>3, <3>4, <3>5, OneFrame
    <2> QED BY <2>5, <2>6
  <1> QED BY <1>1, <1>2

\* A request that has a route is passed down from an ancestor to the task, hop by hop.
PathOK(t, path) ==
  /\ Len(path) \in Nat /\ DOMAIN path = 1 .. Len(path)
  /\ \A g, h \in DOMAIN path : path[g] = path[h] => g = h
  /\ \A h \in DOMAIN path : Route(t, path[h])

LEMMA PlanPath ==
  ASSUME NEW t \in Tasks, NEW c, c = ChainOf(t), NEW holds, NEW reqs, planRequest(t, c, holds, reqs) # NoRoute
  PROVE  PathOK(t, planRequest(t, c, holds, reqs).path)
  <1>1. PICK plan : plan = planRequest(t, c, holds, reqs)
    OBVIOUS
  <1> DEFINE holders == {i \in DOMAIN c : validateDelegation(holds[c[i]], reqs)}
             n == CHOOSE i \in holders : \A j \in holders : i <= j
  <1>2. holders \subseteq DOMAIN c
    OBVIOUS
  <1>3. (\E i \in holders : \A j \in holders : i <= j) => n \in holders
    OBVIOUS
  <1> DEFINE path1 == delegationPath(t, c, n)
             none == \/ reqs = {} \/ c = <<>>
                     \/ \E req \in reqs : findGrant(holds[c[Len(c)]], req, FALSE, NoOp, TRUE) = 0
             asks == \E req \in reqs : HumanApproval(req.cap)
  <1>8. planRequest(t, c, holds, reqs) =
          IF none THEN NoRoute ELSE IF asks THEN [route |-> "human", path |-> <<>>]
          ELSE IF holders = {} THEN NoRoute ELSE [route |-> "parent", path |-> path1]
    BY DEF planRequest
  <1>9. none \/ c # <<>>
    OBVIOUS
  <1> HIDE DEF holders, n, none, asks
  <1>4. c # <<>> /\ (plan = [route |-> "human", path |-> <<>>] \/ (holders # {} /\
          plan = [route |-> "parent", path |-> path1]))
    BY <1>1, <1>8, <1>9
  <1>5. CASE plan = [route |-> "human", path |-> <<>>]
    <2>1. plan.path = <<>>
      BY <1>5
    <2>2. PathOK(t, <<>>)
      BY DEF PathOK
    <2> QED BY <1>1, <2>1, <2>2
  <1>6. CASE holders # {} /\ plan.path = path1
    <2>1. PICK path : path = plan.path
      OBVIOUS
    <2>2. \/ Len(c) = 1 /\ DOMAIN c = {1} /\ c[1] \in Tasks
          \/ /\ Len(c) = 2 /\ DOMAIN c = {1, 2} /\ Parent[t] # Orphan /\ c[1] = Parent[t] /\ c[2] \in Tasks /\ c[1] \in Tasks
             /\ c[1] # c[2]
      BY <1>4, ChainFacts
    <2>3. holders \subseteq DOMAIN c
      BY <1>2
    <2>4. \E i \in holders : \A j \in holders : i <= j
      <3>1. CASE holders = {1} \/ holders = {2}
        BY <3>1
      <3>2. CASE holders = {1, 2}
        BY <3>2
      <3> QED BY <1>6, <2>2, <2>3, <3>1, <3>2
    <2>5. n \in holders
      BY <1>3, <2>4
    <2>6. n = 1 \/ (n = 2 /\ DOMAIN c = {1, 2})
      BY <2>2, <2>3, <2>5
    <2>7. path = [h \in 1 .. n |->
            [grantor |-> c[n + 1 - h], grantee |-> IF n + 1 - h = 1 THEN t ELSE c[(n + 1 - h) - 1]]]
      BY <1>6, <2>1 DEF delegationPath
    <2>8. CASE n = 1
      <3>1. DOMAIN path = {1} /\ path[1] = [grantor |-> c[1], grantee |-> t]
        BY <2>7, <2>8
      <3>2. Len(path) = 1 /\ DOMAIN path = 1 .. 1
        BY <2>7, <2>8
      <3>3. c[1] \in Tasks
        BY <2>2
      <3>4. Route(t, path[1])
        BY <3>1, <3>3 DEF Route
      <3> QED BY <1>1, <2>1, <3>1, <3>2, <3>4 DEF PathOK
    <2>9. CASE n = 2 /\ DOMAIN c = {1, 2}
      <3>1. DOMAIN path = {1, 2} /\ path[1] = [grantor |-> c[2], grantee |-> c[1]] /\ path[2] = [grantor |-> c[1], grantee |-> t]
        BY <2>7, <2>9
      <3>2. Len(path) = 2 /\ DOMAIN path = 1 .. 2
        BY <2>7, <2>9
      <3>3. c[1] \in Tasks /\ c[2] \in Tasks /\ c[1] # c[2] /\ c[1] = Parent[t] /\ Parent[t] # Orphan
        BY <2>2, <2>9
      <3>4. path[1].grantor = c[2] /\ path[1].grantee = c[1] /\ path[2].grantor = c[1] /\ path[2].grantee = t
        BY <3>1
      <3>5. path[1] # path[2]
        BY <3>3, <3>4
      <3>6. Route(t, path[1]) /\ Route(t, path[2])
        BY <3>1, <3>3, <3>4 DEF Route
      <3> QED BY <1>1, <2>1, <3>1, <3>2, <3>5, <3>6 DEF PathOK
    <2> QED BY <2>6, <2>8, <2>9
  <1>10. [route |-> "parent", path |-> path1].path = path1
    OBVIOUS
  <1>7. \/ plan = [route |-> "human", path |-> <<>>]
        \/ holders # {} /\ plan.path = path1
    BY <1>4, <1>10
  <1> QED BY <1>5, <1>6, <1>7

\* The block of the running task t with a request that it did not make before.
AskedAnew(s, t, b) ==
  /\ Known(s, t) /\ s.mem[t].st = "RUNNING" /\ Block(b) /\ Waits(b)
  /\ b.works = s.mem[t].works /\ b.ask.n = s.mem[t].ask.n + 1 /\ Owned(t, b)
  /\ Free(s, t) /\ \A i \in Jobs : ~HopAt(s, i, t)

LEMMA AsksAnew ==
  ASSUME NEW s, NEW ph, NEW L, Inv(s, ph, L), ph # "down", NEW t, NEW b, AskedAnew(s, t, b),
         NEW r, r = Persist(Put(s, t, b), t)
  PROVE  /\ Inv(r, ph, L) /\ Unmarked(r, t) /\ r.mem[t] = b /\ r.disk[t] = b /\ r.jobs = s.jobs
         /\ \A x \in Tasks : x # t => r.mem[x] = s.mem[x]
         /\ \A x \in Tasks : Known(r, x) <=> Known(s, x)
  <1>0. /\ Known(s, t) /\ t \in Tasks /\ Block(b) /\ s.mem[t] # NoTask /\ Block(s.mem[t])
        /\ DOMAIN s = Fields /\ DOMAIN s.mem = Tasks /\ DOMAIN s.disk = Tasks
    BY DEF AskedAnew, Known, Inv, Typed, Fields
  <1>a. PICK m : m = [s.mem EXCEPT ![t] = b]
    OBVIOUS
  <1>m. DOMAIN m = Tasks /\ m[t] = b /\ \A x \in Tasks : x # t => m[x] = s.mem[x]
    BY <1>0, <1>a
  <1>c. PICK d : d = [s.disk EXCEPT ![t] = b]
    OBVIOUS
  <1>d. DOMAIN d = Tasks /\ d[t] = b /\ \A x \in Tasks : x # t => d[x] = s.disk[x]
    BY <1>0, <1>c
  <1>e. PICK s1 : s1 = Put(s, t, b)
    OBVIOUS
  <1>f. Is(s1, m, s.disk, s.queue, s.packing, s.timers, s.wake, s.pool, s.jobs)
    BY <1>0, <1>a, <1>e, Shapes
  <1>g. s1.mem[t] = b /\ s1.disk = s.disk /\ DOMAIN s1 = Fields
    BY <1>f, <1>m DEF Is
  <1>h. Is(Persist(s1, t), s1.mem, [s1.disk EXCEPT ![t] = s1.mem[t]], s1.queue, s1.packing, s1.timers,
           s1.wake, s1.pool, s1.jobs)
    BY <1>g, Shapes
  <1>1. /\ r.mem = m /\ r.disk = d /\ r.queue = s.queue /\ r.packing = s.packing
        /\ r.timers = s.timers /\ r.wake = s.wake /\ r.pool = s.pool /\ r.jobs = s.jobs
        /\ DOMAIN r = Fields
    BY <1>c, <1>e, <1>f, <1>g, <1>h DEF Is
  <1>b. /\ s.mem[t].st = "RUNNING" /\ b.st = "BLOCKED" /\ Live(b) /\ Live(s.mem[t]) /\ b # NoTask
        /\ b.works = s.mem[t].works /\ b.ask.n = s.mem[t].ask.n + 1
        /\ Open(b) = Open(s.mem[t])
    BY <1>0, BlockFacts DEF AskedAnew, Live, Waits, Open
  <1>2. \A h, k, ops : Holds(r, k, h, ops) <=> Holds(s, k, h, ops)
    BY <1>1 DEF Holds, Held
  <1>3. \A k : Born(r, k) <=> Born(s, k)
    BY <1>2 DEF Born
  <1>5. \A k \in Tasks : /\ m[k] = NoTask <=> s.mem[k] = NoTask
                         /\ Live(m[k]) <=> Live(s.mem[k])
                         /\ m[k].works = s.mem[k].works
    BY <1>0, <1>b, <1>m
  <1>6. \A k : Known(r, k) <=> Known(s, k)
    BY <1>1, <1>3, <1>5 DEF Known
  <1>s. /\ s.disk[t] # NoTask /\ Block(s.disk[t]) /\ s.disk[t].ask.n = s.mem[t].ask.n
        /\ s.mem[t].ask.n \in Nat
    BY <1>0, BlockFacts DEF Inv, Saved, Typed
  <1>t. \A k \in Tasks : d[k] = NoTask <=> s.disk[k] = NoTask
    BY <1>b, <1>d, <1>s
  <1>7. Typed(r)
    <2>1. /\ DOMAIN s.jobs = Jobs /\ DOMAIN s.pool = {"live", "spawned"}
          /\ \A x \in Tasks : /\ s.mem[x] = NoTask \/ Block(s.mem[x])
                              /\ s.disk[x] = NoTask \/ Block(s.disk[x])
                              /\ Owned(x, s.mem[x]) /\ Owned(x, s.disk[x])
      BY DEF Inv, Typed
    <2>3. Owned(t, b)
      BY DEF AskedAnew
    <2> QED BY <1>0, <1>1, <1>m, <1>d, <2>1, <2>3 DEF Typed, Fields
  <1>8. Stacks(r, ph)
    BY <1>1 DEF Inv, Stacks
  <1>9. FramesKnown(r)
    <2>1. SUFFICES ASSUME NEW h \in Jobs, NEW f \in Held(s, h) PROVE FrameKnown(r, f)
      BY <1>1 DEF FramesKnown, Held
    <2>2. FrameKnown(s, f)
      BY DEF Inv, FramesKnown
    <2>3. \A x \in Tasks : s.mem[x].st \in {"TERMINATED", "none"} => r.mem[x].st = s.mem[x].st
      BY <1>1, <1>b, <1>m
    <2> QED BY <1>6, <2>2, <2>3, FrameStays
  <1>10. ListsKnown(r)
    BY <1>1, <1>6 DEF Inv, ListsKnown
  <1>11. Family(r, ph)
    <2>1. SUFFICES ASSUME NEW k \in Tasks
                   PROVE  /\ r.mem[k] # NoTask /\ Parent[k] # Orphan => Known(r, Parent[k])
                          /\ r.disk[k] # NoTask /\ Parent[k] # Orphan => r.disk[Parent[k]] # NoTask
                          /\ ph # "down" /\ r.disk[k] # NoTask /\ r.mem[k] = NoTask =>
                               Parent[k] # Orphan /\ ~Live(r.mem[Parent[k]])
      BY DEF Family
    <2>2. Parent[k] # Orphan => Parent[k] \in Tasks
      BY TaskAssumption
    <2> QED BY <1>1, <1>5, <1>6, <1>t, <2>2 DEF Inv, Family
  <1>12. Newborns(r)
    <2>1. SUFFICES ASSUME NEW h \in Jobs, NEW f \in Held(s, h), f.op \in Sends
                   PROVE  NewbornFits(r, f) /\ \A j \in Jobs : Holds(r, f.t, j, Sends) => j = h
      BY <1>1 DEF Newborns, Held
    <2>2. NewbornFits(s, f) /\ \A j \in Jobs : Holds(s, f.t, j, Sends) => j = h
      BY <2>1 DEF Inv, Newborns
    <2>3. Born(s, f.t) /\ f.t \in Tasks /\ Parent[f.t] \in Tasks
      BY <2>1, <2>2, TaskAssumption DEF Born, Holds, NewbornFits
    <2>4. m[f.t] = s.mem[f.t] /\ d[f.t] = s.disk[f.t]
      BY <1>0, <1>m, <1>d, <2>3 DEF Known
    <2>5. Completable(s.mem[Parent[f.t]], f.t) => Completable(m[Parent[f.t]], f.t)
      BY <1>m, <1>b, <2>3 DEF Completable
    <2>6. NewbornFits(r, f)
      BY <1>1, <1>5, <2>2, <2>3, <2>4, <2>5 DEF NewbornFits
    <2> QED BY <1>2, <2>2, <2>6
  <1>13. Saved(r, ph)
    <2>1. SUFFICES ASSUME ph # "down", NEW k \in Tasks, Known(s, k)
                   PROVE  /\ d[k] # NoTask
                          /\ d[k].ask.n = m[k].ask.n /\ d[k].ask.path = m[k].ask.path
                          /\ d[k].ask.hop <= m[k].ask.hop
      BY <1>1, <1>6 DEF Saved
    <2>2. /\ s.disk[k] # NoTask
          /\ s.disk[k].ask.n = s.mem[k].ask.n /\ s.disk[k].ask.path = s.mem[k].ask.path
          /\ s.disk[k].ask.hop <= s.mem[k].ask.hop
      BY <2>1 DEF Inv, Saved
    <2>3. b.ask.hop \in Nat
      BY <1>0, BlockFacts
    <2> QED BY <1>b, <1>m, <1>d, <2>2, <2>3
  <1>14. Books(r)
    <2>1. \A k \in s.queue \cup s.packing : k \in Tasks /\ k # t /\ s.mem[k].st = "READY"
      BY <1>b DEF Inv, Books, ListsKnown, Known
    <2> QED BY <1>1, <1>5, <1>m, <2>1 DEF Inv, Books
  <1>15. Listed(r, L)
    <2>1. SUFFICES ASSUME NEW k \in Tasks, m[k].st = "READY", Late(k) \notin L PROVE ListedTask(r, k)
      BY <1>1 DEF Listed
    <2>3. ListedTask(s, k)
      BY <1>b, <1>m, <2>1 DEF Inv, Listed
    <2> QED BY <1>1, <1>2, <1>3, <2>3 DEF ListedTask
  <1>16. Handles(r)
    <2>1. SUFFICES ASSUME NEW k \in Tasks PROVE HandlesFor(r, k, m[k])
      BY <1>1 DEF Handles, HandlesOf
    <2>2. HandlesFor(s, k, s.mem[k])
      BY DEF Inv, Handles, HandlesOf
    <2>3. HandlesFor(s, k, m[k])
      <3>1. CASE k = t
        <4>1. /\ s.jobs[ModelJob(t)] = <<>> /\ ~Looped(s, t)
              /\ ~Holds(s, t, TurnJob(t), {"settle", "continue"}) /\ ~OwnHop(s, TurnJob(t))
          BY DEF AskedAnew, Free
        <4>2. ~Holds(s, t, TurnJob(t), {"settle"}) /\ ~Holds(s, t, TurnJob(t), {"continue"})
          BY <4>1 DEF Holds
        <4> QED BY <2>2, <3>1, <4>1, <4>2 DEF HandlesFor
      <3> QED BY <1>m, <2>2, <3>1
    <2> QED BY <1>1, <1>2, <2>3 DEF HandlesFor, Hot, Looped, InLoop, OwnHop, Held
  <1>19. \A h, k : HopAt(r, h, k) <=> HopAt(s, h, k)
    BY <1>1 DEF HopAt
  <1>18. \A p \in Tasks : Marks(m[p]) = Marks(s.mem[p])
    BY <1>5 DEF Marks
  <1>17. \A p \in Tasks : s.mem[p] # NoTask => \A x \in Marks(s.mem[p]) : MarkOK(s, p, x, s.mem[p].works[x].ref)
    BY DEF Inv, Told
  <1>u. Unmarked(r, t)
    <2>1. SUFFICES ASSUME NEW p \in Tasks, s.mem[p] # NoTask, NEW x \in Marks(s.mem[p]), s.mem[p].works[x].ref = <<t, b.ask.n>>
                   PROVE  FALSE
      BY <1>1, <1>5, <1>m, <1>18 DEF Unmarked
    <2>2. MarkOK(s, p, x, <<t, b.ask.n>>)
      BY <1>17, <2>1
    <2>3. b.ask.n <= s.disk[t].ask.n
      BY <2>2 DEF MarkOK
    <2> QED BY <1>b, <1>s, <2>3
  <1>20. Asks(r)
    <2>1. SUFFICES ASSUME NEW k \in Tasks PROVE AsksOf(r, k)
      BY DEF Asks
    <2>2. AsksOf(s, k)
      BY DEF Inv, Asks
    <2>6. \A j : OwnHop(r, j) <=> OwnHop(s, j)
      BY <1>1 DEF OwnHop
    <2>4. CASE k = t
      <3>1. \A i \in Jobs : ~HopAt(r, i, t)
        BY <1>19 DEF AskedAnew
      <3>2. ~Holds(r, t, TurnJob(t), {"settle"})
        <4>1. ~Holds(s, t, TurnJob(t), {"settle", "continue"})
          BY DEF AskedAnew, Free
        <4>2. ~Holds(s, t, TurnJob(t), {"settle"})
          BY <4>1 DEF Holds
        <4> QED BY <1>2, <4>2
      <3> QED BY <2>4, <3>1, <3>2 DEF AsksOf
    <2>5. CASE k # t
      <3>1. m[k] = s.mem[k] /\ d[k] = s.disk[k]
        BY <1>m, <1>d, <2>5
      <3>2. Unmarked(s, k) => Unmarked(r, k)
        BY <1>1, <1>5, <1>18, <3>1 DEF Unmarked
      <3> QED BY <1>1, <1>2, <1>19, <2>2, <2>6, <3>1, <3>2 DEF AsksOf
    <2> QED BY <2>4, <2>5
  <1>21. Told(r)
    <2>1. SUFFICES ASSUME NEW p \in Tasks
                   PROVE  /\ r.disk[p] # NoTask => \A x \in Marks(r.disk[p]) : MarkOK(r, p, x, r.disk[p].works[x].ref)
                          /\ r.mem[p] # NoTask => \A x \in Marks(r.mem[p]) :
                               /\ MarkOK(r, p, x, r.mem[p].works[x].ref)
                               /\ \A k \in Tasks : \A j \in Jobs :
                                    HopAt(r, j, k) /\ r.mem[p].works[x].ref = <<k, r.mem[k].ask.n>> => EarlierHop(r, p, x, k)
      BY DEF Told
    <2>2. ASSUME NEW x, NEW ref, MarkOK(s, p, x, ref) PROVE MarkOK(r, p, x, ref)
      <3>1. PICK c, n : c = ref[1] /\ n = ref[2]
        OBVIOUS
      <3>2. /\ ref = <<c, n>> /\ c \in Tasks /\ n \in Nat \ {0} /\ s.disk[c] # NoTask /\ n <= s.disk[c].ask.n
            /\ n = s.disk[c].ask.n => \E h \in DOMAIN s.disk[c].ask.path :
                 h <= s.disk[c].ask.hop /\ s.disk[c].ask.path[h] = [grantor |-> p, grantee |-> x]
        BY <2>2, <3>1 DEF MarkOK
      <3>3. CASE c = t
        <4>1. d[c] # NoTask /\ n <= d[c].ask.n /\ n # d[c].ask.n
          BY <1>b, <1>d, <1>s, <3>2, <3>3
        <4> QED BY <1>1, <3>1, <3>2, <4>1 DEF MarkOK
      <3>4. CASE c # t
        <4>1. d[c] = s.disk[c]
          BY <1>d, <3>2, <3>4
        <4> QED BY <1>1, <3>1, <3>2, <4>1 DEF MarkOK
      <3> QED BY <3>3, <3>4
    <2>3. /\ s.disk[p] # NoTask => \A x \in Marks(s.disk[p]) : MarkOK(s, p, x, s.disk[p].works[x].ref)
          /\ s.mem[p] # NoTask => \A x \in Marks(s.mem[p]) :
                               /\ MarkOK(s, p, x, s.mem[p].works[x].ref)
                               /\ \A k \in Tasks : \A j \in Jobs :
                                    HopAt(s, j, k) /\ s.mem[p].works[x].ref = <<k, s.mem[k].ask.n>> => EarlierHop(s, p, x, k)
      BY DEF Inv, Told
    <2>4. \A x : \A k \in Tasks : k # t /\ EarlierHop(s, p, x, k) => EarlierHop(r, p, x, k)
      BY <1>1, <1>m DEF EarlierHop
    <2>5. ASSUME m[p] # NoTask, NEW x \in Marks(m[p])
          PROVE  /\ MarkOK(r, p, x, m[p].works[x].ref)
                 /\ \A k \in Tasks : \A j \in Jobs :
                      HopAt(r, j, k) /\ m[p].works[x].ref = <<k, m[k].ask.n>> => EarlierHop(r, p, x, k)
      <3>1. s.mem[p] # NoTask /\ x \in Marks(s.mem[p]) /\ m[p].works = s.mem[p].works
        BY <1>5, <1>18, <2>5
      <3>2. MarkOK(r, p, x, m[p].works[x].ref)
        BY <2>2, <2>3, <3>1
      <3>3. ASSUME NEW k \in Tasks, NEW j \in Jobs, HopAt(r, j, k), m[p].works[x].ref = <<k, m[k].ask.n>>
            PROVE  EarlierHop(r, p, x, k)
        <4>1. HopAt(s, j, k) /\ k # t
          BY <1>19, <3>3 DEF AskedAnew
        <4>2. m[k] = s.mem[k]
          BY <1>m, <4>1
        <4> QED BY <2>3, <2>4, <3>1, <3>3, <4>1, <4>2
      <3> QED BY <3>2, <3>3
    <2>6. ASSUME d[p] # NoTask, NEW x \in Marks(d[p])
          PROVE  MarkOK(r, p, x, d[p].works[x].ref)
      <3>1. CASE p = t
        <4>1. x \in Marks(s.mem[p]) /\ d[p].works = s.mem[p].works /\ s.mem[p] # NoTask
          BY <1>0, <1>b, <1>d, <2>6, <3>1 DEF Marks
        <4> QED BY <2>2, <2>3, <4>1
      <3>2. CASE p # t
        <4>1. d[p] = s.disk[p]
          BY <1>d, <3>2
        <4> QED BY <2>2, <2>3, <2>6, <4>1
      <3> QED BY <3>1, <3>2
    <2> QED BY <1>1, <2>5, <2>6
  <1>22. Orphans(r, L)
    <2>1. SUFFICES ASSUME NEW k \in Tasks, Live(m[k]), Parent[k] # Orphan, ~Live(m[Parent[k]]), Lone(k) \notin L
                   PROVE  \/ \E j \in Jobs : \E f \in Held(r, j) : f.op = "cancel" /\ k \in ToSet(f.x)
                          \/ Holds(r, k, <<"host">>, {"orphan"})
      BY <1>1 DEF Orphans
    <2>2. Parent[k] \in Tasks
      BY <2>1, TaskAssumption
    <2>3. \/ \E j \in Jobs : \E f \in Held(s, j) : f.op = "cancel" /\ k \in ToSet(f.x)
          \/ Holds(s, k, <<"host">>, {"orphan"})
      BY <1>5, <2>1, <2>2 DEF Inv, Orphans
    <2> QED BY <1>1, <1>2, <2>3 DEF Held
  <1>23. r.mem[t] = b /\ r.disk[t] = b /\ \A x \in Tasks : x # t => r.mem[x] = s.mem[x]
    BY <1>1, <1>m, <1>d
  <1> QED BY <1>1, <1>6, <1>7, <1>8, <1>9, <1>10, <1>11, <1>12, <1>13, <1>14, <1>15, <1>16, <1>20, <1>21, <1>22, <1>23, <1>u DEF Inv

\* The block of a task that waits for the decision on a request it has just made.
AskOf(b, reqs, plan) ==
  transition(registerCapabilityRequest(b, reqs, plan.route, plan.path),
             "BLOCKED", IF plan.route = "human" THEN "human" ELSE "ask")

LEMMA AskBlock ==
  ASSUME NEW t, NEW b, Block(b), NEW reqs, NEW plan, PathOK(t, plan.path), NEW c, c = AskOf(b, reqs, plan)
  PROVE  /\ Block(c) /\ Waits(c) /\ Pending(c) /\ c.works = b.works /\ c.ask.n = b.ask.n + 1
         /\ c.ask.path = plan.path
  <1>1. PICK path : path = plan.path
    OBVIOUS
  <1>2. PICK a : a = [n |-> b.ask.n + 1, reqs |-> reqs, route |-> plan.route,
                      status |-> "pending", path |-> path,
                      hop |-> IF plan.route = "parent" THEN 1 ELSE 0]
    OBVIOUS
  <1>3. PICK d : d = [b EXCEPT !.ask = a]
    OBVIOUS
  <1>4. DOMAIN b = BlockFields /\ b.ask.n \in Nat
    BY BlockFacts DEF Block
  <1>5. /\ DOMAIN d = BlockFields /\ d.ask = a /\ d.works = b.works /\ d.st = b.st /\ d.graph = b.graph
    BY <1>3, <1>4 DEF BlockFields
  <1>6. /\ a.n = b.ask.n + 1 /\ a.status = "pending" /\ a.path = path /\ a.hop \in {0, 1}
        /\ DOMAIN a = AskFields
    BY <1>2 DEF AskFields
  <1>7. AskOK(a)
    <2>1. Len(path) \in Nat /\ DOMAIN path = 1 .. Len(path) /\ \A g, h \in DOMAIN path : path[g] = path[h] => g = h
      BY <1>1 DEF PathOK
    <2> QED BY <1>4, <1>6, <2>1 DEF AskOK
  <1>8. Block(d)
    BY <1>5, <1>7 DEF Block
  <1>9. PICK why : why = IF plan.route = "human" THEN "human" ELSE "ask"
    OBVIOUS
  <1>10. c = transition(d, "BLOCKED", why)
    BY <1>1, <1>2, <1>3, <1>9 DEF AskOf, registerCapabilityRequest
  <1>11. \E X : Milder(d, c, X) /\ c.st = "BLOCKED" /\ c.why = why /\ c.ask = d.ask /\ c.works = d.works
    BY <1>8, <1>10, TransitionMild
  <1>12. Block(c)
    BY <1>11 DEF Milder
  <1> QED BY <1>1, <1>5, <1>6, <1>9, <1>11, <1>12 DEF Waits, Pending

\* The turn of t ends with a request, which is saved before anyone is told of it.
LEMMA TurnAsks ==
  ASSUME IInv, NEW t, NEW s, AtTurn(s, t), ~Pending(mem[t]), NEW reqs, NEW plan, PathOK(t, plan.path)
  PROVE  /\ Good(Persist(Put(s, t, AskOf(mem[t], reqs, plan)), t))
         /\ Good(Push(Persist(Put(s, t, AskOf(mem[t], reqs, plan)), t), TurnJob(t), <<Then("publish", t)>>))
  <1>1. PICK b : b = AskOf(mem[t], reqs, plan)
    OBVIOUS
  <1>2. PICK r : r = Persist(Put(s, t, b), t)
    OBVIOUS
  <1>3. PICK j : j = TurnJob(t)
    OBVIOUS
  <1>4. PICK ph, E : ph = phase /\ E = {}
    OBVIOUS
  <1>5. /\ Inv(s, ph, E) /\ ph # "down" /\ Known(s, t) /\ t \in Tasks /\ s.mem = mem /\ mem[t].st = "RUNNING"
        /\ Block(mem[t]) /\ s.jobs[j] = <<>> /\ s.jobs[ModelJob(t)] = <<>> /\ ~InLoop(s, t) /\ Free(s, t)
        /\ \A i \in Jobs : ~HopAt(s, i, t)
    BY <1>3, <1>4 DEF AtTurn
  <1>6. /\ Block(b) /\ Waits(b) /\ Pending(b) /\ b.works = mem[t].works /\ b.ask.n = mem[t].ask.n + 1
        /\ b.ask.path = plan.path
    <2>1. PICK o : o = mem[t]
      OBVIOUS
    <2>2. PathOK(t, plan.path) /\ Block(o) /\ b = AskOf(o, reqs, plan)
      BY <1>1, <1>5, <2>1
    <2>3. /\ Block(b) /\ Waits(b) /\ Pending(b) /\ b.works = o.works /\ b.ask.n = o.ask.n + 1
          /\ b.ask.path = plan.path
      BY <2>2, AskBlock
    <2> QED BY <2>1, <2>3
  <1>7. Owned(t, b)
    <2>1. Owned(t, mem[t]) /\ mem[t] # NoTask
      BY <1>5, BlockFacts DEF Inv, Typed
    <2>2. \A h \in DOMAIN b.ask.path : Route(t, b.ask.path[h])
      BY <1>6 DEF PathOK
    <2> QED BY <1>6, <2>1, <2>2 DEF Owned
  <1>8. AskedAnew(s, t, b)
    BY <1>5, <1>6, <1>7 DEF AskedAnew
  <1>9. /\ Inv(r, ph, E) /\ Unmarked(r, t) /\ r.mem[t] = b /\ r.disk[t] = b /\ r.jobs = s.jobs
        /\ \A x \in Tasks : x # t => r.mem[x] = s.mem[x]
        /\ \A x \in Tasks : Known(r, x) <=> Known(s, x)
    BY <1>2, <1>5, <1>8, AsksAnew
  <1>10. Legal(S, r)
    <2>1. S.mem = mem
      BY SFacts
    <2>2. b.st = "BLOCKED"
      BY <1>6 DEF Waits
    <2> QED BY <1>5, <1>9, <2>1, <2>2 DEF Legal, LEGAL_TRANSITIONS
  <1>11. Good(r)
    BY <1>4, <1>9, <1>10 DEF Good
  <1>12. PICK f : f = Then("publish", t)
    OBVIOUS
  <1>13. f.op = "publish" /\ f.t = t
    BY <1>12 DEF Then, Frame
  <1>14. PICK p : p = <<f>>
    OBVIOUS
  <1>15. IsStack(p) /\ DOMAIN p = {1} /\ p[1] = f /\ Len(p) = 1
    BY <1>14, OneFrame
  <1>16. ToSet(p) = {f}
    BY <1>15 DEF ToSet
  <1>17. TurnMay(r, t, p)
    <2>1. r.jobs[TurnJob(t)] = <<>> /\ r.jobs[ModelJob(t)] = <<>> /\ ~InLoop(r, t)
      BY <1>3, <1>5, <1>9 DEF InLoop, Holds, Held
    <2>2. \A g \in ToSet(p) : g.op \notin Sends /\ FrameKnown(r, g)
      BY <1>5, <1>9, <1>13, <1>16 DEF Sends, FrameKnown
    <2>3. \A g \in ToSet(p) : g.op # "settle" /\ g.op # "continue"
      BY <1>13, <1>16
    <2>4. \A i \in Jobs : ~HopAt(r, i, t)
      BY <1>5, <1>9 DEF HopAt
    <2>5. ToldEarlier(r, t)
      BY <1>9 DEF ToldEarlier, Unmarked
    <2>6. ~Holds(r, t, TurnJob(t), {"settle"})
      <3>1. r.jobs[TurnJob(t)] = <<>>
        BY <2>1
      <3>2. Held(r, TurnJob(t)) = {}
        BY <3>1, SuffixNone, OneFrame DEF Held
      <3> QED BY <3>2 DEF Holds
    <2> QED BY <1>5, <1>6, <1>9, <1>13, <1>15, <2>1, <2>2, <2>3, <2>4, <2>5, <2>6 DEF TurnMay
  <1>18. StackOK(p, j, ph)
    <2>1. j[1] = "turn" /\ j[2] = t
      BY <1>3, JobFacts
    <2>2. FrameFits(p, 1, j, ph)
      BY <1>13, <1>15, <2>1 DEF FrameFits, OpsOf, Heads, Sends, BootOps
    <2> QED BY <1>15, <2>2 DEF StackOK
  <1>19. PICK q : q = Push(r, j, p)
    OBVIOUS
  <1>20. Inv(q, ph, E) /\ q.mem = r.mem
    BY <1>3, <1>9, <1>17, <1>18, <1>19, TurnBegins
  <1>21. Good(q)
    BY <1>4, <1>10, <1>20 DEF Good, Legal
  <1> QED BY <1>1, <1>2, <1>3, <1>11, <1>12, <1>14, <1>19, <1>21

\* AnswerAsk.
LEMMA AnswerAskStep ==
  ASSUME IInv, NEW t \in Tasks, NEW a, NEW fit \in Fits, AnswerAsk(t, a, fit)
  PROVE  Onward
  <1>1. PICK s : s = Turn(t)
    OBVIOUS
  <1>2. AtTurn(s, t)
    BY <1>1, AnswerTurn DEF AnswerAsk
  <1>3. PICK missing : missing = Missing(mem[t].grants, a.reqs, NoOp)
    OBVIOUS
  <1>4. PICK chain : chain = ChainOf(t)
    OBVIOUS
  <1>5. PICK plan : plan = planRequest(t, chain, [x \in Tasks |-> IF mem[x] = NoTask THEN <<>> ELSE mem[x].grants], missing)
    OBVIOUS
  <1>6. PICK r1 : r1 = Reject(s, TurnJob(t), t, fit)
    OBVIOUS
  <1>7. PICK r2 : r2 = Throw(s, TurnJob(t), fit)
    OBVIOUS
  <1>8. PICK r3 : r3 = Persist(Put(s, t, AskOf(mem[t], missing, plan)), t)
    OBVIOUS
  <1>9. PICK r4 : r4 = Push(r3, TurnJob(t), <<Then("publish", t)>>)
    OBVIOUS
  <1>10. /\ Do(r1) \/ Do(r2) \/ (plan # NoRoute /\ ~Pending(mem[t]) /\ (Do(r3) \/ Do(r4)))
         /\ phase' = phase
    BY <1>1, <1>3, <1>4, <1>5, <1>6, <1>7, <1>8, <1>9 DEF AnswerAsk, Stay, ChainOf, AskOf
  <1>11. Good(r1)
    BY <1>2, <1>6, TurnRejects
  <1>12. Good(r2)
    BY <1>2, <1>7, TurnThrows
  <1>13. plan # NoRoute => PathOK(t, plan.path)
    BY <1>4, <1>5, PlanPath
  <1>14. plan # NoRoute /\ ~Pending(mem[t]) => Good(r3) /\ Good(r4)
    BY <1>2, <1>8, <1>9, <1>13, TurnAsks
  <1> QED BY <1>2, <1>10, <1>11, <1>12, <1>14, Closes DEF AtTurn

----------------------------------------------------------------------------
(* The scheduling loop *)

\* The loop looks at the task t, which is queued or waits for the compactor.
AtLoop(t) ==
  /\ Inv(S, phase, {}) /\ phase # "down" /\ Known(S, t) /\ t \in Tasks
  /\ mem[t].st = "READY" /\ Live(mem[t]) /\ Block(mem[t])
  /\ jobs[<<"loop">>] = <<>> /\ jobs[ModelJob(t)] = <<>> /\ Loose(jobs[<<"loop">>])
  /\ Free(S, t) /\ ~Hot(S, t) /\ ~InLoop(S, t) /\ \A i \in Jobs : HopAt(S, i, t) => Pending(mem[t])
  /\ <<"loop">> \in Jobs /\ <<"loop">>[1] = "loop"

LEMMA LoopLooks ==
  ASSUME IInv, LoopFree, NEW t, t \in queue \cup packing
  PROVE  AtLoop(t)
  <1>1. Inv(S, phase, {}) /\ phase = "up" /\ jobs[<<"loop">>] = <<>>
    BY DEF IInv, LoopFree
  <1>2. S.mem = mem /\ S.jobs = jobs /\ S.queue = queue /\ S.packing = packing
    BY SFacts
  <1>3. Known(S, t) /\ mem[t].st = "READY"
    BY <1>1, <1>2 DEF Inv, ListsKnown, Books
  <1>4. t \in Tasks /\ mem[t] # NoTask /\ Block(mem[t]) /\ Live(mem[t])
    BY <1>1, <1>2, <1>3 DEF Known, Inv, Typed, Live
  <1>5. PICK ph, E : ph = phase /\ E = {}
    OBVIOUS
  <1>6. Free(S, t) /\ ~Hot(S, t) /\ \A i \in Jobs : HopAt(S, i, t) => Pending(mem[t])
    <2>1. Inv(S, ph, E) /\ S.mem[t] # NoTask /\ S.mem[t].st = "READY"
      BY <1>1, <1>2, <1>3, <1>4, <1>5
    <2>2. Free(S, t) /\ ~Hot(S, t) /\ \A i \in Jobs : HopAt(S, i, t) => Pending(S.mem[t])
      BY <1>4, <2>1, IdleFree
    <2> QED BY <1>2, <2>2
  <1>7. ~InLoop(S, t)
    <2>1. Held(S, <<"loop">>) = {}
      BY <1>1, <1>2, SuffixNone, OneFrame DEF Held
    <2> QED BY <2>1 DEF InLoop, Holds
  <1>8. jobs[ModelJob(t)] = <<>>
    BY <1>2, <1>6 DEF Free
  <1>9. Loose(jobs[<<"loop">>])
    BY <1>1 DEF Loose
  <1> QED BY <1>1, <1>3, <1>4, <1>6, <1>7, <1>8, <1>9, JobFacts DEF AtLoop

\* A task is given up by the loop.
LEMMA LoopTerminates ==
  ASSUME IInv, NEW t, AtLoop(t), NEW kind
  PROVE  Good(terminateTask(S, <<"loop">>, t, kind))
  <1>1. PICK ph, E, j : ph = phase /\ E = {} /\ j = <<"loop">>
    OBVIOUS
  <1>2. S.mem = mem /\ S.jobs = jobs
    BY SFacts
  <1>3. /\ Inv(S, ph, E) /\ ph # "down" /\ j \in Jobs /\ j[1] # "model" /\ Loose(S.jobs[j]) /\ Mortal(S, t)
    BY <1>1, <1>2 DEF AtLoop, Mortal
  <1>4. \A k \in E : k \in E \/ k = Late(t) \/ k = Lone(t)
    OBVIOUS
  <1>5. PICK r : r = terminateTask(S, j, t, kind)
    OBVIOUS
  <1>6. Inv(r, ph, E) /\ Falls(S, r)
    BY <1>3, <1>4, <1>5, Terminates
  <1>7. Legal(S, r)
    BY <1>3, <1>6, FallsLegal
  <1> QED BY <1>1, <1>5, <1>6, <1>7 DEF Good

\* OutOfTries.
LEMMA OutOfTriesStep ==
  ASSUME IInv, NEW t \in Tasks, OutOfTries(t)
  PROVE  Onward
  <1>1. AtLoop(t)
    BY LoopLooks DEF OutOfTries
  <1>2. Good(terminateTask(S, <<"loop">>, t, "failed"))
    BY <1>1, LoopTerminates
  <1> QED BY <1>1, <1>2, Closes DEF OutOfTries, AtLoop, Stay

\* AdmissionRefused.
LEMMA AdmissionRefusedStep ==
  ASSUME IInv, NEW t \in Tasks, AdmissionRefused(t)
  PROVE  Onward
  <1>1. AtLoop(t)
    BY LoopLooks DEF AdmissionRefused
  <1>2. Good(terminateTask(S, <<"loop">>, t, "failed"))
    BY <1>1, LoopTerminates
  <1> QED BY <1>1, <1>2, Closes DEF AdmissionRefused, AtLoop, Stay

\* s is S but that t is in none of the lists of the loop.
TakenOff(s, t) ==
  \E qu, pk :
    /\ Is(s, mem, disk, qu, pk, timers, wake, pool, jobs)
    /\ qu \subseteq queue /\ pk \subseteq packing /\ t \notin qu \cup pk
    /\ \A x \in queue \cup packing : x = t \/ x \in qu \cup pk

LEMMA TakesOff ==
  ASSUME IInv, NEW t, AtLoop(t), NEW s, TakenOff(s, t)
  PROVE  /\ Inv(s, phase, {Late(t)}) /\ s.mem = mem /\ s.jobs = jobs /\ t \notin s.queue \cup s.packing
         /\ DOMAIN s = Fields /\ \A x \in Tasks : Known(s, x) <=> Known(S, x)
  <1>1. PICK qu : \E pk :
          /\ Is(s, mem, disk, qu, pk, timers, wake, pool, jobs)
          /\ qu \subseteq queue /\ pk \subseteq packing /\ t \notin qu \cup pk
          /\ \A x \in queue \cup packing : x = t \/ x \in qu \cup pk
    BY DEF TakenOff
  <1>2. PICK pk :
          /\ Is(s, mem, disk, qu, pk, timers, wake, pool, jobs)
          /\ qu \subseteq queue /\ pk \subseteq packing /\ t \notin qu \cup pk
          /\ \A x \in queue \cup packing : x = t \/ x \in qu \cup pk
    BY <1>1
  <1>3. /\ Inv(S, phase, {}) /\ S.mem = mem /\ S.disk = disk /\ S.queue = queue /\ S.packing = packing
        /\ S.timers = timers /\ S.wake = wake /\ S.pool = pool /\ S.jobs = jobs
    BY SFacts DEF AtLoop
  <1>4. PICK ph, E, K : ph = phase /\ E = {} /\ K = {Late(t)}
    OBVIOUS
  <1>5. Inv(S, ph, E) /\ E \subseteq K
    BY <1>3, <1>4
  <1>6. \A x \in qu \cup pk \cup timers \cup wake : Known(S, x)
    <2>1. \A x \in queue \cup packing \cup timers \cup wake : Known(S, x)
      BY <1>3 DEF Inv, ListsKnown
    <2> QED BY <1>2, <2>1
  <1>7. qu \cap pk = {} /\ \A x \in qu \cup pk : S.mem[x].st = "READY"
    <2>1. queue \cap packing = {} /\ \A x \in queue \cup packing : mem[x].st = "READY"
      BY <1>3 DEF Inv, Books
    <2> QED BY <1>2, <1>3, <2>1
  <1>8. \A x \in S.queue \cup S.packing : x \in qu \cup pk \/ Late(x) \in K
    BY <1>2, <1>3, <1>4
  <1>9. PICK ti, wk : ti = timers /\ wk = wake
    OBVIOUS
  <1>10. Is(s, S.mem, S.disk, qu, pk, ti, wk, S.pool, S.jobs)
    BY <1>2, <1>3, <1>9
  <1>11. Inv(s, ph, K)
    BY <1>5, <1>6, <1>7, <1>8, <1>9, <1>10, Lists
  <1>12. s.mem = mem /\ s.jobs = jobs /\ s.queue = qu /\ s.packing = pk /\ DOMAIN s = Fields
    BY <1>2 DEF Is
  <1>13. \A x \in Tasks : Known(s, x) <=> Known(S, x)
    BY <1>3, <1>12 DEF Known, Born, Holds, Held
  <1> QED BY <1>2, <1>4, <1>11, <1>12, <1>13

\* The task leaves the lists and is RUNNING.
LEMMA LoopRuns ==
  ASSUME IInv, NEW t, AtLoop(t), NEW s, TakenOff(s, t),
         NEW b, Milder(mem[t], b, {}), b.st = "RUNNING", b.ask = mem[t].ask, NEW r, r = Put(s, t, b)
  PROVE  /\ Inv(r, phase, {}) /\ Legal(S, r) /\ r.mem[t] = b /\ r.jobs = jobs /\ Known(r, t)
  <1>1. PICK ph, E, K : ph = phase /\ E = {} /\ K = {Late(t)}
    OBVIOUS
  <1>2. /\ Inv(s, ph, K) /\ s.mem = mem /\ s.jobs = jobs /\ t \notin s.queue \cup s.packing
        /\ Known(s, t)
    BY <1>1, TakesOff DEF AtLoop
  <1>3. Fitting(s, K, t, b)
    <2>1. Milder(s.mem[t], b, E) /\ Live(s.mem[t]) /\ b.st # "TERMINATED"
      BY <1>1, <1>2 DEF AtLoop
    <2>2. Free(s, t)
      <3>1. S.jobs = jobs /\ Free(S, t)
        BY SFacts DEF AtLoop
      <3> QED BY <1>2, <3>1 DEF Free, Looped, OwnHop, Holds, Held
    <2>3. \A i \in Jobs : HopAt(s, i, t) => Pending(b)
      <3>1. S.jobs = jobs /\ \A i \in Jobs : HopAt(S, i, t) => Pending(mem[t])
        BY SFacts DEF AtLoop
      <3> QED BY <1>2, <3>1 DEF HopAt, Pending
    <2>4. \A k \in Tasks : Born(s, k) => k \notin E
      BY <1>1
    <2>5. (t \in s.queue \cup s.packing => b.st = "READY") /\ (b.st = "READY" => Late(t) \in K)
      BY <1>2
    <2> QED BY <1>2, <2>1, <2>2, <2>3, <2>4, <2>5, FitFree
  <1>4. Inv(r, ph, K) /\ Replaced(s, t, b, r) /\ \A x \in Tasks : Known(r, x) <=> Known(s, x)
    BY <1>2, <1>3, OnePut
  <1>5. r.mem[t] = b /\ r.jobs = jobs /\ \A x \in Tasks : x # t => r.mem[x] = mem[x]
    BY <1>2, <1>4 DEF Replaced
  <1>6. Inv(r, ph, E)
    <2>1. ASSUME NEW k \in Tasks
          PROVE  /\ r.mem[k].st = "READY" /\ Late(k) \in K => Late(k) \in E \/ ListedTask(r, k)
                 /\ Stray(r, k) /\ Lone(k) \in K => Lone(k) \in E \/
                      \E j \in Jobs : \E f \in Held(r, j) : f.op = "cancel" /\ k \in ToSet(f.x)
      <3>1. Late(k) \in K => k = t
        BY <1>1 DEF Late
      <3>2. Lone(k) \notin K
        BY <1>1 DEF Late, Lone
      <3> QED BY <1>5, <3>1, <3>2
    <2> QED BY <1>4, <2>1, Smaller
  <1>7. Legal(S, r)
    <2>1. S.mem = mem /\ mem[t].st = "READY"
      BY SFacts DEF AtLoop
    <2> QED BY <1>5, <2>1 DEF Legal, LEGAL_TRANSITIONS
  <1>8. Known(r, t)
    BY <1>2, <1>4 DEF Known
  <1> QED BY <1>1, <1>5, <1>6, <1>7, <1>8

\* What is left of the loop's steps that take t from the lists and save it.
LEMMA LoopSaves ==
  ASSUME IInv, NEW t, AtLoop(t), NEW s, TakenOff(s, t),
         NEW b, Milder(mem[t], b, {}), b.st = "RUNNING", b.ask = mem[t].ask, NEW r, r = Persist(Put(s, t, b), t)
  PROVE  /\ Inv(r, phase, {}) /\ Legal(S, r) /\ r.mem[t] = b /\ r.jobs = jobs /\ Known(r, t)
  <1>1. PICK m : m = Put(s, t, b)
    OBVIOUS
  <1>2. Inv(m, phase, {}) /\ Legal(S, m) /\ m.mem[t] = b /\ m.jobs = jobs /\ Known(m, t)
    BY <1>1, LoopRuns
  <1>3. PICK ph, E, j : ph = phase /\ E = {} /\ j = <<"loop">>
    OBVIOUS
  <1>4. Inv(m, ph, E) /\ ph # "down" /\ Loose(m.jobs[j]) /\ t \in Tasks
    BY <1>2, <1>3 DEF AtLoop
  <1>5. PICK q : q = Persist(m, t)
    OBVIOUS
  <1>6. Outcome(m, q, j, ph, E) /\ q.mem = m.mem /\ q.jobs = m.jobs
    BY <1>2, <1>4, <1>5, Persists
  <1>7. r = q
    BY <1>1, <1>5
  <1>8. Inv(r, phase, {}) /\ Known(r, t)
    BY <1>2, <1>3, <1>4, <1>6, <1>7 DEF Outcome
  <1>9. Legal(S, r)
    BY <1>2, <1>6, <1>7 DEF Legal
  <1> QED BY <1>2, <1>6, <1>7, <1>8, <1>9

LEMMA LoopSends ==
  ASSUME IInv, NEW t, AtLoop(t), NEW s, TakenOff(s, t),
         NEW b, Milder(mem[t], b, {}), b.st = "RUNNING", b.ask = mem[t].ask, NEW op \in {"model", "compact"}
  PROVE  Good(Push(Persist(Put(s, t, b), t), ModelJob(t), <<Then(op, t)>>))
  <1>1. PICK r : r = Persist(Put(s, t, b), t)
    OBVIOUS
  <1>2. Inv(r, phase, {}) /\ Legal(S, r) /\ r.mem[t] = b /\ r.jobs = jobs /\ Known(r, t)
    BY <1>1, LoopSaves
  <1>3. PICK f : f = Then(op, t)
    OBVIOUS
  <1>4. f.op = op /\ f.t = t
    BY <1>3 DEF Then, Frame
  <1>5. PICK ph, E : ph = phase /\ E = {}
    OBVIOUS
  <1>6. S.jobs = jobs /\ ~Hot(S, t) /\ ~InLoop(S, t) /\ jobs[ModelJob(t)] = <<>>
    BY SFacts DEF AtLoop
  <1>7. /\ Inv(r, ph, E) /\ f.op \in {"model", "compact"} /\ Known(r, f.t)
        /\ r.jobs[ModelJob(f.t)] = <<>> /\ r.mem[f.t].st = "RUNNING"
    BY <1>2, <1>4, <1>5, <1>6
  <1>8. ~Hot(r, f.t) /\ ~InLoop(r, f.t)
    BY <1>2, <1>4, <1>6 DEF Hot, InLoop, Holds, Held
  <1>9. PICK q : q = Push(r, ModelJob(f.t), <<f>>)
    OBVIOUS
  <1>10. Inv(q, ph, E) /\ q.mem = r.mem
    BY <1>7, <1>8, <1>9, ModelBegins
  <1>11. Good(q)
    BY <1>2, <1>5, <1>10 DEF Good, Legal
  <1> QED BY <1>1, <1>3, <1>4, <1>9, <1>11

\* The block that a queued task runs with.
Tried(b) == [transition(b, "RUNNING", "") EXCEPT !.tries = @ + 1]

LEMMA RunsMild ==
  ASSUME NEW b, Block(b)
  PROVE  /\ Milder(b, transition(b, "RUNNING", ""), {}) /\ transition(b, "RUNNING", "").st = "RUNNING"
         /\ transition(b, "RUNNING", "").ask = b.ask
         /\ Milder(b, Tried(b), {}) /\ Tried(b).st = "RUNNING" /\ Tried(b).ask = b.ask
  <1>1. PICK d : d = transition(b, "RUNNING", "")
    OBVIOUS
  <1>2. PICK E : E = {}
    OBVIOUS
  <1>3. Milder(b, d, E) /\ d.st = "RUNNING" /\ d.ask = b.ask
    <2>1. PICK why : why = ""
      OBVIOUS
    <2>2. d = transition(b, "RUNNING", why)
      BY <1>1, <2>1
    <2>3. \E X : Milder(b, d, X) /\ d.st = "RUNNING" /\ d.ask = b.ask
      BY <2>2, TransitionMild
    <2>4. \A X : Milder(b, d, X)
      BY <2>2, TransitionMild
    <2> QED BY <2>3, <2>4
  <1>4. Block(d) /\ DOMAIN d = BlockFields /\ GraphOK(d.graph)
    BY <1>3 DEF Milder, Block
  <1>5. PICK c : c = [d EXCEPT !.tries = @ + 1]
    OBVIOUS
  <1>6. c = Tried(b)
    BY <1>1, <1>5 DEF Tried
  <1>7. DOMAIN c = BlockFields /\ c.st = d.st /\ c.ask = d.ask /\ c.works = d.works /\ c.graph = d.graph
    BY <1>4, <1>5 DEF BlockFields
  <1>8. Milder(d, c, E)
    BY <1>4, <1>7, FieldMild
  <1>9. Milder(b, c, E)
    BY <1>3, <1>8, MilderThen
  <1> QED BY <1>1, <1>2, <1>3, <1>6, <1>7, <1>9

\* Admit.
LEMMA AdmitStep ==
  ASSUME IInv, NEW t \in Tasks, Admit(t)
  PROVE  Onward
  <1>1. AtLoop(t)
    BY LoopLooks DEF Admit
  <1>2. PICK s : s = [S EXCEPT !.queue = @ \ {t}]
    OBVIOUS
  <1>3. TakenOff(s, t)
    <2>1. Is(s, mem, disk, queue \ {t}, packing, timers, wake, pool, jobs)
      BY <1>2, SFacts DEF Is, Fields
    <2>2. t \notin packing
      <3>1. queue \cap packing = {} /\ t \in queue
        BY <1>1, SFacts DEF AtLoop, Inv, Books, Admit
      <3> QED BY <3>1
    <2>3. PICK qu : qu = queue \ {t}
      OBVIOUS
    <2>4. /\ Is(s, mem, disk, qu, packing, timers, wake, pool, jobs)
          /\ qu \subseteq queue /\ packing \subseteq packing /\ t \notin qu \cup packing
          /\ \A x \in queue \cup packing : x = t \/ x \in qu \cup packing
      BY <2>1, <2>2, <2>3
    <2> QED BY <2>4 DEF TakenOff
  <1>4. PICK b : b = [transition(mem[t], "RUNNING", "") EXCEPT !.tries = @ + 1]
    OBVIOUS
  <1>5. Milder(mem[t], b, {}) /\ b.st = "RUNNING" /\ b.ask = mem[t].ask
    <2>1. PICK o : o = mem[t]
      OBVIOUS
    <2>2. Block(o) /\ b = Tried(o)
      BY <1>1, <1>4, <2>1 DEF AtLoop, Tried
    <2>3. Milder(o, b, {}) /\ b.st = "RUNNING" /\ b.ask = o.ask
      BY <2>2, RunsMild
    <2> QED BY <2>1, <2>3
  <1>6. PICK r : r = Push(Persist(Put(s, t, b), t), ModelJob(t), <<Then("model", t)>>)
    OBVIOUS
  <1>7. Good(r)
    BY <1>1, <1>3, <1>5, <1>6, LoopSends
  <1>8. Do(r) /\ phase' = phase
    BY <1>2, <1>4, <1>6 DEF Admit, Stay
  <1> QED BY <1>1, <1>7, <1>8, Closes DEF AtLoop

\* StartCompaction.
LEMMA StartCompactionStep ==
  ASSUME IInv, NEW t \in Tasks, StartCompaction(t)
  PROVE  Onward
  <1>1. AtLoop(t)
    BY LoopLooks DEF StartCompaction
  <1>2. PICK s : s = [S EXCEPT !.packing = @ \ {t}]
    OBVIOUS
  <1>3. TakenOff(s, t)
    <2>1. Is(s, mem, disk, queue, packing \ {t}, timers, wake, pool, jobs)
      BY <1>2, SFacts DEF Is, Fields
    <2>2. t \notin queue
      <3>1. queue \cap packing = {} /\ t \in packing
        BY <1>1, SFacts DEF AtLoop, Inv, Books, StartCompaction
      <3> QED BY <3>1
    <2>3. PICK pk : pk = packing \ {t}
      OBVIOUS
    <2>4. /\ Is(s, mem, disk, queue, pk, timers, wake, pool, jobs)
          /\ queue \subseteq queue /\ pk \subseteq packing /\ t \notin queue \cup pk
          /\ \A x \in queue \cup packing : x = t \/ x \in queue \cup pk
      BY <2>1, <2>2, <2>3
    <2> QED BY <2>4 DEF TakenOff
  <1>4. PICK b : b = transition(mem[t], "RUNNING", "")
    OBVIOUS
  <1>5. Milder(mem[t], b, {}) /\ b.st = "RUNNING" /\ b.ask = mem[t].ask
    <2>1. PICK o : o = mem[t]
      OBVIOUS
    <2>2. Block(o) /\ b = transition(o, "RUNNING", "")
      BY <1>1, <1>4, <2>1 DEF AtLoop
    <2>3. Milder(o, b, {}) /\ b.st = "RUNNING" /\ b.ask = o.ask
      BY <2>2, RunsMild
    <2> QED BY <2>1, <2>3
  <1>6. PICK r : r = Push(Persist(Put(s, t, b), t), ModelJob(t), <<Then("compact", t)>>)
    OBVIOUS
  <1>7. Good(r)
    BY <1>1, <1>3, <1>5, <1>6, LoopSends
  <1>8. Do(r) /\ phase' = phase
    BY <1>2, <1>4, <1>6 DEF StartCompaction, Stay
  <1> QED BY <1>1, <1>7, <1>8, Closes DEF AtLoop

\* The task leaves the lists and is queued again with another graph.
LEMMA LoopQueues ==
  ASSUME IInv, NEW t, AtLoop(t), NEW s, TakenOff(s, t), NEW fit \in Fits,
         NEW b, Milder(mem[t], b, {}), b.st = "READY", b.ask = mem[t].ask
  PROVE  Good(Persist(prepareTaskForQueue(Put(s, t, b), <<"loop">>, t, fit), t))
  <1>1. PICK ph, E, K, j : ph = phase /\ E = {} /\ K = {Late(t)} /\ j = <<"loop">>
    OBVIOUS
  <1>2. /\ Inv(s, ph, K) /\ s.mem = mem /\ s.jobs = jobs /\ t \notin s.queue \cup s.packing
        /\ Known(s, t) /\ ph # "down" /\ t \in Tasks
    BY <1>1, TakesOff DEF AtLoop
  <1>3. Fitting(s, K, t, b)
    <2>1. Milder(s.mem[t], b, E) /\ Live(s.mem[t]) /\ b.st # "TERMINATED"
      BY <1>1, <1>2 DEF AtLoop
    <2>2. Free(s, t)
      <3>1. S.jobs = jobs /\ Free(S, t)
        BY SFacts DEF AtLoop
      <3> QED BY <1>2, <3>1 DEF Free, Looped, OwnHop, Holds, Held
    <2>3. \A i \in Jobs : HopAt(s, i, t) => Pending(b)
      <3>1. S.jobs = jobs /\ \A i \in Jobs : HopAt(S, i, t) => Pending(mem[t])
        BY SFacts DEF AtLoop
      <3> QED BY <1>2, <3>1 DEF HopAt, Pending
    <2>4. \A k \in Tasks : Born(s, k) => k \notin E
      BY <1>1
    <2>5. (t \in s.queue \cup s.packing => b.st = "READY") /\ (b.st = "READY" => Late(t) \in K)
      BY <1>1
    <2> QED BY <1>2, <2>1, <2>2, <2>3, <2>4, <2>5, FitFree
  <1>4. PICK r : r = Put(s, t, b)
    OBVIOUS
  <1>5. Outcome(s, r, j, ph, K) /\ Replaced(s, t, b, r)
    <2>1. j \in Jobs /\ Loose(s.jobs[j])
      BY <1>1, <1>2 DEF AtLoop
    <2>2. b.st \in {s.mem[t].st, "READY"}
      OBVIOUS
    <2> QED BY <1>2, <1>3, <1>4, <2>1, <2>2, PutOutcome
  <1>6. PICK q : q = prepareTaskForQueue(r, j, t, fit)
    OBVIOUS
  <1>7. Outcome(r, q, j, ph, E)
    <2>1. Inv(r, ph, K) /\ Known(r, t) /\ Loose(r.jobs[j]) /\ r.mem[t].st = "READY"
      BY <1>2, <1>5 DEF Outcome, Replaced
    <2>2. j \in Jobs /\ j[1] # "model"
      BY <1>1, JobFacts
    <2>3. Without(K, t, E)
      BY <1>1 DEF Without
    <2> QED BY <1>2, <1>6, <2>1, <2>2, <2>3, Prepares
  <1>8. PICK z : z = Persist(q, t)
    OBVIOUS
  <1>9. Outcome(q, z, j, ph, E)
    <2>1. Inv(q, ph, E) /\ Loose(q.jobs[j]) /\ Known(q, t)
      BY <1>2, <1>5, <1>7 DEF Outcome
    <2> QED BY <1>2, <1>8, <2>1, Persists
  <1>10. Falls(S, z) /\ Inv(z, ph, E)
    <2>1. Falls(S, s)
      BY <1>2, SFacts, FallsSame
    <2>2. Falls(s, r) /\ Falls(r, q) /\ Falls(q, z) /\ Inv(z, ph, E)
      BY <1>5, <1>7, <1>9 DEF Outcome
    <2>3. Falls(S, r)
      BY <2>1, <2>2, FallsThen
    <2>4. Falls(S, q)
      BY <2>2, <2>3, FallsThen
    <2> QED BY <2>2, <2>4, FallsThen
  <1>11. Legal(S, z)
    <2>1. Inv(S, ph, E)
      BY <1>1 DEF AtLoop
    <2> QED BY <1>10, <2>1, FallsLegal
  <1> QED BY <1>1, <1>4, <1>6, <1>8, <1>10, <1>11 DEF Good

\* The loop goes on for a task that it took from the queue.
LEMMA LoopGoesOn ==
  ASSUME IInv, NEW t, AtLoop(t), NEW r, Inv(r, phase, {}), Legal(S, r), r.jobs = jobs, Known(r, t),
         r.mem[t].st = "RUNNING", NEW f, f.op \in {"dispatch", "settle"}, f.t = t, f.op = "dispatch" => Len(f.x) \in Nat
  PROVE  Good(Push(r, <<"loop">>, <<f>>))
  <1>1. PICK ph, E : ph = phase /\ E = {}
    OBVIOUS
  <1>2. S.jobs = jobs /\ ~Hot(S, t) /\ jobs[ModelJob(t)] = <<>> /\ jobs[<<"loop">>] = <<>>
    BY SFacts DEF AtLoop
  <1>3. ~Hot(r, f.t)
    BY <1>2 DEF Hot, Held
  <1>4. /\ Inv(r, ph, E) /\ f.op \in {"dispatch", "settle", "failnodes"} /\ Known(r, f.t)
        /\ r.jobs[<<"loop">>] = <<>> /\ r.jobs[ModelJob(f.t)] = <<>>
        /\ f.op # "failnodes" => r.mem[f.t].st \in {"RUNNING", "TERMINATED"}
    BY <1>1, <1>2
  <1>5. PICK q : q = Push(r, <<"loop">>, <<f>>)
    OBVIOUS
  <1>6. Inv(q, ph, E) /\ q.mem = r.mem
    BY <1>3, <1>4, <1>5, LoopBegins
  <1>7. Good(q)
    BY <1>1, <1>6 DEF Good, Legal
  <1> QED BY <1>5, <1>7

\* AdvanceGraph.
LEMMA AdvanceGraphStep ==
  ASSUME IInv, NEW t \in Tasks, NEW fit \in Fits, AdvanceGraph(t, fit)
  PROVE  Onward
  <1>1. AtLoop(t) /\ t \in queue
    BY LoopLooks DEF AdvanceGraph
  <1>2. PICK s : s = [S EXCEPT !.queue = @ \ {t}]
    OBVIOUS
  <1>3. TakenOff(s, t)
    <2>1. Is(s, mem, disk, queue \ {t}, packing, timers, wake, pool, jobs)
      BY <1>2, SFacts DEF Is, Fields
    <2>2. t \notin packing
      <3>1. queue \cap packing = {} /\ t \in queue
        BY <1>1, SFacts DEF AtLoop, Inv, Books
      <3> QED BY <3>1
    <2>3. PICK qu : qu = queue \ {t}
      OBVIOUS
    <2>4. /\ Is(s, mem, disk, qu, packing, timers, wake, pool, jobs)
          /\ qu \subseteq queue /\ packing \subseteq packing /\ t \notin qu \cup packing
          /\ \A x \in queue \cup packing : x = t \/ x \in qu \cup packing
      BY <2>1, <2>2, <2>3
    <2> QED BY <2>4 DEF TakenOff
  <1>4. PICK o : o = mem[t]
    OBVIOUS
  <1>5. PICK g : g = o.graph
    OBVIOUS
  <1>6. Block(o) /\ GraphOK(g) /\ g # NoGraph
    BY <1>1, <1>4, <1>5 DEF AtLoop, Block, AdvanceGraph, GraphDriven
  <1>7. PICK b : b = transition(o, "RUNNING", "")
    OBVIOUS
  <1>8. Milder(mem[t], b, {}) /\ b.st = "RUNNING" /\ b.ask = mem[t].ask
    BY <1>4, <1>6, <1>7, RunsMild
  <1>9. PICK away : away = Put(s, t, b)
    OBVIOUS
  <1>10. PICK ready : ready = readyAgentWorkNodes(g)
    OBVIOUS
  <1>11. PICK kids : kids = {a \in ready : g.nodes[a].who # "self"}
    OBVIOUS
  <1>12. PICK f : f = Frame("dispatch", t, SetToSeq(kids))
    OBVIOUS
  <1>13. PICK e : e = Then("settle", t)
    OBVIOUS
  <1>14. PICK r1 : r1 = Push(Persist(away, t), <<"loop">>, <<f>>)
    OBVIOUS
  <1>15. PICK r2 : r2 = Push(away, <<"loop">>, <<e>>)
    OBVIOUS
  <1> DEFINE Again(g2) == Persist(prepareTaskForQueue(Put(s, t, [o EXCEPT !.graph = g2]), <<"loop">>, t, fit), t)
  <1>16. /\ \/ Do(r1)
            \/ \E a \in ready : Do(Again(activateSelfWorkGraphNode(g, a)))
            \/ Do(r2)
            \/ Do(Again(enterWorkGraphPlan(g)))
         /\ phase' = phase
    BY <1>2, <1>4, <1>5, <1>7, <1>9, <1>10, <1>11, <1>12, <1>13, <1>14, <1>15 DEF AdvanceGraph, Stay
  <1>17. Good(r1)
    <2>1. PICK m : m = Persist(away, t)
      OBVIOUS
    <2>2. m = Persist(Put(s, t, b), t)
      BY <1>9, <2>1
    <2>3. Inv(m, phase, {}) /\ Legal(S, m) /\ m.mem[t] = b /\ m.jobs = jobs /\ Known(m, t)
      BY <1>1, <1>3, <1>8, <2>2, LoopSaves
    <2>4. IsFiniteSet(kids)
      <3>1. IsFiniteSet(DOMAIN g.nodes)
        BY <1>6 DEF GraphOK
      <3>2. kids \subseteq DOMAIN g.nodes
        BY <1>10, <1>11 DEF readyAgentWorkNodes
      <3> QED BY <3>1, <3>2, FS_Subset
    <2>5. Len(SetToSeq(kids)) \in Nat
      <3>1. SetToSeq(kids) \in Seq(kids)
        BY <2>4, Listing
      <3> QED BY <3>1
    <2>6. f.op = "dispatch" /\ f.t = t /\ f.x = SetToSeq(kids)
      BY <1>12 DEF Frame
    <2>7. Good(Push(m, <<"loop">>, <<f>>))
      BY <1>1, <1>8, <2>3, <2>5, <2>6, LoopGoesOn
    <2> QED BY <1>14, <2>1, <2>7
  <1>18. Good(r2)
    <2>1. Inv(away, phase, {}) /\ Legal(S, away) /\ away.mem[t] = b /\ away.jobs = jobs /\ Known(away, t)
      BY <1>1, <1>3, <1>8, <1>9, LoopRuns
    <2>2. e.op = "settle" /\ e.t = t
      BY <1>13 DEF Then, Frame
    <2> QED BY <1>1, <1>8, <1>15, <2>1, <2>2, LoopGoesOn
  <1>19. ASSUME NEW g2, GraphOK(g2) PROVE Good(Again(g2))
    <2>1. PICK c : c = [o EXCEPT !.graph = g2]
      OBVIOUS
    <2>2. /\ DOMAIN c = BlockFields /\ c.st = o.st /\ c.ask = o.ask /\ c.works = o.works /\ c.graph = g2
      BY <1>6, <2>1 DEF Block, BlockFields
    <2>3. Milder(o, c, {})
      BY <1>6, <1>19, <2>2, FieldMild
    <2>4. Milder(mem[t], c, {}) /\ c.st = "READY" /\ c.ask = mem[t].ask
      BY <1>1, <1>4, <2>2, <2>3 DEF AtLoop
    <2>5. Good(Persist(prepareTaskForQueue(Put(s, t, c), <<"loop">>, t, fit), t))
      BY <1>1, <1>3, <2>4, LoopQueues
    <2> QED BY <2>1, <2>5
  <1>20. (\A a : Good(Again(activateSelfWorkGraphNode(g, a)))) /\ Good(Again(enterWorkGraphPlan(g)))
    <2>1. (\A a : GraphOK(activateSelfWorkGraphNode(g, a))) /\ GraphOK(enterWorkGraphPlan(g))
      BY <1>6, GraphOps
    <2> HIDE DEF Again
    <2> QED BY <1>19, <2>1
  <1> HIDE DEF Again
  <1>21. PICK z : Do(z) /\ Good(z)
    BY <1>16, <1>17, <1>18, <1>20
  <1> QED BY <1>1, <1>16, <1>21, Closes DEF AtLoop

\* Nodes are failed, in a graph or in none.
LEMMA FailedNodes ==
  ASSUME NEW g, GraphOK(g), NEW as
  PROVE  GraphOK(failWorkGraphNodes(g, as))
  <1>1. CASE g # NoGraph
    BY <1>1, GraphOps
  <1>2. CASE g = NoGraph
    <2>1. PICK f, n, c : f = NoGraph /\ failWorkGraphNodes(g, as) = [f EXCEPT !.nodes = n, !.cur = c]
      BY <1>2 DEF failWorkGraphNodes
    <2>2. [f EXCEPT !.nodes = n, !.cur = c] = f
      BY <2>1 DEF NoGraph
    <2> QED BY <2>1, <2>2 DEF GraphOK
  <1> QED BY <1>1, <1>2

\* The loop has taken up what is left of a refused delegation, for the task t.
AtFail(s, t) ==
  /\ Outcome(S, s, <<"loop">>, phase, {}) /\ Inv(s, phase, {}) /\ Loose(s.jobs[<<"loop">>])
  /\ s.mem = mem /\ S.mem = mem /\ t \in Tasks /\ Known(s, t) /\ Block(mem[t]) /\ Free(s, t)
  /\ mem[t].st = "RUNNING" => \A j \in Jobs : HopAt(s, j, t) => Pending(mem[t])
  /\ phase # "down"

LEMMA FailTaken ==
  ASSUME IInv, At(<<"loop">>, "failnodes"), NEW t, t = jobs[<<"loop">>][1].t, NEW s, s = Pop(S, <<"loop">>)
  PROVE  AtFail(s, t)
  <1>1. PICK j : j = <<"loop">>
    OBVIOUS
  <1>2. j \in Jobs /\ j[1] = "loop" /\ \A x \in Tasks : ModelJob(x) # j /\ TurnJob(x) # j /\ ModelJob(x) \in Jobs /\ TurnJob(x) \in Jobs
    <2>1. \A x \in Tasks : ModelJob(x)[1] = "model" /\ TurnJob(x)[1] = "turn" /\ ModelJob(x) \in Jobs /\ TurnJob(x) \in Jobs
      BY JobFacts
    <2>2. j \in Jobs /\ j[1] = "loop"
      BY <1>1, JobFacts
    <2> QED BY <2>1, <2>2
  <1>3. PICK f : f = jobs[j][1]
    OBVIOUS
  <1>4. jobs[j] # <<>> /\ f.op = "failnodes" /\ jobs[j][1].op \notin Sends \cup {"resume", "cancel", "orphan"} /\ s = Pop(S, j)
        /\ f.t = t
    BY <1>1, <1>3 DEF At, Sends
  <1>5. /\ Outcome(S, s, j, phase, {}) /\ Popped(S, s, j) /\ FrameKnown(S, f) /\ FrameFits(jobs[j], 1, j, phase)
        /\ phase # "down" /\ Inv(S, phase, {}) /\ Inv(s, phase, {}) /\ Loose(s.jobs[j]) /\ s.mem = mem /\ S.mem = mem
        /\ \A x \in Tasks : Known(s, x) <=> Known(S, x)
    BY <1>2, <1>3, <1>4, TakesPlain
  <1>6. Len(jobs[j]) = 1
    BY <1>3, <1>4, <1>5 DEF FrameFits
  <1>7. Known(S, t) /\ t \in Tasks /\ Known(s, t)
    BY <1>4, <1>5 DEF FrameKnown, Nameless, Sends, Known
  <1>8. Block(mem[t])
    BY <1>5, <1>7 DEF Known, Inv, Typed
  <1>9. s.jobs[j] = <<>>
    <2>1. S.jobs[j] = jobs[j] /\ IsStack(jobs[j])
      BY <1>2, <1>5, SFacts DEF Inv, Stacks, StackOK
    <2>2. Suffix(Tail(jobs[j]), jobs[j], 1)
      BY <1>4, <2>1, SuffixTail
    <2>3. IsStack(Tail(jobs[j])) /\ Len(Tail(jobs[j])) = 0
      BY <1>6, <2>2 DEF Suffix
    <2>4. Tail(jobs[j]) = <<>>
      BY <2>3, StackFacts
    <2> QED BY <1>5, <2>1, <2>4 DEF Popped
  <1>10. InLoop(S, t)
    <2>1. S.jobs[j] = jobs[j] /\ IsStack(jobs[j])
      BY <1>2, <1>5, SFacts DEF Inv, Stacks, StackOK
    <2>2. f \in Held(S, j)
      BY <1>3, <1>6, <2>1, StackFacts DEF Held
    <2> QED BY <1>1, <1>4, <2>2 DEF InLoop, Holds
  <1>11. HandlesFor(S, t, mem[t])
    BY <1>5, <1>7 DEF Inv, Handles, HandlesOf
  <1>12. S.jobs[ModelJob(t)] = <<>> /\ ~Hot(S, t)
    BY <1>10, <1>11 DEF HandlesFor
  <1>13. s.jobs[ModelJob(t)] = S.jobs[ModelJob(t)] /\ s.jobs[TurnJob(t)] = S.jobs[TurnJob(t)]
    BY <1>2, <1>5, <1>7 DEF Popped
  <1>14. Held(s, j) = {}
    BY <1>9, SuffixNone DEF Held, ToSet
  <1>15. Free(s, t)
    <2>1. ~Looped(s, t)
      BY <1>1, <1>14 DEF Looped, Holds
    <2>2. ~Hot(s, t)
      BY <1>12, <1>13 DEF Hot, Held
    <2>3. ~Holds(s, t, TurnJob(t), {"settle", "continue"})
      BY <2>2 DEF Hot, Holds
    <2>4. ~OwnHop(s, TurnJob(t))
      <3>1. IsStack(s.jobs[TurnJob(t)])
        BY <1>2, <1>5, <1>7 DEF Inv, Stacks, StackOK
      <3>2. SUFFICES ASSUME Len(s.jobs[TurnJob(t)]) = 1, s.jobs[TurnJob(t)][1].op = "publish" PROVE FALSE
        BY DEF OwnHop
      <3>3. s.jobs[TurnJob(t)][1] \in Held(s, TurnJob(t))
        BY <3>1, <3>2, StackFacts DEF Held
      <3> QED BY <2>2, <3>2, <3>3 DEF Hot
    <2> QED BY <1>12, <1>13, <2>1, <2>3, <2>4 DEF Free
  <1>16. mem[t].st = "RUNNING" => \A i \in Jobs : HopAt(s, i, t) => Pending(mem[t])
    BY <1>5, <1>7 DEF Inv, Asks, AsksOf
  <1> QED BY <1>1, <1>5, <1>7, <1>8, <1>15, <1>16 DEF AtFail

\* FailNodes.
LEMMA FailNodesStep ==
  ASSUME IInv, NEW fit \in Fits, FailNodes(fit)
  PROVE  Onward
  <1>1. PICK j, ph, E : j = <<"loop">> /\ ph = phase /\ E = {}
    OBVIOUS
  <1>2. PICK t, nodes : t = jobs[j][1].t /\ nodes = jobs[j][1].x
    OBVIOUS
  <1>3. PICK s : s = Pop(S, j)
    OBVIOUS
  <1>4. PICK o : o = mem[t]
    OBVIOUS
  <1>5. PICK b : b = [o EXCEPT !.graph = failWorkGraphNodes(@, ToSet(nodes))]
    OBVIOUS
  <1>6. PICK c : c = IF b.st = "RUNNING" THEN transition(b, "READY", "graph_replan") ELSE b
    OBVIOUS
  <1>7. PICK r : r = Put(s, t, c)
    OBVIOUS
  <1>8. PICK q : q = IF r.mem[t].st = "READY" THEN prepareTaskForQueue(r, j, t, fit) ELSE r
    OBVIOUS
  <1>9. PICK z : z = Persist(q, t)
    OBVIOUS
  <1>10. At(j, "failnodes") /\ Do(z) /\ phase' = phase
    BY <1>1, <1>2, <1>3, <1>4, <1>5, <1>6, <1>7, <1>8, <1>9, ZenonT(30) DEF FailNodes, Stay
  <1>11. AtFail(s, t)
    BY <1>1, <1>2, <1>3, <1>10, FailTaken
  <1>12. /\ Outcome(S, s, j, ph, E) /\ Inv(s, ph, E) /\ Loose(s.jobs[j]) /\ s.mem[t] = o /\ t \in Tasks
         /\ Known(s, t) /\ Block(o) /\ Free(s, t) /\ ph # "down" /\ j \in Jobs /\ j[1] # "model"
         /\ o.st = "RUNNING" => \A i \in Jobs : HopAt(s, i, t) => Pending(o)
    BY <1>1, <1>4, <1>11, JobFacts DEF AtFail
  <1>13. Milder(o, b, E) /\ b.st = o.st /\ b.ask = o.ask /\ b.why = o.why
    <2>1. GraphOK(failWorkGraphNodes(o.graph, ToSet(nodes)))
      BY <1>12, FailedNodes DEF Block
    <2>2. DOMAIN b = BlockFields /\ b.st = o.st /\ b.why = o.why /\ b.ask = o.ask /\ b.works = o.works /\ GraphOK(b.graph)
      BY <1>5, <1>12, <2>1 DEF Block, BlockFields
    <2> QED BY <1>12, <2>2, FieldMild
  <1>14. \E K : Outcome(s, r, j, ph, K) /\ Replaced(s, t, c, r) /\ Without(K, t, E) /\ (c.st = "READY" \/ K = E)
    <2>1. CASE b.st = "RUNNING"
      <3>1. c = transition(b, "READY", "graph_replan")
        BY <1>6, <2>1
      <3>2. Resumable(s, t, b)
        <4>1. Live(s.mem[t])
          BY <1>12, <1>13, <2>1 DEF Live
        <4>2. Milder(s.mem[t], b, {}) /\ \A i \in Jobs : HopAt(s, i, t) => Pending(b)
          BY <1>1, <1>12, <1>13, <2>1 DEF Pending
        <4> QED BY <1>12, <4>1, <4>2 DEF Resumable
      <3>3. PICK why : why = "graph_replan"
        OBVIOUS
      <3>4. c = transition(b, "READY", why)
        BY <3>1, <3>3
      <3>5. Outcome(s, r, j, ph, E \cup {Late(t)}) /\ Replaced(s, t, c, r) /\ r.mem[t].st = "READY"
        BY <1>7, <1>12, <3>2, <3>4, Readies
      <3>6. c.st = "READY"
        BY <3>5 DEF Replaced
      <3>7. Without(E \cup {Late(t)}, t, E)
        BY DEF Without
      <3> QED BY <3>5, <3>6, <3>7
    <2>2. CASE b.st # "RUNNING"
      <3>1. c = b
        BY <1>6, <2>2
      <3>2. Fitting(s, {}, t, c)
        <4>1. Milder(s.mem[t], c, E) /\ c.st = s.mem[t].st /\ c.why = s.mem[t].why /\ c.ask = s.mem[t].ask
          BY <1>12, <1>13, <3>1
        <4>2. \A k \in Tasks : Born(s, k) => k \notin E
          BY <1>1
        <4> QED BY <1>12, <4>1, <4>2, FitSame
      <3>3. Fitting(s, E, t, c) /\ c.st \in {s.mem[t].st, "READY"} /\ E \subseteq E
        BY <1>1, <1>12, <1>13, <3>1, <3>2
      <3>4. Outcome(s, r, j, ph, E) /\ Replaced(s, t, c, r)
        BY <1>7, <1>12, <3>3, PutOutcome
      <3>5. Without(E, t, E)
        BY DEF Without
      <3> QED BY <3>4, <3>5
    <2> QED BY <2>1, <2>2
  <1>15. PICK K : Outcome(s, r, j, ph, K) /\ Replaced(s, t, c, r) /\ Without(K, t, E) /\ (c.st = "READY" \/ K = E)
    BY <1>14
  <1>16. Inv(r, ph, K) /\ Loose(r.jobs[j]) /\ Known(r, t) /\ r.mem[t] = c
    BY <1>12, <1>15 DEF Outcome, Replaced
  <1>17. Outcome(s, q, j, ph, E)
    <2>1. CASE c.st = "READY"
      <3>1. r.mem[t].st = "READY" /\ q = prepareTaskForQueue(r, j, t, fit)
        BY <1>8, <1>16, <2>1
      <3>2. Outcome(r, q, j, ph, E)
        BY <1>12, <1>15, <1>16, <3>1, Prepares
      <3> QED BY <1>15, <3>2, OutcomeThen
    <2>2. CASE c.st # "READY"
      BY <1>8, <1>15, <1>16, <2>2
    <2> QED BY <2>1, <2>2
  <1>18. Outcome(s, z, j, ph, E)
    <2>1. Inv(q, ph, E) /\ Loose(q.jobs[j]) /\ Known(q, t)
      BY <1>12, <1>17 DEF Outcome
    <2>2. Outcome(q, z, j, ph, E)
      BY <1>9, <1>12, <2>1, Persists
    <2> QED BY <1>17, <2>2, OutcomeThen
  <1>19. Outcome(S, z, j, phase, {})
    <2>1. Outcome(S, z, j, ph, E)
      BY <1>12, <1>18, OutcomeThen
    <2> QED BY <1>1, <2>1
  <1>20. Good(z)
    BY <1>19, OutcomeGood
  <1> QED BY <1>1, <1>10, <1>12, <1>20, Closes

----------------------------------------------------------------------------
(* The host *)

\* Every function under way waits for the provider or for a tool.
AtQuiet ==
  /\ phase = "up" /\ phase # "down" /\ Inv(S, phase, {})
  /\ <<"host">> \in Jobs /\ <<"host">>[1] = "host" /\ Loose(jobs[<<"host">>]) /\ Light(S, <<"host">>)
  /\ \A j \in Jobs : j[1] \in {"turn", "loop", "host", "timer"} => jobs[j] = <<>> /\ Held(S, j) = {}
  /\ \A j \in Jobs : \A f \in Held(S, j) : f.op \notin Sends \cup {"cancel", "notify"}
  /\ \A x : ~Born(S, x) /\ \A j \in Jobs : ~HopAt(S, j, x)
  /\ \A x \in Tasks : /\ ~Hot(S, x) /\ ~InLoop(S, x) /\ jobs[TurnJob(x)] = <<>>
                      /\ mem[x] # NoTask => Known(S, x) /\ Block(mem[x])
                      /\ jobs[ModelJob(x)] = <<>> => Free(S, x)

LEMMA QuietFacts ==
  ASSUME IInv, Quiet
  PROVE  AtQuiet
  <1>1. phase = "up" /\ phase # "down" /\ Inv(S, phase, {}) /\ AllWait
    BY DEF Quiet, IInv
  <1>2. Stacks(S, phase) /\ S.jobs = jobs /\ S.mem = mem /\ Typed(S)
    BY <1>1, SFacts DEF Inv
  <1>3. ASSUME NEW j \in Jobs
        PROVE  /\ StackOK(jobs[j], j, phase) /\ IsStack(jobs[j]) /\ Held(S, j) = ToSet(jobs[j])
               /\ \A f \in Held(S, j) : \E i \in 1 .. Len(jobs[j]) : jobs[j][i] = f /\ FrameFits(jobs[j], i, j, phase)
    <2>1. StackOK(jobs[j], j, phase) /\ IsStack(jobs[j]) /\ Held(S, j) = ToSet(jobs[j])
      BY <1>2 DEF Stacks, StackOK, Held
    <2>2. \A i \in DOMAIN jobs[j] : FrameFits(jobs[j], i, j, phase)
      BY <2>1 DEF StackOK
    <2> QED BY <2>1, <2>2, StackFacts
  <1>4. ASSUME NEW j \in Jobs, jobs[j] # <<>>
        PROVE  jobs[j][1].op \in {"model", "compact", "exec", "start"} /\ j[1] \in {"model", "call"}
    <2>1. jobs[j][1].op \in {"model", "compact", "exec", "start"}
      BY <1>1, <1>4 DEF AllWait
    <2>2. 1 \in DOMAIN jobs[j]
      BY <1>3, <1>4, StackFacts
    <2>3. FrameFits(jobs[j], 1, j, phase)
      BY <1>3, <2>2 DEF StackOK
    <2> QED BY <2>1, <2>3, Kinds
  <1>5. \A j \in Jobs : j[1] \in {"turn", "loop", "host", "timer"} => jobs[j] = <<>> /\ Held(S, j) = {}
    <2>1. \A j \in Jobs : j[1] \in {"turn", "loop", "host", "timer"} => jobs[j] = <<>>
      BY <1>4
    <2> QED BY <1>3, <2>1, SuffixNone
  <1>6. ASSUME NEW j \in Jobs, NEW f \in Held(S, j)
        PROVE  f.op \notin Sends \cup {"cancel", "notify", "publish", "advance"}
    <2>1. PICK i \in 1 .. Len(jobs[j]) : jobs[j][i] = f /\ FrameFits(jobs[j], i, j, phase)
      BY <1>3
    <2>2. jobs[j] # <<>> /\ 1 \in DOMAIN jobs[j] /\ Len(jobs[j]) \in Nat
      BY <1>3, <2>1, StackFacts
    <2>3. j[1] \in {"model", "call"} /\ jobs[j][1].op \notin Casc
      BY <1>4, <2>2 DEF Casc
    <2>4. f.op \in OpsOf(j[1])
      BY <2>1 DEF FrameFits
    <2>5. f.op \notin Sends \cup {"publish", "advance"}
      BY <2>3, <2>4 DEF OpsOf, Sends, Casc
    <2>6. f.op \in {"cancel", "notify", "failnodes"} => \A k \in 1 .. i - 1 : jobs[j][k].op \in Casc
      BY <2>1 DEF FrameFits
    <2>7. f.op \in {"cancel", "notify"} => i = 1
      BY <2>2, <2>3, <2>6
    <2>8. f.op \notin {"cancel", "notify"}
      BY <2>1, <2>3, <2>7 DEF Casc
    <2> QED BY <2>5, <2>8
  <1>7. <<"host">> \in Jobs /\ <<"host">>[1] = "host" /\ <<"loop">> \in Jobs /\ <<"loop">>[1] = "loop"
    BY JobFacts
  <1>8. Loose(jobs[<<"host">>]) /\ Light(S, <<"host">>)
    BY <1>5, <1>7 DEF Loose, Light
  <1>9. \A x : ~Born(S, x)
    BY <1>6 DEF Born, Holds
  <1>10. \A x : \A j \in Jobs : ~HopAt(S, j, x)
    <2>1. SUFFICES ASSUME NEW x, NEW j \in Jobs, HopAt(S, j, x) PROVE FALSE
      OBVIOUS
    <2>2. jobs[j] # <<>> /\ jobs[j][1].op \in {"publish", "advance"}
      BY <1>2, <2>1 DEF HopAt
    <2> QED BY <1>4, <2>2
  <1>11. ASSUME NEW x \in Tasks
         PROVE  /\ ~Hot(S, x) /\ ~InLoop(S, x) /\ jobs[TurnJob(x)] = <<>>
                /\ mem[x] # NoTask => Known(S, x) /\ Block(mem[x])
                /\ jobs[ModelJob(x)] = <<>> => Free(S, x)
    <2>1. TurnJob(x) \in Jobs /\ TurnJob(x)[1] = "turn"
      BY JobFacts
    <2>2. jobs[TurnJob(x)] = <<>> /\ Held(S, TurnJob(x)) = {} /\ Held(S, <<"loop">>) = {}
      BY <1>5, <1>7, <2>1
    <2>3. ~Hot(S, x) /\ ~InLoop(S, x) /\ ~Looped(S, x) /\ ~Holds(S, x, TurnJob(x), {"settle", "continue"})
      BY <2>2 DEF Hot, InLoop, Looped, Holds
    <2>4. ~OwnHop(S, TurnJob(x))
      <3>1. Len(<<>>) = 0
        OBVIOUS
      <3> QED BY <1>2, <2>2, <3>1 DEF OwnHop
    <2>5. mem[x] # NoTask => Known(S, x) /\ Block(mem[x])
      BY <1>2, <1>9 DEF Known, Typed
    <2>6. jobs[ModelJob(x)] = <<>> => Free(S, x)
      BY <1>2, <2>3, <2>4 DEF Free
    <2> QED BY <2>2, <2>3, <2>5, <2>6
  <1>12. \A j \in Jobs : \A f \in Held(S, j) : f.op \notin Sends \cup {"cancel", "notify"}
    BY <1>6
  <1> QED BY <1>1, <1>5, <1>7, <1>8, <1>9, <1>10, <1>11, <1>12 DEF AtQuiet

\* Cancel.
LEMMA CancelStep ==
  ASSUME IInv, NEW t \in Tasks, Cancel(t)
  PROVE  Onward
  <1>1. AtQuiet /\ Live(mem[t]) /\ Do(terminateTask(S, <<"host">>, t, "cancelled")) /\ phase' = phase
    BY QuietFacts DEF Cancel
  <1>2. PICK j, ph, E, kind : j = <<"host">> /\ ph = phase /\ E = {} /\ kind = "cancelled"
    OBVIOUS
  <1>3. Mortal(S, t)
    <2>1. mem[t] # NoTask
      BY <1>1, NoTaskFacts
    <2>2. Known(S, t) /\ S.mem = mem
      BY <1>1, <2>1, SFacts DEF AtQuiet
    <2> QED BY <1>1, <2>2 DEF Mortal
  <1>4. Inv(S, ph, E) /\ ph # "down" /\ j \in Jobs /\ j[1] # "model" /\ Loose(S.jobs[j])
    BY <1>1, <1>2, SFacts DEF AtQuiet
  <1>5. \A k \in E : k \in E \/ k = Late(t) \/ k = Lone(t)
    OBVIOUS
  <1>6. PICK r : r = terminateTask(S, j, t, kind)
    OBVIOUS
  <1>7. Inv(r, ph, E) /\ Falls(S, r)
    BY <1>3, <1>4, <1>5, <1>6, Terminates
  <1>8. Good(r)
    <2>1. Legal(S, r)
      BY <1>4, <1>7, FallsLegal
    <2> QED BY <1>2, <1>7, <2>1 DEF Good
  <1> QED BY <1>1, <1>2, <1>4, <1>6, <1>8, Closes

\* WakeTask.
LEMMA WakeTaskStep ==
  ASSUME IInv, NEW t \in Tasks, NEW fit \in Fits, WakeTask(t, fit)
  PROVE  Onward
  <1>1. /\ AtQuiet /\ mem[t] # NoTask /\ mem[t].st = "BLOCKED"
        /\ Do(Requeue(S, <<"host">>, t, appendContext(mem[t]), fit)) /\ phase' = phase
    BY QuietFacts DEF WakeTask
  <1>2. PICK j, ph, E : j = <<"host">> /\ ph = phase /\ E = {}
    OBVIOUS
  <1>3. PICK b : b = appendContext(mem[t])
    OBVIOUS
  <1>4. Known(S, t) /\ Block(mem[t]) /\ S.mem = mem /\ S.jobs = jobs /\ Live(mem[t])
    BY <1>1, SFacts DEF AtQuiet, Live
  <1>5. jobs[ModelJob(t)] = <<>>
    <2>1. HandlesFor(S, t, mem[t])
      BY <1>1, <1>4 DEF AtQuiet, Inv, Handles, HandlesOf
    <2>2. jobs[ModelJob(t)] # <<>> => mem[t].st \in {"RUNNING", "TERMINATED"}
      BY <1>4, <2>1 DEF HandlesFor
    <2> QED BY <1>1, <2>2
  <1>6. Resumable(S, t, b)
    <2>1. Free(S, t) /\ \A i \in Jobs : ~HopAt(S, i, t)
      BY <1>1, <1>5 DEF AtQuiet
    <2>2. Milder(mem[t], b, {})
      BY <1>3, <1>4, ContextMild
    <2> QED BY <1>4, <2>1, <2>2 DEF Resumable
  <1>7. Inv(S, ph, E) /\ ph # "down" /\ j \in Jobs /\ j[1] # "model" /\ Loose(S.jobs[j])
    BY <1>1, <1>2, <1>4 DEF AtQuiet
  <1>8. Without(E, t, E)
    BY DEF Without
  <1>9. PICK r : r = Requeue(S, j, t, b, fit)
    OBVIOUS
  <1>10. Outcome(S, r, j, ph, E)
    BY <1>6, <1>7, <1>8, <1>9, Requeues
  <1>11. Good(r)
    <2>1. Outcome(S, r, j, phase, {})
      BY <1>2, <1>10
    <2> QED BY <2>1, OutcomeGood
  <1> QED BY <1>1, <1>2, <1>3, <1>7, <1>9, <1>11, Closes

\* HumanDecides.
LEMMA HumanDecidesStep ==
  ASSUME IInv, NEW t \in Tasks, NEW ok \in BOOLEAN, NEW fit \in Fits, HumanDecides(t, ok, fit)
  PROVE  Onward
  <1>1. AtQuiet /\ Live(mem[t]) /\ phase' = phase
    BY QuietFacts DEF HumanDecides
  <1>2. PICK j, ph, E : j = <<"host">> /\ ph = phase /\ E = {}
    OBVIOUS
  <1>3. PICK status, grants : /\ status = IF ok THEN "granted" ELSE "denied"
                              /\ grants = IF ok THEN grantByHuman(mem[t].ask.reqs) ELSE <<>>
    OBVIOUS
  <1>4. PICK r : r = finishCapabilityRequest(S, j, t, status, grants, fit)
    OBVIOUS
  <1>5. Do(r)
    BY <1>2, <1>3, <1>4 DEF HumanDecides
  <1>6. mem[t] # NoTask
    BY <1>1, NoTaskFacts
  <1>7. Known(S, t) /\ Block(mem[t]) /\ S.mem = mem /\ S.jobs = jobs
    BY <1>1, <1>6, SFacts DEF AtQuiet
  <1>8. Waits(S.mem[t]) => Free(S, t)
    <2>1. HandlesFor(S, t, mem[t])
      BY <1>1, <1>7 DEF AtQuiet, Inv, Handles, HandlesOf
    <2>2. jobs[ModelJob(t)] # <<>> => mem[t].st \in {"RUNNING", "TERMINATED"}
      BY <1>7, <2>1 DEF HandlesFor
    <2>3. Waits(mem[t]) => jobs[ModelJob(t)] = <<>>
      BY <2>2 DEF Waits
    <2> QED BY <1>1, <1>7, <2>3 DEF AtQuiet
  <1>9. Inv(S, ph, E) /\ ph # "down" /\ j \in Jobs /\ j[1] = "host" /\ Loose(S.jobs[j]) /\ Light(S, j)
    BY <1>1, <1>2, <1>7 DEF AtQuiet
  <1>10. MayFinish(S, j, t)
    BY <1>1, <1>7, <1>8, <1>9 DEF MayFinish, AtQuiet
  <1>11. Inv(r, ph, E) /\ Falls(S, r)
    BY <1>4, <1>9, <1>10, Finishes
  <1>12. Good(r)
    <2>1. Legal(S, r)
      BY <1>9, <1>11, FallsLegal
    <2> QED BY <1>2, <1>11, <2>1 DEF Good
  <1> QED BY <1>1, <1>2, <1>5, <1>9, <1>12, Closes

\* A fresh control block.
Fresh(b) ==
  /\ Block(b) /\ b.st = "READY" /\ b.works = <<>> /\ b.ask = NoAsk

LEMMA CreatedFresh ==
  ASSUME NEW g
  PROVE  Fresh(createAgent(g))
  <1>1. DOMAIN createAgent(g) = BlockFields /\ createAgent(g).st = "READY" /\ createAgent(g).works = <<>>
        /\ createAgent(g).ask = NoAsk /\ createAgent(g).graph = NoGraph
    BY DEF createAgent, BlockFields
  <1>2. DOMAIN <<>> = {} /\ Len(<<>>) = 0 /\ 1 .. 0 = {}
    OBVIOUS
  <1>3. AskOK(NoAsk)
    BY <1>2 DEF AskOK, NoAsk, AskFields
  <1>4. GraphOK(NoGraph)
    BY DEF GraphOK
  <1> QED BY <1>1, <1>2, <1>3, <1>4 DEF Fresh, Block

LEMMA FreshFacts ==
  ASSUME NEW b, Fresh(b), NEW t
  PROVE  /\ b # NoTask /\ Live(b) /\ Marks(b) = {} /\ Owned(t, b) /\ ~Waits(b) /\ ~Pending(b)
         /\ \A k : ~Completable(b, k)
  <1>1. DOMAIN <<>> = {}
    OBVIOUS
  <1>2. b # NoTask
    BY BlockFacts DEF Fresh
  <1>3. b.ask.path = <<>> /\ b.ask.status = "none"
    BY DEF Fresh, NoAsk
  <1> QED BY <1>1, <1>2, <1>3 DEF Fresh, Live, Marks, Owned, Waits, Pending, Completable, Open

\* The host submits the root t, which is saved at once.
RootMade(r, t, b) ==
  /\ Is(r, [mem EXCEPT ![t] = b], [disk EXCEPT ![t] = b], queue, packing, timers, wake, registerRoot(pool, t), jobs)
  /\ t \in Tasks /\ Parent[t] = Orphan /\ mem[t] = NoTask /\ Fresh(b)

LEMMA RootKnown ==
  ASSUME AtQuiet, NEW r, NEW t, NEW b, RootMade(r, t, b)
  PROVE  /\ Typed(r) /\ disk[t] = NoTask /\ ~Known(S, t) /\ Known(r, t) /\ r.mem[t] = b /\ r.disk[t] = b
         /\ \A x \in Tasks : x # t => r.mem[x] = mem[x] /\ r.disk[x] = disk[x]
         /\ r.jobs = jobs /\ \A j \in Jobs : Held(r, j) = Held(S, j)
         /\ \A x : ~Born(r, x) /\ \A j \in Jobs : ~HopAt(r, j, x)
         /\ \A x : x # t => (Known(r, x) <=> Known(S, x))
         /\ r.pool.live = pool.live \cup {t}
  <1>1. /\ Inv(S, phase, {}) /\ phase # "down" /\ Typed(S) /\ S.mem = mem /\ S.disk = disk /\ S.jobs = jobs /\ S.pool = pool
    BY SFacts DEF AtQuiet, Inv
  <1>2. DOMAIN mem = Tasks /\ DOMAIN disk = Tasks /\ DOMAIN jobs = Jobs /\ DOMAIN pool = {"live", "spawned"}
    BY <1>1 DEF Typed
  <1>3. Family(S, phase)
    BY <1>1 DEF Inv
  <1>4. disk[t] = NoTask
    BY <1>1, <1>3 DEF RootMade, Family
  <1>5. t \in Tasks /\ Fresh(b) /\ Block(b) /\ b # NoTask /\ Owned(t, b)
    BY FreshFacts DEF RootMade, Fresh
  <1>6. r.mem = [mem EXCEPT ![t] = b] /\ r.disk = [disk EXCEPT ![t] = b] /\ r.jobs = jobs /\ DOMAIN r = Fields
        /\ r.pool = registerRoot(pool, t)
    BY DEF RootMade, Is
  <1>7. r.mem[t] = b /\ r.disk[t] = b /\ DOMAIN r.mem = Tasks /\ DOMAIN r.disk = Tasks
        /\ \A x \in Tasks : x # t => r.mem[x] = mem[x] /\ r.disk[x] = disk[x]
    BY <1>2, <1>5, <1>6
  <1>8. DOMAIN r.pool = {"live", "spawned"} /\ r.pool.live = pool.live \cup {t}
    BY <1>2, <1>6 DEF registerRoot
  <1>9. Typed(r)
    <2>1. \A x \in Tasks : /\ r.mem[x] = NoTask \/ Block(r.mem[x])
                           /\ r.disk[x] = NoTask \/ Block(r.disk[x])
                           /\ Owned(x, r.mem[x]) /\ Owned(x, r.disk[x])
      BY <1>1, <1>5, <1>7 DEF Typed
    <2> QED BY <1>2, <1>6, <1>7, <1>8, <2>1 DEF Typed, Fields
  <1>10. \A j \in Jobs : Held(r, j) = Held(S, j)
    BY <1>1, <1>6 DEF Held
  <1>11. \A x : Born(r, x) <=> Born(S, x)
    BY <1>10 DEF Born, Holds
  <1>12. \A x : ~Born(r, x) /\ \A j \in Jobs : ~HopAt(r, j, x)
    <2>1. \A x : ~Born(S, x) /\ \A j \in Jobs : ~HopAt(S, j, x)
      BY DEF AtQuiet
    <2>2. \A x : \A j \in Jobs : HopAt(r, j, x) <=> HopAt(S, j, x)
      BY <1>1, <1>6 DEF HopAt
    <2> QED BY <1>11, <2>1, <2>2
  <1>13. ~Known(S, t) /\ Known(r, t)
    BY <1>1, <1>5, <1>7, <1>12 DEF Known, RootMade
  <1>14. \A x : x # t => (Known(r, x) <=> Known(S, x))
    BY <1>1, <1>7, <1>11 DEF Known
  <1> QED BY <1>4, <1>6, <1>7, <1>8, <1>9, <1>10, <1>12, <1>13, <1>14

LEMMA RootRegistered ==
  ASSUME AtQuiet, NEW r, NEW t, NEW b, RootMade(r, t, b), NEW L, L = {Late(t)}
  PROVE  Inv(r, phase, L)
  <1>1. /\ Inv(S, phase, {}) /\ phase # "down" /\ Typed(S) /\ S.mem = mem /\ S.disk = disk /\ S.jobs = jobs /\ S.pool = pool
        /\ S.queue = queue /\ S.packing = packing /\ S.timers = timers /\ S.wake = wake
    BY SFacts DEF AtQuiet, Inv
  <1>2. t \in Tasks /\ Parent[t] = Orphan /\ mem[t] = NoTask /\ b # NoTask /\ Live(b) /\ b.st = "READY" /\ Block(b)
        /\ Marks(b) = {} /\ ~Waits(b)
    BY FreshFacts DEF RootMade, Fresh
  <1>3. /\ Typed(r) /\ disk[t] = NoTask /\ ~Known(S, t) /\ Known(r, t) /\ r.mem[t] = b /\ r.disk[t] = b
        /\ \A x \in Tasks : x # t => r.mem[x] = mem[x] /\ r.disk[x] = disk[x]
        /\ r.jobs = jobs /\ \A j \in Jobs : Held(r, j) = Held(S, j)
        /\ \A x : ~Born(r, x) /\ \A j \in Jobs : ~HopAt(r, j, x)
        /\ \A x : x # t => (Known(r, x) <=> Known(S, x))
        /\ r.pool.live = pool.live \cup {t}
    BY RootKnown
  <1>4. r.queue = queue /\ r.packing = packing /\ r.timers = timers /\ r.wake = wake
    BY DEF RootMade, Is
  <1>5. Stacks(r, phase)
    BY <1>1, <1>3 DEF Inv, Stacks
  <1>6. FramesKnown(r)
    <2>1. SUFFICES ASSUME NEW j \in Jobs, NEW f \in Held(r, j) PROVE FrameKnown(r, f)
      BY DEF FramesKnown
    <2>2. FrameKnown(S, f) /\ f.op \notin {"cancel", "notify"}
      BY <1>1, <1>3, <2>1 DEF Inv, FramesKnown, AtQuiet
    <2>3. \A x : Known(S, x) => Known(r, x)
      BY <1>3
    <2> QED BY <2>2, <2>3 DEF FrameKnown
  <1>7. ListsKnown(r)
    <2>1. \A x \in queue \cup packing \cup timers \cup wake : Known(S, x)
      BY <1>1 DEF Inv, ListsKnown
    <2> QED BY <1>3, <1>4, <2>1 DEF ListsKnown
  <1>8. Family(r, phase)
    <2>1. Family(S, phase)
      BY <1>1 DEF Inv
    <2>2. ASSUME NEW x \in Tasks
          PROVE  /\ r.mem[x] # NoTask /\ Parent[x] # Orphan => Known(r, Parent[x])
                 /\ r.disk[x] # NoTask /\ Parent[x] # Orphan => r.disk[Parent[x]] # NoTask
                 /\ r.disk[x] # NoTask /\ r.mem[x] = NoTask => Parent[x] # Orphan /\ ~Live(r.mem[Parent[x]])
      <3>1. CASE x = t
        BY <1>2, <1>3, <3>1
      <3>2. CASE x # t
        <4>1. r.mem[x] = mem[x] /\ r.disk[x] = disk[x]
          BY <1>3, <3>2
        <4>2. mem[x] # NoTask /\ Parent[x] # Orphan => Known(S, Parent[x])
          BY <1>1, <2>1 DEF Family
        <4>3. disk[x] # NoTask /\ Parent[x] # Orphan => disk[Parent[x]] # NoTask
          BY <1>1, <2>1 DEF Family
        <4>4. disk[x] # NoTask /\ mem[x] = NoTask => Parent[x] # Orphan /\ ~Live(mem[Parent[x]])
          BY <1>1, <2>1 DEF Family
        <4>5. Parent[x] # Orphan => Parent[x] \in Tasks
          BY TaskAssumption
        <4>6. disk[x] # NoTask /\ Parent[x] # Orphan => Parent[x] # t
          BY <1>3, <4>3
        <4> QED BY <1>2, <1>3, <4>1, <4>2, <4>3, <4>4, <4>5, <4>6
      <3> QED BY <3>1, <3>2
    <2> QED BY <2>2 DEF Family
  <1>9. Newborns(r)
    BY <1>3 DEF Newborns, AtQuiet
  <1>10. Saved(r, phase)
    <2>1. ASSUME NEW x \in Tasks, Known(r, x)
          PROVE  /\ r.disk[x] # NoTask /\ r.disk[x].ask.n = r.mem[x].ask.n /\ r.disk[x].ask.path = r.mem[x].ask.path
                 /\ r.disk[x].ask.hop <= r.mem[x].ask.hop
      <3>1. CASE x = t
        <4>1. b.ask.hop <= b.ask.hop
          BY <1>2, BlockFacts
        <4> QED BY <1>2, <1>3, <3>1, <4>1
      <3>2. CASE x # t
        <4>1. Known(S, x) /\ r.mem[x] = mem[x] /\ r.disk[x] = disk[x]
          BY <1>3, <2>1, <3>2
        <4>2. Saved(S, phase)
          BY <1>1 DEF Inv
        <4> QED BY <1>1, <4>1, <4>2 DEF Saved
      <3> QED BY <3>1, <3>2
    <2> QED BY <2>1 DEF Saved
  <1>11. Books(r)
    <2>1. pool.live = {x \in Tasks : Live(mem[x])} /\ queue \cap packing = {} /\ \A x \in queue \cup packing : mem[x].st = "READY"
      BY <1>1 DEF Inv, Books
    <2>2. r.pool.live = {x \in Tasks : Live(r.mem[x])}
      BY <1>2, <1>3, <2>1
    <2>3. \A x \in queue \cup packing : x \in Tasks
      BY <1>1 DEF Inv, ListsKnown, Known
    <2> QED BY <1>2, <1>3, <1>4, <2>1, <2>2, <2>3 DEF Books
  <1>12. Listed(r, L)
    <2>1. Listed(S, {})
      BY <1>1 DEF Inv
    <2>2. ASSUME NEW x \in Tasks, r.mem[x].st = "READY", x # t
          PROVE  ListedTask(r, x)
      <3>1. mem[x].st = "READY"
        BY <1>3, <2>2
      <3>2. ListedTask(S, x)
        BY <1>1, <2>1, <3>1 DEF Listed
      <3>3. Holds(S, x, <<"host">>, {"resume"}) => Holds(r, x, <<"host">>, {"resume"})
        BY <1>3, JobFacts DEF Holds
      <3>4. ~Born(S, x)
        BY DEF AtQuiet
      <3> QED BY <1>1, <1>4, <3>2, <3>3, <3>4 DEF ListedTask
    <2> QED BY <2>2 DEF Listed
  <1>13. Handles(r)
    <2>1. ASSUME NEW x \in Tasks PROVE HandlesFor(r, x, r.mem[x])
      <3>1. ~Hot(r, x) /\ ~InLoop(r, x)
        <4>1. Held(r, TurnJob(x)) = Held(S, TurnJob(x)) /\ Held(r, <<"loop">>) = Held(S, <<"loop">>)
          BY <1>3, JobFacts
        <4>2. ~Hot(S, x) /\ ~InLoop(S, x)
          BY DEF AtQuiet
        <4> QED BY <4>1, <4>2 DEF Hot, InLoop, Holds
      <3>2. ~Looped(r, x)
        BY <3>1 DEF InLoop, Looped, Holds
      <3>3. ~Holds(r, x, TurnJob(x), {"settle"}) /\ ~Holds(r, x, TurnJob(x), {"continue"})
        BY <3>1 DEF Hot, Holds
      <3>4. ~OwnHop(r, TurnJob(x))
        <4>1. Len(<<>>) = 0 /\ jobs[TurnJob(x)] = <<>>
          BY DEF AtQuiet
        <4> QED BY <1>3, <4>1 DEF OwnHop
      <3>5. r.jobs[ModelJob(x)] # <<>> => r.mem[x].st \in {"RUNNING", "TERMINATED"}
        <4>1. CASE x = t
          <5>1. SUFFICES ASSUME jobs[ModelJob(t)] # <<>> PROVE FALSE
            BY <1>3, <4>1
          <5>2. PICK j : j = ModelJob(t)
            OBVIOUS
          <5>3. j \in Jobs /\ j[1] = "model" /\ j[2] = t
            BY <1>2, <5>2, JobFacts
          <5>4. StackOK(jobs[j], j, phase) /\ IsStack(jobs[j])
            BY <1>1, <5>3 DEF Inv, Stacks, StackOK
          <5>5. 1 \in DOMAIN jobs[j] /\ jobs[j][1] \in ToSet(jobs[j])
            BY <5>1, <5>2, <5>4, StackFacts
          <5>6. FrameFits(jobs[j], 1, j, phase)
            BY <5>4, <5>5 DEF StackOK
          <5>7. jobs[j][1].op \in {"model", "compact"}
            BY <5>3, <5>6 DEF FrameFits, OpsOf
          <5>8. jobs[j][1].t = t
            BY <5>3, <5>6, <5>7 DEF FrameFits
          <5>9. FrameKnown(S, jobs[j][1])
            BY <1>1, <5>3, <5>5 DEF Inv, FramesKnown, Held
          <5>10. Known(S, t)
            BY <5>7, <5>8, <5>9 DEF FrameKnown, Nameless, Sends
          <5> QED BY <1>3, <5>10
        <4>2. CASE x # t
          <5>1. HandlesFor(S, x, mem[x])
            BY <1>1 DEF Inv, Handles, HandlesOf
          <5> QED BY <1>1, <1>3, <4>2, <5>1 DEF HandlesFor
        <4> QED BY <4>1, <4>2
      <3> QED BY <3>1, <3>2, <3>3, <3>4, <3>5 DEF HandlesFor
    <2> QED BY <2>1 DEF Handles, HandlesOf
  <1>14. Asks(r)
    <2>1. ASSUME NEW x \in Tasks PROVE AsksOf(r, x)
      <3>1. \A j \in Jobs : ~HopAt(r, j, x)
        BY <1>3
      <3>2. ~Holds(r, x, TurnJob(x), {"settle"})
        <4>1. Held(r, TurnJob(x)) = Held(S, TurnJob(x))
          BY <1>3, JobFacts
        <4>2. ~Hot(S, x)
          BY DEF AtQuiet
        <4> QED BY <4>1, <4>2 DEF Hot, Holds
      <3> QED BY <3>1, <3>2 DEF AsksOf
    <2> QED BY <2>1 DEF Asks
  <1>15. Told(r)
    <2>0. Told(S)
      BY <1>1 DEF Inv
    <2>1. ASSUME NEW p, NEW i, NEW ref, MarkOK(S, p, i, ref) PROVE MarkOK(r, p, i, ref)
      <3>1. PICK c : c = ref[1]
        OBVIOUS
      <3>2. c \in Tasks /\ disk[c] # NoTask
        BY <1>1, <2>1, <3>1 DEF MarkOK
      <3>3. r.disk[c] = S.disk[c]
        BY <1>1, <1>3, <3>2
      <3> QED BY <2>1, <3>1, <3>3 DEF MarkOK
    <2>2. ASSUME NEW p \in Tasks, r.disk[p] # NoTask, NEW i \in Marks(r.disk[p])
          PROVE  MarkOK(r, p, i, r.disk[p].works[i].ref)
      <3>1. p # t
        BY <1>2, <1>3, <2>2
      <3>2. r.disk[p] = S.disk[p]
        BY <1>1, <1>3, <3>1
      <3>3. MarkOK(S, p, i, S.disk[p].works[i].ref)
        BY <2>0, <2>2, <3>2 DEF Told
      <3> QED BY <2>1, <3>2, <3>3
    <2>3. ASSUME NEW p \in Tasks, r.mem[p] # NoTask, NEW i \in Marks(r.mem[p])
          PROVE  MarkOK(r, p, i, r.mem[p].works[i].ref)
      <3>1. p # t
        BY <1>2, <1>3, <2>3
      <3>2. r.mem[p] = S.mem[p]
        BY <1>1, <1>3, <3>1
      <3>3. MarkOK(S, p, i, S.mem[p].works[i].ref)
        BY <2>0, <2>3, <3>2 DEF Told
      <3> QED BY <2>1, <3>2, <3>3
    <2> QED BY <1>3, <2>2, <2>3 DEF Told
  <1>16. Orphans(r, L)
    <2>1. ASSUME NEW k \in Tasks, Live(r.mem[k]), Parent[k] # Orphan, ~Live(r.mem[Parent[k]])
          PROVE  \/ \E j \in Jobs : \E f \in Held(r, j) : f.op = "cancel" /\ k \in ToSet(f.x)
                 \/ Holds(r, k, <<"host">>, {"orphan"})
      <3>1. k # t /\ Parent[k] # t
        BY <1>2, <1>3, <2>1
      <3>2. Parent[k] \in Tasks
        BY <2>1, TaskAssumption
      <3>3. Live(mem[k]) /\ ~Live(mem[Parent[k]])
        BY <1>3, <2>1, <3>1, <3>2
      <3>4. Orphans(S, {})
        BY <1>1 DEF Inv
      <3>5. \/ \E j \in Jobs : \E f \in Held(S, j) : f.op = "cancel" /\ k \in ToSet(f.x)
            \/ Holds(S, k, <<"host">>, {"orphan"})
        BY <1>1, <2>1, <3>3, <3>4 DEF Orphans
      <3>6. Held(r, <<"host">>) = Held(S, <<"host">>)
        BY <1>3, JobFacts
      <3> QED BY <1>3, <3>5, <3>6 DEF Holds
    <2> QED BY <2>1 DEF Orphans
  <1> QED BY <1>3, <1>5, <1>6, <1>7, <1>8, <1>9, <1>10, <1>11, <1>12, <1>13, <1>14, <1>15, <1>16 DEF Inv

\* b differs from a at most in the snapshot of t.
AlikeBut(a, b, t) ==
  /\ Is(b, a.mem, b.disk, a.queue, a.packing, a.timers, a.wake, a.pool, a.jobs)
  /\ DOMAIN a = Fields /\ DOMAIN a.disk = Tasks /\ DOMAIN b.disk = Tasks /\ DOMAIN a.mem = Tasks
  /\ \A x \in Tasks : x # t => b.disk[x] = a.disk[x]

\* The snapshot of t matters to none of the functions that save t in the end.
LEMMA TerminatesAlike ==
  ASSUME NEW a, NEW b, NEW t \in Tasks, AlikeBut(a, b, t), NEW j, NEW kind
  PROVE  AlikeBut(terminateTask(a, j, t, kind), terminateTask(b, j, t, kind), t)
  <1>1. /\ DOMAIN a = Fields /\ DOMAIN b = Fields /\ a.mem = b.mem /\ a.queue = b.queue /\ a.packing = b.packing
        /\ a.timers = b.timers /\ a.wake = b.wake /\ a.pool = b.pool /\ a.jobs = b.jobs
        /\ DOMAIN a.mem = Tasks /\ DOMAIN a.disk = Tasks /\ DOMAIN b.disk = Tasks
        /\ \A x \in Tasks : x # t => b.disk[x] = a.disk[x]
    BY DEF AlikeBut, Is
  <1>2. CASE a.mem[t].st = "TERMINATED"
    BY <1>1, <1>2 DEF terminateTask
  <1>3. CASE a.mem[t].st # "TERMINATED"
    <2>1. PICK c : c = transition(denyPendingCapabilityRequests(a.mem[t]), "TERMINATED", kind)
      OBVIOUS
    <2>2. PICK p : p = <<Frame("cancel", t, SetToSeq(childrenOf(a.pool, t))), Frame("notify", t, <<kind>>)>>
      OBVIOUS
    <2> DEFINE Shed(s) == [s EXCEPT !.queue = @ \ {t}, !.packing = @ \ {t}, !.timers = @ \ {t}, !.wake = @ \ {t},
                                    !.pool = release(@, t)]
    <2>3. ASSUME NEW s, DOMAIN s = Fields, s.mem = a.mem, s.pool = a.pool
          PROVE  terminateTask(s, j, t, kind) = Push(Persist(Put(Shed(s), t, c), t), j, p)
      BY <1>3, <2>1, <2>2, <2>3, Zenon DEF terminateTask
    <2>4. ASSUME NEW s, DOMAIN s = Fields, s.mem = a.mem, DOMAIN s.disk = Tasks
          PROVE  LET r == Push(Persist(Put(Shed(s), t, c), t), j, p) IN
                 Is(r, [s.mem EXCEPT ![t] = c], [s.disk EXCEPT ![t] = c], s.queue \ {t}, s.packing \ {t},
                    s.timers \ {t}, s.wake \ {t}, release(s.pool, t), [s.jobs EXCEPT ![j] = p \o @])
      <3>1. PICK s1 : s1 = Shed(s)
        OBVIOUS
      <3>2. Is(s1, s.mem, s.disk, s.queue \ {t}, s.packing \ {t}, s.timers \ {t}, s.wake \ {t}, release(s.pool, t), s.jobs)
        BY <2>4, <3>1 DEF Is, Fields
      <3>3. PICK s2 : s2 = Put(s1, t, c)
        OBVIOUS
      <3>4. Is(s2, [s1.mem EXCEPT ![t] = c], s1.disk, s1.queue, s1.packing, s1.timers, s1.wake, s1.pool, s1.jobs)
        <4>1. DOMAIN s1 = Fields
          BY <3>2 DEF Is
        <4> QED BY <3>3, <4>1, Shapes
      <3>5. PICK s3 : s3 = Persist(s2, t)
        OBVIOUS
      <3>6. Is(s3, s2.mem, [s2.disk EXCEPT ![t] = s2.mem[t]], s2.queue, s2.packing, s2.timers, s2.wake, s2.pool, s2.jobs)
        <4>1. DOMAIN s2 = Fields
          BY <3>4 DEF Is
        <4> QED BY <3>5, <4>1, Shapes
      <3>7. PICK r : r = Push(s3, j, p)
        OBVIOUS
      <3>8. Is(r, s3.mem, s3.disk, s3.queue, s3.packing, s3.timers, s3.wake, s3.pool, [s3.jobs EXCEPT ![j] = p \o @])
        <4>1. DOMAIN s3 = Fields
          BY <3>6 DEF Is
        <4> QED BY <3>7, <4>1, Shapes
      <3>9. s2.mem[t] = c
        BY <1>1, <2>4, <3>2, <3>4 DEF Is
      <3>10. Is(r, [s.mem EXCEPT ![t] = c], [s.disk EXCEPT ![t] = c], s.queue \ {t}, s.packing \ {t},
                    s.timers \ {t}, s.wake \ {t}, release(s.pool, t), [s.jobs EXCEPT ![j] = p \o @])
        BY <3>2, <3>4, <3>6, <3>8, <3>9 DEF Is
      <3> HIDE DEF Shed
      <3> QED BY <3>1, <3>3, <3>5, <3>7, <3>10
    <2> HIDE DEF Shed
    <2>5. PICK ra, rb : ra = terminateTask(a, j, t, kind) /\ rb = terminateTask(b, j, t, kind)
      OBVIOUS
    <2>6. Is(ra, [a.mem EXCEPT ![t] = c], [a.disk EXCEPT ![t] = c], a.queue \ {t}, a.packing \ {t},
                    a.timers \ {t}, a.wake \ {t}, release(a.pool, t), [a.jobs EXCEPT ![j] = p \o @])
      BY <1>1, <2>3, <2>4, <2>5
    <2>7. Is(rb, [b.mem EXCEPT ![t] = c], [b.disk EXCEPT ![t] = c], b.queue \ {t}, b.packing \ {t},
                    b.timers \ {t}, b.wake \ {t}, release(b.pool, t), [b.jobs EXCEPT ![j] = p \o @])
      BY <1>1, <2>3, <2>4, <2>5
    <2>8. AlikeBut(ra, rb, t)
      <3>1. Is(rb, ra.mem, rb.disk, ra.queue, ra.packing, ra.timers, ra.wake, ra.pool, ra.jobs)
        BY <1>1, <2>6, <2>7 DEF Is
      <3>2. ra.disk = [a.disk EXCEPT ![t] = c] /\ rb.disk = [b.disk EXCEPT ![t] = c] /\ DOMAIN ra = Fields
            /\ ra.mem = [a.mem EXCEPT ![t] = c]
        BY <2>6, <2>7 DEF Is
      <3>3. DOMAIN ra.disk = Tasks /\ DOMAIN rb.disk = Tasks /\ DOMAIN ra.mem = Tasks
            /\ \A x \in Tasks : x # t => rb.disk[x] = ra.disk[x]
        BY <1>1, <3>2
      <3> QED BY <3>1, <3>2, <3>3 DEF AlikeBut
    <2> QED BY <2>5, <2>8
  <1> QED BY <1>2, <1>3

LEMMA PreparesAlike ==
  ASSUME NEW a, NEW b, NEW t \in Tasks, AlikeBut(a, b, t), NEW j, NEW fit \in Fits
  PROVE  AlikeBut(prepareTaskForQueue(a, j, t, fit), prepareTaskForQueue(b, j, t, fit), t)
  <1>1. /\ DOMAIN a = Fields /\ DOMAIN b = Fields /\ a.mem = b.mem /\ a.queue = b.queue /\ a.packing = b.packing
        /\ a.timers = b.timers /\ a.wake = b.wake /\ a.pool = b.pool /\ a.jobs = b.jobs
        /\ DOMAIN a.mem = Tasks /\ DOMAIN a.disk = Tasks /\ DOMAIN b.disk = Tasks
        /\ \A x \in Tasks : x # t => b.disk[x] = a.disk[x]
    BY DEF AlikeBut, Is
  <1> DEFINE Out(s) == [s EXCEPT !.queue = @ \ {t}, !.packing = @ \ {t}]
  <1>2. fit \in {"fits", "packs", "over"}
    BY TaskAssumption
  <1>3. \A s : DOMAIN s = Fields =>
          Is(Out(s), s.mem, s.disk, s.queue \ {t}, s.packing \ {t}, s.timers, s.wake, s.pool, s.jobs)
    BY DEF Is, Fields
  <1>4. AlikeBut(Out(a), Out(b), t)
    <2>1. Is(Out(a), a.mem, a.disk, a.queue \ {t}, a.packing \ {t}, a.timers, a.wake, a.pool, a.jobs)
      BY <1>1, <1>3
    <2>2. Is(Out(b), b.mem, b.disk, b.queue \ {t}, b.packing \ {t}, b.timers, b.wake, b.pool, b.jobs)
      BY <1>1, <1>3
    <2> HIDE DEF Out
    <2> QED BY <1>1, <2>1, <2>2 DEF Is, AlikeBut
  <1>5. CASE fit = "fits"
    <2>1. prepareTaskForQueue(a, j, t, fit) = [Out(a) EXCEPT !.queue = @ \cup {t}]
          /\ prepareTaskForQueue(b, j, t, fit) = [Out(b) EXCEPT !.queue = @ \cup {t}]
      BY <1>5 DEF prepareTaskForQueue
    <2> HIDE DEF Out
    <2>2. PICK oa, ob : oa = Out(a) /\ ob = Out(b)
      OBVIOUS
    <2>3. AlikeBut([oa EXCEPT !.queue = @ \cup {t}], [ob EXCEPT !.queue = @ \cup {t}], t)
      BY <1>4, <2>2 DEF AlikeBut, Is, Fields
    <2> QED BY <2>1, <2>2, <2>3
  <1>6. CASE fit = "packs" /\ ~a.mem[t].packed
    <2>1. prepareTaskForQueue(a, j, t, fit) = [Out(a) EXCEPT !.packing = @ \cup {t}]
          /\ prepareTaskForQueue(b, j, t, fit) = [Out(b) EXCEPT !.packing = @ \cup {t}]
      BY <1>1, <1>6 DEF prepareTaskForQueue
    <2> HIDE DEF Out
    <2>2. PICK oa, ob : oa = Out(a) /\ ob = Out(b)
      OBVIOUS
    <2>3. AlikeBut([oa EXCEPT !.packing = @ \cup {t}], [ob EXCEPT !.packing = @ \cup {t}], t)
      BY <1>4, <2>2 DEF AlikeBut, Is, Fields
    <2> QED BY <2>1, <2>2, <2>3
  <1>7. CASE fit = "over" \/ (fit = "packs" /\ a.mem[t].packed)
    <2>1. prepareTaskForQueue(a, j, t, fit) = terminateTask(Out(a), j, t, "failed")
          /\ prepareTaskForQueue(b, j, t, fit) = terminateTask(Out(b), j, t, "failed")
      BY <1>1, <1>7, Zenon DEF prepareTaskForQueue
    <2> HIDE DEF Out
    <2> QED BY <1>4, <2>1, TerminatesAlike
  <1> QED BY <1>2, <1>5, <1>6, <1>7

LEMMA SavedAlike ==
  ASSUME NEW a, NEW b, NEW t \in Tasks, AlikeBut(a, b, t), NEW ph, NEW L, NEW z, z = Persist(a, t), NEW y, y = Persist(b, t),
         Inv(z, ph, L)
  PROVE  Inv(y, ph, L) /\ y.mem = z.mem
  <1>1. DOMAIN a = Fields /\ DOMAIN b = Fields
    BY DEF AlikeBut, Is
  <1>2. /\ Is(z, a.mem, [a.disk EXCEPT ![t] = a.mem[t]], a.queue, a.packing, a.timers, a.wake, a.pool, a.jobs)
        /\ Is(y, b.mem, [b.disk EXCEPT ![t] = b.mem[t]], b.queue, b.packing, b.timers, b.wake, b.pool, b.jobs)
    BY <1>1, Shapes
  <1>3. [a.disk EXCEPT ![t] = a.mem[t]] = [b.disk EXCEPT ![t] = b.mem[t]]
    BY DEF AlikeBut, Is
  <1>4. Is(y, z.mem, z.disk, z.queue, z.packing, z.timers, z.wake, z.pool, z.jobs)
    BY <1>2, <1>3 DEF Is, AlikeBut
  <1>5. /\ \A x \in z.queue \cup z.packing \cup z.timers \cup z.wake : Known(z, x)
        /\ z.queue \cap z.packing = {} /\ \A x \in z.queue \cup z.packing : z.mem[x].st = "READY"
    BY DEF Inv, ListsKnown, Books
  <1>6. PICK qu, pk, ti, wk : qu = z.queue /\ pk = z.packing /\ ti = z.timers /\ wk = z.wake
    OBVIOUS
  <1>7. Inv(y, ph, L)
    <2>1. Is(y, z.mem, z.disk, qu, pk, ti, wk, z.pool, z.jobs)
      BY <1>4, <1>6
    <2>2. \A x \in qu \cup pk \cup ti \cup wk : Known(z, x)
      BY <1>5, <1>6
    <2>3. qu \cap pk = {} /\ (\A x \in qu \cup pk : z.mem[x].st = "READY")
          /\ \A x \in z.queue \cup z.packing : x \in qu \cup pk
      BY <1>5, <1>6
    <2> QED BY <2>1, <2>2, <2>3, Lists
  <1> QED BY <1>4, <1>7 DEF Is

\* Submit.
LEMMA SubmitStep ==
  ASSUME IInv, NEW t \in Tasks, NEW fit \in Fits, Submit(t, fit)
  PROVE  Onward
  <1>1. AtQuiet /\ Parent[t] = Orphan /\ mem[t] = NoTask /\ phase' = phase
    BY QuietFacts DEF Submit, Stay
  <1>2. PICK j, ph, L, K : j = <<"host">> /\ ph = phase /\ L = {Late(t)} /\ K = {}
    OBVIOUS
  <1>3. PICK b : b = createAgent(issueRootGrants(RootGrants[t]))
    OBVIOUS
  <1>4. PICK s0 : s0 = [S EXCEPT !.pool = registerRoot(@, t)]
    OBVIOUS
  <1>5. PICK s1 : s1 = Put(s0, t, b)
    OBVIOUS
  <1>6. PICK s2 : s2 = prepareTaskForQueue(s1, j, t, fit)
    OBVIOUS
  <1>7. PICK z : z = Persist(s2, t)
    OBVIOUS
  <1>8. Do(z)
    BY <1>2, <1>3, <1>4, <1>5, <1>6, <1>7 DEF Submit
  <1>9. Is(s0, mem, disk, queue, packing, timers, wake, registerRoot(pool, t), jobs) /\ DOMAIN s0 = Fields
    BY <1>4, SFacts DEF Is, Fields
  <1>10. Is(s1, [mem EXCEPT ![t] = b], disk, queue, packing, timers, wake, registerRoot(pool, t), jobs) /\ DOMAIN s1 = Fields
    <2>1. Is(s1, [s0.mem EXCEPT ![t] = b], s0.disk, s0.queue, s0.packing, s0.timers, s0.wake, s0.pool, s0.jobs)
      BY <1>5, <1>9, Shapes
    <2> QED BY <1>9, <2>1 DEF Is
  <1>11. PICK r1 : r1 = Persist(s1, t)
    OBVIOUS
  <1>12. DOMAIN mem = Tasks /\ DOMAIN disk = Tasks
    BY <1>1, SFacts DEF AtQuiet, Inv, Typed
  <1>13. s1.mem[t] = b
    BY <1>10, <1>12 DEF Is
  <1>14. Is(r1, [mem EXCEPT ![t] = b], [disk EXCEPT ![t] = b], queue, packing, timers, wake, registerRoot(pool, t), jobs)
    <2>1. Is(r1, s1.mem, [s1.disk EXCEPT ![t] = s1.mem[t]], s1.queue, s1.packing, s1.timers, s1.wake, s1.pool, s1.jobs)
      BY <1>10, <1>11, Shapes
    <2> QED BY <1>10, <1>13, <2>1 DEF Is
  <1>15. Fresh(b)
    BY <1>3, CreatedFresh
  <1>16. RootMade(r1, t, b)
    BY <1>1, <1>14, <1>15 DEF RootMade
  <1>17. Inv(r1, ph, L) /\ Known(r1, t) /\ r1.mem[t].st = "READY" /\ r1.jobs = jobs
    <2>1. Inv(r1, phase, L)
      BY <1>1, <1>2, <1>16, RootRegistered
    <2>2. Known(r1, t) /\ r1.mem[t] = b /\ r1.jobs = jobs
      BY <1>1, <1>16, RootKnown
    <2> QED BY <1>2, <1>15, <2>1, <2>2 DEF Fresh
  <1>18. PICK r2 : r2 = prepareTaskForQueue(r1, j, t, fit)
    OBVIOUS
  <1>19. ph # "down" /\ j \in Jobs /\ j[1] # "model" /\ Loose(r1.jobs[j]) /\ Without(L, t, K)
    BY <1>1, <1>2, <1>17 DEF AtQuiet, Without
  <1>20. Outcome(r1, r2, j, ph, K)
    BY <1>17, <1>18, <1>19, Prepares
  <1>21. PICK r3 : r3 = Persist(r2, t)
    OBVIOUS
  <1>22. Outcome(r2, r3, j, ph, K) /\ r3.mem = r2.mem
    <2>1. Inv(r2, ph, K) /\ Known(r2, t) /\ Loose(r2.jobs[j])
      BY <1>17, <1>20 DEF Outcome
    <2> QED BY <1>19, <1>21, <2>1, Persists
  <1>23. AlikeBut(r1, s1, t)
    <2>1. Is(s1, r1.mem, s1.disk, r1.queue, r1.packing, r1.timers, r1.wake, r1.pool, r1.jobs)
      BY <1>10, <1>14 DEF Is
    <2>2. r1.disk = [disk EXCEPT ![t] = b] /\ s1.disk = disk /\ DOMAIN r1 = Fields /\ r1.mem = [mem EXCEPT ![t] = b]
      BY <1>10, <1>14 DEF Is
    <2>3. DOMAIN r1.disk = Tasks /\ DOMAIN s1.disk = Tasks /\ DOMAIN r1.mem = Tasks
          /\ \A x \in Tasks : x # t => s1.disk[x] = r1.disk[x]
      BY <1>12, <2>2
    <2> QED BY <2>1, <2>2, <2>3 DEF AlikeBut
  <1>24. AlikeBut(r2, s2, t)
    BY <1>6, <1>18, <1>23, PreparesAlike
  <1>25. Inv(z, ph, K) /\ z.mem = r3.mem
    BY <1>7, <1>21, <1>22, <1>24, SavedAlike DEF Outcome
  <1>26. Legal(S, z)
    <2>1. Legal(r1, r2)
      BY <1>17, <1>20, FallsLegal DEF Outcome
    <2>2. r1.mem = [mem EXCEPT ![t] = b]
      BY <1>14 DEF Is
    <2>3. \A x \in Tasks : x # t => r1.mem[x] = mem[x]
      BY <1>12, <2>2
    <2>4. S.mem = mem /\ z.mem = r2.mem
      BY <1>22, <1>25, SFacts
    <2> QED BY <1>1, <2>1, <2>3, <2>4 DEF Legal
  <1>27. Good(z)
    BY <1>2, <1>25, <1>26 DEF Good
  <1> QED BY <1>1, <1>2, <1>8, <1>19, <1>27, Closes

----------------------------------------------------------------------------
(* Crash and restart *)

\* While the process boots, no request is under way and the loop rests.
Boots == phase = "boot" =>
  \A j \in Jobs : j[1] \in {"model", "turn", "loop"} => jobs[j] = <<>>

LEMMA BootFree ==
  ASSUME Boots, phase = "boot", NEW s, \A j \in Jobs : j[1] \in {"model", "turn", "loop"} => s.jobs[j] = jobs[j],
         NEW t \in Tasks
  PROVE  Free(s, t) /\ \A j \in Jobs : j[1] \in {"model", "turn", "loop"} => s.jobs[j] = <<>>
  <1>1. \A j \in Jobs : j[1] \in {"model", "turn", "loop"} => s.jobs[j] = <<>>
    BY DEF Boots
  <1>2. s.jobs[ModelJob(t)] = <<>> /\ s.jobs[TurnJob(t)] = <<>> /\ s.jobs[<<"loop">>] = <<>>
    BY <1>1, JobFacts
  <1>3. Held(s, TurnJob(t)) = {} /\ Held(s, <<"loop">>) = {}
    <2>1. IsStack(<<>>) /\ ToSet(<<>>) = {}
      BY OneFrame, SuffixNone
    <2> QED BY <1>2, <2>1 DEF Held
  <1>4. ~Holds(s, t, <<"loop">>, {"dispatch", "settle"}) /\ ~Holds(s, t, TurnJob(t), {"settle", "continue"})
    BY <1>3 DEF Holds
  <1>5. Len(<<>>) = 0
    OBVIOUS
  <1>6. ~OwnHop(s, TurnJob(t))
    BY <1>2, <1>5 DEF OwnHop
  <1> QED BY <1>1, <1>2, <1>4, <1>6 DEF Free, Looped

\* RestoreRunning.
LEMMA RestoreRunningStep ==
  ASSUME IInv, Boots, RestoreRunning
  PROVE  Onward
  <1>1. PICK j, ph, E : j = <<"host">> /\ ph = phase /\ E = {}
    OBVIOUS
  <1>2. PICK t : t = jobs[j][1].t
    OBVIOUS
  <1>3. PICK s : s = Pop(S, j)
    OBVIOUS
  <1>4. PICK c : c = transition(mem[t], "READY", "")
    OBVIOUS
  <1>5. PICK r : r = Put(s, t, c)
    OBVIOUS
  <1>6. PICK z : z = Persist(r, t)
    OBVIOUS
  <1>7. /\ phase = "boot" /\ jobs[j] # <<>> /\ jobs[j][1].op = "rerun" /\ phase' = phase
        /\ IF mem[t].st = "RUNNING" THEN Do(z) ELSE Do(s)
    BY <1>1, <1>2, <1>3, <1>4, <1>5, <1>6 DEF RestoreRunning, Booting, Boot, At, Stay
  <1>8. j \in Jobs /\ j[1] = "host" /\ j[1] # "model"
    BY <1>1, JobFacts
  <1>9. /\ Outcome(S, s, j, phase, {}) /\ Popped(S, s, j) /\ FrameKnown(S, jobs[j][1]) /\ FrameFits(jobs[j], 1, j, phase)
        /\ phase # "down" /\ Inv(S, phase, {}) /\ Inv(s, phase, {}) /\ Loose(s.jobs[j])
        /\ s.mem = mem /\ S.mem = mem /\ \A x \in Tasks : Known(s, x) <=> Known(S, x)
    BY <1>3, <1>7, <1>8, TakesPlain DEF Sends
  <1>10. CASE mem[t].st # "RUNNING"
    <2>1. Good(s)
      BY <1>9, OutcomeGood
    <2> QED BY <1>7, <1>9, <1>10, <2>1, Closes
  <1>11. CASE mem[t].st = "RUNNING"
    <2>1. Known(S, t)
      BY <1>2, <1>7, <1>9 DEF FrameKnown, Nameless, Sends
    <2>2. t \in Tasks /\ mem[t] # NoTask /\ Known(s, t) /\ Block(mem[t]) /\ Live(mem[t])
      <3>1. t \in Tasks /\ mem[t] # NoTask /\ Known(s, t)
        BY <1>9, <2>1 DEF Known
      <3>2. Block(mem[t])
        BY <1>9, <3>1 DEF Inv, Typed
      <3> QED BY <1>11, <3>1, <3>2 DEF Live
    <2>3. \A i \in Jobs : i[1] \in {"model", "turn", "loop"} => s.jobs[i] = jobs[i]
      BY <1>8, <1>9, SFacts DEF Popped
    <2>4. Free(s, t) /\ \A i \in Jobs : i[1] \in {"model", "turn", "loop"} => s.jobs[i] = <<>>
      BY <1>7, <2>2, <2>3, BootFree
    <2>5. \A i \in Jobs : HopAt(s, i, t) => Pending(mem[t])
      BY <1>9, <1>11, <2>2 DEF Inv, Asks, AsksOf
    <2>6. Resumable(s, t, mem[t])
      <3>1. Milder(s.mem[t], mem[t], {})
        BY <1>9, <2>2, MilderSelf
      <3> QED BY <1>9, <2>2, <2>4, <2>5, <3>1 DEF Resumable
    <2>7. PICK why, b : why = "" /\ b = mem[t]
      OBVIOUS
    <2>8. Inv(s, ph, E) /\ Loose(s.jobs[j]) /\ Resumable(s, t, b) /\ c = transition(b, "READY", why) /\ ph # "down"
      BY <1>1, <1>4, <1>9, <2>6, <2>7
    <2>9. Outcome(s, r, j, ph, E \cup {Late(t)}) /\ Replaced(s, t, c, r) /\ r.mem[t].st = "READY" /\ Known(r, t)
      BY <1>5, <2>8, Readies
    <2>10. PICK K : K = E \cup {Late(t)}
      OBVIOUS
    <2>11. Inv(r, ph, K) /\ Loose(r.jobs[j]) /\ Known(r, t) /\ Outcome(s, r, j, ph, K)
      BY <2>9, <2>10 DEF Outcome
    <2>12. Outcome(r, z, j, ph, K) /\ z.jobs = r.jobs
      BY <1>6, <2>8, <2>11, Persists
    <2>13. Outcome(s, z, j, ph, K)
      BY <2>11, <2>12, OutcomeThen
    <2>14. Outcome(S, z, j, ph, K)
      BY <1>1, <1>9, <2>13, OutcomeThen
    <2>15. Holds(z, t, j, {"resume"})
      <3>1. \E k \in 2 .. Len(jobs[j]) : jobs[j][k].op = "resume" /\ jobs[j][k].t = t
        BY <1>2, <1>7, <1>9 DEF FrameFits
      <3>2. PICK k \in 2 .. Len(jobs[j]) : jobs[j][k].op = "resume" /\ jobs[j][k].t = t
        BY <3>1
      <3>3. /\ Suffix(s.jobs[j], S.jobs[j], 1) /\ S.jobs[j] = jobs[j] /\ Len(jobs[j]) \in Nat \ {0}
        BY <1>3, <1>7, <1>8, <1>9, PopShape, SFacts DEF Inv
      <3>4. s.jobs[j][k - 1] = jobs[j][k] /\ k - 1 \in 1 .. Len(s.jobs[j]) /\ IsStack(s.jobs[j])
        BY <3>3 DEF Suffix
      <3>5. jobs[j][k] \in ToSet(s.jobs[j])
        BY <3>4, StackFacts
      <3>6. z.jobs[j] = s.jobs[j]
        BY <2>9, <2>12 DEF Replaced
      <3> QED BY <3>2, <3>5, <3>6 DEF Holds, Held
    <2>16. Inv(z, ph, K) /\ Falls(S, z) /\ Loose(z.jobs[j]) /\ \A x \in Tasks : Known(z, x) <=> Known(S, x)
      BY <2>14 DEF Outcome
    <2>17. Inv(z, ph, E)
      <3>1. \A k \in Tasks : Late(k) \in K => k = t
        BY <1>1, <2>10 DEF Late
      <3>2. \A k \in Tasks : Lone(k) \notin K
        BY <1>1, <2>10 DEF Late, Lone
      <3>3. ListedTask(z, t)
        BY <1>1, <2>15 DEF ListedTask
      <3> QED BY <2>16, <3>1, <3>2, <3>3, Smaller
    <2>18. Outcome(S, z, j, phase, {})
      BY <1>1, <2>16, <2>17 DEF Outcome
    <2>19. Good(z)
      BY <2>18, OutcomeGood
    <2> QED BY <1>7, <1>9, <1>11, <2>19, Closes
  <1> QED BY <1>10, <1>11

\* RestoreOrphan.
LEMMA RestoreOrphanStep ==
  ASSUME IInv, RestoreOrphan
  PROVE  Onward
  <1>1. PICK j, ph, E, kind : j = <<"host">> /\ ph = phase /\ E = {} /\ kind = "cancelled"
    OBVIOUS
  <1>2. PICK t, p : t = jobs[j][1].t /\ p = Parent[t]
    OBVIOUS
  <1>3. PICK s : s = Pop(S, j)
    OBVIOUS
  <1>4. PICK r : r = terminateTask(s, j, t, kind)
    OBVIOUS
  <1>5. /\ phase = "boot" /\ jobs[j] # <<>> /\ jobs[j][1].op = "orphan" /\ phase' = phase
        /\ IF p # Orphan /\ Live(mem[t]) /\ ~Live(mem[p]) THEN Do(r) ELSE Do(s)
    BY <1>1, <1>2, <1>3, <1>4 DEF RestoreOrphan, Booting, Boot, At, Stay
  <1>6. j \in Jobs /\ j[1] = "host" /\ j[1] # "model"
    BY <1>1, JobFacts
  <1>7. PICK f : f = jobs[j][1]
    OBVIOUS
  <1>8. CASE ~(p # Orphan /\ Live(mem[t]) /\ ~Live(mem[p]))
    <2>1. ~Stray(S, t)
      BY <1>2, <1>8, SFacts DEF Stray
    <2>2. Spent(S, f, {})
      BY <1>2, <1>5, <1>7, <2>1 DEF Spent, Sends
    <2>3. Outcome(S, s, j, phase, {}) /\ phase # "down"
      BY <1>3, <1>5, <1>6, <1>7, <2>2, Takes
    <2>4. Good(s)
      BY <2>3, OutcomeGood
    <2> QED BY <1>5, <1>8, <2>3, <2>4, Closes
  <1>9. CASE p # Orphan /\ Live(mem[t]) /\ ~Live(mem[p])
    <2>1. PICK K : K = {Lone(t)}
      OBVIOUS
    <2>2. Spent(S, f, K)
      BY <1>2, <1>5, <1>7, <2>1 DEF Spent, Sends
    <2>3. /\ Outcome(S, s, j, phase, K) /\ FrameKnown(S, f) /\ phase # "down" /\ Inv(S, phase, {})
          /\ Inv(s, phase, K) /\ Loose(s.jobs[j]) /\ s.mem = mem /\ \A x \in Tasks : Known(s, x) <=> Known(S, x)
      BY <1>3, <1>5, <1>6, <1>7, <2>2, Takes
    <2>4. Known(S, t)
      BY <1>2, <1>5, <1>7, <2>3 DEF FrameKnown, Nameless, Sends
    <2>5. Mortal(s, t)
      BY <1>9, <2>3, <2>4 DEF Mortal, Known
    <2>6. \A k \in K : k \in E \/ k = Late(t) \/ k = Lone(t)
      BY <2>1
    <2>7. Inv(s, ph, K) /\ ph # "down"
      BY <1>1, <2>3
    <2>8. Inv(r, ph, E) /\ Falls(s, r)
      BY <1>4, <1>6, <2>3, <2>5, <2>6, <2>7, Terminates
    <2>9. Good(r)
      <3>1. Falls(S, s)
        BY <2>3 DEF Outcome
      <3>2. Falls(S, r)
        BY <2>8, <3>1, FallsThen
      <3>3. Inv(S, ph, E) /\ Inv(r, ph, E)
        BY <1>1, <2>3, <2>8
      <3>4. Legal(S, r)
        BY <3>2, <3>3, FallsLegal
      <3> QED BY <1>1, <3>3, <3>4 DEF Good
    <2> QED BY <1>5, <1>9, <2>3, <2>9, Closes
  <1> QED BY <1>8, <1>9

\* Reconcile: the results of the children that ended are noted by their parents.
Reconciled(b, st) ==
  [completeSubagentWorks(b, st) EXCEPT !.graph = completeDelegatedWorkGraphNodes(@, st)]

LEMMA ReconciledMild ==
  ASSUME NEW b, Block(b), NEW st, NEW c, c = Reconciled(b, st)
  PROVE  Milder(b, c, DOMAIN st) /\ c.st = b.st /\ c.why = b.why /\ c.ask = b.ask
  <1>1. PICK d : d = [k \in DOMAIN st |-> subagentResult(st[k])]
    OBVIOUS
  <1>2. PICK a : a = completeAsyncWorks(b, d)
    OBVIOUS
  <1>3. DOMAIN d = DOMAIN st
    BY <1>1
  <1>4. Milder(b, a, DOMAIN st) /\ a.st = b.st /\ a.why = b.why /\ a.ask = b.ask /\ Block(a)
    <2>1. Milder(b, a, DOMAIN d) /\ a.st = b.st /\ a.why = b.why /\ a.ask = b.ask
      BY <1>2, CompleteMild
    <2> QED BY <1>3, <2>1 DEF Milder
  <1>5. PICK g : g = completeDelegatedWorkGraphNodes(a.graph, st)
    OBVIOUS
  <1>6. GraphOK(g)
    BY <1>4, <1>5, GraphFollows DEF Block
  <1>7. /\ DOMAIN c = BlockFields /\ c.st = a.st /\ c.why = a.why /\ c.ask = a.ask /\ c.works = a.works
        /\ GraphOK(c.graph)
    <2>1. DOMAIN a = BlockFields
      BY <1>4 DEF Block
    <2>2. a = completeSubagentWorks(b, st)
      BY <1>1, <1>2 DEF completeSubagentWorks
    <2>3. c = [a EXCEPT !.graph = g]
      BY <1>5, <2>2 DEF Reconciled
    <2> QED BY <1>6, <2>1, <2>3 DEF BlockFields
  <1>8. Milder(a, c, DOMAIN st)
    BY <1>4, <1>7, FieldMild
  <1> QED BY <1>4, <1>7, <1>8, MilderThen

\* No child is being created while the process boots.
LEMMA BootBorn ==
  ASSUME IInv, Boots, phase = "boot"
  PROVE  \A x : ~Born(S, x)
  <1>1. SUFFICES ASSUME NEW x, NEW j \in Jobs, NEW f \in Held(S, j), f.op \in Sends PROVE FALSE
    BY DEF Born, Holds
  <1>2. StackOK(jobs[j], j, phase) /\ S.jobs = jobs
    BY SFacts DEF IInv, Inv, Stacks
  <1>3. PICK i \in 1 .. Len(jobs[j]) : jobs[j][i] = f
    BY <1>1, <1>2, StackFacts DEF StackOK, Held
  <1>4. FrameFits(jobs[j], i, j, phase)
    BY <1>2, <1>3, StackFacts DEF StackOK
  <1>5. j[1] \in {"turn", "loop"}
    BY <1>1, <1>3, <1>4, Kinds DEF Sends
  <1>6. jobs[j] = <<>>
    BY <1>5 DEF Boots
  <1> QED BY <1>2, <1>3, <1>6, StackFacts DEF StackOK

\* What is known of the children that ended, of each task.
Endings(p) ==
  [k \in {k \in Tasks : Parent[k] = p /\ mem[k].st = "TERMINATED" /\ Completable(mem[p], k)} |-> mem[k].why]

LEMMA ReconcileStep ==
  ASSUME IInv, Boots, Reconcile
  PROVE  Onward
  <1>1. PICK j : j = <<"host">>
    OBVIOUS
  <1>2. PICK s : s = Pop(S, j)
    OBVIOUS
  <1>3. PICK m : m = [p \in Tasks |-> IF ~Live(mem[p]) THEN mem[p] ELSE Reconciled(mem[p], Endings(p))]
    OBVIOUS
  <1>4. PICK r : r = [s EXCEPT !.mem = m]
    OBVIOUS
  <1>5. /\ phase = "boot" /\ jobs[j] # <<>> /\ jobs[j][1].op = "reconcile" /\ phase' = phase /\ Do(r)
    BY <1>1, <1>2, <1>3, <1>4 DEF Reconcile, Booting, Boot, At, Stay, Reconciled, Endings
  <1>6. j \in Jobs /\ j[1] = "host" /\ j[1] # "model"
    BY <1>1, JobFacts
  <1>7. /\ Outcome(S, s, j, phase, {}) /\ Popped(S, s, j)
        /\ phase # "down" /\ Inv(S, phase, {}) /\ Inv(s, phase, {}) /\ Loose(s.jobs[j])
        /\ s.mem = mem /\ S.mem = mem /\ \A x \in Tasks : Known(s, x) <=> Known(S, x)
    BY <1>2, <1>5, <1>6, TakesPlain DEF Sends
  <1>8. \A x : ~Born(S, x)
    BY <1>5, BootBorn
  <1>9. \A p \in Tasks : Live(mem[p]) => Known(s, p) /\ Known(S, p) /\ Block(mem[p])
    <2>1. \A p \in Tasks : Live(mem[p]) => mem[p] # NoTask
      BY NoTaskFacts
    <2> QED BY <1>7, <1>8, <2>1 DEF Known, Inv, Typed
  <1>10. \A p \in Tasks : m[p] = s.mem[p] \/ (Fitting(s, {}, p, m[p]) /\ m[p].st = s.mem[p].st)
    <2>1. TAKE p \in Tasks
    <2>2. CASE ~Live(mem[p])
      BY <1>3, <1>7, <2>2
    <2>3. CASE Live(mem[p])
      <3>1. PICK st : st = Endings(p)
        OBVIOUS
      <3>2. PICK c : c = m[p]
        OBVIOUS
      <3>3. c = Reconciled(mem[p], st)
        BY <1>3, <2>3, <3>1, <3>2
      <3>4. Milder(mem[p], c, DOMAIN st) /\ c.st = mem[p].st /\ c.why = mem[p].why /\ c.ask = mem[p].ask
        BY <1>9, <2>3, <3>3, ReconciledMild
      <3>5. \A k \in Tasks : Born(s, k) => k \notin DOMAIN st
        <4>1. \A k \in Tasks : Live(mem[p]) /\ Born(s, k) => FALSE
          <5>1. SUFFICES ASSUME NEW k \in Tasks, Born(s, k) PROVE FALSE
            OBVIOUS
          <5>2. CASE mem[k] # NoTask
            BY <1>7, <1>8, <5>1, <5>2 DEF Known
          <5>3. CASE mem[k] = NoTask
            <6>1. PICK i \in Jobs : \E f \in Held(s, i) : f.op \in Sends /\ f.t = k
              BY <5>1 DEF Born, Holds
            <6>2. PICK f \in Held(s, i) : f.op \in Sends /\ f.t = k
              BY <6>1
            <6>3. NewbornFits(s, f)
              BY <1>7, <6>2 DEF Inv, Newborns
            <6> QED BY <1>7, <5>3, <6>2, <6>3 DEF NewbornFits
          <5> QED BY <5>2, <5>3
        <4> QED BY <2>3, <4>1
      <3>6. PICK ph, E : ph = phase /\ E = {}
        OBVIOUS
      <3>7. Inv(s, ph, E)
        BY <1>7, <3>6
      <3>8. Known(s, p) /\ Milder(s.mem[p], c, DOMAIN st) /\ c.st = s.mem[p].st /\ c.why = s.mem[p].why /\ c.ask = s.mem[p].ask
        BY <1>7, <1>9, <2>3, <3>4
      <3>9. Fitting(s, {}, p, c)
        BY <3>5, <3>7, <3>8, FitSame
      <3> QED BY <3>2, <3>8, <3>9
    <2> QED BY <2>2, <2>3
  <1>11. DOMAIN m = Tasks
    BY <1>3
  <1>12. Is(r, m, s.disk, s.queue, s.packing, s.timers, s.wake, s.pool, s.jobs) /\ r.mem = m
    <2>1. DOMAIN s = Fields
      BY <1>7 DEF Popped
    <2> QED BY <1>4, <2>1 DEF Is, Fields
  <1>13. PICK ph, E : ph = phase /\ E = {}
    OBVIOUS
  <1>14. Inv(s, ph, E) /\ E \subseteq E /\ \A p \in Tasks : m[p] = s.mem[p] \/ Fitting(s, E, p, m[p])
    BY <1>7, <1>10, <1>13
  <1>15. Inv(r, ph, E)
    BY <1>11, <1>12, <1>14, Puts
  <1>16. Legal(S, r)
    BY <1>7, <1>10, <1>12 DEF Legal
  <1>17. Good(r)
    BY <1>13, <1>15, <1>16 DEF Good
  <1> QED BY <1>5, <1>7, <1>17, Closes

\* Booted: nothing of the restart is left to do.
LEMMA BootedStep ==
  ASSUME IInv, Booted
  PROVE  Onward
  <1>1. PICK j : j = <<"host">>
    OBVIOUS
  <1>2. PICK s : s = Pop(S, j)
    OBVIOUS
  <1>3. phase = "boot" /\ jobs[j] # <<>> /\ jobs[j][1].op = "booted" /\ phase' = "up" /\ Do(s)
    BY <1>1, <1>2 DEF Booted, Booting, Boot, At
  <1>4. j \in Jobs /\ j[1] = "host" /\ j[1] # "model"
    BY <1>1, JobFacts
  <1>5. /\ Outcome(S, s, j, phase, {}) /\ Popped(S, s, j) /\ FrameFits(jobs[j], 1, j, phase)
        /\ Inv(S, phase, {}) /\ Inv(s, phase, {})
        /\ s.mem = mem /\ S.mem = mem
    BY <1>2, <1>3, <1>4, TakesPlain DEF Sends
  <1>6. s.jobs[j] = <<>>
    <2>1. Len(jobs[j]) = 1
      BY <1>3, <1>5 DEF FrameFits
    <2>2. Suffix(s.jobs[j], S.jobs[j], 1) /\ S.jobs[j] = jobs[j]
      BY <1>2, <1>3, <1>4, <1>5, PopShape, SFacts DEF Inv
    <2> QED BY <2>1, <2>2, StackFacts DEF Suffix
  <1>7. \A i \in Jobs : StackOK(s.jobs[i], i, "up")
    <2>1. TAKE i \in Jobs
    <2>2. StackOK(s.jobs[i], i, "boot")
      BY <1>3, <1>5 DEF Inv, Stacks
    <2>3. \A k \in DOMAIN s.jobs[i] : s.jobs[i][k].op \notin BootOps
      <3>1. TAKE k \in DOMAIN s.jobs[i]
      <3>2. CASE i = j
        <4>1. DOMAIN s.jobs[i] = {}
          BY <1>6, <3>2
        <4> QED BY <4>1
      <3>3. CASE i # j
        <4>1. FrameFits(s.jobs[i], k, i, "boot")
          BY <2>2 DEF StackOK
        <4> QED BY <1>1, <3>3, <4>1, Kinds
      <3> QED BY <3>2, <3>3
    <2>4. \A k \in DOMAIN s.jobs[i] : FrameFits(s.jobs[i], k, i, "up")
      <3>1. TAKE k \in DOMAIN s.jobs[i]
      <3>2. FrameFits(s.jobs[i], k, i, "boot") /\ s.jobs[i][k].op \notin BootOps
        BY <2>2, <2>3 DEF StackOK
      <3> QED BY <3>2 DEF FrameFits
    <2> QED BY <2>2, <2>4 DEF StackOK
  <1>8. Inv(s, "up", {})
    <2>1. Stacks(s, "up")
      BY <1>7 DEF Stacks
    <2>2. Family(s, "up") /\ Saved(s, "up")
      BY <1>3, <1>5 DEF Inv, Family, Saved
    <2> QED BY <1>5, <2>1, <2>2 DEF Inv
  <1>9. PICK ph : ph = "up"
    OBVIOUS
  <1>10. Inv(s, ph, {})
    BY <1>8, <1>9
  <1>11. Inv(S', ph, {}) /\ mem' = s.mem
    BY <1>3, <1>10, Done
  <1>12. IInv'
    BY <1>3, <1>9, <1>11 DEF IInv, Down
  <1>13. Legal(S, S')
    <2>1. S'.mem = mem'
      BY DEF S
    <2> QED BY <1>5, <1>11, <2>1 DEF Legal
  <1> QED BY <1>12, <1>13 DEF Onward

\* Below what is left of a restart there is nothing but the rest of it.
LEMMA BootBare ==
  ASSUME NEW q, NEW j, NEW ph, StackOK(q, j, ph), q # <<>>, q[1].op \in BootOps, NEW r, Suffix(r, q, 1)
  PROVE  Bare(r)
  <1>1. 1 \in 1 .. Len(q) /\ DOMAIN q = 1 .. Len(q) /\ Len(q) \in Nat
    BY StackFacts DEF StackOK
  <1>2. \A k \in 1 .. Len(q) : q[k].op \in BootOps
    <2>1. FrameFits(q, 1, j, ph)
      BY <1>1 DEF StackOK
    <2> QED BY <2>1 DEF FrameFits
  <1>3. DOMAIN r = 1 .. Len(r) /\ Len(r) = Len(q) - 1 /\ \A i \in 1 .. Len(q) - 1 : r[i] = q[i + 1]
    BY StackFacts DEF Suffix
  <1>4. \A i \in DOMAIN r : r[i].op \in BootOps
    BY <1>1, <1>2, <1>3
  <1> QED BY <1>4 DEF Bare

\* The restart goes on with the tool calls of t that it found unfinished.
ToolFrames(t, failed, calls) ==
  (IF failed = {} THEN <<>> ELSE <<Then("progress", t)>>)
  \o (IF calls = failed THEN <<>> ELSE <<Frame("launch", t, SetToSeq(calls \ failed))>>)

LEMMA ToolStack ==
  ASSUME NEW t, NEW failed, NEW calls, NEW p, p = ToolFrames(t, failed, calls), NEW j, j[1] = "host", NEW ph
  PROVE  StackOK(p, j, ph) /\ \A i \in DOMAIN p : p[i].op \in {"progress", "launch"} /\ p[i].t = t
  <1>1. PICK a : a = IF failed = {} THEN <<>> ELSE <<Then("progress", t)>>
    OBVIOUS
  <1>2. PICK b : b = IF calls = failed THEN <<>> ELSE <<Frame("launch", t, SetToSeq(calls \ failed))>>
    OBVIOUS
  <1>3. p = a \o b
    BY <1>1, <1>2 DEF ToolFrames
  <1>4. IsStack(<<>>) /\ ToSet(<<>>) = {}
    BY OneFrame, SuffixNone
  <1>5. IsStack(a) /\ \A f \in ToSet(a) : f.op = "progress" /\ f.t = t
    <2>1. CASE failed = {}
      BY <1>1, <1>4, <2>1
    <2>2. CASE failed # {}
      <3>1. PICK f : f = Then("progress", t)
        OBVIOUS
      <3>2. f.op = "progress" /\ f.t = t /\ a = <<f>>
        BY <1>1, <2>2, <3>1 DEF Then, Frame
      <3>3. IsStack(a) /\ Len(a) = 1 /\ a[1] = f
        BY <3>2, OneFrame
      <3> QED BY <3>2, <3>3, StackFacts
    <2> QED BY <2>1, <2>2
  <1>6. IsStack(b) /\ \A f \in ToSet(b) : f.op = "launch" /\ f.t = t
    <2>1. CASE calls = failed
      BY <1>2, <1>4, <2>1
    <2>2. CASE calls # failed
      <3>1. PICK f : f = Frame("launch", t, SetToSeq(calls \ failed))
        OBVIOUS
      <3>2. f.op = "launch" /\ f.t = t /\ b = <<f>>
        BY <1>2, <2>2, <3>1 DEF Frame
      <3>3. IsStack(b) /\ Len(b) = 1 /\ b[1] = f
        BY <3>2, OneFrame
      <3> QED BY <3>2, <3>3, StackFacts
    <2> QED BY <2>1, <2>2
  <1>7. IsStack(p) /\ ToSet(p) = ToSet(a) \cup ToSet(b)
    BY <1>3, <1>5, <1>6, StackOn
  <1>8. \A i \in DOMAIN p : p[i].op \in {"progress", "launch"} /\ p[i].t = t
    BY <1>5, <1>6, <1>7, StackFacts
  <1>9. \A i \in DOMAIN p : FrameFits(p, i, j, ph)
    <2>1. TAKE i \in DOMAIN p
    <2>2. p[i].op \in {"progress", "launch"}
      BY <1>8
    <2>3. {"progress", "launch"} \subseteq OpsOf(j[1])
      BY DEF OpsOf, Casc
    <2>4. p[i].op \notin Heads \cup Sends \cup BootOps
      BY <2>2 DEF Heads, Sends, BootOps
    <2> QED BY <2>2, <2>3, <2>4 DEF FrameFits
  <1> QED BY <1>7, <1>8, <1>9 DEF StackOK

\* RestoreTools.
LEMMA RestoreToolsStep ==
  ASSUME IInv, RestoreTools
  PROVE  Onward
  <1>1. PICK j, ph, E : j = <<"host">> /\ ph = phase /\ E = {}
    OBVIOUS
  <1>2. PICK t : t = jobs[j][1].t
    OBVIOUS
  <1>3. PICK pending : pending = IF Live(mem[t]) THEN Calls \cap activeAsyncWorkPendingIds(mem[t]) ELSE {}
    OBVIOUS
  <1>4. PICK barred : barred = {c \in pending : Unauthorized(mem[t], c)}
    OBVIOUS
  <1>5. PICK s0 : s0 = Pop(S, j)
    OBVIOUS
  <1>6. PICK st : st = [c \in barred |-> "failed"]
    OBVIOUS
  <1>7. PICK b : b = completeAsyncWorks(mem[t], st)
    OBVIOUS
  <1>8. PICK s : s = IF barred = {} THEN s0 ELSE Put(s0, t, b)
    OBVIOUS
  <1>9. PICK p : p = ToolFrames(t, barred, pending)
    OBVIOUS
  <1>10. PICK r : r = Push(s, j, p)
    OBVIOUS
  <1>11. phase = "boot" /\ jobs[j] # <<>> /\ jobs[j][1].op = "retool" /\ phase' = phase /\ Do(r)
    BY <1>1, <1>2, <1>3, <1>4, <1>5, <1>6, <1>7, <1>8, <1>9, <1>10, ZenonT(30)
       DEF RestoreTools, Booting, Boot, At, Stay, ToolFrames
  <1>12. j \in Jobs /\ j[1] = "host" /\ j[1] # "model"
    BY <1>1, JobFacts
  <1>13. /\ Outcome(S, s0, j, phase, {}) /\ Popped(S, s0, j) /\ FrameKnown(S, jobs[j][1])
         /\ phase # "down" /\ Inv(S, phase, {}) /\ Inv(s0, phase, {}) /\ Loose(s0.jobs[j])
         /\ s0.mem = mem /\ S.mem = mem /\ \A x \in Tasks : Known(s0, x) <=> Known(S, x)
    BY <1>5, <1>11, <1>12, TakesPlain DEF Sends
  <1>14. Known(s0, t) /\ t \in Tasks /\ Block(mem[t])
    <2>1. Known(S, t)
      BY <1>2, <1>11, <1>13 DEF FrameKnown, Nameless, Sends
    <2> QED BY <1>13, <2>1 DEF Known, Inv, Typed
  <1>15. Bare(s0.jobs[j])
    <2>1. Suffix(s0.jobs[j], S.jobs[j], 1) /\ S.jobs[j] = jobs[j]
      BY <1>5, <1>11, <1>12, <1>13, PopShape, SFacts DEF Inv
    <2>2. StackOK(jobs[j], j, phase)
      BY <1>12, <1>13, SFacts DEF Inv, Stacks
    <2> QED BY <1>11, <2>1, <2>2, BootBare DEF BootOps
  <1>16. Outcome(s0, s, j, ph, E) /\ s.jobs = s0.jobs
    <2>1. CASE barred = {}
      <3>1. Falls(s0, s0)
        BY FallsSame
      <3> QED BY <1>1, <1>8, <1>13, <2>1, <3>1 DEF Outcome
    <2>2. CASE barred # {}
      <3>1. Milder(mem[t], b, DOMAIN st) /\ b.st = mem[t].st /\ b.why = mem[t].why /\ b.ask = mem[t].ask
        BY <1>7, <1>14, CompleteMild
      <3>2. DOMAIN st = barred /\ barred \subseteq Calls
        BY <1>3, <1>4, <1>6
      <3>3. \A k \in Tasks : Born(s0, k) => k \notin DOMAIN st
        BY <3>2, TaskAssumption
      <3>4. /\ Inv(s0, ph, E) /\ Milder(s0.mem[t], b, DOMAIN st) /\ b.st = s0.mem[t].st
            /\ b.why = s0.mem[t].why /\ b.ask = s0.mem[t].ask
        BY <1>1, <1>13, <3>1
      <3>5. Outcome(s0, Put(s0, t, b), j, ph, E) /\ Replaced(s0, t, b, Put(s0, t, b))
        BY <1>13, <1>14, <3>3, <3>4, Notes
      <3> QED BY <1>8, <2>2, <3>5 DEF Replaced
    <2> QED BY <2>1, <2>2
  <1>17. Inv(s, ph, E) /\ Known(s, t) /\ Loose(s.jobs[j]) /\ Bare(s.jobs[j])
    BY <1>14, <1>15, <1>16 DEF Outcome
  <1>18. StackOK(p, j, ph) /\ \A i \in DOMAIN p : p[i].op \in {"progress", "launch"} /\ p[i].t = t
    BY <1>9, <1>12, ToolStack
  <1>19. \A i \in DOMAIN p : p[i].op \in Plain /\ FrameKnown(s, p[i])
    BY <1>17, <1>18 DEF Plain, Casc, FrameKnown
  <1>20. Is(r, s.mem, s.disk, s.queue, s.packing, s.timers, s.wake, s.pool, [s.jobs EXCEPT ![j] = p \o @])
    <2>1. DOMAIN s = Fields
      BY <1>17 DEF Inv, Typed, Fields
    <2> QED BY <1>10, <2>1, Shapes
  <1>21. Inv(r, ph, E)
    BY <1>12, <1>17, <1>18, <1>19, <1>20, PushPlain
  <1>22. Falls(S, r)
    <2>1. Falls(S, s0) /\ Falls(s0, s)
      BY <1>13, <1>16 DEF Outcome
    <2>2. Falls(s, r)
      BY <1>20, FallsSame DEF Is
    <2> QED BY <2>1, <2>2, FallsThen
  <1>23. Good(r)
    <2>1. Inv(S, ph, E)
      BY <1>1, <1>13
    <2> QED BY <1>1, <1>21, <1>22, <2>1, FallsLegal DEF Good
  <1> QED BY <1>11, <1>13, <1>23, Closes

\* Resume: the results that wait are delivered or timed, and the task is queued.
LEMMA Resumes ==
  ASSUME NEW s, NEW ph, NEW K, Inv(s, ph, K), ph # "down", NEW t, Known(s, t),
         NEW j \in Jobs, j[1] # "model", Loose(s.jobs[j]), NEW fit \in Fits, Late(t) \in K,
         NEW r, r = IF ~Live(s.mem[t]) \/ ~hasUndeliveredAsyncWorkResults(s.mem[t]) THEN s
                    ELSE IF ~isActiveAsyncWorkComplete(s.mem[t]) /\ s.mem[t].due
                    THEN [s EXCEPT !.timers = @ \cup {t}]
                    ELSE IF s.mem[t].st = "RUNNING" THEN [s EXCEPT !.wake = @ \cup {t}]
                    ELSE deliverAsyncWorkUpdate([s EXCEPT !.wake = @ \cup {t}], j, t, fit)
  PROVE  Outcome(s, r, j, ph, K)
  <1>1. DOMAIN s = Fields
    BY DEF Inv, Typed, Fields
  <1>2. \A x \in s.timers \cup s.wake \cup {t} : Known(s, x)
    BY DEF Inv, ListsKnown
  <1>3. PICK a : a = [s EXCEPT !.timers = @ \cup {t}]
    OBVIOUS
  <1>4. PICK w : w = [s EXCEPT !.wake = @ \cup {t}]
    OBVIOUS
  <1>5. Outcome(s, a, j, ph, K)
    <2>1. PICK ti : ti = s.timers \cup {t}
      OBVIOUS
    <2>2. Rung(s, a, ti, s.wake)
      BY <1>1, <1>3, <2>1 DEF Rung, Is, Fields
    <2>3. \A x \in ti \cup s.wake : Known(s, x)
      BY <1>2, <2>1
    <2> QED BY <2>2, <2>3, Rings
  <1>6. Outcome(s, w, j, ph, K) /\ w.mem = s.mem
    <2>1. PICK wk : wk = s.wake \cup {t}
      OBVIOUS
    <2>2. Rung(s, w, s.timers, wk)
      BY <1>1, <1>4, <2>1 DEF Rung, Is, Fields
    <2>3. \A x \in s.timers \cup wk : Known(s, x)
      BY <1>2, <2>1
    <2> QED BY <2>2, <2>3, Rings
  <1>7. Outcome(s, s, j, ph, K)
    BY FallsSame DEF Outcome
  <1>8. Outcome(s, deliverAsyncWorkUpdate(w, j, t, fit), j, ph, K)
    <2>1. Inv(w, ph, K) /\ Loose(w.jobs[j]) /\ Known(w, t)
      BY <1>6 DEF Outcome, Known
    <2>2. Without(K, t, K) /\ K \subseteq K
      BY DEF Without
    <2>3. Outcome(w, deliverAsyncWorkUpdate(w, j, t, fit), j, ph, K)
      BY <2>1, <2>2, Delivers
    <2> QED BY <1>6, <2>3, OutcomeThen
  <1>9. r \in {s, a, w, deliverAsyncWorkUpdate(w, j, t, fit)}
    BY <1>3, <1>4
  <1> QED BY <1>5, <1>6, <1>7, <1>8, <1>9

LEMMA ResumeStep ==
  ASSUME IInv, NEW fit \in Fits, Resume(fit)
  PROVE  Onward
  <1>1. PICK j, ph, E : j = <<"host">> /\ ph = phase /\ E = {}
    OBVIOUS
  <1>2. PICK t : t = jobs[j][1].t
    OBVIOUS
  <1>3. PICK s : s = Pop(S, j)
    OBVIOUS
  <1>4. PICK r : r = IF ~Live(mem[t]) \/ ~hasUndeliveredAsyncWorkResults(mem[t]) THEN s
                     ELSE IF ~isActiveAsyncWorkComplete(mem[t]) /\ mem[t].due
                     THEN [s EXCEPT !.timers = @ \cup {t}]
                     ELSE IF mem[t].st = "RUNNING" THEN [s EXCEPT !.wake = @ \cup {t}]
                     ELSE deliverAsyncWorkUpdate([s EXCEPT !.wake = @ \cup {t}], j, t, fit)
    BY ZenonT(30)
  <1>5. PICK q : q = IF r.mem[t].st = "READY" /\ t \notin r.queue \cup r.packing
                     THEN prepareTaskForQueue(r, j, t, fit) ELSE r
    OBVIOUS
  <1>6. phase = "boot" /\ jobs[j] # <<>> /\ jobs[j][1].op = "resume" /\ phase' = phase /\ Do(q)
    BY <1>1, <1>2, <1>3, <1>4, <1>5, ZenonT(30) DEF Resume, Booting, Boot, At, Stay
  <1>7. j \in Jobs /\ j[1] = "host" /\ j[1] # "model"
    BY <1>1, JobFacts
  <1>8. PICK f, K : f = jobs[j][1] /\ K = {Late(t)}
    OBVIOUS
  <1>9. Spent(S, f, K)
    BY <1>2, <1>6, <1>8 DEF Spent, Sends
  <1>10. /\ Outcome(S, s, j, phase, K) /\ FrameKnown(S, f) /\ phase # "down"
         /\ Inv(s, phase, K) /\ Loose(s.jobs[j]) /\ s.mem = mem /\ \A x \in Tasks : Known(s, x) <=> Known(S, x)
    BY <1>3, <1>6, <1>7, <1>8, <1>9, Takes
  <1>11. Known(s, t) /\ t \in Tasks
    <2>1. Known(S, t)
      BY <1>2, <1>6, <1>8, <1>10 DEF FrameKnown, Nameless, Sends
    <2> QED BY <1>10, <2>1 DEF Known
  <1>12. Outcome(s, r, j, ph, K)
    <2>1. Inv(s, ph, K) /\ ph # "down" /\ Late(t) \in K
      BY <1>1, <1>8, <1>10
    <2>2. r = IF ~Live(s.mem[t]) \/ ~hasUndeliveredAsyncWorkResults(s.mem[t]) THEN s
              ELSE IF ~isActiveAsyncWorkComplete(s.mem[t]) /\ s.mem[t].due
              THEN [s EXCEPT !.timers = @ \cup {t}]
              ELSE IF s.mem[t].st = "RUNNING" THEN [s EXCEPT !.wake = @ \cup {t}]
              ELSE deliverAsyncWorkUpdate([s EXCEPT !.wake = @ \cup {t}], j, t, fit)
      BY <1>4, <1>10
    <2> QED BY <1>7, <1>10, <1>11, <2>1, <2>2, Resumes
  <1>13. Inv(r, ph, K) /\ Loose(r.jobs[j]) /\ Known(r, t) /\ ph # "down"
    BY <1>1, <1>10, <1>11, <1>12 DEF Outcome
  <1>14. Outcome(r, q, j, ph, E)
    <2>1. CASE r.mem[t].st = "READY" /\ t \notin r.queue \cup r.packing
      <3>1. Without(K, t, E)
        BY <1>8 DEF Without
      <3>2. q = prepareTaskForQueue(r, j, t, fit)
        BY <1>5, <2>1
      <3> QED BY <1>7, <1>13, <2>1, <3>1, <3>2, Prepares
    <2>2. CASE ~(r.mem[t].st = "READY" /\ t \notin r.queue \cup r.packing)
      <3>1. q = r
        BY <1>5, <2>2
      <3>2. \A k \in Tasks : Late(k) \in K => k = t
        BY <1>8 DEF Late
      <3>3. \A k \in Tasks : Lone(k) \notin K
        BY <1>8 DEF Late, Lone
      <3>4. r.mem[t].st = "READY" => ListedTask(r, t)
        BY <2>2 DEF ListedTask
      <3>5. Inv(r, ph, E)
        BY <1>13, <3>2, <3>3, <3>4, Smaller
      <3> QED BY <1>13, <3>1, <3>5, FallsSame DEF Outcome
    <2> QED BY <2>1, <2>2
  <1>15. Outcome(S, q, j, phase, {})
    <2>1. Outcome(s, q, j, ph, E)
      BY <1>12, <1>14, OutcomeThen
    <2>2. Outcome(S, s, j, ph, K)
      BY <1>1, <1>10
    <2>3. Outcome(S, q, j, ph, E)
      BY <2>1, <2>2, OutcomeThen
    <2> QED BY <1>1, <2>3
  <1>16. Good(q)
    BY <1>15, OutcomeGood
  <1> QED BY <1>6, <1>10, <1>16, Closes

\* What the store holds at any moment.
Durable(s) ==
  /\ DOMAIN s.disk = Tasks
  /\ \A t \in Tasks :
       /\ s.disk[t] = NoTask \/ Block(s.disk[t])
       /\ Owned(t, s.disk[t])
       /\ s.disk[t] # NoTask /\ Parent[t] # Orphan => s.disk[Parent[t]] # NoTask
       /\ s.disk[t] # NoTask => \A i \in Marks(s.disk[t]) : MarkOK(s, t, i, s.disk[t].works[i].ref)

LEMMA StoreDurable ==
  ASSUME NEW s, NEW ph, NEW L, Inv(s, ph, L)
  PROVE  Durable(s)
  <1>1. /\ DOMAIN s.disk = Tasks
        /\ \A t \in Tasks : (s.disk[t] = NoTask \/ Block(s.disk[t])) /\ Owned(t, s.disk[t])
    BY DEF Inv, Typed
  <1>2. \A t \in Tasks : s.disk[t] # NoTask /\ Parent[t] # Orphan => s.disk[Parent[t]] # NoTask
    BY DEF Inv, Family
  <1>3. \A t \in Tasks : s.disk[t] # NoTask => \A i \in Marks(s.disk[t]) : MarkOK(s, t, i, s.disk[t].works[i].ref)
    BY DEF Inv, Told
  <1> QED BY <1>1, <1>2, <1>3 DEF Durable

\* The process has just begun, or is down: nothing is in memory.
Vacant(s) ==
  /\ DOMAIN s = Fields /\ s.mem = Nothing /\ s.queue = {} /\ s.packing = {} /\ s.timers = {} /\ s.wake = {}
  /\ s.pool = EmptyPool /\ s.jobs = Idle

LEMMA Emptied ==
  ASSUME NEW s, Vacant(s), Durable(s), NEW ph, ph = "down" \/ \A t \in Tasks : s.disk[t] = NoTask
  PROVE  Inv(s, ph, {})
  <1>1. \A t \in Tasks : s.mem[t] = NoTask /\ ~Live(s.mem[t]) /\ s.mem[t].st = "none" /\ ~Known(s, t)
    BY NoTaskFacts DEF Vacant, Nothing, Known
  <1>2. IsStack(<<>>) /\ ToSet(<<>>) = {} /\ DOMAIN <<>> = {}
    <2>1. DOMAIN <<>> = {}
      OBVIOUS
    <2> QED BY <2>1, OneFrame, SuffixNone
  <1>3. DOMAIN s.jobs = Jobs /\ \A j \in Jobs : s.jobs[j] = <<>> /\ Held(s, j) = {}
    BY <1>2 DEF Vacant, Idle, Held
  <1>4. /\ \A t, j : j \in Jobs => ~HopAt(s, j, t)
        /\ \A j \in Jobs : \A t, ops : ~Holds(s, t, j, ops)
    BY <1>3 DEF HopAt, Holds
  <1>5. Typed(s)
    <2>1. DOMAIN s.mem = Tasks /\ DOMAIN s.pool = {"live", "spawned"}
      BY DEF Vacant, Nothing, EmptyPool
    <2>2. \A t \in Tasks : Owned(t, s.mem[t])
      BY <1>1 DEF Owned
    <2> QED BY <1>1, <1>3, <2>1, <2>2 DEF Typed, Durable, Vacant, Fields
  <1>6. Stacks(s, ph)
    BY <1>2, <1>3 DEF Stacks, StackOK
  <1>7. FramesKnown(s) /\ Newborns(s)
    BY <1>3 DEF FramesKnown, Newborns
  <1>8. ListsKnown(s)
    BY DEF ListsKnown, Vacant
  <1>9. Family(s, ph)
    BY <1>1 DEF Family, Durable
  <1>10. Saved(s, ph)
    BY <1>1 DEF Saved
  <1>11. Books(s)
    BY <1>1 DEF Books, Vacant, EmptyPool
  <1>12. Listed(s, {}) /\ Orphans(s, {})
    BY <1>1 DEF Listed, Orphans
  <1>13. Handles(s)
    <2>1. \A t \in Tasks : TurnJob(t) \in Jobs /\ ModelJob(t) \in Jobs /\ <<"loop">> \in Jobs
      BY JobFacts
    <2>2. \A t \in Tasks : ~Hot(s, t) /\ ~InLoop(s, t) /\ ~Looped(s, t) /\ ~OwnHop(s, TurnJob(t))
      <3>1. \A t \in Tasks : ~Hot(s, t)
        BY <1>3, <2>1 DEF Hot
      <3>2. \A t \in Tasks : ~InLoop(s, t) /\ ~Looped(s, t)
        BY <1>4, <2>1 DEF InLoop, Looped
      <3>3. Len(<<>>) = 0
        OBVIOUS
      <3>4. \A t \in Tasks : ~OwnHop(s, TurnJob(t))
        BY <1>3, <2>1, <3>3 DEF OwnHop
      <3> QED BY <3>1, <3>2, <3>4
    <2>3. \A t \in Tasks : s.jobs[ModelJob(t)] = <<>> /\ \A ops : ~Holds(s, t, TurnJob(t), ops)
      BY <1>3, <1>4, <2>1
    <2> QED BY <2>2, <2>3 DEF Handles, HandlesOf, HandlesFor
  <1>14. Asks(s)
    BY <1>4, JobFacts DEF Asks, AsksOf
  <1>15. Told(s)
    BY <1>1 DEF Told, Durable
  <1> QED BY <1>5, <1>6, <1>7, <1>8, <1>9, <1>10, <1>11, <1>12, <1>13, <1>14, <1>15 DEF Inv

\* Init.
LEMMA InitInv ==
  Init => IInv
  <1>1. SUFFICES ASSUME Init PROVE IInv
    OBVIOUS
  <1>2. Vacant(S) /\ \A t \in Tasks : S.disk[t] = NoTask
    BY <1>1, SFacts DEF Init, Vacant, Nothing
  <1>3. Durable(S)
    BY <1>1, <1>2, SFacts DEF Init, Durable, Nothing, Owned
  <1>4. Inv(S, phase, {})
    BY <1>2, <1>3, Emptied
  <1> QED BY <1>1, <1>4 DEF IInv, Init, Down

\* Crash: the snapshots outlive the process.
LEMMA CrashStep ==
  ASSUME IInv, Crash
  PROVE  IInv'
  <1>1. PICK r : r = S'
    OBVIOUS
  <1>2. /\ DOMAIN r = Fields /\ r.mem = mem' /\ r.disk = disk' /\ r.queue = queue' /\ r.packing = packing'
        /\ r.timers = timers' /\ r.wake = wake' /\ r.pool = pool' /\ r.jobs = jobs'
    BY <1>1 DEF S, Fields
  <1>3. Vacant(r) /\ r.disk = S.disk
    BY <1>2, SFacts DEF Crash, Vacant
  <1>4. Durable(S)
    BY StoreDurable DEF IInv
  <1>5. Durable(r)
    <2>1. \A t, i, ref : MarkOK(S, t, i, ref) => MarkOK(r, t, i, ref)
      BY <1>3 DEF MarkOK
    <2>2. Durable(S) => Durable(r)
      <3>1. PICK d : d = S.disk
        OBVIOUS
      <3>2. S.disk = d /\ r.disk = d
        BY <1>3, <3>1
      <3> QED BY <2>1, <3>2 DEF Durable
    <2> QED BY <1>4, <2>2
  <1>6. phase' = "down"
    BY DEF Crash
  <1>7. Inv(S', phase', {})
    BY <1>1, <1>3, <1>5, <1>6, Emptied
  <1> QED BY <1>6, <1>7 DEF IInv, Down, Crash

\* The ids of a set in their order, each of them once.
LEMMA OrderedFacts ==
  ASSUME NEW X
  PROVE  /\ Ordered(X) \in Seq(Tasks) /\ ToSet(Ordered(X)) = Tasks \cap X
         /\ \A i, k \in 1 .. Len(Ordered(X)) : Ordered(X)[i] = Ordered(X)[k] => i = k
  <1>1. Ordered(X) = (CHOOSE kept : Filters(kept, Ids, X, Len(Ids)))[Len(Ids)]
    BY DEF Ordered, Filters
  <1>2. Ids \in Seq(Tasks) /\ ToSet(Ids) = Tasks /\ \A i, k \in DOMAIN Ids : Ids[i] = Ids[k] => i = k
    BY TaskAssumption DEF IsInjective
  <1>3. \E kept : Filters(kept, Ids, X, Len(Ids))
    <2>1. Len(Ids) \in 0 .. Len(Ids)
      BY <1>2
    <2> QED BY <1>2, <2>1, FilterExists
  <1>4. PICK f : f = CHOOSE kept : Filters(kept, Ids, X, Len(Ids))
    OBVIOUS
  <1>5. Filters(f, Ids, X, Len(Ids))
    BY <1>3, <1>4
  <1>6. PICK r : r = Ordered(X)
    OBVIOUS
  <1>7. r \in Seq(Tasks) /\ ToSet(r) = ToSet(Ids) \cap X /\ Within(r, Ids)
    BY <1>1, <1>2, <1>4, <1>5, <1>6, FilterKeeps
  <1>8. \A i, k \in 1 .. Len(r) : r[i] = r[k] => i = k
    BY <1>2, <1>7 DEF Within
  <1> QED BY <1>2, <1>6, <1>7, <1>8

\* One frame for each task of a list.
Each(op, known) == [i \in DOMAIN known |-> Then(op, known[i])]

LEMMA EachStack ==
  ASSUME NEW known \in Seq(Tasks), NEW op
  PROVE  /\ IsStack(Each(op, known)) /\ Len(Each(op, known)) = Len(known)
         /\ \A f \in ToSet(Each(op, known)) : f.op = op /\ f.t \in ToSet(known)
         /\ \A t \in ToSet(known) : \E i \in 1 .. Len(known) : Each(op, known)[i].op = op /\ Each(op, known)[i].t = t
  <1>1. PICK n, e : n = Len(known) /\ e = Each(op, known)
    OBVIOUS
  <1>2. n \in Nat /\ DOMAIN known = 1 .. n /\ e = [i \in 1 .. n |-> Then(op, known[i])]
    BY <1>1 DEF Each
  <1>3. IsStack(e) /\ Len(e) = n
    <2>1. e = [i \in 1 .. n |-> e[i]]
      BY <1>2
    <2> QED BY <1>2, <2>1, StackIs
  <1>4. \A i \in 1 .. n : e[i].op = op /\ e[i].t = known[i]
    BY <1>2 DEF Then, Frame
  <1>5. \A f \in ToSet(e) : f.op = op /\ f.t \in ToSet(known)
    <2>1. \A f \in ToSet(e) : \E i \in 1 .. n : e[i] = f
      BY <1>3, StackFacts
    <2>2. \A i \in 1 .. n : known[i] \in ToSet(known)
      BY <1>2 DEF ToSet
    <2> QED BY <1>4, <2>1, <2>2
  <1>6. \A t \in ToSet(known) : \E i \in 1 .. n : e[i].op = op /\ e[i].t = t
    <2>1. \A t \in ToSet(known) : \E i \in 1 .. n : known[i] = t
      BY <1>2 DEF ToSet
    <2> QED BY <1>4, <2>1
  <1> QED BY <1>1, <1>3, <1>5, <1>6

\* What restoreMany still has to do when everything is registered.
BootStack(known) ==
  Each("orphan", known) \o <<Then("reconcile", "")>> \o Each("rerun", known)
    \o Each("retool", known) \o Each("resume", known) \o <<Then("booted", "")>>

\* q is a stack of frames with these operations, for tasks of X where they have one.
Part(q, ops, X) ==
  IsStack(q) /\ \A f \in ToSet(q) : f.op \in ops /\ (f.op \notin {"reconcile", "booted"} => f.t \in X)

LEMMA Parts ==
  ASSUME NEW p, NEW q, NEW X, NEW A, NEW B, Part(p, A, X), Part(q, B, X)
  PROVE  Part(p \o q, A \cup B, X)
  <1>1. IsStack(p \o q) /\ ToSet(p \o q) = ToSet(p) \cup ToSet(q)
    BY StackOn DEF Part
  <1> QED BY <1>1 DEF Part

LEMMA NatLast ==
  ASSUME NEW m \in Nat, NEW n, n = m + 1, NEW i \in 1 .. n, i > m
  PROVE  i = m + 1
  OBVIOUS

LEMMA NatShift ==
  ASSUME NEW l \in Nat, NEW m \in Nat, NEW n, n = l + m + 1, NEW i \in 1 .. n, i <= l,
         NEW h \in 1 .. m, NEW k, k = l + h
  PROVE  k \in i + 1 .. n /\ k \in 1 .. l + m /\ k \in l + 1 .. l + m /\ k - l = h
  OBVIOUS

LEMMA BootStackFacts ==
  ASSUME NEW known \in Seq(Tasks), NEW q, q = BootStack(known), NEW j, j[1] = "host"
  PROVE  /\ StackOK(q, j, "boot") /\ q # <<>> /\ Part(q, BootOps, ToSet(known))
         /\ \A t \in ToSet(known) : /\ \E f \in ToSet(q) : f.op = "orphan" /\ f.t = t
                                    /\ \E f \in ToSet(q) : f.op = "resume" /\ f.t = t
  <1>1. PICK X : X = ToSet(known)
    OBVIOUS
  <1>2. PICK a, b, c, d, e, g : /\ a = Each("orphan", known) /\ b = <<Then("reconcile", "")>> /\ c = Each("rerun", known)
                                /\ d = Each("retool", known) /\ e = Each("resume", known) /\ g = <<Then("booted", "")>>
    OBVIOUS
  <1>3. PICK u : u = a \o b \o c \o d
    OBVIOUS
  <1>4. PICK v : v = u \o e
    OBVIOUS
  <1>5. q = v \o g
    BY <1>2, <1>3, <1>4 DEF BootStack
  <1>6. /\ Part(a, {"orphan"}, X) /\ Part(c, {"rerun"}, X) /\ Part(d, {"retool"}, X) /\ Part(e, {"resume"}, X)
        /\ \A t \in X : \E i \in 1 .. Len(a) : a[i].op = "orphan" /\ a[i].t = t
        /\ \A t \in X : \E i \in 1 .. Len(e) : e[i].op = "resume" /\ e[i].t = t
    <2>1. ASSUME NEW op PROVE /\ Part(Each(op, known), {op}, X)
                              /\ \A t \in X : \E i \in 1 .. Len(Each(op, known)) :
                                   Each(op, known)[i].op = op /\ Each(op, known)[i].t = t
      <3>1. PICK z : z = Each(op, known)
        OBVIOUS
      <3>2. /\ IsStack(z) /\ Len(z) = Len(known) /\ \A f \in ToSet(z) : f.op = op /\ f.t \in ToSet(known)
            /\ \A t \in ToSet(known) : \E i \in 1 .. Len(known) : z[i].op = op /\ z[i].t = t
        BY <3>1, EachStack
      <3>3. \A t \in X : \E i \in 1 .. Len(z) : z[i].op = op /\ z[i].t = t
        BY <1>1, <3>2
      <3> QED BY <1>1, <3>1, <3>2, <3>3 DEF Part
    <2>2. Part(a, {"orphan"}, X) /\ \A t \in X : \E i \in 1 .. Len(a) : a[i].op = "orphan" /\ a[i].t = t
      <3>1. PICK o : o = "orphan"
        OBVIOUS
      <3>2. a = Each(o, known)
        BY <1>2, <3>1
      <3>3. Part(a, {o}, X) /\ \A t \in X : \E i \in 1 .. Len(a) : a[i].op = o /\ a[i].t = t
        BY <2>1, <3>2
      <3> QED BY <3>1, <3>3
    <2>3. Part(e, {"resume"}, X) /\ \A t \in X : \E i \in 1 .. Len(e) : e[i].op = "resume" /\ e[i].t = t
      <3>1. PICK o : o = "resume"
        OBVIOUS
      <3>2. e = Each(o, known)
        BY <1>2, <3>1
      <3>3. Part(e, {o}, X) /\ \A t \in X : \E i \in 1 .. Len(e) : e[i].op = o /\ e[i].t = t
        BY <2>1, <3>2
      <3> QED BY <3>1, <3>3
    <2>4. Part(c, {"rerun"}, X)
      BY <1>2, <2>1
    <2>5. Part(d, {"retool"}, X)
      BY <1>2, <2>1
    <2> QED BY <2>2, <2>3, <2>4, <2>5
  <1>7. Part(b, {"reconcile"}, X) /\ Part(g, {"booted"}, X) /\ Len(g) = 1
    <2>1. PICK f, h : f = Then("reconcile", "") /\ h = Then("booted", "")
      OBVIOUS
    <2>2. f.op = "reconcile" /\ h.op = "booted"
      BY <2>1 DEF Then, Frame
    <2>3. IsStack(b) /\ Len(b) = 1 /\ b[1] = f /\ IsStack(g) /\ Len(g) = 1 /\ g[1] = h
      BY <1>2, <2>1, OneFrame
    <2>4. (\A x \in ToSet(b) : x = f) /\ (\A x \in ToSet(g) : x = h)
      BY <2>3, StackFacts
    <2> QED BY <2>2, <2>3, <2>4 DEF Part
  <1>8. Part(u, {"orphan", "reconcile", "rerun", "retool"}, X)
    <2>1. Part(a \o b, {"orphan"} \cup {"reconcile"}, X)
      BY <1>6, <1>7, Parts
    <2>2. Part(a \o b \o c, {"orphan"} \cup {"reconcile"} \cup {"rerun"}, X)
      BY <1>6, <2>1, Parts
    <2>3. Part(a \o b \o c \o d, {"orphan"} \cup {"reconcile"} \cup {"rerun"} \cup {"retool"}, X)
      BY <1>6, <2>2, Parts
    <2>4. {"orphan"} \cup {"reconcile"} \cup {"rerun"} \cup {"retool"} = {"orphan", "reconcile", "rerun", "retool"}
      OBVIOUS
    <2> QED BY <1>3, <2>3, <2>4
  <1>9. Part(v, {"orphan", "reconcile", "rerun", "retool"} \cup {"resume"}, X)
    BY <1>4, <1>6, <1>8, Parts
  <1>10. Part(q, BootOps, X)
    <2>1. Part(q, ({"orphan", "reconcile", "rerun", "retool"} \cup {"resume"}) \cup {"booted"}, X)
      BY <1>5, <1>7, <1>9, Parts
    <2>2. ({"orphan", "reconcile", "rerun", "retool"} \cup {"resume"}) \cup {"booted"} = BootOps
      BY DEF BootOps
    <2> QED BY <2>1, <2>2
  <1>11. /\ Len(q) = Len(v) + 1 /\ Len(v) = Len(u) + Len(e) /\ Len(u) \in Nat /\ Len(v) \in Nat /\ Len(e) \in Nat
         /\ \A i \in 1 .. Len(v) : q[i] = v[i]
         /\ \A i \in 1 .. Len(u) : v[i] = u[i]
         /\ \A i \in Len(u) + 1 .. Len(u) + Len(e) : v[i] = e[i - Len(u)]
    <2>1. /\ Len(q) = Len(v) + Len(g) /\ \A i \in 1 .. Len(v) : q[i] = v[i]
      <3>1. IsStack(v) /\ IsStack(g)
        BY <1>7, <1>9 DEF Part
      <3>2. Len(v \o g) = Len(v) + Len(g) /\ \A i \in 1 .. Len(v) : (v \o g)[i] = v[i]
        BY <3>1, StackOn
      <3> QED BY <1>5, <3>2
    <2>2. /\ Len(v) = Len(u) + Len(e) /\ \A i \in 1 .. Len(u) : v[i] = u[i]
          /\ \A i \in Len(u) + 1 .. Len(u) + Len(e) : v[i] = e[i - Len(u)]
      BY <1>4, <1>6, <1>8, StackOn DEF Part
    <2>3. Len(u) \in Nat /\ Len(v) \in Nat /\ Len(e) \in Nat
      BY <1>6, <1>8, <1>9, StackFacts DEF Part
    <2> QED BY <1>7, <2>1, <2>2, <2>3
  <1>12. DOMAIN q = 1 .. Len(q) /\ q # <<>> /\ IsStack(q) /\ \A i \in 1 .. Len(q) : q[i] \in ToSet(q)
    <2>1. IsStack(q)
      BY <1>10 DEF Part
    <2>2. DOMAIN q = 1 .. Len(q) /\ (q = <<>> <=> Len(q) = 0) /\ \A i \in 1 .. Len(q) : q[i] \in ToSet(q)
      BY <2>1, StackFacts
    <2> QED BY <1>11, <2>1, <2>2
  <1>13. \A i \in 1 .. Len(v) : q[i].op # "booted"
    <2>1. \A i \in 1 .. Len(v) : v[i] \in ToSet(v)
      BY <1>9, StackFacts DEF Part
    <2>2. \A i \in 1 .. Len(v) : v[i].op \in {"orphan", "reconcile", "rerun", "retool"} \cup {"resume"}
      BY <1>9, <2>1 DEF Part
    <2> QED BY <1>11, <2>2
  <1>14. ASSUME NEW i \in 1 .. Len(q), q[i].op = "rerun"
         PROVE  \E k \in i + 1 .. Len(q) : q[k].op = "resume" /\ q[k].t = q[i].t
    <2>1. q[i].t \in X
      BY <1>10, <1>12, <1>14 DEF Part
    <2>2. PICK h \in 1 .. Len(e) : e[h].op = "resume" /\ e[h].t = q[i].t
      BY <1>6, <2>1
    <2>3. i <= Len(u)
      <3>1. SUFFICES ASSUME i > Len(u) PROVE FALSE
        BY <1>11
      <3>2. CASE i <= Len(v)
        <4>1. q[i] = e[i - Len(u)] /\ i - Len(u) \in 1 .. Len(e)
          BY <1>11, <3>1, <3>2
        <4>2. e[i - Len(u)].op = "resume"
          BY <1>6, <4>1, StackFacts DEF Part
        <4> QED BY <1>14, <4>1, <4>2
      <3>3. CASE i > Len(v)
        <4>1. i = Len(v) + 1
          <5>1. Len(v) \in Nat /\ Len(q) = Len(v) + 1 /\ i \in 1 .. Len(q) /\ i > Len(v)
            BY <1>11, <3>3
          <5> QED BY <5>1, NatLast
        <4>2. q[i] = g[1] /\ 1 \in 1 .. Len(g)
          <5>1. \A n \in Len(v) + 1 .. Len(v) + Len(g) : (v \o g)[n] = g[n - Len(v)]
            BY <1>7, <1>9, StackOn DEF Part
          <5> QED BY <1>5, <1>7, <1>11, <4>1, <5>1
        <4>3. g[1].op = "booted"
          BY <1>7, <4>2, StackFacts DEF Part
        <4> QED BY <1>14, <4>2, <4>3
      <3> QED BY <1>11, <3>2, <3>3
    <2>4. PICK k : k = Len(u) + h
      OBVIOUS
    <2>5. k \in i + 1 .. Len(q) /\ q[k] = e[h]
      <3>1. PICK l, m, n : l = Len(u) /\ m = Len(e) /\ n = Len(q)
        OBVIOUS
      <3>2. l \in Nat /\ m \in Nat /\ n = l + m + 1 /\ Len(v) = l + m /\ i \in 1 .. n /\ i <= l /\ h \in 1 .. m /\ k = l + h
        BY <1>11, <2>2, <2>3, <2>4, <3>1
      <3>3. k \in i + 1 .. n /\ k \in 1 .. l + m /\ k \in l + 1 .. l + m /\ k - l = h
        BY <3>2, NatShift
      <3>4. q[k] = v[k] /\ v[k] = e[k - l]
        BY <1>11, <3>1, <3>2, <3>3
      <3> QED BY <3>1, <3>3, <3>4
    <2> QED BY <2>2, <2>5
  <1>15. \A i \in 1 .. Len(q) : q[i].op \in BootOps
    BY <1>10, <1>12 DEF Part
  <1>16. ASSUME NEW i \in 1 .. Len(q) PROVE FrameFits(q, i, j, "boot")
    <2>1. q[i].op \in BootOps /\ \A k \in i .. Len(q) : q[k].op \in BootOps
      BY <1>15
    <2>2. q[i].op \in OpsOf(j[1])
      <3>1. BootOps \subseteq OpsOf("host")
        BY DEF OpsOf
      <3> QED BY <2>1, <3>1
    <2>3. q[i].op \notin Heads \cup Sends \cup {"model", "compact", "continue", "cancel", "notify", "failnodes"}
      BY <2>1 DEF BootOps, Heads, Sends
    <2>4. q[i].op = "booted" => i = Len(q)
      BY <1>11, <1>13
    <2> QED BY <1>14, <2>1, <2>2, <2>3, <2>4 DEF FrameFits, Heads
  <1>17. StackOK(q, j, "boot")
    BY <1>12, <1>16 DEF StackOK
  <1>18. \A t \in X : \E f \in ToSet(q) : f.op = "resume" /\ f.t = t
    <2>1. TAKE t \in X
    <2>2. PICK h \in 1 .. Len(e) : e[h].op = "resume" /\ e[h].t = t
      BY <1>6
    <2>3. Len(u) + h \in 1 .. Len(q) /\ q[Len(u) + h] = e[h]
      BY <1>11, <2>2
    <2> QED BY <1>12, <2>2, <2>3
  <1>19. \A t \in X : \E f \in ToSet(q) : f.op = "orphan" /\ f.t = t
    <2>1. TAKE t \in X
    <2>2. PICK h \in 1 .. Len(a) : a[h].op = "orphan" /\ a[h].t = t
      BY <1>6
    <2>3. a[h] \in ToSet(a)
      BY <1>6, <2>2, StackFacts DEF Part
    <2>4. ToSet(a) \subseteq ToSet(u)
      <3>1. Part(a \o b, {"orphan"} \cup {"reconcile"}, X) /\ ToSet(a \o b) = ToSet(a) \cup ToSet(b)
        BY <1>6, <1>7, Parts, StackOn DEF Part
      <3>2. /\ Part(a \o b \o c, {"orphan"} \cup {"reconcile"} \cup {"rerun"}, X)
            /\ ToSet(a \o b \o c) = ToSet(a \o b) \cup ToSet(c)
        BY <1>6, <3>1, Parts, StackOn DEF Part
      <3>3. ToSet(a \o b \o c \o d) = ToSet(a \o b \o c) \cup ToSet(d)
        BY <1>6, <3>2, StackOn DEF Part
      <3> QED BY <1>3, <3>1, <3>2, <3>3
    <2>5. ToSet(u) \subseteq ToSet(v) /\ ToSet(v) \subseteq ToSet(q)
      <3>1. ToSet(v) = ToSet(u) \cup ToSet(e)
        BY <1>4, <1>6, <1>8, StackOn DEF Part
      <3>2. ToSet(q) = ToSet(v) \cup ToSet(g)
        BY <1>5, <1>7, <1>9, StackOn DEF Part
      <3> QED BY <3>1, <3>2
    <2> QED BY <2>2, <2>3, <2>4, <2>5
  <1> QED BY <1>1, <1>10, <1>12, <1>17, <1>18, <1>19

\* Everything that was stored is registered again, and q is still to be done.
Reborn(r, q) ==
  /\ DOMAIN r = Fields /\ r.mem = r.disk /\ r.queue = {} /\ r.packing = {} /\ r.timers = {} /\ r.wake = {}
  /\ DOMAIN r.pool = {"live", "spawned"} /\ r.pool.live = {t \in Tasks : Live(r.disk[t])}
  /\ DOMAIN r.jobs = Jobs /\ r.jobs[<<"host">>] = q /\ \A j \in Jobs : j # <<"host">> => r.jobs[j] = <<>>
  /\ StackOK(q, <<"host">>, "boot") /\ Part(q, BootOps, {t \in Tasks : r.disk[t] # NoTask})
  /\ \A t \in Tasks : r.disk[t] # NoTask => /\ \E f \in ToSet(q) : f.op = "orphan" /\ f.t = t
                                            /\ \E f \in ToSet(q) : f.op = "resume" /\ f.t = t

LEMMA RebornInv ==
  ASSUME NEW r, NEW q, Reborn(r, q), Durable(r)
  PROVE  Inv(r, "boot", {})
  <1>1. \A t \in Tasks : r.mem[t] = NoTask \/ Block(r.mem[t])
    BY DEF Reborn, Durable
  <1>2. IsStack(<<>>) /\ ToSet(<<>>) = {} /\ DOMAIN <<>> = {}
    <2>1. DOMAIN <<>> = {}
      OBVIOUS
    <2> QED BY <2>1, OneFrame, SuffixNone
  <1>3. /\ DOMAIN r.jobs = Jobs /\ \A j \in Jobs : j # <<"host">> => r.jobs[j] = <<>> /\ Held(r, j) = {}
        /\ <<"host">> \in Jobs /\ Held(r, <<"host">>) = ToSet(q)
    BY <1>2, JobFacts DEF Reborn, Held
  <1>4. \A j \in Jobs : \A f \in Held(r, j) :
          f.op \in BootOps /\ (f.op \notin {"reconcile", "booted"} => f.t \in Tasks /\ r.mem[f.t] # NoTask)
    <2>1. TAKE j \in Jobs
    <2>2. TAKE f \in Held(r, j)
    <2>3. f \in ToSet(q)
      BY <1>3, <2>2
    <2> QED BY <2>3 DEF Reborn, Part
  <1>5. \A t, j : j \in Jobs => ~HopAt(r, j, t)
    <2>1. SUFFICES ASSUME NEW t, NEW j \in Jobs, HopAt(r, j, t) PROVE FALSE
      OBVIOUS
    <2>2. IsStack(r.jobs[j])
      BY <1>2, <1>3 DEF Reborn, StackOK
    <2>3. r.jobs[j][1] \in Held(r, j)
      <3>1. r.jobs[j] # <<>> /\ Len(r.jobs[j]) \in Nat /\ (r.jobs[j] = <<>> <=> Len(r.jobs[j]) = 0)
        BY <2>1, <2>2, StackFacts DEF HopAt
      <3>2. 1 \in 1 .. Len(r.jobs[j])
        BY <3>1
      <3> QED BY <2>2, <3>2, StackFacts DEF Held
    <2>4. r.jobs[j][1].op \in BootOps
      BY <1>4, <2>3
    <2> QED BY <2>1, <2>4 DEF HopAt, BootOps
  <1>6. \A t : ~Born(r, t)
    <2>1. SUFFICES ASSUME NEW t, NEW j \in Jobs, NEW f \in Held(r, j), f.op \in Sends PROVE FALSE
      BY DEF Born, Holds
    <2>2. f.op \in BootOps
      BY <1>4
    <2> QED BY <2>1, <2>2 DEF BootOps, Sends
  <1>7. \A t \in Tasks : Known(r, t) <=> r.mem[t] # NoTask
    BY <1>6 DEF Known
  <1>8. Typed(r)
    <2>1. \A t \in Tasks : Owned(t, r.mem[t]) /\ Owned(t, r.disk[t]) /\ (r.disk[t] = NoTask \/ Block(r.disk[t]))
      BY DEF Reborn, Durable
    <2>2. DOMAIN r.mem = Tasks /\ DOMAIN r.disk = Tasks
      BY DEF Reborn, Durable
    <2> QED BY <1>1, <1>3, <2>1, <2>2 DEF Typed, Reborn, Fields
  <1>9. Stacks(r, "boot")
    <2>1. SUFFICES ASSUME NEW j \in Jobs PROVE StackOK(r.jobs[j], j, "boot")
      BY DEF Stacks
    <2>2. CASE j = <<"host">>
      BY <2>2 DEF Reborn
    <2>3. CASE j # <<"host">>
      BY <1>2, <1>3, <2>3 DEF StackOK
    <2> QED BY <2>2, <2>3
  <1>10. FramesKnown(r)
    <2>1. SUFFICES ASSUME NEW j \in Jobs, NEW f \in Held(r, j) PROVE FrameKnown(r, f)
      BY DEF FramesKnown
    <2>2. f.op \in BootOps /\ (f.op \notin {"reconcile", "booted"} => f.t \in Tasks /\ r.mem[f.t] # NoTask)
      BY <1>4
    <2>3. f.op \notin {"cancel", "notify", "dispatch"}
      BY <2>2 DEF BootOps
    <2>4. f.op \notin Nameless => Known(r, f.t)
      BY <1>7, <2>2 DEF Nameless
    <2> QED BY <2>3, <2>4 DEF FrameKnown
  <1>11. ListsKnown(r)
    BY DEF ListsKnown, Reborn
  <1>12. Family(r, "boot")
    <2>1. \A t \in Tasks : Parent[t] # Orphan => Parent[t] \in Tasks
      BY TaskAssumption
    <2> QED BY <1>7, <2>1 DEF Family, Durable, Reborn
  <1>13. Newborns(r)
    <2>1. \A j \in Jobs : \A f \in Held(r, j) : f.op \notin Sends
      BY <1>4 DEF BootOps, Sends
    <2> QED BY <2>1 DEF Newborns
  <1>14. Saved(r, "boot")
    BY <1>1, <1>7, BlockFacts DEF Saved, Reborn
  <1>15. Books(r)
    BY DEF Books, Reborn
  <1>16. Listed(r, {})
    <2>1. SUFFICES ASSUME NEW t \in Tasks, r.mem[t].st = "READY" PROVE ListedTask(r, t)
      BY DEF Listed
    <2>2. r.disk[t] # NoTask
      BY <2>1, NoTaskFacts DEF Reborn
    <2>3. \E f \in Held(r, <<"host">>) : f.op = "resume" /\ f.t = t
      BY <1>3, <2>2 DEF Reborn
    <2> QED BY <2>3 DEF ListedTask, Holds
  <1>17. Orphans(r, {})
    <2>1. SUFFICES ASSUME NEW t \in Tasks, Live(r.mem[t]) PROVE Holds(r, t, <<"host">>, {"orphan"})
      BY DEF Orphans
    <2>2. r.disk[t] # NoTask
      BY <2>1, NoTaskFacts DEF Reborn
    <2>3. \E f \in Held(r, <<"host">>) : f.op = "orphan" /\ f.t = t
      BY <1>3, <2>2 DEF Reborn
    <2> QED BY <2>3 DEF Holds
  <1>18. \A t \in Tasks : /\ r.jobs[ModelJob(t)] = <<>> /\ ~Hot(r, t) /\ ~InLoop(r, t) /\ ~Looped(r, t)
                          /\ ~OwnHop(r, TurnJob(t)) /\ \A ops : ~Holds(r, t, TurnJob(t), ops)
    <2>1. TAKE t \in Tasks
    <2>2. TurnJob(t) \in Jobs /\ ModelJob(t) \in Jobs /\ <<"loop">> \in Jobs
      BY JobFacts
    <2>3. TurnJob(t) # <<"host">> /\ ModelJob(t) # <<"host">> /\ <<"loop">> # <<"host">>
      <3>1. TurnJob(t)[1] = "turn" /\ ModelJob(t)[1] = "model" /\ <<"loop">>[1] = "loop" /\ <<"host">>[1] = "host"
        BY JobFacts
      <3> QED BY <3>1
    <2>4. /\ r.jobs[ModelJob(t)] = <<>> /\ r.jobs[TurnJob(t)] = <<>>
          /\ Held(r, TurnJob(t)) = {} /\ Held(r, <<"loop">>) = {}
      BY <1>3, <2>2, <2>3
    <2>5. ~Hot(r, t)
      BY <2>4 DEF Hot
    <2>6. ~InLoop(r, t) /\ ~Looped(r, t) /\ \A ops : ~Holds(r, t, TurnJob(t), ops)
      BY <2>4 DEF InLoop, Looped, Holds
    <2>7. Len(<<>>) = 0
      OBVIOUS
    <2>8. ~OwnHop(r, TurnJob(t))
      BY <2>4, <2>7 DEF OwnHop
    <2> QED BY <2>4, <2>5, <2>6, <2>8
  <1>19. Handles(r)
    BY <1>18 DEF Handles, HandlesOf, HandlesFor
  <1>20. Asks(r)
    BY <1>5, <1>18 DEF Asks, AsksOf
  <1>21. Told(r)
    BY <1>5 DEF Told, Durable, Reborn
  <1> QED BY <1>8, <1>9, <1>10, <1>11, <1>12, <1>13, <1>14, <1>15, <1>16, <1>17, <1>19, <1>20, <1>21 DEF Inv

\* Restore.
LEMMA RestoreStep ==
  ASSUME IInv, Restore
  PROVE  Onward
  <1>1. PICK known : known = Ordered(Stored)
    OBVIOUS
  <1>2. PICK q : q = BootStack(known)
    OBVIOUS
  <1>3. PICK po : po = registerRestored(Stored, {t \in Stored : Live(disk[t])})
    OBVIOUS
  <1>4. PICK r : r = [S EXCEPT !.mem = disk, !.pool = po, !.jobs[<<"host">>] = q]
    OBVIOUS
  <1>5. phase = "down" /\ phase' = "boot" /\ Do(r)
    BY <1>1, <1>2, <1>3, <1>4 DEF Restore, BootStack, Each
  <1>6. /\ Inv(S, phase, {}) /\ mem = Nothing /\ queue = {} /\ packing = {} /\ timers = {} /\ wake = {}
        /\ jobs = Idle
    BY <1>5 DEF IInv, Down
  <1>7. Durable(S)
    BY <1>6, StoreDurable
  <1>8. known \in Seq(Tasks) /\ ToSet(known) = Stored
    BY <1>1, OrderedFacts DEF Stored
  <1>9. PICK j : j = <<"host">>
    OBVIOUS
  <1>10. j[1] = "host" /\ j \in Jobs
    BY <1>9, JobFacts
  <1>11. /\ StackOK(q, j, "boot") /\ Part(q, BootOps, Stored)
         /\ \A t \in Stored : /\ \E f \in ToSet(q) : f.op = "orphan" /\ f.t = t
                              /\ \E f \in ToSet(q) : f.op = "resume" /\ f.t = t
    BY <1>2, <1>8, <1>10, BootStackFacts
  <1>12. /\ DOMAIN r = Fields /\ r.mem = disk /\ r.disk = disk /\ r.queue = {} /\ r.packing = {} /\ r.timers = {}
         /\ r.wake = {} /\ r.pool = po /\ r.jobs = [jobs EXCEPT ![j] = q]
    BY <1>4, <1>6, <1>9, SFacts DEF Fields
  <1>13. DOMAIN r.jobs = Jobs /\ r.jobs[j] = q /\ \A i \in Jobs : i # j => r.jobs[i] = <<>>
    BY <1>6, <1>10, <1>12 DEF Idle
  <1>14. DOMAIN r.pool = {"live", "spawned"} /\ r.pool.live = {t \in Tasks : Live(r.disk[t])}
    <2>1. \A t \in Tasks : Live(disk[t]) => disk[t] # NoTask
      BY NoTaskFacts
    <2> QED BY <1>3, <1>12, <2>1 DEF registerRestored, Stored
  <1>15. Stored = {t \in Tasks : r.disk[t] # NoTask}
    BY <1>12 DEF Stored
  <1>16. Reborn(r, q)
    <2>1. \A t \in Tasks : r.disk[t] # NoTask => /\ \E f \in ToSet(q) : f.op = "orphan" /\ f.t = t
                                                 /\ \E f \in ToSet(q) : f.op = "resume" /\ f.t = t
      BY <1>11, <1>15
    <2> QED BY <1>9, <1>11, <1>12, <1>13, <1>14, <1>15, <2>1 DEF Reborn
  <1>17. Durable(r)
    <2>1. PICK d : d = S.disk
      OBVIOUS
    <2>2. S.disk = d /\ r.disk = d
      BY <1>12, <2>1, SFacts
    <2>3. \A t, i, ref : MarkOK(S, t, i, ref) => MarkOK(r, t, i, ref)
      BY <2>2 DEF MarkOK
    <2> QED BY <1>7, <2>2, <2>3 DEF Durable
  <1>18. PICK ph : ph = "boot"
    OBVIOUS
  <1>19. Inv(r, ph, {})
    BY <1>16, <1>17, <1>18, RebornInv
  <1>20. Inv(S', ph, {}) /\ mem' = r.mem
    BY <1>5, <1>19, Done
  <1>21. IInv'
    BY <1>5, <1>18, <1>20 DEF IInv, Down
  <1>22. Legal(S, S')
    BY <1>6, SFacts DEF Legal, Nothing
  <1> QED BY <1>21, <1>22 DEF Onward

----------------------------------------------------------------------------
(* startAsyncWork *)

\* A frame stays known while the tasks stay known and what is over stays as it is.
LEMMA FrameStaysOver ==
  ASSUME NEW s, NEW r, \A t : Known(s, t) => Known(r, t),
         \A t \in Tasks : Over(s, t) => r.mem[t].st = s.mem[t].st,
         NEW f, FrameKnown(s, f)
  PROVE  FrameKnown(r, f)
  <1>1. ASSUME NEW t \in Tasks, Over(s, t) PROVE Over(r, t)
    <2>1. CASE s.mem[t].st = "TERMINATED"
      BY <1>1, <2>1 DEF Over
    <2>2. CASE /\ s.mem[t].st = "none" /\ Parent[t] # Orphan
               /\ Known(s, Parent[t]) /\ s.mem[Parent[t]].st = "TERMINATED"
      <3>1. Known(r, Parent[t]) /\ Parent[t] \in Tasks
        BY <2>2 DEF Known
      <3>2. Over(s, Parent[t])
        BY <2>2 DEF Over
      <3> QED BY <1>1, <2>2, <3>1, <3>2 DEF Over
    <2> QED BY <1>1, <2>1, <2>2 DEF Over
  <1> QED BY <1>1 DEF FrameKnown

\* The task p is about to start work in job j, with the new children K.
Starting(s, j, p, K) ==
  /\ Known(s, p) /\ s.mem[p].st = "RUNNING" /\ s.jobs[ModelJob(p)] = <<>> /\ ~Hot(s, p)
  /\ \/ j = TurnJob(p) /\ s.jobs[j] = <<>> /\ ~InLoop(s, p)
     \/ j = <<"loop">> /\ Len(s.jobs[j]) = 1 /\ s.jobs[j][1].op = "try"
  /\ K \subseteq Tasks /\ \A k \in K : Parent[k] = p /\ s.mem[k] = NoTask

\* The block of p with its new work.
Grown(s, p, b, K) ==
  /\ Block(b) /\ b.st = "RUNNING" /\ b.ask = s.mem[p].ask /\ Owned(p, b)
  /\ \A i \in Marks(b) : i \in Marks(s.mem[p]) /\ b.works[i].ref = s.mem[p].works[i].ref
  /\ \A k : Completable(s.mem[p], k) => Completable(b, k)
  /\ \A k \in K : Completable(b, k)

\* What is left to do: p settles, the children are sent, the calls are launched.
Works(q, j, ph, p, K) ==
  /\ StackOK(q, j, ph) /\ q # <<>> /\ q[1].op = "settle"
  /\ \A f \in ToSet(q) : \/ f.op \in {"settle", "launch"} /\ f.t = p
                         \/ f.op = "send" /\ f.t \in K
  /\ \A k \in K : \E f \in ToSet(q) : f.op = "send" /\ f.t = k

Started(s, r, j, p, b, K, q) ==
  /\ Is(r, r.mem, s.disk, s.queue, s.packing, s.timers, s.wake, r.pool, r.jobs)
  /\ DOMAIN r.mem = Tasks /\ r.mem[p] = b /\ \A k \in K : Fresh(r.mem[k])
  /\ \A x \in Tasks : x = p \/ x \in K \/ r.mem[x] = s.mem[x]
  /\ DOMAIN r.pool = {"live", "spawned"} /\ r.pool.live = s.pool.live \cup K
  /\ DOMAIN r.jobs = Jobs /\ r.jobs[j] = q \o s.jobs[j]
  /\ \A i \in Jobs : i # j => r.jobs[i] = s.jobs[i]

\* Nothing is under way for a task that does not exist.
LEMMA Unknown ==
  ASSUME NEW s, NEW ph, NEW L, Inv(s, ph, L), NEW k \in Tasks, ~Known(s, k)
  PROVE  /\ s.jobs[ModelJob(k)] = <<>> /\ ~Hot(s, k) /\ ~InLoop(s, k) /\ ~Looped(s, k)
         /\ \A i \in Jobs : ~HopAt(s, i, k)
  <1>1. ASSUME NEW i \in Jobs, NEW f \in Held(s, i), f.op \notin Nameless PROVE f.t # k
    <2>1. FrameKnown(s, f)
      BY DEF Inv, FramesKnown
    <2> QED BY <1>1, <2>1 DEF FrameKnown
  <1>2. ASSUME NEW i \in Jobs, s.jobs[i] # <<>>
        PROVE  /\ StackOK(s.jobs[i], i, ph) /\ IsStack(s.jobs[i]) /\ Len(s.jobs[i]) \in Nat
               /\ DOMAIN s.jobs[i] = 1 .. Len(s.jobs[i])
               /\ 1 \in 1 .. Len(s.jobs[i]) /\ s.jobs[i][1] \in Held(s, i) /\ FrameFits(s.jobs[i], 1, i, ph)
               /\ \A h \in 1 .. Len(s.jobs[i]) : s.jobs[i][h] \in Held(s, i) /\ FrameFits(s.jobs[i], h, i, ph)
    <2>1. PICK q : q = s.jobs[i]
      OBVIOUS
    <2>2. StackOK(q, i, ph) /\ IsStack(q) /\ q # <<>>
      BY <1>2, <2>1 DEF Inv, Stacks, StackOK
    <2>3. Len(q) \in Nat /\ DOMAIN q = 1 .. Len(q) /\ Len(q) # 0 /\ \A h \in 1 .. Len(q) : q[h] \in ToSet(q)
      BY <2>2, StackFacts
    <2>4. 1 \in 1 .. Len(q)
      BY <2>3
    <2>5. \A h \in 1 .. Len(q) : FrameFits(q, h, i, ph)
      BY <2>2, <2>3 DEF StackOK
    <2> QED BY <2>1, <2>2, <2>3, <2>4, <2>5 DEF Held
  <1>3. s.jobs[ModelJob(k)] = <<>>
    <2>1. SUFFICES ASSUME s.jobs[ModelJob(k)] # <<>> PROVE FALSE
      OBVIOUS
    <2>2. PICK i : i = ModelJob(k)
      OBVIOUS
    <2>3. i \in Jobs /\ i[1] = "model" /\ i[2] = k
      BY <2>2, JobFacts
    <2>4. s.jobs[i][1] \in Held(s, i) /\ FrameFits(s.jobs[i], 1, i, ph)
      BY <1>2, <2>1, <2>2, <2>3
    <2>5. s.jobs[i][1].op \in {"model", "compact"}
      BY <2>3, <2>4 DEF FrameFits, OpsOf
    <2>6. s.jobs[i][1].t = k
      BY <2>3, <2>4, <2>5 DEF FrameFits
    <2> QED BY <1>1, <2>3, <2>4, <2>5, <2>6 DEF Nameless, Sends
  <1>4. ~InLoop(s, k) /\ ~Looped(s, k)
    <2>1. <<"loop">> \in Jobs
      BY JobFacts
    <2> QED BY <1>1, <2>1 DEF InLoop, Looped, Holds, Nameless, Sends
  <1>5. \A i \in Jobs : ~HopAt(s, i, k)
    <2>1. SUFFICES ASSUME NEW i \in Jobs, HopAt(s, i, k) PROVE FALSE
      OBVIOUS
    <2>2. s.jobs[i] # <<>> /\ s.jobs[i][1].op \in {"publish", "advance"} /\ s.jobs[i][1].t = k
      BY <2>1 DEF HopAt
    <2>3. s.jobs[i][1] \in Held(s, i)
      BY <1>2, <2>2
    <2> QED BY <1>1, <2>2, <2>3 DEF Nameless, Sends
  <1>6. ~Hot(s, k)
    <2>1. SUFFICES ASSUME NEW f \in Held(s, TurnJob(k)), f.op \in {"settle", "publish", "advance", "continue"} PROVE FALSE
      BY DEF Hot
    <2>2. PICK i : i = TurnJob(k)
      OBVIOUS
    <2>3. i \in Jobs /\ i[1] = "turn" /\ i[2] = k
      BY <2>2, JobFacts
    <2>4. PICK q : q = s.jobs[i]
      OBVIOUS
    <2>5. q # <<>>
      BY <2>1, <2>2, <2>4, SuffixNone, OneFrame DEF Held
    <2>6. /\ IsStack(q) /\ Len(q) \in Nat /\ DOMAIN q = 1 .. Len(q)
          /\ \A h \in 1 .. Len(q) : q[h] \in Held(s, i) /\ FrameFits(q, h, i, ph)
      BY <1>2, <2>3, <2>4, <2>5
    <2>7. PICK h \in 1 .. Len(q) : q[h] = f
      BY <2>1, <2>2, <2>4, <2>6, StackFacts DEF Held
    <2>8. FrameFits(q, h, i, ph) /\ i[1] # "loop"
      BY <2>3, <2>6, <2>7
    <2>9. CASE f.op \in {"settle", "continue"}
      <3>1. f.t = k
        BY <2>3, <2>7, <2>8, <2>9 DEF FrameFits
      <3> QED BY <1>1, <2>1, <2>2, <2>3, <2>9, <3>1 DEF Nameless, Sends
    <2>10. CASE f.op \in {"publish", "advance"}
      <3>1. f.t = k \/ (Len(q) = 2 /\ q[2].op = "continue")
        BY <2>3, <2>7, <2>8, <2>10 DEF FrameFits
      <3>2. CASE f.t = k
        BY <1>1, <2>1, <2>2, <2>3, <2>10, <3>2 DEF Nameless, Sends
      <3>3. CASE Len(q) = 2 /\ q[2].op = "continue"
        <4>1. 2 \in 1 .. Len(q)
          BY <3>3
        <4>2. q[2] \in Held(s, i) /\ FrameFits(q, 2, i, ph)
          BY <2>6, <4>1
        <4>3. q[2].t = k
          BY <2>3, <3>3, <4>2 DEF FrameFits
        <4> QED BY <1>1, <2>3, <3>3, <4>2, <4>3 DEF Nameless, Sends
      <3> QED BY <3>1, <3>2, <3>3
    <2> QED BY <2>1, <2>9, <2>10
  <1> QED BY <1>3, <1>4, <1>5, <1>6

LEMMA StartingFacts ==
  ASSUME NEW s, NEW ph, NEW L, Inv(s, ph, L), ph # "down", NEW j, NEW p, NEW K, Starting(s, j, p, K)
  PROVE  /\ j \in Jobs /\ p \in Tasks /\ Block(s.mem[p]) /\ Live(s.mem[p]) /\ p \notin K /\ j[1] \in {"turn", "loop"}
         /\ \A k \in K : /\ k \in Tasks /\ s.disk[k] = NoTask /\ ~Known(s, k) /\ ~Born(s, k)
                         /\ Parent[k] # Orphan /\ ~Over(s, k)
                         /\ s.jobs[ModelJob(k)] = <<>> /\ ~Hot(s, k) /\ ~InLoop(s, k) /\ ~Looped(s, k)
                         /\ \A i \in Jobs : ~HopAt(s, i, k)
         /\ \A x \in Tasks : (s.mem[x] # NoTask \/ s.disk[x] # NoTask) /\ Parent[x] # Orphan => Parent[x] \notin K
  <1>1. /\ j \in Jobs /\ p \in Tasks /\ s.mem[p] # NoTask /\ j[1] \in {"turn", "loop"}
    <2>1. p \in Tasks /\ s.mem[p] # NoTask /\ (j = TurnJob(p) \/ j = <<"loop">>)
      BY DEF Starting, Known
    <2>2. TurnJob(p) \in Jobs /\ TurnJob(p)[1] = "turn" /\ <<"loop">> \in Jobs /\ <<"loop">>[1] = "loop"
      BY <2>1, JobFacts
    <2> QED BY <2>1, <2>2
  <1>2. Block(s.mem[p]) /\ Live(s.mem[p])
    BY <1>1, BlockFacts DEF Inv, Typed, Starting
  <1>3. p \notin K
    BY <1>1 DEF Starting
  <1>4. ASSUME NEW k \in K
        PROVE  /\ k \in Tasks /\ s.disk[k] = NoTask /\ ~Known(s, k) /\ ~Born(s, k)
               /\ Parent[k] # Orphan /\ ~Over(s, k)
    <2>1. k \in Tasks /\ Parent[k] = p /\ s.mem[k] = NoTask /\ p # Orphan
      BY <1>1, TaskAssumption DEF Starting
    <2>2. s.disk[k] = NoTask
      BY <1>2, <2>1 DEF Inv, Family
    <2>3. ~Known(s, k)
      BY <2>1 DEF Known
    <2>4. ~Born(s, k)
      <3>1. SUFFICES ASSUME Born(s, k) PROVE FALSE
        OBVIOUS
      <3>2. PICK i \in Jobs : \E f \in Held(s, i) : f.op \in Sends /\ f.t = k
        BY <3>1 DEF Born, Holds
      <3>3. PICK f \in Held(s, i) : f.op \in Sends /\ f.t = k
        BY <3>2
      <3>4. NewbornFits(s, f)
        BY <3>3 DEF Inv, Newborns
      <3> QED BY <2>1, <3>3, <3>4 DEF NewbornFits
    <2>5. ~Over(s, k)
      <3>1. s.mem[k].st = "none" /\ s.mem[p].st = "RUNNING"
        BY <2>1, NoTaskFacts DEF Starting
      <3> QED BY <2>1, <3>1 DEF Over
    <2> QED BY <2>1, <2>2, <2>3, <2>4, <2>5
  <1>5. ASSUME NEW k \in K
        PROVE  /\ s.jobs[ModelJob(k)] = <<>> /\ ~Hot(s, k) /\ ~InLoop(s, k) /\ ~Looped(s, k)
               /\ \A i \in Jobs : ~HopAt(s, i, k)
    BY <1>4, <1>5, Unknown
  <1>6. \A x \in Tasks : (s.mem[x] # NoTask \/ s.disk[x] # NoTask) /\ Parent[x] # Orphan => Parent[x] \notin K
    <2>1. SUFFICES ASSUME NEW x \in Tasks, s.mem[x] # NoTask \/ s.disk[x] # NoTask, Parent[x] # Orphan, Parent[x] \in K
                   PROVE FALSE
      OBVIOUS
    <2>2. s.disk[Parent[x]] = NoTask /\ ~Known(s, Parent[x])
      BY <1>4, <2>1
    <2> QED BY <2>1, <2>2 DEF Inv, Family
  <1> QED BY <1>1, <1>2, <1>3, <1>4, <1>5, <1>6

WorkBegins(s, r, ph, L, j, p, b, K, q) ==
  /\ Inv(s, ph, L) /\ ph # "down" /\ Starting(s, j, p, K) /\ Grown(s, p, b, K)
  /\ Works(q, j, ph, p, K) /\ Started(s, r, j, p, b, K, q)

\* What the start of work changes.
LEMMA StartedFacts ==
  ASSUME NEW s, NEW r, NEW ph, NEW L, NEW j, NEW p, NEW b, NEW K, NEW q, WorkBegins(s, r, ph, L, j, p, b, K, q)
  PROVE  /\ \A i \in Jobs : i # j => r.jobs[i] = s.jobs[i] /\ Held(r, i) = Held(s, i)
         /\ Held(r, j) = ToSet(q) \cup Held(s, j) /\ r.jobs[j] # <<>> /\ r.jobs[j][1].op = "settle"
         /\ StackOK(r.jobs[j], j, ph)
         /\ r.disk = s.disk /\ r.queue = s.queue /\ r.packing = s.packing /\ r.timers = s.timers
         /\ r.wake = s.wake /\ DOMAIN r = Fields
  <1>1. /\ Inv(s, ph, L) /\ ph # "down" /\ Starting(s, j, p, K) /\ Works(q, j, ph, p, K)
        /\ Started(s, r, j, p, b, K, q)
    BY DEF WorkBegins
  <1>2. j \in Jobs
    BY <1>1, StartingFacts
  <1>3. PICK u : u = s.jobs[j]
    OBVIOUS
  <1>4. StackOK(u, j, ph) /\ IsStack(u) /\ StackOK(q, j, ph) /\ IsStack(q) /\ q # <<>> /\ q[1].op = "settle"
    BY <1>1, <1>2, <1>3 DEF Inv, Stacks, StackOK, Works
  <1>5. /\ Len(q) \in Nat /\ Len(u) \in Nat /\ Len(q) # 0 /\ DOMAIN q = 1 .. Len(q) /\ DOMAIN u = 1 .. Len(u)
        /\ u = <<>> <=> Len(u) = 0
        /\ \A i \in 1 .. Len(q) : q[i] \in ToSet(q)
    BY <1>4, StackFacts
  <1>6. PICK v : v = q \o u
    OBVIOUS
  <1>7. /\ IsStack(v) /\ Len(v) = Len(q) + Len(u) /\ ToSet(v) = ToSet(q) \cup ToSet(u)
        /\ \A i \in 1 .. Len(q) : v[i] = q[i]
    BY <1>4, <1>6, StackOn
  <1>8. v # <<>> /\ v[1].op = "settle"
    <2>1. v # <<>>
      BY <1>5, <1>7, StackFacts
    <2>2. 1 \in 1 .. Len(q)
      BY <1>5
    <2> QED BY <1>4, <1>7, <2>1, <2>2
  <1>9. Loose(u) /\ Bare(u)
    <2>1. CASE u = <<>>
      <3>1. DOMAIN u = {}
        BY <1>5, <2>1
      <3> QED BY <2>1, <3>1 DEF Loose, Bare
    <2>2. CASE Len(u) = 1 /\ u[1].op = "try"
      <3>1. DOMAIN u = {1}
        BY <1>5, <2>2
      <3> QED BY <2>2, <3>1 DEF Loose, Bare, Heads
    <2> QED BY <1>1, <1>3, <2>1, <2>2 DEF Starting
  <1>10. \A i \in DOMAIN q : q[i].op \in Plain \cup {"settle"} \cup Sends
    BY <1>1, <1>5 DEF Works, Plain, Sends
  <1>11. StackOK(v, j, ph)
    BY <1>4, <1>6, <1>9, <1>10, StackPush
  <1> QED BY <1>1, <1>2, <1>3, <1>6, <1>7, <1>8, <1>11 DEF Started, Is, Held

\* Which tasks there are stays the same; the new children are being created.
LEMMA StartedTasks ==
  ASSUME NEW s, NEW r, NEW ph, NEW L, NEW j, NEW p, NEW b, NEW K, NEW q, WorkBegins(s, r, ph, L, j, p, b, K, q)
  PROVE  /\ \A x \in Tasks : x \notin K =>
              /\ r.mem[x] = NoTask <=> s.mem[x] = NoTask
              /\ r.mem[x].st = s.mem[x].st
              /\ r.mem[x] # NoTask => r.mem[x].ask = s.mem[x].ask
              /\ r.mem[x] # NoTask => (Waits(r.mem[x]) <=> Waits(s.mem[x]))
              /\ r.mem[x] # NoTask => (Pending(r.mem[x]) <=> Pending(s.mem[x]))
              /\ Live(r.mem[x]) <=> Live(s.mem[x])
              /\ \A k : Completable(s.mem[x], k) /\ x = p => Completable(r.mem[x], k)
              /\ x # p => r.mem[x] = s.mem[x]
         /\ \A k \in K : /\ Block(r.mem[k]) /\ r.mem[k] # NoTask /\ r.mem[k].st = "READY" /\ Live(r.mem[k])
                         /\ r.mem[k].works = <<>> /\ r.mem[k].ask = NoAsk /\ Marks(r.mem[k]) = {}
                         /\ Born(r, k) /\ Completable(r.mem[p], k) /\ ~Waits(r.mem[k])
         /\ \A x : Known(r, x) <=> Known(s, x)
         /\ \A x : Born(r, x) <=> Born(s, x) \/ x \in K
         /\ \A x, i, ops : i \in Jobs /\ Holds(s, x, i, ops) => Holds(r, x, i, ops)
         /\ \A x, i, ops : i \in Jobs /\ x # p /\ x \notin K /\ Holds(r, x, i, ops) => Holds(s, x, i, ops)
         /\ Typed(r)
  <1>1. /\ Inv(s, ph, L) /\ ph # "down" /\ Starting(s, j, p, K) /\ Works(q, j, ph, p, K) /\ Grown(s, p, b, K)
        /\ Started(s, r, j, p, b, K, q)
    BY DEF WorkBegins
  <1>2. /\ j \in Jobs /\ p \in Tasks /\ Block(s.mem[p]) /\ Live(s.mem[p]) /\ p \notin K
        /\ \A k \in K : k \in Tasks /\ ~Known(s, k) /\ ~Born(s, k)
    BY <1>1, StartingFacts
  <1>3. /\ \A i \in Jobs : i # j => r.jobs[i] = s.jobs[i] /\ Held(r, i) = Held(s, i)
        /\ Held(r, j) = ToSet(q) \cup Held(s, j) /\ r.disk = s.disk /\ DOMAIN r = Fields
    BY StartedFacts
  <1>4. /\ DOMAIN r.mem = Tasks /\ r.mem[p] = b /\ \A k \in K : Fresh(r.mem[k])
        /\ \A x \in Tasks : x = p \/ x \in K \/ r.mem[x] = s.mem[x]
    BY <1>1 DEF Started
  <1>5. /\ Block(b) /\ b.st = "RUNNING" /\ s.mem[p].st = "RUNNING" /\ b # NoTask /\ s.mem[p] # NoTask
        /\ b.ask = s.mem[p].ask /\ Live(b) /\ ~Waits(b) /\ ~Waits(s.mem[p])
    BY <1>1, <1>2, BlockFacts DEF Grown, Starting, Live, Waits
  <1>6. \A x \in Tasks : x \notin K =>
              /\ r.mem[x] = NoTask <=> s.mem[x] = NoTask
              /\ r.mem[x].st = s.mem[x].st
              /\ r.mem[x] # NoTask => r.mem[x].ask = s.mem[x].ask
              /\ r.mem[x] # NoTask => (Waits(r.mem[x]) <=> Waits(s.mem[x]))
              /\ r.mem[x] # NoTask => (Pending(r.mem[x]) <=> Pending(s.mem[x]))
              /\ Live(r.mem[x]) <=> Live(s.mem[x])
              /\ \A k : Completable(s.mem[x], k) /\ x = p => Completable(r.mem[x], k)
              /\ x # p => r.mem[x] = s.mem[x]
    <2>1. SUFFICES ASSUME NEW x \in Tasks, x \notin K
                   PROVE  /\ r.mem[x] = NoTask <=> s.mem[x] = NoTask
                          /\ r.mem[x].st = s.mem[x].st
                          /\ r.mem[x] # NoTask => r.mem[x].ask = s.mem[x].ask
                          /\ r.mem[x] # NoTask => (Waits(r.mem[x]) <=> Waits(s.mem[x]))
                          /\ r.mem[x] # NoTask => (Pending(r.mem[x]) <=> Pending(s.mem[x]))
                          /\ Live(r.mem[x]) <=> Live(s.mem[x])
                          /\ \A k : Completable(s.mem[x], k) /\ x = p => Completable(r.mem[x], k)
                          /\ x # p => r.mem[x] = s.mem[x]
      OBVIOUS
    <2>2. CASE x # p
      BY <1>4, <2>1, <2>2
    <2>3. CASE x = p
      <3>1. Pending(b) <=> Pending(s.mem[p])
        BY <1>5 DEF Pending
      <3>2. \A k : Completable(s.mem[p], k) => Completable(b, k)
        BY <1>1 DEF Grown
      <3> QED BY <1>2, <1>4, <1>5, <2>3, <3>1, <3>2
    <2> QED BY <2>2, <2>3
  <1>7. ASSUME NEW k \in K
        PROVE  /\ Block(r.mem[k]) /\ r.mem[k] # NoTask /\ r.mem[k].st = "READY" /\ Live(r.mem[k])
               /\ r.mem[k].works = <<>> /\ r.mem[k].ask = NoAsk /\ Marks(r.mem[k]) = {}
               /\ Born(r, k) /\ Completable(r.mem[p], k) /\ ~Waits(r.mem[k])
    <2>1. Fresh(r.mem[k])
      BY <1>4, <1>7
    <2>2. PICK f \in ToSet(q) : f.op = "send" /\ f.t = k
      BY <1>1, <1>7 DEF Works
    <2>3. Born(r, k)
      BY <1>2, <1>3, <2>2 DEF Born, Holds, Sends
    <2>4. Completable(b, k)
      BY <1>1, <1>7 DEF Grown
    <2> QED BY <1>4, <2>1, <2>3, <2>4, FreshFacts DEF Fresh
  <1>8. \A x, i, ops : i \in Jobs /\ Holds(s, x, i, ops) => Holds(r, x, i, ops)
    BY <1>3 DEF Holds
  <1>9. \A x, i, ops : i \in Jobs /\ x # p /\ x \notin K /\ Holds(r, x, i, ops) => Holds(s, x, i, ops)
    <2>1. \A f \in ToSet(q) : f.t = p \/ f.t \in K
      BY <1>1 DEF Works
    <2> QED BY <1>3, <2>1 DEF Holds
  <1>10. \A x : Born(r, x) <=> Born(s, x) \/ x \in K
    <2>1. ASSUME NEW x, Born(r, x), x \notin K PROVE Born(s, x)
      <3>1. PICK i \in Jobs : \E f \in Held(r, i) : f.op \in Sends /\ f.t = x
        BY <2>1 DEF Born, Holds
      <3>2. PICK f \in Held(r, i) : f.op \in Sends /\ f.t = x
        BY <3>1
      <3>3. f \notin ToSet(q)
        BY <1>1, <2>1, <3>2 DEF Works, Sends
      <3>4. f \in Held(s, i)
        BY <1>3, <3>2, <3>3
      <3> QED BY <3>2, <3>4 DEF Born, Holds
    <2> QED BY <1>7, <1>8, <2>1 DEF Born
  <1>11. \A x : Known(r, x) <=> Known(s, x)
    <2>1. \A x \in K : ~Known(r, x) /\ ~Known(s, x)
      BY <1>2, <1>7 DEF Known
    <2> QED BY <1>6, <1>10, <2>1 DEF Known
  <1>12. Typed(r)
    <2>1. /\ DOMAIN s.disk = Tasks
          /\ \A x \in Tasks : /\ s.mem[x] = NoTask \/ Block(s.mem[x])
                              /\ s.disk[x] = NoTask \/ Block(s.disk[x])
                              /\ Owned(x, s.mem[x]) /\ Owned(x, s.disk[x])
      BY <1>1 DEF Inv, Typed
    <2>2. ASSUME NEW x \in Tasks PROVE (r.mem[x] = NoTask \/ Block(r.mem[x])) /\ Owned(x, r.mem[x])
      <3>1. CASE x \in K
        <4>1. DOMAIN r.mem[x].works = {} /\ DOMAIN r.mem[x].ask.path = {}
          BY <1>7, <3>1 DEF NoAsk
        <4> QED BY <1>7, <3>1, <4>1 DEF Owned
      <3>2. CASE x = p
        BY <1>1, <1>4, <1>5, <3>2 DEF Grown
      <3>3. CASE x # p /\ x \notin K
        BY <1>6, <2>1, <3>3
      <3> QED BY <3>1, <3>2, <3>3
    <2>3. DOMAIN r.pool = {"live", "spawned"} /\ DOMAIN r.jobs = Jobs
      BY <1>1 DEF Started
    <2> QED BY <1>3, <1>4, <2>1, <2>2, <2>3 DEF Typed, Fields
  <1> QED BY <1>6, <1>7, <1>8, <1>9, <1>10, <1>11, <1>12

LEMMA StartedFrames ==
  ASSUME NEW s, NEW r, NEW ph, NEW L, NEW j, NEW p, NEW b, NEW K, NEW q, WorkBegins(s, r, ph, L, j, p, b, K, q)
  PROVE  /\ Stacks(r, ph) /\ FramesKnown(r) /\ ListsKnown(r) /\ Family(r, ph) /\ Newborns(r)
         /\ Saved(r, ph)
  <1>1. /\ Inv(s, ph, L) /\ ph # "down" /\ Starting(s, j, p, K) /\ Works(q, j, ph, p, K) /\ Grown(s, p, b, K)
        /\ Started(s, r, j, p, b, K, q)
    BY DEF WorkBegins
  <1>2. /\ j \in Jobs /\ p \in Tasks /\ Live(s.mem[p]) /\ p \notin K /\ Known(s, p)
        /\ \A k \in K : /\ k \in Tasks /\ ~Known(s, k) /\ ~Born(s, k) /\ ~Over(s, k) /\ s.disk[k] = NoTask
                        /\ Parent[k] # Orphan /\ Parent[k] = p /\ s.mem[k] = NoTask
        /\ \A x \in Tasks : (s.mem[x] # NoTask \/ s.disk[x] # NoTask) /\ Parent[x] # Orphan => Parent[x] \notin K
    <2>1. Known(s, p) /\ \A k \in K : Parent[k] = p /\ s.mem[k] = NoTask
      BY <1>1 DEF Starting
    <2> QED BY <1>1, <2>1, StartingFacts
  <1>3. /\ \A i \in Jobs : i # j => r.jobs[i] = s.jobs[i] /\ Held(r, i) = Held(s, i)
        /\ Held(r, j) = ToSet(q) \cup Held(s, j) /\ StackOK(r.jobs[j], j, ph)
        /\ r.disk = s.disk /\ r.queue = s.queue /\ r.packing = s.packing /\ r.timers = s.timers /\ r.wake = s.wake
    BY StartedFacts
  <1>4. /\ \A x \in Tasks : x \notin K =>
             /\ r.mem[x] = NoTask <=> s.mem[x] = NoTask
             /\ r.mem[x].st = s.mem[x].st
             /\ r.mem[x] # NoTask => r.mem[x].ask = s.mem[x].ask
             /\ Live(r.mem[x]) <=> Live(s.mem[x])
             /\ \A k : Completable(s.mem[x], k) /\ x = p => Completable(r.mem[x], k)
             /\ x # p => r.mem[x] = s.mem[x]
        /\ \A k \in K : /\ r.mem[k] # NoTask /\ r.mem[k].st = "READY"
                        /\ r.mem[k].works = <<>> /\ r.mem[k].ask = NoAsk
                        /\ Born(r, k) /\ Completable(r.mem[p], k)
        /\ \A x : Known(r, x) <=> Known(s, x)
        /\ \A x : Born(r, x) <=> Born(s, x) \/ x \in K
        /\ \A x, i, ops : i \in Jobs /\ x # p /\ x \notin K /\ Holds(r, x, i, ops) => Holds(s, x, i, ops)
    BY StartedTasks
  <1>5. Stacks(r, ph)
    <2>1. SUFFICES ASSUME NEW i \in Jobs PROVE StackOK(r.jobs[i], i, ph)
      BY DEF Stacks
    <2>2. CASE i = j
      BY <1>3, <2>2
    <2>3. CASE i # j
      BY <1>1, <1>3, <2>3 DEF Inv, Stacks
    <2> QED BY <2>2, <2>3
  <1>6. FramesKnown(r)
    <2>1. SUFFICES ASSUME NEW i \in Jobs, NEW f \in Held(r, i) PROVE FrameKnown(r, f)
      BY DEF FramesKnown
    <2>2. CASE f \in Held(s, i)
      <3>1. FrameKnown(s, f)
        BY <1>1, <2>2 DEF Inv, FramesKnown
      <3>2. \A x \in Tasks : Over(s, x) => r.mem[x].st = s.mem[x].st
        BY <1>2, <1>4
      <3> QED BY <1>4, <3>1, <3>2, FrameStaysOver
    <2>3. CASE f \in ToSet(q)
      <3>1. \/ f.op \in {"settle", "launch"} /\ f.t = p
            \/ f.op = "send" /\ f.t \in K
        BY <1>1, <2>3 DEF Works
      <3>2. Known(r, p)
        BY <1>2, <1>4
      <3> QED BY <3>1, <3>2 DEF FrameKnown, Nameless, Sends
    <2> QED BY <1>3, <2>1, <2>2, <2>3
  <1>7. ListsKnown(r)
    BY <1>1, <1>3, <1>4 DEF Inv, ListsKnown
  <1>8. Family(r, ph)
    <2>0. Family(s, ph)
      BY <1>1 DEF Inv
    <2>1. SUFFICES ASSUME NEW x \in Tasks
                   PROVE  /\ r.mem[x] # NoTask /\ Parent[x] # Orphan => Known(r, Parent[x])
                          /\ r.disk[x] # NoTask /\ Parent[x] # Orphan => r.disk[Parent[x]] # NoTask
                          /\ ph # "down" /\ r.disk[x] # NoTask /\ r.mem[x] = NoTask =>
                               Parent[x] # Orphan /\ ~Live(r.mem[Parent[x]])
      BY DEF Family
    <2>2. CASE x \in K
      BY <1>2, <1>3, <1>4, <2>2
    <2>3. CASE x \notin K
      <3>1. /\ s.mem[x] # NoTask /\ Parent[x] # Orphan => Known(s, Parent[x])
            /\ s.disk[x] # NoTask /\ Parent[x] # Orphan => s.disk[Parent[x]] # NoTask
            /\ s.disk[x] # NoTask /\ s.mem[x] = NoTask => Parent[x] # Orphan /\ ~Live(s.mem[Parent[x]])
        BY <1>1, <2>0 DEF Family
      <3>2. s.disk[x] # NoTask /\ Parent[x] # Orphan => Parent[x] \in Tasks /\ Parent[x] \notin K
        BY <1>2, TaskAssumption
      <3>3. s.disk[x] # NoTask /\ s.mem[x] = NoTask => ~Live(r.mem[Parent[x]])
        BY <1>4, <3>1, <3>2
      <3> QED BY <1>3, <1>4, <2>3, <3>1, <3>3
    <2> QED BY <2>2, <2>3
  <1>9. Newborns(r)
    <2>1. SUFFICES ASSUME NEW i \in Jobs, NEW f \in Held(r, i), f.op \in Sends
                   PROVE  /\ NewbornFits(r, f)
                          /\ \A h \in Jobs : Holds(r, f.t, h, Sends) => h = i
      BY DEF Newborns
    <2>2. CASE f \in Held(s, i)
      <3>1. NewbornFits(s, f) /\ \A h \in Jobs : Holds(s, f.t, h, Sends) => h = i
        BY <1>1, <2>1, <2>2 DEF Inv, Newborns
      <3>2. PICK k : k = f.t
        OBVIOUS
      <3>3. k \in Tasks /\ s.mem[k] # NoTask /\ Parent[k] # Orphan /\ k \notin K /\ Parent[k] \in Tasks
        BY <1>2, <3>1, <3>2, TaskAssumption DEF NewbornFits
      <3>4. Born(s, k)
        BY <2>1, <2>2, <3>2 DEF Born, Holds
      <3>5. k # p
        BY <1>2, <3>4 DEF Known
      <3>6. r.mem[k] = s.mem[k]
        BY <1>4, <3>3, <3>5
      <3>7. Parent[k] \notin K
        BY <1>2, <3>3
      <3>8. /\ Live(r.mem[Parent[k]]) <=> Live(s.mem[Parent[k]])
            /\ Completable(s.mem[Parent[k]], k) => Completable(r.mem[Parent[k]], k)
        BY <1>4, <3>3, <3>7
      <3>9. NewbornFits(r, f)
        BY <1>3, <3>1, <3>2, <3>6, <3>8 DEF NewbornFits
      <3>10. \A h \in Jobs : Holds(r, k, h, Sends) => h = i
        BY <1>4, <3>1, <3>2, <3>3, <3>5
      <3> QED BY <3>2, <3>9, <3>10
    <2>3. CASE f \in ToSet(q) /\ i = j
      <3>1. f.op = "send" /\ f.t \in K
        BY <1>1, <2>1, <2>3 DEF Works, Sends
      <3>2. PICK k : k = f.t
        OBVIOUS
      <3>3. /\ k \in K /\ k \in Tasks /\ r.mem[k] # NoTask /\ r.mem[k].st = "READY" /\ r.mem[k].works = <<>>
            /\ r.mem[k].ask = NoAsk /\ Completable(r.mem[p], k) /\ Parent[k] = p /\ Parent[k] # Orphan
            /\ r.disk[k] = NoTask /\ ~Born(s, k)
        BY <1>2, <1>3, <1>4, <3>1, <3>2
      <3>4. NewbornFits(r, f)
        BY <3>1, <3>2, <3>3 DEF NewbornFits
      <3>5. ASSUME NEW h \in Jobs, Holds(r, k, h, Sends), h # j PROVE FALSE
        BY <1>3, <3>3, <3>5 DEF Born, Holds
      <3> QED BY <2>3, <3>2, <3>4, <3>5
    <2> QED BY <1>3, <2>1, <2>2, <2>3
  <1>10. Saved(r, ph)
    <2>1. SUFFICES ASSUME NEW x \in Tasks, Known(r, x)
                   PROVE  /\ r.disk[x] # NoTask /\ r.disk[x].ask.n = r.mem[x].ask.n
                          /\ r.disk[x].ask.path = r.mem[x].ask.path /\ r.disk[x].ask.hop <= r.mem[x].ask.hop
      BY DEF Saved
    <2>2. Known(s, x) /\ x \notin K /\ r.mem[x] # NoTask
      BY <1>2, <1>4, <2>1 DEF Known
    <2>3. r.mem[x].ask = s.mem[x].ask /\ r.disk[x] = s.disk[x]
      BY <1>3, <1>4, <2>2
    <2> QED BY <1>1, <2>2, <2>3 DEF Inv, Saved
  <1> QED BY <1>5, <1>6, <1>7, <1>8, <1>9, <1>10

LEMMA StartedBooks ==
  ASSUME NEW s, NEW r, NEW ph, NEW L, NEW j, NEW p, NEW b, NEW K, NEW q, WorkBegins(s, r, ph, L, j, p, b, K, q)
  PROVE  Books(r) /\ Listed(r, L) /\ Orphans(r, L)
  <1>1. /\ Inv(s, ph, L) /\ ph # "down" /\ Starting(s, j, p, K) /\ Works(q, j, ph, p, K) /\ Grown(s, p, b, K)
        /\ Started(s, r, j, p, b, K, q)
    BY DEF WorkBegins
  <1>2. /\ j \in Jobs /\ p \in Tasks /\ Live(s.mem[p]) /\ p \notin K /\ Known(s, p)
        /\ \A k \in K : k \in Tasks /\ ~Known(s, k) /\ Parent[k] = p
        /\ \A x \in Tasks : (s.mem[x] # NoTask \/ s.disk[x] # NoTask) /\ Parent[x] # Orphan => Parent[x] \notin K
    <2>1. Known(s, p) /\ \A k \in K : Parent[k] = p /\ s.mem[k] = NoTask
      BY <1>1 DEF Starting
    <2> QED BY <1>1, <2>1, StartingFacts
  <1>3. /\ \A i \in Jobs : i # j => r.jobs[i] = s.jobs[i] /\ Held(r, i) = Held(s, i)
        /\ Held(r, j) = ToSet(q) \cup Held(s, j)
        /\ r.queue = s.queue /\ r.packing = s.packing
    BY StartedFacts
  <1>4. /\ \A x \in Tasks : x \notin K => r.mem[x].st = s.mem[x].st /\ (Live(r.mem[x]) <=> Live(s.mem[x]))
        /\ \A k \in K : r.mem[k].st = "READY" /\ Live(r.mem[k]) /\ Born(r, k)
        /\ \A x : Born(r, x) <=> Born(s, x) \/ x \in K
        /\ \A x, i, ops : i \in Jobs /\ Holds(s, x, i, ops) => Holds(r, x, i, ops)
    BY StartedTasks
  <1>5. Books(r)
    <2>1. /\ s.pool.live = {x \in Tasks : Live(s.mem[x])} /\ s.queue \cap s.packing = {}
          /\ \A x \in s.queue \cup s.packing : s.mem[x].st = "READY" /\ x \in Tasks /\ x \notin K
      BY <1>1, <1>2 DEF Inv, Books, ListsKnown, Known
    <2>2. r.pool.live = s.pool.live \cup K
      BY <1>1 DEF Started
    <2>3. r.pool.live = {x \in Tasks : Live(r.mem[x])}
      BY <1>2, <1>4, <2>1, <2>2
    <2>4. \A x \in r.queue \cup r.packing : r.mem[x].st = "READY"
      BY <1>3, <1>4, <2>1
    <2> QED BY <1>3, <2>1, <2>3, <2>4 DEF Books
  <1>6. Listed(r, L)
    <2>1. SUFFICES ASSUME NEW x \in Tasks, r.mem[x].st = "READY", Late(x) \notin L PROVE ListedTask(r, x)
      BY DEF Listed
    <2>2. CASE x \in K
      BY <1>4, <2>2 DEF ListedTask
    <2>3. CASE x \notin K
      <3>1. ListedTask(s, x)
        BY <1>1, <1>4, <2>1, <2>3 DEF Inv, Listed
      <3>2. <<"host">> \in Jobs
        BY JobFacts
      <3> QED BY <1>3, <1>4, <3>1, <3>2 DEF ListedTask
    <2> QED BY <2>2, <2>3
  <1>7. Orphans(r, L)
    <2>1. SUFFICES ASSUME NEW k \in Tasks, Live(r.mem[k]), Parent[k] # Orphan, ~Live(r.mem[Parent[k]])
                   PROVE  \/ Lone(k) \in L
                          \/ \E i \in Jobs : \E f \in Held(r, i) : f.op = "cancel" /\ k \in ToSet(f.x)
                          \/ Holds(r, k, <<"host">>, {"orphan"})
      BY DEF Orphans
    <2>2. k \notin K
      <3>1. SUFFICES ASSUME k \in K PROVE FALSE
        OBVIOUS
      <3>2. Parent[k] = p
        BY <1>2, <3>1
      <3> QED BY <1>2, <1>4, <2>1, <3>2
    <2>3. Live(s.mem[k]) /\ Parent[k] \in Tasks
      BY <1>4, <2>1, <2>2, TaskAssumption
    <2>4. s.mem[k] # NoTask
      BY <2>3, NoTaskFacts
    <2>5. ~Live(s.mem[Parent[k]])
      BY <1>2, <1>4, <2>1, <2>3, <2>4
    <2>6. \/ Lone(k) \in L
          \/ \E i \in Jobs : \E f \in Held(s, i) : f.op = "cancel" /\ k \in ToSet(f.x)
          \/ Holds(s, k, <<"host">>, {"orphan"})
      BY <1>1, <2>1, <2>3, <2>5 DEF Inv, Orphans
    <2>7. \A i \in Jobs : \A f \in Held(s, i) : f \in Held(r, i)
      BY <1>3
    <2>8. <<"host">> \in Jobs
      BY JobFacts
    <2> QED BY <1>4, <2>6, <2>7, <2>8
  <1> QED BY <1>5, <1>6, <1>7

LEMMA StartedActs ==
  ASSUME NEW s, NEW r, NEW ph, NEW L, NEW j, NEW p, NEW b, NEW K, NEW q, WorkBegins(s, r, ph, L, j, p, b, K, q)
  PROVE  Handles(r) /\ Asks(r) /\ Told(r)
  <1>1. /\ Inv(s, ph, L) /\ ph # "down" /\ Starting(s, j, p, K) /\ Works(q, j, ph, p, K) /\ Grown(s, p, b, K)
        /\ Started(s, r, j, p, b, K, q)
    BY DEF WorkBegins
  <1>2. /\ j \in Jobs /\ p \in Tasks /\ p \notin K /\ j[1] \in {"turn", "loop"}
        /\ \A k \in K : /\ k \in Tasks /\ ~Known(s, k)
                        /\ s.jobs[ModelJob(k)] = <<>> /\ ~Hot(s, k) /\ ~InLoop(s, k) /\ ~Looped(s, k)
                        /\ \A i \in Jobs : ~HopAt(s, i, k)
    BY <1>1, StartingFacts
  <1>3. /\ \A i \in Jobs : i # j => r.jobs[i] = s.jobs[i] /\ Held(r, i) = Held(s, i)
        /\ Held(r, j) = ToSet(q) \cup Held(s, j) /\ r.disk = s.disk /\ r.jobs[j] # <<>> /\ r.jobs[j][1].op = "settle"
    BY StartedFacts
  <1>4. /\ \A x \in Tasks : x \notin K =>
             /\ r.mem[x] = NoTask <=> s.mem[x] = NoTask
             /\ r.mem[x].st = s.mem[x].st
             /\ r.mem[x] # NoTask => r.mem[x].ask = s.mem[x].ask
             /\ r.mem[x] # NoTask => (Waits(r.mem[x]) <=> Waits(s.mem[x]))
             /\ r.mem[x] # NoTask => (Pending(r.mem[x]) <=> Pending(s.mem[x]))
             /\ x # p => r.mem[x] = s.mem[x]
        /\ \A k \in K : r.mem[k].st = "READY" /\ Marks(r.mem[k]) = {} /\ ~Waits(r.mem[k])
        /\ \A x, i, ops : i \in Jobs /\ Holds(s, x, i, ops) => Holds(r, x, i, ops)
        /\ \A x, i, ops : i \in Jobs /\ x # p /\ x \notin K /\ Holds(r, x, i, ops) => Holds(s, x, i, ops)
    BY StartedTasks
  <1>5. /\ Known(s, p) /\ s.mem[p].st = "RUNNING" /\ s.jobs[ModelJob(p)] = <<>> /\ ~Hot(s, p) /\ s.mem[p] # NoTask
        /\ \/ j = TurnJob(p) /\ s.jobs[j] = <<>> /\ ~InLoop(s, p)
           \/ j = <<"loop">> /\ Len(s.jobs[j]) = 1 /\ s.jobs[j][1].op = "try"
    BY <1>1 DEF Starting, Known
  <1>6. r.mem[p] = b /\ b.st = "RUNNING" /\ ~Waits(b) /\ b # NoTask
    BY <1>1, BlockFacts DEF Started, Grown, Waits
  <1>7. \A i \in Jobs : i[1] = "model" => r.jobs[i] = s.jobs[i]
    BY <1>2, <1>3
  <1>8. \A c : \A i \in Jobs : HopAt(r, i, c) <=> i # j /\ HopAt(s, i, c)
    BY <1>3 DEF HopAt
  <1>9. \A c : \A i \in Jobs : HopAt(r, i, c) => r.jobs[i] = s.jobs[i] /\ HopAt(s, i, c) /\ c \notin K
    BY <1>2, <1>3, <1>8
  <1>10. \A f \in ToSet(q) : \/ f.op \in {"settle", "launch"} /\ f.t = p
                             \/ f.op = "send" /\ f.t \in K
    BY <1>1 DEF Works
  <1>11. \A x \in Tasks : x # p =>
           /\ Hot(r, x) => Hot(s, x)
           /\ \A ops : \A i \in Jobs : ops \cap Sends = {} /\ Holds(r, x, i, ops) => Holds(s, x, i, ops)
    <2>1. SUFFICES ASSUME NEW x \in Tasks, x # p
                   PROVE  /\ Hot(r, x) => Hot(s, x)
                          /\ \A ops : \A i \in Jobs : ops \cap Sends = {} /\ Holds(r, x, i, ops) => Holds(s, x, i, ops)
      OBVIOUS
    <2>2. TurnJob(x) # j /\ TurnJob(x) \in Jobs
      <3>1. TurnJob(x)[1] = "turn" /\ TurnJob(x)[2] = x /\ TurnJob(p)[2] = p /\ <<"loop">>[1] = "loop" /\ TurnJob(x) \in Jobs
        BY <2>1, JobFacts
      <3> QED BY <1>5, <2>1, <3>1
    <2>3. ASSUME NEW i \in Jobs, NEW ops, ops \cap Sends = {}, Holds(r, x, i, ops) PROVE Holds(s, x, i, ops)
      <3>1. PICK f \in Held(r, i) : f.op \in ops /\ f.t = x
        BY <2>3 DEF Holds
      <3>2. f \notin ToSet(q)
        BY <1>10, <2>1, <2>3, <3>1 DEF Sends
      <3> QED BY <1>3, <3>1, <3>2 DEF Holds
    <2> QED BY <1>3, <2>2, <2>3 DEF Hot
  <1>12. \A x \in Tasks : ModelJob(x) \in Jobs /\ ModelJob(x)[1] = "model" /\ TurnJob(x) \in Jobs /\ <<"loop">> \in Jobs
    BY JobFacts
  <1>13. \A x \in Tasks : x # p => (OwnHop(r, TurnJob(x)) => OwnHop(s, TurnJob(x)))
    <2>1. SUFFICES ASSUME NEW x \in Tasks, x # p PROVE r.jobs[TurnJob(x)] = s.jobs[TurnJob(x)]
      BY DEF OwnHop
    <2>2. TurnJob(x)[1] = "turn" /\ TurnJob(x)[2] = x /\ TurnJob(p)[2] = p /\ <<"loop">>[1] = "loop" /\ TurnJob(x) \in Jobs
      BY <2>1, JobFacts
    <2> QED BY <1>3, <1>5, <2>1, <2>2
  <1>14. Handles(r)
    <2>1. SUFFICES ASSUME NEW x \in Tasks PROVE HandlesFor(r, x, r.mem[x])
      BY DEF Handles, HandlesOf
    <2>2. HandlesFor(s, x, s.mem[x])
      BY <1>1 DEF Inv, Handles, HandlesOf
    <2>3. r.jobs[ModelJob(x)] = s.jobs[ModelJob(x)]
      BY <1>7, <1>12
    <2>4. CASE x # p /\ x \notin K
      <3>1. /\ Hot(r, x) => Hot(s, x)
            /\ InLoop(r, x) => InLoop(s, x)
            /\ Looped(r, x) => Looped(s, x)
            /\ Holds(r, x, TurnJob(x), {"continue"}) => Holds(s, x, TurnJob(x), {"continue"})
            /\ Holds(r, x, TurnJob(x), {"settle"}) => Holds(s, x, TurnJob(x), {"settle"})
        BY <1>4, <1>11, <1>12, <2>4 DEF InLoop, Looped
      <3> QED BY <1>4, <1>13, <2>2, <2>3, <2>4, <3>1 DEF HandlesFor
    <2>5. CASE x \in K
      <3>1. /\ ~Hot(r, x) /\ ~InLoop(r, x) /\ ~Looped(r, x) /\ r.jobs[ModelJob(x)] = <<>>
        <4>1. /\ InLoop(r, x) => InLoop(s, x)
              /\ Looped(r, x) => Looped(s, x)
          <5>1. {"dispatch", "settle", "failnodes", "try"} \cap Sends = {} /\ {"dispatch", "settle"} \cap Sends = {}
            BY DEF Sends
          <5> QED BY <1>2, <1>11, <1>12, <2>5, <5>1 DEF InLoop, Looped
        <4> QED BY <1>2, <1>11, <2>3, <2>5, <4>1
      <3>2. ~Holds(r, x, TurnJob(x), {"continue"}) /\ ~Holds(r, x, TurnJob(x), {"settle"})
        BY <3>1 DEF Hot, Holds
      <3>3. ~OwnHop(r, TurnJob(x))
        <4>1. SUFFICES ASSUME OwnHop(s, TurnJob(x)) PROVE FALSE
          BY <1>2, <1>13, <2>5
        <4>2. PICK i : i = TurnJob(x)
          OBVIOUS
        <4>3. i \in Jobs /\ IsStack(s.jobs[i])
          BY <1>1, <1>12, <4>2 DEF Inv, Stacks, StackOK
        <4>4. Len(s.jobs[i]) = 1 /\ s.jobs[i][1].op = "publish"
          BY <4>1, <4>2 DEF OwnHop
        <4>5. s.jobs[i][1] \in Held(s, i)
          BY <4>3, <4>4, StackFacts DEF Held
        <4> QED BY <1>2, <2>5, <4>2, <4>4, <4>5 DEF Hot
      <3> QED BY <3>1, <3>2, <3>3 DEF HandlesFor
    <2>6. CASE x = p
      <3>1. ~OwnHop(r, TurnJob(p))
        <4>1. CASE j = TurnJob(p)
          BY <1>3, <4>1 DEF OwnHop
        <4>2. CASE j # TurnJob(p)
          <5>1. SUFFICES ASSUME OwnHop(s, TurnJob(p)) PROVE FALSE
            BY <1>3, <1>12, <1>2, <4>2 DEF OwnHop
          <5>2. PICK i : i = TurnJob(p)
            OBVIOUS
          <5>3. i \in Jobs /\ IsStack(s.jobs[i])
            BY <1>1, <1>2, <1>12, <5>2 DEF Inv, Stacks, StackOK
          <5>4. Len(s.jobs[i]) = 1 /\ s.jobs[i][1].op = "publish"
            BY <5>1, <5>2 DEF OwnHop
          <5>5. s.jobs[i][1] \in Held(s, i)
            BY <5>3, <5>4, StackFacts DEF Held
          <5> QED BY <1>5, <5>2, <5>4, <5>5 DEF Hot
        <4> QED BY <4>1, <4>2
      <3>2. Hot(r, p) => ~InLoop(r, p)
        <4>1. CASE j = TurnJob(p)
          <5>1. <<"loop">> # j
            BY <1>2, <4>1, JobFacts
          <5>2. ~InLoop(s, p)
            BY <1>5, <5>1
          <5> QED BY <1>3, <1>12, <1>2, <5>1, <5>2 DEF InLoop, Holds
        <4>2. CASE j = <<"loop">>
          <5>1. TurnJob(p) # j
            BY <1>2, <4>2, JobFacts
          <5> QED BY <1>2, <1>3, <1>5, <1>12, <5>1 DEF Hot
        <4> QED BY <1>5, <4>1, <4>2
      <3>3. r.jobs[ModelJob(p)] = <<>>
        BY <1>5, <2>3, <2>6
      <3> QED BY <1>6, <2>6, <3>1, <3>2, <3>3 DEF HandlesFor
    <2> QED BY <2>4, <2>5, <2>6
  <1>17. \A x \in Tasks : x \notin K /\ r.mem[x] # NoTask =>
           /\ s.mem[x] # NoTask
           /\ \A i \in Marks(r.mem[x]) : i \in Marks(s.mem[x]) /\ r.mem[x].works[i].ref = s.mem[x].works[i].ref
    <2>1. \A i \in Marks(b) : i \in Marks(s.mem[p]) /\ b.works[i].ref = s.mem[p].works[i].ref
      BY <1>1 DEF Grown
    <2> QED BY <1>4, <1>6, <2>1
  <1>18. ASSUME NEW c \in Tasks, c \notin K, s.mem[c] # NoTask, Unmarked(s, c) PROVE Unmarked(r, c)
    <2>1. SUFFICES ASSUME NEW x \in Tasks, r.mem[x] # NoTask, NEW i \in Marks(r.mem[x])
                   PROVE  r.mem[x].works[i].ref # <<c, r.mem[c].ask.n>>
      BY DEF Unmarked
    <2>2. x \notin K
      BY <1>4, <2>1
    <2>3. s.mem[x] # NoTask /\ i \in Marks(s.mem[x]) /\ r.mem[x].works[i].ref = s.mem[x].works[i].ref
      BY <1>17, <2>1, <2>2
    <2>4. r.mem[c].ask = s.mem[c].ask
      BY <1>4, <1>18
    <2> QED BY <1>18, <2>3, <2>4 DEF Unmarked
  <1>15. Asks(r)
    <2>1. SUFFICES ASSUME NEW c \in Tasks PROVE AsksOf(r, c)
      BY DEF Asks
    <2>2. AsksOf(s, c)
      BY <1>1 DEF Inv, Asks
    <2>3. ASSUME NEW i \in Jobs, HopAt(r, i, c)
          PROVE  /\ Pending(r.mem[c]) \/ r.mem[c].st = "TERMINATED"
                 /\ \A k \in Jobs : HopAt(r, k, c) => i = k
                 /\ r.jobs[i][1].op = "publish" => r.disk[c].ask.hop = r.mem[c].ask.hop
                 /\ OwnHop(r, i) => Unmarked(r, c)
      <3>1. r.jobs[i] = s.jobs[i] /\ HopAt(s, i, c) /\ c \notin K
        BY <1>9, <2>3
      <3>2. /\ Pending(s.mem[c]) \/ s.mem[c].st = "TERMINATED"
            /\ \A k \in Jobs : HopAt(s, k, c) => i = k
            /\ s.jobs[i][1].op = "publish" => s.disk[c].ask.hop = s.mem[c].ask.hop
            /\ OwnHop(s, i) => Unmarked(s, c)
        BY <2>2, <3>1 DEF AsksOf
      <3>3. s.mem[c] # NoTask
        <4>1. s.mem[c].st # "none" \/ Pending(s.mem[c])
          BY <3>2
        <4>2. IsStack(s.jobs[i]) /\ s.jobs[i] # <<>> /\ s.jobs[i][1].op \in {"publish", "advance"} /\ s.jobs[i][1].t = c
          BY <1>1, <3>1 DEF Inv, Stacks, StackOK, HopAt
        <4>3. s.jobs[i][1] \in Held(s, i)
          <5>1. Len(s.jobs[i]) \in Nat /\ Len(s.jobs[i]) # 0
            BY <4>2, StackFacts
          <5>2. 1 \in 1 .. Len(s.jobs[i])
            BY <5>1
          <5> QED BY <4>2, <5>2, StackFacts DEF Held
        <4>4. FrameKnown(s, s.jobs[i][1])
          BY <1>1, <4>3 DEF Inv, FramesKnown
        <4> QED BY <4>2, <4>4 DEF FrameKnown, Nameless, Sends, Known
      <3>4. r.mem[c] # NoTask /\ r.mem[c].ask = s.mem[c].ask /\ r.mem[c].st = s.mem[c].st
            /\ (Pending(r.mem[c]) <=> Pending(s.mem[c]))
        BY <1>4, <3>1, <3>3
      <3>5. OwnHop(r, i) <=> OwnHop(s, i)
        BY <3>1 DEF OwnHop
      <3>6. Unmarked(s, c) => Unmarked(r, c)
        BY <1>18, <3>1, <3>3
      <3> QED BY <1>3, <1>9, <3>1, <3>2, <3>4, <3>5, <3>6
    <2>4. ASSUME Holds(r, c, TurnJob(c), {"settle"}), Waits(r.mem[c])
          PROVE  Unmarked(r, c) /\ \A i \in Jobs : ~HopAt(r, i, c)
      <3>1. c # p /\ c \notin K
        BY <1>4, <1>6, <2>4
      <3>2. Holds(s, c, TurnJob(c), {"settle"})
        BY <1>4, <1>12, <2>4, <3>1
      <3>3. r.mem[c] = s.mem[c]
        BY <1>4, <3>1
      <3>4. Unmarked(s, c) /\ \A i \in Jobs : ~HopAt(s, i, c)
        BY <2>2, <2>4, <3>2, <3>3 DEF AsksOf
      <3>5. s.mem[c] # NoTask
        BY <2>4, <3>3, NoTaskFacts DEF Waits
      <3> QED BY <1>9, <1>18, <3>1, <3>4, <3>5
    <2> QED BY <2>3, <2>4 DEF AsksOf
  <1>16. Told(r)
    <2>0. Told(s)
      BY <1>1 DEF Inv
    <2>1. \A x, i, ref : MarkOK(s, x, i, ref) => MarkOK(r, x, i, ref)
      BY <1>3 DEF MarkOK
    <2>2. SUFFICES ASSUME NEW x \in Tasks
                   PROVE  /\ r.disk[x] # NoTask => \A i \in Marks(r.disk[x]) : MarkOK(r, x, i, r.disk[x].works[i].ref)
                          /\ r.mem[x] # NoTask => \A i \in Marks(r.mem[x]) :
                               /\ MarkOK(r, x, i, r.mem[x].works[i].ref)
                               /\ \A c \in Tasks : \A h \in Jobs :
                                    HopAt(r, h, c) /\ r.mem[x].works[i].ref = <<c, r.mem[c].ask.n>> => EarlierHop(r, x, i, c)
      BY DEF Told
    <2>3. r.disk[x] # NoTask => \A i \in Marks(r.disk[x]) : MarkOK(r, x, i, r.disk[x].works[i].ref)
      BY <1>3, <2>0, <2>1 DEF Told
    <2>4. ASSUME r.mem[x] # NoTask, NEW i \in Marks(r.mem[x])
          PROVE  /\ MarkOK(r, x, i, r.mem[x].works[i].ref)
                 /\ \A c \in Tasks : \A h \in Jobs :
                      HopAt(r, h, c) /\ r.mem[x].works[i].ref = <<c, r.mem[c].ask.n>> => EarlierHop(r, x, i, c)
      <3>1. x \notin K
        BY <1>4, <2>4
      <3>2. s.mem[x] # NoTask /\ i \in Marks(s.mem[x]) /\ r.mem[x].works[i].ref = s.mem[x].works[i].ref
        BY <1>17, <2>4, <3>1
      <3>3. MarkOK(s, x, i, s.mem[x].works[i].ref)
        BY <2>0, <3>2 DEF Told
      <3>4. ASSUME NEW c \in Tasks, NEW h \in Jobs, HopAt(r, h, c), r.mem[x].works[i].ref = <<c, r.mem[c].ask.n>>
            PROVE  EarlierHop(r, x, i, c)
        <4>1. HopAt(s, h, c) /\ c \notin K
          BY <1>9, <3>4
        <4>2. r.mem[c].ask = s.mem[c].ask
          BY <1>4, <4>1
        <4>3. EarlierHop(s, x, i, c)
          BY <2>0, <3>2, <3>4, <4>1, <4>2 DEF Told
        <4> QED BY <4>2, <4>3 DEF EarlierHop
      <3> QED BY <2>1, <3>2, <3>3, <3>4
    <2> QED BY <2>3, <2>4
  <1> QED BY <1>14, <1>15, <1>16

\* Everything that held before the work was started holds after it.
LEMMA WorkStarts ==
  ASSUME NEW s, NEW r, NEW ph, NEW L, NEW j, NEW p, NEW b, NEW K, NEW q, WorkBegins(s, r, ph, L, j, p, b, K, q)
  PROVE  /\ Inv(r, ph, L)
         /\ \A x \in Tasks : s.mem[x] # NoTask => r.mem[x] # NoTask /\ r.mem[x].st = s.mem[x].st
  <1>1. Inv(r, ph, L)
    BY StartedTasks, StartedFrames, StartedBooks, StartedActs DEF Inv
  <1>2. \A k \in K : s.mem[k] = NoTask
    BY DEF WorkBegins, Starting
  <1> QED BY <1>1, <1>2, StartedTasks

LEMMA BoundNodes ==
  ASSUME NEW g, GraphOK(g), NEW nodes, NEW kids
  PROVE  GraphOK(bindDelegatedWorkGraphNodes(g, nodes, kids))
  <1>1. CASE g # NoGraph
    BY <1>1, GraphOps
  <1>2. CASE g = NoGraph
    <2>1. PICK f, n : f = NoGraph /\ bindDelegatedWorkGraphNodes(g, nodes, kids) = [f EXCEPT !.nodes = n]
      BY <1>2 DEF bindDelegatedWorkGraphNodes
    <2>2. [f EXCEPT !.nodes = n] = f
      BY <2>1 DEF NoGraph
    <2> QED BY <2>1, <2>2 DEF GraphOK
  <1> QED BY <1>1, <1>2

\* The block a of a task with its new work.
Extended(a, calls, kids, nodes) ==
  LET b0 == registerAsyncWork(a, ToSet(calls) \cup ToSet(kids))
      b1 == IF calls = <<>> THEN b0 ELSE appendContext(b0)
  IN  IF nodes = <<>> THEN b1
      ELSE [b1 EXCEPT !.graph = bindDelegatedWorkGraphNodes(@, nodes, kids)]

\* b is a with the work of X in addition.
ExtendedBy(a, b, X) ==
  /\ Block(b) /\ b.st = a.st /\ b.ask = a.ask /\ DOMAIN b.works = DOMAIN a.works \cup X
  /\ \A i \in Marks(b) : i \in Marks(a) /\ b.works[i].ref = a.works[i].ref
  /\ \A k : Completable(a, k) => Completable(b, k)
  /\ \A k \in X : Completable(b, k)

LEMMA ExtendedFacts ==
  ASSUME NEW a, Block(a), NEW calls, NEW kids, NEW nodes, NEW X, X = ToSet(calls) \cup ToSet(kids),
         X \cap DOMAIN a.works = {}, NEW b, b = Extended(a, calls, kids, nodes)
  PROVE  ExtendedBy(a, b, X)
  <1>1. PICK w : w = [st |-> "running", open |-> TRUE, told |-> 0, ref |-> NoRef, seen |-> FALSE]
    OBVIOUS
  <1>2. w.st = "running" /\ w.open = TRUE /\ DOMAIN w = WorkFields /\ ~Finished(w) /\ ~Blocking(w)
    BY <1>1 DEF WorkFields, Finished, Blocking
  <1>3. PICK ws : ws = [i \in DOMAIN a.works \cup X |-> IF i \in X THEN w ELSE a.works[i]]
    OBVIOUS
  <1>4. /\ DOMAIN ws = DOMAIN a.works \cup X /\ \A i \in X : ws[i] = w
        /\ \A i \in DOMAIN a.works : ws[i] = a.works[i] /\ i \notin X
    BY <1>3
  <1>5. PICK b0 : b0 = registerAsyncWork(a, X)
    OBVIOUS
  <1>6. b0 = [a EXCEPT !.works = ws]
    BY <1>1, <1>3, <1>5 DEF registerAsyncWork
  <1>7. DOMAIN a = BlockFields
    BY DEF Block
  <1>8. DOMAIN b0 = BlockFields /\ b0.works = ws /\ b0.st = a.st /\ b0.ask = a.ask /\ b0.graph = a.graph
    BY <1>6, <1>7 DEF BlockFields
  <1>9. Block(b0)
    <2>1. \A i \in DOMAIN ws : DOMAIN ws[i] = WorkFields /\ ws[i].open \in BOOLEAN
      BY <1>2, <1>4 DEF Block
    <2> QED BY <1>8, <2>1 DEF Block
  <1>10. PICK b1 : b1 = IF calls = <<>> THEN b0 ELSE appendContext(b0)
    OBVIOUS
  <1>11. Block(b1) /\ b1.works = ws /\ b1.st = a.st /\ b1.ask = a.ask
    <2>1. PICK E : E = {}
      OBVIOUS
    <2>2. Milder(b0, appendContext(b0), E) /\ appendContext(b0).st = b0.st /\ appendContext(b0).works = b0.works
          /\ appendContext(b0).ask = b0.ask
      BY <1>9, ContextMild
    <2> QED BY <1>8, <1>9, <1>10, <2>2 DEF Milder
  <1>12. b = IF nodes = <<>> THEN b1 ELSE [b1 EXCEPT !.graph = bindDelegatedWorkGraphNodes(@, nodes, kids)]
    BY <1>5, <1>10 DEF Extended
  <1>13. Block(b) /\ b.works = ws /\ b.st = a.st /\ b.ask = a.ask
    <2>1. CASE nodes = <<>>
      BY <1>11, <1>12, <2>1
    <2>2. CASE nodes # <<>>
      <3>1. PICK g : g = bindDelegatedWorkGraphNodes(b1.graph, nodes, kids)
        OBVIOUS
      <3>2. GraphOK(g)
        BY <1>11, <3>1, BoundNodes DEF Block
      <3>3. b = [b1 EXCEPT !.graph = g]
        BY <1>12, <2>2, <3>1
      <3>4. DOMAIN b1 = BlockFields
        BY <1>11 DEF Block
      <3>5. DOMAIN b = BlockFields /\ b.graph = g /\ b.works = ws /\ b.st = a.st /\ b.ask = a.ask
        BY <1>11, <3>3, <3>4 DEF BlockFields
      <3> QED BY <1>11, <3>2, <3>5 DEF Block
    <2> QED BY <2>1, <2>2
  <1>14. \A i \in Marks(b) : i \in Marks(a) /\ b.works[i].ref = a.works[i].ref
    BY <1>2, <1>4, <1>13 DEF Marks
  <1>15. \A k : Completable(a, k) => Completable(b, k)
    BY <1>4, <1>13 DEF Completable, Open
  <1>16. \A k \in X : Completable(b, k)
    BY <1>2, <1>4, <1>13 DEF Completable, Open
  <1> QED BY <1>4, <1>13, <1>14, <1>15, <1>16 DEF ExtendedBy

\* What startAsyncWork leaves to do.
WorkFrames(p, calls, kids) ==
  <<Then("settle", p)>> \o [i \in DOMAIN kids |-> Then("send", kids[i])]
    \o (IF calls = <<>> THEN <<>> ELSE <<Frame("launch", p, calls)>>)

LEMMA WorkFramesFit ==
  ASSUME NEW j \in Jobs, j[1] \in {"turn", "loop"}, NEW ph, NEW p, j[1] = "turn" => j[2] = p,
         NEW calls, j[1] = "loop" => calls = <<>>, NEW kids \in Seq(Tasks),
         \A i, k \in 1 .. Len(kids) : kids[i] = kids[k] => i = k,
         \A i \in 1 .. Len(kids) : Parent[kids[i]] = p,
         NEW q, q = WorkFrames(p, calls, kids)
  PROVE  Works(q, j, ph, p, ToSet(kids))
  <1>1. PICK n \in Nat : n = Len(kids)
    OBVIOUS
  <1>2. DOMAIN kids = 1 .. n
    BY <1>1
  <1>3. PICK a : a = <<Then("settle", p)>>
    OBVIOUS
  <1>4. IsStack(a) /\ Len(a) = 1 /\ DOMAIN a = {1} /\ a[1].op = "settle" /\ a[1].t = p /\ ToSet(a) = {a[1]}
    <2>1. IsStack(a) /\ DOMAIN a = {1} /\ a[1] = Then("settle", p) /\ Len(a) = 1
      BY <1>3, OneFrame
    <2>2. ToSet(a) = {a[1]}
      BY <2>1 DEF ToSet
    <2> QED BY <2>1, <2>2 DEF Then, Frame
  <1>5. PICK c : c = [i \in DOMAIN kids |-> Then("send", kids[i])]
    OBVIOUS
  <1>6. /\ c = [i \in 1 .. n |-> c[i]] /\ DOMAIN c = 1 .. n
        /\ \A i \in 1 .. n : c[i].op = "send" /\ c[i].t = kids[i]
    BY <1>2, <1>5 DEF Then, Frame
  <1>7. IsStack(c) /\ Len(c) = n
    BY <1>6, StackIs
  <1>8. PICK d : d = IF calls = <<>> THEN <<>> ELSE <<Frame("launch", p, calls)>>
    OBVIOUS
  <1>9. /\ IsStack(d) /\ Len(d) \in {0, 1} /\ \A i \in 1 .. Len(d) : d[i].op = "launch" /\ d[i].t = p /\ i = 1
        /\ calls = <<>> => Len(d) = 0
    <2>1. CASE calls = <<>>
      <3>1. d = <<>> /\ IsStack(d) /\ Len(d) = 0
        BY <1>4, <1>8, <2>1, SuffixNone
      <3>2. 1 .. Len(d) = {}
        BY <3>1
      <3> QED BY <3>1, <3>2
    <2>2. CASE calls # <<>>
      <3>1. IsStack(d) /\ Len(d) = 1 /\ d[1] = Frame("launch", p, calls)
        BY <1>8, <2>2, OneFrame
      <3>2. 1 .. Len(d) = {1}
        BY <3>1
      <3> QED BY <2>2, <3>1, <3>2 DEF Frame
    <2> QED BY <2>1, <2>2
  <1>10. PICK e : e = a \o c
    OBVIOUS
  <1>11. /\ IsStack(e) /\ Len(e) = 1 + n /\ e[1] = a[1] /\ ToSet(e) = {a[1]} \cup ToSet(c)
         /\ \A i \in 2 .. n + 1 : e[i] = c[i - 1]
    <2>1. /\ IsStack(e) /\ Len(e) = Len(a) + Len(c) /\ ToSet(e) = ToSet(a) \cup ToSet(c)
          /\ \A i \in 1 .. Len(a) : e[i] = a[i]
          /\ \A i \in Len(a) + 1 .. Len(a) + Len(c) : e[i] = c[i - Len(a)]
      <3>1. IsStack(a) /\ IsStack(c)
        BY <1>4, <1>7
      <3> QED BY <1>10, <3>1, StackOn
    <2>2. 1 \in 1 .. Len(a) /\ \A i \in 2 .. n + 1 : i \in Len(a) + 1 .. Len(a) + Len(c)
      BY <1>4, <1>7
    <2> QED BY <1>4, <1>7, <2>1, <2>2
  <1>12. q = e \o d
    BY <1>3, <1>5, <1>8, <1>10 DEF WorkFrames
  <1>13. PICK m \in Nat : m = Len(d)
    BY <1>9
  <1>14. /\ IsStack(q) /\ Len(q) = 1 + n + m /\ q[1] = a[1] /\ ToSet(q) = ToSet(e) \cup ToSet(d)
         /\ \A i \in 2 .. n + 1 : q[i] = c[i - 1]
         /\ \A i \in n + 2 .. n + 1 + m : q[i] = d[i - (n + 1)]
    <2>1. /\ IsStack(q) /\ Len(q) = Len(e) + Len(d) /\ ToSet(q) = ToSet(e) \cup ToSet(d)
          /\ \A i \in 1 .. Len(e) : q[i] = e[i]
          /\ \A i \in Len(e) + 1 .. Len(e) + Len(d) : q[i] = d[i - Len(e)]
      BY <1>9, <1>11, <1>12, StackOn
    <2>2. 1 \in 1 .. Len(e) /\ \A i \in 2 .. n + 1 : i \in 1 .. Len(e)
      BY <1>11
    <2>3. Len(e) = n + 1 /\ Len(e) + 1 = n + 2
      BY <1>11
    <2> QED BY <1>11, <1>13, <2>1, <2>2, <2>3
  <1>15. \A i \in 1 .. Len(q) : \/ i = 1 /\ q[i].op = "settle" /\ q[i].t = p
                                \/ i \in 2 .. n + 1 /\ q[i].op = "send" /\ i - 1 \in 1 .. n /\ q[i].t = kids[i - 1]
                                \/ i \in n + 2 .. n + 1 + m /\ q[i].op = "launch" /\ q[i].t = p /\ calls # <<>>
    <2>1. SUFFICES ASSUME NEW i \in 1 .. Len(q)
                   PROVE  \/ i = 1 /\ q[i].op = "settle" /\ q[i].t = p
                          \/ i \in 2 .. n + 1 /\ q[i].op = "send" /\ i - 1 \in 1 .. n /\ q[i].t = kids[i - 1]
                          \/ i \in n + 2 .. n + 1 + m /\ q[i].op = "launch" /\ q[i].t = p /\ calls # <<>>
      OBVIOUS
    <2>2. CASE i = 1
      BY <1>4, <1>14, <2>2
    <2>3. CASE i \in 2 .. n + 1
      <3>1. i - 1 \in 1 .. n
        BY <2>3
      <3> QED BY <1>6, <1>14, <2>3, <3>1
    <2>4. CASE i \in n + 2 .. n + 1 + m
      <3>1. i - (n + 1) \in 1 .. Len(d) /\ q[i] = d[i - (n + 1)]
        BY <1>13, <1>14, <2>4
      <3>2. d[i - (n + 1)].op = "launch" /\ d[i - (n + 1)].t = p /\ calls # <<>>
        BY <1>9, <3>1
      <3> QED BY <2>4, <3>1, <3>2
    <2> QED BY <1>14, <2>1, <2>2, <2>3, <2>4
  <1>16. DOMAIN q = 1 .. Len(q) /\ q # <<>> /\ q[1].op = "settle"
    <2>1. Len(q) # 0
      BY <1>14
    <2> QED BY <1>4, <1>14, <2>1, StackFacts
  <1>17. ASSUME NEW i \in 1 .. Len(q) PROVE FrameFits(q, i, j, ph)
    <2>1. q[i].op \in {"settle", "send", "launch"} /\ (q[i].op \in Heads => i = 1)
          /\ (q[i].op = "launch" => j[1] = "turn")
      BY <1>15 DEF Heads
    <2>2. q[i].op \in OpsOf(j[1])
      BY <2>1 DEF OpsOf, Sends
    <2>3. q[i].op = "settle" => q[i].t = p /\ \A k \in DOMAIN q : q[k].op \in Sends => Parent[q[k].t] = q[i].t
      BY <1>1, <1>15, <1>16, ZenonT(30) DEF Sends
    <2>4. q[i].op \in Sends => \A k \in DOMAIN q : q[k].op \in Sends /\ q[k].t = q[i].t => k = i
      <3>1. SUFFICES ASSUME q[i].op \in Sends, NEW k \in DOMAIN q, q[k].op \in Sends, q[k].t = q[i].t PROVE k = i
        OBVIOUS
      <3>2. i - 1 \in 1 .. n /\ k - 1 \in 1 .. n /\ q[i].t = kids[i - 1] /\ q[k].t = kids[k - 1]
        BY <1>15, <1>16, <3>1 DEF Sends
      <3>3. i - 1 = k - 1
        BY <1>1, <3>1, <3>2
      <3>4. i \in Nat /\ k \in Nat
        BY <1>16, <3>1
      <3> QED BY <3>3, <3>4
    <2>5. q[i].op = "settle" /\ j[1] # "loop" => q[i].t = j[2]
      BY <2>3
    <2> QED BY <2>1, <2>2, <2>3, <2>4, <2>5 DEF FrameFits, BootOps, Sends
  <1>18. StackOK(q, j, ph)
    BY <1>14, <1>16, <1>17 DEF StackOK
  <1>19. \A f \in ToSet(q) : \/ f.op \in {"settle", "launch"} /\ f.t = p
                             \/ f.op = "send" /\ f.t \in ToSet(kids)
    <2>1. SUFFICES ASSUME NEW f \in ToSet(q)
                   PROVE  \/ f.op \in {"settle", "launch"} /\ f.t = p
                          \/ f.op = "send" /\ f.t \in ToSet(kids)
      OBVIOUS
    <2>2. PICK i \in 1 .. Len(q) : q[i] = f
      BY <1>14, StackFacts
    <2>3. \A k \in 1 .. n : kids[k] \in ToSet(kids)
      BY <1>2 DEF ToSet
    <2> QED BY <1>15, <2>2, <2>3
  <1>20. \A k \in ToSet(kids) : \E f \in ToSet(q) : f.op = "send" /\ f.t = k
    <2>1. SUFFICES ASSUME NEW k \in ToSet(kids) PROVE \E f \in ToSet(q) : f.op = "send" /\ f.t = k
      OBVIOUS
    <2>2. PICK i \in 1 .. n : kids[i] = k
      BY <1>2 DEF ToSet
    <2>3. c[i] \in ToSet(c) /\ c[i].op = "send" /\ c[i].t = k
      BY <1>6, <2>2 DEF ToSet
    <2> QED BY <1>11, <1>14, <2>3
  <1> QED BY <1>16, <1>18, <1>19, <1>20 DEF Works

\* The ids of new children: of this parent, not in use and none of them twice.
LEMMA NewIdsFacts ==
  ASSUME NEW s, NEW p, NEW n \in Nat, NEW kids, kids = NewIds(s, p, n)
  PROVE  /\ kids \in Seq(Tasks) /\ \A i, k \in 1 .. Len(kids) : kids[i] = kids[k] => i = k
         /\ \A k \in ToSet(kids) : Parent[k] = p /\ s.mem[k] = NoTask /\ k \notin usedWorkIds(s.mem[p])
  <1>1. PICK X : X = {k \in Tasks : /\ Parent[k] = p /\ s.mem[k] = NoTask
                                    /\ k \notin usedWorkIds(s.mem[p])}
    OBVIOUS
  <1>2. PICK f : f = Ordered(X)
    OBVIOUS
  <1>3. f = FreshIds(s, p)
    BY <1>1, <1>2 DEF FreshIds
  <1>4. f \in Seq(Tasks) /\ ToSet(f) = Tasks \cap X /\ \A i, k \in 1 .. Len(f) : f[i] = f[k] => i = k
    BY <1>2, OrderedFacts
  <1>5. PICK m : m = IF n < Len(f) THEN n ELSE Len(f)
    OBVIOUS
  <1>6. kids = SubSeq(f, 1, m)
    BY <1>3, <1>5 DEF NewIds
  <1>7. m \in 0 .. Len(f) /\ m \in Nat /\ Len(f) \in Nat
    BY <1>4, <1>5
  <1>8. kids \in Seq(Tasks) /\ Len(kids) = m /\ \A i \in 1 .. m : kids[i] = f[i] /\ i \in 1 .. Len(f)
    BY <1>4, <1>6, <1>7
  <1>9. \A k \in ToSet(kids) : k \in X
    <2>1. ToSet(f) = {f[i] : i \in 1 .. Len(f)} /\ ToSet(kids) = {kids[i] : i \in 1 .. m}
      BY <1>4, <1>8 DEF ToSet
    <2> QED BY <1>4, <1>8, <2>1
  <1>10. \A i, k \in 1 .. Len(kids) : kids[i] = kids[k] => i = k
    BY <1>4, <1>8
  <1> QED BY <1>1, <1>8, <1>9, <1>10

\* The task p may start the calls and the children kids, which are new to it, in job j.
ToStart(s, j, p, calls, kids) ==
  /\ Starting(s, j, p, ToSet(kids))
  /\ kids \in Seq(Tasks) /\ \A i, k \in 1 .. Len(kids) : kids[i] = kids[k] => i = k
  /\ \A k \in ToSet(kids) : k \notin DOMAIN s.mem[p].works
  /\ ToSet(calls) \subseteq Calls /\ ToSet(calls) \cap DOMAIN s.mem[p].works = {}
  /\ j[1] = "loop" => calls = <<>>

LEMMA ToStartGrown ==
  ASSUME NEW s, NEW ph, NEW L, Inv(s, ph, L), ph # "down", NEW j, NEW p, NEW calls, NEW kids, NEW nodes,
         ToStart(s, j, p, calls, kids), NEW b, b = Extended(s.mem[p], calls, kids, nodes)
  PROVE  Grown(s, p, b, ToSet(kids))
  <1>1. PICK K : K = ToSet(kids)
    OBVIOUS
  <1>2. PICK a : a = s.mem[p]
    OBVIOUS
  <1>3. PICK X : X = ToSet(calls) \cup K
    OBVIOUS
  <1>4. Starting(s, j, p, K)
    BY <1>1 DEF ToStart
  <1>5. p \in Tasks /\ Block(a)
    BY <1>2, <1>4, StartingFacts
  <1>6. X \cap DOMAIN a.works = {}
    BY <1>1, <1>2, <1>3 DEF ToStart
  <1>7. ExtendedBy(a, b, X)
    <2>1. X = ToSet(calls) \cup ToSet(kids)
      BY <1>1, <1>3
    <2>2. b = Extended(a, calls, kids, nodes)
      BY <1>2
    <2> QED BY <1>5, <1>6, <2>1, <2>2, ExtendedFacts
  <1>17. /\ Block(b) /\ b.st = a.st /\ b.ask = a.ask /\ DOMAIN b.works = DOMAIN a.works \cup X
         /\ \A i \in Marks(b) : i \in Marks(a) /\ b.works[i].ref = a.works[i].ref
         /\ \A k : Completable(a, k) => Completable(b, k)
    BY <1>7 DEF ExtendedBy
  <1>8. Owned(p, b)
    <2>1. Owned(p, a) /\ a # NoTask
      <3>1. Owned(p, a)
        BY <1>2, <1>5 DEF Inv, Typed
      <3> QED BY <1>2, <1>4, <3>1 DEF Starting, Known
    <2>2. \A i \in X : i \in Calls \/ (i \in Tasks /\ Parent[i] = p)
      BY <1>1, <1>3, <1>4 DEF ToStart, Starting
    <2>3. /\ \A i \in DOMAIN a.works : i \in Calls \/ (i \in Tasks /\ Parent[i] = p)
          /\ \A h \in DOMAIN a.ask.path : Route(p, a.ask.path[h])
      BY <2>1 DEF Owned
    <2> QED BY <1>17, <2>2, <2>3 DEF Owned
  <1>9. b.st = "RUNNING"
    BY <1>2, <1>4, <1>17 DEF Starting
  <1>10. \A k \in K : Completable(b, k)
    BY <1>3, <1>7 DEF ExtendedBy
  <1> QED BY <1>1, <1>2, <1>17, <1>8, <1>9, <1>10 DEF Grown

LEMMA ToStartWorks ==
  ASSUME NEW s, NEW ph, NEW L, Inv(s, ph, L), ph # "down", NEW j, NEW p, NEW calls, NEW kids,
         ToStart(s, j, p, calls, kids), NEW q, q = WorkFrames(p, calls, kids)
  PROVE  Works(q, j, ph, p, ToSet(kids))
  <1>1. PICK K : K = ToSet(kids)
    OBVIOUS
  <1>2. Starting(s, j, p, K) /\ kids \in Seq(Tasks) /\ \A i, k \in 1 .. Len(kids) : kids[i] = kids[k] => i = k
    BY <1>1 DEF ToStart
  <1>3. j \in Jobs /\ j[1] \in {"turn", "loop"}
    BY <1>2, StartingFacts
  <1>4. j[1] = "turn" => j[2] = p
    BY <1>2, JobFacts DEF Starting
  <1>5. j[1] = "loop" => calls = <<>>
    BY DEF ToStart
  <1>6. \A i \in 1 .. Len(kids) : Parent[kids[i]] = p
    <2>1. \A i \in 1 .. Len(kids) : kids[i] \in K
      BY <1>1, <1>2 DEF ToSet
    <2> QED BY <1>2, <2>1 DEF Starting
  <1> QED BY <1>2, <1>3, <1>4, <1>5, <1>6, WorkFramesFit

\* startAsyncWork.
LEMMA StartsWork ==
  ASSUME NEW s, NEW ph, NEW L, Inv(s, ph, L), ph # "down", NEW j, NEW p, NEW calls, NEW kids, NEW asks, NEW nodes,
         ToStart(s, j, p, calls, kids), NEW r, r = startAsyncWork(s, j, p, calls, kids, asks, nodes)
  PROVE  /\ Inv(r, ph, L)
         /\ \A x \in Tasks : s.mem[x] # NoTask => r.mem[x] # NoTask /\ r.mem[x].st = s.mem[x].st
  <1>1. PICK K : K = ToSet(kids)
    OBVIOUS
  <1>2. PICK b : b = Extended(s.mem[p], calls, kids, nodes)
    OBVIOUS
  <1>3. PICK q : q = WorkFrames(p, calls, kids)
    OBVIOUS
  <1>4. PICK m : m = [t \in Tasks |->
                 IF t = p THEN b
                 ELSE IF t \in ToSet(kids)
                 THEN createAgent(delegate(p, asks[CHOOSE i \in DOMAIN kids : kids[i] = t]))
                 ELSE s.mem[t]]
    OBVIOUS
  <1>5. PICK po : po = IF kids = <<>> THEN s.pool ELSE commit(s.pool, p, ToSet(kids))
    OBVIOUS
  <1>6. DOMAIN s = Fields /\ DOMAIN s.jobs = Jobs /\ DOMAIN s.pool = {"live", "spawned"} /\ DOMAIN s.mem = Tasks
    BY DEF Inv, Typed, Fields
  <1>7. PICK u : u = [s EXCEPT !.mem = m, !.pool = po]
    OBVIOUS
  <1>8. Is(u, m, s.disk, s.queue, s.packing, s.timers, s.wake, po, s.jobs)
    BY <1>6, <1>7 DEF Is, Fields
  <1>9. r = Push(u, j, q)
    BY <1>2, <1>3, <1>4, <1>5, <1>7 DEF startAsyncWork, Extended, WorkFrames
  <1>10. Is(r, m, s.disk, s.queue, s.packing, s.timers, s.wake, po, [s.jobs EXCEPT ![j] = q \o @])
    <2>1. DOMAIN u = Fields
      BY <1>8 DEF Is
    <2>2. Is(r, u.mem, u.disk, u.queue, u.packing, u.timers, u.wake, u.pool, [u.jobs EXCEPT ![j] = q \o @])
      BY <1>9, <2>1, Shapes
    <2> QED BY <1>8, <2>2 DEF Is
  <1>11. Starting(s, j, p, K)
    BY <1>1 DEF ToStart
  <1>12. j \in Jobs /\ p \in Tasks /\ p \notin K /\ K \subseteq Tasks
    <2>1. j \in Jobs /\ p \in Tasks /\ p \notin K
      BY <1>11, StartingFacts
    <2> QED BY <1>11, <2>1 DEF Starting
  <1>13. r.mem = m /\ r.pool = po /\ r.jobs = [s.jobs EXCEPT ![j] = q \o @]
    BY <1>10 DEF Is
  <1>14. DOMAIN m = Tasks /\ m[p] = b /\ (\A k \in K : Fresh(m[k])) /\ \A x \in Tasks : x = p \/ x \in K \/ m[x] = s.mem[x]
    <2>1. \A k \in K : \E g : m[k] = createAgent(g)
      BY <1>1, <1>4, <1>12
    <2>2. \A k \in K : Fresh(m[k])
      BY <2>1, CreatedFresh
    <2> QED BY <1>1, <1>4, <1>12, <2>2
  <1>15. DOMAIN po = {"live", "spawned"} /\ po.live = s.pool.live \cup K
    <2>1. CASE kids = <<>>
      <3>1. ToSet(kids) = {}
        BY <2>1, SuffixNone, OneFrame
      <3> QED BY <1>1, <1>5, <1>6, <2>1, <3>1
    <2>2. CASE kids # <<>>
      BY <1>1, <1>5, <1>6, <2>2 DEF commit
    <2> QED BY <2>1, <2>2
  <1>16. DOMAIN r.jobs = Jobs /\ r.jobs[j] = q \o s.jobs[j] /\ \A i \in Jobs : i # j => r.jobs[i] = s.jobs[i]
    BY <1>6, <1>12, <1>13
  <1>17. Is(r, r.mem, s.disk, s.queue, s.packing, s.timers, s.wake, r.pool, r.jobs)
    BY <1>10 DEF Is
  <1>18. Started(s, r, j, p, b, K, q)
    BY <1>13, <1>14, <1>15, <1>16, <1>17 DEF Started
  <1>19. Grown(s, p, b, K)
    BY <1>1, <1>2, ToStartGrown
  <1>20. Works(q, j, ph, p, K)
    BY <1>1, <1>3, ToStartWorks
  <1>21. WorkBegins(s, r, ph, L, j, p, b, K, q)
    BY <1>11, <1>18, <1>19, <1>20 DEF WorkBegins
  <1> QED BY <1>21, WorkStarts

\* The ids kids are those of new children of t.
NewKids(s, t, kids) ==
  /\ kids \in Seq(Tasks) /\ \A i, k \in 1 .. Len(kids) : kids[i] = kids[k] => i = k
  /\ \A k \in ToSet(kids) : k \in Tasks /\ Parent[k] = t /\ s.mem[k] = NoTask /\ k \notin DOMAIN s.mem[t].works

LEMMA KidsNew ==
  ASSUME NEW s, NEW t, NEW n \in Nat, NEW kids, kids = NewIds(S, t, n), s.mem = mem
  PROVE  NewKids(s, t, kids)
  <1>1. PICK z : z = S
    OBVIOUS
  <1>2. z.mem = s.mem
    BY <1>1, SFacts
  <1>3. /\ kids \in Seq(Tasks) /\ \A i, k \in 1 .. Len(kids) : kids[i] = kids[k] => i = k
        /\ \A k \in ToSet(kids) : Parent[k] = t /\ z.mem[k] = NoTask /\ k \notin usedWorkIds(z.mem[t])
    BY <1>1, NewIdsFacts
  <1>4. \A k \in ToSet(kids) : k \in Tasks
    BY <1>3 DEF ToSet
  <1>5. \A k \in ToSet(kids) : k \notin DOMAIN s.mem[t].works
    BY <1>2, <1>3 DEF usedWorkIds
  <1> QED BY <1>2, <1>3, <1>4, <1>5 DEF NewKids

\* What has begun is legal when no status changes.
LEMMA StartsGood ==
  ASSUME NEW r, Inv(r, phase, {}), NEW s, s.mem = mem,
         \A x \in Tasks : s.mem[x] # NoTask => r.mem[x] # NoTask /\ r.mem[x].st = s.mem[x].st
  PROVE  Good(r)
  <1>1. Legal(S, r)
    BY SFacts DEF Legal
  <1> QED BY <1>1 DEF Good

\* AnswerWork.
LEMMA AnswerWorkStep ==
  ASSUME IInv, NEW t \in Tasks, NEW a, a \in Answers[t], NEW fit \in Fits, AnswerWork(t, a, fit)
  PROVE  Onward
  <1>1. PICK s : s = Turn(t)
    OBVIOUS
  <1>2. AtTurn(s, t)
    BY <1>1, AnswerTurn DEF AnswerWork
  <1>3. PICK j : j = TurnJob(t)
    OBVIOUS
  <1>4. a.calls \in Seq(Calls) /\ Len(a.kids) \in Nat
    <2>1. a.type \in {"spawn_subagents", "tool_calls", "async_work"}
      BY DEF AnswerWork
    <2> QED BY <2>1, TaskAssumption
  <1>5. PICK n \in Nat : n = Len(a.kids)
    BY <1>4
  <1>6. PICK kids : kids = NewIds(S, t, n)
    OBVIOUS
  <1>7. PICK e : e = <<>>
    OBVIOUS
  <1>8. PICK r1 : r1 = Reject(s, j, t, fit)
    OBVIOUS
  <1>9. PICK r2 : r2 = startAsyncWork(s, j, t, a.calls, kids, a.kids, e)
    OBVIOUS
  <1>10. PICK no : no = WorkRefused(S, t, a.calls, kids, a.kids)
    OBVIOUS
  <1>11. phase' = phase /\ (Do(r1) \/ (~no /\ Do(r2)))
    BY <1>1, <1>3, <1>5, <1>6, <1>7, <1>8, <1>9, <1>10 DEF AnswerWork, Stay
  <1>12. Good(r1)
    BY <1>2, <1>3, <1>8, TurnRejects
  <1>13. s.mem = mem /\ t \in Tasks /\ Known(s, t) /\ mem[t].st = "RUNNING" /\ s.jobs[j] = <<>> /\ s.jobs[ModelJob(t)] = <<>>
         /\ ~InLoop(s, t) /\ phase # "down" /\ Inv(s, phase, {}) /\ j[1] = "turn"
    BY <1>2, <1>3 DEF AtTurn
  <1>14. /\ kids \in Seq(Tasks) /\ \A i, k \in 1 .. Len(kids) : kids[i] = kids[k] => i = k
         /\ \A k \in ToSet(kids) : k \in Tasks /\ Parent[k] = t /\ s.mem[k] = NoTask /\ k \notin DOMAIN s.mem[t].works
    <2>1. NewKids(s, t, kids)
      BY <1>6, <1>13, KidsNew
    <2> QED BY <2>1 DEF NewKids
  <1>15. ~Hot(s, t)
    <2>1. Held(s, TurnJob(t)) = {}
      BY <1>3, <1>13, SuffixNone, OneFrame DEF Held
    <2> QED BY <2>1 DEF Hot
  <1>16. Starting(s, j, t, ToSet(kids))
    BY <1>3, <1>13, <1>14, <1>15 DEF Starting
  <1>17. ToSet(a.calls) \subseteq Calls
    BY <1>4 DEF ToSet
  <1>18. ~no => ToSet(a.calls) \cap DOMAIN s.mem[t].works = {}
    BY <1>10, <1>13, SFacts DEF WorkRefused, usedWorkIds
  <1>19. ~no => ToStart(s, j, t, a.calls, kids)
    BY <1>13, <1>14, <1>16, <1>17, <1>18 DEF ToStart
  <1>20. ~no => Good(r2)
    <2>1. PICK ph, E : ph = phase /\ E = {}
      OBVIOUS
    <2>2. Inv(s, ph, E) /\ ph # "down"
      BY <1>13, <2>1
    <2>3. SUFFICES ASSUME ~no PROVE Good(r2)
      OBVIOUS
    <2>4. ToStart(s, j, t, a.calls, kids)
      BY <1>19, <2>3
    <2>5. /\ Inv(r2, ph, E)
          /\ \A x \in Tasks : s.mem[x] # NoTask => r2.mem[x] # NoTask /\ r2.mem[x].st = s.mem[x].st
      BY <1>9, <2>2, <2>4, StartsWork
    <2> QED BY <1>13, <2>1, <2>5, StartsGood
  <1> QED BY <1>11, <1>12, <1>13, <1>20, Closes

\* The loop has taken up the delegation of nodes for the task t.
AtDispatch(s, j, t) ==
  /\ Outcome(S, s, j, phase, {}) /\ Inv(s, phase, {}) /\ phase # "down" /\ j \in Jobs /\ j[1] = "loop"
  /\ s.mem = mem /\ S.mem = mem /\ t \in Tasks /\ Known(s, t) /\ Block(mem[t]) /\ mem[t].st \in {"RUNNING", "TERMINATED"}
  /\ s.jobs[j] = <<>> /\ s.jobs[ModelJob(t)] = <<>> /\ ~Hot(s, t)

LEMMA DispatchTaken ==
  ASSUME IInv, At(<<"loop">>, "dispatch"), NEW j, j = <<"loop">>, NEW t, t = jobs[j][1].t, NEW s, s = Pop(S, j)
  PROVE  AtDispatch(s, j, t) /\ Len(jobs[j][1].x) \in Nat
  <1>2. j \in Jobs /\ j[1] = "loop" /\ \A x \in Tasks : ModelJob(x) # j /\ TurnJob(x) # j /\ ModelJob(x) \in Jobs /\ TurnJob(x) \in Jobs
    <2>1. \A x \in Tasks : ModelJob(x)[1] = "model" /\ TurnJob(x)[1] = "turn" /\ ModelJob(x) \in Jobs /\ TurnJob(x) \in Jobs
      BY JobFacts
    <2>2. j \in Jobs /\ j[1] = "loop"
      BY JobFacts
    <2> QED BY <2>1, <2>2
  <1>3. PICK f : f = jobs[j][1]
    OBVIOUS
  <1>4. jobs[j] # <<>> /\ f.op = "dispatch" /\ jobs[j][1].op \notin Sends \cup {"resume", "cancel", "orphan"} /\ s = Pop(S, j)
        /\ f.t = t
    BY <1>3 DEF At, Sends
  <1>5. /\ Outcome(S, s, j, phase, {}) /\ Popped(S, s, j) /\ FrameKnown(S, f) /\ FrameFits(jobs[j], 1, j, phase)
        /\ phase # "down" /\ Inv(S, phase, {}) /\ Inv(s, phase, {}) /\ Loose(s.jobs[j]) /\ s.mem = mem /\ S.mem = mem
        /\ \A x \in Tasks : Known(s, x) <=> Known(S, x)
    BY <1>2, <1>3, <1>4, TakesPlain
  <1>6. Len(jobs[j]) = 1
    BY <1>3, <1>4, <1>5 DEF FrameFits
  <1>7. Known(S, t) /\ t \in Tasks /\ Known(s, t) /\ Len(f.x) \in Nat
    BY <1>4, <1>5 DEF FrameKnown, Nameless, Sends, Known
  <1>8. Block(mem[t])
    BY <1>5, <1>7 DEF Known, Inv, Typed
  <1>9. S.jobs[j] = jobs[j] /\ IsStack(jobs[j])
    BY <1>2, <1>5, SFacts DEF Inv, Stacks, StackOK
  <1>10. s.jobs[j] = <<>>
    <2>1. Suffix(Tail(jobs[j]), jobs[j], 1)
      BY <1>4, <1>9, SuffixTail
    <2>2. IsStack(Tail(jobs[j])) /\ Len(Tail(jobs[j])) = 0
      BY <1>6, <2>1 DEF Suffix
    <2>3. Tail(jobs[j]) = <<>>
      BY <2>2, StackFacts
    <2> QED BY <1>5, <1>9, <2>3 DEF Popped
  <1>11. InLoop(S, t) /\ Looped(S, t)
    <2>1. f \in Held(S, j)
      BY <1>3, <1>6, <1>9, StackFacts DEF Held
    <2> QED BY <1>4, <2>1 DEF InLoop, Looped, Holds
  <1>12. HandlesFor(S, t, mem[t])
    BY <1>5, <1>7 DEF Inv, Handles, HandlesOf
  <1>13. S.jobs[ModelJob(t)] = <<>> /\ ~Hot(S, t) /\ mem[t].st \in {"RUNNING", "TERMINATED"}
    BY <1>11, <1>12 DEF HandlesFor
  <1>14. s.jobs[ModelJob(t)] = S.jobs[ModelJob(t)] /\ s.jobs[TurnJob(t)] = S.jobs[TurnJob(t)]
    BY <1>2, <1>5, <1>7 DEF Popped
  <1>15. ~Hot(s, t)
    BY <1>13, <1>14 DEF Hot, Held
  <1> QED BY <1>2, <1>3, <1>5, <1>7, <1>8, <1>10, <1>13, <1>14, <1>15 DEF AtDispatch

\* The loop goes on with one frame for the task t.
LoopHas(s, r, j, f, t) ==
  /\ Inv(r, phase, {}) /\ r.mem = mem /\ Known(r, t)
  /\ Begun(s, r, j, <<f>>) /\ r.jobs[ModelJob(t)] = <<>> /\ ~Hot(r, t)

LEMMA DispatchGoesOn ==
  ASSUME NEW s, NEW j, j = <<"loop">>, NEW t, AtDispatch(s, j, t), NEW f, f.op \in {"failnodes", "try"}, f.t = t,
         NEW r, r = Push(s, j, <<f>>)
  PROVE  LoopHas(s, r, j, f, t)
  <1>1. PICK ph, E : ph = phase /\ E = {}
    OBVIOUS
  <1>2. Inv(s, ph, E) /\ Known(s, f.t) /\ s.jobs[j] = <<>> /\ s.jobs[ModelJob(f.t)] = <<>> /\ ~Hot(s, f.t)
        /\ s.mem[f.t].st \in {"RUNNING", "TERMINATED"} /\ j \in Jobs /\ j[1] = "loop" /\ t \in Tasks
    BY <1>1 DEF AtDispatch
  <1>3. f.op \in {"dispatch", "settle", "failnodes", "try"} /\ f.op # "dispatch" /\ s.jobs[<<"loop">>] = <<>>
        /\ r = Push(s, <<"loop">>, <<f>>)
    BY <1>2
  <1>4. Inv(r, ph, E) /\ r.mem = s.mem /\ \A x \in Tasks : Known(r, x) <=> Known(s, x)
    BY <1>2, <1>3, LoopBegins
  <1>5. PICK p : p = <<f>>
    OBVIOUS
  <1>6. IsStack(p) /\ r = Push(s, j, p)
    BY <1>5, OneFrame
  <1>7. Begun(s, r, j, p)
    BY <1>2, <1>6, BeginShape
  <1>8. ModelJob(t) # j /\ TurnJob(t) # j /\ ModelJob(t) \in Jobs /\ TurnJob(t) \in Jobs
    <2>1. ModelJob(t)[1] = "model" /\ TurnJob(t)[1] = "turn" /\ ModelJob(t) \in Jobs /\ TurnJob(t) \in Jobs
      BY <1>2, JobFacts
    <2> QED BY <1>2, <2>1
  <1>9. r.jobs[ModelJob(t)] = <<>> /\ ~Hot(r, t)
    BY <1>2, <1>7, <1>8 DEF Begun, Hot
  <1>10. Known(r, t) /\ r.mem = mem
    BY <1>2, <1>4 DEF AtDispatch
  <1> QED BY <1>1, <1>4, <1>5, <1>7, <1>9, <1>10 DEF LoopHas

\* A refused delegation is rejected, and its nodes are failed next.
LEMMA DispatchRejects ==
  ASSUME IInv, NEW s, NEW j, j = <<"loop">>, NEW t, AtDispatch(s, j, t), mem[t].st = "RUNNING", NEW fit \in Fits,
         NEW f, f.op = "failnodes", f.t = t, NEW u, u = Push(s, j, <<f>>), NEW r, r = Reject(u, j, t, fit)
  PROVE  Good(r)
  <1>1. PICK ph, E : ph = phase /\ E = {}
    OBVIOUS
  <1>2. f.op \in {"failnodes", "try"}
    OBVIOUS
  <1>3. LoopHas(s, u, j, f, t)
    BY <1>2, DispatchGoesOn
  <1>4. /\ Inv(u, ph, E) /\ u.mem = mem /\ Known(u, t) /\ Begun(s, u, j, <<f>>) /\ u.jobs[ModelJob(t)] = <<>>
        /\ ~Hot(u, t) /\ ph # "down" /\ j \in Jobs /\ j[1] = "loop" /\ t \in Tasks /\ Block(mem[t])
        /\ Inv(s, ph, E) /\ Outcome(S, s, j, phase, {})
    BY <1>1, <1>3 DEF LoopHas, AtDispatch
  <1>5. PICK p : p = <<f>>
    OBVIOUS
  <1>6. IsStack(p) /\ ToSet(p) = {f} /\ p[1] = f /\ Len(p) = 1
    <2>1. IsStack(p) /\ p[1] = f /\ Len(p) = 1
      BY <1>5, OneFrame
    <2> QED BY <2>1, StackFacts
  <1>7. u.jobs[j] = p /\ Held(u, j) = {f}
    BY <1>4, <1>5, <1>6 DEF Begun
  <1>8. TurnJob(t) \in Jobs /\ TurnJob(t)[1] = "turn" /\ ModelJob(t) \in Jobs
    BY <1>4, JobFacts
  <1>9. HandlesFor(u, t, mem[t])
    BY <1>4 DEF Inv, Handles, HandlesOf
  <1>10. Free(u, t)
    <2>1. ~Looped(u, t)
      BY <1>7 DEF Looped, Holds
    <2>2. ~Holds(u, t, TurnJob(t), {"settle", "continue"})
      BY <1>4 DEF Hot, Holds
    <2>3. ~OwnHop(u, TurnJob(t))
      BY <1>9 DEF HandlesFor, Waits
    <2> QED BY <1>4, <2>1, <2>2, <2>3 DEF Free
  <1>11. Loose(u.jobs[j])
    BY <1>6, <1>7 DEF Loose, Heads
  <1>12. PICK b : b = appendContext(mem[t])
    OBVIOUS
  <1>13. Milder(mem[t], b, E) /\ b.ask = mem[t].ask
    BY <1>4, <1>12, ContextMild
  <1>14. \A i \in Jobs : HopAt(u, i, t) => Pending(b)
    <2>1. \A i \in Jobs : HopAt(u, i, t) => Pending(mem[t])
      BY <1>4 DEF Inv, Asks, AsksOf
    <2> QED BY <1>13, <2>1 DEF Pending
  <1>15. Resumable(u, t, b)
    BY <1>1, <1>4, <1>10, <1>13, <1>14 DEF Resumable, Live
  <1>16. r = Requeue(u, j, t, b, fit)
    BY <1>4, <1>12 DEF Reject
  <1>17. Without(E, t, E)
    BY DEF Without
  <1>18. Outcome(u, r, j, ph, E)
    BY <1>4, <1>11, <1>15, <1>16, <1>17, Requeues
  <1>19. Falls(s, u) /\ Falls(u, r) /\ Inv(r, ph, E)
    <2>1. u.mem = s.mem
      BY <1>4 DEF Begun, Is
    <2>2. Falls(s, u)
      BY <2>1, FallsSame
    <2> QED BY <1>18, <2>2 DEF Outcome
  <1>20. Falls(S, r)
    BY <1>4, <1>19, FallsThen DEF Outcome
  <1>21. Legal(S, r)
    <2>1. PICK z : z = S
      OBVIOUS
    <2>2. Inv(z, ph, E) /\ Falls(z, r)
      BY <1>1, <1>20, <2>1 DEF IInv
    <2>3. Legal(z, r)
      BY <1>19, <2>2, FallsLegal
    <2> QED BY <2>1, <2>3
  <1> QED BY <1>1, <1>19, <1>21 DEF Good

\* An accepted delegation starts its children.
LEMMA DispatchStarts ==
  ASSUME IInv, NEW s, NEW j, j = <<"loop">>, NEW t, AtDispatch(s, j, t), mem[t].st = "RUNNING",
         NEW f, f.op = "try", f.t = t, NEW u, u = Push(s, j, <<f>>),
         NEW n \in Nat, NEW kids, kids = NewIds(S, t, n), NEW asks, NEW nodes, NEW e, e = <<>>,
         NEW r, r = startAsyncWork(u, j, t, e, kids, asks, nodes)
  PROVE  Good(r)
  <1>1. PICK ph, E : ph = phase /\ E = {}
    OBVIOUS
  <1>2. f.op \in {"failnodes", "try"}
    OBVIOUS
  <1>3. LoopHas(s, u, j, f, t)
    BY <1>2, DispatchGoesOn
  <1>4. /\ Inv(u, ph, E) /\ u.mem = mem /\ Known(u, t) /\ Begun(s, u, j, <<f>>) /\ u.jobs[ModelJob(t)] = <<>>
        /\ ~Hot(u, t) /\ ph # "down"
    BY <1>1, <1>3 DEF LoopHas, AtDispatch
  <1>5. PICK p : p = <<f>>
    OBVIOUS
  <1>6. p[1] = f /\ Len(p) = 1
    BY <1>5, OneFrame
  <1>7. u.jobs[j] = p
    BY <1>4, <1>5 DEF Begun
  <1>8. NewKids(u, t, kids)
    BY <1>4, KidsNew
  <1>9. /\ kids \in Seq(Tasks) /\ \A i, k \in 1 .. Len(kids) : kids[i] = kids[k] => i = k
        /\ \A k \in ToSet(kids) : k \in Tasks /\ Parent[k] = t /\ u.mem[k] = NoTask /\ k \notin DOMAIN u.mem[t].works
    BY <1>8 DEF NewKids
  <1>10. Starting(u, j, t, ToSet(kids))
    BY <1>4, <1>6, <1>7, <1>9 DEF Starting
  <1>11. ToSet(e) = {}
    BY SuffixNone, OneFrame
  <1>12. ToStart(u, j, t, e, kids)
    BY <1>9, <1>10, <1>11 DEF ToStart
  <1>13. /\ Inv(r, ph, E)
         /\ \A x \in Tasks : u.mem[x] # NoTask => r.mem[x] # NoTask /\ r.mem[x].st = u.mem[x].st
    BY <1>4, <1>12, StartsWork
  <1> QED BY <1>1, <1>4, <1>13, StartsGood

\* DispatchNodes.
LEMMA DispatchNodesStep ==
  ASSUME IInv, NEW fit \in Fits, DispatchNodes(fit)
  PROVE  Onward
  <1>1. PICK j : j = <<"loop">>
    OBVIOUS
  <1>2. PICK t, nodes : t = jobs[j][1].t /\ nodes = jobs[j][1].x
    OBVIOUS
  <1>3. PICK s : s = Pop(S, j)
    OBVIOUS
  <1>4. PICK asks : asks = toGraphChildRequest(mem[t].graph, nodes)
    OBVIOUS
  <1>5. PICK n : n = Len(nodes)
    OBVIOUS
  <1>6. PICK kids : kids = NewIds(S, t, n)
    OBVIOUS
  <1>7. PICK e : e = <<>>
    OBVIOUS
  <1>8. PICK fn, tr : fn = Frame("failnodes", t, nodes) /\ tr = Frame("try", t, nodes)
    OBVIOUS
  <1>9. PICK u1, u2 : u1 = Push(s, j, <<fn>>) /\ u2 = Push(s, j, <<tr>>)
    OBVIOUS
  <1>10. PICK r1 : r1 = Reject(u1, j, t, fit)
    OBVIOUS
  <1>11. PICK r2 : r2 = startAsyncWork(u2, j, t, e, kids, asks, nodes)
    OBVIOUS
  <1>12. At(<<"loop">>, "dispatch") /\ phase' = phase
    BY DEF DispatchNodes, Stay
  <1>13. \/ mem[t].st # "RUNNING" /\ Do(u1)
         \/ mem[t].st = "RUNNING" /\ (Do(r1) \/ Do(r2))
    BY <1>1, <1>2, <1>3, <1>4, <1>5, <1>6, <1>7, <1>8, <1>9, <1>10, <1>11, ZenonT(30) DEF DispatchNodes
  <1>14. AtDispatch(s, j, t) /\ n \in Nat
    BY <1>1, <1>2, <1>3, <1>5, <1>12, DispatchTaken
  <1>15. fn.op = "failnodes" /\ fn.t = t /\ tr.op = "try" /\ tr.t = t
    BY <1>8 DEF Frame
  <1>16. Good(u1)
    <2>1. fn.op \in {"failnodes", "try"}
      BY <1>15
    <2>2. LoopHas(s, u1, j, fn, t)
      BY <1>1, <1>9, <1>14, <1>15, <2>1, DispatchGoesOn
    <2>3. Inv(u1, phase, {}) /\ u1.mem = mem
      BY <2>2 DEF LoopHas
    <2>4. Legal(S, u1)
      BY <2>3, SFacts DEF Legal
    <2> QED BY <2>3, <2>4 DEF Good
  <1>17. mem[t].st = "RUNNING" => Good(r1)
    BY <1>1, <1>9, <1>10, <1>14, <1>15, DispatchRejects
  <1>18. mem[t].st = "RUNNING" => Good(r2)
    BY <1>1, <1>6, <1>7, <1>9, <1>11, <1>14, <1>15, DispatchStarts
  <1> QED BY <1>12, <1>13, <1>14, <1>16, <1>17, <1>18, Closes DEF AtDispatch

=============================================================================

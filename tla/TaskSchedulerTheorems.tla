----------------------- MODULE TaskSchedulerTheorems ------------------------
(***************************************************************************)
(* The last steps of TaskScheduler, those of the functions that rest while *)
(* the process boots; what the invariant shows of every behaviour; and the *)
(* local work graphs of the tasks: what every control block, in memory or  *)
(* stored, keeps true of its graph and of the work behind it.              *)
(***************************************************************************)
EXTENDS TaskSchedulerProofs

\* The provers that a leaf is given, in turn.
USE SMT, Zenon, SMTT(6), SMTT(7), SMTT(8)

----------------------------------------------------------------------------
(* The functions that rest while the process boots *)

\* Requests, their turns and the loop are the same in r as in s.
Acting == {"model", "turn", "loop"}
Whole(s) == DOMAIN s = Fields /\ DOMAIN s.jobs = Jobs
Spares(s, r) == Whole(s) /\ Whole(r) /\ \A i \in Jobs : i[1] \in Acting => r.jobs[i] = s.jobs[i]

LEMMA SparesThen ==
  ASSUME NEW s, NEW u, NEW r, Spares(s, u), Spares(u, r)
  PROVE  Spares(s, r)
  BY DEF Spares

LEMMA SparesSelf ==
  ASSUME NEW s, Whole(s)
  PROVE  Spares(s, s)
  BY DEF Spares

\* The jobs are the same.
LEMMA SparesSame ==
  ASSUME NEW s, Whole(s), NEW r, DOMAIN r = Fields, r.jobs = s.jobs
  PROVE  Spares(s, r)
  BY DEF Spares, Whole

LEMMA SparesWrites ==
  ASSUME NEW s, Whole(s), NEW j \in Jobs, j[1] \notin Acting
  PROVE  /\ \A t, b : Spares(s, Put(s, t, b))
         /\ \A t : Spares(s, Persist(s, t))
         /\ \A p : Spares(s, Push(s, j, p))
         /\ Spares(s, Pop(s, j))
  <1>1. DOMAIN s = Fields /\ DOMAIN s.jobs = Jobs
    BY DEF Whole
  <1>2. \A t, b : DOMAIN Put(s, t, b) = Fields /\ Put(s, t, b).jobs = s.jobs
    <2>1. SUFFICES ASSUME NEW t, NEW b PROVE DOMAIN Put(s, t, b) = Fields /\ Put(s, t, b).jobs = s.jobs
      OBVIOUS
    <2>2. Is(Put(s, t, b), [s.mem EXCEPT ![t] = b], s.disk, s.queue, s.packing, s.timers, s.wake, s.pool, s.jobs)
      BY <1>1, Shapes
    <2> QED BY <2>2 DEF Is
  <1>3. \A t : DOMAIN Persist(s, t) = Fields /\ Persist(s, t).jobs = s.jobs
    BY <1>1, Shapes DEF Is
  <1>4. \A p : DOMAIN Push(s, j, p) = Fields /\ Push(s, j, p).jobs = [s.jobs EXCEPT ![j] = p \o @]
    <2>1. SUFFICES ASSUME NEW p
                   PROVE  DOMAIN Push(s, j, p) = Fields /\ Push(s, j, p).jobs = [s.jobs EXCEPT ![j] = p \o @]
      OBVIOUS
    <2>2. Is(Push(s, j, p), s.mem, s.disk, s.queue, s.packing, s.timers, s.wake, s.pool, [s.jobs EXCEPT ![j] = p \o @])
      BY <1>1, Shapes
    <2> QED BY <2>2 DEF Is
  <1>5. DOMAIN Pop(s, j) = Fields /\ Pop(s, j).jobs = [s.jobs EXCEPT ![j] = Tail(@)]
    BY <1>1, Shapes DEF Is
  <1>6. \A i \in Jobs : i[1] \in Acting => i # j
    OBVIOUS
  <1>7. \A p : Spares(s, Push(s, j, p))
    BY <1>1, <1>4, <1>6 DEF Spares, Whole
  <1>8. Spares(s, Pop(s, j))
    BY <1>1, <1>5, <1>6 DEF Spares, Whole
  <1>9. \A t, b : Spares(s, Put(s, t, b))
    BY <1>1, <1>2 DEF Spares, Whole
  <1>10. \A t : Spares(s, Persist(s, t))
    BY <1>1, <1>3 DEF Spares, Whole
  <1> QED BY <1>7, <1>8, <1>9, <1>10

LEMMA SparesTerminates ==
  ASSUME NEW s, Whole(s), NEW j \in Jobs, j[1] \notin Acting, NEW t, NEW kind
  PROVE  Spares(s, terminateTask(s, j, t, kind))
  <1>1. PICK r : r = terminateTask(s, j, t, kind)
    OBVIOUS
  <1>2. CASE s.mem[t].st = "TERMINATED"
    BY <1>1, <1>2, SparesSelf DEF terminateTask
  <1>3. CASE s.mem[t].st # "TERMINATED"
    <2>1. PICK b : b = transition(denyPendingCapabilityRequests(s.mem[t]), "TERMINATED", kind)
      OBVIOUS
    <2>2. PICK p : p = <<Frame("cancel", t, SetToSeq(childrenOf(s.pool, t))), Frame("notify", t, <<kind>>)>>
      OBVIOUS
    <2>3. PICK u : u = [s EXCEPT !.queue = @ \ {t}, !.packing = @ \ {t},
                             !.timers = @ \ {t}, !.wake = @ \ {t},
                             !.pool = release(@, t)]
      OBVIOUS
    <2>4. PICK v, w : v = Put(u, t, b) /\ w = Persist(v, t)
      OBVIOUS
    <2>5. r = Push(w, j, p)
      BY <1>1, <1>3, <2>1, <2>2, <2>3, <2>4 DEF terminateTask
    <2>6. DOMAIN u = Fields /\ u.jobs = s.jobs
      BY <2>3 DEF Whole, Fields
    <2>7. Spares(s, u) /\ Whole(u)
      BY <2>6, SparesSame DEF Spares
    <2>8. Spares(u, v) /\ Whole(v)
      BY <2>4, <2>7, SparesWrites DEF Spares
    <2>9. Spares(v, w) /\ Whole(w)
      BY <2>4, <2>8, SparesWrites DEF Spares
    <2>10. Spares(w, r)
      BY <2>5, <2>9, SparesWrites
    <2> QED BY <1>1, <2>7, <2>8, <2>9, <2>10, SparesThen
  <1> QED BY <1>2, <1>3

LEMMA SparesPrepares ==
  ASSUME NEW s, Whole(s), NEW j \in Jobs, j[1] \notin Acting, NEW t, NEW fit \in Fits
  PROVE  Spares(s, prepareTaskForQueue(s, j, t, fit))
  <1>1. PICK r : r = prepareTaskForQueue(s, j, t, fit)
    OBVIOUS
  <1>2. PICK u : u = [s EXCEPT !.queue = @ \ {t}, !.packing = @ \ {t}]
    OBVIOUS
  <1>3. Spares(s, u) /\ Whole(u)
    <2>1. DOMAIN u = Fields /\ u.jobs = s.jobs
      BY <1>2 DEF Whole, Fields
    <2> QED BY <2>1, SparesSame DEF Spares
  <1>4. fit \in {"fits", "packs", "over"}
    BY TaskAssumption
  <1>5. CASE fit = "fits"
    <2>1. r = [u EXCEPT !.queue = @ \cup {t}]
      BY <1>1, <1>2, <1>5 DEF prepareTaskForQueue
    <2>2. DOMAIN r = Fields /\ r.jobs = u.jobs
      BY <1>3, <2>1 DEF Whole, Fields
    <2> QED BY <1>1, <1>3, <2>2, SparesSame, SparesThen
  <1>6. CASE fit = "packs" /\ ~s.mem[t].packed
    <2>1. r = [u EXCEPT !.packing = @ \cup {t}]
      BY <1>1, <1>2, <1>6 DEF prepareTaskForQueue
    <2>2. DOMAIN r = Fields /\ r.jobs = u.jobs
      BY <1>3, <2>1 DEF Whole, Fields
    <2> QED BY <1>1, <1>3, <2>2, SparesSame, SparesThen
  <1>7. CASE fit = "over" \/ (fit = "packs" /\ s.mem[t].packed)
    <2>1. PICK kind : kind = "failed"
      OBVIOUS
    <2>2. r = terminateTask(u, j, t, kind)
      BY <1>1, <1>2, <1>7, <2>1 DEF prepareTaskForQueue
    <2>3. Spares(u, r)
      BY <1>3, <2>2, SparesTerminates
    <2> QED BY <1>1, <1>3, <2>3, SparesThen
  <1> QED BY <1>4, <1>5, <1>6, <1>7

LEMMA SparesRequeues ==
  ASSUME NEW s, Whole(s), NEW j \in Jobs, j[1] \notin Acting, NEW t, NEW b, NEW fit \in Fits
  PROVE  Spares(s, Requeue(s, j, t, b, fit))
  <1>1. PICK r : r = Requeue(s, j, t, b, fit)
    OBVIOUS
  <1>2. PICK c : c = transition(b, "READY", "")
    OBVIOUS
  <1>3. PICK u : u = Put(s, t, c)
    OBVIOUS
  <1>4. PICK v : v = prepareTaskForQueue(u, j, t, fit)
    OBVIOUS
  <1>5. r = Persist(v, t)
    BY <1>1, <1>2, <1>3, <1>4 DEF Requeue
  <1>6. Spares(s, u) /\ Whole(u)
    BY <1>3, SparesWrites DEF Spares
  <1>7. Spares(u, v) /\ Whole(v)
    BY <1>4, <1>6, SparesPrepares DEF Spares
  <1>8. Spares(v, r)
    BY <1>5, <1>7, SparesWrites
  <1> QED BY <1>1, <1>6, <1>7, <1>8, SparesThen

LEMMA SparesCancelsTimer ==
  ASSUME NEW s, Whole(s), NEW t
  PROVE  Spares(s, CancelTimer(s, t))
  <1>1. DOMAIN CancelTimer(s, t) = Fields /\ CancelTimer(s, t).jobs = s.jobs
    BY DEF CancelTimer, Whole, Fields
  <1> QED BY <1>1, SparesSame

LEMMA SparesDelivers ==
  ASSUME NEW s, Whole(s), NEW j \in Jobs, j[1] \notin Acting, NEW p, NEW fit \in Fits,
         s.mem[p].st \in {"READY", "RUNNING", "BLOCKED", "TERMINATED"}
  PROVE  Spares(s, deliverAsyncWorkUpdate(s, j, p, fit))
  <1>1. PICK r : r = deliverAsyncWorkUpdate(s, j, p, fit)
    OBVIOUS
  <1>2. PICK u, w : u = [s EXCEPT !.wake = @ \ {p}] /\ w = [s EXCEPT !.wake = @ \cup {p}]
    OBVIOUS
  <1>3. PICK v : v = CancelTimer(u, p)
    OBVIOUS
  <1>4. PICK b : b = claimAsyncWorkUpdate(s.mem[p])
    OBVIOUS
  <1>5. PICK q : q = Requeue(v, j, p, b, fit)
    OBVIOUS
  <1>6. r \in {u, w, v, q}
    <2>1. CASE s.mem[p].st = "TERMINATED"
      BY <1>1, <1>2, <2>1 DEF deliverAsyncWorkUpdate
    <2>2. CASE s.mem[p].st = "RUNNING" \/ (s.mem[p].st = "BLOCKED" /\ s.mem[p].why # "work")
      BY <1>1, <1>2, <2>2 DEF deliverAsyncWorkUpdate
    <2>3. CASE s.mem[p].st = "READY" \/ (s.mem[p].st = "BLOCKED" /\ s.mem[p].why = "work")
      BY <1>1, <1>2, <1>3, <1>4, <1>5, <2>3 DEF deliverAsyncWorkUpdate
    <2> QED BY <2>1, <2>2, <2>3
  <1>7. Spares(s, u) /\ Whole(u) /\ Spares(s, w)
    <2>1. DOMAIN u = Fields /\ u.jobs = s.jobs /\ DOMAIN w = Fields /\ w.jobs = s.jobs
      BY <1>2 DEF Whole, Fields
    <2> QED BY <2>1, SparesSame DEF Spares
  <1>8. Spares(u, v) /\ Whole(v)
    BY <1>3, <1>7, SparesCancelsTimer DEF Spares
  <1>9. Spares(v, q)
    BY <1>5, <1>8, SparesRequeues
  <1>10. Spares(s, v) /\ Spares(s, q)
    BY <1>7, <1>8, <1>9, SparesThen
  <1> QED BY <1>1, <1>6, <1>7, <1>10

\* What a step of the process leaves is trimmed of the frames that only mark a place.
LEMMA BootsKept ==
  ASSUME IInv, Boots, NEW r, Spares(S, r), Do(r), phase' = phase
  PROVE  Boots'
  <1>1. DOMAIN <<>> = {}
    OBVIOUS
  <1>2. Trim(<<>>) = <<>>
    BY <1>1 DEF Trim
  <1>3. SUFFICES ASSUME phase = "boot", NEW j \in Jobs, j[1] \in Acting PROVE jobs'[j] = <<>>
    BY DEF Boots, Acting
  <1>4. jobs[j] = <<>>
    BY <1>3 DEF Boots, Acting
  <1>5. r.jobs[j] = <<>>
    BY <1>3, <1>4, SFacts DEF Spares
  <1>6. jobs'[j] = Trim(r.jobs[j])
    BY DEF Do
  <1> QED BY <1>2, <1>5, <1>6

LEMMA WholeS ==
  ASSUME IInv
  PROVE  Whole(S)
  BY SFacts DEF IInv, Inv, Typed, Whole

\* While the process boots, what is under way is a function of another kind.
LEMMA BootTakes ==
  ASSUME IInv, Boots, phase = "boot", NEW j \in Jobs, jobs[j] # <<>>, NEW s, s = Pop(S, j)
  PROVE  /\ j[1] \notin Acting /\ Spares(S, s) /\ Whole(s) /\ s.mem = mem
         /\ FrameKnown(S, jobs[j][1]) /\ FrameFits(jobs[j], 1, j, phase)
  <1>1. j[1] \notin Acting
    BY DEF Boots, Acting
  <1>2. Whole(S)
    BY WholeS
  <1>3. Spares(S, s)
    BY <1>1, <1>2, SparesWrites
  <1>4. s.mem = mem
    <2>1. DOMAIN S = Fields /\ S.mem = mem
      BY SFacts
    <2>2. PICK u : u = S
      OBVIOUS
    <2>3. DOMAIN u = Fields /\ s = Pop(u, j)
      BY <2>1, <2>2
    <2>4. Is(s, u.mem, u.disk, u.queue, u.packing, u.timers, u.wake, u.pool, [u.jobs EXCEPT ![j] = Tail(@)])
      BY <2>3, Shapes
    <2>5. s.mem = u.mem
      BY <2>4 DEF Is
    <2> QED BY <2>1, <2>2, <2>5
  <1>5. PICK f : f = jobs[j][1]
    OBVIOUS
  <1>6. Inv(S, phase, {}) /\ S.jobs[j] = jobs[j]
    BY Running
  <1>7. jobs[j] \in Seq(ToSet(jobs[j])) /\ FrameFits(jobs[j], 1, j, phase)
    <2>1. StackOK(S.jobs[j], j, phase)
      BY <1>6 DEF Inv, Stacks
    <2>2. IsStack(jobs[j]) /\ \A i \in DOMAIN jobs[j] : FrameFits(jobs[j], i, j, phase)
      BY <1>6, <2>1 DEF StackOK
    <2>3. 1 \in 1 .. Len(jobs[j]) /\ DOMAIN jobs[j] = 1 .. Len(jobs[j])
      BY <2>2, StackFacts
    <2> QED BY <2>2, <2>3 DEF IsStack
  <1>8. FrameKnown(S, jobs[j][1])
    <2>1. jobs[j][1] \in ToSet(jobs[j])
      BY <1>7, StackFacts DEF IsStack
    <2>2. jobs[j][1] \in Held(S, j)
      BY <1>6, <2>1 DEF Held
    <2> QED BY <1>6, <2>2 DEF Inv, FramesKnown
  <1> QED BY <1>1, <1>3, <1>4, <1>7, <1>8 DEF Spares

\* A block of a task is in one of the states of the machine.
LEMMA KnownState ==
  ASSUME IInv, NEW p, Known(S, p)
  PROVE  p \in Tasks /\ mem[p] # NoTask /\ mem[p].st \in {"READY", "RUNNING", "BLOCKED", "TERMINATED"}
  <1>1. p \in Tasks /\ mem[p] # NoTask
    BY SFacts DEF Known
  <1>2. Block(mem[p])
    BY <1>1, SFacts DEF IInv, Inv, Typed
  <1> QED BY <1>1, <1>2 DEF Block

\* CancelChildren goes on with the boot.
LEMMA CancelChildrenBoots ==
  ASSUME IInv, Boots, phase = "boot", NEW j \in Jobs, CancelChildren(j)
  PROVE  Boots'
  <1>1. PICK s : s = Pop(S, j)
    OBVIOUS
  <1>2. jobs[j] # <<>> /\ phase' = phase
    BY DEF CancelChildren, At, Stay
  <1>3. j[1] \notin Acting /\ Spares(S, s) /\ Whole(s)
    BY <1>1, <1>2, BootTakes
  <1>4. CASE Do(s)
    BY <1>2, <1>3, <1>4, BootsKept
  <1>5. CASE ~Do(s)
    <2>1. \E k, p, kind : Do(terminateTask(Push(s, j, p), j, k, kind))
      BY <1>1, <1>5 DEF CancelChildren
    <2>2. PICK k, p, kind : Do(terminateTask(Push(s, j, p), j, k, kind))
      BY <2>1
    <2>3. PICK u : u = Push(s, j, p)
      OBVIOUS
    <2>4. PICK r : r = terminateTask(u, j, k, kind)
      OBVIOUS
    <2>5. Spares(s, u) /\ Whole(u)
      BY <1>3, <2>3, SparesWrites DEF Spares
    <2>6. Spares(u, r)
      BY <1>3, <2>4, <2>5, SparesTerminates
    <2>7. Spares(S, r)
      BY <1>3, <2>5, <2>6, SparesThen
    <2>8. Do(r)
      BY <2>2, <2>3, <2>4
    <2> QED BY <1>2, <2>7, <2>8, BootsKept
  <1> QED BY <1>4, <1>5

\* What a step of a function leaves when it writes one block and goes on with p.
LEMMA SparesPushes ==
  ASSUME NEW s, Whole(s), NEW j \in Jobs, j[1] \notin Acting, NEW t, NEW b, NEW p
  PROVE  Spares(s, Push(Put(s, t, b), j, p)) /\ Spares(s, Push(Persist(Put(s, t, b), t), j, p))
  <1>1. PICK u, v : u = Put(s, t, b) /\ v = Persist(u, t)
    OBVIOUS
  <1>2. PICK x, y : x = Push(u, j, p) /\ y = Push(v, j, p)
    OBVIOUS
  <1>3. Spares(s, u) /\ Whole(u)
    BY <1>1, SparesWrites DEF Spares
  <1>4. Spares(u, v) /\ Whole(v)
    BY <1>1, <1>3, SparesWrites DEF Spares
  <1>5. Spares(u, x) /\ Spares(v, y)
    BY <1>2, <1>3, <1>4, SparesWrites
  <1>6. Spares(s, x) /\ Spares(s, y)
    BY <1>3, <1>4, <1>5, SparesThen
  <1> QED BY <1>1, <1>2, <1>6

LEMMA NotifyParentBoots ==
  ASSUME IInv, Boots, phase = "boot", NEW j \in Jobs, NotifyParent(j)
  PROVE  Boots'
  <1>1. PICK s : s = Pop(S, j)
    OBVIOUS
  <1>2. jobs[j] # <<>> /\ phase' = phase
    BY DEF NotifyParent, At, Stay
  <1>3. j[1] \notin Acting /\ Spares(S, s) /\ Whole(s)
    BY <1>1, <1>2, BootTakes
  <1>4. Do(s) \/ \E p, b, q : Do(Push(Put(s, p, b), j, q))
    BY <1>1 DEF NotifyParent
  <1>5. CASE Do(s)
    BY <1>2, <1>3, <1>5, BootsKept
  <1>6. CASE \E p, b, q : Do(Push(Put(s, p, b), j, q))
    <2>1. PICK p, b, q : Do(Push(Put(s, p, b), j, q))
      BY <1>6
    <2>2. PICK r : r = Push(Put(s, p, b), j, q)
      OBVIOUS
    <2>3. Spares(s, r)
      BY <1>3, <2>2, SparesPushes
    <2>4. Spares(S, r) /\ Do(r)
      BY <1>3, <2>1, <2>2, <2>3, SparesThen
    <2> QED BY <1>2, <2>4, BootsKept
  <1> QED BY <1>4, <1>5, <1>6

LEMMA AsyncWorkProgressBoots ==
  ASSUME IInv, Boots, phase = "boot", NEW j \in Jobs, AsyncWorkProgress(j)
  PROVE  Boots'
  <1>1. PICK s : s = Pop(S, j)
    OBVIOUS
  <1>2. jobs[j] # <<>> /\ phase' = phase
    BY DEF AsyncWorkProgress, At, Stay
  <1>3. j[1] \notin Acting /\ Spares(S, s) /\ Whole(s)
    BY <1>1, <1>2, BootTakes
  <1>4. PICK p : p = jobs[j][1].t
    OBVIOUS
  <1>5. PICK u, w : u = [s EXCEPT !.wake = @ \cup {p}] /\ w = [s EXCEPT !.timers = @ \cup {p}, !.mem[p].due = TRUE]
    OBVIOUS
  <1>6. PICK v : v = CancelTimer(u, p)
    OBVIOUS
  <1>7. PICK x, y, z : x = Persist(v, p) /\ y = Persist(s, p) /\ z = Persist(w, p)
    OBVIOUS
  <1>8. PICK o : o = Push(x, j, <<Then("deliver", p), Then("unlock", p)>>)
    OBVIOUS
  <1>9. Do(s) \/ Do(y) \/ Do(z) \/ Do(o)
    <2>1. \/ Do(s) \/ Do(Persist(s, p))
          \/ Do(Push(Persist(CancelTimer([s EXCEPT !.wake = @ \cup {p}], p), p), j,
                         <<Then("deliver", p), Then("unlock", p)>>))
          \/ Do(Persist([s EXCEPT !.timers = @ \cup {p}, !.mem[p].due = TRUE], p))
      BY <1>1, <1>4 DEF AsyncWorkProgress
    <2> QED BY <1>5, <1>6, <1>7, <1>8, <2>1
  <1>10. Spares(s, u) /\ Whole(u) /\ Spares(s, w) /\ Whole(w)
    <2>1. DOMAIN u = Fields /\ u.jobs = s.jobs /\ DOMAIN w = Fields /\ w.jobs = s.jobs
      BY <1>3, <1>5 DEF Whole, Fields
    <2> QED BY <1>3, <2>1, SparesSame DEF Spares
  <1>11. Spares(u, v) /\ Whole(v)
    BY <1>6, <1>10, SparesCancelsTimer DEF Spares
  <1>12. Spares(v, x) /\ Whole(x) /\ Spares(s, y) /\ Spares(w, z)
    BY <1>3, <1>7, <1>10, <1>11, SparesWrites DEF Spares
  <1>13. Spares(x, o)
    BY <1>3, <1>8, <1>12, SparesWrites
  <1>14. Spares(S, s) /\ Spares(S, y) /\ Spares(S, z) /\ Spares(S, o)
    <2>1. Spares(s, z) /\ Spares(s, v)
      BY <1>10, <1>11, <1>12, SparesThen
    <2>2. Spares(s, o)
      BY <1>12, <1>13, <2>1, SparesThen
    <2> QED BY <1>3, <1>12, <2>1, <2>2, SparesThen
  <1> QED BY <1>2, <1>9, <1>14, BootsKept

LEMMA DeliverWhenIdleBoots ==
  ASSUME IInv, Boots, phase = "boot", NEW j \in Jobs, NEW fit \in Fits, DeliverWhenIdle(j, fit)
  PROVE  Boots'
  <1>1. PICK s : s = Pop(S, j)
    OBVIOUS
  <1>2. jobs[j] # <<>> /\ phase' = phase /\ jobs[j][1].op = "deliver"
    BY DEF DeliverWhenIdle, At, Stay
  <1>3. j[1] \notin Acting /\ Spares(S, s) /\ Whole(s) /\ s.mem = mem /\ FrameKnown(S, jobs[j][1])
    BY <1>1, <1>2, BootTakes
  <1>4. PICK p : p = jobs[j][1].t
    OBVIOUS
  <1>5. Known(S, p)
    BY <1>2, <1>3, <1>4 DEF FrameKnown, Nameless, Sends
  <1>6. s.mem[p].st \in {"READY", "RUNNING", "BLOCKED", "TERMINATED"}
    BY <1>3, <1>5, KnownState
  <1>7. PICK r : r = deliverAsyncWorkUpdate(s, j, p, fit)
    OBVIOUS
  <1>8. Do(s) \/ Do(r)
    BY <1>1, <1>4, <1>7 DEF DeliverWhenIdle
  <1>9. Spares(s, r)
    BY <1>3, <1>6, <1>7, SparesDelivers
  <1>10. Spares(S, r)
    BY <1>3, <1>9, SparesThen
  <1> QED BY <1>2, <1>3, <1>8, <1>10, BootsKept

LEMMA TimerFiresBoots ==
  ASSUME IInv, Boots, phase = "boot", NEW t \in Tasks, NEW fit \in Fits, TimerFires(t, fit)
  PROVE  Boots'
  <1>1. PICK j : j = <<"timer", t>>
    OBVIOUS
  <1>2. j \in Jobs /\ j[1] \notin Acting
    BY <1>1, JobFacts DEF Acting
  <1>3. PICK u : u = CancelTimer(S, t)
    OBVIOUS
  <1>4. PICK s : s = [u EXCEPT !.wake = @ \cup {t}]
    OBVIOUS
  <1>5. PICK w, z : w = Push(s, j, <<Then("unlock", t)>>) /\ z = Persist(s, t)
    OBVIOUS
  <1>6. PICK r : r = deliverAsyncWorkUpdate(w, j, t, fit)
    OBVIOUS
  <1>7. t \in timers /\ (Do(z) \/ Do(r)) /\ phase' = phase
    BY <1>1, <1>3, <1>4, <1>5, <1>6 DEF TimerFires, Stay
  <1>8. Whole(S)
    BY WholeS
  <1>9. Spares(S, u) /\ Whole(u)
    BY <1>3, <1>8, SparesCancelsTimer DEF Spares
  <1>10. Spares(u, s) /\ Whole(s)
    <2>1. DOMAIN s = Fields /\ s.jobs = u.jobs
      BY <1>4, <1>9 DEF Whole, Fields
    <2> QED BY <1>9, <2>1, SparesSame DEF Spares
  <1>11. Spares(s, w) /\ Whole(w) /\ Spares(s, z)
    BY <1>2, <1>5, <1>10, SparesWrites DEF Spares
  <1>12. w.mem[t].st \in {"READY", "RUNNING", "BLOCKED", "TERMINATED"}
    <2>1. Known(S, t)
      BY <1>7, SFacts DEF IInv, Inv, ListsKnown
    <2>2. mem[t].st \in {"READY", "RUNNING", "BLOCKED", "TERMINATED"} /\ DOMAIN mem[t] = BlockFields /\ DOMAIN mem = Tasks
      <3>1. mem[t].st \in {"READY", "RUNNING", "BLOCKED", "TERMINATED"} /\ mem[t] # NoTask
        BY <2>1, KnownState
      <3> QED BY <3>1, SFacts DEF IInv, Inv, Typed, Block
    <2>3. u.mem[t].st = mem[t].st
      BY <1>3, <2>2, SFacts DEF CancelTimer, Fields, BlockFields
    <2>4. s.mem = u.mem
      BY <1>4, <1>9 DEF Whole, Fields
    <2>5. w.mem = s.mem
      <3>1. DOMAIN s = Fields
        BY <1>10 DEF Whole
      <3>2. Is(w, s.mem, s.disk, s.queue, s.packing, s.timers, s.wake, s.pool,
                         [s.jobs EXCEPT ![j] = <<Then("unlock", t)>> \o @])
        BY <1>5, <3>1, Shapes
      <3> QED BY <3>2 DEF Is
    <2> QED BY <2>2, <2>3, <2>4, <2>5
  <1>13. Spares(w, r)
    BY <1>2, <1>6, <1>11, <1>12, SparesDelivers
  <1>14. Spares(S, s) /\ Spares(s, r)
    BY <1>9, <1>10, <1>11, <1>13, SparesThen
  <1>15. Spares(S, z) /\ Spares(S, r)
    BY <1>11, <1>14, SparesThen
  <1> QED BY <1>7, <1>15, BootsKept

LEMMA LaunchCallsBoots ==
  ASSUME IInv, Boots, phase = "boot", NEW j \in Jobs, LaunchCalls(j)
  PROVE  Boots'
  <1>1. PICK s : s = Pop(S, j)
    OBVIOUS
  <1>2. jobs[j] # <<>> /\ phase' = phase
    BY DEF LaunchCalls, At, Stay
  <1>3. j[1] \notin Acting /\ Spares(S, s) /\ Whole(s)
    BY <1>1, <1>2, BootTakes
  <1>4. PICK t, q : t = jobs[j][1].t /\ q = jobs[j][1].x
    OBVIOUS
  <1>5. PICK r : r = Launch(s, t, q)
    OBVIOUS
  <1>6. Do(r)
    BY <1>1, <1>4, <1>5 DEF LaunchCalls
  <1>7. DOMAIN r = Fields /\ DOMAIN r.jobs = Jobs
    BY <1>3, <1>5 DEF Launch, Whole, Fields
  <1>8. \A i \in Jobs : i[1] \in Acting => r.jobs[i] = s.jobs[i]
    <2>1. SUFFICES ASSUME NEW i \in Jobs, i[1] \in Acting PROVE r.jobs[i] = s.jobs[i]
      OBVIOUS
    <2>2. ~\E k \in DOMAIN q : i = <<"call", q[k]>>
      BY <2>1 DEF Acting
    <2> QED BY <1>3, <1>5, <2>2 DEF Launch, Whole, Fields
  <1>9. Spares(s, r)
    BY <1>3, <1>7, <1>8 DEF Spares, Whole
  <1>10. Spares(S, r)
    BY <1>3, <1>9, SparesThen
  <1> QED BY <1>2, <1>6, <1>10, BootsKept

LEMMA StartCallBoots ==
  ASSUME IInv, Boots, phase = "boot", NEW c \in Calls, StartCall(c)
  PROVE  Boots'
  <1>1. PICK j : j = <<"call", c>>
    OBVIOUS
  <1>2. PICK s : s = Pop(S, j)
    OBVIOUS
  <1>3. j \in Jobs /\ jobs[j] # <<>> /\ phase' = phase
    BY <1>1, JobFacts DEF StartCall, At, Stay
  <1>4. j[1] \notin Acting /\ Spares(S, s) /\ Whole(s)
    BY <1>2, <1>3, BootTakes
  <1>5. PICK u : u = [s EXCEPT !.ran = @ \cup {c}]
    OBVIOUS
  <1>6. Spares(s, u) /\ Whole(u)
    <2>1. DOMAIN u = Fields /\ u.jobs = s.jobs
      BY <1>4, <1>5 DEF Whole, Fields
    <2> QED BY <1>4, <2>1, SparesSame DEF Spares
  <1>7. \/ Do(s)
        \/ \E t, b, p : Do(Push(Put(s, t, b), j, p))
        \/ \E t, b, p : Do(Push(Persist(Put(u, t, b), t), j, p))
    BY <1>1, <1>2, <1>5 DEF StartCall
  <1>8. CASE Do(s)
    BY <1>3, <1>4, <1>8, BootsKept
  <1>9. CASE \E t, b, p : Do(Push(Put(s, t, b), j, p))
    <2>1. PICK t, b, p : Do(Push(Put(s, t, b), j, p))
      BY <1>9
    <2>2. PICK r : r = Push(Put(s, t, b), j, p)
      OBVIOUS
    <2>3. Spares(s, r)
      BY <1>3, <1>4, <2>2, SparesPushes
    <2>4. Spares(S, r) /\ Do(r)
      BY <1>4, <2>1, <2>2, <2>3, SparesThen
    <2> QED BY <1>3, <2>4, BootsKept
  <1>10. CASE \E t, b, p : Do(Push(Persist(Put(u, t, b), t), j, p))
    <2>1. PICK t, b, p : Do(Push(Persist(Put(u, t, b), t), j, p))
      BY <1>10
    <2>2. PICK r : r = Push(Persist(Put(u, t, b), t), j, p)
      OBVIOUS
    <2>3. Spares(u, r)
      BY <1>3, <1>4, <1>6, <2>2, SparesPushes
    <2>4. Spares(S, u)
      BY <1>4, <1>6, SparesThen
    <2>5. Spares(S, r) /\ Do(r)
      BY <2>1, <2>2, <2>3, <2>4, SparesThen
    <2> QED BY <1>3, <2>5, BootsKept
  <1> QED BY <1>7, <1>8, <1>9, <1>10

LEMMA EndCallBoots ==
  ASSUME IInv, Boots, phase = "boot", NEW c \in Calls, EndCall(c)
  PROVE  Boots'
  <1>1. PICK j : j = <<"call", c>>
    OBVIOUS
  <1>2. PICK s : s = Pop(S, j)
    OBVIOUS
  <1>3. j \in Jobs /\ jobs[j] # <<>> /\ phase' = phase
    BY <1>1, JobFacts DEF EndCall, At, Stay
  <1>4. j[1] \notin Acting /\ Spares(S, s) /\ Whole(s)
    BY <1>2, <1>3, BootTakes
  <1>5. Do(s) \/ \E t, b, p : Do(Push(Put(s, t, b), j, p))
    BY <1>1, <1>2 DEF EndCall
  <1>6. CASE Do(s)
    BY <1>3, <1>4, <1>6, BootsKept
  <1>7. CASE \E t, b, p : Do(Push(Put(s, t, b), j, p))
    <2>1. PICK t, b, p : Do(Push(Put(s, t, b), j, p))
      BY <1>7
    <2>2. PICK r : r = Push(Put(s, t, b), j, p)
      OBVIOUS
    <2>3. Spares(s, r)
      BY <1>3, <1>4, <2>2, SparesPushes
    <2>4. Spares(S, r) /\ Do(r)
      BY <1>4, <2>1, <2>2, <2>3, SparesThen
    <2> QED BY <1>3, <2>4, BootsKept
  <1> QED BY <1>5, <1>6, <1>7

\* The frames of the boot itself.
LEMMA RestoreOrphanBoots ==
  ASSUME IInv, Boots, phase = "boot", RestoreOrphan
  PROVE  Boots'
  <1>1. PICK j : j = <<"host">>
    OBVIOUS
  <1>2. PICK s : s = Pop(S, j)
    OBVIOUS
  <1>3. j \in Jobs /\ jobs[j] # <<>> /\ phase' = phase
    BY <1>1, JobFacts DEF RestoreOrphan, Booting, Boot, At, Stay
  <1>4. j[1] \notin Acting /\ Spares(S, s) /\ Whole(s)
    BY <1>2, <1>3, BootTakes
  <1>5. PICK t, kind : t = jobs[j][1].t /\ kind = "cancelled"
    OBVIOUS
  <1>6. PICK r : r = terminateTask(s, j, t, kind)
    OBVIOUS
  <1>7. Do(s) \/ Do(r)
    BY <1>1, <1>2, <1>5, <1>6 DEF RestoreOrphan, Boot
  <1>8. Spares(s, r)
    BY <1>3, <1>4, <1>6, SparesTerminates
  <1>9. Spares(S, r)
    BY <1>4, <1>8, SparesThen
  <1> QED BY <1>3, <1>4, <1>7, <1>9, BootsKept

LEMMA ReconcileBoots ==
  ASSUME IInv, Boots, phase = "boot", Reconcile
  PROVE  Boots'
  <1>1. PICK j : j = <<"host">>
    OBVIOUS
  <1>2. PICK s : s = Pop(S, j)
    OBVIOUS
  <1>3. j \in Jobs /\ jobs[j] # <<>> /\ phase' = phase
    BY <1>1, JobFacts DEF Reconcile, Booting, Boot, At, Stay
  <1>4. j[1] \notin Acting /\ Spares(S, s) /\ Whole(s)
    BY <1>2, <1>3, BootTakes
  <1>5. \E m : Do([s EXCEPT !.mem = m])
    BY <1>1, <1>2 DEF Reconcile, Boot
  <1>6. PICK m : Do([s EXCEPT !.mem = m])
    BY <1>5
  <1>7. PICK r : r = [s EXCEPT !.mem = m]
    OBVIOUS
  <1>8. DOMAIN r = Fields /\ r.jobs = s.jobs
    BY <1>4, <1>7 DEF Whole, Fields
  <1>9. Spares(s, r)
    BY <1>4, <1>8, SparesSame
  <1>10. Spares(S, r) /\ Do(r)
    BY <1>4, <1>6, <1>7, <1>9, SparesThen
  <1> QED BY <1>3, <1>10, BootsKept

LEMMA RestoreRunningBoots ==
  ASSUME IInv, Boots, phase = "boot", RestoreRunning
  PROVE  Boots'
  <1>1. PICK j : j = <<"host">>
    OBVIOUS
  <1>2. PICK s : s = Pop(S, j)
    OBVIOUS
  <1>3. j \in Jobs /\ jobs[j] # <<>> /\ phase' = phase
    BY <1>1, JobFacts DEF RestoreRunning, Booting, Boot, At, Stay
  <1>4. j[1] \notin Acting /\ Spares(S, s) /\ Whole(s)
    BY <1>2, <1>3, BootTakes
  <1>5. PICK t, b : t = jobs[j][1].t /\ b = transition(mem[t], "READY", "")
    OBVIOUS
  <1>6. PICK u, r : u = Put(s, t, b) /\ r = Persist(u, t)
    OBVIOUS
  <1>7. Do(s) \/ Do(r)
    BY <1>1, <1>2, <1>5, <1>6 DEF RestoreRunning, Boot
  <1>8. Spares(s, u) /\ Whole(u)
    BY <1>3, <1>4, <1>6, SparesWrites DEF Spares
  <1>9. Spares(u, r)
    BY <1>3, <1>4, <1>6, <1>8, SparesWrites
  <1>10. Spares(S, u)
    BY <1>4, <1>8, SparesThen
  <1>11. Spares(S, r)
    BY <1>9, <1>10, SparesThen
  <1> QED BY <1>3, <1>4, <1>7, <1>11, BootsKept

LEMMA RestoreToolsBoots ==
  ASSUME IInv, Boots, phase = "boot", RestoreTools
  PROVE  Boots'
  <1>1. PICK j : j = <<"host">>
    OBVIOUS
  <1>2. PICK s : s = Pop(S, j)
    OBVIOUS
  <1>3. j \in Jobs /\ jobs[j] # <<>> /\ phase' = phase
    BY <1>1, JobFacts DEF RestoreTools, Booting, Boot, At, Stay
  <1>4. j[1] \notin Acting /\ Spares(S, s) /\ Whole(s)
    BY <1>2, <1>3, BootTakes
  <1>5. (\E p : Do(Push(s, j, p))) \/ \E t, b, p : Do(Push(Put(s, t, b), j, p))
    BY <1>1, <1>2 DEF RestoreTools, Boot
  <1>6. CASE \E p : Do(Push(s, j, p))
    <2>1. PICK p : Do(Push(s, j, p))
      BY <1>6
    <2>2. PICK r : r = Push(s, j, p)
      OBVIOUS
    <2>3. Spares(s, r)
      BY <1>3, <1>4, <2>2, SparesWrites
    <2>4. Spares(S, r) /\ Do(r)
      BY <1>4, <2>1, <2>2, <2>3, SparesThen
    <2> QED BY <1>3, <2>4, BootsKept
  <1>7. CASE \E t, b, p : Do(Push(Put(s, t, b), j, p))
    <2>1. PICK t, b, p : Do(Push(Put(s, t, b), j, p))
      BY <1>7
    <2>2. PICK r : r = Push(Put(s, t, b), j, p)
      OBVIOUS
    <2>3. Spares(s, r)
      BY <1>3, <1>4, <2>2, SparesPushes
    <2>4. Spares(S, r) /\ Do(r)
      BY <1>4, <2>1, <2>2, <2>3, SparesThen
    <2> QED BY <1>3, <2>4, BootsKept
  <1> QED BY <1>5, <1>6, <1>7

LEMMA ResumeBoots ==
  ASSUME IInv, Boots, phase = "boot", NEW fit \in Fits, Resume(fit)
  PROVE  Boots'
  <1>1. PICK j : j = <<"host">>
    OBVIOUS
  <1>2. PICK s : s = Pop(S, j)
    OBVIOUS
  <1>3. j \in Jobs /\ jobs[j] # <<>> /\ jobs[j][1].op = "resume" /\ phase' = phase
    BY <1>1, JobFacts, ZenonT(30) DEF Resume, Booting, Boot, At, Stay
  <1>4. j[1] \notin Acting /\ Spares(S, s) /\ Whole(s) /\ s.mem = mem /\ FrameKnown(S, jobs[j][1])
    BY <1>2, <1>3, BootTakes
  <1>5. PICK t : t = jobs[j][1].t
    OBVIOUS
  <1>6. mem[t].st \in {"READY", "RUNNING", "BLOCKED", "TERMINATED"}
    <2>1. Known(S, t)
      BY <1>3, <1>4, <1>5 DEF FrameKnown, Nameless, Sends
    <2> QED BY <2>1, KnownState
  <1>7. PICK v, w : v = [s EXCEPT !.timers = @ \cup {t}] /\ w = [s EXCEPT !.wake = @ \cup {t}]
    BY ZenonT(30)
  <1>8. PICK z : z = deliverAsyncWorkUpdate(w, j, t, fit)
    OBVIOUS
  <1>9. \E u \in {s, v, w, z} : Do(u) \/ Do(prepareTaskForQueue(u, j, t, fit))
    <2>1. \E u : u \in {s, v, w, z} /\ (Do(u) \/ Do(prepareTaskForQueue(u, j, t, fit)))
      BY <1>1, <1>2, <1>5, <1>7, <1>8, ZenonT(30) DEF Resume, Boot
    <2> QED BY <2>1
  <1>10. Spares(s, v) /\ Spares(s, w) /\ Whole(w) /\ w.mem = s.mem
    <2>1. DOMAIN v = Fields /\ v.jobs = s.jobs /\ DOMAIN w = Fields /\ w.jobs = s.jobs /\ w.mem = s.mem
      BY <1>4, <1>7 DEF Whole, Fields
    <2> QED BY <1>4, <2>1, SparesSame DEF Spares
  <1>11. Spares(w, z)
    <2>1. w.mem[t].st \in {"READY", "RUNNING", "BLOCKED", "TERMINATED"}
      BY <1>4, <1>6, <1>10
    <2> QED BY <1>3, <1>4, <1>8, <1>10, <2>1, SparesDelivers
  <1>12. Spares(s, s) /\ Spares(s, z)
    BY <1>4, <1>10, <1>11, SparesSelf, SparesThen
  <1>13. PICK u \in {s, v, w, z} : Do(u) \/ Do(prepareTaskForQueue(u, j, t, fit))
    BY <1>9
  <1>14. Spares(s, u) /\ Whole(u)
    BY <1>10, <1>12, <1>13 DEF Spares
  <1>15. PICK r : r = prepareTaskForQueue(u, j, t, fit)
    OBVIOUS
  <1>16. Spares(u, r)
    BY <1>3, <1>4, <1>14, <1>15, SparesPrepares
  <1>17. Spares(S, u)
    BY <1>4, <1>14, SparesThen
  <1>18. Spares(S, r)
    BY <1>16, <1>17, SparesThen
  <1>19. Do(u) \/ Do(r)
    BY <1>13, <1>15
  <1> QED BY <1>3, <1>17, <1>18, <1>19, BootsKept

\* Only the crash, the start of restoreMany and its end change what the process is in.
LEMMA PhaseMoves ==
  ASSUME Next
  PROVE  phase' = phase \/ Crash \/ Restore \/ Booted
  <1>1. ASSUME NEW j \in Jobs, JobStep(j) PROVE phase' = phase
    <2>1. CASE CancelChildren(j) \/ NotifyParent(j) \/ AsyncWorkProgress(j) \/ SendChild(j) \/ LaunchCalls(j)
      BY <2>1 DEF CancelChildren, NotifyParent, AsyncWorkProgress, SendChild, LaunchCalls, Stay
    <2>2. ASSUME NEW fit \in Fits,
                 \/ DeliverWhenIdle(j, fit) \/ Settle(j, fit) \/ SendChildFails(j, fit) \/ EnqueueChild(j, fit)
                 \/ PublishHop(j, fit) \/ AdvanceHop(j, fit) \/ ContinueParent(j, fit)
          PROVE  phase' = phase
      BY <2>2 DEF DeliverWhenIdle, Settle, SendChildFails, EnqueueChild, PublishHop, AdvanceHop, ContinueParent, Stay
    <2> QED BY <1>1, <2>1, <2>2 DEF JobStep
  <1>2. ASSUME NEW c \in Calls, CallStep(c) PROVE phase' = phase
    BY <1>2 DEF CallStep, StartCall, EndCall, Stay
  <1>3. ASSUME NEW t \in Tasks, AnswerStep(t) PROVE phase' = phase
    <2>1. CASE LateAnswer(t)
      BY <2>1 DEF LateAnswer, Stay
    <2>2. ASSUME NEW fit \in Fits, RequestFails(t, fit) \/ AnswerRefused(t, fit) \/ EndCompaction(t, fit)
          PROVE  phase' = phase
      BY <2>2, ZenonT(30) DEF RequestFails, AnswerRefused, EndCompaction, Stay
    <2>3. ASSUME NEW a, NEW fit \in Fits,
                 \/ AnswerFinal(t, a, fit) \/ AnswerWork(t, a, fit) \/ AnswerWait(t, a, fit)
                 \/ AnswerGraph(t, a, fit) \/ AnswerAsk(t, a, fit) \/ AnswerDecide(t, a, fit)
          PROVE  phase' = phase
      BY <2>3, ZenonT(30) DEF AnswerFinal, AnswerWork, AnswerWait, AnswerGraph, AnswerAsk, AnswerDecide, Stay
    <2> QED BY <1>3, <2>1, <2>2, <2>3 DEF AnswerStep
  <1>4. ASSUME NEW t \in Tasks, NEW fit \in Fits, TimerFires(t, fit) PROVE phase' = phase
    BY <1>4 DEF TimerFires, Stay
  <1>5. ASSUME LoopStep PROVE phase' = phase
    <2>1. ASSUME NEW t \in Tasks, OutOfTries(t) \/ Admit(t) \/ AdmissionRefused(t) \/ StartCompaction(t)
          PROVE  phase' = phase
      BY <2>1 DEF OutOfTries, Admit, AdmissionRefused, StartCompaction, Stay
    <2>2. ASSUME NEW t \in Tasks, NEW fit \in Fits, AdvanceGraph(t, fit) PROVE phase' = phase
      BY <2>2 DEF AdvanceGraph, Stay
    <2>3. ASSUME NEW fit \in Fits, DispatchNodes(fit) \/ FailNodes(fit) PROVE phase' = phase
      BY <2>3, ZenonT(30) DEF DispatchNodes, FailNodes, Stay
    <2> QED BY <1>5, <2>1, <2>2, <2>3 DEF LoopStep
  <1>6. ASSUME BootStep PROVE phase' = phase \/ Restore \/ Booted
    <2>1. CASE RestoreOrphan \/ Reconcile \/ RestoreRunning \/ RestoreTools
      BY <2>1, ZenonT(30) DEF RestoreOrphan, Reconcile, RestoreRunning, RestoreTools, Stay
    <2>2. ASSUME NEW fit \in Fits, Resume(fit) PROVE phase' = phase
      BY <2>2 DEF Resume, Stay
    <2> QED BY <1>6, <2>1, <2>2 DEF BootStep
  <1>7. ASSUME Human \/ Host PROVE phase' = phase
    BY <1>7 DEF Human, Host, HumanDecides, Submit, WakeTask, Cancel, Stay
  <1> QED BY <1>1, <1>2, <1>3, <1>4, <1>5, <1>6, <1>7 DEF Next, Process

\* Restore finds nothing under way and starts the host's call only.
LEMMA RestoreBoots ==
  ASSUME IInv, Restore
  PROVE  Boots'
  <1>1. PICK j : j = <<"host">>
    OBVIOUS
  <1>2. PICK m, po, q : Do([S EXCEPT !.mem = m, !.pool = po, !.jobs[<<"host">>] = q])
    BY DEF Restore
  <1>3. PICK r : r = [S EXCEPT !.mem = m, !.pool = po, !.jobs[<<"host">>] = q]
    OBVIOUS
  <1>4. jobs = Idle
    BY DEF Restore, IInv, Down
  <1>5. r.jobs = [jobs EXCEPT ![j] = q]
    BY <1>1, <1>3, SFacts DEF Fields
  <1>6. \A i \in Jobs : i # j => r.jobs[i] = <<>>
    BY <1>4, <1>5 DEF Idle
  <1>7. \A i \in Jobs : i[1] \in Acting => i # j
    BY <1>1 DEF Acting
  <1>8. DOMAIN <<>> = {}
    OBVIOUS
  <1>9. Trim(<<>>) = <<>>
    BY <1>8 DEF Trim
  <1>10. \A i \in Jobs : jobs'[i] = Trim(r.jobs[i])
    BY <1>2, <1>3 DEF Do
  <1> QED BY <1>6, <1>7, <1>9, <1>10 DEF Boots, Acting

\* The other steps take a request, a turn or the loop, or need the process to be up.
LEMMA RestsElsewhere ==
  ASSUME IInv, Boots, phase = "boot"
  PROVE  /\ \A j \in Jobs : \A op : At(j, op) => j[1] \notin Acting
         /\ \A j \in Jobs, op \in {"send", "enqueue", "settle", "publish", "advance", "continue",
                                    "dispatch", "failnodes"} : ~At(j, op)
         /\ \A t \in Tasks : \A op : ~At(ModelJob(t), op)
         /\ \A op : ~At(<<"loop">>, op)
         /\ ~LoopFree /\ ~Quiet
  <1>1. \A j \in Jobs : \A op : At(j, op) => j[1] \notin Acting
    BY DEF Boots, Acting, At
  <1>2. \A j \in Jobs, op \in {"send", "enqueue", "settle", "publish", "advance", "continue",
                                    "dispatch", "failnodes"} : ~At(j, op)
    <2>1. SUFFICES ASSUME NEW j \in Jobs, NEW op \in {"send", "enqueue", "settle", "publish", "advance", "continue",
                                    "dispatch", "failnodes"}, At(j, op)
                   PROVE  FALSE
      OBVIOUS
    <2>2. jobs[j] # <<>> /\ jobs[j][1].op = op
      BY <2>1 DEF At
    <2>3. PICK s : s = Pop(S, j)
      OBVIOUS
    <2>4. j[1] \notin Acting /\ FrameFits(jobs[j], 1, j, phase)
      BY <2>2, <2>3, BootTakes
    <2>5. j[1] \in {"turn", "loop"}
      <3>1. jobs[j][1].op \in {"send", "enqueue", "settle"} \/ jobs[j][1].op \in {"publish", "advance", "continue"}
            \/ jobs[j][1].op \in {"dispatch", "failnodes", "try"}
        BY <2>1, <2>2
      <3>2. <<"loop">>[1] = "loop"
        OBVIOUS
      <3> QED BY <2>4, <3>1, <3>2, Kinds
    <2> QED BY <2>4, <2>5 DEF Acting
  <1>3. \A t \in Tasks : \A op : ~At(ModelJob(t), op)
    BY <1>1, JobFacts, ZenonT(30) DEF Acting
  <1>4. \A op : ~At(<<"loop">>, op)
    BY <1>1, JobFacts DEF Acting
  <1>5. ~LoopFree /\ ~Quiet
    BY DEF LoopFree, Quiet
  <1> QED BY <1>1, <1>2, <1>3, <1>4, <1>5

\* What the process does while it boots leaves requests, turns and the loop at rest.
LEMMA JobStepBoots ==
  ASSUME IInv, Boots, phase = "boot", NEW j \in Jobs, JobStep(j)
  PROVE  Boots'
  <1>1. ~SendChild(j) /\ \A fit \in Fits : /\ ~Settle(j, fit) /\ ~SendChildFails(j, fit) /\ ~EnqueueChild(j, fit)
                                          /\ ~PublishHop(j, fit) /\ ~AdvanceHop(j, fit) /\ ~ContinueParent(j, fit)
    BY RestsElsewhere, ZenonT(30) DEF SendChild, Settle, SendChildFails, EnqueueChild, PublishHop, AdvanceHop, ContinueParent
  <1>2. \/ CancelChildren(j) \/ NotifyParent(j) \/ AsyncWorkProgress(j) \/ LaunchCalls(j)
        \/ \E fit \in Fits : DeliverWhenIdle(j, fit)
    BY <1>1 DEF JobStep
  <1> QED BY <1>2, CancelChildrenBoots, NotifyParentBoots, AsyncWorkProgressBoots, LaunchCallsBoots,
             DeliverWhenIdleBoots

LEMMA AnswersRest ==
  ASSUME IInv, Boots, phase = "boot"
  PROVE  (\A t \in Tasks : ~AnswerStep(t)) /\ ~LoopStep /\ ~Human /\ ~Host
  <1>1. \A t \in Tasks : ~AnswerStep(t)
    <2>1. SUFFICES ASSUME NEW t \in Tasks, AnswerStep(t) PROVE FALSE
      OBVIOUS
    <2>2. \A op : ~At(ModelJob(t), op)
      BY RestsElsewhere
    <2>3. \A a : ~Answered(t, a)
      BY <2>2 DEF Answered
    <2>4. ~LateAnswer(t) /\ \A fit : ~RequestFails(t, fit) /\ ~AnswerRefused(t, fit) /\ ~EndCompaction(t, fit)
      BY <2>2 DEF LateAnswer, RequestFails, AnswerRefused, EndCompaction
    <2>5. \A a, fit : /\ ~AnswerFinal(t, a, fit) /\ ~AnswerWork(t, a, fit) /\ ~AnswerWait(t, a, fit)
                      /\ ~AnswerGraph(t, a, fit) /\ ~AnswerAsk(t, a, fit) /\ ~AnswerDecide(t, a, fit)
      BY <2>3, ZenonT(30) DEF AnswerFinal, AnswerWork, AnswerWait, AnswerGraph, AnswerAsk, AnswerDecide
    <2> QED BY <2>1, <2>4, <2>5 DEF AnswerStep
  <1>2. ~LoopStep
    <2>1. (\A op : ~At(<<"loop">>, op)) /\ ~LoopFree
      BY RestsElsewhere
    <2>2. \A t : ~OutOfTries(t) /\ ~Admit(t) /\ ~AdmissionRefused(t) /\ ~StartCompaction(t)
      BY <2>1 DEF OutOfTries, Admit, AdmissionRefused, StartCompaction
    <2>3. \A t, fit : ~AdvanceGraph(t, fit)
      BY <2>1 DEF AdvanceGraph
    <2>4. \A fit : ~DispatchNodes(fit)
      BY <2>1 DEF DispatchNodes
    <2>5. \A fit : ~FailNodes(fit)
      BY <2>1 DEF FailNodes
    <2> QED BY <2>2, <2>3, <2>4, <2>5 DEF LoopStep
  <1>3. ~Human /\ ~Host
    BY RestsElsewhere DEF Human, Host, HumanDecides, Submit, WakeTask, Cancel
  <1> QED BY <1>1, <1>2, <1>3

\* Boots holds after every step.
LEMMA BootsStep ==
  ASSUME IInv, Boots, Next
  PROVE  Boots'
  <1>1. CASE phase' # "boot"
    BY <1>1 DEF Boots
  <1>2. CASE Restore
    BY <1>2, RestoreBoots
  <1>3. CASE phase' = "boot" /\ ~Restore
    <2>1. ~Crash /\ ~Booted
      BY <1>3 DEF Crash, Booted
    <2>2. phase = "boot"
      BY <1>3, <2>1, PhaseMoves
    <2>3. (\A t \in Tasks : ~AnswerStep(t)) /\ ~LoopStep /\ ~Human /\ ~Host
      BY <2>2, AnswersRest
    <2>4. \/ \E j \in Jobs : JobStep(j)
          \/ \E c \in Calls : CallStep(c)
          \/ \E t \in Tasks, fit \in Fits : TimerFires(t, fit)
          \/ BootStep
      BY <2>1, <2>3 DEF Next, Process
    <2>5. CASE \E j \in Jobs : JobStep(j)
      BY <2>2, <2>5, JobStepBoots
    <2>6. CASE \E c \in Calls : CallStep(c)
      BY <2>2, <2>6, StartCallBoots, EndCallBoots DEF CallStep
    <2>7. CASE \E t \in Tasks, fit \in Fits : TimerFires(t, fit)
      BY <2>2, <2>7, TimerFiresBoots
    <2>8. CASE BootStep
      <3>1. \/ RestoreOrphan \/ Reconcile \/ RestoreRunning \/ RestoreTools
            \/ \E fit \in Fits : Resume(fit)
        BY <1>3, <2>1, <2>8 DEF BootStep
      <3> QED BY <2>2, <3>1, RestoreOrphanBoots, ReconcileBoots, RestoreRunningBoots, RestoreToolsBoots, ResumeBoots
    <2> QED BY <2>4, <2>5, <2>6, <2>7, <2>8
  <1> QED BY <1>1, <1>2, <1>3

----------------------------------------------------------------------------
(* The invariant *)

\* What the functions under way do next.
LEMMA JobStepOnward ==
  ASSUME IInv, NEW j \in Jobs, JobStep(j)
  PROVE  Onward
  <1>1. CASE CancelChildren(j) \/ NotifyParent(j) \/ AsyncWorkProgress(j) \/ SendChild(j) \/ LaunchCalls(j)
    BY <1>1, CancelChildrenStep, NotifyParentStep, AsyncWorkProgressStep, SendChildStep, LaunchCallsStep
  <1>2. ASSUME NEW fit \in Fits,
               \/ DeliverWhenIdle(j, fit) \/ Settle(j, fit) \/ SendChildFails(j, fit) \/ EnqueueChild(j, fit)
               \/ PublishHop(j, fit) \/ AdvanceHop(j, fit) \/ ContinueParent(j, fit)
        PROVE  Onward
    BY <1>2, DeliverWhenIdleStep, SettleStep, SendChildFailsStep, EnqueueChildStep, PublishHopStep,
       AdvanceHopStep, ContinueParentStep
  <1> QED BY <1>1, <1>2 DEF JobStep

\* What an answer, a refused answer or a failed request leads to.
LEMMA AnswerStepOnward ==
  ASSUME IInv, NEW t \in Tasks, AnswerStep(t)
  PROVE  Onward
  <1>1. CASE LateAnswer(t)
    BY <1>1, LateAnswerStep
  <1>2. ASSUME NEW fit \in Fits, RequestFails(t, fit) \/ AnswerRefused(t, fit) \/ EndCompaction(t, fit)
        PROVE  Onward
    BY <1>2, RequestFailsStep, AnswerRefusedStep, EndCompactionStep
  <1>3. ASSUME NEW a \in Answers[t], NEW fit \in Fits,
               \/ AnswerFinal(t, a, fit) \/ AnswerWork(t, a, fit) \/ AnswerWait(t, a, fit)
               \/ AnswerGraph(t, a, fit) \/ AnswerAsk(t, a, fit) \/ AnswerDecide(t, a, fit)
        PROVE  Onward
    BY <1>3, AnswerFinalStep, AnswerWorkStep, AnswerWaitStep, AnswerGraphStep, AnswerAskStep, AnswerDecideStep
  <1> QED BY <1>1, <1>2, <1>3 DEF AnswerStep

\* What the scheduling loop does.
LEMMA LoopStepOnward ==
  ASSUME IInv, LoopStep
  PROVE  Onward
  <1>1. ASSUME NEW t \in Tasks, OutOfTries(t) \/ Admit(t) \/ AdmissionRefused(t) \/ StartCompaction(t)
        PROVE  Onward
    BY <1>1, OutOfTriesStep, AdmitStep, AdmissionRefusedStep, StartCompactionStep
  <1>2. ASSUME NEW t \in Tasks, NEW fit \in Fits, AdvanceGraph(t, fit) PROVE Onward
    BY <1>2, AdvanceGraphStep
  <1>3. ASSUME NEW fit \in Fits, DispatchNodes(fit) \/ FailNodes(fit) PROVE Onward
    BY <1>3, DispatchNodesStep, FailNodesStep
  <1> QED BY <1>1, <1>2, <1>3 DEF LoopStep

\* What restoreMany does.
LEMMA BootStepOnward ==
  ASSUME IInv, Boots, BootStep
  PROVE  Onward
  <1>1. CASE Restore \/ RestoreOrphan \/ Reconcile \/ RestoreRunning \/ RestoreTools \/ Booted
    BY <1>1, RestoreStep, RestoreOrphanStep, ReconcileStep, RestoreRunningStep, RestoreToolsStep, BootedStep
  <1>2. ASSUME NEW fit \in Fits, Resume(fit) PROVE Onward
    BY <1>2, ResumeStep
  <1> QED BY <1>1, <1>2 DEF BootStep

\* What the host and the human do.
LEMMA HostOnward ==
  ASSUME IInv, Host \/ Human
  PROVE  Onward
  <1>1. ASSUME NEW t \in Tasks, NEW fit \in Fits, Submit(t, fit) \/ WakeTask(t, fit) PROVE Onward
    BY <1>1, SubmitStep, WakeTaskStep
  <1>2. ASSUME NEW t \in Tasks, Cancel(t) PROVE Onward
    BY <1>2, CancelStep
  <1>3. ASSUME NEW t \in Tasks, NEW ok \in BOOLEAN, NEW fit \in Fits, HumanDecides(t, ok, fit) PROVE Onward
    BY <1>3, HumanDecidesStep
  <1> QED BY <1>1, <1>2, <1>3 DEF Host, Human

\* Every step but a crash moves the tasks along the transitions of the state machine.
LEMMA NextOnward ==
  ASSUME IInv, Boots, Next, ~Crash
  PROVE  Onward
  <1>1. CASE \E j \in Jobs : JobStep(j)
    BY <1>1, JobStepOnward
  <1>2. CASE \E c \in Calls : CallStep(c)
    BY <1>2, StartCallStep, EndCallStep DEF CallStep
  <1>3. CASE \E t \in Tasks : AnswerStep(t)
    BY <1>3, AnswerStepOnward
  <1>4. CASE \E t \in Tasks, fit \in Fits : TimerFires(t, fit)
    BY <1>4, TimerFiresStep
  <1>5. CASE LoopStep
    BY <1>5, LoopStepOnward
  <1>6. CASE BootStep
    BY <1>6, BootStepOnward
  <1>7. CASE Human \/ Host
    BY <1>7, HostOnward
  <1> QED BY <1>1, <1>2, <1>3, <1>4, <1>5, <1>6, <1>7 DEF Next, Process

\* A step that changes nothing keeps both.
LEMMA NothingChanges ==
  ASSUME IInv, Boots, UNCHANGED vars
  PROVE  IInv' /\ Boots' /\ Legal(S, S')
  <1>1. S' = S /\ phase' = phase
    BY DEF vars, S
  <1>2. IInv'
    BY <1>1 DEF vars, IInv, Down
  <1>3. Boots'
    BY DEF vars, Boots
  <1>4. Legal(S, S')
    BY <1>1 DEF Legal
  <1> QED BY <1>2, <1>3, <1>4

LEMMA InitBoots ==
  Init => Boots
  BY DEF Init, Boots

\* The strengthening on which the properties of the task scheduler rest holds of every
\* state: whatever the interleaving of the functions under way and wherever the process
\* crashes, what each of them has still to do fits what memory and the store hold.
THEOREM IInvHolds == Spec => [](IInv /\ Boots)
  <1>1. Init => IInv /\ Boots
    BY InitInv, InitBoots
  <1>2. IInv /\ Boots /\ [Next]_vars => (IInv /\ Boots)'
    <2>1. SUFFICES ASSUME IInv, Boots, [Next]_vars PROVE IInv' /\ Boots'
      OBVIOUS
    <2>2. CASE UNCHANGED vars
      BY <2>1, <2>2, NothingChanges
    <2>3. CASE Next
      <3>1. Boots'
        BY <2>1, <2>3, BootsStep
      <3>2. CASE Crash
        BY <2>1, <3>1, <3>2, CrashStep
      <3>3. CASE ~Crash
        <4>1. Onward
          BY <2>1, <2>3, <3>3, NextOnward
        <4> QED BY <3>1, <4>1 DEF Onward
      <3> QED BY <3>2, <3>3
    <2> QED BY <2>1, <2>2, <2>3
  <1> QED BY <1>1, <1>2, PTL DEF Spec

----------------------------------------------------------------------------
(* What follows for every behaviour *)

\* A frame that insists on what goes before it, in a process where all wait.
LEMMA NoCancelWaits ==
  ASSUME IInv, AllWait, NEW j \in Jobs, NEW f, f \in Held(S, j)
  PROVE  f.op # "cancel"
  <1>1. SUFFICES ASSUME f.op = "cancel" PROVE FALSE
    OBVIOUS
  <1>2. StackOK(jobs[j], j, phase)
    BY SFacts DEF IInv, Inv, Stacks
  <1>3. IsStack(jobs[j]) /\ f \in ToSet(jobs[j]) /\ jobs[j] # <<>>
    <2>1. IsStack(jobs[j]) /\ f \in ToSet(jobs[j])
      BY <1>2, SFacts DEF StackOK, Held
    <2> QED BY <2>1, StackFacts
  <1>4. PICK i \in 1 .. Len(jobs[j]) : jobs[j][i] = f
    BY <1>3, StackFacts
  <1>5. Len(jobs[j]) \in Nat /\ DOMAIN jobs[j] = 1 .. Len(jobs[j])
    BY <1>3, StackFacts
  <1>6. FrameFits(jobs[j], i, j, phase)
    BY <1>2, <1>4, <1>5 DEF StackOK
  <1>7. \A k \in 1 .. i - 1 : jobs[j][k].op \in Casc
    BY <1>1, <1>4, <1>6 DEF FrameFits
  <1>8. jobs[j][1].op \in Casc
    <2>1. CASE i = 1
      BY <1>1, <1>4, <2>1 DEF Casc
    <2>2. CASE i # 1
      <3>1. 1 \in 1 .. i - 1
        BY <1>4, <1>5, <2>2
      <3> QED BY <1>7, <3>1
    <2> QED BY <2>1, <2>2
  <1>9. jobs[j][1].op \in {"model", "compact", "exec", "start"}
    BY <1>3 DEF AllWait
  <1> QED BY <1>8, <1>9 DEF Casc

LEMMA BootFrames ==
  ASSUME IInv, phase = "up", NEW j \in Jobs, NEW f, f \in Held(S, j)
  PROVE  f.op \notin BootOps
  <1>1. StackOK(jobs[j], j, phase)
    BY SFacts DEF IInv, Inv, Stacks
  <1>2. IsStack(jobs[j]) /\ f \in ToSet(jobs[j])
    BY <1>1, SFacts DEF StackOK, Held
  <1>3. PICK i \in 1 .. Len(jobs[j]) : jobs[j][i] = f
    BY <1>2, StackFacts
  <1>4. FrameFits(jobs[j], i, j, phase)
    BY <1>1, <1>2, <1>3, StackFacts DEF StackOK
  <1> QED BY <1>3, <1>4 DEF FrameFits

LEMMA InvBalances ==
  ASSUME IInv
  PROVE  BooksBalance
  <1>1. SUFFICES ASSUME phase # "down" PROVE
           /\ pool.live = {t \in Tasks : Live(mem[t])}
           /\ queue \cap packing = {}
           /\ \A t \in queue \cup packing : mem[t].st = "READY"
           /\ phase = "up" => \A t \in Tasks :
                mem[t].st = "READY" => t \in queue \cup packing \/ Concerned(t)
    BY DEF BooksBalance
  <1>2. Books(S) /\ Listed(S, {})
    BY DEF IInv, Inv
  <1>3. /\ pool.live = {t \in Tasks : Live(mem[t])}
        /\ queue \cap packing = {}
        /\ \A t \in queue \cup packing : mem[t].st = "READY"
    BY <1>2, SFacts DEF Books
  <1>4. ASSUME phase = "up", NEW t \in Tasks, mem[t].st = "READY"
        PROVE  t \in queue \cup packing \/ Concerned(t)
    <2>1. t \in queue \cup packing \/ Born(S, t) \/ Holds(S, t, <<"host">>, {"resume"})
      BY <1>2, <1>4, SFacts DEF Listed, ListedTask
    <2>2. CASE Born(S, t)
      <3>1. PICK j \in Jobs : Holds(S, t, j, Sends)
        BY <2>2 DEF Born
      <3>2. PICK f \in Held(S, j) : f.op \in Sends /\ f.t = t
        BY <3>1 DEF Holds
      <3>3. IsStack(jobs[j]) /\ f \in ToSet(jobs[j])
        BY <3>2, SFacts DEF IInv, Inv, Stacks, StackOK, Held
      <3>4. PICK i \in 1 .. Len(jobs[j]) : jobs[j][i] = f
        BY <3>3, StackFacts
      <3>5. i \in DOMAIN jobs[j]
        BY <3>3, <3>4, StackFacts
      <3> QED BY <3>2, <3>4, <3>5 DEF Concerned, Sends
    <2>3. CASE Holds(S, t, <<"host">>, {"resume"})
      <3>1. PICK f \in Held(S, <<"host">>) : f.op = "resume"
        BY <2>3 DEF Holds
      <3>2. <<"host">> \in Jobs
        BY JobFacts
      <3>3. f.op \notin BootOps
        BY <1>4, <3>1, <3>2, BootFrames
      <3> QED BY <3>1, <3>3 DEF BootOps
    <2> QED BY <2>1, <2>2, <2>3
  <1> QED BY <1>3, <1>4

LEMMA InvNoOrphans ==
  ASSUME IInv
  PROVE  NoLiveOrphans
  <1>1. SUFFICES ASSUME Quiet, NEW t \in Tasks, Live(mem[t]), Parent[t] # Orphan, ~Live(mem[Parent[t]]) PROVE FALSE
    BY DEF NoLiveOrphans
  <1>2. phase = "up" /\ AllWait
    BY <1>1 DEF Quiet
  <1>3. PICK L : L = {}
    OBVIOUS
  <1>4. Orphans(S, L) /\ Lone(t) \notin L
    BY <1>3 DEF IInv, Inv
  <1>5. \/ \E j \in Jobs : \E f \in Held(S, j) : f.op = "cancel" /\ t \in ToSet(f.x)
        \/ Holds(S, t, <<"host">>, {"orphan"})
    BY <1>1, <1>4, SFacts DEF Orphans
  <1>6. ~\E j \in Jobs : \E f \in Held(S, j) : f.op = "cancel"
    BY <1>2, NoCancelWaits
  <1>7. ~Holds(S, t, <<"host">>, {"orphan"})
    <2>1. <<"host">> \in Jobs
      BY JobFacts
    <2>2. \A f \in Held(S, <<"host">>) : f.op \notin BootOps
      BY <1>2, <2>1, BootFrames
    <2> QED BY <2>2 DEF Holds, BootOps
  <1> QED BY <1>5, <1>6, <1>7

\* The slots of the agent pool, the ready queue and the compaction list describe the
\* tasks of the control blocks at every moment (task-scheduler.ts: prepareTaskForQueue,
\* terminateTask, release of the slot): no READY task is lost by the scheduler.
THEOREM BooksBalanceHolds == Spec => []BooksBalance
  <1>1. IInv /\ Boots => BooksBalance
    BY InvBalances
  <1> QED BY <1>1, IInvHolds, PTL

\* A terminated task leaves no live descendant: the cascade of terminateTask reaches all
\* of them before the process rests, and restoreMany cancels what a crash left.
THEOREM NoLiveOrphansHolds == Spec => []NoLiveOrphans
  <1>1. IInv /\ Boots => NoLiveOrphans
    BY InvNoOrphans
  <1> QED BY <1>1, IInvHolds, PTL

\* No handler asks for a transition that assertTaskTransition (state-machine.ts) refuses.
THEOREM TransitionsLegalHolds == Spec => TransitionsLegal
  <1>1. IInv /\ Boots /\ [Next]_vars =>
          [phase # "down" /\ phase' # "down" => \A t \in Tasks :
             Registered(t) /\ mem'[t] # NoTask /\ mem[t].st # mem'[t].st
               => <<mem[t].st, mem'[t].st>> \in LEGAL_TRANSITIONS]_vars
    <2>1. SUFFICES ASSUME IInv, Boots, [Next]_vars, phase # "down", phase' # "down", NEW t \in Tasks,
                          Registered(t), mem'[t] # NoTask, mem[t].st # mem'[t].st
                   PROVE  <<mem[t].st, mem'[t].st>> \in LEGAL_TRANSITIONS
      OBVIOUS
    <2>2. ~Crash
      BY <2>1 DEF Crash
    <2>3. Legal(S, S')
      <3>1. CASE UNCHANGED vars
        BY <2>1, <3>1, NothingChanges
      <3>2. CASE Next
        BY <2>1, <2>2, <3>2, NextOnward DEF Onward
      <3> QED BY <2>1, <3>1, <3>2
    <2>4. S.mem = mem /\ S'.mem = mem'
      BY DEF S
    <2> QED BY <2>1, <2>3, <2>4 DEF Legal, Registered
  <1> QED BY <1>1, IInvHolds, PTL DEF Spec, TransitionsLegal

----------------------------------------------------------------------------
(* The local work graphs *)

NodeFields == {"who", "asks", "deps", "st", "kid"}
GraphFields == {"phase", "cur", "nodes"}
Entered == {"running", "blocked", "completed"}
Past  == {"completed", "abandoned"}

NodeTidy(g, a) ==
  /\ DOMAIN g.nodes[a] = NodeFields
  /\ g.nodes[a].st \in Entered => g.nodes[a].deps \subseteq Settled(g)
  /\ g.nodes[a].who = "self" => g.nodes[a].kid = NoChild

CurTidy(g) ==
  /\ g.cur \in DOMAIN g.nodes /\ g.nodes[g.cur].who = "self"
  /\ g.nodes[g.cur].deps \subseteq Settled(g) /\ g.nodes[g.cur].st \notin Past

GraphTidy(g) ==
  /\ DOMAIN g = GraphFields /\ \A a \in DOMAIN g.nodes : NodeTidy(g, a)
  /\ g.cur # NoNode => CurTidy(g)

Delegated(g) == {a \in DOMAIN g.nodes : g.nodes[a].who # "self" /\ g.nodes[a].st = "blocked"}
Mirrors(st, n) == <<st, n>> \in {<<"READY", "ready">>, <<"RUNNING", "running">>, <<"BLOCKED", "blocked">>}

\* A node that waits for a child names one whose result is still to come, and the active
\* self node mirrors the status of the task.
Waiting(g, X) ==
  /\ \A a \in Delegated(g) : g.nodes[a].kid \in Tasks \cap X
  /\ \A a, c \in Delegated(g) : g.nodes[a].kid = g.nodes[c].kid => a = c

Mirrored(b) == b.graph.cur # NoNode /\ Live(b) => Mirrors(b.st, b.graph.nodes[b.graph.cur].st)

Matched(b) == Waiting(b.graph, activeAsyncWorkPendingIds(b)) /\ Mirrored(b)

WorksTidy(b) == \A i \in DOMAIN b.works : DOMAIN b.works[i] = WorkFields

Tidy(b) == b # NoTask =>
  /\ DOMAIN b = BlockFields /\ b.st \in {"READY", "RUNNING", "BLOCKED", "TERMINATED"} /\ WorksTidy(b)
  /\ b.graph = NoGraph \/ (GraphTidy(b.graph) /\ Matched(b))

\* The nodes x of the graph of b may be given to children.
Eligible(b, x) ==
  /\ b # NoTask /\ b.graph # NoGraph /\ b.graph.cur = NoNode
  /\ \A i \in DOMAIN x : /\ x[i] \in DOMAIN b.graph.nodes /\ b.graph.nodes[x[i]].who # "self"
                         /\ b.graph.nodes[x[i]].st \in {"pending", "ready"}
                         /\ b.graph.nodes[x[i]].deps \subseteq Settled(b.graph)

Heeds(b, c) == \A x : Eligible(b, x) => Eligible(c, x)

----------------------------------------------------------------------------
(* Graphs that change *)

NodeGoes(g, h, a) ==
  /\ DOMAIN h.nodes[a] = NodeFields
  /\ h.nodes[a].deps = g.nodes[a].deps /\ h.nodes[a].who = g.nodes[a].who
  /\ h.nodes[a].who = "self" => h.nodes[a].kid = g.nodes[a].kid
  /\ g.nodes[a].st \in Past => h.nodes[a].st \in Past
  /\ h.nodes[a].st \in Entered => g.nodes[a].st \in Entered \/ g.nodes[a].deps \subseteq Settled(g)

\* h may come after g: what is done stays done, and nothing is begun too early.
Onto(g, h) ==
  /\ DOMAIN h = GraphFields /\ DOMAIN h.nodes = DOMAIN g.nodes
  /\ \A a \in DOMAIN g.nodes : NodeGoes(g, h, a)
  /\ h.cur # NoNode => /\ h.cur \in DOMAIN g.nodes /\ g.nodes[h.cur].who = "self"
                       /\ g.nodes[h.cur].deps \subseteq Settled(g) /\ h.nodes[h.cur].st \notin Past

LEMMA OntoTidy ==
  ASSUME NEW g, NEW h, GraphTidy(g), Onto(g, h)
  PROVE  GraphTidy(h) /\ Settled(g) \subseteq Settled(h)
  <1>1. DOMAIN h.nodes = DOMAIN g.nodes /\ \A a \in DOMAIN g.nodes : NodeGoes(g, h, a)
    BY DEF Onto
  <1>2. Settled(g) \subseteq Settled(h)
    BY <1>1 DEF Settled, NodeGoes, Past
  <1>3. ASSUME NEW a \in DOMAIN h.nodes PROVE NodeTidy(h, a)
    <2>1. NodeGoes(g, h, a) /\ NodeTidy(g, a)
      BY <1>1, <1>3 DEF GraphTidy
    <2> QED BY <1>2, <2>1 DEF NodeGoes, NodeTidy
  <1>4. ASSUME h.cur # NoNode PROVE CurTidy(h)
    <2>1. h.cur \in DOMAIN g.nodes /\ g.nodes[h.cur].who = "self"
          /\ g.nodes[h.cur].deps \subseteq Settled(g) /\ h.nodes[h.cur].st \notin Past
      BY <1>4 DEF Onto
    <2>2. NodeGoes(g, h, h.cur)
      BY <1>1, <2>1
    <2> QED BY <1>1, <1>2, <2>1, <2>2 DEF CurTidy, NodeGoes
  <1>5. DOMAIN h = GraphFields
    BY DEF Onto
  <1> QED BY <1>2, <1>3, <1>4, <1>5 DEF GraphTidy

LEMMA OntoSelf ==
  ASSUME NEW g, GraphTidy(g)
  PROVE  Onto(g, g)
  BY DEF GraphTidy, NodeTidy, CurTidy, Onto, NodeGoes

\* A self node whose dependencies are settled takes another status.
LEMMA Marks1 ==
  ASSUME NEW g, GraphTidy(g), NEW a \in DOMAIN g.nodes, g.nodes[a].who = "self",
         g.nodes[a].deps \subseteq Settled(g), NEW st, g.nodes[a].st \in Past => st \in Past,
         NEW h, h = Mark(g, a, st)
  PROVE  /\ DOMAIN h = GraphFields /\ DOMAIN h.nodes = DOMAIN g.nodes /\ h.cur = g.cur /\ h.phase = g.phase
         /\ \A c \in DOMAIN g.nodes : NodeGoes(g, h, c) /\ (c # a => h.nodes[c] = g.nodes[c])
         /\ h.nodes[a].st = st
         /\ Delegated(h) = Delegated(g) /\ \A c \in Delegated(g) : h.nodes[c].kid = g.nodes[c].kid
  <1>1. DOMAIN g = GraphFields /\ \A c \in DOMAIN g.nodes : NodeTidy(g, c)
    BY DEF GraphTidy
  <1>2. /\ DOMAIN h = GraphFields /\ DOMAIN h.nodes = DOMAIN g.nodes /\ h.cur = g.cur /\ h.phase = g.phase
        /\ h.nodes[a] = [g.nodes[a] EXCEPT !.st = st]
        /\ \A c \in DOMAIN g.nodes : c # a => h.nodes[c] = g.nodes[c]
    BY <1>1 DEF Mark, GraphFields
  <1>3. DOMAIN h.nodes[a] = NodeFields /\ h.nodes[a].st = st /\ h.nodes[a].deps = g.nodes[a].deps
        /\ h.nodes[a].who = g.nodes[a].who /\ h.nodes[a].kid = g.nodes[a].kid
    BY <1>1, <1>2 DEF NodeTidy, NodeFields
  <1>4. NodeGoes(g, h, a)
    BY <1>3 DEF NodeGoes
  <1>5. ASSUME NEW c \in DOMAIN g.nodes, c # a PROVE NodeGoes(g, h, c)
    <2>1. h.nodes[c] = g.nodes[c] /\ NodeTidy(g, c)
      BY <1>1, <1>2, <1>5
    <2> QED BY <2>1 DEF NodeGoes, NodeTidy
  <1>6. Delegated(h) = Delegated(g) /\ \A c \in Delegated(g) : h.nodes[c].kid = g.nodes[c].kid
    <2>1. \A c \in DOMAIN g.nodes : h.nodes[c].who = g.nodes[c].who /\ h.nodes[c].kid = g.nodes[c].kid
      BY <1>2, <1>3
    <2>2. a \notin Delegated(g) /\ a \notin Delegated(h)
      BY <1>3 DEF Delegated
    <2>3. \A c \in DOMAIN g.nodes : c # a => h.nodes[c].st = g.nodes[c].st
      BY <1>2
    <2>4. Delegated(g) \subseteq DOMAIN g.nodes /\ Delegated(h) \subseteq DOMAIN g.nodes
      BY <1>2 DEF Delegated
    <2>5. \A c \in DOMAIN g.nodes : c # a => (c \in Delegated(h) <=> c \in Delegated(g))
      BY <1>2, <2>1, <2>3 DEF Delegated
    <2>6. \A c : c \in Delegated(h) <=> c \in Delegated(g)
      BY <2>2, <2>4, <2>5
    <2> QED BY <2>1, <2>4, <2>6
  <1> QED BY <1>2, <1>3, <1>4, <1>5, <1>6

\* The active self node follows the status of the task.
LEMMA SyncFacts ==
  ASSUME NEW g, GraphTidy(g), NEW st \in {"READY", "RUNNING", "BLOCKED", "TERMINATED"},
         NEW h, h = syncCurrentWorkGraphNode(g, st)
  PROVE  /\ Onto(g, h) /\ h.cur = g.cur /\ (g.cur = NoNode => h = g)
         /\ g.cur # NoNode /\ st # "TERMINATED" => Mirrors(st, h.nodes[h.cur].st)
         /\ Delegated(h) = Delegated(g) /\ \A c \in Delegated(g) : h.nodes[c].kid = g.nodes[c].kid
  <1>1. g # NoGraph
    BY DEF NoGraph, GraphTidy, GraphFields
  <1>2. CASE g.cur = NoNode
    BY <1>2, OntoSelf DEF syncCurrentWorkGraphNode
  <1>3. CASE g.cur # NoNode
    <2>1. CurTidy(g) /\ DOMAIN g = GraphFields
      BY <1>3 DEF GraphTidy
    <2>2. PICK a : a = g.cur
      OBVIOUS
    <2>3. a \in DOMAIN g.nodes /\ g.nodes[a].who = "self" /\ g.nodes[a].deps \subseteq Settled(g) /\ g.nodes[a].st \notin Past
      BY <2>1, <2>2 DEF CurTidy
    <2>4. PICK n : n = CASE st = "READY" -> "ready" [] st = "RUNNING" -> "running" [] st = "BLOCKED" -> "blocked"
                         [] st = "TERMINATED" -> "failed"
      OBVIOUS
    <2>5. n \notin Past /\ (st # "TERMINATED" => Mirrors(st, n))
      BY <2>4 DEF Past, Mirrors
    <2>6. h = Mark(g, a, n)
      BY <1>1, <1>3, <2>2, <2>3, <2>4 DEF syncCurrentWorkGraphNode, Past
    <2>7. /\ DOMAIN h = GraphFields /\ DOMAIN h.nodes = DOMAIN g.nodes /\ h.cur = g.cur
          /\ \A c \in DOMAIN g.nodes : NodeGoes(g, h, c)
          /\ h.nodes[a].st = n
          /\ Delegated(h) = Delegated(g) /\ \A c \in Delegated(g) : h.nodes[c].kid = g.nodes[c].kid
      BY <2>3, <2>6, Marks1
    <2>8. Onto(g, h)
      BY <2>2, <2>3, <2>5, <2>7 DEF Onto
    <2> QED BY <1>3, <2>2, <2>5, <2>7, <2>8
  <1> QED BY <1>2, <1>3

----------------------------------------------------------------------------
(* Control blocks that change *)

LEMMA TidyFacts ==
  ASSUME NEW b, Tidy(b), b # NoTask
  PROVE  /\ DOMAIN b = BlockFields /\ b.st \in {"READY", "RUNNING", "BLOCKED", "TERMINATED"} /\ WorksTidy(b)
         /\ b.graph = NoGraph \/ (GraphTidy(b.graph) /\ Matched(b))
  BY DEF Tidy

\* A block with the fields of one is not the missing one.
LEMMA Present ==
  ASSUME NEW b, DOMAIN b = BlockFields
  PROVE  b # NoTask
  <1>1. "works" \in DOMAIN b
    BY DEF BlockFields
  <1>2. "works" \notin DOMAIN NoTask
    BY DEF NoTask
  <1> QED BY <1>1, <1>2

LEMMA EligibleGraph ==
  ASSUME NEW b, NEW c, c # NoTask, c.graph = b.graph
  PROVE  Heeds(b, c)
  BY DEF Heeds, Eligible

\* Status and graph stay, and no child's work is over.
LEMMA TidySteady ==
  ASSUME NEW b, Tidy(b), b # NoTask, NEW c, DOMAIN c = BlockFields, c.st = b.st, c.graph = b.graph, WorksTidy(c),
         activeAsyncWorkPendingIds(b) \cap Tasks \subseteq activeAsyncWorkPendingIds(c)
  PROVE  Tidy(c) /\ Heeds(b, c) /\ c # NoTask
  <1>1. c # NoTask
    BY Present
  <1>2. Heeds(b, c)
    BY <1>1, EligibleGraph
  <1>3. ASSUME b.graph # NoGraph PROVE GraphTidy(c.graph) /\ Matched(c)
    <2>1. GraphTidy(b.graph) /\ Waiting(b.graph, activeAsyncWorkPendingIds(b)) /\ Mirrored(b)
      BY <1>3, TidyFacts DEF Matched
    <2>2. Waiting(c.graph, activeAsyncWorkPendingIds(c))
      BY <2>1 DEF Waiting
    <2>3. Mirrored(c)
      BY <2>1 DEF Mirrored, Live
    <2> QED BY <2>1, <2>2, <2>3 DEF Matched
  <1> QED BY <1>1, <1>2, <1>3, TidyFacts DEF Tidy

LEMMA TidySame ==
  ASSUME NEW b, Tidy(b), b # NoTask, NEW c, DOMAIN c = BlockFields, c.st = b.st, c.graph = b.graph, c.works = b.works
  PROVE  Tidy(c) /\ Heeds(b, c) /\ c # NoTask
  <1>1. WorksTidy(c)
    BY TidyFacts DEF WorksTidy
  <1>2. activeAsyncWorkPendingIds(b) = activeAsyncWorkPendingIds(c)
    BY DEF activeAsyncWorkPendingIds, Open
  <1> QED BY <1>1, <1>2, TidySteady

LEMMA TidyTransition ==
  ASSUME NEW b, Tidy(b), b # NoTask, NEW st \in {"READY", "RUNNING", "BLOCKED", "TERMINATED"}, NEW why,
         NEW c, c = transition(b, st, why)
  PROVE  Tidy(c) /\ Heeds(b, c) /\ c # NoTask /\ c.st = st
  <1>1. PICK g, h : g = b.graph /\ h = syncCurrentWorkGraphNode(g, st)
    OBVIOUS
  <1>2. DOMAIN c = BlockFields /\ c.st = st /\ c.works = b.works /\ c.graph = h
    BY <1>1, TidyFacts DEF transition, BlockFields
  <1>3. c # NoTask /\ WorksTidy(c)
    BY <1>2, Present, TidyFacts DEF WorksTidy
  <1>4. activeAsyncWorkPendingIds(b) = activeAsyncWorkPendingIds(c)
    BY <1>2 DEF activeAsyncWorkPendingIds, Open
  <1>5. CASE g = NoGraph
    <2>1. h = NoGraph
      BY <1>1, <1>5 DEF syncCurrentWorkGraphNode
    <2> QED BY <1>1, <1>2, <1>3, <1>5, <2>1, EligibleGraph DEF Tidy
  <1>6. CASE g # NoGraph
    <2>1. GraphTidy(g) /\ Waiting(g, activeAsyncWorkPendingIds(b))
      BY <1>1, <1>6, TidyFacts DEF Matched
    <2>2. /\ Onto(g, h) /\ h.cur = g.cur /\ (g.cur = NoNode => h = g)
          /\ g.cur # NoNode /\ st # "TERMINATED" => Mirrors(st, h.nodes[h.cur].st)
          /\ Delegated(h) = Delegated(g) /\ \A x \in Delegated(g) : h.nodes[x].kid = g.nodes[x].kid
      BY <1>1, <2>1, SyncFacts
    <2>3. GraphTidy(h)
      BY <2>1, <2>2, OntoTidy
    <2>4. Waiting(h, activeAsyncWorkPendingIds(c))
      BY <1>4, <2>1, <2>2 DEF Waiting
    <2>5. Mirrored(c)
      BY <1>2, <2>2 DEF Mirrored, Live
    <2>6. Tidy(c)
      BY <1>2, <1>3, <2>3, <2>4, <2>5 DEF Tidy, Matched
    <2>7. Heeds(b, c)
      <3>1. CASE g.cur = NoNode
        BY <1>1, <1>2, <1>3, <2>2, <3>1, EligibleGraph
      <3>2. CASE g.cur # NoNode
        BY <1>1, <3>2 DEF Heeds, Eligible
      <3> QED BY <3>1, <3>2
    <2> QED BY <1>2, <1>3, <2>6, <2>7
  <1> QED BY <1>5, <1>6

\* What is kept besides the status, the graph and the work table is of no matter here.
LEMMA TidyWrites ==
  ASSUME NEW b, Tidy(b), b # NoTask
  PROVE  /\ Tidy(appendContext(b)) /\ Heeds(b, appendContext(b)) /\ appendContext(b) # NoTask
         /\ \A new : Tidy(addCapabilityGrants(b, new)) /\ Heeds(b, addCapabilityGrants(b, new))
         /\ \A at, op : Tidy(consumeCapabilityGrant(b, at, op)) /\ Heeds(b, consumeCapabilityGrant(b, at, op))
         /\ \A reqs, route, path : Tidy(registerCapabilityRequest(b, reqs, route, path))
                                   /\ Heeds(b, registerCapabilityRequest(b, reqs, route, path))
         /\ Tidy(advanceCapabilityDelegation(b)) /\ Heeds(b, advanceCapabilityDelegation(b))
         /\ Tidy(denyPendingCapabilityRequests(b)) /\ Heeds(b, denyPendingCapabilityRequests(b))
         /\ \A v : Tidy([b EXCEPT !.due = v]) /\ Heeds(b, [b EXCEPT !.due = v])
         /\ \A v : Tidy([b EXCEPT !.packed = v]) /\ Heeds(b, [b EXCEPT !.packed = v])
         /\ \A v : Tidy([b EXCEPT !.tries = v]) /\ Heeds(b, [b EXCEPT !.tries = v])
  <1>1. DOMAIN b = BlockFields
    BY TidyFacts
  <1> DEFINE Alike(c) == DOMAIN c = BlockFields /\ c.st = b.st /\ c.graph = b.graph /\ c.works = b.works
  <1>2. \A c : Alike(c) => Tidy(c) /\ Heeds(b, c) /\ c # NoTask
    BY TidySame
  <1>3. Alike(b)
    BY <1>1
  <1>4. Alike(appendContext(b)) /\ Alike(advanceCapabilityDelegation(b))
    BY <1>1 DEF appendContext, advanceCapabilityDelegation, BlockFields
  <1>5. Alike(denyPendingCapabilityRequests(b))
    BY <1>1 DEF denyPendingCapabilityRequests, BlockFields
  <1>6. ASSUME NEW v PROVE /\ Alike([b EXCEPT !.due = v]) /\ Alike([b EXCEPT !.packed = v]) /\ Alike([b EXCEPT !.tries = v])
                           /\ Alike([b EXCEPT !.grants = v]) /\ Alike([b EXCEPT !.ask = v])
    BY <1>1 DEF BlockFields
  <1>7. ASSUME NEW new PROVE Alike(addCapabilityGrants(b, new))
    BY <1>6 DEF addCapabilityGrants
  <1>8. ASSUME NEW at, NEW op PROVE Alike(consumeCapabilityGrant(b, at, op))
    BY <1>6 DEF consumeCapabilityGrant
  <1>9. ASSUME NEW reqs, NEW route, NEW path PROVE Alike(registerCapabilityRequest(b, reqs, route, path))
    BY <1>6 DEF registerCapabilityRequest
  <1> HIDE DEF Alike
  <1> QED BY <1>2, <1>4, <1>5, <1>6, <1>7, <1>8, <1>9

\* More work is registered.
LEMMA TidyRegister ==
  ASSUME NEW b, Tidy(b), b # NoTask, NEW ids, ids \cap DOMAIN b.works = {},
         NEW c, c = registerAsyncWork(b, ids)
  PROVE  /\ Tidy(c) /\ Heeds(b, c) /\ c # NoTask /\ c.st = b.st /\ c.graph = b.graph
         /\ activeAsyncWorkPendingIds(b) \cup ids \subseteq activeAsyncWorkPendingIds(c)
  <1>1. DOMAIN b = BlockFields /\ WorksTidy(b)
    BY TidyFacts
  <1>2. PICK w : w = [st |-> "running", open |-> TRUE, told |-> 0, ref |-> NoRef, seen |-> FALSE]
    OBVIOUS
  <1>3. DOMAIN w = WorkFields /\ w.open = TRUE /\ ~Finished(w)
    BY <1>2 DEF WorkFields, Finished
  <1>4. /\ DOMAIN c = BlockFields /\ c.st = b.st /\ c.graph = b.graph
        /\ DOMAIN c.works = DOMAIN b.works \cup ids
        /\ \A i \in DOMAIN b.works \cup ids : c.works[i] = IF i \in ids THEN w ELSE b.works[i]
    BY <1>1, <1>2 DEF registerAsyncWork, BlockFields
  <1>5. \A i \in ids : c.works[i] = w
    BY <1>4
  <1>6. \A i \in DOMAIN b.works : c.works[i] = b.works[i]
    BY <1>4
  <1>7. WorksTidy(c)
    BY <1>1, <1>3, <1>4, <1>5, <1>6 DEF WorksTidy
  <1>8. activeAsyncWorkPendingIds(b) \subseteq activeAsyncWorkPendingIds(c)
    BY <1>4, <1>6 DEF activeAsyncWorkPendingIds, Open
  <1>9. ids \subseteq activeAsyncWorkPendingIds(c)
    BY <1>3, <1>4, <1>5 DEF activeAsyncWorkPendingIds, Open
  <1>10. Tidy(c) /\ Heeds(b, c) /\ c # NoTask
    BY <1>4, <1>7, <1>8, TidySteady
  <1> QED BY <1>4, <1>8, <1>9, <1>10

\* The work of X ends, and nothing else about the work table changes.
Ending(b, c, X) ==
  /\ DOMAIN c = BlockFields /\ c.st = b.st /\ DOMAIN c.works = DOMAIN b.works
  /\ \A i \in DOMAIN b.works : DOMAIN c.works[i] = WorkFields /\ (i \notin X => c.works[i] = b.works[i])

LEMMA EndingFacts ==
  ASSUME NEW b, NEW c, NEW X, Ending(b, c, X)
  PROVE  WorksTidy(c) /\ activeAsyncWorkPendingIds(b) \ X \subseteq activeAsyncWorkPendingIds(c)
  <1>1. WorksTidy(c)
    BY DEF Ending, WorksTidy
  <1>2. DOMAIN c.works = DOMAIN b.works /\ \A i \in DOMAIN b.works : i \notin X => c.works[i] = b.works[i]
    BY DEF Ending
  <1>3. activeAsyncWorkPendingIds(b) \ X \subseteq activeAsyncWorkPendingIds(c)
    BY <1>2 DEF activeAsyncWorkPendingIds, Open
  <1> QED BY <1>1, <1>3

\* Work items of a set end.
LEMMA EndingWorks ==
  ASSUME NEW b, DOMAIN b = BlockFields, WorksTidy(b), NEW st, NEW c, c = completeAsyncWorks(b, st)
  PROVE  Ending(b, c, DOMAIN st) /\ c.graph = b.graph
  <1>1. \A i \in DOMAIN b.works : DOMAIN Ended(b.works[i], st[i]) = WorkFields
    BY DEF Ended, WorksTidy, WorkFields
  <1>2. /\ DOMAIN c = BlockFields /\ c.st = b.st /\ c.graph = b.graph
        /\ c.works = [i \in DOMAIN b.works |-> IF i \in DOMAIN st THEN Ended(b.works[i], st[i]) ELSE b.works[i]]
    BY DEF completeAsyncWorks, BlockFields
  <1>3. DOMAIN c.works = DOMAIN b.works
    BY <1>2
  <1>4. ASSUME NEW i \in DOMAIN b.works
        PROVE  DOMAIN c.works[i] = WorkFields /\ (i \notin DOMAIN st => c.works[i] = b.works[i])
    BY <1>1, <1>2 DEF WorksTidy
  <1> QED BY <1>2, <1>3, <1>4 DEF Ending

LEMMA EndingWork ==
  ASSUME NEW b, DOMAIN b = BlockFields, WorksTidy(b), NEW i, NEW st, NEW c, c = completeAsyncWork(b, i, st)
  PROVE  Ending(b, c, {i}) /\ c.graph = b.graph
  <1>1. /\ DOMAIN c = BlockFields /\ c.st = b.st /\ c.graph = b.graph
        /\ c.works = [b.works EXCEPT ![i] = Ended(@, st)]
    BY DEF completeAsyncWork, BlockFields
  <1>2. ASSUME NEW k \in DOMAIN b.works
        PROVE  DOMAIN c.works[k] = WorkFields /\ (k \notin {i} => c.works[k] = b.works[k])
    <2>1. CASE k = i
      <3>1. c.works[k] = Ended(b.works[k], st)
        BY <1>1, <2>1
      <3> QED BY <2>1, <3>1 DEF Ended, WorksTidy, WorkFields
    <2>2. CASE k # i
      BY <1>1, <2>2 DEF WorksTidy
    <2> QED BY <2>1, <2>2
  <1>3. DOMAIN c.works = DOMAIN b.works
    BY <1>1
  <1> QED BY <1>1, <1>2, <1>3 DEF Ending

\* A tool call ends, or several do: no node waits for them.
LEMMA TidyCalls ==
  ASSUME NEW b, Tidy(b), b # NoTask, NEW X, X \subseteq Calls, NEW c, Ending(b, c, X), c.graph = b.graph
  PROVE  Tidy(c) /\ Heeds(b, c) /\ c # NoTask
  <1>1. WorksTidy(c) /\ activeAsyncWorkPendingIds(b) \ X \subseteq activeAsyncWorkPendingIds(c)
    BY EndingFacts
  <1>2. activeAsyncWorkPendingIds(b) \cap Tasks \subseteq activeAsyncWorkPendingIds(c)
    BY <1>1, TaskAssumption
  <1>3. DOMAIN c = BlockFields /\ c.st = b.st
    BY DEF Ending
  <1> QED BY <1>1, <1>2, <1>3, TidySteady

\* Children end, and the nodes they were bound to follow them.
Follows(g, h, X) ==
  /\ DOMAIN h = GraphFields /\ DOMAIN h.nodes = DOMAIN g.nodes /\ h.cur = g.cur
  /\ \A a \in DOMAIN g.nodes :
       IF g.nodes[a].st = "blocked" /\ g.nodes[a].kid \in X
       THEN \E n \in {"completed", "failed"} : h.nodes[a] = [g.nodes[a] EXCEPT !.st = n]
       ELSE h.nodes[a] = g.nodes[a]

Following(g, h) == \A a \in DOMAIN g.nodes :
  /\ h.nodes[a].who = g.nodes[a].who /\ h.nodes[a].kid = g.nodes[a].kid
  /\ g.nodes[a].st # "blocked" \/ g.nodes[a].who = "self" => h.nodes[a].st = g.nodes[a].st

LEMMA FollowsFacts ==
  ASSUME NEW g, GraphTidy(g), NEW X, X \subseteq Tasks, NEW h, Follows(g, h, X)
  PROVE  /\ Onto(g, h) /\ Following(g, h)
         /\ Delegated(h) = {a \in Delegated(g) : g.nodes[a].kid \notin X}
  <1>1. /\ DOMAIN h = GraphFields /\ DOMAIN h.nodes = DOMAIN g.nodes /\ h.cur = g.cur
        /\ \A a \in DOMAIN g.nodes : NodeTidy(g, a)
    BY DEF Follows, GraphTidy
  <1>2. ASSUME NEW a \in DOMAIN g.nodes
        PROVE  /\ NodeGoes(g, h, a) /\ h.nodes[a].who = g.nodes[a].who /\ h.nodes[a].kid = g.nodes[a].kid
               /\ g.nodes[a].st # "blocked" \/ g.nodes[a].who = "self" => h.nodes[a].st = g.nodes[a].st
               /\ a \in Delegated(h) <=> a \in Delegated(g) /\ g.nodes[a].kid \notin X
    <2>1. NodeTidy(g, a)
      BY <1>1
    <2>2. CASE g.nodes[a].st = "blocked" /\ g.nodes[a].kid \in X
      <3>1. PICK n \in {"completed", "failed"} : h.nodes[a] = [g.nodes[a] EXCEPT !.st = n]
        BY <2>2 DEF Follows
      <3>2. g.nodes[a].who # "self"
        BY <2>1, <2>2, ChildAssumption DEF NodeTidy
      <3>3. DOMAIN h.nodes[a] = NodeFields /\ h.nodes[a].st = n /\ h.nodes[a].deps = g.nodes[a].deps
            /\ h.nodes[a].who = g.nodes[a].who /\ h.nodes[a].kid = g.nodes[a].kid
        BY <2>1, <3>1 DEF NodeTidy, NodeFields
      <3>4. NodeGoes(g, h, a)
        BY <2>2, <3>2, <3>3 DEF NodeGoes, Past, Entered
      <3> QED BY <2>2, <3>2, <3>3, <3>4 DEF Delegated
    <2>3. CASE ~(g.nodes[a].st = "blocked" /\ g.nodes[a].kid \in X)
      <3>1. h.nodes[a] = g.nodes[a]
        BY <2>3 DEF Follows
      <3>2. NodeGoes(g, h, a)
        BY <2>1, <3>1 DEF NodeGoes, NodeTidy
      <3>3. a \in Delegated(h) <=> a \in Delegated(g)
        BY <1>1, <3>1 DEF Delegated
      <3> QED BY <2>3, <3>1, <3>2, <3>3 DEF Delegated
    <2> QED BY <2>2, <2>3
  <1>3. ASSUME h.cur # NoNode
        PROVE  /\ h.cur \in DOMAIN g.nodes /\ g.nodes[h.cur].who = "self"
               /\ g.nodes[h.cur].deps \subseteq Settled(g) /\ h.nodes[h.cur].st \notin Past
    <2>1. CurTidy(g)
      BY <1>1, <1>3 DEF GraphTidy
    <2> QED BY <1>1, <1>2, <2>1 DEF CurTidy
  <1>4. Onto(g, h)
    BY <1>1, <1>2, <1>3 DEF Onto
  <1>5. Delegated(h) \subseteq DOMAIN g.nodes /\ Delegated(g) \subseteq DOMAIN g.nodes
    BY <1>1 DEF Delegated
  <1>6. Following(g, h)
    BY <1>2 DEF Following
  <1> QED BY <1>2, <1>4, <1>5, <1>6

\* Eligible nodes stay so when what was done stays done and no pending node is touched.
LEMMA EligibleOnto ==
  ASSUME NEW b, NEW c, c # NoTask, b.graph # NoGraph, c.graph # NoGraph,
         GraphTidy(b.graph), Onto(b.graph, c.graph), c.graph.cur = b.graph.cur,
         \A a \in DOMAIN b.graph.nodes :
           b.graph.nodes[a].st \in {"pending", "ready"} => c.graph.nodes[a].st = b.graph.nodes[a].st
  PROVE  Heeds(b, c)
  <1>1. PICK g, h : g = b.graph /\ h = c.graph
    OBVIOUS
  <1>2. DOMAIN h.nodes = DOMAIN g.nodes /\ \A a \in DOMAIN g.nodes : NodeGoes(g, h, a)
    BY <1>1 DEF Onto
  <1>3. Settled(g) \subseteq Settled(h)
    BY <1>1, OntoTidy
  <1>4. SUFFICES ASSUME NEW x, Eligible(b, x) PROVE Eligible(c, x)
    BY DEF Heeds
  <1>5. ASSUME NEW i \in DOMAIN x
        PROVE  /\ x[i] \in DOMAIN h.nodes /\ h.nodes[x[i]].who # "self"
               /\ h.nodes[x[i]].st \in {"pending", "ready"} /\ h.nodes[x[i]].deps \subseteq Settled(h)
    <2>1. PICK a : a = x[i]
      OBVIOUS
    <2>2. a \in DOMAIN g.nodes /\ g.nodes[a].who # "self"
          /\ g.nodes[a].st \in {"pending", "ready"} /\ g.nodes[a].deps \subseteq Settled(g)
      BY <1>1, <1>4, <1>5, <2>1 DEF Eligible
    <2>3. h.nodes[a].st = g.nodes[a].st
      BY <1>1, <2>2
    <2>4. NodeGoes(g, h, a)
      BY <1>2, <2>2
    <2> QED BY <1>2, <1>3, <2>1, <2>2, <2>3, <2>4 DEF NodeGoes
  <1>6. g.cur = NoNode
    BY <1>1, <1>4 DEF Eligible
  <1> QED BY <1>1, <1>5, <1>6 DEF Eligible

LEMMA TidyChildren ==
  ASSUME NEW b, Tidy(b), b # NoTask, NEW X, X \subseteq Tasks, NEW c, Ending(b, c, X),
         IF b.graph = NoGraph THEN c.graph = NoGraph ELSE Follows(b.graph, c.graph, X)
  PROVE  Tidy(c) /\ Heeds(b, c) /\ c # NoTask
  <1>1. WorksTidy(c) /\ activeAsyncWorkPendingIds(b) \ X \subseteq activeAsyncWorkPendingIds(c)
    BY EndingFacts
  <1>2. DOMAIN c = BlockFields /\ c.st = b.st
    BY DEF Ending
  <1>3. c # NoTask
    BY <1>2, Present
  <1>4. b.st \in {"READY", "RUNNING", "BLOCKED", "TERMINATED"}
    BY TidyFacts
  <1>5. CASE b.graph = NoGraph
    BY <1>1, <1>2, <1>3, <1>4, <1>5, EligibleGraph DEF Tidy
  <1>6. CASE b.graph # NoGraph
    <2>1. PICK g, h : g = b.graph /\ h = c.graph
      OBVIOUS
    <2>2. GraphTidy(g) /\ Waiting(g, activeAsyncWorkPendingIds(b)) /\ Mirrored(b)
      BY <1>6, <2>1, TidyFacts DEF Matched
    <2>3. Follows(g, h, X)
      BY <1>6, <2>1
    <2>4. /\ Onto(g, h) /\ Following(g, h)
          /\ Delegated(h) = {a \in Delegated(g) : g.nodes[a].kid \notin X}
      BY <2>2, <2>3, FollowsFacts
    <2>5. h.cur = g.cur /\ DOMAIN h = GraphFields
      BY <2>3 DEF Follows
    <2>6. GraphTidy(h)
      BY <2>2, <2>4, OntoTidy
    <2>7. \A a \in Delegated(h) : a \in Delegated(g) /\ g.nodes[a].kid \notin X /\ a \in DOMAIN g.nodes
                                  /\ h.nodes[a].kid = g.nodes[a].kid
      BY <2>4 DEF Delegated, Following
    <2>8. Waiting(h, activeAsyncWorkPendingIds(c))
      BY <1>1, <2>2, <2>7 DEF Waiting
    <2>9. Mirrored(c)
      <3>1. SUFFICES ASSUME h.cur # NoNode, Live(c) PROVE Mirrors(c.st, h.nodes[h.cur].st)
        BY <2>1 DEF Mirrored
      <3>2. CurTidy(g)
        BY <2>2, <2>5, <3>1 DEF GraphTidy
      <3>3. h.nodes[h.cur].st = g.nodes[g.cur].st
        BY <2>4, <2>5, <3>2 DEF CurTidy, Following
      <3>4. Live(b)
        BY <1>2, <3>1 DEF Live
      <3> QED BY <1>2, <2>1, <2>2, <2>5, <3>1, <3>3, <3>4 DEF Mirrored
    <2>10. h # NoGraph
      BY <2>5 DEF NoGraph, GraphFields
    <2>11. Tidy(c)
      BY <1>1, <1>2, <1>4, <2>1, <2>6, <2>8, <2>9 DEF Tidy, Matched
    <2>12. Heeds(b, c)
      <3>1. \A a \in DOMAIN g.nodes : g.nodes[a].st \in {"pending", "ready"} => h.nodes[a].st = g.nodes[a].st
        BY <2>4 DEF Following
      <3> QED BY <1>3, <1>6, <2>1, <2>2, <2>4, <2>5, <2>10, <3>1, EligibleOnto
    <2> QED BY <1>3, <2>11, <2>12
  <1> QED BY <1>5, <1>6

\* The graph after completeDelegatedWorkGraphNode, and after that for several children.
LEMMA FollowsOne ==
  ASSUME NEW g, GraphTidy(g), NEW kid, NEW kind, NEW h, h = completeDelegatedWorkGraphNode(g, kid, kind)
  PROVE  Follows(g, h, {kid})
  <1>1. g # NoGraph /\ DOMAIN g = GraphFields
    BY DEF NoGraph, GraphTidy, GraphFields
  <1>2. PICK n : n = IF kind = "completed" THEN "completed" ELSE "failed"
    OBVIOUS
  <1>3. /\ DOMAIN h = GraphFields /\ h.cur = g.cur
        /\ h.nodes = [a \in DOMAIN g.nodes |-> IF g.nodes[a].kid = kid /\ g.nodes[a].st = "blocked"
                                               THEN [g.nodes[a] EXCEPT !.st = n] ELSE g.nodes[a]]
    BY <1>1, <1>2 DEF completeDelegatedWorkGraphNode, GraphFields
  <1>4. n \in {"completed", "failed"}
    BY <1>2
  <1> QED BY <1>3, <1>4 DEF Follows

LEMMA FollowsAll ==
  ASSUME NEW g, GraphTidy(g), NEW kind, NEW h, h = completeDelegatedWorkGraphNodes(g, kind)
  PROVE  Follows(g, h, DOMAIN kind)
  <1>1. g # NoGraph /\ DOMAIN g = GraphFields
    BY DEF NoGraph, GraphTidy, GraphFields
  <1>2. PICK n : n = [a \in DOMAIN g.nodes |-> IF kind[g.nodes[a].kid] = "completed" THEN "completed" ELSE "failed"]
    OBVIOUS
  <1>3. /\ DOMAIN h = GraphFields /\ h.cur = g.cur
        /\ h.nodes = [a \in DOMAIN g.nodes |-> IF g.nodes[a].kid \in DOMAIN kind /\ g.nodes[a].st = "blocked"
                                               THEN [g.nodes[a] EXCEPT !.st = n[a]] ELSE g.nodes[a]]
    BY <1>1, <1>2 DEF completeDelegatedWorkGraphNodes, GraphFields
  <1>4. \A a \in DOMAIN g.nodes : n[a] \in {"completed", "failed"}
    BY <1>2
  <1> QED BY <1>3, <1>4 DEF Follows

\* A child ended: its parent is told, and the node it was bound to follows.
LEMMA TidyChild ==
  ASSUME NEW b, Tidy(b), b # NoTask, NEW k \in Tasks, NEW kind, NEW c,
         c = [completeSubagentWork(b, k, kind) EXCEPT !.graph = completeDelegatedWorkGraphNode(@, k, kind)]
  PROVE  Tidy(c) /\ Heeds(b, c) /\ c # NoTask
  <1>1. DOMAIN b = BlockFields /\ WorksTidy(b)
    BY TidyFacts
  <1>2. PICK st, d : st = subagentResult(kind) /\ d = completeAsyncWork(b, k, st)
    OBVIOUS
  <1>3. Ending(b, d, {k}) /\ d.graph = b.graph
    BY <1>1, <1>2, EndingWork
  <1>4. PICK h : h = completeDelegatedWorkGraphNode(b.graph, k, kind)
    OBVIOUS
  <1>5. c = [d EXCEPT !.graph = h]
    BY <1>2, <1>3, <1>4 DEF completeSubagentWork
  <1>6. Ending(b, c, {k}) /\ c.graph = h
    BY <1>3, <1>5 DEF Ending, BlockFields
  <1>7. IF b.graph = NoGraph THEN c.graph = NoGraph ELSE Follows(b.graph, c.graph, {k})
    <2>1. CASE b.graph = NoGraph
      BY <1>4, <1>6, <2>1 DEF completeDelegatedWorkGraphNode
    <2>2. CASE b.graph # NoGraph
      BY <1>4, <1>6, <2>2, TidyFacts, FollowsOne
    <2> QED BY <2>1, <2>2
  <1> QED BY <1>6, <1>7, TidyChildren

\* What a crash kept from the parent is told when the tasks are restored.
LEMMA TidyReconciled ==
  ASSUME NEW b, Tidy(b), b # NoTask, NEW kind, DOMAIN kind \subseteq Tasks, NEW c,
         c = [completeSubagentWorks(b, kind) EXCEPT !.graph = completeDelegatedWorkGraphNodes(@, kind)]
  PROVE  Tidy(c) /\ Heeds(b, c) /\ c # NoTask
  <1>1. DOMAIN b = BlockFields /\ WorksTidy(b)
    BY TidyFacts
  <1>2. PICK st, d : st = [k \in DOMAIN kind |-> subagentResult(kind[k])] /\ d = completeAsyncWorks(b, st)
    OBVIOUS
  <1>3. Ending(b, d, DOMAIN st) /\ d.graph = b.graph
    BY <1>1, <1>2, EndingWorks
  <1>4. PICK h, X : h = completeDelegatedWorkGraphNodes(b.graph, kind) /\ X = DOMAIN kind
    OBVIOUS
  <1>5. c = [d EXCEPT !.graph = h] /\ DOMAIN st = X
    BY <1>2, <1>3, <1>4 DEF completeSubagentWorks
  <1>6. Ending(b, c, X) /\ c.graph = h
    BY <1>3, <1>5 DEF Ending, BlockFields
  <1>7. IF b.graph = NoGraph THEN c.graph = NoGraph ELSE Follows(b.graph, c.graph, X)
    <2>1. CASE b.graph = NoGraph
      BY <1>4, <1>6, <2>1 DEF completeDelegatedWorkGraphNodes
    <2>2. CASE b.graph # NoGraph
      BY <1>4, <1>6, <2>2, TidyFacts, FollowsAll
    <2> QED BY <2>1, <2>2
  <1> QED BY <1>4, <1>6, <1>7, TidyChildren

\* A mark or its removal leaves the work of a child under way.
Noted(b, k, st, ref, seen) == [b EXCEPT !.works[k].st = st, !.works[k].ref = ref, !.works[k].seen = seen]

LEMMA TidyMark ==
  ASSUME NEW b, Tidy(b), b # NoTask, NEW k, k \in activeAsyncWorkPendingIds(b), NEW st \in {"waiting", "running"},
         NEW ref, NEW seen, NEW c, c = Noted(b, k, st, ref, seen)
  PROVE  Tidy(c) /\ Heeds(b, c) /\ c # NoTask
  <1>1. DOMAIN b = BlockFields /\ WorksTidy(b)
    BY TidyFacts
  <1>2. k \in DOMAIN b.works /\ b.works[k].open
    BY DEF activeAsyncWorkPendingIds, Open
  <1>3. DOMAIN b.works[k] = WorkFields
    BY <1>1, <1>2 DEF WorksTidy
  <1>4. PICK w : w = [b.works[k] EXCEPT !.st = st, !.ref = ref, !.seen = seen]
    OBVIOUS
  <1>5. DOMAIN w = WorkFields /\ w.st = st /\ w.open = b.works[k].open
    BY <1>3, <1>4 DEF WorkFields
  <1>6. DOMAIN c = BlockFields /\ c.st = b.st /\ c.graph = b.graph /\ c.works = [b.works EXCEPT ![k] = w]
    BY <1>1, <1>2, <1>3, <1>4 DEF Noted, BlockFields, WorkFields
  <1>7. DOMAIN c.works = DOMAIN b.works /\ c.works[k] = w /\ \A i \in DOMAIN b.works : i # k => c.works[i] = b.works[i]
    BY <1>2, <1>6
  <1>8. WorksTidy(c)
    BY <1>1, <1>5, <1>7 DEF WorksTidy
  <1>9. k \in activeAsyncWorkPendingIds(c)
    BY <1>2, <1>5, <1>7 DEF activeAsyncWorkPendingIds, Open, Finished
  <1>10. activeAsyncWorkPendingIds(b) \subseteq activeAsyncWorkPendingIds(c)
    BY <1>7, <1>9 DEF activeAsyncWorkPendingIds, Open
  <1> QED BY <1>6, <1>8, <1>10, TidySteady

LEMMA TidyMarked ==
  ASSUME NEW b, Tidy(b), b # NoTask, NEW k, Markable(b, k), NEW ref, NEW c, c = markSubagentWaitingForCapability(b, k, ref)
  PROVE  Tidy(c) /\ Heeds(b, c) /\ c # NoTask
  <1>1. k \in activeAsyncWorkPendingIds(b)
    BY DEF Markable, activeAsyncWorkPendingIds, Finished
  <1>2. PICK st, seen : st = "waiting" /\ seen = FALSE
    OBVIOUS
  <1>3. c = Noted(b, k, st, ref, seen)
    BY <1>2 DEF Noted, markSubagentWaitingForCapability
  <1>4. st \in {"waiting", "running"}
    BY <1>2
  <1> QED BY <1>1, <1>3, <1>4, TidyMark

LEMMA TidyCleared ==
  ASSUME NEW b, Tidy(b), b # NoTask, NEW k \in Open(b), Blocking(b.works[k]), NEW c, c = clearSubagentCapabilityBlocker(b, k)
  PROVE  Tidy(c) /\ Heeds(b, c) /\ c # NoTask
  <1>1. k \in activeAsyncWorkPendingIds(b)
    BY DEF Blocking, activeAsyncWorkPendingIds, Finished
  <1>2. PICK st, seen, ref : st = "running" /\ seen = FALSE /\ ref = NoRef
    OBVIOUS
  <1>3. c = Noted(b, k, st, ref, seen)
    BY <1>2 DEF Noted, clearSubagentCapabilityBlocker
  <1>4. st \in {"waiting", "running"}
    BY <1>2
  <1> QED BY <1>1, <1>3, <1>4, TidyMark

\* The work table is rewritten item by item, and no status changes.
Rewritten(b, c) ==
  /\ DOMAIN c = BlockFields /\ c.st = b.st /\ c.graph = b.graph /\ DOMAIN c.works = DOMAIN b.works
  /\ \A i \in DOMAIN b.works : DOMAIN c.works[i] = WorkFields /\ c.works[i].st = b.works[i].st

LEMMA TidyRewritten ==
  ASSUME NEW b, Tidy(b), b # NoTask, NEW c, Rewritten(b, c),
         \A i \in activeAsyncWorkPendingIds(b) : c.works[i].open
  PROVE  Tidy(c) /\ Heeds(b, c) /\ c # NoTask
  <1>1. WorksTidy(c)
    BY DEF Rewritten, WorksTidy
  <1>2. ASSUME NEW i \in activeAsyncWorkPendingIds(b) PROVE i \in activeAsyncWorkPendingIds(c)
    <2>1. i \in DOMAIN b.works /\ ~Finished(b.works[i])
      BY <1>2 DEF activeAsyncWorkPendingIds, Open
    <2>2. i \in DOMAIN c.works /\ c.works[i].st = b.works[i].st /\ c.works[i].open
      BY <1>2, <2>1 DEF Rewritten
    <2> QED BY <2>1, <2>2 DEF activeAsyncWorkPendingIds, Open, Finished
  <1> QED BY <1>1, <1>2, TidySteady DEF Rewritten

LEMMA TidyRequeued ==
  ASSUME NEW b, Tidy(b), b # NoTask, NEW c, c = requeueActiveCapabilityBlockers(b)
  PROVE  Tidy(c) /\ Heeds(b, c) /\ c # NoTask
  <1>1. DOMAIN b = BlockFields /\ WorksTidy(b)
    BY TidyFacts
  <1>2. /\ DOMAIN c = BlockFields /\ c.st = b.st /\ c.graph = b.graph
        /\ c.works = [i \in DOMAIN b.works |-> IF i \in Open(b) /\ b.works[i].st = "waiting"
                                               THEN [b.works[i] EXCEPT !.seen = FALSE] ELSE b.works[i]]
    BY <1>1 DEF requeueActiveCapabilityBlockers, BlockFields
  <1>3. ASSUME NEW i \in DOMAIN b.works
        PROVE  DOMAIN c.works[i] = WorkFields /\ c.works[i].st = b.works[i].st /\ c.works[i].open = b.works[i].open
    <2>1. DOMAIN b.works[i] = WorkFields
      BY <1>1 DEF WorksTidy
    <2>2. c.works[i] = b.works[i] \/ c.works[i] = [b.works[i] EXCEPT !.seen = FALSE]
      BY <1>2
    <2> QED BY <2>1, <2>2 DEF WorkFields
  <1>4. Rewritten(b, c)
    BY <1>2, <1>3 DEF Rewritten
  <1>5. \A i \in activeAsyncWorkPendingIds(b) : c.works[i].open
    BY <1>3 DEF activeAsyncWorkPendingIds, Open
  <1> QED BY <1>4, <1>5, TidyRewritten

LEMMA TidyClaimed ==
  ASSUME NEW b, Tidy(b), b # NoTask, NEW c, c = claimAsyncWorkUpdate(b)
  PROVE  Tidy(c) /\ Heeds(b, c) /\ c # NoTask
  <1>1. DOMAIN b = BlockFields /\ WorksTidy(b)
    BY TidyFacts
  <1>2. PICK all, new : all = isActiveAsyncWorkComplete(b) /\ new = Undelivered(b)
    OBVIOUS
  <1>3. PICK w : w = [i \in DOMAIN b.works |->
          IF i \notin Open(b) THEN b.works[i]
          ELSE [b.works[i] EXCEPT !.told = IF i \in new /\ Finished(b.works[i]) THEN @ + 1 ELSE @,
                                  !.seen = @ \/ (i \in new /\ Blocking(b.works[i])), !.open = ~all]]
    OBVIOUS
  <1>4. DOMAIN c = BlockFields /\ c.st = b.st /\ c.graph = b.graph /\ c.works = w
    BY <1>1, <1>2, <1>3 DEF claimAsyncWorkUpdate, appendContext, BlockFields
  <1>5. ASSUME NEW i \in DOMAIN b.works
        PROVE  /\ DOMAIN w[i] = WorkFields /\ w[i].st = b.works[i].st
               /\ i \in Open(b) => w[i].open = ~all
    <2>1. DOMAIN b.works[i] = WorkFields
      BY <1>1 DEF WorksTidy
    <2>2. CASE i \notin Open(b)
      <3>1. w[i] = b.works[i]
        BY <1>3, <2>2
      <3> QED BY <2>1, <2>2, <3>1
    <2>3. CASE i \in Open(b)
      <3>1. PICK x, y : w[i] = [b.works[i] EXCEPT !.told = x, !.seen = y, !.open = ~all]
        BY <1>3, <2>3
      <3> QED BY <2>1, <3>1 DEF WorkFields
    <2> QED BY <2>2, <2>3
  <1>6. DOMAIN w = DOMAIN b.works
    BY <1>3
  <1>7. Rewritten(b, c)
    BY <1>4, <1>5, <1>6 DEF Rewritten
  <1>8. ASSUME NEW i \in activeAsyncWorkPendingIds(b) PROVE c.works[i].open
    <2>1. i \in Open(b) /\ ~Finished(b.works[i])
      BY <1>8 DEF activeAsyncWorkPendingIds
    <2>2. ~all
      BY <1>2, <2>1 DEF isActiveAsyncWorkComplete
    <2>3. i \in DOMAIN b.works
      BY <2>1 DEF Open
    <2>4. c.works[i].open = ~all
      BY <1>4, <1>5, <2>1, <2>3
    <2> QED BY <2>2, <2>4, <1>2
  <1> QED BY <1>7, <1>8, TidyRewritten

\* A new task has no work and no graph.
LEMMA TidyNew ==
  ASSUME NEW grants
  PROVE  Tidy(createAgent(grants)) /\ createAgent(grants) # NoTask
  <1>1. PICK b : b = createAgent(grants)
    OBVIOUS
  <1>2. DOMAIN b = BlockFields /\ b.st = "READY" /\ b.works = <<>> /\ b.graph = NoGraph
    BY <1>1 DEF createAgent, BlockFields
  <1>3. DOMAIN <<>> = {}
    OBVIOUS
  <1>4. WorksTidy(b)
    BY <1>2, <1>3 DEF WorksTidy
  <1>5. b # NoTask
    BY <1>2, Present
  <1> QED BY <1>1, <1>2, <1>4, <1>5 DEF Tidy

----------------------------------------------------------------------------
(* Graphs that are made and revised *)

\* The graph of a block is replaced.
LEMMA TidyGraph ==
  ASSUME NEW b, Tidy(b), b # NoTask, NEW h, GraphTidy(h), Waiting(h, activeAsyncWorkPendingIds(b)),
         NEW c, c = [b EXCEPT !.graph = h], h.cur # NoNode /\ Live(b) => Mirrors(b.st, h.nodes[h.cur].st)
  PROVE  Tidy(c) /\ c # NoTask /\ c.graph = h /\ c.st = b.st /\ c.works = b.works
  <1>1. DOMAIN b = BlockFields /\ WorksTidy(b) /\ b.st \in {"READY", "RUNNING", "BLOCKED", "TERMINATED"}
    BY TidyFacts
  <1>2. DOMAIN c = BlockFields /\ c.st = b.st /\ c.graph = h /\ c.works = b.works
    BY <1>1 DEF BlockFields
  <1>3. WorksTidy(c) /\ activeAsyncWorkPendingIds(c) = activeAsyncWorkPendingIds(b)
    BY <1>1, <1>2 DEF WorksTidy, activeAsyncWorkPendingIds, Open
  <1>4. c # NoTask
    BY <1>2, Present
  <1>5. Matched(c)
    <2>1. Live(c) <=> Live(b)
      BY <1>2 DEF Live
    <2> QED BY <1>2, <1>3, <2>1 DEF Matched, Mirrored
  <1> QED BY <1>1, <1>2, <1>3, <1>4, <1>5 DEF Tidy

\* A plan is accepted.
LEMMA TidyPlan ==
  ASSUME NEW p, NEW h, h = createAgentWorkGraph(p)
  PROVE  GraphTidy(h) /\ h.cur = NoNode /\ \A X : Waiting(h, X)
  <1>1. /\ DOMAIN h = GraphFields /\ h.cur = NoNode
        /\ h.nodes = [a \in DOMAIN p |-> [who |-> p[a].who, asks |-> p[a].asks, deps |-> p[a].deps,
                                          st |-> "pending", kid |-> NoChild]]
    BY DEF createAgentWorkGraph, GraphFields
  <1>2. ASSUME NEW a \in DOMAIN h.nodes
        PROVE  DOMAIN h.nodes[a] = NodeFields /\ h.nodes[a].st = "pending" /\ h.nodes[a].kid = NoChild
    BY <1>1 DEF NodeFields
  <1>3. \A a \in DOMAIN h.nodes : NodeTidy(h, a)
    BY <1>2 DEF NodeTidy, Entered
  <1>4. Delegated(h) = {}
    BY <1>2 DEF Delegated
  <1> QED BY <1>1, <1>3, <1>4 DEF GraphTidy, Waiting

\* Waiting nodes are those of the graph before.
LEMMA WaitingStays ==
  ASSUME NEW g, NEW h, NEW X, Waiting(g, X), Delegated(h) \subseteq Delegated(g),
         \A a \in Delegated(h) : h.nodes[a].kid = g.nodes[a].kid
  PROVE  Waiting(h, X)
  BY DEF Waiting

\* The active self node is done, or its plan failed.
LEMMA TidyEnded ==
  ASSUME NEW g, GraphTidy(g), g.cur # NoNode, NEW X, Waiting(g, X), NEW h,
         h = completeCurrentWorkGraphNode(g) \/ h = requestCurrentWorkGraphReplan(g)
  PROVE  GraphTidy(h) /\ h.cur = NoNode /\ Waiting(h, X)
  <1>1. CurTidy(g) /\ DOMAIN g = GraphFields
    BY DEF GraphTidy
  <1>2. PICK a : a = g.cur
    OBVIOUS
  <1>3. a \in DOMAIN g.nodes /\ g.nodes[a].who = "self" /\ g.nodes[a].deps \subseteq Settled(g) /\ g.nodes[a].st \notin Past
    BY <1>1, <1>2 DEF CurTidy
  <1>4. PICK n : n = IF h = completeCurrentWorkGraphNode(g) THEN "completed" ELSE "failed"
    OBVIOUS
  <1>5. PICK m : m = Mark(g, a, n)
    OBVIOUS
  <1>6. /\ DOMAIN m = GraphFields /\ DOMAIN m.nodes = DOMAIN g.nodes
        /\ \A c \in DOMAIN g.nodes : NodeGoes(g, m, c)
        /\ Delegated(m) = Delegated(g) /\ \A c \in Delegated(g) : m.nodes[c].kid = g.nodes[c].kid
    BY <1>3, <1>5, Marks1
  <1>7. DOMAIN h = GraphFields /\ h.nodes = m.nodes /\ h.cur = NoNode
    BY <1>2, <1>4, <1>5, <1>6 DEF completeCurrentWorkGraphNode, requestCurrentWorkGraphReplan, GraphFields
  <1>8. \A c \in DOMAIN g.nodes : NodeGoes(g, h, c)
    BY <1>6, <1>7 DEF NodeGoes
  <1>9. Onto(g, h)
    BY <1>6, <1>7, <1>8 DEF Onto
  <1>10. Delegated(h) = Delegated(m)
    BY <1>7 DEF Delegated
  <1> QED BY <1>6, <1>7, <1>9, <1>10, OntoTidy, WaitingStays

\* A ready self node becomes the active one.
LEMMA TidyActivated ==
  ASSUME NEW g, GraphTidy(g), NEW a \in readyAgentWorkNodes(g), g.nodes[a].who = "self",
         NEW X, Waiting(g, X), NEW h, h = activateSelfWorkGraphNode(g, a)
  PROVE  GraphTidy(h) /\ h.cur = a /\ h.nodes[a].st = "ready" /\ Waiting(h, X)
  <1>1. a \in DOMAIN g.nodes /\ g.nodes[a].st \notin Past /\ g.nodes[a].deps \subseteq Settled(g)
    BY DEF readyAgentWorkNodes, Past
  <1>2. PICK n : n = "ready"
    OBVIOUS
  <1>3. PICK m : m = Mark(g, a, n)
    OBVIOUS
  <1>4. /\ DOMAIN m = GraphFields /\ DOMAIN m.nodes = DOMAIN g.nodes
        /\ \A c \in DOMAIN g.nodes : NodeGoes(g, m, c)
        /\ m.nodes[a].st = n
        /\ Delegated(m) = Delegated(g) /\ \A c \in Delegated(g) : m.nodes[c].kid = g.nodes[c].kid
    BY <1>1, <1>3, Marks1
  <1>5. DOMAIN h = GraphFields /\ h.nodes = m.nodes /\ h.cur = a
    BY <1>2, <1>3, <1>4 DEF activateSelfWorkGraphNode, GraphFields
  <1>6. \A c \in DOMAIN g.nodes : NodeGoes(g, h, c)
    BY <1>4, <1>5 DEF NodeGoes
  <1>7. Onto(g, h)
    BY <1>1, <1>2, <1>4, <1>5, <1>6 DEF Onto, Past
  <1>8. Delegated(h) = Delegated(m)
    BY <1>5 DEF Delegated
  <1> QED BY <1>2, <1>4, <1>5, <1>7, <1>8, OntoTidy, WaitingStays

\* The graph goes back to planning.
LEMMA TidyPlanning ==
  ASSUME NEW g, GraphTidy(g), NEW X, Waiting(g, X), NEW h, h = enterWorkGraphPlan(g)
  PROVE  GraphTidy(h) /\ h.cur = g.cur /\ h.nodes = g.nodes /\ Waiting(h, X)
  <1>1. DOMAIN h = GraphFields /\ h.cur = g.cur /\ h.nodes = g.nodes
    BY DEF enterWorkGraphPlan, GraphTidy, GraphFields
  <1>2. Settled(h) = Settled(g) /\ Delegated(h) = Delegated(g)
    BY <1>1 DEF Settled, Delegated
  <1>3. \A a \in DOMAIN h.nodes : NodeTidy(h, a)
    BY <1>1, <1>2 DEF GraphTidy, NodeTidy
  <1>4. h.cur # NoNode => CurTidy(h)
    BY <1>1, <1>2 DEF GraphTidy, CurTidy
  <1> QED BY <1>1, <1>2, <1>3, <1>4, WaitingStays DEF GraphTidy

\* Nodes fail.
LEMMA TidyFailed ==
  ASSUME NEW g, GraphTidy(g), NEW X, Waiting(g, X), NEW as, NEW h, h = failWorkGraphNodes(g, as)
  PROVE  /\ GraphTidy(h) /\ Waiting(h, X)
         /\ h.cur # NoNode => h.cur = g.cur /\ h.nodes[h.cur] = g.nodes[h.cur]
  <1>1. DOMAIN g = GraphFields /\ \A a \in DOMAIN g.nodes : NodeTidy(g, a)
    BY DEF GraphTidy
  <1>2. PICK F : F = {a \in as : g.nodes[a].st \notin {"completed", "abandoned", "failed"}}
    OBVIOUS
  <1>3. /\ DOMAIN h = GraphFields /\ h.cur = IF g.cur \in F THEN NoNode ELSE g.cur
        /\ h.nodes = [a \in DOMAIN g.nodes |-> IF a \in F THEN [g.nodes[a] EXCEPT !.st = "failed"] ELSE g.nodes[a]]
    BY <1>1, <1>2 DEF failWorkGraphNodes, GraphFields
  <1>4. DOMAIN h.nodes = DOMAIN g.nodes
    BY <1>3
  <1>5. ASSUME NEW a \in DOMAIN g.nodes
        PROVE  /\ NodeGoes(g, h, a) /\ (a \notin F => h.nodes[a] = g.nodes[a])
               /\ a \in Delegated(h) => a \in Delegated(g) /\ h.nodes[a].kid = g.nodes[a].kid
    <2>1. NodeTidy(g, a)
      BY <1>1
    <2>2. CASE a \in F
      <3>1. h.nodes[a] = [g.nodes[a] EXCEPT !.st = "failed"]
        BY <1>3, <2>2
      <3>2. g.nodes[a].st \notin Past
        BY <1>2, <2>2 DEF Past
      <3>3. DOMAIN h.nodes[a] = NodeFields /\ h.nodes[a].st = "failed" /\ h.nodes[a].deps = g.nodes[a].deps
            /\ h.nodes[a].who = g.nodes[a].who /\ h.nodes[a].kid = g.nodes[a].kid
        BY <2>1, <3>1 DEF NodeTidy, NodeFields
      <3>4. NodeGoes(g, h, a)
        BY <3>2, <3>3 DEF NodeGoes, Past, Entered
      <3>5. a \notin Delegated(h)
        BY <3>3 DEF Delegated
      <3> QED BY <2>2, <3>4, <3>5
    <2>3. CASE a \notin F
      <3>1. h.nodes[a] = g.nodes[a]
        BY <1>3, <2>3
      <3>2. NodeGoes(g, h, a)
        BY <2>1, <3>1 DEF NodeGoes, NodeTidy
      <3> QED BY <1>4, <3>1, <3>2 DEF Delegated
    <2> QED BY <2>2, <2>3
  <1>6. ASSUME h.cur # NoNode
        PROVE  /\ h.cur \in DOMAIN g.nodes /\ g.nodes[h.cur].who = "self" /\ h.cur = g.cur /\ h.nodes[h.cur] = g.nodes[h.cur]
               /\ g.nodes[h.cur].deps \subseteq Settled(g) /\ h.nodes[h.cur].st \notin Past
    <2>1. h.cur = g.cur /\ h.cur \notin F
      BY <1>3, <1>6
    <2>2. CurTidy(g)
      BY <1>6, <2>1 DEF GraphTidy
    <2>3. h.nodes[h.cur] = g.nodes[h.cur]
      BY <1>5, <2>1, <2>2 DEF CurTidy
    <2> QED BY <2>1, <2>2, <2>3 DEF CurTidy
  <1>7. Onto(g, h)
    BY <1>3, <1>4, <1>5, <1>6 DEF Onto
  <1>8. \A a \in Delegated(h) : a \in Delegated(g) /\ h.nodes[a].kid = g.nodes[a].kid
    BY <1>4, <1>5 DEF Delegated
  <1>9. Waiting(h, X)
    BY <1>8, WaitingStays
  <1> QED BY <1>6, <1>7, <1>9, OntoTidy

\* Ready nodes are given to new children, one each.
Bindable(g, X, nodes, kids, Y) ==
  /\ g.cur = NoNode /\ DOMAIN nodes = DOMAIN kids /\ X \subseteq Y
  /\ \A i \in DOMAIN nodes : /\ nodes[i] \in DOMAIN g.nodes /\ g.nodes[nodes[i]].who # "self"
                             /\ g.nodes[nodes[i]].deps \subseteq Settled(g) /\ g.nodes[nodes[i]].st \notin Past
                             /\ kids[i] \in Tasks \ X
  /\ \A i, k \in DOMAIN kids : kids[i] = kids[k] => i = k
  /\ \A i \in DOMAIN kids : kids[i] \in Y

LEMMA TidyBound ==
  ASSUME NEW g, GraphTidy(g), NEW X, Waiting(g, X), NEW nodes, NEW kids, NEW Y, Bindable(g, X, nodes, kids, Y),
         NEW h, h = bindDelegatedWorkGraphNodes(g, nodes, kids)
  PROVE  GraphTidy(h) /\ Waiting(h, Y) /\ h.cur = NoNode
  <1> SUFFICES ASSUME g.cur = NoNode, DOMAIN nodes = DOMAIN kids,
         \A i \in DOMAIN nodes : /\ nodes[i] \in DOMAIN g.nodes /\ g.nodes[nodes[i]].who # "self"
                                 /\ g.nodes[nodes[i]].deps \subseteq Settled(g) /\ g.nodes[nodes[i]].st \notin Past
                                 /\ kids[i] \in Tasks \ X,
         \A i, k \in DOMAIN kids : kids[i] = kids[k] => i = k,
         X \subseteq Y, \A i \in DOMAIN kids : kids[i] \in Y
               PROVE  GraphTidy(h) /\ Waiting(h, Y) /\ h.cur = NoNode
    BY DEF Bindable
  <1>1. DOMAIN g = GraphFields /\ \A a \in DOMAIN g.nodes : NodeTidy(g, a)
    BY DEF GraphTidy
  <1> DEFINE B(a) == \E i \in DOMAIN nodes : nodes[i] = a
             at(a) == CHOOSE i \in DOMAIN nodes : nodes[i] = a
  <1>2. /\ DOMAIN h = GraphFields /\ h.cur = NoNode
        /\ h.nodes = [a \in DOMAIN g.nodes |-> IF B(a) THEN [g.nodes[a] EXCEPT !.st = "blocked", !.kid = kids[at(a)]]
                                               ELSE g.nodes[a]]
    BY <1>1 DEF bindDelegatedWorkGraphNodes, GraphFields
  <1>3. DOMAIN h.nodes = DOMAIN g.nodes
    BY <1>2
  <1>4. \A a : B(a) => at(a) \in DOMAIN nodes /\ nodes[at(a)] = a
    OBVIOUS
  <1>5. ASSUME NEW a \in DOMAIN g.nodes
        PROVE  /\ NodeGoes(g, h, a) /\ (~B(a) => h.nodes[a] = g.nodes[a])
               /\ B(a) => a \in Delegated(h) /\ h.nodes[a].kid = kids[at(a)]
    <2>1. NodeTidy(g, a)
      BY <1>1
    <2>2. CASE B(a)
      <3>1. PICK i \in DOMAIN nodes : i = at(a) /\ nodes[i] = a
        BY <1>4, <2>2
      <3>2. h.nodes[a] = [g.nodes[a] EXCEPT !.st = "blocked", !.kid = kids[i]]
        BY <1>2, <2>2, <3>1
      <3>3. DOMAIN h.nodes[a] = NodeFields /\ h.nodes[a].st = "blocked" /\ h.nodes[a].deps = g.nodes[a].deps
            /\ h.nodes[a].who = g.nodes[a].who /\ h.nodes[a].kid = kids[i]
        BY <2>1, <3>2 DEF NodeTidy, NodeFields
      <3>4. g.nodes[a].who # "self" /\ g.nodes[a].deps \subseteq Settled(g) /\ g.nodes[a].st \notin Past
        BY <3>1
      <3>5. NodeGoes(g, h, a)
        BY <3>3, <3>4 DEF NodeGoes
      <3>6. a \in Delegated(h)
        BY <1>3, <3>3, <3>4 DEF Delegated
      <3> QED BY <2>2, <3>1, <3>3, <3>5, <3>6
    <2>3. CASE ~B(a)
      <3>1. h.nodes[a] = g.nodes[a]
        BY <1>2, <2>3
      <3>2. NodeGoes(g, h, a)
        BY <2>1, <3>1 DEF NodeGoes, NodeTidy
      <3> QED BY <2>3, <3>1, <3>2
    <2> QED BY <2>2, <2>3
  <1>6. Onto(g, h)
    BY <1>2, <1>3, <1>5 DEF Onto
  <1>7. GraphTidy(h)
    BY <1>6, OntoTidy
  <1>8. ASSUME NEW a \in Delegated(h)
        PROVE  \/ B(a) /\ h.nodes[a].kid = kids[at(a)] /\ at(a) \in DOMAIN kids /\ nodes[at(a)] = a
               \/ ~B(a) /\ a \in Delegated(g) /\ h.nodes[a].kid = g.nodes[a].kid
    <2>1. a \in DOMAIN g.nodes
      BY <1>3 DEF Delegated
    <2>2. CASE B(a)
      BY <1>4, <1>5, <2>1, <2>2
    <2>3. CASE ~B(a)
      <3>1. h.nodes[a] = g.nodes[a]
        BY <1>5, <2>1, <2>3
      <3> QED BY <2>1, <2>3, <3>1 DEF Delegated
    <2> QED BY <2>2, <2>3
  <1>9. \A a \in Delegated(g) : g.nodes[a].kid \in Tasks \cap X
    BY DEF Waiting
  <1>10. \A a, c \in Delegated(g) : g.nodes[a].kid = g.nodes[c].kid => a = c
    BY DEF Waiting
  <1> HIDE DEF B, at
  <1>11. ASSUME NEW a \in Delegated(h) PROVE h.nodes[a].kid \in Tasks \cap Y
    BY <1>8, <1>9
  <1>12. ASSUME NEW a \in Delegated(h), NEW c \in Delegated(h), h.nodes[a].kid = h.nodes[c].kid PROVE a = c
    <2>1. CASE B(a)
      <3>1. h.nodes[a].kid = kids[at(a)] /\ at(a) \in DOMAIN kids /\ nodes[at(a)] = a
        BY <1>8, <2>1
      <3>2. h.nodes[c].kid \notin X
        BY <1>12, <3>1
      <3>3. B(c) /\ h.nodes[c].kid = kids[at(c)] /\ at(c) \in DOMAIN kids /\ nodes[at(c)] = c
        BY <1>8, <1>9, <3>2
      <3> QED BY <1>12, <3>1, <3>3
    <2>2. CASE ~B(a)
      <3>1. a \in Delegated(g) /\ h.nodes[a].kid = g.nodes[a].kid
        BY <1>8, <2>2
      <3>2. h.nodes[c].kid \in X
        BY <1>9, <1>12, <3>1
      <3>3. ~B(c)
        BY <1>8, <3>2
      <3>4. c \in Delegated(g) /\ h.nodes[c].kid = g.nodes[c].kid
        BY <1>8, <3>3
      <3> QED BY <1>10, <1>12, <3>1, <3>4
    <2> QED BY <2>1, <2>2
  <1>13. Waiting(h, Y)
    BY <1>11, <1>12 DEF Waiting
  <1> QED BY <1>2, <1>7, <1>13

----------------------------------------------------------------------------
(* The tasks and the functions under way *)

\* Nodes that are about to be given to children are eligible.
Kept(s, f) == f.op = "dispatch" => f.t \in Tasks /\ DOMAIN f.x = 1 .. Len(f.x) /\ Eligible(s.mem[f.t], f.x)

\* Every graph is in order, in memory and stored.
Fine(s) ==
  /\ DOMAIN s = Fields /\ DOMAIN s.mem = Tasks /\ DOMAIN s.disk = Tasks /\ DOMAIN s.jobs = Jobs
  /\ \A t \in Tasks : Tidy(s.mem[t]) /\ Tidy(s.disk[t])
  /\ \A j \in Jobs : IsStack(s.jobs[j]) /\ \A f \in Held(s, j) : Kept(s, f)

\* Nothing is about to be delegated for t.
Rests(s, t) == \A j \in Jobs : \A f \in Held(s, j) : f.op = "dispatch" => f.t # t

Leads(s, r) == Fine(r) /\ \A t \in Tasks : Rests(s, t) => Rests(r, t)

LEMMA LeadsSelf ==
  ASSUME NEW s, Fine(s) PROVE Leads(s, s)
  BY DEF Leads

LEMMA LeadsOn ==
  ASSUME NEW s, NEW q, NEW r, Leads(s, q), Leads(q, r)
  PROVE  Leads(s, r)
  BY DEF Leads

LEMMA FineParts ==
  ASSUME NEW s, Fine(s)
  PROVE  /\ DOMAIN s = Fields /\ DOMAIN s.mem = Tasks /\ DOMAIN s.disk = Tasks /\ DOMAIN s.jobs = Jobs
         /\ \A t \in Tasks : Tidy(s.mem[t]) /\ Tidy(s.disk[t])
         /\ \A j \in Jobs : IsStack(s.jobs[j])
  BY DEF Fine

\* Control blocks are written.
LEMMA FineMem ==
  ASSUME NEW s, Fine(s), NEW r, DOMAIN r = Fields, r.jobs = s.jobs,
         DOMAIN r.mem = Tasks, DOMAIN r.disk = Tasks,
         \A t \in Tasks : /\ Tidy(r.mem[t]) /\ Tidy(r.disk[t])
                          /\ Rests(s, t) \/ Heeds(s.mem[t], r.mem[t])
  PROVE  Leads(s, r)
  <1>1. \A j \in Jobs : Held(r, j) = Held(s, j)
    BY DEF Held
  <1>2. ASSUME NEW j \in Jobs, NEW f \in Held(r, j) PROVE Kept(r, f)
    <2>1. SUFFICES ASSUME f.op = "dispatch"
                   PROVE  f.t \in Tasks /\ DOMAIN f.x = 1 .. Len(f.x) /\ Eligible(r.mem[f.t], f.x)
      BY DEF Kept
    <2>2. f \in Held(s, j)
      BY <1>1
    <2>3. f.t \in Tasks /\ DOMAIN f.x = 1 .. Len(f.x) /\ Eligible(s.mem[f.t], f.x)
      BY <2>1, <2>2 DEF Fine, Kept
    <2>4. ~Rests(s, f.t)
      BY <2>1, <2>2 DEF Rests
    <2>5. Heeds(s.mem[f.t], r.mem[f.t])
      BY <2>3, <2>4
    <2> QED BY <2>3, <2>5 DEF Heeds
  <1>3. \A t \in Tasks : Rests(s, t) => Rests(r, t)
    BY <1>1 DEF Rests
  <1>4. DOMAIN r.jobs = Jobs /\ \A j \in Jobs : IsStack(r.jobs[j])
    BY FineParts
  <1> QED BY <1>2, <1>3, <1>4 DEF Fine, Leads

\* The functions under way go on, and nothing more is to be delegated.
LEMMA FineJobs ==
  ASSUME NEW s, Fine(s), NEW r, DOMAIN r = Fields, r.mem = s.mem, r.disk = s.disk,
         DOMAIN r.jobs = Jobs, \A j \in Jobs : IsStack(r.jobs[j]),
         \A j \in Jobs : \A f \in Held(r, j) : f \in Held(s, j) \/ f.op # "dispatch"
  PROVE  Leads(s, r)
  <1>1. ASSUME NEW j \in Jobs, NEW f \in Held(r, j) PROVE Kept(r, f)
    <2>1. CASE f.op # "dispatch"
      BY <2>1 DEF Kept
    <2>2. CASE f \in Held(s, j)
      BY <2>2 DEF Fine, Kept
    <2> QED BY <1>1, <2>1, <2>2
  <1>2. \A t \in Tasks : Rests(s, t) => Rests(r, t)
    BY DEF Rests
  <1>3. DOMAIN r.mem = Tasks /\ DOMAIN r.disk = Tasks /\ \A t \in Tasks : Tidy(r.mem[t]) /\ Tidy(r.disk[t])
    BY FineParts
  <1> QED BY <1>1, <1>2, <1>3 DEF Fine, Leads

\* The lists of the scheduler, the pool and what ran are of no matter here.
LEMMA FineRest ==
  ASSUME NEW s, Fine(s), NEW r, DOMAIN r = Fields, r.mem = s.mem, r.disk = s.disk, r.jobs = s.jobs
  PROVE  Leads(s, r)
  <1>1. \A j \in Jobs : Held(r, j) = Held(s, j)
    BY DEF Held
  <1>2. DOMAIN r.jobs = Jobs /\ \A j \in Jobs : IsStack(r.jobs[j])
    BY FineParts
  <1> QED BY <1>1, <1>2, FineJobs

LEMMA FinePut ==
  ASSUME NEW s, Fine(s), NEW t \in Tasks, NEW b, Tidy(b), Rests(s, t) \/ Heeds(s.mem[t], b), NEW r, r = Put(s, t, b)
  PROVE  /\ Leads(s, r) /\ r.mem[t] = b /\ r.disk = s.disk /\ r.jobs = s.jobs
         /\ \A k \in Tasks : k # t => r.mem[k] = s.mem[k]
         /\ r.queue = s.queue /\ r.packing = s.packing /\ r.timers = s.timers /\ r.wake = s.wake /\ r.pool = s.pool
  <1>1. /\ DOMAIN s = Fields /\ DOMAIN s.mem = Tasks /\ DOMAIN s.disk = Tasks
        /\ \A k \in Tasks : Tidy(s.mem[k]) /\ Tidy(s.disk[k])
    BY FineParts
  <1>2. /\ DOMAIN r = Fields /\ r.mem = [s.mem EXCEPT ![t] = b] /\ r.disk = s.disk /\ r.jobs = s.jobs
        /\ r.queue = s.queue /\ r.packing = s.packing /\ r.timers = s.timers /\ r.wake = s.wake /\ r.pool = s.pool
    BY <1>1 DEF Put, Fields
  <1>3. DOMAIN r.mem = Tasks /\ r.mem[t] = b /\ \A k \in Tasks : k # t => r.mem[k] = s.mem[k]
    BY <1>1, <1>2
  <1>4. \A k \in Tasks : Tidy(r.mem[k]) /\ Tidy(r.disk[k]) /\ (Rests(s, k) \/ Heeds(s.mem[k], r.mem[k]))
    <2>1. ASSUME NEW k \in Tasks, k # t PROVE Heeds(s.mem[k], r.mem[k])
      BY <1>3, <2>1 DEF Heeds
    <2> QED BY <1>1, <1>2, <1>3, <2>1
  <1>5. Leads(s, r)
    BY <1>1, <1>2, <1>3, <1>4, FineMem
  <1> QED BY <1>2, <1>3, <1>5

LEMMA FinePersist ==
  ASSUME NEW s, Fine(s), NEW t \in Tasks, NEW r, r = Persist(s, t)
  PROVE  /\ Leads(s, r) /\ r.mem = s.mem /\ r.jobs = s.jobs
         /\ r.queue = s.queue /\ r.packing = s.packing /\ r.timers = s.timers /\ r.wake = s.wake /\ r.pool = s.pool
  <1>1. /\ DOMAIN s = Fields /\ DOMAIN s.mem = Tasks /\ DOMAIN s.disk = Tasks
        /\ \A k \in Tasks : Tidy(s.mem[k]) /\ Tidy(s.disk[k])
    BY FineParts
  <1>2. /\ DOMAIN r = Fields /\ r.disk = [s.disk EXCEPT ![t] = s.mem[t]] /\ r.mem = s.mem /\ r.jobs = s.jobs
        /\ r.queue = s.queue /\ r.packing = s.packing /\ r.timers = s.timers /\ r.wake = s.wake /\ r.pool = s.pool
    BY <1>1 DEF Persist, Fields
  <1>3. DOMAIN r.disk = Tasks /\ \A k \in Tasks : r.disk[k] = s.disk[k] \/ r.disk[k] = s.mem[k]
    BY <1>1, <1>2
  <1>4. \A k \in Tasks : Tidy(r.mem[k]) /\ Tidy(r.disk[k]) /\ (Rests(s, k) \/ Heeds(s.mem[k], r.mem[k]))
    BY <1>1, <1>2, <1>3 DEF Heeds
  <1>5. Leads(s, r)
    BY <1>1, <1>2, <1>3, <1>4, FineMem
  <1> QED BY <1>2, <1>5

LEMMA FinePush ==
  ASSUME NEW s, Fine(s), NEW j \in Jobs, NEW p, IsStack(p), \A f \in ToSet(p) : f.op # "dispatch", NEW r, r = Push(s, j, p)
  PROVE  /\ Leads(s, r) /\ r.mem = s.mem /\ r.disk = s.disk /\ r.jobs[j] = p \o s.jobs[j]
         /\ r.queue = s.queue /\ r.packing = s.packing /\ r.timers = s.timers /\ r.wake = s.wake /\ r.pool = s.pool
  <1>1. DOMAIN s = Fields /\ DOMAIN s.jobs = Jobs /\ \A i \in Jobs : IsStack(s.jobs[i])
    BY FineParts
  <1>2. /\ DOMAIN r = Fields /\ r.mem = s.mem /\ r.disk = s.disk /\ r.jobs = [s.jobs EXCEPT ![j] = p \o @]
        /\ r.queue = s.queue /\ r.packing = s.packing /\ r.timers = s.timers /\ r.wake = s.wake /\ r.pool = s.pool
    BY <1>1 DEF Push, Fields
  <1>3. DOMAIN r.jobs = Jobs /\ r.jobs[j] = p \o s.jobs[j] /\ \A i \in Jobs : i # j => r.jobs[i] = s.jobs[i]
    BY <1>1, <1>2
  <1>4. IsStack(r.jobs[j]) /\ ToSet(r.jobs[j]) = ToSet(p) \cup ToSet(s.jobs[j])
    BY <1>1, <1>3, StackOn
  <1>5. \A i \in Jobs : IsStack(r.jobs[i])
    BY <1>1, <1>3, <1>4
  <1>6. \A i \in Jobs : \A f \in Held(r, i) : f \in Held(s, i) \/ f.op # "dispatch"
    BY <1>3, <1>4 DEF Held
  <1>7. DOMAIN r = Fields /\ r.mem = s.mem /\ r.disk = s.disk /\ DOMAIN r.jobs = Jobs
    BY <1>2, <1>3
  <1>8. Leads(s, r)
    BY <1>5, <1>6, <1>7, FineJobs
  <1> QED BY <1>2, <1>3, <1>8

LEMMA FinePop ==
  ASSUME NEW s, Fine(s), NEW j \in Jobs, s.jobs[j] # <<>>, NEW r, r = Pop(s, j)
  PROVE  /\ Leads(s, r) /\ r.mem = s.mem /\ r.disk = s.disk /\ r.jobs[j] = Tail(s.jobs[j])
         /\ \A i \in Jobs : i # j => r.jobs[i] = s.jobs[i]
         /\ r.queue = s.queue /\ r.packing = s.packing /\ r.timers = s.timers /\ r.wake = s.wake /\ r.pool = s.pool
  <1>1. DOMAIN s = Fields /\ DOMAIN s.jobs = Jobs /\ \A i \in Jobs : IsStack(s.jobs[i])
    BY FineParts
  <1>2. /\ DOMAIN r = Fields /\ r.mem = s.mem /\ r.disk = s.disk /\ r.jobs = [s.jobs EXCEPT ![j] = Tail(@)]
        /\ r.queue = s.queue /\ r.packing = s.packing /\ r.timers = s.timers /\ r.wake = s.wake /\ r.pool = s.pool
    BY <1>1 DEF Pop, Fields
  <1>3. DOMAIN r.jobs = Jobs /\ r.jobs[j] = Tail(s.jobs[j]) /\ \A i \in Jobs : i # j => r.jobs[i] = s.jobs[i]
    BY <1>1, <1>2
  <1>4. IsStack(r.jobs[j]) /\ ToSet(r.jobs[j]) \subseteq ToSet(s.jobs[j])
    BY <1>1, <1>3, SuffixTail, SuffixSet DEF Suffix
  <1>5. \A i \in Jobs : IsStack(r.jobs[i])
    BY <1>1, <1>3, <1>4
  <1>6. \A i \in Jobs : \A f \in Held(r, i) : f \in Held(s, i) \/ f.op # "dispatch"
    BY <1>3, <1>4 DEF Held
  <1>7. DOMAIN r = Fields /\ r.mem = s.mem /\ r.disk = s.disk /\ DOMAIN r.jobs = Jobs
    BY <1>2, <1>3
  <1>8. Leads(s, r)
    BY <1>5, <1>6, <1>7, FineJobs
  <1> QED BY <1>2, <1>3, <1>8

\* A task ends: the steps that follow delegate nothing.
LEMMA FineTerminate ==
  ASSUME NEW s, Fine(s), NEW j \in Jobs, NEW t \in Tasks, s.mem[t] # NoTask, NEW kind,
         NEW r, r = terminateTask(s, j, t, kind)
  PROVE  Leads(s, r)
  <1>1. CASE s.mem[t].st = "TERMINATED"
    BY <1>1, LeadsSelf DEF terminateTask
  <1>2. CASE s.mem[t].st # "TERMINATED"
    <2>1. PICK a, b : a = denyPendingCapabilityRequests(s.mem[t]) /\ b = transition(a, "TERMINATED", kind)
      OBVIOUS
    <2>2. PICK s1, kids :
            /\ s1 = [s EXCEPT !.queue = @ \ {t}, !.packing = @ \ {t}, !.timers = @ \ {t}, !.wake = @ \ {t},
                              !.pool = release(@, t)]
            /\ kids = SetToSeq(childrenOf(s.pool, t))
      OBVIOUS
    <2>3. PICK p : p = <<Frame("cancel", t, kids), Frame("notify", t, <<kind>>)>>
      OBVIOUS
    <2>4. PICK s2 : s2 = Put(s1, t, b)
      OBVIOUS
    <2>5. PICK s3 : s3 = Persist(s2, t)
      OBVIOUS
    <2>6. r = Push(s3, j, p)
      BY <1>2, <2>1, <2>2, <2>3, <2>4, <2>5 DEF terminateTask
    <2>7. DOMAIN s = Fields /\ Tidy(s.mem[t])
      BY FineParts
    <2>8. DOMAIN s1 = Fields /\ s1.mem = s.mem /\ s1.disk = s.disk /\ s1.jobs = s.jobs
      BY <2>2, <2>7 DEF Fields
    <2>9. Leads(s, s1) /\ Fine(s1)
      <3>1. Leads(s, s1)
        BY <2>8, FineRest
      <3> QED BY <3>1 DEF Leads
    <2>10. Tidy(a) /\ Heeds(s.mem[t], a) /\ a # NoTask
      <3>1. Tidy(a) /\ Heeds(s.mem[t], a)
        BY <2>1, <2>7, TidyWrites
      <3>2. DOMAIN s.mem[t] = BlockFields
        BY <2>7, TidyFacts
      <3>3. DOMAIN a = BlockFields
        BY <2>1, <3>2 DEF denyPendingCapabilityRequests
      <3> QED BY <3>1, <3>3, Present
    <2>11. Tidy(b) /\ Heeds(s.mem[t], b)
      <3>1. Tidy(b) /\ Heeds(a, b)
        BY <2>1, <2>10, TidyTransition
      <3> QED BY <2>10, <3>1 DEF Heeds
    <2>12. Leads(s1, s2) /\ Fine(s2)
      <3>1. Leads(s1, s2)
        BY <2>4, <2>8, <2>9, <2>11, FinePut
      <3> QED BY <3>1 DEF Leads
    <2>13. Leads(s2, s3) /\ Fine(s3)
      <3>1. Leads(s2, s3)
        BY <2>5, <2>12, FinePersist
      <3> QED BY <3>1 DEF Leads
    <2>14. IsStack(p) /\ \A f \in ToSet(p) : f.op # "dispatch"
      <3>1. ToSet(p) = {Frame("cancel", t, kids), Frame("notify", t, <<kind>>)}
        BY <2>3 DEF ToSet
      <3>2. IsStack(p)
        BY <2>3, TwoFrames
      <3> QED BY <3>1, <3>2 DEF Frame
    <2>15. Leads(s3, r)
      BY <2>6, <2>13, <2>14, FinePush
    <2> QED BY <2>9, <2>12, <2>13, <2>15, LeadsOn
  <1> QED BY <1>1, <1>2

\* A task is queued, handed to the compactor, or given up.
LEMMA FinePrepare ==
  ASSUME NEW s, Fine(s), NEW j \in Jobs, NEW t \in Tasks, s.mem[t] # NoTask, NEW fit \in Fits,
         NEW r, r = prepareTaskForQueue(s, j, t, fit)
  PROVE  Leads(s, r)
  <1>1. PICK s1 : s1 = [s EXCEPT !.queue = @ \ {t}, !.packing = @ \ {t}]
    OBVIOUS
  <1>2. DOMAIN s = Fields
    BY FineParts
  <1>3. DOMAIN s1 = Fields /\ s1.mem = s.mem /\ s1.disk = s.disk /\ s1.jobs = s.jobs
    BY <1>1, <1>2 DEF Fields
  <1>4. Leads(s, s1) /\ Fine(s1)
    <2>1. Leads(s, s1)
      BY <1>3, FineRest
    <2> QED BY <2>1 DEF Leads
  <1>5. CASE fit = "fits"
    <2>1. r = [s1 EXCEPT !.queue = @ \cup {t}]
      BY <1>1, <1>5 DEF prepareTaskForQueue
    <2>2. DOMAIN r = Fields /\ r.mem = s1.mem /\ r.disk = s1.disk /\ r.jobs = s1.jobs
      BY <1>3, <2>1 DEF Fields
    <2>3. Leads(s1, r)
      BY <1>4, <2>2, FineRest
    <2> QED BY <1>4, <2>3, LeadsOn
  <1>6. CASE fit = "packs" /\ ~s.mem[t].packed
    <2>1. r = [s1 EXCEPT !.packing = @ \cup {t}]
      BY <1>1, <1>6 DEF prepareTaskForQueue
    <2>2. DOMAIN r = Fields /\ r.mem = s1.mem /\ r.disk = s1.disk /\ r.jobs = s1.jobs
      BY <1>3, <2>1 DEF Fields
    <2>3. Leads(s1, r)
      BY <1>4, <2>2, FineRest
    <2> QED BY <1>4, <2>3, LeadsOn
  <1>7. CASE fit = "over" \/ (fit = "packs" /\ s.mem[t].packed)
    <2>1. PICK kind : kind = "failed"
      OBVIOUS
    <2>2. r = terminateTask(s1, j, t, kind)
      BY <1>1, <1>7, <2>1 DEF prepareTaskForQueue
    <2>3. Leads(s1, r)
      BY <1>3, <1>4, <2>2, FineTerminate
    <2> QED BY <1>4, <2>3, LeadsOn
  <1>8. fit \in {"fits", "packs", "over"}
    BY TaskAssumption
  <1> QED BY <1>5, <1>6, <1>7, <1>8

\* The block of t is b, READY, queued and saved.
LEMMA FineRequeue ==
  ASSUME NEW s, Fine(s), NEW j \in Jobs, NEW t \in Tasks, NEW b, Tidy(b), b # NoTask,
         Rests(s, t) \/ Heeds(s.mem[t], b), NEW fit \in Fits, NEW r, r = Requeue(s, j, t, b, fit)
  PROVE  Leads(s, r)
  <1>1. PICK st, why : st = "READY" /\ why = ""
    OBVIOUS
  <1>2. PICK c : c = transition(b, st, why)
    OBVIOUS
  <1>3. PICK s1 : s1 = Put(s, t, c)
    OBVIOUS
  <1>4. PICK s2 : s2 = prepareTaskForQueue(s1, j, t, fit)
    OBVIOUS
  <1>5. r = Persist(s2, t)
    BY <1>1, <1>2, <1>3, <1>4 DEF Requeue
  <1>6. Tidy(c) /\ Heeds(b, c) /\ c # NoTask
    BY <1>1, <1>2, TidyTransition
  <1>7. Rests(s, t) \/ Heeds(s.mem[t], c)
    BY <1>6 DEF Heeds
  <1>8. Leads(s, s1) /\ Fine(s1) /\ s1.mem[t] # NoTask
    <2>1. Leads(s, s1) /\ s1.mem[t] = c
      BY <1>3, <1>6, <1>7, FinePut
    <2> QED BY <1>6, <2>1 DEF Leads
  <1>9. Leads(s1, s2) /\ Fine(s2)
    <2>1. Leads(s1, s2)
      BY <1>4, <1>8, FinePrepare
    <2> QED BY <2>1 DEF Leads
  <1>10. Leads(s2, r)
    BY <1>5, <1>9, FinePersist
  <1> QED BY <1>8, <1>9, <1>10, LeadsOn

LEMMA FineCancelTimer ==
  ASSUME NEW s, Fine(s), NEW t \in Tasks, s.mem[t] # NoTask, NEW r, r = CancelTimer(s, t)
  PROVE  /\ Leads(s, r) /\ r.mem[t] # NoTask /\ r.jobs = s.jobs /\ r.wake = s.wake /\ r.queue = s.queue
         /\ Tidy(r.mem[t]) /\ Heeds(s.mem[t], r.mem[t])
  <1>1. PICK b : b = [s.mem[t] EXCEPT !.due = FALSE]
    OBVIOUS
  <1>2. PICK s1 : s1 = [s EXCEPT !.timers = @ \ {t}]
    OBVIOUS
  <1>3. DOMAIN s = Fields /\ DOMAIN s.mem = Tasks /\ Tidy(s.mem[t])
    BY FineParts
  <1>4. DOMAIN s.mem[t] = BlockFields
    BY <1>3, TidyFacts
  <1>5. DOMAIN s1 = Fields /\ s1.mem = s.mem /\ s1.disk = s.disk /\ s1.jobs = s.jobs /\ s1.wake = s.wake /\ s1.queue = s.queue
    BY <1>2, <1>3 DEF Fields
  <1>6. r = Put(s1, t, b)
    BY <1>1, <1>2, <1>3 DEF CancelTimer, Put, Fields
  <1>7. Tidy(b) /\ Heeds(s.mem[t], b)
    BY <1>1, <1>3, TidyWrites
  <1>8. b # NoTask
    <2>1. DOMAIN b = BlockFields
      BY <1>1, <1>4
    <2> QED BY <2>1, Present
  <1>9. Leads(s, s1) /\ Fine(s1)
    <2>1. Leads(s, s1)
      BY <1>5, FineRest
    <2> QED BY <2>1 DEF Leads
  <1>10. Leads(s1, r) /\ r.mem[t] = b /\ r.jobs = s1.jobs /\ r.wake = s1.wake /\ r.queue = s1.queue
    BY <1>5, <1>6, <1>7, <1>9, FinePut
  <1> QED BY <1>5, <1>7, <1>8, <1>9, <1>10, LeadsOn

\* Results are put into the context of a task that is not busy.
LEMMA FineDeliver ==
  ASSUME NEW s, Fine(s), NEW j \in Jobs, NEW p \in Tasks, s.mem[p] # NoTask, NEW fit \in Fits,
         NEW r, r = deliverAsyncWorkUpdate(s, j, p, fit)
  PROVE  Leads(s, r)
  <1>1. PICK b : b = s.mem[p]
    OBVIOUS
  <1>2. PICK s1, s2 : s1 = [s EXCEPT !.wake = @ \ {p}] /\ s2 = [s EXCEPT !.wake = @ \cup {p}]
    OBVIOUS
  <1>3. DOMAIN s = Fields /\ Tidy(b)
    BY <1>1, FineParts
  <1>4. /\ DOMAIN s1 = Fields /\ s1.mem = s.mem /\ s1.disk = s.disk /\ s1.jobs = s.jobs
        /\ DOMAIN s2 = Fields /\ s2.mem = s.mem /\ s2.disk = s.disk /\ s2.jobs = s.jobs
    BY <1>2, <1>3 DEF Fields
  <1>5. Leads(s, s1) /\ Fine(s1) /\ s1.mem[p] # NoTask
    <2>1. Leads(s, s1)
      BY <1>4, FineRest
    <2> QED BY <1>4, <2>1 DEF Leads
  <1>6. Leads(s, s2)
    BY <1>4, FineRest
  <1>7. PICK s3, c : s3 = CancelTimer(s1, p) /\ c = claimAsyncWorkUpdate(b)
    OBVIOUS
  <1>8. Leads(s1, s3) /\ Fine(s3) /\ s3.mem[p] # NoTask
    <2>1. Leads(s1, s3) /\ s3.mem[p] # NoTask
      BY <1>5, <1>7, FineCancelTimer
    <2> QED BY <2>1 DEF Leads
  <1>9. Tidy(c) /\ c # NoTask /\ Heeds(s3.mem[p], c)
    <2>1. Tidy(c) /\ c # NoTask
      BY <1>1, <1>3, <1>7, TidyClaimed
    <2>2. c.graph = b.graph
      BY <1>3, <1>1, <1>7, TidyFacts DEF claimAsyncWorkUpdate, appendContext, BlockFields
    <2>3. s3.mem[p].graph = b.graph
      <3>1. DOMAIN s1.mem = Tasks /\ DOMAIN s1 = Fields /\ DOMAIN s1.mem[p] = BlockFields
        BY <1>1, <1>3, <1>4, TidyFacts, FineParts
      <3>2. PICK d, s4 : d = [s1.mem[p] EXCEPT !.due = FALSE] /\ s4 = [s1.mem EXCEPT ![p] = d]
        OBVIOUS
      <3>3. s3.mem = s4
        BY <1>7, <3>1, <3>2 DEF CancelTimer, Fields
      <3>4. d.graph = b.graph
        BY <1>1, <1>4, <3>1, <3>2 DEF BlockFields
      <3> QED BY <3>1, <3>2, <3>3, <3>4
    <2> QED BY <2>1, <2>2, <2>3, EligibleGraph
  <1>10. PICK r1 : r1 = Requeue(s3, j, p, c, fit)
    OBVIOUS
  <1>11. Leads(s3, r1)
    BY <1>8, <1>9, <1>10, FineRequeue
  <1>12. r \in {s1, s2, s3, r1}
    <2>1. b.st \in {"READY", "RUNNING", "BLOCKED", "TERMINATED"}
      BY <1>1, <1>3, TidyFacts
    <2>2. PICK st, why : st = b.st /\ why = b.why
      OBVIOUS
    <2>3. r = CASE st = "TERMINATED" -> s1
               [] st = "RUNNING" \/ (st = "BLOCKED" /\ why # "work") -> s2
               [] st = "READY" \/ (st = "BLOCKED" /\ why = "work") ->
                    IF Open(b) = {} THEN s1 ELSE IF ~hasUndeliveredAsyncWorkResults(b) THEN s3 ELSE r1
      BY <1>1, <1>2, <1>7, <1>10, <2>2 DEF deliverAsyncWorkUpdate
    <2> QED BY <2>1, <2>2, <2>3
  <1> QED BY <1>5, <1>6, <1>8, <1>11, <1>12, LeadsOn

LEMMA FineFailure ==
  ASSUME NEW s, Fine(s), NEW j \in Jobs, NEW t \in Tasks, s.mem[t] # NoTask, s.mem[t].st # "TERMINATED", NEW fit \in Fits,
         NEW r, r = handleModelFailure(s, j, t, fit)
  PROVE  Leads(s, r)
  <1>1. PICK kind, b : kind = "failed" /\ b = s.mem[t]
    OBVIOUS
  <1>2. PICK r1, r2, r3, r4, r5 :
          /\ r1 = terminateTask(s, j, t, kind) /\ r2 = Requeue(s, j, t, b, fit) /\ r3 = Persist(s, t)
          /\ r4 = prepareTaskForQueue(s, j, t, fit) /\ r5 = Persist(r4, t)
    OBVIOUS
  <1>3. Tidy(b) /\ b # NoTask
    BY <1>1, FineParts
  <1>4. Leads(s, r1)
    BY <1>1, <1>2, FineTerminate
  <1>5. Leads(s, r2)
    <2>1. Heeds(s.mem[t], b)
      BY <1>1 DEF Heeds
    <2> QED BY <1>2, <1>3, <2>1, FineRequeue
  <1>6. Leads(s, r3)
    BY <1>2, FinePersist
  <1>7. Leads(s, r5)
    <2>1. Leads(s, r4)
      BY <1>2, FinePrepare
    <2>2. Fine(r4)
      BY <2>1 DEF Leads
    <2>3. Leads(r4, r5)
      BY <1>2, <2>2, FinePersist
    <2> QED BY <2>1, <2>3, LeadsOn
  <1>8. r \in {r1, r2, r3, r5}
    <2>1. b.st \in {"READY", "RUNNING", "BLOCKED"}
      BY <1>1, <1>3, TidyFacts
    <2> QED BY <1>1, <1>2, <2>1 DEF handleModelFailure
  <1> QED BY <1>4, <1>5, <1>6, <1>7, <1>8

\* What an exception leaves to do.
LEMMA FineThrow ==
  ASSUME NEW s, Fine(s), NEW j \in Jobs, j[1] = "turn" => s.mem[j[2]] # NoTask, NEW fit \in Fits,
         NEW r, r = Throw(s, j, fit)
  PROVE  Leads(s, r)
  <1>1. PICK s1, t : s1 = [s EXCEPT !.jobs[j] = <<>>] /\ t = j[2]
    OBVIOUS
  <1>2. DOMAIN s = Fields /\ DOMAIN s.jobs = Jobs /\ \A i \in Jobs : IsStack(s.jobs[i])
    BY FineParts
  <1>3. DOMAIN s1 = Fields /\ s1.mem = s.mem /\ s1.disk = s.disk /\ s1.jobs = [s.jobs EXCEPT ![j] = <<>>] /\ s1.wake = s.wake
    BY <1>1, <1>2 DEF Fields
  <1>4. DOMAIN s1.jobs = Jobs /\ s1.jobs[j] = <<>> /\ \A i \in Jobs : i # j => s1.jobs[i] = s.jobs[i]
    BY <1>2, <1>3
  <1>5. IsStack(s1.jobs[j]) /\ ToSet(s1.jobs[j]) = {}
    BY <1>2, <1>4, SuffixNone
  <1>6. \A i \in Jobs : IsStack(s1.jobs[i])
    BY <1>2, <1>4, <1>5
  <1>7. \A i \in Jobs : \A f \in Held(s1, i) : f \in Held(s, i) \/ f.op # "dispatch"
    BY <1>4, <1>5 DEF Held
  <1>8. Leads(s, s1) /\ Fine(s1)
    <2>1. DOMAIN s1 = Fields /\ s1.mem = s.mem /\ s1.disk = s.disk
      BY <1>3
    <2>2. Leads(s, s1)
      BY <1>4, <1>6, <1>7, <2>1, FineJobs
    <2> QED BY <2>2 DEF Leads
  <1>9. PICK tries : tries = {i \in DOMAIN s.jobs[j] : s.jobs[j][i].op = "try"}
    OBVIOUS
  <1>10. CASE tries # {}
    <2>1. PICK try : try = s.jobs[j][CHOOSE i \in tries : TRUE]
      OBVIOUS
    <2>2. PICK f, q : f = Frame("failnodes", try.t, try.x) /\ q = <<f>>
      BY ZenonT(30)
    <2>3. r = Push(s1, j, q)
      BY <1>1, <1>9, <1>10, <2>1, <2>2, ZenonT(30) DEF Throw
    <2>4. IsStack(q) /\ ToSet(q) = {f}
      BY <2>2, OneFrame DEF ToSet
    <2>5. f.op # "dispatch"
      BY <2>2 DEF Frame
    <2>6. Leads(s1, r)
      BY <1>8, <2>3, <2>4, <2>5, FinePush
    <2> QED BY <1>8, <2>6, LeadsOn
  <1>11. CASE tries = {}
    <2>1. CASE j[1] # "turn"
      <3>1. r = s1
        BY <1>1, <1>9, <1>11, <2>1 DEF Throw
      <3> QED BY <1>8, <3>1
    <2>2. CASE j[1] = "turn" /\ s.mem[t].st = "TERMINATED"
      <3>1. r = s1
        BY <1>1, <1>9, <1>11, <2>2 DEF Throw
      <3> QED BY <1>8, <3>1
    <2>3. CASE j[1] = "turn" /\ s.mem[t].st # "TERMINATED"
      <3>1. t \in Tasks /\ s1.mem[t] # NoTask /\ s1.mem[t].st # "TERMINATED"
        BY <1>1, <1>3, <2>3, JobFacts
      <3>2. PICK f, q : f = Then("settle", t) /\ q = <<f>>
        OBVIOUS
      <3>3. r = Push(s1, j, q) \/ r = handleModelFailure(s1, j, t, fit)
        BY <1>1, <1>9, <1>11, <2>3, <3>2 DEF Throw
      <3>4. IsStack(q) /\ ToSet(q) = {f}
        BY <3>2, OneFrame DEF ToSet
      <3>5. f.op # "dispatch"
        BY <3>2 DEF Then, Frame
      <3>6. CASE r = Push(s1, j, q)
        <4>1. Leads(s1, r)
          BY <1>8, <3>4, <3>5, <3>6, FinePush
        <4> QED BY <1>8, <4>1, LeadsOn
      <3>7. CASE r = handleModelFailure(s1, j, t, fit)
        <4>1. Leads(s1, r)
          BY <1>8, <3>1, <3>7, FineFailure
        <4> QED BY <1>8, <4>1, LeadsOn
      <3> QED BY <3>3, <3>6, <3>7
    <2> QED BY <2>1, <2>2, <2>3
  <1> QED BY <1>10, <1>11

\* A request for capabilities is answered.
LEMMA FineFinish ==
  ASSUME NEW s, Fine(s), NEW j \in Jobs, j[1] = "turn" => s.mem[j[2]] # NoTask, NEW t \in Tasks, s.mem[t] # NoTask,
         NEW fit \in Fits, NEW status, NEW grants, NEW r, r = finishCapabilityRequest(s, j, t, status, grants, fit)
  PROVE  Leads(s, r)
  <1>1. PICK a, e, b, st, why :
          /\ a = addCapabilityGrants(s.mem[t], grants) /\ e = [a EXCEPT !.ask.status = status] /\ b = appendContext(e)
          /\ st = "READY" /\ why = ""
    OBVIOUS
  <1>2. PICK c : c = transition(b, st, why)
    OBVIOUS
  <1>3. PICK s1 : s1 = Put(s, t, c)
    OBVIOUS
  <1>4. Tidy(s.mem[t])
    BY FineParts
  <1>5. DOMAIN s.mem[t] = BlockFields
    BY <1>4, TidyFacts
  <1>6. /\ DOMAIN b = BlockFields /\ b.st = s.mem[t].st /\ b.graph = s.mem[t].graph /\ b.works = s.mem[t].works
    BY <1>1, <1>5 DEF addCapabilityGrants, appendContext, BlockFields
  <1>7. Tidy(b) /\ Heeds(s.mem[t], b) /\ b # NoTask
    BY <1>4, <1>6, TidySame
  <1>8. Tidy(c) /\ Heeds(b, c) /\ c # NoTask
    BY <1>1, <1>2, <1>7, TidyTransition, ZenonT(30)
  <1>9. Heeds(s.mem[t], c)
    BY <1>7, <1>8 DEF Heeds
  <1>10. Leads(s, s1) /\ Fine(s1) /\ s1.mem[t] # NoTask
    <2>1. Leads(s, s1) /\ s1.mem[t] = c
      BY <1>3, <1>8, <1>9, FinePut
    <2> QED BY <1>8, <2>1 DEF Leads
  <1>11. PICK r1, r2, r3, r4 :
           /\ r1 = Throw(s, j, fit) /\ r2 = deliverAsyncWorkUpdate(s1, j, t, fit)
           /\ r3 = prepareTaskForQueue(s1, j, t, fit) /\ r4 = Persist(r3, t)
    OBVIOUS
  <1>12. r \in {r1, r2, r4}
    BY <1>1, <1>2, <1>3, <1>11 DEF finishCapabilityRequest, resolveCapabilityRequest
  <1>13. Leads(s, r1)
    BY <1>11, FineThrow
  <1>14. Leads(s1, r2)
    BY <1>10, <1>11, FineDeliver
  <1>15. Leads(s1, r3) /\ Fine(r3)
    <2>1. Leads(s1, r3)
      BY <1>10, <1>11, FinePrepare
    <2> QED BY <2>1 DEF Leads
  <1>16. Leads(r3, r4)
    BY <1>11, <1>15, FinePersist
  <1> QED BY <1>10, <1>12, <1>13, <1>14, <1>15, <1>16, LeadsOn

----------------------------------------------------------------------------
(* A step begins and ends *)

LEMMA FineDone ==
  ASSUME NEW r, Fine(r), Do(r)
  PROVE  Fine(S')
  <1>1. PICK z : z = S'
    OBVIOUS
  <1>2. /\ DOMAIN z = Fields /\ z.mem = r.mem /\ z.disk = r.disk /\ z.jobs = [j \in Jobs |-> Trim(r.jobs[j])]
    BY <1>1 DEF S, Do, Fields
  <1>3. DOMAIN z.jobs = Jobs /\ \A j \in Jobs : z.jobs[j] = Trim(r.jobs[j])
    BY <1>2
  <1>4. ASSUME NEW j \in Jobs PROVE IsStack(z.jobs[j]) /\ ToSet(z.jobs[j]) \subseteq ToSet(r.jobs[j])
    <2>1. IsStack(r.jobs[j])
      BY FineParts
    <2>2. PICK d : Suffix(z.jobs[j], r.jobs[j], d)
      BY <1>3, <2>1, SuffixTrim
    <2> QED BY <2>1, <2>2, SuffixSet DEF Suffix
  <1>5. \A j \in Jobs : \A f \in Held(z, j) : f \in Held(r, j) \/ f.op # "dispatch"
    BY <1>4 DEF Held
  <1>6. DOMAIN z = Fields /\ z.mem = r.mem /\ z.disk = r.disk
    BY <1>2
  <1>7. Leads(r, z)
    BY <1>3, <1>4, <1>5, <1>6, FineJobs
  <1> QED BY <1>1, <1>7 DEF Leads

\* Only the loop delegates.
LEMMA RestsOutside ==
  ASSUME NEW s, NEW ph, NEW L, Inv(s, ph, L), NEW t \in Tasks, ~InLoop(s, t) \/ ~Looped(s, t)
  PROVE  Rests(s, t)
  <1>1. SUFFICES ASSUME NEW j \in Jobs, NEW f \in Held(s, j), f.op = "dispatch", f.t = t PROVE FALSE
    BY DEF Rests
  <1>2. StackOK(s.jobs[j], j, ph)
    BY DEF Inv, Stacks
  <1>3. PICK i \in DOMAIN s.jobs[j] : s.jobs[j][i] = f /\ FrameFits(s.jobs[j], i, j, ph)
    <2>1. IsStack(s.jobs[j]) /\ \A i \in DOMAIN s.jobs[j] : FrameFits(s.jobs[j], i, j, ph)
      BY <1>2 DEF StackOK
    <2> QED BY <1>1, <2>1, StackFacts DEF Held
  <1>4. j[1] = "loop"
    BY <1>1, <1>3, JobFacts DEF FrameFits, OpsOf, Casc, Sends, BootOps
  <1>5. j = <<"loop">>
    BY <1>4, JobFacts
  <1> QED BY <1>1, <1>5 DEF InLoop, Looped, Holds

LEMMA RestsIdle ==
  ASSUME NEW s, NEW ph, NEW L, Inv(s, ph, L), s.jobs[<<"loop">>] = <<>>, NEW t \in Tasks
  PROVE  Rests(s, t)
  <1>1. Held(s, <<"loop">>) = {}
    BY SuffixNone, OneFrame DEF Held
  <1>2. ~InLoop(s, t)
    BY <1>1 DEF InLoop, Holds
  <1> QED BY <1>2, RestsOutside

LEMMA RestsNew ==
  ASSUME NEW s, NEW ph, NEW L, Inv(s, ph, L), NEW t \in Tasks, ~Known(s, t)
  PROVE  Rests(s, t)
  <1>1. SUFFICES ASSUME NEW j \in Jobs, NEW f \in Held(s, j), f.op = "dispatch", f.t = t PROVE FALSE
    BY DEF Rests
  <1>2. FrameKnown(s, f)
    BY DEF Inv, FramesKnown
  <1> QED BY <1>1, <1>2 DEF FrameKnown, Nameless, Sends

\* A function takes up its next frame.
FineTaken(r, j, f) ==
  /\ Fine(r) /\ Leads(S, r) /\ r.mem = mem /\ r.disk = disk /\ r.jobs[j] = Tail(jobs[j])
  /\ \A i \in Jobs : i # j => r.jobs[i] = jobs[i]
  /\ r.wake = wake /\ r.timers = timers /\ r.pool = pool /\ r.queue = queue /\ r.packing = packing
  /\ phase # "down" /\ Inv(S, phase, {}) /\ FrameKnown(S, f) /\ FrameFits(jobs[j], 1, j, phase)
  /\ f.op \notin Nameless \/ f.op \in Sends => f.t \in Tasks /\ mem[f.t] # NoTask

LEMMA FineTake ==
  ASSUME IInv, Fine(S), NEW j \in Jobs, jobs[j] # <<>>, NEW f, f = jobs[j][1], NEW r, r = Pop(S, j)
  PROVE  FineTaken(r, j, f)
  <1>1. phase # "down" /\ Inv(S, phase, {}) /\ S.jobs[j] = jobs[j] /\ S.mem = mem
    BY Running, SFacts
  <1>2. PICK s : s = S
    OBVIOUS
  <1>3. /\ s.jobs = jobs /\ s.mem = mem /\ s.disk = disk /\ s.wake = wake /\ s.timers = timers /\ s.pool = pool
        /\ s.queue = queue /\ s.packing = packing
    BY <1>2, SFacts
  <1>4. Fine(s) /\ s.jobs[j] # <<>> /\ r = Pop(s, j)
    BY <1>2, <1>3
  <1>5. /\ Leads(s, r) /\ r.mem = s.mem /\ r.disk = s.disk /\ r.jobs[j] = Tail(s.jobs[j])
        /\ \A i \in Jobs : i # j => r.jobs[i] = s.jobs[i]
        /\ r.queue = s.queue /\ r.packing = s.packing /\ r.timers = s.timers /\ r.wake = s.wake /\ r.pool = s.pool
    BY <1>4, FinePop
  <1>6. StackOK(jobs[j], j, phase)
    BY <1>1 DEF Inv, Stacks
  <1>7. f \in Held(S, j) /\ FrameFits(jobs[j], 1, j, phase)
    <2>1. IsStack(jobs[j]) /\ \A i \in DOMAIN jobs[j] : FrameFits(jobs[j], i, j, phase)
      BY <1>6 DEF StackOK
    <2>2. Len(jobs[j]) \in Nat /\ Len(jobs[j]) # 0 /\ DOMAIN jobs[j] = 1 .. Len(jobs[j])
          /\ \A i \in 1 .. Len(jobs[j]) : jobs[j][i] \in ToSet(jobs[j])
      BY <2>1, StackFacts
    <2>3. 1 \in DOMAIN jobs[j] /\ jobs[j][1] \in ToSet(jobs[j])
      BY <2>2
    <2> QED BY <1>1, <2>1, <2>3 DEF Held
  <1>8. FrameKnown(S, f)
    BY <1>1, <1>7 DEF Inv, FramesKnown
  <1>9. f.op \notin Nameless => f.t \in Tasks /\ mem[f.t] # NoTask
    BY <1>1, <1>8 DEF FrameKnown, Known
  <1>10. f.op \in Sends => f.t \in Tasks /\ mem[f.t] # NoTask
    BY <1>1, <1>7 DEF Inv, Newborns, NewbornFits
  <1> QED BY <1>1, <1>2, <1>3, <1>5, <1>7, <1>8, <1>9, <1>10 DEF FineTaken, Leads

\* What acts on a request in a turn does so while the task of the turn is there.
LEMMA TurnStays ==
  ASSUME IInv, NEW j \in Jobs, jobs[j] # <<>>, jobs[j][1].op \in {"settle", "publish", "advance", "continue"}, j[1] = "turn"
  PROVE  j[2] \in Tasks /\ mem[j[2]] # NoTask
  <1>1. phase # "down" /\ Inv(S, phase, {}) /\ S.jobs[j] = jobs[j] /\ S.mem = mem
    BY Running, SFacts
  <1>2. IsStack(jobs[j]) /\ \A i \in DOMAIN jobs[j] : FrameFits(jobs[j], i, j, phase)
    BY <1>1 DEF Inv, Stacks, StackOK
  <1>3. Len(jobs[j]) \in Nat /\ Len(jobs[j]) # 0 /\ DOMAIN jobs[j] = 1 .. Len(jobs[j])
    BY <1>2, StackFacts
  <1>4. FrameFits(jobs[j], 1, j, phase)
    BY <1>2, <1>3
  <1>5. PICK i \in DOMAIN jobs[j] : jobs[j][i].op \in {"settle", "publish", "advance", "continue"} /\ jobs[j][i].t = j[2]
    <2>1. CASE jobs[j][1].op \in {"settle", "continue"}
      <3>1. 1 \in DOMAIN jobs[j] /\ jobs[j][1].t = j[2]
        BY <1>3, <1>4, <2>1 DEF FrameFits
      <3> QED BY <2>1, <3>1
    <2>2. CASE jobs[j][1].op \in {"publish", "advance"}
      <3>1. CASE Len(jobs[j]) = 2 /\ jobs[j][2].op = "continue"
        <4>1. 2 \in DOMAIN jobs[j]
          BY <1>3, <3>1
        <4>2. FrameFits(jobs[j], 2, j, phase)
          BY <1>2, <4>1
        <4>3. jobs[j][2].t = j[2]
          BY <3>1, <4>2 DEF FrameFits
        <4> QED BY <3>1, <4>1, <4>3
      <3>2. CASE Len(jobs[j]) = 1 /\ jobs[j][1].t = j[2]
        BY <1>3, <2>2, <3>2
      <3> QED BY <1>4, <2>2, <3>1, <3>2 DEF FrameFits
    <2> QED BY <2>1, <2>2
  <1>6. jobs[j][i] \in Held(S, j)
    BY <1>1, <1>2, <1>3, <1>5, StackFacts DEF Held
  <1>7. FrameKnown(S, jobs[j][i])
    BY <1>1, <1>6 DEF Inv, FramesKnown
  <1> QED BY <1>1, <1>5, <1>7 DEF FrameKnown, Nameless, Sends, Known

-----------------------------------------------------------------------------
(* Work begins, and what begins it may fail *)

\* The nodes may be given to the children kids, one each, and none were asked for otherwise.
Given(a, kids, nodes) == DOMAIN nodes = DOMAIN kids /\ Eligible(a, nodes)

LEMMA TidyExtended ==
  ASSUME NEW a, Tidy(a), a # NoTask, NEW calls, NEW kids \in Seq(Tasks),
         \A i, k \in 1 .. Len(kids) : kids[i] = kids[k] => i = k,
         NEW X, X = ToSet(calls) \cup ToSet(kids), X \cap DOMAIN a.works = {},
         NEW nodes, nodes = <<>> \/ Given(a, kids, nodes), NEW b, b = Extended(a, calls, kids, nodes)
  PROVE  Tidy(b) /\ (nodes = <<>> => Heeds(a, b))
  <1>1. PICK b0 : b0 = registerAsyncWork(a, X)
    OBVIOUS
  <1>2. /\ Tidy(b0) /\ Heeds(a, b0) /\ b0 # NoTask /\ b0.graph = a.graph
        /\ activeAsyncWorkPendingIds(a) \cup X \subseteq activeAsyncWorkPendingIds(b0)
    BY <1>1, TidyRegister
  <1>3. PICK b1 : b1 = IF calls = <<>> THEN b0 ELSE appendContext(b0)
    OBVIOUS
  <1>4. Tidy(b1) /\ Heeds(b0, b1) /\ b1 # NoTask
    <2>1. Tidy(appendContext(b0)) /\ Heeds(b0, appendContext(b0)) /\ appendContext(b0) # NoTask
      BY <1>2, TidyWrites
    <2>2. Heeds(b0, b0)
      BY DEF Heeds
    <2> QED BY <1>2, <1>3, <2>1, <2>2
  <1>5. b1.graph = a.graph /\ b1.works = b0.works
    <2>1. DOMAIN b0 = BlockFields
      BY <1>2, TidyFacts
    <2> QED BY <1>2, <1>3, <2>1 DEF appendContext, BlockFields
  <1>6. Heeds(a, b1)
    BY <1>2, <1>4 DEF Heeds
  <1>7. b = IF nodes = <<>> THEN b1 ELSE [b1 EXCEPT !.graph = bindDelegatedWorkGraphNodes(@, nodes, kids)]
    BY <1>1, <1>3 DEF Extended
  <1>8. CASE nodes = <<>>
    BY <1>4, <1>6, <1>7, <1>8
  <1>9. CASE nodes # <<>>
    <2>1. PICK g : g = a.graph
      OBVIOUS
    <2>2. PICK P, Y : P = activeAsyncWorkPendingIds(a) /\ Y = activeAsyncWorkPendingIds(b1)
      OBVIOUS
    <2>3. DOMAIN nodes = DOMAIN kids /\ g # NoGraph /\ g.cur = NoNode
          /\ \A i \in DOMAIN nodes : /\ nodes[i] \in DOMAIN g.nodes /\ g.nodes[nodes[i]].who # "self"
                                     /\ g.nodes[nodes[i]].st \in {"pending", "ready"}
                                     /\ g.nodes[nodes[i]].deps \subseteq Settled(g)
      BY <1>9, <2>1 DEF Given, Eligible
    <2>4. GraphTidy(g) /\ Waiting(g, P)
      BY <2>1, <2>2, <2>3, TidyFacts DEF Matched
    <2>5. P \subseteq DOMAIN a.works
      BY <2>2 DEF activeAsyncWorkPendingIds, Open
    <2>6. \A i \in DOMAIN kids : kids[i] \in X /\ kids[i] \in Tasks
      BY DEF ToSet
    <2>7. P \subseteq Y /\ X \subseteq Y
      BY <1>2, <1>5, <2>2 DEF activeAsyncWorkPendingIds, Open
    <2>8. \A i \in DOMAIN nodes : /\ nodes[i] \in DOMAIN g.nodes /\ g.nodes[nodes[i]].who # "self"
                                  /\ g.nodes[nodes[i]].deps \subseteq Settled(g) /\ g.nodes[nodes[i]].st \notin Past
                                  /\ kids[i] \in Tasks \ P
      BY <2>3, <2>5, <2>6 DEF Past
    <2>9. \A i \in DOMAIN kids : kids[i] \in Y
      BY <2>6, <2>7
    <2>10. PICK h : h = bindDelegatedWorkGraphNodes(g, nodes, kids)
      OBVIOUS
    <2>11. \A i, k \in DOMAIN kids : kids[i] = kids[k] => i = k
      OBVIOUS
    <2>12. DOMAIN nodes = DOMAIN kids /\ g.cur = NoNode /\ P \subseteq Y
      BY <2>3, <2>7
    <2>13. Bindable(g, P, nodes, kids, Y)
      BY <2>8, <2>9, <2>11, <2>12 DEF Bindable
    <2>14. GraphTidy(h) /\ Waiting(h, Y) /\ h.cur = NoNode
      BY <2>4, <2>10, <2>13, TidyBound
    <2>15. b = [b1 EXCEPT !.graph = h]
      BY <1>5, <1>7, <1>9, <2>1, <2>10
    <2> QED BY <1>4, <1>9, <2>2, <2>14, <2>15, TidyGraph
  <1> QED BY <1>8, <1>9

\* The steps after a start delegate nothing.
LEMMA WorkFramesPlain ==
  ASSUME NEW p, NEW calls, NEW kids \in Seq(Tasks), NEW q, q = WorkFrames(p, calls, kids)
  PROVE  IsStack(q) /\ \A f \in ToSet(q) : f.op # "dispatch"
  <1>1. PICK n \in Nat : n = Len(kids)
    OBVIOUS
  <1>2. PICK a, c, d : /\ a = <<Then("settle", p)>> /\ c = [i \in DOMAIN kids |-> Then("send", kids[i])]
                       /\ d = IF calls = <<>> THEN <<>> ELSE <<Frame("launch", p, calls)>>
    OBVIOUS
  <1>3. IsStack(a) /\ \A f \in ToSet(a) : f.op # "dispatch"
    <2>1. IsStack(a) /\ ToSet(a) = {Then("settle", p)}
      BY <1>2, OneFrame DEF ToSet
    <2> QED BY <2>1 DEF Then, Frame
  <1>4. IsStack(c) /\ \A f \in ToSet(c) : f.op # "dispatch"
    <2>1. c = [i \in 1 .. n |-> c[i]] /\ DOMAIN c = 1 .. n /\ \A i \in 1 .. n : c[i].op = "send"
      BY <1>1, <1>2 DEF Then, Frame
    <2>2. IsStack(c)
      BY <2>1, StackIs
    <2> QED BY <2>1, <2>2 DEF ToSet
  <1>5. IsStack(d) /\ \A f \in ToSet(d) : f.op # "dispatch"
    <2>1. CASE calls = <<>>
      <3>1. d = <<>>
        BY <1>2, <2>1
      <3> QED BY <1>3, <3>1, SuffixNone
    <2>2. CASE calls # <<>>
      <3>1. d = <<Frame("launch", p, calls)>>
        BY <1>2, <2>2
      <3>2. IsStack(d) /\ ToSet(d) = {Frame("launch", p, calls)}
        BY <3>1, OneFrame DEF ToSet
      <3> QED BY <3>2 DEF Frame
    <2> QED BY <2>1, <2>2
  <1>6. PICK e : e = a \o c
    OBVIOUS
  <1>7. IsStack(e) /\ ToSet(e) = ToSet(a) \cup ToSet(c)
    BY <1>3, <1>4, <1>6, StackOn
  <1>8. q = e \o d
    BY <1>2, <1>6 DEF WorkFrames
  <1>9. IsStack(q) /\ ToSet(q) = ToSet(e) \cup ToSet(d)
    BY <1>5, <1>7, <1>8, StackOn
  <1> QED BY <1>3, <1>4, <1>5, <1>7, <1>9

\* startAsyncWork: the children are new, and eligible nodes wait for them.
LEMMA FineStart ==
  ASSUME NEW s, Fine(s), NEW j \in Jobs, NEW p \in Tasks, s.mem[p] # NoTask, NEW calls, NEW kids, NewKids(s, p, kids),
         ToSet(calls) \cap DOMAIN s.mem[p].works = {}, NEW asks, NEW nodes,
         nodes = <<>> \/ (Given(s.mem[p], kids, nodes) /\ Rests(s, p)),
         NEW r, r = startAsyncWork(s, j, p, calls, kids, asks, nodes)
  PROVE  Leads(s, r)
  <1>1. /\ kids \in Seq(Tasks) /\ \A i, k \in 1 .. Len(kids) : kids[i] = kids[k] => i = k
        /\ \A k \in ToSet(kids) : k \in Tasks /\ s.mem[k] = NoTask /\ k \notin DOMAIN s.mem[p].works
    BY DEF NewKids
  <1>2. PICK a, b : a = s.mem[p] /\ b = Extended(a, calls, kids, nodes)
    OBVIOUS
  <1>3. PICK q, X, K : q = WorkFrames(p, calls, kids) /\ X = ToSet(calls) \cup ToSet(kids) /\ K = ToSet(kids)
    OBVIOUS
  <1>4. PICK m : m = [t \in Tasks |->
                 IF t = p THEN b
                 ELSE IF t \in ToSet(kids)
                 THEN createAgent(delegate(p, asks[CHOOSE i \in DOMAIN kids : kids[i] = t]))
                 ELSE s.mem[t]]
    OBVIOUS
  <1>5. PICK po : po = IF kids = <<>> THEN s.pool ELSE commit(s.pool, p, ToSet(kids))
    OBVIOUS
  <1>6. PICK u : u = [s EXCEPT !.mem = m, !.pool = po]
    OBVIOUS
  <1>7. r = Push(u, j, q)
    BY <1>2, <1>3, <1>4, <1>5, <1>6 DEF startAsyncWork, Extended, WorkFrames
  <1>8. DOMAIN s = Fields /\ DOMAIN s.disk = Tasks /\ \A t \in Tasks : Tidy(s.mem[t]) /\ Tidy(s.disk[t])
    BY FineParts
  <1>9. DOMAIN u = Fields /\ u.mem = m /\ u.disk = s.disk /\ u.jobs = s.jobs
    BY <1>6, <1>8 DEF Fields
  <1>10. Tidy(b) /\ (Rests(s, p) \/ Heeds(a, b))
    <2>1. nodes = <<>> \/ Given(a, kids, nodes)
      BY <1>2
    <2>2. X \cap DOMAIN a.works = {} /\ a # NoTask /\ Tidy(a)
      BY <1>1, <1>2, <1>3, <1>8
    <2>3. Tidy(b) /\ (nodes = <<>> => Heeds(a, b))
      BY <1>1, <1>2, <1>3, <2>1, <2>2, TidyExtended
    <2> QED BY <2>3
  <1>11. /\ DOMAIN m = Tasks /\ m[p] = b /\ \A k \in Tasks : k = p \/ k \in K \/ m[k] = s.mem[k]
         /\ \A k \in K \ {p} : \E g : m[k] = createAgent(g)
    BY <1>1, <1>3, <1>4
  <1>12. ASSUME NEW t \in Tasks
         PROVE  Tidy(u.mem[t]) /\ Tidy(u.disk[t]) /\ (Rests(s, t) \/ Heeds(s.mem[t], u.mem[t]))
    <2>1. CASE t = p
      BY <1>2, <1>8, <1>9, <1>10, <1>11, <2>1
    <2>2. CASE t \in K \ {p}
      <3>1. PICK g : m[t] = createAgent(g)
        BY <1>11, <2>2
      <3>2. Tidy(m[t])
        BY <3>1, TidyNew
      <3>3. s.mem[t] = NoTask
        BY <1>1, <1>3, <2>2
      <3>4. Heeds(s.mem[t], m[t])
        BY <3>3 DEF Heeds, Eligible
      <3> QED BY <1>8, <1>9, <3>2, <3>4
    <2>3. CASE t \notin K \cup {p}
      <3>1. u.mem[t] = s.mem[t]
        BY <1>9, <1>11, <2>3
      <3> QED BY <1>8, <1>9, <3>1 DEF Heeds
    <2> QED BY <2>1, <2>2, <2>3
  <1>13. Leads(s, u) /\ Fine(u)
    <2>1. DOMAIN u.mem = Tasks /\ DOMAIN u.disk = Tasks
      BY <1>8, <1>9, <1>11
    <2>2. Leads(s, u)
      BY <1>9, <1>12, <2>1, FineMem
    <2> QED BY <2>2 DEF Leads
  <1>14. IsStack(q) /\ \A f \in ToSet(q) : f.op # "dispatch"
    BY <1>1, <1>3, WorkFramesPlain
  <1>15. Leads(u, r)
    BY <1>7, <1>13, <1>14, FinePush
  <1> QED BY <1>13, <1>15, LeadsOn

-----------------------------------------------------------------------------
(* Steps of the functions under way *)

LEMMA FineEnds ==
  ASSUME NEW s, NEW r, Leads(s, r), Do(r)
  PROVE  Fine(S')
  BY FineDone DEF Leads

LEMMA FinePushOne ==
  ASSUME NEW s, Fine(s), NEW j \in Jobs, NEW f, f.op # "dispatch", NEW r, r = Push(s, j, <<f>>)
  PROVE  Leads(s, r) /\ r.mem = s.mem /\ r.wake = s.wake
  <1>1. PICK p : p = <<f>>
    OBVIOUS
  <1>2. IsStack(p) /\ ToSet(p) = {f}
    BY <1>1, OneFrame DEF ToSet
  <1>3. r = Push(s, j, p) /\ \A g \in ToSet(p) : g.op # "dispatch"
    BY <1>1, <1>2
  <1> QED BY <1>2, <1>3, FinePush

LEMMA FinePushTwo ==
  ASSUME NEW s, Fine(s), NEW j \in Jobs, NEW f, NEW g, f.op # "dispatch", g.op # "dispatch", NEW r, r = Push(s, j, <<f, g>>)
  PROVE  Leads(s, r) /\ r.mem = s.mem
  <1>1. PICK p : p = <<f, g>>
    OBVIOUS
  <1>2. IsStack(p) /\ ToSet(p) = {f, g}
    BY <1>1, TwoFrames DEF ToSet
  <1>3. r = Push(s, j, p) /\ \A h \in ToSet(p) : h.op # "dispatch"
    BY <1>1, <1>2
  <1> QED BY <1>2, <1>3, FinePush

LEMMA FinePutPush ==
  ASSUME NEW s, Fine(s), NEW j \in Jobs, NEW t \in Tasks, NEW b, Tidy(b), Heeds(s.mem[t], b),
         NEW f, f.op # "dispatch", NEW r, r = Push(Put(s, t, b), j, <<f>>)
  PROVE  Leads(s, r)
  <1>1. PICK u : u = Put(s, t, b)
    OBVIOUS
  <1>2. Leads(s, u) /\ Fine(u)
    <2>1. Leads(s, u)
      BY <1>1, FinePut
    <2> QED BY <2>1 DEF Leads
  <1>3. r = Push(u, j, <<f>>)
    BY <1>1
  <1>4. Leads(u, r)
    BY <1>2, <1>3, FinePushOne
  <1> QED BY <1>2, <1>4, LeadsOn

LEMMA FinePutPersist ==
  ASSUME NEW s, Fine(s), NEW t \in Tasks, NEW b, Tidy(b), Rests(s, t) \/ Heeds(s.mem[t], b), NEW r, r = Persist(Put(s, t, b), t)
  PROVE  Leads(s, r) /\ Fine(r) /\ r.jobs = s.jobs /\ r.mem[t] = b /\ \A k \in Tasks : k # t => r.mem[k] = s.mem[k]
  <1>1. PICK u : u = Put(s, t, b)
    OBVIOUS
  <1>2. Leads(s, u) /\ Fine(u) /\ u.jobs = s.jobs /\ u.mem[t] = b /\ \A k \in Tasks : k # t => u.mem[k] = s.mem[k]
    <2>1. Leads(s, u) /\ u.jobs = s.jobs /\ u.mem[t] = b /\ \A k \in Tasks : k # t => u.mem[k] = s.mem[k]
      BY <1>1, FinePut
    <2> QED BY <2>1 DEF Leads
  <1>3. r = Persist(u, t)
    BY <1>1
  <1>4. Leads(u, r) /\ r.mem = u.mem /\ r.jobs = u.jobs
    BY <1>2, <1>3, FinePersist
  <1>5. Leads(s, r) /\ Fine(r)
    <2>1. Leads(s, r)
      BY <1>2, <1>4, LeadsOn
    <2> QED BY <2>1 DEF Leads
  <1> QED BY <1>2, <1>4, <1>5

\* CancelChildren.
LEMMA CancelChildrenFine ==
  ASSUME IInv, Fine(S), NEW j \in Jobs, CancelChildren(j)
  PROVE  Fine(S')
  <1>1. PICK f, s : f = jobs[j][1] /\ s = Pop(S, j)
    OBVIOUS
  <1>2. jobs[j] # <<>> /\ f.op = "cancel"
    BY <1>1 DEF CancelChildren, At
  <1>3. FineTaken(s, j, f)
    BY <1>1, <1>2, FineTake
  <1>4. Fine(s) /\ s.mem = mem /\ \A k \in ToSet(f.x) : k \in Tasks
    BY <1>2, <1>3 DEF FineTaken, FrameKnown
  <1>5. PICK live : live = {k \in ToSet(f.x) : Live(mem[k])}
    OBVIOUS
  <1>6. CASE live = {}
    <2>1. Do(s)
      BY <1>1, <1>5, <1>6 DEF CancelChildren
    <2> QED BY <1>4, <2>1, FineDone
  <1>7. CASE live # {}
    <2>1. PICK k \in live :
            Do(terminateTask(Push(s, j, <<Frame("cancel", f.t, SetToSeq(live \ {k}))>>), j, k, "cancelled"))
      BY <1>1, <1>5, <1>7 DEF CancelChildren
    <2>2. PICK g, u, kind : g = Frame("cancel", f.t, SetToSeq(live \ {k})) /\ u = Push(s, j, <<g>>) /\ kind = "cancelled"
      OBVIOUS
    <2>3. g.op # "dispatch"
      BY <2>2 DEF Frame
    <2>4. Leads(s, u) /\ u.mem = s.mem
      BY <1>4, <2>2, <2>3, FinePushOne
    <2>5. Fine(u) /\ k \in Tasks /\ u.mem[k] # NoTask
      <3>1. k \in Tasks /\ Live(mem[k])
        BY <1>4, <1>5
      <3>2. mem[k] # NoTask
        BY <3>1 DEF Live, NoTask
      <3> QED BY <1>4, <2>4, <3>1, <3>2 DEF Leads
    <2>6. PICK r : r = terminateTask(u, j, k, kind)
      OBVIOUS
    <2>7. Leads(u, r)
      BY <2>5, <2>6, FineTerminate
    <2> QED BY <2>1, <2>2, <2>6, <2>7, FineEnds
  <1> QED BY <1>6, <1>7

\* NotifyParent.
LEMMA NotifyParentFine ==
  ASSUME IInv, Fine(S), NEW j \in Jobs, NotifyParent(j)
  PROVE  Fine(S')
  <1>1. PICK f, s : f = jobs[j][1] /\ s = Pop(S, j)
    OBVIOUS
  <1>2. jobs[j] # <<>> /\ f.op = "notify"
    BY <1>1 DEF NotifyParent, At
  <1>3. FineTaken(s, j, f)
    BY <1>1, <1>2, FineTake
  <1>4. Fine(s) /\ s.mem = mem /\ f.t \in Tasks
    BY <1>2, <1>3 DEF FineTaken, FrameKnown
  <1>5. PICK p, k, kind : p = Parent[f.t] /\ k = f.t /\ kind = f.x[1]
    OBVIOUS
  <1>6. PICK b : b = [completeSubagentWork(mem[p], k, kind) EXCEPT !.graph = completeDelegatedWorkGraphNode(@, k, kind)]
    BY ZenonT(30)
  <1>7. PICK g : g = Then("progress", p)
    OBVIOUS
  <1>8. PICK r : r = Push(Put(s, p, b), j, <<g>>)
    OBVIOUS
  <1>9. Do(s) \/ (p # Orphan /\ Live(mem[p]) /\ Do(r))
    BY <1>1, <1>5, <1>6, <1>7, <1>8, ZenonT(30) DEF NotifyParent
  <1>10. CASE Do(s)
    BY <1>4, <1>10, FineDone
  <1>11. CASE p # Orphan /\ Live(mem[p]) /\ Do(r)
    <2>1. p \in Tasks /\ mem[p] # NoTask
      BY <1>4, <1>5, <1>11, TaskAssumption DEF Live, NoTask
    <2>2. Tidy(s.mem[p]) /\ s.mem[p] = mem[p]
      BY <1>4, <2>1, FineParts
    <2>3. Tidy(b) /\ Heeds(s.mem[p], b)
      BY <1>4, <1>5, <1>6, <2>1, <2>2, TidyChild
    <2>4. g.op # "dispatch"
      BY <1>7 DEF Then, Frame
    <2>5. Leads(s, r)
      BY <1>4, <1>8, <2>1, <2>3, <2>4, FinePutPush
    <2> QED BY <1>11, <2>5, FineEnds
  <1> QED BY <1>9, <1>10, <1>11

\* The batch window of a task is opened.
LEMMA FineWindow ==
  ASSUME NEW s, Fine(s), NEW p \in Tasks, s.mem[p] # NoTask, NEW r, r = [s EXCEPT !.timers = @ \cup {p}, !.mem[p].due = TRUE]
  PROVE  Leads(s, r) /\ Fine(r)
  <1>1. PICK b : b = [s.mem[p] EXCEPT !.due = TRUE]
    OBVIOUS
  <1>2. PICK m : m = [s.mem EXCEPT ![p] = b]
    OBVIOUS
  <1>3. /\ DOMAIN s = Fields /\ DOMAIN s.mem = Tasks /\ DOMAIN s.disk = Tasks
        /\ \A t \in Tasks : Tidy(s.mem[t]) /\ Tidy(s.disk[t])
    BY FineParts
  <1>4. DOMAIN r = Fields /\ r.mem = m /\ r.disk = s.disk /\ r.jobs = s.jobs
    BY <1>1, <1>2, <1>3 DEF Fields
  <1>5. DOMAIN m = Tasks /\ m[p] = b /\ \A k \in Tasks : k # p => m[k] = s.mem[k]
    BY <1>2, <1>3
  <1>6. Tidy(b) /\ Heeds(s.mem[p], b)
    <2>1. Tidy(s.mem[p])
      BY <1>3
    <2> QED BY <1>1, <2>1, TidyWrites
  <1>7. \A k \in Tasks : Tidy(r.mem[k]) /\ Tidy(r.disk[k]) /\ (Rests(s, k) \/ Heeds(s.mem[k], r.mem[k]))
    <2>1. ASSUME NEW k \in Tasks, k # p PROVE Heeds(s.mem[k], m[k])
      BY <1>5, <2>1 DEF Heeds
    <2> QED BY <1>3, <1>4, <1>5, <1>6, <2>1
  <1>8. DOMAIN r.mem = Tasks /\ DOMAIN r.disk = Tasks
    BY <1>3, <1>4, <1>5
  <1>9. Leads(s, r)
    BY <1>4, <1>7, <1>8, FineMem
  <1> QED BY <1>9 DEF Leads

\* AsyncWorkProgress.
LEMMA AsyncWorkProgressFine ==
  ASSUME IInv, Fine(S), NEW j \in Jobs, AsyncWorkProgress(j)
  PROVE  Fine(S')
  <1>1. PICK f, s, p : f = jobs[j][1] /\ s = Pop(S, j) /\ p = jobs[j][1].t
    OBVIOUS
  <1>2. jobs[j] # <<>> /\ f.op = "progress"
    BY <1>1 DEF AsyncWorkProgress, At
  <1>3. FineTaken(s, j, f)
    BY <1>1, <1>2, FineTake
  <1>4. Fine(s) /\ s.mem = mem /\ p \in Tasks /\ mem[p] # NoTask
    BY <1>1, <1>2, <1>3 DEF FineTaken, Nameless, Sends
  <1>5. PICK s1, s2, s3, r1, r2, u, r3, g, h :
          /\ s1 = [s EXCEPT !.wake = @ \cup {p}] /\ s2 = CancelTimer(s1, p) /\ s3 = Persist(s2, p)
          /\ g = Then("deliver", p) /\ h = Then("unlock", p) /\ r1 = Push(s3, j, <<g, h>>)
          /\ r2 = Persist(s, p) /\ u = [s EXCEPT !.timers = @ \cup {p}, !.mem[p].due = TRUE] /\ r3 = Persist(u, p)
    OBVIOUS
  <1>6. \E r \in {s, r1, r2, r3} : Do(r)
    BY <1>1, <1>5 DEF AsyncWorkProgress
  <1>7. Leads(s, r1)
    <2>1. DOMAIN s = Fields
      BY <1>4, FineParts
    <2>2. DOMAIN s1 = Fields /\ s1.mem = s.mem /\ s1.disk = s.disk /\ s1.jobs = s.jobs
      BY <1>5, <2>1 DEF Fields
    <2>3. Leads(s, s1) /\ Fine(s1) /\ s1.mem[p] # NoTask
      <3>1. Leads(s, s1)
        BY <1>4, <2>2, FineRest
      <3> QED BY <1>4, <2>2, <3>1 DEF Leads
    <2>4. Leads(s1, s2) /\ Fine(s2)
      <3>1. Leads(s1, s2)
        BY <1>4, <1>5, <2>3, FineCancelTimer
      <3> QED BY <3>1 DEF Leads
    <2>5. Leads(s2, s3) /\ Fine(s3)
      <3>1. Leads(s2, s3)
        BY <1>4, <1>5, <2>4, FinePersist
      <3> QED BY <3>1 DEF Leads
    <2>6. g.op # "dispatch" /\ h.op # "dispatch"
      BY <1>5 DEF Then, Frame
    <2>7. Leads(s3, r1)
      BY <1>5, <2>5, <2>6, FinePushTwo
    <2> QED BY <2>3, <2>4, <2>5, <2>7, LeadsOn
  <1>8. Leads(s, r2)
    BY <1>4, <1>5, FinePersist
  <1>9. Leads(s, r3)
    <2>1. Leads(s, u) /\ Fine(u)
      BY <1>4, <1>5, FineWindow
    <2>2. Leads(u, r3)
      BY <1>4, <1>5, <2>1, FinePersist
    <2> QED BY <2>1, <2>2, LeadsOn
  <1> QED BY <1>4, <1>6, <1>7, <1>8, <1>9, FineDone, FineEnds

\* DeliverWhenIdle.
LEMMA DeliverWhenIdleFine ==
  ASSUME IInv, Fine(S), NEW j \in Jobs, NEW fit \in Fits, DeliverWhenIdle(j, fit)
  PROVE  Fine(S')
  <1>1. PICK f, s, p : f = jobs[j][1] /\ s = Pop(S, j) /\ p = jobs[j][1].t
    OBVIOUS
  <1>2. jobs[j] # <<>> /\ f.op = "deliver"
    BY <1>1 DEF DeliverWhenIdle, At
  <1>3. FineTaken(s, j, f)
    BY <1>1, <1>2, FineTake
  <1>4. Fine(s) /\ s.mem = mem /\ p \in Tasks /\ mem[p] # NoTask
    BY <1>1, <1>2, <1>3 DEF FineTaken, Nameless, Sends
  <1>5. PICK r : r = deliverAsyncWorkUpdate(s, j, p, fit)
    OBVIOUS
  <1>6. Do(s) \/ Do(r)
    BY <1>1, <1>5 DEF DeliverWhenIdle
  <1>7. Leads(s, r)
    BY <1>4, <1>5, FineDeliver
  <1> QED BY <1>4, <1>6, <1>7, FineDone, FineEnds

\* TimerFires.
LEMMA TimerFiresFine ==
  ASSUME IInv, Fine(S), NEW t \in Tasks, NEW fit \in Fits, TimerFires(t, fit)
  PROVE  Fine(S')
  <1>1. PICK u : u = S
    OBVIOUS
  <1>2. u.mem = mem /\ u.timers = timers /\ Fine(u) /\ phase # "down" /\ t \in timers
    BY <1>1, SFacts DEF TimerFires
  <1>3. mem[t] # NoTask
    <2>1. Inv(S, phase, {})
      BY <1>2 DEF IInv, Down
    <2> QED BY <1>2, <2>1, SFacts DEF Inv, ListsKnown, Known
  <1>4. PICK j, c, s : j = <<"timer", t>> /\ c = CancelTimer(u, t) /\ s = [c EXCEPT !.wake = @ \cup {t}]
    OBVIOUS
  <1>5. PICK g, v, r1, r2 : /\ g = Then("unlock", t) /\ v = Push(s, j, <<g>>) /\ r1 = Persist(s, t)
                            /\ r2 = deliverAsyncWorkUpdate(v, j, t, fit)
    OBVIOUS
  <1>6. Do(r1) \/ Do(r2)
    BY <1>1, <1>4, <1>5 DEF TimerFires
  <1>7. j \in Jobs
    BY <1>4, JobFacts
  <1>8. Fine(c) /\ c.mem[t] # NoTask
    <2>1. Leads(u, c) /\ c.mem[t] # NoTask
      BY <1>2, <1>3, <1>4, FineCancelTimer
    <2> QED BY <2>1 DEF Leads
  <1>9. Fine(s) /\ s.mem[t] # NoTask
    <2>1. DOMAIN c = Fields
      BY <1>8, FineParts
    <2>2. DOMAIN s = Fields /\ s.mem = c.mem /\ s.disk = c.disk /\ s.jobs = c.jobs
      BY <1>4, <2>1 DEF Fields
    <2>3. Leads(c, s)
      BY <1>8, <2>2, FineRest
    <2> QED BY <1>8, <2>2, <2>3 DEF Leads
  <1>10. Leads(s, r1)
    BY <1>5, <1>9, FinePersist
  <1>11. Fine(v) /\ v.mem = s.mem
    <2>1. g.op # "dispatch"
      BY <1>5 DEF Then, Frame
    <2>2. Leads(s, v) /\ v.mem = s.mem
      BY <1>5, <1>7, <1>9, <2>1, FinePushOne
    <2> QED BY <2>2 DEF Leads
  <1>12. Leads(v, r2)
    <2>1. v.mem[t] # NoTask
      BY <1>9, <1>11
    <2> QED BY <1>5, <1>7, <1>11, <2>1, FineDeliver
  <1> QED BY <1>6, <1>10, <1>12, FineEnds

\* Results are claimed, and the task is queued with them.
LEMMA FineClaims ==
  ASSUME NEW s, Fine(s), NEW j \in Jobs, NEW p \in Tasks, s.mem[p] # NoTask, NEW fit \in Fits,
         NEW c, c = claimAsyncWorkUpdate(s.mem[p]), NEW r, r = Requeue(CancelTimer(s, p), j, p, c, fit)
  PROVE  Leads(s, r)
  <1>1. PICK u : u = CancelTimer(s, p)
    OBVIOUS
  <1>2. Leads(s, u) /\ Fine(u) /\ u.mem[p] # NoTask
    <2>1. Leads(s, u) /\ u.mem[p] # NoTask
      BY <1>1, FineCancelTimer
    <2> QED BY <2>1 DEF Leads
  <1>3. DOMAIN s = Fields /\ DOMAIN s.mem = Tasks /\ Tidy(s.mem[p])
    BY FineParts
  <1>4. DOMAIN s.mem[p] = BlockFields
    BY <1>3, TidyFacts
  <1>5. Tidy(c) /\ c # NoTask
    BY <1>3, TidyClaimed
  <1>6. c.graph = s.mem[p].graph
    BY <1>4 DEF claimAsyncWorkUpdate, appendContext, BlockFields
  <1>7. u.mem[p].graph = s.mem[p].graph
    <2>1. PICK d, m : d = [s.mem[p] EXCEPT !.due = FALSE] /\ m = [s.mem EXCEPT ![p] = d]
      OBVIOUS
    <2>2. u.mem = m
      BY <1>1, <1>3, <2>1 DEF CancelTimer, Fields
    <2>3. d.graph = s.mem[p].graph
      BY <1>4, <2>1 DEF BlockFields
    <2> QED BY <1>3, <2>1, <2>2, <2>3
  <1>8. Heeds(u.mem[p], c)
    BY <1>5, <1>6, <1>7, EligibleGraph
  <1>9. r = Requeue(u, j, p, c, fit)
    BY <1>1
  <1>10. Leads(u, r)
    BY <1>2, <1>5, <1>8, <1>9, FineRequeue
  <1> QED BY <1>2, <1>10, LeadsOn

\* Settle.
LEMMA SettleFine ==
  ASSUME IInv, Fine(S), NEW j \in Jobs, NEW fit \in Fits, Settle(j, fit)
  PROVE  Fine(S')
  <1>1. PICK f, s, p : f = jobs[j][1] /\ s = Pop(S, j) /\ p = jobs[j][1].t
    OBVIOUS
  <1>2. jobs[j] # <<>> /\ f.op = "settle"
    BY <1>1 DEF Settle, At
  <1>3. FineTaken(s, j, f)
    BY <1>1, <1>2, FineTake
  <1>4. Fine(s) /\ s.mem = mem /\ p \in Tasks /\ mem[p] # NoTask
    BY <1>1, <1>2, <1>3 DEF FineTaken, Nameless, Sends
  <1>5. PICK g, held, h, c, b :
          /\ g = Then("unlock", p) /\ held = Push(s, j, <<g>>) /\ h = [held EXCEPT !.wake = @ \ {p}]
          /\ c = claimAsyncWorkUpdate(mem[p]) /\ b = transition(mem[p], "BLOCKED", "work")
    OBVIOUS
  <1>6. PICK r1, r2, r3 : /\ r1 = Requeue(CancelTimer(h, p), j, p, c, fit) /\ r2 = Throw(s, j, fit)
                          /\ r3 = Persist(Put(s, p, b), p)
    OBVIOUS
  <1>7. \E r \in {s, r1, r2, r3} : Do(r)
    BY <1>1, <1>5, <1>6 DEF Settle
  <1>8. Leads(s, held) /\ Fine(held) /\ held.mem = s.mem
    <2>1. g.op # "dispatch"
      BY <1>5 DEF Then, Frame
    <2>2. Leads(s, held) /\ held.mem = s.mem
      BY <1>4, <1>5, <2>1, FinePushOne
    <2> QED BY <2>2 DEF Leads
  <1>9. Leads(held, h) /\ Fine(h) /\ h.mem = held.mem
    <2>1. DOMAIN held = Fields
      BY <1>8, FineParts
    <2>2. DOMAIN h = Fields /\ h.mem = held.mem /\ h.disk = held.disk /\ h.jobs = held.jobs
      BY <1>5, <2>1 DEF Fields
    <2>3. Leads(held, h)
      BY <1>8, <2>2, FineRest
    <2> QED BY <2>2, <2>3 DEF Leads
  <1>10. Leads(s, r1)
    <2>1. h.mem[p] # NoTask /\ c = claimAsyncWorkUpdate(h.mem[p])
      BY <1>4, <1>5, <1>8, <1>9
    <2>2. Leads(h, r1)
      BY <1>4, <1>6, <1>9, <2>1, FineClaims
    <2> QED BY <1>8, <1>9, <2>2, LeadsOn
  <1>11. Leads(s, r2)
    <2>1. j[1] = "turn" => s.mem[j[2]] # NoTask
      BY <1>1, <1>2, <1>4, TurnStays
    <2> QED BY <1>4, <1>6, <2>1, FineThrow
  <1>12. Leads(s, r3)
    <2>1. Tidy(s.mem[p])
      BY <1>4, FineParts
    <2>2. PICK st, why : st = "BLOCKED" /\ why = "work"
      OBVIOUS
    <2>3. b = transition(s.mem[p], st, why) /\ st \in {"READY", "RUNNING", "BLOCKED", "TERMINATED"}
      BY <1>4, <1>5, <2>2
    <2>4. Tidy(b) /\ Heeds(s.mem[p], b)
      BY <1>4, <2>1, <2>3, TidyTransition
    <2> QED BY <1>4, <1>6, <2>4, FinePutPersist
  <1> QED BY <1>4, <1>7, <1>10, <1>11, <1>12, FineDone, FineEnds

\* A frame goes under a stack: a call is launched again behind what is left of an earlier one.
LEMMA StackAppend ==
  ASSUME NEW q, IsStack(q), NEW f, NEW r, r = Append(q, f)
  PROVE  IsStack(r) /\ ToSet(r) = ToSet(q) \cup {f}
  <1>1. PICK p : p = <<f>>
    OBVIOUS
  <1>2. r = q \o p
    BY <1>1 DEF IsStack
  <1>3. IsStack(p) /\ ToSet(p) = {f}
    BY <1>1, OneFrame DEF ToSet
  <1>4. IsStack(q \o p) /\ ToSet(q \o p) = ToSet(q) \cup ToSet(p)
    BY <1>3, StackOn
  <1> QED BY <1>2, <1>3, <1>4

\* Tool calls are launched.
LEMMA FineLaunch ==
  ASSUME NEW s, Fine(s), NEW t, NEW calls, NEW r, r = Launch(s, t, calls)
  PROVE  Leads(s, r)
  <1>1. PICK at : at = [j \in Jobs |-> CHOOSE i \in DOMAIN calls : j = <<"call", calls[i]>>]
    OBVIOUS
  <1>2. PICK f : f = [j \in Jobs |-> Frame("start", t, SetToSeq(Earlier(calls, at[j])))]
    OBVIOUS
  <1>3. PICK js : js = [j \in Jobs |-> IF \E i \in DOMAIN calls : j = <<"call", calls[i]>>
                                       THEN Append(s.jobs[j], f[j]) ELSE s.jobs[j]]
    OBVIOUS
  <1>4. r = [s EXCEPT !.jobs = js]
    <2>1. \A j \in Jobs : f[j] = Frame("start", t, SetToSeq(Earlier(calls, CHOOSE i \in DOMAIN calls : j = <<"call", calls[i]>>)))
      BY <1>1, <1>2
    <2>2. js = [j \in Jobs |->
                  IF \E i \in DOMAIN calls : j = <<"call", calls[i]>>
                  THEN LET i == CHOOSE i \in DOMAIN calls : j = <<"call", calls[i]>>
                       IN  Append(s.jobs[j], Frame("start", t, SetToSeq(Earlier(calls, i))))
                  ELSE s.jobs[j]]
      BY <1>3, <2>1
    <2> QED BY <2>2 DEF Launch
  <1>5. DOMAIN s = Fields /\ DOMAIN s.jobs = Jobs /\ \A j \in Jobs : IsStack(s.jobs[j])
    BY FineParts
  <1>6. DOMAIN r = Fields /\ r.mem = s.mem /\ r.disk = s.disk /\ r.jobs = js
    BY <1>4, <1>5 DEF Fields
  <1>7. DOMAIN r.jobs = Jobs /\ \A j \in Jobs : r.jobs[j] = s.jobs[j] \/ r.jobs[j] = Append(s.jobs[j], f[j])
    BY <1>3, <1>6
  <1>8. \A j \in Jobs : f[j].op # "dispatch"
    BY <1>2 DEF Frame
  <1>9. ASSUME NEW j \in Jobs
        PROVE  IsStack(r.jobs[j]) /\ \A g \in ToSet(r.jobs[j]) : g \in ToSet(s.jobs[j]) \/ g.op # "dispatch"
    <2>1. CASE r.jobs[j] = s.jobs[j]
      BY <1>5, <2>1
    <2>2. CASE r.jobs[j] = Append(s.jobs[j], f[j])
      <3>1. IsStack(r.jobs[j]) /\ ToSet(r.jobs[j]) = ToSet(s.jobs[j]) \cup {f[j]}
        BY <1>5, <2>2, StackAppend
      <3> QED BY <1>8, <3>1
    <2> QED BY <1>7, <2>1, <2>2
  <1>10. \A j \in Jobs : IsStack(r.jobs[j])
    BY <1>9
  <1>11. \A j \in Jobs : \A g \in Held(r, j) : g \in Held(s, j) \/ g.op # "dispatch"
    BY <1>9 DEF Held
  <1> QED BY <1>6, <1>7, <1>10, <1>11, FineJobs

\* LaunchCalls.
LEMMA LaunchCallsFine ==
  ASSUME IInv, Fine(S), NEW j \in Jobs, LaunchCalls(j)
  PROVE  Fine(S')
  <1>1. PICK f, s : f = jobs[j][1] /\ s = Pop(S, j)
    OBVIOUS
  <1>2. jobs[j] # <<>> /\ f.op = "launch"
    BY <1>1 DEF LaunchCalls, At
  <1>3. Fine(s)
    BY <1>1, <1>2, FineTake DEF FineTaken
  <1>4. PICK t, calls, r : t = f.t /\ calls = f.x /\ r = Launch(s, t, calls)
    OBVIOUS
  <1>5. Do(r)
    BY <1>1, <1>4 DEF LaunchCalls
  <1>6. Leads(s, r)
    BY <1>3, <1>4, FineLaunch
  <1> QED BY <1>5, <1>6, FineEnds

\* A call ends.
LEMMA FineCall ==
  ASSUME NEW s, Fine(s), NEW j \in Jobs, NEW t \in Tasks, s.mem[t] # NoTask, NEW c \in Calls, NEW st,
         NEW r, r = Push(Put(s, t, completeAsyncWork(s.mem[t], c, st)), j, <<Then("progress", t)>>)
  PROVE  Leads(s, r)
  <1>1. PICK a, b, f, X : a = s.mem[t] /\ b = completeAsyncWork(a, c, st) /\ f = Then("progress", t) /\ X = {c}
    OBVIOUS
  <1>2. Tidy(a) /\ a # NoTask
    BY <1>1, FineParts
  <1>3. DOMAIN a = BlockFields /\ WorksTidy(a)
    BY <1>2, TidyFacts
  <1>4. Ending(a, b, X) /\ b.graph = a.graph
    BY <1>1, <1>3, EndingWork
  <1>5. X \subseteq Calls
    BY <1>1
  <1>6. Tidy(b) /\ Heeds(a, b)
    BY <1>2, <1>4, <1>5, TidyCalls
  <1>7. f.op # "dispatch"
    BY <1>1 DEF Then, Frame
  <1> QED BY <1>1, <1>6, <1>7, FinePutPush

\* EndCall.
LEMMA EndCallFine ==
  ASSUME IInv, Fine(S), NEW c \in Calls, EndCall(c)
  PROVE  Fine(S')
  <1>1. PICK j, f, s, t : j = <<"call", c>> /\ f = jobs[j][1] /\ s = Pop(S, j) /\ t = jobs[j][1].t
    OBVIOUS
  <1>2. j \in Jobs /\ jobs[j] # <<>> /\ f.op = "exec"
    BY <1>1, JobFacts DEF EndCall, At
  <1>3. FineTaken(s, j, f)
    BY <1>1, <1>2, FineTake
  <1>4. Fine(s) /\ s.mem = mem /\ t \in Tasks /\ mem[t] # NoTask
    BY <1>1, <1>2, <1>3 DEF FineTaken, Nameless, Sends
  <1>5. Do(s) \/ \E st : Do(Push(Put(s, t, completeAsyncWork(mem[t], c, st)), j, <<Then("progress", t)>>))
    BY <1>1 DEF EndCall
  <1>6. ASSUME NEW st, Do(Push(Put(s, t, completeAsyncWork(mem[t], c, st)), j, <<Then("progress", t)>>))
        PROVE  Fine(S')
    <2>1. PICK r : r = Push(Put(s, t, completeAsyncWork(s.mem[t], c, st)), j, <<Then("progress", t)>>)
      OBVIOUS
    <2>2. Do(r) /\ s.mem[t] # NoTask
      BY <1>4, <1>6, <2>1
    <2>3. Leads(s, r)
      BY <1>2, <1>4, <2>1, <2>2, FineCall
    <2> QED BY <2>2, <2>3, FineEnds
  <1> QED BY <1>4, <1>5, <1>6, FineDone

\* StartCall.
LEMMA StartCallFine ==
  ASSUME IInv, Fine(S), NEW c \in Calls, StartCall(c)
  PROVE  Fine(S')
  <1>1. PICK j, f, s, t : j = <<"call", c>> /\ f = jobs[j][1] /\ s = Pop(S, j) /\ t = jobs[j][1].t
    OBVIOUS
  <1>2. j \in Jobs /\ jobs[j] # <<>> /\ f.op = "start"
    BY <1>1, JobFacts DEF StartCall, At
  <1>3. FineTaken(s, j, f)
    BY <1>1, <1>2, FineTake
  <1>4. Fine(s) /\ s.mem = mem /\ t \in Tasks /\ mem[t] # NoTask
    BY <1>1, <1>2, <1>3 DEF FineTaken, Nameless, Sends
  <1>5. PICK e, at, op : e = [s EXCEPT !.ran = @ \cup {c}] /\ at = Used(mem[t].grants, Needs[c], c) /\ op = c
    OBVIOUS
  <1>6. PICK b, u, r1, r2 :
          /\ b = consumeCapabilityGrant(mem[t], at, op) /\ u = Persist(Put(e, t, b), t)
          /\ r1 = Push(u, j, <<Then("exec", t)>>)
          /\ r2 = Push(Put(s, t, completeAsyncWork(mem[t], c, "failed")), j, <<Then("progress", t)>>)
    OBVIOUS
  <1>7. Do(s) \/ Do(r1) \/ Do(r2)
    BY <1>1, <1>5, <1>6 DEF StartCall
  <1>8. Leads(s, r2)
    <2>1. PICK st : st = "failed"
      OBVIOUS
    <2>2. r2 = Push(Put(s, t, completeAsyncWork(s.mem[t], c, st)), j, <<Then("progress", t)>>) /\ s.mem[t] # NoTask
      BY <1>4, <1>6, <2>1
    <2> QED BY <1>2, <1>4, <2>2, FineCall
  <1>9. Fine(e) /\ Leads(s, e) /\ e.mem = mem
    <2>1. DOMAIN s = Fields
      BY <1>4, FineParts
    <2>2. DOMAIN e = Fields /\ e.mem = s.mem /\ e.disk = s.disk /\ e.jobs = s.jobs
      BY <1>5, <2>1 DEF Fields
    <2>3. Leads(s, e)
      BY <1>4, <2>2, FineRest
    <2> QED BY <1>4, <2>2, <2>3 DEF Leads
  <1>10. Leads(s, r1)
    <2>1. Tidy(mem[t])
      BY <1>4, FineParts
    <2>2. Tidy(b) /\ Heeds(e.mem[t], b)
      BY <1>4, <1>6, <1>9, <2>1, TidyWrites
    <2>3. Leads(e, u) /\ Fine(u)
      BY <1>4, <1>6, <1>9, <2>2, FinePutPersist
    <2>4. PICK g : g = Then("exec", t)
      OBVIOUS
    <2>5. g.op # "dispatch" /\ r1 = Push(u, j, <<g>>)
      BY <1>6, <2>4 DEF Then, Frame
    <2>6. Leads(u, r1)
      BY <1>2, <2>3, <2>5, FinePushOne
    <2> QED BY <1>9, <2>3, <2>6, LeadsOn
  <1> QED BY <1>4, <1>7, <1>8, <1>10, FineDone, FineEnds

\* SendChild.
LEMMA SendChildFine ==
  ASSUME IInv, Fine(S), NEW j \in Jobs, SendChild(j)
  PROVE  Fine(S')
  <1>1. PICK f, s, k : f = jobs[j][1] /\ s = Pop(S, j) /\ k = jobs[j][1].t
    OBVIOUS
  <1>2. jobs[j] # <<>> /\ f.op = "send"
    BY <1>1 DEF SendChild, At
  <1>3. FineTaken(s, j, f)
    BY <1>1, <1>2, FineTake
  <1>4. Fine(s) /\ k \in Tasks
    BY <1>1, <1>2, <1>3 DEF FineTaken, Sends
  <1>5. PICK g, u, r : g = Then("enqueue", k) /\ u = Persist(s, k) /\ r = Push(u, j, <<g>>)
    OBVIOUS
  <1>6. Do(r)
    BY <1>1, <1>5 DEF SendChild
  <1>7. Fine(u)
    BY <1>4, <1>5, FinePersist DEF Leads
  <1>8. g.op # "dispatch"
    BY <1>5 DEF Then, Frame
  <1>9. Leads(u, r)
    BY <1>5, <1>7, <1>8, FinePushOne
  <1> QED BY <1>6, <1>9, FineEnds

\* The creation of a child is given up, and its work fails at the parent.
LEMMA FineSendFails ==
  ASSUME IInv, Fine(S), NEW j \in Jobs, jobs[j] # <<>>, jobs[j][1].op \in Sends, NEW k, k = jobs[j][1].t,
         NEW fit \in Fits, NEW r, r = SendFailed(j, k, fit)
  PROVE  Fine(r)
  <1>1. PICK f, s, p : f = jobs[j][1] /\ s = Pop(S, j) /\ p = Parent[k]
    OBVIOUS
  <1>2. FineTaken(s, j, f)
    BY <1>1, FineTake
  <1>3. Fine(s) /\ Leads(S, s) /\ s.mem = mem /\ k \in Tasks /\ mem[k] # NoTask /\ Inv(S, phase, {})
    BY <1>1, <1>2 DEF FineTaken
  <1>4. S.mem = mem /\ S.jobs = jobs
    BY SFacts
  <1>5. f \in Held(S, j)
    <2>1. IsStack(jobs[j])
      BY <1>3, <1>4 DEF Inv, Stacks, StackOK
    <2> QED BY <1>1, <1>4, <2>1, StackFacts DEF Held
  <1>6. NewbornFits(S, f) /\ Born(S, k)
    BY <1>1, <1>3, <1>5 DEF Inv, Newborns, Born, Holds
  <1>7. p # Orphan /\ (Live(mem[p]) => Completable(mem[p], k))
    BY <1>1, <1>4, <1>6 DEF NewbornFits
  <1>8. Rests(s, k)
    <2>1. ~Known(S, k)
      BY <1>6 DEF Known
    <2>2. Rests(S, k)
      BY <1>3, <2>1, RestsNew
    <2> QED BY <1>3, <2>2 DEF Leads
  <1>9. p \in Tasks /\ p # k /\ mem[p] # NoTask
    <2>1. Known(S, p)
      BY <1>1, <1>3, <1>4, <1>7 DEF Inv, Family
    <2> QED BY <1>4, <1>6, <2>1 DEF Known
  <1>10. PICK b, g, s1 : /\ b = [completeSubagentWork(mem[p], k, "failed") EXCEPT !.graph = completeDelegatedWorkGraphNode(@, k, "failed")]
                         /\ g = Then("progress", p) /\ s1 = [s EXCEPT !.mem[k] = NoTask, !.pool = release(@, k)]
    OBVIOUS
  <1>11. PICK m : m = [mem EXCEPT ![k] = NoTask]
    OBVIOUS
  <1>12. /\ DOMAIN s = Fields /\ DOMAIN s.mem = Tasks /\ DOMAIN s.disk = Tasks
         /\ \A t \in Tasks : Tidy(s.mem[t]) /\ Tidy(s.disk[t])
    BY <1>3, FineParts
  <1>13. DOMAIN s1 = Fields /\ s1.mem = m /\ s1.disk = s.disk /\ s1.jobs = s.jobs
    BY <1>3, <1>10, <1>11, <1>12 DEF Fields
  <1>14. DOMAIN m = Tasks /\ m[k] = NoTask /\ \A t \in Tasks : t # k => m[t] = mem[t]
    BY <1>3, <1>11, <1>12
  <1>15. \A t \in Tasks : Tidy(m[t]) /\ Tidy(s.disk[t]) /\ (Rests(s, t) \/ Heeds(mem[t], m[t]))
    <2>1. ASSUME NEW t \in Tasks, t # k PROVE Heeds(mem[t], m[t])
      BY <1>14, <2>1 DEF Heeds
    <2>2. Tidy(m[k])
      BY <1>14 DEF Tidy
    <2> QED BY <1>3, <1>8, <1>12, <1>14, <2>1, <2>2
  <1>16. Fine(s1)
    <2>1. \A t \in Tasks : Tidy(s1.mem[t]) /\ Tidy(s1.disk[t]) /\ (Rests(s, t) \/ Heeds(s.mem[t], s1.mem[t]))
      BY <1>3, <1>13, <1>15
    <2>2. DOMAIN s1.mem = Tasks /\ DOMAIN s1.disk = Tasks
      BY <1>12, <1>13, <1>14
    <2>3. Leads(s, s1)
      BY <1>3, <1>13, <2>1, <2>2, FineMem
    <2> QED BY <2>3 DEF Leads
  <1>17. r = s1 \/ r = Push(Put(s1, p, b), j, <<g>>)
    BY <1>1, <1>7, <1>10, ZenonT(30) DEF SendFailed
  <1>18. CASE r = Push(Put(s1, p, b), j, <<g>>)
    <2>1. s1.mem[p] = mem[p] /\ Tidy(mem[p])
      BY <1>3, <1>9, <1>12, <1>13, <1>14
    <2>2. PICK kind : kind = "failed"
      OBVIOUS
    <2>3. b = [completeSubagentWork(mem[p], k, kind) EXCEPT !.graph = completeDelegatedWorkGraphNode(@, k, kind)]
      BY <1>10, <2>2
    <2>4. Tidy(b) /\ Heeds(mem[p], b)
      BY <1>3, <1>9, <2>1, <2>3, TidyChild
    <2>5. g.op # "dispatch"
      BY <1>10 DEF Then, Frame
    <2>6. Leads(s1, r)
      BY <1>9, <1>16, <1>18, <2>1, <2>4, <2>5, FinePutPush
    <2> QED BY <2>6 DEF Leads
  <1> QED BY <1>16, <1>17, <1>18

\* SendChildFails.
LEMMA SendChildFailsFine ==
  ASSUME IInv, Fine(S), NEW j \in Jobs, NEW fit \in Fits, SendChildFails(j, fit)
  PROVE  Fine(S')
  <1>1. jobs[j] # <<>> /\ jobs[j][1].op \in Sends
    BY DEF SendChildFails, At, Sends
  <1>2. PICK k, r : k = jobs[j][1].t /\ r = SendFailed(j, k, fit)
    OBVIOUS
  <1>3. Do(r)
    BY <1>2 DEF SendChildFails
  <1>4. Fine(r)
    BY <1>1, <1>2, FineSendFails
  <1> QED BY <1>3, <1>4, FineDone

\* EnqueueChild.
LEMMA EnqueueChildFine ==
  ASSUME IInv, Fine(S), NEW j \in Jobs, NEW fit \in Fits, EnqueueChild(j, fit)
  PROVE  Fine(S')
  <1>1. PICK f, s, k : f = jobs[j][1] /\ s = Pop(S, j) /\ k = jobs[j][1].t
    OBVIOUS
  <1>2. jobs[j] # <<>> /\ f.op = "enqueue" /\ f.op \in Sends
    BY <1>1 DEF EnqueueChild, At, Sends
  <1>3. FineTaken(s, j, f)
    BY <1>1, <1>2, FineTake
  <1>4. Fine(s) /\ s.mem = mem /\ k \in Tasks /\ mem[k] # NoTask
    BY <1>1, <1>2, <1>3 DEF FineTaken
  <1>5. PICK r1, r2 : r1 = prepareTaskForQueue(s, j, k, fit) /\ r2 = SendFailed(j, k, fit)
    OBVIOUS
  <1>6. Do(r1) \/ Do(r2)
    BY <1>1, <1>5 DEF EnqueueChild
  <1>7. Leads(s, r1)
    BY <1>4, <1>5, FinePrepare
  <1>8. Fine(r2)
    BY <1>1, <1>2, <1>5, FineSendFails
  <1> QED BY <1>6, <1>7, <1>8, FineDone, FineEnds

\* A grantor is marked: publishCurrentCapabilityHop.
LEMMA PublishHopFine ==
  ASSUME IInv, Fine(S), NEW j \in Jobs, NEW fit \in Fits, PublishHop(j, fit)
  PROVE  Fine(S')
  <1>1. PICK f, s, t, hop : /\ f = jobs[j][1] /\ s = Pop(S, j) /\ t = jobs[j][1].t
                            /\ hop = currentCapabilityDelegationHop(mem[t])
    OBVIOUS
  <1>2. jobs[j] # <<>> /\ f.op = "publish"
    BY <1>1 DEF PublishHop, At
  <1>3. FineTaken(s, j, f)
    BY <1>1, <1>2, FineTake
  <1>4. Fine(s) /\ s.mem = mem /\ t \in Tasks /\ mem[t] # NoTask /\ Inv(S, phase, {})
    BY <1>1, <1>2, <1>3 DEF FineTaken, Nameless, Sends
  <1>5. PICK p, k, ref : p = hop.grantor /\ k = hop.grantee /\ ref = Ref(t)
    OBVIOUS
  <1>6. PICK u, b, g : u = S /\ b = markSubagentWaitingForCapability(mem[p], k, ref) /\ g = Then("progress", p)
    OBVIOUS
  <1>7. PICK r1, r2 : r1 = Throw(u, j, fit) /\ r2 = Push(Put(s, p, b), j, <<g>>)
    OBVIOUS
  <1>8. Do(r1) \/ (mem[t].ask.hop \in DOMAIN mem[t].ask.path /\ mem[p] # NoTask /\ Markable(mem[p], k) /\ Do(r2))
    BY <1>1, <1>5, <1>6, <1>7, ZenonT(30) DEF PublishHop
  <1>9. CASE Do(r1)
    <2>1. Fine(u) /\ u.mem = mem
      BY <1>6, SFacts
    <2>2. j[1] = "turn" => u.mem[j[2]] # NoTask
      BY <1>1, <1>2, <2>1, TurnStays
    <2>3. Leads(u, r1)
      BY <1>7, <2>1, <2>2, FineThrow
    <2> QED BY <1>9, <2>3, FineEnds
  <1>10. CASE mem[t].ask.hop \in DOMAIN mem[t].ask.path /\ mem[p] # NoTask /\ Markable(mem[p], k) /\ Do(r2)
    <2>1. p \in Tasks
      <3>1. Owned(t, mem[t])
        BY <1>4, SFacts DEF Inv, Typed
      <3>2. Route(t, mem[t].ask.path[mem[t].ask.hop])
        BY <1>4, <1>10, <3>1 DEF Owned
      <3> QED BY <1>1, <1>5, <3>2, ZenonT(30) DEF Route, currentCapabilityDelegationHop
    <2>2. s.mem[p] = mem[p] /\ Tidy(mem[p])
      BY <1>4, <2>1, FineParts
    <2>3. Tidy(b) /\ Heeds(mem[p], b)
      BY <1>6, <1>10, <2>2, TidyMarked
    <2>4. g.op # "dispatch"
      BY <1>6 DEF Then, Frame
    <2>5. Leads(s, r2)
      BY <1>4, <1>7, <2>1, <2>2, <2>3, <2>4, FinePutPush
    <2> QED BY <1>10, <2>5, FineEnds
  <1> QED BY <1>8, <1>9, <1>10

\* AdvanceHop.
LEMMA AdvanceHopFine ==
  ASSUME IInv, Fine(S), NEW j \in Jobs, NEW fit \in Fits, AdvanceHop(j, fit)
  PROVE  Fine(S')
  <1>1. PICK f, s, t : f = jobs[j][1] /\ s = Pop(S, j) /\ t = jobs[j][1].t
    OBVIOUS
  <1>2. jobs[j] # <<>> /\ f.op = "advance"
    BY <1>1 DEF AdvanceHop, At
  <1>3. FineTaken(s, j, f)
    BY <1>1, <1>2, FineTake
  <1>4. Fine(s) /\ s.mem = mem /\ t \in Tasks /\ mem[t] # NoTask
    BY <1>1, <1>2, <1>3 DEF FineTaken, Nameless, Sends
  <1>5. PICK u, b, s1, s2, g, status, none :
          /\ u = S /\ b = advanceCapabilityDelegation(mem[t]) /\ s1 = Put(s, t, b) /\ s2 = Persist(s1, t)
          /\ g = Then("publish", t) /\ status = "granted" /\ none = <<>>
    OBVIOUS
  <1>6. PICK r1, r2, r3 : /\ r1 = Throw(u, j, fit) /\ r2 = Push(s2, j, <<g>>)
                          /\ r3 = finishCapabilityRequest(s1, j, t, status, none, fit)
    OBVIOUS
  <1>7. Do(r1) \/ Do(r2) \/ Do(r3)
    BY <1>1, <1>5, <1>6 DEF AdvanceHop
  <1>8. j[1] = "turn" => mem[j[2]] # NoTask /\ j[2] \in Tasks
    BY <1>1, <1>2, TurnStays
  <1>9. Leads(u, r1)
    <2>1. Fine(u) /\ u.mem = mem
      BY <1>5, SFacts
    <2> QED BY <1>6, <1>8, <2>1, FineThrow
  <1>10. Tidy(b) /\ Heeds(mem[t], b) /\ b # NoTask
    <2>1. Tidy(mem[t])
      BY <1>4, FineParts
    <2>2. DOMAIN mem[t] = BlockFields
      BY <1>4, <2>1, TidyFacts
    <2>3. DOMAIN b = BlockFields
      BY <1>5, <2>2 DEF advanceCapabilityDelegation
    <2> QED BY <1>4, <1>5, <2>1, <2>3, TidyWrites, Present
  <1>11. Fine(s1) /\ s1.mem[t] = b /\ \A k \in Tasks : k # t => s1.mem[k] = mem[k]
    <2>1. Rests(s, t) \/ Heeds(s.mem[t], b)
      BY <1>4, <1>10
    <2>2. Leads(s, s1) /\ s1.mem[t] = b /\ \A k \in Tasks : k # t => s1.mem[k] = s.mem[k]
      BY <1>4, <1>5, <1>10, <2>1, FinePut
    <2> QED BY <1>4, <2>2 DEF Leads
  <1>12. Leads(s2, r2)
    <2>1. Fine(s2)
      BY <1>4, <1>5, <1>11, FinePersist DEF Leads
    <2>2. g.op # "dispatch"
      BY <1>5 DEF Then, Frame
    <2> QED BY <1>6, <2>1, <2>2, FinePushOne
  <1>13. Leads(s1, r3)
    <2>1. j[1] = "turn" => s1.mem[j[2]] # NoTask
      BY <1>8, <1>10, <1>11
    <2> QED BY <1>4, <1>6, <1>10, <1>11, <2>1, FineFinish
  <1> QED BY <1>7, <1>9, <1>12, <1>13, FineEnds

\* ContinueParent.
LEMMA ContinueParentFine ==
  ASSUME IInv, Fine(S), NEW j \in Jobs, NEW fit \in Fits, ContinueParent(j, fit)
  PROVE  Fine(S')
  <1>1. PICK f, s, p : f = jobs[j][1] /\ s = Pop(S, j) /\ p = jobs[j][1].t
    OBVIOUS
  <1>2. jobs[j] # <<>> /\ f.op = "continue"
    BY <1>1 DEF ContinueParent, At
  <1>3. FineTaken(s, j, f)
    BY <1>1, <1>2, FineTake
  <1>4. Fine(s) /\ s.mem = mem /\ p \in Tasks /\ mem[p] # NoTask
    BY <1>1, <1>2, <1>3 DEF FineTaken, Nameless, Sends
  <1>5. PICK a, b, g, h, s1 : /\ a = mem[p] /\ b = requeueActiveCapabilityBlockers(a) /\ g = Then("settle", p)
                              /\ h = Then("progress", p) /\ s1 = Put(s, p, b)
    OBVIOUS
  <1>6. PICK r1, r2, r3 : /\ r1 = Push(s1, j, <<g, h>>) /\ r2 = Push(s, j, <<g>>)
                          /\ r3 = Requeue(s, j, p, a, fit)
    OBVIOUS
  <1>7. Do(s) \/ Do(r1) \/ Do(r2) \/ Do(r3)
    BY <1>1, <1>5, <1>6 DEF ContinueParent
  <1>8. Tidy(a) /\ a # NoTask /\ s.mem[p] = a
    BY <1>4, <1>5, FineParts
  <1>9. g.op # "dispatch" /\ h.op # "dispatch"
    BY <1>5 DEF Then, Frame
  <1>10. Leads(s1, r1)
    <2>1. Tidy(b) /\ Heeds(a, b)
      BY <1>5, <1>8, TidyRequeued
    <2>2. Rests(s, p) \/ Heeds(s.mem[p], b)
      BY <1>8, <2>1
    <2>3. Fine(s1)
      BY <1>4, <1>5, <2>1, <2>2, FinePut DEF Leads
    <2> QED BY <1>6, <1>9, <2>3, FinePushTwo
  <1>11. Leads(s, r2)
    BY <1>4, <1>6, <1>9, FinePushOne
  <1>12. Leads(s, r3)
    <2>1. Rests(s, p) \/ Heeds(s.mem[p], a)
      BY <1>8 DEF Heeds
    <2> QED BY <1>4, <1>6, <1>8, <2>1, FineRequeue
  <1> QED BY <1>4, <1>7, <1>10, <1>11, <1>12, FineDone, FineEnds

-----------------------------------------------------------------------------
(* Answers *)

\* The turn of t begins, and nothing is about to be delegated for it.
TurnFine(s, t) ==
  /\ Fine(s) /\ Leads(S, s) /\ s.mem = mem /\ t \in Tasks /\ mem[t] # NoTask /\ Tidy(mem[t]) /\ mem[t].st = "RUNNING" /\ Rests(s, t)
  /\ TurnJob(t) \in Jobs /\ TurnJob(t)[1] = "turn" /\ TurnJob(t)[2] = t

LEMMA TurnFinely ==
  ASSUME IInv, Fine(S), NEW t \in Tasks, jobs[ModelJob(t)] # <<>>, NEW s, s = Turn(t), AtTurn(s, t)
  PROVE  TurnFine(s, t)
  <1>1. PICK j, f : j = ModelJob(t) /\ f = jobs[j][1]
    OBVIOUS
  <1>2. j \in Jobs /\ jobs[j] # <<>> /\ s = Pop(S, j)
    BY <1>1, JobFacts DEF Turn
  <1>3. FineTaken(s, j, f)
    BY <1>1, <1>2, FineTake
  <1>4. Fine(s) /\ Leads(S, s)
    BY <1>3 DEF FineTaken
  <1>5. PICK ph, E : ph = phase /\ E = {}
    OBVIOUS
  <1>6. Inv(s, ph, E) /\ ~InLoop(s, t) /\ s.mem = mem /\ Known(s, t) /\ mem[t].st = "RUNNING"
        /\ TurnJob(t) \in Jobs /\ TurnJob(t)[1] = "turn" /\ TurnJob(t)[2] = t
    BY <1>5 DEF AtTurn
  <1>7. Rests(s, t)
    BY <1>6, RestsOutside
  <1>8. mem[t] # NoTask /\ Tidy(mem[t])
    BY <1>4, <1>6, FineParts DEF Known
  <1> QED BY <1>4, <1>6, <1>7, <1>8 DEF TurnFine

\* The request is answered.
LEMMA TurnAnswered ==
  ASSUME IInv, Fine(S), NEW t \in Tasks, NEW a, Answered(t, a), NEW s, s = Turn(t)
  PROVE  TurnFine(s, t)
  <1>1. AtTurn(s, t)
    BY AnswerTurn
  <1>2. jobs[ModelJob(t)] # <<>>
    BY DEF Answered, At
  <1> QED BY <1>1, <1>2, TurnFinely

\* What a turn may end with.
LEMMA FineReject ==
  ASSUME NEW s, Fine(s), NEW j \in Jobs, NEW t \in Tasks, s.mem[t] # NoTask, NEW fit \in Fits, NEW r, r = Reject(s, j, t, fit)
  PROVE  Leads(s, r)
  <1>1. PICK b : b = appendContext(s.mem[t])
    OBVIOUS
  <1>2. Tidy(s.mem[t])
    BY FineParts
  <1>3. Tidy(b) /\ Heeds(s.mem[t], b) /\ b # NoTask
    BY <1>1, <1>2, TidyWrites
  <1>4. r = Requeue(s, j, t, b, fit)
    BY <1>1 DEF Reject
  <1> QED BY <1>3, <1>4, FineRequeue

LEMMA TurnOutcomes ==
  ASSUME NEW s, NEW t, TurnFine(s, t), NEW fit \in Fits, NEW j, j = TurnJob(t)
  PROVE  /\ Leads(s, Reject(s, j, t, fit)) /\ Leads(s, Throw(s, j, fit))
         /\ \A kind : Leads(s, terminateTask(s, j, t, kind))
  <1>1. Fine(s) /\ s.mem = mem /\ t \in Tasks /\ s.mem[t] # NoTask /\ j \in Jobs /\ (j[1] = "turn" => s.mem[j[2]] # NoTask)
    BY DEF TurnFine
  <1>2. PICK r1, r2 : r1 = Reject(s, j, t, fit) /\ r2 = Throw(s, j, fit)
    OBVIOUS
  <1>3. Leads(s, r1)
    BY <1>1, <1>2, FineReject
  <1>4. Leads(s, r2)
    BY <1>1, <1>2, FineThrow
  <1>5. ASSUME NEW kind PROVE Leads(s, terminateTask(s, j, t, kind))
    <2>1. PICK r : r = terminateTask(s, j, t, kind)
      OBVIOUS
    <2>2. Leads(s, r)
      BY <1>1, <2>1, FineTerminate
    <2> QED BY <2>1, <2>2
  <1> QED BY <1>2, <1>3, <1>4, <1>5

\* LateAnswer.
LEMMA LateAnswerFine ==
  ASSUME IInv, Fine(S), NEW t \in Tasks, LateAnswer(t)
  PROVE  Fine(S')
  <1>1. PICK j, f, s : j = ModelJob(t) /\ f = jobs[j][1] /\ s = Pop(S, j)
    OBVIOUS
  <1>2. j \in Jobs /\ jobs[j] # <<>> /\ Do(s)
    BY <1>1, JobFacts DEF LateAnswer, At, Turn
  <1>3. FineTaken(s, j, f)
    BY <1>1, <1>2, FineTake
  <1> QED BY <1>2, <1>3, FineDone DEF FineTaken

\* RequestFails.
LEMMA RequestFailsFine ==
  ASSUME IInv, Fine(S), NEW t \in Tasks, NEW fit \in Fits, RequestFails(t, fit)
  PROVE  Fine(S')
  <1>1. PICK s, j, r : s = Turn(t) /\ j = TurnJob(t) /\ r = Throw(s, j, fit)
    OBVIOUS
  <1>2. jobs[ModelJob(t)] # <<>> /\ jobs[ModelJob(t)][1].op \in {"model", "compact"} /\ jobs[TurnJob(t)] = <<>>
        /\ mem[t].st # "TERMINATED" /\ Do(r)
    BY <1>1 DEF RequestFails, At
  <1>3. AtTurn(s, t)
    BY <1>1, <1>2, TurnTaken
  <1>4. TurnFine(s, t)
    BY <1>1, <1>2, <1>3, TurnFinely
  <1>5. Leads(s, r)
    BY <1>1, <1>4, TurnOutcomes
  <1> QED BY <1>2, <1>5, FineEnds

\* AnswerRefused.
LEMMA AnswerRefusedFine ==
  ASSUME IInv, Fine(S), NEW t \in Tasks, NEW fit \in Fits, AnswerRefused(t, fit)
  PROVE  Fine(S')
  <1>1. PICK s, j, r : s = Turn(t) /\ j = TurnJob(t) /\ r = Reject(s, j, t, fit)
    OBVIOUS
  <1>2. jobs[ModelJob(t)] # <<>> /\ jobs[ModelJob(t)][1].op \in {"model", "compact"} /\ jobs[TurnJob(t)] = <<>>
        /\ mem[t].st # "TERMINATED" /\ Do(r)
    BY <1>1 DEF AnswerRefused, At
  <1>3. AtTurn(s, t)
    BY <1>1, <1>2, TurnTaken
  <1>4. TurnFine(s, t)
    BY <1>1, <1>2, <1>3, TurnFinely
  <1>5. Leads(s, r)
    BY <1>1, <1>4, TurnOutcomes
  <1> QED BY <1>2, <1>5, FineEnds

\* EndCompaction.
LEMMA EndCompactionFine ==
  ASSUME IInv, Fine(S), NEW t \in Tasks, NEW fit \in Fits, EndCompaction(t, fit)
  PROVE  Fine(S')
  <1>1. PICK s, j, b, kind : s = Turn(t) /\ j = TurnJob(t) /\ b = [mem[t] EXCEPT !.packed = TRUE] /\ kind = "failed"
    OBVIOUS
  <1>2. PICK r1, r2 : r1 = Requeue(s, j, t, b, fit) /\ r2 = terminateTask(s, j, t, kind)
    OBVIOUS
  <1>3. /\ jobs[ModelJob(t)] # <<>> /\ jobs[ModelJob(t)][1].op \in {"model", "compact"} /\ jobs[TurnJob(t)] = <<>>
        /\ (mem[t].st = "TERMINATED" /\ Do(s)) \/ (mem[t].st # "TERMINATED" /\ (Do(r1) \/ Do(r2)))
    BY <1>1, <1>2 DEF EndCompaction, At
  <1>4. CASE mem[t].st = "TERMINATED" /\ Do(s)
    <2>1. PICK i, f : i = ModelJob(t) /\ f = jobs[i][1]
      OBVIOUS
    <2>2. i \in Jobs /\ jobs[i] # <<>> /\ s = Pop(S, i)
      BY <1>1, <1>3, <2>1, JobFacts DEF Turn
    <2>3. FineTaken(s, i, f)
      BY <2>1, <2>2, FineTake
    <2> QED BY <1>4, <2>3, FineDone DEF FineTaken
  <1>5. CASE mem[t].st # "TERMINATED" /\ (Do(r1) \/ Do(r2))
    <2>1. AtTurn(s, t)
      BY <1>1, <1>3, <1>5, TurnTaken
    <2>2. TurnFine(s, t)
      BY <1>1, <1>3, <2>1, TurnFinely
    <2>3. Fine(s) /\ s.mem = mem /\ Tidy(mem[t]) /\ mem[t] # NoTask /\ j \in Jobs
      BY <1>1, <2>2 DEF TurnFine
    <2>4. Leads(s, r1)
      <3>1. Tidy(b) /\ Heeds(mem[t], b)
        BY <1>1, <2>3, TidyWrites
      <3>2. b # NoTask
        <4>1. DOMAIN mem[t] = BlockFields
          BY <2>3, TidyFacts
        <4>2. DOMAIN b = BlockFields
          BY <1>1, <4>1
        <4> QED BY <4>2, Present
      <3>3. Rests(s, t) \/ Heeds(s.mem[t], b)
        BY <2>3, <3>1
      <3> QED BY <1>2, <2>3, <3>1, <3>2, <3>3, FineRequeue
    <2>5. Leads(s, r2)
      BY <1>1, <1>2, <2>2, TurnOutcomes
    <2> QED BY <1>5, <2>4, <2>5, FineEnds
  <1> QED BY <1>3, <1>4, <1>5

\* AnswerFinal.
LEMMA AnswerFinalFine ==
  ASSUME IInv, Fine(S), NEW t \in Tasks, NEW a, NEW fit \in Fits, AnswerFinal(t, a, fit)
  PROVE  Fine(S')
  <1>1. PICK s, j, kind : /\ s = Turn(t) /\ j = TurnJob(t)
                          /\ kind = IF a.type = "final" THEN "completed" ELSE "needs_parent_action"
    OBVIOUS
  <1>2. PICK r1, r2 : r1 = Reject(s, j, t, fit) /\ r2 = terminateTask(s, j, t, kind)
    OBVIOUS
  <1>3. Do(r1) \/ Do(r2)
    BY <1>1, <1>2 DEF AnswerFinal
  <1>4. TurnFine(s, t)
    BY <1>1, TurnAnswered DEF AnswerFinal
  <1>5. Leads(s, r1) /\ Leads(s, r2)
    BY <1>1, <1>2, <1>4, TurnOutcomes
  <1> QED BY <1>3, <1>5, FineEnds

\* AnswerWait.
LEMMA AnswerWaitFine ==
  ASSUME IInv, Fine(S), NEW t \in Tasks, NEW a, NEW fit \in Fits, AnswerWait(t, a, fit)
  PROVE  Fine(S')
  <1>1. PICK s, j, g : s = Turn(t) /\ j = TurnJob(t) /\ g = Then("settle", t)
    OBVIOUS
  <1>2. PICK r1, r2 : r1 = Throw(s, j, fit) /\ r2 = Push(s, j, <<g>>)
    OBVIOUS
  <1>3. Do(r1) \/ Do(r2)
    BY <1>1, <1>2 DEF AnswerWait
  <1>4. TurnFine(s, t)
    BY <1>1, TurnAnswered DEF AnswerWait
  <1>5. Leads(s, r1)
    BY <1>1, <1>2, <1>4, TurnOutcomes
  <1>6. Leads(s, r2)
    <2>1. g.op # "dispatch"
      BY <1>1 DEF Then, Frame
    <2> QED BY <1>1, <1>2, <1>4, <2>1, FinePushOne DEF TurnFine
  <1> QED BY <1>3, <1>5, <1>6, FineEnds

\* AnswerWork.
LEMMA AnswerWorkFine ==
  ASSUME IInv, Fine(S), NEW t \in Tasks, NEW a, a \in Answers[t], NEW fit \in Fits, AnswerWork(t, a, fit)
  PROVE  Fine(S')
  <1>1. PICK s, j, n, e : s = Turn(t) /\ j = TurnJob(t) /\ n = Len(a.kids) /\ e = <<>>
    OBVIOUS
  <1>2. PICK calls, asks, kids : calls = a.calls /\ asks = a.kids /\ kids = NewIds(S, t, n)
    OBVIOUS
  <1>3. PICK r1, r2, no : /\ r1 = Reject(s, j, t, fit) /\ r2 = startAsyncWork(s, j, t, calls, kids, asks, e)
                          /\ no = WorkRefused(S, t, calls, kids, asks)
    OBVIOUS
  <1>4. Do(r1) \/ (~no /\ Do(r2))
    BY <1>1, <1>2, <1>3 DEF AnswerWork
  <1>5. TurnFine(s, t)
    BY <1>1, TurnAnswered DEF AnswerWork
  <1>6. n \in Nat
    <2>1. a.type \in {"spawn_subagents", "tool_calls", "async_work"}
      BY DEF AnswerWork
    <2> QED BY <1>1, <2>1, TaskAssumption
  <1>7. Leads(s, r1)
    BY <1>1, <1>3, <1>5, TurnOutcomes
  <1>8. ASSUME ~no PROVE Leads(s, r2)
    <2>1. Fine(s) /\ s.mem = mem /\ mem[t] # NoTask /\ j \in Jobs
      BY <1>1, <1>5 DEF TurnFine
    <2>2. NewKids(s, t, kids)
      BY <1>2, <1>6, <2>1, KidsNew
    <2>3. ToSet(calls) \cap DOMAIN s.mem[t].works = {}
      BY <1>3, <1>8, <2>1, SFacts DEF WorkRefused, usedWorkIds
    <2>4. e = <<>> \/ (Given(s.mem[t], kids, e) /\ Rests(s, t))
      BY <1>1
    <2>5. s.mem[t] # NoTask
      BY <2>1
    <2> QED BY <1>3, <2>1, <2>2, <2>3, <2>4, <2>5, FineStart
  <1> QED BY <1>4, <1>7, <1>8, FineEnds

\* Only a task that works on a node of its graph may end the node.
LEMMA NodeActive ==
  ASSUME NEW g, NEW a, a.type \in {"complete_node", "request_replan"}, AnswerAllowed(g, a)
  PROVE  g # NoGraph /\ g.cur # NoNode
  <1>1. PICK mode : mode = agentWorkGraphMode(g)
    OBVIOUS
  <1>2. mode \in {"plan", "execute", "waiting"}
    BY <1>1 DEF agentWorkGraphMode
  <1>3. a.type \in {"resolve_capability_request", "wait_for_async_work"} \cup
         CASE mode = "plan" -> {"final", "needs_parent_action", "request_capabilities", "set_graph"}
           [] mode = "execute" -> {"async_work", "complete_node", "tool_calls", "request_capabilities", "request_replan"}
           [] mode = "waiting" -> {}
    BY <1>1 DEF AnswerAllowed
  <1>4. mode = "execute"
    <2>1. CASE mode = "plan"
      BY <1>3, <2>1
    <2>2. CASE mode = "waiting"
      BY <1>3, <2>2
    <2> QED BY <1>2, <2>1, <2>2
  <1> QED BY <1>1, <1>4 DEF agentWorkGraphMode

\* AnswerGraph.
LEMMA AnswerGraphFine ==
  ASSUME IInv, Fine(S), NEW t \in Tasks, NEW a, NEW fit \in Fits, AnswerGraph(t, a, fit)
  PROVE  Fine(S')
  <1>1. PICK s, j, b : s = Turn(t) /\ j = TurnJob(t) /\ b = mem[t]
    OBVIOUS
  <1>2. PICK g : g = CASE a.type = "set_graph" -> createAgentWorkGraph(a.graph)
                      [] a.type = "complete_node" -> completeCurrentWorkGraphNode(b.graph)
                      [] a.type = "request_replan" -> requestCurrentWorkGraphReplan(b.graph)
    OBVIOUS
  <1>3. PICK revised : revised = IF a.type = "set_graph" /\ b.graph # NoGraph THEN appendContext(b) ELSE b
    OBVIOUS
  <1>4. PICK c : c = [revised EXCEPT !.graph = g]
    OBVIOUS
  <1>5. PICK r1, r2 : r1 = Reject(s, j, t, fit) /\ r2 = Requeue(s, j, t, c, fit)
    OBVIOUS
  <1>6. a.type \in {"set_graph", "complete_node", "request_replan"} /\ AnswerAllowed(b.graph, a)
    BY <1>1 DEF AnswerGraph, Answered
  <1>7. Do(r1) \/ Do(r2)
    BY <1>1, <1>2, <1>3, <1>4, <1>5 DEF AnswerGraph
  <1>8. TurnFine(s, t)
    BY <1>1, TurnAnswered DEF AnswerGraph
  <1>9. Leads(s, r1)
    BY <1>1, <1>5, <1>8, TurnOutcomes
  <1>10. Fine(s) /\ Tidy(b) /\ b # NoTask /\ Rests(s, t) /\ j \in Jobs
    BY <1>1, <1>8 DEF TurnFine
  <1>11. Tidy(revised) /\ revised # NoTask
    <2>1. Tidy(appendContext(b)) /\ appendContext(b) # NoTask
      BY <1>10, TidyWrites
    <2> QED BY <1>3, <1>10, <2>1
  <1>12. PICK X : X = activeAsyncWorkPendingIds(revised)
    OBVIOUS
  <1>13. GraphTidy(g) /\ g.cur = NoNode /\ Waiting(g, X)
    <2>1. CASE a.type = "set_graph"
      <3>1. PICK p : p = a.graph
        OBVIOUS
      <3>2. g = createAgentWorkGraph(p)
        BY <1>2, <2>1, <3>1
      <3> QED BY <3>2, TidyPlan
    <2>2. CASE a.type # "set_graph"
      <3>1. PICK h : h = b.graph
        OBVIOUS
      <3>2. a.type \in {"complete_node", "request_replan"}
        BY <1>6, <2>2
      <3>3. h # NoGraph /\ h.cur # NoNode
        BY <1>6, <3>1, <3>2, NodeActive
      <3>4. g = completeCurrentWorkGraphNode(h) \/ g = requestCurrentWorkGraphReplan(h)
        BY <1>2, <3>1, <3>2
      <3>5. revised = b
        BY <1>3, <2>2
      <3>6. GraphTidy(h) /\ Waiting(h, X)
        BY <1>10, <1>12, <3>1, <3>3, <3>5, TidyFacts DEF Matched
      <3> QED BY <3>3, <3>4, <3>6, TidyEnded
    <2> QED BY <2>1, <2>2
  <1>14. Tidy(c) /\ c # NoTask
    <2>1. Waiting(g, activeAsyncWorkPendingIds(revised)) /\ (g.cur # NoNode => Mirrors(revised.st, g.nodes[g.cur].st))
      BY <1>12, <1>13
    <2> QED BY <1>4, <1>11, <1>13, <2>1, TidyGraph
  <1>15. Leads(s, r2)
    <2>1. Rests(s, t) \/ Heeds(s.mem[t], c)
      BY <1>10
    <2> QED BY <1>5, <1>10, <1>14, <2>1, FineRequeue
  <1> QED BY <1>7, <1>9, <1>15, FineEnds

\* AnswerAsk.
LEMMA AnswerAskFine ==
  ASSUME IInv, Fine(S), NEW t \in Tasks, NEW a, NEW fit \in Fits, AnswerAsk(t, a, fit)
  PROVE  Fine(S')
  <1>1. PICK s, j : s = Turn(t) /\ j = TurnJob(t)
    OBVIOUS
  <1>2. PICK missing, chain : missing = Missing(mem[t].grants, a.reqs, NoOp) /\ chain = ChainOf(t)
    OBVIOUS
  <1>3. PICK plan : plan = planRequest(t, chain, [x \in Tasks |-> IF mem[x] = NoTask THEN <<>> ELSE mem[x].grants], missing)
    OBVIOUS
  <1>4. PICK b, g : b = AskOf(mem[t], missing, plan) /\ g = Then("publish", t)
    OBVIOUS
  <1>5. PICK r1, r2, r3, r4 : /\ r1 = Reject(s, j, t, fit) /\ r2 = Throw(s, j, fit)
                              /\ r3 = Persist(Put(s, t, b), t) /\ r4 = Push(r3, j, <<g>>)
    OBVIOUS
  <1>6. Do(r1) \/ Do(r2) \/ Do(r3) \/ Do(r4)
    BY <1>1, <1>2, <1>3, <1>4, <1>5 DEF AnswerAsk, ChainOf, AskOf
  <1>7. TurnFine(s, t)
    BY <1>1, TurnAnswered DEF AnswerAsk
  <1>8. Leads(s, r1) /\ Leads(s, r2)
    BY <1>1, <1>5, <1>7, TurnOutcomes
  <1>9. Fine(s) /\ s.mem = mem /\ Tidy(mem[t]) /\ mem[t] # NoTask /\ Rests(s, t) /\ j \in Jobs
    BY <1>1, <1>7 DEF TurnFine
  <1>10. Tidy(b)
    <2>1. PICK c, st, why : /\ c = registerCapabilityRequest(mem[t], missing, plan.route, plan.path)
                            /\ st = "BLOCKED" /\ why = IF plan.route = "human" THEN "human" ELSE "ask"
      OBVIOUS
    <2>2. Tidy(c)
      BY <1>9, <2>1, TidyWrites
    <2>3. c # NoTask
      <3>1. DOMAIN mem[t] = BlockFields
        BY <1>9, TidyFacts
      <3>2. DOMAIN c = BlockFields
        BY <2>1, <3>1 DEF registerCapabilityRequest
      <3> QED BY <3>2, Present
    <2>4. b = transition(c, st, why) /\ st \in {"READY", "RUNNING", "BLOCKED", "TERMINATED"}
      BY <1>4, <2>1 DEF AskOf
    <2> QED BY <2>2, <2>3, <2>4, TidyTransition
  <1>11. Leads(s, r3) /\ Fine(r3)
    <2>1. Rests(s, t) \/ Heeds(s.mem[t], b)
      BY <1>9
    <2> QED BY <1>5, <1>9, <1>10, <2>1, FinePutPersist
  <1>12. Leads(r3, r4)
    <2>1. g.op # "dispatch"
      BY <1>4 DEF Then, Frame
    <2> QED BY <1>5, <1>9, <1>11, <2>1, FinePushOne
  <1> QED BY <1>6, <1>8, <1>11, <1>12, FineEnds

\* AnswerDecide.
LEMMA AnswerDecideFine ==
  ASSUME IInv, Fine(S), NEW p \in Tasks, NEW a, NEW fit \in Fits, AnswerDecide(p, a, fit)
  PROVE  Fine(S')
  <1>1. PICK s, j : s = Turn(p) /\ j = TurnJob(p)
    OBVIOUS
  <1>2. TurnFine(s, p)
    BY <1>1, TurnAnswered, ZenonT(30) DEF AnswerDecide
  <1>3. Fine(s) /\ s.mem = mem /\ Tidy(mem[p]) /\ mem[p] # NoTask /\ j \in Jobs /\ j[1] = "turn" /\ j[2] = p
    BY <1>1, <1>2 DEF TurnFine
  <1>4. phase # "down"
    <2>1. jobs[ModelJob(p)] # <<>> /\ ModelJob(p) \in Jobs
      BY JobFacts, ZenonT(30) DEF AnswerDecide, Answered, At
    <2> QED BY <2>1, Running
  <1>5. PICK k \in Open(mem[p]) :
          /\ Blocking(mem[p].works[k])
          /\ LET ref  == mem[p].works[k].ref
                 t    == ref[1]
                 open == /\ mem[t] # NoTask /\ Ref(t) = ref /\ HasHop(mem[t])
                         /\ currentCapabilityDelegationHop(mem[t]) = [grantor |-> p, grantee |-> k]
                 rest == Push(Put(s, p, clearSubagentCapabilityBlocker(mem[p], k)), j,
                              <<Then("continue", p)>>)
             IN  Do(IF ~open THEN Throw(s, j, fit)
                    ELSE IF a.ok /\ validateDelegation(mem[p].grants, mem[t].ask.reqs)
                    THEN Push(Persist(Put(rest, k, addCapabilityGrants(mem[k],
                                                 delegate(p, mem[t].ask.reqs))), k),
                              j, <<Then("advance", t)>>)
                    ELSE finishCapabilityRequest(rest, j, t, "denied", <<>>, fit))
    BY <1>1, ZenonT(30) DEF AnswerDecide
  <1>6. PICK t, gs, b, g, z : /\ t = mem[p].works[k].ref[1] /\ gs = delegate(p, mem[t].ask.reqs)
                              /\ b = clearSubagentCapabilityBlocker(mem[p], k) /\ g = Then("continue", p)
                              /\ z = Push(Put(s, p, b), j, <<g>>)
    BY ZenonT(30)
  <1>7. PICK c, h, u, status, none : /\ c = addCapabilityGrants(mem[k], gs) /\ h = Then("advance", t)
                                     /\ u = Persist(Put(z, k, c), k) /\ status = "denied" /\ none = <<>>
    OBVIOUS
  <1>8. PICK r1, r2, r3 : /\ r1 = Throw(s, j, fit) /\ r2 = Push(u, j, <<h>>)
                          /\ r3 = finishCapabilityRequest(z, j, t, status, none, fit)
    OBVIOUS
  <1>9. DEFINE open == /\ mem[t] # NoTask /\ Ref(t) = mem[p].works[k].ref /\ HasHop(mem[t])
                       /\ currentCapabilityDelegationHop(mem[t]) = [grantor |-> p, grantee |-> k]
  <1>10. Do(r1) \/ (open /\ (Do(r2) \/ Do(r3)))
    BY <1>5, <1>6, <1>7, <1>8, ZenonT(30)
  <1>11. Leads(s, r1)
    BY <1>1, <1>2, <1>8, TurnOutcomes
  <1>12. g.op # "dispatch" /\ h.op # "dispatch"
    BY <1>6, <1>7, ZenonT(30) DEF Then, Frame
  <1>13. Tidy(b) /\ Heeds(mem[p], b) /\ b # NoTask
    BY <1>3, <1>5, <1>6, TidyCleared, ZenonT(30)
  <1>14. Fine(z) /\ z.mem[p] = b /\ \A x \in Tasks : x # p => z.mem[x] = mem[x]
    <2>1. PICK y : y = Put(s, p, b)
      OBVIOUS
    <2>2. Rests(s, p) \/ Heeds(s.mem[p], b)
      BY <1>3, <1>13
    <2>3. Leads(s, y) /\ y.mem[p] = b /\ \A x \in Tasks : x # p => y.mem[x] = s.mem[x]
      BY <1>3, <1>13, <2>1, <2>2, FinePut
    <2>4. Fine(y) /\ z = Push(y, j, <<g>>)
      BY <1>6, <2>1, <2>3 DEF Leads
    <2>5. Leads(y, z) /\ z.mem = y.mem
      BY <1>3, <1>12, <2>4, FinePushOne
    <2> QED BY <1>3, <2>3, <2>5 DEF Leads
  <1>15. ASSUME open PROVE t \in Tasks /\ mem[t] # NoTask /\ k \in Tasks /\ k # p /\ mem[k] # NoTask
    <2>1. k \in Marks(mem[p])
      BY <1>5, ZenonT(30) DEF Marks, Open
    <2>2. Decides(p, k, t)
      BY <1>3, <1>4, <1>15, <2>1 DEF Decides, Ref
    <2>3. t \in Tasks /\ Known(S, t) /\ k \in Tasks /\ k # p /\ Known(S, k)
      BY <2>2, Decided
    <2> QED BY <2>3, SFacts DEF Known
  <1>16. ASSUME open PROVE Leads(u, r2)
    <2>1. z.mem[k] = mem[k] /\ k \in Tasks /\ mem[k] # NoTask
      BY <1>14, <1>15, <1>16
    <2>2. Tidy(mem[k])
      BY <1>3, <2>1, FineParts
    <2>3. Tidy(c) /\ Heeds(z.mem[k], c)
      BY <1>7, <2>1, <2>2, TidyWrites
    <2>4. Fine(u)
      BY <1>7, <1>14, <2>1, <2>3, FinePutPersist
    <2> QED BY <1>3, <1>8, <1>12, <2>4, FinePushOne
  <1>17. ASSUME open PROVE Leads(z, r3)
    <2>1. t \in Tasks /\ mem[t] # NoTask
      BY <1>15, <1>17
    <2>2. z.mem[t] # NoTask /\ (j[1] = "turn" => z.mem[j[2]] # NoTask)
      BY <1>3, <1>13, <1>14, <2>1
    <2> QED BY <1>3, <1>8, <1>14, <2>1, <2>2, FineFinish
  <1> QED BY <1>10, <1>11, <1>16, <1>17, FineEnds

----------------------------------------------------------------------------
(* The scheduling loop *)

\* The loop is idle, and s is where its step begins.
LoopFine(s, t) ==
  /\ Fine(s) /\ s.mem = mem /\ s.jobs = jobs /\ Tidy(mem[t]) /\ mem[t] # NoTask /\ mem[t].st = "READY"
  /\ t \in Tasks /\ Rests(s, t) /\ <<"loop">> \in Jobs /\ ModelJob(t) \in Jobs

LEMMA LoopFinely ==
  ASSUME IInv, Fine(S), NEW t, AtLoop(t), NEW s, s = S \/ TakenOff(s, t)
  PROVE  LoopFine(s, t)
  <1>1. PICK u : u = S
    OBVIOUS
  <1>2. /\ DOMAIN u = Fields /\ u.mem = mem /\ u.disk = disk /\ u.jobs = jobs /\ Fine(u)
    BY <1>1, SFacts
  <1>3. /\ Inv(u, phase, {}) /\ t \in Tasks /\ mem[t].st = "READY" /\ u.jobs[<<"loop">>] = <<>> /\ Block(mem[t])
        /\ <<"loop">> \in Jobs
    BY <1>1, <1>2 DEF AtLoop
  <1>4. PICK ph, L : ph = phase /\ L = {}
    OBVIOUS
  <1>5. Inv(u, ph, L)
    BY <1>3, <1>4
  <1>6. Rests(u, t)
    BY <1>3, <1>5, RestsIdle
  <1>7. DOMAIN s = Fields /\ s.mem = u.mem /\ s.disk = u.disk /\ s.jobs = u.jobs
    <2>1. CASE s = S
      BY <1>1, <1>2, <2>1
    <2>2. CASE TakenOff(s, t)
      <3>1. PICK qu, pk : Is(s, mem, disk, qu, pk, timers, wake, pool, jobs)
        BY <2>2 DEF TakenOff
      <3> QED BY <1>2, <3>1 DEF Is
    <2> QED BY <2>1, <2>2
  <1>8. Leads(u, s)
    BY <1>2, <1>7, FineRest
  <1>9. Fine(s) /\ Rests(s, t)
    BY <1>3, <1>6, <1>8 DEF Leads
  <1>10. Tidy(mem[t])
    BY <1>2, <1>3, FineParts
  <1>11. mem[t] # NoTask
    BY <1>3 DEF Block, NoTask
  <1> QED BY <1>2, <1>3, <1>7, <1>9, <1>10, <1>11, JobFacts DEF LoopFine

\* A task is given up by the loop.
LEMMA LoopTerminatesFine ==
  ASSUME IInv, Fine(S), NEW t, AtLoop(t), NEW kind, Do(terminateTask(S, <<"loop">>, t, kind))
  PROVE  Fine(S')
  <1>1. PICK u, j, r : u = S /\ j = <<"loop">> /\ r = terminateTask(u, j, t, kind)
    OBVIOUS
  <1>2. LoopFine(u, t)
    BY <1>1, LoopFinely
  <1>3. Fine(u) /\ j \in Jobs /\ t \in Tasks /\ u.mem[t] # NoTask
    BY <1>1, <1>2 DEF LoopFine
  <1>4. Leads(u, r)
    BY <1>1, <1>3, FineTerminate
  <1> QED BY <1>1, <1>4, FineEnds

\* OutOfTries.
LEMMA OutOfTriesFine ==
  ASSUME IInv, Fine(S), NEW t \in Tasks, OutOfTries(t)
  PROVE  Fine(S')
  <1>1. AtLoop(t)
    BY LoopLooks DEF OutOfTries
  <1> QED BY <1>1, LoopTerminatesFine DEF OutOfTries

\* AdmissionRefused.
LEMMA AdmissionRefusedFine ==
  ASSUME IInv, Fine(S), NEW t \in Tasks, AdmissionRefused(t)
  PROVE  Fine(S')
  <1>1. AtLoop(t)
    BY LoopLooks DEF AdmissionRefused
  <1> QED BY <1>1, LoopTerminatesFine DEF AdmissionRefused

\* A task is taken from the queue, or from the compactor's list.
LEMMA LoopTakes ==
  ASSUME IInv, NEW t, AtLoop(t), NEW s,
         \/ t \in queue /\ s = [S EXCEPT !.queue = @ \ {t}]
         \/ t \in packing /\ s = [S EXCEPT !.packing = @ \ {t}]
  PROVE  TakenOff(s, t)
  <1>1. queue \cap packing = {}
    BY SFacts DEF AtLoop, Inv, Books
  <1>2. PICK qu, pk : qu = queue \ {t} /\ pk = packing \ {t}
    OBVIOUS
  <1>3. qu = queue \/ t \in queue
    BY <1>2
  <1>4. pk = packing \/ t \in packing
    BY <1>2
  <1>5. Is(s, mem, disk, qu, pk, timers, wake, pool, jobs)
    <2>1. CASE t \in queue /\ s = [S EXCEPT !.queue = @ \ {t}]
      <3>1. pk = packing
        BY <1>1, <1>4, <2>1
      <3>2. Is(s, mem, disk, qu, packing, timers, wake, pool, jobs)
        BY <1>2, <2>1, SFacts DEF Is, Fields
      <3> QED BY <3>1, <3>2
    <2>2. CASE t \in packing /\ s = [S EXCEPT !.packing = @ \ {t}]
      <3>1. qu = queue
        BY <1>1, <1>3, <2>2
      <3>2. Is(s, mem, disk, queue, pk, timers, wake, pool, jobs)
        BY <1>2, <2>2, SFacts DEF Is, Fields
      <3> QED BY <3>1, <3>2
    <2> QED BY <2>1, <2>2
  <1>6. /\ Is(s, mem, disk, qu, pk, timers, wake, pool, jobs)
        /\ qu \subseteq queue /\ pk \subseteq packing /\ t \notin qu \cup pk
        /\ \A x \in queue \cup packing : x = t \/ x \in qu \cup pk
    BY <1>2, <1>5
  <1> QED BY <1>6 DEF TakenOff

\* The task goes to the provider or to the compactor.
LEMMA LoopSendsFine ==
  ASSUME IInv, Fine(S), NEW t, AtLoop(t), NEW s, TakenOff(s, t), NEW b, Tidy(b), NEW op \in {"model", "compact"},
         Do(Push(Persist(Put(s, t, b), t), ModelJob(t), <<Then(op, t)>>))
  PROVE  Fine(S')
  <1>1. LoopFine(s, t)
    BY LoopFinely
  <1>2. PICK m, f, j, r : m = Persist(Put(s, t, b), t) /\ f = Then(op, t) /\ j = ModelJob(t) /\ r = Push(m, j, <<f>>)
    OBVIOUS
  <1>3. Fine(s) /\ t \in Tasks /\ (Rests(s, t) \/ Heeds(s.mem[t], b)) /\ j \in Jobs
    BY <1>1, <1>2 DEF LoopFine
  <1>4. Leads(s, m) /\ Fine(m)
    BY <1>2, <1>3, FinePutPersist
  <1>5. f.op # "dispatch"
    BY <1>2 DEF Then, Frame
  <1>6. Leads(m, r)
    BY <1>2, <1>3, <1>4, <1>5, FinePushOne
  <1> QED BY <1>2, <1>6, FineEnds

\* Admit.
LEMMA AdmitFine ==
  ASSUME IInv, Fine(S), NEW t \in Tasks, Admit(t)
  PROVE  Fine(S')
  <1>1. AtLoop(t) /\ t \in queue
    BY LoopLooks DEF Admit
  <1>2. PICK s, o, d, b : /\ s = [S EXCEPT !.queue = @ \ {t}] /\ o = mem[t] /\ d = transition(o, "RUNNING", "")
                          /\ b = [d EXCEPT !.tries = @ + 1]
    OBVIOUS
  <1>3. TakenOff(s, t)
    BY <1>1, <1>2, LoopTakes
  <1>4. LoopFine(s, t)
    BY <1>1, <1>3, LoopFinely
  <1>5. Tidy(d) /\ d # NoTask
    <2>1. PICK st, why : st = "RUNNING" /\ why = ""
      OBVIOUS
    <2>2. st \in {"READY", "RUNNING", "BLOCKED", "TERMINATED"} /\ d = transition(o, st, why)
      BY <1>2, <2>1
    <2>3. Tidy(o) /\ o # NoTask
      BY <1>2, <1>4 DEF LoopFine
    <2> QED BY <2>2, <2>3, TidyTransition
  <1>6. Tidy(b)
    <2>1. PICK v : v = d.tries + 1
      OBVIOUS
    <2>2. b = [d EXCEPT !.tries = v]
      BY <1>2, <2>1
    <2>3. Tidy([d EXCEPT !.tries = v])
      BY <1>5, TidyWrites
    <2> QED BY <2>2, <2>3
  <1>7. PICK op : op = "model"
    OBVIOUS
  <1>8. Do(Push(Persist(Put(s, t, b), t), ModelJob(t), <<Then(op, t)>>)) /\ op \in {"model", "compact"}
    BY <1>2, <1>7 DEF Admit
  <1> QED BY <1>1, <1>3, <1>6, <1>8, LoopSendsFine

\* StartCompaction.
LEMMA StartCompactionFine ==
  ASSUME IInv, Fine(S), NEW t \in Tasks, StartCompaction(t)
  PROVE  Fine(S')
  <1>1. AtLoop(t) /\ t \in packing
    BY LoopLooks DEF StartCompaction
  <1>2. PICK s, o, d : s = [S EXCEPT !.packing = @ \ {t}] /\ o = mem[t] /\ d = transition(o, "RUNNING", "")
    OBVIOUS
  <1>3. TakenOff(s, t)
    BY <1>1, <1>2, LoopTakes
  <1>4. LoopFine(s, t)
    BY <1>1, <1>3, LoopFinely
  <1>5. Tidy(d)
    <2>1. PICK st, why : st = "RUNNING" /\ why = ""
      OBVIOUS
    <2>2. st \in {"READY", "RUNNING", "BLOCKED", "TERMINATED"} /\ d = transition(o, st, why)
      BY <1>2, <2>1
    <2>3. Tidy(o) /\ o # NoTask
      BY <1>2, <1>4 DEF LoopFine
    <2> QED BY <2>2, <2>3, TidyTransition
  <1>6. PICK op : op = "compact"
    OBVIOUS
  <1>7. Do(Push(Persist(Put(s, t, d), t), ModelJob(t), <<Then(op, t)>>)) /\ op \in {"model", "compact"}
    BY <1>2, <1>6 DEF StartCompaction
  <1> QED BY <1>1, <1>3, <1>5, <1>7, LoopSendsFine

\* Nodes are about to be delegated.
LEMMA FineDispatch ==
  ASSUME NEW s, Fine(s), NEW j \in Jobs, NEW f, Kept(s, f), NEW r, r = Push(s, j, <<f>>)
  PROVE  Fine(r)
  <1>1. PICK p : p = <<f>>
    OBVIOUS
  <1>2. DOMAIN s = Fields /\ DOMAIN s.jobs = Jobs /\ \A i \in Jobs : IsStack(s.jobs[i])
    BY FineParts
  <1>3. DOMAIN r = Fields /\ r.mem = s.mem /\ r.disk = s.disk /\ r.jobs = [s.jobs EXCEPT ![j] = p \o @]
    BY <1>1, <1>2 DEF Push, Fields
  <1>4. DOMAIN r.jobs = Jobs /\ r.jobs[j] = p \o s.jobs[j] /\ \A i \in Jobs : i # j => r.jobs[i] = s.jobs[i]
    BY <1>2, <1>3
  <1>5. IsStack(p) /\ ToSet(p) = {f}
    BY <1>1, OneFrame DEF ToSet
  <1>6. IsStack(r.jobs[j]) /\ ToSet(r.jobs[j]) = ToSet(p) \cup ToSet(s.jobs[j])
    <2>1. PICK q : q = s.jobs[j] /\ IsStack(q)
      BY <1>2
    <2>2. IsStack(p \o q) /\ ToSet(p \o q) = ToSet(p) \cup ToSet(q)
      BY <1>5, <2>1, StackOn
    <2> QED BY <1>4, <2>1, <2>2
  <1>7. ASSUME NEW i \in Jobs PROVE IsStack(r.jobs[i]) /\ \A g \in Held(r, i) : g \in Held(s, i) \/ g = f
    BY <1>2, <1>4, <1>5, <1>6 DEF Held
  <1>8. ASSUME NEW i \in Jobs, NEW g \in Held(r, i) PROVE Kept(r, g)
    <2>1. Kept(s, g)
      BY <1>7 DEF Fine
    <2> QED BY <1>3, <2>1 DEF Kept
  <1>9. DOMAIN r.mem = Tasks /\ DOMAIN r.disk = Tasks /\ \A t \in Tasks : Tidy(r.mem[t]) /\ Tidy(r.disk[t])
    BY <1>3, FineParts
  <1> QED BY <1>3, <1>4, <1>7, <1>8, <1>9 DEF Fine

\* The task is queued again with another graph.
LEMMA LoopAgainFine ==
  ASSUME IInv, Fine(S), NEW t, AtLoop(t), NEW s, TakenOff(s, t), NEW h, GraphTidy(h),
         Waiting(h, activeAsyncWorkPendingIds(mem[t])), h.cur # NoNode => Mirrors("READY", h.nodes[h.cur].st),
         NEW fit \in Fits, NEW c, c = [mem[t] EXCEPT !.graph = h],
         Do(Persist(prepareTaskForQueue(Put(s, t, c), <<"loop">>, t, fit), t))
  PROVE  Fine(S')
  <1>1. LoopFine(s, t)
    BY LoopFinely
  <1>2. PICK j, q, p, r : j = <<"loop">> /\ q = Put(s, t, c) /\ p = prepareTaskForQueue(q, j, t, fit) /\ r = Persist(p, t)
    OBVIOUS
  <1>3. PICK o : o = mem[t]
    OBVIOUS
  <1>4. Fine(s) /\ t \in Tasks /\ Rests(s, t) /\ j \in Jobs /\ Tidy(o) /\ o # NoTask /\ o.st = "READY"
    BY <1>1, <1>2, <1>3 DEF LoopFine
  <1>5. Tidy(c) /\ c # NoTask
    <2>1. h.cur # NoNode /\ Live(o) => Mirrors(o.st, h.nodes[h.cur].st)
      BY <1>4
    <2>2. Waiting(h, activeAsyncWorkPendingIds(o)) /\ c = [o EXCEPT !.graph = h]
      BY <1>3
    <2> QED BY <1>4, <2>1, <2>2, TidyGraph
  <1>6. Leads(s, q) /\ q.mem[t] = c
    <2>1. Rests(s, t) \/ Heeds(s.mem[t], c)
      BY <1>4
    <2> QED BY <1>2, <1>4, <1>5, <2>1, FinePut
  <1>7. Fine(q) /\ q.mem[t] # NoTask
    BY <1>5, <1>6 DEF Leads
  <1>8. Leads(q, p)
    BY <1>2, <1>4, <1>7, FinePrepare
  <1>9. Fine(p)
    BY <1>8 DEF Leads
  <1>10. Leads(p, r)
    BY <1>2, <1>4, <1>9, FinePersist
  <1>11. Do(r)
    BY <1>2
  <1> QED BY <1>10, <1>11, FineEnds

\* The nodes that are ready and not the task's own.
LEMMA ReadyEligible ==
  ASSUME NEW o, o # NoTask, NEW g, g = o.graph, g # NoGraph, g.cur = NoNode, GraphOK(g),
         NEW kids, kids = {a \in readyAgentWorkNodes(g) : g.nodes[a].who # "self"}, NEW x, x = SetToSeq(kids)
  PROVE  DOMAIN x = 1 .. Len(x) /\ Eligible(o, x)
  <1>1. IsFiniteSet(DOMAIN g.nodes)
    BY DEF GraphOK
  <1>2. kids \subseteq DOMAIN g.nodes
    BY DEF readyAgentWorkNodes
  <1>3. IsFiniteSet(kids)
    BY <1>1, <1>2, FS_Subset
  <1>4. x \in Seq(kids)
    BY <1>3, Listing
  <1>5. DOMAIN x = 1 .. Len(x) /\ \A i \in DOMAIN x : x[i] \in kids
    <2>1. PICK q, Y : q = x /\ Y = kids
      OBVIOUS
    <2>2. q \in Seq(Y)
      BY <1>4, <2>1
    <2>3. DOMAIN q = 1 .. Len(q) /\ \A i \in DOMAIN q : q[i] \in Y
      BY <2>2
    <2> QED BY <2>1, <2>3
  <1>6. \A a \in kids : /\ a \in DOMAIN g.nodes /\ g.nodes[a].who # "self" /\ g.nodes[a].st \in {"pending", "ready"}
                        /\ g.nodes[a].deps \subseteq Settled(g)
    BY DEF readyAgentWorkNodes
  <1> QED BY <1>5, <1>6 DEF Eligible

\* The nodes that the loop delegates, and the state once the task is off the queue.
Handed(g) == {a \in readyAgentWorkNodes(g) : g.nodes[a].who # "self"}
Unqueued(t) == [S EXCEPT !.queue = @ \ {t}]

\* A graph that is queued again, once nothing is left to delegate.
Redrawn(g, kids, h) ==
  \/ h = enterWorkGraphPlan(g)
  \/ \E a \in readyAgentWorkNodes(g) : h = activateSelfWorkGraphNode(g, a) /\ kids = {}

\* The task o is queued again with the graph h.
Redraws(s, t, o, h, fit) ==
  Do(Persist(prepareTaskForQueue(Put(s, t, [o EXCEPT !.graph = h]), <<"loop">>, t, fit), t))

\* AdvanceGraph, the cases of its next step.
LEMMA AdvancedGraph ==
  ASSUME NEW t \in Tasks, NEW fit \in Fits, AdvanceGraph(t, fit), NEW s, s = Unqueued(t),
         NEW o, o = mem[t], NEW g, g = o.graph, NEW b, b = transition(o, "RUNNING", ""), NEW away, away = Put(s, t, b),
         NEW kids, kids = Handed(g),
         NEW m, m = Persist(away, t), NEW f, f = Frame("dispatch", t, SetToSeq(kids)), NEW e, e = Then("settle", t)
  PROVE  \/ Do(Push(m, <<"loop">>, <<f>>))
         \/ Do(Push(away, <<"loop">>, <<e>>))
         \/ \E h : Redraws(s, t, o, h, fit) /\ Redrawn(g, kids, h)
  BY DEF AdvanceGraph, Redrawn, Redraws, Handed, Unqueued

\* AdvanceGraph.
LEMMA AdvanceGraphFine ==
  ASSUME IInv, Fine(S), NEW t \in Tasks, NEW fit \in Fits, AdvanceGraph(t, fit)
  PROVE  Fine(S')
  <1>1. AtLoop(t) /\ t \in queue
    BY LoopLooks DEF AdvanceGraph
  <1>2. PICK s, o, g, b, kids : /\ s = [S EXCEPT !.queue = @ \ {t}] /\ o = mem[t] /\ g = o.graph
                                /\ b = transition(o, "RUNNING", "")
                                /\ kids = {a \in readyAgentWorkNodes(g) : g.nodes[a].who # "self"}
    OBVIOUS
  <1>3. TakenOff(s, t)
    BY <1>1, <1>2, LoopTakes
  <1>4. LoopFine(s, t)
    BY <1>1, <1>3, LoopFinely
  <1>5. PICK j, away, x, f, e : /\ j = <<"loop">> /\ away = Put(s, t, b) /\ x = SetToSeq(kids)
                                /\ f = Frame("dispatch", t, x) /\ e = Then("settle", t)
    OBVIOUS
  <1>6. PICK m, r1, r2 : m = Persist(away, t) /\ r1 = Push(m, j, <<f>>) /\ r2 = Push(away, j, <<e>>)
    OBVIOUS
  <1>7. \/ Do(r1)
        \/ Do(r2)
        \/ \E h : Redraws(s, t, o, h, fit) /\ Redrawn(g, kids, h)
    <2>1. f = Frame("dispatch", t, SetToSeq(kids))
      BY <1>5
    <2>2. \/ Do(Push(m, <<"loop">>, <<f>>))
          \/ Do(Push(away, <<"loop">>, <<e>>))
          \/ \E h : Redraws(s, t, o, h, fit) /\ Redrawn(g, kids, h)
      <3>1. /\ s = Unqueued(t) /\ o = mem[t] /\ g = o.graph /\ b = transition(o, "RUNNING", "")
            /\ away = Put(s, t, b) /\ kids = Handed(g)
            /\ m = Persist(away, t) /\ f = Frame("dispatch", t, SetToSeq(kids)) /\ e = Then("settle", t)
        BY <1>2, <1>5, <1>6, <2>1 DEF Handed, Unqueued
      <3> QED BY <3>1, AdvancedGraph
    <2> QED BY <1>5, <1>6, <2>2
  <1>8. Fine(s) /\ Rests(s, t) /\ j \in Jobs /\ Tidy(o) /\ o # NoTask /\ o.st = "READY" /\ s.mem[t] = o
    BY <1>2, <1>4, <1>5 DEF LoopFine
  <1>9. g # NoGraph /\ g.cur = NoNode /\ GraphOK(g)
    <2>1. g # NoGraph /\ agentWorkGraphMode(g) = "waiting"
      BY <1>2 DEF AdvanceGraph, GraphDriven
    <2>2. GraphOK(g)
      BY <1>1, <1>2 DEF AtLoop, Block
    <2> QED BY <2>1, <2>2 DEF agentWorkGraphMode
  <1>10. PICK X : X = activeAsyncWorkPendingIds(o)
    OBVIOUS
  <1>11. GraphTidy(g) /\ Waiting(g, X)
    BY <1>2, <1>8, <1>9, <1>10, TidyFacts DEF Matched
  <1>12. Tidy(b) /\ Heeds(o, b)
    <2>1. PICK st, why : st = "RUNNING" /\ why = ""
      OBVIOUS
    <2>2. st \in {"READY", "RUNNING", "BLOCKED", "TERMINATED"} /\ b = transition(o, st, why)
      BY <1>2, <2>1
    <2> QED BY <1>8, <2>2, TidyTransition
  <1>13. Leads(s, away) /\ away.mem[t] = b
    <2>1. Rests(s, t) \/ Heeds(s.mem[t], b)
      BY <1>8
    <2> QED BY <1>5, <1>8, <1>12, <2>1, FinePut
  <1>14. Fine(away)
    BY <1>13 DEF Leads
  <1>15. CASE Do(r1)
    <2>1. Leads(away, m) /\ m.mem = away.mem
      BY <1>6, <1>14, FinePersist
    <2>2. Fine(m)
      BY <2>1 DEF Leads
    <2>3. f.op = "dispatch" /\ f.t = t /\ f.x = x
      BY <1>5 DEF Frame
    <2>4. DOMAIN x = 1 .. Len(x) /\ Eligible(o, x)
      <3>1. g = o.graph /\ kids = {a \in readyAgentWorkNodes(g) : g.nodes[a].who # "self"} /\ x = SetToSeq(kids)
        BY <1>2, <1>5
      <3> QED BY <1>8, <1>9, <3>1, ReadyEligible
    <2>5. Eligible(m.mem[t], x)
      BY <1>12, <1>13, <2>1, <2>4 DEF Heeds
    <2>6. Kept(m, f)
      BY <2>3, <2>4, <2>5 DEF Kept
    <2>7. Fine(r1)
      BY <1>6, <1>8, <2>2, <2>6, FineDispatch
    <2> QED BY <1>15, <2>7, FineDone
  <1>16. CASE Do(r2)
    <2>1. e.op # "dispatch"
      BY <1>5 DEF Then, Frame
    <2>2. Leads(away, r2)
      BY <1>6, <1>8, <1>14, <2>1, FinePushOne
    <2> QED BY <1>16, <2>2, FineEnds
  <1>17. ASSUME NEW h, Redrawn(g, kids, h), Redraws(s, t, o, h, fit)
         PROVE  Fine(S')
    <2>1. PICK c : c = [o EXCEPT !.graph = h]
      OBVIOUS
    <2>2. Do(Persist(prepareTaskForQueue(Put(s, t, c), <<"loop">>, t, fit), t)) /\ c = [mem[t] EXCEPT !.graph = h]
      BY <1>2, <1>17, <2>1 DEF Redraws
    <2>3. GraphTidy(h) /\ Waiting(h, X) /\ (h.cur # NoNode => Mirrors("READY", h.nodes[h.cur].st))
      <3>1. CASE h = enterWorkGraphPlan(g)
        BY <1>9, <1>11, <3>1, TidyPlanning
      <3>2. CASE \E a \in readyAgentWorkNodes(g) : h = activateSelfWorkGraphNode(g, a) /\ kids = {}
        <4>1. PICK a \in readyAgentWorkNodes(g) : h = activateSelfWorkGraphNode(g, a) /\ kids = {}
          BY <3>2
        <4>2. g.nodes[a].who = "self"
          BY <1>2, <4>1
        <4>3. GraphTidy(h) /\ h.cur = a /\ h.nodes[a].st = "ready" /\ Waiting(h, X)
          BY <1>11, <4>1, <4>2, TidyActivated
        <4> QED BY <4>3 DEF Mirrors
      <3> QED BY <1>17, <3>1, <3>2 DEF Redrawn
    <2>4. Waiting(h, activeAsyncWorkPendingIds(mem[t]))
      BY <1>2, <1>10, <2>3
    <2> QED BY <1>1, <1>3, <2>2, <2>3, <2>4, LoopAgainFine
  <1> QED BY <1>7, <1>15, <1>16, <1>17

\* DispatchNodes.
LEMMA DispatchNodesFine ==
  ASSUME IInv, Fine(S), NEW fit \in Fits, DispatchNodes(fit)
  PROVE  Fine(S')
  <1>1. PICK j, t, nodes : j = <<"loop">> /\ t = jobs[j][1].t /\ nodes = jobs[j][1].x
    OBVIOUS
  <1>2. PICK s, n, asks : s = Pop(S, j) /\ n = Len(nodes) /\ asks = toGraphChildRequest(mem[t].graph, nodes)
    OBVIOUS
  <1>3. PICK kids, e : kids = NewIds(S, t, n) /\ e = <<>>
    OBVIOUS
  <1>4. PICK fn, tr : fn = Frame("failnodes", t, nodes) /\ tr = Frame("try", t, nodes)
    OBVIOUS
  <1>5. PICK u1, u2 : u1 = Push(s, j, <<fn>>) /\ u2 = Push(s, j, <<tr>>)
    OBVIOUS
  <1>6. PICK r1, r2 : r1 = Reject(u1, j, t, fit) /\ r2 = startAsyncWork(u2, j, t, e, kids, asks, nodes)
    OBVIOUS
  <1>7. At(<<"loop">>, "dispatch")
    BY DEF DispatchNodes
  <1>8. Do(u1) \/ Do(r1) \/ (Do(r2) /\ Len(kids) = n)
    BY <1>1, <1>2, <1>3, <1>4, <1>5, <1>6 DEF DispatchNodes
  <1>9. AtDispatch(s, j, t) /\ n \in Nat
    BY <1>1, <1>2, <1>7, DispatchTaken
  <1>10. Inv(s, phase, {}) /\ s.mem = mem /\ t \in Tasks /\ mem[t] # NoTask /\ s.jobs[j] = <<>> /\ j \in Jobs
    BY <1>9 DEF AtDispatch, Known
  <1>11. PICK f : f = jobs[j][1]
    OBVIOUS
  <1>12. jobs[j] # <<>> /\ f.op = "dispatch" /\ f.t = t /\ f.x = nodes
    BY <1>1, <1>7, <1>11 DEF At
  <1>13. Leads(S, s) /\ Fine(s)
    BY <1>2, <1>10, <1>11, <1>12, FineTake DEF FineTaken
  <1>14. DOMAIN nodes = 1 .. n /\ Eligible(mem[t], nodes)
    <2>1. PICK u : u = S
      OBVIOUS
    <2>2. u.jobs = jobs /\ u.mem = mem /\ Fine(u)
      BY <2>1, SFacts
    <2>3. IsStack(u.jobs[j])
      BY <1>10, <2>2, FineParts
    <2>4. f \in Held(u, j)
      <3>1. IsStack(jobs[j])
        BY <2>2, <2>3
      <3>2. Len(jobs[j]) \in Nat /\ Len(jobs[j]) # 0 /\ \A i \in 1 .. Len(jobs[j]) : jobs[j][i] \in ToSet(jobs[j])
        BY <1>12, <3>1, StackFacts
      <3>3. jobs[j][1] \in ToSet(jobs[j])
        BY <3>2
      <3> QED BY <1>11, <2>2, <3>3 DEF Held
    <2>5. Kept(u, f)
      BY <1>10, <2>2, <2>4 DEF Fine
    <2> QED BY <1>2, <1>12, <2>2, <2>5 DEF Kept
  <1>15. Rests(s, t)
    <2>1. PICK ph, L : ph = phase /\ L = {}
      OBVIOUS
    <2>2. Inv(s, ph, L) /\ s.jobs[<<"loop">>] = <<>>
      BY <1>1, <1>10, <2>1
    <2> QED BY <1>10, <2>2, RestsIdle
  <1>16. fn.op # "dispatch" /\ tr.op # "dispatch"
    BY <1>4 DEF Frame
  <1>17. Leads(s, u1) /\ u1.mem = s.mem
    BY <1>5, <1>10, <1>13, <1>16, FinePushOne
  <1>18. Fine(u1)
    BY <1>17 DEF Leads
  <1>19. Leads(u1, r1)
    <2>1. u1.mem[t] # NoTask
      BY <1>10, <1>17
    <2> QED BY <1>6, <1>10, <1>18, <2>1, FineReject
  <1>20. CASE Do(r2) /\ Len(kids) = n
    <2>1. Leads(s, u2) /\ u2.mem = s.mem
      BY <1>5, <1>10, <1>13, <1>16, FinePushOne
    <2>2. Fine(u2) /\ Rests(u2, t) /\ u2.mem[t] # NoTask /\ u2.mem = mem
      BY <1>10, <1>15, <2>1 DEF Leads
    <2>3. NewKids(u2, t, kids)
      BY <1>3, <1>9, <2>2, KidsNew
    <2>4. ToSet(e) \cap DOMAIN u2.mem[t].works = {}
      <3>1. ToSet(e) = {}
        BY <1>3, SuffixNone, OneFrame
      <3> QED BY <3>1
    <2>5. Given(u2.mem[t], kids, nodes)
      <3>1. kids \in Seq(Tasks)
        BY <2>3 DEF NewKids
      <3>2. DOMAIN kids = 1 .. n
        BY <1>20, <3>1
      <3> QED BY <1>14, <2>2, <3>2 DEF Given
    <2>6. nodes = <<>> \/ (Given(u2.mem[t], kids, nodes) /\ Rests(u2, t))
      BY <2>2, <2>5
    <2>7. Leads(u2, r2)
      BY <1>6, <1>10, <2>2, <2>3, <2>4, <2>6, FineStart
    <2> QED BY <1>20, <2>7, FineEnds
  <1> QED BY <1>8, <1>17, <1>19, <1>20, FineEnds

\* FailNodes.
LEMMA FailNodesFine ==
  ASSUME IInv, Fine(S), NEW fit \in Fits, FailNodes(fit)
  PROVE  Fine(S')
  <1>1. PICK j, t, nodes : j = <<"loop">> /\ t = jobs[j][1].t /\ nodes = jobs[j][1].x
    OBVIOUS
  <1>2. PICK s, o, as : s = Pop(S, j) /\ o = mem[t] /\ as = ToSet(nodes)
    OBVIOUS
  <1>3. PICK b : b = [o EXCEPT !.graph = failWorkGraphNodes(@, as)]
    OBVIOUS
  <1>4. PICK c : c = IF b.st = "RUNNING" THEN transition(b, "READY", "graph_replan") ELSE b
    OBVIOUS
  <1>5. PICK r : r = Put(s, t, c)
    OBVIOUS
  <1>6. PICK q : q = IF r.mem[t].st = "READY" THEN prepareTaskForQueue(r, j, t, fit) ELSE r
    OBVIOUS
  <1>7. PICK z : z = Persist(q, t)
    OBVIOUS
  <1>8. At(j, "failnodes") /\ Do(z)
    BY <1>1, <1>2, <1>3, <1>4, <1>5, <1>6, <1>7, ZenonT(30) DEF FailNodes
  <1>9. AtFail(s, t)
    BY <1>1, <1>2, <1>8, FailTaken
  <1>10. /\ Inv(s, phase, {}) /\ s.mem = mem /\ s.mem[t] = o /\ t \in Tasks /\ o # NoTask /\ Block(o) /\ j \in Jobs
         /\ ~Looped(s, t)
    BY <1>1, <1>2, <1>9, JobFacts DEF AtFail, Known, Free
  <1>11. PICK f : f = jobs[j][1]
    OBVIOUS
  <1>12. jobs[j] # <<>>
    BY <1>8 DEF At
  <1>13. Leads(S, s) /\ Fine(s)
    BY <1>2, <1>10, <1>11, <1>12, FineTake DEF FineTaken
  <1>14. Rests(s, t)
    <2>1. PICK ph, L : ph = phase /\ L = {}
      OBVIOUS
    <2>2. Inv(s, ph, L)
      BY <1>10, <2>1
    <2> QED BY <1>10, <2>2, RestsOutside
  <1>15. Tidy(o)
    BY <1>10, <1>13, FineParts
  <1>16. Tidy(b) /\ b # NoTask
    <2>1. PICK g, h : g = o.graph /\ h = failWorkGraphNodes(g, as)
      OBVIOUS
    <2>2. b = [o EXCEPT !.graph = h]
      BY <1>3, <2>1
    <2>3. CASE g = NoGraph
      <3>1. h = NoGraph
        <4>1. PICK k, n, d : k = NoGraph /\ failWorkGraphNodes(g, as) = [k EXCEPT !.nodes = n, !.cur = d]
          BY <2>3, ZenonT(30) DEF failWorkGraphNodes
        <4>2. [k EXCEPT !.nodes = n, !.cur = d] = k
          BY <4>1 DEF NoGraph
        <4> QED BY <2>1, <4>1, <4>2
      <3>2. DOMAIN o = BlockFields /\ WorksTidy(o)
        BY <1>10, <1>15, TidyFacts
      <3>3. DOMAIN b = BlockFields /\ b.st = o.st /\ b.graph = o.graph /\ b.works = o.works
        BY <2>1, <2>2, <2>3, <3>1, <3>2 DEF BlockFields
      <3> QED BY <1>10, <1>15, <3>3, TidySame
    <2>4. CASE g # NoGraph
      <3>1. PICK X : X = activeAsyncWorkPendingIds(o)
        OBVIOUS
      <3>2. GraphTidy(g) /\ Waiting(g, X) /\ Mirrored(o)
        BY <1>10, <1>15, <2>1, <2>4, <3>1, TidyFacts DEF Matched
      <3>3. GraphTidy(h) /\ Waiting(h, X) /\ (h.cur # NoNode => h.cur = g.cur /\ h.nodes[h.cur] = g.nodes[h.cur])
        <4>1. h = failWorkGraphNodes(g, as)
          BY <2>1
        <4>2. /\ GraphTidy(h) /\ Waiting(h, X)
              /\ h.cur # NoNode => h.cur = g.cur /\ h.nodes[h.cur] = g.nodes[h.cur]
          BY <3>2, <4>1, TidyFailed, ZenonT(30)
        <4> QED BY <4>2
      <3>4. h.cur # NoNode /\ Live(o) => Mirrors(o.st, h.nodes[h.cur].st)
        BY <2>1, <3>2, <3>3 DEF Mirrored
      <3>5. Waiting(h, activeAsyncWorkPendingIds(o))
        BY <3>1, <3>3
      <3> QED BY <1>10, <1>15, <2>2, <3>3, <3>4, <3>5, TidyGraph
    <2> QED BY <2>3, <2>4
  <1>17. Tidy(c) /\ c # NoTask
    <2>1. CASE b.st = "RUNNING"
      <3>1. PICK st, why : st = "READY" /\ why = "graph_replan"
        OBVIOUS
      <3>2. st \in {"READY", "RUNNING", "BLOCKED", "TERMINATED"} /\ c = transition(b, st, why)
        BY <1>4, <2>1, <3>1
      <3> QED BY <1>16, <3>2, TidyTransition
    <2> QED BY <1>4, <1>16, <2>1
  <1>18. Leads(s, r) /\ r.mem[t] = c
    <2>1. Rests(s, t) \/ Heeds(s.mem[t], c)
      BY <1>14
    <2> QED BY <1>5, <1>10, <1>13, <1>17, <2>1, FinePut
  <1>19. Fine(r) /\ r.mem[t] # NoTask
    BY <1>17, <1>18 DEF Leads
  <1>20. Fine(q)
    <2>1. CASE r.mem[t].st = "READY"
      <3>1. q = prepareTaskForQueue(r, j, t, fit)
        BY <1>6, <2>1
      <3> QED BY <1>10, <1>19, <3>1, FinePrepare DEF Leads
    <2> QED BY <1>6, <1>19, <2>1
  <1>21. Leads(q, z)
    BY <1>7, <1>10, <1>20, FinePersist
  <1> QED BY <1>8, <1>21, FineEnds

----------------------------------------------------------------------------
(* The host *)

\* Everything waits, and s differs from S at most in the pool.
HostFine(s, t) ==
  /\ Fine(s) /\ s.mem = mem /\ Tidy(mem[t]) /\ Rests(s, t) /\ <<"host">> \in Jobs /\ <<"host">>[1] = "host"

LEMMA HostFinely ==
  ASSUME IInv, Fine(S), Quiet, NEW t \in Tasks, NEW s, DOMAIN s = Fields, s.mem = mem, s.disk = disk, s.jobs = jobs
  PROVE  HostFine(s, t)
  <1>1. PICK u, ph, L : u = S /\ ph = phase /\ L = {}
    OBVIOUS
  <1>2. /\ DOMAIN u = Fields /\ u.mem = mem /\ u.disk = disk /\ u.jobs = jobs /\ Fine(u)
    BY <1>1, SFacts
  <1>3. AtQuiet
    BY QuietFacts
  <1>4. Inv(u, ph, L) /\ <<"host">> \in Jobs /\ <<"host">>[1] = "host"
    BY <1>1, <1>3 DEF AtQuiet
  <1>5. u.jobs[<<"loop">>] = <<>>
    <2>1. <<"loop">> \in Jobs /\ <<"loop">>[1] = "loop"
      BY JobFacts
    <2> QED BY <1>2, <1>3, <2>1 DEF AtQuiet
  <1>6. Rests(u, t)
    BY <1>4, <1>5, RestsIdle
  <1>7. Leads(u, s)
    BY <1>2, FineRest
  <1>8. Fine(s) /\ Rests(s, t)
    BY <1>6, <1>7 DEF Leads
  <1>9. Tidy(mem[t])
    BY <1>2, FineParts
  <1> QED BY <1>4, <1>8, <1>9 DEF HostFine

\* Submit.
LEMMA SubmitFine ==
  ASSUME IInv, Fine(S), NEW t \in Tasks, NEW fit \in Fits, Submit(t, fit)
  PROVE  Fine(S')
  <1>1. PICK j, s, g : j = <<"host">> /\ s = [S EXCEPT !.pool = registerRoot(@, t)] /\ g = issueRootGrants(RootGrants[t])
    OBVIOUS
  <1>2. PICK b, q, p, r : b = createAgent(g) /\ q = Put(s, t, b) /\ p = prepareTaskForQueue(q, j, t, fit) /\ r = Persist(p, t)
    OBVIOUS
  <1>3. Quiet /\ Do(r)
    BY <1>1, <1>2 DEF Submit
  <1>4. DOMAIN s = Fields /\ s.mem = mem /\ s.disk = disk /\ s.jobs = jobs
    BY <1>1, SFacts DEF Fields
  <1>5. HostFine(s, t)
    BY <1>3, <1>4, HostFinely
  <1>6. Fine(s) /\ Rests(s, t) /\ j \in Jobs
    BY <1>1, <1>5 DEF HostFine
  <1>7. Tidy(b) /\ b # NoTask
    BY <1>2, TidyNew
  <1>8. Leads(s, q) /\ q.mem[t] = b
    <2>1. Rests(s, t) \/ Heeds(s.mem[t], b)
      BY <1>6
    <2> QED BY <1>2, <1>6, <1>7, <2>1, FinePut
  <1>9. Fine(q) /\ q.mem[t] # NoTask
    BY <1>7, <1>8 DEF Leads
  <1>10. Leads(q, p)
    BY <1>2, <1>6, <1>9, FinePrepare
  <1>11. Fine(p)
    BY <1>10 DEF Leads
  <1>12. Leads(p, r)
    BY <1>2, <1>11, FinePersist
  <1> QED BY <1>3, <1>12, FineEnds

\* Cancel.
LEMMA CancelFine ==
  ASSUME IInv, Fine(S), NEW t \in Tasks, Cancel(t)
  PROVE  Fine(S')
  <1>1. PICK j, u, kind : j = <<"host">> /\ u = S /\ kind = "cancelled"
    OBVIOUS
  <1>2. PICK r : r = terminateTask(u, j, t, kind)
    OBVIOUS
  <1>3. Quiet /\ Live(mem[t]) /\ Do(r)
    BY <1>1, <1>2 DEF Cancel
  <1>4. HostFine(u, t)
    BY <1>1, <1>3, SFacts, HostFinely
  <1>5. mem[t] # NoTask
    BY <1>3 DEF Live, NoTask
  <1>6. Fine(u) /\ u.mem[t] # NoTask /\ j \in Jobs
    BY <1>1, <1>4, <1>5 DEF HostFine
  <1>7. Leads(u, r)
    BY <1>2, <1>6, FineTerminate
  <1> QED BY <1>3, <1>7, FineEnds

\* WakeTask.
LEMMA WakeTaskFine ==
  ASSUME IInv, Fine(S), NEW t \in Tasks, NEW fit \in Fits, WakeTask(t, fit)
  PROVE  Fine(S')
  <1>1. PICK j, u, o : j = <<"host">> /\ u = S /\ o = mem[t]
    OBVIOUS
  <1>2. PICK b, r : b = appendContext(o) /\ r = Requeue(u, j, t, b, fit)
    OBVIOUS
  <1>3. Quiet /\ o # NoTask /\ Do(r)
    BY <1>1, <1>2 DEF WakeTask
  <1>4. HostFine(u, t)
    BY <1>1, <1>3, SFacts, HostFinely
  <1>5. Fine(u) /\ Tidy(o) /\ Rests(u, t) /\ j \in Jobs
    BY <1>1, <1>4 DEF HostFine
  <1>6. Tidy(b) /\ b # NoTask
    BY <1>2, <1>3, <1>5, TidyWrites
  <1>7. Leads(u, r)
    <2>1. Rests(u, t) \/ Heeds(u.mem[t], b)
      BY <1>5
    <2> QED BY <1>2, <1>5, <1>6, <2>1, FineRequeue
  <1> QED BY <1>3, <1>7, FineEnds

\* HumanDecides.
LEMMA HumanDecidesFine ==
  ASSUME IInv, Fine(S), NEW t \in Tasks, NEW ok \in BOOLEAN, NEW fit \in Fits, HumanDecides(t, ok, fit)
  PROVE  Fine(S')
  <1>1. PICK j, u : j = <<"host">> /\ u = S
    OBVIOUS
  <1>2. PICK st, grants : /\ st = IF ok THEN "granted" ELSE "denied"
                          /\ grants = IF ok THEN grantByHuman(mem[t].ask.reqs) ELSE <<>>
    OBVIOUS
  <1>3. PICK r : r = finishCapabilityRequest(u, j, t, st, grants, fit)
    OBVIOUS
  <1>4. Quiet /\ Live(mem[t]) /\ Do(r)
    BY <1>1, <1>2, <1>3 DEF HumanDecides
  <1>5. HostFine(u, t)
    BY <1>1, <1>4, SFacts, HostFinely
  <1>6. mem[t] # NoTask
    BY <1>4 DEF Live, NoTask
  <1>7. Fine(u) /\ u.mem[t] # NoTask /\ j \in Jobs /\ j[1] # "turn"
    BY <1>1, <1>5, <1>6 DEF HostFine
  <1>8. Leads(u, r)
    BY <1>3, <1>7, FineFinish
  <1> QED BY <1>4, <1>8, FineEnds

----------------------------------------------------------------------------
(* Crash and restart *)

\* The boot takes up its next frame; no request is under way and the loop is idle.
BootFine(s, j, t, op) ==
  /\ j \in Jobs /\ j[1] = "host" /\ Leads(S, s) /\ Fine(s) /\ s.mem = mem /\ s.disk = disk
  /\ \A x \in Tasks : Tidy(mem[x]) /\ Rests(s, x)
  /\ op \notin Nameless => t \in Tasks /\ mem[t] # NoTask

LEMMA BootFinely ==
  ASSUME IInv, Boots, Fine(S), NEW op, Booting(op), NEW j, j = <<"host">>, NEW s, s = Pop(S, j), NEW t, t = jobs[j][1].t
  PROVE  BootFine(s, j, t, op)
  <1>1. phase = "boot" /\ jobs[j] # <<>> /\ jobs[j][1].op = op
    BY DEF Booting, Boot, At
  <1>2. j \in Jobs /\ j[1] = "host"
    BY JobFacts
  <1>3. PICK f : f = jobs[j][1]
    OBVIOUS
  <1>4. FineTaken(s, j, f)
    BY <1>1, <1>2, <1>3, FineTake
  <1>5. Leads(S, s) /\ Fine(s) /\ s.mem = mem /\ s.disk = disk /\ \A x \in Tasks : Tidy(s.mem[x])
    BY <1>4, FineParts DEF FineTaken
  <1>6. op \notin Nameless => t \in Tasks /\ mem[t] # NoTask
    BY <1>1, <1>3, <1>4 DEF FineTaken
  <1>7. \A x \in Tasks : Rests(s, x)
    <2>1. PICK u, ph, L : u = S /\ ph = phase /\ L = {}
      OBVIOUS
    <2>2. Inv(u, ph, L) /\ u.jobs = jobs
      BY <2>1, SFacts DEF IInv
    <2>3. u.jobs[<<"loop">>] = <<>>
      BY <1>1, <2>2, JobFacts DEF Boots
    <2>4. \A x \in Tasks : Rests(u, x)
      BY <2>2, <2>3, RestsIdle
    <2> QED BY <1>5, <2>1, <2>4 DEF Leads
  <1> QED BY <1>2, <1>5, <1>6, <1>7 DEF BootFine

\* RestoreOrphan.
LEMMA RestoreOrphanFine ==
  ASSUME IInv, Boots, Fine(S), RestoreOrphan
  PROVE  Fine(S')
  <1>1. PICK j, op, kind : j = <<"host">> /\ op = "orphan" /\ kind = "cancelled"
    OBVIOUS
  <1>2. PICK t, s : t = jobs[j][1].t /\ s = Pop(S, j)
    OBVIOUS
  <1>3. PICK r : r = terminateTask(s, j, t, kind)
    OBVIOUS
  <1>4. Booting(op) /\ (Do(r) \/ Do(s))
    BY <1>1, <1>2, <1>3 DEF RestoreOrphan, Boot
  <1>5. BootFine(s, j, t, op)
    BY <1>1, <1>2, <1>4, BootFinely
  <1>6. Leads(S, s) /\ Fine(s) /\ j \in Jobs /\ t \in Tasks /\ s.mem[t] # NoTask
    BY <1>1, <1>5 DEF BootFine, Nameless, Sends
  <1>7. Leads(s, r)
    BY <1>3, <1>6, FineTerminate
  <1> QED BY <1>4, <1>6, <1>7, FineEnds, FineDone

\* Reconcile.
LEMMA ReconcileFine ==
  ASSUME IInv, Boots, Fine(S), Reconcile
  PROVE  Fine(S')
  <1>1. PICK j, op : j = <<"host">> /\ op = "reconcile"
    OBVIOUS
  <1>2. PICK t, s : t = jobs[j][1].t /\ s = Pop(S, j)
    OBVIOUS
  <1>3. PICK m : m = [p \in Tasks |-> IF ~Live(mem[p]) THEN mem[p] ELSE Reconciled(mem[p], Endings(p))]
    OBVIOUS
  <1>4. PICK r : r = [s EXCEPT !.mem = m]
    OBVIOUS
  <1>5. Booting(op) /\ Do(r)
    BY <1>1, <1>2, <1>3, <1>4 DEF Reconcile, Boot, Reconciled, Endings
  <1>6. BootFine(s, j, t, op)
    BY <1>1, <1>2, <1>5, BootFinely
  <1>7. Fine(s) /\ \A x \in Tasks : Tidy(mem[x]) /\ Rests(s, x)
    BY <1>6 DEF BootFine
  <1>8. ASSUME NEW p \in Tasks PROVE Tidy(m[p])
    <2>1. CASE ~Live(mem[p])
      BY <1>3, <1>7, <2>1
    <2>2. CASE Live(mem[p])
      <3>1. PICK b, kind, c : b = mem[p] /\ kind = Endings(p) /\ c = m[p]
        OBVIOUS
      <3>2. c = [completeSubagentWorks(b, kind) EXCEPT !.graph = completeDelegatedWorkGraphNodes(@, kind)]
        BY <1>3, <2>2, <3>1 DEF Reconciled
      <3>3. Tidy(b) /\ b # NoTask
        BY <1>7, <2>2, <3>1 DEF Live, NoTask
      <3>4. DOMAIN kind \subseteq Tasks
        BY <3>1 DEF Endings
      <3>5. Tidy(c)
        BY <3>2, <3>3, <3>4, TidyReconciled
      <3> QED BY <3>1, <3>5
    <2> QED BY <2>1, <2>2
  <1>9. /\ DOMAIN s = Fields /\ DOMAIN s.disk = Tasks /\ \A x \in Tasks : Tidy(s.disk[x])
    BY <1>7, FineParts
  <1>10. DOMAIN r = Fields /\ r.mem = m /\ r.disk = s.disk /\ r.jobs = s.jobs
    BY <1>4, <1>9 DEF Fields
  <1>11. DOMAIN r.mem = Tasks /\ \A x \in Tasks : Tidy(r.mem[x])
    BY <1>3, <1>8, <1>10
  <1>12. \A x \in Tasks : /\ Tidy(r.mem[x]) /\ Tidy(r.disk[x])
                          /\ Rests(s, x) \/ Heeds(s.mem[x], r.mem[x])
    BY <1>7, <1>9, <1>10, <1>11
  <1>13. Leads(s, r)
    BY <1>7, <1>9, <1>10, <1>11, <1>12, FineMem
  <1> QED BY <1>5, <1>13, FineEnds

\* RestoreRunning.
LEMMA RestoreRunningFine ==
  ASSUME IInv, Boots, Fine(S), RestoreRunning
  PROVE  Fine(S')
  <1>1. PICK j, op : j = <<"host">> /\ op = "rerun"
    OBVIOUS
  <1>2. PICK t, s : t = jobs[j][1].t /\ s = Pop(S, j)
    OBVIOUS
  <1>3. PICK o, st, why : o = mem[t] /\ st = "READY" /\ why = ""
    OBVIOUS
  <1>4. PICK b : b = transition(o, st, why)
    OBVIOUS
  <1>5. PICK r : r = Persist(Put(s, t, b), t)
    OBVIOUS
  <1>6. Booting(op) /\ (Do(r) \/ Do(s))
    BY <1>1, <1>2, <1>3, <1>4, <1>5 DEF RestoreRunning, Boot
  <1>7. BootFine(s, j, t, op)
    BY <1>1, <1>2, <1>6, BootFinely
  <1>8. Leads(S, s) /\ Fine(s) /\ t \in Tasks /\ o # NoTask /\ Tidy(o) /\ Rests(s, t)
    BY <1>1, <1>3, <1>7 DEF BootFine, Nameless, Sends
  <1>9. Tidy(b)
    <2>1. st \in {"READY", "RUNNING", "BLOCKED", "TERMINATED"}
      BY <1>3
    <2> QED BY <1>4, <1>8, <2>1, TidyTransition
  <1>10. Leads(s, r)
    <2>1. Rests(s, t) \/ Heeds(s.mem[t], b)
      BY <1>8
    <2> QED BY <1>5, <1>8, <1>9, <2>1, FinePutPersist
  <1> QED BY <1>6, <1>8, <1>10, FineEnds, FineDone

\* RestoreTools.
LEMMA RestoreToolsFine ==
  ASSUME IInv, Boots, Fine(S), RestoreTools
  PROVE  Fine(S')
  <1>1. PICK j, op : j = <<"host">> /\ op = "retool"
    OBVIOUS
  <1>2. PICK t, s0 : t = jobs[j][1].t /\ s0 = Pop(S, j)
    OBVIOUS
  <1>3. PICK o, pending : o = mem[t] /\ pending = IF Live(o) THEN Calls \cap activeAsyncWorkPendingIds(o) ELSE {}
    OBVIOUS
  <1>4. PICK barred, st : barred = {c \in pending : Unauthorized(o, c)} /\ st = [c \in barred |-> "failed"]
    OBVIOUS
  <1>5. PICK b : b = completeAsyncWorks(o, st)
    OBVIOUS
  <1>6. PICK s : s = IF barred = {} THEN s0 ELSE Put(s0, t, b)
    OBVIOUS
  <1>7. PICK p : p = ToolFrames(t, barred, pending)
    OBVIOUS
  <1>8. PICK r : r = Push(s, j, p)
    OBVIOUS
  <1>9. Booting(op) /\ Do(r)
    BY <1>1, <1>2, <1>3, <1>4, <1>5, <1>6, <1>7, <1>8, ZenonT(30) DEF RestoreTools, Boot, ToolFrames
  <1>10. BootFine(s0, j, t, op)
    BY <1>1, <1>2, <1>9, BootFinely
  <1>11. Fine(s0) /\ j \in Jobs /\ j[1] = "host" /\ t \in Tasks /\ o # NoTask /\ Tidy(o) /\ Rests(s0, t)
    BY <1>1, <1>3, <1>10 DEF BootFine, Nameless, Sends
  <1>12. Tidy(b)
    <2>1. DOMAIN o = BlockFields /\ WorksTidy(o)
      BY <1>11, TidyFacts
    <2>2. Ending(o, b, DOMAIN st) /\ b.graph = o.graph
      BY <1>5, <2>1, EndingWorks
    <2>3. DOMAIN st \subseteq Calls
      BY <1>3, <1>4
    <2> QED BY <1>11, <2>2, <2>3, TidyCalls
  <1>13. Fine(s)
    <2>1. CASE barred = {}
      BY <1>6, <1>11, <2>1
    <2>2. CASE barred # {}
      <3>1. s = Put(s0, t, b) /\ (Rests(s0, t) \/ Heeds(s0.mem[t], b))
        BY <1>6, <1>11, <2>2
      <3>2. Leads(s0, s)
        BY <1>11, <1>12, <3>1, FinePut
      <3> QED BY <3>2 DEF Leads
    <2> QED BY <2>1, <2>2
  <1>14. IsStack(p) /\ \A f \in ToSet(p) : f.op # "dispatch"
    <2>1. \A ph : StackOK(p, j, ph) /\ \A i \in DOMAIN p : p[i].op \in {"progress", "launch"} /\ p[i].t = t
      BY <1>7, <1>11, ToolStack
    <2>2. IsStack(p)
      BY <2>1 DEF StackOK
    <2>3. \A f \in ToSet(p) : \E i \in DOMAIN p : p[i] = f
      BY <2>2, StackFacts
    <2> QED BY <2>1, <2>2, <2>3
  <1>15. Leads(s, r)
    BY <1>8, <1>11, <1>13, <1>14, FinePush
  <1> QED BY <1>9, <1>15, FineEnds

\* The windows and the marks of a task are set again.
LEMMA FineLists ==
  ASSUME NEW s, Fine(s), NEW X, NEW r, r = [s EXCEPT !.timers = X] \/ r = [s EXCEPT !.wake = X]
  PROVE  Leads(s, r) /\ r.mem = s.mem
  <1>1. DOMAIN s = Fields
    BY FineParts
  <1>2. DOMAIN r = Fields /\ r.mem = s.mem /\ r.disk = s.disk /\ r.jobs = s.jobs
    BY <1>1 DEF Fields
  <1> QED BY <1>2, FineRest

\* Resume.
LEMMA ResumeFine ==
  ASSUME IInv, Boots, Fine(S), NEW fit \in Fits, Resume(fit)
  PROVE  Fine(S')
  <1>1. PICK j, op : j = <<"host">> /\ op = "resume"
    OBVIOUS
  <1>2. PICK t, s : t = jobs[j][1].t /\ s = Pop(S, j)
    OBVIOUS
  <1>3. PICK ti, wk : ti = s.timers \cup {t} /\ wk = s.wake \cup {t}
    OBVIOUS
  <1>4. PICK s1, s2 : s1 = [s EXCEPT !.timers = ti] /\ s2 = [s EXCEPT !.wake = wk]
    OBVIOUS
  <1>5. PICK s3 : s3 = deliverAsyncWorkUpdate(s2, j, t, fit)
    OBVIOUS
  <1>6. PICK r : r = IF ~Live(mem[t]) \/ ~hasUndeliveredAsyncWorkResults(mem[t]) THEN s
                     ELSE IF ~isActiveAsyncWorkComplete(mem[t]) /\ mem[t].due THEN s1
                     ELSE IF mem[t].st = "RUNNING" THEN s2
                     ELSE s3
    OBVIOUS
  <1>7. PICK q : q = IF r.mem[t].st = "READY" /\ t \notin r.queue \cup r.packing
                     THEN prepareTaskForQueue(r, j, t, fit) ELSE r
    OBVIOUS
  <1>8. Booting(op) /\ Do(q)
    BY <1>1, <1>2, <1>3, <1>4, <1>5, <1>6, <1>7, ZenonT(30) DEF Resume, Boot
  <1>9. BootFine(s, j, t, op)
    BY <1>1, <1>2, <1>8, BootFinely
  <1>10. Leads(S, s) /\ Fine(s) /\ j \in Jobs /\ t \in Tasks /\ s.mem = mem /\ s.mem[t] # NoTask
    BY <1>1, <1>9 DEF BootFine, Nameless, Sends
  <1>11. Leads(s, s1) /\ Leads(s, s2) /\ s1.mem = s.mem /\ s2.mem = s.mem
    BY <1>4, <1>10, FineLists
  <1>12. Fine(s1) /\ Fine(s2) /\ s2.mem[t] # NoTask /\ s1.mem[t] # NoTask
    BY <1>10, <1>11 DEF Leads
  <1>13. Leads(s2, s3)
    BY <1>5, <1>10, <1>12, FineDeliver
  <1>14. Fine(s3)
    BY <1>13 DEF Leads
  <1>15. Fine(r)
    BY <1>6, <1>10, <1>12, <1>14
  <1>16. Fine(q)
    <2>1. CASE r.mem[t].st = "READY" /\ t \notin r.queue \cup r.packing
      <3>1. q = prepareTaskForQueue(r, j, t, fit)
        BY <1>7, <2>1
      <3>2. r.mem[t] # NoTask
        BY <2>1 DEF NoTask
      <3> QED BY <1>10, <1>15, <3>1, <3>2, FinePrepare DEF Leads
    <2> QED BY <1>7, <1>15, <2>1
  <1> QED BY <1>8, <1>16, FineDone

\* Booted.
LEMMA BootedFine ==
  ASSUME IInv, Boots, Fine(S), Booted
  PROVE  Fine(S')
  <1>1. PICK j, op : j = <<"host">> /\ op = "booted"
    OBVIOUS
  <1>2. PICK t, s : t = jobs[j][1].t /\ s = Pop(S, j)
    OBVIOUS
  <1>3. Booting(op) /\ Do(s)
    BY <1>1, <1>2 DEF Booted, Boot
  <1>4. BootFine(s, j, t, op)
    BY <1>1, <1>2, <1>3, BootFinely
  <1> QED BY <1>3, <1>4, FineDone DEF BootFine

\* Nothing is about to be delegated.
LEMMA FineBare ==
  ASSUME NEW r, DOMAIN r = Fields, DOMAIN r.mem = Tasks, DOMAIN r.disk = Tasks, DOMAIN r.jobs = Jobs,
         \A t \in Tasks : Tidy(r.mem[t]) /\ Tidy(r.disk[t]),
         \A j \in Jobs : IsStack(r.jobs[j]) /\ \A f \in ToSet(r.jobs[j]) : f.op # "dispatch"
  PROVE  Fine(r)
  BY DEF Fine, Kept, Held

LEMMA EmptyBare == IsStack(<<>>) /\ \A f \in ToSet(<<>>) : f.op # "dispatch"
  BY SuffixNone, OneFrame

\* Nothing is in memory.
LEMMA FineVacant ==
  ASSUME NEW r, DOMAIN r = Fields, r.mem = Nothing, r.jobs = Idle, DOMAIN r.disk = Tasks, \A t \in Tasks : Tidy(r.disk[t])
  PROVE  Fine(r)
  <1>1. DOMAIN r.mem = Tasks /\ \A t \in Tasks : Tidy(r.mem[t])
    BY DEF Nothing, Tidy
  <1>2. DOMAIN r.jobs = Jobs /\ \A j \in Jobs : r.jobs[j] = <<>>
    BY DEF Idle
  <1>3. \A j \in Jobs : IsStack(r.jobs[j]) /\ \A f \in ToSet(r.jobs[j]) : f.op # "dispatch"
    BY <1>2, EmptyBare
  <1> QED BY <1>1, <1>2, <1>3, FineBare

\* Restore.
LEMMA RestoreFine ==
  ASSUME IInv, Fine(S), Restore
  PROVE  Fine(S')
  <1>1. PICK known : known = Ordered(Stored)
    OBVIOUS
  <1>2. PICK q, po : q = BootStack(known) /\ po = registerRestored(Stored, {t \in Stored : Live(disk[t])})
    OBVIOUS
  <1>3. PICK r : r = [S EXCEPT !.mem = disk, !.pool = po, !.jobs[<<"host">>] = q]
    OBVIOUS
  <1>4. phase = "down" /\ Do(r)
    BY <1>1, <1>2, <1>3 DEF Restore, BootStack, Each
  <1>5. jobs = Idle
    BY <1>4 DEF IInv, Down
  <1>6. PICK j : j = <<"host">>
    OBVIOUS
  <1>7. j[1] = "host" /\ j \in Jobs
    BY <1>6, JobFacts
  <1>8. known \in Seq(Tasks)
    BY <1>1, OrderedFacts
  <1>9. Part(q, BootOps, ToSet(known))
    BY <1>2, <1>7, <1>8, BootStackFacts
  <1>10. IsStack(q) /\ \A f \in ToSet(q) : f.op # "dispatch"
    BY <1>9 DEF Part, BootOps
  <1>11. DOMAIN r = Fields /\ r.mem = disk /\ r.disk = disk /\ r.jobs = [jobs EXCEPT ![j] = q]
    BY <1>3, <1>6, SFacts DEF Fields
  <1>12. DOMAIN r.jobs = Jobs /\ \A i \in Jobs : r.jobs[i] = q \/ r.jobs[i] = <<>>
    BY <1>5, <1>7, <1>11 DEF Idle
  <1>13. \A i \in Jobs : IsStack(r.jobs[i]) /\ \A f \in ToSet(r.jobs[i]) : f.op # "dispatch"
    BY <1>10, <1>12, EmptyBare
  <1>14. DOMAIN disk = Tasks /\ \A t \in Tasks : Tidy(disk[t])
    BY FineParts, SFacts
  <1>15. Fine(r)
    BY <1>11, <1>12, <1>13, <1>14, FineBare
  <1> QED BY <1>4, <1>15, FineDone

\* Crash: the snapshots outlive the process.
LEMMA CrashFine ==
  ASSUME Fine(S), Crash
  PROVE  Fine(S')
  <1>1. PICK r : r = S'
    OBVIOUS
  <1>2. DOMAIN r = Fields /\ r.mem = mem' /\ r.disk = disk' /\ r.jobs = jobs'
    BY <1>1 DEF S, Fields
  <1>3. r.mem = Nothing /\ r.disk = disk /\ r.jobs = Idle
    BY <1>2 DEF Crash
  <1>4. DOMAIN disk = Tasks /\ \A t \in Tasks : Tidy(disk[t])
    BY FineParts, SFacts
  <1>5. Fine(r)
    BY <1>2, <1>3, <1>4, FineVacant
  <1> QED BY <1>1, <1>5

LEMMA InitFine ==
  Init => Fine(S)
  <1>1. SUFFICES ASSUME Init PROVE Fine(S)
    OBVIOUS
  <1>2. PICK r : r = S
    OBVIOUS
  <1>3. DOMAIN r = Fields /\ r.mem = Nothing /\ r.disk = Nothing /\ r.jobs = Idle
    BY <1>1, <1>2, SFacts DEF Init
  <1>4. DOMAIN r.disk = Tasks /\ \A t \in Tasks : Tidy(r.disk[t])
    BY <1>3 DEF Nothing, Tidy
  <1>5. Fine(r)
    BY <1>3, <1>4, FineVacant
  <1> QED BY <1>2, <1>5

\* Nothing happens.
LEMMA StutterFine ==
  ASSUME Fine(S), UNCHANGED vars
  PROVE  Fine(S')
  <1>1. S' = S
    BY DEF S, vars
  <1> QED BY <1>1

----------------------------------------------------------------------------
(* The graphs of every behaviour *)

\* What the jobs under way do.
LEMMA JobStepFine ==
  ASSUME IInv, Fine(S), NEW j \in Jobs, JobStep(j)
  PROVE  Fine(S')
  <1>1. CASE CancelChildren(j) \/ NotifyParent(j) \/ AsyncWorkProgress(j) \/ SendChild(j) \/ LaunchCalls(j)
    BY <1>1, CancelChildrenFine, NotifyParentFine, AsyncWorkProgressFine, SendChildFine, LaunchCallsFine
  <1>2. ASSUME NEW fit \in Fits,
               \/ DeliverWhenIdle(j, fit) \/ Settle(j, fit) \/ SendChildFails(j, fit) \/ EnqueueChild(j, fit)
               \/ PublishHop(j, fit) \/ AdvanceHop(j, fit) \/ ContinueParent(j, fit)
        PROVE  Fine(S')
    BY <1>2, DeliverWhenIdleFine, SettleFine, SendChildFailsFine, EnqueueChildFine, PublishHopFine,
       AdvanceHopFine, ContinueParentFine
  <1> QED BY <1>1, <1>2 DEF JobStep

\* What an answer, a refused answer or a failed request leads to.
LEMMA AnswerStepFine ==
  ASSUME IInv, Fine(S), NEW t \in Tasks, AnswerStep(t)
  PROVE  Fine(S')
  <1>1. CASE LateAnswer(t)
    BY <1>1, LateAnswerFine
  <1>2. ASSUME NEW fit \in Fits, RequestFails(t, fit) \/ AnswerRefused(t, fit) \/ EndCompaction(t, fit)
        PROVE  Fine(S')
    BY <1>2, RequestFailsFine, AnswerRefusedFine, EndCompactionFine
  <1>3. ASSUME NEW a \in Answers[t], NEW fit \in Fits,
               \/ AnswerFinal(t, a, fit) \/ AnswerWork(t, a, fit) \/ AnswerWait(t, a, fit)
               \/ AnswerGraph(t, a, fit) \/ AnswerAsk(t, a, fit) \/ AnswerDecide(t, a, fit)
        PROVE  Fine(S')
    BY <1>3, AnswerFinalFine, AnswerWorkFine, AnswerWaitFine, AnswerGraphFine, AnswerAskFine, AnswerDecideFine
  <1> QED BY <1>1, <1>2, <1>3 DEF AnswerStep

\* What the scheduling loop does.
LEMMA LoopStepFine ==
  ASSUME IInv, Fine(S), LoopStep
  PROVE  Fine(S')
  <1>1. ASSUME NEW t \in Tasks, OutOfTries(t) \/ Admit(t) \/ AdmissionRefused(t) \/ StartCompaction(t)
        PROVE  Fine(S')
    BY <1>1, OutOfTriesFine, AdmitFine, AdmissionRefusedFine, StartCompactionFine
  <1>2. ASSUME NEW t \in Tasks, NEW fit \in Fits, AdvanceGraph(t, fit) PROVE Fine(S')
    BY <1>2, AdvanceGraphFine
  <1>3. ASSUME NEW fit \in Fits, DispatchNodes(fit) \/ FailNodes(fit) PROVE Fine(S')
    BY <1>3, DispatchNodesFine, FailNodesFine
  <1> QED BY <1>1, <1>2, <1>3 DEF LoopStep

\* What restoreMany does.
LEMMA BootStepFine ==
  ASSUME IInv, Boots, Fine(S), BootStep
  PROVE  Fine(S')
  <1>1. CASE Restore \/ RestoreOrphan \/ Reconcile \/ RestoreRunning \/ RestoreTools \/ Booted
    BY <1>1, RestoreFine, RestoreOrphanFine, ReconcileFine, RestoreRunningFine, RestoreToolsFine, BootedFine
  <1>2. ASSUME NEW fit \in Fits, Resume(fit) PROVE Fine(S')
    BY <1>2, ResumeFine
  <1> QED BY <1>1, <1>2 DEF BootStep

\* What the host and the human do.
LEMMA OutsideFine ==
  ASSUME IInv, Fine(S), Host \/ Human
  PROVE  Fine(S')
  <1>1. ASSUME NEW t \in Tasks, NEW fit \in Fits, Submit(t, fit) \/ WakeTask(t, fit) PROVE Fine(S')
    BY <1>1, SubmitFine, WakeTaskFine
  <1>2. ASSUME NEW t \in Tasks, Cancel(t) PROVE Fine(S')
    BY <1>2, CancelFine
  <1>3. ASSUME NEW t \in Tasks, NEW ok \in BOOLEAN, NEW fit \in Fits, HumanDecides(t, ok, fit) PROVE Fine(S')
    BY <1>3, HumanDecidesFine
  <1> QED BY <1>1, <1>2, <1>3 DEF Host, Human

LEMMA NextFine ==
  ASSUME IInv, Boots, Fine(S), Next
  PROVE  Fine(S')
  <1>1. CASE \E j \in Jobs : JobStep(j)
    BY <1>1, JobStepFine
  <1>2. CASE \E c \in Calls : CallStep(c)
    BY <1>2, StartCallFine, EndCallFine DEF CallStep
  <1>3. CASE \E t \in Tasks : AnswerStep(t)
    BY <1>3, AnswerStepFine
  <1>4. CASE \E t \in Tasks, fit \in Fits : TimerFires(t, fit)
    BY <1>4, TimerFiresFine
  <1>5. CASE LoopStep
    BY <1>5, LoopStepFine
  <1>6. CASE BootStep
    BY <1>6, BootStepFine
  <1>7. CASE Human \/ Host
    BY <1>7, OutsideFine
  <1>8. CASE Crash
    BY <1>8, CrashFine
  <1> QED BY <1>1, <1>2, <1>3, <1>4, <1>5, <1>6, <1>7, <1>8 DEF Next, Process

\* Every graph, in memory or stored, keeps to its dependencies and to the work behind it,
\* whatever plans, results, failures and crashes come in whatever order.
THEOREM FineHolds == Spec => []Fine(S)
  <1>1. Init => Fine(S)
    BY InitFine
  <1>2. IInv /\ Boots /\ Fine(S) /\ [Next]_vars => Fine(S)'
    BY NextFine, StutterFine
  <1> QED BY <1>1, <1>2, IInvHolds, PTL DEF Spec

LEMMA FineBlock ==
  ASSUME Fine(S), NEW t \in Tasks, mem[t] # NoTask, mem[t].graph # NoGraph
  PROVE  GraphTidy(mem[t].graph) /\ Matched(mem[t])
  <1>1. Tidy(mem[t])
    BY FineParts, SFacts
  <1> QED BY <1>1, TidyFacts

LEMMA FineDepends ==
  ASSUME Fine(S)
  PROVE  DependenciesFirst
  <1>1. SUFFICES ASSUME NEW t \in Tasks, mem[t] # NoTask, mem[t].graph # NoGraph, NEW a \in DOMAIN mem[t].graph.nodes,
                        mem[t].graph.nodes[a].st \in {"running", "blocked", "completed"}
                 PROVE  mem[t].graph.nodes[a].deps \subseteq Settled(mem[t].graph)
    BY DEF DependenciesFirst, Registered
  <1>2. PICK g : g = mem[t].graph
    OBVIOUS
  <1>3. NodeTidy(g, a)
    BY <1>1, <1>2, FineBlock DEF GraphTidy
  <1> QED BY <1>1, <1>2, <1>3 DEF NodeTidy, Entered

LEMMA FineMatches ==
  ASSUME Fine(S)
  PROVE  GraphMatchesWork
  <1>1. SUFFICES ASSUME NEW t \in Tasks, Live(mem[t]), mem[t].graph # NoGraph, NEW g, g = mem[t].graph
                 PROVE  /\ \A a \in Delegated(g) : g.nodes[a].kid \in activeAsyncWorkPendingIds(mem[t])
                        /\ \A a, c \in Delegated(g) : g.nodes[a].kid = g.nodes[c].kid => a = c
                        /\ g.cur # NoNode =>
                             g.nodes[g.cur].st = CASE mem[t].st = "READY"   -> "ready"
                                                   [] mem[t].st = "RUNNING" -> "running"
                                                   [] mem[t].st = "BLOCKED" -> "blocked"
    BY DEF GraphMatchesWork, Delegated
  <1>2. mem[t] # NoTask
    BY <1>1 DEF Live, NoTask
  <1>3. Waiting(g, activeAsyncWorkPendingIds(mem[t])) /\ Mirrored(mem[t])
    BY <1>1, <1>2, FineBlock DEF Matched
  <1>4. \A a \in Delegated(g) : g.nodes[a].kid \in activeAsyncWorkPendingIds(mem[t])
    BY <1>3 DEF Waiting
  <1>5. \A a, c \in Delegated(g) : g.nodes[a].kid = g.nodes[c].kid => a = c
    BY <1>3 DEF Waiting
  <1>6. ASSUME g.cur # NoNode
        PROVE  g.nodes[g.cur].st = CASE mem[t].st = "READY"   -> "ready"
                                     [] mem[t].st = "RUNNING" -> "running"
                                     [] mem[t].st = "BLOCKED" -> "blocked"
    <2>1. Mirrors(mem[t].st, g.nodes[g.cur].st)
      BY <1>1, <1>3, <1>6 DEF Mirrored
    <2> QED BY <2>1 DEF Mirrors
  <1> QED BY <1>4, <1>5, <1>6

\* No node of a work graph begins before its dependencies are done or given up: neither
\* readyAgentWorkNodes nor a new plan, a failed child or a restored snapshot
\* (work-graph.ts, dispatchReadyAgentNodes in task-scheduler.ts) gets ahead of them.
THEOREM DependenciesFirstHolds == Spec => []DependenciesFirst
  <1>1. Fine(S) => DependenciesFirst
    BY FineDepends
  <1> QED BY <1>1, FineHolds, PTL

\* The graph tells the truth about the work under way: every delegated node that is
\* blocked has a result still to come, no child serves two nodes, and the active self
\* node shows the status of its task (syncCurrentWorkGraphNode,
\* completeDelegatedWorkGraphNode in task-control-block.ts).
THEOREM GraphMatchesWorkHolds == Spec => []GraphMatchesWork
  <1>1. Fine(S) => GraphMatchesWork
    BY FineMatches
  <1> QED BY <1>1, FineHolds, PTL

=============================================================================

---------------------------- MODULE AgentRoundProofs ----------------------------
(***************************************************************************)
(* The safety properties of AgentRoundProperties, for every set of inputs, *)
(* every budget and every bound: an invariant, what each operation of the  *)
(* context manager does to it, and one lemma per step of the round and its *)
(* host.                                                                   *)
(***************************************************************************)
EXTENDS AgentRoundProperties, QueueLemmas, FiniteSetTheorems

\* The provers that a leaf is given, in turn.
USE SMT, Zenon, SMTT(6), SMTT(7), SMTT(8)

----------------------------------------------------------------------------
(* The invariant *)

\* A checkpoint the manager may hold between two transactions.
ContextOK(c) ==
  /\ c \in Checkpoints /\ level(c) \in 1 .. 3
  /\ \A i \in DOMAIN c.frames : IsFiniteSet(c.frames[i].inputs)
  /\ Restorable(c)

\* Where the inputs are: each is held by the scheduler in one place, once, and
\* operations and feedback have the cursor they were issued under.
InputsOK ==
  /\ Distinct(arrived) /\ (batch # NoBatch => Distinct(batch))
  /\ \A k \in ToSet(arrived) : k \notin inflight /\ (batch # NoBatch => k \notin ToSet(batch))
  /\ batch # NoBatch => ToSet(batch) \cap (inflight \cup Feedbacks) = {}
  /\ ToSet(arrived) \cap Feedbacks = {}
  /\ \A o \in Ops :
       \/ o \in inflight \cup ToSet(arrived) \cup records
       \/ batch # NoBatch /\ o \in ToSet(batch)
       => target[o] # NoCursor
  /\ \A f \in Feedbacks : f \in records => target[f] # NoCursor

\* The source of an event of feedback has it because the feedback was recorded.
WakesOK ==
  \A f \in bound.feedbacks :
    \/ wake[f] \in ToSet(arrived) \cup records \cup acked
    \/ batch # NoBatch /\ wake[f] \in ToSet(batch)
    => f \in records

\* What the inbox holds was recorded and keeps its cursor.
InboxOK ==
  \A i \in DOMAIN context.inbox :
    /\ context.inbox[i].key \in records
    /\ context.inbox[i].target = target[context.inbox[i].key]

\* What the step of the round has established.
RoundOK ==
  /\ ~At("idle") => batch # NoBatch
  /\ round.all \/ receipt # "none" => batch # NoBatch /\ ToSet(batch) \subseteq records
  /\ At("finish") => receipt # "none"
  /\ round.pc \in {"working", "act", "apply"} =>
       round.all /\ ~pending(context) /\ round.cursor # NoCursor
  /\ At("request") /\ ~pending(context) => round.all
  /\ round.pc \in {"act", "apply"} => reply # NoReply
  /\ round.pc \in {"asked", "answered"} => pending(context)
  /\ At("acknowledge") => round.all
  /\ round.pc \in {"committed", "acknowledge"} => summarised
  /\ round.pc \notin {"idle", "taken", "finish"} => receipt = "none"
  /\ summarised => batch # NoBatch

\* Why an agent with something left to do is not asleep.
WorkOK ==
  /\ batch = NoBatch /\ needsRun(context) => cont \/ arrived # <<>> \/ inflight # {}
  /\ context.inbox # <<>> /\ ~needsRun(context) =>
       arrived # <<>> \/ inflight # {} \/ (batch # NoBatch /\ receipt = "none")
  /\ summarised /\ receipt = "none" /\ context.inbox # <<>> => needsRun(context)
  /\ round.pc \in {"prepared", "request", "working", "act", "apply"} =>
       pending(context) \/ level(context) # 1 \/ context.inbox = <<>> \/ arrived # <<>>

\* An operation that was staged is in flight, with the scheduler, or recorded.
OpsKept ==
  \A o \in Ops : target[o] # NoCursor =>
    \/ o \in inflight \cup ToSet(arrived) \cup records
    \/ batch # NoBatch /\ o \in ToSet(batch)

IInv ==
  /\ RoundTypeOK /\ ContextOK(context)
  /\ InputsOK /\ WakesOK /\ InboxOK /\ RoundOK /\ WorkOK
  /\ InputsConserved /\ acked \subseteq records /\ OpsKept

----------------------------------------------------------------------------
(* Filters *)

\* A filter keeps the elements that pass, each occurrence at most once.
LEMMA Filter ==
  ASSUME NEW T, NEW s \in Seq(T), NEW S
  PROVE  /\ Among(s, S) \in Seq(T) /\ Len(Among(s, S)) <= Len(s)
         /\ ToSet(Among(s, S)) = ToSet(s) \cap S
         /\ Within(Among(s, S), s)
  <1>1. Among(s, S) = (CHOOSE kept : Filters(kept, s, S, Len(s)))[Len(s)]
    BY DEF Among, Filters
  <1>2. \E kept : Filters(kept, s, S, Len(s))
    <2>1. Len(s) \in 0 .. Len(s)
      OBVIOUS
    <2> QED BY <2>1, FilterExists
  <1>3. PICK f : f = CHOOSE kept : Filters(kept, s, S, Len(s))
    OBVIOUS
  <1>4. Filters(f, s, S, Len(s))
    BY <1>2, <1>3
  <1> QED BY <1>1, <1>3, <1>4, FilterKeeps

\* A filter repeats nothing.
LEMMA FilterDistinct ==
  ASSUME NEW T, NEW s \in Seq(T), NEW S, Distinct(s)
  PROVE  Distinct(Among(s, S))
  <1>1. PICK r : r = Among(s, S)
    OBVIOUS
  <1>2. PICK f \in [1 .. Len(r) -> 1 .. Len(s)] :
           /\ \A i \in 1 .. Len(r) : r[i] = s[f[i]]
           /\ \A i, j \in 1 .. Len(r) : f[i] = f[j] => i = j
    BY <1>1, Filter DEF Within
  <1>3. r \in Seq(T)
    BY <1>1, Filter
  <1>4. ASSUME NEW i \in 1 .. Len(r), NEW j \in 1 .. Len(r), r[i] = r[j] PROVE i = j
    <2>1. f[i] \in 1 .. Len(s) /\ f[j] \in 1 .. Len(s) /\ s[f[i]] = s[f[j]]
      BY <1>2, <1>4
    <2>2. f[i] = f[j]
      BY <2>1 DEF Distinct
    <2> QED BY <1>2, <2>2
  <1> QED BY <1>1, <1>3, <1>4 DEF Distinct

----------------------------------------------------------------------------
(* Frames *)

\* The checks of validateCheckpoint across frames.
FrameOK(fs, i) ==
  /\ IsFiniteSet(fs[i].inputs)
  /\ \A a, b \in Tasks(fs[i], "RUNNING") : a = b
  /\ fs[i].revision > 0 \/ fs[i].tasks = <<>>
  /\ i > 1 => /\ fs[i].parent.revision = fs[i - 1].revision
              /\ fs[i].parent.task \in Tasks(fs[i - 1], "RUNNING")
  /\ i < 3 /\ Executing(fs[i]) => i < Len(fs)

ChainOK(fs) ==
  /\ fs \in Seq(Frames) /\ Len(fs) \in 1 .. 3
  /\ \A i \in 1 .. Len(fs) : FrameOK(fs, i)

\* The bounds of the frames, and of the inbox.
FitsOK(fs, b) == \A i \in DOMAIN fs : Size(fs[i]) <= b.max /\ Len(fs[i].tasks) <= b.maxTasks
KeysOK(q)     == Len(q) <= maxInbox /\ \A i, j \in DOMAIN q : q[i].key = q[j].key => i = j

\* The sealed source of a pending summary.
SealOK(c) ==
  pending(c) =>
    LET p == c.pendingSummary IN
    /\ p.attempts <= maxSummaryAttempts /\ p.cursor = cursor(c) /\ c.runnable
    /\ p.purpose \in {"complete", "idle"} => ~Unfinished(active(c))
    /\ p.purpose \in {"complete", "interrupt"} => level(c) > 1
    /\ p.purpose = "idle" => level(c) = 1
    /\ p.sealed = c.frames /\ p.budget = c.budget

\* The tasks of a frame in a state are positions of its plan.
LEMMA TasksFinite ==
  ASSUME NEW f \in Frames, NEW state
  PROVE  /\ Tasks(f, state) \subseteq 1 .. Len(f.tasks) /\ IsFiniteSet(Tasks(f, state))
         /\ f.tasks \in Seq(TaskStates)
  <1>1. f.tasks \in Seq(TaskStates)
    BY DEF Frames
  <1>2. Tasks(f, state) \subseteq 1 .. Len(f.tasks)
    BY <1>1 DEF Tasks
  <1>3. IsFiniteSet(1 .. Len(f.tasks))
    <2>1. 1 \in Int /\ Len(f.tasks) \in Int
      BY <1>1
    <2> QED BY <2>1, FS_Interval
  <1> QED BY <1>1, <1>2, <1>3, FS_Subset

\* Having one element at most is having a cardinality of one at most.
LEMMA AtMostOne ==
  ASSUME NEW S, IsFiniteSet(S)
  PROVE  Cardinality(S) <= 1 <=> \A a, b \in S : a = b
  <1>1. ASSUME Cardinality(S) <= 1, NEW a \in S, NEW b \in S, a # b PROVE FALSE
    <2>1. {a, b} \subseteq S
      OBVIOUS
    <2>2. Cardinality({a}) = 1 /\ IsFiniteSet({a})
      BY FS_Singleton
    <2>3. Cardinality({a} \cup {b}) = Cardinality({a}) + 1
      BY <1>1, <2>2, FS_AddElement
    <2>4. {a} \cup {b} = {a, b}
      OBVIOUS
    <2>5. Cardinality({a, b}) <= Cardinality(S)
      BY <2>1, FS_Subset
    <2>6. Cardinality(S) \in Nat
      BY FS_CardinalityType
    <2> QED BY <1>1, <2>2, <2>3, <2>4, <2>5, <2>6
  <1>2. ASSUME \A a, b \in S : a = b PROVE Cardinality(S) <= 1
    <2>1. CASE S = {}
      BY <2>1, FS_EmptySet
    <2>2. ASSUME NEW a \in S PROVE Cardinality(S) <= 1
      <3>1. S = {a}
        BY <1>2
      <3> QED BY <3>1, FS_Singleton
    <2> QED BY <2>1, <2>2
  <1> QED BY <1>1, <1>2

\* The size of a frame is a number.
LEMMA SizeIsNat ==
  ASSUME NEW f \in Frames, IsFiniteSet(f.inputs)
  PROVE  Size(f) \in Nat
  <1>1. Cardinality(f.inputs) \in Nat
    BY FS_CardinalityType
  <1>2. f.notes \in Nat /\ Len(f.tasks) \in Nat
    BY DEF Frames
  <1>3. IsFiniteSet(Tasks(f, "COMPLETED") \cup Tasks(f, "INTERRUPTED"))
    BY TasksFinite, FS_Union
  <1>4. Cardinality(Tasks(f, "COMPLETED") \cup Tasks(f, "INTERRUPTED")) \in Nat
    BY <1>3, FS_CardinalityType
  <1>5. (IF f.summary THEN 1 ELSE 0) \in Nat
    OBVIOUS
  <1> QED BY <1>1, <1>2, <1>4, <1>5 DEF Size

\* The invariant of a checkpoint, taken apart.
LEMMA ContextParts ==
  ASSUME NEW c \in Checkpoints
  PROVE  ContextOK(c) <=> ChainOK(c.frames) /\ FitsOK(c.frames, c.budget)
                          /\ KeysOK(c.inbox) /\ SealOK(c)
  <1>0. c.frames \in Seq(Frames)
    BY DEF Checkpoints
  <1>1. \A i \in DOMAIN c.frames :
          Cardinality(Tasks(c.frames[i], "RUNNING")) <= 1
          <=> \A a, b \in Tasks(c.frames[i], "RUNNING") : a = b
    <2>1. ASSUME NEW i \in DOMAIN c.frames
          PROVE  IsFiniteSet(Tasks(c.frames[i], "RUNNING"))
      BY <1>0, TasksFinite
    <2> QED BY <2>1, AtMostOne
  <1>2. ASSUME pending(c)
        PROVE  SummaryAllowed([c EXCEPT !.pendingSummary = NoSummary], c.pendingSummary.purpose)
               <=> LET p == c.pendingSummary IN
                   /\ p.purpose \in {"complete", "idle"} => ~Unfinished(active(c))
                   /\ p.purpose \in {"complete", "interrupt"} => level(c) > 1
                   /\ p.purpose = "idle" => level(c) = 1
    <2> DEFINE e == [c EXCEPT !.pendingSummary = NoSummary]
    <2>1. e.frames = c.frames /\ e.pendingSummary = NoSummary
      BY DEF Checkpoints
    <2>2. ~pending(e) /\ level(e) = level(c) /\ active(e) = active(c)
      BY <2>1 DEF pending, level, active
    <2> HIDE DEF e
    <2>3. SummaryAllowed(e, c.pendingSummary.purpose)
               <=> LET p == c.pendingSummary IN
                   /\ p.purpose \in {"complete", "idle"} => ~Unfinished(active(c))
                   /\ p.purpose \in {"complete", "interrupt"} => level(c) > 1
                   /\ p.purpose = "idle" => level(c) = 1
      BY <2>2 DEF SummaryAllowed
    <2> QED BY <2>3 DEF e
  <1>3. assertBudgets(c) <=> FitsOK(c.frames, c.budget)
    BY DEF assertBudgets, FitsOK
  <1>4. (pending(c) =>
          LET p == c.pendingSummary IN
          /\ p.attempts <= maxSummaryAttempts /\ p.cursor = cursor(c) /\ c.runnable
          /\ SummaryAllowed([c EXCEPT !.pendingSummary = NoSummary], p.purpose)
          /\ p.sealed = c.frames /\ p.budget = c.budget) <=> SealOK(c)
    BY <1>2 DEF SealOK
  <1>5. (Len(c.inbox) <= maxInbox
         /\ \A i, j \in DOMAIN c.inbox : c.inbox[i].key = c.inbox[j].key => i = j)
        <=> KeysOK(c.inbox)
    BY DEF KeysOK
  <1>6. level(c) = Len(c.frames)
    BY DEF level
  <1>7. Restorable(c) <=>
          /\ FitsOK(c.frames, c.budget) /\ KeysOK(c.inbox) /\ SealOK(c)
          /\ \A i \in DOMAIN c.frames :
               /\ Cardinality(Tasks(c.frames[i], "RUNNING")) <= 1
               /\ c.frames[i].revision > 0 \/ c.frames[i].tasks = <<>>
               /\ i > 1 => /\ c.frames[i].parent.revision = c.frames[i - 1].revision
                           /\ c.frames[i].parent.task \in Tasks(c.frames[i - 1], "RUNNING")
               /\ i < 3 /\ Executing(c.frames[i]) => i < level(c)
    <2> HIDE DEF SealOK, KeysOK, FitsOK
    <2> QED BY <1>3, <1>4, <1>5 DEF Restorable
  <1>8. ContextOK(c) <=>
          /\ Len(c.frames) \in 1 .. 3 /\ Restorable(c)
          /\ \A i \in DOMAIN c.frames : IsFiniteSet(c.frames[i].inputs)
    BY <1>6 DEF ContextOK
  <1> DEFINE Linked(i) ==
        /\ c.frames[i].revision > 0 \/ c.frames[i].tasks = <<>>
        /\ i > 1 => /\ c.frames[i].parent.revision = c.frames[i - 1].revision
                    /\ c.frames[i].parent.task \in Tasks(c.frames[i - 1], "RUNNING")
        /\ i < 3 /\ Executing(c.frames[i]) => i < Len(c.frames)
  <1>9. Restorable(c) <=>
          /\ FitsOK(c.frames, c.budget) /\ KeysOK(c.inbox) /\ SealOK(c)
          /\ \A i \in DOMAIN c.frames :
               Cardinality(Tasks(c.frames[i], "RUNNING")) <= 1 /\ Linked(i)
    BY <1>6, <1>7
  <1>10. ChainOK(c.frames) <=>
           /\ Len(c.frames) \in 1 .. 3
           /\ \A i \in DOMAIN c.frames :
                /\ IsFiniteSet(c.frames[i].inputs)
                /\ \A a, b \in Tasks(c.frames[i], "RUNNING") : a = b
                /\ Linked(i)
    <2>1. DOMAIN c.frames = 1 .. Len(c.frames)
      BY <1>0
    <2> QED BY <1>0, <2>1 DEF ChainOK, FrameOK
  <1> HIDE DEF Linked
  <1> QED BY <1>1, <1>8, <1>9, <1>10, Zenon

\* The frame on top may be replaced by one with the same parent: no frame rests on it.
LEMMA TopFrame ==
  ASSUME NEW fs, ChainOK(fs), NEW f \in Frames, IsFiniteSet(f.inputs),
         f.parent = fs[Len(fs)].parent,
         \A a, b \in Tasks(f, "RUNNING") : a = b,
         f.revision > 0 \/ f.tasks = <<>>,
         Len(fs) < 3 => ~Executing(f)
  PROVE  /\ ChainOK([fs EXCEPT ![Len(fs)] = f]) /\ Len([fs EXCEPT ![Len(fs)] = f]) = Len(fs)
         /\ [fs EXCEPT ![Len(fs)] = f][Len(fs)] = f
         /\ \A i \in DOMAIN fs : i # Len(fs) => [fs EXCEPT ![Len(fs)] = f][i] = fs[i]
  <1>1. PICK n : n = Len(fs)
    OBVIOUS
  <1>2. PICK gs : gs = [fs EXCEPT ![n] = f]
    OBVIOUS
  <1>3. fs \in Seq(Frames) /\ n \in 1 .. 3 /\ DOMAIN fs = 1 .. n
    BY <1>1 DEF ChainOK
  <1>4. /\ gs \in Seq(Frames) /\ Len(gs) = n /\ gs[n] = f
        /\ \A i \in 1 .. n : i # n => gs[i] = fs[i]
    BY <1>1, <1>2, <1>3, ExceptSeq
  <1>5. ASSUME NEW i \in 1 .. n PROVE FrameOK(gs, i)
    <2>1. FrameOK(fs, i)
      BY <1>1 DEF ChainOK
    <2>2. i > 1 => gs[i - 1] = fs[i - 1]
      <3>1. i > 1 => i - 1 \in 1 .. n /\ i - 1 # n
        BY <1>3
      <3> QED BY <1>4, <3>1
    <2>3. CASE i # n
      <3>1. gs[i] = fs[i]
        BY <1>4, <2>3
      <3> QED BY <1>1, <1>4, <2>1, <2>2, <3>1 DEF FrameOK
    <2>4. CASE i = n
      <3>1. gs[i] = f /\ Len(gs) = n /\ (n < 3 => ~Executing(f)) /\ f.parent = fs[n].parent
        BY <1>1, <1>4, <2>4
      <3> QED BY <2>1, <2>2, <2>4, <3>1 DEF FrameOK
    <2> QED BY <2>3, <2>4
  <1>6. ChainOK(gs)
    BY <1>3, <1>4, <1>5 DEF ChainOK
  <1> QED BY <1>1, <1>2, <1>3, <1>4, <1>6

\* The frames when the one on top is released, and when a child is put on a task.
Released(fs, ended) == Front([fs EXCEPT ![Len(fs) - 1].tasks[fs[Len(fs)].parent.task] = ended])
Descended(fs, p, j, kid) == Append([fs EXCEPT ![Len(fs)] = [p EXCEPT !.tasks[j] = "RUNNING"]], kid)

\* The frame below a released one has ended the task the frame worked on.
LEMMA ReturnedFrames ==
  ASSUME NEW fs, ChainOK(fs), Len(fs) > 1, NEW ended \in {"COMPLETED", "INTERRUPTED"}
  PROVE  /\ ChainOK(Released(fs, ended)) /\ Len(Released(fs, ended)) = Len(fs) - 1
         /\ \A i \in DOMAIN Released(fs, ended) : Released(fs, ended)[i].inputs = fs[i].inputs
  <1>0. PICK gs : gs = Released(fs, ended)
    OBVIOUS
  <1>1. /\ fs \in Seq(Frames) /\ Len(fs) \in 1 .. 3 /\ DOMAIN fs = 1 .. Len(fs)
    BY DEF ChainOK
  <1>2. PICK n : n = Len(fs) - 1
    OBVIOUS
  <1>3. n \in 1 .. 2 /\ n \in 1 .. Len(fs) /\ Len(fs) = n + 1
    BY <1>1, <1>2
  <1>4. PICK j : j = fs[n + 1].parent.task
    OBVIOUS
  <1>5. PICK p : p = fs[n]
    OBVIOUS
  <1>6. p \in Frames /\ j \in Tasks(p, "RUNNING") /\ \A a, b \in Tasks(p, "RUNNING") : a = b
    <2>1. n + 1 \in DOMAIN fs /\ n + 1 > 1 /\ (n + 1) - 1 = n
      BY <1>1, <1>3
    <2>2. fs[n + 1].parent.task \in Tasks(fs[(n + 1) - 1], "RUNNING")
      <3>1. FrameOK(fs, n + 1)
        BY <1>1, <2>1 DEF ChainOK
      <3> QED BY <2>1, <3>1 DEF FrameOK
    <2>3. \A a, b \in Tasks(fs[n], "RUNNING") : a = b
      <3>1. FrameOK(fs, n)
        BY <1>1, <1>3 DEF ChainOK
      <3> QED BY <3>1 DEF FrameOK
    <2> QED BY <1>1, <1>3, <1>4, <1>5, <2>1, <2>2, <2>3
  <1>7. PICK q : q = [p EXCEPT !.tasks[j] = ended]
    OBVIOUS
  <1>8. /\ q \in Frames /\ q.inputs = p.inputs /\ q.revision = p.revision /\ q.parent = p.parent
        /\ q.tasks = [p.tasks EXCEPT ![j] = ended]
    <2>1. p.tasks \in Seq(TaskStates) /\ ended \in TaskStates
      BY <1>6 DEF Frames, TaskStates
    <2>2. [p.tasks EXCEPT ![j] = ended] \in Seq(TaskStates)
      <3>1. j \in 1 .. Len(p.tasks)
        BY <1>6, TasksFinite
      <3> QED BY <2>1, <3>1, ExceptSeq
    <2>3. q = [p EXCEPT !.tasks = [p.tasks EXCEPT ![j] = ended]]
      BY <1>7
    <2> QED BY <1>6, <2>2, <2>3 DEF Frames
  <1>9. Tasks(q, "RUNNING") = {}
    <2>1. p.tasks \in Seq(TaskStates) /\ j \in 1 .. Len(p.tasks)
      BY <1>6, TasksFinite
    <2>2. ASSUME NEW i \in DOMAIN q.tasks, q.tasks[i] = "RUNNING" PROVE FALSE
      <3>1. DOMAIN q.tasks = DOMAIN p.tasks /\ q.tasks[j] = ended
        BY <1>8, <2>1
      <3>2. i # j
        BY <2>2, <3>1
      <3>3. p.tasks[i] = "RUNNING" /\ i \in DOMAIN p.tasks
        BY <1>8, <2>1, <2>2, <3>1, <3>2
      <3>4. i \in Tasks(p, "RUNNING")
        BY <3>3 DEF Tasks
      <3> QED BY <1>6, <3>2, <3>4
    <2> QED BY <2>2 DEF Tasks
  <1>10. PICK es : es = [fs EXCEPT ![n] = q]
    OBVIOUS
  <1>11. /\ es \in Seq(Frames) /\ Len(es) = n + 1 /\ es[n] = q
         /\ \A i \in 1 .. n + 1 : i # n => es[i] = fs[i]
    BY <1>1, <1>3, <1>8, <1>10, ExceptSeq
  <1>12. gs = SubSeq(es, 1, n)
    <2>1. [fs EXCEPT ![n].tasks[j] = ended] = es
      BY <1>5, <1>7, <1>10
    <2>2. [fs EXCEPT ![Len(fs) - 1].tasks[fs[Len(fs)].parent.task] = ended] = es
      BY <1>2, <1>3, <1>4, <2>1
    <2> QED BY <1>0, <1>3, <1>11, <2>2 DEF Front, Released
  <1>13. /\ gs \in Seq(Frames) /\ Len(gs) = n /\ gs[n] = q /\ DOMAIN gs = 1 .. n
         /\ \A i \in 1 .. n : i # n => gs[i] = fs[i]
    <2>1. \A i \in 1 .. n : es[i] \in Frames
      BY <1>3, <1>11, ElementOfSeq
    <2>2. SubSeq(es, 1, n) \in Seq(Frames) /\ Len(SubSeq(es, 1, n)) = n
      BY <1>3, <2>1, SubSeqProperties
    <2>3. \A i \in 1 .. n : SubSeq(es, 1, n)[i] = es[i]
      <3>1. \A i \in 1 .. (n - 1) + 1 : SubSeq(es, 1, n)[i] = es[(1 + i) - 1]
        BY <1>3, <2>1, SubSeqProperties
      <3> QED BY <1>3, <3>1
    <2>4. gs \in Seq(Frames) /\ Len(gs) = n
      BY <1>12, <2>2
    <2>5. DOMAIN gs = 1 .. n
      BY <2>4
    <2>6. ASSUME NEW i \in 1 .. n PROVE gs[i] = es[i] /\ i \in 1 .. n + 1
      <3>1. gs[i] = es[i]
        BY <1>12, <2>3
      <3>2. n = 1 \/ n = 2
        BY <1>3
      <3> QED BY <3>1, <3>2
    <2>7. gs[n] = q
      <3>1. n \in 1 .. n
        BY <1>3
      <3> QED BY <1>11, <2>6, <3>1
    <2>8. \A i \in 1 .. n : i # n => gs[i] = fs[i]
      BY <1>11, <2>6
    <2> QED BY <2>4, <2>5, <2>7, <2>8
  <1>14. ASSUME NEW i \in 1 .. n
         PROVE  FrameOK(gs, i)
    <2>1. FrameOK(fs, i)
      BY <1>1, <1>3 DEF ChainOK
    <2>2. i > 1 => gs[i - 1] = fs[i - 1]
      <3>1. i > 1 => i - 1 \in 1 .. n /\ i - 1 # n
        BY <1>3
      <3> QED BY <1>13, <3>1
    <2>3. CASE i # n
      <3>1. gs[i] = fs[i] /\ i < n
        <4>1. i < n
          BY <1>3, <2>3
        <4> QED BY <1>13, <2>3, <4>1
      <3> QED BY <1>13, <2>1, <2>2, <3>1 DEF FrameOK
    <2>4. CASE i = n
      <3>1. gs[i] = q /\ fs[i] = p /\ ~Executing(q)
        BY <1>5, <1>9, <1>13, <2>4 DEF Executing
      <3>2. q.revision > 0 \/ q.tasks = <<>>
        <4>1. p.revision > 0
          <5>1. p.tasks # <<>>
            <6>1. j \in 1 .. Len(p.tasks)
              BY <1>6, TasksFinite
            <6> QED BY <6>1
          <5> QED BY <2>1, <3>1, <5>1 DEF FrameOK
        <4> QED BY <1>8, <4>1
      <3> QED BY <1>8, <1>9, <2>1, <2>2, <3>1, <3>2 DEF FrameOK
    <2> QED BY <2>3, <2>4
  <1>15. ChainOK(gs)
    <2>1. Len(gs) \in 1 .. 3
      <3>1. n = 1 \/ n = 2
        BY <1>3
      <3>2. Len(gs) = n
        BY <1>13
      <3>3. n \in 1 .. 3
        BY <3>1
      <3> QED BY <3>2, <3>3, Zenon
    <2>2. \A i \in 1 .. Len(gs) : FrameOK(gs, i)
      BY <1>13, <1>14
    <2> QED BY <1>13, <2>1, <2>2 DEF ChainOK
  <1>16. ASSUME NEW i \in DOMAIN gs PROVE gs[i].inputs = fs[i].inputs
    BY <1>5, <1>8, <1>13
  <1> QED BY <1>0, <1>2, <1>13, <1>15, <1>16

\* A child may be put on the task its parent begins.
LEMMA AdvancedFrames ==
  ASSUME NEW fs, ChainOK(fs), Len(fs) < 3, NEW p \in Frames, NEW j \in DOMAIN p.tasks,
         ~Executing(p), IsFiniteSet(p.inputs), p.parent = fs[Len(fs)].parent,
         p.revision > 0 \/ p.tasks = <<>>, p.revision = fs[Len(fs)].revision,
         NEW kid \in Frames, IsFiniteSet(kid.inputs), kid.tasks = <<>>,
         kid.parent.revision = p.revision, kid.parent.task = j
  PROVE  LET gs == Descended(fs, p, j, kid) IN
         /\ ChainOK(gs) /\ Len(gs) = Len(fs) + 1 /\ gs[Len(fs) + 1] = kid
         /\ gs[Len(fs)].inputs = p.inputs
         /\ \A i \in DOMAIN fs : i # Len(fs) => gs[i] = fs[i]
  <1>0. PICK gs : gs = Descended(fs, p, j, kid)
    OBVIOUS
  <1>1. fs \in Seq(Frames) /\ Len(fs) \in 1 .. 3 /\ DOMAIN fs = 1 .. Len(fs)
    BY DEF ChainOK
  <1>2. PICK n : n = Len(fs)
    OBVIOUS
  <1>3. n \in 1 .. 2
    BY <1>1, <1>2
  <1>4. PICK q : q = [p EXCEPT !.tasks[j] = "RUNNING"]
    OBVIOUS
  <1>5. /\ q \in Frames /\ q.inputs = p.inputs /\ q.revision = p.revision /\ q.parent = p.parent
        /\ q.tasks = [p.tasks EXCEPT ![j] = "RUNNING"]
    <2>1. p.tasks \in Seq(TaskStates) /\ "RUNNING" \in TaskStates
      BY DEF Frames, TaskStates
    <2>2. [p.tasks EXCEPT ![j] = "RUNNING"] \in Seq(TaskStates)
      BY <2>1
    <2>3. q = [p EXCEPT !.tasks = [p.tasks EXCEPT ![j] = "RUNNING"]]
      BY <1>4
    <2> QED BY <2>2, <2>3 DEF Frames
  <1>6. Tasks(q, "RUNNING") = {j}
    <2>1. DOMAIN q.tasks = DOMAIN p.tasks /\ q.tasks[j] = "RUNNING"
      BY <1>5
    <2>2. ASSUME NEW i \in DOMAIN q.tasks, q.tasks[i] = "RUNNING", i # j PROVE FALSE
      <3>1. p.tasks[i] = "RUNNING" /\ i \in DOMAIN p.tasks
        BY <1>5, <2>1, <2>2
      <3> QED BY <3>1 DEF Executing, Tasks
    <2> QED BY <2>1, <2>2 DEF Tasks
  <1>7. PICK es : es = [fs EXCEPT ![n] = q]
    OBVIOUS
  <1>8. /\ es \in Seq(Frames) /\ Len(es) = n /\ es[n] = q
        /\ \A i \in 1 .. n : i # n => es[i] = fs[i]
    <2>1. n \in 1 .. Len(fs)
      BY <1>1, <1>2
    <2>2. /\ es \in Seq(Frames) /\ Len(es) = Len(fs)
          /\ \A i \in 1 .. Len(fs) : es[i] = IF i = n THEN q ELSE fs[i]
      BY <1>1, <1>5, <1>7, <2>1, ExceptSeq
    <2> QED BY <1>2, <2>1, <2>2
  <1>9. gs = Append(es, kid)
    BY <1>0, <1>2, <1>4, <1>7 DEF Descended
  <1>10. /\ gs \in Seq(Frames) /\ Len(gs) = n + 1 /\ gs[n + 1] = kid /\ gs[n] = q
         /\ DOMAIN gs = 1 .. n + 1 /\ \A i \in 1 .. n : i # n => gs[i] = fs[i]
    <2>1. /\ Append(es, kid) \in Seq(Frames) /\ Len(Append(es, kid)) = n + 1
          /\ Append(es, kid)[n + 1] = kid
          /\ \A i \in 1 .. n : Append(es, kid)[i] = es[i]
      BY <1>3, <1>8
    <2>2. gs \in Seq(Frames) /\ Len(gs) = n + 1 /\ gs[n + 1] = kid
      BY <1>9, <2>1
    <2>3. DOMAIN gs = 1 .. n + 1
      BY <2>2
    <2>4. \A i \in 1 .. n : gs[i] = es[i]
      BY <1>9, <2>1
    <2>5. n \in 1 .. n
      BY <1>3
    <2> QED BY <1>8, <2>2, <2>3, <2>4, <2>5
  <1>11. ASSUME NEW i \in 1 .. n + 1
         PROVE  FrameOK(gs, i)
    <2>1. CASE i = n + 1
      <3>1. gs[i] = kid /\ gs[i - 1] = q
        <4>1. i - 1 = n
          BY <1>3, <2>1
        <4> QED BY <1>10, <2>1, <4>1
      <3>2. Tasks(kid, "RUNNING") = {}
        BY DEF Tasks
      <3>3. kid.parent.revision = q.revision /\ kid.parent.task = j
        BY <1>5
      <3>4. kid.parent.task \in Tasks(q, "RUNNING")
        BY <1>6, <3>3
      <3> QED BY <3>1, <3>2, <3>3, <3>4 DEF Executing, FrameOK
    <2>2. CASE i # n + 1
      <3>0. i \in 1 .. n /\ i \in DOMAIN fs
        BY <1>1, <1>2, <1>3, <2>2
      <3>1. FrameOK(fs, i)
        BY <1>1, <3>0 DEF ChainOK
      <3>2. i > 1 => gs[i - 1] = fs[i - 1]
        <4>1. i > 1 => i - 1 \in 1 .. n /\ i - 1 # n
          BY <1>3, <3>0
        <4> QED BY <1>10, <4>1
      <3>3. CASE i = n
        <4>1. gs[i] = q
          BY <1>10, <3>3
        <4>2. q.revision > 0
          <5>1. p.tasks # <<>>
            OBVIOUS
          <5> QED BY <1>5, <5>1
        <4>3. i > 1 => /\ q.parent.revision = fs[i - 1].revision
                       /\ q.parent.task \in Tasks(fs[i - 1], "RUNNING")
          BY <1>2, <1>5, <3>1, <3>3 DEF FrameOK
        <4>4. i < Len(gs)
          BY <1>3, <1>10, <3>3
        <4> QED BY <1>5, <1>6, <3>2, <4>1, <4>2, <4>3, <4>4 DEF FrameOK
      <3>4. CASE i # n
        <4>1. gs[i] = fs[i] /\ i < Len(gs)
          BY <1>3, <1>10, <3>0, <3>4
        <4> QED BY <3>1, <3>2, <4>1 DEF FrameOK
      <3> QED BY <3>3, <3>4
    <2> QED BY <2>1, <2>2
  <1>12. ChainOK(gs)
    <2>1. n + 1 \in 1 .. 3
      BY <1>3
    <2> QED BY <1>10, <1>11, <2>1 DEF ChainOK
  <1> QED BY <1>0, <1>1, <1>2, <1>5, <1>10, <1>12

----------------------------------------------------------------------------
(* What the operations of the context manager do to a checkpoint *)

\* A delivery and the cursor it was issued under.
Deliveries == [key : Inputs, target : Cursors]

\* d differs from c in the progress of the pending summary at most.
Same(c, d) ==
  /\ ContextOK(d) /\ d.frames = c.frames /\ d.inbox = c.inbox
  /\ d.runnable = c.runnable /\ d.budget = c.budget /\ (pending(d) <=> pending(c))

\* The types of a checkpoint.
LEMMA CheckpointTypes ==
  ASSUME NEW c, ContextOK(c)
  PROVE  /\ c \in Checkpoints /\ c.frames \in Seq(Frames) /\ c.inbox \in Seq(Deliveries)
         /\ c.budget \in Budgets /\ c.created \in Nat /\ c.runnable \in BOOLEAN
         /\ c.pendingSummary \in Summaries \cup {NoSummary}
         /\ pending(c) => c.pendingSummary \in Summaries
         /\ level(c) \in 1 .. 3 /\ level(c) = Len(c.frames)
         /\ active(c) = c.frames[Len(c.frames)] /\ active(c) \in Frames
         /\ IsFiniteSet(active(c).inputs)
         /\ ChainOK(c.frames) /\ FitsOK(c.frames, c.budget) /\ KeysOK(c.inbox) /\ SealOK(c)
  <1>1. c \in Checkpoints /\ level(c) \in 1 .. 3
    BY DEF ContextOK
  <1>2. /\ c.frames \in Seq(Frames) /\ c.inbox \in Seq(Deliveries)
        /\ c.budget \in Budgets /\ c.created \in Nat /\ c.runnable \in BOOLEAN
        /\ c.pendingSummary \in Summaries \cup {NoSummary}
    BY <1>1 DEF Checkpoints, Deliveries
  <1>3. level(c) = Len(c.frames) /\ active(c) = c.frames[Len(c.frames)]
    BY DEF level, active
  <1>4. pending(c) => c.pendingSummary \in Summaries
    BY <1>2 DEF pending
  <1>5. active(c) \in Frames /\ IsFiniteSet(active(c).inputs)
    <2>0. DOMAIN c.frames = 1 .. Len(c.frames)
      BY <1>2
    <2>1. Len(c.frames) \in 1 .. Len(c.frames)
      <3>1. Len(c.frames) \in 1 .. 3
        BY <1>1, <1>3
      <3> QED BY <3>1
    <2>2. IsFiniteSet(c.frames[Len(c.frames)].inputs)
      BY <2>0, <2>1 DEF ContextOK
    <2> QED BY <1>2, <1>3, <2>1, <2>2, ElementOfSeq
  <1>6. ChainOK(c.frames) /\ FitsOK(c.frames, c.budget) /\ KeysOK(c.inbox) /\ SealOK(c)
    BY <1>1, ContextParts
  <1> QED BY <1>1, <1>2, <1>3, <1>4, <1>5, <1>6

\* validateCheckpoint looks at the progress of a summary only for its bound.
LEMMA FramesKept ==
  ASSUME NEW c, ContextOK(c), NEW d \in Checkpoints,
         d.frames = c.frames, FitsOK(c.frames, d.budget),
         KeysOK(d.inbox), c.runnable => d.runnable,
         pending(d) =>
           /\ pending(c) /\ d.pendingSummary.purpose = c.pendingSummary.purpose
           /\ d.pendingSummary.cursor = c.pendingSummary.cursor
           /\ d.pendingSummary.sealed = c.pendingSummary.sealed
           /\ d.pendingSummary.budget = d.budget
           /\ d.pendingSummary.attempts <= maxSummaryAttempts
  PROVE  ContextOK(d)
  <1>1. c \in Checkpoints /\ ChainOK(c.frames) /\ SealOK(c)
    BY CheckpointTypes
  <1>2. FitsOK(d.frames, d.budget)
    OBVIOUS
  <1>3. SealOK(d)
    <2>1. SUFFICES ASSUME pending(d) PROVE SealOK(d)
      BY DEF SealOK
    <2>2. cursor(d) = cursor(c) /\ active(d) = active(c) /\ level(d) = level(c)
      BY DEF cursor, active, level
    <2> QED BY <1>1, <2>1, <2>2 DEF SealOK
  <1> QED BY <1>1, <1>2, <1>3, ContextParts

\* receive: new deliveries wait at the end of the inbox, and ask for a round.
LEMMA ReceiveKeeps ==
  ASSUME NEW c, ContextOK(c), NEW ds \in Seq(Deliveries), KeysOK(c.inbox \o ds)
  PROVE  LET d == receive(c, ds) IN
         /\ ContextOK(d) /\ d.frames = c.frames /\ d.inbox = c.inbox \o ds
         /\ d.budget = c.budget /\ d.pendingSummary = c.pendingSummary
         /\ c.runnable => d.runnable
         /\ ds # <<>> => d.runnable
  <1>1. /\ c \in Checkpoints /\ c.inbox \in Seq(Deliveries) /\ SealOK(c) /\ c.budget \in Budgets
        /\ c.inbox \o ds \in Seq(Deliveries)
    BY CheckpointTypes, ConcatProperties
  <1>2. CASE ds = <<>>
    <2>1. receive(c, ds) = c /\ c.inbox \o ds = c.inbox
      BY <1>1, <1>2, ConcatEmptySeq DEF receive
    <2> QED BY <1>2, <2>1
  <1>3. CASE ds # <<>>
    <2>1. PICK d : d = receive(c, ds)
      OBVIOUS
    <2>2. d = [c EXCEPT !.inbox = c.inbox \o ds, !.runnable = TRUE]
      BY <1>3, <2>1 DEF receive
    <2>3. /\ d \in Checkpoints /\ d.frames = c.frames /\ d.inbox = c.inbox \o ds
          /\ d.budget = c.budget /\ d.pendingSummary = c.pendingSummary /\ d.runnable = TRUE
      BY <1>1, <2>2 DEF Checkpoints, Deliveries
    <2>4. ContextOK(d)
      <3>2. (pending(d) <=> pending(c)) /\ FitsOK(c.frames, d.budget)
        BY <2>3, CheckpointTypes DEF pending
      <3>3. pending(d) => d.pendingSummary.budget = d.budget
                          /\ d.pendingSummary.attempts <= maxSummaryAttempts
        BY <1>1, <2>3, <3>2 DEF SealOK
      <3> QED BY <2>3, <3>2, <3>3, FramesKept
    <2> QED BY <2>1, <2>3, <2>4
  <1> QED BY <1>2, <1>3

\* beginSummaryAttempt, failSummary and retrySummary change the progress of the summary.
LEMMA ProgressKeeps ==
  ASSUME NEW c, ContextOK(c), pending(c)
  PROVE  /\ c.pendingSummary.attempts < maxSummaryAttempts => Same(c, attempted(c))
         /\ Same(c, failed(c)) /\ Same(c, retried(c))
  <1>1. /\ c \in Checkpoints /\ c.pendingSummary \in Summaries /\ SealOK(c)
        /\ c.budget \in Budgets /\ KeysOK(c.inbox)
    BY CheckpointTypes
  <1>2. c.pendingSummary.attempts \in Nat /\ maxSummaryAttempts \in Nat /\ c.budget.max \in Nat
    BY <1>1, ContextAssumption DEF Summaries
  <1>3. ASSUME NEW p \in Summaries, p.purpose = c.pendingSummary.purpose,
               p.cursor = c.pendingSummary.cursor, p.sealed = c.pendingSummary.sealed,
               p.budget = c.pendingSummary.budget, p.attempts <= maxSummaryAttempts,
               NEW d, d = [c EXCEPT !.pendingSummary = p]
        PROVE  Same(c, d)
    <2>1. /\ d \in Checkpoints /\ d.frames = c.frames /\ d.inbox = c.inbox
          /\ d.runnable = c.runnable /\ d.budget = c.budget /\ d.pendingSummary = p
      BY <1>1, <1>3 DEF Checkpoints
    <2>2. pending(d)
      <3>1. p.purpose # "none"
        BY DEF Summaries, Purposes
      <3> QED BY <2>1, <3>1 DEF pending, NoSummary
    <2>3. p.budget = d.budget
      BY <1>1, <1>3, <2>1 DEF SealOK
    <2>4. ContextOK(d)
      <3>1. FitsOK(c.frames, d.budget) /\ KeysOK(d.inbox) /\ (c.runnable => d.runnable)
        BY <1>1, <2>1, CheckpointTypes
      <3>2. /\ pending(c) /\ d.pendingSummary.purpose = c.pendingSummary.purpose
            /\ d.pendingSummary.cursor = c.pendingSummary.cursor
            /\ d.pendingSummary.sealed = c.pendingSummary.sealed
            /\ d.pendingSummary.budget = d.budget
            /\ d.pendingSummary.attempts <= maxSummaryAttempts
        BY <1>3, <2>1, <2>3
      <3> QED BY <2>1, <3>1, <3>2, FramesKept
    <2> QED BY <2>1, <2>2, <2>4 DEF Same
  <1> DEFINE p == c.pendingSummary
  <1>4. ASSUME p.attempts < maxSummaryAttempts PROVE Same(c, attempted(c))
    <2> DEFINE q == [p EXCEPT !.attempts = p.attempts + 1]
    <2>1. /\ q \in Summaries /\ q.purpose = p.purpose /\ q.cursor = p.cursor /\ q.sealed = p.sealed
          /\ q.budget = p.budget /\ q.attempts = p.attempts + 1
      BY <1>1, <1>2 DEF Summaries
    <2>2. q.attempts <= maxSummaryAttempts
      BY <1>2, <1>4, <2>1
    <2>3. attempted(c) = [c EXCEPT !.pendingSummary = q]
      BY DEF attempted
    <2> QED BY <1>3, <2>1, <2>2, <2>3
  <1>5. Same(c, failed(c))
    <2> DEFINE q == [p EXCEPT !.failed = TRUE]
    <2>1. /\ q \in Summaries /\ q.purpose = p.purpose /\ q.cursor = p.cursor /\ q.sealed = p.sealed
          /\ q.budget = p.budget /\ q.attempts = p.attempts
      BY <1>1, <1>2 DEF Summaries
    <2>2. q.attempts <= maxSummaryAttempts
      BY <1>1, <2>1 DEF SealOK
    <2>3. failed(c) = [c EXCEPT !.pendingSummary = q]
      BY DEF failed
    <2> QED BY <1>3, <2>1, <2>2, <2>3
  <1>6. Same(c, retried(c))
    <2> DEFINE q == [p EXCEPT !.attempts = 0]
    <2>1. /\ q \in Summaries /\ q.purpose = p.purpose /\ q.cursor = p.cursor /\ q.sealed = p.sealed
          /\ q.budget = p.budget /\ q.attempts = 0
      BY <1>1, <1>2 DEF Summaries
    <2>2. q.attempts <= maxSummaryAttempts
      BY <1>2, <2>1
    <2>3. retried(c) = [c EXCEPT !.pendingSummary = q]
      BY DEF retried
    <2> QED BY <1>3, <2>1, <2>2, <2>3
  <1> QED BY <1>4, <1>5, <1>6

\* configureBudget seals a pending summary on the new budgets.
LEMMA ConfiguredKeeps ==
  ASSUME NEW c, ContextOK(c), NEW b \in Budgets, b.maxTasks = c.budget.maxTasks,
         \A i \in DOMAIN c.frames : Size(c.frames[i]) <= b.max
  PROVE  LET d == configured(c, b) IN
         /\ ContextOK(d) /\ d.frames = c.frames /\ d.inbox = c.inbox
         /\ d.runnable = c.runnable /\ d.budget = b /\ (pending(d) <=> pending(c))
  <1>1. /\ c \in Checkpoints /\ SealOK(c) /\ c.budget \in Budgets /\ KeysOK(c.inbox)
        /\ FitsOK(c.frames, c.budget) /\ (pending(c) => c.pendingSummary \in Summaries)
        /\ c.pendingSummary \in Summaries \cup {NoSummary}
    BY CheckpointTypes
  <1>2. PICK d : d = configured(c, b)
    OBVIOUS
  <1>3. FitsOK(c.frames, b)
    BY <1>1 DEF FitsOK
  <1>4. PICK p : p = IF pending(c) THEN [c.pendingSummary EXCEPT !.budget = b] ELSE c.pendingSummary
    OBVIOUS
  <1>5. d = [c EXCEPT !.budget = b, !.pendingSummary = p]
    BY <1>2, <1>4 DEF configured
  <1>6. p \in Summaries \cup {NoSummary}
    BY <1>1, <1>4 DEF Summaries
  <1>7. /\ d \in Checkpoints /\ d.frames = c.frames /\ d.inbox = c.inbox
        /\ d.runnable = c.runnable /\ d.budget = b /\ d.pendingSummary = p
    BY <1>1, <1>5, <1>6 DEF Checkpoints
  <1>8. ASSUME pending(c)
        PROVE  /\ p.purpose = c.pendingSummary.purpose /\ p.cursor = c.pendingSummary.cursor
               /\ p.sealed = c.pendingSummary.sealed /\ p.attempts = c.pendingSummary.attempts
               /\ p.budget = b /\ p # NoSummary
    <2>1. c.pendingSummary \in Summaries /\ p = [c.pendingSummary EXCEPT !.budget = b]
      BY <1>1, <1>4, <1>8
    <2>2. /\ p.purpose = c.pendingSummary.purpose /\ p.cursor = c.pendingSummary.cursor
          /\ p.sealed = c.pendingSummary.sealed /\ p.attempts = c.pendingSummary.attempts
          /\ p.budget = b /\ p.purpose # "none"
      BY <2>1 DEF Summaries, Purposes
    <2> QED BY <2>2 DEF NoSummary
  <1>9. pending(d) <=> pending(c)
    <2>1. ~pending(c) => p = NoSummary
      BY <1>4 DEF pending
    <2> QED BY <1>7, <1>8, <2>1 DEF pending
  <1>10. ContextOK(d)
    <2>1. pending(d) =>
           /\ pending(c) /\ d.pendingSummary.purpose = c.pendingSummary.purpose
           /\ d.pendingSummary.cursor = c.pendingSummary.cursor
           /\ d.pendingSummary.sealed = c.pendingSummary.sealed
           /\ d.pendingSummary.budget = d.budget
           /\ d.pendingSummary.attempts <= maxSummaryAttempts
      BY <1>1, <1>7, <1>8, <1>9 DEF SealOK
    <2> QED BY <1>1, <1>3, <1>7, <2>1, FramesKept
  <1> QED BY <1>2, <1>7, <1>9, <1>10

\* A summary that is due is sealed on the frames as they are.
LEMMA ScheduleKeeps ==
  ASSUME NEW c \in Checkpoints, ChainOK(c.frames), FitsOK(c.frames, c.budget), KeysOK(c.inbox),
         NEW purpose \in Purposes,
         purpose \in {"complete", "idle"} => ~Unfinished(active(c)),
         purpose \in {"complete", "interrupt"} => level(c) > 1,
         purpose = "idle" => level(c) = 1
  PROVE  LET d == scheduleSummary(c, purpose) IN
         /\ ContextOK(d) /\ pending(d) /\ d.frames = c.frames /\ d.inbox = c.inbox
         /\ d.budget = c.budget /\ d.runnable = TRUE
  <1>1. PICK p : p = [purpose |-> purpose, cursor |-> cursor(c), sealed |-> c.frames,
                      budget |-> c.budget, attempts |-> 0, failed |-> FALSE]
    OBVIOUS
  <1>2. PICK d : d = scheduleSummary(c, purpose)
    OBVIOUS
  <1>3. d = [c EXCEPT !.pendingSummary = p, !.runnable = TRUE]
    BY <1>1, <1>2 DEF scheduleSummary
  <1>4. c.frames \in Seq(Frames) /\ c.budget \in Budgets /\ Len(c.frames) \in 1 .. 3
    BY DEF Checkpoints, ChainOK
  <1>5. active(c) \in Frames
    <2>1. PICK n : n = Len(c.frames)
      OBVIOUS
    <2>2. n \in 1 .. n
      <3>1. n \in 1 .. 3
        BY <1>4, <2>1
      <3> QED BY <3>1
    <2> QED BY <1>4, <2>1, <2>2, ElementOfSeq DEF active, level
  <1>6. cursor(c) \in Cursors
    BY <1>5 DEF cursor, Cursors, Frames
  <1>7. p \in Summaries
    BY <1>1, <1>4, <1>6 DEF Summaries
  <1>8. /\ d \in Checkpoints /\ d.frames = c.frames /\ d.inbox = c.inbox
        /\ d.budget = c.budget /\ d.runnable = TRUE /\ d.pendingSummary = p
    BY <1>3, <1>7 DEF Checkpoints
  <1>9. pending(d)
    <2>1. p.purpose # "none"
      BY <1>7 DEF Summaries, Purposes
    <2> QED BY <1>8, <2>1 DEF pending, NoSummary
  <1>10. SealOK(d)
    <2>1. cursor(d) = cursor(c) /\ active(d) = active(c) /\ level(d) = level(c)
      BY <1>8 DEF cursor, active, level
    <2>2. p.attempts <= maxSummaryAttempts
      BY <1>1, ContextAssumption
    <2>3. /\ p.purpose = purpose /\ p.cursor = cursor(d) /\ p.sealed = d.frames
          /\ p.budget = d.budget
      BY <1>1, <1>8, <2>1
    <2> QED BY <1>8, <2>1, <2>2, <2>3 DEF SealOK
  <1>11. ContextOK(d)
    BY <1>8, <1>10, ContextParts
  <1> QED BY <1>2, <1>8, <1>9, <1>11

\* What compaction leaves of a frame.
LEMMA CompactedFrame ==
  ASSUME NEW f \in Frames, IsFiniteSet(f.inputs), f.revision > 0 \/ f.tasks = <<>>,
         \A a, b \in Tasks(f, "RUNNING") : a = b
  PROVE  LET g == compactedFrame(f) IN
         /\ g \in Frames /\ g.inputs = {} /\ g.parent = f.parent
         /\ g.revision > 0 \/ g.tasks = <<>>
         /\ \A a, b \in Tasks(g, "RUNNING") : a = b
         /\ Executing(g) => Executing(f)
  <1>1. PICK ts : ts = IF Unfinished(f) THEN f.tasks ELSE <<>>
    OBVIOUS
  <1>2. PICK g : g = compactedFrame(f)
    OBVIOUS
  <1>3. g = [f EXCEPT !.tasks = ts, !.inputs = {}, !.notes = 0, !.summary = TRUE]
    BY <1>1, <1>2 DEF compactedFrame
  <1>4. f.tasks \in Seq(TaskStates)
    BY DEF Frames
  <1>5. ts \in Seq(TaskStates) /\ (ts = f.tasks \/ ts = <<>>)
    BY <1>1, <1>4
  <1>6. /\ g \in Frames /\ g.inputs = {} /\ g.parent = f.parent /\ g.revision = f.revision
        /\ g.tasks = ts
    BY <1>3, <1>5 DEF Frames
  <1>7. Tasks(g, "RUNNING") = {} \/ Tasks(g, "RUNNING") = Tasks(f, "RUNNING")
    BY <1>5, <1>6 DEF Tasks
  <1>8. g.revision > 0 \/ g.tasks = <<>>
    BY <1>5, <1>6
  <1>9. (\A a, b \in Tasks(g, "RUNNING") : a = b) /\ (Executing(g) => Executing(f))
    BY <1>7 DEF Executing
  <1> QED BY <1>2, <1>6, <1>8, <1>9

\* What the frames of a checkpoint are known to satisfy.
LEMMA ChainTypes ==
  ASSUME NEW c \in Checkpoints, ChainOK(c.frames)
  PROVE  /\ c.frames \in Seq(Frames) /\ level(c) = Len(c.frames) /\ level(c) \in 1 .. 3
         /\ active(c) = c.frames[Len(c.frames)] /\ active(c) \in Frames
         /\ IsFiniteSet(active(c).inputs)
         /\ active(c).revision > 0 \/ active(c).tasks = <<>>
         /\ \A a, b \in Tasks(active(c), "RUNNING") : a = b
         /\ level(c) < 3 => ~Executing(active(c))
  <1>1. PICK n : n = Len(c.frames)
    OBVIOUS
  <1>2. n \in 1 .. 3 /\ active(c) = c.frames[n] /\ level(c) = n /\ c.frames \in Seq(Frames)
    BY <1>1 DEF ChainOK, active, level
  <1>3. n \in 1 .. n
    <2>1. n \in 1 .. 3
      BY <1>2
    <2> QED BY <2>1
  <1>4. FrameOK(c.frames, n) /\ c.frames[n] \in Frames
    BY <1>1, <1>2, <1>3, ElementOfSeq DEF ChainOK
  <1>5. n < 3 => ~Executing(c.frames[n])
    <2>1. ~(n < n)
      BY <1>3
    <2> QED BY <1>1, <1>4, <2>1 DEF FrameOK
  <1> QED BY <1>1, <1>2, <1>4, <1>5 DEF FrameOK

\* What the frame on top is known to satisfy.
LEMMA TopIsOK ==
  ASSUME NEW c, ContextOK(c)
  PROVE  /\ active(c).revision > 0 \/ active(c).tasks = <<>>
         /\ \A a, b \in Tasks(active(c), "RUNNING") : a = b
         /\ level(c) < 3 => ~Executing(active(c))
         /\ Size(active(c)) <= c.budget.max /\ Len(active(c).tasks) <= c.budget.maxTasks
  <1>1. PICK n : n = Len(c.frames)
    OBVIOUS
  <1>2. /\ c \in Checkpoints /\ ChainOK(c.frames) /\ FitsOK(c.frames, c.budget)
        /\ n \in 1 .. 3 /\ c.frames \in Seq(Frames) /\ active(c) = c.frames[n]
    BY <1>1, CheckpointTypes
  <1>3. Size(c.frames[n]) <= c.budget.max /\ Len(c.frames[n].tasks) <= c.budget.maxTasks
    <2>1. n \in 1 .. n
      <3>1. n \in 1 .. 3
        BY <1>2
      <3> QED BY <3>1
    <2>2. n \in DOMAIN c.frames
      BY <1>1, <1>2, <2>1
    <2> QED BY <1>2, <2>2 DEF FitsOK
  <1> QED BY <1>2, <1>3, ChainTypes

\* integrateSummary: the summary is gone, and a delivery in the inbox asks for a round.
LEMMA IntegrateKeeps ==
  ASSUME NEW c, ContextOK(c), pending(c), SummaryFits(c)
  PROVE  LET d == integrateSummary(c) IN
         /\ ContextOK(d) /\ ~pending(d) /\ d.inbox = c.inbox /\ d.budget = c.budget
         /\ d.inbox # <<>> => d.runnable
         /\ \A i \in DOMAIN d.frames : \A k \in d.frames[i].inputs :
              \E j \in DOMAIN c.frames : k \in c.frames[j].inputs
  <1>1. /\ c \in Checkpoints /\ c.frames \in Seq(Frames) /\ ChainOK(c.frames)
        /\ Len(c.frames) \in 1 .. 3 /\ level(c) = Len(c.frames)
        /\ active(c) = c.frames[Len(c.frames)] /\ active(c) \in Frames
        /\ IsFiniteSet(active(c).inputs)
        /\ c.pendingSummary \in Summaries /\ KeysOK(c.inbox) /\ SealOK(c)
    BY CheckpointTypes
  <1>2. c.pendingSummary.purpose \in Purposes
    BY <1>1 DEF Summaries
  <1>3. PICK m : m = merged(c)
    OBVIOUS
  <1>4. PICK d : d = integrateSummary(c)
    OBVIOUS
  <1>5. \E gs : /\ m = [c EXCEPT !.frames = gs] /\ ChainOK(gs)
                /\ \A i \in DOMAIN gs : \A k \in gs[i].inputs :
                     \E j \in DOMAIN c.frames : k \in c.frames[j].inputs
    <2>1. CASE c.pendingSummary.purpose \in {"compact", "idle"}
      <3>1. PICK g : g = compactedFrame(active(c))
        OBVIOUS
      <3>2. /\ g \in Frames /\ g.inputs = {} /\ g.parent = active(c).parent
            /\ g.revision > 0 \/ g.tasks = <<>>
            /\ \A a, b \in Tasks(g, "RUNNING") : a = b
            /\ Executing(g) => Executing(active(c))
        BY <1>1, <3>1, TopIsOK, CompactedFrame
      <3>3. PICK gs : gs = [c.frames EXCEPT ![Len(c.frames)] = g]
        OBVIOUS
      <3>4. m = [c EXCEPT !.frames = gs]
        BY <1>1, <1>3, <2>1, <3>1, <3>3 DEF merged, withActive
      <3>5. IsFiniteSet(g.inputs) /\ (Len(c.frames) < 3 => ~Executing(g))
        BY <1>1, <3>2, TopIsOK, FS_EmptySet
      <3>6. /\ ChainOK(gs) /\ Len(gs) = Len(c.frames) /\ gs[Len(c.frames)] = g
            /\ \A i \in DOMAIN c.frames : i # Len(c.frames) => gs[i] = c.frames[i]
        BY <1>1, <3>2, <3>3, <3>5, TopFrame
      <3>7. DOMAIN gs = DOMAIN c.frames
        BY <3>3
      <3>8. ASSUME NEW i \in DOMAIN gs, NEW k \in gs[i].inputs
            PROVE  \E j \in DOMAIN c.frames : k \in c.frames[j].inputs
        <4>1. i # Len(c.frames)
          BY <3>2, <3>6, <3>8
        <4>2. i \in DOMAIN c.frames /\ k \in c.frames[i].inputs
          BY <3>6, <3>7, <3>8, <4>1
        <4> QED BY <4>2
      <3> QED BY <3>4, <3>6, <3>8
    <2>2. CASE c.pendingSummary.purpose \notin {"compact", "idle"}
      <3>1. Len(c.frames) > 1
        BY <1>1, <1>2, <2>2 DEF SealOK, Purposes
      <3>2. PICK ended : ended = IF c.pendingSummary.purpose = "complete"
                                   THEN "COMPLETED" ELSE "INTERRUPTED"
        OBVIOUS
      <3>3. ended \in {"COMPLETED", "INTERRUPTED"}
        BY <3>2
      <3>4. PICK gs : gs = Released(c.frames, ended)
        OBVIOUS
      <3>5. m = [c EXCEPT !.frames = gs]
        BY <1>1, <1>3, <2>2, <3>2, <3>4 DEF merged, returned, Released
      <3>6. /\ ChainOK(gs) /\ Len(gs) = Len(c.frames) - 1
            /\ \A i \in DOMAIN gs : gs[i].inputs = c.frames[i].inputs
        BY <1>1, <3>1, <3>3, <3>4, ReturnedFrames
      <3>7. \A i \in DOMAIN gs : i \in DOMAIN c.frames
        <4>1. gs \in Seq(Frames)
          BY <3>6 DEF ChainOK
        <4>2. DOMAIN gs = 1 .. Len(c.frames) - 1 /\ DOMAIN c.frames = 1 .. Len(c.frames)
          BY <1>1, <3>6, <4>1
        <4> QED BY <1>1, <4>2
      <3> QED BY <3>5, <3>6, <3>7
    <2> QED BY <2>1, <2>2
  <1>6. PICK gs : /\ m = [c EXCEPT !.frames = gs] /\ ChainOK(gs)
                  /\ \A i \in DOMAIN gs : \A k \in gs[i].inputs :
                       \E j \in DOMAIN c.frames : k \in c.frames[j].inputs
    BY <1>5
  <1>7. gs \in Seq(Frames)
    BY <1>6 DEF ChainOK
  <1>8. /\ m \in Checkpoints /\ m.frames = gs /\ m.inbox = c.inbox /\ m.budget = c.budget
    BY <1>1, <1>6, <1>7 DEF Checkpoints
  <1>9. FitsOK(gs, c.budget)
    <2>1. assertBudgets(m)
      BY <1>3 DEF SummaryFits
    <2> QED BY <1>8, <2>1 DEF assertBudgets, FitsOK
  <1>10. PICK r : r = (c.pendingSummary.purpose # "idle" \/ c.inbox # <<>>)
    OBVIOUS
  <1>11. d = [m EXCEPT !.pendingSummary = NoSummary, !.runnable = r]
    BY <1>3, <1>4, <1>10 DEF integrateSummary
  <1>12. /\ d \in Checkpoints /\ d.frames = gs /\ d.inbox = c.inbox /\ d.budget = c.budget
         /\ d.pendingSummary = NoSummary /\ d.runnable = r
    <2>1. r \in BOOLEAN
      BY <1>10
    <2> QED BY <1>8, <1>11, <2>1 DEF Checkpoints
  <1>13. ~pending(d) /\ SealOK(d)
    BY <1>12 DEF pending, SealOK
  <1>14. ContextOK(d)
    BY <1>1, <1>6, <1>9, <1>12, <1>13, ContextParts
  <1> QED BY <1>4, <1>6, <1>10, <1>12, <1>13, <1>14

\* What a decision of the work round may be.
DecisionOK(d) == d.type \in DecisionTypes /\ d.count \in Nat /\ d.notes \in Nat

\* Nothing is in a frame of d that was not in a frame of c.
NothingNew(c, d) ==
  \A i \in DOMAIN d.frames : \A k \in d.frames[i].inputs :
    \E j \in DOMAIN c.frames : k \in c.frames[j].inputs

\* What is not new in a step is not new in two.
LEMMA NothingNewTwice ==
  ASSUME NEW c, NEW d, NEW e, NothingNew(c, d), NothingNew(d, e)
  PROVE  NothingNew(c, e)
  <1>1. ASSUME NEW i \in DOMAIN e.frames, NEW k \in e.frames[i].inputs
        PROVE  \E j \in DOMAIN c.frames : k \in c.frames[j].inputs
    <2>1. PICK j \in DOMAIN d.frames : k \in d.frames[j].inputs
      BY DEF NothingNew
    <2> QED BY <2>1 DEF NothingNew
  <1> QED BY <1>1 DEF NothingNew

\* A frame on top with the inputs, the place and the running tasks of the old one.
LEMMA NewTop ==
  ASSUME NEW c \in Checkpoints, ChainOK(c.frames), NEW f \in Frames, f.inputs = active(c).inputs,
         f.parent = active(c).parent,
         \A a, b \in Tasks(f, "RUNNING") : a = b,
         f.revision > 0 \/ f.tasks = <<>>,
         level(c) < 3 => ~Executing(f)
  PROVE  LET d == withActive(c, f) IN
         /\ d \in Checkpoints /\ ChainOK(d.frames) /\ NothingNew(c, d)
         /\ level(d) = level(c) /\ active(d) = f /\ d.inbox = c.inbox /\ d.budget = c.budget
         /\ d.created = c.created /\ d.pendingSummary = c.pendingSummary
  <1>1. /\ c \in Checkpoints /\ c.frames \in Seq(Frames) /\ ChainOK(c.frames)
        /\ level(c) = Len(c.frames) /\ level(c) \in 1 .. 3
        /\ active(c) = c.frames[Len(c.frames)]
        /\ IsFiniteSet(f.inputs)
    BY ChainTypes
  <1>2. PICK gs : gs = [c.frames EXCEPT ![Len(c.frames)] = f]
    OBVIOUS
  <1>3. PICK d : d = withActive(c, f)
    OBVIOUS
  <1>4. d = [c EXCEPT !.frames = gs]
    BY <1>1, <1>2, <1>3 DEF withActive
  <1>5. /\ ChainOK(gs) /\ Len(gs) = Len(c.frames) /\ gs[Len(c.frames)] = f
        /\ \A i \in DOMAIN c.frames : i # Len(c.frames) => gs[i] = c.frames[i]
    BY <1>1, <1>2, TopFrame
  <1>6. gs \in Seq(Frames)
    BY <1>5 DEF ChainOK
  <1>7. /\ d \in Checkpoints /\ d.frames = gs /\ d.inbox = c.inbox /\ d.budget = c.budget
        /\ d.created = c.created /\ d.pendingSummary = c.pendingSummary
    BY <1>1, <1>4, <1>6 DEF Checkpoints
  <1>8. level(d) = level(c) /\ active(d) = f
    BY <1>1, <1>5, <1>7 DEF level, active
  <1>9. NothingNew(c, d)
    <2>1. DOMAIN gs = DOMAIN c.frames
      BY <1>2
    <2>2. ASSUME NEW i \in DOMAIN d.frames, NEW k \in d.frames[i].inputs
          PROVE  k \in c.frames[i].inputs /\ i \in DOMAIN c.frames
      BY <1>1, <1>5, <1>7, <2>1, <2>2
    <2> QED BY <2>2 DEF NothingNew
  <1> QED BY <1>3, <1>5, <1>7, <1>8, <1>9

\* The memory the work added, and whether the decision asks for another round.
Noted(c, n, r) == [noted(c, n) EXCEPT !.runnable = r]

\* Memory is added to the frame on top, which keeps its place and its plan.
LEMMA NotedKeeps ==
  ASSUME NEW c, ContextOK(c), ~pending(c), NEW n \in Nat, NEW r \in BOOLEAN
  PROVE  LET e == Noted(c, n, r) IN
         /\ e \in Checkpoints /\ ChainOK(e.frames) /\ NothingNew(c, e)
         /\ level(e) = level(c) /\ e.inbox = c.inbox /\ e.budget = c.budget
         /\ e.created = c.created /\ ~pending(e) /\ e.runnable = r
         /\ active(e) \in Frames /\ IsFiniteSet(active(e).inputs)
         /\ active(e).inputs = active(c).inputs /\ active(e).parent = active(c).parent
         /\ active(e).tasks = active(c).tasks /\ active(e).revision = active(c).revision
         /\ active(e).id = active(c).id
  <1>1. /\ active(c) \in Frames /\ IsFiniteSet(active(c).inputs)
        /\ c \in Checkpoints /\ ChainOK(c.frames)
    BY CheckpointTypes
  <1>2. PICK f : f = [active(c) EXCEPT !.notes = active(c).notes + n]
    OBVIOUS
  <1>3. /\ f \in Frames /\ f.inputs = active(c).inputs /\ f.parent = active(c).parent
        /\ f.tasks = active(c).tasks /\ f.revision = active(c).revision /\ f.id = active(c).id
    BY <1>1, <1>2 DEF Frames
  <1>4. /\ Tasks(f, "RUNNING") = Tasks(active(c), "RUNNING")
        /\ (Executing(f) <=> Executing(active(c)))
    BY <1>3 DEF Tasks, Executing
  <1>5. PICK d : d = withActive(c, f)
    OBVIOUS
  <1>6. /\ d \in Checkpoints /\ ChainOK(d.frames) /\ NothingNew(c, d)
        /\ level(d) = level(c) /\ active(d) = f /\ d.inbox = c.inbox /\ d.budget = c.budget
        /\ d.created = c.created /\ d.pendingSummary = c.pendingSummary
    <2>1. /\ f.revision > 0 \/ f.tasks = <<>>
          /\ level(c) < 3 => ~Executing(f)
          /\ \A a, b \in Tasks(f, "RUNNING") : a = b
      BY <1>3, <1>4, TopIsOK
    <2> QED BY <1>1, <1>3, <1>5, <2>1, NewTop
  <1>7. PICK e : e = Noted(c, n, r)
    OBVIOUS
  <1>8. e = [d EXCEPT !.runnable = r]
    BY <1>2, <1>5, <1>7 DEF noted, Noted
  <1>9. /\ e \in Checkpoints /\ e.frames = d.frames /\ e.inbox = d.inbox /\ e.budget = d.budget
        /\ e.created = d.created /\ e.pendingSummary = d.pendingSummary /\ e.runnable = r
    BY <1>6, <1>8 DEF Checkpoints
  <1>10. level(e) = level(d) /\ active(e) = active(d) /\ (NothingNew(c, d) => NothingNew(c, e))
    BY <1>9 DEF level, active, NothingNew
  <1>11. ~pending(e)
    BY <1>6, <1>9 DEF pending
  <1> QED BY <1>1, <1>2, <1>3, <1>6, <1>7, <1>9, <1>10, <1>11

\* Putting together the invariant of a checkpoint without a summary.
LEMMA NoSummaryOK ==
  ASSUME NEW d \in Checkpoints, ChainOK(d.frames), assertBudgets(d), KeysOK(d.inbox), ~pending(d)
  PROVE  ContextOK(d)
  <1>1. FitsOK(d.frames, d.budget)
    BY DEF assertBudgets, FitsOK
  <1>2. SealOK(d)
    BY DEF SealOK
  <1> QED BY <1>1, <1>2, ContextParts

\* A plan of tasks that all wait.
LEMMA PlannedKeeps ==
  ASSUME NEW e \in Checkpoints, ChainOK(e.frames), ~pending(e), NEW count \in Nat
  PROVE  LET d == planned(e, count) IN
         /\ d \in Checkpoints /\ ChainOK(d.frames) /\ NothingNew(e, d) /\ ~pending(d)
         /\ d.inbox = e.inbox /\ d.budget = e.budget /\ d.runnable = e.runnable
  <1>1. active(e) \in Frames /\ active(e).revision \in Nat
    BY ChainTypes DEF Frames
  <1>2. PICK ts : ts = [i \in 1 .. count |-> "WAITING"]
    OBVIOUS
  <1>3. ts \in Seq(TaskStates) /\ \A i \in DOMAIN ts : ts[i] = "WAITING"
    <2>1. ts \in [1 .. count -> TaskStates]
      BY <1>2 DEF TaskStates
    <2> QED BY <1>2, <2>1, SeqDef
  <1>4. PICK f : f = [active(e) EXCEPT !.revision = active(e).revision + 1, !.tasks = ts]
    OBVIOUS
  <1>5. /\ f \in Frames /\ f.inputs = active(e).inputs /\ f.parent = active(e).parent
        /\ f.tasks = ts /\ f.revision > 0
    <2>1. PICK v : v = active(e).revision + 1
      OBVIOUS
    <2>2. v \in Nat /\ v > 0
      BY <1>1, <2>1
    <2>3. f = [active(e) EXCEPT !.revision = v, !.tasks = ts]
      BY <1>4, <2>1
    <2>4. /\ f \in Frames /\ f.inputs = active(e).inputs /\ f.parent = active(e).parent
          /\ f.tasks = ts /\ f.revision = v
      BY <1>1, <1>3, <2>2, <2>3 DEF Frames
    <2> QED BY <2>2, <2>4
  <1>6. Tasks(f, "RUNNING") = {} /\ ~Executing(f)
    BY <1>3, <1>5 DEF Tasks, Executing
  <1>7. PICK d : d = withActive(e, f)
    OBVIOUS
  <1>8. d = planned(e, count)
    BY <1>2, <1>4, <1>7 DEF planned
  <1>9. /\ d \in Checkpoints /\ ChainOK(d.frames) /\ NothingNew(e, d)
        /\ d.inbox = e.inbox /\ d.budget = e.budget /\ d.pendingSummary = e.pendingSummary
    BY <1>5, <1>6, <1>7, NewTop
  <1>10. d.runnable = e.runnable
    BY <1>7 DEF withActive, Checkpoints
  <1> QED BY <1>8, <1>9, <1>10 DEF pending

\* A step of the plan is done.
LEMMA StepCompletedKeeps ==
  ASSUME NEW e \in Checkpoints, ChainOK(e.frames), ~pending(e)
  PROVE  LET d == stepCompleted(e) IN
         /\ d \in Checkpoints /\ ChainOK(d.frames) /\ NothingNew(e, d) /\ ~pending(d)
         /\ d.inbox = e.inbox /\ d.budget = e.budget /\ d.runnable = e.runnable
  <1>1. /\ active(e) \in Frames /\ active(e).tasks \in Seq(TaskStates)
        /\ active(e).revision > 0 \/ active(e).tasks = <<>>
    BY ChainTypes DEF Frames
  <1>2. PICK us : us = active(e).tasks
    OBVIOUS
  <1>3. PICK ts : ts = [i \in DOMAIN us |-> IF us[i] = "RUNNING" THEN "COMPLETED" ELSE us[i]]
    OBVIOUS
  <1>4. /\ ts \in Seq(TaskStates) /\ (us = <<>> => ts = <<>>)
        /\ \A i \in DOMAIN ts : ts[i] # "RUNNING"
    <2>1. us \in Seq(TaskStates) /\ DOMAIN us = 1 .. Len(us) /\ Len(us) \in Nat
      BY <1>1, <1>2
    <2>2. \A i \in 1 .. Len(us) : us[i] \in TaskStates
      BY <2>1
    <2>3. ts \in [1 .. Len(us) -> TaskStates]
      BY <1>3, <2>1, <2>2 DEF TaskStates
    <2>4. ts \in Seq(TaskStates)
      BY <2>1, <2>3, SeqDef
    <2>5. us = <<>> => ts = <<>>
      <3>1. us = <<>> => Len(us) = 0
        OBVIOUS
      <3>2. Len(us) = 0 => DOMAIN ts = {}
        BY <2>1, <2>3
      <3> QED BY <2>4, <3>1, <3>2
    <2> QED BY <1>3, <2>4, <2>5
  <1>5. PICK f : f = [active(e) EXCEPT !.tasks = ts]
    OBVIOUS
  <1>6. /\ f \in Frames /\ f.inputs = active(e).inputs /\ f.parent = active(e).parent
        /\ f.tasks = ts /\ f.revision = active(e).revision
    BY <1>1, <1>4, <1>5 DEF Frames
  <1>7. Tasks(f, "RUNNING") = {} /\ ~Executing(f) /\ (f.revision > 0 \/ f.tasks = <<>>)
    BY <1>1, <1>2, <1>4, <1>6 DEF Tasks, Executing
  <1>8. PICK d : d = withActive(e, f)
    OBVIOUS
  <1>9. d = stepCompleted(e)
    BY <1>2, <1>3, <1>5, <1>8 DEF stepCompleted
  <1>10. /\ d \in Checkpoints /\ ChainOK(d.frames) /\ NothingNew(e, d)
         /\ d.inbox = e.inbox /\ d.budget = e.budget /\ d.pendingSummary = e.pendingSummary
    BY <1>6, <1>7, <1>8, NewTop
  <1>11. d.runnable = e.runnable
    BY <1>8 DEF withActive, Checkpoints
  <1> QED BY <1>9, <1>10, <1>11 DEF pending

\* The next task is begun, above the third level in a frame of its own.
LEMMA AdvancedKeeps ==
  ASSUME NEW e \in Checkpoints, ChainOK(e.frames), ~pending(e),
         ~Executing(active(e)), Tasks(active(e), "WAITING") # {}
  PROVE  LET d == advanced(e) IN
         /\ d \in Checkpoints /\ ChainOK(d.frames) /\ NothingNew(e, d) /\ ~pending(d)
         /\ d.inbox = e.inbox /\ d.budget = e.budget /\ d.runnable = e.runnable
  <1>1. PICK p : p = active(e)
    OBVIOUS
  <1>2. /\ p \in Frames /\ p.tasks \in Seq(TaskStates) /\ IsFiniteSet(p.inputs)
        /\ p.revision > 0 \/ p.tasks = <<>>
        /\ e.frames \in Seq(Frames) /\ p = e.frames[Len(e.frames)]
        /\ level(e) = Len(e.frames) /\ level(e) \in 1 .. 3
    BY <1>1, ChainTypes DEF Frames
  <1>3. PICK j : j = CHOOSE i \in Tasks(p, "WAITING") : \A n \in Tasks(p, "WAITING") : i <= n
    OBVIOUS
  <1>4. j \in Tasks(p, "WAITING") /\ j \in 1 .. Len(p.tasks)
    <2>1. Tasks(p, "WAITING") \in SUBSET Nat
      BY <1>2, TasksFinite
    <2>2. Min(Tasks(p, "WAITING")) \in Tasks(p, "WAITING")
          /\ \A n \in Tasks(p, "WAITING") : Min(Tasks(p, "WAITING")) <= n
      BY <1>1, <2>1, NatMin
    <2> QED BY <1>2, <1>3, <2>2, TasksFinite
  <1>5. PICK q : q = [p EXCEPT !.tasks[j] = "RUNNING"]
    OBVIOUS
  <1>6. /\ q \in Frames /\ q.inputs = p.inputs /\ q.parent = p.parent /\ q.revision = p.revision
        /\ q.tasks = [p.tasks EXCEPT ![j] = "RUNNING"] /\ q.id = p.id
    <2>1. [p.tasks EXCEPT ![j] = "RUNNING"] \in Seq(TaskStates)
      BY <1>2, <1>4, ExceptSeq DEF TaskStates
    <2>2. q = [p EXCEPT !.tasks = [p.tasks EXCEPT ![j] = "RUNNING"]]
      BY <1>5
    <2> QED BY <1>2, <2>1, <2>2 DEF Frames
  <1>7. \A a \in Tasks(q, "RUNNING") : a = j
    <2>1. ASSUME NEW i \in DOMAIN q.tasks, q.tasks[i] = "RUNNING", i # j PROVE FALSE
      <3>1. p.tasks[i] = "RUNNING" /\ i \in DOMAIN p.tasks
        BY <1>2, <1>6, <2>1
      <3> QED BY <1>1, <3>1 DEF Executing, Tasks
    <2> QED BY <2>1 DEF Tasks
  <1>8. p.tasks # <<>> /\ q.revision > 0
    BY <1>2, <1>4, <1>6
  <1>9. PICK d : d = withActive(e, q)
    OBVIOUS
  <1>10. CASE level(e) = 3
    <2>1. advanced(e) = d
      <3>1. d = withActive(e, [p EXCEPT !.tasks[j] = "RUNNING"])
        BY <1>5, <1>9
      <3> QED BY <1>1, <1>3, <1>10, <3>1 DEF advanced
    <2>2. /\ d \in Checkpoints /\ ChainOK(d.frames) /\ NothingNew(e, d)
          /\ d.inbox = e.inbox /\ d.budget = e.budget /\ d.pendingSummary = e.pendingSummary
      <3>1. /\ \A a, b \in Tasks(q, "RUNNING") : a = b
            /\ level(e) < 3 => ~Executing(q)
        BY <1>7, <1>10
      <3> QED BY <1>1, <1>6, <1>8, <1>9, <3>1, NewTop
    <2>3. d.runnable = e.runnable
      BY <1>9 DEF withActive, Checkpoints
    <2> QED BY <2>1, <2>2, <2>3 DEF pending
  <1>11. CASE level(e) # 3
    <2>1. PICK kid : kid = child(e, j)
      OBVIOUS
    <2>2. /\ d = [e EXCEPT !.frames = [e.frames EXCEPT ![Len(e.frames)] = q]]
      BY <1>2, <1>9 DEF withActive
    <2>3. /\ [e.frames EXCEPT ![Len(e.frames)] = q] \in Seq(Frames)
          /\ Len([e.frames EXCEPT ![Len(e.frames)] = q]) = Len(e.frames)
          /\ [e.frames EXCEPT ![Len(e.frames)] = q][Len(e.frames)] = q
      <3>1. PICK n : n = Len(e.frames)
        OBVIOUS
      <3>2. n \in 1 .. n
        <4>1. n \in 1 .. 3
          BY <1>2, <3>1
        <4> QED BY <4>1
      <3> QED BY <1>2, <1>6, <3>1, <3>2, ExceptSeq
    <2>4. /\ d.frames = [e.frames EXCEPT ![Len(e.frames)] = q] /\ d.created = e.created
          /\ d.inbox = e.inbox /\ d.budget = e.budget /\ d.pendingSummary = e.pendingSummary
          /\ d.runnable = e.runnable /\ d \in Checkpoints
      BY <2>2, <2>3 DEF Checkpoints
    <2>6. /\ kid \in Frames /\ kid.inputs = q.inputs /\ kid.tasks = <<>>
          /\ kid.parent.revision = q.revision /\ kid.parent.task = j
      <3>1. kid = [p EXCEPT !.id = e.created + 1, !.revision = 0, !.tasks = <<>>,
                            !.parent = [revision |-> q.revision, task |-> j]]
        BY <1>1, <1>6, <2>1 DEF child
      <3>2. e.created + 1 \in Nat \ {0} /\ q.revision \in Nat /\ j \in Nat
        BY <1>4, <1>6 DEF Checkpoints, Frames
      <3>3. PICK u : u = [revision |-> q.revision, task |-> j]
        OBVIOUS
      <3>4. u \in [revision : Nat, task : Nat] /\ u.revision = q.revision /\ u.task = j
        BY <3>2, <3>3
      <3>5. PICK x : x = e.created + 1
        OBVIOUS
      <3>6. kid = [p EXCEPT !.id = x, !.revision = 0, !.tasks = <<>>, !.parent = u]
        BY <3>1, <3>3, <3>5
      <3>7. x \in Nat \ {0} /\ <<>> \in Seq(TaskStates)
        BY <3>2, <3>5
      <3>8. kid \in Frames /\ kid.inputs = q.inputs /\ kid.tasks = <<>> /\ kid.parent = u
        BY <1>2, <1>6, <3>4, <3>6, <3>7 DEF Frames
      <3> QED BY <3>4, <3>8
    <2>7. PICK gs : gs = Descended(e.frames, p, j, kid)
      OBVIOUS
    <2>8. /\ ChainOK(gs) /\ Len(gs) = Len(e.frames) + 1 /\ gs[Len(e.frames) + 1] = kid
          /\ gs[Len(e.frames)].inputs = p.inputs
          /\ \A i \in DOMAIN e.frames : i # Len(e.frames) => gs[i] = e.frames[i]
      <3>1. Len(e.frames) < 3 /\ j \in DOMAIN p.tasks
        BY <1>2, <1>4, <1>11
      <3>2. /\ IsFiniteSet(kid.inputs)
            /\ kid.parent.revision = p.revision /\ kid.parent.task = j
        BY <1>2, <1>6, <2>6
      <3>3. ~Executing(p) /\ p.parent = e.frames[Len(e.frames)].parent
            /\ p.revision = e.frames[Len(e.frames)].revision
        BY <1>1, <1>2
      <3>4. IsFiniteSet(p.inputs) /\ (p.revision > 0 \/ p.tasks = <<>>) /\ p \in Frames
        BY <1>2
      <3>5. kid \in Frames /\ kid.tasks = <<>> /\ gs = Descended(e.frames, p, j, kid)
        BY <2>6, <2>7
      <3> QED BY <3>1, <3>2, <3>3, <3>4, <3>5, AdvancedFrames
    <2>9. gs = Append(d.frames, kid)
      BY <1>5, <2>4, <2>7 DEF Descended
    <2>10. PICK r : r = advanced(e)
      OBVIOUS
    <2>11. r = [d EXCEPT !.frames = gs, !.created = d.created + 1]
      <3>1. d = withActive(e, [p EXCEPT !.tasks[j] = "RUNNING"])
        BY <1>5, <1>9
      <3>2. r = [d EXCEPT !.frames = Append(d.frames, child(e, j)), !.created = d.created + 1]
        BY <1>1, <1>3, <1>11, <2>10, <3>1 DEF advanced
      <3> QED BY <2>1, <2>9, <3>2
    <2>12. gs \in Seq(Frames) /\ d.created + 1 \in Nat
      BY <2>4, <2>8 DEF ChainOK, Checkpoints
    <2>13. /\ r \in Checkpoints /\ r.frames = gs /\ r.inbox = e.inbox /\ r.budget = e.budget
           /\ r.pendingSummary = e.pendingSummary /\ r.runnable = e.runnable
      BY <2>4, <2>11, <2>12 DEF Checkpoints
    <2>14. NothingNew(e, r)
      <3>1. PICK n : n = Len(e.frames)
        OBVIOUS
      <3>2. n \in 1 .. 3 /\ DOMAIN gs = 1 .. n + 1 /\ DOMAIN e.frames = 1 .. n
        BY <1>2, <2>8, <2>12, <3>1
      <3>3. \A i \in 1 .. n + 1 : i \in 1 .. n \/ i = n + 1
        BY <3>2
      <3>4. n \in 1 .. n
        <4>1. n \in 1 .. 3
          BY <3>2
        <4> QED BY <4>1
      <3>5. ASSUME NEW i \in 1 .. n + 1, NEW k \in gs[i].inputs
            PROVE  \E m \in DOMAIN e.frames : k \in e.frames[m].inputs
        <4>1. CASE i \in 1 .. n /\ i # n
          BY <2>8, <3>1, <3>2, <3>5, <4>1
        <4>2. CASE i = n \/ i = n + 1
          <5>1. k \in p.inputs
            BY <1>6, <2>6, <2>8, <3>1, <3>5, <4>2
          <5> QED BY <1>2, <3>1, <3>2, <3>4, <5>1
        <4> QED BY <3>3, <4>1, <4>2
      <3> QED BY <2>13, <3>2, <3>5 DEF NothingNew
    <2> QED BY <2>8, <2>10, <2>13, <2>14 DEF pending
  <1> QED BY <1>10, <1>11

\* apply: a decision that the manager accepts makes a checkpoint again.  Only the
\* end of a turn and a wait ask for no other round, and a turn ends at the root.
LEMMA ApplyKeeps ==
  ASSUME NEW c, ContextOK(c), NEW d, DecisionOK(d), NEW from, Applicable(c, from, d)
  PROVE  LET a == applyDecision(c, d) IN
         /\ ContextOK(a) /\ NothingNew(c, a) /\ a.inbox = c.inbox /\ a.budget = c.budget
         /\ d.type \notin {"finish_turn", "wait"} => needsRun(a)
         /\ d.type = "finish_turn" => level(c) = 1
  <1>1. PICK r : r = (d.type \notin {"finish_turn", "wait"})
    OBVIOUS
  <1>2. PICK e : e = [noted(c, d.notes) EXCEPT !.runnable = r]
    OBVIOUS
  <1>3. PICK a : a = applyDecision(c, d)
    OBVIOUS
  <1>4. ~pending(c) /\ DecisionAllowed(c, d) /\ assertBudgets(a)
    BY <1>3 DEF Applicable
  <1>5. /\ e \in Checkpoints /\ ChainOK(e.frames) /\ NothingNew(c, e)
        /\ level(e) = level(c) /\ e.inbox = c.inbox /\ e.budget = c.budget
        /\ ~pending(e) /\ e.runnable = r /\ active(e).tasks = active(c).tasks
    <2>1. PICK n : n = d.notes
      OBVIOUS
    <2>2. n \in Nat /\ r \in BOOLEAN
      BY <1>1, <2>1 DEF DecisionOK
    <2>3. e = Noted(c, n, r)
      BY <1>2, <2>1 DEF Noted
    <2> QED BY <1>4, <2>2, <2>3, NotedKeeps
  <1>6. /\ Executing(active(e)) = Executing(active(c))
        /\ Unfinished(active(e)) = Unfinished(active(c))
        /\ Tasks(active(e), "WAITING") = Tasks(active(c), "WAITING")
    BY <1>5 DEF Executing, Unfinished, Tasks
  <1>7. KeysOK(e.inbox)
    BY <1>5, CheckpointTypes
  <1> DEFINE Still == /\ a \in Checkpoints /\ ChainOK(a.frames) /\ NothingNew(e, a) /\ ~pending(a)
                     /\ a.inbox = e.inbox /\ a.budget = e.budget /\ a.runnable = e.runnable
  <1>8. ASSUME Still
        PROVE  /\ ContextOK(a) /\ NothingNew(c, a) /\ a.inbox = c.inbox /\ a.budget = c.budget
               /\ d.type \notin {"finish_turn", "wait"} => needsRun(a)
    <2>1. ContextOK(a)
      BY <1>4, <1>7, <1>8, NoSummaryOK
    <2>2. NothingNew(c, a)
      BY <1>5, <1>8, NothingNewTwice
    <2>3. a.runnable = r
      BY <1>5, <1>8
    <2> QED BY <1>1, <1>5, <1>8, <2>1, <2>2, <2>3 DEF needsRun
  <1>9. d.type = "finish_turn" => level(c) = 1
    BY <1>4 DEF DecisionAllowed, Purposes
  <1>10. CASE d.type \in {"plan", "replan"}
    <2>1. a = planned(e, d.count)
      BY <1>1, <1>2, <1>3, <1>10 DEF applyDecision, Purposes
    <2>2. Still
      BY <1>5, <2>1, PlannedKeeps DEF DecisionOK
    <2> QED BY <1>3, <1>8, <1>9, <2>2
  <1>11. CASE d.type = "advance"
    <2>1. a = advanced(e)
      BY <1>1, <1>2, <1>3, <1>11 DEF applyDecision, Purposes
    <2>2. ~Executing(active(e)) /\ Tasks(active(e), "WAITING") # {}
      BY <1>4, <1>6, <1>11 DEF DecisionAllowed, Purposes
    <2>3. Still
      BY <1>5, <2>1, <2>2, AdvancedKeeps
    <2> QED BY <1>3, <1>8, <1>9, <2>3
  <1>12. CASE d.type = "step_completed"
    <2>1. a = stepCompleted(e)
      BY <1>1, <1>2, <1>3, <1>12 DEF applyDecision, Purposes
    <2>2. Still
      BY <1>5, <2>1, StepCompletedKeeps
    <2> QED BY <1>3, <1>8, <1>9, <2>2
  <1>13. CASE d.type \in Purposes
    <2>1. a = scheduleSummary(e, d.type)
      BY <1>1, <1>2, <1>3, <1>13 DEF applyDecision, Purposes
    <2>2. SummaryAllowed(c, d.type)
      BY <1>4, <1>13 DEF DecisionAllowed, Purposes
    <2>3. a.frames = e.frames /\ a.budget = e.budget
      BY <1>5, <2>1 DEF scheduleSummary, Checkpoints
    <2>4. FitsOK(e.frames, e.budget)
      BY <1>4, <2>3 DEF assertBudgets, FitsOK
    <2>5. /\ ContextOK(a) /\ pending(a) /\ a.frames = e.frames /\ a.inbox = e.inbox
          /\ a.budget = e.budget /\ a.runnable = TRUE
      <3>1. /\ d.type \in {"complete", "idle"} => ~Unfinished(active(e))
            /\ d.type \in {"complete", "interrupt"} => level(e) > 1
            /\ d.type = "idle" => level(e) = 1
        BY <1>5, <1>6, <2>2 DEF SummaryAllowed
      <3> QED BY <1>5, <1>7, <1>13, <2>1, <2>4, <3>1, ScheduleKeeps
    <2>6. NothingNew(c, a) /\ needsRun(a)
      BY <1>5, <2>5 DEF NothingNew, needsRun
    <2> QED BY <1>3, <1>5, <1>9, <2>5, <2>6
  <1>14. CASE d.type \in {"finish_turn", "continue", "wait"}
    <2>1. a = e
      BY <1>1, <1>2, <1>3, <1>14 DEF applyDecision, Purposes
    <2>2. NothingNew(e, e)
      BY DEF NothingNew
    <2>3. Still
      BY <1>5, <2>1, <2>2
    <2> QED BY <1>3, <1>8, <1>9, <2>3
  <1> QED BY <1>10, <1>11, <1>12, <1>13, <1>14 DEF DecisionOK, DecisionTypes, Purposes

----------------------------------------------------------------------------
(* The loop of drainInbox *)

\* An input enters a frame as a reference, or as itself when its target is there.
LEMMA AbsorbedFrame ==
  ASSUME NEW f \in Frames, IsFiniteSet(f.inputs), NEW c, NEW e \in Deliveries
  PROVE  LET g == absorbed(f, c, e) IN
         /\ g \in Frames /\ IsFiniteSet(g.inputs) /\ g.parent = f.parent /\ g.tasks = f.tasks
         /\ g.id = f.id /\ g.revision = f.revision
         /\ \A k \in g.inputs : k \in f.inputs \/ (k = e.key /\ ~stale(c, e))
  <1>1. PICK g : g = absorbed(f, c, e)
    OBVIOUS
  <1>2. f.notes \in Nat /\ f.inputs \subseteq Inputs /\ e.key \in Inputs
    BY DEF Frames, Deliveries
  <1>3. CASE stale(c, e)
    <2>1. PICK v : v = f.notes + 1
      OBVIOUS
    <2>2. v \in Nat /\ g = [f EXCEPT !.notes = v]
      BY <1>1, <1>2, <1>3, <2>1 DEF absorbed
    <2>3. /\ g \in Frames /\ g.inputs = f.inputs /\ g.parent = f.parent /\ g.tasks = f.tasks
          /\ g.id = f.id /\ g.revision = f.revision
      BY <2>2 DEF Frames
    <2> QED BY <1>1, <2>3
  <1>4. CASE ~stale(c, e)
    <2>1. PICK v : v = f.inputs \cup {e.key}
      OBVIOUS
    <2>2. v \in SUBSET Inputs /\ IsFiniteSet(v)
      <3>1. v \in SUBSET Inputs
        BY <1>2, <2>1
      <3>2. IsFiniteSet({e.key})
        BY FS_Singleton
      <3>3. IsFiniteSet(f.inputs \cup {e.key})
        BY <3>2, FS_Union
      <3> QED BY <2>1, <3>1, <3>3
    <2>3. g = [f EXCEPT !.inputs = v]
      BY <1>1, <1>4, <2>1 DEF absorbed
    <2>4. /\ g \in Frames /\ g.inputs = v /\ g.parent = f.parent /\ g.tasks = f.tasks
          /\ g.id = f.id /\ g.revision = f.revision
      BY <2>2, <2>3 DEF Frames
    <2>5. \A k \in g.inputs : k \in f.inputs \/ (k = e.key /\ ~stale(c, e))
      BY <1>4, <2>1, <2>4
    <2> QED BY <1>1, <2>2, <2>4, <2>5
  <1> QED BY <1>3, <1>4

\* The chain is as it was but for what the frame on top took in.
SameChain(c, d) ==
  /\ d.budget = c.budget /\ Len(d.frames) = Len(c.frames)
  /\ \A i \in DOMAIN c.frames :
       /\ d.frames[i].id = c.frames[i].id /\ d.frames[i].revision = c.frames[i].revision
       /\ i # Len(c.frames) => d.frames[i].inputs = c.frames[i].inputs

\* The inputs that wait in the inbox once that of e has left it.
LEMMA LeftInInbox ==
  ASSUME NEW q \in Seq(Deliveries), KeysOK(q), NEW e
  PROVE  LET r == Among(q, {x \in ToSet(q) : x.key # e.key}) IN
         /\ r \in Seq(Deliveries) /\ KeysOK(r)
         /\ ToSet(r) = {x \in ToSet(q) : x.key # e.key}
  <1>1. PICK S : S = {x \in ToSet(q) : x.key # e.key}
    OBVIOUS
  <1>2. PICK r : r = Among(q, S)
    OBVIOUS
  <1>3. /\ r \in Seq(Deliveries) /\ Len(r) <= Len(q) /\ ToSet(r) = ToSet(q) \cap S /\ Within(r, q)
    BY <1>2, Filter
  <1>4. PICK f \in [1 .. Len(r) -> 1 .. Len(q)] :
           /\ \A i \in 1 .. Len(r) : r[i] = q[f[i]]
           /\ \A i, j \in 1 .. Len(r) : f[i] = f[j] => i = j
    BY <1>3 DEF Within
  <1>5. ASSUME NEW i \in DOMAIN r, NEW j \in DOMAIN r, r[i].key = r[j].key PROVE i = j
    <2>1. i \in 1 .. Len(r) /\ j \in 1 .. Len(r)
      BY <1>3
    <2>2. f[i] \in DOMAIN q /\ f[j] \in DOMAIN q /\ q[f[i]].key = q[f[j]].key
      BY <1>4, <1>5, <2>1
    <2> QED BY <1>4, <2>1, <2>2 DEF KeysOK
  <1>6. KeysOK(r)
    <2>1. Len(r) <= maxInbox
      <3>1. Len(r) \in Nat /\ Len(q) \in Nat /\ maxInbox \in Nat /\ Len(q) <= maxInbox
        BY <1>3, ContextAssumption DEF KeysOK
      <3> QED BY <1>3, <3>1
    <2> QED BY <1>5, <2>1 DEF KeysOK
  <1>7. ToSet(r) = S
    BY <1>1, <1>3
  <1> QED BY <1>1, <1>2, <1>3, <1>6, <1>7

\* A delivery for the frame on top is for its plan, or for none that is there.
LEMMA ForTop ==
  ASSUME NEW c \in Checkpoints, ChainOK(c.frames), NEW e \in Deliveries,
         addressee(c, e) = level(c), ~stale(c, e)
  PROVE  e.target = NoCursor \/ isTarget(active(c), e)
  <1>1. PICK found : found = {i \in DOMAIN c.frames : isTarget(c.frames[i], e)}
    OBVIOUS
  <1>2. addressee(c, e) = IF found = {} THEN 1 ELSE CHOOSE i \in found : TRUE
    BY <1>1 DEF addressee
  <1>3. CASE found = {}
    BY <1>1, <1>3 DEF stale
  <1>4. CASE found # {}
    <2>1. level(c) \in found
      BY <1>2, <1>4
    <2> QED BY <1>1, <2>1 DEF active
  <1> QED BY <1>3, <1>4

\* taken: the input is in the frame on top and has left the inbox.
LEMMA TakeOne ==
  ASSUME NEW d \in Checkpoints, ChainOK(d.frames), FitsOK(d.frames, d.budget), KeysOK(d.inbox),
         NEW e \in Deliveries, addressee(d, e) = level(d),
         Size(absorbed(active(d), d, e)) <= d.budget.max
  PROVE  LET t == taken(d, e) IN
         /\ t \in Checkpoints /\ ChainOK(t.frames) /\ FitsOK(t.frames, t.budget)
         /\ KeysOK(t.inbox) /\ SameChain(d, t)
         /\ t.pendingSummary = d.pendingSummary /\ t.runnable = TRUE
         /\ \A k \in active(t).inputs :
              \/ k \in active(d).inputs
              \/ k = e.key /\ (e.target = NoCursor \/ isTarget(active(d), e))
         /\ ToSet(t.inbox) = {x \in ToSet(d.inbox) : x.key # e.key}
  <1>1. /\ d.frames \in Seq(Frames) /\ level(d) = Len(d.frames) /\ level(d) \in 1 .. 3
        /\ active(d) = d.frames[Len(d.frames)] /\ active(d) \in Frames
        /\ IsFiniteSet(active(d).inputs)
        /\ active(d).revision > 0 \/ active(d).tasks = <<>>
        /\ \A a, b \in Tasks(active(d), "RUNNING") : a = b
        /\ level(d) < 3 => ~Executing(active(d))
    BY ChainTypes
  <1>2. PICK f : f = absorbed(active(d), d, e)
    OBVIOUS
  <1>3. /\ f \in Frames /\ IsFiniteSet(f.inputs) /\ f.parent = active(d).parent
        /\ f.tasks = active(d).tasks /\ f.id = active(d).id /\ f.revision = active(d).revision
        /\ \A k \in f.inputs : k \in active(d).inputs \/ (k = e.key /\ ~stale(d, e))
    BY <1>1, <1>2, AbsorbedFrame
  <1>4. /\ \A a, b \in Tasks(f, "RUNNING") : a = b
        /\ f.revision > 0 \/ f.tasks = <<>>
        /\ Len(d.frames) < 3 => ~Executing(f)
    <2>1. Tasks(f, "RUNNING") = Tasks(active(d), "RUNNING")
      BY <1>3 DEF Tasks
    <2> QED BY <1>1, <1>3, <2>1 DEF Executing
  <1>5. PICK gs : gs = [d.frames EXCEPT ![Len(d.frames)] = f]
    OBVIOUS
  <1>6. /\ ChainOK(gs) /\ Len(gs) = Len(d.frames) /\ gs[Len(d.frames)] = f
        /\ \A i \in DOMAIN d.frames : i # Len(d.frames) => gs[i] = d.frames[i]
    BY <1>1, <1>3, <1>4, <1>5, TopFrame
  <1>7. gs \in Seq(Frames) /\ DOMAIN gs = DOMAIN d.frames
    BY <1>5, <1>6 DEF ChainOK
  <1>8. d.inbox \in Seq(Deliveries) /\ d.budget \in Budgets
    BY DEF Checkpoints, Deliveries
  <1>9. PICK r : r = Among(d.inbox, {x \in ToSet(d.inbox) : x.key # e.key})
    OBVIOUS
  <1>10. /\ r \in Seq(Deliveries) /\ KeysOK(r)
         /\ ToSet(r) = {x \in ToSet(d.inbox) : x.key # e.key}
    BY <1>8, <1>9, LeftInInbox
  <1>11. PICK t : t = taken(d, e)
    OBVIOUS
  <1>12. t = [d EXCEPT !.frames = gs, !.inbox = r, !.runnable = TRUE]
    <2>1. PICK w : w = withActive(d, f)
      OBVIOUS
    <2>2. w = [d EXCEPT !.frames = gs]
      BY <1>1, <1>5, <2>1 DEF withActive
    <2>3. w.inbox = d.inbox
      BY <2>2
    <2>4. t = [w EXCEPT !.inbox = r, !.runnable = TRUE]
      BY <1>2, <1>9, <1>11, <2>1, <2>3 DEF taken
    <2> QED BY <2>2, <2>4
  <1>13. /\ t \in Checkpoints /\ t.frames = gs /\ t.inbox = r /\ t.runnable = TRUE
         /\ t.budget = d.budget /\ t.pendingSummary = d.pendingSummary
    BY <1>7, <1>10, <1>12 DEF Checkpoints, Deliveries
  <1>14. active(t) = f
    BY <1>1, <1>6, <1>13 DEF active, level
  <1>15. FitsOK(t.frames, t.budget)
    <2>1. Size(f) <= d.budget.max
      BY <1>2
    <2>2. Len(f.tasks) <= d.budget.maxTasks
      <3>1. PICK n : n = Len(d.frames)
        OBVIOUS
      <3>2. n \in 1 .. 3 /\ DOMAIN d.frames = 1 .. n
        BY <1>1, <3>1
      <3>3. n \in DOMAIN d.frames
        BY <3>2
      <3> QED BY <1>1, <1>3, <3>1, <3>3 DEF FitsOK
    <2>3. ASSUME NEW i \in DOMAIN gs
          PROVE  Size(gs[i]) <= d.budget.max /\ Len(gs[i].tasks) <= d.budget.maxTasks
      <3>1. CASE i = Len(d.frames)
        BY <1>6, <2>1, <2>2, <3>1
      <3>2. CASE i # Len(d.frames)
        BY <1>6, <1>7, <3>2 DEF FitsOK
      <3> QED BY <3>1, <3>2
    <2> QED BY <1>13, <2>3 DEF FitsOK
  <1>16. SameChain(d, t)
    <2>1. ASSUME NEW i \in DOMAIN d.frames
          PROVE  /\ gs[i].id = d.frames[i].id /\ gs[i].revision = d.frames[i].revision
                 /\ i # Len(d.frames) => gs[i].inputs = d.frames[i].inputs
      BY <1>1, <1>3, <1>6
    <2> QED BY <1>6, <1>13, <2>1 DEF SameChain
  <1>17. ASSUME NEW k \in active(t).inputs
         PROVE  \/ k \in active(d).inputs
                \/ k = e.key /\ (e.target = NoCursor \/ isTarget(active(d), e))
    BY <1>3, <1>14, ForTop
  <1> QED BY <1>6, <1>10, <1>11, <1>13, <1>15, <1>16, <1>17

\* What the frame on top of d took from the first n deliveries.
FromInbox(c, n, d) ==
  \A k \in active(d).inputs :
    \/ k \in active(c).inputs
    \/ \E j \in 1 .. n : /\ c.inbox[j].key = k
                         /\ c.inbox[j].target = NoCursor \/ isTarget(active(c), c.inbox[j])

\* s are deliveries among the first n of q, each once.
TakenOK(q, n, s) ==
  /\ \A a \in DOMAIN s : \E j \in 1 .. n : s[a] = q[j]
  /\ \A a, b \in DOMAIN s : s[a].key = s[b].key => a = b

\* The state of the loop after n turns over the inbox of c.
LoopOK(c, n, m) ==
  /\ m \in [draft : Checkpoints, taken : Seq(Deliveries), left : BOOLEAN, refused : BOOLEAN]
  /\ ChainOK(m.draft.frames) /\ FitsOK(m.draft.frames, m.draft.budget) /\ KeysOK(m.draft.inbox)
  /\ SameChain(c, m.draft) /\ FromInbox(c, n, m.draft)
  /\ TakenOK(c.inbox, n, m.taken)
  /\ ToSet(m.draft.inbox) = ToSet(c.inbox) \ ToSet(m.taken)
  /\ c.runnable => m.draft.runnable
  /\ m.refused => m.left
  /\ pending(m.draft) <=> m.left /\ ~m.refused
  /\ pending(m.draft) => ContextOK(m.draft)
  /\ Len(c.frames) = 1 /\ ~m.left => \A j \in 1 .. n : c.inbox[j] \in ToSet(m.taken)

\* A chain that is the same twice is the same.
LEMMA SameChainTwice ==
  ASSUME NEW c, NEW d, NEW e, SameChain(c, d), SameChain(d, e),
         DOMAIN d.frames = DOMAIN c.frames
  PROVE  SameChain(c, e)
  BY DEF SameChain

\* A target is the same delivery's in a chain that is the same.
LEMMA SameTarget ==
  ASSUME NEW c, NEW d, SameChain(c, d), Len(c.frames) \in DOMAIN c.frames, NEW e
  PROVE  isTarget(active(d), e) <=> isTarget(active(c), e)
  BY DEF SameChain, isTarget, active, level

\* What was taken in n turns was taken in more.
LEMMA MoreTurns ==
  ASSUME NEW c, NEW n \in Nat, NEW m, LoopOK(c, n, m), m.left \/ Len(c.frames) # 1
  PROVE  LoopOK(c, n + 1, m)
  <1>1. \A j \in 1 .. n : j \in 1 .. n + 1
    OBVIOUS
  <1>2. FromInbox(c, n, m.draft) => FromInbox(c, n + 1, m.draft)
    BY <1>1 DEF FromInbox
  <1>3. TakenOK(c.inbox, n, m.taken) => TakenOK(c.inbox, n + 1, m.taken)
    BY <1>1 DEF TakenOK
  <1> QED BY <1>2, <1>3 DEF LoopOK

\* A summary that the loop schedules keeps what the loop has established.
LEMMA LoopSummary ==
  ASSUME NEW c, NEW n, NEW m, LoopOK(c, n, m), ~m.left,
         NEW d, d = scheduleSummary(m.draft, "compact")
  PROVE  /\ LoopOK(c, n, [m EXCEPT !.left = TRUE, !.draft = d])
         /\ d.frames = m.draft.frames /\ d.inbox = m.draft.inbox
  <1>1. /\ ContextOK(d) /\ pending(d) /\ d.frames = m.draft.frames /\ d.inbox = m.draft.inbox
        /\ d.budget = m.draft.budget /\ d.runnable = TRUE
    <2>1. m.draft \in Checkpoints /\ "compact" \in Purposes
      BY DEF LoopOK, Purposes
    <2> QED BY <2>1, ScheduleKeeps DEF LoopOK
  <1>2. PICK x : x = [m EXCEPT !.left = TRUE, !.draft = d]
    OBVIOUS
  <1>3. /\ x \in [draft : Checkpoints, taken : Seq(Deliveries), left : BOOLEAN, refused : BOOLEAN]
        /\ x.draft = d /\ x.taken = m.taken /\ x.left = TRUE /\ x.refused = m.refused
        /\ ~m.refused
    <2>1. d \in Checkpoints
      BY <1>1 DEF ContextOK
    <2> QED BY <1>2, <2>1 DEF LoopOK
  <1>4. SameChain(c, d) /\ FromInbox(c, n, d)
    <2>1. active(d) = active(m.draft)
      BY <1>1 DEF active, level
    <2> QED BY <1>1, <2>1 DEF LoopOK, SameChain, FromInbox
  <1>5. ChainOK(d.frames) /\ FitsOK(d.frames, d.budget) /\ KeysOK(d.inbox)
    BY <1>1 DEF LoopOK
  <1>6. LoopOK(c, n, x)
    BY <1>1, <1>3, <1>4, <1>5 DEF LoopOK
  <1> QED BY <1>1, <1>2, <1>6

\* One turn that takes the delivery.
LEMMA TakingTurn ==
  ASSUME NEW c, ContextOK(c), NEW n \in Nat, n + 1 <= Len(c.inbox), NEW m, LoopOK(c, n, m), ~m.left,
         NEW e, e = c.inbox[n + 1], addressee(m.draft, e) = level(m.draft),
         Size(absorbed(active(m.draft), m.draft, e)) <= m.draft.budget.max
  PROVE  LoopOK(c, n + 1, [m EXCEPT !.taken = Append(@, e), !.left = FALSE,
                                    !.draft = taken(m.draft, e)])
  <1>1. PICK d : d = m.draft
    OBVIOUS
  <1>2. PICK q : q = c.inbox
    OBVIOUS
  <1>3. /\ q \in Seq(Deliveries) /\ KeysOK(q) /\ n + 1 \in DOMAIN q /\ e \in Deliveries
        /\ q[n + 1] = e /\ DOMAIN q = 1 .. Len(q) /\ e \in ToSet(q)
    <2>1. q \in Seq(Deliveries) /\ KeysOK(q)
      BY <1>2, CheckpointTypes
    <2>2. n + 1 \in 1 .. Len(q)
      BY <1>2, <2>1
    <2> QED BY <1>2, <2>1, <2>2 DEF ToSet
  <1>4. c.frames \in Seq(Frames) /\ Len(c.frames) \in 1 .. 3 /\ DOMAIN c.frames = 1 .. Len(c.frames)
    BY CheckpointTypes DEF ChainOK
  <1>5. PICK t : t = taken(d, e)
    OBVIOUS
  <1>6. /\ t \in Checkpoints /\ ChainOK(t.frames) /\ FitsOK(t.frames, t.budget)
        /\ KeysOK(t.inbox) /\ SameChain(d, t)
        /\ t.pendingSummary = d.pendingSummary /\ t.runnable = TRUE
        /\ \A k \in active(t).inputs :
             \/ k \in active(d).inputs
             \/ k = e.key /\ (e.target = NoCursor \/ isTarget(active(d), e))
        /\ ToSet(t.inbox) = {y \in ToSet(d.inbox) : y.key # e.key}
    <2>1. d \in Checkpoints /\ ChainOK(d.frames) /\ FitsOK(d.frames, d.budget) /\ KeysOK(d.inbox)
      BY <1>1 DEF LoopOK
    <2>2. addressee(d, e) = level(d) /\ Size(absorbed(active(d), d, e)) <= d.budget.max
      BY <1>1
    <2> QED BY <1>3, <1>5, <2>1, <2>2, TakeOne
  <1>7. SameChain(c, d) /\ DOMAIN d.frames = DOMAIN c.frames
    <2>1. SameChain(c, d) /\ d.frames \in Seq(Frames)
      BY <1>1 DEF LoopOK, ChainOK
    <2> QED BY <1>4, <2>1 DEF SameChain
  <1>8. SameChain(c, t)
    BY <1>6, <1>7, SameChainTwice
  <1>9. FromInbox(c, n + 1, t)
    <2>1. ASSUME NEW k \in active(d).inputs
          PROVE  \/ k \in active(c).inputs
                 \/ \E j \in 1 .. n + 1 :
                      /\ c.inbox[j].key = k
                      /\ c.inbox[j].target = NoCursor \/ isTarget(active(c), c.inbox[j])
      <3>1. FromInbox(c, n, d)
        BY <1>1 DEF LoopOK
      <3>2. \A j \in 1 .. n : j \in 1 .. n + 1
        OBVIOUS
      <3> QED BY <3>1, <3>2 DEF FromInbox
    <2>2. isTarget(active(d), e) <=> isTarget(active(c), e)
      <3>1. PICK l : l = Len(c.frames)
        OBVIOUS
      <3>2. l \in 1 .. 3 /\ DOMAIN c.frames = 1 .. l
        BY <1>4, <3>1
      <3>3. l \in DOMAIN c.frames
        BY <3>2
      <3> QED BY <1>7, <3>1, <3>3, SameTarget
    <2>3. n + 1 \in 1 .. n + 1
      OBVIOUS
    <2>4. ASSUME NEW k, k = e.key, e.target = NoCursor \/ isTarget(active(d), e)
          PROVE  \E j \in 1 .. n + 1 :
                   /\ c.inbox[j].key = k
                   /\ c.inbox[j].target = NoCursor \/ isTarget(active(c), c.inbox[j])
      BY <1>2, <1>3, <2>2, <2>3, <2>4
    <2> QED BY <1>6, <2>1, <2>4 DEF FromInbox
  <1>10. PICK s : s = m.taken
    OBVIOUS
  <1>11. s \in Seq(Deliveries) /\ TakenOK(q, n, s)
    BY <1>2, <1>10 DEF LoopOK
  <1>12. PICK r : r = Append(s, e)
    OBVIOUS
  <1>13. PICK l : l = Len(s)
    OBVIOUS
  <1>14. /\ r \in Seq(Deliveries) /\ DOMAIN r = 1 .. l + 1 /\ DOMAIN s = 1 .. l /\ l \in Nat
         /\ r[l + 1] = e /\ \A a \in 1 .. l : r[a] = s[a]
    BY <1>3, <1>11, <1>12, <1>13
  <1>15. \A a \in 1 .. l + 1 : a \in 1 .. l \/ a = l + 1
    BY <1>14
  <1>16. ASSUME NEW a \in 1 .. l PROVE \E j \in 1 .. n : r[a] = q[j]
    BY <1>11, <1>14 DEF TakenOK
  <1>17. ASSUME NEW a \in 1 .. l, r[a].key = e.key PROVE FALSE
    <2>1. PICK j \in 1 .. n : r[a] = q[j]
      BY <1>16
    <2>2. j \in DOMAIN q /\ j # n + 1
      BY <1>3
    <2> QED BY <1>3, <1>17, <2>1, <2>2 DEF KeysOK
  <1>18. TakenOK(q, n + 1, r)
    <2>1. ASSUME NEW a \in DOMAIN r PROVE \E j \in 1 .. n + 1 : r[a] = q[j]
      <3>1. CASE a \in 1 .. l
        BY <1>16, <3>1
      <3>2. CASE a = l + 1
        <4>1. n + 1 \in 1 .. n + 1
          OBVIOUS
        <4> QED BY <1>3, <1>14, <3>2, <4>1
      <3> QED BY <1>14, <1>15, <3>1, <3>2
    <2>2. ASSUME NEW a \in DOMAIN r, NEW b \in DOMAIN r, r[a].key = r[b].key PROVE a = b
      <3>1. CASE a \in 1 .. l /\ b \in 1 .. l
        BY <1>11, <1>14, <2>2, <3>1 DEF TakenOK
      <3>2. CASE a = l + 1 /\ b \in 1 .. l
        BY <1>14, <1>17, <2>2, <3>2
      <3>3. CASE a \in 1 .. l /\ b = l + 1
        BY <1>14, <1>17, <2>2, <3>3
      <3> QED BY <1>14, <1>15, <3>1, <3>2, <3>3
    <2> QED BY <2>1, <2>2 DEF TakenOK
  <1>19. ToSet(r) = ToSet(s) \cup {e}
    <2>1. ASSUME NEW x \in ToSet(r) PROVE x \in ToSet(s) \cup {e}
      BY <1>14, <1>15, <2>1 DEF ToSet
    <2>2. ASSUME NEW x \in ToSet(s) PROVE x \in ToSet(r)
      BY <1>14, <2>2 DEF ToSet
    <2>3. e \in ToSet(r)
      <3>1. l + 1 \in DOMAIN r
        BY <1>14
      <3> QED BY <1>14, <3>1 DEF ToSet
    <2> QED BY <2>1, <2>2, <2>3
  <1>20. ToSet(t.inbox) = ToSet(q) \ ToSet(r)
    <2>1. ToSet(d.inbox) = ToSet(q) \ ToSet(s)
      BY <1>1, <1>2, <1>10 DEF LoopOK
    <2>2. ASSUME NEW x \in ToSet(q), x.key = e.key PROVE x = e
      <3>1. PICK j \in DOMAIN q : x = q[j]
        BY DEF ToSet
      <3> QED BY <1>3, <2>2, <3>1 DEF KeysOK
    <2> QED BY <1>6, <1>19, <2>1, <2>2
  <1>21. PICK x : x = [m EXCEPT !.taken = r, !.left = FALSE, !.draft = t]
    OBVIOUS
  <1>22. /\ x \in [draft : Checkpoints, taken : Seq(Deliveries), left : BOOLEAN, refused : BOOLEAN]
         /\ x.draft = t /\ x.taken = r /\ x.left = FALSE /\ x.refused = m.refused
         /\ ~m.refused
    BY <1>6, <1>14, <1>21 DEF LoopOK
  <1>23. ~pending(t)
    <2>1. ~pending(d)
      BY <1>1 DEF LoopOK
    <2> QED BY <1>6, <2>1 DEF pending
  <1>24. ASSUME Len(c.frames) = 1, NEW j \in 1 .. n + 1 PROVE q[j] \in ToSet(r)
    <2>1. CASE j = n + 1
      BY <1>3, <1>19, <2>1
    <2>2. CASE j \in 1 .. n
      <3>1. q[j] \in ToSet(s)
        BY <1>2, <1>10, <1>24, <2>2 DEF LoopOK
      <3> QED BY <1>19, <3>1
    <2> QED BY <2>1, <2>2
  <1>25. LoopOK(c, n + 1, x)
    BY <1>2, <1>6, <1>8, <1>9, <1>18, <1>20, <1>22, <1>23, <1>24 DEF LoopOK
  <1> QED BY <1>1, <1>5, <1>10, <1>12, <1>21, <1>25

\* One turn of the loop keeps what the loop has established.
LEMMA OneTurn ==
  ASSUME NEW c, ContextOK(c), NEW n \in Nat, n + 1 <= Len(c.inbox), NEW m, LoopOK(c, n, m)
  PROVE  LoopOK(c, n + 1, drainOne(m, c.inbox[n + 1]))
  <1>1. PICK e : e = c.inbox[n + 1]
    OBVIOUS
  <1>2. PICK d : d = m.draft
    OBVIOUS
  <1>3. PICK f : f = absorbed(active(d), d, e)
    OBVIOUS
  <1>4. PICK x : x = drainOne(m, e)
    OBVIOUS
  <1>5. /\ d \in Checkpoints /\ ChainOK(d.frames) /\ SameChain(c, d)
        /\ m \in [draft : Checkpoints, taken : Seq(Deliveries), left : BOOLEAN, refused : BOOLEAN]
    BY <1>2 DEF LoopOK
  <1>6. /\ e \in Deliveries /\ c.frames \in Seq(Frames) /\ c.inbox \in Seq(Deliveries)
    <2>1. c.inbox \in Seq(Deliveries) /\ c.frames \in Seq(Frames)
      BY CheckpointTypes
    <2> QED BY <1>1, <2>1
  <1>7. CASE m.left \/ addressee(d, e) # level(d)
    <2>1. x = m
      BY <1>2, <1>4, <1>7 DEF drainOne
    <2>2. m.left \/ Len(c.frames) # 1
      <3>1. CASE m.left
        BY <3>1
      <3>2. CASE Len(c.frames) = 1 /\ addressee(d, e) # level(d)
        <4>1. level(d) = 1 /\ DOMAIN d.frames = {1}
          <5>1. Len(d.frames) = 1 /\ d.frames \in Seq(Frames)
            BY <1>5, <3>2 DEF SameChain, ChainOK
          <5> QED BY <5>1 DEF level
        <4>2. addressee(d, e) = 1
          <5>1. PICK found : found = {i \in DOMAIN d.frames : isTarget(d.frames[i], e)}
            OBVIOUS
          <5>2. addressee(d, e) = IF found = {} THEN 1 ELSE CHOOSE i \in found : TRUE
            BY <5>1 DEF addressee
          <5> QED BY <4>1, <5>1, <5>2
        <4> QED BY <3>2, <4>1, <4>2
      <3> QED BY <1>7, <3>1, <3>2
    <2> QED BY <1>1, <1>4, <2>1, <2>2, MoreTurns
  <1>8. CASE ~m.left /\ addressee(d, e) = level(d) /\ Size(f) > d.budget.max
    <2>1. CASE active(d).inputs = {} /\ active(d).notes = 0
      <3>1. x = [m EXCEPT !.left = TRUE, !.refused = TRUE]
        BY <1>2, <1>3, <1>4, <1>8, <2>1 DEF drainOne
      <3>2. /\ x \in [draft : Checkpoints, taken : Seq(Deliveries), left : BOOLEAN, refused : BOOLEAN]
            /\ x.draft = d /\ x.taken = m.taken /\ x.left = TRUE /\ x.refused = TRUE
        BY <1>2, <1>5, <3>1
      <3>3. LoopOK(c, n, x)
        <4>1. ~pending(d)
          BY <1>2, <1>8 DEF LoopOK
        <4> QED BY <1>2, <3>2, <4>1 DEF LoopOK
      <3> QED BY <1>1, <1>4, <3>2, <3>3, MoreTurns
    <2>2. CASE ~(active(d).inputs = {} /\ active(d).notes = 0)
      <3>1. PICK t : t = scheduleSummary(d, "compact")
        OBVIOUS
      <3>2. x = [m EXCEPT !.left = TRUE, !.draft = t]
        BY <1>2, <1>3, <1>4, <1>8, <2>2, <3>1 DEF drainOne
      <3>3. LoopOK(c, n, x) /\ x.left = TRUE
        BY <1>2, <1>5, <1>8, <3>1, <3>2, LoopSummary
      <3> QED BY <1>1, <1>4, <3>3, MoreTurns
    <2> QED BY <2>1, <2>2
  <1>9. CASE ~m.left /\ addressee(d, e) = level(d) /\ ~(Size(f) > d.budget.max)
    <2>1. Size(f) <= d.budget.max
      <3>1. f \in Frames /\ IsFiniteSet(f.inputs)
        <4>1. active(d) \in Frames /\ IsFiniteSet(active(d).inputs)
          BY <1>5, ChainTypes
        <4> QED BY <1>3, <1>6, <4>1, AbsorbedFrame
      <3>2. Size(f) \in Nat
        BY <3>1, SizeIsNat
      <3>3. d.budget.max \in Nat
        BY <1>5, ContextAssumption DEF Checkpoints
      <3> QED BY <1>9, <3>2, <3>3
    <2>2. PICK t : t = taken(d, e)
      OBVIOUS
    <2>3. PICK full : full = (Size(f) >= d.budget.compactAt)
      OBVIOUS
    <2>3a. full \in BOOLEAN
      <3>1. Size(f) \in Nat /\ d.budget.compactAt \in Nat
        <4>1. active(d) \in Frames /\ IsFiniteSet(active(d).inputs)
          BY <1>5, ChainTypes
        <4>2. f \in Frames /\ IsFiniteSet(f.inputs)
          BY <1>3, <1>6, <4>1, AbsorbedFrame
        <4> QED BY <1>5, <4>2, SizeIsNat, ContextAssumption DEF Checkpoints
      <3>2. PICK a \in Nat, b \in Nat : a = Size(f) /\ b = d.budget.compactAt
        BY <3>1
      <3>3. (a >= b) \in BOOLEAN
        OBVIOUS
      <3> QED BY <2>3, <3>2, <3>3
    <2>4. PICK y : y = [m EXCEPT !.taken = Append(m.taken, e), !.left = FALSE, !.draft = t]
      OBVIOUS
    <2>5. LoopOK(c, n + 1, y) /\ y.left = FALSE /\ y.draft = t
      <3>1. addressee(m.draft, e) = level(m.draft)
            /\ Size(absorbed(active(m.draft), m.draft, e)) <= m.draft.budget.max
        BY <1>2, <1>3, <1>9, <2>1
      <3>2. LoopOK(c, n + 1, [m EXCEPT !.taken = Append(@, e), !.left = FALSE,
                                       !.draft = taken(m.draft, e)])
        BY <1>1, <1>9, <3>1, TakingTurn
      <3> QED BY <1>2, <1>5, <2>2, <2>4, <3>2
    <2>5a. x = [m EXCEPT !.taken = Append(@, e), !.left = full,
                       !.draft = IF full THEN scheduleSummary(t, "compact") ELSE t]
      BY <1>2, <1>3, <1>4, <1>9, <2>2, <2>3 DEF drainOne
    <2>6. CASE full = FALSE
      <3>1. x = y
        BY <2>4, <2>5a, <2>6
      <3> QED BY <1>1, <1>4, <2>5, <3>1
    <2>7. CASE full = TRUE
      <3>1. PICK u : u = scheduleSummary(t, "compact")
        OBVIOUS
      <3>2. x = [m EXCEPT !.taken = Append(m.taken, e), !.left = TRUE, !.draft = u]
        BY <2>5a, <2>7, <3>1
      <3>3. x = [y EXCEPT !.left = TRUE, !.draft = u]
        BY <1>5, <2>4, <3>2
      <3>4. ~y.left /\ u = scheduleSummary(y.draft, "compact")
        BY <2>5, <3>1
      <3>5. LoopOK(c, n + 1, x)
        BY <2>5, <3>3, <3>4, LoopSummary
      <3> QED BY <1>1, <1>4, <3>5
    <2> QED BY <2>3a, <2>6, <2>7
  <1> QED BY <1>7, <1>8, <1>9

\* The states of the loop over the first n deliveries.
StartTurn(c) == [draft |-> c, taken |-> <<>>, left |-> FALSE, refused |-> FALSE]
Turns(turn, c, n) ==
  turn = [i \in 0 .. n |-> IF i = 0 THEN StartTurn(c) ELSE drainOne(turn[i - 1], c.inbox[i])]

\* The loop has its states, however long it is.
LEMMA TurnsExist ==
  ASSUME NEW c, NEW n \in Nat
  PROVE  \E turn : Turns(turn, c, n)
  <1> DEFINE P(m) == \E turn : Turns(turn, c, m)
             I == {m \in Nat : ~P(m)}
  <1>1. SUFFICES ASSUME I # {} PROVE FALSE
    OBVIOUS
  <1> HIDE DEF P
  <1>2. PICK m : m = Min(I)
    OBVIOUS
  <1>3. m \in Nat /\ ~P(m) /\ \A i \in Nat : i < m => P(i)
    <2>1. I \in SUBSET Nat
      OBVIOUS
    <2>2. m \in I /\ \A i \in I : m <= i
      BY <1>1, <1>2, <2>1, NatMin
    <2>3. m \in Nat /\ ~P(m)
      BY <2>2
    <2>4. ASSUME NEW i \in Nat, i < m, ~P(i) PROVE FALSE
      BY <2>2, <2>3, <2>4
    <2> QED BY <2>3, <2>4
  <1>4. CASE m = 0
    <2> DEFINE u == [i \in 0 .. 0 |-> StartTurn(c)]
    <2>1. u = [i \in 0 .. 0 |->
                 IF i = 0 THEN StartTurn(c) ELSE drainOne(u[i - 1], c.inbox[i])]
      OBVIOUS
    <2> HIDE DEF u
    <2>2. P(0)
      BY <2>1 DEF P, Turns
    <2> QED BY <1>3, <1>4, <2>2
  <1>5. CASE m # 0
    <2>1. P(m - 1)
      BY <1>3, <1>5
    <2>2. PICK t : t = [i \in 0 .. m - 1 |->
                          IF i = 0 THEN StartTurn(c) ELSE drainOne(t[i - 1], c.inbox[i])]
      BY <2>1 DEF P, Turns
    <2> DEFINE u == [i \in 0 .. m |-> IF i = m THEN drainOne(t[m - 1], c.inbox[m]) ELSE t[i]]
    <2>3. ASSUME NEW i \in 0 .. m
          PROVE  u[i] = IF i = 0 THEN StartTurn(c) ELSE drainOne(u[i - 1], c.inbox[i])
      <3>1. \A j \in 0 .. m - 1 : u[j] = t[j]
        BY <1>3
      <3>2. CASE i = m
        <4>1. u[m] = drainOne(t[m - 1], c.inbox[m])
          BY <1>3
        <4>2. u[m - 1] = t[m - 1]
          BY <1>3, <1>5, <3>1
        <4> QED BY <1>5, <3>2, <4>1, <4>2
      <3>3. CASE i < m
        <4>1. u[i] = t[i] /\ (i # 0 => u[i - 1] = t[i - 1])
          BY <1>3, <3>1, <3>3
        <4>2. i \in 0 .. m - 1
          BY <1>3, <3>3
        <4>3. t[i] = IF i = 0 THEN StartTurn(c) ELSE drainOne(t[i - 1], c.inbox[i])
          BY <2>2, <4>2
        <4> QED BY <4>1, <4>3
      <3> QED BY <1>3, <3>2, <3>3
    <2>4. u = [i \in 0 .. m |->
                 IF i = 0 THEN StartTurn(c) ELSE drainOne(u[i - 1], c.inbox[i])]
      BY <2>3
    <2> HIDE DEF u
    <2>5. P(m)
      BY <2>4 DEF P, Turns
    <2> QED BY <1>3, <2>5
  <1> QED BY <1>3, <1>4, <1>5

\* What the loop has established when it starts.
LEMMA LoopStart ==
  ASSUME NEW c, ContextOK(c), ~pending(c)
  PROVE  LoopOK(c, 0, StartTurn(c))
  <1>1. PICK m : m = StartTurn(c)
    OBVIOUS
  <1>2. /\ c \in Checkpoints /\ ChainOK(c.frames) /\ FitsOK(c.frames, c.budget) /\ KeysOK(c.inbox)
    BY CheckpointTypes
  <1>3. /\ m \in [draft : Checkpoints, taken : Seq(Deliveries), left : BOOLEAN, refused : BOOLEAN]
        /\ m.draft = c /\ m.taken = <<>> /\ m.left = FALSE /\ m.refused = FALSE
    BY <1>1, <1>2 DEF StartTurn
  <1>4. SameChain(c, c) /\ FromInbox(c, 0, c)
    BY DEF SameChain, FromInbox
  <1>5. TakenOK(c.inbox, 0, <<>>) /\ ToSet(<<>>) = {} /\ \A j \in 1 .. 0 : FALSE
    BY DEF TakenOK, ToSet
  <1> QED BY <1>1, <1>2, <1>3, <1>4, <1>5 DEF LoopOK

\* What the loop has established when it has been over the inbox.
LEMMA LoopEnd ==
  ASSUME NEW c, ContextOK(c), ~pending(c)
  PROVE  LoopOK(c, Len(c.inbox), turns(c)[Len(c.inbox)])
  <1>1. PICK l : l = Len(c.inbox)
    OBVIOUS
  <1>2. l \in Nat
    <2>1. c.inbox \in Seq(Deliveries)
      BY CheckpointTypes
    <2> QED BY <1>1, <2>1
  <1>3. PICK turn : turn = turns(c)
    OBVIOUS
  <1>4. Turns(turn, c, l)
    <2>1. turn = CHOOSE u : Turns(u, c, l)
      BY <1>1, <1>3 DEF turns, Turns, StartTurn
    <2> QED BY <1>2, <2>1, TurnsExist
  <1> DEFINE P(n) == LoopOK(c, n, turn[n])
             I == {m \in 0 .. l : ~P(m)}
  <1>5. P(0)
    <2>1. turn[0] = StartTurn(c)
      BY <1>2, <1>4 DEF Turns
    <2> QED BY <2>1, LoopStart
  <1>6. ASSUME NEW n \in 0 .. l, n # 0, P(n - 1) PROVE P(n)
    <2>1. turn[n] = drainOne(turn[n - 1], c.inbox[n])
      BY <1>4, <1>6 DEF Turns
    <2>2. PICK k : k = n - 1
      OBVIOUS
    <2>3. k \in Nat /\ n = k + 1 /\ k + 1 <= Len(c.inbox)
      BY <1>1, <1>2, <1>6, <2>2
    <2>4. LoopOK(c, k, turn[k])
      BY <1>6, <2>2
    <2>5. LoopOK(c, k + 1, drainOne(turn[k], c.inbox[k + 1]))
      BY <2>3, <2>4, OneTurn
    <2> QED BY <2>1, <2>2, <2>3, <2>5
  <1> HIDE DEF P
  <1>7. ASSUME I # {} PROVE FALSE
    <2>1. I \in SUBSET Nat
      BY <1>2
    <2>2. PICK m : m = Min(I)
      OBVIOUS
    <2>3. m \in I /\ \A i \in I : m <= i
      BY <1>7, <2>1, <2>2, NatMin
    <2>4. m \in 0 .. l /\ ~P(m) /\ m # 0
      BY <1>5, <2>3
    <2>5. m - 1 \in 0 .. l /\ m - 1 < m
      BY <1>2, <2>4
    <2>6. P(m - 1)
      BY <2>3, <2>4, <2>5
    <2> QED BY <1>6, <2>4, <2>6
  <1>8. P(l)
    <2>1. l \in 0 .. l
      BY <1>2
    <2> QED BY <1>7, <2>1
  <1> QED BY <1>1, <1>3, <1>8 DEF P

\* prepare: what comes in, what stays out, and when the inbox is empty.
LEMMA PrepareKeeps ==
  ASSUME NEW c, ContextOK(c), NEW m, m = prepare(c), ~m.refused
  PROVE  /\ ContextOK(m.draft) /\ SameChain(c, m.draft) /\ FromInbox(c, Len(c.inbox), m.draft)
         /\ m.taken \in Seq(Deliveries) /\ TakenOK(c.inbox, Len(c.inbox), m.taken)
         /\ ToSet(m.draft.inbox) = ToSet(c.inbox) \ ToSet(m.taken)
         /\ needsRun(c) => needsRun(m.draft)
         /\ pending(c) => m.draft = c
         /\ level(c) = 1 /\ ~pending(m.draft) => m.draft.inbox = <<>>
  <1>1. PICK l : l = Len(c.inbox)
    OBVIOUS
  <1>2. c.inbox \in Seq(Deliveries) /\ level(c) = Len(c.frames) /\ c.frames \in Seq(Frames)
    BY CheckpointTypes
  <1>3. CASE pending(c)
    <2>1. /\ m = [draft |-> c, taken |-> <<>>, left |-> TRUE, refused |-> FALSE]
      BY <1>3 DEF prepare
    <2>2. m.draft = c /\ m.taken = <<>>
      BY <2>1
    <2>3. SameChain(c, c) /\ FromInbox(c, l, c)
      BY DEF SameChain, FromInbox
    <2>4. TakenOK(c.inbox, l, <<>>) /\ ToSet(<<>>) = {} /\ <<>> \in Seq(Deliveries)
      BY DEF TakenOK, ToSet
    <2> QED BY <1>1, <1>3, <2>2, <2>3, <2>4
  <1>4. CASE ~pending(c)
    <2>1. PICK n : n = turns(c)[l]
      OBVIOUS
    <2>2. LoopOK(c, l, n)
      BY <1>1, <1>4, <2>1, LoopEnd
    <2>3. PICK d : d = n.draft
      OBVIOUS
    <2>4. m = IF ~n.left /\ Size(active(d)) >= d.budget.compactAt
                THEN [n EXCEPT !.draft = scheduleSummary(d, "compact")] ELSE n
      BY <1>1, <1>4, <2>1, <2>3 DEF prepare, drainInbox
    <2>5. n \in [draft : Checkpoints, taken : Seq(Deliveries), left : BOOLEAN, refused : BOOLEAN]
      BY <2>2 DEF LoopOK
    <2>6. PICK x : /\ LoopOK(c, l, x)
                   /\ m.draft = x.draft /\ m.taken = x.taken /\ m.refused = x.refused
      <3>1. CASE ~n.left /\ Size(active(d)) >= d.budget.compactAt
        <4>1. PICK t : t = scheduleSummary(d, "compact")
          OBVIOUS
        <4>2. m = [n EXCEPT !.draft = t]
          BY <2>4, <3>1, <4>1
        <4>3. PICK x : x = [n EXCEPT !.left = TRUE, !.draft = t]
          OBVIOUS
        <4>4. LoopOK(c, l, x)
          BY <2>2, <2>3, <3>1, <4>1, <4>3, LoopSummary
        <4>5. m.draft = x.draft /\ m.taken = x.taken /\ m.refused = x.refused
          BY <2>5, <4>2, <4>3
        <4> QED BY <4>4, <4>5
      <3>2. CASE ~(~n.left /\ Size(active(d)) >= d.budget.compactAt)
        <4>1. m = n
          BY <2>4, <3>2
        <4> QED BY <2>2, <4>1
      <3> QED BY <3>1, <3>2
    <2>7. PICK a : a = x.draft
      OBVIOUS
    <2>8. ContextOK(a)
      <3>1. a \in Checkpoints /\ ChainOK(a.frames) /\ FitsOK(a.frames, a.budget) /\ KeysOK(a.inbox)
        BY <2>6, <2>7 DEF LoopOK
      <3>2. CASE pending(a)
        BY <2>6, <2>7, <3>2 DEF LoopOK
      <3>3. CASE ~pending(a)
        <4>1. assertBudgets(a)
          BY <3>1 DEF assertBudgets, FitsOK
        <4> QED BY <3>1, <3>3, <4>1, NoSummaryOK
      <3> QED BY <3>2, <3>3
    <2>9. needsRun(c) => needsRun(a)
      BY <1>4, <2>6, <2>7 DEF needsRun, LoopOK
    <2>10. ASSUME level(c) = 1, ~pending(a) PROVE a.inbox = <<>>
      <3>1. ~x.left
        BY <2>6, <2>7, <2>10 DEF LoopOK
      <3>2. \A j \in 1 .. l : c.inbox[j] \in ToSet(x.taken)
        BY <1>2, <2>6, <2>10, <3>1 DEF LoopOK
      <3>3. ToSet(c.inbox) \subseteq ToSet(x.taken)
        BY <1>1, <1>2, <3>2 DEF ToSet
      <3>4. ToSet(a.inbox) = {} /\ a.inbox \in Seq(Deliveries)
        <4>1. ToSet(a.inbox) = ToSet(c.inbox) \ ToSet(x.taken)
          BY <2>6, <2>7 DEF LoopOK
        <4> QED BY <2>8, <3>3, <4>1, CheckpointTypes
      <3>5. DOMAIN a.inbox = {}
        BY <3>4 DEF ToSet
      <3>6. Len(a.inbox) = 0
        <4>1. PICK k : k = Len(a.inbox)
          OBVIOUS
        <4>2. 1 .. k = {} /\ k \in Nat
          <5>1. DOMAIN a.inbox = 1 .. k /\ k \in Nat
            BY <3>4, <4>1
          <5> QED BY <3>5, <5>1
        <4>3. k = 0
          BY <4>2
        <4> QED BY <4>1, <4>3
      <3> QED BY <3>4, <3>6
    <2>11. /\ SameChain(c, a) /\ FromInbox(c, l, a)
           /\ x.taken \in Seq(Deliveries) /\ TakenOK(c.inbox, l, x.taken)
           /\ ToSet(a.inbox) = ToSet(c.inbox) \ ToSet(x.taken)
      BY <2>6, <2>7 DEF LoopOK
    <2> QED BY <1>1, <1>4, <2>6, <2>7, <2>8, <2>9, <2>10, <2>11
  <1> QED BY <1>3, <1>4

----------------------------------------------------------------------------
(* The steps of the round *)

\* The step keeps every input to the plan it is meant for.
Respects ==
  \A k \in Inputs : \A i \in DOMAIN context'.frames :
    /\ k \in context'.frames[i].inputs
    /\ \A j \in DOMAIN context.frames : k \notin context.frames[j].inputs
    /\ target[k] # NoCursor
    => target[k] = [frame |-> context.frames[i].id, revision |-> context.frames[i].revision]

\* What the assumptions say of the bounds of the agent.
LEMMA BoundTypes ==
  ASSUME ContextOK(context)
  PROVE  /\ bound.messages \subseteq Inputs \ (Ops \cup Feedbacks)
         /\ bound.feedbacks \subseteq Feedbacks
         /\ \A f \in bound.feedbacks : wake[f] \notin bound.messages
         /\ bound.types \subseteq DecisionTypes /\ bound.count \in Nat
         /\ Ops \subseteq Inputs /\ Feedbacks \subseteq Inputs
         /\ \A f \in Feedbacks : wake[f] \in Inputs
  <1>1. context.budget \in Budgets
    BY CheckpointTypes
  <1>2. context.budget.maxTasks \in {b.maxTasks : b \in Budgets}
    BY <1>1
  <1>3. PICK n \in {b.maxTasks : b \in Budgets} : n = context.budget.maxTasks
    BY <1>2
  <1>4. bound = Bounds[n]
    BY <1>3 DEF bound
  <1>5. /\ Bounds[n].messages \subseteq Inputs \ (Ops \cup Feedbacks)
        /\ Bounds[n].feedbacks \subseteq Feedbacks
        /\ \A f \in Bounds[n].feedbacks : wake[f] \notin Bounds[n].messages
        /\ Bounds[n].types \subseteq DecisionTypes /\ Bounds[n].count \in Nat
    BY RoundAssumption
  <1>6. /\ Ops \subseteq Inputs /\ Feedbacks \subseteq Inputs
        /\ \A f \in Feedbacks : wake[f] \in Inputs
    BY RoundAssumption
  <1> QED BY <1>4, <1>5, <1>6

\* A frame has an id.
LEMMA CursorIs ==
  ASSUME ContextOK(context)
  PROVE  cursor(context) \in Cursors /\ cursor(context) # NoCursor
  <1>1. active(context) \in Frames
    BY CheckpointTypes
  <1>2. active(context).id \in Nat \ {0} /\ active(context).revision \in Nat
    BY <1>1 DEF Frames
  <1> QED BY <1>2 DEF cursor, Cursors, NoCursor

\* A context with the same maxTasks has the same bounds.
LEMMA SameBound ==
  ASSUME context'.budget.maxTasks = context.budget.maxTasks
  PROVE  bound' = bound /\ Decisions' = Decisions
  <1>1. bound' = bound
    BY DEF bound
  <1> QED BY <1>1 DEF Decisions

\* A step that takes in no input, and moves none, keeps what is known of them.
LEMMA NoInputMoved ==
  ASSUME IInv, ContextOK(context'), NothingNew(context, context'),
         context'.inbox = context.inbox, context'.budget.maxTasks = context.budget.maxTasks,
         UNCHANGED <<records, target, batch, arrived, inflight, taking>>,
         acked' \subseteq records,
         \A k \in acked' : k \in acked \/ (batch # NoBatch /\ k \in ToSet(batch)),
         RoundTypeOK', RoundOK', WorkOK'
  PROVE  IInv' /\ Respects
  <1>1. ContextOK(context)'
    OBVIOUS
  <1>2. InputsOK'
    BY DEF IInv, InputsOK
  <1>3. WakesOK'
    <2>1. bound' = bound
      BY SameBound
    <2> QED BY <2>1 DEF IInv, WakesOK
  <1>4. InboxOK'
    BY DEF IInv, InboxOK
  <1>5. InputsConserved'
    BY DEF IInv, InputsConserved, InInbox
  <1>6. OpsKept'
    BY DEF IInv, OpsKept
  <1>7. Respects
    BY DEF NothingNew, Respects
  <1> QED BY <1>1, <1>2, <1>3, <1>4, <1>5, <1>6, <1>7 DEF IInv

\* A checkpoint that differs in the progress of its summary at most.
LEMMA SameIsNothingNew ==
  ASSUME NEW c, NEW d, Same(c, d)
  PROVE  /\ ContextOK(d) /\ NothingNew(c, d) /\ d.inbox = c.inbox /\ d.budget = c.budget
         /\ (needsRun(d) <=> needsRun(c)) /\ level(d) = level(c) /\ (pending(d) <=> pending(c))
  BY DEF Same, NothingNew, needsRun, level

\* A checkpoint that stays is the same.
LEMMA Stays ==
  ASSUME NEW c, ContextOK(c)
  PROVE  Same(c, c)
  BY DEF Same

\* A step that touches neither the inputs nor the round, nor what the round rests on.
LEMMA Silence ==
  ASSUME IInv, Same(context, context'), RoundTypeOK',
         UNCHANGED <<records, target, batch, arrived, cont, inflight, taking, acked,
                     receipt, summarised, round>>,
         At("idle") \/ reply' = reply
  PROVE  IInv' /\ Respects
  <1>1. /\ ContextOK(context') /\ NothingNew(context, context') /\ context'.inbox = context.inbox
        /\ context'.budget = context.budget /\ (needsRun(context') <=> needsRun(context))
        /\ level(context') = level(context) /\ (pending(context') <=> pending(context))
    BY SameIsNothingNew
  <1>2. RoundOK'
    <2>1. RoundOK
      BY DEF IInv
    <2> QED BY <1>1, <2>1 DEF RoundOK, At, NoReply
  <1>3. WorkOK'
    <2>1. WorkOK
      BY DEF IInv
    <2> QED BY <1>1, <2>1 DEF WorkOK
  <1> QED BY <1>1, <1>2, <1>3, NoInputMoved DEF IInv

\* A round that is given up, with the batch kept.
LEMMA GivenUp ==
  ASSUME IInv, Same(context, context'), RoundTypeOK', round' = Idle, cont => cont',
         UNCHANGED <<records, target, batch, arrived, inflight, taking, acked, receipt, summarised>>
  PROVE  IInv' /\ Respects
  <1>1. /\ ContextOK(context') /\ NothingNew(context, context') /\ context'.inbox = context.inbox
        /\ context'.budget = context.budget /\ (needsRun(context') <=> needsRun(context))
    BY SameIsNothingNew
  <1>2. RoundOK'
    BY DEF IInv, RoundOK, At, Idle
  <1>3. WorkOK'
    BY <1>1 DEF IInv, WorkOK, Idle
  <1> QED BY <1>1, <1>2, <1>3, NoInputMoved DEF IInv

\* A failure keeps the batch and stores the context it is given.
LEMMA FailKeeps ==
  ASSUME IInv, NEW kind, NEW c, Same(context, c), Fail(kind, c)
  PROVE  IInv' /\ Respects
  <1>1. /\ context' = c /\ round' = Idle
        /\ UNCHANGED <<records, target, batch, arrived, cont, inflight, taking, acked, receipt,
                       summarised, acted, dropped, sends, faults, resumes>>
    BY DEF Fail, schedVars, histVars, boundVars
  <1>2. RoundTypeOK'
    <2>1. /\ c \in Checkpoints /\ level(c) \in 1 .. 3 /\ Decisions' = Decisions
      BY <1>1, SameIsNothingNew, CheckpointTypes, SameBound
    <2>2. /\ retries' \in Nat /\ held' \in BOOLEAN /\ status' \in {"active", "paused"}
          /\ fault' \in {"none", "protocol", "other"} /\ aborted' = FALSE
      <3>1. /\ retries \in Nat /\ held \in BOOLEAN /\ status \in {"active", "paused"}
            /\ fault \in {"none", "protocol", "other"}
        BY DEF IInv, RoundTypeOK
      <3>2. CASE status # "active"
        BY <3>1, <3>2 DEF Fail, hostVars
      <3>3. CASE status = "active"
        <4>1. Counted(kind) \in Nat /\ Retries(kind) \in BOOLEAN
          BY <3>1 DEF Counted, Retries
        <4> QED BY <3>3, <4>1 DEF Fail
      <3> QED BY <3>2, <3>3
    <2>3. reply' \in {reply, NoReply} /\ text' \in {text, "none"}
      BY DEF Fail, Repaired
    <2>4. Idle \in [pc : Steps, all : BOOLEAN, attempted : BOOLEAN, cursor : Cursors]
      BY DEF Idle, Steps, Cursors, NoCursor
    <2>5. RoundTypeOK
      BY DEF IInv
    <2>6. reply' \in Decisions' \cup {NoReply} /\ text' \in {"none", "good", "bad"}
      BY <2>1, <2>3, <2>5 DEF RoundTypeOK
    <2>7. context' \in Checkpoints /\ level(context') \in 1 .. 3
      BY <1>1, <2>1
    <2>8. /\ {retries', sends', faults', resumes'} \subseteq Nat
          /\ round' \in [pc : Steps, all : BOOLEAN, attempted : BOOLEAN, cursor : Cursors]
          /\ aborted' \in BOOLEAN
      BY <1>1, <2>2, <2>4, <2>5 DEF RoundTypeOK
    <2> QED BY <1>1, <2>2, <2>5, <2>6, <2>7, <2>8 DEF RoundTypeOK
  <1> QED BY <1>1, <1>2, GivenUp

\* Every way a round fails.
LEMMA FailuresKeep ==
  ASSUME IInv,
         \/ Abort \/ InboxFull \/ NoCapacity \/ NotAdmitted \/ SummaryExhausted
         \/ SummaryUnanswered \/ RefuseSummary \/ WorkUnanswered \/ Refuse
  PROVE  IInv' /\ Respects
  <1>1. Same(context, context)
    BY Stays DEF IInv
  <1>2. pending(context) => Same(context, failed(context))
    BY ProgressKeeps DEF IInv
  <1>3. CASE Abort
    BY <1>1, <1>3, FailKeeps DEF Abort
  <1>4. CASE InboxFull
    BY <1>1, <1>4, FailKeeps DEF InboxFull
  <1>5. CASE NoCapacity
    BY <1>1, <1>5, FailKeeps DEF NoCapacity
  <1>6. CASE NotAdmitted
    BY <1>1, <1>6, FailKeeps DEF NotAdmitted
  <1>7. CASE SummaryExhausted
    BY <1>1, <1>7, FailKeeps DEF SummaryExhausted
  <1>8. CASE SummaryUnanswered
    <2>1. pending(context)
      BY <1>8 DEF SummaryUnanswered, IInv, RoundOK, At
    <2> QED BY <1>2, <1>8, <2>1, FailKeeps DEF SummaryUnanswered
  <1>9. CASE RefuseSummary
    <2>1. pending(context)
      BY <1>9 DEF RefuseSummary, IInv, RoundOK, At
    <2>2. PICK c : c = IF round.attempted THEN failed(context) ELSE context
      OBVIOUS
    <2>3. Same(context, c)
      BY <1>1, <1>2, <2>1, <2>2
    <2> QED BY <1>9, <2>2, <2>3, FailKeeps DEF RefuseSummary
  <1>10. CASE WorkUnanswered
    BY <1>1, <1>10, FailKeeps DEF WorkUnanswered
  <1>11. CASE Refuse
    BY <1>1, <1>11, FailKeeps DEF Refuse
  <1> QED BY <1>3, <1>4, <1>5, <1>6, <1>7, <1>8, <1>9, <1>10, <1>11

Rounds == [pc : Steps, all : BOOLEAN, attempted : BOOLEAN, cursor : Cursors]

\* The round goes on to its next step.
LEMMA Turned ==
  ASSUME RoundTypeOK, NEW p \in Steps, To(p)
  PROVE  /\ round' \in Rounds /\ round'.pc = p /\ round'.all = round.all
         /\ round'.attempted = round.attempted /\ round'.cursor = round.cursor
  BY DEF RoundTypeOK, To, Rounds

\* Only the round moves.
LEMMA RoundMoves ==
  ASSUME IInv, UNCHANGED <<diskVars, schedVars, hostVars, histVars, boundVars>>,
         round' \in Rounds, aborted' \in BOOLEAN, RoundOK',
         round'.pc \in {"prepared", "request", "working", "act", "apply"} =>
           pending(context) \/ level(context) # 1 \/ context.inbox = <<>> \/ arrived # <<>>
  PROVE  IInv' /\ Respects
  <1>1. UNCHANGED <<context, records, receipt, summarised, target, reply, text, acted, retries, fault,
                    batch, arrived, cont, inflight, status, held, taking, acked, sends, dropped,
                    faults, resumes>>
    BY DEF diskVars, schedVars, hostVars, histVars, boundVars
  <1>2. RoundTypeOK'
    <2>1. Decisions' = Decisions
      BY <1>1, SameBound
    <2>2. RoundTypeOK
      BY DEF IInv
    <2> QED BY <1>1, <2>1, <2>2 DEF RoundTypeOK, Rounds
  <1>3. WorkOK'
    BY <1>1 DEF IInv, WorkOK
  <1>4. ContextOK(context') /\ NothingNew(context, context')
    BY <1>1 DEF IInv, NothingNew
  <1> QED BY <1>1, <1>2, <1>3, <1>4, NoInputMoved DEF IInv

\* The steps that only move the round.
LEMMA RoundMovesKeep ==
  ASSUME IInv, Resolve \/ ReceiveMore \/ SavedSummary \/ ReturnRun \/ Committed \/ Ask
  PROVE  IInv' /\ Respects
  <1>1. RoundTypeOK /\ RoundOK /\ WorkOK /\ ContextOK(context)
    BY DEF IInv
  <1>2. round \in Rounds /\ aborted \in BOOLEAN
    BY <1>1 DEF RoundTypeOK, Rounds
  <1>3. CASE Resolve
    <2>1. /\ round' \in Rounds /\ round'.pc = "resolve" /\ round'.all = round.all
          /\ round'.attempted = round.attempted /\ round'.cursor = round.cursor
      BY <1>1, <1>3, Turned DEF Resolve, Steps
    <2>2. RoundOK'
      BY <1>1, <1>3, <2>1 DEF Resolve, RoundOK, At, diskVars, schedVars
    <2> QED BY <1>2, <1>3, <2>1, <2>2, RoundMoves DEF Resolve
  <1>4. CASE ReceiveMore
    <2>1. /\ round' \in Rounds /\ round'.pc = "receive" /\ round'.all = round.all
          /\ round'.attempted = round.attempted /\ round'.cursor = round.cursor
      BY <1>1, <1>4, Turned DEF ReceiveMore, Steps
    <2>2. RoundOK'
      BY <1>1, <1>4, <2>1 DEF ReceiveMore, RoundOK, At, diskVars, schedVars
    <2> QED BY <1>2, <1>4, <2>1, <2>2, RoundMoves DEF ReceiveMore
  <1>5. CASE SavedSummary
    <2>1. /\ round' \in Rounds /\ round'.pc = "answered" /\ round'.all = round.all
          /\ round'.attempted = round.attempted /\ round'.cursor = round.cursor
      BY <1>1, <1>5, Turned DEF SavedSummary, Steps
    <2>2. RoundOK'
      BY <1>1, <1>5, <2>1 DEF SavedSummary, RoundOK, At, diskVars, schedVars
    <2> QED BY <1>2, <1>5, <2>1, <2>2, RoundMoves DEF SavedSummary
  <1>6. CASE ReturnRun
    <2>1. round' = Idle /\ round' \in Rounds /\ aborted' \in BOOLEAN
      BY <1>6 DEF ReturnRun, Idle, Rounds, Steps, Cursors, NoCursor
    <2>2. RoundOK'
      BY <1>1, <1>6, <2>1 DEF ReturnRun, RoundOK, At, diskVars, schedVars, Idle
    <2> QED BY <1>6, <2>1, <2>2, RoundMoves DEF ReturnRun, Idle
  <1>7. CASE Committed
    <2>1. /\ round' \in Rounds /\ round'.pc = "acknowledge" /\ round'.all = round.all
          /\ round'.attempted = round.attempted /\ round'.cursor = round.cursor
      BY <1>1, <1>7, Turned DEF Committed, Steps
    <2>2. RoundOK'
      BY <1>1, <1>7, <2>1 DEF Committed, RoundOK, At, diskVars, schedVars
    <2> QED BY <1>2, <1>7, <2>1, <2>2, RoundMoves DEF Committed
  <1>8. CASE Ask
    <2>1. PICK p : p = IF reply = NoReply THEN "working" ELSE "act"
      OBVIOUS
    <2>2. cursor(context) \in Cursors /\ cursor(context) # NoCursor
      BY <1>1, CursorIs
    <2>3. /\ round' \in Rounds /\ round'.pc = p /\ round'.all = round.all
          /\ round'.cursor = cursor(context)
      <3>1. p \in Steps
        BY <2>1 DEF Steps
      <3>2. round' = [round EXCEPT !.pc = p, !.cursor = cursor(context)]
        BY <1>8, <2>1 DEF Ask
      <3> QED BY <1>2, <2>2, <3>1, <3>2 DEF Rounds
    <2>4. RoundOK'
      BY <1>1, <1>8, <2>1, <2>2, <2>3 DEF Ask, RoundOK, At, diskVars, schedVars
    <2>5. pending(context) \/ level(context) # 1 \/ context.inbox = <<>> \/ arrived # <<>>
      BY <1>1, <1>8 DEF Ask, At, WorkOK
    <2> QED BY <1>2, <1>8, <2>3, <2>4, <2>5, RoundMoves DEF Ask
  <1> QED BY <1>3, <1>4, <1>5, <1>6, <1>7, <1>8

\* The sources are told of a batch that is recorded.
LEMMA InputsReceivedKeeps ==
  ASSUME IInv, InputsReceived
  PROVE  IInv' /\ Respects
  <1>1. RoundTypeOK /\ RoundOK /\ WorkOK /\ ContextOK(context) /\ acked \subseteq records
    BY DEF IInv
  <1>2. /\ UNCHANGED <<context, records, receipt, summarised, target, reply, text, acted, retries,
                       fault, batch, arrived, cont, inflight, status, held, aborted, taking, sends,
                       dropped, faults, resumes>>
        /\ acked' = IF round.all THEN acked \cup ToSet(batch) ELSE acked
    BY DEF InputsReceived, diskVars, schedVars, hostVars, boundVars
  <1>3. PICK p : p = IF round.all /\ summarised THEN "acknowledge" ELSE "request"
    OBVIOUS
  <1>4. /\ round' \in Rounds /\ round'.pc = p /\ round'.all = round.all
        /\ round'.cursor = round.cursor
    <2>1. p \in Steps /\ To(p)
      BY <1>3 DEF InputsReceived, Steps
    <2> QED BY <1>1, <2>1, Turned
  <1>5. round.all => batch # NoBatch /\ ToSet(batch) \subseteq records
    BY <1>1 DEF RoundOK
  <1>6. /\ acked' \subseteq records
        /\ \A k \in acked' : k \in acked \/ (batch # NoBatch /\ k \in ToSet(batch))
    BY <1>1, <1>2, <1>5
  <1>7. RoundTypeOK'
    <2>1. Decisions' = Decisions
      BY <1>2, SameBound
    <2>2. acked' \subseteq Inputs
      BY <1>1, <1>6 DEF RoundTypeOK
    <2> QED BY <1>1, <1>2, <1>4, <2>1, <2>2 DEF RoundTypeOK, Rounds
  <1>8. RoundOK'
    BY <1>1, <1>2, <1>3, <1>4 DEF InputsReceived, RoundOK, At
  <1>9. WorkOK'
    BY <1>1, <1>2, <1>3, <1>4 DEF InputsReceived, WorkOK, At
  <1>10. ContextOK(context') /\ NothingNew(context, context')
    BY <1>1, <1>2 DEF NothingNew
  <1> QED BY <1>2, <1>6, <1>7, <1>8, <1>9, <1>10, NoInputMoved DEF IInv

\* Replies are stored before they are looked at.
LEMMA RepliesKeep ==
  ASSUME IInv, SummaryReply \/ WorkReply
  PROVE  IInv' /\ Respects
  <1>1. RoundTypeOK /\ RoundOK /\ WorkOK /\ ContextOK(context) /\ acked \subseteq records
    BY DEF IInv
  <1>2. /\ UNCHANGED <<context, records, receipt, summarised, target, acted, retries,
                       fault, batch, arrived, cont, inflight, status, held, aborted, taking, sends,
                       acked, dropped, faults, resumes>>
    BY DEF SummaryReply, WorkReply, schedVars, hostVars, boundVars, histVars
  <1>3. Decisions' = Decisions
    BY <1>2, SameBound
  <1>4. ContextOK(context') /\ NothingNew(context, context')
    BY <1>1, <1>2 DEF NothingNew
  <1>5. CASE SummaryReply
    <2>1. /\ round' \in Rounds /\ round'.pc = "answered" /\ round'.all = round.all
          /\ round'.cursor = round.cursor
      BY <1>1, <1>5, Turned DEF SummaryReply, Steps
    <2>2. text' \in {"good", "bad"} /\ reply' = reply
      BY <1>5 DEF SummaryReply
    <2>3. RoundTypeOK'
      BY <1>1, <1>2, <1>3, <2>1, <2>2 DEF RoundTypeOK, Rounds
    <2>4. RoundOK'
      BY <1>1, <1>2, <1>5, <2>1 DEF SummaryReply, RoundOK, At
    <2>5. WorkOK'
      BY <1>1, <1>2, <2>1 DEF WorkOK
    <2> QED BY <1>1, <1>2, <1>4, <2>3, <2>4, <2>5, NoInputMoved
  <1>6. CASE WorkReply
    <2>1. /\ round' \in Rounds /\ round'.pc = "act" /\ round'.all = round.all
          /\ round'.cursor = round.cursor
      BY <1>1, <1>6, Turned DEF WorkReply, Steps
    <2>2. reply' \in Decisions /\ text' = text
      BY <1>6 DEF WorkReply
    <2>3. reply' # NoReply
      <3>1. reply'.type \in DecisionTypes
        BY <1>1, <2>2, BoundTypes DEF Decisions
      <3> QED BY <3>1 DEF DecisionTypes, NoReply
    <2>4. RoundTypeOK'
      BY <1>1, <1>2, <1>3, <2>1, <2>2 DEF RoundTypeOK, Rounds
    <2>5. RoundOK'
      BY <1>1, <1>2, <1>6, <2>1, <2>3 DEF WorkReply, RoundOK, At
    <2>6. WorkOK'
      BY <1>1, <1>2, <1>6, <2>1 DEF WorkReply, WorkOK, At
    <2> QED BY <1>1, <1>2, <1>4, <2>4, <2>5, <2>6, NoInputMoved
  <1> QED BY <1>5, <1>6

\* acknowledgeRound: the agent that still has deliveries asks for a round.
LEMMA AcknowledgeKeeps ==
  ASSUME IInv, AcknowledgeRound
  PROVE  IInv' /\ Respects
  <1>1. RoundTypeOK /\ RoundOK /\ WorkOK /\ ContextOK(context) /\ acked \subseteq records
    BY DEF IInv
  <1>2. /\ UNCHANGED <<context, records, summarised, target, reply, text, acted, retries,
                       fault, batch, arrived, cont, inflight, status, held, aborted, taking, sends,
                       acked, faults, resumes>>
        /\ receipt' = intent(context) /\ dropped' = (dropped \/ acted)
    BY DEF AcknowledgeRound, schedVars, hostVars, boundVars
  <1>3. receipt' \in {"continue", "idle"} /\ dropped' \in BOOLEAN
    BY <1>1, <1>2 DEF intent, RoundTypeOK
  <1>4. /\ round' \in Rounds /\ round'.pc = "finish" /\ round'.all = round.all
        /\ round'.cursor = round.cursor
    BY <1>1, Turned DEF AcknowledgeRound, Steps
  <1>5. At("acknowledge") /\ summarised /\ receipt = "none" /\ round.all /\ batch # NoBatch
        /\ ToSet(batch) \subseteq records
    BY <1>1 DEF AcknowledgeRound, RoundOK, At
  <1>6. RoundTypeOK'
    <2>1. Decisions' = Decisions
      BY <1>2, SameBound
    <2> QED BY <1>1, <1>2, <1>3, <1>4, <2>1 DEF RoundTypeOK, Rounds
  <1>7. RoundOK'
    BY <1>1, <1>2, <1>3, <1>4, <1>5 DEF RoundOK, At
  <1>8. WorkOK'
    BY <1>1, <1>2, <1>3, <1>4, <1>5 DEF WorkOK
  <1>9. ContextOK(context') /\ NothingNew(context, context')
    BY <1>1, <1>2 DEF NothingNew
  <1> QED BY <1>1, <1>2, <1>6, <1>7, <1>8, <1>9, NoInputMoved

\* beforeSend: an attempt is counted in the summary.
LEMMA AttemptKeeps ==
  ASSUME IInv, BeginSummaryAttempt
  PROVE  IInv' /\ Respects
  <1>1. RoundTypeOK /\ RoundOK /\ WorkOK /\ ContextOK(context) /\ acked \subseteq records
    BY DEF IInv
  <1>2. /\ UNCHANGED <<records, receipt, summarised, target, reply, text, acted, retries, fault,
                       batch, arrived, cont, inflight, status, held, aborted, taking, acked,
                       dropped, faults, resumes>>
        /\ context' = attempted(context) /\ sends' = sends + 1
    BY DEF BeginSummaryAttempt, schedVars, hostVars, boundVars
  <1>3. pending(context) /\ context.pendingSummary.attempts < maxSummaryAttempts
    BY DEF BeginSummaryAttempt
  <1>4. Same(context, context')
    BY <1>1, <1>2, <1>3, ProgressKeeps
  <1>5. /\ ContextOK(context') /\ NothingNew(context, context') /\ context'.inbox = context.inbox
        /\ context'.budget = context.budget /\ (needsRun(context') <=> needsRun(context))
        /\ level(context') = level(context) /\ (pending(context') <=> pending(context))
    BY <1>4, SameIsNothingNew
  <1>6. round' \in Rounds /\ round'.pc = "asked" /\ round'.all = round.all
    BY <1>1 DEF BeginSummaryAttempt, RoundTypeOK, Rounds, Steps
  <1>7. RoundTypeOK'
    <2>1. /\ Decisions' = Decisions /\ context' \in Checkpoints /\ level(context') \in 1 .. 3
          /\ sends' \in Nat
      BY <1>1, <1>2, <1>5, SameBound, CheckpointTypes DEF RoundTypeOK
    <2> QED BY <1>1, <1>2, <1>6, <2>1 DEF RoundTypeOK, Rounds
  <1>8. RoundOK'
    BY <1>1, <1>2, <1>3, <1>5, <1>6 DEF BeginSummaryAttempt, RoundOK, At
  <1>9. WorkOK'
    BY <1>1, <1>2, <1>5, <1>6 DEF WorkOK
  <1> QED BY <1>1, <1>2, <1>5, <1>7, <1>8, <1>9, NoInputMoved

\* commitSummaryPhase: the summary and its receipt are stored together.
LEMMA CommitKeeps ==
  ASSUME IInv, CommitSummaryPhase
  PROVE  IInv' /\ Respects
  <1>1. RoundTypeOK /\ RoundOK /\ WorkOK /\ ContextOK(context) /\ acked \subseteq records
    BY DEF IInv
  <1>2. /\ UNCHANGED <<records, receipt, target, reply, acted, retries, fault,
                       batch, arrived, cont, inflight, status, held, aborted, taking, acked,
                       sends, dropped, faults, resumes>>
        /\ context' = integrateSummary(context) /\ summarised' = TRUE /\ text' = "none"
    BY DEF CommitSummaryPhase, schedVars, hostVars, boundVars, histVars
  <1>3. At("answered") /\ pending(context) /\ SummaryFits(context)
    BY <1>1 DEF CommitSummaryPhase, RoundOK, At
  <1>4. /\ ContextOK(context') /\ ~pending(context') /\ context'.inbox = context.inbox
        /\ context'.budget = context.budget /\ (context'.inbox # <<>> => context'.runnable)
        /\ NothingNew(context, context')
    BY <1>1, <1>2, <1>3, IntegrateKeeps DEF NothingNew
  <1>5. round' \in Rounds /\ round'.pc = "committed" /\ round'.all = round.all
    BY <1>1, Turned DEF CommitSummaryPhase, Steps
  <1>6. RoundTypeOK'
    <2>1. /\ Decisions' = Decisions /\ context' \in Checkpoints /\ level(context') \in 1 .. 3
      BY <1>4, SameBound, CheckpointTypes
    <2> QED BY <1>1, <1>2, <1>5, <2>1 DEF RoundTypeOK, Rounds
  <1>7. batch # NoBatch /\ receipt = "none"
    BY <1>1, <1>3 DEF RoundOK, At
  <1>8. RoundOK'
    BY <1>1, <1>2, <1>5, <1>7 DEF RoundOK, At
  <1>9. WorkOK'
    BY <1>2, <1>4, <1>5, <1>7 DEF WorkOK, needsRun
  <1> QED BY <1>1, <1>2, <1>4, <1>6, <1>8, <1>9, NoInputMoved

\* apply: the decision and the receipt of its batch are stored together.  A wait has
\* something to wait for, and a turn ends with an empty inbox or inputs that wait.
LEMMA ApplyStepKeeps ==
  ASSUME IInv, Apply
  PROVE  IInv' /\ Respects
  <1>1. RoundTypeOK /\ RoundOK /\ WorkOK /\ ContextOK(context) /\ acked \subseteq records
    BY DEF IInv
  <1>2. PICK a : a = applyDecision(context, reply)
    OBVIOUS
  <1>3. /\ UNCHANGED <<records, summarised, target, reply, acted, retries, fault,
                       batch, arrived, cont, inflight, status, held, aborted, taking, acked,
                       dropped, faults, resumes>>
        /\ context' = a /\ receipt' = intent(a) /\ text' = "none"
        /\ sends' \in {sends, 0}
    BY <1>2 DEF Apply, schedVars, hostVars, boundVars
  <1>4. At("apply") /\ WakePath /\ Applicable(context, round.cursor, reply)
    BY DEF Apply, Accepted
  <1>5. /\ batch # NoBatch /\ ToSet(batch) \subseteq records /\ round.all /\ ~pending(context)
        /\ reply # NoReply /\ receipt = "none"
    BY <1>1, <1>4 DEF RoundOK, At
  <1>6. reply \in Decisions /\ DecisionOK(reply)
    <2>1. reply \in Decisions
      BY <1>1, <1>5 DEF RoundTypeOK
    <2> QED BY <1>1, <2>1, BoundTypes DEF Decisions, DecisionOK
  <1>7. /\ ContextOK(a) /\ NothingNew(context, a) /\ a.inbox = context.inbox
        /\ a.budget = context.budget
        /\ reply.type \notin {"finish_turn", "wait"} => needsRun(a)
        /\ reply.type = "finish_turn" => level(context) = 1
    BY <1>1, <1>2, <1>4, <1>6, ApplyKeeps
  <1>8. round' \in Rounds /\ round'.pc = "finish" /\ round'.all = round.all
    BY <1>1, Turned DEF Apply, Steps
  <1>9. receipt' \in {"continue", "idle"}
    BY <1>3 DEF intent
  <1>10. RoundTypeOK'
    <2>1. /\ Decisions' = Decisions /\ context' \in Checkpoints /\ level(context') \in 1 .. 3
      BY <1>3, <1>7, SameBound, CheckpointTypes
    <2>2. sends' \in Nat
      BY <1>1, <1>3 DEF RoundTypeOK
    <2> QED BY <1>1, <1>3, <1>8, <1>9, <2>1, <2>2 DEF RoundTypeOK, Rounds
  <1>11. RoundOK'
    BY <1>1, <1>3, <1>5, <1>8, <1>9 DEF RoundOK, At
  <1>12. ASSUME context.inbox # <<>>, ~needsRun(a) PROVE arrived # <<>> \/ inflight # {}
    <2>1. reply.type \in {"finish_turn", "wait"}
      BY <1>7, <1>12
    <2>2. CASE reply.type = "wait"
      <3>1. inflight # {} \/ ToSet(arrived) \cap Ops # {}
        BY <1>4, <2>2 DEF WakePath
      <3>2. arrived = <<>> => ToSet(arrived) = {}
        BY DEF ToSet
      <3> QED BY <3>1, <3>2
    <2>3. CASE reply.type = "finish_turn"
      BY <1>1, <1>4, <1>5, <1>7, <1>12, <2>3 DEF WorkOK, At
    <2> QED BY <2>1, <2>2, <2>3
  <1>13. WorkOK'
    BY <1>3, <1>5, <1>7, <1>8, <1>9, <1>12 DEF WorkOK
  <1> QED BY <1>1, <1>3, <1>7, <1>10, <1>11, <1>13, NoInputMoved

\* Two queues with nothing in common, one after the other, repeat nothing.
LEMMA ConcatDistinct ==
  ASSUME NEW S, NEW p \in Seq(S), NEW q \in Seq(S), Distinct(p), Distinct(q),
         ToSet(p) \cap ToSet(q) = {}
  PROVE  /\ p \o q \in Seq(S) /\ Distinct(p \o q) /\ ToSet(p \o q) = ToSet(p) \cup ToSet(q)
  <1>1. PICK r : r = p \o q
    OBVIOUS
  <1>2. PICK l \in Nat, n \in Nat : l = Len(p) /\ n = Len(q)
    OBVIOUS
  <1>3. /\ r \in Seq(S) /\ DOMAIN r = 1 .. l + n /\ DOMAIN p = 1 .. l /\ DOMAIN q = 1 .. n
        /\ \A i \in 1 .. l + n : r[i] = IF i <= l THEN p[i] ELSE q[i - l]
    BY <1>1, <1>2
  <1>4. ASSUME NEW i \in 1 .. l + n
        PROVE  \/ i \in 1 .. l /\ r[i] = p[i] /\ r[i] \in ToSet(p)
               \/ i - l \in 1 .. n /\ r[i] = q[i - l] /\ r[i] \in ToSet(q) /\ i > l
    <2>1. CASE i <= l
      BY <1>2, <1>3, <2>1 DEF ToSet
    <2>2. CASE i > l
      <3>1. i - l \in 1 .. n /\ r[i] = q[i - l]
        BY <1>2, <1>3, <2>2
      <3> QED BY <1>3, <2>2, <3>1 DEF ToSet
    <2> QED BY <1>2, <2>1, <2>2
  <1>5. ASSUME NEW i \in 1 .. l + n, NEW j \in 1 .. l + n, r[i] = r[j] PROVE i = j
    <2>1. CASE r[i] \in ToSet(p)
      <3>1. i \in 1 .. l /\ j \in 1 .. l /\ p[i] = p[j]
        BY <1>4, <1>5, <2>1
      <3> QED BY <1>3, <3>1 DEF Distinct
    <2>2. CASE r[i] \notin ToSet(p)
      <3>1. i - l \in 1 .. n /\ j - l \in 1 .. n /\ q[i - l] = q[j - l]
        BY <1>4, <1>5, <2>2
      <3>2. i - l = j - l
        BY <1>3, <3>1 DEF Distinct
      <3> QED BY <1>2, <3>2
    <2> QED BY <2>1, <2>2
  <1>6. ASSUME NEW x \in ToSet(p) \cup ToSet(q) PROVE x \in ToSet(r)
    <2>1. CASE x \in ToSet(p)
      <3>1. PICK i \in 1 .. l : x = p[i]
        BY <1>3, <2>1 DEF ToSet
      <3>2. i \in 1 .. l + n /\ r[i] = p[i]
        BY <1>2, <1>3
      <3> QED BY <1>3, <3>1, <3>2 DEF ToSet
    <2>2. CASE x \in ToSet(q)
      <3>1. PICK i \in 1 .. n : x = q[i]
        BY <1>3, <2>2 DEF ToSet
      <3>2. PICK j : j = l + i
        OBVIOUS
      <3>3. j \in 1 .. l + n /\ ~(j <= l) /\ j - l = i
        BY <1>2, <3>2
      <3>4. r[j] = q[i]
        BY <1>3, <3>3
      <3> QED BY <1>3, <3>1, <3>3, <3>4 DEF ToSet
    <2> QED BY <1>6, <2>1, <2>2
  <1>7. ASSUME NEW x \in ToSet(r) PROVE x \in ToSet(p) \cup ToSet(q)
    BY <1>3, <1>4, <1>7 DEF ToSet
  <1> QED BY <1>1, <1>3, <1>5, <1>6, <1>7 DEF Distinct

\* A step of the scheduler leaves the context, its records and cursors alone.
LEMMA ContextStays ==
  ASSUME IInv, UNCHANGED <<context, records, target, taking>>
  PROVE  /\ ContextOK(context)' /\ InboxOK' /\ InputsConserved' /\ Respects
         /\ bound' = bound /\ Decisions' = Decisions
  <1>1. ContextOK(context)'
    BY DEF IInv
  <1>2. InboxOK'
    BY DEF IInv, InboxOK
  <1>3. InputsConserved'
    BY DEF IInv, InputsConserved, InInbox
  <1>4. Respects
    BY DEF Respects
  <1>5. bound' = bound /\ Decisions' = Decisions
    BY SameBound
  <1> QED BY <1>1, <1>2, <1>3, <1>4, <1>5

\* finishRun: what still needs a round is owed one.
LEMMA FinishKeeps ==
  ASSUME IInv, NEW i, Finish(i), receipt # "none",
         UNCHANGED <<context, records, target, text, arrived, inflight, hostVars, histVars, boundVars>>,
         needsRun(context) => i = "continue"
  PROVE  IInv' /\ Respects
  <1>1. RoundTypeOK /\ RoundOK /\ WorkOK /\ InputsOK /\ WakesOK /\ OpsKept /\ acked \subseteq records
    BY DEF IInv
  <1>2. /\ batch' = NoBatch /\ cont' = (i = "continue") /\ receipt' = "none" /\ summarised' = FALSE
        /\ reply' = NoReply /\ retries' = 0 /\ fault' = "none" /\ acted' = FALSE
        /\ round' = Idle /\ aborted' = FALSE
        /\ UNCHANGED <<context, records, target, text, arrived, inflight, status, held, taking, acked,
                       sends, dropped, faults, resumes>>
    BY DEF Finish, hostVars, histVars, boundVars
  <1>3. /\ ContextOK(context)' /\ InboxOK' /\ InputsConserved' /\ Respects
        /\ bound' = bound /\ Decisions' = Decisions
    BY <1>2, ContextStays
  <1>4. batch # NoBatch /\ ToSet(batch) \subseteq records
    BY <1>1 DEF RoundOK
  <1>5. RoundTypeOK'
    <2>1. Idle \in Rounds /\ cont' \in BOOLEAN
      BY <1>2 DEF Idle, Rounds, Steps, Cursors, NoCursor
    <2>2. {retries', sends', faults', resumes'} \subseteq Nat
      BY <1>1, <1>2 DEF RoundTypeOK
    <2>3. /\ context' \in Checkpoints /\ level(context') \in 1 .. 3
          /\ reply' \in Decisions' \cup {NoReply} /\ batch' \in Seq(Inputs) \cup {NoBatch}
      BY <1>1, <1>2, <1>3 DEF RoundTypeOK
    <2> QED BY <1>1, <1>2, <2>1, <2>2, <2>3 DEF RoundTypeOK, Rounds
  <1>6. InputsOK'
    BY <1>1, <1>2 DEF InputsOK
  <1>7. WakesOK'
    BY <1>1, <1>2, <1>3 DEF WakesOK
  <1>8. RoundOK'
    BY <1>2 DEF RoundOK, At, Idle
  <1>9. WorkOK'
    BY <1>1, <1>2 DEF WorkOK, Idle
  <1>10. OpsKept'
    BY <1>1, <1>2, <1>4 DEF OpsKept
  <1> QED BY <1>1, <1>2, <1>3, <1>5, <1>6, <1>7, <1>8, <1>9, <1>10 DEF IInv

\* The batch leaves when its receipt is stored.
LEMMA FinishesKeep ==
  ASSUME IInv, Replayed \/ FinishRun
  PROVE  IInv' /\ Respects
  <1>1. CASE Replayed
    BY <1>1, FinishKeeps DEF Replayed
  <1>2. CASE FinishRun
    <2>1. receipt # "none"
      BY <1>2 DEF FinishRun, IInv, RoundOK
    <2>2. needsRun(context) => intent(context) = "continue"
      BY DEF intent
    <2> QED BY <1>2, <2>1, <2>2, FinishKeeps DEF FinishRun
  <1> QED BY <1>1, <1>2

\* One more input waits for the next batch.
LEMMA Arrives ==
  ASSUME IInv, NEW k \in Inputs \ Feedbacks, arrived' = Append(arrived, k), k \notin ToSet(arrived),
         k \notin inflight', batch # NoBatch => k \notin ToSet(batch),
         inflight' \subseteq inflight, inflight \subseteq inflight' \cup {k},
         k \in Ops => target[k] # NoCursor,
         UNCHANGED <<batch, records, target>>
  PROVE  /\ InputsOK' /\ OpsKept' /\ arrived' \in Seq(Inputs) /\ arrived' # <<>>
         /\ ToSet(arrived') = ToSet(arrived) \cup {k}
  <1>1. arrived \in Seq(Inputs) /\ InputsOK /\ OpsKept
    BY DEF IInv, RoundTypeOK
  <1>2. /\ arrived' \in Seq(Inputs) /\ Distinct(arrived')
    BY <1>1, AppendDistinct DEF InputsOK
  <1>3. PICK l \in Nat : l = Len(arrived)
    BY <1>1
  <1>4. /\ DOMAIN arrived' = 1 .. l + 1 /\ DOMAIN arrived = 1 .. l /\ arrived'[l + 1] = k
        /\ \A i \in 1 .. l : arrived'[i] = arrived[i]
    BY <1>1, <1>3
  <1>5. ToSet(arrived') = ToSet(arrived) \cup {k}
    <2>1. ASSUME NEW x \in ToSet(arrived') PROVE x \in ToSet(arrived) \cup {k}
      <3>1. \A i \in 1 .. l + 1 : i \in 1 .. l \/ i = l + 1
        OBVIOUS
      <3> QED BY <1>4, <2>1, <3>1 DEF ToSet
    <2>2. ASSUME NEW x \in ToSet(arrived) PROVE x \in ToSet(arrived')
      <3>1. \A i \in 1 .. l : i \in 1 .. l + 1
        OBVIOUS
      <3> QED BY <1>4, <2>2, <3>1 DEF ToSet
    <2>3. k \in ToSet(arrived')
      <3>1. l + 1 \in 1 .. l + 1
        OBVIOUS
      <3> QED BY <1>4, <3>1 DEF ToSet
    <2> QED BY <2>1, <2>2, <2>3
  <1>6. arrived' # <<>>
    <2>1. 1 \in DOMAIN arrived'
      BY <1>4
    <2> QED BY <2>1
  <1>7. InputsOK'
    BY <1>1, <1>2, <1>5 DEF InputsOK
  <1>8. OpsKept'
    BY <1>1, <1>5 DEF OpsKept
  <1> QED BY <1>2, <1>5, <1>6, <1>7, <1>8

\* A message that is announced is not with the scheduler yet.
LEMMA NotifyKeeps ==
  ASSUME IInv, NEW k \in bound.messages, Notify(k)
  PROVE  IInv' /\ Respects
  <1>1. RoundTypeOK /\ RoundOK /\ WorkOK /\ InputsOK /\ WakesOK /\ ContextOK(context)
        /\ acked \subseteq records
    BY DEF IInv
  <1>2. /\ arrived' = Append(arrived, k) /\ k \notin acked \cup ToSet(arrived) \cup ToSet(batch)
        /\ UNCHANGED <<context, records, receipt, summarised, target, reply, text, acted, retries,
                       fault, batch, cont, inflight, status, held, round, aborted, taking, acked,
                       sends, dropped, faults, resumes>>
    BY DEF Notify, Announced, diskVars, hostVars, roundVars, histVars, boundVars
  <1>3. /\ ContextOK(context)' /\ InboxOK' /\ InputsConserved' /\ Respects
        /\ bound' = bound /\ Decisions' = Decisions
    BY <1>2, ContextStays
  <1>4. k \in Inputs /\ k \notin Ops \cup Feedbacks /\ \A f \in bound.feedbacks : wake[f] # k
    BY <1>1, BoundTypes
  <1>5. inflight \subseteq Ops
    BY <1>1 DEF RoundTypeOK
  <1>6. /\ InputsOK' /\ OpsKept' /\ arrived' \in Seq(Inputs) /\ arrived' # <<>>
        /\ ToSet(arrived') = ToSet(arrived) \cup {k}
    BY <1>2, <1>4, <1>5, Arrives
  <1>7. RoundTypeOK'
    <2>1. RoundTypeOK
      BY <1>1
    <2> QED BY <1>2, <1>3, <1>6, <2>1 DEF RoundTypeOK
  <1>8. WakesOK'
    BY <1>1, <1>2, <1>3, <1>4, <1>6 DEF WakesOK
  <1>9. RoundOK'
    BY <1>1, <1>2 DEF RoundOK, At
  <1>10. WorkOK'
    BY <1>1, <1>2, <1>6 DEF WorkOK
  <1> QED BY <1>1, <1>2, <1>3, <1>6, <1>7, <1>8, <1>9, <1>10 DEF IInv

\* An operation that ends leaves its place in flight to its result.
LEMMA CompleteKeeps ==
  ASSUME IInv, NEW o \in Ops, CompleteOperation(o)
  PROVE  IInv' /\ Respects
  <1>1. RoundTypeOK /\ RoundOK /\ WorkOK /\ InputsOK /\ WakesOK /\ ContextOK(context)
        /\ acked \subseteq records
    BY DEF IInv
  <1>2. /\ arrived' = Append(arrived, o) /\ o \in inflight /\ inflight' = inflight \ {o}
        /\ UNCHANGED <<context, records, receipt, summarised, target, reply, text, acted, retries,
                       fault, batch, cont, status, held, round, aborted, taking, acked,
                       sends, dropped, faults, resumes>>
    BY DEF CompleteOperation, diskVars, hostVars, roundVars, histVars, boundVars
  <1>3. /\ ContextOK(context)' /\ InboxOK' /\ InputsConserved' /\ Respects
        /\ bound' = bound /\ Decisions' = Decisions
    BY <1>2, ContextStays
  <1>4. o \in Inputs \ Feedbacks /\ \A f \in bound.feedbacks : wake[f] # o
    BY <1>1, BoundTypes, RoundAssumption
  <1>5. /\ o \notin ToSet(arrived) /\ (batch # NoBatch => o \notin ToSet(batch))
        /\ target[o] # NoCursor
    BY <1>1, <1>2 DEF InputsOK
  <1>6. /\ InputsOK' /\ OpsKept' /\ arrived' \in Seq(Inputs) /\ arrived' # <<>>
        /\ ToSet(arrived') = ToSet(arrived) \cup {o}
    <2>1. o \notin inflight' /\ inflight' \subseteq inflight /\ inflight \subseteq inflight' \cup {o}
      BY <1>2
    <2> QED BY <1>2, <1>4, <1>5, <2>1, Arrives
  <1>7. RoundTypeOK'
    <2>1. inflight' \subseteq Ops
      BY <1>1, <1>2 DEF RoundTypeOK
    <2> QED BY <1>1, <1>2, <1>3, <1>6, <2>1 DEF RoundTypeOK
  <1>8. WakesOK'
    BY <1>1, <1>2, <1>3, <1>4, <1>6 DEF WakesOK
  <1>9. RoundOK'
    BY <1>1, <1>2 DEF RoundOK, At
  <1>10. WorkOK'
    BY <1>1, <1>2, <1>6 DEF WorkOK
  <1> QED BY <1>1, <1>2, <1>3, <1>6, <1>7, <1>8, <1>9, <1>10 DEF IInv

\* #seal: the batch holds what had arrived.
LEMMA SealedBatch ==
  ASSUME NEW q \in Seq(Inputs), Distinct(q), NEW b, b = Among(q, Inputs \ Ops) \o Among(q, Ops)
  PROVE  b \in Seq(Inputs) /\ Distinct(b) /\ ToSet(b) = ToSet(q) /\ b # NoBatch
  <1>1. PICK p : p = Among(q, Inputs \ Ops)
    OBVIOUS
  <1>2. PICK r : r = Among(q, Ops)
    OBVIOUS
  <1>3. p \in Seq(Inputs) /\ Distinct(p) /\ ToSet(p) = ToSet(q) \cap (Inputs \ Ops)
    BY <1>1, Filter, FilterDistinct
  <1>4. r \in Seq(Inputs) /\ Distinct(r) /\ ToSet(r) = ToSet(q) \cap Ops
    BY <1>2, Filter, FilterDistinct
  <1>5. b = p \o r
    BY <1>1, <1>2
  <1>6. b \in Seq(Inputs) /\ Distinct(b) /\ ToSet(b) = ToSet(p) \cup ToSet(r)
    <2>1. ToSet(p) \cap ToSet(r) = {}
      BY <1>3, <1>4
    <2>2. /\ p \o r \in Seq(Inputs) /\ Distinct(p \o r)
          /\ ToSet(p \o r) = ToSet(p) \cup ToSet(r)
      <3>1. p \in Seq(Inputs) /\ r \in Seq(Inputs) /\ Distinct(p) /\ Distinct(r)
        BY <1>3, <1>4
      <3> QED BY <2>1, <3>1, ConcatDistinct, ZenonT(40)
    <2> QED BY <1>5, <2>2
  <1>7. ToSet(q) \subseteq Inputs
    BY DEF ToSet
  <1>8. ToSet(b) = ToSet(q)
    BY <1>3, <1>4, <1>6, <1>7
  <1> QED BY <1>6, <1>8, RoundAssumption

\* takeNextRun: the inputs that arrived are the new batch, or the old one is taken again.
LEMMA TakeKeeps ==
  ASSUME IInv, TakeNextRun
  PROVE  IInv' /\ Respects
  <1>1. RoundTypeOK /\ RoundOK /\ WorkOK /\ InputsOK /\ WakesOK /\ OpsKept /\ ContextOK(context)
        /\ acked \subseteq records
    BY DEF IInv
  <1>2. /\ UNCHANGED <<context, records, receipt, summarised, target, reply, text, acted, retries,
                       fault, inflight, status, held, taking, acked,
                       sends, dropped, faults, resumes>>
        /\ aborted' = FALSE
    BY DEF TakeNextRun, diskVars, hostVars, histVars, boundVars
  <1>3. /\ ContextOK(context)' /\ InboxOK' /\ InputsConserved' /\ Respects
        /\ bound' = bound /\ Decisions' = Decisions
    BY <1>2, ContextStays
  <1>4. round' \in Rounds /\ round'.pc = "taken" /\ round'.all = FALSE
    BY DEF TakeNextRun, Idle, Rounds, Steps, Cursors, NoCursor
  <1>5. batch' # NoBatch /\ batch' \in Seq(Inputs) /\ Distinct(batch') /\ arrived' \in Seq(Inputs)
        /\ cont' \in BOOLEAN
        /\ \/ batch # NoBatch /\ batch' = batch /\ arrived' = arrived
           \/ batch = NoBatch /\ arrived' = <<>> /\ ToSet(batch') = ToSet(arrived)
    <2>1. CASE batch # NoBatch
      BY <1>1, <2>1 DEF TakeNextRun, RoundTypeOK, InputsOK
    <2>2. CASE batch = NoBatch
      <3>1. /\ batch' = Among(arrived, Inputs \ Ops) \o Among(arrived, Ops)
            /\ arrived' = <<>> /\ cont' = FALSE
        BY <2>2 DEF TakeNextRun
      <3>2. arrived \in Seq(Inputs) /\ Distinct(arrived)
        BY <1>1 DEF RoundTypeOK, InputsOK
      <3>3. batch' \in Seq(Inputs) /\ Distinct(batch') /\ ToSet(batch') = ToSet(arrived)
            /\ batch' # NoBatch
        BY <3>1, <3>2, SealedBatch
      <3>4. arrived' \in Seq(Inputs) /\ cont' \in BOOLEAN
        <4>1. <<>> \in Seq(Inputs) /\ FALSE \in BOOLEAN
          OBVIOUS
        <4> QED BY <3>1, <4>1, Zenon
      <3> QED BY <2>2, <3>1, <3>3, <3>4
    <2> QED BY <2>1, <2>2
  <1>6. RoundTypeOK'
    <2>1. {retries', sends', faults', resumes'} \subseteq Nat
      BY <1>1, <1>2 DEF RoundTypeOK
    <2> QED BY <1>1, <1>2, <1>3, <1>4, <1>5, <2>1, ZenonT(40) DEF RoundTypeOK, Rounds
  <1>7. ToSet(<<>>) = {} /\ Distinct(<<>>)
    BY DEF ToSet, Distinct
  <1>8. InputsOK' /\ OpsKept' /\ WakesOK'
    <2>1. CASE batch # NoBatch /\ batch' = batch /\ arrived' = arrived
      BY <1>1, <1>2, <1>3, <2>1 DEF InputsOK, OpsKept, WakesOK
    <2>2. CASE batch = NoBatch /\ arrived' = <<>> /\ ToSet(batch') = ToSet(arrived)
      <3>1. InputsOK'
        BY <1>1, <1>2, <1>5, <1>7, <2>2 DEF InputsOK
      <3>2. OpsKept'
        BY <1>1, <1>2, <1>5, <2>2 DEF OpsKept
      <3>3. WakesOK'
        BY <1>1, <1>2, <1>3, <1>5, <1>7, <2>2 DEF WakesOK
      <3> QED BY <3>1, <3>2, <3>3
    <2> QED BY <1>5, <2>1, <2>2
  <1>9. batch = NoBatch => receipt = "none" /\ ~summarised
    BY <1>1 DEF RoundOK
  <1>10. RoundOK'
    BY <1>1, <1>2, <1>4, <1>5, <1>9 DEF RoundOK, At
  <1>11. WorkOK'
    BY <1>1, <1>2, <1>4, <1>5, <1>9 DEF WorkOK
  <1> QED BY <1>1, <1>2, <1>3, <1>6, <1>8, <1>10, <1>11 DEF IInv

\* Where a key is in a sequence of deliveries, and whether it is there.
Places(s, k) == {i \in DOMAIN s : s[i].key = k}
Holds(s, k)  == \E i \in DOMAIN s : s[i].key = k

\* How often a key is among deliveries that are there once.
LEMMA CountOnce ==
  ASSUME NEW s \in Seq(Deliveries), \A a, b \in DOMAIN s : s[a].key = s[b].key => a = b, NEW k
  PROVE  Cardinality(Places(s, k)) = IF Holds(s, k) THEN 1 ELSE 0
  <1>1. CASE Holds(s, k)
    <2>1. PICK i \in DOMAIN s : s[i].key = k
      BY <1>1 DEF Holds
    <2>2. Places(s, k) = {i}
      BY <2>1 DEF Places
    <2> QED BY <1>1, <2>2, FS_Singleton
  <1>2. CASE ~Holds(s, k)
    <2>1. Places(s, k) = {}
      BY <1>2 DEF Places, Holds
    <2> QED BY <1>2, <2>1, FS_EmptySet
  <1> QED BY <1>1, <1>2

\* What prepare takes was in the inbox, and what it leaves still is.
LEMMA TakenOrLeft ==
  ASSUME NEW q \in Seq(Deliveries), KeysOK(q), NEW r \in Seq(Deliveries),
         NEW s \in Seq(Deliveries), TakenOK(q, Len(q), s), ToSet(r) = ToSet(q) \ ToSet(s), NEW k
  PROVE  IF Holds(s, k) THEN Holds(q, k) /\ ~Holds(r, k) ELSE Holds(r, k) <=> Holds(q, k)
  <1>1. \A x \in ToSet(s) : x \in ToSet(q)
    <2>1. ASSUME NEW i \in DOMAIN s PROVE s[i] \in ToSet(q)
      <3>1. PICK j \in 1 .. Len(q) : s[i] = q[j]
        BY DEF TakenOK
      <3> QED BY <3>1 DEF ToSet
    <2> QED BY <2>1 DEF ToSet
  <1>2. \A x, y \in ToSet(q) : x.key = y.key => x = y
    BY DEF KeysOK, ToSet
  <1>3. Holds(s, k) <=> (\E x \in ToSet(s) : x.key = k)
    BY DEF ToSet, Holds
  <1>4. Holds(q, k) <=> (\E x \in ToSet(q) : x.key = k)
    BY DEF ToSet, Holds
  <1>5. Holds(r, k) <=> (\E x \in ToSet(r) : x.key = k)
    BY DEF ToSet, Holds
  <1>6. CASE \E x \in ToSet(s) : x.key = k
    <2>1. PICK x \in ToSet(s) : x.key = k
      BY <1>6
    <2>2. x \in ToSet(q)
      BY <1>1, <2>1
    <2>3. ASSUME NEW y \in ToSet(r), y.key = k PROVE FALSE
      BY <1>2, <2>1, <2>2, <2>3
    <2> QED BY <1>3, <1>4, <1>5, <2>1, <2>2, <2>3
  <1>7. CASE ~ \E x \in ToSet(s) : x.key = k
    <2>1. (\E x \in ToSet(r) : x.key = k) <=> (\E x \in ToSet(q) : x.key = k)
      BY <1>7
    <2> QED BY <1>3, <1>4, <1>5, <1>7, <2>1
  <1> QED BY <1>6, <1>7

\* prepare moves inputs from the inbox to the frame they are meant for.
LEMMA PreparedKeeps ==
  ASSUME IInv, NEW m, m = prepare(context), ~m.refused, context' = m.draft,
         taking' = [k \in Inputs |-> taking[k] + Cardinality(Places(m.taken, k))],
         sends' \in {0, sends}, text' \in {"none", text},
         UNCHANGED <<records, receipt, summarised, target, reply, acted, retries, fault,
                     schedVars, hostVars, aborted, acked, dropped, boundVars>>,
         round' \in Rounds, round'.all = round.all, round'.pc \in {"receive", "prepared"},
         round.pc \in {"resolve", "received"}
  PROVE  IInv' /\ Respects
  <1>1. RoundTypeOK /\ RoundOK /\ WorkOK /\ InputsOK /\ WakesOK /\ OpsKept /\ ContextOK(context)
        /\ InboxOK /\ InputsConserved /\ acked \subseteq records
    BY DEF IInv
  <1>2. UNCHANGED <<records, receipt, summarised, target, reply, acted, retries, fault, batch, arrived,
                    cont, inflight, status, held, aborted, acked, dropped, faults, resumes>>
    BY DEF schedVars, hostVars, boundVars
  <1>3. /\ ContextOK(context') /\ SameChain(context, context')
        /\ FromInbox(context, Len(context.inbox), context')
        /\ m.taken \in Seq(Deliveries) /\ TakenOK(context.inbox, Len(context.inbox), m.taken)
        /\ ToSet(context'.inbox) = ToSet(context.inbox) \ ToSet(m.taken)
        /\ needsRun(context) => needsRun(context')
        /\ pending(context) => context' = context
        /\ level(context) = 1 /\ ~pending(context') => context'.inbox = <<>>
    BY <1>1, PrepareKeeps
  <1>4. /\ context.inbox \in Seq(Deliveries) /\ KeysOK(context.inbox)
        /\ context'.inbox \in Seq(Deliveries)
        /\ context'.budget = context.budget /\ level(context') = level(context)
        /\ context' \in Checkpoints /\ level(context') \in 1 .. 3
    <2>1. /\ context.inbox \in Seq(Deliveries) /\ KeysOK(context.inbox)
          /\ level(context) = Len(context.frames)
      BY <1>1, CheckpointTypes
    <2>2. /\ context'.inbox \in Seq(Deliveries) /\ context' \in Checkpoints
          /\ level(context') \in 1 .. 3 /\ level(context') = Len(context'.frames)
      BY <1>3, CheckpointTypes
    <2> QED BY <1>3, <2>1, <2>2 DEF SameChain
  <1>5. bound' = bound /\ Decisions' = Decisions
    BY <1>4, SameBound
  <1>6. ASSUME NEW k \in Inputs
        PROVE  taking'[k] = taking[k] + IF Holds(m.taken, k) THEN 1 ELSE 0
    <2>1. taking'[k] = taking[k] + Cardinality(Places(m.taken, k))
      OBVIOUS
    <2>2. Cardinality(Places(m.taken, k))
          = IF Holds(m.taken, k) THEN 1 ELSE 0
      <3>1. PICK s : s = m.taken
        OBVIOUS
      <3>2. s \in Seq(Deliveries) /\ \A a, b \in DOMAIN s : s[a].key = s[b].key => a = b
        BY <1>3, <3>1 DEF TakenOK
      <3> QED BY <3>1, <3>2, CountOnce
    <2> QED BY <2>1, <2>2
  <1>7. taking \in [Inputs -> Nat] /\ taking' \in [Inputs -> Nat]
    <2>1. taking \in [Inputs -> Nat]
      BY <1>1 DEF RoundTypeOK
    <2>2. \A k \in Inputs : taking'[k] \in Nat
      BY <1>6, <2>1
    <2>3. PICK f : f = [k \in Inputs |->
                         taking[k] + Cardinality(Places(m.taken, k))]
      OBVIOUS
    <2>4. DOMAIN f = Inputs /\ f = [k \in DOMAIN f |-> f[k]] /\ taking' = f
      BY <2>3
    <2> QED BY <2>1, <2>2, <2>4
  <1>8. RoundTypeOK'
    <2>1. sends' \in Nat /\ text' \in {"none", "good", "bad"}
      BY <1>1 DEF RoundTypeOK
    <2>2. {retries', sends', faults', resumes'} \subseteq Nat
      BY <1>1, <1>2, <2>1 DEF RoundTypeOK
    <2> QED BY <1>1, <1>2, <1>4, <1>5, <1>7, <2>1, <2>2 DEF RoundTypeOK, Rounds
  <1>9. InputsOK' /\ OpsKept' /\ WakesOK'
    <2>1. InputsOK'
      BY <1>1, <1>2 DEF InputsOK
    <2>2. OpsKept'
      BY <1>1, <1>2 DEF OpsKept
    <2>3. WakesOK'
      BY <1>1, <1>2, <1>5 DEF WakesOK
    <2> QED BY <2>1, <2>2, <2>3
  <1>10. InboxOK'
    <2>1. ASSUME NEW i \in DOMAIN context'.inbox
          PROVE  \E j \in DOMAIN context.inbox : context'.inbox[i] = context.inbox[j]
      <3>1. context'.inbox[i] \in ToSet(context.inbox)
        <4>1. context'.inbox[i] \in ToSet(context'.inbox)
          BY DEF ToSet
        <4> QED BY <1>3, <4>1
      <3> QED BY <3>1 DEF ToSet
    <2> QED BY <1>1, <1>2, <2>1 DEF InboxOK
  <1>11. InputsConserved'
    <2>1. ASSUME NEW k \in Inputs
          PROVE  taking'[k] + (IF Holds(context'.inbox, k) THEN 1 ELSE 0)
                 = (IF k \in records THEN 1 ELSE 0)
      <3>1. taking[k] + (IF Holds(context.inbox, k) THEN 1 ELSE 0)
            = (IF k \in records THEN 1 ELSE 0)
        BY <1>1 DEF InputsConserved, InInbox, Holds
      <3>2. taking[k] \in Nat
        BY <1>7
      <3>3. IF Holds(m.taken, k)
              THEN /\ Holds(context.inbox, k)
                   /\ ~Holds(context'.inbox, k)
              ELSE Holds(context'.inbox, k)
                   <=> Holds(context.inbox, k)
        <4>1. PICK q, r, s : q = context.inbox /\ r = context'.inbox /\ s = m.taken
          OBVIOUS
        <4>2. /\ q \in Seq(Deliveries) /\ KeysOK(q) /\ r \in Seq(Deliveries) /\ s \in Seq(Deliveries)
              /\ TakenOK(q, Len(q), s) /\ ToSet(r) = ToSet(q) \ ToSet(s)
          BY <1>3, <1>4, <4>1
        <4>3. IF Holds(s, k) THEN Holds(q, k) /\ ~Holds(r, k) ELSE Holds(r, k) <=> Holds(q, k)
          BY <4>2, TakenOrLeft
        <4> QED BY <4>1, <4>3
      <3>4. taking'[k] = taking[k] + IF Holds(m.taken, k) THEN 1 ELSE 0
        BY <1>6
      <3>5. CASE Holds(m.taken, k)
        BY <3>1, <3>2, <3>3, <3>4, <3>5
      <3>6. CASE ~Holds(m.taken, k)
        BY <3>1, <3>2, <3>3, <3>4, <3>6
      <3> QED BY <3>5, <3>6
    <2> QED BY <1>2, <2>1 DEF InputsConserved, InInbox, Holds
  <1>12. Respects
    <2>1. ASSUME NEW k \in Inputs, NEW i \in DOMAIN context'.frames, k \in context'.frames[i].inputs,
                 \A j \in DOMAIN context.frames : k \notin context.frames[j].inputs,
                 target[k] # NoCursor
          PROVE  target[k] = [frame |-> context.frames[i].id, revision |-> context.frames[i].revision]
      <3>1. /\ i \in DOMAIN context.frames /\ Len(context'.frames) = Len(context.frames)
        <4>1. context.frames \in Seq(Frames) /\ context'.frames \in Seq(Frames)
          BY <1>1, <1>3, CheckpointTypes
        <4>2. Len(context'.frames) = Len(context.frames)
          BY <1>3 DEF SameChain
        <4> QED BY <4>1, <4>2
      <3>2. i = Len(context.frames)
        BY <1>3, <2>1, <3>1 DEF SameChain
      <3>3. active(context) = context.frames[i] /\ active(context') = context'.frames[i]
        BY <3>1, <3>2 DEF active, level
      <3>4. PICK j \in 1 .. Len(context.inbox) :
               /\ context.inbox[j].key = k
               /\ context.inbox[j].target = NoCursor \/ isTarget(active(context), context.inbox[j])
        BY <1>3, <2>1, <3>1, <3>3 DEF FromInbox
      <3>5. context.inbox[j].target = target[k]
        <4>1. j \in DOMAIN context.inbox
          BY <1>4
        <4> QED BY <1>1, <3>4, <4>1 DEF InboxOK
      <3>6. /\ target[k].frame = context.frames[i].id
            /\ target[k].revision = context.frames[i].revision
        BY <2>1, <3>3, <3>4, <3>5 DEF isTarget
      <3>7. target[k] \in Cursors
        BY <1>1 DEF RoundTypeOK
      <3> QED BY <3>6, <3>7 DEF Cursors
    <2> QED BY <2>1 DEF Respects
  <1>13. batch # NoBatch /\ receipt = "none"
    BY <1>1 DEF RoundOK, At
  <1>14. RoundOK'
    BY <1>1, <1>2, <1>13 DEF RoundOK, At
  <1>15. context'.inbox # <<>> => context.inbox # <<>>
    <2>1. ASSUME context.inbox = <<>> PROVE context'.inbox = <<>>
      <3>1. ToSet(context'.inbox) = {}
        <4>1. ToSet(context.inbox) = {}
          BY <2>1 DEF ToSet
        <4> QED BY <1>3, <4>1
      <3>2. DOMAIN context'.inbox = {}
        BY <3>1 DEF ToSet
      <3>3. Len(context'.inbox) = 0
        <4>1. PICK n \in Nat : n = Len(context'.inbox) /\ DOMAIN context'.inbox = 1 .. n
          BY <1>4
        <4>2. 1 .. n = {}
          BY <3>2, <4>1
        <4>3. n = 0
          <5>1. n \in Nat
            BY <4>1
          <5> QED BY <4>2, <5>1
        <4> QED BY <4>1, <4>3
      <3> QED BY <1>4, <3>3
    <2> QED BY <2>1
  <1>16. WorkOK'
    BY <1>1, <1>2, <1>3, <1>4, <1>13, <1>15 DEF WorkOK
  <1>17. ContextOK(context)'
    BY <1>3
  <1> QED BY <1>1, <1>2, <1>8, <1>9, <1>10, <1>11, <1>12, <1>14, <1>16, <1>17 DEF IInv

\* Both times the round prepares its context.
LEMMA PreparesKeep ==
  ASSUME IInv, PrepareFirst \/ PrepareAgain
  PROVE  IInv' /\ Respects
  <1>1. RoundTypeOK /\ ContextOK(context)
    BY DEF IInv
  <1>2. ASSUME NEW pc \in {"resolve", "received"}, NEW next \in {"receive", "prepared"},
               Prepare(pc, next)
        PROVE  IInv' /\ Respects
    <2>1. PICK m : m = prepare(context)
      OBVIOUS
    <2>2. /\ round.pc = pc
          /\ IF m.refused THEN Fail("budget", context)
             ELSE /\ context' = m.draft
                  /\ taking' = [k \in Inputs |-> taking[k] +
                       Cardinality({i \in DOMAIN m.taken : m.taken[i].key = k})]
                  /\ sends' = IF pending(m.draft) /\ ~pending(context) THEN 0 ELSE sends
                  /\ text' = IF pending(m.draft) /\ ~pending(context) THEN "none" ELSE text
                  /\ To(next)
                  /\ UNCHANGED <<records, receipt, summarised, target, reply, acted, retries, fault,
                                 schedVars, hostVars, aborted, acked, dropped, boundVars>>
      BY <1>2, <2>1 DEF Prepare, At
    <2>3. CASE m.refused
      BY <1>1, <2>2, <2>3, Stays, FailKeeps
    <2>4. CASE ~m.refused
      <3>1. round' \in Rounds /\ round'.pc = next /\ round'.all = round.all
        <4>1. next \in Steps
          BY <1>2 DEF Steps
        <4> QED BY <1>1, <2>2, <2>4, <4>1, Turned
      <3>2. taking' = [k \in Inputs |-> taking[k] + Cardinality(Places(m.taken, k))]
        BY <2>2, <2>4 DEF Places
      <3>3. sends' \in {0, sends} /\ text' \in {"none", text}
        BY <2>2, <2>4
      <3> QED BY <1>2, <2>1, <2>2, <2>4, <3>1, <3>2, <3>3, PreparedKeeps
    <2> QED BY <2>3, <2>4
  <1> QED BY <1>2 DEF PrepareFirst, PrepareAgain

\* An operation that is staged is registered with the cursor of the round.
LEMMA ActKeeps ==
  ASSUME IInv, Act
  PROVE  IInv' /\ Respects
  <1>1. /\ RoundTypeOK /\ RoundOK /\ WorkOK /\ InputsOK /\ WakesOK /\ OpsKept /\ ContextOK(context)
        /\ InboxOK /\ InputsConserved /\ acked \subseteq records
    BY DEF IInv
  <1>2. UNCHANGED <<context, records, receipt, summarised, reply, text, retries, fault, batch,
                    arrived, cont, status, held, aborted, taking, acked, sends, dropped,
                    faults, resumes>>
    BY DEF Act, hostVars, histVars, boundVars
  <1>3. /\ round' \in Rounds /\ round'.pc = "apply" /\ round'.all = round.all
        /\ round'.cursor = round.cursor
    BY <1>1, Turned DEF Act, Steps
  <1>4. bound' = bound /\ Decisions' = Decisions
    BY <1>2, SameBound
  <1>5. round.cursor \in Cursors /\ round.cursor # NoCursor /\ round.pc = "act"
    BY <1>1 DEF Act, At, RoundOK, RoundTypeOK
  <1>6. target \in [Inputs -> Cursors] /\ Ops \subseteq Inputs /\ inflight \subseteq Ops
    BY <1>1, BoundTypes DEF RoundTypeOK
  <1>7. \/ target' = target /\ inflight' = inflight
        \/ \E o \in Ops : /\ target[o] = NoCursor /\ inflight' = inflight \cup {o}
                          /\ target' = [target EXCEPT ![o] = round.cursor]
    BY DEF Act
  <1>8. /\ target' \in [Inputs -> Cursors] /\ inflight' \subseteq Ops
        /\ inflight \subseteq inflight'
        /\ \A o \in inflight' : o \in inflight \/ target[o] = NoCursor
        /\ \A k \in Inputs : \/ target'[k] = target[k]
                             \/ /\ k \in Ops /\ k \in inflight' /\ target[k] = NoCursor
                                /\ target'[k] # NoCursor
        /\ \A o \in inflight' : o \in inflight \/ target'[o] # NoCursor
    <2>1. CASE target' = target /\ inflight' = inflight
      BY <1>6, <2>1
    <2>2. ASSUME NEW o \in Ops, target[o] = NoCursor, inflight' = inflight \cup {o},
                 target' = [target EXCEPT ![o] = round.cursor]
          PROVE  /\ target' \in [Inputs -> Cursors] /\ inflight' \subseteq Ops
                 /\ inflight \subseteq inflight'
                 /\ \A p \in inflight' : p \in inflight \/ target[p] = NoCursor
                 /\ \A k \in Inputs : \/ target'[k] = target[k]
                                      \/ /\ k \in Ops /\ k \in inflight' /\ target[k] = NoCursor
                                         /\ target'[k] # NoCursor
                 /\ \A p \in inflight' : p \in inflight \/ target'[p] # NoCursor
      BY <1>5, <1>6, <2>2
    <2> QED BY <1>7, <2>1, <2>2
  <1>9. \A o \in Ops : target[o] = NoCursor =>
          /\ o \notin inflight /\ o \notin ToSet(arrived) /\ o \notin records
          /\ batch # NoBatch => o \notin ToSet(batch)
    BY <1>1 DEF InputsOK
  <1>10. acted' \in BOOLEAN
    BY <1>1 DEF Act, RoundTypeOK
  <1>11. RoundTypeOK'
    <2>1. {retries', sends', faults', resumes'} \subseteq Nat
      BY <1>1, <1>2 DEF RoundTypeOK
    <2> QED BY <1>1, <1>2, <1>3, <1>4, <1>8, <1>10, <2>1 DEF RoundTypeOK, Rounds
  <1>12. ContextOK(context)' /\ InputsConserved' /\ WakesOK'
    BY <1>1, <1>2, <1>4 DEF InputsConserved, InInbox, WakesOK
  <1>13. Ops \cap Feedbacks = {}
    BY RoundAssumption
  <1>14. InputsOK'
    <2>1. \A k \in ToSet(arrived) : k \notin inflight'
      BY <1>1, <1>8, <1>9 DEF InputsOK
    <2>2. batch # NoBatch => ToSet(batch) \cap (inflight' \cup Feedbacks) = {}
      BY <1>1, <1>8, <1>9 DEF InputsOK
    <2>3. \A o \in Ops :
            \/ o \in inflight' \cup ToSet(arrived) \cup records
            \/ batch # NoBatch /\ o \in ToSet(batch)
            => target'[o] # NoCursor
      BY <1>1, <1>6, <1>8 DEF InputsOK
    <2>4. \A f \in Feedbacks : f \in records => target'[f] # NoCursor
      BY <1>1, <1>8, <1>13, BoundTypes DEF InputsOK
    <2> QED BY <1>1, <1>2, <2>1, <2>2, <2>3, <2>4 DEF InputsOK
  <1>15. OpsKept'
    BY <1>1, <1>2, <1>6, <1>8 DEF OpsKept
  <1>16. InboxOK'
    <2>1. ASSUME NEW i \in DOMAIN context.inbox
          PROVE  target'[context.inbox[i].key] = target[context.inbox[i].key]
      <3>1. PICK k : k = context.inbox[i].key
        OBVIOUS
      <3>2. k \in records /\ k \in Inputs
        BY <1>1, <3>1 DEF InboxOK, RoundTypeOK
      <3> QED BY <1>8, <1>9, <3>1, <3>2
    <2> QED BY <1>1, <1>2, <2>1 DEF InboxOK
  <1>17. RoundOK'
    BY <1>1, <1>2, <1>3, <1>5 DEF RoundOK, At
  <1>18. WorkOK'
    BY <1>1, <1>2, <1>3, <1>5, <1>8 DEF WorkOK, RoundOK, At
  <1>19. Respects
    BY <1>2 DEF Respects
  <1> QED BY <1>1, <1>2, <1>11, <1>12, <1>14, <1>15, <1>16, <1>17, <1>18, <1>19 DEF IInv

----------------------------------------------------------------------------
(* The steps of the host *)

\* pause, and the end of a suspension: only the host's marks change.
LEMMA PausesKeep ==
  ASSUME IInv, Pause \/ RetryDue
  PROVE  IInv' /\ Respects
  <1>1. RoundTypeOK /\ ContextOK(context)
    BY DEF IInv
  <1>2. /\ UNCHANGED <<context, records, receipt, summarised, target, reply, text, acted, retries,
                       fault, batch, arrived, cont, inflight, round, taking, acked, sends, dropped,
                       resumes>>
        /\ aborted' \in BOOLEAN /\ status' \in {"active", "paused"} /\ held' \in BOOLEAN
        /\ faults' \in Nat
    <2>1. CASE Pause
      <3>1. aborted' \in BOOLEAN
        BY <2>1 DEF Pause
      <3>2. faults' \in Nat
        BY <1>1, <2>1 DEF Pause, RoundTypeOK
      <3> QED BY <2>1, <3>1, <3>2 DEF Pause, diskVars, schedVars, histVars
    <2>2. CASE RetryDue
      BY <1>1, <2>2 DEF RetryDue, RoundTypeOK, diskVars, schedVars, roundVars, histVars, boundVars
    <2> QED BY <2>1, <2>2
  <1>3. RoundTypeOK'
    <2>1. {retries', sends', faults', resumes'} \subseteq Nat
      BY <1>1, <1>2 DEF RoundTypeOK
    <2>2. Decisions' = Decisions
      BY <1>2, SameBound
    <2> QED BY <1>1, <1>2, <2>1, <2>2 DEF RoundTypeOK
  <1> QED BY <1>1, <1>2, <1>3, Stays, Silence

\* A step that changes nothing.
LEMMA StutterKeeps ==
  ASSUME IInv, UNCHANGED vars
  PROVE  IInv' /\ Respects
  <1>1. RoundTypeOK /\ ContextOK(context)
    BY DEF IInv
  <1>2. UNCHANGED <<context, records, receipt, summarised, target, reply, text, acted, retries,
                    fault, batch, arrived, cont, inflight, status, held, round, aborted, taking,
                    acked, sends, dropped, faults, resumes>>
    BY DEF vars, diskVars, schedVars, hostVars, roundVars, histVars, boundVars
  <1>3. RoundTypeOK'
    <2>1. {retries', sends', faults', resumes'} \subseteq Nat
      BY <1>1, <1>2 DEF RoundTypeOK
    <2>2. Decisions' = Decisions
      BY <1>2, SameBound
    <2> QED BY <1>1, <1>2, <2>1, <2>2 DEF RoundTypeOK
  <1> QED BY <1>1, <1>2, <1>3, Stays, Silence

\* The process dies and is started again.
LEMMA CrashKeeps ==
  ASSUME IInv, Crash
  PROVE  IInv' /\ Respects
  <1>1. RoundTypeOK /\ ContextOK(context)
    BY DEF IInv
  <1>2. /\ UNCHANGED <<context, records, receipt, summarised, target, reply, text, acted, retries,
                       fault, batch, arrived, inflight, status, held, taking, acked, sends, dropped,
                       resumes>>
        /\ round' = Idle /\ aborted' = FALSE /\ faults' = faults + 1
        /\ cont' = (cont \/ needsRun(context))
    BY DEF Crash, diskVars, hostVars, histVars
  <1>3. RoundTypeOK'
    <2>1. {retries', sends', faults', resumes'} \subseteq Nat
      BY <1>1, <1>2 DEF RoundTypeOK
    <2>2. Decisions' = Decisions
      BY <1>2, SameBound
    <2>3. cont' \in BOOLEAN
      BY <1>2
    <2>4. round' \in [pc : Steps, all : BOOLEAN, attempted : BOOLEAN, cursor : Cursors]
          /\ aborted' \in BOOLEAN
      BY <1>2 DEF Idle, Steps, Cursors, NoCursor
    <2>5. UNCHANGED <<context, records, receipt, summarised, target, reply, text, acted, fault, batch,
                      arrived, inflight, status, held, taking, acked, dropped>>
      BY <1>2
    <2> QED BY <1>1, <2>1, <2>2, <2>3, <2>4, <2>5 DEF RoundTypeOK
  <1> QED BY <1>1, <1>2, <1>3, Stays, GivenUp

\* resume: failed summaries and refused replies get new attempts.
LEMMA ResumeKeeps ==
  ASSUME IInv, Resume
  PROVE  IInv' /\ Respects
  <1>1. RoundTypeOK /\ ContextOK(context)
    BY DEF IInv
  <1>2. /\ UNCHANGED <<records, receipt, summarised, target, acted, fault, batch, arrived, cont,
                       inflight, round, aborted, taking, acked, dropped, faults>>
        /\ At("idle") /\ status' = "active" /\ held' = FALSE /\ resumes' = resumes + 1
    BY DEF Resume, schedVars, roundVars
  <1>3. /\ \/ context' = context
           \/ pending(context) /\ context' = retried(context)
        /\ sends' \in {0, sends}
        /\ retries' \in {0, retries} /\ reply' \in {reply, NoReply} /\ text' \in {text, "none"}
    BY DEF Resume, Repaired
  <1>4. Same(context, context')
    BY <1>1, <1>3, Stays, ProgressKeeps
  <1>5. /\ context' \in Checkpoints /\ level(context') \in 1 .. 3
        /\ context'.budget.maxTasks = context.budget.maxTasks
    BY <1>4, SameIsNothingNew, CheckpointTypes
  <1>6. RoundTypeOK'
    <2>1. {retries', sends', faults', resumes'} \subseteq Nat
      BY <1>1, <1>2, <1>3 DEF RoundTypeOK
    <2>2. Decisions' = Decisions
      BY <1>5, SameBound
    <2>3. reply' \in Decisions' \cup {NoReply} /\ text' \in {"none", "good", "bad"}
      BY <1>1, <1>3, <2>2 DEF RoundTypeOK
    <2> QED BY <1>1, <1>2, <1>5, <2>1, <2>3, ZenonT(40) DEF RoundTypeOK
  <1> QED BY <1>2, <1>4, <1>6, Silence

\* configureTokens: the frames stay, and the summary is sealed on the new budget.
LEMMA ConfigureKeeps ==
  ASSUME IInv, NEW b \in Budgets, ConfigureBudget(b)
  PROVE  IInv' /\ Respects
  <1>1. RoundTypeOK /\ ContextOK(context) /\ RoundOK /\ WorkOK /\ acked \subseteq records
    BY DEF IInv
  <1>2. /\ UNCHANGED <<records, receipt, summarised, target, reply, acted, retries, fault, batch,
                       arrived, cont, inflight, status, held, round, aborted, taking, acked, sends,
                       dropped, resumes>>
        /\ round.pc = "idle" /\ context' = configured(context, b)
        /\ text' \in {"none", text} /\ faults' = faults + 1
        /\ b.maxTasks = context.budget.maxTasks
        /\ \A i \in DOMAIN context.frames : Size(context.frames[i]) <= b.max
    BY DEF ConfigureBudget, At, schedVars, hostVars, roundVars, histVars
  <1>3. /\ ContextOK(context') /\ context'.frames = context.frames /\ context'.inbox = context.inbox
        /\ context'.runnable = context.runnable /\ context'.budget = b
        /\ (pending(context') <=> pending(context))
    BY <1>1, <1>2, ConfiguredKeeps
  <1>4. /\ context' \in Checkpoints /\ level(context') \in 1 .. 3
        /\ context'.budget.maxTasks = context.budget.maxTasks
        /\ (needsRun(context') <=> needsRun(context)) /\ level(context') = level(context)
        /\ NothingNew(context, context')
    <2>1. context' \in Checkpoints /\ level(context') \in 1 .. 3
      BY <1>3, CheckpointTypes
    <2> QED BY <1>2, <1>3, <2>1 DEF needsRun, level, NothingNew
  <1>5. RoundTypeOK'
    <2>1. {retries', sends', faults', resumes'} \subseteq Nat
      BY <1>1, <1>2 DEF RoundTypeOK
    <2>2. Decisions' = Decisions
      BY <1>4, SameBound
    <2>3. text' \in {"none", "good", "bad"}
      BY <1>1, <1>2 DEF RoundTypeOK
    <2> QED BY <1>1, <1>2, <1>4, <2>1, <2>2, <2>3 DEF RoundTypeOK
  <1>6. RoundOK'
    BY <1>1, <1>2 DEF RoundOK, At
  <1>7. WorkOK'
    BY <1>1, <1>2, <1>3, <1>4 DEF WorkOK
  <1> QED BY <1>1, <1>2, <1>3, <1>4, <1>5, <1>6, <1>7, NoInputMoved

----------------------------------------------------------------------------
(* The steps that receive *)

\* The keys of deliveries.
Keys(s) == {s[i].key : i \in DOMAIN s}

\* Deliveries of inputs that are not recorded, each under the cursor it will keep.
NewDeliveries(s, t) ==
  /\ s \in Seq(Deliveries)
  /\ \A i, j \in DOMAIN s : s[i].key = s[j].key => i = j
  /\ \A i \in DOMAIN s : s[i].key \notin records /\ t[s[i].key] = s[i].target

\* receive, in the same transaction as the history records.
LEMMA Received ==
  ASSUME IInv, NEW ds, NewDeliveries(ds, target'), Len(ds) <= Free,
         context' = receive(context, ds), records' = records \cup Keys(ds),
         taking' = taking, \A k \in records : target'[k] = target[k]
  PROVE  /\ ContextOK(context') /\ InboxOK' /\ InputsConserved' /\ Respects
         /\ context' \in Checkpoints /\ level(context') = level(context) /\ level(context') \in 1 .. 3
         /\ records' \subseteq Inputs /\ context'.budget = context.budget
         /\ (pending(context') <=> pending(context)) /\ (needsRun(context) => needsRun(context'))
         /\ needsRun(context') \/ (context'.inbox = context.inbox /\ records' = records)
  <1>1. RoundTypeOK /\ ContextOK(context) /\ InboxOK /\ InputsConserved
    BY DEF IInv
  <1>2. PICK q : q = context.inbox
    OBVIOUS
  <1>3. /\ q \in Seq(Deliveries) /\ KeysOK(q) /\ level(context) = Len(context.frames)
        /\ ds \in Seq(Deliveries)
    BY <1>1, <1>2, CheckpointTypes DEF NewDeliveries
  <1>4. PICK r : r = q \o ds
    OBVIOUS
  <1>5. PICK m, n \in Nat : m = Len(q) /\ n = Len(ds)
    BY <1>3
  <1>6. /\ r \in Seq(Deliveries) /\ Len(r) = m + n /\ DOMAIN r = 1 .. m + n
        /\ DOMAIN q = 1 .. m /\ DOMAIN ds = 1 .. n
        /\ \A i \in 1 .. m + n : r[i] = IF i <= m THEN q[i] ELSE ds[i - m]
    BY <1>3, <1>4, <1>5, ConcatProperties
  <1>7. /\ \A i \in 1 .. m : q[i].key \in records /\ q[i].target = target[q[i].key]
        /\ \A i, j \in 1 .. m : q[i].key = q[j].key => i = j
    BY <1>1, <1>2, <1>3, <1>6 DEF InboxOK, KeysOK
  <1>8. /\ \A i, j \in 1 .. n : ds[i].key = ds[j].key => i = j
        /\ \A i \in 1 .. n : ds[i].key \notin records /\ target'[ds[i].key] = ds[i].target
    BY <1>6 DEF NewDeliveries
  <1>9. KeysOK(r)
    <2>1. Len(r) <= maxInbox
      BY <1>2, <1>5, <1>6, ContextAssumption DEF Free
    <2>2. ASSUME NEW i \in 1 .. m + n, NEW j \in 1 .. m + n, r[i].key = r[j].key PROVE i = j
      <3>1. CASE i <= m /\ j <= m
        BY <1>6, <1>7, <2>2, <3>1
      <3>2. CASE i > m /\ j > m
        <4>1. i - m \in 1 .. n /\ j - m \in 1 .. n
          BY <3>2
        <4>2. ds[i - m].key = ds[j - m].key
          BY <1>6, <2>2, <3>2
        <4>3. i - m = j - m
          BY <1>8, <4>1, <4>2
        <4> QED BY <4>3
      <3>3. CASE i <= m /\ j > m
        <4>1. i \in 1 .. m /\ j - m \in 1 .. n
          BY <3>3
        <4> QED BY <1>6, <1>7, <1>8, <2>2, <3>3, <4>1
      <3>4. CASE i > m /\ j <= m
        <4>1. i - m \in 1 .. n /\ j \in 1 .. m
          BY <3>4
        <4> QED BY <1>6, <1>7, <1>8, <2>2, <3>4, <4>1
      <3> QED BY <3>1, <3>2, <3>3, <3>4
    <2> QED BY <1>6, <2>1, <2>2 DEF KeysOK
  <1>10. /\ ContextOK(context') /\ context'.frames = context.frames /\ context'.inbox = r
         /\ context'.budget = context.budget /\ context'.pendingSummary = context.pendingSummary
         /\ (context.runnable => context'.runnable) /\ (ds # <<>> => context'.runnable)
    BY <1>1, <1>2, <1>3, <1>4, <1>9, ReceiveKeeps
  <1>11. /\ context' \in Checkpoints /\ level(context') \in 1 .. 3
         /\ level(context') = level(context) /\ (pending(context') <=> pending(context))
         /\ (needsRun(context) => needsRun(context'))
    BY <1>10, CheckpointTypes DEF level, pending, needsRun
  <1>12. records' \subseteq Inputs
    <2>1. \A i \in DOMAIN ds : ds[i].key \in Inputs
      <3>1. \A i \in 1 .. n : ds[i] \in Deliveries
        BY <1>3, <1>6
      <3> QED BY <1>6, <3>1 DEF Deliveries
    <2> QED BY <1>1, <2>1 DEF Keys, RoundTypeOK
  <1>13. InboxOK'
    <2>1. ASSUME NEW i \in 1 .. m + n
          PROVE  r[i].key \in records' /\ r[i].target = target'[r[i].key]
      <3>1. CASE i <= m
        <4>1. i \in 1 .. m /\ r[i] = q[i]
          BY <1>6, <3>1
        <4> QED BY <1>7, <4>1
      <3>2. CASE i > m
        <4>1. i - m \in 1 .. n /\ r[i] = ds[i - m]
          BY <1>6, <3>2
        <4>2. r[i].key \in Keys(ds)
          BY <1>6, <4>1 DEF Keys
        <4> QED BY <1>8, <4>1, <4>2
      <3> QED BY <3>1, <3>2
    <2> QED BY <1>6, <1>10, <2>1 DEF InboxOK
  <1>14. InputsConserved'
    <2>1. ASSUME NEW k \in Inputs
          PROVE  taking[k] + (IF Holds(r, k) THEN 1 ELSE 0) = (IF k \in records' THEN 1 ELSE 0)
      <3>1. taking[k] \in Nat
        BY <1>1 DEF RoundTypeOK
      <3>2. taking[k] + (IF Holds(q, k) THEN 1 ELSE 0) = (IF k \in records THEN 1 ELSE 0)
        BY <1>1, <1>2 DEF InputsConserved, InInbox, Holds
      <3>3. Holds(r, k) <=> Holds(q, k) \/ Holds(ds, k)
        <4>1. ASSUME NEW i \in 1 .. m, q[i].key = k PROVE Holds(r, k)
          <5>1. i \in 1 .. m + n /\ r[i] = q[i]
            BY <1>6
          <5> QED BY <1>6, <4>1, <5>1 DEF Holds
        <4>2. ASSUME NEW i \in 1 .. n, ds[i].key = k PROVE Holds(r, k)
          <5>1. i + m \in 1 .. m + n /\ r[i + m] = ds[i]
            BY <1>6
          <5> QED BY <1>6, <4>2, <5>1 DEF Holds
        <4>3. ASSUME NEW i \in 1 .. m + n, r[i].key = k PROVE Holds(q, k) \/ Holds(ds, k)
          <5>1. \/ i \in 1 .. m /\ r[i] = q[i]
                \/ i - m \in 1 .. n /\ r[i] = ds[i - m]
            BY <1>6
          <5> QED BY <1>6, <4>3, <5>1 DEF Holds
        <4> QED BY <1>6, <4>1, <4>2, <4>3 DEF Holds
      <3>4. k \in records' <=> k \in records \/ Holds(ds, k)
        BY DEF Keys, Holds
      <3>5. Holds(ds, k) => k \notin records
        BY <1>6, <1>8 DEF Holds
      <3>6. Holds(q, k) => k \in records
        BY <1>6, <1>7 DEF Holds
      <3> QED BY <3>1, <3>2, <3>3, <3>4, <3>5, <3>6
    <2> QED BY <1>10, <2>1 DEF InputsConserved, InInbox, Holds
  <1>15. Respects
    BY <1>10 DEF Respects
  <1>16. needsRun(context') \/ (context'.inbox = context.inbox /\ records' = records)
    <2>1. CASE ds = <<>>
      <3>1. r = q /\ Keys(ds) = {}
        BY <1>3, <1>4, <2>1, ConcatEmptySeq DEF Keys
      <3> QED BY <1>2, <1>10, <3>1
    <2>2. CASE ds # <<>>
      BY <1>10, <2>2 DEF needsRun
    <2> QED BY <2>1, <2>2
  <1> QED BY <1>10, <1>11, <1>12, <1>13, <1>14, <1>15, <1>16

\* #freshDeliveries: the inputs of the batch that are not recorded.
LEMMA FreshOK ==
  ASSUME IInv, batch # NoBatch, NEW s, s = Fresh
  PROVE  NewDeliveries(s, target) /\ Keys(s) = ToSet(batch) \ records
  <1>1. /\ target \in [Inputs -> Cursors] /\ batch \in Seq(Inputs) /\ Distinct(batch)
        /\ records \subseteq Inputs
    BY DEF IInv, RoundTypeOK, InputsOK
  <1>2. PICK new : new = Among(batch, Inputs \ records)
    OBVIOUS
  <1>3. /\ new \in Seq(Inputs) /\ Distinct(new)
        /\ ToSet(new) = ToSet(batch) \cap (Inputs \ records)
    BY <1>1, <1>2, Filter, FilterDistinct
  <1>4. PICK n \in Nat : n = Len(new) /\ DOMAIN new = 1 .. n
    BY <1>3
  <1>5. s = [i \in 1 .. n |-> [key |-> new[i], target |-> target[new[i]]]]
    BY <1>2, <1>4 DEF Fresh, delivery
  <1>6. \A i \in 1 .. n : new[i] \in Inputs /\ target[new[i]] \in Cursors
    BY <1>1, <1>3, <1>4
  <1>7. /\ s \in Seq(Deliveries) /\ DOMAIN s = 1 .. n
        /\ \A i \in 1 .. n : s[i].key = new[i] /\ s[i].target = target[new[i]]
    <2>1. DOMAIN s = 1 .. n /\ \A i \in 1 .. n : s[i] = [key |-> new[i], target |-> target[new[i]]]
      BY <1>5
    <2>2. \A i \in 1 .. n : s[i] \in Deliveries
      BY <1>6, <2>1 DEF Deliveries
    <2>3. s \in [1 .. n -> Deliveries]
      BY <1>5, <2>1, <2>2
    <2>4. s \in Seq(Deliveries)
      BY <1>4, <2>3
    <2> QED BY <2>1, <2>4
  <1>8. \A i \in 1 .. n : new[i] \in ToSet(new)
    BY <1>4 DEF ToSet
  <1>9. \A i, j \in 1 .. n : new[i] = new[j] => i = j
    BY <1>3, <1>4 DEF Distinct
  <1>10. NewDeliveries(s, target)
    BY <1>3, <1>7, <1>8, <1>9 DEF NewDeliveries
  <1>11. Keys(s) = ToSet(batch) \ records
    <2>1. Keys(s) = ToSet(new)
      BY <1>4, <1>7 DEF Keys, ToSet
    <2>2. ToSet(batch) \subseteq Inputs
      BY <1>1 DEF ToSet
    <2> QED BY <1>3, <2>1, <2>2
  <1> QED BY <1>10, <1>11

\* ds are the first of s, as many as there is room for.
FirstOf(ds, s, free) ==
  \E l \in Nat : /\ l <= free /\ l <= Len(s) /\ (Len(s) <= free => l = Len(s))
                 /\ ds = SubSeq(s, 1, l)

\* The first of new deliveries are new deliveries.
LEMMA FirstOfThem ==
  ASSUME NEW s, NewDeliveries(s, target), NEW free \in Nat,
         NEW ds, FirstOf(ds, s, free)
  PROVE  /\ NewDeliveries(ds, target) /\ Len(ds) <= free /\ Keys(ds) \subseteq Keys(s)
         /\ Len(s) <= free => Keys(ds) = Keys(s)
  <1>1. s \in Seq(Deliveries)
    BY DEF NewDeliveries
  <1>2. PICK n \in Nat : n = Len(s) /\ DOMAIN s = 1 .. n
    BY <1>1
  <1>4. PICK l \in Nat :
           l <= n /\ l <= free /\ (n <= free => l = n) /\ ds = SubSeq(s, 1, l)
    BY <1>2 DEF FirstOf
  <1>5. /\ ds \in Seq(Deliveries) /\ Len(ds) = l /\ DOMAIN ds = 1 .. l
        /\ \A i \in 1 .. l : ds[i] = s[i] /\ i \in 1 .. n
    <2>1. \A i \in 1 .. l : s[i] \in Deliveries
      BY <1>1, <1>2, <1>4
    <2>2. /\ SubSeq(s, 1, l) \in Seq(Deliveries)
          /\ Len(SubSeq(s, 1, l)) = IF 1 <= l THEN l - 1 + 1 ELSE 0
          /\ \A i \in 1 .. l - 1 + 1 : SubSeq(s, 1, l)[i] = s[1 + i - 1]
      BY <2>1, SubSeqProperties
    <2>3. ds \in Seq(Deliveries) /\ Len(ds) = l
      BY <1>4, <2>2
    <2>4. \A i \in 1 .. l : ds[i] = s[i] /\ i \in 1 .. n
      BY <1>4, <2>2
    <2> QED BY <2>3, <2>4
  <1>6. NewDeliveries(ds, target)
    BY <1>2, <1>5 DEF NewDeliveries
  <1>7. Keys(ds) \subseteq Keys(s) /\ (l = n => Keys(ds) = Keys(s))
    BY <1>2, <1>5 DEF Keys
  <1> QED BY <1>2, <1>4, <1>5, <1>6, <1>7

\* receiveAvailable: the inputs of the batch enter the inbox while there is room.
LEMMA ReceiveAvailableKeeps ==
  ASSUME IInv, ReceiveAvailable
  PROVE  IInv' /\ Respects
  <1>1. /\ RoundTypeOK /\ RoundOK /\ WorkOK /\ InputsOK /\ WakesOK /\ OpsKept /\ ContextOK(context)
        /\ acked \subseteq records
    BY DEF IInv
  <1>2. UNCHANGED <<receipt, summarised, target, reply, text, acted, retries, fault, batch, arrived,
                    cont, inflight, status, held, aborted, taking, acked, sends, dropped,
                    faults, resumes>>
    BY DEF ReceiveAvailable, schedVars, hostVars, histVars, boundVars
  <1>3. batch # NoBatch /\ receipt = "none" /\ round.pc = "receive"
    BY <1>1 DEF ReceiveAvailable, RoundOK, At
  <1>4. PICK s : s = Fresh
    OBVIOUS
  <1>5. NewDeliveries(s, target) /\ Keys(s) = ToSet(batch) \ records
    BY <1>3, <1>4, FreshOK
  <1>6. PICK free \in Nat : free = Free
    <2>1. context.inbox \in Seq(Deliveries) /\ KeysOK(context.inbox)
      BY <1>1, CheckpointTypes
    <2>2. PICK n \in Nat : n = Len(context.inbox) /\ n <= maxInbox
      BY <2>1 DEF KeysOK
    <2>3. maxInbox - n \in Nat
      BY <2>2, ContextAssumption
    <2> QED BY <2>2, <2>3 DEF Free
  <1>7. PICK n \in Nat : n = Len(s)
    BY <1>5 DEF NewDeliveries
  <1>8. PICK l \in Nat : l = IF n < free THEN n ELSE free
    OBVIOUS
  <1>9. l <= free /\ l <= n /\ (n <= free => l = n)
    BY <1>8
  <1>10. PICK ds : ds = SubSeq(s, 1, l)
    OBVIOUS
  <1>11. /\ NewDeliveries(ds, target) /\ Len(ds) <= free /\ Keys(ds) \subseteq Keys(s)
         /\ Len(s) <= free => Keys(ds) = Keys(s)
    <2>1. FirstOf(ds, s, free)
      BY <1>7, <1>9, <1>10 DEF FirstOf
    <2> QED BY <1>5, <2>1, FirstOfThem
  <1>12. /\ context' = receive(context, ds) /\ records' = records \cup Keys(ds)
         /\ round' = [round EXCEPT !.pc = "received", !.all = Len(s) <= free]
    BY <1>4, <1>6, <1>7, <1>8, <1>10 DEF ReceiveAvailable, Keys
  <1>13. /\ ContextOK(context') /\ InboxOK' /\ InputsConserved' /\ Respects
         /\ context' \in Checkpoints /\ level(context') = level(context) /\ level(context') \in 1 .. 3
         /\ records' \subseteq Inputs /\ context'.budget = context.budget
         /\ (pending(context') <=> pending(context)) /\ (needsRun(context) => needsRun(context'))
         /\ needsRun(context') \/ (context'.inbox = context.inbox /\ records' = records)
    <2>1. NewDeliveries(ds, target') /\ Len(ds) <= Free
      BY <1>2, <1>6, <1>11
    <2>2. \A k \in records : target'[k] = target[k]
      BY <1>2
    <2> QED BY <1>2, <1>12, <2>1, <2>2, Received
  <1>14. bound' = bound /\ Decisions' = Decisions
    BY <1>13, SameBound
  <1>15. round' \in Rounds /\ round'.pc = "received" /\ round'.all = (Len(s) <= free)
    <2>1. (n <= free) \in BOOLEAN
      OBVIOUS
    <2> QED BY <1>1, <1>7, <1>12, <2>1 DEF RoundTypeOK, Rounds, Steps
  <1>16. RoundTypeOK'
    <2>1. {retries', sends', faults', resumes'} \subseteq Nat
      BY <1>1, <1>2 DEF RoundTypeOK
    <2>2. acked' \subseteq Inputs
      BY <1>1, <1>2 DEF RoundTypeOK
    <2> QED BY <1>1, <1>2, <1>13, <1>14, <1>15, <2>1, <2>2 DEF RoundTypeOK, Rounds
  <1>17. records \subseteq records' /\ \A k \in records' : k \in records \/ k \in ToSet(batch)
    BY <1>5, <1>11, <1>12
  <1>18. InputsOK'
    BY <1>1, <1>2, <1>3, <1>17 DEF InputsOK
  <1>19. OpsKept' /\ WakesOK'
    BY <1>1, <1>2, <1>3, <1>14, <1>17 DEF OpsKept, WakesOK
  <1>20. RoundOK'
    <2>1. round'.all => ToSet(batch) \subseteq records'
      BY <1>5, <1>11, <1>12, <1>15
    <2> QED BY <1>1, <1>2, <1>3, <1>15, <2>1 DEF RoundOK, At
  <1>21. WorkOK'
    BY <1>1, <1>2, <1>3, <1>13, <1>15 DEF WorkOK
  <1> QED BY <1>1, <1>2, <1>13, <1>16, <1>17, <1>18, <1>19, <1>20, <1>21 DEF IInv

\* Feedback that may be recorded, and its event that may arrive, move no other input.
LEMMA FedBack ==
  ASSUME IInv, NEW f \in Feedbacks, target' \in [Inputs -> Cursors], target'[f] # NoCursor,
         \A k \in Inputs : k # f => target'[k] = target[k],
         records' = records \/ records' = records \cup {f},
         bound' = bound, UNCHANGED <<batch, inflight, acked>>,
         \/ arrived' = arrived
         \/ /\ arrived' = Append(arrived, wake[f]) /\ f \in records'
            /\ wake[f] \notin ToSet(arrived) /\ (batch # NoBatch => wake[f] \notin ToSet(batch))
  PROVE  /\ InputsOK' /\ OpsKept' /\ WakesOK' /\ acked' \subseteq records'
         /\ arrived' \in Seq(Inputs) /\ (arrived # <<>> => arrived' # <<>>)
  <1>1. /\ InputsOK /\ WakesOK /\ OpsKept /\ ContextOK(context) /\ acked \subseteq records
        /\ arrived \in Seq(Inputs) /\ inflight \subseteq Ops
    BY DEF IInv, RoundTypeOK
  <1>2. /\ Ops \subseteq Inputs /\ Feedbacks \subseteq Inputs /\ wake[f] \in Inputs
        /\ bound.feedbacks \subseteq Feedbacks
    BY <1>1, BoundTypes
  <1>3. /\ Ops \cap Feedbacks = {} /\ \A g \in Feedbacks : wake[g] \notin Ops \cup Feedbacks
        /\ \A g \in Feedbacks : wake[g] = wake[f] => g = f
    BY RoundAssumption
  <1>4. /\ Distinct(arrived') /\ arrived' \in Seq(Inputs) /\ (arrived # <<>> => arrived' # <<>>)
        /\ ToSet(arrived) \subseteq ToSet(arrived')
        /\ \A k \in ToSet(arrived') :
             \/ k \in ToSet(arrived)
             \/ k = wake[f] /\ f \in records' /\ (batch # NoBatch => k \notin ToSet(batch))
    <2>1. CASE arrived' = arrived
      BY <1>1, <2>1 DEF InputsOK
    <2>2. CASE /\ arrived' = Append(arrived, wake[f]) /\ f \in records'
               /\ wake[f] \notin ToSet(arrived) /\ (batch # NoBatch => wake[f] \notin ToSet(batch))
      <3>1. Distinct(arrived)
        BY <1>1 DEF InputsOK
      <3>2. /\ Append(arrived, wake[f]) \in Seq(Inputs) /\ Distinct(Append(arrived, wake[f]))
            /\ ToSet(Append(arrived, wake[f])) = ToSet(arrived) \cup {wake[f]}
        BY <1>1, <1>2, <2>2, <3>1, AppendDistinct
      <3>3. arrived' # <<>>
        BY <1>1, <2>2
      <3> QED BY <2>2, <3>2, <3>3
    <2> QED BY <2>1, <2>2
  <1>5. \A k \in records' : k \in records \/ k = f
    OBVIOUS
  <1>6. records \subseteq records'
    OBVIOUS
  <1>7. InputsOK'
    <2>1. \A k \in ToSet(arrived') : k \notin inflight /\ (batch # NoBatch => k \notin ToSet(batch))
      BY <1>1, <1>3, <1>4 DEF InputsOK
    <2>2. ToSet(arrived') \cap Feedbacks = {}
      BY <1>1, <1>3, <1>4 DEF InputsOK
    <2>3. \A o \in Ops :
            \/ o \in inflight \cup ToSet(arrived') \cup records'
            \/ batch # NoBatch /\ o \in ToSet(batch)
            => target'[o] # NoCursor
      <3>1. ASSUME NEW o \in Ops,
                   \/ o \in inflight \cup ToSet(arrived') \cup records'
                   \/ batch # NoBatch /\ o \in ToSet(batch)
            PROVE  target'[o] # NoCursor
        <4>1. o # f /\ o # wake[f] /\ o \in Inputs
          BY <1>2, <1>3
        <4>2. target'[o] = target[o]
          BY <4>1
        <4>3. \/ o \in inflight \cup ToSet(arrived) \cup records
              \/ batch # NoBatch /\ o \in ToSet(batch)
          BY <1>4, <1>5, <3>1, <4>1
        <4>4. target[o] # NoCursor
          BY <1>1, <4>3 DEF InputsOK
        <4> QED BY <4>2, <4>4
      <3> QED BY <3>1
    <2>4. \A g \in Feedbacks : g \in records' => target'[g] # NoCursor
      BY <1>1, <1>2, <1>5 DEF InputsOK
    <2> QED BY <1>1, <1>4, <2>1, <2>2, <2>3, <2>4 DEF InputsOK
  <1>8. OpsKept'
    <2>1. ASSUME NEW o \in Ops, target'[o] # NoCursor
          PROVE  \/ o \in inflight \cup ToSet(arrived') \cup records'
                 \/ batch # NoBatch /\ o \in ToSet(batch)
      <3>1. target'[o] = target[o]
        BY <1>2, <1>3
      <3> QED BY <1>1, <1>4, <1>6, <2>1, <3>1 DEF OpsKept
    <2> QED BY <2>1 DEF OpsKept
  <1>9. WakesOK'
    <2>1. ASSUME NEW g \in bound.feedbacks,
                 \/ wake[g] \in ToSet(arrived') \cup records' \cup acked
                 \/ batch # NoBatch /\ wake[g] \in ToSet(batch)
          PROVE  g \in records'
      <3>1. g \in Feedbacks /\ wake[g] # f
        BY <1>2, <1>3
      <3>2. CASE wake[g] = wake[f] /\ f \in records'
        BY <1>3, <3>1, <3>2
      <3>3. CASE \/ wake[g] \in ToSet(arrived) \cup records \cup acked
                 \/ batch # NoBatch /\ wake[g] \in ToSet(batch)
        BY <1>1, <1>6, <3>3 DEF WakesOK
      <3> QED BY <1>4, <1>5, <2>1, <3>1, <3>2, <3>3
    <2> QED BY <2>1 DEF WakesOK
  <1> QED BY <1>1, <1>4, <1>6, <1>7, <1>8, <1>9

\* receive of the host, with the cursor that stays with the key.
LEMMA EnteredKeeps ==
  ASSUME IInv, NEW f \in Feedbacks, Entered(f), taking' = taking
  PROVE  /\ target' \in [Inputs -> Cursors] /\ target'[f] # NoCursor
         /\ \A k \in Inputs : k # f => target'[k] = target[k]
         /\ records' = records \cup {f} /\ f \in Inputs
         /\ f \in records => context' = context /\ records' = records
         /\ ContextOK(context') /\ InboxOK' /\ InputsConserved' /\ Respects
         /\ context' \in Checkpoints /\ level(context') = level(context) /\ level(context') \in 1 .. 3
         /\ records' \subseteq Inputs /\ context'.budget = context.budget
         /\ (pending(context') <=> pending(context)) /\ (needsRun(context) => needsRun(context'))
         /\ needsRun(context') \/ (context'.inbox = context.inbox /\ records' = records)
  <1>1. /\ RoundTypeOK /\ InputsOK /\ ContextOK(context) /\ target \in [Inputs -> Cursors]
        /\ f \in Inputs /\ records \subseteq Inputs
    BY BoundTypes DEF IInv, RoundTypeOK
  <1>2. cursor(context) \in Cursors /\ cursor(context) # NoCursor
    BY <1>1, CursorIs
  <1>3. /\ target' \in [Inputs -> Cursors] /\ target'[f] # NoCursor
        /\ \A k \in Inputs : k # f => target'[k] = target[k]
        /\ target[f] # NoCursor => target' = target
    <2>1. target' = [target EXCEPT ![f] = IF target[f] = NoCursor THEN cursor(context) ELSE target[f]]
      BY DEF Entered, Kept
    <2>2. PICK x \in Cursors : /\ x = IF target[f] = NoCursor THEN cursor(context) ELSE target[f]
                               /\ x # NoCursor
      BY <1>1, <1>2
    <2>3. target' = [target EXCEPT ![f] = x]
      BY <2>1, <2>2
    <2> QED BY <1>1, <2>2, <2>3
  <1>4. CASE f \in records
    <2>1. UNCHANGED <<context, records, target, taking>>
      BY <1>1, <1>3, <1>4 DEF Entered, InputsOK
    <2>2. /\ ContextOK(context)' /\ InboxOK' /\ InputsConserved' /\ Respects
      BY <2>1, ContextStays
    <2>3. context \in Checkpoints /\ level(context) \in 1 .. 3
      BY <1>1, CheckpointTypes
    <2> QED BY <1>1, <1>3, <1>4, <2>1, <2>2, <2>3
  <1>5. CASE f \notin records
    <2>1. PICK ds : ds = <<[key |-> f, target |-> target'[f]]>>
      OBVIOUS
    <2>2. /\ Free > 0 /\ context' = receive(context, ds) /\ records' = records \cup {f}
      BY <1>5, <2>1 DEF Entered
    <2>3. [key |-> f, target |-> target'[f]] \in Deliveries
      BY <1>1, <1>3 DEF Deliveries
    <2>4. /\ ds \in Seq(Deliveries) /\ Len(ds) = 1 /\ DOMAIN ds = {1} /\ ds[1].key = f
          /\ ds[1].target = target'[f]
      BY <2>1, <2>3
    <2>5. NewDeliveries(ds, target') /\ Keys(ds) = {f}
      BY <1>5, <2>4 DEF NewDeliveries, Keys
    <2>6. Len(ds) <= Free
      <3>1. PICK n \in Nat : n = Len(context.inbox)
        BY <1>1, CheckpointTypes
      <3> QED BY <2>2, <2>4, <3>1, ContextAssumption DEF Free
    <2>7. \A k \in records : target'[k] = target[k]
      BY <1>1, <1>3, <1>5
    <2>8. records' = records \cup Keys(ds)
      BY <2>2, <2>5
    <2>9. /\ ContextOK(context') /\ InboxOK' /\ InputsConserved' /\ Respects
          /\ context' \in Checkpoints /\ level(context') = level(context) /\ level(context') \in 1 .. 3
          /\ records' \subseteq Inputs /\ context'.budget = context.budget
          /\ (pending(context') <=> pending(context)) /\ (needsRun(context) => needsRun(context'))
          /\ needsRun(context') \/ (context'.inbox = context.inbox /\ records' = records)
      BY <2>2, <2>5, <2>6, <2>7, <2>8, Received
    <2> QED BY <1>1, <1>3, <1>5, <2>2, <2>9
  <1> QED BY <1>4, <1>5

\* provideFeedback: the input is recorded and its event wakes the agent.
LEMMA FeedbackKeeps ==
  ASSUME IInv, NEW f \in bound.feedbacks, Feedback(f)
  PROVE  IInv' /\ Respects
  <1>1. /\ RoundTypeOK /\ RoundOK /\ WorkOK /\ WakesOK /\ ContextOK(context)
        /\ records \subseteq Inputs
    BY DEF IInv, RoundTypeOK
  <1>2. f \in Feedbacks
    BY <1>1, BoundTypes
  <1>3. UNCHANGED <<receipt, summarised, reply, text, acted, retries, fault, batch, cont, inflight,
                    status, held, round, aborted, taking, acked, sends, dropped, faults, resumes>>
    BY DEF Feedback, hostVars, roundVars, histVars, boundVars
  <1>4. Entered(f) /\ Woken(f) /\ Awaiting
    BY DEF Feedback
  <1>5. /\ target' \in [Inputs -> Cursors] /\ target'[f] # NoCursor
        /\ \A k \in Inputs : k # f => target'[k] = target[k]
        /\ records' = records \cup {f} /\ f \in Inputs
        /\ f \in records => context' = context /\ records' = records
        /\ ContextOK(context') /\ InboxOK' /\ InputsConserved' /\ Respects
        /\ context' \in Checkpoints /\ level(context') = level(context) /\ level(context') \in 1 .. 3
        /\ records' \subseteq Inputs /\ context'.budget = context.budget
        /\ (pending(context') <=> pending(context)) /\ (needsRun(context) => needsRun(context'))
        /\ needsRun(context') \/ (context'.inbox = context.inbox /\ records' = records)
    BY <1>2, <1>3, <1>4, EnteredKeeps
  <1>6. bound' = bound /\ Decisions' = Decisions
    BY <1>5, SameBound
  <1>7. wake[f] \in Inputs /\ arrived \in Seq(Inputs)
    BY <1>1, <1>2, BoundTypes DEF RoundTypeOK
  <1>8. \/ arrived' = arrived /\ f \in records
        \/ /\ arrived' = Append(arrived, wake[f]) /\ wake[f] \notin ToSet(arrived)
           /\ (batch # NoBatch => wake[f] \notin ToSet(batch))
    <2>1. CASE wake[f] \notin Announced /\ arrived' = Append(arrived, wake[f])
      BY <2>1 DEF Announced
    <2>2. CASE wake[f] \in Announced \cup records /\ UNCHANGED arrived
      <3>1. ASSUME batch = NoBatch, wake[f] \in ToSet(batch) PROVE FALSE
        <4>1. wake[f] = "none"
          BY <3>1 DEF NoBatch, ToSet
        <4>2. "none" \in Inputs
          BY <1>7, <4>1
        <4>3. <<"none">> \in Seq(Inputs)
          BY <4>2
        <4> QED BY <4>3, RoundAssumption DEF NoBatch
      <3>2. \/ wake[f] \in ToSet(arrived) \cup records
            \/ batch # NoBatch /\ wake[f] \in ToSet(batch)
        BY <2>2, <3>1 DEF Announced
      <3> QED BY <1>1, <2>2, <3>2 DEF WakesOK
    <2> QED BY <1>4, <2>1, <2>2 DEF Woken
  <1>9. /\ InputsOK' /\ OpsKept' /\ WakesOK' /\ acked' \subseteq records'
        /\ arrived' \in Seq(Inputs) /\ (arrived # <<>> => arrived' # <<>>)
    <2>1. \/ arrived' = arrived
          \/ /\ arrived' = Append(arrived, wake[f]) /\ f \in records'
             /\ wake[f] \notin ToSet(arrived) /\ (batch # NoBatch => wake[f] \notin ToSet(batch))
      BY <1>5, <1>8
    <2> QED BY <1>2, <1>3, <1>5, <1>6, <2>1, FedBack
  <1>10. arrived' # <<>> \/ (context' = context /\ arrived' = arrived)
    BY <1>5, <1>7, <1>8
  <1>11. RoundTypeOK'
    <2>1. {retries', sends', faults', resumes'} \subseteq Nat
      BY <1>1, <1>3 DEF RoundTypeOK
    <2> QED BY <1>1, <1>3, <1>5, <1>6, <1>9, <2>1 DEF RoundTypeOK
  <1>12. RoundOK'
    BY <1>1, <1>3, <1>5 DEF RoundOK, At
  <1>13. WorkOK'
    BY <1>1, <1>3, <1>5, <1>9, <1>10 DEF WorkOK
  <1> QED BY <1>5, <1>9, <1>11, <1>12, <1>13 DEF IInv

\* The process dies between the input and its event; #attach asks for a round.
LEMMA FeedbackCutKeeps ==
  ASSUME IInv, NEW f \in bound.feedbacks, FeedbackCut(f)
  PROVE  IInv' /\ Respects
  <1>1. /\ RoundTypeOK /\ RoundOK /\ WorkOK /\ WakesOK /\ ContextOK(context)
        /\ records \subseteq Inputs
    BY DEF IInv, RoundTypeOK
  <1>2. f \in Feedbacks
    BY <1>1, BoundTypes
  <1>3. /\ UNCHANGED <<receipt, summarised, reply, text, acted, retries, fault, batch, arrived, inflight,
                       status, held, taking, acked, sends, dropped, resumes>>
        /\ round' = Idle /\ aborted' = FALSE /\ faults' = faults + 1
        /\ cont' = (cont \/ needsRun(context'))
    BY DEF FeedbackCut, hostVars, histVars
  <1>4. Entered(f)
    BY DEF FeedbackCut
  <1>5. /\ target' \in [Inputs -> Cursors] /\ target'[f] # NoCursor
        /\ \A k \in Inputs : k # f => target'[k] = target[k]
        /\ records' = records \cup {f} /\ f \in Inputs
        /\ f \in records => context' = context /\ records' = records
        /\ ContextOK(context') /\ InboxOK' /\ InputsConserved' /\ Respects
        /\ context' \in Checkpoints /\ level(context') = level(context) /\ level(context') \in 1 .. 3
        /\ records' \subseteq Inputs /\ context'.budget = context.budget
        /\ (pending(context') <=> pending(context)) /\ (needsRun(context) => needsRun(context'))
        /\ needsRun(context') \/ (context'.inbox = context.inbox /\ records' = records)
    BY <1>2, <1>3, <1>4, EnteredKeeps
  <1>6. bound' = bound /\ Decisions' = Decisions
    BY <1>5, SameBound
  <1>7. /\ InputsOK' /\ OpsKept' /\ WakesOK' /\ acked' \subseteq records'
        /\ arrived' \in Seq(Inputs)
    BY <1>2, <1>3, <1>5, <1>6, FedBack
  <1>8. /\ round' \in Rounds /\ round'.pc = "idle" /\ round'.all = FALSE
    BY <1>3 DEF Idle, Rounds, Steps, Cursors, NoCursor
  <1>9. RoundTypeOK'
    <2>1. {retries', sends', faults', resumes'} \subseteq Nat
      BY <1>1, <1>3 DEF RoundTypeOK
    <2>2. cont' \in BOOLEAN /\ aborted' \in BOOLEAN
      BY <1>3
    <2>3. UNCHANGED <<receipt, summarised, reply, text, acted, fault, batch, arrived, inflight,
                      status, held, taking, acked, dropped>>
      BY <1>3
    <2> QED BY <1>1, <1>5, <1>6, <1>8, <2>1, <2>2, <2>3 DEF RoundTypeOK, Rounds
  <1>10. RoundOK'
    BY <1>1, <1>3, <1>5, <1>8 DEF RoundOK, At
  <1>11. WorkOK'
    BY <1>1, <1>3, <1>5, <1>8 DEF WorkOK
  <1> QED BY <1>5, <1>7, <1>9, <1>10, <1>11 DEF IInv

\* The inbox is full: only the cursor of the feedback is stored.
LEMMA FeedbackRefusedKeeps ==
  ASSUME IInv, NEW f \in bound.feedbacks, FeedbackRefused(f)
  PROVE  IInv' /\ Respects
  <1>1. /\ RoundTypeOK /\ RoundOK /\ WorkOK /\ WakesOK /\ ContextOK(context) /\ InboxOK
        /\ InputsConserved /\ records \subseteq Inputs /\ target \in [Inputs -> Cursors]
    BY DEF IInv, RoundTypeOK
  <1>2. f \in Feedbacks /\ f \in Inputs
    BY <1>1, BoundTypes
  <1>3. /\ UNCHANGED <<context, records, receipt, summarised, reply, text, acted, retries, fault, batch,
                       arrived, cont, inflight, status, held, round, aborted, taking, acked, sends,
                       dropped, faults, resumes>>
        /\ f \notin records /\ Kept(f)
    BY DEF FeedbackRefused, schedVars, hostVars, roundVars, histVars, boundVars
  <1>4. cursor(context) \in Cursors /\ cursor(context) # NoCursor
    BY <1>1, CursorIs
  <1>5. /\ target' \in [Inputs -> Cursors] /\ target'[f] # NoCursor
        /\ \A k \in Inputs : k # f => target'[k] = target[k]
    <2>1. target' = [target EXCEPT ![f] = IF target[f] = NoCursor THEN cursor(context) ELSE target[f]]
      BY <1>3 DEF Kept
    <2>2. PICK x \in Cursors : /\ x = IF target[f] = NoCursor THEN cursor(context) ELSE target[f]
                               /\ x # NoCursor
      BY <1>1, <1>2, <1>4
    <2>3. target' = [target EXCEPT ![f] = x]
      BY <2>1, <2>2
    <2> QED BY <1>1, <1>2, <2>2, <2>3
  <1>6. bound' = bound /\ Decisions' = Decisions
    BY <1>3, SameBound
  <1>7. InputsOK' /\ OpsKept' /\ WakesOK' /\ acked' \subseteq records'
    BY <1>2, <1>3, <1>5, <1>6, FedBack
  <1>8. RoundTypeOK'
    <2>1. {retries', sends', faults', resumes'} \subseteq Nat
      BY <1>1, <1>3 DEF RoundTypeOK
    <2> QED BY <1>1, <1>3, <1>5, <1>6, <2>1 DEF RoundTypeOK
  <1>9. InboxOK'
    <2>1. ASSUME NEW i \in DOMAIN context.inbox
          PROVE  target'[context.inbox[i].key] = target[context.inbox[i].key]
      <3>1. PICK k : k = context.inbox[i].key
        OBVIOUS
      <3>2. k \in records /\ k \in Inputs /\ k # f
        BY <1>1, <1>3, <3>1 DEF InboxOK
      <3> QED BY <1>5, <3>1, <3>2
    <2> QED BY <1>1, <1>3, <2>1 DEF InboxOK
  <1>10. ContextOK(context)' /\ InputsConserved' /\ Respects
    BY <1>1, <1>3 DEF InputsConserved, InInbox, Respects
  <1>11. RoundOK' /\ WorkOK'
    BY <1>1, <1>3 DEF RoundOK, WorkOK, At
  <1> QED BY <1>3, <1>7, <1>8, <1>9, <1>10, <1>11 DEF IInv

----------------------------------------------------------------------------
(* The theorems *)

\* A new agent.
LEMMA InitOK == Init => IInv
  <1> SUFFICES ASSUME Init PROVE IInv
    OBVIOUS
  <1>1. PICK b \in Budgets : context = Initial(b)
    BY DEF Init
  <1>2. /\ records = {} /\ receipt = "none" /\ summarised = FALSE
        /\ batch = NoBatch /\ arrived = <<>> /\ cont = FALSE /\ inflight = {}
        /\ target = [k \in Inputs |-> NoCursor]
        /\ reply = NoReply /\ text = "none" /\ acted = FALSE
        /\ status = "active" /\ held = FALSE /\ fault = "none" /\ retries = 0
        /\ round = Idle /\ aborted = FALSE
        /\ taking = [k \in Inputs |-> 0] /\ acked = {} /\ sends = 0 /\ dropped = FALSE
        /\ faults = 0 /\ resumes = 0
    BY DEF Init
  <1>3. /\ context.frames = <<Root>> /\ context.pendingSummary = NoSummary /\ context.inbox = <<>>
        /\ context.runnable = FALSE /\ context.budget = b /\ context.created = 1
        /\ context = [frames |-> <<Root>>, pendingSummary |-> NoSummary, inbox |-> <<>>,
                      runnable |-> FALSE, budget |-> b, created |-> 1]
    BY <1>1 DEF Initial
  <1>4. Root \in Frames /\ Root.inputs = {} /\ Root.tasks = <<>> /\ Root.notes = 0
        /\ Root.summary = FALSE
    <2>1. <<>> \in Seq(TaskStates)
      OBVIOUS
    <2> QED BY <2>1 DEF Root, Frames
  <1>5. <<Root>> \in Seq(Frames) /\ Len(<<Root>>) = 1 /\ <<Root>>[1] = Root /\ DOMAIN <<Root>> = {1}
    BY <1>4
  <1>6. context \in Checkpoints /\ level(context) = 1
    <2>1. <<>> \in Seq([key : Inputs, target : Cursors])
      OBVIOUS
    <2> QED BY <1>3, <1>5, <2>1 DEF Checkpoints, level
  <1>7. \A state : Tasks(Root, state) = {}
    <2>1. DOMAIN Root.tasks = {}
      BY <1>4
    <2> QED BY <2>1 DEF Tasks
  <1>8. ChainOK(context.frames)
    <2>1. PICK fs : fs = <<Root>>
      OBVIOUS
    <2>2. fs[1] = Root /\ Len(fs) = 1 /\ fs \in Seq(Frames)
      BY <1>5, <2>1
    <2>3. IsFiniteSet(fs[1].inputs) /\ Tasks(fs[1], "RUNNING") = {} /\ fs[1].tasks = <<>>
      BY <1>4, <1>7, <2>2, FS_EmptySet
    <2>4. FrameOK(fs, 1)
      BY <2>3 DEF FrameOK, Executing
    <2> QED BY <1>3, <2>1, <2>2, <2>4 DEF ChainOK
  <1>9. FitsOK(context.frames, context.budget)
    <2>1. Size(Root) = 0
      <3>1. Cardinality({}) = 0
        BY FS_EmptySet
      <3>2. Len(Root.tasks) = 0
        BY <1>4
      <3>3. Cardinality(Tasks(Root, "COMPLETED") \cup Tasks(Root, "INTERRUPTED")) = 0
        BY <1>7, <3>1
      <3> QED BY <1>4, <3>1, <3>2, <3>3 DEF Size
    <2>2. 0 <= b.max /\ 0 <= b.maxTasks /\ Len(Root.tasks) = 0
      <3>1. b.max \in Nat /\ b.maxTasks \in Nat
        BY ContextAssumption
      <3> QED BY <1>4, <3>1
    <2> QED BY <1>3, <1>5, <2>1, <2>2 DEF FitsOK
  <1>10. KeysOK(context.inbox) /\ ~pending(context) /\ SealOK(context) /\ ~needsRun(context)
    BY <1>3, ContextAssumption DEF KeysOK, pending, SealOK, needsRun
  <1>11. ContextOK(context)
    BY <1>6, <1>8, <1>9, <1>10, ContextParts
  <1>12. round \in Rounds /\ round.pc = "idle" /\ round.all = FALSE
    BY <1>2 DEF Idle, Rounds, Steps, Cursors, NoCursor
  <1>13. target \in [Inputs -> Cursors] /\ taking \in [Inputs -> Nat]
         /\ \A k \in Inputs : target[k] = NoCursor /\ taking[k] = 0
    BY <1>2 DEF Cursors, NoCursor
  <1>14. RoundTypeOK
    <2>1. {retries, sends, faults, resumes} \subseteq Nat
      BY <1>2
    <2>2. arrived \in Seq(Inputs) /\ batch \in Seq(Inputs) \cup {NoBatch}
          /\ reply \in Decisions \cup {NoReply}
      BY <1>2
    <2>3. /\ records \subseteq Inputs /\ acked \subseteq Inputs /\ inflight \subseteq Ops
          /\ level(context) \in 1 .. 3
      BY <1>2, <1>6
    <2> QED BY <1>2, <1>6, <1>12, <1>13, <2>1, <2>2, <2>3 DEF RoundTypeOK, Rounds
  <1>15. ToSet(arrived) = {} /\ Distinct(arrived)
    BY <1>2 DEF ToSet, Distinct
  <1>16. Ops \subseteq Inputs /\ Feedbacks \subseteq Inputs
    BY <1>11, BoundTypes
  <1>17. InputsOK /\ WakesOK /\ OpsKept
    BY <1>2, <1>13, <1>15, <1>16 DEF InputsOK, WakesOK, OpsKept
  <1>18. InboxOK /\ InputsConserved
    BY <1>2, <1>3, <1>13 DEF InboxOK, InputsConserved, InInbox
  <1>19. RoundOK /\ WorkOK
    BY <1>2, <1>3, <1>10, <1>12 DEF RoundOK, WorkOK, At
  <1> QED BY <1>2, <1>11, <1>14, <1>17, <1>18, <1>19 DEF IInv

\* Every step keeps the invariant, and every input to the plan it is meant for.
LEMMA NextKeeps ==
  ASSUME IInv, [Next]_vars
  PROVE  IInv' /\ Respects
  <1>1. CASE UNCHANGED vars
    BY <1>1, StutterKeeps
  <1>2. ASSUME NEW k \in bound.messages, Notify(k) PROVE IInv' /\ Respects
    BY <1>2, NotifyKeeps
  <1>3. ASSUME NEW o \in Ops, CompleteOperation(o) PROVE IInv' /\ Respects
    BY <1>3, CompleteKeeps
  <1>4. CASE TakeNextRun
    BY <1>4, TakeKeeps
  <1>5. CASE RetryDue \/ Pause
    BY <1>5, PausesKeep
  <1>6. CASE \/ Abort \/ InboxFull \/ NoCapacity \/ NotAdmitted \/ SummaryExhausted
             \/ SummaryUnanswered \/ RefuseSummary \/ WorkUnanswered \/ Refuse
    BY <1>6, FailuresKeep
  <1>7. CASE Replayed \/ FinishRun
    BY <1>7, FinishesKeep
  <1>8. CASE Resolve \/ ReceiveMore \/ SavedSummary \/ ReturnRun \/ Committed \/ Ask
    BY <1>8, RoundMovesKeep
  <1>9. CASE PrepareFirst \/ PrepareAgain
    BY <1>9, PreparesKeep
  <1>10. CASE ReceiveAvailable
    BY <1>10, ReceiveAvailableKeeps
  <1>11. CASE InputsReceived
    BY <1>11, InputsReceivedKeeps
  <1>12. CASE BeginSummaryAttempt
    BY <1>12, AttemptKeeps
  <1>13. CASE SummaryReply \/ WorkReply
    BY <1>13, RepliesKeep
  <1>14. CASE CommitSummaryPhase
    BY <1>14, CommitKeeps
  <1>15. CASE AcknowledgeRound
    BY <1>15, AcknowledgeKeeps
  <1>16. CASE Act
    BY <1>16, ActKeeps
  <1>17. CASE Apply
    BY <1>17, ApplyStepKeeps
  <1>18. ASSUME NEW f \in bound.feedbacks, Feedback(f) \/ FeedbackRefused(f) \/ FeedbackCut(f)
         PROVE  IInv' /\ Respects
    BY <1>18, FeedbackKeeps, FeedbackRefusedKeeps, FeedbackCutKeeps
  <1>19. CASE Resume
    BY <1>19, ResumeKeeps
  <1>20. CASE Crash
    BY <1>20, CrashKeeps
  <1>21. ASSUME NEW b \in Budgets, ConfigureBudget(b) PROVE IInv' /\ Respects
    BY <1>21, ConfigureKeeps
  <1>22. CASE RoundStep
    BY <1>6, <1>7, <1>8, <1>9, <1>10, <1>11, <1>12, <1>13, <1>14, <1>15, <1>16, <1>17, <1>22
       DEF RoundStep
  <1>23. CASE HostStep
    BY <1>5, <1>18, <1>19, <1>20, <1>21, <1>23 DEF HostStep
  <1>24. CASE Next
    BY <1>2, <1>3, <1>4, <1>5, <1>6, <1>22, <1>23, <1>24 DEF Next
  <1> QED BY <1>1, <1>24

\* The invariant holds of every state of every behaviour.
THEOREM Consistency == Spec => []IInv
  <1>1. IInv /\ [Next]_vars => IInv'
    BY NextKeeps
  <1> QED BY <1>1, InitOK, PTL DEF Spec

\* An input whose record is stored waits in the inbox or has entered a frame, once.
THEOREM InputsAreConserved == Spec => []InputsConserved
  BY Consistency, PTL DEF IInv

\* A source forgets its input, and a batch leaves the scheduler, only when the
\* context has recorded it.
THEOREM SourcesKeepTheirInputs == Spec => []SourceKeepsUntilRecorded
  <1>1. IInv => SourceKeepsUntilRecorded
    BY DEF IInv, OpsKept, SourceKeepsUntilRecorded
  <1> QED BY <1>1, Consistency, PTL

\* restoreAgentContextManager accepts the stored checkpoint at every instant.
THEOREM CheckpointsAreRestorable == Spec => []AlwaysRestorable
  <1>1. IInv => AlwaysRestorable
    BY DEF IInv, ContextOK, AlwaysRestorable
  <1> QED BY <1>1, Consistency, PTL

\* An agent that sleeps has nothing left to do.
THEOREM SleepersAreDone == Spec => []NothingStranded
  <1>1. IInv => NothingStranded
    BY DEF IInv, WorkOK, NothingStranded, Sleeping
  <1> QED BY <1>1, Consistency, PTL

\* An input with a target enters the frame and the plan it was issued under.
THEOREM InputsReachTheirPlan == Spec => TargetsRespected
  <1> DEFINE A == \A k \in Inputs : \A i \in DOMAIN context'.frames :
       /\ k \in context'.frames[i].inputs
       /\ \A j \in DOMAIN context.frames : k \notin context.frames[j].inputs
       /\ target[k] # NoCursor
       => target[k] = [frame |-> context.frames[i].id, revision |-> context.frames[i].revision]
  <1>1. IInv /\ [Next]_vars => A
    BY NextKeeps DEF Respects
  <1> HIDE DEF A
  <1>2. Spec => [][A]_vars
    BY <1>1, Consistency, PTL DEF Spec
  <1> QED BY <1>2 DEF A, TargetsRespected

=================================================================================

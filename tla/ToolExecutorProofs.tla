--------------------------- MODULE ToolExecutorProofs ---------------------------
(***************************************************************************)
(* Machine-checked proofs about ToolExecutor, for every set of agents and  *)
(* calls, every workspace, effect and verdict, and any number of crashes,  *)
(* pauses and rounds.                                                      *)
(*                                                                         *)
(* The argument.  A promise works on the copy of the record it was         *)
(* launched with, while the host, deadlines and rounds work on the stored  *)
(* one.  What keeps the two together (QueuedFits, AwaitingFits): a call    *)
(* that waits for its turn has not begun, and is stored as registered or   *)
(* as failed; a call whose tool is awaited is stored as running, unless    *)
(* its wait has ended, and then its signal is aborted.  A call that        *)
(* mutates stands first in its workspace from its start until its promise  *)
(* and its tool have ended (FirstInLine).                                  *)
(***************************************************************************)
EXTENDS ToolExecutorProperties, Integers, QueueLemmas, FiniteSetTheorems, TLAPS

\* The provers that a leaf is given, in turn.
USE SMT, Zenon, SMTT(6), SMTT(7), SMTT(8)

Queued(o)  == task[o].pc = "queued"
Awaited(o) == task[o].pc = "awaiting"

\* A dead process has nothing in memory, and one that starts has launched nothing
\* for the agents it has not recovered.
DownInv ==
  /\ phase = "down" => /\ task = [o \in Ops |-> NoTask]
                       /\ body = {} /\ aborted = {}
  /\ phase = "init" => \A o \in Ops : owner(o) \notin recovered => task[o].pc = "idle"

\* A call that waits for its turn.
QueuedFits(o) ==
  Queued(o) =>
    /\ task[o].copy.state = "registered"
    /\ store[o].state \in {"registered", "failed"}
    /\ mutating(o) => starts[o] = 0
    /\ starts[o] > 0 => task[o].copy.handle
    /\ task[o].copy.handle =>
         store[o].handle /\ (sched[o].stage = "pending" => store[o].state = "registered")

\* A call whose tool is awaited.
AwaitingFits(o) ==
  Awaited(o) =>
    /\ task[o].copy.state = "running" /\ task[o].copy.handle /\ store[o].handle
    /\ store[o].state \in {"running", IF mutating(o) THEN "unknown" ELSE "failed"}
    /\ sched[o].stage \notin InFlight \/ store[o].state # "running" => o \in aborted

\* Where a record says that a tool runs, its promise awaits it.
RunningIsAwaited(o) == store[o].state = "running" /\ Alive => Awaited(o)

\* Only operations the scheduler knows have a handle, only those are begun, and
\* only what is stored is reconciled.
HandleFits(o) ==
  /\ store[o].handle => sched[o].stage # "none"
  /\ starts[o] > 0 => store[o].handle
  /\ o \in reconc => store[o].state # "absent"

\* What the record of a mutating call says of the workspace.
BegunFits(o) ==
  mutating(o) =>
    /\ starts[o] <= 1
    /\ store[o].state \in {"absent", "approval", "registered"} => starts[o] = 0
    /\ o \in touched \cup body => starts[o] # 0

\* Its place among the mutations of its workspace.
FirstInLine(o) ==
  mutating(o) =>
    /\ Awaited(o) \/ o \in body => tails[place(o)] # <<>> /\ Head(tails[place(o)]) = o
    /\ Queued(o) => o \in ToSet(tails[place(o)])

Settled == Terminal \cup {"unknown"}

\* The agent knows the outcome, is about to be told, or hears nothing any more.
Informed(o) ==
  status[owner(o)] = "dismissed" \/ o \in reconc \/ store[o].state \in told[o]

\* State s tells the outcome of a call that is over.
Tells(o, s) ==
  /\ store[o].state \in Settled /\ s \in Settled
  /\ store[o].state \in Terminal => s = store[o].state \/ Informed(o)

\* What an agent was or will be told about a call is its outcome.
ToldFits(o) ==
  /\ sched[o].stage = "returned" => Tells(o, sched[o].ref)
  /\ memo[o] # "none" => sched[o].stage \in Ended \cup {"received"} /\ Tells(o, memo[o])
  /\ sched[o].stage = "received" => /\ owner(o) \notin open
                                    /\ store[o].handle => memo[o] # "none"
  /\ sched[o].stage = "received" /\ store[o].state \in Terminal /\ starts[o] > 0 => Informed(o)

\* Failed means not done, unless the host ruled so.
Untouched(o) ==
  mutating(o) /\ store[o].state = "failed" /\ o \notin ruled => o \notin touched \cup body

PromiseFits(o) == QueuedFits(o) /\ AwaitingFits(o) /\ RunningIsAwaited(o)
RecordFits(o)  == HandleFits(o) /\ BegunFits(o) /\ Untouched(o) /\ ToldFits(o)

IInv ==
  /\ TypeOK /\ DownInv
  /\ \A o \in Ops : PromiseFits(o) /\ RecordFits(o) /\ FirstInLine(o)
  /\ UnknownBlocksWorkspace

----------------------------------------------------------------------------
(* Agents and their calls; the mutations of a workspace *)

\* Every call belongs to the batch of one agent.
LEMMA OwnerFacts ==
  /\ \A a \in Agents : calls[a] \in Seq(Ops) /\ OpsOf(a) \subseteq Ops
                        /\ workspace[a] \in Workspaces
  /\ \A o \in Ops : owner(o) \in Agents /\ o \in OpsOf(owner(o)) /\ place(o) \in Workspaces
  /\ \A o \in Ops, a \in Agents : o \in OpsOf(a) => owner(o) = a
  <1>1. \A a \in Agents : calls[a] \in Seq(Ops) /\ workspace[a] \in Workspaces
    BY ExecutorAssumption DEF Workspaces
  <1>2. \A a \in Agents : OpsOf(a) \subseteq Ops
    BY <1>1 DEF OpsOf, ToSet
  <1>3. ASSUME NEW o \in Ops PROVE owner(o) \in Agents /\ o \in OpsOf(owner(o))
    <2>1. \E a \in Agents : o \in ToSet(calls[a])
      BY ExecutorAssumption
    <2> QED BY <2>1 DEF owner, OpsOf
  <1>4. ASSUME NEW o \in Ops, NEW a \in Agents, o \in OpsOf(a) PROVE owner(o) = a
    BY <1>3, <1>4, ExecutorAssumption DEF OpsOf
  <1> QED BY <1>1, <1>2, <1>3, <1>4 DEF place

\* A batch is finite.
LEMMA BatchFinite ==
  ASSUME NEW a \in Agents, NEW M \in SUBSET OpsOf(a)
  PROVE  IsFiniteSet(M) /\ Cardinality(M) \in Nat
  <1>1. calls[a] \in Seq(Ops)
    BY OwnerFacts
  <1>2. /\ Len(calls[a]) \in Nat /\ DOMAIN calls[a] = 1 .. Len(calls[a])
        /\ calls[a] \in [1 .. Len(calls[a]) -> Ops]
    BY <1>1
  <1>3. IsFiniteSet(1 .. Len(calls[a]))
    BY <1>2, FS_Interval
  <1>4. calls[a] \in Surjection(1 .. Len(calls[a]), OpsOf(a))
    BY <1>2 DEF Surjection, OpsOf, ToSet
  <1>5. IsFiniteSet(OpsOf(a))
    BY <1>3, <1>4, FS_Surjection
  <1> QED BY <1>5, FS_Subset, FS_CardinalityType

\* The components of records, entries and promises.
LEMMA Types ==
  ASSUME TypeOK, NEW p \in Ops
  PROVE  /\ store[p] \in Records \cup {Absent}
         /\ store[p].state \in States \cup {"absent"} /\ store[p].handle \in BOOLEAN
         /\ store[p].handle => store[p] \in Records
         /\ store[p].state = "absent" => store[p] = Absent
         /\ sched[p] \in Entries /\ sched[p].stage \in Stages
         /\ sched[p].ref \in States \cup {"none"}
         /\ task[p].pc \in {"idle", "queued", "awaiting"}
         /\ task[p].copy \in Records \cup {Absent}
         /\ memo[p] \in States \cup {"none"} /\ starts[p] \in Nat
         /\ tails[place(p)] \in Seq(Ops)
  <1>1. /\ store[p] \in Records \cup {Absent} /\ sched[p] \in Entries
        /\ task[p] \in [pc : {"idle", "queued", "awaiting"}, copy : Records \cup {Absent}]
        /\ memo[p] \in States \cup {"none"} /\ starts[p] \in Nat
    BY DEF TypeOK
  <1>2. tails[place(p)] \in Seq(Ops)
    BY OwnerFacts DEF TypeOK
  <1>3. /\ store[p].state \in States \cup {"absent"} /\ store[p].handle \in BOOLEAN
        /\ store[p].handle => store[p] \in Records
        /\ store[p].state = "absent" => store[p] = Absent
    <2>1. CASE store[p] \in Records
      BY <2>1 DEF Records, States
    <2>2. CASE store[p] = Absent
      BY <2>2 DEF Absent
    <2> QED BY <1>1, <2>1, <2>2
  <1>4. sched[p].stage \in Stages /\ sched[p].ref \in States \cup {"none"}
    BY <1>1 DEF Entries
  <1>5. task[p].pc \in {"idle", "queued", "awaiting"} /\ task[p].copy \in Records \cup {Absent}
    BY <1>1
  <1> QED BY <1>1, <1>2, <1>3, <1>4, <1>5

\* A record put with another state keeps its handle.
LEMMA PutState ==
  ASSUME NEW c \in Records \cup {Absent}, NEW s \in States
  PROVE  /\ [c EXCEPT !.state = s] \in Records
         /\ [c EXCEPT !.state = s].state = s /\ [c EXCEPT !.state = s].handle = c.handle
  <1>1. CASE c \in Records
    <2>1. [c EXCEPT !.state = s] = [state |-> s, handle |-> c.handle]
      BY <1>1 DEF Records
    <2> QED BY <1>1, <2>1 DEF Records
  <1>2. CASE c = Absent
    <2>1. [c EXCEPT !.state = s] \in [state : States, handle : BOOLEAN]
      BY <1>2, Zenon DEF Absent
    <2>2. [c EXCEPT !.state = s].state = s /\ [c EXCEPT !.state = s].handle = c.handle
      BY <1>2 DEF Absent
    <2> QED BY <2>1, <2>2 DEF Records
  <1> QED BY <1>1, <1>2

\* deliver changes the entry of an operation in flight, and no other.
LEMMA Delivery ==
  ASSUME NEW s \in Entries, NEW c \in Records \cup {Absent}
  PROVE  /\ Delivered(s, c) \in Entries
         /\ c.handle /\ s.stage = "pending" =>
              Delivered(s, c).stage = "returned" /\ Delivered(s, c).ref = c.state
         /\ c.handle /\ s.stage = "overdue" =>
              Delivered(s, c).stage = "timed_out" /\ Delivered(s, c).ref = s.ref
         /\ ~ (c.handle /\ s.stage \in InFlight) => Delivered(s, c) = s
  BY DEF Delivered, Entries, Records, Absent, States, Stages, InFlight, Ended

----------------------------------------------------------------------------
(* What a step leaves alone *)

\* The record of call p, its wait and its answer stay; the tool may end, and the
\* agent may learn more.
SameRecord(p) ==
  /\ store'[p] = store[p] /\ sched'[p] = sched[p] /\ memo'[p] = memo[p]
  /\ starts'[p] = starts[p]
  /\ p \in touched' \cup body' => p \in touched \cup body
  /\ p \in ruled => p \in ruled'
  /\ owner(p) \notin open => owner(p) \notin open'
  /\ Informed(p) => Informed(p)'
  /\ p \in reconc' => p \in reconc

\* The promise of call p stays; its signal may be aborted.
SamePromise(p) ==
  /\ task'[p] = task[p]
  /\ Alive' => Alive
  /\ p \in aborted => p \in aborted'

\* The record of a call fits as long as nothing is done to it.
LEMMA RecordKept ==
  ASSUME NEW p \in Ops, RecordFits(p), SameRecord(p)
  PROVE  RecordFits(p)'
  <1>1. HandleFits(p)' /\ BegunFits(p)' /\ Untouched(p)'
    BY DEF RecordFits, SameRecord, HandleFits, BegunFits, Untouched, mutating
  <1>2. ToldFits(p)'
    BY DEF RecordFits, SameRecord, ToldFits, Tells, Settled
  <1> QED BY <1>1, <1>2 DEF RecordFits

\* The promise of a call fits its record as long as nothing is done to either.
LEMMA PromiseKept ==
  ASSUME NEW p \in Ops, PromiseFits(p), SameRecord(p), SamePromise(p)
  PROVE  PromiseFits(p)'
  BY DEF PromiseFits, SameRecord, SamePromise, QueuedFits, AwaitingFits, RunningIsAwaited,
         Queued, Awaited, Alive, mutating

\* A call that does not wait, and whose record does not run, fits whatever else.
LEMMA NoPromise ==
  ASSUME NEW p \in Ops, task'[p].pc = "idle", store'[p].state # "running"
  PROVE  PromiseFits(p)'
  BY DEF PromiseFits, QueuedFits, AwaitingFits, RunningIsAwaited, Queued, Awaited

\* No call begins to mutate or to wait: the order of the workspaces is kept.
LEMMA LineKept ==
  ASSUME NEW p \in Ops, FirstInLine(p), tails' = tails,
         Awaited(p)' \/ p \in body' => Awaited(p) \/ p \in body,
         Queued(p)' => Queued(p)
  PROVE  FirstInLine(p)'
  BY DEF FirstInLine, mutating, place

\* No call is newly unknown and none begins: no workspace is newly blocked.
LEMMA StillBlocked ==
  ASSUME TypeOK, UnknownBlocksWorkspace, body' \subseteq body,
         \A p \in Ops : store'[p].state = "unknown" => store[p].state = "unknown"
  PROVE  UnknownBlocksWorkspace'
  BY DEF UnknownBlocksWorkspace, TypeOK, mutating, place

\* Two mutations of a workspace that are awaited or execute are the same one.
LEMMA OneMutates ==
  ASSUME NEW p \in Ops, NEW q \in Ops, FirstInLine(p), FirstInLine(q),
         mutating(p), mutating(q), place(p) = place(q),
         Awaited(p) \/ p \in body, Awaited(q) \/ q \in body
  PROVE  p = q
  BY DEF FirstInLine

\* A call that becomes unknown was awaited, and so no other tool mutates there.
LEMMA NewlyBlocked ==
  ASSUME TypeOK, UnknownBlocksWorkspace, \A p \in Ops : FirstInLine(p),
         NEW o \in Ops, Awaited(o) \/ ~ mutating(o), body' \subseteq body,
         \A p \in Ops \ {o} : store'[p].state = "unknown" => store[p].state = "unknown"
  PROVE  UnknownBlocksWorkspace'
  <1> SUFFICES ASSUME NEW b \in body', NEW p \in Ops, mutating(b), mutating(p),
                      place(b) = place(p), store'[p].state = "unknown"
               PROVE  b = p
    BY DEF UnknownBlocksWorkspace, mutating, place
  <1>1. b \in body /\ b \in Ops
    BY DEF TypeOK
  <1>2. CASE p = o
    BY <1>1, <1>2, OneMutates
  <1>3. CASE p # o
    BY <1>1, <1>3 DEF UnknownBlocksWorkspace
  <1> QED BY <1>2, <1>3

\* A call whose promise and tool have ended leaves its workspace; what waits or
\* executes there keeps its place.
LEMMA LineLeaves ==
  ASSUME TypeOK, \A p \in Ops : FirstInLine(p), NEW o \in Ops, NEW B, tails' = Unlined(o, B),
         mutating(o) /\ o \notin B => ~ Queued(o)' /\ ~ Awaited(o)' /\ o \notin body',
         \A p \in Ops : /\ Awaited(p)' \/ p \in body' => Awaited(p) \/ p \in body
                        /\ Queued(p)' => Queued(p)
  PROVE  tails' \in [Workspaces -> Seq(Ops)] /\ \A p \in Ops : FirstInLine(p)'
  <1>1. CASE o \in B
    <2>1. tails' = tails
      BY <1>1 DEF Unlined
    <2> QED BY <2>1, LineKept DEF TypeOK
  <1>2. CASE o \notin B
    <2>1. place(o) \in Workspaces /\ \A p \in Ops : place(p) \in Workspaces
      BY OwnerFacts
    <2>2. \A w \in Workspaces : tails[w] \in Seq(Ops)
      BY DEF TypeOK
    <2>3. tails' = [tails EXCEPT ![place(o)] = RemoveFirst(@, o)]
      BY <1>2 DEF Unlined
    <2>4. tails' \in [Workspaces -> Seq(Ops)]
      BY <2>1, <2>2, <2>3, Leave DEF TypeOK
    <2>5. \A w \in Workspaces : w # place(o) => tails'[w] = tails[w]
      BY <2>3 DEF TypeOK
    <2>6. tails'[place(o)] = RemoveFirst(tails[place(o)], o)
      BY <2>1, <2>3 DEF TypeOK
    <2>7. ASSUME NEW p \in Ops PROVE FirstInLine(p)'
      <3>1. CASE place(p) # place(o)
        <4>1. tails'[place(p)] = tails[place(p)]
          BY <2>1, <2>5, <3>1
        <4> QED BY <4>1 DEF FirstInLine, mutating, place
      <3>2. CASE p = o
        BY <1>2, <3>2 DEF FirstInLine, mutating
      <3>3. CASE place(p) = place(o) /\ p # o /\ mutating(p)
        <4> DEFINE q == tails[place(o)]
                   r == RemoveFirst(q, o)
        <4>1. /\ q # <<>> /\ Head(q) # o => r # <<>> /\ Head(r) = Head(q)
              /\ \A x \in ToSet(q) : x # o => x \in ToSet(r)
          BY <2>1, <2>2, Leave
        <4>2. /\ Awaited(p) \/ p \in body => q # <<>> /\ Head(q) = p
              /\ Queued(p) => p \in ToSet(q)
          BY <3>3 DEF FirstInLine
        <4>3. tails'[place(p)] = r
          BY <2>6, <3>3
        <4> HIDE DEF q, r
        <4>4. /\ Awaited(p)' \/ p \in body' => r # <<>> /\ Head(r) = p
              /\ Queued(p)' => p \in ToSet(r)
          BY <3>3, <4>1, <4>2
        <4> QED BY <4>3, <4>4 DEF FirstInLine, place
      <3> QED BY <3>1, <3>2, <3>3 DEF FirstInLine, mutating
    <2> QED BY <2>4, <2>7
  <1> QED BY <1>1, <1>2

\* Launched calls queue up behind what waits or executes in the workspace.
LEMMA LineGrows ==
  ASSUME TypeOK, \A p \in Ops : FirstInLine(p), NEW a \in Agents, NEW L \in SUBSET OpsOf(a),
         NEW c, task' = Launched(L, c), Line(a, L), body' \subseteq body
  PROVE  tails' \in [Workspaces -> Seq(Ops)] /\ \A p \in Ops : FirstInLine(p)'
  <1> DEFINE M == {o \in Launchable(L) : mutating(o)}
             w == workspace[a]
  <1>1. M \in SUBSET OpsOf(a) /\ M \subseteq Ops /\ w \in Workspaces
    BY OwnerFacts DEF Launchable
  <1>2. PICK s \in InCallOrder(a, M) : tails' = [tails EXCEPT ![w] = @ \o s]
    BY DEF Line
  <1>3. s \in [1 .. Cardinality(M) -> M] /\ ToSet(s) = M
    BY DEF InCallOrder
  <1>4. Cardinality(M) \in Nat
    BY <1>1, BatchFinite
  <1> HIDE DEF M
  <1>5. s \in Seq(Ops)
    BY <1>1, <1>3, <1>4
  <1>6. \A v \in Workspaces : tails[v] \in Seq(Ops)
    BY DEF TypeOK
  <1>7. tails' \in [Workspaces -> Seq(Ops)]
    <2>1. tails[w] \o s \in Seq(Ops)
      BY <1>1, <1>5, <1>6
    <2> QED BY <1>2, <2>1 DEF TypeOK
  <1>8. /\ \A v \in Workspaces : v # w => tails'[v] = tails[v]
        /\ tails'[w] = tails[w] \o s
    BY <1>1, <1>2 DEF TypeOK
  <1>9. ASSUME NEW p \in Ops PROVE FirstInLine(p)'
    <2>1. /\ place(p) \in Workspaces
          /\ p \in Launchable(L) => place(p) = w
      BY OwnerFacts DEF Launchable, place
    <2>2. Awaited(p)' => Awaited(p)
      BY DEF Launched, Awaited
    <2>3. Queued(p)' => Queued(p) \/ p \in Launchable(L)
      BY DEF Launched, Queued
    <2>4. CASE place(p) # w
      <3>1. tails'[place(p)] = tails[place(p)]
        BY <1>8, <2>1, <2>4
      <3> QED BY <2>1, <2>2, <2>3, <2>4, <3>1 DEF FirstInLine, mutating, place
    <2>5. CASE place(p) = w /\ mutating(p)
      <3> DEFINE q == tails[w]
      <3>1. /\ q # <<>> => q \o s # <<>> /\ Head(q \o s) = Head(q)
            /\ ToSet(q) \subseteq ToSet(q \o s) /\ ToSet(s) \subseteq ToSet(q \o s)
        BY <1>1, <1>5, <1>6, LineUp
      <3>2. /\ Awaited(p) \/ p \in body => q # <<>> /\ Head(q) = p
            /\ Queued(p) => p \in ToSet(q)
        BY <2>5 DEF FirstInLine
      <3>3. p \in Launchable(L) => p \in ToSet(s)
        BY <1>3, <2>5 DEF M
      <3>4. tails'[place(p)] = q \o s
        BY <1>8, <2>5
      <3> HIDE DEF q
      <3>5. /\ Awaited(p)' \/ p \in body' => q \o s # <<>> /\ Head(q \o s) = p
            /\ Queued(p)' => p \in ToSet(q \o s)
        BY <2>2, <2>3, <3>1, <3>2, <3>3
      <3> QED BY <3>4, <3>5 DEF FirstInLine, place
    <2> QED BY <2>4, <2>5 DEF FirstInLine, mutating
  <1> QED BY <1>7, <1>9

\* A step keeps the invariant when it leaves the promises and records it does
\* not concern alone.
LEMMA Assembled ==
  ASSUME IInv, TypeOK', DownInv', UnknownBlocksWorkspace', \A p \in Ops : FirstInLine(p)',
         \A p \in Ops : \/ SameRecord(p) /\ SamePromise(p)
                        \/ PromiseFits(p)' /\ RecordFits(p)'
  PROVE  IInv'
  <1>1. \A p \in Ops : PromiseFits(p)' /\ RecordFits(p)'
    BY PromiseKept, RecordKept DEF IInv
  <1> QED BY <1>1 DEF IInv

\* When the process dies only the records have to fit.
LEMMA Dying ==
  ASSUME TypeOK', Die, \A p \in Ops : RecordFits(p)'
  PROVE  IInv'
  <1>1. \A p \in Ops : task'[p].pc = "idle"
    BY DEF Die, NoTask
  <1>2. body' = {} /\ aborted' = {} /\ phase' = "down"
    BY DEF Die
  <1>3. DownInv'
    BY <1>2 DEF Die, DownInv
  <1>4. \A p \in Ops : PromiseFits(p)'
    BY <1>1, <1>2 DEF PromiseFits, QueuedFits, AwaitingFits, RunningIsAwaited, Queued, Awaited,
                      Alive
  <1>5. \A p \in Ops : FirstInLine(p)'
    BY <1>1, <1>2 DEF FirstInLine, Queued, Awaited
  <1>6. UnknownBlocksWorkspace'
    BY <1>2 DEF UnknownBlocksWorkspace
  <1> QED BY <1>3, <1>4, <1>5, <1>6 DEF IInv

----------------------------------------------------------------------------
(* Deadlines, and the rounds that receive results *)

USE DEF diskVars, memVars, procVars, histVars, boundVars

\* A deadline that passes ends no wait yet.
LEMMA DeadlinePassesKeeps ==
  ASSUME IInv, NEW o \in Ops, DeadlinePasses(o)
  PROVE  IInv'
  <1> USE DEF DeadlinePasses
  <1>1. TypeOK /\ DownInv /\ UnknownBlocksWorkspace
        /\ \A p \in Ops : PromiseFits(p) /\ RecordFits(p) /\ FirstInLine(p)
    BY DEF IInv
  <1>2. sched'[o] = [sched[o] EXCEPT !.stage = "overdue"] /\ sched'[o] \in Entries
        /\ sched'[o].stage = "overdue"
    <2>1. sched[o] \in Entries /\ sched'[o] = [sched[o] EXCEPT !.stage = "overdue"]
      BY <1>1 DEF TypeOK
    <2> QED BY <2>1 DEF Entries, Stages, InFlight
  <1>3. \A p \in Ops \ {o} : sched'[p] = sched[p]
    BY <1>1 DEF TypeOK
  <1>4. TypeOK'
    BY <1>1, <1>2, <1>3 DEF TypeOK
  <1>5. DownInv'
    BY <1>1 DEF DownInv
  <1>6. \A p \in Ops \ {o} : SameRecord(p) /\ SamePromise(p)
    BY <1>3 DEF SameRecord, SamePromise, Informed, Alive
  <1>7. PromiseFits(o)'
    BY <1>1, <1>2 DEF PromiseFits, QueuedFits, AwaitingFits, RunningIsAwaited, Queued,
                      Awaited, Alive, mutating, InFlight
  <1>8. RecordFits(o)'
    BY <1>1, <1>2 DEF RecordFits, HandleFits, BegunFits, Untouched, ToldFits, mutating, Ended
  <1>9. \A p \in Ops : FirstInLine(p)'
    BY <1>1, LineKept DEF Awaited, Queued
  <1>10. UnknownBlocksWorkspace'
    BY <1>1, StillBlocked
  <1> QED BY <1>4, <1>5, <1>6, <1>7, <1>8, <1>9, <1>10, Assembled

\* The timer ends the wait; an awaited tool's signal is aborted with it.
LEMMA TimesOutKeeps ==
  ASSUME IInv, NEW o \in Ops, TimesOut(o)
  PROVE  IInv'
  <1> USE DEF TimesOut
  <1>1. TypeOK /\ DownInv /\ UnknownBlocksWorkspace
        /\ \A p \in Ops : PromiseFits(p) /\ RecordFits(p) /\ FirstInLine(p)
    BY DEF IInv
  <1>2. sched'[o] \in Entries /\ sched'[o].stage = "timed_out"
    <2>1. sched[o] \in Entries /\ sched'[o] = [sched[o] EXCEPT !.stage = "timed_out"]
      BY <1>1 DEF TypeOK
    <2> QED BY <2>1 DEF Entries, Stages, Ended
  <1>3. \A p \in Ops \ {o} : sched'[p] = sched[p]
    BY <1>1 DEF TypeOK
  <1>4. TypeOK'
    BY <1>1, <1>2, <1>3 DEF TypeOK
  <1>5. DownInv'
    BY <1>1 DEF DownInv, Alive
  <1>6. \A p \in Ops \ {o} : SameRecord(p) /\ SamePromise(p)
    BY <1>3 DEF SameRecord, SamePromise, Informed, Alive
  <1>7. PromiseFits(o)'
    BY <1>1, <1>2 DEF PromiseFits, QueuedFits, AwaitingFits, RunningIsAwaited, Queued,
                      Awaited, Alive, mutating, InFlight
  <1>8. RecordFits(o)'
    BY <1>1, <1>2 DEF RecordFits, HandleFits, BegunFits, Untouched, ToldFits, mutating, Ended
  <1>9. \A p \in Ops : FirstInLine(p)'
    BY <1>1, LineKept DEF Awaited, Queued
  <1>10. UnknownBlocksWorkspace'
    BY <1>1, StillBlocked
  <1> QED BY <1>4, <1>5, <1>6, <1>7, <1>8, <1>9, <1>10, Assembled

\* The answer that is fixed for a call is its outcome: a call that is resolved while
\* it runs, or before it began, is over with it.
LEMMA ResolveWaitKeeps ==
  ASSUME IInv, NEW o \in Ops, ResolveWait(o)
  PROVE  IInv'
  <1> USE DEF ResolveWait
  <1>1. TypeOK /\ DownInv /\ UnknownBlocksWorkspace
        /\ \A p \in Ops : PromiseFits(p) /\ RecordFits(p) /\ FirstInLine(p)
    BY DEF IInv
  <1>0. PICK s : s = IF sched[o].stage = "returned" THEN store[o].state
                     ELSE IF store[o].state = "running"
                       THEN IF mutating(o) THEN "unknown" ELSE "failed"
                     ELSE IF Expirable(store[o]) THEN "failed" ELSE store[o].state
    OBVIOUS
  <1>2. store[o].handle /\ sched[o].stage \in Ended /\ store[o] \in Records
        /\ store[o].state \in States
    BY <1>1, Types DEF Found, Records
  <1>3. s \in States
    BY <1>0, <1>2 DEF States
  <1>4. store'[o] \in Records /\ store'[o].state = s /\ store'[o].handle
    <2>1. store'[o] = Resolved(o)
      BY <1>1 DEF TypeOK
    <2>2. \A x \in States : /\ [store[o] EXCEPT !.state = x] \in Records
                             /\ [store[o] EXCEPT !.state = x].state = x
                             /\ [store[o] EXCEPT !.state = x].handle = store[o].handle
      BY <1>2, PutState
    <2>3. "unknown" \in States /\ "failed" \in States
      BY DEF States
    <2>4. CASE sched[o].stage = "returned"
      BY <1>0, <1>2, <2>1, <2>4 DEF Resolved
    <2>5. CASE sched[o].stage # "returned" /\ store[o].state = "running"
      <3>1. s = (IF mutating(o) THEN "unknown" ELSE "failed")
        BY <1>0, <2>5
      <3>2. store'[o] = [store[o] EXCEPT !.state = s]
        BY <2>1, <2>5, <3>1 DEF Resolved
      <3> QED BY <1>2, <1>3, <2>2, <3>2
    <2>6. CASE sched[o].stage # "returned" /\ store[o].state # "running"
      BY <1>0, <1>2, <2>1, <2>2, <2>3, <2>6, ZenonT(40) DEF Resolved, Expired
    <2> QED BY <2>4, <2>5, <2>6
  <1>5. \A p \in Ops \ {o} : store'[p] = store[p] /\ memo'[p] = memo[p]
    BY <1>1 DEF TypeOK
  <1>6. memo'[o] \in States \cup {"none"}
        /\ memo'[o] = IF sched[o].stage = "returned" THEN sched[o].ref ELSE s
    <2>1. Resolved(o).state = s
      BY <1>1, <1>4 DEF TypeOK
    <2> QED BY <1>1, <1>3, <2>1, Types DEF TypeOK
  <1>7. status' \in [Agents -> {"active", "paused", "cancelled", "dismissed"}]
        /\ \A a \in Agents : status[a] = "dismissed" => status'[a] = "dismissed"
    BY <1>1, OwnerFacts DEF TypeOK, Paused
  <1>8. TypeOK'
    <2>1. store' \in [Ops -> Records \cup {Absent}]
      BY <1>1, <1>4 DEF TypeOK
    <2>2. memo' \in [Ops -> States \cup {"none"}]
      BY <1>1, <1>6 DEF TypeOK
    <2> QED BY <1>1, <1>7, <2>1, <2>2 DEF TypeOK
  <1>9. DownInv'
    BY <1>1 DEF DownInv
  <1>10. \A p \in Ops \ {o} : SameRecord(p) /\ SamePromise(p)
    BY <1>5, <1>7, OwnerFacts DEF SameRecord, SamePromise, Informed, Alive
  <1>11. PromiseFits(o)'
    BY <1>0, <1>1, <1>2, <1>4 DEF PromiseFits, QueuedFits, AwaitingFits, RunningIsAwaited, Queued,
                      Awaited, Alive, Ready, mutating, InFlight, Ended, Expirable
  <1>12. RecordFits(o)'
    <2>1. HandleFits(o)' /\ BegunFits(o)' /\ Untouched(o)'
      BY <1>0, <1>1, <1>2, <1>4 DEF RecordFits, HandleFits, BegunFits, Untouched, mutating, Expirable
    <2>2. s \in Settled \/ sched[o].stage = "returned"
      BY <1>0, <1>2 DEF States, Settled, Terminal, Expirable
    <2>3. Tells(o, s)' \/ sched[o].stage = "returned"
      BY <1>0, <1>4, <2>2 DEF Tells
    <2>4. sched[o].stage = "returned" => Tells(o, sched[o].ref)'
      BY <1>0, <1>1, <1>4, <1>7, OwnerFacts DEF RecordFits, ToldFits, Tells, Informed
    <2>5. ToldFits(o)'
      BY <1>1, <1>2, <1>6, <2>3, <2>4 DEF RecordFits, ToldFits, Ended
    <2> QED BY <2>1, <2>5 DEF RecordFits
  <1>13. \A p \in Ops : FirstInLine(p)'
    BY <1>1, LineKept DEF Awaited, Queued
  <1>14. UnknownBlocksWorkspace'
    <2>1. CASE s = "unknown" /\ store[o].state # "unknown"
      <3>1. Awaited(o)
        BY <1>0, <1>1, <2>1 DEF PromiseFits, RunningIsAwaited, Ready, Alive
      <3> QED BY <1>1, <1>5, <3>1, NewlyBlocked
    <2>2. CASE ~ (s = "unknown" /\ store[o].state # "unknown")
      BY <1>1, <1>4, <1>5, <2>2, StillBlocked
    <2> QED BY <2>1, <2>2
  <1> QED BY <1>8, <1>9, <1>10, <1>11, <1>12, <1>13, <1>14, Assembled

\* The answer an agent receives is the outcome, or the agent is informed otherwise.
LEMMA ReceiveResultKeeps ==
  ASSUME IInv, NEW o \in Ops, ReceiveResult(o)
  PROVE  IInv'
  <1> USE DEF ReceiveResult
  <1>1. TypeOK /\ DownInv /\ UnknownBlocksWorkspace
        /\ \A p \in Ops : PromiseFits(p) /\ RecordFits(p) /\ FirstInLine(p)
    BY DEF IInv
  <1> DEFINE answer == IF Found(o) THEN memo[o] ELSE sched[o].stage
  <1>2. sched'[o] \in Entries /\ sched'[o].stage = "received" /\ sched[o].stage \in Ended
    <2>1. sched'[o] = [stage |-> "received", ref |-> "none"]
      BY <1>1 DEF TypeOK
    <2> QED BY <2>1 DEF Entries, Stages
  <1>3. \A p \in Ops \ {o} : sched'[p] = sched[p] /\ told'[p] = told[p]
    BY <1>1 DEF TypeOK
  <1>4. told'[o] = told[o] \cup {answer} /\ answer \in States \cup Ended
    BY <1>1, Types DEF TypeOK
  <1>5. TypeOK'
    <2>1. sched' \in [Ops -> Entries]
      BY <1>1, <1>2 DEF TypeOK
    <2>2. told' \in [Ops -> SUBSET (States \cup Ended)]
      BY <1>1, <1>4 DEF TypeOK
    <2> QED BY <1>1, <2>1, <2>2 DEF TypeOK
  <1>6. DownInv'
    BY <1>1 DEF DownInv
  <1>7. \A p \in Ops \ {o} : SameRecord(p) /\ SamePromise(p)
    BY <1>3 DEF SameRecord, SamePromise, Informed, Alive
  <1>8. PromiseFits(o)'
    BY <1>1, <1>2 DEF PromiseFits, QueuedFits, AwaitingFits, RunningIsAwaited, Queued,
                      Awaited, Alive, mutating, InFlight, Ended
  <1>9. RecordFits(o)'
    <2>1. HandleFits(o)' /\ BegunFits(o)' /\ Untouched(o)'
      BY <1>1, <1>2 DEF RecordFits, HandleFits, BegunFits, Untouched, mutating
    <2>2. Informed(o) => Informed(o)'
      BY <1>4 DEF Informed
    <2>3. memo[o] # "none" => Tells(o, memo[o])'
      BY <1>1, <2>2 DEF RecordFits, ToldFits, Tells
    <2>4. ASSUME store[o].state \in Terminal, starts[o] > 0 PROVE Informed(o)'
      <3>1. Found(o) /\ memo[o] # "none" /\ Tells(o, memo[o])
        BY <1>1, <2>4 DEF RecordFits, HandleFits, ToldFits, Found
      <3>2. memo[o] = store[o].state \/ Informed(o)
        BY <2>4, <3>1 DEF Tells
      <3> QED BY <1>4, <2>2, <3>1, <3>2 DEF Informed
    <2>5. ToldFits(o)'
      BY <1>2, <2>3, <2>4 DEF ToldFits, Found
    <2> QED BY <2>1, <2>5 DEF RecordFits
  <1>10. \A p \in Ops : FirstInLine(p)'
    BY <1>1, LineKept DEF Awaited, Queued
  <1>11. UnknownBlocksWorkspace'
    BY <1>1, StillBlocked
  <1> QED BY <1>5, <1>6, <1>7, <1>8, <1>9, <1>10, <1>11, Assembled

\* A reconciliation that is received tells the state the host ruled.
LEMMA ReceiveReconciliationKeeps ==
  ASSUME IInv, NEW o \in Ops, ReceiveReconciliation(o)
  PROVE  IInv'
  <1> USE DEF ReceiveReconciliation
  <1>1. TypeOK /\ DownInv /\ UnknownBlocksWorkspace
        /\ \A p \in Ops : PromiseFits(p) /\ RecordFits(p) /\ FirstInLine(p)
    BY DEF IInv
  <1>2. \A p \in Ops \ {o} : told'[p] = told[p]
    BY <1>1 DEF TypeOK
  <1>3. told'[o] = told[o] \cup {store[o].state}
    BY <1>1 DEF TypeOK
  <1>4. \A p \in Ops : SameRecord(p) /\ SamePromise(p)
    BY <1>2, <1>3 DEF SameRecord, SamePromise, Informed, Alive
  <1>5. TypeOK'
    <2>1. store[o].state \in States
      BY <1>1, Types DEF RecordFits, HandleFits
    <2>2. told' \in [Ops -> SUBSET (States \cup Ended)]
      BY <1>1, <1>3, <2>1 DEF TypeOK
    <2> QED BY <1>1, <2>2 DEF TypeOK
  <1>6. DownInv'
    BY <1>1 DEF DownInv
  <1>7. \A p \in Ops : FirstInLine(p)'
    BY <1>1, LineKept DEF Awaited, Queued
  <1>8. UnknownBlocksWorkspace'
    BY <1>1, StillBlocked
  <1> QED BY <1>4, <1>5, <1>6, <1>7, <1>8, Assembled

----------------------------------------------------------------------------
(* Pauses and tools that act: no record and no promise is concerned *)

\* A pause is a matter of the agent's status alone.
LEMMA PauseKeeps ==
  ASSUME IInv, NEW a \in Agents, Pause(a)
  PROVE  IInv'
  <1> USE DEF Pause
  <1>1. TypeOK /\ DownInv /\ UnknownBlocksWorkspace /\ \A p \in Ops : FirstInLine(p)
    BY DEF IInv
  <1>2. TypeOK'
    BY <1>1, ExecutorAssumption DEF TypeOK
  <1>3. DownInv'
    BY <1>1 DEF DownInv
  <1>4. \A p \in Ops : SameRecord(p) /\ SamePromise(p)
    BY <1>1 DEF SameRecord, SamePromise, Informed, Alive, TypeOK
  <1>5. \A p \in Ops : FirstInLine(p)'
    BY <1>1, LineKept DEF Awaited, Queued
  <1>6. UnknownBlocksWorkspace'
    BY <1>1, StillBlocked
  <1> QED BY <1>2, <1>3, <1>4, <1>5, <1>6, Assembled

\* Stopping aborts signals, and nothing else.
LEMMA StopKeeps ==
  ASSUME IInv, Stop
  PROVE  IInv'
  <1> USE DEF Stop
  <1>1. TypeOK /\ DownInv /\ UnknownBlocksWorkspace /\ \A p \in Ops : FirstInLine(p)
    BY DEF IInv
  <1>2. TypeOK'
    BY <1>1 DEF TypeOK
  <1>3. DownInv'
    BY <1>1 DEF DownInv, Alive
  <1>4. \A p \in Ops : SameRecord(p) /\ SamePromise(p)
    BY DEF SameRecord, SamePromise, Informed, Alive
  <1>5. \A p \in Ops : FirstInLine(p)'
    BY <1>1, LineKept DEF Awaited, Queued
  <1>6. UnknownBlocksWorkspace'
    BY <1>1, StillBlocked
  <1> QED BY <1>2, <1>3, <1>4, <1>5, <1>6, Assembled

\* A tool that changes the workspace has been called, and is still executing.
LEMMA ToolActsKeeps ==
  ASSUME IInv, NEW o \in Ops, ToolActs(o)
  PROVE  IInv'
  <1> USE DEF ToolActs
  <1>1. TypeOK /\ DownInv /\ UnknownBlocksWorkspace /\ \A p \in Ops : FirstInLine(p)
    BY DEF IInv
  <1>2. TypeOK'
    BY <1>1 DEF TypeOK
  <1>3. DownInv'
    BY <1>1 DEF DownInv
  <1>4. \A p \in Ops : SameRecord(p) /\ SamePromise(p)
    BY DEF SameRecord, SamePromise, Informed, Alive
  <1>5. \A p \in Ops : FirstInLine(p)'
    BY <1>1, LineKept DEF Awaited, Queued
  <1>6. UnknownBlocksWorkspace'
    BY <1>1, StillBlocked
  <1> QED BY <1>2, <1>3, <1>4, <1>5, <1>6, Assembled

----------------------------------------------------------------------------
(* Cancellation and dismissal: the waits of all calls of the agent end *)

\* What cancelOperations does to the entry of one call.
LEMMA Cancellation ==
  ASSUME TypeOK, NEW a \in Agents, NEW p \in Ops
  PROVE  /\ Cancelled(a) \in [Ops -> Entries]
         /\ p \notin OpsOf(a) => Cancelled(a)[p] = sched[p]
         /\ p \in OpsOf(a) => Cancelled(a)[p].stage \notin InFlight
         /\ sched[p].stage \notin InFlight => Cancelled(a)[p] = sched[p]
         /\ sched[p].stage \in InFlight =>
              Cancelled(a)[p] = sched[p] \/ Cancelled(a)[p].stage = "cancelled"
  <1>1. \A q \in Ops : /\ sched[q] \in Entries /\ [sched[q] EXCEPT !.stage = "cancelled"] \in Entries
                        /\ [sched[q] EXCEPT !.stage = "cancelled"].stage = "cancelled"
    BY ZenonT(40) DEF TypeOK, Entries, Stages, Ended
  <1>2. Cancelled(a) \in [Ops -> Entries]
    BY <1>1 DEF Cancelled
  <1>3. Cancelled(a)[p] = IF p \in OpsOf(a) /\ sched[p].stage \in InFlight
                            THEN [sched[p] EXCEPT !.stage = "cancelled"] ELSE sched[p]
    BY DEF Cancelled
  <1> QED BY <1>1, <1>2, <1>3 DEF InFlight

\* A cancelled wait leaves no awaited tool without an aborted signal.
LEMMA CancelKeeps ==
  ASSUME IInv, NEW a \in Agents, Cancel(a)
  PROVE  IInv'
  <1> USE DEF Cancel
  <1>1. TypeOK /\ DownInv /\ UnknownBlocksWorkspace
        /\ \A p \in Ops : PromiseFits(p) /\ RecordFits(p) /\ FirstInLine(p)
    BY DEF IInv
  <1>2. Awaiting(a) \subseteq Ops /\ sched' \in [Ops -> Entries]
    BY <1>1, OwnerFacts, Cancellation DEF Awaiting, Cancelled, TypeOK
  <1>3. TypeOK'
    BY <1>1, <1>2, ExecutorAssumption DEF TypeOK
  <1>4. DownInv'
    BY <1>1 DEF DownInv, Ready
  <1>5. ASSUME NEW p \in Ops PROVE PromiseFits(p)' /\ RecordFits(p)'
    <2>1. /\ p \in OpsOf(a) => sched'[p].stage \notin InFlight
          /\ p \notin OpsOf(a) => sched'[p] = sched[p]
          /\ sched[p].stage \notin InFlight => sched'[p] = sched[p]
          /\ sched[p].stage \in InFlight => sched'[p] = sched[p] \/ sched'[p].stage = "cancelled"
      BY <1>1, Cancellation
    <2>2. p \in OpsOf(a) /\ Awaited(p) /\ sched[p].stage \in InFlight => p \in aborted'
      BY DEF Awaiting, InFlightOf, Awaited
    <2>3. status[owner(p)] = "dismissed" => status'[owner(p)] = "dismissed"
      BY <1>1 DEF TypeOK
    <2>4. QueuedFits(p)'
      BY <1>1, <2>1 DEF PromiseFits, QueuedFits, Queued, mutating, InFlight
    <2>5. AwaitingFits(p)'
      BY <1>1, <2>1, <2>2 DEF PromiseFits, AwaitingFits, Awaited, mutating, InFlight
    <2>6. RunningIsAwaited(p)'
      BY <1>1 DEF PromiseFits, RunningIsAwaited, Awaited, Alive
    <2>7. HandleFits(p)' /\ BegunFits(p)' /\ Untouched(p)'
      BY <1>1, <2>1 DEF RecordFits, HandleFits, BegunFits, Untouched, mutating, InFlight
    <2>8. Informed(p) => Informed(p)'
      BY <2>3 DEF Informed
    <2>9. ToldFits(p)'
      BY <1>1, <2>1, <2>8 DEF RecordFits, ToldFits, Tells, InFlight, Ended
    <2> QED BY <2>4, <2>5, <2>6, <2>7, <2>9 DEF PromiseFits, RecordFits
  <1>6. \A p \in Ops : FirstInLine(p)'
    BY <1>1, LineKept DEF Awaited, Queued
  <1>7. UnknownBlocksWorkspace'
    BY <1>1, StillBlocked
  <1> QED BY <1>3, <1>4, <1>5, <1>6, <1>7 DEF IInv

\* What expires of the calls of an agent is what has not begun.
LEMMA Withdrawal ==
  ASSUME TypeOK, NEW a \in Agents, NEW p \in Ops
  PROVE  /\ Withdrawn(a) \in [Ops -> Records \cup {Absent}]
         /\ p \notin OpsOf(a) => Withdrawn(a)[p] = store[p]
         /\ store[p].state \notin {"registered", "approval"} => Withdrawn(a)[p] = store[p]
         /\ store[p].state \in {"registered", "approval"} =>
              \/ Withdrawn(a)[p] = store[p]
              \/ Withdrawn(a)[p].state = "failed" /\ Withdrawn(a)[p].handle = store[p].handle
  <1>1. \A q \in Ops : /\ store[q] \in Records \cup {Absent}
                        /\ [store[q] EXCEPT !.state = "failed"] \in Records \cup {Absent}
                        /\ [store[q] EXCEPT !.state = "failed"].state = "failed"
                        /\ [store[q] EXCEPT !.state = "failed"].handle = store[q].handle
    <2>1. "failed" \in States
      BY DEF States
    <2> QED BY <2>1, PutState DEF TypeOK
  <1>2. Withdrawn(a) \in [Ops -> Records \cup {Absent}]
    BY <1>1 DEF Withdrawn, Expired
  <1>3. Withdrawn(a)[p] = IF p \in OpsOf(a) /\ store[p].state \in {"registered", "approval"}
                            THEN [store[p] EXCEPT !.state = "failed"] ELSE store[p]
    BY DEF Withdrawn, Expired, Expirable
  <1> QED BY <1>1, <1>2, <1>3

\* A dismissal fails what has not begun, and aborts what executes.
LEMMA DismissKeeps ==
  ASSUME IInv, NEW a \in Agents, Dismiss(a)
  PROVE  IInv'
  <1> USE DEF Dismiss
  <1>1. TypeOK /\ DownInv /\ UnknownBlocksWorkspace
        /\ \A p \in Ops : PromiseFits(p) /\ RecordFits(p) /\ FirstInLine(p)
    BY DEF IInv
  <1>2. Awaiting(a) \subseteq Ops /\ sched' \in [Ops -> Entries]
        /\ store' \in [Ops -> Records \cup {Absent}]
    BY <1>1, OwnerFacts, Cancellation, Withdrawal DEF Awaiting, Cancelled, Withdrawn, TypeOK
  <1>3. TypeOK'
    BY <1>1, <1>2, ExecutorAssumption DEF TypeOK
  <1>4. DownInv'
    BY <1>1 DEF DownInv, Ready
  <1>5. ASSUME NEW p \in Ops PROVE PromiseFits(p)' /\ RecordFits(p)'
    <2>1. /\ p \in OpsOf(a) => sched'[p].stage \notin InFlight
          /\ p \notin OpsOf(a) => sched'[p] = sched[p] /\ store'[p] = store[p]
          /\ sched[p].stage \notin InFlight => sched'[p] = sched[p]
          /\ sched[p].stage \in InFlight => sched'[p] = sched[p] \/ sched'[p].stage = "cancelled"
      BY <1>1, Cancellation, Withdrawal
    <2>2. /\ store[p].state \notin {"registered", "approval"} => store'[p] = store[p]
          /\ store[p].state \in {"registered", "approval"} =>
               \/ store'[p] = store[p]
               \/ store'[p].state = "failed" /\ store'[p].handle = store[p].handle
      BY <1>1, Withdrawal
    <2>3. p \in OpsOf(a) /\ Awaited(p) => p \in aborted'
      BY DEF Awaiting, Awaited
    <2>4. Informed(p) => Informed(p)' \/ store'[p] # store[p]
      BY <1>1 DEF Informed, TypeOK
    <2>5. p \in OpsOf(a) => Informed(p)'
      BY <1>1, OwnerFacts DEF Informed, TypeOK
    <2>6. QueuedFits(p)'
      BY <1>1, <2>1, <2>2 DEF PromiseFits, QueuedFits, Queued, mutating, InFlight
    <2>7. AwaitingFits(p)'
      BY <1>1, <2>1, <2>2, <2>3 DEF PromiseFits, AwaitingFits, Awaited, mutating, InFlight
    <2>8. RunningIsAwaited(p)'
      BY <1>1, <2>2 DEF PromiseFits, RunningIsAwaited, Awaited, Alive
    <2>9. HandleFits(p)' /\ BegunFits(p)' /\ Untouched(p)'
      BY <1>1, <2>1, <2>2 DEF RecordFits, HandleFits, BegunFits, Untouched, mutating, InFlight
    <2>10. ToldFits(p)'
      BY <1>1, <2>1, <2>2, <2>4, <2>5
      DEF RecordFits, ToldFits, Tells, InFlight, Ended, Settled, Terminal
    <2> QED BY <2>6, <2>7, <2>8, <2>9, <2>10 DEF PromiseFits, RecordFits
  <1>6. \A p \in Ops : FirstInLine(p)'
    BY <1>1, LineKept DEF Awaited, Queued
  <1>7. UnknownBlocksWorkspace'
    <2>1. \A p \in Ops : store'[p].state = "unknown" => store[p].state = "unknown"
      BY <1>1, Withdrawal
    <2> QED BY <1>1, <2>1, StillBlocked
  <1> QED BY <1>3, <1>4, <1>5, <1>6, <1>7 DEF IInv

----------------------------------------------------------------------------
(* Promises: a call's turn, and the end of the wait for its tool *)

\* The promise of o ends with the record c: what is put, delivered and left.
LEMMA Settlement ==
  ASSUME TypeOK, NEW o \in Ops, NEW c \in Records, Settle(o, c)
  PROVE  /\ store' \in [Ops -> Records \cup {Absent}] /\ sched' \in [Ops -> Entries]
         /\ task' \in [Ops -> [pc : {"idle", "queued", "awaiting"}, copy : Records \cup {Absent}]]
         /\ aborted' \subseteq Ops
         /\ store'[o] = c /\ task'[o].pc = "idle" /\ sched'[o] = Delivered(sched[o], c)
         /\ \A p \in Ops \ {o} : /\ store'[p] = store[p] /\ sched'[p] = sched[p]
                                 /\ task'[p] = task[p] /\ (p \in aborted => p \in aborted')
  <1> USE DEF Settle
  <1>1. Delivered(sched[o], c) \in Entries
    BY Types, Delivery
  <1>2. NoTask \in [pc : {"idle", "queued", "awaiting"}, copy : Records \cup {Absent}]
        /\ NoTask.pc = "idle"
    BY DEF NoTask
  <1>3. /\ store' \in [Ops -> Records \cup {Absent}] /\ sched' \in [Ops -> Entries]
        /\ task' \in [Ops -> [pc : {"idle", "queued", "awaiting"}, copy : Records \cup {Absent}]]
        /\ aborted' \subseteq Ops
    BY <1>1, <1>2 DEF TypeOK
  <1>4. store'[o] = c /\ task'[o] = NoTask /\ sched'[o] = Delivered(sched[o], c)
    BY DEF TypeOK
  <1>5. \A p \in Ops \ {o} : /\ store'[p] = store[p] /\ sched'[p] = sched[p]
                             /\ task'[p] = task[p] /\ (p \in aborted => p \in aborted')
    BY DEF TypeOK
  <1> QED BY <1>2, <1>3, <1>4, <1>5

\* A call that has not begun ends as failed, if its wait goes on or not.
LEMMA QueuedFails ==
  ASSUME IInv, NEW o \in Ops, Queued(o), NEW c \in Records, c.state = "failed",
         c.handle = task[o].copy.handle, Settle(o, c), tails' = Unlined(o, body),
         UNCHANGED <<reconc, approved, status, memo, told, open, body, procVars, histVars,
                     boundVars>>
  PROVE  IInv'
  <1>1. TypeOK /\ DownInv /\ UnknownBlocksWorkspace
        /\ \A p \in Ops : PromiseFits(p) /\ RecordFits(p) /\ FirstInLine(p)
    BY DEF IInv
  <1>2. /\ store'[o] = c /\ task'[o].pc = "idle" /\ sched'[o] = Delivered(sched[o], c)
        /\ \A p \in Ops \ {o} : /\ store'[p] = store[p] /\ sched'[p] = sched[p]
                                /\ task'[p] = task[p] /\ (p \in aborted => p \in aborted')
    BY <1>1, Settlement
  <1>3. \A p \in Ops : FirstInLine(p)' /\ tails' \in [Workspaces -> Seq(Ops)]
    <2>1. mutating(o) => o \notin body
      BY <1>1 DEF PromiseFits, RecordFits, QueuedFits, BegunFits
    <2>2. ~ Queued(o)' /\ ~ Awaited(o)'
      BY <1>2 DEF Queued, Awaited
    <2>3. \A p \in Ops : /\ Awaited(p)' \/ p \in body' => Awaited(p) \/ p \in body
                         /\ Queued(p)' => Queued(p)
      BY <1>2 DEF Queued, Awaited
    <2> QED BY <1>1, <2>1, <2>2, <2>3, LineLeaves
  <1>4. TypeOK'
    BY <1>1, <1>3, Settlement DEF TypeOK
  <1>5. DownInv'
    BY <1>1, <1>2 DEF DownInv, Queued, NoTask
  <1>6. \A p \in Ops \ {o} : SameRecord(p) /\ SamePromise(p)
    BY <1>2 DEF SameRecord, SamePromise, Informed, Alive
  <1>7. PromiseFits(o)'
    BY <1>2, NoPromise
  <1>8. RecordFits(o)'
    <2>1. /\ sched[o].stage = "returned" \/ memo[o] # "none" => sched'[o] = sched[o]
          /\ sched[o].stage = "received" => sched'[o] = sched[o]
          /\ sched'[o] = sched[o] \/ (sched'[o].stage = "returned" /\ sched'[o].ref = "failed")
               \/ sched'[o].stage = "timed_out"
      BY <1>1, <1>2, Types, Delivery DEF RecordFits, ToldFits, InFlight, Ended
    <2>2. /\ store[o].state \in {"registered", "failed"} /\ (mutating(o) => starts[o] = 0)
          /\ starts[o] > 0 => c.handle
          /\ c.handle => store[o].handle
      BY <1>1 DEF PromiseFits, QueuedFits
    <2>3. HandleFits(o)' /\ BegunFits(o)' /\ Untouched(o)'
      BY <1>1, <1>2, <2>1, <2>2, Types
      DEF RecordFits, HandleFits, BegunFits, Untouched, mutating
    <2>4. ToldFits(o)'
      BY <1>1, <1>2, <2>1, <2>2
      DEF RecordFits, HandleFits, ToldFits, Tells, Informed, Settled, Terminal, Ended
    <2> QED BY <2>3, <2>4 DEF RecordFits
  <1>9. UnknownBlocksWorkspace'
    <2>1. \A p \in Ops : store'[p].state = "unknown" => store[p].state = "unknown"
      BY <1>2
    <2> QED BY <1>1, <2>1, StillBlocked
  <1> QED BY <1>3, <1>4, <1>5, <1>6, <1>7, <1>8, <1>9, Assembled

\* A call whose wait is over when its turn comes fails.
LEMMA ExecuteExpiredKeeps ==
  ASSUME IInv, NEW o \in Ops, ExecuteExpired(o)
  PROVE  IInv'
  <1>1. TypeOK /\ Queued(o) /\ PromiseFits(o)
    BY DEF IInv, ExecuteExpired, Turn, Queued
  <1>2. Expirable(task[o].copy) /\ task[o].copy \in Records \cup {Absent}
    BY <1>1, Types DEF PromiseFits, QueuedFits, Expirable
  <1>3. /\ Expired(task[o].copy) \in Records /\ Expired(task[o].copy).state = "failed"
        /\ Expired(task[o].copy).handle = task[o].copy.handle
    <2>1. "failed" \in States
      BY DEF States
    <2> QED BY <1>2, <2>1, PutState DEF Expired
  <1>4. Settle(o, Expired(task[o].copy))
    BY <1>2 DEF ExecuteExpired
  <1> QED BY <1>1, <1>3, <1>4, QueuedFails DEF ExecuteExpired

\* A call that may not execute when its turn comes fails.
LEMMA ExecuteRefusedKeeps ==
  ASSUME IInv, NEW o \in Ops, ExecuteRefused(o)
  PROVE  IInv'
  <1>1. TypeOK /\ Queued(o) /\ task[o].copy \in Records \cup {Absent} /\ "failed" \in States
    BY Types DEF IInv, ExecuteRefused, MayExecute, Turn, Queued, States
  <1> DEFINE c == [task[o].copy EXCEPT !.state = "failed"]
  <1>2. c \in Records /\ c.state = "failed" /\ c.handle = task[o].copy.handle
    BY <1>1, PutState
  <1>3. Settle(o, c)
    BY DEF ExecuteRefused
  <1> HIDE DEF c
  <1> QED BY <1>1, <1>2, <1>3, QueuedFails DEF ExecuteRefused

\* A call whose agent is paused when its turn comes stays registered.
LEMMA ExecutePausedKeeps ==
  ASSUME IInv, NEW o \in Ops, ExecutePaused(o)
  PROVE  IInv'
  <1> USE DEF ExecutePaused
  <1>1. TypeOK /\ DownInv /\ UnknownBlocksWorkspace
        /\ \A p \in Ops : PromiseFits(p) /\ RecordFits(p) /\ FirstInLine(p)
    BY DEF IInv
  <1>2. task'[o] = NoTask /\ NoTask.pc = "idle"
        /\ NoTask \in [pc : {"idle", "queued", "awaiting"}, copy : Records \cup {Absent}]
        /\ \A p \in Ops \ {o} : task'[p] = task[p]
    BY <1>1 DEF TypeOK, NoTask
  <1>3. Queued(o)
    BY DEF Turn, Queued
  <1>4. \A p \in Ops : FirstInLine(p)' /\ tails' \in [Workspaces -> Seq(Ops)]
    <2>1. mutating(o) => o \notin body
      BY <1>1, <1>3 DEF PromiseFits, RecordFits, QueuedFits, BegunFits
    <2>2. ~ Queued(o)' /\ ~ Awaited(o)'
      BY <1>2 DEF Queued, Awaited
    <2>3. \A p \in Ops : /\ Awaited(p)' \/ p \in body' => Awaited(p) \/ p \in body
                         /\ Queued(p)' => Queued(p)
      BY <1>2 DEF Queued, Awaited
    <2> QED BY <1>1, <2>1, <2>2, <2>3, LineLeaves
  <1>5. TypeOK'
    <2>1. task' \in [Ops -> [pc : {"idle", "queued", "awaiting"}, copy : Records \cup {Absent}]]
      BY <1>1, <1>2 DEF TypeOK
    <2> QED BY <1>1, <1>4, <2>1 DEF TypeOK
  <1>6. DownInv'
    BY <1>1, <1>2 DEF DownInv, Turn, Alive
  <1>7. \A p \in Ops : SameRecord(p)
    BY DEF SameRecord, Informed
  <1>8. \A p \in Ops \ {o} : SamePromise(p)
    BY <1>2 DEF SamePromise, Alive
  <1>9. PromiseFits(o)'
    <2>1. store'[o].state # "running"
      BY <1>1, <1>3 DEF PromiseFits, QueuedFits
    <2> QED BY <1>2, <2>1, NoPromise
  <1>10. RecordFits(o)'
    BY <1>1, <1>7, RecordKept
  <1>11. UnknownBlocksWorkspace'
    BY <1>1, StillBlocked
  <1> QED BY <1>4, <1>5, <1>6, <1>7, <1>8, <1>9, <1>10, <1>11, Assembled

\* A call that begins stands first in its workspace, where nothing is unknown.
LEMMA ExecuteStartKeeps ==
  ASSUME IInv, NEW o \in Ops, ExecuteStart(o)
  PROVE  IInv'
  <1> USE DEF ExecuteStart
  <1>1. TypeOK /\ DownInv /\ UnknownBlocksWorkspace
        /\ \A p \in Ops : PromiseFits(p) /\ RecordFits(p) /\ FirstInLine(p)
    BY DEF IInv
  <1>2. Queued(o) /\ Alive /\ ~Refused(o) /\ (mutating(o) => Head(tails[place(o)]) = o)
    BY DEF MayExecute, Turn, Queued
  <1>3. task[o].copy.handle /\ sched[o].stage = "pending"
    BY DEF MayExecute, Pending
  <1>c. PICK c : c = [task[o].copy EXCEPT !.state = "running"]
    OBVIOUS
  <1>4. c \in Records /\ c.state = "running" /\ c.handle
    <2>1. "running" \in States /\ task[o].copy \in Records \cup {Absent}
      BY <1>1, Types DEF States
    <2> QED BY <1>c, <1>3, <2>1, PutState
  <1>t. PICK t : t = [pc |-> "awaiting", copy |-> c]
    OBVIOUS
  <1>5. /\ t.pc = "awaiting" /\ t.copy = c
        /\ t \in [pc : {"idle", "queued", "awaiting"}, copy : Records \cup {Absent}]
    BY <1>t, <1>4
  <1>6. store' = [store EXCEPT ![o] = c] /\ task' = [task EXCEPT ![o] = t]
    BY <1>c, <1>t
  <1>7. store'[o] = c /\ task'[o] = t /\ starts'[o] = starts[o] + 1
        /\ \A p \in Ops \ {o} : /\ store'[p] = store[p] /\ task'[p] = task[p]
                                /\ starts'[p] = starts[p]
    BY <1>1, <1>6 DEF TypeOK
  <1>8. TypeOK'
    <2>1. store' \in [Ops -> Records \cup {Absent}]
      BY <1>1, <1>4, <1>6, ZenonT(40) DEF TypeOK
    <2>2. task' \in [Ops -> [pc : {"idle", "queued", "awaiting"}, copy : Records \cup {Absent}]]
      BY <1>1, <1>5, <1>6, ZenonT(40) DEF TypeOK
    <2>3. starts' \in [Ops -> Nat] /\ body' \subseteq Ops
      BY <1>1 DEF TypeOK
    <2> QED BY <1>1, <2>1, <2>2, <2>3 DEF TypeOK
  <1>9. DownInv'
    BY <1>1, <1>2, <1>7 DEF DownInv, Alive, Queued
  <1>10. \A p \in Ops \ {o} : SameRecord(p) /\ SamePromise(p)
    BY <1>7 DEF SameRecord, SamePromise, Informed, Alive
  <1>11. PromiseFits(o)'
    BY <1>3, <1>4, <1>5, <1>7 DEF PromiseFits, QueuedFits, AwaitingFits, RunningIsAwaited, Queued,
                            Awaited, InFlight
  <1>12. RecordFits(o)'
    <2>1. (mutating(o) => starts[o] = 0) /\ starts[o] \in Nat
      BY <1>1, <1>2, Types DEF PromiseFits, QueuedFits
    <2>2. HandleFits(o)' /\ BegunFits(o)' /\ Untouched(o)'
      BY <1>3, <1>4, <1>7, <2>1 DEF HandleFits, BegunFits, Untouched, mutating
    <2>3. ToldFits(o)'
      BY <1>1, <1>3 DEF RecordFits, ToldFits, Ended
    <2> QED BY <2>2, <2>3 DEF RecordFits
  <1>13. ASSUME NEW p \in Ops PROVE FirstInLine(p)'
    <2>1. CASE p = o
      <3>1. mutating(o) => o \in ToSet(tails[place(o)]) /\ tails[place(o)] \in Seq(Ops)
        BY <1>1, <1>2, Types DEF FirstInLine
      <3>2. mutating(o) => tails[place(o)] # <<>>
        BY <3>1 DEF ToSet
      <3> QED BY <1>2, <1>5, <1>7, <2>1, <3>2 DEF FirstInLine, Queued, mutating, place
    <2>2. CASE p # o
      BY <1>1, <1>7, <2>2, LineKept DEF Awaited, Queued
    <2> QED BY <2>1, <2>2
  <1>14. UnknownBlocksWorkspace'
    <2>1. \A p \in Ops : store'[p].state = "unknown" => store[p].state = "unknown"
      BY <1>4, <1>7
    <2>2. mutating(o) => \A p \in Ops : mutating(p) /\ place(p) = place(o) =>
                                          store[p].state # "unknown"
      BY <1>2 DEF Refused, UnknownMutation
    <2> QED BY <1>1, <2>1, <2>2 DEF UnknownBlocksWorkspace, mutating, place
  <1> QED BY <1>8, <1>9, <1>10, <1>11, <1>12, <1>13, <1>14, Assembled

\* The end of the wait for a tool.
LEMMA AwaitedConcludes ==
  ASSUME IInv, NEW o \in Ops, Awaited(o), NEW how \in Endings,
         IF o \in aborted THEN how = "aborted" ELSE how # "aborted",
         how = "precondition" => o \notin touched \cup body', body' \subseteq body,
         Conclude(o, how, body'),
         \A p \in Ops \ {o} : p \in body => p \in body',
         UNCHANGED <<reconc, approved, memo, told, open, procVars, histVars, boundVars>>
  PROVE  IInv'
  <1>1. TypeOK /\ DownInv /\ UnknownBlocksWorkspace
        /\ \A p \in Ops : PromiseFits(p) /\ RecordFits(p) /\ FirstInLine(p)
    BY DEF IInv
  <1>s. PICK s : s = Concluded(o, how)
    OBVIOUS
  <1>c. PICK c : c = [task[o].copy EXCEPT !.state = s]
    OBVIOUS
  <1>2. s \in {"succeeded", "failed", "unknown"}
    BY <1>s DEF Concluded
  <1>3. mutating(o) /\ s = "failed" => o \notin touched \cup body'
    BY <1>s DEF Concluded
  <1>4. store[o].state \in {"running", s} /\ store[o].handle /\ sched[o].stage # "none"
    BY <1>1, <1>s DEF PromiseFits, AwaitingFits, RecordFits, HandleFits, Concluded
  <1>5. c \in Records /\ c.state = s /\ c.handle
    <2>1. s \in States /\ task[o].copy \in Records \cup {Absent} /\ task[o].copy.handle
      BY <1>1, <1>2, Types DEF States, PromiseFits, AwaitingFits
    <2> QED BY <1>c, <2>1, PutState
  <1>6. Settle(o, c) /\ tails' = Unlined(o, body')
        /\ status' = IF s = "unknown" THEN Paused(owner(o)) ELSE status
    BY <1>s, <1>c, <1>5 DEF Conclude
  <1>7. /\ store'[o] = c /\ task'[o].pc = "idle" /\ sched'[o] = Delivered(sched[o], c)
        /\ \A p \in Ops \ {o} : /\ store'[p] = store[p] /\ sched'[p] = sched[p]
                                /\ task'[p] = task[p] /\ (p \in aborted => p \in aborted')
    BY <1>1, <1>5, <1>6, Settlement
  <1>8. status' \in [Agents -> {"active", "paused", "cancelled", "dismissed"}]
        /\ \A a \in Agents : status[a] = "dismissed" => status'[a] = "dismissed"
    BY <1>1, <1>6, OwnerFacts DEF TypeOK, Paused
  <1>9. \A p \in Ops : FirstInLine(p)' /\ tails' \in [Workspaces -> Seq(Ops)]
    <2>1. ~ Queued(o)' /\ ~ Awaited(o)'
      BY <1>7 DEF Queued, Awaited
    <2>2. \A p \in Ops : /\ Awaited(p)' \/ p \in body' => Awaited(p) \/ p \in body
                         /\ Queued(p)' => Queued(p)
      BY <1>7 DEF Queued, Awaited
    <2>3. PICK B : B = body'
      OBVIOUS
    <2> QED BY <1>1, <1>6, <2>1, <2>2, <2>3, LineLeaves
  <1>10. TypeOK'
    <2>1. body' \subseteq Ops
      BY <1>1 DEF TypeOK
    <2> QED BY <1>1, <1>5, <1>6, <1>8, <1>9, <2>1, Settlement DEF TypeOK
  <1>11. DownInv'
    BY <1>1, <1>7 DEF DownInv, Awaited, NoTask
  <1>12. \A p \in Ops \ {o} : SameRecord(p) /\ SamePromise(p)
    BY <1>7, <1>8, OwnerFacts DEF SameRecord, SamePromise, Informed, Alive
  <1>13. PromiseFits(o)'
    BY <1>2, <1>5, <1>7, NoPromise
  <1>14. RecordFits(o)'
    <2>1. /\ sched[o].stage \notin InFlight => sched'[o] = sched[o]
          /\ sched'[o] = sched[o] \/ (sched'[o].stage = "returned" /\ sched'[o].ref = s)
               \/ (sched'[o].stage = "timed_out" /\ sched[o].stage = "overdue")
      BY <1>1, <1>5, <1>7, Types, Delivery DEF InFlight
    <2>2. HandleFits(o)' /\ BegunFits(o)' /\ Untouched(o)'
      BY <1>1, <1>2, <1>3, <1>4, <1>5, <1>7, <2>1
      DEF RecordFits, HandleFits, BegunFits, Untouched, mutating
    <2>3. Informed(o) => Informed(o)' \/ store[o].state # s
      BY <1>5, <1>7, <1>8, OwnerFacts DEF Informed
    <2>4. sched[o].stage = "returned" \/ memo[o] # "none" \/ sched[o].stage = "received" =>
            store[o].state = s
      BY <1>1, <1>4 DEF RecordFits, ToldFits, Tells, Settled, Terminal
    <2>5. ToldFits(o)'
      BY <1>1, <1>2, <1>4, <1>5, <1>7, <2>1, <2>3, <2>4
      DEF RecordFits, ToldFits, Tells, Settled, Terminal, Ended
    <2> QED BY <2>2, <2>5 DEF RecordFits
  <1>15. UnknownBlocksWorkspace'
    BY <1>1, <1>7, NewlyBlocked
  <1> QED BY <1>9, <1>10, <1>11, <1>12, <1>13, <1>14, <1>15, Assembled

\* An aborted wait concludes what the tool's late ending can no longer change.
LEMMA AbortSeenKeeps ==
  ASSUME IInv, NEW o \in Ops, AbortSeen(o)
  PROVE  IInv'
  <1>1. Awaited(o) /\ "aborted" \in Endings
    BY DEF AbortSeen, Awaited, Endings
  <1> QED BY <1>1, AwaitedConcludes DEF AbortSeen

\* The end of a tool concludes the call, or only frees the workspace.
LEMMA ToolEndsKeeps ==
  ASSUME IInv, NEW o \in Ops, NEW how \in Endings, ToolEnds(o, how)
  PROVE  IInv'
  <1> USE DEF ToolEnds
  <1>1. CASE task[o].pc = "awaiting" /\ o \notin aborted
    BY <1>1, AwaitedConcludes DEF Awaited
  <1>2. CASE ~ (task[o].pc = "awaiting" /\ o \notin aborted)
    <2>1. TypeOK /\ DownInv /\ UnknownBlocksWorkspace /\ \A p \in Ops : FirstInLine(p)
      BY DEF IInv
    <2>2. \A p \in Ops : SameRecord(p) /\ SamePromise(p)
      BY <1>2 DEF SameRecord, SamePromise, Informed, Alive
    <2>3. /\ UNCHANGED <<store, sched, task, aborted, status>>
          /\ body' \subseteq body
      BY <1>2
    <2>4. \A p \in Ops : FirstInLine(p)' /\ tails' \in [Workspaces -> Seq(Ops)]
      <3>1. CASE task[o].pc = "awaiting"
        <4>1. tails' = tails
          BY <1>2, <3>1
        <4> QED BY <2>1, <2>3, <4>1, LineKept DEF Awaited, Queued, TypeOK
      <3>2. CASE task[o].pc # "awaiting"
        <4>1. PICK B : B = body'
          OBVIOUS
        <4>2. tails' = Unlined(o, B) /\ ~ Awaited(o)'
          BY <1>2, <2>3, <3>2, <4>1 DEF Awaited
        <4>3. mutating(o) => ~ Queued(o)'
          BY <2>3 DEF IInv, PromiseFits, QueuedFits, RecordFits, BegunFits, Queued
        <4> QED BY <2>1, <2>3, <4>1, <4>2, <4>3, LineLeaves DEF Awaited, Queued
      <3> QED BY <3>1, <3>2
    <2>5. TypeOK'
      BY <2>1, <2>3, <2>4 DEF TypeOK
    <2>6. DownInv'
      BY <2>1, <2>3 DEF DownInv
    <2>7. UnknownBlocksWorkspace'
      BY <2>1, <2>3, StillBlocked
    <2> QED BY <2>2, <2>4, <2>5, <2>6, <2>7, Assembled
  <1> QED BY <1>1, <1>2

----------------------------------------------------------------------------
(* Launches *)

\* What launch does to the promises.
LEMMA Launching ==
  ASSUME TypeOK, NEW L, NEW c \in [Ops -> Records \cup {Absent}], task' = Launched(L, c)
  PROVE  /\ task' \in [Ops -> [pc : {"idle", "queued", "awaiting"}, copy : Records \cup {Absent}]]
         /\ \A p \in Ops : IF p \in Launchable(L)
                             THEN task'[p].pc = "queued" /\ task'[p].copy = c[p]
                             ELSE task'[p] = task[p]
         /\ \A p \in Launchable(L) : task[p].pc = "idle"
  <1>1. \A p \in Ops : task'[p] = IF p \in Launchable(L) THEN [pc |-> "queued", copy |-> c[p]]
                                  ELSE task[p]
    BY DEF Launched
  <1>2. \A p \in Ops : /\ [pc |-> "queued", copy |-> c[p]].pc = "queued"
                       /\ [pc |-> "queued", copy |-> c[p]].copy = c[p]
                       /\ [pc |-> "queued", copy |-> c[p]]
                            \in [pc : {"idle", "queued", "awaiting"}, copy : Records \cup {Absent}]
    OBVIOUS
  <1>3. task' \in [Ops -> [pc : {"idle", "queued", "awaiting"}, copy : Records \cup {Absent}]]
    BY <1>2 DEF Launched, TypeOK
  <1> QED BY <1>1, <1>2, <1>3 DEF Launchable

\* A registered call may be launched with its record.
LEMMA LaunchFits ==
  ASSUME NEW p \in Ops, RecordFits(p), store[p].state = "registered", store'[p] = store[p],
         task'[p].pc = "queued", task'[p].copy = store[p], starts'[p] = starts[p]
  PROVE  PromiseFits(p)'
  BY DEF RecordFits, HandleFits, BegunFits, PromiseFits, QueuedFits, AwaitingFits,
         RunningIsAwaited, Queued, Awaited, mutating

\* A resumed agent launches what is registered, and nothing that has a promise.
LEMMA ResumeKeeps ==
  ASSUME IInv, NEW a \in Agents, Resume(a)
  PROVE  IInv'
  <1> DEFINE L == {o \in OpsOf(a) : store[o].state = "registered"}
  <1> USE DEF Resume
  <1>1. TypeOK /\ DownInv /\ UnknownBlocksWorkspace
        /\ \A p \in Ops : PromiseFits(p) /\ RecordFits(p) /\ FirstInLine(p)
    BY DEF IInv
  <1>2. store \in [Ops -> Records \cup {Absent}] /\ task' = Launched(L, store) /\ Line(a, L)
        /\ L \in SUBSET OpsOf(a)
    BY <1>1 DEF TypeOK
  <1> HIDE DEF L
  <1>3. /\ task' \in [Ops -> [pc : {"idle", "queued", "awaiting"}, copy : Records \cup {Absent}]]
        /\ \A p \in Ops : IF p \in Launchable(L)
                            THEN task'[p].pc = "queued" /\ task'[p].copy = store[p]
                            ELSE task'[p] = task[p]
    BY <1>1, <1>2, Launching
  <1>4. tails' \in [Workspaces -> Seq(Ops)] /\ \A p \in Ops : FirstInLine(p)'
    BY <1>1, <1>2, LineGrows
  <1>5. TypeOK'
    BY <1>1, <1>3, <1>4 DEF TypeOK
  <1>6. DownInv'
    BY <1>1 DEF DownInv, Ready
  <1>7. \A p \in Ops : SameRecord(p)
    BY <1>1, OwnerFacts DEF SameRecord, Informed, Resumable, TypeOK
  <1>8. ASSUME NEW p \in Ops
        PROVE  \/ SameRecord(p) /\ SamePromise(p)
               \/ PromiseFits(p)' /\ RecordFits(p)'
    <2>1. CASE p \in Launchable(L)
      <3>1. store[p].state = "registered"
        BY <2>1 DEF Launchable, L
      <3> QED BY <1>1, <1>3, <1>7, <2>1, <3>1, LaunchFits, RecordKept
    <2>2. CASE p \notin Launchable(L)
      BY <1>3, <1>7, <2>2 DEF SamePromise, Alive
    <2> QED BY <2>1, <2>2
  <1>9. UnknownBlocksWorkspace'
    BY <1>1, StillBlocked
  <1> QED BY <1>4, <1>5, <1>6, <1>8, <1>9, Assembled

\* A recovered agent has no promises left: its registered calls are launched anew,
\* and its outcomes delivered again.
LEMMA RecoverKeeps ==
  ASSUME IInv, NEW a \in Agents, Recover(a)
  PROVE  IInv'
  <1> DEFINE L == Relaunched(a)
             D == {o \in OpsOf(a) : store[o].state \in Terminal \cup {"unknown"}}
  <1> USE DEF Recover, Recovering
  <1>1. TypeOK /\ DownInv /\ UnknownBlocksWorkspace
        /\ \A p \in Ops : PromiseFits(p) /\ RecordFits(p) /\ FirstInLine(p)
    BY DEF IInv
  <1>2. store \in [Ops -> Records \cup {Absent}] /\ task' = Launched(L, store) /\ Line(a, L)
        /\ L \in SUBSET OpsOf(a)
    BY <1>1 DEF TypeOK, Relaunched
  <1>d. sched' = [o \in Ops |-> IF o \in D THEN Delivered(sched[o], store[o]) ELSE sched[o]]
    OBVIOUS
  <1>l. \A p \in L : p \in OpsOf(a) /\ store[p].state = "registered"
    BY DEF Relaunched
  <1>e. \A p \in D : p \in OpsOf(a) /\ store[p].state \in Settled
    BY DEF Settled
  <1>n. \A p \in OpsOf(a) : task[p].pc = "idle"
    BY <1>1, OwnerFacts DEF DownInv
  <1> HIDE DEF L, D
  <1>3. /\ task' \in [Ops -> [pc : {"idle", "queued", "awaiting"}, copy : Records \cup {Absent}]]
        /\ \A p \in Ops : IF p \in Launchable(L)
                            THEN task'[p].pc = "queued" /\ task'[p].copy = store[p]
                            ELSE task'[p] = task[p]
    BY <1>1, <1>2, Launching
  <1>4. tails' \in [Workspaces -> Seq(Ops)] /\ \A p \in Ops : FirstInLine(p)'
    BY <1>1, <1>2, LineGrows
  <1>5. sched' \in [Ops -> Entries]
    <2>1. \A p \in Ops : sched[p] \in Entries /\ Delivered(sched[p], store[p]) \in Entries
      BY <1>1, Types, Delivery
    <2> QED BY <1>d, <2>1
  <1>6. status' \in [Agents -> {"active", "paused", "cancelled", "dismissed"}]
        /\ \A b \in Agents : status[b] = "dismissed" => status'[b] = "dismissed"
    BY <1>1, OwnerFacts DEF TypeOK, Paused
  <1>7. TypeOK'
    BY <1>1, <1>3, <1>4, <1>5, <1>6 DEF TypeOK
  <1>8. DownInv'
    <2>1. phase' # "down" /\ \A p \in Ops : owner(p) \notin recovered' => p \notin Launchable(L)
      BY <1>2, OwnerFacts DEF Launchable
    <2>2. \A p \in Ops : owner(p) \notin recovered' => task[p].pc = "idle"
      BY <1>1 DEF DownInv
    <2>3. \A p \in Ops : owner(p) \notin recovered' => task'[p].pc = "idle"
      BY <1>3, <2>1, <2>2
    <2> QED BY <2>1, <2>3 DEF DownInv
  <1>9. ASSUME NEW p \in Ops
        PROVE  PromiseFits(p)' /\ RecordFits(p)'
    <2>1. p \notin D => SameRecord(p)
      BY <1>d, <1>6, OwnerFacts DEF SameRecord, Informed
    <2>2. p \notin Launchable(L) => SamePromise(p)
      BY <1>3 DEF SamePromise, Alive
    <2>3. CASE p \in D
      <3>1. task'[p].pc = "idle" /\ store'[p].state # "running"
        BY <1>3, <1>e, <1>l, <1>n, <2>3 DEF Launchable, Settled, Terminal
      <3>2. PromiseFits(p)'
        BY <3>1, NoPromise
      <3>3. sched'[p] = Delivered(sched[p], store[p])
        BY <1>d, <2>3
      <3>4. /\ sched[p].stage \notin InFlight => sched'[p] = sched[p]
            /\ sched'[p] = sched[p] \/ (sched'[p].stage = "returned" /\ sched'[p].ref = store[p].state)
                 \/ (sched'[p].stage = "timed_out" /\ sched[p].stage = "overdue")
        BY <1>1, <3>3, Types, Delivery DEF InFlight
      <3>5. HandleFits(p)' /\ BegunFits(p)' /\ Untouched(p)'
        BY <1>1, <3>4 DEF RecordFits, HandleFits, BegunFits, Untouched, mutating
      <3>6. Informed(p) => Informed(p)'
        BY <1>6, OwnerFacts DEF Informed
      <3>7. ToldFits(p)'
        BY <1>1, <1>e, <2>3, <3>4, <3>6 DEF RecordFits, ToldFits, Tells, InFlight, Ended
      <3> QED BY <3>2, <3>5, <3>7 DEF RecordFits
    <2>4. CASE p \in Launchable(L)
      <3>1. store[p].state = "registered" /\ p \notin D
        BY <1>e, <1>l, <2>4 DEF Launchable, Settled, Terminal
      <3> QED BY <1>1, <1>3, <2>1, <2>4, <3>1, LaunchFits, RecordKept
    <2>5. CASE p \notin D /\ p \notin Launchable(L)
      BY <1>1, <2>1, <2>2, <2>5, PromiseKept, RecordKept
    <2> QED BY <2>3, <2>4, <2>5
  <1>10. UnknownBlocksWorkspace'
    BY <1>1, StillBlocked
  <1> QED BY <1>4, <1>7, <1>8, <1>9, <1>10 DEF IInv

\* A dismissed agent that is recovered hears nothing more.
LEMMA RecoverDismissedKeeps ==
  ASSUME IInv, NEW a \in Agents, RecoverDismissed(a)
  PROVE  IInv'
  <1> USE DEF RecoverDismissed, Recovering
  <1>1. TypeOK /\ DownInv /\ UnknownBlocksWorkspace
        /\ \A p \in Ops : PromiseFits(p) /\ RecordFits(p) /\ FirstInLine(p)
    BY DEF IInv
  <1>n. \A p \in OpsOf(a) : task[p].pc = "idle" /\ owner(p) = a
    BY <1>1, OwnerFacts DEF DownInv
  <1>2. sched' \in [Ops -> Entries] /\ store' \in [Ops -> Records \cup {Absent}]
    BY <1>1, Cancellation, Withdrawal DEF Cancelled, Withdrawn
  <1>3. TypeOK'
    BY <1>1, <1>2 DEF TypeOK
  <1>4. DownInv'
    BY <1>1 DEF DownInv
  <1>5. ASSUME NEW p \in Ops PROVE PromiseFits(p)' /\ RecordFits(p)'
    <2>1. CASE p \notin OpsOf(a)
      <3>1. sched'[p] = sched[p] /\ store'[p] = store[p]
        BY <1>1, <2>1, Cancellation, Withdrawal
      <3>2. SameRecord(p) /\ SamePromise(p)
        BY <2>1, <3>1 DEF SameRecord, SamePromise, Informed, Alive
      <3> QED BY <1>1, <3>2, PromiseKept, RecordKept
    <2>2. CASE p \in OpsOf(a)
      <3>1. /\ sched'[p].stage \notin InFlight
            /\ sched[p].stage \notin InFlight => sched'[p] = sched[p]
            /\ sched[p].stage \in InFlight => sched'[p].stage = "cancelled" \/ sched'[p] = sched[p]
        BY <1>1, <2>2, Cancellation
      <3>2. /\ store[p].state \notin {"registered", "approval"} => store'[p] = store[p]
            /\ store[p].state \in {"registered", "approval"} =>
                 \/ store'[p] = store[p]
                 \/ store'[p].state = "failed" /\ store'[p].handle = store[p].handle
        BY <1>1, Withdrawal
      <3>3. task'[p].pc = "idle" /\ store[p].state # "running" /\ store'[p].state # "running"
        BY <1>1, <1>n, <2>2, <3>2 DEF PromiseFits, RunningIsAwaited, Alive, Awaited
      <3>4. PromiseFits(p)'
        BY <3>3, NoPromise
      <3>5. HandleFits(p)' /\ BegunFits(p)' /\ Untouched(p)'
        BY <1>1, <3>1, <3>2 DEF RecordFits, HandleFits, BegunFits, Untouched, mutating, InFlight
      <3>6. Informed(p)'
        BY <1>n, <2>2 DEF Informed
      <3>7. ToldFits(p)'
        BY <1>1, <3>1, <3>2, <3>6
        DEF RecordFits, ToldFits, Tells, InFlight, Ended, Settled, Terminal
      <3> QED BY <3>4, <3>5, <3>7 DEF RecordFits
    <2> QED BY <2>1, <2>2
  <1>6. \A p \in Ops : FirstInLine(p)'
    BY <1>1, LineKept DEF Awaited, Queued
  <1>7. UnknownBlocksWorkspace'
    <2>1. \A p \in Ops : store'[p].state = "unknown" => store[p].state = "unknown"
      BY <1>1, Withdrawal
    <2> QED BY <1>1, <2>1, StillBlocked
  <1> QED BY <1>3, <1>4, <1>5, <1>6, <1>7 DEF IInv

\* The record a call is staged with, and its wait.
LEMMA Staging ==
  ASSUME TypeOK, NEW p \in Ops
  PROVE  /\ Stored(p) \in Records /\ Staged(p) \in Records /\ Staged(p).handle
         /\ Staged(p).state = Stored(p).state
         /\ store[p].state # "absent" => Stored(p) = store[p]
         /\ store[p].state = "absent" =>
              ~ Stored(p).handle /\ Stored(p).state \in {"registered", "approval", "failed"}
         /\ StageSched(p) \in Entries /\ StageSched(p).stage # "none"
         /\ sched[p].stage \notin InFlight \cup {"none"} => StageSched(p) = sched[p]
         /\ StageSched(p).stage = "pending" => Staged(p).state \notin Settled
         /\ \/ StageSched(p) = sched[p]
            \/ StageSched(p).stage = "pending" /\ sched[p].stage = "none"
            \/ /\ StageSched(p).stage = "returned" /\ StageSched(p).ref = Staged(p).state
               /\ Staged(p).state \in Settled
            \/ /\ StageSched(p).stage = "timed_out" /\ sched[p].stage = "overdue"
               /\ Staged(p).state \in Settled
  <1>1. First(p) \in {"registered", "approval", "failed"} /\ First(p) \in States
    BY ExecutorAssumption DEF First, States
  <1>2. /\ Stored(p) \in Records
        /\ store[p].state # "absent" => Stored(p) = store[p]
        /\ store[p].state = "absent" => ~ Stored(p).handle /\ Stored(p).state = First(p)
    <2>1. CASE store[p] = Absent
      BY <1>1, <2>1 DEF Stored, Records, Absent
    <2>2. CASE store[p] # Absent
      <3>1. store[p] \in Records /\ store[p].state # "absent" /\ Stored(p) = store[p]
        BY <2>2, Types DEF Stored
      <3> QED BY <3>1
    <2> QED BY <2>1, <2>2
  <1>3. Staged(p) \in Records /\ Staged(p).handle /\ Staged(p).state = Stored(p).state
    BY <1>2 DEF Staged, Records
  <1> DEFINE r == Registered(sched[p])
  <1>4. r \in Entries /\ r.stage # "none"
        /\ (sched[p].stage # "none" => r = sched[p]) /\ (sched[p].stage = "none" => r.stage = "pending")
    BY Types DEF Registered, Entries, Stages, InFlight
  <1>5. StageSched(p) = IF Staged(p).state \in Settled THEN Delivered(r, Staged(p)) ELSE r
    BY DEF StageSched, Settled
  <1> HIDE DEF r
  <1>6. CASE Staged(p).state \in Settled
    <2>1. /\ Delivered(r, Staged(p)) \in Entries
          /\ r.stage = "pending" => /\ Delivered(r, Staged(p)).stage = "returned"
                                    /\ Delivered(r, Staged(p)).ref = Staged(p).state
          /\ r.stage = "overdue" => Delivered(r, Staged(p)).stage = "timed_out"
          /\ r.stage \notin InFlight => Delivered(r, Staged(p)) = r
      BY <1>3, <1>4, Delivery
    <2> QED BY <1>1, <1>2, <1>3, <1>4, <1>5, <1>6, <2>1 DEF InFlight
  <1>7. CASE Staged(p).state \notin Settled
    BY <1>1, <1>2, <1>3, <1>4, <1>5, <1>7 DEF InFlight
  <1> QED BY <1>6, <1>7

\* A call that is staged: its record, not yet begun if it is new, fits again.
LEMMA StagedFits ==
  ASSUME TypeOK, NEW p \in Ops, RecordFits(p), owner(p) \in open,
         store'[p] = Staged(p), sched'[p] = StageSched(p), memo'[p] = memo[p],
         starts'[p] = starts[p], p \in touched' \cup body' => p \in touched \cup body,
         ruled' = ruled, reconc' = reconc, told'[p] = told[p],
         status[owner(p)] = "dismissed" => status'[owner(p)] = "dismissed"
  PROVE  RecordFits(p)'
  <1>1. /\ Staged(p) \in Records /\ Staged(p).handle
        /\ store[p].state # "absent" => Staged(p).state = store[p].state
        /\ store[p].state = "absent" => Staged(p).state \in {"registered", "approval", "failed"}
        /\ StageSched(p).stage # "none"
        /\ sched[p].stage \notin InFlight \cup {"none"} => StageSched(p) = sched[p]
        /\ \/ StageSched(p) = sched[p]
           \/ StageSched(p).stage = "pending" /\ sched[p].stage = "none"
           \/ /\ StageSched(p).stage = "returned" /\ StageSched(p).ref = Staged(p).state
              /\ Staged(p).state \in Settled
           \/ StageSched(p).stage = "timed_out" /\ sched[p].stage = "overdue"
    BY Staging
  <1>2. HandleFits(p)'
    BY <1>1 DEF RecordFits, HandleFits, Records, States
  <1>3. BegunFits(p)' /\ Untouched(p)'
    BY <1>1, Types DEF RecordFits, BegunFits, Untouched, mutating
  <1>4. Informed(p) => Informed(p)' \/ store[p].state = "absent"
    BY <1>1 DEF Informed
  <1>5. sched[p].stage # "received"
    BY DEF RecordFits, ToldFits
  <1>6. ToldFits(p)'
    BY <1>1, <1>4, <1>5 DEF RecordFits, ToldFits, Tells, InFlight, Ended, Settled, Terminal
  <1> QED BY <1>2, <1>3, <1>6 DEF RecordFits

\* A round that stages its batch, once more or for the first time.
LEMMA StageKeeps ==
  ASSUME IInv, NEW a \in Agents, NEW commit \in BOOLEAN, Stage(a, commit)
  PROVE  IInv'
  <1> DEFINE L == {o \in OpsOf(a) : Staged(o).state \in {"registered", "running"}}
             c == [o \in Ops |-> IF o \in OpsOf(a) THEN Staged(o) ELSE store[o]]
  <1> USE DEF Stage
  <1>1. TypeOK /\ DownInv /\ UnknownBlocksWorkspace
        /\ \A p \in Ops : PromiseFits(p) /\ RecordFits(p) /\ FirstInLine(p)
    BY DEF IInv
  <1>2. /\ store' = c /\ task' = Launched(L, c) /\ Line(a, L) /\ L \in SUBSET OpsOf(a)
        /\ \A p \in L : Staged(p).state \in {"registered", "running"}
    OBVIOUS
  <1>3. \A p \in Ops : store'[p] = IF p \in OpsOf(a) THEN Staged(p) ELSE store[p]
    BY <1>2
  <1>4. sched' = [o \in Ops |-> IF o \in OpsOf(a) THEN StageSched(o) ELSE sched[o]]
    OBVIOUS
  <1>5. c \in [Ops -> Records \cup {Absent}]
    BY <1>1, Staging DEF TypeOK
  <1>6. sched' \in [Ops -> Entries]
    BY <1>1, <1>4, Staging DEF TypeOK
  <1>7. \A p \in Ops : c[p] = store'[p]
    BY <1>2
  <1> HIDE DEF L, c
  <1>8. /\ task' \in [Ops -> [pc : {"idle", "queued", "awaiting"}, copy : Records \cup {Absent}]]
        /\ \A p \in Ops : IF p \in Launchable(L)
                            THEN task'[p].pc = "queued" /\ task'[p].copy = store'[p]
                            ELSE task'[p] = task[p]
        /\ \A p \in Launchable(L) : task[p].pc = "idle"
    <2>1. \A p \in Ops : IF p \in Launchable(L)
                            THEN task'[p].pc = "queued" /\ task'[p].copy = c[p]
                            ELSE task'[p] = task[p]
      BY <1>1, <1>2, <1>5, Launching
    <2> QED BY <1>1, <1>2, <1>5, <1>7, <2>1, Launching
  <1>9. tails' \in [Workspaces -> Seq(Ops)] /\ \A p \in Ops : FirstInLine(p)'
    BY <1>1, <1>2, LineGrows
  <1>10. status' \in [Agents -> {"active", "paused", "cancelled", "dismissed"}]
         /\ \A b \in Agents : status[b] = "dismissed" => status'[b] = "dismissed"
    BY <1>1, OwnerFacts DEF TypeOK, Paused
  <1>11. TypeOK'
    BY <1>1, <1>2, <1>5, <1>6, <1>8, <1>9, <1>10 DEF TypeOK
  <1>12. DownInv'
    BY <1>1 DEF DownInv, Ready
  <1>13. ASSUME NEW p \in Ops, p \notin OpsOf(a)
         PROVE  SameRecord(p) /\ SamePromise(p)
    <2>1. p \notin Launchable(L)
      BY <1>2, <1>13 DEF Launchable
    <2> QED BY <1>3, <1>4, <1>8, <1>10, <1>13, <2>1, OwnerFacts
            DEF SameRecord, SamePromise, Informed, Alive
  <1>14. ASSUME NEW p \in Ops, p \in OpsOf(a)
         PROVE  PromiseFits(p)' /\ RecordFits(p)'
    <2>1. owner(p) = a /\ store'[p] = Staged(p) /\ sched'[p] = StageSched(p)
      BY <1>3, <1>4, <1>14, OwnerFacts
    <2>2. RecordFits(p)'
      BY <1>1, <1>10, <2>1, OwnerFacts, StagedFits
    <2>3. /\ Staged(p) \in Records /\ Staged(p).handle
          /\ store[p].state # "absent" => Staged(p).state = store[p].state
          /\ store[p].state = "absent" => Staged(p).state \in {"registered", "approval", "failed"}
          /\ sched[p].stage \notin InFlight \cup {"none"} => StageSched(p) = sched[p]
          /\ StageSched(p).stage = "pending" => Staged(p).state \notin Settled
          /\ \/ StageSched(p) = sched[p]
             \/ StageSched(p).stage = "pending" /\ sched[p].stage = "none"
             \/ StageSched(p).stage \in {"returned", "timed_out"} /\ Staged(p).state \in Settled
      BY <1>1, Staging
    <2>4. CASE p \in Launchable(L)
      <3>1. Staged(p).state = "registered"
        BY <1>1, <1>2, <1>8, <2>3, <2>4
        DEF Launchable, PromiseFits, RunningIsAwaited, Awaited, Ready, Alive
      <3>2. mutating(p) => starts[p] = 0
        BY <1>1, <2>3, <3>1, Types DEF RecordFits, BegunFits
      <3> QED BY <1>8, <2>1, <2>2, <2>3, <2>4, <3>1, <3>2
              DEF PromiseFits, QueuedFits, AwaitingFits, RunningIsAwaited, Queued, Awaited,
                  mutating
    <2>5. CASE p \notin Launchable(L)
      <3>1. task'[p] = task[p]
        BY <1>8, <2>5
      <3>2. QueuedFits(p)'
        BY <1>1, <2>1, <2>3, <3>1
        DEF PromiseFits, QueuedFits, Queued, mutating, Settled, Terminal, InFlight
      <3>3. AwaitingFits(p)'
        BY <1>1, <2>1, <2>3, <3>1
        DEF PromiseFits, AwaitingFits, Awaited, mutating, InFlight, RecordFits, HandleFits,
            Settled, Terminal
      <3>4. RunningIsAwaited(p)'
        BY <1>1, <2>1, <2>3, <3>1 DEF PromiseFits, RunningIsAwaited, Awaited, Alive
      <3> QED BY <2>2, <3>2, <3>3, <3>4 DEF PromiseFits
    <2> QED BY <2>2, <2>4, <2>5
  <1>15. UnknownBlocksWorkspace'
    <2>1. \A p \in Ops : store'[p].state = "unknown" => store[p].state = "unknown"
      BY <1>1, <1>3, Staging, Types
    <2> QED BY <1>1, <2>1, StillBlocked
  <1> QED BY <1>9, <1>11, <1>12, <1>13, <1>14, <1>15, Assembled

----------------------------------------------------------------------------
(* The host's word *)

\* A call whose approval is open has no promise, and has not begun to mutate.
LEMMA ApprovalIdle ==
  ASSUME TypeOK, NEW o \in Ops, PromiseFits(o), RecordFits(o), store[o].state = "approval"
  PROVE  /\ task[o].pc = "idle" /\ (mutating(o) => starts[o] = 0)
         /\ sched[o].stage # "returned" /\ memo[o] = "none"
         /\ sched[o].stage = "received" => starts[o] = 0
  <1>1. task[o].pc = "idle"
    BY Types DEF PromiseFits, QueuedFits, AwaitingFits, Queued, Awaited
  <1>2. mutating(o) => starts[o] = 0
    BY DEF RecordFits, BegunFits
  <1>3. sched[o].stage # "returned" /\ memo[o] = "none"
    BY DEF RecordFits, ToldFits, Tells, Settled, Terminal
  <1>4. sched[o].stage = "received" => starts[o] = 0
    BY <1>3, Types DEF RecordFits, ToldFits, HandleFits
  <1> QED BY <1>1, <1>2, <1>3, <1>4

\* A refused or expired approval fails the call.
LEMMA ApprovalFails ==
  ASSUME IInv, NEW o \in Ops, store[o].state = "approval", Alive,
         NEW c \in Records, c.state = "failed", c.handle = store[o].handle,
         store' = [store EXCEPT ![o] = c],
         sched' = [sched EXCEPT ![o] = Delivered(sched[o], c)],
         UNCHANGED <<reconc, approved, status, memo, told, open, memVars, procVars, histVars,
                     boundVars>>
  PROVE  IInv'
  <1>1. TypeOK /\ DownInv /\ UnknownBlocksWorkspace
        /\ \A p \in Ops : PromiseFits(p) /\ RecordFits(p) /\ FirstInLine(p)
    BY DEF IInv
  <1>2. Delivered(sched[o], c) \in Entries
    BY <1>1, Types, Delivery
  <1>3. TypeOK'
    <2>1. store' \in [Ops -> Records \cup {Absent}]
      BY <1>1 DEF TypeOK
    <2>2. sched' \in [Ops -> Entries]
      BY <1>1, <1>2 DEF TypeOK
    <2> QED BY <1>1, <2>1, <2>2 DEF TypeOK
  <1>4. store'[o] = c /\ sched'[o] = Delivered(sched[o], c)
        /\ \A p \in Ops \ {o} : store'[p] = store[p] /\ sched'[p] = sched[p]
    BY <1>1 DEF TypeOK
  <1>5. DownInv'
    BY <1>1 DEF DownInv, Alive
  <1>6. \A p \in Ops \ {o} : SameRecord(p) /\ SamePromise(p)
    BY <1>4 DEF SameRecord, SamePromise, Informed, Alive
  <1>7. /\ task[o].pc = "idle" /\ (mutating(o) => starts[o] = 0)
        /\ sched[o].stage # "returned" /\ memo[o] = "none"
        /\ sched[o].stage = "received" => starts[o] = 0
    BY <1>1, ApprovalIdle
  <1>8. PromiseFits(o)'
    BY <1>4, <1>7, NoPromise
  <1>9. RecordFits(o)'
    <2>1. /\ sched[o].stage \notin InFlight => sched'[o] = sched[o]
          /\ sched'[o] = sched[o] \/ (sched'[o].stage = "returned" /\ sched'[o].ref = "failed")
               \/ (sched'[o].stage = "timed_out" /\ sched[o].stage = "overdue")
      BY <1>1, <1>4, Types, Delivery DEF InFlight
    <2>2. HandleFits(o)' /\ BegunFits(o)' /\ Untouched(o)'
      BY <1>1, <1>4, <1>7, <2>1, Types DEF RecordFits, HandleFits, BegunFits, Untouched, mutating
    <2>3. ToldFits(o)'
      BY <1>1, <1>4, <1>7, <2>1, Types
      DEF RecordFits, ToldFits, Tells, InFlight, Settled, Terminal
    <2> QED BY <2>2, <2>3 DEF RecordFits
  <1>10. \A p \in Ops : FirstInLine(p)'
    BY <1>1, LineKept DEF Awaited, Queued
  <1>11. UnknownBlocksWorkspace'
    <2>1. \A p \in Ops : store'[p].state = "unknown" => store[p].state = "unknown"
      BY <1>4
    <2> QED BY <1>1, <2>1, StillBlocked
  <1> QED BY <1>3, <1>5, <1>6, <1>8, <1>9, <1>10, <1>11, Assembled

\* An approval launches the call; a refusal fails it.
LEMMA ApproveKeeps ==
  ASSUME IInv, NEW o \in Ops, NEW allowed \in BOOLEAN, Approve(o, allowed)
  PROVE  IInv'
  <1>1. TypeOK /\ DownInv /\ UnknownBlocksWorkspace
        /\ \A p \in Ops : PromiseFits(p) /\ RecordFits(p) /\ FirstInLine(p)
    BY DEF IInv
  <1>c. PICK c : c = [store[o] EXCEPT !.state = IF allowed THEN "registered" ELSE "failed"]
    OBVIOUS
  <1>2. /\ c \in Records /\ c.handle = store[o].handle
        /\ c.state = IF allowed THEN "registered" ELSE "failed"
    <2>1. store[o] \in Records \cup {Absent}
          /\ (IF allowed THEN "registered" ELSE "failed") \in States
      BY <1>1, Types DEF States
    <2> QED BY <1>c, <2>1, PutState
  <1>3. store[o].state = "approval" /\ store[o].handle /\ Alive
        /\ store' = [store EXCEPT ![o] = c]
    BY <1>c DEF Approve, Pending, Ready, Alive
  <1>4. CASE ~ allowed
    <2>1. sched' = [sched EXCEPT ![o] = Delivered(sched[o], c)]
          /\ UNCHANGED <<reconc, approved, status, memo, told, open, memVars, procVars, histVars,
                         boundVars>>
      BY <1>c, <1>4 DEF Approve
    <2> QED BY <1>2, <1>3, <1>4, <2>1, ApprovalFails
  <1>5. CASE allowed
    <2>1. /\ approved' = approved \cup {o} /\ task' = Launched({o}, store')
          /\ Line(owner(o), {o})
          /\ UNCHANGED <<sched, reconc, status, memo, told, open, body, aborted, procVars,
                         histVars, boundVars>>
      BY <1>5 DEF Approve
    <2>2. store' \in [Ops -> Records \cup {Absent}]
      BY <1>1, <1>2, <1>3 DEF TypeOK
    <2>3. store'[o] = c /\ \A p \in Ops \ {o} : store'[p] = store[p]
      BY <1>1, <1>3 DEF TypeOK
    <2>d. PICK d : d = store'
      OBVIOUS
    <2>4. /\ task' \in [Ops -> [pc : {"idle", "queued", "awaiting"}, copy : Records \cup {Absent}]]
          /\ \A p \in Ops : IF p \in Launchable({o})
                              THEN task'[p].pc = "queued" /\ task'[p].copy = d[p]
                              ELSE task'[p] = task[p]
      BY <1>1, <2>1, <2>2, <2>d, Launching
    <2>5. tails' \in [Workspaces -> Seq(Ops)] /\ \A p \in Ops : FirstInLine(p)'
      <3>1. owner(o) \in Agents /\ {o} \in SUBSET OpsOf(owner(o))
        BY OwnerFacts
      <3> QED BY <1>1, <2>1, <2>d, <3>1, LineGrows
    <2>6. TypeOK'
      BY <1>1, <2>1, <2>2, <2>4, <2>5 DEF TypeOK
    <2>7. DownInv'
      BY <1>1, <2>1 DEF DownInv, Approve, Ready
    <2>8. \A p \in Ops \ {o} : SameRecord(p) /\ SamePromise(p)
      BY <2>1, <2>3, <2>4 DEF SameRecord, SamePromise, Informed, Alive, Launchable
    <2>9. /\ task[o].pc = "idle" /\ (mutating(o) => starts[o] = 0)
          /\ sched[o].stage # "returned" /\ memo[o] = "none"
          /\ sched[o].stage = "received" => starts[o] = 0
      BY <1>1, <1>3, ApprovalIdle
    <2>10. /\ task'[o].pc = "queued" /\ task'[o].copy = c
      BY <2>3, <2>4, <2>9, <2>d DEF Launchable, Approve, Ready
    <2>11. PromiseFits(o)'
      BY <1>2, <1>3, <1>5, <2>1, <2>3, <2>9, <2>10
      DEF PromiseFits, QueuedFits, AwaitingFits, RunningIsAwaited, Queued, Awaited, mutating
    <2>12. RecordFits(o)'
      <3>1. HandleFits(o)' /\ BegunFits(o)' /\ Untouched(o)'
        BY <1>1, <1>2, <1>3, <1>5, <2>1, <2>3, <2>9
        DEF RecordFits, HandleFits, BegunFits, Untouched, mutating
      <3>2. ToldFits(o)'
        BY <1>1, <1>2, <1>3, <1>5, <2>1, <2>3, <2>9
        DEF RecordFits, ToldFits, Tells, Settled, Terminal
      <3> QED BY <3>1, <3>2 DEF RecordFits
    <2>13. UnknownBlocksWorkspace'
      <3>1. \A p \in Ops : store'[p].state = "unknown" => store[p].state = "unknown"
        BY <1>2, <1>5, <2>3
      <3> QED BY <1>1, <2>1, <3>1, StillBlocked
    <2> QED BY <2>5, <2>6, <2>7, <2>8, <2>11, <2>12, <2>13, Assembled
  <1> QED BY <1>4, <1>5

\* A late approval finds the wait over, and fails the call.
LEMMA ApproveLateKeeps ==
  ASSUME IInv, NEW o \in Ops, ApproveLate(o)
  PROVE  IInv'
  <1>1. TypeOK
    BY DEF IInv
  <1>c. PICK c : c = [store[o] EXCEPT !.state = "failed"]
    OBVIOUS
  <1>2. c \in Records /\ c.handle = store[o].handle /\ c.state = "failed"
    <2>1. store[o] \in Records \cup {Absent} /\ "failed" \in States
      BY <1>1, Types DEF States
    <2> QED BY <1>c, <2>1, PutState
  <1>3. store[o].state = "approval" /\ Alive /\ Expired(store[o]) = c
    BY <1>c DEF ApproveLate, Ready, Alive, Expired, Expirable
  <1>4. store' = [store EXCEPT ![o] = c] /\ sched' = [sched EXCEPT ![o] = Delivered(sched[o], c)]
    BY <1>3 DEF ApproveLate
  <1> QED BY <1>2, <1>3, <1>4, ApprovalFails DEF ApproveLate

\* A reconciled call: its record fits, and its agent will be told.
LEMMA ReconciledFits ==
  ASSUME TypeOK, NEW o \in Ops, RecordFits(o), store[o].state = "unknown",
         store'[o].state \in Terminal, store'[o].handle = store[o].handle,
         Informed(o)', o \in ruled', memo'[o] = memo[o], starts'[o] = starts[o],
         o \in touched' \cup body' => o \in touched \cup body,
         owner(o) \notin open => owner(o) \notin open',
         \/ sched'[o] = sched[o]
         \/ sched'[o].stage = "returned" /\ sched'[o].ref = store'[o].state
              /\ sched[o].stage \in InFlight
         \/ sched'[o].stage = "timed_out" /\ sched[o].stage \in InFlight
  PROVE  RecordFits(o)'
  <1>1. HandleFits(o)' /\ BegunFits(o)' /\ Untouched(o)'
    BY DEF RecordFits, HandleFits, BegunFits, Untouched, mutating, Terminal, InFlight
  <1>2. ToldFits(o)'
    BY DEF RecordFits, ToldFits, Tells, Settled, Terminal, InFlight, Ended
  <1> QED BY <1>1, <1>2 DEF RecordFits

\* A reconciled call had ended, and its agent will be told.
LEMMA ReconcileKeeps ==
  ASSUME IInv, NEW o \in Ops, NEW outcome \in Terminal, Reconcile(o, outcome)
  PROVE  IInv'
  <1> USE DEF Reconcile
  <1>1. TypeOK /\ DownInv /\ UnknownBlocksWorkspace
        /\ \A p \in Ops : PromiseFits(p) /\ RecordFits(p) /\ FirstInLine(p)
    BY DEF IInv
  <1>c. PICK c : c = [store[o] EXCEPT !.state = outcome]
    OBVIOUS
  <1>2. c \in Records /\ c.handle = store[o].handle /\ c.state = outcome
    <2>1. store[o] \in Records \cup {Absent} /\ outcome \in States
      BY <1>1, Types DEF States, Terminal
    <2> QED BY <1>c, <2>1, PutState
  <1>3. store' = [store EXCEPT ![o] = c] /\ sched' = [sched EXCEPT ![o] = Delivered(sched[o], c)]
    BY <1>c
  <1>4. Delivered(sched[o], c) \in Entries
    BY <1>1, <1>2, Types, Delivery
  <1>5. store'[o] = c /\ sched'[o] = Delivered(sched[o], c)
        /\ \A p \in Ops \ {o} : store'[p] = store[p] /\ sched'[p] = sched[p]
    BY <1>1, <1>3 DEF TypeOK
  <1>6. reconc' \subseteq reconc \cup {o} /\ (status[owner(o)] = "dismissed" \/ o \in reconc')
        /\ reconc \subseteq reconc'
    BY DEF Outboxed
  <1>7. TypeOK'
    <2>1. store' \in [Ops -> Records \cup {Absent}]
      BY <1>1, <1>2, <1>3, ZenonT(40) DEF TypeOK
    <2>2. sched' \in [Ops -> Entries]
      BY <1>1, <1>3, <1>4 DEF TypeOK
    <2>3. reconc' \subseteq Ops
      BY <1>1, <1>6 DEF TypeOK
    <2> QED BY <1>1, <2>1, <2>2, <2>3 DEF TypeOK
  <1>8. DownInv'
    BY <1>1 DEF DownInv
  <1>9. \A p \in Ops \ {o} : SameRecord(p) /\ SamePromise(p)
    BY <1>5, <1>6 DEF SameRecord, SamePromise, Informed, Alive
  <1>10. PromiseFits(o)'
    <2>1. task'[o].pc = "idle"
      BY <1>1, Types DEF Reconcilable, PromiseFits, QueuedFits, Queued
    <2> QED BY <1>2, <1>5, <2>1, NoPromise DEF Terminal
  <1>11. RecordFits(o)'
    <2>1. Informed(o)'
      BY <1>6 DEF Informed
    <2>2. \/ sched'[o] = sched[o]
          \/ sched'[o].stage = "returned" /\ sched'[o].ref = store'[o].state
               /\ sched[o].stage \in InFlight
          \/ sched'[o].stage = "timed_out" /\ sched[o].stage \in InFlight
      BY <1>1, <1>2, <1>5, Types, Delivery DEF InFlight
    <2> QED BY <1>1, <1>2, <1>5, <2>1, <2>2, ReconciledFits DEF Reconcilable
  <1>12. \A p \in Ops : FirstInLine(p)'
    BY <1>1, LineKept DEF Awaited, Queued
  <1>13. UnknownBlocksWorkspace'
    <2>1. \A p \in Ops : store'[p].state = "unknown" => store[p].state = "unknown"
      BY <1>2, <1>5 DEF Terminal
    <2> QED BY <1>1, <2>1, StillBlocked
  <1> QED BY <1>7, <1>8, <1>9, <1>10, <1>11, <1>12, <1>13, Assembled

----------------------------------------------------------------------------
(* Deaths and restarts *)

\* What is in memory after a death.
LEMMA DeadTypes ==
  ASSUME TypeOK, Die
  PROVE  /\ task' \in [Ops -> [pc : {"idle", "queued", "awaiting"}, copy : Records \cup {Absent}]]
         /\ tails' \in [Workspaces -> Seq(Ops)]
         /\ body' \subseteq Ops /\ aborted' \subseteq Ops /\ recovered' \subseteq Agents
         /\ phase' \in {"down", "init", "up"} /\ stopping' \in BOOLEAN
         /\ crashes' \in 0 .. MaxCrashes /\ pauses' \in 0 .. MaxPauses
         /\ touched' = touched /\ starts' = starts /\ body' = {}
         /\ touched' \subseteq Ops /\ starts' \in [Ops -> Nat]
  <1>1. NoTask \in [pc : {"idle", "queued", "awaiting"}, copy : Records \cup {Absent}]
    BY DEF NoTask
  <1>2. <<>> \in Seq(Ops)
    OBVIOUS
  <1>3. crashes' \in 0 .. MaxCrashes
    BY ExecutorAssumption DEF Die, TypeOK
  <1> QED BY <1>1, <1>2, <1>3 DEF Die, TypeOK

\* A death at rest changes no record.
LEMMA CrashKeeps ==
  ASSUME IInv, Crash
  PROVE  IInv'
  <1> USE DEF Crash
  <1>1. TypeOK /\ \A p \in Ops : RecordFits(p)
    BY DEF IInv
  <1>2. TypeOK'
    BY <1>1, DeadTypes DEF TypeOK
  <1>3. \A p \in Ops : SameRecord(p)
    BY DEF Die, SameRecord, Informed
  <1>4. \A p \in Ops : RecordFits(p)'
    BY <1>1, <1>3, RecordKept
  <1> QED BY <1>2, <1>4, Dying

\* A death after the tombstone changes no record.
LEMMA DismissCutKeeps ==
  ASSUME IInv, NEW a \in Agents, DismissCut(a)
  PROVE  IInv'
  <1> USE DEF DismissCut
  <1>1. TypeOK /\ \A p \in Ops : RecordFits(p)
    BY DEF IInv
  <1>2. TypeOK'
    BY <1>1, DeadTypes DEF TypeOK
  <1>3. \A p \in Ops : SameRecord(p)
    BY <1>1 DEF Die, SameRecord, Informed, TypeOK
  <1>4. \A p \in Ops : RecordFits(p)'
    BY <1>1, <1>3, RecordKept
  <1> QED BY <1>2, <1>4, Dying

\* A death after the ruling: the record and the mark that it is to be told.
LEMMA ReconcileCutKeeps ==
  ASSUME IInv, NEW o \in Ops, NEW outcome \in Terminal, ReconcileCut(o, outcome)
  PROVE  IInv'
  <1> USE DEF ReconcileCut
  <1>1. TypeOK /\ \A p \in Ops : RecordFits(p)
    BY DEF IInv
  <1>c. PICK c : c = [store[o] EXCEPT !.state = outcome]
    OBVIOUS
  <1>2. c \in Records /\ c.handle = store[o].handle /\ c.state = outcome
    <2>1. store[o] \in Records \cup {Absent} /\ outcome \in States
      BY <1>1, Types DEF States, Terminal
    <2> QED BY <1>c, <2>1, PutState
  <1>3. store' = [store EXCEPT ![o] = c]
    BY <1>c
  <1>4. store'[o] = c /\ \A p \in Ops \ {o} : store'[p] = store[p]
    BY <1>1, <1>3 DEF TypeOK
  <1>5. TypeOK'
    <2>1. store' \in [Ops -> Records \cup {Absent}]
      BY <1>1, <1>2, <1>3, ZenonT(40) DEF TypeOK
    <2> QED BY <1>1, <2>1, DeadTypes DEF TypeOK
  <1>6. \A p \in Ops \ {o} : SameRecord(p)
    BY <1>4 DEF Die, SameRecord, Informed
  <1>7. RecordFits(o)'
    <2>1. Informed(o)'
      BY DEF Informed
    <2>2. o \in touched' \cup body' => o \in touched \cup body
      BY DEF Die
    <2>3. starts' = starts
      BY DEF Die
    <2> QED BY <1>1, <1>2, <1>4, <2>1, <2>2, <2>3, ReconciledFits DEF Reconcilable
  <1>8. \A p \in Ops : RecordFits(p)'
    BY <1>1, <1>6, <1>7, RecordKept
  <1> QED BY <1>5, <1>8, Dying

\* A death after the record of a concluded call was put, before it was delivered.
LEMMA ConcludeCutKeeps ==
  ASSUME IInv, NEW o \in Ops, NEW how \in Endings, ConcludeCut(o, how)
  PROVE  IInv'
  <1> USE DEF ConcludeCut
  <1>1. TypeOK /\ \A p \in Ops : PromiseFits(p) /\ RecordFits(p)
    BY DEF IInv
  <1>2. Awaited(o)
    BY DEF Awaited
  <1>s. PICK s : s = Concluded(o, how)
    OBVIOUS
  <1>c. PICK c : c = [task[o].copy EXCEPT !.state = s]
    OBVIOUS
  <1>3. s \in {"succeeded", "failed", "unknown"}
        /\ (mutating(o) /\ s = "failed" => o \notin touched)
    BY <1>s DEF Concluded
  <1>4. store[o].state \in {"running", s} /\ store[o].handle
    BY <1>1, <1>2, <1>s DEF PromiseFits, AwaitingFits, Concluded
  <1>5. c \in Records /\ c.state = s /\ c.handle
    <2>1. s \in States /\ task[o].copy \in Records \cup {Absent} /\ task[o].copy.handle
      BY <1>1, <1>2, <1>3, Types DEF States, PromiseFits, AwaitingFits
    <2> QED BY <1>c, <2>1, PutState
  <1>6. store' = [store EXCEPT ![o] = c]
    BY <1>s, <1>c
  <1>7. store'[o] = c /\ \A p \in Ops \ {o} : store'[p] = store[p]
    BY <1>1, <1>6 DEF TypeOK
  <1>8. TypeOK'
    <2>1. store' \in [Ops -> Records \cup {Absent}]
      BY <1>1, <1>5, <1>6 DEF TypeOK
    <2> QED BY <1>1, <2>1, DeadTypes DEF TypeOK
  <1>9. \A p \in Ops \ {o} : SameRecord(p)
    BY <1>7 DEF Die, SameRecord, Informed
  <1>10. RecordFits(o)'
    <2>1. starts' = starts /\ touched' = touched /\ body' = {}
      BY DEF Die
    <2>2. HandleFits(o)' /\ BegunFits(o)' /\ Untouched(o)'
      BY <1>1, <1>3, <1>4, <1>5, <1>7, <2>1
      DEF RecordFits, HandleFits, BegunFits, Untouched, mutating
    <2>3. Informed(o) => Informed(o)' \/ store[o].state # s
      BY <1>5, <1>7 DEF Informed
    <2>4. sched[o].stage = "returned" \/ memo[o] # "none" \/ sched[o].stage = "received" =>
            store[o].state = s
      BY <1>1, <1>4 DEF RecordFits, ToldFits, Tells, Settled, Terminal
    <2>5. ToldFits(o)'
      BY <1>1, <1>3, <1>4, <1>5, <1>7, <2>1, <2>3, <2>4
      DEF RecordFits, ToldFits, Tells, Settled, Terminal, Ended
    <2> QED BY <2>2, <2>5 DEF RecordFits
  <1>11. \A p \in Ops : RecordFits(p)'
    BY <1>1, <1>9, <1>10, RecordKept
  <1> QED BY <1>8, <1>11, Dying

\* A death between two writes of the stage.
LEMMA StageCutKeeps ==
  ASSUME IInv, NEW a \in Agents, NEW i \in DOMAIN calls[a], NEW registered \in BOOLEAN,
         StageCut(a, i, registered)
  PROVE  IInv'
  <1> DEFINE before == {calls[a][j] : j \in 1 .. i - 1}
             o      == calls[a][i]
  <1> USE DEF StageCut
  <1>1. TypeOK /\ \A p \in Ops : RecordFits(p)
    BY DEF IInv
  <1>2. o \in OpsOf(a) /\ before \subseteq OpsOf(a)
    <2>1. calls[a] \in Seq(Ops)
      BY OwnerFacts
    <2>2. \A j \in 1 .. i - 1 : j \in DOMAIN calls[a]
      BY <2>1
    <2> QED BY <2>1, <2>2 DEF OpsOf, ToSet
  <1>3. store' = [p \in Ops |-> IF p \in before THEN Staged(p)
                                ELSE IF p = o THEN Stored(p) ELSE store[p]]
        /\ sched' = [p \in Ops |-> IF p \in before THEN StageSched(p)
                                   ELSE IF p = o /\ registered THEN Registered(sched[p])
                                   ELSE sched[p]]
    OBVIOUS
  <1>4. \A p \in before \cup {o} : owner(p) = a /\ p \in Ops
    BY <1>2, OwnerFacts
  <1> HIDE DEF before, o
  <1>5. store' \in [Ops -> Records \cup {Absent}]
    BY <1>1, <1>3, Staging DEF TypeOK
  <1>6. ASSUME NEW p \in Ops
        PROVE  /\ Registered(sched[p]) \in Entries
               /\ \/ Registered(sched[p]) = sched[p]
                  \/ Registered(sched[p]).stage = "pending" /\ sched[p].stage = "none"
    <2>1. sched[p] \in Entries /\ "pending" \in Stages
      BY <1>1, Types DEF Stages, InFlight
    <2>2. CASE sched[p].stage = "none"
      BY <2>1, <2>2 DEF Registered, Entries
    <2>3. CASE sched[p].stage # "none"
      BY <2>1, <2>3 DEF Registered
    <2> QED BY <2>2, <2>3
  <1>7. sched' \in [Ops -> Entries]
    BY <1>1, <1>3, <1>6, Staging DEF TypeOK
  <1>8. TypeOK'
    BY <1>1, <1>5, <1>7, DeadTypes DEF TypeOK
  <1>9. starts' = starts /\ touched' = touched /\ body' = {}
    BY DEF Die
  <1>10. ASSUME NEW p \in Ops PROVE RecordFits(p)'
    <2>1. CASE p \in before
      <3>1. store'[p] = Staged(p) /\ sched'[p] = StageSched(p)
        BY <1>3, <2>1
      <3>2. owner(p) \in open
        BY <1>4, <2>1
      <3> QED BY <1>1, <1>9, <3>1, <3>2, StagedFits
    <2>2. CASE p = o /\ p \notin before
      <3>1. store'[p] = Stored(p) /\ sched'[p] = IF registered THEN Registered(sched[p]) ELSE sched[p]
        BY <1>3, <2>2
      <3>2. /\ Stored(p) \in Records
            /\ store[p].state # "absent" => Stored(p) = store[p]
            /\ store[p].state = "absent" => /\ ~ Stored(p).handle /\ ~ store[p].handle
                                            /\ Stored(p).state \in {"registered", "approval", "failed"}
        BY <1>1, Staging, Types DEF Absent
      <3>3. sched'[p] = sched[p] \/ (sched'[p].stage = "pending" /\ sched[p].stage = "none")
        BY <1>6, <3>1
      <3>4. sched[p].stage # "received"
        BY <1>1, <1>4, <2>2 DEF RecordFits, ToldFits
      <3>5. HandleFits(p)'
        BY <1>1, <1>9, <3>1, <3>2, <3>3 DEF RecordFits, HandleFits, Records, States
      <3>6. BegunFits(p)' /\ Untouched(p)'
        BY <1>1, <1>9, <3>1, <3>2, <3>3, Types DEF RecordFits, BegunFits, Untouched, mutating
      <3>7. ToldFits(p)'
        BY <1>1, <3>1, <3>2, <3>3, <3>4
        DEF RecordFits, ToldFits, Tells, Informed, Ended, Settled, Terminal
      <3> QED BY <3>5, <3>6, <3>7 DEF RecordFits
    <2>3. CASE p # o /\ p \notin before
      <3>1. SameRecord(p)
        BY <1>3, <1>9, <2>3 DEF SameRecord, Informed
      <3> QED BY <1>1, <3>1, RecordKept
    <2> QED BY <2>1, <2>2, <2>3
  <1> QED BY <1>8, <1>10, Dying

\* After a death, what ran is unknown, or registered again if it cannot mutate.
LEMMA BootKeeps ==
  ASSUME IInv, Boot
  PROVE  IInv'
  <1> USE DEF Boot
  <1>1. TypeOK /\ DownInv /\ UnknownBlocksWorkspace
        /\ \A p \in Ops : PromiseFits(p) /\ RecordFits(p) /\ FirstInLine(p)
    BY DEF IInv
  <1>2. ASSUME NEW p \in Ops
        PROVE  /\ Isolated(p) \in Records \cup {Absent} /\ Isolated(p).handle = store[p].handle
               /\ store[p].state # "running" => Isolated(p) = store[p]
               /\ store[p].state = "running" =>
                    Isolated(p).state = IF mutating(p) THEN "unknown" ELSE "registered"
    <2>1. store[p] \in Records \cup {Absent}
          /\ (IF mutating(p) THEN "unknown" ELSE "registered") \in States
      BY <1>1, Types DEF States
    <2> QED BY <2>1, PutState DEF Isolated
  <1>3. store' \in [Ops -> Records \cup {Absent}] /\ \A p \in Ops : store'[p] = Isolated(p)
    BY <1>2
  <1>4. TypeOK'
    BY <1>1, <1>3 DEF TypeOK
  <1>5. (\A p \in Ops : task[p].pc = "idle") /\ body = {}
    BY <1>1 DEF DownInv, NoTask
  <1>6. DownInv'
    BY <1>5 DEF DownInv
  <1>7. ASSUME NEW p \in Ops PROVE PromiseFits(p)' /\ RecordFits(p)'
    <2>1. store'[p].state # "running"
      BY <1>2, <1>3
    <2>2. PromiseFits(p)'
      BY <1>5, <2>1, NoPromise
    <2>3. HandleFits(p)' /\ BegunFits(p)' /\ Untouched(p)'
      BY <1>1, <1>2, <1>3 DEF RecordFits, HandleFits, BegunFits, Untouched, mutating
    <2>4. ToldFits(p)'
      BY <1>1, <1>2, <1>3 DEF RecordFits, ToldFits, Tells, Informed, Settled, Terminal
    <2> QED BY <2>2, <2>3, <2>4 DEF RecordFits
  <1>8. \A p \in Ops : FirstInLine(p)'
    BY <1>5 DEF FirstInLine, Awaited, Queued
  <1>9. UnknownBlocksWorkspace'
    BY <1>5 DEF UnknownBlocksWorkspace
  <1> QED BY <1>4, <1>6, <1>7, <1>8, <1>9 DEF IInv

----------------------------------------------------------------------------
(* The theorems *)

\* Nothing is stored, launched or awaited at first.
LEMMA InitIInv == Init => IInv
  <1> SUFFICES ASSUME Init PROVE IInv
    OBVIOUS
  <1> USE DEF Init
  <1>1. Absent \in Records \cup {Absent} /\ Absent.state = "absent" /\ Absent.handle = FALSE
        /\ NoTask \in [pc : {"idle", "queued", "awaiting"}, copy : Records \cup {Absent}]
        /\ NoTask.pc = "idle"
    BY DEF Absent, NoTask
  <1>2. [stage |-> "none", ref |-> "none"] \in Entries
    BY DEF Entries, Stages
  <1>3. <<>> \in Seq(Ops) /\ 0 \in 0 .. MaxCrashes /\ 0 \in 0 .. MaxPauses
    BY ExecutorAssumption
  <1>4. TypeOK
    BY <1>1, <1>2, <1>3 DEF TypeOK
  <1>5. DownInv
    BY <1>1 DEF DownInv
  <1>6. ASSUME NEW p \in Ops PROVE PromiseFits(p) /\ RecordFits(p) /\ FirstInLine(p)
    BY <1>1 DEF PromiseFits, QueuedFits, AwaitingFits, RunningIsAwaited, Queued, Awaited,
                RecordFits, HandleFits, BegunFits, Untouched, ToldFits, Terminal, FirstInLine, Ended
  <1>7. UnknownBlocksWorkspace
    BY DEF UnknownBlocksWorkspace
  <1> QED BY <1>4, <1>5, <1>6, <1>7 DEF IInv

\* Every step of the executor, its tools and its host keeps the invariant.
LEMMA NextIInv == IInv /\ [Next]_vars => IInv'
  <1> SUFFICES ASSUME IInv, [Next]_vars PROVE IInv'
    OBVIOUS
  <1>1. CASE UNCHANGED vars
    BY <1>1 DEF vars, IInv, TypeOK, DownInv, PromiseFits, QueuedFits, AwaitingFits,
                RunningIsAwaited, Queued, Awaited, RecordFits, HandleFits, BegunFits, Untouched,
                ToldFits, Tells, Informed, FirstInLine, UnknownBlocksWorkspace, Alive, mutating,
                place
  <1>2. ASSUME NEW a \in Agents, RoundStep(a) PROVE IInv'
    BY <1>2, StageKeeps, StageCutKeeps DEF RoundStep
  <1>3. ASSUME NEW a \in Agents, AgentStep(a) PROVE IInv'
    BY <1>3, PauseKeeps, ResumeKeeps, CancelKeeps, DismissKeeps, DismissCutKeeps, RecoverKeeps,
       RecoverDismissedKeeps DEF AgentStep
  <1>4. ASSUME NEW o \in Ops, ExecuteStep(o) PROVE IInv'
    BY <1>4, ExecuteExpiredKeeps, ExecutePausedKeeps, ExecuteRefusedKeeps, ExecuteStartKeeps,
       AbortSeenKeeps, ConcludeCutKeeps DEF ExecuteStep
  <1>5. ASSUME NEW o \in Ops, ToolStep(o) PROVE IInv'
    BY <1>5, ToolActsKeeps, ToolEndsKeeps DEF ToolStep
  <1>6. ASSUME NEW o \in Ops, WaitStep(o) PROVE IInv'
    BY <1>6, DeadlinePassesKeeps, TimesOutKeeps, ResolveWaitKeeps, ReceiveResultKeeps,
       ReceiveReconciliationKeeps DEF WaitStep
  <1>7. ASSUME NEW o \in Ops, HostStep(o) PROVE IInv'
    BY <1>7, ApproveKeeps, ApproveLateKeeps, ReconcileKeeps, ReconcileCutKeeps DEF HostStep
  <1>8. CASE Stop \/ Crash \/ Boot
    BY <1>8, StopKeeps, CrashKeeps, BootKeeps
  <1> QED BY <1>1, <1>2, <1>3, <1>4, <1>5, <1>6, <1>7, <1>8 DEF Next

\* Whatever the agents, calls and workspaces: promises, records, waits and
\* answers fit together after any number of crashes at any write.
THEOREM Consistency == Spec => []IInv
  BY InitIInv, NextIInv, PTL DEF Spec

\* The state of an operation is always one its schema accepts.
THEOREM TypeCorrect == Spec => []TypeOK
  <1>1. IInv => TypeOK
    BY DEF IInv
  <1> QED BY <1>1, Consistency, PTL

\* The tool of a mutating call is called at most once.
THEOREM CalledAtMostOnce == Spec => []AtMostOnce
  <1>1. IInv => AtMostOnce
    BY DEF IInv, RecordFits, BegunFits, AtMostOnce
  <1> QED BY <1>1, Consistency, PTL

\* At most one mutating tool executes in a workspace, whoever its agent is.
THEOREM OneMutationAtATime == Spec => []MutationsExclusive
  <1>1. IInv => MutationsExclusive
    <2> SUFFICES ASSUME IInv, NEW o \in body, NEW p \in body,
                        mutating(o), mutating(p), place(o) = place(p)
                 PROVE  o = p
      BY DEF MutationsExclusive
    <2>1. o \in Ops /\ p \in Ops
      BY DEF IInv, TypeOK
    <2> QED BY <2>1, OneMutates DEF IInv
  <1> QED BY <1>1, Consistency, PTL

\* No tool mutates a workspace in which another mutation's result is unknown.
THEOREM UnknownStops == Spec => []UnknownBlocksWorkspace
  <1>1. IInv => UnknownBlocksWorkspace
    BY DEF IInv
  <1> QED BY <1>1, Consistency, PTL

\* A mutating call that is failed without the host's word has not begun.
THEOREM FailedIsUndone == Spec => []FailedMeansUntouched
  <1>1. IInv => FailedMeansUntouched
    BY DEF IInv, RecordFits, Untouched, FailedMeansUntouched
  <1> QED BY <1>1, Consistency, PTL

\* What an agent has received of a finished call is its outcome, or it is about
\* to be told.
THEOREM OutcomeIsTold == Spec => []OutcomeTold
  <1>1. IInv => OutcomeTold
    BY DEF IInv, RecordFits, ToldFits, Informed, OutcomeTold
  <1> QED BY <1>1, Consistency, PTL

----------------------------------------------------------------------------
(* Finished calls *)

\* A call that waits for its turn or whose tool is awaited, and that is finished
\* already, has failed; and a tool that may mutate is never awaited by it.
LEMMA FinishedPromise ==
  ASSUME NEW p \in Ops, PromiseFits(p), store[p].state \in Terminal
  PROVE  /\ Queued(p) => /\ store[p].state = "failed"
                         /\ ~ Pending(p, task[p].copy)
         /\ Awaited(p) => store[p].state = "failed" /\ ~ mutating(p) /\ p \in aborted
  BY DEF PromiseFits, QueuedFits, AwaitingFits, Pending, Terminal

\* Every write of a finished call writes the state it has.
LEMMA FinishedStays ==
  ASSUME IInv, Next, NEW p \in Ops, store[p].state \in Terminal
  PROVE  store'[p].state = store[p].state
  <1>1. TypeOK /\ PromiseFits(p) /\ store[p].state \notin {"absent", "running", "unknown",
                                                         "registered", "approval"}
    BY DEF IInv, Terminal
  <1>2. /\ Queued(p) => store[p].state = "failed" /\ ~ Pending(p, task[p].copy)
        /\ Awaited(p) => store[p].state = "failed" /\ ~ mutating(p) /\ p \in aborted
    BY <1>1, FinishedPromise
  <1>3. \A c \in Records \cup {Absent}, s \in States : [c EXCEPT !.state = s].state = s
    BY PutState
  <1>4. task[p].copy \in Records \cup {Absent} /\ "failed" \in States
    BY <1>1, Types DEF States
  <1>5. ASSUME NEW a \in Agents, RoundStep(a) PROVE store'[p].state = store[p].state
    <2>1. Staged(p).state = store[p].state /\ Stored(p).state = store[p].state
      BY <1>1, Staging
    <2>2. ASSUME NEW commit \in BOOLEAN, Stage(a, commit) PROVE store'[p].state = store[p].state
      BY <2>1, <2>2 DEF Stage
    <2>3. ASSUME NEW i \in DOMAIN calls[a], NEW registered \in BOOLEAN, StageCut(a, i, registered)
          PROVE  store'[p].state = store[p].state
      BY <2>1, <2>3 DEF StageCut
    <2> QED BY <1>5, <2>2, <2>3 DEF RoundStep
  <1>6. ASSUME NEW a \in Agents, AgentStep(a) PROVE store'[p].state = store[p].state
    <2>1. Withdrawn(a)[p] = store[p]
      BY <1>1, Withdrawal
    <2> QED BY <1>6, <2>1 DEF AgentStep, Pause, Resume, Cancel, Dismiss, DismissCut, Recover,
                              RecoverDismissed
  <1>7. ASSUME NEW o \in Ops, ExecuteStep(o) PROVE store'[p].state = store[p].state
    <2>1. CASE o # p
      BY <1>1, <1>7, <2>1 DEF ExecuteStep, ExecuteExpired, ExecutePaused, ExecuteRefused,
         ExecuteStart, AbortSeen, Conclude, ConcludeCut, Settle, TypeOK
    <2>2. CASE o = p
      <3>1. CASE ExecuteExpired(p)
        <4>1. Queued(p)
          BY <3>1 DEF ExecuteExpired, Turn, Queued
        <4>2. Expired(task[p].copy).state = "failed" \/ ~ Expirable(task[p].copy)
          BY <1>3, <1>4 DEF Expired
        <4> QED BY <1>1, <1>2, <3>1, <4>1, <4>2 DEF ExecuteExpired, Settle, TypeOK
      <3>2. CASE ExecutePaused(p)
        BY <3>2 DEF ExecutePaused
      <3>3. CASE ExecuteRefused(p) \/ ExecuteStart(p)
        BY <1>2, <3>3 DEF ExecuteRefused, ExecuteStart, MayExecute, Turn, Queued
      <3>4. CASE AbortSeen(p)
        <4>1. Awaited(p) /\ Concluded(p, "aborted") = "failed"
          BY <1>2, <3>4 DEF AbortSeen, Awaited, Concluded
        <4>2. [task[p].copy EXCEPT !.state = "failed"].state = "failed"
          BY <1>3, <1>4
        <4> QED BY <1>1, <1>2, <3>4, <4>1, <4>2 DEF AbortSeen, Conclude, Settle, TypeOK
      <3>5. ASSUME NEW how \in Endings, ConcludeCut(p, how)
            PROVE  store'[p].state = store[p].state
        <4>1. Awaited(p)
          BY <3>5 DEF ConcludeCut, Awaited
        <4>2. Concluded(p, how) = "failed"
          BY <1>2, <3>5, <4>1 DEF ConcludeCut, Concluded
        <4>3. [task[p].copy EXCEPT !.state = "failed"].state = "failed"
          BY <1>3, <1>4
        <4> QED BY <1>1, <1>2, <3>5, <4>1, <4>2, <4>3 DEF ConcludeCut, TypeOK
      <3> QED BY <1>7, <2>2, <3>1, <3>2, <3>3, <3>4, <3>5 DEF ExecuteStep
    <2> QED BY <2>1, <2>2
  <1>8. ASSUME NEW o \in Ops, ToolStep(o) PROVE store'[p].state = store[p].state
    <2>1. CASE ToolActs(o)
      BY <2>1 DEF ToolActs
    <2>2. ASSUME NEW how \in Endings, ToolEnds(o, how) PROVE store'[p].state = store[p].state
      <3>1. CASE task[o].pc = "awaiting" /\ o \notin aborted
        <4>1. o # p
          BY <1>2, <3>1 DEF Awaited
        <4> QED BY <1>1, <2>2, <3>1, <4>1 DEF ToolEnds, Conclude, Settle, TypeOK
      <3>2. CASE ~ (task[o].pc = "awaiting" /\ o \notin aborted)
        BY <2>2, <3>2 DEF ToolEnds
      <3> QED BY <3>1, <3>2
    <2> QED BY <1>8, <2>1, <2>2 DEF ToolStep
  <1>9. ASSUME NEW o \in Ops, WaitStep(o) PROVE store'[p].state = store[p].state
    <2>1. CASE ResolveWait(o)
      <3>1. o = p => Resolved(o) = store[o]
        BY <1>1 DEF Resolved, Expired, Expirable
      <3> QED BY <1>1, <2>1, <3>1 DEF ResolveWait, TypeOK
    <2> QED BY <1>9, <2>1 DEF WaitStep, DeadlinePasses, TimesOut, ReceiveResult,
                              ReceiveReconciliation
  <1>10. ASSUME NEW o \in Ops, HostStep(o) PROVE store'[p].state = store[p].state
    <2>1. o # p
          \/ ~ (store[o].state = "approval" \/ store[o].state = "unknown")
      BY <1>1
    <2>2. store[o].state = "approval" \/ store[o].state = "unknown"
      BY <1>10 DEF HostStep, Approve, ApproveLate, Reconcile, ReconcileCut, Reconcilable
    <2> QED BY <1>1, <1>10, <2>1, <2>2 DEF HostStep, Approve, ApproveLate, Reconcile, ReconcileCut,
                                          TypeOK
  <1>11. CASE Stop \/ Crash \/ Boot
    <2>1. Isolated(p) = store[p]
      BY <1>1 DEF Isolated
    <2> QED BY <1>11, <2>1 DEF Stop, Crash, Boot
  <1> QED BY <1>5, <1>6, <1>7, <1>8, <1>9, <1>10, <1>11 DEF Next

\* A finished call stays as it is: no stale copy held by a promise, no late abort
\* and no repeated round overwrites it.
THEOREM FinishedCallsStay == Spec => FinishedIsFinal
  <1>1. IInv /\ [Next]_vars =>
          [\A o \in Ops : store[o].state \in Terminal => store'[o].state = store[o].state]_vars
    BY FinishedStays
  <1> QED BY <1>1, Consistency, PTL DEF Spec, FinishedIsFinal

================================================================================

--------------------------- MODULE AgentSchedulerProofs ---------------------------
(***************************************************************************)
(* Machine-checked proofs about AgentScheduler, for every set of agents,   *)
(* keys and events and every value of the limits and of the bounds.        *)
(*                                                                         *)
(* The argument.  TypeOK says that no control block was ever asked for an  *)
(* edge outside its table, which is not inductive: it rests on what the    *)
(* maps of a record say about its state (Coherent), and, because register  *)
(* rebuilds a record, on what the checkpoint says (CoherentCheckpoint).    *)
(* Every method of the scheduler works on one record and ends in #persist, *)
(* so one lemma on #reconcile and one on #persist carry all of them.       *)
(***************************************************************************)
EXTENDS AgentSchedulerProperties, QueueLemmas

\* The provers that a leaf is given, in turn.
USE SMT, Zenon, SMTT(6), SMTT(7), SMTT(8)

ViewType == [r : RecordType, q : Seq(Agents), nb : Nat, signal : BOOLEAN]

HistType == [issued : SUBSET Operations, acked : SUBSET Operations,
             owed : SUBSET (Agents \X Events)]

\* A record between two calls.
Coherent(r) ==
  /\ r.state = StateOf(r)
  /\ HasRun(r) => HasBatch(r)
  /\ r.continuation => ~HasBatch(r) /\ r.suspension # "none"
  /\ r.completed # {} <=> r.batchDueAt # "null"
  /\ r.suspension = "none" /\ ~HasBatch(r) =>
       r.events = {} /\ (r.completed # {} => r.pending # {})

\* What the checkpoint keeps of it: enough for register to find an edge.
CoherentCheckpoint(c) ==
  /\ c.continuation => c.batch = NoBatch /\ c.suspension # "none"
  /\ c.completed # {} <=> c.batchDueAt # "null"
  /\ c.suspension = "none" /\ c.batch = NoBatch =>
       /\ c.events = {}
       /\ c.completed # {} => c.pending # {}
       /\ c.pending = {} => c.state = "SLEEPING"

\* A record on which #reconcile may be called: from its state there is an edge
\* to the one #reconcile chooses.
Reconcilable(r) ==
  /\ HasRun(r) => HasBatch(r) /\ r.state = "RUNNING"
  /\ r.continuation => ~HasBatch(r)
  /\ r.completed # {} <=> r.batchDueAt # "null"
  /\ /\ r.suspension = "none"
     /\ ~HasBatch(r) /\ ~r.continuation /\ r.events = {} /\ ~ResultsReady(r)
     => IF r.pending # {} THEN r.state # "SLEEPING" ELSE r.state \in {"RUNNING", "SLEEPING"}

\* A record whose batch can be taken.
Dispatchable(r) == HasBatch(r) /\ ~HasRun(r) /\ r.suspension = "none"

\* The queue of a view is right about its agent.
QueueFits(a, v) == Distinct(v.q) /\ (a \in ToSet(v.q) <=> Dispatchable(v.r))

\* From v to n an agent that is not suspended is queued exactly when it is
\* given a batch, and keeps its run.
Enqueued(a, v, n) ==
  /\ n.r.run = v.r.run /\ n.r.suspension = "none"
  /\ IF HasBatch(v.r) THEN HasBatch(n.r) /\ n.q = v.q
     ELSE n.q = IF HasBatch(n.r) THEN Append(v.q, a) ELSE v.q

----------------------------------------------------------------------------
(* The private methods *)

\* Goto takes an edge of the control block's table to the state asked for.
LEMMA GotoType ==
  ASSUME NEW r \in RecordType, NEW next \in AgentState,
         r.state = next \/ canAgentTransition(r.state, next)
  PROVE  /\ Goto(r, next) \in RecordType
         /\ Goto(r, next) = [r EXCEPT !.state = next]
  BY DEF Goto, transition, canAgentTransition, RecordType

\* #armTimer changes the timer and nothing a coherent record depends on.
LEMMA ArmTimerType ==
  ASSUME NEW r \in RecordType
  PROVE  /\ ArmTimer(r) \in RecordType
         /\ Coherent(r) => Coherent(ArmTimer(r))
         /\ ArmTimer(r).run = r.run /\ ArmTimer(r).batch = r.batch
         /\ ArmTimer(r).suspension = r.suspension
  <1>1. ArmTimer(r) \in RecordType
    BY DEF ArmTimer, RecordType, HasBatch
  <1>2. \A f \in {"state", "pending", "completed", "events", "batch", "run",
                  "continuation", "batchDueAt", "suspension"} : ArmTimer(r)[f] = r[f]
    BY DEF ArmTimer, RecordType
  <1> QED
    BY <1>1, <1>2 DEF Coherent, StateOf, HasBatch, HasRun

\* #seal moves everything collected into a batch that owns it.
LEMMA SealType ==
  ASSUME NEW a \in Agents, NEW v \in ViewType
  PROVE  LET n == Seal(a, v) IN
         /\ n \in ViewType
         /\ HasBatch(n.r) /\ n.r.state = "READY" /\ ~n.r.continuation
         /\ n.r.completed = {} /\ n.r.batchDueAt = "null"
         /\ n.r.run = v.r.run /\ n.r.suspension = v.r.suspension
         /\ n.q = Append(v.q, a)
  <1> DEFINE r == v.r
             batch == [id |-> v.nb, results |-> r.completed, events |-> r.events]
             sealed == [[r EXCEPT !.state = "READY"] EXCEPT
                          !.completed = {}, !.events = {}, !.batch = batch,
                          !.batchDueAt = "null", !.continuation = FALSE]
  <1>1. r \in RecordType /\ v.q \in Seq(Agents) /\ v.nb \in Nat /\ v.signal \in BOOLEAN
    BY DEF ViewType
  <1>2. Goto(r, "READY") = [r EXCEPT !.state = "READY"]
    <2>1. r.state \in AgentState
      BY <1>1 DEF RecordType
    <2>2. r.state = "READY" \/ canAgentTransition(r.state, "READY")
      BY <2>1 DEF canAgentTransition, transitions, AgentState
    <2> QED BY <1>1, <2>2, GotoType DEF AgentState
  <1>3. batch \in Batches /\ batch # NoBatch
    BY <1>1 DEF RecordType, Batches, NoBatch
  <1>4. /\ sealed \in RecordType
        /\ sealed.batch = batch /\ sealed.state = "READY" /\ sealed.continuation = FALSE
        /\ sealed.completed = {} /\ sealed.batchDueAt = "null"
        /\ sealed.run = r.run /\ sealed.suspension = r.suspension
    BY <1>1, <1>3 DEF RecordType, AgentState, Instants
  <1>5. Append(v.q, a) \in Seq(Agents)
    BY <1>1
  <1>6. Seal(a, v) = [v EXCEPT !.r = sealed, !.q = Append(v.q, a), !.nb = v.nb + 1]
    BY <1>1, <1>2 DEF Seal, ViewType
  <1> HIDE DEF sealed, batch
  <1>7. /\ Seal(a, v).r = sealed /\ Seal(a, v).q = Append(v.q, a)
        /\ Seal(a, v) \in ViewType
    <2>1. sealed \in RecordType /\ v.nb + 1 \in Nat
      BY <1>1, <1>4
    <2> QED BY <1>5, <1>6, <2>1 DEF ViewType
  <1> QED BY <1>3, <1>4, <1>7 DEF HasBatch

\* A view of another record.
LEMMA ViewOf ==
  ASSUME NEW v \in ViewType, NEW n \in RecordType
  PROVE  /\ [v EXCEPT !.r = n] \in ViewType /\ [v EXCEPT !.r = n].r = n
         /\ [v EXCEPT !.r = n].q = v.q
  BY DEF ViewType

\* #reconcile of an agent that is not suspended leaves a coherent record.
LEMMA ReconcileActiveType ==
  ASSUME NEW a \in Agents, NEW v \in ViewType,
         v.r.suspension = "none", Reconcilable(v.r)
  PROVE  /\ ReconcileActive(a, v) \in ViewType
         /\ Coherent(ReconcileActive(a, v).r)
         /\ Enqueued(a, v, ReconcileActive(a, v))
  <1> DEFINE r == v.r
             wants  == r.continuation \/ r.events # {} \/ ResultsReady(r)
             ready  == IF HasBatch(r) /\ ~HasRun(r) THEN [v EXCEPT !.r = Goto(r, "READY")] ELSE v
             idle   == Goto(r, IF r.pending # {} THEN "BLOCKED" ELSE "SLEEPING")
             chosen == IF HasBatch(r) THEN ready
                       ELSE IF wants THEN Seal(a, v) ELSE [v EXCEPT !.r = idle]
  <1>1. r \in RecordType /\ v.q \in Seq(Agents) /\ v.nb \in Nat /\ v.signal \in BOOLEAN
    BY DEF ViewType
  <1>2. r.state \in AgentState /\ r.continuation \in BOOLEAN
    BY <1>1 DEF RecordType
  <1>3. chosen \in ViewType /\ Coherent(chosen.r) /\ Enqueued(a, v, chosen)
    <2>1. CASE HasBatch(r) /\ ~HasRun(r)
      <3>1. r.state = "READY" \/ canAgentTransition(r.state, "READY")
        BY <1>2 DEF canAgentTransition, transitions, AgentState
      <3>2. Goto(r, "READY") = [r EXCEPT !.state = "READY"] /\ Goto(r, "READY") \in RecordType
        BY <1>1, <3>1, GotoType DEF AgentState
      <3>3. chosen = [v EXCEPT !.r = [r EXCEPT !.state = "READY"]]
        BY <2>1, <3>2
      <3>4. chosen \in ViewType /\ chosen.r = [r EXCEPT !.state = "READY"] /\ chosen.q = v.q
        BY <1>1, <3>2, <3>3 DEF ViewType
      <3>5. /\ chosen.r.state = "READY"
            /\ \A f \in {"pending", "completed", "events", "batch", "run", "continuation",
                         "batchDueAt", "suspension"} : chosen.r[f] = r[f]
        BY <1>1, <3>4 DEF RecordType
      <3> HIDE DEF chosen
      <3> QED
        BY <2>1, <3>4, <3>5 DEF Coherent, Reconcilable, Enqueued, StateOf, HasBatch, HasRun
    <2>2. CASE HasBatch(r) /\ HasRun(r)
      <3>1. chosen = v
        BY <2>2
      <3>2. Coherent(v.r) /\ Enqueued(a, v, v)
        BY <2>2 DEF Coherent, Reconcilable, Enqueued, StateOf
      <3> QED BY <3>1, <3>2
    <2>3. CASE ~HasBatch(r) /\ wants
      <3>1. chosen = Seal(a, v)
        BY <2>3
      <3>2. ~HasRun(r)
        BY <2>3 DEF Reconcilable
      <3>3. /\ Seal(a, v) \in ViewType /\ Coherent(Seal(a, v).r)
            /\ Enqueued(a, v, Seal(a, v))
        BY <2>3, <3>2, SealType DEF Coherent, Enqueued, StateOf, HasRun
      <3> QED BY <3>1, <3>3
    <2>4. CASE ~HasBatch(r) /\ ~wants
      <3> DEFINE next == IF r.pending # {} THEN "BLOCKED" ELSE "SLEEPING"
      <3>1. next \in AgentState /\ (r.state = next \/ canAgentTransition(r.state, next))
        BY <1>2, <2>4 DEF Reconcilable, canAgentTransition, transitions, AgentState
      <3>2. idle = [r EXCEPT !.state = next] /\ idle \in RecordType
        BY <1>1, <3>1, GotoType
      <3>3. chosen = [v EXCEPT !.r = [r EXCEPT !.state = next]]
        BY <2>4, <3>2
      <3>4. chosen \in ViewType /\ chosen.r = [r EXCEPT !.state = next] /\ chosen.q = v.q
        <4>1. PICK n : n = [r EXCEPT !.state = next]
          OBVIOUS
        <4>2. n \in RecordType /\ chosen = [v EXCEPT !.r = n]
          BY <3>2, <3>3, <4>1
        <4> HIDE DEF chosen, next
        <4> QED BY <4>1, <4>2, ViewOf
      <3>5. /\ ~r.continuation /\ r.events = {} /\ ~HasRun(r)
            /\ r.completed # {} => r.pending # {}
            /\ r.completed # {} <=> r.batchDueAt # "null"
        BY <2>4 DEF Reconcilable, ResultsReady
      <3>6. /\ chosen.r.state = next
            /\ \A f \in {"pending", "completed", "events", "batch", "run", "continuation",
                         "batchDueAt", "suspension"} : chosen.r[f] = r[f]
        BY <1>1, <3>4 DEF RecordType
      <3> HIDE DEF chosen
      <3> QED BY <2>4, <3>4, <3>5, <3>6 DEF Coherent, Enqueued, StateOf, HasBatch, HasRun
    <2> QED BY <2>1, <2>2, <2>3, <2>4
  <1>4. ReconcileActive(a, v) = [chosen EXCEPT !.r = ArmTimer(chosen.r), !.signal = TRUE]
    BY DEF ReconcileActive
  <1> HIDE DEF chosen
  <1>5. /\ ArmTimer(chosen.r) \in RecordType /\ Coherent(ArmTimer(chosen.r))
        /\ ArmTimer(chosen.r).run = chosen.r.run /\ ArmTimer(chosen.r).batch = chosen.r.batch
        /\ ArmTimer(chosen.r).suspension = chosen.r.suspension
    BY <1>3, ArmTimerType DEF ViewType
  <1>6. /\ ReconcileActive(a, v) \in ViewType
        /\ ReconcileActive(a, v).r = ArmTimer(chosen.r)
        /\ ReconcileActive(a, v).q = chosen.q
    BY <1>3, <1>4, <1>5 DEF ViewType
  <1> QED BY <1>3, <1>5, <1>6 DEF Enqueued, HasBatch

\* A suspended agent without a run is put in BLOCKED from every state.
LEMMA ParkedType ==
  ASSUME NEW r \in RecordType, Reconcilable(r), r.suspension # "none"
  PROVE  /\ Parked(r) \in RecordType /\ Coherent(Parked(r))
         /\ Parked(r).suspension = r.suspension
  <1>1. CASE HasRun(r)
    BY <1>1 DEF Parked, Coherent, Reconcilable, StateOf
  <1>2. CASE ~HasRun(r)
    <2> DEFINE up == IF r.state = "SLEEPING" THEN Goto(r, "READY") ELSE r
    <2>1. /\ up \in RecordType
          /\ up.state = "BLOCKED" \/ canAgentTransition(up.state, "BLOCKED")
          /\ [up EXCEPT !.state = "BLOCKED"] = [r EXCEPT !.state = "BLOCKED"]
      <3>1. CASE r.state = "SLEEPING"
        <4>1. up = [r EXCEPT !.state = "READY"] /\ up \in RecordType
          BY <3>1, GotoType DEF canAgentTransition, transitions, AgentState
        <4> QED BY <4>1 DEF RecordType, canAgentTransition, transitions, AgentState
      <3>2. CASE r.state # "SLEEPING"
        BY <3>2 DEF RecordType, canAgentTransition, transitions, AgentState
      <3> QED BY <3>1, <3>2
    <2> HIDE DEF up
    <2>2. /\ Goto(up, "BLOCKED") = [r EXCEPT !.state = "BLOCKED"]
          /\ Goto(up, "BLOCKED") \in RecordType
      BY <2>1, GotoType DEF AgentState
    <2>3. Parked(r) = Goto(up, "BLOCKED")
      BY <1>2 DEF Parked, up
    <2>4. Parked(r) \in RecordType /\ Parked(r) = [r EXCEPT !.state = "BLOCKED"]
      BY <2>2, <2>3
    <2>5. /\ Parked(r).state = "BLOCKED"
          /\ \A f \in {"pending", "completed", "events", "batch", "run", "continuation",
                       "batchDueAt", "suspension"} : Parked(r)[f] = r[f]
      BY <2>4 DEF RecordType
    <2> QED BY <1>2, <2>4, <2>5 DEF Coherent, Reconcilable, StateOf, HasBatch, HasRun
  <1> QED BY <1>1, <1>2

\* resume hands #reconcile a record it can reconcile: without a batch it sets
\* continuation, and so never asks for BLOCKED -> SLEEPING.
LEMMA ResumedType ==
  ASSUME NEW a \in Agents, NEW v \in ViewType, Reconcilable(v.r)
  PROVE  /\ Resumed(a, v) \in ViewType
         /\ Resumed(a, v).r.suspension = "none"
         /\ Reconcilable(Resumed(a, v).r)
         /\ HasBatch(Resumed(a, v).r) <=> HasBatch(v.r)
         /\ Resumed(a, v).r.run = v.r.run
         /\ Resumed(a, v).q = IF HasBatch(v.r) /\ ~HasRun(v.r) THEN Append(v.q, a) ELSE v.q
  <1> DEFINE r == [v.r EXCEPT !.suspension = "none"]
             t == IF r.state = "BLOCKED" THEN Goto(r, "READY") ELSE r
             u == IF HasBatch(t) THEN t ELSE [t EXCEPT !.continuation = TRUE]
             q == IF HasBatch(t) /\ ~HasRun(t) THEN Append(v.q, a) ELSE v.q
  <1>1. v.r \in RecordType /\ v.q \in Seq(Agents) /\ v.nb \in Nat /\ v.signal \in BOOLEAN
    BY DEF ViewType
  <1>2. /\ r \in RecordType /\ r.suspension = "none"
        /\ \A f \in {"state", "pending", "completed", "events", "batch", "run", "continuation",
                     "batchDueAt"} : r[f] = v.r[f]
    BY <1>1 DEF RecordType, Suspensions
  <1> HIDE DEF r
  <1>3. /\ t \in RecordType /\ t.suspension = "none"
        /\ \A f \in {"pending", "completed", "events", "batch", "run", "continuation",
                     "batchDueAt"} : t[f] = v.r[f]
        /\ v.r.state = "RUNNING" => t.state = "RUNNING"
    <2>1. CASE r.state = "BLOCKED"
      <3>1. t = [r EXCEPT !.state = "READY"] /\ t \in RecordType
        BY <1>2, <2>1, GotoType DEF canAgentTransition, transitions, AgentState
      <3> QED BY <1>2, <2>1, <3>1 DEF RecordType
    <2>2. CASE r.state # "BLOCKED"
      BY <1>2, <2>2
    <2> QED BY <2>1, <2>2
  <1> HIDE DEF t
  <1>4. /\ u \in RecordType /\ u.suspension = "none"
        /\ \A f \in {"pending", "completed", "events", "batch", "run", "batchDueAt"} :
             u[f] = v.r[f]
        /\ v.r.state = "RUNNING" => u.state = "RUNNING"
        /\ u.continuation = IF HasBatch(v.r) THEN v.r.continuation ELSE TRUE
    BY <1>3 DEF RecordType, HasBatch
  <1> HIDE DEF u
  <1>5. Reconcilable(u)
    BY <1>4 DEF Reconcilable, HasBatch, HasRun
  <1>6. /\ q \in Seq(Agents)
        /\ q = IF HasBatch(v.r) /\ ~HasRun(v.r) THEN Append(v.q, a) ELSE v.q
    BY <1>1, <1>3 DEF HasBatch, HasRun
  <1> HIDE DEF q
  <1>7. Resumed(a, v) = [v EXCEPT !.r = u, !.q = q]
    BY DEF Resumed, r, t, u, q, ViewType
  <1>8. Resumed(a, v) \in ViewType /\ Resumed(a, v).r = u /\ Resumed(a, v).q = q
    BY <1>4, <1>6, <1>7 DEF ViewType
  <1> QED BY <1>4, <1>5, <1>6, <1>8 DEF HasBatch

\* Queueing an agent when, and only when, it is given a batch to dispatch
\* keeps the queue right.
LEMMA EnqueuedFits ==
  ASSUME NEW a \in Agents, NEW v \in ViewType, NEW n \in ViewType,
         v.r.suspension = "none", QueueFits(a, v), Enqueued(a, v, n),
         HasRun(v.r) => HasBatch(v.r)
  PROVE  QueueFits(a, n) /\ ToSet(n.q) \ {a} = ToSet(v.q) \ {a}
  <1>1. v.q \in Seq(Agents) /\ Distinct(v.q)
    BY DEF ViewType, QueueFits
  <1>2. CASE n.q = v.q
    <2>1. v.q # Append(v.q, a)
      BY <1>1
    <2>2. HasBatch(n.r) <=> HasBatch(v.r)
      BY <1>2, <2>1 DEF Enqueued
    <2> QED BY <1>2, <2>2 DEF QueueFits, Enqueued, Dispatchable, HasRun
  <1>3. CASE n.q # v.q
    <2>1. ~HasBatch(v.r) /\ HasBatch(n.r) /\ n.q = Append(v.q, a)
      BY <1>3 DEF Enqueued
    <2>2. a \notin ToSet(v.q) /\ ~HasRun(n.r)
      BY <2>1 DEF QueueFits, Dispatchable, Enqueued, HasRun
    <2>3. Distinct(n.q) /\ ToSet(n.q) = ToSet(v.q) \cup {a}
      BY <1>1, <2>1, <2>2, AppendDistinct
    <2> QED BY <2>1, <2>2, <2>3 DEF QueueFits, Dispatchable, Enqueued
  <1> QED BY <1>2, <1>3

\* resume queues the batch kept through the suspension, once.
LEMMA ResumedFits ==
  ASSUME NEW a \in Agents, NEW v \in ViewType, Reconcilable(v.r),
         v.r.suspension # "none", QueueFits(a, v)
  PROVE  /\ QueueFits(a, Resumed(a, v))
         /\ ToSet(Resumed(a, v).q) \ {a} = ToSet(v.q) \ {a}
  <1>1. v.q \in Seq(Agents) /\ Distinct(v.q) /\ a \notin ToSet(v.q)
    BY DEF ViewType, QueueFits, Dispatchable
  <1>2. /\ Distinct(Append(v.q, a)) /\ ToSet(Append(v.q, a)) = ToSet(v.q) \cup {a}
    BY <1>1, AppendDistinct
  <1> QED BY <1>1, <1>2, ResumedType DEF QueueFits, Dispatchable, HasRun

\* resume, and what #reconcile does when a timed suspension is over.
LEMMA ResumeType ==
  ASSUME NEW a \in Agents, NEW v \in ViewType, Reconcilable(v.r),
         v.r.suspension # "none", QueueFits(a, v)
  PROVE  LET n == ReconcileActive(a, Resumed(a, v)) IN
         /\ n \in ViewType /\ Coherent(n.r)
         /\ QueueFits(a, n) /\ ToSet(n.q) \ {a} = ToSet(v.q) \ {a}
  <1> DEFINE u == Resumed(a, v)
             n == ReconcileActive(a, u)
  <1>1. /\ u \in ViewType /\ u.r.suspension = "none" /\ Reconcilable(u.r)
        /\ QueueFits(a, u) /\ ToSet(u.q) \ {a} = ToSet(v.q) \ {a}
    BY ResumedType, ResumedFits
  <1> HIDE DEF u
  <1>2. n \in ViewType /\ Coherent(n.r) /\ Enqueued(a, u, n)
    BY <1>1, ReconcileActiveType
  <1>3. HasRun(u.r) => HasBatch(u.r)
    BY <1>1 DEF Reconcilable
  <1> HIDE DEF n
  <1>4. QueueFits(a, n) /\ ToSet(n.q) \ {a} = ToSet(u.q) \ {a}
    BY <1>1, <1>2, <1>3, EnqueuedFits
  <1> QED BY <1>1, <1>2, <1>4 DEF n, u

\* #reconcile turns every record its callers leave into a coherent one, and
\* keeps the queue right.
LEMMA ReconcileType ==
  ASSUME NEW a \in Agents, NEW v \in ViewType, Reconcilable(v.r), QueueFits(a, v)
  PROVE  LET n == Reconcile(a, v) IN
         /\ n \in ViewType /\ Coherent(n.r)
         /\ QueueFits(a, n) /\ ToSet(n.q) \ {a} = ToSet(v.q) \ {a}
  <1>1. CASE v.r.suspension = "none"
    <2>1. Reconcile(a, v) = ReconcileActive(a, v)
      BY <1>1 DEF Reconcile
    <2> DEFINE n == ReconcileActive(a, v)
    <2>2. n \in ViewType /\ Coherent(n.r) /\ Enqueued(a, v, n)
      BY <1>1, ReconcileActiveType
    <2>3. HasRun(v.r) => HasBatch(v.r)
      BY DEF Reconcilable
    <2> HIDE DEF n
    <2>4. QueueFits(a, n) /\ ToSet(n.q) \ {a} = ToSet(v.q) \ {a}
      BY <1>1, <2>2, <2>3, EnqueuedFits
    <2> QED BY <2>1, <2>2, <2>4 DEF n
  <1>2. CASE v.r.suspension = "passed"
    <2>1. Reconcile(a, v) = ReconcileActive(a, Resumed(a, v))
      BY <1>2 DEF Reconcile
    <2> QED BY <1>2, <2>1, ResumeType
  <1>3. CASE v.r.suspension \notin {"none", "passed"}
    <2> DEFINE p == ArmTimer(Parked(v.r))
    <2>1. v.r \in RecordType
      BY DEF ViewType
    <2>2. p \in RecordType /\ Coherent(p) /\ p.suspension # "none"
      BY <1>3, <2>1, ParkedType, ArmTimerType
    <2>3. Reconcile(a, v) = [v EXCEPT !.r = p]
      BY <1>3 DEF Reconcile
    <2> HIDE DEF p
    <2>4. Reconcile(a, v) \in ViewType /\ Reconcile(a, v).r = p /\ Reconcile(a, v).q = v.q
      BY <2>2, <2>3 DEF ViewType
    <2> QED BY <1>3, <2>2, <2>4 DEF QueueFits, Dispatchable
  <1> QED BY <1>1, <1>2, <1>3

----------------------------------------------------------------------------
(* The inductive invariant *)

Scalars ==
  /\ running \in Int
  /\ waiting \in BOOLEAN /\ failure \in BOOLEAN /\ closed \in BOOLEAN
  /\ expired \subseteq Operations
  /\ nextRun \in Nat /\ nextBatch \in Nat /\ restarts \in Nat /\ suspensions \in Nat
  /\ hist \in HistType

CoherentRecords == \A a \in Agents : rec[a] # Unregistered => Coherent(rec[a])

CoherentDisk == \A a \in Agents : disk[a] # NotSaved => CoherentCheckpoint(disk[a])

QueueRight ==
  /\ Distinct(queue)
  /\ \A a \in Agents :
       a \in ToSet(queue) <=> rec[a] # Unregistered /\ Dispatchable(rec[a])

IInv == TypeOK /\ CoherentRecords /\ CoherentDisk /\ QueueRight /\ DiskInSync

\* A record is not the mark of an agent that is not registered, nor is a
\* checkpoint the mark of one that was never saved.
LEMMA MarksAreNoRecords ==
  /\ \A r \in RecordType : r # Unregistered
  /\ \A c \in CheckpointType : c # NotSaved
  BY DEF RecordType, CheckpointType, Unregistered, NotSaved, AgentState

\* The checkpoint of a coherent record is coherent.
LEMMA CheckpointOfRecord ==
  ASSUME NEW r \in RecordType
  PROVE  /\ Checkpoint(r) \in CheckpointType
         /\ Coherent(r) => CoherentCheckpoint(Checkpoint(r))
  <1>1. Checkpoint(r) \in CheckpointType
    BY DEF Checkpoint, CheckpointType, RecordType
  <1>2. ASSUME Coherent(r) PROVE CoherentCheckpoint(Checkpoint(r))
    BY <1>2 DEF Checkpoint, Coherent, CoherentCheckpoint, StateOf, HasBatch, HasRun
  <1> QED BY <1>1, <1>2

\* The record of a registered agent has its type, and can be reconciled as it is.
LEMMA RegisteredRecord ==
  ASSUME IInv, NEW a \in Registered
  PROVE  /\ a \in Agents
         /\ rec[a] \in RecordType /\ Coherent(rec[a]) /\ Reconcilable(rec[a])
         /\ queue \in Seq(Agents) /\ Distinct(queue)
         /\ a \in ToSet(queue) <=> Dispatchable(rec[a])
  <1>1. a \in Agents /\ rec[a] # Unregistered
    BY DEF Registered
  <1>2. rec[a] \in RecordType /\ Coherent(rec[a])
    BY <1>1 DEF IInv, TypeOK, CoherentRecords
  <1>3. Reconcilable(rec[a])
    BY <1>2 DEF Coherent, Reconcilable, StateOf
  <1> QED BY <1>1, <1>2, <1>3 DEF IInv, TypeOK, QueueRight

\* Every method that saves: a coherent record, a right queue and its checkpoint,
\* or a failure and nothing else.
PersistStep(a) ==
  /\ closed' = closed
  /\ \/ \E w \in ViewType :
          /\ Coherent(w.r) /\ QueueFits(a, w) /\ ToSet(w.q) \ {a} = ToSet(queue) \ {a}
          /\ rec' = [rec EXCEPT ![a] = w.r]
          /\ queue' = w.q
          /\ disk' = [disk EXCEPT ![a] = Checkpoint(w.r)]
          /\ failure' = failure
     \/ failure' = TRUE /\ UNCHANGED <<rec, queue, disk>>

\* #persist preserves the invariant.
LEMMA PersistStepInv ==
  ASSUME IInv, NEW a \in Agents, PersistStep(a), Scalars'
  PROVE  IInv'
  <1>1. CASE failure' = TRUE /\ UNCHANGED <<rec, queue, disk>>
    BY <1>1 DEF IInv, TypeOK, Scalars, HistType, CoherentRecords, CoherentDisk, QueueRight,
                DiskInSync, Available
  <1>2. ASSUME NEW w \in ViewType, Coherent(w.r), QueueFits(a, w),
               ToSet(w.q) \ {a} = ToSet(queue) \ {a},
               rec' = [rec EXCEPT ![a] = w.r], queue' = w.q,
               disk' = [disk EXCEPT ![a] = Checkpoint(w.r)],
               failure' = failure, closed' = closed
        PROVE  IInv'
    <2>1. w.r \in RecordType /\ w.q \in Seq(Agents) /\ w.r # Unregistered
      BY MarksAreNoRecords DEF ViewType
    <2>2. /\ Checkpoint(w.r) \in CheckpointType /\ CoherentCheckpoint(Checkpoint(w.r))
          /\ Checkpoint(w.r) # NotSaved
      BY <1>2, <2>1, CheckpointOfRecord, MarksAreNoRecords
    <2>3. /\ rec \in [Agents -> RecordType \cup {Unregistered}]
          /\ disk \in [Agents -> CheckpointType \cup {NotSaved}]
      BY DEF IInv, TypeOK
    <2>4. /\ rec' \in [Agents -> RecordType \cup {Unregistered}] /\ rec'[a] = w.r
          /\ disk' \in [Agents -> CheckpointType \cup {NotSaved}] /\ disk'[a] = Checkpoint(w.r)
          /\ \A b \in Agents \ {a} : rec'[b] = rec[b] /\ disk'[b] = disk[b]
      BY <1>2, <2>1, <2>2, <2>3
    <2>5. TypeOK'
      BY <1>2, <2>1, <2>4 DEF TypeOK, Scalars, HistType
    <2>6. CoherentRecords' /\ CoherentDisk'
      BY <1>2, <2>2, <2>4 DEF IInv, CoherentRecords, CoherentDisk
    <2>7. QueueRight'
      <3>1. Distinct(queue') /\ (a \in ToSet(queue') <=> Dispatchable(rec'[a]))
        BY <1>2, <2>4 DEF QueueFits
      <3>2. ASSUME NEW b \in Agents \ {a}
            PROVE b \in ToSet(queue') <=> rec'[b] # Unregistered /\ Dispatchable(rec'[b])
        BY <1>2, <2>4 DEF IInv, QueueRight
      <3> QED BY <2>1, <2>4, <3>1, <3>2 DEF QueueRight
    <2>8. DiskInSync'
      BY <1>2, <2>4 DEF IInv, DiskInSync, Available, Registered
    <2> QED BY <2>5, <2>6, <2>7, <2>8 DEF IInv
  <1> QED BY <1>1, <1>2 DEF PersistStep

----------------------------------------------------------------------------
(* The public methods, one lemma each *)

\* The view of a record that fits the queue is reconciled to a step of #persist.
LEMMA ReconciledView ==
  ASSUME NEW a \in Agents, NEW r \in RecordType, NEW q \in Seq(Agents),
         Reconcilable(r), Distinct(q), a \in ToSet(q) <=> Dispatchable(r),
         nextBatch \in Nat
  PROVE  LET n == Reconcile(a, View(r, q)) IN
         /\ n \in ViewType /\ Coherent(n.r)
         /\ QueueFits(a, n) /\ ToSet(n.q) \ {a} = ToSet(q) \ {a}
  <1> DEFINE v == View(r, q)
  <1>1. v \in ViewType /\ v.r = r /\ v.q = q
    BY DEF View, ViewType
  <1> HIDE DEF v
  <1>2. QueueFits(a, v)
    BY <1>1 DEF QueueFits
  <1> QED BY <1>1, <1>2, ReconcileType DEF v

\* register: the record rebuilt from a coherent checkpoint can be reconciled,
\* whatever state the host's control block starts in.
LEMMA RestoredIsReconcilable ==
  ASSUME NEW needsRun \in BOOLEAN, NEW saved \in CheckpointType \cup {NotSaved},
         saved # NotSaved => CoherentCheckpoint(saved)
  PROVE  LET state == HostState(saved, needsRun)
             r == IF saved = NotSaved THEN FreshRecord(state)
                                      ELSE RestoredRecord(state, saved)
         IN r \in RecordType /\ Reconcilable(r) /\ ~HasRun(r)
  <1> DEFINE state == HostState(saved, needsRun)
  <1>1. state \in {"READY", "SLEEPING"}
    BY DEF HostState
  <1>2. CASE saved = NotSaved
    <2> DEFINE r == FreshRecord(state)
    <2>1. r \in RecordType
      <3>1. /\ <<>> \in Seq(Events) /\ (state = "READY") \in BOOLEAN /\ state \in AgentState
            /\ "null" \in Instants /\ "none" \in Suspensions
        BY <1>1 DEF AgentState, Instants, Suspensions
      <3> HIDE DEF state
      <3> QED BY <3>1 DEF FreshRecord, RecordType
    <2>2. Reconcilable(r) /\ ~HasRun(r)
      BY <1>1 DEF FreshRecord, Reconcilable, ResultsReady, HasBatch, HasRun
    <2> QED BY <1>2, <2>1, <2>2
  <1>3. CASE saved # NotSaved
    <2> DEFINE r == RestoredRecord(state, saved)
    <2>1. saved \in CheckpointType /\ CoherentCheckpoint(saved)
      BY <1>3
    <2>2. r \in RecordType
      BY <1>1, <2>1 DEF RestoredRecord, RecordType, CheckpointType, AgentState
    <2>3. ~HasRun(r) /\ r.state = state
      BY DEF RestoredRecord, HasRun
    <2>4. Reconcilable(r)
      <3>1. /\ \A f \in {"pending", "completed", "events", "batch", "batchDueAt", "suspension"} :
                 r[f] = saved[f]
            /\ r.continuation <=>
                 \/ saved.continuation
                 \/ /\ state = "READY" /\ saved.state = "SLEEPING"
                    /\ saved.batch = NoBatch /\ saved.pending = {}
                    /\ saved.completed = {} /\ saved.events = {}
        BY <2>1 DEF RestoredRecord, CheckpointType
      <3>2. saved.pending # {} => state = "READY"
        BY <1>3 DEF HostState
      <3> HIDE DEF r, state
      <3> QED
        BY <1>1, <2>1, <2>3, <3>1, <3>2
        DEF CoherentCheckpoint, Reconcilable, ResultsReady, HasBatch
    <2> QED BY <1>3, <2>2, <2>3, <2>4
  <1> QED BY <1>2, <1>3

\* register: a fresh or restored record is reconcilable, and joins the queue only with its batch.
LEMMA RegisterInv ==
  ASSUME IInv, NEW a \in Agents, NEW needsRun \in BOOLEAN, Register(a, needsRun)
  PROVE  IInv'
  <1> DEFINE saved == disk[a]
             state == HostState(saved, needsRun)
             r == IF saved = NotSaved THEN FreshRecord(state) ELSE RestoredRecord(state, saved)
             q == IF HasBatch(r) /\ r.suspension = "none" THEN Append(queue, a) ELSE queue
             v == Reconcile(a, View(r, q))
  <1>1. r \in RecordType /\ Reconcilable(r) /\ ~HasRun(r)
    <2>1. saved \in CheckpointType \cup {NotSaved} /\ (saved # NotSaved => CoherentCheckpoint(saved))
      BY DEF IInv, TypeOK, CoherentDisk
    <2> QED BY <2>1, RestoredIsReconcilable
  <1>2. /\ q \in Seq(Agents) /\ Distinct(q) /\ (a \in ToSet(q) <=> Dispatchable(r))
        /\ ToSet(q) \ {a} = ToSet(queue) \ {a}
    <2>1. queue \in Seq(Agents) /\ Distinct(queue) /\ a \notin ToSet(queue)
      BY DEF IInv, TypeOK, QueueRight, Register
    <2>2. /\ Append(queue, a) \in Seq(Agents) /\ Distinct(Append(queue, a))
          /\ ToSet(Append(queue, a)) = ToSet(queue) \cup {a}
      BY <2>1, AppendDistinct
    <2> HIDE DEF r
    <2> QED BY <1>1, <2>1, <2>2 DEF Dispatchable
  <1>3. Persist(a, v, running, hist) /\ UNCHANGED <<closed, expired, nextRun, restarts, suspensions>>
    BY DEF Register
  <1> HIDE DEF r, q
  <1>4. /\ v \in ViewType /\ Coherent(v.r)
        /\ QueueFits(a, v) /\ ToSet(v.q) \ {a} = ToSet(queue) \ {a}
    BY <1>1, <1>2, ReconciledView DEF IInv, TypeOK
  <1> HIDE DEF v
  <1>5. PersistStep(a) /\ Scalars'
    BY <1>3, <1>4 DEF Persist, PersistStep, IInv, TypeOK, Scalars, HistType, ViewType
  <1> QED BY <1>5, PersistStepInv

\* #recordResult moves operations from pending to completed and opens the batch
\* window with the first of them.  It leaves a coherent record reconcilable: when
\* it ends the last operation in flight there are results to seal.
LEMMA RecordedIsReconcilable ==
  ASSUME NEW r \in RecordType, Coherent(r), NEW ops \in SUBSET r.pending, NEW out \in Outcomes
  PROVE  LET n == RecordResults(r, ops, out) IN
         n \in RecordType /\ Reconcilable(n) /\ (Dispatchable(n) <=> Dispatchable(r))
  <1> DEFINE n == RecordResults(r, ops, out)
             results == [operation : ops, outcome : {out}]
  <1>1. ops \subseteq Operations
    BY DEF RecordType
  <1>2. results \subseteq Results
    BY <1>1 DEF Results
  <1>3. ops # {} => results # {}
    <2> SUFFICES ASSUME NEW o \in ops PROVE results # {}
      OBVIOUS
    <2>1. [operation |-> o, outcome |-> out] \in results
      OBVIOUS
    <2> QED BY <2>1
  <1>4. ops = {} => results = {}
    OBVIOUS
  <1>5. r.completed # {} <=> r.batchDueAt # "null"
    BY DEF Coherent
  <1> HIDE DEF results
  <1>6. /\ n \in RecordType
        /\ n.completed # {} <=> n.batchDueAt # "null"
        /\ n.pending = r.pending \ ops
        /\ ops # {} => n.completed # {}
        /\ n.state = r.state /\ n.events = r.events /\ n.batch = r.batch /\ n.run = r.run
        /\ n.continuation = r.continuation /\ n.suspension = r.suspension
    BY <1>1, <1>2, <1>3, <1>4, <1>5 DEF RecordResults, RecordType, Instants, results
  <1> HIDE DEF n
  <1>7. Reconcilable(n)
    BY <1>6 DEF Coherent, Reconcilable, ResultsReady, StateOf, HasBatch, HasRun
  <1>8. Dispatchable(n) <=> Dispatchable(r)
    BY <1>6 DEF Dispatchable, HasBatch, HasRun
  <1> QED BY <1>6, <1>7, <1>8 DEF n

\* notify: an accepted event is reconciled into a batch or into the buffer beside one.
LEMMA NotifyInv ==
  ASSUME IInv, NEW a \in Agents, NEW e \in Events, Notify(a, e)
  PROVE  IInv'
  <1> DEFINE r == [rec[a] EXCEPT !.events = @ \cup {e},
                                 !.recentEvents = Remember(@, e)]
             v == Reconcile(a, View(r, queue))
             h == [hist EXCEPT !.owed = @ \cup {<<a, e>>}]
  <1>1. /\ a \in Registered
        /\ Persist(a, v, running, h)
        /\ UNCHANGED <<closed, expired, nextRun, restarts, suspensions>>
    BY DEF Notify
  <1>2. /\ rec[a] \in RecordType /\ Coherent(rec[a])
        /\ queue \in Seq(Agents) /\ Distinct(queue)
        /\ a \in ToSet(queue) <=> Dispatchable(rec[a])
    BY <1>1, RegisteredRecord
  <1>3. Remember(rec[a].recentEvents, e) \in Seq(Events)
    <2>1. rec[a].recentEvents \in Seq(Events)
      BY <1>2 DEF RecordType
    <2>2. Append(rec[a].recentEvents, e) \in Seq(Events) \ {<<>>}
      BY <2>1
    <2>3. Tail(Append(rec[a].recentEvents, e)) \in Seq(Events)
      BY <2>2
    <2> QED BY <2>2, <2>3 DEF Remember
  <1>4. /\ r \in RecordType /\ r.events # {}
        /\ \A f \in {"state", "pending", "completed", "batch", "run", "continuation",
                     "batchDueAt", "suspension"} : r[f] = rec[a][f]
    BY <1>2, <1>3 DEF RecordType
  <1> HIDE DEF r
  <1>5. Reconcilable(r) /\ (Dispatchable(r) <=> Dispatchable(rec[a]))
    BY <1>2, <1>4 DEF Coherent, Reconcilable, Dispatchable, StateOf, HasBatch, HasRun
  <1>6. /\ v \in ViewType /\ Coherent(v.r)
        /\ QueueFits(a, v) /\ ToSet(v.q) \ {a} = ToSet(queue) \ {a}
    BY <1>2, <1>4, <1>5, ReconciledView DEF IInv, TypeOK
  <1>7. h \in HistType
    BY DEF IInv, TypeOK, HistType
  <1> HIDE DEF v, h
  <1>8. PersistStep(a) /\ Scalars'
    BY <1>1, <1>6, <1>7 DEF Persist, PersistStep, IInv, TypeOK, Scalars, HistType, ViewType
  <1> QED BY <1>8, PersistStepInv

\* cancelOperations: ending every operation at once leaves results to seal.
LEMMA CancelOperationsInv ==
  ASSUME IInv, NEW a \in Agents, CancelOperations(a)
  PROVE  IInv'
  <1> DEFINE r == RecordResults(rec[a], rec[a].pending, "cancelled")
             v == Reconcile(a, View(r, queue))
  <1>1. /\ a \in Registered
        /\ Persist(a, v, running, hist)
        /\ UNCHANGED <<closed, expired, nextRun, restarts, suspensions>>
    BY DEF CancelOperations
  <1>2. /\ rec[a] \in RecordType /\ Coherent(rec[a])
        /\ queue \in Seq(Agents) /\ Distinct(queue)
        /\ a \in ToSet(queue) <=> Dispatchable(rec[a])
    BY <1>1, RegisteredRecord
  <1>3. r \in RecordType /\ Reconcilable(r) /\ (Dispatchable(r) <=> Dispatchable(rec[a]))
    BY <1>2, RecordedIsReconcilable DEF Outcomes
  <1> HIDE DEF r
  <1>4. /\ v \in ViewType /\ Coherent(v.r)
        /\ QueueFits(a, v) /\ ToSet(v.q) \ {a} = ToSet(queue) \ {a}
    BY <1>2, <1>3, ReconciledView DEF IInv, TypeOK
  <1> HIDE DEF v
  <1>5. PersistStep(a) /\ Scalars'
    BY <1>1, <1>4 DEF Persist, PersistStep, IInv, TypeOK, Scalars, HistType, ViewType
  <1> QED BY <1>5, PersistStepInv

\* completeOperation: one operation leaves pending, with the executor's outcome or timed out.
LEMMA CompleteOperationInv ==
  ASSUME IInv, NEW o \in issued, CompleteOperation(o)
  PROVE  IInv'
  <1> DEFINE a == o.agent
             out == IF o \in expired THEN "timed_out" ELSE "returned"
             r == RecordResults(rec[a], {o}, out)
             v == Reconcile(a, View(r, queue))
  <1>1. /\ a \in Registered /\ o \in rec[a].pending
        /\ Persist(a, v, running, hist)
        /\ UNCHANGED <<closed, expired, nextRun, restarts, suspensions>>
    BY DEF CompleteOperation, IsPending
  <1>2. /\ a \in Agents /\ rec[a] \in RecordType /\ Coherent(rec[a])
        /\ queue \in Seq(Agents) /\ Distinct(queue)
        /\ a \in ToSet(queue) <=> Dispatchable(rec[a])
    BY <1>1, RegisteredRecord
  <1>3. r \in RecordType /\ Reconcilable(r) /\ (Dispatchable(r) <=> Dispatchable(rec[a]))
    <2>1. out \in Outcomes /\ {o} \in SUBSET rec[a].pending
      BY <1>1 DEF Outcomes
    <2> HIDE DEF out
    <2> QED BY <1>2, <2>1, RecordedIsReconcilable
  <1> HIDE DEF r
  <1>4. /\ v \in ViewType /\ Coherent(v.r)
        /\ QueueFits(a, v) /\ ToSet(v.q) \ {a} = ToSet(queue) \ {a}
    BY <1>2, <1>3, ReconciledView DEF IInv, TypeOK
  <1> HIDE DEF v, a
  <1>5. PersistStep(a) /\ Scalars'
    BY <1>1, <1>4 DEF Persist, PersistStep, IInv, TypeOK, Scalars, HistType, ViewType
  <1> QED BY <1>2, <1>5, PersistStepInv

\* #onTimer: the expired operations are recorded together, then the record is reconciled.
LEMMA OnTimerInv ==
  ASSUME IInv, NEW a \in Agents, OnTimer(a)
  PROVE  IInv'
  <1> DEFINE n == RecordResults(rec[a], rec[a].pending \cap expired, "timed_out")
             r == [n EXCEPT !.timer = {}]
             v == Reconcile(a, View(r, queue))
  <1>1. /\ a \in Registered
        /\ Persist(a, v, running, hist)
        /\ UNCHANGED <<closed, expired, nextRun, restarts, suspensions>>
    BY DEF OnTimer
  <1>2. /\ rec[a] \in RecordType /\ Coherent(rec[a])
        /\ queue \in Seq(Agents) /\ Distinct(queue)
        /\ a \in ToSet(queue) <=> Dispatchable(rec[a])
    BY <1>1, RegisteredRecord
  <1>3. n \in RecordType /\ Reconcilable(n) /\ (Dispatchable(n) <=> Dispatchable(rec[a]))
    <2>1. rec[a].pending \cap expired \in SUBSET rec[a].pending /\ "timed_out" \in Outcomes
      BY DEF Outcomes
    <2> QED BY <1>2, <2>1, RecordedIsReconcilable
  <1> HIDE DEF n
  <1>4. /\ r \in RecordType
        /\ \A f \in {"state", "pending", "completed", "events", "batch", "run", "continuation",
                     "batchDueAt", "suspension"} : r[f] = n[f]
    BY <1>3 DEF RecordType
  <1> HIDE DEF r
  <1>5. Reconcilable(r) /\ (Dispatchable(r) <=> Dispatchable(rec[a]))
    BY <1>3, <1>4 DEF Reconcilable, ResultsReady, Dispatchable, HasBatch, HasRun
  <1>6. /\ v \in ViewType /\ Coherent(v.r)
        /\ QueueFits(a, v) /\ ToSet(v.q) \ {a} = ToSet(queue) \ {a}
    BY <1>2, <1>4, <1>5, ReconciledView DEF IInv, TypeOK
  <1> HIDE DEF v
  <1>7. PersistStep(a) /\ Scalars'
    BY <1>1, <1>6 DEF Persist, PersistStep, IInv, TypeOK, Scalars, HistType, ViewType
  <1> QED BY <1>7, PersistStepInv

\* What the holder of a valid credential knows.
LEMMA ActiveRecordHasRun ==
  ASSUME IInv, NEW a \in Agents, NEW c \in Nat, ActiveRecord(a, c)
  PROVE  /\ rec[a] \in RecordType /\ Coherent(rec[a])
         /\ HasRun(rec[a]) /\ HasBatch(rec[a]) /\ rec[a].state = "RUNNING"
         /\ queue \in Seq(Agents) /\ Distinct(queue) /\ a \notin ToSet(queue)
  <1>1. a \in Registered /\ rec[a].run = c /\ rec[a].state = "RUNNING"
    BY DEF ActiveRecord
  <1>2. HasRun(rec[a])
    BY <1>1 DEF HasRun, NoRun
  <1> QED BY <1>1, <1>2, RegisteredRecord DEF Coherent, Dispatchable

\* registerOperations: a running agent gains operations and keeps its batch, run and queue place.
LEMMA RegisterOperationsInv ==
  ASSUME IInv, NEW a \in Agents, NEW c \in Nat, NEW keys \in SUBSET Keys,
         RegisterOperations(a, c, keys)
  PROVE  IInv'
  <1> DEFINE staged == [agent : {a}, key : keys \ Known(rec[a]), origin : {c}]
             r == [rec[a] EXCEPT !.pending = @ \cup staged]
             v == View(ArmTimer(r), queue)
             h == [hist EXCEPT !.issued = @ \cup staged]
  <1>1. /\ ActiveRecord(a, c)
        /\ Persist(a, v, running, h)
        /\ UNCHANGED <<closed, expired, nextRun, restarts, suspensions>>
    BY DEF RegisterOperations
  <1>2. /\ rec[a] \in RecordType /\ Coherent(rec[a])
        /\ HasRun(rec[a]) /\ HasBatch(rec[a])
        /\ queue \in Seq(Agents) /\ Distinct(queue) /\ a \notin ToSet(queue)
    BY <1>1, ActiveRecordHasRun
  <1>3. staged \subseteq Operations
    BY DEF Operations
  <1> HIDE DEF staged
  <1>4. /\ r \in RecordType
        /\ \A f \in {"state", "completed", "events", "batch", "run", "continuation",
                     "batchDueAt", "suspension"} : r[f] = rec[a][f]
    BY <1>2, <1>3 DEF RecordType
  <1>5. h \in HistType
    BY <1>3 DEF IInv, TypeOK, HistType
  <1> HIDE DEF r
  <1>6. Coherent(r) /\ HasRun(r)
    BY <1>2, <1>4 DEF Coherent, StateOf, HasBatch, HasRun
  <1>7. /\ ArmTimer(r) \in RecordType /\ Coherent(ArmTimer(r)) /\ HasRun(ArmTimer(r))
    BY <1>4, <1>6, ArmTimerType DEF HasRun
  <1>8. v \in ViewType /\ v.r = ArmTimer(r) /\ v.q = queue
    BY <1>2, <1>7 DEF View, ViewType, IInv, TypeOK
  <1> HIDE DEF v, h
  <1>9. PersistStep(a) /\ Scalars'
    <2>1. QueueFits(a, v)
      BY <1>2, <1>7, <1>8 DEF QueueFits, Dispatchable
    <2> QED
      BY <1>1, <1>5, <1>7, <1>8, <2>1
      DEF Persist, PersistStep, IInv, TypeOK, Scalars, HistType, ViewType
  <1> QED BY <1>9, PersistStepInv

\* finishRun: the batch is dropped and what was collected meanwhile decides what follows.
LEMMA FinishRunInv ==
  ASSUME IInv, NEW a \in Agents, NEW c \in Nat, NEW intent \in {"continue", "idle"},
         FinishRun(a, c, intent)
  PROVE  IInv'
  <1> DEFINE r == [rec[a] EXCEPT !.run = NoRun, !.batch = NoBatch,
                                 !.continuation = (intent = "continue")]
             n == Reconcile(a, View(r, queue))
             v == Released(n)
             h == [hist EXCEPT !.acked = @ \cup Ops(rec[a].batch.results),
                               !.owed = @ \ {<<a, e>> : e \in rec[a].batch.events}]
  <1>1. /\ ActiveRecord(a, c)
        /\ Persist(a, v, running - 1, h)
        /\ UNCHANGED <<closed, expired, nextRun, restarts, suspensions>>
    BY DEF FinishRun
  <1>2. /\ rec[a] \in RecordType /\ Coherent(rec[a]) /\ rec[a].state = "RUNNING"
        /\ queue \in Seq(Agents) /\ Distinct(queue) /\ a \notin ToSet(queue)
    BY <1>1, ActiveRecordHasRun
  <1>3. h \in HistType
    <2>1. Ops(rec[a].batch.results) \subseteq Operations
      <3>1. rec[a].batch.results \subseteq Results
        BY <1>2 DEF RecordType, Batches, NoBatch
      <3> QED BY <3>1 DEF Ops, Results
    <2> QED BY <2>1 DEF IInv, TypeOK, HistType
  <1>4. /\ r \in RecordType /\ r.run = NoRun /\ r.batch = NoBatch /\ r.state = "RUNNING"
        /\ \A f \in {"pending", "completed", "events", "batchDueAt", "suspension"} :
             r[f] = rec[a][f]
    <2>1. (intent = "continue") \in BOOLEAN
      OBVIOUS
    <2> QED BY <1>2, <2>1 DEF RecordType
  <1> HIDE DEF r, h
  <1>5. Reconcilable(r) /\ ~Dispatchable(r)
    BY <1>2, <1>4 DEF Coherent, Reconcilable, Dispatchable, HasBatch, HasRun
  <1>6. /\ n \in ViewType /\ Coherent(n.r)
        /\ QueueFits(a, n) /\ ToSet(n.q) \ {a} = ToSet(queue) \ {a}
    BY <1>2, <1>4, <1>5, ReconciledView DEF IInv, TypeOK
  <1> HIDE DEF n
  <1>7. v \in ViewType /\ v.r = n.r /\ v.q = n.q
    BY <1>6 DEF Released, ViewType
  <1> HIDE DEF v
  <1>8. PersistStep(a) /\ Scalars'
    <2>1. QueueFits(a, v) /\ Coherent(v.r) /\ ToSet(v.q) \ {a} = ToSet(queue) \ {a}
      BY <1>6, <1>7 DEF QueueFits
    <2>2. running - 1 \in Int
      BY DEF IInv, TypeOK
    <2> QED
      BY <1>1, <1>3, <1>7, <2>1, <2>2
      DEF Persist, PersistStep, IInv, TypeOK, Scalars, HistType, ViewType
  <1> QED BY <1>8, PersistStepInv

\* The record returnRun hands to #reconcile.
LEMMA ReturnedIsReconcilable ==
  ASSUME IInv, NEW a \in Agents, NEW c \in Nat, ActiveRecord(a, c)
  PROVE  /\ Returned(a) \in RecordType /\ Reconcilable(Returned(a))
         /\ HasBatch(Returned(a)) /\ ~HasRun(Returned(a))
         /\ Returned(a).suspension = rec[a].suspension
         /\ CoherentCheckpoint(Checkpoint(Returned(a)))
  <1>1. /\ rec[a] \in RecordType /\ Coherent(rec[a]) /\ HasBatch(rec[a])
        /\ rec[a].state = "RUNNING"
    BY ActiveRecordHasRun
  <1>2. Goto(rec[a], "READY") = [rec[a] EXCEPT !.state = "READY"]
    BY <1>1, GotoType DEF canAgentTransition, transitions, AgentState
  <1>3. /\ Returned(a) \in RecordType /\ Returned(a).run = NoRun
        /\ \A f \in {"pending", "completed", "events", "batch", "continuation", "batchDueAt",
                     "suspension"} : Returned(a)[f] = rec[a][f]
    BY <1>1, <1>2 DEF Returned, RecordType, AgentState
  <1>4. Reconcilable(Returned(a)) /\ HasBatch(Returned(a)) /\ ~HasRun(Returned(a))
    BY <1>1, <1>3 DEF Coherent, Reconcilable, HasBatch, HasRun
  <1>5. CoherentCheckpoint(Checkpoint(Returned(a)))
    BY <1>1, <1>3 DEF Coherent, Checkpoint, CoherentCheckpoint, HasBatch
  <1> QED BY <1>3, <1>4, <1>5

\* returnRun: the same batch goes back, to the queue unless the agent is suspended.
LEMMA ReturnRunInv ==
  ASSUME IInv, NEW a \in Agents, NEW c \in Nat, ReturnRun(a, c)
  PROVE  IInv'
  <1> DEFINE n == Reconcile(a, View(Returned(a), Requeued(a)))
             v == Released(n)
  <1>1. /\ ActiveRecord(a, c)
        /\ Persist(a, v, running - 1, hist)
        /\ UNCHANGED <<closed, expired, nextRun, restarts, suspensions>>
    BY DEF ReturnRun
  <1>2. queue \in Seq(Agents) /\ Distinct(queue) /\ a \notin ToSet(queue)
    BY <1>1, ActiveRecordHasRun
  <1>3. /\ Returned(a) \in RecordType /\ Reconcilable(Returned(a))
        /\ HasBatch(Returned(a)) /\ ~HasRun(Returned(a))
        /\ Returned(a).suspension = rec[a].suspension
    BY <1>1, ReturnedIsReconcilable
  <1>4. /\ Requeued(a) \in Seq(Agents) /\ Distinct(Requeued(a))
        /\ a \in ToSet(Requeued(a)) <=> Dispatchable(Returned(a))
        /\ ToSet(Requeued(a)) \ {a} = ToSet(queue) \ {a}
    <2>1. /\ Append(queue, a) \in Seq(Agents) /\ Distinct(Append(queue, a))
          /\ ToSet(Append(queue, a)) = ToSet(queue) \cup {a}
      BY <1>2, AppendDistinct
    <2> QED BY <1>2, <1>3, <2>1 DEF Requeued, Dispatchable
  <1>5. /\ n \in ViewType /\ Coherent(n.r)
        /\ QueueFits(a, n) /\ ToSet(n.q) \ {a} = ToSet(queue) \ {a}
    BY <1>3, <1>4, ReconciledView DEF IInv, TypeOK
  <1> HIDE DEF n
  <1>6. v \in ViewType /\ v.r = n.r /\ v.q = n.q
    BY <1>5 DEF Released, ViewType
  <1> HIDE DEF v
  <1>7. PersistStep(a) /\ Scalars'
    <2>1. QueueFits(a, v) /\ Coherent(v.r) /\ ToSet(v.q) \ {a} = ToSet(queue) \ {a}
      BY <1>5, <1>6 DEF QueueFits
    <2>2. running - 1 \in Int
      BY DEF IInv, TypeOK
    <2> QED
      BY <1>1, <1>6, <2>1, <2>2
      DEF Persist, PersistStep, IInv, TypeOK, Scalars, HistType, ViewType
  <1> QED BY <1>7, PersistStepInv

\* The first save of returnRun succeeds, the second fails: the checkpoint of the
\* batch given back is one register can restore.
LEMMA ReturnRunHalfSavedInv ==
  ASSUME IInv, NEW a \in Agents, NEW c \in Nat, ReturnRunHalfSaved(a, c)
  PROVE  IInv'
  <1>1. /\ ActiveRecord(a, c) /\ failure' = TRUE /\ waiting' = FALSE
        /\ disk' = [disk EXCEPT ![a] = Checkpoint(Returned(a))]
        /\ UNCHANGED <<rec, queue, running, closed, expired, idVars, hist>>
    BY DEF ReturnRunHalfSaved
  <1>2. /\ Checkpoint(Returned(a)) \in CheckpointType
        /\ CoherentCheckpoint(Checkpoint(Returned(a)))
    BY <1>1, ReturnedIsReconcilable, CheckpointOfRecord
  <1>3. /\ disk' \in [Agents -> CheckpointType \cup {NotSaved}]
        /\ disk'[a] = Checkpoint(Returned(a))
        /\ \A b \in Agents \ {a} : disk'[b] = disk[b]
    BY <1>1, <1>2 DEF IInv, TypeOK
  <1>4. TypeOK'
    BY <1>1, <1>3 DEF IInv, TypeOK, idVars
  <1>5. CoherentDisk'
    BY <1>2, <1>3 DEF IInv, CoherentDisk
  <1> QED
    BY <1>1, <1>4, <1>5 DEF IInv, CoherentRecords, QueueRight, DiskInSync, Available

\* suspend: the agent leaves the queue, and is BLOCKED unless it holds a run.
LEMMA SuspendInv ==
  ASSUME IInv, NEW a \in Agents, NEW until \in {"manual", "ahead"}, Suspend(a, until)
  PROVE  IInv'
  <1> DEFINE r == [rec[a] EXCEPT !.suspension = until]
             q == RemoveFirst(queue, a)
             v == View(Suspended(a, until), q)
  <1>1. /\ a \in Registered
        /\ Persist(a, v, running, hist)
        /\ suspensions' = suspensions + 1
        /\ UNCHANGED <<closed, expired, nextRun, restarts>>
    BY DEF Suspend
  <1>2. /\ rec[a] \in RecordType /\ Coherent(rec[a])
        /\ queue \in Seq(Agents) /\ Distinct(queue)
    BY <1>1, RegisteredRecord
  <1>3. /\ r \in RecordType /\ r.suspension = until
        /\ \A f \in {"state", "pending", "completed", "events", "batch", "run", "continuation",
                     "batchDueAt"} : r[f] = rec[a][f]
    BY <1>2 DEF RecordType, Suspensions
  <1>4. Suspended(a, until) = ArmTimer(Parked(r))
    BY DEF Suspended
  <1> HIDE DEF r
  <1>5. Reconcilable(r)
    BY <1>2, <1>3 DEF Coherent, Reconcilable, StateOf, HasBatch, HasRun
  <1>6. /\ Suspended(a, until) \in RecordType /\ Coherent(Suspended(a, until))
        /\ Suspended(a, until).suspension # "none"
    BY <1>3, <1>4, <1>5, ParkedType, ArmTimerType
  <1>7. q \in Seq(Agents) /\ Distinct(q) /\ ToSet(q) = ToSet(queue) \ {a}
    BY <1>2, RemoveFirstDistinct
  <1> HIDE DEF q
  <1>8. v \in ViewType /\ v.r = Suspended(a, until) /\ v.q = q
    BY <1>6, <1>7 DEF View, ViewType, IInv, TypeOK
  <1> HIDE DEF v
  <1>9. PersistStep(a) /\ Scalars'
    <2>1. QueueFits(a, v) /\ Coherent(v.r) /\ ToSet(v.q) \ {a} = ToSet(queue) \ {a}
      BY <1>6, <1>7, <1>8 DEF QueueFits, Dispatchable
    <2>2. suspensions + 1 \in Nat
      BY DEF IInv, TypeOK
    <2> QED
      BY <1>1, <1>8, <2>1, <2>2
      DEF Persist, PersistStep, IInv, TypeOK, Scalars, HistType, ViewType
  <1> QED BY <1>9, PersistStepInv

\* resume: a kept batch returns to the queue once; without one, a continuation asks for a run.
LEMMA ResumeInv ==
  ASSUME IInv, NEW a \in Agents, Resume(a)
  PROVE  IInv'
  <1> DEFINE u == View(rec[a], queue)
             v == ReconcileActive(a, Resumed(a, u))
  <1>1. /\ a \in Registered /\ rec[a].suspension # "none"
        /\ Persist(a, v, running, hist)
        /\ UNCHANGED <<closed, expired, nextRun, restarts, suspensions>>
    BY DEF Resume
  <1>2. /\ rec[a] \in RecordType /\ Reconcilable(rec[a])
        /\ queue \in Seq(Agents) /\ Distinct(queue)
        /\ a \in ToSet(queue) <=> Dispatchable(rec[a])
    BY <1>1, RegisteredRecord
  <1>3. u \in ViewType /\ u.r = rec[a] /\ u.q = queue
    BY <1>2 DEF View, ViewType, IInv, TypeOK
  <1> HIDE DEF u
  <1>4. QueueFits(a, u)
    BY <1>2, <1>3 DEF QueueFits
  <1>5. /\ v \in ViewType /\ Coherent(v.r)
        /\ QueueFits(a, v) /\ ToSet(v.q) \ {a} = ToSet(queue) \ {a}
    BY <1>1, <1>2, <1>3, <1>4, ResumeType
  <1> HIDE DEF v
  <1>6. PersistStep(a) /\ Scalars'
    BY <1>1, <1>5 DEF Persist, PersistStep, IInv, TypeOK, Scalars, HistType, ViewType
  <1> QED BY <1>6, PersistStepInv

\* takeNextRun: the agent at the head of a right queue is READY, so the edge to
\* RUNNING exists.
LEMMA TakeNextRunInv ==
  ASSUME IInv, TakeNextRun
  PROVE  IInv'
  <1> DEFINE a == Head(queue)
             r == [Goto(rec[a], "RUNNING") EXCEPT !.run = nextRun]
             v == View(r, Tail(queue))
  <1>1. /\ queue # <<>>
        /\ Persist(a, v, running + 1, hist)
        /\ nextRun' = nextRun + 1
        /\ UNCHANGED <<closed, expired, restarts, suspensions>>
    BY DEF TakeNextRun
  <1>2. /\ a \in Agents /\ a \in ToSet(queue)
        /\ Tail(queue) \in Seq(Agents) /\ Distinct(Tail(queue))
        /\ ToSet(Tail(queue)) = ToSet(queue) \ {a}
    BY <1>1, TailDistinct DEF IInv, TypeOK, QueueRight
  <1>3. rec[a] # Unregistered /\ Dispatchable(rec[a])
    BY <1>2 DEF IInv, QueueRight
  <1>4. rec[a] \in RecordType /\ Coherent(rec[a]) /\ rec[a].state = "READY"
    <2>1. rec[a] \in RecordType /\ Coherent(rec[a])
      BY <1>2, <1>3 DEF IInv, TypeOK, CoherentRecords
    <2>2. HasBatch(rec[a]) /\ ~HasRun(rec[a]) /\ rec[a].suspension = "none"
      BY <1>3 DEF Dispatchable
    <2> HIDE DEF a
    <2> QED BY <2>1, <2>2 DEF Coherent, StateOf
  <1>5. Goto(rec[a], "RUNNING") = [rec[a] EXCEPT !.state = "RUNNING"]
    BY <1>4, GotoType DEF canAgentTransition, transitions, AgentState
  <1>6. nextRun \in Nat
    BY DEF IInv, TypeOK
  <1>7. /\ r \in RecordType /\ r.state = "RUNNING" /\ r.run = nextRun
        /\ \A f \in {"pending", "completed", "events", "batch", "continuation", "batchDueAt",
                     "suspension"} : r[f] = rec[a][f]
    BY <1>4, <1>5, <1>6 DEF RecordType, AgentState
  <1> HIDE DEF r
  <1>8. Coherent(r) /\ HasRun(r)
    BY <1>3, <1>4, <1>6, <1>7 DEF Coherent, Dispatchable, StateOf, HasBatch, HasRun, NoRun
  <1>9. v \in ViewType /\ v.r = r /\ v.q = Tail(queue)
    BY <1>2, <1>7 DEF View, ViewType, IInv, TypeOK
  <1> HIDE DEF v, a
  <1>10. PersistStep(a) /\ Scalars'
    <2>1. QueueFits(a, v) /\ Coherent(v.r) /\ ToSet(v.q) \ {a} = ToSet(queue) \ {a}
      BY <1>2, <1>8, <1>9 DEF QueueFits, Dispatchable
    <2>2. running + 1 \in Int /\ nextRun + 1 \in Nat
      BY DEF IInv, TypeOK
    <2> QED
      BY <1>1, <1>9, <2>1, <2>2
      DEF Persist, PersistStep, IInv, TypeOK, Scalars, HistType, ViewType
  <1> QED BY <1>2, <1>10, PersistStepInv

\* unregister: only an agent with no work leaves, so the queue never names it.
LEMMA UnregisterInv ==
  ASSUME IInv, NEW a \in Agents, Unregister(a)
  PROVE  IInv'
  <1>1. /\ ~HasBatch(rec[a]) /\ a \in Registered
        /\ rec' = [rec EXCEPT ![a] = Unregistered]
        /\ UNCHANGED <<queue, running, waiting, failure, closed, disk, expired, idVars, hist>>
    BY DEF Unregister
  <1>2. /\ rec' \in [Agents -> RecordType \cup {Unregistered}] /\ rec'[a] = Unregistered
        /\ \A b \in Agents \ {a} : rec'[b] = rec[b]
    BY <1>1 DEF IInv, TypeOK
  <1>3. TypeOK'
    BY <1>1, <1>2 DEF IInv, TypeOK, idVars
  <1>4. CoherentRecords' /\ CoherentDisk'
    BY <1>1, <1>2 DEF IInv, CoherentRecords, CoherentDisk
  <1>5. QueueRight'
    BY <1>1, <1>2 DEF IInv, QueueRight, Dispatchable
  <1>6. DiskInSync'
    BY <1>1, <1>2 DEF IInv, DiskInSync, Available, Registered
  <1> QED BY <1>3, <1>4, <1>5, <1>6 DEF IInv

\* close: stops the scheduler and changes no record.
LEMMA CloseInv ==
  ASSUME IInv, Close
  PROVE  IInv'
  <1> DEFINE cleared(r) == [r EXCEPT !.timer = {}]
  <1>1. /\ closed' = TRUE /\ waiting' = FALSE
        /\ rec' = [a \in Agents |-> IF rec[a] = Unregistered THEN rec[a] ELSE cleared(rec[a])]
        /\ UNCHANGED <<queue, running, failure, disk, expired, idVars, hist>>
    BY DEF Close
  <1>2. ASSUME NEW r \in RecordType, Coherent(r)
        PROVE  /\ cleared(r) \in RecordType /\ Coherent(cleared(r))
               /\ Dispatchable(cleared(r)) <=> Dispatchable(r)
    <2> DEFINE n == cleared(r)
    <2>1. /\ n \in RecordType
          /\ \A f \in {"state", "pending", "completed", "events", "batch", "run", "continuation",
                       "batchDueAt", "suspension"} : n[f] = r[f]
      BY DEF RecordType
    <2> HIDE DEF n
    <2>2. Coherent(n) /\ (Dispatchable(n) <=> Dispatchable(r))
      BY <1>2, <2>1 DEF Coherent, Dispatchable, StateOf, HasBatch, HasRun
    <2> QED BY <2>1, <2>2 DEF n
  <1> HIDE DEF cleared
  <1>3. ASSUME NEW a \in Agents, rec[a] # Unregistered
        PROVE  /\ rec'[a] = cleared(rec[a]) /\ rec'[a] \in RecordType /\ Coherent(rec'[a])
               /\ Dispatchable(rec'[a]) <=> Dispatchable(rec[a])
               /\ rec'[a] # Unregistered
    <2>1. rec[a] \in RecordType /\ Coherent(rec[a])
      BY <1>3 DEF IInv, TypeOK, CoherentRecords
    <2>2. rec'[a] = cleared(rec[a])
      BY <1>1, <1>3
    <2> QED BY <1>2, <2>1, <2>2, MarksAreNoRecords
  <1>4. \A a \in Agents : rec[a] = Unregistered => rec'[a] = Unregistered
    BY <1>1
  <1>5. rec' \in [Agents -> RecordType \cup {Unregistered}]
    BY <1>1, <1>3, <1>4
  <1>6. TypeOK'
    BY <1>1, <1>5 DEF IInv, TypeOK, idVars
  <1>7. CoherentRecords' /\ CoherentDisk'
    BY <1>1, <1>3, <1>4 DEF IInv, CoherentRecords, CoherentDisk
  <1>8. QueueRight'
    BY <1>1, <1>3, <1>4 DEF IInv, QueueRight
  <1>9. DiskInSync'
    BY <1>1 DEF DiskInSync, Available
  <1> QED BY <1>6, <1>7, <1>8, <1>9 DEF IInv

\* An instant that passes changes no fact the invariant speaks of, and it passes
\* in memory and on disk together.
LEMMA InstantPassesInv ==
  ASSUME IInv, NEW a \in Agents, NEW f \in {"batchDueAt", "suspension"}, InstantPasses(a, f)
  PROVE  IInv'
  <1>1. /\ rec' = [rec EXCEPT ![a] = Elapsed(rec[a], f)]
        /\ disk' = [disk EXCEPT ![a] = Elapsed(disk[a], f)]
        /\ UNCHANGED <<queue, running, waiting, failure, closed, expired, idVars, hist>>
    BY DEF InstantPasses
  <1>2. Elapsed(Unregistered, f) = Unregistered /\ Elapsed(NotSaved, f) = NotSaved
    BY DEF Elapsed, Unregistered, NotSaved
  <1>3. ASSUME NEW r \in RecordType, Coherent(r)
        PROVE  /\ Elapsed(r, f) \in RecordType /\ Coherent(Elapsed(r, f))
               /\ Dispatchable(Elapsed(r, f)) <=> Dispatchable(r)
               /\ Checkpoint(Elapsed(r, f)) = Elapsed(Checkpoint(r), f)
    <2>1. CASE f = "batchDueAt"
      <3> DEFINE n == Elapsed(r, f)
      <3>1. n = IF r.batchDueAt = "ahead" THEN [r EXCEPT !.batchDueAt = "passed"] ELSE r
        BY <2>1 DEF Elapsed, RecordType
      <3>2. /\ n \in RecordType
            /\ n.batchDueAt = IF r.batchDueAt = "ahead" THEN "passed" ELSE r.batchDueAt
            /\ \A g \in {"state", "pending", "completed", "events", "recentEvents", "batch",
                         "run", "continuation", "suspension"} : n[g] = r[g]
        BY <3>1 DEF RecordType, Instants
      <3> HIDE DEF n
      <3>3. Coherent(n) /\ (Dispatchable(n) <=> Dispatchable(r))
        BY <1>3, <3>2 DEF Coherent, Dispatchable, StateOf, HasBatch, HasRun
      <3>4. Checkpoint(n) = Elapsed(Checkpoint(r), f)
        BY <2>1, <3>2 DEF Elapsed, Checkpoint
      <3> QED BY <3>2, <3>3, <3>4 DEF n
    <2>2. CASE f = "suspension"
      <3> DEFINE n == Elapsed(r, f)
      <3>1. n = IF r.suspension = "ahead" THEN [r EXCEPT !.suspension = "passed"] ELSE r
        BY <2>2 DEF Elapsed, RecordType
      <3>2. /\ n \in RecordType
            /\ n.suspension = IF r.suspension = "ahead" THEN "passed" ELSE r.suspension
            /\ \A g \in {"state", "pending", "completed", "events", "recentEvents", "batch",
                         "run", "continuation", "batchDueAt"} : n[g] = r[g]
        BY <3>1 DEF RecordType, Suspensions
      <3> HIDE DEF n
      <3>3. Coherent(n) /\ (Dispatchable(n) <=> Dispatchable(r))
        BY <1>3, <3>2 DEF Coherent, Dispatchable, StateOf, HasBatch, HasRun
      <3>4. Checkpoint(n) = Elapsed(Checkpoint(r), f)
        BY <2>2, <3>2 DEF Elapsed, Checkpoint
      <3> QED BY <3>2, <3>3, <3>4 DEF n
    <2> QED BY <2>1, <2>2
  <1>4. ASSUME NEW c \in CheckpointType, CoherentCheckpoint(c)
        PROVE  Elapsed(c, f) \in CheckpointType /\ CoherentCheckpoint(Elapsed(c, f))
    <2>1. CASE f = "batchDueAt"
      BY <1>4, <2>1 DEF Elapsed, CheckpointType, CoherentCheckpoint, Instants
    <2>2. CASE f = "suspension"
      BY <1>4, <2>2 DEF Elapsed, CheckpointType, CoherentCheckpoint, Suspensions
    <2> QED BY <2>1, <2>2
  <1>5. /\ rec' \in [Agents -> RecordType \cup {Unregistered}] /\ rec'[a] = Elapsed(rec[a], f)
        /\ disk' \in [Agents -> CheckpointType \cup {NotSaved}] /\ disk'[a] = Elapsed(disk[a], f)
        /\ \A b \in Agents \ {a} : rec'[b] = rec[b] /\ disk'[b] = disk[b]
    BY <1>1, <1>2, <1>3, <1>4 DEF IInv, TypeOK, CoherentRecords, CoherentDisk
  <1>6. /\ rec'[a] # Unregistered <=> rec[a] # Unregistered
        /\ rec[a] # Unregistered =>
             /\ rec[a] \in RecordType /\ Coherent(rec'[a])
             /\ Dispatchable(rec'[a]) <=> Dispatchable(rec[a])
             /\ Checkpoint(rec'[a]) = Elapsed(Checkpoint(rec[a]), f)
        /\ disk'[a] # NotSaved => CoherentCheckpoint(disk'[a])
    BY <1>2, <1>3, <1>4, <1>5, MarksAreNoRecords DEF IInv, TypeOK, CoherentRecords, CoherentDisk
  <1>7. TypeOK'
    BY <1>1, <1>5 DEF IInv, TypeOK, idVars
  <1>8. CoherentRecords' /\ CoherentDisk'
    BY <1>5, <1>6 DEF IInv, CoherentRecords, CoherentDisk
  <1>9. QueueRight'
    BY <1>1, <1>5, <1>6 DEF IInv, QueueRight
  <1>10. DiskInSync'
    BY <1>1, <1>5, <1>6 DEF IInv, DiskInSync, Available, Registered
  <1> QED BY <1>7, <1>8, <1>9, <1>10 DEF IInv

----------------------------------------------------------------------------
(* The theorems *)

\* Nothing is in the empty queue.
LEMMA EmptyQueue == <<>> \in Seq(Agents) /\ Distinct(<<>>) /\ ToSet(<<>>) = {}
  BY DEF Distinct, ToSet

\* The initial state satisfies the invariant.
LEMMA InitInv == Init => IInv
  <1> SUFFICES ASSUME Init PROVE IInv
    OBVIOUS
  <1>1. TypeOK
    <2>1. /\ rec \in [Agents -> RecordType \cup {Unregistered}]
          /\ disk \in [Agents -> CheckpointType \cup {NotSaved}]
      BY DEF Init
    <2>2. queue \in Seq(Agents) /\ expired \subseteq Operations
      BY EmptyQueue DEF Init
    <2>3. /\ waiting \in BOOLEAN /\ failure \in BOOLEAN /\ closed \in BOOLEAN
          /\ hist \in [issued : SUBSET Operations, acked : SUBSET Operations,
                       owed : SUBSET (Agents \X Events)]
      BY DEF Init
    <2>4. /\ running \in Int /\ nextRun \in Nat /\ nextBatch \in Nat /\ restarts \in Nat
          /\ suspensions \in Nat
      BY DEF Init
    <2> QED BY <2>1, <2>2, <2>3, <2>4 DEF TypeOK
  <1>2. QueueRight
    <2>1. queue = <<>> /\ \A a \in Agents : rec[a] = Unregistered
      BY DEF Init
    <2>2. Distinct(queue) /\ ToSet(queue) = {}
      BY <2>1, EmptyQueue
    <2> QED BY <2>1, <2>2 DEF QueueRight
  <1> QED
    BY <1>1, <1>2 DEF Init, IInv, CoherentRecords, CoherentDisk, DiskInSync, Registered

\* The invariant is inductive.
LEMMA NextInv == IInv /\ [Next]_vars => IInv'
  <1> SUFFICES ASSUME IInv, [Next]_vars PROVE IInv'
    OBVIOUS
  <1>1. nextRun \in Nat
    BY DEF IInv, TypeOK
  <1>2. ASSUME NEW a \in Agents, AgentStep(a) PROVE IInv'
    <2>1. CASE \E needsRun \in BOOLEAN : Register(a, needsRun)
      BY <2>1, RegisterInv
    <2>2. CASE Unregister(a)
      BY <2>2, UnregisterInv
    <2>3. CASE \E e \in Events : Notify(a, e)
      BY <2>3, NotifyInv
    <2>4. CASE \E until \in {"manual", "ahead"} : Suspend(a, until)
      BY <2>4, SuspendInv
    <2>5. CASE Resume(a)
      BY <2>5, ResumeInv
    <2>6. CASE CancelOperations(a)
      BY <2>6, CancelOperationsInv
    <2>7. CASE OnTimer(a)
      BY <2>7, OnTimerInv
    <2>8. CASE WindowPasses(a) \/ ResumptionPasses(a)
      BY <2>8, InstantPassesInv DEF WindowPasses, ResumptionPasses
    <2> QED BY <1>2, <2>1, <2>2, <2>3, <2>4, <2>5, <2>6, <2>7, <2>8 DEF AgentStep
  <1>3. ASSUME NEW a \in Agents, NEW c \in 0 .. nextRun - 1, RunStep(a, c) PROVE IInv'
    <2>0. c \in Nat
      BY <1>1
    <2>1. CASE \E keys \in SUBSET Keys : RegisterOperations(a, c, keys)
      BY <2>0, <2>1, RegisterOperationsInv
    <2>2. CASE \E intent \in {"continue", "idle"} : FinishRun(a, c, intent)
      BY <2>0, <2>2, FinishRunInv
    <2>3. CASE ReturnRun(a, c)
      BY <2>0, <2>3, ReturnRunInv
    <2>4. CASE ReturnRunHalfSaved(a, c)
      BY <2>0, <2>4, ReturnRunHalfSavedInv
    <2> QED BY <1>3, <2>1, <2>2, <2>3, <2>4 DEF RunStep
  <1>4. CASE \E o \in issued : CompleteOperation(o)
    BY <1>4, CompleteOperationInv
  <1>5. ASSUME NEW o \in issued, DeadlinePasses(o) PROVE IInv'
    <2>1. o \in Operations
      BY DEF IInv, TypeOK, issued
    <2> QED
      BY <1>5, <2>1 DEF DeadlinePasses, procVars, idVars, IInv, TypeOK, CoherentRecords,
                        CoherentDisk, QueueRight, DiskInSync, Available, Registered
  <1>6. CASE TakeNextRun
    BY <1>6, TakeNextRunInv
  <1>7. CASE WaitForReady
    BY <1>7 DEF WaitForReady, idVars, IInv, TypeOK, CoherentRecords, CoherentDisk, QueueRight,
                DiskInSync, Available, Registered
  <1>8. CASE Close
    BY <1>8, CloseInv
  <1>9. CASE Restart
    <2>1. /\ rec' = [a \in Agents |-> Unregistered] /\ queue' = <<>> /\ running' = 0
          /\ waiting' = FALSE /\ failure' = FALSE /\ closed' = FALSE /\ restarts' = restarts + 1
          /\ UNCHANGED <<disk, expired, nextRun, nextBatch, suspensions, hist>>
      BY <1>9 DEF Restart
    <2>2. restarts + 1 \in Nat
      BY DEF IInv, TypeOK
    <2>3. TypeOK'
      <3>1. rec' \in [Agents -> RecordType \cup {Unregistered}]
        BY <2>1
      <3>2. queue' \in Seq(Agents)
        BY <2>1, EmptyQueue
      <3>3. waiting' \in BOOLEAN /\ failure' \in BOOLEAN /\ closed' \in BOOLEAN
        BY <2>1
      <3>4. running' \in Int
        BY <2>1
      <3> QED BY <2>1, <2>2, <3>1, <3>2, <3>3, <3>4 DEF IInv, TypeOK
    <2>4. QueueRight'
      <3>1. \A a \in Agents : rec'[a] = Unregistered
        BY <2>1
      <3>2. Distinct(queue') /\ ToSet(queue') = {}
        BY <2>1, EmptyQueue
      <3> QED BY <3>1, <3>2 DEF QueueRight
    <2> QED
      BY <2>1, <2>3, <2>4 DEF IInv, CoherentRecords, CoherentDisk, DiskInSync, Registered
  <1>10. CASE UNCHANGED vars
    BY <1>10 DEF vars, procVars, idVars, IInv, TypeOK, CoherentRecords, CoherentDisk, QueueRight,
                 DiskInSync, Available, Registered
  <1> QED BY <1>2, <1>3, <1>4, <1>5, <1>6, <1>7, <1>8, <1>9, <1>10 DEF Next

\* The invariant holds in every reachable state.
LEMMA Invariance == Spec => []IInv
  BY InitInv, NextInv, PTL DEF Spec

\* No request for a state outside the control block's table, and every field
\* within its type, in every behaviour with crashes and failed saves.
THEOREM TypeCorrect == Spec => []TypeOK
  <1>1. IInv => TypeOK
    BY DEF IInv
  <1> QED BY <1>1, Invariance, PTL

\* The state shown is the one the work of the agent implies.
THEOREM StateCorrect == Spec => []StateMatchesWork
  <1>1. IInv => StateMatchesWork
    <2> SUFFICES ASSUME IInv, NEW a \in Registered
                 PROVE  /\ rec[a].state = StateOf(rec[a])
                        /\ rec[a].state = "SLEEPING" =>
                             rec[a].completed = {} /\ rec[a].events = {} /\ ~rec[a].continuation
      BY DEF StateMatchesWork
    <2>1. Coherent(rec[a])
      BY RegisteredRecord
    <2> QED BY <2>1 DEF Coherent, StateOf
  <1> QED BY <1>1, Invariance, PTL

\* The ready queue holds exactly the agents with a batch to take, each once.
THEOREM QueueCorrect == Spec => []QueueIsExact
  <1>1. IInv => QueueIsExact
    BY DEF IInv, QueueRight, QueueIsExact, Distinct, Dispatchable, InQueue, Registered
  <1> QED BY <1>1, Invariance, PTL

\* What the scheduler shows is what a restart would find.
THEOREM DiskCorrect == Spec => []DiskInSync
  <1>1. IInv => DiskInSync
    BY DEF IInv
  <1> QED BY <1>1, Invariance, PTL

----------------------------------------------------------------------------
(***************************************************************************)
(* Machine-checked proofs that AgentScheduler loses no event, covers every *)
(* instant by a timer and implements OperationDelivery, for every set of   *)
(* agents, keys and events and every value of the limits and the bounds.   *)
(*                                                                         *)
(* The argument.  What matters of a checkpoint here is what it holds: the  *)
(* operations in flight, the results and the events collected, the batch.  *)
(* A method makes one change to what the agent holds (Change), #reconcile  *)
(* may then seal all that was collected into a batch (Carries), and the    *)
(* outcome is saved with the history, or nothing is (Saves).  The other    *)
(* steps leave alone what is held (Still).  The refinement also needs that *)
(* a run stages operations no earlier run staged: run ids only grow, and   *)
(* the run an agent is in is later than all that was delivered to it       *)
(* (RunsAreFresh).                                                         *)
(***************************************************************************)

\* What is saved of an agent that was never registered.
Nothing == [pending |-> {}, completed |-> {}, events |-> {}, batch |-> NoBatch]

Held(a) == IF disk[a] = NotSaved THEN Nothing ELSE disk[a]

SameContents(c, n) ==
  /\ n.pending = c.pending /\ n.completed = c.completed
  /\ n.events = c.events /\ n.batch = c.batch

\* n holds what r holds, or all that r collected is sealed.
Carries(r, n) ==
  \/ SameContents(r, n)
  \/ /\ r.batch = NoBatch
     /\ n.pending = r.pending /\ n.completed = {} /\ n.events = {}
     /\ n.batch.results = r.completed /\ n.batch.events = r.events

OpsOf(c) == c.pending \cup Ops(c.completed) \cup Ops(c.batch.results)

\* An agent's checkpoint holds operations of that agent, all of them registered
\* by a run that was handed out; so are the operations consumed.
OpsAreIssued ==
  /\ \A a \in Agents : \A o \in OpsOf(Held(a)) : o \in issued /\ o.agent = a
  /\ acked \subseteq issued
  /\ \A o \in issued : o.origin < nextRun
  /\ nextRun <= MaxRuns

\* The run an agent is in is later than the runs that registered the operations
\* of its batch, or operations already consumed.
RunsAreFresh ==
  \A a \in Agents :
    rec[a] # Unregistered /\ HasRun(rec[a]) =>
      /\ rec[a].run < nextRun
      /\ \A o \in acked \cup Ops(rec[a].batch.results) : o.agent = a => o.origin < rec[a].run

----------------------------------------------------------------------------

(* What #reconcile does to what an agent holds *)

Fields == {"state", "pending", "completed", "events", "recentEvents", "batch", "run",
           "continuation", "batchDueAt", "timer", "suspension"}

\* The fields of a record.
LEMMA RecordFields ==
  ASSUME NEW r \in RecordType
  PROVE  DOMAIN r = Fields
  BY DEF RecordType, Fields

\* A request to the control block changes the state and nothing else.
LEMMA GotoKeeps ==
  ASSUME NEW r, DOMAIN r = Fields, NEW next
  PROVE  /\ SameContents(r, Goto(r, next))
         /\ Goto(r, next).run = r.run /\ Goto(r, next).suspension = r.suspension
         /\ Goto(r, next).batchDueAt = r.batchDueAt /\ Goto(r, next).timer = r.timer
         /\ DOMAIN Goto(r, next) = Fields
  <1>1. CASE r.state = next
    BY <1>1 DEF Goto, SameContents
  <1>2. CASE r.state # next
    <2>1. PICK s : s = transition(r.state, next)
      OBVIOUS
    <2>2. Goto(r, next) = [r EXCEPT !.state = s]
      BY <1>2, <2>1 DEF Goto
    <2> QED BY <2>2 DEF Fields, SameContents
  <1> QED BY <1>1, <1>2

\* #armTimer changes the timer and nothing else, and arming again changes nothing.
LEMMA ArmTimerKeeps ==
  ASSUME NEW r, DOMAIN r = Fields
  PROVE  /\ SameContents(r, ArmTimer(r)) /\ ArmTimer(r).run = r.run
         /\ ArmTimer(ArmTimer(r)).timer = ArmTimer(r).timer
  <1>1. PICK t : ArmTimer(r) = [r EXCEPT !.timer = t]
    BY DEF ArmTimer
  <1>2. /\ SameContents(r, ArmTimer(r)) /\ ArmTimer(r).run = r.run
        /\ ArmTimer(r).suspension = r.suspension /\ ArmTimer(r).batchDueAt = r.batchDueAt
        /\ DOMAIN ArmTimer(r) = Fields
    BY <1>1 DEF Fields, SameContents
  <1>3. \A x \in {r, ArmTimer(r)} :
          ArmTimer(x).timer =
            x.pending
              \cup (IF x.suspension \in {"ahead", "passed"} THEN {ResumeInstant} ELSE {})
              \cup (IF x.suspension = "none" /\ ~HasBatch(x) /\ x.batchDueAt # "null"
                      THEN {WindowInstant} ELSE {})
    <2>1. \A x \in {r, ArmTimer(r)} : "timer" \in DOMAIN x
      BY <1>2 DEF Fields
    <2> QED BY <2>1 DEF ArmTimer
  <1> QED BY <1>2, <1>3 DEF SameContents, HasBatch

\* #seal moves all that was collected into the new batch.
LEMMA SealKeeps ==
  ASSUME NEW a \in Agents, NEW v \in ViewType, ~HasBatch(v.r)
  PROVE  /\ Carries(v.r, Seal(a, v).r) /\ Seal(a, v).r.run = v.r.run
         /\ DOMAIN Seal(a, v).r = Fields /\ DOMAIN Seal(a, v) = DOMAIN v
  <1> DEFINE r == v.r
             batch == [id |-> v.nb, results |-> r.completed, events |-> r.events]
             n == [Goto(r, "READY") EXCEPT !.completed = {}, !.events = {}, !.batch = batch,
                                          !.batchDueAt = "null", !.continuation = FALSE]
  <1>1. DOMAIN r = Fields
    BY RecordFields DEF ViewType
  <1>2. Seal(a, v).r = n /\ DOMAIN Seal(a, v) = DOMAIN v
    BY DEF Seal, ViewType
  <1>3. /\ Goto(r, "READY").pending = r.pending /\ Goto(r, "READY").run = r.run
        /\ DOMAIN Goto(r, "READY") = Fields
    BY <1>1, GotoKeeps DEF SameContents
  <1>4. /\ n.completed = {} /\ n.events = {} /\ n.batch = batch
        /\ n.pending = r.pending /\ n.run = r.run /\ DOMAIN n = Fields
    BY <1>1, <1>3 DEF Fields
  <1>5. batch.results = r.completed /\ batch.events = r.events
    OBVIOUS
  <1> QED BY <1>2, <1>4, <1>5 DEF Carries, HasBatch

\* #reconcile of an agent that is not suspended keeps what is held or seals it,
\* and arms the timer.
LEMMA ReconcileActiveKeeps ==
  ASSUME NEW a \in Agents, NEW v \in ViewType, Reconcilable(v.r), v.r.suspension = "none"
  PROVE  LET n == ReconcileActive(a, v).r IN
         Carries(v.r, n) /\ n.run = v.r.run /\ n.timer = ArmTimer(n).timer
  <1> DEFINE r == v.r
             wants  == r.continuation \/ r.events # {} \/ ResultsReady(r)
             ready  == IF HasBatch(r) /\ ~HasRun(r) THEN [v EXCEPT !.r = Goto(r, "READY")] ELSE v
             idle   == Goto(r, IF r.pending # {} THEN "BLOCKED" ELSE "SLEEPING")
             chosen == IF HasBatch(r) THEN ready
                       ELSE IF wants THEN Seal(a, v) ELSE [v EXCEPT !.r = idle]
  <1>1. DOMAIN r = Fields /\ DOMAIN v = {"r", "q", "nb", "signal"}
    BY RecordFields DEF ViewType
  <1>2. /\ Carries(r, chosen.r) /\ chosen.r.run = r.run
        /\ DOMAIN chosen.r = Fields /\ DOMAIN chosen = DOMAIN v
    <2>1. CASE HasBatch(r)
      <3>1. (chosen.r = r \/ chosen.r = Goto(r, "READY")) /\ DOMAIN chosen = DOMAIN v
        BY <1>1, <2>1
      <3> QED BY <1>1, <3>1, GotoKeeps DEF Carries, SameContents
    <2>2. CASE ~HasBatch(r) /\ wants
      BY <2>2, SealKeeps
    <2>3. CASE ~HasBatch(r) /\ ~wants
      <3>1. chosen.r = idle /\ DOMAIN chosen = DOMAIN v
        BY <1>1, <2>3
      <3> QED BY <1>1, <3>1, GotoKeeps DEF Carries
    <2> QED BY <2>1, <2>2, <2>3
  <1>3. ReconcileActive(a, v).r = ArmTimer(chosen.r)
    <2>1. ReconcileActive(a, v) = [chosen EXCEPT !.r = ArmTimer(chosen.r), !.signal = TRUE]
      BY DEF ReconcileActive
    <2> HIDE DEF chosen
    <2> QED BY <1>1, <1>2, <2>1
  <1> HIDE DEF chosen
  <1> QED BY <1>2, <1>3, ArmTimerKeeps DEF Carries, SameContents

\* resume, up to its call of #reconcile, keeps what is held.
LEMMA ResumedKeeps ==
  ASSUME NEW a \in Agents, NEW v \in ViewType
  PROVE  SameContents(v.r, Resumed(a, v).r) /\ Resumed(a, v).r.run = v.r.run
  <1> DEFINE r == [v.r EXCEPT !.suspension = "none"]
             s == IF r.state = "BLOCKED" THEN Goto(r, "READY") ELSE r
             u == IF HasBatch(s) THEN s ELSE [s EXCEPT !.continuation = TRUE]
  <1>1. DOMAIN v.r = Fields
    BY RecordFields DEF ViewType
  <1>2. DOMAIN r = Fields /\ SameContents(v.r, r) /\ r.run = v.r.run
    BY <1>1 DEF Fields, SameContents
  <1> HIDE DEF r
  <1>3. DOMAIN s = Fields /\ SameContents(v.r, s) /\ s.run = v.r.run
    BY <1>2, GotoKeeps DEF SameContents
  <1> HIDE DEF s
  <1>4. SameContents(v.r, u) /\ u.run = v.r.run
    BY <1>3 DEF Fields, SameContents
  <1> HIDE DEF u
  <1>5. Resumed(a, v).r = u
    BY DEF Resumed, r, s, u, ViewType
  <1> QED BY <1>4, <1>5

\* The state a suspended agent is put in changes nothing that is held.
LEMMA ParkedKeeps ==
  ASSUME NEW r \in RecordType
  PROVE  /\ SameContents(r, Parked(r)) /\ Parked(r).run = r.run
         /\ DOMAIN Parked(r) = Fields
  <1> DEFINE up == IF r.state = "SLEEPING" THEN Goto(r, "READY") ELSE r
  <1>1. DOMAIN r = Fields
    BY RecordFields
  <1>2. DOMAIN up = Fields /\ SameContents(r, up) /\ up.run = r.run
    BY <1>1, GotoKeeps DEF SameContents
  <1> HIDE DEF up
  <1>3. Parked(r) = IF HasRun(r) THEN r ELSE Goto(up, "BLOCKED")
    BY DEF Parked, up
  <1> QED BY <1>1, <1>2, <1>3, GotoKeeps DEF SameContents

\* What #reconcile leaves of the record r.
Reconciled(r, n) == Carries(r, n) /\ n.run = r.run /\ n.timer = ArmTimer(n).timer

\* resume ends in #reconcile.
LEMMA ResumeKeeps ==
  ASSUME NEW a \in Agents, NEW v \in ViewType, Reconcilable(v.r)
  PROVE  Reconciled(v.r, ReconcileActive(a, Resumed(a, v)).r)
  <1>1. PICK u : u = Resumed(a, v)
    OBVIOUS
  <1>2. /\ u \in ViewType /\ u.r.suspension = "none" /\ Reconcilable(u.r)
        /\ SameContents(v.r, u.r) /\ u.r.run = v.r.run
    BY <1>1, ResumedType, ResumedKeeps
  <1>3. Reconciled(u.r, ReconcileActive(a, u).r)
    BY <1>2, ReconcileActiveKeeps DEF Reconciled
  <1> QED BY <1>1, <1>2, <1>3 DEF Reconciled, Carries, SameContents

\* #reconcile keeps what an agent holds, or seals all that was collected, and
\* leaves the timer armed for every instant to come.
LEMMA ReconcileKeeps ==
  ASSUME NEW a \in Agents, NEW v \in ViewType, Reconcilable(v.r)
  PROVE  Reconciled(v.r, Reconcile(a, v).r)
  <1>1. CASE v.r.suspension = "none"
    BY <1>1, ReconcileActiveKeeps DEF Reconcile, Reconciled
  <1>2. CASE v.r.suspension = "passed"
    BY <1>2, ResumeKeeps DEF Reconcile
  <1>3. CASE v.r.suspension \notin {"none", "passed"}
    <2>1. Reconcile(a, v).r = ArmTimer(Parked(v.r)) /\ v.r \in RecordType
      BY <1>3 DEF Reconcile, ViewType
    <2> QED BY <2>1, ParkedKeeps, ArmTimerKeeps DEF Reconciled, Carries, SameContents
  <1> QED BY <1>1, <1>2, <1>3

----------------------------------------------------------------------------
(* What a step does to what the agents hold *)

\* Operations of a end, or nothing happens to what a holds.
Collects(a, r) ==
  /\ \E ops \in SUBSET Held(a).pending, out \in Outcomes :
       /\ r.pending = Held(a).pending \ ops
       /\ r.completed = Held(a).completed \cup [operation : ops, outcome : {out}]
  /\ r.events = Held(a).events /\ r.batch = Held(a).batch
  /\ hist' = hist

\* An event is accepted.
Buffers(a, r) ==
  \E e \in Events :
    /\ e \notin Held(a).events \cup Held(a).batch.events
    /\ r.events = Held(a).events \cup {e}
    /\ r.pending = Held(a).pending /\ r.completed = Held(a).completed
    /\ r.batch = Held(a).batch
    /\ hist' = [hist EXCEPT !.owed = @ \cup {<<a, e>>}]

\* The run a is in registers operations under keys that name none a holds.
Stages(a, r) ==
  \E keys \in SUBSET (Keys \ KeysOf(OpsOf(Held(a)))) :
    LET staged == [agent : {a}, key : keys, origin : {rec[a].run}] IN
    /\ rec[a] # Unregistered /\ HasRun(rec[a])
    /\ r.pending = Held(a).pending \cup staged
    /\ r.completed = Held(a).completed /\ r.events = Held(a).events
    /\ r.batch = Held(a).batch
    /\ hist' = [hist EXCEPT !.issued = @ \cup staged]

\* A run finishes with the batch.
Finishes(a, r) ==
  /\ r.run = NoRun
  /\ r.batch = NoBatch
  /\ r.pending = Held(a).pending /\ r.completed = Held(a).completed
  /\ r.events = Held(a).events
  /\ hist' = [hist EXCEPT !.acked = @ \cup Ops(Held(a).batch.results),
                          !.owed = @ \ {<<a, e>> : e \in Held(a).batch.events}]

Change(a, r) == Collects(a, r) \/ Buffers(a, r) \/ Stages(a, r) \/ Finishes(a, r)

\* The run of a is as it was, is over, or is new and found a batch.
RunGoesOn(a, r) ==
  \/ r.run = NoRun
  \/ rec[a] # Unregistered /\ r.run = rec[a].run
  \/ /\ r.run = nextRun /\ nextRun' = nextRun + 1
     /\ r.batch = Held(a).batch /\ hist' = hist

\* What is saved of a after a change that left the record r.
Saves(a, r, n) ==
  /\ Available
  /\ Reconciled(r, n)
  /\ rec' = [rec EXCEPT ![a] = n]
  /\ disk' = [disk EXCEPT ![a] = Checkpoint(n)]

\* A call that saves.
Call(a) == \E r, n : Change(a, r) /\ RunGoesOn(a, r) /\ Saves(a, r, n)

\* A step that leaves alone what is held, and the timers with it.
Still ==
  /\ hist' = hist
  /\ \A b \in Agents :
       /\ SameContents(Held(b), Held(b)')
       /\ rec'[b] # Unregistered =>
            /\ rec[b] # Unregistered
            /\ rec'[b].run = rec[b].run /\ rec'[b].batch = rec[b].batch
            /\ Available' => /\ Available
                             /\ rec[b].timer = ArmTimer(rec[b]).timer =>
                                  rec'[b].timer = ArmTimer(rec'[b]).timer

\* Nothing saved, nothing changed: what a failed save leaves.
LEMMA FailedSave ==
  ASSUME failure' = TRUE, rec' = rec, disk' = disk, hist' = hist
  PROVE  Still
  BY DEF Still, Held, SameContents, Available

\* #persist writes the record it is given, or fails.
LEMMA Persisted ==
  ASSUME NEW a \in Agents, NEW v, NEW n, NEW h, NEW r, Persist(a, v, n, h), Reconciled(r, v.r)
  PROVE  Still \/ (Saves(a, r, v.r) /\ hist' = h)
  <1>1. CASE failure' = TRUE /\ UNCHANGED <<rec, queue, running, nextBatch, disk, hist>>
    BY <1>1, FailedSave
  <1>2. CASE failure' # TRUE \/ ~UNCHANGED <<rec, queue, running, nextBatch, disk, hist>>
    BY <1>2 DEF Persist, Saves, Inspectable
  <1> QED BY <1>1, <1>2

\* While the scheduler answers calls, a registered agent holds what it shows.
LEMMA HeldIsShown ==
  ASSUME IInv, Available, NEW a \in Registered
  PROVE  /\ a \in Agents /\ rec[a] # Unregistered
         /\ rec[a] \in RecordType /\ Coherent(rec[a]) /\ Reconcilable(rec[a])
         /\ SameContents(Held(a), rec[a])
         /\ queue \in Seq(Agents) /\ nextBatch \in Nat
  <1>1. /\ a \in Agents /\ rec[a] # Unregistered /\ queue \in Seq(Agents)
        /\ rec[a] \in RecordType /\ Coherent(rec[a]) /\ Reconcilable(rec[a])
    BY RegisteredRecord DEF Registered
  <1>2. disk[a] = Checkpoint(rec[a]) /\ Checkpoint(rec[a]) # NotSaved
    BY <1>1, CheckpointOfRecord, MarksAreNoRecords DEF IInv, DiskInSync
  <1> QED BY <1>1, <1>2 DEF Held, SameContents, Checkpoint, IInv, TypeOK

\* A view of a record that can be reconciled, and the record #reconcile leaves of it.
LEMMA ReconcileView ==
  ASSUME NEW a \in Agents, NEW r \in RecordType, Reconcilable(r), NEW q \in Seq(Agents),
         nextBatch \in Nat
  PROVE  /\ View(r, q) \in ViewType /\ View(r, q).r = r
         /\ Reconciled(r, Reconcile(a, View(r, q)).r)
  <1>1. PICK v : v = View(r, q)
    OBVIOUS
  <1>2. v \in ViewType /\ v.r = r
    BY <1>1 DEF View, ViewType
  <1> QED BY <1>1, <1>2, ReconcileKeeps

----------------------------------------------------------------------------
(* The public methods, one lemma each *)

\* A call that changes nothing that is held is the ending of no operation.
LEMMA Unchanged ==
  ASSUME NEW a, NEW r, SameContents(Held(a), r), hist' = hist
  PROVE  Change(a, r)
  <1>1. [operation : {}, outcome : {"returned"}] = {}
    OBVIOUS
  <1>2. /\ {} \in SUBSET Held(a).pending /\ "returned" \in Outcomes
        /\ r.pending = Held(a).pending \ {}
        /\ r.completed = Held(a).completed \cup [operation : {}, outcome : {"returned"}]
    BY <1>1 DEF SameContents, Outcomes
  <1> QED BY <1>2 DEF Change, Collects, SameContents

\* The de-duplication cache holds events.
LEMMA RememberType ==
  ASSUME NEW recent \in Seq(Events), NEW e \in Events
  PROVE  Remember(recent, e) \in Seq(Events)
  <1>1. PICK s : s = Append(recent, e)
    OBVIOUS
  <1>2. s \in Seq(Events) /\ s # <<>>
    BY <1>1
  <1>3. Tail(s) \in Seq(Events)
    BY <1>2
  <1> QED BY <1>1, <1>2, <1>3 DEF Remember

\* register: what is rebuilt holds what was saved, or nothing.
LEMMA RegisterChange ==
  ASSUME IInv, NEW a \in Agents, NEW needsRun \in BOOLEAN, Register(a, needsRun)
  PROVE  Still \/ Call(a)
  <1> DEFINE saved == disk[a]
             state == HostState(saved, needsRun)
  <1>1. PICK r : r = IF saved = NotSaved THEN FreshRecord(state) ELSE RestoredRecord(state, saved)
    OBVIOUS
  <1>2. PICK q : q = IF HasBatch(r) /\ r.suspension = "none" THEN Append(queue, a) ELSE queue
    OBVIOUS
  <1>3. PICK v : v = Reconcile(a, View(r, q))
    OBVIOUS
  <1>4. Persist(a, v, running, hist)
    BY <1>1, <1>2, <1>3 DEF Register
  <1>5. r \in RecordType /\ Reconcilable(r) /\ r.run = NoRun
    <2>1. /\ saved \in CheckpointType \cup {NotSaved}
          /\ saved # NotSaved => CoherentCheckpoint(saved)
      BY DEF IInv, TypeOK, CoherentDisk
    <2> QED BY <1>1, <2>1, RestoredIsReconcilable DEF HasRun
  <1>6. q \in Seq(Agents)
    BY <1>2 DEF IInv, TypeOK
  <1>7. Reconciled(r, v.r)
    BY <1>3, <1>5, <1>6, ReconcileView DEF IInv, TypeOK
  <1>8. Still \/ (Saves(a, r, v.r) /\ hist' = hist)
    BY <1>4, <1>7, Persisted
  <1>9. SameContents(Held(a), r)
    BY <1>1 DEF Held, Nothing, SameContents, FreshRecord, RestoredRecord
  <1>10. hist' = hist => Change(a, r)
    BY <1>9, Unchanged
  <1> QED BY <1>5, <1>8, <1>10 DEF Call, RunGoesOn

\* notify: the event is none of those buffered or in the batch.
LEMMA NotifyChange ==
  ASSUME IInv, NEW a \in Agents, NEW e \in Events, Notify(a, e)
  PROVE  Still \/ Call(a)
  <1>1. PICK r : r = [rec[a] EXCEPT !.events = @ \cup {e}, !.recentEvents = Remember(@, e)]
    OBVIOUS
  <1>2. PICK v : v = Reconcile(a, View(r, queue))
    OBVIOUS
  <1>3. PICK h : h = [hist EXCEPT !.owed = @ \cup {<<a, e>>}]
    OBVIOUS
  <1>4. /\ a \in Registered /\ Available
        /\ e \notin rec[a].events \cup rec[a].batch.events
        /\ Persist(a, v, running, h)
    BY <1>1, <1>2, <1>3 DEF Notify
  <1>5. /\ rec[a] \in RecordType /\ Coherent(rec[a]) /\ rec[a] # Unregistered
        /\ SameContents(Held(a), rec[a])
        /\ queue \in Seq(Agents) /\ nextBatch \in Nat
    BY <1>4, HeldIsShown
  <1>6. /\ r \in RecordType /\ r.events = rec[a].events \cup {e}
        /\ \A f \in {"state", "pending", "completed", "batch", "run", "continuation",
                     "batchDueAt", "suspension"} : r[f] = rec[a][f]
    <2>1. Remember(rec[a].recentEvents, e) \in Seq(Events)
      BY <1>5, RememberType DEF RecordType
    <2> QED BY <1>1, <1>5, <2>1 DEF RecordType
  <1>7. Reconcilable(r)
    <2>1. r.events # {}
      BY <1>6
    <2> QED BY <1>5, <1>6, <2>1 DEF Coherent, Reconcilable, StateOf, HasBatch, HasRun
  <1>8. Reconciled(r, v.r)
    BY <1>2, <1>5, <1>6, <1>7, ReconcileView
  <1>9. Still \/ (Saves(a, r, v.r) /\ hist' = h)
    BY <1>4, <1>8, Persisted
  <1>10. hist' = h => Change(a, r)
    BY <1>3, <1>4, <1>5, <1>6 DEF Change, Buffers, SameContents
  <1>11. RunGoesOn(a, r)
    BY <1>5, <1>6 DEF RunGoesOn
  <1> QED BY <1>9, <1>10, <1>11 DEF Call

\* Ending operations of a registered agent, with or without arming the timer anew.
LEMMA RecordedChange ==
  ASSUME IInv, Available, NEW a \in Registered, NEW ops \in SUBSET rec[a].pending,
         NEW out \in Outcomes, NEW r \in RecordType,
         LET n == RecordResults(rec[a], ops, out) IN r = n \/ r = [n EXCEPT !.timer = {}],
         NEW v, v = Reconcile(a, View(r, queue)), Persist(a, v, running, hist)
  PROVE  Still \/ Call(a)
  <1>1. PICK n : n = RecordResults(rec[a], ops, out)
    OBVIOUS
  <1>2. /\ a \in Agents /\ rec[a] \in RecordType /\ Coherent(rec[a]) /\ rec[a] # Unregistered
        /\ SameContents(Held(a), rec[a])
        /\ queue \in Seq(Agents) /\ nextBatch \in Nat
    BY HeldIsShown
  <1>3. /\ n \in RecordType /\ Reconcilable(n)
    BY <1>1, <1>2, RecordedIsReconcilable
  <1>4. /\ n.pending = rec[a].pending \ ops
        /\ n.completed = rec[a].completed \cup [operation : ops, outcome : {out}]
        /\ n.events = rec[a].events /\ n.batch = rec[a].batch /\ n.run = rec[a].run
    BY <1>1, <1>2 DEF RecordResults, RecordType
  <1>5. \A f \in {"state", "pending", "completed", "events", "batch", "run", "continuation",
                  "batchDueAt", "suspension"} : r[f] = n[f]
    BY <1>1, <1>3 DEF RecordType
  <1>6. Reconcilable(r)
    BY <1>3, <1>5 DEF Reconcilable, ResultsReady, HasBatch, HasRun
  <1>7. Reconciled(r, v.r)
    BY <1>2, <1>6, ReconcileView
  <1>8. Still \/ (Saves(a, r, v.r) /\ hist' = hist)
    BY <1>2, <1>7, Persisted
  <1>9. hist' = hist => Change(a, r)
    <2>1. /\ ops \in SUBSET Held(a).pending
          /\ r.pending = Held(a).pending \ ops
          /\ r.completed = Held(a).completed \cup [operation : ops, outcome : {out}]
          /\ r.events = Held(a).events /\ r.batch = Held(a).batch
      BY <1>2, <1>4, <1>5 DEF SameContents
    <2> QED BY <2>1 DEF Change, Collects
  <1>10. RunGoesOn(a, r)
    BY <1>2, <1>4, <1>5 DEF RunGoesOn
  <1> QED BY <1>8, <1>9, <1>10 DEF Call

\* cancelOperations ends every operation in flight.
LEMMA CancelOperationsChange ==
  ASSUME IInv, NEW a \in Agents, CancelOperations(a)
  PROVE  Still \/ Call(a)
  <1>1. PICK r : r = RecordResults(rec[a], rec[a].pending, "cancelled")
    OBVIOUS
  <1>2. PICK v : v = Reconcile(a, View(r, queue))
    OBVIOUS
  <1>3. a \in Registered /\ Available /\ Persist(a, v, running, hist)
    BY <1>1, <1>2 DEF CancelOperations
  <1>4. rec[a] \in RecordType /\ Coherent(rec[a]) /\ "cancelled" \in Outcomes
    BY <1>3, HeldIsShown DEF Outcomes
  <1>5. r \in RecordType
    BY <1>1, <1>4, RecordedIsReconcilable
  <1> QED BY <1>1, <1>2, <1>3, <1>4, <1>5, RecordedChange

\* completeOperation ends the operation it names.
LEMMA CompleteOperationChange ==
  ASSUME IInv, NEW o \in issued, CompleteOperation(o)
  PROVE  Still \/ (o.agent \in Agents /\ Call(o.agent))
  <1>1. PICK a : a = o.agent
    OBVIOUS
  <1>2. PICK out : out = IF o \in expired THEN "timed_out" ELSE "returned"
    OBVIOUS
  <1>3. PICK r : r = RecordResults(rec[a], {o}, out)
    OBVIOUS
  <1>4. PICK v : v = Reconcile(a, View(r, queue))
    OBVIOUS
  <1>5. /\ a \in Registered /\ o \in rec[a].pending
        /\ Persist(a, v, running, hist)
    BY <1>1, <1>2, <1>3, <1>4 DEF CompleteOperation, IsPending
  <1>6. CASE ~Available
    <2>1. failure' = TRUE /\ rec' = rec /\ disk' = disk /\ hist' = hist
      BY <1>5, <1>6 DEF Persist, Inspectable
    <2> QED BY <2>1, FailedSave
  <1>7. CASE Available
    <2>1. rec[a] \in RecordType /\ Coherent(rec[a]) /\ out \in Outcomes /\ a \in Agents
      BY <1>2, <1>5, <1>7, HeldIsShown DEF Outcomes
    <2>2. {o} \in SUBSET rec[a].pending
      BY <1>5
    <2>3. r \in RecordType
      BY <1>3, <2>1, <2>2, RecordedIsReconcilable
    <2>4. Still \/ Call(a)
      BY <1>3, <1>4, <1>5, <1>7, <2>1, <2>2, <2>3, RecordedChange
    <2> QED BY <1>1, <2>1, <2>4
  <1> QED BY <1>6, <1>7

\* #onTimer ends the operations whose deadline has passed.
LEMMA OnTimerChange ==
  ASSUME IInv, NEW a \in Agents, OnTimer(a)
  PROVE  Still \/ Call(a)
  <1>1. PICK ops : ops = rec[a].pending \cap expired
    OBVIOUS
  <1>2. PICK n : n = RecordResults(rec[a], ops, "timed_out")
    OBVIOUS
  <1>3. PICK r : r = [n EXCEPT !.timer = {}]
    OBVIOUS
  <1>4. PICK v : v = Reconcile(a, View(r, queue))
    OBVIOUS
  <1>5. a \in Registered /\ Available /\ Persist(a, v, running, hist)
    BY <1>1, <1>2, <1>3, <1>4 DEF OnTimer
  <1>6. /\ rec[a] \in RecordType /\ Coherent(rec[a]) /\ "timed_out" \in Outcomes
        /\ ops \in SUBSET rec[a].pending
    BY <1>1, <1>5, HeldIsShown DEF Outcomes
  <1>7. n \in RecordType
    BY <1>2, <1>6, RecordedIsReconcilable
  <1>8. r \in RecordType
    BY <1>3, <1>7 DEF RecordType
  <1> QED BY <1>2, <1>3, <1>4, <1>5, <1>6, <1>8, RecordedChange

\* What the holder of a valid credential holds.
LEMMA HolderHolds ==
  ASSUME IInv, NEW a \in Agents, NEW c \in Nat, ActiveRecord(a, c)
  PROVE  /\ Available /\ a \in Registered /\ rec[a] # Unregistered
         /\ rec[a] \in RecordType /\ Coherent(rec[a])
         /\ rec[a].run = c /\ HasRun(rec[a]) /\ HasBatch(rec[a]) /\ rec[a].state = "RUNNING"
         /\ SameContents(Held(a), rec[a])
         /\ queue \in Seq(Agents) /\ nextBatch \in Nat
  <1>1. Available /\ a \in Registered /\ rec[a].run = c
    BY DEF ActiveRecord
  <1> QED BY <1>1, ActiveRecordHasRun, HeldIsShown

\* registerOperations: only keys the agent does not hold are staged.
LEMMA RegisterOperationsChange ==
  ASSUME IInv, NEW a \in Agents, NEW c \in Nat, NEW keys \in SUBSET Keys,
         RegisterOperations(a, c, keys)
  PROVE  Still \/ Call(a)
  <1>1. PICK staged : staged = [agent : {a}, key : keys \ Known(rec[a]), origin : {c}]
    OBVIOUS
  <1>2. PICK r : r = [rec[a] EXCEPT !.pending = @ \cup staged]
    OBVIOUS
  <1>3. PICK v : v = View(ArmTimer(r), queue)
    OBVIOUS
  <1>4. PICK h : h = [hist EXCEPT !.issued = @ \cup staged]
    OBVIOUS
  <1>5. ActiveRecord(a, c) /\ Persist(a, v, running, h)
    BY <1>1, <1>2, <1>3, <1>4 DEF RegisterOperations
  <1>6. /\ rec[a] \in RecordType /\ rec[a] # Unregistered /\ HasRun(rec[a]) /\ rec[a].run = c
        /\ SameContents(Held(a), rec[a])
    BY <1>5, HolderHolds
  <1>7. /\ DOMAIN r = Fields /\ r.pending = rec[a].pending \cup staged
        /\ r.completed = rec[a].completed /\ r.events = rec[a].events
        /\ r.batch = rec[a].batch /\ r.run = rec[a].run
    BY <1>2, <1>6, RecordFields DEF Fields
  <1>8. Reconciled(r, v.r)
    <2>1. v.r = ArmTimer(r)
      BY <1>3 DEF View
    <2> QED BY <1>7, <2>1, ArmTimerKeeps DEF Reconciled, Carries
  <1>9. Still \/ (Saves(a, r, v.r) /\ hist' = h)
    BY <1>5, <1>8, Persisted
  <1>10. hist' = h => Change(a, r)
    <2>1. Known(rec[a]) = KeysOf(OpsOf(Held(a)))
      BY <1>6 DEF Known, OpsOf, SameContents, KeysOf, Ops
    <2>2. keys \ Known(rec[a]) \in SUBSET (Keys \ KeysOf(OpsOf(Held(a))))
      BY <2>1
    <2> QED BY <1>1, <1>4, <1>6, <1>7, <2>2 DEF Change, Stages, SameContents
  <1>11. RunGoesOn(a, r)
    BY <1>6, <1>7 DEF RunGoesOn
  <1> QED BY <1>9, <1>10, <1>11 DEF Call

\* finishRun drops the batch, results and events together.
LEMMA FinishRunChange ==
  ASSUME IInv, NEW a \in Agents, NEW c \in Nat, NEW intent \in {"continue", "idle"},
         FinishRun(a, c, intent)
  PROVE  Still \/ Call(a)
  <1>1. PICK r : r = [rec[a] EXCEPT !.run = NoRun, !.batch = NoBatch,
                                    !.continuation = (intent = "continue")]
    OBVIOUS
  <1>2. PICK n : n = Reconcile(a, View(r, queue))
    OBVIOUS
  <1>3. PICK v : v = Released(n)
    OBVIOUS
  <1>4. PICK h : h = [hist EXCEPT !.acked = @ \cup Ops(rec[a].batch.results),
                                  !.owed = @ \ {<<a, e>> : e \in rec[a].batch.events}]
    OBVIOUS
  <1>5. ActiveRecord(a, c) /\ Persist(a, v, running - 1, h)
    BY <1>1, <1>2, <1>3, <1>4 DEF FinishRun
  <1>6. /\ rec[a] \in RecordType /\ Coherent(rec[a]) /\ rec[a].state = "RUNNING"
        /\ SameContents(Held(a), rec[a])
        /\ queue \in Seq(Agents) /\ nextBatch \in Nat
    BY <1>5, HolderHolds
  <1>7. /\ r \in RecordType /\ r.run = NoRun /\ r.batch = NoBatch /\ r.state = "RUNNING"
        /\ \A f \in {"pending", "completed", "events", "batchDueAt", "suspension"} :
             r[f] = rec[a][f]
    <2>1. (intent = "continue") \in BOOLEAN
      OBVIOUS
    <2> QED BY <1>1, <1>6, <2>1 DEF RecordType
  <1>8. Reconcilable(r)
    BY <1>6, <1>7 DEF Coherent, Reconcilable, HasBatch, HasRun
  <1>9. Reconciled(r, v.r)
    <2>1. Reconciled(r, n.r)
      BY <1>2, <1>6, <1>7, <1>8, ReconcileView
    <2>2. v.r = n.r
      BY <1>3 DEF Released
    <2> QED BY <2>1, <2>2
  <1>10. Still \/ (Saves(a, r, v.r) /\ hist' = h)
    BY <1>5, <1>9, Persisted
  <1>11. hist' = h => Change(a, r)
    BY <1>4, <1>6, <1>7 DEF Change, Finishes, SameContents
  <1> QED BY <1>7, <1>10, <1>11 DEF Call, RunGoesOn

\* The record returnRun hands to #reconcile holds what it held.
LEMMA ReturnedHolds ==
  ASSUME IInv, NEW a \in Agents, NEW c \in Nat, ActiveRecord(a, c)
  PROVE  SameContents(Held(a), Returned(a)) /\ Returned(a).run = NoRun
  <1>1. /\ rec[a] \in RecordType /\ SameContents(Held(a), rec[a])
    BY HolderHolds
  <1>2. /\ DOMAIN Goto(rec[a], "READY") = Fields
        /\ SameContents(rec[a], Goto(rec[a], "READY"))
    BY <1>1, RecordFields, GotoKeeps
  <1> QED BY <1>1, <1>2 DEF Returned, Fields, SameContents

\* returnRun changes nothing that is held.
LEMMA ReturnRunChange ==
  ASSUME IInv, NEW a \in Agents, NEW c \in Nat, ReturnRun(a, c)
  PROVE  Still \/ Call(a)
  <1>1. PICK r : r = Returned(a)
    OBVIOUS
  <1>2. PICK n : n = Reconcile(a, View(r, Requeued(a)))
    OBVIOUS
  <1>3. PICK v : v = Released(n)
    OBVIOUS
  <1>4. ActiveRecord(a, c) /\ Persist(a, v, running - 1, hist)
    BY <1>1, <1>2, <1>3 DEF ReturnRun
  <1>5. r \in RecordType /\ Reconcilable(r) /\ SameContents(Held(a), r) /\ r.run = NoRun
    BY <1>1, <1>4, ReturnedIsReconcilable, ReturnedHolds
  <1>6. Requeued(a) \in Seq(Agents) /\ nextBatch \in Nat
    BY <1>4, HolderHolds DEF Requeued
  <1>7. Reconciled(r, v.r)
    <2>1. Reconciled(r, n.r)
      BY <1>2, <1>5, <1>6, ReconcileView
    <2>2. v.r = n.r
      BY <1>3 DEF Released
    <2> QED BY <2>1, <2>2
  <1>8. Still \/ (Saves(a, r, v.r) /\ hist' = hist)
    BY <1>4, <1>7, Persisted
  <1> QED BY <1>5, <1>8, Unchanged DEF Call, RunGoesOn

\* The half of returnRun that was saved leaves alone what is held.
LEMMA ReturnRunHalfSavedChange ==
  ASSUME IInv, NEW a \in Agents, NEW c \in Nat, ReturnRunHalfSaved(a, c)
  PROVE  Still
  <1>1. /\ ActiveRecord(a, c) /\ failure' = TRUE
        /\ disk' = [disk EXCEPT ![a] = Checkpoint(Returned(a))]
        /\ rec' = rec /\ hist' = hist
    BY DEF ReturnRunHalfSaved
  <1>2. SameContents(Held(a), Returned(a))
    BY <1>1, ReturnedHolds
  <1>3. Checkpoint(Returned(a)) # NotSaved
    BY <1>1, ReturnedIsReconcilable, CheckpointOfRecord, MarksAreNoRecords
  <1>4. disk'[a] = Checkpoint(Returned(a)) /\ \A b \in Agents \ {a} : disk'[b] = disk[b]
    BY <1>1 DEF IInv, TypeOK
  <1>5. ASSUME NEW b \in Agents PROVE SameContents(Held(b), Held(b)')
    BY <1>2, <1>3, <1>4 DEF Held, SameContents, Checkpoint
  <1> QED BY <1>1, <1>5 DEF Still, Available

\* suspend parks the agent and arms the timer for the end of the suspension.
LEMMA SuspendChange ==
  ASSUME IInv, NEW a \in Agents, NEW until \in {"manual", "ahead"}, Suspend(a, until)
  PROVE  Still \/ Call(a)
  <1>1. PICK r : r = [rec[a] EXCEPT !.suspension = until]
    OBVIOUS
  <1>2. PICK v : v = View(Suspended(a, until), RemoveFirst(queue, a))
    OBVIOUS
  <1>3. Available /\ a \in Registered /\ Persist(a, v, running, hist)
    BY <1>2 DEF Suspend
  <1>4. /\ rec[a] \in RecordType /\ rec[a] # Unregistered /\ SameContents(Held(a), rec[a])
    BY <1>3, HeldIsShown
  <1>5. /\ r \in RecordType /\ SameContents(rec[a], r) /\ r.run = rec[a].run
    BY <1>1, <1>4 DEF RecordType, Suspensions, SameContents
  <1>6. v.r = ArmTimer(Parked(r))
    BY <1>1, <1>2 DEF View, Suspended
  <1>7. Reconciled(r, v.r)
    BY <1>5, <1>6, ParkedKeeps, ArmTimerKeeps DEF Reconciled, Carries, SameContents
  <1>8. Still \/ (Saves(a, r, v.r) /\ hist' = hist)
    BY <1>3, <1>7, Persisted
  <1>9. SameContents(Held(a), r)
    BY <1>4, <1>5 DEF SameContents
  <1> QED BY <1>4, <1>5, <1>8, <1>9, Unchanged DEF Call, RunGoesOn

\* resume keeps the batch held through the suspension, or seals what was
\* collected meanwhile.
LEMMA ResumeChange ==
  ASSUME IInv, NEW a \in Agents, Resume(a)
  PROVE  Still \/ Call(a)
  <1>1. PICK u : u = View(rec[a], queue)
    OBVIOUS
  <1>2. PICK v : v = ReconcileActive(a, Resumed(a, u))
    OBVIOUS
  <1>3. Available /\ a \in Registered /\ Persist(a, v, running, hist)
    BY <1>1, <1>2 DEF Resume
  <1>4. /\ rec[a] \in RecordType /\ rec[a] # Unregistered /\ Reconcilable(rec[a])
        /\ SameContents(Held(a), rec[a]) /\ queue \in Seq(Agents) /\ nextBatch \in Nat
    BY <1>3, HeldIsShown
  <1>5. u \in ViewType /\ u.r = rec[a]
    BY <1>1, <1>4, ReconcileView
  <1>6. Reconciled(rec[a], v.r)
    BY <1>2, <1>4, <1>5, ResumeKeeps
  <1>7. Still \/ (Saves(a, rec[a], v.r) /\ hist' = hist)
    BY <1>3, <1>6, Persisted
  <1> QED BY <1>4, <1>7, Unchanged DEF Call, RunGoesOn

\* The instants a timer is armed for depend on what is held and two fields more.
LEMMA SameInstants ==
  ASSUME NEW r, DOMAIN r = Fields, NEW n, DOMAIN n = Fields, n.pending = r.pending,
         HasBatch(n) <=> HasBatch(r),
         n.suspension \in {"ahead", "passed"} <=> r.suspension \in {"ahead", "passed"},
         n.suspension = "none" <=> r.suspension = "none",
         n.batchDueAt = "null" <=> r.batchDueAt = "null"
  PROVE  ArmTimer(n).timer = ArmTimer(r).timer
  BY DEF ArmTimer, Fields

\* takeNextRun hands out a new run and leaves alone what is held.
LEMMA TakeNextRunChange ==
  ASSUME IInv, TimerCoversInstants, TakeNextRun
  PROVE  Still \/ \E a \in Agents : Call(a)
  <1>1. PICK a : a = Head(queue)
    OBVIOUS
  <1>2. PICK r : r = [Goto(rec[a], "RUNNING") EXCEPT !.run = nextRun]
    OBVIOUS
  <1>3. PICK v : v = View(r, Tail(queue))
    OBVIOUS
  <1>4. /\ Available /\ queue # <<>> /\ nextRun' = nextRun + 1
        /\ Persist(a, v, running + 1, hist)
    BY <1>1, <1>2, <1>3 DEF TakeNextRun
  <1>5. a \in Registered
    <2>1. a \in Agents /\ a \in ToSet(queue)
      BY <1>1, <1>4, TailDistinct DEF IInv, TypeOK, QueueRight
    <2> QED BY <2>1 DEF IInv, QueueRight, Registered
  <1>6. /\ a \in Agents /\ rec[a] # Unregistered /\ DOMAIN rec[a] = Fields
        /\ SameContents(Held(a), rec[a])
    BY <1>4, <1>5, HeldIsShown, RecordFields
  <1>7. PICK g : g = Goto(rec[a], "RUNNING")
    OBVIOUS
  <1>8. /\ DOMAIN g = Fields /\ SameContents(rec[a], g) /\ g.suspension = rec[a].suspension
        /\ g.batchDueAt = rec[a].batchDueAt /\ g.timer = rec[a].timer
    BY <1>6, <1>7, GotoKeeps
  <1>9. /\ DOMAIN r = Fields /\ SameContents(rec[a], r) /\ r.suspension = rec[a].suspension
        /\ r.batchDueAt = rec[a].batchDueAt /\ r.timer = rec[a].timer /\ r.run = nextRun
    BY <1>2, <1>7, <1>8 DEF Fields, SameContents
  <1>10. Reconciled(r, v.r)
    <2>1. r.timer = ArmTimer(rec[a]).timer
      BY <1>4, <1>5, <1>9 DEF TimerCoversInstants
    <2>2. ArmTimer(r).timer = ArmTimer(rec[a]).timer
      BY <1>6, <1>9, SameInstants DEF SameContents, HasBatch
    <2>3. v.r = r
      BY <1>3 DEF View
    <2> QED BY <2>1, <2>2, <2>3 DEF Reconciled, Carries, SameContents
  <1>11. Still \/ (Saves(a, r, v.r) /\ hist' = hist)
    BY <1>4, <1>6, <1>10, Persisted
  <1>12. SameContents(Held(a), r)
    BY <1>6, <1>9 DEF SameContents
  <1>13. hist' = hist => RunGoesOn(a, r)
    BY <1>4, <1>9, <1>12 DEF RunGoesOn, SameContents
  <1> QED BY <1>6, <1>11, <1>12, <1>13, Unchanged DEF Call

\* unregister forgets the record, not the checkpoint.
LEMMA UnregisterChange ==
  ASSUME IInv, NEW a \in Agents, Unregister(a)
  PROVE  Still
  <1>1. /\ rec' = [rec EXCEPT ![a] = Unregistered] /\ disk' = disk /\ hist' = hist
        /\ failure' = failure /\ closed' = closed
    BY DEF Unregister
  <1>2. rec'[a] = Unregistered /\ \A b \in Agents \ {a} : rec'[b] = rec[b]
    BY <1>1 DEF IInv, TypeOK
  <1> QED BY <1>1, <1>2 DEF Still, Held, SameContents, Available

\* close leaves what is held, and nothing is armed any more.
LEMMA CloseChange ==
  ASSUME IInv, Close
  PROVE  Still
  <1>1. /\ closed' = TRUE /\ disk' = disk /\ hist' = hist
        /\ rec' = [a \in Agents |-> IF rec[a] = Unregistered THEN rec[a]
                                    ELSE [rec[a] EXCEPT !.timer = {}]]
    BY DEF Close
  <1>2. ASSUME NEW b \in Agents, rec'[b] # Unregistered
        PROVE  rec[b] # Unregistered /\ rec'[b].run = rec[b].run /\ rec'[b].batch = rec[b].batch
    <2>1. rec[b] # Unregistered /\ rec'[b] = [rec[b] EXCEPT !.timer = {}]
      BY <1>1, <1>2
    <2>2. rec[b] \in RecordType
      BY <2>1 DEF IInv, TypeOK
    <2> QED BY <2>1, <2>2 DEF RecordType
  <1>3. \A b \in Agents : SameContents(Held(b), Held(b)')
    BY <1>1 DEF Held, SameContents
  <1> QED BY <1>1, <1>2, <1>3 DEF Still, Available

\* The passing of an instant leaves what is held; the timer was armed for it and
\* still is.
LEMMA InstantPassesChange ==
  ASSUME IInv, NEW a \in Agents, NEW f \in {"batchDueAt", "suspension"}, InstantPasses(a, f)
  PROVE  Still
  <1>1. /\ rec' = [rec EXCEPT ![a] = Elapsed(@, f)] /\ disk' = [disk EXCEPT ![a] = Elapsed(@, f)]
        /\ hist' = hist /\ failure' = failure /\ closed' = closed
    BY DEF InstantPasses
  <1>2. /\ rec'[a] = Elapsed(rec[a], f) /\ disk'[a] = Elapsed(disk[a], f)
        /\ \A b \in Agents \ {a} : rec'[b] = rec[b] /\ disk'[b] = disk[b]
    BY <1>1 DEF IInv, TypeOK
  <1>3. f \notin DOMAIN Unregistered /\ f \notin DOMAIN NotSaved
    BY DEF Unregistered, NotSaved
  <1>4. SameContents(Held(a), Held(a)')
    <2>1. CASE disk[a] = NotSaved
      BY <1>2, <1>3, <2>1 DEF Elapsed, Held, SameContents
    <2>2. CASE disk[a] # NotSaved
      <3>1. disk[a] \in CheckpointType
        BY <2>2 DEF IInv, TypeOK
      <3>2. disk'[a] = disk[a] \/ disk'[a] = [disk[a] EXCEPT ![f] = "passed"]
        BY <1>2 DEF Elapsed
      <3>3. SameContents(disk[a], disk'[a]) /\ DOMAIN disk'[a] = DOMAIN disk[a]
        BY <3>1, <3>2 DEF CheckpointType, SameContents
      <3>4. DOMAIN disk[a] # DOMAIN NotSaved
        BY <3>1 DEF CheckpointType, NotSaved
      <3>5. disk'[a] # NotSaved
        BY <3>3, <3>4
      <3> QED BY <2>2, <3>3, <3>5 DEF Held
    <2> QED BY <2>1, <2>2
  <1>5. ASSUME rec'[a] # Unregistered
        PROVE  /\ rec[a] # Unregistered
               /\ rec'[a].run = rec[a].run /\ rec'[a].batch = rec[a].batch
               /\ rec'[a].timer = rec[a].timer /\ ArmTimer(rec'[a]).timer = ArmTimer(rec[a]).timer
    <2>1. rec[a] # Unregistered
      BY <1>2, <1>3, <1>5 DEF Elapsed
    <2>2. rec[a] \in RecordType /\ DOMAIN rec[a] = Fields
      BY <2>1, RecordFields DEF IInv, TypeOK
    <2>3. \/ rec'[a] = rec[a]
          \/ rec[a][f] = "ahead" /\ rec'[a] = [rec[a] EXCEPT ![f] = "passed"]
      BY <1>2 DEF Elapsed
    <2>4. /\ DOMAIN rec'[a] = Fields /\ rec'[a].run = rec[a].run /\ rec'[a].timer = rec[a].timer
          /\ rec'[a].batch = rec[a].batch /\ rec'[a].pending = rec[a].pending
          /\ \/ rec'[a].suspension = rec[a].suspension
             \/ rec[a].suspension = "ahead" /\ rec'[a].suspension = "passed"
          /\ \/ rec'[a].batchDueAt = rec[a].batchDueAt
             \/ rec[a].batchDueAt = "ahead" /\ rec'[a].batchDueAt = "passed"
      BY <2>2, <2>3 DEF Fields
    <2>5. ArmTimer(rec'[a]).timer = ArmTimer(rec[a]).timer
      BY <2>2, <2>4, SameInstants DEF HasBatch
    <2> QED BY <2>1, <2>4, <2>5
  <1>6. \A b \in Agents \ {a} : Held(b)' = Held(b)
    BY <1>2 DEF Held
  <1> QED BY <1>1, <1>2, <1>4, <1>5, <1>6 DEF Still, Available, SameContents

\* Every step is a call that saves one change, or leaves alone what is held.
LEMMA StepChange ==
  ASSUME IInv, TimerCoversInstants, [Next]_vars
  PROVE  Still \/ \E a \in Agents : Call(a)
  <1>1. nextRun \in Nat
    BY DEF IInv, TypeOK
  <1>2. ASSUME NEW a \in Agents, AgentStep(a) PROVE Still \/ Call(a)
    <2>1. CASE \E needsRun \in BOOLEAN : Register(a, needsRun)
      BY <2>1, RegisterChange
    <2>2. CASE Unregister(a)
      BY <2>2, UnregisterChange
    <2>3. CASE \E e \in Events : Notify(a, e)
      BY <2>3, NotifyChange
    <2>4. CASE \E until \in {"manual", "ahead"} : Suspend(a, until)
      BY <2>4, SuspendChange
    <2>5. CASE Resume(a)
      BY <2>5, ResumeChange
    <2>6. CASE CancelOperations(a)
      BY <2>6, CancelOperationsChange
    <2>7. CASE OnTimer(a)
      BY <2>7, OnTimerChange
    <2>8. CASE WindowPasses(a) \/ ResumptionPasses(a)
      BY <2>8, InstantPassesChange DEF WindowPasses, ResumptionPasses
    <2> QED BY <1>2, <2>1, <2>2, <2>3, <2>4, <2>5, <2>6, <2>7, <2>8 DEF AgentStep
  <1>3. ASSUME NEW a \in Agents, NEW c \in 0 .. nextRun - 1, RunStep(a, c)
        PROVE  Still \/ Call(a)
    <2>0. c \in Nat
      BY <1>1
    <2>1. CASE \E keys \in SUBSET Keys : RegisterOperations(a, c, keys)
      BY <2>0, <2>1, RegisterOperationsChange
    <2>2. CASE \E intent \in {"continue", "idle"} : FinishRun(a, c, intent)
      BY <2>0, <2>2, FinishRunChange
    <2>3. CASE ReturnRun(a, c)
      BY <2>0, <2>3, ReturnRunChange
    <2>4. CASE ReturnRunHalfSaved(a, c)
      BY <2>0, <2>4, ReturnRunHalfSavedChange
    <2> QED BY <1>3, <2>1, <2>2, <2>3, <2>4 DEF RunStep
  <1>4. CASE \E o \in issued : CompleteOperation(o)
    BY <1>4, CompleteOperationChange
  <1>5. CASE (\E o \in issued : DeadlinePasses(o)) \/ WaitForReady \/ UNCHANGED vars
    <2>1. /\ rec' = rec /\ disk' = disk /\ hist' = hist
          /\ failure' = failure /\ closed' = closed
      BY <1>5 DEF DeadlinePasses, WaitForReady, vars, procVars
    <2> QED BY <2>1 DEF Still, Held, SameContents, Available
  <1>6. CASE TakeNextRun
    BY <1>6, TakeNextRunChange
  <1>7. CASE Close
    BY <1>7, CloseChange
  <1>8. CASE Restart
    <2>1. rec' = [a \in Agents |-> Unregistered] /\ disk' = disk /\ hist' = hist
      BY <1>8 DEF Restart
    <2> QED BY <2>1 DEF Still, Held, SameContents
  <1> QED BY <1>2, <1>3, <1>4, <1>5, <1>6, <1>7, <1>8 DEF Next

----------------------------------------------------------------------------
(* Events and timers *)

\* EventsConserved, agent by agent.
EventsHeld ==
  \A a \in Agents :
    /\ \A e \in Events : <<a, e>> \in owed <=> e \in Held(a).events \cup Held(a).batch.events
    /\ Held(a).events \cap Held(a).batch.events = {}

\* What a call leaves of the record and the checkpoint of its agent.
LEMMA CallView ==
  ASSUME IInv, NEW a \in Agents, NEW r, NEW n, Saves(a, r, n)
  PROVE  /\ rec'[a] = n /\ SameContents(n, Held(a)')
         /\ \A b \in Agents \ {a} : rec'[b] = rec[b] /\ Held(b)' = Held(b)
  <1>1. /\ rec'[a] = n /\ disk'[a] = Checkpoint(n)
        /\ \A b \in Agents \ {a} : rec'[b] = rec[b] /\ disk'[b] = disk[b]
    BY DEF Saves, IInv, TypeOK
  <1>2. Checkpoint(n) # NotSaved
    BY DEF Checkpoint, NotSaved
  <1> QED BY <1>1, <1>2 DEF Held, SameContents, Checkpoint

\* Timers cover the instants to come after every step.
LEMMA TimersKept ==
  ASSUME IInv, TimerCoversInstants, Still \/ \E a \in Agents : Call(a)
  PROVE  TimerCoversInstants'
  <1>1. CASE Still
    BY <1>1 DEF Still, TimerCoversInstants, Registered
  <1>2. ASSUME NEW a \in Agents, NEW r, NEW n, Saves(a, r, n) PROVE TimerCoversInstants'
    <2>1. /\ rec'[a] = n /\ n.timer = ArmTimer(n).timer /\ Available
          /\ \A b \in Agents \ {a} : rec'[b] = rec[b]
      BY <1>2, CallView DEF Saves, Reconciled
    <2> QED BY <2>1 DEF TimerCoversInstants, Registered
  <1> QED BY <1>1, <1>2 DEF Call

\* What an agent holds has its type.
LEMMA HeldType ==
  ASSUME IInv, NEW a \in Agents
  PROVE  /\ Held(a).pending \subseteq Operations /\ Held(a).completed \subseteq Results
         /\ Held(a).events \subseteq Events /\ Held(a).batch \in Batches \cup {NoBatch}
         /\ Held(a).batch.results \subseteq Results /\ Held(a).batch.events \subseteq Events
  <1>1. CASE disk[a] = NotSaved
    BY <1>1 DEF Held, Nothing, NoBatch
  <1>2. CASE disk[a] # NotSaved
    BY <1>2 DEF Held, IInv, TypeOK, CheckpointType, Batches, NoBatch
  <1> QED BY <1>1, <1>2

\* Sealing moves events and loses none.
LEMMA CarriedEvents ==
  ASSUME NEW r, NEW n, Carries(r, n)
  PROVE  /\ n.events \cup n.batch.events = r.events \cup r.batch.events
         /\ r.events \cap r.batch.events = {} => n.events \cap n.batch.events = {}
  BY DEF Carries, SameContents, NoBatch

\* Every step keeps the events owed and the events held the same.
LEMMA EventsKept ==
  ASSUME IInv, EventsHeld, Still \/ \E a \in Agents : Call(a)
  PROVE  EventsHeld'
  <1>1. CASE Still
    BY <1>1 DEF Still, EventsHeld, SameContents, owed
  <1>2. ASSUME NEW a \in Agents, NEW r, NEW n, Change(a, r), Saves(a, r, n) PROVE EventsHeld'
    <2>1. /\ SameContents(n, Held(a)') /\ Carries(r, n)
          /\ \A b \in Agents \ {a} : Held(b)' = Held(b)
      BY <1>2, CallView DEF Saves, Reconciled
    <2>2. /\ Held(a)'.events \cup Held(a)'.batch.events = r.events \cup r.batch.events
          /\ r.events \cap r.batch.events = {} => Held(a)'.events \cap Held(a)'.batch.events = {}
      BY <2>1, CarriedEvents DEF SameContents
    <2>3. /\ \A b \in Agents \ {a}, e \in Events : <<b, e>> \in owed' <=> <<b, e>> \in owed
          /\ \A e \in Events : <<a, e>> \in owed' <=> e \in r.events \cup r.batch.events
          /\ r.events \cap r.batch.events = {}
      <3>1. CASE Collects(a, r)
        BY <3>1 DEF Collects, EventsHeld, owed
      <3>2. CASE Buffers(a, r)
        <4>1. PICK e \in Events :
                /\ e \notin Held(a).events \cup Held(a).batch.events
                /\ r.events = Held(a).events \cup {e} /\ r.batch = Held(a).batch
                /\ hist' = [hist EXCEPT !.owed = @ \cup {<<a, e>>}]
          BY <3>2 DEF Buffers
        <4>2. owed' = owed \cup {<<a, e>>}
          BY <4>1 DEF owed, IInv, TypeOK
        <4> QED BY <4>1, <4>2 DEF EventsHeld
      <3>3. CASE Stages(a, r)
        BY <3>3 DEF Stages, EventsHeld, owed, IInv, TypeOK
      <3>4. CASE Finishes(a, r)
        <4>1. /\ r.batch = NoBatch /\ r.events = Held(a).events
              /\ owed' = owed \ {<<a, e>> : e \in Held(a).batch.events}
          BY <3>4 DEF Finishes, owed, IInv, TypeOK
        <4>2. r.batch.events = {}
          BY <4>1 DEF NoBatch
        <4> QED BY <4>1, <4>2 DEF EventsHeld
      <3> QED BY <1>2, <3>1, <3>2, <3>3, <3>4 DEF Change
    <2> QED BY <2>1, <2>2, <2>3 DEF EventsHeld
  <1> QED BY <1>1, <1>2 DEF Call

----------------------------------------------------------------------------
(* Operations and runs *)

\* Run ids are handed out in order, and no more than MaxRuns of them.
LEMMA RunsGrow ==
  ASSUME IInv, [Next]_vars, nextRun <= MaxRuns
  PROVE  nextRun' \in Nat /\ nextRun <= nextRun' /\ nextRun' <= MaxRuns
  <1>1. nextRun \in Nat /\ MaxRuns \in Nat
    BY SchedulerAssumption DEF IInv, TypeOK
  <1>2. nextRun' = nextRun \/ (nextRun < MaxRuns /\ nextRun' = nextRun + 1)
    <2>1. ASSUME NEW a \in Agents, AgentStep(a) PROVE nextRun' = nextRun
      BY <2>1 DEF AgentStep, Register, Unregister, Notify, Suspend, Resume, CancelOperations,
                  OnTimer, WindowPasses, ResumptionPasses, InstantPasses, idVars
    <2>2. ASSUME NEW a \in Agents, NEW c, RunStep(a, c) PROVE nextRun' = nextRun
      BY <2>2 DEF RunStep, RegisterOperations, FinishRun, ReturnRun, ReturnRunHalfSaved, idVars
    <2>3. ASSUME NEW o, CompleteOperation(o) \/ DeadlinePasses(o) PROVE nextRun' = nextRun
      BY <2>3 DEF CompleteOperation, DeadlinePasses, idVars
    <2>4. CASE TakeNextRun
      BY <2>4 DEF TakeNextRun
    <2>5. CASE WaitForReady \/ Close \/ Restart \/ UNCHANGED vars
      BY <2>5 DEF WaitForReady, Close, Restart, vars, idVars
    <2> QED BY <2>1, <2>2, <2>3, <2>4, <2>5 DEF Next
  <1> QED BY <1>1, <1>2

\* Sealing changes no operation an agent holds.
LEMMA CarriedOps ==
  ASSUME NEW r, NEW n, Carries(r, n)
  PROVE  OpsOf(n) = OpsOf(r)
  <1>1. CASE SameContents(r, n)
    BY <1>1 DEF SameContents, OpsOf
  <1>2. CASE ~SameContents(r, n)
    <2>1. /\ n.pending = r.pending /\ n.completed = {} /\ n.batch.results = r.completed
          /\ r.batch.results = {}
      BY <1>2 DEF Carries, NoBatch
    <2>2. Ops({}) = {}
      BY DEF Ops
    <2> QED BY <2>1, <2>2 DEF OpsOf
  <1> QED BY <1>1, <1>2

\* The operations of results, old and new.
LEMMA OpsOfResults ==
  ASSUME NEW results, NEW ops, NEW out
  PROVE  Ops(results \cup [operation : ops, outcome : {out}]) = Ops(results) \cup ops
  <1>1. ASSUME NEW o \in ops PROVE o \in Ops([operation : ops, outcome : {out}])
    <2>1. [operation |-> o, outcome |-> out] \in [operation : ops, outcome : {out}]
      OBVIOUS
    <2>2. [operation |-> o, outcome |-> out].operation = o
      OBVIOUS
    <2> QED BY <2>1, <2>2 DEF Ops
  <1>2. \A x \in [operation : ops, outcome : {out}] : x.operation \in ops
    OBVIOUS
  <1> QED BY <1>1, <1>2 DEF Ops

\* The operations an agent holds after a change.
LEMMA ChangedOps ==
  ASSUME IInv, OpsAreIssued, RunsAreFresh, NEW a \in Agents, NEW r, Change(a, r)
  PROVE  /\ \A o \in OpsOf(r) : o \in issued' /\ o.agent = a
         /\ \A o \in issued' : o.origin < nextRun
         /\ issued \subseteq issued'
         /\ acked' \subseteq acked \cup Ops(Held(a).batch.results)
  <1>1. CASE Collects(a, r)
    <2>1. PICK ops \in SUBSET Held(a).pending, out \in Outcomes :
            /\ r.pending = Held(a).pending \ ops
            /\ r.completed = Held(a).completed \cup [operation : ops, outcome : {out}]
      BY <1>1 DEF Collects
    <2>2. Ops(r.completed) = Ops(Held(a).completed) \cup ops
      <3>1. Ops(Held(a).completed \cup [operation : ops, outcome : {out}])
              = Ops(Held(a).completed) \cup ops
        BY OpsOfResults
      <3> QED BY <2>1, <3>1
    <2>3. OpsOf(r) \subseteq OpsOf(Held(a))
      BY <1>1, <2>1, <2>2 DEF Collects, OpsOf
    <2> QED BY <1>1, <2>3 DEF Collects, OpsAreIssued, issued, acked
  <1>2. CASE Buffers(a, r)
    <2>1. OpsOf(r) = OpsOf(Held(a)) /\ issued' = issued /\ acked' = acked
      BY <1>2 DEF Buffers, OpsOf, issued, acked, IInv, TypeOK
    <2> QED BY <2>1 DEF OpsAreIssued
  <1>3. CASE Stages(a, r)
    <2>1. PICK staged, keys :
            /\ staged = [agent : {a}, key : keys, origin : {rec[a].run}]
            /\ rec[a] # Unregistered /\ HasRun(rec[a])
            /\ r.pending = Held(a).pending \cup staged
            /\ r.completed = Held(a).completed /\ r.batch = Held(a).batch
            /\ hist' = [hist EXCEPT !.issued = @ \cup staged]
      BY <1>3 DEF Stages
    <2>2. issued' = issued \cup staged /\ acked' = acked
      BY <2>1 DEF issued, acked, IInv, TypeOK
    <2>3. \A o \in staged : o.agent = a /\ o.origin < nextRun
      BY <2>1 DEF RunsAreFresh
    <2>4. OpsOf(r) = OpsOf(Held(a)) \cup staged
      BY <2>1 DEF OpsOf
    <2> QED BY <2>2, <2>3, <2>4 DEF OpsAreIssued
  <1>4. CASE Finishes(a, r)
    <2>1. Ops(r.batch.results) = {}
      BY <1>4 DEF Finishes, NoBatch, Ops
    <2>2. OpsOf(r) \subseteq OpsOf(Held(a))
      BY <1>4, <2>1 DEF Finishes, OpsOf
    <2>3. issued' = issued /\ acked' = acked \cup Ops(Held(a).batch.results)
      BY <1>4 DEF Finishes, issued, acked, IInv, TypeOK
    <2> QED BY <2>2, <2>3 DEF OpsAreIssued
  <1> QED BY <1>1, <1>2, <1>3, <1>4 DEF Change

\* Every step keeps the operations of an agent its own, registered by a run.
LEMMA OpsKept ==
  ASSUME IInv, IInv', OpsAreIssued, RunsAreFresh, Still \/ \E a \in Agents : Call(a),
         nextRun \in Nat, nextRun' \in Nat, nextRun <= nextRun', nextRun' <= MaxRuns
  PROVE  OpsAreIssued'
  <1>0. /\ \A o \in issued : o.origin \in Nat
        /\ \A o \in issued' : o.origin \in Nat
    BY DEF IInv, TypeOK, issued, Operations
  <1>1. CASE Still
    <2>1. /\ \A a \in Agents : OpsOf(Held(a)') = OpsOf(Held(a))
          /\ issued' = issued /\ acked' = acked
      BY <1>1 DEF Still, SameContents, OpsOf, issued, acked
    <2> QED BY <1>0, <2>1 DEF OpsAreIssued
  <1>2. ASSUME NEW a \in Agents, NEW r, NEW n, Change(a, r), Saves(a, r, n) PROVE OpsAreIssued'
    <2>1. /\ SameContents(n, Held(a)') /\ Carries(r, n)
          /\ \A b \in Agents \ {a} : Held(b)' = Held(b)
      BY <1>2, CallView DEF Saves, Reconciled
    <2>2. OpsOf(Held(a)') = OpsOf(r)
      BY <2>1, CarriedOps DEF SameContents, OpsOf
    <2>3. /\ \A o \in OpsOf(r) : o \in issued' /\ o.agent = a
          /\ \A o \in issued' : o.origin < nextRun
          /\ issued \subseteq issued'
          /\ acked' \subseteq acked \cup Ops(Held(a).batch.results)
      BY <1>2, ChangedOps
    <2>4. Ops(Held(a).batch.results) \subseteq issued
      BY DEF OpsAreIssued, OpsOf
    <2>5. \A b \in Agents : \A o \in OpsOf(Held(b)') : o \in issued' /\ o.agent = b
      BY <2>1, <2>2, <2>3 DEF OpsAreIssued
    <2>6. acked' \subseteq issued'
      BY <2>3, <2>4 DEF OpsAreIssued
    <2>7. \A o \in issued' : o.origin < nextRun'
      BY <1>0, <2>3
    <2> QED BY <2>5, <2>6, <2>7 DEF OpsAreIssued
  <1> QED BY <1>1, <1>2 DEF Call

\* The run an agent is in stays later than everything delivered to it.
LEMMA RunsKept ==
  ASSUME IInv, IInv', OpsAreIssued, OpsAreIssued', RunsAreFresh,
         Still \/ \E a \in Agents : Call(a),
         nextRun \in Nat, nextRun' \in Nat, nextRun <= nextRun'
  PROVE  RunsAreFresh'
  <1>1. CASE Still
    <2> SUFFICES ASSUME NEW b \in Agents, rec'[b] # Unregistered, HasRun(rec'[b])
                 PROVE  /\ rec'[b].run < nextRun'
                        /\ \A o \in acked' \cup Ops(rec'[b].batch.results) :
                             o.agent = b => o.origin < rec'[b].run
      BY DEF RunsAreFresh
    <2>1. /\ rec[b] # Unregistered /\ acked' = acked
          /\ rec'[b].run = rec[b].run /\ rec'[b].batch = rec[b].batch
      BY <1>1 DEF Still, acked
    <2>2. HasRun(rec[b]) /\ rec[b].run \in Int
      BY <2>1 DEF HasRun, IInv, TypeOK, RecordType, NoRun
    <2> QED BY <2>1, <2>2 DEF RunsAreFresh
  <1>2. ASSUME NEW a \in Agents, NEW r, NEW n, Change(a, r), RunGoesOn(a, r), Saves(a, r, n)
        PROVE  RunsAreFresh'
    <2>1. /\ rec'[a] = n /\ SameContents(n, Held(a)') /\ Carries(r, n) /\ n.run = r.run
          /\ \A b \in Agents \ {a} : rec'[b] = rec[b]
      BY <1>2, CallView DEF Saves, Reconciled
    <2>2. acked' \subseteq acked \cup Ops(Held(a).batch.results)
      BY <1>2, ChangedOps
    <2>3. ASSUME NEW b \in Agents \ {a}, rec'[b] # Unregistered, HasRun(rec'[b])
          PROVE  /\ rec'[b].run < nextRun'
                 /\ \A o \in acked' \cup Ops(rec'[b].batch.results) :
                      o.agent = b => o.origin < rec'[b].run
      <3>1. \A o \in Ops(Held(a).batch.results) : o.agent = a
        BY DEF OpsAreIssued, OpsOf
      <3>2. rec'[b] = rec[b] /\ rec[b].run \in Int
        BY <2>1, <2>3 DEF IInv, TypeOK, RecordType, NoRun
      <3> QED BY <2>2, <2>3, <3>1, <3>2 DEF RunsAreFresh
    <2>4. ASSUME n # Unregistered, HasRun(n)
          PROVE  /\ n.run < nextRun'
                 /\ \A o \in acked' \cup Ops(n.batch.results) : o.agent = a => o.origin < n.run
      <3>1. CASE r.run = NoRun
        BY <2>1, <2>4, <3>1 DEF HasRun
      <3>2. CASE rec[a] # Unregistered /\ r.run = rec[a].run /\ r.run # NoRun
        <4>1. a \in Registered /\ Available
          BY <1>2, <3>2 DEF Registered, Saves
        <4>2. /\ rec[a] \in RecordType /\ Coherent(rec[a]) /\ SameContents(Held(a), rec[a])
          BY <4>1, HeldIsShown
        <4>3. HasBatch(rec[a]) /\ HasRun(rec[a])
          BY <3>2, <4>2 DEF Coherent, HasRun
        <4>4. ~Finishes(a, r)
          BY <3>2 DEF Finishes
        <4>5. r.batch = rec[a].batch /\ acked' = acked
          BY <1>2, <4>2, <4>4
          DEF Change, Collects, Buffers, Stages, SameContents, acked, IInv, TypeOK
        <4>6. n.batch = rec[a].batch
          BY <2>1, <4>3, <4>5 DEF Carries, SameContents, HasBatch
        <4>7. rec[a].run \in Int
          BY <4>2 DEF RecordType, NoRun
        <4> QED BY <2>1, <3>2, <4>3, <4>5, <4>6, <4>7 DEF RunsAreFresh
      <3>3. CASE r.run = nextRun /\ nextRun' = nextRun + 1 /\ hist' = hist
        <4>1. Ops(n.batch.results) \subseteq OpsOf(Held(a)')
          BY <2>1 DEF OpsOf, SameContents
        <4>2. Ops(n.batch.results) \subseteq issued' /\ acked' \subseteq issued'
          BY <4>1 DEF OpsAreIssued
        <4>3. issued' = issued
          BY <3>3 DEF issued
        <4> QED BY <2>1, <3>3, <4>2, <4>3 DEF OpsAreIssued
      <3> QED BY <1>2, <3>1, <3>2, <3>3 DEF RunGoesOn
    <2> QED BY <2>1, <2>3, <2>4 DEF RunsAreFresh
  <1> QED BY <1>1, <1>2 DEF Call

----------------------------------------------------------------------------
(* The refinement *)

\* What the agents hold together, in flight, collected and sealed.
InFlight  == UNION {disk[a].pending : a \in Saved}
Collected == UNION {Ops(disk[a].completed) : a \in Saved}
Sealed    == UNION {Ops(disk[a].batch.results) : a \in Saved}

\* Each of the three is made of one part per agent, for the checkpoints d.
InPartsOf(d) ==
  LET saved     == {a \in Agents : d[a] # NotSaved}
      held(a)   == IF d[a] = NotSaved THEN Nothing ELSE d[a]
      pending   == UNION {d[a].pending : a \in saved}
      completed == UNION {Ops(d[a].completed) : a \in saved}
      sealed    == UNION {Ops(d[a].batch.results) : a \in saved}
  IN /\ \A o \in pending \cup completed \cup sealed : o.agent \in Agents
     /\ \A a \in Agents : \A o :
          /\ (o \in pending /\ o.agent = a) <=> o \in held(a).pending
          /\ (o \in completed /\ o.agent = a) <=> o \in Ops(held(a).completed)
          /\ (o \in sealed /\ o.agent = a) <=> o \in Ops(held(a).batch.results)

InParts ==
  /\ \A o \in InFlight \cup Collected \cup Sealed : o.agent \in Agents
  /\ \A a \in Agents : \A o :
       /\ (o \in InFlight /\ o.agent = a) <=> o \in Held(a).pending
       /\ (o \in Collected /\ o.agent = a) <=> o \in Ops(Held(a).completed)
       /\ (o \in Sealed /\ o.agent = a) <=> o \in Ops(Held(a).batch.results)

\* The parts of the three unions, when every operation is its agent's own.
LEMMA Parts ==
  ASSUME NEW d,
         \A a \in Agents :
           \A o \in OpsOf(IF d[a] = NotSaved THEN Nothing ELSE d[a]) : o.agent = a
  PROVE  InPartsOf(d)
  <1>0. PICK held : held = [a \in Agents |-> IF d[a] = NotSaved THEN Nothing ELSE d[a]]
    OBVIOUS
  <1> DEFINE saved == {a \in Agents : d[a] # NotSaved}
  <1>1. \A a \in saved : held[a] = d[a]
    BY <1>0
  <1>2. \A a \in Agents \ saved : held[a].pending = {} /\ Ops(held[a].completed) = {}
                                  /\ Ops(held[a].batch.results) = {}
    BY <1>0 DEF Nothing, NoBatch, Ops
  <1>3. \A a \in Agents : \A o \in held[a].pending \cup Ops(held[a].completed)
                                     \cup Ops(held[a].batch.results) : o.agent = a
    BY <1>0 DEF OpsOf
  <1>4. ASSUME NEW a \in Agents, NEW o
        PROVE  ((\E b \in saved : o \in d[b].pending) /\ o.agent = a) <=> o \in held[a].pending
    BY <1>1, <1>2, <1>3
  <1>5. ASSUME NEW a \in Agents, NEW o
        PROVE  ((\E b \in saved : o \in Ops(d[b].completed)) /\ o.agent = a)
                 <=> o \in Ops(held[a].completed)
    BY <1>1, <1>2, <1>3
  <1>6. ASSUME NEW a \in Agents, NEW o
        PROVE  ((\E b \in saved : o \in Ops(d[b].batch.results)) /\ o.agent = a)
                 <=> o \in Ops(held[a].batch.results)
    BY <1>1, <1>2, <1>3
  <1>7. \A a \in saved : \A o \in d[a].pending \cup Ops(d[a].completed)
                                     \cup Ops(d[a].batch.results) : o.agent \in Agents
    BY <1>1, <1>3
  <1> DEFINE pending == UNION {d[a].pending : a \in saved}
             completed == UNION {Ops(d[a].completed) : a \in saved}
             sealed == UNION {Ops(d[a].batch.results) : a \in saved}
  <1> HIDE DEF saved
  <1>8. /\ \A o : o \in pending <=> \E b \in saved : o \in d[b].pending
        /\ \A o : o \in completed <=> \E b \in saved : o \in Ops(d[b].completed)
        /\ \A o : o \in sealed <=> \E b \in saved : o \in Ops(d[b].batch.results)
    OBVIOUS
  <1> HIDE DEF pending, completed, sealed
  <1>9. \A o \in pending \cup completed \cup sealed : o.agent \in Agents
    BY <1>7, <1>8
  <1>10. \A a \in Agents : \A o :
           /\ (o \in pending /\ o.agent = a) <=> o \in held[a].pending
           /\ (o \in completed /\ o.agent = a) <=> o \in Ops(held[a].completed)
           /\ (o \in sealed /\ o.agent = a) <=> o \in Ops(held[a].batch.results)
    <2> SUFFICES ASSUME NEW a \in Agents, NEW o
                 PROVE  /\ (o \in pending /\ o.agent = a) <=> o \in held[a].pending
                        /\ (o \in completed /\ o.agent = a) <=> o \in Ops(held[a].completed)
                        /\ (o \in sealed /\ o.agent = a) <=> o \in Ops(held[a].batch.results)
      OBVIOUS
    <2>1. (o \in pending /\ o.agent = a) <=> o \in held[a].pending
      BY <1>4, <1>8
    <2>2. (o \in completed /\ o.agent = a) <=> o \in Ops(held[a].completed)
      BY <1>5, <1>8
    <2>3. (o \in sealed /\ o.agent = a) <=> o \in Ops(held[a].batch.results)
      BY <1>6, <1>8
    <2> QED BY <2>1, <2>2, <2>3
  <1>11. \A a \in Agents : held[a] = IF d[a] = NotSaved THEN Nothing ELSE d[a]
    BY <1>0
  <1> QED BY <1>9, <1>10, <1>11 DEF InPartsOf, pending, completed, sealed, saved

\* With every operation its agent's own, the unions are made of parts, before a
\* step and after it.
LEMMA OwnOpsInParts ==
  /\ OpsAreIssued => InParts
  /\ OpsAreIssued' => InParts'
  <1>1. ASSUME OpsAreIssued PROVE InParts
    <2>1. InPartsOf(disk)
      BY <1>1, Parts DEF OpsAreIssued, Held
    <2> QED BY <2>1 DEF InPartsOf, InParts, Held, InFlight, Collected, Sealed, Saved
  <1>2. ASSUME OpsAreIssued' PROVE InParts'
    <2>1. InPartsOf(disk')
      BY <1>2, Parts DEF OpsAreIssued, Held
    <2> QED BY <2>1 DEF InPartsOf, InParts, Held, InFlight, Collected, Sealed, Saved
  <1> QED BY <1>1, <1>2

\* One agent's operations end, its batch is consumed, what it collected is
\* sealed: an Advance of OperationDelivery.
LEMMA AdvanceStep ==
  ASSUME InParts, InParts', NEW a \in Agents, NEW done \in SUBSET Held(a).pending,
         NEW consume \in BOOLEAN, NEW seal \in BOOLEAN, NEW kept, NEW coll,
         \A b \in Agents \ {a} : Held(b)' = Held(b),
         kept = IF consume THEN {} ELSE Ops(Held(a).batch.results),
         coll = Ops(Held(a).completed) \cup done,
         seal => kept = {},
         Held(a)'.pending = Held(a).pending \ done,
         Ops(Held(a)'.completed) = (IF seal THEN {} ELSE coll),
         Ops(Held(a)'.batch.results) = (IF seal THEN coll ELSE kept),
         acked' = IF consume THEN acked \cup Ops(Held(a).batch.results) ELSE acked
  PROVE  Delivery!Advance(a)
  <1>1. PICK flying, flying2, buffered, buffered2, sealed, sealed2 :
          /\ flying = InFlight /\ buffered = Collected /\ sealed = Sealed
          /\ flying2 = InFlight' /\ buffered2 = Collected' /\ sealed2 = Sealed'
    OBVIOUS
  <1>2. \A o : /\ (o \in flying /\ o.agent = a) <=> o \in Held(a).pending
               /\ (o \in buffered /\ o.agent = a) <=> o \in Ops(Held(a).completed)
               /\ (o \in sealed /\ o.agent = a) <=> o \in Ops(Held(a).batch.results)
    BY <1>1 DEF InParts
  <1>3. \A o : /\ (o \in flying2 /\ o.agent = a) <=> o \in Held(a)'.pending
               /\ (o \in buffered2 /\ o.agent = a) <=> o \in Ops(Held(a)'.completed)
               /\ (o \in sealed2 /\ o.agent = a) <=> o \in Ops(Held(a)'.batch.results)
    BY <1>1 DEF InParts
  <1>4. \A o : o.agent # a => /\ o \in flying2 <=> o \in flying
                              /\ o \in buffered2 <=> o \in buffered
                              /\ o \in sealed2 <=> o \in sealed
    <2>1. ASSUME NEW o, o.agent # a, o.agent \in Agents
          PROVE  /\ o \in flying2 <=> o \in flying
                 /\ o \in buffered2 <=> o \in buffered
                 /\ o \in sealed2 <=> o \in sealed
      <3>1. PICK b : b = o.agent
        OBVIOUS
      <3>2. Held(b)' = Held(b) /\ b \in Agents
        BY <2>1, <3>1
      <3>3. /\ o \in flying <=> o \in Held(b).pending
            /\ o \in buffered <=> o \in Ops(Held(b).completed)
            /\ o \in sealed <=> o \in Ops(Held(b).batch.results)
        BY <1>1, <3>1, <3>2 DEF InParts
      <3>4. /\ o \in flying2 <=> o \in Held(b)'.pending
            /\ o \in buffered2 <=> o \in Ops(Held(b)'.completed)
            /\ o \in sealed2 <=> o \in Ops(Held(b)'.batch.results)
        BY <1>1, <3>1, <3>2 DEF InParts
      <3> QED BY <3>2, <3>3, <3>4
    <2>2. /\ \A o \in flying \cup buffered \cup sealed : o.agent \in Agents
          /\ \A o \in flying2 \cup buffered2 \cup sealed2 : o.agent \in Agents
      BY <1>1 DEF InParts
    <2> QED BY <2>1, <2>2
  <1>5. PICK P, C, T : /\ P = Held(a).pending /\ C = Ops(Held(a).completed)
                       /\ T = Ops(Held(a).batch.results)
    OBVIOUS
  <1>6. /\ \A o : (o \in flying /\ o.agent = a) <=> o \in P
        /\ \A o : (o \in buffered /\ o.agent = a) <=> o \in C
        /\ \A o : (o \in sealed /\ o.agent = a) <=> o \in T
        /\ \A o : (o \in flying2 /\ o.agent = a) <=> o \in P \ done
        /\ \A o : (o \in buffered2 /\ o.agent = a) <=> o \in (IF seal THEN {} ELSE coll)
        /\ \A o : (o \in sealed2 /\ o.agent = a) <=> o \in (IF seal THEN coll ELSE kept)
    BY <1>2, <1>3, <1>5
  <1>7. /\ done \subseteq P /\ coll = C \cup done
        /\ kept = (IF consume THEN {} ELSE T)
        /\ acked' = IF consume THEN acked \cup T ELSE acked
    BY <1>5
  <1> DEFINE of(ops) == {o \in ops : o.agent = a}
             keeps == IF consume THEN sealed \ of(sealed) ELSE sealed
             all == buffered \cup done
  <1>8. done \in SUBSET of(flying)
    BY <1>6, <1>7
  <1>9. seal => of(keeps) = {}
    BY <1>6, <1>7
  <1>10. flying2 = flying \ done
    BY <1>4, <1>6, <1>7
  <1>11. acked' = acked \cup (sealed \ keeps)
    <2>1. CASE consume
      BY <1>6, <1>7, <2>1
    <2>2. CASE ~consume
      BY <1>7, <2>2
    <2> QED BY <2>1, <2>2
  <1>12. sealed2 = IF seal THEN keeps \cup of(all) ELSE keeps
    <2>1. CASE seal
      BY <1>4, <1>6, <1>7, <2>1
    <2>2. CASE ~seal
      BY <1>4, <1>6, <1>7, <2>2
    <2> QED BY <2>1, <2>2
  <1>13. buffered2 = IF seal THEN all \ of(all) ELSE all
    <2>1. CASE seal
      BY <1>4, <1>6, <1>7, <2>1
    <2>2. CASE ~seal
      BY <1>4, <1>6, <1>7, <2>2
    <2> QED BY <2>1, <2>2
  <1>14. \E d \in SUBSET of(flying), c \in BOOLEAN, s \in BOOLEAN :
           LET k == IF c THEN sealed \ of(sealed) ELSE sealed
               l == buffered \cup d
           IN /\ s => of(k) = {}
              /\ flying2 = flying \ d
              /\ acked' = acked \cup (sealed \ k)
              /\ sealed2 = IF s THEN k \cup of(l) ELSE k
              /\ buffered2 = IF s THEN l \ of(l) ELSE l
    BY <1>8, <1>9, <1>10, <1>11, <1>12, <1>13
  <1> QED
    BY <1>1, <1>14 DEF Delivery!Advance, Delivery!Of, InFlight, Collected, Sealed

\* A run registers operations under free keys: an Issue of OperationDelivery.
LEMMA IssueStep ==
  ASSUME InParts, InParts', NEW a \in Agents, NEW run \in 0 .. MaxRuns - 1,
         NEW keys \in SUBSET (Keys \ KeysOf(OpsOf(Held(a)))),
         NEW staged, staged = [agent : {a}, key : keys, origin : {run}],
         staged \cap acked = {},
         \A b \in Agents \ {a} : Held(b)' = Held(b),
         Held(a)'.pending = Held(a).pending \cup staged,
         Held(a)'.completed = Held(a).completed, Held(a)'.batch = Held(a).batch,
         acked' = acked
  PROVE  Delivery!Issue(a)
  <1>1. PICK flying, flying2, buffered, buffered2, sealed, sealed2 :
          /\ flying = InFlight /\ buffered = Collected /\ sealed = Sealed
          /\ flying2 = InFlight' /\ buffered2 = Collected' /\ sealed2 = Sealed'
    OBVIOUS
  <1>2. \A b \in Agents : \A o :
          /\ (o \in flying /\ o.agent = b) <=> o \in Held(b).pending
          /\ (o \in buffered /\ o.agent = b) <=> o \in Ops(Held(b).completed)
          /\ (o \in sealed /\ o.agent = b) <=> o \in Ops(Held(b).batch.results)
    BY <1>1 DEF InParts
  <1>3. \A b \in Agents : \A o :
          /\ (o \in flying2 /\ o.agent = b) <=> o \in Held(b)'.pending
          /\ (o \in buffered2 /\ o.agent = b) <=> o \in Ops(Held(b)'.completed)
          /\ (o \in sealed2 /\ o.agent = b) <=> o \in Ops(Held(b)'.batch.results)
    BY <1>1 DEF InParts
  <1>4. /\ \A o \in flying \cup buffered \cup sealed : o.agent \in Agents
        /\ \A o \in flying2 \cup buffered2 \cup sealed2 : o.agent \in Agents
    BY <1>1 DEF InParts
  <1>5. \A o \in staged : o.agent = a
    OBVIOUS
  <1>6. flying2 = flying \cup staged
    <2>1. ASSUME NEW o, o.agent \in Agents
          PROVE  o \in flying2 <=> o \in flying \cup staged
      <3>1. CASE o.agent = a
        BY <1>2, <1>3, <3>1
      <3>2. CASE o.agent # a
        <4>1. Held(o.agent)' = Held(o.agent)
          BY <2>1, <3>2
        <4> QED BY <1>2, <1>3, <1>5, <2>1, <3>2, <4>1
      <3> QED BY <3>1, <3>2
    <2> QED BY <1>4, <1>5, <2>1
  <1>7. buffered2 = buffered /\ sealed2 = sealed
    <2>1. ASSUME NEW o, o.agent \in Agents
          PROVE  /\ o \in buffered2 <=> o \in buffered
                 /\ o \in sealed2 <=> o \in sealed
      <3>1. Held(o.agent)'.completed = Held(o.agent).completed
        BY <2>1
      <3>2. Held(o.agent)'.batch = Held(o.agent).batch
        BY <2>1
      <3> QED BY <1>2, <1>3, <2>1, <3>1, <3>2
    <2> QED BY <1>4, <2>1
  <1> DEFINE live == {o \in flying \cup buffered \cup sealed : o.agent = a}
  <1>8. live = OpsOf(Held(a))
    BY <1>2 DEF OpsOf
  <1>9. keys \in SUBSET (Keys \ {o.key : o \in live})
    BY <1>8 DEF KeysOf
  <1> HIDE DEF live
  <1>10. \E k \in SUBSET (Keys \ {o.key : o \in live}), c \in 0 .. MaxRuns - 1 :
           /\ [agent : {a}, key : k, origin : {c}] \cap acked = {}
           /\ flying2 = flying \cup [agent : {a}, key : k, origin : {c}]
           /\ buffered2 = buffered /\ sealed2 = sealed /\ acked' = acked
    BY <1>6, <1>7, <1>9
  <1> QED
    BY <1>1, <1>10
    DEF Delivery!Issue, Delivery!Live, Delivery!Of, live, InFlight, Collected, Sealed

\* Every step of the scheduler is a step of OperationDelivery, or changes nothing
\* of what it speaks of.
LEMMA DeliveryStep ==
  ASSUME IInv, OpsAreIssued, OpsAreIssued', RunsAreFresh, nextRun \in Nat,
         Still \/ \E a \in Agents : Call(a)
  PROVE  [Delivery!Next]_(Delivery!deliveryVars)
  <1>0. InParts /\ InParts'
    BY OwnOpsInParts
  <1>1. CASE Still
    <2>1. PICK flying, flying2, buffered, buffered2, sealed, sealed2 :
            /\ flying = InFlight /\ buffered = Collected /\ sealed = Sealed
            /\ flying2 = InFlight' /\ buffered2 = Collected' /\ sealed2 = Sealed'
      OBVIOUS
    <2>2. ASSUME NEW o, o.agent \in Agents
          PROVE  /\ o \in flying2 <=> o \in flying
                 /\ o \in buffered2 <=> o \in buffered
                 /\ o \in sealed2 <=> o \in sealed
      <3>1. PICK b : b = o.agent
        OBVIOUS
      <3>2. SameContents(Held(b), Held(b)')
        BY <1>1, <2>2, <3>1 DEF Still
      <3> QED BY <1>0, <2>1, <2>2, <3>1, <3>2 DEF InParts, SameContents
    <2>3. flying2 = flying /\ buffered2 = buffered /\ sealed2 = sealed
      BY <1>0, <2>1, <2>2 DEF InParts
    <2>4. acked' = acked
      BY <1>1 DEF Still, acked
    <2> QED
      BY <2>1, <2>3, <2>4 DEF Delivery!deliveryVars, InFlight, Collected, Sealed
  <1>2. ASSUME NEW a \in Agents, NEW r, NEW n, Change(a, r), RunGoesOn(a, r), Saves(a, r, n)
        PROVE  Delivery!Next
    <2>1. /\ SameContents(n, Held(a)') /\ Carries(r, n)
          /\ \A b \in Agents \ {a} : Held(b)' = Held(b)
      BY <1>2, CallView DEF Saves, Reconciled
    <2>2. PICK seal \in BOOLEAN : seal <=> ~SameContents(r, n)
      OBVIOUS
    <2>3. /\ Held(a)'.pending = r.pending
          /\ Held(a)'.completed = IF seal THEN {} ELSE r.completed
          /\ Held(a)'.batch.results = IF seal THEN r.completed ELSE r.batch.results
          /\ seal => r.batch.results = {}
      BY <2>1, <2>2 DEF Carries, SameContents, NoBatch
    <2>4. Ops({}) = {}
      BY DEF Ops
    <2>5. CASE Collects(a, r)
      <3>1. PICK ops \in SUBSET Held(a).pending, out \in Outcomes :
              /\ r.pending = Held(a).pending \ ops
              /\ r.completed = Held(a).completed \cup [operation : ops, outcome : {out}]
              /\ r.batch = Held(a).batch /\ hist' = hist
        BY <2>5 DEF Collects
      <3>2. Ops(Held(a).completed \cup [operation : ops, outcome : {out}])
              = Ops(Held(a).completed) \cup ops
        BY OpsOfResults
      <3>3. PICK kept, coll : /\ kept = Ops(Held(a).batch.results)
                              /\ coll = Ops(Held(a).completed) \cup ops
        OBVIOUS
      <3>4. /\ seal => kept = {}
            /\ Ops(Held(a)'.completed) = IF seal THEN {} ELSE coll
            /\ Ops(Held(a)'.batch.results) = IF seal THEN coll ELSE kept
            /\ acked' = acked
        BY <2>3, <2>4, <3>1, <3>2, <3>3 DEF acked
      <3>5. Delivery!Advance(a)
        <4>1. kept = IF FALSE THEN {} ELSE Ops(Held(a).batch.results)
          BY <3>3
        <4>2. acked' = IF FALSE THEN acked \cup Ops(Held(a).batch.results) ELSE acked
          BY <3>4
        <4>3. Held(a)'.pending = Held(a).pending \ ops
          BY <2>3, <3>1
        <4> QED BY <1>0, <2>1, <3>3, <3>4, <4>1, <4>2, <4>3, AdvanceStep
      <3> QED BY <3>5 DEF Delivery!Next
    <2>6. CASE Buffers(a, r)
      <3>1. /\ r.pending = Held(a).pending /\ r.completed = Held(a).completed
            /\ r.batch = Held(a).batch /\ acked' = acked
        BY <2>6 DEF Buffers, acked, IInv, TypeOK
      <3>2. PICK done, kept, coll : /\ done = {} /\ kept = Ops(Held(a).batch.results)
                                    /\ coll = Ops(Held(a).completed) \cup done
        OBVIOUS
      <3>3. /\ seal => kept = {}
            /\ Ops(Held(a)'.completed) = IF seal THEN {} ELSE coll
            /\ Ops(Held(a)'.batch.results) = IF seal THEN coll ELSE kept
        BY <2>3, <2>4, <3>1, <3>2
      <3>4. Delivery!Advance(a)
        <4>1. kept = IF FALSE THEN {} ELSE Ops(Held(a).batch.results)
          BY <3>2
        <4>2. acked' = IF FALSE THEN acked \cup Ops(Held(a).batch.results) ELSE acked
          BY <3>1
        <4>3. Held(a)'.pending = Held(a).pending \ done /\ done \in SUBSET Held(a).pending
          BY <2>3, <3>1, <3>2
        <4> QED BY <1>0, <2>1, <3>2, <3>3, <4>1, <4>2, <4>3, AdvanceStep
      <3> QED BY <3>4 DEF Delivery!Next
    <2>7. CASE Finishes(a, r)
      <3>1. /\ r.pending = Held(a).pending /\ r.completed = Held(a).completed
            /\ r.batch = NoBatch /\ acked' = acked \cup Ops(Held(a).batch.results)
        BY <2>7 DEF Finishes, acked, IInv, TypeOK
      <3>2. PICK done, kept, coll : /\ done = {} /\ kept = {}
                                    /\ coll = Ops(Held(a).completed) \cup done
        OBVIOUS
      <3>3. /\ Ops(Held(a)'.completed) = IF seal THEN {} ELSE coll
            /\ Ops(Held(a)'.batch.results) = IF seal THEN coll ELSE kept
        BY <2>3, <2>4, <3>1, <3>2 DEF NoBatch
      <3>4. Delivery!Advance(a)
        <4>1. kept = IF TRUE THEN {} ELSE Ops(Held(a).batch.results)
          BY <3>2
        <4>2. acked' = IF TRUE THEN acked \cup Ops(Held(a).batch.results) ELSE acked
          BY <3>1
        <4>3. Held(a)'.pending = Held(a).pending \ done /\ done \in SUBSET Held(a).pending
          BY <2>3, <3>1, <3>2
        <4> QED BY <1>0, <2>1, <3>2, <3>3, <4>1, <4>2, <4>3, AdvanceStep
      <3> QED BY <3>4 DEF Delivery!Next
    <2>8. CASE Stages(a, r)
      <3>1. PICK keys, staged :
              /\ keys \in SUBSET (Keys \ KeysOf(OpsOf(Held(a))))
              /\ staged = [agent : {a}, key : keys, origin : {rec[a].run}]
              /\ rec[a] # Unregistered /\ HasRun(rec[a])
              /\ r.pending = Held(a).pending \cup staged
              /\ r.completed = Held(a).completed /\ r.batch = Held(a).batch
              /\ hist' = [hist EXCEPT !.issued = @ \cup staged]
        BY <2>8 DEF Stages
      <3>2. acked' = acked
        BY <3>1 DEF acked, IInv, TypeOK
      <3>3. /\ rec[a] \in RecordType /\ Coherent(rec[a]) /\ SameContents(Held(a), rec[a])
        <4>1. a \in Registered /\ Available
          BY <1>2, <3>1 DEF Registered, Saves
        <4> QED BY <4>1, HeldIsShown
      <3>4. r.batch # NoBatch
        BY <3>1, <3>3 DEF Coherent, HasBatch, SameContents
      <3>5. SameContents(r, Held(a)')
        BY <2>1, <3>4 DEF Carries, SameContents
      <3>6. rec[a].run \in 0 .. MaxRuns - 1
        <4>1. rec[a].run \in Nat /\ rec[a].run < nextRun
          BY <3>1, <3>3 DEF RecordType, HasRun, RunsAreFresh
        <4> QED BY <4>1, SchedulerAssumption DEF OpsAreIssued
      <3>7. staged \cap acked = {}
        <4> SUFFICES ASSUME NEW o \in staged, o \in acked PROVE FALSE
          OBVIOUS
        <4>1. o.agent = a /\ o.origin = rec[a].run
          BY <3>1
        <4>2. o.origin < rec[a].run
          BY <3>1, <4>1 DEF RunsAreFresh
        <4> QED BY <3>6, <4>1, <4>2
      <3>8. Delivery!Issue(a)
        <4>1. /\ Held(a)'.pending = Held(a).pending \cup staged
              /\ Held(a)'.completed = Held(a).completed /\ Held(a)'.batch = Held(a).batch
          BY <3>1, <3>5 DEF SameContents
        <4> QED BY <1>0, <2>1, <3>1, <3>2, <3>6, <3>7, <4>1, IssueStep
      <3> QED BY <3>8 DEF Delivery!Next
    <2> QED BY <1>2, <2>5, <2>6, <2>7, <2>8 DEF Change
  <1> QED BY <1>1, <1>2 DEF Call

----------------------------------------------------------------------------
(* The theorems *)

DeliveryInv == OpsAreIssued /\ RunsAreFresh /\ EventsHeld /\ TimerCoversInstants

\* Nothing is held at first.
LEMMA InitDelivery == Init => DeliveryInv /\ Delivery!Init
  <1> SUFFICES ASSUME Init PROVE DeliveryInv /\ Delivery!Init
    OBVIOUS
  <1>1. /\ \A a \in Agents : rec[a] = Unregistered /\ disk[a] = NotSaved
        /\ issued = {} /\ acked = {} /\ owed = {} /\ nextRun = 0
    BY DEF Init, issued, acked, owed
  <1>2. \A a \in Agents : Held(a) = Nothing
    BY <1>1 DEF Held
  <1>3. OpsOf(Nothing) = {}
    BY DEF OpsOf, Nothing, NoBatch, Ops
  <1>4. OpsAreIssued
    BY <1>1, <1>2, <1>3, SchedulerAssumption DEF OpsAreIssued
  <1>5. RunsAreFresh /\ TimerCoversInstants
    BY <1>1 DEF RunsAreFresh, TimerCoversInstants, Registered
  <1>6. EventsHeld
    BY <1>1, <1>2 DEF EventsHeld, Nothing, NoBatch
  <1>7. Saved = {}
    BY <1>1 DEF Saved
  <1>8. Delivery!Init
    BY <1>1, <1>7 DEF Delivery!Init
  <1> QED BY <1>4, <1>5, <1>6, <1>8 DEF DeliveryInv

\* Every step keeps the invariant and is a step of OperationDelivery.
LEMMA NextDelivery ==
  IInv /\ IInv' /\ DeliveryInv /\ [Next]_vars =>
    DeliveryInv' /\ [Delivery!Next]_(Delivery!deliveryVars)
  <1> SUFFICES ASSUME IInv, IInv', DeliveryInv, [Next]_vars
               PROVE  DeliveryInv' /\ [Delivery!Next]_(Delivery!deliveryVars)
    OBVIOUS
  <1>1. Still \/ \E a \in Agents : Call(a)
    BY StepChange DEF DeliveryInv
  <1>2. /\ nextRun \in Nat /\ nextRun' \in Nat
        /\ nextRun <= nextRun' /\ nextRun' <= MaxRuns
    BY RunsGrow DEF DeliveryInv, OpsAreIssued, IInv, TypeOK
  <1>3. OpsAreIssued'
    BY <1>1, <1>2, OpsKept DEF DeliveryInv
  <1>4. RunsAreFresh'
    BY <1>1, <1>2, <1>3, RunsKept DEF DeliveryInv
  <1>5. EventsHeld' /\ TimerCoversInstants'
    BY <1>1, EventsKept, TimersKept DEF DeliveryInv
  <1>6. [Delivery!Next]_(Delivery!deliveryVars)
    BY <1>1, <1>2, <1>3, DeliveryStep DEF DeliveryInv
  <1> QED BY <1>3, <1>4, <1>5, <1>6 DEF DeliveryInv

\* The invariant holds in every reachable state.
LEMMA DeliveryInvariance == Spec => []DeliveryInv
  BY InitDelivery, NextDelivery, Invariance, PTL DEF Spec

\* The timer of an agent covers every instant at which something has to happen
\* by itself.
THEOREM TimersCorrect == Spec => []TimerCoversInstants
  <1>1. DeliveryInv => TimerCoversInstants
    BY DEF DeliveryInv
  <1> QED BY <1>1, DeliveryInvariance, PTL

\* A wake-up event that was accepted is held once, until a run that saw it
\* finishes, whatever crashes and failed saves come between.
THEOREM EventsCorrect == Spec => []EventsConserved
  <1>1. IInv /\ DeliveryInv => EventsConserved
    <2> SUFFICES ASSUME IInv, EventsHeld PROVE EventsConserved
      BY DEF DeliveryInv
    <2>1. owed \subseteq Agents \X Events
      BY DEF owed, IInv, TypeOK
    <2>2. \A a \in Agents : Held(a).events \cup Held(a).batch.events \subseteq Events
      BY HeldType
    <2>3. \A a \in Agents \ Saved : Held(a).events \cup Held(a).batch.events = {}
      BY DEF Saved, Held, Nothing, NoBatch
    <2>4. \A a \in Saved : a \in Agents /\ Held(a) = disk[a]
      BY DEF Saved, Held
    <2>5. \A a \in Agents, e \in Events :
            <<a, e>> \in owed <=> a \in Saved /\ e \in disk[a].events \cup disk[a].batch.events
      BY <2>3, <2>4 DEF EventsHeld
    <2>6. \A a \in Saved : disk[a].events \cup disk[a].batch.events \subseteq Events
      BY <2>2, <2>4
    <2>7. owed = UNION {{a} \X (disk[a].events \cup disk[a].batch.events) : a \in Saved}
      <3>1. ASSUME NEW x \in owed
            PROVE  \E a \in Saved : x \in {a} \X (disk[a].events \cup disk[a].batch.events)
        <4>1. PICK a \in Agents, e \in Events : x = <<a, e>>
          BY <2>1
        <4> QED BY <2>5, <4>1
      <3>2. ASSUME NEW a \in Saved, NEW x \in {a} \X (disk[a].events \cup disk[a].batch.events)
            PROVE  x \in owed
        <4>1. PICK e \in disk[a].events \cup disk[a].batch.events : x = <<a, e>>
          OBVIOUS
        <4> QED BY <2>4, <2>5, <2>6, <4>1
      <3> QED BY <3>1, <3>2
    <2>8. \A a \in Saved : disk[a].events \cap disk[a].batch.events = {}
      BY <2>4 DEF EventsHeld
    <2> QED BY <2>7, <2>8 DEF EventsConserved
  <1> QED BY <1>1, Invariance, DeliveryInvariance, PTL

\* The scheduler implements OperationDelivery, read off the checkpoints.
THEOREM DeliveryCorrect == Spec => ImplementsDelivery
  <1>1. Init => Delivery!Init
    BY InitDelivery
  <1>2. IInv /\ IInv' /\ DeliveryInv /\ [Next]_vars => [Delivery!Next]_(Delivery!deliveryVars)
    BY NextDelivery
  <1> QED
    BY <1>1, <1>2, Invariance, DeliveryInvariance, PTL DEF Spec, ImplementsDelivery, Delivery!Spec

================================================================================

----------------------- MODULE TaskSchedulerProperties ----------------------
(***************************************************************************)
(* What the task scheduler must guarantee to its tasks.                    *)
(***************************************************************************)
EXTENDS TaskScheduler

Registered(t) == mem[t] # NoTask

(* Some function under way has still a step to take for t.                 *)
Concerned(t) ==
  \E j \in Jobs : \E i \in DOMAIN jobs[j] :
    jobs[j][i].op \in {"send", "enqueue"} /\ jobs[j][i].t = t

(* Whatever moment the process crashes at, restoreMany accepts the stored  *)
(* tasks: every snapshot passes the constructor, no task holds more than   *)
(* its Character may, and the live ones fit in the agent pool.             *)
StoreIsRestorable == RestoreAccepted

(* The slots of the pool, the ready queue and the compaction list describe *)
(* the same tasks as the control blocks: a slot for each live task, and a  *)
(* READY task waits in exactly one of the two lists once its creation is   *)
(* through.  A task missing there would never run again.                   *)
BooksBalance ==
  phase # "down" =>
    /\ pool.live = {t \in Tasks : Live(mem[t])}
    /\ queue \cap packing = {}
    /\ \A t \in queue \cup packing : mem[t].st = "READY"
    /\ phase = "up" => \A t \in Tasks :
         mem[t].st = "READY" => t \in queue \cup packing \/ Concerned(t)

(* Between two events no task waits for nothing: every unfinished item of  *)
(* a work table has a live child or a tool call behind it, and a result    *)
(* not yet told has a batch timer or a turn that will pick it up.  The one *)
(* exception is a child that a crash caught between the registration at    *)
(* its parent and its first save.                                          *)
NobodyWaitsForNothing ==
  Quiet => \A t \in Tasks : Live(mem[t]) =>
    /\ \A i \in activeAsyncWorkPendingIds(mem[t]) :
         \/ i \in Calls /\ jobs[<<"call", i>>] # <<>>
         \/ i \in Tasks /\ Live(mem[i])
         \/ i \in Tasks /\ crashes > 0 /\ disk[i] = NoTask
    /\ hasUndeliveredAsyncWorkResults(mem[t]) =>
         t \in timers \/ (t \in wake /\ ~(mem[t].st = "BLOCKED" /\ mem[t].why = "work"))

(* A terminated task leaves no live descendant behind, neither in memory   *)
(* between two events nor for good after a crash.                          *)
NoLiveOrphans ==
  Quiet => \A t \in Tasks :
    Live(mem[t]) /\ Parent[t] # Orphan => Live(mem[Parent[t]])

(* The scheduler asks only for transitions that the state machine accepts, *)
(* so that no handler dies half way.                                       *)
TransitionsLegal ==
  [][phase # "down" /\ phase' # "down" => \A t \in Tasks :
       Registered(t) /\ mem'[t] # NoTask /\ mem[t].st # mem'[t].st
         => <<mem[t].st, mem'[t].st>> \in LEGAL_TRANSITIONS]_vars

(* The work graph tells the truth about the work under way: between two    *)
(* events a node waiting for its child names one whose result is still to   *)
(* come, no child serves two nodes, and the active self node mirrors the    *)
(* status of the task.                                                     *)
GraphMatchesWork ==
  Quiet => \A t \in Tasks : Live(mem[t]) /\ mem[t].graph # NoGraph =>
    LET g == mem[t].graph
        delegated == {a \in DOMAIN g.nodes : g.nodes[a].who # "self" /\ g.nodes[a].st = "blocked"}
    IN  /\ \A a \in delegated : g.nodes[a].kid \in activeAsyncWorkPendingIds(mem[t])
        /\ \A a, c \in delegated : g.nodes[a].kid = g.nodes[c].kid => a = c
        /\ g.cur # NoNode =>
             g.nodes[g.cur].st = CASE mem[t].st = "READY"   -> "ready"
                                   [] mem[t].st = "RUNNING" -> "running"
                                   [] mem[t].st = "BLOCKED" -> "blocked"

(* No node is begun before all it depends on is done, however the plan was *)
(* replaced, failed or interrupted meanwhile.                              *)
DependenciesFirst ==
  \A t \in Tasks : Registered(t) /\ mem[t].graph # NoGraph =>
    \A a \in DOMAIN mem[t].graph.nodes :
      mem[t].graph.nodes[a].st \in {"running", "blocked", "completed"}
        => mem[t].graph.nodes[a].deps \subseteq Settled(mem[t].graph)

(* No task of a tree ever holds more than its root was submitted with: an  *)
(* ordinary grant was passed on by the direct parent, which holds a grant   *)
(* that contains it, and what a human granted lies within the root's        *)
(* ceiling.  It holds of what is stored, so that no crash between the       *)
(* grants of two hops leaves a grant whose source is not saved.             *)
GrantsCovered ==
  \A t \in Stored : Parent[t] # Orphan =>
    \A i \in DOMAIN disk[t].grants :
      LET g == disk[t].grants[i]
      IN  IF g.source = "human"
          THEN findGrant(disk[rootTaskId(t)].grants, g, FALSE, NoOp, TRUE) # 0
          ELSE /\ g.source = Parent[t]
               /\ findGrant(disk[g.source].grants, g, TRUE, NoOp, FALSE) # 0


(* A pending request is in front of the task that has to decide it: its    *)
(* work record of the grantee names the request, and it runs, is queued or *)
(* will be woken to see it.  A task that was told and went on with other    *)
(* work instead is woken by that work.                                     *)
EveryAskIsHeard ==
  Quiet => \A t \in Tasks :
    Live(mem[t]) /\ Pending(mem[t]) /\ mem[t].ask.route = "parent" =>
      LET hop == currentCapabilityDelegationHop(mem[t])
          p   == mem[hop.grantor]
      IN  /\ Live(p) /\ hop.grantee \in Open(p)
          /\ Clearable(p, hop.grantee, Ref(t))
          /\ \/ p.st \in {"READY", "RUNNING"}
             \/ hop.grantor \in timers
             \/ hop.grantor \in wake /\ p.why # "work"
             \/ /\ p.works[hop.grantee].seen
                /\ \E i \in activeAsyncWorkPendingIds(p) : ~Blocking(p.works[i])


(* Every submitted task comes to an end.                                   *)
EveryTaskEnds ==
  \A t \in Tasks : (disk[t] # NoTask) ~> (disk[t].st = "TERMINATED")

=============================================================================

------------------------------ MODULE AgentPool -----------------------------
(***************************************************************************)
(* The pool of live agents (src/src/scheduler/agent-pool.ts).  A pool is   *)
(* the set of live tasks and the number of children each root has spawned. *)
(* A reservation is taken and committed or closed within one synchronous   *)
(* section of startAsyncWork, so no reserved slot is ever visible.         *)
(***************************************************************************)
EXTENDS TaskControlBlock

CONSTANTS
  MaxDepth,    \* policy.maxDepth
  MaxLive,     \* policy.maxLiveAgents
  MaxSpawned   \* policy.maxSpawnedPerRoot

ASSUME PoolAssumption ==
  /\ MaxDepth \in 1..3 /\ MaxLive \in Nat \ {0} /\ MaxSpawned \in Nat

EmptyPool == [live |-> {}, spawned |-> [t \in Tasks |-> 0]]

availableLiveSlots(p) ==
  IF MaxLive > Cardinality(p.live) THEN MaxLive - Cardinality(p.live) ELSE 0

registerRoot(p, t) ==
  [p EXCEPT !.live = @ \cup {t}, !.spawned[t] = 0]

(* registerRestored over a set of tasks: throws when a live one finds no   *)
(* free slot; terminated ones only count as spawned.                       *)
RestoreFits(live) == Cardinality(live) <= MaxLive

registerRestored(all, live) ==
  [live |-> live,
   spawned |-> [r \in Tasks |->
     Cardinality({t \in all : Parent[t] # Orphan /\ rootTaskId(t) = r})]]

(* tryReserveChildren, TRUE when the reservation is granted.               *)
tryReserveChildren(p, parent, n) ==
  /\ parent \in p.live
  /\ depth(parent) < MaxDepth
  /\ n <= availableLiveSlots(p)
  /\ p.spawned[rootTaskId(parent)] + n <= MaxSpawned

commit(p, parent, kids) ==
  [p EXCEPT !.live = @ \cup kids,
            !.spawned[rootTaskId(parent)] = @ + Cardinality(kids)]

release(p, t) == [p EXCEPT !.live = @ \ {t}]

childrenOf(p, t) == {k \in p.live : Parent[k] = t}

canTaskSpawn(p, t) ==
  /\ t \in p.live
  /\ depth(t) < MaxDepth
  /\ availableLiveSlots(p) > 0
  /\ p.spawned[rootTaskId(t)] < MaxSpawned

=============================================================================

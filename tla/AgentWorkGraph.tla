--------------------------- MODULE AgentWorkGraph ---------------------------
(***************************************************************************)
(* The local work graph of a task (src/src/graph/agent-work-graph.ts) and  *)
(* the operations the task control block performs on it.                   *)
(*                                                                         *)
(* A proposal maps the alias of a node to its assignee ("self", or "child" *)
(* for a Character), the capabilities asked for the child and its          *)
(* dependencies.  A graph adds the runtime status of every node, the child *)
(* bound to it, the phase and the active self node.  Goals, criteria,      *)
(* kinds, results and time stamps are left out: no decision reads them.    *)
(* So is the limit on the number of nodes.                                 *)
(***************************************************************************)
EXTENDS FiniteSets

NoGraph == [phase |-> "none"]
NoNode  == "no node"
NoChild == "no child"

(***************************************************************************)
(* validateAgentWorkGraphProposal.  The depth first search of assertAcyclic *)
(* finds a cycle exactly when some non-empty set of nodes has no member     *)
(* that is free of dependencies inside the set.                             *)
(***************************************************************************)
Acyclic(p) ==
  \A S \in SUBSET DOMAIN p :
    S # {} => \E a \in S : p[a].deps \cap S = {}

validateAgentWorkGraphProposal(p) ==
  /\ DOMAIN p # {}
  /\ \A a \in DOMAIN p : p[a].deps \subseteq DOMAIN p \ {a}
  /\ Acyclic(p)

createAgentWorkGraph(p) ==
  [phase |-> "executing", cur |-> NoNode,
   nodes |-> [a \in DOMAIN p |->
     [who |-> p[a].who, asks |-> p[a].asks, deps |-> p[a].deps,
      st |-> "pending", kid |-> NoChild]]]

(* What the constructor of a restored task demands of its graph.           *)
validateAgentWorkGraph(g) ==
  /\ validateAgentWorkGraphProposal(g.nodes)
  /\ g.cur # NoNode =>
       /\ g.phase = "executing"
       /\ g.cur \in DOMAIN g.nodes
       /\ g.nodes[g.cur].who = "self"
       /\ g.nodes[g.cur].st \in {"ready", "running", "blocked"}

Settled(g) == {a \in DOMAIN g.nodes : g.nodes[a].st \in {"completed", "abandoned"}}

(* Mutant of readyAgentWorkNodes: it is enough that the dependencies began. *)
readyAgentWorkNodesOfBegun(g) ==
  {a \in DOMAIN g.nodes : /\ g.nodes[a].st \in {"pending", "ready"}
                          /\ \A d \in g.nodes[a].deps : g.nodes[d].st # "pending"}

readyAgentWorkNodes(g) ==
  {a \in DOMAIN g.nodes : /\ g.nodes[a].st \in {"pending", "ready"}
                          /\ g.nodes[a].deps \subseteq Settled(g)}

agentWorkGraphMode(g) ==
  IF g = NoGraph THEN "plan"
  ELSE IF g.phase = "planning" THEN "plan"
  ELSE IF g.cur # NoNode THEN "execute" ELSE "waiting"

isAgentWorkGraphComplete(g) == Settled(g) = DOMAIN g.nodes

-----------------------------------------------------------------------------
(* The node operations of the task control block.                          *)

Mark(g, a, st) == [g EXCEPT !.nodes[a].st = st]

activateSelfWorkGraphNode(g, a) == [Mark(g, a, "ready") EXCEPT !.cur = a]

(* bindDelegatedWorkGraphNode for each node of a sequence and its child.   *)
bindDelegatedWorkGraphNodes(g, nodes, kids) ==
  [g EXCEPT !.nodes = [a \in DOMAIN g.nodes |->
     IF \E i \in DOMAIN nodes : nodes[i] = a
     THEN [g.nodes[a] EXCEPT !.st = "blocked",
                             !.kid = kids[CHOOSE i \in DOMAIN nodes : nodes[i] = a]]
     ELSE g.nodes[a]]]

completeCurrentWorkGraphNode(g) ==
  [Mark(g, g.cur, "completed") EXCEPT !.cur = NoNode]

requestCurrentWorkGraphReplan(g) ==
  [Mark(g, g.cur, "failed") EXCEPT !.cur = NoNode, !.phase = "planning"]

enterWorkGraphPlan(g) == [g EXCEPT !.phase = "planning"]

(* Mutant of completeDelegatedWorkGraphNode: only a success is recorded.   *)
completeDelegatedOnSuccess(g, kid, kind) ==
  IF g = NoGraph \/ kind # "completed" THEN g
  ELSE [g EXCEPT !.nodes = [a \in DOMAIN g.nodes |->
         IF g.nodes[a].kid = kid /\ g.nodes[a].st = "blocked"
         THEN [g.nodes[a] EXCEPT !.st = "completed"] ELSE g.nodes[a]]]

(* The node a child was bound to follows the child's termination.          *)
completeDelegatedWorkGraphNode(g, kid, kind) ==
  IF g = NoGraph THEN g
  ELSE [g EXCEPT !.nodes = [a \in DOMAIN g.nodes |->
         IF g.nodes[a].kid = kid /\ g.nodes[a].st = "blocked"
         THEN [g.nodes[a] EXCEPT !.st = IF kind = "completed" THEN "completed"
                                        ELSE "failed"]
         ELSE g.nodes[a]]]

(* completeDelegatedWorkGraphNode for each child of a set; kind says how   *)
(* each of them ended.                                                     *)
completeDelegatedWorkGraphNodes(g, kind) ==
  IF g = NoGraph THEN g
  ELSE [g EXCEPT !.nodes = [a \in DOMAIN g.nodes |->
         IF g.nodes[a].kid \in DOMAIN kind /\ g.nodes[a].st = "blocked"
         THEN [g.nodes[a] EXCEPT !.st = IF kind[g.nodes[a].kid] = "completed"
                                        THEN "completed" ELSE "failed"]
         ELSE g.nodes[a]]]

(* failWorkGraphNode for each node of a set.                               *)
failWorkGraphNodes(g, as) ==
  LET failed == {a \in as : g.nodes[a].st \notin {"completed", "abandoned", "failed"}}
  IN  [g EXCEPT !.nodes = [a \in DOMAIN g.nodes |->
                             IF a \in failed THEN [g.nodes[a] EXCEPT !.st = "failed"]
                             ELSE g.nodes[a]],
                !.cur = IF g.cur \in failed THEN NoNode ELSE g.cur]

(* The active self node mirrors the status of its task on every transition. *)
syncCurrentWorkGraphNode(g, status) ==
  IF g = NoGraph \/ (g # NoGraph /\ g.cur = NoNode) THEN g
  ELSE CASE status = "READY"   -> Mark(g, g.cur, "ready")
         [] status = "RUNNING" -> Mark(g, g.cur, "running")
         [] status = "BLOCKED" -> Mark(g, g.cur, "blocked")
         [] status = "TERMINATED" ->
              IF g.nodes[g.cur].st = "completed" THEN g ELSE Mark(g, g.cur, "failed")

=============================================================================

--------------------------- MODULE MCTaskScheduler --------------------------
EXTENDS TaskSchedulerProperties

Req(c) == [cap |-> c, scope |-> [kind |-> "all"]]

Final == [type |-> "final"]
Fail  == [type |-> "error"]
Wait  == [type |-> "wait_for_async_work"]
Work(calls, kids) == [type |-> "async_work", calls |-> calls, kids |-> kids]

(* Legacy coordination: a root, two children, a read-only and an effectful tool call. *)
LegacyIds    == <<"r", "a", "b">>
LegacyParent == [t \in {"r", "a", "b"} |-> IF t = "r" THEN "no parent" ELSE "r"]
LegacyAnswers ==
  [t \in {"r", "a", "b"} |->
     IF t = "r" THEN {Work(<<"look", "edit">>, <<{}>>), Work(<<>>, <<{}, {}>>),
                      Work(<<>>, <<{Req("net")}>>), Wait, Final}
     ELSE {Final} \cup (IF t = "a" THEN {Fail} ELSE {})]
LegacyNeeds == [c \in {"look", "edit"} |-> {Req("file")}]
LegacyRoot  == [t \in {"r", "a", "b"} |-> {Req("file"), Req("net")}]
LegacyCaps  == [t \in {"r", "a", "b"} |-> IF t = "r" THEN {"file", "net"} ELSE {"file"}]
LegacyTries == [t \in {"r", "a", "b"} |-> IF t = "r" THEN 3 ELSE 1]
NoUnder == {}

(* Graph coordination: x, then y by a child, then z; two     *)
(* children beside a node of its own; or a cyclic proposal.                *)
Node(who, deps) == [who |-> who, asks |-> {}, deps |-> deps]
Asking(c, deps) == [who |-> "child", asks |-> {Req(c)}, deps |-> deps]
Plan   == [x |-> Node("self", {}), y |-> Asking("file", {"x"}), z |-> Node("self", {"x", "y"})]
Cyclic == [x |-> Node("self", {"z"}), z |-> Node("self", {"x"})]
Greedy == [y |-> Asking("net", {})]
Wide   == [y |-> Node("child", {}), v |-> Node("child", {}), w |-> Node("self", {})]
Propose(p) == [type |-> "set_graph", graph |-> p]
GraphAnswers ==
  [t \in {"r", "a", "b"} |->
     IF t = "r" THEN {Propose(Plan), Propose(Wide), Propose(Cyclic), Propose(Greedy), Final,
                      [type |-> "complete_node"], [type |-> "request_replan"],
                      Work(<<"edit">>, <<>>), Work(<<"odd">>, <<>>)}
     ELSE {Fail} \cup (IF t = "a" THEN {Final} ELSE {[type |-> "needs_parent_action"]})]
GraphNeeds == [c \in {"edit", "odd"} |-> IF c = "odd" THEN {} ELSE {Req("file")}]
GraphTries == [t \in {"r", "a", "b"} |-> IF t = "r" THEN 4 ELSE 1]

(* A root, a child without grants and its children, which ask for a file of *)
(* the root's tree and for a capability that only a human approves.        *)
Tree(c)  == [cap |-> c, scope |-> [kind |-> "subtree", res |-> "dir"]]
File(c)  == [cap |-> c, scope |-> [kind |-> "exact", res |-> "file"]]
TwoLevel == {<<"file", "dir">>}
Ask(req) == [type |-> "request_capabilities", reqs |-> {req}]
Decide(ok) == [type |-> "resolve_capability_request", ok |-> ok]
CapsIds    == <<"r", "m", "c", "d">>
CapsParent == "r" :> "no parent" @@ "m" :> "r" @@ "c" :> "m" @@ "d" :> "m"
CapsAnswers ==
  "r" :> {Work(<<>>, <<{}>>), Work(<<>>, <<{File("push")}>>), Decide(TRUE), Decide(FALSE), Wait}
  @@ "m" :> {Work(<<>>, <<{}>>), Decide(TRUE), Wait}
  @@ "c" :> {Ask(File("write")), Ask(Tree("write")), Ask(File("push")), Work(<<"w1">>, <<>>),
             Work(<<"p1">>, <<>>), Work(<<"p2">>, <<>>), Final}
  @@ "d" :> {Final}
CapsNeeds ==
  "w1" :> {File("write")} @@ "p1" :> {File("push")} @@ "p2" :> {File("push")}
CapsRoot  == [t \in {"r", "m", "c", "d"} |-> {Tree("write"), Tree("push")}]
CapsOf    == [t \in {"r", "m", "c", "d"} |-> {"write", "push"}]
CapsTries == "r" :> 3 @@ "m" :> 3 @@ "c" :> 3 @@ "d" :> 1
=============================================================================

----------------------------- MODULE MCToolExecutor -----------------------------
(* Small instances of ToolExecutor for TLC. *)
EXTENDS ToolExecutorProperties

CONSTANTS a1, a2, o1, o2, o3

\* Two agents that write to one workspace; the second needs an approval.
SharedCalls     == (a1 :> <<o1>>) @@ (a2 :> <<o2>>)
SharedWorkspace == [a \in {a1, a2} |-> "w"]
SharedEffect    == [o \in {o1, o2} |-> "side_effect"]
SharedVerdict   == (o1 :> "allowed") @@ (o2 :> "approval")

\* One agent with a batch of a write, a read that needs an approval and a call
\* that is turned down at once.
BatchCalls     == [a \in {a1} |-> <<o1, o2, o3>>]
BatchWorkspace == [a \in {a1} |-> "w"]
BatchEffect    == (o1 :> "side_effect") @@ (o2 :> "read_only") @@ (o3 :> "read_only")
BatchVerdict   == (o1 :> "allowed") @@ (o2 :> "approval") @@ (o3 :> "denied")

\* One agent with two writes.
WritesCalls   == [a \in {a1} |-> <<o1, o2>>]
WritesVerdict == [o \in {o1, o2} |-> "allowed"]
================================================================================

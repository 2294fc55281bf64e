--------------------------- MODULE OperationDelivery ---------------------------
(***************************************************************************)
(* What the scheduler promises the executor and the rounds about           *)
(* asynchronous operations (the comments of agent-scheduler/api.ts), with  *)
(* no queue, no timer, no suspension, no crash: an operation is in flight, *)
(* then its result is buffered, then sealed into the one batch its agent   *)
(* may hold, then consumed by the run that finishes with that batch.       *)
(***************************************************************************)
CONSTANTS Agents, Keys, Runs

VARIABLES inflight, buffered, sealed, consumed

deliveryVars == <<inflight, buffered, sealed, consumed>>

Of(a, ops) == {o \in ops : o.agent = a}

Live(a) == Of(a, inflight \cup buffered \cup sealed)

\* A group of operations starts.  A stable key names one live operation of its
\* agent; it may be used again, by a later run, once that one was consumed.
Issue(a) ==
  \E keys \in SUBSET (Keys \ {o.key : o \in Live(a)}), run \in Runs :
    LET new == [agent : {a}, key : keys, origin : {run}] IN
    /\ new \cap consumed = {}
    /\ inflight' = inflight \cup new
    /\ UNCHANGED <<buffered, sealed, consumed>>

\* Some operations end; before that the batch may be consumed, always as a
\* whole, and after it everything buffered may be sealed, always as a whole
\* and only when the agent holds no other results.
Advance(a) ==
  \E done \in SUBSET Of(a, inflight), consume, seal \in BOOLEAN :
    LET kept      == IF consume THEN sealed \ Of(a, sealed) ELSE sealed
        collected == buffered \cup done
    IN /\ seal => Of(a, kept) = {}
       /\ inflight' = inflight \ done
       /\ consumed' = consumed \cup (sealed \ kept)
       /\ sealed' = IF seal THEN kept \cup Of(a, collected) ELSE kept
       /\ buffered' = IF seal THEN collected \ Of(a, collected) ELSE collected

Init == inflight = {} /\ buffered = {} /\ sealed = {} /\ consumed = {}

Next == \E a \in Agents : Issue(a) \/ Advance(a)

Spec == Init /\ [][Next]_deliveryVars
================================================================================

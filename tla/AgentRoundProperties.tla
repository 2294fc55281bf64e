-------------------------- MODULE AgentRoundProperties --------------------------
(***************************************************************************)
(* What the rounds of AgentRound promise the sources of their inputs, the  *)
(* agent and the host.                                                     *)
(***************************************************************************)
EXTENDS AgentRound

Checkpoints ==
  [frames : Seq(Frames), pendingSummary : Summaries \cup {NoSummary},
   inbox : Seq([key : Inputs, target : Cursors]), runnable : BOOLEAN,
   budget : Budgets, created : Nat]

Steps == {"idle", "taken", "resolve", "receive", "received", "prepared", "request", "asked",
          "answered", "committed", "acknowledge", "working", "act", "apply", "finish"}

\* Types.  There are one to three frames.
RoundTypeOK ==
  /\ context \in Checkpoints /\ level(context) \in 1..3
  /\ records \subseteq Inputs /\ acked \subseteq Inputs
  /\ receipt \in {"none", "continue", "idle"} /\ summarised \in BOOLEAN
  /\ batch \in Seq(Inputs) \cup {NoBatch} /\ arrived \in Seq(Inputs)
  /\ cont \in BOOLEAN /\ inflight \subseteq Ops
  /\ target \in [Inputs -> Cursors]
  /\ reply \in Decisions \cup {NoReply} /\ text \in {"none", "good", "bad"}
  /\ acted \in BOOLEAN /\ dropped \in BOOLEAN /\ aborted \in BOOLEAN
  /\ status \in {"active", "paused"} /\ held \in BOOLEAN
  /\ fault \in {"none", "protocol", "other"}
  /\ {retries, sends, faults, resumes} \subseteq Nat
  /\ round \in [pc : Steps, all : BOOLEAN, attempted : BOOLEAN, cursor : Cursors]
  /\ taking \in [Inputs -> Nat]

InInbox(k) == \E i \in DOMAIN context.inbox : context.inbox[i].key = k

\* An input whose record is stored waits in the inbox or has entered a frame,
\* once, whatever was retried, announced twice or cut short; no other input has.
InputsConserved ==
  \A k \in Inputs : taking[k] + (IF InInbox(k) THEN 1 ELSE 0) = (IF k \in records THEN 1 ELSE 0)

\* The source of an input is told to forget it, and the batch of the input leaves
\* the scheduler, only when the context has recorded it: each input that was
\* ever announced is held by the scheduler or recorded.
SourceKeepsUntilRecorded ==
  /\ acked \subseteq records
  /\ \A o \in Ops : target[o] # NoCursor =>
       \/ o \in inflight \cup ToSet(arrived) \cup records
       \/ batch # NoBatch /\ o \in ToSet(batch)

\* restoreAgentContextManager accepts the stored checkpoint at every instant: the
\* frames fit their budgets, each child points at the running task of the plan
\* above it, and a pending summary speaks of the very frames it was sealed on.
AlwaysRestorable == Restorable(context)

\* An agent that sleeps has nothing left to do: no input lies in its inbox, no
\* summary is pending and its context does not ask for a round.
NothingStranded == Sleeping => ~needsRun(context) /\ context.inbox = <<>>

\* An input with a target enters the frame and the plan it was issued under, as
\* itself; when that plan is gone it never enters another one.
TargetsRespected ==
  [][\A k \in Inputs : \A i \in DOMAIN context'.frames :
       /\ k \in context'.frames[i].inputs
       /\ \A j \in DOMAIN context.frames : k \notin context.frames[j].inputs
       /\ target[k] # NoCursor
       => target[k] = [frame |-> context.frames[i].id, revision |-> context.frames[i].revision]
    ]_vars

\* What docs/conversation-runtime.md says of a batch whose work took effect (a
\* message was sent, a tool call staged): the result is kept as an entry of the
\* agent's own context, and a death leads to a replay of the same batch.
EffectsRecorded == ~dropped

\* A batch is not kept for ever: it gets its receipt and leaves, or the agent is
\* paused with the batch kept for the host.
BatchResolved == (batch # NoBatch) ~> (batch = NoBatch \/ status = "paused")
================================================================================

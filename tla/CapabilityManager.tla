-------------------------- MODULE CapabilityManager -------------------------
(***************************************************************************)
(* The capability manager (src/src/capability/): pure decisions over the   *)
(* grants a task holds.                                                    *)
(*                                                                         *)
(* A request names a capability and a scope.  A scope is "all", or a kind  *)
(* (exact, subtree) with a resource; Under says which resources lie in the *)
(* subtree of which.  Policies are the set HumanOnly of capabilities that  *)
(* only a human approves and no agent passes on; every other capability    *)
(* follows the default policy.  Grant identifiers are positions in the     *)
(* sequence of grants of a task.  No code path of the scheduler sets       *)
(* expiresAt, so grants never expire here.                                 *)
(***************************************************************************)
EXTENDS Naturals, Sequences, FiniteSets, SequencesExt

CONSTANTS
  HumanOnly,  \* capabilities whose policy is human approval, not delegable
  Under       \* pairs <<r, a>>: resource r lies strictly below resource a

NoUse == "no operation"

scopeContains(granted, requested) ==
  CASE granted.kind = "all" -> TRUE
    [] granted.kind # "all" /\ requested.kind = "all" -> FALSE
    [] granted.kind = "exact" /\ requested.kind # "all" -> requested = granted
    [] granted.kind = "subtree" /\ requested.kind # "all" ->
         \/ requested.res = granted.res
         \/ <<requested.res, granted.res>> \in Under

(* policyFor: what the matching policy says of a capability.               *)
HumanApproval(c) == c \in HumanOnly
Delegable(c)     == c \notin HumanOnly

(* limited says whether remainingUses is set; uses is its value.           *)
Grant(req, source, execution, limited) ==
  [cap |-> req.cap, scope |-> req.scope, source |-> source,
   delegable |-> Delegable(req.cap), execution |-> execution,
   limited |-> limited, uses |-> 1, usedBy |-> NoUse]

issueRootGrants(reqs) ==
  [i \in DOMAIN SetToSeq(reqs) |->
     LET req == SetToSeq(reqs)[i] IN
       Grant(req, "root",
             IF HumanApproval(req.cap) THEN "human_approval_required" ELSE "allowed",
             FALSE)]

(* findGrant, as the set of positions that match; the code takes the first. *)
Matching(grants, req, delegable, op, ceiling) ==
  {i \in DOMAIN grants :
     /\ grants[i].cap = req.cap
     /\ ceiling \/ grants[i].execution = "allowed"
     /\ grants[i].limited => grants[i].uses > 0 \/ grants[i].usedBy = op
     /\ delegable => grants[i].delegable
     /\ scopeContains(grants[i].scope, req.scope)}

findGrant(grants, req, delegable, op, ceiling) ==
  LET found == Matching(grants, req, delegable, op, ceiling)
  IN  IF found = {} THEN 0 ELSE CHOOSE i \in found : \A j \in found : i <= j

NoOp == "none given"

(* check: the requests that no grant covers, and the grants that are used. *)
Missing(grants, reqs, op) ==
  {req \in reqs : findGrant(grants, req, FALSE, op, FALSE) = 0}

Used(grants, reqs, op) ==
  {findGrant(grants, req, FALSE, op, FALSE) : req \in reqs}

(* Mutant of validateDelegation: what the issuer may use it may pass on.   *)
validateDelegationOfCeiling(grants, reqs) ==
  \A req \in reqs : findGrant(grants, req, FALSE, NoOp, TRUE) # 0

validateDelegation(grants, reqs) ==
  \A req \in reqs : /\ Delegable(req.cap)
                    /\ findGrant(grants, req, TRUE, NoOp, FALSE) # 0

delegate(issuer, reqs) ==
  [i \in DOMAIN SetToSeq(reqs) |->
     Grant(SetToSeq(reqs)[i], issuer, "allowed", FALSE)]

grantByHuman(reqs) ==
  [i \in DOMAIN SetToSeq(reqs) |->
     LET req == SetToSeq(reqs)[i] IN
       Grant(req, "human", "allowed", HumanApproval(req.cap))]

(***************************************************************************)
(* planRequest.  ancestors runs from the direct parent to the root (the    *)
(* root asks itself); holds[t] are the grants of t.  The result is a route *)
(* and, for the parent route, the hops from the nearest ancestor that can  *)
(* delegate down to the requester.                                         *)
(***************************************************************************)
NoRoute == [route |-> "refused", path |-> <<>>]

\* The hops from the holder, at its place among the ancestors, down to the requester.
delegationPath(requester, ancestors, holder) ==
  LET grantee(i) == IF i = 1 THEN requester ELSE ancestors[i - 1]
  IN  [h \in 1..holder |-> [grantor |-> ancestors[holder + 1 - h],
                            grantee |-> grantee(holder + 1 - h)]]

planRequest(requester, ancestors, holds, reqs) ==
  LET root    == ancestors[Len(ancestors)]
      holders == {i \in DOMAIN ancestors : validateDelegation(holds[ancestors[i]], reqs)}
      nearest == CHOOSE i \in holders : \A j \in holders : i <= j
  IN  IF \/ reqs = {} \/ ancestors = <<>>
         \/ \E req \in reqs : findGrant(holds[root], req, FALSE, NoOp, TRUE) = 0
      THEN NoRoute
      ELSE IF \E req \in reqs : HumanApproval(req.cap)
      THEN [route |-> "human", path |-> <<>>]
      ELSE IF holders = {} THEN NoRoute
      ELSE [route |-> "parent", path |-> delegationPath(requester, ancestors, nearest)]

=============================================================================

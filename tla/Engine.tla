--------------------------------- MODULE Engine ---------------------------------
(***************************************************************************)
(* Engine.CheckAccess of internal/engine/engine.go on a snapshot of the    *)
(* store.  The snapshot's slices are filled by ranging over Go maps        *)
(* (internal/store/store.go), so their order differs from call to call.    *)
(* EnforcementPoint puts the requests; a request is                        *)
(*   [resource_type, action, attributes].                                  *)
(***************************************************************************)
EXTENDS Operators

CONSTANTS
  Tables,    \* contents of the store: [allow, deny] sets of compiled policies
  NoId       \* the empty MatchedPolicyID

ASSUME EngineConstants == \A t \in Tables : IsFiniteSet(t.allow) /\ IsFiniteSet(t.deny)

VARIABLES
  tables,    \* what the store holds
  req,       \* the request being evaluated
  snapshot,  \* [allow, deny] slices returned by ListActivePolicies
  pc,        \* "listing", "evaluating", "answered", or where the caller is
  resp       \* the EvaluationResponse

vars == <<tables, req, snapshot, pc, resp>>

Response(allowed, id, reason) ==
  [Allowed |-> allowed, MatchedPolicyID |-> id, Reason |-> reason]

NoResponse == Response(FALSE, NoId, "none")

--------------------------------------------------------------------------------
\* The target is compared before any condition is evaluated.
Matches(p, r) ==
  /\ p.target.resource_type = r.resource_type
  /\ p.target.action = r.action
  /\ \A i \in DOMAIN p.conditions : EvaluateCondition(p.conditions[i], r)

\* Mutant: the scan gives up at the first policy that does not match.
MatchingHeadOnly(policies, r) == {i \in DOMAIN policies : i = 1 /\ Matches(policies[i], r)}

\* The positions of the policies that match.
Matching(policies, r) == {i \in DOMAIN policies : Matches(policies[i], r)}

\* firstMatch: the first policy that matches, given that there is one.
firstMatch(policies, r) ==
  policies[CHOOSE i \in Matching(policies, r) : \A j \in Matching(policies, r) : i <= j]

\* Mutant: allow policies are considered first.
CheckAccessAllowFirst(s, r) ==
  IF Matching(s.allow, r) # {}
  THEN Response(TRUE, firstMatch(s.allow, r).id, "Matched Policy")
  ELSE IF Matching(s.deny, r) # {}
  THEN Response(FALSE, firstMatch(s.deny, r).id, "Explicit Deny")
  ELSE Response(FALSE, NoId, "Implicit Deny")

CheckAccess(s, r) ==
  IF Matching(s.deny, r) # {}
  THEN Response(FALSE, firstMatch(s.deny, r).id, "Explicit Deny")
  ELSE IF Matching(s.allow, r) # {}
  THEN Response(TRUE, firstMatch(s.allow, r).id, "Matched Policy")
  ELSE Response(FALSE, NoId, "Implicit Deny")

\* The slices ranging over a map may produce.
Slices(S) == {s \in [1 .. Cardinality(S) -> S] : Elements(s) = S}

--------------------------------------------------------------------------------
\* ListActivePolicies never fails; the order of its slices is Go's choice.
ListActivePolicies ==
  /\ pc = "listing"
  /\ \E a \in Slices(tables.allow), d \in Slices(tables.deny) :
       snapshot' = [allow |-> a, deny |-> d]
  /\ pc' = "evaluating"
  /\ UNCHANGED <<tables, req, resp>>

Evaluate ==
  /\ pc = "evaluating"
  /\ resp' = CheckAccess(snapshot, req)
  /\ pc' = "answered"
  /\ UNCHANGED <<tables, req, snapshot>>

--------------------------------------------------------------------------------
(* Properties *)

MatchesIn(t) == {p \in tables[t] : Matches(p, req)}

\* Deny overrides, whatever order the two maps were ranged in: access is granted
\* exactly when some allow policy matches and no deny policy does, and the id
\* reported belongs to a policy that did match on the side that decided.
DenyOverrides ==
  pc = "answered" =>
    /\ resp.Allowed <=> MatchesIn("deny") = {} /\ MatchesIn("allow") # {}
    /\ resp.MatchedPolicyID \in
         IF MatchesIn("deny") # {} THEN {p.id : p \in MatchesIn("deny")}
         ELSE IF MatchesIn("allow") # {} THEN {p.id : p \in MatchesIn("allow")}
         ELSE {NoId}

\* Checking the same request again against the same policies never changes the
\* verdict or its reason; only the policy named may change.
VerdictStable ==
  [][resp.Reason # "none" => resp'.Allowed = resp.Allowed /\ resp'.Reason = resp.Reason]_resp
================================================================================

------------------------ MODULE EnforcementPointProofs ------------------------
(***************************************************************************)
(* Proofs about the decision of Engine behind the enforcement points, for  *)
(* every store, every policy and condition, and every request.             *)
(***************************************************************************)
EXTENDS EnforcementPoint, FiniteSetTheorems, WellFoundedInduction, TLAPS

\* The policies of a set that match a request.
MatchingOf(S, r) == {p \in S : Matches(p, r)}

\* What the decision on a request must be, given the store's contents t.
Right(a, t, r) ==
  /\ a.Allowed <=> MatchingOf(t.deny, r) = {} /\ MatchingOf(t.allow, r) # {}
  /\ a.Reason = IF MatchingOf(t.deny, r) # {} THEN "Explicit Deny"
                ELSE IF MatchingOf(t.allow, r) # {} THEN "Matched Policy"
                ELSE "Implicit Deny"
  /\ a.MatchedPolicyID \in
       IF MatchingOf(t.deny, r) # {} THEN {p.id : p \in MatchingOf(t.deny, r)}
       ELSE IF MatchingOf(t.allow, r) # {} THEN {p.id : p \in MatchingOf(t.allow, r)}
       ELSE {NoId}

--------------------------------------------------------------------------------
(* The decision on one snapshot *)

\* A slice over a map's values has a position for each, from 1 on.
LEMMA SliceOfMap ==
  ASSUME NEW S, IsFiniteSet(S), NEW s \in Slices(S)
  PROVE  /\ DOMAIN s \subseteq Nat
         /\ Elements(s) = S
<1>1. Cardinality(S) \in Nat
  BY FS_CardinalityType
<1> QED
  BY <1>1 DEF Slices

\* A set of positions that is not empty has a first one.
LEMMA FirstPosition ==
  ASSUME NEW T, T \subseteq Nat, T # {}
  PROVE  \E i \in T : \A j \in T : i <= j
<1>1. PICK i \in T : \A j \in T : ~(<<j, i>> \in OpToRel(<, Nat))
  BY NatLessThanWellFounded, WFMin
<1>2. \A j \in T : ~(j < i)
  BY <1>1 DEF OpToRel
<1> QED
  BY <1>2

\* The scan finds a match exactly when the map holds one, and the first match it
\* returns is one.
LEMMA ScanFinds ==
  ASSUME NEW s, DOMAIN s \subseteq Nat, NEW r
  PROVE  /\ Matching(s, r) # {} <=> MatchingOf(Elements(s), r) # {}
         /\ Matching(s, r) # {} => firstMatch(s, r) \in MatchingOf(Elements(s), r)
<1>1. Matching(s, r) # {} <=> MatchingOf(Elements(s), r) # {}
  BY DEF Matching, MatchingOf, Elements
<1>2. ASSUME Matching(s, r) # {}
      PROVE  firstMatch(s, r) \in MatchingOf(Elements(s), r)
  <2>1. Matching(s, r) \subseteq Nat
    BY DEF Matching
  <2>2. \E i \in Matching(s, r) : \A j \in Matching(s, r) : i <= j
    BY <1>2, <2>1, FirstPosition
  <2>3. (CHOOSE i \in Matching(s, r) : \A j \in Matching(s, r) : i <= j) \in Matching(s, r)
    BY <2>2
  <2> QED
    BY <2>3 DEF firstMatch, Matching, MatchingOf, Elements
<1> QED
  BY <1>1, <1>2

\* CheckAccess decides right on any snapshot of the store, in whatever order its
\* two maps were ranged over.
LEMMA CheckAccessRight ==
  ASSUME NEW t, NEW s, NEW r,
         DOMAIN s.allow \subseteq Nat, Elements(s.allow) = t.allow,
         DOMAIN s.deny \subseteq Nat, Elements(s.deny) = t.deny
  PROVE  Right(CheckAccess(s, r), t, r)
<1>1. /\ Matching(s.deny, r) # {} <=> MatchingOf(t.deny, r) # {}
      /\ Matching(s.deny, r) # {} => firstMatch(s.deny, r) \in MatchingOf(t.deny, r)
      /\ Matching(s.allow, r) # {} <=> MatchingOf(t.allow, r) # {}
      /\ Matching(s.allow, r) # {} => firstMatch(s.allow, r) \in MatchingOf(t.allow, r)
  BY ScanFinds
<1>2. CASE Matching(s.deny, r) # {}
  BY <1>1, <1>2 DEF CheckAccess, Response, Right
<1>3. CASE Matching(s.deny, r) = {} /\ Matching(s.allow, r) # {}
  BY <1>1, <1>3 DEF CheckAccess, Response, Right
<1>4. CASE Matching(s.deny, r) = {} /\ Matching(s.allow, r) = {}
  BY <1>1, <1>4 DEF CheckAccess, Response, Right
<1> QED
  BY <1>2, <1>3, <1>4

--------------------------------------------------------------------------------
(* Deny overrides *)

\* While it is evaluated, the snapshot is the store.
SnapshotIsStore ==
  /\ tables \in Tables
  /\ pc = "evaluating" =>
       /\ DOMAIN snapshot.allow \subseteq Nat /\ Elements(snapshot.allow) = tables.allow
       /\ DOMAIN snapshot.deny \subseteq Nat /\ Elements(snapshot.deny) = tables.deny

AnswerRight == pc = "answered" => Right(resp, tables, req)

DecisionInv == SnapshotIsStore /\ AnswerRight

LEMMA InitDecisionInv == PointInit => DecisionInv
BY DEF PointInit, DecisionInv, SnapshotIsStore, AnswerRight

LEMMA NextDecisionInv ==
  ASSUME DecisionInv, [PointNext]_pointVars
  PROVE  DecisionInv'
<1>1. CASE UNCHANGED pointVars
  BY <1>1 DEF pointVars, vars, DecisionInv, SnapshotIsStore, AnswerRight
<1>2. CASE ServeHTTP \/ DirectCall \/ Check
  BY <1>2 DEF ServeHTTP, DirectCall, Check, Ask, DecisionInv, SnapshotIsStore, AnswerRight
<1>3. CASE Unauthenticated \/ Respond \/ Repeat
  BY <1>3 DEF Unauthenticated, Respond, Repeat, DecisionInv, SnapshotIsStore, AnswerRight
<1>4. CASE ListActivePolicies
  <2>1. PICK a \in Slices(tables.allow), d \in Slices(tables.deny) :
          snapshot' = [allow |-> a, deny |-> d]
    BY <1>4 DEF ListActivePolicies
  <2>2. IsFiniteSet(tables.allow) /\ IsFiniteSet(tables.deny)
    BY EngineConstants DEF DecisionInv, SnapshotIsStore
  <2>3. /\ DOMAIN a \subseteq Nat /\ Elements(a) = tables.allow
        /\ DOMAIN d \subseteq Nat /\ Elements(d) = tables.deny
    BY <2>2, SliceOfMap
  <2>4. snapshot'.allow = a /\ snapshot'.deny = d
    BY <2>1
  <2> QED
    BY <1>4, <2>3, <2>4 DEF ListActivePolicies, DecisionInv, SnapshotIsStore, AnswerRight
<1>5. CASE Evaluate
  <2>1. Right(CheckAccess(snapshot, req), tables, req)
    BY <1>5, CheckAccessRight DEF Evaluate, DecisionInv, SnapshotIsStore
  <2> QED
    BY <1>5, <2>1 DEF Evaluate, DecisionInv, SnapshotIsStore, AnswerRight
<1> QED
  BY <1>1, <1>2, <1>3, <1>4, <1>5 DEF PointNext, Decide

\* Access is granted exactly when an allow policy matches and no deny policy does,
\* and the id reported is that of a policy that matched on the deciding side: for
\* every set of policies, conditions and requests, and every order in which Go
\* ranges over the two maps (CheckAccess and firstMatch of
\* internal/engine/engine.go on ListActivePolicies' snapshot).
THEOREM EngineDenyOverrides == PointSpec => []DenyOverrides
<1>1. DecisionInv => DenyOverrides
  BY DEF DecisionInv, AnswerRight, Right, DenyOverrides, MatchingOf, MatchesIn
<1> QED
  BY <1>1, InitDecisionInv, NextDecisionInv, PTL DEF PointSpec

--------------------------------------------------------------------------------
(* The verdict on a request does not change *)

\* The request the engine gets for a caller.
AskedFor(c, r) ==
  \/ c.kind = "pep" /\ r = toEngine(pepRequest(c))
  \/ c.kind = "direct" /\ r = toEngine(c.request)
  \/ /\ c.kind = "adapter"
     /\ \E raw \in lookupHeader(c.headers, payloadHeader) :
          r = toEngine(adapterRequest(c, raw.claims))

\* Once there is an answer, it stays the right one for the caller's request.
AnswerLasts ==
  /\ caller \in Callers(tables)
  /\ pc \in {"listing", "evaluating", "answered"} \/ resp.Reason # "none" => AskedFor(caller, req)
  /\ resp.Reason # "none" => Right(resp, tables, req)

\* A caller's request is always the same.
LEMMA OneRequest ==
  ASSUME tables \in Tables, caller \in Callers(tables), NEW r, NEW q,
         AskedFor(caller, r), AskedFor(caller, q)
  PROVE  r = q
BY HeadersUnambiguous DEF AskedFor

\* Two right answers agree on everything but the policy they name.
LEMMA RightAgree ==
  ASSUME NEW a, NEW b, NEW t, NEW r, Right(a, t, r), Right(b, t, r),
         a.Allowed \in BOOLEAN, b.Allowed \in BOOLEAN
  PROVE  a.Allowed = b.Allowed /\ a.Reason = b.Reason
BY DEF Right

\* Every answer has one of the engine's three reasons, and is a verdict.
LEMMA AnswerKinds ==
  ASSUME NEW s, NEW r
  PROVE  CheckAccess(s, r).Reason # "none" /\ CheckAccess(s, r).Allowed \in BOOLEAN
BY DEF CheckAccess, Response

RespKinds == resp.Allowed \in BOOLEAN

VerdictInv == DecisionInv /\ AnswerLasts /\ RespKinds

LEMMA InitVerdictInv == PointInit => VerdictInv
<1> SUFFICES ASSUME PointInit PROVE VerdictInv
  OBVIOUS
<1>1. resp.Reason = "none" /\ resp.Allowed = FALSE
  BY DEF PointInit, NoResponse, Response
<1> QED
  BY <1>1, InitDecisionInv DEF PointInit, VerdictInv, AnswerLasts, RespKinds

\* Asking, for the first time or again, puts the caller's request.
LEMMA AskVerdictInv ==
  ASSUME VerdictInv, ServeHTTP \/ DirectCall \/ Check
  PROVE  AnswerLasts' /\ RespKinds'
<1>1. UNCHANGED <<tables, caller, resp>> /\ pc' = "listing"
  BY DEF ServeHTTP, DirectCall, Check, Ask
<1>2. AskedFor(caller, req')
  BY DEF ServeHTTP, DirectCall, Check, Ask, AskedFor
<1>3. resp.Reason # "none" => req' = req
  BY <1>2, OneRequest DEF VerdictInv, DecisionInv, SnapshotIsStore, AnswerLasts
<1> QED
  BY <1>1, <1>2, <1>3 DEF VerdictInv, AnswerLasts, RespKinds

LEMMA NextVerdictInv ==
  ASSUME VerdictInv, [PointNext]_pointVars
  PROVE  VerdictInv'
<1>0. DecisionInv'
  BY NextDecisionInv DEF VerdictInv
<1>1. CASE UNCHANGED pointVars
  BY <1>0, <1>1 DEF pointVars, vars, VerdictInv, AnswerLasts, RespKinds
<1>2. CASE ServeHTTP \/ DirectCall \/ Check
  BY <1>0, <1>2, AskVerdictInv DEF VerdictInv
<1>3. CASE Unauthenticated \/ Respond \/ Repeat \/ (ListActivePolicies /\ UNCHANGED caller)
  <2>1. UNCHANGED <<tables, req, resp, caller>>
    BY <1>3 DEF Unauthenticated, Respond, Repeat, ListActivePolicies
  <2>2. pc' \in {"listing", "evaluating", "answered"} => pc = "listing"
    BY <1>3 DEF Unauthenticated, Respond, Repeat, ListActivePolicies
  <2> QED
    BY <1>0, <2>1, <2>2 DEF VerdictInv, AnswerLasts, RespKinds
<1>4. CASE Evaluate /\ UNCHANGED caller
  <2>1. /\ pc = "evaluating" /\ UNCHANGED <<tables, req, caller>>
        /\ resp' = CheckAccess(snapshot, req) /\ pc' = "answered"
    BY <1>4 DEF Evaluate
  <2>2. Right(resp', tables, req)
    BY <1>0, <2>1 DEF DecisionInv, AnswerRight
  <2> QED
    BY <1>0, <2>1, <2>2, AnswerKinds DEF VerdictInv, AnswerLasts, RespKinds
<1> QED
  BY <1>1, <1>2, <1>3, <1>4 DEF PointNext, Decide

\* A repeated request gets the verdict and the reason it got before, for every
\* store, request and enforcement point, however the maps are ranged over: only
\* the id of the matching policy may differ.  It takes that a caller's headers
\* name the verified payload once (HeadersUnambiguous).
THEOREM EngineVerdictStable == PointSpec => VerdictStable
<1>1. ASSUME VerdictInv, [PointNext]_pointVars
      PROVE  [resp.Reason # "none" => resp'.Allowed = resp.Allowed /\ resp'.Reason = resp.Reason]_resp
  <2> SUFFICES ASSUME resp' # resp, resp.Reason # "none"
               PROVE  resp'.Allowed = resp.Allowed /\ resp'.Reason = resp.Reason
    OBVIOUS
  <2>1. Evaluate
    BY <1>1 DEF PointNext, Decide, pointVars, vars, ServeHTTP, DirectCall, Check, Ask,
                Unauthenticated, Respond, Repeat, ListActivePolicies
  <2>2. VerdictInv'
    BY <1>1, NextVerdictInv
  <2>3. UNCHANGED <<tables, req>> /\ pc' = "answered"
    BY <2>1 DEF Evaluate
  <2>4. Right(resp, tables, req) /\ resp.Allowed \in BOOLEAN
    BY <1>1 DEF VerdictInv, AnswerLasts, RespKinds
  <2>5. Right(resp', tables, req) /\ resp'.Allowed \in BOOLEAN
    BY <2>2, <2>3 DEF VerdictInv, DecisionInv, AnswerRight, RespKinds
  <2> QED
    BY <2>4, <2>5, RightAgree
<1> QED
  BY <1>1, InitVerdictInv, NextVerdictInv, PTL DEF PointSpec, VerdictStable
================================================================================

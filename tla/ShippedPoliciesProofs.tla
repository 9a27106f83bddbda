------------------------- MODULE ShippedPoliciesProofs -------------------------
(***************************************************************************)
(* Proofs about the shipped policies and their descriptions, for role      *)
(* lists of any length and every token, claim map, path and address.       *)
(***************************************************************************)
EXTENDS ShippedPolicies, EnforcementPointProofs

--------------------------------------------------------------------------------
(* The operators on the values of the shipped conditions *)

\* EQUALS ["admin"] holds for one list only: neither admin and something else nor
\* admin twice.
LEMMA EqualsAdmin ==
  ASSUME NEW t \in Seq(Values)
  PROVE  evalEquals(<<"admin">>, t) <=> t = <<"admin">>
<1>1. Len(<<"admin">>) = 1
  OBVIOUS
<1>2. CASE Len(t) = 1
  <2>1. DOMAIN t = {1} /\ t = <<t[1]>>
    BY <1>2
  <2>2. SubSeq(t, 1, 1) = t
    BY <1>2
  <2>3. Occurrences(SubSeq(t, 1, 1), t[1]) = 1
    <3>1. {i \in DOMAIN t : t[i] = t[1]} = {1}
      BY <2>1
    <3>2. Occurrences(t, t[1]) = 1
      BY <3>1, FS_Singleton DEF Occurrences
    <3> QED
      BY <2>2, <3>2
  <2>4. CASE t[1] = "admin"
    <3>1. {i \in DOMAIN <<"admin">> : <<"admin">>[i] = t[1]} = {1}
      BY <2>4
    <3>2. Occurrences(<<"admin">>, t[1]) = 1
      BY <3>1, FS_Singleton DEF Occurrences
    <3>3. evalEquals(<<"admin">>, t)
      BY <1>1, <1>2, <2>1, <2>3, <3>2 DEF evalEquals
    <3> QED
      BY <2>1, <2>4, <3>3
  <2>5. CASE t[1] # "admin"
    <3>1. {i \in DOMAIN <<"admin">> : <<"admin">>[i] = t[1]} = {}
      BY <2>5
    <3>2. Occurrences(<<"admin">>, t[1]) = 0
      BY <3>1, FS_EmptySet DEF Occurrences
    <3>3. ~evalEquals(<<"admin">>, t)
      BY <2>1, <2>3, <3>2 DEF evalEquals
    <3> QED
      BY <2>5, <3>3
  <2> QED
    BY <2>4, <2>5
<1>3. CASE Len(t) # 1
  BY <1>1, <1>3 DEF evalEquals
<1> QED
  BY <1>2, <1>3

\* CONTAINS_ANY of a list that is not empty is a common role.
LEMMA ContainsAnyMeans ==
  ASSUME NEW s, Len(s) # 0, NEW t \in Seq(Values)
  PROVE  evalContainsAny(s, t) <=> Elements(s) \cap Elements(t) # {}
<1>1. Len(t) = 0 => Elements(t) = {}
  BY DEF Elements
<1> QED
  BY <1>1 DEF evalContainsAny

\* CONTAINS_ALL ["admin", "finance"] is inclusion: the length shortcut of
\* evalContainsAll refuses no list that has both.
LEMMA ContainsAdminFinance ==
  ASSUME NEW t \in Seq(Values)
  PROVE  evalContainsAll(<<"admin", "finance">>, t) <=> {"admin", "finance"} \subseteq Elements(t)
<1>1. Len(<<"admin", "finance">>) = 2
  OBVIOUS
<1>2. Elements(<<"admin", "finance">>) = {"admin", "finance"}
  BY DEF Elements
<1>3. ASSUME {"admin", "finance"} \subseteq Elements(t)
      PROVE  2 <= Len(t)
  <2>1. PICK i \in DOMAIN t : t[i] = "admin"
    BY <1>3 DEF Elements
  <2>2. PICK j \in DOMAIN t : t[j] = "finance"
    BY <1>3 DEF Elements
  <2>3. i # j
    BY <2>1, <2>2
  <2>4. Len(t) \in Nat /\ i \in 1 .. Len(t) /\ j \in 1 .. Len(t)
    OBVIOUS
  <2> QED
    BY <2>3, <2>4
<1> QED
  BY <1>1, <1>2, <1>3 DEF evalContainsAll

--------------------------------------------------------------------------------
(* What the engine sees of a request *)

\* The engine finds method, roles and address of the request; where there is a
\* path (res), that too.
Seen(r, m, roles, v) ==
  /\ r.resource_type = "httpbin"
  /\ r.action = actionForMethod(m)
  /\ "role" \in DOMAIN r.attributes["principal"]
  /\ r.attributes["principal"]["role"] = roles
  /\ "ip_address" \in DOMAIN r.attributes["environment"]
  /\ r.attributes["environment"]["ip_address"] = <<v>>

SeenPath(r, p) ==
  /\ "path" \in DOMAIN r.attributes["resource"]
  /\ r.attributes["resource"]["path"] = <<p>>

\* mapAttributes keeps an attribute that has a value.
LEMMA MapKeeps ==
  ASSUME NEW k, NEW v, v # NilValues
  PROVE  /\ k \in DOMAIN mapAttributes([x \in {k} |-> v])
         /\ mapAttributes([x \in {k} |-> v])[k] = v
BY DEF mapAttributes

\* A slice of strings is never taken for a missing value.
LEMMA SlicesAreValues ==
  ASSUME NEW s \in Seq(Values)
  PROVE  s # NilValues
BY ShippedConstants

LEMMA RequestSeen ==
  ASSUME NEW m, NEW roles \in Seq(Values), NEW res, NEW v \in Values
  PROVE  Seen(toEngine(httpbinRequest(m, roles, res, v)), m, roles, v)
<1> DEFINE q == httpbinRequest(m, roles, res, v)
           r == toEngine(q)
<1>1. roles # NilValues /\ <<v>> # NilValues
  <2>1. <<v>> \in Seq(Values)
    OBVIOUS
  <2> QED
    BY <2>1, SlicesAreValues
<1>2. /\ q.resource_type = "httpbin" /\ q.action = actionForMethod(m)
      /\ q.attributes["principal"] = [k \in {"role"} |-> roles]
      /\ q.attributes["environment"] = [k \in {"ip_address"} |-> <<v>>]
  BY DEF httpbinRequest, Attributes
<1>3. r = [q EXCEPT !.attributes = [p \in Prefixes |-> mapAttributes(q.attributes[p])]]
  BY DEF toEngine
<1>4. "principal" \in Prefixes /\ "environment" \in Prefixes
  BY DEF Prefixes
<1>5. r.resource_type = q.resource_type /\ r.action = q.action
  BY <1>3 DEF httpbinRequest
<1>6. /\ r.attributes["principal"] = mapAttributes([k \in {"role"} |-> roles])
      /\ r.attributes["environment"] = mapAttributes([k \in {"ip_address"} |-> <<v>>])
  <2>1. r.attributes = [p \in Prefixes |-> mapAttributes(q.attributes[p])]
    BY <1>3 DEF httpbinRequest
  <2> HIDE DEF q, r
  <2> QED
    BY <1>2, <1>4, <2>1
<1> HIDE DEF q, r
<1>7. /\ "role" \in DOMAIN r.attributes["principal"]
      /\ r.attributes["principal"]["role"] = roles
  BY <1>1, <1>6, MapKeeps
<1>8. /\ "ip_address" \in DOMAIN r.attributes["environment"]
      /\ r.attributes["environment"]["ip_address"] = <<v>>
  BY <1>1, <1>6, MapKeeps
<1>9. Seen(r, m, roles, v)
  BY <1>2, <1>5, <1>7, <1>8 DEF Seen
<1> QED
  BY <1>9 DEF q, r

LEMMA PathSeen ==
  ASSUME NEW m, NEW roles, NEW p \in Values, NEW v
  PROVE  SeenPath(toEngine(httpbinRequest(m, roles, [k \in {"path"} |-> <<p>>], v)), p)
<1> DEFINE q == httpbinRequest(m, roles, [k \in {"path"} |-> <<p>>], v)
           r == toEngine(q)
<1>1. <<p>> # NilValues
  <2>1. <<p>> \in Seq(Values)
    OBVIOUS
  <2> QED
    BY <2>1, SlicesAreValues
<1>2. q.attributes["resource"] = [k \in {"path"} |-> <<p>>]
  BY DEF httpbinRequest, Attributes
<1>3. r.attributes = [x \in Prefixes |-> mapAttributes(q.attributes[x])]
  BY DEF toEngine, httpbinRequest
<1>4. "resource" \in Prefixes
  BY DEF Prefixes
<1> HIDE DEF q, r
<1>5. r.attributes["resource"] = mapAttributes([k \in {"path"} |-> <<p>>])
  BY <1>2, <1>3, <1>4
<1>6. SeenPath(r, p)
  BY <1>1, <1>5, MapKeeps DEF SeenPath
<1> QED
  BY <1>6 DEF q, r

--------------------------------------------------------------------------------
(* Which shipped policy matches *)

\* A policy with one condition, not a REGEX.
LEMMA MatchOne ==
  ASSUME NEW i, NEW a, NEW c, c.operator # "REGEX", NEW r
  PROVE  Matches(policy(i, a, <<c>>), r) <=>
           /\ r.resource_type = "httpbin" /\ r.action = a
           /\ EvaluateCondition(c, r)
<1> DEFINE p == policy(i, a, <<c>>)
<1>1. /\ p.target.resource_type = "httpbin" /\ p.target.action = a
      /\ p.conditions = <<c>>
  BY DEF policy, Compile, NeedsRegex
<1> HIDE DEF p
<1>2. Matches(p, r) <=>
           /\ r.resource_type = "httpbin" /\ r.action = a
           /\ EvaluateCondition(c, r)
  BY <1>1 DEF Matches
<1> QED
  BY <1>2 DEF p

\* path(v) once Compile has filled in its pattern.
CompiledPath(v) == [path(v) EXCEPT !.CompiledRegex = Pattern[v]]

\* A policy with a condition on the path and another one, not a REGEX.
LEMMA MatchPathAndOne ==
  ASSUME NEW i, NEW a, NEW v, NEW c, c.operator # "REGEX", NEW r
  PROVE  Matches(policy(i, a, <<path(v), c>>), r) <=>
           /\ r.resource_type = "httpbin" /\ r.action = a
           /\ EvaluateCondition(CompiledPath(v), r)
           /\ EvaluateCondition(c, r)
<1> DEFINE p == policy(i, a, <<path(v), c>>)
<1>1. NeedsRegex(path(v)) /\ path(v).value[1] = v /\ ~NeedsRegex(c)
  BY DEF NeedsRegex, path, cond
<1>2. /\ p.target.resource_type = "httpbin" /\ p.target.action = a
      /\ p.conditions = [k \in DOMAIN <<path(v), c>> |->
                           IF NeedsRegex(<<path(v), c>>[k])
                           THEN [<<path(v), c>>[k] EXCEPT !.CompiledRegex = Pattern[<<path(v), c>>[k].value[1]]]
                           ELSE <<path(v), c>>[k]]
  BY DEF policy, Compile
<1>3. /\ DOMAIN p.conditions = {1, 2}
      /\ p.conditions[1] = CompiledPath(v)
      /\ p.conditions[2] = c
  <2>1. DOMAIN <<path(v), c>> = {1, 2}
    OBVIOUS
  <2> HIDE DEF p
  <2> QED
    BY <1>1, <1>2, <2>1 DEF CompiledPath
<1> HIDE DEF p
<1>4. Matches(p, r) <=>
           /\ r.resource_type = "httpbin" /\ r.action = a
           /\ EvaluateCondition(CompiledPath(v), r)
           /\ EvaluateCondition(c, r)
  BY <1>2, <1>3 DEF Matches
<1> QED
  BY <1>4 DEF p

\* A condition on the role, the path or the address is applied to the request's.
LEMMA Routing ==
  ASSUME NEW r, NEW m, NEW roles, NEW v, Seen(r, m, roles, v), NEW o, NEW s
  PROVE  /\ EvaluateCondition(role(o, s), r) <=> Apply(role(o, s), roles)
         /\ EvaluateCondition(ip(s), r) <=> evalInCIDR(s, <<v>>)
<1>1. /\ role(o, s).attribute.found /\ role(o, s).attribute.prefix = "principal"
      /\ role(o, s).attribute.key = "role"
  BY DEF role, cond, attr
<1>2. /\ ip(s).attribute.found /\ ip(s).attribute.prefix = "environment"
      /\ ip(s).attribute.key = "ip_address"
      /\ ip(s).operator = "IN_CIDR" /\ ip(s).value = s
  BY DEF ip, cond, attr
<1>3. "principal" \in Prefixes /\ "environment" \in Prefixes
  BY DEF Prefixes
<1>4. EvaluateCondition(role(o, s), r) <=> Apply(role(o, s), roles)
  BY <1>1, <1>3 DEF EvaluateCondition, Seen
<1>5. EvaluateCondition(ip(s), r) <=> Apply(ip(s), <<v>>)
  BY <1>2, <1>3 DEF EvaluateCondition, Seen
<1>6. Apply(ip(s), <<v>>) <=> evalInCIDR(s, <<v>>)
  BY <1>2 DEF Apply
<1> QED
  BY <1>4, <1>5, <1>6

\* The role operators of the shipped policies.
LEMMA RoleOperators ==
  ASSUME NEW s, NEW roles
  PROVE  /\ Apply(role("EQUALS", s), roles) <=> evalEquals(s, roles)
         /\ Apply(role("CONTAINS_ANY", s), roles) <=> evalContainsAny(s, roles)
         /\ Apply(role("CONTAINS_ALL", s), roles) <=> evalContainsAll(s, roles)
<1>1. \A o : role(o, s).operator = o /\ role(o, s).value = s
  BY DEF role, cond
<1> QED
  BY <1>1 DEF Apply

\* A compiled condition on the path holds for the paths its pattern matches.
LEMMA PathRouting ==
  ASSUME NEW r, NEW p, SeenPath(r, p), NEW w, Pattern[w] # NilRegex
  PROVE  EvaluateCondition(CompiledPath(w), r) <=> p \in Pattern[w]
<1> DEFINE c == CompiledPath(w)
<1>1. /\ c.attribute.found /\ c.attribute.prefix = "resource" /\ c.attribute.key = "path"
      /\ c.operator = "REGEX" /\ c.CompiledRegex = Pattern[w]
  BY DEF CompiledPath, path, cond, attr
<1>2. "resource" \in Prefixes
  BY DEF Prefixes
<1> HIDE DEF c
<1>3. EvaluateCondition(c, r) <=> Apply(c, <<p>>)
  BY <1>1, <1>2 DEF EvaluateCondition, SeenPath
<1>4. Apply(c, <<p>>) <=> evalRegex(Pattern[w], <<p>>)
  BY <1>1 DEF Apply
<1>5. evalRegex(Pattern[w], <<p>>) <=> p \in Pattern[w]
  BY DEF evalRegex
<1> QED
  BY <1>3, <1>4, <1>5 DEF c

\* The three policies on READ, in terms of the roles and the address.
LEMMA ReadPolicies ==
  ASSUME NEW r, NEW m, NEW roles \in Seq(Values), NEW v \in Values, Seen(r, m, roles, v)
  PROVE  /\ Matches(staffRead, r) <=>
              actionForMethod(m) = "READ" /\ {"admin", "user"} \cap Elements(roles) # {}
         /\ Matches(denyBlocked, r) <=> actionForMethod(m) = "READ" /\ "blocked" \in Elements(roles)
         /\ Matches(denyCorpNet, r) <=>
              actionForMethod(m) = "READ" /\ Inside(v)
<1>1. r.resource_type = "httpbin" /\ r.action = actionForMethod(m)
  BY DEF Seen
<1>2. Elements(<<"admin", "user">>) = {"admin", "user"} /\ Elements(<<"blocked">>) = {"blocked"}
  BY DEF Elements
<1>3. Matches(staffRead, r) <=>
        actionForMethod(m) = "READ" /\ {"admin", "user"} \cap Elements(roles) # {}
  <2>1. role("CONTAINS_ANY", <<"admin", "user">>).operator # "REGEX"
    BY DEF role, cond
  <2>2. Len(<<"admin", "user">>) # 0
    OBVIOUS
  <2>3. evalContainsAny(<<"admin", "user">>, roles) <=>
          Elements(<<"admin", "user">>) \cap Elements(roles) # {}
    BY <2>2, ContainsAnyMeans
  <2>4. EvaluateCondition(role("CONTAINS_ANY", <<"admin", "user">>), r) <=>
          evalContainsAny(<<"admin", "user">>, roles)
    BY Routing, RoleOperators
  <2>5. Matches(staffRead, r) <=>
          /\ r.resource_type = "httpbin" /\ r.action = "READ"
          /\ EvaluateCondition(role("CONTAINS_ANY", <<"admin", "user">>), r)
    BY <2>1, MatchOne DEF staffRead
  <2> QED
    BY <1>1, <1>2, <2>3, <2>4, <2>5
<1>4. Matches(denyBlocked, r) <=> actionForMethod(m) = "READ" /\ "blocked" \in Elements(roles)
  <2>1. role("CONTAINS_ANY", <<"blocked">>).operator # "REGEX"
    BY DEF role, cond
  <2>2. Len(<<"blocked">>) # 0
    OBVIOUS
  <2>3. evalContainsAny(<<"blocked">>, roles) <=> Elements(<<"blocked">>) \cap Elements(roles) # {}
    BY <2>2, ContainsAnyMeans
  <2>4. EvaluateCondition(role("CONTAINS_ANY", <<"blocked">>), r) <=>
          evalContainsAny(<<"blocked">>, roles)
    BY Routing, RoleOperators
  <2>5. Matches(denyBlocked, r) <=>
          /\ r.resource_type = "httpbin" /\ r.action = "READ"
          /\ EvaluateCondition(role("CONTAINS_ANY", <<"blocked">>), r)
    BY <2>1, MatchOne DEF denyBlocked
  <2> QED
    BY <1>1, <1>2, <2>3, <2>4, <2>5
<1>5. Matches(denyCorpNet, r) <=> actionForMethod(m) = "READ" /\ Inside(v)
  <2>1. ip(<<network>>).operator # "REGEX"
    BY DEF ip, cond
  <2>2. evalInCIDR(<<network>>, <<v>>) <=> Inside(v)
    <3>1. PICK n : n = network
      OBVIOUS
    <3>2. Prefix[n] # Malformed
      BY <3>1, ShippedConstants
    <3> QED
      BY <3>1, <3>2 DEF evalInCIDR, Inside
  <2> QED
    BY <1>1, <2>1, <2>2, MatchOne, Routing DEF denyCorpNet
<1> QED
  BY <1>3, <1>4, <1>5

\* The policy on WRITE of the httpbin example.
LEMMA PepWritePolicy ==
  ASSUME NEW r, NEW m, NEW roles \in Seq(Values), NEW v, Seen(r, m, roles, v)
  PROVE  Matches(adminWrite, r) <=> actionForMethod(m) = "WRITE" /\ roles = <<"admin">>
<1>1. r.resource_type = "httpbin" /\ r.action = actionForMethod(m)
  BY DEF Seen
<1>2. role("EQUALS", <<"admin">>).operator # "REGEX"
  BY DEF role, cond
<1>3. EvaluateCondition(role("EQUALS", <<"admin">>), r) <=> roles = <<"admin">>
  BY Routing, RoleOperators, EqualsAdmin
<1>4. Matches(adminWrite, r) <=>
        /\ r.resource_type = "httpbin" /\ r.action = "WRITE"
        /\ EvaluateCondition(role("EQUALS", <<"admin">>), r)
  BY <1>2, MatchOne DEF adminWrite
<1> QED
  BY <1>1, <1>3, <1>4

\* The policies on WRITE of the Envoy example.
LEMMA AdapterWritePolicies ==
  ASSUME NEW r, NEW m, NEW roles \in Seq(Values), NEW v, Seen(r, m, roles, v),
         NEW p, SeenPath(r, p)
  PROVE  /\ Matches(adminWriteStandard, r) <=>
              actionForMethod(m) = "WRITE" /\ p \in Pattern[standardPaths] /\ roles = <<"admin">>
         /\ Matches(financeWrite, r) <=>
              /\ actionForMethod(m) = "WRITE"
              /\ p \in Pattern[financePaths]
              /\ {"admin", "finance"} \subseteq Elements(roles)
<1>1. r.resource_type = "httpbin" /\ r.action = actionForMethod(m)
  BY DEF Seen
<1>2. /\ role("EQUALS", <<"admin">>).operator # "REGEX"
      /\ role("CONTAINS_ALL", <<"admin", "finance">>).operator # "REGEX"
  BY DEF role, cond
<1>3. Pattern[standardPaths] # NilRegex /\ Pattern[financePaths] # NilRegex
  BY ShippedConstants
<1>4. /\ EvaluateCondition(CompiledPath(standardPaths), r) <=> p \in Pattern[standardPaths]
      /\ EvaluateCondition(CompiledPath(financePaths), r) <=> p \in Pattern[financePaths]
  BY <1>3, PathRouting
<1>5. /\ EvaluateCondition(role("EQUALS", <<"admin">>), r) <=> roles = <<"admin">>
      /\ EvaluateCondition(role("CONTAINS_ALL", <<"admin", "finance">>), r) <=>
           {"admin", "finance"} \subseteq Elements(roles)
  BY Routing, RoleOperators, EqualsAdmin, ContainsAdminFinance
<1>6. Matches(adminWriteStandard, r) <=>
           /\ r.resource_type = "httpbin" /\ r.action = "WRITE"
           /\ EvaluateCondition(CompiledPath(standardPaths), r)
           /\ EvaluateCondition(role("EQUALS", <<"admin">>), r)
  BY <1>2, MatchPathAndOne DEF adminWriteStandard
<1>7. Matches(financeWrite, r) <=>
           /\ r.resource_type = "httpbin" /\ r.action = "WRITE"
           /\ EvaluateCondition(CompiledPath(financePaths), r)
           /\ EvaluateCondition(role("CONTAINS_ALL", <<"admin", "finance">>), r)
  BY <1>2, MatchPathAndOne DEF financeWrite
<1> QED
  BY <1>1, <1>4, <1>5, <1>6, <1>7

--------------------------------------------------------------------------------
(* The decision on a shipped store *)

\* What an allow and a deny slice of the shipped policies come to.
Decided(t, r) == MatchingOf(t.deny, r) = {} /\ MatchingOf(t.allow, r) # {}

LEMMA PepDecides ==
  ASSUME NEW r
  PROVE  /\ Decided(PepPolicies, r) <=>
              ~Matches(denyBlocked, r) /\ (Matches(staffRead, r) \/ Matches(adminWrite, r))
         /\ Decided(WithCorpNet(PepPolicies), r) <=>
              Decided(PepPolicies, r) /\ ~Matches(denyCorpNet, r)
<1>1. PepPolicies.allow = {staffRead, adminWrite} /\ PepPolicies.deny = {denyBlocked}
  BY DEF PepPolicies
<1>2. /\ WithCorpNet(PepPolicies).allow = PepPolicies.allow
      /\ WithCorpNet(PepPolicies).deny = PepPolicies.deny \cup {denyCorpNet}
  BY DEF WithCorpNet
<1> QED
  BY <1>1, <1>2 DEF Decided, MatchingOf

LEMMA AdapterDecides ==
  ASSUME NEW r
  PROVE  /\ Decided(AdapterPolicies, r) <=>
              /\ ~Matches(denyBlocked, r)
              /\ Matches(staffRead, r) \/ Matches(adminWriteStandard, r) \/ Matches(financeWrite, r)
         /\ Decided(WithCorpNet(AdapterPolicies), r) <=>
              Decided(AdapterPolicies, r) /\ ~Matches(denyCorpNet, r)
<1>1. /\ AdapterPolicies.allow = {staffRead, adminWriteStandard, financeWrite}
      /\ AdapterPolicies.deny = {denyBlocked}
  BY DEF AdapterPolicies
<1>2. /\ WithCorpNet(AdapterPolicies).allow = AdapterPolicies.allow
      /\ WithCorpNet(AdapterPolicies).deny = AdapterPolicies.deny \cup {denyCorpNet}
  BY DEF WithCorpNet
<1> QED
  BY <1>1, <1>2 DEF Decided, MatchingOf

\* The safe methods are READ, every other one is WRITE.
LEMMA MethodActions ==
  ASSUME NEW m
  PROVE  /\ actionForMethod(m) = "READ" <=> Fold[m] \in {"GET", "HEAD", "OPTIONS"}
         /\ actionForMethod(m) = "WRITE" <=> Fold[m] \notin {"GET", "HEAD", "OPTIONS"}
BY DEF actionForMethod

\* The one list that EQUALS ["admin"] accepts, and the role set of the description:
\* they differ in lists that name admin more than once.
LEMMA AdminSet ==
  ASSUME NEW t \in Seq(Values)
  PROVE  /\ t = <<"admin">> => Elements(t) = {"admin"}
         /\ Elements(t) = {"admin"} => t = <<"admin">> \/ Len(t) > 1
<1>1. ASSUME t = <<"admin">> PROVE Elements(t) = {"admin"}
  BY <1>1 DEF Elements
<1>2. ASSUME Elements(t) = {"admin"}, ~(Len(t) > 1) PROVE t = <<"admin">>
  <2>1. Len(t) \in Nat /\ DOMAIN t = 1 .. Len(t)
    OBVIOUS
  <2>2. \A i \in DOMAIN t : t[i] = "admin"
    BY <1>2 DEF Elements
  <2>3. DOMAIN t # {}
    BY <1>2 DEF Elements
  <2>4. Len(t) = 1
    BY <1>2, <2>1, <2>3
  <2> QED
    BY <2>2, <2>4
<1> QED
  BY <1>1, <1>2

\* What the conditions of the policies accept, in terms of the caller: MayWrite,
\* but for the roles that EQUALS compares as a list.
Accepted(c) ==
  IF Reads(c) THEN MayRead(c)
  ELSE \/ /\ RolesOf(c) = <<"admin">>
          /\ c.kind = "adapter" => c.path \in Pattern[standardPaths]
       \/ /\ c.kind = "adapter"
          /\ c.path \in Pattern[financePaths]
          /\ {"admin", "finance"} \subseteq Elements(RolesOf(c))

LEMMA AcceptedMeans ==
  ASSUME NEW c, RolesOf(c) \in Seq(Values)
  PROVE  /\ Accepted(c) => Described(c)
         /\ Described(c) => Accepted(c) \/ AdminRepeated(c)
BY AdminSet DEF Accepted, Described, MayWrite, AdminRepeated

\* A policy on the address, for the address each enforcement point reports: an
\* absent one becomes 0.0.0.0, outside the network.
LEMMA NetworkSeen ==
  ASSUME NEW c
  PROVE  /\ c.kind = "pep" => (FromNetwork(c) <=> Inside(clientIP(c.remote)))
         /\ c.kind = "adapter" => (FromNetwork(c) <=> Inside(sourceIP(c.source)))
<1>1. ASSUME c.kind = "pep" PROVE FromNetwork(c) <=> Inside(clientIP(c.remote))
  BY <1>1 DEF FromNetwork, clientIP
<1>2. ASSUME c.kind = "adapter" PROVE FromNetwork(c) <=> Inside(sourceIP(c.source))
  <2>1. ~Inside("0.0.0.0")
    BY ShippedConstants
  <2>2. FromNetwork(c) <=> c.source # Empty /\ Inside(c.source)
    BY <1>2 DEF FromNetwork
  <2>3. sourceIP(c.source) = IF c.source = Empty THEN "0.0.0.0" ELSE c.source
    BY DEF sourceIP
  <2>4. CASE c.source = Empty
    BY <2>1, <2>2, <2>3, <2>4
  <2>5. CASE c.source # Empty
    BY <2>2, <2>3, <2>5
  <2> QED
    BY <2>4, <2>5
<1> QED
  BY <1>1, <1>2

\* A request through the httpbin enforcement point is decided by its policies.
LEMMA PepAccepts ==
  ASSUME NEW t \in Tables, NEW c \in Callers(t), c.kind = "pep"
  PROVE  /\ RolesOf(c) \in Seq(Values)
         /\ Decided(PepPolicies, toEngine(pepRequest(c))) <=> Accepted(c)
         /\ Reads(c) => (Decided(WithCorpNet(PepPolicies), toEngine(pepRequest(c))) <=>
                           MayRead(c) /\ ~FromNetwork(c))
<1> DEFINE r == toEngine(pepRequest(c))
           v == clientIP(c.remote)
<1>1. c.roles \in Seq(Values) /\ v \in Values
  BY ShippedConstants
<1>2. Seen(r, c.method, c.roles, v)
  BY <1>1, RequestSeen DEF pepRequest
<1>3. RolesOf(c) = c.roles
  BY DEF RolesOf
<1>4. FromNetwork(c) <=> Inside(v)
  BY NetworkSeen
<1> HIDE DEF r, v
<1>5. /\ Matches(staffRead, r) <=>
           actionForMethod(c.method) = "READ" /\ {"admin", "user"} \cap Elements(c.roles) # {}
      /\ Matches(denyBlocked, r) <=> actionForMethod(c.method) = "READ" /\ "blocked" \in Elements(c.roles)
      /\ Matches(denyCorpNet, r) <=> actionForMethod(c.method) = "READ" /\ FromNetwork(c)
  BY <1>1, <1>2, <1>4, ReadPolicies
<1>6. Matches(adminWrite, r) <=> actionForMethod(c.method) = "WRITE" /\ c.roles = <<"admin">>
  BY <1>1, <1>2, PepWritePolicy
<1>7. /\ Decided(PepPolicies, r) <=>
           ~Matches(denyBlocked, r) /\ (Matches(staffRead, r) \/ Matches(adminWrite, r))
      /\ Decided(WithCorpNet(PepPolicies), r) <=> Decided(PepPolicies, r) /\ ~Matches(denyCorpNet, r)
  BY PepDecides
<1>8. ASSUME Reads(c)
      PROVE  /\ Decided(PepPolicies, r) <=> MayRead(c)
             /\ Decided(WithCorpNet(PepPolicies), r) <=> MayRead(c) /\ ~FromNetwork(c)
  <2>1. actionForMethod(c.method) = "READ" /\ actionForMethod(c.method) # "WRITE"
    BY <1>8, MethodActions DEF Reads
  <2> QED
    BY <1>3, <1>5, <1>6, <1>7, <2>1 DEF MayRead
<1>9. ASSUME ~Reads(c)
      PROVE  Decided(PepPolicies, r) <=> c.roles = <<"admin">>
  <2>1. actionForMethod(c.method) = "WRITE" /\ actionForMethod(c.method) # "READ"
    BY <1>9, MethodActions DEF Reads
  <2> QED
    BY <1>5, <1>6, <1>7, <2>1
<1>10. Decided(PepPolicies, r) <=> Accepted(c)
  BY <1>3, <1>8, <1>9 DEF Accepted
<1> QED
  BY <1>1, <1>3, <1>8, <1>10 DEF r

\* The adapter looks the token up where the description says it is.
LEMMA TokenFound ==
  ASSUME NEW t \in Tables, NEW c \in Callers(t), c.kind = "adapter"
  PROVE  lookupHeader(c.headers, payloadHeader) = IF PayloadKeys(c) = {} THEN {} ELSE {TokenOf(c)}
<1> DEFINE L == lookupHeader(c.headers, payloadHeader)
<1>1. CASE payloadHeader \in DOMAIN c.headers
  <2>1. payloadHeader \in PayloadKeys(c)
    BY <1>1 DEF PayloadKeys
  <2>2. L = {c.headers[payloadHeader]} /\ TokenOf(c) = c.headers[payloadHeader]
    BY <1>1, <2>1 DEF lookupHeader, TokenOf
  <2> QED
    BY <2>1, <2>2
<1>2. CASE payloadHeader \notin DOMAIN c.headers
  <2>1. L = {c.headers[k] : k \in PayloadKeys(c)} /\ payloadHeader \notin PayloadKeys(c)
    BY <1>2 DEF lookupHeader, PayloadKeys
  <2>2. CASE PayloadKeys(c) = {}
    BY <2>1, <2>2
  <2>3. CASE PayloadKeys(c) # {}
    <3>1. PICK k \in PayloadKeys(c) : TokenOf(c) = c.headers[k]
      <4>1. (CHOOSE k \in PayloadKeys(c) : TRUE) \in PayloadKeys(c)
        BY <2>3
      <4> QED
        BY <2>1, <4>1 DEF TokenOf
    <3>2. \A x, y \in L : x = y
      BY HeadersUnambiguous
    <3> HIDE DEF L
    <3>3. L = {TokenOf(c)}
      BY <2>1, <3>1, <3>2
    <3> QED
      BY <2>3, <3>3 DEF L
  <2> QED
    BY <2>2, <2>3
<1> QED
  BY <1>1, <1>2

\* Does the enforcement point ask at all?
LetIn(c) ==
  c.kind = "adapter" => \E raw \in lookupHeader(c.headers, payloadHeader) : Authenticated(raw)

LEMMA LetInMeans ==
  ASSUME NEW t \in Tables, NEW c \in Callers(t)
  PROVE  LetIn(c) <=> SignedIn(c)
BY TokenFound DEF LetIn, SignedIn, Authenticated

\* A request through the Envoy adapter is decided by its policies.
LEMMA AdapterAccepts ==
  ASSUME NEW t \in Tables, NEW c \in Callers(t), c.kind = "adapter", LetIn(c),
         NEW q, q = toEngine(adapterRequest(c, TokenOf(c).claims))
  PROVE  /\ RolesOf(c) \in Seq(Values)
         /\ Decided(AdapterPolicies, q) <=> Accepted(c)
         /\ Reads(c) => (Decided(WithCorpNet(AdapterPolicies), q) <=> MayRead(c) /\ ~FromNetwork(c))
<1> DEFINE r == toEngine(adapterRequest(c, TokenOf(c).claims))
           v == sourceIP(c.source)
           roles == RolesOf(c)
<1>1. /\ PayloadKeys(c) # {} /\ TokenOf(c).claims # Malformed
  BY LetInMeans DEF SignedIn
<1>2. PICK k \in DOMAIN c.headers : TokenOf(c) = c.headers[k]
  <2>1. (CHOOSE k \in PayloadKeys(c) : TRUE) \in PayloadKeys(c)
    BY <1>1
  <2> QED
    BY <2>1 DEF TokenOf, PayloadKeys
<1>3. roles = enrichRoles(TokenOf(c).claims)
  BY DEF RolesOf, enrichRoles
<1>4. roles \in Seq(Values) /\ v \in Values /\ c.path \in Values
  <2>1. TokenOf(c).claims.groups \in Seq(Values) /\ v \in Values /\ c.path \in Values
    BY <1>1, <1>2, ShippedConstants
  <2>2. \A e \in DOMAIN demoClaimMap : demoClaimMap[e] \in Seq(Values)
    BY ShippedConstants
  <2>3. <<>> \in Seq(Values)
    OBVIOUS
  <2> QED
    BY <1>3, <2>1, <2>2, <2>3 DEF enrichRoles
<1>5. r = toEngine(httpbinRequest(c.method, roles, [x \in {"path"} |-> <<c.path>>], v))
  BY <1>3 DEF adapterRequest
<1>6. FromNetwork(c) <=> Inside(v)
  BY NetworkSeen
<1> HIDE DEF r, v, roles
<1>7. Seen(r, c.method, roles, v) /\ SeenPath(r, c.path)
  BY <1>4, <1>5, RequestSeen, PathSeen
<1>8. /\ Matches(staffRead, r) <=>
           actionForMethod(c.method) = "READ" /\ {"admin", "user"} \cap Elements(roles) # {}
      /\ Matches(denyBlocked, r) <=> actionForMethod(c.method) = "READ" /\ "blocked" \in Elements(roles)
      /\ Matches(denyCorpNet, r) <=> actionForMethod(c.method) = "READ" /\ FromNetwork(c)
  BY <1>4, <1>6, <1>7, ReadPolicies
<1>9. /\ Matches(adminWriteStandard, r) <=>
           /\ actionForMethod(c.method) = "WRITE"
           /\ c.path \in Pattern[standardPaths] /\ roles = <<"admin">>
      /\ Matches(financeWrite, r) <=>
           /\ actionForMethod(c.method) = "WRITE"
           /\ c.path \in Pattern[financePaths]
           /\ {"admin", "finance"} \subseteq Elements(roles)
  BY <1>4, <1>7, AdapterWritePolicies
<1>10. /\ Decided(AdapterPolicies, r) <=>
            /\ ~Matches(denyBlocked, r)
            /\ Matches(staffRead, r) \/ Matches(adminWriteStandard, r) \/ Matches(financeWrite, r)
       /\ Decided(WithCorpNet(AdapterPolicies), r) <=>
            Decided(AdapterPolicies, r) /\ ~Matches(denyCorpNet, r)
  BY AdapterDecides
<1>11. roles = RolesOf(c)
  BY DEF roles
<1>12. ASSUME Reads(c)
       PROVE  /\ Decided(AdapterPolicies, r) <=> MayRead(c)
              /\ Decided(WithCorpNet(AdapterPolicies), r) <=> MayRead(c) /\ ~FromNetwork(c)
  <2>1. actionForMethod(c.method) = "READ" /\ actionForMethod(c.method) # "WRITE"
    BY <1>12, MethodActions DEF Reads
  <2> QED
    BY <1>8, <1>9, <1>10, <1>11, <2>1 DEF MayRead
<1>13. ASSUME ~Reads(c)
       PROVE  Decided(AdapterPolicies, r) <=>
                \/ c.path \in Pattern[standardPaths] /\ roles = <<"admin">>
                \/ c.path \in Pattern[financePaths] /\ {"admin", "finance"} \subseteq Elements(roles)
  <2>1. actionForMethod(c.method) = "WRITE" /\ actionForMethod(c.method) # "READ"
    BY <1>13, MethodActions DEF Reads
  <2> QED
    BY <1>8, <1>9, <1>10, <2>1
<1>14. Decided(AdapterPolicies, r) <=> Accepted(c)
  BY <1>11, <1>12, <1>13 DEF Accepted
<1>15. q = r
  BY DEF r
<1> QED
  BY <1>4, <1>11, <1>12, <1>14, <1>15

--------------------------------------------------------------------------------
(* From the decision to the status *)

\* A caller is asked for only when let in, and a response is either the refusal of
\* one who was not, or what the engine answered.
StatusInv ==
  /\ pc \in {"listing", "evaluating", "answered"} => LetIn(caller)
  /\ pc = "answered" => resp.Reason # "none"
  /\ pc = "responded" =>
       \/ ~LetIn(caller) /\ status # 200
       \/ LetIn(caller) /\ resp.Reason # "none" /\ (status = 200 <=> resp.Allowed)

LEMMA InitStatusInv == PointInit => StatusInv
BY DEF PointInit, StatusInv

LEMMA NextStatusInv ==
  ASSUME VerdictInv, StatusInv, [PointNext]_pointVars
  PROVE  StatusInv'
<1>1. CASE UNCHANGED pointVars
  BY <1>1 DEF pointVars, vars, StatusInv
<1>2. CASE ServeHTTP \/ DirectCall \/ Check
  <2>1. LetIn(caller) /\ UNCHANGED caller /\ pc' = "listing"
    BY <1>2 DEF ServeHTTP, DirectCall, Check, Ask, LetIn
  <2> QED
    BY <2>1 DEF StatusInv
<1>3. CASE Unauthenticated
  <2>1. UNCHANGED caller /\ pc' = "responded" /\ status' = 401
    BY <1>3 DEF Unauthenticated, denyJSON
  <2>2. ~LetIn(caller)
    <3>1. \A x, y \in lookupHeader(caller.headers, payloadHeader) : x = y
      BY <1>3, HeadersUnambiguous DEF Unauthenticated, VerdictInv, DecisionInv, SnapshotIsStore, AnswerLasts
    <3> QED
      BY <1>3, <3>1 DEF Unauthenticated, LetIn
  <2> QED
    BY <2>1, <2>2 DEF StatusInv
<1>4. CASE Respond
  <2>1. /\ pc = "answered" /\ UNCHANGED <<caller, resp>> /\ pc' = "responded"
        /\ status' = IF resp.Allowed THEN 200 ELSE 403
    BY <1>4 DEF Respond, denyJSON
  <2>2. status' = 200 <=> resp.Allowed
    BY <2>1
  <2> QED
    BY <2>1, <2>2 DEF StatusInv
<1>5. CASE Repeat
  BY <1>5 DEF Repeat, StatusInv
<1>6. CASE ListActivePolicies /\ UNCHANGED <<caller, status>>
  BY <1>6 DEF ListActivePolicies, StatusInv
<1>7. CASE Evaluate /\ UNCHANGED <<caller, status>>
  BY <1>7, AnswerKinds DEF Evaluate, StatusInv
<1> QED
  BY <1>1, <1>2, <1>3, <1>4, <1>5, <1>6, <1>7 DEF PointNext, Decide

\* How the status comes from the policies: of the caller's own directory, with or
\* without the policy of the README.
LEMMA StatusMeans ==
  ASSUME VerdictInv, StatusInv, pc = "responded"
  PROVE  /\ Deployed(caller, tables) =>
              /\ SignedIn(caller) => RolesOf(caller) \in Seq(Values)
              /\ status = 200 <=> SignedIn(caller) /\ Accepted(caller)
         /\ DeployedWithCorpNet(caller, tables) /\ Reads(caller) =>
              (status = 200 <=> SignedIn(caller) /\ MayRead(caller) /\ ~FromNetwork(caller))
<1>1. tables \in Tables /\ caller \in Callers(tables)
  BY DEF VerdictInv, DecisionInv, SnapshotIsStore, AnswerLasts
<1>2. LetIn(caller) <=> SignedIn(caller)
  BY <1>1, LetInMeans
<1>3. CASE ~LetIn(caller)
  BY <1>2, <1>3 DEF StatusInv
<1>4. CASE LetIn(caller)
  <2>1. resp.Reason # "none" /\ (status = 200 <=> resp.Allowed)
    BY <1>4 DEF StatusInv
  <2>2. AskedFor(caller, req) /\ (resp.Allowed <=> Decided(tables, req))
    BY <2>1 DEF VerdictInv, AnswerLasts, Right, Decided
  <2>3. ASSUME caller.kind = "pep"
        PROVE  /\ RolesOf(caller) \in Seq(Values)
               /\ Decided(PepPolicies, req) <=> Accepted(caller)
               /\ Reads(caller) => (Decided(WithCorpNet(PepPolicies), req) <=>
                                      MayRead(caller) /\ ~FromNetwork(caller))
    <3>1. req = toEngine(pepRequest(caller))
      BY <2>2, <2>3 DEF AskedFor
    <3> QED
      BY <1>1, <2>3, <3>1, PepAccepts
  <2>4. ASSUME caller.kind = "adapter"
        PROVE  /\ RolesOf(caller) \in Seq(Values)
               /\ Decided(AdapterPolicies, req) <=> Accepted(caller)
               /\ Reads(caller) => (Decided(WithCorpNet(AdapterPolicies), req) <=>
                                      MayRead(caller) /\ ~FromNetwork(caller))
    <3>1. PICK raw \in lookupHeader(caller.headers, payloadHeader) :
            req = toEngine(adapterRequest(caller, raw.claims))
      BY <2>2, <2>4 DEF AskedFor
    <3>2. raw = TokenOf(caller)
      BY <1>1, <2>4, <3>1, TokenFound
    <3> QED
      BY <1>1, <1>4, <2>4, <3>1, <3>2, AdapterAccepts
  <2>5. ASSUME Deployed(caller, tables)
        PROVE  /\ RolesOf(caller) \in Seq(Values)
               /\ status = 200 <=> Accepted(caller)
    BY <2>1, <2>2, <2>3, <2>4, <2>5 DEF Deployed
  <2>6. ASSUME DeployedWithCorpNet(caller, tables), Reads(caller)
        PROVE  status = 200 <=> MayRead(caller) /\ ~FromNetwork(caller)
    BY <2>1, <2>2, <2>3, <2>4, <2>6 DEF DeployedWithCorpNet
  <2> QED
    BY <1>2, <1>4, <2>5, <2>6
<1> QED
  BY <1>3, <1>4

LEMMA ShippedInv == PointSpec => [](VerdictInv /\ StatusInv)
<1>1. PointInit => VerdictInv /\ StatusInv
  BY InitVerdictInv, InitStatusInv
<1>2. VerdictInv /\ StatusInv /\ [PointNext]_pointVars => (VerdictInv /\ StatusInv)'
  BY NextVerdictInv, NextStatusInv
<1> QED
  BY <1>1, <1>2, PTL DEF PointSpec

\* For both examples and whatever roles, token, claim map, path, method and address
\* a request has: it is forwarded only when the descriptions of the policies say
\* so, and always then, but for writes whose only role, admin, is listed more than
\* once.  Blocked principals never read, only a role set of exactly [admin] writes
\* to the standard endpoints, only admin and finance together under
\* /anything/finance/ (extractClaims, enrichRoles and Check of
\* examples/envoy-jwt/extauthz/main.go, the handler of
\* examples/httpbin/pep/main.go, the policy files of both, and the engine in
\* between).
THEOREM PoliciesAsDescribed == PointSpec => []ShippedAsDescribed
<1>1. VerdictInv /\ StatusInv => ShippedAsDescribed
  BY StatusMeans, AcceptedMeans DEF ShippedAsDescribed
<1> QED
  BY <1>1, ShippedInv, PTL

\* With the policy of examples/httpbin/README.md added, a read through either
\* enforcement point is refused exactly from inside the network, as the note there
\* says: by the peer's host without its port (clientIP), by the address Envoy
\* reports (sourceIP), and not when there is none.
THEOREM CorpNetDenied == PointSpec => []CorpNetAsNoted
<1>1. VerdictInv /\ StatusInv => CorpNetAsNoted
  BY StatusMeans DEF CorpNetAsNoted
<1> QED
  BY <1>1, ShippedInv, PTL
================================================================================

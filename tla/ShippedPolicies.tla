---------------------------- MODULE ShippedPolicies ----------------------------
(***************************************************************************)
(* The policies shipped with the two examples                              *)
(* (examples/httpbin/policies, examples/envoy-jwt/policies) and the one    *)
(* examples/httpbin/README.md suggests to add, as they are after Compile,  *)
(* and what is said of them, for callers with any roles, token, path and   *)
(* address.                                                                *)
(***************************************************************************)
EXTENDS EnforcementPoint

attr(p, k)     == [found |-> TRUE, prefix |-> p, key |-> k]
cond(a, o, v)  == [attribute |-> a, operator |-> o, value |-> v, CompiledRegex |-> NilRegex]
policy(i, a, c) ==
  Compile([id |-> i, target |-> [resource_type |-> "httpbin", action |-> a], conditions |-> c])

role(o, v) == cond(attr("principal", "role"), o, v)
path(v)    == cond(attr("resource", "path"), "REGEX", <<v>>)
ip(v)      == cond(attr("environment", "ip_address"), "IN_CIDR", v)

standardPaths == "^/(post|put|patch|delete)$"
financePaths  == "^/anything/finance/"
network       == "10.0.0.0/8"

staffRead    == policy("pol-allow-staff-read", "READ", <<role("CONTAINS_ANY", <<"admin", "user">>)>>)
denyBlocked  == policy("pol-deny-blocked-read", "READ", <<role("CONTAINS_ANY", <<"blocked">>)>>)
adminWrite   == policy("pol-allow-admin-write", "WRITE", <<role("EQUALS", <<"admin">>)>>)
adminWriteStandard ==
  policy("pol-allow-admin-write", "WRITE",
         <<path(standardPaths), role("EQUALS", <<"admin">>)>>)
financeWrite ==
  policy("pol-allow-finance-write", "WRITE",
         <<path(financePaths), role("CONTAINS_ALL", <<"admin", "finance">>)>>)
\* The policy the httpbin README suggests to add.
denyCorpNet  == policy("pol-deny-corp-net", "READ", <<ip(<<network>>)>>)

\* The directories of the two examples, and one with the suggestion added.
PepPolicies     == [allow |-> {staffRead, adminWrite}, deny |-> {denyBlocked}]
AdapterPolicies == [allow |-> {staffRead, adminWriteStandard, financeWrite}, deny |-> {denyBlocked}]
WithCorpNet(t)  == [allow |-> t.allow, deny |-> t.deny \cup {denyCorpNet}]

\* Is v an address of the network?
Inside(v) == Address[v] # Malformed /\ Contains(Prefix[network], Address[v])

\* The two patterns compile, and the network parses and leaves out 0.0.0.0; a nil
\* *AttributeValues is no slice, and what callers send are slices of strings.
ASSUME ShippedConstants ==
  /\ {standardPaths, financePaths, network} \subseteq Values
  /\ Pattern[standardPaths] \notin {Malformed, NilRegex}
  /\ Pattern[financePaths] \notin {Malformed, NilRegex}
  /\ Prefix[network] # Malformed
  /\ "0.0.0.0" \in Values /\ ~Inside("0.0.0.0")
  /\ NilValues \notin Seq(Values)
  /\ \A e \in DOMAIN demoClaimMap : demoClaimMap[e] \in Seq(Values)
  /\ \A t \in Tables : \A c \in Callers(t) :
       /\ c.kind = "pep" => c.roles \in Seq(Values) /\ clientIP(c.remote) \in Values
       /\ c.kind = "adapter" =>
            /\ c.path \in Values /\ sourceIP(c.source) \in Values
            /\ \A k \in DOMAIN c.headers :
                 c.headers[k].claims # Malformed => c.headers[k].claims.groups \in Seq(Values)

--------------------------------------------------------------------------------
(* Properties *)

\* The names the payload header goes by in the headers of c.
PayloadKeys(c) == {k \in DOMAIN c.headers : Fold[k] = Fold[payloadHeader]}

\* The token the adapter goes by: the exact header, or else the only other one.
TokenOf(c) ==
  c.headers[IF payloadHeader \in PayloadKeys(c) THEN payloadHeader ELSE CHOOSE k \in PayloadKeys(c) : TRUE]

SignedIn(c) ==
  c.kind = "adapter" =>
    /\ PayloadKeys(c) # {}
    /\ TokenOf(c).encoding \in {"raw", "padded"}
    /\ TokenOf(c).claims # Malformed
    /\ TokenOf(c).claims.sub # Empty

\* The roles the descriptions of the policies speak of, as a slice: those of the
\* token, or those the claim map has under its email in any case.
RolesOf(c) ==
  IF c.kind = "pep" THEN c.roles
  ELSE LET t == TokenOf(c).claims IN
       IF t.groups # <<>> THEN t.groups
       ELSE IF \E e \in DOMAIN demoClaimMap : Fold[t.email] = e THEN demoClaimMap[Fold[t.email]]
       ELSE <<>>

\* By the host of the peer, or the address Envoy reports; without one, no.
FromNetwork(c) ==
  IF c.kind = "pep"
  THEN Inside(IF HostOf[c.remote] = Malformed THEN c.remote ELSE HostOf[c.remote])
  ELSE c.source # Empty /\ Inside(c.source)

Reads(c) == Fold[c.method] \in {"GET", "HEAD", "OPTIONS"}

\* "principal.role contains 'admin' or 'user'", and not for "any principal whose
\* roles include 'blocked'".
MayRead(c) ==
  /\ {"admin", "user"} \cap Elements(RolesOf(c)) # {}
  /\ "blocked" \notin Elements(RolesOf(c))

\* "principals whose role set is exactly ['admin']", behind Envoy on the standard
\* endpoints only; there, "principals who hold BOTH 'admin' and 'finance'" write
\* under /anything/finance/.
MayWrite(c) ==
  \/ /\ Elements(RolesOf(c)) = {"admin"}
     /\ c.kind = "adapter" => c.path \in Pattern[standardPaths]
  \/ /\ c.kind = "adapter"
     /\ c.path \in Pattern[financePaths]
     /\ {"admin", "finance"} \subseteq Elements(RolesOf(c))

Described(c) == IF Reads(c) THEN MayRead(c) ELSE MayWrite(c)

\* The caller's enforcement point runs with the policies of its own directory.
Deployed(c, t) ==
  \/ c.kind = "pep" /\ t = PepPolicies
  \/ c.kind = "adapter" /\ t = AdapterPolicies

DeployedWithCorpNet(c, t) ==
  \/ c.kind = "pep" /\ t = WithCorpNet(PepPolicies)
  \/ c.kind = "adapter" /\ t = WithCorpNet(AdapterPolicies)

\* A write of somebody whose role set is exactly ['admin'], sent as a longer list.
AdminRepeated(c) == ~Reads(c) /\ Elements(RolesOf(c)) = {"admin"} /\ Len(RolesOf(c)) > 1

\* The shipped policies against the "description" of each, from the HTTP request
\* to the status.  Nobody gets more than the descriptions say: a blocked principal
\* never reads, also with a staff role; groups of a token are not mixed with the
\* claim map; a request without a usable token goes nowhere.  And everybody gets
\* all of it, with one exception, where the code disagrees with the description:
\* EQUALS counts, and refuses the writes of [admin, admin], whose "role set is
\* exactly ['admin']".
ShippedAsDescribed ==
  pc = "responded" /\ Deployed(caller, tables) =>
    /\ status = 200 => SignedIn(caller) /\ Described(caller)
    /\ SignedIn(caller) /\ Described(caller) => status = 200 \/ AdminRepeated(caller)

\* With the policy of the httpbin README added, a read is forwarded exactly when it
\* was before and does not come from inside the network, by the address the
\* enforcement point found: "this denies IPs **inside** 10.0.0.0/8", as the note
\* under the policy says.  (Its "description" says the opposite, "Deny READ from
\* outside the 10.0.0.0/8 corporate network".)
CorpNetAsNoted ==
  pc = "responded" /\ DeployedWithCorpNet(caller, tables) /\ Reads(caller) =>
    (status = 200 <=> SignedIn(caller) /\ MayRead(caller) /\ ~FromNetwork(caller))
================================================================================

---------------------------- MODULE EnforcementPoint ----------------------------
(***************************************************************************)
(* From a client's request to the decision and back: how the two           *)
(* enforcement points turn an HTTP request into a CheckAccessRequest       *)
(* (examples/httpbin/pep/main.go, examples/envoy-jwt/extauthz/main.go),    *)
(* how the server maps it for the engine (internal/server/grpc.go), and    *)
(* what comes back.  A third kind of caller speaks gRPC itself.            *)
(*                                                                         *)
(* The caller is one of                                                    *)
(*   [kind = "pep", method, roles, remote]        roles: X-Role values     *)
(*   [kind = "adapter", method, path, headers, source]                     *)
(*   [kind = "direct", request]                                            *)
(* A header value is [encoding, claims]: how the JWT payload is encoded    *)
(* and the claims [sub, email, groups] it decodes to, Malformed if it is   *)
(* not JSON of them.  Empty is the empty string.  The principal's id goes  *)
(* to the audit record only; no condition can refer to it.                 *)
(***************************************************************************)
EXTENDS Engine

CONSTANTS
  Callers(_),     \* who may ask, given the contents of the store
  Fold,           \* string -> the string in the case Go compares it in
  HostOf,         \* RemoteAddr -> its host, or Malformed (net.SplitHostPort)
  payloadHeader,  \* name of the header with the verified payload
  demoClaimMap,   \* email -> roles
  NilValues,      \* a nil *AttributeValues
  Empty, NoRequest

VARIABLES
  caller,  \* the request as its sender made it
  status   \* what the sender got: 200 when forwarded, 0 when not answered yet

pointVars == <<vars, caller, status>>

--------------------------------------------------------------------------------
(* The request the engine sees *)

Attributes(p, r, e) == [principal |-> p, resource |-> r, environment |-> e]
NoAttributes == [k \in {} |-> <<>>]

\* mapAttributes: entries without a value are left out.
mapAttributes(protoAttrs) ==
  [k \in {k \in DOMAIN protoAttrs : protoAttrs[k] # NilValues} |-> protoAttrs[k]]

toEngine(r) == [r EXCEPT !.attributes = [p \in Prefixes |-> mapAttributes(@[p])]]

actionForMethod(method) == IF Fold[method] \in {"GET", "HEAD", "OPTIONS"} THEN "READ" ELSE "WRITE"

\* What both enforcement points send.
httpbinRequest(method, roles, resource, ip) ==
  [resource_type |-> "httpbin",
   action        |-> actionForMethod(method),
   attributes    |-> Attributes([k \in {"role"} |-> roles], resource, [k \in {"ip_address"} |-> <<ip>>])]

--------------------------------------------------------------------------------
(* The httpbin enforcement point *)

\* Mutant: the port is left on.
clientIPWithPort(remote) == remote

\* RemoteAddr without its port, or as it is when it cannot be split.
clientIP(remote) == IF HostOf[remote] = Malformed THEN remote ELSE HostOf[remote]

pepRequest(c) == httpbinRequest(c.method, c.roles, NoAttributes, clientIP(c.remote))

--------------------------------------------------------------------------------
(* The Envoy adapter *)

\* The exact name first; else any entry that differs in case only, as the map is
\* ranged over.
lookupHeader(headers, key) ==
  IF key \in DOMAIN headers THEN {headers[key]}
  ELSE {headers[k] : k \in {k \in DOMAIN headers : Fold[k] = Fold[key]}}

\* "Envoy lowercases all header keys": whatever order the map is ranged in, the
\* payload found is the same.
ASSUME HeadersUnambiguous ==
  \A t \in Tables : \A c \in Callers(t) :
    c.kind = "adapter" => \A x, y \in lookupHeader(c.headers, payloadHeader) : x = y

Authenticated(raw) ==
  /\ raw.encoding \in {"raw", "padded"}   \* RawURLEncoding, then URLEncoding
  /\ raw.claims # Malformed
  /\ raw.claims.sub # Empty

\* Mutant: the claim map has the last word.
enrichRolesMapFirst(c) ==
  IF Fold[c.email] \in DOMAIN demoClaimMap THEN demoClaimMap[Fold[c.email]] ELSE c.groups

\* The groups of the token, or else the roles the claim map has for its email.
enrichRoles(c) ==
  IF c.groups # <<>> THEN c.groups
  ELSE IF Fold[c.email] \in DOMAIN demoClaimMap THEN demoClaimMap[Fold[c.email]]
  ELSE <<>>

sourceIP(addr) == IF addr = Empty THEN "0.0.0.0" ELSE addr

adapterRequest(c, claims) ==
  httpbinRequest(c.method, enrichRoles(claims), [k \in {"path"} |-> <<c.path>>], sourceIP(c.source))

--------------------------------------------------------------------------------
(* Steps *)

PointInit ==
  /\ tables \in Tables
  /\ caller \in Callers(tables)
  /\ req = NoRequest
  /\ snapshot = [allow |-> <<>>, deny |-> <<>>]
  /\ pc = "received"
  /\ resp = NoResponse
  /\ status = 0

Ask(r) ==
  /\ pc = "received"
  /\ req' = toEngine(r)
  /\ pc' = "listing"
  /\ UNCHANGED <<tables, snapshot, resp, caller, status>>

ServeHTTP   == caller.kind = "pep" /\ Ask(pepRequest(caller))
DirectCall  == caller.kind = "direct" /\ Ask(caller.request)

\* The adapter asks for the claims it can read ...
Check ==
  /\ caller.kind = "adapter"
  /\ \E raw \in lookupHeader(caller.headers, payloadHeader) :
       Authenticated(raw) /\ Ask(adapterRequest(caller, raw.claims))

\* denyJSON: the status in Envoy's terms.
denyJSON(code) == status' = IF code \in {401, 403, 503} THEN code ELSE 403

\* ... and turns everybody else away.
Unauthenticated ==
  /\ caller.kind = "adapter"
  /\ pc = "received"
  /\ LET found == lookupHeader(caller.headers, payloadHeader)
     IN  found = {} \/ \E raw \in found : ~Authenticated(raw)
  /\ denyJSON(401)
  /\ pc' = "responded"
  /\ UNCHANGED <<tables, req, snapshot, resp, caller>>

\* The engine's answer: forwarded, or refused.
Respond ==
  /\ pc = "answered"
  /\ IF resp.Allowed THEN status' = 200 ELSE denyJSON(403)
  /\ pc' = "responded"
  /\ UNCHANGED <<tables, req, snapshot, resp, caller>>

\* The same request comes again.
Repeat ==
  /\ pc = "responded"
  /\ pc' = "received"
  /\ snapshot' = [allow |-> <<>>, deny |-> <<>>]
  /\ status' = 0
  /\ UNCHANGED <<tables, req, resp, caller>>

Decide == (ListActivePolicies \/ Evaluate) /\ UNCHANGED <<caller, status>>

PointNext ==
  ServeHTTP \/ DirectCall \/ Check \/ Unauthenticated \/ Decide \/ Respond \/ Repeat

PointSpec == PointInit /\ [][PointNext]_pointVars

--------------------------------------------------------------------------------
(* Properties *)

\* extauthz/main.go says of an absent source address that "the IN_CIDR operator
\* then simply won't match, which is fail-safe".
AbsentSourceNeverMatches ==
  pc = "answered" /\ caller.kind = "adapter" /\ caller.source = Empty =>
    \A p \in tables.allow \cup tables.deny : \A i \in DOMAIN p.conditions :
      p.conditions[i].operator = "IN_CIDR" => ~EvaluateCondition(p.conditions[i], req)
================================================================================

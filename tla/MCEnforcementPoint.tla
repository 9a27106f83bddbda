--------------------------- MODULE MCEnforcementPoint ---------------------------
(***************************************************************************)
(* Model-checking instances of EnforcementPoint: corner-case policies and  *)
(* requests sent straight to the engine, and the policies shipped with the *)
(* two examples behind their enforcement points.                           *)
(***************************************************************************)
EXTENDS ShippedPolicies, FiniteSetsExt

Addresses4 == [h \in {"10.0.0.5", "203.0.113.1", "0.0.0.0"} |->
                 [family |-> 4, zone |-> FALSE,
                  host |-> CASE h = "10.0.0.5" -> 5 [] h = "203.0.113.1" -> 1 [] OTHER -> 0]]
linkLocal  == "fe80::5%eth0"
Roles      == {"admin", "user", "finance", "blocked"}
Paths      == {"/get", "/post", "/post?a=b", "/anything/finance/budget"}

\* An address without a port is not split.
MCHostOf == [r \in {"10.0.0.5:4711", "203.0.113.1:4711", "10.0.0.5", "[fe80::5%eth0]:4711"} |->
               CASE r = "10.0.0.5:4711" -> "10.0.0.5" [] r = "203.0.113.1:4711" -> "203.0.113.1"
                 [] r = "[fe80::5%eth0]:4711" -> linkLocal [] OTHER -> Malformed]

\* Strings that are compared literally stand for themselves.
MCValues  == Roles \cup Paths \cup DOMAIN Addresses4
               \cup DOMAIN MCHostOf \cup {linkLocal, "10.0.0.0/8", "0.0.0.0/0", "^/(post|put|patch|delete)$", "^/anything/finance/", ".*"}
MCNumber  == [v \in MCValues |-> Malformed]
MCAddress == [v \in MCValues |->
                IF v \in DOMAIN Addresses4 THEN Addresses4[v]
                ELSE IF v = linkLocal THEN [family |-> 6, host |-> 5, zone |-> TRUE]
                ELSE Malformed]
\* Addresses have three bits here; 10.0.0.0/8 is the upper half of them.
MCPrefix  == [v \in MCValues |->
                CASE v = "10.0.0.0/8" -> [family |-> 4, host |-> 4, bits |-> 1]
                  [] v = "0.0.0.0/0"  -> [family |-> 4, host |-> 0, bits |-> 0]
                  [] OTHER            -> Malformed]
MCPattern == [v \in MCValues |->
                CASE v = "^/(post|put|patch|delete)$" -> {"/post"}
                  [] v = "^/anything/finance/"        -> {"/anything/finance/budget"}
                  [] v = ".*"                         -> Roles
                  [] OTHER                            -> Malformed]
MCWidth   == [f \in {4, 6} |-> 3]

MCFold == [s \in {"GET", "get", "POST", "x-jwt-payload", "X-Jwt-Payload",
                  "alice@bouncer.dev", "Alice@Bouncer.dev", "bob@bouncer.dev", "carol@bouncer.dev",
                  "mallory@bouncer.dev", "eve@example.org", Empty} |->
             CASE s = "get" -> "GET" [] s = "X-Jwt-Payload" -> "x-jwt-payload"
               [] s = "Alice@Bouncer.dev" -> "alice@bouncer.dev" [] OTHER -> s]
MCClaimMap == [e \in {"alice@bouncer.dev", "bob@bouncer.dev", "carol@bouncer.dev", "mallory@bouncer.dev"} |->
                 CASE e = "alice@bouncer.dev" -> <<"admin">>
                   [] e = "bob@bouncer.dev"   -> <<"user">>
                   [] e = "carol@bouncer.dev" -> <<"admin", "finance">>
                   [] OTHER                   -> <<"blocked">>]

--------------------------------------------------------------------------------
(* Corner cases, asked for directly *)

noDot == [role("EQUALS", <<"admin">>) EXCEPT !.attribute.found = FALSE]

Policies ==
  { policy("any-role", "READ", <<role("REGEX", <<".*">>)>>),
    policy("admin-office", "READ", <<role("EQUALS", <<"admin">>), ip(<<".*", "10.0.0.0/8">>)>>),
    policy("unconditional", "READ", <<>>),
    policy("write", "WRITE", <<role("EQUALS", <<"admin">>)>>),
    policy("no-pattern", "READ", <<role("REGEX", <<>>)>>),
    policy("no-dot", "READ", <<noDot>>) }

\* Up to two policies on a side, none on both.
UpToTwo == UNION {kSubset(n, Policies) : n \in 0 .. 2}
CornerTables ==
  {[allow |-> x[1], deny |-> x[2]] : x \in {x \in UpToTwo \X UpToTwo : x[1] \cap x[2] = {}}}

direct(a, p, e) ==
  [kind |-> "direct",
   request |-> [resource_type |-> "httpbin", action |-> a, attributes |-> Attributes(p, NoAttributes, e)]]

DirectCallers ==
  {direct(a, [k \in {"role"} |-> r], [k \in {"ip_address"} |-> <<i>>]) :
     a \in {"READ", "WRITE"}, r \in {<<"admin">>, <<"user">>, <<"admin", "user">>, <<>>, NilValues},
     i \in {"10.0.0.5", "203.0.113.1", ".*"}}
  \cup {direct("READ", NoAttributes, NoAttributes)}

--------------------------------------------------------------------------------
(* Those who ask the shipped policies *)

RoleLists == UNION {[1 .. n -> Roles] : n \in 0 .. 2}
               \cup {<<"finance", "admin", "user">>, <<"admin", "admin", "finance">>}

PepCallers ==
  {[kind |-> "pep", method |-> m, roles |-> r, remote |-> a] :
     m \in {"GET", "get", "POST"}, r \in RoleLists, a \in DOMAIN MCHostOf}

\* Tokens with groups, tokens without, and what is not a usable token.
claims(s, e, g) == [sub |-> s, email |-> e, groups |-> g]
Tokens ==
  {[encoding |-> "raw", claims |-> claims("u", "alice@bouncer.dev", g)] : g \in RoleLists}
  \cup {[encoding |-> "padded", claims |-> claims("u", e, <<>>)] :
          e \in {"Alice@Bouncer.dev", "bob@bouncer.dev", "carol@bouncer.dev", "mallory@bouncer.dev",
                 "eve@example.org", Empty}}
  \cup {[encoding |-> "raw", claims |-> claims(Empty, "alice@bouncer.dev", <<"admin">>)],
        [encoding |-> "raw", claims |-> Malformed],
        [encoding |-> "other", claims |-> claims("u", "alice@bouncer.dev", <<>>)]}
unusable == [encoding |-> "raw", claims |-> Malformed]
Headers ==
  {[k \in {"x-jwt-payload"} |-> t] : t \in Tokens}
  \cup {[k \in {"X-Jwt-Payload"} |-> t] : t \in Tokens}
  \cup {[k \in {"x-jwt-payload", "X-Jwt-Payload"} |-> IF k = "x-jwt-payload" THEN t ELSE unusable] : t \in Tokens}
  \cup {[k \in {} |-> unusable]}

AdapterCallers ==
  {[kind |-> "adapter", method |-> m, path |-> p, headers |-> h, source |-> a] :
     m \in {"get", "POST"}, p \in Paths, h \in Headers, a \in {"10.0.0.5", "203.0.113.1", Empty}}

PepTables     == {PepPolicies, WithCorpNet(PepPolicies)}
AdapterTables == {AdapterPolicies, WithCorpNet(AdapterPolicies)}

MCTables     == CornerTables \cup PepTables \cup AdapterTables
MCCallers(t) == IF t \in PepTables THEN PepCallers
                ELSE IF t \in AdapterTables THEN AdapterCallers ELSE DirectCallers

\* A network policy that covers every address, and a caller without an address.
NetworkTables     == {[allow |-> {policy("pol-allow-network", "READ", <<ip(<<n>>)>>)}, deny |-> {}] :
                        n \in {"10.0.0.0/8", "0.0.0.0/0"}}
NoSourceCallers(t) == {[c EXCEPT !.source = Empty] : c \in AdapterCallers}
================================================================================

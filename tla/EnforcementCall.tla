----------------------------- MODULE EnforcementCall -----------------------------
(***************************************************************************)
(* Enforcement points waiting for AuthzServer: every CheckAccess they make *)
(* has a deadline of two seconds and races the handler, which knows        *)
(* nothing of it.  A PEP request is served by examples/httpbin/pep/main.go *)
(* itself.  An Envoy request waits in Envoy for Check of                   *)
(* examples/envoy-jwt/extauthz/main.go, with a deadline of Envoy's own, and *)
(* the adapter may be told to stop meanwhile.  What the request asks, and  *)
(* the requests the adapter rejects without a call, are the subject of     *)
(* EnforcementPoint.                                                       *)
(***************************************************************************)
EXTENDS AuthzServer

CONSTANTS PepRequests, EnvoyRequests

Requests == PepRequests \cup EnvoyRequests

ASSUME CallConstants == PepRequests \cap EnvoyRequests = {}

VARIABLES
  front,    \* per request, what its sender got: "idle", "waiting", "forwarded",
            \*   "refused" (403), "unavailable" (503)
  point,    \* per request, the enforcement point's CheckAccess: "none", "calling",
            \*   "allow", "deny", "failed"
  callOf,   \* per request, the server's call for it
  adapter   \* "serving", "stopping", "stopped"

pointVars == <<front, point, callOf, adapter>>
callVars  == <<vars, pointVars>>

CallInit ==
  /\ Init
  /\ front   = [r \in Requests |-> "idle"]
  /\ point   = [r \in Requests |-> "none"]
  /\ callOf  = [r \in Requests |-> None]
  /\ adapter = "serving"

\* An HTTP request arrives; the PEP's handler calls the engine.
ServeHTTP(r) ==
  /\ r \in PepRequests
  /\ front[r] = "idle"
  /\ front' = [front EXCEPT ![r] = "waiting"]
  /\ point' = [point EXCEPT ![r] = "calling"]
  /\ UNCHANGED <<vars, callOf, adapter>>

\* An HTTP request arrives at Envoy, which asks the adapter.
EnvoyAsks(r) ==
  /\ r \in EnvoyRequests
  /\ front[r] = "idle"
  /\ front' = [front EXCEPT ![r] = "waiting"]
  /\ UNCHANGED <<vars, point, callOf, adapter>>

\* The adapter's Check calls the engine; Envoy may have given up by then.  A
\* server that is stopping accepts no Check.
Check(r) ==
  /\ r \in EnvoyRequests
  /\ front[r] # "idle"
  /\ point[r] = "none"
  /\ adapter = "serving"
  /\ point' = [point EXCEPT ![r] = "calling"]
  /\ UNCHANGED <<vars, front, callOf, adapter>>

\* The call reaches a handler, perhaps after the caller has given up.
Deliver(r, h) ==
  /\ point[r] \in {"calling", "failed"}
  /\ callOf[r] = None
  /\ Receive(h)
  /\ callOf' = [callOf EXCEPT ![r] = calls + 1]
  /\ UNCHANGED <<front, point, adapter>>

\* The handler and the interceptor are done with the call.
Returned(c) ==
  /\ c # None
  /\ verdict[c] # None
  /\ \A h \in Handlers : handler[h].call # c

\* The answer is there in time.  An engine error is an error of CheckAccess too.
CheckAccessReturns(r) ==
  /\ point[r] = "calling"
  /\ Returned(callOf[r])
  /\ point' = [point EXCEPT ![r] = IF verdict[callOf[r]] = "error" THEN "failed"
                                   ELSE verdict[callOf[r]]]
  /\ UNCHANGED <<vars, front, callOf, adapter>>

\* Mutant: a time-out lets the request through.
CheckAccessFailsOpen(r) ==
  /\ point[r] = "calling"
  /\ point' = [point EXCEPT ![r] = "allow"]
  /\ UNCHANGED <<vars, front, callOf, adapter>>

\* Mutant: no deadline; only a broken connection is noticed.
CheckAccessFailsNoDeadline(r) ==
  /\ point[r] = "calling"
  /\ serving = "exited"
  /\ point' = [point EXCEPT ![r] = "failed"]
  /\ UNCHANGED <<vars, front, callOf, adapter>>

\* The deadline passes, the connection breaks, or the sender is gone; whatever
\* comes later is discarded.
CheckAccessFails(r) ==
  /\ point[r] = "calling"
  /\ point' = [point EXCEPT ![r] = "failed"]
  /\ UNCHANGED <<vars, front, callOf, adapter>>

\* The request is proxied, or answered with 403 or 503.  Envoy takes the
\* adapter's word only while it still waits.
Reply(r) ==
  /\ front[r] = "waiting"
  /\ point[r] \in {"allow", "deny", "failed"}
  /\ front' = [front EXCEPT ![r] = CASE point[r] = "allow"  -> "forwarded"
                                     [] point[r] = "deny"   -> "refused"
                                     [] point[r] = "failed" -> "unavailable"]
  /\ UNCHANGED <<vars, point, callOf, adapter>>

\* Envoy's deadline for Check, or no adapter: failure_mode_allow is false.
EnvoyFails(r) ==
  /\ r \in EnvoyRequests
  /\ front[r] = "waiting"
  /\ front' = [front EXCEPT ![r] = "unavailable"]
  /\ UNCHANGED <<vars, point, callOf, adapter>>

\* SIGTERM: grpcSrv.GracefulStop.
AdapterStops ==
  /\ adapter = "serving"
  /\ adapter' = "stopping"
  /\ UNCHANGED <<vars, front, point, callOf>>

\* It returns when no Check is running.
AdapterStopped ==
  /\ adapter = "stopping"
  /\ \A r \in EnvoyRequests : point[r] # "calling"
  /\ adapter' = "stopped"
  /\ UNCHANGED <<vars, front, point, callOf>>

ServerStep ==
  /\ \/ \E h \in Handlers : HandlerStep(h)
     \/ \E w \in Workers : WorkerStep(w)
     \/ GracefulStop \/ StopAudit \/ StopReturns \/ ServeFails
  /\ UNCHANGED pointVars

PointStep(r) ==
  \/ ServeHTTP(r) \/ EnvoyAsks(r) \/ Check(r)
  \/ \E h \in Handlers : Deliver(r, h)
  \/ CheckAccessReturns(r) \/ CheckAccessFails(r) \/ Reply(r) \/ EnvoyFails(r)

CallNext ==
  \/ ServerStep
  \/ \E r \in Requests : PointStep(r)
  \/ AdapterStops \/ AdapterStopped

\* Deadlines pass and goroutines that can run do.  The server need not be there.
CallFairness ==
  /\ Fairness
  /\ \A r \in Requests : /\ WF_callVars(CheckAccessFails(r)) /\ WF_callVars(Reply(r))
                         /\ WF_callVars(EnvoyFails(r))
  /\ WF_callVars(AdapterStopped)

CallSpec == CallInit /\ [][CallNext]_callVars /\ CallFairness

--------------------------------------------------------------------------------
(* Properties *)

Forwarded == {r \in Requests : front[r] = "forwarded"}

\* Whatever times out, is delivered late, is discarded or exits: a request that
\* is forwarded was allowed by the engine in the call made for that very request,
\* its audit record is in exactly one place, and the counter knows of it.
ForwardedIsAudited ==
  /\ \A r \in Forwarded :
       /\ callOf[r] # None
       /\ verdict[callOf[r]] = "allow"
       /\ Places(callOf[r]) = 1
       /\ \A s \in Requests : callOf[s] = callOf[r] => s = r
  /\ Cardinality(Forwarded) <= counter["allow"]

\* Every request is answered, also when the server drains, exits or never
\* handles the call, and when the adapter stops.
EveryRequestAnswered ==
  \A r \in Requests : front[r] = "waiting" ~> front[r] \notin {"idle", "waiting"}

\* The adapter's GracefulStop comes to an end: no Check waits for ever, not even
\* on an engine that is gone.
AdapterStopCompletes == adapter = "stopping" ~> adapter = "stopped"
================================================================================

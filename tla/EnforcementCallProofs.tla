------------------------- MODULE EnforcementCallProofs -------------------------
(***************************************************************************)
(* Proofs about EnforcementCall: the enforcement points leave the server's *)
(* guarantees alone, and what they forward has been decided and audited,   *)
(* for any number of requests, handlers, workers and calls.                *)
(***************************************************************************)
EXTENDS EnforcementCall, AuthzServerProofs

\* Every request has a call of its own, one that the server has received.
CallsApart ==
  /\ \A r \in Requests : callOf[r] # None => callOf[r] \in 1 .. calls
  /\ \A r, s \in Requests : callOf[r] = callOf[s] /\ callOf[r] # None => r = s

\* An enforcement point that goes by "allow" has it from the call of the request,
\* which is over; only such a request is forwarded.
AllowIsAnswer ==
  \A r \in Requests :
    /\ point[r] = "allow" => Returned(callOf[r]) /\ verdict[callOf[r]] = "allow"
    /\ front[r] = "forwarded" => point[r] = "allow"

PointTypes ==
  /\ front \in [Requests -> {"idle", "waiting", "forwarded", "refused", "unavailable"}]
  /\ point \in [Requests -> {"none", "calling", "allow", "deny", "failed"}]
  /\ callOf \in [Requests -> Call \cup {None}]

CallInv == AuditInv /\ CountersMatchDecisions /\ PointTypes /\ CallsApart /\ AllowIsAnswer

--------------------------------------------------------------------------------
(* The enforcement points and the server *)

\* Every step is a step of the server with the points looking on, or leaves the
\* server alone; the points act on the server only by delivering a call.
LEMMA StepKinds ==
  ASSUME [CallNext]_callVars
  PROVE  \/ ServerStep
         \/ \E r \in Requests, h \in Handlers : Deliver(r, h)
         \/ /\ UNCHANGED <<vars, callOf>>
            /\ \/ UNCHANGED <<front, point>>
               \/ \E r \in Requests : \/ ServeHTTP(r) \/ EnvoyAsks(r) \/ Check(r)
                                      \/ CheckAccessReturns(r) \/ CheckAccessFails(r)
                                      \/ Reply(r) \/ EnvoyFails(r)
BY DEF CallNext, PointStep, callVars, pointVars, ServeHTTP, EnvoyAsks, Check, CheckAccessReturns,
       CheckAccessFails, Reply, EnvoyFails, AdapterStops, AdapterStopped

LEMMA ServerSteps == [CallNext]_callVars => [Next]_vars
<1> SUFFICES ASSUME [CallNext]_callVars PROVE [Next]_vars
  OBVIOUS
<1>1. CASE ServerStep
  BY <1>1 DEF ServerStep, Next
<1>2. CASE \E r \in Requests, h \in Handlers : Deliver(r, h)
  BY <1>2 DEF Deliver, Next
<1> QED
  BY <1>1, <1>2, StepKinds

\* The server among its clients is the server of AuthzServer: deadlines, late
\* deliveries and discarded answers add no behaviour to CheckAccess's handler, the
\* audit pipeline or the shutdown, so every safety theorem about it carries over.
THEOREM CallsImplementServer == CallSpec => Spec
<1>1. CallInit => Init
  BY DEF CallInit
<1> QED
  BY <1>1, ServerSteps, PTL DEF CallSpec, Spec

--------------------------------------------------------------------------------
(* Forwarded requests are audited *)

LEMMA InitCallInv == CallInit => CallInv
<1> SUFFICES ASSUME CallInit PROVE CallInv
  OBVIOUS
<1>1. Init
  BY DEF CallInit
<1>2. AuditInv /\ CountersMatchDecisions
  BY <1>1, InitServerInv, InitOnePlace, InitCounters DEF AuditInv
<1>3. PointTypes /\ CallsApart /\ AllowIsAnswer
  BY DEF CallInit, PointTypes, CallsApart, AllowIsAnswer
<1> QED
  BY <1>2, <1>3 DEF CallInv

\* Calls are never given back.
LEMMA CallsGrow ==
  ASSUME ServerInv, [Next]_vars
  PROVE  calls \in Nat /\ calls' \in Nat /\ calls <= calls'
<1>1. calls \in Nat
  BY DEF ServerInv, TypeOK
<1>2. calls' \in {calls, calls + 1}
  BY DEF Next, Receive, HandlerStep, Evaluate, Fail, LogDecision, Send, Count, Observe,
         WorkerStep, Take, Write, WorkerExit, GracefulStop, StopAudit, StopReturns, ServeFails, vars
<1> QED
  BY <1>1, <1>2

\* A call that has returned stays so, with its verdict: its number is not reused.
LEMMA ReturnedStays ==
  ASSUME ServerInv, [Next]_vars, NEW c \in 1 .. calls,
         verdict[c] # None, \A h \in Handlers : handler[h].call # c
  PROVE  verdict'[c] = verdict[c] /\ \A h \in Handlers : handler'[h].call # c
<1>0. c \in Call /\ c # None /\ calls \in Nat /\ c # calls + 1
  BY ServerConstants DEF ServerInv, TypeOK, Call
<1>1. ASSUME NEW h \in Handlers, Receive(h)
      PROVE  verdict'[c] = verdict[c] /\ \A g \in Handlers : handler'[g].call # c
  BY <1>0, <1>1 DEF Receive, ServerInv, TypeOK
<1>2. ASSUME NEW h \in Handlers, HandlerStep(h)
      PROVE  verdict'[c] = verdict[c] /\ \A g \in Handlers : handler'[g].call # c
  <2>1. CASE Evaluate(h)
    BY <1>0, <2>1 DEF Evaluate, MoveTo, ServerInv, TypeOK
  <2>2. CASE Fail(h) \/ Observe(h)
    <3>1. verdict' = verdict /\ Finish(h)
      BY <2>2 DEF Fail, Observe
    <3>2. handler'[h].call = None /\ \A g \in Handlers \ {h} : handler'[g] = handler[g]
      BY <3>1 DEF Finish, ServerInv, TypeOK
    <3> QED
      BY <1>0, <3>1, <3>2
  <2>3. CASE LogDecision(h) \/ Count(h)
    <3>1. verdict' = verdict /\ \E l \in {"panicked", "logged", "counted"} : MoveTo(h, l)
      BY <2>3 DEF LogDecision, Send, Count
    <3>2. \A g \in Handlers : handler'[g].call = handler[g].call
      BY <3>1 DEF MoveTo, ServerInv, TypeOK
    <3> QED
      BY <3>1, <3>2
  <2> QED
    BY <1>2, <2>1, <2>2, <2>3 DEF HandlerStep
<1>3. CASE \/ \E w \in Workers : WorkerStep(w)
           \/ GracefulStop \/ StopAudit \/ StopReturns \/ ServeFails \/ UNCHANGED vars
  <2>1. handler' = handler /\ verdict' = verdict
    BY <1>3 DEF WorkerStep, Take, Write, WorkerExit, GracefulStop, StopAudit, StopReturns,
                ServeFails, vars
  <2> QED
    BY <2>1
<1> QED
  BY <1>1, <1>2, <1>3 DEF Next

\* The server's part of a step keeps what the points rely on.
LEMMA AnswersStay ==
  ASSUME CallInv, [Next]_vars, UNCHANGED <<front, point>>,
         \A r \in Requests : callOf[r] # None => callOf'[r] = callOf[r]
  PROVE  AllowIsAnswer'
<1> SUFFICES ASSUME NEW r \in Requests
             PROVE  /\ point'[r] = "allow" =>
                         Returned(callOf[r])' /\ verdict'[callOf'[r]] = "allow"
                    /\ front'[r] = "forwarded" => point'[r] = "allow"
  BY DEF AllowIsAnswer
<1>1. CASE point[r] = "allow"
  <2>1. /\ callOf[r] # None /\ verdict[callOf[r]] # None /\ verdict[callOf[r]] = "allow"
        /\ \A h \in Handlers : handler[h].call # callOf[r]
        /\ callOf[r] \in 1 .. calls
    BY <1>1 DEF CallInv, AllowIsAnswer, Returned, CallsApart
  <2>2. verdict'[callOf[r]] = verdict[callOf[r]] /\ \A h \in Handlers : handler'[h].call # callOf[r]
    BY <2>1, ReturnedStays DEF CallInv, AuditInv
  <2> QED
    BY <1>1, <2>1, <2>2 DEF Returned
<1>2. CASE point[r] # "allow"
  BY <1>2 DEF CallInv, AllowIsAnswer
<1> QED
  BY <1>1, <1>2

LEMMA NextCallInv ==
  ASSUME CallInv, [CallNext]_callVars
  PROVE  CallInv'
<1>0. [Next]_vars
  BY ServerSteps
<1>1. AuditInv' /\ CountersMatchDecisions'
  BY <1>0, NextServerInv, NextOnePlace, NextCounters DEF CallInv, AuditInv
<1>2. calls \in Nat /\ calls' \in Nat /\ calls <= calls'
  BY <1>0, CallsGrow DEF CallInv, AuditInv
<1>3. CASE ServerStep
  <2>1. UNCHANGED <<front, point, callOf>>
    BY <1>3 DEF ServerStep, pointVars
  <2>2. PointTypes' /\ CallsApart'
    BY <1>2, <2>1 DEF CallInv, PointTypes, CallsApart
  <2> QED
    BY <1>0, <1>1, <2>1, <2>2, AnswersStay DEF CallInv
<1>4. ASSUME NEW r \in Requests, NEW h \in Handlers, Deliver(r, h)
      PROVE  CallInv'
  <2>1. /\ callOf[r] = None /\ callOf' = [callOf EXCEPT ![r] = calls + 1]
        /\ calls' = calls + 1 /\ calls + 1 \in Call /\ UNCHANGED <<front, point>>
    BY <1>2, <1>4, ServerConstants DEF Deliver, Receive, Call
  <2>2. callOf'[r] = calls + 1 /\ \A s \in Requests \ {r} : callOf'[s] = callOf[s]
    BY <2>1 DEF CallInv, PointTypes
  <2>3. PointTypes'
    BY <2>1 DEF CallInv, PointTypes
  <2>4. CallsApart'
    <3>1. \A s \in Requests : callOf[s] # calls + 1
      BY <1>2, <2>1, ServerConstants DEF CallInv, CallsApart, Call
    <3>2. \A s \in Requests : callOf'[s] # None => callOf'[s] \in 1 .. calls'
      BY <1>2, <2>1, <2>2 DEF CallInv, CallsApart
    <3> QED
      BY <2>2, <3>1, <3>2 DEF CallInv, CallsApart
  <2>5. AllowIsAnswer'
    BY <1>0, <2>1, <2>2, AnswersStay
  <2> QED
    BY <1>1, <2>3, <2>4, <2>5 DEF CallInv
<1>5. CASE /\ UNCHANGED <<vars, callOf>>
           /\ UNCHANGED <<front, point>>
  <2>1. PointTypes' /\ CallsApart'
    BY <1>5 DEF CallInv, PointTypes, CallsApart, vars
  <2> QED
    BY <1>0, <1>1, <1>5, <2>1, AnswersStay DEF CallInv
<1>6. ASSUME NEW r \in Requests, UNCHANGED <<vars, callOf>>,
             \/ ServeHTTP(r) \/ EnvoyAsks(r) \/ Check(r) \/ CheckAccessReturns(r)
             \/ CheckAccessFails(r) \/ Reply(r) \/ EnvoyFails(r)
      PROVE  CallInv'
  <2>1. UNCHANGED <<calls, handler, verdict, callOf>>
    BY <1>6 DEF vars
  <2>2. CallsApart'
    BY <2>1 DEF CallInv, CallsApart
  <2>3. PointTypes'
    <3>1. CASE CheckAccessReturns(r)
      <4>1. verdict[callOf[r]] \in Verdicts /\ callOf[r] \in Call
        BY <3>1 DEF CheckAccessReturns, Returned, CallInv, PointTypes, AuditInv, ServerInv, TypeOK
      <4> QED
        BY <3>1, <4>1 DEF CheckAccessReturns, CallInv, PointTypes, Verdicts
    <3>2. CASE \/ ServeHTTP(r) \/ EnvoyAsks(r) \/ Check(r) \/ CheckAccessFails(r)
               \/ Reply(r) \/ EnvoyFails(r)
      BY <3>2 DEF ServeHTTP, EnvoyAsks, Check, CheckAccessFails, Reply, EnvoyFails,
                  CallInv, PointTypes
    <3> QED
      BY <1>6, <3>1, <3>2
  <2>4. \A s \in Requests \ {r} : front'[s] = front[s] /\ point'[s] = point[s]
    BY <1>6 DEF ServeHTTP, EnvoyAsks, Check, CheckAccessReturns, CheckAccessFails, Reply,
                EnvoyFails, CallInv, PointTypes
  <2>5. /\ point'[r] = "allow" => Returned(callOf[r]) /\ verdict[callOf[r]] = "allow"
        /\ front'[r] = "forwarded" => point'[r] = "allow"
    BY <1>6 DEF ServeHTTP, EnvoyAsks, Check, CheckAccessReturns, CheckAccessFails, Reply,
                EnvoyFails, CallInv, PointTypes, AllowIsAnswer
  <2>6. AllowIsAnswer'
    BY <2>1, <2>4, <2>5 DEF CallInv, AllowIsAnswer, Returned
  <2> QED
    BY <1>1, <2>2, <2>3, <2>6 DEF CallInv
<1> QED
  BY <1>3, <1>4, <1>5, <1>6, StepKinds

\* What a forwarded request's call has been through.
LEMMA ForwardedCall ==
  ASSUME CallInv, NEW r \in Forwarded
  PROVE  /\ r \in Requests
         /\ callOf[r] \in Call /\ callOf[r] # None
         /\ verdict[callOf[r]] = "allow"
         /\ callOf[r] \in Logged
         /\ \A h \in Handlers : handler[h].call # callOf[r]
         /\ \A s \in Requests : callOf[s] = callOf[r] => s = r
<1>1. /\ r \in Requests /\ Returned(callOf[r]) /\ verdict[callOf[r]] = "allow"
      /\ callOf[r] \in Call \cup {None}
  BY DEF Forwarded, CallInv, AllowIsAnswer, PointTypes
<1>2. /\ callOf[r] \in Call /\ callOf[r] # None
      /\ \A h \in Handlers : handler[h].call # callOf[r]
  BY <1>1 DEF Returned
<1>3. callOf[r] \in Logged
  BY <1>1, <1>2 DEF Logged
<1> QED
  BY <1>1, <1>2, <1>3 DEF CallInv, CallsApart

\* The counter of allowed decisions covers the calls whose handler has left.
LEMMA AllowCounter ==
  ASSUME ServerInv, CountersMatchDecisions, NEW S,
         S \subseteq {c \in Logged : verdict[c] = "allow" /\ \A h \in Handlers : handler[h].call # c}
  PROVE  IsFiniteSet(S) /\ Cardinality(S) <= counter["allow"]
<1> DEFINE A == Awaiting("allow")
           D == Decided("allow")
           f == [h \in A |-> handler[h].call]
           B == {handler[h].call : h \in A}
<1>1. A \subseteq Handlers /\ \A h \in A : handler[h].at = "logged" /\ verdict[handler[h].call] = "allow"
  BY DEF Awaiting
<1>2. B \subseteq D
  <2> SUFFICES ASSUME NEW h \in A PROVE handler[h].call \in D
    OBVIOUS
  <2>1. /\ handler[h].call \in Call
        /\ \A g \in Handlers \ {h} : handler[g].call # handler[h].call
    BY <1>1, BusyCall
  <2> QED
    BY <1>1, <2>1 DEF Decided, Logged
<1>3. S \subseteq D \ B
  BY <1>1 DEF Decided
<1>4. f \in Bijection(A, B)
  <2>1. f \in [A -> B] /\ \A b \in B : \E h \in A : f[h] = b
    OBVIOUS
  <2>2. \A h, g \in A : f[h] = f[g] => h = g
    BY <1>1, BusyCall
  <2> QED
    BY <2>1, <2>2 DEF Bijection, Injection, Surjection, IsInjective
<1> HIDE DEF A, D, B, f
<1>5. /\ IsFiniteSet(A) /\ Cardinality(A) \in Nat /\ IsFiniteSet(D) /\ Cardinality(D) \in Nat
      /\ counter["allow"] + Cardinality(A) = Cardinality(D)
  BY CountedSets, CountersMean DEF A, D, Outcomes
<1>6. Cardinality(B) = Cardinality(A)
  BY <1>4, <1>5, FS_Bijection DEF ExistsBijection
<1>7. D \cap B = B
  BY <1>2
<1>8. IsFiniteSet(D \ B) /\ Cardinality(D \ B) = Cardinality(D) - Cardinality(B)
  <2>1. /\ IsFiniteSet(D \ B)
        /\ Cardinality(D \ B) = Cardinality(D) - Cardinality(D \cap B)
    BY <1>5, FS_Difference
  <2> QED
    BY <1>7, <2>1
<1>9. counter["allow"] \in Nat
  BY DEF ServerInv, TypeOK
<1>10. Cardinality(D \ B) = counter["allow"]
  BY <1>5, <1>6, <1>8, <1>9
<1> QED
  BY <1>3, <1>8, <1>10, FS_Subset

\* Whatever times out, arrives late or exits, a request that is forwarded was
\* allowed in the call made for that very request, its audit record is in exactly
\* one place and the counter of allowed decisions covers it (the two-second
\* deadlines of the enforcement points against the handler of the server).
THEOREM CallForwardedIsAudited == CallSpec => []ForwardedIsAudited
<1>1. CallInv => ForwardedIsAudited
  <2> SUFFICES ASSUME CallInv PROVE ForwardedIsAudited
    OBVIOUS
  <2>1. ASSUME NEW r \in Forwarded
        PROVE  /\ callOf[r] # None
               /\ verdict[callOf[r]] = "allow"
               /\ Places(callOf[r]) = 1
               /\ \A s \in Requests : callOf[s] = callOf[r] => s = r
    BY <2>1, ForwardedCall, PlacesCounted DEF CallInv, AuditInv
  <2>2. Cardinality(Forwarded) <= counter["allow"]
    <3> DEFINE S == {callOf[r] : r \in Forwarded}
               f == [r \in Forwarded |-> callOf[r]]
    <3>1. S \subseteq {c \in Logged : verdict[c] = "allow" /\ \A h \in Handlers : handler[h].call # c}
      BY ForwardedCall
    <3>2. IsFiniteSet(S) /\ Cardinality(S) <= counter["allow"]
      BY <3>1, AllowCounter DEF CallInv, AuditInv
    <3>3. f \in Injection(Forwarded, S)
      <4>1. f \in [Forwarded -> S]
        OBVIOUS
      <4>2. \A r, s \in Forwarded : f[r] = f[s] => r = s
        BY ForwardedCall
      <4> QED
        BY <4>1, <4>2 DEF Injection, IsInjective
    <3> HIDE DEF S, f
    <3>4. IsFiniteSet(Forwarded) /\ Cardinality(Forwarded) <= Cardinality(S)
      BY <3>2, <3>3, FS_Injection
    <3>5. Cardinality(Forwarded) \in Nat /\ Cardinality(S) \in Nat /\ counter["allow"] \in Nat
      BY <3>2, <3>4, FS_CardinalityType DEF CallInv, AuditInv, ServerInv, TypeOK
    <3> QED
      BY <3>2, <3>4, <3>5
  <2> QED
    BY <2>1, <2>2 DEF ForwardedIsAudited
<1> QED
  BY <1>1, InitCallInv, NextCallInv, PTL DEF CallSpec
================================================================================

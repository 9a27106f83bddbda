------------------------------- MODULE AuthzServer -------------------------------
(***************************************************************************)
(* One CheckAccess call and what it leaves behind: the gRPC handler        *)
(* (internal/server/grpc.go) inside the metrics interceptor                *)
(* (internal/metrics/metrics.go), the audit pipeline it feeds              *)
(* (internal/audit/logger.go), and the two ways the process ends: a        *)
(* failing Serve exits at once (cmd/bouncer-engine/main.go), a graceful    *)
(* stop waits for the handlers and then stops the audit logger (the order  *)
(* of the integration test's clean-up).                                    *)
(*                                                                         *)
(* Each call has a number; its audit record is that number.  What the      *)
(* engine decides is a free choice here (see Engine).                      *)
(***************************************************************************)
EXTENDS Naturals, Sequences, FiniteSets

CONSTANTS
  Handlers,    \* gRPC goroutines
  Workers,     \* audit workers
  BufferSize,  \* capacity of logChan
  MaxCalls,    \* bound: CheckAccess calls
  None         \* no call, no record

\* What Engine.CheckAccess comes back with; the provider interface may fail.
Verdicts == {"allow", "deny", "error"}

ASSUME ServerConstants ==
  /\ BufferSize \in Nat \ {0}
  /\ MaxCalls \in Nat
  /\ None \notin 1 .. MaxCalls /\ None \notin Verdicts
  /\ IsFiniteSet(Handlers)
  /\ IsFiniteSet(Workers) /\ Workers # {}   \* main starts five workers

Call == 1 .. MaxCalls

VARIABLES
  calls,     \* calls received so far
  handler,   \* per handler: [at, call]
  verdict,   \* per call: the engine's answer
  logChan,   \* the buffered channel
  closed,    \* has logChan been closed?
  worker,    \* per worker: "ready", "exited" or the record it is writing
  written,   \* per record: how often it was written to the log
  dropped,   \* records dropped because the buffer was full
  counter,   \* authz_evaluations_total per outcome
  observed,  \* observations of the duration histogram
  serving    \* "serving", "draining", "closing", "stopped", "exited"

auditVars  == <<logChan, closed, worker, written, dropped>>
metricVars == <<counter, observed>>
vars == <<calls, handler, verdict, auditVars, metricVars, serving>>

Init ==
  /\ calls    = 0
  /\ handler  = [h \in Handlers |-> [at |-> "idle", call |-> None]]
  /\ verdict  = [c \in Call |-> None]
  /\ logChan  = <<>>
  /\ closed   = FALSE
  /\ worker   = [w \in Workers |-> [at |-> "ready", record |-> None]]
  /\ written  = [c \in Call |-> 0]
  /\ dropped  = {}
  /\ counter  = [allow |-> 0, deny |-> 0]
  /\ observed = 0
  /\ serving  = "serving"

Running == serving # "exited"

MoveTo(h, l) == handler' = [handler EXCEPT ![h].at = l]
Finish(h)    == handler' = [handler EXCEPT ![h] = [at |-> "idle", call |-> None]]

--------------------------------------------------------------------------------
(* The handler and its interceptor *)

\* grpc.Server dispatches a call; a draining server accepts none.
Receive(h) ==
  /\ serving = "serving"
  /\ handler[h].at = "idle"
  /\ calls < MaxCalls
  /\ calls' = calls + 1
  /\ handler' = [handler EXCEPT ![h] = [at |-> "evaluate", call |-> calls + 1]]
  /\ UNCHANGED <<verdict, auditVars, metricVars, serving>>

\* Engine.CheckAccess on the mapped request.
Evaluate(h) ==
  /\ Running
  /\ handler[h].at = "evaluate"
  /\ \E v \in Verdicts : verdict' = [verdict EXCEPT ![handler[h].call] = v]
  /\ MoveTo(h, "decided")
  /\ UNCHANGED <<calls, auditVars, metricVars, serving>>

\* Mutant: the interceptor counts a failed call as a denial.
FailCounted(h) ==
  /\ Running
  /\ handler[h].at = "decided"
  /\ verdict[handler[h].call] = "error"
  /\ counter' = [counter EXCEPT !["deny"] = @ + 1]
  /\ Finish(h)
  /\ UNCHANGED <<calls, verdict, auditVars, observed, serving>>

\* An error goes back through the interceptor: no record, no counter, no duration.
Fail(h) ==
  /\ Running
  /\ handler[h].at = "decided"
  /\ verdict[handler[h].call] = "error"
  /\ Finish(h)
  /\ UNCHANGED <<calls, verdict, auditVars, metricVars, serving>>

\* A non-blocking send of the record: queued if there is room, dropped if not.  A
\* send on a closed channel panics.
Send(h, room) ==
  /\ Running
  /\ handler[h].at = "decided"
  /\ verdict[handler[h].call] # "error"
  /\ MoveTo(h, IF closed THEN "panicked" ELSE "logged")
  /\ logChan' = IF ~closed /\ room THEN Append(logChan, handler[h].call) ELSE logChan
  /\ dropped' = IF closed \/ room THEN dropped ELSE dropped \cup {handler[h].call}
  /\ UNCHANGED <<calls, verdict, closed, worker, written, metricVars, serving>>

\* Mutant: one record more than the buffer holds.
LogDecisionOffByOne(h) == Send(h, Len(logChan) <= BufferSize)

LogDecision(h) == Send(h, Len(logChan) < BufferSize)

\* The interceptor bumps the counter of the decision ...
Count(h) ==
  /\ Running
  /\ handler[h].at = "logged"
  /\ counter' = [counter EXCEPT ![verdict[handler[h].call]] = @ + 1]
  /\ MoveTo(h, "counted")
  /\ UNCHANGED <<calls, verdict, auditVars, observed, serving>>

\* ... then observes the duration, and the response is sent.
Observe(h) ==
  /\ Running
  /\ handler[h].at = "counted"
  /\ observed' = observed + 1
  /\ Finish(h)
  /\ UNCHANGED <<calls, verdict, auditVars, counter, serving>>

--------------------------------------------------------------------------------
(* Audit workers: for record := range logChan *)

\* Mutant: once the logger is stopping, what is received is thrown away.
TakeDiscards(w) ==
  /\ Running
  /\ worker[w].at = "ready"
  /\ logChan # <<>>
  /\ worker' = IF closed THEN worker
               ELSE [worker EXCEPT ![w] = [at |-> "writing", record |-> Head(logChan)]]
  /\ logChan' = Tail(logChan)
  /\ UNCHANGED <<calls, handler, verdict, closed, written, dropped, metricVars, serving>>

Take(w) ==
  /\ Running
  /\ worker[w].at = "ready"
  /\ logChan # <<>>
  /\ worker' = [worker EXCEPT ![w] = [at |-> "writing", record |-> Head(logChan)]]
  /\ logChan' = Tail(logChan)
  /\ UNCHANGED <<calls, handler, verdict, closed, written, dropped, metricVars, serving>>

Write(w) ==
  /\ Running
  /\ worker[w].at = "writing"
  /\ written' = [written EXCEPT ![worker[w].record] = @ + 1]
  /\ worker' = [worker EXCEPT ![w] = [at |-> "ready", record |-> None]]
  /\ UNCHANGED <<calls, handler, verdict, logChan, closed, dropped, metricVars, serving>>

\* Mutant: a worker leaves as soon as the channel is closed.
WorkerExitAtOnce(w) ==
  /\ Running
  /\ worker[w].at = "ready"
  /\ closed
  /\ worker' = [worker EXCEPT ![w].at = "exited"]
  /\ UNCHANGED <<calls, handler, verdict, logChan, closed, written, dropped, metricVars, serving>>

\* Mutant: wg.Done is never called.
WorkerExitNotDone(w) ==
  /\ Running
  /\ worker[w].at = "ready"
  /\ closed
  /\ logChan = <<>>
  /\ UNCHANGED vars

\* The range ends once the channel is closed and empty; wg.Done.
WorkerExit(w) ==
  /\ Running
  /\ worker[w].at = "ready"
  /\ closed
  /\ logChan = <<>>
  /\ worker' = [worker EXCEPT ![w].at = "exited"]
  /\ UNCHANGED <<calls, handler, verdict, logChan, closed, written, dropped, metricVars, serving>>

--------------------------------------------------------------------------------
(* The end of the process *)

\* grpc.Server.GracefulStop: no new calls.
GracefulStop ==
  /\ serving = "serving"
  /\ serving' = "draining"
  /\ UNCHANGED <<calls, handler, verdict, auditVars, metricVars>>

\* Mutant: the audit logger is stopped without waiting for the handlers.
StopAuditEarly ==
  /\ serving = "draining"
  /\ closed' = TRUE
  /\ serving' = "closing"
  /\ UNCHANGED <<calls, handler, verdict, logChan, worker, written, dropped, metricVars>>

\* GracefulStop has seen every call finish; AuditLogger.Stop closes the channel ...
StopAudit ==
  /\ serving = "draining"
  /\ \A h \in Handlers : handler[h].at = "idle"
  /\ closed' = TRUE
  /\ serving' = "closing"
  /\ UNCHANGED <<calls, handler, verdict, logChan, worker, written, dropped, metricVars>>

\* ... and wg.Wait returns when every worker is gone.
StopReturns ==
  /\ serving = "closing"
  /\ \A w \in Workers : worker[w].at = "exited"
  /\ serving' = "stopped"
  /\ UNCHANGED <<calls, handler, verdict, auditVars, metricVars>>

\* Serve fails: os.Exit(1), without the deferred Stop.
ServeFails ==
  /\ serving = "serving"
  /\ serving' = "exited"
  /\ UNCHANGED <<calls, handler, verdict, auditVars, metricVars>>

HandlerStep(h) == Evaluate(h) \/ Fail(h) \/ LogDecision(h) \/ Count(h) \/ Observe(h)
WorkerStep(w)  == Take(w) \/ Write(w) \/ WorkerExit(w)

Next ==
  \/ \E h \in Handlers : Receive(h) \/ HandlerStep(h)
  \/ \E w \in Workers : WorkerStep(w)
  \/ GracefulStop \/ StopAudit \/ StopReturns \/ ServeFails

Spec == Init /\ [][Next]_vars

\* Goroutines that can run do; nobody has to call, to stop or to fail.
Fairness ==
  /\ \A h \in Handlers : WF_vars(HandlerStep(h))
  /\ \A w \in Workers : WF_vars(WorkerStep(w))
  /\ WF_vars(StopAudit) /\ WF_vars(StopReturns)

FairSpec == Spec /\ Fairness

--------------------------------------------------------------------------------
(* Properties *)

\* Every variable holds a value of its kind; the channel respects its capacity.
TypeOK ==
  /\ calls \in 0 .. MaxCalls
  /\ handler \in [Handlers -> [at : {"idle", "evaluate", "decided", "logged", "counted", "panicked"},
                               call : Call \cup {None}]]
  /\ verdict \in [Call -> Verdicts \cup {None}]
  /\ logChan \in Seq(Call) /\ Len(logChan) <= BufferSize
  /\ closed \in BOOLEAN
  /\ worker \in [Workers -> [at : {"ready", "writing", "exited"}, record : Call \cup {None}]]
  /\ written \in [Call -> Nat]
  /\ dropped \subseteq Call
  /\ counter \in [allow : Nat, deny : Nat]
  /\ observed \in Nat
  /\ serving \in {"serving", "draining", "closing", "stopped", "exited"}

\* The calls whose handler is past LogDecision.
Logged == {c \in Call : /\ verdict[c] \in {"allow", "deny"}
                        /\ \A h \in Handlers : handler[h].call = c => handler[h].at \in {"logged", "counted"}}

Places(c) ==
  written[c] + Cardinality({i \in DOMAIN logChan : logChan[i] = c})
             + Cardinality({w \in Workers : worker[w].record = c})
             + (IF c \in dropped THEN 1 ELSE 0)

\* Exactly one audit record per decision, and it is in exactly one place: in the
\* channel, with one worker, written once, or dropped.  A call that failed or has
\* not reached LogDecision has none.
OneRecordPerDecision ==
  \A c \in Call : Places(c) = IF c \in Logged THEN 1 ELSE 0

\* Stopping in the order of the wiring never makes a handler send on the closed
\* channel, however late the handler is.
NoSendAfterClose == \A h \in Handlers : handler[h].at # "panicked"

\* Stop "waits for workers to finish draining logs": when it has returned, every
\* decision that was not dropped is in the log.
DrainedWhenStopped ==
  serving = "stopped" => \A c \in Logged \ dropped : written[c] = 1

\* What os.Exit can lose: it skips the deferred Stop, but at no moment are more
\* decisions neither written nor dropped than the channel and the workers hold.
ExitLossBounded ==
  Cardinality({c \in Logged \ dropped : written[c] = 0}) <= BufferSize + Cardinality(Workers)

\* The counters say what the audit records say: per outcome, counted decisions
\* are the logged ones but for handlers on their way through the interceptor,
\* and the histogram trails the counters by the handlers in between.
CountersMatchDecisions ==
  /\ \A v \in {"allow", "deny"} :
       counter[v] + Cardinality({h \in Handlers : /\ handler[h].at = "logged"
                                                   /\ verdict[handler[h].call] = v})
         = Cardinality({c \in Logged : verdict[c] = v})
  /\ observed + Cardinality({h \in Handlers : handler[h].at = "counted"})
       = counter["allow"] + counter["deny"]

\* A graceful stop comes to an end: handlers finish, the workers drain and leave.
StopCompletes == serving = "draining" ~> serving = "stopped"
================================================================================

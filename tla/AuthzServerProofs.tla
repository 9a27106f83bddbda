--------------------------- MODULE AuthzServerProofs ---------------------------
(***************************************************************************)
(* Proofs about AuthzServer for any number of handlers, workers and calls  *)
(* and any size of the audit buffer.                                       *)
(***************************************************************************)
EXTENDS AuthzServer, FiniteSetTheorems, TLAPS

\* A busy handler has a call of its own, one that was received.
HandlersApart ==
  /\ \A h \in Handlers :
       /\ handler[h].at = "idle" <=> handler[h].call = None
       /\ handler[h].at # "idle" => handler[h].call \in 1 .. calls
  /\ \A h, g \in Handlers :
       handler[h].call # None /\ handler[h].call = handler[g].call => h = g

\* The engine's answer is there exactly when the handler is past Evaluate, and
\* an error goes no further.
VerdictWhenDecided ==
  /\ \A c \in Call : c > calls => verdict[c] = None
  /\ \A h \in Handlers :
       /\ handler[h].at = "evaluate" => verdict[handler[h].call] = None
       /\ handler[h].at = "decided"  => verdict[handler[h].call] \in Verdicts
       /\ handler[h].at \in {"logged", "counted"} => verdict[handler[h].call] \in {"allow", "deny"}

\* The channel is closed by a server without handlers, and stays so.
CloseAfterHandlers ==
  /\ closed <=> serving \in {"closing", "stopped"}
  /\ closed => \A h \in Handlers : handler[h].at = "idle"

\* A worker holds a record exactly while it writes one, and leaves only a channel
\* that is closed and empty.
WorkersLeaveNothing ==
  /\ \A w \in Workers :
       /\ worker[w].at = "writing" <=> worker[w].record # None
       /\ worker[w].at = "exited" => closed /\ logChan = <<>>
  /\ serving = "stopped" => \A w \in Workers : worker[w].at = "exited"

ServerInv ==
  /\ TypeOK
  /\ HandlersApart
  /\ VerdictWhenDecided
  /\ CloseAfterHandlers
  /\ WorkersLeaveNothing
  /\ NoSendAfterClose

Queued(c) == \E i \in DOMAIN logChan : logChan[i] = c
Held(c)   == \E w \in Workers : worker[w].record = c

\* OneRecordPerDecision without counting: a record is queued at most once, held
\* by at most one worker, and the four places exclude each other.
OnePlace ==
  /\ \A i, j \in DOMAIN logChan : logChan[i] = logChan[j] => i = j
  /\ \A w, v \in Workers : worker[w].record = worker[v].record /\ worker[w].record # None => w = v
  /\ \A c \in Call :
       /\ written[c] \in {0, 1}
       /\ c \in Logged <=> (Queued(c) \/ Held(c) \/ written[c] = 1 \/ c \in dropped)
       /\ Queued(c) => ~Held(c)
       /\ Queued(c) \/ Held(c) => written[c] = 0 /\ c \notin dropped
       /\ written[c] = 1 => c \notin dropped

--------------------------------------------------------------------------------
(* The server's invariant *)

LEMMA InitServerInv == Init => ServerInv
<1> SUFFICES ASSUME Init PROVE ServerInv
  OBVIOUS
<1>1. logChan \in Seq(Call) /\ Len(logChan) = 0
  BY DEF Init
<1>2. calls \in 0 .. MaxCalls /\ Len(logChan) <= BufferSize
  BY <1>1, ServerConstants DEF Init
<1>3. counter \in [allow : Nat, deny : Nat]
  BY DEF Init
<1>4. TypeOK
  BY <1>1, <1>2, <1>3 DEF Init, TypeOK
<1> QED
  BY <1>4 DEF Init, ServerInv, HandlersApart, VerdictWhenDecided, CloseAfterHandlers,
              WorkersLeaveNothing, NoSendAfterClose

\* A busy handler's call is a call.
LEMMA BusyCall ==
  ASSUME ServerInv, NEW h \in Handlers, handler[h].at # "idle"
  PROVE  /\ handler[h].call \in Call
         /\ handler[h].call # None
         /\ ~closed
         /\ \A g \in Handlers \ {h} : handler[g].call # handler[h].call
BY DEF ServerInv, HandlersApart, CloseAfterHandlers, TypeOK

LEMMA ReceiveInv ==
  ASSUME ServerInv, NEW h \in Handlers, Receive(h)
  PROVE  ServerInv'
<1>1. /\ calls \in Nat /\ calls < MaxCalls /\ calls' = calls + 1 /\ MaxCalls \in Nat
      /\ calls + 1 \in Call
      /\ handler' = [handler EXCEPT ![h] = [at |-> "evaluate", call |-> calls + 1]]
      /\ serving = "serving" /\ handler[h].at = "idle"
      /\ UNCHANGED <<verdict, auditVars, metricVars, serving>>
  BY ServerConstants DEF Receive, ServerInv, TypeOK, Call
<1>2. TypeOK'
  BY <1>1 DEF ServerInv, TypeOK, auditVars, metricVars
<1>3. /\ handler'[h] = [at |-> "evaluate", call |-> calls + 1]
      /\ \A g \in Handlers \ {h} : handler'[g] = handler[g]
  BY <1>1 DEF ServerInv, TypeOK
<1>4. \A g \in Handlers : handler[g].call # calls + 1
  BY <1>1, ServerConstants DEF ServerInv, HandlersApart, TypeOK, Call
<1>5. HandlersApart'
  BY <1>1, <1>3, <1>4, ServerConstants DEF ServerInv, HandlersApart, Call
<1>6. VerdictWhenDecided'
  <2>1. verdict'[calls + 1] = None
    BY <1>1 DEF ServerInv, VerdictWhenDecided
  <2>2. \A c \in Call : c > calls' => verdict'[c] = None
    BY <1>1 DEF ServerInv, VerdictWhenDecided, Call
  <2> QED
    BY <1>1, <1>3, <2>1, <2>2 DEF ServerInv, VerdictWhenDecided
<1>7. CloseAfterHandlers' /\ WorkersLeaveNothing'
  BY <1>1 DEF ServerInv, CloseAfterHandlers, WorkersLeaveNothing, auditVars
<1>8. NoSendAfterClose'
  BY <1>3 DEF ServerInv, NoSendAfterClose
<1> QED
  BY <1>2, <1>5, <1>6, <1>7, <1>8 DEF ServerInv

\* A handler that moves on, with its call, towards the response.
LEMMA MoveInv ==
  ASSUME ServerInv, NEW h \in Handlers, handler[h].at # "idle",
         NEW l \in {"decided", "logged", "counted"}, MoveTo(h, l),
         TypeOK', calls' = calls, closed' = closed, worker' = worker, serving' = serving,
         logChan' = logChan \/ ~closed,
         \A c \in Call \ {handler[h].call} : verdict'[c] = verdict[c],
         verdict'[handler[h].call] \in (IF l = "decided" THEN Verdicts ELSE {"allow", "deny"})
  PROVE  ServerInv'
<1>1. /\ handler'[h].at = l /\ handler'[h].call = handler[h].call
      /\ \A g \in Handlers \ {h} : handler'[g] = handler[g]
  BY DEF MoveTo, ServerInv, TypeOK
<1>2. HandlersApart'
  BY <1>1 DEF ServerInv, HandlersApart
<1>3. VerdictWhenDecided'
  <2>1. \A c \in Call : c > calls => c # handler[h].call
    BY DEF ServerInv, HandlersApart, TypeOK, Call
  <2>2. \A g \in Handlers \ {h} : handler[g].at # "idle" =>
           verdict'[handler[g].call] = verdict[handler[g].call]
    BY BusyCall
  <2> QED
    BY <1>1, <2>1, <2>2 DEF ServerInv, VerdictWhenDecided
<1>4. CloseAfterHandlers' /\ WorkersLeaveNothing'
  BY <1>1, BusyCall DEF ServerInv, CloseAfterHandlers, WorkersLeaveNothing
<1>5. NoSendAfterClose'
  BY <1>1 DEF ServerInv, NoSendAfterClose
<1> QED
  BY <1>2, <1>3, <1>4, <1>5 DEF ServerInv

\* A handler that is done with its call.
LEMMA FinishInv ==
  ASSUME ServerInv, NEW h \in Handlers, Finish(h), TypeOK',
         UNCHANGED <<calls, verdict, auditVars, serving>>
  PROVE  ServerInv'
<1>1. /\ handler'[h].at = "idle" /\ handler'[h].call = None
      /\ \A g \in Handlers \ {h} : handler'[g] = handler[g]
  BY DEF Finish, ServerInv, TypeOK
<1>2. HandlersApart' /\ VerdictWhenDecided'
  BY <1>1 DEF ServerInv, HandlersApart, VerdictWhenDecided
<1>3. CloseAfterHandlers' /\ WorkersLeaveNothing' /\ NoSendAfterClose'
  BY <1>1 DEF ServerInv, CloseAfterHandlers, WorkersLeaveNothing, NoSendAfterClose, auditVars
<1> QED
  BY <1>2, <1>3 DEF ServerInv

LEMMA HandlerInv ==
  ASSUME ServerInv, NEW h \in Handlers, HandlerStep(h)
  PROVE  ServerInv'
<1>0. handler[h].at # "idle"
  BY DEF HandlerStep, Evaluate, Fail, LogDecision, Send, Count, Observe
<1>1. handler[h].call \in Call /\ handler[h].call # None /\ ~closed
  BY <1>0, BusyCall
<1>2. \A l \in {"decided", "logged", "counted"} :
        MoveTo(h, l) => handler' \in [Handlers -> [at : {"idle", "evaluate", "decided", "logged", "counted", "panicked"},
                                                   call : Call \cup {None}]]
  BY DEF MoveTo, ServerInv, TypeOK
<1>3. CASE Evaluate(h)
  <2>1. PICK v \in Verdicts : verdict' = [verdict EXCEPT ![handler[h].call] = v]
    BY <1>3 DEF Evaluate
  <2>2. /\ verdict' \in [Call -> Verdicts \cup {None}]
        /\ verdict'[handler[h].call] = v
        /\ \A c \in Call \ {handler[h].call} : verdict'[c] = verdict[c]
    BY <1>1, <2>1 DEF ServerInv, TypeOK
  <2>3. TypeOK'
    BY <1>2, <1>3, <2>2 DEF Evaluate, ServerInv, TypeOK, auditVars, metricVars
  <2> QED
    BY <1>0, <1>3, <2>2, <2>3, MoveInv DEF Evaluate, auditVars
<1>4. CASE Fail(h)
  <2>1. TypeOK'
    BY <1>4 DEF Fail, Finish, ServerInv, TypeOK, auditVars, metricVars
  <2> QED
    BY <1>4, <2>1, FinishInv DEF Fail
<1>5. CASE LogDecision(h)
  <2>1. /\ verdict' = verdict /\ verdict[handler[h].call] \in {"allow", "deny"}
        /\ MoveTo(h, "logged")
        /\ UNCHANGED <<calls, closed, worker, written, metricVars, serving>>
    BY <1>1, <1>5 DEF LogDecision, Send, ServerInv, VerdictWhenDecided, Verdicts
  <2>2. logChan' \in Seq(Call) /\ Len(logChan') <= BufferSize
    BY <1>1, <1>5, ServerConstants DEF LogDecision, Send, ServerInv, TypeOK
  <2>3. dropped' \subseteq Call
    BY <1>1, <1>5 DEF LogDecision, Send, ServerInv, TypeOK
  <2>4. TypeOK'
    BY <1>2, <2>1, <2>2, <2>3 DEF ServerInv, TypeOK, metricVars
  <2> QED
    BY <1>0, <1>1, <2>1, <2>4, MoveInv
<1>6. CASE Count(h)
  <2>1. verdict[handler[h].call] \in {"allow", "deny"}
    BY <1>6 DEF Count, ServerInv, VerdictWhenDecided
  <2>2. counter' \in [allow : Nat, deny : Nat]
    <3>1. counter' = [counter EXCEPT ![verdict[handler[h].call]] = @ + 1]
      BY <1>6 DEF Count
    <3>2. counter \in [allow : Nat, deny : Nat]
      BY DEF ServerInv, TypeOK
    <3>3. CASE verdict[handler[h].call] = "allow"
      BY <3>1, <3>2, <3>3
    <3>4. CASE verdict[handler[h].call] = "deny"
      BY <3>1, <3>2, <3>4
    <3> QED
      BY <2>1, <3>3, <3>4
  <2>3. TypeOK'
    BY <1>2, <1>6, <2>2 DEF Count, ServerInv, TypeOK, auditVars
  <2> QED
    BY <1>0, <1>6, <2>1, <2>3, MoveInv DEF Count, auditVars
<1>7. CASE Observe(h)
  <2>1. TypeOK'
    BY <1>7 DEF Observe, Finish, ServerInv, TypeOK, auditVars, metricVars
  <2> QED
    BY <1>7, <2>1, FinishInv DEF Observe
<1> QED
  BY <1>3, <1>4, <1>5, <1>6, <1>7 DEF HandlerStep

LEMMA WorkerInv ==
  ASSUME ServerInv, NEW w \in Workers, WorkerStep(w)
  PROVE  ServerInv'
<1>1. UNCHANGED <<calls, handler, verdict, closed, serving, metricVars>>
  BY DEF WorkerStep, Take, Write, WorkerExit
<1>2. HandlersApart' /\ VerdictWhenDecided' /\ CloseAfterHandlers' /\ NoSendAfterClose'
  BY <1>1 DEF ServerInv, HandlersApart, VerdictWhenDecided, CloseAfterHandlers, NoSendAfterClose
<1>3. CASE Take(w)
  <2>1. /\ Head(logChan) \in Call /\ Head(logChan) # None
        /\ logChan' \in Seq(Call) /\ Len(logChan') = Len(logChan) - 1
    BY <1>3, ServerConstants DEF Take, ServerInv, TypeOK, Call
  <2>2. TypeOK'
    BY <1>1, <1>3, <2>1, ServerConstants DEF Take, ServerInv, TypeOK, metricVars
  <2>3. \A v \in Workers : worker[v].at # "exited"
    BY <1>3 DEF Take, ServerInv, WorkersLeaveNothing
  <2>4. serving # "stopped"
    BY <2>3 DEF ServerInv, WorkersLeaveNothing
  <2>5. WorkersLeaveNothing'
    BY <1>1, <1>3, <2>1, <2>3, <2>4 DEF Take, ServerInv, WorkersLeaveNothing, TypeOK
  <2> QED
    BY <1>2, <2>2, <2>5 DEF ServerInv
<1>4. CASE Write(w)
  <2>1. worker[w].record \in Call
    BY <1>4 DEF Write, ServerInv, WorkersLeaveNothing, TypeOK
  <2>2. TypeOK'
    BY <1>1, <1>4, <2>1 DEF Write, ServerInv, TypeOK, metricVars
  <2>3. WorkersLeaveNothing'
    BY <1>1, <1>4 DEF Write, ServerInv, WorkersLeaveNothing, TypeOK
  <2> QED
    BY <1>2, <2>2, <2>3 DEF ServerInv
<1>5. CASE WorkerExit(w)
  <2>1. TypeOK'
    BY <1>1, <1>5 DEF WorkerExit, ServerInv, TypeOK, metricVars
  <2>2. WorkersLeaveNothing'
    BY <1>1, <1>5 DEF WorkerExit, ServerInv, WorkersLeaveNothing, TypeOK
  <2> QED
    BY <1>2, <2>1, <2>2 DEF ServerInv
<1> QED
  BY <1>3, <1>4, <1>5 DEF WorkerStep

LEMMA StopInv ==
  ASSUME ServerInv, GracefulStop \/ StopAudit \/ StopReturns \/ ServeFails \/ UNCHANGED vars
  PROVE  ServerInv'
<1>1. UNCHANGED <<calls, handler, verdict, logChan, worker, written, dropped, metricVars>>
  BY DEF GracefulStop, StopAudit, StopReturns, ServeFails, vars, auditVars
<1>2. TypeOK'
  BY <1>1 DEF GracefulStop, StopAudit, StopReturns, ServeFails, vars, auditVars, metricVars,
              ServerInv, TypeOK
<1>3. HandlersApart' /\ VerdictWhenDecided' /\ NoSendAfterClose'
  BY <1>1 DEF ServerInv, HandlersApart, VerdictWhenDecided, NoSendAfterClose
<1>4. CloseAfterHandlers'
  BY <1>1 DEF GracefulStop, StopAudit, StopReturns, ServeFails, vars, auditVars,
              ServerInv, CloseAfterHandlers, TypeOK
<1>5. WorkersLeaveNothing'
  BY <1>1 DEF GracefulStop, StopAudit, StopReturns, ServeFails, vars, auditVars,
              ServerInv, CloseAfterHandlers, WorkersLeaveNothing, TypeOK
<1> QED
  BY <1>2, <1>3, <1>4, <1>5 DEF ServerInv

LEMMA NextServerInv ==
  ASSUME ServerInv, [Next]_vars
  PROVE  ServerInv'
BY ReceiveInv, HandlerInv, WorkerInv, StopInv DEF Next

\* Every variable keeps its kind and the audit channel never holds more than
\* BufferSize records, however many handlers send at once (LogDecision of
\* internal/audit/logger.go).
THEOREM ServerTypeCorrect == Spec => []TypeOK
<1>1. ServerInv => TypeOK
  BY DEF ServerInv
<1> QED
  BY <1>1, InitServerInv, NextServerInv, PTL DEF Spec

\* No handler sends on the closed audit channel: GracefulStop returns before
\* AuditLogger.Stop closes it, for any number of handlers still under way.
THEOREM ServerNoSendAfterClose == Spec => []NoSendAfterClose
<1>1. ServerInv => NoSendAfterClose
  BY DEF ServerInv
<1> QED
  BY <1>1, InitServerInv, NextServerInv, PTL DEF Spec

--------------------------------------------------------------------------------
(* One audit record per decision *)

\* A call with a handler before LogDecision, or without a decision, is not logged.
LEMMA NotLogged ==
  ASSUME ServerInv, NEW h \in Handlers,
         \/ handler[h].at \in {"evaluate", "decided"}
         \/ handler[h].at # "idle" /\ verdict[handler[h].call] \notin {"allow", "deny"}
  PROVE  handler[h].call \notin Logged
BY DEF Logged

\* A step that changes the handler of one call, and perhaps that call's verdict,
\* changes Logged at that call only.
LEMMA LoggedElsewhere ==
  ASSUME ServerInv, NEW h \in Handlers, NEW c \in Call,
         handler[h].call \in {c, None}, handler'[h].call \in {c, None},
         \A g \in Handlers \ {h} : handler'[g] = handler[g],
         \A d \in Call \ {c} : verdict'[d] = verdict[d]
  PROVE  \A d \in Call \ {c} : d \in Logged' <=> d \in Logged
<1> SUFFICES ASSUME NEW d \in Call, d # c
             PROVE  d \in Logged' <=> d \in Logged
  OBVIOUS
<1>1. d # None
  BY ServerConstants DEF Call
<1>2. \A g \in Handlers : handler[g].call = d <=> handler'[g].call = d
  BY <1>1
<1>3. \A g \in Handlers : handler[g].call = d => handler'[g] = handler[g]
  BY <1>1
<1> QED
  BY <1>1, <1>2, <1>3 DEF Logged

\* Receive and the handler's steps other than LogDecision log nothing.
LEMMA QuietHandlers ==
  ASSUME ServerInv, NEW h \in Handlers,
         Receive(h) \/ Evaluate(h) \/ Fail(h) \/ Count(h) \/ Observe(h)
  PROVE  Logged' = Logged /\ UNCHANGED auditVars
<1>0. UNCHANGED auditVars
  BY DEF Receive, Evaluate, Fail, Count, Observe
<1>1. CASE Receive(h)
  <2>1. /\ calls + 1 \in Call /\ verdict' = verdict
        /\ handler'[h].call = calls + 1 /\ handler[h].call = None
        /\ \A g \in Handlers \ {h} : handler'[g] = handler[g]
    BY <1>1, ServerConstants DEF Receive, ServerInv, TypeOK, HandlersApart, Call
  <2>2. verdict[calls + 1] = None
    BY <2>1 DEF ServerInv, VerdictWhenDecided, TypeOK
  <2>3. calls + 1 \notin Logged /\ calls + 1 \notin Logged'
    BY <2>1, <2>2, ServerConstants DEF Logged, Verdicts
  <2> QED
    BY <1>0, <2>1, <2>3, LoggedElsewhere DEF Logged
<1>2. CASE Evaluate(h)
  <2>1. /\ handler[h].at = "evaluate" /\ handler[h].call \in Call
        /\ handler'[h].at = "decided" /\ handler'[h].call = handler[h].call
        /\ \A g \in Handlers \ {h} : handler'[g] = handler[g]
    BY <1>2, BusyCall DEF Evaluate, MoveTo, ServerInv, TypeOK
  <2>2. \A d \in Call \ {handler[h].call} : verdict'[d] = verdict[d]
    BY <1>2 DEF Evaluate, ServerInv, TypeOK
  <2>3. handler[h].call \notin Logged /\ handler[h].call \notin Logged'
    BY <2>1 DEF Logged
  <2> QED
    BY <1>0, <2>1, <2>2, <2>3, LoggedElsewhere DEF Logged
<1>3. CASE Fail(h)
  <2>1. /\ handler[h].at = "decided" /\ handler[h].call \in Call /\ handler'[h].call = None
        /\ \A g \in Handlers \ {h} : handler'[g] = handler[g]
        /\ verdict' = verdict /\ verdict[handler[h].call] = "error"
    BY <1>3, BusyCall DEF Fail, Finish, ServerInv, TypeOK
  <2>2. handler[h].call \notin Logged /\ handler[h].call \notin Logged'
    BY <2>1 DEF Logged
  <2> QED
    BY <1>0, <2>1, <2>2, LoggedElsewhere DEF Logged
<1>4. CASE Count(h)
  <2>1. /\ handler[h].at = "logged" /\ handler[h].call \in Call
        /\ handler'[h].at = "counted" /\ handler'[h].call = handler[h].call
        /\ \A g \in Handlers \ {h} : handler'[g] = handler[g]
        /\ \A g \in Handlers \ {h} : handler[g].call # handler[h].call
        /\ verdict' = verdict /\ verdict[handler[h].call] \in {"allow", "deny"}
    BY <1>4, BusyCall DEF Count, MoveTo, ServerInv, TypeOK, VerdictWhenDecided
  <2>2. handler[h].call \in Logged /\ handler[h].call \in Logged'
    BY <2>1 DEF Logged
  <2> QED
    BY <1>0, <2>1, <2>2, LoggedElsewhere DEF Logged
<1>5. CASE Observe(h)
  <2>1. /\ handler[h].at = "counted" /\ handler[h].call \in Call /\ handler[h].call # None
        /\ handler'[h].call = None
        /\ \A g \in Handlers \ {h} : handler'[g] = handler[g]
        /\ \A g \in Handlers \ {h} : handler[g].call # handler[h].call
        /\ verdict' = verdict /\ verdict[handler[h].call] \in {"allow", "deny"}
    BY <1>5, BusyCall DEF Observe, Finish, ServerInv, TypeOK, VerdictWhenDecided
  <2>2. handler[h].call \in Logged /\ handler[h].call \in Logged'
    BY <2>1 DEF Logged
  <2> QED
    BY <1>0, <2>1, <2>2, LoggedElsewhere DEF Logged
<1> QED
  BY <1>1, <1>2, <1>3, <1>4, <1>5

\* LogDecision logs one call, which was not logged before.
LEMMA LogDecisionLogs ==
  ASSUME ServerInv, NEW h \in Handlers, LogDecision(h)
  PROVE  /\ handler[h].call \in Call
         /\ handler[h].call \notin Logged
         /\ Logged' = Logged \cup {handler[h].call}
         /\ handler'[h].at = "logged" /\ handler'[h].call = handler[h].call
         /\ \A g \in Handlers \ {h} : handler'[g] = handler[g]
         /\ verdict[handler[h].call] \in {"allow", "deny"}
         /\ \/ logChan' = Append(logChan, handler[h].call) /\ dropped' = dropped
            \/ logChan' = logChan /\ dropped' = dropped \cup {handler[h].call}
         /\ UNCHANGED <<calls, verdict, closed, worker, written, metricVars, serving>>
<1>1. /\ handler[h].at = "decided" /\ handler[h].call \in Call /\ ~closed
      /\ \A g \in Handlers \ {h} : handler[g].call # handler[h].call
      /\ verdict' = verdict
    BY BusyCall DEF LogDecision, Send
<1>2. verdict[handler[h].call] \in {"allow", "deny"}
  BY <1>1 DEF LogDecision, Send, ServerInv, VerdictWhenDecided, Verdicts
<1>3. /\ handler'[h].at = "logged" /\ handler'[h].call = handler[h].call
      /\ \A g \in Handlers \ {h} : handler'[g] = handler[g]
  BY <1>1 DEF LogDecision, Send, MoveTo, ServerInv, TypeOK
<1>4. handler[h].call \notin Logged
  BY <1>1 DEF Logged
<1>5. handler[h].call \in Logged'
  BY <1>1, <1>2, <1>3 DEF Logged
<1>6. Logged' = Logged \cup {handler[h].call}
  BY <1>1, <1>3, <1>4, <1>5, LoggedElsewhere DEF Logged
<1>7. \/ logChan' = Append(logChan, handler[h].call) /\ dropped' = dropped
      \/ logChan' = logChan /\ dropped' = dropped \cup {handler[h].call}
  BY <1>1 DEF LogDecision, Send
<1> QED
  BY <1>1, <1>2, <1>3, <1>4, <1>6, <1>7 DEF LogDecision, Send

LEMMA InitOnePlace == Init => OnePlace
<1> SUFFICES ASSUME Init PROVE OnePlace
  OBVIOUS
<1>1. DOMAIN logChan = {} /\ dropped = {}
  BY DEF Init
<1>2. \A w \in Workers : worker[w].record = None
  BY DEF Init
<1>3. \A c \in Call : c # None /\ verdict[c] = None /\ written[c] = 0
  BY ServerConstants DEF Init, Call
<1>4. \A c \in Call : c \notin Logged
  BY <1>3, ServerConstants DEF Logged, Verdicts
<1> QED
  BY <1>1, <1>2, <1>3, <1>4 DEF OnePlace, Queued, Held

\* The places of the records, as far as OnePlace looks at them.
LEMMA QuietPlaces ==
  ASSUME OnePlace, Logged' = Logged, UNCHANGED <<logChan, written, dropped>>,
         \A w \in Workers : worker'[w].record = worker[w].record
  PROVE  OnePlace'
<1>1. \A c \in Call : (Queued(c)' <=> Queued(c)) /\ (Held(c)' <=> Held(c))
  BY DEF Queued, Held
<1> QED
  BY <1>1 DEF OnePlace

\* A record that is sent is in no place yet: it becomes the last of the channel.
LEMMA AppendPlaces ==
  ASSUME OnePlace, NEW c \in Call, c \notin Logged, Logged' = Logged \cup {c},
         logChan \in Seq(Call), logChan' = Append(logChan, c),
         UNCHANGED <<worker, written, dropped>>
  PROVE  OnePlace'
<1>1. /\ Len(logChan) \in Nat /\ Len(logChan') = Len(logChan) + 1
      /\ DOMAIN logChan = 1 .. Len(logChan) /\ DOMAIN logChan' = 1 .. Len(logChan) + 1
      /\ logChan'[Len(logChan) + 1] = c
      /\ \A i \in 1 .. Len(logChan) : logChan'[i] = logChan[i]
  OBVIOUS
<1>2. ~Queued(c) /\ ~Held(c) /\ written[c] = 0 /\ c \notin dropped
  BY DEF OnePlace
<1>3. \A i \in DOMAIN logChan : logChan[i] # c
  BY <1>2 DEF Queued
<1>4. \A i \in DOMAIN logChan' : i \in DOMAIN logChan \/ i = Len(logChan) + 1
  BY <1>1
<1>5. \A i, j \in DOMAIN logChan' : logChan'[i] = logChan'[j] => i = j
  BY <1>1, <1>3, <1>4 DEF OnePlace
<1>6. \A d \in Call : (Queued(d)' <=> Queued(d) \/ d = c) /\ (Held(d)' <=> Held(d))
  BY <1>1, <1>4 DEF Queued, Held
<1> QED
  BY <1>2, <1>5, <1>6 DEF OnePlace

\* A record that is dropped is in no place yet either.
LEMMA DropPlaces ==
  ASSUME OnePlace, NEW c \in Call, c \notin Logged, Logged' = Logged \cup {c},
         dropped' = dropped \cup {c}, UNCHANGED <<worker, written, logChan>>
  PROVE  OnePlace'
<1>1. \A d \in Call : (Queued(d)' <=> Queued(d)) /\ (Held(d)' <=> Held(d))
  BY DEF Queued, Held
<1>2. ~Queued(c) /\ ~Held(c) /\ written[c] = 0
  BY DEF OnePlace
<1> QED
  BY <1>1, <1>2 DEF OnePlace

\* A record that is taken moves from the channel to one worker.
LEMMA TakePlaces ==
  ASSUME ServerInv, OnePlace, NEW w \in Workers, Take(w)
  PROVE  OnePlace'
<1> DEFINE c == Head(logChan)
<1>1. /\ Logged' = Logged /\ UNCHANGED <<written, dropped>>
      /\ logChan \in Seq(Call) /\ logChan # <<>> /\ logChan' = Tail(logChan)
  BY DEF Take, ServerInv, TypeOK, Logged
<1>2. /\ worker[w].record = None /\ worker'[w].record = c
      /\ \A v \in Workers \ {w} : worker'[v] = worker[v]
  BY DEF Take, ServerInv, TypeOK, WorkersLeaveNothing
<1>3. /\ Len(logChan) \in Nat \ {0} /\ Len(logChan') = Len(logChan) - 1
      /\ DOMAIN logChan = 1 .. Len(logChan) /\ DOMAIN logChan' = 1 .. Len(logChan) - 1
      /\ c = logChan[1]
      /\ \A i \in 1 .. Len(logChan) - 1 : logChan'[i] = logChan[i + 1]
  BY <1>1
<1>4. c \in Call /\ c # None
  BY <1>1, ServerConstants DEF Call
<1>5. \A i \in DOMAIN logChan' : i + 1 \in DOMAIN logChan /\ logChan'[i] = logChan[i + 1] /\ i + 1 # 1
  BY <1>3
<1>6. \A j \in DOMAIN logChan : j # 1 => j - 1 \in DOMAIN logChan' /\ logChan'[j - 1] = logChan[j]
  BY <1>3
<1>7. \A i, j \in DOMAIN logChan' : logChan'[i] = logChan'[j] => i = j
  <2> SUFFICES ASSUME NEW i \in DOMAIN logChan', NEW j \in DOMAIN logChan', logChan'[i] = logChan'[j]
               PROVE  i = j
    OBVIOUS
  <2>1. i + 1 = j + 1
    BY <1>5 DEF OnePlace
  <2> QED
    BY <1>3, <2>1
<1>8. Queued(c) /\ 1 \in DOMAIN logChan
  <2>1. 1 \in DOMAIN logChan /\ logChan[1] = c
    BY <1>3
  <2> QED
    BY <2>1 DEF Queued
<1>9. \A d \in Call : Queued(d)' <=> Queued(d) /\ d # c
  <2> SUFFICES ASSUME NEW d \in Call PROVE Queued(d)' <=> Queued(d) /\ d # c
    OBVIOUS
  <2>1. ASSUME Queued(d)' PROVE Queued(d) /\ d # c
    <3>1. PICK i \in DOMAIN logChan' : logChan'[i] = d
      BY <2>1 DEF Queued
    <3>2. i + 1 \in DOMAIN logChan /\ logChan[i + 1] = d /\ i + 1 # 1
      BY <1>5, <3>1
    <3> QED
      BY <1>3, <1>8, <3>2 DEF Queued, OnePlace
  <2>2. ASSUME Queued(d), d # c PROVE Queued(d)'
    <3>1. PICK j \in DOMAIN logChan : logChan[j] = d
      BY <2>2 DEF Queued
    <3> QED
      BY <1>3, <1>6, <2>2, <3>1 DEF Queued
  <2> QED
    BY <2>1, <2>2
<1>10. \A d \in Call : Held(d)' <=> Held(d) \/ d = c
  <2>1. \A d \in Call : d # None
    BY ServerConstants DEF Call
  <2> QED
    BY <1>2, <2>1 DEF Held
<1>11. ~Held(c) /\ written[c] = 0 /\ c \notin dropped
  BY <1>4, <1>8 DEF OnePlace
<1>12. \A u, v \in Workers : worker'[u].record = worker'[v].record /\ worker'[u].record # None => u = v
  BY <1>2, <1>11 DEF OnePlace, Held
<1> HIDE DEF c
<1> QED
  BY <1>1, <1>4, <1>7, <1>8, <1>9, <1>10, <1>11, <1>12 DEF OnePlace

\* A record that is written moves from its worker to the log.
LEMMA WritePlaces ==
  ASSUME ServerInv, OnePlace, NEW w \in Workers, Write(w)
  PROVE  OnePlace'
<1> DEFINE c == worker[w].record
<1>1. c \in Call /\ c # None
  BY DEF Write, ServerInv, TypeOK, WorkersLeaveNothing
<1>2. /\ Logged' = Logged /\ UNCHANGED <<logChan, dropped>>
      /\ worker'[w].record = None
      /\ \A v \in Workers \ {w} : worker'[v] = worker[v]
  BY DEF Write, ServerInv, TypeOK, Logged
<1>3. Held(c) /\ ~Queued(c) /\ written[c] = 0 /\ c \notin dropped
  BY <1>1 DEF OnePlace, Held
<1>4. /\ written'[c] = 1
      /\ \A d \in Call \ {c} : written'[d] = written[d]
  BY <1>1, <1>3 DEF Write, ServerInv, TypeOK
<1>5. \A d \in Call : (Queued(d)' <=> Queued(d)) /\ (Held(d)' <=> Held(d) /\ d # c)
  <2>1. \A d \in Call : d # None
    BY ServerConstants DEF Call
  <2>2. \A v \in Workers \ {w} : worker[v].record # c
    BY <1>1 DEF OnePlace
  <2>3. \A d \in Call : Queued(d)' <=> Queued(d)
    BY <1>2 DEF Queued
  <2> QED
    BY <1>2, <2>1, <2>2, <2>3 DEF Held
<1>6. \A u, v \in Workers : worker'[u].record = worker'[v].record /\ worker'[u].record # None => u = v
  BY <1>2 DEF OnePlace
<1> HIDE DEF c
<1> QED
  BY <1>1, <1>2, <1>3, <1>4, <1>5, <1>6 DEF OnePlace

LEMMA NextOnePlace ==
  ASSUME ServerInv, OnePlace, [Next]_vars
  PROVE  OnePlace'
<1>1. ASSUME NEW h \in Handlers, Receive(h) \/ HandlerStep(h)
      PROVE  OnePlace'
  <2>1. CASE LogDecision(h)
    BY <2>1, LogDecisionLogs, AppendPlaces, DropPlaces DEF ServerInv, TypeOK
  <2>2. CASE Receive(h) \/ Evaluate(h) \/ Fail(h) \/ Count(h) \/ Observe(h)
    BY <2>2, QuietHandlers, QuietPlaces DEF auditVars
  <2> QED
    BY <1>1, <2>1, <2>2 DEF HandlerStep
<1>2. ASSUME NEW w \in Workers, WorkerStep(w)
      PROVE  OnePlace'
  <2>1. CASE WorkerExit(w)
    BY <2>1, QuietPlaces DEF WorkerExit, Logged, ServerInv, TypeOK
  <2> QED
    BY <1>2, <2>1, TakePlaces, WritePlaces DEF WorkerStep
<1>3. CASE GracefulStop \/ StopAudit \/ StopReturns \/ ServeFails \/ UNCHANGED vars
  <2>1. UNCHANGED <<handler, verdict, logChan, worker, written, dropped>>
    BY <1>3 DEF GracefulStop, StopAudit, StopReturns, ServeFails, vars, auditVars
  <2>2. Logged' = Logged
    BY <2>1 DEF Logged
  <2> QED
    BY <2>1, <2>2, QuietPlaces
<1> QED
  BY <1>1, <1>2, <1>3 DEF Next

\* Counting the places of a record gives what OnePlace says without counting.
LEMMA PlacesCounted ==
  ASSUME ServerInv, OnePlace, NEW c \in Call
  PROVE  Places(c) = IF c \in Logged THEN 1 ELSE 0
<1> DEFINE I == {i \in DOMAIN logChan : logChan[i] = c}
           W == {w \in Workers : worker[w].record = c}
<1>0. c # None
  BY ServerConstants DEF Call
<1>1. Cardinality(I) = IF Queued(c) THEN 1 ELSE 0
  <2>1. CASE Queued(c)
    <3>1. PICK i \in DOMAIN logChan : logChan[i] = c
      BY <2>1 DEF Queued
    <3>2. I = {i}
      BY <3>1 DEF OnePlace
    <3> QED
      BY <2>1, <3>2, FS_Singleton
  <2>2. CASE ~Queued(c)
    <3>1. I = {}
      BY <2>2 DEF Queued
    <3> QED
      BY <2>2, <3>1, FS_EmptySet
  <2> QED
    BY <2>1, <2>2
<1>2. Cardinality(W) = IF Held(c) THEN 1 ELSE 0
  <2>1. CASE Held(c)
    <3>1. PICK w \in Workers : worker[w].record = c
      BY <2>1 DEF Held
    <3>2. W = {w}
      BY <1>0, <3>1 DEF OnePlace
    <3> QED
      BY <2>1, <3>2, FS_Singleton
  <2>2. CASE ~Held(c)
    <3>1. W = {}
      BY <2>2 DEF Held
    <3> QED
      BY <2>2, <3>1, FS_EmptySet
  <2> QED
    BY <2>1, <2>2
<1>3. Places(c) = written[c] + Cardinality(I) + Cardinality(W) + (IF c \in dropped THEN 1 ELSE 0)
  BY DEF Places
<1> HIDE DEF I, W
<1>4. /\ written[c] \in {0, 1}
      /\ c \in Logged <=> (Queued(c) \/ Held(c) \/ written[c] = 1 \/ c \in dropped)
      /\ Queued(c) => ~Held(c)
      /\ Queued(c) \/ Held(c) => written[c] = 0 /\ c \notin dropped
      /\ written[c] = 1 => c \notin dropped
  BY DEF OnePlace
<1> QED
  BY <1>1, <1>2, <1>3, <1>4

AuditInv == ServerInv /\ OnePlace

LEMMA AuditInvariant == Spec => []AuditInv
<1>1. Init => AuditInv
  BY InitServerInv, InitOnePlace DEF AuditInv
<1>2. AuditInv /\ [Next]_vars => AuditInv'
  BY NextServerInv, NextOnePlace DEF AuditInv
<1> QED
  BY <1>1, <1>2, PTL DEF Spec

\* Exactly one audit record per decision, in exactly one place, for any number of
\* handlers and workers and any buffer: nothing between LogDecision and a worker's
\* slog call loses or repeats a record, and a full buffer drops it once.
THEOREM ServerOneRecordPerDecision == Spec => []OneRecordPerDecision
<1>1. AuditInv => OneRecordPerDecision
  BY PlacesCounted DEF AuditInv, OneRecordPerDecision
<1> QED
  BY <1>1, AuditInvariant, PTL

\* When AuditLogger.Stop has returned, every decision that was not dropped has
\* been written: the workers leave only a channel that is closed and empty.
THEOREM ServerDrainedWhenStopped == Spec => []DrainedWhenStopped
<1>1. AuditInv => DrainedWhenStopped
  <2> SUFFICES ASSUME AuditInv, serving = "stopped", NEW c \in Logged \ dropped
               PROVE  written[c] = 1
    BY DEF DrainedWhenStopped
  <2>1. \A w \in Workers : worker[w].at = "exited"
    BY DEF AuditInv, ServerInv, WorkersLeaveNothing
  <2>2. logChan = <<>> /\ \A w \in Workers : worker[w].record = None
    BY <2>1, ServerConstants DEF AuditInv, ServerInv, WorkersLeaveNothing
  <2>3. c \in Call /\ c # None
    BY ServerConstants DEF Logged, Call
  <2>4. ~Queued(c) /\ ~Held(c)
    BY <2>2, <2>3 DEF Queued, Held
  <2> QED
    BY <2>3, <2>4 DEF AuditInv, OnePlace
<1> QED
  BY <1>1, AuditInvariant, PTL

--------------------------------------------------------------------------------
(* What os.Exit can lose *)

\* Sets of calls and of goroutines are finite.
LEMMA Finite ==
  /\ IsFiniteSet(Call)
  /\ \A S \in SUBSET Call : IsFiniteSet(S) /\ Cardinality(S) \in Nat
  /\ \A S \in SUBSET Handlers : IsFiniteSet(S) /\ Cardinality(S) \in Nat
  /\ Cardinality(Workers) \in Nat
<1>1. IsFiniteSet(Call)
  BY FS_Interval, ServerConstants DEF Call
<1> QED
  BY <1>1, ServerConstants, FS_Subset, FS_CardinalityType

\* What is neither written nor dropped is in the channel or with a worker, and
\* neither holds a record twice.
LEMMA LossBounded ==
  ASSUME ServerInv, OnePlace
  PROVE  ExitLossBounded
<1> DEFINE L == {c \in Logged \ dropped : written[c] = 0}
           Q == {c \in L : Queued(c)}
           H == {c \in L : Held(c)}
<1>1. L \subseteq Call /\ Q \subseteq Call /\ H \subseteq Call
  BY DEF Logged
<1>2. L = Q \cup H
  BY <1>1 DEF OnePlace
<1>3. Cardinality(Q) <= BufferSize
  <2> DEFINE place == [c \in Q |-> CHOOSE i \in DOMAIN logChan : logChan[i] = c]
  <2>1. \A c \in Q : place[c] \in DOMAIN logChan /\ logChan[place[c]] = c
    BY DEF Queued
  <2>2. DOMAIN logChan = 1 .. Len(logChan) /\ Len(logChan) \in Nat /\ Len(logChan) <= BufferSize
    BY DEF ServerInv, TypeOK
  <2>3. place \in [Q -> 1 .. Len(logChan)]
    BY <2>1, <2>2
  <2> HIDE DEF place, Q
  <2>4. place \in Injection(Q, 1 .. Len(logChan))
    BY <2>1, <2>3 DEF Injection, IsInjective
  <2>5. IsFiniteSet(1 .. Len(logChan)) /\ Cardinality(1 .. Len(logChan)) = Len(logChan)
    <3>1. 1 \in Int /\ Len(logChan) \in Int
      BY <2>2
    <3>2. Len(logChan) = IF 1 > Len(logChan) THEN 0 ELSE Len(logChan) - 1 + 1
      BY <2>2
    <3> QED
      BY <3>1, <3>2, FS_Interval
  <2>6. Cardinality(Q) <= Len(logChan)
    BY <2>4, <2>5, FS_Injection
  <2>7. Cardinality(Q) \in Nat
    BY <1>1, Finite
  <2> QED
    BY <2>2, <2>6, <2>7, ServerConstants
<1>4. Cardinality(H) <= Cardinality(Workers)
  <2> DEFINE holder == [c \in H |-> CHOOSE w \in Workers : worker[w].record = c]
  <2>1. \A c \in H : holder[c] \in Workers /\ worker[holder[c]].record = c
    BY DEF Held
  <2>2. holder \in [H -> Workers]
    BY <2>1
  <2> HIDE DEF holder, H
  <2>3. holder \in Injection(H, Workers)
    BY <2>1, <2>2 DEF Injection, IsInjective
  <2> QED
    BY <2>3, FS_Injection, ServerConstants
<1> HIDE DEF L, Q, H
<1>5. Cardinality(L) = Cardinality(Q) + Cardinality(H) - Cardinality(Q \cap H)
  BY <1>1, <1>2, Finite, FS_Union
<1>6. /\ Cardinality(L) \in Nat /\ Cardinality(Q) \in Nat /\ Cardinality(H) \in Nat
      /\ Cardinality(Q \cap H) \in Nat /\ Cardinality(Workers) \in Nat
  <2>1. Q \cap H \subseteq Call
    BY <1>1
  <2> QED
    BY <1>1, <2>1, Finite
<1>7. Cardinality(L) <= BufferSize + Cardinality(Workers)
  BY <1>3, <1>4, <1>5, <1>6, ServerConstants
<1> QED
  BY <1>7 DEF L, ExitLossBounded

\* Serve failing exits without AuditLogger.Stop; at most a buffer and one record
\* per worker are lost then, whatever the load.
THEOREM ServerExitLossBounded == Spec => []ExitLossBounded
<1>1. AuditInv => ExitLossBounded
  BY LossBounded DEF AuditInv
<1> QED
  BY <1>1, AuditInvariant, PTL

--------------------------------------------------------------------------------
(* The counters and the audit log tell the same story *)

Outcomes    == {"allow", "deny"}
Awaiting(v) == {h \in Handlers : handler[h].at = "logged" /\ verdict[handler[h].call] = v}
Decided(v)  == {c \in Logged : verdict[c] = v}
Unobserved  == {h \in Handlers : handler[h].at = "counted"}

LEMMA CountersMean ==
  CountersMatchDecisions <=>
    /\ \A v \in Outcomes : counter[v] + Cardinality(Awaiting(v)) = Cardinality(Decided(v))
    /\ observed + Cardinality(Unobserved) = counter["allow"] + counter["deny"]
BY DEF CountersMatchDecisions, Outcomes, Awaiting, Decided, Unobserved

\* The sets that are counted are finite, now and next.
LEMMA CountedSets ==
  ASSUME NEW v
  PROVE  /\ IsFiniteSet(Awaiting(v)) /\ Cardinality(Awaiting(v)) \in Nat
         /\ IsFiniteSet(Decided(v)) /\ Cardinality(Decided(v)) \in Nat
         /\ IsFiniteSet(Unobserved) /\ Cardinality(Unobserved) \in Nat
<1>1. Awaiting(v) \subseteq Handlers /\ Decided(v) \subseteq Call /\ Unobserved \subseteq Handlers
  BY DEF Awaiting, Decided, Unobserved, Logged
<1> QED
  BY <1>1, Finite

\* A step that leaves the counters and the counted sets alone.
LEMMA QuietCounters ==
  ASSUME CountersMatchDecisions, UNCHANGED metricVars,
         \A v \in Outcomes : Awaiting(v)' = Awaiting(v) /\ Decided(v)' = Decided(v),
         Unobserved' = Unobserved
  PROVE  CountersMatchDecisions'
<1>1. counter' = counter /\ observed' = observed
  BY DEF metricVars
<1>2. /\ \A v \in Outcomes : counter[v] + Cardinality(Awaiting(v)) = Cardinality(Decided(v))
      /\ observed + Cardinality(Unobserved) = counter["allow"] + counter["deny"]
  BY CountersMean
<1>3. /\ \A v \in Outcomes : counter'[v] + Cardinality(Awaiting(v)') = Cardinality(Decided(v)')
      /\ observed' + Cardinality(Unobserved') = counter'["allow"] + counter'["deny"]
  BY <1>1, <1>2
<1> QED
  BY <1>3 DEF CountersMatchDecisions, Outcomes, Awaiting, Decided, Unobserved

\* The next state's counters in terms of the next state's sets.
LEMMA CountersNext ==
  ASSUME \A v \in Outcomes : counter'[v] + Cardinality(Awaiting(v)') = Cardinality(Decided(v)'),
         observed' + Cardinality(Unobserved') = counter'["allow"] + counter'["deny"]
  PROVE  CountersMatchDecisions'
BY DEF CountersMatchDecisions, Outcomes, Awaiting, Decided, Unobserved

\* LogDecision adds a handler on its way to the counter and a decision.
LEMMA LogDecisionCounters ==
  ASSUME ServerInv, CountersMatchDecisions, NEW h \in Handlers, LogDecision(h)
  PROVE  CountersMatchDecisions'
<1>0. PICK c \in Call, u \in Outcomes : c = handler[h].call /\ u = verdict[handler[h].call]
  BY LogDecisionLogs DEF Outcomes
<1>1. /\ c \notin Logged /\ Logged' = Logged \cup {c} /\ verdict[c] = u
      /\ handler'[h].at = "logged" /\ handler'[h].call = c
      /\ \A g \in Handlers \ {h} : handler'[g] = handler[g]
      /\ verdict' = verdict /\ counter' = counter /\ observed' = observed
  BY <1>0, LogDecisionLogs DEF metricVars
<1>2. handler[h].at = "decided"
  BY DEF LogDecision, Send
<1>3. /\ h \notin Awaiting(u) /\ Awaiting(u)' = Awaiting(u) \cup {h}
      /\ c \notin Decided(u) /\ Decided(u)' = Decided(u) \cup {c}
  BY <1>1, <1>2 DEF Awaiting, Decided
<1>4. \A v \in Outcomes \ {u} : Awaiting(v)' = Awaiting(v) /\ Decided(v)' = Decided(v)
  BY <1>1, <1>2 DEF Awaiting, Decided
<1>5. Unobserved' = Unobserved
  BY <1>1, <1>2 DEF Unobserved
<1>6. /\ Cardinality(Awaiting(u) \cup {h}) = Cardinality(Awaiting(u)) + 1
      /\ Cardinality(Decided(u) \cup {c}) = Cardinality(Decided(u)) + 1
  BY <1>3, CountedSets, FS_AddElement
<1>7. counter \in [allow : Nat, deny : Nat]
  BY DEF ServerInv, TypeOK
<1>8. counter'[u] + Cardinality(Awaiting(u)') = Cardinality(Decided(u)')
  <2>1. counter[u] \in Nat /\ Cardinality(Awaiting(u)) \in Nat /\ Cardinality(Decided(u)) \in Nat
    BY <1>1, <1>7, CountedSets DEF Outcomes
  <2>2. counter[u] + Cardinality(Awaiting(u)) = Cardinality(Decided(u))
    BY <1>1, CountersMean
  <2> QED
    BY <1>1, <1>3, <1>6, <2>1, <2>2
<1>9. \A v \in Outcomes \ {u} : counter'[v] + Cardinality(Awaiting(v)') = Cardinality(Decided(v)')
  BY <1>1, <1>4, CountersMean
<1>10. observed' + Cardinality(Unobserved') = counter'["allow"] + counter'["deny"]
  BY <1>1, <1>5, CountersMean
<1> QED
  BY <1>8, <1>9, <1>10, CountersNext

\* Count moves a handler from before the counter to before the histogram.
LEMMA CountCounters ==
  ASSUME ServerInv, CountersMatchDecisions, NEW h \in Handlers, Count(h)
  PROVE  CountersMatchDecisions'
<1>0. PICK u \in Outcomes : u = verdict[handler[h].call]
  BY DEF Count, ServerInv, VerdictWhenDecided, Outcomes
<1>1. /\ handler[h].at = "logged" /\ verdict[handler[h].call] = u
      /\ handler'[h].at = "counted" /\ handler'[h].call = handler[h].call
      /\ \A g \in Handlers \ {h} : handler'[g] = handler[g]
      /\ verdict' = verdict /\ observed' = observed
      /\ counter' = [counter EXCEPT ![u] = @ + 1]
  BY <1>0 DEF Count, MoveTo, ServerInv, TypeOK
<1>2. Logged' = Logged
  BY QuietHandlers
<1>3. /\ h \in Awaiting(u) /\ Awaiting(u)' = Awaiting(u) \ {h}
      /\ \A v \in Outcomes \ {u} : Awaiting(v)' = Awaiting(v)
      /\ \A v \in Outcomes : Decided(v)' = Decided(v)
  BY <1>1, <1>2 DEF Awaiting, Decided
<1>4. h \notin Unobserved /\ Unobserved' = Unobserved \cup {h}
  BY <1>1 DEF Unobserved
<1>5. counter \in [allow : Nat, deny : Nat] /\ observed \in Nat
  BY DEF ServerInv, TypeOK
<1>6. /\ Cardinality(Awaiting(u) \ {h}) = Cardinality(Awaiting(u)) - 1
      /\ Cardinality(Unobserved \cup {h}) = Cardinality(Unobserved) + 1
  BY <1>3, <1>4, CountedSets, FS_AddElement, FS_RemoveElement
<1>7. /\ counter[u] \in Nat /\ counter'[u] = counter[u] + 1
      /\ \A v \in Outcomes \ {u} : counter'[v] = counter[v]
      /\ counter'["allow"] + counter'["deny"] = counter["allow"] + counter["deny"] + 1
  <2>1. CASE u = "allow"
    BY <1>1, <1>5, <2>1 DEF Outcomes
  <2>2. CASE u = "deny"
    BY <1>1, <1>5, <2>2 DEF Outcomes
  <2> QED
    BY <1>1, <2>1, <2>2 DEF Outcomes
<1>8. counter'[u] + Cardinality(Awaiting(u)') = Cardinality(Decided(u)')
  <2>1. Cardinality(Awaiting(u)) \in Nat /\ Cardinality(Decided(u)) \in Nat
    BY CountedSets
  <2>2. counter[u] + Cardinality(Awaiting(u)) = Cardinality(Decided(u))
    BY <1>1, CountersMean
  <2> QED
    BY <1>1, <1>3, <1>6, <1>7, <2>1, <2>2
<1>9. \A v \in Outcomes \ {u} : counter'[v] + Cardinality(Awaiting(v)') = Cardinality(Decided(v)')
  BY <1>3, <1>7, CountersMean
<1>10. observed' + Cardinality(Unobserved') = counter'["allow"] + counter'["deny"]
  <2>1. Cardinality(Unobserved) \in Nat
    BY CountedSets
  <2>2. observed + Cardinality(Unobserved) = counter["allow"] + counter["deny"]
    BY CountersMean
  <2> QED
    BY <1>1, <1>4, <1>5, <1>6, <1>7, <2>1, <2>2
<1> QED
  BY <1>8, <1>9, <1>10, CountersNext

\* Observe takes the handler off, with its observation made.
LEMMA ObserveCounters ==
  ASSUME ServerInv, CountersMatchDecisions, NEW h \in Handlers, Observe(h)
  PROVE  CountersMatchDecisions'
<1>1. /\ handler[h].at = "counted" /\ handler'[h].at = "idle"
      /\ \A g \in Handlers \ {h} : handler'[g] = handler[g]
      /\ verdict' = verdict /\ observed' = observed + 1 /\ counter' = counter
  BY DEF Observe, Finish, ServerInv, TypeOK
<1>2. Logged' = Logged
  BY QuietHandlers
<1>3. \A v \in Outcomes : Awaiting(v)' = Awaiting(v) /\ Decided(v)' = Decided(v)
  BY <1>1, <1>2 DEF Awaiting, Decided
<1>4. h \in Unobserved /\ Unobserved' = Unobserved \ {h}
  BY <1>1 DEF Unobserved
<1>5. Cardinality(Unobserved \ {h}) = Cardinality(Unobserved) - 1 /\ Cardinality(Unobserved) \in Nat
  BY <1>4, CountedSets, FS_RemoveElement
<1>6. observed \in Nat /\ observed + Cardinality(Unobserved) = counter["allow"] + counter["deny"]
  BY CountersMean DEF ServerInv, TypeOK
<1>7. observed' + Cardinality(Unobserved') = counter'["allow"] + counter'["deny"]
  BY <1>1, <1>4, <1>5, <1>6
<1>8. \A v \in Outcomes : counter'[v] + Cardinality(Awaiting(v)') = Cardinality(Decided(v)')
  BY <1>1, <1>3, CountersMean
<1> QED
  BY <1>7, <1>8, CountersNext

\* Receive, Evaluate and Fail concern a call that is not logged.
LEMMA EarlyCounters ==
  ASSUME ServerInv, CountersMatchDecisions, NEW h \in Handlers,
         Receive(h) \/ Evaluate(h) \/ Fail(h)
  PROVE  CountersMatchDecisions'
<1>1. Logged' = Logged /\ UNCHANGED metricVars
  BY QuietHandlers DEF Receive, Evaluate, Fail
<1>2. /\ handler[h].at \notin {"logged", "counted"}
      /\ handler'[h].at \notin {"logged", "counted"}
      /\ \A g \in Handlers \ {h} : handler'[g] = handler[g]
  BY DEF Receive, Evaluate, Fail, MoveTo, Finish, ServerInv, TypeOK
<1>3. \A c \in Call : verdict'[c] # verdict[c] => c = handler[h].call /\ handler[h].at = "evaluate"
  BY DEF Receive, Evaluate, Fail, ServerInv, TypeOK
<1>4. \A c \in Logged : verdict'[c] = verdict[c]
  BY <1>3, NotLogged DEF Logged
<1>5. \A g \in Handlers : handler[g].at = "logged" => verdict'[handler[g].call] = verdict[handler[g].call]
  BY <1>2, <1>3, BusyCall
<1>6. \A v \in Outcomes : Awaiting(v)' = Awaiting(v) /\ Decided(v)' = Decided(v)
  BY <1>1, <1>2, <1>4, <1>5 DEF Awaiting, Decided
<1>7. Unobserved' = Unobserved
  BY <1>2 DEF Unobserved
<1> QED
  BY <1>1, <1>6, <1>7, QuietCounters

LEMMA NextCounters ==
  ASSUME ServerInv, CountersMatchDecisions, [Next]_vars
  PROVE  CountersMatchDecisions'
<1>1. ASSUME NEW h \in Handlers, Receive(h) \/ HandlerStep(h)
      PROVE  CountersMatchDecisions'
  BY <1>1, LogDecisionCounters, CountCounters, ObserveCounters, EarlyCounters DEF HandlerStep
<1>2. CASE \/ \E w \in Workers : WorkerStep(w)
           \/ GracefulStop \/ StopAudit \/ StopReturns \/ ServeFails \/ UNCHANGED vars
  <2>1. UNCHANGED <<handler, verdict, metricVars>>
    BY <1>2 DEF WorkerStep, Take, Write, WorkerExit, GracefulStop, StopAudit, StopReturns,
                ServeFails, vars
  <2>2. Logged' = Logged
    BY <2>1 DEF Logged
  <2>3. \A v \in Outcomes : Awaiting(v)' = Awaiting(v) /\ Decided(v)' = Decided(v)
    BY <2>1, <2>2 DEF Awaiting, Decided
  <2>4. Unobserved' = Unobserved
    BY <2>1 DEF Unobserved
  <2> QED
    BY <2>1, <2>3, <2>4, QuietCounters
<1> QED
  BY <1>1, <1>2 DEF Next

LEMMA InitCounters == Init => CountersMatchDecisions
<1> SUFFICES ASSUME Init PROVE CountersMatchDecisions
  OBVIOUS
<1>1. \A v \in Outcomes : Awaiting(v) = {} /\ Decided(v) = {}
  BY ServerConstants DEF Init, Awaiting, Decided, Logged, Outcomes, Verdicts
<1>2. Unobserved = {}
  BY DEF Init, Unobserved
<1>3. \A v \in Outcomes : counter[v] = 0
  BY DEF Init, Outcomes
<1>4. observed = 0
  BY DEF Init
<1> QED
  BY <1>1, <1>2, <1>3, <1>4, CountersMean, FS_EmptySet DEF Outcomes

\* authz_evaluations_total and the audit log never drift apart by more than the
\* handlers between the two, nor the histogram from the counters (the interceptor
\* of internal/metrics/metrics.go around the handler of internal/server/grpc.go).
THEOREM ServerCountersMatchDecisions == Spec => []CountersMatchDecisions
<1>1. Init => ServerInv /\ CountersMatchDecisions
  BY InitServerInv, InitCounters
<1>2. (ServerInv /\ CountersMatchDecisions) /\ [Next]_vars => (ServerInv /\ CountersMatchDecisions)'
  BY NextServerInv, NextCounters
<1> QED
  BY <1>1, <1>2, PTL DEF Spec
================================================================================

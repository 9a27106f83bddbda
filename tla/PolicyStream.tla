------------------------------ MODULE PolicyStream ------------------------------
(***************************************************************************)
(* The policy-update path: publishers append entries to a Redis stream     *)
(* (internal/subscriber/publish.go), one subscriber goroutine reads them   *)
(* one at a time and applies them to the store                             *)
(* (internal/subscriber/redis.go).  The store is the one map of            *)
(* ActivePolicies, which PolicyStore implements; a call on it still takes  *)
(* several steps.  Neither lastID nor the store survives a restart: the    *)
(* new process replays the stream from its beginning.                      *)
(*                                                                         *)
(* Entry ids are positions in the stream.  An entry is                     *)
(*   [action, policy_id, policy_json]                                      *)
(* with Missing for an absent field, Malformed for a payload that is not   *)
(* JSON of a policy, and else the policy [id, access, body] it decodes to. *)
(***************************************************************************)
EXTENDS Naturals, Sequences

CONSTANTS
  Ids,          \* policy identifiers
  Modes,        \* access modes a payload may carry
  Bodies,       \* versions of the rest of a policy
  Uncompilable, \* the bodies with an invalid REGEX pattern
  Entries,      \* what a publisher may append
  Missing, Malformed,
  NoPolicy, Idle,
  Sub,          \* the subscriber's goroutine
  MaxLen,       \* bound: length of the stream
  MaxCrashes    \* bound: process crashes

Policy == [id : Ids, access : Modes, body : Bodies]

Calls == [op : {"upsert"}, id : Ids, policy : Policy] \cup [op : {"delete"}, id : Ids]

ASSUME StreamConstants ==
  /\ Uncompilable \subseteq Bodies
  /\ Missing \notin Ids /\ Missing \notin Policy /\ Malformed \notin Policy
  /\ NoPolicy \notin Policy /\ Idle \notin Calls
  /\ \A e \in Entries : e.policy_id \in Ids \cup {Missing}
  /\ MaxLen \in Nat /\ MaxCrashes \in Nat

VARIABLES
  stream,    \* the Redis stream
  lastID,    \* Start's lastID: position of the last entry applied
  pc,        \* where Start is; "down" while no process runs
  cancelled, \* is the context done?
  crashes,   \* crashes so far
  active,    \* the store: the policy in force for each id
  pending    \* the subscriber's call on the store

Store == INSTANCE ActivePolicies WITH Writers <- {Sub}

storeVars == <<active, pending>>
vars == <<stream, lastID, pc, cancelled, crashes, storeVars>>

Locations == {"loop", "read", "apply", "backoff", "stopped", "down"}

Init ==
  /\ Store!Init
  /\ stream    = <<>>
  /\ lastID    = 0
  /\ pc        = "loop"
  /\ cancelled = FALSE
  /\ crashes   = 0

--------------------------------------------------------------------------------
(* Publishers *)

\* XADD appends the entry.  (What Publish then returns to its caller, and an XADD
\* whose reply is lost, is the subject of Seeding.)
Publish(e) ==
  /\ Len(stream) < MaxLen
  /\ stream' = Append(stream, e)
  /\ UNCHANGED <<lastID, pc, cancelled, crashes, storeVars>>

--------------------------------------------------------------------------------
(* The subscriber *)

AccessModes == {"ALLOW", "DENY"}

\* Policy.Compile: every REGEX pattern must be valid.
Compile(p) == p.body \notin Uncompilable

UpsertCall(p)  == [op |-> "upsert", id |-> p.id, policy |-> p]
DeleteCall(id) == [op |-> "delete", id |-> id]

\* Mutant: the access mode is left to UpsertPolicy's routing.
processMessageEntryAnyMode(e) ==
  IF /\ e.action = "UPSERT" /\ e.policy_id # Missing
     /\ e.policy_json \in Policy
     /\ Compile(e.policy_json)
  THEN UpsertCall(e.policy_json)
  ELSE IF e.action = "DELETE" /\ e.policy_id # Missing
       THEN DeleteCall(e.policy_id)
       ELSE Idle

\* Mutant: an upsert is filed under the entry's policy_id.
processMessageEntryByPolicyId(e) ==
  IF /\ e.action = "UPSERT" /\ e.policy_id # Missing
     /\ e.policy_json \in Policy
     /\ e.policy_json.access \in AccessModes
     /\ Compile(e.policy_json)
  THEN [op |-> "upsert", id |-> e.policy_id, policy |-> e.policy_json]
  ELSE IF e.action = "DELETE" /\ e.policy_id # Missing
       THEN DeleteCall(e.policy_id)
       ELSE Idle

\* The call an entry leads to; Idle when it is rejected.  The payload's own id,
\* not policy_id, is the key of an upsert.
processMessageEntry(e) ==
  IF /\ e.action = "UPSERT" /\ e.policy_id # Missing
     /\ e.policy_json \in Policy
     /\ e.policy_json.access \in AccessModes
     /\ Compile(e.policy_json)
  THEN UpsertCall(e.policy_json)
  ELSE IF e.action = "DELETE" /\ e.policy_id # Missing
       THEN DeleteCall(e.policy_id)
       ELSE Idle

\* Mutant: the loop does not look at the context.
CheckContextNever ==
  /\ pc = "loop"
  /\ pc' = "read"
  /\ UNCHANGED <<stream, lastID, cancelled, crashes, storeVars>>

\* The top of the loop: ctx.Err(), then XREAD is issued.
CheckContext ==
  /\ pc = "loop"
  /\ pc' = IF cancelled THEN "stopped" ELSE "read"
  /\ UNCHANGED <<stream, lastID, cancelled, crashes, storeVars>>

\* The entry XREAD COUNT 1 returns, the first one after lastID.
NextCall == processMessageEntry(stream[lastID + 1])

\* Mutant: a rejected update also withdraws the version in force.
SkipEntryWithdraws ==
  /\ pc = "read"
  /\ lastID < Len(stream)
  /\ NextCall = Idle
  /\ lastID' = lastID + 1
  /\ pc' = "loop"
  /\ active' = [id \in Ids |-> IF id = stream[lastID + 1].policy_id THEN NoPolicy ELSE active[id]]
  /\ UNCHANGED <<stream, cancelled, crashes, pending>>

\* XREAD returned an entry that is rejected: it is logged and passed over.
SkipEntry ==
  /\ pc = "read"
  /\ lastID < Len(stream)
  /\ NextCall = Idle
  /\ lastID' = lastID + 1
  /\ pc' = "loop"
  /\ UNCHANGED <<stream, cancelled, crashes, storeVars>>

\* XREAD returned an entry that is accepted: the store is called.
ApplyEntry ==
  /\ pc = "read"
  /\ lastID < Len(stream)
  /\ NextCall # Idle
  /\ Store!Invoke(Sub, NextCall)
  /\ pc' = "apply"
  /\ UNCHANGED <<stream, lastID, cancelled, crashes>>

\* The store call in progress takes a step that is visible to readers.
StoreStep ==
  /\ pc = "apply"
  /\ Store!Withdraw(Sub)
  /\ UNCHANGED <<stream, lastID, pc, cancelled, crashes>>

\* The store call returns and lastID moves to the entry.
StoreReturn ==
  /\ pc = "apply"
  /\ Store!Return(Sub)
  /\ lastID' = lastID + 1
  /\ pc' = "loop"
  /\ UNCHANGED <<stream, cancelled, crashes>>

\* Mutant: lastID moves on although nothing was read.
XReadNilAdvances ==
  /\ pc = "read"
  /\ lastID = Len(stream)
  /\ lastID' = lastID + 1
  /\ pc' = "loop"
  /\ UNCHANGED <<stream, cancelled, crashes, storeVars>>

\* Nothing arrived for five seconds: redis.Nil.
XReadNil ==
  /\ pc = "read"
  /\ lastID = Len(stream)
  /\ pc' = "loop"
  /\ UNCHANGED <<stream, lastID, cancelled, crashes, storeVars>>

\* Redis is unreachable, or the context is done.
XReadError ==
  /\ pc = "read"
  /\ pc' = IF cancelled THEN "stopped" ELSE "backoff"
  /\ UNCHANGED <<stream, lastID, cancelled, crashes, storeVars>>

\* The select of the back-off: time.After, or ctx.Done when it is ready too.
Backoff ==
  /\ pc = "backoff"
  /\ pc' \in IF cancelled THEN {"loop", "stopped"} ELSE {"loop"}
  /\ UNCHANGED <<stream, lastID, cancelled, crashes, storeVars>>

Cancel ==
  /\ pc # "down"
  /\ ~cancelled
  /\ cancelled' = TRUE
  /\ UNCHANGED <<stream, lastID, pc, crashes, storeVars>>

--------------------------------------------------------------------------------
(* The process *)

\* The process dies: the store and lastID are gone, the stream stays.
Crash ==
  /\ pc # "down"
  /\ crashes < MaxCrashes
  /\ crashes' = crashes + 1
  /\ pc' = "down"
  /\ lastID' = 0
  /\ active'  = [id \in Ids |-> NoPolicy]
  /\ pending' = [w \in {Sub} |-> Idle]
  /\ UNCHANGED <<stream, cancelled>>

\* Mutant: the new process only asks for entries that are yet to come ("$").
RestartAtEnd ==
  /\ pc = "down"
  /\ pc' = "loop"
  /\ cancelled' = FALSE
  /\ lastID' = Len(stream)
  /\ UNCHANGED <<stream, crashes, storeVars>>

\* main: a new store, a new subscriber, lastID "0".
Restart ==
  /\ pc = "down"
  /\ pc' = "loop"
  /\ cancelled' = FALSE
  /\ UNCHANGED <<stream, lastID, crashes, storeVars>>

ReadEntry == SkipEntry \/ ApplyEntry
XRead     == ReadEntry \/ XReadNil \/ XReadError
Apply     == StoreStep \/ StoreReturn

Subscriber == CheckContext \/ XRead \/ Apply \/ Backoff

Next ==
  \/ \E e \in Entries : Publish(e)
  \/ Subscriber
  \/ Cancel
  \/ Crash
  \/ Restart

Spec == Init /\ [][Next]_vars

\* XREAD always comes back (Block is five seconds), the back-off ends after one,
\* store calls return (LockFree of PolicyStore), a dead process is restarted,
\* and Redis does not fail every single read for ever.
Fairness ==
  /\ WF_vars(CheckContext) /\ WF_vars(XRead) /\ WF_vars(Apply) /\ WF_vars(Backoff)
  /\ SF_vars(ReadEntry)
  /\ WF_vars(Restart)

FairSpec == Spec /\ Fairness

--------------------------------------------------------------------------------
(* Properties *)

\* Every variable holds a value of its kind; lastID never runs past the stream.
TypeOK ==
  /\ stream \in Seq(Entries)
  /\ lastID \in 0 .. Len(stream)
  /\ pc \in Locations
  /\ cancelled \in BOOLEAN
  /\ crashes \in 0 .. MaxCrashes
  /\ active \in [Ids -> Policy \cup {NoPolicy}]
  /\ pending \in [{Sub} -> Calls \cup {Idle}]

\* Whose policy an entry is about, read off the entry and not off the code: an
\* upsert is about the policy that its payload names, a delete about policy_id.
Updates(e, id) ==
  \/ /\ e.action = "UPSERT" /\ e.policy_id # Missing
     /\ \E p \in Policy : /\ e.policy_json = p /\ p.id = id
                         /\ p.access \in AccessModes /\ p.body \notin Uncompilable
  \/ e.action = "DELETE" /\ e.policy_id = id

\* What an entry leaves in force for the id it is about.
Leaves(e) == IF e.action = "UPSERT" THEN e.policy_json ELSE NoPolicy

\* Is the i-th entry an update of this id?
Touches(i, id) == Updates(stream[i], id)

\* What is in force for an id is what the last update of it among the first n
\* entries says, and nothing if there is none.
Explained(id, n) ==
  \/ /\ active[id] = NoPolicy
     /\ \A i \in 1 .. n : ~Touches(i, id)
  \/ \E i \in 1 .. n :
       /\ Touches(i, id)
       /\ \A j \in i + 1 .. n : ~Touches(j, id)
       /\ active[id] = Leaves(stream[i])

\* The store is the effect of exactly the entries up to lastID, in order, each
\* once, rejected ones changing nothing, whatever read errors, crashes and
\* replays came in between; the entry being applied may only have withdrawn the
\* policy it replaces.
AppliedInOrder ==
  \A id \in Ids :
    \/ Explained(id, lastID)
    \/ /\ pc = "apply"
       /\ pending[Sub].id = id
       /\ active[id] = NoPolicy

\* The policies the first n entries leave in force.
InForce(n) ==
  [id \in Ids |->
     LET T == {i \in 1 .. n : Touches(i, id)} IN
     IF T = {} THEN NoPolicy
     ELSE Leaves(stream[CHOOSE i \in T : \A j \in T : j <= i])]

\* The engine's decision on a request that the policies of M match.
Grants(a, M) ==
  /\ \E id \in Ids : a[id] \in M /\ a[id].access = "ALLOW"
  /\ \A id \in Ids : a[id] \in M => a[id].access = "ALLOW"

\* Whatever a request matches among the policies in the stream, it is decided at
\* every moment as it would be after the entries up to lastID, or after the one
\* being applied as well.  UpsertPolicy's two swaps never show: "every
\* interleaving of those two independent atomic operations is fail-safe".
DecisionHasPosition ==
  \A M \in SUBSET {p \in Policy : \E i \in DOMAIN stream : stream[i].policy_json = p} :
    \E n \in {lastID, lastID + 1} :
      n <= Len(stream) /\ (Grants(active, M) <=> Grants(InForce(n), M))

\* A policy that no operator can evaluate, or whose access mode is neither ALLOW
\* nor DENY, never becomes active, not even during a replay.
OnlyValidated ==
  \A id \in Ids :
    active[id] # NoPolicy =>
      /\ active[id].access \in AccessModes
      /\ active[id].body \notin Uncompilable

\* The subscriber catches up with the stream and stays there, however often
\* reads fail, entries are rejected or the process restarts, unless it is told
\* to stop: "on boot it replays the stream ... so it picks up any missed updates".
Converges ==
  <>[](\/ cancelled
       \/ pending[Sub] = Idle /\ \A id \in Ids : Explained(id, Len(stream)))

\* A done context stops the loop, and between entries: no update is left half
\* applied in a store that goes on serving requests.
StopsCleanly ==
  cancelled ~> (pc \in {"stopped", "down"} /\ pending[Sub] = Idle)
================================================================================

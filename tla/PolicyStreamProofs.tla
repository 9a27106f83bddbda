--------------------------- MODULE PolicyStreamProofs ---------------------------
(***************************************************************************)
(* Proofs about PolicyStream for every set of ids, modes, bodies and       *)
(* entries, and streams of any length.                                     *)
(***************************************************************************)
EXTENDS PolicyStream, TLAPS

\* The subscriber is inside a store call exactly while it applies an entry, and
\* the call is the one the entry after lastID asks for.
PendingIsNext ==
  IF pc = "apply"
  THEN /\ lastID < Len(stream)
       /\ pending[Sub] # Idle
       /\ pending[Sub] = NextCall
  ELSE pending[Sub] = Idle

\* The subscriber's part of the state, for a stream of entries from E: Seeding
\* has publishers of its own.
SubscriberInv(E) ==
  /\ stream \in Seq(E)
  /\ lastID \in 0 .. Len(stream)
  /\ pc \in Locations
  /\ active \in [Ids -> Policy \cup {NoPolicy}]
  /\ pending \in [{Sub} -> Calls \cup {Idle}]
  /\ PendingIsNext

\* What StreamConstants asks of the entries.
Identified(E) == \A e \in E : e.policy_id \in Ids \cup {Missing}

\* What a store call leaves in force for its id.
Outcome(c) == IF c.op = "upsert" THEN c.policy ELSE NoPolicy

\* What XREAD and ApplyEntry leave to the store is a call of the store, and an
\* upsert among them carries a policy that compiles and a known access mode.
LEMMA EntryCall ==
  ASSUME NEW e, e.policy_id \in Ids \cup {Missing}, processMessageEntry(e) # Idle
  PROVE  /\ processMessageEntry(e) \in Calls
         /\ processMessageEntry(e).id \in Ids
         /\ Outcome(processMessageEntry(e)) \in Policy \cup {NoPolicy}
         /\ processMessageEntry(e).op = "upsert" =>
              /\ processMessageEntry(e).policy \in Policy
              /\ processMessageEntry(e).policy.access \in AccessModes
              /\ processMessageEntry(e).policy.body \notin Uncompilable
<1>1. CASE /\ e.action = "UPSERT" /\ e.policy_id # Missing
           /\ e.policy_json \in Policy
           /\ e.policy_json.access \in AccessModes
           /\ Compile(e.policy_json)
  <2>1. processMessageEntry(e) = UpsertCall(e.policy_json)
    BY <1>1 DEF processMessageEntry
  <2>2. e.policy_json \in Policy /\ e.policy_json.id \in Ids
    BY <1>1 DEF Policy
  <2>3. UpsertCall(e.policy_json) \in Calls
    BY <2>2 DEF UpsertCall, Calls
  <2> QED
    BY <1>1, <2>1, <2>2, <2>3 DEF UpsertCall, Outcome, Compile
<1>2. CASE ~ (/\ e.action = "UPSERT" /\ e.policy_id # Missing
              /\ e.policy_json \in Policy
              /\ e.policy_json.access \in AccessModes
              /\ Compile(e.policy_json))
  <2>1. processMessageEntry(e) = DeleteCall(e.policy_id) /\ e.policy_id \in Ids
    BY <1>2 DEF processMessageEntry
  <2> QED
    BY <2>1 DEF DeleteCall, Calls, Outcome
<1> QED
  BY <1>1, <1>2

\* The code's reading of an entry agrees with what the entry says: a call results
\* exactly for the id the entry is about, and asks for what the entry leaves.
LEMMA EntryMeans ==
  ASSUME NEW e, NEW id \in Ids
  PROVE  /\ Updates(e, id) <=> /\ processMessageEntry(e) # Idle
                               /\ processMessageEntry(e).id = id
         /\ Updates(e, id) => Leaves(e) = Outcome(processMessageEntry(e))
<1> DEFINE Upserted == /\ e.action = "UPSERT" /\ e.policy_id # Missing
                       /\ e.policy_json \in Policy
                       /\ e.policy_json.access \in AccessModes
                       /\ Compile(e.policy_json)
<1>1. CASE Upserted
  <2>1. processMessageEntry(e) = UpsertCall(e.policy_json)
    BY <1>1 DEF processMessageEntry
  <2>2. e.policy_json \in Policy /\ e.policy_json.id \in Ids
    BY <1>1 DEF Policy
  <2>3. UpsertCall(e.policy_json) \in Calls
    BY <2>2 DEF UpsertCall, Calls
  <2>4. processMessageEntry(e) # Idle
    BY <2>1, <2>3, StreamConstants
  <2>5. Updates(e, id) <=> e.policy_json.id = id
    BY <1>1, <2>2 DEF Updates, Compile
  <2> QED
    BY <1>1, <2>1, <2>4, <2>5 DEF UpsertCall, Outcome, Leaves
<1>2. CASE ~Upserted /\ e.action = "DELETE" /\ e.policy_id # Missing
  <2>1. processMessageEntry(e) = DeleteCall(e.policy_id)
    BY <1>2 DEF processMessageEntry
  <2>2. Updates(e, id) <=> e.policy_id = id
    BY <1>2 DEF Updates
  <2>3. e.policy_id = id => DeleteCall(e.policy_id) \in Calls
    BY DEF DeleteCall, Calls
  <2>4. e.policy_id = id => processMessageEntry(e) # Idle
    BY <2>1, <2>3, StreamConstants
  <2> QED
    BY <1>2, <2>1, <2>2, <2>4 DEF DeleteCall, Outcome, Leaves
<1>3. CASE ~Upserted /\ ~(e.action = "DELETE" /\ e.policy_id # Missing)
  <2>1. processMessageEntry(e) = Idle
    BY <1>3 DEF processMessageEntry
  <2>2. ~Updates(e, id)
    BY <1>3, StreamConstants DEF Updates, Compile
  <2> QED
    BY <2>1, <2>2
<1> QED
  BY <1>1, <1>2, <1>3

\* An entry that XREAD may return is an entry some publisher appended.
LEMMA EntryRead ==
  ASSUME NEW E, SubscriberInv(E), lastID < Len(stream)
  PROVE  stream[lastID + 1] \in E /\ lastID + 1 \in 1 .. Len(stream)
BY DEF SubscriberInv

\* The store call in progress, as PendingIsNext describes it.
LEMMA CallInProgress ==
  ASSUME NEW E, Identified(E), SubscriberInv(E), pc = "apply"
  PROVE  /\ stream[lastID + 1] \in E
         /\ lastID + 1 \in 1 .. Len(stream)
         /\ pending[Sub] = processMessageEntry(stream[lastID + 1])
         /\ pending[Sub] # Idle
         /\ pending[Sub].id \in Ids
         /\ Outcome(pending[Sub]) \in Policy \cup {NoPolicy}
<1>1. lastID < Len(stream) /\ pending[Sub] # Idle /\ pending[Sub] = NextCall
  BY DEF SubscriberInv, PendingIsNext
<1>2. stream[lastID + 1] \in E /\ lastID + 1 \in 1 .. Len(stream)
  BY <1>1, EntryRead
<1> QED
  BY <1>1, <1>2, EntryCall DEF NextCall, Identified

\* A step of the store call only removes the entry of the call's id, and only
\* ahead of one from the other side.
LEMMA StoreStepEffect ==
  ASSUME NEW E, Identified(E), SubscriberInv(E), StoreStep
  PROVE  /\ pc = "apply"
         /\ pending[Sub].op = "upsert" =>
              ~Store!SameSide(active[pending[Sub].id], pending[Sub].policy)
         /\ active' \in [Ids -> Policy \cup {NoPolicy}]
         /\ active'[pending[Sub].id] = NoPolicy
         /\ \A id \in Ids \ {pending[Sub].id} : active'[id] = active[id]
         /\ pending' = pending
         /\ UNCHANGED <<stream, lastID, pc, cancelled, crashes>>
<1>1. /\ pc = "apply" /\ Store!Withdraw(Sub)
      /\ UNCHANGED <<stream, lastID, pc, cancelled, crashes>>
  BY DEF StoreStep
<1>2. pending[Sub].id \in Ids
  BY <1>1, CallInProgress
<1> QED
  BY <1>1, <1>2 DEF Store!Withdraw, SubscriberInv

\* The return leaves what the call asks for, and nothing else changed.
LEMMA StoreReturnEffect ==
  ASSUME NEW E, Identified(E), SubscriberInv(E), StoreReturn
  PROVE  /\ pc = "apply"
         /\ active' \in [Ids -> Policy \cup {NoPolicy}]
         /\ active'[pending[Sub].id] = Outcome(pending[Sub])
         /\ \A id \in Ids \ {pending[Sub].id} : active'[id] = active[id]
         /\ pending' \in [{Sub} -> Calls \cup {Idle}]
         /\ pending'[Sub] = Idle
         /\ lastID' = lastID + 1
         /\ pc' = "loop"
         /\ UNCHANGED <<stream, cancelled, crashes>>
<1>1. /\ pc = "apply" /\ lastID' = lastID + 1 /\ pc' = "loop"
      /\ UNCHANGED <<stream, cancelled, crashes>>
      /\ Store!Return(Sub)
  BY DEF StoreReturn
<1>2. /\ pending[Sub].id \in Ids
      /\ Outcome(pending[Sub]) \in Policy \cup {NoPolicy}
  BY <1>1, CallInProgress
<1>3. active' = [active EXCEPT ![pending[Sub].id] = Outcome(pending[Sub])]
  BY <1>1 DEF Store!Return, Outcome
<1>4. pending' = [pending EXCEPT ![Sub] = Idle]
  BY <1>1 DEF Store!Return
<1> QED
  BY <1>1, <1>2, <1>3, <1>4 DEF SubscriberInv

\* Publishing leaves every entry that was there in its place.
LEMMA PublishKeeps ==
  ASSUME NEW E, SubscriberInv(E), NEW e \in E, Publish(e)
  PROVE  /\ stream' \in Seq(E)
         /\ Len(stream') = Len(stream) + 1
         /\ \A i \in 1 .. Len(stream) : stream'[i] = stream[i]
BY DEF SubscriberInv, Publish

LEMMA InitSubscriberInv ==
  ASSUME NEW E, Init
  PROVE  SubscriberInv(E)
<1>1. stream \in Seq(E) /\ Len(stream) = 0
  BY DEF Init
<1>2. pending = [w \in {Sub} |-> Idle] /\ pending[Sub] = Idle
  BY DEF Init, Store!Init
<1>3. pending \in [{Sub} -> Calls \cup {Idle}] /\ active \in [Ids -> Policy \cup {NoPolicy}]
  BY DEF Init, Store!Init
<1> QED
  BY <1>1, <1>2, <1>3 DEF Init, SubscriberInv, PendingIsNext, Locations

LEMMA PublishSubscriberInv ==
  ASSUME NEW E, SubscriberInv(E), NEW e \in E, Publish(e)
  PROVE  SubscriberInv(E)'
<1>1. /\ stream' \in Seq(E) /\ Len(stream') = Len(stream) + 1
      /\ \A i \in 1 .. Len(stream) : stream'[i] = stream[i]
  BY PublishKeeps
<1>2. Len(stream) \in Nat /\ lastID \in 0 .. Len(stream)
  BY DEF SubscriberInv
<1>3. UNCHANGED <<lastID, pc, active, pending>>
  BY DEF Publish, storeVars
<1>4. PendingIsNext'
  <2>1. CASE pc = "apply"
    <3>1. lastID < Len(stream) /\ lastID + 1 \in 1 .. Len(stream)
      BY <1>2, <2>1 DEF SubscriberInv, PendingIsNext
    <3>2. NextCall' = NextCall
      BY <1>1, <1>3, <3>1 DEF NextCall
    <3> QED
      BY <1>1, <1>2, <1>3, <2>1, <3>1, <3>2 DEF SubscriberInv, PendingIsNext
  <2>2. CASE pc # "apply"
    BY <1>3, <2>2 DEF SubscriberInv, PendingIsNext
  <2> QED
    BY <2>1, <2>2
<1> QED
  BY <1>1, <1>2, <1>3, <1>4 DEF SubscriberInv

LEMMA EngineSubscriberInv ==
  ASSUME NEW E, Identified(E), SubscriberInv(E), Subscriber \/ Cancel \/ Crash \/ Restart
  PROVE  SubscriberInv(E)'
<1> USE DEF Locations
<1>1. CASE CheckContext
  BY <1>1 DEF CheckContext, storeVars, SubscriberInv, PendingIsNext
<1>2. CASE SkipEntry
  BY <1>2 DEF SkipEntry, storeVars, SubscriberInv, PendingIsNext
<1>3. CASE ApplyEntry
  <2>1. NextCall \in Calls
    BY <1>3, EntryRead, EntryCall DEF ApplyEntry, NextCall, Identified
  <2>2. pending' = [pending EXCEPT ![Sub] = NextCall] /\ active' = active
    BY <1>3 DEF ApplyEntry, Store!Invoke
  <2>3. NextCall' = NextCall
    BY <1>3 DEF ApplyEntry, NextCall
  <2> QED
    BY <1>3, <2>1, <2>2, <2>3 DEF ApplyEntry, SubscriberInv, PendingIsNext
<1>4. CASE StoreStep
  <2>1. NextCall' = NextCall
    BY <1>4 DEF StoreStep, NextCall
  <2> QED
    BY <1>4, <2>1, StoreStepEffect DEF SubscriberInv, PendingIsNext
<1>5. CASE StoreReturn
  <2>1. lastID + 1 \in 0 .. Len(stream)
    BY <1>5, StoreReturnEffect, CallInProgress
  <2> QED
    BY <1>5, <2>1, StoreReturnEffect DEF SubscriberInv, PendingIsNext
<1>6. CASE XReadNil
  BY <1>6 DEF XReadNil, storeVars, SubscriberInv, PendingIsNext
<1>7. CASE XReadError
  BY <1>7 DEF XReadError, storeVars, SubscriberInv, PendingIsNext
<1>8. CASE Backoff
  BY <1>8 DEF Backoff, storeVars, SubscriberInv, PendingIsNext
<1>9. CASE Cancel
  BY <1>9 DEF Cancel, storeVars, SubscriberInv, PendingIsNext, NextCall
<1>10. CASE Crash
  BY <1>10 DEF Crash, SubscriberInv, PendingIsNext
<1>11. CASE Restart
  BY <1>11 DEF Restart, storeVars, SubscriberInv, PendingIsNext
<1> QED
  BY <1>1, <1>2, <1>3, <1>4, <1>5, <1>6, <1>7, <1>8, <1>9, <1>10, <1>11
     DEF Subscriber, XRead, ReadEntry, Apply

--------------------------------------------------------------------------------
(* The invariant of PolicyStream *)

StreamInv == TypeOK /\ PendingIsNext

LEMMA StreamInvParts ==
  /\ Identified(Entries)
  /\ StreamInv => SubscriberInv(Entries)
  /\ SubscriberInv(Entries) /\ cancelled \in BOOLEAN /\ crashes \in 0 .. MaxCrashes => StreamInv
BY StreamConstants DEF Identified, StreamInv, SubscriberInv, TypeOK

LEMMA InitStreamInv == Init => StreamInv
<1> SUFFICES ASSUME Init PROVE StreamInv
  OBVIOUS
<1>1. crashes \in 0 .. MaxCrashes
  <2>1. crashes = 0 /\ MaxCrashes \in Nat
    BY StreamConstants DEF Init
  <2> QED
    BY <2>1
<1>2. cancelled \in BOOLEAN
  BY DEF Init
<1> QED
  BY <1>1, <1>2, InitSubscriberInv, StreamInvParts

LEMMA NextStreamInv ==
  ASSUME StreamInv, [Next]_vars
  PROVE  StreamInv'
<1>1. SubscriberInv(Entries)'
  <2>1. CASE UNCHANGED vars
    BY <2>1, StreamInvParts DEF vars, storeVars, SubscriberInv, PendingIsNext, NextCall
  <2> QED
    BY <2>1, StreamInvParts, PublishSubscriberInv, EngineSubscriberInv DEF Next
<1>2. cancelled' \in BOOLEAN
  BY DEF StreamInv, TypeOK, Next, Publish, Subscriber, CheckContext, XRead, ReadEntry, SkipEntry,
         ApplyEntry, XReadNil, XReadError, Apply, StoreStep, StoreReturn, Backoff, Cancel, Crash,
         Restart, vars
<1>3. crashes' \in 0 .. MaxCrashes
  <2>1. crashes \in 0 .. MaxCrashes /\ MaxCrashes \in Nat
    BY StreamConstants DEF StreamInv, TypeOK
  <2>2. crashes' = crashes \/ (crashes < MaxCrashes /\ crashes' = crashes + 1)
    BY DEF Next, Publish, Subscriber, CheckContext, XRead, ReadEntry, SkipEntry, ApplyEntry,
           XReadNil, XReadError, Apply, StoreStep, StoreReturn, Backoff, Cancel, Crash, Restart, vars
  <2> QED
    BY <2>1, <2>2
<1> QED
  BY <1>1, <1>2, <1>3 DEF StreamInv, SubscriberInv, TypeOK

\* Every variable of the update path keeps its kind and lastID never runs past
\* the stream, through publishing, failed reads, cancellation, crash and replay
\* (Start of internal/subscriber/redis.go).
THEOREM StreamTypeCorrect == Spec => []TypeOK
<1>1. StreamInv => TypeOK
  BY DEF StreamInv
<1> QED
  BY <1>1, InitStreamInv, NextStreamInv, PTL DEF Spec

--------------------------------------------------------------------------------
(* The entries are applied in order *)

\* Touches and Explained as relations on a stream s and the policy p in force,
\* so that two states can be compared.
TouchedBy(s, i, id) ==
  LET c == processMessageEntry(s[i]) IN c # Idle /\ c.id = id

ExplainedBy(s, p, id, n) ==
  \/ /\ p = NoPolicy
     /\ \A i \in 1 .. n : ~TouchedBy(s, i, id)
  \/ \E i \in 1 .. n :
       /\ TouchedBy(s, i, id)
       /\ \A j \in i + 1 .. n : ~TouchedBy(s, j, id)
       /\ p = Outcome(processMessageEntry(s[i]))

\* What AppliedInOrder says of one id.
Settled(id) ==
  \/ ExplainedBy(stream, active[id], id, lastID)
  \/ pc = "apply" /\ pending[Sub].id = id /\ active[id] = NoPolicy

LEMMA SettledMeans ==
  ASSUME NEW id
  PROVE  Settled(id)' <=>
           \/ ExplainedBy(stream', active'[id], id, lastID')
           \/ pc' = "apply" /\ pending'[Sub].id = id /\ active'[id] = NoPolicy
BY DEF Settled, ExplainedBy, TouchedBy

\* The property's reading of the entries is the code's.
LEMMA ExplainedMeans ==
  ASSUME NEW id \in Ids, NEW n
  PROVE  Explained(id, n) <=> ExplainedBy(stream, active[id], id, n)
BY EntryMeans DEF Explained, Touches, ExplainedBy, TouchedBy

LEMMA ExplainedMeansNext ==
  ASSUME NEW id \in Ids
  PROVE  Explained(id, lastID)' <=> ExplainedBy(stream', active'[id], id, lastID')
BY EntryMeans DEF Explained, Touches, ExplainedBy, TouchedBy

LEMMA OrderMeans == AppliedInOrder <=> \A id \in Ids : Settled(id)
BY ExplainedMeans DEF AppliedInOrder, Settled

LEMMA OrderMeansNext == AppliedInOrder' <=> \A id \in Ids : Settled(id)'
BY ExplainedMeansNext, SettledMeans DEF AppliedInOrder

\* Entries that do not touch an id explain nothing new about it, and entries
\* appended later do not matter.
LEMMA ExplainedStable ==
  ASSUME NEW s, NEW t, NEW p, NEW id, NEW n \in Nat, NEW m \in Nat,
         ExplainedBy(s, p, id, n),
         n <= m,
         \A i \in 1 .. n : t[i] = s[i],
         \A i \in n + 1 .. m : ~TouchedBy(t, i, id)
  PROVE  ExplainedBy(t, p, id, m)
<1>1. \A i \in 1 .. n : TouchedBy(t, i, id) <=> TouchedBy(s, i, id)
  BY DEF TouchedBy
<1>2. \A i \in 1 .. m : i \in 1 .. n \/ i \in n + 1 .. m
  OBVIOUS
<1>3. CASE p = NoPolicy /\ \A i \in 1 .. n : ~TouchedBy(s, i, id)
  BY <1>1, <1>2, <1>3 DEF ExplainedBy
<1>4. CASE \E i \in 1 .. n :
             /\ TouchedBy(s, i, id)
             /\ \A j \in i + 1 .. n : ~TouchedBy(s, j, id)
             /\ p = Outcome(processMessageEntry(s[i]))
  <2>1. PICK i \in 1 .. n :
             /\ TouchedBy(s, i, id)
             /\ \A j \in i + 1 .. n : ~TouchedBy(s, j, id)
             /\ p = Outcome(processMessageEntry(s[i]))
    BY <1>4
  <2>2. i \in 1 .. m /\ TouchedBy(t, i, id) /\ t[i] = s[i]
    BY <1>1, <2>1
  <2>3. \A j \in i + 1 .. m : ~TouchedBy(t, j, id)
    <3> SUFFICES ASSUME NEW j \in i + 1 .. m PROVE ~TouchedBy(t, j, id)
      OBVIOUS
    <3>1. j \in 1 .. m /\ (j \in 1 .. n => j \in i + 1 .. n)
      OBVIOUS
    <3> QED
      BY <1>1, <1>2, <2>1, <3>1
  <2> QED
    BY <2>1, <2>2, <2>3 DEF ExplainedBy
<1> QED
  BY <1>3, <1>4 DEF ExplainedBy

\* Nothing is explained by no entries.
LEMMA NothingApplied ==
  ASSUME NEW s, NEW id
  PROVE  ExplainedBy(s, NoPolicy, id, 0)
BY DEF ExplainedBy

\* A step that leaves the policies, lastID and the entries up to lastID alone.
LEMMA QuietKeepsSettled ==
  ASSUME NEW id \in Ids, Settled(id), lastID \in Nat,
         active' = active, lastID' = lastID,
         \A i \in 1 .. lastID : stream'[i] = stream[i],
         pc = "apply" => pc' = "apply" /\ pending' = pending
  PROVE  Settled(id)'
<1>1. CASE ExplainedBy(stream, active[id], id, lastID)
  <2>1. \A i \in lastID + 1 .. lastID : ~TouchedBy(stream', i, id)
    OBVIOUS
  <2>2. ExplainedBy(stream', active[id], id, lastID)
    BY <1>1, <2>1, ExplainedStable
  <2> QED
    BY <2>2, SettledMeans
<1>2. CASE pc = "apply" /\ pending[Sub].id = id /\ active[id] = NoPolicy
  BY <1>2, SettledMeans
<1> QED
  BY <1>1, <1>2 DEF Settled

LEMMA PublishKeepsSettled ==
  ASSUME NEW E, SubscriberInv(E), NEW id \in Ids, Settled(id), NEW e \in E, Publish(e)
  PROVE  Settled(id)'
<1>1. lastID \in Nat /\ Len(stream) \in Nat /\ lastID \in 0 .. Len(stream)
  BY DEF SubscriberInv
<1>2. \A i \in 1 .. lastID : stream'[i] = stream[i]
  BY <1>1, PublishKeeps
<1> QED
  BY <1>1, <1>2, QuietKeepsSettled DEF Publish, storeVars

\* The entry a returning store call applied explains the policy of its id.
LEMMA ReturnSettles ==
  ASSUME NEW E, Identified(E), SubscriberInv(E), StoreReturn, NEW id \in Ids, id = pending[Sub].id
  PROVE  Settled(id)'
<1>1. /\ lastID \in Nat /\ stream' = stream /\ lastID' = lastID + 1
      /\ pending[Sub] = processMessageEntry(stream[lastID + 1])
      /\ pending[Sub] # Idle
      /\ active'[id] = Outcome(pending[Sub])
  BY StoreReturnEffect, CallInProgress DEF SubscriberInv
<1>2. TouchedBy(stream, lastID + 1, id)
  BY <1>1 DEF TouchedBy
<1>3. /\ lastID + 1 \in 1 .. lastID + 1
      /\ \A j \in lastID + 1 + 1 .. lastID + 1 : ~TouchedBy(stream, j, id)
  BY <1>1
<1>4. ExplainedBy(stream, active'[id], id, lastID + 1)
  BY <1>1, <1>2, <1>3 DEF ExplainedBy
<1> QED
  BY <1>1, <1>4, SettledMeans

LEMMA EngineKeepsSettled ==
  ASSUME NEW E, Identified(E), SubscriberInv(E), NEW id \in Ids, Settled(id),
         Subscriber \/ Cancel \/ Crash \/ Restart
  PROVE  Settled(id)'
<1>0. lastID \in Nat /\ Len(stream) \in Nat /\ lastID \in 0 .. Len(stream)
  BY DEF SubscriberInv
<1>1. CASE CheckContext \/ XReadNil \/ XReadError \/ Backoff \/ Cancel \/ Restart
  BY <1>0, <1>1, QuietKeepsSettled
     DEF CheckContext, XReadNil, XReadError, Backoff, Cancel, Restart, storeVars
<1>2. CASE SkipEntry
  <2>1. ExplainedBy(stream, active[id], id, lastID)
    BY <1>2 DEF SkipEntry, Settled
  <2>2. \A i \in lastID + 1 .. lastID + 1 : ~TouchedBy(stream, i, id)
    BY <1>0, <1>2 DEF SkipEntry, TouchedBy, NextCall
  <2>3. ExplainedBy(stream, active[id], id, lastID + 1)
    BY <1>0, <2>1, <2>2, ExplainedStable
  <2> QED
    BY <1>2, <2>3, SettledMeans DEF SkipEntry, storeVars
<1>3. CASE ApplyEntry
  BY <1>0, <1>3, QuietKeepsSettled DEF ApplyEntry, Store!Invoke
<1>4. CASE StoreStep
  <2>1. CASE id = pending[Sub].id
    BY <1>4, <2>1, StoreStepEffect, SettledMeans
  <2>2. CASE id # pending[Sub].id
    <3>1. ExplainedBy(stream, active[id], id, lastID)
      BY <2>2 DEF Settled
    <3> QED
      BY <1>4, <2>2, <3>1, StoreStepEffect, SettledMeans
  <2> QED
    BY <2>1, <2>2
<1>5. CASE StoreReturn
  <2>1. CASE id = pending[Sub].id
    BY <1>5, <2>1, ReturnSettles
  <2>2. CASE id # pending[Sub].id
    <3>1. /\ stream' = stream /\ lastID' = lastID + 1 /\ active'[id] = active[id]
          /\ pending[Sub] = processMessageEntry(stream[lastID + 1])
      BY <1>5, <2>2, StoreReturnEffect, CallInProgress
    <3>2. ExplainedBy(stream, active[id], id, lastID)
      BY <2>2 DEF Settled
    <3>3. \A i \in lastID + 1 .. lastID + 1 : ~TouchedBy(stream, i, id)
      BY <1>0, <2>2, <3>1 DEF TouchedBy
    <3>4. ExplainedBy(stream, active[id], id, lastID + 1)
      BY <1>0, <3>2, <3>3, ExplainedStable
    <3> QED
      BY <3>1, <3>4, SettledMeans
  <2> QED
    BY <2>1, <2>2
<1>6. CASE Crash
  BY <1>6, NothingApplied, SettledMeans DEF Crash
<1> QED
  BY <1>1, <1>2, <1>3, <1>4, <1>5, <1>6 DEF Subscriber, XRead, ReadEntry, Apply

LEMMA NextAppliedInOrder ==
  ASSUME StreamInv, AppliedInOrder, [Next]_vars
  PROVE  AppliedInOrder'
<1> SUFFICES ASSUME NEW id \in Ids
             PROVE  Settled(id)'
  BY OrderMeansNext
<1>1. Settled(id) /\ SubscriberInv(Entries) /\ Identified(Entries)
  BY OrderMeans, StreamInvParts
<1>2. CASE UNCHANGED vars
  BY <1>1, <1>2, QuietKeepsSettled DEF vars, storeVars, StreamInv, TypeOK
<1> QED
  BY <1>1, <1>2, PublishKeepsSettled, EngineKeepsSettled DEF Next

\* The store is the effect of exactly the entries up to lastID, in order and each
\* once, for streams of any length and any number of crashes and replays: what
\* Start and processMessageEntry of internal/subscriber/redis.go leave in the
\* store is never a mixture of an old and a new stream position.
THEOREM StreamAppliedInOrder == Spec => []AppliedInOrder
<1>1. Init => StreamInv /\ AppliedInOrder
  <2> SUFFICES ASSUME Init PROVE StreamInv /\ \A id \in Ids : Settled(id)
    BY OrderMeans
  <2> QED
    BY InitStreamInv, NothingApplied DEF Init, Store!Init, Settled
<1>2. (StreamInv /\ AppliedInOrder) /\ [Next]_vars => (StreamInv /\ AppliedInOrder)'
  BY NextStreamInv, NextAppliedInOrder
<1> QED
  BY <1>1, <1>2, PTL DEF Spec

--------------------------------------------------------------------------------
(* Only validated policies become active *)

\* Only the store calls of the subscriber make a policy active.
LEMMA EngineOnlyValidated ==
  ASSUME NEW E, Identified(E), SubscriberInv(E), OnlyValidated,
         active' = active \/ StoreStep \/ StoreReturn \/ Crash
  PROVE  OnlyValidated'
<1>1. CASE active' = active
  BY <1>1 DEF OnlyValidated
<1>2. CASE StoreStep
  <2> SUFFICES ASSUME NEW id \in Ids, active'[id] # NoPolicy
               PROVE  /\ active'[id].access \in AccessModes
                      /\ active'[id].body \notin Uncompilable
    BY DEF OnlyValidated
  <2>1. active'[id] = active[id]
    BY <1>2, StoreStepEffect
  <2> QED
    BY <2>1 DEF OnlyValidated
<1>3. CASE StoreReturn
  <2> SUFFICES ASSUME NEW id \in Ids, active'[id] # NoPolicy
               PROVE  /\ active'[id].access \in AccessModes
                      /\ active'[id].body \notin Uncompilable
    BY DEF OnlyValidated
  <2>1. CASE id = pending[Sub].id
    <3>1. active'[id] = Outcome(pending[Sub])
      BY <1>3, <2>1, StoreReturnEffect
    <3>2. pending[Sub].op = "upsert" /\ active'[id] = pending[Sub].policy
      BY <3>1 DEF Outcome
    <3>3. /\ stream[lastID + 1] \in E
          /\ pending[Sub] = processMessageEntry(stream[lastID + 1])
          /\ pending[Sub] # Idle
      BY <1>3, StoreReturnEffect, CallInProgress
    <3> QED
      BY <3>2, <3>3, EntryCall DEF Identified
  <2>2. CASE id # pending[Sub].id
    BY <1>3, <2>2, StoreReturnEffect DEF OnlyValidated
  <2> QED
    BY <2>1, <2>2
<1>4. CASE Crash
  BY <1>4 DEF Crash, OnlyValidated
<1> QED
  BY <1>1, <1>2, <1>3, <1>4

LEMMA NextOnlyValidated ==
  ASSUME StreamInv, OnlyValidated, [Next]_vars
  PROVE  OnlyValidated'
<1>1. active' = active \/ StoreStep \/ StoreReturn \/ Crash
  BY DEF Next, Subscriber, XRead, ReadEntry, Apply, vars, storeVars, Publish, CheckContext,
         SkipEntry, ApplyEntry, Store!Invoke, XReadNil, XReadError, Backoff, Cancel, Restart
<1> QED
  BY <1>1, EngineOnlyValidated, StreamInvParts

\* No payload that fails the access-mode check or Policy.Compile ever becomes an
\* active policy, whatever any publisher appends: the checks of
\* processMessageEntry are passed before UpsertPolicy is called, in a replay too.
THEOREM StreamOnlyValidated == Spec => []OnlyValidated
<1>1. Init => StreamInv /\ OnlyValidated
  BY InitStreamInv DEF Init, Store!Init, OnlyValidated
<1>2. (StreamInv /\ OnlyValidated) /\ [Next]_vars => (StreamInv /\ OnlyValidated)'
  BY NextStreamInv, NextOnlyValidated
<1> QED
  BY <1>1, <1>2, PTL DEF Spec

--------------------------------------------------------------------------------
(* A decision belongs to a position of the stream *)

\* InForce on a stream s.
InForceBy(s, n) ==
  [id \in Ids |->
     LET T == {i \in 1 .. n : TouchedBy(s, i, id)} IN
     IF T = {} THEN NoPolicy
     ELSE Leaves(s[CHOOSE i \in T : \A j \in T : j <= i])]

LEMMA InForceMeans ==
  ASSUME NEW n
  PROVE  InForce(n) = InForceBy(stream, n)
<1>1. ASSUME NEW id \in Ids
      PROVE  InForce(n)[id] = InForceBy(stream, n)[id]
  <2> DEFINE T == {i \in 1 .. n : Touches(i, id)}
             U == {i \in 1 .. n : TouchedBy(stream, i, id)}
             left(V) == IF V = {} THEN NoPolicy
                        ELSE Leaves(stream[CHOOSE i \in V : \A j \in V : j <= i])
  <2>1. T = U
    BY EntryMeans DEF Touches, TouchedBy
  <2>2. InForce(n)[id] = left(T)
    BY DEF InForce
  <2>3. InForceBy(stream, n)[id] = left(U)
    BY DEF InForceBy
  <2> HIDE DEF T, U, left
  <2> QED
    BY <2>1, <2>2, <2>3
<1>2. /\ InForce(n) = [id \in Ids |-> InForce(n)[id]]
      /\ InForceBy(stream, n) = [id \in Ids |-> InForceBy(stream, n)[id]]
  BY DEF InForce, InForceBy
<1> QED
  BY <1>1, <1>2

\* What the entries explain is what they leave in force: there is only one last
\* entry for an id.
LEMMA ExplainedIsInForce ==
  ASSUME NEW s, NEW p, NEW id \in Ids, NEW n \in Nat, ExplainedBy(s, p, id, n)
  PROVE  InForceBy(s, n)[id] = p
<1> DEFINE T == {i \in 1 .. n : TouchedBy(s, i, id)}
           m == CHOOSE i \in T : \A j \in T : j <= i
<1>1. InForceBy(s, n)[id] = IF T = {} THEN NoPolicy ELSE Leaves(s[m])
  BY DEF InForceBy
<1>2. CASE p = NoPolicy /\ \A i \in 1 .. n : ~TouchedBy(s, i, id)
  <2>1. T = {}
    BY <1>2
  <2> QED
    BY <1>1, <1>2, <2>1
<1>3. CASE \E i \in 1 .. n :
             /\ TouchedBy(s, i, id)
             /\ \A j \in i + 1 .. n : ~TouchedBy(s, j, id)
             /\ p = Outcome(processMessageEntry(s[i]))
  <2>1. PICK i \in 1 .. n :
             /\ TouchedBy(s, i, id)
             /\ \A j \in i + 1 .. n : ~TouchedBy(s, j, id)
             /\ p = Outcome(processMessageEntry(s[i]))
    BY <1>3
  <2>2. i \in T /\ \A j \in T : j <= i
    <3> SUFFICES ASSUME NEW j \in T PROVE j <= i
      BY <2>1
    <3>1. j \in 1 .. n /\ j \notin i + 1 .. n
      BY <2>1
    <3> QED
      BY <3>1
  <2>3. m \in T /\ \A j \in T : j <= m
    BY <2>2
  <2>4. m = i
    <3>1. m \in 1 .. n /\ m <= i /\ i <= m
      BY <2>2, <2>3
    <3> QED
      BY <3>1
  <2>5. Leaves(s[i]) = p
    BY <2>1, EntryMeans DEF TouchedBy
  <2> QED
    BY <1>1, <2>2, <2>4, <2>5
<1> QED
  BY <1>2, <1>3 DEF ExplainedBy

\* What the call c may have made of its id by now, after the first n entries of s:
\* nothing, or it has withdrawn a policy of the other side.
Halfway(s, a, n, c) ==
  c.op = "upsert" =>
    \/ ExplainedBy(s, a[c.id], c.id, n)
    \/ /\ a[c.id] = NoPolicy
       /\ \E p : ExplainedBy(s, p, c.id, n) /\ ~Store!SameSide(p, c.policy)

HalfwayInv == pc = "apply" => Halfway(stream, active, lastID, pending[Sub])

LEMMA HalfwayMeans ==
  HalfwayInv' <=> (pc' = "apply" => Halfway(stream', active', lastID', pending'[Sub]))
BY DEF HalfwayInv, Halfway, ExplainedBy, TouchedBy, Store!SameSide

\* Entries appended later do not matter.
LEMMA HalfwayStable ==
  ASSUME NEW s, NEW t, NEW a, NEW n \in Nat, NEW c, Halfway(s, a, n, c),
         \A i \in 1 .. n : t[i] = s[i]
  PROVE  Halfway(t, a, n, c)
<1>1. ASSUME NEW p, ExplainedBy(s, p, c.id, n)
      PROVE  ExplainedBy(t, p, c.id, n)
  <2>1. \A i \in n + 1 .. n : ~TouchedBy(t, i, c.id)
    OBVIOUS
  <2> QED
    BY <1>1, <2>1, ExplainedStable
<1> QED
  BY <1>1 DEF Halfway

LEMMA NextHalfway ==
  ASSUME StreamInv, AppliedInOrder, HalfwayInv, [Next]_vars
  PROVE  HalfwayInv'
<1>0. /\ SubscriberInv(Entries) /\ Identified(Entries)
      /\ lastID \in Nat /\ Len(stream) \in Nat /\ lastID \in 0 .. Len(stream)
  BY StreamInvParts DEF StreamInv, TypeOK
<1>1. CASE pc' # "apply"
  BY <1>1, HalfwayMeans
<1>2. CASE UNCHANGED <<stream, active, lastID, pending, pc>>
  BY <1>2, HalfwayMeans DEF HalfwayInv
<1>3. ASSUME NEW e \in Entries, Publish(e)
      PROVE  HalfwayInv'
  <2>1. \A i \in 1 .. lastID : stream'[i] = stream[i]
    BY <1>0, <1>3, PublishKeeps
  <2>2. UNCHANGED <<lastID, pc, active, pending>>
    BY <1>3 DEF Publish, storeVars
  <2> QED
    BY <1>0, <2>1, <2>2, HalfwayStable, HalfwayMeans DEF HalfwayInv
<1>4. CASE ApplyEntry
  <2>1. /\ pc # "apply" /\ UNCHANGED <<stream, lastID, active>>
        /\ NextCall # Idle /\ pending' = [pending EXCEPT ![Sub] = NextCall]
    BY <1>4 DEF ApplyEntry, Store!Invoke
  <2>2. PICK c : c = NextCall
    OBVIOUS
  <2>3. c.id \in Ids
    BY <1>0, <1>4, <2>2, EntryRead, EntryCall DEF ApplyEntry, NextCall, Identified
  <2>4. ExplainedBy(stream, active[c.id], c.id, lastID)
    BY <2>1, <2>3, OrderMeans DEF Settled
  <2>5. pending'[Sub] = c
    BY <1>0, <2>1, <2>2 DEF SubscriberInv
  <2> QED
    BY <2>1, <2>4, <2>5, HalfwayMeans DEF Halfway
<1>5. CASE StoreStep
  <2>1. PICK c : c = pending[Sub]
    OBVIOUS
  <2>2. /\ pc = "apply" /\ pending' = pending /\ UNCHANGED <<stream, lastID, pc>>
        /\ active'[c.id] = NoPolicy
        /\ c.op = "upsert" => ~Store!SameSide(active[c.id], c.policy)
    BY <1>0, <1>5, <2>1, StoreStepEffect
  <2>3. active[c.id] # NoPolicy
    BY <1>5, <2>1 DEF StoreStep, Store!Withdraw
  <2>4. c.op = "upsert" => ExplainedBy(stream, active[c.id], c.id, lastID)
    BY <2>1, <2>2, <2>3 DEF HalfwayInv, Halfway
  <2>5. Halfway(stream, active', lastID, c)
    BY <2>2, <2>4 DEF Halfway
  <2> QED
    BY <2>1, <2>2, <2>5, HalfwayMeans
<1>6. \/ pc' # "apply" \/ UNCHANGED <<stream, active, lastID, pending, pc>>
      \/ (\E e \in Entries : Publish(e)) \/ ApplyEntry \/ StoreStep
  <2>1. CASE CheckContext \/ SkipEntry \/ XReadNil \/ XReadError \/ Backoff
    BY <2>1 DEF CheckContext, SkipEntry, XReadNil, XReadError, Backoff
  <2>2. CASE StoreReturn \/ Crash \/ Restart
    BY <2>2 DEF StoreReturn, Crash, Restart
  <2>3. CASE Cancel
    BY <2>3 DEF Cancel, storeVars
  <2>4. CASE UNCHANGED vars
    BY <2>4 DEF vars, storeVars
  <2> QED
    BY <2>1, <2>2, <2>3, <2>4 DEF Next, Subscriber, XRead, ReadEntry, Apply
<1> QED
  BY <1>1, <1>2, <1>3, <1>4, <1>5, <1>6

\* A policy that only one of two maps has: an allow policy never takes a grant
\* away, any other never brings one.
LEMMA OneMore ==
  ASSUME NEW a, NEW b, NEW M, NEW x \in Ids, a[x] \notin M,
         \A id \in Ids \ {x} : b[id] = a[id]
  PROVE  /\ b[x].access = "ALLOW" /\ Grants(a, M) => Grants(b, M)
         /\ b[x].access # "ALLOW" /\ Grants(b, M) => Grants(a, M)
<1>1. ASSUME b[x].access = "ALLOW", Grants(a, M)
      PROVE  Grants(b, M)
  BY <1>1 DEF Grants
<1>2. ASSUME b[x].access # "ALLOW", Grants(b, M)
      PROVE  Grants(a, M)
  BY <1>2 DEF Grants
<1> QED
  BY <1>1, <1>2

\* Maps that agree decide alike.
LEMMA SameDecision ==
  ASSUME NEW a, NEW b, NEW M, \A id \in Ids : a[id] = b[id]
  PROVE  Grants(a, M) <=> Grants(b, M)
BY DEF Grants

\* The decision while a call is in progress.
LEMMA DecisionHalfway ==
  ASSUME StreamInv, AppliedInOrder, HalfwayInv, pc = "apply", NEW M, NoPolicy \notin M
  PROVE  \E n \in {lastID, lastID + 1} : Grants(active, M) <=> Grants(InForceBy(stream, n), M)
<1> DEFINE A0 == InForceBy(stream, lastID)
           A1 == InForceBy(stream, lastID + 1)
<1>0. /\ SubscriberInv(Entries) /\ Identified(Entries) /\ lastID \in Nat
  BY StreamInvParts DEF StreamInv, TypeOK
<1>1. PICK c : c = pending[Sub]
  OBVIOUS
<1>2. /\ c = processMessageEntry(stream[lastID + 1]) /\ c # Idle /\ c.id \in Ids
  BY <1>0, <1>1, CallInProgress
<1>3. A1[c.id] = Outcome(c)
  <2>1. TouchedBy(stream, lastID + 1, c.id)
    BY <1>2 DEF TouchedBy
  <2>2. /\ lastID + 1 \in 1 .. lastID + 1
        /\ \A j \in lastID + 1 + 1 .. lastID + 1 : ~TouchedBy(stream, j, c.id)
    BY <1>0
  <2>3. ExplainedBy(stream, Outcome(c), c.id, lastID + 1)
    BY <1>2, <2>1, <2>2 DEF ExplainedBy
  <2> QED
    BY <1>0, <1>2, <2>3, ExplainedIsInForce
<1>4. \A id \in Ids \ {c.id} : A0[id] = active[id] /\ A1[id] = active[id]
  <2> SUFFICES ASSUME NEW id \in Ids \ {c.id}
               PROVE  A0[id] = active[id] /\ A1[id] = active[id]
    OBVIOUS
  <2>1. ExplainedBy(stream, active[id], id, lastID)
    BY <1>1, OrderMeans DEF Settled
  <2>2. \A i \in lastID + 1 .. lastID + 1 : ~TouchedBy(stream, i, id)
    BY <1>0, <1>2 DEF TouchedBy
  <2>3. ExplainedBy(stream, active[id], id, lastID + 1)
    BY <1>0, <2>1, <2>2, ExplainedStable
  <2> QED
    BY <1>0, <2>1, <2>3, ExplainedIsInForce
<1>5. CASE ExplainedBy(stream, active[c.id], c.id, lastID)
  <2>1. A0[c.id] = active[c.id]
    BY <1>0, <1>2, <1>5, ExplainedIsInForce
  <2> HIDE DEF A0, A1
  <2>2. \A id \in Ids : active[id] = A0[id]
    BY <1>4, <2>1
  <2>3. Grants(active, M) <=> Grants(A0, M)
    BY <2>2, SameDecision
  <2> QED
    BY <2>3 DEF A0
<1>6. CASE ~ExplainedBy(stream, active[c.id], c.id, lastID)
  <2>1. active[c.id] = NoPolicy
    BY <1>1, <1>2, <1>6, OrderMeans DEF Settled
  <2>2. CASE c.op = "upsert"
    <3>1. PICK p : ExplainedBy(stream, p, c.id, lastID) /\ ~Store!SameSide(p, c.policy)
      BY <1>1, <1>6, <2>2 DEF HalfwayInv, Halfway
    <3>2. A0[c.id] = p /\ A1[c.id] = c.policy
      BY <1>0, <1>2, <1>3, <2>2, <3>1, ExplainedIsInForce DEF Outcome
    <3>3. active[c.id] \notin M
      BY <2>1
    <3> HIDE DEF A0, A1
    <3>4. CASE p.access = "ALLOW" /\ c.policy.access # "ALLOW"
      <4>1. Grants(active, M) => Grants(A0, M)
        BY <1>2, <1>4, <3>2, <3>3, <3>4, OneMore
      <4>2. Grants(A1, M) => Grants(active, M)
        BY <1>2, <1>4, <3>2, <3>3, <3>4, OneMore
      <4> QED
        BY <4>1, <4>2 DEF A0, A1
    <3>5. CASE p.access # "ALLOW" /\ c.policy.access = "ALLOW"
      <4>1. Grants(active, M) => Grants(A1, M)
        BY <1>2, <1>4, <3>2, <3>3, <3>5, OneMore
      <4>2. Grants(A0, M) => Grants(active, M)
        BY <1>2, <1>4, <3>2, <3>3, <3>5, OneMore
      <4> QED
        BY <4>1, <4>2 DEF A0, A1
    <3> QED
      BY <3>1, <3>4, <3>5 DEF Store!SameSide
  <2>3. CASE c.op # "upsert"
    <3> HIDE DEF A0, A1
    <3>1. A1[c.id] = active[c.id]
      BY <1>3, <2>1, <2>3 DEF Outcome
    <3>2. \A id \in Ids : active[id] = A1[id]
      BY <1>4, <3>1
    <3>3. Grants(active, M) <=> Grants(A1, M)
      BY <3>2, SameDecision
    <3> QED
      BY <3>3 DEF A1
  <2> QED
    BY <2>2, <2>3
<1> QED
  BY <1>5, <1>6

\* Every decision taken on the store is the one of a position of the stream, the
\* last entry applied or the one being applied, for streams of any length, every
\* request and any number of crashes and replays: removing the old entry before
\* the new one is inserted, when a policy changes sides, is never visible in a
\* decision (UpsertPolicy of internal/store/store.go, called by Start of
\* internal/subscriber/redis.go, decided on as in internal/engine/engine.go).
THEOREM StreamDecisionHasPosition == Spec => []DecisionHasPosition
<1>1. StreamInv /\ AppliedInOrder /\ HalfwayInv => DecisionHasPosition
  <2> SUFFICES ASSUME StreamInv, AppliedInOrder, HalfwayInv, NEW M \in SUBSET Policy
               PROVE  \E n \in {lastID, lastID + 1} :
                        n <= Len(stream) /\ (Grants(active, M) <=> Grants(InForce(n), M))
    BY DEF DecisionHasPosition
  <2>1. lastID \in Nat /\ Len(stream) \in Nat /\ lastID <= Len(stream) /\ NoPolicy \notin M
    BY StreamConstants DEF StreamInv, TypeOK
  <2>2. CASE pc = "apply"
    <3>1. lastID < Len(stream)
      BY <2>2 DEF StreamInv, PendingIsNext
    <3>2. PICK n \in {lastID, lastID + 1} : Grants(active, M) <=> Grants(InForceBy(stream, n), M)
      BY <2>1, <2>2, DecisionHalfway
    <3>3. n <= Len(stream)
      BY <2>1, <3>1
    <3> QED
      BY <3>2, <3>3, InForceMeans
  <2>3. CASE pc # "apply"
    <3>1. \A id \in Ids : active[id] = InForceBy(stream, lastID)[id]
      BY <2>1, <2>3, OrderMeans, ExplainedIsInForce DEF Settled
    <3>2. Grants(active, M) <=> Grants(InForceBy(stream, lastID), M)
      BY <3>1, SameDecision
    <3> QED
      BY <2>1, <3>2, InForceMeans
  <2> QED
    BY <2>2, <2>3
<1>2. Init => StreamInv /\ AppliedInOrder /\ HalfwayInv
  <2> SUFFICES ASSUME Init PROVE StreamInv /\ (\A id \in Ids : Settled(id)) /\ HalfwayInv
    BY OrderMeans
  <2> QED
    BY InitStreamInv, NothingApplied DEF Init, Store!Init, Settled, HalfwayInv
<1>3. (StreamInv /\ AppliedInOrder /\ HalfwayInv) /\ [Next]_vars
        => (StreamInv /\ AppliedInOrder /\ HalfwayInv)'
  BY NextStreamInv, NextAppliedInOrder, NextHalfway
<1> QED
  BY <1>1, <1>2, <1>3, PTL DEF Spec
================================================================================

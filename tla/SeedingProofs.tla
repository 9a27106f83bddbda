------------------------------ MODULE SeedingProofs ------------------------------
(***************************************************************************)
(* Proofs about Seeding, for directories of any number of files, tools     *)
(* with lists of any length and any number of failures.                    *)
(***************************************************************************)
EXTENDS Seeding, PolicyStreamProofs, FiniteSetTheorems

\* What the publishers append: entries from elsewhere, and the upserts of the
\* files and of the tool.
Files     == {f \in UNION Dirs : Usable(f)}
Payloads  == Policy \cup {f.policy_json : f \in Files}
Published == Entries \cup {UpsertEntry(id, json) : id \in Ids, json \in Payloads}

\* The enforcement point holds usable files, and one to publish while it seeds.
SeederInv ==
  /\ dir \in Dirs
  /\ seeder \in [at : {"load", "publish", "backoff", "serving"}, files : Seq(Files), next : Nat]
  /\ seeder.at \in {"publish", "backoff"} => seeder.next \in DOMAIN seeder.files

\* So does the tool.
ToolInv ==
  tool \in [at : {"absent", "publish", "probe", "verified", "exited"},
            next : DOMAIN ToolList, late : BOOLEAN]

SeedInv ==
  /\ SubscriberInv(Published)
  /\ inflight \subseteq Published
  /\ SeederInv
  /\ ToolInv

LEMMA PublishedIdentified == Identified(Published)
BY StreamConstants DEF Identified, Published, UpsertEntry

\* loadPolicyFiles returns usable files of the directory only.
LEMMA LoadedFiles ==
  ASSUME NEW D \in Dirs, NEW s \in loadPolicyFiles(D)
  PROVE  s \in Seq(Files)
<1> DEFINE U == {f \in D : Usable(f)}
<1>1. IsFiniteSet(U)
  BY SeedingConstants, FS_Subset
<1>2. Cardinality(U) \in Nat
  BY <1>1, FS_CardinalityType
<1>3. s \in [1 .. Cardinality(U) -> U]
  <2>1. s \in Seqs!SetToSeqs(U)
    BY DEF loadPolicyFiles
  <2>2. Seqs!Cardinality(U) = Cardinality(U)
    BY DEF Seqs!Cardinality, Cardinality
  <2> HIDE DEF U
  <2> QED
    BY <2>1, <2>2 DEF Seqs!SetToSeqs
<1>4. U \subseteq Files
  BY DEF Files
<1> QED
  <2>1. PICK n \in Nat : n = Cardinality(U)
    BY <1>2
  <2>2. s \in [1 .. n -> Files]
    BY <1>3, <1>4, <2>1
  <2> QED
    BY <2>2

\* A file's entry, and a tool's, is one of the entries above.
LEMMA FileEntryPublished ==
  ASSUME NEW f \in Files
  PROVE  /\ FileEntry(f) \in Published
         /\ FileEntry(f).policy_id \in Ids
BY DEF FileEntry, UpsertEntry, Published, Payloads, Files, Usable

LEMMA SeedEntryPublished ==
  ASSUME SeederInv, seeder.at = "publish"
  PROVE  SeedEntry \in Published
<1>1. seeder.files[seeder.next] \in Files
  BY DEF SeederInv
<1> QED
  BY <1>1, FileEntryPublished DEF SeedEntry

LEMMA ToolEntryPublished ==
  ASSUME ToolInv
  PROVE  ToolEntry \in Published
<1>1. ToolList[tool.next] \in Policy
  BY SeedingConstants DEF ToolInv
<1>2. ToolList[tool.next].id \in Ids
  BY <1>1 DEF Policy
<1> QED
  BY <1>1, <1>2 DEF ToolEntry, Published, Payloads

LEMMA InitSeedInv == SeedingInit => SeedInv
<1> SUFFICES ASSUME SeedingInit PROVE SeedInv
  OBVIOUS
<1>1. SubscriberInv(Published)
  BY InitSubscriberInv DEF SeedingInit
<1>2. SeederInv
  BY DEF SeedingInit, SeederInv
<1>3. ToolInv
  <2>1. 1 \in DOMAIN ToolList
    BY SeedingConstants
  <2> QED
    BY <2>1 DEF SeedingInit, ToolInv
<1> QED
  BY <1>1, <1>2, <1>3 DEF SeedInv, SeedingInit

\* A step that leaves the engine and the stream alone.
LEMMA QuietSubscriberInv ==
  ASSUME NEW E, SubscriberInv(E), UNCHANGED vars
  PROVE  SubscriberInv(E)'
BY DEF vars, storeVars, SubscriberInv, PendingIsNext, NextCall

LEMMA SeederKeepsInv ==
  ASSUME SeedInv, Seeder
  PROVE  SeedInv'
<1>0. SubscriberInv(Published) /\ inflight \subseteq Published /\ SeederInv /\ ToolInv
  BY DEF SeedInv
<1>1. CASE LoadFiles
  <2>1. SubscriberInv(Published)' /\ inflight' \subseteq Published /\ ToolInv'
    BY <1>0, <1>1, QuietSubscriberInv DEF LoadFiles, ToolInv
  <2>2. PICK s \in loadPolicyFiles(dir) :
          seeder' = [at |-> IF s = <<>> THEN "serving" ELSE "publish", files |-> s, next |-> 1]
    BY <1>1 DEF LoadFiles
  <2>3. s \in Seq(Files) /\ dir' = dir
    BY <1>0, <1>1, LoadedFiles DEF SeederInv, LoadFiles
  <2>4. s # <<>> => 1 \in DOMAIN s
    BY <2>3
  <2>5. SeederInv'
    BY <1>0, <2>2, <2>3, <2>4 DEF SeederInv
  <2> QED
    BY <2>1, <2>5 DEF SeedInv
<1>2. CASE SeedPublished
  <2>1. SubscriberInv(Published)'
    BY <1>0, <1>2, SeedEntryPublished, PublishSubscriberInv DEF SeedPublished
  <2>2. SeederInv'
    BY <1>0, <1>2 DEF SeedPublished, SeederInv
  <2> QED
    BY <1>0, <1>2, <2>1, <2>2 DEF SeedPublished, SeedInv, ToolInv
<1>3. CASE SeedFails
  <2>1. SubscriberInv(Published)'
    BY <1>0, <1>3, QuietSubscriberInv DEF SeedFails
  <2>2. inflight' \subseteq Published
    BY <1>0, <1>3, SeedEntryPublished DEF SeedFails
  <2>3. SeederInv'
    BY <1>0, <1>3 DEF SeedFails, SeederInv
  <2> QED
    BY <1>0, <1>3, <2>1, <2>2, <2>3 DEF SeedFails, SeedInv, ToolInv
<1>4. CASE SeedBackoff
  <2>1. SubscriberInv(Published)'
    BY <1>0, <1>4, QuietSubscriberInv DEF SeedBackoff
  <2>2. 1 \in DOMAIN seeder.files
    <3>1. seeder.files \in Seq(Files) /\ seeder.next \in DOMAIN seeder.files
      BY <1>0, <1>4 DEF SeedBackoff, SeederInv
    <3> QED
      BY <3>1
  <2>3. SeederInv'
    BY <1>0, <1>4, <2>2 DEF SeedBackoff, SeederInv
  <2> QED
    BY <1>0, <1>4, <2>1, <2>3 DEF SeedBackoff, SeedInv, ToolInv
<1>5. CASE SeederRestarts
  <2>1. SubscriberInv(Published)'
    BY <1>0, <1>5, QuietSubscriberInv DEF SeederRestarts
  <2>2. SeederInv'
    BY <1>5 DEF SeederRestarts, SeederInv
  <2> QED
    BY <1>0, <1>5, <2>1, <2>2 DEF SeederRestarts, SeedInv, ToolInv
<1> QED
  BY <1>1, <1>2, <1>3, <1>4, <1>5 DEF Seeder

LEMMA ToolKeepsInv ==
  ASSUME SeedInv, Tool
  PROVE  SeedInv'
<1>0. SubscriberInv(Published) /\ inflight \subseteq Published /\ SeederInv /\ ToolInv
  BY DEF SeedInv
<1>1. SubscriberInv(Published)'
  <2>1. CASE ToolPublished
    BY <1>0, <2>1, ToolEntryPublished, PublishSubscriberInv DEF ToolPublished
  <2>2. CASE UNCHANGED vars
    BY <1>0, <2>2, QuietSubscriberInv
  <2> QED
    BY <2>1, <2>2 DEF Tool, ToolStarts, ToolFails, DeadlinePasses, Probe
<1>2. inflight' \subseteq Published
  BY <1>0, ToolEntryPublished DEF Tool, ToolStarts, ToolPublished, ToolFails, DeadlinePasses, Probe
<1>3. SeederInv'
  BY <1>0 DEF SeederInv, Tool, ToolStarts, ToolPublished, ToolFails, DeadlinePasses, Probe
<1>4. ToolInv'
  <2>1. ToolList \in Seq(Policy)
    BY SeedingConstants
  <2>2. CASE ToolPublished
    BY <1>0, <2>1, <2>2 DEF ToolInv, ToolPublished
  <2>3. CASE ToolStarts \/ ToolFails
    BY <1>0, <2>3 DEF ToolInv, ToolStarts, ToolFails
  <2>4. CASE DeadlinePasses \/ Probe
    BY <1>0, <2>4 DEF ToolInv, DeadlinePasses, Probe
  <2> QED
    BY <2>2, <2>3, <2>4 DEF Tool
<1> QED
  BY <1>1, <1>2, <1>3, <1>4 DEF SeedInv

LEMMA RedisKeepsInv ==
  ASSUME SeedInv, Redis
  PROVE  SeedInv'
<1>0. SubscriberInv(Published) /\ inflight \subseteq Published /\ SeederInv /\ ToolInv
  BY DEF SeedInv
<1>1. CASE ClientRetries
  <2>1. SubscriberInv(Published)'
    BY <1>0, <1>1, QuietSubscriberInv DEF ClientRetries
  <2>2. Sending \subseteq Published
    BY <1>0, SeedEntryPublished, ToolEntryPublished DEF Sending
  <2> QED
    BY <1>0, <1>1, <2>1, <2>2 DEF ClientRetries, SeedInv, SeederInv, ToolInv
<1>2. ASSUME NEW e \in inflight, Land(e)
      PROVE  SeedInv'
  <2>1. SubscriberInv(Published)'
    BY <1>0, <1>2, PublishSubscriberInv DEF Land
  <2> QED
    BY <1>0, <1>2, <2>1 DEF Land, SeedInv, SeederInv, ToolInv
<1>3. CASE Wipe
  <2>1. SubscriberInv(Published)'
    BY <1>0, <1>3 DEF Wipe, SubscriberInv, PendingIsNext, storeVars
  <2> QED
    BY <1>0, <1>3, <2>1 DEF Wipe, SeedInv, SeederInv, ToolInv
<1> QED
  BY <1>1, <1>2, <1>3 DEF Redis

LEMMA NextSeedInv ==
  ASSUME SeedInv, [SeedingNext]_seedingVars
  PROVE  SeedInv'
<1>0. SubscriberInv(Published) /\ inflight \subseteq Published /\ SeederInv /\ ToolInv
  BY DEF SeedInv
<1>1. CASE Engine
  <2>1. SubscriberInv(Published)'
    BY <1>0, <1>1, PublishedIdentified, EngineSubscriberInv DEF Engine
  <2> QED
    BY <1>0, <1>1, <2>1 DEF Engine, seedVars, SeedInv, SeederInv, ToolInv
<1>2. ASSUME NEW e \in Entries, ForeignUpdate(e)
      PROVE  SeedInv'
  <2>1. SubscriberInv(Published)'
    BY <1>0, <1>2, PublishSubscriberInv DEF ForeignUpdate, Published
  <2> QED
    BY <1>0, <1>2, <2>1 DEF ForeignUpdate, SeedInv, SeederInv, ToolInv
<1>3. CASE UNCHANGED seedingVars
  <2>1. SubscriberInv(Published)'
    BY <1>0, <1>3, QuietSubscriberInv DEF seedingVars
  <2> QED
    BY <1>0, <1>3, <2>1 DEF seedingVars, seedVars, SeedInv, SeederInv, ToolInv
<1> QED
  BY <1>1, <1>2, <1>3, SeederKeepsInv, ToolKeepsInv, RedisKeepsInv DEF SeedingNext

--------------------------------------------------------------------------------
(* Seeding again never disturbs a policy in force *)

\* Outside the engine nothing touches the store.
LEMMA StoreChangedBy ==
  ASSUME [SeedingNext]_seedingVars, active' # active
  PROVE  StoreStep \/ StoreReturn \/ Crash
BY DEF SeedingNext, seedingVars, vars, storeVars, Engine, Seeder, Tool, Redis, Subscriber,
       CheckContext, XRead, ReadEntry, SkipEntry, ApplyEntry, Store!Invoke, XReadNil, XReadError,
       Apply, Backoff, Restart, LoadFiles, SeedPublished, SeedFails, SeedBackoff, SeederRestarts,
       ToolStarts, ToolPublished, ToolFails, DeadlinePasses, Probe, ClientRetries, Land, Wipe,
       ForeignUpdate, Publish

\* Only a crash is counted as one.
LEMMA CrashesChangedBy ==
  ASSUME [SeedingNext]_seedingVars, crashes' # crashes
  PROVE  Crash
BY DEF SeedingNext, seedingVars, vars, Engine, Seeder, Tool, Redis, Subscriber, CheckContext, XRead,
       ReadEntry, SkipEntry, ApplyEntry, XReadNil, XReadError, Apply, StoreStep, StoreReturn,
       Backoff, Restart, LoadFiles, SeedPublished, SeedFails, SeedBackoff, SeederRestarts,
       ToolStarts, ToolPublished, ToolFails, DeadlinePasses, Probe, ClientRetries, Land, Wipe,
       ForeignUpdate, Publish

LEMMA NextCrashesCounted ==
  ASSUME crashes \in Nat, [SeedingNext]_seedingVars
  PROVE  crashes' \in Nat
BY CrashesChangedBy DEF Crash

\* While the entry of a file has no rival, a store call on its id applies that
\* very entry.
LEMMA CallIsOwn ==
  ASSUME SeedInv, pc = "apply", NEW f \in Files, Unrivalled(FileEntry(f)),
         pending[Sub].id = FileEntry(f).policy_id
  PROVE  /\ pending[Sub].op = "upsert"
         /\ pending[Sub].policy = FileEntry(f).policy_json
<1> DEFINE e == FileEntry(f)
<1>1. /\ lastID + 1 \in 1 .. Len(stream)
      /\ pending[Sub] = processMessageEntry(stream[lastID + 1])
      /\ pending[Sub] # Idle
      /\ stream \in Seq(Published)
  BY CallInProgress, PublishedIdentified DEF SeedInv, SubscriberInv
<1>2. Touches(lastID + 1, e.policy_id)
  <2>1. e.policy_id \in Ids
    BY FileEntryPublished
  <2> QED
    BY <1>1, <2>1, EntryMeans DEF Touches
<1>3. stream[lastID + 1] = e
  BY <1>1, <1>2 DEF Unrivalled, Rivals
<1>4. e.action = "UPSERT"
  BY DEF FileEntry, UpsertEntry
<1>5. processMessageEntry(e) # Idle
  BY <1>1, <1>3
<1>6. processMessageEntry(e) = UpsertCall(e.policy_json)
  BY <1>4, <1>5 DEF processMessageEntry
<1> QED
  BY <1>1, <1>3, <1>6 DEF UpsertCall

\* However often the enforcement point publishes its directory again, and
\* whatever arrives late or twice: a policy of the directory that is in force
\* stays in force, unchanged and without a gap, as long as nobody publishes
\* anything else for its id (seedPolicies of examples/httpbin/pep/main.go, and
\* UpsertPolicy's treatment of an unchanged access mode).
THEOREM SeedUninterrupted == SeedingSpec => SeedNeverInterrupts
<1> DEFINE Undisturbed ==
      \A k \in DOMAIN seeder.files :
        LET e == FileEntry(seeder.files[k]) IN
        Unrivalled(e) /\ active[e.policy_id] = e.policy_json /\ crashes' = crashes
          => active'[e.policy_id] = active[e.policy_id]
<1>1. SeedInv /\ crashes \in Nat /\ [SeedingNext]_seedingVars => Undisturbed
  <2> SUFFICES ASSUME SeedInv, crashes \in Nat, [SeedingNext]_seedingVars, active' # active,
                      NEW k \in DOMAIN seeder.files,
                      Unrivalled(FileEntry(seeder.files[k])),
                      active[FileEntry(seeder.files[k]).policy_id]
                        = FileEntry(seeder.files[k]).policy_json,
                      crashes' = crashes
               PROVE  active'[FileEntry(seeder.files[k]).policy_id]
                        = active[FileEntry(seeder.files[k]).policy_id]
    OBVIOUS
  <2>1. PICK f \in Files : f = seeder.files[k]
    BY DEF SeedInv, SeederInv
  <2>2. PICK e : e = FileEntry(f)
    OBVIOUS
  <2>3. /\ e.policy_id \in Ids /\ Unrivalled(e) /\ active[e.policy_id] = e.policy_json
        /\ e = FileEntry(seeder.files[k])
    BY <2>1, <2>2, FileEntryPublished
  <2>4. SubscriberInv(Published) /\ Identified(Published)
    BY PublishedIdentified DEF SeedInv
  <2>5. CASE StoreStep
    <3>1. e.policy_id # pending[Sub].id
      <4> SUFFICES ASSUME e.policy_id = pending[Sub].id PROVE FALSE
        OBVIOUS
      <4>1. pc = "apply"
        BY <2>4, <2>5, StoreStepEffect
      <4>2. pending[Sub].op = "upsert" /\ pending[Sub].policy = active[pending[Sub].id]
        BY <2>2, <2>3, <4>1, CallIsOwn
      <4>3. ~Store!SameSide(active[pending[Sub].id], pending[Sub].policy)
        BY <2>4, <2>5, <4>2, StoreStepEffect
      <4> QED
        BY <4>2, <4>3 DEF Store!SameSide
    <3> QED
      BY <2>3, <2>4, <2>5, <3>1, StoreStepEffect
  <2>6. CASE StoreReturn
    <3>1. CASE e.policy_id = pending[Sub].id
      <4>1. pc = "apply"
        BY <2>4, <2>6, StoreReturnEffect
      <4>2. Outcome(pending[Sub]) = active[pending[Sub].id]
        BY <2>2, <2>3, <3>1, <4>1, CallIsOwn DEF Outcome
      <4> QED
        BY <2>3, <2>4, <2>6, <3>1, <4>2, StoreReturnEffect
    <3>2. CASE e.policy_id # pending[Sub].id
      BY <2>3, <2>4, <2>6, <3>2, StoreReturnEffect
    <3> QED
      BY <3>1, <3>2
  <2>7. ~Crash
    <3>1. SUFFICES ASSUME Crash PROVE FALSE
      OBVIOUS
    <3> QED
      BY <3>1 DEF Crash
  <2> QED
    BY <2>5, <2>6, <2>7, StoreChangedBy
<1>2. SeedInv /\ crashes \in Nat /\ [SeedingNext]_seedingVars => [Undisturbed]_vars
  BY <1>1
<1>3. SeedNeverInterrupts <=> [][Undisturbed]_vars
  BY DEF SeedNeverInterrupts
<1>4. SeedingInit => SeedInv /\ crashes \in Nat
  BY InitSeedInv DEF SeedingInit, Init
<1>5. (SeedInv /\ crashes \in Nat) /\ [SeedingNext]_seedingVars => (SeedInv /\ crashes \in Nat)'
  BY NextSeedInv, NextCrashesCounted
<1> QED
  BY <1>2, <1>3, <1>4, <1>5, PTL DEF SeedingSpec

--------------------------------------------------------------------------------
(* Only validated policies become active *)

\* What the enforcement points and the tools publish is checked like everything
\* else: a policy file with an unknown access mode or an invalid pattern, which
\* seedPolicies publishes without looking at it, never becomes active
\* (processMessageEntry of internal/subscriber/redis.go).
THEOREM SeedOnlyValidated == SeedingSpec => []OnlyValidated
<1>1. SeedingInit => SeedInv /\ OnlyValidated
  BY InitSeedInv DEF SeedingInit, Init, Store!Init, OnlyValidated
<1>2. (SeedInv /\ OnlyValidated) /\ [SeedingNext]_seedingVars => (SeedInv /\ OnlyValidated)'
  <2> SUFFICES ASSUME SeedInv, OnlyValidated, [SeedingNext]_seedingVars
               PROVE  OnlyValidated'
    BY NextSeedInv
  <2>1. SubscriberInv(Published) /\ Identified(Published)
    BY PublishedIdentified DEF SeedInv
  <2> QED
    BY <2>1, StoreChangedBy, EngineOnlyValidated
<1> QED
  BY <1>1, <1>2, PTL DEF SeedingSpec

--------------------------------------------------------------------------------
(* The store follows the stream, wiped or not *)

\* A step leaves the engine and the stream alone, publishes, is one of the
\* engine's, or wipes the stream.
LEMMA SeedingSteps ==
  ASSUME SeedInv, [SeedingNext]_seedingVars
  PROVE  \/ UNCHANGED vars
         \/ \E e \in Published : Publish(e)
         \/ Subscriber \/ Crash \/ Restart
         \/ Wipe
<1>1. SeederInv /\ ToolInv /\ inflight \subseteq Published
  BY DEF SeedInv
<1>2. CASE Seeder
  BY <1>1, <1>2, SeedEntryPublished
     DEF Seeder, LoadFiles, SeedPublished, SeedFails, SeedBackoff, SeederRestarts
<1>3. CASE Tool
  BY <1>1, <1>3, ToolEntryPublished
     DEF Tool, ToolStarts, ToolPublished, ToolFails, DeadlinePasses, Probe
<1>4. CASE Redis
  BY <1>1, <1>4 DEF Redis, ClientRetries, Land
<1>5. CASE \E e \in Entries : ForeignUpdate(e)
  BY <1>5 DEF ForeignUpdate, Published
<1> QED
  BY <1>2, <1>3, <1>4, <1>5 DEF SeedingNext, Engine, seedingVars

\* No entry read so far is an update of this id.
Untouched(id) == \A i \in 1 .. lastID : ~TouchedBy(stream, i, id)

LEMMA UntouchedMeans ==
  ASSUME NEW id
  PROVE  Untouched(id)' <=> \A i \in 1 .. lastID' : ~TouchedBy(stream', i, id)
BY DEF Untouched, TouchedBy

LEMMA SinceWipeMeans == AppliedSinceWipe <=> \A id \in Ids : Untouched(id) \/ Settled(id)
<1>1. \A id \in Ids : Untouched(id) <=> \A i \in 1 .. lastID : ~Touches(i, id)
  BY EntryMeans DEF Touches, Untouched, TouchedBy
<1> QED
  BY <1>1, ExplainedMeans DEF AppliedSinceWipe, Settled

LEMMA SinceWipeMeansNext == AppliedSinceWipe' <=> \A id \in Ids : Untouched(id)' \/ Settled(id)'
<1>1. \A id \in Ids : Untouched(id)' <=> \A i \in 1 .. lastID' : ~Touches(i, id)'
  BY EntryMeans, UntouchedMeans DEF Touches, TouchedBy
<1> QED
  BY <1>1, ExplainedMeansNext, SettledMeans DEF AppliedSinceWipe

\* The engine reads on: the id stays untouched, or the entry read settles it.
LEMMA EngineTouches ==
  ASSUME NEW E, Identified(E), SubscriberInv(E), NEW id \in Ids, Untouched(id),
         Subscriber \/ Crash \/ Restart
  PROVE  Untouched(id)' \/ Settled(id)'
<1>0. lastID \in Nat /\ \A i \in 1 .. lastID + 1 : i \in 1 .. lastID \/ i = lastID + 1
  BY DEF SubscriberInv
<1>1. CASE stream' = stream /\ lastID' = lastID
  BY <1>1, UntouchedMeans DEF Untouched
<1>2. CASE SkipEntry
  <2>1. ~TouchedBy(stream, lastID + 1, id)
    BY <1>2 DEF SkipEntry, NextCall, TouchedBy
  <2> QED
    BY <1>0, <1>2, <2>1, UntouchedMeans DEF SkipEntry, Untouched
<1>3. CASE StoreReturn
  <2>1. CASE id = pending[Sub].id
    BY <1>3, <2>1, ReturnSettles
  <2>2. CASE id # pending[Sub].id
    <3>1. /\ stream' = stream /\ lastID' = lastID + 1
          /\ pending[Sub] = processMessageEntry(stream[lastID + 1])
      BY <1>3, StoreReturnEffect, CallInProgress
    <3>2. ~TouchedBy(stream, lastID + 1, id)
      BY <2>2, <3>1 DEF TouchedBy
    <3> QED
      BY <1>0, <3>1, <3>2, UntouchedMeans DEF Untouched
  <2> QED
    BY <2>1, <2>2
<1>4. CASE Crash
  BY <1>4, UntouchedMeans DEF Crash
<1>5. SkipEntry \/ StoreReturn \/ Crash \/ (stream' = stream /\ lastID' = lastID)
  BY DEF Subscriber, CheckContext, XRead, ReadEntry, ApplyEntry, XReadNil, XReadError, Apply,
         StoreStep, Backoff, Restart
<1> QED
  BY <1>1, <1>2, <1>3, <1>4, <1>5

LEMMA NextSinceWipe ==
  ASSUME SeedInv, AppliedSinceWipe, [SeedingNext]_seedingVars
  PROVE  AppliedSinceWipe'
<1> SUFFICES ASSUME NEW id \in Ids
             PROVE  Untouched(id)' \/ Settled(id)'
  BY SinceWipeMeansNext
<1>1. SubscriberInv(Published) /\ Identified(Published)
  BY PublishedIdentified DEF SeedInv
<1>2. lastID \in Nat /\ Len(stream) \in Nat /\ lastID <= Len(stream)
  BY <1>1 DEF SubscriberInv
<1>3. Untouched(id) \/ Settled(id)
  BY SinceWipeMeans
<1>4. CASE UNCHANGED vars
  BY <1>2, <1>3, <1>4, QuietKeepsSettled, UntouchedMeans DEF vars, storeVars, Untouched
<1>5. ASSUME NEW e \in Published, Publish(e)
      PROVE  Untouched(id)' \/ Settled(id)'
  <2>1. lastID' = lastID /\ \A i \in 1 .. lastID : stream'[i] = stream[i]
    BY <1>1, <1>2, <1>5, PublishKeeps DEF Publish
  <2>2. Untouched(id) => Untouched(id)'
    BY <2>1, UntouchedMeans DEF Untouched, TouchedBy
  <2> QED
    BY <1>1, <1>3, <1>5, <2>2, PublishKeepsSettled
<1>6. CASE Subscriber \/ Crash \/ Restart
  BY <1>1, <1>3, <1>6, EngineTouches, EngineKeepsSettled
<1>7. CASE Wipe
  BY <1>7, UntouchedMeans DEF Wipe
<1> QED
  BY <1>4, <1>5, <1>6, <1>7, SeedingSteps

LEMMA InitSinceWipe == SeedingInit => AppliedSinceWipe
BY DEF SeedingInit, Init, AppliedSinceWipe

\* With any number of publishers, retries, duplicates and wipes around it, the
\* store is the effect of the entries the engine has read since the stream was
\* last lost, for every id they name (Start of internal/subscriber/redis.go
\* composed with what the enforcement points and tools publish).
THEOREM SeedAppliedSinceWipe == SeedingSpec => []AppliedSinceWipe
<1>1. SeedingInit => SeedInv /\ AppliedSinceWipe
  BY InitSeedInv, InitSinceWipe
<1>2. (SeedInv /\ AppliedSinceWipe) /\ [SeedingNext]_seedingVars => (SeedInv /\ AppliedSinceWipe)'
  BY NextSeedInv, NextSinceWipe
<1> QED
  BY <1>1, <1>2, PTL DEF SeedingSpec

--------------------------------------------------------------------------------
(* An enforcement point that serves has seeded *)

Has(s, e) == \E i \in DOMAIN s : s[i] = e

\* Of the files of s, the first n are in the stream.
FirstIn(s, n) == \A k \in DOMAIN s : k <= n => Has(stream, FileEntry(s[k]))

\* Unless the stream was wiped since, the files published in this attempt are in
\* it, and all of them once it is served.
SeedProgress ==
  \/ wiped
  \/ /\ seeder.at = "publish" => FirstIn(seeder.files, seeder.next - 1)
     /\ seeder.at = "serving" => FirstIn(seeder.files, Len(seeder.files))

\* The stream only grows, but for a wipe.
LEMMA StreamGrows ==
  ASSUME SeedInv, [SeedingNext]_seedingVars, ~Wipe
  PROVE  \A e : Has(stream, e) => Has(stream', e)
<1>1. CASE stream' = stream
  BY <1>1
<1>2. ASSUME NEW e \in Published, Publish(e)
      PROVE  \A x : Has(stream, x) => Has(stream', x)
  <2>1. /\ stream' \in Seq(Published) /\ stream \in Seq(Published)
        /\ Len(stream') = Len(stream) + 1
        /\ \A i \in 1 .. Len(stream) : stream'[i] = stream[i]
    BY <1>2, PublishKeeps DEF SeedInv, SubscriberInv
  <2>2. DOMAIN stream = 1 .. Len(stream) /\ DOMAIN stream \subseteq DOMAIN stream'
    BY <2>1
  <2> QED
    BY <2>1, <2>2 DEF Has
<1>3. Subscriber \/ Crash \/ Restart => stream' = stream
  BY DEF Subscriber, CheckContext, XRead, ReadEntry, SkipEntry, ApplyEntry, XReadNil, XReadError,
         Apply, StoreStep, StoreReturn, Backoff, Restart, Crash
<1> QED
  BY <1>1, <1>2, <1>3, SeedingSteps DEF vars

\* An entry published is in the stream.
LEMMA PublishAdds ==
  ASSUME NEW e, stream \in Seq(Published), Publish(e)
  PROVE  Has(stream', e)
<1>1. stream' = Append(stream, e) /\ Len(stream) \in Nat
  BY DEF Publish
<1>2. Len(stream) + 1 \in DOMAIN stream' /\ stream'[Len(stream) + 1] = e
  BY <1>1
<1> QED
  BY <1>2 DEF Has

LEMMA FirstInMeans ==
  ASSUME NEW s, NEW n
  PROVE  FirstIn(s, n)' <=> \A k \in DOMAIN s : k <= n => Has(stream', FileEntry(s[k]))
BY DEF FirstIn, Has

LEMMA NextSeedProgress ==
  ASSUME SeedInv, SeedProgress, [SeedingNext]_seedingVars
  PROVE  SeedProgress'
<1>0. /\ seeder.files \in Seq(Files) /\ Len(seeder.files) \in Nat /\ seeder.next \in Nat
      /\ DOMAIN seeder.files = 1 .. Len(seeder.files)
      /\ seeder.at \in {"publish", "backoff"} => seeder.next \in DOMAIN seeder.files
      /\ stream \in Seq(Published)
  BY DEF SeedInv, SeederInv, SubscriberInv
<1>1. CASE Wipe
  BY <1>1 DEF Wipe, SeedProgress
<1>2. ASSUME ~Wipe, seeder' = seeder, wiped' = wiped
      PROVE  SeedProgress'
  <2>1. \A e : Has(stream, e) => Has(stream', e)
    BY <1>2, StreamGrows
  <2>2. PICK s, n, m : s = seeder.files /\ n = seeder.next - 1 /\ m = Len(seeder.files)
    OBVIOUS
  <2>3. (FirstIn(s, n) => FirstIn(s, n)') /\ (FirstIn(s, m) => FirstIn(s, m)')
    BY <2>1, FirstInMeans DEF FirstIn
  <2>4. /\ FirstIn(seeder.files, seeder.next - 1)' <=> FirstIn(s, n)'
        /\ FirstIn(seeder.files, Len(seeder.files))' <=> FirstIn(s, m)'
    BY <1>2, <2>2 DEF FirstIn, Has
  <2> QED
    BY <1>2, <2>2, <2>3, <2>4 DEF SeedProgress
<1>3. CASE LoadFiles
  <2>1. PICK s \in loadPolicyFiles(dir) :
          seeder' = [at |-> IF s = <<>> THEN "serving" ELSE "publish", files |-> s, next |-> 1]
    BY <1>3 DEF LoadFiles
  <2>2. s \in Seq(Files)
    BY LoadedFiles DEF SeedInv, SeederInv
  <2>3. /\ seeder'.files = s /\ seeder'.next = 1
        /\ seeder'.at = "serving" => s = <<>>
    BY <2>1
  <2>4. \A k \in DOMAIN s : k \in Nat /\ k >= 1
    BY <2>2
  <2> QED
    BY <2>3, <2>4 DEF SeedProgress, FirstIn
<1>4. CASE SeedPublished
  <2>1. ~Wipe
    BY <1>0, <1>4 DEF SeedPublished, Wipe, Publish
  <2>2. wiped' = wiped /\ seeder.at = "publish" /\ Publish(SeedEntry)
    BY <1>4 DEF SeedPublished
  <2>3. \A e : Has(stream, e) => Has(stream', e)
    BY <2>1, StreamGrows
  <2>4. Has(stream', FileEntry(seeder.files[seeder.next]))
    BY <1>0, <2>2, PublishAdds DEF SeedEntry
  <2>5. ASSUME ~wiped, NEW k \in DOMAIN seeder.files, k <= seeder.next
        PROVE  Has(stream', FileEntry(seeder.files[k]))
    <3>1. k <= seeder.next - 1 \/ k = seeder.next
      BY <1>0, <2>5
    <3> QED
      BY <2>2, <2>3, <2>4, <2>5, <3>1 DEF SeedProgress, FirstIn
  <2>6. CASE seeder.next < Len(seeder.files)
    <3>1. /\ seeder'.at = "publish" /\ seeder'.files = seeder.files
          /\ seeder'.next - 1 = seeder.next
      BY <1>0, <1>4, <2>2, <2>6 DEF SeedPublished, SeedInv, SeederInv
    <3> QED
      BY <2>2, <2>5, <3>1 DEF SeedProgress, FirstIn, Has
  <2>7. CASE ~(seeder.next < Len(seeder.files))
    <3>1. seeder'.at = "serving" /\ seeder'.files = seeder.files
      BY <1>0, <1>4, <2>2, <2>7 DEF SeedPublished, SeedInv, SeederInv
    <3>2. seeder.next = Len(seeder.files)
      BY <1>0, <2>2, <2>7
    <3> QED
      BY <2>2, <2>5, <3>1, <3>2 DEF SeedProgress, FirstIn, Has
  <2> QED
    BY <2>6, <2>7
<1>5. CASE SeedFails
  BY <1>5 DEF SeedFails, SeedInv, SeederInv, SeedProgress
<1>6. CASE SeedBackoff
  <2>1. seeder'.at = "publish" /\ seeder'.next = 1 /\ seeder'.files = seeder.files
    BY <1>6 DEF SeedBackoff, SeedInv, SeederInv
  <2>2. \A k \in DOMAIN seeder.files : ~(k <= 1 - 1)
    BY <1>0
  <2> QED
    BY <2>1, <2>2 DEF SeedProgress, FirstIn
<1>7. CASE SeederRestarts
  BY <1>7 DEF SeederRestarts, SeedProgress
<1>8. \/ Wipe \/ LoadFiles \/ SeedPublished \/ SeedFails \/ SeedBackoff \/ SeederRestarts
      \/ seeder' = seeder /\ wiped' = wiped
  BY DEF SeedingNext, seedingVars, seedVars, Engine, Seeder, Tool, Redis, ToolStarts, ToolPublished,
         ToolFails, DeadlinePasses, Probe, ClientRetries, Land, ForeignUpdate
<1> QED
  BY <1>1, <1>2, <1>3, <1>4, <1>5, <1>6, <1>7, <1>8

LEMMA InitSeedProgress == SeedingInit => SeedProgress
BY DEF SeedingInit, SeedProgress

\* An accepted entry of a file is an update of the file's own id.
LEMMA FileEntryCall ==
  ASSUME NEW f \in Files, processMessageEntry(FileEntry(f)) # Idle
  PROVE  /\ processMessageEntry(FileEntry(f)).id = FileEntry(f).policy_id
         /\ Outcome(processMessageEntry(FileEntry(f))) = FileEntry(f).policy_json
<1> DEFINE e == FileEntry(f)
<1>1. e.action = "UPSERT" /\ e.policy_id = f.id /\ e.policy_json = f.policy_json
  BY DEF FileEntry, UpsertEntry
<1>2. processMessageEntry(e) = UpsertCall(e.policy_json) /\ e.policy_json \in Policy
  BY <1>1 DEF processMessageEntry
<1>3. e.policy_json.id = f.id
  BY <1>1, <1>2, SeedingConstants DEF Files
<1> QED
  BY <1>1, <1>2, <1>3 DEF UpsertCall, Outcome

\* When the enforcement point serves and the engine has caught up, every file the
\* engine accepts is in force, or a later entry of somebody else replaced it, or
\* the stream was wiped: for directories of any size, after any number of failed
\* attempts, lost replies, duplicates and crashes.  (seedPolicies of both
\* enforcement points; that this state is reached is SeedTakesEffect.)
THEOREM SeedServed == SeedingSpec => []ServedIsSeeded
<1>1. SeedInv /\ AppliedSinceWipe /\ SeedProgress => ServedIsSeeded
  <2> SUFFICES ASSUME SeedInv, AppliedSinceWipe, SeedProgress,
                      seeder.at = "serving", lastID = Len(stream), ~wiped,
                      NEW k \in DOMAIN seeder.files,
                      processMessageEntry(FileEntry(seeder.files[k])) # Idle
               PROVE  \/ active[FileEntry(seeder.files[k]).policy_id]
                            = FileEntry(seeder.files[k]).policy_json
                      \/ Superseded(FileEntry(seeder.files[k]))
    BY DEF ServedIsSeeded
  <2>1. PICK f \in Files : f = seeder.files[k]
    BY DEF SeedInv, SeederInv
  <2>2. PICK e : e = FileEntry(f)
    OBVIOUS
  <2>3. PICK id \in Ids : id = e.policy_id
    BY <2>2, FileEntryPublished
  <2>4. /\ processMessageEntry(e) # Idle
        /\ processMessageEntry(e).id = id /\ Outcome(processMessageEntry(e)) = e.policy_json
    BY <2>1, <2>2, <2>3, FileEntryCall
  <2>5. /\ stream \in Seq(Published) /\ lastID \in Nat /\ DOMAIN stream = 1 .. lastID
        /\ pc # "apply"
    BY DEF SeedInv, SubscriberInv, PendingIsNext
  <2>6. PICK i \in 1 .. lastID : stream[i] = e
    <3>1. k \in 1 .. Len(seeder.files)
      BY DEF SeedInv, SeederInv
    <3>2. k <= Len(seeder.files)
      BY <3>1
    <3> QED
      BY <2>1, <2>2, <2>5, <3>2 DEF SeedProgress, FirstIn, Has
  <2>7. TouchedBy(stream, i, id)
    BY <2>4, <2>6 DEF TouchedBy
  <2>8. ExplainedBy(stream, active[id], id, lastID)
    BY <2>5, <2>6, <2>7, SinceWipeMeans DEF Untouched, Settled
  <2>9. PICK m \in 1 .. lastID :
          /\ TouchedBy(stream, m, id)
          /\ \A j \in m + 1 .. lastID : ~TouchedBy(stream, j, id)
          /\ active[id] = Outcome(processMessageEntry(stream[m]))
    BY <2>6, <2>7, <2>8 DEF ExplainedBy
  <2>10. CASE stream[m] = e
    BY <2>1, <2>2, <2>3, <2>4, <2>9, <2>10
  <2>11. CASE stream[m] # e
    <3>1. i < m
      <4>1. i # m /\ i \notin m + 1 .. lastID
        BY <2>6, <2>7, <2>9, <2>11
      <4> QED
        BY <2>5, <4>1
    <3>2. m \in Rivals(e)
      BY <2>3, <2>5, <2>9, <2>11, EntryMeans DEF Rivals, Touches, TouchedBy
    <3> QED
      BY <2>1, <2>2, <2>5, <2>6, <3>1, <3>2 DEF Superseded
  <2> QED
    BY <2>10, <2>11
<1>2. SeedingInit => SeedInv /\ AppliedSinceWipe /\ SeedProgress
  BY InitSeedInv, InitSinceWipe, InitSeedProgress
<1>3. (SeedInv /\ AppliedSinceWipe /\ SeedProgress) /\ [SeedingNext]_seedingVars
        => (SeedInv /\ AppliedSinceWipe /\ SeedProgress)'
  BY NextSeedInv, NextSinceWipe, NextSeedProgress
<1> QED
  BY <1>1, <1>2, <1>3, PTL DEF SeedingSpec
================================================================================

-------------------------------- MODULE Seeding --------------------------------
(***************************************************************************)
(* The programs that publish policies, composed with the stream, the       *)
(* subscriber and the store of PolicyStream:                               *)
(*  - an enforcement point, which publishes a directory of policy files    *)
(*    before it serves (seedPolicies in examples/httpbin/pep/main.go and   *)
(*    examples/envoy-jwt/extauthz/main.go, the same code);                 *)
(*  - a tool that publishes a fixed list, then probes CheckAccess until    *)
(*    the answer is allow (loadtest/seed, cmd/mock-publisher);             *)
(*  - anybody else who appends Entries.                                    *)
(*                                                                         *)
(* An XADD can fail without effect, or lose its reply: the command is then *)
(* in flight and may reach the stream at any later time, or never.         *)
(*                                                                         *)
(* A policy id is its rank in the order of Go strings.  A file is          *)
(*   [regular, id, policy_json]                                            *)
(* where regular says that it is no directory, is named *.json and can be  *)
(* read, and id is what the "id" member decodes to.                        *)
(***************************************************************************)
EXTENDS PolicyStream, FiniteSets

Seqs == INSTANCE SequencesExt

CONSTANTS
  Dirs,       \* contents the policies directory may have: sets of files
  ToolList,   \* what the tool publishes, in order
  Probed,     \* the policies that match the tool's probe
  MaxEvents   \* bound: runs of the tool, failed and lost XADDs, restarts, wipes, foreign updates

ASSUME SeedingConstants ==
  /\ Ids \subseteq Nat /\ MaxEvents \in Nat
  /\ \A D \in Dirs : IsFiniteSet(D) /\ \A f \in D : f.policy_json \in Policy => f.policy_json.id = f.id
  /\ ToolList \in Seq(Policy) /\ ToolList # <<>>

VARIABLES
  dir,       \* the policies directory
  seeder,    \* the enforcement point: [at, files, next]
  tool,      \* the tool: [at, next, late]
  inflight,  \* entries whose XADD got no reply and may still be executed
  wiped,     \* was the stream wiped since the enforcement point started?
  events     \* events so far

seedVars    == <<dir, seeder, tool, inflight, wiped, events>>
seedingVars == <<vars, seedVars>>

UpsertEntry(id, json) == [action |-> "UPSERT", policy_id |-> id, policy_json |-> json]

\* The bound on what happens around the seeding.
Event ==
  /\ events < MaxEvents
  /\ events' = events + 1

--------------------------------------------------------------------------------
(* seedPolicies *)

\* Any other file is logged, if anything, and passed over.
Usable(f) == f.regular /\ f.id \in Ids

\* The lists loadPolicyFiles may return: the usable files, sorted by id; the sort
\* is not stable, so files with the same id come in any order.
loadPolicyFiles(D) ==
  {s \in Seqs!SetToSeqs({f \in D : Usable(f)}) :
     \A i, j \in DOMAIN s : i < j => s[i].id <= s[j].id}

FileEntry(f) == UpsertEntry(f.id, f.policy_json)

\* Without files there is nothing to publish.
LoadFiles ==
  /\ seeder.at = "load"
  /\ \E s \in loadPolicyFiles(dir) :
       seeder' = [at |-> IF s = <<>> THEN "serving" ELSE "publish", files |-> s, next |-> 1]
  /\ UNCHANGED <<vars, dir, tool, inflight, wiped, events>>

SeedEntry == FileEntry(seeder.files[seeder.next])

\* Publish returned nil: the next file, or the enforcement point starts to serve.
SeedPublished ==
  /\ seeder.at = "publish"
  /\ Publish(SeedEntry)
  /\ seeder' = IF seeder.next < Len(seeder.files)
               THEN [seeder EXCEPT !.next = @ + 1]
               ELSE [seeder EXCEPT !.at = "serving"]
  /\ UNCHANGED <<dir, tool, inflight, wiped, events>>

\* Publish returned an error, whether or not the command is still on its way.
SeedFails ==
  /\ seeder.at = "publish"
  /\ Event
  /\ inflight' \in {inflight, inflight \cup {SeedEntry}}
  /\ seeder' = [seeder EXCEPT !.at = "backoff"]
  /\ UNCHANGED <<vars, dir, tool, wiped>>

\* Mutant: the next attempt goes on after the file that failed.
SeedBackoffSkips ==
  /\ seeder.at = "backoff"
  /\ seeder' = IF seeder.next < Len(seeder.files)
               THEN [seeder EXCEPT !.at = "publish", !.next = @ + 1]
               ELSE [seeder EXCEPT !.at = "serving"]
  /\ UNCHANGED <<vars, dir, tool, inflight, wiped, events>>

\* The next attempt begins with the first file again.
SeedBackoff ==
  /\ seeder.at = "backoff"
  /\ seeder' = [seeder EXCEPT !.at = "publish", !.next = 1]
  /\ UNCHANGED <<vars, dir, tool, inflight, wiped, events>>

\* The enforcement point is restarted, perhaps after its directory was edited.
SeederRestarts ==
  /\ Event
  /\ dir' \in Dirs
  /\ seeder' = [at |-> "load", files |-> <<>>, next |-> 1]
  /\ wiped' = FALSE
  /\ UNCHANGED <<vars, tool, inflight>>

--------------------------------------------------------------------------------
(* The tools *)

ToolStarts ==
  /\ tool.at = "absent"
  /\ Event
  /\ tool' = [tool EXCEPT !.at = "publish"]
  /\ UNCHANGED <<vars, dir, seeder, inflight, wiped>>

ToolEntry == UpsertEntry(ToolList[tool.next].id, ToolList[tool.next])

ToolPublished ==
  /\ tool.at = "publish"
  /\ Publish(ToolEntry)
  /\ tool' = IF tool.next < Len(ToolList)
             THEN [tool EXCEPT !.next = @ + 1]
             ELSE [tool EXCEPT !.at = "probe"]
  /\ UNCHANGED <<dir, seeder, inflight, wiped, events>>

\* os.Exit(1) after a publish error.
ToolFails ==
  /\ tool.at = "publish"
  /\ Event
  /\ inflight' \in {inflight, inflight \cup {ToolEntry}}
  /\ tool' = [tool EXCEPT !.at = "exited"]
  /\ UNCHANGED <<vars, dir, seeder, wiped>>

\* Five seconds have passed since the list was published.
DeadlinePasses ==
  /\ tool.at = "probe"
  /\ ~tool.late
  /\ tool' = [tool EXCEPT !.late = TRUE]
  /\ UNCHANGED <<vars, dir, seeder, inflight, wiped, events>>

\* CheckAccess on the probe: a matching ALLOW policy, no matching DENY policy,
\* and a process that answers.
ProbeAllowed ==
  /\ pc # "down"
  /\ \E id \in Ids : active[id] \in Probed /\ active[id].access = "ALLOW"
  /\ \A id \in Ids : active[id] \in Probed => active[id].access = "ALLOW"

\* Mutant: the probe is repeated for as long as it is not allowed.
ProbeForever ==
  /\ tool.at = "probe"
  /\ ProbeAllowed
  /\ tool' = [tool EXCEPT !.at = "verified"]
  /\ UNCHANGED <<vars, dir, seeder, inflight, wiped, events>>

\* One round of the loop: the deadline is looked at only after a probe that was
\* not allowed.  The call has no deadline of its own; it is assumed to return, with
\* an answer or an error.
Probe ==
  /\ tool.at = "probe"
  /\ tool' = [tool EXCEPT !.at = IF ProbeAllowed THEN "verified"
                                 ELSE IF tool.late THEN "exited" ELSE "probe"]
  /\ UNCHANGED <<vars, dir, seeder, inflight, wiped, events>>

--------------------------------------------------------------------------------
(* Redis and its client *)

Sending ==
  (IF seeder.at = "publish" THEN {SeedEntry} ELSE {}) \cup
  (IF tool.at = "publish" THEN {ToolEntry} ELSE {})

\* The client lost a reply and sends the command again, without telling Publish.
ClientRetries ==
  /\ Event
  /\ \E e \in Sending : inflight' = inflight \cup {e}
  /\ UNCHANGED <<vars, dir, seeder, tool, wiped>>

\* A command without a reply is executed after all.
Land(e) ==
  /\ e \in inflight
  /\ Publish(e)
  /\ inflight' = inflight \ {e}
  /\ UNCHANGED <<dir, seeder, tool, wiped, events>>

\* Somebody else updates a policy.
ForeignUpdate(e) ==
  /\ Event
  /\ Publish(e)
  /\ UNCHANGED <<dir, seeder, tool, inflight, wiped>>

\* The stream is lost.  Ids of new entries are larger than any before, so a
\* running subscriber goes on with the first of them.  (While an entry is being
\* applied the wipe can as well be taken to happen after it.)
Wipe ==
  /\ pc # "apply"
  /\ Event
  /\ stream' = <<>>
  /\ lastID' = 0
  /\ wiped' = TRUE
  /\ UNCHANGED <<pc, cancelled, crashes, storeVars, dir, seeder, tool, inflight>>

--------------------------------------------------------------------------------
SeedingInit ==
  /\ Init
  /\ dir \in Dirs
  /\ seeder   = [at |-> "load", files |-> <<>>, next |-> 1]
  /\ tool     = [at |-> "absent", next |-> 1, late |-> FALSE]
  /\ inflight = {}
  /\ wiped    = FALSE
  /\ events   = 0

Engine == (Subscriber \/ Crash \/ Restart) /\ UNCHANGED seedVars
Seeder == LoadFiles \/ SeedPublished \/ SeedFails \/ SeedBackoff \/ SeederRestarts
Tool   == ToolStarts \/ ToolPublished \/ ToolFails \/ DeadlinePasses \/ Probe
Redis  == ClientRetries \/ Wipe \/ \E e \in inflight : Land(e)

\* main gives the subscriber a context that is never cancelled.
SeedingNext ==
  \/ Engine
  \/ Seeder
  \/ Tool
  \/ Redis
  \/ \E e \in Entries : ForeignUpdate(e)

\* Programs that can run do, timers fire, and Redis does not refuse every XADD.
\* A command in flight need not arrive.
SeedingFairness ==
  /\ Fairness
  /\ WF_seedingVars(LoadFiles) /\ WF_seedingVars(SeedPublished) /\ WF_seedingVars(SeedBackoff)
  /\ WF_seedingVars(ToolPublished) /\ WF_seedingVars(DeadlinePasses) /\ WF_seedingVars(Probe)

SeedingSpec == SeedingInit /\ [][SeedingNext]_seedingVars /\ SeedingFairness

--------------------------------------------------------------------------------
(* Properties *)

\* The accepted entries for the id of e that are not e.
Rivals(e) == {i \in DOMAIN stream : Touches(i, e.policy_id) /\ stream[i] # e}

\* Nobody but the file behind e has an entry for its id.
Unrivalled(e) ==
  /\ Rivals(e) = {}
  /\ \A f \in inflight : f.policy_id = e.policy_id => f = e

\* Seeding again, after an error, a lost reply or a restart, never disturbs a
\* policy that is already in force: while nobody publishes anything else for its
\* id, republishing it never makes it absent or different, not even for the
\* duration of a store call.  Only the death of the engine takes it away.
SeedNeverInterrupts ==
  [][\A k \in DOMAIN seeder.files :
       LET e == FileEntry(seeder.files[k]) IN
       Unrivalled(e) /\ active[e.policy_id] = e.policy_json /\ crashes' = crashes
         => active'[e.policy_id] = active[e.policy_id]]_vars

\* e is in the stream, and something else for the same id comes after it.
Superseded(e) == \E i \in DOMAIN stream : stream[i] = e /\ \E j \in Rivals(e) : i < j

\* AppliedInOrder since the last wipe: an id that the new stream has an entry for
\* has what the last one read so far says.  What the store held before the wipe
\* lasts only as long as nothing read since names its id.
AppliedSinceWipe ==
  \A id \in Ids :
    \/ \A i \in 1 .. lastID : ~Touches(i, id)
    \/ Explained(id, lastID)
    \/ pc = "apply" /\ pending[Sub].id = id /\ active[id] = NoPolicy

\* Once the enforcement point serves and the engine has read all there is, every
\* file the engine accepts is in force, unless somebody published another version
\* after it or the stream was wiped since: an attempt that began again after an
\* error, or after a restart in the middle, has left no file out.
ServedIsSeeded ==
  seeder.at = "serving" /\ lastID = Len(stream) =>
    \A k \in DOMAIN seeder.files :
      LET e == FileEntry(seeder.files[k]) IN
      processMessageEntry(e) # Idle =>
        active[e.policy_id] = e.policy_json \/ Superseded(e) \/ wiped

\* However publishing fails, whatever is executed late or twice, and whenever the
\* engine or the enforcement point restarts: in the end it serves, and every file
\* the engine accepts is in force, unless somebody published another version
\* after it or the stream was wiped since ("if Redis was wiped, restart the PEP").
SeedTakesEffect ==
  <>[](/\ seeder.at = "serving"
       /\ \A k \in DOMAIN seeder.files :
            LET e == FileEntry(seeder.files[k]) IN
            processMessageEntry(e) # Idle =>
              active[e.policy_id] = e.policy_json \/ Superseded(e) \/ wiped)

\* A tool ends, verified or with an error, also when the engine is down or some
\* other policy denies the probe.
ToolEnds == tool.at = "publish" ~> tool.at \in {"verified", "exited"}

\* loadtest/seed: it "publishes the policies below, and verifies the resulting
\* policy set with a probe request".
VerifiedIsSeeded ==
  tool.at = "verified" =>
    \A k \in DOMAIN ToolList : active[ToolList[k].id] = ToolList[k]
================================================================================

# Verification of bouncer-engine

TLA+ modules, TLC runs and TLAPS proofs for the policy decision point in this
repository: the in-memory policy store, the stream subscriber that feeds it, the
condition operators, the decision engine, the gRPC server with its audit
pipeline and metrics, and the programs around them: two enforcement points and
two publishing tools. Source paths below are relative to `src/`.

Parse with SANY, check a run with `tlc -config <cfg> <MC module>`, check the
proofs with `tlapm <module>Proofs.tla`. `PROJECT.json` lists runs, mutants,
theorems and, for every definition that models code, the lines it stands for.

## 1. The system

```
 publishers --XADD--> Redis stream --XREAD--> subscriber --Upsert/Delete--> store
                                                                             |
 PEP / Envoy --CheckAccess--> interceptor --> handler --> engine --List------+
                                  |              |
                               metrics      audit channel --> workers --> log
```

| Component | State | Operations | Interacts through |
| --- | --- | --- | --- |
| Policy store (`internal/store/store.go`) | two `atomic.Pointer`s to immutable maps | `UpsertPolicy`, `DeletePolicy`, `ListActivePolicies`, `Count` | called by the subscriber (writes), by the handlers and the metrics scrape (reads), all concurrently, no lock |
| Policy model (`internal/store/policy.go`) | none | `Compile` | called by the subscriber before a policy reaches the store |
| Subscriber (`internal/subscriber/redis.go`) | `lastID`, in memory | `Start`, `processMessageEntry` | blocking `XREAD`, calls on the store, its context |
| Publisher (`internal/subscriber/publish.go`) | none | `Publish` | `XADD` |
| Operators (`internal/engine/operators.go`) | none | `EvaluateCondition`, six operators | called by the engine |
| Engine (`internal/engine/engine.go`) | none | `CheckAccess`, `firstMatch` | one snapshot per request |
| gRPC server (`internal/server/grpc.go`) | none of its own | `CheckAccess` | engine, audit logger |
| Audit logger (`internal/audit/logger.go`) | buffered channel, wait group | `LogDecision`, `worker`, `Stop` | fed by handlers, drained by workers |
| Metrics (`internal/metrics/metrics.go`) | counters, histogram, gauge | interceptor, policy gauge | wraps the handler, calls `Count` |
| Entry point (`cmd/bouncer-engine/main.go`) | — | start, exit | wires the above |
| httpbin PEP (`examples/httpbin/pep`) | none | `seedPolicies` at start, then one handler per request | `Publish`; `CheckAccess` with a deadline; proxies what is allowed |
| Envoy adapter (`examples/envoy-jwt/extauthz`) | none | the same seeding, `Check`, graceful stop | called by Envoy with a deadline of its own; calls `CheckAccess` |
| Tools (`cmd/mock-publisher`, `loadtest/seed`) | — | publish fixed policies, probe | `Publish`, `CheckAccess` |

What is hard to test here:

* **Two pointers, no lock.** An upsert that changes the access mode is two
  independent swaps, a read is two independent loads. Every order of these four
  matters, and a writer may be overtaken between any load and its swap.
* **Replay.** Nothing is persisted. After a crash everything is rebuilt from the
  stream while the server is already answering, and rejected entries must not
  disturb what is in force.
* **A bounded channel and a stop.** Records are dropped when the buffer is full,
  the channel is closed while handlers may still want to send, and `Stop` waits
  for workers that must drain first.
* **Unordered evaluation.** Slices come from ranging over Go maps, and evaluation
  stops at the first match.
* **Publishing without a transaction.** Seeding starts over after an error, an
  `XADD` may be executed after its sender has given up, and programs, engine and
  Redis restart independently of each other.
* **Deadlines that the other side does not know of.** An enforcement point gives
  up after two seconds, Envoy gives up on the adapter, the handler goes on and
  logs its decision.
* **Shortcuts and conversions in the operators.** Length shortcuts, counting with
  early exit, prefix lengths at both ends, integers out of range.

Correctness, component by component: the *store* is one map from id to policy, no
update is lost, an unrecognised mode never grants, and readers see for each id
something that was in force while they read. The *subscriber* leaves the store equal to the
effect of the accepted entries up to `lastID`, catches up, and stops between
entries. The *operators* compute what their names say. The *engine* is
deny-overrides with default deny, whatever the slice order. The *server* leaves
exactly one audit record per decision, counters that agree with the records, and
a complete log after a graceful stop. An *enforcement point* ends up with every
usable policy file in force and never disturbs one that is, forwards only what the engine
allowed for that very request, and answers every request. `PROJECT.json` lists the hazards one by
one at their lines, each with the properties aimed at it.

## 2. The modules

| Module | Models | Role |
| --- | --- | --- |
| `ActivePolicies` | what the store promises | abstract: one map, calls that take effect on it |
| `PolicyStore` | `internal/store/store.go` | detailed; implements `ActivePolicies` |
| `PolicyStream` | `internal/subscriber/*.go`, restart in `main.go` | composes the subscriber with `ActivePolicies` |
| `Operators` | `internal/engine/operators.go`, `Compile` in `internal/store/policy.go` | operators as functions |
| `Conditions` | one call of `EvaluateCondition` | extends `Operators`: what each operator means, by definitions that share nothing with the loops |
| `Engine` | `internal/engine/engine.go` | extends `Operators` |
| `EnforcementPoint` | request mapping of both enforcement points, `mapAttributes` of `internal/server/grpc.go` | extends `Engine`: from the HTTP request to the decision and back |
| `ShippedPolicies` | `examples/httpbin/policies`, `examples/envoy-jwt/policies`, the policy suggested in `examples/httpbin/README.md` | extends `EnforcementPoint`: the policies of the two examples and what their descriptions say |
| `AuthzServer` | `internal/server/grpc.go`, `internal/audit/logger.go`, interceptor of `internal/metrics/metrics.go`, exit in `main.go` | composition of handlers, interceptor, channel, workers and shutdown |
| `EnforcementCall` | deadlines and stop of both enforcement points | composes them with `AuthzServer` |
| `Seeding` | `seedPolicies` and `loadPolicyFiles` of both enforcement points, `loadtest/seed`, `cmd/mock-publisher` | composes the publishing programs with `PolicyStream` |
| `*Proofs` | — | theorems about the module of that name (section 4) |
| `MC*` | — | instances for TLC |

Operators called "Mutant" in the modules are deliberately wrong variants of the
definition that follows them. No specification uses them; each shows that the
property named in `PROJECT.json` notices that fault.

### PolicyStore

`table` is the pair of atomic pointers. A pointer is an address plus the contents
of the immutable map there, so comparing addresses in `CompareAndSwap` is not the
same as comparing contents. A new map may be placed at any address that no table and no
goroutine's `currentMapPtr` still refers to: this is what the garbage collector
guarantees, it allows addresses to be reused, and it is why the swap has no ABA
problem. Per writer, `call`, `phase` and `seen` are the call in progress, which of its two loops it
is in, and `currentMapPtr`/`currentMap`. Per reader, `reading` and `snap` are the
loads done so far; `during` is history, the table states since the first load,
that no action reads except to bound its size (`MaxWindow`).

| Action | Code |
| --- | --- |
| `UpsertPolicy`, `DeletePolicy` | entry of the function; `Loop` gives the table and kind of each of its two loops |
| `Load` | `target.Load()` |
| `NothingToRemove` | the early return of `removeFrom` |
| `CompareAndSwap`, `SwapFails` | the outcomes of `target.CompareAndSwap`, copy included |
| `LoadAllow`, `LoadDeny`, `Return` | the two loads and the return of `ListActivePolicies` and of `Count` |

`Conflicts` says whether two writers may work on the same id at once. `store.go`
documents that this is unsupported and leaves the id in both tables; the only
caller is the single subscriber goroutine. Properties that need this are checked and
proved for `Conflicts = FALSE`, and the others without it.

### PolicyStream

`stream` is the Redis stream, `lastID` a position in it, `pc` where `Start` is.
The store is `ActivePolicies` (by refinement, `PolicyStore`), so an update still
takes several steps that readers and crashes can come between. An entry is
rejected by `processMessageEntry` for every reason in the code: missing field,
unknown action, JSON, access mode, `Compile`. An upsert is keyed by the payload's
own id, a delete by `policy_id`. The properties read an entry by definitions of their own
(`Updates`, `Leaves`), so filing an update under the wrong id would show. `XReadNil`, `XReadError`, `Backoff`, `Cancel`, `Crash` and
`Restart` are the remaining branches and the process around them. Redis and its
`XADD`/`XREAD` are external and modelled from their use: an append-only sequence.

### Seeding

`seeder` is where the enforcement point is (`load`, `publish`, `backoff`,
`serving`) with its sorted list of files and the next one to publish; `tool` is
the same for a tool, which then probes. `Publish` of the code has three outcomes
here. It succeeds and the entry is appended; it fails (`SeedFails`, `ToolFails`);
or a reply is lost, so the command is in `inflight` and may `Land` at any later
time or never, whether the caller sees an error or the Redis client retries by itself
(`ClientRetries`). `SeedBackoff` goes back to the first file. Around this,
`SeederRestarts` (perhaps with an edited directory), `Wipe`, `ForeignUpdate`, and
`Crash` and `Restart` of the engine happen at any time. After a `Wipe` the ids of new
entries are larger than `lastID`, as Redis derives them from the clock, so a
running subscriber reads them all. `Cancel` is left out: `main` passes
`context.Background()`.

### Operators, Conditions and Engine

Strings are opaque values; what `strconv.Atoi`, `netip.ParseAddr`,
`netip.ParsePrefix` and `regexp.Compile` make of them is given by the constant
functions `Number`, `Address`, `Prefix` and `Pattern`, with `Malformed` for an
error. The width of `int` (`IntMin`, `IntMax`) and of addresses (`Width`) is a
constant. `Conditions` takes any of `Cases` (a condition and the values of a request),
compiles the condition as the subscriber does and records what `EvaluateCondition`
returns. In `Engine`, `ListActivePolicies` picks an arbitrary order for each
slice and `Evaluate` applies `CheckAccess`.

### EnforcementPoint

A `caller` is an HTTP request to the PEP, one that Envoy passes to the adapter, or
a gRPC request. `ServeHTTP`, `Check` and `DirectCall` build the request the engine
sees, by `actionForMethod`, `clientIP`, `lookupHeader`, `enrichRoles` and
`sourceIP`, and `mapAttributes` of the server. `Unauthenticated` is every error of
`extractClaims`. `Respond` is the status sent back, `Repeat` puts the same request to
the same store again. Case folding and splitting of addresses are constant functions
(`Fold`, `HostOf`), like the parsers of `Operators`.

### AuthzServer

Each call goes `Receive`, `Evaluate`, then `Fail` or `LogDecision`, `Count`,
`Observe`, in the order of handler and interceptor. The engine's answer is any of
allow, deny and error. `LogDecision` is the non-blocking send with its default
branch, and panics on a closed channel. Workers `Take`, `Write` and, once the
channel is closed and empty, `WorkerExit`. `GracefulStop`, `StopAudit` and
`StopReturns` are the orderly shutdown of the integration test's clean-up,
`ServeFails` the `os.Exit(1)` of `main.go`, after which nothing moves.

### EnforcementCall

For each request, `point` is the `CheckAccess` made for it and `front` what its
sender got; they differ for Envoy, which may give up on the adapter (`EnvoyFails`).
`Deliver` is `Receive` of `AuthzServer` for a request, perhaps after its caller has
given up; `CheckAccessReturns` takes the answer only while the caller
still waits, and `CheckAccessFails` (deadline, broken connection, sender gone) may
come first. The handler never looks at its context, so it goes on in both cases.
`AdapterStops` and `AdapterStopped` are the adapter's `GracefulStop`.

## 3. The runs

| Run | Shows |
| --- | --- |
| `store_writers` | two writers on different ids against one reader: no lost update (`OnlyCallersChange`), no id in both tables (`OneEntryPerId`), regular snapshots (`SnapshotRegular`), the gauge's error bounded by what moved (`CountBracketed`), refinement of `ActivePolicies` |
| `store_contended` | two writers on the same id, with recognised and unrecognised modes: fail-safe routing (`RoutedByMode`) and lock-free loops (`LockFree`). A single writer may starve, so no more is claimed; for a lone writer lock freedom says that every call returns |
| `store_snapshot_grant` | violation, see Findings |
| `stream` | the store is always the effect of the stream up to `lastID` (`AppliedInOrder`); whatever a request matches, it is decided as at a position of the stream, also between the two swaps of an update (`DecisionHasPosition`); only validated policies are active (`OnlyValidated`), the subscriber catches up (`Converges`) and stops between entries (`StopsCleanly`) |
| `operators_reference` | EQUALS is rearrangement, CONTAINS_ALL inclusion when the condition repeats nothing, IN_CIDR membership in blocks, BETWEEN a range |
| `contains_any_doc` | violation, see Findings |
| `decision` | deny overrides, default deny and a matching id (`DenyOverrides`); the verdict does not depend on slice order (`VerdictStable`); from the HTTP request to the status, the shipped policies grant nothing that their descriptions do not, and all that they do except writes to somebody who lists `admin` twice (`ShippedAsDescribed`); with the network policy of `examples/httpbin/README.md` added, reads are refused from inside the network, as the note there says (`CorpNetAsNoted`) |
| `source_ip` | violation, see Findings |
| `server` | one record in one place (`OneRecordPerDecision`), no send on a closed channel (`NoSendAfterClose`), complete log after `Stop` (`DrainedWhenStopped`), no more lost by an exit than channel and workers hold (`ExitLossBounded`), counters against records (`CountersMatchDecisions`), a graceful stop ends (`StopCompletes`) |
| `seeding` | the store is the effect of what was read since the last wipe (`AppliedSinceWipe`); once the point serves and the engine has caught up, no file was left out by an attempt that failed half-way (`ServedIsSeeded`); publishing again never disturbs a policy in force (`SeedNeverInterrupts`); in the end the enforcement point serves and its files are in force, unless somebody published later or the stream was wiped and the PEP not restarted, which is the recipe of `examples/httpbin/README.md` (`SeedTakesEffect`); tools end (`ToolEnds`) |
| `seed_verified` | violation, see Findings |
| `enforcement` | only what the engine allowed in the call for that request is forwarded, with one audit record and counted (`ForwardedIsAudited`); every request is answered, with or without a server (`EveryRequestAnswered`); the adapter's graceful stop ends (`AdapterStopCompletes`) |

### Bounds

* *Store*: two ids, because all interference between ids is pairwise (one map,
  two keys); one body where versions do not matter. `Ptr` has one address per
  table plus one per concurrent copy, so no swap is ever blocked for want of an address while addresses are
  still reused. `MaxWindow` lets three or four table states fall into one read, enough for an id to
  move away and back, or for two ids to move. The proofs remove these bounds.
* *Stream*: `MaxLen` 3 covers an update, its replacement or deletion, and a rejected
  entry, in any order; `MaxCrashes` 1 gives one replay, and a replay starts from a
  state that does not depend on how many came before. `MCEntries` has one entry for
  every way an entry is rejected, an absent and an unknown action among them.
* *Operators*: three values and slices up to three, so repetitions on both sides
  happen; 3-bit addresses with every prefix length 0 to 3 in two families;
  integers from one below `IntMin` to one above `IntMax`.
* *Decision*: up to two of six corner-case policies on each side, so that both sides can match and
  the order of a slice can matter, with direct requests; the shipped policies, with and
  without the README's network policy, with every list of up to two roles, and with some
  lists of three that repeat or exceed the roles a policy asks for; the adapter's whole
  claim map; addresses inside and outside the network, with and without a port, and an absent one. Every slice order. Header maps have the
  exact name, another case of it, or both; two other cases without the exact name
  would make the result depend on the order of a Go map, but Envoy sends lower case only.
* *Server*: two handlers, two workers and a buffer of one make a drop, a full buffer
  at close and both handlers between the same two steps happen; with four calls the
  channel and both workers can be full at once.
* *Seeding*: `MaxEvents` 2 lets any two of the disturbances meet (a lost reply and a
  restart, a wipe and the restart that repairs it, a failure and a foreign update, a
  run of the tool and one more), with one crash of the engine anywhere. `MaxLen` is
  never reached. Commands in flight are a set: two lost replies of the same entry
  count as one. The directories have two good files among files that are skipped, two
  files of one id on opposite sides, and a file the engine rejects.
* *Enforcement*: one PEP and one Envoy request on two handlers. Requests interact only
  through handlers and the audit channel, and two are enough to fill both.

`CHECK_DEADLOCK FALSE` is set where the system may really stop: a cancelled
subscriber, a stopped server with nobody left to call it, and operator runs that end after one
evaluation.

### Fairness

* Goroutines that can run do run (weak fairness per writer, handler, worker): the
  Go scheduler preempts and does not starve runnable goroutines. Nobody is
  obliged to call, to publish, to cancel, to crash or to stop.
* `WF(XRead)`: `Block` is five seconds, so a read always returns with an entry,
  nil or an error. `WF(Backoff)`: the timer is one second.
* `SF(ReadEntry)`: Redis does not fail every read for ever. Without it no catching
  up can be promised, and the code does not.
* `WF(Apply)`: store calls of the only writer return; that is
  `LockFree` for one writer.
* `WF(Restart)`: something restarts a dead process, as a container platform does;
  `main.go` relies on this by exiting.
* Publishing programs: weak fairness of loading, publishing, backing off and probing, and
  of the five-second deadline. `WF(Probe)` assumes that the probe, an RPC made with
  `context.Background()`, returns: the handler takes no lock and waits for nothing, and a
  broken connection ends the call. Failures are bounded, so Redis does not refuse every
  `XADD`. Commands in flight are owed nothing.
* Enforcement points: weak fairness of the deadlines and of replying. Nothing is assumed of
  delivery or of the server.

## 4. The proofs

Each theorem holds for all values of the constants that satisfy the named
assumptions of the modules; TLC evaluates those on every run.

| Module | Theorem | Says |
| --- | --- | --- |
| `PolicyStoreProofs` | `StoreTypeOK` | `[]TypeOK` |
| | `StoreRouted` | `[]RoutedByMode`, with conflicting writers too |
| | `StoreNoLostUpdate` | `OnlyCallersChange`, with conflicting writers too |
| | `StoreOneEntryPerId` | `[]OneEntryPerId`, if `Conflicts = FALSE` |
| | `StoreSnapshotRegular` | `[]SnapshotRegular`, if `Conflicts = FALSE` |
| | `StoreCountBracketed` | `[]CountBracketed`, if `Conflicts = FALSE` and `Ids` is finite |
| | `StoreImplementsActivePolicies` | the refinement of `ActivePolicies`, if `Conflicts = FALSE` |
| `PolicyStreamProofs` | `StreamTypeCorrect` | `[]TypeOK` |
| | `StreamAppliedInOrder` | `[]AppliedInOrder`: streams of any length, any number of crashes |
| | `StreamDecisionHasPosition` | `[]DecisionHasPosition`: every request, streams of any length |
| | `StreamOnlyValidated` | `[]OnlyValidated` |
| `SeedingProofs` | `SeedUninterrupted` | `SeedNeverInterrupts`: any directory, tool list and number of disturbances |
| | `SeedOnlyValidated` | `[]OnlyValidated` for the composition: also for files that are published without a look at them |
| | `SeedAppliedSinceWipe` | `[]AppliedSinceWipe`: any number of publishers' retries, crashes and wipes |
| | `SeedServed` | `[]ServedIsSeeded` |
| `ConditionsProofs` | `EqualsRearranges`, `ContainsAllIncludes`, `InCIDRBlocks`, `BetweenRange` | the four reference properties: slices of any length, addresses of any width, any range of int |
| | `OrderOfValuesIrrelevant` | no operator depends on the order in which a request lists its values |
| `EnforcementPointProofs` | `EngineDenyOverrides` | `[]DenyOverrides`: tables of any finite size, every slice order |
| | `EngineVerdictStable` | `VerdictStable` |
| `ShippedPoliciesProofs` | `PoliciesAsDescribed` | `[]ShippedAsDescribed`: any roles, claims, claim map, headers, paths, methods and addresses |
| | `CorpNetDenied` | `[]CorpNetAsNoted`, for the same |
| `AuthzServerProofs` | `ServerTypeCorrect`, `ServerNoSendAfterClose`, `ServerOneRecordPerDecision`, `ServerDrainedWhenStopped`, `ServerExitLossBounded`, `ServerCountersMatchDecisions` | the server's six invariants: any number of handlers, workers and calls, any buffer |
| `EnforcementCallProofs` | `CallsImplementServer` | `CallSpec => Spec`: with clients, deadlines and late deliveries the server is still `AuthzServer`, so the six carry over |
| | `CallForwardedIsAudited` | `[]ForwardedIsAudited` |

### What is assumed

Sentinels (`NoPolicy`, `Idle`, `None`, `Malformed` and so on) are no policies, calls, verdicts
or integers. Bounds are natural numbers, and `MaxWindow` and the audit buffer are not zero. Beyond that:

* Directories, tables and the sets of handlers and workers are finite, as they are in
  any process. There is a worker: `main` starts five. (With none, `StopReturns`
  would be possible with the channel still full, and `DrainedWhenStopped` false.)
* What the parsers return is well-formed (`OperatorConstants`): an address fits the width of its family
  and a prefix is no longer than that, which `net/netip` guarantees.
* `HeadersUnambiguous`: the adapter's header lookup has at most one result. Its
  comment says "Envoy lowercases all header keys". It is used by
  `EngineVerdictStable`, `PoliciesAsDescribed` and `CorpNetDenied`; without it the verdict may depend on the order of
  a Go map.
* `ShippedConstants`: the two patterns and the network in the policies parse, 0.0.0.0 is
  not in 10.0.0.0/8, and what callers send are slices of strings. Nothing is assumed of which paths a pattern matches.
* A policy file's `id` is the id of the policy it decodes to (`SeedingConstants`), as both are the
  same JSON member.

### PolicyStore

1. `StoreInv` = `TypeOK`, `CallPhase` (a writer is idle exactly when it has no
   call, and then holds no map) and `SeenFresh`: a map a writer has
   loaded and the table both sit at the same address only if they are the same
   map. `SeenFresh` is what makes comparing pointers as good as comparing
   contents; it holds because a new map avoids every held address. With it, a
   successful swap changes exactly one key (`SwapEffect`), hence no lost updates
   and routing.
2. `OneEntryPerId` is not inductive: while an upsert is between its loops, that the
   opposite table is clear must be remembered. `OwnerInv` adds `DistinctIds` (calls in
   progress have different ids), `OwnEntryFresh` (what a writer loaded for its own
   id is still what the table holds, since no one else writes it) and
   `FirstLoopDone` (in the second loop the first table has no entry).
3. For snapshots, `ReadInv` adds what is known half-way: an id missing from the loaded
   allow map either was absent at some moment since, or is in the deny table now, and
   each table state since then has one entry per id. Evicting before inserting is essential: with the
   order reversed a reader between its loads could see an entry vanish that was
   never gone.
4. The gauge follows from regularity and `LoadedDuring`, that each of the two maps was
   the contents of its table at some moment of the scrape: an id in neither map was
   absent once, an id in both was in each table once, and the rest is counting.
5. The refinement maps `active[id]` to the entry of the two tables (deny first)
   and `pending` to `call`. A swap of the first loop that removes something is
   `Withdraw`, the end of the second is `Return`, entering is `Invoke`, and all
   else stutters.

### PolicyStream and Seeding

`SubscriberInv(E)` is the subscriber's part of the state for a stream of entries from
any set `E`; its core is `PendingIsNext`: the subscriber is inside a store call exactly
while it applies an entry, and the call is the one the entry after `lastID` asks for.
`AppliedInOrder` is inductive relative to it. The lemma that carries the
proof is `ExplainedStable`: entries that do not touch an id, and entries appended
later, explain nothing new about it. It is used for one id at a time (`Settled`), so that the
composition with the publishing programs can use the same lemmas. `EntryMeans` joins the
two readings of an entry: `processMessageEntry` makes a call exactly for the id the entry is about
(`Updates`), and the call asks for what the entry leaves (`Leaves`).

`DecisionHasPosition` needs to know what was there before. While an upsert is being applied,
`HalfwayInv` says that its id holds what the entries up to `lastID` explain, or nothing, and then
only because the old policy was on the other side from the new one. In the second
case the decision with the id missing is that of the other policies. Where it differs from the position after the entry, the
new policy matches and decides there. If that is a DENY, the other policies grant, and the old ALLOW
did not change that: it is the position before. If that is an ALLOW, the other policies do not grant,
and nor did they with the old DENY: the position before again. Opposite sides
make this work, which is why a version that stays on its side must not be withdrawn. The
property is about one look at the store; that the two loads of a snapshot are not one look is
the first finding.

`SeedInv` is the same invariant for everything the programs publish, plus: commands in
flight are such entries, the enforcement point holds usable files and has one to publish while it
seeds, and so does the tool. Then a store call on the id of an
unrivalled file can only be that file's own upsert (`CallIsOwn`); if the
policy is in force it is on the right side already, so nothing is withdrawn and the return
writes what is there.

A wipe empties the stream but not the store, so `AppliedInOrder` is false here.
`AppliedSinceWipe` holds for the ids that the new stream names up to `lastID`, and a wipe makes that none. Reading an
entry makes an id named exactly when it settles it. `ServedIsSeeded` then needs only that the
files are in the stream: `SeedProgress` says that those before `next` are, in this attempt, and all of
them once it serves. An attempt that starts over claims nothing, which is why `SeedBackoff` must
go back to the first file; that the last entry for the file's id is the file's own, or a rival's, is `FileEntryCall`.

### Conditions

`evalEquals`: at a value's last place in the request the loop has counted all its
occurrences, so no value is in surplus (`NoSurplus`). The places of each value therefore
go one to one into its places in the condition, and these injections together are one of all places;
as the lengths agree, it is a bijection. `evalContainsAll`: a
slice without repetitions goes one to one into any slice that has its values, so
it is no longer. `Contains`: equal quotients by `2^shift` is membership in the block.
`OrderOfValuesIrrelevant` follows from the first of these for EQUALS, as rearranging is symmetric and
transitive, from equal lengths and equal sets of values for the CONTAINS operators and REGEX, and from
the refusal of more than one value for IN_CIDR and BETWEEN.

### EnforcementPoint

The slices of a snapshot list exactly the tables, so `firstMatch` finds a policy if and
only if one matches, at whatever place it is. `VerdictStable` relates a response to
the next one: the request, rebuilt from the same caller, is the same request.

### ShippedPolicies

The request the engine sees is computed from the caller (`RequestSeen`, `PathSeen`), each
shipped policy's conditions from the request (`MatchOne`, `MatchPathAndOne` and the lemmas on the operators they use),
and `DenyOverrides` gives the decision (`PepDecides`, `AdapterDecides`), in terms of the caller `Accepted`
(`PepAccepts`, `AdapterAccepts`). `Accepted` is what the conditions say and differs from the descriptions in one point: EQUALS compares lists
(`AdminSet`, `AcceptedMeans`). `NetworkSeen` is the address each enforcement point reports. `StatusInv` carries it to the status: a caller is asked for only when let in, and a
response is the refusal of one who was not, or what the engine answered. `TokenFound` and `LetInMeans` are the
claims and their errors, and `StatusMeans` puts all of it together.

### AuthzServer and EnforcementCall

`ServerInv` = `TypeOK`, `HandlersApart` (a busy handler has a call of its own),
`VerdictWhenDecided`, `CloseAfterHandlers` (the channel is closed only by a server without busy
handlers: this is `NoSendAfterClose`) and `WorkersLeaveNothing`. The counting
invariants are not inductive as cardinalities. `OnePlace` restates
`OneRecordPerDecision` without counting (no record twice in the channel, none with two
workers, the four places exclude each other), which is inductive with `ServerInv`, and the count follows.
`CallInv` adds that requests have different calls and that an enforcement point that
goes by "allow" has it from the call of its request, which has returned.

### Only model-checked

* Everything that must eventually happen: `LockFree`, `Converges`, `StopsCleanly`,
  `StopCompletes`, `SeedTakesEffect`, `ToolEnds`, `EveryRequestAnswered` and
  `AdapterStopCompletes`. Fairness and ENABLED are beyond the installed provers.

## 5. Findings

Places where the code and its documentation disagree; each is a run that fails.

* **A snapshot is not one instant, and may grant what no state granted**
  (`store_snapshot_grant`). The two loads of `ListActivePolicies` may straddle
  updates. With the allow entry of one policy removed and then the deny entry of
  another withdrawn between them, a request matched by both is granted, although
  `store.go` calls the snapshot a view "at the instant it was captured" that "fixes
  deny-overrides semantics across both tables". What does hold, per id, is
  `SnapshotRegular`.
* **CONTAINS_ANY with an empty condition** (`contains_any_doc`): holds, although
  nothing is shared.
* **An absent source address is an address** (`source_ip`). `sourceIP` of the Envoy
  adapter returns `0.0.0.0`, while its comment says that it falls back to `""` and
  that IN_CIDR then does not match. A network that contains `0.0.0.0` does match.
* **A verified seed may be incomplete** (`seed_verified`). `loadtest/seed` "verifies the
  resulting policy set with a probe request", but the probe is allowed as soon as
  the first policy is in force. The deny policy published after it may still be unread
  when the tool reports success.

Five smaller ones have no run of their own. `README.md` says that CONTAINS_ALL matches when
the request includes every condition value, but the length shortcut refuses a request
shorter than a condition that repeats a value: `ContainsAllIsInclusion` is what holds.
`testdata/TESTING.md` calls EQUALS "set
equality", but it counts repetitions: `EqualsIsRearrangement` is what holds. The same
file says that `MatchedPolicyID` is empty if denied, but an explicit deny reports the
deny policy: `DenyOverrides` is what holds. The two `pol-allow-admin-write.json` grant WRITE to
"principals whose role set is exactly ['admin']" (`examples/envoy-jwt/README.md:261`: "set equality"), but
EQUALS refuses `[admin, admin]`, whose role set that is: `ShippedAsDescribed` says so with
`AdminRepeated`, and is violated without that exception. The policy suggested in `examples/httpbin/README.md:193-203`
has the description "Deny READ from outside the 10.0.0.0/8 corporate network", but its condition denies from
inside, as the note below it (lines 206-207) admits: `CorpNetAsNoted` follows the note.

The "standard endpoints" and "/anything/finance/" of the descriptions are taken to be the paths the
policies' patterns accept; the path Envoy reports includes the query string, so `/post?a=b` is not a standard endpoint.

## 6. Not modelled

* Two calls on the same id at once leave it in both tables; documented in `store.go` as
  unsupported and excluded by `Conflicts = FALSE` where a property needs it.
* The generated stubs in `pkg/gen`, Prometheus registration, listener, HTTP and logger
  set-up, reading environment variables and dialling (which is lazy and fails only on a
  bad address): start-up and I/O without state of its own.
* Evaluation time, log and response wording, principal and resource ids (they reach the
  audit record only), and the headers the adapter adds for the upstream.
* Trimming of the Redis stream, which the code neither does nor handles, and a Redis
  clock that goes backwards after a wipe.
* Envoy beyond what the adapter relies on: one Check per request, a deadline, and
  `failure_mode_allow: false`. Verification of tokens is Envoy's.
* An engine that accepts the probe of `loadtest/seed` or `cmd/mock-publisher` and never answers: the call has no
  deadline, so the tool would wait for ever, past the deadline it checks between probes.
* A probe reads the abstract store in one step in `Seeding`; what the two loads of a
  snapshot add is the subject of `PolicyStore`.

## 7. Plan

Done: every component of section 1 is modelled, and every safety property of a passing
run is proved for every value of the constants. Left:

1. Composition of the subscriber with the concrete store instead of `ActivePolicies`, by the
   refinement that is proved.
2. Composition of a store under replay with the engine: what a request decided from a
   non-atomic snapshot can observe.

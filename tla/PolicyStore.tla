------------------------------ MODULE PolicyStore ------------------------------
(***************************************************************************)
(* The in-memory policy cache of internal/store/store.go: an allow table   *)
(* and a deny table, each behind an atomic pointer to an immutable map.    *)
(* Writers replace a table with a load / copy / compare-and-swap loop,     *)
(* readers load the two pointers one after the other and never block.      *)
(*                                                                         *)
(* A pointer is an address of the garbage-collected heap: a new map may be *)
(* placed at any address no goroutine still holds.  Absence of a key in a  *)
(* Go map is the value NoPolicy.                                           *)
(***************************************************************************)
EXTENDS Naturals, FiniteSets

CONSTANTS
  Ids,        \* policy identifiers
  Modes,      \* access modes that reach UpsertPolicy
  Bodies,     \* versions of the rest of a policy (target and conditions)
  Writers,    \* goroutines calling UpsertPolicy and DeletePolicy
  Readers,    \* goroutines calling ListActivePolicies or Count
  Ptr,        \* addresses a map can be placed at
  NoPolicy,   \* the key is not in the map
  Idle,       \* the goroutine is in no call
  Unloaded,   \* the loop of the current phase has not loaded the pointer
  Conflicts,  \* may two writers work on the same id at the same time?
  MaxWindow   \* bound: table states one read may overlap

AccessAllow == "ALLOW"
AccessDeny  == "DENY"

Policy == [id : Ids, access : Modes, body : Bodies]

ASSUME StoreConstants ==
  /\ NoPolicy \notin Policy
  /\ Conflicts \in BOOLEAN
  /\ MaxWindow \in Nat \ {0}

PolicyMap == [Ids -> Policy \cup {NoPolicy}]

\* What an atomic.Pointer[PolicyMap] refers to: an address and its contents.
Cell == [ptr : Ptr, map : PolicyMap]

TableNames == {"allow", "deny"}

Upserts == [op : {"upsert"}, id : Ids, policy : Policy]
Deletes == [op : {"delete"}, id : Ids]
Calls   == {c \in Upserts : c.policy.id = c.id} \cup Deletes

Phases == {"idle", "first", "second"}

ASSUME Sentinels ==
  /\ Idle \notin Calls
  /\ Unloaded \notin Cell

VARIABLES
  table,   \* the two atomic pointers
  call,    \* per writer: the call in progress
  phase,   \* per writer: which of the call's two loops it is in
  seen,    \* per writer: currentMapPtr / currentMap of that loop
  reading, \* per reader: which loads it has done
  snap,    \* per reader: the maps loaded
  during   \* history: table states since the reader's first load

vars == <<table, call, phase, seen, reading, snap, during>>

writerVars == <<call, phase, seen>>
readerVars == <<reading, snap>>

emptyMap == [id \in Ids |-> NoPolicy]

\* The contents of both tables at one instant.
Tables == [t \in TableNames |-> table[t].map]

\* Mutant: only one of the two pointers is stored, the other stays nil.
NewPolicyStoreNilDeny ==
  \E p \in Ptr :
    table = [t \in TableNames |->
               IF t = "allow" THEN [ptr |-> p, map |-> emptyMap] ELSE Unloaded]

\* NewPolicyStore: two fresh empty maps.
NewPolicyStore ==
  \E p, q \in Ptr :
    /\ p # q
    /\ table = [t \in TableNames |->
                  [ptr |-> IF t = "allow" THEN p ELSE q, map |-> emptyMap]]

Init ==
  /\ NewPolicyStore
  /\ call    = [w \in Writers |-> Idle]
  /\ phase   = [w \in Writers |-> "idle"]
  /\ seen    = [w \in Writers |-> Unloaded]
  /\ reading = [r \in Readers |-> "idle"]
  /\ snap    = [r \in Readers |-> [t \in TableNames |-> emptyMap]]
  /\ during  = [r \in Readers |-> {}]

--------------------------------------------------------------------------------
(* Writers *)

\* Mutant: test for AccessDeny, everything else is an allow policy.
TargetTableDenyOnly(p) == IF p.access = AccessDeny THEN "deny" ELSE "allow"

\* Only AccessAllow lands in the allow table, every other mode in the deny table.
TargetTable(p) == IF p.access = AccessAllow THEN "allow" ELSE "deny"

Opposite(t) == IF t = "allow" THEN "deny" ELSE "allow"

\* The loops of DeletePolicy: remove from allow, then from deny.
Removal(ph) == [on |-> IF ph = "first" THEN "allow" ELSE "deny", inserts |-> FALSE]

\* Mutant: the eviction works on the target table instead of the opposite one.
LoopNoEviction(c, ph) ==
  IF c.op = "upsert"
  THEN [on |-> TargetTable(c.policy), inserts |-> ph # "first"]
  ELSE Removal(ph)

\* Mutant: insert into the target table first, evict afterwards.
LoopInsertFirst(c, ph) ==
  IF c.op = "upsert"
  THEN [on      |-> IF ph = "first" THEN TargetTable(c.policy) ELSE Opposite(TargetTable(c.policy)),
        inserts |-> ph = "first"]
  ELSE Removal(ph)

\* The two loops of a call.  UpsertPolicy evicts from the opposite table, then
\* inserts into the target table.
Loop(c, ph) ==
  IF c.op = "upsert"
  THEN [on      |-> IF ph = "first" THEN Opposite(TargetTable(c.policy)) ELSE TargetTable(c.policy),
        inserts |-> ph # "first"]
  ELSE Removal(ph)

Table(w)     == Loop(call[w], phase[w]).on
Inserting(w) == Loop(call[w], phase[w]).inserts

\* What upsertInto stores under the key, and removeFrom leaves there.
Effect(w) == IF Inserting(w) THEN call[w].policy ELSE NoPolicy

\* The map the loop publishes, built from the one it loaded.
NewMap(w) == [seen[w].map EXCEPT ![call[w].id] = Effect(w)]

MayCall(w, id) ==
  /\ phase[w] = "idle"
  /\ Conflicts \/ \A v \in Writers : phase[v] # "idle" => call[v].id # id
  /\ \A r \in Readers : Cardinality(during[r]) < MaxWindow

Enter(w, c) ==
  /\ call'  = [call EXCEPT ![w] = c]
  /\ phase' = [phase EXCEPT ![w] = "first"]
  /\ UNCHANGED <<table, seen, readerVars, during>>

UpsertPolicy(w, p) ==
  /\ MayCall(w, p.id)
  /\ Enter(w, [op |-> "upsert", id |-> p.id, policy |-> p])

DeletePolicy(w, id) ==
  /\ MayCall(w, id)
  /\ Enter(w, [op |-> "delete", id |-> id])

\* target.Load(): the pointer and, the map being immutable, its contents.
Load(w) ==
  /\ phase[w] # "idle"
  /\ seen[w] = Unloaded
  /\ seen' = [seen EXCEPT ![w] = table[Table(w)]]
  /\ UNCHANGED <<table, call, phase, readerVars, during>>

\* The loop of the current phase is left: on to the second one, or return.
LeaveLoop(w) ==
  /\ seen' = [seen EXCEPT ![w] = Unloaded]
  /\ IF phase[w] = "first"
     THEN /\ phase' = [phase EXCEPT ![w] = "second"]
          /\ UNCHANGED call
     ELSE /\ phase' = [phase EXCEPT ![w] = "idle"]
          /\ call'  = [call EXCEPT ![w] = Idle]

\* removeFrom returns early when the map it loaded has no such key.
NothingToRemove(w) ==
  /\ seen[w] # Unloaded
  /\ ~Inserting(w)
  /\ seen[w].map[call[w].id] = NoPolicy
  /\ LeaveLoop(w)
  /\ UNCHANGED <<table, readerVars, during>>

\* Addresses the collector cannot reuse for a new map.
Held == {table[t].ptr : t \in TableNames}
        \cup {seen[w].ptr : w \in {v \in Writers : seen[v] # Unloaded}}

\* Every read in progress overlaps the state a step leads to.
Witness ==
  during' = [r \in Readers |->
               IF reading[r] = "allowLoaded" THEN during[r] \cup {Tables'} ELSE during[r]]

\* Does the current loop go on to CompareAndSwap?
Swapping(w) ==
  /\ seen[w] # Unloaded
  /\ Inserting(w) \/ seen[w].map[call[w].id] # NoPolicy

\* Mutant: Store instead of CompareAndSwap.
CompareAndSwapBlind(w) ==
  /\ Swapping(w)
  /\ \E p \in Ptr \ Held :
       table' = [table EXCEPT ![Table(w)] = [ptr |-> p, map |-> NewMap(w)]]
  /\ LeaveLoop(w)
  /\ Witness
  /\ UNCHANGED readerVars

CompareAndSwap(w) ==
  /\ Swapping(w)
  /\ table[Table(w)].ptr = seen[w].ptr
  /\ \E p \in Ptr \ Held :
       table' = [table EXCEPT ![Table(w)] =
                   [ptr |-> p, map |-> NewMap(w)]]
  /\ LeaveLoop(w)
  /\ Witness
  /\ UNCHANGED readerVars

\* Mutant: target.Load() is hoisted out of the loop.
SwapFailsNoReload(w) ==
  /\ Swapping(w)
  /\ table[Table(w)].ptr # seen[w].ptr
  /\ UNCHANGED vars

\* Another writer replaced the table in between: go round the loop again.
SwapFails(w) ==
  /\ Swapping(w)
  /\ table[Table(w)].ptr # seen[w].ptr
  /\ seen' = [seen EXCEPT ![w] = Unloaded]
  /\ UNCHANGED <<table, call, phase, readerVars, during>>

WriterStep(w) ==
  Load(w) \/ NothingToRemove(w) \/ CompareAndSwap(w) \/ SwapFails(w)

--------------------------------------------------------------------------------
(* Readers: ListActivePolicies and Count load allow first, then deny. *)

LoadAllow(r) ==
  /\ reading[r] = "idle"
  /\ reading' = [reading EXCEPT ![r] = "allowLoaded"]
  /\ snap'    = [snap EXCEPT ![r]["allow"] = table["allow"].map]
  /\ during'  = [during EXCEPT ![r] = {Tables}]
  /\ UNCHANGED <<table, writerVars>>

\* Mutant: the second load reads the allow pointer again.
LoadDenyTwice(r) ==
  /\ reading[r] = "allowLoaded"
  /\ reading' = [reading EXCEPT ![r] = "done"]
  /\ snap'    = [snap EXCEPT ![r]["deny"] = table["allow"].map]
  /\ UNCHANGED <<table, writerVars, during>>

LoadDeny(r) ==
  /\ reading[r] = "allowLoaded"
  /\ reading' = [reading EXCEPT ![r] = "done"]
  /\ snap'    = [snap EXCEPT ![r]["deny"] = table["deny"].map]
  /\ UNCHANGED <<table, writerVars, during>>

Return(r) ==
  /\ reading[r] = "done"
  /\ reading' = [reading EXCEPT ![r] = "idle"]
  /\ snap'    = [snap EXCEPT ![r] = [t \in TableNames |-> emptyMap]]
  /\ during'  = [during EXCEPT ![r] = {}]
  /\ UNCHANGED <<table, writerVars>>

ReaderStep(r) == LoadAllow(r) \/ LoadDeny(r) \/ Return(r)

Keys(m) == {id \in Ids : m[id] # NoPolicy}

\* Count over the two maps one call has loaded.
Count(s) == Cardinality(Keys(s["allow"])) + Cardinality(Keys(s["deny"]))

--------------------------------------------------------------------------------
Next ==
  \/ \E w \in Writers :
       \/ \E p \in Policy : UpsertPolicy(w, p)
       \/ \E id \in Ids : DeletePolicy(w, id)
       \/ WriterStep(w)
  \/ \E r \in Readers : ReaderStep(r)

Spec == Init /\ [][Next]_vars

\* The Go scheduler runs every goroutine that can run; nobody has to call.
Fairness == \A w \in Writers : WF_vars(WriterStep(w))

FairSpec == Spec /\ Fairness

--------------------------------------------------------------------------------
(* Properties *)

\* The entry a table state holds for an id; the deny table is evaluated first.
View(s, id) == IF s["deny"][id] # NoPolicy THEN s["deny"][id] ELSE s["allow"][id]

\* Every variable holds a value of its kind.
TypeOK ==
  /\ table   \in [TableNames -> Cell]
  /\ call    \in [Writers -> Calls \cup {Idle}]
  /\ phase   \in [Writers -> Phases]
  /\ seen    \in [Writers -> Cell \cup {Unloaded}]
  /\ reading \in [Readers -> {"idle", "allowLoaded", "done"}]
  /\ snap    \in [Readers -> [TableNames -> PolicyMap]]
  /\ during  \in [Readers -> SUBSET [TableNames -> PolicyMap]]

\* One ID -> one entry: while no two calls work on the same id at once, no
\* interleaving of the two independent loops of UpsertPolicy and DeletePolicy
\* with those of other ids leaves an id in both tables, not even for a moment.
OneEntryPerId ==
  \A id \in Ids :
    table["allow"].map[id] = NoPolicy \/ table["deny"].map[id] = NoPolicy

\* The allow table holds the ALLOW policies and nothing else, the deny table all
\* the others, each under its own id: however calls interleave, an unrecognised
\* access mode can never grant access (UpsertPolicy's routing).
RoutedByMode ==
  \A t \in TableNames : \A id \in Keys(table[t].map) :
    /\ table[t].map[id].id = id
    /\ table[t].map[id].access = AccessAllow <=> t = "allow"

\* No lost update: an entry only changes through a call on its own id, and to
\* what that call writes.  A writer whose copy was overtaken by another writer's
\* swap never puts the old contents back (the CompareAndSwap loops).
OnlyCallersChange ==
  [][\A t \in TableNames, id \in Ids :
       table'[t].map[id] # table[t].map[id] =>
         \E w \in Writers :
           /\ phase[w] # "idle"
           /\ call[w].id = id
           /\ Table(w) = t
           /\ table'[t].map[id] = Effect(w)]_table

\* ListActivePolicies is regular per id although its two loads are not atomic:
\* what a snapshot shows for an id was in force for that id at some moment
\* between the two loads.
SnapshotRegular ==
  \A r \in Readers : reading[r] = "done" =>
    \A id \in Ids : \E s \in during[r] : View(s, id) = View(snap[r], id)

\* The policy in force for each id, and the calls that may still change it.
Abstract == INSTANCE ActivePolicies WITH
              active  <- [id \in Ids |-> View(Tables, id)],
              pending <- call

\* The two tables, their pointers and their loops implement one map: every step
\* of the store is a step of ActivePolicies or none.  In particular an entry is
\* absent during an upsert only when it changes sides, and a call has returned
\* only once its effect is in place.
ImplementsActivePolicies == Abstract!Spec

Active(s) == {id \in Ids : View(s, id) # NoPolicy}

\* The gauge's error is bounded by what moved under the scrape: Count misses no
\* id that stayed active throughout and counts twice only an id that changed
\* tables between the two loads.  With no concurrent update it is exact.
CountBracketed ==
  \A r \in Readers : reading[r] = "done" =>
    LET Stable == {id \in Ids : \A s \in during[r] : id \in Active(s)}
        Ever   == {id \in Ids : \E s \in during[r] : id \in Active(s)}
        Moved  == {id \in Ids : /\ \E s \in during[r] : s["allow"][id] # NoPolicy
                                /\ \E s \in during[r] : s["deny"][id] # NoPolicy}
    IN  /\ Cardinality(Stable) <= Count(snap[r])
        /\ Count(snap[r]) <= Cardinality(Ever) + Cardinality(Moved)

\* Lock freedom of the swap loops: while calls are in progress some call keeps
\* returning, although any single writer may lose every swap.  A lone writer's
\* call therefore always returns.
LockFree ==
  \/ <>[](\A w \in Writers : phase[w] = "idle")
  \/ []<><<\E w \in Writers : phase[w] = "second" /\ phase'[w] = "idle">>_vars

\* A request matched by exactly the policies with an id in M: deny overrides.
Granted(s, M) ==
  /\ \A id \in M : s["deny"][id] = NoPolicy
  /\ \E id \in M : s["allow"][id] # NoPolicy

\* store.go: a snapshot is "an immutable view ... at the instant it was captured"
\* and "fixes deny-overrides semantics across both tables": what a snapshot
\* grants, the store granted at some moment of the read.
GrantHasInstant ==
  \A r \in Readers : reading[r] = "done" =>
    \A M \in SUBSET Ids :
      Granted(snap[r], M) => \E s \in during[r] : Granted(s, M)
================================================================================

--------------------------- MODULE PolicyStoreProofs ---------------------------
(***************************************************************************)
(* Proofs about PolicyStore for every set of ids, writers, readers,        *)
(* addresses, modes and bodies.                                            *)
(***************************************************************************)
EXTENDS PolicyStore, FiniteSetTheorems, TLAPS

\* A goroutine is in a call exactly while it is in one of its loops.
CallPhase ==
  \A w \in Writers :
    /\ phase[w] = "idle" <=> call[w] = Idle
    /\ phase[w] = "idle" => seen[w] = Unloaded

\* No ABA: a writer that still finds the address it loaded finds the map it
\* loaded, because an address somebody holds is not reused.
SeenFresh ==
  \A w \in Writers :
    seen[w] # Unloaded /\ seen[w].ptr = table[Table(w)].ptr
      => seen[w].map = table[Table(w)].map

StoreInv == TypeOK /\ CallPhase /\ SeenFresh

\* A loop works on a table, and inserts only what belongs there.
LEMMA LoopKinds ==
  ASSUME NEW c \in Calls, NEW ph \in Phases
  PROVE  /\ Loop(c, ph).on \in TableNames
         /\ Loop(c, ph).inserts \in BOOLEAN
         /\ Loop(c, ph).inserts =>
              /\ c.policy \in Policy
              /\ c.policy.id = c.id
              /\ c.policy.access = AccessAllow <=> Loop(c, ph).on = "allow"
         /\ c.id \in Ids
BY DEF Calls, Upserts, Deletes, Loop, Removal, TargetTable, Opposite, TableNames, Phases

\* What TypeOK and CallPhase say about a writer inside a call.
LEMMA InCall ==
  ASSUME TypeOK, CallPhase, NEW w \in Writers, phase[w] # "idle"
  PROVE  /\ call[w] \in Calls
         /\ phase[w] \in {"first", "second"}
         /\ Table(w) \in TableNames
         /\ Inserting(w) \in BOOLEAN
         /\ call[w].id \in Ids
         /\ Inserting(w) => /\ call[w].policy \in Policy
                            /\ call[w].policy.id = call[w].id
                            /\ call[w].policy.access = AccessAllow <=> Table(w) = "allow"
         /\ Effect(w) \in Policy \cup {NoPolicy}
<1>1. call[w] \in Calls /\ phase[w] \in Phases
  BY DEF TypeOK, CallPhase
<1> QED
  BY <1>1, LoopKinds DEF Table, Inserting, Effect, Phases

\* A map with one entry replaced is a map.
LEMMA MapUpdate ==
  ASSUME NEW m \in PolicyMap, NEW i \in Ids, NEW v \in Policy \cup {NoPolicy}
  PROVE  /\ [m EXCEPT ![i] = v] \in PolicyMap
         /\ [m EXCEPT ![i] = v][i] = v
         /\ \A j \in Ids \ {i} : [m EXCEPT ![i] = v][j] = m[j]
BY DEF PolicyMap

\* What a successful swap does to the tables: one entry of one table changes.
LEMMA SwapEffect ==
  ASSUME StoreInv, NEW w \in Writers, CompareAndSwap(w)
  PROVE  /\ phase[w] # "idle"
         /\ seen[w] # Unloaded
         /\ table' \in [TableNames -> Cell]
         /\ table'[Table(w)].map[call[w].id] = Effect(w)
         /\ \A j \in Ids \ {call[w].id} : table'[Table(w)].map[j] = table[Table(w)].map[j]
         /\ table'[Table(w)].ptr \notin Held
         /\ \A t \in TableNames \ {Table(w)} : table'[t] = table[t]
<1>1. phase[w] # "idle" /\ seen[w] # Unloaded
  BY DEF CompareAndSwap, Swapping, StoreInv, CallPhase
<1>2. seen[w] \in Cell /\ table \in [TableNames -> Cell]
  BY <1>1 DEF StoreInv, TypeOK
<1>3. /\ Table(w) \in TableNames
      /\ call[w].id \in Ids
      /\ Effect(w) \in Policy \cup {NoPolicy}
  BY <1>1, InCall DEF StoreInv
<1>4. seen[w].map = table[Table(w)].map
  BY <1>1 DEF StoreInv, SeenFresh, CompareAndSwap
<1>5. PICK p \in Ptr \ Held :
        table' = [table EXCEPT ![Table(w)] = [ptr |-> p, map |-> NewMap(w)]]
  BY DEF CompareAndSwap
<1>6. /\ NewMap(w) \in PolicyMap
      /\ NewMap(w)[call[w].id] = Effect(w)
      /\ \A j \in Ids \ {call[w].id} : NewMap(w)[j] = table[Table(w)].map[j]
  BY <1>2, <1>3, <1>4, MapUpdate DEF NewMap, Cell
<1>7. [ptr |-> p, map |-> NewMap(w)] \in Cell
  BY <1>5, <1>6 DEF Cell
<1> QED
  BY <1>1, <1>2, <1>3, <1>5, <1>6, <1>7

LEMMA InitStoreInv == Init => StoreInv
<1> SUFFICES ASSUME Init PROVE StoreInv
  OBVIOUS
<1>1. emptyMap \in PolicyMap
  BY DEF emptyMap, PolicyMap
<1>2. table \in [TableNames -> Cell]
  BY <1>1 DEF Init, NewPolicyStore, Cell
<1>3. TypeOK
  BY <1>1, <1>2 DEF Init, TypeOK, Phases
<1> QED
  BY <1>3 DEF Init, StoreInv, CallPhase, SeenFresh

\* Entering a call.
LEMMA EnterStoreInv ==
  ASSUME StoreInv, NEW w \in Writers, NEW c \in Calls, phase[w] = "idle", Enter(w, c)
  PROVE  StoreInv'
<1>1. TypeOK'
  BY DEF Enter, StoreInv, TypeOK, readerVars, Phases
<1>2. CallPhase'
  BY Sentinels DEF Enter, StoreInv, TypeOK, CallPhase
<1>3. SeenFresh'
  <2> SUFFICES ASSUME NEW v \in Writers, seen'[v] # Unloaded,
                      seen'[v].ptr = table'[Table(v)'].ptr
               PROVE  seen'[v].map = table'[Table(v)'].map
    BY DEF SeenFresh
  <2>1. v # w
    BY DEF Enter, StoreInv, CallPhase
  <2>2. Table(v)' = Table(v)
    BY <2>1 DEF Enter, Table, StoreInv, TypeOK
  <2> QED
    BY <2>2 DEF Enter, StoreInv, SeenFresh
<1> QED
  BY <1>1, <1>2, <1>3 DEF StoreInv

\* The calls UpsertPolicy and DeletePolicy make are calls.
LEMMA CallKinds ==
  /\ \A p \in Policy : [op |-> "upsert", id |-> p.id, policy |-> p] \in Calls
  /\ \A id \in Ids : [op |-> "delete", id |-> id] \in Calls
BY DEF Calls, Upserts, Deletes, Policy

\* Steps inside the loops that leave the tables alone, and those that replace one.
LEMMA WriterStoreInv ==
  ASSUME StoreInv, NEW w \in Writers, WriterStep(w)
  PROVE  StoreInv'
<1>1. phase[w] # "idle"
  BY DEF WriterStep, Load, NothingToRemove, CompareAndSwap, Swapping, SwapFails,
         StoreInv, CallPhase
<1>2. call[w] \in Calls /\ phase[w] \in {"first", "second"} /\ Table(w) \in TableNames
  BY <1>1, InCall DEF StoreInv
<1>3. \A v \in Writers \ {w} :
        call'[v] = call[v] /\ phase'[v] = phase[v] /\ seen'[v] = seen[v] /\ Table(v)' = Table(v)
  BY DEF WriterStep, Load, NothingToRemove, CompareAndSwap, SwapFails, LeaveLoop,
         StoreInv, TypeOK, Table
<1>4. CASE Load(w)
  <2>1. TypeOK'
    BY <1>2, <1>4 DEF Load, StoreInv, TypeOK, readerVars
  <2>2. CallPhase'
    BY <1>1, <1>4 DEF Load, StoreInv, TypeOK, CallPhase
  <2>3. SeenFresh'
    BY <1>2, <1>4 DEF Load, StoreInv, TypeOK, SeenFresh, Table
  <2> QED
    BY <2>1, <2>2, <2>3 DEF StoreInv
<1>5. ASSUME LeaveLoop(w)
      PROVE  /\ call'  \in [Writers -> Calls \cup {Idle}]
             /\ phase' \in [Writers -> Phases]
             /\ seen'  \in [Writers -> Cell \cup {Unloaded}]
             /\ seen'[w] = Unloaded
             /\ CallPhase'
  <2>1. /\ call'  \in [Writers -> Calls \cup {Idle}]
        /\ phase' \in [Writers -> Phases]
        /\ seen'  \in [Writers -> Cell \cup {Unloaded}]
        /\ seen'[w] = Unloaded
    BY <1>2, <1>5 DEF LeaveLoop, StoreInv, TypeOK, Phases
  <2>2. phase'[w] = "idle" <=> call'[w] = Idle
    BY <1>2, <1>5, Sentinels DEF LeaveLoop, StoreInv, TypeOK
  <2>3. CallPhase'
    BY <1>3, <2>1, <2>2 DEF StoreInv, CallPhase
  <2> QED
    BY <2>1, <2>3
<1>6. CASE NothingToRemove(w)
  <2>1. TypeOK'
    BY <1>5, <1>6 DEF NothingToRemove, StoreInv, TypeOK, readerVars
  <2>2. SeenFresh'
    BY <1>3, <1>5, <1>6 DEF NothingToRemove, StoreInv, SeenFresh
  <2> QED
    BY <1>5, <1>6, <2>1, <2>2 DEF NothingToRemove, StoreInv
<1>7. CASE CompareAndSwap(w)
  <2>1. table' \in [TableNames -> Cell]
    BY <1>7, SwapEffect
  <2>2. Tables' \in [TableNames -> PolicyMap]
    BY <2>1 DEF Tables, Cell
  <2>3. during' \in [Readers -> SUBSET [TableNames -> PolicyMap]]
    BY <1>7, <2>2 DEF CompareAndSwap, Witness, StoreInv, TypeOK
  <2>4. TypeOK'
    BY <1>5, <1>7, <2>1, <2>3 DEF CompareAndSwap, StoreInv, TypeOK, readerVars
  <2>5. ASSUME NEW v \in Writers, seen'[v] # Unloaded,
               seen'[v].ptr = table'[Table(v)'].ptr
        PROVE  seen'[v].map = table'[Table(v)'].map
    <3>1. v # w
      BY <1>5, <1>7, <2>5 DEF CompareAndSwap
    <3>2. seen[v] # Unloaded /\ seen[v].ptr \in Held /\ Table(v)' = Table(v)
      BY <1>3, <2>5, <3>1 DEF Held
    <3>3. Table(v) \in TableNames
      BY <3>2, InCall DEF StoreInv, CallPhase
    <3>4. Table(v) # Table(w)
      BY <1>3, <1>7, <2>5, <3>1, <3>2, SwapEffect
    <3>5. table'[Table(v)] = table[Table(v)]
      BY <1>7, <3>3, <3>4, SwapEffect
    <3> QED
      BY <1>3, <2>5, <3>1, <3>2, <3>5 DEF StoreInv, SeenFresh
  <2> QED
    BY <1>5, <1>7, <2>4, <2>5 DEF CompareAndSwap, StoreInv, SeenFresh
<1>8. CASE SwapFails(w)
  <2>1. TypeOK'
    BY <1>8 DEF SwapFails, StoreInv, TypeOK, readerVars
  <2>2. CallPhase' /\ SeenFresh'
    BY <1>1, <1>8 DEF SwapFails, StoreInv, TypeOK, CallPhase, SeenFresh, Table
  <2> QED
    BY <2>1, <2>2 DEF StoreInv
<1> QED
  BY <1>4, <1>6, <1>7, <1>8 DEF WriterStep

LEMMA ReaderStoreInv ==
  ASSUME StoreInv, NEW r \in Readers, ReaderStep(r)
  PROVE  StoreInv'
<1>1. /\ UNCHANGED <<table, call, phase, seen>>
      /\ Tables \in [TableNames -> PolicyMap]
      /\ emptyMap \in PolicyMap
      /\ TableNames = {"allow", "deny"}
  BY DEF ReaderStep, LoadAllow, LoadDeny, Return, writerVars, Tables, StoreInv, TypeOK,
         Cell, emptyMap, PolicyMap, TableNames
<1>2. table["allow"].map \in PolicyMap /\ table["deny"].map \in PolicyMap
  BY <1>1 DEF Tables
<1>3. /\ reading' \in [Readers -> {"idle", "allowLoaded", "done"}]
      /\ during' \in [Readers -> SUBSET [TableNames -> PolicyMap]]
  <2>1. {Tables} \in SUBSET [TableNames -> PolicyMap]
    BY <1>1
  <2>2. CASE LoadAllow(r)
    BY <2>1, <2>2 DEF LoadAllow, StoreInv, TypeOK
  <2>3. CASE LoadDeny(r)
    BY <2>3 DEF LoadDeny, StoreInv, TypeOK
  <2>4. CASE Return(r)
    BY <2>4 DEF Return, StoreInv, TypeOK
  <2> QED
    BY <2>2, <2>3, <2>4 DEF ReaderStep
<1>4. snap' \in [Readers -> [TableNames -> PolicyMap]]
  BY <1>1, <1>2 DEF ReaderStep, LoadAllow, LoadDeny, Return, StoreInv, TypeOK
<1>5. TypeOK'
  BY <1>1, <1>3, <1>4 DEF StoreInv, TypeOK
<1> QED
  BY <1>1, <1>5 DEF StoreInv, CallPhase, SeenFresh, Table

LEMMA NextStoreInv == StoreInv /\ [Next]_vars => StoreInv'
<1> SUFFICES ASSUME StoreInv, [Next]_vars PROVE StoreInv'
  OBVIOUS
<1>1. ASSUME NEW w \in Writers, NEW p \in Policy, UpsertPolicy(w, p)
      PROVE  StoreInv'
  BY <1>1, CallKinds, EnterStoreInv DEF UpsertPolicy, MayCall
<1>2. ASSUME NEW w \in Writers, NEW id \in Ids, DeletePolicy(w, id)
      PROVE  StoreInv'
  BY <1>2, CallKinds, EnterStoreInv DEF DeletePolicy, MayCall
<1>3. CASE UNCHANGED vars
  BY <1>3 DEF vars, StoreInv, TypeOK, CallPhase, SeenFresh, Table
<1> QED
  BY <1>1, <1>2, <1>3, WriterStoreInv, ReaderStoreInv DEF Next

\* Type correctness of the store, for every instance.
THEOREM StoreTypeOK == Spec => []TypeOK
<1>1. StoreInv => TypeOK
  BY DEF StoreInv
<1> QED
  BY <1>1, InitStoreInv, NextStoreInv, PTL DEF Spec

--------------------------------------------------------------------------------
(* Routing and lost updates: whatever the writers do. *)

\* A step changes a table only by a successful swap.
LEMMA OnlySwapsChangeTables ==
  ASSUME [Next]_vars, UNCHANGED table => FALSE
  PROVE  \E w \in Writers : CompareAndSwap(w)
BY DEF Next, UpsertPolicy, DeletePolicy, Enter, WriterStep, Load, NothingToRemove, SwapFails,
       ReaderStep, LoadAllow, LoadDeny, Return, vars

LEMMA NextRouted == StoreInv /\ RoutedByMode /\ [Next]_vars => RoutedByMode'
<1> SUFFICES ASSUME StoreInv, RoutedByMode, [Next]_vars,
                    NEW t \in TableNames, NEW id \in Ids, table'[t].map[id] # NoPolicy
             PROVE  /\ table'[t].map[id].id = id
                    /\ table'[t].map[id].access = AccessAllow <=> t = "allow"
  BY DEF RoutedByMode, Keys
<1>1. CASE table'[t].map[id] = table[t].map[id]
  BY <1>1 DEF RoutedByMode, Keys
<1>2. CASE table'[t].map[id] # table[t].map[id]
  <2>1. PICK w \in Writers : CompareAndSwap(w)
    BY <1>2, OnlySwapsChangeTables
  <2>2. t = Table(w) /\ id = call[w].id /\ table'[t].map[id] = Effect(w)
    BY <1>2, <2>1, SwapEffect
  <2>3. Inserting(w) /\ table'[t].map[id] = call[w].policy
    BY <2>2 DEF Effect
  <2> QED
    BY <2>1, <2>2, <2>3, SwapEffect, InCall DEF StoreInv
<1> QED
  BY <1>1, <1>2

\* An unrecognised access mode never reaches the allow table, for any number of
\* writers, conflicting or not: UpsertPolicy's fail-safe routing.
THEOREM StoreRouted == Spec => []RoutedByMode
<1>1. Init => RoutedByMode
  BY DEF Init, NewPolicyStore, RoutedByMode, Keys, emptyMap
<1> QED
  BY <1>1, InitStoreInv, NextStoreInv, NextRouted, PTL DEF Spec

\* No update is lost, for any number of writers, conflicting or not: an entry
\* only ever changes to what a call on that id writes there.
THEOREM StoreNoLostUpdate == Spec => OnlyCallersChange
<1>1. ASSUME StoreInv, [Next]_vars
      PROVE  [\A t \in TableNames, id \in Ids :
                table'[t].map[id] # table[t].map[id] =>
                  \E w \in Writers :
                    /\ phase[w] # "idle"
                    /\ call[w].id = id
                    /\ Table(w) = t
                    /\ table'[t].map[id] = Effect(w)]_table
  <2> SUFFICES ASSUME NEW t \in TableNames, NEW id \in Ids,
                      table'[t].map[id] # table[t].map[id]
               PROVE  \E w \in Writers : /\ phase[w] # "idle"
                                         /\ call[w].id = id
                                         /\ Table(w) = t
                                         /\ table'[t].map[id] = Effect(w)
    OBVIOUS
  <2>1. PICK w \in Writers : CompareAndSwap(w)
    BY <1>1, OnlySwapsChangeTables
  <2> QED
    BY <1>1, <2>1, SwapEffect
<1> QED
  BY <1>1, InitStoreInv, NextStoreInv, PTL DEF Spec, OnlyCallersChange

--------------------------------------------------------------------------------
(* One entry per id, while no two calls work on the same id at once. *)

\* Calls in progress work on different ids.
DistinctIds ==
  \A v, w \in Writers :
    v # w /\ phase[v] # "idle" /\ phase[w] # "idle" => call[v].id # call[w].id

\* A loaded map may be stale, but not in the entry the call is about.
OwnEntryFresh ==
  \A w \in Writers :
    seen[w] # Unloaded =>
      seen[w].map[call[w].id] = table[Table(w)].map[call[w].id]

\* The first loop has done its work when the second one runs: the table the
\* second loop does not work on has no entry for the id.
FirstLoopDone ==
  \A w \in Writers :
    phase[w] = "second" => table[Opposite(Table(w))].map[call[w].id] = NoPolicy

OwnerInv == DistinctIds /\ OwnEntryFresh /\ FirstLoopDone /\ OneEntryPerId

\* The first loop of a call removes from one table; the second works on the other.
LEMMA LoopSides ==
  ASSUME NEW c \in Calls
  PROVE  /\ ~Loop(c, "first").inserts
         /\ Opposite(Loop(c, "second").on) = Loop(c, "first").on
         /\ Loop(c, "second").on # Loop(c, "first").on
BY DEF Calls, Upserts, Deletes, Loop, Removal, TargetTable, Opposite

\* A call that leaves its first loop has its own entry gone from that loop's table.
LEMMA LeaveFirst ==
  ASSUME StoreInv, NEW w \in Writers, LeaveLoop(w), phase[w] # "idle",
         table'[Table(w)].map[call[w].id] = Effect(w)
  PROVE  phase'[w] = "second" => table'[Opposite(Table(w)')].map[call'[w].id] = NoPolicy
<1> SUFFICES ASSUME phase'[w] = "second"
             PROVE  table'[Opposite(Table(w)')].map[call'[w].id] = NoPolicy
  OBVIOUS
<1>1. call[w] \in Calls /\ phase[w] \in {"first", "second"}
  BY InCall DEF StoreInv
<1>2. phase[w] = "first" /\ call'[w] = call[w]
  BY <1>1 DEF LeaveLoop, StoreInv, TypeOK
<1>3. Opposite(Table(w)') = Table(w) /\ ~Inserting(w)
  BY <1>1, <1>2, LoopSides DEF Table, Inserting
<1> QED
  BY <1>2, <1>3 DEF Effect

\* Steps that leave the tables alone.
LEMMA QuietOwner ==
  ASSUME StoreInv, OwnerInv, Conflicts = FALSE, Next, UNCHANGED table
  PROVE  OwnerInv'
<1>1. OneEntryPerId'
  BY DEF OwnerInv, OneEntryPerId
<1>2. ASSUME NEW w \in Writers, NEW c \in Calls, MayCall(w, c.id), Enter(w, c)
      PROVE  OwnerInv'
  <2>1. /\ phase[w] = "idle" /\ seen[w] = Unloaded
        /\ phase'[w] = "first" /\ call'[w] = c /\ seen' = seen
        /\ \A v \in Writers \ {w} : /\ call'[v] = call[v] /\ phase'[v] = phase[v]
                                    /\ Table(v)' = Table(v)
    BY <1>2 DEF MayCall, Enter, StoreInv, TypeOK, CallPhase, Table
  <2>2. DistinctIds'
    BY <1>2, <2>1 DEF MayCall, OwnerInv, DistinctIds
  <2>3. OwnEntryFresh'
    BY <2>1 DEF OwnerInv, OwnEntryFresh
  <2>4. FirstLoopDone'
    BY <2>1 DEF OwnerInv, FirstLoopDone
  <2> QED
    BY <1>1, <2>2, <2>3, <2>4 DEF OwnerInv
<1>3. ASSUME NEW w \in Writers, WriterStep(w)
      PROVE  OwnerInv'
  <2>1. phase[w] # "idle"
    BY <1>3 DEF WriterStep, Load, NothingToRemove, CompareAndSwap, Swapping, SwapFails,
         StoreInv, CallPhase
  <2>2. call[w] \in Calls /\ phase[w] \in {"first", "second"} /\ Table(w) \in TableNames
    BY <2>1, InCall DEF StoreInv
  <2>3. \A v \in Writers \ {w} : /\ call'[v] = call[v] /\ phase'[v] = phase[v]
                                 /\ seen'[v] = seen[v] /\ Table(v)' = Table(v)
    BY <1>3 DEF WriterStep, Load, NothingToRemove, CompareAndSwap, SwapFails, LeaveLoop,
         StoreInv, TypeOK, Table
  <2>4. phase'[w] # "idle" => call'[w] = call[w]
    BY <1>3, <2>2 DEF WriterStep, Load, NothingToRemove, CompareAndSwap, SwapFails, LeaveLoop,
         StoreInv, TypeOK
  <2>5. DistinctIds'
    BY <2>1, <2>3, <2>4 DEF OwnerInv, DistinctIds
  <2>6. seen'[w] # Unloaded => seen'[w] = table[Table(w)] /\ Table(w)' = Table(w) /\ call'[w] = call[w]
    BY <1>3, <2>2 DEF WriterStep, Load, NothingToRemove, CompareAndSwap, SwapFails, LeaveLoop,
         StoreInv, TypeOK, Table
  <2>7. OwnEntryFresh'
    BY <2>3, <2>6 DEF OwnerInv, OwnEntryFresh
  <2>8. phase'[w] = "second" => table'[Opposite(Table(w)')].map[call'[w].id] = NoPolicy
    <3>1. CASE Load(w) \/ SwapFails(w)
      BY <3>1 DEF Load, SwapFails, OwnerInv, FirstLoopDone, Table
    <3>2. CASE NothingToRemove(w)
      BY <2>1, <3>2, LeaveFirst DEF NothingToRemove, OwnerInv, OwnEntryFresh, Effect
    <3>3. CASE CompareAndSwap(w)
      BY <2>1, <3>3, LeaveFirst, SwapEffect DEF CompareAndSwap
    <3> QED
      BY <1>3, <3>1, <3>2, <3>3 DEF WriterStep
  <2>9. FirstLoopDone'
    BY <2>3, <2>8 DEF OwnerInv, FirstLoopDone
  <2> QED
    BY <1>1, <2>5, <2>7, <2>9 DEF OwnerInv
<1>4. ASSUME NEW r \in Readers, ReaderStep(r)
      PROVE  OwnerInv'
  BY <1>4 DEF ReaderStep, LoadAllow, LoadDeny, Return, writerVars, OwnerInv, DistinctIds,
         OwnEntryFresh, FirstLoopDone, OneEntryPerId, Table
<1>5. ASSUME NEW w \in Writers, NEW p \in Policy, UpsertPolicy(w, p)
      PROVE  OwnerInv'
  BY <1>2, <1>5, CallKinds DEF UpsertPolicy
<1>6. ASSUME NEW w \in Writers, NEW id \in Ids, DeletePolicy(w, id)
      PROVE  OwnerInv'
  BY <1>2, <1>6, CallKinds DEF DeletePolicy
<1> QED
  BY <1>3, <1>4, <1>5, <1>6 DEF Next

\* A successful swap.
LEMMA SwapOwner ==
  ASSUME StoreInv, OwnerInv, NEW w \in Writers, CompareAndSwap(w)
  PROVE  OwnerInv'
<1>1. phase[w] # "idle"
  BY SwapEffect
<1>2. /\ call[w] \in Calls /\ phase[w] \in {"first", "second"}
      /\ Table(w) \in TableNames /\ call[w].id \in Ids
  BY <1>1, InCall DEF StoreInv
<1>3. \A v \in Writers \ {w} : /\ call'[v] = call[v] /\ phase'[v] = phase[v]
                               /\ seen'[v] = seen[v] /\ Table(v)' = Table(v)
  BY DEF CompareAndSwap, LeaveLoop, StoreInv, TypeOK, Table
<1>4. phase'[w] # "idle" => call'[w] = call[w]
  BY <1>2 DEF CompareAndSwap, LeaveLoop, StoreInv, TypeOK
<1>5. DistinctIds'
  BY <1>1, <1>3, <1>4 DEF OwnerInv, DistinctIds
\* Another writer's own entry is not touched, in either table.
<1>6. ASSUME NEW v \in Writers \ {w}, phase[v] # "idle", NEW t \in TableNames
      PROVE  table'[t].map[call[v].id] = table[t].map[call[v].id]
  <2>1. call[v].id \in Ids /\ call[v].id # call[w].id
    BY <1>1, <1>6, InCall DEF StoreInv, OwnerInv, DistinctIds
  <2> QED
    BY <2>1, SwapEffect
<1>7. seen'[w] = Unloaded
  BY DEF CompareAndSwap, LeaveLoop, StoreInv, TypeOK
<1>8. OwnEntryFresh'
  <2> SUFFICES ASSUME NEW v \in Writers, seen'[v] # Unloaded
               PROVE  seen'[v].map[call'[v].id] = table'[Table(v)'].map[call'[v].id]
    BY DEF OwnEntryFresh
  <2>1. v # w /\ phase[v] # "idle"
    BY <1>3, <1>7 DEF StoreInv, CallPhase
  <2>2. Table(v) \in TableNames
    BY <2>1, InCall DEF StoreInv
  <2> QED
    BY <1>3, <1>6, <2>1, <2>2 DEF OwnerInv, OwnEntryFresh
<1>9. FirstLoopDone'
  <2> SUFFICES ASSUME NEW v \in Writers, phase'[v] = "second"
               PROVE  table'[Opposite(Table(v)')].map[call'[v].id] = NoPolicy
    BY DEF FirstLoopDone
  <2>1. CASE v = w
    BY <1>1, <2>1, SwapEffect, LeaveFirst DEF CompareAndSwap
  <2>2. CASE v # w
    <3>1. phase[v] = "second" /\ Opposite(Table(v)) \in TableNames
      BY <1>3, <2>2 DEF Opposite, TableNames
    <3> QED
      BY <1>3, <1>6, <2>2, <3>1 DEF OwnerInv, FirstLoopDone
  <2> QED
    BY <2>1, <2>2
<1>10. OneEntryPerId'
  <2> SUFFICES ASSUME NEW id \in Ids
               PROVE  table'["allow"].map[id] = NoPolicy \/ table'["deny"].map[id] = NoPolicy
    BY DEF OneEntryPerId
  <2>1. {"allow", "deny"} = TableNames
    BY DEF TableNames
  <2>2. CASE id # call[w].id
    BY <2>1, <2>2, SwapEffect DEF OwnerInv, OneEntryPerId
  <2>3. CASE id = call[w].id /\ Effect(w) = NoPolicy
    BY <1>2, <2>1, <2>3, SwapEffect
  <2>4. CASE id = call[w].id /\ Effect(w) # NoPolicy
    <3>1. phase[w] = "second"
      BY <1>2, <2>4, LoopSides DEF Effect, Inserting
    <3>2. table[Opposite(Table(w))].map[id] = NoPolicy
      BY <2>4, <3>1 DEF OwnerInv, FirstLoopDone
    <3>3. Opposite(Table(w)) \in TableNames \ {Table(w)}
      BY <1>2 DEF Opposite, TableNames
    <3> QED
      BY <1>2, <3>2, <3>3, SwapEffect DEF TableNames
  <2> QED
    BY <2>2, <2>3, <2>4
<1> QED
  BY <1>5, <1>8, <1>9, <1>10 DEF OwnerInv

LEMMA InitOwner == Init => OwnerInv
<1> SUFFICES ASSUME Init PROVE OwnerInv
  OBVIOUS
<1>1. OneEntryPerId
  BY DEF Init, NewPolicyStore, OneEntryPerId, emptyMap, TableNames
<1> QED
  BY <1>1 DEF Init, OwnerInv, DistinctIds, OwnEntryFresh, FirstLoopDone

LEMMA NextOwner ==
  ASSUME Conflicts = FALSE
  PROVE  StoreInv /\ OwnerInv /\ [Next]_vars => OwnerInv'
<1> SUFFICES ASSUME StoreInv, OwnerInv, [Next]_vars PROVE OwnerInv'
  OBVIOUS
<1>1. CASE UNCHANGED vars
  BY <1>1 DEF vars, OwnerInv, DistinctIds, OwnEntryFresh, FirstLoopDone, OneEntryPerId, Table
<1>2. CASE Next /\ UNCHANGED table
  BY <1>2, QuietOwner
<1>3. CASE ~UNCHANGED table
  BY <1>3, OnlySwapsChangeTables, SwapOwner
<1> QED
  BY <1>1, <1>2, <1>3

\* With calls on the same id kept apart, which is what the single subscriber
\* does, no id is ever in both tables, for any number of ids and writers.
THEOREM StoreOneEntryPerId ==
  ASSUME Conflicts = FALSE
  PROVE  Spec => []OneEntryPerId
<1>1. OwnerInv => OneEntryPerId
  BY DEF OwnerInv
<1> QED
  BY <1>1, InitStoreInv, NextStoreInv, InitOwner, NextOwner, PTL DEF Spec

--------------------------------------------------------------------------------
(* Snapshots. *)

\* While a read has loaded the allow table only: the window it overlaps holds
\* the current tables and the moment of the first load, and an id missing from
\* the loaded map was absent at some moment or is a deny entry now.
HalfRead(r) ==
  /\ Tables \in during[r]
  /\ \E s \in during[r] : s["allow"] = snap[r]["allow"]
  /\ \A id \in Ids :
       snap[r]["allow"][id] = NoPolicy =>
         \/ \E s \in during[r] : View(s, id) = NoPolicy
         \/ table["deny"].map[id] # NoPolicy

\* No table state in the window has an id twice.
SingleEntries(s) == \A id \in Ids : s["allow"][id] = NoPolicy \/ s["deny"][id] = NoPolicy

ReadInv ==
  /\ \A r \in Readers : reading[r] = "allowLoaded" => HalfRead(r)
  /\ \A r \in Readers : \A s \in during[r] : SingleEntries(s)
  /\ SnapshotRegular

LEMMA TablesSingle ==
  ASSUME OneEntryPerId
  PROVE  SingleEntries(Tables)
BY DEF OneEntryPerId, SingleEntries, Tables, TableNames

LEMMA SwapRead ==
  ASSUME StoreInv, OwnerInv, OwnerInv', ReadInv, NEW w \in Writers, CompareAndSwap(w)
  PROVE  ReadInv'
<1>1. /\ reading' = reading /\ snap' = snap
      /\ \A r \in Readers : during'[r] = IF reading[r] = "allowLoaded"
                                         THEN during[r] \cup {Tables'} ELSE during[r]
  BY DEF CompareAndSwap, Witness, readerVars
<1>2. \A r \in Readers : \A s \in during'[r] : SingleEntries(s)
  <2>1. SingleEntries(Tables')
    BY DEF OwnerInv, OneEntryPerId, SingleEntries, Tables, TableNames
  <2> QED
    BY <1>1, <2>1 DEF ReadInv
<1>3. SnapshotRegular'
  <2> SUFFICES ASSUME NEW r \in Readers, reading'[r] = "done", NEW id \in Ids
               PROVE  \E s \in during'[r] : View(s, id) = View(snap'[r], id)
    BY DEF SnapshotRegular
  <2> QED
    BY <1>1 DEF ReadInv, SnapshotRegular
<1>4. ASSUME NEW r \in Readers, reading'[r] = "allowLoaded"
      PROVE  HalfRead(r)'
  <2>1. HalfRead(r) /\ during'[r] = during[r] \cup {Tables'} /\ snap'[r] = snap[r]
    BY <1>1, <1>4 DEF ReadInv
  <2>2. Tables' \in during'[r] /\ \E s \in during'[r] : s["allow"] = snap'[r]["allow"]
    BY <2>1 DEF HalfRead
  <2>3. ASSUME NEW id \in Ids, snap'[r]["allow"][id] = NoPolicy,
               table'["deny"].map[id] = NoPolicy
        PROVE  \E s \in during'[r] : View(s, id) = NoPolicy
    <3>1. CASE \E s \in during[r] : View(s, id) = NoPolicy
      BY <2>1, <3>1
    <3>2. CASE table["deny"].map[id] # NoPolicy
      <4>1. table["allow"].map[id] = NoPolicy
        BY <3>2 DEF OwnerInv, OneEntryPerId
      <4>2. Table(w) = "deny"
        BY <2>3, <3>2, SwapEffect DEF TableNames
      <4>3. table'["allow"].map[id] = NoPolicy
        BY <4>1, <4>2, SwapEffect DEF TableNames
      <4>4. View(Tables', id) = NoPolicy
        BY <2>3, <4>3 DEF View, Tables, TableNames
      <4> QED
        BY <2>1, <4>4
    <3> QED
      BY <2>1, <2>3, <3>1, <3>2 DEF HalfRead
  <2> QED
    BY <2>2, <2>3 DEF HalfRead
<1> QED
  BY <1>2, <1>3, <1>4 DEF ReadInv

\* The first load opens the window.
LEMMA LoadAllowRead ==
  ASSUME StoreInv, OwnerInv, ReadInv, NEW r \in Readers, LoadAllow(r)
  PROVE  ReadInv'
<1>1. /\ Tables' = Tables /\ table' = table
      /\ reading'[r] = "allowLoaded" /\ during'[r] = {Tables}
      /\ snap'[r]["allow"] = table["allow"].map
      /\ \A q \in Readers \ {r} : /\ reading'[q] = reading[q] /\ during'[q] = during[q]
                                  /\ snap'[q] = snap[q]
  BY DEF LoadAllow, Tables, StoreInv, TypeOK, TableNames
<1>2. HalfRead(r)'
  <2>1. Tables["allow"] = table["allow"].map /\ Tables["deny"] = table["deny"].map
    BY DEF Tables, TableNames
  <2>2. ASSUME NEW id \in Ids, table["allow"].map[id] = NoPolicy,
               table["deny"].map[id] = NoPolicy
        PROVE  View(Tables, id) = NoPolicy
    BY <2>1, <2>2 DEF View
  <2> QED
    BY <1>1, <2>1, <2>2 DEF HalfRead
<1>3. \A q \in Readers \ {r} : reading'[q] = "allowLoaded" => HalfRead(q)'
  BY <1>1 DEF ReadInv, HalfRead
<1>4. \A q \in Readers : \A s \in during'[q] : SingleEntries(s)
  BY <1>1, TablesSingle DEF OwnerInv, ReadInv
<1>5. SnapshotRegular'
  BY <1>1 DEF ReadInv, SnapshotRegular
<1> QED
  BY <1>2, <1>3, <1>4, <1>5 DEF ReadInv

\* The second load completes a regular snapshot.
LEMMA LoadDenyRead ==
  ASSUME StoreInv, OwnerInv, ReadInv, NEW r \in Readers, LoadDeny(r)
  PROVE  ReadInv'
<1>1. /\ Tables' = Tables /\ table' = table /\ during' = during
      /\ reading[r] = "allowLoaded" /\ reading'[r] = "done"
      /\ snap'[r]["allow"] = snap[r]["allow"] /\ snap'[r]["deny"] = table["deny"].map
      /\ \A q \in Readers \ {r} : reading'[q] = reading[q] /\ snap'[q] = snap[q]
  BY DEF LoadDeny, Tables, StoreInv, TypeOK, TableNames
<1>2. HalfRead(r)
  BY <1>1 DEF ReadInv
<1>3. ASSUME NEW id \in Ids
      PROVE  \E s \in during'[r] : View(s, id) = View(snap'[r], id)
  <2>1. CASE table["deny"].map[id] # NoPolicy
    <3>1. View(Tables, id) = table["deny"].map[id] /\ View(snap'[r], id) = table["deny"].map[id]
      BY <1>1, <2>1 DEF View, Tables, TableNames
    <3> QED
      BY <1>1, <1>2, <3>1 DEF HalfRead
  <2>2. CASE table["deny"].map[id] = NoPolicy
    <3>1. View(snap'[r], id) = snap[r]["allow"][id]
      BY <1>1, <2>2 DEF View
    <3>2. CASE snap[r]["allow"][id] = NoPolicy
      BY <1>1, <1>2, <2>2, <3>1, <3>2 DEF HalfRead
    <3>3. CASE snap[r]["allow"][id] # NoPolicy
      <4>1. PICK s \in during[r] : s["allow"] = snap[r]["allow"]
        BY <1>2 DEF HalfRead
      <4>2. s["deny"][id] = NoPolicy
        BY <3>3, <4>1 DEF ReadInv, SingleEntries
      <4> QED
        BY <1>1, <3>1, <4>1, <4>2 DEF View
    <3> QED
      BY <3>2, <3>3
  <2> QED
    BY <2>1, <2>2
<1>4. SnapshotRegular'
  BY <1>1, <1>3 DEF ReadInv, SnapshotRegular
<1>5. \A q \in Readers : reading'[q] = "allowLoaded" => HalfRead(q)'
  BY <1>1 DEF ReadInv, HalfRead
<1> QED
  BY <1>1, <1>4, <1>5 DEF ReadInv

LEMMA ReturnRead ==
  ASSUME StoreInv, OwnerInv, ReadInv, NEW r \in Readers, Return(r)
  PROVE  ReadInv'
<1>1. /\ Tables' = Tables /\ table' = table
      /\ reading'[r] = "idle" /\ during'[r] = {}
      /\ \A q \in Readers \ {r} : /\ reading'[q] = reading[q] /\ during'[q] = during[q]
                                  /\ snap'[q] = snap[q]
  BY DEF Return, Tables, StoreInv, TypeOK
<1>2. \A q \in Readers : reading'[q] = "allowLoaded" => HalfRead(q)'
  BY <1>1 DEF ReadInv, HalfRead
<1>3. SnapshotRegular'
  BY <1>1 DEF ReadInv, SnapshotRegular
<1>4. \A q \in Readers : \A s \in during'[q] : SingleEntries(s)
  BY <1>1 DEF ReadInv
<1> QED
  BY <1>2, <1>3, <1>4 DEF ReadInv

LEMMA NextRead == StoreInv /\ OwnerInv /\ OwnerInv' /\ ReadInv /\ [Next]_vars => ReadInv'
<1> SUFFICES ASSUME StoreInv, OwnerInv, OwnerInv', ReadInv, [Next]_vars PROVE ReadInv'
  OBVIOUS
<1>1. ASSUME UNCHANGED <<table, reading, snap, during>>
      PROVE  ReadInv'
  BY <1>1 DEF ReadInv, HalfRead, SnapshotRegular, Tables
<1>2. \/ UNCHANGED <<table, reading, snap, during>>
      \/ \E w \in Writers : CompareAndSwap(w)
      \/ \E r \in Readers : LoadAllow(r) \/ LoadDeny(r) \/ Return(r)
  BY DEF Next, UpsertPolicy, DeletePolicy, Enter, WriterStep, Load, NothingToRemove, SwapFails,
         ReaderStep, readerVars, vars
<1> QED
  BY <1>1, <1>2, SwapRead, LoadAllowRead, LoadDenyRead, ReturnRead

\* The two loads of ListActivePolicies are not atomic, yet what a snapshot shows
\* for an id was in force at some moment of the read, for any number of ids,
\* writers and readers, while no two calls work on the same id at once.
THEOREM StoreSnapshotRegular ==
  ASSUME Conflicts = FALSE
  PROVE  Spec => []SnapshotRegular
<1>1. Init => ReadInv
  BY DEF Init, ReadInv, SnapshotRegular
<1>2. ReadInv => SnapshotRegular
  BY DEF ReadInv
<1> QED
  BY <1>1, <1>2, InitStoreInv, NextStoreInv, InitOwner, NextOwner, NextRead, PTL DEF Spec

--------------------------------------------------------------------------------
(* The gauge. *)

\* Each of the two maps a completed read holds was the contents of its table at
\* some moment of the read, though seldom at the same moment.
LoadedDuring ==
  \A r \in Readers : reading[r] = "done" =>
    /\ \E s \in during[r] : s["allow"] = snap[r]["allow"]
    /\ \E s \in during[r] : s["deny"] = snap[r]["deny"]

LEMMA NextLoaded == StoreInv /\ ReadInv /\ LoadedDuring /\ [Next]_vars => LoadedDuring'
<1> SUFFICES ASSUME StoreInv, ReadInv, LoadedDuring, [Next]_vars PROVE LoadedDuring'
  OBVIOUS
<1>1. CASE UNCHANGED <<reading, snap, during>>
  BY <1>1 DEF LoadedDuring
<1>2. ASSUME NEW w \in Writers, CompareAndSwap(w)
      PROVE  LoadedDuring'
  <2>1. /\ reading' = reading /\ snap' = snap
        /\ \A r \in Readers : reading[r] = "done" => during'[r] = during[r]
    BY <1>2 DEF CompareAndSwap, Witness, readerVars
  <2> QED
    BY <2>1 DEF LoadedDuring
<1>3. ASSUME NEW r \in Readers, LoadAllow(r) \/ Return(r)
      PROVE  LoadedDuring'
  <2>1. /\ reading'[r] # "done"
        /\ \A q \in Readers \ {r} : /\ reading'[q] = reading[q] /\ during'[q] = during[q]
                                    /\ snap'[q] = snap[q]
    BY <1>3 DEF LoadAllow, Return, StoreInv, TypeOK
  <2> QED
    BY <2>1 DEF LoadedDuring
<1>4. ASSUME NEW r \in Readers, LoadDeny(r)
      PROVE  LoadedDuring'
  <2>1. /\ during' = during /\ reading[r] = "allowLoaded"
        /\ snap'[r]["allow"] = snap[r]["allow"] /\ snap'[r]["deny"] = table["deny"].map
        /\ \A q \in Readers \ {r} : reading'[q] = reading[q] /\ snap'[q] = snap[q]
    BY <1>4 DEF LoadDeny, StoreInv, TypeOK, TableNames
  <2>2. Tables \in during[r] /\ \E s \in during[r] : s["allow"] = snap[r]["allow"]
    BY <2>1 DEF ReadInv, HalfRead
  <2>3. Tables["deny"] = table["deny"].map
    BY DEF Tables, TableNames
  <2> QED
    BY <2>1, <2>2, <2>3 DEF LoadedDuring
<1>5. \/ UNCHANGED <<reading, snap, during>>
      \/ \E w \in Writers : CompareAndSwap(w)
      \/ \E r \in Readers : LoadAllow(r) \/ LoadDeny(r) \/ Return(r)
  BY DEF Next, UpsertPolicy, DeletePolicy, Enter, WriterStep, Load, NothingToRemove, SwapFails,
         ReaderStep, readerVars, vars
<1> QED
  BY <1>1, <1>2, <1>3, <1>4, <1>5

\* Counting two sets one by one counts their union, and what they share twice.
LEMMA CountTwice ==
  ASSUME NEW A, NEW D, NEW stable, NEW ever, NEW moved,
         IsFiniteSet(A), IsFiniteSet(D), IsFiniteSet(ever), IsFiniteSet(moved),
         stable \subseteq A \cup D, A \cup D \subseteq ever, A \cap D \subseteq moved
  PROVE  /\ Cardinality(stable) <= Cardinality(A) + Cardinality(D)
         /\ Cardinality(A) + Cardinality(D) <= Cardinality(ever) + Cardinality(moved)
<1>1. /\ IsFiniteSet(A \cup D)
      /\ Cardinality(A \cup D) = Cardinality(A) + Cardinality(D) - Cardinality(A \cap D)
  BY FS_Union
<1>2. IsFiniteSet(A \cap D)
  BY FS_Intersection
<1>3. IsFiniteSet(stable) /\ Cardinality(stable) <= Cardinality(A \cup D)
  BY <1>1, FS_Subset
<1>4. Cardinality(A \cup D) <= Cardinality(ever)
  BY FS_Subset
<1>5. Cardinality(A \cap D) <= Cardinality(moved)
  BY FS_Subset
<1>6. /\ Cardinality(A) \in Nat /\ Cardinality(D) \in Nat /\ Cardinality(stable) \in Nat
      /\ Cardinality(A \cup D) \in Nat /\ Cardinality(A \cap D) \in Nat
      /\ Cardinality(ever) \in Nat /\ Cardinality(moved) \in Nat
  BY <1>1, <1>2, <1>3, FS_CardinalityType
<1> QED
  BY <1>1, <1>3, <1>4, <1>5, <1>6

\* Regularity and the two loads bracket the count.
LEMMA LoadedBrackets ==
  ASSUME IsFiniteSet(Ids), SnapshotRegular, LoadedDuring
  PROVE  CountBracketed
<1> SUFFICES ASSUME NEW r \in Readers, reading[r] = "done"
             PROVE  LET Stable == {id \in Ids : \A s \in during[r] : id \in Active(s)}
                        Ever   == {id \in Ids : \E s \in during[r] : id \in Active(s)}
                        Moved  == {id \in Ids : /\ \E s \in during[r] : s["allow"][id] # NoPolicy
                                                /\ \E s \in during[r] : s["deny"][id] # NoPolicy}
                    IN  /\ Cardinality(Stable) <= Count(snap[r])
                        /\ Count(snap[r]) <= Cardinality(Ever) + Cardinality(Moved)
  BY DEF CountBracketed
<1> DEFINE A      == Keys(snap[r]["allow"])
           D      == Keys(snap[r]["deny"])
           Stable == {id \in Ids : \A s \in during[r] : id \in Active(s)}
           Ever   == {id \in Ids : \E s \in during[r] : id \in Active(s)}
           Moved  == {id \in Ids : /\ \E s \in during[r] : s["allow"][id] # NoPolicy
                                   /\ \E s \in during[r] : s["deny"][id] # NoPolicy}
<1>1. Stable \subseteq A \cup D
  <2> SUFFICES ASSUME NEW id \in Stable, id \notin A, id \notin D PROVE FALSE
    OBVIOUS
  <2>1. View(snap[r], id) = NoPolicy
    BY DEF Keys, View
  <2>2. PICK s \in during[r] : View(s, id) = View(snap[r], id)
    BY DEF SnapshotRegular
  <2> QED
    BY <2>1, <2>2 DEF Active
<1>2. A \cup D \subseteq Ever
  <2>1. PICK s \in during[r] : s["allow"] = snap[r]["allow"]
    BY DEF LoadedDuring
  <2>2. PICK u \in during[r] : u["deny"] = snap[r]["deny"]
    BY DEF LoadedDuring
  <2>3. \A id \in A : id \in Active(s)
    BY <2>1 DEF Keys, Active, View
  <2>4. \A id \in D : id \in Active(u)
    BY <2>2 DEF Keys, Active, View
  <2> QED
    BY <2>3, <2>4 DEF Keys
<1>3. A \cap D \subseteq Moved
  BY DEF Keys, LoadedDuring
<1>4. /\ IsFiniteSet(A) /\ IsFiniteSet(D) /\ IsFiniteSet(Ever) /\ IsFiniteSet(Moved)
  <2>1. A \in SUBSET Ids /\ D \in SUBSET Ids /\ Ever \in SUBSET Ids /\ Moved \in SUBSET Ids
    BY DEF Keys
  <2> HIDE DEF A, D, Ever, Moved
  <2> QED
    BY <2>1, FS_Subset
<1>5. Count(snap[r]) = Cardinality(A) + Cardinality(D)
  BY DEF Count
<1> HIDE DEF A, D, Stable, Ever, Moved
<1>6. /\ Cardinality(Stable) <= Count(snap[r])
      /\ Count(snap[r]) <= Cardinality(Ever) + Cardinality(Moved)
  BY <1>1, <1>2, <1>3, <1>4, <1>5, CountTwice
<1> QED
  BY <1>6 DEF Stable, Ever, Moved

\* The active-policies gauge never misses an id that stayed active during the
\* scrape and counts twice only one that changed tables under it (Count of
\* internal/store/store.go, two loads without a lock), for any finite set of ids
\* and any number of writers, while no two calls work on the same id at once.
THEOREM StoreCountBracketed ==
  ASSUME Conflicts = FALSE, IsFiniteSet(Ids)
  PROVE  Spec => []CountBracketed
<1>1. Init => ReadInv /\ LoadedDuring
  BY DEF Init, ReadInv, SnapshotRegular, LoadedDuring
<1>2. ReadInv /\ LoadedDuring => CountBracketed
  BY LoadedBrackets DEF ReadInv
<1> QED
  BY <1>1, <1>2, InitStoreInv, NextStoreInv, InitOwner, NextOwner, NextRead, NextLoaded, PTL DEF Spec

--------------------------------------------------------------------------------
(* The store implements ActivePolicies. *)

\* The abstract state: the policy in force for each id.
active == [id \in Ids |-> View(Tables, id)]

\* With one entry per id, the policy in force is whichever table's entry there is.
LEMMA ViewIs ==
  ASSUME NEW id \in Ids, NEW t \in TableNames, table[Opposite(t)].map[id] = NoPolicy
  PROVE  View(Tables, id) = table[t].map[id]
BY DEF View, Tables, Opposite, TableNames

\* A step that touches at most one id maps to an update of that id.
LEMMA ActiveUpdate ==
  ASSUME NEW i \in Ids, NEW v,
         \A t \in TableNames : \A j \in Ids \ {i} : table'[t].map[j] = table[t].map[j],
         View(Tables', i) = v
  PROVE  active' = [active EXCEPT ![i] = v]
<1>1. \A j \in Ids \ {i} : View(Tables', j) = View(Tables, j)
  BY DEF View, Tables, TableNames
<1> QED
  BY <1>1 DEF active

\* The abstract call of a writer that has left its last loop has returned.
LEMMA LeaveCalls ==
  ASSUME StoreInv, NEW w \in Writers, phase[w] # "idle", LeaveLoop(w)
  PROVE  /\ phase[w] = "first"  => call' = call
         /\ phase[w] = "second" => call' = [call EXCEPT ![w] = Idle]
BY DEF LeaveLoop

LEMMA QuietRefines ==
  ASSUME StoreInv, OwnerInv, NEW w \in Writers, NothingToRemove(w)
  PROVE  [Abstract!Next]_(Abstract!vars)
<1>1. phase[w] # "idle" /\ seen[w] # Unloaded /\ table' = table
  BY DEF NothingToRemove, StoreInv, CallPhase
<1>2. /\ call[w] \in Calls /\ phase[w] \in {"first", "second"}
      /\ Table(w) \in TableNames /\ call[w].id \in Ids
  BY <1>1, InCall DEF StoreInv
<1>3. active' = active
  BY <1>1 DEF active, Tables
<1>4. CASE phase[w] = "first"
  <2>1. call' = call
    BY <1>1, <1>4, LeaveCalls DEF NothingToRemove
  <2> QED
    BY <1>3, <2>1 DEF Abstract!vars, active
<1>5. CASE phase[w] = "second"
  <2>1. call' = [call EXCEPT ![w] = Idle]
    BY <1>1, <1>5, LeaveCalls DEF NothingToRemove
  <2>2. call[w].op = "delete" /\ call[w] # Idle
    BY <1>1, <1>2, <1>5, Sentinels DEF NothingToRemove, Inserting, Loop, Calls, Upserts, Deletes
  <2>3. active[call[w].id] = NoPolicy
    <3>1. table[Table(w)].map[call[w].id] = NoPolicy
      BY <1>1 DEF NothingToRemove, OwnerInv, OwnEntryFresh
    <3>2. table[Opposite(Table(w))].map[call[w].id] = NoPolicy
      BY <1>5 DEF OwnerInv, FirstLoopDone
    <3> QED
      BY <1>2, <3>1, <3>2, ViewIs DEF active
  <2>4. active' = [active EXCEPT ![call[w].id] = NoPolicy]
    BY <1>2, <1>3, <2>3 DEF active
  <2>5. Abstract!Return(w)
    BY <2>1, <2>2, <2>4 DEF Abstract!Return, active
  <2> QED
    BY <2>5 DEF Abstract!Next
<1> QED
  BY <1>2, <1>4, <1>5

LEMMA SwapRefines ==
  ASSUME StoreInv, OwnerInv, OwnerInv', RoutedByMode, NEW w \in Writers, CompareAndSwap(w)
  PROVE  [Abstract!Next]_(Abstract!vars)
<1> DEFINE i == call[w].id
<1>1. phase[w] # "idle" /\ seen[w] # Unloaded
  BY SwapEffect
<1>2. /\ call[w] \in Calls /\ phase[w] \in {"first", "second"}
      /\ Table(w) \in TableNames /\ i \in Ids
      /\ Opposite(Table(w)) \in TableNames \ {Table(w)}
  BY <1>1, InCall DEF StoreInv, Opposite, TableNames
<1>3. call[w] # Idle
  BY <1>2, Sentinels
<1>4. table[Opposite(Table(w))].map[i] = NoPolicy
  <2>1. CASE phase[w] = "second"
    BY <2>1 DEF OwnerInv, FirstLoopDone
  <2>2. CASE phase[w] = "first"
    <3>1. table[Table(w)].map[i] # NoPolicy
      BY <1>1, <1>2, <2>2, LoopSides DEF CompareAndSwap, Swapping, Inserting, OwnerInv, OwnEntryFresh
    <3> QED
      BY <1>2, <3>1 DEF OwnerInv, OneEntryPerId, Opposite, TableNames
  <2> QED
    BY <1>2, <2>1, <2>2
<1>5. active[i] = table[Table(w)].map[i]
  BY <1>2, <1>4, ViewIs DEF active
<1>6. active' = [active EXCEPT ![i] = Effect(w)]
  <2>1. table'[Table(w)].map[i] = Effect(w) /\ table'[Opposite(Table(w))].map[i] = NoPolicy
    BY <1>2, <1>4, SwapEffect
  <2>2. View(Tables', i) = Effect(w)
    BY <1>2, <2>1 DEF View, Tables, Opposite, TableNames
  <2>3. \A t \in TableNames : \A j \in Ids \ {i} : table'[t].map[j] = table[t].map[j]
    BY SwapEffect
  <2> QED
    BY <1>2, <2>2, <2>3, ActiveUpdate
\* The first loop swaps only an entry of the other side away.
<1>7. CASE phase[w] = "first"
  <2>1. call' = call /\ Effect(w) = NoPolicy
    BY <1>1, <1>2, <1>7, LeaveCalls, LoopSides DEF CompareAndSwap, Effect, Inserting
  <2>2. active[i] # NoPolicy
    BY <1>1, <1>2, <1>5, <1>7, LoopSides DEF CompareAndSwap, Swapping, Inserting, OwnerInv, OwnEntryFresh
  <2>3. call[w].op = "upsert" => ~Abstract!SameSide(active[i], call[w].policy)
    <3> SUFFICES ASSUME call[w].op = "upsert"
                 PROVE  ~Abstract!SameSide(active[i], call[w].policy)
      OBVIOUS
    <3>1. Table(w) = Opposite(TargetTable(call[w].policy))
      BY <1>7 DEF Table, Loop
    <3>2. active[i].access = AccessAllow <=> Table(w) = "allow"
      BY <1>2, <1>5, <2>2 DEF RoutedByMode, Keys
    <3> QED
      BY <3>1, <3>2 DEF Abstract!SameSide, TargetTable, Opposite, AccessAllow
  <2>4. Abstract!Withdraw(w)
    BY <1>3, <1>6, <2>1, <2>2, <2>3 DEF Abstract!Withdraw, active
  <2> QED
    BY <2>4 DEF Abstract!Next
\* The second loop returns with the effect in place.
<1>8. CASE phase[w] = "second"
  <2>1. call' = [call EXCEPT ![w] = Idle]
    BY <1>1, <1>8, LeaveCalls DEF CompareAndSwap
  <2>2. CASE call[w].op = "upsert"
    <3>1. Effect(w) = call[w].policy /\ Table(w) = TargetTable(call[w].policy)
      BY <1>8, <2>2 DEF Effect, Inserting, Table, Loop
    <3>2. active[i] = NoPolicy \/ Abstract!SameSide(active[i], call[w].policy)
      <4> SUFFICES ASSUME active[i] # NoPolicy
                   PROVE  Abstract!SameSide(active[i], call[w].policy)
        OBVIOUS
      <4>1. active[i].access = AccessAllow <=> Table(w) = "allow"
        BY <1>2, <1>5 DEF RoutedByMode, Keys
      <4> QED
        BY <3>1, <4>1 DEF Abstract!SameSide, TargetTable, AccessAllow
    <3>3. Abstract!Return(w)
      BY <1>3, <1>6, <2>1, <2>2, <3>1, <3>2 DEF Abstract!Return, active
    <3> QED
      BY <3>3 DEF Abstract!Next
  <2>3. CASE call[w].op = "delete"
    <3>1. Effect(w) = NoPolicy
      BY <2>3 DEF Effect, Inserting, Loop, Removal
    <3>2. Abstract!Return(w)
      BY <1>3, <1>6, <2>1, <2>3, <3>1 DEF Abstract!Return, active
    <3> QED
      BY <3>2 DEF Abstract!Next
  <2> QED
    BY <1>2, <2>2, <2>3 DEF Calls, Upserts, Deletes
<1> QED
  BY <1>2, <1>7, <1>8

LEMMA EnterRefines ==
  ASSUME StoreInv, Conflicts = FALSE, NEW w \in Writers, NEW c \in Calls,
         MayCall(w, c.id), Enter(w, c)
  PROVE  [Abstract!Next]_(Abstract!vars)
<1>1. active' = active
  BY DEF Enter, active, Tables
<1>2. call[w] = Idle /\ \A v \in Writers : call[v] # Idle => call[v].id # c.id
  BY DEF MayCall, StoreInv, CallPhase
<1>3. Abstract!Invoke(w, c)
  BY <1>1, <1>2 DEF Enter, Abstract!Invoke, active
<1> QED
  BY <1>3 DEF Abstract!Next

LEMMA StepRefines ==
  ASSUME Conflicts = FALSE
  PROVE  StoreInv /\ OwnerInv /\ OwnerInv' /\ RoutedByMode /\ [Next]_vars
           => [Abstract!Next]_(Abstract!vars)
<1> SUFFICES ASSUME StoreInv, OwnerInv, OwnerInv', RoutedByMode, [Next]_vars
             PROVE  [Abstract!Next]_(Abstract!vars)
  OBVIOUS
<1>1. ASSUME UNCHANGED <<table, call>>
      PROVE  [Abstract!Next]_(Abstract!vars)
  BY <1>1 DEF Abstract!vars, Tables
<1>2. ASSUME NEW w \in Writers, NEW p \in Policy, UpsertPolicy(w, p)
      PROVE  [Abstract!Next]_(Abstract!vars)
  BY <1>2, CallKinds, EnterRefines DEF UpsertPolicy
<1>3. ASSUME NEW w \in Writers, NEW id \in Ids, DeletePolicy(w, id)
      PROVE  [Abstract!Next]_(Abstract!vars)
  BY <1>3, CallKinds, EnterRefines DEF DeletePolicy
<1>4. \/ UNCHANGED <<table, call>>
      \/ \E w \in Writers : \/ \E p \in Policy : UpsertPolicy(w, p)
                            \/ \E id \in Ids : DeletePolicy(w, id)
                            \/ NothingToRemove(w) \/ CompareAndSwap(w)
  BY DEF Next, WriterStep, Load, SwapFails, ReaderStep, LoadAllow, LoadDeny, Return,
         writerVars, vars
<1> QED
  BY <1>1, <1>2, <1>3, <1>4, QuietRefines, SwapRefines

\* Two tables behind two atomic pointers implement the one map of ActivePolicies,
\* for any number of ids and writers, while no two calls work on the same id.
THEOREM StoreImplementsActivePolicies ==
  ASSUME Conflicts = FALSE
  PROVE  Spec => ImplementsActivePolicies
<1>1. Init => Abstract!Init
  BY DEF Init, NewPolicyStore, Abstract!Init, View, Tables, emptyMap, TableNames
<1>2. Init => RoutedByMode
  BY DEF Init, NewPolicyStore, RoutedByMode, Keys, emptyMap
<1> QED
  BY <1>1, <1>2, InitStoreInv, NextStoreInv, InitOwner, NextOwner, NextRouted, StepRefines, PTL
     DEF Spec, ImplementsActivePolicies, Abstract!Spec
================================================================================

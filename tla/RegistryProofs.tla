--------------------------- MODULE RegistryProofs ---------------------------
(***************************************************************************)
(* The registry's invariants and the refinement of IdAllocator, for every  *)
(* set of component types and every number of ids.                         *)
(***************************************************************************)
EXTENDS Registry, SequenceTheorems, FiniteSetTheorems, TLAPS

(* All but the type invariant of the inductive invariant.                  *)
Allocation == /\ FreeListHasNoDuplicates
              /\ FreeAndLivePartitionIds

IInv == TypeOK /\ Allocation /\ AliveCountIsExact /\ OnlyLiveEntitiesHaveComponents

RegistryType == [next_id : 0 .. MaxId, free_ids : Seq(Ids),
                 alive_count : Nat, storage : Storages]
-----------------------------------------------------------------------------
(* What pop_back() leaves of the free list (Registry.hpp:94-95).           *)
LEMMA FrontProperties ==
  ASSUME NEW S, NEW s \in Seq(S), s # << >>
  PROVE  /\ Front(s) \in Seq(S)
         /\ Len(s) \in Nat \ {0}
         /\ Len(Front(s)) = Len(s) - 1
         /\ \A i \in 1 .. Len(s) - 1 : Front(s)[i] = s[i]
         /\ Last(s) \in S
         /\ Last(s) = s[Len(s)]
  <1>1. Len(s) \in Nat \ {0}
    BY EmptySeq, LenProperties
  <1>2. \A i \in 1 .. Len(s) - 1 : s[i] \in S
    BY <1>1, ElementOfSeq
  <1> DEFINE n == Len(s) - 1
  <1>3. /\ SubSeq(s, 1, n) \in Seq(S)
        /\ Len(SubSeq(s, 1, n)) = n
        /\ \A i \in 1 .. n : SubSeq(s, 1, n)[i] = s[i]
    <2>1. n \in Nat
      BY <1>1
    <2> HIDE DEF n
    <2>2. /\ SubSeq(s, 1, n) \in Seq(S)
          /\ Len(SubSeq(s, 1, n)) = IF 1 <= n THEN n - 1 + 1 ELSE 0
          /\ \A i \in 1 .. n - 1 + 1 : SubSeq(s, 1, n)[i] = s[1 + i - 1]
      BY <1>2, <2>1, SubSeqProperties DEF n
    <2> QED BY <2>1, <2>2
  <1>4. Last(s) \in S /\ Last(s) = s[Len(s)]
    BY <1>1, ElementOfSeq DEF Last
  <1> QED BY <1>1, <1>3, <1>4 DEF Front

(* A live entity never makes the count outgrow the number of ids.          *)
LEMMA LiveIsSmall ==
  ASSUME NEW S \in SUBSET Ids
  PROVE  IsFiniteSet(S) /\ Cardinality(S) \in 0 .. MaxId
  <1>1. IsFiniteSet(Ids) /\ Cardinality(Ids) = MaxId
    BY FS_Interval, MaxIdAssumption DEF Ids
  <1>2. IsFiniteSet(S) /\ Cardinality(S) <= MaxId
    BY <1>1, FS_Subset
  <1> QED BY <1>2, FS_CardinalityType, MaxIdAssumption

LEMMA FrontRange ==
  ASSUME NEW S, NEW s \in Seq(S), s # << >>,
         \A i, j \in 1 .. Len(s) : s[i] = s[j] => i = j
  PROVE  /\ Range(Front(s)) = Range(s) \ {Last(s)}
         /\ Last(s) \in Range(s)
         /\ \A i, j \in 1 .. Len(Front(s)) : Front(s)[i] = Front(s)[j] => i = j
  <1>1. /\ DOMAIN s = 1 .. Len(s)
        /\ DOMAIN Front(s) = 1 .. Len(s) - 1
    BY FrontProperties, LenProperties
  <1> QED BY <1>1, FrontProperties DEF Range

LEMMA AppendRange ==
  ASSUME NEW S, NEW s \in Seq(S), NEW e \in S
  PROVE  /\ Append(s, e) \in Seq(S)
         /\ Range(Append(s, e)) = Range(s) \cup {e}
  <1>1. /\ Len(s) \in Nat
        /\ DOMAIN s = 1 .. Len(s)
        /\ DOMAIN Append(s, e) = 1 .. Len(s) + 1
    BY AppendProperties, LenProperties
  <1> QED BY <1>1, AppendProperties DEF Range

LEMMA AppendNoDuplicates ==
  ASSUME NEW S, NEW s \in Seq(S), NEW e \in S, e \notin Range(s),
         \A i, j \in 1 .. Len(s) : s[i] = s[j] => i = j
  PROVE  \A i, j \in 1 .. Len(Append(s, e)) :
            Append(s, e)[i] = Append(s, e)[j] => i = j
  <1>1. /\ Len(s) \in Nat
        /\ \A i \in 1 .. Len(s) : s[i] \in Range(s)
    BY LenProperties DEF Range
  <1> QED BY <1>1, AppendProperties
-----------------------------------------------------------------------------
(* Spawning keeps the invariant, and it acquires an id nobody holds.       *)
LEMMA SpawnStep ==
  ASSUME IInv, Spawn
  PROVE  IInv' /\ Allocator!Acquire
  <1> DEFINE id == spawned_id(reg)
  <1>0. /\ reg \in [next_id : 0 .. MaxId, free_ids : Seq(Ids),
                    alive_count : 0 .. MaxId, storage : Storages]
        /\ reg.next_id \in 0 .. MaxId
        /\ reg.free_ids \in Seq(Ids)
        /\ reg.alive_count \in 0 .. MaxId
        /\ reg.storage \in Storages
        /\ live \subseteq Ids
        /\ reg.alive_count = Cardinality(live)
    BY DEF IInv, TypeOK, AliveCountIsExact
  <1>1. /\ id \in Ids \ live
        /\ reg'.free_ids \in Seq(Ids)
        /\ reg'.next_id \in 0 .. MaxId
        /\ reg'.alive_count = reg.alive_count + 1
        /\ reg' \in [next_id : 0 .. MaxId, free_ids : Seq(Ids),
                     alive_count : Nat, storage : Storages]
        /\ Allocation'
    <2>1. CASE reg.free_ids # << >>
      <3>1. /\ id = Last(reg.free_ids)
            /\ reg' = [reg EXCEPT !.free_ids = Front(@), !.alive_count = @ + 1]
        BY <2>1 DEF Spawn, spawn_entity, spawned_id
      <3>2. /\ Range(Front(reg.free_ids)) = Range(reg.free_ids) \ {id}
            /\ id \in Range(reg.free_ids)
            /\ id \in Ids
            /\ Front(reg.free_ids) \in Seq(Ids)
        BY <1>0, <2>1, <3>1, FrontRange, FrontProperties
           DEF IInv, Allocation, FreeListHasNoDuplicates
      <3>3. /\ reg'.free_ids = Front(reg.free_ids)
            /\ reg'.next_id = reg.next_id
            /\ live' = live \cup {id}
        BY <3>1 DEF IInv, TypeOK, Spawn
      <3>4. FreeListHasNoDuplicates'
        BY <1>0, <2>1, <3>3, FrontRange
           DEF IInv, Allocation, FreeListHasNoDuplicates
      <3>5. id \notin live /\ FreeAndLivePartitionIds'
        BY <3>2, <3>3 DEF IInv, Allocation, FreeAndLivePartitionIds, FreeIds
      <3>6. reg' \in [next_id : 0 .. MaxId, free_ids : Seq(Ids),
                      alive_count : Nat, storage : Storages]
        <4>1. reg.alive_count + 1 \in Nat
          BY <1>0, MaxIdAssumption
        <4> HIDE DEF id
        <4> QED BY <1>0, <3>1, <3>2, <4>1
      <3>7. reg'.alive_count = reg.alive_count + 1
        BY <1>0, <3>1
      <3> QED BY <1>0, <3>2, <3>3, <3>4, <3>5, <3>6, <3>7 DEF Allocation
    <2>2. CASE reg.free_ids = << >>
      <3>1. /\ id = reg.next_id
            /\ reg.next_id < MaxId
            /\ reg' = [reg EXCEPT !.next_id = @ + 1, !.alive_count = @ + 1]
        BY <2>2 DEF Spawn, spawn_entity, spawned_id
      <3>2. /\ reg'.free_ids = << >>
            /\ reg'.next_id = reg.next_id + 1
            /\ live' = live \cup {id}
        BY <2>2, <3>1 DEF IInv, TypeOK, Spawn
      <3>3. /\ Range(<< >>) = {}
            /\ live = 0 .. reg.next_id - 1
        <4>1. Range(<< >>) = {}
          BY DEF Range
        <4> QED BY <2>2, <4>1 DEF IInv, Allocation, FreeAndLivePartitionIds, FreeIds
      <3>4. Allocation'
        BY <1>0, <3>1, <3>2, <3>3 DEF Allocation, FreeListHasNoDuplicates,
              FreeAndLivePartitionIds, FreeIds
      <3>5. id \in Ids \ live
        BY <1>0, <3>1, <3>3, MaxIdAssumption DEF Ids
      <3>6. reg' \in [next_id : 0 .. MaxId, free_ids : Seq(Ids),
                      alive_count : Nat, storage : Storages]
        <4>1. reg.alive_count + 1 \in Nat /\ reg.next_id + 1 \in 0 .. MaxId
          BY <1>0, <3>1, MaxIdAssumption
        <4> HIDE DEF id
        <4> QED BY <1>0, <3>1, <4>1
      <3>7. /\ reg'.alive_count = reg.alive_count + 1
            /\ reg'.free_ids \in Seq(Ids)
            /\ reg'.next_id \in 0 .. MaxId
        BY <1>0, <3>1, <3>6
      <3> QED BY <3>4, <3>5, <3>6, <3>7
    <2> QED BY <2>1, <2>2
  <1>2. live' = live \cup {id} /\ live' \in SUBSET Ids
    BY <1>0, <1>1 DEF Spawn
  <1>3. /\ Cardinality(live') = Cardinality(live) + 1
        /\ Cardinality(live') \in 0 .. MaxId
    <2>1. IsFiniteSet(live)
      BY <1>0, LiveIsSmall
    <2> QED BY <1>1, <1>2, <2>1, LiveIsSmall, FS_AddElement
  <1>4. TypeOK' /\ AliveCountIsExact'
    BY <1>0, <1>1, <1>2, <1>3 DEF TypeOK, AliveCountIsExact
  <1>5. OnlyLiveEntitiesHaveComponents'
    <2>1. reg'.storage = reg.storage
      BY <1>0 DEF Spawn, spawn_entity
    <2> QED BY <1>2, <2>1 DEF IInv, OnlyLiveEntitiesHaveComponents
  <1>6. Allocator!Acquire
    BY <1>1, <1>2 DEF Allocator!Acquire
  <1> QED BY <1>1, <1>4, <1>5, <1>6 DEF IInv

(* Killing a held entity keeps the invariant and releases its id.          *)
LEMMA KillStep ==
  ASSUME IInv, NEW e \in live, Kill(e)
  PROVE  IInv' /\ Allocator!Release
  <1>0. /\ reg \in RegistryType
        /\ reg.free_ids \in Seq(Ids)
        /\ reg.alive_count \in Nat
        /\ reg.storage \in Storages
        /\ live \subseteq Ids
        /\ e \in Ids
        /\ reg.alive_count = Cardinality(live)
    BY MaxIdAssumption DEF IInv, TypeOK, AliveCountIsExact, RegistryType
  <1>1. /\ IsFiniteSet(live)
        /\ live' = live \ {e}
        /\ live' \in SUBSET Ids
        /\ Cardinality(live') = Cardinality(live) - 1
        /\ Cardinality(live') \in 0 .. MaxId
    <2>1. IsFiniteSet(live)
      BY <1>0, LiveIsSmall
    <2>2. live' = live \ {e} /\ live' \in SUBSET Ids
      BY <1>0 DEF Kill
    <2> QED BY <2>1, <2>2, LiveIsSmall, FS_RemoveElement
  <1>2. reg.alive_count > 0
    BY <1>0, <1>1, MaxIdAssumption
  <1> DEFINE swept == [c \in DOMAIN reg.storage |-> erase(reg.storage[c], e)]
  <1>3. /\ swept \in Storages
        /\ \A c \in DOMAIN swept : DOMAIN swept[c] \subseteq live \ {e}
    <2>1. PICK C \in SUBSET Components : reg.storage \in [C -> HybridArrays]
      BY <1>0 DEF Storages
    <2>2. \A c \in C : /\ erase(reg.storage[c], e) \in HybridArrays
                       /\ DOMAIN erase(reg.storage[c], e) \subseteq live \ {e}
      <3> TAKE c \in C
      <3>0. reg.storage[c] \in HybridArrays
        BY <2>1
      <3>1. PICK S \in SUBSET Ids : reg.storage[c] \in [S -> Values]
        BY <3>0 DEF HybridArrays
      <3>2. erase(reg.storage[c], e) \in [S \ {e} -> Values]
        BY <3>1 DEF erase, Restrict
      <3>3. S \ {e} \in SUBSET Ids /\ S \subseteq live
        BY <2>1, <3>1 DEF IInv, OnlyLiveEntitiesHaveComponents
      <3> QED BY <3>2, <3>3 DEF HybridArrays
    <2>3. swept \in [C -> HybridArrays] /\ DOMAIN swept = C
      BY <2>1, <2>2
    <2> QED BY <2>1, <2>2, <2>3 DEF Storages
  <1> HIDE DEF swept
  <1>4. reg' = [reg EXCEPT !.storage     = swept,
                           !.free_ids    = Append(reg.free_ids, e),
                           !.alive_count = reg.alive_count - 1]
    BY <1>0, <1>2 DEF Kill, kill_entity, swept, RegistryType
  <1>5. /\ reg' \in RegistryType
        /\ reg'.free_ids = Append(reg.free_ids, e)
        /\ reg'.alive_count = reg.alive_count - 1
        /\ reg'.next_id = reg.next_id
        /\ reg'.storage = swept
    <2>1. reg.alive_count - 1 \in Nat
      BY <1>0, <1>2
    <2>2. Append(reg.free_ids, e) \in Seq(Ids)
      BY <1>0, AppendRange
    <2> QED BY <1>0, <1>3, <1>4, <2>1, <2>2 DEF RegistryType
  <1>6. e \notin Range(reg.free_ids)
    BY DEF IInv, Allocation, FreeAndLivePartitionIds, FreeIds
  <1>7. FreeListHasNoDuplicates'
    <2>1. \A i, j \in 1 .. Len(reg.free_ids) :
              reg.free_ids[i] = reg.free_ids[j] => i = j
      BY DEF IInv, Allocation, FreeListHasNoDuplicates
    <2>2. \A i, j \in 1 .. Len(Append(reg.free_ids, e)) :
              Append(reg.free_ids, e)[i] = Append(reg.free_ids, e)[j] => i = j
      BY <1>0, <1>6, <2>1, AppendNoDuplicates
    <2> QED BY <1>5, <2>2 DEF FreeListHasNoDuplicates
  <1>8. FreeAndLivePartitionIds'
    BY <1>0, <1>1, <1>5, AppendRange
       DEF IInv, Allocation, FreeAndLivePartitionIds, FreeIds
  <1>9. TypeOK' /\ AliveCountIsExact'
    BY <1>0, <1>1, <1>5 DEF TypeOK, AliveCountIsExact, RegistryType
  <1>10. OnlyLiveEntitiesHaveComponents'
    BY <1>1, <1>3, <1>5 DEF OnlyLiveEntitiesHaveComponents
  <1>11. Allocator!Release
    BY <1>1, <1>5 DEF Allocator!Release
  <1> QED BY <1>7, <1>8, <1>9, <1>10, <1>11 DEF IInv, Allocation

(* Whatever only changes the component arrays, and leaves components on    *)
(* live entities only, keeps the invariant and is invisible to the         *)
(* allocator.                                                              *)
LEMMA StorageStep ==
  ASSUME IInv, NEW st \in Storages,
         \A c \in DOMAIN st : DOMAIN st[c] \subseteq live,
         reg' = [reg EXCEPT !.storage = st], UNCHANGED live
  PROVE  IInv' /\ UNCHANGED Allocator!vars
  <1>1. /\ reg' \in [next_id : 0 .. MaxId, free_ids : Seq(Ids),
                     alive_count : 0 .. MaxId, storage : Storages]
        /\ reg'.free_ids = reg.free_ids
        /\ reg'.next_id = reg.next_id
        /\ reg'.alive_count = reg.alive_count
        /\ reg'.storage = st
    BY DEF IInv, TypeOK
  <1>2. TypeOK' /\ AliveCountIsExact' /\ OnlyLiveEntitiesHaveComponents'
    BY <1>1 DEF IInv, TypeOK, AliveCountIsExact, OnlyLiveEntitiesHaveComponents
  <1>3. Allocation'
    BY <1>1 DEF IInv, Allocation, FreeListHasNoDuplicates,
                FreeAndLivePartitionIds, FreeIds
  <1> QED BY <1>1, <1>2, <1>3 DEF IInv, Allocator!vars

(* Registering a component type adds at most an empty array.               *)
LEMMA RegisterStorage ==
  ASSUME NEW st \in Storages, NEW c \in Components, NEW L,
         \A d \in DOMAIN st : DOMAIN st[d] \subseteq L
  PROVE  LET new == IF c \in DOMAIN st THEN st ELSE insert_at(st, c, << >>)
         IN  /\ new \in Storages
             /\ c \in DOMAIN new
             /\ \A d \in DOMAIN new : DOMAIN new[d] \subseteq L
  <1>1. PICK C \in SUBSET Components : st \in [C -> HybridArrays]
    BY DEF Storages
  <1>2. << >> \in HybridArrays /\ DOMAIN << >> = {}
    <2>1. << >> \in [{} -> Values]
      OBVIOUS
    <2> QED BY <2>1 DEF HybridArrays
  <1>3. /\ insert_at(st, c, << >>) \in [C \cup {c} -> HybridArrays]
        /\ \A d \in C \cup {c} :
              insert_at(st, c, << >>)[d] = IF d = c THEN << >> ELSE st[d]
    BY <1>1, <1>2 DEF insert_at
  <1>4. C \cup {c} \in SUBSET Components
    OBVIOUS
  <1> QED BY <1>1, <1>2, <1>3, <1>4 DEF Storages

LEMMA RegisterStep ==
  ASSUME IInv, NEW c \in Components, Register(c)
  PROVE  IInv' /\ UNCHANGED Allocator!vars
  <1> DEFINE new == IF c \in DOMAIN reg.storage
                    THEN reg.storage ELSE insert_at(reg.storage, c, << >>)
  <1>1. new \in Storages /\ \A d \in DOMAIN new : DOMAIN new[d] \subseteq live
    BY RegisterStorage DEF IInv, TypeOK, OnlyLiveEntitiesHaveComponents
  <1>2. reg' = [reg EXCEPT !.storage = new] /\ UNCHANGED live
    BY DEF Register, register_component
  <1> QED BY <1>1, <1>2, StorageStep

LEMMA AttachStep ==
  ASSUME IInv, NEW e \in live, NEW c \in Components, NEW comp \in Values, Attach(c, e, comp)
  PROVE  IInv' /\ UNCHANGED Allocator!vars
  <1> DEFINE old == IF c \in DOMAIN reg.storage
                    THEN reg.storage ELSE insert_at(reg.storage, c, << >>)
             new == [old EXCEPT ![c] = insert_at(@, e, comp)]
  <1>1. /\ old \in Storages
        /\ c \in DOMAIN old
        /\ \A d \in DOMAIN old : DOMAIN old[d] \subseteq live
    BY RegisterStorage DEF IInv, TypeOK, OnlyLiveEntitiesHaveComponents
  <1>2. reg' = [reg EXCEPT !.storage = new] /\ UNCHANGED live
    BY DEF Attach, add_component, register_component, IInv, TypeOK
  <1> HIDE DEF old
  <1>3. new \in Storages /\ \A d \in DOMAIN new : DOMAIN new[d] \subseteq live
    <2>1. PICK C \in SUBSET Components : old \in [C -> HybridArrays]
      BY <1>1 DEF Storages
    <2>2. PICK S \in SUBSET Ids : old[c] \in [S -> Values]
      BY <1>1, <2>1 DEF HybridArrays
    <2>3. /\ insert_at(old[c], e, comp) \in [S \cup {e} -> Values]
          /\ S \cup {e} \in SUBSET Ids
          /\ S \cup {e} \subseteq live
      BY <1>1, <2>2 DEF insert_at, IInv, TypeOK
    <2>4. insert_at(old[c], e, comp) \in HybridArrays
      BY <2>3 DEF HybridArrays
    <2>5. /\ new \in [C -> HybridArrays]
          /\ \A d \in C : DOMAIN new[d] \subseteq live
      BY <1>1, <2>1, <2>3, <2>4
    <2> QED BY <2>1, <2>5 DEF Storages
  <1> QED BY <1>2, <1>3, StorageStep

LEMMA DetachStep ==
  ASSUME IInv, NEW e \in live, NEW c \in Components, Detach(c, e)
  PROVE  IInv' /\ UNCHANGED Allocator!vars
  <1> DEFINE new == IF c \in DOMAIN reg.storage
                    THEN [reg.storage EXCEPT ![c] = erase(@, e)]
                    ELSE reg.storage
  <1>1. /\ reg.storage \in Storages
        /\ \A d \in DOMAIN reg.storage : DOMAIN reg.storage[d] \subseteq live
    BY DEF IInv, TypeOK, OnlyLiveEntitiesHaveComponents
  <1>2. reg' = [reg EXCEPT !.storage = new] /\ UNCHANGED live
    BY DEF Detach, remove_component, IInv, TypeOK
  <1>3. new \in Storages /\ \A d \in DOMAIN new : DOMAIN new[d] \subseteq live
    <2>1. CASE c \in DOMAIN reg.storage
      <3>1. PICK C \in SUBSET Components : reg.storage \in [C -> HybridArrays]
        BY <1>1 DEF Storages
      <3>2. PICK S \in SUBSET Ids : reg.storage[c] \in [S -> Values]
        <4>1. reg.storage[c] \in HybridArrays
          BY <2>1, <3>1
        <4> QED BY <4>1 DEF HybridArrays
      <3>3. erase(reg.storage[c], e) \in [S \ {e} -> Values]
        BY <3>2 DEF erase, Restrict
      <3>4. erase(reg.storage[c], e) \in HybridArrays
        BY <3>3 DEF HybridArrays
      <3>5. /\ new \in [C -> HybridArrays]
            /\ \A d \in C : DOMAIN new[d] \subseteq live
        BY <1>1, <2>1, <3>1, <3>2, <3>3, <3>4
      <3> QED BY <3>1, <3>5 DEF Storages
    <2> QED BY <1>1, <2>1
  <1> QED BY <1>2, <1>3, StorageStep

LEMMA InitInvariant == Init => IInv /\ Allocator!Init
  <1> SUFFICES ASSUME Init PROVE IInv /\ Allocator!Init
    OBVIOUS
  <1>1. << >> \in Storages
    <2>1. << >> \in [{} -> HybridArrays]
      OBVIOUS
    <2> QED BY <2>1 DEF Storages
  <1>2. /\ TypeOK
        /\ reg.free_ids = << >> /\ reg.next_id = 0 /\ reg.alive_count = 0
        /\ DOMAIN reg.storage = {} /\ live = {}
    BY <1>1, MaxIdAssumption DEF Init, EmptyRegistry, TypeOK
  <1>3. Range(<< >>) = {}
    BY DEF Range
  <1> QED BY <1>2, <1>3, FS_EmptySet
          DEF IInv, Allocation, FreeListHasNoDuplicates, FreeAndLivePartitionIds,
              FreeIds, AliveCountIsExact, OnlyLiveEntitiesHaveComponents,
              Allocator!Init

(* One step: the invariant is kept, and the allocator acquires, releases   *)
(* or stutters.                                                            *)
LEMMA StepInvariant ==
  ASSUME IInv, [Next]_vars
  PROVE  IInv' /\ [Allocator!Next]_(Allocator!vars)
  <1>1. CASE Spawn
    BY <1>1, SpawnStep DEF Allocator!Next
  <1>2. ASSUME NEW c \in Components, Register(c)
        PROVE  IInv' /\ [Allocator!Next]_(Allocator!vars)
    BY <1>2, RegisterStep
  <1>3. ASSUME NEW e \in live, Kill(e)
        PROVE  IInv' /\ [Allocator!Next]_(Allocator!vars)
    BY <1>3, KillStep DEF Allocator!Next
  <1>4. ASSUME NEW e \in live, NEW c \in Components, NEW comp \in Values, Attach(c, e, comp)
        PROVE  IInv' /\ [Allocator!Next]_(Allocator!vars)
    BY <1>4, AttachStep
  <1>5. ASSUME NEW e \in live, NEW c \in Components, Detach(c, e)
        PROVE  IInv' /\ [Allocator!Next]_(Allocator!vars)
    BY <1>5, DetachStep
  <1>6. CASE UNCHANGED vars
    BY <1>6 DEF vars, IInv, TypeOK, Allocation, FreeListHasNoDuplicates,
                FreeAndLivePartitionIds, FreeIds, AliveCountIsExact,
                OnlyLiveEntitiesHaveComponents, Allocator!vars
  <1> QED BY <1>1, <1>2, <1>3, <1>4, <1>5, <1>6 DEF Next
-----------------------------------------------------------------------------
(* The inductive invariant holds of every behaviour of the registry.       *)
THEOREM Invariance == Spec => []IInv
  <1>1. IInv /\ [Next]_vars => IInv'
    BY StepInvariant
  <1> QED BY InitInvariant, <1>1, PTL DEF Spec

(* The fields keep their types whatever the callers do (Registry.hpp).     *)
THEOREM TypeCorrect == Spec => []TypeOK
  BY Invariance, PTL DEF IInv

(* No id waits twice in the free list, and every id ever created is either *)
(* held or waiting (spawn_entity, kill_entity).                            *)
THEOREM FreeListSound ==
  Spec => [](FreeListHasNoDuplicates /\ FreeAndLivePartitionIds)
  BY Invariance, PTL DEF IInv, Allocation

(* _alive_count is the number of entities in use.                          *)
THEOREM CountExact == Spec => []AliveCountIsExact
  BY Invariance, PTL DEF IInv

(* A reused id never inherits a component (kill_entity, remove_component). *)
THEOREM NoInheritedComponents == Spec => []OnlyLiveEntitiesHaveComponents
  BY Invariance, PTL DEF IInv

(* The registry implements the allocator its users rely on.                *)
THEOREM Refinement == Spec => AllocatorSpec
  <1>1. Init => Allocator!Init
    BY InitInvariant
  <1>2. IInv /\ [Next]_vars => [Allocator!Next]_(Allocator!vars)
    BY StepInvariant
  <1> QED BY <1>1, <1>2, Invariance, PTL DEF Spec, AllocatorSpec, Allocator!Spec
=============================================================================

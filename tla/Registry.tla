------------------------------ MODULE Registry ------------------------------
(***************************************************************************)
(* The registry driven by a caller that spawns entities, gives them        *)
(* components and kills the entities it holds.  GameServer is such a       *)
(* caller: it kills an entity only while one of its containers holds it    *)
(* (module GameWorld checks that), which is what kill_entity() needs,      *)
(* because it does not look whether its argument is alive.                 *)
(***************************************************************************)
EXTENDS EntityRegistry, FiniteSets

CONSTANTS Components,   \* component types
          Values,       \* values of components
          MaxId         \* bound: ids 0 .. MaxId - 1 are ever created

ASSUME MaxIdAssumption == MaxId \in Nat

VARIABLES reg,          \* the registry
          live          \* the entities spawned and not yet killed

vars == << reg, live >>

Ids == 0 .. MaxId - 1

Init == reg = EmptyRegistry /\ live = {}

Register(c) == /\ reg' = register_component(reg, c)
               /\ UNCHANGED live

Spawn == /\ reg.free_ids # << >> \/ reg.next_id < MaxId
         /\ reg' = spawn_entity(reg)
         /\ live' = live \cup {spawned_id(reg)}

Attach(c, e, comp) == /\ reg' = add_component(reg, c, e, comp)
                      /\ UNCHANGED live

Detach(c, e) == /\ reg' = remove_component(reg, c, e)
                /\ UNCHANGED live

Kill(e) == /\ reg' = kill_entity(reg, e)
           /\ live' = live \ {e}

Next == \/ Spawn
        \/ \E c \in Components : Register(c)
        \/ \E e \in live : Kill(e)
        \/ \E e \in live, c \in Components :
              Detach(c, e) \/ \E comp \in Values : Attach(c, e, comp)

Spec == Init /\ [][Next]_vars
-----------------------------------------------------------------------------
FreeIds == Range(reg.free_ids)

(* A component array over any set of ids; one array per registered type.   *)
HybridArrays == UNION {[S -> Values] : S \in SUBSET Ids}
Storages     == UNION {[C -> HybridArrays] : C \in SUBSET Components}

(* The types of the registry's fields (Registry.hpp:180-186).              *)
TypeOK ==
    /\ reg \in [next_id : 0 .. MaxId, free_ids : Seq(Ids),
               alive_count : 0 .. MaxId, storage : Storages]
    /\ live \subseteq Ids

(* No id waits twice in the free list: if it did, two later calls of       *)
(* spawn_entity() would return the same entity (Registry.hpp:92-114).      *)
FreeListHasNoDuplicates ==
    \A i, j \in 1 .. Len(reg.free_ids) :
        reg.free_ids[i] = reg.free_ids[j] => i = j

(* Every id ever created is either held by a caller or waiting in the free *)
(* list, never both and never lost.                                        *)
FreeAndLivePartitionIds ==
    /\ FreeIds \cap live = {}
    /\ FreeIds \cup live = 0 .. reg.next_id - 1

(* The registry's own counter agrees with what the callers hold; the guard *)
(* "if (_alive_count > 0)" of kill_entity() is never what keeps it right.  *)
AliveCountIsExact == reg.alive_count = Cardinality(live)

(* Only live entities have components, so an entity that reuses an id      *)
(* never inherits a component of the id's previous owner.  It rests on     *)
(* register_component() installing the erase callback together with the    *)
(* storage (Registry.hpp:46-49).                                           *)
OnlyLiveEntitiesHaveComponents ==
    \A c \in DOMAIN reg.storage : DOMAIN reg.storage[c] \subseteq live

(* The registry is an identifier allocator: it hands out only ids nobody   *)
(* holds, counting each of them.                                           *)
Allocator == INSTANCE IdAllocator WITH held <- live, count <- reg.alive_count

AllocatorSpec == Allocator!Spec
=============================================================================

------------------------------ MODULE WorldRace ------------------------------
(***************************************************************************)
(* The creation of an entity, one memory access at a time, in the two      *)
(* threads that create and announce entities without a lock: the thread of *)
(* io_context (spawnBullet) and the game thread (spawnEnemy).              *)
(* Accesses of _next_id and _nextNetworkId, which are plain integers, take *)
(* effect in any order of the threads; an increment is a load and a store. *)
(* Only ids that were never used are modelled (the free list is a vector,  *)
(* and what two unsynchronised pop_back() do to it has no bound).          *)
(***************************************************************************)
EXTENDS Naturals

CONSTANTS Threads,      \* the two threads
          MaxCreations  \* bound: entities each of them creates

VARIABLES next_id,        \* registry::_next_id
          nextNetworkId,  \* GameServer::_nextNetworkId
          pc,             \* the next access of each thread
          loaded,         \* the value each thread loaded last
          entity,         \* the id of the entity each thread is creating
          created,        \* entities each thread has created
          networkId,      \* the NetworkId component of each entity
          spawnsSent      \* networkId of each ENTITY_SPAWN, by thread and number

vars == << next_id, nextNetworkId, pc, loaded, entity, created, networkId, spawnsSent >>

Init ==
    /\ next_id = 0
    /\ nextNetworkId = 1
    /\ pc = [t \in Threads |-> "load id"]
    /\ loaded = [t \in Threads |-> 0]
    /\ entity = [t \in Threads |-> 0]
    /\ created = [t \in Threads |-> 0]
    /\ networkId = [e \in {} |-> 0]
    /\ spawnsSent = [s \in {} |-> 0]

Goto(t, from, to) == pc[t] = from /\ pc' = [pc EXCEPT ![t] = to]

(* size_t id = _next_id++                                                  *)
LoadId(t) ==
    /\ Goto(t, "load id", "store id")
    /\ created[t] < MaxCreations
    /\ loaded' = [loaded EXCEPT ![t] = next_id]
    /\ UNCHANGED << next_id, nextNetworkId, entity, created, networkId, spawnsSent >>

StoreId(t) ==
    /\ Goto(t, "store id", "load network id")
    /\ next_id' = loaded[t] + 1
    /\ entity' = [entity EXCEPT ![t] = loaded[t]]
    /\ UNCHANGED << nextNetworkId, loaded, created, networkId, spawnsSent >>

(* add_component<NetworkId>(entity, NetworkId{_nextNetworkId++})           *)
LoadNetworkId(t) ==
    /\ Goto(t, "load network id", "store network id")
    /\ loaded' = [loaded EXCEPT ![t] = nextNetworkId]
    /\ UNCHANGED << next_id, nextNetworkId, entity, created, networkId, spawnsSent >>

StoreNetworkId(t) ==
    /\ Goto(t, "store network id", "send")
    /\ nextNetworkId' = loaded[t] + 1
    /\ networkId' = [e \in DOMAIN networkId \cup {entity[t]} |->
                        IF e = entity[t] THEN loaded[t] ELSE networkId[e]]
    /\ UNCHANGED << next_id, loaded, entity, created, spawnsSent >>

(* spawnPayload.networkId = _nextNetworkId - 1                             *)
SendSpawn(t) ==
    /\ Goto(t, "send", "load id")
    /\ created' = [created EXCEPT ![t] = @ + 1]
    /\ spawnsSent' = [s \in DOMAIN spawnsSent \cup {<< t, created[t] >>} |->
                         IF s = << t, created[t] >> THEN nextNetworkId - 1 ELSE spawnsSent[s]]
    /\ UNCHANGED << next_id, nextNetworkId, loaded, entity, networkId >>

Next == \E t \in Threads : \/ LoadId(t) \/ StoreId(t)
                           \/ LoadNetworkId(t) \/ StoreNetworkId(t)
                           \/ SendSpawn(t)

Spec == Init /\ [][Next]_vars
-----------------------------------------------------------------------------
(* Every ENTITY_SPAWN is sent for an entity of its own ("ID réseau unique",*)
(* Protocol.hpp:82): no two of them carry the same network id.             *)
SpawnIdsUnique ==
    \A r, s \in DOMAIN spawnsSent : spawnsSent[r] = spawnsSent[s] => r = s
=============================================================================

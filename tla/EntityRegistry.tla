--------------------------- MODULE EntityRegistry ---------------------------
(***************************************************************************)
(* The ECS registry (include/Registry.hpp) as operators on a record:       *)
(*   next_id      the next never-used entity id                            *)
(*   free_ids     ids of killed entities, reused last in, first out        *)
(*   alive_count  the registry's own count of live entities                *)
(*   storage      one HybridArray per registered component type            *)
(* A HybridArray (include/HybridArray.hpp) is a partial function from      *)
(* entity ids to components: its domain is the set of slots of _sparse     *)
(* that hold a value.  Its capacity is left out: get() and get_ref() give  *)
(* "no component" on both sides of it.                                     *)
(* An operator X_... is a mutated form of X: a bug the properties must be  *)
(* able to see.                                                            *)
(***************************************************************************)
EXTENDS Naturals, SequencesExt

insert_at(arr, id, comp) ==
    [i \in DOMAIN arr \cup {id} |-> IF i = id THEN comp ELSE arr[i]]

erase_Skipped(arr, id) == arr
erase(arr, id) == Restrict(arr, DOMAIN arr \ {id})

EmptyRegistry ==
    [next_id |-> 0, free_ids |-> << >>, alive_count |-> 0, storage |-> << >>]

register_component(r, c) ==
    [r EXCEPT !.storage = IF c \in DOMAIN @ THEN @ ELSE insert_at(@, c, << >>)]

(* The id the next spawn_entity() returns.                                 *)
spawned_id(r) ==
    IF r.free_ids # << >> THEN Last(r.free_ids) ELSE r.next_id

spawn_entity_KeepsFreeId(r) ==
    IF r.free_ids # << >>
    THEN [r EXCEPT !.alive_count = @ + 1]
    ELSE [r EXCEPT !.next_id = @ + 1, !.alive_count = @ + 1]
spawn_entity_FirstCountedLate(r) ==
    IF r.free_ids # << >>
    THEN [r EXCEPT !.free_ids = Front(@), !.alive_count = @ + 1]
    ELSE [r EXCEPT !.next_id = @ + 1]
spawn_entity(r) ==
    IF r.free_ids # << >>
    THEN [r EXCEPT !.free_ids = Front(@), !.alive_count = @ + 1]
    ELSE [r EXCEPT !.next_id = @ + 1, !.alive_count = @ + 1]

add_component(r, c, e, comp) ==
    [register_component(r, c) EXCEPT !.storage[c] = insert_at(@, e, comp)]

remove_component(r, c, e) ==
    IF c \in DOMAIN r.storage
    THEN [r EXCEPT !.storage[c] = erase(@, e)]
    ELSE r

kill_entity_CountKept(r, e) ==
    [r EXCEPT !.storage  = [c \in DOMAIN @ |-> erase(@[c], e)],
              !.free_ids = Append(@, e)]
kill_entity_IdLost(r, e) ==
    [r EXCEPT !.storage     = [c \in DOMAIN @ |-> erase(@[c], e)],
              !.alive_count = IF @ > 0 THEN @ - 1 ELSE 0]
kill_entity(r, e) ==
    [r EXCEPT !.storage     = [c \in DOMAIN @ |-> erase(@[c], e)],
              !.free_ids    = Append(@, e),
              !.alive_count = IF @ > 0 THEN @ - 1 ELSE 0]
=============================================================================

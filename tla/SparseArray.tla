----------------------------- MODULE SparseArray -----------------------------
(***************************************************************************)
(* sparse_array (include/SparseArray.hpp): a vector of optionals, here a   *)
(* sequence; the component of entity id is its element id + 1.             *)
(***************************************************************************)
EXTENDS Naturals, Sequences

nullopt == "nullopt"

resize(s, newsize) ==
    [i \in 1 .. newsize |-> IF i <= Len(s) THEN s[i] ELSE nullopt]

grow(s, newsize) == IF Len(s) < newsize THEN resize(s, newsize) ELSE s

get(s, id) == IF id >= Len(s) THEN nullopt ELSE s[id + 1]

get_ref(s, id) == grow(s, id + 1)

insert_at(s, id, comp) == [grow(s, id + 1) EXCEPT ![id + 1] = comp]

erase(s, id) == IF id < Len(s) THEN [s EXCEPT ![id + 1] = nullopt] ELSE s
=============================================================================

----------------------------- MODULE HybridArray -----------------------------
(***************************************************************************)
(* HybridArray (include/HybridArray.hpp), the storage the registry uses: a *)
(* vector of optionals with a count of those that hold a component.        *)
(* An operator X_... is a mutated form of X.                               *)
(***************************************************************************)
EXTENDS Naturals, Sequences

Sparse == INSTANCE SparseArray

EmptyArray == [sparse |-> << >>, count |-> 0]

get(a, id) == Sparse!get(a.sparse, id)
has(a, id) == id < Len(a.sparse) /\ a.sparse[id + 1] # Sparse!nullopt

get_ref(a, id) == [a EXCEPT !.sparse = Sparse!get_ref(@, id)]

insert_at_CountsAgain(a, id, comp) ==
    [sparse |-> Sparse!insert_at(a.sparse, id, comp), count |-> a.count + 1]
insert_at(a, id, comp) ==
    [sparse |-> Sparse!insert_at(a.sparse, id, comp),
     count  |-> IF has(a, id) THEN a.count ELSE a.count + 1]

erase(a, id) ==
    IF has(a, id)
    THEN [sparse |-> Sparse!erase(a.sparse, id), count |-> a.count - 1]
    ELSE a
=============================================================================

--------------------------- MODULE RegistryArrays ---------------------------
(***************************************************************************)
(* The registry with its component arrays as they are in memory.  Each     *)
(* component type has a HybridArray, which the registry uses, and is       *)
(* kept as well in the two other arrays of the repository with the same    *)
(* purpose, a sparse_array and a PackedArray.  Next to the caller that     *)
(* creates and kills entities there is a system that walks over the        *)
(* entities with all components (indexed_zipper); its body may call the    *)
(* registry, so the two steps interleave.                                  *)
(***************************************************************************)
EXTENDS Registry

Sparse == INSTANCE SparseArray
Hybrid == INSTANCE HybridArray
Packed == INSTANCE PackedArray
Zipper == INSTANCE Zipper

ASSUME NulloptAssumption == Sparse!nullopt \notin Values

(* A walk over no array at all is not an indexed_zipper.                   *)
ASSUME ComponentsAssumption == Components # {}

VARIABLES arrays,       \* component type -> its three arrays
          loop          \* the walk: its next index, its end, and as history
                        \* the entities it has seen, those that had all the
                        \* components at some time and those that always had

arrayVars == << vars, arrays, loop >>

EmptyArrays == [hybrid |-> Hybrid!EmptyArray, plain |-> << >>, packed |-> Packed!EmptyArray]

Arrays(c) == IF c \in DOMAIN arrays THEN arrays[c] ELSE EmptyArrays

Inserted(a, e, comp) == [hybrid |-> Hybrid!insert_at(a.hybrid, e, comp),
                         plain  |-> Sparse!insert_at(a.plain, e, comp),
                         packed |-> Packed!insert(a.packed, e, comp)]

Erased(a, e) == [hybrid |-> Hybrid!erase(a.hybrid, e),
                 plain  |-> Sparse!erase(a.plain, e),
                 packed |-> Packed!erase(a.packed, e)]

(* get_ref: what handlers use to read a component grows the array.         *)
Touched(a, e) == [a EXCEPT !.hybrid = Hybrid!get_ref(@, e), !.plain = Sparse!get_ref(@, e)]

(* The entities that have a component of every type.                       *)
Joined == {e \in live : \A c \in Components :
              c \in DOMAIN reg.storage /\ e \in DOMAIN reg.storage[c]}

HybridsOf == {arrays[c].hybrid : c \in Components}

ArraysInit == Init /\ arrays = << >>
              /\ loop = [idx |-> 0, max |-> 0, seen |-> {}, joined |-> {}, stayed |-> {}]

Walking == loop.idx < loop.max

(* What the walk's history makes of a step of the caller.                  *)
Witness == loop' = IF Walking
                   THEN [loop EXCEPT !.joined = @ \cup Joined', !.stayed = @ \cap Joined']
                   ELSE loop

RegisterArrays(c) == /\ Register(c)
                     /\ arrays' = insert_at(arrays, c, Arrays(c))

SpawnOnly == Spawn /\ UNCHANGED arrays

AttachInArrays(c, e, comp) == /\ Attach(c, e, comp)
                              /\ arrays' = insert_at(arrays, c, Inserted(Arrays(c), e, comp))

DetachInArrays(c, e) == /\ Detach(c, e)
                        /\ arrays' = [d \in DOMAIN arrays |->
                              IF d = c THEN Erased(arrays[d], e) ELSE arrays[d]]

KillInArrays(e) == /\ Kill(e)
                   /\ arrays' = [d \in DOMAIN arrays |-> Erased(arrays[d], e)]

Touch(c, e) == /\ c \in DOMAIN arrays
               /\ arrays' = [arrays EXCEPT ![c] = Touched(@, e)]
               /\ UNCHANGED vars

Caller == \/ SpawnOnly
          \/ \E c \in Components : RegisterArrays(c)
          \/ \E e \in live : KillInArrays(e)
          \/ \E e \in Ids, c \in Components : Touch(c, e)
          \/ \E e \in live, c \in Components :
                DetachInArrays(c, e) \/ \E comp \in Values : AttachInArrays(c, e, comp)

(* The loop's head: the iterator has moved to idx; there the body begins.  *)
At(idx, max, w) ==
    loop' = [idx |-> idx, max |-> max, joined |-> w.joined, stayed |-> w.stayed,
             seen |-> IF idx < max THEN w.seen \cup {idx} ELSE w.seen]

WalkBegins == /\ ~Walking
              /\ DOMAIN arrays = Components
              /\ At(Zipper!begin(HybridsOf), Zipper!size(HybridsOf),
                    [seen |-> {}, joined |-> Joined, stayed |-> Joined])
              /\ UNCHANGED << vars, arrays >>

WalkMoves == /\ Walking
             /\ At(Zipper!next(HybridsOf, loop.max, loop.idx), loop.max, loop)
             /\ UNCHANGED << vars, arrays >>

ArraysNext == (Caller /\ Witness) \/ WalkBegins \/ WalkMoves

ArraysSpec == ArraysInit /\ [][ArraysNext]_arrayVars
-----------------------------------------------------------------------------
(* A HybridArray and a sparse_array give, for any id within or beyond      *)
(* their size, the component the entity has; the HybridArray's count is    *)
(* that of its components (HybridArray.hpp:55-107).                        *)
HoldsSparsely(a, contents) ==
    /\ \A e \in Ids : LET comp == IF e \in DOMAIN contents THEN contents[e] ELSE Sparse!nullopt
                      IN  Hybrid!get(a.hybrid, e) = comp /\ Sparse!get(a.plain, e) = comp
    /\ a.hybrid.count = Cardinality(DOMAIN contents)

SparseHoldsStorage ==
    /\ DOMAIN arrays = DOMAIN reg.storage
    /\ \A c \in DOMAIN arrays : HoldsSparsely(arrays[c], reg.storage[c])

(* A PackedArray holds the components of exactly the entities that have    *)
(* one, each at the place its map says, after any sequence of inserts and  *)
(* swap-removes (PackedArray.hpp:18-76).                                   *)
HoldsDensely(p, contents) ==
    /\ DOMAIN p.index_map = DOMAIN contents
    /\ Len(p.entities) = Len(p.components)
    /\ \A e \in DOMAIN contents :
          /\ p.index_map[e] \in 0 .. Len(p.entities) - 1
          /\ p.entities[p.index_map[e] + 1] = e
          /\ p.components[p.index_map[e] + 1] = contents[e]
    /\ \A i \in 1 .. Len(p.entities) :
          p.entities[i] \in DOMAIN contents /\ p.index_map[p.entities[i]] = i - 1

PackedHoldsStorage ==
    /\ DOMAIN arrays = DOMAIN reg.storage
    /\ \A c \in DOMAIN arrays : HoldsDensely(arrays[c].packed, reg.storage[c])

(* A system that walks over entities while its body creates, changes and   *)
(* kills some visits every entity that has all the components from the     *)
(* beginning of the loop to its end, and none that never has them during   *)
(* the loop (Zipper.hpp:27-34, 55-58, 69-88).                              *)
WalkVisitsWhatStays ==
    /\ ~Walking => loop.stayed \subseteq loop.seen
    /\ loop.seen \subseteq loop.joined
=============================================================================

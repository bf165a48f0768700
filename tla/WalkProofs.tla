---------------------------- MODULE WalkProofs ----------------------------
(***************************************************************************)
(* A walk by indexed_zipper over entities that its own body creates,       *)
(* changes and kills. The invariant WalkInv says how far the walk has      *)
(* seen; that the iterator stops at the next entity in order needs the     *)
(* least element of a set of numbers, which well-foundedness of < gives.   *)
(***************************************************************************)
EXTENDS RegistryArraysProofs, WellFoundedInduction

(* A set of natural numbers that is not empty has a least element.         *)
LEMMA MinExists ==
  ASSUME NEW S \in SUBSET Nat, S # {}
  PROVE  Min(S) \in S /\ \A y \in S : Min(S) <= y
  <1> DEFINE R == OpToRel(<, Nat)
  <1>0. IsWellFoundedOn(R, Nat) /\ \A x, y \in Nat : y < x => <<y, x>> \in R
    BY NatLessThanWellFounded DEF OpToRel
  <1> HIDE DEF R
  <1>1. PICK x \in S : \A y \in S : ~(<<y, x>> \in R)
    BY <1>0, WFMin
  <1>2. ASSUME NEW y \in S PROVE x <= y
    <2>1. x \in Nat /\ y \in Nat
      OBVIOUS
    <2>2. ~(y < x)
      BY <1>0, <1>1, <2>1
    <2> QED BY <2>1, <2>2
  <1>3. \E z \in S : \A y \in S : z =< y
    BY <1>2
  <1> QED BY <1>3 DEF Min

(* A bounded one has a greatest element.                                   *)
LEMMA MaxExists ==
  ASSUME NEW S \in SUBSET Nat, S # {}, NEW b \in Nat, \A x \in S : x <= b
  PROVE  Max(S) \in S /\ \A y \in S : Max(S) >= y
  <1> DEFINE T == {b - x : x \in S}
  <1>1. T \in SUBSET Nat /\ T # {}
    <2>1. \A x \in S : b - x \in Nat
      OBVIOUS
    <2> QED BY <2>1
  <1>2. PICK x \in S : Min(T) = b - x
    BY <1>1, MinExists
  <1>3. ASSUME NEW y \in S PROVE x >= y
    <2>1. b - x <= b - y
      BY <1>1, <1>2, MinExists
    <2> QED BY <2>1
  <1> QED BY <1>3 DEF Max

(* The iterator stops at the first index, from idx on, at which every      *)
(* array holds a component, or at its end (Zipper.hpp:27-38, 55-60).       *)
LEMMA ZipperSkip ==
  ASSUME NEW cs, NEW max \in Nat, NEW idx \in 0 .. max
  PROVE  /\ Zipper!skip(cs, max, idx) \in idx .. max
         /\ Zipper!skip(cs, max, idx) < max => Zipper!all_set(cs, Zipper!skip(cs, max, idx))
         /\ \A j \in idx .. max : j < Zipper!skip(cs, max, idx) => ~Zipper!all_set(cs, j)
  <1> DEFINE S == {i \in idx .. max : i = max \/ Zipper!all_set(cs, i)}
  <1>1. S \in SUBSET Nat /\ S # {}
    OBVIOUS
  <1>2. Min(S) \in S /\ \A y \in S : Min(S) <= y
    BY <1>1, MinExists
  <1>3. Zipper!skip(cs, max, idx) = Min(S)
    BY DEF Zipper!skip, Zipper!Min, Min
  <1>4. ASSUME NEW j \in idx .. max, j < Min(S) PROVE ~Zipper!all_set(cs, j)
    <2>1. j \notin S
      BY <1>1, <1>2, <1>4
    <2> QED BY <2>1
  <1> QED BY <1>2, <1>3, <1>4

(* Where every array holds a component, there is a live entity with all    *)
(* components, and only there.                                             *)
LEMMA AllSetIsJoined ==
  ASSUME ArraysInv, DOMAIN arrays = Components, NEW i \in Nat
  PROVE  Zipper!all_set(HybridsOf, i) <=> i \in Joined
  <1>1. ASSUME NEW c \in Components, i \in Ids
        PROVE  Zipper!Hybrid!has(arrays[c].hybrid, i) <=> i \in DOMAIN reg.storage[c]
    <2>1. HybridOK(arrays[c].hybrid, reg.storage[c]) /\ reg.storage[c] \in HybridArrays
      BY StoredContents DEF ArraysInv, ArraysHold, ArrayOK
    <2>2. Hybrid!has(arrays[c].hybrid, i) <=> i \in DOMAIN reg.storage[c]
      BY <1>1, <2>1, HybridIsSparse, ContentsFinite, NulloptAssumption DEF HybridOK
    <2> QED BY <2>2 DEF Zipper!Hybrid!has, Hybrid!has, Zipper!Hybrid!Sparse!nullopt,
                        Hybrid!Sparse!nullopt
  <1>2. ASSUME NEW c \in Components, i \notin Ids
        PROVE  ~Zipper!Hybrid!has(arrays[c].hybrid, i)
    <2>1. arrays[c].hybrid.sparse \in Seq(Optional) /\ Len(arrays[c].hybrid.sparse) <= MaxId
      BY DEF ArraysInv, ArraysHold, ArrayOK, HybridOK, HybridType, SparseType
    <2>2. i >= MaxId
      BY <1>2, MaxIdAssumption DEF Ids
    <2> QED BY <2>1, <2>2, MaxIdAssumption DEF Zipper!Hybrid!has
  <1>3. Zipper!all_set(HybridsOf, i)
        <=> \A c \in Components : Zipper!Hybrid!has(arrays[c].hybrid, i)
    BY DEF Zipper!all_set, HybridsOf
  <1>4. i \in Joined <=> i \in live /\ \A c \in Components : i \in DOMAIN reg.storage[c]
    BY DEF Joined, ArraysInv, ArraysHold
  <1>5. \A c \in Components : DOMAIN reg.storage[c] \subseteq live
    BY DEF ArraysInv, ArraysHold, IInv, OnlyLiveEntitiesHaveComponents
  <1>6. live \subseteq Ids
    BY StoredContents DEF ArraysInv
  <1>7. CASE i \in Ids
    BY <1>1, <1>3, <1>4, <1>5, <1>7, ComponentsAssumption
  <1>8. CASE i \notin Ids
    BY <1>2, <1>3, <1>4, <1>6, <1>8, ComponentsAssumption
  <1> QED BY <1>7, <1>8

(* The end of a walk lies beyond every entity with all components          *)
(* (Zipper.hpp:83-86).                                                     *)
LEMMA SizeBoundsJoined ==
  ASSUME ArraysInv, DOMAIN arrays = Components
  PROVE  /\ Zipper!size(HybridsOf) \in Nat
         /\ \A e \in Joined : e \in Ids /\ e < Zipper!size(HybridsOf)
  <1> DEFINE S == {Len(a.sparse) : a \in HybridsOf} \cup {0}
  <1>1. ASSUME NEW c \in Components
        PROVE  Len(arrays[c].hybrid.sparse) \in Nat /\ Len(arrays[c].hybrid.sparse) <= MaxId
    BY DEF ArraysInv, ArraysHold, ArrayOK, HybridOK, HybridType, SparseType
  <1>2. S \in SUBSET Nat /\ S # {} /\ \A x \in S : x <= MaxId
    BY <1>1, MaxIdAssumption DEF HybridsOf
  <1>3. Max(S) \in S /\ \A y \in S : Max(S) >= y
    BY <1>2, MaxIdAssumption, MaxExists
  <1>4. Zipper!size(HybridsOf) = Max(S)
    BY DEF Zipper!size, Zipper!Max, Max
  <1>5. ASSUME NEW e \in Joined PROVE e \in Ids /\ e < Max(S)
    <2>1. e \in Ids /\ e \in Nat
      BY StoredContents, MaxIdAssumption DEF Joined, ArraysInv, Ids
    <2>2. Zipper!all_set(HybridsOf, e)
      BY <2>1, AllSetIsJoined
    <2>3. PICK c \in Components : Zipper!Hybrid!has(arrays[c].hybrid, e)
      BY <2>2, ComponentsAssumption DEF Zipper!all_set, HybridsOf
    <2>4. e < Len(arrays[c].hybrid.sparse) /\ Len(arrays[c].hybrid.sparse) \in S
      BY <2>3 DEF Zipper!Hybrid!has, HybridsOf
    <2>5. Max(S) >= Len(arrays[c].hybrid.sparse) /\ Max(S) \in Nat
      BY <1>2, <1>3, <2>4
    <2>6. Len(arrays[c].hybrid.sparse) \in Nat
      BY <1>1
    <2> QED BY <2>1, <2>4, <2>5, <2>6
  <1> QED BY <1>2, <1>3, <1>4, <1>5

(* The inductive invariant of the walk: of the entities that have stayed,  *)
(* all up to the index are seen.                                           *)
WalkInv ==
    /\ loop \in [idx : Nat, max : Nat, seen : SUBSET Ids, joined : SUBSET Ids,
                 stayed : SUBSET Ids]
    /\ loop.idx <= loop.max
    /\ loop.seen \subseteq loop.joined
    /\ \A e \in loop.stayed : e < loop.max /\ (e <= loop.idx => e \in loop.seen)
    /\ Walking => /\ DOMAIN arrays = Components
                  /\ loop.stayed \subseteq Joined /\ Joined \subseteq loop.joined

(* Only ids of entities can have all components.                           *)
LEMMA JoinedTyped == IInv => Joined \subseteq Ids
  BY StoredContents DEF Joined

(* A component type once registered stays so.                              *)
LEMMA CallerKeepsArrays ==
  ASSUME Caller
  PROVE  DOMAIN arrays \subseteq DOMAIN arrays'
  BY DEF Caller, SpawnOnly, RegisterArrays, KillInArrays, Touch, DetachInArrays,
         AttachInArrays, insert_at

(* A call of the registry from the loop's body keeps the walk's invariant. *)
LEMMA CallerStep ==
  ASSUME ArraysInv, ArraysInv', WalkInv, Caller, Witness
  PROVE  WalkInv'
  <1>1. Joined' \subseteq Ids
    BY DEF Joined, ArraysInv, IInv, TypeOK
  <1>2. CASE ~Walking
    <2>1. loop' = loop
      BY <1>2 DEF Witness
    <2> QED BY <1>2, <2>1 DEF WalkInv, Walking
  <1>3. CASE Walking
    <2>1. loop' = [loop EXCEPT !.joined = @ \cup Joined', !.stayed = @ \cap Joined']
      BY <1>3 DEF Witness
    <2> DEFINE J == Joined'
    <2>2. J \subseteq Ids
      BY <1>1
    <2>3. loop' = [loop EXCEPT !.joined = @ \cup J, !.stayed = @ \cap J]
      BY <2>1
    <2> HIDE DEF J
    <2>4. /\ loop' \in [idx : Nat, max : Nat, seen : SUBSET Ids, joined : SUBSET Ids,
                        stayed : SUBSET Ids]
          /\ loop'.idx = loop.idx /\ loop'.max = loop.max /\ loop'.seen = loop.seen
          /\ loop'.joined = loop.joined \cup J /\ loop'.stayed = loop.stayed \cap J
      BY <2>2, <2>3 DEF WalkInv
    <2>5. DOMAIN arrays' = Components
      <3>1. DOMAIN reg'.storage \subseteq Components
        <4>1. reg'.storage \in Storages
          BY DEF ArraysInv, IInv, TypeOK
        <4> QED BY <4>1 DEF Storages
      <3> QED BY <1>3, <3>1, CallerKeepsArrays DEF WalkInv, ArraysInv, ArraysHold
    <2>6. loop'.stayed \subseteq J /\ J \subseteq loop'.joined
      BY <2>4
    <2> QED BY <2>4, <2>5, <2>6 DEF WalkInv, Walking, J
  <1> QED BY <1>2, <1>3

(* The beginning of a walk establishes it.                                 *)
LEMMA BeginsStep ==
  ASSUME ArraysInv, WalkBegins
  PROVE  WalkInv'
  <1> DEFINE max == Zipper!size(HybridsOf)
             idx == Zipper!begin(HybridsOf)
  <1>1. DOMAIN arrays = Components /\ UNCHANGED << vars, arrays >>
    BY DEF WalkBegins
  <1>2. max \in Nat /\ \A e \in Joined : e \in Ids /\ e \in Nat /\ e < max
    BY <1>1, SizeBoundsJoined, MaxIdAssumption DEF Ids
  <1>3. /\ idx \in 0 .. max
        /\ idx < max => Zipper!all_set(HybridsOf, idx)
        /\ \A j \in 0 .. max : j < idx => ~Zipper!all_set(HybridsOf, j)
    BY <1>2, ZipperSkip DEF Zipper!begin
  <1>4. loop' = [idx |-> idx, max |-> max, joined |-> Joined, stayed |-> Joined,
                 seen |-> IF idx < max THEN {idx} ELSE {}]
    BY DEF WalkBegins, At
  <1> HIDE DEF max, idx
  <1>5. idx \in Nat /\ idx <= max /\ (idx < max => idx \in Joined)
        /\ \A e \in Joined : idx <= e
    BY <1>1, <1>2, <1>3, AllSetIsJoined
  <1>6. Joined' = Joined
    BY <1>1 DEF Joined, vars
  <1>7. \A e \in Joined : e < max /\ (e <= idx => idx < max /\ e = idx)
    BY <1>2, <1>5
  <1>8. loop' \in [idx : Nat, max : Nat, seen : SUBSET Ids, joined : SUBSET Ids,
                  stayed : SUBSET Ids]
    BY <1>2, <1>4, <1>5
  <1> QED BY <1>1, <1>2, <1>4, <1>5, <1>6, <1>7, <1>8 DEF WalkInv

(* A step of the iterator keeps it: what lies between the old and the new  *)
(* index does not have all components now.                                 *)
LEMMA MovesStep ==
  ASSUME ArraysInv, WalkInv, WalkMoves
  PROVE  WalkInv'
  <1> DEFINE max == loop.max
             idx == Zipper!next(HybridsOf, max, loop.idx)
  <1>1. /\ DOMAIN arrays = Components /\ UNCHANGED << vars, arrays >>
        /\ loop.stayed \subseteq Joined /\ Joined \subseteq loop.joined
        /\ loop.idx \in Nat /\ max \in Nat /\ loop.idx < max
    BY DEF WalkMoves, WalkInv, Walking
  <1>2. /\ idx \in loop.idx + 1 .. max
        /\ idx < max => Zipper!all_set(HybridsOf, idx)
        /\ \A j \in loop.idx + 1 .. max : j < idx => ~Zipper!all_set(HybridsOf, j)
    <2>1. loop.idx + 1 \in 0 .. max
      BY <1>1
    <2> QED BY <1>1, <2>1, ZipperSkip DEF Zipper!next
  <1>3. loop' = [idx |-> idx, max |-> max, joined |-> loop.joined, stayed |-> loop.stayed,
                 seen |-> IF idx < max THEN loop.seen \cup {idx} ELSE loop.seen]
    BY DEF WalkMoves, At
  <1> HIDE DEF idx, max
  <1>4. idx \in Nat /\ idx <= max /\ (idx < max => idx \in Joined)
    BY <1>1, <1>2, AllSetIsJoined
  <1>5. ASSUME NEW e \in loop.stayed
        PROVE  e < max /\ (e <= idx => e \in loop'.seen)
    <2>1. e \in Joined /\ e \in Nat /\ e < max /\ (e <= loop.idx => e \in loop.seen)
      BY <1>1, MaxIdAssumption DEF WalkInv, Ids, max
    <2>2. e > loop.idx => ~(e < idx)
      BY <1>1, <1>2, <2>1, AllSetIsJoined
    <2> QED BY <1>1, <1>3, <1>4, <2>1, <2>2
  <1>6. Joined' = Joined
    BY <1>1 DEF Joined, vars
  <1>7. /\ loop.seen \subseteq loop.joined /\ loop.seen \subseteq Ids
        /\ loop.joined \subseteq Ids /\ loop.stayed \subseteq Ids /\ Joined \subseteq Ids
    BY JoinedTyped DEF WalkInv, ArraysInv
  <1>8. /\ loop' \in [idx : Nat, max : Nat, seen : SUBSET Ids, joined : SUBSET Ids,
                      stayed : SUBSET Ids]
        /\ loop'.seen \subseteq loop'.joined
    BY <1>1, <1>3, <1>4, <1>7
  <1> QED BY <1>1, <1>3, <1>4, <1>5, <1>6, <1>8 DEF WalkInv

(* Every step keeps the walk's invariant.                                  *)
LEMMA WalkStep ==
  ASSUME ArraysInv, WalkInv, [ArraysNext]_arrayVars
  PROVE  WalkInv'
  <1>1. ArraysInv'
    BY ArraysStep
  <1>2. CASE UNCHANGED arrayVars
    BY <1>2 DEF WalkInv, Walking, Joined, arrayVars, vars
  <1> QED BY <1>1, <1>2, CallerStep, BeginsStep, MovesStep DEF ArraysNext

(* A walk visits every entity that has all components throughout it, and   *)
(* none that has them at no time during it (Zipper.hpp:27-38, 55-60,       *)
(* 69-88).                                                                 *)
THEOREM WalkCorrect == ArraysSpec => []WalkVisitsWhatStays
  <1>1. ArraysInit => WalkInv
    BY DEF ArraysInit, WalkInv, Walking
  <1>2. ArraysInv /\ WalkInv /\ [ArraysNext]_arrayVars => WalkInv'
    BY WalkStep
  <1>3. WalkInv => WalkVisitsWhatStays
    <2> SUFFICES ASSUME WalkInv PROVE WalkVisitsWhatStays
      OBVIOUS
    <2>1. ASSUME ~Walking, NEW e \in loop.stayed PROVE e \in loop.seen
      <3>1. e \in Nat /\ e < loop.max /\ loop.idx \in Nat /\ loop.max \in Nat
        BY MaxIdAssumption DEF WalkInv, Ids
      <3>2. e <= loop.idx
        BY <2>1, <3>1 DEF Walking
      <3> QED BY <3>2 DEF WalkInv
    <2> QED BY <2>1 DEF WalkInv, WalkVisitsWhatStays
  <1> QED BY <1>1, <1>2, <1>3, ArraysInvariance, PTL DEF ArraysSpec
=============================================================================

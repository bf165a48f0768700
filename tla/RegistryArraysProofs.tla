------------------------- MODULE RegistryArraysProofs -------------------------
(***************************************************************************)
(* The three component arrays hold what the registry says, for every       *)
(* number of ids, every set of component types and every set of values.    *)
(* The invariant is the registry's own (IInv) with ArraysHold: an array of *)
(* a type and the function reg.storage[c] agree. Most of the work is one   *)
(* lemma per operation of each array.                                      *)
(***************************************************************************)
EXTENDS RegistryArrays, RegistryProofs

(* What a slot of a sparse array holds.                                    *)
Optional == Values \cup {Sparse!nullopt}

(* resize() to a greater size keeps what there is and adds empty slots     *)
(* (SparseArray.hpp:63-69, 81-84).                                         *)
LEMMA SparseGrow ==
  ASSUME NEW s \in Seq(Optional), NEW n \in Nat
  PROVE  /\ Sparse!grow(s, n) \in Seq(Optional)
         /\ Len(Sparse!grow(s, n)) = IF Len(s) < n THEN n ELSE Len(s)
         /\ \A i \in 1 .. Len(s) : Sparse!grow(s, n)[i] = s[i]
         /\ \A i \in Len(s) + 1 .. n : Sparse!grow(s, n)[i] = Sparse!nullopt
  <1>1. Sparse!resize(s, n) \in [1 .. n -> Optional]
    BY DEF Sparse!resize, Optional
  <1>2. Sparse!resize(s, n) \in Seq(Optional) /\ Len(Sparse!resize(s, n)) = n
    BY <1>1
  <1> QED BY <1>2 DEF Sparse!grow, Sparse!resize

(* get_ref() grows the array and changes no component                      *)
(* (SparseArray.hpp:63-69).                                                *)
LEMMA SparseGetRef ==
  ASSUME NEW s \in Seq(Optional), NEW id \in Nat
  PROVE  /\ Sparse!get_ref(s, id) \in Seq(Optional)
         /\ Len(Sparse!get_ref(s, id)) = IF Len(s) < id + 1 THEN id + 1 ELSE Len(s)
         /\ \A e \in Nat : Sparse!get(Sparse!get_ref(s, id), e) = Sparse!get(s, e)
  BY SparseGrow DEF Sparse!get_ref, Sparse!get

(* insert_at() sets one component, grows the array if it must, and changes *)
(* no other (SparseArray.hpp:81-92).                                       *)
LEMMA SparseInsert ==
  ASSUME NEW s \in Seq(Optional), NEW id \in Nat, NEW comp \in Values
  PROVE  /\ Sparse!insert_at(s, id, comp) \in Seq(Optional)
         /\ Len(Sparse!insert_at(s, id, comp)) = IF Len(s) < id + 1 THEN id + 1 ELSE Len(s)
         /\ \A e \in Nat : Sparse!get(Sparse!insert_at(s, id, comp), e)
                           = IF e = id THEN comp ELSE Sparse!get(s, e)
  <1> DEFINE g == Sparse!grow(s, id + 1)
  <1>1. /\ g \in Seq(Optional) /\ id + 1 \in 1 .. Len(g)
        /\ Len(g) = IF Len(s) < id + 1 THEN id + 1 ELSE Len(s)
        /\ \A i \in 1 .. Len(s) : g[i] = s[i]
        /\ \A i \in Len(s) + 1 .. Len(g) : g[i] = Sparse!nullopt
    BY SparseGrow
  <1> HIDE DEF g
  <1>2. /\ [g EXCEPT ![id + 1] = comp] \in Seq(Optional)
        /\ Len([g EXCEPT ![id + 1] = comp]) = Len(g)
    BY <1>1 DEF Optional
  <1>3. Sparse!insert_at(s, id, comp) = [g EXCEPT ![id + 1] = comp]
    BY DEF Sparse!insert_at, g
  <1>4. ASSUME NEW e \in Nat
        PROVE  Sparse!get(Sparse!insert_at(s, id, comp), e)
               = IF e = id THEN comp ELSE Sparse!get(s, e)
    <2>1. CASE e < Len(s)
      BY <1>1, <1>2, <1>3, <2>1 DEF Sparse!get
    <2>2. CASE e \in Len(s) .. Len(g) - 1
      BY <1>1, <1>2, <1>3, <2>2 DEF Sparse!get
    <2>3. CASE e >= Len(g)
      BY <1>1, <1>2, <1>3, <2>3 DEF Sparse!get
    <2> QED BY <1>1, <2>1, <2>2, <2>3
  <1> QED BY <1>1, <1>2, <1>3, <1>4

(* erase() empties one slot, if the array has it                           *)
(* (SparseArray.hpp:103-105).                                              *)
LEMMA SparseErase ==
  ASSUME NEW s \in Seq(Optional), NEW id \in Nat
  PROVE  /\ Sparse!erase(s, id) \in Seq(Optional)
         /\ Len(Sparse!erase(s, id)) = Len(s)
         /\ \A e \in Nat : Sparse!get(Sparse!erase(s, id), e)
                           = IF e = id THEN Sparse!nullopt ELSE Sparse!get(s, e)
  <1>1. CASE id < Len(s)
    <2>1. /\ [s EXCEPT ![id + 1] = Sparse!nullopt] \in Seq(Optional)
          /\ Len([s EXCEPT ![id + 1] = Sparse!nullopt]) = Len(s)
      BY <1>1 DEF Optional
    <2> QED BY <1>1, <2>1 DEF Sparse!erase, Sparse!get
  <1>2. CASE ~(id < Len(s))
    BY <1>2 DEF Sparse!erase, Sparse!get
  <1> QED BY <1>1, <1>2

(* The types of the arrays' fields.                                        *)
SparseType == Seq(Optional)
HybridType == [sparse : SparseType, count : Int]

(* A HybridArray agrees with contents m, and has not grown beyond the ids  *)
(* there are.                                                              *)
HybridOK(a, m) ==
    /\ a \in HybridType /\ Len(a.sparse) <= MaxId
    /\ \A e \in Ids : Hybrid!get(a, e) = IF e \in DOMAIN m THEN m[e] ELSE Sparse!nullopt
    /\ a.count = Cardinality(DOMAIN m)

(* A sparse_array agrees with contents m.                                  *)
PlainOK(s, m) ==
    /\ s \in SparseType
    /\ \A e \in Ids : Sparse!get(s, e) = IF e \in DOMAIN m THEN m[e] ELSE Sparse!nullopt

(* A HybridArray does to its vector what a sparse_array does               *)
(* (HybridArray.hpp:55-102).                                               *)
LEMMA HybridIsSparse ==
  ASSUME NEW a \in HybridType, NEW id \in Nat
  PROVE  /\ Hybrid!get(a, id) = Sparse!get(a.sparse, id)
         /\ Hybrid!has(a, id) <=> Hybrid!get(a, id) # Sparse!nullopt
         /\ Hybrid!get_ref(a, id) = [a EXCEPT !.sparse = Sparse!get_ref(@, id)]
         /\ \A comp : Hybrid!insert_at(a, id, comp).sparse = Sparse!insert_at(a.sparse, id, comp)
         /\ Hybrid!erase(a, id).sparse
              = IF Hybrid!has(a, id) THEN Sparse!erase(a.sparse, id) ELSE a.sparse
  BY DEF Hybrid!get, Hybrid!Sparse!get, Sparse!get, Hybrid!has, Hybrid!Sparse!nullopt, Sparse!nullopt,
         Hybrid!get_ref, Hybrid!Sparse!get_ref, Sparse!get_ref, Hybrid!insert_at,
         Hybrid!Sparse!insert_at, Sparse!insert_at, Hybrid!Sparse!grow, Sparse!grow,
         Hybrid!Sparse!resize, Sparse!resize, Hybrid!erase, Hybrid!Sparse!erase, Sparse!erase,
         HybridType, SparseType

(* The contents of an array are finite.                                    *)
LEMMA ContentsFinite ==
  ASSUME NEW m \in HybridArrays
  PROVE  /\ DOMAIN m \subseteq Ids /\ IsFiniteSet(DOMAIN m)
         /\ Cardinality(DOMAIN m) \in Nat
         /\ \A e \in DOMAIN m : m[e] \in Values
  <1>1. DOMAIN m \subseteq Ids /\ \A e \in DOMAIN m : m[e] \in Values
    BY DEF HybridArrays
  <1>2. IsFiniteSet(Ids)
    BY MaxIdAssumption, FS_Interval DEF Ids
  <1> QED BY <1>1, <1>2, FS_Subset, FS_CardinalityType

(* What inserting does to the contents.                                    *)
LEMMA ContentsInsert ==
  ASSUME NEW m \in HybridArrays, NEW id \in Ids, NEW comp \in Values
  PROVE  /\ insert_at(m, id, comp) \in HybridArrays
         /\ DOMAIN insert_at(m, id, comp) = DOMAIN m \cup {id}
         /\ \A e \in DOMAIN m \cup {id} :
               insert_at(m, id, comp)[e] = IF e = id THEN comp ELSE m[e]
  <1>1. PICK S \in SUBSET Ids : m \in [S -> Values]
    BY DEF HybridArrays
  <1>2. insert_at(m, id, comp) \in [S \cup {id} -> Values] /\ S \cup {id} \in SUBSET Ids
    BY <1>1 DEF insert_at
  <1>3. insert_at(m, id, comp) \in HybridArrays
    BY <1>2 DEF HybridArrays
  <1> QED BY <1>1, <1>3 DEF insert_at

(* What erasing does to the contents.                                      *)
LEMMA ContentsErase ==
  ASSUME NEW m \in HybridArrays, NEW id \in Ids
  PROVE  /\ erase(m, id) \in HybridArrays
         /\ DOMAIN erase(m, id) = DOMAIN m \ {id}
         /\ \A e \in DOMAIN m \ {id} : erase(m, id)[e] = m[e]
  <1>1. PICK S \in SUBSET Ids : m \in [S -> Values]
    BY DEF HybridArrays
  <1>2. erase(m, id) \in [S \ {id} -> Values] /\ S \ {id} \in SUBSET Ids
    BY <1>1 DEF erase, Restrict
  <1>3. erase(m, id) \in HybridArrays
    BY <1>2 DEF HybridArrays
  <1> QED BY <1>1, <1>3 DEF erase, Restrict

(* HybridArray::insert_at counts a component only where there was none     *)
(* (HybridArray.hpp:55-68).                                                *)
LEMMA HybridInsert ==
  ASSUME NEW m \in HybridArrays, NEW a, HybridOK(a, m), NEW id \in Ids, NEW comp \in Values
  PROVE  HybridOK(Hybrid!insert_at(a, id, comp), insert_at(m, id, comp))
  <1> DEFINE b == Hybrid!insert_at(a, id, comp)
             n == insert_at(m, id, comp)
  <1>0. /\ id \in Nat /\ \A e \in Ids : e \in Nat
        /\ a \in HybridType /\ a.sparse \in Seq(Optional)
        /\ \A e \in Ids :
              Hybrid!get(a, e) = IF e \in DOMAIN m THEN m[e] ELSE Sparse!nullopt
        /\ a.count = Cardinality(DOMAIN m)
    BY MaxIdAssumption DEF Ids, HybridOK, HybridType, SparseType
  <1>1. Hybrid!has(a, id) <=> id \in DOMAIN m
    BY <1>0, HybridIsSparse, ContentsFinite, NulloptAssumption
  <1>2. b.sparse = Sparse!insert_at(a.sparse, id, comp)
    BY <1>0, HybridIsSparse
  <1>3. b = [sparse |-> Sparse!insert_at(a.sparse, id, comp),
             count  |-> IF id \in DOMAIN m THEN a.count ELSE a.count + 1]
    BY <1>1, <1>2 DEF Hybrid!insert_at
  <1>4. /\ n \in HybridArrays
        /\ DOMAIN n = DOMAIN m \cup {id}
        /\ \A e \in DOMAIN n : n[e] = IF e = id THEN comp ELSE m[e]
    BY ContentsInsert
  <1> HIDE DEF b, n
  <1>5. b.count = Cardinality(DOMAIN n)
    BY <1>0, <1>3, <1>4, ContentsFinite, FS_AddElement
  <1>6. /\ Sparse!insert_at(a.sparse, id, comp) \in Seq(Optional)
        /\ Len(Sparse!insert_at(a.sparse, id, comp)) <= MaxId
        /\ \A e \in Nat : Sparse!get(Sparse!insert_at(a.sparse, id, comp), e)
                          = IF e = id THEN comp ELSE Sparse!get(a.sparse, e)
    <2>1. id + 1 <= MaxId /\ Len(a.sparse) <= MaxId
      BY MaxIdAssumption DEF Ids, HybridOK
    <2>2. Len(Sparse!insert_at(a.sparse, id, comp))
          = IF Len(a.sparse) < id + 1 THEN id + 1 ELSE Len(a.sparse)
      BY <1>0, SparseInsert
    <2>3. Len(Sparse!insert_at(a.sparse, id, comp)) <= MaxId
      BY <2>1, <2>2
    <2>4. id \in Nat /\ a.sparse \in Seq(Optional)
      BY <1>0
    <2>5. Sparse!insert_at(a.sparse, id, comp) \in Seq(Optional)
      BY <2>4, SparseInsert
    <2>6. \A e \in Nat : Sparse!get(Sparse!insert_at(a.sparse, id, comp), e)
                        = IF e = id THEN comp ELSE Sparse!get(a.sparse, e)
      BY <2>4, SparseInsert, ZenonT(60)
    <2> QED BY <2>3, <2>5, <2>6
  <1>7. b \in HybridType /\ Len(b.sparse) <= MaxId
    BY <1>0, <1>3, <1>6 DEF HybridType, SparseType
  <1>8. ASSUME NEW e \in Ids
        PROVE  Hybrid!get(b, e) = IF e \in DOMAIN n THEN n[e] ELSE Sparse!nullopt
    <2>1. Hybrid!get(b, e) = Sparse!get(Sparse!insert_at(a.sparse, id, comp), e)
      BY <1>0, <1>2, <1>7, HybridIsSparse
    <2>2. Hybrid!get(b, e) = IF e = id THEN comp ELSE Hybrid!get(a, e)
      BY <1>0, <1>6, <2>1, HybridIsSparse
    <2> QED BY <1>0, <1>4, <2>2
  <1>9. HybridOK(b, n)
    BY <1>5, <1>7, <1>8 DEF HybridOK
  <1> QED BY <1>9 DEF b, n

(* HybridArray::erase counts down only where a component was               *)
(* (HybridArray.hpp:80-85).                                                *)
LEMMA HybridErase ==
  ASSUME NEW m \in HybridArrays, NEW a, HybridOK(a, m), NEW id \in Ids
  PROVE  HybridOK(Hybrid!erase(a, id), erase(m, id))
  <1> DEFINE b == Hybrid!erase(a, id)
             n == erase(m, id)
  <1>0. /\ id \in Nat /\ \A e \in Ids : e \in Nat
        /\ a \in HybridType /\ a.sparse \in Seq(Optional) /\ a.count \in Int
        /\ \A e \in Ids :
              Hybrid!get(a, e) = IF e \in DOMAIN m THEN m[e] ELSE Sparse!nullopt
        /\ a.count = Cardinality(DOMAIN m)
    BY MaxIdAssumption DEF Ids, HybridOK, HybridType, SparseType
  <1>1. Hybrid!has(a, id) <=> id \in DOMAIN m
    BY <1>0, HybridIsSparse, ContentsFinite, NulloptAssumption
  <1>2. CASE id \in DOMAIN m
    <2>1. b.sparse = Sparse!erase(a.sparse, id)
      BY <1>0, <1>1, <1>2, HybridIsSparse
    <2>2. b = [sparse |-> Sparse!erase(a.sparse, id), count |-> a.count - 1]
      BY <1>1, <1>2, <2>1 DEF Hybrid!erase
    <2>3. /\ n \in HybridArrays
          /\ DOMAIN n = DOMAIN m \ {id}
          /\ \A e \in DOMAIN n : n[e] = m[e]
      BY ContentsErase
    <2> HIDE DEF b, n
    <2>4. b.count = Cardinality(DOMAIN n)
      BY <1>0, <1>2, <2>2, <2>3, ContentsFinite, FS_RemoveElement
    <2>5. b \in HybridType /\ Len(b.sparse) <= MaxId
      <3>1. /\ Sparse!erase(a.sparse, id) \in Seq(Optional)
            /\ Len(Sparse!erase(a.sparse, id)) <= MaxId
        BY <1>0, SparseErase DEF HybridOK
      <3> QED BY <1>0, <2>2, <3>1 DEF HybridType, SparseType
    <2>6. ASSUME NEW e \in Ids
          PROVE  Hybrid!get(b, e) = IF e \in DOMAIN n THEN n[e] ELSE Sparse!nullopt
      <3>1. Hybrid!get(b, e) = Sparse!get(Sparse!erase(a.sparse, id), e)
        BY <1>0, <2>1, <2>5, HybridIsSparse
      <3>2. Sparse!get(Sparse!erase(a.sparse, id), e)
            = IF e = id THEN Sparse!nullopt ELSE Sparse!get(a.sparse, e)
        BY <1>0, SparseErase
      <3>3. Hybrid!get(a, e) = Sparse!get(a.sparse, e)
        BY <1>0, HybridIsSparse
      <3> QED BY <1>0, <2>3, <3>1, <3>2, <3>3
    <2>7. HybridOK(b, n)
      BY <2>4, <2>5, <2>6 DEF HybridOK
    <2> QED BY <2>7 DEF b, n
  <1>3. CASE id \notin DOMAIN m
    <2>1. n = m
      BY <1>3 DEF erase, Restrict, HybridArrays
    <2> QED BY <1>1, <1>3, <2>1 DEF Hybrid!erase
  <1> QED BY <1>2, <1>3

(* HybridArray::get_ref changes no contents (HybridArray.hpp:95-98).       *)
LEMMA HybridGetRef ==
  ASSUME NEW m \in HybridArrays, NEW a, HybridOK(a, m), NEW id \in Ids
  PROVE  HybridOK(Hybrid!get_ref(a, id), m)
  <1> DEFINE b == Hybrid!get_ref(a, id)
  <1>0. Ids \subseteq Nat /\ a \in HybridType /\ a.sparse \in SparseType
    BY MaxIdAssumption DEF Ids, HybridOK, HybridType
  <1>1. b = [a EXCEPT !.sparse = Sparse!get_ref(a.sparse, id)]
    BY <1>0, HybridIsSparse
  <1>2. /\ b.sparse = Sparse!get_ref(a.sparse, id)
        /\ b.count = a.count
        /\ b \in HybridType
        /\ Len(b.sparse) <= MaxId
    <2>1. id \in Nat /\ id + 1 <= MaxId /\ Len(a.sparse) <= MaxId
      BY MaxIdAssumption DEF Ids, HybridOK
    <2>2. /\ Sparse!get_ref(a.sparse, id) \in Seq(Optional)
          /\ Len(Sparse!get_ref(a.sparse, id)) <= MaxId
      BY <1>0, <2>1, SparseGetRef DEF SparseType
    <2> QED BY <1>0, <1>1, <2>2 DEF HybridType, SparseType
  <1>3. ASSUME NEW e \in Ids PROVE Hybrid!get(b, e) = Hybrid!get(a, e)
    <2>1. e \in Nat /\ a.sparse \in Seq(Optional) /\ id \in Nat
      BY <1>0 DEF SparseType
    <2>2. Sparse!get(b.sparse, e) = Sparse!get(a.sparse, e)
      BY <1>2, <2>1, SparseGetRef
    <2> QED BY <1>0, <1>2, <2>1, <2>2, HybridIsSparse
  <1> QED BY <1>2, <1>3 DEF HybridOK

(* sparse_array::insert_at follows the contents.                           *)
LEMMA PlainInsert ==
  ASSUME NEW m \in HybridArrays, NEW s, PlainOK(s, m), NEW id \in Ids, NEW comp \in Values
  PROVE  PlainOK(Sparse!insert_at(s, id, comp), insert_at(m, id, comp))
  <1> DEFINE t == Sparse!insert_at(s, id, comp)
             n == insert_at(m, id, comp)
  <1>1. /\ id \in Nat /\ s \in Seq(Optional) /\ \A e \in Ids : e \in Nat
        /\ \A e \in Ids :
              Sparse!get(s, e) = IF e \in DOMAIN m THEN m[e] ELSE Sparse!nullopt
    BY MaxIdAssumption DEF Ids, PlainOK, SparseType
  <1>2. /\ n \in HybridArrays
        /\ DOMAIN n = DOMAIN m \cup {id}
        /\ \A e \in DOMAIN n : n[e] = IF e = id THEN comp ELSE m[e]
    BY ContentsInsert
  <1>3. /\ t \in Seq(Optional)
        /\ \A e \in Nat : Sparse!get(t, e) = IF e = id THEN comp ELSE Sparse!get(s, e)
    BY <1>1, SparseInsert
  <1> HIDE DEF t, n
  <1>4. PlainOK(t, n)
    BY <1>1, <1>2, <1>3 DEF PlainOK, SparseType
  <1> QED BY <1>4 DEF t, n

(* sparse_array::erase follows the contents.                               *)
LEMMA PlainErase ==
  ASSUME NEW m \in HybridArrays, NEW s, PlainOK(s, m), NEW id \in Ids
  PROVE  PlainOK(Sparse!erase(s, id), erase(m, id))
  <1> DEFINE t == Sparse!erase(s, id)
             n == erase(m, id)
  <1>1. /\ id \in Nat /\ s \in Seq(Optional) /\ \A e \in Ids : e \in Nat
        /\ \A e \in Ids :
              Sparse!get(s, e) = IF e \in DOMAIN m THEN m[e] ELSE Sparse!nullopt
    BY MaxIdAssumption DEF Ids, PlainOK, SparseType
  <1>2. DOMAIN n = DOMAIN m \ {id} /\ \A e \in DOMAIN n : n[e] = m[e]
    BY ContentsErase
  <1>3. /\ t \in Seq(Optional)
        /\ \A e \in Nat : Sparse!get(t, e) = IF e = id THEN Sparse!nullopt ELSE Sparse!get(s, e)
    BY <1>1, SparseErase
  <1> HIDE DEF t, n
  <1>4. PlainOK(t, n)
    BY <1>1, <1>2, <1>3 DEF PlainOK, SparseType
  <1> QED BY <1>4 DEF t, n

(* sparse_array::get_ref changes no contents.                              *)
LEMMA PlainGetRef ==
  ASSUME NEW m \in HybridArrays, NEW s, PlainOK(s, m), NEW id \in Ids
  PROVE  PlainOK(Sparse!get_ref(s, id), m)
  <1>1. /\ id \in Nat /\ s \in Seq(Optional) /\ \A e \in Ids : e \in Nat
        /\ \A e \in Ids :
              Sparse!get(s, e) = IF e \in DOMAIN m THEN m[e] ELSE Sparse!nullopt
    BY MaxIdAssumption DEF Ids, PlainOK, SparseType
  <1>2. /\ Sparse!get_ref(s, id) \in Seq(Optional)
        /\ \A e \in Nat : Sparse!get(Sparse!get_ref(s, id), e) = Sparse!get(s, e)
    BY <1>1, SparseGetRef
  <1> QED BY <1>1, <1>2 DEF PlainOK, SparseType

(* The types of a PackedArray's fields.                                    *)
PackedType == [entities : Seq(Ids), components : Seq(Values), index_map : UNION {[S -> Nat] : S \in SUBSET Ids}]

(* A PackedArray agrees with contents m.                                   *)
PackedOK(p, m) ==
    /\ p \in PackedType
    /\ HoldsDensely(p, m)

(* PackedArray::insert overwrites in place, or appends and remembers the   *)
(* place (PackedArray.hpp:18-40).                                          *)
LEMMA PackedInsert ==
  ASSUME NEW m \in HybridArrays, NEW p, PackedOK(p, m), NEW id \in Ids, NEW comp \in Values
  PROVE  PackedOK(Packed!insert(p, id, comp), insert_at(m, id, comp))
  <1> DEFINE q == Packed!insert(p, id, comp)
             n == insert_at(m, id, comp)
  <1>1. /\ p.entities \in Seq(Ids) /\ p.components \in Seq(Values)
        /\ DOMAIN p.index_map = DOMAIN m /\ DOMAIN m \in SUBSET Ids
        /\ p.index_map \in [DOMAIN m -> Nat]
        /\ p = [entities |-> p.entities, components |-> p.components, index_map |-> p.index_map]
    BY ContentsFinite DEF PackedOK, PackedType, HoldsDensely
  <1>2. /\ Len(p.entities) = Len(p.components)
        /\ \A e \in DOMAIN m : /\ p.index_map[e] \in 0 .. Len(p.entities) - 1
                               /\ p.entities[p.index_map[e] + 1] = e
                               /\ p.components[p.index_map[e] + 1] = m[e]
        /\ \A i \in 1 .. Len(p.entities) :
              p.entities[i] \in DOMAIN m /\ p.index_map[p.entities[i]] = i - 1
    BY DEF PackedOK, HoldsDensely
  <1>3. /\ n \in HybridArrays
        /\ DOMAIN n = DOMAIN m \cup {id}
        /\ id \in DOMAIN n /\ n[id] = comp
        /\ \A e \in DOMAIN m : e # id => e \in DOMAIN n /\ n[e] = m[e]
    <2> HIDE DEF q
    <2>1. /\ n \in HybridArrays
          /\ DOMAIN n = DOMAIN m \cup {id}
          /\ \A e \in DOMAIN m \cup {id} : n[e] = IF e = id THEN comp ELSE m[e]
      BY ContentsInsert
    <2> HIDE DEF n
    <2> QED BY <2>1
  <1>4. CASE id \in DOMAIN m
    <2>1. /\ q.entities = p.entities
          /\ q.components = [p.components EXCEPT ![p.index_map[id] + 1] = comp]
          /\ q.index_map = p.index_map
          /\ q = [entities |-> q.entities, components |-> q.components, index_map |-> q.index_map]
      BY <1>1, <1>4 DEF Packed!insert, Packed!contains
    <2> HIDE DEF q, n
    <2>2. /\ q.components \in Seq(Values) /\ Len(q.components) = Len(p.components)
          /\ \A i \in 1 .. Len(p.components) :
                q.components[i] = IF i = p.index_map[id] + 1 THEN comp ELSE p.components[i]
      BY <1>1, <1>2, <1>4, <2>1
    <2>3. q \in PackedType
      BY <1>1, <2>1, <2>2 DEF PackedType
    <2>4. DOMAIN n = DOMAIN m
      BY <1>3, <1>4
    <2>5. HoldsDensely(q, n)
      BY <1>1, <1>2, <1>3, <1>4, <2>1, <2>2, <2>4 DEF HoldsDensely
    <2>6. PackedOK(q, n)
      BY <2>3, <2>5 DEF PackedOK
    <2> QED BY <2>6 DEF q, n
  <1>5. CASE id \notin DOMAIN m
    <2>1. /\ q.entities = Append(p.entities, id)
          /\ q.components = Append(p.components, comp)
          /\ q.index_map = [e \in DOMAIN m \cup {id} |->
                IF e = id THEN Len(p.components) ELSE p.index_map[e]]
          /\ q = [entities |-> q.entities, components |-> q.components, index_map |-> q.index_map]
      BY <1>1, <1>5 DEF Packed!insert, Packed!contains
    <2> HIDE DEF q, n
    <2>2. /\ q.entities \in Seq(Ids) /\ q.components \in Seq(Values)
          /\ Len(q.entities) = Len(p.entities) + 1 /\ Len(q.components) = Len(p.entities) + 1
          /\ \A i \in 1 .. Len(p.entities) :
                q.entities[i] = p.entities[i] /\ q.components[i] = p.components[i]
          /\ q.entities[Len(p.entities) + 1] = id
          /\ q.components[Len(p.entities) + 1] = comp
      BY <1>1, <1>2, <2>1
    <2>3. /\ q.index_map \in [DOMAIN n -> Nat] /\ DOMAIN n \in SUBSET Ids
          /\ DOMAIN q.index_map = DOMAIN n
          /\ q.index_map[id] = Len(p.entities)
          /\ \A e \in DOMAIN m : e # id /\ q.index_map[e] = p.index_map[e]
      BY <1>1, <1>2, <1>3, <1>5, <2>1
    <2>4. q \in PackedType
      BY <2>1, <2>2, <2>3 DEF PackedType
    <2>5. ASSUME NEW e \in DOMAIN n
          PROVE  /\ q.index_map[e] \in 0 .. Len(q.entities) - 1
                 /\ q.entities[q.index_map[e] + 1] = e
                 /\ q.components[q.index_map[e] + 1] = n[e]
      <3>1. CASE e = id
        BY <1>1, <1>3, <2>2, <2>3, <3>1
      <3>2. CASE e # id
        <4>1. e \in DOMAIN m /\ q.index_map[e] = p.index_map[e] /\ n[e] = m[e]
          BY <1>3, <2>3, <3>2
        <4>2. p.index_map[e] \in 0 .. Len(p.entities) - 1
          BY <1>2, <4>1
        <4>3. p.index_map[e] + 1 \in 1 .. Len(p.entities)
          BY <1>1, <4>2
        <4>4. /\ q.entities[p.index_map[e] + 1] = p.entities[p.index_map[e] + 1]
              /\ q.components[p.index_map[e] + 1] = p.components[p.index_map[e] + 1]
          BY <2>2, <4>3
        <4>5. p.index_map[e] \in 0 .. Len(q.entities) - 1
          BY <1>1, <2>2, <4>2
        <4> QED BY <1>2, <4>1, <4>4, <4>5
      <3> QED BY <3>1, <3>2
    <2>6. ASSUME NEW i \in 1 .. Len(q.entities)
          PROVE  q.entities[i] \in DOMAIN n /\ q.index_map[q.entities[i]] = i - 1
      <3>1. CASE i = Len(p.entities) + 1
        BY <1>1, <1>3, <2>2, <2>3, <3>1
      <3>2. CASE i \in 1 .. Len(p.entities)
        <4>1. q.entities[i] = p.entities[i] /\ p.entities[i] \in DOMAIN m
          BY <1>2, <2>2, <3>2
        <4> QED BY <1>2, <1>3, <2>3, <3>2, <4>1
      <3> QED BY <1>1, <2>2, <3>1, <3>2
    <2>7. PackedOK(q, n)
      BY <2>2, <2>3, <2>4, <2>5, <2>6 DEF PackedOK, HoldsDensely
    <2> QED BY <2>7 DEF q, n
  <1> QED BY <1>4, <1>5

(* PackedArray::erase moves the last component into the gap and corrects   *)
(* the place of the entity it belongs to, also when the two are the same   *)
(* (PackedArray.hpp:55-69).                                                *)
LEMMA PackedErase ==
  ASSUME NEW m \in HybridArrays, NEW p, PackedOK(p, m), NEW id \in Ids
  PROVE  PackedOK(Packed!erase(p, id), erase(m, id))
  <1> DEFINE q == Packed!erase(p, id)
             n == erase(m, id)
             L == Len(p.entities)
             idx == p.index_map[id]
             moved == p.entities[L]
  <1>1. /\ p.entities \in Seq(Ids) /\ p.components \in Seq(Values)
        /\ DOMAIN p.index_map = DOMAIN m /\ DOMAIN m \in SUBSET Ids
        /\ p.index_map \in [DOMAIN m -> Nat]
    BY ContentsFinite DEF PackedOK, PackedType, HoldsDensely
  <1>2. /\ Len(p.components) = L /\ L \in Nat
        /\ \A e \in DOMAIN m : /\ p.index_map[e] \in 0 .. L - 1
                               /\ p.entities[p.index_map[e] + 1] = e
                               /\ p.components[p.index_map[e] + 1] = m[e]
        /\ \A i \in 1 .. L :
              p.entities[i] \in DOMAIN m /\ p.index_map[p.entities[i]] = i - 1
    BY <1>1 DEF PackedOK, HoldsDensely
  <1>3. CASE id \in DOMAIN m
    <2>1. /\ q.entities = Front([p.entities EXCEPT ![idx + 1] = moved])
          /\ q.components = Front([p.components EXCEPT ![idx + 1] = p.components[L]])
          /\ q.index_map = [e \in DOMAIN m \ {id} |-> IF e = moved THEN idx ELSE p.index_map[e]]
          /\ q = [entities |-> q.entities, components |-> q.components, index_map |-> q.index_map]
      BY <1>1, <1>2, <1>3 DEF Packed!erase, Packed!contains, Packed!Last, Last, Packed!Front, Front
    <2>2. DOMAIN n = DOMAIN m \ {id} /\ \A e \in DOMAIN n : n[e] = m[e]
      BY ContentsErase
    <2>3. /\ idx \in 0 .. L - 1 /\ L \in 1 .. L
          /\ p.entities[idx + 1] = id
          /\ moved \in DOMAIN m /\ p.index_map[moved] = L - 1
          /\ p.components[L] = m[moved]
      <3>1. idx \in 0 .. L - 1 /\ L \in 1 .. L /\ p.entities[idx + 1] = id
        BY <1>2, <1>3
      <3>2. moved \in DOMAIN m /\ p.index_map[moved] = L - 1
        BY <1>2, <3>1
      <3> QED BY <1>2, <3>1, <3>2
    <2> HIDE DEF q, n
    <2>4. /\ q.entities \in Seq(Ids) /\ Len(q.entities) = L - 1
          /\ \A i \in 1 .. L - 1 :
                q.entities[i] = IF i = idx + 1 THEN moved ELSE p.entities[i]
      <3>1. moved \in Ids
        BY <1>1, <2>3
      <3> QED BY <1>1, <1>2, <2>1, <2>3, <3>1 DEF Front
    <2>5. /\ q.components \in Seq(Values) /\ Len(q.components) = L - 1
          /\ \A i \in 1 .. L - 1 :
                q.components[i] = IF i = idx + 1 THEN m[moved] ELSE p.components[i]
      <3>1. m[moved] \in Values
        BY <2>3, ContentsFinite
      <3> QED BY <1>1, <1>2, <2>1, <2>3, <3>1 DEF Front
    <2>6. /\ q.index_map \in [DOMAIN n -> Nat] /\ DOMAIN n \in SUBSET Ids
          /\ DOMAIN q.index_map = DOMAIN n
          /\ \A e \in DOMAIN n :
                q.index_map[e] = IF e = moved THEN idx ELSE p.index_map[e]
      BY <1>1, <2>1, <2>2, <2>3
    <2>7. q \in PackedType
      BY <2>1, <2>4, <2>5, <2>6 DEF PackedType
    <2> HIDE DEF L, idx, moved
    <2>8. ASSUME NEW e \in DOMAIN n
          PROVE  /\ q.index_map[e] \in 0 .. Len(q.entities) - 1
                 /\ q.entities[q.index_map[e] + 1] = e
                 /\ q.components[q.index_map[e] + 1] = n[e]
      <3>1. e \in DOMAIN m /\ e # id /\ n[e] = m[e]
        BY <2>2
      <3>2. CASE e = moved
        <4>1. idx + 1 # L
          BY <2>3, <3>1, <3>2 DEF moved
        <4>2. idx \in 0 .. L - 2 /\ idx + 1 \in 1 .. L - 1
          BY <1>2, <2>3, <4>1
        <4>3. q.index_map[e] = idx /\ q.entities[idx + 1] = e /\ q.components[idx + 1] = m[e]
          BY <2>4, <2>5, <2>6, <3>2, <4>2
        <4> QED BY <1>2, <2>4, <3>1, <4>2, <4>3
      <3>3. CASE e # moved
        <4>1. /\ p.index_map[e] \in 0 .. L - 1
              /\ p.entities[p.index_map[e] + 1] = e
              /\ p.components[p.index_map[e] + 1] = m[e]
          BY <1>2, <3>1
        <4>2. p.index_map[e] + 1 # L
          BY <3>3, <4>1 DEF moved
        <4>3. p.index_map[e] + 1 # idx + 1
          BY <2>3, <3>1, <4>1
        <4>4. p.index_map[e] \in 0 .. L - 2 /\ p.index_map[e] + 1 \in 1 .. L - 1
          BY <1>2, <4>1, <4>2
        <4>5. /\ q.entities[p.index_map[e] + 1] = e
              /\ q.components[p.index_map[e] + 1] = m[e]
          BY <2>4, <2>5, <4>1, <4>3, <4>4
        <4>6. q.index_map[e] = p.index_map[e]
          BY <2>6, <3>3
        <4> QED BY <1>2, <2>4, <3>1, <4>4, <4>5, <4>6
      <3> QED BY <3>2, <3>3
    <2>9. ASSUME NEW i \in 1 .. Len(q.entities)
          PROVE  q.entities[i] \in DOMAIN n /\ q.index_map[q.entities[i]] = i - 1
      <3>1. i \in 1 .. L - 1 /\ i \in 1 .. L /\ i # L
        BY <1>2, <2>4
      <3>2. CASE i = idx + 1
        <4>1. idx # L - 1 /\ i - 1 = idx
          BY <1>2, <2>3, <3>1, <3>2
        <4>2. moved # id
          BY <2>3, <4>1 DEF idx
        <4> QED BY <2>2, <2>3, <2>4, <2>6, <3>1, <3>2, <4>1, <4>2
      <3>3. CASE i # idx + 1
        <4>1. p.entities[i] \in DOMAIN m /\ p.index_map[p.entities[i]] = i - 1
          BY <1>2, <3>1
        <4>2. i - 1 # idx /\ i - 1 # L - 1
          BY <1>2, <2>3, <3>1, <3>3
        <4>3. p.entities[i] # id /\ p.entities[i] # moved
          BY <2>3, <4>1, <4>2 DEF idx
        <4>4. q.entities[i] = p.entities[i] /\ p.entities[i] \in DOMAIN n
          BY <2>2, <2>4, <3>1, <3>3, <4>1, <4>3
        <4> QED BY <2>6, <4>1, <4>3, <4>4
      <3> QED BY <3>2, <3>3
    <2>10. PackedOK(q, n)
      BY <2>4, <2>5, <2>6, <2>7, <2>8, <2>9 DEF PackedOK, HoldsDensely
    <2> QED BY <2>10 DEF q, n
  <1>4. CASE id \notin DOMAIN m
    <2>1. n = m
      BY <1>4 DEF erase, Restrict, HybridArrays
    <2> QED BY <1>1, <1>4, <2>1 DEF Packed!erase, Packed!contains
  <1> QED BY <1>3, <1>4

(* The three arrays of a component type together.                          *)
ArrayType == [hybrid : HybridType, plain : SparseType, packed : PackedType]

(* The three arrays of a type agree with contents m.                       *)
ArrayOK(a, m) ==
    /\ a \in ArrayType
    /\ HybridOK(a.hybrid, m) /\ PlainOK(a.plain, m) /\ PackedOK(a.packed, m)

(* A new array is empty.                                                   *)
LEMMA EmptyArraysHold == << >> \in HybridArrays /\ ArrayOK(EmptyArrays, << >>)
  <1>1. << >> \in HybridArrays /\ DOMAIN << >> = {}
    <2>1. << >> \in [{} -> Values]
      OBVIOUS
    <2> QED BY <2>1 DEF HybridArrays
  <1>2. << >> \in Seq(Optional) /\ << >> \in Seq(Ids) /\ << >> \in Seq(Values) /\ Len(<< >>) = 0
    OBVIOUS
  <1>3. \A e \in Ids : Sparse!get(<< >>, e) = Sparse!nullopt
    BY <1>2, MaxIdAssumption DEF Sparse!get, Ids
  <1>4. PlainOK(<< >>, << >>)
    BY <1>1, <1>2, <1>3 DEF PlainOK, SparseType
  <1>5. Hybrid!EmptyArray = [sparse |-> << >>, count |-> 0]
    BY DEF Hybrid!EmptyArray
  <1>6. Hybrid!EmptyArray \in HybridType
    BY <1>2, <1>5 DEF HybridType, SparseType
  <1>7. \A e \in Ids : Hybrid!get(Hybrid!EmptyArray, e) = Sparse!nullopt
    <2>1. \A e \in Ids : e \in Nat
      BY MaxIdAssumption DEF Ids
    <2> QED BY <1>3, <1>5, <1>6, <2>1, HybridIsSparse
  <1>8. HybridOK(Hybrid!EmptyArray, << >>)
    BY <1>1, <1>2, <1>5, <1>6, <1>7, FS_EmptySet, MaxIdAssumption DEF HybridOK
  <1>9. Packed!EmptyArray \in PackedType
    <2>1. << >> \in [{} -> Nat]
      OBVIOUS
    <2> QED BY <1>2, <2>1 DEF Packed!EmptyArray, PackedType
  <1>10. PackedOK(Packed!EmptyArray, << >>)
    BY <1>1, <1>2, <1>9 DEF Packed!EmptyArray, PackedOK, HoldsDensely
  <1> QED BY <1>1, <1>4, <1>6, <1>8, <1>9, <1>10
          DEF ArrayOK, ArrayType, EmptyArrays, PlainOK

(* Inserting keeps the three arrays in agreement with the contents.        *)
LEMMA InsertedHolds ==
  ASSUME NEW m \in HybridArrays, NEW a, ArrayOK(a, m), NEW id \in Ids, NEW comp \in Values
  PROVE  ArrayOK(Inserted(a, id, comp), insert_at(m, id, comp))
  <1>1. /\ HybridOK(Hybrid!insert_at(a.hybrid, id, comp), insert_at(m, id, comp))
        /\ PlainOK(Sparse!insert_at(a.plain, id, comp), insert_at(m, id, comp))
        /\ PackedOK(Packed!insert(a.packed, id, comp), insert_at(m, id, comp))
    BY HybridInsert, PlainInsert, PackedInsert DEF ArrayOK
  <1> QED BY <1>1 DEF Inserted, ArrayOK, ArrayType, HybridOK, PlainOK, PackedOK

(* Erasing keeps the three arrays in agreement with the contents.          *)
LEMMA ErasedHolds ==
  ASSUME NEW m \in HybridArrays, NEW a, ArrayOK(a, m), NEW id \in Ids
  PROVE  ArrayOK(Erased(a, id), erase(m, id))
  <1>1. /\ HybridOK(Hybrid!erase(a.hybrid, id), erase(m, id))
        /\ PlainOK(Sparse!erase(a.plain, id), erase(m, id))
        /\ PackedOK(Packed!erase(a.packed, id), erase(m, id))
    BY HybridErase, PlainErase, PackedErase DEF ArrayOK
  <1> QED BY <1>1 DEF Erased, ArrayOK, ArrayType, HybridOK, PlainOK, PackedOK

(* get_ref() changes nothing the contents show.                            *)
LEMMA TouchedHolds ==
  ASSUME NEW m \in HybridArrays, NEW a, ArrayOK(a, m), NEW id \in Ids
  PROVE  ArrayOK(Touched(a, id), m)
  <1>1. /\ HybridOK(Hybrid!get_ref(a.hybrid, id), m)
        /\ PlainOK(Sparse!get_ref(a.plain, id), m)
        /\ PackedOK(a.packed, m)
    BY HybridGetRef, PlainGetRef DEF ArrayOK
  <1>2. /\ Touched(a, id).hybrid = Hybrid!get_ref(a.hybrid, id)
        /\ Touched(a, id).plain = Sparse!get_ref(a.plain, id)
        /\ Touched(a, id).packed = a.packed
    BY DEF Touched, ArrayOK, ArrayType
  <1>3. Touched(a, id) \in ArrayType
    BY <1>1 DEF Touched, ArrayOK, ArrayType, HybridOK, PlainOK
  <1> QED BY <1>1, <1>2, <1>3 DEF ArrayOK

(* The arrays of all types agree with the registry.                        *)
ArraysHold ==
    /\ DOMAIN arrays = DOMAIN reg.storage
    /\ \A c \in DOMAIN arrays : ArrayOK(arrays[c], reg.storage[c])

(* The inductive invariant of the registry with its arrays.                *)
ArraysInv == IInv /\ ArraysHold

(* What the registry's invariant says of one array's contents.             *)
LEMMA StoredContents ==
  ASSUME IInv
  PROVE  /\ DOMAIN reg.storage \subseteq Components
         /\ \A c \in DOMAIN reg.storage : reg.storage[c] \in HybridArrays
         /\ reg.storage = [c \in DOMAIN reg.storage |-> reg.storage[c]]
         /\ live \subseteq Ids
  <1>1. reg.storage \in Storages /\ live \subseteq Ids
    BY DEF IInv, TypeOK
  <1>2. PICK C \in SUBSET Components : reg.storage \in [C -> HybridArrays]
    BY <1>1 DEF Storages
  <1> QED BY <1>1, <1>2

(* After register_component(), as add_component() calls it first, the      *)
(* array of the type agrees with its contents.                             *)
LEMMA ArraysOf ==
  ASSUME ArraysInv, NEW c \in Components
  PROVE  LET old == IF c \in DOMAIN reg.storage THEN reg.storage
                                                ELSE insert_at(reg.storage, c, << >>)
         IN  /\ DOMAIN old = DOMAIN arrays \cup {c}
             /\ \A d \in DOMAIN arrays : old[d] = reg.storage[d]
             /\ old[c] \in HybridArrays /\ ArrayOK(Arrays(c), old[c])
             /\ \A d \in DOMAIN arrays : d = c => Arrays(c) = arrays[d]
  <1>1. CASE c \in DOMAIN reg.storage
    BY <1>1, StoredContents DEF ArraysInv, ArraysHold, Arrays
  <1>2. CASE c \notin DOMAIN reg.storage
    BY <1>2, EmptyArraysHold DEF ArraysInv, ArraysHold, Arrays, insert_at
  <1> QED BY <1>1, <1>2

(* The invariant holds at the start.                                       *)
LEMMA ArraysInitially == ArraysInit => ArraysInv
  <1> SUFFICES ASSUME ArraysInit PROVE ArraysInv
    OBVIOUS
  <1>1. IInv /\ reg.storage = << >> /\ arrays = << >>
    BY InitInvariant DEF ArraysInit, Init, EmptyRegistry
  <1>2. DOMAIN << >> = {}
    OBVIOUS
  <1> QED BY <1>1, <1>2 DEF ArraysInv, ArraysHold

(* register_component() keeps the arrays in agreement.                     *)
LEMMA RegisterArraysStep ==
  ASSUME ArraysInv, NEW c \in Components, RegisterArrays(c)
  PROVE  ArraysHold'
  <1> DEFINE old == IF c \in DOMAIN reg.storage THEN reg.storage
                                                ELSE insert_at(reg.storage, c, << >>)
  <1>1. /\ DOMAIN old = DOMAIN arrays \cup {c}
        /\ \A d \in DOMAIN arrays : old[d] = reg.storage[d]
        /\ ArrayOK(Arrays(c), old[c])
    BY ArraysOf
  <1>2. reg'.storage = old
    BY DEF RegisterArrays, Register, register_component, ArraysInv, IInv, TypeOK
  <1>3. /\ DOMAIN arrays' = DOMAIN arrays \cup {c}
        /\ \A d \in DOMAIN arrays \cup {c} :
              arrays'[d] = IF d = c THEN Arrays(c) ELSE arrays[d]
    BY DEF RegisterArrays, insert_at
  <1> HIDE DEF old
  <1> QED BY <1>1, <1>2, <1>3 DEF ArraysInv, ArraysHold

(* add_component() keeps the arrays in agreement.                          *)
LEMMA AttachArraysStep ==
  ASSUME ArraysInv, NEW e \in live, NEW c \in Components, NEW comp \in Values,
         AttachInArrays(c, e, comp)
  PROVE  ArraysHold'
  <1> DEFINE old == IF c \in DOMAIN reg.storage THEN reg.storage
                                                ELSE insert_at(reg.storage, c, << >>)
  <1>1. /\ DOMAIN old = DOMAIN arrays \cup {c}
        /\ \A d \in DOMAIN arrays : old[d] = reg.storage[d]
        /\ old[c] \in HybridArrays /\ ArrayOK(Arrays(c), old[c])
    BY ArraysOf
  <1>2. reg'.storage = [old EXCEPT ![c] = insert_at(@, e, comp)]
    BY DEF AttachInArrays, Attach, add_component, register_component, ArraysInv, IInv, TypeOK
  <1>3. /\ DOMAIN arrays' = DOMAIN arrays \cup {c}
        /\ \A d \in DOMAIN arrays \cup {c} :
              arrays'[d] = IF d = c THEN Inserted(Arrays(c), e, comp) ELSE arrays[d]
    BY DEF AttachInArrays, insert_at
  <1> HIDE DEF old
  <1>4. ArrayOK(Inserted(Arrays(c), e, comp), insert_at(old[c], e, comp))
    BY <1>1, InsertedHolds, StoredContents DEF ArraysInv
  <1>5. /\ DOMAIN reg'.storage = DOMAIN old
        /\ \A d \in DOMAIN old :
              reg'.storage[d] = IF d = c THEN insert_at(old[c], e, comp) ELSE old[d]
    BY <1>2
  <1> QED BY <1>1, <1>3, <1>4, <1>5 DEF ArraysInv, ArraysHold

(* remove_component() keeps the arrays in agreement.                       *)
LEMMA DetachArraysStep ==
  ASSUME ArraysInv, NEW e \in live, NEW c \in Components, DetachInArrays(c, e)
  PROVE  ArraysHold'
  <1>1. e \in Ids /\ \A d \in DOMAIN arrays :
            reg.storage[d] \in HybridArrays /\ ArrayOK(arrays[d], reg.storage[d])
    BY StoredContents DEF ArraysInv, ArraysHold
  <1>2. /\ DOMAIN reg'.storage = DOMAIN arrays
        /\ \A d \in DOMAIN arrays :
              reg'.storage[d] = IF d = c THEN erase(reg.storage[d], e) ELSE reg.storage[d]
    BY DEF DetachInArrays, Detach, remove_component, ArraysInv, ArraysHold, IInv, TypeOK
  <1>3. /\ DOMAIN arrays' = DOMAIN arrays
        /\ \A d \in DOMAIN arrays :
              arrays'[d] = IF d = c THEN Erased(arrays[d], e) ELSE arrays[d]
    BY DEF DetachInArrays
  <1>4. \A d \in DOMAIN arrays : ArrayOK(Erased(arrays[d], e), erase(reg.storage[d], e))
    BY <1>1, ErasedHolds
  <1> QED BY <1>1, <1>2, <1>3, <1>4 DEF ArraysHold

(* kill_entity() erases from every array, and keeps them in agreement.     *)
LEMMA KillArraysStep ==
  ASSUME ArraysInv, NEW e \in live, KillInArrays(e)
  PROVE  ArraysHold'
  <1>1. e \in Ids /\ \A d \in DOMAIN arrays :
            reg.storage[d] \in HybridArrays /\ ArrayOK(arrays[d], reg.storage[d])
    BY StoredContents DEF ArraysInv, ArraysHold
  <1>2. /\ DOMAIN reg'.storage = DOMAIN arrays
        /\ \A d \in DOMAIN arrays : reg'.storage[d] = erase(reg.storage[d], e)
    BY DEF KillInArrays, Kill, kill_entity, ArraysInv, ArraysHold, IInv, TypeOK
  <1>3. /\ DOMAIN arrays' = DOMAIN arrays
        /\ \A d \in DOMAIN arrays : arrays'[d] = Erased(arrays[d], e)
    BY DEF KillInArrays
  <1>4. \A d \in DOMAIN arrays : ArrayOK(Erased(arrays[d], e), erase(reg.storage[d], e))
    BY <1>1, ErasedHolds
  <1> QED BY <1>2, <1>3, <1>4 DEF ArraysHold

(* Reading a component by get_ref() keeps the arrays in agreement.         *)
LEMMA TouchStep ==
  ASSUME ArraysInv, NEW e \in Ids, NEW c \in Components, Touch(c, e)
  PROVE  ArraysHold'
  <1>1. \A d \in DOMAIN arrays :
            reg.storage[d] \in HybridArrays /\ ArrayOK(arrays[d], reg.storage[d])
    BY StoredContents DEF ArraysInv, ArraysHold
  <1>2. /\ DOMAIN arrays' = DOMAIN arrays /\ reg' = reg
        /\ \A d \in DOMAIN arrays :
              arrays'[d] = IF d = c THEN Touched(arrays[d], e) ELSE arrays[d]
    BY DEF Touch, vars
  <1>3. \A d \in DOMAIN arrays : ArrayOK(Touched(arrays[d], e), reg.storage[d])
    BY <1>1, TouchedHolds
  <1> QED BY <1>1, <1>2, <1>3 DEF ArraysInv, ArraysHold

(* One step keeps the invariant, and is a step of the registry or none.    *)
LEMMA ArraysStep ==
  ASSUME ArraysInv, [ArraysNext]_arrayVars
  PROVE  ArraysInv' /\ [Next]_vars
  <1>1. ASSUME ArraysHold', [Next]_vars PROVE ArraysInv' /\ [Next]_vars
    BY <1>1, StepInvariant DEF ArraysInv
  <1>2. ASSUME reg' = reg, arrays' = arrays PROVE ArraysHold'
    BY <1>2 DEF ArraysInv, ArraysHold
  <1>3. CASE SpawnOnly
    <2>1. reg'.storage = reg.storage
      BY <1>3 DEF SpawnOnly, Spawn, spawn_entity, ArraysInv, IInv, TypeOK
    <2>2. ArraysHold'
      BY <1>3, <2>1 DEF SpawnOnly, ArraysInv, ArraysHold
    <2> QED BY <1>1, <1>3, <2>2 DEF SpawnOnly, Next
  <1>4. ASSUME NEW c \in Components, RegisterArrays(c) PROVE ArraysInv' /\ [Next]_vars
    BY <1>1, <1>4, RegisterArraysStep DEF RegisterArrays, Next
  <1>5. ASSUME NEW e \in live, KillInArrays(e) PROVE ArraysInv' /\ [Next]_vars
    BY <1>1, <1>5, KillArraysStep DEF KillInArrays, Next
  <1>6. ASSUME NEW e \in Ids, NEW c \in Components, Touch(c, e) PROVE ArraysInv' /\ [Next]_vars
    BY <1>1, <1>6, TouchStep DEF Touch
  <1>7. ASSUME NEW e \in live, NEW c \in Components, DetachInArrays(c, e)
        PROVE  ArraysInv' /\ [Next]_vars
    BY <1>1, <1>7, DetachArraysStep DEF DetachInArrays, Next
  <1>8. ASSUME NEW e \in live, NEW c \in Components, NEW comp \in Values,
               AttachInArrays(c, e, comp)
        PROVE  ArraysInv' /\ [Next]_vars
    BY <1>1, <1>8, AttachArraysStep DEF AttachInArrays, Next
  <1>9. CASE Caller
    BY <1>3, <1>4, <1>5, <1>6, <1>7, <1>8, <1>9 DEF Caller
  <1>10. CASE WalkBegins \/ WalkMoves
    BY <1>1, <1>2, <1>10 DEF WalkBegins, WalkMoves, vars
  <1>11. CASE UNCHANGED arrayVars
    BY <1>1, <1>2, <1>11 DEF arrayVars, vars
  <1> QED BY <1>9, <1>10, <1>11 DEF ArraysNext
-----------------------------------------------------------------------------
(* The invariant holds of every behaviour.                                 *)
THEOREM ArraysInvariance == ArraysSpec => []ArraysInv
  <1>1. ArraysInv /\ [ArraysNext]_arrayVars => ArraysInv'
    BY ArraysStep
  <1> QED BY ArraysInitially, <1>1, PTL DEF ArraysSpec

(* The registry with its arrays behaves as the registry, so all that is    *)
(* proved of Spec holds of ArraysSpec.                                     *)
THEOREM ArraysImplementRegistry == ArraysSpec => Spec
  <1>1. ArraysInit => Init
    BY DEF ArraysInit
  <1>2. ArraysInv /\ [ArraysNext]_arrayVars => [Next]_vars
    BY ArraysStep
  <1> QED BY <1>1, <1>2, ArraysInvariance, PTL DEF ArraysSpec, Spec

(* HybridArray and sparse_array give every entity the component it has,    *)
(* and the count is exact (HybridArray.hpp:55-107,                         *)
(* SparseArray.hpp:57-105).                                                *)
THEOREM SparseCorrect == ArraysSpec => []SparseHoldsStorage
  <1>1. ArraysInv => SparseHoldsStorage
    <2> SUFFICES ASSUME ArraysInv PROVE SparseHoldsStorage
      OBVIOUS
    <2>1. ASSUME NEW c \in DOMAIN arrays PROVE HoldsSparsely(arrays[c], reg.storage[c])
      BY DEF ArraysInv, ArraysHold, ArrayOK, HybridOK, PlainOK, HoldsSparsely
    <2> QED BY <2>1 DEF ArraysInv, ArraysHold, SparseHoldsStorage
  <1> QED BY <1>1, ArraysInvariance, PTL

(* PackedArray holds the components of exactly the entities that have one, *)
(* each where its map says (PackedArray.hpp:18-76).                        *)
THEOREM PackedCorrect == ArraysSpec => []PackedHoldsStorage
  <1>1. ArraysInv => PackedHoldsStorage
    <2> SUFFICES ASSUME ArraysInv PROVE PackedHoldsStorage
      OBVIOUS
    <2>1. ASSUME NEW c \in DOMAIN arrays PROVE HoldsDensely(arrays[c].packed, reg.storage[c])
      BY DEF ArraysInv, ArraysHold, ArrayOK, PackedOK
    <2> QED BY <2>1 DEF ArraysInv, ArraysHold, PackedHoldsStorage
  <1> QED BY <1>1, ArraysInvariance, PTL
===============================================================================

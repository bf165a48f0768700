----------------------------- MODULE PackedArray -----------------------------
(***************************************************************************)
(* PackedArray (include/PackedArray.hpp): components side by side, their   *)
(* entities in a second vector, and a map from entities to positions,      *)
(* which count from 0.  An operator X_... is a mutated form of X.          *)
(***************************************************************************)
EXTENDS Integers, Sequences, SequencesExt

EmptyArray == [entities |-> << >>, components |-> << >>, index_map |-> << >>]

contains(p, ent) == ent \in DOMAIN p.index_map

insert(p, ent, comp) ==
    IF contains(p, ent)
    THEN [p EXCEPT !.components[p.index_map[ent] + 1] = comp]
    ELSE [entities   |-> Append(p.entities, ent),
          components |-> Append(p.components, comp),
          index_map  |-> [e \in DOMAIN p.index_map \cup {ent} |->
              IF e = ent THEN Len(p.components) ELSE p.index_map[e]]]

(* Swap-remove: the last component takes the place of the erased one.      *)
erase_IndexKept(p, ent) ==
    IF ~contains(p, ent) THEN p
    ELSE LET idx   == p.index_map[ent]
             moved == Last(p.entities)
         IN  [entities   |-> Front([p.entities EXCEPT ![idx + 1] = moved]),
              components |-> Front([p.components EXCEPT ![idx + 1] = Last(p.components)]),
              index_map  |-> Restrict(p.index_map, DOMAIN p.index_map \ {ent})]
erase(p, ent) ==
    IF ~contains(p, ent) THEN p
    ELSE LET idx   == p.index_map[ent]
             moved == Last(p.entities)
         IN  [entities   |-> Front([p.entities EXCEPT ![idx + 1] = moved]),
              components |-> Front([p.components EXCEPT ![idx + 1] = Last(p.components)]),
              index_map  |-> [e \in DOMAIN p.index_map \ {ent} |->
                  IF e = moved THEN idx ELSE p.index_map[e]]]
=============================================================================

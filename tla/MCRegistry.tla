----------------------------- MODULE MCRegistry -----------------------------
(***************************************************************************)
(* Registry with its arrays for TLC.                                       *)
(***************************************************************************)
EXTENDS RegistryArrays

(* Nothing tells component types, or values, apart.                        *)
Symmetric == Permutations(Components) \cup Permutations(Values)
=============================================================================

------------------------------- MODULE Zipper -------------------------------
(***************************************************************************)
(* indexed_zipper (include/Zipper.hpp) over a set cs of HybridArrays: the  *)
(* indices at which every array holds a component, in ascending order.     *)
(* The end is fixed when the loop begins; the arrays are read when the     *)
(* iterator moves.  An operator X_... is a mutated form of X.              *)
(***************************************************************************)
EXTENDS Naturals, Sequences, FiniteSetsExt

Hybrid == INSTANCE HybridArray

size(cs) == Max({Len(a.sparse) : a \in cs} \cup {0})

all_set(cs, idx) == \A a \in cs : Hybrid!has(a, idx)

(* Where the iterator stops, from idx on.                                  *)
skip(cs, max, idx) == Min({i \in idx .. max : i = max \/ all_set(cs, i)})

begin_Unchecked(cs) == 0
begin(cs)           == skip(cs, size(cs), 0)
next(cs, max, idx)  == skip(cs, max, idx + 1)
=============================================================================

----------------------------- MODULE MCSessions -----------------------------
(***************************************************************************)
(* Sessions for TLC.  Tokens are only compared, so they are symmetric.     *)
(***************************************************************************)
EXTENDS Sessions

TokenSymmetry == Permutations(Tokens)
=============================================================================

----------------------------- MODULE MCGameWorld -----------------------------
(***************************************************************************)
(* GameWorld for TLC.                                                      *)
(***************************************************************************)
EXTENDS GameWorld
=============================================================================

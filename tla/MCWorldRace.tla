----------------------------- MODULE MCWorldRace -----------------------------
(***************************************************************************)
(* WorldRace for TLC: a bullet and an enemy.                               *)
(***************************************************************************)
EXTENDS WorldRace
=============================================================================

------------------------------ MODULE MCFlight ------------------------------
(***************************************************************************)
(* Flight for TLC: a player that stands still or goes left and shoots.     *)
(***************************************************************************)
EXTENDS Flight

LeftOnly == {<< 0, 0 >>, << -1, 0 >>}
StandStill == {<< 0, 0 >>}
=============================================================================

------------------------------ MODULE MCClient ------------------------------
(* Client for TLC: the documented port, and one that fits no short.         *)
EXTENDS Client, TLC

MCUdpPorts == {4243, 41000}
=============================================================================

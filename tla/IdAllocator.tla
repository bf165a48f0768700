---------------------------- MODULE IdAllocator ----------------------------
(***************************************************************************)
(* What the users of the registry rely on: an allocator that hands out     *)
(* only identifiers nobody holds, takes back only identifiers somebody     *)
(* holds, and knows how many are out.                                      *)
(***************************************************************************)
EXTENDS Naturals

CONSTANT Ids            \* the identifiers that may be handed out

VARIABLES held, count   \* identifiers in use, and how many there are

vars == << held, count >>

Init == held = {} /\ count = 0

Acquire == \E id \in Ids \ held :
             /\ held' = held \cup {id}
             /\ count' = count + 1

Release == \E id \in held :
             /\ held' = held \ {id}
             /\ count' = count - 1

Next == Acquire \/ Release

Spec == Init /\ [][Next]_vars
=============================================================================

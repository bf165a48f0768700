-------------------------------- MODULE Arena --------------------------------
(***************************************************************************)
(* What the game world promises, with nothing of how it is stored: the     *)
(* entities there are, by network id.  GameWorld implements it (a property *)
(* of its run); Replica takes it as the world its client looks at.         *)
(*                                                                         *)
(* A bullet is spent when it has hit something or its lifetime is over; an *)
(* entity without a Health component counts as 100, as in                  *)
(* broadcastWorldState.  An operator X_... is a mutated form of X.         *)
(***************************************************************************)
EXTENDS Naturals

CONSTANT MaxIds         \* bound: network ids 1 .. MaxIds are given out

VARIABLES arena,         \* network id -> entity, for those in the world
          nextNetworkId  \* _nextNetworkId

arenaVars == << arena, nextNetworkId >>

Kinds == {"PLAYER", "ENEMY", "BULLET_PLAYER"}

FullHealth(kind) == IF kind = "ENEMY" THEN 50 ELSE 100
BULLET_DAMAGE    == 25

Present(kind) == {n \in DOMAIN arena : arena[n].kind = kind}
Bullets       == {n \in Present("BULLET_PLAYER") : ~arena[n].spent}
Dead          == {n \in Present("ENEMY") : arena[n].health = 0}
Doomed        == Dead \cup (Present("BULLET_PLAYER") \ Bullets)

Init == arena = << >> /\ nextNetworkId = 1

(* A player connects, an enemy is spawned or a bullet shot.                *)
Enter(kind) ==
    /\ nextNetworkId <= MaxIds
    /\ nextNetworkId' = nextNetworkId + 1
    /\ arena' = [n \in DOMAIN arena \cup {nextNetworkId} |->
          IF n = nextNetworkId
          THEN [kind |-> kind, health |-> FullHealth(kind), spent |-> FALSE]
          ELSE arena[n]]

Without(n) == [k \in DOMAIN arena \ {n} |-> arena[k]]

(* A player disconnects.                                                   *)
Leave(n) ==
    /\ n \in Present("PLAYER")
    /\ UNCHANGED nextNetworkId
    /\ arena' = Without(n)

(* A bullet hits an enemy, maybe one that another bullet of the same tick  *)
(* has already killed.                                                     *)
Hit(b, n) ==
    /\ b \in Bullets
    /\ n \in Present("ENEMY")
    /\ arena' = [arena EXCEPT
          ![b].spent  = TRUE,
          ![n].health = IF @ > BULLET_DAMAGE THEN @ - BULLET_DAMAGE ELSE 0]
    /\ UNCHANGED nextNetworkId

(* The lifetimes of the bullets S are over.                                *)
Expire(S) ==
    /\ S # {} /\ S \subseteq Bullets
    /\ arena' = [n \in DOMAIN arena |->
          IF n \in S THEN [arena[n] EXCEPT !.spent = TRUE] ELSE arena[n]]
    /\ UNCHANGED nextNetworkId

(* destroyEntity: only a spent bullet or a dead enemy is ever destroyed.   *)
Destroy_AnyHit(n) ==
    /\ n \in Doomed \cup Present("ENEMY")
    /\ arena' = Without(n)
    /\ UNCHANGED nextNetworkId
Destroy(n) ==
    /\ n \in Doomed
    /\ arena' = Without(n)
    /\ UNCHANGED nextNetworkId

Next == \/ \E kind \in Kinds : Enter(kind)
        \/ \E n \in DOMAIN arena : Leave(n) \/ Destroy(n)
        \/ \E b, n \in DOMAIN arena : Hit(b, n)
        \/ \E S \in SUBSET Bullets : Expire(S)

Spec == Init /\ [][Next]_arenaVars
=============================================================================

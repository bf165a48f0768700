---------------------------- MODULE ClientProofs ----------------------------
(***************************************************************************)
(* What the client's table shows, for any number of entities and packets   *)
(* on their way.                                                           *)
(*                                                                         *)
(* On any network: a packet is true if what it says of an entity was so at *)
(* one time.  The world only adds to what is true, as an id is never used  *)
(* again, a kind never changes and an enemy's health only falls; so true   *)
(* packets, in any order, leave a true table.                              *)
(*                                                                         *)
(* On a network that keeps order: each announced entity has been shown, is *)
(* on its way or has still to be sent, and each entity shown that is gone  *)
(* has the news of its end behind it, unless it ended between the reading  *)
(* and the sending of onPlayerUdpReady.                                    *)
(***************************************************************************)
EXTENDS Client, LinkProofs

Entities == [kind : World!Kinds, health : 0 .. 100, spent : BOOLEAN]

WorldOK ==
    /\ nextNetworkId \in Nat \ {0}
    /\ DOMAIN arena \subseteq 1 .. nextNetworkId - 1
    /\ \A n \in DOMAIN arena :
          arena[n] \in Entities /\ (arena[n].kind = "ENEMY" => arena[n].health <= 50)

(* The ships, and the entities still to be sent, are entities of the past  *)
(* or the present; a ship whose first packet has not come is in the world. *)
PartiesOK ==
    /\ ordered \in BOOLEAN
    /\ ship # NoShip => ship \in World!Present("PLAYER")
    /\ ship \in Nat
    /\ unannounced \subseteq World!Present("PLAYER")
    /\ unsent \subseteq 0 .. nextNetworkId - 1

Spawns   == [type : {"ENTITY_SPAWN"}, id : Nat, kind : World!Kinds, health : 0 .. 100]
Destroys == [type : {"ENTITY_DESTROY"}, id : Nat]
Batches  == [type : {"ENTITY_BATCH_UPDATE"}, health : UNION {[S -> 0 .. 100] : S \in SUBSET Nat}]
Messages == Spawns \cup Destroys \cup Batches

WasSo(n, kind, health) ==
    /\ n < nextNetworkId
    /\ n \in DOMAIN arena =>
          /\ kind = arena[n].kind
          /\ arena[n].kind = "ENEMY" => arena[n].health <= health /\ health <= 50

WasHealth(n, health) ==
    /\ n < nextNetworkId
    /\ n \in DOMAIN arena /\ arena[n].kind = "ENEMY" => arena[n].health <= health /\ health <= 50

IsGone(n) == n < nextNetworkId /\ n \notin DOMAIN arena

TrueMessages == {p \in Messages :
    /\ p.type = "ENTITY_SPAWN" => WasSo(p.id, p.kind, p.health)
    /\ p.type = "ENTITY_DESTROY" => IsGone(p.id)
    /\ p.type = "ENTITY_BATCH_UPDATE" => \A n \in DOMAIN p.health : WasHealth(n, p.health[n])}

TrueSpawns == {p \in TrueMessages : p.type = "ENTITY_SPAWN"}

TableOK ==
    \A n \in DOMAIN table :
        /\ n \in Nat
        /\ table[n] \in [kind : World!Kinds, health : 0 .. 100]
        /\ WasSo(n, table[n].kind, table[n].health)

AllTrue ==
    /\ WorldOK
    /\ PartiesOK
    /\ down \in Seq(TrueMessages)
    /\ packet \in TrueSpawns \cup {NoPacket}
    /\ TableOK
-----------------------------------------------------------------------------
(* What is true stays true while the world changes so.                     *)
Fades ==
    /\ nextNetworkId <= nextNetworkId'
    /\ \A n \in DOMAIN arena' : n < nextNetworkId =>
          /\ n \in DOMAIN arena
          /\ arena'[n].kind = arena[n].kind
          /\ arena'[n].health <= arena[n].health

(* A message is of one of three types, and has that type's fields.         *)
LEMMA MessageTypes ==
  ASSUME NEW p \in Messages
  PROVE  /\ p.type \in {"ENTITY_SPAWN", "ENTITY_DESTROY", "ENTITY_BATCH_UPDATE"}
         /\ p.type = "ENTITY_SPAWN" => p \in Spawns
         /\ p.type = "ENTITY_DESTROY" => p \in Destroys
         /\ p.type = "ENTITY_BATCH_UPDATE" => p \in Batches
  BY DEF Messages, Spawns, Destroys, Batches

(* The messages the server makes are messages.                             *)
LEMMA MessagesMade ==
  /\ \A n \in Nat, k \in World!Kinds, h \in 0 .. 100 :
        /\ Spawn(n, k, h) \in Messages
        /\ Spawn(n, k, h) = [type |-> "ENTITY_SPAWN", id |-> n, kind |-> k, health |-> h]
  /\ \A n \in Nat : Destroy(n) \in Messages /\ Destroy(n) = [type |-> "ENTITY_DESTROY", id |-> n]
  BY DEF Messages, Spawns, Destroys, Spawn, Destroy

(* An ENTITY_SPAWN that says what is so now is true.                       *)
LEMMA SpawnIsTrue ==
  ASSUME NEW n \in Nat, NEW k \in World!Kinds, NEW h \in 0 .. 100
  PROVE  /\ WasSo(n, k, h) => Spawn(n, k, h) \in TrueSpawns
         /\ WasSo(n, k, h)' => Spawn(n, k, h) \in TrueMessages' /\ Spawn(n, k, h) \in TrueSpawns'
  <1> DEFINE p == Spawn(n, k, h)
  <1>1. /\ p \in Messages
        /\ p.type = "ENTITY_SPAWN" /\ p.id = n /\ p.kind = k /\ p.health = h
    <2>1. p = [type |-> "ENTITY_SPAWN", id |-> n, kind |-> k, health |-> h]
      BY DEF Spawn
    <2>2. p \in Messages
      BY <2>1 DEF Messages, Spawns
    <2> HIDE DEF p
    <2> QED BY <2>1, <2>2
  <1> HIDE DEF p
  <1>2. WasSo(n, k, h) => p \in TrueSpawns
    BY <1>1 DEF TrueSpawns, TrueMessages
  <1>3. WasSo(n, k, h)' => p \in TrueMessages' /\ p \in TrueSpawns'
    BY <1>1 DEF TrueSpawns, TrueMessages
  <1> QED BY <1>2, <1>3 DEF p

(* Healths of entities of the world make a batch.                          *)
LEMMA BatchMade ==
  ASSUME WorldOK
  PROVE  Batch \in TrueMessages
  <1> DEFINE H == [n \in DOMAIN arena |-> arena[n].health]
  <1>1. DOMAIN arena \in SUBSET Nat
    BY DEF WorldOK
  <1>2. \A n \in DOMAIN arena : arena[n].health \in 0 .. 100
    BY DEF WorldOK, Entities
  <1>3. H \in [DOMAIN arena -> 0 .. 100]
    BY <1>2
  <1>4. H \in UNION {[S -> 0 .. 100] : S \in SUBSET Nat}
    BY <1>1, <1>3
  <1>5. \A n \in DOMAIN H : WasHealth(n, H[n])
    BY <1>1, <1>2 DEF WasHealth, WorldOK
  <1>6. Batch = [type |-> "ENTITY_BATCH_UPDATE", health |-> H]
    BY DEF Batch
  <1> HIDE DEF H
  <1> QED BY <1>4, <1>5, <1>6 DEF TrueMessages, Messages, Batches
-----------------------------------------------------------------------------
(* Every step of the world.                                                *)
LEMMA WorldStep ==
  ASSUME WorldOK, [World!Next]_(World!arenaVars)
  PROVE  WorldOK' /\ Fades
  <1>0. World!Kinds = {"PLAYER", "ENEMY", "BULLET_PLAYER"}
    BY DEF World!Kinds
  <1>1. ASSUME NEW kind \in World!Kinds, World!Enter(kind) PROVE WorldOK' /\ Fades
    BY <1>0, <1>1 DEF WorldOK, Fades, Entities, World!Enter, World!FullHealth
  <1>2. ASSUME NEW n \in DOMAIN arena, World!Leave(n) \/ World!Destroy(n) PROVE WorldOK' /\ Fades
    BY <1>2 DEF WorldOK, Fades, Entities, World!Leave, World!Destroy, World!Without
  <1>3. ASSUME NEW b \in DOMAIN arena, NEW n \in DOMAIN arena, World!Hit(b, n)
        PROVE  WorldOK' /\ Fades
    <2>1. arena[b].kind = "BULLET_PLAYER" /\ arena[n].kind = "ENEMY" /\ b # n
      BY <1>3 DEF World!Hit, World!Bullets, World!Present
    <2>2. /\ DOMAIN arena' = DOMAIN arena
          /\ \A k \in DOMAIN arena : k # b /\ k # n => arena'[k] = arena[k]
          /\ arena'[b] = [arena[b] EXCEPT !.spent = TRUE]
          /\ arena'[n] = [arena[n] EXCEPT !.health = IF @ > 25 THEN @ - 25 ELSE 0]
      BY <1>3, <2>1 DEF World!Hit, World!BULLET_DAMAGE
    <2>3. /\ arena'[b] \in Entities /\ arena'[b].kind = arena[b].kind /\ arena'[b].health <= arena[b].health
          /\ arena'[n] \in Entities /\ arena'[n].kind = arena[n].kind /\ arena'[n].health <= arena[n].health
      <3>1. arena[b] \in Entities /\ arena[n] \in Entities
        BY DEF WorldOK
      <3>2. arena'[b] \in Entities /\ arena'[b].kind = arena[b].kind /\ arena'[b].health <= arena[b].health
        <4>1. arena'[b] \in Entities /\ arena'[b].kind = arena[b].kind /\ arena'[b].health = arena[b].health
          BY <2>2, <3>1 DEF Entities
        <4>2. arena[b].health \in Int
          BY <3>1 DEF Entities
        <4> QED BY <4>1, <4>2
      <3>3. arena'[n] \in Entities /\ arena'[n].kind = arena[n].kind /\ arena'[n].health <= arena[n].health
        BY <2>2, <3>1 DEF Entities
      <3> QED BY <3>2, <3>3
    <2>4. nextNetworkId' = nextNetworkId
      BY <1>3 DEF World!Hit
    <2>5. \A k \in DOMAIN arena : arena[k].health \in 0 .. 100
      BY DEF WorldOK, Entities
    <2>6. \A k \in DOMAIN arena : /\ arena'[k] \in Entities
                                  /\ arena'[k].kind = arena[k].kind
                                  /\ arena'[k].health <= arena[k].health
      <3>1. ASSUME NEW k \in DOMAIN arena
            PROVE  arena'[k] \in Entities /\ arena'[k].kind = arena[k].kind /\ arena'[k].health <= arena[k].health
        <4>1. CASE k # b /\ k # n
          BY <2>2, <2>5, <4>1 DEF WorldOK
        <4> QED BY <2>3, <4>1
      <3> QED BY <3>1
    <2>7. \A k \in DOMAIN arena : arena'[k].health \in 0 .. 100
      BY <2>6 DEF Entities
    <2> QED BY <2>1, <2>2, <2>4, <2>5, <2>6, <2>7 DEF WorldOK, Fades
  <1>4. ASSUME NEW S \in SUBSET World!Bullets, World!Expire(S) PROVE WorldOK' /\ Fades
    <2>1. DOMAIN arena' = DOMAIN arena /\ nextNetworkId' = nextNetworkId
      BY <1>4 DEF World!Expire
    <2>2. ASSUME NEW k \in DOMAIN arena
          PROVE  /\ arena'[k] \in Entities
                 /\ arena'[k].kind = arena[k].kind
                 /\ arena'[k].health = arena[k].health
      <3>1. arena[k] \in Entities
        BY DEF WorldOK
      <3>2. arena'[k] = arena[k] \/ arena'[k] = [arena[k] EXCEPT !.spent = TRUE]
        BY <1>4 DEF World!Expire
      <3> QED BY <3>1, <3>2 DEF Entities
    <2>3. \A k \in DOMAIN arena : arena[k].health \in 0 .. 100
      BY DEF WorldOK, Entities
    <2> QED BY <2>1, <2>2, <2>3 DEF WorldOK, Fades
  <1>5. CASE UNCHANGED World!arenaVars
    <2>1. arena' = arena /\ nextNetworkId' = nextNetworkId
      BY <1>5 DEF World!arenaVars
    <2>2. \A k \in DOMAIN arena : arena[k].health \in 0 .. 100
      BY DEF WorldOK, Entities
    <2> QED BY <2>1, <2>2 DEF WorldOK, Fades
  <1> QED BY <1>1, <1>2, <1>3, <1>4, <1>5 DEF World!Next

(* What was true is true after such a step.                                *)
LEMMA TruthStays ==
  ASSUME WorldOK, WorldOK', Fades
  PROVE  /\ TrueMessages \subseteq TrueMessages'
         /\ TrueSpawns \subseteq TrueSpawns'
         /\ \A n \in Nat, e \in [kind : World!Kinds, health : 0 .. 100] :
               WasSo(n, e.kind, e.health) => WasSo(n, e.kind, e.health)'
  <1>1. /\ nextNetworkId \in Nat /\ nextNetworkId' \in Nat
        /\ DOMAIN arena \subseteq Nat
        /\ \A n \in DOMAIN arena : arena[n].health \in Nat
        /\ \A n \in DOMAIN arena' : arena'[n].health \in Nat
    BY DEF WorldOK, Entities
  <1>2. ASSUME NEW n \in Nat, NEW h \in 0 .. 100 
        PROVE  /\ \A k \in World!Kinds : WasSo(n, k, h) => WasSo(n, k, h)'
               /\ WasHealth(n, h) => WasHealth(n, h)'
               /\ IsGone(n) => IsGone(n)'
    BY <1>1 DEF Fades, WasSo, WasHealth, IsGone
  <1>3. ASSUME NEW p \in TrueMessages PROVE p \in TrueMessages'
    <2>0. p \in Messages
      BY DEF TrueMessages
    <2>1. CASE p.type = "ENTITY_SPAWN"
      <3>1. p.id \in Nat /\ p.kind \in World!Kinds /\ p.health \in 0 .. 100 /\ WasSo(p.id, p.kind, p.health)
        BY <2>0, <2>1, MessageTypes DEF Spawns, TrueMessages
      <3>2. WasSo(p.id, p.kind, p.health)'
        BY <1>2, <3>1
      <3> QED BY <2>0, <2>1, <3>2 DEF TrueMessages
    <2>2. CASE p.type = "ENTITY_DESTROY"
      <3>1. p.id \in Nat /\ IsGone(p.id)
        BY <2>0, <2>2, MessageTypes DEF Destroys, TrueMessages
      <3>2. IsGone(p.id)'
        BY <1>2, <3>1
      <3> QED BY <2>0, <2>2, <3>2 DEF TrueMessages
    <2>3. CASE p.type = "ENTITY_BATCH_UPDATE"
      <3>1. p.health \in UNION {[S -> 0 .. 100] : S \in SUBSET Nat}
        BY <2>0, <2>3, MessageTypes DEF Batches
      <3>2. \A n \in DOMAIN p.health : n \in Nat /\ p.health[n] \in 0 .. 100 /\ WasHealth(n, p.health[n])
        BY <2>3, <3>1 DEF TrueMessages
      <3>3. \A n \in DOMAIN p.health : WasHealth(n, p.health[n])'
        BY <1>2, <3>2
      <3> QED BY <2>0, <2>3, <3>3 DEF TrueMessages
    <2> QED BY <2>0, <2>1, <2>2, <2>3, MessageTypes
  <1>4. TrueSpawns \subseteq TrueSpawns'
    BY <1>3 DEF TrueSpawns
  <1> QED BY <1>2, <1>3, <1>4
-----------------------------------------------------------------------------
(* SetToSeq of a finite set is a sequence of its elements.                 *)
LEMMA SetToSeqType ==
  ASSUME NEW S, IsFiniteSet(S)
  PROVE  SetToSeq(S) \in Seq(S)
  <1> DEFINE N == Cardinality(S)
  <1>1. N \in Nat /\ ExistsBijection(1 .. N, S)
    BY FS_CardinalityType
  <1>2. PICK f \in [1 .. N -> S] : IsInjective(f)
    BY <1>1 DEF ExistsBijection, Bijection, Injection, IsInjective
  <1>3. SetToSeq(S) \in [1 .. N -> S]
    BY <1>2 DEF SetToSeq
  <1> QED BY <1>1, <1>3

(* Sending a message of T on any network leaves messages of T.             *)
LEMMA SendType ==
  ASSUME NEW T, NEW p \in T, down \in Seq(T), ordered \in BOOLEAN, Send(p)
  PROVE  down' \in Seq(T)
  <1>1. CASE ordered
    BY <1>1 DEF Send
  <1>2. CASE ~ordered
    <2> DEFINE others == Range(down) \ {p}
    <2>1. Range(down) \subseteq T /\ IsFiniteSet(Range(down))
      <3>1. DOMAIN down = 1 .. Len(down) /\ Len(down) \in Nat /\ \A i \in DOMAIN down : down[i] \in T
        OBVIOUS
      <3>2. IsFiniteSet(DOMAIN down)
        BY <3>1, FS_Interval
      <3>3. down \in Surjection(DOMAIN down, Range(down))
        BY <3>1 DEF Surjection, Range
      <3> QED BY <3>1, <3>2, <3>3, FS_Surjection DEF Range
    <2>2. \A S \in SUBSET others : S \cup {p} \in SUBSET T /\ IsFiniteSet(S \cup {p})
      BY <2>1, FS_Subset, FS_AddElement
    <2>3. PICK S \in SUBSET others : down' = SetToSeq(S \cup {p})
      BY <1>2 DEF Send
    <2>4. down' \in Seq(S \cup {p})
      BY <2>2, <2>3, SetToSeqType
    <2> QED BY <2>2, <2>4, SeqMonotonic
  <1> QED BY <1>1, <1>2
-----------------------------------------------------------------------------
(* The steps of Replica.                                                   *)
ReplicaStep ==
    \/ session = "listed" /\ OwnShipEnters
    \/ OtherEnters \/ Shoot
    \/ \E n \in DOMAIN arena : OtherLeaves(n) \/ DestroyEntity(n)
    \/ \E n \in unannounced : OtherIsReady(n)
    \/ FirstPacket \/ SnapshotSend
    \/ \E n \in unsent : SnapshotRead(n)
    \/ SpawnEnemy \/ Collide \/ BroadcastWorldState
    \/ \E i \in DOMAIN down : Receive(i)
    \/ client = "connected" /\ SendInput
    \/ LoseInput

(* What a step of the client as a whole does to Replica, and to Link.      *)
LEMMA StepsOfReplica ==
  [Next]_vars => /\ ReplicaStep \/ UNCHANGED replicaVars
                 /\ LinkStep \/ UNCHANGED linkVars
  BY DEF Next, vars, IoThread, HandleLine, GameThread, ClientProcess, Frame, Network, ReplicaStep,
         LinkStep, KnowsServer, AcceptConnect, LineArrives

(* What any step of the world leaves in place: the truth of messages and   *)
(* of the table, and every ship that does not leave.                       *)
LEMMA Carried ==
  ASSUME AllTrue, [World!Next]_(World!arenaVars)
  PROVE  /\ WorldOK'
         /\ nextNetworkId <= nextNetworkId'
         /\ down \in Seq(TrueMessages')
         /\ packet \in TrueSpawns' \cup {NoPacket}
         /\ UNCHANGED table => TableOK'
  <1>1. WorldOK' /\ Fades
    BY WorldStep DEF AllTrue
  <1>2. down \in Seq(TrueMessages')
    BY <1>1, TruthStays, SeqMonotonic DEF AllTrue
  <1>3. packet \in TrueSpawns' \cup {NoPacket}
    BY <1>1, TruthStays DEF AllTrue
  <1>4. ASSUME UNCHANGED table PROVE TableOK'
    <2>1. ASSUME NEW n \in DOMAIN table
          PROVE  /\ n \in Nat
                 /\ table[n] \in [kind : World!Kinds, health : 0 .. 100]
                 /\ WasSo(n, table[n].kind, table[n].health)
      BY DEF AllTrue, TableOK
    <2>2. ASSUME NEW n \in DOMAIN table
          PROVE  \A e \in [kind : World!Kinds, health : 0 .. 100] :
                    e = table[n] => WasSo(n, e.kind, e.health)'
      BY <1>1, <2>1, TruthStays DEF AllTrue
    <2> QED BY <1>4, <2>1, <2>2 DEF TableOK, WasSo
  <1> QED BY <1>1, <1>2, <1>3, <1>4 DEF Fades

(* What an entity that enters has, and the others keep.                    *)
LEMMA Entering ==
  ASSUME AllTrue, NEW kind \in World!Kinds, World!Enter(kind)
  PROVE  /\ [World!Next]_(World!arenaVars)
         /\ nextNetworkId' = nextNetworkId + 1
         /\ nextNetworkId \notin DOMAIN arena
         /\ DOMAIN arena' = DOMAIN arena \cup {nextNetworkId}
         /\ \A n \in DOMAIN arena : arena'[n] = arena[n]
         /\ arena'[nextNetworkId].kind = kind
         /\ arena'[nextNetworkId].health = World!FullHealth(kind)
  <1>1. nextNetworkId \in Nat /\ nextNetworkId \notin DOMAIN arena
    BY DEF AllTrue, WorldOK
  <1>2. arena' = [n \in DOMAIN arena \cup {nextNetworkId} |->
          IF n = nextNetworkId
          THEN [kind |-> kind, health |-> World!FullHealth(kind), spent |-> FALSE]
          ELSE arena[n]]
    BY DEF World!Enter
  <1>3. /\ DOMAIN arena' = DOMAIN arena \cup {nextNetworkId}
        /\ \A n \in DOMAIN arena : arena'[n] = arena[n]
    BY <1>1, <1>2
  <1>4. arena'[nextNetworkId] = [kind |-> kind, health |-> World!FullHealth(kind), spent |-> FALSE]
    BY <1>2
  <1> QED BY <1>1, <1>3, <1>4 DEF World!Enter, World!Next

(* An entity that goes is gone for good.                                   *)
LEMMA Going ==
  ASSUME AllTrue, NEW n \in DOMAIN arena, World!Leave(n) \/ World!Destroy(n)
  PROVE  /\ [World!Next]_(World!arenaVars)
         /\ nextNetworkId' = nextNetworkId
         /\ DOMAIN arena' = DOMAIN arena \ {n}
         /\ \A k \in DOMAIN arena' : arena'[k] = arena[k]
         /\ Destroy(n) \in TrueMessages'
  <1>1. /\ nextNetworkId' = nextNetworkId
        /\ DOMAIN arena' = DOMAIN arena \ {n}
        /\ \A k \in DOMAIN arena' : arena'[k] = arena[k]
    BY DEF World!Leave, World!Destroy, World!Without
  <1>2. n \in Nat /\ n < nextNetworkId
    BY DEF AllTrue, WorldOK
  <1>3. IsGone(n)'
    BY <1>1, <1>2 DEF IsGone
  <1>4. Destroy(n) \in TrueMessages'
    BY <1>2, <1>3, MessagesMade DEF TrueMessages
  <1> QED BY <1>1, <1>4 DEF World!Next

(* A broadcast or a sending of a true message leaves true messages.        *)
LEMMA Sending ==
  ASSUME AllTrue, [World!Next]_(World!arenaVars), NEW p \in TrueMessages',
         Send(p) \/ Broadcast(p)
  PROVE  down' \in Seq(TrueMessages')
  <1>1. down \in Seq(TrueMessages') /\ ordered \in BOOLEAN
    BY Carried DEF AllTrue, PartiesOK
  <1>2. CASE Send(p)
    BY <1>1, <1>2, SendType
  <1> QED BY <1>1, <1>2 DEF Broadcast
-----------------------------------------------------------------------------
(* Nothing is said at first.                                               *)
LEMMA TrueInit == Init => AllTrue
  <1> SUFFICES ASSUME Init PROVE AllTrue
    OBVIOUS
  <1> USE DEF Init, ReplicaInit, World!Init
  <1>1. WorldOK
    BY DEF WorldOK
  <1>2. PartiesOK
    BY DEF PartiesOK, NoShip
  <1>3. TableOK
    BY DEF TableOK
  <1> QED BY <1>1, <1>2, <1>3 DEF AllTrue

(* Every step of Replica keeps the truth.                                  *)
LEMMA TrueStep ==
  ASSUME AllTrue, ReplicaStep \/ UNCHANGED replicaVars
  PROVE  AllTrue'
  <1> USE DEF replicaVars, worldVars, netVars, serverVars
  <1>0. World!Kinds = {"PLAYER", "ENEMY", "BULLET_PLAYER"}
    BY DEF World!Kinds
  <1>a. /\ nextNetworkId \in Nat \ {0} /\ ship \in Nat /\ ordered \in BOOLEAN
        /\ DOMAIN arena \subseteq 1 .. nextNetworkId - 1
        /\ unannounced \subseteq DOMAIN arena
        /\ unsent \subseteq 0 .. nextNetworkId - 1
        /\ \A n \in unannounced : arena[n].kind = "PLAYER"
        /\ ship # NoShip => ship \in DOMAIN arena /\ arena[ship].kind = "PLAYER"
    BY DEF AllTrue, WorldOK, PartiesOK, World!Present
  <1>1. ASSUME OwnShipEnters \/ OtherEnters PROVE AllTrue'
    <2>1. World!Enter("PLAYER")
      BY <1>1 DEF OwnShipEnters, OtherEnters
    <2>2. /\ nextNetworkId' = nextNetworkId + 1
          /\ DOMAIN arena' = DOMAIN arena \cup {nextNetworkId}
          /\ \A n \in DOMAIN arena : arena'[n] = arena[n]
          /\ arena'[nextNetworkId].kind = "PLAYER"
      BY <1>0, <2>1, Entering
    <2>3. /\ WorldOK' /\ down' \in Seq(TrueMessages') /\ packet' \in TrueSpawns' \cup {NoPacket}
          /\ TableOK'
      BY <1>0, <1>1, <2>1, Entering, Carried DEF OwnShipEnters, OtherEnters
    <2>4. PartiesOK'
      <3>1. /\ ordered' = ordered /\ unsent' = unsent
            /\ unannounced' \subseteq unannounced \cup {nextNetworkId}
            /\ ship' \in {ship, nextNetworkId}
        BY <1>1 DEF OwnShipEnters, OtherEnters
      <3>2. \A n \in DOMAIN arena : arena'[n].kind = arena[n].kind
        BY <2>2
      <3>3. unannounced' \subseteq World!Present("PLAYER")'
        BY <1>a, <2>2, <3>1, <3>2 DEF World!Present
      <3>4. ship' # NoShip => ship' \in World!Present("PLAYER")'
        BY <1>a, <2>2, <3>1, <3>2 DEF World!Present
      <3>5. unsent' \subseteq 0 .. nextNetworkId' - 1
        BY <1>a, <2>2, <3>1
      <3> QED BY <1>a, <3>1, <3>3, <3>4, <3>5 DEF PartiesOK
    <2> QED BY <2>3, <2>4 DEF AllTrue
  <1>2. ASSUME NEW kind \in {"ENEMY", "BULLET_PLAYER"}, World!Enter(kind),
               Broadcast(Spawn(nextNetworkId, kind, IF kind = "ENEMY" THEN 50 ELSE 1)),
               UNCHANGED << ship, unannounced, ordered, up, serverVars, table >>
        PROVE  AllTrue'
    <2>2. /\ [World!Next]_(World!arenaVars)
          /\ nextNetworkId' = nextNetworkId + 1
          /\ DOMAIN arena' = DOMAIN arena \cup {nextNetworkId}
          /\ \A n \in DOMAIN arena : arena'[n] = arena[n]
          /\ arena'[nextNetworkId].kind = kind
          /\ arena'[nextNetworkId].health = World!FullHealth(kind)
      BY <1>0, <1>2, Entering
    <2>3. PICK n \in Nat, h \in 0 .. 100 : n = nextNetworkId /\ h = IF kind = "ENEMY" THEN 50 ELSE 1
      BY <1>a
    <2>4. Spawn(n, kind, h) \in TrueMessages'
      <3>1. WasSo(n, kind, h)'
        BY <1>a, <2>2, <2>3 DEF WasSo, World!FullHealth
      <3>2. kind \in World!Kinds
        BY <1>0
      <3> QED BY <3>1, <3>2, SpawnIsTrue
    <2>5. down' \in Seq(TrueMessages')
      BY <1>2, <2>2, <2>3, <2>4, Sending
    <2>6. WorldOK' /\ packet' \in TrueSpawns' \cup {NoPacket} /\ TableOK'
      BY <1>2, <2>2, Carried
    <2>7. PartiesOK'
      BY <1>a, <1>2, <2>2 DEF PartiesOK, World!Present, NoShip
    <2> QED BY <2>5, <2>6, <2>7 DEF AllTrue
  <1>3. ASSUME NEW n \in DOMAIN arena, OtherLeaves(n) \/ DestroyEntity(n) PROVE AllTrue'
    <2>1. World!Leave(n) \/ World!Destroy(n)
      BY <1>3 DEF OtherLeaves, DestroyEntity
    <2>2. /\ [World!Next]_(World!arenaVars)
          /\ nextNetworkId' = nextNetworkId
          /\ DOMAIN arena' = DOMAIN arena \ {n}
          /\ \A k \in DOMAIN arena' : arena'[k] = arena[k]
          /\ Destroy(n) \in TrueMessages'
      BY <2>1, Going
    <2>3. down' \in Seq(TrueMessages')
      BY <1>3, <2>2, Sending DEF OtherLeaves, DestroyEntity
    <2>4. WorldOK' /\ packet' \in TrueSpawns' \cup {NoPacket} /\ TableOK'
      BY <1>3, <2>2, Carried DEF OtherLeaves, DestroyEntity
    <2>5. n # ship /\ n \notin unannounced'
      <3>1. CASE OtherLeaves(n)
        BY <3>1 DEF OtherLeaves
      <3>2. CASE DestroyEntity(n)
        BY <1>a, <3>2 DEF DestroyEntity, World!Destroy, World!Doomed, World!Dead, World!Present, NoShip
      <3> QED BY <1>3, <3>1, <3>2
    <2>6. ship' = ship /\ unannounced' \subseteq unannounced /\ ordered' = ordered /\ unsent' = unsent
      BY <1>3 DEF OtherLeaves, DestroyEntity
    <2>7. PartiesOK'
      BY <1>a, <2>2, <2>5, <2>6 DEF PartiesOK, World!Present, NoShip
    <2> QED BY <2>3, <2>4, <2>7 DEF AllTrue
  <1>4. ASSUME UNCHANGED << arena, nextNetworkId >>
        PROVE  /\ [World!Next]_(World!arenaVars)
               /\ WorldOK' /\ down \in Seq(TrueMessages') /\ packet \in TrueSpawns' \cup {NoPacket}
               /\ UNCHANGED table => TableOK'
               /\ ship' = ship /\ ordered' = ordered /\ unannounced' \subseteq unannounced
                  /\ unsent' \subseteq unsent \cup DOMAIN arena \cup {0} => PartiesOK'
    <2>1. [World!Next]_(World!arenaVars)
      BY <1>4 DEF World!arenaVars
    <2>2. WorldOK' /\ down \in Seq(TrueMessages') /\ packet \in TrueSpawns' \cup {NoPacket}
          /\ (UNCHANGED table => TableOK')
      BY <2>1, Carried
    <2>3. ASSUME ship' = ship, ordered' = ordered, unannounced' \subseteq unannounced,
                 unsent' \subseteq unsent \cup DOMAIN arena \cup {0}
          PROVE  PartiesOK'
      BY <1>a, <1>4, <2>3 DEF PartiesOK, World!Present, NoShip
    <2> QED BY <2>1, <2>2, <2>3
  <1>5. ASSUME NEW n \in unannounced, OtherIsReady(n) PROVE AllTrue'
    <2>1. WasSo(n, "PLAYER", 100)'
      BY <1>a, <1>5 DEF OtherIsReady, WasSo
    <2>2. Spawn(n, "PLAYER", 100) \in TrueMessages'
      BY <1>a, <1>0, <2>1, SpawnIsTrue
    <2>3. down' \in Seq(TrueMessages')
      BY <1>4, <1>5, <2>2, Sending DEF OtherIsReady
    <2> QED BY <1>4, <1>5, <2>3 DEF AllTrue, OtherIsReady
  <1>6. ASSUME FirstPacket PROVE AllTrue'
    BY <1>4, <1>6 DEF AllTrue, FirstPacket, Snapshot, OwnShip, NoShip
  <1>7. ASSUME SnapshotSend PROVE AllTrue'
    <2>1. packet \in TrueMessages'
      BY <1>4, <1>7 DEF SnapshotSend, TrueSpawns
    <2>2. down' \in Seq(TrueMessages')
      BY <1>4, <1>7, <2>1, Sending DEF SnapshotSend
    <2> QED BY <1>4, <1>7, <2>2 DEF AllTrue, SnapshotSend
  <1>8. ASSUME NEW n \in unsent, SnapshotRead(n) PROVE AllTrue'
    <2>1. packet' \in TrueSpawns' \cup {NoPacket}
      <3>1. CASE n = OwnShip
        <4>1. packet' = Spawn(ship, "PLAYER", 100)
          <5>1. n \notin DOMAIN arena
            BY <1>a, <3>1 DEF OwnShip, NoShip
          <5> QED BY <1>8, <3>1, <5>1 DEF SnapshotRead
        <4>2. PICK m \in Nat : m = ship
          BY <1>a
        <4>3. WasSo(m, "PLAYER", 100)'
          BY <1>a, <1>8, <4>2 DEF SnapshotRead, WasSo, NoShip
        <4> QED BY <1>0, <4>1, <4>2, <4>3, SpawnIsTrue
      <3>2. CASE n # OwnShip /\ n \in DOMAIN arena
        <4>1. packet' = Spawn(n, arena[n].kind, arena[n].health)
          BY <1>8, <3>2 DEF SnapshotRead
        <4>2. n \in Nat /\ arena[n].kind \in World!Kinds /\ arena[n].health \in 0 .. 100
              /\ (arena[n].kind = "ENEMY" => arena[n].health <= 50)
          BY <1>a, <3>2 DEF AllTrue, WorldOK, Entities
        <4>3. PICK k \in World!Kinds, h \in 0 .. 100 : k = arena[n].kind /\ h = arena[n].health
          BY <4>2
        <4>4. WasSo(n, k, h)'
          BY <1>a, <1>8, <3>2, <4>2, <4>3 DEF SnapshotRead, WasSo
        <4> QED BY <4>1, <4>2, <4>3, <4>4, SpawnIsTrue
      <3>3. CASE n # OwnShip /\ n \notin DOMAIN arena
        BY <1>8, <3>3 DEF SnapshotRead
      <3> QED BY <3>1, <3>2, <3>3
    <2> QED BY <1>4, <1>8, <2>1 DEF AllTrue, SnapshotRead
  <1>9. ASSUME Collide PROVE AllTrue'
    <2>1. /\ [World!Next]_(World!arenaVars)
          /\ nextNetworkId' = nextNetworkId
          /\ DOMAIN arena' = DOMAIN arena
      BY <1>9 DEF Collide, World!Next, World!Hit, World!Expire
    <2>2. \A n \in DOMAIN arena : arena'[n].kind = arena[n].kind
      <3>1. Fades
        BY <2>1, WorldStep DEF AllTrue
      <3> QED BY <1>a, <2>1, <3>1 DEF Fades
    <2>3. WorldOK' /\ down' \in Seq(TrueMessages') /\ packet' \in TrueSpawns' \cup {NoPacket} /\ TableOK'
      BY <1>9, <2>1, Carried DEF Collide
    <2>4. PartiesOK'
      BY <1>a, <1>9, <2>1, <2>2 DEF PartiesOK, World!Present, Collide, NoShip
    <2> QED BY <2>3, <2>4 DEF AllTrue
  <1>10. ASSUME BroadcastWorldState PROVE AllTrue'
    <2>1. Batch \in TrueMessages /\ TrueMessages' = TrueMessages
      BY <1>10, BatchMade DEF AllTrue, BroadcastWorldState, TrueMessages, WasSo, WasHealth, IsGone
    <2>2. down' \in Seq(TrueMessages')
      BY <1>4, <1>10, <2>1, Sending DEF BroadcastWorldState
    <2> QED BY <1>4, <1>10, <2>2 DEF AllTrue, BroadcastWorldState
  <1>11. ASSUME NEW i \in DOMAIN down, Receive(i) PROVE AllTrue'
    <2>1. down[i] \in TrueMessages
      BY DEF AllTrue
    <2>2. down' \in Seq(TrueMessages')
      <3>1. down # << >>
        OBVIOUS
      <3> QED BY <1>4, <1>11, <3>1 DEF Receive
    <2>3. TableOK'
      <3> DEFINE p == down[i]
      <3>0. p \in Messages
        BY <2>1 DEF TrueMessages
      <3>a. table' = handled(table, p) /\ UNCHANGED << arena, nextNetworkId >>
        BY <1>11 DEF Receive
      <3>b. TableOK
        BY DEF AllTrue
      <3>1. CASE p.type = "ENTITY_SPAWN"
        <4>1. /\ p.id \in Nat /\ p.kind \in World!Kinds /\ p.health \in 0 .. 100
              /\ WasSo(p.id, p.kind, p.health)
          BY <2>1, <3>0, <3>1, MessageTypes DEF Spawns, TrueMessages
        <4>2. table' = handleEntitySpawn(table, p)
          BY <3>a, <3>1 DEF handled
        <4> HIDE DEF p
        <4> QED BY <3>a, <3>b, <4>1, <4>2 DEF TableOK, WasSo, handleEntitySpawn
      <3>2. CASE p.type = "ENTITY_DESTROY"
        <4>1. table' = handleEntityDestroy(table, p)
          BY <3>a, <3>2 DEF handled
        <4> HIDE DEF p
        <4> QED BY <3>a, <3>b, <4>1 DEF TableOK, WasSo, handleEntityDestroy
      <3>3. CASE p.type = "ENTITY_BATCH_UPDATE"
        <4>1. \A n \in DOMAIN p.health : n \in Nat /\ p.health[n] \in 0 .. 100 /\ WasHealth(n, p.health[n])
          <5>1. p.health \in UNION {[S -> 0 .. 100] : S \in SUBSET Nat}
            BY <3>0, <3>3, MessageTypes DEF Batches
          <5>2. \A n \in DOMAIN p.health : WasHealth(n, p.health[n])
            BY <2>1, <3>3 DEF TrueMessages
          <5> HIDE DEF p
          <5> QED BY <5>1, <5>2
        <4>2. table' = handleEntityBatchUpdate(table, p)
          BY <3>a, <3>3 DEF handled
        <4> HIDE DEF p
        <4>3. ASSUME NEW n \in DOMAIN table'
              PROVE  /\ n \in DOMAIN table
                     /\ \/ table'[n] = table[n]
                        \/ /\ n \in DOMAIN p.health
                           /\ table'[n] = [table[n] EXCEPT !.health = p.health[n]]
          BY <4>2 DEF handleEntityBatchUpdate
        <4>4. ASSUME NEW n \in DOMAIN table'
              PROVE  /\ n \in Nat
                     /\ table'[n] \in [kind : World!Kinds, health : 0 .. 100]
                     /\ WasSo(n, table'[n].kind, table'[n].health)
          <5>1. /\ n \in Nat
                /\ table[n] \in [kind : World!Kinds, health : 0 .. 100]
                /\ WasSo(n, table[n].kind, table[n].health)
            BY <3>b, <4>3 DEF TableOK
          <5>2. CASE table'[n] = table[n]
            BY <5>1, <5>2
          <5>3. CASE n \in DOMAIN p.health /\ table'[n] = [table[n] EXCEPT !.health = p.health[n]]
            <6>1. /\ table'[n] \in [kind : World!Kinds, health : 0 .. 100]
                  /\ table'[n].kind = table[n].kind /\ table'[n].health = p.health[n]
              BY <4>1, <5>1, <5>3
            <6> QED BY <4>1, <5>1, <5>3, <6>1 DEF WasSo, WasHealth
          <5> QED BY <4>3, <5>2, <5>3
        <4> QED BY <3>a, <4>4 DEF TableOK, WasSo
      <3> QED BY <3>0, <3>1, <3>2, <3>3, MessageTypes
    <2> QED BY <1>4, <1>11, <2>2, <2>3 DEF AllTrue, Receive
  <1>12. ASSUME SendInput \/ LoseInput \/ UNCHANGED replicaVars PROVE AllTrue'
    BY <1>4, <1>12 DEF AllTrue, SendInput, LoseInput
  <1>13. ASSUME Shoot \/ SpawnEnemy PROVE AllTrue'
    BY <1>2, <1>13 DEF Shoot, SpawnEnemy
  <1> QED BY <1>1, <1>3, <1>5, <1>6, <1>7, <1>8, <1>9, <1>10, <1>11, <1>12, <1>13 DEF ReplicaStep

(* Every message on its way, and all the table says, was so at one time.   *)
THEOREM TruthInvariance == Spec => []AllTrue
  <1>1. Init => AllTrue
    BY TrueInit
  <1>2. AllTrue /\ [Next]_vars => AllTrue'
    BY StepsOfReplica, TrueStep
  <1> QED BY <1>1, <1>2, PTL DEF Spec

(* ShownWasTrue, for any number of entities and of packets on their way,   *)
(* on a network that keeps order and on one that loses, repeats and        *)
(* reorders packets.                                                       *)
THEOREM ShownWasTrueAlways == Spec => []ShownWasTrue
  <1>1. AllTrue => ShownWasTrue
    <2> SUFFICES ASSUME AllTrue, NEW n \in DOMAIN table
                 PROVE  /\ n < nextNetworkId
                        /\ n \in DOMAIN arena =>
                              /\ table[n].kind = arena[n].kind
                              /\ arena[n].kind = "ENEMY" => table[n].health \in arena[n].health .. 50
      BY DEF ShownWasTrue
    <2>1. table[n].health \in 0 .. 100 /\ WasSo(n, table[n].kind, table[n].health)
      BY DEF AllTrue, TableOK
    <2>2. n \in DOMAIN arena => arena[n].health \in 0 .. 100
      BY DEF AllTrue, WorldOK, Entities
    <2> QED BY <2>1, <2>2 DEF WasSo
  <1> QED BY <1>1, TruthInvariance, PTL
-----------------------------------------------------------------------------
(* The stream's invariant, for the client as a whole.                      *)
THEOREM LinkInvariance == Spec => []LinkOK
  <1>1. Init => LinkOK
    BY LinkInitOK DEF Init
  <1>2. LinkOK /\ [Next]_vars => LinkOK'
    BY StepsOfReplica, LinkStepOK
  <1> QED BY <1>1, <1>2, PTL DEF Spec

(* ConnectedKnowsToken, wherever the first read ends and however many      *)
(* notices came before or after the reply.                                 *)
THEOREM ConnectedKnowsTokenAlways == Spec => []ConnectedKnowsToken
  <1>1. LinkOK => ConnectedKnowsToken
    BY DEF LinkOK, ConnectedOK, ConnectedKnowsToken
  <1> QED BY <1>1, LinkInvariance, PTL
-----------------------------------------------------------------------------
(* On a network that keeps order: what is announced has been sent, is on   *)
(* its way, or is about to be; what the table has and the world has not is *)
(* raced, or the news of its end is on its way, after that of its spawn.   *)
Announces(p, n) == p.type = "ENTITY_SPAWN" /\ p.id = n
Ends(p, n)      == p.type = "ENTITY_DESTROY" /\ p.id = n

KnownOK == up \/ udpInitialized => client = "connected"

QuietOK == ~udpInitialized =>
    down = << >> /\ DOMAIN table = {} /\ unsent = {} /\ packet = NoPacket

AnnouncedOK == ordered /\ udpInitialized =>
    \A n \in DOMAIN arena \ unannounced :
        \/ n \in unsent
        \/ packet # NoPacket /\ packet.id = n
        \/ n \in DOMAIN table
        \/ \E i \in DOMAIN down : Announces(down[i], n)

GhostsOK == ordered =>
    /\ \A n \in DOMAIN table \ DOMAIN arena :
          n \in raced \/ \E i \in DOMAIN down : Ends(down[i], n)
    /\ \A n, i : i \in DOMAIN down /\ Announces(down[i], n) /\ n \notin DOMAIN arena =>
          n \in raced \/ \E j \in DOMAIN down : j > i /\ Ends(down[j], n)

NewsOK == KnownOK /\ QuietOK /\ AnnouncedOK /\ GhostsOK

(* What is on its way stays; j is behind all of it.                        *)
Kept     == \A i \in DOMAIN down : i \in DOMAIN down' /\ down'[i] = down[i]
IsNew(j) == \A i \in DOMAIN down : j > i

(* On a network that keeps order a packet is sent behind the others.       *)
LEMMA Sent ==
  ASSUME down \in Seq(TrueMessages), ordered, NEW p, Send(p) \/ Broadcast(p)
  PROVE  /\ Kept
         /\ \A i \in DOMAIN down' : i \in DOMAIN down \/ down'[i] = p
         /\ Send(p) \/ udpInitialized => \E j \in DOMAIN down' : IsNew(j) /\ down'[j] = p
  <1>1. CASE down' = Append(down, p)
    <2>1. /\ Len(down) \in Nat /\ DOMAIN down = 1 .. Len(down)
          /\ DOMAIN down' = 1 .. Len(down) + 1
          /\ \A i \in 1 .. Len(down) : down'[i] = down[i]
          /\ down'[Len(down) + 1] = p
      BY <1>1
    <2> QED BY <2>1 DEF Kept, IsNew
  <1>2. CASE UNCHANGED down /\ ~udpInitialized /\ ~Send(p)
    BY <1>2 DEF Kept
  <1>3. Send(p) => down' = Append(down, p)
    BY DEF Send
  <1> QED BY <1>1, <1>2, <1>3 DEF Broadcast

(* AnnouncedOK over the steps of all but FirstPacket and Receive.          *)
LEMMA AnnouncedStay ==
  ASSUME AnnouncedOK, Kept, UNCHANGED << ordered, udpInitialized, table >>, ordered, udpInitialized,
         \A n \in DOMAIN arena' \ unannounced' :
            \/ n \in DOMAIN arena \ unannounced
            \/ \E i \in DOMAIN down' : Announces(down'[i], n),
         \A n \in unsent : n \in DOMAIN arena' => n \in unsent' \/ (packet' # NoPacket /\ packet'.id = n),
         packet # NoPacket =>
            packet' = packet \/ \E i \in DOMAIN down' : Announces(down'[i], packet.id)
  PROVE  AnnouncedOK'
  <1> SUFFICES ASSUME NEW n \in DOMAIN arena' \ unannounced'
               PROVE  \/ n \in unsent'
                      \/ packet' # NoPacket /\ packet'.id = n
                      \/ n \in DOMAIN table'
                      \/ \E i \in DOMAIN down' : Announces(down'[i], n)
    BY DEF AnnouncedOK, Announces
  <1>1. CASE n \in DOMAIN arena \ unannounced
    <2>1. CASE \E i \in DOMAIN down : Announces(down[i], n)
      BY <2>1 DEF Kept
    <2> QED BY <1>1, <2>1 DEF AnnouncedOK
  <1> QED BY <1>1

(* GhostsOK over the steps of all but Receive: an entity that goes has the *)
(* news of its end sent, or the client knows of none.                      *)
LEMMA GhostsStay ==
  ASSUME GhostsOK, Kept, UNCHANGED << ordered, table >>, ordered, raced \subseteq raced',
         \A i \in DOMAIN down' : \A n : Announces(down'[i], n) =>
            i \in DOMAIN down \/ n \in DOMAIN arena' \cup raced',
         \A n \in DOMAIN arena \ DOMAIN arena' :
            \/ \E j \in DOMAIN down' : IsNew(j) /\ Ends(down'[j], n)
            \/ n \notin DOMAIN table /\ down = << >>
  PROVE  GhostsOK'
  <1>1. ASSUME NEW n \in DOMAIN table \ DOMAIN arena'
        PROVE  n \in raced' \/ \E i \in DOMAIN down' : Ends(down'[i], n)
    <2>1. CASE n \in DOMAIN arena
      BY <1>1, <2>1
    <2>2. CASE n \notin DOMAIN arena
      BY <1>1, <2>2 DEF GhostsOK, Kept
    <2> QED BY <2>1, <2>2
  <1>2. ASSUME NEW n, NEW i \in DOMAIN down', Announces(down'[i], n), n \notin DOMAIN arena'
        PROVE  n \in raced' \/ \E j \in DOMAIN down' : j > i /\ Ends(down'[j], n)
    <2>1. CASE i \in DOMAIN down
      <3>0. Announces(down[i], n)
        BY <1>2, <2>1 DEF Kept
      <3>1. CASE n \in DOMAIN arena
        BY <1>2, <2>1, <3>1 DEF IsNew
      <3>2. CASE n \notin DOMAIN arena
        BY <2>1, <3>0, <3>2 DEF GhostsOK, Kept
      <3> QED BY <3>1, <3>2
    <2> QED BY <1>2, <2>1
  <1> QED BY <1>1, <1>2 DEF GhostsOK, Announces, Ends

(* A packet that arrives, on a network that keeps order.                   *)
LEMMA Received ==
  ASSUME AllTrue, NewsOK, ordered, Receive(1), 1 \in DOMAIN down
  PROVE  AnnouncedOK' /\ GhostsOK'
  <1> DEFINE p == down[1]
             L == Len(down)
  <1>1. /\ L \in Nat /\ L >= 1 /\ DOMAIN down = 1 .. L
        /\ p \in TrueMessages
        /\ down' = Tail(down) /\ DOMAIN down' = 1 .. L - 1
        /\ \A i \in 1 .. L - 1 : down'[i] = down[i + 1]
        /\ table' = handled(table, p)
        /\ UNCHANGED << worldVars, ordered, up, serverVars >>
    <2>1. L \in Nat /\ L >= 1 /\ DOMAIN down = 1 .. L /\ down \in Seq(TrueMessages) /\ down # << >>
      BY DEF AllTrue
    <2>2. down' = Tail(down) /\ table' = handled(table, p) /\ UNCHANGED << worldVars, ordered, up, serverVars >>
      BY DEF Receive
    <2>3. Len(down') = L - 1 /\ down' \in Seq(TrueMessages) /\ \A i \in 1 .. L - 1 : down'[i] = down[i + 1]
      BY <2>1, <2>2, HeadTailProperties
    <2>4. p \in TrueMessages
      BY <2>1
    <2> QED BY <2>1, <2>2, <2>3, <2>4
  <1>2. /\ p.type = "ENTITY_SPAWN" => DOMAIN table' = DOMAIN table \cup {p.id}
        /\ p.type = "ENTITY_DESTROY" => DOMAIN table' = DOMAIN table \ {p.id} /\ p.id \notin DOMAIN arena
        /\ p.type = "ENTITY_BATCH_UPDATE" => DOMAIN table' = DOMAIN table
        /\ p.type \in {"ENTITY_SPAWN", "ENTITY_DESTROY", "ENTITY_BATCH_UPDATE"}
    <2>1. p \in Messages
      BY <1>1 DEF TrueMessages
    <2>2. p.type = "ENTITY_DESTROY" => p.id \notin DOMAIN arena
      BY <1>1 DEF TrueMessages, IsGone
    <2> HIDE DEF p
    <2>3. p.type = "ENTITY_SPAWN" => DOMAIN table' = DOMAIN table \cup {p.id}
      BY <1>1 DEF handled, handleEntitySpawn
    <2>4. p.type = "ENTITY_DESTROY" => DOMAIN table' = DOMAIN table \ {p.id}
      BY <1>1 DEF handled, handleEntityDestroy
    <2>5. p.type = "ENTITY_BATCH_UPDATE" => DOMAIN table' = DOMAIN table
      BY <1>1 DEF handled, handleEntityBatchUpdate
    <2> QED BY <2>1, <2>2, <2>3, <2>4, <2>5, MessageTypes
  <1> USE DEF worldVars, serverVars
  <1>3. ASSUME NEW i \in DOMAIN down, i # 1 PROVE i - 1 \in DOMAIN down' /\ down'[i - 1] = down[i]
    BY <1>1, <1>3
  <1>4. AnnouncedOK'
    <2> SUFFICES ASSUME udpInitialized, NEW n \in DOMAIN arena \ unannounced
                 PROVE  \/ n \in unsent
                        \/ packet # NoPacket /\ packet.id = n
                        \/ n \in DOMAIN table'
                        \/ \E i \in DOMAIN down' : Announces(down'[i], n)
      BY <1>1 DEF AnnouncedOK, Announces
    <2>1. \/ n \in unsent
          \/ packet # NoPacket /\ packet.id = n
          \/ n \in DOMAIN table
          \/ \E i \in DOMAIN down : Announces(down[i], n)
      BY DEF NewsOK, AnnouncedOK
    <2>2. CASE n \in DOMAIN table
      BY <1>2, <2>2
    <2>3. ASSUME NEW i \in DOMAIN down, Announces(down[i], n)
          PROVE  n \in DOMAIN table' \/ \E j \in DOMAIN down' : Announces(down'[j], n)
      <3>1. CASE i = 1
        BY <1>2, <2>3, <3>1 DEF Announces
      <3>2. CASE i # 1
        BY <1>3, <2>3, <3>2
      <3> QED BY <3>1, <3>2
    <2> QED BY <2>1, <2>2, <2>3
  <1>5. GhostsOK'
    <2>1. ASSUME NEW n \in DOMAIN table' \ DOMAIN arena
          PROVE  n \in raced \/ \E i \in DOMAIN down' : Ends(down'[i], n)
      <3>1. CASE Announces(p, n)
        <4>1. n \in raced \/ \E j \in DOMAIN down : j > 1 /\ Ends(down[j], n)
          BY <2>1, <3>1 DEF NewsOK, GhostsOK
        <4>2. ASSUME NEW j \in DOMAIN down, j > 1, Ends(down[j], n)
              PROVE  \E i \in DOMAIN down' : Ends(down'[i], n)
          <5>1. j # 1
            BY <1>1, <4>2
          <5> QED BY <1>3, <4>2, <5>1
        <4> QED BY <4>1, <4>2
      <3>2. CASE ~Announces(p, n)
        <4>1. n \in DOMAIN table /\ ~Ends(p, n)
          BY <1>2, <2>1, <3>2 DEF Announces, Ends
        <4>2. n \in raced \/ \E i \in DOMAIN down : Ends(down[i], n)
          BY <2>1, <4>1 DEF NewsOK, GhostsOK
        <4> QED BY <1>3, <4>1, <4>2
      <3> QED BY <3>1, <3>2
    <2>2. ASSUME NEW n, NEW i \in DOMAIN down', Announces(down'[i], n), n \notin DOMAIN arena
          PROVE  n \in raced \/ \E j \in DOMAIN down' : j > i /\ Ends(down'[j], n)
      <3>1. i + 1 \in DOMAIN down /\ down'[i] = down[i + 1] /\ i \in Nat
        BY <1>1
      <3>2. n \in raced \/ \E j \in DOMAIN down : j > i + 1 /\ Ends(down[j], n)
        BY <2>2, <3>1 DEF NewsOK, GhostsOK
      <3>3. ASSUME NEW j \in DOMAIN down, j > i + 1, Ends(down[j], n)
            PROVE  \E k \in DOMAIN down' : k > i /\ Ends(down'[k], n)
        <4>1. j - 1 > i /\ j # 1
          BY <1>1, <3>1, <3>3
        <4> QED BY <1>3, <3>3, <4>1
      <3> QED BY <3>2, <3>3
    <2> QED BY <1>1, <2>1, <2>2 DEF GhostsOK, Announces, Ends
  <1> QED BY <1>4, <1>5

(* The server does not know the client yet.                                *)
LEMMA NewsInit == Init => NewsOK
  BY DEF Init, ReplicaInit, World!Init, NewsOK, KnownOK, QuietOK, AnnouncedOK, GhostsOK

(* Before the server knows the endpoint nothing is sent; and it knows only *)
(* that of a client that is connected.                                     *)
LEMMA QuietStep ==
  ASSUME KnownOK, QuietOK, ReplicaStep \/ UNCHANGED replicaVars, LinkStep \/ UNCHANGED linkVars
  PROVE  KnownOK' /\ QuietOK'
  <1> USE DEF replicaVars, worldVars, netVars, serverVars, linkVars
  <1>1. client = "connected" => client' = "connected"
    BY DEF LinkStep, Accept, LineIsSplit, LineArrives, AcceptConnect, RefuseConnect, OnWritten,
           Connect, ReadReply, Notify, send
  <1>2. (up' => up \/ client = "connected") /\ (udpInitialized' => udpInitialized \/ up)
    BY DEF ReplicaStep, OwnShipEnters, OtherEnters, Shoot, OtherLeaves, DestroyEntity, OtherIsReady,
           FirstPacket, SnapshotSend, SnapshotRead, SpawnEnemy, Collide, BroadcastWorldState,
           Receive, SendInput, LoseInput
  <1>3. KnownOK'
    BY <1>1, <1>2 DEF KnownOK
  <1>4. ASSUME ~udpInitialized'
        PROVE  down' = << >> /\ DOMAIN table' = {} /\ unsent' = {} /\ packet' = NoPacket
    <2>1. udpInitialized' = udpInitialized \/ FirstPacket
      BY DEF ReplicaStep, OwnShipEnters, OtherEnters, Shoot, OtherLeaves, DestroyEntity, OtherIsReady,
             SnapshotSend, SnapshotRead, SpawnEnemy, Collide, BroadcastWorldState,
             Receive, SendInput, LoseInput
    <2>2. ~udpInitialized /\ ~FirstPacket
      BY <1>4, <2>1 DEF FirstPacket
    <2>3. down = << >> /\ DOMAIN table = {} /\ unsent = {} /\ packet = NoPacket
      BY <2>2 DEF QuietOK
    <2> QED BY <1>4, <2>2, <2>3
            DEF ReplicaStep, OwnShipEnters, OtherEnters, Shoot, OtherLeaves, DestroyEntity, OtherIsReady,
                SnapshotSend, SnapshotRead, SpawnEnemy, Collide, BroadcastWorldState,
                Receive, SendInput, LoseInput, Broadcast
  <1> QED BY <1>3, <1>4 DEF QuietOK

(* Each step of Replica on a network that keeps order.                     *)
LEMMA NewsStep ==
  ASSUME AllTrue, AllTrue', LinkOK, NewsOK, ordered, ReplicaStep \/ UNCHANGED replicaVars
  PROVE  ordered' = ordered /\ AnnouncedOK' /\ GhostsOK'
  <1> USE DEF replicaVars, worldVars, netVars, serverVars
  <1>0. /\ down \in Seq(TrueMessages) /\ AnnouncedOK /\ GhostsOK
        /\ ~udpInitialized => down = << >> /\ DOMAIN table = {} /\ unsent = {} /\ packet = NoPacket
        /\ unannounced \subseteq DOMAIN arena
        /\ 0 \notin DOMAIN arena
    BY DEF AllTrue, NewsOK, QuietOK, PartiesOK, WorldOK, World!Present
  <1>1. UNCHANGED down => /\ Kept
                          /\ \A i \in DOMAIN down' : i \in DOMAIN down
    BY DEF Kept
  <1>2. ASSUME session = "listed", OwnShipEnters PROVE ordered' = ordered /\ AnnouncedOK' /\ GhostsOK'
    <2>1. ~udpInitialized /\ ordered' = ordered /\ UNCHANGED << down, table, raced, udpInitialized >>
      BY <1>2 DEF NewsOK, KnownOK, LinkOK, ConnectedOK, OwnShipEnters
    <2>2. DOMAIN arena \subseteq DOMAIN arena'
      BY <1>2, Entering DEF OwnShipEnters, World!Kinds
    <2>3. GhostsOK'
      BY <1>0, <1>1, <2>1, <2>2, GhostsStay
    <2> QED BY <2>1, <2>3 DEF AnnouncedOK
  <1>3. ASSUME OtherEnters PROVE ordered' = ordered /\ AnnouncedOK' /\ GhostsOK'
    <2>1. ordered' = ordered
          /\ UNCHANGED << down, table, raced, udpInitialized, unsent, packet >>
      BY <1>3 DEF OtherEnters
    <2>2. DOMAIN arena' = DOMAIN arena \cup {nextNetworkId}
          /\ unannounced' = unannounced \cup {nextNetworkId}
      BY <1>3, Entering DEF OtherEnters, World!Kinds
    <2>3. GhostsOK'
      BY <1>0, <1>1, <2>1, <2>2, GhostsStay
    <2>4. udpInitialized => AnnouncedOK'
      BY <1>0, <1>1, <2>1, <2>2, AnnouncedStay
    <2> QED BY <2>1, <2>3, <2>4 DEF AnnouncedOK
  <1>4. ASSUME NEW kind \in World!Kinds, NEW h, World!Enter(kind),
               Broadcast(Spawn(nextNetworkId, kind, h)),
               UNCHANGED << ship, unannounced, ordered, up, serverVars, table >>
        PROVE  AnnouncedOK' /\ GhostsOK'
    <2> DEFINE p == Spawn(nextNetworkId, kind, h)
    <2>1. p.type = "ENTITY_SPAWN" /\ p.id = nextNetworkId
      BY DEF Spawn
    <2>2. DOMAIN arena' = DOMAIN arena \cup {nextNetworkId}
      BY <1>4, Entering
    <2>3. Broadcast(p)
      BY <1>4
    <2> HIDE DEF p
    <2>4. /\ Kept
          /\ \A i \in DOMAIN down' : i \in DOMAIN down \/ down'[i] = p
          /\ udpInitialized => \E j \in DOMAIN down' : IsNew(j) /\ down'[j] = p
      BY <1>0, <2>3, Sent
    <2>5. GhostsOK'
      <3>1. \A i \in DOMAIN down' : \A n : Announces(down'[i], n) =>
               i \in DOMAIN down \/ n \in DOMAIN arena' \cup raced'
        BY <2>1, <2>2, <2>4 DEF Announces
      <3> QED BY <1>0, <1>4, <2>2, <2>4, <3>1, GhostsStay
    <2>6. udpInitialized => AnnouncedOK'
      <3> SUFFICES ASSUME udpInitialized PROVE AnnouncedOK'
        OBVIOUS
      <3>1. \E i \in DOMAIN down' : Announces(down'[i], nextNetworkId)
        BY <2>1, <2>4 DEF Announces
      <3>2. \A n \in DOMAIN arena' \ unannounced' :
               \/ n \in DOMAIN arena \ unannounced
               \/ \E i \in DOMAIN down' : Announces(down'[i], n)
        BY <1>4, <2>2, <3>1
      <3> QED BY <1>0, <1>4, <2>4, <3>2, AnnouncedStay
    <2> QED BY <1>4, <2>5, <2>6 DEF AnnouncedOK
  <1>5. ASSUME NEW n \in DOMAIN arena, OtherLeaves(n) \/ DestroyEntity(n)
        PROVE  ordered' = ordered /\ AnnouncedOK' /\ GhostsOK'
    <2> DEFINE p == Destroy(n)
    <2>1. p.type = "ENTITY_DESTROY" /\ p.id = n
      BY DEF Destroy
    <2>2. Broadcast(p) /\ ordered' = ordered
          /\ UNCHANGED << table, udpInitialized, unsent, packet, raced >>
          /\ (unannounced' = unannounced \ {n} \/ unannounced' = unannounced)
      BY <1>5 DEF OtherLeaves, DestroyEntity
    <2>3. DOMAIN arena' = DOMAIN arena \ {n}
      BY <1>5, Going DEF OtherLeaves, DestroyEntity
    <2> HIDE DEF p
    <2>4. /\ Kept
          /\ \A i \in DOMAIN down' : i \in DOMAIN down \/ down'[i] = p
          /\ udpInitialized => \E j \in DOMAIN down' : IsNew(j) /\ down'[j] = p
      BY <1>0, <2>2, Sent
    <2>5. GhostsOK'
      <3>1. \A i \in DOMAIN down' : \A k : Announces(down'[i], k) => i \in DOMAIN down
        BY <2>1, <2>4 DEF Announces
      <3>2. \/ \E j \in DOMAIN down' : IsNew(j) /\ Ends(down'[j], n)
            \/ n \notin DOMAIN table /\ down = << >>
        BY <1>0, <2>1, <2>4 DEF Ends
      <3> QED BY <1>0, <2>2, <2>3, <2>4, <3>1, <3>2, GhostsStay
    <2>6. udpInitialized => AnnouncedOK'
      <3>1. \A k \in DOMAIN arena' \ unannounced' : k \in DOMAIN arena \ unannounced
        BY <2>2, <2>3
      <3> QED BY <1>0, <2>2, <2>4, <3>1, AnnouncedStay
    <2> QED BY <2>2, <2>5, <2>6 DEF AnnouncedOK
  <1>6. ASSUME NEW n \in unannounced, OtherIsReady(n)
        PROVE  ordered' = ordered /\ AnnouncedOK' /\ GhostsOK'
    <2> DEFINE p == Spawn(n, "PLAYER", 100)
    <2>1. p.type = "ENTITY_SPAWN" /\ p.id = n
      BY DEF Spawn
    <2>2. Broadcast(p) /\ ordered' = ordered /\ unannounced' = unannounced \ {n}
          /\ UNCHANGED << arena, table, udpInitialized, unsent, packet, raced >>
      BY <1>6 DEF OtherIsReady
    <2> HIDE DEF p
    <2>3. /\ Kept
          /\ \A i \in DOMAIN down' : i \in DOMAIN down \/ down'[i] = p
          /\ udpInitialized => \E j \in DOMAIN down' : IsNew(j) /\ down'[j] = p
      BY <1>0, <2>2, Sent
    <2>4. GhostsOK'
      <3>1. \A i \in DOMAIN down' : \A k : Announces(down'[i], k) =>
               i \in DOMAIN down \/ k \in DOMAIN arena' \cup raced'
        BY <1>0, <2>1, <2>2, <2>3 DEF Announces
      <3> QED BY <1>0, <2>2, <2>3, <3>1, GhostsStay
    <2>5. udpInitialized => AnnouncedOK'
      <3> SUFFICES ASSUME udpInitialized PROVE AnnouncedOK'
        OBVIOUS
      <3>1. \E i \in DOMAIN down' : Announces(down'[i], n)
        BY <2>1, <2>3 DEF Announces
      <3>2. \A k \in DOMAIN arena' \ unannounced' :
               \/ k \in DOMAIN arena \ unannounced
               \/ \E i \in DOMAIN down' : Announces(down'[i], k)
        BY <2>2, <3>1
      <3> QED BY <1>0, <2>2, <2>3, <3>2, AnnouncedStay
    <2> QED BY <2>2, <2>4, <2>5 DEF AnnouncedOK
  <1>7. ASSUME FirstPacket PROVE ordered' = ordered /\ AnnouncedOK' /\ GhostsOK'
    <2>1. ordered' = ordered /\ unsent' = DOMAIN arena \cup {OwnShip}
          /\ UNCHANGED << arena, unannounced, down, table, raced >>
      BY <1>7 DEF FirstPacket, Snapshot
    <2>2. GhostsOK'
      BY <1>0, <1>1, <2>1, GhostsStay
    <2> QED BY <2>1, <2>2 DEF AnnouncedOK
  <1>8. ASSUME SnapshotSend PROVE ordered' = ordered /\ AnnouncedOK' /\ GhostsOK'
    <2>1. packet # NoPacket /\ Send(packet) /\ ordered' = ordered
          /\ raced' = raced \cup ({packet.id} \ DOMAIN arena)
          /\ UNCHANGED << arena, unannounced, udpInitialized, unsent, table >>
      BY <1>8 DEF SnapshotSend
    <2>2. packet.type = "ENTITY_SPAWN" /\ udpInitialized
      BY <1>0, <2>1 DEF AllTrue, TrueSpawns
    <2>3. /\ Kept
          /\ \A i \in DOMAIN down' : i \in DOMAIN down \/ down'[i] = packet
          /\ \E j \in DOMAIN down' : IsNew(j) /\ down'[j] = packet
      BY <1>0, <2>1, Sent
    <2>4. GhostsOK'
      <3>1. \A i \in DOMAIN down' : \A k : Announces(down'[i], k) =>
               i \in DOMAIN down \/ k \in DOMAIN arena' \cup raced'
        BY <2>1, <2>3 DEF Announces
      <3> QED BY <1>0, <2>1, <2>3, <3>1, GhostsStay
    <2>5. AnnouncedOK'
      <3>1. \E i \in DOMAIN down' : Announces(down'[i], packet.id)
        BY <2>2, <2>3 DEF Announces
      <3> QED BY <1>0, <2>1, <2>2, <2>3, <3>1, AnnouncedStay
    <2> QED BY <2>1, <2>4, <2>5
  <1>9. ASSUME NEW n \in unsent, SnapshotRead(n) PROVE ordered' = ordered /\ AnnouncedOK' /\ GhostsOK'
    <2>1. packet = NoPacket /\ unsent' = unsent \ {n} /\ ordered' = ordered
          /\ UNCHANGED << arena, unannounced, down, udpInitialized, table, raced >>
      BY <1>9 DEF SnapshotRead
    <2>2. udpInitialized
      BY <1>0
    <2>3. n \in DOMAIN arena => packet' # NoPacket /\ packet'.id = n
      <3> SUFFICES ASSUME n \in DOMAIN arena PROVE packet' # NoPacket /\ packet'.id = n
        OBVIOUS
      <3>1. n # OwnShip
        BY <1>0 DEF OwnShip, NoShip
      <3>2. packet' = Spawn(n, arena[n].kind, arena[n].health)
        BY <1>9, <3>1 DEF SnapshotRead
      <3>3. packet'.type = "ENTITY_SPAWN" /\ packet'.id = n
        BY <3>2 DEF Spawn
      <3>4. NoPacket.type = "none"
        BY DEF NoPacket
      <3> QED BY <3>3, <3>4
    <2>4. GhostsOK'
      BY <1>0, <1>1, <2>1, GhostsStay
    <2>5. AnnouncedOK'
      BY <1>0, <1>1, <2>1, <2>2, <2>3, AnnouncedStay
    <2> QED BY <2>1, <2>4, <2>5
  <1>10. ASSUME NEW p, p.type # "ENTITY_SPAWN", Send(p) \/ UNCHANGED down, DOMAIN arena' = DOMAIN arena,
                UNCHANGED << ordered, unannounced, udpInitialized, unsent, packet, raced, table >>
         PROVE  AnnouncedOK' /\ GhostsOK'
    <2>1. Kept /\ \A i \in DOMAIN down' : i \in DOMAIN down \/ down'[i] = p
      BY <1>0, <1>1, <1>10, Sent
    <2>2. GhostsOK'
      <3>1. \A i \in DOMAIN down' : \A k : Announces(down'[i], k) => i \in DOMAIN down
        BY <1>10, <2>1 DEF Announces
      <3> QED BY <1>0, <1>10, <2>1, <3>1, GhostsStay
    <2>3. udpInitialized => AnnouncedOK'
      BY <1>0, <1>10, <2>1, AnnouncedStay
    <2> QED BY <1>10, <2>2, <2>3 DEF AnnouncedOK
  <1>11. ASSUME Collide \/ SendInput \/ LoseInput \/ UNCHANGED replicaVars
         PROVE  ordered' = ordered /\ AnnouncedOK' /\ GhostsOK'
    <2>1. DOMAIN arena' = DOMAIN arena /\ UNCHANGED down
          /\ UNCHANGED << ordered, unannounced, udpInitialized, unsent, packet, raced, table >>
      BY <1>11 DEF Collide, SendInput, LoseInput, World!Hit, World!Expire
    <2>2. NoPacket.type # "ENTITY_SPAWN"
      BY DEF NoPacket
    <2> QED BY <1>10, <2>1, <2>2
  <1>12. ASSUME BroadcastWorldState PROVE ordered' = ordered /\ AnnouncedOK' /\ GhostsOK'
    <2>1. Batch.type # "ENTITY_SPAWN"
      BY DEF Batch
    <2>2. Send(Batch) /\ DOMAIN arena' = DOMAIN arena
          /\ UNCHANGED << ordered, unannounced, udpInitialized, unsent, packet, raced, table >>
      BY <1>12 DEF BroadcastWorldState
    <2> QED BY <1>10, <2>1, <2>2
  <1>13. ASSUME NEW i \in DOMAIN down, Receive(i) PROVE ordered' = ordered /\ AnnouncedOK' /\ GhostsOK'
    <2>1. i = 1 /\ ordered' = ordered
      BY <1>13 DEF Receive
    <2> QED BY <1>13, <2>1, Received
  <1>14. ASSUME Shoot \/ SpawnEnemy PROVE ordered' = ordered /\ AnnouncedOK' /\ GhostsOK'
    BY <1>4, <1>14 DEF Shoot, SpawnEnemy, World!Kinds
  <1> QED BY <1>2, <1>3, <1>5, <1>6, <1>7, <1>8, <1>9, <1>11, <1>12, <1>13, <1>14 DEF ReplicaStep

(* Whether a network keeps order never changes.                            *)
LEMMA OrderIsFixed ==
  ReplicaStep \/ UNCHANGED replicaVars => ordered' = ordered
  BY DEF replicaVars, ReplicaStep, OwnShipEnters, OtherEnters, Shoot, OtherLeaves, DestroyEntity,
         OtherIsReady, FirstPacket, SnapshotSend, SnapshotRead, SpawnEnemy, Collide,
         BroadcastWorldState, Receive, SendInput, LoseInput

(* All that a client on a network that keeps order still has to hear of is *)
(* on its way (GameServer.cpp:287-441, 741-785).                           *)
THEOREM NewsInvariance == Spec => []NewsOK
  <1>1. Init => NewsOK
    BY NewsInit
  <1>2. AllTrue /\ AllTrue' /\ LinkOK /\ NewsOK /\ [Next]_vars => NewsOK'
    <2> SUFFICES ASSUME AllTrue, AllTrue', LinkOK, NewsOK, [Next]_vars PROVE NewsOK'
      OBVIOUS
    <2>1. ReplicaStep \/ UNCHANGED replicaVars
      BY StepsOfReplica
    <2>2. LinkStep \/ UNCHANGED linkVars
      BY StepsOfReplica
    <2>3. KnownOK' /\ QuietOK'
      BY <2>1, <2>2, QuietStep DEF NewsOK
    <2>4. AnnouncedOK' /\ GhostsOK'
      <3>1. CASE ordered
        BY <2>1, <3>1, NewsStep
      <3>2. CASE ~ordered
        BY <2>1, <3>2, OrderIsFixed DEF AnnouncedOK, GhostsOK
      <3> QED BY <3>1, <3>2
    <2> QED BY <2>3, <2>4 DEF NewsOK
  <1> QED BY <1>1, <1>2, TruthInvariance, LinkInvariance, PTL DEF Spec

(* OrderedClientShowsWorld, for any number of entities and of packets on   *)
(* their way.                                                              *)
THEOREM OrderedClientShowsWorldAlways == Spec => []OrderedClientShowsWorld
  <1>1. NewsOK => OrderedClientShowsWorld
    BY DEF NewsOK, AnnouncedOK, GhostsOK, OrderedClientShowsWorld, Free
  <1> QED BY <1>1, NewsInvariance, PTL
-----------------------------------------------------------------------------
(* What TypeOK says besides: no message names entity 0, for the client's   *)
(* ship is there before its first packet can be.                           *)
NamedMessages == {p \in Messages : p.type # "ENTITY_BATCH_UPDATE" => p.id # 0}

LinkTyped ==
    /\ client \in {"start", "waiting", "connected", "failed"}
    /\ session \in {"none", "listed", "deaf", "accepted", "refused"}
    /\ line \in BOOLEAN /\ writing \in BOOLEAN

ReplicaTyped ==
    /\ up \in BOOLEAN /\ udpInitialized \in BOOLEAN
    /\ session = "accepted" => ship # NoShip
    /\ down \in Seq(NamedMessages)
    /\ packet # NoPacket => packet \in NamedMessages

LEMMA NamedMade ==
  /\ \A n \in Nat \ {0}, k \in World!Kinds, h \in 0 .. 100 : Spawn(n, k, h) \in NamedMessages
  /\ \A n \in Nat \ {0} : Destroy(n) \in NamedMessages
  /\ WorldOK => Batch \in NamedMessages
  <1>1. ASSUME NEW n \in Nat \ {0}, NEW k \in World!Kinds, NEW h \in 0 .. 100
        PROVE  Spawn(n, k, h) \in NamedMessages
    <2>1. PICK p : p = Spawn(n, k, h)
      OBVIOUS
    <2>2. p \in Messages
      BY <2>1, MessagesMade, Zenon
    <2>3. p = [type |-> "ENTITY_SPAWN", id |-> n, kind |-> k, health |-> h]
      BY <2>1 DEF Spawn
    <2>4. p.id = n
      BY <2>3
    <2> QED BY <2>1, <2>2, <2>4 DEF NamedMessages
  <1>2. ASSUME NEW n \in Nat \ {0} PROVE Destroy(n) \in NamedMessages
    <2>1. PICK p : p = Destroy(n)
      OBVIOUS
    <2>2. p \in Messages
      BY <2>1, MessagesMade, Zenon
    <2>3. p = [type |-> "ENTITY_DESTROY", id |-> n]
      BY <2>1 DEF Destroy
    <2>4. p.id = n
      BY <2>3
    <2> QED BY <2>1, <2>2, <2>4 DEF NamedMessages
  <1>3. ASSUME WorldOK PROVE Batch \in NamedMessages
    <2>1. Batch \in Messages
      BY <1>3, BatchMade DEF TrueMessages
    <2>2. Batch.type = "ENTITY_BATCH_UPDATE"
      BY DEF Batch
    <2> QED BY <2>1, <2>2 DEF NamedMessages
  <1> QED BY <1>1, <1>2, <1>3

LEMMA LinkTypedStep ==
  ASSUME LinkTyped, LinkStep \/ UNCHANGED linkVars
  PROVE  LinkTyped'
  <1>1. CASE UNCHANGED linkVars
    BY <1>1 DEF LinkTyped, linkVars, sessionVars
  <1>2. CASE LinkStep
    <2>1. ASSUME NEW m, send(m) PROVE writing' \in BOOLEAN
      BY <2>1 DEF send, LinkTyped
    <2> QED BY <1>2, <2>1
            DEF LinkTyped, LinkStep, linkVars, sessionVars, Accept, LineIsSplit, LineArrives,
                AcceptConnect, RefuseConnect, OnWritten, Connect, ReadReply, Notify
  <1> QED BY <1>1, <1>2

(* The session is accepted in the handler that makes the ship, and no ship *)
(* is unmade.                                                              *)
LEMMA ShipStays ==
  ASSUME AllTrue, session = "accepted" => ship # NoShip, [Next]_vars
  PROVE  session' = "accepted" => ship' # NoShip
  <1>1. ship' = ship \/ ship' = nextNetworkId
    <2>1. ReplicaStep \/ UNCHANGED replicaVars
      BY StepsOfReplica
    <2> QED BY <2>1 DEF ReplicaStep, replicaVars, worldVars, OwnShipEnters, OtherEnters, Shoot,
            OtherLeaves, DestroyEntity, OtherIsReady, FirstPacket, SnapshotSend, SnapshotRead,
            SpawnEnemy, Collide, BroadcastWorldState, Receive, SendInput, LoseInput
  <1>2. nextNetworkId # NoShip
    BY DEF AllTrue, WorldOK, NoShip
  <1>3. session' = "accepted" => session = "accepted" \/ OwnShipEnters
    BY DEF Next, vars, IoThread, HandleLine, GameThread, ClientProcess, Frame, Network, linkVars,
           sessionVars, Accept, LineIsSplit, RefuseConnect, OnWritten, Connect, ReadReply, Notify,
           send
  <1>4. OwnShipEnters => ship' = nextNetworkId
    BY DEF OwnShipEnters
  <1> QED BY <1>1, <1>2, <1>3, <1>4

LEMMA ReplicaTypedStep ==
  ASSUME AllTrue, LinkOK, NewsOK, ReplicaTyped, [Next]_vars
  PROVE  ReplicaTyped'
  <1> USE DEF replicaVars, worldVars, netVars, serverVars
  <1>0. ReplicaStep \/ UNCHANGED replicaVars
    BY StepsOfReplica
  <1>1. session' = "accepted" => ship' # NoShip
    BY ShipStays DEF ReplicaTyped
  <1>2. up' \in BOOLEAN /\ udpInitialized' \in BOOLEAN
    BY <1>0 DEF ReplicaTyped, ReplicaStep, OwnShipEnters, OtherEnters, Shoot,
            OtherLeaves, DestroyEntity, OtherIsReady, FirstPacket, SnapshotSend, SnapshotRead,
            SpawnEnemy, Collide, BroadcastWorldState, Receive, SendInput, LoseInput
  <1>3. /\ nextNetworkId \in Nat \ {0} /\ ordered \in BOOLEAN /\ down \in Seq(NamedMessages)
        /\ \A n \in DOMAIN arena : /\ n \in Nat \ {0}
                                   /\ arena[n].kind \in World!Kinds
                                   /\ arena[n].health \in 0 .. 100
        /\ unannounced \subseteq DOMAIN arena
    BY DEF AllTrue, WorldOK, PartiesOK, ReplicaTyped, World!Present, Entities
  <1>4. World!Kinds = {"PLAYER", "ENEMY", "BULLET_PLAYER"} /\ 0 \in 0 .. 100 /\ 1 \in 0 .. 100
        /\ 50 \in 0 .. 100 /\ 100 \in 0 .. 100
    BY DEF World!Kinds
  <1>5. ASSUME NEW p \in NamedMessages, Send(p) \/ Broadcast(p) PROVE down' \in Seq(NamedMessages)
    BY <1>3, <1>5, SendType DEF Broadcast
  <1>6. down' \in Seq(NamedMessages)
    <2>1. CASE \E i \in DOMAIN down : Receive(i)
      <3>1. down' = down \/ down' = Tail(down)
        BY <2>1 DEF Receive
      <3>2. down # << >>
        BY <2>1
      <3>3. Tail(down) \in Seq(NamedMessages)
        BY <1>3, <3>2, HeadTailProperties
      <3> QED BY <1>3, <3>1, <3>3
    <2>2. CASE Shoot
      <3>1. Spawn(nextNetworkId, "BULLET_PLAYER", 1) \in NamedMessages
        BY <1>3, <1>4, NamedMade
      <3> QED BY <1>5, <2>2, <3>1 DEF Shoot
    <2>3. CASE SpawnEnemy
      <3>1. Spawn(nextNetworkId, "ENEMY", 50) \in NamedMessages
        BY <1>3, <1>4, NamedMade
      <3> QED BY <1>5, <2>3, <3>1 DEF SpawnEnemy
    <2>4. ASSUME NEW n \in DOMAIN arena, OtherLeaves(n) \/ DestroyEntity(n)
          PROVE  down' \in Seq(NamedMessages)
      <3>1. Destroy(n) \in NamedMessages
        BY <1>3, NamedMade
      <3> QED BY <1>5, <2>4, <3>1 DEF OtherLeaves, DestroyEntity
    <2>5. ASSUME NEW n \in unannounced, OtherIsReady(n) PROVE down' \in Seq(NamedMessages)
      <3>1. Spawn(n, "PLAYER", 100) \in NamedMessages
        BY <1>3, <1>4, NamedMade
      <3> QED BY <1>5, <2>5, <3>1 DEF OtherIsReady
    <2>6. CASE SnapshotSend
      BY <1>5, <2>6 DEF SnapshotSend, ReplicaTyped
    <2>7. CASE BroadcastWorldState
      <3>1. Batch \in NamedMessages
        BY NamedMade DEF AllTrue
      <3> QED BY <1>5, <2>7, <3>1 DEF BroadcastWorldState
    <2>8. CASE UNCHANGED down
      BY <1>3, <2>8
    <2> QED BY <1>0, <2>1, <2>2, <2>3, <2>4, <2>5, <2>6, <2>7, <2>8
            DEF ReplicaStep, OwnShipEnters, OtherEnters, FirstPacket, SnapshotRead, Collide,
                SendInput, LoseInput
  <1>7. packet' # NoPacket => packet' \in NamedMessages
    <2>1. ASSUME NEW n \in unsent, SnapshotRead(n)
          PROVE  packet' # NoPacket => packet' \in NamedMessages
      <3>1. CASE n = OwnShip
        <4>1. udpInitialized
          BY DEF NewsOK, QuietOK
        <4>2. ship # NoShip /\ ship \in Nat
          BY <4>1 DEF NewsOK, KnownOK, LinkOK, ConnectedOK, ReplicaTyped, AllTrue, PartiesOK
        <4>3. Spawn(ship, "PLAYER", 100) \in NamedMessages
          BY <1>4, <4>2, NamedMade DEF NoShip
        <4>4. packet' = Spawn(ship, "PLAYER", 100)
          <5>1. n \notin DOMAIN arena
            BY <1>3, <3>1 DEF OwnShip, NoShip
          <5> QED BY <2>1, <3>1, <5>1 DEF SnapshotRead
        <4> QED BY <4>3, <4>4
      <3>2. CASE n # OwnShip /\ n \in DOMAIN arena
        <4>1. packet' = Spawn(n, arena[n].kind, arena[n].health)
          BY <2>1, <3>2 DEF SnapshotRead
        <4> QED BY <1>3, <3>2, <4>1, NamedMade
      <3>3. CASE n # OwnShip /\ n \notin DOMAIN arena
        BY <2>1, <3>3 DEF SnapshotRead
      <3> QED BY <3>1, <3>2, <3>3
    <2>2. CASE SnapshotSend
      BY <2>2 DEF SnapshotSend
    <2>3. CASE UNCHANGED packet
      BY <2>3 DEF ReplicaTyped
    <2> QED BY <1>0, <2>1, <2>2, <2>3
            DEF ReplicaStep, OwnShipEnters, OtherEnters, Shoot, OtherLeaves, DestroyEntity,
                OtherIsReady, FirstPacket, SpawnEnemy, Collide, BroadcastWorldState, Receive,
                SendInput, LoseInput
  <1> QED BY <1>1, <1>2, <1>6, <1>7 DEF ReplicaTyped

(* All of the client, its connection and its copy of the world keep their  *)
(* types, whatever is lost, repeated or overtaken on the way               *)
(* (GameClient.cpp:18-317; GameServer.cpp:287-441).                        *)
THEOREM TypeCorrect == Spec => []TypeOK
  <1>1. Init => LinkTyped /\ ReplicaTyped
    <2>1. Init => LinkTyped
      BY DEF Init, LinkInit, LinkTyped
    <2>2. << >> \in Seq(NamedMessages)
      OBVIOUS
    <2>3. Init => ReplicaTyped
      BY <2>2, Zenon DEF Init, LinkInit, ReplicaInit, ReplicaTyped
    <2> QED BY <2>1, <2>3
  <1>2. LinkTyped /\ [Next]_vars => LinkTyped'
    BY LinkTypedStep, StepsOfReplica
  <1>3. AllTrue /\ LinkOK /\ NewsOK /\ ReplicaTyped /\ [Next]_vars => ReplicaTyped'
    BY ReplicaTypedStep
  <1>4. AllTrue /\ LinkOK /\ LinkTyped /\ ReplicaTyped => TypeOK
    <2> SUFFICES ASSUME AllTrue, LinkOK, LinkTyped, ReplicaTyped PROVE TypeOK
      OBVIOUS
    <2>1. nextNetworkId \in Nat /\ DOMAIN arena \subseteq 1 .. nextNetworkId - 1
      BY DEF AllTrue, WorldOK
    <2>2. {line, writing, ordered, up, udpInitialized} \subseteq BOOLEAN
      BY DEF LinkTyped, ReplicaTyped, AllTrue, PartiesOK
    <2>3. writing <=> writeQueue # << >>
      BY DEF LinkOK, StreamOK
    <2>4. /\ ship # NoShip => ship \in World!Present("PLAYER")
          /\ unannounced \cup (unsent \ {OwnShip}) \subseteq 1 .. nextNetworkId - 1
      <3>1. unannounced \subseteq DOMAIN arena /\ unsent \subseteq 0 .. nextNetworkId - 1
        BY DEF AllTrue, PartiesOK, World!Present
      <3>2. ASSUME NEW n \in unsent \ {OwnShip} PROVE n \in 1 .. nextNetworkId - 1
        BY <2>1, <3>1 DEF OwnShip, NoShip
      <3> QED BY <2>1, <3>1, <3>2 DEF AllTrue, PartiesOK
    <2>5. ASSUME NEW i \in DOMAIN down, down[i].type # "ENTITY_BATCH_UPDATE"
          PROVE  down[i].id \in 1 .. nextNetworkId - 1
      <3>1. PICK p : p = down[i]
        OBVIOUS
      <3>2. p \in TrueMessages /\ p \in NamedMessages
        BY <3>1 DEF AllTrue, ReplicaTyped
      <3>3. p \in Spawns \/ p \in Destroys
        BY <2>5, <3>1, <3>2, MessageTypes DEF TrueMessages
      <3>4. p.id \in Nat /\ p.id # 0 /\ p.id < nextNetworkId
        BY <2>5, <3>1, <3>2, <3>3
           DEF NamedMessages, TrueMessages, Spawns, Destroys, WasSo, IsGone
      <3> QED BY <2>1, <3>1, <3>4
    <2> QED BY <2>1, <2>2, <2>3, <2>4, <2>5 DEF TypeOK, LinkTyped
  <1> QED BY <1>1, <1>2, <1>3, <1>4, TruthInvariance, LinkInvariance, NewsInvariance, PTL DEF Spec
=============================================================================

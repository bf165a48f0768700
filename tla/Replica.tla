------------------------------- MODULE Replica -------------------------------
(***************************************************************************)
(* The copy of the world a client keeps (GameClient::_entities), fed by    *)
(* UDP packets, next to the world itself (Arena).  One client is watched;  *)
(* the other players act on the world only.                                *)
(*                                                                         *)
(* The server sends from two threads.  The io_context's thread handles the *)
(* client's first packet: it walks over the entities there are, and for    *)
(* each one first reads it and then sends ENTITY_SPAWN.  The game thread   *)
(* may destroy that entity, and announce it, between the two.  The network *)
(* either keeps packets in order and delivers each once, or it loses,      *)
(* repeats and reorders them; which of the two is fixed per behaviour.     *)
(*                                                                         *)
(* Left out: positions; ENTITY_UPDATE, which no code sends; and the limit  *)
(* on the entities of a batch, the subject of GameWorld's BatchCoversWorld.*)
(* An operator X_... is a mutated form of X.                               *)
(***************************************************************************)
EXTENDS Integers, Sequences, FiniteSets, SequencesExt

CONSTANTS MaxIds,        \* bound: network ids 1 .. MaxIds are given out
          MaxInFlight    \* bound: packets on their way to the client

ASSUME ReplicaBounds == MaxIds \in Nat /\ MaxInFlight \in Nat

VARIABLES
    arena, nextNetworkId,  \* the world
    ship,                  \* network id of the watched client's ship, or NoShip
    unannounced,           \* ships of others whose first packet has not come yet
    ordered,               \* whether the network keeps packets in order
    up,                    \* whether a PLAYER_INPUT is on its way to the server
    down,                  \* packets on their way to the client
    udpInitialized,        \* whether the server knows the client's endpoint
    unsent,                \* entities onPlayerUdpReady has still to send
    packet,                \* the ENTITY_SPAWN it has made and not sent yet
    table,                 \* _entities of the client
    raced                  \* history, on an ordered network: entities that
                           \* were gone when their ENTITY_SPAWN was sent

worldVars  == << arena, nextNetworkId, ship, unannounced >>
netVars    == << up, down >>
serverVars == << udpInitialized, unsent, packet, raced >>
replicaVars == << worldVars, ordered, netVars, serverVars, table >>

World == INSTANCE Arena

NoShip   == 0
NoPacket == [type |-> "none"]

Spawn(n, kind, health) ==
    [type |-> "ENTITY_SPAWN", id |-> n, kind |-> kind, health |-> health]
Destroy(n) == [type |-> "ENTITY_DESTROY", id |-> n]
Batch      == [type |-> "ENTITY_BATCH_UPDATE", health |-> [n \in DOMAIN arena |-> arena[n].health]]

ReplicaInit ==
    /\ World!Init
    /\ ship = NoShip
    /\ unannounced = {}
    /\ ordered \in BOOLEAN
    /\ up = FALSE
    /\ down = << >>
    /\ udpInitialized = FALSE
    /\ unsent = {}
    /\ packet = NoPacket
    /\ table = << >>
    /\ raced = {}

(* send_to.  On an ordered network the model's bound makes the sender      *)
(* wait.  On the other kind down is what may still arrive, any number of   *)
(* times and in any order: a packet is lost when it never does, and when   *)
(* the bound is reached another takes its place.                           *)
Send(p) ==
    IF ordered
    THEN Len(down) < MaxInFlight /\ down' = Append(down, p)
    ELSE LET others == Range(down) \ {p} IN
         IF Cardinality(others) < MaxInFlight
         THEN down' = SetToSeq(others \cup {p})
         ELSE \E lost \in others : down' = SetToSeq((others \ {lost}) \cup {p})

(* A broadcast reaches the endpoints known.                                *)
Broadcast(p) == IF udpInitialized THEN Send(p) ELSE UNCHANGED down
-----------------------------------------------------------------------------
(* The thread of io_context.  It runs one handler to its end.              *)
Free == unsent = {} /\ packet = NoPacket

OwnShipEnters ==
    /\ Free
    /\ ship = NoShip
    /\ World!Enter("PLAYER")
    /\ ship' = nextNetworkId
    /\ UNCHANGED << unannounced, ordered, netVars, serverVars, table >>

OtherEnters ==
    /\ Free
    /\ World!Enter("PLAYER")
    /\ unannounced' = unannounced \cup {nextNetworkId}
    /\ UNCHANGED << ship, ordered, netVars, serverVars, table >>

(* The first packet of another player: its ship is broadcast, as at full   *)
(* health, which players never lose.                                       *)
OtherIsReady(n) ==
    /\ Free
    /\ n \in unannounced
    /\ unannounced' = unannounced \ {n}
    /\ Broadcast(Spawn(n, "PLAYER", 100))
    /\ UNCHANGED << arena, nextNetworkId, ship, ordered, up, serverVars, table >>

OtherLeaves_OrSelf(n) ==
    /\ Free
    /\ World!Leave(n)
    /\ unannounced' = unannounced \ {n}
    /\ Broadcast(Destroy(n))
    /\ UNCHANGED << ship, ordered, up, serverVars, table >>
OtherLeaves(n) ==
    /\ Free
    /\ n # ship
    /\ World!Leave(n)
    /\ unannounced' = unannounced \ {n}
    /\ Broadcast(Destroy(n))
    /\ UNCHANGED << ship, ordered, up, serverVars, table >>

(* Some player shoots.  ENTITY_SPAWN gives a bullet one point of health,   *)
(* later updates 100.                                                      *)
Shoot ==
    /\ Free
    /\ World!Present("PLAYER") # {}
    /\ World!Enter("BULLET_PLAYER")
    /\ Broadcast(Spawn(nextNetworkId, "BULLET_PLAYER", 1))
    /\ UNCHANGED << ship, unannounced, ordered, up, serverVars, table >>

(* The first PLAYER_INPUT of the client: the endpoint is stored, and then  *)
(* every entity there is has to be sent, and last the client's own ship,   *)
(* to all endpoints.                                                       *)
OwnShip == NoShip        \* stands for that last broadcast in unsent

Snapshot_NoBullets == World!Present("PLAYER") \cup World!Present("ENEMY")
Snapshot == DOMAIN arena

FirstPacket_EndpointOnly ==
    /\ Free
    /\ up
    /\ ~udpInitialized
    /\ up' = FALSE
    /\ udpInitialized' = TRUE
    /\ UNCHANGED << worldVars, ordered, down, unsent, packet, table, raced >>
FirstPacket ==
    /\ Free
    /\ up
    /\ ~udpInitialized
    /\ up' = FALSE
    /\ udpInitialized' = TRUE
    /\ unsent' = Snapshot \cup {OwnShip}
    /\ UNCHANGED << worldVars, ordered, down, packet, table, raced >>

(* The next entity is read: one that was destroyed meanwhile has no        *)
(* components left and is skipped.                                         *)
SnapshotRead(n) ==
    /\ packet = NoPacket
    /\ n \in unsent
    /\ n = OwnShip => unsent = {OwnShip}
    /\ unsent' = unsent \ {n}
    /\ packet' = CASE n = OwnShip       -> Spawn(ship, "PLAYER", 100)
                   [] n \in DOMAIN arena -> Spawn(n, arena[n].kind, arena[n].health)
                   [] OTHER              -> NoPacket
    /\ UNCHANGED << worldVars, ordered, netVars, udpInitialized, table, raced >>

SnapshotSend ==
    /\ packet # NoPacket
    /\ Send(packet)
    /\ packet' = NoPacket
    /\ raced' = IF ordered THEN raced \cup ({packet.id} \ DOMAIN arena) ELSE raced
    /\ UNCHANGED << worldVars, ordered, up, udpInitialized, unsent, table >>
-----------------------------------------------------------------------------
(* The game thread.                                                        *)
SpawnEnemy ==
    /\ World!Enter("ENEMY")
    /\ Broadcast(Spawn(nextNetworkId, "ENEMY", 50))
    /\ UNCHANGED << ship, unannounced, ordered, up, serverVars, table >>

Collide ==
    /\ \/ \E b, n \in DOMAIN arena : World!Hit(b, n)
       \/ \E S \in SUBSET World!Bullets : World!Expire(S)
    /\ UNCHANGED << ship, unannounced, ordered, netVars, serverVars, table >>

DestroyEntity(n) ==
    /\ World!Destroy(n)
    /\ Broadcast(Destroy(n))
    /\ UNCHANGED << ship, unannounced, ordered, up, serverVars, table >>

(* broadcastWorldState, once the tick has destroyed all it had to.         *)
BroadcastWorldState ==
    /\ World!Doomed = {}
    /\ udpInitialized
    /\ arena # << >>
    /\ Send(Batch)
    /\ UNCHANGED << worldVars, ordered, up, serverVars, table >>
-----------------------------------------------------------------------------
(* The client: handlers of GameClient::update, on its table t.             *)
handleEntitySpawn(t, p) ==
    [n \in DOMAIN t \cup {p.id} |->
        IF n = p.id THEN [kind |-> p.kind, health |-> p.health] ELSE t[n]]

handleEntityBatchUpdate_OffByOne(t, p) ==
    [n \in DOMAIN t |->
        IF n + 1 \in DOMAIN p.health THEN [t[n] EXCEPT !.health = p.health[n + 1]] ELSE t[n]]
handleEntityBatchUpdate_UnknownEndsIt(t, p) ==
    [n \in DOMAIN t |->
        IF n \in DOMAIN p.health /\ DOMAIN p.health \subseteq DOMAIN t
        THEN [t[n] EXCEPT !.health = p.health[n]] ELSE t[n]]
handleEntityBatchUpdate(t, p) ==
    [n \in DOMAIN t |->
        IF n \in DOMAIN p.health THEN [t[n] EXCEPT !.health = p.health[n]] ELSE t[n]]

handleEntityDestroy(t, p) == [n \in DOMAIN t \ {p.id} |-> t[n]]

handled(t, p) == CASE p.type = "ENTITY_SPAWN"        -> handleEntitySpawn(t, p)
                   [] p.type = "ENTITY_BATCH_UPDATE" -> handleEntityBatchUpdate(t, p)
                   [] p.type = "ENTITY_DESTROY"      -> handleEntityDestroy(t, p)

(* update: a packet that has come is handled.                              *)
Receive(i) ==
    /\ i \in DOMAIN down
    /\ ordered => i = 1
    /\ table' = handled(table, down[i])
    /\ down' = IF ordered THEN Tail(down) ELSE down
    /\ UNCHANGED << worldVars, ordered, up, serverVars >>

(* sendInput, of a frame of the client's loop.  Later inputs steer and     *)
(* shoot; Shoot stands for them.                                           *)
SendInput ==
    /\ ~up
    /\ ~udpInitialized
    /\ up' = TRUE
    /\ UNCHANGED << worldVars, ordered, down, serverVars, table >>

LoseInput ==
    /\ ~ordered
    /\ up
    /\ up' = FALSE
    /\ UNCHANGED << worldVars, ordered, down, serverVars, table >>
-----------------------------------------------------------------------------
(* What the client shows of an entity was true of it once: the entity was  *)
(* in the world, it has that kind, and an enemy had that health; no order, *)
(* loss or repetition of packets mixes two entities up or shows less       *)
(* health than is left (GameClient.cpp:203-317).                           *)
ShownWasTrue ==
    \A n \in DOMAIN table :
        /\ n < nextNetworkId
        /\ n \in DOMAIN arena =>
              /\ table[n].kind = arena[n].kind
              /\ arena[n].kind = "ENEMY" => table[n].health \in arena[n].health .. 50

(* On a network that keeps packets in order, a client with nothing on its  *)
(* way shows the world: all of it that was announced, and of what is gone  *)
(* at most entities destroyed while onPlayerUdpReady was sending them      *)
(* (GameServer.cpp:319-394 against 741-785).                               *)
OrderedClientShowsWorld ==
    ordered /\ udpInitialized /\ Free /\ down = << >> =>
        /\ DOMAIN arena \ unannounced \subseteq DOMAIN table
        /\ DOMAIN table \ DOMAIN arena \subseteq raced

(* However often batches are lost, or overtaken by older packets, there is *)
(* again a moment when every health shown is the entity's own              *)
(* (GameServer.cpp:125-205, GameClient.cpp:281-306).                       *)
Outdated == {n \in DOMAIN table \cap DOMAIN arena : table[n].health # arena[n].health}

HealthCatchesUp == Outdated # {} ~> Outdated = {}
=============================================================================

------------------------------- MODULE Client -------------------------------
(***************************************************************************)
(* A client from connect() on: Link has its TCP connection, Replica its    *)
(* UDP packets and its copy of the world.  They meet where CONNECT puts    *)
(* the client's ship into the world, where players who come and go are     *)
(* announced over TCP, and where connect() returns and the frames of the   *)
(* client's loop begin.                                                    *)
(***************************************************************************)
EXTENDS Link, Replica

vars == << linkVars, replicaVars >>

Init == LinkInit /\ ReplicaInit

(* One CONNECT line: it puts the client's ship into the world.             *)
HandleLine ==
    \/ AcceptConnect /\ OwnShipEnters
    \/ (LineIsSplit \/ RefuseConnect) /\ UNCHANGED replicaVars

IoThread ==
    \/ HandleLine
    \/ (Accept \/ OnWritten) /\ UNCHANGED replicaVars
    \/ OtherEnters /\ Notify(PLAYER_JOIN)
    \/ \E n \in DOMAIN arena : OtherLeaves(n) /\ Notify(PLAYER_LEAVE)
    \/ /\ \/ Shoot
          \/ \E n \in unannounced : OtherIsReady(n)
          \/ FirstPacket \/ SnapshotSend
          \/ \E n \in unsent : SnapshotRead(n)
       /\ UNCHANGED linkVars

GameThread ==
    /\ \/ SpawnEnemy \/ Collide \/ BroadcastWorldState
       \/ \E n \in DOMAIN arena : DestroyEntity(n)
    /\ UNCHANGED linkVars

Frame_OnceShipIsShown ==
    KnowsServer /\ ship \in DOMAIN table /\ SendInput /\ UNCHANGED linkVars
Frame == KnowsServer /\ SendInput /\ UNCHANGED linkVars

(* connect(), then update() and sendInput() of every frame.  connect()     *)
(* itself sends no packet: its sendInput(0, 0, 0) comes before             *)
(* _connected = true.                                                      *)
ClientProcess ==
    \/ (Connect \/ ReadReply) /\ UNCHANGED replicaVars
    \/ Frame
    \/ \E i \in DOMAIN down : Receive(i) /\ UNCHANGED linkVars

Network == LoseInput /\ UNCHANGED linkVars

Next == IoThread \/ GameThread \/ ClientProcess \/ Network

(* What goes on without end: the handlers of the io_context, and connect() *)
(* once it can read; the frames of the client's loop; the ticks of the     *)
(* game loop.  SF because another sender may take the last room of down,   *)
(* which only the model has, and because the network is assumed not to     *)
(* lose every input, or every batch before a newer state makes it old.     *)
Handshake == \/ HandleLine
             \/ (Connect \/ Accept \/ OnWritten \/ ReadReply) /\ UNCHANGED replicaVars

HandleFirstPacket ==
    /\ FirstPacket \/ SnapshotSend \/ \E n \in unsent : SnapshotRead(n)
    /\ UNCHANGED linkVars

TickEnds == /\ BroadcastWorldState \/ \E n \in DOMAIN arena : DestroyEntity(n)
            /\ UNCHANGED linkVars

ReceiveNews == /\ \E i \in DOMAIN down : (ordered \/ down[i] = Batch) /\ Receive(i)
               /\ UNCHANGED linkVars

Fairness == /\ WF_vars(Handshake) /\ WF_vars(Frame)
            /\ SF_vars(HandleFirstPacket) /\ SF_vars(TickEnds) /\ SF_vars(ReceiveNews)

Spec == Init /\ [][Next]_vars /\ Fairness
-----------------------------------------------------------------------------
TypeOK ==
    /\ client \in {"start", "waiting", "connected", "failed"}
    /\ session \in {"none", "listed", "deaf", "accepted", "refused"}
    /\ {line, writing, ordered, up, udpInitialized} \subseteq BOOLEAN
    /\ writing <=> writeQueue # << >>
    /\ DOMAIN arena \subseteq 1 .. nextNetworkId - 1
    /\ ship # NoShip => ship \in World!Present("PLAYER")
    /\ unannounced \cup (unsent \ {OwnShip}) \subseteq 1 .. nextNetworkId - 1
    /\ \A i \in DOMAIN down : down[i].type = "ENTITY_BATCH_UPDATE"
                              \/ down[i].id \in 1 .. nextNetworkId - 1

(* connect() succeeds only with the session accepted and its token known:  *)
(* the first read, however much of the stream it brings, never leaves the  *)
(* client with part of a token or none (Protocol.cpp:30-40 writes the      *)
(* parameters in the order of their keys, udp_port after token;            *)
(* GameClient.cpp:46-61).                                                  *)
ConnectedKnowsToken ==
    client = "connected" => session = "accepted" /\ given.token = Token

(* connect() always comes back once the session has answered, whatever     *)
(* else is queued for writing (Server.cpp:16-22, 158-173).                 *)
ConnectReturns == session \in {"accepted", "refused"} ~> ~Connecting

(* Once connect() has returned, a client whose session was accepted is in  *)
(* the game: connected with the id, the token and the UDP port of          *)
(* "CONNECT_OK id=1 token=c5b320db udp_port=4243"                          *)
(* (CONNEXION_PROTOCOL.md:87, GameClient.cpp:45-61).                       *)
AcceptedClientGetsIn ==
    session = "accepted" /\ ~Connecting =>
        client = "connected" /\ given = [id |-> MyId, token |-> Token, port |-> udpPort]

(* The server comes to know the endpoint of a client that has the right    *)
(* token and port, although connect() itself sends no packet               *)
(* (GameClient.cpp:82-84) and packets get lost: the frames' inputs do.     *)
FirstPacketArrives == KnowsServer ~> udpInitialized

(* No black screen: on a network that keeps packets in order the client's  *)
(* own ship is sooner or later in its table (GameServer.cpp:287-441).      *)
NoBlackScreen == ordered /\ KnowsServer ~> ship \in DOMAIN table
=============================================================================

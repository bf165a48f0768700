------------------------------ MODULE Sessions ------------------------------
(***************************************************************************)
(* The connection layer of the server (src/Server.cpp) with the hooks      *)
(* GameServer overrides: accept, CONNECT, DISCONNECT, a failing read, and  *)
(* the UDP packets that carry a session token.  All of these are           *)
(* completion handlers of one io_context run by one thread, so each is one *)
(* action.                                                                 *)
(*                                                                         *)
(* Of the game world only the players' entities are kept, each named by    *)
(* its network id; enemies, bullets and the game loop are in GameWorld.    *)
(* A client is named by the id of its session, an UDP endpoint by the      *)
(* client behind it.  sent[c] is everything handed to Session::send for c, *)
(* announced[c] the network ids for which c's endpoint was sent            *)
(* ENTITY_SPAWN and no ENTITY_DESTROY since.  An operator X_... is a       *)
(* mutated form of X, a bug the properties must be able to see.            *)
(***************************************************************************)
EXTENDS Naturals, FiniteSets, SequencesExt

CONSTANTS
    MaxClients,      \* bound: TCP connections accepted in a run
    MaxConnects,     \* bound: CONNECT lines handled per session
    MAX_PLAYERS,     \* the limit CONNECT checks (4 in the code)
    UINT8,           \* number of values of uint8_t (256 in the code)
    Tokens,          \* values generateSessionToken() may draw
    NoToken,         \* the token of a session that has not authenticated (0)
    FreshTokens,     \* TRUE: a draw never repeats a token (the code does not check)
    Reauthenticate   \* TRUE: clients may CONNECT again after CONNECT_OK

ASSUME BoundsAssumption == MaxClients \in Nat /\ MaxConnects \in Nat
ASSUME LimitsAssumption == MAX_PLAYERS \in Nat /\ UINT8 \in Nat \ {0}
ASSUME TokensAssumption == NoToken \notin Tokens

ClientIds  == 1 .. MaxClients
NetworkIds == Nat \ {0}
NoClient   == 0

VARIABLES
    sessions,        \* _sessions: ids in ascending order, being pushed in that order
    nextClientId,    \* _nextClientId
    clientInfo,      \* the ClientInfo of each session, also once it is removed
    reader,          \* the pending async_read_some of each session
    connects,        \* CONNECT lines handled so far
    sent,            \* TCP messages handed to each session
    nextNetworkId,   \* _nextNetworkId
    playerEntities,  \* _playerEntities: player id -> network id of its entity
    spawned,         \* network ids of the player entities in the registry
    announced,       \* network ids each endpoint has been told of
    steeredBy        \* for each network id, the client whose input last steered it

tcpVars   == << sessions, nextClientId, reader, connects, sent >>
worldVars == << nextNetworkId, playerEntities, spawned, announced, steeredBy >>
vars      == << tcpVars, clientInfo, worldVars >>

NoInfo == [playerId |-> 0, sessionToken |-> NoToken,
           udpInitialized |-> FALSE, udpEndpoint |-> NoClient]

Message(type, id, token) == [type |-> type, id |-> id, token |-> token]
Notice(type, id)         == Message(type, id, NoToken)

Authenticated(c) == clientInfo[c].sessionToken # NoToken

(* The endpoints a broadcast over UDP reaches, given the sessions' infos.  *)
UdpRecipients(info) ==
    {info[s].udpEndpoint : s \in {s \in sessions : info[s].udpInitialized}}

Init ==
    /\ sessions = {}
    /\ nextClientId = 1
    /\ clientInfo = [c \in ClientIds |-> NoInfo]
    /\ reader = [c \in ClientIds |-> "none"]
    /\ connects = [c \in ClientIds |-> 0]
    /\ sent = [c \in ClientIds |-> << >>]
    /\ nextNetworkId = 1
    /\ playerEntities = << >>
    /\ spawned = {}
    /\ announced = [c \in ClientIds |-> {}]
    /\ steeredBy = << >>
-----------------------------------------------------------------------------
(* The hooks of GameServer, as far as the players' entities go.            *)

(* insert() keeps the entity a player id may already have.                 *)
onPlayerConnected(p) ==
    /\ nextNetworkId' = nextNetworkId + 1
    /\ spawned' = spawned \cup {nextNetworkId}
    /\ playerEntities' = [q \in DOMAIN playerEntities \cup {p} |->
          IF q \in DOMAIN playerEntities THEN playerEntities[q] ELSE nextNetworkId]
    /\ steeredBy' = Append(steeredBy, NoClient)
    /\ UNCHANGED announced

(* Erase the player's entry, kill the entity, and send ENTITY_DESTROY to   *)
(* every session whose endpoint is known.                                  *)
WithoutPlayer_EntryKept(p) == playerEntities
WithoutPlayer(p) == Restrict(playerEntities, DOMAIN playerEntities \ {p})

onPlayerDisconnected(p) ==
    IF p \in DOMAIN playerEntities
    THEN LET gone == playerEntities[p] IN
         /\ playerEntities' = WithoutPlayer(p)
         /\ spawned' = spawned \ {gone}
         /\ announced' = [k \in ClientIds |->
                IF k \in UdpRecipients(clientInfo) THEN announced[k] \ {gone} ELSE announced[k]]
         /\ UNCHANGED << nextNetworkId, steeredBy >>
    ELSE UNCHANGED worldVars

(* The session is looked up by getId() = p.  It is sent every player's     *)
(* entity, then p's own entity goes to every endpoint known by now.        *)
SpawnNotices_NotToOthers(p, info) ==
    [k \in ClientIds |->
        announced[k] \cup IF k = info[p].udpEndpoint THEN Range(playerEntities) ELSE {}]
SpawnNotices(p, info) ==
    [k \in ClientIds |->
        announced[k]
        \cup (IF k = info[p].udpEndpoint THEN Range(playerEntities) ELSE {})
        \cup (IF k \in UdpRecipients(info) /\ p \in DOMAIN playerEntities
              THEN {playerEntities[p]} ELSE {})]

onPlayerUdpReady(p, info) ==
    announced' = IF p \in sessions THEN SpawnNotices(p, info) ELSE announced
-----------------------------------------------------------------------------
(* doAccept: a session is created, listed and starts reading.              *)
Accept ==
    /\ nextClientId \in ClientIds
    /\ sessions' = sessions \cup {nextClientId}
    /\ reader' = [reader EXCEPT ![nextClientId] = "reading"]
    /\ nextClientId' = nextClientId + 1
    /\ UNCHANGED << connects, sent, clientInfo, worldVars >>

ServerFull_OffByOne == Cardinality(sessions) > MAX_PLAYERS + 1
ServerFull          == Cardinality(sessions) > MAX_PLAYERS

PlayerIdOf(c) == c % UINT8

(* CONNECT_ERROR: the server is full, or the username, which the model     *)
(* leaves open, is empty or too long.                                      *)
RefuseConnect(c) ==
    /\ sent' = [sent EXCEPT ![c] = Append(@, Notice("CONNECT_ERROR", 0))]
    /\ UNCHANGED << sessions, nextClientId, reader, clientInfo, worldVars >>

AcceptConnect(c, token) ==
    LET p == PlayerIdOf(c) IN
    /\ ~ServerFull
    /\ FreshTokens => \A k \in ClientIds : clientInfo[k].sessionToken # token
    /\ clientInfo' = [clientInfo EXCEPT
          ![c] = [@ EXCEPT !.playerId = p, !.sessionToken = token, !.udpInitialized = FALSE]]
    /\ onPlayerConnected(p)
    /\ sent' = [k \in ClientIds |->
          CASE k = c                       -> Append(sent[k], Message("CONNECT_OK", p, token))
            [] k \in sessions \ {c}        -> Append(sent[k], Notice("PLAYER_JOIN", p))
            [] OTHER                       -> sent[k]]
    /\ UNCHANGED << sessions, nextClientId, reader >>

HandleConnect(c) ==
    /\ reader[c] = "reading"
    /\ connects[c] < MaxConnects
    /\ Authenticated(c) => Reauthenticate
    /\ connects' = [connects EXCEPT ![c] = @ + 1]
    /\ RefuseConnect(c) \/ \E token \in Tokens : AcceptConnect(c, token)

(* Both ways to leave: the hook and the notice only for a player, then     *)
(* removeSession.                                                          *)
removeSession_Forgotten(c) == sessions
removeSession(c) == sessions \ {c}

RemoveFromWorld(c) ==
    IF clientInfo[c].playerId # 0
    THEN onPlayerDisconnected(clientInfo[c].playerId)
    ELSE UNCHANGED worldVars

LeaveNotices(c) ==
    [k \in ClientIds |->
        IF clientInfo[c].playerId # 0 /\ k \in sessions \ {c}
        THEN Append(sent[k], Notice("PLAYER_LEAVE", clientInfo[c].playerId))
        ELSE sent[k]]

(* DISCONNECT: the reply, the departure, and close().  The read that       *)
(* doRead() then starts fails, so ReadError(c) follows.                    *)
HandleDisconnect(c) ==
    /\ reader[c] = "reading"
    /\ RemoveFromWorld(c)
    /\ sent' = [LeaveNotices(c) EXCEPT ![c] = Append(@, Notice("DISCONNECT_OK", 0))]
    /\ sessions' = removeSession(c)
    /\ reader' = [reader EXCEPT ![c] = "closed"]
    /\ UNCHANGED << nextClientId, connects, clientInfo >>

(* The completion of a read with an error: the peer closed the connection  *)
(* or it broke, or this side closed it in HandleDisconnect.                *)
ReadError(c) ==
    /\ reader[c] \in {"reading", "closed"}
    /\ RemoveFromWorld(c)
    /\ sent' = LeaveNotices(c)
    /\ sessions' = removeSession(c)
    /\ reader' = [reader EXCEPT ![c] = "done"]
    /\ UNCHANGED << nextClientId, connects, clientInfo >>

(* handleUDPPacket: a packet of client c with a token it was given, maybe  *)
(* delayed until after it left.  The first session with that token gets    *)
(* it; its first packet reveals its endpoint; an input steers the entity   *)
(* of the player id of that session, a PING changes nothing more.          *)
TokensOf(c) == {m.token : m \in {m \in Range(sent[c]) : m.type = "CONNECT_OK"}}

Holders_AnySession(token) == sessions
Holders(token) == {s \in sessions : clientInfo[s].sessionToken = token}

Steer(p, c) ==
    steeredBy' = IF p \in DOMAIN playerEntities
                 THEN [steeredBy EXCEPT ![playerEntities[p]] = c]
                 ELSE steeredBy

WithEndpoint_FlagOnly(s, c) ==
    [clientInfo EXCEPT ![s] = [@ EXCEPT !.udpInitialized = TRUE]]
WithEndpoint(s, c) ==
    IF clientInfo[s].udpInitialized THEN clientInfo
    ELSE [clientInfo EXCEPT ![s] = [@ EXCEPT !.udpInitialized = TRUE, !.udpEndpoint = c]]

UdpPacket(c, token, type) ==
    /\ Holders(token) # {}
    /\ LET s    == Min(Holders(token))
           p    == clientInfo[s].playerId
           info == WithEndpoint(s, c)
       IN  /\ clientInfo' = info
           /\ IF clientInfo[s].udpInitialized THEN UNCHANGED announced ELSE onPlayerUdpReady(p, info)
           /\ IF type = "PLAYER_INPUT" THEN Steer(p, c) ELSE UNCHANGED steeredBy
    /\ UNCHANGED << tcpVars, nextNetworkId, playerEntities, spawned >>

Next ==
    \/ Accept
    \/ \E c \in ClientIds : HandleConnect(c) \/ HandleDisconnect(c) \/ ReadError(c)
    \/ \E c \in ClientIds, type \in {"PLAYER_INPUT", "PING"} :
          \E token \in TokensOf(c) : UdpPacket(c, token, type)

Spec == Init /\ [][Next]_vars
-----------------------------------------------------------------------------
Players == {c \in sessions : Authenticated(c)}

UdpReady == {c \in Players : clientInfo[c].udpInitialized}

EntityOf(c) == playerEntities[clientInfo[c].playerId]

TypeOK ==
    /\ sessions \subseteq ClientIds
    /\ nextClientId \in 1 .. MaxClients + 1
    /\ clientInfo \in [ClientIds ->
          [playerId : 0 .. UINT8 - 1, sessionToken : Tokens \cup {NoToken},
           udpInitialized : BOOLEAN, udpEndpoint : ClientIds \cup {NoClient}]]
    /\ \A c \in ClientIds :
          clientInfo[c].udpInitialized => clientInfo[c].udpEndpoint # NoClient
    /\ reader \in [ClientIds -> {"none", "reading", "closed", "done"}]
    /\ connects \in [ClientIds -> 0 .. MaxConnects]
    /\ nextNetworkId \in NetworkIds
    /\ DOMAIN playerEntities \subseteq 0 .. UINT8 - 1
    /\ Range(playerEntities) \subseteq NetworkIds
    /\ spawned \subseteq NetworkIds
    /\ announced \in [ClientIds -> SUBSET NetworkIds]
    /\ steeredBy \in Seq(ClientIds \cup {NoClient})
    /\ Len(steeredBy) = nextNetworkId - 1

(* CONNECT compares the number of CONNECTED sessions, its own included and *)
(* authenticated or not, with the limit (Server.cpp:33); still no more     *)
(* than MAX_PLAYERS sessions are ever authenticated together.              *)
AtMostMaxPlayers == Cardinality(Players) <= MAX_PLAYERS

(* The game has exactly one entity for each authenticated session: none is *)
(* missing, none is shared, and none outlives its session, whichever of    *)
(* the two ways it leaves by (onPlayerConnected, onPlayerDisconnected).    *)
EntitiesMatchSessions ==
    /\ DOMAIN playerEntities = {clientInfo[c].playerId : c \in Players}
    /\ spawned = Range(playerEntities)
    /\ \A c, d \in Players : EntityOf(c) = EntityOf(d) => c = d

(* An endpoint that is known has been told of the entity of every player   *)
(* whose endpoint is known, and still holds no entity that is gone: what   *)
(* onPlayerUdpReady sends late joiners and early ones adds up.             *)
AnnouncedMatchesWorld ==
    \A c \in UdpReady :
        /\ {EntityOf(d) : d \in UdpReady} \subseteq announced[clientInfo[c].udpEndpoint]
        /\ announced[clientInfo[c].udpEndpoint] \subseteq spawned

(* A ship is steered by the client that owns it, even when packets arrive  *)
(* after their sender left (Server.cpp:259-266, 297).                      *)
InputsSteerOwnShip ==
    \A c \in Players : steeredBy[EntityOf(c)] \in {NoClient, c}

(* DISCONNECT_OK is the last message a client is sent: no notice reaches a *)
(* session after its farewell (Server.cpp:92, 110, 346-352).               *)
FarewellIsLast ==
    \A c \in ClientIds : \A i \in 1 .. Len(sent[c]) - 1 :
        sent[c][i].type # "DISCONNECT_OK"

(* The other players are notified of a departure (Server.cpp:101-107,      *)
(* 144-150); each is notified once.                                        *)
LeaveAnnouncedOnce ==
    \A c \in ClientIds : \A i, j \in 1 .. Len(sent[c]) :
        sent[c][i].type = "PLAYER_LEAVE" /\ sent[c][i] = sent[c][j] => i = j

(* No two players of the game have the same player id.                     *)
PlayerIdsDistinct ==
    \A c, d \in Players : clientInfo[c].playerId = clientInfo[d].playerId => c = d
=============================================================================

--------------------------- MODULE SessionsProofs ---------------------------
(***************************************************************************)
(* Safety of the connection layer, for any number of clients, any player   *)
(* limit and any tokens.                                                   *)
(***************************************************************************)
EXTENDS Sessions, SequenceTheorems, FiniteSetTheorems, TLAPS

(* _sessions holds exactly the sessions with a read on an open socket, and *)
(* ids not yet given out name nobody.                                      *)
Listed == /\ \A c \in ClientIds : c \in sessions <=> reader[c] = "reading"
          /\ \A c \in ClientIds : c >= nextClientId =>
                reader[c] = "none" /\ ~Authenticated(c)

Limit == AtMostMaxPlayers

IInv == TypeOK /\ Listed /\ Limit
-----------------------------------------------------------------------------
LEMMA ClientsFinite ==
  ASSUME NEW S \in SUBSET ClientIds
  PROVE  IsFiniteSet(S) /\ Cardinality(S) \in Nat
  <1>1. IsFiniteSet(ClientIds)
    BY FS_Interval, BoundsAssumption DEF ClientIds
  <1> QED BY <1>1, FS_Subset, FS_CardinalityType

(* Fewer players, or players among few enough sessions, stay in the limit. *)
LEMMA LimitMonotone ==
  ASSUME NEW S \in SUBSET ClientIds, NEW T \in SUBSET ClientIds,
         S \subseteq T, Cardinality(T) <= MAX_PLAYERS
  PROVE  Cardinality(S) <= MAX_PLAYERS
  <1>1. Cardinality(S) <= Cardinality(T)
    BY ClientsFinite, FS_Subset
  <1> QED BY <1>1, ClientsFinite, LimitsAssumption

InfoType == [playerId : 0 .. UINT8 - 1, sessionToken : Tokens \cup {NoToken},
             udpInitialized : BOOLEAN, udpEndpoint : ClientIds \cup {NoClient}]

WorldType ==
    /\ nextNetworkId \in NetworkIds
    /\ DOMAIN playerEntities \subseteq 0 .. UINT8 - 1
    /\ Range(playerEntities) \subseteq NetworkIds
    /\ spawned \subseteq NetworkIds
    /\ announced \in [ClientIds -> SUBSET NetworkIds]
    /\ steeredBy \in Seq(ClientIds \cup {NoClient})
    /\ Len(steeredBy) = nextNetworkId - 1

(* The hook for a departure keeps the world's types.                       *)
LEMMA DepartureType ==
  ASSUME WorldType, NEW c \in ClientIds, RemoveFromWorld(c)
  PROVE  WorldType'
  <1> DEFINE p == clientInfo[c].playerId
  <1>1. CASE UNCHANGED worldVars
    BY <1>1 DEF WorldType, worldVars
  <1>2. CASE p \in DOMAIN playerEntities /\ onPlayerDisconnected(p)
    <2>1. /\ playerEntities' = Restrict(playerEntities, DOMAIN playerEntities \ {p})
          /\ UNCHANGED << nextNetworkId, steeredBy >>
          /\ spawned' \subseteq spawned
          /\ announced' \in [ClientIds -> SUBSET NetworkIds]
      BY <1>2 DEF onPlayerDisconnected, WithoutPlayer, WorldType
    <2>2. /\ DOMAIN playerEntities' \subseteq DOMAIN playerEntities
          /\ Range(playerEntities') \subseteq Range(playerEntities)
      BY <2>1 DEF Restrict, Range
    <2> QED BY <2>1, <2>2 DEF WorldType
  <1> QED BY <1>1, <1>2 DEF RemoveFromWorld, onPlayerDisconnected

LEMMA TypeSplit ==
  TypeOK <=>
    /\ sessions \subseteq ClientIds
    /\ nextClientId \in 1 .. MaxClients + 1
    /\ clientInfo \in [ClientIds -> InfoType]
    /\ \A c \in ClientIds :
          clientInfo[c].udpInitialized => clientInfo[c].udpEndpoint # NoClient
    /\ reader \in [ClientIds -> {"none", "reading", "closed", "done"}]
    /\ connects \in [ClientIds -> 0 .. MaxConnects]
    /\ WorldType
  BY DEF TypeOK, InfoType, WorldType

LEMMA AcceptStep ==
  ASSUME IInv, Accept
  PROVE  IInv'
  <1> USE TypeSplit DEF IInv
  <1>1. WorldType'
    BY DEF Accept, worldVars, WorldType
  <1>2. TypeOK'
    BY <1>1, BoundsAssumption DEF Accept, ClientIds, TypeOK, InfoType, WorldType
  <1>3. Listed'
    BY BoundsAssumption DEF Accept, Listed, ClientIds, Authenticated
  <1>4. Players' = Players
    BY DEF Accept, Players, Authenticated, Listed, ClientIds
  <1> QED BY <1>2, <1>3, <1>4 DEF Limit, AtMostMaxPlayers

LEMMA RefuseStep ==
  ASSUME IInv, NEW c \in ClientIds, HandleConnect(c), RefuseConnect(c)
  PROVE  IInv'
  <1> USE TypeSplit DEF IInv
  <1>1. WorldType'
    BY DEF RefuseConnect, worldVars, WorldType
  <1>2. TypeOK'
    <2>1. /\ UNCHANGED << sessions, nextClientId, reader, clientInfo >>
          /\ connects' = [connects EXCEPT ![c] = @ + 1]
          /\ connects[c] < MaxConnects
      BY DEF RefuseConnect, HandleConnect
    <2>2. connects' \in [ClientIds -> 0 .. MaxConnects]
      BY <2>1, BoundsAssumption
    <2> QED BY <1>1, <2>1, <2>2 DEF TypeOK, InfoType, WorldType
  <1>3. Listed'
    BY DEF RefuseConnect, Listed, Authenticated
  <1>4. Players' = Players
    BY DEF RefuseConnect, Players, Authenticated
  <1> QED BY <1>2, <1>3, <1>4 DEF Limit, AtMostMaxPlayers

(* CONNECT_OK: only while no more than MAX_PLAYERS sessions are listed.    *)
LEMMA ConnectStep ==
  ASSUME IInv, NEW c \in ClientIds, HandleConnect(c),
         NEW token \in Tokens, AcceptConnect(c, token)
  PROVE  IInv'
  <1> USE TypeSplit DEF IInv
  <1> DEFINE p == PlayerIdOf(c)
  <1>1. p \in 0 .. UINT8 - 1
    BY LimitsAssumption DEF PlayerIdOf, ClientIds
  <1>2. WorldType'
    <2>1. /\ nextNetworkId' = nextNetworkId + 1
          /\ spawned' = spawned \cup {nextNetworkId}
          /\ steeredBy' = Append(steeredBy, NoClient)
          /\ announced' = announced
          /\ playerEntities' = [q \in DOMAIN playerEntities \cup {p} |->
                IF q \in DOMAIN playerEntities THEN playerEntities[q] ELSE nextNetworkId]
      BY DEF AcceptConnect, onPlayerConnected
    <2>2. /\ DOMAIN playerEntities' = DOMAIN playerEntities \cup {p}
          /\ Range(playerEntities') \subseteq Range(playerEntities) \cup {nextNetworkId}
      BY <2>1 DEF Range
    <2>3. /\ steeredBy' \in Seq(ClientIds \cup {NoClient})
          /\ Len(steeredBy') = Len(steeredBy) + 1
      BY <2>1, AppendProperties DEF WorldType
    <2>4. /\ Len(steeredBy) \in Nat
          /\ Len(steeredBy) = nextNetworkId - 1
          /\ nextNetworkId \in Nat \ {0}
      BY LenProperties DEF WorldType, NetworkIds
    <2>5. /\ nextNetworkId' \in NetworkIds
          /\ Len(steeredBy') = nextNetworkId' - 1
      BY <2>1, <2>3, <2>4 DEF NetworkIds
    <2>6. /\ DOMAIN playerEntities' \subseteq 0 .. UINT8 - 1
          /\ Range(playerEntities') \subseteq NetworkIds
          /\ spawned' \subseteq NetworkIds
      BY <1>1, <2>1, <2>2 DEF WorldType
    <2> QED BY <2>1, <2>3, <2>5, <2>6 DEF WorldType
  <1>3. /\ clientInfo' \in [ClientIds -> InfoType]
        /\ \A k \in ClientIds \ {c} : clientInfo'[k] = clientInfo[k]
        /\ clientInfo'[c].udpInitialized = FALSE
    BY <1>1 DEF AcceptConnect, InfoType
  <1>4. TypeOK'
    <2>1. /\ sessions' = sessions /\ nextClientId' = nextClientId /\ reader' = reader
          /\ connects' = [connects EXCEPT ![c] = @ + 1]
          /\ connects[c] < MaxConnects
      BY DEF AcceptConnect, HandleConnect
    <2>2. connects' \in [ClientIds -> 0 .. MaxConnects]
      BY <2>1, BoundsAssumption
    <2> QED BY <1>2, <1>3, <2>1, <2>2 DEF TypeOK, InfoType, WorldType
  <1>5. Listed'
    BY <1>3 DEF AcceptConnect, HandleConnect, Listed, Authenticated
  <1>6. Limit'
    <2>1. Cardinality(sessions) <= MAX_PLAYERS
      <3>1. sessions \in SUBSET ClientIds /\ ~ServerFull
        BY DEF AcceptConnect
      <3> QED BY <3>1, ClientsFinite, LimitsAssumption DEF ServerFull
    <2>2. Players' \subseteq sessions
      BY DEF AcceptConnect, Players
    <2> QED BY <2>1, <2>2, LimitMonotone DEF Limit, AtMostMaxPlayers
  <1> QED BY <1>4, <1>5, <1>6

(* Both ways to leave only take sessions away.                             *)
LEMMA LeaveStep ==
  ASSUME IInv, NEW c \in ClientIds, HandleDisconnect(c) \/ ReadError(c)
  PROVE  IInv'
  <1> USE TypeSplit DEF IInv
  <1>1. /\ RemoveFromWorld(c)
        /\ sessions' = sessions \ {c}
        /\ UNCHANGED << nextClientId, connects, clientInfo >>
        /\ reader[c] # "none"
        /\ \/ reader' = [reader EXCEPT ![c] = "closed"]
           \/ reader' = [reader EXCEPT ![c] = "done"]
    BY DEF HandleDisconnect, ReadError, removeSession
  <1>2. WorldType'
    BY <1>1, DepartureType
  <1>3. TypeOK'
    BY <1>1, <1>2 DEF TypeOK, InfoType, WorldType
  <1>4. Listed'
    BY <1>1 DEF Listed, Authenticated
  <1>5. Players' \subseteq Players /\ Players \subseteq ClientIds
    BY <1>1 DEF Players, Authenticated
  <1> QED BY <1>3, <1>4, <1>5, LimitMonotone DEF Limit, AtMostMaxPlayers

(* A packet changes no session but for its endpoint.                       *)
LEMMA UdpStep ==
  ASSUME IInv, NEW c \in ClientIds, NEW token, NEW type, UdpPacket(c, token, type)
  PROVE  IInv'
  <1> USE TypeSplit DEF IInv
  <1> DEFINE s    == Min(Holders(token))
             p    == clientInfo[s].playerId
             info == WithEndpoint(s, c)
  <1>1. /\ clientInfo' = info
        /\ IF clientInfo[s].udpInitialized THEN UNCHANGED announced
           ELSE onPlayerUdpReady(p, info)
        /\ IF type = "PLAYER_INPUT" THEN Steer(p, c) ELSE UNCHANGED steeredBy
        /\ UNCHANGED << tcpVars, nextNetworkId, playerEntities, spawned >>
    BY DEF UdpPacket
  <1> HIDE DEF s
  <1>2. /\ info \in [ClientIds -> InfoType]
        /\ \A k \in ClientIds :
              /\ info[k].udpInitialized => info[k].udpEndpoint # NoClient
              /\ info[k].sessionToken = clientInfo[k].sessionToken
              /\ info[k].playerId = clientInfo[k].playerId
    <2>1. c # NoClient /\ clientInfo \in [ClientIds -> InfoType]
      BY DEF ClientIds, NoClient
    <2>2. CASE info = clientInfo
      BY <2>1, <2>2
    <2>3. CASE info = [clientInfo EXCEPT
                 ![s] = [@ EXCEPT !.udpInitialized = TRUE, !.udpEndpoint = c]]
      <3> HIDE DEF info
      <3>1. info \in [ClientIds -> InfoType]
        <4>1. CASE s \in ClientIds
          <5>1. [clientInfo[s] EXCEPT !.udpInitialized = TRUE, !.udpEndpoint = c] \in InfoType
            BY <2>1, <4>1 DEF InfoType
          <5> QED BY <2>1, <2>3, <5>1
        <4>2. CASE s \notin ClientIds
          BY <2>1, <2>3, <4>2
        <4> QED BY <4>1, <4>2
      <3>2. \A k \in ClientIds : clientInfo[k] \in InfoType
        BY <2>1
      <3> QED BY <2>1, <2>3, <3>1, <3>2 DEF InfoType
    <2> QED BY <2>2, <2>3 DEF WithEndpoint
  <1> HIDE DEF p, info
  <1>3. WorldType'
    <2>1. announced' \in [ClientIds -> SUBSET NetworkIds]
      <3>1. \A q \in DOMAIN playerEntities : playerEntities[q] \in NetworkIds
        BY DEF WorldType, Range
      <3>2. SpawnNotices(p, info) \in [ClientIds -> SUBSET NetworkIds]
        BY <3>1 DEF WorldType, SpawnNotices
      <3> QED BY <1>1, <3>2 DEF WorldType, onPlayerUdpReady
    <2>2. /\ steeredBy' \in Seq(ClientIds \cup {NoClient})
          /\ Len(steeredBy') = Len(steeredBy)
      <3> DEFINE n == playerEntities[p]
      <3>1. CASE UNCHANGED steeredBy
        BY <3>1 DEF WorldType
      <3>2. CASE steeredBy' = [steeredBy EXCEPT ![n] = c] /\ n \in 1 .. Len(steeredBy)
        <4> HIDE DEF n
        <4> QED BY <3>2, ExceptSeq DEF WorldType
      <3>3. CASE steeredBy' = [steeredBy EXCEPT ![n] = c] /\ n \notin 1 .. Len(steeredBy)
        <4> HIDE DEF n
        <4>1. DOMAIN steeredBy = 1 .. Len(steeredBy)
          BY LenProperties DEF WorldType
        <4>2. steeredBy' = steeredBy
          BY <3>3, <4>1, LenProperties DEF WorldType
        <4> QED BY <4>2 DEF WorldType
      <3> QED BY <1>1, <3>1, <3>2, <3>3 DEF Steer
    <2> QED BY <1>1, <2>1, <2>2 DEF WorldType
  <1>4. TypeOK'
    BY <1>1, <1>2, <1>3 DEF tcpVars, TypeOK, InfoType, WorldType
  <1>5. Listed'
    BY <1>1, <1>2 DEF Listed, tcpVars, Authenticated
  <1>6. Players' = Players
    BY <1>1, <1>2 DEF Players, Authenticated, tcpVars
  <1> QED BY <1>1, <1>4, <1>5, <1>6 DEF Limit, AtMostMaxPlayers

LEMMA InitInvariant == Init => IInv
  <1> SUFFICES ASSUME Init PROVE IInv
    OBVIOUS
  <1>1. NoInfo \in InfoType
    BY LimitsAssumption DEF NoInfo, InfoType
  <1>2. WorldType
    <2>1. Range(playerEntities) = {}
      BY DEF Init, Range
    <2> QED BY <2>1 DEF Init, WorldType, NetworkIds
  <1>3. TypeOK
    <2>1. clientInfo \in [ClientIds -> InfoType]
      BY <1>1 DEF Init
    <2>2. \A c \in ClientIds : ~clientInfo[c].udpInitialized
      BY DEF Init, NoInfo
    <2> QED BY <1>2, <2>1, <2>2, TypeSplit, BoundsAssumption DEF Init
  <1>4. Listed
    BY DEF Init, Listed, Authenticated, NoInfo
  <1>5. Limit
    <2>1. Players = {}
      BY DEF Init, Players
    <2> QED BY <2>1, FS_EmptySet, LimitsAssumption DEF Limit, AtMostMaxPlayers
  <1> QED BY <1>3, <1>4, <1>5 DEF IInv

LEMMA StepInvariant == IInv /\ [Next]_vars => IInv'
  <1> SUFFICES ASSUME IInv, [Next]_vars PROVE IInv'
    OBVIOUS
  <1>1. CASE Accept
    BY <1>1, AcceptStep
  <1>2. ASSUME NEW c \in ClientIds, HandleConnect(c) PROVE IInv'
    BY <1>2, RefuseStep, ConnectStep DEF HandleConnect
  <1>3. ASSUME NEW c \in ClientIds, HandleDisconnect(c) \/ ReadError(c) PROVE IInv'
    BY <1>3, LeaveStep
  <1>4. ASSUME NEW c \in ClientIds, NEW type, NEW token, UdpPacket(c, token, type)
        PROVE  IInv'
    BY <1>4, UdpStep
  <1>5. CASE UNCHANGED vars
    <2>1. Players' = Players
      BY <1>5 DEF vars, tcpVars, Players, Authenticated
    <2> QED BY <1>5, <2>1 DEF vars, tcpVars, worldVars, IInv, TypeOK, Listed, Limit,
                             AtMostMaxPlayers, Authenticated
  <1> QED BY <1>1, <1>2, <1>3, <1>4, <1>5 DEF Next

LEMMA Invariance == Spec => []IInv
  BY InitInvariant, StepInvariant, PTL DEF Spec

(* Every field of the connection layer keeps its type, whatever the order  *)
(* of accepts, requests, failures and packets (Server.cpp:24-175, 204-344).*)
THEOREM TypeCorrect == Spec => []TypeOK
  <1>1. IInv => TypeOK
    BY DEF IInv
  <1> QED BY <1>1, Invariance, PTL

(* No more than MAX_PLAYERS sessions are authenticated at a time: the test *)
(* of handleMessage counts the session that asks (Server.cpp:32-33).       *)
THEOREM PlayerLimit == Spec => []AtMostMaxPlayers
  <1>1. IInv => AtMostMaxPlayers
    BY DEF IInv, Limit
  <1> QED BY <1>1, Invariance, PTL
-----------------------------------------------------------------------------
(* From here on no player id is shared and nobody authenticates twice.     *)
NoWrap == MaxClients < UINT8 /\ ~Reauthenticate

(* A player's id is its session's, and the world has one entity for each   *)
(* player, all with network ids already handed out.                        *)
Matching ==
    /\ \A c \in ClientIds :
          clientInfo[c].playerId = IF Authenticated(c) THEN c ELSE 0
    /\ DOMAIN playerEntities = Players
    /\ spawned = {playerEntities[c] : c \in DOMAIN playerEntities}
    /\ \A e \in spawned : e < nextNetworkId
    /\ \A c, d \in DOMAIN playerEntities :
          playerEntities[c] = playerEntities[d] => c = d

(* A step that changes neither who plays nor the entities.                 *)
LEMMA MatchingUndisturbed ==
  ASSUME Matching, Players' = Players,
         UNCHANGED << playerEntities, spawned, nextNetworkId >>,
         \A c \in ClientIds : /\ clientInfo'[c].playerId = clientInfo[c].playerId
                              /\ clientInfo'[c].sessionToken = clientInfo[c].sessionToken
  PROVE  Matching'
  BY DEF Matching, Authenticated

LEMMA MatchingConnect ==
  ASSUME NoWrap, IInv, Matching, NEW c \in ClientIds, HandleConnect(c),
         NEW token \in Tokens, AcceptConnect(c, token)
  PROVE  Matching'
  <1>1. PlayerIdOf(c) = c
    BY BoundsAssumption, LimitsAssumption DEF NoWrap, PlayerIdOf, ClientIds
  <1>2. /\ sessions' = sessions /\ c \in sessions
        /\ nextNetworkId' = nextNetworkId + 1
        /\ spawned' = spawned \cup {nextNetworkId}
        /\ playerEntities' = [q \in DOMAIN playerEntities \cup {c} |->
              IF q \in DOMAIN playerEntities THEN playerEntities[q] ELSE nextNetworkId]
        /\ ~Authenticated(c)
    BY <1>1 DEF AcceptConnect, onPlayerConnected, HandleConnect, NoWrap, IInv, Listed
  <1>3. nextNetworkId \in Nat /\ spawned \subseteq Nat
    BY DEF IInv, TypeOK, NetworkIds
  <1>4. /\ clientInfo'[c].playerId = c /\ clientInfo'[c].sessionToken = token
        /\ \A k \in ClientIds \ {c} : clientInfo'[k] = clientInfo[k]
    <2>1. clientInfo \in [ClientIds -> InfoType] /\ clientInfo[c] \in InfoType
      BY TypeSplit DEF IInv
    <2>2. clientInfo' = [clientInfo EXCEPT ![c] =
             [@ EXCEPT !.playerId = c, !.sessionToken = token, !.udpInitialized = FALSE]]
      BY <1>1 DEF AcceptConnect
    <2> QED BY <2>1, <2>2 DEF InfoType
  <1>5. Players' = Players \cup {c} /\ c \notin Players
    <2>1. sessions \subseteq ClientIds
      BY DEF IInv, TypeOK
    <2> QED BY <1>2, <1>4, <2>1, TokensAssumption DEF Players, Authenticated
  <1>6. DOMAIN playerEntities' = Players' /\ playerEntities'[c] = nextNetworkId
    BY <1>2, <1>5 DEF Matching
  <1>7. \A q \in DOMAIN playerEntities : playerEntities'[q] = playerEntities[q] /\ q # c
    BY <1>2, <1>5 DEF Matching
  <1>8. spawned' = {playerEntities'[q] : q \in DOMAIN playerEntities'}
    BY <1>2, <1>6, <1>7 DEF Matching
  <1>9. \A e \in spawned' : e < nextNetworkId'
    BY <1>2, <1>3 DEF Matching
  <1>10. \A q, r \in DOMAIN playerEntities' :
            playerEntities'[q] = playerEntities'[r] => q = r
    <2>1. \A q \in DOMAIN playerEntities : playerEntities[q] # nextNetworkId
      BY <1>3 DEF Matching
    <2>2. DOMAIN playerEntities' = DOMAIN playerEntities \cup {c}
      BY <1>2
    <2> QED BY <1>6, <1>7, <2>1, <2>2 DEF Matching
  <1>11. \A k \in ClientIds :
            clientInfo'[k].playerId = IF Authenticated(k)' THEN k ELSE 0
    BY <1>4, TokensAssumption DEF Matching, Authenticated
  <1> QED BY <1>6, <1>8, <1>9, <1>10, <1>11 DEF Matching

LEMMA MatchingLeave ==
  ASSUME NoWrap, IInv, Matching, NEW c \in ClientIds,
         HandleDisconnect(c) \/ ReadError(c)
  PROVE  Matching'
  <1>1. /\ RemoveFromWorld(c) /\ sessions' = sessions \ {c} /\ clientInfo' = clientInfo
    BY DEF HandleDisconnect, ReadError, removeSession
  <1>2. Players' = Players \ {c}
    BY <1>1 DEF Players, Authenticated
  <1>3. CASE c \notin Players
    <2>1. UNCHANGED worldVars
      <3>1. CASE clientInfo[c].playerId = 0
        BY <1>1, <3>1 DEF RemoveFromWorld
      <3>2. CASE clientInfo[c].playerId # 0
        <4>1. clientInfo[c].playerId = c /\ c \notin DOMAIN playerEntities
          BY <1>3, <3>2 DEF Matching
        <4> QED BY <1>1, <3>2, <4>1 DEF RemoveFromWorld, onPlayerDisconnected
      <3> QED BY <3>1, <3>2
    <2> QED BY <1>1, <1>2, <1>3, <2>1, MatchingUndisturbed DEF worldVars
  <1>4. CASE c \in Players
    <2>1. clientInfo[c].playerId = c /\ c # 0 /\ c \in DOMAIN playerEntities
      BY <1>4 DEF Matching, Players, ClientIds
    <2>2. /\ playerEntities' = Restrict(playerEntities, DOMAIN playerEntities \ {c})
          /\ spawned' = spawned \ {playerEntities[c]}
          /\ nextNetworkId' = nextNetworkId
      BY <1>1, <2>1 DEF RemoveFromWorld, onPlayerDisconnected, WithoutPlayer
    <2>3. /\ DOMAIN playerEntities' = DOMAIN playerEntities \ {c}
          /\ \A q \in DOMAIN playerEntities' : playerEntities'[q] = playerEntities[q]
      BY <2>2 DEF Restrict
    <2>4. spawned' = {playerEntities'[q] : q \in DOMAIN playerEntities'}
      <3>1. \A q \in DOMAIN playerEntities' : playerEntities'[q] # playerEntities[c]
        BY <2>1, <2>3 DEF Matching
      <3>2. spawned' = {playerEntities[q] : q \in DOMAIN playerEntities \ {c}}
        BY <2>1, <2>2, <2>3, <3>1 DEF Matching
      <3> QED BY <2>3, <3>2
    <2> QED BY <1>1, <1>2, <2>2, <2>3, <2>4 DEF Matching, Authenticated
  <1> QED BY <1>3, <1>4

LEMMA MatchingUdp ==
  ASSUME IInv, Matching, NEW c \in ClientIds, NEW token, NEW type,
         UdpPacket(c, token, type)
  PROVE  Matching'
  <1> DEFINE s == Min(Holders(token))
  <1>1. /\ clientInfo' = WithEndpoint(s, c)
        /\ UNCHANGED << tcpVars, nextNetworkId, playerEntities, spawned >>
    BY DEF UdpPacket
  <1> HIDE DEF s
  <1>2. \A k \in ClientIds : /\ clientInfo'[k].playerId = clientInfo[k].playerId
                             /\ clientInfo'[k].sessionToken = clientInfo[k].sessionToken
    <2>1. clientInfo \in [ClientIds -> InfoType]
      BY TypeSplit DEF IInv
    <2>2. \A k \in ClientIds : clientInfo[k] \in InfoType
      BY <2>1
    <2> QED BY <1>1, <2>1, <2>2 DEF WithEndpoint, InfoType
  <1>3. Players' = Players
    <2>1. sessions \subseteq ClientIds
      BY DEF IInv, TypeOK
    <2> QED BY <1>1, <1>2, <2>1 DEF Players, Authenticated, tcpVars
  <1> QED BY <1>1, <1>2, <1>3, MatchingUndisturbed

LEMMA MatchingStep == NoWrap /\ IInv /\ Matching /\ [Next]_vars => Matching'
  <1> SUFFICES ASSUME NoWrap, IInv, Matching, [Next]_vars PROVE Matching'
    OBVIOUS
  <1>1. CASE Accept
    <2>1. Players' = Players
      BY <1>1 DEF Accept, Players, Authenticated, IInv, Listed, ClientIds
    <2> QED BY <1>1, <2>1, MatchingUndisturbed DEF Accept, worldVars
  <1>2. ASSUME NEW c \in ClientIds, HandleConnect(c) PROVE Matching'
    <2>1. CASE RefuseConnect(c)
      <3>1. Players' = Players
        BY <2>1 DEF RefuseConnect, Players, Authenticated
      <3> QED BY <2>1, <3>1, MatchingUndisturbed DEF RefuseConnect, worldVars
    <2> QED BY <1>2, <2>1, MatchingConnect DEF HandleConnect
  <1>3. ASSUME NEW c \in ClientIds, HandleDisconnect(c) \/ ReadError(c) PROVE Matching'
    BY <1>3, MatchingLeave
  <1>4. ASSUME NEW c \in ClientIds, NEW type, NEW token, UdpPacket(c, token, type)
        PROVE  Matching'
    BY <1>4, MatchingUdp
  <1>5. CASE UNCHANGED vars
    <2>1. Players' = Players
      BY <1>5 DEF vars, tcpVars, Players, Authenticated
    <2> QED BY <1>5, <2>1, MatchingUndisturbed DEF vars, worldVars
  <1> QED BY <1>1, <1>2, <1>3, <1>4, <1>5 DEF Next

LEMMA MatchingKept ==
  ASSUME NoWrap
  PROVE  Spec => []Matching
  <1>1. Init => Matching
    <2>1. ASSUME Init PROVE Players = {}
      BY <2>1 DEF Init, Players
    <2> QED BY <2>1 DEF Init, Matching, Authenticated, NoInfo
  <1>2. IInv /\ Matching /\ [Next]_vars => Matching'
    BY MatchingStep
  <1> QED BY <1>1, <1>2, Invariance, PTL DEF Spec

(* While player ids do not wrap and no client authenticates twice, the     *)
(* game has exactly one entity for each authenticated session, whatever    *)
(* the order in which sessions join, leave or fail (GameServer.cpp:249-285,*)
(* 443-488; Server.cpp:55, 97-110, 139-153).                               *)
THEOREM EntityPerPlayer ==
  ASSUME NoWrap
  PROVE  Spec => []EntitiesMatchSessions
  <1>1. IInv /\ Matching => EntitiesMatchSessions
    <2> SUFFICES ASSUME IInv, Matching PROVE EntitiesMatchSessions
      OBVIOUS
    <2>1. Players \subseteq ClientIds
      BY DEF IInv, TypeOK, Players
    <2>2. \A c \in Players : clientInfo[c].playerId = c /\ c \in DOMAIN playerEntities
      BY <2>1 DEF Matching, Players
    <2>3. Players = {clientInfo[c].playerId : c \in Players}
      BY <2>2
    <2> QED BY <2>2, <2>3 DEF EntitiesMatchSessions, EntityOf, Matching, Range
  <1> QED BY <1>1, MatchingKept, Invariance, PTL
-----------------------------------------------------------------------------
(* What each session is sent.                                              *)
MessageType == [type : {"CONNECT_OK", "CONNECT_ERROR", "DISCONNECT_OK", "PLAYER_JOIN",
                        "PLAYER_LEAVE"},
                id : Nat, token : Tokens \cup {NoToken}]

Farewells ==
    /\ sent \in [ClientIds -> Seq(MessageType)]
    /\ \A c \in ClientIds : \A m \in Range(sent[c]) :
          m.type = "DISCONNECT_OK" => reader[c] \in {"closed", "done"}
    /\ FarewellIsLast

LEMMA Delivered ==
  ASSUME NEW s \in Seq(MessageType), NEW m \in MessageType
  PROVE  /\ Append(s, m) \in Seq(MessageType)
         /\ Range(Append(s, m)) = Range(s) \cup {m}
         /\ Len(Append(s, m)) = Len(s) + 1 /\ Len(s) \in Nat
         /\ \A i \in 1 .. Len(s) : Append(s, m)[i] = s[i] /\ s[i] \in Range(s)
  <1>1. /\ Len(s) \in Nat
        /\ DOMAIN s = 1 .. Len(s)
        /\ Append(s, m) \in Seq(MessageType)
        /\ Len(Append(s, m)) = Len(s) + 1
        /\ DOMAIN Append(s, m) = 1 .. Len(s) + 1
        /\ \A i \in 1 .. Len(s) : Append(s, m)[i] = s[i]
        /\ Append(s, m)[Len(s) + 1] = m
    BY AppendProperties, LenProperties
  <1> QED BY <1>1 DEF Range

(* A session is sent something only while it is read from.                 *)
LEMMA Posted ==
  ASSUME Farewells, sent' = [c \in ClientIds |-> sent'[c]],
         \A c \in ClientIds : reader[c] \in {"closed", "done"} =>
                                 reader'[c] \in {"closed", "done"},
         \A c \in ClientIds :
            \/ sent'[c] = sent[c]
            \/ /\ reader[c] = "reading"
               /\ \E m \in MessageType : /\ sent'[c] = Append(sent[c], m)
                                         /\ m.type = "DISCONNECT_OK" => reader'[c] = "closed"
  PROVE  Farewells'
  <1>1. ASSUME NEW c \in ClientIds
        PROVE  /\ sent'[c] \in Seq(MessageType)
               /\ \A m \in Range(sent'[c]) :
                     m.type = "DISCONNECT_OK" => reader'[c] \in {"closed", "done"}
               /\ \A i \in 1 .. Len(sent'[c]) - 1 : sent'[c][i].type # "DISCONNECT_OK"
    <2>1. CASE sent'[c] = sent[c]
      BY <2>1 DEF Farewells, FarewellIsLast
    <2>2. ASSUME reader[c] = "reading", NEW m \in MessageType, sent'[c] = Append(sent[c], m),
                 m.type = "DISCONNECT_OK" => reader'[c] = "closed"
          PROVE  /\ sent'[c] \in Seq(MessageType)
                 /\ \A n \in Range(sent'[c]) :
                       n.type = "DISCONNECT_OK" => reader'[c] \in {"closed", "done"}
                 /\ \A i \in 1 .. Len(sent'[c]) - 1 : sent'[c][i].type # "DISCONNECT_OK"
      <3>1. /\ sent[c] \in Seq(MessageType)
            /\ \A n \in Range(sent[c]) : n.type # "DISCONNECT_OK"
        BY <2>2 DEF Farewells
      <3>2. /\ sent'[c] \in Seq(MessageType)
            /\ Range(sent'[c]) = Range(sent[c]) \cup {m}
            /\ Len(sent'[c]) = Len(sent[c]) + 1 /\ Len(sent[c]) \in Nat
            /\ \A i \in 1 .. Len(sent[c]) : sent'[c][i] = sent[c][i] /\ sent[c][i] \in Range(sent[c])
        BY <2>2, <3>1, Delivered
      <3> QED BY <2>2, <3>1, <3>2
    <2> QED BY <2>1, <2>2
  <1>2. sent' \in [ClientIds -> Seq(MessageType)]
    BY <1>1
  <1> QED BY <1>1, <1>2 DEF Farewells, FarewellIsLast

LEMMA NoticeTyped ==
  ASSUME NEW type \in {"CONNECT_OK", "CONNECT_ERROR", "DISCONNECT_OK", "PLAYER_JOIN",
                       "PLAYER_LEAVE"}, NEW id \in Nat, NEW token \in Tokens \cup {NoToken}
  PROVE  /\ Message(type, id, token) \in MessageType
         /\ Message(type, id, token).type = type
         /\ Message(type, id, token).token = token
         /\ Notice(type, id) \in MessageType /\ Notice(type, id).type = type
  BY DEF Message, Notice, MessageType

LEMMA FarewellsConnect ==
  ASSUME IInv, Farewells, NEW c \in ClientIds, HandleConnect(c)
  PROVE  Farewells'
  <1>0. /\ reader[c] = "reading" /\ sent \in [ClientIds -> Seq(MessageType)]
        /\ sessions \subseteq ClientIds
    BY DEF HandleConnect, Farewells, IInv, TypeOK
  <1>1. CASE RefuseConnect(c)
    <2>1. PICK m : m = Notice("CONNECT_ERROR", 0)
      OBVIOUS
    <2>2. m \in MessageType /\ m.type = "CONNECT_ERROR"
      <3>1. NoToken \in Tokens \cup {NoToken}
        OBVIOUS
      <3> QED BY <2>1, <3>1, NoticeTyped
    <2>3. reader' = reader /\ sent' = [sent EXCEPT ![c] = Append(@, m)]
      BY <1>1, <2>1 DEF RefuseConnect
    <2>4. sent' = [k \in ClientIds |-> sent'[k]]
      BY <1>0, <2>3
    <2>5. sent'[c] = Append(sent[c], m) /\ \A k \in ClientIds \ {c} : sent'[k] = sent[k]
      BY <1>0, <2>3
    <2> QED BY <1>0, <2>2, <2>3, <2>4, <2>5, Posted
  <1>2. ASSUME NEW token \in Tokens, AcceptConnect(c, token) PROVE Farewells'
    <2>1. PICK p : p = PlayerIdOf(c)
      OBVIOUS
    <2>2. PICK m, n : m = Message("CONNECT_OK", p, token) /\ n = Notice("PLAYER_JOIN", p)
      OBVIOUS
    <2>3. p \in Nat
      BY <2>1, LimitsAssumption DEF PlayerIdOf, ClientIds
    <2>4. /\ m \in MessageType /\ m.type = "CONNECT_OK"
          /\ n \in MessageType /\ n.type = "PLAYER_JOIN"
      BY <2>2, <2>3, NoticeTyped
    <2>5. /\ reader' = reader
          /\ sent' = [k \in ClientIds |->
                CASE k = c                -> Append(sent[k], m)
                  [] k \in sessions \ {c} -> Append(sent[k], n)
                  [] OTHER                -> sent[k]]
      BY <1>2, <2>1, <2>2 DEF AcceptConnect
    <2>6. \A k \in sessions : reader[k] = "reading"
      BY <1>0 DEF IInv, Listed
    <2>7. /\ sent'[c] = Append(sent[c], m)
          /\ \A k \in sessions \ {c} : sent'[k] = Append(sent[k], n)
          /\ \A k \in ClientIds : k # c /\ k \notin sessions => sent'[k] = sent[k]
      BY <1>0, <2>5
    <2>8. sent' = [k \in ClientIds |-> sent'[k]]
      BY <2>5
    <2>9. \A k \in ClientIds :
            \/ sent'[k] = sent[k]
            \/ /\ reader[k] = "reading"
               /\ \E x \in MessageType : /\ sent'[k] = Append(sent[k], x)
                                         /\ x.type = "DISCONNECT_OK" => reader'[k] = "closed"
      <3> SUFFICES ASSUME NEW k \in ClientIds
                   PROVE  \/ sent'[k] = sent[k]
                          \/ /\ reader[k] = "reading"
                             /\ \E x \in MessageType :
                                   /\ sent'[k] = Append(sent[k], x)
                                   /\ x.type = "DISCONNECT_OK" => reader'[k] = "closed"
        OBVIOUS
      <3>1. CASE k = c
        BY <1>0, <2>4, <2>7, <3>1
      <3>2. CASE k # c /\ k \in sessions
        BY <2>4, <2>6, <2>7, <3>2
      <3>3. CASE k # c /\ k \notin sessions
        BY <2>7, <3>3
      <3> QED BY <3>1, <3>2, <3>3
    <2> QED BY <2>5, <2>8, <2>9, Posted
  <1> QED BY <1>1, <1>2 DEF HandleConnect

(* What is posted when a session leaves: notices to the others and, if it  *)
(* said DISCONNECT, the reply to it.                                       *)
LEMMA LeavePosts ==
  ASSUME IInv, Farewells, NEW c \in ClientIds, HandleDisconnect(c) \/ ReadError(c)
  PROVE  /\ sent' = [k \in ClientIds |-> sent'[k]]
         /\ \A k \in ClientIds : reader[k] \in {"closed", "done"} =>
                                    reader'[k] \in {"closed", "done"}
         /\ \A k \in ClientIds :
              \/ sent'[k] = sent[k]
              \/ /\ reader[k] = "reading"
                 /\ \E m \in MessageType : /\ sent'[k] = Append(sent[k], m)
                                           /\ m.type = "DISCONNECT_OK" => reader'[k] = "closed"
                                           /\ m.type # "CONNECT_OK"
  <1>0. /\ sent \in [ClientIds -> Seq(MessageType)]
        /\ sessions \subseteq ClientIds
        /\ reader \in [ClientIds -> {"none", "reading", "closed", "done"}]
        /\ \A k \in sessions : reader[k] = "reading"
    BY DEF Farewells, IInv, TypeOK, Listed
  <1> PICK p : p = clientInfo[c].playerId
    OBVIOUS
  <1> PICK m, n : m = Notice("PLAYER_LEAVE", p) /\ n = Notice("DISCONNECT_OK", 0)
    OBVIOUS
  <1>1. p \in Nat
    <2>1. clientInfo[c] \in InfoType
      BY TypeSplit DEF IInv
    <2> QED BY <2>1, LimitsAssumption DEF InfoType
  <1>2. /\ m \in MessageType /\ m.type = "PLAYER_LEAVE"
        /\ n \in MessageType /\ n.type = "DISCONNECT_OK"
    <2>1. NoToken \in Tokens \cup {NoToken}
      OBVIOUS
    <2> QED BY <1>1, <2>1, NoticeTyped
  <1>3. LeaveNotices(c) = [k \in ClientIds |->
           IF p # 0 /\ k \in sessions \ {c} THEN Append(sent[k], m) ELSE sent[k]]
    BY DEF LeaveNotices
  <1>4. \A k \in ClientIds :
          \/ LeaveNotices(c)[k] = sent[k]
          \/ reader[k] = "reading" /\ LeaveNotices(c)[k] = Append(sent[k], m)
    BY <1>0, <1>3
  <1>5. LeaveNotices(c)[c] = sent[c] /\ LeaveNotices(c) = [k \in ClientIds |-> LeaveNotices(c)[k]]
    BY <1>3
  <1>6. CASE ReadError(c)
    <2>1. sent' = LeaveNotices(c) /\ reader' = [reader EXCEPT ![c] = "done"]
      BY <1>6 DEF ReadError
    <2> QED BY <1>0, <1>2, <1>4, <1>5, <2>1
  <1>7. CASE HandleDisconnect(c)
    <2>1. /\ reader[c] = "reading" /\ reader' = [reader EXCEPT ![c] = "closed"]
          /\ sent' = [LeaveNotices(c) EXCEPT ![c] = Append(@, n)]
      BY <1>7 DEF HandleDisconnect
    <2>2. /\ sent'[c] = Append(sent[c], n) /\ reader'[c] = "closed"
          /\ \A k \in ClientIds \ {c} : sent'[k] = LeaveNotices(c)[k] /\ reader'[k] = reader[k]
          /\ sent' = [k \in ClientIds |-> sent'[k]]
      BY <1>0, <1>5, <2>1
    <2> QED BY <1>2, <1>4, <2>1, <2>2
  <1> QED BY <1>6, <1>7

LEMMA FarewellsKept == Spec => []Farewells
  <1>1. Init => Farewells
    <2> SUFFICES ASSUME Init PROVE Farewells
      OBVIOUS
    <2>1. sent = [c \in ClientIds |-> << >>] /\ \A c \in ClientIds : Range(sent[c]) = {}
      BY DEF Init, Range
    <2> QED BY <2>1 DEF Farewells, FarewellIsLast
  <1>2. IInv /\ Farewells /\ [Next]_vars => Farewells'
    <2> SUFFICES ASSUME IInv, Farewells, [Next]_vars PROVE Farewells'
      OBVIOUS
    <2>1. CASE Accept
      <3>1. /\ sent' = sent /\ nextClientId \in ClientIds
            /\ reader[nextClientId] = "none"
            /\ reader' = [reader EXCEPT ![nextClientId] = "reading"]
        BY <2>1, BoundsAssumption DEF Accept, IInv, Listed, ClientIds
      <3>2. \A c \in ClientIds : reader[c] \in {"closed", "done"} => reader'[c] = reader[c]
        BY <3>1 DEF IInv, TypeOK
      <3>3. sent' = [c \in ClientIds |-> sent'[c]]
        BY <3>1 DEF Farewells
      <3> QED BY <3>1, <3>2, <3>3, Posted
    <2>2. ASSUME NEW c \in ClientIds, HandleConnect(c) PROVE Farewells'
      BY <2>2, FarewellsConnect
    <2>3. ASSUME NEW c \in ClientIds, HandleDisconnect(c) \/ ReadError(c) PROVE Farewells'
      BY <2>3, LeavePosts, Posted
    <2>4. CASE UNCHANGED << sent, reader >>
      BY <2>4 DEF Farewells, FarewellIsLast
    <2> QED BY <2>1, <2>2, <2>3, <2>4 DEF Next, UdpPacket, vars, tcpVars
  <1> QED BY <1>1, <1>2, Invariance, PTL DEF Spec

(* Nothing follows the reply to DISCONNECT: removeSession comes before the *)
(* next message could be handled, and a broadcast only reaches the listed  *)
(* sessions (Server.cpp:92, 110, 346-352).                                 *)
THEOREM FarewellComesLast == Spec => []FarewellIsLast
  <1>1. Farewells => FarewellIsLast
    BY DEF Farewells
  <1> QED BY <1>1, FarewellsKept, PTL
-----------------------------------------------------------------------------
(* Which session a token, an endpoint and a ship belong to.                *)
OwnTokens ==
    /\ \A c \in ClientIds : \A m \in Range(sent[c]) :
          m.type = "CONNECT_OK" => m.token = clientInfo[c].sessionToken /\ m.token \in Tokens
    /\ \A c, d \in ClientIds :
          Authenticated(c) /\ clientInfo[c].sessionToken = clientInfo[d].sessionToken => c = d
    /\ \A c \in ClientIds : clientInfo[c].udpInitialized =>
          Authenticated(c) /\ clientInfo[c].udpEndpoint = c

OwnShips == \A c \in Players : steeredBy[playerEntities[c]] \in {NoClient, c}

Told ==
    /\ \A c \in ClientIds : ~clientInfo[c].udpInitialized => announced[c] = {}
    /\ \A c, d \in UdpReady : playerEntities[d] \in announced[c]
    /\ \A c \in UdpReady : announced[c] \subseteq spawned

Ownership == OwnTokens /\ OwnShips /\ Told

Owned == IInv /\ Matching /\ Farewells /\ Ownership

(* The steps that change neither sessions' infos nor the world.            *)
LEMMA OwnershipUndisturbed ==
  ASSUME Owned, UNCHANGED << clientInfo, worldVars >>, Players' = Players,
         \A c \in ClientIds : \A m \in Range(sent'[c]) :
            m.type = "CONNECT_OK" => m \in Range(sent[c])
  PROVE  Ownership'
  <1>1. UdpReady' = UdpReady
    BY DEF UdpReady
  <1>2. OwnTokens'
    BY DEF Owned, Ownership, OwnTokens, Authenticated
  <1>3. OwnShips'
    BY DEF Owned, Ownership, OwnShips, worldVars
  <1>4. Told'
    BY <1>1 DEF Owned, Ownership, Told, worldVars
  <1> QED BY <1>2, <1>3, <1>4 DEF Ownership

(* What a CONNECT that is accepted does.                                   *)
LEMMA ConnectFacts ==
  ASSUME NoWrap, Owned, NEW c \in ClientIds, HandleConnect(c),
         NEW token \in Tokens, AcceptConnect(c, token)
  PROVE  /\ ~Authenticated(c) /\ c \in sessions /\ sessions' = sessions
         /\ clientInfo'[c].sessionToken = token /\ ~clientInfo'[c].udpInitialized
         /\ ~clientInfo[c].udpInitialized
         /\ \A k \in ClientIds \ {c} : clientInfo'[k] = clientInfo[k]
         /\ nextNetworkId' = nextNetworkId + 1
         /\ spawned' = spawned \cup {nextNetworkId}
         /\ playerEntities'[c] = nextNetworkId
         /\ c \notin DOMAIN playerEntities
         /\ \A q \in DOMAIN playerEntities : playerEntities'[q] = playerEntities[q]
         /\ steeredBy' = Append(steeredBy, NoClient)
         /\ announced' = announced
         /\ Players' = Players \cup {c} /\ UdpReady' = UdpReady
  <1>1. PlayerIdOf(c) = c
    BY BoundsAssumption, LimitsAssumption DEF NoWrap, PlayerIdOf, ClientIds
  <1>2. /\ sessions' = sessions /\ c \in sessions /\ sessions \subseteq ClientIds
        /\ nextNetworkId' = nextNetworkId + 1
        /\ spawned' = spawned \cup {nextNetworkId}
        /\ playerEntities' = [q \in DOMAIN playerEntities \cup {c} |->
              IF q \in DOMAIN playerEntities THEN playerEntities[q] ELSE nextNetworkId]
        /\ steeredBy' = Append(steeredBy, NoClient)
        /\ announced' = announced
        /\ ~Authenticated(c)
    BY <1>1 DEF AcceptConnect, onPlayerConnected, HandleConnect, NoWrap, Owned, IInv,
                Listed, TypeOK
  <1>3. /\ clientInfo'[c].sessionToken = token /\ clientInfo'[c].udpInitialized = FALSE
        /\ \A k \in ClientIds \ {c} : clientInfo'[k] = clientInfo[k]
    <2>1. clientInfo \in [ClientIds -> InfoType] /\ clientInfo[c] \in InfoType
      BY TypeSplit DEF Owned, IInv
    <2>2. clientInfo' = [clientInfo EXCEPT ![c] =
             [@ EXCEPT !.playerId = c, !.sessionToken = token, !.udpInitialized = FALSE]]
      BY <1>1 DEF AcceptConnect
    <2> QED BY <2>1, <2>2 DEF InfoType
  <1>4. ~clientInfo[c].udpInitialized
    BY <1>2 DEF Owned, Ownership, OwnTokens
  <1>5. Players' = Players \cup {c} /\ c \notin Players
    BY <1>2, <1>3, TokensAssumption DEF Players, Authenticated
  <1>6. UdpReady' = UdpReady
    <2>1. Players \subseteq ClientIds
      BY <1>2 DEF Players
    <2> QED BY <1>3, <1>4, <1>5, <2>1 DEF UdpReady
  <1>7. DOMAIN playerEntities = Players
    BY DEF Owned, Matching
  <1> QED BY <1>2, <1>3, <1>4, <1>5, <1>6, <1>7

LEMMA OwnershipConnect ==
  ASSUME NoWrap, FreshTokens, Owned, NEW c \in ClientIds, HandleConnect(c),
         NEW token \in Tokens, AcceptConnect(c, token)
  PROVE  Ownership'
  <1>1. /\ ~Authenticated(c) /\ c \in sessions
        /\ clientInfo'[c].sessionToken = token /\ ~clientInfo'[c].udpInitialized
        /\ ~clientInfo[c].udpInitialized
        /\ \A k \in ClientIds \ {c} : clientInfo'[k] = clientInfo[k]
        /\ nextNetworkId' = nextNetworkId + 1
        /\ spawned' = spawned \cup {nextNetworkId}
        /\ playerEntities'[c] = nextNetworkId
        /\ \A q \in DOMAIN playerEntities : playerEntities'[q] = playerEntities[q]
        /\ steeredBy' = Append(steeredBy, NoClient)
        /\ announced' = announced
        /\ Players' = Players \cup {c} /\ UdpReady' = UdpReady
    BY ConnectFacts
  <1>2. DOMAIN playerEntities = Players /\ \A q \in Players : playerEntities[q] \in spawned
    BY DEF Owned, Matching
  <1>3. OwnTokens'
    <2>1. \A k \in ClientIds : \A m \in Range(sent'[k]) :
             m.type = "CONNECT_OK" =>
                m.token = clientInfo'[k].sessionToken /\ m.token \in Tokens
      <3> SUFFICES ASSUME NEW k \in ClientIds, NEW m \in Range(sent'[k]),
                          m.type = "CONNECT_OK"
                   PROVE  m.token = clientInfo'[k].sessionToken /\ m.token \in Tokens
        OBVIOUS
      <3> PICK p : p = PlayerIdOf(c)
        OBVIOUS
      <3> PICK a, b : a = Message("CONNECT_OK", p, token) /\ b = Notice("PLAYER_JOIN", p)
        OBVIOUS
      <3>1. /\ a \in MessageType /\ a.token = token
            /\ b \in MessageType /\ b.type = "PLAYER_JOIN"
        <4>1. p \in Nat
          BY LimitsAssumption DEF PlayerIdOf, ClientIds
        <4> QED BY <4>1, NoticeTyped
      <3>2. sent' = [j \in ClientIds |->
                CASE j = c                -> Append(sent[j], a)
                  [] j \in sessions \ {c} -> Append(sent[j], b)
                  [] OTHER                -> sent[j]]
        BY DEF AcceptConnect
      <3>3. sent[k] \in Seq(MessageType)
        BY DEF Owned, Farewells
      <3>4. CASE k = c
        <4>1. Range(sent'[k]) = Range(sent[k]) \cup {a}
          BY <3>1, <3>2, <3>3, <3>4, Delivered
        <4>2. m \notin Range(sent[k])
          BY <1>1, <3>4, TokensAssumption DEF Owned, Ownership, OwnTokens, Authenticated
        <4> QED BY <1>1, <3>1, <3>4, <4>1, <4>2
      <3>5. CASE k # c
        <4>1. sent'[k] = sent[k] \/ sent'[k] = Append(sent[k], b)
          BY <3>2, <3>5
        <4>2. Range(sent'[k]) \subseteq Range(sent[k]) \cup {b}
          BY <3>1, <3>3, <4>1, Delivered
        <4> QED BY <1>1, <3>1, <3>5, <4>2 DEF Owned, Ownership, OwnTokens
      <3> QED BY <3>4, <3>5
    <2>2. \A k \in ClientIds : clientInfo[k].sessionToken # token
      BY DEF AcceptConnect
    <2> QED BY <1>1, <2>1, <2>2 DEF Owned, Ownership, OwnTokens, Authenticated
  <1>4. OwnShips'
    <2>1. /\ steeredBy \in Seq(ClientIds \cup {NoClient})
          /\ Len(steeredBy) = nextNetworkId - 1
          /\ nextNetworkId \in Nat \ {0}
          /\ spawned \subseteq Nat \ {0}
      BY TypeSplit DEF Owned, IInv, WorldType, NetworkIds
    <2>2. /\ steeredBy'[nextNetworkId] = NoClient
          /\ \A e \in 1 .. nextNetworkId - 1 : steeredBy'[e] = steeredBy[e]
      BY <1>1, <2>1, AppendProperties
    <2>3. \A e \in spawned : e \in 1 .. nextNetworkId - 1
      <3>1. \A e \in spawned : e < nextNetworkId /\ e \in Nat \ {0}
        BY <2>1 DEF Owned, Matching
      <3> QED BY <2>1, <3>1
    <2>4. \A k \in Players : /\ playerEntities'[k] = playerEntities[k]
                             /\ steeredBy'[playerEntities[k]] = steeredBy[playerEntities[k]]
      BY <1>1, <1>2, <2>2, <2>3
    <2>5. \A k \in Players : steeredBy'[playerEntities'[k]] \in {NoClient, k}
      BY <2>4 DEF Owned, Ownership, OwnShips
    <2> QED BY <1>1, <2>2, <2>5 DEF OwnShips
  <1>5. Told'
    <2>1. UdpReady \subseteq Players
      BY DEF UdpReady
    <2>2. \A k \in ClientIds : clientInfo'[k].udpInitialized <=> clientInfo[k].udpInitialized
      BY <1>1
    <2>3. \A k \in UdpReady : playerEntities'[k] = playerEntities[k]
      BY <1>1, <1>2, <2>1
    <2> QED BY <1>1, <2>2, <2>3 DEF Owned, Ownership, Told
  <1> QED BY <1>3, <1>4, <1>5 DEF Ownership

(* The endpoints a broadcast reaches are the sessions that have one.       *)
LEMMA Recipients ==
  ASSUME NEW info \in [ClientIds -> InfoType], sessions \subseteq ClientIds,
         \A k \in ClientIds : info[k].udpInitialized => info[k].udpEndpoint = k
  PROVE  UdpRecipients(info) = {k \in sessions : info[k].udpInitialized}
  <1>1. \A k \in {k \in sessions : info[k].udpInitialized} : info[k].udpEndpoint = k
    OBVIOUS
  <1> QED BY <1>1 DEF UdpRecipients

LEMMA OwnershipLeave ==
  ASSUME NoWrap, Owned, NEW c \in ClientIds, HandleDisconnect(c) \/ ReadError(c)
  PROVE  Ownership'
  <1>1. RemoveFromWorld(c) /\ sessions' = sessions \ {c} /\ clientInfo' = clientInfo
    BY DEF HandleDisconnect, ReadError, removeSession
  <1>2. /\ Players' = Players \ {c} /\ UdpReady' = UdpReady \ {c}
        /\ DOMAIN playerEntities = Players
    BY <1>1 DEF Players, UdpReady, Authenticated, Owned, Matching
  <1>3. OwnTokens'
    <2>1. \A k \in ClientIds : \A m \in Range(sent'[k]) :
             m.type = "CONNECT_OK" => m \in Range(sent[k])
      <3> SUFFICES ASSUME NEW k \in ClientIds, NEW m \in Range(sent'[k]),
                          m.type = "CONNECT_OK"
                   PROVE  m \in Range(sent[k])
        OBVIOUS
      <3>1. \/ sent'[k] = sent[k]
            \/ \E x \in MessageType : sent'[k] = Append(sent[k], x) /\ x.type # "CONNECT_OK"
        BY LeavePosts DEF Owned
      <3>2. sent[k] \in Seq(MessageType)
        BY DEF Owned, Farewells
      <3>3. ASSUME NEW x \in MessageType, sent'[k] = Append(sent[k], x), x.type # "CONNECT_OK"
            PROVE  m \in Range(sent[k])
        <4>1. Range(sent'[k]) = Range(sent[k]) \cup {x}
          BY <3>2, <3>3, Delivered
        <4> QED BY <3>3, <4>1
      <3> QED BY <3>1, <3>3
    <2> QED BY <1>1, <2>1 DEF Owned, Ownership, OwnTokens, Authenticated
  <1>4. CASE UNCHANGED worldVars
    <2>1. OwnShips'
      BY <1>2, <1>4 DEF Owned, Ownership, OwnShips, worldVars
    <2>2. Told'
      BY <1>1, <1>2, <1>4 DEF Owned, Ownership, Told, worldVars
    <2> QED BY <1>3, <2>1, <2>2 DEF Ownership
  <1>5. CASE c \in Players
    <2>1. clientInfo[c].playerId = c /\ c # 0 /\ c \in DOMAIN playerEntities
      BY <1>2, <1>5 DEF Owned, Matching, Players, ClientIds
    <2> PICK gone : gone = playerEntities[c]
      OBVIOUS
    <2>2. /\ playerEntities' = Restrict(playerEntities, DOMAIN playerEntities \ {c})
          /\ spawned' = spawned \ {gone}
          /\ announced' = [k \in ClientIds |->
                 IF k \in UdpRecipients(clientInfo) THEN announced[k] \ {gone} ELSE announced[k]]
          /\ steeredBy' = steeredBy
      BY <1>1, <2>1 DEF RemoveFromWorld, onPlayerDisconnected, WithoutPlayer
    <2>3. \A q \in Players' : playerEntities'[q] = playerEntities[q] /\ playerEntities[q] # gone
      <3>1. \A q \in DOMAIN playerEntities \ {c} : playerEntities'[q] = playerEntities[q]
        BY <2>2 DEF Restrict
      <3> QED BY <1>2, <1>5, <3>1 DEF Owned, Matching
    <2>4. UdpReady \subseteq UdpRecipients(clientInfo)
      <3>1. \A k \in ClientIds : clientInfo[k].udpInitialized => clientInfo[k].udpEndpoint = k
        BY DEF Owned, Ownership, OwnTokens
      <3>2. clientInfo \in [ClientIds -> InfoType] /\ sessions \subseteq ClientIds
        BY TypeSplit DEF Owned, IInv
      <3> QED BY <3>1, <3>2, Recipients DEF UdpReady, Players
    <2>5. OwnShips'
      BY <1>2, <2>2, <2>3 DEF Owned, Ownership, OwnShips
    <2>6. Told'
      <3>1. \A k \in ClientIds : announced'[k] \subseteq announced[k]
        BY <2>2
      <3>2. UdpReady \subseteq ClientIds /\ UdpReady' \subseteq Players'
        BY <1>2 DEF UdpReady, Players, Owned, IInv, TypeOK
      <3>3. \A k \in UdpReady : announced'[k] = announced[k] \ {gone}
        BY <2>2, <2>4, <3>2
      <3>4. \A k \in ClientIds : ~clientInfo'[k].udpInitialized => announced'[k] = {}
        BY <1>1, <3>1 DEF Owned, Ownership, Told
      <3>5. \A a, b \in UdpReady' : playerEntities'[b] \in announced'[a]
        BY <1>2, <2>3, <3>2, <3>3 DEF Owned, Ownership, Told
      <3>6. \A a \in UdpReady' : announced'[a] \subseteq spawned'
        BY <1>2, <2>2, <3>3 DEF Owned, Ownership, Told
      <3> QED BY <3>4, <3>5, <3>6 DEF Told
    <2> QED BY <1>3, <2>5, <2>6 DEF Ownership
  <1>6. CASE c \notin Players
    <2>1. UNCHANGED worldVars
      <3>1. CASE clientInfo[c].playerId = 0
        BY <1>1, <3>1 DEF RemoveFromWorld
      <3>2. CASE clientInfo[c].playerId # 0
        <4>1. clientInfo[c].playerId = c /\ c \notin DOMAIN playerEntities
          BY <1>2, <1>6, <3>2 DEF Owned, Matching
        <4> QED BY <1>1, <3>2, <4>1 DEF RemoveFromWorld, onPlayerDisconnected
      <3> QED BY <3>1, <3>2
    <2> QED BY <1>4, <2>1
  <1> QED BY <1>5, <1>6

(* A packet is handled for the session of the client that sent it.         *)
LEMMA PacketFindsSender ==
  ASSUME Owned, NEW c \in ClientIds, NEW token \in TokensOf(c), Holders(token) # {}
  PROVE  c \in Players /\ Min(Holders(token)) = c
  <1>1. token = clientInfo[c].sessionToken /\ token \in Tokens
    BY DEF TokensOf, Owned, Ownership, OwnTokens
  <1>2. Authenticated(c) /\ sessions \subseteq ClientIds
    BY <1>1, TokensAssumption DEF Authenticated, Owned, IInv, TypeOK
  <1>3. Holders(token) = {c} /\ c \in sessions
    BY <1>1, <1>2 DEF Holders, Owned, Ownership, OwnTokens
  <1>4. Min({c}) = c
    BY DEF Min, ClientIds
  <1> QED BY <1>2, <1>3, <1>4 DEF Players

LEMMA OwnershipUdp ==
  ASSUME NoWrap, Owned, NEW c \in ClientIds, NEW token \in TokensOf(c), NEW type,
         UdpPacket(c, token, type)
  PROVE  Ownership'
  <1>1. Holders(token) # {}
    BY DEF UdpPacket
  <1>2. c \in Players /\ Min(Holders(token)) = c
    BY <1>1, PacketFindsSender
  <1>3. /\ clientInfo[c].playerId = c /\ DOMAIN playerEntities = Players
        /\ spawned = {playerEntities[k] : k \in Players}
        /\ sessions \subseteq ClientIds /\ c \in sessions
    BY <1>2 DEF Owned, Matching, Players, IInv, TypeOK
  <1> PICK info : info = WithEndpoint(c, c)
    OBVIOUS
  <1>4. /\ clientInfo' = info
        /\ IF clientInfo[c].udpInitialized THEN UNCHANGED announced
           ELSE onPlayerUdpReady(c, info)
        /\ IF type = "PLAYER_INPUT" THEN Steer(c, c) ELSE UNCHANGED steeredBy
        /\ UNCHANGED << tcpVars, nextNetworkId, playerEntities, spawned >>
    BY <1>2, <1>3 DEF UdpPacket
  <1>5. /\ info \in [ClientIds -> InfoType]
        /\ info[c].udpInitialized /\ info[c].udpEndpoint = c
        /\ info[c].sessionToken = clientInfo[c].sessionToken
        /\ \A k \in ClientIds \ {c} : info[k] = clientInfo[k]
    <2>1. clientInfo \in [ClientIds -> InfoType] /\ clientInfo[c] \in InfoType
      BY TypeSplit DEF Owned, IInv
    <2>2. CASE clientInfo[c].udpInitialized
      BY <2>1, <2>2 DEF WithEndpoint, Owned, Ownership, OwnTokens
    <2>3. CASE ~clientInfo[c].udpInitialized
      <3>1. info = [clientInfo EXCEPT ![c] =
                      [@ EXCEPT !.udpInitialized = TRUE, !.udpEndpoint = c]]
        BY <2>3 DEF WithEndpoint
      <3> PICK t : t = TRUE
        OBVIOUS
      <3> PICK r : r = [clientInfo[c] EXCEPT !.udpInitialized = t, !.udpEndpoint = c]
        OBVIOUS
      <3>2. /\ r \in InfoType /\ r.udpInitialized = t /\ r.udpEndpoint = c
            /\ r.sessionToken = clientInfo[c].sessionToken
        BY <2>1 DEF InfoType
      <3>3. info = [clientInfo EXCEPT ![c] = r]
        BY <3>1
      <3> QED BY <2>1, <3>2, <3>3
    <2> QED BY <2>2, <2>3
  <1>6. /\ \A k \in ClientIds : clientInfo'[k].sessionToken = clientInfo[k].sessionToken
        /\ Players' = Players /\ UdpReady' = UdpReady \cup {c}
    <2>1. \A k \in ClientIds : clientInfo'[k].sessionToken = clientInfo[k].sessionToken
      BY <1>4, <1>5
    <2>2. Players' = Players
      BY <1>3, <1>4, <2>1 DEF Players, Authenticated, tcpVars
    <2> QED BY <1>2, <1>3, <1>4, <1>5, <2>1, <2>2 DEF UdpReady, Players
  <1>7. OwnTokens'
    <2>1. sent' = sent
      BY <1>4 DEF tcpVars
    <2>2. \A k \in ClientIds : info[k].udpInitialized =>
             info[k].sessionToken # NoToken /\ info[k].udpEndpoint = k
      BY <1>2, <1>5 DEF Owned, Ownership, OwnTokens, Players, Authenticated
    <2>3. OwnTokens
      BY DEF Owned, Ownership
    <2> QED BY <1>4, <1>6, <2>1, <2>2, <2>3 DEF OwnTokens, Authenticated
  <1>8. OwnShips'
    <2>1. CASE steeredBy' = steeredBy
      BY <1>4, <1>6, <2>1 DEF Owned, Ownership, OwnShips
    <2>2. CASE steeredBy' = [steeredBy EXCEPT ![playerEntities[c]] = c]
      <3>1. \A k \in Players \ {c} : playerEntities[k] # playerEntities[c]
        BY <1>2, <1>3 DEF Owned, Matching
      <3> PICK n : n = playerEntities[c]
        OBVIOUS
      <3>2. n \in DOMAIN steeredBy
        <4>1. n \in spawned /\ spawned \subseteq Nat \ {0} /\ n < nextNetworkId
          BY <1>2, <1>3, TypeSplit DEF Owned, IInv, Matching, WorldType, NetworkIds
        <4>2. /\ steeredBy \in Seq(ClientIds \cup {NoClient})
              /\ Len(steeredBy) = nextNetworkId - 1 /\ nextNetworkId \in Nat
          BY TypeSplit DEF Owned, IInv, WorldType, NetworkIds
        <4>3. DOMAIN steeredBy = 1 .. nextNetworkId - 1
          BY <4>2, LenProperties
        <4> QED BY <4>1, <4>2, <4>3
      <3>3. /\ steeredBy'[n] = c
            /\ \A e : e # n => steeredBy'[e] = steeredBy[e]
        BY <2>2, <3>2
      <3> QED BY <1>4, <1>6, <3>1, <3>3 DEF Owned, Ownership, OwnShips
    <2> QED BY <1>2, <1>3, <1>4, <2>1, <2>2 DEF Steer
  <1>9. Told'
    <2>1. CASE clientInfo[c].udpInitialized
      <3>1. announced' = announced /\ info = clientInfo /\ UdpReady' = UdpReady
        BY <1>2, <1>4, <1>6, <2>1 DEF WithEndpoint, UdpReady
      <3> QED BY <1>4, <3>1 DEF Owned, Ownership, Told
    <2>2. CASE ~clientInfo[c].udpInitialized
      <3>1. announced' = SpawnNotices(c, info)
        BY <1>3, <1>4, <2>2 DEF onPlayerUdpReady
      <3>2. UdpRecipients(info) = UdpReady \cup {c}
        <4>1. \A k \in ClientIds : info[k].udpInitialized => info[k].udpEndpoint = k
          BY <1>5 DEF Owned, Ownership, OwnTokens
        <4>2. UdpRecipients(info) = {k \in sessions : info[k].udpInitialized}
          BY <1>3, <1>5, <4>1, Recipients
        <4>3. {k \in sessions : info[k].udpInitialized} = UdpReady \cup {c}
          BY <1>3, <1>5 DEF UdpReady, Players, Owned, Ownership, OwnTokens
        <4> QED BY <4>2, <4>3
      <3>3. Range(playerEntities) = spawned
        BY <1>3 DEF Range
      <3>4. \A k \in ClientIds :
               announced'[k] = announced[k]
                               \cup (IF k = c THEN spawned ELSE {})
                               \cup (IF k \in UdpReady \cup {c} THEN {playerEntities[c]} ELSE {})
        BY <1>2, <1>3, <1>5, <3>1, <3>2, <3>3 DEF SpawnNotices
      <3>5. UdpReady \subseteq Players /\ UdpReady \subseteq ClientIds /\ c \notin UdpReady
        BY <1>3, <2>2 DEF UdpReady, Players
      <3>6. Told
        BY DEF Owned, Ownership
      <3>7. \A k \in Players : playerEntities[k] \in spawned
        BY <1>3
      <3>8. \A k \in ClientIds : ~clientInfo'[k].udpInitialized => announced'[k] = {}
        <4>1. \A k \in ClientIds : ~clientInfo'[k].udpInitialized =>
                 k # c /\ k \notin UdpReady /\ ~clientInfo[k].udpInitialized
          BY <1>4, <1>5 DEF UdpReady
        <4> QED BY <3>4, <3>6, <4>1 DEF Told
      <3>9. announced[c] = {} /\ announced'[c] = spawned
        <4>1. announced[c] = {}
          BY <2>2, <3>6 DEF Told
        <4>2. announced'[c] = announced[c] \cup spawned \cup {playerEntities[c]}
          BY <3>4
        <4>3. playerEntities[c] \in spawned
          BY <1>2, <3>7
        <4> QED BY <4>1, <4>2, <4>3
      <3>10. \A k \in UdpReady : announced'[k] = announced[k] \cup {playerEntities[c]}
        BY <3>4, <3>5
      <3>11. \A a, b \in UdpReady' : playerEntities'[b] \in announced'[a]
        BY <1>2, <1>4, <1>6, <3>5, <3>6, <3>7, <3>9, <3>10 DEF Told
      <3>12. \A a \in UdpReady' : announced'[a] \subseteq spawned'
        BY <1>2, <1>4, <1>6, <3>6, <3>7, <3>9, <3>10 DEF Told
      <3> QED BY <3>8, <3>11, <3>12 DEF Told
    <2> QED BY <2>1, <2>2
  <1> QED BY <1>7, <1>8, <1>9 DEF Ownership

LEMMA OwnershipInit == Init => Ownership
  <1> SUFFICES ASSUME Init PROVE Ownership
    OBVIOUS
  <1>1. Players = {} /\ UdpReady = {}
    BY DEF Init, Players, UdpReady
  <1>2. \A c \in ClientIds : /\ ~clientInfo[c].udpInitialized /\ ~Authenticated(c)
                             /\ announced[c] = {} /\ Range(sent[c]) = {}
    BY DEF Init, NoInfo, Authenticated, Range
  <1> QED BY <1>1, <1>2 DEF Ownership, OwnTokens, OwnShips, Told

LEMMA OwnershipStep ==
  ASSUME NoWrap, FreshTokens
  PROVE  Owned /\ [Next]_vars => Ownership'
  <1> SUFFICES ASSUME Owned, [Next]_vars PROVE Ownership'
    OBVIOUS
  <1>1. CASE Accept
    <2>1. Players' = Players
      BY <1>1 DEF Accept, Players, Authenticated, Owned, IInv, Listed, ClientIds
    <2> QED BY <1>1, <2>1, OwnershipUndisturbed DEF Accept
  <1>2. ASSUME NEW c \in ClientIds, HandleConnect(c) PROVE Ownership'
    <2>1. CASE RefuseConnect(c)
      <3>1. Players' = Players
        BY <2>1 DEF RefuseConnect, Players, Authenticated
      <3>2. \A k \in ClientIds : \A m \in Range(sent'[k]) :
               m.type = "CONNECT_OK" => m \in Range(sent[k])
        <4> SUFFICES ASSUME NEW k \in ClientIds, NEW m \in Range(sent'[k]),
                            m.type = "CONNECT_OK"
                     PROVE  m \in Range(sent[k])
          OBVIOUS
        <4> PICK n : n = Notice("CONNECT_ERROR", 0)
          OBVIOUS
        <4>1. n \in MessageType /\ n.type = "CONNECT_ERROR"
          <5>1. NoToken \in Tokens \cup {NoToken}
            OBVIOUS
          <5> QED BY <5>1, NoticeTyped
        <4>2. sent[k] \in Seq(MessageType) /\ sent \in [ClientIds -> Seq(MessageType)]
          BY DEF Owned, Farewells
        <4>3. sent'[k] = sent[k] \/ sent'[k] = Append(sent[k], n)
          BY <2>1, <4>2 DEF RefuseConnect
        <4>4. Range(Append(sent[k], n)) = Range(sent[k]) \cup {n}
          BY <4>1, <4>2, Delivered
        <4> QED BY <4>1, <4>3, <4>4
      <3> QED BY <2>1, <3>1, <3>2, OwnershipUndisturbed DEF RefuseConnect
    <2> QED BY <1>2, <2>1, OwnershipConnect DEF HandleConnect
  <1>3. ASSUME NEW c \in ClientIds, HandleDisconnect(c) \/ ReadError(c) PROVE Ownership'
    BY <1>3, OwnershipLeave
  <1>4. ASSUME NEW c \in ClientIds, NEW type, NEW token \in TokensOf(c),
               UdpPacket(c, token, type)
        PROVE  Ownership'
    BY <1>4, OwnershipUdp
  <1>5. CASE UNCHANGED vars
    <2>1. Players' = Players
      BY <1>5 DEF vars, tcpVars, Players, Authenticated
    <2> QED BY <1>5, <2>1, OwnershipUndisturbed DEF vars, tcpVars
  <1> QED BY <1>1, <1>2, <1>3, <1>4, <1>5 DEF Next

LEMMA OwnershipKept ==
  ASSUME NoWrap, FreshTokens
  PROVE  Spec => []Owned
  <1>1. IInv /\ Matching /\ Farewells /\ Ownership /\ [Next]_vars => Ownership'
    BY OwnershipStep DEF Owned
  <1>2. Owned <=> IInv /\ Matching /\ Farewells /\ Ownership
    BY DEF Owned
  <1> QED BY <1>1, <1>2, OwnershipInit, Invariance, MatchingKept, FarewellsKept, PTL DEF Spec

(* Nobody but its owner steers a ship, also with the packets of a client   *)
(* that has left: a token finds the session it was made for or none        *)
(* (Server.cpp:259-266, 297; GameServer.cpp:391-441).                      *)
THEOREM OwnerSteers ==
  ASSUME NoWrap, FreshTokens
  PROVE  Spec => []InputsSteerOwnShip
  <1>1. Owned => InputsSteerOwnShip
    <2> SUFFICES ASSUME Owned PROVE InputsSteerOwnShip
      OBVIOUS
    <2>1. \A c \in Players : EntityOf(c) = playerEntities[c]
      BY DEF Owned, IInv, TypeOK, Matching, Players, EntityOf
    <2> QED BY <2>1 DEF InputsSteerOwnShip, Owned, Ownership, OwnShips
  <1> QED BY <1>1, OwnershipKept, PTL

(* The endpoints that are known have been told of each other's ships, and  *)
(* hold no ship that is gone, in whatever order they joined and left       *)
(* (GameServer.cpp:287-441, 443-488).                                      *)
THEOREM EveryoneIsAnnounced ==
  ASSUME NoWrap, FreshTokens
  PROVE  Spec => []AnnouncedMatchesWorld
  <1>1. Owned => AnnouncedMatchesWorld
    <2> SUFFICES ASSUME Owned PROVE AnnouncedMatchesWorld
      OBVIOUS
    <2>1. \A c \in UdpReady : /\ EntityOf(c) = playerEntities[c]
                              /\ clientInfo[c].udpEndpoint = c
      BY DEF Owned, IInv, TypeOK, Matching, Players, UdpReady, EntityOf, Ownership, OwnTokens
    <2> QED BY <2>1 DEF AnnouncedMatchesWorld, Owned, Ownership, Told
  <1> QED BY <1>1, OwnershipKept, PTL
=============================================================================

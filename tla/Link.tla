-------------------------------- MODULE Link --------------------------------
(***************************************************************************)
(* One TCP connection, from GameClient::connect() on one side to Session   *)
(* on the other.  TCP carries a stream: what the session writes message by *)
(* message the client may read in other portions.  connect() reads once    *)
(* and parses all it got as one message.                                   *)
(*                                                                         *)
(* A message is a sequence of words, the first its type, the others        *)
(* parameters; a read may end after or within a word.  Of usernames and    *)
(* reasons nothing is kept.  Once connect() has returned nobody reads the  *)
(* stream again (a client that failed closes it), and the model drops what *)
(* is on its way.  An operator X_... is a mutated form of X.               *)
(***************************************************************************)
EXTENDS Integers, Sequences, SequencesExt, FiniteSetsExt

CONSTANTS MyId,      \* player id the server gives the client
          OtherId,   \* player id of any other player
          Token,     \* the session token drawn for the client
          UdpPorts,  \* UDP ports the server may have been started with
          SplitReads \* whether a read may end within a message

ASSUME PortsAssumption == UdpPorts \subseteq 1 .. 65535
ASSUME IdsAssumption   == MyId \in Nat /\ OtherId \in Nat /\ MyId # OtherId

VARIABLES
    client,      \* where connect() is
    given,       \* what connect() made of the reply: id, token and UDP port
    udpPort,     \* the port the server was started with
    session,     \* where the session is
    line,        \* whether the CONNECT line is on its way to the session
    writeQueue,  \* _writeQueue
    writing,     \* whether an async_write of its head is under way
    unread       \* words the client's socket has and connect() has not read

sessionVars == << session, line, writeQueue, writing, unread >>
linkVars    == << client, given, udpPort, sessionVars >>

Nothing == [id |-> 0, token |-> 0, port |-> 0]

LinkInit ==
    /\ client = "start"
    /\ given = Nothing
    /\ udpPort \in UdpPorts
    /\ session = "none"
    /\ line = FALSE
    /\ writeQueue = << >>
    /\ writing = FALSE
    /\ unread = << >>
-----------------------------------------------------------------------------
(* Ports are held in a short, and sent and resolved as its decimal digits. *)
as_short(port)  == IF port < 32768 THEN port ELSE port - 65536
Resolves(port)  == port >= 0

(* The parameters of a message are in a std::map, in the order of keys.    *)
KeyOrder_Unordered == [udp_port |-> 1, id |-> 2, token |-> 3, username |-> 4, reason |-> 5]
KeyOrder           == [id |-> 1, reason |-> 2, token |-> 3, udp_port |-> 4, username |-> 5]

Word(key, val) == [key |-> key, val |-> val, whole |-> TRUE]

serialize(type, params) ==
    LET UpTo(k) == {l \in DOMAIN params : KeyOrder[l] <= KeyOrder[k]}
        Key(i)  == CHOOSE k \in DOMAIN params : Cardinality(UpTo(k)) = i
    IN  << Word(type, 0) >> \o [i \in 1 .. Cardinality(DOMAIN params) |-> Word(Key(i), params[Key(i)])]

(* The last parameter with a key is the one that counts, and the type is   *)
(* the first word.                                                         *)
parse(words) ==
    LET At(k) == {i \in DOMAIN words : words[i].key = k}
    IN  [type   |-> words[1],
         params |-> [k \in {words[i].key : i \in 2 .. Len(words)} |-> words[Max(At(k))]]]

CONNECT_OK == serialize("CONNECT_OK",
                        [id |-> MyId, token |-> Token, udp_port |-> as_short(udpPort)])
CONNECT_ERROR == serialize("CONNECT_ERROR", [reason |-> 0])
PLAYER_JOIN   == serialize("PLAYER_JOIN", [id |-> OtherId, username |-> 0])
PLAYER_LEAVE  == serialize("PLAYER_LEAVE", [id |-> OtherId])

Connecting == client \in {"start", "waiting"}
-----------------------------------------------------------------------------
(* The session's side.                                                     *)

(* doAccept.                                                               *)
Accept ==
    /\ session = "none"
    /\ client = "waiting"
    /\ session' = "listed"
    /\ UNCHANGED << client, given, udpPort, line, writeQueue, writing, unread >>

(* Session::send: a write is started unless one is under way.              *)
send_AfterPush(message) ==
    /\ writeQueue' = Append(writeQueue, message)
    /\ writing' = writing
send(message) ==
    /\ writeQueue' = Append(writeQueue, message)
    /\ writing' = TRUE

(* A notice about another player, from broadcastMessage.                   *)
Notify(message) ==
    IF session # "none" /\ Connecting
    THEN send(message) /\ UNCHANGED << client, given, udpPort, session, line, unread >>
    ELSE UNCHANGED linkVars

(* doRead: a line is handled only if one read brings all of it.            *)
LineArrives ==
    /\ session = "listed"
    /\ line
    /\ line' = FALSE

LineIsSplit ==
    /\ SplitReads
    /\ LineArrives
    /\ session' = "deaf"
    /\ UNCHANGED << client, given, udpPort, writeQueue, writing, unread >>

AcceptConnect ==
    /\ LineArrives
    /\ session' = "accepted"
    /\ send(CONNECT_OK)
    /\ UNCHANGED << client, given, udpPort, unread >>

RefuseConnect ==
    /\ LineArrives
    /\ session' = "refused"
    /\ send(CONNECT_ERROR)
    /\ UNCHANGED << client, given, udpPort, unread >>

(* The completion handler of doWrite.                                      *)
OnWritten ==
    /\ writing
    /\ unread' = unread \o Head(writeQueue)
    /\ writeQueue' = Tail(writeQueue)
    /\ writing' = (Tail(writeQueue) # << >>)
    /\ UNCHANGED << client, given, udpPort, session, line >>
-----------------------------------------------------------------------------
(* The client's side.                                                      *)

(* connect: the TCP connection, and CONNECT is written.                    *)
Connect ==
    /\ client = "start"
    /\ client' = "waiting"
    /\ line' = TRUE
    /\ UNCHANGED << given, udpPort, session, writeQueue, writing, unread >>

(* What one read_some may bring: all that has come, or words of it, the    *)
(* last one perhaps cut; a number cut short is another, written here 0.    *)
Cut(n)   == [unread EXCEPT ![n] = [@ EXCEPT !.val = 0, !.whole = FALSE]]
Portions == IF SplitReads THEN {SubSeq(unread, 1, n) : n \in DOMAIN unread}
                               \cup {SubSeq(Cut(n), 1, n) : n \in DOMAIN unread}
                          ELSE {unread} \ {<< >>}

(* The rest of connect(): stoi throws where a parameter is missing, and    *)
(* resolve() where the port is no port.                                    *)
IsConnectOk(m) ==
    /\ m.type.whole /\ m.type.key = "CONNECT_OK"
    /\ {"id", "udp_port"} \subseteq DOMAIN m.params
    /\ Resolves(m.params["udp_port"].val)

Taken(m) ==
    [id    |-> m.params["id"].val,
     token |-> IF "token" \in DOMAIN m.params THEN m.params["token"].val ELSE 0,
     port  |-> as_short(m.params["udp_port"].val)]

ReadReply ==
    /\ client = "waiting"
    /\ \E words \in Portions :
          LET m == parse(words) IN
          IF IsConnectOk(m) THEN client' = "connected" /\ given' = Taken(m)
                            ELSE client' = "failed" /\ UNCHANGED given
    /\ line' = FALSE
    /\ writeQueue' = << >>
    /\ writing' = FALSE
    /\ unread' = << >>
    /\ UNCHANGED << udpPort, session >>

(* Its packets reach the server.                                           *)
KnowsServer == client = "connected" /\ given.token = Token /\ given.port = udpPort
=============================================================================

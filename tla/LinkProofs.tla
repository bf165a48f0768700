------------------------------ MODULE LinkProofs ------------------------------
(***************************************************************************)
(* What connect() makes of the first portion of the stream, however many   *)
(* messages have been queued for the client and wherever the read ends.    *)
(* Two facts carry it: only an accepted session writes CONNECT_OK, and     *)
(* only once; and as parameters are written in the order of their keys,    *)
(* a reply read up to udp_port has its token whole.                        *)
(***************************************************************************)
EXTENDS Link, FiniteSetTheorems, SequenceTheorems, TLAPS

Vals  == {0, MyId, OtherId, Token} \cup {as_short(p) : p \in UdpPorts}
Keys  == {"CONNECT_OK", "CONNECT_ERROR", "PLAYER_JOIN", "PLAYER_LEAVE",
          "id", "reason", "token", "udp_port", "username"}
Words == [key : Keys, val : Vals, whole : BOOLEAN]

Others == {CONNECT_ERROR, PLAYER_JOIN, PLAYER_LEAVE}

(* The reply is at the front of what connect() has not read yet.           *)
ReplyFirst == unread # << >> /\ unread[1].key = "CONNECT_OK"

ReplyQueued == {i \in DOMAIN writeQueue : writeQueue[i] = CONNECT_OK}

StreamOK ==
    /\ udpPort \in UdpPorts
    /\ writeQueue \in Seq(Others \cup {CONNECT_OK})
    /\ writing <=> writeQueue # << >>
    /\ unread \in Seq(Words)
    /\ session # "accepted" => ReplyQueued = {} /\ ~ReplyFirst
    /\ \A i, j \in ReplyQueued : i = j
    /\ ReplyFirst =>
          /\ ReplyQueued = {}
          /\ Len(unread) >= 4 /\ \A i \in 1 .. 4 : unread[i] = CONNECT_OK[i]
          /\ \A i \in 5 .. Len(unread) : unread[i].key \notin {"token", "udp_port"}

ConnectedOK == client = "connected" => session = "accepted" /\ given.token = Token

LinkOK == StreamOK /\ ConnectedOK
-----------------------------------------------------------------------------
(* Cardinalities of the sets of keys.                                      *)
LEMMA KeySets ==
  /\ \A a : Cardinality({a}) = 1
  /\ \A a, b : a # b => Cardinality({a, b}) = 2
  /\ \A a, b, c : a # b /\ b # c /\ a # c => Cardinality({a, b, c}) = 3
  <1>1. \A a : Cardinality({a}) = 1 /\ IsFiniteSet({a})
    BY FS_Singleton
  <1>2. ASSUME NEW a, NEW b, a # b PROVE Cardinality({a, b}) = 2 /\ IsFiniteSet({a, b})
    <2>1. {a, b} = {a} \cup {b} /\ b \notin {a}
      BY <1>2
    <2>2. IsFiniteSet({a} \cup {b}) /\ Cardinality({a} \cup {b}) = Cardinality({a}) + 1
      BY <1>1, <2>1, FS_AddElement
    <2> QED BY <1>1, <2>1, <2>2
  <1>3. ASSUME NEW a, NEW b, NEW c, a # b /\ b # c /\ a # c PROVE Cardinality({a, b, c}) = 3
    <2>1. {a, b, c} = {a, b} \cup {c} /\ c \notin {a, b}
      BY <1>3
    <2>2. IsFiniteSet({a, b}) /\ Cardinality({a, b}) = 2
      BY <1>2, <1>3
    <2>3. Cardinality({a, b} \cup {c}) = Cardinality({a, b}) + 1
      BY <2>1, <2>2, FS_AddElement
    <2> QED BY <2>1, <2>2, <2>3
  <1> QED BY <1>1, <1>2, <1>3

(* A word before a few others.                                             *)
LEMMA Joined ==
  ASSUME NEW t
  PROVE  /\ \A x : << t >> \o << x >> = << t, x >>
         /\ \A x, y : << t >> \o << x, y >> = << t, x, y >>
         /\ \A x, y, z : << t >> \o << x, y, z >> = << t, x, y, z >>
  <1>1. ASSUME NEW x PROVE << t >> \o << x >> = << t, x >>
    <2> DEFINE S == {t, x}
               s == << t >> \o << x >>
    <2>1. << t >> \in Seq(S) /\ << x >> \in Seq(S) /\ << t, x >> \in Seq(S)
      OBVIOUS
    <2>2. Len(<< t >>) = 1 /\ Len(<< x >>) = 1 /\ Len(<< t, x >>) = 2
      OBVIOUS
    <2>3. s \in Seq(S) /\ Len(s) = 2 /\ s[1] = t /\ s[2] = x
      BY <2>1, <2>2
    <2> HIDE DEF s
    <2>4. \A i \in 1 .. 2 : s[i] = << t, x >>[i]
      BY <2>3
    <2> QED BY <2>1, <2>2, <2>3, <2>4, SeqEqual DEF s
  <1>2. ASSUME NEW x, NEW y PROVE << t >> \o << x, y >> = << t, x, y >>
    <2> DEFINE S == {t, x, y}
               s == << t >> \o << x, y >>
    <2>1. << t >> \in Seq(S) /\ << x, y >> \in Seq(S) /\ << t, x, y >> \in Seq(S)
      OBVIOUS
    <2>2. Len(<< t >>) = 1 /\ Len(<< x, y >>) = 2 /\ Len(<< t, x, y >>) = 3
      OBVIOUS
    <2>3. s \in Seq(S) /\ Len(s) = 3 /\ s[1] = t /\ s[2] = x /\ s[3] = y
      BY <2>1, <2>2
    <2> HIDE DEF s
    <2>4. \A i \in 1 .. 3 : s[i] = << t, x, y >>[i]
      BY <2>3
    <2> QED BY <2>1, <2>2, <2>3, <2>4, SeqEqual DEF s
  <1>3. ASSUME NEW x, NEW y, NEW z PROVE << t >> \o << x, y, z >> = << t, x, y, z >>
    <2> DEFINE S == {t, x, y, z}
               s == << t >> \o << x, y, z >>
    <2>1. << t >> \in Seq(S) /\ << x, y, z >> \in Seq(S) /\ << t, x, y, z >> \in Seq(S)
      OBVIOUS
    <2>2. Len(<< t >>) = 1 /\ Len(<< x, y, z >>) = 3 /\ Len(<< t, x, y, z >>) = 4
      OBVIOUS
    <2>3. s \in Seq(S) /\ Len(s) = 4 /\ s[1] = t /\ s[2] = x /\ s[3] = y /\ s[4] = z
      BY <2>1, <2>2
    <2> HIDE DEF s
    <2>4. \A i \in 1 .. 4 : s[i] = << t, x, y, z >>[i]
      BY <2>3
    <2> QED BY <2>1, <2>2, <2>3, <2>4, SeqEqual DEF s
  <1> QED BY <1>1, <1>2, <1>3

(* The parameters of a message come in the order of their keys.            *)
LEMMA OneParameter ==
  ASSUME NEW type, NEW params, NEW a, DOMAIN params = {a}, KeyOrder[a] \in Nat
  PROVE  serialize(type, params) = << Word(type, 0), Word(a, params[a]) >>
  <1> DEFINE UpTo(k) == {l \in DOMAIN params : KeyOrder[l] <= KeyOrder[k]}
             Key(i)  == CHOOSE k \in DOMAIN params : Cardinality(UpTo(k)) = i
             W == [i \in 1 .. Cardinality(DOMAIN params) |-> Word(Key(i), params[Key(i)])]
  <1>1. Cardinality(UpTo(a)) = 1
    <2>1. UpTo(a) = {a}
      OBVIOUS
    <2> QED BY <2>1, KeySets
  <1> HIDE DEF UpTo
  <1>2. Key(1) = a
    BY <1>1
  <1> HIDE DEF Key
  <1>3. W = << Word(a, params[a]) >>
    BY <1>2, KeySets
  <1>4. serialize(type, params) = << Word(type, 0) >> \o W
    BY DEF serialize, UpTo, Key
  <1> HIDE DEF W
  <1> QED BY <1>3, <1>4, Joined

(* The same for two parameters.                                            *)
LEMMA TwoParameters ==
  ASSUME NEW type, NEW params, NEW a, NEW b, DOMAIN params = {a, b},
         KeyOrder[a] \in Nat, KeyOrder[b] \in Nat, KeyOrder[a] < KeyOrder[b]
  PROVE  serialize(type, params) = << Word(type, 0), Word(a, params[a]), Word(b, params[b]) >>
  <1> DEFINE UpTo(k) == {l \in DOMAIN params : KeyOrder[l] <= KeyOrder[k]}
             Key(i)  == CHOOSE k \in DOMAIN params : Cardinality(UpTo(k)) = i
             W == [i \in 1 .. Cardinality(DOMAIN params) |-> Word(Key(i), params[Key(i)])]
  <1>0. a # b
    OBVIOUS
  <1>1. Cardinality(UpTo(a)) = 1 /\ Cardinality(UpTo(b)) = 2
    <2>1. UpTo(a) = {a} /\ UpTo(b) = {a, b}
      OBVIOUS
    <2>2. Cardinality({a}) = 1
      BY KeySets
    <2>3. Cardinality({a, b}) = 2
      BY <1>0, KeySets
    <2> HIDE DEF UpTo
    <2> QED BY <2>1, <2>2, <2>3
  <1> HIDE DEF UpTo
  <1>2. Key(1) = a /\ Key(2) = b
    BY <1>1
  <1> HIDE DEF Key
  <1>3. Cardinality(DOMAIN params) = 2
    <2>1. Cardinality({a, b}) = 2
      BY <1>0, KeySets
    <2> QED BY <2>1
  <1>4. W = << Word(a, params[a]), Word(b, params[b]) >>
    BY <1>2, <1>3
  <1>5. serialize(type, params) = << Word(type, 0) >> \o W
    BY DEF serialize, UpTo, Key
  <1> HIDE DEF W
  <1> QED BY <1>4, <1>5, Joined

(* And for the three of CONNECT_OK.                                        *)
LEMMA ThreeParameters ==
  ASSUME NEW type, NEW params, DOMAIN params = {"id", "token", "udp_port"}
  PROVE  serialize(type, params) =
            << Word(type, 0), Word("id", params["id"]), Word("token", params["token"]),
               Word("udp_port", params["udp_port"]) >>
  <1> DEFINE UpTo(k) == {l \in DOMAIN params : KeyOrder[l] <= KeyOrder[k]}
             Key(i)  == CHOOSE k \in DOMAIN params : Cardinality(UpTo(k)) = i
             W == [i \in 1 .. Cardinality(DOMAIN params) |-> Word(Key(i), params[Key(i)])]
  <1>0. /\ Cardinality({"id"}) = 1
        /\ Cardinality({"id", "token"}) = 2
        /\ Cardinality({"id", "token", "udp_port"}) = 3
    <2>1. "id" # "token" /\ "token" # "udp_port" /\ "id" # "udp_port"
      OBVIOUS
    <2>2. Cardinality({"id"}) = 1
      BY KeySets
    <2>3. Cardinality({"id", "token"}) = 2
      BY <2>1, KeySets
    <2>4. Cardinality({"id", "token", "udp_port"}) = 3
      BY <2>1, KeySets
    <2> QED BY <2>2, <2>3, <2>4
  <1>1. /\ UpTo("id") = {"id"}
        /\ UpTo("token") = {"id", "token"}
        /\ UpTo("udp_port") = {"id", "token", "udp_port"}
    BY DEF KeyOrder
  <1> HIDE DEF UpTo
  <1>2. /\ Cardinality(UpTo("id")) = 1
        /\ Cardinality(UpTo("token")) = 2
        /\ Cardinality(UpTo("udp_port")) = 3
    BY <1>0, <1>1
  <1>3. Key(1) = "id" /\ Key(2) = "token" /\ Key(3) = "udp_port"
    BY <1>2
  <1> HIDE DEF Key
  <1>4. W = << Word("id", params["id"]), Word("token", params["token"]),
               Word("udp_port", params["udp_port"]) >>
    BY <1>0, <1>3
  <1>5. serialize(type, params) = << Word(type, 0) >> \o W
    BY DEF serialize, UpTo, Key
  <1> HIDE DEF W
  <1> QED BY <1>4, <1>5, Joined

(* CONNECT_OK has its token before its port; the other messages have       *)
(* neither.                                                                *)
LEMMA MessageWords ==
  /\ CONNECT_OK = << Word("CONNECT_OK", 0), Word("id", MyId), Word("token", Token),
                     Word("udp_port", as_short(udpPort)) >>
  /\ CONNECT_ERROR = << Word("CONNECT_ERROR", 0), Word("reason", 0) >>
  /\ PLAYER_JOIN = << Word("PLAYER_JOIN", 0), Word("id", OtherId), Word("username", 0) >>
  /\ PLAYER_LEAVE = << Word("PLAYER_LEAVE", 0), Word("id", OtherId) >>
  <1>1. /\ KeyOrder["id"] = 1 /\ KeyOrder["reason"] = 2 /\ KeyOrder["token"] = 3
        /\ KeyOrder["udp_port"] = 4 /\ KeyOrder["username"] = 5
    BY DEF KeyOrder
  <1>2. /\ CONNECT_OK = << Word("CONNECT_OK", 0), Word("id", MyId), Word("token", Token),
                           Word("udp_port", as_short(udpPort)) >>
    <2> DEFINE ps == [id |-> MyId, token |-> Token, udp_port |-> as_short(udpPort)]
    <2>1. DOMAIN ps = {"id", "token", "udp_port"}
      OBVIOUS
    <2>2. ps["id"] = MyId /\ ps["token"] = Token /\ ps["udp_port"] = as_short(udpPort)
      OBVIOUS
    <2>3. CONNECT_OK = serialize("CONNECT_OK", ps)
      BY DEF CONNECT_OK
    <2> HIDE DEF ps
    <2>4. serialize("CONNECT_OK", ps) =
             << Word("CONNECT_OK", 0), Word("id", ps["id"]), Word("token", ps["token"]),
                Word("udp_port", ps["udp_port"]) >>
      BY <1>1, <2>1, ThreeParameters
    <2> QED BY <2>2, <2>3, <2>4
  <1>3. CONNECT_ERROR = << Word("CONNECT_ERROR", 0), Word("reason", 0) >>
    <2> DEFINE ps == [reason |-> 0]
    <2>1. DOMAIN ps = {"reason"} /\ ps["reason"] = 0
      OBVIOUS
    <2>2. CONNECT_ERROR = serialize("CONNECT_ERROR", ps)
      BY DEF CONNECT_ERROR
    <2> HIDE DEF ps
    <2>3. serialize("CONNECT_ERROR", ps) = << Word("CONNECT_ERROR", 0), Word("reason", ps["reason"]) >>
      BY <1>1, <2>1, OneParameter
    <2> QED BY <2>1, <2>2, <2>3
  <1>4. PLAYER_JOIN = << Word("PLAYER_JOIN", 0), Word("id", OtherId), Word("username", 0) >>
    <2> DEFINE ps == [id |-> OtherId, username |-> 0]
    <2>1. DOMAIN ps = {"id", "username"} /\ ps["id"] = OtherId /\ ps["username"] = 0
      OBVIOUS
    <2>2. PLAYER_JOIN = serialize("PLAYER_JOIN", ps)
      BY DEF PLAYER_JOIN
    <2> HIDE DEF ps
    <2>3. serialize("PLAYER_JOIN", ps) =
             << Word("PLAYER_JOIN", 0), Word("id", ps["id"]), Word("username", ps["username"]) >>
      BY <1>1, <2>1, TwoParameters
    <2> QED BY <2>1, <2>2, <2>3
  <1>5. PLAYER_LEAVE = << Word("PLAYER_LEAVE", 0), Word("id", OtherId) >>
    <2> DEFINE ps == [id |-> OtherId]
    <2>1. DOMAIN ps = {"id"} /\ ps["id"] = OtherId
      OBVIOUS
    <2>2. PLAYER_LEAVE = serialize("PLAYER_LEAVE", ps)
      BY DEF PLAYER_LEAVE
    <2> HIDE DEF ps
    <2>3. serialize("PLAYER_LEAVE", ps) = << Word("PLAYER_LEAVE", 0), Word("id", ps["id"]) >>
      BY <1>1, <2>1, OneParameter
    <2> QED BY <2>1, <2>2, <2>3
  <1> QED BY <1>2, <1>3, <1>4, <1>5

(* Of every message, what StreamOK needs.                                  *)
LEMMA MessageFacts ==
  ASSUME udpPort \in UdpPorts
  PROVE  /\ CONNECT_OK \in Seq(Words) /\ Len(CONNECT_OK) = 4
         /\ CONNECT_OK[1].key = "CONNECT_OK" /\ CONNECT_OK[2].key = "id"
         /\ CONNECT_OK[3] = Word("token", Token)
         /\ \A m \in Others :
               /\ m \in Seq(Words) /\ m # << >>
               /\ m[1].key # "CONNECT_OK"
               /\ \A i \in 1 .. Len(m) : m[i].key \notin {"token", "udp_port"}
  <1>2. MyId \in Vals /\ OtherId \in Vals /\ Token \in Vals /\ 0 \in Vals /\ as_short(udpPort) \in Vals
    BY DEF Vals
  <1>3. /\ CONNECT_OK \in Seq(Words) /\ Len(CONNECT_OK) = 4
        /\ CONNECT_OK[1].key = "CONNECT_OK" /\ CONNECT_OK[2].key = "id"
        /\ CONNECT_OK[3] = Word("token", Token)
    <2>1. /\ Word("CONNECT_OK", 0) \in Words /\ Word("CONNECT_OK", 0).key = "CONNECT_OK"
          /\ Word("id", MyId) \in Words /\ Word("id", MyId).key = "id"
          /\ Word("token", Token) \in Words
          /\ Word("udp_port", as_short(udpPort)) \in Words
      BY <1>2 DEF Word, Words, Keys
    <2> QED BY <2>1, MessageWords
  <1>4. ASSUME NEW m \in Others
        PROVE  /\ m \in Seq(Words) /\ m # << >>
               /\ m[1].key # "CONNECT_OK"
               /\ \A i \in 1 .. Len(m) : m[i].key \notin {"token", "udp_port"}
    <2>0. /\ Word("CONNECT_ERROR", 0) \in Words /\ Word("CONNECT_ERROR", 0).key = "CONNECT_ERROR"
          /\ Word("PLAYER_JOIN", 0) \in Words /\ Word("PLAYER_JOIN", 0).key = "PLAYER_JOIN"
          /\ Word("PLAYER_LEAVE", 0) \in Words /\ Word("PLAYER_LEAVE", 0).key = "PLAYER_LEAVE"
          /\ Word("reason", 0) \in Words /\ Word("reason", 0).key = "reason"
          /\ Word("username", 0) \in Words /\ Word("username", 0).key = "username"
          /\ Word("id", OtherId) \in Words /\ Word("id", OtherId).key = "id"
      BY <1>2 DEF Word, Words, Keys
    <2>1. CASE m = CONNECT_ERROR
      <3>1. /\ m \in Seq(Words) /\ Len(m) = 2
            /\ m[1] = Word("CONNECT_ERROR", 0) /\ m[2] = Word("reason", 0)
        BY <2>0, <2>1, MessageWords
      <3>2. m[1].key # "CONNECT_OK"
        BY <2>0, <3>1
      <3>4. m # << >>
        <4>1. m \in Seq(Words) /\ Len(m) # 0
          BY <3>1
        <4> QED BY <4>1
      <3>3. ASSUME NEW i \in 1 .. Len(m) PROVE m[i].key \notin {"token", "udp_port"}
        <4>1. i \in {1, 2, 3} /\ i <= Len(m)
          BY <3>1
        <4> QED BY <2>0, <3>1, <4>1
      <3> QED BY <3>1, <3>2, <3>3, <3>4
    <2>2. CASE m = PLAYER_JOIN
      <3>1. /\ m \in Seq(Words) /\ Len(m) = 3 /\ m[1] = Word("PLAYER_JOIN", 0)
            /\ m[2] = Word("id", OtherId) /\ m[3] = Word("username", 0)
        BY <2>0, <2>2, MessageWords
      <3>2. m[1].key # "CONNECT_OK"
        BY <2>0, <3>1
      <3>4. m # << >>
        <4>1. m \in Seq(Words) /\ Len(m) # 0
          BY <3>1
        <4> QED BY <4>1
      <3>3. ASSUME NEW i \in 1 .. Len(m) PROVE m[i].key \notin {"token", "udp_port"}
        <4>1. i \in {1, 2, 3} /\ i <= Len(m)
          BY <3>1
        <4> QED BY <2>0, <3>1, <4>1
      <3> QED BY <3>1, <3>2, <3>3, <3>4
    <2>3. CASE m = PLAYER_LEAVE
      <3>1. /\ m \in Seq(Words) /\ Len(m) = 2
            /\ m[1] = Word("PLAYER_LEAVE", 0) /\ m[2] = Word("id", OtherId)
        BY <2>0, <2>3, MessageWords
      <3>2. m[1].key # "CONNECT_OK"
        BY <2>0, <3>1
      <3>4. m # << >>
        <4>1. m \in Seq(Words) /\ Len(m) # 0
          BY <3>1
        <4> QED BY <4>1
      <3>3. ASSUME NEW i \in 1 .. Len(m) PROVE m[i].key \notin {"token", "udp_port"}
        <4>1. i \in {1, 2, 3} /\ i <= Len(m)
          BY <3>1
        <4> QED BY <2>0, <3>1, <4>1
      <3> QED BY <3>1, <3>2, <3>3, <3>4
    <2> QED BY <2>1, <2>2, <2>3 DEF Others
  <1> QED BY <1>3, <1>4
-----------------------------------------------------------------------------
(* Nothing is queued or written at first.                                  *)
LEMMA LinkInitOK == LinkInit => LinkOK
  BY DEF LinkInit, LinkOK, StreamOK, ConnectedOK, ReplyQueued, ReplyFirst

(* A message is queued: the reply only once, and only if the session was   *)
(* accepted with it.                                                       *)
LEMMA Queued ==
  ASSUME StreamOK, NEW m \in Others \cup {CONNECT_OK}, send(m),
         UNCHANGED << udpPort, unread >>,
         m = CONNECT_OK => session # "accepted" /\ session' = "accepted",
         m # CONNECT_OK => (session' = "accepted" <=> session = "accepted")
  PROVE  StreamOK'
  <1>1. CONNECT_OK' = CONNECT_OK
    BY DEF CONNECT_OK
  <1> DEFINE N == Len(writeQueue)
  <1>2. /\ N \in Nat /\ DOMAIN writeQueue = 1 .. N
        /\ writeQueue' \in Seq(Others \cup {CONNECT_OK})
        /\ DOMAIN writeQueue' = 1 .. N + 1 /\ writeQueue' # << >>
        /\ \A i \in 1 .. N : writeQueue'[i] = writeQueue[i]
        /\ writeQueue'[N + 1] = m
    BY DEF StreamOK, send
  <1> HIDE DEF N
  <1>3. ReplyQueued' = IF m = CONNECT_OK THEN ReplyQueued \cup {N + 1} ELSE ReplyQueued
    BY <1>1, <1>2 DEF ReplyQueued
  <1>4. m = CONNECT_OK => ReplyQueued = {} /\ ~ReplyFirst
    BY DEF StreamOK
  <1>5. ReplyFirst' <=> ReplyFirst
    BY DEF ReplyFirst
  <1>6. Others' = Others /\ writing'
    BY DEF Others, CONNECT_ERROR, PLAYER_JOIN, PLAYER_LEAVE, send
  <1>7. \A i, j \in ReplyQueued' : i = j
    BY <1>3, <1>4 DEF StreamOK
  <1>8. session' # "accepted" => ReplyQueued' = {} /\ ~ReplyFirst'
    BY <1>3, <1>5 DEF StreamOK
  <1>9. ReplyFirst' => /\ ReplyQueued' = {}
                       /\ Len(unread') >= 4 /\ \A i \in 1 .. 4 : unread'[i] = CONNECT_OK'[i]
                       /\ \A i \in 5 .. Len(unread') : unread'[i].key \notin {"token", "udp_port"}
    BY <1>1, <1>3, <1>4, <1>5 DEF StreamOK
  <1> QED BY <1>1, <1>2, <1>6, <1>7, <1>8, <1>9 DEF StreamOK

(* The head of the queue has been written, and the client can read it.     *)
LEMMA Written ==
  ASSUME StreamOK, OnWritten
  PROVE  StreamOK'
  <1>0. CONNECT_OK' = CONNECT_OK /\ Others' = Others /\ udpPort' = udpPort /\ session' = session
    BY DEF OnWritten, CONNECT_OK, Others, CONNECT_ERROR, PLAYER_JOIN, PLAYER_LEAVE
  <1> DEFINE m == Head(writeQueue)
             N == Len(writeQueue)
             L == Len(unread)
  <1>1. /\ N \in Nat /\ N >= 1 /\ DOMAIN writeQueue = 1 .. N
        /\ m = writeQueue[1] /\ m \in Others \cup {CONNECT_OK}
        /\ writeQueue' = Tail(writeQueue)
        /\ writeQueue' \in Seq(Others \cup {CONNECT_OK})
        /\ DOMAIN writeQueue' = 1 .. N - 1
        /\ \A i \in 1 .. N - 1 : writeQueue'[i] = writeQueue[i + 1]
        /\ writing' <=> writeQueue' # << >>
    <2>1. writeQueue \in Seq(Others \cup {CONNECT_OK}) /\ writeQueue # << >>
      BY DEF StreamOK, OnWritten
    <2>2. N \in Nat /\ N >= 1 /\ DOMAIN writeQueue = 1 .. N
      BY <2>1, EmptySeq
    <2>3. m = writeQueue[1] /\ m \in Others \cup {CONNECT_OK}
      BY <2>1, <2>2
    <2>4. writeQueue' = Tail(writeQueue) /\ (writing' <=> writeQueue' # << >>)
      BY DEF OnWritten
    <2>5. /\ writeQueue' \in Seq(Others \cup {CONNECT_OK})
          /\ Len(writeQueue') = N - 1
          /\ \A i \in 1 .. N - 1 : writeQueue'[i] = writeQueue[i + 1]
      BY <2>1, <2>2, <2>4, HeadTailProperties
    <2>6. DOMAIN writeQueue' = 1 .. N - 1
      BY <2>5
    <2> QED BY <2>2, <2>3, <2>4, <2>5, <2>6
  <1>2. ReplyQueued' = {i \in 1 .. N - 1 : i + 1 \in ReplyQueued}
    BY <1>0, <1>1 DEF ReplyQueued
  <1>3. /\ m \in Seq(Words) /\ Len(m) >= 1
        /\ m # CONNECT_OK => /\ m[1].key # "CONNECT_OK"
                             /\ \A i \in 1 .. Len(m) : m[i].key \notin {"token", "udp_port"}
    <2>1. udpPort \in UdpPorts
      BY DEF StreamOK
    <2>2. CASE m = CONNECT_OK
      BY <2>1, <2>2, MessageFacts
    <2>3. CASE m # CONNECT_OK
      <3>1. m \in Seq(Words) /\ m # << >> /\ m[1].key # "CONNECT_OK"
            /\ \A i \in 1 .. Len(m) : m[i].key \notin {"token", "udp_port"}
        BY <1>1, <2>1, <2>3, MessageFacts
      <3>2. Len(m) >= 1
        BY <3>1, EmptySeq
      <3> QED BY <3>1, <3>2
    <2> QED BY <2>2, <2>3
  <1>4. m = CONNECT_OK <=> 1 \in ReplyQueued
    BY <1>1 DEF ReplyQueued
  <1> HIDE DEF m
  <1>5. /\ unread' = unread \o m
        /\ L \in Nat /\ Len(m) \in Nat /\ unread' \in Seq(Words) /\ Len(unread') = L + Len(m)
        /\ \A i \in 1 .. L : unread'[i] = unread[i]
        /\ \A i \in 1 .. Len(m) : unread'[L + i] = m[i]
    <2>1. unread' = unread \o m /\ unread \in Seq(Words)
      BY DEF OnWritten, StreamOK, m
    <2>2. L \in Nat /\ Len(m) \in Nat
      BY <1>3, <2>1
    <2>3. /\ unread' \in Seq(Words) /\ Len(unread') = L + Len(m)
          /\ \A i \in 1 .. L + Len(m) : unread'[i] = IF i <= L THEN unread[i] ELSE m[i - L]
      BY <1>3, <2>1, ConcatProperties
    <2> QED BY <2>1, <2>2, <2>3
  <1>6. CASE L = 0
    <2>1. unread = << >> /\ ~ReplyFirst
      BY <1>6, EmptySeq DEF ReplyFirst, StreamOK
    <2>2. ReplyFirst' <=> m = CONNECT_OK
      <3>1. unread'[1] = m[1] /\ unread' # << >>
        BY <1>3, <1>5, <1>6
      <3>2. udpPort \in UdpPorts
        BY DEF StreamOK
      <3>3. m = CONNECT_OK => m[1].key = "CONNECT_OK"
        BY <3>2, MessageFacts
      <3> QED BY <1>3, <3>1, <3>3 DEF ReplyFirst
    <2>3. m = CONNECT_OK => /\ ReplyQueued' = {}
                            /\ Len(unread') = 4 /\ \A i \in 1 .. 4 : unread'[i] = CONNECT_OK'[i]
                            /\ 5 .. Len(unread') = {}
      <3>1. udpPort \in UdpPorts
        BY DEF StreamOK
      <3>2. m = CONNECT_OK => Len(m) = 4
        BY <3>1, MessageFacts
      <3>3. m = CONNECT_OK => ReplyQueued' = {}
        BY <1>1, <1>2, <1>4 DEF StreamOK, ReplyQueued
      <3>4. Len(unread') = Len(m) /\ \A i \in 1 .. Len(m) : unread'[i] = m[i]
        BY <1>5, <1>6
      <3> QED BY <1>0, <3>2, <3>3, <3>4
    <2>4. session' # "accepted" => ReplyQueued' = {} /\ ~ReplyFirst'
      BY <1>0, <1>2, <1>4, <2>2 DEF StreamOK
    <2>5. \A i, j \in ReplyQueued' : i = j
      BY <1>1, <1>2 DEF StreamOK
    <2>6. ReplyFirst' =>
             /\ ReplyQueued' = {}
             /\ Len(unread') >= 4 /\ \A i \in 1 .. 4 : unread'[i] = CONNECT_OK'[i]
             /\ \A i \in 5 .. Len(unread') : unread'[i].key \notin {"token", "udp_port"}
      BY <2>2, <2>3
    <2> QED BY <1>0, <1>1, <1>5, <2>4, <2>5, <2>6 DEF StreamOK
  <1>7. CASE L # 0
    <2>1. unread # << >> /\ unread' # << >> /\ unread'[1] = unread[1]
      BY <1>5, <1>7
    <2>2. ReplyFirst' <=> ReplyFirst
      BY <2>1 DEF ReplyFirst
    <2>3. ReplyFirst =>
             /\ ReplyQueued' = {}
             /\ Len(unread') >= 4 /\ \A i \in 1 .. 4 : unread'[i] = CONNECT_OK'[i]
             /\ \A i \in 5 .. Len(unread') : unread'[i].key \notin {"token", "udp_port"}
      <3> SUFFICES ASSUME ReplyFirst
                   PROVE  /\ ReplyQueued' = {}
                          /\ Len(unread') >= 4 /\ \A i \in 1 .. 4 : unread'[i] = CONNECT_OK'[i]
                          /\ \A i \in 5 .. Len(unread') : unread'[i].key \notin {"token", "udp_port"}
        OBVIOUS
      <3>1. /\ ReplyQueued = {} /\ L >= 4
            /\ \A i \in 1 .. 4 : unread[i] = CONNECT_OK[i]
            /\ \A i \in 5 .. L : unread[i].key \notin {"token", "udp_port"}
        BY DEF StreamOK
      <3>2. ReplyQueued' = {} /\ m # CONNECT_OK
        BY <1>2, <1>4, <3>1
      <3>3. Len(unread') >= 4 /\ \A i \in 1 .. 4 : unread'[i] = CONNECT_OK'[i]
        BY <1>0, <1>5, <3>1
      <3>4. ASSUME NEW i \in 5 .. Len(unread') PROVE unread'[i].key \notin {"token", "udp_port"}
        <4>1. CASE i <= L
          BY <1>5, <3>1, <4>1
        <4>2. CASE i > L
          <5>1. i - L \in 1 .. Len(m) /\ i = L + (i - L)
            BY <1>5, <4>2
          <5>2. unread'[i] = m[i - L]
            BY <1>5, <5>1
          <5> QED BY <1>3, <3>2, <5>1, <5>2
        <4> QED BY <1>5, <4>1, <4>2
      <3> QED BY <3>2, <3>3, <3>4
    <2>4. session' # "accepted" => ReplyQueued' = {} /\ ~ReplyFirst'
      BY <1>0, <1>2, <2>2 DEF StreamOK
    <2>5. \A i, j \in ReplyQueued' : i = j
      BY <1>1, <1>2 DEF StreamOK
    <2> QED BY <1>0, <1>1, <1>5, <2>2, <2>3, <2>4, <2>5 DEF StreamOK
  <1> QED BY <1>6, <1>7

(* What connect() takes from one read that it accepts: the token is the    *)
(* session's, because udp_port was read and the token comes before it.     *)
LEMMA TokenTaken ==
  ASSUME StreamOK, NEW words \in Portions, IsConnectOk(parse(words))
  PROVE  session = "accepted" /\ Taken(parse(words)).token = Token
  <1> DEFINE At(k) == {i \in DOMAIN words : words[i].key = k}
             m == parse(words)
             N == Len(words)
  <1>1. unread \in Seq(Words) /\ Len(unread) \in Nat
    BY DEF StreamOK
  <1>2. /\ N \in 1 .. Len(unread) /\ DOMAIN words = 1 .. N
        /\ \A i \in 1 .. N : words[i].key = unread[i].key
        /\ \A i \in 1 .. N - 1 : words[i] = unread[i]
    <2>1. PICK n \in 1 .. Len(unread) :
             words = SubSeq(unread, 1, n) \/ words = SubSeq(Cut(n), 1, n)
      <3>1. \/ words = unread /\ unread # << >>
            \/ \E n \in DOMAIN unread : words = SubSeq(unread, 1, n) \/ words = SubSeq(Cut(n), 1, n)
        BY DEF Portions
      <3>2. CASE words = unread /\ unread # << >>
        <4>1. Len(unread) >= 1
          BY <1>1, <3>2, EmptySeq
        <4>2. SubSeq(unread, 1, Len(unread)) = unread
          BY <1>1, SubSeqFull
        <4>3. Len(unread) \in 1 .. Len(unread) /\ words = SubSeq(unread, 1, Len(unread))
          BY <1>1, <3>2, <4>1, <4>2
        <4> QED BY <4>3
      <3>3. DOMAIN unread = 1 .. Len(unread)
        BY <1>1
      <3> QED BY <3>1, <3>2, <3>3
    <2>2. CASE words = SubSeq(unread, 1, n)
      <3>1. N = n /\ DOMAIN words = 1 .. n /\ \A i \in 1 .. n : words[i] = unread[i]
        BY <1>1, <2>2
      <3> QED BY <1>1, <3>1
    <2>3. CASE words = SubSeq(Cut(n), 1, n)
      <3> DEFINE w == [unread[n] EXCEPT !.val = 0, !.whole = FALSE]
      <3>1. 0 \in Vals
        BY DEF Vals
      <3>2. unread[n] \in Words
        BY <1>1
      <3>3. w \in Words /\ w.key = unread[n].key
        BY <3>1, <3>2 DEF Words
      <3>4. Cut(n) = [unread EXCEPT ![n] = w]
        BY DEF Cut
      <3> HIDE DEF w
      <3>5. /\ Cut(n) \in Seq(Words) /\ Len(Cut(n)) = Len(unread)
            /\ \A i \in 1 .. Len(unread) : Cut(n)[i] = IF i = n THEN w ELSE unread[i]
        BY <1>1, <3>3, <3>4, ExceptSeq
      <3>6. N = n /\ DOMAIN words = 1 .. n /\ \A i \in 1 .. n : words[i] = Cut(n)[i]
        BY <1>1, <2>3, <3>5
      <3> QED BY <1>1, <3>3, <3>5, <3>6
    <2> QED BY <2>1, <2>2, <2>3
  <1>3. /\ m.type = words[1]
        /\ m.params = [k \in {words[i].key : i \in 2 .. N} |-> words[Max(At(k))]]
    BY DEF parse
  <1>4. ReplyFirst
    <2>1. words[1].key = "CONNECT_OK"
      BY <1>3 DEF IsConnectOk
    <2> QED BY <1>2, <2>1, EmptySeq DEF ReplyFirst
  <1>5. session = "accepted"
    BY <1>4 DEF StreamOK
  <1>6. /\ unread[1].key = "CONNECT_OK" /\ unread[2].key = "id" /\ unread[3] = Word("token", Token)
        /\ Len(unread) >= 4
        /\ \A i \in 5 .. Len(unread) : unread[i].key \notin {"token", "udp_port"}
    <2>1. udpPort \in UdpPorts
      BY DEF StreamOK
    <2> QED BY <1>4, <2>1, MessageFacts DEF StreamOK
  <1>7. unread[3].key = "token" /\ unread[3].val = Token
    BY <1>6 DEF Word
  <1>8. N >= 4
    <2>1. "udp_port" \in DOMAIN m.params
      BY DEF IsConnectOk
    <2>2. PICK i \in 2 .. N : words[i].key = "udp_port"
      BY <1>3, <2>1
    <2>3. i # 2 /\ i # 3
      BY <1>2, <1>6, <1>7, <2>2
    <2> QED BY <1>2, <2>3
  <1>9. At("token") = {3}
    <2>1. ASSUME NEW i \in 1 .. N, words[i].key = "token" PROVE i = 3
      <3>1. unread[i].key = "token" /\ i \in 1 .. Len(unread)
        BY <1>2, <2>1
      <3>2. i # 1 /\ i # 2 /\ i <= 4
        BY <1>2, <1>6, <3>1
      <3>3. i # 4
        <4>1. unread[4].key = "udp_port"
          <5>1. udpPort \in UdpPorts /\ unread[4] = CONNECT_OK[4]
            BY <1>4 DEF StreamOK
          <5>2. CONNECT_OK[4] = Word("udp_port", as_short(udpPort))
            BY MessageWords
          <5> QED BY <5>1, <5>2 DEF Word
        <4> QED BY <3>1, <4>1
      <3> QED BY <3>1, <3>2, <3>3
    <2>2. 3 \in 1 .. N /\ words[3].key = "token"
      BY <1>2, <1>7, <1>8
    <2> QED BY <1>2, <2>1, <2>2
  <1>10. Max(At("token")) = 3
    <2>1. \A x \in {3} : x = 3 /\ \A y \in {3} : x >= y
      OBVIOUS
    <2> HIDE DEF At
    <2> QED BY <1>9, <2>1 DEF Max
  <1>11. "token" \in DOMAIN m.params /\ m.params["token"] = words[3]
    <2>1. 3 \in 2 .. N /\ words[3].key = "token"
      BY <1>2, <1>7, <1>8
    <2> HIDE DEF At, m
    <2> QED BY <1>3, <1>10, <2>1
  <1>12. words[3].val = Token
    BY <1>2, <1>7, <1>8
  <1>13. Taken(m).token = Token
    BY <1>11, <1>12 DEF Taken
  <1> QED BY <1>5, <1>13
-----------------------------------------------------------------------------
(* The steps of Link, as Client takes them.                                *)
LinkStep ==
    \/ Accept \/ LineIsSplit \/ AcceptConnect \/ RefuseConnect
    \/ OnWritten \/ Connect \/ ReadReply
    \/ Notify(PLAYER_JOIN) \/ Notify(PLAYER_LEAVE)

(* The steps that touch neither the queue nor what has come.               *)
LEMMA StreamKept ==
  ASSUME LinkOK, UNCHANGED << given, udpPort, writeQueue, writing, unread >>,
         session' = "accepted" <=> session = "accepted",
         client' = "connected" <=> client = "connected"
  PROVE  LinkOK'
  <1>1. /\ CONNECT_OK' = CONNECT_OK /\ Others' = Others
        /\ ReplyQueued' = ReplyQueued /\ (ReplyFirst' <=> ReplyFirst)
    BY DEF CONNECT_OK, Others, CONNECT_ERROR, PLAYER_JOIN, PLAYER_LEAVE, ReplyQueued, ReplyFirst
  <1> QED BY <1>1 DEF LinkOK, StreamOK, ConnectedOK

(* Each step of Link keeps its invariant.                                  *)
LEMMA LinkStepOK ==
  ASSUME LinkOK, LinkStep \/ UNCHANGED linkVars
  PROVE  LinkOK'
  <1> USE DEF linkVars, sessionVars
  <1>1. CASE Accept \/ LineIsSplit \/ Connect \/ UNCHANGED linkVars
    BY <1>1, StreamKept DEF Accept, LineIsSplit, LineArrives, Connect
  <1>2. CASE AcceptConnect
    <2>1. StreamOK'
      BY <1>2, Queued DEF LinkOK, AcceptConnect, LineArrives
    <2> QED BY <1>2, <2>1 DEF LinkOK, ConnectedOK, AcceptConnect, LineArrives
  <1>3. ASSUME NEW m \in Others, send(m), UNCHANGED << client, given, udpPort, unread >>,
               session' = "accepted" <=> session = "accepted"
        PROVE  LinkOK'
    <2>1. m # CONNECT_OK
      <3>1. udpPort \in UdpPorts
        BY DEF LinkOK, StreamOK
      <3> QED BY <3>1, MessageFacts
    <2>2. StreamOK'
      BY <1>3, <2>1, Queued DEF LinkOK
    <2> QED BY <1>3, <2>2 DEF LinkOK, ConnectedOK
  <1>4. CASE RefuseConnect
    BY <1>3, <1>4 DEF RefuseConnect, LineArrives, Others
  <1>5. CASE Notify(PLAYER_JOIN) \/ Notify(PLAYER_LEAVE)
    BY <1>1, <1>3, <1>5 DEF Notify, Others
  <1>6. CASE OnWritten
    BY <1>6, Written DEF LinkOK, ConnectedOK, OnWritten
  <1>7. CASE ReadReply
    <2>1. ReplyQueued' = {} /\ ~ReplyFirst'
      BY <1>7 DEF ReadReply, ReplyQueued, ReplyFirst
    <2>2. StreamOK'
      BY <1>7, <2>1 DEF ReadReply, LinkOK, StreamOK
    <2>3. ConnectedOK'
      <3>1. PICK words \in Portions :
               LET m == parse(words) IN
               IF IsConnectOk(m) THEN client' = "connected" /\ given' = Taken(m)
                                 ELSE client' = "failed" /\ UNCHANGED given
        BY <1>7 DEF ReadReply
      <3>2. CASE IsConnectOk(parse(words))
        <4>1. session = "accepted" /\ Taken(parse(words)).token = Token
          BY <3>2, TokenTaken DEF LinkOK
        <4> QED BY <1>7, <3>1, <3>2, <4>1 DEF ConnectedOK, ReadReply
      <3>3. CASE ~IsConnectOk(parse(words))
        BY <3>1, <3>3 DEF ConnectedOK
      <3> QED BY <3>2, <3>3
    <2> QED BY <2>2, <2>3 DEF LinkOK
  <1> QED BY <1>1, <1>2, <1>4, <1>5, <1>6, <1>7 DEF LinkStep
=============================================================================

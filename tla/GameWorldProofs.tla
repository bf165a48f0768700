-------------------------- MODULE GameWorldProofs --------------------------
(***************************************************************************)
(* Safety of the game world, for any players, any number of entities and   *)
(* any times, and that it implements Arena.  The invariant Inv says what   *)
(* the registry holds for each entity that is tracked, and which entities  *)
(* are doomed in which phase of a tick.                                    *)
(***************************************************************************)
EXTENDS GameWorld, SequenceTheorems, FiniteSetTheorems, TLAPS

(* No element of a list is repeated.                                       *)
NoRepeat(s) == \A i, j \in DOMAIN s : s[i] = s[j] => i = j
-----------------------------------------------------------------------------
(* Lists.                                                                  *)

LEMMA InSeq ==
  ASSUME NEW S, NEW T, NEW s \in Seq(S), Range(s) \subseteq T
  PROVE  s \in Seq(T)
  <1>1. /\ Len(s) \in Nat
        /\ DOMAIN s = 1 .. Len(s)
        /\ s \in [1 .. Len(s) -> S]
    BY LenProperties
  <1>2. \A i \in 1 .. Len(s) : s[i] \in T
    BY <1>1 DEF Range
  <1>3. s \in [1 .. Len(s) -> T]
    BY <1>1, <1>2
  <1> QED BY <1>1, <1>3, SeqDef

(* The members of a finite list, and how many they are.                    *)
LEMMA ListRange ==
  ASSUME NEW S, NEW s \in Seq(S)
  PROVE  /\ IsFiniteSet(Range(s))
         /\ Len(s) \in Nat
         /\ Range(s) \subseteq S
         /\ NoRepeat(s) => Cardinality(Range(s)) = Len(s)
         /\ Cardinality(Range(s)) = Len(s) => NoRepeat(s)
         /\ Range(s) = {} <=> s = << >>
  <1>1. /\ Len(s) \in Nat
        /\ DOMAIN s = 1 .. Len(s)
        /\ s \in [1 .. Len(s) -> S]
    BY LenProperties
  <1>2. IsFiniteSet(1 .. Len(s)) /\ Cardinality(1 .. Len(s)) = Len(s)
    BY <1>1, FS_Interval
  <1>3. Range(s) \subseteq S /\ s \in Surjection(1 .. Len(s), Range(s))
    BY <1>1 DEF Range, Surjection
  <1>4. /\ IsFiniteSet(Range(s))
        /\ Cardinality(Range(s)) = Len(s) <=> s \in Injection(1 .. Len(s), Range(s))
    BY <1>2, <1>3, FS_Surjection
  <1>5. s \in Injection(1 .. Len(s), Range(s)) <=> NoRepeat(s)
    BY <1>1, <1>3 DEF Injection, IsInjective, NoRepeat, Range, Surjection
  <1>6. Range(s) = {} <=> s = << >>
    <2>1. Len(s) # 0 => 1 \in DOMAIN s /\ s[1] \in Range(s)
      BY <1>1 DEF Range
    <2>2. Len(s) = 0 => Range(s) = {}
      BY <1>1 DEF Range
    <2> QED BY <1>1, <2>1, <2>2, EmptySeq
  <1> QED BY <1>1, <1>3, <1>4, <1>5, <1>6

LEMMA Appended ==
  ASSUME NEW S, NEW s \in Seq(S), NEW e \in S
  PROVE  /\ Append(s, e) \in Seq(S)
         /\ Range(Append(s, e)) = Range(s) \cup {e}
         /\ Len(Append(s, e)) = Len(s) + 1
         /\ NoRepeat(s) /\ e \notin Range(s) => NoRepeat(Append(s, e))
  <1>1. /\ Len(s) \in Nat
        /\ DOMAIN s = 1 .. Len(s)
        /\ Append(s, e) \in Seq(S)
        /\ Len(Append(s, e)) = Len(s) + 1
        /\ DOMAIN Append(s, e) = 1 .. Len(s) + 1
        /\ \A i \in 1 .. Len(s) : Append(s, e)[i] = s[i]
        /\ Append(s, e)[Len(s) + 1] = e
    BY AppendProperties, LenProperties
  <1>2. Range(Append(s, e)) = Range(s) \cup {e}
    BY <1>1 DEF Range
  <1>3. ASSUME NoRepeat(s), e \notin Range(s) PROVE NoRepeat(Append(s, e))
    <2>1. \A i \in 1 .. Len(s) : s[i] # e
      BY <1>1, <1>3 DEF Range
    <2> QED BY <1>1, <1>3, <2>1 DEF NoRepeat
  <1> QED BY <1>1, <1>2, <1>3

LEMMA Beheaded ==
  ASSUME NEW S, NEW s \in Seq(S), s # << >>
  PROVE  /\ Head(s) \in Range(s) /\ Head(s) \in S
         /\ Tail(s) \in Seq(S)
         /\ Range(s) = Range(Tail(s)) \cup {Head(s)}
         /\ NoRepeat(s) => NoRepeat(Tail(s)) /\ Head(s) \notin Range(Tail(s))
  <1>1. /\ Len(s) \in Nat \ {0}
        /\ DOMAIN s = 1 .. Len(s)
        /\ Tail(s) \in Seq(S)
        /\ Head(s) = s[1]
        /\ DOMAIN Tail(s) = 1 .. Len(s) - 1
        /\ \A i \in 1 .. Len(s) - 1 : Tail(s)[i] = s[i + 1]
    BY HeadTailProperties, LenProperties, EmptySeq
  <1>2. Head(s) \in Range(s) /\ Head(s) \in S
    BY <1>1, HeadTailProperties DEF Range
  <1>3. Range(s) = Range(Tail(s)) \cup {Head(s)}
    <2>1. ASSUME NEW x \in Range(s) PROVE x \in Range(Tail(s)) \cup {Head(s)}
      <3>1. PICK i \in 1 .. Len(s) : x = s[i]
        BY <1>1, <2>1 DEF Range
      <3>2. CASE i # 1
        <4>1. i - 1 \in 1 .. Len(s) - 1 /\ Tail(s)[i - 1] = x
          BY <1>1, <3>1, <3>2
        <4> QED BY <1>1, <4>1 DEF Range
      <3> QED BY <1>1, <3>1, <3>2
    <2>2. ASSUME NEW x \in Range(Tail(s)) PROVE x \in Range(s)
      <3>1. PICK i \in 1 .. Len(s) - 1 : x = Tail(s)[i]
        BY <1>1, <2>2 DEF Range
      <3>2. i + 1 \in 1 .. Len(s) /\ s[i + 1] = x
        BY <1>1, <3>1
      <3> QED BY <1>1, <3>2 DEF Range
    <2> QED BY <1>2, <2>1, <2>2
  <1>4. ASSUME NoRepeat(s) PROVE NoRepeat(Tail(s)) /\ Head(s) \notin Range(Tail(s))
    BY <1>1, <1>4 DEF NoRepeat, Range
  <1> QED BY <1>1, <1>2, <1>3, <1>4

LEMMA Joined ==
  ASSUME NEW S, NEW s \in Seq(S), NEW t \in Seq(S)
  PROVE  /\ s \o t \in Seq(S)
         /\ Range(s \o t) = Range(s) \cup Range(t)
  <1>1. /\ Len(s) \in Nat /\ DOMAIN s = 1 .. Len(s)
        /\ Len(t) \in Nat /\ DOMAIN t = 1 .. Len(t)
        /\ s \o t \in Seq(S)
        /\ DOMAIN (s \o t) = 1 .. Len(s) + Len(t)
        /\ \A i \in 1 .. Len(s) + Len(t) :
              (s \o t)[i] = IF i <= Len(s) THEN s[i] ELSE t[i - Len(s)]
    BY ConcatProperties, LenProperties
  <1>2. Range(s \o t) \subseteq Range(s) \cup Range(t)
    <2> SUFFICES ASSUME NEW i \in 1 .. Len(s) + Len(t)
                 PROVE  (s \o t)[i] \in Range(s) \cup Range(t)
      BY <1>1 DEF Range
    <2>1. CASE i <= Len(s)
      BY <1>1, <2>1 DEF Range
    <2>2. CASE i > Len(s)
      <3>1. i - Len(s) \in 1 .. Len(t)
        BY <1>1, <2>2
      <3> QED BY <1>1, <2>2, <3>1 DEF Range
    <2> QED BY <1>1, <2>1, <2>2
  <1>3. Range(s) \cup Range(t) \subseteq Range(s \o t)
    <2>1. \A i \in 1 .. Len(s) : i \in 1 .. Len(s) + Len(t) /\ s[i] = (s \o t)[i]
      BY <1>1
    <2>2. ASSUME NEW i \in 1 .. Len(t) PROVE t[i] \in Range(s \o t)
      <3>1. i + Len(s) \in 1 .. Len(s) + Len(t) /\ ~(i + Len(s) <= Len(s))
            /\ i + Len(s) - Len(s) = i
        BY <1>1
      <3>2. t[i] = (s \o t)[i + Len(s)]
        BY <1>1, <3>1
      <3> QED BY <1>1, <3>1, <3>2 DEF Range
    <2> QED BY <1>1, <2>1, <2>2 DEF Range
  <1> QED BY <1>1, <1>2, <1>3

(* The last free id is taken.                                              *)
LEMMA Shortened ==
  ASSUME NEW S, NEW s \in Seq(S), s # << >>, NoRepeat(s)
  PROVE  /\ Front(s) \in Seq(S)
         /\ Last(s) \in Range(s) /\ Last(s) \in S
         /\ Range(Front(s)) = Range(s) \ {Last(s)}
         /\ NoRepeat(Front(s))
  <1>1. Len(s) \in Nat \ {0} /\ DOMAIN s = 1 .. Len(s)
    BY EmptySeq, LenProperties
  <1> DEFINE n == Len(s) - 1
  <1>2. /\ Front(s) \in Seq(S)
        /\ DOMAIN Front(s) = 1 .. n
        /\ \A i \in 1 .. n : Front(s)[i] = s[i]
    <2>1. n \in Nat /\ \A i \in 1 .. n : s[i] \in S
      BY <1>1, ElementOfSeq
    <2> HIDE DEF n
    <2>2. /\ SubSeq(s, 1, n) \in Seq(S)
          /\ Len(SubSeq(s, 1, n)) = IF 1 <= n THEN n - 1 + 1 ELSE 0
          /\ \A i \in 1 .. n - 1 + 1 : SubSeq(s, 1, n)[i] = s[1 + i - 1]
      BY <2>1, SubSeqProperties
    <2>3. Len(SubSeq(s, 1, n)) = n /\ \A i \in 1 .. n : SubSeq(s, 1, n)[i] = s[i]
      BY <2>1, <2>2
    <2>4. Front(s) = SubSeq(s, 1, n)
      BY DEF Front, n
    <2> QED BY <2>2, <2>3, <2>4, LenProperties
  <1>3. Last(s) = s[Len(s)] /\ Last(s) \in S
    BY <1>1, ElementOfSeq DEF Last
  <1> QED BY <1>1, <1>2, <1>3 DEF Range, NoRepeat
-----------------------------------------------------------------------------
(* A finite set of numbers in ascending order.                             *)
LEMMA Sorted ==
  ASSUME NEW S \in SUBSET Nat, IsFiniteSet(S)
  PROVE  /\ Ascending(S) \in Seq(S)
         /\ Range(Ascending(S)) = S
         /\ NoRepeat(Ascending(S))
         /\ DOMAIN Ascending(S) = 1 .. Cardinality(S)
  <1> DEFINE N == Cardinality(S)
             upTo(x) == {y \in S : y <= x}
             rank == [x \in S |-> Cardinality(upTo(x))]
             Rises(s) == \A i, j \in DOMAIN s : i < j => s[i] < s[j]
  <1>1. N \in Nat /\ IsFiniteSet(1 .. N) /\ Cardinality(1 .. N) = N
    BY FS_CardinalityType, FS_Interval
  <1>2. \A x \in S : IsFiniteSet(upTo(x)) /\ rank[x] \in 1 .. N
    <2> SUFFICES ASSUME NEW x \in S
                 PROVE  IsFiniteSet(upTo(x)) /\ rank[x] \in 1 .. N
      OBVIOUS
    <2>1. IsFiniteSet(upTo(x)) /\ Cardinality(upTo(x)) \in Nat /\ Cardinality(upTo(x)) <= N
      BY FS_Subset, FS_CardinalityType
    <2>2. Cardinality(upTo(x)) # 0
      BY <2>1, FS_EmptySet
    <2> QED BY <1>1, <2>1, <2>2
  <1>3. \A x, z \in S : x < z => rank[x] < rank[z]
    <2> SUFFICES ASSUME NEW x \in S, NEW z \in S, x < z
                 PROVE  rank[x] < rank[z]
      OBVIOUS
    <2>1. Cardinality(upTo(x) \cup {z}) = Cardinality(upTo(x)) + 1
      BY <1>2, FS_AddElement
    <2>2. upTo(x) \cup {z} \in SUBSET upTo(z)
      <3>1. \A y \in S : y <= x => y <= z
        OBVIOUS
      <3>2. z <= z
        OBVIOUS
      <3> QED BY <3>1, <3>2
    <2>3. Cardinality(upTo(x) \cup {z}) <= Cardinality(upTo(z))
      BY <1>2, <2>2, FS_Subset
    <2>4. rank[x] \in Nat /\ rank[z] \in Nat
      BY <1>2
    <2> QED BY <2>1, <2>3, <2>4
  <1>4. rank \in Surjection(S, 1 .. N)
    <2>1. \A x, z \in S : rank[x] = rank[z] => x = z
      <3> SUFFICES ASSUME NEW x \in S, NEW z \in S, x # z PROVE rank[x] # rank[z]
        OBVIOUS
      <3>1. x < z \/ z < x
        OBVIOUS
      <3> QED BY <1>2, <1>3, <3>1
    <2> HIDE DEF rank
    <2>2. rank \in [S -> 1 .. N]
      BY <1>2 DEF rank
    <2>3. rank \in Injection(S, 1 .. N)
      BY <2>1, <2>2 DEF Injection, IsInjective
    <2> QED BY <1>1, <2>3, FS_Injection
  <1>5. \E s \in [1 .. N -> S] : Rises(s)
    <2> DEFINE s == [i \in 1 .. N |-> CHOOSE x \in S : rank[x] = i]
    <2>1. \A i \in 1 .. N : s[i] \in S /\ rank[s[i]] = i
      <3> HIDE DEF rank
      <3> SUFFICES ASSUME NEW i \in 1 .. N PROVE s[i] \in S /\ rank[s[i]] = i
        OBVIOUS
      <3>1. \E x \in S : rank[x] = i
        BY <1>4 DEF Surjection
      <3> QED BY <3>1
    <2> HIDE DEF rank
    <2>2. s \in [1 .. N -> S]
      BY <2>1
    <2>3. ASSUME NEW i \in 1 .. N, NEW j \in 1 .. N, i < j PROVE s[i] < s[j]
      <3> HIDE DEF s
      <3>1. s[i] \in S /\ s[j] \in S /\ rank[s[i]] = i /\ rank[s[j]] = j
        BY <2>1
      <3>2. s[i] # s[j]
        BY <1>1, <2>3, <3>1
      <3>3. s[j] < s[i] => rank[s[j]] < rank[s[i]]
        BY <1>3, <3>1
      <3>4. i \in Nat /\ j \in Nat /\ ~(j < i)
        BY <1>1, <2>3
      <3>5. ~(s[j] < s[i])
        BY <3>1, <3>3, <3>4
      <3>6. s[i] \in Nat /\ s[j] \in Nat
        BY <3>1
      <3> QED BY <3>2, <3>5, <3>6
    <2> QED BY <2>2, <2>3
  <1>6. Ascending(S) \in [1 .. N -> S] /\ Rises(Ascending(S))
    BY <1>5 DEF Ascending
  <1> DEFINE a == Ascending(S)
  <1> HIDE DEF a
  <1>7. a \in Seq(S) /\ DOMAIN a = 1 .. N /\ Len(a) = N
    <2>1. a \in [1 .. N -> S]
      BY <1>6 DEF a
    <2> QED BY <1>1, <2>1, SeqDef
  <1>8. NoRepeat(a)
    <2> SUFFICES ASSUME NEW i \in 1 .. N, NEW j \in 1 .. N, i < j PROVE a[i] # a[j]
      BY <1>1, <1>7 DEF NoRepeat
    <2>1. a[i] < a[j] /\ a[i] \in Nat /\ a[j] \in Nat
      BY <1>6, <1>7 DEF a
    <2> QED BY <2>1
  <1>9. Range(a) = S
    <2>1. Cardinality(Range(a)) = Cardinality(S) /\ Range(a) \in SUBSET S
      BY <1>7, <1>8, ListRange
    <2> QED BY <2>1, FS_Subset
  <1> QED BY <1>7, <1>8, <1>9 DEF a

(* What destroyEntity leaves of a list (GameServer.cpp:753-761).           *)
LEMMA Removed ==
  ASSUME NEW S, NEW s \in Seq(S), NEW e
  PROVE  /\ Without(s, e) \in Seq(S)
         /\ Range(Without(s, e)) = Range(s) \ {e}
         /\ NoRepeat(s) => NoRepeat(Without(s, e))
  <1> DEFINE K == {i \in DOMAIN s : s[i] # e}
             k == Ascending(K)
  <1>1. Len(s) \in Nat /\ DOMAIN s = 1 .. Len(s) /\ \A i \in DOMAIN s : s[i] \in S
    BY LenProperties
  <1>2. K \in SUBSET Nat /\ IsFiniteSet(K) /\ Cardinality(K) \in Nat
    <2>1. K \in SUBSET (1 .. Len(s)) /\ IsFiniteSet(1 .. Len(s))
      BY <1>1, FS_Interval
    <2> QED BY <2>1, FS_Subset, FS_CardinalityType
  <1>3. /\ k \in Seq(K) /\ Range(k) = K /\ NoRepeat(k)
        /\ DOMAIN k = 1 .. Cardinality(K)
    BY <1>2, Sorted
  <1>4. Without(s, e) = [i \in DOMAIN k |-> s[k[i]]]
    BY DEF Without
  <1>5. \A i \in DOMAIN k : k[i] \in DOMAIN s /\ s[k[i]] # e /\ s[k[i]] \in S
    <2>1. \A i \in DOMAIN k : k[i] \in Range(k)
      BY DEF Range
    <2> QED BY <1>1, <1>3, <2>1
  <1>6. \A j \in K : \E i \in DOMAIN k : k[i] = j
    <2>1. Range(k) = {k[i] : i \in DOMAIN k}
      BY DEF Range
    <2> QED BY <1>3, <2>1
  <1> HIDE DEF k
  <1>7. Without(s, e) \in Seq(S)
    <2> DEFINE n == Cardinality(K)
    <2>1. n \in Nat /\ Without(s, e) \in [1 .. n -> S]
      BY <1>2, <1>3, <1>4, <1>5
    <2> HIDE DEF n, K
    <2> QED BY <2>1, SeqDef
  <1>8. Range(Without(s, e)) = Range(s) \ {e}
    <2>1. DOMAIN Without(s, e) = DOMAIN k
          /\ \A i \in DOMAIN k : Without(s, e)[i] = s[k[i]]
      BY <1>4
    <2>2. \A i \in DOMAIN k : Without(s, e)[i] \in Range(s) \ {e}
      BY <1>5, <2>1 DEF Range
    <2>3. ASSUME NEW x \in Range(s) \ {e} PROVE x \in Range(Without(s, e))
      <3>1. PICK j \in DOMAIN s : x = s[j]
        BY DEF Range
      <3>2. PICK i \in DOMAIN k : k[i] = j
        BY <1>6, <3>1
      <3> QED BY <2>1, <3>1, <3>2 DEF Range
    <2> QED BY <2>1, <2>2, <2>3 DEF Range
  <1>9. ASSUME NoRepeat(s) PROVE NoRepeat(Without(s, e))
    BY <1>3, <1>4, <1>5, <1>9 DEF NoRepeat
  <1> QED BY <1>7, <1>8, <1>9

LEMMA Listed ==
  ASSUME NEW T, NEW S \in SUBSET T, IsFiniteSet(S)
  PROVE  SetToSeq(S) \in Seq(T) /\ Range(SetToSeq(S)) = S
  <1> DEFINE N == Cardinality(S)
  <1>1. N \in Nat /\ ExistsBijection(1 .. N, S) /\ IsFiniteSet(1 .. N) /\ Cardinality(1 .. N) = N
    BY FS_CardinalityType, FS_Interval
  <1>2. PICK f \in [1 .. N -> S] : IsInjective(f)
    BY <1>1 DEF ExistsBijection, Bijection, Injection, IsInjective
  <1>3. SetToSeq(S) \in [1 .. N -> S] /\ IsInjective(SetToSeq(S))
    BY <1>2 DEF SetToSeq
  <1> HIDE DEF N
  <1>4. SetToSeq(S) \in Injection(1 .. N, S)
    BY <1>3 DEF Injection
  <1>5. SetToSeq(S) \in Surjection(1 .. N, S)
    BY <1>1, <1>4, FS_Injection DEF N
  <1>6. Range(SetToSeq(S)) = S
    BY <1>3, <1>5 DEF Surjection, Range
  <1>7. SetToSeq(S) \in [1 .. N -> T]
    BY <1>3
  <1> QED BY <1>1, <1>6, <1>7, SeqDef
-----------------------------------------------------------------------------
(* The inductive invariant.                                                *)

(* The registry's own part: Live is what its counters and free list say,   *)
(* and only live entities have components.                                 *)
RegistryOK ==
    /\ DOMAIN reg = {"next_id", "free_ids", "alive_count", "storage"}
    /\ DOMAIN reg.storage = ComponentTypes
    /\ reg.next_id \in 0 .. nextNetworkId - 1
    /\ reg.free_ids \in Seq(Nat) /\ NoRepeat(reg.free_ids)
    /\ Range(reg.free_ids) \subseteq 0 .. reg.next_id - 1
    /\ reg.alive_count = Cardinality(Live)
    /\ \A c \in ComponentTypes : DOMAIN reg.storage[c] \subseteq Live

Has(e, comps) ==
    /\ \A c \in ComponentTypes : e \in DOMAIN reg.storage[c] <=> c \in DOMAIN comps
    /\ reg.storage.EntityTypeTag[e] = comps.EntityTypeTag

IsShip(e, p) == /\ Has(e, PlayerComponents(p, 1))
                /\ reg.storage.PlayerOwner[e] = p
                /\ HealthOf(e) = PLAYER_HEALTH
IsEnemy(e)   == /\ Has(e, EnemyComponents(1))
                /\ HealthOf(e) \in {0, BULLET_DAMAGE, ENEMY_HEALTH}
IsBullet(e)  == /\ Has(e, BulletComponents(1, 1))
                /\ reg.storage.Damage[e] = BULLET_DAMAGE
                /\ reg.storage.Lifetime[e] \in 0 .. BULLET_LIFETIME

(* What each entity is to the registry.                                    *)
KindsOK ==
    /\ \A p \in DOMAIN playerEntities : IsShip(playerEntities[p], p)
    /\ \A e \in Enemies : IsEnemy(e)
    /\ \A e \in Bullets : IsBullet(e)

IdsOK ==
    /\ nextNetworkId \in 1 .. MaxEntities + 1
    /\ \A e \in Live : NetworkIdOf(e) \in 1 .. nextNetworkId - 1
    /\ \A d, e \in Live : NetworkIdOf(d) = NetworkIdOf(e) => d = e

(* The containers, and the session each ship belongs to.                   *)
ContainersOK ==
    /\ session \in [Players -> {"none", "connected", "ready", "gone"}]
    /\ DOMAIN playerEntities = {p \in Players : session[p] \in {"connected", "ready"}}
    /\ enemyEntities \in Seq(Nat) /\ NoRepeat(enemyEntities)
    /\ bulletEntities \in Seq(Nat) /\ NoRepeat(bulletEntities)
    /\ Range(playerEntities) \cup Enemies \cup Bullets = Live

(* The doomed, phase by phase.                                             *)
DoomOK ==
    /\ phase \in {"spawn", "lifetimes", "expire", "collide", "destroy"}
    /\ toDestroy \in Seq(Nat) /\ unchecked \in Seq(Nat)
    /\ phase \in {"spawn", "lifetimes"} => toDestroy = << >>
    /\ phase = "expire" => Range(toDestroy) \subseteq Bullets
    /\ phase \in {"expire", "destroy"} => NoRepeat(toDestroy)
    /\ Range(toDestroy) \subseteq Enemies \cup Bullets
    /\ phase # "collide" => unchecked = << >>
    /\ NoRepeat(unchecked)
    /\ Range(unchecked) \subseteq Bullets \ Range(toDestroy)
    /\ DeadEnemiesAreDoomed

TimersOK ==
    /\ nextEnemySpawnTime \in MIN_ENEMY_SPAWN_INTERVAL .. MAX_ENEMY_SPAWN_INTERVAL
    /\ enemySpawnTimer \in 0 .. nextEnemySpawnTime
    /\ deltaTime \in Dts

(* What the clients were told; nobody is told anything before it is ready. *)
Shown == Enemies \cup Bullets \cup {playerEntities[p] : p \in UdpReady}

ViewOK ==
    /\ announced \in [Players -> SUBSET (1 .. MaxEntities)]
    /\ \A p \in Players : session[p] \in {"none", "connected"} => announced[p] = {}
    /\ \A p \in UdpReady : \A e \in Shown : NetworkIdOf(e) \in announced[p]
    /\ \A p \in UdpReady : \A n \in announced[p] : \E e \in Live : NetworkIdOf(e) = n

WorldOK == RegistryOK /\ KindsOK /\ IdsOK /\ ContainersOK
Inv == WorldOK /\ DoomOK /\ TimersOK /\ ViewOK
-----------------------------------------------------------------------------
(* The two changes of the registry.                                        *)

(* An entity that a step leaves as it is.                                  *)
Same(d) == \A c \in ComponentTypes :
               /\ d \in DOMAIN reg'.storage[c] <=> d \in DOMAIN reg.storage[c]
               /\ d \in DOMAIN reg.storage[c] => reg'.storage[c][d] = reg.storage[c][d]

LEMMA LiveFinite ==
  ASSUME NEW n \in Nat, NEW S
  PROVE  IsFiniteSet((0 .. n - 1) \ S) /\ Cardinality((0 .. n - 1) \ S) \in Nat
  <1>1. IsFiniteSet(0 .. n - 1)
    BY FS_Interval
  <1>2. IsFiniteSet((0 .. n - 1) \ S)
    BY <1>1, FS_Subset
  <1> QED BY <1>2, FS_CardinalityType

(* spawn_entity() takes an id nobody holds; the components that follow     *)
(* are that entity's (Registry.hpp:92-106).                                *)
LEMMA Created ==
  ASSUME RegistryOK, nextNetworkId \in Nat \ {0}, nextNetworkId' = nextNetworkId + 1,
         NEW comps, DOMAIN comps \subseteq ComponentTypes, reg' = create(reg, comps)
  PROVE  LET e == spawned_id(reg)
         IN  /\ e \in Nat \ Live /\ e < nextNetworkId
             /\ Live' = Live \cup {e}
             /\ RegistryOK'
             /\ \A d \in Live : Same(d)
             /\ \A c \in ComponentTypes : e \in DOMAIN reg'.storage[c] <=> c \in DOMAIN comps
             /\ \A c \in DOMAIN comps : reg'.storage[c][e] = comps[c]
  <1> DEFINE e == spawned_id(reg)
             r == spawn_entity(reg)
  <1>0. reg.next_id \in Nat /\ reg.free_ids \in Seq(Nat)
    BY DEF RegistryOK
  <1>1. /\ DOMAIN r = DOMAIN reg
        /\ r.storage = reg.storage
        /\ r.alive_count = reg.alive_count + 1
        /\ r.next_id \in 0 .. nextNetworkId
        /\ r.free_ids \in Seq(Nat) /\ NoRepeat(r.free_ids)
        /\ Range(r.free_ids) \subseteq 0 .. r.next_id - 1
        /\ e \in Nat \ Live /\ e < nextNetworkId
        /\ 0 .. r.next_id - 1 \ Range(r.free_ids) = Live \cup {e}
    <2>1. CASE reg.free_ids # << >>
      <3>1. /\ e = Last(reg.free_ids)
            /\ r = [reg EXCEPT !.free_ids = Front(@), !.alive_count = @ + 1]
        BY <2>1 DEF spawned_id, spawn_entity
      <3>2. /\ Front(reg.free_ids) \in Seq(Nat)
            /\ e \in Range(reg.free_ids)
            /\ Range(Front(reg.free_ids)) = Range(reg.free_ids) \ {e}
            /\ NoRepeat(Front(reg.free_ids))
        BY <2>1, <3>1, Shortened DEF RegistryOK
      <3>3. /\ DOMAIN r = DOMAIN reg /\ r.storage = reg.storage
            /\ r.alive_count = reg.alive_count + 1
            /\ r.next_id = reg.next_id /\ r.free_ids = Front(reg.free_ids)
        BY <3>1 DEF RegistryOK
      <3> QED BY <3>2, <3>3 DEF RegistryOK, Live
    <2>2. CASE reg.free_ids = << >>
      <3>1. /\ e = reg.next_id
            /\ r = [reg EXCEPT !.next_id = @ + 1, !.alive_count = @ + 1]
        BY <2>2 DEF spawned_id, spawn_entity
      <3>2. /\ DOMAIN r = DOMAIN reg /\ r.storage = reg.storage
            /\ r.alive_count = reg.alive_count + 1
            /\ r.next_id = reg.next_id + 1 /\ r.free_ids = reg.free_ids
        BY <3>1 DEF RegistryOK
      <3>3. Range(reg.free_ids) = {}
        BY <2>2, <1>0, ListRange
      <3> QED BY <3>1, <3>2, <3>3 DEF RegistryOK, Live
    <2> QED BY <2>1, <2>2
  <1>2. reg' = [r EXCEPT !.storage = [c \in DOMAIN @ |->
                   IF c \in DOMAIN comps THEN insert_at(@[c], e, comps[c]) ELSE @[c]]]
    BY DEF create
  <1> HIDE DEF e, r
  <1>3. /\ DOMAIN reg' = DOMAIN reg
        /\ reg'.next_id = r.next_id /\ reg'.free_ids = r.free_ids
        /\ reg'.alive_count = r.alive_count
        /\ reg'.storage = [c \in ComponentTypes |->
              IF c \in DOMAIN comps THEN insert_at(reg.storage[c], e, comps[c])
              ELSE reg.storage[c]]
    BY <1>1, <1>2 DEF RegistryOK
  <1>4. \A c \in ComponentTypes :
           /\ DOMAIN reg'.storage[c] = DOMAIN reg.storage[c]
                                         \cup (IF c \in DOMAIN comps THEN {e} ELSE {})
           /\ \A d \in DOMAIN reg.storage[c] : reg'.storage[c][d] = reg.storage[c][d]
           /\ c \in DOMAIN comps => reg'.storage[c][e] = comps[c]
    <2>1. \A c \in ComponentTypes : e \notin DOMAIN reg.storage[c]
      BY <1>1 DEF RegistryOK
    <2> QED BY <1>3, <2>1 DEF insert_at
  <1>5. Live' = Live \cup {e}
    BY <1>1, <1>3 DEF Live
  <1>6. Cardinality(Live') = Cardinality(Live) + 1
    <2>1. IsFiniteSet(Live)
      BY <1>0, LiveFinite DEF Live
    <2> QED BY <1>1, <1>5, <2>1, FS_AddElement
  <1>7. RegistryOK'
    BY <1>1, <1>3, <1>4, <1>5, <1>6 DEF RegistryOK
  <1>8. \A d \in Live : Same(d)
    BY <1>1, <1>4 DEF Same
  <1>9. \A c \in ComponentTypes : e \in DOMAIN reg'.storage[c] <=> c \in DOMAIN comps
    BY <1>1, <1>4 DEF RegistryOK
  <1> QED BY <1>1, <1>4, <1>5, <1>7, <1>8, <1>9 DEF e

(* kill_entity() of an entity that is alive (Registry.hpp:108-114).        *)
LEMMA Killed ==
  ASSUME RegistryOK, nextNetworkId \in Nat \ {0}, nextNetworkId' = nextNetworkId,
         NEW e \in Live, reg' = kill_entity(reg, e)
  PROVE  /\ Live' = Live \ {e}
         /\ RegistryOK'
         /\ \A d \in Live' : Same(d)
  <1>0. reg.next_id \in Nat /\ reg.free_ids \in Seq(Nat) /\ e \in Nat
        /\ e \notin Range(reg.free_ids)
    BY DEF RegistryOK, Live
  <1>1. /\ DOMAIN reg' = DOMAIN reg
        /\ reg'.next_id = reg.next_id
        /\ reg'.free_ids = Append(reg.free_ids, e)
        /\ reg'.alive_count = IF reg.alive_count > 0 THEN reg.alive_count - 1 ELSE 0
        /\ reg'.storage = [c \in ComponentTypes |-> erase(reg.storage[c], e)]
    BY DEF kill_entity, RegistryOK
  <1>2. /\ reg'.free_ids \in Seq(Nat) /\ NoRepeat(reg'.free_ids)
        /\ Range(reg'.free_ids) = Range(reg.free_ids) \cup {e}
    BY <1>0, <1>1, Appended DEF RegistryOK
  <1>3. Live' = Live \ {e}
    BY <1>1, <1>2 DEF Live
  <1>4. reg'.alive_count = Cardinality(Live')
    <2>1. IsFiniteSet(Live) /\ Cardinality(Live) \in Nat
      BY <1>0, LiveFinite DEF Live
    <2>2. Cardinality(Live') = Cardinality(Live) - 1
      BY <1>3, <2>1, FS_RemoveElement
    <2>3. Cardinality(Live) # 0
      BY <2>1, FS_EmptySet
    <2> QED BY <1>1, <2>1, <2>2, <2>3 DEF RegistryOK
  <1>5. \A c \in ComponentTypes :
           /\ DOMAIN reg'.storage[c] = DOMAIN reg.storage[c] \ {e}
           /\ \A d \in DOMAIN reg.storage[c] \ {e} : reg'.storage[c][d] = reg.storage[c][d]
    BY <1>1 DEF erase, Restrict
  <1>6. RegistryOK'
    <2>1. e \in 0 .. reg'.next_id - 1
      BY <1>1 DEF Live
    <2> QED BY <1>1, <1>2, <1>3, <1>4, <1>5, <2>1 DEF RegistryOK
  <1>7. \A d \in Live' : Same(d)
    BY <1>3, <1>5 DEF Same
  <1> QED BY <1>3, <1>6, <1>7
-----------------------------------------------------------------------------
(* What the invariant says of an entity.                                   *)
Always == {"Position", "Velocity", "Drawable", "NetworkId", "PlayerOwner", "EntityTypeTag"}

EntityShape ==
    /\ Range(playerEntities) = {playerEntities[p] : p \in DOMAIN playerEntities}
    /\ Live \subseteq Nat /\ IsFiniteSet(Live)
    /\ Range(playerEntities) \subseteq Live /\ Enemies \subseteq Live /\ Bullets \subseteq Live
    /\ UdpReady \subseteq DOMAIN playerEntities /\ Shown \subseteq Live
    /\ Enemies \cap Bullets = {}
    /\ Enemies \cap Range(playerEntities) = {} /\ Bullets \cap Range(playerEntities) = {}
    /\ \A p, q \in DOMAIN playerEntities : playerEntities[p] = playerEntities[q] => p = q
    /\ \A e \in Live, c \in Always : e \in DOMAIN reg.storage[c]
    /\ \A e \in Live : e \in DOMAIN reg.storage.Health <=> e \notin Bullets
    /\ \A e \in Live : e \in DOMAIN reg.storage.Lifetime <=> e \in Bullets
    /\ \A e \in Live : e \in DOMAIN reg.storage.Damage <=> e \in Bullets
    /\ \A e \in Live : reg.storage.EntityTypeTag[e] =
          IF e \in Enemies THEN "ENEMY" ELSE IF e \in Bullets THEN "BULLET_PLAYER" ELSE "PLAYER"

(* The components of each kind.                                            *)
LEMMA Components ==
  ASSUME NEW p, NEW n
  PROVE  /\ DOMAIN PlayerComponents(p, n) = Always \cup {"Health"}
         /\ DOMAIN EnemyComponents(n) = Always \cup {"Health"}
         /\ DOMAIN BulletComponents(p, n) = Always \cup {"Damage", "Lifetime"}
         /\ PlayerComponents(p, n).EntityTypeTag = "PLAYER"
         /\ PlayerComponents(p, n).PlayerOwner = p
         /\ PlayerComponents(p, n).Health = PLAYER_HEALTH
         /\ PlayerComponents(p, n).NetworkId = n
         /\ EnemyComponents(n).EntityTypeTag = "ENEMY"
         /\ EnemyComponents(n).Health = ENEMY_HEALTH
         /\ EnemyComponents(n).NetworkId = n
         /\ BulletComponents(p, n).EntityTypeTag = "BULLET_PLAYER"
         /\ BulletComponents(p, n).Damage = BULLET_DAMAGE
         /\ BulletComponents(p, n).Lifetime = BULLET_LIFETIME
         /\ BulletComponents(p, n).NetworkId = n
         /\ Always \cup {"Health", "Damage", "Lifetime"} = ComponentTypes
  BY DEF PlayerComponents, EnemyComponents, BulletComponents, Always, ComponentTypes

LEMMA EntityFacts == WorldOK => EntityShape
  <1> SUFFICES ASSUME WorldOK PROVE EntityShape
    OBVIOUS
  <1>1. Range(playerEntities) = {playerEntities[p] : p \in DOMAIN playerEntities}
    BY DEF Range
  <1>2. Live \subseteq Nat /\ IsFiniteSet(Live)
    <2>1. reg.next_id \in Nat
      BY DEF WorldOK, RegistryOK
    <2>2. Live \subseteq Nat
      BY <2>1 DEF Live
    <2>3. IsFiniteSet(Live)
      BY <2>1, LiveFinite DEF Live
    <2> QED BY <2>2, <2>3
  <1>3. Live = Range(playerEntities) \cup Enemies \cup Bullets
    BY DEF WorldOK, ContainersOK
  <1>4. /\ \A e \in Range(playerEntities) :
              \E p : Has(e, PlayerComponents(p, 1)) /\ reg.storage.PlayerOwner[e] = p
        /\ \A e \in Enemies : Has(e, EnemyComponents(1))
        /\ \A e \in Bullets : Has(e, BulletComponents(1, 1))
    BY <1>1 DEF WorldOK, KindsOK, IsShip, IsEnemy, IsBullet
  <1>5. /\ \A e \in Range(playerEntities) :
              /\ reg.storage.EntityTypeTag[e] = "PLAYER"
              /\ \A c \in ComponentTypes :
                    e \in DOMAIN reg.storage[c] <=> c \in Always \cup {"Health"}
        /\ \A e \in Enemies :
              /\ reg.storage.EntityTypeTag[e] = "ENEMY"
              /\ \A c \in ComponentTypes :
                    e \in DOMAIN reg.storage[c] <=> c \in Always \cup {"Health"}
        /\ \A e \in Bullets :
              /\ reg.storage.EntityTypeTag[e] = "BULLET_PLAYER"
              /\ \A c \in ComponentTypes :
                    e \in DOMAIN reg.storage[c] <=> c \in Always \cup {"Damage", "Lifetime"}
    BY <1>4, Components DEF Has
  <1>6. /\ Enemies \cap Bullets = {}
        /\ Enemies \cap Range(playerEntities) = {}
        /\ Bullets \cap Range(playerEntities) = {}
    BY <1>5
  <1>7. \A p, q \in DOMAIN playerEntities : playerEntities[p] = playerEntities[q] => p = q
    BY DEF WorldOK, KindsOK, IsShip
  <1>8. /\ \A e \in Live, c \in Always : e \in DOMAIN reg.storage[c]
        /\ \A e \in Live : e \in DOMAIN reg.storage.Health <=> e \notin Bullets
        /\ \A e \in Live : e \in DOMAIN reg.storage.Lifetime <=> e \in Bullets
        /\ \A e \in Live : e \in DOMAIN reg.storage.Damage <=> e \in Bullets
    BY <1>3, <1>5, <1>6 DEF Always, ComponentTypes
  <1>9. \A e \in Live : reg.storage.EntityTypeTag[e] =
          IF e \in Enemies THEN "ENEMY" ELSE IF e \in Bullets THEN "BULLET_PLAYER" ELSE "PLAYER"
    BY <1>3, <1>5
  <1>10. UdpReady \subseteq DOMAIN playerEntities
    BY DEF UdpReady, WorldOK, ContainersOK
  <1>11. Shown \subseteq Live
    <2>1. \A p \in UdpReady : playerEntities[p] \in Range(playerEntities)
      BY <1>1, <1>10
    <2> QED BY <1>3, <2>1 DEF Shown
  <1>12. Range(playerEntities) \subseteq Live /\ Enemies \subseteq Live /\ Bullets \subseteq Live
    BY <1>3
  <1> QED BY <1>1, <1>2, <1>6, <1>7, <1>8, <1>9, <1>10, <1>11, <1>12 DEF EntityShape

(* An entity that stays as it is stays what it is.                         *)
LEMMA StaysWhatItIs ==
  ASSUME NEW d, Same(d)
  PROVE  /\ \A p : IsShip(d, p) => IsShip(d, p)'
         /\ IsEnemy(d) => IsEnemy(d)' /\ HealthOf(d)' = HealthOf(d)
         /\ IsBullet(d) => IsBullet(d)'
         /\ d \in DOMAIN reg.storage.NetworkId => NetworkIdOf(d)' = NetworkIdOf(d)
  <1>1. \A c \in ComponentTypes :
           /\ d \in DOMAIN reg'.storage[c] <=> d \in DOMAIN reg.storage[c]
           /\ d \in DOMAIN reg.storage[c] => reg'.storage[c][d] = reg.storage[c][d]
    BY DEF Same
  <1>2. ASSUME NEW comps, Has(d, comps), "EntityTypeTag" \in DOMAIN comps
        PROVE  Has(d, comps)' /\ \A c \in DOMAIN comps \cap ComponentTypes :
                                     reg'.storage[c][d] = reg.storage[c][d]
    BY <1>1, <1>2 DEF Has, ComponentTypes
  <1>3. \A p : IsShip(d, p) => IsShip(d, p)'
    <2> SUFFICES ASSUME NEW p, IsShip(d, p) PROVE IsShip(d, p)'
      OBVIOUS
    <2>1. Has(d, PlayerComponents(p, 1))' /\ \A c \in Always \cup {"Health"} :
             reg'.storage[c][d] = reg.storage[c][d]
      BY <1>2, Components DEF IsShip, Always
    <2> QED BY <2>1 DEF IsShip, HealthOf, Always
  <1>4. IsEnemy(d) => IsEnemy(d)' /\ HealthOf(d)' = HealthOf(d)
    <2> SUFFICES ASSUME IsEnemy(d) PROVE IsEnemy(d)' /\ HealthOf(d)' = HealthOf(d)
      OBVIOUS
    <2>1. Has(d, EnemyComponents(1))' /\ \A c \in Always \cup {"Health"} :
             reg'.storage[c][d] = reg.storage[c][d]
      BY <1>2, Components DEF IsEnemy, Always
    <2> QED BY <2>1 DEF IsEnemy, HealthOf
  <1>5. IsBullet(d) => IsBullet(d)'
    <2> SUFFICES ASSUME IsBullet(d) PROVE IsBullet(d)'
      OBVIOUS
    <2>1. Has(d, BulletComponents(1, 1))' /\ \A c \in Always \cup {"Damage", "Lifetime"} :
             reg'.storage[c][d] = reg.storage[c][d]
      BY <1>2, Components DEF IsBullet, Always
    <2> QED BY <2>1 DEF IsBullet
  <1>6. d \in DOMAIN reg.storage.NetworkId => NetworkIdOf(d)' = NetworkIdOf(d)
    BY <1>1 DEF NetworkIdOf, ComponentTypes
  <1> QED BY <1>3, <1>4, <1>5, <1>6
-----------------------------------------------------------------------------
(* Steps that bring an entity into the world.                              *)

(* Every caller of spawn_entity() attaches a network id of its own.        *)
LEMMA Entered ==
  ASSUME Inv, Room, TakeNetworkId, NEW comps, NEW e, e = spawned_id(reg),
         reg' = create(reg, comps), Always \subseteq DOMAIN comps,
         DOMAIN comps \subseteq ComponentTypes, comps.NetworkId = nextNetworkId
  PROVE  /\ e \in Nat \ Live
         /\ Live' = Live \cup {e}
         /\ RegistryOK' /\ IdsOK'
         /\ \A d \in Live : Same(d)
         /\ NetworkIdOf(e)' = nextNetworkId
         /\ \A d \in Live : NetworkIdOf(d)' = NetworkIdOf(d) /\ NetworkIdOf(d) # nextNetworkId
         /\ \A c \in ComponentTypes : e \in DOMAIN reg'.storage[c] <=> c \in DOMAIN comps
         /\ \A c \in DOMAIN comps : reg'.storage[c][e] = comps[c]
  <1>1. /\ nextNetworkId \in 1 .. MaxEntities
        /\ nextNetworkId' = nextNetworkId + 1
        /\ RegistryOK
        /\ EntityShape
    BY EntityFacts, BoundAssumption DEF Inv, WorldOK, IdsOK, Room, TakeNetworkId
  <1>2. /\ e \in Nat \ Live
        /\ Live' = Live \cup {e}
        /\ RegistryOK'
        /\ \A d \in Live : Same(d)
        /\ \A c \in ComponentTypes : e \in DOMAIN reg'.storage[c] <=> c \in DOMAIN comps
        /\ \A c \in DOMAIN comps : reg'.storage[c][e] = comps[c]
    BY <1>1, BoundAssumption, Created
  <1>3. NetworkIdOf(e)' = nextNetworkId
    BY <1>2 DEF NetworkIdOf, Always
  <1>4. \A d \in Live : NetworkIdOf(d)' = NetworkIdOf(d) /\ NetworkIdOf(d) \in 1 .. nextNetworkId - 1
    BY <1>1, <1>2, StaysWhatItIs DEF EntityShape, Always, Inv, WorldOK, IdsOK
  <1>5. \A d \in Live : NetworkIdOf(d) # nextNetworkId
    BY <1>1, <1>4, BoundAssumption
  <1>6. IdsOK'
    <2>1. nextNetworkId' \in 1 .. MaxEntities + 1
      BY <1>1, BoundAssumption
    <2>2. \A d \in Live' : NetworkIdOf(d)' \in 1 .. nextNetworkId' - 1
      BY <1>1, <1>2, <1>3, <1>4, BoundAssumption
    <2>3. \A c, d \in Live' : NetworkIdOf(c)' = NetworkIdOf(d)' => c = d
      BY <1>2, <1>3, <1>4, <1>5 DEF Inv, WorldOK, IdsOK
    <2> QED BY <2>1, <2>2, <2>3 DEF IdsOK
  <1> QED BY <1>2, <1>3, <1>4, <1>5, <1>6

LEMMA ShipEnters ==
  ASSUME Inv, NEW p \in Players, onPlayerConnected(p)
  PROVE  Inv'
  <1> PICK e : e = spawned_id(reg)
    OBVIOUS
  <1> PICK comps : comps = PlayerComponents(p, nextNetworkId)
    OBVIOUS
  <1>0. /\ session[p] = "none" /\ Room
        /\ session' = [session EXCEPT ![p] = "connected"]
        /\ reg' = create(reg, comps) /\ TakeNetworkId
        /\ playerEntities' = insert_at(playerEntities, p, e)
        /\ UNCHANGED << enemyEntities, bulletEntities, timerVars, tickVars, announced >>
    BY DEF onPlayerConnected
  <1>1. /\ DOMAIN comps = Always \cup {"Health"}
        /\ DOMAIN comps \subseteq ComponentTypes
        /\ comps.NetworkId = nextNetworkId /\ comps.EntityTypeTag = "PLAYER"
        /\ comps.PlayerOwner = p /\ comps.Health = PLAYER_HEALTH
    BY Components
  <1>2. /\ e \in Nat \ Live
        /\ Live' = Live \cup {e}
        /\ RegistryOK' /\ IdsOK'
        /\ \A d \in Live : Same(d)
        /\ NetworkIdOf(e)' = nextNetworkId
        /\ \A d \in Live : NetworkIdOf(d)' = NetworkIdOf(d)
        /\ \A c \in ComponentTypes : e \in DOMAIN reg'.storage[c] <=> c \in DOMAIN comps
        /\ \A c \in DOMAIN comps : reg'.storage[c][e] = comps[c]
    BY <1>0, <1>1, Entered
  <1>3. EntityShape
    BY EntityFacts DEF Inv
  <1>4. /\ Enemies' = Enemies /\ Bullets' = Bullets
        /\ DOMAIN playerEntities' = DOMAIN playerEntities \cup {p}
        /\ p \notin DOMAIN playerEntities
        /\ playerEntities'[p] = e
        /\ \A q \in DOMAIN playerEntities : playerEntities'[q] = playerEntities[q]
    BY <1>0 DEF Enemies, Bullets, insert_at, Inv, WorldOK, ContainersOK
  <1>5. Range(playerEntities') = Range(playerEntities) \cup {e}
    BY <1>4 DEF Range
  <1>6. KindsOK'
    <2>1. IsShip(e, p)'
      <3>1. Has(e, PlayerComponents(p, 1))'
        BY <1>1, <1>2, Components DEF Has, Always
      <3> QED BY <1>1, <1>2, <3>1 DEF IsShip, HealthOf, Always
    <2>2. \A q \in DOMAIN playerEntities : IsShip(playerEntities[q], q)'
      <3> SUFFICES ASSUME NEW q \in DOMAIN playerEntities PROVE IsShip(playerEntities[q], q)'
        OBVIOUS
      <3>1. Same(playerEntities[q]) /\ IsShip(playerEntities[q], q)
        BY <1>2, <1>3 DEF EntityShape, Inv, WorldOK, KindsOK
      <3>2. PICK d : d = playerEntities[q]
        OBVIOUS
      <3>3. IsShip(d, q)' /\ playerEntities'[q] = d
        BY <1>4, <3>1, <3>2, StaysWhatItIs
      <3> QED BY <3>3
    <2>3. \A d \in Enemies : IsEnemy(d)'
      BY <1>2, <1>3, StaysWhatItIs DEF EntityShape, Inv, WorldOK, KindsOK
    <2>4. \A d \in Bullets : IsBullet(d)'
      BY <1>2, <1>3, StaysWhatItIs DEF EntityShape, Inv, WorldOK, KindsOK
    <2> QED BY <1>4, <2>1, <2>2, <2>3, <2>4 DEF KindsOK
  <1>7. /\ ContainersOK'
        /\ UdpReady' = UdpReady
        /\ \A q \in UdpReady : q \in DOMAIN playerEntities
        /\ \A q \in Players : session'[q] \in {"none", "connected"} =>
                                 session[q] \in {"none", "connected"}
    BY <1>0, <1>2, <1>4, <1>5 DEF Inv, WorldOK, ContainersOK, UdpReady, Enemies, Bullets
  <1>8. DoomOK'
    <2>1. \A d \in Enemies : HealthOf(d)' = HealthOf(d)
      BY <1>2, <1>3, StaysWhatItIs DEF EntityShape, Inv, WorldOK, KindsOK
    <2> QED BY <1>0, <1>4, <2>1 DEF Inv, DoomOK, tickVars, DeadEnemiesAreDoomed
  <1>9. ViewOK'
    <2>1. \A q \in UdpReady : playerEntities'[q] = playerEntities[q]
      BY <1>4, <1>7
    <2>2. Shown' = Shown /\ Shown \subseteq Live
      <3>1. {playerEntities'[q] : q \in UdpReady} = {playerEntities[q] : q \in UdpReady}
        BY <2>1
      <3>2. Shown' = Shown
        BY <1>4, <1>7, <3>1 DEF Shown
      <3>3. Shown \subseteq Live
        BY <1>3 DEF EntityShape
      <3> QED BY <3>2, <3>3
    <2>3. \A q \in UdpReady : \A d \in Shown : NetworkIdOf(d)' \in announced[q]
      BY <1>2, <2>2 DEF Inv, ViewOK
    <2>4. \A q \in UdpReady : \A n \in announced[q] : \E d \in Live : NetworkIdOf(d)' = n
      BY <1>2 DEF Inv, ViewOK
    <2> QED BY <1>0, <1>2, <1>7, <2>2, <2>3, <2>4 DEF Inv, ViewOK
  <1>10. TimersOK'
    BY <1>0 DEF Inv, TimersOK, timerVars
  <1> QED BY <1>2, <1>6, <1>7, <1>8, <1>9, <1>10 DEF Inv, WorldOK

(* An enemy or a bullet is announced to every client that is ready.        *)
LEMMA NewIsAnnounced ==
  ASSUME Inv, Room, NEW e, Live' = Live \cup {e}, Shown' = Shown \cup {e},
         NetworkIdOf(e)' = nextNetworkId,
         \A d \in Live : NetworkIdOf(d)' = NetworkIdOf(d),
         UNCHANGED session, SendSpawn({nextNetworkId})
  PROVE  ViewOK'
  <1>1. nextNetworkId \in 1 .. MaxEntities
    BY BoundAssumption DEF Inv, WorldOK, IdsOK, Room
  <1>2. /\ UdpReady' = UdpReady /\ UdpReady \subseteq Players
        /\ Shown \subseteq Live
        /\ \A p \in UdpReady : session[p] \notin {"none", "connected"}
    BY EntityFacts DEF UdpReady, Inv, EntityShape
  <1>3. /\ announced \in [Players -> SUBSET (1 .. MaxEntities)]
        /\ announced' = [p \in Players |->
              IF p \in UdpReady THEN announced[p] \cup {nextNetworkId} ELSE announced[p]]
    BY DEF Inv, ViewOK, SendSpawn
  <1>4. /\ announced' \in [Players -> SUBSET (1 .. MaxEntities)]
        /\ \A p \in UdpReady : announced'[p] = announced[p] \cup {nextNetworkId}
        /\ \A p \in Players \ UdpReady : announced'[p] = announced[p]
    BY <1>1, <1>2, <1>3
  <1>5. \A p \in Players : session'[p] \in {"none", "connected"} => announced'[p] = {}
    BY <1>2, <1>4 DEF Inv, ViewOK
  <1>6. \A p \in UdpReady : \A d \in Shown' : NetworkIdOf(d)' \in announced'[p]
    BY <1>2, <1>4 DEF Inv, ViewOK
  <1>7. \A p \in UdpReady : \A n \in announced'[p] : \E d \in Live' : NetworkIdOf(d)' = n
    BY <1>4 DEF Inv, ViewOK
  <1> QED BY <1>2, <1>4, <1>5, <1>6, <1>7 DEF ViewOK

LEMMA BulletEnters ==
  ASSUME Inv, NEW p \in Players, spawnBullet(p)
  PROVE  Inv'
  <1> PICK e : e = spawned_id(reg)
    OBVIOUS
  <1> PICK comps : comps = BulletComponents(p, nextNetworkId)
    OBVIOUS
  <1>0. /\ Room /\ reg' = create(reg, comps) /\ TakeNetworkId
        /\ bulletEntities' = Append(bulletEntities, e)
        /\ SendSpawn({nextNetworkId})
        /\ UNCHANGED << playerEntities, enemyEntities, timerVars, tickVars, session >>
    BY DEF spawnBullet
  <1>1. /\ DOMAIN comps = Always \cup {"Damage", "Lifetime"}
        /\ DOMAIN comps \subseteq ComponentTypes
        /\ comps.NetworkId = nextNetworkId /\ comps.EntityTypeTag = "BULLET_PLAYER"
        /\ comps.Damage = BULLET_DAMAGE /\ comps.Lifetime = BULLET_LIFETIME
    BY Components
  <1>2. /\ e \in Nat \ Live
        /\ Live' = Live \cup {e}
        /\ RegistryOK' /\ IdsOK'
        /\ \A d \in Live : Same(d)
        /\ NetworkIdOf(e)' = nextNetworkId
        /\ \A d \in Live : NetworkIdOf(d)' = NetworkIdOf(d)
        /\ \A c \in ComponentTypes : e \in DOMAIN reg'.storage[c] <=> c \in DOMAIN comps
        /\ \A c \in DOMAIN comps : reg'.storage[c][e] = comps[c]
    BY <1>0, <1>1, Entered
  <1>3. EntityShape
    BY EntityFacts DEF Inv
  <1>4. /\ Enemies' = Enemies /\ Bullets' = Bullets \cup {e}
        /\ playerEntities' = playerEntities
        /\ bulletEntities' \in Seq(Nat) /\ NoRepeat(bulletEntities')
    BY <1>0, <1>2, <1>3, Appended DEF Enemies, Bullets, Inv, WorldOK, ContainersOK, EntityShape
  <1>5. KindsOK'
    <2>1. IsBullet(e)'
      <3>1. Has(e, BulletComponents(1, 1))'
        BY <1>1, <1>2, Components DEF Has, Always
      <3> QED BY <1>1, <1>2, <3>1, TimesAssumption DEF IsBullet, Always
    <2>2. \A q \in DOMAIN playerEntities : IsShip(playerEntities[q], q)'
      <3> SUFFICES ASSUME NEW q \in DOMAIN playerEntities PROVE IsShip(playerEntities[q], q)'
        OBVIOUS
      <3>1. Same(playerEntities[q]) /\ IsShip(playerEntities[q], q)
        BY <1>2, <1>3 DEF EntityShape, Inv, WorldOK, KindsOK
      <3>2. PICK d : d = playerEntities[q]
        OBVIOUS
      <3>3. IsShip(d, q)' /\ playerEntities'[q] = d
        BY <1>4, <3>1, <3>2, StaysWhatItIs
      <3> QED BY <3>3
    <2>3. \A d \in Enemies : IsEnemy(d)'
      BY <1>2, <1>3, StaysWhatItIs DEF EntityShape, Inv, WorldOK, KindsOK
    <2>4. \A d \in Bullets : IsBullet(d)'
      BY <1>2, <1>3, StaysWhatItIs DEF EntityShape, Inv, WorldOK, KindsOK
    <2> QED BY <1>4, <2>1, <2>2, <2>3, <2>4 DEF KindsOK
  <1>6. ContainersOK'
    BY <1>0, <1>2, <1>4 DEF Inv, WorldOK, ContainersOK, Enemies, Bullets
  <1>7. DoomOK'
    <2>1. \A d \in Enemies : HealthOf(d)' = HealthOf(d)
      BY <1>2, <1>3, StaysWhatItIs DEF EntityShape, Inv, WorldOK, KindsOK
    <2> QED BY <1>0, <1>4, <2>1 DEF Inv, DoomOK, tickVars, DeadEnemiesAreDoomed
  <1>8. ViewOK'
    <2>1. Shown' = Shown \cup {e}
      BY <1>0, <1>4 DEF Shown, UdpReady
    <2> QED BY <1>0, <1>2, <2>1, NewIsAnnounced
  <1>9. TimersOK'
    BY <1>0 DEF Inv, TimersOK, timerVars
  <1> QED BY <1>2, <1>5, <1>6, <1>7, <1>8, <1>9 DEF Inv, WorldOK

LEMMA MinOfTwo ==
  ASSUME NEW a \in Nat, NEW b \in Nat
  PROVE  Min({a, b}) \in 0 .. b
  <1>1. \E x \in {a, b} : \A y \in {a, b} : x =< y
    OBVIOUS
  <1>2. /\ Min({a, b}) \in {a, b}
        /\ \A y \in {a, b} : Min({a, b}) =< y
    BY <1>1 DEF Min
  <1> QED BY <1>2

LEMMA SpawnPhaseStep ==
  ASSUME Inv, SpawnPhase
  PROVE  Inv'
  <1> PICK e : e = spawned_id(reg)
    OBVIOUS
  <1> PICK comps : comps = EnemyComponents(nextNetworkId)
    OBVIOUS
  <1>a. /\ phase = "spawn" /\ phase' = "lifetimes"
        /\ UNCHANGED << playerEntities, bulletEntities, deltaTime, unchecked, toDestroy, session >>
        /\ Bullets' = Bullets
    BY DEF SpawnPhase, Bullets
  <1>b. TimersOK'
    <2>1. /\ deltaTime \in Nat /\ enemySpawnTimer \in Nat /\ nextEnemySpawnTime \in Nat
          /\ MIN_ENEMY_SPAWN_INTERVAL \in Nat /\ MAX_ENEMY_SPAWN_INTERVAL \in Nat
      BY TimesAssumption DEF Inv, TimersOK
    <2>2. Min({enemySpawnTimer + deltaTime, nextEnemySpawnTime}) \in 0 .. nextEnemySpawnTime
      BY <2>1, MinOfTwo
    <2>3. CASE enemySpawnTimer + deltaTime >= nextEnemySpawnTime /\ Room
      <3>1. enemySpawnTimer' = 0 /\ deltaTime' = deltaTime
            /\ nextEnemySpawnTime' \in MIN_ENEMY_SPAWN_INTERVAL .. MAX_ENEMY_SPAWN_INTERVAL
        BY <2>3 DEF SpawnPhase
      <3>2. 0 \in 0 .. nextEnemySpawnTime'
        BY <2>1, <3>1
      <3> QED BY <3>1, <3>2 DEF Inv, TimersOK
    <2>4. CASE ~(enemySpawnTimer + deltaTime >= nextEnemySpawnTime /\ Room)
      <3>1. /\ enemySpawnTimer' = Min({enemySpawnTimer + deltaTime, nextEnemySpawnTime})
            /\ nextEnemySpawnTime' = nextEnemySpawnTime /\ deltaTime' = deltaTime
        BY <2>4 DEF SpawnPhase
      <3> QED BY <2>2, <3>1 DEF Inv, TimersOK
    <2> QED BY <2>3, <2>4
  <1>c. CASE UNCHANGED << reg, nextNetworkId, enemyEntities, announced >>
    <2>1. WorldOK'
      BY <1>a, <1>c DEF Inv, WorldOK, RegistryOK, Live, KindsOK, IsShip, IsEnemy, IsBullet, Has,
           HealthOf, Enemies, Bullets, IdsOK, NetworkIdOf, ContainersOK
    <2>2. DoomOK'
      BY <1>a, <1>c DEF Inv, DoomOK, DeadEnemiesAreDoomed, Enemies, HealthOf
    <2>3. ViewOK'
      BY <1>a, <1>c DEF Inv, ViewOK, Live, NetworkIdOf, Shown, UdpReady, Enemies, Bullets
    <2> QED BY <1>b, <2>1, <2>2, <2>3 DEF Inv
  <1>d. CASE spawnEnemy /\ Room
    <2>0. /\ Room /\ reg' = create(reg, comps) /\ TakeNetworkId
          /\ enemyEntities' = Append(enemyEntities, e)
          /\ SendSpawn({nextNetworkId})
      BY <1>d DEF spawnEnemy
    <2>1. /\ DOMAIN comps = Always \cup {"Health"}
          /\ DOMAIN comps \subseteq ComponentTypes
          /\ comps.NetworkId = nextNetworkId /\ comps.EntityTypeTag = "ENEMY"
          /\ comps.Health = ENEMY_HEALTH
      BY Components
    <2>2. /\ e \in Nat \ Live
          /\ Live' = Live \cup {e}
          /\ RegistryOK' /\ IdsOK'
          /\ \A d \in Live : Same(d)
          /\ NetworkIdOf(e)' = nextNetworkId
          /\ \A d \in Live : NetworkIdOf(d)' = NetworkIdOf(d)
          /\ \A c \in ComponentTypes : e \in DOMAIN reg'.storage[c] <=> c \in DOMAIN comps
          /\ \A c \in DOMAIN comps : reg'.storage[c][e] = comps[c]
      BY <2>0, <2>1, Entered
    <2>3. EntityShape
      BY EntityFacts DEF Inv
    <2>4. /\ Enemies' = Enemies \cup {e} /\ Bullets' = Bullets
          /\ playerEntities' = playerEntities
          /\ enemyEntities' \in Seq(Nat) /\ NoRepeat(enemyEntities')
      BY <1>a, <2>0, <2>2, <2>3, Appended DEF Enemies, Inv, WorldOK, ContainersOK, EntityShape
    <2>5. IsEnemy(e)' /\ HealthOf(e)' = ENEMY_HEALTH
      <3>1. Has(e, EnemyComponents(1))'
        BY <2>1, <2>2, Components DEF Has, Always
      <3>2. HealthOf(e)' = ENEMY_HEALTH
        BY <2>1, <2>2 DEF HealthOf
      <3> QED BY <3>1, <3>2 DEF IsEnemy
    <2>6. KindsOK'
      <3>2. \A q \in DOMAIN playerEntities : IsShip(playerEntities[q], q)'
        <4> SUFFICES ASSUME NEW q \in DOMAIN playerEntities PROVE IsShip(playerEntities[q], q)'
          OBVIOUS
        <4>1. Same(playerEntities[q]) /\ IsShip(playerEntities[q], q)
          BY <2>2, <2>3 DEF EntityShape, Inv, WorldOK, KindsOK
        <4>2. PICK d : d = playerEntities[q]
          OBVIOUS
        <4>3. IsShip(d, q)' /\ playerEntities'[q] = d
          BY <2>4, <4>1, <4>2, StaysWhatItIs
        <4> QED BY <4>3
      <3>3. \A d \in Enemies : IsEnemy(d)'
        BY <2>2, <2>3, StaysWhatItIs DEF EntityShape, Inv, WorldOK, KindsOK
      <3>4. \A d \in Bullets : IsBullet(d)'
        BY <2>2, <2>3, StaysWhatItIs DEF EntityShape, Inv, WorldOK, KindsOK
      <3> QED BY <2>4, <2>5, <3>2, <3>3, <3>4 DEF KindsOK
    <2>7. ContainersOK'
      BY <1>a, <2>2, <2>4 DEF Inv, WorldOK, ContainersOK, Enemies, Bullets
    <2>8. DoomOK'
      <3>1. \A d \in Enemies : HealthOf(d)' = HealthOf(d)
        BY <2>2, <2>3, StaysWhatItIs DEF EntityShape, Inv, WorldOK, KindsOK
      <3>2. toDestroy = << >> /\ toDestroy' = << >>
        BY <1>a DEF Inv, DoomOK
      <3>3. Range(<< >>) = {}
        BY DEF Range
      <3>4. \A d \in Enemies : HealthOf(d)' # 0
        BY <3>1, <3>2, <3>3 DEF Inv, DoomOK, DeadEnemiesAreDoomed
      <3>5. HealthOf(e)' # 0
        BY <2>5 DEF ENEMY_HEALTH
      <3>6. DeadEnemiesAreDoomed'
        BY <2>4, <3>2, <3>3, <3>4, <3>5 DEF DeadEnemiesAreDoomed
      <3> QED BY <1>a, <2>4, <3>2, <3>3, <3>6 DEF Inv, DoomOK
    <2>9. ViewOK'
      <3>1. Shown' = Shown \cup {e}
        BY <1>a, <2>0, <2>4 DEF Shown, UdpReady
      <3> QED BY <1>a, <2>0, <2>2, <3>1, NewIsAnnounced
    <2> QED BY <1>b, <2>2, <2>6, <2>7, <2>8, <2>9 DEF Inv, WorldOK
  <1> QED BY <1>c, <1>d DEF SpawnPhase
-----------------------------------------------------------------------------
(* Steps that take an entity out of the world.                             *)

LEMMA LeavesOK ==
  ASSUME Inv, NEW e \in Live, reg' = kill_entity(reg, e), nextNetworkId' = nextNetworkId
  PROVE  /\ Live' = Live \ {e}
         /\ RegistryOK' /\ IdsOK'
         /\ \A d \in Live' : Same(d)
         /\ \A d \in Live' : NetworkIdOf(d)' = NetworkIdOf(d) /\ NetworkIdOf(d) # NetworkIdOf(e)
  <1>1. nextNetworkId \in Nat \ {0} /\ RegistryOK /\ EntityShape
    BY EntityFacts, BoundAssumption DEF Inv, WorldOK, IdsOK
  <1>2. /\ Live' = Live \ {e}
        /\ RegistryOK'
        /\ \A d \in Live' : Same(d)
    BY <1>1, Killed
  <1>3. \A d \in Live' : NetworkIdOf(d)' = NetworkIdOf(d)
    BY <1>1, <1>2, StaysWhatItIs DEF EntityShape, Always
  <1>4. \A d \in Live' : NetworkIdOf(d) # NetworkIdOf(e)
    BY <1>2 DEF Inv, WorldOK, IdsOK
  <1>5. IdsOK'
    BY <1>2, <1>3 DEF Inv, WorldOK, IdsOK
  <1> QED BY <1>2, <1>3, <1>4, <1>5

(* Every ready client is told that it is gone.                             *)
LEMMA GoneIsAnnounced ==
  ASSUME Inv, NEW e \in Live, Live' = Live \ {e}, Shown' \subseteq Shown \ {e},
         \A d \in Live' : NetworkIdOf(d)' = NetworkIdOf(d) /\ NetworkIdOf(d) # NetworkIdOf(e),
         SendDestroy({NetworkIdOf(e)}), UdpReady' \subseteq UdpReady,
         \A p \in Players : session'[p] \in {"none", "connected"} => session'[p] = session[p]
  PROVE  ViewOK'
  <1>1. UdpReady \subseteq Players /\ Shown \subseteq Live
    BY EntityFacts DEF UdpReady, Inv, EntityShape
  <1>2. /\ announced \in [Players -> SUBSET (1 .. MaxEntities)]
        /\ announced' = [p \in Players |->
              IF p \in UdpReady THEN announced[p] \ {NetworkIdOf(e)} ELSE announced[p]]
    BY DEF Inv, ViewOK, SendDestroy
  <1>3. /\ announced' \in [Players -> SUBSET (1 .. MaxEntities)]
        /\ \A p \in UdpReady : announced'[p] = announced[p] \ {NetworkIdOf(e)}
        /\ \A p \in Players : announced'[p] \subseteq announced[p]
    BY <1>1, <1>2
  <1>4. \A p \in Players : session'[p] \in {"none", "connected"} => announced'[p] = {}
    BY <1>3 DEF Inv, ViewOK
  <1>5. \A p \in UdpReady' : \A d \in Shown' : NetworkIdOf(d)' \in announced'[p]
    BY <1>1, <1>3 DEF Inv, ViewOK
  <1>6. \A p \in UdpReady' : \A n \in announced'[p] : \E d \in Live' : NetworkIdOf(d)' = n
    <2> SUFFICES ASSUME NEW p \in UdpReady', NEW n \in announced'[p]
                 PROVE  \E d \in Live' : NetworkIdOf(d)' = n
      OBVIOUS
    <2>1. n \in announced[p] /\ n # NetworkIdOf(e)
      BY <1>1, <1>3
    <2>2. PICK d \in Live : NetworkIdOf(d) = n
      BY <2>1 DEF Inv, ViewOK
    <2>3. d \in Live'
      BY <2>1, <2>2
    <2> QED BY <2>2, <2>3
  <1> QED BY <1>3, <1>4, <1>5, <1>6 DEF ViewOK

LEMMA ShipLeaves ==
  ASSUME Inv, NEW p \in Players, onPlayerDisconnected(p)
  PROVE  Inv'
  <1> PICK e : e = playerEntities[p]
    OBVIOUS
  <1>0. /\ session[p] \in {"connected", "ready"}
        /\ session' = [session EXCEPT ![p] = "gone"]
        /\ reg' = kill_entity(reg, e)
        /\ playerEntities' = erase(playerEntities, p)
        /\ SendDestroy({NetworkIdOf(e)})
        /\ UNCHANGED << enemyEntities, bulletEntities, nextNetworkId, timerVars, tickVars >>
    BY DEF onPlayerDisconnected
  <1>1. EntityShape
    BY EntityFacts DEF Inv
  <1>2. /\ p \in DOMAIN playerEntities
        /\ e \in Live /\ e \in Range(playerEntities)
        /\ e \notin Enemies /\ e \notin Bullets
    BY <1>0, <1>1 DEF EntityShape, Inv, WorldOK, ContainersOK
  <1>3. /\ Live' = Live \ {e}
        /\ RegistryOK' /\ IdsOK'
        /\ \A d \in Live' : Same(d)
        /\ \A d \in Live' : NetworkIdOf(d)' = NetworkIdOf(d) /\ NetworkIdOf(d) # NetworkIdOf(e)
    BY <1>0, <1>2, LeavesOK
  <1>4. /\ Enemies' = Enemies /\ Bullets' = Bullets
        /\ DOMAIN playerEntities' = DOMAIN playerEntities \ {p}
        /\ \A q \in DOMAIN playerEntities' : playerEntities'[q] = playerEntities[q]
    BY <1>0 DEF Enemies, Bullets, erase, Restrict
  <1>5. Range(playerEntities') = Range(playerEntities) \ {e}
    <2>1. \A q \in DOMAIN playerEntities \ {p} : playerEntities[q] # e
      BY <1>1, <1>2 DEF EntityShape
    <2> QED BY <1>2, <1>4, <2>1 DEF Range
  <1>6. KindsOK'
    <2>1. ASSUME NEW q \in DOMAIN playerEntities' PROVE IsShip(playerEntities[q], q)'
      <3>1. PICK d : d = playerEntities[q]
        OBVIOUS
      <3>2. d \in Range(playerEntities) /\ d # e
        BY <1>1, <1>2, <1>4, <3>1 DEF EntityShape
      <3>3. Same(d) /\ IsShip(d, q)
        BY <1>1, <1>3, <1>4, <3>1, <3>2 DEF EntityShape, Inv, WorldOK, KindsOK
      <3>4. IsShip(d, q)' /\ playerEntities'[q] = d
        BY <1>4, <3>1, <3>3, StaysWhatItIs
      <3> QED BY <3>4
    <2>2. \A d \in Enemies : IsEnemy(d)'
      BY <1>1, <1>2, <1>3, StaysWhatItIs DEF EntityShape, Inv, WorldOK, KindsOK
    <2>3. \A d \in Bullets : IsBullet(d)'
      BY <1>1, <1>2, <1>3, StaysWhatItIs DEF EntityShape, Inv, WorldOK, KindsOK
    <2> QED BY <1>4, <2>1, <2>2, <2>3 DEF KindsOK
  <1>7. /\ session \in [Players -> {"none", "connected", "ready", "gone"}]
        /\ session' \in [Players -> {"none", "connected", "ready", "gone"}]
        /\ session'[p] = "gone"
        /\ \A q \in Players \ {p} : session'[q] = session[q]
        /\ UdpReady' = UdpReady \ {p}
    BY <1>0 DEF Inv, WorldOK, ContainersOK, UdpReady
  <1>8. ContainersOK'
    <2>1. DOMAIN playerEntities' = {q \in Players : session'[q] \in {"connected", "ready"}}
      BY <1>4, <1>7 DEF Inv, WorldOK, ContainersOK
    <2> QED BY <1>0, <1>2, <1>3, <1>4, <1>5, <1>7, <2>1 DEF Inv, WorldOK, ContainersOK
  <1>9. DoomOK'
    <2>1. \A d \in Enemies : HealthOf(d)' = HealthOf(d)
      BY <1>1, <1>2, <1>3, StaysWhatItIs DEF EntityShape, Inv, WorldOK, KindsOK
    <2> QED BY <1>0, <1>4, <2>1 DEF Inv, DoomOK, tickVars, DeadEnemiesAreDoomed
  <1>10. ViewOK'
    <2>1. \A q \in UdpReady' : playerEntities'[q] = playerEntities[q] /\ playerEntities[q] # e
      BY <1>1, <1>2, <1>4, <1>7 DEF EntityShape
    <2>2. Shown' \subseteq Shown \ {e}
      BY <1>2, <1>4, <1>7, <2>1 DEF Shown
    <2> QED BY <1>0, <1>2, <1>3, <1>7, <2>2, GoneIsAnnounced
  <1>11. TimersOK'
    BY <1>0 DEF Inv, TimersOK, timerVars
  <1> QED BY <1>3, <1>6, <1>8, <1>9, <1>10, <1>11 DEF Inv, WorldOK

(* destroyEntity of a doomed enemy or bullet (GameServer.cpp:741-786).     *)
LEMMA DoomedLeaves ==
  ASSUME Inv, destroyEntity
  PROVE  Inv'
  <1> PICK e : e = Head(toDestroy)
    OBVIOUS
  <1>1. EntityShape
    BY EntityFacts DEF Inv
  <1>2. /\ toDestroy \in Seq(Nat) /\ toDestroy # << >> /\ NoRepeat(toDestroy)
        /\ Range(toDestroy) \subseteq Enemies \cup Bullets
        /\ phase \in {"expire", "destroy"}
    BY DEF destroyEntity, Inv, DoomOK
  <1>3. /\ e \in Range(toDestroy) /\ e \notin Range(Tail(toDestroy))
        /\ Range(toDestroy) = Range(Tail(toDestroy)) \cup {e}
        /\ Tail(toDestroy) \in Seq(Nat) /\ NoRepeat(Tail(toDestroy))
    BY <1>2, Beheaded
  <1>4. /\ e \in Live /\ e \in Enemies \cup Bullets /\ e \notin Range(playerEntities)
        /\ e \in DOMAIN reg.storage.NetworkId
    BY <1>1, <1>2, <1>3 DEF EntityShape, Always
  <1>5. /\ enemyEntities' = Without(enemyEntities, e)
        /\ bulletEntities' = Without(bulletEntities, e)
        /\ reg' = kill_entity(reg, e)
        /\ SendDestroy({NetworkIdOf(e)})
        /\ toDestroy' = Tail(toDestroy)
        /\ UNCHANGED << playerEntities, nextNetworkId, timerVars, phase, unchecked, session >>
    BY <1>4 DEF destroyEntity
  <1>6. /\ Live' = Live \ {e}
        /\ RegistryOK' /\ IdsOK'
        /\ \A d \in Live' : Same(d)
        /\ \A d \in Live' : NetworkIdOf(d)' = NetworkIdOf(d) /\ NetworkIdOf(d) # NetworkIdOf(e)
    BY <1>4, <1>5, LeavesOK
  <1>7. /\ Enemies' = Enemies \ {e} /\ Bullets' = Bullets \ {e}
        /\ enemyEntities' \in Seq(Nat) /\ NoRepeat(enemyEntities')
        /\ bulletEntities' \in Seq(Nat) /\ NoRepeat(bulletEntities')
        /\ playerEntities' = playerEntities
    BY <1>5, Removed DEF Inv, WorldOK, ContainersOK, Enemies, Bullets
  <1>8. KindsOK'
    <2>1. ASSUME NEW q \in DOMAIN playerEntities PROVE IsShip(playerEntities[q], q)'
      <3>1. PICK d : d = playerEntities[q]
        OBVIOUS
      <3>2. d \in Range(playerEntities) /\ d # e
        BY <1>1, <1>4, <3>1 DEF EntityShape
      <3>3. Same(d) /\ IsShip(d, q)
        BY <1>1, <1>6, <3>1, <3>2 DEF EntityShape, Inv, WorldOK, KindsOK
      <3>4. IsShip(d, q)' /\ playerEntities'[q] = d
        BY <1>7, <3>1, <3>3, StaysWhatItIs
      <3> QED BY <3>4
    <2>2. \A d \in Enemies' : IsEnemy(d)'
      BY <1>1, <1>6, <1>7, StaysWhatItIs DEF EntityShape, Inv, WorldOK, KindsOK
    <2>3. \A d \in Bullets' : IsBullet(d)'
      BY <1>1, <1>6, <1>7, StaysWhatItIs DEF EntityShape, Inv, WorldOK, KindsOK
    <2> QED BY <1>7, <2>1, <2>2, <2>3 DEF KindsOK
  <1>9. ContainersOK'
    <2>1. Range(playerEntities') \cup Enemies' \cup Bullets' = Live'
      BY <1>4, <1>6, <1>7 DEF Inv, WorldOK, ContainersOK
    <2> QED BY <1>5, <1>7, <2>1 DEF Inv, WorldOK, ContainersOK
  <1>10. DoomOK'
    <2>1. \A d \in Enemies' : HealthOf(d)' = HealthOf(d)
      BY <1>1, <1>6, <1>7, StaysWhatItIs DEF EntityShape, Inv, WorldOK, KindsOK
    <2>2. DeadEnemiesAreDoomed'
      BY <1>3, <1>5, <1>7, <2>1 DEF Inv, DoomOK, DeadEnemiesAreDoomed
    <2>3. /\ unchecked' = << >> /\ unchecked' \in Seq(Nat) /\ NoRepeat(unchecked')
          /\ Range(unchecked') \subseteq Bullets' \ Range(toDestroy')
      <3>1. unchecked = << >> /\ Range(<< >>) = {}
        BY <1>2 DEF Inv, DoomOK, Range
      <3> QED BY <1>5, <3>1 DEF Inv, DoomOK
    <2>4. phase' \in {"expire", "destroy"} /\ phase' = phase
      BY <1>2, <1>5
    <2>5. Range(toDestroy') \subseteq Enemies' \cup Bullets'
      BY <1>2, <1>3, <1>5, <1>7
    <2>6. phase' = "expire" => Range(toDestroy') \subseteq Bullets'
      BY <1>3, <1>5, <1>7, <2>4 DEF Inv, DoomOK
    <2> QED BY <1>3, <1>5, <2>2, <2>3, <2>4, <2>5, <2>6 DEF DoomOK
  <1>11. ViewOK'
    <2>1. \A q \in UdpReady : playerEntities[q] # e
      BY <1>1, <1>4 DEF EntityShape
    <2>2. Shown' \subseteq Shown \ {e} /\ UdpReady' = UdpReady
      BY <1>5, <1>7, <2>1 DEF Shown, UdpReady
    <2> QED BY <1>4, <1>5, <1>6, <2>2, GoneIsAnnounced
  <1>12. TimersOK'
    BY <1>5 DEF Inv, TimersOK, timerVars
  <1> QED BY <1>6, <1>8, <1>9, <1>10, <1>11, <1>12 DEF Inv, WorldOK
-----------------------------------------------------------------------------
(* Steps that change no entity, or one component of some.                  *)

LEMMA FirstPacket ==
  ASSUME Inv, NEW p \in Players, onPlayerUdpReady(p)
  PROVE  Inv'
  <1> PICK e : e = playerEntities[p]
    OBVIOUS
  <1>0. /\ session[p] = "connected"
        /\ session' = [session EXCEPT ![p] = "ready"]
        /\ announced' = [q \in Players |->
              CASE q = p           -> announced[p] \cup SpawnNotices(Everything)
                [] q \in UdpReady  -> announced[q] \cup SpawnNotices({e})
                [] OTHER           -> announced[q]]
        /\ UNCHANGED << worldVars, timerVars, tickVars >>
    BY DEF onPlayerUdpReady
  <1>1. EntityShape
    BY EntityFacts DEF Inv
  <1>2. p \in DOMAIN playerEntities /\ e \in Live
    BY <1>0, <1>1 DEF EntityShape, Inv, WorldOK, ContainersOK
  <1>3. \A S \in SUBSET Live : SpawnNotices(S) = {NetworkIdOf(d) : d \in S}
    <2> SUFFICES ASSUME NEW S \in SUBSET Live
                 PROVE  SpawnNotices(S) = {NetworkIdOf(d) : d \in S}
      OBVIOUS
    <2>1. {d \in S : \A c \in {"NetworkId", "Position", "Velocity", "EntityTypeTag",
                               "PlayerOwner"} : d \in DOMAIN reg.storage[c]} = S
      BY <1>1 DEF EntityShape, Always
    <2> QED BY <2>1 DEF SpawnNotices
  <1>4. Everything = Live
    BY DEF Everything, Inv, WorldOK, ContainersOK, Enemies, Bullets
  <1>5. /\ SpawnNotices(Everything) = {NetworkIdOf(d) : d \in Live}
        /\ SpawnNotices({e}) = {NetworkIdOf(e)}
    <2>1. {e} \in SUBSET Live /\ Live \in SUBSET Live
      BY <1>2
    <2>2. SpawnNotices({e}) = {NetworkIdOf(d) : d \in {e}}
      BY <1>3, <2>1
    <2> QED BY <1>3, <1>4, <2>1, <2>2
  <1>6. /\ session \in [Players -> {"none", "connected", "ready", "gone"}]
        /\ session' \in [Players -> {"none", "connected", "ready", "gone"}]
        /\ session'[p] = "ready"
        /\ \A q \in Players \ {p} : session'[q] = session[q]
        /\ UdpReady' = UdpReady \cup {p} /\ p \notin UdpReady /\ UdpReady \subseteq Players
    BY <1>0 DEF Inv, WorldOK, ContainersOK, UdpReady
  <1>7. /\ UNCHANGED << reg, playerEntities, enemyEntities, bulletEntities, nextNetworkId >>
        /\ Live' = Live /\ Enemies' = Enemies /\ Bullets' = Bullets
        /\ Shown' = Shown \cup {e}
        /\ \A d \in Live : NetworkIdOf(d)' = NetworkIdOf(d)
        /\ \A d : HealthOf(d)' = HealthOf(d)
    <2>1. UNCHANGED << reg, playerEntities, enemyEntities, bulletEntities, nextNetworkId >>
      BY <1>0 DEF worldVars
    <2>2. Enemies' = Enemies /\ Bullets' = Bullets
      BY <2>1 DEF Enemies, Bullets
    <2>3. Shown' = Shown \cup {e}
      <3>1. \A q \in UdpReady' : playerEntities'[q] = playerEntities[q]
        BY <2>1
      <3>2. {playerEntities'[q] : q \in UdpReady'} =
              {playerEntities[q] : q \in UdpReady} \cup {e}
        <4>1. playerEntities[p] = e
          OBVIOUS
        <4> QED BY <1>6, <3>1, <4>1
      <3> QED BY <2>2, <3>2 DEF Shown
    <2>4. Live' = Live
      BY <2>1 DEF Live
    <2>5. \A d \in Live : NetworkIdOf(d)' = NetworkIdOf(d)
      BY <2>1 DEF NetworkIdOf
    <2>6. \A d : HealthOf(d)' = HealthOf(d)
      BY <2>1 DEF HealthOf
    <2> QED BY <2>1, <2>2, <2>3, <2>4, <2>5, <2>6
  <1>8. WorldOK'
    <2>1. RegistryOK' /\ KindsOK' /\ IdsOK'
      BY <1>7 DEF Inv, WorldOK, RegistryOK, KindsOK, IdsOK, IsShip, IsEnemy, IsBullet, Has,
                  NetworkIdOf, HealthOf
    <2>2. DOMAIN playerEntities = {q \in Players : session'[q] \in {"connected", "ready"}}
      BY <1>0, <1>6 DEF Inv, WorldOK, ContainersOK
    <2>3. ContainersOK'
      BY <1>6, <1>7, <2>2 DEF Inv, WorldOK, ContainersOK
    <2> QED BY <2>1, <2>3 DEF WorldOK
  <1>9. DoomOK'
    BY <1>0, <1>7 DEF Inv, DoomOK, tickVars, DeadEnemiesAreDoomed
  <1>10. ViewOK'
    <2>1. /\ announced'[p] = announced[p] \cup {NetworkIdOf(d) : d \in Live}
          /\ \A q \in UdpReady : announced'[q] = announced[q] \cup {NetworkIdOf(e)}
          /\ \A q \in Players : q # p /\ q \notin UdpReady => announced'[q] = announced[q]
      BY <1>0, <1>5, <1>6
    <2>2. \A d \in Live : NetworkIdOf(d) \in 1 .. MaxEntities
      BY BoundAssumption DEF Inv, WorldOK, IdsOK
    <2>3. announced' \in [Players -> SUBSET (1 .. MaxEntities)]
      <3>1. {NetworkIdOf(d) : d \in Live} \subseteq 1 .. MaxEntities
        BY <2>2
      <3>2. \A q \in Players : announced[q] \subseteq 1 .. MaxEntities
        BY DEF Inv, ViewOK
      <3>3. \A q \in Players : announced'[q] \subseteq 1 .. MaxEntities
        BY <1>2, <2>1, <2>2, <3>1, <3>2
      <3> QED BY <1>0, <3>3
    <2>4. \A q \in Players : session'[q] \in {"none", "connected"} => announced'[q] = {}
      <3> SUFFICES ASSUME NEW q \in Players, session'[q] \in {"none", "connected"}
                   PROVE  announced'[q] = {}
        OBVIOUS
      <3>1. q # p /\ session[q] \in {"none", "connected"}
        BY <1>6
      <3>2. q \notin UdpReady
        BY <3>1 DEF UdpReady
      <3> QED BY <2>1, <3>1, <3>2 DEF Inv, ViewOK
    <2>5. \A q \in UdpReady' : \A d \in Shown' : NetworkIdOf(d)' \in announced'[q]
      <3>1. Shown \subseteq Live
        BY <1>1 DEF EntityShape
      <3>2. \A d \in Shown' : d \in Live /\ NetworkIdOf(d)' = NetworkIdOf(d)
        BY <1>2, <1>7, <3>1
      <3>3. \A d \in Shown' : NetworkIdOf(d) \in announced'[p]
        BY <2>1, <3>2
      <3>4. \A q \in UdpReady : \A d \in Shown' : NetworkIdOf(d) \in announced'[q]
        BY <1>7, <2>1 DEF Inv, ViewOK
      <3> QED BY <1>6, <3>2, <3>3, <3>4
    <2>6. \A q \in UdpReady' : \A n \in announced'[q] : \E d \in Live' : NetworkIdOf(d)' = n
      <3>1. announced[p] = {}
        BY <1>0 DEF Inv, ViewOK
      <3>2. \A n \in announced'[p] : \E d \in Live : NetworkIdOf(d) = n
        BY <2>1, <3>1
      <3>3. \A q \in UdpReady : \A n \in announced'[q] : \E d \in Live : NetworkIdOf(d) = n
        BY <1>2, <2>1 DEF Inv, ViewOK
      <3>4. \A q \in UdpReady' : \A n \in announced'[q] : \E d \in Live : NetworkIdOf(d) = n
        BY <1>6, <3>2, <3>3
      <3> QED BY <1>7, <3>4
    <2> QED BY <2>3, <2>4, <2>5, <2>6 DEF ViewOK
  <1>11. TimersOK'
    BY <1>0 DEF Inv, TimersOK, timerVars
  <1> QED BY <1>8, <1>9, <1>10, <1>11 DEF Inv

(* Values of one component type change, nobody's components do.            *)
LEMMA ValuesChange ==
  ASSUME WorldOK, NEW c \in {"Health", "Lifetime"}, NEW f, DOMAIN f = DOMAIN reg.storage[c],
         reg' = [reg EXCEPT !.storage[c] = f], nextNetworkId' = nextNetworkId
  PROVE  /\ Live' = Live
         /\ RegistryOK' /\ IdsOK'
         /\ \A b \in ComponentTypes \ {c} : reg'.storage[b] = reg.storage[b]
         /\ reg'.storage[c] = f
         /\ \A d : NetworkIdOf(d)' = NetworkIdOf(d)
         /\ \A d : d \notin DOMAIN f => Same(d)
         /\ \A d : \A comps : Has(d, comps) => Has(d, comps)'
  <1>1. c \in ComponentTypes /\ RegistryOK /\ IdsOK
    BY DEF ComponentTypes, WorldOK
  <1>2. /\ DOMAIN reg' = DOMAIN reg
        /\ reg'.next_id = reg.next_id /\ reg'.free_ids = reg.free_ids
        /\ reg'.alive_count = reg.alive_count
        /\ DOMAIN reg'.storage = ComponentTypes
        /\ \A b \in ComponentTypes \ {c} : reg'.storage[b] = reg.storage[b]
        /\ reg'.storage[c] = f
    BY <1>1 DEF RegistryOK
  <1>3. Live' = Live
    BY <1>2 DEF Live
  <1>4. RegistryOK'
    BY <1>1, <1>2, <1>3 DEF RegistryOK
  <1>5. \A d : NetworkIdOf(d)' = NetworkIdOf(d)
    BY <1>2 DEF NetworkIdOf, ComponentTypes
  <1>6. IdsOK'
    BY <1>1, <1>3, <1>5 DEF IdsOK
  <1>7. \A d : d \notin DOMAIN f => Same(d)
    BY <1>2 DEF Same
  <1>8. \A d : \A comps : Has(d, comps) => Has(d, comps)'
    BY <1>2 DEF Has, ComponentTypes
  <1> QED BY <1>2, <1>3, <1>4, <1>5, <1>6, <1>7, <1>8

(* ViewOK speaks of network ids only.                                      *)
LEMMA SameView ==
  ASSUME ViewOK, Live' = Live, \A d : NetworkIdOf(d)' = NetworkIdOf(d),
         UNCHANGED << playerEntities, enemyEntities, bulletEntities, session, announced >>
  PROVE  ViewOK'
  <1>1. Shown' = Shown /\ UdpReady' = UdpReady
    BY DEF Shown, UdpReady, Enemies, Bullets
  <1> QED BY <1>1 DEF ViewOK

LEMMA LifetimesStep ==
  ASSUME Inv, updateLifetimes
  PROVE  Inv'
  <1> PICK f : f = [e \in DOMAIN reg.storage.Lifetime |->
                      IF reg.storage.Lifetime[e] <= deltaTime THEN 0
                      ELSE reg.storage.Lifetime[e] - deltaTime]
    OBVIOUS
  <1>0. /\ phase = "lifetimes" /\ phase' = "expire"
        /\ toDestroy' = Ascending(Expired)
        /\ UNCHANGED << playerEntities, enemyEntities, bulletEntities, nextNetworkId,
                        timerVars, unchecked, session, announced >>
    BY DEF updateLifetimes
  <1>1. reg' = [reg EXCEPT !.storage["Lifetime"] = f] /\ DOMAIN f = DOMAIN reg.storage.Lifetime
    BY DEF updateLifetimes
  <1>2. EntityShape /\ WorldOK
    BY EntityFacts DEF Inv
  <1>3. /\ Live' = Live
        /\ RegistryOK' /\ IdsOK'
        /\ \A b \in ComponentTypes \ {"Lifetime"} : reg'.storage[b] = reg.storage[b]
        /\ reg'.storage.Lifetime = f
        /\ \A d : NetworkIdOf(d)' = NetworkIdOf(d)
        /\ \A d : d \notin DOMAIN f => Same(d)
        /\ \A d : \A comps : Has(d, comps) => Has(d, comps)'
    BY <1>0, <1>1, <1>2, ValuesChange
  <1>4. DOMAIN f = Bullets /\ Bullets \cap Enemies = {} /\ IsFiniteSet(Bullets)
    <2>1. "Lifetime" \in ComponentTypes
      BY DEF ComponentTypes
    <2>2. DOMAIN reg.storage.Lifetime \subseteq Live
      BY <2>1 DEF Inv, WorldOK, RegistryOK
    <2>3. DOMAIN reg.storage.Lifetime = Bullets
      BY <1>2, <2>2 DEF EntityShape
    <2>4. IsFiniteSet(Bullets)
      BY <1>2, FS_Subset DEF EntityShape
    <2> QED BY <1>1, <1>2, <2>3, <2>4 DEF EntityShape
  <1>5. Enemies' = Enemies /\ Bullets' = Bullets /\ playerEntities' = playerEntities
    BY <1>0 DEF Enemies, Bullets
  <1>6. KindsOK'
    <2>1. ASSUME NEW q \in DOMAIN playerEntities PROVE IsShip(playerEntities[q], q)'
      <3>1. PICK d : d = playerEntities[q]
        OBVIOUS
      <3>2. d \in Range(playerEntities) /\ d \notin Bullets
        BY <1>2, <3>1 DEF EntityShape
      <3>3. Same(d) /\ IsShip(d, q)
        BY <1>2, <1>3, <1>4, <3>1, <3>2 DEF WorldOK, KindsOK
      <3>4. IsShip(d, q)' /\ playerEntities'[q] = d
        BY <1>5, <3>1, <3>3, StaysWhatItIs
      <3> QED BY <3>4
    <2>2. \A d \in Enemies : IsEnemy(d)'
      BY <1>3, <1>4, StaysWhatItIs DEF Inv, WorldOK, KindsOK
    <2>3. ASSUME NEW d \in Bullets PROVE IsBullet(d)'
      <3>1. IsBullet(d)
        BY DEF Inv, WorldOK, KindsOK
      <3>2. Has(d, BulletComponents(1, 1))'
        BY <1>3, <3>1 DEF IsBullet
      <3>3. reg'.storage.Damage[d] = BULLET_DAMAGE
        BY <1>3, <3>1 DEF IsBullet, ComponentTypes
      <3>4. /\ reg.storage.Lifetime[d] \in 0 .. BULLET_LIFETIME
            /\ deltaTime \in Nat /\ BULLET_LIFETIME \in Nat
        BY <3>1, TimesAssumption DEF IsBullet, Inv, TimersOK
      <3>5. reg'.storage.Lifetime[d] = IF reg.storage.Lifetime[d] <= deltaTime THEN 0
                                       ELSE reg.storage.Lifetime[d] - deltaTime
        BY <1>3, <1>4
      <3>6. reg'.storage.Lifetime[d] \in 0 .. BULLET_LIFETIME
        BY <3>4, <3>5
      <3> QED BY <3>2, <3>3, <3>6 DEF IsBullet
    <2> QED BY <1>5, <2>1, <2>2, <2>3 DEF KindsOK
  <1>7. ContainersOK'
    BY <1>0, <1>3, <1>5 DEF Inv, WorldOK, ContainersOK
  <1>8. DoomOK'
    <2>1. Expired \in SUBSET Nat /\ IsFiniteSet(Expired) /\ Expired \subseteq Bullets
      <3>1. Expired \subseteq Bullets /\ Bullets \subseteq Nat
        BY <1>1, <1>2, <1>4 DEF Expired, EntityShape
      <3> QED BY <1>4, <3>1, FS_Subset
    <2>2. /\ toDestroy' \in Seq(Expired) /\ NoRepeat(toDestroy') /\ Range(toDestroy') = Expired
      BY <1>0, <2>1, Sorted
    <2>3. toDestroy' \in Seq(Nat)
      BY <2>1, <2>2, InSeq
    <2>4. \A d \in Enemies : HealthOf(d)' = HealthOf(d)
      BY <1>3 DEF HealthOf, ComponentTypes
    <2>5. Range(toDestroy) = {} /\ unchecked' = << >>
      <3>1. toDestroy = << >> /\ unchecked = << >>
        BY <1>0 DEF Inv, DoomOK
      <3> QED BY <1>0, <3>1 DEF Range
    <2>6. Range(unchecked') = {}
      BY <2>5 DEF Range
    <2>7. DeadEnemiesAreDoomed'
      <3>1. \A d \in Enemies : HealthOf(d) # 0
        BY <2>5 DEF Inv, DoomOK, DeadEnemiesAreDoomed
      <3>2. \A d \in Enemies : d \notin Range(toDestroy')
        BY <1>4, <2>1, <2>2
      <3> QED BY <1>5, <2>4, <3>1, <3>2 DEF DeadEnemiesAreDoomed
    <2>8. unchecked' \in Seq(Nat) /\ NoRepeat(unchecked')
      BY <1>0 DEF Inv, DoomOK
    <2> QED BY <1>0, <1>5, <2>1, <2>2, <2>3, <2>5, <2>6, <2>7, <2>8 DEF DoomOK
  <1>9. ViewOK'
    BY <1>0, <1>3, SameView DEF Inv
  <1>10. TimersOK'
    BY <1>0 DEF Inv, TimersOK, timerVars
  <1> QED BY <1>3, <1>6, <1>7, <1>8, <1>9, <1>10 DEF Inv, WorldOK
(* Steps of the game thread that leave the world alone.                    *)
LEMMA SameWorld ==
  ASSUME Inv, UNCHANGED << worldVars, session, announced >>
  PROVE  /\ WorldOK' /\ ViewOK'
         /\ Enemies' = Enemies /\ Bullets' = Bullets
         /\ \A d : HealthOf(d)' = HealthOf(d)
  <1>1. /\ UNCHANGED << reg, playerEntities, enemyEntities, bulletEntities, nextNetworkId >>
        /\ UNCHANGED << session, announced >>
    BY DEF worldVars
  <1>2. WorldOK'
    BY <1>1 DEF Inv, WorldOK, RegistryOK, Live, KindsOK, IsShip, IsEnemy, IsBullet, Has,
         HealthOf, Enemies, Bullets, IdsOK, NetworkIdOf, ContainersOK
  <1>3. Enemies' = Enemies /\ Bullets' = Bullets /\ \A d : HealthOf(d)' = HealthOf(d)
    BY <1>1 DEF Enemies, Bullets, HealthOf
  <1>4. ViewOK'
    BY <1>1, SameView DEF Inv, Live, NetworkIdOf
  <1> QED BY <1>2, <1>3, <1>4

LEMMA CollisionsStart ==
  ASSUME Inv, StartCollisions
  PROVE  Inv'
  <1>0. /\ phase = "expire" /\ phase' = "collide"
        /\ toDestroy = << >> /\ toDestroy' = << >>
        /\ unchecked' = bulletEntities
        /\ UNCHANGED << worldVars, session, announced, timerVars >>
    BY DEF StartCollisions
  <1>1. /\ WorldOK' /\ ViewOK'
        /\ Enemies' = Enemies /\ Bullets' = Bullets
        /\ \A d : HealthOf(d)' = HealthOf(d)
    BY <1>0, SameWorld
  <1>2. DoomOK'
    <2>1. bulletEntities \in Seq(Nat) /\ NoRepeat(bulletEntities)
      BY DEF Inv, WorldOK, ContainersOK
    <2>2. Range(toDestroy') = {} /\ Range(unchecked') = Bullets
      BY <1>0 DEF Range, Bullets
    <2>3. DeadEnemiesAreDoomed'
      BY <1>0, <1>1 DEF Inv, DoomOK, DeadEnemiesAreDoomed
    <2>4. toDestroy' \in Seq(Nat)
      BY <1>0 DEF Inv, DoomOK
    <2> QED BY <1>0, <1>1, <2>1, <2>2, <2>3, <2>4 DEF DoomOK
  <1>3. TimersOK'
    BY <1>0 DEF Inv, TimersOK, timerVars
  <1> QED BY <1>1, <1>2, <1>3 DEF Inv

LEMMA CollisionsEnd ==
  ASSUME Inv, EndCollisions
  PROVE  Inv'
  <1>0. /\ phase = "collide" /\ phase' = "destroy"
        /\ unchecked = << >> /\ unchecked' = << >>
        /\ toDestroy' = Ascending(Range(toDestroy))
        /\ UNCHANGED << worldVars, session, announced, timerVars >>
    BY DEF EndCollisions, SortUnique
  <1>1. /\ WorldOK' /\ ViewOK'
        /\ Enemies' = Enemies /\ Bullets' = Bullets
        /\ \A d : HealthOf(d)' = HealthOf(d)
    BY <1>0, SameWorld
  <1>2. DoomOK'
    <2>1. Range(toDestroy) \in SUBSET Nat /\ IsFiniteSet(Range(toDestroy))
      BY ListRange DEF Inv, DoomOK
    <2>2. /\ toDestroy' \in Seq(Range(toDestroy)) /\ NoRepeat(toDestroy')
          /\ Range(toDestroy') = Range(toDestroy)
      BY <1>0, <2>1, Sorted
    <2>3. toDestroy' \in Seq(Nat)
      BY <2>1, <2>2, InSeq
    <2>4. DeadEnemiesAreDoomed'
      BY <1>1, <2>2 DEF Inv, DoomOK, DeadEnemiesAreDoomed
    <2> QED BY <1>0, <1>1, <2>2, <2>3, <2>4 DEF Inv, DoomOK
  <1>3. TimersOK'
    BY <1>0 DEF Inv, TimersOK, timerVars
  <1> QED BY <1>1, <1>2, <1>3 DEF Inv

LEMMA BroadcastStep ==
  ASSUME Inv, broadcastWorldState
  PROVE  Inv'
  <1>0. /\ phase = "destroy" /\ phase' = "spawn" /\ toDestroy = << >>
        /\ deltaTime' \in Dts
        /\ UNCHANGED << worldVars, session, announced, enemySpawnTimer, nextEnemySpawnTime,
                        unchecked, toDestroy >>
    BY DEF broadcastWorldState
  <1>1. /\ WorldOK' /\ ViewOK'
        /\ Enemies' = Enemies /\ Bullets' = Bullets
        /\ \A d : HealthOf(d)' = HealthOf(d)
    BY <1>0, SameWorld
  <1>2. DoomOK'
    BY <1>0, <1>1 DEF Inv, DoomOK, DeadEnemiesAreDoomed
  <1>3. TimersOK'
    BY <1>0 DEF Inv, TimersOK
  <1> QED BY <1>1, <1>2, <1>3 DEF Inv

LEMMA NothingHappens ==
  ASSUME Inv, UNCHANGED vars
  PROVE  Inv'
  <1>0. /\ UNCHANGED << worldVars, session, announced >>
        /\ UNCHANGED << timerVars, tickVars >>
    BY DEF vars
  <1>1. /\ WorldOK' /\ ViewOK'
        /\ Enemies' = Enemies /\ Bullets' = Bullets
        /\ \A d : HealthOf(d)' = HealthOf(d)
    BY <1>0, SameWorld
  <1>2. DoomOK'
    BY <1>0, <1>1 DEF Inv, DoomOK, tickVars, DeadEnemiesAreDoomed
  <1>3. TimersOK'
    BY <1>0 DEF Inv, TimersOK, timerVars
  <1> QED BY <1>1, <1>2, <1>3 DEF Inv

(* A bullet and what it hits (GameServer.cpp:672-705), in a form the later *)
(* proofs use as well.                                                     *)
LEMMA BulletTested ==
  ASSUME Inv, TestBullet
  PROVE  \E bullet \in Bullets \ Range(toDestroy) : \E hit \in Hits :
           /\ bullet = Head(unchecked)
           /\ hit \subseteq Enemies
           /\ RegistryOK' /\ IdsOK' /\ Live' = Live
           /\ \A b \in ComponentTypes \ {"Health"} : reg'.storage[b] = reg.storage[b]
           /\ DOMAIN reg'.storage.Health = DOMAIN reg.storage.Health
           /\ \A d \in Live : d \notin hit => Same(d)
           /\ \A d : \A comps : Has(d, comps) => Has(d, comps)'
           /\ \A d : NetworkIdOf(d)' = NetworkIdOf(d)
           /\ \A d \in DOMAIN reg.storage.Health : HealthOf(d)' =
                 IF d \in hit THEN damaged(HealthOf(d), BULLET_DAMAGE) ELSE HealthOf(d)
           /\ toDestroy' \in Seq(Nat)
           /\ Range(toDestroy') = Range(toDestroy)
                 \cup {d \in hit : Dies(HealthOf(d), BULLET_DAMAGE)}
                 \cup (IF hit = {} THEN {} ELSE {bullet})
  <1> PICK bullet : bullet = Head(unchecked)
    OBVIOUS
  <1> PICK damage : damage = reg.storage.Damage[bullet]
    OBVIOUS
  <1>1. EntityShape /\ WorldOK
    BY EntityFacts DEF Inv
  <1>2. bullet \in Bullets \ Range(toDestroy) /\ bullet \in Nat
    BY Beheaded DEF TestBullet, Inv, DoomOK
  <1>3. damage = BULLET_DAMAGE
    BY <1>2 DEF Inv, WorldOK, KindsOK, IsBullet
  <1>4. PICK hit \in Hits :
          /\ reg' = [reg EXCEPT !.storage["Health"] = [e \in DOMAIN reg.storage.Health |->
                 IF e \in hit THEN damaged(reg.storage.Health[e], BULLET_DAMAGE)
                 ELSE reg.storage.Health[e]]]
          /\ toDestroy' = toDestroy
                 \o SetToSeq({e \in hit : Dies(reg.storage.Health[e], BULLET_DAMAGE)})
                 \o (IF hit = {} THEN << >> ELSE << bullet >>)
    BY <1>3 DEF TestBullet
  <1>5. hit \subseteq Enemies /\ IsFiniteSet(hit)
    <2>1. hit = {} \/ \E e \in Enemies : hit = {e}
      BY <1>4 DEF Hits, Enemies
    <2> QED BY <2>1, FS_EmptySet, FS_Singleton
  <1> PICK f : f = [e \in DOMAIN reg.storage.Health |->
                 IF e \in hit THEN damaged(reg.storage.Health[e], BULLET_DAMAGE)
                 ELSE reg.storage.Health[e]]
    OBVIOUS
  <1>6. /\ Live' = Live
        /\ RegistryOK' /\ IdsOK'
        /\ \A b \in ComponentTypes \ {"Health"} : reg'.storage[b] = reg.storage[b]
        /\ reg'.storage.Health = f
        /\ \A d : NetworkIdOf(d)' = NetworkIdOf(d)
        /\ \A d : d \notin DOMAIN f => Same(d)
        /\ \A d : \A comps : Has(d, comps) => Has(d, comps)'
    <2>1. nextNetworkId' = nextNetworkId
      BY DEF TestBullet
    <2>2. DOMAIN f = DOMAIN reg.storage["Health"]
      OBVIOUS
    <2>3. reg' = [reg EXCEPT !.storage["Health"] = f]
      BY <1>4
    <2>4. "Health" \in {"Health", "Lifetime"}
      OBVIOUS
    <2> QED BY <1>1, <2>1, <2>2, <2>3, <2>4, ValuesChange
  <1>7. \A d \in DOMAIN reg.storage.Health : HealthOf(d)' =
          IF d \in hit THEN damaged(HealthOf(d), BULLET_DAMAGE) ELSE HealthOf(d)
    BY <1>6 DEF HealthOf
  <1>8. \A d \in Live : d \notin hit => Same(d)
    BY <1>6, <1>7 DEF Same, HealthOf
  <1>9. /\ toDestroy' \in Seq(Nat)
        /\ Range(toDestroy') = Range(toDestroy)
              \cup {d \in hit : Dies(HealthOf(d), BULLET_DAMAGE)}
              \cup (IF hit = {} THEN {} ELSE {bullet})
    <2> DEFINE dead == {e \in hit : Dies(reg.storage.Health[e], BULLET_DAMAGE)}
               last == IF hit = {} THEN << >> ELSE << bullet >>
    <2>1. dead \in SUBSET Nat /\ IsFiniteSet(dead)
      <3>1. dead \in SUBSET hit /\ hit \subseteq Nat
        BY <1>1, <1>5 DEF EntityShape
      <3> QED BY <1>5, <3>1, FS_Subset
    <2>2. SetToSeq(dead) \in Seq(Nat) /\ Range(SetToSeq(dead)) = dead
      BY <2>1, Listed
    <2>3. last \in Seq(Nat) /\ Range(last) = IF hit = {} THEN {} ELSE {bullet}
      BY <1>2 DEF Range
    <2>4. toDestroy \in Seq(Nat) /\ toDestroy' = toDestroy \o SetToSeq(dead) \o last
      BY <1>4 DEF Inv, DoomOK
    <2>5. dead = {d \in hit : Dies(HealthOf(d), BULLET_DAMAGE)}
      BY DEF HealthOf
    <2> HIDE DEF dead, last
    <2>6. /\ toDestroy \o SetToSeq(dead) \in Seq(Nat)
          /\ Range(toDestroy \o SetToSeq(dead)) = Range(toDestroy) \cup dead
      BY <2>2, <2>4, Joined
    <2>7. /\ toDestroy' \in Seq(Nat)
          /\ Range(toDestroy') = Range(toDestroy) \cup dead \cup Range(last)
      <3> PICK s \in Seq(Nat) : s = toDestroy \o SetToSeq(dead)
        BY <2>6
      <3>1. s \o last \in Seq(Nat) /\ Range(s \o last) = Range(s) \cup Range(last)
        BY <2>3, Joined
      <3> QED BY <2>4, <2>6, <3>1
    <2> QED BY <2>3, <2>5, <2>7
  <1> QED BY <1>2, <1>4, <1>5, <1>6, <1>7, <1>8, <1>9

LEMMA CollisionStep ==
  ASSUME Inv, TestBullet
  PROVE  Inv'
  <1>1. PICK bullet \in Bullets \ Range(toDestroy), hit \in Hits :
           /\ bullet = Head(unchecked)
           /\ hit \subseteq Enemies
           /\ RegistryOK' /\ IdsOK' /\ Live' = Live
           /\ \A b \in ComponentTypes \ {"Health"} : reg'.storage[b] = reg.storage[b]
           /\ DOMAIN reg'.storage.Health = DOMAIN reg.storage.Health
           /\ \A d \in Live : d \notin hit => Same(d)
           /\ \A d : \A comps : Has(d, comps) => Has(d, comps)'
           /\ \A d : NetworkIdOf(d)' = NetworkIdOf(d)
           /\ \A d \in DOMAIN reg.storage.Health : HealthOf(d)' =
                 IF d \in hit THEN damaged(HealthOf(d), BULLET_DAMAGE) ELSE HealthOf(d)
           /\ toDestroy' \in Seq(Nat)
           /\ Range(toDestroy') = Range(toDestroy)
                 \cup {d \in hit : Dies(HealthOf(d), BULLET_DAMAGE)}
                 \cup (IF hit = {} THEN {} ELSE {bullet})
    BY BulletTested
  <1>2. EntityShape
    BY EntityFacts DEF Inv
  <1>3. /\ phase = "collide" /\ unchecked # << >> /\ unchecked' = Tail(unchecked)
        /\ UNCHANGED << playerEntities, enemyEntities, bulletEntities, nextNetworkId,
                        timerVars, phase, session, announced >>
        /\ Enemies' = Enemies /\ Bullets' = Bullets
    BY DEF TestBullet, Enemies, Bullets
  <1>4. \A d \in Enemies :
          /\ IsEnemy(d) /\ IsEnemy(d)'
          /\ d \in DOMAIN reg.storage.Health
          /\ d \in hit => (HealthOf(d)' = 0 <=> Dies(HealthOf(d), BULLET_DAMAGE))
          /\ d \in hit /\ HealthOf(d) = 0 => HealthOf(d)' = 0
          /\ d \notin hit => HealthOf(d)' = HealthOf(d)
    <2> SUFFICES ASSUME NEW d \in Enemies
                 PROVE  /\ IsEnemy(d) /\ IsEnemy(d)'
                        /\ d \in DOMAIN reg.storage.Health
                        /\ d \in hit => (HealthOf(d)' = 0 <=> Dies(HealthOf(d), BULLET_DAMAGE))
                        /\ d \in hit /\ HealthOf(d) = 0 => HealthOf(d)' = 0
                        /\ d \notin hit => HealthOf(d)' = HealthOf(d)
      OBVIOUS
    <2>1. IsEnemy(d) /\ d \in DOMAIN reg.storage.Health
      BY <1>2 DEF Inv, WorldOK, KindsOK, EntityShape
    <2>2. HealthOf(d) \in {0, 25, 50} /\ BULLET_DAMAGE = 25 /\ ENEMY_HEALTH = 50
      BY <2>1 DEF IsEnemy, BULLET_DAMAGE, ENEMY_HEALTH
    <2>3. HealthOf(d)' = IF d \in hit THEN damaged(HealthOf(d), BULLET_DAMAGE) ELSE HealthOf(d)
      BY <1>1, <2>1
    <2>4. HealthOf(d)' \in {0, 25, 50}
      BY <2>2, <2>3 DEF damaged
    <2>5. Has(d, EnemyComponents(1))'
      BY <1>1, <2>1 DEF IsEnemy
    <2>6. IsEnemy(d)'
      BY <2>2, <2>4, <2>5 DEF IsEnemy
    <2>7. d \in hit => (HealthOf(d)' = 0 <=> Dies(HealthOf(d), BULLET_DAMAGE))
      BY <2>2, <2>3 DEF damaged, Dies
    <2>8. d \in hit /\ HealthOf(d) = 0 => HealthOf(d)' = 0
      BY <2>2, <2>3 DEF damaged
    <2> QED BY <2>1, <2>3, <2>6, <2>7, <2>8
  <1>5. KindsOK'
    <2>1. ASSUME NEW q \in DOMAIN playerEntities PROVE IsShip(playerEntities[q], q)'
      <3>1. PICK d : d = playerEntities[q]
        OBVIOUS
      <3>0. d \in Range(playerEntities) /\ Range(playerEntities) \subseteq Live
            /\ Enemies \cap Range(playerEntities) = {}
        BY <1>2, <3>1 DEF EntityShape
      <3>2. d \in Live /\ d \notin hit
        BY <1>1, <3>0
      <3>3. Same(d) /\ IsShip(d, q)
        BY <1>1, <3>1, <3>2 DEF Inv, WorldOK, KindsOK
      <3>4. IsShip(d, q)' /\ playerEntities'[q] = d
        BY <1>3, <3>1, <3>3, StaysWhatItIs
      <3> QED BY <3>4
    <2>2. \A d \in Bullets : IsBullet(d)'
      <3> SUFFICES ASSUME NEW d \in Bullets PROVE IsBullet(d)'
        OBVIOUS
      <3>1. d \in Live /\ d \notin hit /\ IsBullet(d)
        BY <1>1, <1>2 DEF EntityShape, Inv, WorldOK, KindsOK
      <3> QED BY <1>1, <3>1, StaysWhatItIs
    <2> QED BY <1>3, <1>4, <2>1, <2>2 DEF KindsOK
  <1>6. ContainersOK'
    BY <1>1, <1>3 DEF Inv, WorldOK, ContainersOK
  <1>7. DoomOK'
    <2>1. /\ bullet \in Range(unchecked) /\ bullet \notin Range(unchecked')
          /\ Range(unchecked) = Range(unchecked') \cup {bullet}
          /\ unchecked' \in Seq(Nat) /\ NoRepeat(unchecked')
      BY <1>1, <1>3, Beheaded DEF Inv, DoomOK
    <2>2. Enemies \cap Bullets = {}
      BY <1>2 DEF EntityShape
    <2>3. Range(toDestroy') \subseteq Enemies \cup Bullets
      BY <1>1 DEF Inv, DoomOK
    <2>4. Range(unchecked') \subseteq Bullets \ Range(toDestroy')
      BY <1>1, <2>1, <2>2 DEF Inv, DoomOK
    <2>5. DeadEnemiesAreDoomed'
      <3>1. \A d \in Enemies : d # bullet
        BY <2>2
      <3>2. \A d \in Enemies : HealthOf(d) = 0 <=> d \in Range(toDestroy)
        BY DEF Inv, DoomOK, DeadEnemiesAreDoomed
      <3>3. \A d \in Enemies : HealthOf(d)' = 0 <=> d \in Range(toDestroy')
        BY <1>1, <1>4, <3>1, <3>2
      <3> QED BY <1>3, <3>3 DEF DeadEnemiesAreDoomed
    <2> QED BY <1>1, <1>3, <2>1, <2>3, <2>4, <2>5 DEF DoomOK
  <1>8. ViewOK'
    BY <1>1, <1>3, SameView DEF Inv
  <1>9. TimersOK'
    BY <1>3 DEF Inv, TimersOK, timerVars
  <1> QED BY <1>1, <1>5, <1>6, <1>7, <1>8, <1>9 DEF Inv, WorldOK
-----------------------------------------------------------------------------
LEMMA InitInv == Init => Inv
  <1> SUFFICES ASSUME Init PROVE Inv
    OBVIOUS
  <1>1. /\ reg = [next_id |-> 0, free_ids |-> << >>, alive_count |-> 0,
                  storage |-> [c \in ComponentTypes |-> << >>]]
        /\ playerEntities = << >> /\ enemyEntities = << >> /\ bulletEntities = << >>
        /\ nextNetworkId = 1
        /\ phase = "spawn" /\ unchecked = << >> /\ toDestroy = << >>
        /\ session = [p \in Players |-> "none"]
        /\ announced = [p \in Players |-> {}]
    BY DEF Init, EmptyRegistry
  <1>2. Range(<< >>) = {} /\ DOMAIN << >> = {}
    BY DEF Range
  <1>3. Live = {} /\ Enemies = {} /\ Bullets = {}
    BY <1>1, <1>2 DEF Live, Enemies, Bullets
  <1>4. RegistryOK
    BY <1>1, <1>2, <1>3, FS_EmptySet DEF RegistryOK, NoRepeat
  <1>5. KindsOK /\ IdsOK
    BY <1>1, <1>2, <1>3, BoundAssumption DEF KindsOK, IdsOK
  <1>6. ContainersOK
    BY <1>1, <1>2, <1>3 DEF ContainersOK, NoRepeat
  <1>7. DoomOK
    BY <1>1, <1>2, <1>3 DEF DoomOK, NoRepeat, DeadEnemiesAreDoomed
  <1>8. TimersOK
    BY TimesAssumption DEF Init, TimersOK
  <1>9. UdpReady = {}
    BY <1>1 DEF UdpReady
  <1>10. ViewOK
    BY <1>1, <1>9 DEF ViewOK
  <1> QED BY <1>4, <1>5, <1>6, <1>7, <1>8, <1>10 DEF Inv, WorldOK

LEMMA NextInv == Inv /\ [Next]_vars => Inv'
  <1> SUFFICES ASSUME Inv, [Next]_vars PROVE Inv'
    OBVIOUS
  <1>1. ASSUME NEW p \in Players, onPlayerConnected(p) PROVE Inv'
    BY <1>1, ShipEnters
  <1>2. ASSUME NEW p \in Players, onPlayerUdpReady(p) PROVE Inv'
    BY <1>2, FirstPacket
  <1>3. ASSUME NEW p \in Players, onPlayerDisconnected(p) PROVE Inv'
    BY <1>3, ShipLeaves
  <1>4. ASSUME NEW p \in Players, spawnBullet(p) PROVE Inv'
    BY <1>4, BulletEnters
  <1>5. CASE SpawnPhase
    BY <1>5, SpawnPhaseStep
  <1>6. CASE updateLifetimes
    BY <1>6, LifetimesStep
  <1>7. CASE destroyEntity
    BY <1>7, DoomedLeaves
  <1>8. CASE StartCollisions
    BY <1>8, CollisionsStart
  <1>9. CASE TestBullet
    BY <1>9, CollisionStep
  <1>10. CASE EndCollisions
    BY <1>10, CollisionsEnd
  <1>11. CASE broadcastWorldState
    BY <1>11, BroadcastStep
  <1>12. CASE UNCHANGED vars
    BY <1>12, NothingHappens
  <1> QED BY <1>1, <1>2, <1>3, <1>4, <1>5, <1>6, <1>7, <1>8, <1>9, <1>10, <1>11, <1>12
          DEF Next, IoThread, GameThread

(* Inv holds throughout.                                                   *)
THEOREM WorldInvariant == Spec => []Inv
  BY InitInv, NextInv, PTL DEF Spec
-----------------------------------------------------------------------------
(* What follows from it.                                                   *)

(* Every variable keeps its type (GameServer.hpp:41-76): entity ids below  *)
(* the number of entities ever spawned, health within a player's, a        *)
(* lifetime within a bullet's.                                             *)
THEOREM WorldTypes == Spec => []TypeOK
  <1>1. Inv => TypeOK
    <2> SUFFICES ASSUME Inv PROVE TypeOK
      OBVIOUS
    <2>0. EntityShape /\ WorldOK
      BY EntityFacts DEF Inv
    <2>1. /\ nextNetworkId \in 1 .. MaxEntities + 1 /\ MaxEntities \in Nat
          /\ reg.next_id \in 0 .. nextNetworkId - 1
      BY BoundAssumption DEF Inv, WorldOK, IdsOK, RegistryOK
    <2>2. reg.next_id \in 0 .. MaxEntities /\ 0 .. reg.next_id - 1 \subseteq Ids
      BY <2>1 DEF Ids
    <2>3. Live \subseteq Ids
      BY <2>2 DEF Live
    <2>4. /\ DOMAIN reg.storage = ComponentTypes
          /\ \A c \in ComponentTypes : DOMAIN reg.storage[c] \subseteq Live
          /\ {"Health", "Lifetime", "NetworkId"} \subseteq ComponentTypes
      BY DEF Inv, WorldOK, RegistryOK, ComponentTypes
    <2>5. Range(reg.storage.Health) \subseteq 0 .. PLAYER_HEALTH
      <3>1. ASSUME NEW e \in DOMAIN reg.storage.Health
            PROVE  HealthOf(e) \in 0 .. PLAYER_HEALTH
        <4>1. e \in Live /\ (e \in Range(playerEntities) \/ e \in Enemies \/ e \in Bullets)
          BY <2>4 DEF Inv, WorldOK, ContainersOK
        <4>2. e \notin Bullets
          BY <2>0, <4>1 DEF EntityShape
        <4>3. CASE e \in Enemies
          BY <4>3 DEF Inv, WorldOK, KindsOK, IsEnemy, PLAYER_HEALTH, ENEMY_HEALTH, BULLET_DAMAGE
        <4>4. CASE e \in Range(playerEntities)
          <5>1. PICK p \in DOMAIN playerEntities : e = playerEntities[p]
            BY <4>4 DEF Range
          <5>2. HealthOf(e) = PLAYER_HEALTH
            BY <5>1 DEF Inv, WorldOK, KindsOK, IsShip
          <5> QED BY <5>2 DEF PLAYER_HEALTH
        <4> QED BY <4>1, <4>2, <4>3, <4>4
      <3> QED BY <3>1 DEF Range, HealthOf
    <2>6. Range(reg.storage.Lifetime) \subseteq 0 .. BULLET_LIFETIME
      <3>1. ASSUME NEW e \in DOMAIN reg.storage.Lifetime
            PROVE  reg.storage.Lifetime[e] \in 0 .. BULLET_LIFETIME
        <4>1. e \in Live
          BY <2>4
        <4>2. e \in Bullets
          BY <2>0, <4>1 DEF EntityShape
        <4> QED BY <4>2 DEF Inv, WorldOK, KindsOK, IsBullet
      <3> QED BY <3>1 DEF Range
    <2>7. Range(reg.storage.NetworkId) \subseteq 1 .. MaxEntities
      <3>1. ASSUME NEW e \in DOMAIN reg.storage.NetworkId
            PROVE  NetworkIdOf(e) \in 1 .. MaxEntities
        <4>1. e \in Live
          BY <2>4
        <4>2. NetworkIdOf(e) \in 1 .. nextNetworkId - 1
          BY <4>1 DEF Inv, WorldOK, IdsOK
        <4> QED BY <2>1, <4>2
      <3> QED BY <3>1 DEF Range, NetworkIdOf
    <2>8. /\ \A s : s \in Seq(Nat) /\ Range(s) \subseteq Ids => s \in Seq(Ids)
      BY InSeq
    <2>9. reg.free_ids \in Seq(Ids)
      BY <2>2, <2>8 DEF Inv, WorldOK, RegistryOK
    <2>10. DOMAIN playerEntities \subseteq Players /\ Range(playerEntities) \subseteq Ids
      BY <2>0, <2>3 DEF EntityShape, Inv, WorldOK, ContainersOK
    <2>11. enemyEntities \in Seq(Ids) /\ bulletEntities \in Seq(Ids)
      BY <2>0, <2>3, <2>8 DEF EntityShape, Inv, WorldOK, ContainersOK, Enemies, Bullets
    <2>12. unchecked \in Seq(Ids) /\ toDestroy \in Seq(Ids)
      <3>1. Range(unchecked) \subseteq Ids /\ Range(toDestroy) \subseteq Ids
        BY <2>0, <2>3 DEF EntityShape, Inv, DoomOK
      <3> QED BY <2>8, <3>1 DEF Inv, DoomOK
    <2>13. \A c \in ComponentTypes : DOMAIN reg.storage[c] \subseteq Ids
      BY <2>3, <2>4
    <2>14. /\ session \in [Players -> {"none", "connected", "ready", "gone"}]
           /\ announced \in [Players -> SUBSET (1 .. MaxEntities)]
           /\ phase \in {"spawn", "lifetimes", "expire", "collide", "destroy"}
           /\ nextEnemySpawnTime \in MIN_ENEMY_SPAWN_INTERVAL .. MAX_ENEMY_SPAWN_INTERVAL
           /\ enemySpawnTimer \in 0 .. nextEnemySpawnTime
           /\ deltaTime \in Dts
      BY DEF Inv, WorldOK, ContainersOK, ViewOK, DoomOK, TimersOK
    <2> QED BY <2>1, <2>2, <2>4, <2>5, <2>6, <2>7, <2>9, <2>10, <2>11, <2>12, <2>13, <2>14
            DEF TypeOK
  <1> QED BY <1>1, WorldInvariant, PTL

(* The containers track the live entities exactly, each once, and the      *)
(* registry's own count agrees: whatever the hooks do between two steps of *)
(* a tick, no entity is lost and none is tracked after it was killed       *)
(* (GameServer.cpp:370-488, 564-613, 741-786, Registry.hpp:92-114).        *)
THEOREM TrackingIsExact == Spec => []TrackingExact
  <1>1. Inv => TrackingExact
    <2> SUFFICES ASSUME Inv PROVE TrackingExact
      OBVIOUS
    <2>0. EntityShape
      BY EntityFacts DEF Inv
    <2> DEFINE ships == Range(playerEntities)
               ids   == DOMAIN playerEntities
    <2>1. /\ ships \cup Enemies \cup Bullets = Live /\ IsFiniteSet(Live)
          /\ ships \cap Enemies = {} /\ (ships \cup Enemies) \cap Bullets = {}
      BY <2>0 DEF EntityShape, Inv, WorldOK, ContainersOK
    <2>2. /\ IsFiniteSet(ships) /\ IsFiniteSet(Enemies) /\ IsFiniteSet(Bullets)
          /\ IsFiniteSet(ships \cup Enemies)
      <3>1. /\ ships \in SUBSET Live /\ Enemies \in SUBSET Live /\ Bullets \in SUBSET Live
            /\ ships \cup Enemies \in SUBSET Live
        BY <2>1
      <3> QED BY <2>1, <3>1, FS_Subset
    <2>3. Cardinality(ships \cup Enemies) = Cardinality(ships) + Cardinality(Enemies)
      <3>1. Cardinality(ships \cup Enemies) =
              Cardinality(ships) + Cardinality(Enemies) - Cardinality(ships \cap Enemies)
        BY <2>2, FS_Union
      <3>2. Cardinality(ships \cap Enemies) = 0
        BY <2>1, FS_EmptySet
      <3>3. Cardinality(ships) \in Nat /\ Cardinality(Enemies) \in Nat
        BY <2>2, FS_CardinalityType
      <3> QED BY <3>1, <3>2, <3>3
    <2>4. Cardinality(Live) = Cardinality(ships \cup Enemies) + Cardinality(Bullets)
      <3>1. Cardinality((ships \cup Enemies) \cup Bullets) =
              Cardinality(ships \cup Enemies) + Cardinality(Bullets)
                - Cardinality((ships \cup Enemies) \cap Bullets)
        BY <2>2, FS_Union
      <3>2. Cardinality((ships \cup Enemies) \cap Bullets) = 0
        BY <2>1, FS_EmptySet
      <3>3. Cardinality(ships \cup Enemies) \in Nat /\ Cardinality(Bullets) \in Nat
        BY <2>2, FS_CardinalityType
      <3>4. (ships \cup Enemies) \cup Bullets = Live
        BY <2>1
      <3> HIDE DEF ships
      <3>5. Cardinality(Live) = Cardinality(ships \cup Enemies) + Cardinality(Bullets) - 0
        BY <3>1, <3>2, <3>4
      <3> QED BY <3>3, <3>5
    <2>5. Cardinality(ids) = Cardinality(ships)
      <3> DEFINE g == [p \in ids |-> playerEntities[p]]
      <3>1. g \in Injection(ids, ships) /\ g \in Surjection(ids, ships)
        <4>1. g \in [ids -> ships]
          BY <2>0 DEF EntityShape
        <4>2. \A p, q \in ids : g[p] = g[q] => p = q
          BY <2>0 DEF EntityShape
        <4>3. \A e \in ships : \E p \in ids : g[p] = e
          BY <2>0 DEF EntityShape
        <4> HIDE DEF g
        <4> QED BY <4>1, <4>2, <4>3 DEF Injection, IsInjective, Surjection
      <3> HIDE DEF g
      <3> QED BY <2>2, <3>1, FS_Injection
    <2>6. /\ Len(enemyEntities) = Cardinality(Enemies)
          /\ Len(bulletEntities) = Cardinality(Bullets)
      BY ListRange DEF Inv, WorldOK, ContainersOK, Enemies, Bullets
    <2>7. Cardinality(ids) + Len(enemyEntities) + Len(bulletEntities) = Cardinality(Live)
      BY <2>3, <2>4, <2>5, <2>6
    <2>8. Cardinality(Range(reg.free_ids)) = Len(reg.free_ids)
      BY ListRange DEF Inv, WorldOK, RegistryOK
    <2>9. reg.alive_count = Cardinality(Live)
      BY DEF Inv, WorldOK, RegistryOK
    <2> QED BY <2>1, <2>7, <2>8, <2>9 DEF TrackingExact
  <1> QED BY <1>1, WorldInvariant, PTL

(* A container's entities are of its kind, with that kind's components and *)
(* no other, although spawn_entity() reuses the ids of the dead for any    *)
(* kind (Registry.hpp:92-106, GameServer.cpp:378-416, 505-534, 572-583).   *)
THEOREM HandlesKeepKind == Spec => []HandlesKeepTheirKind
  <1>1. Inv => HandlesKeepTheirKind
    BY DEF Inv, WorldOK, KindsOK, IsShip, IsEnemy, IsBullet, Has, HandlesKeepTheirKind,
           PlayerComponents, EnemyComponents, BulletComponents, ComponentTypes
  <1> QED BY <1>1, WorldInvariant, PTL

(* What destroyEntity is given is alive and given once (GameServer.cpp:    *)
(* 615-637, 731-738).                                                      *)
THEOREM DoomedLive == Spec => []DoomedAreLive
  <1>1. Inv => DoomedAreLive
    BY ListRange DEF Inv, DoomOK, DoomedAreLive
  <1> QED BY <1>1, WorldInvariant, PTL

(* What the spawn and destroy messages told a ready client adds up to the  *)
(* world, whenever it joined (GameServer.cpp:378-440, 470-485, 536-561,    *)
(* 585-610, 767-785).                                                      *)
THEOREM ViewsMatch == Spec => []ViewMatchesWorld
  <1>1. Inv => ViewMatchesWorld
    BY DEF Inv, ViewOK, Shown, ViewMatchesWorld
  <1> QED BY <1>1, WorldInvariant, PTL

(* A collision leaves no dead enemy in play and dooms no living one,       *)
(* whatever other bullets of the tick hit it (GameServer.cpp:692-705).     *)
THEOREM DeadAreDoomed == Spec => []DeadEnemiesAreDoomed
  <1>1. Inv => DeadEnemiesAreDoomed
    BY DEF Inv, DoomOK
  <1> QED BY <1>1, WorldInvariant, PTL

(* As long as the world is no larger than a batch, the update carries all  *)
(* of it (GameServer.cpp:140-171).                                         *)
THEOREM BatchCarriesTheWorld ==
    Spec => [](Cardinality(Live) <= MAX_BATCH_ENTITIES => BatchCoversWorld)
  <1>1. Inv => (Cardinality(Live) <= MAX_BATCH_ENTITIES => BatchCoversWorld)
    <2> SUFFICES ASSUME Inv, Cardinality(Live) <= MAX_BATCH_ENTITIES
                 PROVE  Batch = Live
      BY DEF BatchCoversWorld
    <2>0. EntityShape
      BY EntityFacts DEF Inv
    <2>1. Drawn = Live
      BY <2>0 DEF Drawn, EntityShape, Always, Inv, WorldOK, RegistryOK, ComponentTypes
    <2>2. ASSUME NEW e \in Live
          PROVE  Cardinality({d \in Live : d < e}) < MAX_BATCH_ENTITIES
      <3> DEFINE below == {d \in Live : d < e}
      <3>1. Live \subseteq Nat /\ IsFiniteSet(Live) /\ Cardinality(Live) \in Nat
        BY <2>0, FS_CardinalityType DEF EntityShape
      <3>2. below \in SUBSET Live /\ e \notin below
        BY <3>1
      <3>3. IsFiniteSet(below) /\ Cardinality(below) \in Nat /\ Cardinality(below) <= Cardinality(Live)
            /\ (Cardinality(Live) = Cardinality(below) => Live = below)
        BY <3>1, <3>2, FS_Subset, FS_CardinalityType
      <3>4. Live # below
        BY <3>2
      <3> QED BY <3>1, <3>3, <3>4, BatchAssumption
    <2> QED BY <2>1, <2>2 DEF Batch
  <1> QED BY <1>1, WorldInvariant, PTL
-----------------------------------------------------------------------------
(* What a step may do to the entities, whatever the step.                  *)

(* An entity of a kind joins the world, unhurt; the others stay as they    *)
(* are, and so does the list of the doomed.                                *)
Joins(e, kind) ==
    /\ Room /\ TakeNetworkId
    /\ e \in Nat \ Live /\ Live' = Live \cup {e}
    /\ \A d \in Live : Same(d)
    /\ NetworkIdOf(e)' = nextNetworkId
    /\ reg'.storage.EntityTypeTag[e] = kind
    /\ IF kind = "BULLET_PLAYER"
       THEN e \notin DOMAIN reg'.storage.Health
       ELSE /\ e \in DOMAIN reg'.storage.Health
            /\ HealthOf(e)' = IF kind = "ENEMY" THEN ENEMY_HEALTH ELSE PLAYER_HEALTH
    /\ toDestroy' = toDestroy

(* An entity quits the world, and the list of the doomed if it is on it.   *)
Quits(e) ==
    /\ e \in Live /\ Live' = Live \ {e}
    /\ \A d \in Live' : Same(d)
    /\ Range(toDestroy') = Range(toDestroy) \ {e}
    /\ UNCHANGED nextNetworkId

Rests == Range(toDestroy') = Range(toDestroy) /\ UNCHANGED << reg, nextNetworkId >>

LEMMA WhatJoins ==
  ASSUME Inv,
         \/ \E p \in Players : onPlayerConnected(p) \/ spawnBullet(p)
         \/ SpawnPhase /\ spawnEnemy /\ Room
  PROVE  \E e, kind : kind \in {"PLAYER", "ENEMY", "BULLET_PLAYER"} /\ Joins(e, kind)
  <1> PICK e : e = spawned_id(reg)
    OBVIOUS
  <1>1. ASSUME NEW p \in Players, onPlayerConnected(p) PROVE Joins(e, "PLAYER")
    <2> PICK comps : comps = PlayerComponents(p, nextNetworkId)
      OBVIOUS
    <2>1. Room /\ TakeNetworkId /\ reg' = create(reg, comps) /\ toDestroy' = toDestroy
      BY <1>1 DEF onPlayerConnected, tickVars
    <2>2. /\ DOMAIN comps = Always \cup {"Health"}
          /\ DOMAIN comps \subseteq ComponentTypes
          /\ comps.NetworkId = nextNetworkId /\ comps.EntityTypeTag = "PLAYER"
          /\ comps.Health = PLAYER_HEALTH
      BY Components
    <2>3. /\ e \in Nat \ Live /\ Live' = Live \cup {e} /\ NetworkIdOf(e)' = nextNetworkId
          /\ \A d \in Live : Same(d)
          /\ \A c \in ComponentTypes : e \in DOMAIN reg'.storage[c] <=> c \in DOMAIN comps
          /\ \A c \in DOMAIN comps : reg'.storage[c][e] = comps[c]
      BY <2>1, <2>2, Entered
    <2> QED BY <2>1, <2>2, <2>3 DEF Joins, HealthOf, Always
  <1>2. ASSUME NEW p \in Players, spawnBullet(p) PROVE Joins(e, "BULLET_PLAYER")
    <2> PICK comps : comps = BulletComponents(p, nextNetworkId)
      OBVIOUS
    <2>1. Room /\ TakeNetworkId /\ reg' = create(reg, comps) /\ toDestroy' = toDestroy
      BY <1>2 DEF spawnBullet, tickVars
    <2>2. /\ DOMAIN comps = Always \cup {"Damage", "Lifetime"}
          /\ DOMAIN comps \subseteq ComponentTypes /\ "Health" \in ComponentTypes
          /\ "Health" \notin DOMAIN comps
          /\ comps.NetworkId = nextNetworkId /\ comps.EntityTypeTag = "BULLET_PLAYER"
      BY Components DEF Always, ComponentTypes
    <2>3. /\ e \in Nat \ Live /\ Live' = Live \cup {e} /\ NetworkIdOf(e)' = nextNetworkId
          /\ \A d \in Live : Same(d)
          /\ \A c \in ComponentTypes : e \in DOMAIN reg'.storage[c] <=> c \in DOMAIN comps
          /\ \A c \in DOMAIN comps : reg'.storage[c][e] = comps[c]
      BY <2>1, <2>2, Entered
    <2> QED BY <2>1, <2>2, <2>3 DEF Joins, Always
  <1>3. ASSUME SpawnPhase, spawnEnemy, Room PROVE Joins(e, "ENEMY")
    <2> PICK comps : comps = EnemyComponents(nextNetworkId)
      OBVIOUS
    <2>1. Room /\ TakeNetworkId /\ reg' = create(reg, comps) /\ toDestroy' = toDestroy
      BY <1>3 DEF spawnEnemy, SpawnPhase
    <2>2. /\ DOMAIN comps = Always \cup {"Health"}
          /\ DOMAIN comps \subseteq ComponentTypes
          /\ comps.NetworkId = nextNetworkId /\ comps.EntityTypeTag = "ENEMY"
          /\ comps.Health = ENEMY_HEALTH
      BY DEF EnemyComponents, Always, ComponentTypes
    <2>3. /\ e \in Nat \ Live /\ Live' = Live \cup {e} /\ NetworkIdOf(e)' = nextNetworkId
          /\ \A d \in Live : Same(d)
          /\ \A c \in ComponentTypes : e \in DOMAIN reg'.storage[c] <=> c \in DOMAIN comps
          /\ \A c \in DOMAIN comps : reg'.storage[c][e] = comps[c]
      BY <2>1, <2>2, Entered
    <2> QED BY <2>1, <2>2, <2>3 DEF Joins, HealthOf, Always
  <1> QED BY <1>1, <1>2, <1>3

LEMMA WhatQuits ==
  ASSUME Inv
  PROVE  /\ \A p \in Players : onPlayerDisconnected(p) =>
               \E e \in Range(playerEntities) : Quits(e)
         /\ destroyEntity => \E e \in Range(toDestroy) : Quits(e)
  <1>0. EntityShape
    BY EntityFacts DEF Inv
  <1>1. ASSUME NEW p \in Players, onPlayerDisconnected(p)
        PROVE  \E e \in Range(playerEntities) : Quits(e)
    <2> PICK e : e = playerEntities[p]
      OBVIOUS
    <2>1. /\ reg' = kill_entity(reg, e) /\ nextNetworkId' = nextNetworkId
          /\ toDestroy' = toDestroy
          /\ session[p] \in {"connected", "ready"}
      BY <1>1 DEF onPlayerDisconnected, tickVars
    <2>2. /\ e \in Range(playerEntities) /\ e \in Live /\ e \notin Enemies \cup Bullets
      BY <1>0, <2>1 DEF EntityShape, Inv, WorldOK, ContainersOK
    <2>3. Range(toDestroy) = Range(toDestroy) \ {e}
      BY <2>2 DEF Inv, DoomOK
    <2>4. Live' = Live \ {e} /\ \A d \in Live' : Same(d)
      BY <2>1, <2>2, LeavesOK
    <2> QED BY <2>1, <2>2, <2>3, <2>4 DEF Quits
  <1>2. ASSUME destroyEntity PROVE \E e \in Range(toDestroy) : Quits(e)
    <2> PICK e : e = Head(toDestroy)
      OBVIOUS
    <2>1. /\ toDestroy # << >> /\ toDestroy' = Tail(toDestroy)
          /\ reg' = kill_entity(reg, e) /\ nextNetworkId' = nextNetworkId
          /\ phase \in {"expire", "destroy"}
      BY <1>2 DEF destroyEntity
    <2>2. /\ e \in Range(toDestroy)
          /\ Range(toDestroy') = Range(toDestroy) \ {e}
      BY <2>1, Beheaded DEF Inv, DoomOK
    <2>3. e \in Live
      BY <1>0, <2>2 DEF EntityShape, Inv, DoomOK
    <2>4. Live' = Live \ {e} /\ \A d \in Live' : Same(d)
      BY <2>1, <2>3, LeavesOK
    <2> QED BY <2>1, <2>2, <2>3, <2>4 DEF Quits
  <1> QED BY <1>1, <1>2

LEMMA WhatHappens ==
  ASSUME Inv, [Next]_vars
  PROVE  \/ \E e, kind : kind \in {"PLAYER", "ENEMY", "BULLET_PLAYER"} /\ Joins(e, kind)
         \/ \E e \in Range(playerEntities) \cup Range(toDestroy) : Quits(e)
         \/ updateLifetimes
         \/ TestBullet
         \/ Rests
  <1>1. ASSUME NEW p \in Players, onPlayerConnected(p) \/ spawnBullet(p)
        PROVE  \E e, kind : kind \in {"PLAYER", "ENEMY", "BULLET_PLAYER"} /\ Joins(e, kind)
    BY <1>1, WhatJoins
  <1>2. ASSUME NEW p \in Players, onPlayerUdpReady(p) PROVE Rests
    BY <1>2 DEF onPlayerUdpReady, Rests, worldVars, tickVars
  <1>3. ASSUME NEW p \in Players, onPlayerDisconnected(p)
        PROVE  \E e \in Range(playerEntities) : Quits(e)
    BY <1>3, WhatQuits
  <1>4. CASE SpawnPhase
    <2>1. CASE spawnEnemy /\ Room
      BY <1>4, <2>1, WhatJoins
    <2>2. CASE UNCHANGED << reg, nextNetworkId >>
      BY <1>4, <2>2 DEF SpawnPhase, Rests
    <2> QED BY <1>4, <2>1, <2>2 DEF SpawnPhase
  <1>5. CASE destroyEntity
    BY <1>5, WhatQuits
  <1>6. CASE StartCollisions
    BY <1>6 DEF StartCollisions, Rests, worldVars
  <1>7. CASE EndCollisions
    <2>1. Range(toDestroy) \in SUBSET Nat /\ IsFiniteSet(Range(toDestroy))
      BY ListRange DEF Inv, DoomOK
    <2>2. Range(toDestroy') = Range(toDestroy)
      BY <1>7, <2>1, Sorted DEF EndCollisions, SortUnique
    <2> QED BY <1>7, <2>2 DEF EndCollisions, Rests, worldVars
  <1>8. CASE broadcastWorldState
    BY <1>8 DEF broadcastWorldState, Rests, worldVars
  <1>9. CASE UNCHANGED vars
    BY <1>9 DEF vars, Rests, worldVars, tickVars
  <1> QED BY <1>1, <1>2, <1>3, <1>4, <1>5, <1>6, <1>7, <1>8, <1>9
          DEF Next, IoThread, GameThread

(* The network id of every entity in the world is one it had before the    *)
(* step, or was never given out.                                           *)
IdsNeverReturn ==
    [][/\ nextNetworkId <= nextNetworkId'
       /\ \A e \in Live' : \/ e \in Live /\ NetworkIdOf(e)' = NetworkIdOf(e)
                           \/ NetworkIdOf(e)' >= nextNetworkId]_vars

(* The network id is an entity's own (Protocol.hpp:82): no two live        *)
(* entities share one, and as all of them are below the counter and only   *)
(* ids from the counter on come in, the id of an entity that is gone never *)
(* names another (GameServer.cpp:276, 528, 578, 741-786).                  *)
THEOREM NetworkIdsAreUnique == Spec => []NetworkIdsUnique /\ IdsNeverReturn
  <1>1. Inv => NetworkIdsUnique
    <2> SUFFICES ASSUME Inv PROVE NetworkIdsUnique
      OBVIOUS
    <2>1. /\ \A e \in Live : NetworkIdOf(e) \in 1 .. nextNetworkId - 1
          /\ nextNetworkId \in 1 .. MaxEntities + 1
          /\ \A d, e \in Live : NetworkIdOf(d) = NetworkIdOf(e) => d = e
      BY DEF Inv, WorldOK, IdsOK
    <2>2. \A e \in Live : NetworkIdOf(e) < nextNetworkId
      BY <2>1, BoundAssumption
    <2> QED BY <2>1, <2>2 DEF NetworkIdsUnique
  <1> DEFINE Stays == /\ nextNetworkId <= nextNetworkId'
                      /\ \A e \in Live' : \/ e \in Live /\ NetworkIdOf(e)' = NetworkIdOf(e)
                                          \/ NetworkIdOf(e)' >= nextNetworkId
  <1>2. Inv /\ [Next]_vars => Stays
    <2> SUFFICES ASSUME Inv, [Next]_vars PROVE Stays
      OBVIOUS
    <2>0. /\ nextNetworkId \in Nat
          /\ \A d \in Live : Same(d) => NetworkIdOf(d)' = NetworkIdOf(d)
      <3>1. \A d \in Live : d \in DOMAIN reg.storage.NetworkId
        BY EntityFacts DEF Inv, EntityShape, Always
      <3> QED BY <3>1, StaysWhatItIs, BoundAssumption DEF Inv, WorldOK, IdsOK
    <2>1. ASSUME NEW e, NEW kind, Joins(e, kind) PROVE Stays
      BY <2>0, <2>1 DEF Joins, TakeNetworkId
    <2>2. ASSUME NEW e, Quits(e) PROVE Stays
      BY <2>0, <2>2 DEF Quits
    <2>3. CASE updateLifetimes
      <3>1. DOMAIN reg = {"next_id", "free_ids", "alive_count", "storage"}
            /\ DOMAIN reg.storage = ComponentTypes
        BY DEF Inv, WorldOK, RegistryOK
      <3>2. /\ reg'.storage.NetworkId = reg.storage.NetworkId
            /\ reg'.next_id = reg.next_id /\ reg'.free_ids = reg.free_ids
        BY <2>3, <3>1 DEF updateLifetimes, ComponentTypes
      <3> QED BY <2>0, <2>3, <3>2 DEF NetworkIdOf, Live, updateLifetimes
    <2>4. CASE TestBullet
      <3>1. Live' = Live /\ \A d : NetworkIdOf(d)' = NetworkIdOf(d)
        BY <2>4, BulletTested
      <3> QED BY <2>0, <2>4, <3>1 DEF TestBullet
    <2>5. CASE Rests
      BY <2>0, <2>5 DEF Rests, NetworkIdOf, Live
    <2> HIDE DEF Stays
    <2> QED BY <2>1, <2>2, <2>3, <2>4, <2>5, WhatHappens
  <1>3. Inv /\ [Next]_vars => [Stays]_vars
    BY <1>2
  <1> QED BY <1>1, <1>3, WorldInvariant, PTL DEF Spec, IdsNeverReturn

(* A player never loses health, and an enemy only to a bullet that is      *)
(* doomed by it, one enemy per bullet, and no more than the bullet's       *)
(* damage (GameServer.cpp:672-705).                                        *)
THEOREM DamageIsAlwaysPaidFor == Spec => DamageIsPaidFor
  <1> DEFINE hurt == {e \in Live \cap Live' \cap DOMAIN reg.storage.Health :
                         HealthOf(e)' # HealthOf(e)}
             Paid == hurt # {} =>
                       \E e \in Enemies, b \in Bullets :
                           /\ hurt = {e}
                           /\ HealthOf(e)' + BULLET_DAMAGE >= HealthOf(e)
                           /\ HealthOf(e)' < HealthOf(e)
                           /\ b \notin Range(toDestroy) /\ b \in Range(toDestroy')
  <1>1. Inv /\ [Next]_vars => Paid
    <2> SUFFICES ASSUME Inv, [Next]_vars PROVE Paid
      OBVIOUS
    <2>0. \A d \in Live : Same(d) /\ d \in DOMAIN reg.storage.Health =>
                             HealthOf(d)' = HealthOf(d)
      BY DEF Same, HealthOf, ComponentTypes
    <2>1. ASSUME NEW e, NEW kind, Joins(e, kind) PROVE Paid
      <3>1. \A d \in Live \cap DOMAIN reg.storage.Health : HealthOf(d)' = HealthOf(d)
        BY <2>0, <2>1 DEF Joins
      <3> QED BY <3>1
    <2>2. ASSUME NEW e, Quits(e) PROVE Paid
      <3>1. \A d \in Live' \cap Live \cap DOMAIN reg.storage.Health : HealthOf(d)' = HealthOf(d)
        BY <2>0, <2>2 DEF Quits
      <3> QED BY <3>1
    <2>3. CASE updateLifetimes
      <3>1. DOMAIN reg = {"next_id", "free_ids", "alive_count", "storage"}
            /\ DOMAIN reg.storage = ComponentTypes
        BY DEF Inv, WorldOK, RegistryOK
      <3>2. reg'.storage.Health = reg.storage.Health
        BY <2>3, <3>1 DEF updateLifetimes, ComponentTypes
      <3> QED BY <3>2 DEF HealthOf
    <2>4. CASE Rests
      BY <2>4 DEF Rests, HealthOf
    <2>5. CASE TestBullet
      <3>1. PICK bullet \in Bullets \ Range(toDestroy), hit \in Hits :
              /\ hit \subseteq Enemies
              /\ \A d \in DOMAIN reg.storage.Health : HealthOf(d)' =
                    IF d \in hit THEN damaged(HealthOf(d), BULLET_DAMAGE) ELSE HealthOf(d)
              /\ Range(toDestroy') = Range(toDestroy)
                    \cup {d \in hit : Dies(HealthOf(d), BULLET_DAMAGE)}
                    \cup (IF hit = {} THEN {} ELSE {bullet})
        BY <2>5, BulletTested
      <3> SUFFICES ASSUME NEW e \in hurt
                   PROVE  \E d \in Enemies, b \in Bullets :
                             /\ hurt = {d}
                             /\ HealthOf(d)' + BULLET_DAMAGE >= HealthOf(d)
                             /\ HealthOf(d)' < HealthOf(d)
                             /\ b \notin Range(toDestroy) /\ b \in Range(toDestroy')
        OBVIOUS
      <3>2. e \in hit /\ e \in Enemies /\ HealthOf(e)' = damaged(HealthOf(e), BULLET_DAMAGE)
        BY <3>1
      <3>3. hurt \subseteq hit /\ hit = {e}
        <4>1. hit = {} \/ \E d : hit = {d}
          BY <3>1 DEF Hits
        <4> QED BY <3>1, <3>2, <4>1
      <3>4. bullet \in Range(toDestroy')
        BY <3>1, <3>3
      <3>5. HealthOf(e) \in {0, 25, 50} /\ HealthOf(e)' # HealthOf(e) /\ BULLET_DAMAGE = 25
        BY <3>2 DEF Inv, WorldOK, KindsOK, IsEnemy, BULLET_DAMAGE, ENEMY_HEALTH
      <3>6. HealthOf(e)' + BULLET_DAMAGE >= HealthOf(e) /\ HealthOf(e)' < HealthOf(e)
        BY <3>2, <3>5 DEF damaged
      <3>7. hurt = {e}
        BY <3>3
      <3> QED BY <3>1, <3>2, <3>4, <3>6, <3>7
    <2> HIDE DEF Paid
    <2> QED BY <2>1, <2>2, <2>3, <2>4, <2>5, WhatHappens
  <1>2. Inv /\ [Next]_vars => [Paid]_vars
    BY <1>1
  <1> QED BY <1>2, WorldInvariant, PTL DEF Spec, DamageIsPaidFor
-----------------------------------------------------------------------------
(* GameWorld implements Arena.                                             *)

Rec(e) ==
    [kind   |-> reg.storage.EntityTypeTag[e],
     health |-> IF e \in DOMAIN reg.storage.Health THEN HealthOf(e) ELSE 100,
     spent  |-> reg.storage.EntityTypeTag[e] = "BULLET_PLAYER" /\ e \in Range(toDestroy)]

(* The arena has an entry for each live entity, under its network id.      *)
Seen ==
    /\ World = [n \in DOMAIN World |-> World[n]]
    /\ DOMAIN World = {NetworkIdOf(e) : e \in Live}
    /\ \A e \in Live : World[NetworkIdOf(e)] = Rec(e)
    /\ \A d, e \in Live : NetworkIdOf(d) = NetworkIdOf(e) => d = e

LEMMA WorldSeen == Inv => Seen
  <1> SUFFICES ASSUME Inv PROVE Seen
    OBVIOUS
  <1>0. EntityShape
    BY EntityFacts DEF Inv
  <1>1. DOMAIN reg.storage.NetworkId = Live
    BY <1>0 DEF EntityShape, Always, Inv, WorldOK, RegistryOK, ComponentTypes
  <1>2. Range(reg.storage.NetworkId) = {NetworkIdOf(e) : e \in Live}
    BY <1>1 DEF Range, NetworkIdOf
  <1>3. \A d, e \in Live : NetworkIdOf(d) = NetworkIdOf(e) => d = e
    BY DEF Inv, WorldOK, IdsOK
  <1>4. \A e \in Live : EntityWith(NetworkIdOf(e)) = e
    BY <1>1, <1>3 DEF EntityWith
  <1>5. World = [n \in {NetworkIdOf(e) : e \in Live} |-> Rec(EntityWith(n))]
    BY <1>2 DEF World, Rec
  <1> QED BY <1>3, <1>4, <1>5 DEF Seen

LEMMA Mapped ==
  ASSUME Seen', NEW f, f = [n \in DOMAIN f |-> f[n]],
         DOMAIN f = {NetworkIdOf(e)' : e \in Live'},
         \A e \in Live' : f[NetworkIdOf(e)'] = Rec(e)'
  PROVE  World' = f
  <1>1. DOMAIN World' = DOMAIN f /\ World' = [n \in DOMAIN f |-> World'[n]]
    BY DEF Seen
  <1>2. ASSUME NEW n \in DOMAIN f PROVE World'[n] = f[n]
    <2>1. PICK e \in Live' : n = NetworkIdOf(e)'
      OBVIOUS
    <2> QED BY <2>1 DEF Seen
  <1> QED BY <1>1, <1>2

LEMMA Unchanged ==
  ASSUME Inv, NEW d \in Live, Same(d), d \in Range(toDestroy') <=> d \in Range(toDestroy)
  PROVE  Rec(d)' = Rec(d) /\ NetworkIdOf(d)' = NetworkIdOf(d)
  <1>1. d \in DOMAIN reg.storage.NetworkId /\ d \in DOMAIN reg.storage.EntityTypeTag
    BY EntityFacts DEF Inv, EntityShape, Always
  <1>2. /\ reg'.storage.EntityTypeTag[d] = reg.storage.EntityTypeTag[d]
        /\ d \in DOMAIN reg'.storage.Health <=> d \in DOMAIN reg.storage.Health
        /\ d \in DOMAIN reg.storage.Health => HealthOf(d)' = HealthOf(d)
    BY <1>1 DEF Same, HealthOf, ComponentTypes
  <1> QED BY <1>1, <1>2, StaysWhatItIs DEF Rec

(* What Arena's sets are here.                                             *)
LEMMA ArenaSets ==
  ASSUME Inv, NEW e \in Live
  PROVE  /\ NetworkIdOf(e) \in DOMAIN World
         /\ World[NetworkIdOf(e)] = Rec(e)
         /\ e \in Range(playerEntities) => NetworkIdOf(e) \in TheArena!Present("PLAYER")
         /\ e \in Enemies => NetworkIdOf(e) \in TheArena!Present("ENEMY")
         /\ e \in Bullets => NetworkIdOf(e) \in TheArena!Present("BULLET_PLAYER")
         /\ e \in Bullets \ Range(toDestroy) => NetworkIdOf(e) \in TheArena!Bullets
         /\ e \in Range(toDestroy) => NetworkIdOf(e) \in TheArena!Doomed
  <1>0. EntityShape /\ Seen
    BY EntityFacts, WorldSeen DEF Inv
  <1>1. NetworkIdOf(e) \in DOMAIN World /\ World[NetworkIdOf(e)] = Rec(e)
    BY <1>0 DEF Seen
  <1>2. /\ Rec(e).kind = reg.storage.EntityTypeTag[e]
        /\ e \in DOMAIN reg.storage.Health => Rec(e).health = HealthOf(e)
        /\ Rec(e).spent <=> reg.storage.EntityTypeTag[e] = "BULLET_PLAYER" /\ e \in Range(toDestroy)
    BY DEF Rec
  <1>3. /\ e \in Range(playerEntities) => Rec(e).kind = "PLAYER"
        /\ e \in Enemies => Rec(e).kind = "ENEMY" /\ e \in DOMAIN reg.storage.Health
        /\ e \in Bullets => Rec(e).kind = "BULLET_PLAYER"
    BY <1>0, <1>2 DEF EntityShape
  <1>4. /\ e \in Range(playerEntities) => NetworkIdOf(e) \in TheArena!Present("PLAYER")
        /\ e \in Enemies => NetworkIdOf(e) \in TheArena!Present("ENEMY")
        /\ e \in Bullets => NetworkIdOf(e) \in TheArena!Present("BULLET_PLAYER")
    BY <1>1, <1>3 DEF TheArena!Present
  <1>5. e \in Bullets \ Range(toDestroy) => NetworkIdOf(e) \in TheArena!Bullets
    BY <1>1, <1>2, <1>4 DEF TheArena!Bullets
  <1>6. ASSUME e \in Range(toDestroy) PROVE NetworkIdOf(e) \in TheArena!Doomed
    <2>1. e \in Enemies \/ e \in Bullets
      BY <1>6 DEF Inv, DoomOK
    <2>2. CASE e \in Enemies
      <3>1. Rec(e).health = 0
        BY <1>2, <1>3, <1>6, <2>2 DEF Inv, DoomOK, DeadEnemiesAreDoomed
      <3> QED BY <1>1, <1>4, <2>2, <3>1 DEF TheArena!Doomed, TheArena!Dead
    <2>3. CASE e \in Bullets
      <3>1. Rec(e).spent
        BY <1>2, <1>3, <1>6, <2>3
      <3>2. NetworkIdOf(e) \notin TheArena!Bullets
        BY <1>1, <3>1 DEF TheArena!Bullets
      <3> QED BY <1>4, <2>3, <3>2 DEF TheArena!Doomed
    <2> QED BY <2>1, <2>2, <2>3
  <1> QED BY <1>1, <1>4, <1>5, <1>6

LEMMA JoinIsEnter ==
  ASSUME Inv, Seen', NEW e, NEW kind \in {"PLAYER", "ENEMY", "BULLET_PLAYER"}, Joins(e, kind)
  PROVE  TheArena!Enter(kind)
  <1> PICK new : new = [kind |-> kind, health |-> TheArena!FullHealth(kind), spent |-> FALSE]
    OBVIOUS
  <1> PICK f : f = [n \in DOMAIN World \cup {nextNetworkId} |->
                      IF n = nextNetworkId THEN new ELSE World[n]]
    OBVIOUS
  <1>0. EntityShape /\ Seen
    BY EntityFacts, WorldSeen DEF Inv
  <1>1. /\ e \in Nat \ Live /\ Live' = Live \cup {e}
        /\ NetworkIdOf(e)' = nextNetworkId
        /\ toDestroy' = toDestroy
        /\ \A d \in Live : Same(d)
    BY DEF Joins
  <1>2. \A d \in Live : Rec(d)' = Rec(d) /\ NetworkIdOf(d)' = NetworkIdOf(d)
    BY <1>1, Unchanged
  <1>3. \A d \in Live : NetworkIdOf(d) # nextNetworkId
    BY BoundAssumption DEF Inv, WorldOK, IdsOK
  <1>4. Rec(e)' = new
    <2>1. e \notin Range(toDestroy')
      BY <1>0, <1>1 DEF EntityShape, Inv, DoomOK
    <2>2. reg'.storage.EntityTypeTag[e] = kind
      BY DEF Joins
    <2>3. (IF e \in DOMAIN reg'.storage.Health THEN HealthOf(e)' ELSE 100)
            = TheArena!FullHealth(kind)
      BY DEF Joins, TheArena!FullHealth, ENEMY_HEALTH, PLAYER_HEALTH
    <2> QED BY <2>1, <2>2, <2>3 DEF Rec
  <1>5. DOMAIN f = {NetworkIdOf(d)' : d \in Live'}
    <2>1. DOMAIN f = {NetworkIdOf(d) : d \in Live} \cup {nextNetworkId}
      BY <1>0 DEF Seen
    <2> QED BY <1>1, <1>2, <2>1
  <1>6. \A d \in Live' : f[NetworkIdOf(d)'] = Rec(d)'
    <2>1. f[NetworkIdOf(e)'] = Rec(e)'
      BY <1>1, <1>4
    <2>2. \A d \in Live : f[NetworkIdOf(d)'] = Rec(d)'
      BY <1>0, <1>2, <1>3 DEF Seen
    <2> QED BY <1>1, <2>1, <2>2
  <1>7. World' = f
    BY <1>5, <1>6, Mapped
  <1> QED BY <1>7 DEF Joins, Room, TakeNetworkId, TheArena!Enter

LEMMA QuitIsLeaveOrDestroy ==
  ASSUME Inv, Seen', NEW e \in Range(playerEntities) \cup Range(toDestroy), Quits(e)
  PROVE  \E n \in DOMAIN World : TheArena!Leave(n) \/ TheArena!Destroy(n)
  <1> PICK n : n = NetworkIdOf(e)
    OBVIOUS
  <1> PICK f : f = [k \in DOMAIN World \ {n} |-> World[k]]
    OBVIOUS
  <1>0. Seen
    BY WorldSeen
  <1>1. /\ e \in Live /\ Live' = Live \ {e}
        /\ Range(toDestroy') = Range(toDestroy) \ {e}
        /\ \A d \in Live' : Same(d)
        /\ nextNetworkId' = nextNetworkId
    BY DEF Quits
  <1>2. \A d \in Live' : /\ Rec(d)' = Rec(d) /\ NetworkIdOf(d)' = NetworkIdOf(d)
                         /\ d \in Live /\ NetworkIdOf(d) # n
    <2>1. \A d \in Live' : d \in Live /\ d # e
                           /\ (d \in Range(toDestroy') <=> d \in Range(toDestroy))
      BY <1>1
    <2>2. \A d \in Live' : NetworkIdOf(d) # n
      BY <1>0, <1>1, <2>1 DEF Seen
    <2> QED BY <1>1, <2>1, <2>2, Unchanged
  <1>3. DOMAIN f = {NetworkIdOf(d)' : d \in Live'}
    <2>1. DOMAIN f = {NetworkIdOf(d) : d \in Live} \ {n}
      BY <1>0 DEF Seen
    <2>2. {NetworkIdOf(d) : d \in Live} \ {n} = {NetworkIdOf(d) : d \in Live'}
      BY <1>1, <1>2
    <2> QED BY <1>2, <2>1, <2>2
  <1>4. \A d \in Live' : f[NetworkIdOf(d)'] = Rec(d)'
    BY <1>0, <1>2 DEF Seen
  <1>5. World' = f
    BY <1>3, <1>4, Mapped
  <1>6. n \in DOMAIN World /\ (n \in TheArena!Present("PLAYER") \/ n \in TheArena!Doomed)
    BY <1>1, ArenaSets
  <1> QED BY <1>1, <1>5, <1>6 DEF TheArena!Leave, TheArena!Destroy, TheArena!Without

LEMMA RestIsStutter ==
  ASSUME Inv, Seen', Rests
  PROVE  UNCHANGED TheArena!arenaVars
  <1>0. Seen /\ EntityShape
    BY WorldSeen, EntityFacts DEF Inv
  <1>1. /\ reg' = reg /\ nextNetworkId' = nextNetworkId
        /\ Range(toDestroy') = Range(toDestroy)
    BY DEF Rests
  <1>2. Live' = Live /\ \A d : Same(d)
    BY <1>1 DEF Live, Same
  <1>3. \A d \in Live : Rec(d)' = Rec(d) /\ NetworkIdOf(d)' = NetworkIdOf(d)
    BY <1>1, <1>2, Unchanged
  <1>4. DOMAIN World = {NetworkIdOf(d)' : d \in Live'}
    BY <1>0, <1>2, <1>3 DEF Seen
  <1>5. \A d \in Live' : World[NetworkIdOf(d)'] = Rec(d)'
    BY <1>0, <1>2, <1>3 DEF Seen
  <1>6. World = [n \in DOMAIN World |-> World[n]]
    BY <1>0 DEF Seen
  <1>7. World' = World
    BY <1>4, <1>5, <1>6, Mapped
  <1> QED BY <1>1, <1>7 DEF TheArena!arenaVars

LEMMA SpentSet ==
  ASSUME NEW k, NEW h, NEW s, NEW t, NEW r, NEW q,
         r = [kind |-> k, health |-> h, spent |-> s],
         q = [kind |-> k, health |-> h, spent |-> t]
  PROVE  q = [r EXCEPT !.spent = t]
  <1>1. DOMAIN q = DOMAIN r
    OBVIOUS
  <1>2. \A i \in DOMAIN q : q[i] = [r EXCEPT !.spent = t][i]
    OBVIOUS
  <1> QED BY <1>1, <1>2

LEMMA LifetimesAreExpire ==
  ASSUME Inv, Seen', updateLifetimes
  PROVE  (\E S \in SUBSET TheArena!Bullets : TheArena!Expire(S))
         \/ UNCHANGED TheArena!arenaVars
  <1> PICK S : S = {NetworkIdOf(e) : e \in Expired}
    OBVIOUS
  <1> PICK f : f = [n \in DOMAIN World |->
                      IF n \in S THEN [World[n] EXCEPT !.spent = TRUE] ELSE World[n]]
    OBVIOUS
  <1>0. Seen /\ EntityShape
    BY WorldSeen, EntityFacts DEF Inv
  <1>1. /\ nextNetworkId' = nextNetworkId
        /\ reg' = [reg EXCEPT !.storage.Lifetime =
                  [e \in DOMAIN @ |-> IF @[e] <= deltaTime THEN 0 ELSE @[e] - deltaTime]]
        /\ toDestroy' = Ascending(Expired)
        /\ Range(toDestroy) = {}
    BY DEF updateLifetimes, Inv, DoomOK, Range
  <1>2. Expired \subseteq Bullets
    <2>1. DOMAIN reg.storage.Lifetime \subseteq Live
      BY DEF Inv, WorldOK, RegistryOK, ComponentTypes
    <2> QED BY <1>0, <2>1 DEF Expired, EntityShape
  <1>3. Range(toDestroy') = Expired
    <2>1. Bullets \subseteq Nat /\ IsFiniteSet(Bullets)
      BY <1>0, FS_Subset DEF EntityShape
    <2>2. Expired \in SUBSET Nat /\ IsFiniteSet(Expired)
      BY <1>2, <2>1, FS_Subset
    <2> QED BY <1>1, <2>2, Sorted
  <1>4. /\ Live' = Live
        /\ \A d \in Live : /\ NetworkIdOf(d)' = NetworkIdOf(d)
                           /\ reg'.storage.EntityTypeTag[d] = reg.storage.EntityTypeTag[d]
                           /\ HealthOf(d)' = HealthOf(d)
        /\ reg'.storage.Health = reg.storage.Health
    <2>1. /\ DOMAIN reg = {"next_id", "free_ids", "alive_count", "storage"}
          /\ DOMAIN reg.storage = ComponentTypes
      BY DEF Inv, WorldOK, RegistryOK
    <2>2. /\ reg'.next_id = reg.next_id /\ reg'.free_ids = reg.free_ids
          /\ reg'.storage.NetworkId = reg.storage.NetworkId
          /\ reg'.storage.EntityTypeTag = reg.storage.EntityTypeTag
          /\ reg'.storage.Health = reg.storage.Health
      BY <1>1, <2>1 DEF ComponentTypes
    <2> QED BY <2>2 DEF Live, NetworkIdOf, HealthOf
  <1>5. \A d \in Live : NetworkIdOf(d) \in S <=> d \in Expired
    BY <1>0, <1>2 DEF Seen, EntityShape
  <1>6. \A d \in Live : f[NetworkIdOf(d)'] = Rec(d)'
    <2> SUFFICES ASSUME NEW d \in Live PROVE f[NetworkIdOf(d)] = Rec(d)'
      BY <1>4
    <2>1. NetworkIdOf(d) \in DOMAIN World /\ World[NetworkIdOf(d)] = Rec(d)
      BY <1>0 DEF Seen
    <2>2. CASE d \in Expired
      <3>1. reg.storage.EntityTypeTag[d] = "BULLET_PLAYER"
        BY <1>0, <1>2, <2>2 DEF EntityShape
      <3> PICK h : h = IF d \in DOMAIN reg.storage.Health THEN HealthOf(d) ELSE 100
        OBVIOUS
      <3>2. PICK s, t : s = FALSE /\ t = TRUE
        OBVIOUS
      <3>3. /\ Rec(d) = [kind |-> "BULLET_PLAYER", health |-> h, spent |-> s]
            /\ Rec(d)' = [kind |-> "BULLET_PLAYER", health |-> h, spent |-> t]
        BY <1>1, <1>3, <1>4, <2>2, <3>1, <3>2 DEF Rec
      <3>4. f[NetworkIdOf(d)] = [Rec(d) EXCEPT !.spent = t]
        BY <1>5, <2>1, <2>2, <3>2
      <3> QED BY <3>3, <3>4, SpentSet
    <2>3. CASE d \notin Expired
      <3>1. Rec(d)' = Rec(d)
        BY <1>1, <1>3, <1>4, <2>3 DEF Rec
      <3> QED BY <1>5, <2>1, <2>3, <3>1
    <2> QED BY <2>2, <2>3
  <1>7. DOMAIN f = {NetworkIdOf(d)' : d \in Live'}
    BY <1>0, <1>4 DEF Seen
  <1>8. World' = f
    BY <1>4, <1>6, <1>7, Mapped
  <1>9. S \subseteq TheArena!Bullets
    BY <1>0, <1>1, <1>2, ArenaSets DEF EntityShape
  <1>10. CASE S = {}
    <2>1. World = [n \in DOMAIN World |-> World[n]]
      BY <1>0 DEF Seen
    <2>2. f = World
      BY <1>10, <2>1
    <2> QED BY <1>1, <1>8, <2>2 DEF TheArena!arenaVars
  <1>11. CASE S # {}
    <2>1. TheArena!Expire(S)
      BY <1>1, <1>8, <1>9, <1>11 DEF TheArena!Expire
    <2> QED BY <1>9, <2>1
  <1> QED BY <1>10, <1>11

LEMMA TestIsHit ==
  ASSUME Inv, Seen', TestBullet
  PROVE  (\E b, n \in DOMAIN World : TheArena!Hit(b, n)) \/ UNCHANGED TheArena!arenaVars
  <1>0. Seen /\ EntityShape
    BY WorldSeen, EntityFacts DEF Inv
  <1>1. PICK bullet \in Bullets \ Range(toDestroy), hit \in Hits :
          /\ hit \subseteq Enemies
          /\ Live' = Live
          /\ \A b \in ComponentTypes \ {"Health"} : reg'.storage[b] = reg.storage[b]
          /\ DOMAIN reg'.storage.Health = DOMAIN reg.storage.Health
          /\ \A d \in Live : d \notin hit => Same(d)
          /\ \A d : NetworkIdOf(d)' = NetworkIdOf(d)
          /\ \A d \in DOMAIN reg.storage.Health : HealthOf(d)' =
                IF d \in hit THEN damaged(HealthOf(d), BULLET_DAMAGE) ELSE HealthOf(d)
          /\ Range(toDestroy') = Range(toDestroy)
                \cup {d \in hit : Dies(HealthOf(d), BULLET_DAMAGE)}
                \cup (IF hit = {} THEN {} ELSE {bullet})
    BY BulletTested
  <1>2. nextNetworkId' = nextNetworkId
    BY DEF TestBullet
  <1>3. hit = {} \/ \E e \in Enemies : hit = {e}
    BY <1>1 DEF Hits, Enemies
  <1>4. CASE hit = {}
    <2>1. Range(toDestroy') = Range(toDestroy)
      BY <1>1, <1>4
    <2>2. \A d \in Live : Rec(d)' = Rec(d) /\ NetworkIdOf(d)' = NetworkIdOf(d)
      BY <1>1, <1>4, <2>1, Unchanged
    <2>3. DOMAIN World = {NetworkIdOf(d)' : d \in Live'}
      BY <1>0, <1>1, <2>2 DEF Seen
    <2>4. \A d \in Live' : World[NetworkIdOf(d)'] = Rec(d)'
      BY <1>0, <1>1, <2>2 DEF Seen
    <2>5. World = [n \in DOMAIN World |-> World[n]]
      BY <1>0 DEF Seen
    <2>6. World' = World
      BY <2>3, <2>4, <2>5, Mapped
    <2> QED BY <1>2, <2>6 DEF TheArena!arenaVars
  <1>5. ASSUME NEW e \in Enemies, hit = {e} PROVE \E b, n \in DOMAIN World : TheArena!Hit(b, n)
    <2> PICK b : b = NetworkIdOf(bullet)
      OBVIOUS
    <2> PICK n : n = NetworkIdOf(e)
      OBVIOUS
    <2>1. /\ bullet \in Live /\ e \in Live /\ bullet # e
          /\ e \in DOMAIN reg.storage.Health /\ bullet \notin DOMAIN reg.storage.Health
          /\ reg.storage.EntityTypeTag[bullet] = "BULLET_PLAYER"
          /\ reg.storage.EntityTypeTag[e] = "ENEMY"
      BY <1>0, <1>1, <1>5 DEF EntityShape
    <2>2. /\ b \in TheArena!Bullets /\ n \in TheArena!Present("ENEMY")
          /\ b \in DOMAIN World /\ n \in DOMAIN World /\ b # n
          /\ World[b] = Rec(bullet) /\ World[n] = Rec(e)
      BY <1>0, <1>1, <1>5, <2>1, ArenaSets DEF Seen
    <2>0. PICK f : f = [World EXCEPT ![b].spent = TRUE,
                            ![n].health = IF @ > 25 THEN @ - 25 ELSE 0]
      OBVIOUS
    <2>3. /\ DOMAIN f = DOMAIN World /\ f = [k \in DOMAIN f |-> f[k]]
          /\ f[b] = [Rec(bullet) EXCEPT !.spent = TRUE]
          /\ f[n] = [Rec(e) EXCEPT !.health = IF @ > 25 THEN @ - 25 ELSE 0]
          /\ \A k \in DOMAIN World : k # b /\ k # n => f[k] = World[k]
      BY <2>0, <2>2
    <2>4. /\ \A d \in Live : reg'.storage.EntityTypeTag[d] = reg.storage.EntityTypeTag[d]
          /\ Range(toDestroy) \subseteq Range(toDestroy') /\ bullet \in Range(toDestroy')
          /\ \A d \in Live : d # e /\ d # bullet =>
                (d \in Range(toDestroy') <=> d \in Range(toDestroy))
      BY <1>1, <1>5 DEF ComponentTypes
    <2>5. Rec(bullet)' = f[b]
      <3>1. PICK s, t : s = FALSE /\ t = TRUE
        OBVIOUS
      <3>2. /\ Rec(bullet) = [kind |-> "BULLET_PLAYER", health |-> 100, spent |-> s]
            /\ Rec(bullet)' = [kind |-> "BULLET_PLAYER", health |-> 100, spent |-> t]
        BY <1>1, <2>1, <2>4, <3>1 DEF Rec
      <3>3. f[b] = [Rec(bullet) EXCEPT !.spent = t]
        BY <2>3, <3>1
      <3> QED BY <3>2, <3>3, SpentSet
    <2>6. Rec(e)' = f[n]
      <3>1. HealthOf(e)' = IF HealthOf(e) > 25 THEN HealthOf(e) - 25 ELSE 0
        BY <1>1, <1>5, <2>1 DEF damaged, BULLET_DAMAGE
      <3>2. PICK s : s = FALSE
        OBVIOUS
      <3>3. /\ Rec(e) = [kind |-> "ENEMY", health |-> HealthOf(e), spent |-> s]
            /\ Rec(e)' = [kind |-> "ENEMY", health |-> HealthOf(e)', spent |-> s]
        BY <1>1, <2>1, <2>4, <3>2 DEF Rec
      <3>4. f[n] = [kind |-> "ENEMY",
                    health |-> IF HealthOf(e) > 25 THEN HealthOf(e) - 25 ELSE 0,
                    spent |-> s]
        BY <2>3, <3>3
      <3> QED BY <3>1, <3>3, <3>4
    <2>7. \A d \in Live : d # e /\ d # bullet => Rec(d)' = f[NetworkIdOf(d)]
      <3> SUFFICES ASSUME NEW d \in Live, d # e, d # bullet PROVE Rec(d)' = f[NetworkIdOf(d)]
        OBVIOUS
      <3>1. Rec(d)' = Rec(d)
        BY <1>1, <1>5, <2>4, Unchanged
      <3>2. /\ NetworkIdOf(d) # b /\ NetworkIdOf(d) # n
            /\ NetworkIdOf(d) \in DOMAIN World /\ World[NetworkIdOf(d)] = Rec(d)
        BY <1>0, <2>1 DEF Seen
      <3> QED BY <2>3, <3>1, <3>2
    <2>8. \A d \in Live' : f[NetworkIdOf(d)'] = Rec(d)'
      BY <1>1, <2>5, <2>6, <2>7
    <2>9. DOMAIN f = {NetworkIdOf(d)' : d \in Live'}
      BY <1>0, <1>1, <2>3 DEF Seen
    <2>10. World' = f
      BY <2>3, <2>8, <2>9, Mapped
    <2> QED BY <1>2, <2>0, <2>2, <2>10 DEF TheArena!Hit, TheArena!BULLET_DAMAGE
  <1> QED BY <1>3, <1>4, <1>5

(* Whatever the order of the hooks and the steps of a tick, the world      *)
(* changes by the steps of Arena and no other (GameServer.cpp:75-785).     *)
THEOREM WorldIsAnArena == Spec => ArenaSpec
  <1>1. Init => TheArena!Init
    <2> SUFFICES ASSUME Init PROVE World = << >> /\ nextNetworkId = 1
      BY DEF TheArena!Init
    <2>1. reg.storage.NetworkId = << >> /\ nextNetworkId = 1
      BY DEF Init, EmptyRegistry, ComponentTypes
    <2>2. Range(reg.storage.NetworkId) = {}
      BY <2>1 DEF Range
    <2>3. World = << >>
      BY <2>2 DEF World
    <2> QED BY <2>1, <2>3
  <1>2. Inv /\ Inv' /\ [Next]_vars => [TheArena!Next]_(TheArena!arenaVars)
    <2> SUFFICES ASSUME Inv, Inv', [Next]_vars
                 PROVE  [TheArena!Next]_(TheArena!arenaVars)
      OBVIOUS
    <2>0. Seen'
      BY WorldSeen, PTL
    <2>1. ASSUME NEW e, NEW kind \in {"PLAYER", "ENEMY", "BULLET_PLAYER"}, Joins(e, kind)
          PROVE  TheArena!Next
      BY <2>0, <2>1, JoinIsEnter DEF TheArena!Next, TheArena!Kinds
    <2>2. ASSUME NEW e \in Range(playerEntities) \cup Range(toDestroy), Quits(e)
          PROVE  TheArena!Next
      BY <2>0, <2>2, QuitIsLeaveOrDestroy DEF TheArena!Next
    <2>3. CASE updateLifetimes
      BY <2>0, <2>3, LifetimesAreExpire DEF TheArena!Next
    <2>4. CASE TestBullet
      BY <2>0, <2>4, TestIsHit DEF TheArena!Next
    <2>5. CASE Rests
      BY <2>0, <2>5, RestIsStutter
    <2> QED BY <2>1, <2>2, <2>3, <2>4, <2>5, WhatHappens
  <1> QED BY <1>1, <1>2, WorldInvariant, PTL DEF Spec, ArenaSpec, TheArena!Spec
=============================================================================

------------------------------ MODULE GameWorld ------------------------------
(***************************************************************************)
(* The game world of GameServer: which entities exist, what they are, how  *)
(* they are tracked, and what the clients have been told of them.  Two     *)
(* threads work on it: the io_context's thread runs the player hooks, the  *)
(* game thread runs ticks.  The hooks are one action each; a tick goes     *)
(* through the phases of updateGame and broadcastWorldState, one action    *)
(* per entity destroyed and per bullet tested, with hooks between any two  *)
(* of them.  (The code takes no lock; what happens inside an action when   *)
(* both threads are in it is the subject of WorldRace.)                    *)
(*                                                                         *)
(* Where things are is left out: a bullet may overlap any one enemy or     *)
(* none, and velocities, which only inputs change, are not kept.  Flight   *)
(* has the geometry; it also shows why the tests for entities that left    *)
(* the screen (GameServer.cpp:707-729), absent here, never succeed.  Time  *)
(* is in seconds.  A player id names its session (the ids do not wrap      *)
(* here; Sessions has the wrap).  An operator X_... is a mutated form of   *)
(* X, a bug the properties must be able to see.                            *)
(***************************************************************************)
EXTENDS EntityRegistry, FiniteSets

CONSTANTS
    Players,                   \* ids of the sessions that may become players
    MaxEntities,               \* bound: entities ever spawned
    Dts,                       \* possible deltaTime of a tick
    MIN_ENEMY_SPAWN_INTERVAL,  \* seconds between two enemies (3 in the code)
    MAX_ENEMY_SPAWN_INTERVAL,  \* (5 in the code)
    BULLET_LIFETIME,           \* seconds (3 in the code)
    MAX_BATCH_ENTITIES         \* entities in one batch update (10 in the code)

ASSUME PlayersAssumption == Players \subseteq Nat \ {0}
ASSUME BoundAssumption   == MaxEntities \in Nat
ASSUME TimesAssumption   ==
    /\ Dts \subseteq Nat \ {0}
    /\ BULLET_LIFETIME \in Nat \ {0}
    /\ MIN_ENEMY_SPAWN_INTERVAL \in Nat
    /\ MAX_ENEMY_SPAWN_INTERVAL \in Nat
    /\ MIN_ENEMY_SPAWN_INTERVAL <= MAX_ENEMY_SPAWN_INTERVAL
ASSUME BatchAssumption   == MAX_BATCH_ENTITIES \in Nat

VARIABLES
    reg,                 \* _registry
    playerEntities,      \* _playerEntities: player id -> entity
    enemyEntities,       \* _enemyEntities
    bulletEntities,      \* _bulletEntities
    nextNetworkId,       \* _nextNetworkId
    enemySpawnTimer,     \* _enemySpawnTimer
    nextEnemySpawnTime,  \* _nextEnemySpawnTime
    phase,               \* where the game thread is
    deltaTime,           \* updateGame's argument
    unchecked,           \* bullets checkCollisions has not tested yet
    toDestroy,           \* the list of doomed entities of the current phase
    session,             \* progress of each player's session
    announced            \* network ids each client was sent ENTITY_SPAWN for
                         \* and no ENTITY_DESTROY since

worldVars == << reg, playerEntities, enemyEntities, bulletEntities, nextNetworkId >>
timerVars == << enemySpawnTimer, nextEnemySpawnTime, deltaTime >>
tickVars  == << phase, unchecked, toDestroy >>
vars      == << worldVars, timerVars, tickVars, session, announced >>

ComponentTypes == {"Position", "Velocity", "Drawable", "NetworkId", "PlayerOwner",
                   "Health", "Damage", "EntityTypeTag", "Lifetime"}
Here == "somewhere"      \* a Position, Velocity or Drawable

PLAYER_HEALTH == 100
ENEMY_HEALTH  == 50
BULLET_DAMAGE == 25

UdpReady == {p \in Players : session[p] = "ready"}

(* spawn_entity() and the add_component() calls that follow it.            *)
create(r, comps) ==
    LET e == spawned_id(r)
    IN  [spawn_entity(r) EXCEPT !.storage = [c \in DOMAIN @ |->
            IF c \in DOMAIN comps THEN insert_at(@[c], e, comps[c]) ELSE @[c]]]

PlayerComponents(p, n) ==
    [Position |-> Here, Velocity |-> Here, Drawable |-> Here, NetworkId |-> n,
     PlayerOwner |-> p, Health |-> PLAYER_HEALTH, EntityTypeTag |-> "PLAYER"]
BulletComponents(p, n) ==
    [Position |-> Here, Velocity |-> Here, Drawable |-> Here, NetworkId |-> n,
     PlayerOwner |-> p, EntityTypeTag |-> "BULLET_PLAYER",
     Damage |-> BULLET_DAMAGE, Lifetime |-> BULLET_LIFETIME]
EnemyComponents(n) ==
    [Position |-> Here, Velocity |-> Here, Drawable |-> Here, NetworkId |-> n,
     PlayerOwner |-> 0, EntityTypeTag |-> "ENEMY", Health |-> ENEMY_HEALTH]

(* _nextNetworkId++, and the bound on it.                                  *)
TakeNetworkId_Kept == nextNetworkId' = nextNetworkId
TakeNetworkId      == nextNetworkId' = nextNetworkId + 1
Room               == nextNetworkId <= MaxEntities

NetworkIdOf(e) == reg.storage.NetworkId[e]

(* The network ids of those of S that have the components sent in a spawn. *)
SpawnNotices(S) ==
    {NetworkIdOf(e) : e \in {e \in S : \A c \in {"NetworkId", "Position", "Velocity",
                                                 "EntityTypeTag", "PlayerOwner"} :
                                          e \in DOMAIN reg.storage[c]}}

SendSpawn(ids)   == announced' = [p \in Players |->
                       IF p \in UdpReady THEN announced[p] \cup ids ELSE announced[p]]
SendDestroy(ids) == announced' = [p \in Players |->
                       IF p \in UdpReady THEN announced[p] \ ids ELSE announced[p]]

Init ==
    /\ reg = [EmptyRegistry EXCEPT !.storage = [c \in ComponentTypes |-> << >>]]
    /\ playerEntities = << >>
    /\ enemyEntities = << >>
    /\ bulletEntities = << >>
    /\ nextNetworkId = 1
    /\ enemySpawnTimer = 0
    /\ nextEnemySpawnTime = MIN_ENEMY_SPAWN_INTERVAL
    /\ phase = "spawn"
    /\ deltaTime \in Dts
    /\ unchecked = << >>
    /\ toDestroy = << >>
    /\ session = [p \in Players |-> "none"]
    /\ announced = [p \in Players |-> {}]
-----------------------------------------------------------------------------
(* The thread of io_context.                                               *)

onPlayerConnected(p) ==
    /\ session[p] = "none"
    /\ Room
    /\ session' = [session EXCEPT ![p] = "connected"]
    /\ reg' = create(reg, PlayerComponents(p, nextNetworkId))
    /\ TakeNetworkId
    /\ playerEntities' = insert_at(playerEntities, p, spawned_id(reg))
    /\ UNCHANGED << enemyEntities, bulletEntities, timerVars, tickVars, announced >>

(* The first packet of p: everything there is goes to p, p's own entity to *)
(* every client that is ready, p included.                                 *)
Everything_NoBullets == Range(playerEntities) \cup Range(enemyEntities)
Everything ==
    Range(playerEntities) \cup Range(enemyEntities) \cup Range(bulletEntities)

onPlayerUdpReady(p) ==
    /\ session[p] = "connected"
    /\ session' = [session EXCEPT ![p] = "ready"]
    /\ announced' = [q \in Players |->
          CASE q = p           -> announced[p] \cup SpawnNotices(Everything)
            [] q \in UdpReady  -> announced[q] \cup SpawnNotices({playerEntities[p]})
            [] OTHER           -> announced[q]]
    /\ UNCHANGED << worldVars, timerVars, tickVars >>

(* A second departure of p finds no entry and changes nothing.             *)
onPlayerDisconnected(p) ==
    /\ session[p] \in {"connected", "ready"}
    /\ session' = [session EXCEPT ![p] = "gone"]
    /\ reg' = kill_entity(reg, playerEntities[p])
    /\ playerEntities' = erase(playerEntities, p)
    /\ SendDestroy({NetworkIdOf(playerEntities[p])})
    /\ UNCHANGED << enemyEntities, bulletEntities, nextNetworkId, timerVars, tickVars >>

(* An input with the shoot button, not within the cooldown of the last.    *)
spawnBullet(p) ==
    /\ session[p] = "ready"
    /\ p \in DOMAIN playerEntities
    /\ playerEntities[p] \in DOMAIN reg.storage.Position
    /\ Room
    /\ reg' = create(reg, BulletComponents(p, nextNetworkId))
    /\ TakeNetworkId
    /\ bulletEntities' = Append(bulletEntities, spawned_id(reg))
    /\ SendSpawn({nextNetworkId})
    /\ UNCHANGED << playerEntities, enemyEntities, timerVars, tickVars, session >>

IoThread == \E p \in Players : \/ onPlayerConnected(p)
                               \/ onPlayerUdpReady(p)
                               \/ onPlayerDisconnected(p)
                               \/ spawnBullet(p)
-----------------------------------------------------------------------------
(* The game thread: one tick, phase after phase.                           *)

spawnEnemy ==
    /\ reg' = create(reg, EnemyComponents(nextNetworkId))
    /\ TakeNetworkId
    /\ enemyEntities' = Append(enemyEntities, spawned_id(reg))
    /\ SendSpawn({nextNetworkId})

(* The head of updateGame.  Once the bound on entities is reached, an      *)
(* enemy that is due stays due.                                            *)
SpawnPhase ==
    /\ phase = "spawn"
    /\ IF enemySpawnTimer + deltaTime >= nextEnemySpawnTime /\ Room
       THEN /\ spawnEnemy
            /\ enemySpawnTimer' = 0
            /\ nextEnemySpawnTime' \in MIN_ENEMY_SPAWN_INTERVAL .. MAX_ENEMY_SPAWN_INTERVAL
       ELSE /\ enemySpawnTimer' = Min({enemySpawnTimer + deltaTime, nextEnemySpawnTime})
            /\ UNCHANGED << reg, nextNetworkId, enemyEntities, announced, nextEnemySpawnTime >>
    /\ phase' = "lifetimes"
    /\ UNCHANGED << playerEntities, bulletEntities, deltaTime, unchecked, toDestroy, session >>

(* A set of entities, or of places in a list, in ascending order.          *)
Ascending(S) ==
    CHOOSE s \in [1 .. Cardinality(S) -> S] : \A i, j \in DOMAIN s : i < j => s[i] < s[j]

(* updateLifetimes: every lifetime goes down; an entity whose lifetime is  *)
(* over is doomed, in ascending order.                                     *)
Expired_ExactlyZero ==
    {e \in DOMAIN reg.storage.Lifetime : reg.storage.Lifetime[e] = deltaTime}
Expired ==
    {e \in DOMAIN reg.storage.Lifetime : reg.storage.Lifetime[e] <= deltaTime}

updateLifetimes ==
    /\ phase = "lifetimes"
    /\ reg' = [reg EXCEPT !.storage.Lifetime =
                  [e \in DOMAIN @ |-> IF @[e] <= deltaTime THEN 0 ELSE @[e] - deltaTime]]
    /\ toDestroy' = Ascending(Expired)
    /\ phase' = "expire"
    /\ UNCHANGED << playerEntities, enemyEntities, bulletEntities, nextNetworkId,
                    timerVars, unchecked, session, announced >>

(* destroyEntity, for the next doomed entity of either list.               *)
Without_FirstOnly(list, e) == IF list # << >> /\ Head(list) = e THEN Tail(list) ELSE list
Without(list, e) ==
    LET kept == Ascending({i \in DOMAIN list : list[i] # e})
    IN  [k \in DOMAIN kept |-> list[kept[k]]]

destroyEntity ==
    /\ phase \in {"expire", "destroy"}
    /\ toDestroy # << >>
    /\ LET e == Head(toDestroy) IN
       /\ enemyEntities' = Without(enemyEntities, e)
       /\ bulletEntities' = Without(bulletEntities, e)
       /\ reg' = kill_entity(reg, e)
       /\ SendDestroy(IF e \in DOMAIN reg.storage.NetworkId THEN {NetworkIdOf(e)} ELSE {})
    /\ toDestroy' = Tail(toDestroy)
    /\ UNCHANGED << playerEntities, nextNetworkId, timerVars, phase, unchecked, session >>

(* The positions change, and checkCollisions starts on the bullets.        *)
StartCollisions ==
    /\ phase = "expire"
    /\ toDestroy = << >>
    /\ unchecked' = bulletEntities
    /\ phase' = "collide"
    /\ UNCHANGED << worldVars, timerVars, toDestroy, session, announced >>

(* What a bullet hits: the first enemy it overlaps, or none.               *)
Hits_Anyone == {{}} \cup {{e} : e \in DOMAIN reg.storage.Health}
Hits == {{}} \cup {{e} : e \in Range(enemyEntities)}

damaged_Always(health, damage) == health - damage
damaged(health, damage) == IF health > damage THEN health - damage ELSE 0

Dies_NotAtZero(health, damage) == health < damage
Dies_AtFirstHit(health, damage) == health >= damage
Dies(health, damage) == health <= damage

TestBullet ==
    /\ phase = "collide"
    /\ unchecked # << >>
    /\ LET bullet == Head(unchecked)
           damage == reg.storage.Damage[bullet]
       IN  \E hit \in Hits :
             /\ reg' = [reg EXCEPT !.storage.Health = [e \in DOMAIN @ |->
                           IF e \in hit THEN damaged(@[e], damage) ELSE @[e]]]
             /\ toDestroy' = toDestroy
                   \o SetToSeq({e \in hit : Dies(reg.storage.Health[e], damage)})
                   \o (IF hit = {} THEN << >> ELSE << bullet >>)
    /\ unchecked' = Tail(unchecked)
    /\ UNCHANGED << playerEntities, enemyEntities, bulletEntities, nextNetworkId,
                    timerVars, phase, session, announced >>

(* sort and unique: each doomed entity once, in ascending order.           *)
SortUnique_KeepsDuplicates(list) == SortSeq(list, <)
SortUnique(list) == Ascending(Range(list))

EndCollisions ==
    /\ phase = "collide"
    /\ unchecked = << >>
    /\ toDestroy' = SortUnique(toDestroy)
    /\ phase' = "destroy"
    /\ UNCHANGED << worldVars, timerVars, unchecked, session, announced >>

(* The entities of a batch update: the first MAX_BATCH_ENTITIES, by id,    *)
(* that have the components it sends.                                      *)
Drawn == DOMAIN reg.storage.Position \cap DOMAIN reg.storage.NetworkId
           \cap DOMAIN reg.storage.Drawable

Batch_OneLess == {e \in Drawn : Cardinality({d \in Drawn : d < e}) < MAX_BATCH_ENTITIES - 1}
Batch == {e \in Drawn : Cardinality({d \in Drawn : d < e}) < MAX_BATCH_ENTITIES}

(* It changes nothing here; the next tick begins.                          *)
broadcastWorldState ==
    /\ phase = "destroy"
    /\ toDestroy = << >>
    /\ phase' = "spawn"
    /\ deltaTime' \in Dts
    /\ UNCHANGED << worldVars, enemySpawnTimer, nextEnemySpawnTime, unchecked, toDestroy,
                    session, announced >>

GameThread == \/ SpawnPhase
              \/ updateLifetimes
              \/ destroyEntity
              \/ StartCollisions
              \/ TestBullet
              \/ EndCollisions
              \/ broadcastWorldState

Next == IoThread \/ GameThread

(* The game thread runs as long as the server does (gameLoopThread); what  *)
(* clients do is up to them.                                               *)
Spec == Init /\ [][Next]_vars /\ WF_vars(GameThread)
-----------------------------------------------------------------------------
Live     == 0 .. reg.next_id - 1 \ Range(reg.free_ids)
Enemies  == Range(enemyEntities)
Bullets  == Range(bulletEntities)
HealthOf(e) == reg.storage.Health[e]

Ids == 0 .. MaxEntities - 1

TypeOK ==
    /\ DOMAIN reg.storage = ComponentTypes
    /\ \A c \in ComponentTypes : DOMAIN reg.storage[c] \subseteq Ids
    /\ Range(reg.storage.Health) \subseteq 0 .. PLAYER_HEALTH
    /\ Range(reg.storage.Lifetime) \subseteq 0 .. BULLET_LIFETIME
    /\ Range(reg.storage.NetworkId) \subseteq 1 .. MaxEntities
    /\ reg.next_id \in 0 .. MaxEntities /\ reg.free_ids \in Seq(Ids)
    /\ DOMAIN playerEntities \subseteq Players /\ Range(playerEntities) \subseteq Ids
    /\ enemyEntities \in Seq(Ids) /\ bulletEntities \in Seq(Ids)
    /\ nextNetworkId \in 1 .. MaxEntities + 1
    /\ nextEnemySpawnTime \in MIN_ENEMY_SPAWN_INTERVAL .. MAX_ENEMY_SPAWN_INTERVAL
    /\ enemySpawnTimer \in 0 .. nextEnemySpawnTime
    /\ deltaTime \in Dts
    /\ phase \in {"spawn", "lifetimes", "expire", "collide", "destroy"}
    /\ unchecked \in Seq(Ids) /\ toDestroy \in Seq(Ids)
    /\ session \in [Players -> {"none", "connected", "ready", "gone"}]
    /\ announced \in [Players -> SUBSET (1 .. MaxEntities)]

(* The live entities of the registry are exactly those the three           *)
(* containers track, each of them once: no entity is lost, none is tracked *)
(* after it was killed, and no id is free twice.  kill_entity() checks     *)
(* nothing (Registry.hpp:108-114), so this rests on destroyEntity,         *)
(* on sort and unique, and on every caller of spawn_entity.                *)
TrackingExact ==
    /\ Range(playerEntities) \cup Enemies \cup Bullets = Live
    /\ Cardinality(DOMAIN playerEntities) + Len(enemyEntities) + Len(bulletEntities)
          = Cardinality(Live)
    /\ reg.alive_count = Cardinality(Live)
    /\ Cardinality(Range(reg.free_ids)) = Len(reg.free_ids)

(* Every container holds entities of its own kind, with that kind's        *)
(* components and no others, although ids are reused across kinds.         *)
HandlesKeepTheirKind ==
    LET Has(e, comps) == /\ \A c \in DOMAIN comps : e \in DOMAIN reg.storage[c]
                         /\ \A c \in ComponentTypes \ DOMAIN comps :
                               e \notin DOMAIN reg.storage[c]
                         /\ reg.storage.EntityTypeTag[e] = comps.EntityTypeTag
    IN  /\ \A p \in DOMAIN playerEntities :
              /\ Has(playerEntities[p], PlayerComponents(p, 1))
              /\ reg.storage.PlayerOwner[playerEntities[p]] = p
        /\ \A e \in Enemies : Has(e, EnemyComponents(1))
        /\ \A b \in Bullets : Has(b, BulletComponents(1, 1))

(* The doomed are live enemies and bullets, each listed once when the time *)
(* comes to destroy them, whatever the hooks did since they were listed.   *)
DoomedAreLive ==
    /\ Range(toDestroy) \subseteq Enemies \cup Bullets
    /\ phase \in {"expire", "destroy"} => Cardinality(Range(toDestroy)) = Len(toDestroy)

(* No two entities in the world have the same network id ("ID réseau       *)
(* unique", Protocol.hpp:82), and none has an id not yet given out.        *)
NetworkIdsUnique ==
    /\ \A d, e \in Live : NetworkIdOf(d) = NetworkIdOf(e) => d = e
    /\ \A e \in Live : NetworkIdOf(e) < nextNetworkId

(* What a ready client was told adds up to the world: every enemy, every   *)
(* bullet and every player whose endpoint is known, and nothing that is    *)
(* gone, whenever it joined (GameServer.cpp:378-440, 536-561, 585-610,     *)
(* 767-785).                                                               *)
ViewMatchesWorld ==
    LET Shown == Enemies \cup Bullets \cup {playerEntities[p] : p \in UdpReady}
    IN  \A p \in UdpReady :
          /\ {NetworkIdOf(e) : e \in Shown} \subseteq announced[p]
          /\ announced[p] \subseteq {NetworkIdOf(e) : e \in Live}

(* An enemy without health is doomed, and an enemy that is doomed has no   *)
(* health: no collision leaves a dead enemy in play or kills a live one.   *)
DeadEnemiesAreDoomed ==
    \A e \in Enemies : HealthOf(e) = 0 <=> e \in Range(toDestroy)

(* Whatever stays in the world keeps its health, but for one enemy at a    *)
(* time: it loses at most BULLET_DAMAGE to one bullet, which is doomed by  *)
(* it ("Applique des dégâts, détruit la balle", ENEMY_SYSTEM.md:24).  No   *)
(* step changes a player's health, and none gives health back.             *)
DamageIsPaidFor ==
    [][LET hurt == {e \in Live \cap Live' \cap DOMAIN reg.storage.Health :
                       HealthOf(e)' # HealthOf(e)}
       IN  hurt # {} =>
             \E e \in Enemies, b \in Bullets :
                 /\ hurt = {e}
                 /\ HealthOf(e)' + BULLET_DAMAGE >= HealthOf(e)
                 /\ HealthOf(e)' < HealthOf(e)
                 /\ b \notin Range(toDestroy) /\ b \in Range(toDestroy')]_vars

(* A batch update carries every entity of the world ("La santé est envoyée *)
(* aux clients à chaque update", ENEMY_SYSTEM.md:33).                      *)
BatchCoversWorld == phase = "destroy" /\ toDestroy = << >> => Batch = Live

(* The world as Arena sees it: an entity is an entry under its network id, *)
(* and one on a list of the doomed is spent if it is a bullet.             *)
EntityWith(n) == CHOOSE e \in DOMAIN reg.storage.NetworkId : NetworkIdOf(e) = n

World ==
    [n \in Range(reg.storage.NetworkId) |->
        LET e == EntityWith(n)
            kind == reg.storage.EntityTypeTag[e]
        IN  [kind   |-> kind,
             health |-> IF e \in DOMAIN reg.storage.Health THEN HealthOf(e) ELSE 100,
             spent  |-> kind = "BULLET_PLAYER" /\ e \in Range(toDestroy)]]

TheArena == INSTANCE Arena WITH arena <- World, MaxIds <- MaxEntities

(* Whatever the order of the hooks and the steps of a tick, what happens   *)
(* to the world is a sequence of arrivals, departures, hits, expiries and  *)
(* destructions as Arena has them: no entity vanishes, comes back or       *)
(* changes kind or health by a step of another (GameServer.cpp:75-785).    *)
ArenaSpec == TheArena!Spec

(* A bullet does not stay: a bullet in the world is sooner or later gone,  *)
(* hit or expired (updateLifetimes, GameServer.cpp:615-637).               *)
BulletsExpire ==
    \A n \in 1 .. MaxEntities :
        (\E b \in Bullets : NetworkIdOf(b) = n) ~> (\A b \in Bullets : NetworkIdOf(b) # n)
=============================================================================

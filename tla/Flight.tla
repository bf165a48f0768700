------------------------------- MODULE Flight -------------------------------
(***************************************************************************)
(* The geometry of the game: one player, its bullets and one enemy, with   *)
(* the code's own speeds, sizes and limits (src/GameServer.cpp).  Time is  *)
(* in steps of 50 ms and lengths in half pixels, in which every number of  *)
(* the code is whole.  A tick applies updateLifetimes, the movement with   *)
(* its clamp, and checkCollisions; inputs come between ticks.  What the    *)
(* entities are to the registry and to the clients is in GameWorld.  An    *)
(* operator X_... is a mutated form of X, a bug the properties must be     *)
(* able to see.                                                            *)
(***************************************************************************)
EXTENDS Integers, FiniteSets

CONSTANTS
    Dts,          \* possible deltaTime of a tick, in steps
    Moves,        \* << moveX, moveY >> of the inputs the player sends
    StartXs,      \* where the player may start, in half pixels
    EnemyYs,      \* where an enemy may appear, in half pixels
    MaxBullets    \* bound: bullets in flight

ASSUME DtsAssumption    == Dts \subseteq Nat \ {0}
ASSUME InputsAssumption == Moves \subseteq {-1, 0, 1} \X {-1, 0, 1}

px == 2                          \* half pixels in a pixel
SECOND == 20                     \* steps in a second

WIDTH  == 800 * px
HEIGHT == 600 * px

(* Ships start 100 pixels apart by player id, high ids off the screen.     *)
ASSUME PlacesAssumption == StartXs \subseteq Nat /\ EnemyYs \subseteq 0 .. HEIGHT

PLAYER_SPEED   == (200 * px) \div SECOND
BULLET_SPEED   == (400 * px) \div SECOND
ENEMY_SPEED    == (150 * px) \div SECOND
SHOOT_COOLDOWN == 5              \* 250 ms
LIFETIME       == 3 * SECOND
ENEMY_HEALTH   == 50
BULLET_DAMAGE  == 25

BulletSize == [width |-> 8 * px, height |-> 2 * px]
EnemySize  == [width |-> 40 * px, height |-> 40 * px]

VARIABLES
    player,     \* position of the player's ship and its velocity
    sinceShot,  \* steps since its last shot, at most SHOOT_COOLDOWN
    bullets,    \* bullets in flight: position, remaining lifetime
    enemy       \* the enemy: position, health; health 0: there is none

vars == << player, sinceShot, bullets, enemy >>

NoEnemy == [x |-> 0, y |-> 0, health |-> 0]

Init ==
    /\ \E x \in StartXs : player = [x |-> x, y |-> 300 * px, vx |-> 0, vy |-> 0]
    /\ sinceShot = SHOOT_COOLDOWN
    /\ bullets = {}
    /\ enemy = NoEnemy
-----------------------------------------------------------------------------
handlePlayerInput(move) ==
    /\ player' = [player EXCEPT !.vx = move[1] * PLAYER_SPEED, !.vy = move[2] * PLAYER_SPEED]
    /\ UNCHANGED << sinceShot, bullets, enemy >>

(* A bullet appears to the right of the ship.                              *)
BulletOffset_None == 0
BulletOffset == 60 * px

spawnBullet ==
    /\ sinceShot >= SHOOT_COOLDOWN
    /\ Cardinality(bullets) < MaxBullets
    /\ bullets' = bullets \cup {[x |-> player.x + BulletOffset, y |-> player.y + 20 * px,
                                 remaining |-> LIFETIME]}
    /\ sinceShot' = 0
    /\ UNCHANGED << player, enemy >>

(* The enemies come at least three seconds apart; one is enough here.      *)
spawnEnemy ==
    /\ enemy.health = 0
    /\ \E y \in EnemyYs : enemy' = [x |-> 850 * px, y |-> y, health |-> ENEMY_HEALTH]
    /\ UNCHANGED << player, sinceShot, bullets >>

(* The boundary check of updateGame, applied to whatever moves.            *)
Clamp(v, limit) == IF v < 0 THEN 0 ELSE IF v > limit THEN limit ELSE v

ClampMoving_PlayersOnly(v, limit) == v
ClampMoving(v, limit) == Clamp(v, limit)

MovedPlayer(dt) == [player EXCEPT !.x = Clamp(@ + player.vx * dt, WIDTH),
                                  !.y = Clamp(@ + player.vy * dt, HEIGHT)]
MovedEnemy(dt)  == [enemy EXCEPT !.x = ClampMoving(@ - ENEMY_SPEED * dt, WIDTH),
                                 !.y = ClampMoving(@, HEIGHT)]
MovedBullet(b, dt) == [b EXCEPT !.x = ClampMoving(@ + BULLET_SPEED * dt, WIDTH),
                                !.y = ClampMoving(@, HEIGHT), !.remaining = @ - dt]

InFlight(dt) == {MovedBullet(b, dt) : b \in {b \in bullets : b.remaining > dt}}

(* The AABB test of checkCollisions.                                       *)
Overlap_LeftEdges(b, e) ==
    /\ b.x >= e.x - px /\ b.x <= e.x + px
    /\ b.y < e.y + EnemySize.height /\ b.y + BulletSize.height > e.y
Overlap(b, e) ==
    /\ b.x < e.x + EnemySize.width  /\ b.x + BulletSize.width > e.x
    /\ b.y < e.y + EnemySize.height /\ b.y + BulletSize.height > e.y

OffLeft(e)  == e.x < -100 * px
OffRight(b) == b.x > 900 * px

(* What is left of an enemy hit by n bullets.                              *)
AfterHits(e, n) ==
    IF e.health <= n * BULLET_DAMAGE THEN NoEnemy
    ELSE [e EXCEPT !.health = @ - n * BULLET_DAMAGE]

Tick(dt) ==
    LET moved == MovedEnemy(dt)
        hits  == IF enemy.health = 0 THEN {} ELSE {b \in InFlight(dt) : Overlap(b, moved)}
    IN  /\ player' = MovedPlayer(dt)
        /\ bullets' = {b \in InFlight(dt) \ hits : ~OffRight(b)}
        /\ enemy' = IF enemy.health = 0 \/ OffLeft(moved) THEN NoEnemy
                    ELSE AfterHits(moved, Cardinality(hits))
        /\ sinceShot' = IF sinceShot + dt > SHOOT_COOLDOWN THEN SHOOT_COOLDOWN ELSE sinceShot + dt

GameThread == \E dt \in Dts : Tick(dt)

Next == \/ \E move \in Moves : handlePlayerInput(move)
        \/ spawnBullet
        \/ spawnEnemy
        \/ GameThread

Spec == Init /\ [][Next]_vars /\ WF_vars(GameThread)
-----------------------------------------------------------------------------
Present == enemy.health > 0

SameRow(b, e) == b.y < e.y + EnemySize.height /\ b.y + BulletSize.height > e.y
LeftOf(b, e) == b.x + BulletSize.width <= e.x

(* A ship is on the screen, or still where it started.                     *)
TypeOK ==
    /\ player \in [x : StartXs \cup 0 .. WIDTH, y : 0 .. HEIGHT,
                  vx : {-PLAYER_SPEED, 0, PLAYER_SPEED}, vy : {-PLAYER_SPEED, 0, PLAYER_SPEED}]
    /\ sinceShot \in 0 .. SHOOT_COOLDOWN
    /\ bullets \subseteq [x : Nat, y : 0 .. HEIGHT + 20 * px, remaining : 1 .. LIFETIME]
    /\ enemy \in [x : 0 .. 850 * px, y : 0 .. HEIGHT, health : {0, 25, 50}]

(* An enemy that has reached the left edge cannot be shot any more: ships  *)
(* are clamped to the screen and bullets start 60 pixels right of them,    *)
(* beyond its 40 (GameServer.cpp:115, 522, 577).                           *)
EdgeEnemyIsOutOfReach ==
    [][Present /\ enemy.x = 0 => enemy'.health = enemy.health]_vars

(* As long as ticks are short no bullet passes an enemy in its row without *)
(* hitting it: a bullet left of the enemy stays left of it or is gone.     *)
(* They close at 550 pixels a second and are 48 wide together, so a tick   *)
(* must stall for 87 ms to miss a hit (GameServer.cpp:110-111, 685-703).   *)
NoTunnelling ==
    [][\A b \in bullets, dt \in Dts :
          /\ Present /\ Present'
          /\ SameRow(b, enemy) /\ LeftOf(b, enemy)
          /\ MovedBullet(b, dt) \in bullets'
          => LeftOf(MovedBullet(b, dt), enemy')]_vars

(* Enemies disappear when they leave on the left ("Disparaissent en        *)
(* sortant à gauche", ENEMY_SYSTEM.md:157): none stays for ever.           *)
EnemiesLeave == Present ~> ~Present
=============================================================================

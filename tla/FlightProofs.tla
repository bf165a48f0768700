---------------------------- MODULE FlightProofs ----------------------------
(***************************************************************************)
(* What the numbers of the game guarantee, for any ticks, inputs, starting *)
(* places and number of bullets.                                           *)
(***************************************************************************)
EXTENDS Flight, FiniteSetTheorems, FunctionTheorems, TLAPS

(* Bullets are to the right of the left edge, by how far right of the ship *)
(* they start.                                                             *)
ClearOfEdge == \A b \in bullets : b.x >= BulletOffset

(* Shots are a cooldown apart, and stay that far apart in age.             *)
Spaced ==
    /\ \A b \in bullets : b.remaining <= LIFETIME - sinceShot
    /\ \A b, d \in bullets : b.remaining > d.remaining =>
          b.remaining >= d.remaining + SHOOT_COOLDOWN

IInv == TypeOK /\ IsFiniteSet(bullets) /\ ClearOfEdge /\ Spaced
-----------------------------------------------------------------------------
(* The numbers, in half pixels and steps of 50 ms.                         *)
LEMMA Numbers ==
  /\ px = 2 /\ WIDTH = 1600 /\ HEIGHT = 1200
  /\ PLAYER_SPEED = 20 /\ BULLET_SPEED = 40 /\ ENEMY_SPEED = 15
  /\ SHOOT_COOLDOWN = 5 /\ LIFETIME = 60 /\ BulletOffset = 120
  /\ ENEMY_HEALTH = 50 /\ BULLET_DAMAGE = 25
  /\ BulletSize.width = 16 /\ BulletSize.height = 4
  /\ EnemySize.width = 80 /\ EnemySize.height = 80
  BY DEF px, SECOND, WIDTH, HEIGHT, PLAYER_SPEED, BULLET_SPEED, ENEMY_SPEED, SHOOT_COOLDOWN,
         LIFETIME, BulletOffset, ENEMY_HEALTH, BULLET_DAMAGE, BulletSize, EnemySize

PlayerType == [x : StartXs \cup 0 .. WIDTH, y : 0 .. HEIGHT,
               vx : {-PLAYER_SPEED, 0, PLAYER_SPEED}, vy : {-PLAYER_SPEED, 0, PLAYER_SPEED}]
BulletType == [x : Nat, y : 0 .. HEIGHT + 20 * px, remaining : 1 .. LIFETIME]
EnemyType  == [x : 0 .. 850 * px, y : 0 .. HEIGHT, health : {0, 25, 50}]

LEMMA TypeSplit ==
  TypeOK <=> /\ player \in PlayerType
             /\ sinceShot \in 0 .. SHOOT_COOLDOWN
             /\ bullets \subseteq BulletType
             /\ enemy \in EnemyType
  BY DEF TypeOK, PlayerType, BulletType, EnemyType

LEMMA InRange ==
  ASSUME NEW lo \in Int, NEW hi \in Int, NEW v
  PROVE  v \in lo .. hi <=> v \in Int /\ lo <= v /\ v <= hi
  OBVIOUS

(* The coordinates and lifetimes of the types, in numbers.                 *)
LEMMA Ranges ==
  ASSUME NEW v
  PROVE  /\ v \in 0 .. HEIGHT <=> v \in Int /\ 0 <= v /\ v <= 1200
         /\ v \in 0 .. WIDTH <=> v \in Int /\ 0 <= v /\ v <= 1600
         /\ v \in 0 .. HEIGHT + 20 * px <=> v \in Int /\ 0 <= v /\ v <= 1240
         /\ v \in 0 .. 850 * px <=> v \in Int /\ 0 <= v /\ v <= 1700
         /\ v \in 1 .. LIFETIME <=> v \in Int /\ 1 <= v /\ v <= 60
         /\ v \in 0 .. SHOOT_COOLDOWN <=> v \in Int /\ 0 <= v /\ v <= 5
  <1>1. PICK h, w : h = HEIGHT + 20 * px /\ w = 850 * px
    OBVIOUS
  <1>2. /\ h = 1240 /\ w = 1700 /\ HEIGHT = 1200 /\ WIDTH = 1600
        /\ LIFETIME = 60 /\ SHOOT_COOLDOWN = 5
    BY <1>1, Numbers
  <1>b. /\ h \in Int /\ w \in Int /\ HEIGHT \in Int /\ WIDTH \in Int
        /\ LIFETIME \in Int /\ SHOOT_COOLDOWN \in Int
    BY <1>2
  <1>3. v \in 0 .. HEIGHT <=> v \in Int /\ 0 <= v /\ v <= HEIGHT
    BY <1>b, InRange
  <1>4. v \in 0 .. WIDTH <=> v \in Int /\ 0 <= v /\ v <= WIDTH
    BY <1>b, InRange
  <1>5. v \in 0 .. h <=> v \in Int /\ 0 <= v /\ v <= h
    BY <1>b, InRange
  <1>6. v \in 0 .. w <=> v \in Int /\ 0 <= v /\ v <= w
    BY <1>b, InRange
  <1>7. v \in 1 .. LIFETIME <=> v \in Int /\ 1 <= v /\ v <= LIFETIME
    BY <1>b, InRange
  <1>8. v \in 0 .. SHOOT_COOLDOWN <=> v \in Int /\ 0 <= v /\ v <= SHOOT_COOLDOWN
    BY <1>b, InRange
  <1> QED BY <1>1, <1>2, <1>3, <1>4, <1>5, <1>6, <1>7, <1>8

LEMMA BulletPlace ==
  ASSUME NEW b \in BulletType
  PROVE  /\ b.x \in Int /\ 0 <= b.x
         /\ b.y \in Int /\ 0 <= b.y /\ b.y <= 1240
         /\ b.remaining \in Int /\ 1 <= b.remaining /\ b.remaining <= 60
  <1>1. /\ b.x \in Nat /\ b.y \in 0 .. HEIGHT + 20 * px
        /\ b.remaining \in 1 .. LIFETIME
    BY DEF BulletType
  <1> QED BY <1>1, Ranges

LEMMA EnemyPlace ==
  ASSUME NEW e \in EnemyType
  PROVE  /\ e.x \in Int /\ 0 <= e.x /\ e.x <= 1700
         /\ e.y \in Int /\ 0 <= e.y /\ e.y <= 1200
  <1>1. e.x \in 0 .. 850 * px /\ e.y \in 0 .. HEIGHT
    BY DEF EnemyType
  <1> QED BY <1>1, Ranges

LEMMA ShipPlace ==
  ASSUME player \in PlayerType
  PROVE  /\ player.x \in Nat
         /\ player.y \in Int /\ 0 <= player.y /\ player.y <= 1200
  <1>1. player.x \in StartXs \cup 0 .. WIDTH /\ player.y \in 0 .. HEIGHT
    BY DEF PlayerType
  <1>2. player.x \in 0 .. WIDTH => player.x \in Nat
    BY Ranges
  <1>3. player.x \in Nat
    BY <1>1, <1>2, PlacesAssumption
  <1>4. player.y \in Int /\ 0 <= player.y /\ player.y <= 1200
    BY <1>1, Ranges
  <1> QED BY <1>3, <1>4

LEMMA TicksTakeTime ==
  ASSUME NEW dt \in Dts
  PROVE  dt \in Int /\ 1 <= dt
  BY DtsAssumption

(* The boundary check keeps a coordinate on the screen, and moves it only  *)
(* there.                                                                  *)
LEMMA Clamped ==
  ASSUME NEW v \in Int
  PROVE  /\ Clamp(v, 1600) \in Int /\ 0 <= Clamp(v, 1600) /\ Clamp(v, 1600) <= 1600
         /\ Clamp(v, 1200) \in Int /\ 0 <= Clamp(v, 1200) /\ Clamp(v, 1200) <= 1200
         /\ v < 0 => Clamp(v, 1600) = 0 /\ Clamp(v, 1200) = 0
         /\ 0 <= v => Clamp(v, 1600) <= v /\ Clamp(v, 1200) <= v
         /\ v <= 1600 => v <= Clamp(v, 1600)
         /\ v <= 1200 => v <= Clamp(v, 1200)
         /\ 1600 < v => Clamp(v, 1600) = 1600
         /\ 1200 < v => Clamp(v, 1200) = 1200
  BY DEF Clamp

(* A bullet goes on to the right, no further than the right edge, and ages.*)
LEMMA BulletMoves ==
  ASSUME NEW b \in BulletType, NEW dt \in Dts, b.remaining > dt
  PROVE  /\ MovedBullet(b, dt) \in BulletType
         /\ MovedBullet(b, dt).x = Clamp(b.x + 40 * dt, 1600)
         /\ MovedBullet(b, dt).y = Clamp(b.y, 1200)
         /\ MovedBullet(b, dt).remaining = b.remaining - dt
  <1>1. dt \in Int /\ 1 <= dt
    BY TicksTakeTime
  <1>2. /\ b.x \in Int /\ b.y \in Int
        /\ b.remaining \in Int /\ b.remaining <= 60
    BY BulletPlace
  <1>3. PICK v, x, y, r : /\ v = b.x + 40 * dt
                          /\ x = Clamp(v, 1600) /\ y = Clamp(b.y, 1200)
                          /\ r = b.remaining - dt
    OBVIOUS
  <1>4. MovedBullet(b, dt) = [b EXCEPT !.x = x, !.y = y, !.remaining = r]
    BY <1>3, Numbers DEF MovedBullet, ClampMoving
  <1>5. x \in Nat
    <2>1. v \in Int
      BY <1>1, <1>2, <1>3
    <2> QED BY <1>3, <2>1, Clamped
  <1>6. y \in 0 .. HEIGHT + 20 * px
    <2>1. y \in Int /\ 0 <= y /\ y <= 1240
      BY <1>2, <1>3, Clamped
    <2> QED BY <2>1, Ranges
  <1>7. r \in 1 .. LIFETIME
    <2>1. r \in Int /\ 1 <= r /\ r <= 60
      BY <1>1, <1>2, <1>3
    <2> QED BY <2>1, Ranges
  <1>8. /\ MovedBullet(b, dt) \in BulletType /\ MovedBullet(b, dt).x = x
        /\ MovedBullet(b, dt).y = y /\ MovedBullet(b, dt).remaining = r
    BY <1>4, <1>5, <1>6, <1>7 DEF BulletType
  <1> QED BY <1>3, <1>8

LEMMA EnemyMoves ==
  ASSUME NEW dt \in Dts, enemy \in EnemyType
  PROVE  /\ MovedEnemy(dt) \in EnemyType
         /\ MovedEnemy(dt).x = Clamp(enemy.x - 15 * dt, 1600)
         /\ MovedEnemy(dt).y = enemy.y
         /\ MovedEnemy(dt).health = enemy.health
  <1>1. dt \in Int /\ 1 <= dt
    BY TicksTakeTime
  <1>2. enemy.x \in Int /\ enemy.y \in Int /\ 0 <= enemy.y /\ enemy.y <= 1200
    BY EnemyPlace
  <1>3. PICK v, x, y : /\ v = enemy.x - 15 * dt
                       /\ x = Clamp(v, 1600) /\ y = Clamp(enemy.y, 1200)
    OBVIOUS
  <1>4. MovedEnemy(dt) = [enemy EXCEPT !.x = x, !.y = y]
    BY <1>3, Numbers DEF MovedEnemy, ClampMoving
  <1>5. x \in 0 .. 850 * px
    <2>1. v \in Int
      BY <1>1, <1>2, <1>3
    <2>2. x \in Int /\ 0 <= x /\ x <= 1700
      BY <1>3, <2>1, Clamped
    <2> QED BY <2>2, Ranges
  <1>6. y = enemy.y
    BY <1>2, <1>3 DEF Clamp
  <1>7. y \in 0 .. HEIGHT
    BY <1>2, <1>6, Ranges
  <1>8. /\ MovedEnemy(dt) \in EnemyType /\ MovedEnemy(dt).x = x
        /\ MovedEnemy(dt).y = y /\ MovedEnemy(dt).health = enemy.health
    <2>1. PICK X, Y, H : X = 0 .. 850 * px /\ Y = 0 .. HEIGHT /\ H = {0, 25, 50}
      OBVIOUS
    <2>2. EnemyType = [x : X, y : Y, health : H]
      BY <2>1 DEF EnemyType
    <2>3. x \in X /\ y \in Y
      BY <1>5, <1>7, <2>1
    <2> QED BY <1>4, <2>2, <2>3
  <1> QED BY <1>3, <1>6, <1>8

(* The enemy loses 25 for each bullet, and is gone with its health.        *)
LEMMA HitsTake ==
  ASSUME NEW e \in EnemyType, NEW n \in Nat, e.health # 0
  PROVE  /\ AfterHits(e, n) \in EnemyType
         /\ AfterHits(e, n).health > 0 => AfterHits(e, n).x = e.x /\ AfterHits(e, n).y = e.y
         /\ n = 0 => AfterHits(e, n).health = e.health
  <1>1. NoEnemy \in EnemyType /\ NoEnemy.health = 0
    <2>1. 0 \in 0 .. HEIGHT /\ 0 \in 0 .. 850 * px
      BY Ranges
    <2> QED BY <2>1 DEF NoEnemy, EnemyType
  <1>2. e.health \in {25, 50}
    BY DEF EnemyType
  <1>3. CASE e.health <= n * 25
    <2>1. AfterHits(e, n) = NoEnemy /\ n # 0
      BY <1>2, <1>3, Numbers DEF AfterHits
    <2> QED BY <1>1, <2>1
  <1>4. CASE ~(e.health <= n * 25)
    <2> PICK h : h = e.health - n * 25
      OBVIOUS
    <2>1. h \in {25, 50} /\ (n = 0 => h = e.health)
      BY <1>2, <1>4
    <2>2. AfterHits(e, n) = [e EXCEPT !.health = h]
      BY <1>4, Numbers DEF AfterHits
    <2> QED BY <2>1, <2>2 DEF EnemyType
  <1> QED BY <1>3, <1>4
-----------------------------------------------------------------------------
LEMMA InputStep ==
  ASSUME IInv, NEW move \in Moves, handlePlayerInput(move)
  PROVE  IInv'
  <1>1. PICK vx, vy : vx = move[1] * PLAYER_SPEED /\ vy = move[2] * PLAYER_SPEED
    OBVIOUS
  <1>2. vx \in {-PLAYER_SPEED, 0, PLAYER_SPEED} /\ vy \in {-PLAYER_SPEED, 0, PLAYER_SPEED}
    <2>1. move[1] \in {-1, 0, 1} /\ move[2] \in {-1, 0, 1}
      BY InputsAssumption
    <2> QED BY <1>1, <2>1, Numbers
  <1>3. player' = [player EXCEPT !.vx = vx, !.vy = vy]
    BY <1>1 DEF handlePlayerInput
  <1>4. player' \in PlayerType
    BY <1>2, <1>3, TypeSplit DEF IInv, PlayerType
  <1>5. TypeOK'
    BY <1>4, TypeSplit DEF IInv, TypeOK, PlayerType, handlePlayerInput
  <1> QED BY <1>5 DEF IInv, ClearOfEdge, Spaced, handlePlayerInput

(* A new bullet is a cooldown younger than every other one.                *)
LEMMA ShootStep ==
  ASSUME IInv, spawnBullet
  PROVE  IInv'
  <1>1. PICK b : b = [x |-> player.x + BulletOffset, y |-> player.y + 20 * px,
                      remaining |-> LIFETIME]
    OBVIOUS
  <1>2. /\ bullets' = bullets \cup {b} /\ sinceShot' = 0
        /\ UNCHANGED << player, enemy >>
        /\ sinceShot = SHOOT_COOLDOWN
    <2>1. sinceShot >= 5 /\ sinceShot \in Int /\ sinceShot <= 5
      BY Numbers, TypeSplit, Ranges DEF IInv, spawnBullet
    <2> QED BY <1>1, <2>1, Numbers DEF spawnBullet
  <1>3. /\ b.x \in Nat /\ b.x >= BulletOffset
        /\ b.y \in 0 .. HEIGHT + 20 * px /\ b.remaining = LIFETIME
    <2>2. player.x \in Nat
      BY ShipPlace, TypeSplit DEF IInv
    <2>3. player.y \in Int /\ 0 <= player.y /\ player.y <= 1200
      BY ShipPlace, TypeSplit DEF IInv
    <2>4. b.x = player.x + BulletOffset /\ b.y = player.y + 20 * px /\ b.remaining = LIFETIME
      BY <1>1
    <2>5. b.y \in Int /\ 0 <= b.y /\ b.y <= 1240
      BY <2>3, <2>4, Numbers
    <2> QED BY <2>2, <2>4, <2>5, Numbers, Ranges
  <1>4. b \in BulletType
    <2>1. LIFETIME \in 1 .. LIFETIME
      BY Numbers
    <2>2. b = [x |-> b.x, y |-> b.y, remaining |-> b.remaining]
      BY <1>1
    <2> QED BY <1>3, <2>1, <2>2 DEF BulletType
  <1>5. TypeOK'
    <2>1. 0 \in 0 .. SHOOT_COOLDOWN
      BY Ranges
    <2> QED BY <1>2, <1>4, <2>1, TypeSplit DEF IInv, TypeOK, BulletType
  <1>6. IsFiniteSet(bullets')
    BY <1>2, FS_AddElement DEF IInv
  <1>7. ClearOfEdge'
    BY <1>2, <1>3 DEF IInv, ClearOfEdge
  <1>8. Spaced'
    <2>1. \A d \in bullets : d.remaining \in Int /\ d.remaining <= 55
      <3>1. \A d \in bullets : d.remaining \in Int
        BY TypeSplit, BulletPlace DEF IInv
      <3> QED BY <1>2, <3>1, Numbers DEF IInv, Spaced
    <2>2. \A d \in bullets' : d.remaining <= LIFETIME - sinceShot'
      BY <1>2, <1>3, <2>1, Numbers
    <2>3. \A d, e \in bullets' : d.remaining > e.remaining =>
             d.remaining >= e.remaining + SHOOT_COOLDOWN
      BY <1>2, <1>3, <2>1, Numbers DEF IInv, Spaced
    <2> QED BY <2>2, <2>3 DEF Spaced
  <1> QED BY <1>5, <1>6, <1>7, <1>8 DEF IInv

LEMMA SpawnStep ==
  ASSUME IInv, spawnEnemy
  PROVE  IInv'
  <1>1. PICK y \in EnemyYs :
           enemy' = [x |-> 850 * px, y |-> y, health |-> ENEMY_HEALTH]
    BY DEF spawnEnemy
  <1>2. enemy' \in EnemyType
    <2>1. PICK x, h : x = 850 * px /\ h = ENEMY_HEALTH
      OBVIOUS
    <2>2. x = 1700 /\ h = 50
      BY <2>1, Numbers
    <2>3. x \in 0 .. 850 * px /\ y \in 0 .. HEIGHT
      BY <2>2, Ranges, PlacesAssumption
    <2>4. enemy' = [x |-> x, y |-> y, health |-> h]
      BY <1>1, <2>1
    <2> QED BY <2>2, <2>3, <2>4 DEF EnemyType
  <1>3. TypeOK'
    BY <1>2, TypeSplit DEF IInv, TypeOK, EnemyType, spawnEnemy
  <1> QED BY <1>3 DEF IInv, ClearOfEdge, Spaced, spawnEnemy

(* What a tick does, in terms of the bullets in flight.                    *)
LEMMA Flying ==
  ASSUME IInv, NEW dt \in Dts, NEW m \in InFlight(dt)
  PROVE  \E b \in bullets : /\ b \in BulletType /\ b.remaining > dt
                            /\ m = MovedBullet(b, dt)
  BY TypeSplit DEF IInv, InFlight

LEMMA PlayerMoves ==
  ASSUME player \in PlayerType, NEW dt \in Dts
  PROVE  MovedPlayer(dt) \in PlayerType
  <1>1. PICK v, w : v = player.x + player.vx * dt /\ w = player.y + player.vy * dt
    OBVIOUS
  <1>2. v \in Int /\ w \in Int
    <2>2. player.x \in Int /\ player.y \in Int
      BY ShipPlace
    <2>3. player.vx \in Int /\ player.vy \in Int
      BY Numbers DEF PlayerType
    <2>4. dt \in Int
      BY TicksTakeTime
    <2> QED BY <1>1, <2>2, <2>3, <2>4
  <1>3. PICK x, y : x = Clamp(v, 1600) /\ y = Clamp(w, 1200)
    OBVIOUS
  <1>4. x \in 0 .. WIDTH /\ y \in 0 .. HEIGHT
    <2>1. x \in Int /\ 0 <= x /\ x <= 1600 /\ y \in Int /\ 0 <= y /\ y <= 1200
      BY <1>2, <1>3, Clamped
    <2> QED BY <2>1, Ranges
  <1>5. MovedPlayer(dt) = [player EXCEPT !.x = x, !.y = y]
    BY <1>1, <1>3, Numbers DEF MovedPlayer
  <1> QED BY <1>4, <1>5 DEF PlayerType

LEMMA TickStep ==
  ASSUME IInv, NEW dt \in Dts, Tick(dt)
  PROVE  IInv'
  <1>1. PICK moved, hits :
           /\ moved = MovedEnemy(dt)
           /\ hits = IF enemy.health = 0 THEN {} ELSE {b \in InFlight(dt) : Overlap(b, moved)}
    OBVIOUS
  <1>2. /\ player' = MovedPlayer(dt)
        /\ bullets' = {b \in InFlight(dt) \ hits : ~OffRight(b)}
        /\ enemy' = IF enemy.health = 0 \/ OffLeft(moved) THEN NoEnemy
                    ELSE AfterHits(moved, Cardinality(hits))
        /\ sinceShot' = IF sinceShot + dt > SHOOT_COOLDOWN THEN SHOOT_COOLDOWN
                        ELSE sinceShot + dt
    BY <1>1 DEF Tick
  <1>3. dt \in Int /\ 1 <= dt /\ sinceShot \in Int /\ 0 <= sinceShot /\ sinceShot <= 5
    BY TicksTakeTime, TypeSplit, Ranges DEF IInv
  <1>4. IsFiniteSet(InFlight(dt)) /\ IsFiniteSet(bullets') /\ Cardinality(hits) \in Nat
    <2>1. IsFiniteSet({b \in bullets : b.remaining > dt})
      BY FS_Subset DEF IInv
    <2>2. IsFiniteSet(InFlight(dt))
      <3>1. PICK f : f = [b \in {b \in bullets : b.remaining > dt} |-> MovedBullet(b, dt)]
        OBVIOUS
      <3>2. f \in Surjection({b \in bullets : b.remaining > dt}, InFlight(dt))
        BY <3>1 DEF Surjection, InFlight
      <3> QED BY <2>1, <3>2, FS_Surjection
    <2>3. hits \subseteq InFlight(dt) /\ bullets' \subseteq InFlight(dt)
      BY <1>1, <1>2
    <2> QED BY <2>2, <2>3, FS_Subset, FS_CardinalityType
  <1>5. ASSUME NEW m \in bullets'
        PROVE  \E b \in bullets :
                  /\ b \in BulletType /\ b.remaining > dt
                  /\ m = MovedBullet(b, dt) /\ m \in BulletType
                  /\ m.x = Clamp(b.x + 40 * dt, 1600)
                  /\ m.remaining = b.remaining - dt
    BY <1>2, <1>5, Flying, BulletMoves
  <1>6. TypeOK'
    <2>1. player' \in PlayerType
      BY <1>2, PlayerMoves, TypeSplit DEF IInv
    <2>2. sinceShot' \in 0 .. SHOOT_COOLDOWN
      <3>1. sinceShot' \in Int /\ 0 <= sinceShot' /\ sinceShot' <= 5
        BY <1>2, <1>3, Numbers
      <3> QED BY <3>1, Ranges
    <2>3. enemy' \in EnemyType
      <3>1. CASE enemy.health = 0 \/ OffLeft(moved)
        <4>1. 0 \in 0 .. HEIGHT /\ 0 \in 0 .. 850 * px
          BY Ranges
        <4> QED BY <1>2, <3>1, <4>1 DEF NoEnemy, EnemyType
      <3>2. CASE ~(enemy.health = 0 \/ OffLeft(moved))
        <4>1. moved \in EnemyType /\ moved.health # 0
          BY <1>1, <3>2, EnemyMoves, TypeSplit DEF IInv
        <4> QED BY <1>2, <1>4, <3>2, <4>1, HitsTake
      <3> QED BY <3>1, <3>2
    <2>4. bullets' \subseteq BulletType
      BY <1>5
    <2> QED BY <2>1, <2>2, <2>3, <2>4 DEF TypeOK, PlayerType, BulletType, EnemyType
  <1>7. ClearOfEdge'
    <2> SUFFICES ASSUME NEW m \in bullets' PROVE m.x >= BulletOffset
      BY DEF ClearOfEdge
    <2>1. PICK b \in bullets : b \in BulletType /\ m.x = Clamp(b.x + 40 * dt, 1600)
      BY <1>5
    <2>2. b.x \in Int /\ b.x >= 120
      BY <2>1, BulletPlace, Numbers DEF IInv, ClearOfEdge
    <2>3. PICK v : v = b.x + 40 * dt
      OBVIOUS
    <2>4. v \in Int /\ v >= 120
      BY <1>3, <2>2, <2>3
    <2>5. m.x \in Int /\ m.x >= 120
      BY <2>1, <2>3, <2>4, Clamped
    <2> QED BY <2>5, Numbers
  <1>8. Spaced'
    <2>1. ASSUME NEW m \in bullets' PROVE m.remaining <= LIFETIME - sinceShot'
      <3>1. PICK b \in bullets : b \in BulletType /\ m.remaining = b.remaining - dt
        BY <1>5
      <3>2. b.remaining \in Int /\ b.remaining <= 60 - sinceShot
        BY <3>1, BulletPlace, Numbers DEF IInv, Spaced
      <3>3. sinceShot' <= sinceShot + dt /\ sinceShot' \in Int
        BY <1>2, <1>3, Numbers
      <3> QED BY <1>3, <3>1, <3>2, <3>3, Numbers
    <2>2. ASSUME NEW m \in bullets', NEW n \in bullets', m.remaining > n.remaining
          PROVE  m.remaining >= n.remaining + SHOOT_COOLDOWN
      <3>1. PICK b \in bullets : b \in BulletType /\ m.remaining = b.remaining - dt
        BY <1>5
      <3>2. PICK d \in bullets : d \in BulletType /\ n.remaining = d.remaining - dt
        BY <1>5
      <3>3. b.remaining \in Int /\ d.remaining \in Int
        BY <3>1, <3>2, BulletPlace
      <3>4. b.remaining > d.remaining
        BY <1>3, <2>2, <3>1, <3>2, <3>3
      <3>5. b.remaining >= d.remaining + 5
        BY <3>4, Numbers DEF IInv, Spaced
      <3> QED BY <1>3, <3>1, <3>2, <3>3, <3>5, Numbers
    <2> QED BY <2>1, <2>2 DEF Spaced
  <1> QED BY <1>4, <1>6, <1>7, <1>8 DEF IInv

LEMMA InitInvariant == Init => IInv
  <1> SUFFICES ASSUME Init PROVE IInv
    OBVIOUS
  <1>1. player \in PlayerType
    <2>0. PICK y : y = 300 * px
      OBVIOUS
    <2>1. PICK x \in StartXs : player = [x |-> x, y |-> y, vx |-> 0, vy |-> 0]
      BY <2>0 DEF Init
    <2>2. y \in 0 .. HEIGHT
      <3>1. y = 600
        BY <2>0, Numbers
      <3> QED BY <3>1, Ranges
    <2> QED BY <2>1, <2>2 DEF PlayerType
  <1>2. enemy \in EnemyType
    <2>1. 0 \in 0 .. HEIGHT /\ 0 \in 0 .. 850 * px
      BY Ranges
    <2> QED BY <2>1 DEF Init, NoEnemy, EnemyType
  <1>3. sinceShot \in 0 .. SHOOT_COOLDOWN
    BY Numbers DEF Init
  <1>4. bullets = {} /\ IsFiniteSet(bullets)
    BY FS_EmptySet DEF Init
  <1> QED BY <1>1, <1>2, <1>3, <1>4, TypeSplit DEF IInv, ClearOfEdge, Spaced

LEMMA StepInvariant == IInv /\ [Next]_vars => IInv'
  <1> SUFFICES ASSUME IInv, [Next]_vars PROVE IInv'
    OBVIOUS
  <1>1. ASSUME NEW move \in Moves, handlePlayerInput(move) PROVE IInv'
    BY <1>1, InputStep
  <1>2. CASE spawnBullet
    BY <1>2, ShootStep
  <1>3. CASE spawnEnemy
    BY <1>3, SpawnStep
  <1>4. ASSUME NEW dt \in Dts, Tick(dt) PROVE IInv'
    BY <1>4, TickStep
  <1>5. CASE UNCHANGED vars
    BY <1>5 DEF vars, IInv, TypeOK, ClearOfEdge, Spaced
  <1> QED BY <1>1, <1>2, <1>3, <1>4, <1>5 DEF Next, GameThread

LEMMA Invariance == Spec => []IInv
  BY InitInvariant, StepInvariant, PTL DEF Spec

(* Everything stays in its place: a ship on the screen or where it         *)
(* started, an enemy with 0, 25 or 50 health, bullets with life left, for  *)
(* every length of tick (GameServer.cpp:490-560, 621-631, 680-729).        *)
THEOREM TypeCorrect == Spec => []TypeOK
  <1>1. IInv => TypeOK
    BY DEF IInv
  <1> QED BY <1>1, Invariance, PTL
-----------------------------------------------------------------------------
(* A bullet never is where an enemy at the left edge could meet it.        *)
LEMMA EdgeStep ==
  ASSUME IInv, [Next]_vars, Present, enemy.x = 0
  PROVE  enemy'.health = enemy.health
  <1>0. enemy \in EnemyType /\ enemy.health # 0
    BY TypeSplit DEF IInv, Present
  <1>1. CASE UNCHANGED enemy
    BY <1>1
  <1>2. ASSUME NEW dt \in Dts, Tick(dt) PROVE enemy'.health = enemy.health
    <2>1. PICK moved, hits :
             /\ moved = MovedEnemy(dt)
             /\ hits = IF enemy.health = 0 THEN {}
                       ELSE {b \in InFlight(dt) : Overlap(b, moved)}
      OBVIOUS
    <2>2. dt \in Int /\ 1 <= dt
      BY TicksTakeTime
    <2>3. moved \in EnemyType /\ moved.x = 0 /\ moved.health = enemy.health
      <3>1. PICK v : v = enemy.x - 15 * dt
        OBVIOUS
      <3>2. v \in Int /\ v < 0
        BY <2>2, <3>1
      <3>3. moved.x = Clamp(v, 1600)
        BY <1>0, <2>1, <3>1, EnemyMoves
      <3> QED BY <1>0, <2>1, <3>2, <3>3, EnemyMoves, Clamped
    <2>4. ASSUME NEW m \in InFlight(dt) PROVE ~Overlap(m, moved)
      <3>1. PICK b \in bullets : /\ b \in BulletType /\ b.remaining > dt
                                 /\ m = MovedBullet(b, dt)
        BY Flying
      <3>2. m.x = Clamp(b.x + 40 * dt, 1600)
        BY <3>1, BulletMoves
      <3>3. b.x \in Int /\ b.x >= 120
        BY <3>1, BulletPlace, Numbers DEF IInv, ClearOfEdge
      <3>4. PICK v : v = b.x + 40 * dt
        OBVIOUS
      <3>5. v \in Int /\ v >= 120
        BY <2>2, <3>3, <3>4
      <3>6. m.x \in Int /\ m.x >= 120
        BY <3>2, <3>4, <3>5, Clamped
      <3> QED BY <2>3, <3>6, Numbers DEF Overlap
    <2>5. hits = {} /\ Cardinality(hits) = 0
      BY <2>1, <2>4, FS_EmptySet
    <2>6. ~OffLeft(moved)
      BY <2>3, Numbers DEF OffLeft
    <2>7. enemy' = AfterHits(moved, 0)
      BY <1>0, <1>2, <2>1, <2>5, <2>6 DEF Tick
    <2> QED BY <1>0, <2>3, <2>7, HitsTake
  <1>3. ~spawnEnemy
    BY <1>0 DEF spawnEnemy
  <1> QED BY <1>1, <1>2, <1>3 DEF Next, GameThread, handlePlayerInput, spawnBullet, vars

(* An enemy that has come to the left edge cannot be hit any more, by any  *)
(* ship, however long the ticks: a bullet starts 60 pixels right of a ship *)
(* and never goes back, and the enemy is 40 wide (GameServer.cpp:110-115,  *)
(* 522, 577).                                                              *)
THEOREM EdgeIsSafe == Spec => EdgeEnemyIsOutOfReach
  <1>1. IInv /\ [Next]_vars => (Present /\ enemy.x = 0 => enemy'.health = enemy.health)
    BY EdgeStep
  <1> QED BY <1>1, Invariance, PTL DEF Spec, EdgeEnemyIsOutOfReach

(* Every tick is the one the loop aims at, 50 ms (GameServer.cpp:64).      *)
ShortTicks == Dts \subseteq {1}

LEMMA NoJump ==
  ASSUME IInv, ShortTicks, [Next]_vars, NEW b \in bullets, NEW dt \in Dts,
         Present, Present', SameRow(b, enemy), LeftOf(b, enemy),
         MovedBullet(b, dt) \in bullets'
  PROVE  LeftOf(MovedBullet(b, dt), enemy')
  <1>1. dt = 1 /\ \A t \in Dts : t = 1
    BY DEF ShortTicks
  <1>2. b \in BulletType /\ enemy \in EnemyType /\ enemy.health # 0
    BY TypeSplit DEF IInv, Present
  <1>3. PICK m : m = MovedBullet(b, dt)
    OBVIOUS
  <1>4. b.remaining > dt /\ m.remaining = b.remaining - 1
    <2>1. m.remaining = b.remaining - 1
      <3>1. PICK x, y, r : /\ x = ClampMoving(b.x + BULLET_SPEED * dt, WIDTH)
                           /\ y = ClampMoving(b.y, HEIGHT) /\ r = b.remaining - dt
        OBVIOUS
      <3>2. m = [b EXCEPT !.x = x, !.y = y, !.remaining = r]
        BY <1>3, <3>1 DEF MovedBullet
      <3>3. m.remaining = r
        BY <1>2, <3>2 DEF BulletType
      <3> QED BY <1>1, <3>1, <3>3
    <2>2. m.remaining \in 1 .. LIFETIME
      <3>1. TypeOK'
        BY StepInvariant DEF IInv
      <3> QED BY <1>3, <3>1 DEF TypeOK
    <2>3. m.remaining \in Int /\ 1 <= m.remaining
      BY <2>2, Ranges
    <2>4. b.remaining \in Int
      BY <1>2, BulletPlace
    <2> QED BY <1>1, <2>1, <2>3, <2>4
  <1>5. m \in bullets' /\ m \notin bullets
    <2>1. b.remaining \in Int
      BY <1>2, BulletPlace
    <2> QED BY <1>3, <1>4, <2>1, Numbers DEF IInv, Spaced
  <1>6. ~spawnBullet
    <2> SUFFICES ASSUME spawnBullet PROVE FALSE
      OBVIOUS
    <2>1. m.remaining = LIFETIME
      BY <1>5 DEF spawnBullet
    <2>2. b.remaining \in Int /\ b.remaining <= 60
      BY <1>2, BulletPlace
    <2> QED BY <1>4, <2>1, <2>2, Numbers
  <1>7. Tick(dt)
    BY <1>1, <1>5, <1>6 DEF Next, GameThread, handlePlayerInput, spawnEnemy, vars
  <1>8. PICK moved, hits :
           /\ moved = MovedEnemy(dt)
           /\ hits = IF enemy.health = 0 THEN {}
                     ELSE {k \in InFlight(dt) : Overlap(k, moved)}
    OBVIOUS
  <1>9. /\ m \in InFlight(dt) \ hits
        /\ enemy' = IF enemy.health = 0 \/ OffLeft(moved) THEN NoEnemy
                    ELSE AfterHits(moved, Cardinality(hits))
    BY <1>3, <1>7, <1>8 DEF Tick
  <1>10. ~Overlap(m, moved)
    BY <1>2, <1>8, <1>9
  <1>11. enemy'.x = moved.x
    <2>1. NoEnemy.health = 0
      BY DEF NoEnemy
    <2>2. enemy' = AfterHits(moved, Cardinality(hits)) /\ enemy'.health > 0
      BY <1>9, <2>1 DEF Present
    <2>3. moved \in EnemyType /\ moved.health # 0
      BY <1>2, <1>8, EnemyMoves
    <2>4. Cardinality(hits) \in Nat
      <3>1. IsFiniteSet({k \in bullets : k.remaining > dt})
        BY FS_Subset DEF IInv
      <3>2. PICK f : f = [k \in {k \in bullets : k.remaining > dt} |-> MovedBullet(k, dt)]
        OBVIOUS
      <3>3. f \in Surjection({k \in bullets : k.remaining > dt}, InFlight(dt))
        BY <3>2 DEF Surjection, InFlight
      <3>4. IsFiniteSet(InFlight(dt))
        BY <3>1, <3>3, FS_Surjection
      <3>5. hits \subseteq InFlight(dt)
        BY <1>8
      <3> QED BY <3>4, <3>5, FS_Subset, FS_CardinalityType
    <2> QED BY <2>2, <2>3, <2>4, HitsTake
  <1>12. /\ b.x \in Int /\ 0 <= b.x /\ b.y \in Int /\ 0 <= b.y
         /\ enemy.x \in Int /\ 0 <= enemy.x /\ enemy.x <= 1700
         /\ enemy.y \in Int /\ 0 <= enemy.y /\ enemy.y <= 1200
    BY <1>2, BulletPlace, EnemyPlace
  <1>13. /\ b.x + 16 <= enemy.x
         /\ b.y < enemy.y + 80 /\ b.y + 4 > enemy.y
    BY Numbers DEF LeftOf, SameRow
  <1>14. /\ m.x \in Int /\ m.x <= b.x + 40 /\ m.x <= 1600
         /\ m.y \in Int /\ (m.y = b.y \/ (m.y = 1200 /\ 1200 < b.y))
    <2>1. PICK v : v = b.x + 40
      OBVIOUS
    <2>2. v \in Int /\ 0 <= v
      BY <1>12, <2>1
    <2>3. m.x = Clamp(v, 1600) /\ m.y = Clamp(b.y, 1200)
      <3>1. m.x = Clamp(b.x + 40 * dt, 1600) /\ m.y = Clamp(b.y, 1200)
        BY <1>2, <1>3, <1>4, BulletMoves
      <3>2. b.x + 40 * dt = v
        BY <1>1, <1>12, <2>1
      <3> QED BY <3>1, <3>2
    <2>4. m.x \in Int /\ m.x <= v /\ m.x <= 1600
      BY <2>2, <2>3, Clamped
    <2>5. m.y \in Int /\ (m.y = b.y \/ (m.y = 1200 /\ 1200 < b.y))
      BY <1>12, <2>3 DEF Clamp
    <2> QED BY <2>1, <2>4, <2>5
  <1>15. /\ moved.x \in Int /\ moved.y = enemy.y
         /\ \/ moved.x >= enemy.x - 15
            \/ moved.x = 1600
    <2>1. PICK v : v = enemy.x - 15
      OBVIOUS
    <2>2. v \in Int
      BY <1>12, <2>1
    <2>3. moved.x = Clamp(v, 1600) /\ moved.y = enemy.y
      <3>1. moved.x = Clamp(enemy.x - 15 * dt, 1600) /\ moved.y = enemy.y
        BY <1>2, <1>8, EnemyMoves
      <3>2. enemy.x - 15 * dt = v
        BY <1>1, <1>12, <2>1
      <3> QED BY <3>1, <3>2
    <2>4. moved.x \in Int /\ (moved.x >= v \/ moved.x = 1600)
      BY <2>2, <2>3 DEF Clamp
    <2> QED BY <2>1, <2>3, <2>4
  <1>16. m.y < moved.y + 80 /\ m.y + 4 > moved.y
    BY <1>12, <1>13, <1>14, <1>15
  <1>17. m.x < moved.x + 80
    BY <1>12, <1>13, <1>14, <1>15
  <1>18. m.x + 16 <= moved.x
    BY <1>10, <1>14, <1>15, <1>16, <1>17, Numbers DEF Overlap
  <1> QED BY <1>3, <1>11, <1>18, Numbers DEF LeftOf

(* While ticks take one step each, a bullet in an enemy's row hits it or   *)
(* is still left of it, for any number of bullets: in one tick the two     *)
(* close by less than their widths together.  A tick of two steps is       *)
(* already too long (GameServer.cpp:56-73, 685-703).                       *)
THEOREM BulletsDoNotPass ==
  ASSUME ShortTicks
  PROVE  Spec => NoTunnelling
  <1>1. IInv /\ [Next]_vars =>
           \A b \in bullets, dt \in Dts :
              /\ Present /\ Present'
              /\ SameRow(b, enemy) /\ LeftOf(b, enemy)
              /\ MovedBullet(b, dt) \in bullets'
              => LeftOf(MovedBullet(b, dt), enemy')
    BY NoJump
  <1> QED BY <1>1, Invariance, PTL DEF Spec, NoTunnelling
=============================================================================

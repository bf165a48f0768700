SPECIFICATION Spec
CONSTANTS
  Dts = {1}
  Moves <- LeftOnly
  StartXs = {400}
  EnemyYs = {600, 900}
  MaxBullets = 1
INVARIANTS
  TypeOK
PROPERTIES
  EdgeEnemyIsOutOfReach
  NoTunnelling

SPECIFICATION Spec
CONSTANTS
  Dts = {2}
  Moves <- StandStill
  StartXs = {400}
  EnemyYs = {600}
  MaxBullets = 1
PROPERTY EnemiesLeave

SPECIFICATION Spec
CONSTANTS
  Players = {1, 2}
  MaxEntities = 5
  Dts = {1}
  MIN_ENEMY_SPAWN_INTERVAL = 1
  MAX_ENEMY_SPAWN_INTERVAL = 2
  BULLET_LIFETIME = 2
  MAX_BATCH_ENTITIES = 2
INVARIANT BatchCoversWorld

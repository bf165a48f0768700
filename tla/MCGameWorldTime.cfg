SPECIFICATION Spec
CONSTANTS
  Players = {1, 2}
  MaxEntities = 3
  Dts = {1, 2}
  MIN_ENEMY_SPAWN_INTERVAL = 3
  MAX_ENEMY_SPAWN_INTERVAL = 5
  BULLET_LIFETIME = 3
  MAX_BATCH_ENTITIES = 10
PROPERTIES
  BulletsExpire

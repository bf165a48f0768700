SPECIFICATION Spec
CONSTANTS
  MaxClients = 4
  MaxConnects = 1
  MAX_PLAYERS = 2
  UINT8 = 3
  Tokens = {t1, t2, t3, t4}
  NoToken = NoToken
  FreshTokens = TRUE
  Reauthenticate = FALSE
SYMMETRY TokenSymmetry
INVARIANT PlayerIdsDistinct
CHECK_DEADLOCK FALSE

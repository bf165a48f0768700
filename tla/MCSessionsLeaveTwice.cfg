SPECIFICATION Spec
CONSTANTS
  MaxClients = 3
  MaxConnects = 1
  MAX_PLAYERS = 2
  UINT8 = 256
  Tokens = {t1, t2, t3}
  NoToken = NoToken
  FreshTokens = TRUE
  Reauthenticate = FALSE
SYMMETRY TokenSymmetry
INVARIANT LeaveAnnouncedOnce
CHECK_DEADLOCK FALSE

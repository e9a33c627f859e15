\* A rotation in flight when all sessions are revoked makes a live one.
CONSTANTS
  SessionIds = {1, 2, 3}
  Users = {u}
  Clients = {c1}
  NoSession = NoSession
  NoClaims = NoClaims
  RefreshTtl = 1
  AccessTtl = 1
  LastTick = 1
  MaxVersion = 0
SPECIFICATION SessionSpec
PROPERTY LoggedOutStaysOut
CHECK_DEADLOCK FALSE

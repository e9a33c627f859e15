\* One user with two calls in flight presents one refresh token twice.
CONSTANTS
  SessionIds = {1, 2, 3}
  Users = {u}
  Clients = {c1, c2}
  NoSession = NoSession
  NoClaims = NoClaims
  RefreshTtl = 1
  AccessTtl = 1
  LastTick = 1
  MaxVersion = 0
SPECIFICATION SessionSpec
INVARIANT OneLivePerFamily
CHECK_DEADLOCK FALSE

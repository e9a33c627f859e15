CONSTANTS
  SessionIds = {1, 2, 3}
  Users = {u}
  Clients = {c1, c2}
  NoSession = NoSession
  NoClaims = NoClaims
  RefreshTtl = 1
  AccessTtl = 1
  LastTick = 1
  MaxVersion = 1
  Codes = {k1, k2, k3}
  Owners = {o1, o2}
  Telegrams = {t1}
  LinkIds = {1, 2}
  Linkers = {p1, p2}
  NoCode = NoCode
  NoLink = NoLink
  NoLinker = NoLinker
  Migrations = 3
  Runners = {r1, r2}
  Checksums = {x, y}
  NotApplied = NotApplied
  NoRunner = NoRunner
  ProxyIds = {1, 2}
  Endpoints = {e1, e2}
  Forms = {f1}
  Admins = {a, b}
  MaxProxies = 1
  NoProxy = NoProxy
  Addresses = {ip}
  FailLimit = 2
  WindowLength = 1
  LastMoment = 4
  NoWindow = NoWindow
  Offers = {first, second}
  Unknown = {elsewhere}
  Selectors = {s1, s2, s3}
  Texts = {before, after}
  Rests = {plain, other}
  Writers = {w1, w2}
  LastEvent = 3
  NoEvent = NoEvent
  Tasks = {q1, q2, q3}
  Connections = {d1, d2}
  MaxStatements = 2
  NoTask = NoTask
SPECIFICATION MCSpec
SYMMETRY CallSymmetry
INVARIANTS
  ServicesTypeOK
  FamilyIsLinear
  CodeLinksOnce
  FewLiveCodes
  SchemaMatchesJournal
  DoneMeansCurrent
  CatalogueNearLimit
  BrakeHolds
  VerifyIsExact
  OneSelected
  AllOrNothing
PROPERTIES
  LogoutSettles
  RefusalIsFinal
  RemovalIsRecorded
  SelectionKept
CHECK_DEADLOCK FALSE

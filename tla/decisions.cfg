CONSTANTS
  Blockings <- MCBlockings
  Breakers = {"HALF_OPEN", "OPEN"}
  Modes = {"MONITOR_ONLY", "AUTO_FILL", "AUTO_HOLD", "AUTHORIZED_AUTO_BOOKING"}
  Accounts = {"ACTIVE", "COOLDOWN"}
  Maintenances = {"NONE", "MONITORING_ONLY", "FULL"}
  Bases = {20, 61, 900, 3600}
  Floors = {10, 30}
  Misses = {0, 1, 2, 11}
  Throttles = {0, 1, 7}
  Releases = {0, 30, 90}
  Draws = 4
  Catalogue <- MCCatalogue
  Requests <- MCRequests
  Sizes = {3}
  NoPrice = NoPrice
  NoWindowAsked = NoWindowAsked
  Tenants = {"here", "there"}
  Rows = {1, 2}
  RowTenant <- MCRowTenant
  Grants = {{}, {"audit:read"}}
  PermissionsAsked = {"self", "typo"}
  Conditions <- MCConditions
  Instants <- MCInstants
  Offsets <- MCOffsets
  Amounts <- MCAmounts
  Numerators <- MCNumerators
  Denominators = {1, 2, 3, 7, 10}
SPECIFICATION MCSpec
INVARIANTS
  GatesAgree
  OnlyProductionSubmits
  CadenceIsMonotone
  RankingIsStable
  BetterOfferWins
  TenantLeftOnlyByCondition
  WallClockRoundTrip
  MoneyIsExact
CHECK_DEADLOCK FALSE

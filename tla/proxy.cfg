\* Two workers and the administrator over one proxy, or every kind of sample.
SPECIFICATION MCSpec
CONSTANTS
  w1 = w1  w2 = w2
  Proxies = {1}
  Listed = {}
  Administered = {1}
  Workers = {w1, w2}
  NoWorker = NoWorker
  TrafficSamples <- AnyTraffic
  ProbeSamples <- AnyProbe
  Reacquires = FALSE
  MaxTime = 2
  MaxRestarts = 1
  MaxPerRun = 1
  MaxLease = 1
  RestBase = 1  RestCap = 4
  DeadAfter = 3
  Gain <- Points  Loss <- Points
  MinHealth = 50
  Rotation = 2
  ProbeInterval = 1
CHECK_DEADLOCK FALSE
SYMMETRY Alike
INVARIANTS TypeOK WindowMatchesStatus LeaseIsBacked
PROPERTY HandsOutOnlyUsable

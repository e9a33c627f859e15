\* Two live workers use one proxy once the first lease is older than MaxLease.
SPECIFICATION Spec
CONSTANTS
  w1 = w1  w2 = w2
  Proxies = {1}
  Listed = {1}
  Administered = {}
  Workers = {w1, w2}
  NoWorker = NoWorker
  TrafficSamples <- LimitedOnly
  ProbeSamples <- GoodProbes
  Reacquires = FALSE
  MaxTime = 2
  MaxRestarts = 0
  MaxPerRun = 1
  MaxLease = 1
  RestBase = 1  RestCap = 4
  DeadAfter = 3
  Gain <- NoPoints  Loss <- NoPoints
  MinHealth = 50
  Rotation = 2
  ProbeInterval = 1
CHECK_DEADLOCK FALSE
INVARIANT OneLiveUser

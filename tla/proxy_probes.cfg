\* Passes that have room for every proxy probe each one whose rest is over.
SPECIFICATION FairSpec
CONSTANTS
  w1 = w1  w2 = w2
  Proxies = {1, 2}
  Listed = {1, 2}
  Administered = {}
  Workers = {w1}
  NoWorker = NoWorker
  TrafficSamples <- LimitedOnly
  ProbeSamples <- NoSample
  Reacquires = TRUE
  MaxTime = 2
  MaxRestarts = 1
  MaxPerRun = 2
  MaxLease = 1
  RestBase = 1  RestCap = 4
  DeadAfter = 3
  Gain <- NoPoints  Loss <- NoPoints
  MinHealth = 50
  Rotation = 1
  ProbeInterval = 1
CHECK_DEADLOCK FALSE
INVARIANT OneProxyPerWorker
PROPERTY ElapsedRestIsProbed

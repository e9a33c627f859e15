\* createRequest with one key, two auto-cancels and transitions over the same rows.
SPECIFICATION FairSpec
CONSTANTS
  w = w  a = a  b = b  l = l  j = j  k = k
  Requests = {w, a, b}
  Keys = {k1}
  Targets <- WayToCheck
  Legs = {}
  Callers = {p1, p2}
  NoRequest = NoRequest  NoKey = NoKey  NoCaller = NoCaller
  Journey <- OneJourney
  Priority <- WinnerFirst
  MaxRows <- Short
INVARIANT OneRequestPerKey
PROPERTY EveryCallReturns

\* A cancelled request keeps its monitor ACTIVE.
SPECIFICATION Spec
CONSTANTS
  w = w  a = a  b = b  l = l  j = j  k = k
  Requests = {w}
  Keys = {}
  Targets <- AnyState
  Legs = {out}
  Callers = {p1}
  NoRequest = NoRequest  NoKey = NoKey  NoCaller = NoCaller
  Journey <- OneJourney
  Priority <- WinnerFirst
  MaxRows <- ToExpired
PROPERTY StoppedHasNoActiveMonitor

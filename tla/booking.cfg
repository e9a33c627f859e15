\* One request through its whole life, or one that an auto-cancel races.
SPECIFICATION MCSpec
CONSTANTS
  w = w  a = a  b = b  l = l  j = j  k = k
  Requests = {w, a, l}
  Keys = {}
  Targets <- AnyState
  Legs = {out}
  Callers = {p1, p2}
  NoRequest = NoRequest  NoKey = NoKey  NoCaller = NoCaller
  Journey <- TwoJourneys
  Priority <- WinnerFirst
  MaxRows <- FullOrLoser
INVARIANTS TypeOK HistoryIsPath SubmissionFollowsOffer
           LocksAreSound CancelledIsStamped AutoCancelSparesSubmitted
PROPERTIES ImplementsLifecycle AutoCancelStopsMonitors TerminalIsFinal

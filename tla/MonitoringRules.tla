--------------------------- MODULE MonitoringRules ---------------------------
(***************************************************************************)
(* When a monitor searches next: packages/booking/src/monitoring.ts, and   *)
(* jitterSeconds and backoffSeconds of packages/shared/src/time.ts.        *)
(* Seconds are integers; the random source draws one of Draws parts of its *)
(* range.                                                                  *)
(***************************************************************************)
EXTENDS Decisions

CONSTANTS
  Bases, Floors,   \* base_interval_seconds and the plan's floor, in part
  Misses,          \* consecutive_misses, in part
  Throttles,       \* throttle_events, in part
  Releases,        \* seconds to the release
  Draws            \* random() is (draw / Draws) for draw in 0 .. Draws - 1

ASSUME MonitorAssumption ==
  /\ Bases \subseteq Nat /\ Floors \subseteq Nat /\ Misses \subseteq Nat
  /\ Throttles \subseteq Nat /\ Releases \subseteq Int /\ Draws \in Nat \ {0}

GlobalFloor    == 20    \* LIMITS.MIN_MONITOR_INTERVAL_SECONDS
BackoffMost    == 900   \* backoffSeconds, maxSeconds
ThrottleMost   == 900   \* THROTTLE_MAX_INTERVAL_SECONDS
Strategies == {"FIXED", "JITTERED", "PRIORITY_BASED", "EXPONENTIAL_BACKOFF",
               "RELEASE_TIME", "ADAPTIVE"}

Monitors == [kind : {"monitor"}, strategy : Strategies, base : Bases, floor : Floors,
             misses : Misses, priority : 1 .. 5, throttles : Throttles,
             release : Releases, draw : 0 .. Draws - 1]

Floor(m) == Greatest(m.floor, GlobalFloor)
Base(m)  == Greatest(m.base, Floor(m))
-----------------------------------------------------------------------------
\* base / 2 at priority 1, base at 2 and 3, half as much again at 5.
QuarterFactor(p) == IF p <= 2 THEN 2 * p ELSE 4 + (p - 3)

\* 2^10 seconds are above BackoffMost, so higher powers make no difference.
Backoff(base, attempt) ==
  Least(BackoffMost, base * 2 ^ Least(10, Greatest(0, attempt - 1)))

NearRelease(m) ==
  IF m.release > 60 THEN Base(m)
  ELSE IF m.release <= 0 THEN Floor(m)
  ELSE Greatest(Floor(m), Least(Base(m), CeilDiv(m.release, 60) + 1))

Effective(m) ==
  CASE m.strategy \in {"FIXED", "JITTERED"} -> Base(m)
    [] m.strategy = "PRIORITY_BASED" ->
         Greatest(Floor(m), RoundDiv(Base(m) * QuarterFactor(m.priority), 4))
    [] m.strategy = "EXPONENTIAL_BACKOFF" -> Greatest(Floor(m), Backoff(Base(m), m.misses))
    [] m.strategy = "RELEASE_TIME" -> NearRelease(m)
    [] m.strategy = "ADAPTIVE" ->
         Greatest(Floor(m), RoundDiv(Base(m) * (10 + Least(10, m.misses)), 10))

Throttled(m, interval) ==
  IF m.throttles <= 0 THEN interval
  ELSE Least(ThrottleMost, Greatest(interval, interval * 2 ^ Least(m.throttles, 6)))

\* A quarter less to a quarter more.
Jittered(seconds, draw) ==
  Greatest(1, RoundDiv(seconds * (3 * Draws + 2 * draw), 4 * Draws))

NominalInterval(m) == Throttled(m, Effective(m))

\* Mutant: the floor is the only bound.
LowerBoundFloor(m) == Floor(m)

LowerBound(m) ==
  IF m.throttles > 0 THEN Greatest(Floor(m), NominalInterval(m)) ELSE Floor(m)

NextSearch(m) == Greatest(LowerBound(m), Jittered(NominalInterval(m), m.draw))
-----------------------------------------------------------------------------
MonitorQuestion == question.kind = "monitor"

\* The order of cadences: whatever the strategy and the jitter, no search comes
\* before the plan's or the global floor; a request of higher priority, or one
\* that missed less often, never waits longer; and a throttled monitor whose
\* interval is below the cap does not search before its unthrottled interval.
CadenceIsMonotone ==
  MonitorQuestion =>
    /\ NextSearch(question) >= Greatest(question.floor, GlobalFloor)
    /\ \A p \in 1 .. question.priority :
         NextSearch([question EXCEPT !.priority = p]) <= NextSearch(question)
    /\ \A n \in Misses : n <= question.misses =>
         NextSearch([question EXCEPT !.misses = n]) <= NextSearch(question)
    /\ question.throttles > 0 /\ Effective(question) <= ThrottleMost =>
         NextSearch(question) >= Effective(question)
=============================================================================

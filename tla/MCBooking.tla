----------------------------- MODULE MCBooking -----------------------------
(* Instances of BookingService for TLC. *)
EXTENDS BookingService

CONSTANTS w, a, b, l, j, k

\* One journey, but for l; w is the request other requests lose against.
OneJourney   == [r \in Requests |-> j]
TwoJourneys  == [r \in Requests |-> IF r = l THEN k ELSE j]
WinnerFirst  == [r \in Requests |-> IF r = w THEN 1 ELSE 2]

\* What callers ask for: any state; the way to a lock and the cancellations;
\* one state.
AnyState     == BookingState
WayToLock    == {"VALIDATING", "SCHEDULED", "QUEUED", "SEARCHING", "AVAILABLE",
                 "LOCKED", "CANCELLED"}
WayToCheck   == {"VALIDATING", "CANCELLED"}

\* Bounds on the rows of booking_transitions per request.
FullOrLoser  == [r \in Requests |-> CASE r = l -> 11 [] r = a -> 7 [] OTHER -> 0]
Short        == [r \in Requests |-> IF r = w THEN 0 ELSE 1]
ToExpired    == [r \in Requests |-> 6]

\* Either l alone lives its whole life, or w and a meet the auto-cancel on the
\* way to a lock: l is of another journey, so no step concerns it and them.
OneCast == \E cast \in {{w, a}, {l}} : \A r \in Requests \ cast : status[r] = NoRow

Asked(r) == IF r = l THEN Targets ELSE WayToLock

MCNext ==
  \/ \E p \in Callers :
       \/ \E x \in Keys \cup {NoKey} : Lookup(p, x)
       \/ \E r \in Requests : \E to \in Asked(r) : BeginTransition(p, r, to)
       \/ \E r \in Requests : BeginSweep(p, r)
       \/ CallStep(p) /\ OneCast'
       \/ Abort(p)
  \/ \E r \in Requests : \/ \E leg \in Legs : AddMonitor(r, leg)
                         \/ OpenReservation(r)
                         \/ CloseReservation(r)

MCSpec == Init /\ [][MCNext]_vars
=============================================================================

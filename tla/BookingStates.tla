--------------------------- MODULE BookingStates ---------------------------
(***************************************************************************)
(* The state machine of a booking request, packages/booking/src/           *)
(* state-machine.ts: the states, the table of legal transitions, and the   *)
(* invariants the service asserts inside the transaction of a transition.  *)
(*                                                                         *)
(* The table is a set of pairs <<from, to>>, one row per state of the      *)
(* source.  Triggers and guards of the source's rows are labels the        *)
(* service never reads (it calls assertTransition(from, to) with no        *)
(* trigger), so two rows that differ only in the trigger are one pair.     *)
(***************************************************************************)
EXTENDS Naturals

Terminal == {"BOOKED", "FAILED", "EXPIRED", "CANCELLED"}

\* States in which the request is being monitored and nothing is submitted yet.
Seeking == {"CREATED", "VALIDATING", "SCHEDULED", "QUEUED", "SEARCHING", "WAITING"}

\* ACTIVE_RESERVATION_STATES without its one terminal member, BOOKED.
Committed == {"LOCKED", "RESERVING", "HUMAN_VERIFICATION_REQUIRED", "PASSENGER_FORM",
              "READY_FOR_CHECKOUT", "AWAITING_USER_APPROVAL", "RESERVED"}

\* ACTIVE_REQUEST_STATES of service.ts: every state that is not terminal.
Active == Seeking \cup {"AVAILABLE"} \cup Committed

BookingState == Active \cup Terminal

\* TRANSITIONS.  A terminal state has no row.
Transitions ==
  UNION { {"CREATED"}       \X {"VALIDATING", "CANCELLED"},
          {"VALIDATING"}    \X {"SCHEDULED", "FAILED", "CANCELLED"},
          {"SCHEDULED"}     \X {"QUEUED", "CANCELLED", "EXPIRED"},
          {"QUEUED"}        \X {"SEARCHING", "CANCELLED", "EXPIRED"},
          {"SEARCHING"}     \X {"WAITING", "AVAILABLE", "CANCELLED", "EXPIRED"},
          {"WAITING"}       \X {"SEARCHING", "CANCELLED", "EXPIRED"},
          {"AVAILABLE"}     \X {"LOCKED", "WAITING", "EXPIRED", "CANCELLED"},
          {"LOCKED"}        \X {"RESERVING", "FAILED", "CANCELLED"},
          {"RESERVING"}     \X {"HUMAN_VERIFICATION_REQUIRED", "PASSENGER_FORM",
                                "RESERVED", "FAILED", "CANCELLED"},
          {"HUMAN_VERIFICATION_REQUIRED"} \X {"RESERVING", "FAILED", "CANCELLED"},
          {"PASSENGER_FORM"} \X {"READY_FOR_CHECKOUT", "AVAILABLE", "FAILED", "CANCELLED"},
          {"READY_FOR_CHECKOUT"} \X {"AWAITING_USER_APPROVAL", "RESERVED", "FAILED", "CANCELLED"},
          {"AWAITING_USER_APPROVAL"} \X {"RESERVED", "FAILED", "CANCELLED"},
          {"RESERVED"}      \X {"BOOKED", "FAILED", "CANCELLED"} }

\* Mutant: a match locks the request without recording the offer first.
IsTransitionSkippingOffer(from, to) ==
  <<from, to>> \in Transitions \cup {<<"SEARCHING", "LOCKED">>}

\* assertTransition: an unknown state and a pair outside the table both throw.
IsTransition(from, to) == <<from, to>> \in Transitions

\* checkInvariants as transition() calls it: the only field of the context it
\* passes is liveReservationCount, so of the five invariants only
\* single-live-reservation can fail (terminal-has-no-exit is a fact of the
\* table, the others are skipped when their field is missing).
InvariantsHold(liveReservationCount) == liveReservationCount <= 1

\* sideEffectsFor, projected on the effect a property is about: the rows whose
\* side effects name 'monitors:stop'.
StopsMonitors(from, to) ==
  /\ IsTransition(from, to)
  /\ to \in {"CANCELLED", "EXPIRED"}
  /\ from # "RESERVED"

\* The states cancelLowerPriorities() lists as cancellable by the auto-cancel.
Sweepable == {"SCHEDULED", "QUEUED", "SEARCHING", "WAITING", "AVAILABLE",
              "CREATED", "VALIDATING"}
=============================================================================

-------------------------- MODULE BookingLifecycle --------------------------
(***************************************************************************)
(* What the booking service promises about a booking request, seen from    *)
(* outside: eighteen states, row locks and in-flight transactions are      *)
(* reduced to the phase a request is in.                                   *)
(*                                                                         *)
(*   - a request is submitted to a provider (phase "committed") only after *)
(*     an offer was found for it;                                          *)
(*   - it is booked only out of the committed phase;                       *)
(*   - it expires only while nothing has been submitted;                   *)
(*   - "booked", "expired" and "closed" are final;                         *)
(*   - several requests change phase in one step only when they are closed *)
(*     together, and no committed request is ever closed that way.         *)
(***************************************************************************)
CONSTANT Requests
VARIABLE phase

Phases == {"none", "seeking", "offered", "committed", "booked", "expired", "closed"}

Init == phase = [r \in Requests |-> "none"]

Move(r, from, to) ==
  /\ phase[r] \in from
  /\ phase' = [phase EXCEPT ![r] = to]

Create(r)   == Move(r, {"none"}, "seeking")
Offer(r)    == Move(r, {"seeking", "committed"}, "offered")
TurnDown(r) == Move(r, {"offered"}, "seeking")
Commit(r)   == Move(r, {"offered"}, "committed")
Book(r)     == Move(r, {"committed"}, "booked")
Expire(r)   == Move(r, {"seeking", "offered"}, "expired")
Close(r)    == Move(r, {"seeking", "offered", "committed"}, "closed")

CloseTogether(S) ==
  /\ \A r \in S : phase[r] \in {"seeking", "offered"}
  /\ phase' = [r \in Requests |-> IF r \in S THEN "closed" ELSE phase[r]]

Next ==
  \/ \E r \in Requests : \/ Create(r) \/ Offer(r) \/ TurnDown(r) \/ Commit(r)
                         \/ Book(r) \/ Expire(r) \/ Close(r)
  \/ \E S \in SUBSET Requests : CloseTogether(S)

Spec == Init /\ [][Next]_phase
=============================================================================

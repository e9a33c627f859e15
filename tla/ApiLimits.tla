------------------------------ MODULE ApiLimits ------------------------------
(***************************************************************************)
(* The brake on failed authentication of apps/api/src/index.ts: a fixed    *)
(* window per address in the memory of one API process, and the timer that *)
(* deletes old windows while requests arrive.  A request with the right    *)
(* token does not come near it.                                            *)
(***************************************************************************)
EXTENDS Naturals, Sequences

CONSTANTS Addresses,
          FailLimit,    \* AUTH_FAIL_LIMIT
          WindowLength, \* AUTH_WINDOW_MS
          LastMoment,   \* bound on the clock
          NoWindow

ASSUME LimitsAssumption ==
  /\ FailLimit \in Nat \ {0} /\ WindowLength \in Nat /\ LastMoment \in Nat
  /\ NoWindow \notin [start : Nat, count : Nat]

VARIABLES
  authFailures,  \* per address: its window, NoWindow where the map has none
  moment,
  refusals       \* history: the 401 answers of an address, each with the start of the
                 \* window it was counted in and its moment

limitVars == <<authFailures, moment, refusals>>

Moments == 0 .. LastMoment

LimitInit ==
  /\ authFailures = [ip \in Addresses |-> NoWindow]
  /\ moment = 0
  /\ refusals = [ip \in Addresses |-> <<>>]

Elapsed(window) == moment - window.start > WindowLength

\* The hook counts a failed attempt and lets it pass to the 401 answer, or
\* answers RATE_LIMITED.  The count goes on growing above the limit; the model
\* stops it one above, where nothing tells the difference.
Opens(ip) == authFailures[ip] = NoWindow \/ Elapsed(authFailures[ip])

FailedAttempt(ip) ==
  /\ LET seen == IF Opens(ip) THEN [start |-> moment, count |-> 1]
                 ELSE [authFailures[ip] EXCEPT !.count = @ + 1] IN
       /\ authFailures' = [authFailures EXCEPT ![ip] =
            [seen EXCEPT !.count = IF @ > FailLimit THEN FailLimit + 1 ELSE @]]
       /\ refusals' = IF seen.count > FailLimit THEN refusals
                      ELSE [refusals EXCEPT ![ip] =
                              Append(@, [start |-> seen.start, at |-> moment])]
  /\ UNCHANGED moment

\* Mutant: the timer empties the map.
SweepWindowsAll ==
  /\ authFailures' = [ip \in Addresses |-> NoWindow]
  /\ UNCHANGED <<moment, refusals>>

\* The timer.
SweepWindows ==
  /\ authFailures' = [ip \in Addresses |->
       IF authFailures[ip] # NoWindow /\ Elapsed(authFailures[ip])
       THEN NoWindow ELSE authFailures[ip]]
  /\ UNCHANGED <<moment, refusals>>

Passes ==
  /\ moment < LastMoment
  /\ moment' = moment + 1
  /\ UNCHANGED <<authFailures, refusals>>

LimitNext == (\E ip \in Addresses : FailedAttempt(ip)) \/ SweepWindows \/ Passes

LimitSpec == LimitInit /\ [][LimitNext]_limitVars
-----------------------------------------------------------------------------
LimitTypeOK ==
  /\ authFailures \in [Addresses -> [start : Moments, count : 1 .. FailLimit + 1]
                                      \cup {NoWindow}]
  /\ moment \in Moments
  /\ refusals \in [Addresses -> Seq([start : Moments, at : Moments])]

\* index.ts:83: a brake against brute force.  The windows are fixed and are
\* also thrown away by a timer, yet no stretch of time as long as a window,
\* wherever it begins, has room for more failed attempts than two windows: of
\* so many answers in a row and one more, the last comes a window after the
\* first.
BrakeHolds ==
  \A ip \in Addresses : \A i \in DOMAIN refusals[ip] :
    i + 2 * FailLimit \in DOMAIN refusals[ip] =>
      refusals[ip][i].at + WindowLength < refusals[ip][i + 2 * FailLimit].at
=============================================================================

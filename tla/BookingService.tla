--------------------------- MODULE BookingService ---------------------------
(***************************************************************************)
(* BookingService of packages/booking/src/service.ts over the tables of    *)
(* packages/database/src/migrations: every method that writes, as the      *)
(* database transactions it is made of.                                    *)
(*                                                                         *)
(* Several callers (API replicas, workers) run the methods concurrently.   *)
(* A call is cut where another caller's transaction may run in between:    *)
(*   createRequest           lookup | INSERT | appendTimeline              *)
(*   transition              SELECT .. FOR UPDATE | the rest, to COMMIT    *)
(*   cancelLowerPriorities   one cut per row the FOR UPDATE scan locks,    *)
(*                           then the loop and COMMIT                      *)
(* Uncommitted writes are invisible to others, so a transaction's writes   *)
(* happen in one step, at its COMMIT; what it read before then is kept in  *)
(* seen[p].  A call may die between any two of its steps (Abort).          *)
(*                                                                         *)
(* Reads that write nothing (a replayed createRequest, timeline,           *)
(* mustExist, findLiveReservation) are steps that change no variable.      *)
(***************************************************************************)
EXTENDS BookingStates, Naturals, Sequences, FiniteSets

CONSTANTS Requests,    \* the ids uuid() can return
          Keys,        \* idempotency keys, qualified by the tenant
          Targets,     \* the states callers ask transition() for
          Legs,        \* (leg, travel date) pairs a monitor may be created for
          Callers,     \* processes that run the service's methods
          NoRequest, NoKey, NoCaller,
          Journey,     \* (tenant, user, origin, destination) of each request
          Priority,    \* 1 is the highest, as in the column's default 3
          MaxRows      \* bound on the rows transition() adds to log[r]

ASSUME SentinelAssumption ==
  /\ NoRequest \notin Requests
  /\ NoKey \notin Keys
  /\ NoCaller \notin Callers

ASSUME PriorityAssumption == Priority \in [Requests -> Nat]

ASSUME TargetsAssumption == Targets \subseteq BookingState

VARIABLES
  status,           \* booking_requests.status, "NONE" while there is no row
  idempotencyKey,   \* booking_requests.idempotency_key
  completed,        \* booking_requests.completed_at IS NOT NULL
  cancelReason,     \* canceled_at and cancel_reason; "none" when both are NULL
  announced,        \* the request_created row of booking_timeline_events
  log,              \* booking_transitions; its timeline row is written with it
  monitors,         \* booking_monitors.status per leg
  reservations,     \* number of live rows of reservations
  lock,             \* the caller whose transaction holds the row FOR UPDATE
  pc, row, target,  \* where a call is, the row it is at, the state it asks for
  key,              \* createRequest's idempotency key
  todo,             \* rows a cancelLowerPriorities scan has not reached
  seen              \* the status a transaction read from a row it locked

dbVars   == <<status, idempotencyKey, completed, cancelReason, announced, log,
              monitors, reservations>>
callVars == <<pc, row, target, key, todo, seen>>
vars     == <<dbVars, lock, callVars>>

NoRow == "NONE"
Row   == [from : BookingState, to : BookingState]

TypeOK ==
  /\ status \in [Requests -> BookingState \cup {NoRow}]
  /\ idempotencyKey \in [Requests -> Keys \cup {NoKey}]
  /\ completed \in [Requests -> BOOLEAN]
  /\ cancelReason \in [Requests -> {"none", "blank", "caller", "auto"}]
  /\ announced \in [Requests -> BOOLEAN]
  /\ log \in [Requests -> Seq(Row)]
  /\ monitors \in [Requests -> [Legs -> {"none", "ACTIVE", "CANCELED"}]]
  /\ reservations \in [Requests -> Nat]
  /\ lock \in [Requests -> Callers \cup {NoCaller}]
  /\ pc \in [Callers -> {"idle", "inserting", "announcing", "moving", "sweeping"}]
  /\ row \in [Callers -> Requests \cup {NoRequest}]
  /\ target \in [Callers -> BookingState \cup {NoRow}]
  /\ key \in [Callers -> Keys \cup {NoKey}]
  /\ todo \in [Callers -> SUBSET Requests]
  /\ seen \in [Callers -> [Requests -> BookingState \cup {NoRow}]]

NothingSeen == [r \in Requests |-> NoRow]

Init ==
  /\ status = [r \in Requests |-> NoRow]
  /\ idempotencyKey = [r \in Requests |-> NoKey]
  /\ completed = [r \in Requests |-> FALSE]
  /\ cancelReason = [r \in Requests |-> "none"]
  /\ announced = [r \in Requests |-> FALSE]
  /\ log = [r \in Requests |-> <<>>]
  /\ monitors = [r \in Requests |-> [l \in Legs |-> "none"]]
  /\ reservations = [r \in Requests |-> 0]
  /\ lock = [r \in Requests |-> NoCaller]
  /\ pc = [p \in Callers |-> "idle"]
  /\ row = [p \in Callers |-> NoRequest]
  /\ target = [p \in Callers |-> NoRow]
  /\ key = [p \in Callers |-> NoKey]
  /\ todo = [p \in Callers |-> {}]
  /\ seen = [p \in Callers |-> NothingSeen]

-----------------------------------------------------------------------------
(* The end of a call: COMMIT and ROLLBACK both release the row locks.      *)

Return(p) ==
  /\ pc' = [pc EXCEPT ![p] = "idle"]
  /\ row' = [row EXCEPT ![p] = NoRequest]
  /\ target' = [target EXCEPT ![p] = NoRow]
  /\ key' = [key EXCEPT ![p] = NoKey]
  /\ todo' = [todo EXCEPT ![p] = {}]
  /\ seen' = [seen EXCEPT ![p] = NothingSeen]
  /\ lock' = [r \in Requests |-> IF lock[r] = p THEN NoCaller ELSE lock[r]]

\* The process dies, the connection drops or the statement times out: the
\* server rolls the open transaction back; what committed earlier stays.
Abort(p) ==
  /\ pc[p] # "idle"
  /\ Return(p)
  /\ UNCHANGED dbVars

-----------------------------------------------------------------------------
(* createRequest                                                           *)

\* Mutant: the unique index of migration 0005 is missing.
KeyIsFreeNoIndex(k) == TRUE

\* The partial unique index booking_requests_tenant_idempotency_uq.
KeyIsFree(k) == k = NoKey \/ \A r \in Requests : idempotencyKey[r] # k

UnusedIds == {r \in Requests : status[r] = NoRow}

\* The replay lookup misses.  (When it hits, the call returns the existing
\* request and writes nothing.)  Bound: an id is left for every open call.
Lookup(p, k) ==
  /\ pc[p] = "idle"
  /\ Cardinality({q \in Callers : pc[q] = "inserting"}) < Cardinality(UnusedIds)
  /\ k = NoKey \/ \A r \in Requests : idempotencyKey[r] # k
  /\ pc' = [pc EXCEPT ![p] = "inserting"]
  /\ key' = [key EXCEPT ![p] = k]
  /\ UNCHANGED <<dbVars, lock, row, target, todo, seen>>

Insert(p) ==
  /\ pc[p] = "inserting"
  /\ KeyIsFree(key[p])
  /\ \E r \in UnusedIds :
       /\ status' = [status EXCEPT ![r] = "CREATED"]
       /\ idempotencyKey' = [idempotencyKey EXCEPT ![r] = key[p]]
       /\ row' = [row EXCEPT ![p] = r]
  /\ pc' = [pc EXCEPT ![p] = "announcing"]
  /\ UNCHANGED <<completed, cancelReason, announced, log, monitors, reservations,
                 lock, target, key, todo, seen>>

\* A concurrent call inserted the key first: the unique violation is thrown.
InsertConflict(p) ==
  /\ pc[p] = "inserting"
  /\ ~KeyIsFree(key[p])
  /\ Return(p)
  /\ UNCHANGED dbVars

\* appendTimeline, a statement of its own outside any transaction.
Announce(p) ==
  /\ pc[p] = "announcing"
  /\ announced' = [announced EXCEPT ![row[p]] = TRUE]
  /\ Return(p)
  /\ UNCHANGED <<status, idempotencyKey, completed, cancelReason, log, monitors,
                 reservations>>

-----------------------------------------------------------------------------
(* transition                                                              *)

\* Mutant: the SELECT forgets FOR UPDATE and never waits for another caller.
RowIsFreeNoLock(r) == status[r] # NoRow

\* A row can be locked when it exists and no transaction holds it.
RowIsFree(r) == status[r] # NoRow /\ lock[r] = NoCaller

\* SELECT id, status .. FOR UPDATE.  A caller waiting for the row holds no
\* other lock, so its wait is not a state of its own.  Bound: a call that would
\* add a row to the history is made while the history is below MaxRows.
BeginTransition(p, r, to) ==
  /\ pc[p] = "idle"
  /\ RowIsFree(r)
  /\ Len(log[r]) < MaxRows[r] \/ ~IsTransition(status[r], to)
  /\ pc' = [pc EXCEPT ![p] = "moving"]
  /\ row' = [row EXCEPT ![p] = r]
  /\ target' = [target EXCEPT ![p] = to]
  /\ seen' = [seen EXCEPT ![p][r] = status[r]]
  /\ lock' = [lock EXCEPT ![r] = p]
  /\ UNCHANGED <<dbVars, key, todo>>

\* assertTransition on the status read under the lock, and assertInvariants.
TransitionAllowed(p) ==
  /\ IsTransition(seen[p][row[p]], target[p])
  /\ InvariantsHold(reservations[row[p]])

\* Mutant: the CASE of the UPDATE tests 'CANCELED', the monitors' spelling.
StampedReasonSpelling(to, given, old) == IF to = "CANCELED" THEN given ELSE old

\* Mutant: COALESCE(NULLIF(reason, ''), cancel_reason) without its default ''.
StampedReasonNull(to, given, old) ==
  IF to # "CANCELLED" THEN old
  ELSE IF given # "blank" THEN given
  ELSE IF old = "none" THEN "NULL" ELSE old

\* canceled_at and cancel_reason of the UPDATE: the reason the caller gave, or
\* else the one that is there, or else ''.
StampedReason(to, given, old) ==
  IF to # "CANCELLED" THEN old
  ELSE IF given # "blank" \/ old = "none" THEN given ELSE old

CommitTransition(p) ==
  /\ pc[p] = "moving"
  /\ TransitionAllowed(p)
  /\ LET r  == row[p]
         to == target[p]
     IN /\ status' = [status EXCEPT ![r] = to]
        /\ completed' = [completed EXCEPT ![r] = to \in Terminal \/ @]
        /\ \E given \in {"blank", "caller"} :   \* options.reason ?? ''
             cancelReason' = [cancelReason EXCEPT ![r] = StampedReason(to, given, @)]
        /\ log' = [log EXCEPT ![r] = Append(@, [from |-> seen[p][r], to |-> to])]
  /\ Return(p)
  /\ UNCHANGED <<idempotencyKey, announced, monitors, reservations>>

\* assertTransition or assertInvariants throws: ROLLBACK, no trace is left.
RejectTransition(p) ==
  /\ pc[p] = "moving"
  /\ ~TransitionAllowed(p)
  /\ Return(p)
  /\ UNCHANGED dbVars

-----------------------------------------------------------------------------
(* cancelLowerPriorities                                                   *)

IsLowerPriority(r, w) == Priority[r] > Priority[w]

\* The WHERE clause of the SELECT .. FOR UPDATE.
Candidates(w) ==
  {r \in Requests \ {w} : /\ Journey[r] = Journey[w]
                          /\ IsLowerPriority(r, w)
                          /\ status[r] \in Active}

\* The scan moves to some row of S (the SELECT has no ORDER BY), or ends.
ScanNext(p, S) ==
  \/ /\ S = {}
     /\ row' = [row EXCEPT ![p] = NoRequest]
     /\ todo' = [todo EXCEPT ![p] = {}]
  \/ \E r \in S : /\ row' = [row EXCEPT ![p] = r]
                  /\ todo' = [todo EXCEPT ![p] = S \ {r}]

\* With no candidate the call returns [] and writes nothing.
BeginSweep(p, w) ==
  /\ pc[p] = "idle"
  /\ status[w] # NoRow
  /\ Candidates(w) # {}
  /\ pc' = [pc EXCEPT ![p] = "sweeping"]
  /\ ScanNext(p, Candidates(w))
  /\ UNCHANGED <<dbVars, lock, target, key, seen>>

\* The scan waits for the row at hand, locks its latest version and evaluates
\* the WHERE clause on it again.  A row that no longer matches stays locked; it
\* is terminal, so the loop would skip it as it skips every other state that is
\* not Sweepable.
SweepLock(p) ==
  /\ pc[p] = "sweeping" /\ row[p] # NoRequest
  /\ RowIsFree(row[p])
  /\ lock' = [lock EXCEPT ![row[p]] = p]
  /\ seen' = [seen EXCEPT ![p][row[p]] = status[row[p]]]
  /\ ScanNext(p, todo[p])
  /\ UNCHANGED <<dbVars, pc, target, key>>

\* Mutant: every row the SELECT returned is cancelled.
IsSweptEveryActive(p, r) == lock[r] = p /\ seen[p][r] \in Active

\* The rows the loop does not skip.
IsSwept(p, r) == lock[r] = p /\ seen[p][r] \in Sweepable

\* Mutant: the loop forgets UPDATE booking_monitors.
SweptMonitorForgotten(m) == m

\* UPDATE booking_monitors SET status = 'CANCELED' .. AND status = 'ACTIVE'.
SweptMonitor(m) == IF m = "ACTIVE" THEN "CANCELED" ELSE m

\* The loop over the locked rows, to COMMIT.  completed_at is not written.
SweepCommit(p) ==
  /\ pc[p] = "sweeping" /\ row[p] = NoRequest
  /\ status' = [r \in Requests |-> IF IsSwept(p, r) THEN "CANCELLED" ELSE status[r]]
  /\ cancelReason' = [r \in Requests |-> IF IsSwept(p, r) THEN "auto" ELSE cancelReason[r]]
  /\ log' = [r \in Requests |->
               IF IsSwept(p, r)
               THEN Append(log[r], [from |-> seen[p][r], to |-> "CANCELLED"])
               ELSE log[r]]
  /\ monitors' = [r \in Requests |->
                    IF IsSwept(p, r)
                    THEN [l \in Legs |-> SweptMonitor(monitors[r][l])]
                    ELSE monitors[r]]
  /\ Return(p)
  /\ UNCHANGED <<idempotencyKey, completed, announced, reservations>>

WaitsFor(p) == lock[row[p]]
IsWaiting(p) ==
  /\ pc[p] = "sweeping" /\ row[p] # NoRequest
  /\ WaitsFor(p) \notin {p, NoCaller}

\* Mutant: the database detects no deadlock.
InDeadlockNever(p) == FALSE

\* p is on a cycle of the waits-for relation.
InDeadlock(p) ==
  \E C \in SUBSET Callers : /\ p \in C
                            /\ \A q \in C : IsWaiting(q)
                            /\ {WaitsFor(q) : q \in C} = C

\* PostgreSQL's deadlock detector rolls back the call that finds the cycle.
DeadlockVictim(p) ==
  /\ InDeadlock(p)
  /\ Return(p)
  /\ UNCHANGED dbVars

-----------------------------------------------------------------------------
(* addMonitor, and the rows of reservations the orchestrator writes.       *)

\* INSERT .. ON CONFLICT DO NOTHING.  The foreign key takes a KEY SHARE lock on
\* the request, which waits while a transaction holds it FOR UPDATE.
AddMonitor(r, l) ==
  /\ RowIsFree(r)
  /\ monitors[r][l] = "none"
  /\ monitors' = [monitors EXCEPT ![r][l] = "ACTIVE"]
  /\ UNCHANGED <<status, idempotencyKey, completed, cancelReason, announced, log,
                 reservations, lock, callVars>>

\* The partial unique index reservations_live_uq.
ReservationSlot(r) == reservations[r] = 0

\* A row is inserted in a live status while the request may hold one.
OpenReservation(r) ==
  /\ RowIsFree(r)
  /\ status[r] \in Committed
  /\ ReservationSlot(r)
  /\ reservations' = [reservations EXCEPT ![r] = @ + 1]
  /\ UNCHANGED <<status, idempotencyKey, completed, cancelReason, announced, log,
                 monitors, lock, callVars>>

\* A live row becomes EXPIRED, CANCELED or FAILED.
CloseReservation(r) ==
  /\ reservations[r] > 0
  /\ reservations' = [reservations EXCEPT ![r] = @ - 1]
  /\ UNCHANGED <<status, idempotencyKey, completed, cancelReason, announced, log,
                 monitors, lock, callVars>>

-----------------------------------------------------------------------------
CallStep(p) ==
  \/ Insert(p) \/ InsertConflict(p) \/ Announce(p)
  \/ CommitTransition(p) \/ RejectTransition(p)
  \/ SweepLock(p) \/ SweepCommit(p) \/ DeadlockVictim(p)

Next ==
  \/ \E p \in Callers :
       \/ \E k \in Keys \cup {NoKey} : Lookup(p, k)
       \/ \E r \in Requests, to \in Targets : BeginTransition(p, r, to)
       \/ \E w \in Requests : BeginSweep(p, w)
       \/ CallStep(p)
       \/ Abort(p)
  \/ \E r \in Requests : \/ \E l \in Legs : AddMonitor(r, l)
                         \/ OpenReservation(r)
                         \/ CloseReservation(r)

Spec == Init /\ [][Next]_vars

\* A call that was started runs on: its process and the database are scheduled.
\* A scan waiting for a row is served in turn by the row's lock queue (strong
\* fairness); nothing forces a call to start, and nothing forces an abort.
Fairness ==
  \A p \in Callers :
    /\ WF_vars(Insert(p) \/ InsertConflict(p) \/ Announce(p))
    /\ WF_vars(CommitTransition(p) \/ RejectTransition(p))
    /\ SF_vars(SweepLock(p))
    /\ WF_vars(SweepCommit(p))
    /\ WF_vars(DeadlockVictim(p))

FairSpec == Spec /\ Fairness
-----------------------------------------------------------------------------
(* Properties                                                              *)

LastTo(r) == IF log[r] = <<>> THEN "CREATED" ELSE log[r][Len(log[r])].to

\* The append-only history of a request is a path of the transition table from
\* CREATED to the request's status, whoever wrote its rows: transition() after
\* assertTransition, or the auto-cancel, which decides by a list of its own.
\* Two callers that acted on one status would break the path.
HistoryIsPath ==
  \A r \in Requests :
    /\ status[r] = NoRow => log[r] = <<>>
    /\ status[r] # NoRow => status[r] = LastTo(r)
    /\ \A i \in 1..Len(log[r]) :
         /\ IsTransition(log[r][i].from, log[r][i].to)
         /\ log[r][i].from = IF i = 1 THEN "CREATED" ELSE log[r][i - 1].to

WasAvailable(r) == \E i \in 1..Len(log[r]) : log[r][i].to = "AVAILABLE"

\* docs/booking-state-machine.md, invariant 2: nothing is submitted for a request
\* no offer was found for.  The service passes no reachedStates to
\* assertInvariants, so only the shape of the table and the row locks ensure it.
SubmissionFollowsOffer ==
  \A r \in Requests : status[r] \in Committed \cup {"BOOKED"} => WasAvailable(r)

\* What a transaction read of a row is still true when it commits: a row is
\* locked only by an open transaction, and shows the status that one has seen.
LocksAreSound ==
  /\ \A r \in Requests : lock[r] # NoCaller =>
       /\ pc[lock[r]] \in {"moving", "sweeping"}
       /\ status[r] # NoRow /\ seen[lock[r]][r] = status[r]
  /\ \A p \in Callers : pc[p] = "moving" => row[p] \in Requests /\ lock[row[p]] = p

\* Retries and concurrent calls of createRequest with one idempotency key leave
\* one booking request: the lookup and the INSERT are two statements.
OneRequestPerKey ==
  \A r, s \in Requests :
    r # s /\ idempotencyKey[r] # NoKey => idempotencyKey[r] # idempotencyKey[s]

\* "A CANCELLED row must never exist without its cancellation timestamp and
\* reason" (transition), and no other row carries them, on both code paths.
CancelledIsStamped ==
  \A r \in Requests : status[r] = "CANCELLED" <=> cancelReason[r] # "none"

\* What the auto-cancel has cancelled: a request of the winner's journey with a
\* priority strictly below another request's, nothing of which was submitted to
\* a provider when it was cancelled, although its status was read only when the
\* scan reached it and the transaction committed later.
AutoCancelSparesSubmitted ==
  \A r \in Requests :
    cancelReason[r] = "auto" =>
      /\ log[r] # <<>> => log[r][Len(log[r])].from \notin Committed \cup Terminal
      /\ \E w \in Requests : /\ status[w] # NoRow /\ Journey[w] = Journey[r]
                             /\ Priority[w] < Priority[r]

\* The auto-cancel stops every monitor its request has at that moment.
AutoCancelStopsMonitors ==
  [][ \A r \in Requests :
        cancelReason'[r] = "auto" /\ cancelReason[r] # "auto" =>
          \A l \in Legs : monitors'[r][l] # "ACTIVE" ]_vars

\* A terminal request is never touched again: neither a transition decided on an
\* older status, nor a scan that chose the row before it became terminal,
\* rewrites its status, its stamps or its history.
TerminalIsFinal ==
  [][ \A r \in Requests : status[r] \in Terminal =>
        /\ status'[r] = status[r]
        /\ completed'[r] = completed[r]
        /\ cancelReason'[r] = cancelReason[r]
        /\ log'[r] = log[r] ]_vars

\* Every call returns: two auto-cancels that lock the same rows in opposite
\* orders wait for each other, and only the deadlock detector ends that wait.
EveryCallReturns == \A p \in Callers : (pc[p] # "idle") ~> (pc[p] = "idle")

\* What the service promises from outside (BookingLifecycle), with the phase of
\* a request read off its status.
Phase(s) == CASE s = NoRow              -> "none"
              [] s \in Seeking          -> "seeking"
              [] s = "AVAILABLE"        -> "offered"
              [] s \in Committed        -> "committed"
              [] s = "BOOKED"           -> "booked"
              [] s = "EXPIRED"          -> "expired"
              [] s \in {"FAILED", "CANCELLED"} -> "closed"

PhaseMap == [r \in Requests |-> Phase(status[r])]

Lifecycle == INSTANCE BookingLifecycle WITH phase <- PhaseMap

ImplementsLifecycle == Lifecycle!Spec

(* What a comment of the repository says and the code does not do.         *)

\* "Side effects that must be executed in the same transaction as the status
\* write": the effect monitors:stop of the rows that lead to a stopped request.
StoppedHasNoActiveMonitor ==
  [][ \A r \in Requests :
        status'[r] # status[r] /\ StopsMonitors(status[r], status'[r]) =>
          \A l \in Legs : monitors'[r][l] # "ACTIVE" ]_vars
=============================================================================

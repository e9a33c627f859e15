------------------------ MODULE BookingServiceProofs ------------------------
(***************************************************************************)
(* Proofs about BookingService for any number of requests, callers, keys   *)
(* and monitors, and histories of any length.                              *)
(*                                                                         *)
(* The argument: the row locks make what a transaction read still true     *)
(* when it writes (LocksAreSound), hence every change of a request is one  *)
(* of three (RequestStep): nothing, its creation, or one legal transition  *)
(* appended to its history.  The properties follow from the three cases.   *)
(***************************************************************************)
EXTENDS BookingService, TLAPS

-----------------------------------------------------------------------------
(* Facts of the transition table.                                          *)

\* What a row of the table says about its two ends.
LEMMA TransitionEnds ==
  ASSUME NEW f, NEW t, IsTransition(f, t)
  PROVE  /\ f \in Active /\ t \in BookingState
         /\ f \notin Terminal /\ f # NoRow /\ t # NoRow
  BY DEF IsTransition, Transitions, Active, BookingState, Seeking, Committed,
         Terminal, NoRow

\* How the table moves between the phases of BookingLifecycle.
LEMMA TransitionPhases ==
  ASSUME NEW f, NEW t, IsTransition(f, t)
  PROVE  /\ t \in Seeking => f \in Seeking \cup {"AVAILABLE"}
         /\ t = "AVAILABLE" => f \in Seeking \cup Committed
         /\ t \in Committed => f \in Committed \cup {"AVAILABLE"}
         /\ t = "BOOKED" => f \in Committed
         /\ t = "EXPIRED" => f \in Seeking \cup {"AVAILABLE"}
  BY DEF IsTransition, Transitions, Seeking, Committed

\* The auto-cancel's own list agrees with the table.
LEMMA SweepableIsLegal ==
  ASSUME NEW f \in Sweepable
  PROVE  /\ IsTransition(f, "CANCELLED")
         /\ f \in Seeking \cup {"AVAILABLE"}
  BY DEF IsTransition, Transitions, Seeking, Sweepable

-----------------------------------------------------------------------------
(* Type correctness.                                                       *)

\* The variables of calls and locks keep their types when a call ends.
LEMMA ReturnType ==
  ASSUME TypeOK, NEW p \in Callers, Return(p)
  PROVE  /\ lock' \in [Requests -> Callers \cup {NoCaller}]
         /\ pc' \in [Callers -> {"idle", "inserting", "announcing", "moving", "sweeping"}]
         /\ row' \in [Callers -> Requests \cup {NoRequest}]
         /\ target' \in [Callers -> BookingState \cup {NoRow}]
         /\ key' \in [Callers -> Keys \cup {NoKey}]
         /\ todo' \in [Callers -> SUBSET Requests]
         /\ seen' \in [Callers -> [Requests -> BookingState \cup {NoRow}]]
  BY DEF TypeOK, Return, NothingSeen

\* Appending a legal transition to some histories keeps their type.
LEMMA AppendType ==
  ASSUME NEW h \in Seq(Row), NEW f, NEW t, IsTransition(f, t)
  PROVE  Append(h, [from |-> f, to |-> t]) \in Seq(Row)
<1>1. [from |-> f, to |-> t] \in Row
  BY TransitionEnds DEF Row, BookingState
<1> QED
  BY <1>1

\* A step of the auto-cancel's scan keeps the types of its variables.
LEMMA ScanType ==
  ASSUME TypeOK, NEW p \in Callers, NEW S \in SUBSET Requests, ScanNext(p, S)
  PROVE  /\ row' \in [Callers -> Requests \cup {NoRequest}]
         /\ todo' \in [Callers -> SUBSET Requests]
<1>1. CASE /\ row' = [row EXCEPT ![p] = NoRequest]
           /\ todo' = [todo EXCEPT ![p] = {}]
  BY <1>1 DEF TypeOK
<1>2. ASSUME NEW r \in S, row' = [row EXCEPT ![p] = r], todo' = [todo EXCEPT ![p] = S \ {r}]
      PROVE  /\ row' \in [Callers -> Requests \cup {NoRequest}]
             /\ todo' \in [Callers -> SUBSET Requests]
  <2>1. r \in Requests /\ S \ {r} \in SUBSET Requests
    OBVIOUS
  <2> QED
    BY <1>2, <2>1 DEF TypeOK
<1> QED
  BY <1>1, <1>2 DEF ScanNext

\* The initial state is well typed.
LEMMA TypeInit == Init => TypeOK
  BY TargetsAssumption DEF Init, TypeOK, NothingSeen, BookingState, NoRow, Row

\* Every step keeps the types.
LEMMA TypeStep == TypeOK /\ [Next]_vars => TypeOK'
<1> SUFFICES ASSUME TypeOK, [Next]_vars PROVE TypeOK'
  OBVIOUS
<1>1. ASSUME NEW p \in Callers, NEW k \in Keys \cup {NoKey}, Lookup(p, k)
      PROVE  TypeOK'
  BY <1>1 DEF Lookup, TypeOK, dbVars
<1>2. ASSUME NEW p \in Callers, NEW r \in Requests, NEW to \in Targets,
             BeginTransition(p, r, to)
      PROVE  TypeOK'
  BY <1>2, TargetsAssumption DEF BeginTransition, TypeOK, dbVars
<1>3. ASSUME NEW p \in Callers, NEW w \in Requests, BeginSweep(p, w)
      PROVE  TypeOK'
  <2>1. Candidates(w) \in SUBSET Requests
    BY DEF Candidates
  <2> QED
    BY <1>3, <2>1, ScanType DEF BeginSweep, TypeOK, dbVars
<1>4. ASSUME NEW p \in Callers, CallStep(p)
      PROVE  TypeOK'
  <2>1. CASE Insert(p)
    BY <2>1 DEF Insert, UnusedIds, TypeOK, BookingState, Active, Seeking
  <2>2. CASE InsertConflict(p)
    BY <2>2, ReturnType DEF InsertConflict, TypeOK, dbVars
  <2>3. CASE Announce(p)
    BY <2>3, ReturnType DEF Announce, TypeOK
  <2>4. CASE CommitTransition(p)
    <3> DEFINE f == seen[p][row[p]]
    <3>1. IsTransition(f, target[p])
      BY <2>4 DEF CommitTransition, TransitionAllowed
    <3>2. target[p] \in BookingState
      BY <3>1, TransitionEnds
    <3>3. status' \in [Requests -> BookingState \cup {NoRow}]
      BY <2>4, <3>2 DEF CommitTransition, TypeOK
    <3>4. log' \in [Requests -> Seq(Row)]
      <4>1. ASSUME NEW r \in Requests
            PROVE  Append(log[r], [from |-> f, to |-> target[p]]) \in Seq(Row)
        BY <3>1, AppendType DEF TypeOK
      <4> QED
        BY <2>4, <4>1 DEF CommitTransition, TypeOK
    <3>5. /\ completed' \in [Requests -> BOOLEAN]
          /\ cancelReason' \in [Requests -> {"none", "blank", "caller", "auto"}]
      <4>1. PICK given \in {"blank", "caller"} :
              cancelReason' = [cancelReason EXCEPT ![row[p]] =
                                 StampedReason(target[p], given, cancelReason[row[p]])]
        BY <2>4 DEF CommitTransition
      <4> QED
        BY <2>4, <4>1 DEF CommitTransition, TypeOK, StampedReason
    <3> QED
      BY <2>4, <3>3, <3>4, <3>5, ReturnType DEF CommitTransition, TypeOK
  <2>5. CASE RejectTransition(p)
    BY <2>5, ReturnType DEF RejectTransition, TypeOK, dbVars
  <2>6. CASE SweepLock(p)
    <3>1. /\ row' \in [Callers -> Requests \cup {NoRequest}]
          /\ todo' \in [Callers -> SUBSET Requests]
      BY <2>6, ScanType DEF SweepLock, TypeOK
    <3>2. row[p] \in Requests
      BY <2>6 DEF SweepLock, TypeOK
    <3> QED
      BY <2>6, <3>1, <3>2 DEF SweepLock, TypeOK, dbVars
  <2>7. CASE SweepCommit(p)
    <3>1. status' \in [Requests -> BookingState \cup {NoRow}]
      BY <2>7 DEF SweepCommit, TypeOK, BookingState, Terminal
    <3>2. log' \in [Requests -> Seq(Row)]
      <4>1. ASSUME NEW r \in Requests, IsSwept(p, r)
            PROVE  Append(log[r], [from |-> seen[p][r], to |-> "CANCELLED"]) \in Seq(Row)
        BY <4>1, SweepableIsLegal, AppendType DEF IsSwept, TypeOK
      <4> QED
        BY <2>7, <4>1 DEF SweepCommit, TypeOK
    <3>3. monitors' \in [Requests -> [Legs -> {"none", "ACTIVE", "CANCELED"}]]
      <4>1. ASSUME NEW r \in Requests
            PROVE  [l \in Legs |-> SweptMonitor(monitors[r][l])]
                      \in [Legs -> {"none", "ACTIVE", "CANCELED"}]
        BY DEF SweptMonitor, TypeOK
      <4> QED
        BY <2>7, <4>1 DEF SweepCommit, TypeOK
    <3>4. cancelReason' \in [Requests -> {"none", "blank", "caller", "auto"}]
      BY <2>7 DEF SweepCommit, TypeOK
    <3> QED
      BY <2>7, <3>1, <3>2, <3>3, <3>4, ReturnType DEF SweepCommit, TypeOK
  <2>8. CASE DeadlockVictim(p)
    BY <2>8, ReturnType DEF DeadlockVictim, TypeOK, dbVars
  <2> QED
    BY <1>4, <2>1, <2>2, <2>3, <2>4, <2>5, <2>6, <2>7, <2>8 DEF CallStep
<1>5. ASSUME NEW p \in Callers, Abort(p)
      PROVE  TypeOK'
  BY <1>5, ReturnType DEF Abort, TypeOK, dbVars
<1>6. ASSUME NEW r \in Requests, NEW l \in Legs, AddMonitor(r, l)
      PROVE  TypeOK'
  BY <1>6 DEF AddMonitor, TypeOK, callVars
<1>7. ASSUME NEW r \in Requests, OpenReservation(r)
      PROVE  TypeOK'
  BY <1>7 DEF OpenReservation, TypeOK, callVars
<1>8. ASSUME NEW r \in Requests, CloseReservation(r)
      PROVE  TypeOK'
  BY <1>8 DEF CloseReservation, TypeOK, callVars
<1>9. CASE UNCHANGED vars
  BY <1>9 DEF vars, dbVars, callVars, TypeOK
<1> QED
  BY <1>1, <1>2, <1>3, <1>4, <1>5, <1>6, <1>7, <1>8, <1>9 DEF Next

\* Every variable of the model keeps its type.
THEOREM TypeCorrect == Spec => []TypeOK
<1> QED
  BY TypeInit, TypeStep, PTL DEF Spec

-----------------------------------------------------------------------------
(* Row locks.                                                              *)

\* A call that ends keeps the locks of the others sound, provided that it has
\* written the rows it had locked and no others.
LEMMA ReturnLocks ==
  ASSUME TypeOK, LocksAreSound, NEW p \in Callers, Return(p),
         \A r \in Requests : lock[r] # p => status'[r] = status[r]
  PROVE  LocksAreSound'
<1>1. ASSUME NEW r \in Requests, lock'[r] # NoCaller
      PROVE  /\ lock'[r] = lock[r] /\ lock[r] # p /\ lock[r] \in Callers
             /\ pc'[lock[r]] = pc[lock[r]] /\ seen'[lock[r]] = seen[lock[r]]
  BY <1>1 DEF Return, TypeOK
<1>2. ASSUME NEW r \in Requests, lock'[r] # NoCaller
      PROVE  /\ pc'[lock'[r]] \in {"moving", "sweeping"}
             /\ status'[r] # NoRow /\ seen'[lock'[r]][r] = status'[r]
  BY <1>1, <1>2 DEF LocksAreSound
<1>3. ASSUME NEW q \in Callers, pc'[q] = "moving"
      PROVE  row'[q] \in Requests /\ lock'[row'[q]] = q
  <2>1. q # p /\ pc[q] = "moving" /\ row'[q] = row[q]
    BY <1>3 DEF Return, TypeOK
  <2> QED
    BY <2>1 DEF Return, LocksAreSound
<1> QED
  BY <1>2, <1>3 DEF LocksAreSound

\* A row p has just locked and read.
LEMMA LockTaken ==
  ASSUME TypeOK, LocksAreSound, NEW p \in Callers, NEW r \in Requests,
         RowIsFree(r), lock' = [lock EXCEPT ![r] = p],
         seen' = [seen EXCEPT ![p][r] = status[r]], UNCHANGED status,
         pc'[p] \in {"moving", "sweeping"},
         \A q \in Callers \ {p} : pc'[q] = pc[q] /\ row'[q] = row[q],
         pc'[p] = "moving" => row'[p] = r,
         \A s \in Requests : lock[s] = p => pc[p] = pc'[p]
  PROVE  LocksAreSound'
<1>1. ASSUME NEW s \in Requests, lock'[s] # NoCaller
      PROVE  /\ pc'[lock'[s]] \in {"moving", "sweeping"}
             /\ status'[s] # NoRow /\ seen'[lock'[s]][s] = status'[s]
  <2>1. CASE s = r
    BY <2>1 DEF TypeOK, RowIsFree
  <2>2. CASE s # r
    <3>1. lock'[s] = lock[s] /\ lock[s] \in Callers
      BY <1>1, <2>2 DEF TypeOK
    <3>2. seen'[lock[s]][s] = seen[lock[s]][s]
      BY <2>2, <3>1 DEF TypeOK
    <3> QED
      BY <3>1, <3>2, <1>1 DEF LocksAreSound
  <2> QED
    BY <2>1, <2>2
<1>2. ASSUME NEW q \in Callers, pc'[q] = "moving"
      PROVE  row'[q] \in Requests /\ lock'[row'[q]] = q
  <2>1. CASE q = p
    BY <1>2, <2>1 DEF TypeOK
  <2>2. CASE q # p
    BY <1>2, <2>2, SentinelAssumption DEF LocksAreSound, RowIsFree, TypeOK
  <2> QED
    BY <2>1, <2>2
<1> QED
  BY <1>1, <1>2 DEF LocksAreSound

\* No row is locked initially.
LEMMA LocksInit == Init => LocksAreSound
  BY DEF Init, LocksAreSound

\* Every step keeps the row locks sound.
LEMMA LocksStep == TypeOK /\ LocksAreSound /\ [Next]_vars => LocksAreSound'
<1> SUFFICES ASSUME TypeOK, LocksAreSound, [Next]_vars PROVE LocksAreSound'
  OBVIOUS
<1>1. ASSUME NEW p \in Callers, NEW k \in Keys \cup {NoKey}, Lookup(p, k)
      PROVE  LocksAreSound'
  BY <1>1 DEF Lookup, LocksAreSound, TypeOK, dbVars
<1>2. ASSUME NEW p \in Callers, NEW r \in Requests, NEW to \in Targets,
             BeginTransition(p, r, to)
      PROVE  LocksAreSound'
  <2>1. \A s \in Requests : lock[s] # p
    BY <1>2, SentinelAssumption DEF BeginTransition, LocksAreSound
  <2> QED
    BY <1>2, <2>1, LockTaken DEF BeginTransition, TypeOK, dbVars
<1>3. ASSUME NEW p \in Callers, NEW w \in Requests, BeginSweep(p, w)
      PROVE  LocksAreSound'
  <2>1. \A q \in Callers \ {p} : row'[q] = row[q]
    BY <1>3 DEF BeginSweep, ScanNext, TypeOK
  <2> QED
    BY <1>3, <2>1 DEF BeginSweep, LocksAreSound, TypeOK, dbVars
<1>4. ASSUME NEW p \in Callers, CallStep(p)
      PROVE  LocksAreSound'
  <2>1. CASE Insert(p)
    <3>1. \A r \in Requests : lock[r] # NoCaller => status'[r] = status[r]
      BY <2>1 DEF Insert, UnusedIds, LocksAreSound, TypeOK
    <3>2. \A q \in Callers \ {p} : row'[q] = row[q]
      BY <2>1 DEF Insert, TypeOK
    <3> QED
      BY <2>1, <3>1, <3>2 DEF Insert, LocksAreSound, TypeOK
  <2>2. CASE InsertConflict(p)
    BY <2>2, ReturnLocks DEF InsertConflict, dbVars
  <2>3. CASE Announce(p)
    BY <2>3, ReturnLocks DEF Announce
  <2>4. CASE CommitTransition(p)
    <3>1. \A r \in Requests : lock[r] # p => status'[r] = status[r]
      BY <2>4 DEF CommitTransition, LocksAreSound, TypeOK
    <3> QED
      BY <2>4, <3>1, ReturnLocks DEF CommitTransition
  <2>5. CASE RejectTransition(p)
    BY <2>5, ReturnLocks DEF RejectTransition, dbVars
  <2>6. CASE SweepLock(p)
    <3>1. \A q \in Callers \ {p} : row'[q] = row[q]
      BY <2>6 DEF SweepLock, ScanNext, TypeOK
    <3>2. row[p] \in Requests /\ pc[p] = "sweeping" /\ UNCHANGED <<pc, status>>
      BY <2>6 DEF SweepLock, TypeOK, dbVars
    <3>3. /\ RowIsFree(row[p])
          /\ lock' = [lock EXCEPT ![row[p]] = p]
          /\ seen' = [seen EXCEPT ![p][row[p]] = status[row[p]]]
      BY <2>6 DEF SweepLock
    <3> QED
      BY <3>1, <3>2, <3>3, LockTaken
  <2>7. CASE SweepCommit(p)
    <3>1. \A r \in Requests : lock[r] # p => status'[r] = status[r]
      BY <2>7 DEF SweepCommit, IsSwept
    <3> QED
      BY <2>7, <3>1, ReturnLocks DEF SweepCommit
  <2>8. CASE DeadlockVictim(p)
    BY <2>8, ReturnLocks DEF DeadlockVictim, dbVars
  <2> QED
    BY <1>4, <2>1, <2>2, <2>3, <2>4, <2>5, <2>6, <2>7, <2>8 DEF CallStep
<1>5. ASSUME NEW p \in Callers, Abort(p)
      PROVE  LocksAreSound'
  BY <1>5, ReturnLocks DEF Abort, dbVars
<1>6. ASSUME NEW r \in Requests, NEW l \in Legs, AddMonitor(r, l)
      PROVE  LocksAreSound'
  BY <1>6 DEF AddMonitor, LocksAreSound, callVars
<1>7. ASSUME NEW r \in Requests, OpenReservation(r)
      PROVE  LocksAreSound'
  BY <1>7 DEF OpenReservation, LocksAreSound, callVars
<1>8. ASSUME NEW r \in Requests, CloseReservation(r)
      PROVE  LocksAreSound'
  BY <1>8 DEF CloseReservation, LocksAreSound, callVars
<1>9. CASE UNCHANGED vars
  BY <1>9 DEF vars, dbVars, callVars, LocksAreSound
<1> QED
  BY <1>1, <1>2, <1>3, <1>4, <1>5, <1>6, <1>7, <1>8, <1>9 DEF Next

\* The status a transaction acts on is the status of the row it writes.
THEOREM RowLocks == Spec => []LocksAreSound
<1> QED
  BY TypeInit, TypeStep, LocksInit, LocksStep, PTL DEF Spec

-----------------------------------------------------------------------------
(* The three ways a request changes.                                       *)

IsKept(r) == status'[r] = status[r] /\ log'[r] = log[r]

IsCreated(r) ==
  status[r] = NoRow /\ status'[r] = "CREATED" /\ log'[r] = log[r]

IsMoved(r, to) ==
  /\ IsTransition(status[r], to)
  /\ status'[r] = to
  /\ log'[r] = Append(log[r], [from |-> status[r], to |-> to])

\* Only three actions write a request.
LEMMA OnlyThreeWriters ==
  ASSUME [Next]_vars
  PROVE  \/ UNCHANGED <<status, log>>
         \/ \E p \in Callers : Insert(p) \/ CommitTransition(p) \/ SweepCommit(p)
<1>1. ASSUME NEW p \in Callers, CallStep(p)
      PROVE  \/ UNCHANGED <<status, log>>
             \/ Insert(p) \/ CommitTransition(p) \/ SweepCommit(p)
  BY <1>1 DEF CallStep, InsertConflict, Announce, RejectTransition, SweepLock,
              DeadlockVictim, dbVars
<1>2. ASSUME NEW p \in Callers,
             \/ \E k \in Keys \cup {NoKey} : Lookup(p, k)
             \/ \E r \in Requests, to \in Targets : BeginTransition(p, r, to)
             \/ \E w \in Requests : BeginSweep(p, w)
             \/ Abort(p)
      PROVE  UNCHANGED <<status, log>>
  BY <1>2 DEF Lookup, BeginTransition, BeginSweep, Abort, dbVars
<1>3. ASSUME NEW r \in Requests,
             \/ \E l \in Legs : AddMonitor(r, l)
             \/ OpenReservation(r)
             \/ CloseReservation(r)
      PROVE  UNCHANGED <<status, log>>
  BY <1>3 DEF AddMonitor, OpenReservation, CloseReservation
<1>4. CASE UNCHANGED vars
  BY <1>4 DEF vars, dbVars
<1> QED
  BY <1>1, <1>2, <1>3, <1>4 DEF Next

\* transition() moves the request it has locked and keeps the others.
LEMMA CommitMoves ==
  ASSUME TypeOK, LocksAreSound, NEW p \in Callers, CommitTransition(p)
  PROVE  /\ row[p] \in Requests
         /\ IsMoved(row[p], target[p])
         /\ \A r \in Requests \ {row[p]} : IsKept(r)
<1>1. /\ row[p] \in Requests /\ lock[row[p]] = p /\ p # NoCaller
      /\ seen[p][row[p]] = status[row[p]]
  BY SentinelAssumption DEF CommitTransition, LocksAreSound
<1>2. IsTransition(seen[p][row[p]], target[p])
  BY DEF CommitTransition, TransitionAllowed
<1> QED
  BY <1>1, <1>2 DEF CommitTransition, IsMoved, IsKept, TypeOK

\* cancelLowerPriorities moves the rows it sweeps to CANCELLED, along the table.
LEMMA SweepMoves ==
  ASSUME TypeOK, LocksAreSound, NEW p \in Callers, SweepCommit(p), NEW r \in Requests
  PROVE  /\ IsSwept(p, r) => /\ IsMoved(r, "CANCELLED")
                             /\ status[r] \in Seeking \cup {"AVAILABLE"}
         /\ ~IsSwept(p, r) => IsKept(r)
<1>1. CASE IsSwept(p, r)
  <2>1. lock[r] = p /\ p # NoCaller /\ seen[p][r] \in Sweepable
    BY <1>1, SentinelAssumption DEF IsSwept
  <2>2. seen[p][r] = status[r]
    BY <2>1 DEF LocksAreSound
  <2>3. IsTransition(status[r], "CANCELLED") /\ status[r] \in Seeking \cup {"AVAILABLE"}
    BY <2>1, <2>2, SweepableIsLegal
  <2> QED
    BY <1>1, <2>2, <2>3 DEF SweepCommit, IsMoved
<1>2. CASE ~IsSwept(p, r)
  BY <1>2 DEF SweepCommit, IsKept
<1> QED
  BY <1>1, <1>2

\* Whatever the step, a request is kept, created, or moved along the table.
LEMMA RequestStep ==
  ASSUME TypeOK, LocksAreSound, [Next]_vars, NEW r \in Requests
  PROVE  IsKept(r) \/ IsCreated(r) \/ \E to : IsMoved(r, to)
<1>1. CASE UNCHANGED <<status, log>>
  BY <1>1 DEF IsKept
<1>2. ASSUME NEW p \in Callers, Insert(p)
      PROVE  IsKept(r) \/ IsCreated(r)
  BY <1>2 DEF Insert, UnusedIds, IsKept, IsCreated, TypeOK
<1>3. ASSUME NEW p \in Callers, CommitTransition(p)
      PROVE  IsKept(r) \/ \E to : IsMoved(r, to)
  BY <1>3, CommitMoves
<1>4. ASSUME NEW p \in Callers, SweepCommit(p)
      PROVE  IsKept(r) \/ \E to : IsMoved(r, to)
  BY <1>4, SweepMoves
<1> QED
  BY <1>1, <1>2, <1>3, <1>4, OnlyThreeWriters

-----------------------------------------------------------------------------
(* The history of a request.                                               *)

HistoryOK(r) ==
  /\ status[r] = NoRow => log[r] = <<>>
  /\ status[r] # NoRow => status[r] = LastTo(r)
  /\ \A i \in 1..Len(log[r]) :
       /\ IsTransition(log[r][i].from, log[r][i].to)
       /\ log[r][i].from = IF i = 1 THEN "CREATED" ELSE log[r][i - 1].to

\* A move appends one row that starts where the history ended.
LEMMA MovedHistory ==
  ASSUME TypeOK, TypeOK', NEW r \in Requests, NEW to, HistoryOK(r), IsMoved(r, to)
  PROVE  HistoryOK(r)'
<1> DEFINE h == log[r]
           n == Len(log[r])
<1>1. h \in Seq(Row) /\ n \in Nat /\ (h = <<>> <=> n = 0)
  BY DEF TypeOK
<1>2. status[r] # NoRow /\ to # NoRow /\ status[r] = LastTo(r)
  BY TransitionEnds DEF IsMoved, HistoryOK
<1>3. /\ Len(log'[r]) = n + 1
      /\ \A i \in 1..n : log'[r][i] = h[i]
      /\ log'[r][n + 1] = [from |-> status[r], to |-> to]
  BY <1>1, TransitionEnds DEF IsMoved
<1>4. status'[r] = LastTo(r)'
  <2>1. log'[r] # <<>>
    BY <1>1, <1>3
  <2>2. log'[r][Len(log'[r])].to = to
    BY <1>3
  <2> QED
    BY <2>1, <2>2 DEF LastTo, IsMoved
<1>5. ASSUME NEW i \in 1..Len(log'[r])
      PROVE  /\ IsTransition(log'[r][i].from, log'[r][i].to)
             /\ log'[r][i].from = IF i = 1 THEN "CREATED" ELSE log'[r][i - 1].to
  <2>1. CASE i \in 1..n
    <3>1. log'[r][i] = h[i] /\ (i # 1 => log'[r][i - 1] = h[i - 1])
      BY <1>1, <1>3, <2>1
    <3> QED
      BY <2>1, <3>1 DEF HistoryOK
  <2>2. CASE i = n + 1
    <3>1. log'[r][i].from = status[r] /\ log'[r][i].to = to
      BY <1>3, <2>2
    <3>2. i # 1 => log'[r][i - 1] = h[n]
      BY <1>1, <1>3, <2>2
    <3>3. status[r] = IF i = 1 THEN "CREATED" ELSE h[n].to
      BY <1>1, <1>2, <2>2 DEF LastTo
    <3> QED
      BY <3>1, <3>2, <3>3 DEF IsMoved
  <2> QED
    BY <1>1, <1>3, <2>1, <2>2
<1> QED
  BY <1>2, <1>4, <1>5 DEF HistoryOK, IsMoved

\* Initially no request has a history.
LEMMA HistoryInit == Init => HistoryIsPath
  BY DEF Init, HistoryIsPath

\* Every step leaves each history a path that ends in the status.
LEMMA HistoryStep ==
  TypeOK /\ TypeOK' /\ LocksAreSound /\ HistoryIsPath /\ [Next]_vars => HistoryIsPath'
<1> SUFFICES ASSUME TypeOK, TypeOK', LocksAreSound, HistoryIsPath, [Next]_vars,
                    NEW r \in Requests
             PROVE  HistoryOK(r)'
  BY DEF HistoryIsPath, HistoryOK
<1>1. HistoryOK(r)
  BY DEF HistoryIsPath, HistoryOK
<1>2. CASE IsKept(r)
  BY <1>1, <1>2 DEF IsKept, HistoryOK, LastTo
<1>3. CASE IsCreated(r)
  BY <1>1, <1>3 DEF IsCreated, HistoryOK, LastTo, NoRow
<1>4. ASSUME NEW to, IsMoved(r, to) PROVE HistoryOK(r)'
  BY <1>1, <1>4, MovedHistory
<1> QED
  BY <1>2, <1>3, <1>4, RequestStep

\* The recorded history of every request is a path of the transition table that
\* ends in its status.
THEOREM HistoryTheorem == Spec => []HistoryIsPath
<1> QED
  BY TypeInit, TypeStep, LocksInit, LocksStep, HistoryInit, HistoryStep, PTL DEF Spec

-----------------------------------------------------------------------------
(* Nothing is submitted without an offer.                                  *)

\* A request that is AVAILABLE has it as the last row of its history.
LEMMA AvailableInHistory ==
  ASSUME TypeOK, HistoryIsPath, NEW r \in Requests, status[r] = "AVAILABLE"
  PROVE  WasAvailable(r)
<1>1. log[r] # <<>> /\ log[r][Len(log[r])].to = "AVAILABLE"
  BY DEF HistoryIsPath, LastTo, NoRow
<1>2. Len(log[r]) \in 1..Len(log[r])
  BY <1>1 DEF TypeOK
<1> QED
  BY <1>1, <1>2 DEF WasAvailable

\* A history only grows.
LEMMA WasAvailableStays ==
  ASSUME TypeOK, NEW r \in Requests, WasAvailable(r),
         IsKept(r) \/ \E to : IsMoved(r, to)
  PROVE  WasAvailable(r)'
<1>1. CASE IsKept(r)
  BY <1>1 DEF IsKept, WasAvailable
<1>2. ASSUME NEW to, IsMoved(r, to) PROVE WasAvailable(r)'
  <2>1. PICK i \in 1..Len(log[r]) : log[r][i].to = "AVAILABLE"
    BY DEF WasAvailable
  <2>2. log[r] \in Seq(Row) /\ [from |-> status[r], to |-> to] \in Row
    BY <1>2, TransitionEnds DEF TypeOK, IsMoved, Row, BookingState
  <2>3. i \in 1..Len(log'[r]) /\ log'[r][i] = log[r][i]
    BY <1>2, <2>2 DEF IsMoved
  <2> QED
    BY <2>1, <2>3 DEF WasAvailable
<1> QED
  BY <1>1, <1>2

\* Initially nothing is submitted.
LEMMA SubmissionInit == Init => SubmissionFollowsOffer
  BY DEF Init, SubmissionFollowsOffer, Committed, NoRow

\* No step submits a request that was never AVAILABLE.
LEMMA SubmissionStep ==
  TypeOK /\ LocksAreSound /\ HistoryIsPath /\ SubmissionFollowsOffer /\ [Next]_vars
    => SubmissionFollowsOffer'
<1> SUFFICES ASSUME TypeOK, LocksAreSound, HistoryIsPath, SubmissionFollowsOffer, [Next]_vars,
                    NEW r \in Requests, status'[r] \in Committed \cup {"BOOKED"}
             PROVE  WasAvailable(r)'
  BY DEF SubmissionFollowsOffer
<1>1. CASE IsKept(r)
  BY <1>1, WasAvailableStays DEF IsKept, SubmissionFollowsOffer
<1>2. CASE IsCreated(r)
  BY <1>2 DEF IsCreated, Committed
<1>3. ASSUME NEW to, IsMoved(r, to) PROVE WasAvailable(r)'
  <2>1. status[r] \in Committed \cup {"AVAILABLE"}
    BY <1>3, TransitionPhases DEF IsMoved
  <2>2. WasAvailable(r)
    BY <2>1, AvailableInHistory DEF SubmissionFollowsOffer
  <2> QED
    BY <1>3, <2>2, WasAvailableStays
<1> QED
  BY <1>1, <1>2, <1>3, RequestStep

\* A request in a submission state, or booked, was AVAILABLE before.
THEOREM SubmissionTheorem == Spec => []SubmissionFollowsOffer
<1> QED
  BY TypeInit, TypeStep, LocksInit, LocksStep, HistoryInit, HistoryStep,
     SubmissionInit, SubmissionStep, PTL DEF Spec

-----------------------------------------------------------------------------
(* A terminal request is never touched again.                              *)

\* No step writes a request whose status is terminal.
LEMMA TerminalStep ==
  ASSUME TypeOK, LocksAreSound, [Next]_vars, NEW r \in Requests, status[r] \in Terminal
  PROVE  /\ status'[r] = status[r] /\ completed'[r] = completed[r]
         /\ cancelReason'[r] = cancelReason[r] /\ log'[r] = log[r]
<1>1. \A to : ~IsMoved(r, to)
  BY TransitionEnds DEF IsMoved
<1>2. ~IsCreated(r)
  BY DEF IsCreated, NoRow, Terminal
<1>3. IsKept(r)
  BY <1>1, <1>2, RequestStep
<1>4. completed'[r] = completed[r] /\ cancelReason'[r] = cancelReason[r]
  <2>1. ASSUME NEW p \in Callers, CallStep(p)
        PROVE  completed'[r] = completed[r] /\ cancelReason'[r] = cancelReason[r]
    <3>1. CASE CommitTransition(p)
      <4>1. r # row[p]
        BY <3>1, <1>1, CommitMoves
      <4> QED
        BY <3>1, <4>1 DEF CommitTransition, TypeOK
    <3>2. CASE SweepCommit(p)
      <4>1. ~IsSwept(p, r)
        BY <3>2, <1>1, SweepMoves
      <4> QED
        BY <3>2, <4>1 DEF SweepCommit
    <3> QED
      BY <2>1, <3>1, <3>2 DEF CallStep, Insert, InsertConflict, Announce, RejectTransition,
                              SweepLock, DeadlockVictim, dbVars
  <2>2. ASSUME NEW p \in Callers,
               \/ \E k \in Keys \cup {NoKey} : Lookup(p, k)
               \/ \E s \in Requests, to \in Targets : BeginTransition(p, s, to)
               \/ \E w \in Requests : BeginSweep(p, w)
               \/ Abort(p)
        PROVE  UNCHANGED <<completed, cancelReason>>
    BY <2>2 DEF Lookup, BeginTransition, BeginSweep, Abort, dbVars
  <2>3. ASSUME NEW s \in Requests,
               \/ \E l \in Legs : AddMonitor(s, l)
               \/ OpenReservation(s)
               \/ CloseReservation(s)
        PROVE  UNCHANGED <<completed, cancelReason>>
    BY <2>3 DEF AddMonitor, OpenReservation, CloseReservation
  <2>4. CASE UNCHANGED vars
    BY <2>4 DEF vars, dbVars
  <2> QED
    BY <2>1, <2>2, <2>3, <2>4 DEF Next
<1> QED
  BY <1>3, <1>4 DEF IsKept

\* No step changes the status, the stamps or the history of a terminal request.
THEOREM TerminalTheorem == Spec => TerminalIsFinal
<1>1. TypeOK /\ LocksAreSound /\ [Next]_vars
        => [ \A r \in Requests : status[r] \in Terminal =>
               /\ status'[r] = status[r]
               /\ completed'[r] = completed[r]
               /\ cancelReason'[r] = cancelReason[r]
               /\ log'[r] = log[r] ]_vars
  BY TerminalStep
<1> QED
  BY <1>1, TypeInit, TypeStep, LocksInit, LocksStep, PTL DEF Spec, TerminalIsFinal

-----------------------------------------------------------------------------
(* Cancellations.                                                          *)

IsStamped(r, to) ==
  /\ IsMoved(r, to)
  /\ \E given \in {"blank", "caller"} :
       cancelReason'[r] = StampedReason(to, given, cancelReason[r])

IsAutoCancelled(r) ==
  /\ IsMoved(r, "CANCELLED") /\ cancelReason'[r] = "auto"
  /\ status[r] \in Seeking \cup {"AVAILABLE"}
  /\ \E p \in Callers : SweepCommit(p) /\ IsSwept(p, r)

\* How a step changes a request and its cancellation stamps together.
LEMMA StampStep ==
  ASSUME TypeOK, LocksAreSound, [Next]_vars, NEW r \in Requests
  PROVE  \/ (IsKept(r) \/ IsCreated(r)) /\ cancelReason'[r] = cancelReason[r]
         \/ \E to : IsStamped(r, to)
         \/ IsAutoCancelled(r)
<1>1. ASSUME NEW p \in Callers, CommitTransition(p)
      PROVE  \/ IsKept(r) /\ cancelReason'[r] = cancelReason[r]
             \/ \E to : IsStamped(r, to)
  <2>1. CASE r = row[p]
    <3>1. PICK given \in {"blank", "caller"} :
            cancelReason' = [cancelReason EXCEPT ![r] =
                               StampedReason(target[p], given, cancelReason[r])]
      BY <1>1, <2>1 DEF CommitTransition
    <3>2. cancelReason'[r] = StampedReason(target[p], given, cancelReason[r])
      BY <3>1 DEF TypeOK
    <3> QED
      BY <1>1, <2>1, <3>2, CommitMoves DEF IsStamped
  <2>2. CASE r # row[p]
    BY <1>1, <2>2, CommitMoves DEF CommitTransition, TypeOK
  <2> QED
    BY <2>1, <2>2
<1>2. ASSUME NEW p \in Callers, SweepCommit(p)
      PROVE  \/ IsKept(r) /\ cancelReason'[r] = cancelReason[r]
             \/ IsAutoCancelled(r)
  <2>1. CASE IsSwept(p, r)
    <3>1. cancelReason'[r] = "auto"
      BY <1>2, <2>1 DEF SweepCommit
    <3> QED
      BY <1>2, <2>1, <3>1, SweepMoves DEF IsAutoCancelled
  <2>2. CASE ~IsSwept(p, r)
    BY <1>2, <2>2, SweepMoves DEF SweepCommit
  <2> QED
    BY <2>1, <2>2
<1>3. ASSUME ~ \E p \in Callers : CommitTransition(p) \/ SweepCommit(p)
      PROVE  /\ IsKept(r) \/ IsCreated(r)
             /\ cancelReason'[r] = cancelReason[r]
  <2>1. UNCHANGED cancelReason
    BY <1>3 DEF Next, CallStep, Lookup, BeginTransition, BeginSweep, Abort, AddMonitor,
                OpenReservation, CloseReservation, Insert, InsertConflict, Announce,
                RejectTransition, SweepLock, DeadlockVictim, vars, dbVars
  <2>2. UNCHANGED <<status, log>> \/ \E p \in Callers : Insert(p)
    BY <1>3, OnlyThreeWriters
  <2>3. IsKept(r) \/ IsCreated(r)
    BY <2>2 DEF Insert, UnusedIds, IsKept, IsCreated, TypeOK
  <2> QED
    BY <2>1, <2>3
<1> QED
  BY <1>1, <1>2, <1>3

\* The stamps of a cancellation stay where they belong.
LEMMA StampsStep ==
  TypeOK /\ LocksAreSound /\ CancelledIsStamped /\ [Next]_vars => CancelledIsStamped'
<1> SUFFICES ASSUME TypeOK, LocksAreSound, CancelledIsStamped, [Next]_vars,
                    NEW r \in Requests
             PROVE  status'[r] = "CANCELLED" <=> cancelReason'[r] # "none"
  BY DEF CancelledIsStamped
<1>1. status[r] = "CANCELLED" <=> cancelReason[r] # "none"
  BY DEF CancelledIsStamped
<1>2. CASE (IsKept(r) \/ IsCreated(r)) /\ cancelReason'[r] = cancelReason[r]
  BY <1>1, <1>2 DEF IsKept, IsCreated, NoRow
<1>3. ASSUME NEW to, IsStamped(r, to)
      PROVE  status'[r] = "CANCELLED" <=> cancelReason'[r] # "none"
  <2>1. status'[r] = to /\ status[r] # "CANCELLED"
    BY <1>3, TransitionEnds DEF IsStamped, IsMoved, Terminal
  <2> QED
    BY <1>1, <1>3, <2>1 DEF IsStamped, StampedReason
<1>4. CASE IsAutoCancelled(r)
  BY <1>4 DEF IsAutoCancelled, IsMoved
<1> QED
  BY <1>2, <1>3, <1>4, StampStep

\* A request carries a cancellation reason exactly when it is CANCELLED, whichever
\* of the two code paths cancelled it.
THEOREM StampTheorem == Spec => []CancelledIsStamped
<1>1. Init => CancelledIsStamped
  BY DEF Init, CancelledIsStamped, NoRow
<1> QED
  BY <1>1, TypeInit, TypeStep, LocksInit, LocksStep, StampsStep, PTL DEF Spec

\* An auto-cancel leaves no monitor of its requests ACTIVE.
THEOREM MonitorTheorem == Spec => AutoCancelStopsMonitors
<1>1. TypeOK /\ LocksAreSound /\ [Next]_vars
        => [ \A r \in Requests :
               cancelReason'[r] = "auto" /\ cancelReason[r] # "auto" =>
                 \A l \in Legs : monitors'[r][l] # "ACTIVE" ]_vars
  <2> SUFFICES ASSUME TypeOK, LocksAreSound, [Next]_vars, NEW r \in Requests, NEW l \in Legs,
                      cancelReason'[r] = "auto", cancelReason[r] # "auto"
               PROVE  monitors'[r][l] # "ACTIVE"
    OBVIOUS
  <2>1. IsAutoCancelled(r)
    BY StampStep DEF IsStamped, StampedReason
  <2>2. PICK p \in Callers : SweepCommit(p) /\ IsSwept(p, r)
    BY <2>1 DEF IsAutoCancelled
  <2>3. monitors'[r] = [m \in Legs |-> SweptMonitor(monitors[r][m])]
    BY <2>2 DEF SweepCommit
  <2> QED
    BY <2>3 DEF SweptMonitor
<1> QED
  BY <1>1, TypeInit, TypeStep, LocksInit, LocksStep, PTL DEF Spec, AutoCancelStopsMonitors

\* w is a request that wins against r.
Beats(w, r) == status[w] # NoRow /\ Journey[w] = Journey[r] /\ Priority[w] < Priority[r]

\* A scan holds, is at, and has yet to reach only rows that its winner beats.
ScansLosers ==
  \A p \in Callers : pc[p] = "sweeping" =>
    \E w \in Requests : \A r \in Requests :
      r = row[p] \/ r \in todo[p] \/ lock[r] = p => Beats(w, r)

\* Rows are never deleted.
LEMMA RowsStay ==
  ASSUME TypeOK, LocksAreSound, [Next]_vars, NEW w \in Requests, NEW r, Beats(w, r)
  PROVE  Beats(w, r)'
<1>1. status'[w] # NoRow
  BY RequestStep, TransitionEnds DEF IsKept, IsCreated, IsMoved, Beats, NoRow
<1> QED
  BY <1>1 DEF Beats

\* A call that is not sweeping holds no more rows afterwards, and one that keeps
\* sweeping holds what it held.
LEMMA ScanKept ==
  ASSUME TypeOK, LocksAreSound, ScansLosers, [Next]_vars, NEW q \in Callers,
         pc[q] = "sweeping", row'[q] = row[q], todo'[q] = todo[q],
         \A r \in Requests : lock'[r] = q => lock[r] = q
  PROVE  \E w \in Requests : \A r \in Requests :
           r = row'[q] \/ r \in todo'[q] \/ lock'[r] = q => Beats(w, r)'
<1>1. PICK w \in Requests : \A r \in Requests :
        r = row[q] \/ r \in todo[q] \/ lock[r] = q => Beats(w, r)
  BY DEF ScansLosers
<1> QED
  BY <1>1, RowsStay

\* A sweeping call has just begun, has locked a row, or was left alone.
LEMMA SweepingStep ==
  ASSUME TypeOK, [Next]_vars, NEW q \in Callers, pc'[q] = "sweeping"
  PROVE  \/ \E w \in Requests : BeginSweep(q, w)
         \/ SweepLock(q)
         \/ /\ pc[q] = "sweeping" /\ row'[q] = row[q] /\ todo'[q] = todo[q]
            /\ \A r \in Requests : lock'[r] = q => lock[r] = q
<1> DEFINE Alone == /\ pc[q] = "sweeping" /\ row'[q] = row[q] /\ todo'[q] = todo[q]
                    /\ \A r \in Requests : lock'[r] = q => lock[r] = q
<1>1. ASSUME NEW p \in Callers, Return(p) PROVE Alone
  BY <1>1, SentinelAssumption DEF Return, TypeOK
<1>2. ASSUME NEW p \in Callers, NEW k \in Keys \cup {NoKey}, Lookup(p, k) PROVE Alone
  BY <1>2 DEF Lookup, TypeOK
<1>3. ASSUME NEW p \in Callers, NEW r \in Requests, NEW to \in Targets,
             BeginTransition(p, r, to)
      PROVE  Alone
  BY <1>3 DEF BeginTransition, TypeOK
<1>4. ASSUME NEW p \in Callers, NEW w \in Requests, BeginSweep(p, w)
      PROVE  Alone \/ \E v \in Requests : BeginSweep(q, v)
  BY <1>4 DEF BeginSweep, ScanNext, TypeOK
<1>5. ASSUME NEW p \in Callers, CallStep(p) PROVE Alone \/ SweepLock(q)
  <2>1. CASE Insert(p)
    BY <2>1 DEF Insert, TypeOK
  <2>2. CASE SweepLock(p)
    BY <2>2 DEF SweepLock, ScanNext, TypeOK
  <2> QED
    BY <1>1, <1>5, <2>1, <2>2 DEF CallStep, InsertConflict, Announce, CommitTransition,
       RejectTransition, SweepCommit, DeadlockVictim
<1>6. ASSUME NEW p \in Callers, Abort(p) PROVE Alone
  BY <1>1, <1>6 DEF Abort
<1>7. ASSUME NEW r \in Requests,
             \/ \E l \in Legs : AddMonitor(r, l)
             \/ OpenReservation(r)
             \/ CloseReservation(r)
      PROVE  Alone
  BY <1>7 DEF AddMonitor, OpenReservation, CloseReservation, callVars
<1>8. CASE UNCHANGED vars
  BY <1>8 DEF vars, callVars
<1> QED
  BY <1>2, <1>3, <1>4, <1>5, <1>6, <1>7, <1>8 DEF Next

\* Every step leaves scans with rows their winner beats.
LEMMA ScansStep == TypeOK /\ LocksAreSound /\ ScansLosers /\ [Next]_vars => ScansLosers'
<1> SUFFICES ASSUME TypeOK, LocksAreSound, ScansLosers, [Next]_vars,
                    NEW q \in Callers, pc'[q] = "sweeping"
             PROVE  \E w \in Requests : \A r \in Requests :
                      r = row'[q] \/ r \in todo'[q] \/ lock'[r] = q => Beats(w, r)'
  BY DEF ScansLosers
<1>1. ASSUME NEW w \in Requests, BeginSweep(q, w)
      PROVE  \A r \in Requests :
               r = row'[q] \/ r \in todo'[q] \/ lock'[r] = q => Beats(w, r)'
  <2>1. \A r \in Requests : lock'[r] # q
    BY <1>1, SentinelAssumption DEF BeginSweep, LocksAreSound
  <2>2. row'[q] \in Candidates(w) \cup {NoRequest} /\ todo'[q] \subseteq Candidates(w)
    BY <1>1 DEF BeginSweep, ScanNext, TypeOK
  <2>3. \A r \in Candidates(w) : Beats(w, r)
    BY <1>1, PriorityAssumption DEF BeginSweep, Candidates, IsLowerPriority, Beats
  <2> QED
    BY <2>1, <2>2, <2>3, RowsStay, SentinelAssumption
<1>2. ASSUME SweepLock(q)
      PROVE  \E w \in Requests : \A r \in Requests :
               r = row'[q] \/ r \in todo'[q] \/ lock'[r] = q => Beats(w, r)'
  <2>1. PICK w \in Requests : \A r \in Requests :
          r = row[q] \/ r \in todo[q] \/ lock[r] = q => Beats(w, r)
    BY <1>2 DEF ScansLosers, SweepLock
  <2>2. row'[q] \in todo[q] \cup {NoRequest} /\ todo'[q] \subseteq todo[q]
    BY <1>2 DEF SweepLock, ScanNext, TypeOK
  <2>3. \A r \in Requests : lock'[r] = q => r = row[q] \/ lock[r] = q
    BY <1>2 DEF SweepLock, TypeOK
  <2> QED
    BY <2>1, <2>2, <2>3, RowsStay, SentinelAssumption
<1> QED
  BY <1>1, <1>2, ScanKept, SweepingStep

\* What the auto-cancel cancelled stays as it was when it was cancelled.
LEMMA SparesStep ==
  TypeOK /\ TypeOK' /\ LocksAreSound /\ CancelledIsStamped /\ ScansLosers
    /\ AutoCancelSparesSubmitted /\ [Next]_vars => AutoCancelSparesSubmitted'
<1> SUFFICES ASSUME TypeOK, TypeOK', LocksAreSound, CancelledIsStamped, ScansLosers,
                    AutoCancelSparesSubmitted, [Next]_vars,
                    NEW r \in Requests, cancelReason'[r] = "auto"
             PROVE  /\ log'[r] # <<>> => log'[r][Len(log'[r])].from \notin Committed \cup Terminal
                    /\ \E w \in Requests : Beats(w, r)'
  BY DEF AutoCancelSparesSubmitted, Beats
<1>1. CASE cancelReason[r] = "auto"
  <2>1. status[r] \in Terminal
    BY <1>1 DEF CancelledIsStamped, Terminal
  <2>2. log'[r] = log[r]
    BY <2>1, TerminalStep
  <2>3. PICK w \in Requests : Beats(w, r)
    BY <1>1 DEF AutoCancelSparesSubmitted, Beats
  <2> QED
    BY <1>1, <2>2, <2>3, RowsStay DEF AutoCancelSparesSubmitted
<1>2. CASE cancelReason[r] # "auto"
  <2>1. IsAutoCancelled(r)
    BY <1>2, StampStep DEF IsStamped, StampedReason
  <2>2. PICK p \in Callers : SweepCommit(p) /\ IsSwept(p, r)
    BY <2>1 DEF IsAutoCancelled
  <2>3. PICK w \in Requests : Beats(w, r)
    BY <2>2 DEF ScansLosers, SweepCommit, IsSwept
  <2>4. status[r] \in Seeking \cup {"AVAILABLE"} /\ status[r] \notin Committed \cup Terminal
    BY <2>1 DEF IsAutoCancelled, Seeking, Committed, Terminal
  <2>5. log'[r][Len(log'[r])].from = status[r]
    <3>1. log[r] \in Seq(Row)
      BY DEF TypeOK
    <3>2. log'[r] = Append(log[r], [from |-> status[r], to |-> "CANCELLED"])
      BY <2>1 DEF IsAutoCancelled, IsMoved
    <3>3. [from |-> status[r], to |-> "CANCELLED"] \in Row
      BY <2>4 DEF Row, BookingState, Active, Terminal
    <3> QED
      BY <3>1, <3>2, <3>3
  <2> QED
    BY <2>3, <2>4, <2>5, RowsStay
<1> QED
  BY <1>1, <1>2

\* The auto-cancel cancels only requests that lose against another one and were
\* not submitted when it cancelled them.
THEOREM SparesTheorem == Spec => []AutoCancelSparesSubmitted
<1>1. Init => CancelledIsStamped /\ ScansLosers /\ AutoCancelSparesSubmitted
  BY DEF Init, CancelledIsStamped, ScansLosers, AutoCancelSparesSubmitted, NoRow
<1> QED
  BY <1>1, TypeInit, TypeStep, LocksInit, LocksStep, StampsStep, ScansStep, SparesStep,
     PTL DEF Spec

-----------------------------------------------------------------------------
(* Unique indexes.                                                         *)

\* However lookups and INSERTs of concurrent calls interleave, a key names one
\* request.
THEOREM KeyTheorem == Spec => []OneRequestPerKey
<1>1. Init => OneRequestPerKey
  BY DEF Init, OneRequestPerKey
<1>2. TypeOK /\ OneRequestPerKey /\ [Next]_vars => OneRequestPerKey'
  <2> SUFFICES ASSUME TypeOK, OneRequestPerKey, [Next]_vars PROVE OneRequestPerKey'
    OBVIOUS
  <2>1. ASSUME NEW p \in Callers, Insert(p) PROVE OneRequestPerKey'
    <3>1. PICK n \in UnusedIds : idempotencyKey' = [idempotencyKey EXCEPT ![n] = key[p]]
      BY <2>1 DEF Insert
    <3>2. key[p] = NoKey \/ \A r \in Requests : idempotencyKey[r] # key[p]
      BY <2>1 DEF Insert, KeyIsFree
    <3> QED
      BY <3>1, <3>2 DEF OneRequestPerKey, UnusedIds, TypeOK
  <2>2. ASSUME ~ \E p \in Callers : Insert(p) PROVE UNCHANGED idempotencyKey
    BY <2>2 DEF Next, CallStep, Lookup, BeginTransition, BeginSweep, Abort, AddMonitor,
                OpenReservation, CloseReservation, InsertConflict, Announce,
                CommitTransition, RejectTransition, SweepLock, SweepCommit,
                DeadlockVictim, vars, dbVars
  <2> QED
    BY <2>1, <2>2 DEF OneRequestPerKey
<1> QED
  BY <1>1, <1>2, TypeInit, TypeStep, PTL DEF Spec

-----------------------------------------------------------------------------
(* The service implements BookingLifecycle.                                *)

\* The phase of each state.
LEMMA PhaseOf ==
  ASSUME NEW s \in BookingState \cup {NoRow}
  PROVE  /\ Phase(s) = "none" <=> s = NoRow
         /\ Phase(s) = "seeking" <=> s \in Seeking
         /\ Phase(s) = "offered" <=> s = "AVAILABLE"
         /\ Phase(s) = "committed" <=> s \in Committed
         /\ Phase(s) = "booked" <=> s = "BOOKED"
         /\ Phase(s) = "expired" <=> s = "EXPIRED"
         /\ Phase(s) = "closed" <=> s \in {"FAILED", "CANCELLED"}
  BY DEF Phase, BookingState, Active, Seeking, Committed, Terminal, NoRow

\* One request moving along the table, alone, is one step of the lifecycle.
LEMMA MoveIsLifecycleStep ==
  ASSUME TypeOK, TypeOK', NEW r \in Requests, NEW to, IsMoved(r, to),
         \A s \in Requests \ {r} : IsKept(s)
  PROVE  [Lifecycle!Next]_PhaseMap
<1> DEFINE from == Phase(status[r])
<1>1. status[r] \in BookingState /\ to \in BookingState /\ status'[r] = to
  BY TransitionEnds DEF IsMoved, BookingState
<1>2. /\ PhaseMap' = [PhaseMap EXCEPT ![r] = Phase(to)]
      /\ PhaseMap[r] = from
  BY <1>1 DEF IsKept, PhaseMap
<1>3. Phase(to) \in {"seeking", "offered", "committed", "booked", "expired", "closed"}
  BY <1>1 DEF Phase, BookingState, Active, Seeking, Committed, Terminal, NoRow
<1>4. /\ Phase(to) = "seeking" => from \in {"seeking", "offered"}
      /\ Phase(to) = "offered" => from \in {"seeking", "committed"}
      /\ Phase(to) = "committed" => from \in {"offered", "committed"}
      /\ Phase(to) = "booked" => from = "committed"
      /\ Phase(to) = "expired" => from \in {"seeking", "offered"}
      /\ Phase(to) = "closed" => from \in {"seeking", "offered", "committed"}
  <2>1. status[r] \in Active /\ IsTransition(status[r], to)
    BY TransitionEnds DEF IsMoved
  <2>2. from \in {"seeking", "offered", "committed"}
    BY <1>1, <2>1, PhaseOf DEF Active
  <2> QED
    BY <1>1, <2>1, <2>2, PhaseOf, TransitionPhases
<1>5. CASE Phase(to) = from
  BY <1>2, <1>5 DEF PhaseMap
<1>6. CASE Phase(to) # from
  <2>1. \/ Lifecycle!Offer(r) \/ Lifecycle!TurnDown(r) \/ Lifecycle!Commit(r)
        \/ Lifecycle!Book(r) \/ Lifecycle!Expire(r) \/ Lifecycle!Close(r)
    BY <1>2, <1>3, <1>4, <1>6
    DEF Lifecycle!Offer, Lifecycle!TurnDown, Lifecycle!Commit, Lifecycle!Book,
        Lifecycle!Expire, Lifecycle!Close, Lifecycle!Move
  <2> QED
    BY <2>1 DEF Lifecycle!Next
<1> QED
  BY <1>5, <1>6

\* Every step of the service is a step of BookingLifecycle or a stutter.
LEMMA LifecycleStep ==
  TypeOK /\ TypeOK' /\ LocksAreSound /\ [Next]_vars
    => [Lifecycle!Next]_PhaseMap
<1> SUFFICES ASSUME TypeOK, TypeOK', LocksAreSound, [Next]_vars
             PROVE  Lifecycle!Next \/ PhaseMap' = PhaseMap
  OBVIOUS
<1>1. CASE UNCHANGED <<status, log>>
  BY <1>1 DEF PhaseMap
<1>2. ASSUME NEW p \in Callers, Insert(p) PROVE Lifecycle!Next
  <2>1. PICK r \in UnusedIds : status' = [status EXCEPT ![r] = "CREATED"]
    BY <1>2 DEF Insert
  <2>2. PhaseMap[r] = "none" /\ PhaseMap' = [PhaseMap EXCEPT ![r] = "seeking"]
    <3>1. Phase(NoRow) = "none" /\ Phase("CREATED") = "seeking"
      BY PhaseOf DEF BookingState, Active, Seeking
    <3> QED
      BY <2>1, <3>1 DEF UnusedIds, TypeOK, PhaseMap
  <2> QED
    BY <2>1, <2>2 DEF Lifecycle!Next, Lifecycle!Create, Lifecycle!Move, UnusedIds
<1>3. ASSUME NEW p \in Callers, CommitTransition(p)
      PROVE  Lifecycle!Next \/ PhaseMap' = PhaseMap
  BY <1>3, CommitMoves, MoveIsLifecycleStep
<1>4. ASSUME NEW p \in Callers, SweepCommit(p) PROVE Lifecycle!Next
  <2> DEFINE S == {r \in Requests : IsSwept(p, r)}
  <2>1. ASSUME NEW r \in S PROVE PhaseMap[r] \in {"seeking", "offered"} /\ PhaseMap'[r] = "closed"
    <3>1. status'[r] = "CANCELLED" /\ status[r] \in Seeking \cup {"AVAILABLE"}
      BY <1>4, SweepMoves DEF IsMoved
    <3>2. Phase("CANCELLED") = "closed" /\ Phase(status[r]) \in {"seeking", "offered"}
      BY <3>1, PhaseOf DEF BookingState, Active, Terminal
    <3> QED
      BY <3>1, <3>2 DEF PhaseMap
  <2>2. ASSUME NEW r \in Requests \ S PROVE PhaseMap'[r] = PhaseMap[r]
    BY <1>4, <2>2, SweepMoves DEF IsKept, PhaseMap
  <2>3. Lifecycle!CloseTogether(S)
    BY <2>1, <2>2 DEF Lifecycle!CloseTogether, PhaseMap
  <2> QED
    BY <2>3 DEF Lifecycle!Next
<1> QED
  BY <1>1, <1>2, <1>3, <1>4, OnlyThreeWriters

\* The eighteen-state service with its row locks, crashes and auto-cancels is an
\* implementation of the seven-phase lifecycle.
THEOREM LifecycleTheorem == Spec => ImplementsLifecycle
<1>1. Init => Lifecycle!Init
  BY PhaseOf DEF Init, Lifecycle!Init, PhaseMap
<1> QED
  BY <1>1, TypeInit, TypeStep, LocksInit, LocksStep, LifecycleStep, PTL
  DEF Spec, ImplementsLifecycle, Lifecycle!Spec
=============================================================================

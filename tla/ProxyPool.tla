----------------------------- MODULE ProxyPool ------------------------------
(***************************************************************************)
(* The egress pool at work: worker processes (apps/worker/src/index.ts)    *)
(* that lease a proxy, use it and report its health, the scheduler's       *)
(* maintenance loop (apps/scheduler/src/index.ts) that probes, and the     *)
(* administrator, over the table proxies.  Each process makes one call at  *)
(* a time; a call is cut at each of its awaits on the database, so what it *)
(* read may be stale when it writes:                                       *)
(*   acquire       SELECT and selectProxy | the claiming transaction       *)
(*   recordHealth  SELECT and the decision | UPDATE                        *)
(*   reportEgressHealth   recordHealth | SELECT status                     *)
(*   probeOne      resolveById | the HTTP probe, then recordHealth         *)
(* The claiming transaction is one step: the rows its first UPDATE frees   *)
(* are the worker's own, and stay locked until it commits.                 *)
(*                                                                         *)
(* One clock stands for Date.now() of every process and now() of the       *)
(* database.                                                               *)
(***************************************************************************)
EXTENDS ProxyRules, Sequences

CONSTANTS Proxies,          \* ids of catalogue rows, ordered as the uuids are
          Workers,          \* worker processes; a restart is another one
          TrafficSamples,   \* what provider calls may report
          ProbeSamples,     \* what a probe that reached the proxy may say
          Listed,           \* proxies in the catalogue at the start
          Administered,     \* proxies the administrator acts on
          Reacquires,       \* callers of acquire may hold a lease already
          MaxLease,         \* MAX_LEASE_MS
          MaxPerRun,        \* proxies one maintenance pass probes
          MaxTime,          \* bound on the clock
          MaxRestarts       \* bound on restarts of the scheduler

NoProxy == 0

ASSUME PoolAssumption ==
  /\ Proxies \subseteq Nat \ {NoProxy} /\ IsFiniteSet(Proxies)
  /\ Listed \subseteq Proxies
  /\ Administered \subseteq Proxies
  /\ NoWorker \notin Workers
  /\ TrafficSamples \subseteq {s \in Sample : s.source = "TRAFFIC"}
  /\ ProbeSamples \subseteq {s \in Sample : s.source = "PROBE"}
  /\ Reacquires \in BOOLEAN
  /\ MaxLease \in Nat /\ MaxPerRun \in Nat \ {0}
  /\ MaxTime \in Nat /\ MaxRestarts \in Nat

VARIABLES
  clock,
  row,       \* the table proxies
  listing,   \* whether an id is "new", "listed" in the table or "removed"
  worker,    \* per process: where it is, its lease, what it has read
  prober,    \* the maintenance loop
  restarts,
  rest       \* history: when the last quarantine of p was written, its window

vars == <<clock, row, listing, worker, prober, restarts, rest>>

FreshRow ==
  [enabled |-> TRUE, status |-> "ACTIVE", health |-> 100, failures |-> 0,
   until |-> NoTime, offences |-> 0, budget |-> 100, probeAfter |-> NoTime,
   sampled |-> FALSE, holder |-> NoWorker, heldAt |-> NoTime, rotated |-> NoTime]

Unassigned(r) == [r EXCEPT !.holder = NoWorker, !.heldAt = NoTime]

NoVerdict == [none |-> TRUE]
NoRest    == [at |-> NoTime, until |-> NoTime]
NoPick    == [proxy |-> NoProxy, stamp |-> NoTime]

StartedWorker ==
  [pc |-> "idle", lease |-> NoProxy, at |-> NoTime, pick |-> NoPick,
   verdict |-> NoVerdict]
StoppedWorker == [StartedWorker EXCEPT !.pc = "stopped"]
IdleProber    == [pc |-> "idle", due |-> <<>>, usable |-> FALSE,
                  verdict |-> NoVerdict]

Catalogue == {p \in Proxies : listing[p] = "listed"}

Init ==
  /\ clock = 0
  /\ row = [p \in Proxies |-> FreshRow]
  /\ listing = [p \in Proxies |-> IF p \in Listed THEN "listed" ELSE "new"]
  /\ worker = [w \in Workers |-> StartedWorker]
  /\ prober = IdleProber
  /\ restarts = 0
  /\ rest = [p \in Proxies |-> NoRest]
-----------------------------------------------------------------------------
(* ensureEgress and ProxyPool.acquire *)

\* Reads the table and selects.  ensureEgress calls acquire without a lease
\* only; a caller of the pool's own that asks again (Reacquires) gives up its
\* lease for what it gets.  With no proxy to select the call throws and leaves
\* everything alone.
Select(w) ==
  /\ worker[w].pc = "idle"
  /\ worker[w].lease = NoProxy \/ Reacquires
  /\ \E pick \in SelectProxy(w, Catalogue, row, clock) :
       worker' = [worker EXCEPT ![w] = [StartedWorker EXCEPT
                    !.pc = "claim", !.pick = pick, !.at = clock]]
  /\ UNCHANGED <<clock, row, listing, prober, restarts, rest>>

\* Mutant: the transaction claims without freeing the worker's other row.
FreedNothing(w, p) == row

\* First UPDATE of the transaction: the worker's other assignments.
Freed(w, p) ==
  [q \in Proxies |->
     IF row[q].holder = w /\ q # p THEN Unassigned(row[q]) ELSE row[q]]

\* Mutant: the claim trusts the holder selectProxy ignored.
ClaimableAnyHolder(w, p, at) ==
  /\ p \in Catalogue
  /\ row[p].enabled /\ row[p].status = "ACTIVE" /\ row[p].until <= at
  /\ row[p].health >= MinHealth

\* Mutant: the claim trusts the fitness selectProxy checked on its snapshot.
ClaimableUnchecked(w, p, at) ==
  /\ p \in Catalogue
  /\ row[p].holder \in {NoWorker, w} \/ row[p].heldAt < at - MaxLease

\* WHERE of the second: still fit at the time of the SELECT, and nobody's, or
\* held for longer than any lease.
Claimable(w, p, at) ==
  /\ p \in Catalogue
  /\ row[p].enabled /\ row[p].status = "ACTIVE" /\ row[p].until <= at
  /\ row[p].health >= MinHealth
  /\ \/ row[p].holder \in {NoWorker, w}
     \/ row[p].heldAt < at - MaxLease

ClaimDone(w, lease, at) ==
  worker' = [worker EXCEPT ![w] = [StartedWorker EXCEPT !.lease = lease, !.at = at]]

\* After the COMMIT the INSERT of the LEASE_ACQUIRED event may still fail: the
\* call throws, the worker has no lease and the row stays assigned to it.
Claim(w) ==
  LET p == worker[w].pick.proxy  at == worker[w].at
  IN  /\ worker[w].pc = "claim"
      /\ \/ /\ Claimable(w, p, at)
            /\ row' = [Freed(w, p) EXCEPT
                         ![p] = [@ EXCEPT !.holder = w, !.heldAt = at,
                                          !.rotated = worker[w].pick.stamp]]
            /\ ClaimDone(w, p, at) \/ ClaimDone(w, NoProxy, NoTime)
         \/ /\ ~Claimable(w, p, at)
            /\ row' = Freed(w, p)
            /\ ClaimDone(w, NoProxy, NoTime)
      /\ UNCHANGED <<clock, listing, prober, restarts, rest>>

\* The transaction fails (deadlock, lost connection) and is rolled back.
ClaimFails(w) ==
  /\ worker[w].pc = "claim"
  /\ ClaimDone(w, NoProxy, NoTime)
  /\ UNCHANGED <<clock, row, listing, prober, restarts, rest>>
-----------------------------------------------------------------------------
(* ProxyPool.recordHealth, and reportEgressHealth and close of the worker *)

\* The UPDATE, with the verdict of an earlier read; a removed row matches none.
Record(p, v) ==
  IF p \in Catalogue
  THEN /\ row' = [row EXCEPT ![p] = Apply(@, v)]
       /\ rest' = IF v.frees
                  THEN [rest EXCEPT ![p] = [at |-> clock, until |-> v.until]]
                  ELSE rest
  ELSE UNCHANGED <<row, rest>>

ReportRead(w, s) ==
  LET p == worker[w].lease
  IN  /\ worker[w].pc = "idle" /\ p \in Catalogue
      /\ worker' = [worker EXCEPT ![w].pc = "write",
                                  ![w].verdict = Verdict(row[p], s, clock)]
      /\ UNCHANGED <<clock, row, listing, prober, restarts, rest>>

\* On a removed proxy the INSERT of the sample breaks its foreign key: the
\* call throws, and the worker does not get to look at the status.
ReportWrite(w) ==
  LET p == worker[w].lease
  IN  /\ worker[w].pc = "write"
      /\ Record(p, worker[w].verdict)
      /\ worker' = [worker EXCEPT ![w].verdict = NoVerdict,
                                  ![w].pc = IF p \in Catalogue THEN "check" ELSE "idle"]
      /\ UNCHANGED <<clock, listing, prober, restarts>>

\* The worker drops its handle when the proxy is out of service.
KeepsLease(p) == p \notin Catalogue \/ row[p].status = "ACTIVE"

CheckStatus(w) ==
  LET p == worker[w].lease
  IN  /\ worker[w].pc = "check"
      /\ worker' = [worker EXCEPT ![w] =
                      IF KeepsLease(p) THEN [@ EXCEPT !.pc = "idle"] ELSE StartedWorker]
      /\ UNCHANGED <<clock, row, listing, prober, restarts, rest>>

\* release(), if there is a lease, and the end of the process.
Close(w) ==
  LET p == worker[w].lease
  IN  /\ worker[w].pc = "idle"
      /\ row' = IF p \in Catalogue /\ row[p].holder = w
                THEN [row EXCEPT ![p] = Unassigned(@)] ELSE row
      /\ worker' = [worker EXCEPT ![w] = StoppedWorker]
      /\ UNCHANGED <<clock, listing, prober, restarts, rest>>

\* The process dies anywhere; what it held in the table stays.
Crash(w) ==
  /\ worker[w].pc # "stopped"
  /\ worker' = [worker EXCEPT ![w] = StoppedWorker]
  /\ UNCHANGED <<clock, row, listing, prober, restarts, rest>>
-----------------------------------------------------------------------------
(* runProxyMaintenance and ProxyProber *)

Due == {p \in Catalogue : DueForProbe(row[p], clock)}

\* The orders ORDER BY health_score leaves open.
Orders(S) ==
  {order \in [1 .. Cardinality(S) -> S] :
     \A i, k \in 1 .. Cardinality(S) :
       i < k => order[i] # order[k] /\ row[order[i]].health <= row[order[k]].health}

\* A pass with nothing due changes nothing.
BeginPass ==
  /\ prober.pc = "idle" /\ Due # {}
  /\ \E order \in Orders(Due) :
       prober' = [IdleProber EXCEPT
                    !.pc = "resolve",
                    !.due = SubSeq(order, 1, Lesser(MaxPerRun, Cardinality(Due)))]
  /\ UNCHANGED <<clock, row, listing, worker, restarts, rest>>

\* resolveById throws for a proxy that is gone, disabled or dead.
Resolve ==
  LET p == Head(prober.due)
  IN  /\ prober.pc = "resolve"
      /\ prober' = [prober EXCEPT
                      !.pc = "probe",
                      !.usable = p \in Catalogue /\ row[p].enabled /\ row[p].status # "DEAD"]
      /\ UNCHANGED <<clock, row, listing, worker, restarts, rest>>

NextDue ==
  prober' = [IdleProber EXCEPT !.pc = IF Len(prober.due) = 1 THEN "idle" ELSE "resolve",
                               !.due = Tail(prober.due)]

\* probeOne records an exception of any kind as a network error.
Unreachable == [source |-> "PROBE", ok |-> FALSE, rateLimited |-> FALSE,
                blockPage |-> FALSE, captcha |-> FALSE, authish |-> FALSE]

ProbeRead(s) ==
  LET p == Head(prober.due)
  IN  /\ prober.pc = "probe"
      /\ prober.usable \/ s = Unreachable
      /\ IF p \in Catalogue
         THEN prober' = [prober EXCEPT !.pc = "write",
                                       !.verdict = Verdict(row[p], s, clock)]
         ELSE NextDue
      /\ UNCHANGED <<clock, row, listing, worker, restarts, rest>>

ProbeWrite ==
  /\ prober.pc = "write"
  /\ Record(Head(prober.due), prober.verdict)
  /\ NextDue
  /\ UNCHANGED <<clock, listing, worker, restarts>>

ProberStep ==
  \/ BeginPass \/ Resolve \/ ProbeWrite
  \/ \E s \in ProbeSamples \cup {Unreachable} : ProbeRead(s)

\* The scheduler process is replaced; its pass is lost.
RestartScheduler ==
  /\ restarts < MaxRestarts
  /\ restarts' = restarts + 1
  /\ prober' = IdleProber
  /\ UNCHANGED <<clock, row, listing, worker, rest>>
-----------------------------------------------------------------------------
(* ProxyAdminService *)

Create(p) ==
  /\ listing[p] = "new"
  /\ listing' = [listing EXCEPT ![p] = "listed"]
  /\ UNCHANGED <<clock, row, worker, prober, restarts, rest>>

SetEnabled(p, enabled) ==
  /\ p \in Catalogue
  /\ row' = [row EXCEPT ![p].enabled = enabled]
  /\ UNCHANGED <<clock, listing, worker, prober, restarts, rest>>

Remove(p) ==
  /\ p \in Catalogue
  /\ listing' = [listing EXCEPT ![p] = "removed"]
  /\ row' = [row EXCEPT ![p] = FreshRow]
  /\ rest' = [rest EXCEPT ![p] = NoRest]
  /\ UNCHANGED <<clock, worker, prober, restarts>>

Tick ==
  /\ clock < MaxTime
  /\ clock' = clock + 1
  /\ UNCHANGED <<row, listing, worker, prober, restarts, rest>>
-----------------------------------------------------------------------------
WorkerStep(w) ==
  \/ Select(w) \/ Claim(w) \/ ClaimFails(w)
  \/ \E s \in TrafficSamples : ReportRead(w, s)
  \/ ReportWrite(w) \/ CheckStatus(w) \/ Close(w) \/ Crash(w)

AdminStep(p) ==
  \/ Create(p) \/ Remove(p)
  \/ \E enabled \in BOOLEAN : SetEnabled(p, enabled)

Next ==
  \/ \E w \in Workers : WorkerStep(w)
  \/ ProberStep \/ RestartScheduler
  \/ \E p \in Administered : AdminStep(p)
  \/ Tick

Spec == Init /\ [][Next]_vars

\* The scheduler keeps making passes, and a pass goes on: every await of it is
\* answered or fails.  Nothing is assumed of workers, admin or clock.
FairSpec == Spec /\ WF_vars(ProberStep)
-----------------------------------------------------------------------------
Verdicts ==
  [health : 0 .. 100, failures : 0 .. FailureCap, status : Status, until : Time,
   offences : 0 .. OffenceCap, budget : 12 .. 100, probeAfter : Time,
   frees : BOOLEAN]

Rows ==
  [enabled : BOOLEAN, status : Status, health : 0 .. 100,
   failures : 0 .. FailureCap, until : Time, offences : 0 .. OffenceCap,
   budget : 12 .. 100, probeAfter : Time, sampled : BOOLEAN,
   holder : Workers \cup {NoWorker}, heldAt : Time, rotated : Time]

\* The table respects the CHECK constraints of its columns, and every process
\* is where its code can be.
TypeOK ==
  /\ clock \in 0 .. MaxTime
  /\ row \in [Proxies -> Rows]
  /\ listing \in [Proxies -> {"new", "listed", "removed"}]
  /\ worker \in [Workers ->
       [pc : {"idle", "claim", "write", "check", "stopped"},
        lease : Proxies \cup {NoProxy}, at : Time,
        pick : [proxy : Proxies \cup {NoProxy}, stamp : Time],
        verdict : Verdicts \cup {NoVerdict}]]
  /\ prober \in [pc : {"idle", "resolve", "probe", "write"}, due : Seq(Proxies),
                 usable : BOOLEAN, verdict : Verdicts \cup {NoVerdict}]
  /\ restarts \in 0 .. MaxRestarts
  /\ rest \in [Proxies -> [at : Time, until : Time]]

Users(p) == {w \in Workers : worker[w].lease = p}

\* One worker holds at most one row: the unique index on assigned_worker_id
\* never makes a claim fail, because the claim frees the other rows first.
OneProxyPerWorker ==
  \A p, q \in Proxies :
    row[p].holder = row[q].holder /\ row[p].holder # NoWorker => p = q

\* A worker that uses a proxy is the one the table assigns it to, unless since
\* it was leased the proxy was put to rest or removed, or the lease is older
\* than any lease may be.  No claim, report, probe or admin call in between
\* takes the row from under it.
LeaseIsBacked ==
  \A p \in Catalogue : \A w \in Users(p) :
    \/ row[p].holder = w
    \/ rest[p].at >= worker[w].at
    \/ clock > worker[w].at + MaxLease

\* A proxy that quarantine, death or the admin took out of service between a
\* worker's SELECT and its claim is not handed to it.
HandsOutOnlyUsable ==
  [][\A p \in Proxies :
       row'[p].holder \notin {row[p].holder, NoWorker} =>
         p \in Catalogue /\ row[p].enabled /\ row[p].status = "ACTIVE"]_vars

\* Status and window never contradict each other: a QUARANTINED row has the end
\* of its rest, which brings it back to the prober, and an ACTIVE row carries
\* none.  recordHealth writes both from one read, and reports of workers and
\* probes overwrite each other's rows with what they read earlier.
WindowMatchesStatus ==
  \A p \in Proxies : /\ row[p].status = "ACTIVE" => row[p].until = NoTime
                     /\ row[p].status = "QUARANTINED" => row[p].until # NoTime

\* Once the rest of an enabled proxy is over, the scheduler probes it (or the
\* admin takes it away, or another sample ends or renews the rest).
AwaitsProbe(p) ==
  /\ p \in Catalogue /\ row[p].enabled
  /\ row[p].status = "QUARANTINED" /\ Passed(row[p].until, clock)

IsProbed(p) == prober.pc = "probe" /\ Head(prober.due) = p

ElapsedRestIsProbed ==
  \A p \in Proxies : AwaitsProbe(p) ~> (~AwaitsProbe(p) \/ IsProbed(p))
-----------------------------------------------------------------------------
(* What docs, comments and checks of the repository say, and the code breaks. *)

\* docs/proxy-pool.md: "One proxy serves at most one live worker".
OneLiveUser == \A p \in Catalogue : Cardinality(Users(p)) <= 1

\* docs/proxy-pool.md: "A quarantined proxy is never leased; recovery requires
\* a *successful probe after* the window."  No claim before the window ends.
RestMeansRest ==
  [][\A p \in Proxies :
       row'[p].holder \notin {row[p].holder, NoWorker} => clock >= rest[p].until]_vars
=============================================================================

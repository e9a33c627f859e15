--------------------------- MODULE ProxyPoolProofs --------------------------
(***************************************************************************)
(* Proofs about ProxyPool for any number of proxies and workers, any lease *)
(* and rest windows and a clock of any length.                             *)
(***************************************************************************)
EXTENDS ProxyPool, TLAPS, FiniteSetTheorems

-----------------------------------------------------------------------------
(* The decisions keep the CHECK constraints of the table.                  *)

\* Halving and doubling a budget stay between 12 and 100 percent.
LEMMA BudgetBounds ==
  ASSUME NEW pct \in 12 .. 100
  PROVE  Tightened(pct) \in 12 .. 100 /\ Restored(pct) \in 12 .. 100
  BY DEF Tightened, Restored, Greater, Lesser

\* One sample moves the score inside 0 .. 100.
LEMMA HealthBounds ==
  ASSUME NEW health \in 0 .. 100, NEW s \in Sample
  PROVE  NextHealth(health, s) \in 0 .. 100
<1>1. s.source \in Source /\ s.ok \in BOOLEAN
  BY DEF Sample
<1>2. Gain[s.source] \in Nat /\ Loss[s.source] \in Nat
  BY <1>1, RulesAssumption
<1>3. CASE s.ok
  BY <1>2, <1>3 DEF NextHealth, Lesser
<1>4. CASE ~s.ok
  BY <1>2, <1>4 DEF NextHealth, Greater
<1> QED
  BY <1>1, <1>3, <1>4

\* A rest window is a length of time.
LEMMA RestWindowType ==
  ASSUME NEW base \in Nat, NEW offences \in 0 .. OffenceCap
  PROVE  RestWindow(base, offences) \in Nat
<1>1. Lesser(offences, 4) \in 0 .. 4
  BY DEF Lesser, OffenceCap
<1>2. Backoff[1 + Lesser(offences, 4)] \in Nat
  BY <1>1 DEF Backoff
<1>3. base * Backoff[1 + Lesser(offences, 4)] \in Nat
  BY <1>2
<1> QED
  BY <1>3, RulesAssumption DEF RestWindow, Lesser

\* A decision to rest names a time and a budget inside the bounds.
LEMMA DecideType ==
  ASSUME NEW s \in Sample, NEW failures \in Nat, NEW r \in Rows, NEW now \in Nat
  PROVE  Decide(s, failures, r, now)
           \in [quarantine : BOOLEAN, until : Time, budget : 12 .. 100]
<1>1. r.offences \in 0 .. OffenceCap /\ r.budget \in 12 .. 100
  BY DEF Rows
<1>2. RestBase \in Nat /\ 2 * RestBase \in Nat
  BY RulesAssumption
<1>3. ASSUME NEW base \in Nat
      PROVE  Resting(base, r, now)
               \in [quarantine : BOOLEAN, until : Time, budget : 12 .. 100]
  <2>1. now + RestWindow(base, r.offences) \in Time
    BY <1>1, RestWindowType DEF Time
  <2> QED
    BY <1>1, <2>1, BudgetBounds DEF Resting
<1>4. NoTime \in Time
  BY DEF Time
<1> QED
  BY <1>1, <1>2, <1>3, <1>4 DEF Decide

\* What recordHealth computes from a row of the table fits the table.
LEMMA VerdictType ==
  ASSUME NEW r \in Rows, NEW s \in Sample, NEW now \in Nat
  PROVE  Verdict(r, s, now) \in Verdicts
<1> DEFINE failures == IF s.ok THEN 0 ELSE Lesser(r.failures + 1, FailureCap)
           resting  == r.until > now
           okProbe  == s.ok /\ s.source = "PROBE"
           d        == Decide(s, failures, r, now)
           rests    == d.quarantine /\ ~(resting /\ okProbe)
           dead     == ~resting /\ ShouldMarkDead(failures, s)
<1>1. /\ r.health \in 0 .. 100 /\ r.failures \in 0 .. FailureCap
      /\ r.status \in Status /\ r.until \in Time
      /\ r.offences \in 0 .. OffenceCap /\ r.budget \in 12 .. 100
  BY DEF Rows
<1>2. failures \in 0 .. FailureCap /\ failures \in Nat
  BY <1>1, RulesAssumption DEF Lesser, FailureCap
<1>3. d.quarantine \in BOOLEAN /\ d.until \in Time /\ d.budget \in 12 .. 100
  <2> HIDE DEF failures
  <2> QED
    BY <1>2, DecideType
<1> HIDE DEF failures, d
<1>4. rests \in BOOLEAN
  BY <1>3
<1>5. NextHealth(r.health, s) \in 0 .. 100
  BY <1>1, HealthBounds
<1>6. Restored(r.budget) \in 12 .. 100
  BY <1>1, BudgetBounds
<1>7. Lesser(r.offences + 1, OffenceCap) \in 0 .. OffenceCap
  BY <1>1 DEF Lesser, OffenceCap
<1>8. NextProbeAfter(r, rests, now) \in Time
  BY <1>1, RulesAssumption DEF NextProbeAfter, Time, NoTime
<1>9. NextUntil(r, d.until, rests, okProbe) \in Time
  BY <1>1, <1>3 DEF Time, NextUntil
<1> DEFINE v == Verdict(r, s, now)
<1>10. v = [health     |-> NextHealth(r.health, s),
            failures   |-> failures,
            status     |-> IF dead THEN "DEAD"
                           ELSE IF rests THEN "QUARANTINED"
                           ELSE IF r.status = "QUARANTINED" /\ okProbe THEN "ACTIVE"
                           ELSE r.status,
            until      |-> NextUntil(r, d.until, rests, okProbe),
            offences   |-> IF rests THEN Lesser(r.offences + 1, OffenceCap)
                                    ELSE r.offences,
            budget     |-> IF rests THEN d.budget
                           ELSE IF s.ok THEN Restored(r.budget) ELSE r.budget,
            probeAfter |-> NextProbeAfter(r, rests, now),
            frees      |-> rests]
  BY DEF Verdict, failures, d
<1> HIDE DEF v, rests, dead, okProbe
<1>11. (IF dead THEN "DEAD" ELSE IF rests THEN "QUARANTINED"
        ELSE IF r.status = "QUARANTINED" /\ okProbe THEN "ACTIVE"
        ELSE r.status) \in Status
  BY <1>1 DEF Status
<1> QED
  BY <1>1, <1>2, <1>3, <1>4, <1>5, <1>6, <1>7, <1>8, <1>9, <1>10, <1>11 DEF Verdicts, v

\* Writing a verdict into a row gives a row.
LEMMA ApplyType ==
  ASSUME NEW r \in Rows, NEW v \in Verdicts
  PROVE  Apply(r, v) \in Rows
  BY DEF Apply, Rows, Verdicts, Time

-----------------------------------------------------------------------------
(* Type correctness.                                                       *)

\* A process about to write has a verdict, and a pass under way has a proxy.
InsideCalls ==
  /\ \A w \in Workers : worker[w].pc = "write" => worker[w].verdict \in Verdicts
  /\ prober.pc = "write" => prober.verdict \in Verdicts
  /\ prober.pc # "idle" => prober.due # <<>>

TypeInv == TypeOK /\ InsideCalls

\* The type of a worker, as TypeOK has it.
WorkerStates ==
  [pc : {"idle", "claim", "write", "check", "stopped"},
   lease : Proxies \cup {NoProxy}, at : Time,
   pick : [proxy : Proxies \cup {NoProxy}, stamp : Time],
   verdict : Verdicts \cup {NoVerdict}]

\* Assigning a row, stamping its rotation and toggling it keep it a row.
LEMMA AssignType ==
  ASSUME NEW r \in Rows, NEW h \in Workers \cup {NoWorker}, NEW t \in Time,
         NEW stamp \in Time, NEW e \in BOOLEAN
  PROVE  /\ [r EXCEPT !.holder = h, !.heldAt = t] \in Rows
         /\ [r EXCEPT !.holder = h, !.heldAt = t, !.rotated = stamp] \in Rows
         /\ [r EXCEPT !.enabled = e] \in Rows
<1>1. [r EXCEPT !.holder = h] \in Rows
  BY DEF Rows
<1>2. [r EXCEPT !.holder = h, !.heldAt = t] \in Rows
  BY DEF Rows
<1>3. [r EXCEPT !.holder = h, !.heldAt = t, !.rotated = stamp] \in Rows
  BY DEF Rows
<1>4. [r EXCEPT !.enabled = e] \in Rows
  BY DEF Rows
<1> QED
  BY <1>2, <1>3, <1>4

\* A new process and a new row are well typed.
LEMMA FreshTypes ==
  /\ FreshRow \in Rows
  /\ StartedWorker \in WorkerStates /\ StoppedWorker \in WorkerStates
  /\ NoRest \in [at : Time, until : Time]
  /\ NoTime \in Time
<1>1. FreshRow \in Rows
  BY RulesAssumption DEF FreshRow, Rows, Status, Time, FailureCap, OffenceCap
<1>2. StartedWorker \in WorkerStates
  BY DEF StartedWorker, WorkerStates, NoPick, Time
<1> QED
  BY <1>1, <1>2 DEF StoppedWorker, WorkerStates, NoRest, Time

\* The initial state is well typed.
LEMMA TypeInit == Init => TypeInv
<1> SUFFICES ASSUME Init PROVE TypeInv
  OBVIOUS
<1>1. prober \in [pc : {"idle", "resolve", "probe", "write"}, due : Seq(Proxies),
                 usable : BOOLEAN, verdict : Verdicts \cup {NoVerdict}]
  BY DEF Init, IdleProber
<1>2. TypeOK
  BY <1>1, FreshTypes, PoolAssumption DEF Init, TypeOK, WorkerStates
<1>3. InsideCalls
  BY DEF Init, InsideCalls, StartedWorker, IdleProber
<1> QED
  BY <1>2, <1>3 DEF TypeInv

\* Replacing one worker by a well-typed one that is not about to write, or is
\* with a verdict, keeps the part of the invariant about workers.
LEMMA WorkerType ==
  ASSUME TypeInv, NEW w \in Workers, NEW x \in WorkerStates,
         x.pc = "write" => x.verdict \in Verdicts,
         worker' = [worker EXCEPT ![w] = x]
  PROVE  /\ worker' \in [Workers -> WorkerStates]
         /\ \A u \in Workers : worker'[u].pc = "write" => worker'[u].verdict \in Verdicts
  BY DEF TypeInv, TypeOK, InsideCalls, WorkerStates

\* The UPDATE of recordHealth keeps the types of the table.
LEMMA RecordType ==
  ASSUME TypeInv, NEW p, NEW v \in Verdicts, Record(p, v)
  PROVE  /\ row' \in [Proxies -> Rows]
         /\ rest' \in [Proxies -> [at : Time, until : Time]]
<1>1. CASE p \in Catalogue
  <2>1. p \in Proxies /\ row[p] \in Rows
    BY <1>1 DEF Catalogue, TypeInv, TypeOK
  <2>2. [at |-> clock, until |-> v.until] \in [at : Time, until : Time]
    BY DEF TypeInv, TypeOK, Verdicts, Time
  <2> QED
    BY <1>1, <2>1, <2>2, ApplyType DEF Record, TypeInv, TypeOK
<1> QED
  BY <1>1 DEF Record, TypeInv, TypeOK

\* Whatever selectProxy picks is in the catalogue.
LEMMA PickType ==
  ASSUME TypeInv, NEW w \in Workers,
         NEW pick \in SelectProxy(w, Catalogue, row, clock)
  PROVE  pick \in [proxy : Catalogue, stamp : Time]
<1>1. \A p \in Catalogue : row[p].rotated \in Time
  BY DEF Catalogue, TypeInv, TypeOK, Rows
<1>2. clock \in Time
  BY DEF TypeInv, TypeOK, Time
<1> QED
  BY <1>1, <1>2 DEF SelectProxy

\* Fields of a worker, as WorkerType wants them.
LEMMA WorkerFields ==
  ASSUME TypeInv, NEW w \in Workers
  PROVE  /\ worker[w] \in WorkerStates
         /\ worker[w].lease \in Proxies \cup {NoProxy}
         /\ worker[w].at \in Time
         /\ worker[w].pick \in [proxy : Proxies \cup {NoProxy}, stamp : Time]
         /\ worker[w].verdict \in Verdicts \cup {NoVerdict}
  BY DEF TypeInv, TypeOK, WorkerStates

\* Every step of a worker keeps the types.
LEMMA WorkerStepType ==
  ASSUME TypeInv, NEW w \in Workers, WorkerStep(w)
  PROVE  TypeInv'
<1> DEFINE others == UNCHANGED <<clock, listing, prober, restarts>>
<1>1. ASSUME row' \in [Proxies -> Rows],
             rest' \in [Proxies -> [at : Time, until : Time]], others,
             NEW x \in WorkerStates, x.pc = "write" => x.verdict \in Verdicts,
             worker' = [worker EXCEPT ![w] = x]
      PROVE  TypeInv'
  <2>1. /\ worker' \in [Workers -> WorkerStates]
        /\ \A u \in Workers : worker'[u].pc = "write" => worker'[u].verdict \in Verdicts
    BY <1>1, WorkerType
  <2> QED
    BY <1>1, <2>1 DEF TypeInv, TypeOK, InsideCalls, WorkerStates
<1>2. /\ row \in [Proxies -> Rows] /\ rest \in [Proxies -> [at : Time, until : Time]]
      /\ clock \in Nat /\ clock \in Time
  BY PoolAssumption DEF TypeInv, TypeOK, Time
<1>3. /\ StartedWorker \in WorkerStates /\ StartedWorker.pc = "idle"
      /\ StoppedWorker \in WorkerStates /\ StoppedWorker.pc = "stopped"
  BY FreshTypes DEF StartedWorker, StoppedWorker
<1> DEFINE leased(p, at) == [StartedWorker EXCEPT !.lease = p, !.at = at]
<1>4. ASSUME NEW p \in Proxies \cup {NoProxy}, NEW at \in Time
      PROVE  leased(p, at) \in WorkerStates /\ leased(p, at).pc = "idle"
  BY FreshTypes DEF StartedWorker, WorkerStates
<1>5. CASE Select(w)
  <2>1. PICK pick \in SelectProxy(w, Catalogue, row, clock) :
          worker' = [worker EXCEPT ![w] = [StartedWorker EXCEPT
                       !.pc = "claim", !.pick = pick, !.at = clock]]
    BY <1>5 DEF Select
  <2>2. pick \in [proxy : Proxies \cup {NoProxy}, stamp : Time]
    BY PickType DEF Catalogue
  <2> DEFINE x == [StartedWorker EXCEPT !.pc = "claim", !.pick = pick, !.at = clock]
  <2>3. x \in WorkerStates /\ x.pc = "claim"
    BY <1>2, <2>2, FreshTypes DEF StartedWorker, WorkerStates
  <2> HIDE DEF x
  <2> QED
    BY <1>1, <1>2, <1>5, <2>1, <2>3 DEF Select, x
<1>6. CASE Claim(w)
  <2> DEFINE p == worker[w].pick.proxy  at == worker[w].at
  <2>1. at \in Time /\ worker[w].pick.stamp \in Time
    BY WorkerFields
  <2>2. Freed(w, p) \in [Proxies -> Rows]
    <3>1. \A r \in Rows : Unassigned(r) \in Rows
      BY AssignType, FreshTypes DEF Unassigned
    <3> QED
      BY <1>2, <3>1 DEF Freed
  <2>3. CASE Claimable(w, p, at)
             /\ (ClaimDone(w, p, at) \/ ClaimDone(w, NoProxy, NoTime))
             /\ row' = [Freed(w, p) EXCEPT
                          ![p] = [@ EXCEPT !.holder = w, !.heldAt = at,
                                           !.rotated = worker[w].pick.stamp]]
    <3>1. p \in Proxies
      BY <2>3 DEF Claimable, Catalogue
    <3>2. row' \in [Proxies -> Rows]
      BY <2>1, <2>2, <2>3, <3>1, AssignType
    <3>3. leased(p, at) \in WorkerStates /\ leased(p, at).pc = "idle"
      BY <1>4, <2>1, <3>1
    <3>4. leased(NoProxy, NoTime) \in WorkerStates /\ leased(NoProxy, NoTime).pc = "idle"
      BY <1>4, FreshTypes
    <3>5. CASE ClaimDone(w, p, at)
      BY <1>1, <1>2, <1>6, <3>2, <3>3, <3>5 DEF Claim, ClaimDone
    <3>6. CASE ClaimDone(w, NoProxy, NoTime)
      BY <1>1, <1>2, <1>6, <3>2, <3>4, <3>6 DEF Claim, ClaimDone
    <3> QED
      BY <2>3, <3>5, <3>6
  <2>4. CASE ClaimDone(w, NoProxy, NoTime) /\ row' = Freed(w, p)
    <3>1. leased(NoProxy, NoTime) \in WorkerStates /\ leased(NoProxy, NoTime).pc = "idle"
      BY <1>4, FreshTypes
    <3> QED
      BY <1>1, <1>2, <1>6, <2>2, <2>4, <3>1 DEF Claim, ClaimDone
  <2> QED
    BY <1>6, <2>3, <2>4 DEF Claim
<1>7. CASE ClaimFails(w)
  <2>1. leased(NoProxy, NoTime) \in WorkerStates /\ leased(NoProxy, NoTime).pc = "idle"
    BY <1>4, FreshTypes
  <2> QED
    BY <1>1, <1>2, <1>7, <2>1 DEF ClaimFails, ClaimDone
<1>8. ASSUME NEW s \in TrafficSamples, ReportRead(w, s)
      PROVE  TypeInv'
  <2> DEFINE v == Verdict(row[worker[w].lease], s, clock)
             x == [worker[w] EXCEPT !.pc = "write", !.verdict = v]
  <2>1. s \in Sample /\ row[worker[w].lease] \in Rows
    BY <1>2, <1>8, PoolAssumption DEF ReportRead, Catalogue
  <2>2. v \in Verdicts
    BY <1>2, <2>1, VerdictType
  <2> HIDE DEF v
  <2>3. x \in WorkerStates /\ x.verdict = v
    BY <2>2, WorkerFields DEF WorkerStates
  <2>4. worker' = [worker EXCEPT ![w] = x]
    BY <1>8 DEF ReportRead, TypeInv, TypeOK, v
  <2> HIDE DEF x
  <2> QED
    BY <1>1, <1>2, <1>8, <2>2, <2>3, <2>4 DEF ReportRead
<1>9. CASE ReportWrite(w)
  <2> DEFINE there == worker[w].lease \in Catalogue
             x == [worker[w] EXCEPT !.verdict = NoVerdict,
                                    !.pc = IF there THEN "check" ELSE "idle"]
  <2>1. worker[w].verdict \in Verdicts
    BY <1>9 DEF ReportWrite, TypeInv, InsideCalls
  <2>2. /\ row' \in [Proxies -> Rows]
        /\ rest' \in [Proxies -> [at : Time, until : Time]]
    BY <1>9, <2>1, RecordType DEF ReportWrite
  <2> HIDE DEF there
  <2>3. x \in WorkerStates /\ x.pc # "write"
    BY WorkerFields DEF WorkerStates
  <2>4. worker' = [worker EXCEPT ![w] = x]
    BY <1>9 DEF ReportWrite, there, TypeInv, TypeOK
  <2> HIDE DEF x
  <2> QED
    BY <1>1, <1>9, <2>2, <2>3, <2>4 DEF ReportWrite
<1>10. CASE CheckStatus(w)
  <2> DEFINE x == IF KeepsLease(worker[w].lease)
                  THEN [worker[w] EXCEPT !.pc = "idle"] ELSE StartedWorker
  <2>1. x \in WorkerStates /\ x.pc = "idle"
    <3>1. [worker[w] EXCEPT !.pc = "idle"] \in WorkerStates
      BY WorkerFields DEF WorkerStates
    <3>2. [worker[w] EXCEPT !.pc = "idle"].pc = "idle"
      BY WorkerFields DEF WorkerStates
    <3> QED
      BY <1>3, <3>1, <3>2
  <2>2. worker' = [worker EXCEPT ![w] = x]
    BY <1>10 DEF CheckStatus, TypeInv, TypeOK
  <2> HIDE DEF x
  <2> QED
    BY <1>1, <1>2, <1>10, <2>1, <2>2 DEF CheckStatus
<1>11. CASE Close(w)
  <2>1. row' \in [Proxies -> Rows]
    BY <1>2, <1>11, AssignType, FreshTypes DEF Close, Unassigned, Catalogue
  <2> QED
    BY <1>1, <1>2, <1>3, <1>11, <2>1 DEF Close
<1>12. CASE Crash(w)
  BY <1>1, <1>2, <1>3, <1>12 DEF Crash
<1> QED
  BY <1>5, <1>6, <1>7, <1>8, <1>9, <1>10, <1>11, <1>12 DEF WorkerStep

\* The type of the prober, as TypeOK has it.
ProberStates ==
  [pc : {"idle", "resolve", "probe", "write"}, due : Seq(Proxies),
   usable : BOOLEAN, verdict : Verdicts \cup {NoVerdict}]

\* A well-typed prober that knows what it is at keeps the invariant.
LEMMA ProberType ==
  ASSUME TypeInv, prober' \in ProberStates,
         prober'.pc = "write" => prober'.verdict \in Verdicts,
         prober'.pc # "idle" => prober'.due # <<>>,
         row' \in [Proxies -> Rows],
         rest' \in [Proxies -> [at : Time, until : Time]],
         restarts' \in 0 .. MaxRestarts,
         UNCHANGED <<clock, listing, worker>>
  PROVE  TypeInv'
  BY DEF TypeInv, TypeOK, InsideCalls, ProberStates

\* Going on to the next proxy of a pass.
LEMMA NextDueType ==
  ASSUME TypeInv, prober.pc # "idle", NextDue
  PROVE  /\ prober' \in ProberStates
         /\ prober'.pc # "write"
         /\ prober'.pc # "idle" => prober'.due # <<>>
<1>1. prober.due \in Seq(Proxies) /\ prober.due # <<>>
  BY DEF TypeInv, TypeOK, InsideCalls
<1>2. Tail(prober.due) \in Seq(Proxies) /\ Len(Tail(prober.due)) = Len(prober.due) - 1
  BY <1>1
<1>3. Len(prober.due) # 1 => Tail(prober.due) # <<>>
  <2>1. Len(prober.due) # 0 /\ Len(prober.due) \in Nat
    BY <1>1
  <2>2. Len(prober.due) # 1 => Len(Tail(prober.due)) # 0
    BY <1>2, <2>1
  <2>3. Len(<<>>) = 0
    OBVIOUS
  <2> QED
    BY <2>2, <2>3
<1> HIDE DEF NextDue
<1>4. prober' = [pc |-> IF Len(prober.due) = 1 THEN "idle" ELSE "resolve",
                 due |-> Tail(prober.due), usable |-> FALSE, verdict |-> NoVerdict]
  BY DEF NextDue, IdleProber
<1> QED
  BY <1>2, <1>3, <1>4 DEF ProberStates

\* A pass begins with at least one proxy, and at most MaxPerRun.
LEMMA PassType ==
  ASSUME NEW S \in SUBSET Proxies, S # {}, NEW order \in Orders(S)
  PROVE  LET due == SubSeq(order, 1, Lesser(MaxPerRun, Cardinality(S)))
         IN  due \in Seq(Proxies) /\ due # <<>>
<1>1. IsFiniteSet(S)
  BY PoolAssumption, FS_Subset
<1>2. Cardinality(S) \in Nat /\ Cardinality(S) # 0
  BY <1>1, FS_CardinalityType, FS_EmptySet
<1> DEFINE n == Lesser(MaxPerRun, Cardinality(S))
<1>3. n \in 1 .. Cardinality(S)
  BY <1>2, PoolAssumption DEF Lesser
<1>4. order \in [1 .. Cardinality(S) -> S]
  BY DEF Orders
<1>5. order \in Seq(Proxies) /\ Len(order) = Cardinality(S)
  BY <1>2, <1>4
<1> HIDE DEF n
<1>6. SubSeq(order, 1, n) \in Seq(Proxies) /\ Len(SubSeq(order, 1, n)) = n
  BY <1>2, <1>3, <1>5
<1>7. SubSeq(order, 1, n) # <<>>
  <2>1. Len(<<>>) = 0 /\ n # 0
    BY <1>3
  <2> QED
    BY <1>6, <2>1
<1> QED
  BY <1>6, <1>7 DEF n

\* Every step of the prober keeps the types.
LEMMA ProberStepType == TypeInv /\ ProberStep => TypeInv'
<1> SUFFICES ASSUME TypeInv, ProberStep PROVE TypeInv'
  OBVIOUS
<1>1. /\ row \in [Proxies -> Rows] /\ rest \in [Proxies -> [at : Time, until : Time]]
      /\ restarts \in 0 .. MaxRestarts /\ clock \in Nat
      /\ prober \in ProberStates /\ prober.due \in Seq(Proxies)
  BY PoolAssumption DEF TypeInv, TypeOK, ProberStates
<1>2. prober.pc # "idle" => prober.due # <<>> /\ Head(prober.due) \in Proxies
  BY <1>1 DEF TypeInv, InsideCalls
<1>3. CASE BeginPass
  <2>1. PICK order \in Orders(Due) :
          prober' = [IdleProber EXCEPT
                       !.pc = "resolve",
                       !.due = SubSeq(order, 1, Lesser(MaxPerRun, Cardinality(Due)))]
    BY <1>3 DEF BeginPass
  <2> DEFINE due == SubSeq(order, 1, Lesser(MaxPerRun, Cardinality(Due)))
  <2>2. due \in Seq(Proxies) /\ due # <<>>
    <3>1. Due \in SUBSET Proxies /\ Due # {}
      BY <1>3 DEF BeginPass, Due, Catalogue
    <3> QED
      BY <3>1, PassType
  <2> HIDE DEF due
  <2>3. prober' = [pc |-> "resolve", due |-> due, usable |-> FALSE, verdict |-> NoVerdict]
    BY <2>1 DEF IdleProber, due
  <2>4. /\ prober' \in ProberStates
        /\ prober'.pc # "write"
        /\ prober'.due # <<>>
    BY <2>2, <2>3 DEF ProberStates
  <2> QED
    BY <1>1, <1>3, <2>4, ProberType DEF BeginPass
<1>4. CASE Resolve
  <2>1. /\ prober' \in ProberStates
        /\ prober'.pc # "write"
        /\ prober'.due = prober.due
    BY <1>1, <1>4 DEF Resolve, ProberStates
  <2> QED
    BY <1>1, <1>2, <1>4, <2>1, ProberType DEF Resolve
<1>5. ASSUME NEW s \in ProbeSamples \cup {Unreachable}, ProbeRead(s)
      PROVE  TypeInv'
  <2> DEFINE p == Head(prober.due)
  <2>1. s \in Sample
    <3>1. Unreachable \in Sample
      BY DEF Sample, Source, Unreachable
    <3>2. ProbeSamples \subseteq Sample
      BY PoolAssumption
    <3> QED
      BY <3>1, <3>2
  <2>2. CASE p \in Catalogue
    <3> DEFINE v == Verdict(row[p], s, clock)
    <3>1. v \in Verdicts
      BY <1>1, <2>1, <2>2, VerdictType DEF Catalogue
    <3> HIDE DEF v
    <3>2. prober' = [prober EXCEPT !.pc = "write", !.verdict = v]
      BY <1>5, <2>2 DEF ProbeRead, v
    <3>3. /\ prober' \in ProberStates
          /\ prober'.verdict \in Verdicts
          /\ prober'.due = prober.due
      BY <1>1, <3>1, <3>2 DEF ProberStates
    <3> QED
      BY <1>1, <1>2, <1>5, <3>3, ProberType DEF ProbeRead
  <2>3. CASE p \notin Catalogue
    <3>1. NextDue
      BY <1>5, <2>3 DEF ProbeRead
    <3>2. prober.pc = "probe"
      BY <1>5 DEF ProbeRead
    <3>3. /\ prober' \in ProberStates
          /\ prober'.pc # "write"
          /\ prober'.pc # "idle" => prober'.due # <<>>
      BY <3>1, <3>2, NextDueType
    <3> QED
      BY <1>1, <1>5, <3>3, ProberType DEF ProbeRead
  <2> QED
    BY <2>2, <2>3
<1>6. CASE ProbeWrite
  <2>1. prober.verdict \in Verdicts /\ prober.pc = "write" /\ NextDue
    BY <1>6 DEF ProbeWrite, TypeInv, InsideCalls
  <2>2. /\ row' \in [Proxies -> Rows]
        /\ rest' \in [Proxies -> [at : Time, until : Time]]
    BY <1>6, <2>1, RecordType DEF ProbeWrite
  <2>3. /\ prober' \in ProberStates
        /\ prober'.pc # "write"
        /\ prober'.pc # "idle" => prober'.due # <<>>
    BY <2>1, NextDueType
  <2> QED
    BY <1>1, <1>6, <2>2, <2>3, ProberType DEF ProbeWrite
<1> QED
  BY <1>3, <1>4, <1>5, <1>6 DEF ProberStep

\* Every step keeps the types.
LEMMA TypeStep == TypeInv /\ [Next]_vars => TypeInv'
<1> SUFFICES ASSUME TypeInv, [Next]_vars PROVE TypeInv'
  OBVIOUS
<1>1. CASE RestartScheduler
  <2>1. IdleProber \in ProberStates /\ IdleProber.pc = "idle"
    BY DEF IdleProber, ProberStates
  <2>2. restarts' \in 0 .. MaxRestarts
    BY <1>1, PoolAssumption DEF RestartScheduler, TypeInv, TypeOK
  <2>3. /\ row \in [Proxies -> Rows]
        /\ rest \in [Proxies -> [at : Time, until : Time]]
    BY DEF TypeInv, TypeOK
  <2> QED
    BY <1>1, <2>1, <2>2, <2>3, ProberType DEF RestartScheduler
<1>2. ASSUME NEW p \in Administered, AdminStep(p)
      PROVE  TypeInv'
  <2>1. p \in Proxies /\ row[p] \in Rows
    BY PoolAssumption DEF TypeInv, TypeOK
  <2>2. CASE Create(p)
    BY <2>1, <2>2 DEF Create, TypeInv, TypeOK, InsideCalls
  <2>3. CASE Remove(p)
    BY <2>1, <2>3, FreshTypes DEF Remove, TypeInv, TypeOK, InsideCalls
  <2>4. ASSUME NEW enabled \in BOOLEAN, SetEnabled(p, enabled)
        PROVE  TypeInv'
    <3>1. [row[p] EXCEPT !.enabled = enabled] \in Rows
      BY <2>1, FreshTypes, AssignType
    <3>2. row' \in [Proxies -> Rows]
      BY <2>1, <2>4, <3>1 DEF SetEnabled, TypeInv, TypeOK
    <3> QED
      BY <2>4, <3>2 DEF SetEnabled, TypeInv, TypeOK, InsideCalls
  <2> QED
    BY <1>2, <2>2, <2>3, <2>4 DEF AdminStep
<1>3. CASE Tick
  BY <1>3, PoolAssumption DEF Tick, TypeInv, TypeOK, InsideCalls
<1>4. CASE UNCHANGED vars
  BY <1>4 DEF vars, TypeInv, TypeOK, InsideCalls
<1> QED
  BY <1>1, <1>2, <1>3, <1>4, WorkerStepType, ProberStepType DEF Next

\* The table respects its CHECK constraints whatever the processes do, and no
\* process leaves the states its code has.
THEOREM TypeCorrect == Spec => []TypeOK
<1>1. Spec => []TypeInv
  BY TypeInit, TypeStep, PTL DEF Spec
<1>2. TypeInv => TypeOK
  BY DEF TypeInv
<1> QED
  BY <1>1, <1>2, PTL

-----------------------------------------------------------------------------
(* Leases.                                                                 *)

\* A worker's lease and the row agree on since when, as long as the row is the
\* worker's; and when the row is not, there is a reason.
Held(p, w) ==
  worker[w].lease = p =>
    /\ listing[p] # "new"
    /\ row[p].holder = w => row[p].heldAt = worker[w].at
    /\ listing[p] = "listed" =>
         \/ row[p].holder = w
         \/ rest[p].at >= worker[w].at
         \/ clock > worker[w].at + MaxLease

\* Times are of the past, and who asks for a lease has none.
Present(w) ==
  worker[w].at <= clock /\ (worker[w].pc = "claim" => worker[w].lease = NoProxy)

LeaseInv ==
  /\ TypeInv
  /\ OneProxyPerWorker
  /\ \A w \in Workers : Present(w)
  /\ \A p \in Proxies, w \in Workers : Held(p, w)

\* Initially nobody has a lease.
LEMMA LeaseInit == Init => LeaseInv
<1> SUFFICES ASSUME Init PROVE LeaseInv
  OBVIOUS
<1>1. TypeInv
  BY TypeInit
<1>2. \A p \in Proxies : row[p].holder = NoWorker
  BY DEF Init, FreshRow
<1>3. \A w \in Workers : worker[w].lease = NoProxy /\ worker[w].at = -1 /\ clock = 0
  BY DEF Init, StartedWorker, NoTime
<1>4. NoProxy \notin Proxies
  BY PoolAssumption
<1> QED
  BY <1>1, <1>2, <1>3, <1>4 DEF LeaseInv, OneProxyPerWorker, Present, Held

\* p keeps its holder.
Kept(p) ==
  /\ row'[p].holder = row[p].holder /\ row'[p].heldAt = row[p].heldAt
  /\ rest'[p].at = rest[p].at

\* p becomes nobody's, for a reason to whoever used it as its holder.
Released(p) ==
  /\ row'[p].holder = NoWorker
  /\ \A w \in Workers : worker'[w].lease = p =>
       \/ listing'[p] = "removed"
       \/ rest'[p].at >= worker[w].at
       \/ row[p].holder # w /\ rest'[p].at = rest[p].at

\* A step in which workers keep their leases or give them up, rows keep their
\* holders or lose them and no time runs backwards keeps every lease backed.
LEMMA QuietStep ==
  ASSUME LeaseInv, TypeInv',
         \A p \in Proxies : /\ Kept(p) \/ Released(p)
                            /\ listing'[p] \in {listing[p], "removed"},
         clock' >= clock,
         \A w \in Workers :
           /\ worker'[w].lease \in {worker[w].lease, NoProxy}
           /\ worker'[w].lease # NoProxy => worker'[w].at = worker[w].at
           /\ worker'[w].at <= clock'
           /\ worker'[w].pc = "claim" => worker'[w].lease = NoProxy
  PROVE  LeaseInv'
<1>1. OneProxyPerWorker'
  BY DEF LeaseInv, OneProxyPerWorker, Kept, Released
<1>2. ASSUME NEW w \in Workers PROVE Present(w)'
  BY DEF Present
<1>3. ASSUME NEW p \in Proxies, NEW w \in Workers PROVE Held(p, w)'
  <2> SUFFICES ASSUME worker'[w].lease = p
               PROVE  /\ listing'[p] # "new"
                      /\ row'[p].holder = w => row'[p].heldAt = worker'[w].at
                      /\ listing'[p] = "listed" =>
                           \/ row'[p].holder = w
                           \/ rest'[p].at >= worker'[w].at
                           \/ clock' > worker'[w].at + MaxLease
    BY DEF Held
  <2>1. p # NoProxy /\ w # NoWorker
    BY PoolAssumption
  <2>2. worker[w].lease = p /\ worker'[w].at = worker[w].at /\ Held(p, w)
    BY <2>1 DEF LeaseInv
  <2>3. clock \in Int /\ clock' \in Int /\ worker[w].at \in Int /\ MaxLease \in Nat
    BY PoolAssumption DEF LeaseInv, TypeInv, TypeOK, Time, NoTime
  <2>4. CASE Kept(p)
    BY <2>2, <2>3, <2>4 DEF Held, Kept
  <2>5. CASE Released(p)
    BY <2>1, <2>2, <2>3, <2>5 DEF Held, Released
  <2> QED
    BY <2>4, <2>5
<1> QED
  BY <1>1, <1>2, <1>3 DEF LeaseInv

\* The UPDATE of recordHealth keeps p's holder or ends its assignment now.
LEMMA RecordReleases ==
  ASSUME LeaseInv, NEW p, NEW v \in Verdicts, Record(p, v),
         \A w \in Workers : worker'[w].lease = worker[w].lease
  PROVE  \A q \in Proxies : Kept(q) \/ Released(q)
<1>1. CASE p \notin Catalogue
  BY <1>1 DEF Record, Kept
<1>2. CASE p \in Catalogue /\ v.frees
  <2>1. p \in Proxies /\ row \in [Proxies -> Rows]
        /\ rest \in [Proxies -> [at : Time, until : Time]]
    BY <1>2 DEF Catalogue, LeaseInv, TypeInv, TypeOK
  <2>2. row'[p].holder = NoWorker /\ rest'[p].at = clock
    BY <1>2, <2>1 DEF Record, Apply
  <2>3. \A w \in Workers : rest'[p].at >= worker[w].at
    <3>1. \A w \in Workers : worker[w].at <= clock /\ worker[w].at \in Int
      BY DEF LeaseInv, Present, TypeInv, TypeOK, Time, NoTime
    <3>2. clock \in Int
      BY PoolAssumption DEF LeaseInv, TypeInv, TypeOK
    <3> QED
      BY <2>2, <3>1, <3>2
  <2>4. \A q \in Proxies : q # p => Kept(q)
    BY <1>2, <2>1 DEF Record, Kept
  <2> QED
    BY <2>2, <2>3, <2>4 DEF Released
<1>3. CASE p \in Catalogue /\ ~v.frees
  <2>1. p \in Proxies /\ row \in [Proxies -> Rows]
    BY <1>3 DEF Catalogue, LeaseInv, TypeInv, TypeOK
  <2> QED
    BY <1>3, <2>1 DEF Record, Apply, Kept
<1> QED
  BY <1>1, <1>2, <1>3

\* What the two UPDATEs of a claim do to the rows.
LEMMA FreedRows ==
  ASSUME TypeInv, NEW w \in Workers, NEW p, NEW q \in Proxies
  PROVE  /\ q # p => Freed(w, p)[q].holder # w
         /\ Freed(w, p)[q].holder \in {row[q].holder, NoWorker}
         /\ row[q].holder # w => Freed(w, p)[q] = row[q]
         /\ row[q].holder = w /\ q # p => Freed(w, p)[q].holder = NoWorker
         /\ q = p => Freed(w, p)[q] = row[q]
<1>1. row[q] \in Rows /\ NoWorker # w
  BY PoolAssumption DEF TypeInv, TypeOK
<1>2. Unassigned(row[q]).holder = NoWorker
  BY <1>1 DEF Unassigned, Rows
<1> QED
  BY <1>1, <1>2 DEF Freed

\* A claim that wins takes p from nobody, from its own holder or from a worker
\* whose lease is too old.
LEMMA ClaimStep ==
  ASSUME LeaseInv, TypeInv', NEW w \in Workers, Claim(w)
  PROVE  LeaseInv'
<1> DEFINE p == worker[w].pick.proxy  at == worker[w].at
<1>1. /\ worker \in [Workers -> WorkerStates] /\ row \in [Proxies -> Rows]
      /\ clock \in Int /\ MaxLease \in Nat /\ TypeInv
      /\ \A u \in Workers : worker[u].at \in Int /\ worker[u].at <= clock
      /\ worker[w].lease = NoProxy
  BY PoolAssumption DEF LeaseInv, TypeInv, TypeOK, WorkerStates, Present, Claim, Time, NoTime
<1>2. clock' = clock /\ listing' = listing /\ rest' = rest
  BY DEF Claim
<1>3. CASE ClaimDone(w, NoProxy, NoTime) /\ row' = Freed(w, p)
  <2>1. worker'[w].lease = NoProxy /\ worker'[w].pc = "idle" /\ worker'[w].at = -1
    BY <1>1, <1>3 DEF ClaimDone, StartedWorker, NoTime
  <2>2. \A u \in Workers : u # w => worker'[u] = worker[u]
    BY <1>1, <1>3 DEF ClaimDone
  <2>3. -1 <= clock
    BY PoolAssumption DEF LeaseInv, TypeInv, TypeOK
  <2>4. ASSUME NEW q \in Proxies PROVE Kept(q) \/ Released(q)
    <3>1. CASE row'[q] = row[q]
      BY <1>2, <3>1 DEF Kept
    <3>2. CASE row[q].holder = w /\ row'[q].holder = NoWorker
      <4>1. \A u \in Workers : worker'[u].lease = q => row[q].holder # u
        BY <2>1, <3>2, PoolAssumption
      <4> QED
        BY <1>2, <3>2, <4>1 DEF Released
    <3> QED
      BY <1>1, <1>3, <3>1, <3>2, FreedRows
  <2> QED
    BY <1>1, <1>2, <2>1, <2>2, <2>3, <2>4, QuietStep DEF LeaseInv, Present
<1>4. CASE Claimable(w, p, at)
           /\ (ClaimDone(w, p, at) \/ ClaimDone(w, NoProxy, NoTime))
           /\ row' = [Freed(w, p) EXCEPT
                        ![p] = [@ EXCEPT !.holder = w, !.heldAt = at,
                                         !.rotated = worker[w].pick.stamp]]
  <2>1. p \in Proxies /\ listing[p] = "listed" /\ p # NoProxy
    BY <1>4, PoolAssumption DEF Claimable, Catalogue
  <2>2. /\ worker'[w].pc = "idle"
        /\ \/ worker'[w].lease = p /\ worker'[w].at = at
           \/ worker'[w].lease = NoProxy /\ worker'[w].at = -1
    BY <1>1, <1>4 DEF ClaimDone, StartedWorker, NoTime
  <2>3. \A u \in Workers : u # w => worker'[u] = worker[u]
    BY <1>1, <1>4 DEF ClaimDone
  <2>4. row'[p].holder = w /\ row'[p].heldAt = at
    <3>1. Freed(w, p)[p] = row[p] /\ row[p] \in Rows
      BY <1>1, <2>1, FreedRows
    <3>2. row'[p] = [row[p] EXCEPT !.holder = w, !.heldAt = at,
                                   !.rotated = worker[w].pick.stamp]
      BY <1>4, <2>1, <3>1 DEF Freed
    <3> QED
      BY <3>1, <3>2 DEF Rows
  <2>5. \A q \in Proxies : q # p => row'[q] = Freed(w, p)[q]
    BY <1>4 DEF Freed
  <2>6. OneProxyPerWorker'
    BY <1>1, <2>1, <2>4, <2>5, FreedRows DEF LeaseInv, OneProxyPerWorker
  <2>7. \A u \in Workers : Present(u)'
    <3>1. -1 <= clock
      BY PoolAssumption DEF LeaseInv, TypeInv, TypeOK
    <3> QED
      BY <1>1, <1>2, <2>2, <2>3, <3>1 DEF LeaseInv, Present
  <2>8. ASSUME NEW q \in Proxies, NEW u \in Workers PROVE Held(q, u)'
    <3>1. CASE u = w
      BY <1>2, <2>1, <2>2, <2>4, <3>1, PoolAssumption DEF Held
    <3>2. CASE u # w /\ q = p
      <4>1. Held(p, u)
        BY <3>2 DEF LeaseInv
      <4>2. row[p].holder = u => row[p].heldAt < at - MaxLease
        BY <1>4, <3>2, PoolAssumption DEF Claimable
      <4> QED
        BY <1>1, <1>2, <2>3, <2>4, <3>2, <4>1, <4>2 DEF Held
    <3>3. CASE u # w /\ q # p
      <4>1. Held(q, u) /\ row'[q] = Freed(w, p)[q] /\ worker'[u] = worker[u]
        BY <2>3, <2>5, <3>3 DEF LeaseInv
      <4>2. row[q].holder = w => row'[q].holder = NoWorker /\ NoWorker # u
        BY <1>1, <3>3, <4>1, FreedRows, PoolAssumption
      <4>3. row[q].holder # w => row'[q] = row[q]
        BY <1>1, <4>1, FreedRows
      <4> QED
        BY <1>2, <3>3, <4>1, <4>2, <4>3 DEF Held
    <3> QED
      BY <3>1, <3>2, <3>3
  <2> QED
    BY <2>6, <2>7, <2>8 DEF LeaseInv
<1> QED
  BY <1>3, <1>4 DEF Claim

\* Every step keeps every lease backed.
LEMMA LeaseStep == LeaseInv /\ [Next]_vars => LeaseInv'
<1> SUFFICES ASSUME LeaseInv, [Next]_vars PROVE LeaseInv'
  OBVIOUS
<1>1. TypeInv /\ TypeInv'
  BY TypeStep DEF LeaseInv
<1>2. /\ worker \in [Workers -> WorkerStates] /\ row \in [Proxies -> Rows]
      /\ clock \in Nat /\ listing \in [Proxies -> {"new", "listed", "removed"}]
      /\ rest \in [Proxies -> [at : Time, until : Time]]
  BY <1>1, PoolAssumption DEF TypeInv, TypeOK, WorkerStates
<1>3. \A u \in Workers : Present(u) /\ -1 <= clock
  BY <1>2 DEF LeaseInv
<1>4. ASSUME UNCHANGED <<row, listing, rest>>
      PROVE  \A p \in Proxies : /\ Kept(p) \/ Released(p)
                                /\ listing'[p] \in {listing[p], "removed"}
  BY <1>4 DEF Kept
<1>5. /\ StartedWorker.lease = NoProxy /\ StartedWorker.pc = "idle" /\ StartedWorker.at = -1
      /\ StoppedWorker.lease = NoProxy /\ StoppedWorker.pc = "stopped" /\ StoppedWorker.at = -1
  BY DEF StartedWorker, StoppedWorker, NoTime
<1> DEFINE Keeps(u) == worker'[u].lease = worker[u].lease /\ worker'[u].at = worker[u].at
                       /\ worker'[u].pc # "claim"
           Gives(u) == worker'[u].lease = NoProxy /\ worker'[u].at <= clock
<1>6. ASSUME NEW w \in Workers, Keeps(w) \/ Gives(w), clock' = clock,
             \A u \in Workers : u # w => worker'[u] = worker[u],
             \A p \in Proxies : /\ Kept(p) \/ Released(p)
                                /\ listing'[p] \in {listing[p], "removed"}
      PROVE  LeaseInv'
  BY <1>1, <1>2, <1>3, <1>6, QuietStep DEF Present
<1>7. ASSUME NEW w \in Workers, WorkerStep(w)
      PROVE  LeaseInv'
  <2>1. CASE Select(w)
    BY <1>2, <1>4, <1>5, <1>6, <2>1 DEF Select, StartedWorker
  <2>2. CASE Claim(w)
    BY <1>1, <2>2, ClaimStep
  <2>3. CASE ClaimFails(w)
    BY <1>2, <1>3, <1>4, <1>5, <1>6, <2>3 DEF ClaimFails, ClaimDone, StartedWorker, NoTime
  <2>4. ASSUME NEW s \in TrafficSamples, ReportRead(w, s)
        PROVE  LeaseInv'
    BY <1>2, <1>4, <1>6, <2>4 DEF ReportRead, WorkerStates
  <2>5. CASE ReportWrite(w)
    <3>1. worker[w].verdict \in Verdicts /\ Record(worker[w].lease, worker[w].verdict)
      BY <1>1, <2>5 DEF ReportWrite, TypeInv, InsideCalls
    <3>2. Keeps(w) /\ \A u \in Workers : u # w => worker'[u] = worker[u]
      BY <1>2, <2>5 DEF ReportWrite, WorkerStates
    <3>3. \A p \in Proxies : Kept(p) \/ Released(p)
      BY <3>1, <3>2, RecordReleases
    <3> QED
      BY <1>6, <2>5, <3>2, <3>3 DEF ReportWrite
  <2>6. CASE CheckStatus(w)
    <3>1. CASE KeepsLease(worker[w].lease)
      BY <1>2, <1>4, <1>6, <2>6, <3>1 DEF CheckStatus, WorkerStates
    <3>2. CASE ~KeepsLease(worker[w].lease)
      BY <1>2, <1>3, <1>4, <1>5, <1>6, <2>6, <3>2 DEF CheckStatus
    <3> QED
      BY <3>1, <3>2
  <2>7. CASE Close(w)
    <3> DEFINE p == worker[w].lease
    <3>1. Gives(w) /\ \A u \in Workers : u # w => worker'[u] = worker[u]
      BY <1>2, <1>3, <1>5, <2>7 DEF Close
    <3>2. ASSUME NEW q \in Proxies PROVE Kept(q) \/ Released(q)
      <4>1. CASE row'[q] = row[q]
        BY <2>7, <4>1 DEF Close, Kept
      <4>2. CASE row[q].holder = w /\ row'[q] = Unassigned(row[q])
        <5>1. row'[q].holder = NoWorker
          BY <1>2, <4>2 DEF Unassigned, Rows
        <5>2. \A u \in Workers : worker'[u].lease = q => row[q].holder # u
          BY <3>1, <4>2, PoolAssumption
        <5> QED
          BY <2>7, <5>1, <5>2 DEF Released, Close
      <4> QED
        BY <1>2, <2>7, <4>1, <4>2 DEF Close
    <3> QED
      BY <1>6, <2>7, <3>1, <3>2 DEF Close
  <2>8. CASE Crash(w)
    BY <1>2, <1>3, <1>4, <1>5, <1>6, <2>8 DEF Crash
  <2> QED
    BY <1>7, <2>1, <2>2, <2>3, <2>4, <2>5, <2>6, <2>7, <2>8 DEF WorkerStep
<1>8. ASSUME UNCHANGED worker, clock' >= clock,
             \A p \in Proxies : /\ Kept(p) \/ Released(p)
                                /\ listing'[p] \in {listing[p], "removed"}
      PROVE  LeaseInv'
  <2>1. \A u \in Workers : worker[u].at <= clock /\ worker[u].at \in Int
    BY <1>2, <1>3 DEF Present, WorkerStates, Time, NoTime
  <2>2. clock \in Int /\ clock' \in Int
    BY <1>1, PoolAssumption DEF TypeInv, TypeOK
  <2> QED
    BY <1>1, <1>3, <1>8, <2>1, <2>2, QuietStep DEF Present
<1>9. CASE ProberStep
  <2>1. CASE ProbeWrite
    <3>1. prober.verdict \in Verdicts /\ Record(Head(prober.due), prober.verdict)
      BY <1>1, <2>1 DEF ProbeWrite, TypeInv, InsideCalls
    <3>2. \A p \in Proxies : Kept(p) \/ Released(p)
      BY <2>1, <3>1, RecordReleases DEF ProbeWrite
    <3> QED
      BY <1>2, <1>8, <2>1, <3>2 DEF ProbeWrite
  <2>2. CASE UNCHANGED <<clock, row, listing, worker, rest>>
    BY <1>2, <1>4, <1>8, <2>2
  <2> QED
    BY <1>9, <2>1, <2>2 DEF ProberStep, BeginPass, Resolve, ProbeRead
<1>10. CASE RestartScheduler
  BY <1>2, <1>4, <1>8, <1>10 DEF RestartScheduler
<1>11. ASSUME NEW p \in Administered, AdminStep(p)
       PROVE  LeaseInv'
  <2>1. p \in Proxies /\ row[p] \in Rows
    BY <1>2, PoolAssumption
  <2>2. CASE Create(p)
    <3>1. \A u \in Workers : worker[u].lease # p
      BY <2>1, <2>2 DEF Create, LeaseInv, Held
    <3>2. \A q \in Proxies, u \in Workers : Held(q, u)'
      BY <1>2, <2>2, <3>1 DEF Create, LeaseInv, Held
    <3> QED
      BY <1>1, <2>2, <3>2 DEF Create, LeaseInv, Present, OneProxyPerWorker
  <2>3. CASE Remove(p)
    <3>1. Released(p)
      BY <1>2, <2>1, <2>3 DEF Remove, Released, FreshRow
    <3>2. \A q \in Proxies : q # p => Kept(q) /\ listing'[q] = listing[q]
      BY <1>2, <2>3 DEF Remove, Kept
    <3> QED
      BY <1>2, <1>8, <2>1, <2>3, <3>1, <3>2 DEF Remove
  <2>4. ASSUME NEW enabled \in BOOLEAN, SetEnabled(p, enabled)
        PROVE  LeaseInv'
    <3>1. \A q \in Proxies : Kept(q)
      BY <1>2, <2>1, <2>4 DEF SetEnabled, Kept, Rows
    <3> QED
      BY <1>2, <1>8, <2>4, <3>1 DEF SetEnabled
  <2> QED
    BY <1>11, <2>2, <2>3, <2>4 DEF AdminStep
<1>12. CASE Tick
  BY <1>2, <1>4, <1>8, <1>12 DEF Tick
<1>13. CASE UNCHANGED vars
  BY <1>2, <1>4, <1>8, <1>13 DEF vars
<1> QED
  BY <1>7, <1>9, <1>10, <1>11, <1>12, <1>13 DEF Next

\* No worker is ever assigned two rows: the transaction of acquire frees the
\* old assignment before it claims, so proxies_worker_assignment_uq cannot be
\* what rejects a claim.
THEOREM AssignmentTheorem == Spec => []OneProxyPerWorker
<1>1. LeaseInv => OneProxyPerWorker
  BY DEF LeaseInv
<1> QED
  BY <1>1, LeaseInit, LeaseStep, PTL DEF Spec

\* A worker that goes on using its lease is the holder of the row, unless the
\* proxy rested or went since or the lease outlived MAX_LEASE_MS.
THEOREM BackedTheorem == Spec => []LeaseIsBacked
<1>1. LeaseInv => LeaseIsBacked
  BY DEF LeaseInv, LeaseIsBacked, Held, Users, Catalogue
<1> QED
  BY <1>1, LeaseInit, LeaseStep, PTL DEF Spec

\* No claim hands out a proxy that is resting, dead, disabled or gone by then.
THEOREM UsableTheorem == Spec => HandsOutOnlyUsable
<1> DEFINE OnlyUsable ==
      \A p \in Proxies :
        row'[p].holder \notin {row[p].holder, NoWorker} =>
          p \in Catalogue /\ row[p].enabled /\ row[p].status = "ACTIVE"
<1>1. LeaseInv /\ [Next]_vars => OnlyUsable \/ UNCHANGED vars
  <2> SUFFICES ASSUME LeaseInv, [Next]_vars PROVE OnlyUsable \/ UNCHANGED vars
    OBVIOUS
  <2>1. TypeInv /\ row \in [Proxies -> Rows]
    BY DEF LeaseInv, TypeInv, TypeOK
  <2>2. ASSUME NEW p, NEW v \in Verdicts, Record(p, v) PROVE OnlyUsable
    BY <2>1, <2>2 DEF Record, Apply, Catalogue
  <2>3. ASSUME NEW w \in Workers, Claim(w) PROVE OnlyUsable
    <3> DEFINE p == worker[w].pick.proxy
    <3>1. CASE row' = Freed(w, p)
      BY <2>1, <3>1, FreedRows
    <3>2. CASE Claimable(w, p, worker[w].at)
      <4>1. \A q \in Proxies : q # p => row'[q] = Freed(w, p)[q]
        BY <2>3 DEF Claim, Freed
      <4> QED
        BY <2>1, <3>2, <4>1, FreedRows DEF Claimable
    <3> QED
      BY <2>3, <3>1, <3>2 DEF Claim
  <2>4. ASSUME NEW w \in Workers, WorkerStep(w) PROVE OnlyUsable
    <3>1. CASE ReportWrite(w)
      BY <2>1, <2>2, <3>1 DEF ReportWrite, TypeInv, InsideCalls
    <3>2. CASE Close(w)
      BY <2>1, <3>2 DEF Close, Unassigned, Catalogue, Rows
    <3>3. CASE UNCHANGED row
      BY <3>3
    <3> QED
      BY <2>3, <2>4, <3>1, <3>2, <3>3
         DEF WorkerStep, Select, ClaimFails, ReportRead, CheckStatus, Crash
  <2>5. CASE ProberStep
    <3>1. CASE ProbeWrite
      BY <2>1, <2>2, <3>1 DEF ProbeWrite, TypeInv, InsideCalls
    <3>2. CASE UNCHANGED row
      BY <3>2
    <3> QED
      BY <2>5, <3>1, <3>2 DEF ProberStep, BeginPass, Resolve, ProbeRead
  <2>6. ASSUME NEW p \in Administered, AdminStep(p) PROVE OnlyUsable
    BY <2>1, <2>6, PoolAssumption DEF AdminStep, Create, Remove, SetEnabled, FreshRow, Rows
  <2> QED
    BY <2>4, <2>5, <2>6 DEF Next, RestartScheduler, Tick, vars
<1>2. Init /\ [][Next]_vars => [][OnlyUsable]_vars
  BY <1>1, LeaseInit, LeaseStep, PTL
<1> QED
  BY <1>2 DEF Spec, HandsOutOnlyUsable
-----------------------------------------------------------------------------
(* Status and rest window.                                                 *)

\* A row, or what recordHealth is about to write into one.
Coherent(r) == /\ r.status = "ACTIVE" => r.until = NoTime
               /\ r.status = "QUARANTINED" => r.until # NoTime

\* The verdicts in flight are coherent as well as the rows, so it does not
\* matter which of them is written last.
WindowInv ==
  /\ TypeInv
  /\ \A p \in Proxies : Coherent(row[p])
  /\ \A w \in Workers : worker[w].pc = "write" => Coherent(worker[w].verdict)
  /\ prober.pc = "write" => Coherent(prober.verdict)

\* From a coherent row recordHealth computes a coherent one.
LEMMA VerdictCoherent ==
  ASSUME NEW r \in Rows, Coherent(r), NEW s \in Sample, NEW now \in Nat
  PROVE  Coherent(Verdict(r, s, now))
<1> DEFINE failures == IF s.ok THEN 0 ELSE Lesser(r.failures + 1, FailureCap)
           resting  == r.until > now
           okProbe  == s.ok /\ s.source = "PROBE"
           d        == Decide(s, failures, r, now)
           rests    == d.quarantine /\ ~(resting /\ okProbe)
           dead     == ~resting /\ ShouldMarkDead(failures, s)
           v        == Verdict(r, s, now)
<1>1. d.quarantine => d.until # NoTime
  <2>1. r.offences \in 0 .. OffenceCap
    BY DEF Rows
  <2>2. \A base \in Nat : now + RestWindow(base, r.offences) # NoTime
    BY <2>1, RestWindowType DEF NoTime
  <2>3. RestBase \in Nat /\ 2 * RestBase \in Nat
    BY RulesAssumption
  <2> HIDE DEF failures
  <2> QED
    BY <2>2, <2>3 DEF Decide, Resting
<1> HIDE DEF failures, d
<1>2. v.status = IF dead THEN "DEAD"
                 ELSE IF rests THEN "QUARANTINED"
                 ELSE IF r.status = "QUARANTINED" /\ okProbe THEN "ACTIVE"
                 ELSE r.status
  BY DEF Verdict, failures, d
<1>3. v.until = NextUntil(r, d.until, rests, okProbe)
  BY DEF Verdict, failures, d
<1> HIDE DEF v, dead, okProbe, resting
<1>4. Coherent(v)
  BY <1>1, <1>2, <1>3 DEF Coherent, NextUntil
<1> QED
  BY <1>4 DEF v

\* Initially every row is active and nothing is being written.
LEMMA WindowInit == Init => WindowInv
<1> SUFFICES ASSUME Init PROVE WindowInv
  OBVIOUS
<1>1. TypeInv
  BY TypeInit
<1> QED
  BY <1>1 DEF Init, WindowInv, Coherent, FreshRow, StartedWorker, IdleProber

\* Every step keeps rows and verdicts coherent.
LEMMA WindowStep == WindowInv /\ [Next]_vars => WindowInv'
<1> SUFFICES ASSUME WindowInv, [Next]_vars PROVE WindowInv'
  OBVIOUS
<1>1. /\ TypeInv /\ TypeInv'
      /\ row \in [Proxies -> Rows] /\ worker \in [Workers -> WorkerStates]
      /\ clock \in Nat
  BY TypeStep, PoolAssumption DEF WindowInv, TypeInv, TypeOK, WorkerStates
<1> DEFINE workers == \A w \in Workers :
                        worker'[w].pc = "write" => Coherent(worker'[w].verdict)
           rows    == \A p \in Proxies : Coherent(row'[p])
           probes  == prober'.pc = "write" => Coherent(prober'.verdict)
<1>2. ASSUME NEW p, NEW v \in Verdicts, Coherent(v), Record(p, v) PROVE rows
  <2>1. \A r \in Rows : Coherent(Apply(r, v))
    BY <1>2 DEF Coherent, Apply
  <2> QED
    BY <1>1, <1>2, <2>1 DEF Record, WindowInv
<1>3. ASSUME row' = row PROVE rows
  BY <1>3 DEF WindowInv
<1>4. ASSUME NEW w \in Workers, WorkerStep(w) PROVE rows /\ workers /\ probes
  <2>1. probes
    BY <1>4 DEF WorkerStep, Select, Claim, ClaimFails, ReportRead, ReportWrite,
                CheckStatus, Close, Crash, WindowInv
  <2>2. ASSUME NEW x, worker' = [worker EXCEPT ![w] = x],
               x.pc = "write" => Coherent(x.verdict)
        PROVE  workers
    BY <1>1, <2>2 DEF WindowInv
  <2>3. ASSUME NEW x, worker' = [worker EXCEPT ![w] = x], x.pc # "write"
        PROVE  workers
    BY <2>2, <2>3
  <2>4. CASE Select(w)
    <3>1. PICK pick \in SelectProxy(w, Catalogue, row, clock) :
            worker' = [worker EXCEPT ![w] = [StartedWorker EXCEPT
                         !.pc = "claim", !.pick = pick, !.at = clock]]
      BY <2>4 DEF Select
    <3> QED
      BY <1>3, <2>1, <2>3, <2>4, <3>1 DEF Select, StartedWorker
  <2>5. ASSUME NEW p, NEW at, ClaimDone(w, p, at) PROVE workers
    <3> DEFINE x == [StartedWorker EXCEPT !.lease = p, !.at = at]
    <3>1. x.pc = "idle"
      BY DEF StartedWorker
    <3>2. worker' = [worker EXCEPT ![w] = x]
      BY <2>5 DEF ClaimDone
    <3> HIDE DEF x
    <3> QED
      BY <2>3, <3>1, <3>2
  <2>6. CASE Claim(w) \/ Close(w)
    <3>1. workers
      BY <2>3, <2>5, <2>6 DEF Claim, Close, StoppedWorker, StartedWorker
    <3>2. \A p \in Proxies : row'[p].status = row[p].status /\ row'[p].until = row[p].until
      <4>1. CASE Claim(w)
        <5> DEFINE p == worker[w].pick.proxy
        <5>1. \A q \in Proxies : /\ Freed(w, p)[q].status = row[q].status
                                 /\ Freed(w, p)[q].until = row[q].until
          BY <1>1 DEF Freed, Unassigned, Rows
        <5>2. Freed(w, p) \in [Proxies -> Rows]
          <6>1. \A r \in Rows : Unassigned(r) \in Rows
            BY DEF Unassigned, Rows, Time
          <6> QED
            BY <1>1, <6>1 DEF Freed
        <5>3. \/ row' = Freed(w, p)
              \/ \E at, stamp : row' = [Freed(w, p) EXCEPT
                     ![p] = [@ EXCEPT !.holder = w, !.heldAt = at, !.rotated = stamp]]
          BY <4>1 DEF Claim
        <5>4. \A r \in Rows : \A at, stamp :
                LET x == [r EXCEPT !.holder = w, !.heldAt = at, !.rotated = stamp]
                IN  x.status = r.status /\ x.until = r.until
          BY DEF Rows
        <5>5. CASE row' = Freed(w, p)
          BY <5>1, <5>5
        <5>6. ASSUME NEW at, NEW stamp,
                     row' = [Freed(w, p) EXCEPT ![p] =
                               [@ EXCEPT !.holder = w, !.heldAt = at, !.rotated = stamp]]
              PROVE  \A q \in Proxies : row'[q].status = row[q].status
                                       /\ row'[q].until = row[q].until
          <6> DEFINE f == Freed(w, p)
          <6>1. f \in [Proxies -> Rows]
            BY <5>2
          <6>2. row' = [f EXCEPT ![p] = [f[p] EXCEPT !.holder = w, !.heldAt = at,
                                                     !.rotated = stamp]]
            BY <5>6
          <6>3. \A q \in Proxies : row'[q].status = f[q].status /\ row'[q].until = f[q].until
            <7> HIDE DEF f, p
            <7> QED
              BY <5>4, <6>1, <6>2
          <6> QED
            BY <5>1, <6>3
        <5> QED
          BY <5>3, <5>5, <5>6
      <4>2. CASE Close(w)
        <5>1. \A q \in Proxies : /\ Unassigned(row[q]).status = row[q].status
                                 /\ Unassigned(row[q]).until = row[q].until
          BY <1>1 DEF Unassigned, Rows
        <5>2. \/ row' = row
              \/ \E p \in Proxies : row' = [row EXCEPT ![p] = Unassigned(row[p])]
          BY <1>1, <4>2 DEF Close, Catalogue
        <5> QED
          BY <1>1, <5>1, <5>2
      <4> QED
        BY <2>6, <4>1, <4>2
    <3> QED
      BY <2>1, <3>1, <3>2 DEF WindowInv, Coherent
  <2>7. CASE ClaimFails(w)
    BY <1>3, <2>1, <2>5, <2>7 DEF ClaimFails
  <2>8. ASSUME NEW s \in TrafficSamples, ReportRead(w, s) PROVE rows /\ workers
    <3> DEFINE v == Verdict(row[worker[w].lease], s, clock)
               x == [worker[w] EXCEPT !.pc = "write", !.verdict = v]
    <3>1. Coherent(v)
      BY <1>1, <2>8, VerdictCoherent, PoolAssumption DEF ReportRead, Catalogue, WindowInv
    <3>2. worker' = [worker EXCEPT ![w] = x]
      BY <1>1, <2>8 DEF ReportRead, WorkerStates
    <3>3. x.verdict = v
      BY <1>1 DEF WorkerStates
    <3> HIDE DEF x, v
    <3> QED
      BY <1>3, <2>2, <2>8, <3>1, <3>2, <3>3 DEF ReportRead
  <2>9. CASE ReportWrite(w)
    <3>1. worker[w].verdict \in Verdicts /\ Coherent(worker[w].verdict)
      BY <1>1, <2>9 DEF ReportWrite, TypeInv, InsideCalls, WindowInv
    <3>2. rows
      BY <1>2, <2>9, <3>1 DEF ReportWrite
    <3>3. worker'[w].pc # "write" /\ \A u \in Workers : u # w => worker'[u] = worker[u]
      BY <1>1, <2>9 DEF ReportWrite, StartedWorker, WorkerStates
    <3> QED
      BY <2>1, <3>2, <3>3 DEF WindowInv
  <2>10. CASE CheckStatus(w) \/ Crash(w)
    <3>1. worker'[w].pc # "write" /\ \A u \in Workers : u # w => worker'[u] = worker[u]
      BY <1>1, <2>10 DEF CheckStatus, Crash, StartedWorker, StoppedWorker, WorkerStates
    <3>2. row' = row
      BY <2>10 DEF CheckStatus, Crash
    <3> QED
      BY <1>3, <2>1, <3>1, <3>2 DEF WindowInv
  <2> QED
    BY <1>4, <2>1, <2>4, <2>6, <2>7, <2>8, <2>9, <2>10 DEF WorkerStep
<1>5. ASSUME ProberStep PROVE rows /\ workers /\ probes
  <2>1. workers
    BY <1>5 DEF ProberStep, BeginPass, Resolve, ProbeRead, ProbeWrite, WindowInv
  <2>2. ASSUME NextDue PROVE probes
    BY <2>2 DEF NextDue, IdleProber
  <2>3. CASE BeginPass \/ Resolve
    <3>1. prober'.pc # "write" /\ row' = row
      BY <1>1, <2>3 DEF BeginPass, Resolve, IdleProber, TypeInv, TypeOK
    <3> QED
      BY <1>3, <2>1, <3>1
  <2>4. ASSUME NEW s \in ProbeSamples \cup {Unreachable}, ProbeRead(s)
        PROVE  rows /\ probes
    <3> DEFINE p == Head(prober.due)
    <3>1. s \in Sample
      <4>1. Unreachable \in Sample
        BY DEF Unreachable, Sample, Source
      <4> QED
        BY <4>1, PoolAssumption
    <3>2. CASE p \in Catalogue
      <4>1. Coherent(Verdict(row[p], s, clock))
        BY <1>1, <3>1, <3>2, VerdictCoherent DEF Catalogue, WindowInv
      <4>2. prober' = [prober EXCEPT !.pc = "write", !.verdict = Verdict(row[p], s, clock)]
        BY <2>4, <3>2 DEF ProbeRead
      <4>3. prober'.verdict = Verdict(row[p], s, clock)
        BY <1>1, <4>2 DEF TypeInv, TypeOK
      <4> QED
        BY <1>3, <2>4, <4>1, <4>3 DEF ProbeRead
    <3>3. CASE p \notin Catalogue
      BY <1>3, <2>2, <2>4, <3>3 DEF ProbeRead
    <3> QED
      BY <3>2, <3>3
  <2>5. CASE ProbeWrite
    <3>1. prober.verdict \in Verdicts /\ Coherent(prober.verdict)
      BY <1>1, <2>5 DEF ProbeWrite, TypeInv, InsideCalls, WindowInv
    <3> QED
      BY <1>2, <2>1, <2>2, <2>5, <3>1 DEF ProbeWrite
  <2> QED
    BY <1>5, <2>1, <2>3, <2>4, <2>5 DEF ProberStep
<1>6. ASSUME NEW p \in Administered, AdminStep(p) PROVE rows /\ workers /\ probes
  <2>1. workers /\ probes
    BY <1>6 DEF AdminStep, Create, Remove, SetEnabled, WindowInv
  <2>2. \A q \in Proxies :
          \/ row'[q] = FreshRow
          \/ row'[q].status = row[q].status /\ row'[q].until = row[q].until
    BY <1>1, <1>6 DEF AdminStep, Create, Remove, SetEnabled, Rows
  <2> QED
    BY <2>1, <2>2 DEF WindowInv, Coherent, FreshRow
<1>7. ASSUME RestartScheduler \/ Tick \/ UNCHANGED vars
      PROVE  rows /\ workers /\ probes
  BY <1>3, <1>7 DEF RestartScheduler, Tick, vars, IdleProber, WindowInv
<1>8. rows /\ workers /\ probes
  BY <1>4, <1>5, <1>6, <1>7 DEF Next
<1> QED
  BY <1>1, <1>8 DEF WindowInv

\* However reports, probes and admin calls overwrite each other, a QUARANTINED
\* row has the end of its rest and an ACTIVE one has none.
THEOREM WindowTheorem == Spec => []WindowMatchesStatus
<1>1. WindowInv => WindowMatchesStatus
  BY DEF WindowInv, WindowMatchesStatus, Coherent
<1> QED
  BY <1>1, WindowInit, WindowStep, PTL DEF Spec
=============================================================================

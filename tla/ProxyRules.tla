----------------------------- MODULE ProxyRules -----------------------------
(***************************************************************************)
(* The decisions of the egress pool that touch no database: which proxy a  *)
(* worker gets (packages/proxy/src/rotation.ts), what one health sample    *)
(* means (quarantine.ts) and the row recordHealth writes (pool.ts).        *)
(*                                                                         *)
(* A row of the table proxies is a record                                  *)
(*   enabled, status, health, failures    enabled .. consecutive_failures  *)
(*   until, offences      quarantined_until, quarantine_count              *)
(*   budget               rate_budget_multiplier_pct                       *)
(*   probeAfter, sampled  probe_after, last_success_at or last_failure_at  *)
(*   holder, heldAt       assigned_worker_id, assigned_at                  *)
(*   rotated              last_rotated_at                                  *)
(* and a sample says of one request through the proxy whether it went      *)
(* well and which signals decideQuarantine would see in it.  Times are     *)
(* natural numbers; NoTime is SQL's NULL and before all of them.           *)
(***************************************************************************)
EXTENDS Integers, FiniteSets

CONSTANTS RestBase,       \* DEFAULT_REST_SECONDS
          RestCap,        \* MAX_REST_SECONDS
          DeadAfter,      \* DEAD_AFTER_CONSECUTIVE_FAILURES
          Gain, Loss,     \* health points per source of a good, a bad sample
          MinHealth,      \* PROXY_MIN_HEALTH_SCORE
          Rotation,       \* rotation_seconds
          ProbeInterval,  \* PROXY_PROBE_INTERVAL_SECONDS
          NoWorker

Source == {"PROBE", "TRAFFIC"}
Status == {"ACTIVE", "QUARANTINED", "DEAD"}

ASSUME RulesAssumption ==
  /\ RestBase \in Nat \ {0} /\ RestCap \in Nat \ {0} /\ RestBase <= RestCap
  /\ DeadAfter \in Nat /\ DeadAfter >= 2
  /\ Gain \in [Source -> Nat] /\ Loss \in [Source -> Nat]
  /\ MinHealth \in 0 .. 100 /\ Rotation \in Nat /\ ProbeInterval \in Nat

NoTime == -1
Time   == Nat \cup {NoTime}

\* No decision tells apart counts beyond these: 2^min(count, 4), count >= 5.
OffenceCap == 4
FailureCap == DeadAfter

Sample == [source : Source, ok : BOOLEAN, rateLimited : BOOLEAN,
           blockPage : BOOLEAN, captcha : BOOLEAN, authish : BOOLEAN]

Lesser(i, j)     == IF i < j THEN i ELSE j
Greater(i, j)    == IF i < j THEN j ELSE i
Passed(t, now)   == t # NoTime /\ t <= now
-----------------------------------------------------------------------------
(* quarantine.ts *)

\* 2 ** 0 .. 2 ** 4.
Backoff == <<1, 2, 4, 8, 16>>

RestWindow(base, offences) ==
  Lesser(base * Backoff[1 + Lesser(offences, 4)], RestCap)

\* Math.round(pct / 2), not below floor(100 / 8).
Tightened(pct) == Greater((pct + 1) \div 2, 12)

\* failures is the counter with the sample at hand already counted.
RestsDouble(s, failures) ==
  s.rateLimited \/ s.blockPage \/ (s.captcha /\ failures >= 1)

RestsSingle(s, failures) ==
  ~s.captcha /\ ~s.ok /\ s.authish /\ failures + 1 >= 3

Resting(base, r, now) ==
  [quarantine |-> TRUE, until |-> now + RestWindow(base, r.offences),
   budget |-> Tightened(r.budget)]

Decide(s, failures, r, now) ==
  IF RestsDouble(s, failures) THEN Resting(2 * RestBase, r, now)
  ELSE IF RestsSingle(s, failures) THEN Resting(RestBase, r, now)
  ELSE [quarantine |-> FALSE, until |-> NoTime, budget |-> r.budget]

\* Mutant: a success doubles the budget without a ceiling.
RestoredUncapped(pct) == 2 * pct

Restored(pct) == Lesser(100, 2 * pct)

NextHealth(health, s) ==
  IF s.ok THEN Lesser(100, health + Gain[s.source])
          ELSE Greater(0, health - Loss[s.source])

ShouldMarkDead(failures, s) ==
  ~s.ok /\ (s.authish \/ s.blockPage) /\ failures >= DeadAfter
-----------------------------------------------------------------------------
(* rotation.ts *)

IsQuarantined(r, now) == r.status = "QUARANTINED" \/ r.until > now

Eligible(r, now) ==
  /\ r.enabled /\ ~IsQuarantined(r, now)
  /\ r.status # "DEAD"
  /\ r.health >= MinHealth

RotationDue(r, now) == r.rotated = NoTime \/ now - r.rotated >= Rotation

\* compareCandidates: healthier, then longer since its rotation, then by id.
Before(p, q, rows) ==
  \/ rows[p].health > rows[q].health
  \/ /\ rows[p].health = rows[q].health
     /\ \/ rows[p].rotated < rows[q].rotated
        \/ rows[p].rotated = rows[q].rotated /\ p < q

\* What selectProxy picks for w among the ids in catalogue: at most one proxy,
\* as Before is a total order; stamp is what the claim writes to
\* last_rotated_at.
SelectProxy(w, catalogue, rows, now) ==
  LET eligible == {p \in catalogue : Eligible(rows[p], now)}
      mine     == {p \in eligible : rows[p].holder = w}
      kept     == {p \in mine : ~RotationDue(rows[p], now)}
      pool     == IF eligible = mine THEN mine ELSE eligible \ mine
      first    == {p \in pool : \A q \in pool \ {p} : Before(p, q, rows)}
  IN  IF kept # {} THEN {[proxy |-> p, stamp |-> rows[p].rotated] : p \in kept}
                   ELSE {[proxy |-> p, stamp |-> now] : p \in first}
-----------------------------------------------------------------------------
(* pool.ts *)

NextProbeAfter(r, quarantine, now) ==
  (IF quarantine /\ r.until > now THEN r.until ELSE now) + ProbeInterval

\* Mutant: recovery forgets to clear the window.
NextUntilKept(r, until, rests, okProbe) == IF rests THEN until ELSE r.until

NextUntil(r, until, rests, okProbe) ==
  IF rests THEN until ELSE IF okProbe THEN NoTime ELSE r.until

\* The columns recordHealth writes for sample s after reading row r at now.
Verdict(r, s, now) ==
  LET failures == IF s.ok THEN 0 ELSE Lesser(r.failures + 1, FailureCap)
      resting  == r.until > now
      okProbe  == s.ok /\ s.source = "PROBE"
      d        == Decide(s, failures, r, now)
      rests    == d.quarantine /\ ~(resting /\ okProbe)
      dead     == ~resting /\ ShouldMarkDead(failures, s)
  IN  [health     |-> NextHealth(r.health, s),
       failures   |-> failures,
       status     |-> IF dead THEN "DEAD"
                      ELSE IF rests THEN "QUARANTINED"
                      ELSE IF r.status = "QUARANTINED" /\ okProbe THEN "ACTIVE"
                      ELSE r.status,
       until      |-> NextUntil(r, d.until, rests, okProbe),
       offences   |-> IF rests THEN Lesser(r.offences + 1, OffenceCap)
                               ELSE r.offences,
       budget     |-> IF rests THEN d.budget
                      ELSE IF s.ok THEN Restored(r.budget) ELSE r.budget,
       probeAfter |-> NextProbeAfter(r, rests, now),
       frees      |-> rests]

\* The UPDATE of recordHealth: absolute values, whatever the row holds by now.
Apply(r, v) ==
  [enabled |-> r.enabled, status |-> v.status, health |-> v.health,
   failures |-> v.failures, until |-> v.until, offences |-> v.offences,
   budget |-> v.budget, probeAfter |-> v.probeAfter, sampled |-> TRUE,
   holder |-> IF v.frees THEN NoWorker ELSE r.holder,
   heldAt |-> IF v.frees THEN NoTime ELSE r.heldAt,
   rotated |-> r.rotated]

\* Mutant: the query asks for ACTIVE rows instead of rows that are not DEAD.
DueForProbeActive(r, now) ==
  /\ r.enabled
  /\ r.status = "ACTIVE"
  /\ Passed(r.until, now) \/ Passed(r.probeAfter, now) \/ ~r.sampled

\* PROXIES_DUE_FOR_PROBE_SQL of selector.sql.ts.
DueForProbe(r, now) ==
  /\ r.enabled
  /\ r.status # "DEAD"
  /\ Passed(r.until, now) \/ Passed(r.probeAfter, now) \/ ~r.sampled
=============================================================================

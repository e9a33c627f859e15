--------------------------- MODULE DecisionProofs ----------------------------
(***************************************************************************)
(* Proofs about the pure functions, for every question, whatever the       *)
(* constants are.                                                          *)
(***************************************************************************)
EXTENDS MCDecisions, TLAPS, FiniteSetTheorems

-----------------------------------------------------------------------------
(* Quotients and rounding *)

LEMMA DivisionBounds ==
  ASSUME NEW x \in Int, NEW d \in Nat \ {0}
  PROVE  /\ x \div d \in Int
         /\ (x \div d) * d <= x
         /\ x < (x \div d) * d + d
         /\ x >= 0 => x \div d >= 0
  OBVIOUS

LEMMA ProductGrows ==
  ASSUME NEW a \in Int, NEW b \in Int, a <= b, NEW d \in Nat
  PROVE  a * d \in Int /\ b * d \in Int /\ a * d <= b * d
<1>1. (b - a) * d >= 0
  OBVIOUS
<1>2. (b - a) * d = b * d - a * d
  OBVIOUS
<1> QED
  BY <1>1, <1>2

LEMMA QuotientGrows ==
  ASSUME NEW x \in Int, NEW y \in Int, x <= y, NEW d \in Nat \ {0}
  PROVE  x \div d \in Int /\ y \div d \in Int /\ x \div d <= y \div d
<1>1. x \div d \in Int /\ y \div d \in Int
  BY DivisionBounds
<1>2. (x \div d) * d < (y \div d) * d + d
  BY DivisionBounds
<1> SUFFICES ASSUME (y \div d) + 1 <= x \div d PROVE FALSE
  BY <1>1
<1>3. ((y \div d) + 1) * d <= (x \div d) * d
  BY <1>1, ProductGrows
<1>4. ((y \div d) + 1) * d = (y \div d) * d + d
  BY <1>1
<1> QED
  BY <1>1, <1>2, <1>3, <1>4

LEMMA RoundingGrows ==
  ASSUME NEW x \in Int, NEW y \in Int, x <= y, NEW d \in Nat \ {0}
  PROVE  RoundDiv(x, d) \in Int /\ RoundDiv(y, d) \in Int /\ RoundDiv(x, d) <= RoundDiv(y, d)
<1>1. 2 * x + d \in Int /\ 2 * y + d \in Int /\ 2 * x + d <= 2 * y + d /\ 2 * d \in Nat \ {0}
  OBVIOUS
<1> QED
  BY <1>1, QuotientGrows DEF RoundDiv
-----------------------------------------------------------------------------
(* Wall clocks *)

LEMMA OffsetOfZone ==
  ASSUME NEW zone \in Zones, NEW instant \in Int
  PROVE  /\ ZoneOffset(zone, instant) \in {zone.standard, zone.summer}
         /\ ZoneOffset(zone, instant) \in Int
  BY TimeAssumption DEF Zones, ZoneOffset

\* The two passes of zonedDateTimeToUtc find an instant that shows the local
\* time, if there is one, for every zone of two offsets, every change between
\* them and every local time (time.ts:158).
THEOREM WallClockRoundTripHolds == question \in ClockQuestions => WallClockRoundTrip
<1> SUFFICES ASSUME question \in ClockQuestions,
                    Shown(question.zone, question.local)
             PROVE  WallClock(question.zone, ZonedToUtc(question.zone, question.local))
                      = question.local
  BY DEF WallClockRoundTrip
<1> DEFINE zone == question.zone
           local == question.local
<1>1. /\ zone \in Zones /\ local \in Int
      /\ zone.standard \in Int /\ zone.summer \in Int
      /\ zone.from \in Int /\ zone.until \in Int
  BY TimeAssumption DEF ClockQuestions, Zones
<1>2. PICK offset \in {zone.standard, zone.summer} : WallClock(zone, local - offset) = local
  BY DEF Shown
<1>3. offset \in Int /\ ZoneOffset(zone, local - offset) = offset
  <2>1. offset \in Int /\ local - offset \in Int
    BY <1>1, <1>2
  <2>2. ZoneOffset(zone, local - offset) \in Int
    BY <1>1, <2>1, OffsetOfZone
  <2>3. (local - offset) + ZoneOffset(zone, local - offset) = local
    BY <1>2 DEF WallClock
  <2> HIDE DEF zone, local
  <2> QED
    BY <1>1, <2>1, <2>2, <2>3
<1> QED
  BY <1>1, <1>3 DEF WallClock, ZonedToUtc, FirstGuess, ZoneOffset
-----------------------------------------------------------------------------
(* Access *)

\* What the parts of a question are.
LEMMA StatementIsTyped ==
  ASSUME NEW s \in AccessQuestions
  PROVE  /\ s.verb \in Verbs /\ s.platform \in BOOLEAN /\ s.listed \in BOOLEAN
         /\ s.staff \in BOOLEAN /\ (s.platform => s.verb = "find")
         /\ s.condition \in Seq(Alternatives) /\ Len(s.condition) \in Nat \ {0}
         /\ DOMAIN s.condition = 1 .. Len(s.condition)
         /\ \A i \in 1 .. Len(s.condition) : s.condition[i] \in Alternatives
<1>1. s.condition \in Seq(Alternatives) \ {<<>>}
  BY ConditionsAssumption DEF AccessQuestions
<1>2. /\ s.verb \in Verbs /\ s.platform \in BOOLEAN /\ s.listed \in BOOLEAN
      /\ s.staff \in BOOLEAN /\ (s.platform => s.verb = "find")
  BY DEF AccessQuestions
<1> QED
  BY <1>1, <1>2

\* A list keeps every alternative but the first, which gets the tenant.
LEMMA ListedCondition ==
  ASSUME NEW c \in Seq(Alternatives), c # <<>>
  PROVE  /\ DOMAIN InList(c) = 1 .. Len(c) /\ Len(c) \in Nat \ {0}
         /\ InList(c)[1] = [c[1] EXCEPT !.tests = @ \cup {"own"}]
         /\ "own" \in InList(c)[1].tests
         /\ \A i \in 2 .. Len(c) : InList(c)[i] = c[i]
<1>1. Len(c) \in Nat \ {0} /\ DOMAIN c = 1 .. Len(c) /\ c[1] \in Alternatives
  OBVIOUS
<1>2. InList(c) = [i \in 1 .. Len(c) |->
                     IF i = 1 THEN [c[1] EXCEPT !.tests = @ \cup {"own"}] ELSE c[i]]
  BY <1>1 DEF InList
<1>3. DOMAIN InList(c) = 1 .. Len(c)
  BY <1>2
<1>4. InList(c)[1] = [c[1] EXCEPT !.tests = @ \cup {"own"}]
  <2>1. 1 \in 1 .. Len(c)
    BY <1>1
  <2> QED
    BY <1>2, <2>1
<1>5. "own" \in InList(c)[1].tests
  BY <1>1, <1>4 DEF Alternatives
<1>6. \A i \in 2 .. Len(c) : InList(c)[i] = c[i]
  BY <1>1, <1>2
<1> QED
  BY <1>1, <1>3, <1>4, <1>5, <1>6

\* For all tenants, rows, roles and conditions, a statement leaves its tenant only
\* where the property says.
THEOREM TenantLeftOnlyByConditionHolds ==
  question \in AccessQuestions => TenantLeftOnlyByCondition
<1> SUFFICES ASSUME question \in AccessQuestions PROVE TenantLeftOnlyByCondition
  OBVIOUS
<1> DEFINE s == question
           c == s.condition
           foreign == {r \in Touches(s) : RowTenant[r] # s.requested}
           loose == /\ \E i \in DOMAIN c : "own" \notin c[i].tests
                    /\ s.listed => \E i \in DOMAIN c : c[i].tests # {}
<1>1. /\ s.verb \in Verbs /\ s.platform \in BOOLEAN /\ s.listed \in BOOLEAN
      /\ s.staff \in BOOLEAN /\ (s.platform => s.verb = "find")
      /\ c \in Seq(Alternatives) /\ c # <<>> /\ Len(c) \in Nat \ {0}
      /\ DOMAIN c = 1 .. Len(c)
  BY StatementIsTyped
<1>2. s.verb = "list" => Where(s) = InList(c)
  BY DEF Where
<1>3. /\ DOMAIN InList(c) = 1 .. Len(c)
      /\ "own" \in InList(c)[1].tests
      /\ \A i \in 2 .. Len(c) : InList(c)[i] = c[i]
  BY <1>1, ListedCondition
<1>4. s.verb \in {"find", "update", "delete"} => Where(s) = ById(s.platform, s.row)
  BY DEF Where
<1>5. s.verb # "raw" => ScopeAsserted(s)
  <2>1. CASE s.verb = "list"
    <3>1. 1 \in DOMAIN Where(s) /\ "own" \in Where(s)[1].tests
      BY <1>1, <1>2, <1>3, <2>1
    <3> QED
      BY <3>1 DEF ScopeAsserted
  <2>2. CASE s.verb \in {"find", "update", "delete"}
    <3>1. ~s.platform => 1 \in DOMAIN Where(s) /\ Where(s)[1].tests = {"own"}
      BY <1>4, <2>2 DEF ById
    <3> QED
      BY <3>1 DEF ScopeAsserted
  <2> QED
    BY <1>1, <2>1, <2>2 DEF Verbs
<1>6. s.verb \in {"find", "update", "delete"} /\ ~s.platform => foreign = {}
  <2> SUFFICES ASSUME s.verb \in {"find", "update", "delete"}, ~s.platform,
                      NEW r \in Touches(s)
               PROVE  RowTenant[r] = s.requested
    OBVIOUS
  <2>1. PICK i \in DOMAIN Where(s) : r \in Admitted(Where(s)[i], s.requested)
    BY DEF Touches
  <2>2. "own" \in Where(s)[i].tests
    BY <1>4, <2>1 DEF ById
  <2> QED
    BY <2>1, <2>2 DEF Admitted
<1>7. s.verb = "list" => foreign = LeftOpen(s)
  <2> SUFFICES ASSUME s.verb = "list" PROVE foreign = LeftOpen(s)
    OBVIOUS
  <2>1. Touches(s) = UNION {Admitted(InList(c)[i], s.requested) : i \in 1 .. Len(c)}
    BY <1>2, <1>5, <1>3 DEF Touches
  <2>2. ASSUME NEW r \in Admitted(InList(c)[1], s.requested)
        PROVE  RowTenant[r] = s.requested
    BY <1>3 DEF Admitted
  <2>3. \A i \in 2 .. Len(c) : InList(c)[i] = c[i]
    BY <1>3
  <2>4. ASSUME NEW r \in foreign PROVE r \in LeftOpen(s)
    <3>1. PICK i \in 1 .. Len(c) : r \in Admitted(InList(c)[i], s.requested)
      BY <2>1
    <3>2. i # 1
      BY <2>2, <3>1
    <3> QED
      BY <1>1, <2>3, <3>1, <3>2 DEF LeftOpen, Admitted
  <2>5. ASSUME NEW r \in LeftOpen(s) PROVE r \in foreign
    <3>1. PICK i \in 2 .. Len(c) : r \in Admitted(c[i], s.requested)
      BY DEF LeftOpen
    <3>2. i \in 1 .. Len(c) /\ r \in Admitted(InList(c)[i], s.requested)
      BY <1>1, <2>3, <3>1
    <3> QED
      BY <2>1, <3>2 DEF LeftOpen
  <2> QED
    BY <2>4, <2>5
<1>8. s.verb = "raw" /\ foreign # {} => loose
  <2> SUFFICES ASSUME s.verb = "raw", NEW r \in Touches(s), RowTenant[r] # s.requested
               PROVE  loose
    OBVIOUS
  <2>1. Where(s) = c
    BY DEF Where
  <2>2. ScopeAsserted(s)
    BY DEF Touches
  <2>3. PICK i \in DOMAIN c : r \in Admitted(c[i], s.requested)
    BY <2>1 DEF Touches
  <2>4. "own" \notin c[i].tests
    BY <2>3 DEF Admitted
  <2>5. s.listed => \E k \in DOMAIN c : c[k].tests # {}
    BY <1>1, <2>1, <2>2 DEF ScopeAsserted
  <2> QED
    BY <2>3, <2>4, <2>5
<1>9. ASSUME Authorized(s, s.requested, s.permission),
             NEW r \in Touches(s), RowTenant[r] # s.tenant
      PROVE  \/ s.platform
             \/ s.staff /\ (Can(s, "audit:read") \/ Can(s, "system:superuser"))
             \/ s.verb = "list" /\ LeftOpen(s) # {}
             \/ s.verb = "raw" /\ loose
  <2>1. CASE s.staff
    BY <1>9, <2>1 DEF Authorized, TenantAccess
  <2>2. CASE ~s.staff
    <3>1. s.tenant = s.requested
      BY <1>9, <2>2 DEF Authorized, TenantAccess
    <3>2. foreign # {}
      BY <1>9, <3>1
    <3> QED
      BY <1>1, <1>6, <1>7, <1>8, <3>2 DEF Verbs
  <2> QED
    BY <1>1, <2>1, <2>2
<1> HIDE DEF foreign, loose
<1>10. ASSUME Authorized(s, s.requested, s.permission) /\ \E r \in Touches(s) : RowTenant[r] # s.tenant
      PROVE  \/ s.platform
             \/ s.staff /\ (Can(s, "audit:read") \/ Can(s, "system:superuser"))
             \/ s.verb = "list" /\ LeftOpen(s) # {}
             \/ s.verb = "raw" /\ loose
  BY <1>9, <1>10
<1> QED
  BY <1>5, <1>6, <1>7, <1>8, <1>10, Zenon DEF TenantLeftOnlyByCondition, foreign, loose
-----------------------------------------------------------------------------
(* The gates *)

LEMMA SearchAllowed ==
  ASSUME NEW s \in Signals, GuardsAllow(s, "SEARCH")
  PROVE  s.compliance # "PROHIBITED" /\ s.enabled /\ s.breaker # "OPEN" /\ ReadsMaintained(s)
<1>1. SearchFailures(s) = {}
  BY DEF GuardsAllow, GuardFailures
<1> QED
  BY <1>1 DEF SearchFailures, Signals

LEMMA WriteAllowed ==
  ASSUME NEW s \in Signals, NEW action \in {"RESERVE", "PAY"}
  PROVE  /\ GuardsAllow(s, action) <=>
              /\ ~s.dryRun /\ s.compliance = "APPROVED" /\ s.autoBooking
              /\ s.enabled /\ s.breaker # "OPEN" /\ s.global
              /\ s.mode \notin {"MONITOR_ONLY", "AUTO_FILL"}
              /\ ConsentNeeded(s, action) => s.consent
              /\ s.charge /\ s.lock /\ s.account = "ACTIVE" /\ s.rate /\ ReadsMaintained(s)
         /\ s.dryRun => "dryRunOff" \in GuardFailures(s, action)
<1>1. GuardFailures(s, action) = WriteFailures(s, action)
  BY DEF GuardFailures
<1>2. s.dryRun => "dryRunOff" \in WriteFailures(s, action)
  BY DEF WriteFailures
<1>3. ASSUME WriteFailures(s, action) = {}
      PROVE  /\ ~s.dryRun /\ s.compliance = "APPROVED" /\ s.autoBooking
             /\ s.enabled /\ s.breaker # "OPEN" /\ s.global
             /\ s.mode \notin {"MONITOR_ONLY", "AUTO_FILL"}
             /\ ConsentNeeded(s, action) => s.consent
             /\ s.charge /\ s.lock /\ s.account = "ACTIVE" /\ s.rate /\ ReadsMaintained(s)
  BY <1>3, Zenon DEF WriteFailures
<1>4. ASSUME /\ ~s.dryRun /\ s.compliance = "APPROVED" /\ s.autoBooking
             /\ s.enabled /\ s.breaker # "OPEN" /\ s.global
             /\ s.mode \notin {"MONITOR_ONLY", "AUTO_FILL"}
             /\ ConsentNeeded(s, action) => s.consent
             /\ s.charge /\ s.lock /\ s.account = "ACTIVE" /\ s.rate /\ ReadsMaintained(s)
      PROVE  WriteFailures(s, action) = {}
  BY <1>4, Zenon DEF WriteFailures
<1> QED
  BY <1>1, <1>2, <1>3, <1>4 DEF GuardsAllow

\* The two gates differ where the property says and nowhere else, for every set
\* of signals, adapter, list of blocked operations and pair of flags, and whatever
\* modes, breakers and accounts there are besides those the code names.
THEOREM GatesAgreeHolds == question \in Signals => GatesAgree
<1> SUFFICES ASSUME question \in Signals PROVE GatesAgree
  OBVIOUS
<1>1. StagesNest(question)
  <2>1. GuardsAllow(question, "RESERVE") => GuardsAllow(question, "SEARCH")
    <3> SUFFICES ASSUME GuardsAllow(question, "RESERVE") PROVE SearchFailures(question) = {}
      BY DEF GuardsAllow, GuardFailures
    <3>1. /\ question.compliance = "APPROVED" /\ question.enabled
          /\ question.breaker # "OPEN" /\ ReadsMaintained(question)
      BY WriteAllowed
    <3> QED
      BY <3>1 DEF SearchFailures
  <2> QED
    BY <2>1, WriteAllowed DEF StagesNest, ConsentNeeded
<1>2. ASSUME question.dryRun, NEW action \in {"RESERVE", "PAY"}
      PROVE  GuardCode(question, action) = "DRY_RUN_BLOCKED"
  BY <1>2, WriteAllowed DEF GuardCode
<1>3. ASSUME NEW action \in ActionStages, NEW a \in AsAdapter(question),
             GuardsAllow(question, action)
      PROVE  /\ \A op \in StageOperations(action), context \in Contexts(question) :
                  OperationAllowed(a.status, a.blocked, op, context) <=>
                    /\ op \notin a.blocked /\ ~context.killSwitch
                    /\ action = "PAY" => context.automationEnabled
             /\ a \in Searchable(Adapters)
             /\ action # "SEARCH" => ~a.thirdParty /\ a.captcha # "ALWAYS" /\ MatrixHolds(a)
  <2>1. /\ a \in Registered(Adapters) /\ Consistent(a) /\ a \in Adapters
        /\ a.status = question.compliance /\ a.autoBooking = question.autoBooking
    BY DEF AsAdapter, Registered
  <2>2. CASE action = "SEARCH"
    <3>1. a.status # "PROHIBITED"
      BY <1>3, <2>1, <2>2, SearchAllowed
    <3>2. \A op \in StageOperations(action) : Risk(op) = "READ"
      BY <2>2 DEF StageOperations, Risk
    <3> QED
      BY <2>1, <2>2, <3>1, <3>2 DEF Searchable, OperationAllowed, KillSwitchStops
  <2>3. CASE action \in {"RESERVE", "PAY"}
    <3>1. /\ ~question.dryRun /\ a.status = "APPROVED" /\ a.autoBooking
      BY <1>3, <2>1, <2>3, WriteAllowed
    <3>2. \A op \in StageOperations(action) : Risk(op) = "AUTOMATION" <=> action = "PAY"
      BY <2>3 DEF StageOperations, Risk
    <3>3. \A context \in Contexts(question) : ~context.dryRun
      BY <3>1 DEF Contexts
    <3> QED
      BY <2>1, <2>3, <3>1, <3>2, <3>3
      DEF Searchable, OperationAllowed, KillSwitchStops, Consistent, MatrixHolds
  <2> QED
    BY <2>2, <2>3 DEF ActionStages
<1>4. ASSUME question.dryRun, NEW op \in Operations, NEW blocked \in Blockings,
             NEW context \in Contexts(question), Risk(op) # "READ"
      PROVE  OperationCode(question.compliance, blocked, op, context) = "DRY_RUN_BLOCKED"
  BY <1>4 DEF OperationCode, OperationAllowed, Contexts
<1>5. ASSUME NEW op \in Operations
      PROVE  WarmupAllows("WARMUP", Risk(op)) <=>
               OperationAllowed("APPROVED", {}, op,
                 [dryRun |-> TRUE, killSwitch |-> FALSE, automationEnabled |-> TRUE])
  BY DEF WarmupAllows, OperationAllowed, KillSwitchStops, Risk, Operations
<1>6. GatesDiffer(question)
  BY <1>3, Zenon DEF GatesDiffer
<1>7. DryRunIsNamed(question)
  BY <1>2, <1>4, Zenon DEF DryRunIsNamed
<1> QED
  BY <1>1, <1>5, <1>6, <1>7, Zenon DEF GatesAgree
-----------------------------------------------------------------------------
(* Configuration *)

\* Of the environments loadConfig accepts, only one in production, confirmed
\* and with its own secrets and keys, can get a write past the guards.
THEOREM OnlyProductionSubmitsHolds == question \in Environments => OnlyProductionSubmits
<1> SUFFICES ASSUME question \in Environments, Starts(question)
             PROVE  OnlyProductionSubmits
  BY DEF OnlyProductionSubmits
<1> DEFINE env == question
<1>1. LiveProblems(env) = {} /\ (env.production => ProductionProblems(env) = {})
  BY DEF Starts, Problems
<1>2. ~env.dryRun => env.production /\ env.understood
  BY <1>1 DEF LiveProblems
<1>3. env.payment = "live" => Armed(env)
  BY <1>1 DEF LiveProblems
<1>4. env.production => env.strongSecrets /\ HasKeys(env)
  BY <1>1 DEF ProductionProblems
<1>5. ASSUME NEW action \in {"RESERVE", "PAY"}
      PROVE  GuardsAllow(BestSignals(env), action) <=> ~env.dryRun
  <2>1. env.dryRun \in BOOLEAN
    BY DEF Environments
  <2>2. "dryRunOff" \in WriteFailures(BestSignals(env), action) <=> env.dryRun
    BY DEF WriteFailures, BestSignals
  <2>3. WriteFailures(BestSignals(env), action) \subseteq {"dryRunOff"}
    BY DEF WriteFailures, BestSignals, ReadsMaintained, ConsentNeeded
  <2> QED
    BY <2>1, <2>2, <2>3 DEF GuardsAllow, GuardFailures
<1> QED
  BY <1>2, <1>3, <1>4, <1>5 DEF OnlyProductionSubmits, Armed
-----------------------------------------------------------------------------
(* Money *)

LEMMA HalfOf ==
  ASSUME NEW d \in Nat \ {0}
  PROVE  d \div 2 \in Nat /\ 2 * (d \div 2) <= d /\ d <= 2 * (d \div 2) + 1
  OBVIOUS

LEMMA MultiplyIsNearest ==
  ASSUME NEW amount \in Int, NEW numerator \in Int, NEW d \in Nat \ {0}
  PROVE  LET product == Multiply(amount, numerator, d)
             raw == amount * numerator
             error == product * d - raw IN
           /\ product \in Int
           /\ 2 * Magnitude(error) <= d
           /\ 2 * Magnitude(error) = d => Magnitude(product * d) > Magnitude(raw)
<1> DEFINE raw == amount * numerator
           half == d \div 2
           q == (Magnitude(raw) + half) \div d
           product == Multiply(amount, numerator, d)
<1>1. raw \in Int /\ half \in Nat /\ 2 * half <= d /\ d <= 2 * half + 1
  BY HalfOf
<1> HIDE DEF half
<1>2. product = IF raw < 0 THEN -q ELSE q
  BY DEF Multiply, half
<1> HIDE DEF raw, product
<1>3. Magnitude(raw) \in Nat /\ Magnitude(raw) + half \in Nat
  BY <1>1 DEF Magnitude
<1>4. q \in Nat /\ q * d <= Magnitude(raw) + half /\ Magnitude(raw) + half < q * d + d
  <2> DEFINE x == Magnitude(raw) + half
  <2>1. x \in Int /\ x >= 0 /\ q = x \div d
    BY <1>3
  <2> HIDE DEF x
  <2>2. x \div d \in Int /\ (x \div d) * d <= x /\ x < (x \div d) * d + d /\ x \div d >= 0
    BY <2>1, DivisionBounds
  <2> HIDE DEF q
  <2> QED
    BY <2>1, <2>2 DEF x
<1> HIDE DEF q
<1> DEFINE exact == q * d
<1>5. exact \in Nat /\ product \in Int /\ product * d = IF raw < 0 THEN -exact ELSE exact
  BY <1>1, <1>2, <1>4
<1>6. exact <= Magnitude(raw) + half /\ Magnitude(raw) + half < exact + d
  BY <1>4
<1> HIDE DEF exact
<1>7. Magnitude(product * d) = exact
  BY <1>5 DEF Magnitude
<1>8. Magnitude(product * d - raw) = Magnitude(exact - Magnitude(raw))
  BY <1>1, <1>5 DEF Magnitude
<1>9. 2 * Magnitude(exact - Magnitude(raw)) <= d
  BY <1>1, <1>3, <1>5, <1>6 DEF Magnitude
<1>10. 2 * Magnitude(exact - Magnitude(raw)) = d => exact > Magnitude(raw)
  BY <1>1, <1>3, <1>5, <1>6 DEF Magnitude
<1> QED
  BY <1>5, <1>7, <1>8, <1>9, <1>10 DEF product, raw

LEMMA MajorRoundTrip ==
  ASSUME NEW amount \in Int, NEW decimals \in {0, 2}
  PROVE  ParseMajor(MajorString(amount, decimals), decimals)
           = [refused |-> FALSE, amount |-> amount]
<1> DEFINE size == Magnitude(amount)
           string == MajorString(amount, decimals)
<1>1. size \in Nat /\ amount = (IF amount < 0 THEN -size ELSE size)
  BY DEF Magnitude
<1> HIDE DEF size
<1>2. CASE decimals = 0
  <2>1. string = [negative |-> amount < 0, unit |-> size, fraction |-> <<>>]
    BY <1>2 DEF MajorString, size
  <2>2. Len(string.fraction) = 0 /\ string.unit = size /\ string.negative = (amount < 0)
    BY <2>1
  <2> HIDE DEF string
  <2>3. ParseMajor(string, decimals)
          = [refused |-> FALSE, amount |-> IF string.negative THEN -size ELSE size]
    BY <1>2, <2>2 DEF ParseMajor
  <2> QED
    BY <1>1, <2>2, <2>3 DEF string
<1>3. CASE decimals = 2
  <2> DEFINE tens == (size % 100) \div 10
             ones == size % 10
  <2>1. string = [negative |-> amount < 0, unit |-> size \div 100, fraction |-> <<tens, ones>>]
    BY <1>3 DEF MajorString, size
  <2>2. size = 100 * (size \div 100) + 10 * tens + ones
    BY <1>1
  <2> HIDE DEF tens, ones
  <2>3. /\ Len(string.fraction) = 2 /\ string.unit = size \div 100
        /\ string.negative = (amount < 0)
        /\ string.fraction[1] = tens /\ string.fraction[2] = ones
    BY <2>1
  <2> HIDE DEF string
  <2>4. 1 <= Len(string.fraction) /\ 2 <= Len(string.fraction)
        /\ ~(Len(string.fraction) > decimals)
    BY <1>3, <2>3
  <2>5. ParseMajor(string, decimals)
          = [refused |-> FALSE, amount |-> IF string.negative THEN -size ELSE size]
    <3>1. size = 100 * string.unit + 10 * string.fraction[1] + string.fraction[2]
      BY <2>2, <2>3
    <3>2. decimals # 0
      BY <1>3
    <3> QED
      BY <2>4, <3>1, <3>2, Zenon DEF ParseMajor
  <2> QED
    BY <1>1, <2>3, <2>5 DEF string
<1> QED
  BY <1>2, <1>3

\* For all amounts, both kinds of currency and every fraction with a positive
\* denominator; of those money.ts:99 lets through, it says nothing of the negative.
THEOREM MoneyIsExactHolds == question \in MoneyQuestions => MoneyIsExact
<1> SUFFICES ASSUME question \in MoneyQuestions PROVE MoneyIsExact
  OBVIOUS
<1>1. /\ question.amount \in Int /\ question.numerator \in Int
      /\ question.denominator \in Nat \ {0} /\ question.decimals \in {0, 2}
  BY MoneyAssumption DEF MoneyQuestions
<1> QED
  BY <1>1, MultiplyIsNearest, MajorRoundTrip DEF MoneyIsExact, Product, Error
-----------------------------------------------------------------------------
(* Cadence *)

LEMMA PowersOfTwo ==
  ASSUME NEW m \in 0 .. 10, NEW n \in 0 .. 10, m <= n
  PROVE  2 ^ m \in Nat \ {0} /\ 2 ^ n \in Nat \ {0} /\ 2 ^ m <= 2 ^ n
<1> DEFINE Powers == <<1, 2, 4, 8, 16, 32, 64, 128, 256, 512, 1024>>
<1>1. ASSUME NEW k \in 0 .. 10 PROVE 2 ^ k = Powers[k + 1] /\ Powers[k + 1] \in Nat \ {0}
  <2>1. CASE k = 0
    BY <2>1
  <2>2. CASE k = 1
    BY <2>2
  <2>3. CASE k = 2
    BY <2>3
  <2>4. CASE k = 3
    BY <2>4
  <2>5. CASE k = 4
    BY <2>5
  <2>6. CASE k = 5
    BY <2>6
  <2>7. CASE k = 6
    BY <2>7
  <2>8. CASE k = 7
    BY <2>8
  <2>9. CASE k = 8
    BY <2>9
  <2>10. CASE k = 9
    BY <2>10
  <2>11. CASE k = 10
    BY <2>11
  <2> QED
    BY <2>1, <2>2, <2>3, <2>4, <2>5, <2>6, <2>7, <2>8, <2>9, <2>10, <2>11
<1>2. \A i, j \in 1 .. 11 : i <= j => Powers[i] <= Powers[j]
  OBVIOUS
<1>3. m + 1 \in 1 .. 11 /\ n + 1 \in 1 .. 11 /\ m + 1 <= n + 1
  OBVIOUS
<1> HIDE DEF Powers
<1> QED
  BY <1>1, <1>2, <1>3

LEMMA MonitorIsTyped ==
  ASSUME NEW m \in Monitors
  PROVE  /\ Floor(m) \in Nat /\ Base(m) \in Nat /\ Floor(m) <= Base(m)
         /\ Floor(m) >= m.floor /\ Floor(m) >= GlobalFloor
         /\ m.misses \in Nat /\ m.throttles \in Nat /\ m.release \in Int
         /\ m.priority \in 1 .. 5 /\ m.draw \in 0 .. Draws - 1 /\ m.strategy \in Strategies
<1>1. /\ m.base \in Nat /\ m.floor \in Nat /\ m.misses \in Nat /\ m.throttles \in Nat
      /\ m.release \in Int /\ m.priority \in 1 .. 5 /\ m.draw \in 0 .. Draws - 1
      /\ m.strategy \in Strategies
  BY MonitorAssumption DEF Monitors
<1> QED
  BY <1>1 DEF Floor, Base, Greatest, GlobalFloor

LEMMA BackoffGrows ==
  ASSUME NEW base \in Nat, NEW m \in Nat, NEW n \in Nat, m <= n
  PROVE  Backoff(base, m) \in Int /\ Backoff(base, n) \in Int
         /\ Backoff(base, m) <= Backoff(base, n)
<1> DEFINE j == Least(10, Greatest(0, m - 1))
           k == Least(10, Greatest(0, n - 1))
<1>1. j \in 0 .. 10 /\ k \in 0 .. 10 /\ j <= k
  BY DEF Least, Greatest
<1> HIDE DEF j, k
<1>2. 2 ^ j \in Nat /\ 2 ^ k \in Nat /\ 2 ^ j <= 2 ^ k
  BY <1>1, PowersOfTwo
<1> DEFINE p == 2 ^ j
           q == 2 ^ k
<1> HIDE DEF p, q
<1>3. p \in Nat /\ q \in Nat /\ p <= q
  BY <1>2 DEF p, q
<1>4. base * p \in Int /\ base * q \in Int /\ base * p <= base * q
  <2>1. p * base \in Int /\ q * base \in Int /\ p * base <= q * base
    BY <1>3, ProductGrows
  <2> QED
    BY <1>3, <2>1
<1>5. Backoff(base, m) = Least(BackoffMost, base * p)
      /\ Backoff(base, n) = Least(BackoffMost, base * q)
  BY Zenon DEF Backoff, p, q, j, k
<1> QED
  BY <1>4, <1>5 DEF Least, BackoffMost

\* Two monitors that differ in their priority or in their misses only.
SameButPressure(m, n) ==
  /\ m.strategy = n.strategy /\ m.base = n.base /\ m.floor = n.floor
  /\ m.throttles = n.throttles /\ m.release = n.release /\ m.draw = n.draw

LEMMA EffectiveGrows ==
  ASSUME NEW m \in Monitors, NEW n \in Monitors, SameButPressure(m, n),
         m.priority <= n.priority, m.misses <= n.misses
  PROVE  Effective(m) \in Nat /\ Effective(n) \in Nat /\ Effective(m) <= Effective(n)
<1>1. /\ Floor(m) = Floor(n) /\ Base(m) = Base(n) /\ Base(m) \in Nat /\ Floor(m) \in Nat
      /\ m.misses \in Nat /\ n.misses \in Nat /\ m.priority \in 1 .. 5 /\ n.priority \in 1 .. 5
      /\ m.release \in Int /\ m.strategy \in Strategies
  BY MonitorIsTyped DEF SameButPressure, Floor, Base
<1>2. CASE m.strategy \in {"FIXED", "JITTERED"}
  BY <1>1, <1>2 DEF Effective, SameButPressure
<1>3. CASE m.strategy = "PRIORITY_BASED"
  <2> DEFINE f == QuarterFactor(m.priority)
             g == QuarterFactor(n.priority)
             x == Base(m) * f
             y == Base(m) * g
  <2>1. f \in Nat /\ g \in Nat /\ f <= g
    BY <1>1 DEF QuarterFactor
  <2> HIDE DEF f, g
  <2>2. x \in Int /\ y \in Int /\ x <= y
    <3>1. f * Base(m) <= g * Base(m)
      BY <1>1, <2>1, ProductGrows
    <3> QED
      BY <1>1, <2>1, <3>1
  <2> HIDE DEF x, y
  <2>3. RoundDiv(x, 4) \in Int /\ RoundDiv(y, 4) \in Int /\ RoundDiv(x, 4) <= RoundDiv(y, 4)
    BY <2>2, RoundingGrows
  <2>4. Effective(m) = Greatest(Floor(m), RoundDiv(x, 4))
        /\ Effective(n) = Greatest(Floor(m), RoundDiv(y, 4))
    BY <1>1, <1>3 DEF Effective, SameButPressure, x, y, f, g
  <2> QED
    BY <1>1, <2>3, <2>4 DEF Greatest
<1>4. CASE m.strategy = "EXPONENTIAL_BACKOFF"
  <2>1. Backoff(Base(m), m.misses) \in Int /\ Backoff(Base(m), n.misses) \in Int
        /\ Backoff(Base(m), m.misses) <= Backoff(Base(m), n.misses)
    BY <1>1, BackoffGrows
  <2>2. Effective(m) = Greatest(Floor(m), Backoff(Base(m), m.misses))
        /\ Effective(n) = Greatest(Floor(m), Backoff(Base(m), n.misses))
    BY <1>1, <1>4 DEF Effective, SameButPressure
  <2> QED
    BY <1>1, <2>1, <2>2 DEF Greatest
<1>5. CASE m.strategy = "RELEASE_TIME"
  <2>1. Effective(m) = NearRelease(m) /\ Effective(n) = NearRelease(m)
    BY <1>1, <1>5 DEF Effective, SameButPressure, NearRelease
  <2>2. CeilDiv(m.release, 60) \in Int
    BY <1>1 DEF CeilDiv
  <2>3. NearRelease(m) \in Nat
    BY <1>1, <2>2 DEF NearRelease, Greatest, Least
  <2> QED
    BY <2>1, <2>3
<1>6. CASE m.strategy = "ADAPTIVE"
  <2> DEFINE f == 10 + Least(10, m.misses)
             g == 10 + Least(10, n.misses)
             x == Base(m) * f
             y == Base(m) * g
  <2>1. f \in Nat /\ g \in Nat /\ f <= g
    BY <1>1 DEF Least
  <2> HIDE DEF f, g
  <2>2. x \in Int /\ y \in Int /\ x <= y
    <3>1. f * Base(m) <= g * Base(m)
      BY <1>1, <2>1, ProductGrows
    <3> QED
      BY <1>1, <2>1, <3>1
  <2> HIDE DEF x, y
  <2>3. RoundDiv(x, 10) \in Int /\ RoundDiv(y, 10) \in Int
        /\ RoundDiv(x, 10) <= RoundDiv(y, 10)
    BY <2>2, RoundingGrows
  <2>4. Effective(m) = Greatest(Floor(m), RoundDiv(x, 10))
        /\ Effective(n) = Greatest(Floor(m), RoundDiv(y, 10))
    BY <1>1, <1>6 DEF Effective, SameButPressure, x, y, f, g
  <2> QED
    BY <1>1, <2>3, <2>4 DEF Greatest
<1> QED
  BY <1>1, <1>2, <1>3, <1>4, <1>5, <1>6 DEF Strategies

LEMMA ThrottledGrows ==
  ASSUME NEW m \in Monitors, NEW a \in Nat, NEW b \in Nat, a <= b
  PROVE  /\ Throttled(m, a) \in Nat /\ Throttled(m, b) \in Nat
         /\ Throttled(m, a) <= Throttled(m, b)
         /\ a <= ThrottleMost => a <= Throttled(m, a)
<1>1. m.throttles \in Nat
  BY MonitorIsTyped
<1>2. CASE m.throttles <= 0
  BY <1>1, <1>2 DEF Throttled
<1>3. CASE ~(m.throttles <= 0)
  <2> DEFINE f == 2 ^ Least(m.throttles, 6)
  <2>1. f \in Nat
    <3>1. Least(m.throttles, 6) \in 0 .. 10 /\ Least(m.throttles, 6) <= Least(m.throttles, 6)
      BY <1>1 DEF Least
    <3> QED
      BY <3>1, PowersOfTwo
  <2>2. Throttled(m, a) = Least(ThrottleMost, Greatest(a, a * f))
        /\ Throttled(m, b) = Least(ThrottleMost, Greatest(b, b * f))
    BY <1>3 DEF Throttled
  <2> HIDE DEF f
  <2>3. a * f \in Int /\ b * f \in Int /\ a * f <= b * f
    BY <2>1, ProductGrows
  <2> QED
    BY <2>2, <2>3 DEF Least, Greatest, ThrottleMost
<1> QED
  BY <1>2, <1>3

LEMMA JitterGrows ==
  ASSUME NEW a \in Nat, NEW b \in Nat, a <= b, NEW draw \in 0 .. Draws - 1
  PROVE  Jittered(a, draw) \in Int /\ Jittered(b, draw) \in Int
         /\ Jittered(a, draw) <= Jittered(b, draw)
<1> DEFINE f == 3 * Draws + 2 * draw
           d == 4 * Draws
<1>1. f \in Nat /\ d \in Nat \ {0}
  BY MonitorAssumption
<1> HIDE DEF f, d
<1>2. a * f \in Int /\ b * f \in Int /\ a * f <= b * f
  BY <1>1, ProductGrows
<1> DEFINE x == a * f
           y == b * f
<1> HIDE DEF x, y
<1>3. RoundDiv(x, d) \in Int /\ RoundDiv(y, d) \in Int /\ RoundDiv(x, d) <= RoundDiv(y, d)
  BY <1>1, <1>2, RoundingGrows DEF x, y
<1>4. Jittered(a, draw) = Greatest(1, RoundDiv(x, d))
      /\ Jittered(b, draw) = Greatest(1, RoundDiv(y, d))
  BY DEF Jittered, x, y, f, d
<1> QED
  BY <1>3, <1>4 DEF Greatest

LEMMA NextSearchGrows ==
  ASSUME NEW m \in Monitors, NEW n \in Monitors, SameButPressure(m, n),
         m.priority <= n.priority, m.misses <= n.misses
  PROVE  NextSearch(m) <= NextSearch(n)
<1>1. Effective(m) \in Nat /\ Effective(n) \in Nat /\ Effective(m) <= Effective(n)
  BY EffectiveGrows
<1>2. NominalInterval(m) \in Nat /\ NominalInterval(n) \in Nat
      /\ NominalInterval(m) <= NominalInterval(n)
  <2>1. Throttled(m, Effective(n)) = Throttled(n, Effective(n))
    BY DEF Throttled, SameButPressure
  <2> QED
    BY <1>1, <2>1, ThrottledGrows DEF NominalInterval
<1>3. Jittered(NominalInterval(m), m.draw) \in Int /\ Jittered(NominalInterval(n), m.draw) \in Int
      /\ Jittered(NominalInterval(m), m.draw) <= Jittered(NominalInterval(n), m.draw)
  BY <1>2, MonitorIsTyped, JitterGrows
<1>4. Floor(m) = Floor(n) /\ Floor(m) \in Nat
  BY MonitorIsTyped DEF SameButPressure, Floor
<1>5. LowerBound(m) \in Nat /\ LowerBound(n) \in Nat /\ LowerBound(m) <= LowerBound(n)
  BY <1>2, <1>4 DEF LowerBound, Greatest, SameButPressure
<1> QED
  BY <1>3, <1>5 DEF NextSearch, Greatest, SameButPressure

\* Whatever intervals, floors, misses, throttles and random draws there are:
\* the floors hold, priority and misses order the cadences, and throttling never
\* speeds up a monitor whose effective interval is at most the 900 seconds of the
\* cap (monitoring.ts:50 and :102); above it, it does.
THEOREM CadenceIsMonotoneHolds == question \in Monitors => CadenceIsMonotone
<1> SUFFICES ASSUME question \in Monitors PROVE CadenceIsMonotone
  OBVIOUS
<1> DEFINE m == question
<1>1. SameButPressure(m, m) /\ m.priority \in 1 .. 5 /\ m.misses \in Nat
  BY MonitorIsTyped DEF SameButPressure
<1>2. /\ Effective(m) \in Nat /\ NominalInterval(m) \in Nat
      /\ Effective(m) <= ThrottleMost => Effective(m) <= NominalInterval(m)
  <2>1. Effective(m) \in Nat
    BY <1>1, EffectiveGrows
  <2> QED
    BY <2>1, ThrottledGrows DEF NominalInterval
<1>3. Jittered(NominalInterval(m), m.draw) \in Int
  BY <1>2, JitterGrows, MonitorIsTyped
<1>4. NextSearch(m) >= Greatest(m.floor, GlobalFloor)
  BY <1>2, <1>3, MonitorIsTyped DEF NextSearch, LowerBound, Greatest, Floor, GlobalFloor
<1>5. m.throttles > 0 /\ Effective(m) <= ThrottleMost => NextSearch(m) >= Effective(m)
  BY <1>2, <1>3, MonitorIsTyped DEF NextSearch, LowerBound, Greatest
<1>6. ASSUME NEW p \in 1 .. m.priority
      PROVE  NextSearch([m EXCEPT !.priority = p]) <= NextSearch(m)
  <2> DEFINE n == [m EXCEPT !.priority = p]
  <2>1. p \in 1 .. 5 /\ p <= m.priority
    BY <1>1
  <2>2. n \in Monitors
    BY <2>1 DEF Monitors
  <2>3. SameButPressure(n, m) /\ n.priority = p /\ n.misses = m.misses
    BY DEF SameButPressure, Monitors
  <2> HIDE DEF n
  <2>4. n.priority <= m.priority /\ n.misses <= m.misses
    BY <1>1, <2>1, <2>3
  <2>5. NextSearch(n) <= NextSearch(m)
    BY <2>2, <2>3, <2>4, NextSearchGrows
  <2> QED
    BY <2>5 DEF n
<1>7. ASSUME NEW k \in Misses, k <= m.misses
      PROVE  NextSearch([m EXCEPT !.misses = k]) <= NextSearch(m)
  <2> DEFINE n == [m EXCEPT !.misses = k]
  <2>1. n \in Monitors
    BY DEF Monitors
  <2>2. SameButPressure(n, m) /\ n.priority = m.priority /\ n.misses = k
    BY DEF SameButPressure, Monitors
  <2> HIDE DEF n
  <2>3. n.priority <= m.priority /\ n.misses <= m.misses
    BY <1>1, <1>7, <2>2
  <2>4. NextSearch(n) <= NextSearch(m)
    BY <2>1, <2>2, <2>3, NextSearchGrows
  <2> QED
    BY <2>4 DEF n
<1> QED
  BY <1>4, <1>5, <1>6, <1>7 DEF CadenceIsMonotone
-----------------------------------------------------------------------------
(* Sorting *)

\* R, a set of pairs, orders T.
StrictTotal(T, R) ==
  /\ \A t \in T : <<t, t>> \notin R
  /\ \A t, u \in T : t # u => <<t, u>> \in R \/ <<u, t>> \in R
  /\ \A t, u, v \in T : <<t, u>> \in R /\ <<u, v>> \in R => <<t, v>> \in R

Below(T, R, t) == {u \in T : <<u, t>> \in R}

\* In a finite order each place is that of exactly one element.
LEMMA PlacesAreOnce ==
  ASSUME NEW T, IsFiniteSet(T), NEW R, StrictTotal(T, R)
  PROVE  /\ Cardinality(T) \in Nat
         /\ \A t \in T : IsFiniteSet(Below(T, R, t))
         /\ \A t \in T : Cardinality(Below(T, R, t)) \in 0 .. Cardinality(T) - 1
         /\ \A t, u \in T :
              Cardinality(Below(T, R, t)) = Cardinality(Below(T, R, u)) => t = u
         /\ \A k \in 0 .. Cardinality(T) - 1 : \E t \in T : Cardinality(Below(T, R, t)) = k
<1> DEFINE Place(t) == Cardinality(Below(T, R, t))
           n == Cardinality(T)
<1>1. n \in Nat
  BY FS_CardinalityType
<1>2. ASSUME NEW t \in T PROVE IsFiniteSet(Below(T, R, t)) /\ Place(t) \in 0 .. n - 1
  <2>1. Below(T, R, t) \in SUBSET T /\ t \notin Below(T, R, t)
    BY DEF Below, StrictTotal
  <2>2. IsFiniteSet(Below(T, R, t)) /\ Place(t) <= n /\ Place(t) # n
    BY <2>1, FS_Subset
  <2> QED
    BY <1>1, <2>2, FS_CardinalityType
<1>3. ASSUME NEW t \in T, NEW u \in T, <<t, u>> \in R PROVE Place(t) < Place(u)
  <2>1. /\ Below(T, R, t) \in SUBSET Below(T, R, u)
        /\ t \in Below(T, R, u) /\ t \notin Below(T, R, t)
    BY <1>3 DEF Below, StrictTotal
  <2>2. Place(t) <= Place(u) /\ Place(t) # Place(u)
    BY <1>2, <2>1, FS_Subset
  <2> QED
    BY <1>1, <1>2, <2>2
<1>4. ASSUME NEW t \in T, NEW u \in T, Place(t) = Place(u) PROVE t = u
  <2>1. Place(t) \in Int /\ Place(u) \in Int
    BY <1>1, <1>2
  <2>2. <<t, u>> \notin R
    BY <1>3, <1>4, <2>1
  <2>3. <<u, t>> \notin R
    BY <1>3, <1>4, <2>1
  <2> QED
    BY <2>2, <2>3 DEF StrictTotal
<1>5. \A k \in 0 .. n - 1 : \E t \in T : Place(t) = k
  <2> DEFINE f == [t \in T |-> Place(t)]
  <2>1. f \in Injection(T, 0 .. n - 1)
    BY <1>2, <1>4 DEF Injection, IsInjective
  <2>2. IsFiniteSet(0 .. n - 1) /\ Cardinality(0 .. n - 1) = n
    BY <1>1, FS_Interval
  <2>3. f \in Surjection(T, 0 .. n - 1)
    BY <2>1, <2>2, FS_Injection
  <2> QED
    BY <2>3 DEF Surjection
<1> QED
  BY <1>1, <1>2, <1>4, <1>5

\* What Arranged sorts by: the comparator, then the position.
Order(chosen, ahead) ==
  {p \in chosen \X chosen :
     <<p[1], p[2]>> \in ahead \/ (p[1] < p[2] /\ <<p[2], p[1]>> \notin ahead)}

\* A sorted list holds each chosen entry once, at the place that is its own.
LEMMA ArrangedIsPermutation ==
  ASSUME NEW seq, NEW chosen, IsFiniteSet(chosen), NEW ahead,
         StrictTotal(chosen, Order(chosen, ahead))
  PROVE  /\ DOMAIN Arranged(seq, chosen, ahead) = 1 .. Cardinality(chosen)
         /\ \E p \in Bijection(1 .. Cardinality(chosen), chosen) :
              \A k \in 1 .. Cardinality(chosen) :
                /\ Arranged(seq, chosen, ahead)[k] = seq[p[k]]
                /\ Cardinality(Prior(chosen, ahead, p[k])) = k - 1
<1> DEFINE n == Cardinality(chosen)
           Place(i) == Cardinality(Prior(chosen, ahead, i))
           p == [k \in 1 .. n |-> CHOOSE i \in chosen : Place(i) = k - 1]
<1>1. \A i \in chosen : Prior(chosen, ahead, i) = Below(chosen, Order(chosen, ahead), i)
  BY DEF Prior, Below, Order
<1>2. /\ n \in Nat
      /\ \A i \in chosen : Place(i) \in 0 .. n - 1
      /\ \A i, j \in chosen : Place(i) = Place(j) => i = j
      /\ \A k \in 0 .. n - 1 : \E i \in chosen : Place(i) = k
  BY <1>1, PlacesAreOnce
<1> HIDE DEF n, Place
<1>3. ASSUME NEW k \in 1 .. n PROVE p[k] \in chosen /\ Place(p[k]) = k - 1
  <2>1. \E i \in chosen : Place(i) = k - 1
    BY <1>2
  <2> QED
    BY <2>1
<1>4. p \in [1 .. n -> chosen]
  BY <1>3
<1>5. IsInjective(p)
  BY <1>2, <1>3 DEF IsInjective
<1>6. ASSUME NEW i \in chosen PROVE \E k \in 1 .. n : p[k] = i
  <2>1. Place(i) + 1 \in 1 .. n
    BY <1>2
  <2>2. Place(p[Place(i) + 1]) = Place(i) /\ p[Place(i) + 1] \in chosen
    BY <1>2, <1>3, <2>1
  <2> QED
    BY <1>2, <2>1, <2>2
<1>7. p \in Bijection(1 .. n, chosen)
  BY <1>4, <1>5, <1>6 DEF Bijection, Injection, Surjection
<1>8. /\ DOMAIN Arranged(seq, chosen, ahead) = 1 .. n
      /\ \A k \in 1 .. n : Arranged(seq, chosen, ahead)[k] = seq[p[k]]
  BY DEF Arranged, Place, n
<1> QED
  BY <1>3, <1>7, <1>8 DEF n, Place

\* The elements of T in order.
Listed(T, R) ==
  [k \in 1 .. Cardinality(T) |-> CHOOSE t \in T : Cardinality(Below(T, R, t)) = k - 1]

\* When the comparator orders the entries strictly, the sorted list depends on
\* which entries were chosen and not on the order they came in.
LEMMA ArrangedBySet ==
  ASSUME NEW seq, NEW chosen \in SUBSET Int, IsFiniteSet(chosen), NEW ahead, NEW R, NEW T,
         T = {seq[i] : i \in chosen}, StrictTotal(T, R),
         \A i, j \in chosen : seq[i] = seq[j] => i = j,
         \A i, j \in chosen : <<i, j>> \in ahead <=> <<seq[i], seq[j]>> \in R
  PROVE  Arranged(seq, chosen, ahead) = Listed(T, R)
<1> DEFINE n == Cardinality(chosen)
           Place(i) == Cardinality(Prior(chosen, ahead, i))
           Rank(t) == Cardinality(Below(T, R, t))
           f == [i \in chosen |-> seq[i]]
<1>1. f \in Bijection(chosen, T)
  BY DEF Bijection, Injection, Surjection, IsInjective
<1>2. IsFiniteSet(T) /\ Cardinality(T) = n
  BY <1>1, FS_Bijection DEF ExistsBijection
<1>3. ASSUME NEW i \in chosen PROVE Place(i) = Rank(seq[i])
  <2> DEFINE P == Prior(chosen, ahead, i)
             B == Below(T, R, seq[i])
             g == [j \in P |-> seq[j]]
  <2>1. P = {j \in chosen : <<seq[j], seq[i]>> \in R}
    <3>1. ASSUME NEW j \in chosen
          PROVE  (<<j, i>> \in ahead \/ (j < i /\ <<i, j>> \notin ahead))
                   <=> <<seq[j], seq[i]>> \in R
      <4>1. seq[i] \in T /\ seq[j] \in T
        OBVIOUS
      <4>2. j # i => <<seq[j], seq[i]>> \in R \/ <<seq[i], seq[j]>> \in R
        BY <4>1 DEF StrictTotal
      <4>3. <<j, i>> \in ahead <=> <<seq[j], seq[i]>> \in R
        OBVIOUS
      <4>4. <<i, j>> \in ahead <=> <<seq[i], seq[j]>> \in R
        OBVIOUS
      <4>5. j < i => j # i
        OBVIOUS
      <4> QED
        BY <4>2, <4>3, <4>4, <4>5
    <3> QED
      BY <3>1 DEF Prior
  <2>2. B = {seq[j] : j \in P}
    BY <2>1 DEF Below
  <2>3. P \in SUBSET chosen
    BY <2>1
  <2> HIDE DEF P, B
  <2>4. g \in Bijection(P, B)
    BY <2>2, <2>3 DEF Bijection, Injection, Surjection, IsInjective
  <2>5. IsFiniteSet(P)
    BY <2>3, FS_Subset
  <2>6. Cardinality(B) = Cardinality(P)
    BY <2>4, <2>5, FS_Bijection DEF ExistsBijection
  <2> QED
    BY <2>6 DEF P, B
<1>4. /\ n \in Nat
      /\ \A t, u \in T : Rank(t) = Rank(u) => t = u
      /\ \A k \in 0 .. n - 1 : \E t \in T : Rank(t) = k
  <2>1. IsFiniteSet(T) /\ StrictTotal(T, R)
    BY <1>2
  <2>2. /\ Cardinality(T) \in Nat
        /\ \A t, u \in T : Rank(t) = Rank(u) => t = u
        /\ \A k \in 0 .. Cardinality(T) - 1 : \E t \in T : Rank(t) = k
    BY ONLY <2>1, PlacesAreOnce
  <2>3. n = Cardinality(T)
    BY <1>2
  <2> HIDE DEF n, Rank
  <2> QED
    BY <2>2, <2>3
<1> HIDE DEF n, Place, Rank
<1>5. ASSUME NEW k \in 1 .. n
      PROVE  seq[CHOOSE i \in chosen : Place(i) = k - 1] = CHOOSE t \in T : Rank(t) = k - 1
  <2> DEFINE place == k - 1
  <2>1. place \in 0 .. n - 1
    BY <1>4
  <2> HIDE DEF place
  <2>2. \E t \in T : Rank(t) = place
    BY <1>4, <2>1
  <2>3. PICK t \in T : Rank(t) = k - 1
    BY <2>2 DEF place
  <2>4. PICK i \in chosen : seq[i] = t
    OBVIOUS
  <2>5. Place(i) = k - 1
    BY <1>3, <2>3, <2>4
  <2> DEFINE c == CHOOSE j \in chosen : Place(j) = k - 1
  <2>6. c \in chosen /\ Place(c) = k - 1
    BY <2>5
  <2> HIDE DEF c
  <2>7. seq[c] \in T /\ Rank(seq[c]) = k - 1
    BY <1>3, <2>6
  <2>8. \A u \in T : Rank(u) = k - 1 => u = seq[c]
    BY <1>4, <2>7
  <2> QED
    BY <2>7, <2>8 DEF c
<1> QED
  BY <1>2, <1>5 DEF Arranged, Listed, n, Place, Rank
-----------------------------------------------------------------------------
(* Scores *)

LEMMA OffersAreTyped ==
  /\ NoPrice \notin Nat
  /\ \A t \in Catalogue :
       /\ t.id \in Nat /\ t.departs \in Nat /\ t.seats \in Nat
       /\ t.price \in Nat \cup {NoPrice} /\ CostOf(t) \in Nat
  /\ \A r \in Requests :
       /\ r.passengers \in Nat /\ r.minAvailability \in Nat /\ r.threshold \in Nat
       /\ r.ceiling \in Nat \cup {NoPrice}
       /\ r.window # NoWindowAsked => r.window.from \in Nat /\ r.window.to \in Nat
  BY OffersAssumption DEF CostOf, Dearest

LEMMA RoundingBounds ==
  ASSUME NEW x \in Int, NEW d \in Nat \ {0}, NEW k \in Nat, 0 <= x, x <= k * d
  PROVE  RoundDiv(x, d) \in 0 .. k
<1> DEFINE q == RoundDiv(x, d)
<1>1. 2 * d \in Nat \ {0} /\ 2 * x + d \in Int /\ 2 * x + d >= 0
  OBVIOUS
<1>2. q \in Int /\ q * (2 * d) <= 2 * x + d /\ q >= 0
  BY <1>1, DivisionBounds DEF RoundDiv
<1> HIDE DEF q
<1> SUFFICES ASSUME k + 1 <= q PROVE FALSE
  BY <1>2 DEF q
<1>3. (k + 1) * (2 * d) <= q * (2 * d)
  BY <1>1, <1>2, ProductGrows
<1>4. (k + 1) * (2 * d) = 2 * (k * d) + 2 * d /\ k * d \in Int /\ q * (2 * d) \in Int
  BY <1>2
<1> QED
  BY <1>2, <1>3, <1>4

LEMMA PriceScoreGrows ==
  ASSUME NEW request \in Requests, NEW t \in Catalogue,
         NEW price \in Nat, t.price # NoPrice => price <= t.price,
         NEW cheaper, cheaper.price = price
  PROVE  /\ PriceScore(request, t) \in 0 .. 35
         /\ PriceScore(request, cheaper) \in 0 .. 35
         /\ PriceScore(request, cheaper) >= PriceScore(request, t)
<1> DEFINE c == request.ceiling
           Asked(p) == 35 * (2 * c - Least(p, c))
<1>1. /\ NoPrice \notin Nat /\ price # NoPrice /\ t.price \in Nat \cup {NoPrice}
      /\ c \in Nat \cup {NoPrice} /\ RoundDiv(35 * 7, 10) = 25
  BY OffersAreTyped DEF RoundDiv
<1>2. CASE ~(Capped(request) /\ c # 0)
  BY <1>1, <1>2 DEF PriceScore
<1>3. CASE Capped(request) /\ c # 0
  <2>1. c \in Nat \ {0} /\ 2 * c \in Nat \ {0}
    BY <1>1, <1>3 DEF Capped
  <2>2. ASSUME NEW p \in Nat PROVE Asked(p) \in Int /\ 0 <= Asked(p) /\ Asked(p) <= 35 * (2 * c)
    BY <2>1 DEF Least
  <2>3. ASSUME NEW p \in Nat PROVE RoundDiv(Asked(p), 2 * c) \in 0 .. 35
    BY <2>1, <2>2, RoundingBounds
  <2>4. PriceScore(request, cheaper) = RoundDiv(Asked(price), 2 * c)
    BY <1>1, <1>3 DEF PriceScore
  <2>5. CASE t.price = NoPrice
    BY <2>3, <2>4, <2>5 DEF PriceScore
  <2>6. CASE t.price # NoPrice
    <3>1. t.price \in Nat /\ price <= t.price
      BY <1>1, <2>6
    <3>2. PriceScore(request, t) = RoundDiv(Asked(t.price), 2 * c)
      BY <1>3, <2>6 DEF PriceScore
    <3>3. Asked(t.price) <= Asked(price)
      BY <2>1, <3>1 DEF Least
    <3> HIDE DEF Asked
    <3>4. RoundDiv(Asked(t.price), 2 * c) <= RoundDiv(Asked(price), 2 * c)
      BY <2>1, <2>2, <3>1, <3>3, RoundingGrows
    <3> QED
      BY <2>3, <2>4, <3>1, <3>2, <3>4
  <2> QED
    BY <2>5, <2>6
<1> QED
  BY <1>2, <1>3

LEMMA AvailabilityScoreGrows ==
  ASSUME NEW request \in Requests, NEW t \in Catalogue,
         NEW seats \in Nat, t.seats <= seats, NEW roomier, roomier.seats = seats
  PROVE  /\ AvailabilityScore(request, t) \in 0 .. 20
         /\ AvailabilityScore(request, roomier) \in 0 .. 20
         /\ AvailabilityScore(request, roomier) >= AvailabilityScore(request, t)
<1> DEFINE target == 3 * Greatest(request.passengers, 1)
           Share(s) == 20 * Least(s, target)
<1>1. t.seats \in Nat /\ target \in Nat \ {0}
  BY OffersAreTyped DEF Greatest
<1>2. /\ AvailabilityScore(request, t) = RoundDiv(Share(t.seats), target)
      /\ AvailabilityScore(request, roomier) = RoundDiv(Share(seats), target)
  BY DEF AvailabilityScore
<1> HIDE DEF target
<1>3. ASSUME NEW s \in Nat PROVE Share(s) \in Int /\ 0 <= Share(s) /\ Share(s) <= 20 * target
  BY <1>1 DEF Least
<1>4. Share(t.seats) <= Share(seats)
  BY <1>1 DEF Least
<1> HIDE DEF Share
<1>5. ASSUME NEW s \in Nat PROVE RoundDiv(Share(s), target) \in 0 .. 20
  BY <1>1, <1>3, RoundingBounds
<1>6. RoundDiv(Share(t.seats), target) <= RoundDiv(Share(seats), target)
  BY <1>1, <1>3, <1>4, RoundingGrows
<1> QED
  BY <1>1, <1>2, <1>5, <1>6

LEMMA WindowScoreBounds ==
  ASSUME NEW request \in Requests, NEW t \in Catalogue
  PROVE  WindowScore(request, t) \in 0 .. 25
<1>1. CASE request.window = NoWindowAsked
  BY <1>1 DEF WindowScore, RoundDiv
<1>2. CASE request.window # NoWindowAsked /\ ~OutsideWindow(request, t)
  BY <1>2 DEF WindowScore
<1>3. CASE request.window # NoWindowAsked /\ OutsideWindow(request, t)
  <2> DEFINE minute == t.departs % DayLength
             distance == Least(Magnitude(minute - request.window.from),
                               Magnitude(minute - request.window.to))
             near == 25 * (6 * 60 - Least(6 * 60, distance))
  <2>1. minute \in Nat /\ request.window.from \in Nat /\ request.window.to \in Nat
    BY <1>3, OffersAreTyped DEF DayLength
  <2> HIDE DEF minute
  <2>2. distance \in Nat
    BY <2>1 DEF Least, Magnitude
  <2> HIDE DEF distance
  <2>3. near \in Int /\ 0 <= near /\ near <= 25 * 360
    BY <2>2 DEF Least
  <2>4. WindowScore(request, t) = RoundDiv(near, 360)
    BY <1>3 DEF WindowScore, near, distance, minute
  <2> HIDE DEF near
  <2>5. 360 \in Nat \ {0} /\ 25 \in Nat
    OBVIOUS
  <2>6. RoundDiv(near, 360) \in 0 .. 25
    BY <2>3, <2>5, RoundingBounds
  <2> QED
    BY <2>4, <2>6
<1> QED
  BY <1>1, <1>2, <1>3

\* What a preference adds.
Preferences(request, t) ==
  PreferenceScore(request.preferred # {}, TrainMissed(request, t))
    + PreferenceScore(request.seat # "ANY" /\ t.labels # <<>>, SeatMissed(request, t))

LEMMA ScoreIsSum ==
  ASSUME NEW request, NEW t,
         PriceScore(request, t) \in Nat, AvailabilityScore(request, t) \in Nat,
         WindowScore(request, t) \in Nat
  PROVE  /\ Preferences(request, t) \in 0 .. 20
         /\ Score(request, t) = PriceScore(request, t) + AvailabilityScore(request, t)
                                  + WindowScore(request, t) + Preferences(request, t)
<1> DEFINE a == PreferenceScore(request.preferred # {}, TrainMissed(request, t))
           b == PreferenceScore(request.seat # "ANY" /\ t.labels # <<>>, SeatMissed(request, t))
<1>1. a \in {0, 5, 10} /\ b \in {0, 5, 10}
  BY DEF PreferenceScore
<1>2. /\ Preferences(request, t) = a + b
      /\ Score(request, t) = PriceScore(request, t) + AvailabilityScore(request, t)
                               + WindowScore(request, t) + a + b
  BY DEF Preferences, Score
<1> HIDE DEF a, b
<1> QED
  BY <1>1, <1>2

LEMMA ScoreBounds ==
  ASSUME NEW request \in Requests, NEW t \in Catalogue
  PROVE  Score(request, t) \in 0 .. 100
<1>1. t.seats \in Nat /\ t.price \in Nat \cup {NoPrice}
  BY OffersAreTyped
<1>2. PriceScore(request, t) \in 0 .. 35
  <2>1. CASE t.price = NoPrice
    BY <2>1 DEF PriceScore
  <2>2. CASE t.price # NoPrice
    BY <1>1, <2>2, PriceScoreGrows
  <2> QED
    BY <2>1, <2>2
<1>3. AvailabilityScore(request, t) \in 0 .. 20
  BY <1>1, AvailabilityScoreGrows
<1>4. WindowScore(request, t) \in 0 .. 25
  BY WindowScoreBounds
<1> QED
  BY <1>2, <1>3, <1>4, ScoreIsSum

\* A lower price and more seats change nothing but their own two scores.
LEMMA ScoreGrows ==
  ASSUME NEW request \in Requests, NEW t \in Catalogue,
         NEW price \in Nat, t.price # NoPrice => price <= t.price,
         NEW seats \in Nat, t.seats <= seats
  PROVE  Score(request, [t EXCEPT !.price = price, !.seats = seats]) >= Score(request, t)
<1> DEFINE u == [t EXCEPT !.price = price, !.seats = seats]
<1>1. /\ u.price = price /\ u.seats = seats /\ u.id = t.id /\ u.train = t.train
      /\ u.departs = t.departs /\ u.labels = t.labels
  BY OffersAssumption
<1> HIDE DEF u
<1>2. WindowScore(request, u) = WindowScore(request, t)
  BY <1>1 DEF WindowScore, OutsideWindow
<1>3. TrainMissed(request, u) = TrainMissed(request, t)
  BY <1>1 DEF TrainMissed
<1>4. SeatMissed(request, u) = SeatMissed(request, t)
  BY <1>1 DEF SeatMissed
<1>5. /\ PriceScore(request, u) >= PriceScore(request, t)
      /\ PriceScore(request, u) \in 0 .. 35 /\ PriceScore(request, t) \in 0 .. 35
  BY <1>1, PriceScoreGrows
<1>6. /\ AvailabilityScore(request, u) >= AvailabilityScore(request, t)
      /\ AvailabilityScore(request, u) \in 0 .. 20 /\ AvailabilityScore(request, t) \in 0 .. 20
  BY <1>1, AvailabilityScoreGrows
<1>7. WindowScore(request, t) \in 0 .. 25
  BY WindowScoreBounds
<1>8. Preferences(request, u) = Preferences(request, t)
  BY <1>1, <1>3, <1>4 DEF Preferences
<1>9. /\ Preferences(request, t) \in 0 .. 20
      /\ Score(request, u) = PriceScore(request, u) + AvailabilityScore(request, u)
                               + WindowScore(request, u) + Preferences(request, u)
      /\ Score(request, t) = PriceScore(request, t) + AvailabilityScore(request, t)
                               + WindowScore(request, t) + Preferences(request, t)
  BY <1>2, <1>5, <1>6, <1>7, ScoreIsSum
<1>10. Score(request, u) >= Score(request, t)
  <2> DEFINE p == PriceScore(request, u)
             q == PriceScore(request, t)
             a == AvailabilityScore(request, u)
             b == AvailabilityScore(request, t)
             w == WindowScore(request, t)
             r == Preferences(request, t)
  <2>1. Score(request, u) = p + a + w + r /\ Score(request, t) = q + b + w + r
    BY <1>2, <1>8, <1>9, Zenon
  <2>2. /\ p \in Int /\ q \in Int /\ p >= q /\ a \in Int /\ b \in Int /\ a >= b
        /\ w \in Int /\ r \in Int
    BY <1>5, <1>6, <1>7, <1>9
  <2> HIDE DEF p, q, a, b, w, r
  <2>3. p + a + w + r >= q + b + w + r
    BY <2>2
  <2> QED
    BY <2>1, <2>3
<1> QED
  BY <1>10 DEF u
-----------------------------------------------------------------------------
(* Rankings *)

\* RanksAhead and SortsAhead as sets of pairs of offers.
RankOrder(request) == {p \in Catalogue \X Catalogue : RanksAhead(request, p[1], p[2])}

LEMMA RankOrderIsStrict ==
  ASSUME NEW request \in Requests, NEW T \in SUBSET Catalogue
  PROVE  StrictTotal(T, RankOrder(request))
<1> DEFINE R == RankOrder(request)
           S(t) == Score(request, t)
<1>1. ASSUME NEW t \in T
      PROVE  /\ t \in Catalogue /\ S(t) \in Int /\ CostOf(t) \in Int
             /\ t.departs \in Int /\ t.id \in Int
  BY ScoreBounds, OffersAreTyped
<1>2. ASSUME NEW t \in T, NEW u \in T
      PROVE  <<t, u>> \in R <=>
               \/ S(t) > S(u)
               \/ /\ S(t) = S(u)
                  /\ \/ CostOf(t) < CostOf(u)
                     \/ CostOf(t) = CostOf(u) /\ t.departs < u.departs
                     \/ CostOf(t) = CostOf(u) /\ t.departs = u.departs /\ t.id < u.id
  BY DEF RankOrder, RanksAhead
<1> HIDE DEF R, S
<1>3. ASSUME NEW t \in T PROVE <<t, t>> \notin R
  BY <1>1, <1>2
<1>4. ASSUME NEW t \in T, NEW u \in T, t # u PROVE <<t, u>> \in R \/ <<u, t>> \in R
  <2>1. ~(t.id = u.id /\ t.departs = u.departs /\ CostOf(t) = CostOf(u))
    BY <1>1, <1>4, IdsTellApart
  <2> QED
    BY <1>1, <1>2, <2>1
<1>5. ASSUME NEW t \in T, NEW u \in T, NEW v \in T, <<t, u>> \in R, <<u, v>> \in R
      PROVE  <<t, v>> \in R
  BY <1>1, <1>2, <1>5
<1> QED
  BY <1>3, <1>4, <1>5 DEF StrictTotal, R

\* A list of offers that holds each of them once.
Listing(list) ==
  /\ \E n \in Nat : DOMAIN list = 1 .. n
  /\ \A i \in DOMAIN list : list[i] \in Catalogue
  /\ \A i, j \in DOMAIN list : list[i] = list[j] => i = j

LEMMA PositionsAreFinite ==
  ASSUME NEW list, Listing(list), NEW chosen \in SUBSET DOMAIN list
  PROVE  /\ IsFiniteSet(chosen) /\ Cardinality(chosen) \in Nat
         /\ chosen \in SUBSET Int
<1>1. PICK n \in Nat : DOMAIN list = 1 .. n
  BY DEF Listing
<1>2. IsFiniteSet(1 .. n)
  BY FS_Interval
<1> QED
  BY <1>1, <1>2, FS_Subset, FS_CardinalityType

MatchedOf(request, list) ==
  {list[i] : i \in {j \in DOMAIN list : Matched(request, list[j])}}

\* The ranking of a list depends on the offers in it that match, and on
\* nothing else.
LEMMA RankedBySet ==
  ASSUME NEW request \in Requests, NEW list, Listing(list)
  PROVE  Ranked(request, list) = Listed(MatchedOf(request, list), RankOrder(request))
<1> DEFINE chosen == {i \in DOMAIN list : Matched(request, list[i])}
           ahead == {p \in (DOMAIN list) \X (DOMAIN list) :
                       RanksAhead(request, list[p[1]], list[p[2]])}
           T == MatchedOf(request, list)
           R == RankOrder(request)
<1>1. chosen \in SUBSET DOMAIN list /\ IsFiniteSet(chosen) /\ chosen \in SUBSET Int
  BY PositionsAreFinite
<1>2. T = {list[i] : i \in chosen}
  BY DEF MatchedOf
<1>3. T \in SUBSET Catalogue
  BY DEF MatchedOf, Listing
<1>4. StrictTotal(T, R)
  BY <1>3, RankOrderIsStrict
<1>5. \A i, j \in chosen : list[i] = list[j] => i = j
  BY DEF Listing
<1>6. \A i, j \in chosen : <<i, j>> \in ahead <=> <<list[i], list[j]>> \in R
  BY DEF RankOrder, Listing
<1>7. Ranked(request, list) = Arranged(list, chosen, ahead)
  BY DEF Ranked
<1> HIDE DEF chosen, ahead, T, R
<1>8. Arranged(list, chosen, ahead) = Listed(T, R)
  BY <1>1, <1>2, <1>4, <1>5, <1>6, ArrangedBySet
<1> QED
  BY <1>7, <1>8 DEF T, R

\* Sorting and filtering give listings of what they keep.
LEMMA ArrangedIsListing ==
  ASSUME NEW list, Listing(list), NEW chosen \in SUBSET DOMAIN list, NEW ahead,
         StrictTotal(chosen, Order(chosen, ahead))
  PROVE  LET arranged == Arranged(list, chosen, ahead) IN
           /\ Listing(arranged)
           /\ {arranged[k] : k \in DOMAIN arranged} = {list[i] : i \in chosen}
<1> DEFINE arranged == Arranged(list, chosen, ahead)
           n == Cardinality(chosen)
<1>1. IsFiniteSet(chosen) /\ n \in Nat
  BY PositionsAreFinite
<1>2. DOMAIN arranged = 1 .. n
  BY <1>1, ArrangedIsPermutation
<1>3. PICK p \in Bijection(1 .. n, chosen) : \A k \in 1 .. n : arranged[k] = list[p[k]]
  BY <1>1, ArrangedIsPermutation
<1> HIDE DEF arranged, n
<1>4. /\ \A k \in 1 .. n : p[k] \in chosen
      /\ \A k, l \in 1 .. n : p[k] = p[l] => k = l
      /\ \A i \in chosen : \E k \in 1 .. n : p[k] = i
  BY DEF Bijection, Injection, Surjection, IsInjective
<1>5. Listing(arranged)
  BY <1>1, <1>2, <1>3, <1>4 DEF Listing
<1>6. {arranged[k] : k \in DOMAIN arranged} = {list[i] : i \in chosen}
  BY <1>2, <1>3, <1>4
<1> QED
  BY <1>5, <1>6 DEF arranged

LEMMA PositionsAreStrict ==
  ASSUME NEW chosen \in SUBSET Int
  PROVE  StrictTotal(chosen, Order(chosen, {}))
<1>1. \A i, j \in chosen : <<i, j>> \in Order(chosen, {}) <=> i < j
  BY DEF Order
<1> QED
  BY <1>1 DEF StrictTotal

LEMMA SortIsStrict ==
  ASSUME NEW list, Listing(list)
  PROVE  StrictTotal(DOMAIN list,
           Order(DOMAIN list, {p \in (DOMAIN list) \X (DOMAIN list) :
                                 SortsAhead(list[p[1]], list[p[2]])}))
<1> DEFINE D == DOMAIN list
           ahead == {p \in D \X D : SortsAhead(list[p[1]], list[p[2]])}
           R == Order(D, ahead)
           Leaves(i) == list[i].departs
           Costs(i) == CostOf(list[i])
           Id(i) == list[i].id
<1>1. ASSUME NEW i \in D
      PROVE  i \in Int /\ Leaves(i) \in Int /\ Costs(i) \in Int /\ Id(i) \in Int
  BY OffersAreTyped DEF Listing
<1>2. ASSUME NEW i \in D, NEW j \in D
      PROVE  <<i, j>> \in ahead <=>
               \/ Leaves(i) < Leaves(j)
               \/ Leaves(i) = Leaves(j) /\ Costs(i) < Costs(j)
               \/ Leaves(i) = Leaves(j) /\ Costs(i) = Costs(j) /\ Id(i) < Id(j)
  BY DEF SortsAhead
<1>3. ASSUME NEW i \in D, NEW j \in D
      PROVE  <<i, j>> \in R <=> <<i, j>> \in ahead \/ (i < j /\ <<j, i>> \notin ahead)
  BY DEF Order
<1> HIDE DEF D, ahead, R, Leaves, Costs, Id
<1>4. ASSUME NEW i \in D, NEW j \in D
      PROVE  <<i, j>> \in R <=>
               \/ Leaves(i) < Leaves(j)
               \/ Leaves(i) = Leaves(j) /\ Costs(i) < Costs(j)
               \/ Leaves(i) = Leaves(j) /\ Costs(i) = Costs(j) /\ Id(i) < Id(j)
               \/ Leaves(i) = Leaves(j) /\ Costs(i) = Costs(j) /\ Id(i) = Id(j) /\ i < j
  <2>1. /\ i \in Int /\ Leaves(i) \in Int /\ Costs(i) \in Int /\ Id(i) \in Int
        /\ j \in Int /\ Leaves(j) \in Int /\ Costs(j) \in Int /\ Id(j) \in Int
    BY <1>1
  <2>2. <<j, i>> \in ahead <=>
          \/ Leaves(j) < Leaves(i)
          \/ Leaves(j) = Leaves(i) /\ Costs(j) < Costs(i)
          \/ Leaves(j) = Leaves(i) /\ Costs(j) = Costs(i) /\ Id(j) < Id(i)
    BY <1>2
  <2>3. <<i, j>> \in R <=> <<i, j>> \in ahead \/ (i < j /\ <<j, i>> \notin ahead)
    BY <1>3
  <2> QED
    BY <1>2, <2>1, <2>2, <2>3
<1>5. ASSUME NEW i \in D PROVE <<i, i>> \notin R
  BY <1>1, <1>4
<1>6. ASSUME NEW i \in D, NEW j \in D, i # j PROVE <<i, j>> \in R \/ <<j, i>> \in R
  BY <1>1, <1>4, <1>6
<1>7. ASSUME NEW i \in D, NEW j \in D, NEW k \in D, <<i, j>> \in R, <<j, k>> \in R
      PROVE  <<i, k>> \in R
  BY <1>1, <1>4, <1>7
<1>8. StrictTotal(D, R)
  BY <1>5, <1>6, <1>7 DEF StrictTotal
<1> QED
  BY <1>8 DEF D, R, ahead

LEMMA WholeList ==
  ASSUME NEW seq, NEW n \in Nat
  PROVE  Arranged(seq, 1 .. n, {}) = [k \in 1 .. n |-> seq[k]]
<1>1. IsFiniteSet(1 .. n) /\ Cardinality(1 .. n) = n
  BY FS_Interval
<1>2. ASSUME NEW i \in 1 .. n PROVE Cardinality(Prior(1 .. n, {}, i)) = i - 1
  <2>1. Prior(1 .. n, {}, i) = 1 .. i - 1
    BY DEF Prior
  <2> QED
    BY <2>1, FS_Interval
<1>3. ASSUME NEW k \in 1 .. n
      PROVE  (CHOOSE i \in 1 .. n : Cardinality(Prior(1 .. n, {}, i)) = k - 1) = k
  BY <1>2
<1>4. Arranged(seq, 1 .. n, {})
        = [k \in 1 .. n |-> seq[CHOOSE i \in 1 .. n : Cardinality(Prior(1 .. n, {}, i)) = k - 1]]
  BY <1>1 DEF Arranged
<1> QED
  BY <1>3, <1>4

\* An offer listed twice is listed once.
LEMMA RepeatsAreDropped ==
  ASSUME NEW list \in Seq(Catalogue), Listing(list), NEW i \in DOMAIN list
  PROVE  Deduped(Append(list, list[i])) = list
<1> DEFINE n == Len(list)
           more == Append(list, list[i])
           Same(j) == {k \in DOMAIN more : OfferKey(more[k]) = OfferKey(more[j])}
           IsKept(j, m) == \A k \in Same(j) \ {m} :
                             BetterOffer(more[m], more[k])
                               \/ (m < k /\ ~BetterOffer(more[k], more[m]))
           Kept(j) == CHOOSE m \in Same(j) : IsKept(j, m)
           kept == [j \in DOMAIN more |-> more[Kept(j)]]
           firsts == {j \in DOMAIN more : \A k \in Same(j) : j <= k}
<1>1. Deduped(more) = Arranged(kept, firsts, {})
  BY DEF Deduped
<1>2. /\ n \in Nat /\ DOMAIN list = 1 .. n /\ DOMAIN more = 1 .. n + 1
      /\ \A j \in 1 .. n : more[j] = list[j]
      /\ more[n + 1] = list[i]
      /\ \A j \in 1 .. n + 1 : more[j] \in Catalogue
      /\ list = [k \in 1 .. n |-> list[k]]
  OBVIOUS
<1>3. ASSUME NEW t \in Catalogue, NEW u \in Catalogue, OfferKey(t) = OfferKey(u)
      PROVE  t = u
  BY <1>3, IdsTellApart DEF OfferKey, CostOf
<1> HIDE DEF n, more
<1>4. ASSUME NEW j \in DOMAIN more, NEW k \in DOMAIN more
      PROVE  k \in Same(j) <=> more[k] = more[j]
  BY <1>2, <1>3
<1>5. ASSUME NEW j \in 1 .. n
      PROVE  j \in Same(j) /\ Same(j) \subseteq {j, n + 1}
  <2>1. j \in DOMAIN more
    BY <1>2
  <2>2. ASSUME NEW k \in Same(j), k # n + 1 PROVE k = j
    <3>1. k \in DOMAIN more
      OBVIOUS
    <3>2. more[k] = more[j]
      BY <1>4, <2>1, <3>1
    <3>3. k \in 1 .. n
      BY <1>2, <2>2, <3>1
    <3> QED
      BY <1>2, <3>2, <3>3 DEF Listing
  <2> QED
    BY <1>4, <2>1, <2>2
<1>6. n + 1 \notin firsts
  BY <1>2, <1>4
<1>7. firsts = 1 .. n
  BY <1>2, <1>5, <1>6
<1>8. ASSUME NEW j \in 1 .. n PROVE kept[j] = list[j]
  <2>1. ASSUME NEW t \in Catalogue PROVE ~BetterOffer(t, t)
    BY OffersAreTyped DEF BetterOffer
  <2>2. IsKept(j, j)
    BY <1>2, <1>4, <1>5, <2>1
  <2> HIDE DEF IsKept
  <2>3. Kept(j) \in Same(j)
    BY <1>5, <2>2
  <2>4. Kept(j) \in DOMAIN more /\ j \in DOMAIN more
    BY <1>2, <2>3
  <2> HIDE DEF Kept
  <2> QED
    BY <1>2, <1>4, <2>3, <2>4
<1> HIDE DEF kept, firsts
<1>9. Arranged(kept, 1 .. n, {}) = [k \in 1 .. n |-> kept[k]]
  BY <1>2, WholeList
<1>10. [k \in 1 .. n |-> kept[k]] = [k \in 1 .. n |-> list[k]]
  BY <1>8
<1> QED
  BY <1>1, <1>2, <1>7, <1>9, <1>10 DEF more

LEMMA OrdersAreListings ==
  ASSUME NEW S \in SUBSET Catalogue, IsFiniteSet(S), NEW list \in Orders(S)
  PROVE  /\ Listing(list) /\ list \in Seq(Catalogue)
         /\ {list[i] : i \in DOMAIN list} = S
<1> DEFINE n == Cardinality(S)
<1>1. n \in Nat
  BY FS_CardinalityType
<1> HIDE DEF n
<1>2. list \in [1 .. n -> S] /\ list \in Injection(1 .. n, S)
  BY DEF Orders, Injection, IsInjective, n
<1>3. IsFiniteSet(1 .. n) /\ Cardinality(1 .. n) = n
  BY <1>1, FS_Interval
<1>4. list \in Surjection(1 .. n, S)
  BY <1>2, <1>3, FS_Injection DEF n
<1>5. Listing(list)
  BY <1>1, <1>2 DEF Listing, Injection, IsInjective
<1>6. list \in Seq(Catalogue)
  BY <1>1, <1>2
<1>7. {list[i] : i \in DOMAIN list} = S
  BY <1>2, <1>4 DEF Surjection
<1> QED
  BY <1>5, <1>6, <1>7

LEMMA SetToSeqOrders ==
  ASSUME NEW S, IsFiniteSet(S)
  PROVE  SetToSeq(S) \in Orders(S)
<1> DEFINE n == Cardinality(S)
<1>1. \E f \in Bijection(1 .. n, S) : TRUE
  BY FS_CardinalityType DEF ExistsBijection
<1>2. \E f \in [1 .. n -> S] : IsInjective(f)
  BY <1>1 DEF Bijection, Injection
<1>3. SetToSeq(S) \in [1 .. n -> S] /\ IsInjective(SetToSeq(S))
  BY <1>2 DEF SetToSeq
<1> QED
  BY <1>3 DEF Orders, IsInjective

\* What an adapter filters out would not have matched.
LEMMA FilterKeepsMatches ==
  ASSUME NEW request \in Requests, NEW list, Listing(list), NEW b \in BOOLEAN
  PROVE  LET local == TripsSorted(LocallyFiltered(list, request, b)) IN
           Listing(local) /\ MatchedOf(request, local) = MatchedOf(request, list)
<1> DEFINE chosen == {i \in DOMAIN list :
              /\ list[i].seats >= request.minAvailability
              /\ ~b /\ Capped(request) /\ list[i].price # NoPrice
                   => list[i].price <= request.ceiling}
           filtered == LocallyFiltered(list, request, b)
           local == TripsSorted(filtered)
<1>1. /\ Listing(filtered)
      /\ {filtered[k] : k \in DOMAIN filtered} = {list[i] : i \in chosen}
  <2>1. chosen \in SUBSET DOMAIN list /\ chosen \in SUBSET Int
    BY PositionsAreFinite
  <2>2. filtered = Arranged(list, chosen, {})
    BY DEF LocallyFiltered
  <2> HIDE DEF chosen, filtered
  <2>3. StrictTotal(chosen, Order(chosen, {}))
    BY <2>1, PositionsAreStrict
  <2> QED
    BY <2>1, <2>2, <2>3, ArrangedIsListing
<1> HIDE DEF filtered
<1>2. /\ Listing(local)
      /\ {local[k] : k \in DOMAIN local} = {filtered[k] : k \in DOMAIN filtered}
  <2> DEFINE ahead == {p \in (DOMAIN filtered) \X (DOMAIN filtered) :
                         SortsAhead(filtered[p[1]], filtered[p[2]])}
  <2>1. local = Arranged(filtered, DOMAIN filtered, ahead)
    BY DEF TripsSorted
  <2>2. StrictTotal(DOMAIN filtered, Order(DOMAIN filtered, ahead))
    BY <1>1, SortIsStrict
  <2> HIDE DEF ahead, local
  <2> QED
    BY <1>1, <2>1, <2>2, ArrangedIsListing
<1> HIDE DEF local
<1>3. ASSUME NEW i \in DOMAIN list, Matched(request, list[i])
      PROVE  i \in chosen
  <2>1. HardRejections(request, list[i]) = {}
    BY <1>3 DEF Matched, Rejections
  <2>2. ~(list[i].seats < request.minAvailability)
    BY <2>1 DEF HardRejections
  <2>3. ~(Capped(request) /\ list[i].price # NoPrice /\ list[i].price > request.ceiling)
    BY <2>1 DEF HardRejections
  <2>4. /\ list[i].seats \in Nat /\ list[i].price \in Nat \cup {NoPrice}
        /\ request.minAvailability \in Nat /\ request.ceiling \in Nat \cup {NoPrice}
    BY OffersAreTyped DEF Listing
  <2> QED
    BY <2>2, <2>3, <2>4 DEF Capped
<1> HIDE DEF chosen
<1>4. chosen \in SUBSET DOMAIN list
  BY DEF chosen
<1>5. {local[k] : k \in DOMAIN local} = {list[i] : i \in chosen}
  BY <1>1, <1>2
<1>6. MatchedOf(request, local) = {t \in {local[k] : k \in DOMAIN local} : Matched(request, t)}
  BY DEF MatchedOf
<1>7. MatchedOf(request, list) = {t \in {list[i] : i \in chosen} : Matched(request, t)}
  BY <1>3, <1>4 DEF MatchedOf
<1> QED
  BY <1>2, <1>5, <1>6, <1>7 DEF local, filtered

\* Whatever offers come together, however many: the ranking is a function of
\* the set of them (matching.ts:213).
THEOREM RankingIsStableHolds == question \in OfferQuestions => RankingIsStable
<1> SUFFICES ASSUME question \in OfferQuestions PROVE RankingIsStable
  OBVIOUS
<1> DEFINE request == question.request
           S == question.offers
           ranking == Ranked(request, SetToSeq(S))
           T == {t \in S : Matched(request, t)}
           R == RankOrder(request)
<1>1. request \in Requests /\ S \in SUBSET Catalogue /\ IsFiniteSet(S)
  BY DEF OfferQuestions
<1> HIDE DEF request, S, T, R
<1>2. ASSUME NEW list \in Orders(S)
      PROVE  /\ Listing(list) /\ list \in Seq(Catalogue)
             /\ MatchedOf(request, list) = T /\ Ranked(request, list) = Listed(T, R)
  <2>1. Listing(list) /\ list \in Seq(Catalogue) /\ {list[i] : i \in DOMAIN list} = S
    BY <1>1, OrdersAreListings
  <2>2. MatchedOf(request, list) = T
    BY <2>1 DEF MatchedOf, T
  <2>3. Ranked(request, list) = Listed(T, R)
    BY <1>1, <2>1, <2>2, RankedBySet DEF R
  <2> QED
    BY <2>1, <2>2, <2>3
<1>3. ranking = Listed(T, R)
  BY <1>1, <1>2, SetToSeqOrders
<1> HIDE DEF ranking
<1>4. ASSUME NEW trips \in Orders(S) PROVE Ranked(request, trips) = ranking
  BY <1>2, <1>3
<1>5. ASSUME NEW trips \in Orders(S), NEW i \in DOMAIN trips
      PROVE  Ranked(request, Deduped(Append(trips, trips[i]))) = ranking
  <2>1. Deduped(Append(trips, trips[i])) = trips
    BY <1>2, RepeatsAreDropped
  <2> QED
    BY <1>4, <2>1
<1>6. ASSUME NEW trips \in Orders(S), NEW b \in BOOLEAN
      PROVE  Ranked(request, TripsSorted(LocallyFiltered(trips, request, b))) = ranking
  <2> DEFINE local == TripsSorted(LocallyFiltered(trips, request, b))
  <2>1. Listing(local) /\ MatchedOf(request, local) = T
    BY <1>1, <1>2, FilterKeepsMatches
  <2> HIDE DEF local
  <2>2. Ranked(request, local) = Listed(T, R)
    BY <1>1, <2>1, RankedBySet DEF R
  <2> QED
    BY <1>3, <2>2 DEF local
<1> QED
  BY <1>4, <1>5, <1>6 DEF RankingIsStable, request, S, ranking
-----------------------------------------------------------------------------
(* Pairs *)

\* Sorting by one number, highest first.
LEMMA NumbersSortStrictly ==
  ASSUME NEW chosen \in SUBSET Int, NEW v, \A i \in chosen : v[i] \in Int, NEW ahead,
         \A i, j \in chosen : <<i, j>> \in ahead <=> v[i] > v[j]
  PROVE  StrictTotal(chosen, Order(chosen, ahead))
<1> DEFINE R == Order(chosen, ahead)
<1>1. ASSUME NEW i \in chosen, NEW j \in chosen
      PROVE  <<i, j>> \in R <=> v[i] > v[j] \/ (v[i] = v[j] /\ i < j)
  <2>1. <<i, j>> \in R <=> <<i, j>> \in ahead \/ (i < j /\ <<j, i>> \notin ahead)
    BY DEF Order
  <2>2. (<<i, j>> \in ahead <=> v[i] > v[j]) /\ (<<j, i>> \in ahead <=> v[j] > v[i])
    OBVIOUS
  <2>3. v[i] \in Int /\ v[j] \in Int
    OBVIOUS
  <2> QED
    BY <2>1, <2>2, <2>3
<1> HIDE DEF R
<1> QED
  BY <1>1 DEF StrictTotal, R

LEMMA RankedIsListing ==
  ASSUME NEW request \in Requests, NEW list, Listing(list)
  PROVE  Listing(Ranked(request, list))
<1> DEFINE chosen == {i \in DOMAIN list : Matched(request, list[i])}
           ahead == {p \in (DOMAIN list) \X (DOMAIN list) :
                       RanksAhead(request, list[p[1]], list[p[2]])}
           T == {list[i] : i \in chosen}
           R == RankOrder(request)
<1>1. chosen \in SUBSET DOMAIN list
  OBVIOUS
<1>2. \A i \in chosen : list[i] \in T
  OBVIOUS
<1>3. StrictTotal(T, R)
  <2>1. T \in SUBSET Catalogue
    BY DEF Listing
  <2> QED
    BY <2>1, RankOrderIsStrict
<1>4. \A i, j \in chosen : <<i, j>> \in ahead <=> <<list[i], list[j]>> \in R
  BY DEF RankOrder, Listing
<1>5. Ranked(request, list) = Arranged(list, chosen, ahead)
  BY DEF Ranked
<1> HIDE DEF chosen, ahead, T, R
<1>6. ASSUME NEW i \in chosen, NEW j \in chosen
      PROVE  <<i, j>> \in Order(chosen, ahead) <=> <<list[i], list[j]>> \in R
  <2>1. <<i, j>> \in Order(chosen, ahead)
          <=> <<i, j>> \in ahead \/ (i < j /\ <<j, i>> \notin ahead)
    BY DEF Order
  <2>2. list[i] = list[j] <=> i = j
    BY <1>1 DEF Listing
  <2>3. i < j => i # j
    BY <1>1, PositionsAreFinite
  <2>4. i # j => <<list[i], list[j]>> \in R \/ <<list[j], list[i]>> \in R
    BY <1>2, <1>3, <2>2 DEF StrictTotal
  <2> QED
    BY <1>4, <2>1, <2>3, <2>4
<1>7. StrictTotal(chosen, Order(chosen, ahead))
  <2>1. ASSUME NEW i \in chosen, NEW j \in chosen, i # j PROVE list[i] # list[j]
    BY <1>1, <2>1 DEF Listing
  <2> QED
    BY <1>2, <1>3, <1>6, <2>1 DEF StrictTotal
<1> QED
  BY <1>1, <1>5, <1>7, ArrangedIsListing

\* The return leg chosen is one of those there are, and none scores more.
LEMMA BestInboundIsBest ==
  ASSUME NEW request \in Requests, NEW ranked, Listing(ranked), NEW out,
         Inbound(ranked, out) # {}
  PROVE  \E p \in Inbound(ranked, out) :
           /\ BestInbound(request, ranked, out) = ranked[p]
           /\ \A i \in Inbound(ranked, out) :
                Score(request, ranked[i]) <= Score(request, ranked[p])
<1> DEFINE chosen == Inbound(ranked, out)
           ahead == {p \in (DOMAIN ranked) \X (DOMAIN ranked) :
                       Score(request, ranked[p[1]]) > Score(request, ranked[p[2]])}
           n == Cardinality(chosen)
           v == [i \in DOMAIN ranked |-> Score(request, ranked[i])]
<1>1. chosen \in SUBSET DOMAIN ranked
  BY DEF Inbound
<1>2. BestInbound(request, ranked, out) = Arranged(ranked, chosen, ahead)[1]
  BY DEF BestInbound
<1>3. ASSUME NEW i \in DOMAIN ranked
      PROVE  v[i] = Score(request, ranked[i]) /\ v[i] \in Int
  <2>1. v[i] = Score(request, ranked[i]) /\ ranked[i] \in Catalogue
    BY DEF Listing
  <2> HIDE DEF v
  <2> QED
    BY <2>1, ScoreBounds
<1>4. \A i, j \in DOMAIN ranked : <<i, j>> \in ahead <=> v[i] > v[j]
  OBVIOUS
<1> HIDE DEF chosen, ahead, n, v
<1>5. IsFiniteSet(chosen) /\ n \in Nat /\ chosen \in SUBSET Int
  BY <1>1, PositionsAreFinite DEF n
<1>6. 1 \in 1 .. n
  <2>1. n # 0
    BY <1>5, FS_EmptySet DEF chosen, n
  <2> QED
    BY <1>5, <2>1
<1>7. StrictTotal(chosen, Order(chosen, ahead))
  BY <1>1, <1>3, <1>4, <1>5, NumbersSortStrictly
<1>8. PICK p \in Bijection(1 .. n, chosen) : \A k \in 1 .. n :
        /\ Arranged(ranked, chosen, ahead)[k] = ranked[p[k]]
        /\ Cardinality(Prior(chosen, ahead, p[k])) = k - 1
  BY <1>5, <1>7, ArrangedIsPermutation DEF n
<1>9. p[1] \in chosen /\ Arranged(ranked, chosen, ahead)[1] = ranked[p[1]]
  BY <1>6, <1>8 DEF Bijection, Injection
<1>10. Prior(chosen, ahead, p[1]) = {}
  <2>1. Prior(chosen, ahead, p[1]) \in SUBSET chosen
    BY DEF Prior
  <2>2. IsFiniteSet(Prior(chosen, ahead, p[1]))
    BY <1>5, <2>1, FS_Subset
  <2>3. Cardinality(Prior(chosen, ahead, p[1])) = 0
    BY <1>6, <1>8
  <2> QED
    BY <2>2, <2>3, FS_EmptySet
<1>11. ASSUME NEW i \in chosen PROVE Score(request, ranked[i]) <= Score(request, ranked[p[1]])
  <2>1. <<i, p[1]>> \notin ahead
    BY <1>10 DEF Prior
  <2>2. i \in DOMAIN ranked /\ p[1] \in DOMAIN ranked
    BY <1>1, <1>9
  <2> QED
    BY <1>3, <1>4, <2>1, <2>2
<1> QED
  BY <1>2, <1>9, <1>11 DEF chosen

\* Every pair holds the best return leg there is for its outbound leg.
LEMMA PairsAreBest ==
  ASSUME NEW request \in Requests, NEW ranked, Listing(ranked),
         NEW i \in DOMAIN Pairs(request, ranked)
  PROVE  LET pair == Pairs(request, ranked)[i] IN
           /\ pair.inbound.departs > pair.outbound.departs
           /\ \A t \in ToSet(ranked) :
                t.leg = "RETURN" /\ t.departs > pair.outbound.departs
                  => Score(request, t) <= Score(request, pair.inbound)
<1> DEFINE outbound == {j \in DOMAIN ranked :
                          ranked[j].leg = "OUTBOUND" /\ Inbound(ranked, ranked[j]) # {}}
           Best(j) == BestInbound(request, ranked, ranked[j])
           pairs == [j \in outbound |->
             [outbound |-> ranked[j], inbound |-> Best(j),
              score |-> RoundDiv(Score(request, ranked[j]) + Score(request, Best(j)), 2)]]
           ahead == {p \in outbound \X outbound : pairs[p[1]].score > pairs[p[2]].score}
           n == Cardinality(outbound)
           v == [j \in outbound |-> pairs[j].score]
<1>1. Pairs(request, ranked) = Arranged(pairs, outbound, ahead)
  BY DEF Pairs
<1>2. /\ outbound \in SUBSET DOMAIN ranked
      /\ \A j \in outbound : Inbound(ranked, ranked[j]) # {}
  OBVIOUS
<1>3. \A j \in outbound :
        /\ pairs[j].outbound = ranked[j] /\ pairs[j].inbound = Best(j)
        /\ pairs[j].score
             = RoundDiv(Score(request, ranked[j]) + Score(request, Best(j)), 2)
  OBVIOUS
<1>4. /\ \A j \in outbound : v[j] = pairs[j].score
      /\ \A j, k \in outbound : <<j, k>> \in ahead <=> v[j] > v[k]
  OBVIOUS
<1> HIDE DEF outbound, pairs, ahead, n, v
<1>5. ASSUME NEW j \in outbound PROVE v[j] \in Int
  <2>1. PICK p \in Inbound(ranked, ranked[j]) : Best(j) = ranked[p]
    BY <1>2, BestInboundIsBest
  <2>2. ranked[j] \in Catalogue /\ ranked[p] \in Catalogue
    BY <1>2 DEF Listing, Inbound
  <2>3. Score(request, ranked[j]) \in Int /\ Score(request, Best(j)) \in Int
    BY <2>1, <2>2, ScoreBounds
  <2> HIDE DEF Best
  <2>4. RoundDiv(Score(request, ranked[j]) + Score(request, Best(j)), 2) \in Int
    BY <2>3 DEF RoundDiv
  <2> QED
    BY <1>3, <1>4, <2>4
<1> HIDE DEF Best
<1>6. IsFiniteSet(outbound) /\ n \in Nat /\ outbound \in SUBSET Int
  BY <1>2, PositionsAreFinite DEF n
<1>7. StrictTotal(outbound, Order(outbound, ahead))
  BY <1>4, <1>5, <1>6, NumbersSortStrictly
<1>8. DOMAIN Arranged(pairs, outbound, ahead) = 1 .. n
  BY <1>6, <1>7, ArrangedIsPermutation DEF n
<1>9. PICK q \in Bijection(1 .. n, outbound) :
        \A k \in 1 .. n : Arranged(pairs, outbound, ahead)[k] = pairs[q[k]]
  BY <1>6, <1>7, ArrangedIsPermutation DEF n
<1> DEFINE j == q[i]
<1>10. j \in outbound /\ Pairs(request, ranked)[i] = pairs[j]
  BY <1>1, <1>8, <1>9 DEF Bijection, Injection
<1> HIDE DEF j
<1>11. PICK p \in Inbound(ranked, ranked[j]) :
         /\ Best(j) = ranked[p]
         /\ \A m \in Inbound(ranked, ranked[j]) :
              Score(request, ranked[m]) <= Score(request, ranked[p])
  BY <1>2, <1>10, BestInboundIsBest DEF Best
<1>12. /\ Pairs(request, ranked)[i].outbound = ranked[j]
       /\ Pairs(request, ranked)[i].inbound = ranked[p]
  BY <1>3, <1>10, <1>11
<1>13. ranked[p].departs > ranked[j].departs
  BY DEF Inbound
<1>14. ASSUME NEW t \in ToSet(ranked), t.leg = "RETURN", t.departs > ranked[j].departs
       PROVE  Score(request, t) <= Score(request, ranked[p])
  <2>1. PICK m \in DOMAIN ranked : t = ranked[m]
    BY DEF ToSet
  <2>2. m \in Inbound(ranked, ranked[j])
    BY <1>14, <2>1 DEF Inbound
  <2> QED
    BY <1>11, <2>1, <2>2
<1> QED
  BY <1>12, <1>13, <1>14

\* Whatever is offered and asked for: an offer that costs no more and has no
\* fewer seats scores no less, STRICT offers nothing FLEXIBLE would not, and a
\* pair holds the best return after its outbound leg (matching.ts:96, :225).
THEOREM BetterOfferWinsHolds == question \in OfferQuestions => BetterOfferWins
<1> SUFFICES ASSUME question \in OfferQuestions PROVE BetterOfferWins
  OBVIOUS
<1> DEFINE request == question.request
           S == question.offers
           ranked == Ranked(request, SetToSeq(S))
<1>1. request \in Requests /\ S \in SUBSET Catalogue /\ IsFiniteSet(S)
  BY DEF OfferQuestions
<1> HIDE DEF request, S, ranked
<1>2. ASSUME NEW t \in S, NEW price \in 0 .. (IF t.price = NoPrice THEN 0 ELSE t.price),
             NEW seats \in t.seats .. t.seats + 4
      PROVE  Score(request, [t EXCEPT !.price = price, !.seats = seats]) >= Score(request, t)
  <2>1. t \in Catalogue /\ t.seats \in Nat /\ t.price \in Nat \cup {NoPrice}
    BY <1>1, OffersAreTyped
  <2>2. /\ price \in Nat /\ (t.price # NoPrice => price <= t.price)
        /\ seats \in Nat /\ t.seats <= seats
    BY <2>1
  <2> QED
    BY <1>1, <2>1, <2>2, ScoreGrows
<1>3. ASSUME NEW t \in S, Matched([request EXCEPT !.mode = "STRICT"], t)
      PROVE  Matched([request EXCEPT !.mode = "FLEXIBLE"], t) /\ Score(request, t) \in 0 .. 100
  <2> DEFINE strict == [request EXCEPT !.mode = "STRICT"]
             flexible == [request EXCEPT !.mode = "FLEXIBLE"]
  <2>1. /\ strict.passengers = flexible.passengers /\ strict.class = flexible.class
        /\ strict.minAvailability = flexible.minAvailability
        /\ strict.seat = flexible.seat /\ strict.ceiling = flexible.ceiling
        /\ strict.window = flexible.window /\ strict.preferred = flexible.preferred
        /\ strict.threshold = flexible.threshold /\ flexible.mode = "FLEXIBLE"
    BY <1>1, OffersAssumption
  <2> HIDE DEF strict, flexible
  <2>2. Capped(strict) <=> Capped(flexible)
    BY <2>1 DEF Capped
  <2>3. HardRejections(strict, t) = HardRejections(flexible, t)
    BY <2>1, <2>2 DEF HardRejections
  <2>4. Score(strict, t) = Score(flexible, t)
    <3>1. PriceScore(strict, t) = PriceScore(flexible, t)
      BY <2>1, <2>2 DEF PriceScore
    <3>2. AvailabilityScore(strict, t) = AvailabilityScore(flexible, t)
      BY <2>1 DEF AvailabilityScore
    <3>3. WindowScore(strict, t) = WindowScore(flexible, t)
      BY <2>1 DEF WindowScore, OutsideWindow
    <3>4. TrainMissed(strict, t) = TrainMissed(flexible, t)
      BY <2>1 DEF TrainMissed
    <3>5. SeatMissed(strict, t) = SeatMissed(flexible, t)
      BY <2>1 DEF SeatMissed
    <3> QED
      BY <2>1, <3>1, <3>2, <3>3, <3>4, <3>5 DEF Score
  <2>5. Rejections(flexible, t) = HardRejections(flexible, t)
    BY <2>1 DEF Rejections
  <2>6. Matched(flexible, t)
    <3>1. Rejections(strict, t) = {} /\ Score(strict, t) >= strict.threshold
      BY <1>3 DEF Matched, strict
    <3>2. HardRejections(strict, t) = {}
      BY <3>1 DEF Rejections
    <3> QED
      BY <2>1, <2>3, <2>4, <2>5, <3>1, <3>2 DEF Matched
  <2>7. Score(request, t) \in 0 .. 100
    BY <1>1, ScoreBounds
  <2> QED
    BY <2>6, <2>7 DEF flexible
<1>4. Listing(ranked)
  <2>1. SetToSeq(S) \in Orders(S)
    BY <1>1, SetToSeqOrders
  <2>2. Listing(SetToSeq(S))
    BY <1>1, <2>1, OrdersAreListings
  <2> QED
    BY <1>1, <2>2, RankedIsListing DEF ranked
<1>5. ASSUME NEW i \in DOMAIN Pairs(request, ranked)
      PROVE  LET pair == Pairs(request, ranked)[i] IN
               /\ pair.inbound.departs > pair.outbound.departs
               /\ \A t \in ToSet(ranked) :
                    t.leg = "RETURN" /\ t.departs > pair.outbound.departs
                      => Score(request, t) <= Score(request, pair.inbound)
  BY <1>1, <1>4, PairsAreBest
<1> QED
  BY <1>2, <1>3, <1>5 DEF BetterOfferWins, request, S, ranked
-----------------------------------------------------------------------------
(* All questions *)

\* Nothing is asked yet, or one question of one kind is.
DecisionInv ==
  \/ question.kind = "none"
  \/ question \in Signals \cup Environments \cup Monitors \cup OfferQuestions
                 \cup AccessQuestions \cup ClockQuestions \cup MoneyQuestions

LEMMA DecisionInvHolds == MCSpec => []DecisionInv
<1>1. MCInit => DecisionInv
  BY DEF MCInit, DecisionInv
<1>2. DecisionInv /\ [MCNext]_question => DecisionInv'
  <2> SUFFICES ASSUME DecisionInv, [MCNext]_question PROVE DecisionInv'
    OBVIOUS
  <2>1. CASE question' = question
    BY <2>1 DEF DecisionInv
  <2>2. CASE MCNext
    BY <2>2 DEF MCNext, Ask, DecisionInv
  <2> QED
    BY <2>1, <2>2
<1> QED
  BY <1>1, <1>2, PTL DEF MCSpec

\* In every behaviour of the module TLC checks, whatever its constants, all eight
\* properties above are invariants, within the limits each of them states.
THEOREM DecisionsHold ==
  MCSpec => [](/\ GatesAgree /\ OnlyProductionSubmits /\ CadenceIsMonotone
               /\ RankingIsStable /\ BetterOfferWins /\ TenantLeftOnlyByCondition
               /\ WallClockRoundTrip /\ MoneyIsExact)
<1> DEFINE All == /\ GatesAgree /\ OnlyProductionSubmits /\ CadenceIsMonotone
                  /\ RankingIsStable /\ BetterOfferWins /\ TenantLeftOnlyByCondition
                  /\ WallClockRoundTrip /\ MoneyIsExact
<1>1. ASSUME DecisionInv PROVE All
  <2>1. /\ question.kind = "gates" => question \in Signals
        /\ question.kind = "config" => question \in Environments
        /\ question.kind = "monitor" => question \in Monitors
        /\ question.kind = "offers" => question \in OfferQuestions
        /\ question.kind = "access" => question \in AccessQuestions
        /\ question.kind = "clock" => question \in ClockQuestions
        /\ question.kind = "money" => question \in MoneyQuestions
    BY <1>1 DEF DecisionInv, Signals, Environments, Monitors, OfferQuestions,
       AccessQuestions, ClockQuestions, MoneyQuestions
  <2>2. question.kind # "gates" => GatesAgree
    BY DEF GatesAgree, GateQuestion
  <2>3. question.kind # "config" => OnlyProductionSubmits
    BY DEF OnlyProductionSubmits
  <2>4. question.kind # "monitor" => CadenceIsMonotone
    BY DEF CadenceIsMonotone, MonitorQuestion
  <2>5. question.kind # "offers" => RankingIsStable /\ BetterOfferWins
    BY DEF RankingIsStable, BetterOfferWins, OfferQuestion
  <2>6. question.kind # "access" => TenantLeftOnlyByCondition
    BY DEF TenantLeftOnlyByCondition
  <2>7. question.kind # "clock" => WallClockRoundTrip
    BY DEF WallClockRoundTrip
  <2>8. question.kind # "money" => MoneyIsExact
    BY DEF MoneyIsExact, MoneyQuestion
  <2> QED
    BY <2>1, <2>2, <2>3, <2>4, <2>5, <2>6, <2>7, <2>8, GatesAgreeHolds,
       OnlyProductionSubmitsHolds, CadenceIsMonotoneHolds, RankingIsStableHolds,
       BetterOfferWinsHolds, TenantLeftOnlyByConditionHolds, WallClockRoundTripHolds, MoneyIsExactHolds
<1> HIDE DEF All
<1>2. DecisionInv => All
  BY <1>1
<1>3. MCSpec => []All
  BY <1>2, DecisionInvHolds, PTL
<1> QED
  BY <1>3 DEF All
=============================================================================

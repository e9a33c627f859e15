--------------------------- MODULE SubmissionGates ---------------------------
(***************************************************************************)
(* The two gates in front of a provider: evaluateSubmissionGuards of       *)
(* packages/booking/src/guards.ts, with the warm-up rule, and the          *)
(* compliance gate of packages/provider-sdk/src/compliance.ts, with what   *)
(* registry.ts and capabilities.ts ask of an adapter.                      *)
(*                                                                         *)
(* They are written apart and share no input type, yet a write has to pass *)
(* both.  A question is a set of signals; an adapter is what the registry  *)
(* admits.                                                                 *)
(***************************************************************************)
EXTENDS Decisions, FiniteSets

CONSTANTS Breakers, Modes, Accounts, Maintenances,  \* the enumerations, in part
          Blockings    \* what adapters list as blockedOperations

Compliances == {"APPROVED", "NOT_REVIEWED", "PROHIBITED"}

Signals == [kind : {"gates"}, dryRun : BOOLEAN, compliance : Compliances,
            autoBooking : BOOLEAN, enabled : BOOLEAN, breaker : Breakers,
            global : BOOLEAN, mode : Modes, consent : BOOLEAN,
            charge : BOOLEAN, lock : BOOLEAN, account : Accounts,
            rate : BOOLEAN, maintenance : Maintenances]

ActionStages == {"SEARCH", "RESERVE", "PAY"}
-----------------------------------------------------------------------------
(* guards.ts *)

ReadsMaintained(s) == s.maintenance \in {"NONE", "MONITORING_ONLY"}

SearchFailures(s) ==
  {g \in {"providerApprovedAndCapable", "providerEnabledAndBreakerClosed", "maintenanceOff"} :
     \/ g = "providerApprovedAndCapable" /\ s.compliance = "PROHIBITED"
     \/ g = "providerEnabledAndBreakerClosed" /\ (~s.enabled \/ s.breaker = "OPEN")
     \/ g = "maintenanceOff" /\ ~ReadsMaintained(s)}

\* Guards 6 and 7.  AUTO_HOLD and AUTHORIZED_AUTO_BOOKING hold a seat on the
\* user's behalf, so they need the consent a payment needs.
ConsentNeeded(s, action) ==
  action = "PAY" \/ s.mode \in {"AUTO_HOLD", "AUTHORIZED_AUTO_BOOKING"}

WriteFailures(s, action) ==
  {g \in {"dryRunOff", "providerApprovedAndCapable", "providerEnabledAndBreakerClosed",
          "globalAutoBookingEnabled", "modePermitsAction", "consentRecorded",
          "chargeAuthorized", "lockHeldWithFencingToken", "accountActive",
          "rateLimitTokenAcquired", "maintenanceOff"} :
     \/ g = "dryRunOff" /\ s.dryRun
     \/ g = "providerApprovedAndCapable" /\ (s.compliance # "APPROVED" \/ ~s.autoBooking)
     \/ g = "providerEnabledAndBreakerClosed" /\ (~s.enabled \/ s.breaker = "OPEN")
     \/ g = "globalAutoBookingEnabled" /\ ~s.global
     \/ g = "modePermitsAction" /\ s.mode \in {"MONITOR_ONLY", "AUTO_FILL"}
     \/ g = "consentRecorded" /\ ConsentNeeded(s, action) /\ ~s.consent
     \/ g = "chargeAuthorized" /\ ~s.charge
     \/ g = "lockHeldWithFencingToken" /\ ~s.lock
     \/ g = "accountActive" /\ s.account # "ACTIVE"
     \/ g = "rateLimitTokenAcquired" /\ ~s.rate
     \/ g = "maintenanceOff" /\ ~ReadsMaintained(s)}

GuardFailures(s, action) ==
  IF action = "SEARCH" THEN SearchFailures(s) ELSE WriteFailures(s, action)

GuardsAllow(s, action) == GuardFailures(s, action) = {}

\* assertSubmissionAllowed: "NONE" when it does not throw.
GuardCode(s, action) ==
  IF GuardsAllow(s, action) THEN "NONE"
  ELSE IF "dryRunOff" \in GuardFailures(s, action) THEN "DRY_RUN_BLOCKED"
  ELSE "FORBIDDEN"

\* assertWarmupNeverBooks
WarmupAllows(purpose, risk) ==
  risk = "READ" \/ purpose \notin {"WARMUP", "BURST_VALIDATION"}
-----------------------------------------------------------------------------
(* compliance.ts *)

Operations == {"SEARCH", "VIEW_TRIP", "HEALTH_CHECK", "LOGIN", "START_RESERVATION",
               "SUBMIT_PASSENGERS", "HOLD", "CONFIRM", "AUTO_BOOK", "CANCEL", "REFUND"}

Risk(op) ==
  CASE op \in {"SEARCH", "VIEW_TRIP", "HEALTH_CHECK"} -> "READ"
    [] op \in {"CONFIRM", "AUTO_BOOK"} -> "AUTOMATION"
    [] OTHER -> "WRITE"

\* Mutant: the kill switch stops what writes, as guard 4 does.
KillSwitchStopsWrites(op, context) == context.killSwitch /\ Risk(op) # "READ"

KillSwitchStops(op, context) == context.killSwitch

\* An adapter's compliance has a status and a list of blocked operations, a
\* context has dryRun, killSwitch and automationEnabled.
OperationAllowed(status, blocked, op, context) ==
  /\ ~KillSwitchStops(op, context)
  /\ status # "PROHIBITED"
  /\ op \notin blocked
  /\ status = "NOT_REVIEWED" => Risk(op) = "READ"
  /\ context.dryRun => Risk(op) = "READ"
  /\ Risk(op) = "AUTOMATION" => context.automationEnabled

OperationCode(status, blocked, op, context) ==
  IF OperationAllowed(status, blocked, op, context) THEN "NONE"
  ELSE IF Risk(op) # "READ" /\ context.dryRun THEN "DRY_RUN_BLOCKED"
  ELSE "COMPLIANCE_BLOCKED"

Adapters == [status : Compliances, blocked : Blockings, autoBooking : BOOLEAN,
             hold : BOOLEAN, thirdParty : BOOLEAN,
             captcha : {"NEVER", "SOMETIMES", "ALWAYS", "UNKNOWN"}]

\* assertComplianceConsistent, which register and override ask first, and the
\* checks of validateCapabilityMatrix on these capabilities.
Consistent(a) ==
  /\ ~(a.autoBooking /\ a.thirdParty)
  /\ ~(a.status = "APPROVED" /\ a.captcha = "ALWAYS")

MatrixHolds(a) == ~(a.autoBooking /\ a.thirdParty) /\ ~(a.hold /\ a.captcha = "ALWAYS")

Registered(adapters) == {a \in adapters : Consistent(a)}

Searchable(adapters) == {a \in Registered(adapters) : a.status # "PROHIBITED"}
-----------------------------------------------------------------------------
GateQuestion == question.kind = "gates"

AsAdapter(s) == {a \in Registered(Adapters) :
                   a.status = s.compliance /\ a.autoBooking = s.autoBooking}

\* The gate is told of dry-run what the guards are told.  Its two flags are its
\* own: the guards have one signal that stands for both the kill switch and the
\* flag AUTO_BOOKING_GLOBAL.
Contexts(s) ==
  [dryRun : {s.dryRun}, killSwitch : BOOLEAN, automationEnabled : BOOLEAN]

\* The operations a stage of a booking makes.
StageOperations(action) ==
  CASE action = "SEARCH"  -> {"SEARCH", "VIEW_TRIP"}
    [] action = "RESERVE" -> {"START_RESERVATION", "SUBMIT_PASSENGERS", "HOLD"}
    [] action = "PAY"     -> {"CONFIRM", "AUTO_BOOK"}

\* A later stage is never easier than an earlier one.
StagesNest(s) ==
  /\ GuardsAllow(s, "PAY") => GuardsAllow(s, "RESERVE")
  /\ GuardsAllow(s, "RESERVE") => GuardsAllow(s, "SEARCH")

\* How far the two gates agree.  Of what the guards let through, the compliance
\* gate refuses exactly what the adapter blocks, everything under the kill
\* switch, reads included, and automation while its flag is off: blockedOperations
\* is nothing the guards look at, and their signal for the kill switch does not
\* stop a search.  An adapter the guards let write takes its own payments and puts
\* no challenge in the way of every reservation.
GatesDiffer(s) ==
  \A action \in ActionStages : GuardsAllow(s, action) =>
    \A a \in AsAdapter(s) :
      /\ \A op \in StageOperations(action), context \in Contexts(s) :
           OperationAllowed(a.status, a.blocked, op, context) <=>
             /\ op \notin a.blocked /\ ~context.killSwitch
             /\ action = "PAY" => context.automationEnabled
      /\ a \in Searchable(Adapters)
      /\ action # "SEARCH" => ~a.thirdParty /\ a.captcha # "ALWAYS" /\ MatrixHolds(a)

\* A write in dry-run is refused by both gates as such, whatever else is wrong
\* with it (compliance.ts:11).
DryRunIsNamed(s) ==
  s.dryRun =>
    /\ \A action \in {"RESERVE", "PAY"} : GuardCode(s, action) = "DRY_RUN_BLOCKED"
    /\ \A op \in Operations, blocked \in Blockings, context \in Contexts(s) :
         Risk(op) # "READ" =>
           OperationCode(s.compliance, blocked, op, context) = "DRY_RUN_BLOCKED"

\* The gates do not contradict themselves, differ from each other where
\* GatesDiffer says and nowhere else, and agree on dry-run; and a warm-up may do
\* just what dry-run lets an approved provider that blocks nothing do.
GatesAgree ==
  GateQuestion =>
    /\ StagesNest(question) /\ GatesDiffer(question) /\ DryRunIsNamed(question)
    /\ \A op \in Operations :
         WarmupAllows("WARMUP", Risk(op)) <=>
           OperationAllowed("APPROVED", {}, op,
             [dryRun |-> TRUE, killSwitch |-> FALSE, automationEnabled |-> TRUE])
=============================================================================

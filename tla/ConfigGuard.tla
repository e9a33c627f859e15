----------------------------- MODULE ConfigGuard -----------------------------
(***************************************************************************)
(* loadConfig of packages/config/src/index.ts: the problems it finds in    *)
(* the environment, and what reaches the submission guards when it finds   *)
(* none.  A value is what its checks can tell apart; the schema's own      *)
(* checks and defaults have been passed.                                   *)
(***************************************************************************)
EXTENDS SubmissionGates

Environments ==
  [kind : {"config"}, production : BOOLEAN, dryRun : BOOLEAN, understood : BOOLEAN,
   payment : {"test", "live"}, strongSecrets : BOOLEAN, stores : BOOLEAN,
   masterKeys : {"absent", "malformed", "valid"}, lookupKey : BOOLEAN,
   botToken : BOOLEAN, webhookSecret : BOOLEAN]

\* parseMasterKeys: a problem in any environment, and no key.
KeyProblems(env) == IF env.masterKeys = "malformed" THEN {"MASTER_KEYS is malformed"} ELSE {}
HasKeys(env)     == env.masterKeys = "valid"

ProductionProblems(env) ==
  {p \in {"weak secret", "store missing", "MASTER_KEYS missing", "LOOKUP_HASH_KEY missing",
          "TELEGRAM_BOT_TOKEN missing"} :
     \/ p = "weak secret" /\ ~env.strongSecrets
     \/ p = "store missing" /\ ~env.stores
     \/ p = "MASTER_KEYS missing" /\ ~HasKeys(env)
     \/ p = "LOOKUP_HASH_KEY missing" /\ ~env.lookupKey
     \/ p = "TELEGRAM_BOT_TOKEN missing" /\ ~env.botToken /\ env.webhookSecret}

Armed(env) == env.production /\ ~env.dryRun /\ env.understood /\ env.payment = "live"

\* Mutant: production is confirmation enough.
LiveProblemsUnconfirmed(env) ==
  {p \in {"DRY_RUN=false outside production", "PAYMENT_MODE=live outside production"} :
     \/ p = "DRY_RUN=false outside production" /\ ~env.dryRun /\ ~env.production
     \/ p = "PAYMENT_MODE=live outside production" /\ env.payment = "live" /\ ~env.production}

LiveProblems(env) ==
  {p \in {"DRY_RUN=false outside production", "DRY_RUN=false unconfirmed",
          "PAYMENT_MODE=live not armed", "PAYMENT_MODE=live outside production"} :
     \/ p = "DRY_RUN=false outside production" /\ ~env.dryRun /\ ~env.production
     \/ p = "DRY_RUN=false unconfirmed" /\ ~env.dryRun /\ ~env.understood
     \/ p = "PAYMENT_MODE=live not armed" /\ env.payment = "live" /\ ~Armed(env)
     \/ p = "PAYMENT_MODE=live outside production" /\ env.payment = "live" /\ ~env.production}

Problems(env) ==
  KeyProblems(env) \cup LiveProblems(env)
    \cup (IF env.production THEN ProductionProblems(env) ELSE {})

Starts(env) == Problems(env) = {}

\* Every signal but dry-run is as good as it can be.
BestSignals(env) ==
  [kind |-> "gates", dryRun |-> env.dryRun, compliance |-> "APPROVED", autoBooking |-> TRUE,
   enabled |-> TRUE, breaker |-> "CLOSED", global |-> TRUE,
   mode |-> "AUTHORIZED_AUTO_BOOKING", consent |-> TRUE, charge |-> TRUE, lock |-> TRUE,
   account |-> "ACTIVE", rate |-> TRUE, maintenance |-> "NONE"]

\* index.ts:211: of the processes that start, only one in production, with an
\* explicit confirmation, its own secrets and a key ring, can ever get a write
\* past the guards; and one that takes live payments is able to.
OnlyProductionSubmits ==
  question.kind = "config" /\ Starts(question) =>
    /\ (\E action \in {"RESERVE", "PAY"} : GuardsAllow(BestSignals(question), action)) =>
         /\ question.production /\ question.understood
         /\ question.strongSecrets /\ HasKeys(question)
    /\ question.payment = "live" => GuardsAllow(BestSignals(question), "PAY")
=============================================================================

-------------------------- MODULE MigrationRunner ---------------------------
(***************************************************************************)
(* raja-migrate and raja-seed: packages/database/src/migrate.ts, cli/      *)
(* migrate.ts and cli/seed.ts over the table schema_migrations.            *)
(*                                                                         *)
(* Runners are processes: replicas that boot at once, possibly with images *)
(* of different age, so the checksum a runner knows for a migration may    *)
(* differ from another's.  A runner plans, then waits for the advisory     *)
(* lock, then applies what it planned, one transaction per migration.  The *)
(* lock belongs to the runner's connection: a runner makes its calls one   *)
(* after another, so its pool holds one connection, and the lock goes when *)
(* the runner does.  A statement may fail, by the 15 s statement timeout   *)
(* or otherwise; a failed runner exits and may be started again.           *)
(***************************************************************************)
EXTENDS Naturals, Sequences

CONSTANTS Migrations,   \* how many there are; they are numbered in order
          Runners,
          Checksums,
          NotApplied, NoRunner

ASSUME MigrationAssumption ==
  /\ Migrations \in Nat \ {0}
  /\ NotApplied \notin Checksums /\ NoRunner \notin Runners

Names == 1 .. Migrations

VARIABLES
  image,     \* per runner: the checksum of each migration it ships
  journal,   \* schema_migrations.checksum, NotApplied where there is no row
  executed,  \* the migrations whose SQL has been committed, in that order
  advisory,  \* who holds the advisory lock
  boot,      \* per runner: the step it is at
  pending,   \* per runner: what it has left of the plan it made
  demo       \* the demo tenant, its wallet and the wallet's one deposit exist

migrationVars == <<image, journal, executed, advisory, boot, pending, demo>>

Applied(m) == journal[m] # NotApplied

\* plan(): what is pending and what has drifted, as runner r sees it.
Unapplied    == {m \in Names : ~Applied(m)}

\* Mutant: a known name is enough.
DriftedNever(r) == {}

Drifted(r)   == {m \in Names : Applied(m) /\ journal[m] # image[r][m]}

First(S) == CHOOSE m \in S : \A n \in S : m <= n

MigrationInit ==
  /\ image \in [Runners -> [Names -> Checksums]]
  /\ journal = [m \in Names |-> NotApplied]
  /\ executed = <<>>
  /\ advisory = NoRunner
  /\ boot = [r \in Runners |-> "start"]
  /\ pending = [r \in Runners |-> {}]
  /\ demo = FALSE
-----------------------------------------------------------------------------
Become(r, step) == boot' = [boot EXCEPT ![r] = step]

\* The runner's connection is gone, or the finally block has unlocked.
Release(r) == advisory' = IF advisory = r THEN NoRunner ELSE advisory

Plan(r) ==
  /\ boot[r] = "start"
  /\ IF Drifted(r) # {}
     THEN Become(r, "failed") /\ UNCHANGED pending
     ELSE Become(r, "lock") /\ pending' = [pending EXCEPT ![r] = Unapplied]
  /\ UNCHANGED <<image, journal, executed, advisory, demo>>

TakeLock(r) ==
  /\ boot[r] = "lock"
  /\ advisory = NoRunner
  /\ advisory' = r
  /\ Become(r, "apply")
  /\ UNCHANGED <<image, journal, executed, pending, demo>>

\* Mutant: the journal has no primary key.
AdmittedAlways(m) == TRUE

\* The name is the primary key of schema_migrations.
Admitted(m) == ~Applied(m)

\* The SQL and the INSERT of the name, in one transaction.
Apply(r) ==
  /\ boot[r] = "apply" /\ pending[r] # {}
  /\ LET m == First(pending[r]) IN
       IF Admitted(m)
       THEN /\ journal' = [journal EXCEPT ![m] = image[r][m]]
            /\ executed' = Append(executed, m)
            /\ pending' = [pending EXCEPT ![r] = @ \ {m}]
            /\ UNCHANGED <<boot, advisory>>
       ELSE /\ Become(r, "failed")
            /\ Release(r)
            /\ UNCHANGED <<journal, executed, pending>>
  /\ UNCHANGED <<image, demo>>

Finish(r) ==
  /\ boot[r] = "apply" /\ pending[r] = {}
  /\ Become(r, "done")
  /\ Release(r)
  /\ UNCHANGED <<image, journal, executed, pending, demo>>

\* A statement fails, or the process dies: an open transaction rolls back.
Fail(r) ==
  /\ boot[r] \in {"start", "lock", "apply"}
  /\ Become(r, "failed")
  /\ Release(r)
  /\ UNCHANGED <<image, journal, executed, pending, demo>>

\* The container starts again.
StartAgain(r) ==
  /\ boot[r] = "failed"
  /\ Become(r, "start")
  /\ UNCHANGED <<image, journal, executed, advisory, pending, demo>>

\* raja-seed --demo looks at the pending migrations only; every INSERT says ON
\* CONFLICT DO NOTHING.  --reset first deletes the demo tenant, which cascades
\* to the append-only deposit and so fails once the demo exists.
Seed(reset) ==
  /\ Unapplied = {}
  /\ reset => ~demo
  /\ demo' = TRUE
  /\ UNCHANGED <<image, journal, executed, advisory, boot, pending>>

\* checkMigrationChecksums of verify.ts, which bootstrap runs after the
\* migrations, with the image of r: nothing pending, nothing drifted.
ChecksumsVerified(r) == \A m \in Names : journal[m] = image[r][m]

Run(r) ==
  Plan(r) \/ TakeLock(r) \/ Apply(r) \/ Finish(r) \/ Fail(r) \/ StartAgain(r)

MigrationNext ==
  \/ \E r \in Runners : Run(r)
  \/ \E reset \in BOOLEAN : Seed(reset)

MigrationSpec == MigrationInit /\ [][MigrationNext]_migrationVars
-----------------------------------------------------------------------------
MigrationTypeOK ==
  /\ image \in [Runners -> [Names -> Checksums]]
  /\ journal \in [Names -> Checksums \cup {NotApplied}]
  /\ executed \in Seq(Names)
  /\ advisory \in Runners \cup {NoRunner}
  /\ boot \in [Runners -> {"start", "lock", "apply", "done", "failed"}]
  /\ pending \in [Runners -> SUBSET Names]
  /\ demo \in BOOLEAN

\* The schema is what the journal says: the migrations were executed in their
\* order, each once, and those of the journal are the ones executed.
SchemaMatchesJournal ==
  /\ executed = [i \in 1 .. Len(executed) |-> i]
  /\ \A m \in Names : Applied(m) <=> m <= Len(executed)

\* A runner that exits with 0 leaves every migration applied with the checksum
\* it ships, whoever applied it, though it planned before it had the lock: its
\* own migration_checksums check passes from then on.
DoneMeansCurrent ==
  \A r \in Runners : boot[r] = "done" => ChecksumsVerified(r)

\* Forward only: no runner replaces or removes a row of the journal or adds one
\* before all the earlier ones are there, and demo data is only ever found on a
\* complete schema.
ForwardOnly ==
  [][/\ \A m \in Names : Applied(m) => journal'[m] = journal[m]
     /\ \A m \in Names : ~Applied(m) /\ Applied(m)' => \A n \in Names : n < m => Applied(n)
     /\ demo' => Unapplied' = {}]_migrationVars
=============================================================================

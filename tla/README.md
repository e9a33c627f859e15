# Formal model of the booking monitor

This directory holds TLA+ modules that model the core of the repository, the
TLC configurations that check them on small instances, and proofs that TLAPS
checks for every value of the constants. All paths below are relative to the
repository's root. `PROJECT.json` maps each definition to the lines it models,
and lists the runs, the mutants, the hazards, the findings and the theorems.

    tlc -workers 2 -config booking.cfg MCBooking.tla
    tlapm BookingServiceProofs.tla

## 1. The system

A TypeScript monorepo over PostgreSQL. Users ask for a train ticket; workers
watch providers for it, hold and book it; an HTTP API and a Telegram bot are
the front ends. Several replicas of each process share one database, and the
database is the only thing they share: rows, row locks, unique indexes.

| Component | State it keeps | Operations | Must be true |
| --- | --- | --- | --- |
| Booking state machine, `packages/booking/src/state-machine.ts` | none: a table of 48 rows over 18 states | `assertTransition`, `assertInvariants`, `sideEffectsFor` | terminal states have no way out; nothing is submitted without an offer |
| Booking service, `packages/booking/src/service.ts` | `booking_requests`, `booking_transitions`, `booking_timeline_events`, `booking_monitors`, `reservations`, `booking_results` | `createRequest`, `addMonitor`, `transition`, `cancelLowerPriorities`, `selectResult` | the history is a path of the table; one request per idempotency key; a cancellation is stamped; auto-cancel never takes what was submitted; one offer is chosen and stays chosen |
| Booking decisions, `guards.ts`, `matching.ts`, `monitoring.ts` | none | pure functions | a submission passes every gate; a better offer never ranks below; searches keep their floors |
| Egress pool, `packages/proxy/src/{pool,quarantine,rotation,selector.sql}.ts` | `proxies`, `proxy_health_samples`, `proxy_events` | `acquire`, `release`, `recordHealth` | a worker's proxy is its own; what is out of service is not handed out; a rest ends in a probe |
| Prober and maintenance, `packages/proxy/src/prober.ts`, `apps/scheduler/src/index.ts` | the running pass | `proxiesDueForProbe`, `probeOne`, `runProxyMaintenance` | a proxy whose rest is over is probed |
| Worker runtime, `apps/worker/src/index.ts` | the lease it holds | `ensureEgress`, `reportEgressHealth`, `close` | it uses only a proxy it holds |
| Proxy administration, `packages/proxy/src/{admin,settings}.ts` | the catalogue, `proxy_events`, `system_settings` | `create`, `update`, `setEnabled`, `remove` | about 200 proxies at most; a removal is on record |
| Sessions, `packages/auth/src/session.ts` | `sessions`, the token version in memory | `create`, `authenticate`, `rotate`, `revoke`, `revokeAllForUser`, `invalidateIssuedTokens` | a family grows as a chain; what is revoked stays so once no rotation is in flight |
| Telegram linking, `packages/auth/src/telegram-link.ts` | `telegram_link_challenges`, `telegram_links` | `createChallenge`, `consumeChallenge`, `unlink` | a code is redeemed once, for its owner |
| Authorisation, `packages/auth/src/rbac.ts`, `packages/shared/src/permissions.ts` | none: a table of roles | `can`, `assertPermission`, `assertTenantAccess`, `authorize` | how far the tenant predicate reaches, and past it only what a condition or staff rights let |
| Database client, `packages/database/src/{client,repository,scope}.ts` | connections and who waits for one | `query`, `exec`, `transaction`; scoped statements | a transaction is all or nothing, and its caller is told which |
| Migration runner, `packages/database/src/migrate.ts`, `cli/` | `schema_migrations`, an advisory lock | `migrateUp`, seed | each migration is applied once, in order, unchanged |
| Consistency checks, `verify.ts` and the triggers of `0002_hardening.sql` | `audit_events` | read-only counts, hash chain | what the chain covers is as it was written, or the check says so |
| Provider SDK, `packages/provider-sdk/src` | registry, mock provider | compliance gate, capabilities, de-duplication | no automated booking where it is not allowed |
| HTTP API, `apps/api/src/index.ts` | failure windows per address | routes, the brake on failed authentication | a window never lets more attempts through than its limit |
| Config, `packages/config/src/index.ts` | none: read once at start | `loadConfig` | only production, confirmed, books for real |
| Shared helpers, crypto, logging, localisation | none that changes | time zones, money, jitter | conversions are exact |

How they interact: the API, the workers and the scheduler call the services as
libraries, in their own process. A service method is a handful of SQL
statements, some in a transaction, some not. The worker calls the pool before
a provider call (`ensureEgress`) and after it (`reportEgressHealth`); the
scheduler probes the pool and expires rows; the administrator edits the
catalogue.

What is hard to test here: two replicas between two statements of one method;
a transaction that decides on a status it read before it waited for a lock; a
crash after COMMIT and before the statement that follows; values read before
an HTTP probe and written after it, over whatever was written meanwhile; a
lease its holder goes on using after it ran out; two rules written in two
places that have to agree; arithmetic at a tie, a rounding or a change of the
clock. Each place is in `hazards`
of `PROJECT.json`, with the properties that cover it or the reason none does.

## 2. The modules

| Module | What it is |
| --- | --- |
| `BookingStates` | the 18 states, the transition table and its classes, the rows with the effect `monitors:stop` |
| `BookingService` | every writing method of the service but `selectResult`, cut where another caller can run |
| `BookingLifecycle` | the abstract specification: seven phases of a request |
| `MCBooking` | instances for TLC |
| `BookingServiceProofs` | theorems |
| `ProxyRules` | decisions without state: rotation, quarantine, verdict of a health sample |
| `ProxyPool` | workers, scheduler and administrator over the table `proxies` |
| `MCProxyPool`, `MCProxyScenes` | instances for TLC; two scenes over one proxy |
| `ProxyPoolProofs` | theorems |
| `ResultSelection` | `selectResult` over the offers of one request, with PostgreSQL's snapshots, row locks and unique index |
| `Sessions` | `SessionService`, cut at its awaits |
| `TelegramLink` | `TelegramLinkService`, cut at its awaits |
| `MigrationRunner` | `migrateUp` by several replicas with different images, and the seed |
| `DatabaseClient` | statements and transactions of one process over its connections |
| `ProxyAdmin` | the administrators over the catalogue and its events |
| `ApiLimits` | the brake on failed authentication |
| `AuditTrail` | the hash chain of `audit_events` and the check of it |
| `MCServices` | these eight side by side, for TLC |
| `ResultSelectionProofs` | theorems |
| `AuthProofs` | theorems of `Sessions` and `TelegramLink` |
| `AdminApiProofs` | theorems of `ProxyAdmin` and `ApiLimits` |
| `DatabaseProofs` | theorems of `MigrationRunner`, `DatabaseClient` and `AuditTrail` |
| `ServicesProofs` | that the eight together behave as each does alone, and their types |
| `Decisions` | the question a pure function is asked; rounding |
| `SubmissionGates` | submission guards, warm-up rule, compliance gate, registry |
| `ConfigGuard` | the problems that keep a process from starting, on top of the gates |
| `MonitoringRules` | when a monitor searches next |
| `OfferMatching` | match, score, rank, pair, de-duplicate |
| `AccessRules` | roles, grants, scoped statements with the conditions callers write, the textual check |
| `LocalTime`, `MoneyRules` | wall clocks; amounts |
| `MCDecisions` | the questions TLC asks |
| `DecisionProofs` | theorems of all the pure functions |

### Booking: model and code

A step of the model is a piece of a method that no other caller can see into.

- `createRequest` is three pieces, as it is not one transaction: the replay
  lookup (`Lookup`), the INSERT (`Insert`, or `InsertConflict` when the unique
  index on (tenant, key) refuses it) and `appendTimeline` (`Announce`).
- `transition` is the locking SELECT (`BeginTransition`) and everything after
  it (`CommitTransition`, `RejectTransition`): other callers see nothing of an
  open transaction, so its writes happen at COMMIT. The status it decides on is
  `seen`, the one it read; that it is still the current one is a property
  (`LocksAreSound`), not an assumption.
- `cancelLowerPriorities` locks its rows one after the other, in no given
  order, and PostgreSQL evaluates the WHERE clause again on each row it had to
  wait for: `BeginSweep`, one `SweepLock` per row, `SweepCommit`.
- `Abort` is a crash or a lost connection between any two pieces; the database
  rolls back what is open. `DeadlockVictim` is PostgreSQL's detector.
- `OpenReservation` and `CloseReservation` stand for the orchestrator, which
  this commit does not contain; they write `reservations` within its unique
  index, and are marked as external in the map.

`booking_transitions` is kept whole, in `log`: the properties about history
are about that table and not about a variable invented for them.

`selectResult` reads and writes `booking_results` and nothing else, and no
other method of the service touches that table: it is `ResultSelection`, by
itself. Its first UPDATE is cut between the snapshot (`BeginSelect`) and the
rows it then locks (`ClearSelected`), because a row chosen in between is one it
does not see; `SelectionIsFree` is the partial unique index.

A cancellation's reason is one of four: none, an empty text, the caller's, the
auto-cancel's. `StampedReason` is the expression of the UPDATE: an empty text
counts as none, and then the one that is there stays.

Left out: payloads, texts, actors and metadata; reads that change nothing.

### Proxy pool: model and code

- `acquire` is its SELECT with `selectProxy` (`Select`) and the claiming
  transaction (`Claim`, `ClaimFails`). The transaction is one step: its first
  UPDATE touches only rows the worker itself holds, its second only one row, so
  nothing another process does in between can be told from the same thing
  done before or after. The LEASE_ACQUIRED event is inserted after COMMIT and
  may fail: then the row is assigned and the worker has no lease.
- `recordHealth` is its SELECT with the decision (`ReportRead`, `ProbeRead`)
  and its UPDATE (`ReportWrite`, `ProbeWrite`). The UPDATE writes absolute
  values computed from the row that was read, as the code does, so a late
  UPDATE overwrites a newer one.
- `reportEgressHealth` looks at the status afterwards (`CheckStatus`).
- A maintenance pass is `BeginPass`, then `Resolve`, `ProbeRead`, `ProbeWrite`
  for each proxy. `Crash`, `Close` and `RestartScheduler` end processes
  anywhere.
- `Create`, `SetEnabled`, `Remove` are the administrator.

Abstractions: a health sample is its five signals, not an HTTP response. Time
is an integer; one clock stands for the processes' clocks and the database's.
The counters `failures` and `offences` stop at the value beyond which no
decision of the code tells them apart. Points of health are parameters (in the
code 5 and 3 for a good sample, 12 and 18 for a bad one, by source). Egress
mode OFF, in which nothing happens, is left out, and so is the
preference for a proxy already used with a provider: the worker passes no
provider code. Each process makes one call at a time. `rest` is a history
variable: when the last quarantine of a proxy was written and when it ends.

### Services: model and code

Each is the code of one service over its tables. A method is cut wherever it
awaits the database outside a transaction, a transaction is cut where it can
wait for a lock or where two snapshots differ, and a call, or its process,
may die at every cut.

- `Sessions`. `rotate` is `RotateRead`, `RotateOwner`, `RotateCommit`, `Sign`,
  or `RotateRead`, `ReuseDetected` for a token already revoked. `Replaced` is
  its transaction; that nobody looks at the number of rows of its UPDATE is
  what `session_reuse` and the word "stray" in the properties are about.
  `authenticate` writes nothing and is the predicate `Accepts`. The token
  version is the process's and is zero after `Restart`.
- `TelegramLink`. `createChallenge` is `Supersede` and `Issue`;
  `consumeChallenge` is `ConsumeCode` (row lock), `CheckTelegram`,
  `InsertLink`, where the partial unique index may refuse and roll back.
- `MigrationRunner`. `Plan` comes before `TakeLock`, as in the code, so a plan
  may be stale; `Apply` runs one migration and its journal row in one
  transaction, the primary key of the journal refuses one that is there. Each
  runner has an image, its own checksums. The runner's pool has a single
  connection, so lock, statements and unlock share a session.
- `DatabaseClient`. `PGliteClient` is the case of one connection, with the
  promise chain of `serialize` as `line`; `PgClient` is a pool that serves its
  waiting callers in turn. `transaction` is `BeginOn`, statements, `CommitOn`
  or `RollbackOn`, `ReleaseConnection`. A nested `transaction` throws, which is
  a case of `FunctionThrows`. `PgClient` listens to no error of an idle
  connection, so the loss of a connection ends the process: `ProcessDies`,
  which a COMMIT under way may or may not precede. No function the services
  pass to `transaction` catches a failed statement and goes on.
- `ProxyAdmin`. No method is a transaction: `create` is a count, an INSERT and
  an event; `update` a SELECT, an UPDATE of every column of the form, an event;
  `remove` a SELECT, an event, a DELETE. The event's foreign key fails once the
  proxy is gone.
- `ApiLimits`. The map of windows, the hook that counts and the timer that
  deletes. `refusals` is a history variable: for each address the answers it
  got, each with its moment and the window it was counted in.
- `AuditTrail`. The trigger reads the last *committed* row by id; nothing in
  the repository inserts audit events but tests, so the writers are external.
  A row is the text the trigger hashes and the rest of it, which the hash does
  not cover: `actor_type`, `actor_user_id`, `tenant_id`, `metadata`, `ip_hash`,
  `user_agent_hash`. `AlterEvent` (either part) and `LoseEvent` are a restore or
  a superuser.

### Decisions: model and code

A pure function is an operator with the same cases in the same order of
precedence; a *question* is a tuple of its inputs, and the properties say what
must hold of every question. Sets of failed guards, rejections and problems
stand for the lists the code builds. Scores, intervals and rounding are exact
integer arithmetic: `RoundDiv` is `Math.round` of a fraction. Permissions that
no rule tells apart are one permission. Times are minutes, a zone has two
offsets and a season. Strings are their parts. `Backoff` caps its exponent at
ten, from where on the result is the cap anyway. `Arranged` is `filter` and the
stable `sort` of JavaScript in one: the chosen positions of a list, each at the
place that the number of entries before it gives, so that it can be reasoned
about without recursion.

`SubmissionGates` keeps the inputs of its two gates apart, as the code does: the
guards have one signal for guard 4, the compliance gate has a kill switch and an
automation flag of its own, and an adapter lists blocked operations that the
guards are not shown. `AccessRules` takes a WHERE clause as what its OR makes of
it, alternatives, each with the comparisons of `tenant_id` it holds:
`InList` puts the tenant predicate before the caller's condition as `listScoped`
does, where it joins the first alternative, and `ScopeAsserted` finds a
`tenant_id` with an operator anywhere or throws.

## 3. What the runs check

Passing runs (bounds in the cfg and in the MC modules):

| Run | Question |
| --- | --- |
| `booking` | Does the history of a request stay a path of the table, and does the service implement `BookingLifecycle`, when two callers drive it, abort, and race reservations and monitors? May an auto-cancel that chose a row earlier cancel what was submitted meanwhile, touch a terminal row, or leave a cancellation unstamped or a monitor running? |
| `booking_calls` | Is a key one request under retries, conflicts and crashes, and does every call return although two auto-cancels lock two rows in opposite orders? |
| `proxy` | Does a worker's proxy stay its own, and is nothing handed out that went out of service between SELECT and claim? Do stale verdicts of a worker and a probe, written over each other, ever leave a row whose status and window contradict? |
| `proxy_probes` | May a worker that rotates ever hold two rows, and is every rest that is over followed by a probe, although the scheduler is restarted in a pass? |
| `services` | Eight services, one per behaviour: do overlapping calls, deaths and restarts leave a family of sessions with two usable ends, a code redeemed twice, a schema its journal does not describe, a half-kept transaction, a proxy removed without a trace, a request without its chosen offer or with two, a family that lives on after a logout and every rotation in flight, an audit trail its check misjudges? |
| `decisions` | Where exactly do the two submission gates differ, and how far does the tenant predicate reach? Do the other pure decisions keep their orders and their bounds, and invert what they should invert? |

Bounds and why they are enough. Booking: 11 rows of history, `FullOrLoser`, reach
every state and use every row of the table, with the detour over the passenger
form or the human verification; two callers are what a race needs. A behaviour
of `booking` has one of two casts, a request that lives its whole life or a
winner and a loser of another journey on the way to a lock, as no step concerns
both journeys. Two swept rows and two sweepers are the smallest deadlock; a
winner and one loser show every interleaving of one loser's row, and rows
interact only through locks. Proxies: two workers are what a race for one proxy
needs, two proxies what a rotation needs. A behaviour of `proxy` plays one of
two scenes (`MCProxyScenes`): all the actors with few samples, or all the
samples with few actors; the theorems know no scenes. Time is scaled to rest 1,
lease 1 and probe interval 1, so that a clock of 2 or 3 lets a rest and a lease
run out, `DeadAfter` is 3 in place of 5, and points of health are 0 or 50 so
that two samples cross the floor. `Alike` makes workers interchangeable; it is
used only where invariants and action properties are checked, never with
liveness.

Services: the parts share no state, so `part` picks one and the others stand
still; their interleavings would add states and no behaviour. Three sessions
hold a chain and a stray, two calls race for one token, one tick lets both
tokens expire; three codes for two owners and one Telegram account let one owner
have two codes and both meet in the unique index; three migrations, two runners
and two checksums allow a stale plan, a gap and drift; two ids over a limit of
one pass it; five moments hold two windows and the sweep between them; two
offers, an unknown one and three selectors make one caller wait for a row a
second has cleared while the third sets; three audit events have an interior,
and two values each of what the hash covers and of the rest change apart; three
calls over two connections wait for each other and inherit one, and two
statements can be half done. `CallSymmetry` makes the calls of `Sessions`
interchangeable, with invariants and action properties only.

Decisions: values lie on both sides of every comparison (an interval below, at
and above the cap of 900 s; a window across midnight; an offer without a price;
30 and 90 seconds to a release; a summer time before, after and equal to the
standard one), and offers come three at a time, in every order, which is what a
tie between two and a third one needs. An adapter blocks nothing, an operation
no stage makes, or every write; a caller's condition has one alternative or two,
with and without each kind of comparison of `tenant_id`.

`CHECK_DEADLOCK FALSE` is said in the pool's runs, where all workers may have
stopped and the clock is bounded, in `services`, `session_reuse`,
`session_logout` and `audit_columns`, where ids, codes and clocks run out, and
in `decisions`, where a question is the end. In booking runs deadlock is
checked.

Fairness. Booking: a call that has begun goes on (weak fairness of each of its
pieces), and a scan that waits for a row is served in turn by that row's lock
queue (strong fairness of `SweepLock`): other callers can take the row again and
again but not overtake for ever. Nothing forces a call to begin. Pool: weak
fairness of the prober's steps only, which is `setInterval` in the scheduler and
the timeouts of its statements and probes. No worker, administrator or clock is
fair. Services and decisions are checked for safety only and state no fairness.

Every property of a passing run has a mutant in `PROJECT.json`: a plausible bug
in a definition of the model, under which TLC finds the property violated.

### Where the code and its documents differ

Each of these is a run that TLC refutes; the counterexamples are short.

| Run | Said | Done |
| --- | --- | --- |
| `booking_monitors` | side effects run in the same transaction as the status write | `transition` records `monitors:stop`, nobody executes it |
| `proxy_users` | one proxy serves at most one live worker | a worker never renews nor checks its lease; after `MAX_LEASE_MS` another takes the proxy |
| `proxy_rest` | recovery requires a successful probe after the window | a good probe inside the window ends the rest at once |
| `session_reuse` | a refresh token is single-use, revoked atomically | `rotate` reads it before its transaction and ignores the row count of the UPDATE that revokes it: two overlapping uses both get a session |
| `session_logout` | revocation is immediate, so "log out all devices" really means it (session.ts:8) | a rotation that read its token before inserts the new session after the logout and issues it: the family lives on |
| `audit_columns` | tampering breaks the chain and is detected (0002_hardening.sql:47) | `actor_user_id`, `tenant_id`, `actor_type`, `metadata`, `ip_hash` and `user_agent_hash` are outside the hash: a change of them is not seen |

Others that follow from reading one or two definitions of the model, so that
no run repeats them.

Booking:

- `SweepCommit` leaves `completed` alone: the auto-cancel does not write
  `completed_at`, which `transition` stamps in every terminal state.
- `TransitionAllowed` reads the table and the number of live reservations, so
  BOOKED is reached without the reservation docs/booking-state-machine.md:119
  requires; the table lets AVAILABLE expire, which line 100 excludes.
- `Announce` is a statement of its own: a crash before it loses the event
  `request_created`, listed (line 76) as in the same transaction.

Proxies:

- `ReportWrite` writes back the verdict computed from the row before its await:
  a success report of the old user, read while the proxy rested, lands after
  it was probed and leased, and makes it rest again with its new holder
  (pool.ts:216; verify.ts:215, "a resting or dead proxy must serve nobody").
- The failure counter already counts the sample when the thresholds are asked
  (pool.ts:168), so the first CAPTCHA rests the proxy; quarantine.ts:83 says
  one "may be incidental".
- A pass takes the first 10 rows of a list ordered by health, lowest first
  (prober.ts:50): proxies that stay unreachable can take every place and others
  whose rest is over wait (apps/scheduler/src/index.ts:5). `proxy_probes`
  checks the pass that has room for all.
- `ProxySettingsService.update` reads, merges and writes: of two concurrent
  updates one is lost. settings.ts:3 says the pool reads the settings at lease
  time; only the API's routes load them.
- `RecordEvent` is a statement of its own after the change: a crash, or a proxy
  removed meanwhile, loses the event (admin.ts:7, an audit row per mutation);
  the DELETE sets the `proxy_id` of the REMOVED event to NULL, so that it no
  longer says which proxy; the acting user's id is not stored.
- `SetEnabled` leaves `status` alone and `DueForProbe` passes over DEAD rows:
  neither re-enabling nor a probe revives a DEAD proxy (docs/proxy-pool.md:24).
- `KeepsLease` looks at `status` only: a worker goes on using a proxy that was
  disabled or removed (docs/proxy-pool.md:31).
- `SelectProxy` does not look at holders, so `Claim` fails on a proxy another
  worker holds while a free one is eligible (pool.ts:60, "when the pool
  cannot serve").

Sessions, links, database:

- A refresh token presented again because the answer of its rotation was lost
  is a reuse like any other: `ReuseDetected` logs the user out.
- `Restart` takes the token version back to zero, so an access token refused
  after a bump may be accepted after a restart until it expires (session.ts:82).
- telegram-link.ts:43-46 says that 256 is a multiple of 32 and that 32 byte
  values are rejected; either would do alone.
- migrate.ts:7 says the lock serialises two replicas booting at once; `Plan` is
  made before the lock, so the second one fails on the journal's primary key
  and succeeds when it is started again.
- `Seed` with `--reset` fails once the demo deposit exists: the delete cascades
  to the append-only ledger.
- verify.ts:176 announces that every attempt sits in a legal state; orphans and
  self-loops are what it counts, and a history that is a path (`HistoryIsPath`)
  has neither.
- Two audit rows inserted by overlapping transactions chain to the same row and
  the chain is broken from then on without any tampering, and the loss of the
  last rows goes unnoticed: both are part of what `VerifyIsExact` says.

Decisions:

- `Throttled` caps at 900 s, so a monitor whose interval is longer is searched
  sooner once it is throttled (monitoring.ts:95); a base above 900 s is cut by
  the back-off's cap too; "tighten gradually" (monitoring.ts:76) goes to the
  floor at once, as minutes are compared with seconds.
- `PriceScore` takes a ceiling of zero for no ceiling, `HardRejections` for the
  limit it is.
- The fingerprint of an offer holds its seats and its price, so "keep the
  better offer" in de-duplication never has two to choose from; two offers with
  one id, equal in score, price and departure, rank in the order they came in;
  `pairItineraries` compares departures, so a return may leave before the
  outbound arrives.
- The two gates differ in what `GatesDiffer` lists and in nothing else. Under
  `killSwitch` "nothing may run against providers at all" (compliance.ts:50);
  guard 4, the kill switch of docs/booking-state-machine.md:147 (guards.ts:38),
  stops no search. `blockedOperations`, which "remain blocked even when
  approved" (types.ts:148), is nothing the guards ask about, so they let through
  a step whose operation `assertOperationAllowed` then refuses.
- guards.ts:132 announces COMPLIANCE_BLOCKED and throws DRY_RUN_BLOCKED.
- With PAYMENT_MODE=test, production and a confirmation are enough to leave
  dry-run, against the comment at config/src/index.ts:211-213;
  `liveBookingArmed` is computed and read by nothing that books.
- permissions.ts:35 lets support staff across tenants; `TenantAccess` asks for
  audit or superuser rights, which they lack. A grant can give `pii:read` to
  anyone (permissions.ts:6).
- `InList`: the condition a caller gives `listScoped` follows the tenant
  predicate without parentheses (repository.ts:84, 88), so one with an OR reads
  rows of other tenants, against "cannot return another tenant's row"
  (repository.ts:52). `ScopeAsserted` accepts any operator after `tenant_id`
  anywhere in the text (scope.ts:83), so raw SQL with `tenant_id <> $1` or an OR
  passes. Nothing in the repository calls `listScoped` yet: what the module says
  is how far the two rules reach by themselves.
- `TenantAccess` lets staff with `audit:read` into any tenant whatever they ask
  permission for, writes included; rbac.ts:9 says that staff do not get
  cross-tenant writes. `authenticate` makes every principal one without the staff
  flag (session.ts:164), so that no session has these rights yet.
- `Multiply` rounds as documented for positive denominators; a negative one is
  admitted and rounds wrongly, and products from 2^53 on are inexact.

## 4. What is proved

Every invariant and every action property the passing runs check is a theorem,
for all values of the constants, under the assumptions the modules name:

- `SentinelAssumption`, `PriorityAssumption`, `TargetsAssumption` (booking);
  `RulesAssumption`, `PoolAssumption` (pool); `SessionsAssumption`,
  `TelegramAssumption`, `MigrationAssumption`, `ClientAssumption`,
  `AdminAssumption`, `SelectionAssumption`, `LimitsAssumption`,
  `AuditAssumption` (services); `TimeAssumption`, `MoneyAssumption`,
  `MonitorAssumption`, `OffersAssumption`, `ConditionsAssumption` (decisions).
  They say that sentinels are not ids, that numbers are in the ranges of the
  columns or of the types, and that subsets are subsets.
- `IdsTellApart` says more: a provider gives offers that cost the same and
  leave together different ids. `rankTrips` breaks its last tie by the id and
  calls itself deterministic for that reason; without the assumption it is
  not, as section 3 notes.

`BookingServiceProofs`
: `TypeCorrect`; `RowLocks`, that a status read under a lock is still current
  when the transaction writes; `HistoryTheorem`, which needs it: a row of the
  history starts where the last one ended because the status could not change
  in between; `SubmissionTheorem`, from the path and the shape of the table;
  `TerminalTheorem`, that a terminal request is never touched again;
  `KeyTheorem`, from the unique index;
  `StampTheorem`, `MonitorTheorem` and `SparesTheorem`, about the auto-cancel;
  `LifecycleTheorem`, that each step of
  the service is a step of `BookingLifecycle` or leaves every phase alone. The
  inductive invariant is the type invariant, `LocksAreSound` and
  `HistoryIsPath`: the history alone is not inductive, as `CommitTransition`
  appends what was seen and not what is there. All theorems go through one
  lemma, `RequestStep`: whatever the step, a request is kept, created, or moved
  along the table (`StampStep` says the same with the cancellation stamps).
  `SparesTheorem` adds `ScansLosers`: what a scan holds, is at, or has yet to
  reach, its winner beats.

`ProxyPoolProofs`
: `TypeCorrect`, that the CHECK constraints are never broken;
  `AssignmentTheorem`, `BackedTheorem`, `UsableTheorem`, `WindowTheorem`. The
  lease invariant `LeaseInv` adds to types that a leased proxy was
  listed, that stamps are not in the future, and what is known of a holder
  between its claim and the next. `WindowInv` adds that every verdict in
  flight is coherent by itself: that is why verdicts that overwrite each other
  leave coherent rows, which no statement about rows alone could show.

`ResultSelectionProofs`
: `SelectionKeptHolds`, `OneSelectedHolds`, `NoMutualWaitHolds`. `SelectInv`
  adds to types and `OneSelected` that one call at most is about to commit and
  replaces whatever is selected (`CommitIsAlone`), and that calls lock selected
  rows only, no two of them the same (`LocksAreSelected`): so row locks are
  never held crosswise.

`AuthProofs`
: of `Sessions`, `SessionTypeHolds`, `FamilyIsLinearHolds`,
  `LogoutSettlesHolds`, `RefusalIsFinalHolds`. `SessionInv` is the type
  invariant, `RowsAreLinked` (a family and a replacement are rows that exist,
  and a replaced row is revoked), `SignedOnce` and `FamilyIsLinear`. The
  hypothesis "no stray" is the exact gap the code leaves: a rotation whose
  UPDATE matched no row. `LogoutSettles` has no such hypothesis: it says which
  step revives a dead family, the end of a rotation that had read its token, and
  that there are ever fewer of those. `RefusalIsFinal` leaves out the restart
  that takes the version back (section 3). Of `TelegramLink`,
  `OneOwnerPerTelegramHolds`, `CodeLinksOnceHolds`, `FewLiveCodesHolds`.
  `LinkInv` adds `RedeemerHoldsCode`: a call that redeems holds the lock of a
  code that is live, which is why no other call can consume it. `FewLiveCodes`
  is inductive because it counts the calls between their two statements too.

`DatabaseProofs`
: of `MigrationRunner`, `SchemaMatchesJournalHolds`, `DoneMeansCurrentHolds`,
  `ForwardOnlyHolds`. `MigrationInv` adds `PlanCoversRest`: what a plan, however
  stale, leaves out is applied with the runner's own checksum, so that a plan
  worked off leaves nothing out. Of `DatabaseClient`, `AllOrNothingHolds`, from
  `ClientInv`: a connection serves one call and a call has one connection
  (`OneConnection`), who waits is in the line once (`LineWaits`), the session of
  a connection fits the step of its call (`SessionFits`), and what a call has
  written is in its batch or stored (`CallFits`). Of `AuditTrail`,
  `VerifyIsExactHolds`, both ways, for writers that overlap or take turns.
  `AuditInv` says that every hash was computed from the text and the `prev` of
  its row as it was written, and that damage leaves `prev` and `hash` alone.
  `EntriesBefore` says that the entries before a row are the last of them and
  the entries before that one, which carries both directions up the chain: in a
  verified trail the hash of that last entry is the list of the texts below, and
  so is what the row was hashed on (`VerifiedIsBuilt`); a trail that is built so
  has that hash in its `prev` (`BuiltIsVerified`).

`AdminApiProofs`
: of `ProxyAdmin`, `RemovalIsRecordedHolds`, from `DeleteIsRecorded`: a call that
  is about to delete has recorded it. `CatalogueNearLimitHolds` counts, as
  `FewLiveCodes` does, the calls that have counted. Of `ApiLimits`,
  `BrakeTheorem`: of 2 * `FailLimit` + 1 answers in a row to one address the
  last comes more than a window after the first. `LimitInv` says that an
  answer lies in the window it was counted in, that two answers `FailLimit`
  apart were counted in windows of which the first had elapsed when the second
  began (`SpacedAnswers`), that the open window has counted the last answers
  and the windows of those before it had elapsed when it began (`CountsLast`),
  and that without an open window all have elapsed, which is what the sweep
  has to respect.

`ServicesProofs`
: `PartsBehave`, that each step of the composition is a step of one component
  and leaves the others alone, so that it implements every component's own
  specification and inherits every theorem above; `ServicesTypeCorrect`, the
  first of them.

`DecisionProofs`
: for all questions: `WallClockRoundTripHolds`,
  `TenantLeftOnlyByConditionHolds`, `OnlyProductionSubmitsHolds` and
  `GatesAgreeHolds` from the definitions; `MoneyIsExactHolds` and
  `CadenceIsMonotoneHolds` from four lemmas about quotients, products and
  rounding (`DivisionBounds`, `ProductGrows`, `QuotientGrows`, `RoundingGrows`),
  one monotone step at a time along the function. `RankingIsStableHolds` rests
  on `PlacesAreOnce` (in a finite strict order the number of elements below is a
  place, and each place is taken once), `ArrangedIsPermutation`, and
  `ArrangedBySet`: a list sorted by a strict order of its entries depends on
  which entries there are. De-duplication gives the list back, and what a filter
  drops could not have matched. `BetterOfferWinsHolds` adds the bounds of each
  part of a score and `BestInboundIsBest`. `DecisionsHold` says all eight of the
  specification TLC runs. Their limits: `MoneyIsExact` takes positive
  denominators, `CadenceIsMonotone` compares throttled intervals up to the cap
  of 900 s.

Only model-checked: the liveness properties `EveryCallReturns` and
`ElapsedRestIsProbed` (in passes with room for every proxy), as fairness and
ENABLED are beyond the prover. The
assumptions are evaluated by TLC on every instance.

## 5. Not modelled

- Cryptography and password hashing: opaque functions.
- Proxy transport, retention, provider adapters and the parsing of their
  responses: I/O and formats without protocol. The mock provider is a test
  adapter.
- `ProxySettingsService`: one row, read, merged and written back; its lost
  update is named above.
- Release windows and burst offsets of `monitoring.ts`: additions of constants
  to a date.
- Routing of the HTTP API, logging, redaction, error classes, the message
  catalogue, the bootstrap script for GitHub.
- Wallet, billing, quota and notification tables: there is a schema for them
  and checks in `verify.ts`, and no code at this commit that writes them. The
  booking orchestrator is absent too; reservations are external.
- Failures of a single statement inside `probeOne` after the first UPDATE of
  `recordHealth`: the sample would be counted twice.

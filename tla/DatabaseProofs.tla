--------------------------- MODULE DatabaseProofs ---------------------------
(***************************************************************************)
(* Proofs about the three machines of packages/database: MigrationRunner for*)
(* any number of migrations, runners and images, DatabaseClient for any    *)
(* number of calls and connections and transactions of any length, and     *)
(* AuditTrail for any number of writers and entries and any damage.        *)
(***************************************************************************)
EXTENDS MigrationRunner, DatabaseClient, AuditTrail, TLAPS, NaturalsInduction,
        WellFoundedInduction, FiniteSetTheorems

(* The migration runner.                                                   *)

\* What a runner under way has not planned to apply is there as it ships it.
PlanCoversRest ==
  \A r \in Runners : boot[r] \in {"lock", "apply"} =>
    \A m \in Names \ pending[r] : journal[m] = image[r][m]

\* Demo data is found on a complete schema only.
DemoIsComplete == demo => Unapplied = {}

MigrationInv ==
  /\ MigrationTypeOK
  /\ PlanCoversRest /\ DemoIsComplete
  /\ SchemaMatchesJournal /\ DoneMeansCurrent
-----------------------------------------------------------------------------
LEMMA FirstOfPlan ==
  ASSUME NEW S \in SUBSET Names, S # {}
  PROVE  First(S) \in S /\ \A n \in S : First(S) <= n
<1>1. S \subseteq Nat
  BY MigrationAssumption DEF Names
<1> DEFINE Less == {pair \in Nat \X Nat : pair[1] < pair[2]}
<1>2. IsWellFoundedOn(Less, Nat)
  BY NatLessThanWellFounded, Zenon DEF OpToRel
<1> HIDE DEF Less
<1>3. PICK m \in S : \A n \in S : <<n, m>> \notin Less
  BY <1>1, <1>2, WFMin
<1>4. ASSUME NEW n \in S PROVE m <= n
  <2>1. n \in Nat /\ m \in Nat
    BY <1>1
  <2>2. ~(n < m)
    BY <1>3, <2>1 DEF Less
  <2> QED
    BY <2>1, <2>2
<1> QED
  BY <1>3, <1>4 DEF First

LEMMA MigrationInvInit == MigrationInit => MigrationInv
<1> SUFFICES ASSUME MigrationInit PROVE MigrationInv
  OBVIOUS
<1>1. MigrationTypeOK
  <2>1. executed \in Seq(Names)
    BY DEF MigrationInit
  <2>2. journal \in [Names -> Checksums \cup {NotApplied}]
    BY DEF MigrationInit
  <2> QED
    BY <2>1, <2>2 DEF MigrationInit, MigrationTypeOK
<1>2. SchemaMatchesJournal
  BY MigrationAssumption DEF MigrationInit, SchemaMatchesJournal, Applied, Names
<1>3. PlanCoversRest /\ DemoIsComplete /\ DoneMeansCurrent
  BY DEF MigrationInit, PlanCoversRest, DemoIsComplete, DoneMeansCurrent
<1> QED
  BY <1>1, <1>2, <1>3 DEF MigrationInv

\* A runner that applies a migration finds everything before it applied.
LEMMA ApplyInOrder ==
  ASSUME MigrationInv, NEW r \in Runners, boot[r] = "apply", pending[r] # {},
         ~Applied(First(pending[r]))
  PROVE  First(pending[r]) = Len(executed) + 1 /\ First(pending[r]) \in Names
<1> DEFINE m == First(pending[r])
<1>1. m \in pending[r] /\ m \in Names /\ \A n \in pending[r] : m <= n
  BY FirstOfPlan DEF MigrationInv, MigrationTypeOK
<1>2. \A n \in Names : n < m => Applied(n)
  <2> SUFFICES ASSUME NEW n \in Names, n < m PROVE Applied(n)
    OBVIOUS
  <2>1. n \notin pending[r]
    BY <1>1 DEF Names
  <2>2. journal[n] = image[r][n]
    BY <2>1 DEF MigrationInv, PlanCoversRest
  <2> QED
    BY <2>2, MigrationAssumption DEF MigrationInv, MigrationTypeOK, Applied
<1>3. Len(executed) \in Nat
  BY DEF MigrationInv, MigrationTypeOK
<1>4. \A n \in Names : n < m => n <= Len(executed)
  BY <1>2 DEF MigrationInv, SchemaMatchesJournal
<1>5. m > Len(executed)
  BY <1>1, <1>3 DEF MigrationInv, SchemaMatchesJournal, Names
<1>6. CASE m = 1
  BY <1>1, <1>3, <1>5, <1>6
<1>7. CASE m # 1
  <2>1. m - 1 \in Names
    BY <1>1, <1>7, MigrationAssumption DEF Names
  <2> QED
    BY <1>1, <1>3, <1>4, <1>5, <2>1, MigrationAssumption DEF Names
<1> QED
  BY <1>1, <1>6, <1>7

LEMMA MigrationInvNext ==
  ASSUME MigrationInv, [MigrationNext]_migrationVars PROVE MigrationInv'
<1> USE DEF MigrationInv
\* A step that leaves the schema alone, and sends a runner back or to its end.
<1>1. ASSUME NEW r \in Runners, NEW step \in {"start", "failed"}, Become(r, step),
             advisory' \in Runners \cup {NoRunner},
             UNCHANGED <<image, journal, executed, pending, demo>>
      PROVE  MigrationInv'
  BY <1>1 DEF Become, MigrationTypeOK, PlanCoversRest, DemoIsComplete,
     SchemaMatchesJournal, DoneMeansCurrent, ChecksumsVerified, Applied, Unapplied
<1>2. ASSUME NEW r \in Runners, Release(r) PROVE advisory' \in Runners \cup {NoRunner}
  BY <1>2 DEF Release, MigrationTypeOK
<1>3. ASSUME NEW r \in Runners, Plan(r) PROVE MigrationInv'
  <2>1. CASE Drifted(r) # {}
    BY <1>1, <1>3, <2>1 DEF Plan, MigrationTypeOK
  <2>2. CASE Drifted(r) = {}
    <3>1. \A m \in Names \ Unapplied : journal[m] = image[r][m]
      BY <2>2 DEF Drifted, Unapplied
    <3>2. /\ boot' = [boot EXCEPT ![r] = "lock"]
          /\ pending' = [pending EXCEPT ![r] = Unapplied]
          /\ UNCHANGED <<image, journal, executed, advisory, demo>>
      BY <1>3, <2>2 DEF Plan, Become
    <3>3. MigrationTypeOK' /\ DemoIsComplete' /\ SchemaMatchesJournal' /\ DoneMeansCurrent'
      BY <3>2 DEF MigrationTypeOK, DemoIsComplete, SchemaMatchesJournal,
         DoneMeansCurrent, ChecksumsVerified, Applied, Unapplied
    <3>4. PlanCoversRest'
      BY <3>1, <3>2 DEF PlanCoversRest, MigrationTypeOK
    <3> QED
      BY <3>3, <3>4
  <2> QED
    BY <2>1, <2>2
<1>4. ASSUME NEW r \in Runners, TakeLock(r) PROVE MigrationInv'
  BY <1>4 DEF TakeLock, Become, MigrationTypeOK, PlanCoversRest, DemoIsComplete,
     SchemaMatchesJournal, DoneMeansCurrent, ChecksumsVerified, Applied, Unapplied
<1>5. ASSUME NEW r \in Runners, Apply(r) PROVE MigrationInv'
  <2> DEFINE m == First(pending[r])
  <2>1. CASE Admitted(m)
    <3>1. m = Len(executed) + 1 /\ m \in Names /\ ~Applied(m)
      BY <1>5, <2>1, ApplyInOrder DEF Apply, Admitted
    <3>2. /\ journal' = [journal EXCEPT ![m] = image[r][m]]
          /\ executed' = Append(executed, m)
          /\ pending' = [pending EXCEPT ![r] = @ \ {m}]
          /\ UNCHANGED <<boot, advisory, image, demo>>
      BY <1>5, <2>1 DEF Apply
    <3>3. image[r][m] \in Checksums /\ image[r][m] # NotApplied
      BY <3>1, MigrationAssumption DEF MigrationTypeOK
    <3>4. MigrationTypeOK'
      BY <3>1, <3>2, <3>3 DEF MigrationTypeOK
    <3>5. DemoIsComplete' /\ DoneMeansCurrent'
      BY <3>1, <3>2, MigrationAssumption DEF MigrationTypeOK, DemoIsComplete,
         DoneMeansCurrent, ChecksumsVerified, Unapplied, Applied
    <3>6. PlanCoversRest'
      BY <3>1, <3>2, MigrationAssumption DEF MigrationTypeOK, PlanCoversRest, Applied
    <3>7. SchemaMatchesJournal'
      <4>1. executed \in Seq(Names) /\ Len(executed) \in Nat
        BY DEF MigrationTypeOK
      <4>2. /\ Len(executed') = Len(executed) + 1
            /\ \A i \in 1 .. Len(executed) : executed'[i] = executed[i]
            /\ executed'[Len(executed) + 1] = m
            /\ executed' = [i \in 1 .. Len(executed') |-> executed'[i]]
        BY <3>1, <3>2, <4>1
      <4>3. \A i \in 1 .. Len(executed') : executed'[i] = i
        BY <3>1, <4>1, <4>2 DEF SchemaMatchesJournal
      <4>4. \A n \in Names : Applied(n)' <=> Applied(n) \/ n = m
        BY <3>1, <3>2, <3>3 DEF Applied, MigrationTypeOK
      <4>5. \A n \in Names : Applied(n)' <=> n <= Len(executed')
        BY <3>1, <4>1, <4>2, <4>4, MigrationAssumption DEF SchemaMatchesJournal, Names
      <4>6. executed' = [i \in 1 .. Len(executed') |-> i]
        BY <4>2, <4>3
      <4> QED
        BY <4>5, <4>6 DEF SchemaMatchesJournal
    <3> QED
      BY <3>4, <3>5, <3>6, <3>7
  <2>2. CASE ~Admitted(m)
    BY <1>1, <1>2, <1>5, <2>2 DEF Apply
  <2> QED
    BY <2>1, <2>2
<1>6. ASSUME NEW r \in Runners, Finish(r) PROVE MigrationInv'
  <2>1. ChecksumsVerified(r)
    BY <1>6 DEF Finish, PlanCoversRest, ChecksumsVerified
  <2>2. /\ boot' = [boot EXCEPT ![r] = "done"]
        /\ advisory' \in Runners \cup {NoRunner}
        /\ UNCHANGED <<image, journal, executed, pending, demo>>
    BY <1>2, <1>6 DEF Finish, Become
  <2> QED
    BY <2>1, <2>2 DEF MigrationTypeOK, PlanCoversRest, DemoIsComplete,
       SchemaMatchesJournal, DoneMeansCurrent, ChecksumsVerified, Applied, Unapplied
<1>7. ASSUME NEW r \in Runners, Fail(r) PROVE MigrationInv'
  BY <1>1, <1>2, <1>7 DEF Fail
<1>8. ASSUME NEW r \in Runners, StartAgain(r) PROVE MigrationInv'
  BY <1>1, <1>8 DEF StartAgain, MigrationTypeOK
<1>9. CASE \E reset \in BOOLEAN : Seed(reset)
  BY <1>9 DEF Seed, MigrationTypeOK, PlanCoversRest, DemoIsComplete,
     SchemaMatchesJournal, DoneMeansCurrent, ChecksumsVerified, Applied, Unapplied
<1>10. CASE UNCHANGED migrationVars
  BY <1>10 DEF migrationVars, MigrationTypeOK, PlanCoversRest, DemoIsComplete,
     SchemaMatchesJournal, DoneMeansCurrent, ChecksumsVerified, Applied, Unapplied
<1> QED
  BY <1>3, <1>4, <1>5, <1>6, <1>7, <1>8, <1>9, <1>10 DEF MigrationNext, Run

LEMMA MigrationInvHolds == MigrationSpec => []MigrationInv
<1>1. MigrationInv /\ [MigrationNext]_migrationVars => MigrationInv'
  BY MigrationInvNext
<1> QED
  BY <1>1, MigrationInvInit, PTL DEF MigrationSpec

\* Replicas that migrate at once, with plans older than the lock, execute each
\* migration once and in order.
THEOREM SchemaMatchesJournalHolds == MigrationSpec => []SchemaMatchesJournal
<1>1. MigrationInv => SchemaMatchesJournal
  BY DEF MigrationInv
<1> QED
  BY <1>1, MigrationInvHolds, PTL

\* A runner that reports success leaves what its own image ships.
THEOREM DoneMeansCurrentHolds == MigrationSpec => []DoneMeansCurrent
<1>1. MigrationInv => DoneMeansCurrent
  BY DEF MigrationInv
<1> QED
  BY <1>1, MigrationInvHolds, PTL

\* Whatever runners overlap, fail and start again, the journal only grows, by a
\* migration whose predecessors are all there, and demo data is found on a
\* complete schema only.
THEOREM ForwardOnlyHolds == MigrationSpec => ForwardOnly
<1> DEFINE Grows == /\ \A m \in Names : Applied(m) => journal'[m] = journal[m]
                    /\ \A m \in Names : ~Applied(m) /\ Applied(m)' =>
                         \A n \in Names : n < m => Applied(n)
<1>1. MigrationInv /\ [MigrationNext]_migrationVars => Grows /\ (demo' => Unapplied' = {})
  <2> SUFFICES ASSUME MigrationInv, [MigrationNext]_migrationVars
               PROVE  Grows /\ (demo' => Unapplied' = {})
    OBVIOUS
  <2>1. demo' => Unapplied' = {}
    BY MigrationInvNext DEF MigrationInv, DemoIsComplete
  <2>2. ASSUME NEW r \in Runners, Apply(r) PROVE Grows
    <3> DEFINE m == First(pending[r])
    <3>1. CASE Applied(m)
      BY <2>2, <3>1 DEF Apply, Admitted, Applied
    <3>2. CASE ~Applied(m)
      <4>1. m = Len(executed) + 1 /\ m \in Names
        BY <2>2, <3>2, ApplyInOrder DEF Apply
      <4>2. \A n \in Names : n < m => Applied(n)
        BY <4>1 DEF MigrationInv, MigrationTypeOK, SchemaMatchesJournal, Names
      <4>3. \A n \in Names \ {m} : journal'[n] = journal[n]
        BY <2>2, <3>2 DEF Apply, Admitted, MigrationInv, MigrationTypeOK
      <4> QED
        BY <3>2, <4>1, <4>2, <4>3 DEF Applied
    <3> QED
      BY <3>1, <3>2
  <2>3. UNCHANGED journal => Grows
    BY DEF Applied
  <2> QED
    BY <2>1, <2>2, <2>3 DEF MigrationNext, Run, Plan, TakeLock, Finish, Fail,
       StartAgain, Seed, migrationVars
<1> QED
  BY <1>1, MigrationInvHolds, PTL DEF MigrationSpec, ForwardOnly

-----------------------------------------------------------------------------
(* The database client.                                                    *)

\* A connection serves one call, and a call has one connection.
OneConnection ==
  \A c, d \in Connections : holder[c] = holder[d] /\ holder[c] # NoTask => c = d

\* The line holds calls that wait, each of them once.
LineWaits ==
  /\ \A i \in 1..Len(line) : task[line[i]] = "waiting"
  /\ \A i, j \in 1..Len(line) : line[i] = line[j] => i = j

\* What the session of a connection holds: nothing when nobody has it, or before
\* BEGIN and after the end; between, all that the call has executed.
SessionFits(c) ==
  LET t == holder[c] IN
  /\ session[c] = "plain" => batch[c] = {}
  /\ t = NoTask => session[c] = "plain"
  /\ t # NoTask =>
       /\ task[t] \in {"begin", "body", "commit", "rollback", "release"}
       /\ task[t] \in {"begin", "commit", "rollback"} => inside[t]
       /\ task[t] \in {"begin", "release"} => session[c] = "plain"
       /\ task[t] = "body" => session[c] = IF inside[t] THEN "open" ELSE "plain"
       /\ task[t] = "commit" => session[c] = "open"
       /\ session[c] = "open" => batch[c] = {t} \X (1..made[t])

\* Nothing is kept of a call before its end.
CallFits(t) ==
  /\ task[t] \in {"new", "waiting", "begin"} => made[t] = 0
  /\ task[t] = "body" /\ ~inside[t] => made[t] = 0
  /\ task[t] \notin {"release", "done"} => Kept(t) = {} /\ answer[t] = "none"

ClientInv ==
  /\ ClientTypeOK /\ OneConnection /\ LineWaits
  /\ \A c \in Connections : SessionFits(c)
  /\ \A t \in Tasks : CallFits(t)
  /\ AllOrNothing
-----------------------------------------------------------------------------
\* A step of a call that is not in the line leaves the line as it was.
LEMMA LineStays ==
  ASSUME ClientTypeOK, LineWaits, NEW t \in Tasks, task[t] # "waiting",
         NEW step, Advance(t, step), UNCHANGED line
  PROVE  LineWaits'
  BY DEF ClientTypeOK, LineWaits, Advance

\* Only the connection of a call sees its steps.
LEMMA OthersFit ==
  ASSUME ClientInv, NEW c \in Connections, holder[c] \in Tasks,
         NEW d \in Connections, d # c,
         UNCHANGED <<inside, holder>>,
         \A u \in Tasks : u # holder[c] => task'[u] = task[u] /\ made'[u] = made[u],
         session'[d] = session[d], batch'[d] = batch[d]
  PROVE  SessionFits(d)'
<1>1. holder[d] # holder[c]
  BY ClientAssumption DEF ClientInv, OneConnection
<1>2. SessionFits(d) /\ holder[d] \in Tasks \cup {NoTask}
  BY DEF ClientInv, ClientTypeOK
<1> QED
  BY <1>1, <1>2 DEF SessionFits

\* A call whose own entries do not change, and none of whose writes is stored now.
LEMMA CallStays ==
  ASSUME NEW t \in Tasks, CallFits(t), AllOrNothing,
         task'[t] = task[t], inside'[t] = inside[t], made'[t] = made[t],
         answer'[t] = answer[t], Kept(t)' = Kept(t)
  PROVE  /\ CallFits(t)'
         /\ Kept(t)' \in {{}, 1..made'[t]}
         /\ answer'[t] = "ok" => Kept(t)' = 1..made'[t]
         /\ answer'[t] = "error" => Kept(t)' = {}
  BY DEF CallFits, AllOrNothing

LEMMA ClientInvInit == ClientInit => ClientInv
<1> SUFFICES ASSUME ClientInit PROVE ClientInv
  OBVIOUS
<1>1. ClientTypeOK
  BY ClientAssumption DEF ClientInit, ClientTypeOK
<1>2. OneConnection /\ LineWaits
  BY DEF ClientInit, OneConnection, LineWaits
<1>3. \A c \in Connections : SessionFits(c)
  BY DEF ClientInit, SessionFits
<1>4. (\A t \in Tasks : CallFits(t)) /\ AllOrNothing
  BY DEF ClientInit, CallFits, Kept, AllOrNothing
<1> QED
  BY <1>1, <1>2, <1>3, <1>4 DEF ClientInv

LEMMA ClientTypeNext == ClientTypeOK /\ [ClientNext]_clientVars => ClientTypeOK'
<1> SUFFICES ASSUME ClientTypeOK, [ClientNext]_clientVars PROVE ClientTypeOK'
  OBVIOUS
<1> USE ClientAssumption DEF ClientTypeOK, Advance, Settle
<1>1. ASSUME NEW t \in Tasks, CallClient(t) PROVE ClientTypeOK'
  BY <1>1 DEF CallClient
<1>2. ASSUME NEW c \in Connections, Serve(c) PROVE ClientTypeOK'
  BY <1>2 DEF Serve
<1>3. CASE ConnectFails
  BY <1>3 DEF ConnectFails
<1>4. ASSUME NEW t \in Tasks, NEW c \in Connections, BeginOn(t, c) PROVE ClientTypeOK'
  BY <1>4 DEF BeginOn
<1>5. ASSUME NEW t \in Tasks, NEW c \in Connections, Succeeds(t, c) PROVE ClientTypeOK'
  <2>1. made[t] + 1 \in 1..MaxStatements /\ made' = [made EXCEPT ![t] = @ + 1]
    BY <1>5 DEF Succeeds
  <2>2. made' \in [Tasks -> 0..MaxStatements] /\ <<t, made'[t]>> \in Tasks \X (1..MaxStatements)
    BY <2>1
  <2>3. stored' \subseteq Tasks \X (1..MaxStatements)
    BY <1>5, <2>2 DEF Succeeds
  <2>4. batch' \in [Connections -> SUBSET (Tasks \X (1..MaxStatements))]
    <3>1. CASE session[c] = "plain"
      BY <1>5, <3>1 DEF Succeeds
    <3>2. CASE session[c] # "plain"
      <4> DEFINE more == batch[c] \cup {<<t, made'[t]>>}
      <4>1. batch' = [batch EXCEPT ![c] = more]
        BY <1>5, <3>2 DEF Succeeds
      <4>2. more \subseteq Tasks \X (1..MaxStatements)
        BY <2>2
      <4> HIDE DEF more
      <4> QED
        BY <4>1, <4>2
    <3> QED
      BY <3>1, <3>2
  <2>5. task' \in [Tasks -> {"new", "waiting", "begin", "body", "commit", "rollback",
                             "release", "done"}]
    BY <1>5 DEF Succeeds
  <2>6. answer' \in [Tasks -> {"none", "ok", "error"}]
    BY <1>5 DEF Succeeds
  <2> QED
    BY <1>5, <2>2, <2>3, <2>4, <2>5, <2>6 DEF Succeeds
<1>6. ASSUME NEW t \in Tasks, NEW c \in Connections, StatementFails(t, c) PROVE ClientTypeOK'
  BY <1>6 DEF StatementFails
<1>7. ASSUME NEW t \in Tasks, FunctionThrows(t) \/ FunctionReturns(t) PROVE ClientTypeOK'
  BY <1>7 DEF FunctionThrows, FunctionReturns
<1>8. ASSUME NEW t \in Tasks, NEW c \in Connections, CommitOn(t, c) PROVE ClientTypeOK'
  <2>1. stored' \subseteq Tasks \X (1..MaxStatements)
    BY <1>8 DEF CommitOn
  <2>2. batch' \in [Connections -> SUBSET (Tasks \X (1..MaxStatements))]
    BY <1>8 DEF CommitOn
  <2> QED
    BY <1>8, <2>1, <2>2 DEF CommitOn
<1>9. ASSUME NEW t \in Tasks, NEW c \in Connections, RollbackOn(t, c) PROVE ClientTypeOK'
  BY <1>9 DEF RollbackOn
<1>10. ASSUME NEW t \in Tasks, NEW c \in Connections, ReleaseConnection(t, c)
       PROVE  ClientTypeOK'
  BY <1>10 DEF ReleaseConnection
<1>11. CASE ProcessDies
  BY <1>11 DEF ProcessDies
<1>12. CASE UNCHANGED clientVars
  BY <1>12 DEF clientVars
<1> QED
  BY <1>1, <1>2, <1>3, <1>4, <1>5, <1>6, <1>7, <1>8, <1>9, <1>10, <1>11, <1>12
     DEF ClientNext, ClientStep

\* What is kept follows from stored alone.
LEMMA KeptStays ==
  ASSUME NEW t, UNCHANGED stored
  PROVE  Kept(t)' = Kept(t)
  BY DEF Kept

LEMMA CallClientKeeps ==
  ASSUME ClientInv, NEW t \in Tasks, CallClient(t)
  PROVE  LineWaits' /\ (\A c \in Connections : SessionFits(c)') /\ OneConnection'
           /\ (\A u \in Tasks : CallFits(u)') /\ AllOrNothing'
<1> USE DEF ClientInv, CallClient, Advance
<1>1. LineWaits'
  <2>1. /\ Len(line') = Len(line) + 1 /\ line'[Len(line) + 1] = t
        /\ \A i \in 1..Len(line) : line'[i] = line[i] /\ line[i] \in Tasks
    BY DEF ClientTypeOK
  <2>2. \A i \in 1..Len(line) : line[i] # t
    BY DEF LineWaits
  <2>3. Len(line) \in Nat /\ task'[t] = "waiting" /\ \A u \in Tasks : u # t => task'[u] = task[u]
    BY DEF ClientTypeOK
  <2> QED
    BY <2>1, <2>2, <2>3 DEF LineWaits
<1>2. ASSUME NEW c \in Connections PROVE SessionFits(c)'
  <2>1. SessionFits(c)
    OBVIOUS
  <2>2. holder[c] # t
    BY <2>1, ClientAssumption DEF SessionFits
  <2> QED
    BY <2>1, <2>2 DEF SessionFits, ClientTypeOK
<1>3. OneConnection'
  BY DEF OneConnection
<1>4. ASSUME NEW u \in Tasks PROVE CallFits(u)'
  BY KeptStays DEF CallFits, ClientTypeOK
<1>5. AllOrNothing'
  BY KeptStays DEF AllOrNothing
<1> QED
  BY <1>1, <1>2, <1>3, <1>4, <1>5

LEMMA ServeKeeps ==
  ASSUME ClientInv, NEW c \in Connections, Serve(c)
  PROVE  LineWaits' /\ (\A d \in Connections : SessionFits(d)') /\ OneConnection'
           /\ (\A u \in Tasks : CallFits(u)') /\ AllOrNothing'
<1> DEFINE t == Head(line)
<1>1. /\ t \in Tasks /\ t # NoTask /\ task[t] = "waiting"
      /\ line # <<>> /\ Len(line) \in Nat
      /\ \A i \in 1..Len(line) : line[i] \in Tasks
      /\ t = line[1] /\ Len(line') = Len(line) - 1
      /\ \A i \in 1..(Len(line) - 1) : line'[i] = line[i + 1]
  BY ClientAssumption DEF ClientInv, ClientTypeOK, LineWaits, Serve
<1>2. /\ task'[t] = IF inside[t] THEN "begin" ELSE "body"
      /\ \A u \in Tasks : u # t => task'[u] = task[u]
  BY <1>1 DEF ClientInv, ClientTypeOK, Serve, Advance
<1>3. /\ holder[c] = NoTask /\ holder'[c] = t
      /\ \A d \in Connections : d # c => holder'[d] = holder[d]
  BY DEF ClientInv, ClientTypeOK, Serve
<1>4. \A d \in Connections : holder[d] # t
  BY <1>1 DEF ClientInv, SessionFits
<1>5. UNCHANGED <<inside, session, batch, stored, made, answer>>
  BY DEF Serve
<1> HIDE DEF t
<1>6. LineWaits'
  <2>1. \A i \in 1..(Len(line) - 1) : line[i + 1] # t /\ task[line[i + 1]] = "waiting"
    BY <1>1 DEF ClientInv, LineWaits
  <2>2. \A i, j \in 1..(Len(line) - 1) : line[i + 1] = line[j + 1] => i = j
    BY <1>1 DEF ClientInv, LineWaits
  <2> QED
    BY <1>1, <1>2, <2>1, <2>2 DEF LineWaits
<1>7. ASSUME NEW d \in Connections PROVE SessionFits(d)'
  <2>1. SessionFits(d) /\ SessionFits(c)
    BY DEF ClientInv
  <2>2. CASE d = c
    <3>1. session[c] = "plain" /\ batch[c] = {}
      BY <1>3, <2>1 DEF SessionFits
    <3> QED
      BY <1>1, <1>2, <1>3, <1>5, <2>2, <3>1 DEF SessionFits
  <2>3. CASE d # c
    <3>1. holder[d] \in Tasks \cup {NoTask}
      BY DEF ClientInv, ClientTypeOK
    <3> QED
      BY <1>2, <1>3, <1>4, <1>5, <2>1, <2>3, <3>1 DEF SessionFits
  <2> QED
    BY <2>2, <2>3
<1>8. OneConnection'
  BY <1>3, <1>4 DEF ClientInv, OneConnection
<1>9. ASSUME NEW u \in Tasks PROVE CallFits(u)'
  BY <1>1, <1>2, <1>5, KeptStays DEF ClientInv, CallFits
<1>10. AllOrNothing'
  BY <1>5, KeptStays DEF ClientInv, AllOrNothing
<1> QED
  BY <1>6, <1>7, <1>8, <1>9, <1>10

LEMMA ConnectFailsKeeps ==
  ASSUME ClientInv, ConnectFails
  PROVE  LineWaits' /\ (\A d \in Connections : SessionFits(d)') /\ OneConnection'
           /\ (\A u \in Tasks : CallFits(u)') /\ AllOrNothing'
<1> DEFINE t == Head(line)
<1>1. /\ t \in Tasks /\ t # NoTask /\ task[t] = "waiting"
      /\ line # <<>> /\ Len(line) \in Nat
      /\ \A i \in 1..Len(line) : line[i] \in Tasks
      /\ t = line[1] /\ Len(line') = Len(line) - 1
      /\ \A i \in 1..(Len(line) - 1) : line'[i] = line[i + 1]
  BY ClientAssumption DEF ClientInv, ClientTypeOK, LineWaits, ConnectFails
<1>2. /\ task'[t] = "done" /\ answer'[t] = "error"
      /\ \A u \in Tasks : u # t => task'[u] = task[u] /\ answer'[u] = answer[u]
  BY <1>1 DEF ClientInv, ClientTypeOK, ConnectFails, Advance, Settle
<1>3. UNCHANGED <<inside, holder, session, batch, stored, made>>
  BY DEF ConnectFails
<1> HIDE DEF t
<1>4. LineWaits'
  <2>1. \A i \in 1..(Len(line) - 1) : line[i + 1] # t /\ task[line[i + 1]] = "waiting"
    BY <1>1 DEF ClientInv, LineWaits
  <2>2. \A i, j \in 1..(Len(line) - 1) : line[i + 1] = line[j + 1] => i = j
    BY <1>1 DEF ClientInv, LineWaits
  <2> QED
    BY <1>1, <1>2, <2>1, <2>2 DEF LineWaits
<1>5. ASSUME NEW d \in Connections PROVE SessionFits(d)'
  <2>1. SessionFits(d) /\ holder[d] \in Tasks \cup {NoTask}
    BY DEF ClientInv, ClientTypeOK
  <2>2. holder[d] # t
    BY <1>1, <2>1 DEF SessionFits
  <2> QED
    BY <1>2, <1>3, <2>1, <2>2 DEF SessionFits
<1>6. OneConnection'
  BY <1>3 DEF ClientInv, OneConnection
<1>7. Kept(t) = {}
  BY <1>1 DEF ClientInv, CallFits
<1>8. ASSUME NEW u \in Tasks PROVE CallFits(u)'
  BY <1>2, <1>3, KeptStays DEF ClientInv, CallFits
<1>9. AllOrNothing'
  BY <1>1, <1>2, <1>3, <1>7, KeptStays DEF ClientInv, AllOrNothing
<1> QED
  BY <1>4, <1>5, <1>6, <1>8, <1>9

\* A step of the call that a connection serves: the rest stays in order.
LEMMA ServedStep ==
  ASSUME ClientInv, NEW t \in Tasks, NEW c \in Connections, holder[c] = t,
         NEW step, Advance(t, step),
         UNCHANGED <<inside, line, holder>>,
         \A u \in Tasks : u # t => made'[u] = made[u],
         \A d \in Connections : d # c => session'[d] = session[d] /\ batch'[d] = batch[d]
  PROVE  /\ LineWaits' /\ OneConnection'
         /\ \A d \in Connections : d # c => SessionFits(d)'
<1>1. t # NoTask /\ task[t] # "waiting"
  BY ClientAssumption DEF ClientInv, SessionFits
<1>2. LineWaits'
  BY <1>1, LineStays DEF ClientInv
<1>3. OneConnection'
  BY DEF ClientInv, OneConnection
<1>4. \A u \in Tasks : u # t => task'[u] = task[u]
  BY DEF ClientInv, ClientTypeOK, Advance
<1>5. \A d \in Connections : d # c => SessionFits(d)'
  BY <1>4, OthersFit
<1> QED
  BY <1>2, <1>3, <1>5

LEMMA FunctionKeeps ==
  ASSUME ClientInv, NEW t \in Tasks, FunctionThrows(t) \/ FunctionReturns(t)
  PROVE  LineWaits' /\ (\A d \in Connections : SessionFits(d)') /\ OneConnection'
           /\ (\A u \in Tasks : CallFits(u)') /\ AllOrNothing'
<1>1. /\ task[t] = "body" /\ inside[t] /\ task'[t] \in {"rollback", "commit"}
      /\ \A u \in Tasks : u # t => task'[u] = task[u]
      /\ UNCHANGED <<inside, line, holder, session, batch, stored, made, answer>>
  BY DEF ClientInv, ClientTypeOK, FunctionThrows, FunctionReturns, Advance
<1>2. LineWaits'
  BY <1>1, LineStays DEF ClientInv, FunctionThrows, FunctionReturns
<1>3. OneConnection'
  BY <1>1 DEF ClientInv, OneConnection
<1>4. ASSUME NEW d \in Connections PROVE SessionFits(d)'
  <2>1. SessionFits(d) /\ holder[d] \in Tasks \cup {NoTask}
    BY DEF ClientInv, ClientTypeOK
  <2> QED
    BY <1>1, <2>1 DEF SessionFits
<1>5. ASSUME NEW u \in Tasks PROVE CallFits(u)'
  BY <1>1, KeptStays DEF ClientInv, CallFits
<1>6. AllOrNothing'
  BY <1>1, KeptStays DEF ClientInv, AllOrNothing
<1> QED
  BY <1>2, <1>3, <1>4, <1>5, <1>6

LEMMA BeginKeeps ==
  ASSUME ClientInv, NEW t \in Tasks, NEW c \in Connections, BeginOn(t, c)
  PROVE  LineWaits' /\ (\A d \in Connections : SessionFits(d)') /\ OneConnection'
           /\ (\A u \in Tasks : CallFits(u)') /\ AllOrNothing'
<1>1. /\ holder[c] = t /\ t # NoTask /\ task[t] = "begin"
      /\ session[c] = "plain" /\ batch[c] = {} /\ made[t] = 0
  BY ClientAssumption DEF ClientInv, SessionFits, CallFits, BeginOn
<1>2. /\ UNCHANGED <<inside, line, holder, batch, stored, made, answer>>
      /\ \A u \in Tasks : u # t => task'[u] = task[u]
      /\ \A d \in Connections : d # c => session'[d] = session[d]
      /\ \/ session'[c] = "open" /\ task'[t] = "body"
         \/ session'[c] = "plain" /\ task'[t] = "rollback"
  BY <1>1 DEF ClientInv, ClientTypeOK, BeginOn, Advance
<1>3. /\ LineWaits' /\ OneConnection'
      /\ \A d \in Connections : d # c => SessionFits(d)'
  BY <1>1, <1>2, ServedStep DEF BeginOn
<1>4. SessionFits(c)'
  <2>1. inside[t]
    BY <1>1 DEF ClientInv, SessionFits
  <2> QED
    BY <1>1, <1>2, <2>1 DEF SessionFits
<1>5. ASSUME NEW u \in Tasks PROVE CallFits(u)'
  <2>1. CallFits(u) /\ (u = t => inside[t])
    BY <1>1 DEF ClientInv, SessionFits
  <2> QED
    BY <1>1, <1>2, <2>1, KeptStays DEF CallFits
<1>6. AllOrNothing'
  BY <1>1, <1>2, KeptStays DEF ClientInv, AllOrNothing
<1> QED
  BY <1>3, <1>4, <1>5, <1>6

LEMMA StatementFailsKeeps ==
  ASSUME ClientInv, NEW t \in Tasks, NEW c \in Connections, StatementFails(t, c)
  PROVE  LineWaits' /\ (\A d \in Connections : SessionFits(d)') /\ OneConnection'
           /\ (\A u \in Tasks : CallFits(u)') /\ AllOrNothing'
<1>1. /\ holder[c] = t /\ t # NoTask /\ task[t] = "body"
      /\ session[c] = IF inside[t] THEN "open" ELSE "plain"
      /\ (~inside[t] => made[t] = 0) /\ Kept(t) = {}
  BY ClientAssumption DEF ClientInv, SessionFits, CallFits, StatementFails
<1>2. /\ UNCHANGED <<inside, line, holder, batch, stored, made>>
      /\ \A u \in Tasks : u # t => task'[u] = task[u] /\ answer'[u] = answer[u]
      /\ \A d \in Connections : d # c => session'[d] = session[d]
      /\ session'[c] = IF inside[t] THEN "aborted" ELSE "plain"
      /\ task'[t] = IF inside[t] THEN "rollback" ELSE "release"
      /\ answer'[t] = IF inside[t] THEN answer[t] ELSE "error"
  BY <1>1 DEF ClientInv, ClientTypeOK, StatementFails, Advance, Settle
<1>3. /\ LineWaits' /\ OneConnection'
      /\ \A d \in Connections : d # c => SessionFits(d)'
  <2>1. PICK step : Advance(t, step)
    BY DEF StatementFails
  <2> QED
    BY <1>1, <1>2, <2>1, ServedStep
<1>4. SessionFits(c)'
  <2>1. SessionFits(c)
    BY DEF ClientInv
  <2> QED
    BY <1>1, <1>2, <2>1 DEF SessionFits
<1>5. ASSUME NEW u \in Tasks PROVE CallFits(u)'
  BY <1>1, <1>2, KeptStays DEF ClientInv, CallFits
<1>6. AllOrNothing'
  BY <1>1, <1>2, KeptStays DEF ClientInv, AllOrNothing
<1> QED
  BY <1>3, <1>4, <1>5, <1>6

LEMMA RollbackKeeps ==
  ASSUME ClientInv, NEW t \in Tasks, NEW c \in Connections, RollbackOn(t, c)
  PROVE  LineWaits' /\ (\A d \in Connections : SessionFits(d)') /\ OneConnection'
           /\ (\A u \in Tasks : CallFits(u)') /\ AllOrNothing'
<1>1. /\ holder[c] = t /\ t # NoTask /\ task[t] = "rollback" /\ Kept(t) = {}
  BY ClientAssumption DEF ClientInv, CallFits, RollbackOn
<1>2. /\ UNCHANGED <<inside, line, holder, stored, made>>
      /\ \A u \in Tasks : u # t => task'[u] = task[u] /\ answer'[u] = answer[u]
      /\ \A d \in Connections : d # c => session'[d] = session[d] /\ batch'[d] = batch[d]
      /\ session'[c] = "plain" /\ batch'[c] = {}
      /\ task'[t] = "release" /\ answer'[t] = "error"
  BY <1>1 DEF ClientInv, ClientTypeOK, RollbackOn, Advance, Settle
<1>3. /\ LineWaits' /\ OneConnection'
      /\ \A d \in Connections : d # c => SessionFits(d)'
  BY <1>1, <1>2, ServedStep DEF RollbackOn
<1>4. SessionFits(c)'
  BY <1>1, <1>2 DEF SessionFits
<1>5. ASSUME NEW u \in Tasks PROVE CallFits(u)'
  BY <1>1, <1>2, KeptStays DEF ClientInv, CallFits
<1>6. AllOrNothing'
  BY <1>1, <1>2, KeptStays DEF ClientInv, AllOrNothing
<1> QED
  BY <1>3, <1>4, <1>5, <1>6

LEMMA ReleaseKeeps ==
  ASSUME ClientInv, NEW t \in Tasks, NEW c \in Connections, ReleaseConnection(t, c)
  PROVE  LineWaits' /\ (\A d \in Connections : SessionFits(d)') /\ OneConnection'
           /\ (\A u \in Tasks : CallFits(u)') /\ AllOrNothing'
<1>1. /\ holder[c] = t /\ t # NoTask /\ task[t] = "release"
      /\ session[c] = "plain" /\ batch[c] = {}
      /\ \A d \in Connections : d # c => holder[d] # t
  BY ClientAssumption DEF ClientInv, SessionFits, OneConnection, ReleaseConnection
<1>2. /\ UNCHANGED <<inside, line, session, batch, stored, made, answer>>
      /\ \A u \in Tasks : u # t => task'[u] = task[u]
      /\ task'[t] = "done" /\ holder'[c] = NoTask
      /\ \A d \in Connections : d # c => holder'[d] = holder[d]
  BY <1>1 DEF ClientInv, ClientTypeOK, ReleaseConnection, Advance
<1>3. LineWaits'
  BY <1>1, <1>2, LineStays DEF ClientInv, ReleaseConnection
<1>4. OneConnection'
  BY <1>2 DEF ClientInv, OneConnection
<1>5. ASSUME NEW d \in Connections PROVE SessionFits(d)'
  <2>1. SessionFits(d) /\ holder[d] \in Tasks \cup {NoTask}
    BY DEF ClientInv, ClientTypeOK
  <2> QED
    BY <1>1, <1>2, <2>1 DEF SessionFits
<1>6. ASSUME NEW u \in Tasks PROVE CallFits(u)'
  BY <1>1, <1>2, KeptStays DEF ClientInv, CallFits
<1>7. AllOrNothing'
  BY <1>2, KeptStays DEF ClientInv, AllOrNothing
<1> QED
  BY <1>3, <1>4, <1>5, <1>6, <1>7

LEMMA SucceedsKeeps ==
  ASSUME ClientInv, NEW t \in Tasks, NEW c \in Connections, Succeeds(t, c)
  PROVE  LineWaits' /\ (\A d \in Connections : SessionFits(d)') /\ OneConnection'
           /\ (\A u \in Tasks : CallFits(u)') /\ AllOrNothing'
<1>1. /\ holder[c] = t /\ t # NoTask /\ task[t] = "body"
      /\ session[c] = IF inside[t] THEN "open" ELSE "plain"
      /\ (~inside[t] => made[t] = 0 /\ batch[c] = {}) /\ Kept(t) = {}
      /\ (inside[t] => batch[c] = {t} \X (1..made[t]))
  BY ClientAssumption DEF ClientInv, SessionFits, CallFits, Succeeds
<1>2. /\ UNCHANGED <<inside, line, holder, session>>
      /\ \A u \in Tasks : u # t => /\ task'[u] = task[u] /\ answer'[u] = answer[u]
                                   /\ made'[u] = made[u]
      /\ made'[t] = made[t] + 1 /\ made[t] \in 0..MaxStatements /\ made[t] < MaxStatements
      /\ \A d \in Connections : d # c => batch'[d] = batch[d]
      /\ inside[t] => /\ stored' = stored
                      /\ batch'[c] = batch[c] \cup {<<t, made[t] + 1>>}
                      /\ UNCHANGED <<task, answer>>
      /\ ~inside[t] => /\ stored' = stored \cup {<<t, 1>>} /\ batch' = batch
                       /\ task'[t] = "release" /\ answer'[t] = "ok"
  BY <1>1 DEF ClientInv, ClientTypeOK, Succeeds, Advance, Settle
<1>3. /\ LineWaits' /\ OneConnection'
      /\ \A d \in Connections : d # c => SessionFits(d)'
  <2>1. CASE inside[t]
    <3>1. Advance(t, "body")
      BY <1>1, <1>2, <2>1 DEF ClientInv, ClientTypeOK, Advance
    <3> QED
      BY <1>1, <1>2, <3>1, ServedStep
  <2>2. CASE ~inside[t]
    <3>1. Advance(t, "release")
      BY <2>2 DEF Succeeds
    <3> QED
      BY <1>1, <1>2, <3>1, ServedStep
  <2> QED
    BY <2>1, <2>2
<1>4. SessionFits(c)'
  <2>1. CASE inside[t]
    <3>1. batch'[c] = {t} \X (1..made'[t])
      BY <1>1, <1>2, <2>1
    <3> QED
      BY <1>1, <1>2, <2>1, <3>1 DEF SessionFits
  <2>2. CASE ~inside[t]
    BY <1>1, <1>2, <2>2 DEF SessionFits
  <2> QED
    BY <2>1, <2>2
<1>5. ASSUME NEW u \in Tasks, u # t
      PROVE  Kept(u)' = Kept(u)
  BY <1>2, <1>5 DEF Kept
<1>6. Kept(t)' = IF inside[t] THEN {} ELSE 1..made'[t]
  <2>1. CASE inside[t]
    BY <1>1, <1>2, <2>1 DEF Kept
  <2>2. CASE ~inside[t]
    <3>1. made'[t] = 1 /\ 1 \in 1..MaxStatements
      BY <1>1, <1>2, <2>2, ClientAssumption
    <3> QED
      BY <1>1, <1>2, <2>2, <3>1 DEF Kept
  <2> QED
    BY <2>1, <2>2
<1>7. ASSUME NEW u \in Tasks PROVE CallFits(u)'
  BY <1>1, <1>2, <1>5, <1>6 DEF ClientInv, CallFits
<1>8. AllOrNothing'
  <2>1. answer[t] = "none"
    BY <1>1 DEF ClientInv, CallFits
  <2> QED
    BY <1>1, <1>2, <1>5, <1>6, <2>1 DEF ClientInv, AllOrNothing
<1> QED
  BY <1>3, <1>4, <1>7, <1>8

LEMMA CommitKeeps ==
  ASSUME ClientInv, NEW t \in Tasks, NEW c \in Connections, CommitOn(t, c)
  PROVE  LineWaits' /\ (\A d \in Connections : SessionFits(d)') /\ OneConnection'
           /\ (\A u \in Tasks : CallFits(u)') /\ AllOrNothing'
<1>1. /\ holder[c] = t /\ t # NoTask /\ task[t] = "commit" /\ inside[t]
      /\ session[c] = "open" /\ Kept(t) = {} /\ answer[t] = "none"
      /\ batch[c] = {t} \X (1..made[t]) /\ made[t] \in 0..MaxStatements
  BY ClientAssumption DEF ClientInv, ClientTypeOK, SessionFits, CallFits, CommitOn
<1>2. /\ UNCHANGED <<inside, line, holder, made>>
      /\ \A u \in Tasks : u # t => task'[u] = task[u] /\ answer'[u] = answer[u]
      /\ \A d \in Connections : d # c => session'[d] = session[d] /\ batch'[d] = batch[d]
      /\ session'[c] = "plain" /\ batch'[c] = {}
      /\ \/ stored' = stored \cup batch[c] /\ task'[t] = "release" /\ answer'[t] = "ok"
         \/ stored' = stored /\ task'[t] = "rollback" /\ answer'[t] = "none"
  BY <1>1 DEF ClientInv, ClientTypeOK, CommitOn, Advance, Settle
<1>3. /\ LineWaits' /\ OneConnection'
      /\ \A d \in Connections : d # c => SessionFits(d)'
  <2>1. PICK step : Advance(t, step)
    BY DEF CommitOn
  <2> QED
    BY <1>1, <1>2, <2>1, ServedStep
<1>4. SessionFits(c)'
  BY <1>1, <1>2 DEF SessionFits
<1>5. ASSUME NEW u \in Tasks, u # t
      PROVE  Kept(u)' = Kept(u)
  <2>1. \A n \in 1..MaxStatements : <<u, n>> \notin batch[c]
    BY <1>1, <1>5
  <2>2. \A n \in 1..MaxStatements : <<u, n>> \in stored' <=> <<u, n>> \in stored
    BY <1>2, <2>1
  <2> QED
    BY <2>2 DEF Kept
<1>6. 1..made[t] \subseteq 1..MaxStatements
  BY <1>1, ClientAssumption
<1>7. answer'[t] = "ok" => Kept(t)' = 1..made[t]
  <2>1. \A n \in 1..MaxStatements : <<t, n>> \notin stored
    BY <1>1 DEF Kept
  <2>2. \A n \in 1..MaxStatements : <<t, n>> \in batch[c] <=> n \in 1..made[t]
    BY <1>1
  <2> QED
    BY <1>2, <1>6, <2>1, <2>2 DEF Kept
<1>8. answer'[t] # "ok" => Kept(t)' = {} /\ task'[t] = "rollback"
  BY <1>1, <1>2 DEF Kept
<1>9. ASSUME NEW u \in Tasks PROVE CallFits(u)'
  BY <1>1, <1>2, <1>5, <1>8 DEF ClientInv, CallFits
<1>10. AllOrNothing'
  BY <1>1, <1>2, <1>5, <1>7, <1>8 DEF ClientInv, AllOrNothing
<1> QED
  BY <1>3, <1>4, <1>9, <1>10

LEMMA ProcessDiesKeeps ==
  ASSUME ClientInv, ProcessDies
  PROVE  LineWaits' /\ (\A d \in Connections : SessionFits(d)') /\ OneConnection'
           /\ (\A u \in Tasks : CallFits(u)') /\ AllOrNothing'
<1>1. PICK done \in SUBSET {c \in Connections :
                             holder[c] # NoTask /\ session[c] = "open"
                               /\ task[holder[c]] = "commit"} :
        stored' = stored \cup UNION {batch[c] : c \in done}
  BY DEF ProcessDies
<1>2. /\ \A u \in Tasks : task'[u] = IF task[u] = "new" THEN "new" ELSE "done"
      /\ line' = <<>>
      /\ \A d \in Connections : holder'[d] = NoTask /\ session'[d] = "plain" /\ batch'[d] = {}
      /\ UNCHANGED <<inside, made, answer>>
  BY DEF ProcessDies
<1>3. LineWaits' /\ OneConnection' /\ \A d \in Connections : SessionFits(d)'
  BY <1>2 DEF LineWaits, OneConnection, SessionFits
<1>4. ASSUME NEW c \in done
      PROVE  /\ holder[c] \in Tasks /\ task[holder[c]] = "commit"
             /\ batch[c] = {holder[c]} \X (1..made[holder[c]])
  BY <1>4 DEF ClientInv, ClientTypeOK, SessionFits
<1>5. ASSUME NEW u \in Tasks
      PROVE  \/ Kept(u)' = Kept(u)
             \/ task[u] = "commit" /\ Kept(u)' = 1..made[u]
  <2>1. CASE \E c \in done : holder[c] = u
    <3>1. PICK c \in done : holder[c] = u
      BY <2>1
    <3>2. batch[c] = {u} \X (1..made[u]) /\ made[u] \in 0..MaxStatements
      BY <1>4, <3>1 DEF ClientInv, ClientTypeOK
    <3>3. \A n \in 1..made[u] : <<u, n>> \in stored'
      BY <1>1, <3>1, <3>2
    <3>4. \A n \in 1..MaxStatements : <<u, n>> \in stored' => n \in 1..made[u]
      <4>1. Kept(u) = {}
        BY <1>4, <3>1 DEF ClientInv, CallFits
      <4>2. \A n \in 1..MaxStatements : <<u, n>> \notin stored
        BY <4>1 DEF Kept
      <4>3. \A d \in done, n \in 1..MaxStatements :
              <<u, n>> \in batch[d] => n \in 1..made[u]
        BY <1>4
      <4> QED
        BY <1>1, <4>2, <4>3
    <3>5. Kept(u)' = 1..made[u]
      <4>1. 1..made[u] \subseteq 1..MaxStatements
        BY <3>2, ClientAssumption
      <4> QED
        BY <3>3, <3>4, <4>1 DEF Kept
    <3> QED
      BY <1>4, <3>1, <3>5
  <2>2. CASE \A c \in done : holder[c] # u
    <3>1. \A c \in done, n \in 1..MaxStatements : <<u, n>> \notin batch[c]
      BY <1>4, <2>2
    <3>2. \A n \in 1..MaxStatements : <<u, n>> \in stored' <=> <<u, n>> \in stored
      BY <1>1, <3>1
    <3> QED
      BY <3>2 DEF Kept
  <2> QED
    BY <2>1, <2>2
<1>6. ASSUME NEW u \in Tasks PROVE CallFits(u)'
  BY <1>2, <1>5 DEF ClientInv, CallFits
<1>7. AllOrNothing'
  BY <1>2, <1>5 DEF ClientInv, CallFits, AllOrNothing
<1> QED
  BY <1>3, <1>6, <1>7

LEMMA ClientInvNext == ClientInv /\ [ClientNext]_clientVars => ClientInv'
<1> SUFFICES ASSUME ClientInv, [ClientNext]_clientVars PROVE ClientInv'
  OBVIOUS
<1>1. ClientTypeOK'
  BY ClientTypeNext DEF ClientInv
<1>2. CASE UNCHANGED clientVars
  BY <1>1, <1>2 DEF clientVars, ClientInv, OneConnection, LineWaits, SessionFits,
     CallFits, Kept, AllOrNothing
<1>3. CASE ClientNext
  BY <1>1, <1>3, CallClientKeeps, ServeKeeps, ConnectFailsKeeps, FunctionKeeps, BeginKeeps,
     SucceedsKeeps, StatementFailsKeeps, CommitKeeps, RollbackKeeps, ReleaseKeeps,
     ProcessDiesKeeps DEF ClientNext, ClientStep, ClientInv
<1> QED
  BY <1>2, <1>3

LEMMA ClientInvHolds == ClientSpec => []ClientInv
  BY ClientInvInit, ClientInvNext, PTL DEF ClientSpec

\* A transaction keeps all that its function executed or nothing, and its caller
\* learns which, over any number of connections: nobody gets a connection with
\* what another call has left on it.
THEOREM AllOrNothingHolds == ClientSpec => []AllOrNothing
<1>1. ClientInv => AllOrNothing
  BY DEF ClientInv
<1> QED
  BY <1>1, ClientInvHolds, PTL
-----------------------------------------------------------------------------
(* The audit trail.                                                        *)

\* A row hashes its text on top of what it was chained to, and an entry that is
\* there has the two hashes it was committed with.
AuditInv ==
  /\ AuditTypeOK
  /\ \A w \in Writers : writing[w] # NoWrite =>
       writing[w].row.hash = HashOf(writing[w].row.prev, writing[w].row.text)
  /\ \A i \in EventIds : written[i] # NoEvent =>
       written[i].hash = HashOf(written[i].prev, written[i].text)
  /\ \A i \in Entries : /\ written[i] # NoEvent
                        /\ trail[i].prev = written[i].prev
                        /\ trail[i].hash = written[i].hash
-----------------------------------------------------------------------------
LEMMA LastIsLast ==
  ASSUME NEW ids \in SUBSET EventIds, ids # {}
  PROVE  LastOf(ids) \in ids /\ \A j \in ids : j <= LastOf(ids)
<1>1. LastEvent \in Nat /\ \A i \in ids : i \in Nat /\ LastEvent - i \in Nat
  BY AuditAssumption DEF EventIds
<1> DEFINE Less == {pair \in Nat \X Nat : pair[1] < pair[2]}
           Gaps == {LastEvent - i : i \in ids}
<1>2. IsWellFoundedOn(Less, Nat)
  BY NatLessThanWellFounded, Zenon DEF OpToRel
<1>3. Gaps \subseteq Nat /\ Gaps # {}
  BY <1>1
<1> HIDE DEF Less
<1>4. PICK gap \in Gaps : \A other \in Gaps : <<other, gap>> \notin Less
  BY <1>2, <1>3, WFMin
<1>5. PICK i \in ids : gap = LastEvent - i
  BY <1>4
<1>6. ASSUME NEW j \in ids PROVE j <= i
  <2>1. <<LastEvent - j, LastEvent - i>> \notin Less
    BY <1>4, <1>5
  <2>2. ~(LastEvent - j < LastEvent - i)
    BY <1>1, <2>1 DEF Less
  <2> QED
    BY <1>1, <2>2
<1> QED
  BY <1>6, Zenon DEF LastOf

LEMMA AuditInvInit == AuditInit => AuditInv
<1> SUFFICES ASSUME AuditInit PROVE AuditInv
  OBVIOUS
<1>1. AuditTypeOK
  <2>1. trail \in [EventIds -> Events \cup {NoEvent}]
        /\ written \in [EventIds -> Events \cup {NoEvent}]
    BY DEF AuditInit
  <2>2. nextEvent \in 1 .. LastEvent + 1
    BY AuditAssumption DEF AuditInit
  <2>3. writing \in [Writers -> [id : EventIds, row : Events] \cup {NoWrite}]
    BY DEF AuditInit
  <2> QED
    BY <2>1, <2>2, <2>3 DEF AuditTypeOK
<1> QED
  BY <1>1 DEF AuditInit, AuditInv, Entries

LEMMA InsertKeeps ==
  ASSUME AuditInv, NEW w \in Writers, NEW x \in Texts, NEW y \in Rests, InsertEvent(w, x, y)
  PROVE  AuditInv'
<1> DEFINE prev == HashOfLast(Entries)
           row == [text |-> x, rest |-> y, prev |-> prev, hash |-> HashOf(prev, x)]
<1>0. AuditTypeOK /\ nextEvent \in EventIds
  BY AuditAssumption DEF AuditInv, AuditTypeOK, InsertEvent, EventIds
<1>1. /\ writing' = [writing EXCEPT ![w] = [id |-> nextEvent, row |-> row]]
      /\ nextEvent' = nextEvent + 1 /\ trail' = trail /\ written' = written
  BY DEF InsertEvent
<1>2. prev \in Seq(Texts)
  <2>1. CASE Entries = {}
    BY <2>1 DEF HashOfLast
  <2>2. CASE Entries # {}
    <3>1. LastOf(Entries) \in Entries
      BY <2>2, LastIsLast DEF Entries
    <3>2. trail[LastOf(Entries)] \in Events
      BY <1>0, <3>1 DEF AuditTypeOK, Entries
    <3> QED
      BY <2>2, <3>2 DEF HashOfLast, Events
  <2> QED
    BY <2>1, <2>2
<1> HIDE DEF prev
<1>3. row \in Events /\ row.hash = HashOf(row.prev, row.text)
  BY <1>2 DEF Events, HashOf
<1> HIDE DEF row
<1>4. AuditTypeOK'
  <2>1. [id |-> nextEvent, row |-> row] \in [id : EventIds, row : Events]
    BY <1>0, <1>3
  <2>2. writing' \in [Writers -> [id : EventIds, row : Events] \cup {NoWrite}]
    BY <1>0, <1>1, <2>1 DEF AuditTypeOK
  <2>3. nextEvent' \in 1 .. LastEvent + 1
    BY <1>0, <1>1, AuditAssumption DEF AuditTypeOK, EventIds
  <2> QED
    BY <1>0, <1>1, <2>2, <2>3 DEF AuditTypeOK
<1>5. \A v \in Writers : writing'[v] # NoWrite =>
        writing'[v].row.hash = HashOf(writing'[v].row.prev, writing'[v].row.text)
  <2>1. writing'[w] = [id |-> nextEvent, row |-> row]
        /\ \A v \in Writers \ {w} : writing'[v] = writing[v]
    BY <1>0, <1>1 DEF AuditTypeOK
  <2> QED
    BY <1>3, <2>1 DEF AuditInv
<1> QED
  BY <1>1, <1>4, <1>5 DEF AuditInv, Entries, HashOf

LEMMA CommitKeepsTrail ==
  ASSUME AuditInv, NEW w \in Writers, CommitEvent(w)
  PROVE  AuditInv'
<1> DEFINE k == writing[w].id
           row == writing[w].row
<1>0. AuditTypeOK /\ k \in EventIds /\ row \in Events /\ row # NoEvent
  BY AuditAssumption DEF AuditInv, AuditTypeOK, CommitEvent
<1>1. /\ trail' = [trail EXCEPT ![k] = row]
      /\ written' = [written EXCEPT ![k] = row]
      /\ writing' = [writing EXCEPT ![w] = NoWrite]
      /\ nextEvent' = nextEvent
      /\ row.hash = HashOf(row.prev, row.text)
  BY DEF CommitEvent, AuditInv
<1> HIDE DEF k, row
<1>2. /\ trail'[k] = row /\ written'[k] = row
      /\ \A i \in EventIds \ {k} : trail'[i] = trail[i] /\ written'[i] = written[i]
      /\ \A v \in Writers : writing'[v] \in {writing[v], NoWrite}
  BY <1>0, <1>1 DEF AuditTypeOK
<1>3. AuditTypeOK'
  BY <1>0, <1>1 DEF AuditTypeOK
<1>4. \A v \in Writers : writing'[v] # NoWrite =>
        writing'[v].row.hash = HashOf(writing'[v].row.prev, writing'[v].row.text)
  BY <1>2 DEF AuditInv
<1>5. \A i \in EventIds : written'[i] # NoEvent =>
        written'[i].hash = HashOf(written'[i].prev, written'[i].text)
  BY <1>1, <1>2 DEF AuditInv
<1>6. \A i \in Entries' : /\ written'[i] # NoEvent
                          /\ trail'[i].prev = written'[i].prev
                          /\ trail'[i].hash = written'[i].hash
  BY <1>0, <1>2 DEF AuditInv, Entries
<1> QED
  BY <1>3, <1>4, <1>5, <1>6 DEF AuditInv, HashOf

\* A rollback and damage to the table leave the hashes of the other rows alone.
LEMMA LessKeeps ==
  ASSUME AuditInv, UNCHANGED <<nextEvent, written>>,
         trail' \in [EventIds -> Events \cup {NoEvent}],
         \A i \in EventIds : trail'[i] # NoEvent =>
           /\ trail[i] # NoEvent
           /\ trail'[i].prev = trail[i].prev /\ trail'[i].hash = trail[i].hash,
         writing' \in [Writers -> [id : EventIds, row : Events] \cup {NoWrite}],
         \A w \in Writers : writing'[w] \in {writing[w], NoWrite}
  PROVE  AuditInv'
<1>1. AuditTypeOK'
  BY DEF AuditInv, AuditTypeOK
<1>2. \A w \in Writers : writing'[w] # NoWrite =>
        writing'[w].row.hash = HashOf(writing'[w].row.prev, writing'[w].row.text)
  BY DEF AuditInv
<1>3. \A i \in Entries' : /\ written'[i] # NoEvent
                          /\ trail'[i].prev = written'[i].prev
                          /\ trail'[i].hash = written'[i].hash
  BY DEF AuditInv, Entries
<1> QED
  BY <1>1, <1>2, <1>3 DEF AuditInv, HashOf

LEMMA AuditInvNext == AuditInv /\ [AuditNext]_auditVars => AuditInv'
<1> SUFFICES ASSUME AuditInv, [AuditNext]_auditVars PROVE AuditInv'
  OBVIOUS
<1>0. AuditTypeOK
  BY DEF AuditInv
<1>1. ASSUME NEW w \in Writers, RollbackEvent(w) PROVE AuditInv'
  BY <1>0, <1>1, LessKeeps DEF RollbackEvent, AuditTypeOK
<1>2. ASSUME NEW i \in EventIds, NEW x \in Texts, NEW y \in Rests, AlterEvent(i, x, y)
      PROVE  AuditInv'
  <2>1. trail[i] \in Events
    BY <1>0, <1>2 DEF AlterEvent, AuditTypeOK, Entries
  <2> DEFINE row == [trail[i] EXCEPT !.text = x, !.rest = y]
  <2>2. row \in Events /\ row.prev = trail[i].prev /\ row.hash = trail[i].hash
    BY <2>1 DEF Events
  <2>3. trail' = [trail EXCEPT ![i] = row] /\ UNCHANGED <<nextEvent, writing, written>>
    <3>1. trail' = [trail EXCEPT ![i].text = x, ![i].rest = y]
          /\ UNCHANGED <<nextEvent, writing, written>>
      BY <1>2 DEF AlterEvent
    <3> QED
      BY <1>0, <2>1, <3>1 DEF AuditTypeOK, Events
  <2> HIDE DEF row
  <2>4. trail' \in [EventIds -> Events \cup {NoEvent}]
    BY <1>0, <2>2, <2>3 DEF AuditTypeOK
  <2>5. /\ trail'[i].prev = trail[i].prev /\ trail'[i].hash = trail[i].hash
        /\ trail[i] # NoEvent /\ \A j \in EventIds \ {i} : trail'[j] = trail[j]
    BY <1>0, <1>2, <2>2, <2>3 DEF AuditTypeOK, AlterEvent, Entries
  <2> QED
    BY <1>0, <2>3, <2>4, <2>5, LessKeeps DEF AuditTypeOK
<1>3. ASSUME NEW i \in EventIds, LoseEvent(i) PROVE AuditInv'
  BY <1>0, <1>3, LessKeeps DEF LoseEvent, AuditTypeOK
<1>4. CASE UNCHANGED auditVars
  BY <1>0, <1>4, LessKeeps DEF auditVars, AuditTypeOK
<1> QED
  BY <1>1, <1>2, <1>3, <1>4, InsertKeeps, CommitKeepsTrail DEF AuditNext

LEMMA AuditInvHolds == AuditSpec => []AuditInv
  BY AuditInvInit, AuditInvNext, PTL DEF AuditSpec
-----------------------------------------------------------------------------
(* What the check finds *)

\* The entries before i, counted; the last of them comes after all the others.
LEMMA EntriesBefore ==
  ASSUME NEW i \in EventIds
  PROVE  /\ IsFiniteSet(Before(i)) /\ Cardinality(Before(i)) \in Nat
         /\ Before(i) = {} => Cardinality(Before(i)) = 0
         /\ \A j \in Before(i) : /\ j \in EventIds /\ Place(j) \in 1 .. Cardinality(Before(i))
                                 /\ \A m \in Before(i) : Place(j) = Place(m) => j = m
         /\ Before(i) # {} =>
              LET p == LastOf(Before(i)) IN
              /\ p \in Before(i) /\ Before(i) = Before(p) \cup {p}
              /\ Cardinality(Before(i)) = Cardinality(Before(p)) + 1
<1>0. Entries \subseteq EventIds /\ EventIds \subseteq Nat
  BY DEF Entries, EventIds
<1>1. ASSUME NEW m \in EventIds
      PROVE  m \in Nat /\ IsFiniteSet(Before(m)) /\ Cardinality(Before(m)) \in Nat
  <2>1. IsFiniteSet(EventIds)
    BY AuditAssumption, FS_Interval DEF EventIds
  <2>2. Before(m) \in SUBSET EventIds
    BY <1>0 DEF Before
  <2>3. IsFiniteSet(Before(m))
    BY <2>1, <2>2, FS_Subset
  <2> QED
    BY <1>0, <2>3, FS_CardinalityType
<1>2. ASSUME NEW m \in EventIds, NEW j \in Before(m)
      PROVE  j \in EventIds /\ Place(j) \in 1 .. Cardinality(Before(m))
  <2>1. j \in EventIds /\ j \in Entries /\ j < m /\ j \in Nat /\ m \in Nat
    BY <1>0 DEF Before
  <2>2. Before(j) \cup {j} \subseteq Before(m) /\ j \notin Before(j)
    <3>1. ASSUME NEW l \in Before(j) PROVE l \in Before(m)
      <4>1. l \in Entries /\ l < j /\ l \in Nat
        BY <1>0 DEF Before
      <4>2. l < m
        BY <2>1, <4>1
      <4> QED
        BY <4>1, <4>2 DEF Before
    <3>2. j \in Before(m)
      BY <1>2
    <3>3. j \notin Before(j)
      BY <2>1 DEF Before
    <3> QED
      BY <3>1, <3>2, <3>3
  <2>3. Cardinality(Before(j) \cup {j}) = Cardinality(Before(j)) + 1
    BY <1>1, <2>1, <2>2, FS_AddElement
  <2>4. Cardinality(Before(j) \cup {j}) <= Cardinality(Before(m))
    BY <1>1, <2>1, <2>2, FS_Subset
  <2> QED
    BY <1>1, <2>1, <2>3, <2>4 DEF Place
<1>3. ASSUME NEW j \in Before(i), NEW m \in Before(i), j < m PROVE Place(j) # Place(m)
  <2>1. j \in Before(m) /\ m \in EventIds
    BY <1>3 DEF Before, Entries
  <2>2. Place(j) \in 1 .. Cardinality(Before(m))
    BY <1>2, <2>1
  <2> QED
    BY <1>1, <2>1, <2>2 DEF Place
<1>4. ASSUME Before(i) # {}
      PROVE  LET p == LastOf(Before(i)) IN
             /\ p \in Before(i) /\ Before(i) = Before(p) \cup {p}
             /\ Cardinality(Before(i)) = Cardinality(Before(p)) + 1
  <2> DEFINE p == LastOf(Before(i))
  <2>1. p \in Before(i) /\ \A j \in Before(i) : j <= p
    BY <1>4, LastIsLast DEF Before, Entries
  <2> HIDE DEF p
  <2>2. p \in Entries /\ p < i /\ p \in Nat /\ i \in Nat /\ p \in EventIds
    BY <1>0, <2>1 DEF Before
  <2>3. Before(i) = Before(p) \cup {p} /\ p \notin Before(p) /\ p \in EventIds
    <3>1. ASSUME NEW j \in Before(i) PROVE j \in Before(p) \cup {p}
      <4>1. j \in Entries /\ j \in Nat /\ j <= p
        BY <1>0, <2>1 DEF Before
      <4>2. j < p \/ j = p
        BY <2>2, <4>1
      <4> QED
        BY <4>1, <4>2 DEF Before
    <3>2. ASSUME NEW j \in Before(p) PROVE j \in Before(i)
      <4>1. j \in Entries /\ j \in Nat /\ j < p
        BY <1>0 DEF Before
      <4>2. j < i
        BY <2>2, <4>1
      <4> QED
        BY <4>1, <4>2 DEF Before
    <3>3. p \notin Before(p)
      BY <2>2 DEF Before
    <3> QED
      BY <2>1, <2>2, <3>1, <3>2, <3>3
  <2>4. Cardinality(Before(p) \cup {p}) = Cardinality(Before(p)) + 1
    BY <1>1, <2>3, FS_AddElement
  <2> QED
    BY <2>1, <2>3, <2>4 DEF p
<1>5. Before(i) = {} => Cardinality(Before(i)) = 0
  BY FS_EmptySet
<1>6. \A j, m \in Before(i) : Place(j) = Place(m) => j = m
  BY <1>1, <1>2, <1>3
<1> QED
  BY <1>1, <1>2, <1>4, <1>5, <1>6

LEMMA AppendIsExact ==
  ASSUME NEW s \in Seq(Texts), NEW x \in Texts, NEW t \in Seq(Texts), NEW y \in Texts
  PROVE  /\ Len(Append(s, x)) = Len(s) + 1 /\ Append(s, x)[Len(s) + 1] = x
         /\ \A k \in 1 .. Len(s) : Append(s, x)[k] = s[k]
         /\ Append(s, x) = Append(s, y) => x = y
<1>1. Append(s, x)[Len(s) + 1] = x /\ Append(s, y)[Len(s) + 1] = y
  OBVIOUS
<1> QED
  BY <1>1

\* What the hash columns of an entry and of the one before it say.
LEMMA EntryFacts ==
  ASSUME AuditInv, NEW i \in Entries
  PROVE  /\ i \in EventIds /\ trail[i] \in Events /\ written[i] \in Events
         /\ trail[i].prev = written[i].prev /\ trail[i].hash = written[i].hash
         /\ written[i].hash = Append(written[i].prev, written[i].text)
  BY DEF AuditInv, AuditTypeOK, Entries, HashOf

\* A chain that verifies has each entry on top of the texts below it.
LEMMA VerifiedIsBuilt ==
  ASSUME AuditInv, ChainVerified
  PROVE  \A i \in Entries : trail[i].text = written[i].text /\ BuiltOn(i)
<1>1. ASSUME NEW i \in Entries
      PROVE  trail[i].text = written[i].text /\ written[i].prev = HashOfLast(Before(i))
  <2>1. /\ written[i].prev = HashOfLast(Before(i))
        /\ Append(written[i].prev, written[i].text) = Append(written[i].prev, trail[i].text)
    BY EntryFacts DEF ChainVerified, LinkIntact, HashOf
  <2>2. /\ written[i].prev \in Seq(Texts)
        /\ written[i].text \in Texts /\ trail[i].text \in Texts
    BY EntryFacts DEF Events
  <2> QED
    BY <2>1, <2>2, AppendIsExact
<1>2. ASSUME NEW i \in Entries, \A j \in Before(i) : BuiltOn(j) PROVE BuiltOn(i)
  <2>0. i \in EventIds
    BY EntryFacts
  <2>1. CASE Before(i) = {}
    <3>1. written[i].prev = <<>>
      BY <1>1, <2>1 DEF HashOfLast
    <3> QED
      BY <2>0, <2>1, <3>1, EntriesBefore DEF BuiltOn
  <2>2. CASE Before(i) # {}
    <3> DEFINE p == LastOf(Before(i))
    <3>1. /\ p \in Before(i) /\ Before(i) = Before(p) \cup {p}
          /\ Cardinality(Before(i)) = Cardinality(Before(p)) + 1
      BY <2>0, <2>2, EntriesBefore
    <3>2. written[i].prev = trail[p].hash
      BY <1>1, <2>2 DEF HashOfLast
    <3> HIDE DEF p
    <3>3. p \in Entries /\ BuiltOn(p)
      BY <1>2, <3>1 DEF Before
    <3>4. /\ written[p].prev \in Seq(Texts) /\ trail[p].text \in Texts
          /\ written[i].prev = Append(written[p].prev, trail[p].text)
      BY <1>1, <3>2, <3>3, EntryFacts DEF Events
    <3>5. Len(written[p].prev) = Cardinality(Before(p))
      BY <3>3 DEF BuiltOn
    <3>6. Cardinality(Before(i)) = Len(written[i].prev)
      BY <3>1, <3>4, <3>5, AppendIsExact
    <3>7. trail[p].text = written[i].prev[Place(p)]
      <4>1. Place(p) = Len(written[p].prev) + 1
        BY <3>5 DEF Place
      <4> QED
        BY <3>4, <4>1, AppendIsExact
    <3>8. ASSUME NEW j \in Before(p) PROVE trail[j].text = written[i].prev[Place(j)]
      <4>1. Place(j) \in 1 .. Len(written[p].prev)
        BY <3>3, <3>5, EntryFacts, EntriesBefore
      <4>2. trail[j].text = written[p].prev[Place(j)]
        BY <3>3 DEF BuiltOn
      <4> QED
        BY <3>4, <4>1, <4>2, AppendIsExact
    <3> QED
      BY <3>1, <3>6, <3>7, <3>8 DEF BuiltOn
  <2> QED
    BY <2>1, <2>2
<1>3. \A i \in Entries : BuiltOn(i)
  <2> DEFINE Less == {pair \in Nat \X Nat : pair[1] < pair[2]}
             Bad == {i \in Entries : ~BuiltOn(i)}
  <2> SUFFICES ASSUME Bad # {} PROVE FALSE
    OBVIOUS
  <2>1. IsWellFoundedOn(Less, Nat)
    BY NatLessThanWellFounded, Zenon DEF OpToRel
  <2> HIDE DEF Less
  <2>2. Bad \subseteq Nat
    BY DEF Entries, EventIds
  <2>3. PICK i \in Bad : \A j \in Bad : <<j, i>> \notin Less
    BY <2>1, <2>2, WFMin
  <2>4. ASSUME NEW j \in Before(i) PROVE BuiltOn(j)
    <3>1. j \in Entries /\ j < i /\ j \in Nat /\ i \in Nat
      BY <2>2 DEF Before, Entries, EventIds
    <3> QED
      BY <2>3, <3>1 DEF Less
  <2> QED
    BY <1>2, <2>3, <2>4
<1> QED
  BY <1>1, <1>3

\* Entries that come after the texts they were hashed on verify.
LEMMA BuiltIsVerified ==
  ASSUME AuditInv, \A i \in Entries : trail[i].text = written[i].text /\ BuiltOn(i)
  PROVE  ChainVerified
<1> SUFFICES ASSUME NEW i \in Entries PROVE LinkIntact(i)
  BY DEF ChainVerified
<1>0. i \in EventIds /\ written[i].prev \in Seq(Texts)
  BY EntryFacts DEF Events
<1>1. written[i].prev = HashOfLast(Before(i))
  <2>1. CASE Before(i) = {}
    <3>1. Len(written[i].prev) = 0
      BY <1>0, <2>1, EntriesBefore DEF BuiltOn
    <3> QED
      BY <1>0, <2>1, <3>1 DEF HashOfLast
  <2>2. CASE Before(i) # {}
    <3> DEFINE p == LastOf(Before(i))
               n == Cardinality(Before(p))
    <3>1. /\ p \in Before(i) /\ Before(i) = Before(p) \cup {p}
          /\ Cardinality(Before(i)) = n + 1
      BY <1>0, <2>2, EntriesBefore
    <3>2. HashOfLast(Before(i)) = trail[p].hash
      BY <2>2 DEF HashOfLast
    <3> HIDE DEF p
    <3>3. p \in Entries /\ p \in EventIds /\ Len(written[p].prev) = n /\ n \in Nat
      BY <3>1, EntriesBefore DEF Before, Entries, BuiltOn
    <3>4. /\ written[p].prev \in Seq(Texts) /\ trail[p].text \in Texts
          /\ trail[p].hash = Append(written[p].prev, trail[p].text)
      BY <3>3, EntryFacts DEF Events
    <3>5. Len(written[i].prev) = n + 1
      BY <3>1 DEF BuiltOn
    <3>6. written[i].prev[n + 1] = trail[p].text
      BY <3>1 DEF BuiltOn, Place
    <3>7. ASSUME NEW k \in 1 .. n PROVE written[i].prev[k] = written[p].prev[k]
      <4> DEFINE places == [j \in Before(p) |-> Place(j)]
      <4>1. places \in Injection(Before(p), 1 .. n)
        BY <3>3, EntriesBefore DEF Injection, IsInjective
      <4>2. IsFiniteSet(1 .. n) /\ Cardinality(1 .. n) = n
        BY <3>3, FS_Interval
      <4>3. places \in Surjection(Before(p), 1 .. n)
        BY <4>1, <4>2, FS_Injection
      <4>4. PICK j \in Before(p) : Place(j) = k
        BY <4>3 DEF Surjection
      <4>5. j \in Before(i)
        BY <3>1, <4>4
      <4> QED
        BY <3>3, <4>4, <4>5 DEF BuiltOn
    <3>8. /\ Len(Append(written[p].prev, trail[p].text)) = n + 1
          /\ \A k \in 1 .. n + 1 :
               written[i].prev[k] = Append(written[p].prev, trail[p].text)[k]
      BY <3>3, <3>4, <3>6, <3>7, AppendIsExact
    <3>9. written[i].prev = Append(written[p].prev, trail[p].text)
      <4>1. Append(written[p].prev, trail[p].text) \in Seq(Texts)
        BY <3>4
      <4>2. \A s, t \in Seq(Texts) :
              Len(s) = Len(t) /\ (\A k \in 1 .. Len(s) : s[k] = t[k]) => s = t
        OBVIOUS
      <4> QED
        BY <1>0, <3>5, <3>8, <4>1, <4>2
    <3> QED
      BY <3>2, <3>4, <3>9
  <2> QED
    BY <2>1, <2>2
<1> QED
  BY <1>1, EntryFacts DEF LinkIntact, HashOf

THEOREM AuditTypeHolds == AuditSpec => []AuditTypeOK
  BY AuditInvHolds, PTL DEF AuditInv

\* Whatever was altered or lost and however writers overlapped, the check says
\* yes exactly when every entry has the text it was written with and comes
\* after the texts it was hashed on (verify_audit_chain of 0002_hardening.sql).
THEOREM VerifyIsExactHolds == AuditSpec => []VerifyIsExact
<1>1. AuditInv => VerifyIsExact
  BY VerifiedIsBuilt, BuiltIsVerified DEF VerifyIsExact
<1> QED
  BY <1>1, AuditInvHolds, PTL
=============================================================================

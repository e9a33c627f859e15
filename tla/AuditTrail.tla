----------------------------- MODULE AuditTrail -----------------------------
(***************************************************************************)
(* The hash chain of audit_events: the trigger audit_chain_hash and the    *)
(* function verify_audit_chain of migrations/0002_hardening.sql, and the   *)
(* check of packages/database/src/verify.ts that calls it.                 *)
(*                                                                         *)
(* The code that inserts audit events is not part of the repository: the   *)
(* writers here insert within what the table allows.  The sequence numbers *)
(* the row before the trigger reads the last committed hash, and the row   *)
(* is seen when its transaction commits.                                   *)
(*                                                                         *)
(* A row is the text the trigger hashes (action, target, digests,          *)
(* correlation and time, joined by '|') and the rest of it: the columns    *)
(* outside that text (actor_type, actor_user_id, tenant_id, metadata,      *)
(* ip_hash, user_agent_hash) and where the text is cut into columns.       *)
(* sha256 is injective: a hash is the sequence of the texts it goes over.  *)
(***************************************************************************)
EXTENDS Naturals, Sequences, FiniteSets

CONSTANTS Texts,       \* what the hash covers of a row
          Rests,       \* what it does not
          Writers,     \* transactions that insert at once
          LastEvent,   \* bound on the ids of audit_events
          NoEvent

Events == [text : Texts, rest : Rests, prev : Seq(Texts), hash : Seq(Texts)]

ASSUME AuditAssumption == LastEvent \in Nat /\ NoEvent \notin Events

VARIABLES
  trail,      \* audit_events, NoEvent where there is no row
  nextEvent,  \* the sequence of the column id
  writing,    \* per writer: the id and row of its open transaction
  written     \* history: what was committed under each id

auditVars == <<trail, nextEvent, writing, written>>

EventIds == 1 .. LastEvent
Entries  == {i \in EventIds : trail[i] # NoEvent}
NoWrite  == [id |-> 0]

AuditInit ==
  /\ trail = [i \in EventIds |-> NoEvent]
  /\ nextEvent = 1
  /\ writing = [w \in Writers |-> NoWrite]
  /\ written = [i \in EventIds |-> NoEvent]

\* SELECT entry_hash .. ORDER BY id DESC LIMIT 1.
LastOf(ids) == CHOOSE i \in ids : \A j \in ids : j <= i

HashOfLast(ids) == IF ids = {} THEN <<>> ELSE trail[LastOf(ids)].hash

HashOf(prev, text) == Append(prev, text)

InsertEvent(w, text, rest) ==
  /\ writing[w] = NoWrite
  /\ nextEvent <= LastEvent
  /\ LET prev == HashOfLast(Entries) IN
     writing' = [writing EXCEPT ![w] =
       [id |-> nextEvent,
        row |-> [text |-> text, rest |-> rest, prev |-> prev,
                 hash |-> HashOf(prev, text)]]]
  /\ nextEvent' = nextEvent + 1
  /\ UNCHANGED <<trail, written>>

CommitEvent(w) ==
  /\ writing[w] # NoWrite
  /\ trail' = [trail EXCEPT ![writing[w].id] = writing[w].row]
  /\ written' = [written EXCEPT ![writing[w].id] = writing[w].row]
  /\ writing' = [writing EXCEPT ![w] = NoWrite]
  /\ UNCHANGED nextEvent

\* The number of a row that is rolled back is not used again.
RollbackEvent(w) ==
  /\ writing[w] # NoWrite
  /\ writing' = [writing EXCEPT ![w] = NoWrite]
  /\ UNCHANGED <<trail, nextEvent, written>>

\* A restore or a superuser, past the trigger that forbids it, changes any of
\* a row's columns but the two the trigger computed, or takes a row away.
AlterEvent(i, text, rest) ==
  /\ i \in Entries
  /\ trail' = [trail EXCEPT ![i].text = text, ![i].rest = rest]
  /\ UNCHANGED <<nextEvent, writing, written>>

LoseEvent(i) ==
  /\ i \in Entries
  /\ trail' = [trail EXCEPT ![i] = NoEvent]
  /\ UNCHANGED <<nextEvent, writing, written>>

AuditNext ==
  \/ \E w \in Writers, x \in Texts, y \in Rests : InsertEvent(w, x, y)
  \/ \E w \in Writers : CommitEvent(w) \/ RollbackEvent(w)
  \/ \E i \in EventIds, x \in Texts, y \in Rests : AlterEvent(i, x, y)
  \/ \E i \in EventIds : LoseEvent(i)

AuditSpec == AuditInit /\ [][AuditNext]_auditVars
-----------------------------------------------------------------------------
\* verify_audit_chain: the rows in the order of their ids, each with the hash
\* of the one before it.
Before(i) == {j \in Entries : j < i}

\* Mutant: a row is checked against its own prev_hash alone.
LinkByItself(i) == trail[i].hash = HashOf(trail[i].prev, trail[i].text)

LinkIntact(i) ==
  /\ trail[i].prev = HashOfLast(Before(i))
  /\ trail[i].hash = HashOf(HashOfLast(Before(i)), trail[i].text)

ChainVerified == \A i \in Entries : LinkIntact(i)
-----------------------------------------------------------------------------
AuditTypeOK ==
  /\ trail \in [EventIds -> Events \cup {NoEvent}]
  /\ nextEvent \in 1 .. LastEvent + 1
  /\ writing \in [Writers -> [id : EventIds, row : Events] \cup {NoWrite}]
  /\ written \in [EventIds -> Events \cup {NoEvent}]

Place(j) == Cardinality(Before(j)) + 1

\* The entries before i are, one for one and in order, those it was hashed on.
BuiltOn(i) ==
  /\ Cardinality(Before(i)) = Len(written[i].prev)
  /\ \A j \in Before(i) : trail[j].text = written[i].prev[Place(j)]

\* What verify_audit_chain looks at row by row comes to this, whatever was
\* altered or lost and however writers overlapped: it says yes exactly when
\* every entry has the text it was written with and comes after the very texts
\* it was hashed on.  So two writers that read one last hash break the chain
\* without any tampering, the loss of the last entries goes unnoticed, and so
\* does a change of a column outside the text.
VerifyIsExact ==
  ChainVerified <=> \A i \in Entries : trail[i].text = written[i].text /\ BuiltOn(i)

\* 0002_hardening.sql:47: tampering breaks the chain and is detected.  A check
\* that says yes has found every entry that is there as it was written.
TamperingDetected == ChainVerified => \A i \in Entries : trail[i] = written[i]
=============================================================================

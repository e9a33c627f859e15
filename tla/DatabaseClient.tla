--------------------------- MODULE DatabaseClient ---------------------------
(***************************************************************************)
(* packages/database/src/client.ts: statements and transactions of one     *)
(* process over a few connections.  PGliteClient is the case of a single   *)
(* connection, with the promise chain of serialize as the line of those    *)
(* who wait; PgClient has the pool of node-postgres, which serves its      *)
(* waiting callers in order too.                                           *)
(*                                                                         *)
(* PostgreSQL, one session per connection: a statement outside a           *)
(* transaction is committed at once, one inside it with its COMMIT; after  *)
(* an error the transaction takes nothing but its end; an open one is lost *)
(* with the process.                                                       *)
(***************************************************************************)
EXTENDS Naturals, Sequences, FiniteSets

CONSTANTS Tasks,          \* calls of query, exec or transaction
          Connections,    \* one for PGlite, poolMax for node-postgres
          MaxStatements,  \* bound on what a transaction's function executes
          NoTask

ASSUME ClientAssumption ==
  /\ Connections # {} /\ NoTask \notin Tasks
  /\ MaxStatements \in Nat \ {0}

VARIABLES
  task,      \* per call: the step it is at
  inside,    \* per call: it is a call of transaction
  line,      \* calls that wait for a connection
  holder,    \* per connection: the call it serves
  session,   \* per connection: "plain", "open" or "aborted"
  batch,     \* per connection: writes of the open transaction
  stored,    \* history: committed writes, <<call, number>>
  made,      \* history, per call: statements that succeeded
  answer     \* history, per call: what its promise was settled with

clientVars == <<task, inside, line, holder, session, batch, stored, made, answer>>

ClientTypeOK ==
  /\ task \in [Tasks -> {"new", "waiting", "begin", "body", "commit", "rollback",
                         "release", "done"}]
  /\ inside \in [Tasks -> BOOLEAN]
  /\ line \in Seq(Tasks)
  /\ holder \in [Connections -> Tasks \cup {NoTask}]
  /\ session \in [Connections -> {"plain", "open", "aborted"}]
  /\ batch \in [Connections -> SUBSET (Tasks \X (1..MaxStatements))]
  /\ stored \subseteq Tasks \X (1..MaxStatements)
  /\ made \in [Tasks -> 0..MaxStatements]
  /\ answer \in [Tasks -> {"none", "ok", "error"}]

ClientInit ==
  /\ task = [t \in Tasks |-> "new"]
  /\ inside \in [Tasks -> BOOLEAN]
  /\ line = <<>>
  /\ holder = [c \in Connections |-> NoTask]
  /\ session = [c \in Connections |-> "plain"]
  /\ batch = [c \in Connections |-> {}]
  /\ stored = {}
  /\ made = [t \in Tasks |-> 0]
  /\ answer = [t \in Tasks |-> "none"]

Advance(t, step) == task' = [task EXCEPT ![t] = step]

Settle(t, with) == answer' = [answer EXCEPT ![t] = with]

CallClient(t) ==
  /\ task[t] = "new"
  /\ Advance(t, "waiting")
  /\ line' = Append(line, t)
  /\ UNCHANGED <<inside, holder, session, batch, stored, made, answer>>

\* serialize, and the pool's connect.
Serve(c) ==
  /\ holder[c] = NoTask /\ line # <<>>
  /\ holder' = [holder EXCEPT ![c] = Head(line)]
  /\ line' = Tail(line)
  /\ Advance(Head(line), IF inside[Head(line)] THEN "begin" ELSE "body")
  /\ UNCHANGED <<inside, session, batch, stored, made, answer>>

\* The pool could not open a connection for the first in the line.
ConnectFails ==
  /\ line # <<>>
  /\ line' = Tail(line)
  /\ Advance(Head(line), "done")
  /\ Settle(Head(line), "error")
  /\ UNCHANGED <<inside, holder, session, batch, stored, made>>

\* BEGIN, which PostgreSQL answers with a warning inside a transaction.
BeginOn(t, c) ==
  /\ holder[c] = t /\ task[t] = "begin"
  /\ \/ /\ session[c] # "aborted"
        /\ session' = [session EXCEPT ![c] = "open"]
        /\ Advance(t, "body")
     \/ Advance(t, "rollback") /\ UNCHANGED session
  /\ UNCHANGED <<inside, line, holder, batch, stored, made, answer>>

\* query and exec, of the client or of the one a transaction's function gets.
Succeeds(t, c) ==
  /\ holder[c] = t /\ task[t] = "body" /\ made[t] < MaxStatements
  /\ session[c] # "aborted"
  /\ made' = [made EXCEPT ![t] = @ + 1]
  /\ IF session[c] = "plain"
     THEN stored' = stored \cup {<<t, made'[t]>>} /\ UNCHANGED batch
     ELSE batch' = [batch EXCEPT ![c] = @ \cup {<<t, made'[t]>>}] /\ UNCHANGED stored
  /\ IF inside[t] THEN UNCHANGED <<task, answer>>
                  ELSE Advance(t, "release") /\ Settle(t, "ok")
  /\ UNCHANGED <<inside, line, holder, session>>

StatementFails(t, c) ==
  /\ holder[c] = t /\ task[t] = "body"
  /\ session' = [session EXCEPT ![c] = IF @ = "plain" THEN @ ELSE "aborted"]
  /\ IF inside[t] THEN Advance(t, "rollback") /\ UNCHANGED answer
                  ELSE Advance(t, "release") /\ Settle(t, "error")
  /\ UNCHANGED <<inside, line, holder, batch, stored, made>>

\* The function throws on its own account, or for a transaction within this one.
FunctionThrows(t) ==
  /\ task[t] = "body" /\ inside[t]
  /\ Advance(t, "rollback")
  /\ UNCHANGED <<inside, line, holder, session, batch, stored, made, answer>>

FunctionReturns(t) ==
  /\ task[t] = "body" /\ inside[t]
  /\ Advance(t, "commit")
  /\ UNCHANGED <<inside, line, holder, session, batch, stored, made, answer>>

\* COMMIT, which ends the transaction even when a deferred constraint refuses it.
CommitOn(t, c) ==
  /\ holder[c] = t /\ task[t] = "commit"
  /\ session' = [session EXCEPT ![c] = "plain"]
  /\ batch' = [batch EXCEPT ![c] = {}]
  /\ \/ /\ stored' = stored \cup (IF session[c] = "open" THEN batch[c] ELSE {})
        /\ Advance(t, "release") /\ Settle(t, "ok")
     \/ /\ session[c] = "open"
        /\ Advance(t, "rollback") /\ UNCHANGED <<stored, answer>>
  /\ UNCHANGED <<inside, line, holder, made>>

\* Mutant: the error is passed on and nothing ends the transaction.
RollbackForgotten(t, c) ==
  /\ holder[c] = t /\ task[t] = "rollback"
  /\ Advance(t, "release") /\ Settle(t, "error")
  /\ UNCHANGED <<inside, line, holder, session, batch, stored, made>>

\* The catch: ROLLBACK, a warning outside a transaction, and the error again.
RollbackOn(t, c) ==
  /\ holder[c] = t /\ task[t] = "rollback"
  /\ session' = [session EXCEPT ![c] = "plain"]
  /\ batch' = [batch EXCEPT ![c] = {}]
  /\ Advance(t, "release") /\ Settle(t, "error")
  /\ UNCHANGED <<inside, line, holder, stored, made>>

\* The finally of PgClient, and the next link of PGliteClient's chain.
ReleaseConnection(t, c) ==
  /\ holder[c] = t /\ task[t] = "release"
  /\ holder' = [holder EXCEPT ![c] = NoTask]
  /\ Advance(t, "done")
  /\ UNCHANGED <<inside, line, session, batch, stored, made, answer>>

\* The process dies: the server undoes what is open, unless the COMMIT came first.
ProcessDies ==
  /\ \E done \in SUBSET {c \in Connections :
                           holder[c] # NoTask /\ session[c] = "open"
                             /\ task[holder[c]] = "commit"} :
       stored' = stored \cup UNION {batch[c] : c \in done}
  /\ task' = [t \in Tasks |-> IF task[t] = "new" THEN "new" ELSE "done"]
  /\ line' = <<>>
  /\ holder' = [c \in Connections |-> NoTask]
  /\ session' = [c \in Connections |-> "plain"]
  /\ batch' = [c \in Connections |-> {}]
  /\ UNCHANGED <<inside, made, answer>>

ClientStep(t, c) ==
  \/ BeginOn(t, c) \/ Succeeds(t, c) \/ StatementFails(t, c)
  \/ CommitOn(t, c) \/ RollbackOn(t, c) \/ ReleaseConnection(t, c)

ClientNext ==
  \/ \E t \in Tasks : CallClient(t) \/ FunctionThrows(t) \/ FunctionReturns(t)
  \/ \E c \in Connections : Serve(c)
  \/ \E t \in Tasks, c \in Connections : ClientStep(t, c)
  \/ ConnectFails \/ ProcessDies

ClientSpec == ClientInit /\ [][ClientNext]_clientVars

-----------------------------------------------------------------------------
Kept(t) == {n \in 1..MaxStatements : <<t, n>> \in stored}

\* "Run a function inside a transaction; rolls back on throw": of a call that
\* was answered, everything is kept or nothing, as the answer says; of one that
\* was not, everything it had executed or nothing.  No other call's statement
\* on the same connection, before or after, changes that.
AllOrNothing ==
  \A t \in Tasks :
    /\ Kept(t) \in {{}, 1..made[t]}
    /\ answer[t] = "ok" => Kept(t) = 1..made[t]
    /\ answer[t] = "error" => Kept(t) = {}
=============================================================================

----------------------------- MODULE MCServices -----------------------------
(***************************************************************************)
(* The services around a booking, model-checked together: sessions,        *)
(* Telegram links, the migration runner, the proxy administration, the API *)
(* limits, the choice of an offer, the audit trail and the database client *)
(* below them.  They share no state, so a behaviour runs one of them, its  *)
(* part, and leaves the others where they started.                         *)
(***************************************************************************)
EXTENDS Sessions, TelegramLink, MigrationRunner, ProxyAdmin, ApiLimits,
        ResultSelection, AuditTrail, DatabaseClient, TLC

VARIABLE part

Parts == {"sessions", "links", "migrations", "admin", "limits", "selection", "audit",
          "client"}

vars == <<part, sessionVars, linkVars, migrationVars, adminVars, limitVars,
          selectVars, auditVars, clientVars>>

\* A part that does not run starts in one of its initial states only.
OneOf(f, S) == f = CHOOSE g \in S : TRUE

MCInit ==
  /\ part \in Parts
  /\ SessionInit /\ LinkInit /\ MigrationInit /\ AdminInit /\ LimitInit
  /\ SelectInit /\ AuditInit /\ ClientInit
  /\ part # "links" => OneOf(owner, [Codes -> Owners])
  /\ part # "migrations" => OneOf(image, [Runners -> [Names -> Checksums]])
  /\ OneOf(choice, [Selectors -> Offers \cup Unknown])
  /\ part # "client" => OneOf(inside, [Tasks -> BOOLEAN])

MCNext ==
  \/ /\ part = "sessions" /\ SessionNext
     /\ UNCHANGED <<part, linkVars, migrationVars, adminVars, limitVars,
                    selectVars, auditVars, clientVars>>
  \/ /\ part = "links" /\ LinkNext
     /\ UNCHANGED <<part, sessionVars, migrationVars, adminVars, limitVars,
                    selectVars, auditVars, clientVars>>
  \/ /\ part = "migrations" /\ MigrationNext
     /\ UNCHANGED <<part, sessionVars, linkVars, adminVars, limitVars,
                    selectVars, auditVars, clientVars>>
  \/ /\ part = "admin" /\ AdminNext
     /\ UNCHANGED <<part, sessionVars, linkVars, migrationVars, limitVars,
                    selectVars, auditVars, clientVars>>
  \/ /\ part = "limits" /\ LimitNext
     /\ UNCHANGED <<part, sessionVars, linkVars, migrationVars, adminVars,
                    selectVars, auditVars, clientVars>>
  \/ /\ part = "selection" /\ SelectNext
     /\ UNCHANGED <<part, sessionVars, linkVars, migrationVars, adminVars,
                    limitVars, auditVars, clientVars>>
  \/ /\ part = "audit" /\ AuditNext
     /\ UNCHANGED <<part, sessionVars, linkVars, migrationVars, adminVars,
                    limitVars, selectVars, clientVars>>
  \/ /\ part = "client" /\ ClientNext
     /\ UNCHANGED <<part, sessionVars, linkVars, migrationVars, adminVars,
                    limitVars, selectVars, auditVars>>

MCSpec == MCInit /\ [][MCNext]_vars

\* Calls in flight are told apart by nothing but what they do.
CallSymmetry == Permutations(Clients)

\* The tables and the calls of every part keep their types: above all, a call
\* never works on a row that is not there or has no plan for its next step.
ServicesTypeOK ==
  /\ SessionTypeOK /\ LinkTypeOK /\ MigrationTypeOK /\ AdminTypeOK /\ LimitTypeOK
  /\ SelectTypeOK /\ AuditTypeOK /\ ClientTypeOK
=============================================================================

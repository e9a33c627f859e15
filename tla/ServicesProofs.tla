--------------------------- MODULE ServicesProofs ---------------------------
(***************************************************************************)
(* Proofs about the services as MCServices puts them together: a behaviour *)
(* of the whole is a behaviour of every part, so what is proved of a part  *)
(* by itself holds of the whole.                                           *)
(***************************************************************************)
EXTENDS MCServices, AuthProofs, AdminApiProofs, DatabaseProofs, ResultSelectionProofs

\* Every step of the whole is a step of each part or leaves it alone.
LEMMA StepOfParts ==
  ASSUME [MCNext]_vars
  PROVE  /\ [SessionNext]_sessionVars /\ [LinkNext]_linkVars
         /\ [MigrationNext]_migrationVars /\ [AdminNext]_adminVars
         /\ [LimitNext]_limitVars /\ [SelectNext]_selectVars
         /\ [AuditNext]_auditVars /\ [ClientNext]_clientVars
  BY Zenon DEF MCNext, vars

\* The parts share no state: whatever runs, each part behaves as specified.
THEOREM PartsBehave ==
  MCSpec => /\ SessionSpec /\ LinkSpec /\ MigrationSpec /\ AdminSpec
            /\ LimitSpec /\ SelectSpec /\ AuditSpec /\ ClientSpec
<1>1. MCInit => /\ SessionInit /\ LinkInit /\ MigrationInit /\ AdminInit
                /\ LimitInit /\ SelectInit /\ AuditInit /\ ClientInit
  BY DEF MCInit
<1> QED
  BY <1>1, StepOfParts, PTL
  DEF MCSpec, SessionSpec, LinkSpec, MigrationSpec, AdminSpec, LimitSpec,
      SelectSpec, AuditSpec, ClientSpec

\* The tables, the windows and the calls of all services keep their types: no
\* call works on a row that is not there.
THEOREM ServicesTypeCorrect == MCSpec => []ServicesTypeOK
<1>1. LinkInv => LinkTypeOK
  BY DEF LinkInv
<1>2. MigrationInv => MigrationTypeOK
  BY DEF MigrationInv
<1>3. AdminInv => AdminTypeOK
  BY DEF AdminInv
<1>4. LimitInv => LimitTypeOK
  BY DEF LimitInv
<1>5. ClientInv => ClientTypeOK
  BY DEF ClientInv
<1>6. ServicesTypeOK <=>
        /\ SessionTypeOK /\ LinkTypeOK /\ MigrationTypeOK /\ AdminTypeOK
        /\ LimitTypeOK /\ SelectTypeOK /\ AuditTypeOK /\ ClientTypeOK
  BY DEF ServicesTypeOK
<1> QED
  BY <1>1, <1>2, <1>3, <1>4, <1>5, <1>6, PartsBehave, SessionTypeHolds, LinkInvHolds,
     MigrationInvHolds, AdminInvHolds, LimitInvHolds, OneSelectedHolds, AuditTypeHolds,
     ClientInvHolds, PTL
=============================================================================

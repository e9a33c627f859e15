--------------------------- MODULE AdminApiProofs ---------------------------
(***************************************************************************)
(* Proofs about what stands behind the admin API of apps/api: ProxyAdmin   *)
(* for any catalogue limit and any number of administrators, ids and       *)
(* endpoints, and ApiLimits for any limit, window and addresses.           *)
(***************************************************************************)
EXTENDS ProxyAdmin, ApiLimits, TLAPS, FiniteSetTheorems

(* The catalogue.                                                          *)

\* A removal that is about to delete its row has recorded its event.
DeleteIsRecorded ==
  \A a \in Admins : admin[a] = "delete" =>
    <<handling[a].id, "REMOVED">> \in events

AdminInv == AdminTypeOK /\ DeleteIsRecorded
-----------------------------------------------------------------------------
LEMMA AdminTypeInit == AdminInit => AdminTypeOK
  BY DEF AdminInit, AdminTypeOK

LEMMA AdminTypeNext ==
  ASSUME AdminTypeOK, [AdminNext]_adminVars PROVE AdminTypeOK'
<1> DEFINE TableOK == /\ catalogue \in [ProxyIds -> CatalogueRow \cup {NoProxy}]
                     /\ events \subseteq ProxyIds \X EventKind
<1>1. TableOK
  BY DEF AdminTypeOK
\* A step is typed if the work it leaves is the work of the step it leads to.
<1>2. ASSUME NEW a \in Admins, NEW step, NEW work, Turn(a, step, work), TableOK',
             \/ step \in {"idle", "insert"} /\ work = Unread
             \/ step \in {"record", "delete"} /\ work \in EventWork
             \/ step = "switch" /\ work \in SwitchWork
             \/ step = "update" /\ work \in FormWork
      PROVE  AdminTypeOK'
  BY <1>2 DEF Turn, AdminTypeOK
<1>3. ASSUME NEW a \in Admins, Answer(a), TableOK' PROVE AdminTypeOK'
  BY <1>2, <1>3 DEF Answer
<1>4. ASSUME UNCHANGED <<catalogue, events>> PROVE TableOK'
  BY <1>1, <1>4
<1>5. ASSUME NEW a \in Admins, CountCatalogue(a) PROVE AdminTypeOK'
  BY <1>2, <1>4, <1>5 DEF CountCatalogue
<1>6. ASSUME NEW a \in Admins, NEW i \in ProxyIds, NEW e \in Endpoints, NEW f \in Forms,
             InsertProxy(a, i, e, f)
      PROVE  AdminTypeOK'
  <2>1. CASE TakenEndpoint(e, i)
    BY <1>3, <1>4, <1>6, <2>1 DEF InsertProxy
  <2>2. CASE ~TakenEndpoint(e, i)
    <3>1. [endpoint |-> e, form |-> f, enabled |-> TRUE] \in CatalogueRow
      BY DEF CatalogueRow
    <3>2. TableOK'
      BY <1>1, <1>6, <2>2, <3>1 DEF InsertProxy
    <3>3. [kind |-> "CREATED", id |-> i] \in EventWork
      BY DEF EventWork, EventKind
    <3> QED
      BY <1>2, <1>6, <2>2, <3>2, <3>3 DEF InsertProxy
  <2> QED
    BY <2>1, <2>2
<1>7. ASSUME NEW a \in Admins, NEW i \in ProxyIds, NEW patch \in Patches,
             ReadForUpdate(a, i, patch)
      PROVE  AdminTypeOK'
  <2> DEFINE endpoint == IF patch.endpoint = {} THEN catalogue[i].endpoint
                         ELSE CHOOSE e \in patch.endpoint : TRUE
             form == IF patch.form = {} THEN catalogue[i].form
                     ELSE CHOOSE f \in patch.form : TRUE
  <2>1. catalogue[i] \in CatalogueRow
    BY <1>1, <1>7 DEF ReadForUpdate, Listed
  <2>2. patch.endpoint \subseteq Endpoints /\ patch.form \subseteq Forms
    BY DEF Patches
  <2>3. endpoint \in Endpoints /\ form \in Forms
    BY <2>1, <2>2 DEF CatalogueRow
  <2>4. Turn(a, "update", [kind |-> "CHANGED", id |-> i, endpoint |-> endpoint, form |-> form])
    BY <1>7 DEF ReadForUpdate
  <2> HIDE DEF endpoint, form
  <2>5. [kind |-> "CHANGED", id |-> i, endpoint |-> endpoint, form |-> form] \in FormWork
    BY <2>3 DEF FormWork, EventKind
  <2> QED
    BY <1>2, <1>4, <1>7, <2>4, <2>5 DEF ReadForUpdate
<1>8. ASSUME NEW a \in Admins, WriteUpdate(a) PROVE AdminTypeOK'
  <2> DEFINE i == handling[a].id
             work == handling[a]
  <2>1. work \in FormWork
    BY <1>8 DEF WriteUpdate, AdminTypeOK
  <2>2. i \in ProxyIds /\ work.endpoint \in Endpoints /\ work.form \in Forms
    BY <2>1 DEF FormWork
  <2>3. CASE i \in Listed /\ TakenEndpoint(work.endpoint, i)
    BY <1>3, <1>4, <1>8, <2>3 DEF WriteUpdate
  <2>4. CASE ~(i \in Listed /\ TakenEndpoint(work.endpoint, i))
    <3>1. ASSUME i \in Listed PROVE Merged(catalogue[i], work) \in CatalogueRow
      <4>1. catalogue[i] \in CatalogueRow
        BY <1>1, <2>2, <3>1 DEF Listed
      <4> QED
        BY <2>2, <4>1 DEF Merged, CatalogueRow
    <3>2. catalogue' = IF i \in Listed
                       THEN [catalogue EXCEPT ![i] = Merged(catalogue[i], work)]
                       ELSE catalogue
      BY <1>8, <2>4 DEF WriteUpdate
    <3>3. TableOK'
      BY <1>1, <1>8, <2>2, <3>1, <3>2 DEF WriteUpdate
    <3>4. [kind |-> "CHANGED", id |-> i] \in EventWork
      BY <2>2 DEF EventWork, EventKind
    <3> QED
      BY <1>2, <1>8, <2>4, <3>3, <3>4 DEF WriteUpdate
  <2> QED
    BY <2>3, <2>4
<1>9. ASSUME NEW a \in Admins, NEW i \in ProxyIds, NEW on \in BOOLEAN, ReadForSwitch(a, i, on)
      PROVE  AdminTypeOK'
  <2>1. [kind |-> "CHANGED", id |-> i, on |-> on] \in SwitchWork
    BY DEF SwitchWork, EventKind
  <2> QED
    BY <1>2, <1>4, <1>9, <2>1 DEF ReadForSwitch
<1>10. ASSUME NEW a \in Admins, WriteSwitch(a) PROVE AdminTypeOK'
  <2> DEFINE i == handling[a].id
             on == handling[a].on
  <2>1. handling[a] \in SwitchWork
    BY <1>10 DEF WriteSwitch, AdminTypeOK
  <2>2. i \in ProxyIds /\ on \in BOOLEAN
    BY <2>1 DEF SwitchWork
  <2>3. ASSUME i \in Listed PROVE [catalogue[i] EXCEPT !.enabled = on] \in CatalogueRow
    <3>1. catalogue[i] \in CatalogueRow
      BY <1>1, <2>2, <2>3 DEF Listed
    <3> QED
      BY <2>2, <3>1 DEF CatalogueRow
  <2>4. catalogue' = IF i \in Listed
                     THEN [catalogue EXCEPT ![i] = [catalogue[i] EXCEPT !.enabled = on]]
                     ELSE catalogue
    BY <1>10 DEF WriteSwitch
  <2>5. TableOK'
    BY <1>1, <1>10, <2>2, <2>3, <2>4 DEF WriteSwitch
  <2>6. [kind |-> "CHANGED", id |-> i] \in EventWork
    BY <2>2 DEF EventWork, EventKind
  <2> QED
    BY <1>2, <1>10, <2>5, <2>6 DEF WriteSwitch
<1>11. ASSUME NEW a \in Admins, NEW i \in ProxyIds, ReadForRemoval(a, i) PROVE AdminTypeOK'
  <2>1. [kind |-> "REMOVED", id |-> i] \in EventWork
    BY DEF EventWork, EventKind
  <2> QED
    BY <1>2, <1>4, <1>11, <2>1 DEF ReadForRemoval
<1>12. ASSUME NEW a \in Admins, RecordEvent(a) PROVE AdminTypeOK'
  <2>1. handling[a] \in EventWork
    BY <1>12 DEF RecordEvent, AdminTypeOK
  <2>2. <<handling[a].id, handling[a].kind>> \in ProxyIds \X EventKind
    BY <2>1 DEF EventWork
  <2>3. TableOK'
    BY <1>1, <1>12, <2>2 DEF RecordEvent
  <2>4. Turn(a, "delete", handling[a]) \/ Answer(a)
    BY <1>12 DEF RecordEvent, AfterRecord
  <2> QED
    BY <1>2, <1>3, <2>1, <2>3, <2>4
<1>13. ASSUME NEW a \in Admins, DeleteProxy(a) PROVE AdminTypeOK'
  <2>1. TableOK'
    BY <1>1, <1>13 DEF DeleteProxy
  <2> QED
    BY <1>3, <1>13, <2>1 DEF DeleteProxy
<1>14. ASSUME NEW a \in Admins, AdminDies(a) PROVE AdminTypeOK'
  BY <1>3, <1>4, <1>14 DEF AdminDies
<1>15. CASE UNCHANGED adminVars
  BY <1>15 DEF adminVars, AdminTypeOK
<1> QED
  BY <1>5, <1>6, <1>7, <1>8, <1>9, <1>10, <1>11, <1>12, <1>13, <1>14, <1>15
     DEF AdminNext, AdminCall
-----------------------------------------------------------------------------
(* What a call leaves alone *)

\* A step is a call's own: it moves no other call, only the count leads to the
\* INSERT of create, and only an event leads to the DELETE of remove.
LEMMA AdminMoves ==
  ASSUME AdminTypeOK, NEW a \in Admins, AdminCall(a)
  PROVE  /\ \A b \in Admins \ {a} : admin'[b] = admin[b] /\ handling'[b] = handling[b]
         /\ (admin'[a] = "insert") => CountCatalogue(a)
         /\ (admin'[a] = "delete") => RecordEvent(a)
<1> DEFINE Goal ==
      /\ \A b \in Admins \ {a} : admin'[b] = admin[b] /\ handling'[b] = handling[b]
      /\ (admin'[a] = "insert") => CountCatalogue(a)
      /\ (admin'[a] = "delete") => RecordEvent(a)
<1>1. DOMAIN admin = Admins /\ DOMAIN handling = Admins
  BY DEF AdminTypeOK
<1>2. ASSUME NEW step, NEW work, Turn(a, step, work),
             step = "insert" => CountCatalogue(a), step = "delete" => RecordEvent(a)
      PROVE  Goal
  BY <1>1, <1>2 DEF Turn
<1>3. ASSUME Answer(a) PROVE Goal
  BY <1>2, <1>3 DEF Answer
<1> HIDE DEF Goal
<1>4. ASSUME CountCatalogue(a) PROVE Goal
  BY <1>2, <1>4 DEF CountCatalogue
<1>5. ASSUME NEW i \in ProxyIds, NEW e \in Endpoints, NEW f \in Forms, InsertProxy(a, i, e, f)
      PROVE  Goal
  BY <1>2, <1>3, <1>5 DEF InsertProxy
<1>6. ASSUME NEW i \in ProxyIds, NEW patch \in Patches, ReadForUpdate(a, i, patch) PROVE Goal
  BY <1>2, <1>6 DEF ReadForUpdate
<1>7. ASSUME WriteUpdate(a) PROVE Goal
  BY <1>2, <1>3, <1>7 DEF WriteUpdate
<1>8. ASSUME NEW i \in ProxyIds, NEW on \in BOOLEAN, ReadForSwitch(a, i, on) PROVE Goal
  BY <1>2, <1>8 DEF ReadForSwitch
<1>9. ASSUME WriteSwitch(a) PROVE Goal
  BY <1>2, <1>9 DEF WriteSwitch
<1>10. ASSUME NEW i \in ProxyIds, ReadForRemoval(a, i) PROVE Goal
  BY <1>2, <1>10 DEF ReadForRemoval
<1>11. ASSUME RecordEvent(a) PROVE Goal
  <2>1. Answer(a) \/ Turn(a, "delete", handling[a])
    BY <1>11 DEF RecordEvent, AfterRecord
  <2> QED
    BY <1>2, <1>3, <1>11, <2>1
<1>12. ASSUME DeleteProxy(a) PROVE Goal
  BY <1>3, <1>12 DEF DeleteProxy
<1>13. ASSUME AdminDies(a) PROVE Goal
  BY <1>3, <1>13 DEF AdminDies
<1>14. Goal
  BY <1>4, <1>5, <1>6, <1>7, <1>8, <1>9, <1>10, <1>11, <1>12, <1>13 DEF AdminCall
<1> QED
  BY <1>14 DEF Goal
-----------------------------------------------------------------------------
(* Removals *)

LEMMA RecordedNext ==
  ASSUME AdminTypeOK, DeleteIsRecorded, [AdminNext]_adminVars PROVE DeleteIsRecorded'
<1>1. events \subseteq events'
  BY DEF AdminNext, AdminCall, CountCatalogue, InsertProxy, ReadForUpdate, WriteUpdate,
     ReadForSwitch, WriteSwitch, ReadForRemoval, RecordEvent, DeleteProxy, AdminDies, adminVars
<1>2. ASSUME NEW a \in Admins, RecordEvent(a), admin'[a] = "delete"
      PROVE  <<handling'[a].id, "REMOVED">> \in events'
  <2>1. DOMAIN admin = Admins /\ DOMAIN handling = Admins
    BY DEF AdminTypeOK
  <2>2. ~Answer(a)
    BY <1>2, <2>1 DEF Answer, Turn
  <2>3. /\ handling[a].kind = "REMOVED" /\ Turn(a, "delete", handling[a])
        /\ events' = events \cup {<<handling[a].id, handling[a].kind>>}
    BY <1>2, <2>2 DEF RecordEvent, AfterRecord
  <2> QED
    BY <2>1, <2>3 DEF Turn
<1>3. ASSUME NEW a \in Admins, AdminCall(a) PROVE DeleteIsRecorded'
  BY <1>1, <1>2, <1>3, AdminMoves DEF DeleteIsRecorded
<1>4. CASE UNCHANGED adminVars
  BY <1>4 DEF adminVars, DeleteIsRecorded
<1> QED
  BY <1>3, <1>4 DEF AdminNext

\* Only the DELETE of a removal takes a row out of the catalogue.
LEMMA OnlyDeleteRemoves ==
  ASSUME AdminTypeOK, [AdminNext]_adminVars, NEW i \in Listed, catalogue'[i] = NoProxy
  PROVE  \E a \in Admins : DeleteProxy(a) /\ handling[a].id = i
<1>1. i \in ProxyIds /\ catalogue[i] \in CatalogueRow /\ catalogue[i] # NoProxy
      /\ DOMAIN catalogue = ProxyIds
  BY DEF AdminTypeOK, Listed
<1>2. \A row \in CatalogueRow : row # NoProxy
  BY AdminAssumption DEF CatalogueRow
<1>3. ASSUME NEW a \in Admins, NEW j \in ProxyIds, NEW e \in Endpoints, NEW f \in Forms,
             InsertProxy(a, j, e, f)
      PROVE  FALSE
  BY <1>1, <1>3 DEF InsertProxy, NewId, Used
<1>4. ASSUME NEW a \in Admins, WriteUpdate(a) PROVE FALSE
  <2>1. handling[a] \in FormWork
    BY <1>4 DEF WriteUpdate, AdminTypeOK
  <2>2. Merged(catalogue[i], handling[a]) \in CatalogueRow
    BY <1>1, <2>1 DEF Merged, CatalogueRow, FormWork
  <2> QED
    BY <1>1, <1>2, <1>4, <2>2 DEF WriteUpdate
<1>5. ASSUME NEW a \in Admins, WriteSwitch(a) PROVE FALSE
  <2>1. handling[a] \in SwitchWork
    BY <1>5 DEF WriteSwitch, AdminTypeOK
  <2>2. [catalogue[i] EXCEPT !.enabled = handling[a].on] \in CatalogueRow
    BY <1>1, <2>1 DEF CatalogueRow, SwitchWork
  <2> QED
    BY <1>1, <1>2, <1>5, <2>2 DEF WriteSwitch
<1>6. ASSUME NEW a \in Admins, DeleteProxy(a) PROVE handling[a].id = i
  BY <1>1, <1>6 DEF DeleteProxy
<1> QED
  BY <1>1, <1>3, <1>4, <1>5, <1>6 DEF AdminNext, AdminCall, CountCatalogue,
     ReadForUpdate, ReadForSwitch, ReadForRemoval, RecordEvent, AdminDies, adminVars

LEMMA AdminInvHolds == AdminSpec => []AdminInv
<1>1. AdminInit => AdminInv
  BY AdminTypeInit DEF AdminInit, AdminInv, DeleteIsRecorded
<1>2. AdminInv /\ [AdminNext]_adminVars => AdminInv'
  BY AdminTypeNext, RecordedNext DEF AdminInv
<1> QED
  BY <1>1, <1>2, PTL DEF AdminSpec

\* Whatever fails or overlaps, a proxy leaves the catalogue after its REMOVED
\* event only (admin.ts:115).
THEOREM RemovalIsRecordedHolds == AdminSpec => RemovalIsRecorded
<1>1. AdminInv /\ [AdminNext]_adminVars =>
        \A i \in Listed : catalogue'[i] = NoProxy => <<i, "REMOVED">> \in events
  BY OnlyDeleteRemoves DEF AdminInv, DeleteIsRecorded, DeleteProxy
<1> QED
  BY <1>1, AdminInvHolds, PTL DEF AdminSpec, RemovalIsRecorded
-----------------------------------------------------------------------------
(* The limit *)

Inserting == {a \in Admins : admin[a] = "insert"}

LEMMA ListsAreFinite ==
  /\ IsFiniteSet(Listed) /\ Cardinality(Listed) \in Nat
  /\ IsFiniteSet(Inserting) /\ Cardinality(Inserting) \in Nat
  /\ Cardinality(Inserting) <= Cardinality(Admins) /\ Cardinality(Admins) \in Nat
<1>1. Listed \subseteq ProxyIds /\ Inserting \subseteq Admins
  BY DEF Listed, Inserting
<1> QED
  BY <1>1, AdminAssumption, FS_Subset, FS_CardinalityType

LEMMA LimitNextStep ==
  ASSUME AdminTypeOK, CatalogueNearLimit, [AdminNext]_adminVars
  PROVE  CatalogueNearLimit'
<1>1. Cardinality(Listed) + Cardinality(Inserting) < MaxProxies + Cardinality(Admins)
  BY DEF CatalogueNearLimit, Inserting
<1>2. /\ admin \in [Admins -> {"idle", "insert", "update", "switch", "record", "delete"}]
      /\ DOMAIN catalogue = ProxyIds
  BY DEF AdminTypeOK
<1>3. /\ IsFiniteSet(Listed') /\ Cardinality(Listed') \in Nat
      /\ IsFiniteSet(Inserting') /\ Cardinality(Inserting') \in Nat
      /\ Cardinality(Inserting') <= Cardinality(Admins)
  <2>1. Listed' \subseteq ProxyIds /\ Inserting' \subseteq Admins
    BY DEF Listed, Inserting
  <2> QED
    BY <2>1, AdminAssumption, FS_Subset, FS_CardinalityType
<1>4. ASSUME Cardinality(Listed') + Cardinality(Inserting')
               < MaxProxies + Cardinality(Admins)
      PROVE  CatalogueNearLimit'
  BY <1>4 DEF CatalogueNearLimit, Inserting
<1>5. ASSUME Listed' \subseteq Listed, Inserting' \subseteq Inserting
      PROVE  CatalogueNearLimit'
  <2>1. Cardinality(Listed') <= Cardinality(Listed)
        /\ Cardinality(Inserting') <= Cardinality(Inserting)
    BY <1>5, ListsAreFinite, FS_Subset
  <2> QED
    BY <1>1, <1>3, <1>4, <2>1, ListsAreFinite, AdminAssumption
<1>6. ASSUME NEW a \in Admins, CountCatalogue(a) PROVE CatalogueNearLimit'
  <2>1. Cardinality(Listed') < MaxProxies
    BY <1>6 DEF CountCatalogue, RoomLeft, Listed
  <2> QED
    BY <1>3, <1>4, <2>1, ListsAreFinite, AdminAssumption
<1>7. ASSUME NEW a \in Admins, NEW i \in ProxyIds, NEW e \in Endpoints, NEW f \in Forms,
             InsertProxy(a, i, e, f)
      PROVE  CatalogueNearLimit'
  <2>1. CASE TakenEndpoint(e, i)
    BY <1>2, <1>5, <1>7, <2>1 DEF InsertProxy, Answer, Turn, Listed, Inserting
  <2>2. CASE ~TakenEndpoint(e, i)
    <3>1. [endpoint |-> e, form |-> f, enabled |-> TRUE] # NoProxy
      <4>1. [endpoint |-> e, form |-> f, enabled |-> TRUE] \in CatalogueRow
        BY DEF CatalogueRow
      <4> QED
        BY <4>1, AdminAssumption DEF CatalogueRow
    <3>2. Listed' = Listed \cup {i} /\ i \notin Listed
      BY <1>2, <1>7, <2>2, <3>1 DEF InsertProxy, NewId, Used, Listed
    <3>3. Inserting' = Inserting \ {a} /\ a \in Inserting
      BY <1>2, <1>7, <2>2 DEF InsertProxy, Turn, Inserting
    <3>4. Cardinality(Listed \cup {i}) = Cardinality(Listed) + 1
      BY <3>2, ListsAreFinite, FS_AddElement
    <3>5. Cardinality(Inserting \ {a}) = Cardinality(Inserting) - 1
      BY <3>3, ListsAreFinite, FS_RemoveElement
    <3> QED
      BY <1>1, <1>4, <3>2, <3>3, <3>4, <3>5, ListsAreFinite, AdminAssumption
  <2> QED
    BY <2>1, <2>2
<1>8. ASSUME NEW a \in Admins, AdminCall(a), ~CountCatalogue(a),
             \A i \in ProxyIds, e \in Endpoints, f \in Forms : ~InsertProxy(a, i, e, f)
      PROVE  CatalogueNearLimit'
  <2>1. admin'[a] # "insert" /\ \A b \in Admins \ {a} : admin'[b] = admin[b]
    BY <1>8, AdminMoves
  <2>2. Inserting' \subseteq Inserting
    BY <2>1 DEF Inserting
  <2>3. Listed' \subseteq Listed
    BY <1>2, <1>8 DEF AdminCall, ReadForUpdate, WriteUpdate, ReadForSwitch, WriteSwitch,
       ReadForRemoval, RecordEvent, DeleteProxy, AdminDies, Listed
  <2> QED
    BY <1>5, <2>2, <2>3
<1>9. CASE UNCHANGED adminVars
  BY <1>5, <1>9 DEF adminVars, Listed, Inserting
<1> QED
  BY <1>6, <1>7, <1>8, <1>9 DEF AdminNext

\* The catalogue passes MAX_PROXIES by fewer than the calls that run at once,
\* for every limit (admin.ts:19).
THEOREM CatalogueNearLimitHolds == AdminSpec => []CatalogueNearLimit
<1>1. AdminInit => CatalogueNearLimit
  <2> SUFFICES ASSUME AdminInit PROVE CatalogueNearLimit
    OBVIOUS
  <2>1. Listed = {} /\ Inserting = {}
    BY DEF AdminInit, Listed, Inserting
  <2> QED
    BY <2>1, FS_EmptySet, ListsAreFinite, AdminAssumption DEF CatalogueNearLimit, Inserting
<1>2. AdminInv /\ CatalogueNearLimit /\ [AdminNext]_adminVars => CatalogueNearLimit'
  BY LimitNextStep DEF AdminInv
<1> QED
  BY <1>1, <1>2, AdminInvHolds, PTL DEF AdminSpec
-----------------------------------------------------------------------------
(* The brake on failed authentication.                                     *)

\* An answer was given in the window it was counted in, and FailLimit answers
\* later a window had begun after that one had elapsed.
SpacedAnswers(answers) ==
  \A i \in DOMAIN answers :
    /\ answers[i].start <= answers[i].at
    /\ answers[i].at <= answers[i].start + WindowLength
    /\ i + FailLimit \in DOMAIN answers =>
         answers[i].start + WindowLength < answers[i + FailLimit].start

\* The windows of all answers have elapsed at m.
AllElapsedAt(answers, m) ==
  \A i \in DOMAIN answers : answers[i].start + WindowLength < m

Counted(window) == IF window.count > FailLimit THEN FailLimit ELSE window.count

\* A window has counted the last answers, and those before it had elapsed when
\* it began.
CountsLast(window, answers) ==
  /\ window.start <= moment
  /\ \A i \in DOMAIN answers :
       /\ answers[i].start <= window.start
       /\ i + Counted(window) <= Len(answers) =>
            answers[i].start + WindowLength < window.start

AddressIsSound(ip) ==
  /\ SpacedAnswers(refusals[ip])
  /\ IF authFailures[ip] = NoWindow THEN AllElapsedAt(refusals[ip], moment)
     ELSE CountsLast(authFailures[ip], refusals[ip])

LimitInv == LimitTypeOK /\ \A ip \in Addresses : AddressIsSound(ip)
-----------------------------------------------------------------------------
Windows == [start : Moments, count : 1 .. FailLimit + 1]
Answers == [start : Moments, at : Moments]

LEMMA WindowIsRecord ==
  ASSUME LimitTypeOK, NEW ip \in Addresses
  PROVE  /\ NoWindow \notin Windows
         /\ authFailures[ip] # NoWindow => authFailures[ip] \in Windows
  BY LimitsAssumption DEF LimitTypeOK, Windows, Moments

LEMMA AnswersAreTyped ==
  ASSUME NEW answers \in Seq(Answers)
  PROVE  /\ Len(answers) \in Nat /\ DOMAIN answers = 1 .. Len(answers)
         /\ \A i \in DOMAIN answers : /\ answers[i] \in Answers
                                      /\ answers[i].start \in Nat /\ answers[i].at \in Nat
<1>1. Len(answers) \in Nat /\ DOMAIN answers = 1 .. Len(answers)
  OBVIOUS
<1>2. \A i \in DOMAIN answers : answers[i] \in Answers
  BY <1>1
<1>3. \A answer \in Answers : answer.start \in Nat /\ answer.at \in Nat
  BY LimitsAssumption DEF Answers, Moments
<1> QED
  BY <1>1, <1>2, <1>3

LEMMA LimitInvInit == LimitInit => LimitInv
<1> SUFFICES ASSUME LimitInit PROVE LimitInv
  OBVIOUS
<1>1. <<>> \in Seq(Answers) /\ DOMAIN <<>> = {}
  OBVIOUS
<1>2. LimitTypeOK
  BY <1>1, LimitsAssumption DEF LimitInit, LimitTypeOK, Answers, Moments
<1>3. ASSUME NEW ip \in Addresses PROVE AddressIsSound(ip)
  BY <1>1 DEF LimitInit, AddressIsSound, SpacedAnswers, AllElapsedAt
<1> QED
  BY <1>2, <1>3 DEF LimitInv

\* An address whose windows have all elapsed opens one with its next answer.
LEMMA OpensSound ==
  ASSUME LimitInv, NEW ip \in Addresses, Opens(ip)
  PROVE  AllElapsedAt(refusals[ip], moment)
<1>1. AddressIsSound(ip) /\ LimitTypeOK /\ refusals[ip] \in Seq(Answers)
  BY DEF LimitInv, LimitTypeOK, Answers
<1>2. CASE authFailures[ip] = NoWindow
  BY <1>1, <1>2 DEF AddressIsSound
<1>3. CASE authFailures[ip] # NoWindow
  <2>1. authFailures[ip] \in Windows /\ authFailures[ip].start + WindowLength < moment
    BY <1>1, <1>3, WindowIsRecord, LimitsAssumption
    DEF Opens, Elapsed, Windows, Moments, LimitTypeOK
  <2>2. \A i \in DOMAIN refusals[ip] : /\ refusals[ip][i].start \in Nat
                                       /\ refusals[ip][i].start <= authFailures[ip].start
    BY <1>1, <1>3, AnswersAreTyped DEF AddressIsSound, CountsLast
  <2>3. authFailures[ip].start \in Nat /\ WindowLength \in Nat /\ moment \in Nat
    BY <1>1, <2>1, LimitsAssumption DEF Windows, Moments, LimitTypeOK
  <2> QED
    BY <2>1, <2>2, <2>3 DEF AllElapsedAt
<1> QED
  BY <1>2, <1>3

\* One answer more.
LEMMA AnswerSound ==
  ASSUME NEW answers \in Seq(Answers), SpacedAnswers(answers), moment \in Moments,
         NEW start \in Moments, start <= moment, moment <= start + WindowLength,
         NEW k \in 0 .. FailLimit - 1,
         \A i \in DOMAIN answers : answers[i].start <= start,
         \A i \in DOMAIN answers :
           i + k <= Len(answers) => answers[i].start + WindowLength < start,
         NEW window \in Windows, window.start = start, window.count = k + 1
  PROVE  LET more == Append(answers, [start |-> start, at |-> moment]) IN
           more \in Seq(Answers) /\ SpacedAnswers(more) /\ CountsLast(window, more)
<1> DEFINE answer == [start |-> start, at |-> moment]
           more == Append(answers, answer)
           n == Len(answers)
<1>0. n \in Nat /\ FailLimit \in Nat \ {0} /\ WindowLength \in Nat /\ k \in Nat
      /\ start \in Nat /\ moment \in Nat
  BY LimitsAssumption DEF Moments
<1>1. answer \in Answers
  BY DEF Answers
<1> HIDE DEF answer
<1>2. more \in Seq(Answers) /\ DOMAIN more = 1 .. n + 1 /\ DOMAIN answers = 1 .. n
      /\ Len(more) = n + 1
  BY <1>1
<1>3. (\A i \in 1 .. n : more[i] = answers[i]) /\ more[n + 1] = answer
  BY <1>1
<1>4. \A i \in 1 .. n : answers[i].start \in Nat /\ answers[i].at \in Nat
  BY <1>2, AnswersAreTyped
<1> USE DEF answer
<1> HIDE DEF more
<1>e. \A i \in 1 .. n + 1 : i \in 1 .. n \/ i = n + 1
  BY <1>0
<1>5. SpacedAnswers(more)
  <2> SUFFICES ASSUME NEW i \in 1 .. n + 1
               PROVE  /\ more[i].start <= more[i].at
                      /\ more[i].at <= more[i].start + WindowLength
                      /\ i + FailLimit \in 1 .. n + 1 =>
                           more[i].start + WindowLength < more[i + FailLimit].start
    BY <1>2 DEF SpacedAnswers
  <2>1. CASE i = n + 1
    BY <1>0, <1>3, <2>1
  <2>2. CASE i \in 1 .. n
    <3>1. /\ answers[i].start <= answers[i].at
          /\ answers[i].at <= answers[i].start + WindowLength
          /\ i + FailLimit \in 1 .. n =>
               answers[i].start + WindowLength < answers[i + FailLimit].start
      BY <1>2, <2>2 DEF SpacedAnswers
    <3>2. i + FailLimit = n + 1 => answers[i].start + WindowLength < start
      <4>1. i + FailLimit = n + 1 => i + k <= n
        BY <1>0, <2>2
      <4> QED
        BY <1>2, <2>2, <4>1
    <3>3. more[i] = answers[i]
      BY <1>3, <2>2
    <3>4. i + FailLimit = n + 1 => more[i + FailLimit].start = start
      BY <1>3
    <3>5. i + FailLimit \in 1 .. n => more[i + FailLimit] = answers[i + FailLimit]
      BY <1>3
    <3>6. i + FailLimit \in 1 .. n + 1 => i + FailLimit \in 1 .. n \/ i + FailLimit = n + 1
      BY <1>e
    <3> QED
      BY <3>1, <3>2, <3>3, <3>4, <3>5, <3>6
  <2> QED
    BY <1>0, <2>1, <2>2
<1>6. CountsLast(window, more)
  <2>1. Counted(window) = k + 1
    BY <1>0 DEF Counted
  <2>2. \A i \in 1 .. n + 1 : more[i].start <= start
    <3>1. \A i \in 1 .. n : more[i].start <= start
      BY <1>2, <1>3
    <3>2. more[n + 1].start <= start
      BY <1>0, <1>3
    <3> QED
      BY <1>e, <3>1, <3>2
  <2>3. \A i \in 1 .. n + 1 : i + (k + 1) <= n + 1 =>
          more[i].start + WindowLength < start
    BY <1>0, <1>2, <1>3
  <2> QED
    BY <1>0, <1>2, <2>1, <2>2, <2>3 DEF CountsLast
<1> QED
  BY <1>2, <1>5, <1>6 DEF more

LEMMA LimitInvNext ==
  ASSUME LimitInv, [LimitNext]_limitVars PROVE LimitInv'
<1>a. LimitTypeOK /\ \A ip \in Addresses : AddressIsSound(ip)
  BY DEF LimitInv
<1>b. moment \in Nat /\ WindowLength \in Nat /\ FailLimit \in Nat \ {0}
  BY <1>a, LimitsAssumption DEF LimitTypeOK, Moments
<1>c. \A ip \in Addresses : refusals[ip] \in Seq(Answers)
  BY <1>a DEF LimitTypeOK, Answers
<1>0. /\ LimitTypeOK /\ moment \in Nat /\ WindowLength \in Nat /\ FailLimit \in Nat \ {0}
      /\ \A ip \in Addresses : AddressIsSound(ip)
      /\ \A ip \in Addresses : refusals[ip] \in Seq(Answers)
  BY <1>a, <1>b, <1>c
<1>1. ASSUME NEW ip \in Addresses, FailedAttempt(ip) PROVE LimitInv'
  <2> DEFINE window == authFailures[ip]
             seen == IF Opens(ip) THEN [start |-> moment, count |-> 1]
                     ELSE [window EXCEPT !.count = @ + 1]
             kept == [seen EXCEPT !.count = IF @ > FailLimit THEN FailLimit + 1 ELSE @]
  <2>1. /\ authFailures' = [authFailures EXCEPT ![ip] = kept]
        /\ refusals' = IF seen.count > FailLimit THEN refusals
                       ELSE [refusals EXCEPT ![ip] =
                              Append(@, [start |-> seen.start, at |-> moment])]
        /\ moment' = moment
    BY <1>1 DEF FailedAttempt
  \* What is left to show of the address that was refused.
  <2>2. ASSUME kept \in Windows, refusals'[ip] \in Seq(Answers),
               SpacedAnswers(refusals'[ip]), CountsLast(kept, refusals'[ip])
        PROVE  LimitInv'
    <3>0. authFailures'[ip] = kept /\ kept # NoWindow
      BY <1>0, <2>1, <2>2, WindowIsRecord DEF LimitTypeOK
    <3>1. \A other \in Addresses \ {ip} : /\ authFailures'[other] = authFailures[other]
                                          /\ refusals'[other] = refusals[other]
      BY <1>0, <2>1 DEF LimitTypeOK
    <3>2. LimitTypeOK'
      <4>1. authFailures' \in [Addresses -> Windows \cup {NoWindow}]
        BY <1>0, <2>1, <2>2 DEF LimitTypeOK, Windows, Moments
      <4>2. refusals' \in [Addresses -> Seq(Answers)]
        <5>1. refusals' = [other \in Addresses |-> refusals'[other]]
          <6>1. refusals = [other \in Addresses |-> refusals[other]]
            BY <1>0, Zenon DEF LimitTypeOK
          <6>2. DOMAIN refusals = Addresses
            BY <6>1, Zenon
          <6>3. CASE seen.count > FailLimit
            BY <2>1, <6>1, <6>3, Zenon
          <6>4. CASE ~(seen.count > FailLimit)
            <7> HIDE DEF seen
            <7> QED
              BY <2>1, <6>2, <6>4
          <6> QED
            BY <6>3, <6>4
        <5>2. \A other \in Addresses : refusals'[other] \in Seq(Answers)
          BY <1>0, <2>2, <3>1
        <5> QED
          BY <5>1, <5>2, Zenon
      <4> QED
        BY <1>0, <2>1, <4>1, <4>2 DEF LimitTypeOK, Windows, Answers, Moments
    <3>3. AddressIsSound(ip)'
      BY <2>1, <2>2, <3>0 DEF AddressIsSound, CountsLast
    <3>4. \A other \in Addresses \ {ip} : AddressIsSound(other)'
      BY <1>0, <2>1, <3>1 DEF AddressIsSound, CountsLast
    <3> QED
      BY <3>2, <3>3, <3>4 DEF LimitInv
  <2>3. CASE Opens(ip)
    <3>1. kept = [start |-> moment, count |-> 1] /\ kept \in Windows
      BY <1>0, <2>3 DEF Windows, Moments, LimitTypeOK
    <3>2. refusals'[ip] = Append(refusals[ip], [start |-> moment, at |-> moment])
      BY <1>0, <2>1, <2>3 DEF LimitTypeOK
    <3>3. \A i \in DOMAIN refusals[ip] :
            /\ refusals[ip][i].start \in Nat
            /\ refusals[ip][i].start + WindowLength < moment
      BY <1>0, <2>3, OpensSound, AnswersAreTyped DEF AllElapsedAt
    <3>4. /\ \A i \in DOMAIN refusals[ip] : refusals[ip][i].start <= moment
          /\ \A i \in DOMAIN refusals[ip] : i + 0 <= Len(refusals[ip]) =>
               refusals[ip][i].start + WindowLength < moment
      BY <1>0, <3>3
    <3>5. /\ SpacedAnswers(refusals[ip]) /\ moment \in Moments /\ 0 \in 0 .. FailLimit - 1
          /\ moment <= moment /\ moment <= moment + WindowLength
      BY <1>0 DEF AddressIsSound, LimitTypeOK
    <3>6. kept.start = moment /\ kept.count = 0 + 1
      BY <3>1
    <3> HIDE DEF kept, seen
    <3> QED
      BY <1>c, <2>2, <3>1, <3>2, <3>4, <3>5, <3>6, AnswerSound
  <2>4. CASE ~Opens(ip)
    <3>1. window \in Windows /\ window # NoWindow /\ moment <= window.start + WindowLength
          /\ window.start <= moment /\ SpacedAnswers(refusals[ip])
          /\ CountsLast(window, refusals[ip])
      BY <1>0, <2>4, WindowIsRecord
      DEF Opens, Elapsed, AddressIsSound, CountsLast, Windows, Moments
    <3>2. seen = [start |-> window.start, count |-> window.count + 1]
      BY <2>4, <3>1 DEF Windows
    <3>3. CASE window.count >= FailLimit
      <4>1. kept = [start |-> window.start, count |-> FailLimit + 1] /\ kept \in Windows
        BY <1>0, <3>1, <3>2, <3>3 DEF Windows
      <4>2. refusals' = refusals
        BY <1>0, <2>1, <3>1, <3>2, <3>3 DEF Windows
      <4>3. Counted(kept) = FailLimit /\ Counted(window) = FailLimit
        BY <1>0, <3>1, <3>3, <4>1 DEF Counted, Windows
      <4>4. CountsLast(kept, refusals[ip])
        BY <3>1, <4>1, <4>3 DEF CountsLast
      <4> HIDE DEF kept, seen
      <4> QED
        BY <1>0, <2>2, <3>1, <4>1, <4>2, <4>4
    <3>4. CASE ~(window.count >= FailLimit)
      <4>1. window.count \in 1 .. FailLimit - 1
        BY <1>0, <3>1, <3>4 DEF Windows
      <4>2. kept = [start |-> window.start, count |-> window.count + 1] /\ kept \in Windows
        BY <1>0, <3>1, <3>2, <4>1 DEF Windows
      <4>3. refusals'[ip] = Append(refusals[ip], [start |-> window.start, at |-> moment])
        BY <1>0, <2>1, <3>2, <4>1 DEF LimitTypeOK
      <4>4. Counted(window) = window.count
        BY <1>0, <4>1 DEF Counted
      <4>5. \A i \in DOMAIN refusals[ip] :
              /\ refusals[ip][i].start <= window.start
              /\ i + window.count <= Len(refusals[ip]) =>
                   refusals[ip][i].start + WindowLength < window.start
        BY <3>1, <4>4 DEF CountsLast
      <4>6. moment \in Moments /\ window.start \in Moments
            /\ window.count \in 0 .. FailLimit - 1
        BY <1>0, <3>1, <4>1 DEF LimitTypeOK, Windows
      <4> HIDE DEF kept, seen
      <4> QED
        BY <1>0, <2>2, <3>1, <4>2, <4>3, <4>5, <4>6, AnswerSound
    <3> QED
      BY <3>3, <3>4
  <2> QED
    BY <2>3, <2>4
<1>2. ASSUME SweepWindows PROVE LimitInv'
  <2>1. LimitTypeOK'
    BY <1>0, <1>2 DEF LimitTypeOK, SweepWindows
  <2>2. ASSUME NEW ip \in Addresses PROVE AddressIsSound(ip)'
    <3>1. CASE authFailures'[ip] = authFailures[ip]
      BY <1>0, <1>2, <3>1 DEF SweepWindows, AddressIsSound, CountsLast
    <3>2. CASE authFailures'[ip] # authFailures[ip]
      <4>1. Opens(ip) /\ authFailures'[ip] = NoWindow
        BY <1>0, <1>2, <3>2 DEF SweepWindows, Opens, LimitTypeOK
      <4>2. AllElapsedAt(refusals[ip], moment)
        BY <4>1, OpensSound
      <4> QED
        BY <1>0, <1>2, <4>1, <4>2 DEF SweepWindows, AddressIsSound
    <3> QED
      BY <3>1, <3>2
  <2> QED
    BY <2>1, <2>2 DEF LimitInv
<1>3. ASSUME Passes PROVE LimitInv'
  <2>1. moment' = moment + 1 /\ UNCHANGED <<authFailures, refusals>> /\ moment' \in Moments
    BY <1>0, <1>3, LimitsAssumption DEF Passes, Moments, LimitTypeOK
  <2>2. LimitTypeOK'
    BY <1>0, <2>1 DEF LimitTypeOK
  <2>3. ASSUME NEW ip \in Addresses PROVE AddressIsSound(ip)'
    <3>1. SpacedAnswers(refusals[ip])'
      BY <1>0, <2>1 DEF AddressIsSound
    <3>2. CASE authFailures[ip] = NoWindow
      <4>1. \A i \in DOMAIN refusals[ip] : /\ refusals[ip][i].start \in Nat
                                           /\ refusals[ip][i].start + WindowLength < moment
        BY <1>0, <3>2, AnswersAreTyped DEF AddressIsSound, AllElapsedAt
      <4>2. AllElapsedAt(refusals[ip], moment)'
        BY <1>0, <2>1, <4>1 DEF AllElapsedAt
      <4> QED
        BY <2>1, <3>1, <3>2, <4>2 DEF AddressIsSound
    <3>3. CASE authFailures[ip] # NoWindow
      <4>1. CountsLast(authFailures[ip], refusals[ip])'
        BY <1>0, <2>1, <3>3, WindowIsRecord
        DEF AddressIsSound, CountsLast, Windows, Moments
      <4> QED
        BY <2>1, <3>1, <3>3, <4>1 DEF AddressIsSound
    <3> QED
      BY <3>2, <3>3
  <2> QED
    BY <2>2, <2>3 DEF LimitInv
<1>4. CASE UNCHANGED limitVars
  BY <1>0, <1>4 DEF limitVars, LimitInv, LimitTypeOK, AddressIsSound, CountsLast
<1> QED
  BY <1>1, <1>2, <1>3, <1>4 DEF LimitNext

LEMMA LimitInvHolds == LimitSpec => []LimitInv
  BY LimitInvInit, LimitInvNext, PTL DEF LimitSpec

LEMMA SpacedAnswersBrake == LimitInv => BrakeHolds
<1> SUFFICES ASSUME LimitInv, NEW ip \in Addresses, NEW i \in DOMAIN refusals[ip],
                    i + 2 * FailLimit \in DOMAIN refusals[ip]
             PROVE  refusals[ip][i].at + WindowLength < refusals[ip][i + 2 * FailLimit].at
  BY DEF BrakeHolds
<1> DEFINE answers == refusals[ip]
           j == i + FailLimit
           k == j + FailLimit
<1>1. answers \in Seq(Answers) /\ SpacedAnswers(answers)
  BY DEF LimitInv, LimitTypeOK, Answers, AddressIsSound
<1>2. i \in 1 .. Len(answers) /\ k \in 1 .. Len(answers) /\ k = i + 2 * FailLimit
      /\ j \in 1 .. Len(answers) /\ DOMAIN answers = 1 .. Len(answers)
  BY <1>1, LimitsAssumption
<1>3. \A n \in {i, j, k} : answers[n].start \in Nat /\ answers[n].at \in Nat
  BY <1>1, <1>2, AnswersAreTyped
<1>4. /\ answers[i].at <= answers[i].start + WindowLength
      /\ answers[i].start + WindowLength < answers[j].start
      /\ answers[j].start + WindowLength < answers[k].start
      /\ answers[k].start <= answers[k].at
  <2>1. i \in DOMAIN answers /\ j \in DOMAIN answers /\ k \in DOMAIN answers
    BY <1>2
  <2> HIDE DEF answers
  <2> QED
    BY <1>1, <2>1 DEF SpacedAnswers
<1> HIDE DEF answers, j, k
<1>5. answers[i].at + WindowLength < answers[k].at
  BY <1>3, <1>4, LimitsAssumption
<1> QED
  BY <1>2, <1>5 DEF answers

\* Whatever the limit, the window and the addresses: no stretch as long as a
\* window has room for more failed attempts than two windows (index.ts:83).
THEOREM BrakeTheorem == LimitSpec => []BrakeHolds
  BY LimitInvHolds, SpacedAnswersBrake, PTL
=============================================================================

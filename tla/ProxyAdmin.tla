----------------------------- MODULE ProxyAdmin -----------------------------
(***************************************************************************)
(* ProxyAdminService of packages/proxy/src/admin.ts, as the routes of      *)
(* apps/api/src/index.ts call it: several administrators over the tables   *)
(* proxies and proxy_events.  No method is a transaction, so a call is cut *)
(* at each statement:                                                      *)
(*   create      count | INSERT | INSERT of the event                      *)
(*   update      SELECT | UPDATE of every column of the form | event       *)
(*   setEnabled  SELECT | UPDATE of enabled | event                        *)
(*   remove      SELECT | event | DELETE                                   *)
(* A call may die between two of them.  An event names a proxy by a        *)
(* foreign key, so its INSERT fails once the proxy is gone.  What the pool *)
(* does to the rows is the subject of ProxyPool.                           *)
(***************************************************************************)
EXTENDS Naturals, FiniteSets

CONSTANTS ProxyIds,    \* ids uuid() returns, numbered as rows are made
          Endpoints,   \* protocol, host and port, which are unique together
          Forms,       \* label, credentials, region, rotation, requests
          Admins,      \* calls in flight at once
          MaxProxies,  \* MAX_PROXIES
          NoProxy

ASSUME AdminAssumption ==
  /\ ProxyIds \subseteq Nat /\ IsFiniteSet(ProxyIds)
  /\ IsFiniteSet(Admins) /\ Admins # {}
  /\ MaxProxies \in Nat \ {0}
  /\ NoProxy \notin [endpoint : Endpoints, form : Forms, enabled : BOOLEAN]

VARIABLES
  catalogue,   \* the table proxies, NoProxy where there is no row
  events,      \* proxy_events, with the id the DELETE sets to NULL kept
  admin,       \* per call: the step it is at
  handling     \* per call: what it has read and is going to write

adminVars == <<catalogue, events, admin, handling>>

CatalogueRow == [endpoint : Endpoints, form : Forms, enabled : BOOLEAN]

\* UPDATED, ENABLED and DISABLED are told apart by nothing here.
EventKind == {"CREATED", "CHANGED", "REMOVED"}

Listed    == {i \in ProxyIds : catalogue[i] # NoProxy}
Used      == Listed \cup {e[1] : e \in events}
NewId(i)  == i \notin Used /\ \A j \in ProxyIds : j < i => j \in Used
TakenEndpoint(e, i) == \E j \in Listed \ {i} : catalogue[j].endpoint = e

\* What a call has read, and the step it needs it for.
Unread     == [kind |-> "none"]
EventWork  == [kind : EventKind, id : ProxyIds]
SwitchWork == [kind : EventKind, id : ProxyIds, on : BOOLEAN]
FormWork   == [kind : EventKind, id : ProxyIds, endpoint : Endpoints, form : Forms]

AdminInit ==
  /\ catalogue = [i \in ProxyIds |-> NoProxy]
  /\ events = {}
  /\ admin = [a \in Admins |-> "idle"]
  /\ handling = [a \in Admins |-> Unread]

Turn(a, step, work) ==
  /\ admin' = [admin EXCEPT ![a] = step]
  /\ handling' = [handling EXCEPT ![a] = work]

\* The call returns, or throws: the form of its answer does not matter here.
Answer(a) == Turn(a, "idle", Unread)
-----------------------------------------------------------------------------
(* create *)

\* Mutant: count > MAX_PROXIES is refused.
RoomLeftForOneMore == Cardinality(Listed) <= MaxProxies

RoomLeft == Cardinality(Listed) < MaxProxies

CountCatalogue(a) ==
  /\ admin[a] = "idle" /\ RoomLeft
  /\ Turn(a, "insert", Unread)
  /\ UNCHANGED <<catalogue, events>>

InsertProxy(a, i, e, f) ==
  /\ admin[a] = "insert"
  /\ NewId(i)
  /\ IF TakenEndpoint(e, i)
     THEN Answer(a) /\ UNCHANGED catalogue
     ELSE /\ catalogue' = [catalogue EXCEPT ![i] =
                             [endpoint |-> e, form |-> f, enabled |-> TRUE]]
          /\ Turn(a, "record", [kind |-> "CREATED", id |-> i])
  /\ UNCHANGED events
-----------------------------------------------------------------------------
(* update *)

\* Fields the patch leaves out keep the value that was read.
ReadForUpdate(a, i, patch) ==
  /\ admin[a] = "idle" /\ i \in Listed
  /\ Turn(a, "update",
          [kind |-> "CHANGED", id |-> i,
           endpoint |-> IF patch.endpoint = {} THEN catalogue[i].endpoint
                        ELSE CHOOSE e \in patch.endpoint : TRUE,
           form |-> IF patch.form = {} THEN catalogue[i].form
                    ELSE CHOOSE f \in patch.form : TRUE])
  /\ UNCHANGED <<catalogue, events>>

\* UPDATE .. WHERE id = $1 sets every column of the form, and not enabled.
Merged(row, work) == [row EXCEPT !.endpoint = work.endpoint, !.form = work.form]

WriteUpdate(a) ==
  /\ admin[a] = "update"
  /\ LET i == handling[a].id IN
       IF i \in Listed /\ TakenEndpoint(handling[a].endpoint, i)
       THEN Answer(a) /\ UNCHANGED catalogue
       ELSE /\ catalogue' = IF i \in Listed
                            THEN [catalogue EXCEPT ![i] = Merged(@, handling[a])]
                            ELSE catalogue
            /\ Turn(a, "record", [kind |-> "CHANGED", id |-> i])
  /\ UNCHANGED events
-----------------------------------------------------------------------------
(* setEnabled *)

ReadForSwitch(a, i, on) ==
  /\ admin[a] = "idle" /\ i \in Listed
  /\ Turn(a, "switch", [kind |-> "CHANGED", id |-> i, on |-> on])
  /\ UNCHANGED <<catalogue, events>>

WriteSwitch(a) ==
  /\ admin[a] = "switch"
  /\ LET i == handling[a].id IN
       catalogue' = IF i \in Listed
                    THEN [catalogue EXCEPT ![i].enabled = handling[a].on]
                    ELSE catalogue
  /\ Turn(a, "record", [kind |-> "CHANGED", id |-> handling[a].id])
  /\ UNCHANGED events
-----------------------------------------------------------------------------
(* remove and record *)

\* Mutant: the DELETE comes first.
ReadForRemovalUnaudited(a, i) ==
  /\ admin[a] = "idle" /\ i \in Listed
  /\ Turn(a, "delete", [kind |-> "REMOVED", id |-> i])
  /\ UNCHANGED <<catalogue, events>>

ReadForRemoval(a, i) ==
  /\ admin[a] = "idle" /\ i \in Listed
  /\ Turn(a, "record", [kind |-> "REMOVED", id |-> i])
  /\ UNCHANGED <<catalogue, events>>

\* What follows the event: remove still has its DELETE to make.
AfterRecord(a, kind) ==
  IF kind = "REMOVED"
  THEN Turn(a, "delete", handling[a])
  ELSE Answer(a)

RecordEvent(a) ==
  /\ admin[a] = "record"
  /\ IF handling[a].id \in Listed
     THEN /\ events' = events \cup {<<handling[a].id, handling[a].kind>>}
          /\ AfterRecord(a, handling[a].kind)
     ELSE Answer(a) /\ UNCHANGED events
  /\ UNCHANGED catalogue

DeleteProxy(a) ==
  /\ admin[a] = "delete"
  /\ catalogue' = [catalogue EXCEPT ![handling[a].id] = NoProxy]
  /\ Answer(a)
  /\ UNCHANGED events

AdminDies(a) ==
  /\ admin[a] # "idle"
  /\ Answer(a)
  /\ UNCHANGED <<catalogue, events>>
-----------------------------------------------------------------------------
\* A patch has one new value of a field, or none.
Patches ==
  {[endpoint |-> e, form |-> f] :
     e \in {{}} \cup {{x} : x \in Endpoints}, f \in {{}} \cup {{x} : x \in Forms}}

AdminCall(a) ==
  \/ CountCatalogue(a)
  \/ \E i \in ProxyIds, e \in Endpoints, f \in Forms : InsertProxy(a, i, e, f)
  \/ \E i \in ProxyIds, patch \in Patches : ReadForUpdate(a, i, patch)
  \/ WriteUpdate(a)
  \/ \E i \in ProxyIds, on \in BOOLEAN : ReadForSwitch(a, i, on)
  \/ WriteSwitch(a)
  \/ \E i \in ProxyIds : ReadForRemoval(a, i)
  \/ RecordEvent(a)
  \/ DeleteProxy(a)
  \/ AdminDies(a)

AdminNext == \E a \in Admins : AdminCall(a)

AdminSpec == AdminInit /\ [][AdminNext]_adminVars
-----------------------------------------------------------------------------
AdminTypeOK ==
  /\ catalogue \in [ProxyIds -> CatalogueRow \cup {NoProxy}]
  /\ events \subseteq ProxyIds \X EventKind
  /\ admin \in [Admins -> {"idle", "insert", "update", "switch", "record", "delete"}]
  /\ handling \in [Admins -> {Unread} \cup EventWork \cup SwitchWork \cup FormWork]
  /\ \A a \in Admins :
       /\ admin[a] \in {"record", "delete"} => handling[a] \in EventWork
       /\ admin[a] = "switch" => handling[a] \in SwitchWork
       /\ admin[a] = "update" => handling[a] \in FormWork

\* admin.ts:19: at most MAX_PROXIES.  The count and the INSERT are two
\* statements, so each call that has counted may pass the limit by one, but
\* no more than the calls that run together.
CatalogueNearLimit ==
  Cardinality(Listed) + Cardinality({a \in Admins : admin[a] = "insert"})
    < MaxProxies + Cardinality(Admins)

\* admin.ts:115: the audit comes first.  Whatever fails or overlaps, a proxy
\* never leaves the catalogue without its REMOVED event.
RemovalIsRecorded ==
  [][\A i \in Listed : catalogue'[i] = NoProxy => <<i, "REMOVED">> \in events]_adminVars
=============================================================================

--------------------------- MODULE ResultSelection ---------------------------
(***************************************************************************)
(* selectResult of packages/booking/src/service.ts over the offers of one  *)
(* request in booking_results: a transaction of two UPDATEs, the first     *)
(* clears the selection it can see, the second sets a new one.             *)
(*                                                                         *)
(* PostgreSQL, at READ COMMITTED: an UPDATE looks for rows in a snapshot   *)
(* taken when it starts, waits for the row locks of other transactions and *)
(* looks again at a row it had to wait for.  The partial unique index      *)
(* booking_results_selected_uq compares a row with every other one, and    *)
(* waits where a transaction that is still open has touched one.           *)
(***************************************************************************)
EXTENDS Naturals, FiniteSets

CONSTANTS Offers,      \* the request's rows of booking_results
          Unknown,     \* ids that are no row of the request
          Selectors    \* calls in flight at once

ASSUME SelectionAssumption ==
  Offers \cap Unknown = {} /\ IsFiniteSet(Offers) /\ IsFiniteSet(Selectors)

VARIABLES
  selected,   \* rows with is_selected, as committed
  selecting,  \* per call: the step it is at
  choice,     \* per call: the result it was asked for
  found,      \* per call: rows its first UPDATE found
  cleared     \* per call: rows its open transaction has cleared and locks

selectVars == <<selected, selecting, choice, found, cleared>>

SelectInit ==
  /\ selected = {}
  /\ selecting = [c \in Selectors |-> "idle"]
  /\ choice \in [Selectors -> Offers \cup Unknown]
  /\ found = [c \in Selectors |-> {}]
  /\ cleared = [c \in Selectors |-> {}]

Others(c) == Selectors \ {c}

\* Rows another open transaction has written.
LockedByOthers(c) ==
  UNION {cleared[d] \cup (IF selecting[d] = "commit" THEN {choice[d]} ELSE {})
           : d \in Others(c)}

EndSelect(c) ==
  /\ selecting' = [selecting EXCEPT ![c] = "idle"]
  /\ found' = [found EXCEPT ![c] = {}]
  /\ cleared' = [cleared EXCEPT ![c] = {}]
  /\ UNCHANGED choice

BeginSelect(c, r) ==
  /\ selecting[c] = "idle"
  /\ selecting' = [selecting EXCEPT ![c] = "clear"]
  /\ choice' = [choice EXCEPT ![c] = r]
  /\ found' = [found EXCEPT ![c] = selected]
  /\ UNCHANGED <<selected, cleared>>

ClearSelected(c) ==
  /\ selecting[c] = "clear"
  /\ found[c] \cap LockedByOthers(c) = {}
  /\ cleared' = [cleared EXCEPT ![c] = found[c] \cap selected]
  /\ selecting' = [selecting EXCEPT ![c] = "set"]
  /\ UNCHANGED <<selected, choice, found>>

\* Mutant: there is no unique index.
SelectionIsFreeNoIndex(c) == TRUE

\* What the unique index says of the second UPDATE once nobody else has a row
\* of the request open.
SelectionIsFree(c) == selected \subseteq cleared[c] \cup {choice[c]}

\* Mutant: nobody looks whether the second UPDATE found the row.
SetSelectedUnchecked(c) ==
  /\ selecting[c] = "set"
  /\ LockedByOthers(c) = {} \/ choice[c] \in Unknown
  /\ IF SelectionIsFree(c) \/ choice[c] \in Unknown
     THEN /\ selecting' = [selecting EXCEPT ![c] = "commit"]
          /\ UNCHANGED <<choice, found, cleared>>
     ELSE EndSelect(c)
  /\ UNCHANGED selected

SetSelected(c) ==
  /\ selecting[c] = "set"
  /\ LockedByOthers(c) = {} \/ choice[c] \in Unknown
  /\ IF choice[c] \in Offers /\ SelectionIsFree(c)
     THEN /\ selecting' = [selecting EXCEPT ![c] = "commit"]
          /\ UNCHANGED <<choice, found, cleared>>
     ELSE EndSelect(c)
  /\ UNCHANGED selected

CommitSelect(c) ==
  /\ selecting[c] = "commit"
  /\ selected' = (selected \ cleared[c]) \cup ({choice[c]} \cap Offers)
  /\ EndSelect(c)

SelectorDies(c) ==
  /\ selecting[c] # "idle"
  /\ EndSelect(c)
  /\ UNCHANGED selected

SelectStep(c) ==
  \/ \E r \in Offers \cup Unknown : BeginSelect(c, r)
  \/ ClearSelected(c) \/ SetSelected(c) \/ CommitSelect(c) \/ SelectorDies(c)

SelectNext == \E c \in Selectors : SelectStep(c)

SelectSpec == SelectInit /\ [][SelectNext]_selectVars
-----------------------------------------------------------------------------
SelectTypeOK ==
  /\ selected \subseteq Offers
  /\ selecting \in [Selectors -> {"idle", "clear", "set", "commit"}]
  /\ choice \in [Selectors -> Offers \cup Unknown]
  /\ found \in [Selectors -> SUBSET Offers]
  /\ cleared \in [Selectors -> SUBSET Offers]

\* service.ts:363: two calls that overlap never leave two chosen offers.
OneSelected == \A r, s \in selected : r = s

\* A request that has a chosen offer keeps one, whatever fails or dies half
\* way through a new selection.
SelectionKept == [][selected # {} => selected' # {}]_selectVars

\* The two calls do not wait for each other: of the calls under way one can
\* always go on.
Waits(c) ==
  \/ selecting[c] = "clear" /\ found[c] \cap LockedByOthers(c) # {}
  \/ selecting[c] = "set" /\ LockedByOthers(c) # {} /\ choice[c] \notin Unknown

NoMutualWait ==
  LET busy == {c \in Selectors : selecting[c] # "idle"} IN
    busy # {} => \E c \in busy : ~Waits(c)
=============================================================================

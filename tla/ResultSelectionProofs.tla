------------------------ MODULE ResultSelectionProofs ------------------------
(***************************************************************************)
(* Proofs about ResultSelection for any number of offers and of calls.     *)
(***************************************************************************)
EXTENDS ResultSelection, TLAPS

\* At most one call is about to commit, its choice is an offer and replaces
\* whatever is selected.
CommitIsAlone ==
  /\ \A c \in Selectors : selecting[c] = "commit" =>
       choice[c] \in Offers /\ selected \subseteq cleared[c] \cup {choice[c]}
  /\ \A c, d \in Selectors :
       selecting[c] = "commit" /\ selecting[d] = "commit" => c = d

\* A call locks selected rows only, no two of them the same, and none but its
\* own are locked once a call is about to commit.
LocksAreSelected ==
  /\ \A c \in Selectors :
       /\ cleared[c] \subseteq selected
       /\ selecting[c] \in {"idle", "clear"} => cleared[c] = {}
  /\ \A c, d \in Selectors : c # d => cleared[c] \cap cleared[d] = {}
  /\ \A c, d \in Selectors :
       c # d /\ selecting[c] = "commit" => cleared[d] = {}

SelectInv == SelectTypeOK /\ OneSelected /\ CommitIsAlone /\ LocksAreSelected
-----------------------------------------------------------------------------
\* What a call cannot touch is what the open transactions of others hold.
LEMMA LockedByAnother ==
  ASSUME NEW c \in Selectors, NEW d \in Selectors, c # d
  PROVE  /\ cleared[d] \subseteq LockedByOthers(c)
         /\ selecting[d] = "commit" => choice[d] \in LockedByOthers(c)
  BY DEF LockedByOthers, Others

LEMMA NothingLocked ==
  ASSUME NEW c \in Selectors, \A d \in Selectors \ {c} : cleared[d] = {} /\ selecting[d] # "commit"
  PROVE  LockedByOthers(c) = {}
  BY DEF LockedByOthers, Others

LEMMA SelectInvInit == SelectInit => SelectInv
  BY DEF SelectInit, SelectInv, SelectTypeOK, OneSelected, CommitIsAlone, LocksAreSelected

LEMMA SelectInvNext == SelectInv /\ [SelectNext]_selectVars => SelectInv'
<1> SUFFICES ASSUME SelectInv, [SelectNext]_selectVars PROVE SelectInv'
  OBVIOUS
<1> USE DEF SelectInv, SelectTypeOK
\* Ending a call that changes nothing gives up its locks.
<1>1. ASSUME NEW c \in Selectors, EndSelect(c), UNCHANGED selected
      PROVE  SelectInv'
  BY <1>1 DEF EndSelect, OneSelected, CommitIsAlone, LocksAreSelected
<1>2. ASSUME NEW c \in Selectors, NEW r \in Offers \cup Unknown, BeginSelect(c, r)
      PROVE  SelectInv'
  BY <1>2 DEF BeginSelect, OneSelected, CommitIsAlone, LocksAreSelected
<1>3. ASSUME NEW c \in Selectors, ClearSelected(c) PROVE SelectInv'
  <2> DEFINE rows == found[c] \cap selected
  <2>1. \A d \in Selectors \ {c} : rows \cap cleared[d] = {}
    BY <1>3, LockedByAnother DEF ClearSelected
  <2>2. ASSUME NEW d \in Selectors \ {c}, selecting[d] = "commit" PROVE rows = {}
    BY <1>3, <2>2, LockedByAnother DEF ClearSelected, CommitIsAlone
  <2>3. /\ cleared' = [cleared EXCEPT ![c] = rows]
        /\ selecting' = [selecting EXCEPT ![c] = "set"]
        /\ UNCHANGED <<selected, choice, found>>
    BY <1>3 DEF ClearSelected
  <2>4. SelectTypeOK' /\ OneSelected' /\ CommitIsAlone'
    BY <2>3 DEF OneSelected, CommitIsAlone
  <2>5. LocksAreSelected'
    BY <2>1, <2>2, <2>3 DEF LocksAreSelected
  <2> QED
    BY <2>4, <2>5
<1>4. ASSUME NEW c \in Selectors, SetSelected(c) PROVE SelectInv'
  <2>1. CASE choice[c] \in Offers /\ SelectionIsFree(c)
    <3>1. LockedByOthers(c) = {}
      BY <1>4, <2>1, SelectionAssumption DEF SetSelected
    <3>2. \A d \in Selectors \ {c} : cleared[d] = {} /\ selecting[d] # "commit"
      BY <3>1, LockedByAnother
    <3>3. /\ selecting' = [selecting EXCEPT ![c] = "commit"]
          /\ UNCHANGED <<selected, choice, found, cleared>>
      BY <1>4, <2>1 DEF SetSelected
    <3> QED
      BY <2>1, <3>2, <3>3
         DEF OneSelected, CommitIsAlone, LocksAreSelected, SelectionIsFree
  <2>2. CASE ~(choice[c] \in Offers /\ SelectionIsFree(c))
    BY <1>1, <1>4, <2>2 DEF SetSelected
  <2> QED
    BY <2>1, <2>2
<1>5. ASSUME NEW c \in Selectors, CommitSelect(c) PROVE SelectInv'
  <2>1. choice[c] \in Offers /\ selected' = {choice[c]}
    BY <1>5 DEF CommitSelect, CommitIsAlone
  <2>2. \A d \in Selectors \ {c} : selecting[d] # "commit" /\ cleared[d] = {}
    BY <1>5 DEF CommitSelect, CommitIsAlone, LocksAreSelected
  <2>3. /\ selecting' = [selecting EXCEPT ![c] = "idle"]
        /\ found' = [found EXCEPT ![c] = {}]
        /\ cleared' = [cleared EXCEPT ![c] = {}]
        /\ UNCHANGED choice
    BY <1>5 DEF CommitSelect, EndSelect
  <2>4. SelectTypeOK' /\ OneSelected'
    BY <2>1, <2>3 DEF OneSelected
  <2>5. CommitIsAlone' /\ LocksAreSelected'
    BY <2>2, <2>3 DEF CommitIsAlone, LocksAreSelected
  <2> QED
    BY <2>4, <2>5
<1>6. ASSUME NEW c \in Selectors, SelectorDies(c) PROVE SelectInv'
  BY <1>1, <1>6 DEF SelectorDies
<1>7. CASE UNCHANGED selectVars
  BY <1>7 DEF selectVars, OneSelected, CommitIsAlone, LocksAreSelected
<1> QED
  BY <1>2, <1>3, <1>4, <1>5, <1>6, <1>7 DEF SelectNext, SelectStep

\* However calls overlap, fail or die, the request has one chosen offer at
\* most (service.ts:363).
THEOREM OneSelectedHolds == SelectSpec => [](SelectTypeOK /\ OneSelected)
<1>1. SelectInv => SelectTypeOK /\ OneSelected
  BY DEF SelectInv
<1> QED
  BY <1>1, SelectInvInit, SelectInvNext, PTL DEF SelectSpec

\* And once it has one it keeps one: a selection that fails half way through
\* leaves the one there was.
THEOREM SelectionKeptHolds == SelectSpec => SelectionKept
<1>1. SelectInv /\ [SelectNext]_selectVars => (selected # {} => selected' # {})
  <2> SUFFICES ASSUME SelectInv, [SelectNext]_selectVars, selected # {}
               PROVE  selected' # {}
    OBVIOUS
  <2>1. ASSUME NEW c \in Selectors, CommitSelect(c) PROVE selected' # {}
    BY <2>1 DEF CommitSelect, SelectInv, CommitIsAlone
  <2>2. CASE UNCHANGED selected
    BY <2>2
  <2> QED
    BY <2>1, <2>2 DEF SelectNext, SelectStep, BeginSelect, ClearSelected,
       SetSelected, SelectorDies, EndSelect, selectVars
<1> QED
  BY <1>1, SelectInvInit, SelectInvNext, PTL DEF SelectSpec, SelectionKept

\* The calls never wait for each other in a circle: one of those under way can
\* go on, so PostgreSQL has no deadlock to break.
THEOREM NoMutualWaitHolds == SelectSpec => []NoMutualWait
<1>1. SelectInv => NoMutualWait
  <2> SUFFICES ASSUME SelectInv, NEW c \in Selectors, selecting[c] # "idle"
               PROVE  \E d \in Selectors : selecting[d] # "idle" /\ ~Waits(d)
    BY DEF NoMutualWait
  <2> USE DEF SelectInv
  <2>1. CASE \E d \in Selectors : selecting[d] = "commit"
    BY <2>1 DEF Waits
  <2>2. CASE (\A d \in Selectors : selecting[d] # "commit")
             /\ (\E d \in Selectors : cleared[d] # {})
    <3>1. PICK d \in Selectors : cleared[d] # {}
      BY <2>2
    <3>2. selecting[d] = "set"
      BY <2>2, <3>1 DEF LocksAreSelected, SelectTypeOK
    <3>3. \A e \in Selectors \ {d} : cleared[e] = {}
      BY <3>1 DEF LocksAreSelected, OneSelected
    <3>4. LockedByOthers(d) = {}
      BY <2>2, <3>3, NothingLocked
    <3> QED
      BY <3>2, <3>4 DEF Waits
  <2>3. CASE (\A d \in Selectors : selecting[d] # "commit")
             /\ (\A d \in Selectors : cleared[d] = {})
    <3>1. LockedByOthers(c) = {}
      BY <2>3, NothingLocked
    <3> QED
      BY <3>1 DEF Waits
  <2> QED
    BY <2>1, <2>2, <2>3
<1> QED
  BY <1>1, SelectInvInit, SelectInvNext, PTL DEF SelectSpec
=============================================================================

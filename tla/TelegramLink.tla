---------------------------- MODULE TelegramLink ----------------------------
(***************************************************************************)
(* TelegramLinkService of packages/auth/src/telegram-link.ts over the      *)
(* tables telegram_link_challenges and telegram_links.                     *)
(*                                                                         *)
(* createChallenge is two statements outside any transaction; the          *)
(* transaction of consumeChallenge locks the challenge's row (FOR UPDATE)  *)
(* and is cut at its awaits.  Its writes become visible at COMMIT; a link  *)
(* that breaks the index telegram_links_active_uq rolls it back.  A call   *)
(* may die anywhere, which rolls its transaction back too.                 *)
(*                                                                         *)
(* A challenge is named by its code, a link by the number of its row.  The *)
(* field code of a link is no column: it says which code made it.          *)
(***************************************************************************)
EXTENDS Naturals, FiniteSets

CONSTANTS Codes, Owners, Telegrams,
          LinkIds,     \* rows telegram_links has room for
          Linkers,     \* calls in flight at once
          NoCode, NoLink, NoLinker

ASSUME TelegramAssumption ==
  /\ NoCode \notin Codes /\ NoLinker \notin Linkers
  /\ LinkIds \subseteq Nat
  /\ IsFiniteSet(Codes) /\ IsFiniteSet(Linkers)
  /\ NoLink \notin [user : Owners, telegram : Telegrams, code : Codes,
                    revoked : BOOLEAN]

VARIABLES
  challenge,   \* per code: "none", "live", "expired" or "consumed"
  owner,       \* per code: the user it was made for
  links,       \* telegram_links
  codeLock,    \* per code: the call whose transaction holds the row
  linking,     \* per call: the step it is at
  about        \* per call: the code, telegram id and user it works with

linkVars == <<challenge, owner, links, codeLock, linking, about>>

Link == [user : Owners, telegram : Telegrams, code : Codes, revoked : BOOLEAN]

ActiveLink(i)  == links[i] # NoLink /\ ~links[i].revoked
LiveCodes(u)   == {k \in Codes : challenge[k] = "live" /\ owner[k] = u}
LinkedTo(t)    == {i \in LinkIds : ActiveLink(i) /\ links[i].telegram = t}

Idle == [code |-> NoCode]

LinkInit ==
  /\ challenge = [k \in Codes |-> "none"]
  /\ owner \in [Codes -> Owners]
  /\ links = [i \in LinkIds |-> NoLink]
  /\ codeLock = [k \in Codes |-> NoLinker]
  /\ linking = [p \in Linkers |-> "idle"]
  /\ about = [p \in Linkers |-> Idle]
-----------------------------------------------------------------------------
(* createChallenge *)

\* Mutant: old codes stay.
SupersedeNothing(p, u) ==
  /\ linking[p] = "idle"
  /\ linking' = [linking EXCEPT ![p] = "issue"]
  /\ about' = [about EXCEPT ![p] = [user |-> u]]
  /\ UNCHANGED <<challenge, owner, links, codeLock>>

\* UPDATE .. WHERE consumed_at IS NULL; it waits for the rows others lock.
Supersede(p, u) ==
  /\ linking[p] = "idle"
  /\ \A k \in Codes : owner[k] = u => codeLock[k] = NoLinker
  /\ challenge' = [k \in Codes |->
       IF owner[k] = u /\ challenge[k] \in {"live", "expired"} THEN "consumed"
       ELSE challenge[k]]
  /\ linking' = [linking EXCEPT ![p] = "issue"]
  /\ about' = [about EXCEPT ![p] = [user |-> u]]
  /\ UNCHANGED <<owner, links, codeLock>>

\* A code is drawn for one user only.
Issue(p, k) ==
  /\ linking[p] = "issue"
  /\ challenge[k] = "none" /\ owner[k] = about[p].user
  /\ challenge' = [challenge EXCEPT ![k] = "live"]
  /\ linking' = [linking EXCEPT ![p] = "idle"]
  /\ about' = [about EXCEPT ![p] = Idle]
  /\ UNCHANGED <<owner, links, codeLock>>
-----------------------------------------------------------------------------
(* consumeChallenge *)

Rollback(p) ==
  /\ codeLock' = [k \in Codes |->
                    IF codeLock[k] = p THEN NoLinker ELSE codeLock[k]]
  /\ linking' = [linking EXCEPT ![p] = "idle"]
  /\ about' = [about EXCEPT ![p] = Idle]
  /\ UNCHANGED <<challenge, owner, links>>

\* Mutant: a plain SELECT.
ConsumeCodeUnlocked(p, k, t) ==
  /\ linking[p] = "idle"
  /\ challenge[k] = "live"
  /\ codeLock' = [codeLock EXCEPT ![k] = p]
  /\ linking' = [linking EXCEPT ![p] = "check"]
  /\ about' = [about EXCEPT ![p] = [code |-> k, telegram |-> t]]
  /\ UNCHANGED <<challenge, owner, links>>

\* SELECT .. FOR UPDATE and the UPDATE that consumes the row.  An unknown,
\* consumed or expired code is refused and changes nothing.
ConsumeCode(p, k, t) ==
  /\ linking[p] = "idle"
  /\ challenge[k] = "live" /\ codeLock[k] = NoLinker
  /\ codeLock' = [codeLock EXCEPT ![k] = p]
  /\ linking' = [linking EXCEPT ![p] = "check"]
  /\ about' = [about EXCEPT ![p] = [code |-> k, telegram |-> t]]
  /\ UNCHANGED <<challenge, owner, links>>

TakenByAnother(t, u) == \E i \in LinkedTo(t) : links[i].user # u

CheckTelegram(p) ==
  /\ linking[p] = "check"
  /\ IF TakenByAnother(about[p].telegram, owner[about[p].code])
     THEN Rollback(p)
     ELSE /\ linking' = [linking EXCEPT ![p] = "insert"]
          /\ UNCHANGED <<challenge, owner, links, codeLock, about>>

\* CREATE UNIQUE INDEX telegram_links_active_uq .. WHERE revoked_at IS NULL.
IndexAdmits(t) == LinkedTo(t) = {}

NewLink(p) == [user |-> owner[about[p].code], telegram |-> about[p].telegram,
               code |-> about[p].code, revoked |-> FALSE]

InsertLink(p, i) ==
  /\ linking[p] = "insert"
  /\ links[i] = NoLink /\ \A j \in LinkIds : j < i => links[j] # NoLink
  /\ IF IndexAdmits(about[p].telegram)
     THEN /\ challenge' = [challenge EXCEPT ![about[p].code] = "consumed"]
          /\ links' = [links EXCEPT ![i] = NewLink(p)]
          /\ codeLock' = [codeLock EXCEPT ![about[p].code] = NoLinker]
          /\ linking' = [linking EXCEPT ![p] = "idle"]
          /\ about' = [about EXCEPT ![p] = Idle]
          /\ UNCHANGED owner
     ELSE Rollback(p)

LinkerDies(p) == linking[p] # "idle" /\ Rollback(p)
-----------------------------------------------------------------------------
Unlink(u) ==
  /\ links' = [i \in LinkIds |->
       IF ActiveLink(i) /\ links[i].user = u
       THEN [links[i] EXCEPT !.revoked = TRUE] ELSE links[i]]
  /\ UNCHANGED <<challenge, owner, codeLock, linking, about>>

CodeExpires(k) ==
  /\ challenge[k] = "live" /\ codeLock[k] = NoLinker
  /\ challenge' = [challenge EXCEPT ![k] = "expired"]
  /\ UNCHANGED <<owner, links, codeLock, linking, about>>

LinkStep(p) ==
  \/ \E u \in Owners : Supersede(p, u)
  \/ \E k \in Codes : Issue(p, k)
  \/ \E k \in Codes, t \in Telegrams : ConsumeCode(p, k, t)
  \/ CheckTelegram(p)
  \/ \E i \in LinkIds : InsertLink(p, i)
  \/ LinkerDies(p)

LinkNext ==
  \/ \E p \in Linkers : LinkStep(p)
  \/ \E u \in Owners : Unlink(u)
  \/ \E k \in Codes : CodeExpires(k)

LinkSpec == LinkInit /\ [][LinkNext]_linkVars
-----------------------------------------------------------------------------
LinkTypeOK ==
  /\ challenge \in [Codes -> {"none", "live", "expired", "consumed"}]
  /\ owner \in [Codes -> Owners]
  /\ links \in [LinkIds -> Link \cup {NoLink}]
  /\ codeLock \in [Codes -> Linkers \cup {NoLinker}]
  /\ linking \in [Linkers -> {"idle", "issue", "check", "insert"}]
  /\ about \in [Linkers -> {Idle} \cup [user : Owners]
                               \cup [code : Codes, telegram : Telegrams]]
  /\ \A p \in Linkers :
       /\ linking[p] = "issue" => about[p] \in [user : Owners]
       /\ linking[p] \in {"check", "insert"} =>
            about[p] \in [code : Codes, telegram : Telegrams]

\* A Telegram account belongs to one user at most, though two transactions may
\* both have found it free.
OneOwnerPerTelegram ==
  \A i, j \in LinkIds :
    ActiveLink(i) /\ ActiveLink(j) /\ links[i].telegram = links[j].telegram
      => i = j

\* A code is redeemed once, for the user it was issued to, and a code that has
\* been redeemed is consumed; no refusal, rollback or crash gives it back.
CodeLinksOnce ==
  \A i \in LinkIds : links[i] # NoLink =>
    /\ links[i].user = owner[links[i].code]
    /\ challenge[links[i].code] = "consumed"
    /\ \A j \in LinkIds : links[j] # NoLink /\ links[j].code = links[i].code
         => i = j

\* telegram-link.ts:63: old challenges are expired, so that a user has a
\* handful of live ones at most.  Calls may overlap, so a handful is as many
\* as calls can be in flight, and each call between its two statements may
\* still add one.
FewLiveCodes ==
  \A u \in Owners :
    Cardinality(LiveCodes(u))
      + Cardinality({p \in Linkers : linking[p] = "issue" /\ about[p].user = u})
      <= Cardinality(Linkers)
=============================================================================

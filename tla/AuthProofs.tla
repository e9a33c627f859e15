----------------------------- MODULE AuthProofs -----------------------------
(***************************************************************************)
(* Proofs about the two machines of packages/auth: Sessions for any number *)
(* of sessions, users and calls, any times to live, and a clock and a token*)
(* version of any length; TelegramLink for any number of codes, users,     *)
(* Telegram accounts, links and calls.                                     *)
(***************************************************************************)
EXTENDS Sessions, TelegramLink, TLAPS, FiniteSetTheorems

(* Sessions.                                                               *)

\* A family and a replacement are sessions that were made, and what has been
\* replaced is revoked.
RowsAreLinked ==
  \A s \in SessionIds : Exists(s) =>
    /\ Exists(sessions[s].family)
    /\ sessions[s].replacedBy # NoSession =>
         Exists(sessions[s].replacedBy) /\ sessions[s].revoked

\* The tokens of a session are signed once, by the call that made it.
SignedOnce ==
  /\ \A c \in Clients : doing[c] = "sign" => claims[subject[c]] = NoClaims
  /\ \A c, d \in Clients :
       doing[c] = "sign" /\ doing[d] = "sign" /\ subject[c] = subject[d] => c = d

SessionInv == SessionTypeOK /\ RowsAreLinked /\ SignedOnce /\ FamilyIsLinear
-----------------------------------------------------------------------------
(* The table *)

LEMMA NewRowType ==
  ASSUME SessionTypeOK, NEW u \in Users, NEW f \in SessionIds
  PROVE  NewRow(u, f) \in Row /\ NewRow(u, f) # NoSession
<1>1. tick + RefreshTtl \in Nat
  BY SessionsAssumption DEF SessionTypeOK
<1>2. NewRow(u, f) \in Row
  BY <1>1 DEF NewRow, Row
<1> QED
  BY <1>2, SessionsAssumption

LEMMA RowType ==
  ASSUME SessionTypeOK, NEW s \in SessionIds, Exists(s)
  PROVE  sessions[s] \in Row
  BY DEF SessionTypeOK, Exists

\* Revoking keeps the rows, their families and their replacements.
LEMMA RevokedKeeps ==
  ASSUME SessionTypeOK, NEW S, NEW s \in SessionIds
  PROVE  LET new == Revoked(S)[s] IN
           /\ new = NoSession <=> sessions[s] = NoSession
           /\ new \in Row \cup {NoSession}
           /\ Exists(s) => /\ new.user = sessions[s].user
                           /\ new.family = sessions[s].family
                           /\ new.expires = sessions[s].expires
                           /\ new.replacedBy = sessions[s].replacedBy
                           /\ sessions[s].revoked => new.revoked
                           /\ s \in S => new.revoked
<1>1. CASE s \in S /\ Live(s)
  <2>1. Revoked(S)[s] = [sessions[s] EXCEPT !.revoked = TRUE]
    BY <1>1 DEF Revoked
  <2>2. sessions[s] \in Row
    BY <1>1, RowType DEF Live
  <2> QED
    BY <1>1, <2>1, <2>2, SessionsAssumption DEF Row, Live, Exists
<1>2. CASE ~(s \in S /\ Live(s))
  BY <1>2 DEF Revoked, Live, Exists, SessionTypeOK
<1> QED
  BY <1>1, <1>2

\* A rotation adds one row, and changes the old one unless it was revoked.
LEMMA ReplacedRows ==
  ASSUME SessionTypeOK, NEW s \in SessionIds, Exists(s),
         NEW n \in SessionIds, ~Exists(n), sessions' = Replaced(s, n)
  PROVE  /\ sessions' \in [SessionIds -> Row \cup {NoSession}]
         /\ sessions'[n] = NewRow(sessions[s].user, sessions[s].family)
         /\ sessions'[n] # NoSession
         /\ sessions'[s] # NoSession
         /\ sessions'[s].family = sessions[s].family
         /\ sessions'[s].user = sessions[s].user
         /\ sessions'[s].expires = sessions[s].expires
         /\ sessions'[s].revoked
         /\ sessions'[s].replacedBy =
              IF sessions[s].revoked THEN sessions[s].replacedBy ELSE n
         /\ \A t \in SessionIds \ {s, n} : sessions'[t] = sessions[t]
<1>1. sessions[s] \in Row /\ s # n
  BY RowType DEF Exists
<1>2. NewRow(sessions[s].user, sessions[s].family) \in Row
      /\ NewRow(sessions[s].user, sessions[s].family) # NoSession
  BY <1>1, NewRowType DEF Row
<1> DEFINE old == [sessions[s] EXCEPT !.revoked = TRUE, !.replacedBy = n]
<1>3. /\ old \in Row
      /\ old.family = sessions[s].family /\ old.user = sessions[s].user
      /\ old.expires = sessions[s].expires
      /\ old.revoked /\ old.replacedBy = n
  BY <1>1 DEF Row
<1>4. sessions' = [sessions EXCEPT
                     ![n] = NewRow(sessions[s].user, sessions[s].family),
                     ![s] = IF sessions[s].revoked THEN sessions[s] ELSE old]
  BY <1>1 DEF Replaced, SessionTypeOK
<1> HIDE DEF old
<1>5. /\ sessions' \in [SessionIds -> Row \cup {NoSession}]
      /\ sessions'[n] = NewRow(sessions[s].user, sessions[s].family)
      /\ sessions'[s] = IF sessions[s].revoked THEN sessions[s] ELSE old
      /\ \A t \in SessionIds \ {s, n} : sessions'[t] = sessions[t]
  BY <1>1, <1>2, <1>3, <1>4 DEF SessionTypeOK
<1> QED
  BY <1>1, <1>2, <1>3, <1>5, SessionsAssumption

\* The session the transaction of rotate is about, and the one it makes.
LEMMA RotatedSessions ==
  ASSUME SessionTypeOK, NEW c \in Clients, NEW n \in SessionIds, RotateCommit(c, n)
  PROVE  /\ subject[c] \in SessionIds /\ Exists(subject[c]) /\ ~Exists(n)
         /\ sessions' = Replaced(subject[c], n)
  BY DEF RotateCommit, SessionTypeOK, Fresh
-----------------------------------------------------------------------------
(* Types *)

LEMMA SessionTypeInit == SessionInit => SessionTypeOK
  BY SessionsAssumption DEF SessionInit, SessionTypeOK, Step

LEMMA SessionTypeNext ==
  ASSUME SessionTypeOK, [SessionNext]_sessionVars PROVE SessionTypeOK'
<1> USE DEF SessionTypeOK
<1>1. ASSUME NEW c \in Clients, NEW s \in SessionIds, NEW u \in Users, Create(c, u, s)
      PROVE  SessionTypeOK'
  BY <1>1, NewRowType DEF Create, Goto, Exists, Step
<1>2. ASSUME NEW c \in Clients, Sign(c) PROVE SessionTypeOK'
  <2>1. [ver |-> version, until |-> tick + AccessTtl] \in Claims
    BY SessionsAssumption DEF Claims
  <2> QED
    BY <1>2, <2>1 DEF Sign, Goto, Exists, Step
<1>3. ASSUME NEW c \in Clients, NEW s \in SessionIds, RotateRead(c, s)
      PROVE  SessionTypeOK'
  BY <1>3 DEF RotateRead, Goto, Exists, Step
<1>4. ASSUME NEW c \in Clients, RotateOwner(c) PROVE SessionTypeOK'
  BY <1>4 DEF RotateOwner, Goto, Exists, Step
<1>5. ASSUME NEW c \in Clients, NEW n \in SessionIds, RotateCommit(c, n)
      PROVE  SessionTypeOK'
  <2>1. sessions' \in [SessionIds -> Row \cup {NoSession}]
    BY <1>5, RotatedSessions, ReplacedRows
  <2>2. \A s \in SessionIds : Exists(s) => Exists(s)'
    BY <1>5, RotatedSessions, ReplacedRows DEF Exists
  <2>3. Exists(n)'
    BY <1>5, RotatedSessions, ReplacedRows DEF Exists
  <2> QED
    BY <1>5, <2>1, <2>2, <2>3 DEF RotateCommit, Goto, Step
<1>6. ASSUME NEW S, sessions' = Revoked(S), UNCHANGED <<active, claims, version, tick>>,
             \/ UNCHANGED <<doing, subject>>
             \/ \E c \in Clients : Goto(c, "idle", NoSession)
      PROVE  SessionTypeOK'
  <2>1. sessions' \in [SessionIds -> Row \cup {NoSession}]
    BY <1>6, RevokedKeeps DEF Revoked
  <2>2. \A s \in SessionIds : Exists(s)' <=> Exists(s)
    BY <1>6, RevokedKeeps DEF Exists
  <2> QED
    BY <1>6, <2>1, <2>2 DEF Goto, Step
<1>7. ASSUME NEW c \in Clients, ReuseDetected(c) PROVE SessionTypeOK'
  BY <1>6, <1>7 DEF ReuseDetected
<1>8. ASSUME NEW s \in SessionIds, Revoke(s) PROVE SessionTypeOK'
  BY <1>6, <1>8 DEF Revoke
<1>9. ASSUME NEW u \in Users, RevokeAllForUser(u) PROVE SessionTypeOK'
  BY <1>6, <1>9 DEF RevokeAllForUser
<1>10. ASSUME NEW u \in Users, SetStatus(u) PROVE SessionTypeOK'
  BY <1>10 DEF SetStatus, Exists
<1>11. CASE InvalidateIssuedTokens
  BY <1>11, SessionsAssumption DEF InvalidateIssuedTokens, Exists
<1>12. CASE Restart
  BY <1>12, SessionsAssumption DEF Restart, Exists, Step
<1>13. CASE SessionTick
  BY <1>13, SessionsAssumption DEF SessionTick, Exists
<1>14. CASE UNCHANGED sessionVars
  BY <1>14 DEF sessionVars, Exists
<1> QED
  BY <1>1, <1>2, <1>3, <1>4, <1>5, <1>7, <1>8, <1>9, <1>10, <1>11, <1>12, <1>13, <1>14
     DEF SessionNext, SessionStep
-----------------------------------------------------------------------------
(* What a step does to the families *)

\* A step leaves the table alone, begins a family, adds to one, or revokes.
LEMMA TableSteps ==
  ASSUME SessionTypeOK, [SessionNext]_sessionVars
  PROVE  \/ UNCHANGED sessions
         \/ \E s \in SessionIds, u \in Users :
              ~Exists(s) /\ sessions' = [sessions EXCEPT ![s] = NewRow(u, s)]
         \/ \E s, n \in SessionIds :
              Exists(s) /\ ~Exists(n) /\ sessions' = Replaced(s, n)
         \/ \E S \in SUBSET SessionIds : sessions' = Revoked(S)
<1>1. ASSUME NEW c \in Clients, NEW s \in SessionIds, NEW u \in Users, Create(c, u, s)
      PROVE  ~Exists(s) /\ sessions' = [sessions EXCEPT ![s] = NewRow(u, s)]
  BY <1>1 DEF Create, Fresh
<1>2. ASSUME NEW c \in Clients, NEW n \in SessionIds, RotateCommit(c, n)
      PROVE  \E s \in SessionIds : Exists(s) /\ ~Exists(n) /\ sessions' = Replaced(s, n)
  BY <1>2, RotatedSessions
<1>3. ASSUME NEW c \in Clients, ReuseDetected(c)
      PROVE  \E S \in SUBSET SessionIds : sessions' = Revoked(S)
  <2>1. Family(sessions[subject[c]].family) \in SUBSET SessionIds
    BY DEF Family
  <2> QED
    BY <1>3, <2>1 DEF ReuseDetected
<1>4. ASSUME NEW s \in SessionIds, Revoke(s)
      PROVE  \E S \in SUBSET SessionIds : sessions' = Revoked(S)
  BY <1>4 DEF Revoke
<1>5. ASSUME NEW u \in Users, RevokeAllForUser(u)
      PROVE  \E S \in SUBSET SessionIds : sessions' = Revoked(S)
  <2>1. {s \in SessionIds : Exists(s) /\ sessions[s].user = u} \in SUBSET SessionIds
    OBVIOUS
  <2> QED
    BY <1>5, <2>1 DEF RevokeAllForUser
<1> QED
  BY <1>1, <1>2, <1>3, <1>4, <1>5 DEF SessionNext, SessionStep, Sign, RotateRead,
     RotateOwner, SetStatus, InvalidateIssuedTokens, Restart, SessionTick, sessionVars

LEMMA CreatedFamily ==
  ASSUME SessionTypeOK, RowsAreLinked, NEW s \in SessionIds, NEW u \in Users,
         ~Exists(s), sessions' = [sessions EXCEPT ![s] = NewRow(u, s)]
  PROVE  /\ Family(s) = {} /\ Family(s)' = {s}
         /\ \A f \in SessionIds \ {s} : Family(f)' = Family(f)
         /\ \A t \in SessionIds \ {s} : (Live(t)' <=> Live(t)) /\ (Stray(t)' <=> Stray(t))
         /\ RowsAreLinked'
<1>1. /\ sessions'[s] = NewRow(u, s) /\ sessions'[s] # NoSession
      /\ sessions'[s].family = s /\ sessions'[s].replacedBy = NoSession
      /\ \A t \in SessionIds \ {s} : sessions'[t] = sessions[t]
  BY NewRowType DEF SessionTypeOK, NewRow
<1>2. /\ Exists(s)'
      /\ \A t \in SessionIds \ {s} : Exists(t)' <=> Exists(t)
  BY <1>1 DEF Exists
<1>3. Family(s) = {} /\ Family(s)' = {s}
  BY <1>1, <1>2 DEF Family, RowsAreLinked
<1>4. \A f \in SessionIds \ {s} : Family(f)' = Family(f)
  BY <1>1, <1>2 DEF Family
<1>5. \A t \in SessionIds \ {s} : Live(t)' <=> Live(t)
  BY <1>1, <1>2 DEF Live
<1>6. \A t \in SessionIds \ {s} : Stray(t)' <=> Stray(t)
  BY <1>1, <1>2, SessionsAssumption DEF Stray
<1>7. \A t \in SessionIds : Exists(t) => sessions[t].family \in SessionIds
                                       /\ sessions[t].replacedBy \in SessionIds \cup {NoSession}
  BY RowType DEF Row
<1>8. RowsAreLinked'
  BY <1>1, <1>2, <1>7 DEF RowsAreLinked
<1> QED
  BY <1>3, <1>4, <1>5, <1>6, <1>8

LEMMA ReplacedFamily ==
  ASSUME SessionTypeOK, RowsAreLinked, NEW s \in SessionIds, NEW n \in SessionIds,
         Exists(s), ~Exists(n), sessions' = Replaced(s, n),
         NEW f \in SessionIds, f = sessions[s].family
  PROVE  /\ Family(f)' = Family(f) \cup {n}
         /\ \A g \in SessionIds \ {f} : Family(g)' = Family(g)
         /\ \A t \in SessionIds \ {n} : (Live(t)' => Live(t)) /\ (Stray(t)' <=> Stray(t))
         /\ ~Live(s)'
         /\ ~Live(s) => Stray(n)'
         /\ RowsAreLinked'
<1>1. Exists(f) /\ f # n /\ s # n
  BY DEF RowsAreLinked
<1>made. sessions'[n] = NewRow(sessions[s].user, f)
  BY ReplacedRows
<1>fields. sessions'[n].family = f /\ sessions'[n].replacedBy = NoSession
  BY <1>made DEF NewRow
<1>2. /\ sessions'[n].family = f /\ sessions'[n].replacedBy = NoSession
      /\ sessions'[n] # NoSession
      /\ sessions'[s] # NoSession /\ sessions'[s].family = f /\ sessions'[s].revoked
      /\ sessions'[s].replacedBy = IF sessions[s].revoked THEN sessions[s].replacedBy ELSE n
      /\ \A t \in SessionIds \ {s, n} : sessions'[t] = sessions[t]
  BY <1>fields, ReplacedRows
<1>3. \A t \in SessionIds : Exists(t)' <=> Exists(t) \/ t = n
  BY <1>2 DEF Exists
<1>4. \A t \in SessionIds : Exists(t) => sessions'[t].family = sessions[t].family
  BY <1>2 DEF Exists
<1>5. Family(f)' = Family(f) \cup {n}
  BY <1>2, <1>3, <1>4 DEF Family
<1>6. \A g \in SessionIds \ {f} : Family(g)' = Family(g)
  BY <1>2, <1>3, <1>4 DEF Family
<1>7. (\A t \in SessionIds \ {n} : Live(t)' => Live(t)) /\ ~Live(s)'
  BY <1>2, <1>3 DEF Live
<1>8. \A t \in SessionIds : Exists(t) =>
        /\ sessions[t].replacedBy # n
        /\ sessions[t].family \in SessionIds
        /\ sessions[t].replacedBy \in SessionIds \cup {NoSession}
  BY RowType, SessionsAssumption DEF RowsAreLinked, Row
<1>9. \A t \in SessionIds \ {n} :
        (\A r \in SessionIds : Exists(r)' => sessions'[r].replacedBy # t)
          <=> (\A r \in SessionIds : Exists(r) => sessions[r].replacedBy # t)
  <2> SUFFICES ASSUME NEW t \in SessionIds \ {n}
               PROVE  (\A r \in SessionIds : Exists(r)' => sessions'[r].replacedBy # t)
                        <=> (\A r \in SessionIds : Exists(r) => sessions[r].replacedBy # t)
    OBVIOUS
  <2>1. \A r \in SessionIds \ {s, n} : sessions'[r].replacedBy = sessions[r].replacedBy
    BY <1>2
  <2>2. sessions'[n].replacedBy # t
    BY <1>2, SessionsAssumption
  <2>3. CASE sessions[s].revoked
    BY <1>2, <1>3, <2>1, <2>2, <2>3
  <2>4. CASE ~sessions[s].revoked
    <3>1. sessions'[s].replacedBy # t
      BY <1>2, <2>4
    <3>2. sessions[s].replacedBy # t
      BY <2>4, SessionsAssumption DEF RowsAreLinked
    <3> QED
      BY <1>3, <2>1, <2>2, <3>1, <3>2
  <2> QED
    BY <2>3, <2>4
<1>10. \A t \in SessionIds \ {n} : Stray(t)' <=> Stray(t)
  BY <1>3, <1>4, <1>9 DEF Stray
<1>11. ~Live(s) => Stray(n)'
  <2> SUFFICES ASSUME ~Live(s) PROVE Stray(n)'
    OBVIOUS
  <2>1. sessions[s].revoked
    BY DEF Live
  <2>2. \A r \in SessionIds : Exists(r)' => sessions'[r].replacedBy # n
    BY <1>2, <1>3, <1>8, <2>1, SessionsAssumption
  <2> QED
    BY <1>1, <1>2, <1>3, <2>2 DEF Stray
<1>12. RowsAreLinked'
  <2>1. \A t \in SessionIds : Exists(t)' => Exists(sessions[t].family)'
    BY <1>1, <1>2, <1>3, <1>4, <1>8 DEF RowsAreLinked
  <2>2. \A t \in SessionIds \ {s, n} : Exists(t)' /\ sessions'[t].replacedBy # NoSession =>
          Exists(sessions[t].replacedBy)' /\ sessions'[t].revoked
    BY <1>2, <1>3, <1>8 DEF RowsAreLinked
  <2>3. sessions'[s].replacedBy # NoSession => Exists(sessions[s].replacedBy)'
    BY <1>2, <1>3, <1>8 DEF RowsAreLinked
  <2> QED
    BY <1>2, <2>1, <2>2, <2>3 DEF RowsAreLinked
<1> QED
  BY <1>5, <1>6, <1>7, <1>10, <1>11, <1>12

LEMMA RevokedFamilies ==
  ASSUME SessionTypeOK, RowsAreLinked, NEW S \in SUBSET SessionIds, sessions' = Revoked(S)
  PROVE  /\ \A f \in SessionIds : Family(f)' = Family(f)
         /\ \A t \in SessionIds : (Live(t)' => Live(t)) /\ (Stray(t)' <=> Stray(t))
         /\ RowsAreLinked'
<1>1. \A t \in SessionIds : Exists(t)' <=> Exists(t)
  BY RevokedKeeps DEF Exists
<1>2. \A t \in SessionIds : Exists(t) =>
        /\ sessions'[t].family = sessions[t].family
        /\ sessions'[t].replacedBy = sessions[t].replacedBy
        /\ sessions[t].revoked => sessions'[t].revoked
  BY RevokedKeeps
<1>3. \A t \in SessionIds : Exists(t) =>
        /\ sessions[t].family \in SessionIds
        /\ sessions[t].replacedBy \in SessionIds \cup {NoSession}
  BY RowType DEF Row
<1>4. \A f \in SessionIds : Family(f)' = Family(f)
  BY <1>1, <1>2 DEF Family
<1>5. \A t \in SessionIds : Live(t)' => Live(t)
  BY <1>1, <1>2 DEF Live
<1>6. \A t \in SessionIds : Stray(t)' <=> Stray(t)
  BY <1>1, <1>2 DEF Stray
<1>7. RowsAreLinked'
  BY <1>1, <1>2, <1>3 DEF RowsAreLinked
<1> QED
  BY <1>4, <1>5, <1>6, <1>7

\* The tables before and after are the same table.
LEMMA SameFamilies ==
  ASSUME UNCHANGED sessions
  PROVE  /\ \A f \in SessionIds : Family(f)' = Family(f)
         /\ \A t \in SessionIds : (Live(t)' <=> Live(t)) /\ (Stray(t)' <=> Stray(t))
         /\ RowsAreLinked => RowsAreLinked'
  BY DEF Family, Live, Stray, Exists, RowsAreLinked

OneLive(f) == \A s, t \in Family(f) : Live(s) /\ Live(t) => s = t

\* A step that leaves a family without a stray leaves it with one live session
\* at most if it had no more.
LEMMA FamilyStep ==
  ASSUME SessionTypeOK, RowsAreLinked, [SessionNext]_sessionVars,
         NEW f \in SessionIds, ~HasStray(f)', ~HasStray(f) => OneLive(f)
  PROVE  OneLive(f)'
<1>1. \A s \in Family(f) : s \in SessionIds /\ Exists(s)
  BY DEF Family
<1>2. ASSUME NEW s \in SessionIds, NEW u \in Users, ~Exists(s),
             sessions' = [sessions EXCEPT ![s] = NewRow(u, s)]
      PROVE  OneLive(f)'
  <2>1. CASE f = s
    BY <1>2, <2>1, CreatedFamily DEF OneLive
  <2>2. CASE f # s
    <3>1. /\ Family(f)' = Family(f)
          /\ \A t \in Family(f) : (Live(t)' <=> Live(t)) /\ (Stray(t)' <=> Stray(t))
      BY <1>1, <1>2, <2>2, CreatedFamily
    <3> QED
      BY <3>1 DEF OneLive, HasStray
  <2> QED
    BY <2>1, <2>2
<1>3. ASSUME NEW s \in SessionIds, NEW n \in SessionIds, Exists(s), ~Exists(n),
             sessions' = Replaced(s, n)
      PROVE  OneLive(f)'
  <2>1. PICK g \in SessionIds : g = sessions[s].family
    BY <1>3, RowType DEF Row
  <2>2. /\ Family(g)' = Family(g) \cup {n}
        /\ \A h \in SessionIds \ {g} : Family(h)' = Family(h)
        /\ \A t \in SessionIds \ {n} : (Live(t)' => Live(t)) /\ (Stray(t)' <=> Stray(t))
        /\ ~Live(s)' /\ (~Live(s) => Stray(n)')
    BY <1>3, <2>1, ReplacedFamily
  <2>3. \A t \in Family(f) : t # n /\ t \in SessionIds
    BY <1>1, <1>3
  <2>4. s \in Family(g)
    BY <1>3, <2>1 DEF Family
  <2>5. ~HasStray(f)
    BY <2>2, <2>3 DEF HasStray
  <2>6. CASE f = g
    <3>1. Live(s)
      BY <2>2, <2>6 DEF HasStray
    <3>2. \A t \in Family(f) : Live(t) => t = s
      BY <2>4, <2>5, <2>6, <3>1 DEF OneLive
    <3> QED
      BY <2>2, <2>3, <2>4, <2>6, <3>1, <3>2 DEF OneLive
  <2>7. CASE f # g
    BY <2>2, <2>3, <2>5, <2>7 DEF OneLive
  <2> QED
    BY <2>6, <2>7
<1>4. ASSUME NEW S \in SUBSET SessionIds, sessions' = Revoked(S)
      PROVE  OneLive(f)'
  <2>1. /\ Family(f)' = Family(f)
        /\ \A t \in Family(f) : (Live(t)' => Live(t)) /\ (Stray(t)' <=> Stray(t))
    BY <1>1, <1>4, RevokedFamilies
  <2> QED
    BY <2>1 DEF OneLive, HasStray
<1>5. CASE UNCHANGED sessions
  <2>1. /\ Family(f)' = Family(f)
        /\ \A t \in Family(f) : (Live(t)' <=> Live(t)) /\ (Stray(t)' <=> Stray(t))
    BY <1>1, <1>5, SameFamilies
  <2> QED
    BY <2>1 DEF OneLive, HasStray
<1> QED
  BY <1>2, <1>3, <1>4, <1>5, TableSteps

LEMMA LinksStep ==
  ASSUME SessionTypeOK, RowsAreLinked, [SessionNext]_sessionVars
  PROVE  RowsAreLinked'
<1>1. ASSUME NEW s \in SessionIds, NEW n \in SessionIds, Exists(s), ~Exists(n),
             sessions' = Replaced(s, n)
      PROVE  RowsAreLinked'
  <2>1. PICK f \in SessionIds : f = sessions[s].family
    BY <1>1, RowType DEF Row
  <2> QED
    BY <1>1, <2>1, ReplacedFamily
<1> QED
  BY <1>1, CreatedFamily, RevokedFamilies, SameFamilies, TableSteps
-----------------------------------------------------------------------------
(* The signing of tokens *)

LEMMA SignedStep ==
  ASSUME SessionTypeOK, SignedOnce, [SessionNext]_sessionVars
  PROVE  SignedOnce'
<1> USE DEF SessionTypeOK, SignedOnce
<1>1. ASSUME NEW c \in Clients, NEW s \in SessionIds, NEW u \in Users, Create(c, u, s)
      PROVE  SignedOnce'
  BY <1>1 DEF Create, Goto, Fresh
<1>2. ASSUME NEW c \in Clients, Sign(c) PROVE SignedOnce'
  BY <1>2 DEF Sign, Goto
<1>3. ASSUME NEW c \in Clients, NEW s \in SessionIds, RotateRead(c, s)
      PROVE  SignedOnce'
  BY <1>3 DEF RotateRead, Goto
<1>4. ASSUME NEW c \in Clients, RotateOwner(c) PROVE SignedOnce'
  BY <1>4 DEF RotateOwner, Goto
<1>5. ASSUME NEW c \in Clients, NEW n \in SessionIds, RotateCommit(c, n)
      PROVE  SignedOnce'
  BY <1>5 DEF RotateCommit, Goto, Fresh
<1>6. ASSUME NEW c \in Clients, ReuseDetected(c) PROVE SignedOnce'
  BY <1>6 DEF ReuseDetected, Goto
<1>7. CASE Restart
  BY <1>7 DEF Restart
<1>8. CASE UNCHANGED <<doing, subject, claims>>
  BY <1>8
<1> QED
  BY <1>1, <1>2, <1>3, <1>4, <1>5, <1>6, <1>7, <1>8 DEF SessionNext, SessionStep, Revoke,
     RevokeAllForUser, SetStatus, InvalidateIssuedTokens, SessionTick, sessionVars
-----------------------------------------------------------------------------
LEMMA SessionInvHolds == SessionSpec => []SessionInv
<1>1. SessionInit => SessionInv
  <2> SUFFICES ASSUME SessionInit PROVE SessionInv
    OBVIOUS
  <2>1. RowsAreLinked /\ FamilyIsLinear
    BY DEF SessionInit, RowsAreLinked, FamilyIsLinear, Family, Exists
  <2>2. SignedOnce
    BY DEF SessionInit, SignedOnce
  <2> QED
    BY <2>1, <2>2, SessionTypeInit DEF SessionInv
<1>2. SessionInv /\ [SessionNext]_sessionVars => SessionInv'
  <2> SUFFICES ASSUME SessionInv, [SessionNext]_sessionVars PROVE SessionInv'
    OBVIOUS
  <2>1. SessionTypeOK' /\ RowsAreLinked' /\ SignedOnce'
    BY SessionTypeNext, LinksStep, SignedStep DEF SessionInv
  <2>2. ASSUME NEW f \in SessionIds, ~HasStray(f)' PROVE OneLive(f)'
    BY <2>2, FamilyStep DEF SessionInv, FamilyIsLinear, OneLive
  <2>3. FamilyIsLinear'
    BY <2>2 DEF FamilyIsLinear, OneLive
  <2> QED
    BY <2>1, <2>3 DEF SessionInv
<1> QED
  BY <1>1, <1>2, PTL DEF SessionSpec

\* Calls never work on a session that is not there.
THEOREM SessionTypeHolds == SessionSpec => []SessionTypeOK
<1>1. SessionInv => SessionTypeOK
  BY DEF SessionInv
<1> QED
  BY <1>1, SessionInvHolds, PTL

\* However calls of create, rotate and revoke interleave and die, a family has
\* one session at most that can be used, unless a rotation's UPDATE matched no
\* row.
THEOREM FamilyIsLinearHolds == SessionSpec => []FamilyIsLinear
<1>1. SessionInv => FamilyIsLinear
  BY DEF SessionInv
<1> QED
  BY <1>1, SessionInvHolds, PTL

\* A dead family and the calls rotating its tokens after one step.
LEMMA DeadStep ==
  ASSUME SessionInv, [SessionNext]_sessionVars, NEW f \in SessionIds, Dead(f)
  PROVE  /\ Rotating(f)' \subseteq Rotating(f)
         /\ Dead(f)' \/ Rotating(f)' # Rotating(f)
<1>0. /\ SessionTypeOK /\ RowsAreLinked
      /\ \A s \in Family(f) : s \in SessionIds /\ Exists(s) /\ ~Live(s)
      /\ \A c \in Clients : doing[c] # "idle" => subject[c] \in SessionIds /\ Exists(subject[c])
  BY DEF SessionInv, SessionTypeOK, Family, Dead
\* A call goes on, and is no rotation after that or was one before.
<1>1. ASSUME NEW c \in Clients,
             \A d \in Clients \ {c} : doing'[d] = doing[d] /\ subject'[d] = subject[d],
             \/ doing'[c] \notin {"owner", "commit"}
             \/ doing[c] = "owner" /\ subject'[c] = subject[c],
             \A s \in SessionIds : Exists(s) /\ s \in Family(f)' => s \in Family(f)
      PROVE  Rotating(f)' \subseteq Rotating(f)
  <2> SUFFICES ASSUME NEW d \in Rotating(f)' PROVE d \in Rotating(f)
    OBVIOUS
  <2>1. d \in Clients /\ doing'[d] \in {"owner", "commit"} /\ subject'[d] \in Family(f)'
    BY DEF Rotating
  <2>2. doing[d] \in {"owner", "commit"} /\ subject'[d] = subject[d]
    BY <1>1, <2>1
  <2>3. subject[d] \in SessionIds /\ Exists(subject[d])
    BY <1>0, <2>1, <2>2
  <2> QED
    BY <1>1, <2>1, <2>2, <2>3 DEF Rotating
<1>2. ASSUME NEW c \in Clients, NEW s \in SessionIds, NEW u \in Users, Create(c, u, s)
      PROVE  Rotating(f)' \subseteq Rotating(f) /\ Dead(f)'
  <2>1. ~Exists(s) /\ sessions' = [sessions EXCEPT ![s] = NewRow(u, s)]
    BY <1>2 DEF Create, Fresh
  <2>2. f # s /\ Family(f)' = Family(f)
    BY <1>0, <2>1, CreatedFamily DEF Dead
  <2>3. \A t \in Family(f) : ~Live(t)'
    BY <1>0, <2>1, CreatedFamily
  <2>4. Rotating(f)' \subseteq Rotating(f)
    <3>1. /\ doing'[c] = "sign"
          /\ \A d \in Clients \ {c} : doing'[d] = doing[d] /\ subject'[d] = subject[d]
      BY <1>0, <1>2 DEF Create, Goto, SessionTypeOK
    <3> QED
      BY <1>1, <2>2, <3>1
  <2> QED
    BY <2>2, <2>3, <2>4 DEF Dead
<1>3. ASSUME NEW c \in Clients, NEW n \in SessionIds, RotateCommit(c, n)
      PROVE  Rotating(f)' \subseteq Rotating(f) /\ (Dead(f)' \/ Rotating(f)' # Rotating(f))
  <2>1. /\ subject[c] \in SessionIds /\ Exists(subject[c]) /\ ~Exists(n)
        /\ sessions' = Replaced(subject[c], n)
    BY <1>0, <1>3, RotatedSessions
  <2>2. PICK g \in SessionIds : g = sessions[subject[c]].family
    BY <1>0, <2>1, RowType DEF Row
  <2>3. /\ Family(g)' = Family(g) \cup {n}
        /\ \A h \in SessionIds \ {g} : Family(h)' = Family(h)
        /\ \A t \in SessionIds \ {n} : Live(t)' => Live(t)
    BY <1>0, <2>1, <2>2, ReplacedFamily
  <2>4. \A s \in SessionIds : Exists(s) /\ s \in Family(f)' => s \in Family(f)
    BY <2>1, <2>3
  <2>5. Rotating(f)' \subseteq Rotating(f)
    <3>1. /\ doing'[c] = "sign"
          /\ \A d \in Clients \ {c} : doing'[d] = doing[d] /\ subject'[d] = subject[d]
      BY <1>0, <1>3 DEF RotateCommit, Goto, SessionTypeOK
    <3> QED
      BY <1>1, <2>4, <3>1
  <2>6. CASE f = g
    <3>1. c \in Rotating(f)
      BY <1>3, <2>1, <2>2, <2>6 DEF Rotating, RotateCommit, Family
    <3>2. c \notin Rotating(f)'
      BY <1>0, <1>3 DEF Rotating, RotateCommit, Goto, SessionTypeOK
    <3> QED
      BY <2>5, <3>1, <3>2
  <2>7. CASE f # g
    <3>1. Family(f)' = Family(f) /\ \A t \in Family(f) : ~Live(t)'
      BY <1>0, <2>1, <2>3, <2>7
    <3> QED
      BY <2>5, <3>1 DEF Dead
  <2> QED
    BY <2>6, <2>7
<1>4. ASSUME NEW S \in SUBSET SessionIds, sessions' = Revoked(S)
      PROVE  Dead(f)' /\ Family(f)' = Family(f)
  BY <1>0, <1>4, RevokedFamilies DEF Dead
<1>5. UNCHANGED sessions => Dead(f)' /\ Family(f)' = Family(f)
  BY <1>0, SameFamilies DEF Dead
<1>6. ASSUME NEW c \in Clients, NEW s \in SessionIds, RotateRead(c, s)
      PROVE  Rotating(f)' \subseteq Rotating(f) /\ Dead(f)'
  <2>1. UNCHANGED sessions /\ claims[s] # NoClaims
    BY <1>6 DEF RotateRead
  <2>2. Exists(s)
    BY <1>0, <2>1 DEF SessionTypeOK
  <2>3. CASE s \in Family(f)
    <3>1. sessions[s].revoked
      BY <1>0, <2>3 DEF Live
    <3>2. /\ doing'[c] = "reuse"
          /\ \A d \in Clients \ {c} : doing'[d] = doing[d] /\ subject'[d] = subject[d]
      BY <1>0, <1>6, <3>1 DEF RotateRead, Goto, SessionTypeOK
    <3>3. Family(f)' = Family(f) /\ Dead(f)'
      BY <1>5, <2>1
    <3> QED
      BY <1>1, <3>2, <3>3
  <2>4. CASE s \notin Family(f)
    <3>1. Family(f)' = Family(f) /\ Dead(f)'
      BY <1>5, <2>1
    <3>2. \A d \in Clients \ {c} : doing'[d] = doing[d] /\ subject'[d] = subject[d]
      BY <1>0, <1>6 DEF RotateRead, Goto, SessionTypeOK
    <3>3. subject'[c] = s
      BY <1>0, <1>6 DEF RotateRead, Goto, SessionTypeOK
    <3> QED
      BY <2>4, <3>1, <3>2, <3>3 DEF Rotating
  <2> QED
    BY <2>3, <2>4
<1>7. ASSUME NEW c \in Clients, Sign(c) \/ RotateOwner(c)
      PROVE  Rotating(f)' \subseteq Rotating(f) /\ Dead(f)'
  <2>1. UNCHANGED sessions
    BY <1>7 DEF Sign, RotateOwner
  <2>2. Family(f)' = Family(f) /\ Dead(f)'
    BY <1>5, <2>1
  <2>3. /\ doing'[c] = "idle" \/ (doing[c] = "owner" /\ subject'[c] = subject[c])
        /\ \A d \in Clients \ {c} : doing'[d] = doing[d] /\ subject'[d] = subject[d]
    <3>0. doing \in [Clients -> Step] /\ subject \in [Clients -> SessionIds \cup {NoSession}]
      BY <1>0 DEF SessionTypeOK
    <3>1. CASE Goto(c, "idle", NoSession)
      BY <3>0, <3>1 DEF Goto
    <3>2. CASE doing[c] = "owner" /\ Goto(c, "commit", subject[c])
      BY <3>0, <3>2 DEF Goto
    <3> QED
      BY <1>7, <3>1, <3>2 DEF Sign, RotateOwner
  <2> QED
    BY <1>1, <2>2, <2>3
<1>8. ASSUME NEW c \in Clients, ReuseDetected(c)
      PROVE  Rotating(f)' \subseteq Rotating(f) /\ Dead(f)'
  <2>1. Dead(f)' /\ Family(f)' = Family(f)
    BY <1>4, <1>8 DEF ReuseDetected, Family
  <2> QED
    <3>1. /\ doing'[c] = "idle"
          /\ \A d \in Clients \ {c} : doing'[d] = doing[d] /\ subject'[d] = subject[d]
      BY <1>0, <1>8 DEF ReuseDetected, Goto, SessionTypeOK
    <3> QED
      BY <1>1, <2>1, <3>1
<1>9. ASSUME UNCHANGED <<doing, subject>>,
             \/ UNCHANGED sessions
             \/ \E S \in SUBSET SessionIds : sessions' = Revoked(S)
      PROVE  Rotating(f)' \subseteq Rotating(f) /\ Dead(f)'
  <2>1. Dead(f)' /\ Family(f)' = Family(f)
    BY <1>4, <1>5, <1>9
  <2> QED
    BY <1>9, <2>1 DEF Rotating
<1>10. ASSUME NEW s \in SessionIds, Revoke(s)
       PROVE  Rotating(f)' \subseteq Rotating(f) /\ Dead(f)'
  BY <1>9, <1>10 DEF Revoke
<1>11. ASSUME NEW u \in Users, RevokeAllForUser(u)
       PROVE  Rotating(f)' \subseteq Rotating(f) /\ Dead(f)'
  <2>1. {s \in SessionIds : Exists(s) /\ sessions[s].user = u} \in SUBSET SessionIds
    OBVIOUS
  <2> QED
    BY <1>9, <1>11, <2>1 DEF RevokeAllForUser
<1>12. CASE Restart
  <2>1. Dead(f)' /\ \A c \in Clients : doing'[c] = "idle"
    BY <1>5, <1>12 DEF Restart
  <2> QED
    BY <2>1 DEF Rotating
<1>13. CASE UNCHANGED <<sessions, doing, subject>>
  BY <1>9, <1>13
<1> QED
  BY <1>2, <1>3, <1>6, <1>7, <1>8, <1>10, <1>11, <1>12, <1>13 DEF SessionNext,
     SessionStep, SetStatus, InvalidateIssuedTokens, SessionTick, sessionVars

\* However a logout races calls of rotate, only those that had read their token
\* before it can bring the family back, and with the last of them it is dead
\* for good (rotate and revokeAllForUser of session.ts).
THEOREM LogoutSettlesHolds == SessionSpec => LogoutSettles
<1> DEFINE Settles ==
      \A f \in SessionIds : Dead(f) =>
        /\ Rotating(f)' \subseteq Rotating(f)
        /\ Dead(f)' \/ Rotating(f)' # Rotating(f)
<1>1. SessionInv /\ [SessionNext]_sessionVars => Settles
  BY DeadStep
<1> QED
  BY <1>1, SessionInvHolds, PTL DEF SessionSpec, LogoutSettles
-----------------------------------------------------------------------------
(* Refusals *)

\* A row keeps its owner and its expiry, and is not revived.
LEMMA RowKept ==
  ASSUME SessionTypeOK, RowsAreLinked, [SessionNext]_sessionVars,
         NEW s \in SessionIds, Exists(s)
  PROVE  /\ sessions'[s].user = sessions[s].user
         /\ sessions'[s].expires = sessions[s].expires
         /\ Live(s)' => Live(s)
<1>1. CASE UNCHANGED sessions
  BY <1>1 DEF Live, Exists
<1>2. ASSUME NEW t \in SessionIds, NEW u \in Users, ~Exists(t),
             sessions' = [sessions EXCEPT ![t] = NewRow(u, t)]
      PROVE  sessions'[s] = sessions[s]
  BY <1>2 DEF SessionTypeOK
<1>3. ASSUME NEW t \in SessionIds, NEW n \in SessionIds, Exists(t), ~Exists(n),
             sessions' = Replaced(t, n)
      PROVE  /\ sessions'[s].user = sessions[s].user
             /\ sessions'[s].expires = sessions[s].expires
             /\ ~sessions'[s].revoked => ~sessions[s].revoked
  <2>1. /\ sessions'[t].user = sessions[t].user
        /\ sessions'[t].expires = sessions[t].expires
        /\ sessions'[t].revoked
        /\ \A r \in SessionIds \ {t, n} : sessions'[r] = sessions[r]
    BY <1>3, ReplacedRows
  <2> QED
    BY <1>3, <2>1
<1>4. ASSUME NEW S \in SUBSET SessionIds, sessions' = Revoked(S)
      PROVE  /\ sessions'[s].user = sessions[s].user
             /\ sessions'[s].expires = sessions[s].expires
             /\ ~sessions'[s].revoked => ~sessions[s].revoked
  BY <1>4, RevokedKeeps
<1> QED
  BY <1>1, <1>2, <1>3, <1>4, TableSteps DEF Live, Exists

\* Tokens a client holds are not signed again, and the clock does not go back.
LEMMA ClaimsKept ==
  ASSUME SessionInv, [SessionNext]_sessionVars,
         NEW s \in SessionIds, claims[s] # NoClaims
  PROVE  claims'[s] = claims[s] /\ tick' \in Nat /\ tick <= tick'
<1> USE DEF SessionInv
<1>1. ASSUME NEW c \in Clients, Sign(c) PROVE claims'[s] = claims[s]
  BY <1>1 DEF Sign, SignedOnce, SessionTypeOK
<1>2. tick \in Nat
  BY SessionsAssumption DEF SessionTypeOK
<1>3. UNCHANGED tick \/ tick' = tick + 1
  BY DEF SessionNext, SessionStep, Create, Sign, RotateRead, RotateOwner, RotateCommit,
     ReuseDetected, Revoke, RevokeAllForUser, SetStatus, InvalidateIssuedTokens, Restart,
     SessionTick, sessionVars
<1>4. claims'[s] = claims[s]
  BY <1>1 DEF SessionNext, SessionStep, Create, RotateRead, RotateOwner,
     RotateCommit, ReuseDetected, Revoke, RevokeAllForUser, SetStatus,
     InvalidateIssuedTokens, Restart, SessionTick, sessionVars
<1> QED
  BY <1>2, <1>3, <1>4

\* An access token that authenticate refuses is not accepted later, whatever
\* calls run, as long as no operator reactivates its owner and no restart takes
\* the token version back below the token's.
THEOREM RefusalIsFinalHolds == SessionSpec => RefusalIsFinal
<1> DEFINE Final ==
      \A s \in SessionIds :
        /\ claims[s] # NoClaims /\ ~Accepts(s)
        /\ active' \subseteq active
        /\ version <= version' /\ claims[s].ver <= version
        => ~Accepts(s)'
<1>1. SessionInv /\ [SessionNext]_sessionVars => Final
  <2> SUFFICES ASSUME SessionInv, [SessionNext]_sessionVars, NEW s \in SessionIds,
                      claims[s] # NoClaims, active' \subseteq active,
                      version <= version', claims[s].ver <= version, Accepts(s)'
               PROVE  Accepts(s)
    OBVIOUS
  <2>1. /\ Exists(s) /\ sessions[s] \in Row /\ claims[s] \in Claims
        /\ version \in Nat /\ version' \in Nat /\ tick \in Nat
    BY SessionTypeNext, RowType, SessionsAssumption DEF SessionInv, SessionTypeOK
  <2>2. claims[s].ver \in Nat /\ claims[s].until \in Nat /\ sessions[s].expires \in Nat
    BY <2>1, SessionsAssumption DEF Claims, Row
  <2>3. claims'[s] = claims[s] /\ tick' \in Nat /\ tick <= tick'
    BY ClaimsKept
  <2>4. /\ sessions'[s].user = sessions[s].user
        /\ sessions'[s].expires = sessions[s].expires
        /\ Live(s)' => Live(s)
    BY <2>1, RowKept DEF SessionInv
  <2>5. claims[s].until > tick /\ Unexpired(s)
    BY <2>1, <2>2, <2>3, <2>4 DEF Accepts, Unexpired
  <2>6. claims[s].ver = version
    BY <2>1, <2>2, <2>3 DEF Accepts
  <2>7. sessions[s].user \in active /\ Live(s)
    BY <2>4 DEF Accepts
  <2> QED
    BY <2>5, <2>6, <2>7 DEF Accepts
<1> QED
  BY <1>1, SessionInvHolds, PTL DEF SessionSpec, RefusalIsFinal
-----------------------------------------------------------------------------
(* Telegram links.                                                         *)

\* A transaction that works on a code holds its row, which stays live.
RedeemerHoldsCode ==
  \A p \in Linkers : linking[p] \in {"check", "insert"} =>
    /\ codeLock[about[p].code] = p
    /\ challenge[about[p].code] = "live"

LinkInv == LinkTypeOK /\ RedeemerHoldsCode /\ OneOwnerPerTelegram /\ CodeLinksOnce
-----------------------------------------------------------------------------
LEMMA LinkTypeInit == LinkInit => LinkTypeOK
  BY DEF LinkInit, LinkTypeOK

LEMMA LinkTypeNext ==
  ASSUME LinkTypeOK, RedeemerHoldsCode, [LinkNext]_linkVars PROVE LinkTypeOK'
<1> USE DEF LinkTypeOK
<1>1. ASSUME NEW p \in Linkers, Rollback(p) PROVE LinkTypeOK'
  BY <1>1 DEF Rollback
<1>2. ASSUME NEW p \in Linkers, NEW u \in Owners, Supersede(p, u) PROVE LinkTypeOK'
  BY <1>2 DEF Supersede
<1>3. ASSUME NEW p \in Linkers, NEW k \in Codes, Issue(p, k) PROVE LinkTypeOK'
  BY <1>3 DEF Issue
<1>4. ASSUME NEW p \in Linkers, NEW k \in Codes, NEW t \in Telegrams, ConsumeCode(p, k, t)
      PROVE  LinkTypeOK'
  BY <1>4 DEF ConsumeCode
<1>5. ASSUME NEW p \in Linkers, CheckTelegram(p) PROVE LinkTypeOK'
  BY <1>1, <1>5 DEF CheckTelegram
<1>6. ASSUME NEW p \in Linkers, NEW i \in LinkIds, InsertLink(p, i) PROVE LinkTypeOK'
  <2>1. CASE ~IndexAdmits(about[p].telegram)
    BY <1>1, <1>6, <2>1 DEF InsertLink
  <2>2. CASE IndexAdmits(about[p].telegram)
    <3>1. about[p] \in [code : Codes, telegram : Telegrams]
      BY <1>6 DEF InsertLink
    <3>2. NewLink(p) \in Link
      BY <3>1 DEF NewLink, Link
    <3> QED
      BY <1>6, <2>2, <3>1, <3>2 DEF InsertLink
  <2> QED
    BY <2>1, <2>2
<1>7. ASSUME NEW u \in Owners, Unlink(u) PROVE LinkTypeOK'
  <2>1. ASSUME NEW i \in LinkIds, ActiveLink(i)
        PROVE  [links[i] EXCEPT !.revoked = TRUE] \in Link
    <3>1. links[i] \in Link
      BY <2>1 DEF ActiveLink
    <3> QED
      BY <3>1 DEF Link
  <2> QED
    BY <1>7, <2>1 DEF Unlink
<1>8. ASSUME NEW k \in Codes, CodeExpires(k) PROVE LinkTypeOK'
  BY <1>8 DEF CodeExpires
<1>9. CASE UNCHANGED linkVars
  BY <1>9 DEF linkVars
<1> QED
  BY <1>1, <1>2, <1>3, <1>4, <1>5, <1>6, <1>7, <1>8, <1>9
     DEF LinkNext, LinkStep, LinkerDies

\* The row lock keeps a code from being superseded, expired or redeemed while a
\* transaction works on it.
LEMMA RedeemerNext ==
  ASSUME LinkTypeOK, RedeemerHoldsCode, [LinkNext]_linkVars PROVE RedeemerHoldsCode'
<1> USE DEF LinkTypeOK, RedeemerHoldsCode
<1>0. \A p \in Linkers : p # NoLinker
  BY TelegramAssumption
<1>1. ASSUME NEW p \in Linkers, Rollback(p) PROVE RedeemerHoldsCode'
  BY <1>1 DEF Rollback
<1>2. ASSUME NEW p \in Linkers, NEW u \in Owners, Supersede(p, u)
      PROVE  RedeemerHoldsCode'
  BY <1>0, <1>2 DEF Supersede
<1>3. ASSUME NEW p \in Linkers, NEW k \in Codes, Issue(p, k) PROVE RedeemerHoldsCode'
  BY <1>3 DEF Issue
<1>4. ASSUME NEW p \in Linkers, NEW k \in Codes, NEW t \in Telegrams, ConsumeCode(p, k, t)
      PROVE  RedeemerHoldsCode'
  BY <1>0, <1>4 DEF ConsumeCode
<1>5. ASSUME NEW p \in Linkers, CheckTelegram(p) PROVE RedeemerHoldsCode'
  BY <1>1, <1>5 DEF CheckTelegram
<1>6. ASSUME NEW p \in Linkers, NEW i \in LinkIds, InsertLink(p, i)
      PROVE  RedeemerHoldsCode'
  BY <1>0, <1>1, <1>6 DEF InsertLink
<1>7. ASSUME NEW k \in Codes, CodeExpires(k) PROVE RedeemerHoldsCode'
  BY <1>0, <1>7 DEF CodeExpires
<1>8. CASE UNCHANGED <<challenge, codeLock, linking, about>>
  BY <1>8
<1> QED
  BY <1>1, <1>2, <1>3, <1>4, <1>5, <1>6, <1>7, <1>8
     DEF LinkNext, LinkStep, LinkerDies, Unlink, linkVars
-----------------------------------------------------------------------------
(* The links *)

\* A step adds a link of a code under redemption where the index admits it,
\* revokes links, or leaves them alone.
LEMMA LinkTableSteps ==
  ASSUME LinkTypeOK, [LinkNext]_linkVars
  PROVE  \/ UNCHANGED links
         \/ \E p \in Linkers, i \in LinkIds :
              /\ linking[p] = "insert" /\ links[i] = NoLink
              /\ IndexAdmits(about[p].telegram)
              /\ links' = [links EXCEPT ![i] = NewLink(p)]
              /\ challenge' = [challenge EXCEPT ![about[p].code] = "consumed"]
         \/ \E u \in Owners : Unlink(u)
<1>1. ASSUME NEW p \in Linkers, NEW i \in LinkIds, InsertLink(p, i),
             ~IndexAdmits(about[p].telegram)
      PROVE  UNCHANGED links
  BY <1>1 DEF InsertLink, Rollback
<1> QED
  BY <1>1 DEF LinkNext, LinkStep, Supersede, Issue, ConsumeCode, CheckTelegram, InsertLink,
     LinkerDies, Rollback, CodeExpires, linkVars

\* Unlinking keeps every field of a link but one.
LEMMA UnlinkKeeps ==
  ASSUME LinkTypeOK, NEW u \in Owners, Unlink(u), NEW i \in LinkIds
  PROVE  /\ links'[i] = NoLink <=> links[i] = NoLink
         /\ links[i] # NoLink => /\ links'[i].user = links[i].user
                                 /\ links'[i].telegram = links[i].telegram
                                 /\ links'[i].code = links[i].code
                                 /\ links[i].revoked => links'[i].revoked
<1>1. CASE ActiveLink(i) /\ links[i].user = u
  <2>1. links[i] \in Link /\ links'[i] = [links[i] EXCEPT !.revoked = TRUE]
    BY <1>1 DEF Unlink, ActiveLink, LinkTypeOK
  <2>2. links'[i] \in Link
    BY <2>1 DEF Link
  <2> QED
    BY <1>1, <2>1, <2>2, TelegramAssumption DEF Link, ActiveLink
<1>2. CASE ~(ActiveLink(i) /\ links[i].user = u)
  BY <1>2 DEF Unlink
<1> QED
  BY <1>1, <1>2

LEMMA OwnerNext ==
  ASSUME LinkTypeOK, OneOwnerPerTelegram, [LinkNext]_linkVars
  PROVE  OneOwnerPerTelegram'
<1>1. CASE UNCHANGED links
  BY <1>1 DEF OneOwnerPerTelegram, ActiveLink
<1>2. ASSUME NEW p \in Linkers, NEW i \in LinkIds, linking[p] = "insert", links[i] = NoLink,
             IndexAdmits(about[p].telegram), links' = [links EXCEPT ![i] = NewLink(p)]
      PROVE  OneOwnerPerTelegram'
  <2>1. /\ links'[i].telegram = about[p].telegram
        /\ \A j \in LinkIds \ {i} : links'[j] = links[j]
    BY <1>2 DEF LinkTypeOK, NewLink
  <2>2. \A j \in LinkIds : ActiveLink(j) => links[j].telegram # about[p].telegram
    BY <1>2 DEF IndexAdmits, LinkedTo
  <2> QED
    BY <2>1, <2>2 DEF OneOwnerPerTelegram, ActiveLink
<1>3. ASSUME NEW u \in Owners, Unlink(u) PROVE OneOwnerPerTelegram'
  <2>1. \A i \in LinkIds : ActiveLink(i)' =>
          ActiveLink(i) /\ links'[i].telegram = links[i].telegram
    BY <1>3, UnlinkKeeps DEF ActiveLink
  <2> QED
    BY <2>1 DEF OneOwnerPerTelegram
<1> QED
  BY <1>1, <1>2, <1>3, LinkTableSteps

\* A code that is consumed stays so, and is issued to one user only.
LEMMA ConsumedStays ==
  ASSUME LinkTypeOK, RedeemerHoldsCode, [LinkNext]_linkVars,
         NEW k \in Codes, challenge[k] = "consumed"
  PROVE  challenge'[k] = "consumed" /\ owner'[k] = owner[k]
<1>1. ASSUME NEW p \in Linkers, Rollback(p) PROVE UNCHANGED <<challenge, owner>>
  BY <1>1 DEF Rollback
<1> QED
  BY <1>1 DEF LinkTypeOK, LinkNext, LinkStep, Supersede, Issue, ConsumeCode, CheckTelegram,
     InsertLink, LinkerDies, Unlink, CodeExpires, linkVars

LEMMA CodeNext ==
  ASSUME LinkTypeOK, RedeemerHoldsCode, CodeLinksOnce, [LinkNext]_linkVars
  PROVE  CodeLinksOnce'
<1>1. \A i \in LinkIds : links[i] # NoLink =>
        /\ links[i].code \in Codes
        /\ challenge'[links[i].code] = "consumed"
        /\ owner'[links[i].code] = owner[links[i].code]
  BY ConsumedStays DEF LinkTypeOK, Link, CodeLinksOnce
<1>2. CASE UNCHANGED links
  BY <1>1, <1>2 DEF CodeLinksOnce
<1>3. ASSUME NEW p \in Linkers, NEW i \in LinkIds, linking[p] = "insert", links[i] = NoLink,
             links' = [links EXCEPT ![i] = NewLink(p)],
             challenge' = [challenge EXCEPT ![about[p].code] = "consumed"]
      PROVE  CodeLinksOnce'
  <2>1. about[p].code \in Codes /\ challenge[about[p].code] = "live"
    BY <1>3 DEF LinkTypeOK, RedeemerHoldsCode
  <2>2. /\ links'[i].code = about[p].code /\ links'[i].user = owner[about[p].code]
        /\ \A j \in LinkIds \ {i} : links'[j] = links[j]
    BY <1>3 DEF LinkTypeOK, NewLink
  <2>3. challenge'[about[p].code] = "consumed"
    BY <1>3, <2>1 DEF LinkTypeOK
  <2>4. \A j \in LinkIds : links[j] # NoLink => links[j].code # about[p].code
    BY <2>1 DEF CodeLinksOnce
  <2>5. UNCHANGED owner
    BY DEF LinkNext, LinkStep, Supersede, Issue, ConsumeCode, CheckTelegram, InsertLink,
       LinkerDies, Rollback, Unlink, CodeExpires, linkVars
  <2> QED
    BY <1>1, <2>2, <2>3, <2>4, <2>5 DEF CodeLinksOnce
<1>4. ASSUME NEW u \in Owners, Unlink(u) PROVE CodeLinksOnce'
  <2>1. \A i \in LinkIds : links'[i] # NoLink =>
          /\ links[i] # NoLink
          /\ links'[i].user = links[i].user /\ links'[i].code = links[i].code
    BY <1>4, UnlinkKeeps
  <2> QED
    BY <1>1, <2>1 DEF CodeLinksOnce
<1> QED
  BY <1>2, <1>3, <1>4, LinkTableSteps
-----------------------------------------------------------------------------
LEMMA LinkInvHolds == LinkSpec => []LinkInv
<1>1. LinkInit => LinkInv
  BY LinkTypeInit DEF LinkInit, LinkInv, RedeemerHoldsCode, OneOwnerPerTelegram,
     CodeLinksOnce, ActiveLink
<1>2. LinkInv /\ [LinkNext]_linkVars => LinkInv'
  BY LinkTypeNext, RedeemerNext, OwnerNext, CodeNext DEF LinkInv
<1> QED
  BY <1>1, <1>2, PTL DEF LinkSpec

\* Two transactions that both found a Telegram account free do not both link it.
THEOREM OneOwnerPerTelegramHolds == LinkSpec => []OneOwnerPerTelegram
<1>1. LinkInv => OneOwnerPerTelegram
  BY DEF LinkInv
<1> QED
  BY <1>1, LinkInvHolds, PTL

\* A code links once, for its own user, whatever overlaps, fails or dies.
THEOREM CodeLinksOnceHolds == LinkSpec => []CodeLinksOnce
<1>1. LinkInv => CodeLinksOnce
  BY DEF LinkInv
<1> QED
  BY <1>1, LinkInvHolds, PTL
-----------------------------------------------------------------------------
(* Live codes *)

Issuing(u) == {p \in Linkers : linking[p] = "issue" /\ about[p].user = u}

FewFor(u) == Cardinality(LiveCodes(u)) + Cardinality(Issuing(u)) <= Cardinality(Linkers)

LEMMA CodesAreFinite ==
  ASSUME NEW u
  PROVE  /\ IsFiniteSet(LiveCodes(u)) /\ Cardinality(LiveCodes(u)) \in Nat
         /\ IsFiniteSet(Issuing(u)) /\ Cardinality(Issuing(u)) \in Nat
         /\ Cardinality(Issuing(u)) <= Cardinality(Linkers)
         /\ Cardinality(Linkers) \in Nat
<1>1. LiveCodes(u) \subseteq Codes /\ Issuing(u) \subseteq Linkers
  BY DEF LiveCodes, Issuing
<1> QED
  BY <1>1, TelegramAssumption, FS_Subset, FS_CardinalityType

\* Fewer codes and fewer calls are few.
LEMMA FewerIsFew ==
  ASSUME NEW u, FewFor(u), LiveCodes(u)' \subseteq LiveCodes(u), Issuing(u)' \subseteq Issuing(u)
  PROVE  FewFor(u)'
<1>1. /\ Cardinality(LiveCodes(u)') <= Cardinality(LiveCodes(u))
      /\ Cardinality(Issuing(u)') <= Cardinality(Issuing(u))
      /\ IsFiniteSet(LiveCodes(u)') /\ IsFiniteSet(Issuing(u)')
  BY CodesAreFinite, FS_Subset
<1>2. Cardinality(LiveCodes(u)') \in Nat /\ Cardinality(Issuing(u)') \in Nat
  BY <1>1, FS_CardinalityType
<1> QED
  BY <1>1, <1>2, CodesAreFinite DEF FewFor

LEMMA FewNext ==
  ASSUME LinkTypeOK, FewLiveCodes, [LinkNext]_linkVars, NEW u \in Owners
  PROVE  FewFor(u)'
<1> USE DEF LinkTypeOK
<1>1. FewFor(u)
  BY DEF FewLiveCodes, FewFor, Issuing
<1>2. ASSUME NEW p \in Linkers, Rollback(p) PROVE FewFor(u)'
  <2>1. LiveCodes(u)' \subseteq LiveCodes(u) /\ Issuing(u)' \subseteq Issuing(u)
    BY <1>2 DEF Rollback, LiveCodes, Issuing
  <2> QED
    BY <1>1, <2>1, FewerIsFew
<1>3. ASSUME NEW p \in Linkers, NEW v \in Owners, Supersede(p, v) PROVE FewFor(u)'
  <2>1. CASE u = v
    <3>1. LiveCodes(u)' = {}
      BY <1>3, <2>1 DEF Supersede, LiveCodes
    <3>2. Issuing(u)' \subseteq Linkers
      BY DEF Issuing
    <3>3. /\ Cardinality(Issuing(u)') \in Nat
          /\ Cardinality(Issuing(u)') <= Cardinality(Linkers)
      BY <3>2, TelegramAssumption, FS_Subset, FS_CardinalityType
    <3> QED
      BY <3>1, <3>3, FS_EmptySet, CodesAreFinite DEF FewFor
  <2>2. CASE u # v
    <3>1. LiveCodes(u)' \subseteq LiveCodes(u) /\ Issuing(u)' \subseteq Issuing(u)
      BY <1>3, <2>2 DEF Supersede, LiveCodes, Issuing
    <3> QED
      BY <1>1, <3>1, FewerIsFew
  <2> QED
    BY <2>1, <2>2
<1>4. ASSUME NEW p \in Linkers, NEW k \in Codes, Issue(p, k) PROVE FewFor(u)'
  <2>1. CASE about[p].user = u
    <3>1. /\ LiveCodes(u)' = LiveCodes(u) \cup {k} /\ k \notin LiveCodes(u)
          /\ Issuing(u)' = Issuing(u) \ {p} /\ p \in Issuing(u)
      BY <1>4, <2>1 DEF Issue, LiveCodes, Issuing
    <3>2. Cardinality(LiveCodes(u) \cup {k}) = Cardinality(LiveCodes(u)) + 1
      BY <3>1, CodesAreFinite, FS_AddElement
    <3>3. Cardinality(Issuing(u) \ {p}) = Cardinality(Issuing(u)) - 1
      BY <3>1, CodesAreFinite, FS_RemoveElement
    <3> QED
      BY <1>1, <3>1, <3>2, <3>3, CodesAreFinite DEF FewFor
  <2>2. CASE about[p].user # u
    <3>1. LiveCodes(u)' \subseteq LiveCodes(u) /\ Issuing(u)' \subseteq Issuing(u)
      BY <1>4, <2>2 DEF Issue, LiveCodes, Issuing
    <3> QED
      BY <1>1, <3>1, FewerIsFew
  <2> QED
    BY <2>1, <2>2
<1>5. ASSUME NEW p \in Linkers, NEW k \in Codes, NEW t \in Telegrams, ConsumeCode(p, k, t)
      PROVE  FewFor(u)'
  <2>1. LiveCodes(u)' \subseteq LiveCodes(u) /\ Issuing(u)' \subseteq Issuing(u)
    BY <1>5 DEF ConsumeCode, LiveCodes, Issuing
  <2> QED
    BY <1>1, <2>1, FewerIsFew
<1>6. ASSUME NEW p \in Linkers, CheckTelegram(p), ~Rollback(p) PROVE FewFor(u)'
  <2>1. LiveCodes(u)' \subseteq LiveCodes(u) /\ Issuing(u)' \subseteq Issuing(u)
    BY <1>6 DEF CheckTelegram, LiveCodes, Issuing
  <2> QED
    BY <1>1, <2>1, FewerIsFew
<1>7. ASSUME NEW p \in Linkers, NEW i \in LinkIds, InsertLink(p, i), ~Rollback(p)
      PROVE  FewFor(u)'
  <2>1. LiveCodes(u)' \subseteq LiveCodes(u) /\ Issuing(u)' \subseteq Issuing(u)
    BY <1>7 DEF InsertLink, LiveCodes, Issuing
  <2> QED
    BY <1>1, <2>1, FewerIsFew
<1>8. ASSUME NEW k \in Codes, CodeExpires(k) PROVE FewFor(u)'
  <2>1. LiveCodes(u)' \subseteq LiveCodes(u) /\ Issuing(u)' \subseteq Issuing(u)
    BY <1>8 DEF CodeExpires, LiveCodes, Issuing
  <2> QED
    BY <1>1, <2>1, FewerIsFew
<1>9. CASE UNCHANGED <<challenge, owner, linking, about>>
  BY <1>1, <1>9, FewerIsFew DEF LiveCodes, Issuing
<1> QED
  BY <1>2, <1>3, <1>4, <1>5, <1>6, <1>7, <1>8, <1>9
     DEF LinkNext, LinkStep, LinkerDies, Unlink, linkVars

\* A user's live codes are never more than the calls that run at once, though
\* createChallenge is no transaction (telegram-link.ts:63).
THEOREM FewLiveCodesHolds == LinkSpec => []FewLiveCodes
<1>1. LinkInit => FewLiveCodes
  <2> SUFFICES ASSUME LinkInit, NEW u \in Owners PROVE FewFor(u)
    BY DEF FewLiveCodes, FewFor, Issuing
  <2>1. LiveCodes(u) = {} /\ Issuing(u) = {}
    BY DEF LinkInit, LiveCodes, Issuing
  <2> QED
    BY <2>1, FS_EmptySet, CodesAreFinite DEF FewFor
<1>2. LinkInv /\ FewLiveCodes /\ [LinkNext]_linkVars => FewLiveCodes'
  BY FewNext DEF LinkInv, FewLiveCodes, FewFor, Issuing
<1> QED
  BY <1>1, <1>2, LinkInvHolds, PTL DEF LinkSpec
=============================================================================

------------------------------ MODULE Sessions ------------------------------
(***************************************************************************)
(* SessionService of packages/auth/src/session.ts over the table sessions. *)
(*                                                                         *)
(* One API process runs several calls at once; a call is cut at each of    *)
(* its awaits on the database:                                             *)
(*   create        INSERT | sign the access token and return               *)
(*   rotate        SELECT by hash | SELECT the user | INSERT and UPDATE in *)
(*                 one transaction | sign and return                       *)
(*                 or, for a revoked row, SELECT by hash | revokeFamily    *)
(* revoke and revokeAllForUser are single statements.  authenticate only   *)
(* reads: it is the predicate Accepts, its reads taken at one moment.      *)
(*                                                                         *)
(* refresh_token_hash is unique, so a session stands for its refresh token *)
(* too; a family is named by the session create made it with.  A client    *)
(* holds a session's tokens once the call that made it has returned, and   *)
(* may present them as often as it likes.                                  *)
(***************************************************************************)
EXTENDS Naturals, FiniteSets

CONSTANTS SessionIds,  \* the ids uuid() returns, numbered as rows are made
          Users,
          Clients,     \* calls in flight at once
          NoSession, NoClaims,
          RefreshTtl, AccessTtl,
          LastTick,    \* bound on the clock
          MaxVersion   \* bound on invalidateIssuedTokens

Row == [user : Users, family : SessionIds, expires : Nat, revoked : BOOLEAN,
        replacedBy : SessionIds \cup {NoSession}]

ASSUME SessionsAssumption ==
  /\ SessionIds \subseteq Nat /\ NoSession \notin SessionIds \cup Row
  /\ NoClaims \notin [ver : Nat, until : Nat]
  /\ RefreshTtl \in Nat /\ AccessTtl \in Nat
  /\ LastTick \in Nat /\ MaxVersion \in Nat

VARIABLES
  sessions,     \* the table: a row per id, NoSession where there is none
  active,       \* users whose users.status is ACTIVE
  claims,       \* ver and expiry of the access token a session's client holds
  version,      \* the process's token version
  tick,
  doing,        \* per call: the step it is at
  subject       \* per call: the session it is about

sessionVars == <<sessions, active, claims, version, tick, doing, subject>>

Claims == [ver : 0 .. MaxVersion, until : Nat]

Step == {"idle", "sign", "owner", "commit", "reuse"}

Exists(s)   == sessions[s] # NoSession
Live(s)     == Exists(s) /\ ~sessions[s].revoked
Fresh(n)    == ~Exists(n) /\ \A m \in SessionIds : m < n => Exists(m)
Unexpired(s) == sessions[s].expires > tick
Family(f)   == {s \in SessionIds : Exists(s) /\ sessions[s].family = f}

\* Every row of S that is not revoked yet becomes so (revoked_at IS NULL).
Revoked(S) ==
  [s \in SessionIds |->
     IF s \in S /\ Live(s) THEN [sessions[s] EXCEPT !.revoked = TRUE]
     ELSE sessions[s]]

NewRow(u, f) == [user |-> u, family |-> f, expires |-> tick + RefreshTtl,
                 revoked |-> FALSE, replacedBy |-> NoSession]

SessionInit ==
  /\ sessions = [s \in SessionIds |-> NoSession]
  /\ active = Users
  /\ claims = [s \in SessionIds |-> NoClaims]
  /\ version = 0
  /\ tick = 0
  /\ doing = [c \in Clients |-> "idle"]
  /\ subject = [c \in Clients |-> NoSession]

Goto(c, step, s) ==
  /\ doing' = [doing EXCEPT ![c] = step]
  /\ subject' = [subject EXCEPT ![c] = s]
-----------------------------------------------------------------------------
(* create *)

\* Mutant: the INSERT is not waited for, and fails.
CreateUnawaited(c, u, s) ==
  /\ doing[c] = "idle"
  /\ Fresh(s)
  /\ Goto(c, "sign", s)
  /\ UNCHANGED <<sessions, active, claims, version, tick>>

Create(c, u, s) ==
  /\ doing[c] = "idle"
  /\ Fresh(s)
  /\ sessions' = [sessions EXCEPT ![s] = NewRow(u, s)]
  /\ Goto(c, "sign", s)
  /\ UNCHANGED <<active, claims, version, tick>>

\* The tail of create and rotate: the client gets both tokens.
Sign(c) ==
  /\ doing[c] = "sign"
  /\ claims' = [claims EXCEPT ![subject[c]] =
                  [ver |-> version, until |-> tick + AccessTtl]]
  /\ Goto(c, "idle", NoSession)
  /\ UNCHANGED <<sessions, active, version, tick>>
-----------------------------------------------------------------------------
(* rotate *)

\* Mutant: revoked_at is left to the UPDATE.
RotateReadUnchecked(c, s) ==
  /\ doing[c] = "idle"
  /\ claims[s] # NoClaims
  /\ Unexpired(s) /\ Goto(c, "owner", s)
  /\ UNCHANGED <<sessions, active, claims, version, tick>>

\* An expired token is refused and changes nothing.
RotateRead(c, s) ==
  /\ doing[c] = "idle"
  /\ claims[s] # NoClaims
  /\ \/ sessions[s].revoked /\ Goto(c, "reuse", s)
     \/ ~sessions[s].revoked /\ Unexpired(s) /\ Goto(c, "owner", s)
  /\ UNCHANGED <<sessions, active, claims, version, tick>>

RotateOwner(c) ==
  /\ doing[c] = "owner"
  /\ IF sessions[subject[c]].user \in active
     THEN Goto(c, "commit", subject[c])
     ELSE Goto(c, "idle", NoSession)
  /\ UNCHANGED <<sessions, active, claims, version, tick>>

\* Mutant: the UPDATE writes replaced_by and not revoked_at.
ReplacedUnrevoked(s, n) ==
  [sessions EXCEPT
     ![n] = NewRow(sessions[s].user, sessions[s].family),
     ![s] = IF @.revoked THEN @ ELSE [@ EXCEPT !.replacedBy = n]]

\* The rows after the transaction that replaces s by n.  The UPDATE asks for
\* revoked_at IS NULL, and nobody looks at the number of rows it changed.
Replaced(s, n) ==
  [sessions EXCEPT
     ![n] = NewRow(sessions[s].user, sessions[s].family),
     ![s] = IF @.revoked THEN @
            ELSE [@ EXCEPT !.revoked = TRUE, !.replacedBy = n]]

RotateCommit(c, n) ==
  /\ doing[c] = "commit"
  /\ Fresh(n)
  /\ sessions' = Replaced(subject[c], n)
  /\ Goto(c, "sign", n)
  /\ UNCHANGED <<active, claims, version, tick>>

\* revokeFamily, after the token of a revoked row was presented.
ReuseDetected(c) ==
  /\ doing[c] = "reuse"
  /\ sessions' = Revoked(Family(sessions[subject[c]].family))
  /\ Goto(c, "idle", NoSession)
  /\ UNCHANGED <<active, claims, version, tick>>
-----------------------------------------------------------------------------
(* revoke, revokeAllForUser *)

Revoke(s) ==
  /\ Live(s)
  /\ sessions' = Revoked({s})
  /\ UNCHANGED <<active, claims, version, tick, doing, subject>>

RevokeAllForUser(u) ==
  /\ sessions' = Revoked({s \in SessionIds : Exists(s) /\ sessions[s].user = u})
  /\ UNCHANGED <<active, claims, version, tick, doing, subject>>
-----------------------------------------------------------------------------
(* authenticate writes nothing: what it answers to the client of s, the     *)
(* token's own expiry first (verifyAccessToken) and the version last.       *)

\* Mutant: the session's family has to be alive, not the session.
AcceptsFamily(s) ==
  /\ claims[s] # NoClaims /\ claims[s].until > tick
  /\ Exists(s) /\ Unexpired(s) /\ \E t \in Family(sessions[s].family) : Live(t)
  /\ sessions[s].user \in active
  /\ claims[s].ver = version

Accepts(s) ==
  /\ claims[s] # NoClaims /\ claims[s].until > tick
  /\ Live(s) /\ Unexpired(s)
  /\ sessions[s].user \in active
  /\ claims[s].ver = version
-----------------------------------------------------------------------------
InvalidateIssuedTokens ==
  /\ version < MaxVersion
  /\ version' = version + 1
  /\ UNCHANGED <<sessions, active, claims, tick, doing, subject>>

\* The process dies with its calls; the version it starts with is zero again.
Restart ==
  /\ version' = 0
  /\ doing' = [c \in Clients |-> "idle"]
  /\ subject' = [c \in Clients |-> NoSession]
  /\ UNCHANGED <<sessions, active, claims, tick>>

\* Nothing under packages/ writes users.status; an operator does.
SetStatus(u) ==
  /\ active' = IF u \in active THEN active \ {u} ELSE active \cup {u}
  /\ UNCHANGED <<sessions, claims, version, tick, doing, subject>>

SessionTick ==
  /\ tick < LastTick
  /\ tick' = tick + 1
  /\ UNCHANGED <<sessions, active, claims, version, doing, subject>>

SessionStep(c) ==
  \/ \E s \in SessionIds, u \in Users : Create(c, u, s)
  \/ Sign(c)
  \/ \E s \in SessionIds : RotateRead(c, s)
  \/ RotateOwner(c)
  \/ \E n \in SessionIds : RotateCommit(c, n)
  \/ ReuseDetected(c)

SessionNext ==
  \/ \E c \in Clients : SessionStep(c)
  \/ \E s \in SessionIds : Revoke(s)
  \/ \E u \in Users : RevokeAllForUser(u) \/ SetStatus(u)
  \/ InvalidateIssuedTokens
  \/ Restart
  \/ SessionTick

SessionSpec == SessionInit /\ [][SessionNext]_sessionVars
-----------------------------------------------------------------------------
SessionTypeOK ==
  /\ sessions \in [SessionIds -> Row \cup {NoSession}]
  /\ active \subseteq Users
  /\ claims \in [SessionIds -> Claims \cup {NoClaims}]
  /\ \A s \in SessionIds : claims[s] # NoClaims => Exists(s)
  /\ version \in 0 .. MaxVersion
  /\ tick \in 0 .. LastTick
  /\ doing \in [Clients -> Step]
  /\ subject \in [Clients -> SessionIds \cup {NoSession}]
  /\ \A c \in Clients : doing[c] # "idle" => subject[c] \in SessionIds /\ Exists(subject[c])

\* A session rotate made that replaces none: the UPDATE of its transaction
\* matched no row, because the old one was revoked after rotate had read it.
Stray(s) ==
  /\ Exists(s) /\ sessions[s].family # s
  /\ \A r \in SessionIds : Exists(r) => sessions[r].replacedBy # s

HasStray(f) == \E s \in Family(f) : Stray(s)

\* A family grows as a chain: unless some rotation's UPDATE matched nothing,
\* one session of it at most can still be used, however calls interleave.
FamilyIsLinear ==
  \A f \in SessionIds : ~HasStray(f) =>
    \A s, t \in Family(f) : Live(s) /\ Live(t) => s = t

Dead(f)     == Family(f) # {} /\ \A s \in Family(f) : ~Live(s)
Rotating(f) == {c \in Clients : doing[c] \in {"owner", "commit"} /\ subject[c] \in Family(f)}

\* After a logout or a detected reuse has killed a family, only a rotation that
\* had read its token before can still bring it back, by ending, and no other
\* one begins: with the last of them the family is dead for good.
LogoutSettles ==
  [][\A f \in SessionIds : Dead(f) =>
       /\ Rotating(f)' \subseteq Rotating(f)
       /\ Dead(f)' \/ Rotating(f)' # Rotating(f)]_sessionVars

\* An access token authenticate refuses is refused ever after, whatever is
\* rotated, revoked, bumped or waited for, as long as its owner is not made
\* ACTIVE again and the token is not from before a restart that took the
\* version back.
RefusalIsFinal ==
  [][\A s \in SessionIds :
       /\ claims[s] # NoClaims /\ ~Accepts(s)
       /\ active' \subseteq active
       /\ version <= version' /\ claims[s].ver <= version
       => ~Accepts(s)']_sessionVars

\* session.ts:8: revocation is immediate, so that "log out all devices" really
\* means it.  A family without a live session gets none any more.
LoggedOutStaysOut ==
  [][\A f \in SessionIds : Dead(f) => Dead(f)']_sessionVars

\* session.ts:5: refresh tokens are single-use.  Of the sessions made by
\* presenting refresh tokens of a family, one can be used.
OneLivePerFamily ==
  \A f \in SessionIds : \A s, t \in Family(f) : Live(s) /\ Live(t) => s = t
=============================================================================

----------------------------- MODULE AccessRules -----------------------------
(***************************************************************************)
(* Who may touch which rows: the role matrix of packages/shared/src/       *)
(* permissions.ts, the checks of packages/auth/src/rbac.ts, the scopes of  *)
(* packages/database/src/scope.ts and the scoped statements of             *)
(* packages/database/src/repository.ts.                                    *)
(*                                                                         *)
(* A condition is what WHERE says: alternatives, joined by OR at the top   *)
(* level, each of which compares tenant_id or does not and admits some     *)
(* rows by whatever else it says.  AND binds tighter than OR, so what is   *)
(* put in front of a condition with AND joins its first alternative.       *)
(*                                                                         *)
(* Permissions that no rule tells apart stand as one: "self" for the ones  *)
(* every role has, "user:read" for the ones finance shares with support,   *)
(* "support", "operations", "finance" and "administration" for what else a *)
(* tier adds.                                                              *)
(***************************************************************************)
EXTENDS Decisions, FiniteSets, Sequences

CONSTANTS Tenants, Rows, RowTenant,  \* RowTenant[r] is the tenant of row r
          Grants,      \* explicit grants of a principal
          PermissionsAsked,  \* permissions services ask for, known or not
          Conditions   \* conditions that callers write

Permissions == {"self", "user:read", "support", "operations", "finance", "audit:read",
                "administration", "pii:read", "admin:grant_role", "kill_switch:manage",
                "wallet:adjust", "payment:refund", "system:superuser"}

Roles == {"USER", "SUPPORT", "OPERATOR", "FINANCE_ADMIN", "ADMIN", "SUPER_ADMIN"}

FinancePermissions ==
  {"self", "user:read", "finance", "wallet:adjust", "payment:refund", "audit:read"}
OperatorPermissions == {"self", "user:read", "support", "operations"}
AdminPermissions ==
  OperatorPermissions \cup FinancePermissions
    \cup {"administration", "pii:read", "admin:grant_role", "kill_switch:manage"}

RolePermissions(role) ==
  CASE role = "USER"          -> {"self"}
    [] role = "SUPPORT"       -> {"self", "user:read", "support"}
    [] role = "OPERATOR"      -> OperatorPermissions
    [] role = "FINANCE_ADMIN" -> FinancePermissions
    [] role = "ADMIN"         -> AdminPermissions
    [] role = "SUPER_ADMIN"   -> AdminPermissions \cup {"system:superuser"}

\* A principal has a role, a tenant, grants and the platform staff flag.
Can(p, permission) == permission \in RolePermissions(p.role) \cup p.grants

TenantAccess(p, tenant) ==
  IF p.staff THEN Can(p, "system:superuser") \/ Can(p, "audit:read")
  ELSE p.tenant = tenant

\* assertPermission fails for a permission that is not in the catalogue.
Authorized(p, tenant, permission) ==
  permission \in Permissions /\ Can(p, permission) /\ TenantAccess(p, tenant)
-----------------------------------------------------------------------------
(* Statements over one table *)

\* "raw" is a service's own SQL, run by scopedQuery.
Verbs == {"find", "list", "update", "delete", "raw"}

\* How tenant_id is compared: "own" is = $1, "other" is <> $1, and "any" is a
\* test no tenant fails, such as IS NOT NULL.
Tests == {"own", "other", "any"}

Alternatives == [tests : SUBSET Tests, rows : SUBSET Rows]

ASSUME ConditionsAssumption == Conditions \subseteq Seq(Alternatives) \ {<<>>}

Admitted(alternative, tenant) ==
  {r \in Rows \cap alternative.rows :
     /\ "own" \in alternative.tests => RowTenant[r] = tenant
     /\ "other" \in alternative.tests => RowTenant[r] # tenant}

\* Mutant: AND tenant_id = $1 comes after the caller's condition.
InListLast(condition) ==
  [condition EXCEPT ![Len(condition)].tests = @ \cup {"own"}]

\* WHERE tenant_id = $1 AND, and the caller's condition without parentheses.
InList(condition) == [condition EXCEPT ![1].tests = @ \cup {"own"}]

\* WHERE tenant_id = $1 AND id = $2; the platform finds by id alone.
ById(platform, id) ==
  <<[tests |-> IF platform THEN {} ELSE {"own"}, rows |-> {id}]>>

\* A statement has a verb, a scope that may be the platform's for find, a row
\* id, a caller's condition, and a table that TENANT_SCOPED_TABLES lists or not.
Where(s) ==
  CASE s.verb = "raw"  -> s.condition
    [] s.verb = "list" -> InList(s.condition)
    [] OTHER           -> ById(s.platform, s.row)

\* assertScopedSql throws for a listed table when no alternative has a tenant_id
\* with an operator after it; which operator, it does not look at.  find does
\* not ask it when it works for the platform.
ScopeAsserted(s) ==
  \/ s.platform \/ ~s.listed
  \/ \E i \in DOMAIN Where(s) : Where(s)[i].tests # {}

\* The rows a statement reads or writes.
Touches(s) ==
  IF ScopeAsserted(s)
  THEN UNION {Admitted(Where(s)[i], s.requested) : i \in DOMAIN Where(s)}
  ELSE {}
-----------------------------------------------------------------------------
AccessQuestions ==
  {s \in [kind : {"access"}, role : Roles, tenant : Tenants, staff : BOOLEAN,
          grants : Grants, requested : Tenants, permission : PermissionsAsked,
          verb : Verbs, platform : BOOLEAN, row : Rows, listed : BOOLEAN,
          condition : Conditions] :
     s.platform => s.verb = "find"}

\* Rows of another tenant than the statement's that the caller's own condition
\* lets in: whatever the alternatives after the first say, for list.
LeftOpen(s) ==
  {r \in Rows : /\ RowTenant[r] # s.requested
                /\ \E i \in 2 .. Len(s.condition) :
                     r \in Admitted(s.condition[i], s.requested)}

\* How far the tenant predicate of the repository and the textual check behind it
\* reach.  No statement of the repository is refused; one by id stays in its
\* tenant; a list leaves it for exactly the rows the second and later alternatives
\* of the caller's condition admit; and raw SQL over a listed table leaves it only
\* if an alternative compares tenant_id and one does not pin it.  So an authorised
\* call touches a row of another tenant than the principal's in these ways only,
\* for the platform, or as staff with an audit or superuser permission.
TenantLeftOnlyByCondition ==
  question.kind = "access" =>
    LET s == question
        foreign == {r \in Touches(s) : RowTenant[r] # s.requested}
        loose == /\ \E i \in DOMAIN s.condition : "own" \notin s.condition[i].tests
                 /\ s.listed => \E i \in DOMAIN s.condition : s.condition[i].tests # {}
    IN  /\ s.verb # "raw" => ScopeAsserted(s)
        /\ s.verb \in {"find", "update", "delete"} /\ ~s.platform => foreign = {}
        /\ s.verb = "list" => foreign = LeftOpen(s)
        /\ s.verb = "raw" /\ foreign # {} => loose
        /\ Authorized(s, s.requested, s.permission)
             /\ (\E r \in Touches(s) : RowTenant[r] # s.tenant) =>
               \/ s.platform
               \/ s.staff /\ (Can(s, "audit:read") \/ Can(s, "system:superuser"))
               \/ s.verb = "list" /\ LeftOpen(s) # {}
               \/ s.verb = "raw" /\ loose
=============================================================================

---------------------------- MODULE AccessScope ----------------------------
(***************************************************************************)
(* Who may see whose records: the tenant under which a governed request is *)
(* recorded, and the tenant to which a reading is limited.  The two are    *)
(* resolved by different code, from the same token and headers, and each   *)
(* deployment switches token verification, JWT-only tenants and isolation. *)
(*                                                                         *)
(* A request is a record: whether it bears a token and whether that token  *)
(* verifies, its tenant, team and groups, what headers and body say.  ""   *)
(* is absent.                                                              *)
(***************************************************************************)
EXTENDS Integers, FiniteSets

CONSTANTS
    Requests,    \* a set of records with the fields below
    MaxRows      \* records written in one behaviour: the bound of model
                 \* checking (a reading looks at each by itself)

ASSUME RequestAssumption ==
    \A r \in Requests : /\ r.token \in {"none", "bad", "good"}
                        /\ r.body_team # ""

VARIABLES
    mode,        \* OIDC_JWT_VERIFY, TENANT_JWT_ONLY, TENANT_ISOLATION
    records,     \* decisions and proposals: kind, tenant, the request behind
    seen         \* the last reading, if any: whose, and what it returned

scopeVars == <<mode, records, seen>>

-----------------------------------------------------------------------------
(* Python's "or" on strings. *)
Or(a, b) == IF a # "" THEN a ELSE b

Errors == {"401", "400", "403"}

(* extract_bearer_claims: a token that does not decode counts as none;     *)
(* without verification its signature is not looked at.                    *)
Decoded(r) == r.token = "good" \/ (r.token = "bad" /\ ~mode.verify)
Claim(r, field) == IF Decoded(r) THEN r[field] ELSE ""

(* require_bearer_claims fails without a token that verifies. *)
Authentic(r) == mode.verify /\ r.token = "good"

(* resolve_workload_identity, and the tenant persist_evaluation records.   *)
WorkloadTenant(r) ==
    IF mode.jwt_only
    THEN IF ~Authentic(r) THEN "401"
         ELSE Or(Or(r.tenant, Or(r.team, r.group_team)), "401")
    ELSE Or(Claim(r, "tenant"),
            Or(r.x_ai_tenant,
               Or(r.body_tenant,
                  Or(Claim(r, "team"),
                     Or(r.x_ai_team, Or(r.group_team, r.body_team))))))

TeamBeforeHeader(r) ==
    IF mode.jwt_only
    THEN IF ~Authentic(r) THEN "401" ELSE Or(r.tenant, r.team)
    ELSE Or(Claim(r, "tenant"),
            Or(Claim(r, "team"), Or(r.x_ai_tenant, r.x_ai_team)))

HeaderFirst(r) ==
    IF mode.jwt_only /\ ~Authentic(r) THEN "401"
    ELSE Or(r.x_ai_tenant, Or(Claim(r, "tenant"), Or(Claim(r, "team"), r.x_ai_team)))

(* resolve_request_tenant: for readings; it does not look at groups. *)
RequestTenant(r) ==
    IF mode.jwt_only
    THEN IF ~Authentic(r) THEN "401" ELSE Or(r.tenant, r.team)
    ELSE Or(Claim(r, "tenant"),
            Or(r.x_ai_tenant, Or(Claim(r, "team"), r.x_ai_team)))

(* _tenant_scope of decisions and approvals ("": no filter), and the same  *)
(* with a fallback for proposals.                                          *)
DecisionScope(r) ==
    IF mode.isolation THEN Or(RequestTenant(r), "400") ELSE ""

ProposalScope(r, body_tenant) ==
    IF mode.isolation THEN Or(Or(RequestTenant(r), body_tenant), "400")
    ELSE body_tenant

CrossTenant(r) == r.roles \cap {"platform-admin", "auditor"} # {}

(* tenant_for_request *)
ListScope(r, requested) ==
    LET own == RequestTenant(r)
    IN IF ~mode.verify THEN requested
       ELSE IF ~Authentic(r) THEN "401"
       ELSE IF CrossTenant(r) THEN Or(requested, own)
       ELSE IF own = "" THEN (IF mode.isolation THEN "400" ELSE requested)
       ELSE IF requested \notin {"", own} THEN "403"
       ELSE own

(* require_roles; without verification everybody is "demo". *)
RoleCheck(r, roles) ==
    IF ~mode.verify THEN ""
    ELSE IF ~Authentic(r) THEN "401"
    ELSE IF r.roles \cap roles = {} THEN "403"
    ELSE ""

Readers == {"tenant-admin", "platform-admin", "auditor", "viewer", "approver"}
Creators == {"tenant-admin", "platform-admin"}

ProposalTenant(r) ==
    Or(RoleCheck(r, Creators),
       Or(ListScope(r, r.body_tenant),
          Or(ProposalScope(r, r.body_tenant), Or(r.body_tenant, "platform"))))

ReadScope(kind, r) ==
    IF kind = "decision" THEN DecisionScope(r)
    ELSE Or(RoleCheck(r, Readers), Or(ListScope(r, ""), ProposalScope(r, "")))

WriteTenant(kind, r) ==
    IF kind = "decision" THEN WorkloadTenant(r) ELSE ProposalTenant(r)

-----------------------------------------------------------------------------
RecordKinds == {"decision", "proposal"}

ScopeInit ==
    /\ mode \in [verify: BOOLEAN, jwt_only: BOOLEAN, isolation: BOOLEAN]
    /\ records = {}
    /\ seen = {}

(* POST /governance/evaluate, POST /remediation/proposals *)
Record(kind, r) ==
    /\ Cardinality(records) < MaxRows
    /\ WriteTenant(kind, r) \notin Errors
    /\ records' = records \cup {[kind |-> kind, tenant |-> WriteTenant(kind, r),
                                 by |-> r]}
    /\ UNCHANGED <<mode, seen>>

Within(scope, row) == scope = "" \/ row.tenant = scope

(* GET by list or by id; a record outside the scope is not found. *)
Read(kind, r) ==
    LET scope == ReadScope(kind, r)
    IN /\ scope \notin Errors
       /\ seen' = {[by |-> r, rows |-> {x \in records : /\ x.kind = kind
                                                        /\ Within(scope, x)}]}
       /\ UNCHANGED <<mode, records>>

ScopeNext == \E kind \in RecordKinds, r \in Requests : Record(kind, r) \/ Read(kind, r)

ScopeSpec == ScopeInit /\ [][ScopeNext]_scopeVars

-----------------------------------------------------------------------------
(* With JWT-only tenants and isolation, what headers and bodies say gives  *)
(* nobody another tenant's records: a reader sees a decision only if its   *)
(* own verified token and the writer's name the same tenant.  Proposals    *)
(* likewise, but for the roles that work across tenants.                   *)
TenantsKeptApart ==
    mode.verify /\ mode.jwt_only /\ mode.isolation =>
       \A reading \in seen : \A x \in reading.rows :
          \/ x.kind = "proposal" /\ (CrossTenant(reading.by) \/ CrossTenant(x.by))
          \/ /\ reading.by.token = "good" /\ x.by.token = "good"
             /\ Or(reading.by.tenant, reading.by.team) = x.tenant
             /\ Or(x.by.tenant, Or(x.by.team, x.by.group_team)) = x.tenant

(* A caller whose token or headers name its tenant can read what it wrote, *)
(* although writing and reading resolve the tenant separately.  (A tenant  *)
(* that only the body or, with JWT-only tenants, a group names is not      *)
(* found again.)                                                           *)
Named(r) == IF mode.jwt_only THEN Or(r.tenant, r.team) # ""
            ELSE r.body_tenant = "" /\ RequestTenant(r) # ""

OwnDecisionsReadable ==
    \A x \in records :
       x.kind = "decision" /\ Named(x.by) => Within(DecisionScope(x.by), x)
=============================================================================

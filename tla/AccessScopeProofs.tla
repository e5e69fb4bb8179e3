------------------------- MODULE AccessScopeProofs -------------------------
(***************************************************************************)
(* Proofs about access scopes, for every set of requests: whatever tokens, *)
(* headers and bodies say.  A record carries the tenant its own request    *)
(* resolved to, and a reading holds only records within the scope its own  *)
(* request resolved to, because a deployment does not switch its mode.     *)
(***************************************************************************)
EXTENDS AccessScope, TLAPS

RecordedAsResolved ==
    \A x \in records :
       /\ x.kind \in RecordKinds /\ x.by \in Requests
       /\ x.tenant = WriteTenant(x.kind, x.by)
       /\ x.tenant \notin Errors

ReadWithinScope ==
    \A reading \in seen :
       /\ reading.by \in Requests
       /\ \A x \in reading.rows :
             /\ x \in records
             /\ ReadScope(x.kind, reading.by) \notin Errors
             /\ Within(ReadScope(x.kind, reading.by), x)

ScopeInv ==
    /\ mode \in [verify: BOOLEAN, jwt_only: BOOLEAN, isolation: BOOLEAN]
    /\ RecordedAsResolved
    /\ ReadWithinScope

(* Who writes and who reads is decided by the mode and the request alone.  *)
LEMMA ScopesDoNotMove ==
    ASSUME mode' = mode, NEW kind, NEW r
    PROVE  /\ WriteTenant(kind, r)' = WriteTenant(kind, r)
           /\ ReadScope(kind, r)' = ReadScope(kind, r)
BY DEF WriteTenant, WorkloadTenant, ProposalTenant, ReadScope, DecisionScope,
       ProposalScope, ListScope, RoleCheck, RequestTenant, Authentic, Claim,
       Decoded

(* POST /governance/evaluate and POST /remediation/proposals. *)
LEMMA RecordKeeps ==
    ASSUME ScopeInv, NEW kind \in RecordKinds, NEW r \in Requests, Record(kind, r)
    PROVE  ScopeInv'
<1> DEFINE row == [kind |-> kind, tenant |-> WriteTenant(kind, r), by |-> r]
<1>1. /\ records' = records \cup {row} /\ WriteTenant(kind, r) \notin Errors
      /\ mode' = mode /\ seen' = seen
  BY DEF Record
<1>2. RecordedAsResolved'
  <2> SUFFICES ASSUME NEW x \in records'
               PROVE  /\ x.kind \in RecordKinds /\ x.by \in Requests
                      /\ x.tenant = WriteTenant(x.kind, x.by)'
                      /\ x.tenant \notin Errors
    BY DEF RecordedAsResolved
  <2>1. WriteTenant(x.kind, x.by)' = WriteTenant(x.kind, x.by)
    BY <1>1, ScopesDoNotMove
  <2>2. CASE x \in records
    BY <2>1, <2>2 DEF ScopeInv, RecordedAsResolved
  <2>3. CASE x = row
    BY <1>1, <2>1, <2>3
  <2> QED BY <1>1, <2>2, <2>3
<1>3. ReadWithinScope'
  <2> SUFFICES ASSUME NEW reading \in seen
               PROVE  /\ reading.by \in Requests
                      /\ \A x \in reading.rows :
                            /\ x \in records'
                            /\ ReadScope(x.kind, reading.by)' \notin Errors
                            /\ Within(ReadScope(x.kind, reading.by)', x)
    BY <1>1 DEF ReadWithinScope, Within
  <2>1. \A x : ReadScope(x.kind, reading.by)' = ReadScope(x.kind, reading.by)
    BY <1>1, ScopesDoNotMove
  <2> QED BY <1>1, <2>1 DEF ScopeInv, ReadWithinScope
<1> QED BY <1>1, <1>2, <1>3 DEF ScopeInv

(* GET of a list or of one record. *)
LEMMA ReadKeeps ==
    ASSUME ScopeInv, NEW kind \in RecordKinds, NEW r \in Requests, Read(kind, r)
    PROVE  ScopeInv'
<1> DEFINE reading == [by |-> r, rows |-> {x \in records :
                         x.kind = kind /\ Within(ReadScope(kind, r), x)}]
<1>1. /\ seen' = {reading} /\ ReadScope(kind, r) \notin Errors
      /\ mode' = mode /\ records' = records
  BY DEF Read
<1>2. RecordedAsResolved'
  <2>1. \A x : WriteTenant(x.kind, x.by)' = WriteTenant(x.kind, x.by)
    BY <1>1, ScopesDoNotMove
  <2> QED BY <1>1, <2>1 DEF ScopeInv, RecordedAsResolved
<1>3. ReadWithinScope'
  <2>1. \A x : ReadScope(x.kind, r)' = ReadScope(x.kind, r)
    BY <1>1, ScopesDoNotMove
  <2>2. /\ reading.by = r
        /\ \A x \in reading.rows : /\ x \in records /\ x.kind = kind
                                   /\ Within(ReadScope(kind, r), x)
    OBVIOUS
  <2> QED BY <1>1, <2>1, <2>2 DEF ReadWithinScope, Within
<1> QED BY <1>1, <1>2, <1>3 DEF ScopeInv

LEMMA ScopeInvariant == ScopeSpec => []ScopeInv
<1>1. ScopeInit => ScopeInv
  BY DEF ScopeInit, ScopeInv, RecordedAsResolved, ReadWithinScope
<1>2. ASSUME ScopeInv, [ScopeNext]_scopeVars PROVE ScopeInv'
  <2>1. CASE ScopeNext
    BY <1>2, <2>1, RecordKeeps, ReadKeeps DEF ScopeNext
  <2>2. CASE UNCHANGED scopeVars
    <3>1. \A x : WriteTenant(x.kind, x.by)' = WriteTenant(x.kind, x.by)
      BY <2>2, ScopesDoNotMove DEF scopeVars
    <3>2. \A x, r : ReadScope(x.kind, r)' = ReadScope(x.kind, r)
      BY <2>2, ScopesDoNotMove DEF scopeVars
    <3>3. RecordedAsResolved'
      BY <1>2, <2>2, <3>1 DEF ScopeInv, RecordedAsResolved, scopeVars
    <3>4. ReadWithinScope'
      <4>1. seen' = seen /\ records' = records
        BY <2>2 DEF scopeVars
      <4>2. SUFFICES ASSUME NEW reading \in seen
                     PROVE  /\ reading.by \in Requests
                            /\ \A x \in reading.rows :
                                 /\ x \in records
                                 /\ ReadScope(x.kind, reading.by)' \notin Errors
                                 /\ Within(ReadScope(x.kind, reading.by)', x)
        BY <4>1 DEF ReadWithinScope, Within
      <4> QED BY <1>2, <3>2 DEF ScopeInv, ReadWithinScope
    <3> QED BY <1>2, <2>2, <3>3, <3>4 DEF ScopeInv, scopeVars
  <2> QED BY <1>2, <2>1, <2>2
<1> QED BY <1>1, <1>2, PTL DEF ScopeSpec

-----------------------------------------------------------------------------
(* Where only tokens name tenants, a reader's scope is the tenant of its   *)
(* own verified token, unless its role works across tenants.               *)
LEMMA ScopeIsOwnTenant ==
    ASSUME mode.verify, mode.jwt_only, mode.isolation,
           NEW kind \in RecordKinds, NEW r \in Requests,
           ReadScope(kind, r) \notin Errors,
           kind = "decision" \/ ~CrossTenant(r)
    PROVE  /\ r.token = "good" /\ Or(r.tenant, r.team) # ""
           /\ ReadScope(kind, r) = Or(r.tenant, r.team)
<1>1. RequestTenant(r) = IF r.token # "good" THEN "401" ELSE Or(r.tenant, r.team)
  BY DEF RequestTenant, Authentic
<1>2. CASE kind = "decision"
  BY <1>1, <1>2 DEF ReadScope, DecisionScope, Or, Errors
<1>3. CASE kind = "proposal"
  <2>1. RoleCheck(r, Readers) \in {"", "401", "403"}
    BY DEF RoleCheck
  <2>2. ReadScope(kind, r) =
          Or(RoleCheck(r, Readers), Or(ListScope(r, ""), ProposalScope(r, "")))
    BY <1>3 DEF ReadScope
  <2>3. RoleCheck(r, Readers) = ""
    BY <2>1, <2>2 DEF Or, Errors
  <2>4. r.token = "good"
    BY <2>3 DEF RoleCheck, Authentic
  <2>5. ListScope(r, "") = IF RequestTenant(r) = "" THEN "400" ELSE RequestTenant(r)
    BY <1>3, <2>4 DEF ListScope, Authentic
  <2> QED BY <1>1, <2>2, <2>3, <2>4, <2>5 DEF Or, Errors
<1> QED BY <1>2, <1>3 DEF RecordKinds

(* And a record carries the tenant of its writer's verified token. *)
LEMMA RecordedUnderOwnTenant ==
    ASSUME mode.verify, mode.jwt_only, mode.isolation,
           NEW kind \in RecordKinds, NEW r \in Requests,
           WriteTenant(kind, r) \notin Errors,
           kind = "decision" \/ ~CrossTenant(r)
    PROVE  /\ r.token = "good"
           /\ WriteTenant(kind, r) = Or(r.tenant, Or(r.team, r.group_team))
<1>1. CASE kind = "decision"
  BY <1>1 DEF WriteTenant, WorkloadTenant, Authentic, Or, Errors
<1>2. CASE kind = "proposal"
  <2>1. RoleCheck(r, Creators) \in {"", "401", "403"}
    BY DEF RoleCheck
  <2>2. WriteTenant(kind, r) =
          Or(RoleCheck(r, Creators),
             Or(ListScope(r, r.body_tenant),
                Or(ProposalScope(r, r.body_tenant), Or(r.body_tenant, "platform"))))
    BY <1>2 DEF WriteTenant, ProposalTenant
  <2>3. RoleCheck(r, Creators) = ""
    BY <2>1, <2>2 DEF Or, Errors
  <2>4. r.token = "good"
    BY <2>3 DEF RoleCheck, Authentic
  <2>5. RequestTenant(r) = Or(r.tenant, r.team)
    BY <2>4 DEF RequestTenant, Authentic
  <2>6. ListScope(r, r.body_tenant) =
          IF RequestTenant(r) = "" THEN "400"
          ELSE IF r.body_tenant \notin {"", RequestTenant(r)} THEN "403"
          ELSE RequestTenant(r)
    BY <1>2, <2>4 DEF ListScope, Authentic
  <2>7. RequestTenant(r) # "" /\ WriteTenant(kind, r) = RequestTenant(r)
    BY <2>2, <2>3, <2>6 DEF Or, Errors
  <2> QED BY <2>4, <2>5, <2>7 DEF Or
<1> QED BY <1>1, <1>2 DEF RecordKinds

(* Whatever headers and bodies say, nobody reads another tenant's records  *)
(* where only tokens name tenants (resolve_workload_identity,              *)
(* resolve_request_tenant, tenant_for_request, _tenant_scope).             *)
THEOREM TenantsStayApart == ScopeSpec => []TenantsKeptApart
<1>1. ASSUME ScopeInv PROVE TenantsKeptApart
  <2>0. \A reading \in seen : \A x \in reading.rows :
           x.kind \in {"decision", "proposal"}
    BY <1>1 DEF ScopeInv, ReadWithinScope, RecordedAsResolved, RecordKinds
  <2> SUFFICES ASSUME mode.verify, mode.jwt_only, mode.isolation,
                      NEW reading \in seen, NEW x \in reading.rows,
                      x.kind = "decision" \/ (~CrossTenant(reading.by) /\ ~CrossTenant(x.by))
               PROVE  /\ reading.by.token = "good" /\ x.by.token = "good"
                      /\ Or(reading.by.tenant, reading.by.team) = x.tenant
                      /\ Or(x.by.tenant, Or(x.by.team, x.by.group_team)) = x.tenant
    BY <2>0 DEF TenantsKeptApart
  <2>1. /\ reading.by \in Requests /\ x \in records
        /\ ReadScope(x.kind, reading.by) \notin Errors
        /\ Within(ReadScope(x.kind, reading.by), x)
    BY <1>1 DEF ScopeInv, ReadWithinScope
  <2>2. /\ x.kind \in RecordKinds /\ x.by \in Requests
        /\ x.tenant = WriteTenant(x.kind, x.by) /\ x.tenant \notin Errors
    BY <1>1, <2>1 DEF ScopeInv, RecordedAsResolved
  <2>3. /\ reading.by.token = "good"
        /\ Or(reading.by.tenant, reading.by.team) # ""
        /\ ReadScope(x.kind, reading.by) = Or(reading.by.tenant, reading.by.team)
    BY <2>1, <2>2, ScopeIsOwnTenant
  <2>4. /\ x.by.token = "good"
        /\ x.tenant = Or(x.by.tenant, Or(x.by.team, x.by.group_team))
    BY <2>2, RecordedUnderOwnTenant
  <2> QED BY <2>1, <2>3, <2>4 DEF Within
<1> QED BY ScopeInvariant, <1>1, PTL

(* The two resolvers agree for every caller whose token or headers name    *)
(* its tenant.                                                             *)
THEOREM OwnDecisionsAreReadable == ScopeSpec => []OwnDecisionsReadable
<1>1. ASSUME ScopeInv PROVE OwnDecisionsReadable
  <2> SUFFICES ASSUME NEW x \in records, x.kind = "decision", Named(x.by)
               PROVE  Within(DecisionScope(x.by), x)
    BY DEF OwnDecisionsReadable
  <2>1. x.tenant = WorkloadTenant(x.by) /\ x.tenant \notin Errors
    BY <1>1 DEF ScopeInv, RecordedAsResolved, WriteTenant
  <2>2. CASE ~mode.isolation
    BY <2>2 DEF DecisionScope, Within
  <2>3. CASE mode.isolation /\ mode.jwt_only
    <3>1. Authentic(x.by)
      BY <2>1, <2>3 DEF WorkloadTenant, Errors
    <3> QED BY <2>1, <2>3, <3>1
            DEF Named, DecisionScope, RequestTenant, WorkloadTenant, Or, Within
  <2>4. CASE mode.isolation /\ ~mode.jwt_only
    BY <2>1, <2>4
       DEF Named, DecisionScope, RequestTenant, WorkloadTenant, Or, Within
  <2> QED BY <2>2, <2>3, <2>4
<1> QED BY ScopeInvariant, <1>1, PTL
=============================================================================

----------------------------- MODULE MCPlatform -----------------------------
(***************************************************************************)
(* The store's schema, the capability contracts, the quota counters and    *)
(* the access scopes on small instances.  They share no state, so one of   *)
(* them, the part, moves in a behaviour and the others rest: the states of *)
(* the four add up.                                                        *)
(***************************************************************************)
EXTENDS SchemaMigrations, CapabilityContracts, QuotaState, AccessScope, TLC

CONSTANTS a1, a2, t1   \* contracts: two of the agent, one of a tool

VARIABLE part

Planner == "planner"
ContractNames == (a1 :> Planner) @@ (a2 :> Planner) @@ (t1 :> "search")
ListedTools == (a1 :> {"search"}) @@ (a2 :> {})
RegistryImages == {<<a1, t1>>, <<a2>>}

(* Tokens with and without tenant, team and group; headers and bodies that *)
(* contradict them.                                                        *)
Bearers ==
    [token: {"good"}, tenant: {"", "acme"}, team: {"", "acme"},
     group_team: {"umbra"}, roles: {{"tenant-admin"}}]
    \cup [token: {"none"}, tenant: {""}, team: {""}, group_team: {"umbra"},
          roles: {{}}]
    \cup [token: {"bad"}, tenant: {"umbra"}, team: {"acme"}, group_team: {""},
          roles: {{"tenant-admin"}}]
    \cup [token: {"good"}, tenant: {"acme"}, team: {""}, group_team: {""},
          roles: {{}, {"platform-admin"}}]

SomeRequests ==
    {[token |-> b.token, tenant |-> b.tenant, team |-> b.team,
      group_team |-> b.group_team, roles |-> b.roles,
      x_ai_tenant |-> h, x_ai_team |-> "acme",
      body_tenant |-> t, body_team |-> "acme"] :
        b \in Bearers, h \in {"", "umbra"}, t \in {"", "umbra"}}

AtRest == [verify |-> FALSE, jwt_only |-> FALSE, isolation |-> FALSE]

PlatformInit ==
    /\ part \in {"schema", "contracts", "quota", "scope"}
    /\ SchemaInit /\ (part # "schema" => dialect = "sqlite" /\ ~Upgradable /\ ledger = {})
    /\ ContractsInit /\ (part # "contracts" => engine = "sqlite")
    /\ QuotaInit
    /\ ScopeInit /\ (part # "scope" => mode = AtRest)

SchemaPart(A) == /\ part = "schema" /\ A
                 /\ UNCHANGED <<part, contractVars, quotaVars, scopeVars>>

PlatformNext ==
    \/ SchemaPart(SchemaNext)
    \/ part = "contracts" /\ ContractsNext
       /\ UNCHANGED <<part, schemaVars, quotaVars, scopeVars>>
    \/ part = "quota" /\ QuotaNext
       /\ UNCHANGED <<part, schemaVars, contractVars, scopeVars>>
    \/ part = "scope" /\ ScopeNext
       /\ UNCHANGED <<part, schemaVars, contractVars, quotaVars>>

platformVars == <<part, schemaVars, contractVars, quotaVars, scopeVars>>

PlatformSpec ==
    /\ PlatformInit /\ [][PlatformNext]_platformVars
    /\ \A s \in Stores : WF_platformVars(SchemaPart(Advance(s)))
=============================================================================

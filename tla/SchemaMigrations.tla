-------------------------- MODULE SchemaMigrations --------------------------
(***************************************************************************)
(* Opening the decision store: every process creates the base schema, then *)
(* applies the migrations its ledger (the table schema_migrations) lacks,  *)
(* then insists that the ledger is complete.  Several processes may open   *)
(* one database at once, any of them may die between two statements, and   *)
(* the database may have been left by an older release.                    *)
(*                                                                         *)
(* The schema is a set of facts: a table, a column that some release       *)
(* added, an index or a foreign key exists; every row has a tenant.  A     *)
(* step executes one statement.                                            *)
(***************************************************************************)
EXTENDS Integers, Sequences

CONSTANTS
    Stores,      \* processes that open the store
    Dialects,    \* "postgres", "sqlite"
    Origins,     \* the database may be one that was migrated this far
    MaxCrashes   \* deaths and disturbances in one behaviour: a bound of
                 \* model checking

VARIABLES
    dialect,
    schema,      \* committed facts
    ledger,      \* versions in the table schema_migrations
    draft,       \* draft[s]: facts of the transaction s has not committed
    stage,
    queue,       \* queue[s]: statements s has still to execute
    position,    \* position[s]: the migration s looks at next
    crashes

schemaVars == <<dialect, schema, ledger, draft, stage, queue, position, crashes>>

-----------------------------------------------------------------------------
(* Statements.  "makes" is what IF NOT EXISTS looks for; SQLite has no IF  *)
(* NOT EXISTS for columns, and the code forgives "duplicate column".       *)

CreateTable(t, columns) ==
    [kind |-> "table", makes |-> t, adds |-> {t} \cup columns, needs |-> {}]
CreateIndex(i, needs) ==
    [kind |-> "index", makes |-> i, adds |-> {i}, needs |-> needs]
AddColumn(t, c) ==
    [kind |-> "column", makes |-> c, adds |-> {c}, needs |-> {t}]
AddForeignKey(t, k) ==
    [kind |-> "key", makes |-> k, adds |-> {k}, needs |-> {t, "decisions"}]

(* UPDATE decisions SET tenant_id = team where it is missing. *)
Backfill == [kind |-> "rows", makes |-> "tenant_known",
             adds |-> {"tenant_known"}, needs |-> {"decisions.tenant_id"}]

ForeignKeys == {"approvals.fk", "audit_meta.fk"}

TenantIndex == CreateIndex("idx_decisions_tenant_created",
                           {"decisions", "decisions.tenant_id"})

QueryIndexes ==
    <<CreateIndex("idx_approvals_status_created", {"approvals"}),
      CreateIndex("idx_approvals_decision_id", {"approvals"}),
      CreateIndex("idx_decisions_request_id", {"decisions"}),
      CreateIndex("idx_decisions_team_created", {"decisions"})>>

AuditIndexes ==
    <<CreateIndex("idx_audit_meta_decision_id", {"audit_meta"}),
      CreateIndex("idx_audit_meta_created_at", {"audit_meta"})>>

RemediationTable == <<CreateTable("remediation_proposals", {})>>
RemediationIndexes ==
    <<CreateIndex("idx_remediation_proposals_status_created",
                  {"remediation_proposals"}),
      CreateIndex("idx_remediation_proposals_tenant_created",
                  {"remediation_proposals"})>>

CapabilityTable == <<CreateTable("capability_contracts", {})>>
CapabilityIndexes ==
    <<CreateIndex("idx_capability_contracts_kind_name_status",
                  {"capability_contracts"}),
      CreateIndex("idx_capability_contracts_tenant_created",
                  {"capability_contracts"}),
      CreateIndex("idx_capability_contracts_digest",
                  {"capability_contracts"})>>

PolicyTables == <<CreateTable("policy_bundles", {}),
                  CreateTable("policy_bundle_impacts", {})>>
PolicyIndexes ==
    <<CreateIndex("idx_policy_bundles_status_updated", {"policy_bundles"}),
      CreateIndex("idx_policy_bundles_digest", {"policy_bundles"}),
      CreateIndex("idx_policy_bundle_impacts_bundle",
                  {"policy_bundle_impacts"})>>

CoreTables ==
    <<CreateTable("decisions",
        {"decisions.request_digest", "decisions.tenant_id", "tenant_known",
         "decisions.agent_capability_digest",
         "decisions.tools_capability_digest"}),
      CreateTable("approvals", {"approvals.used_at", "approvals.fk"}),
      CreateTable("audit_meta", {"audit_meta.fk"})>>

Ledger == <<CreateTable("schema_migrations", {})>>

(* SCHEMA_SQL, which runs before any migration. *)
BaseStatements ==
    CoreTables \o RemediationTable \o CapabilityTable \o Ledger
      \o QueryIndexes \o <<TenantIndex>> \o AuditIndexes
      \o RemediationIndexes \o CapabilityIndexes
      \o PolicyTables \o PolicyIndexes

Migration(version, postgres, sqlite) ==
    [version |-> version, postgres |-> postgres, sqlite |-> sqlite]

Same(version, statements) == Migration(version, statements, statements)

Migrations ==
    <<Same("002_request_digest",
           <<AddColumn("decisions", "decisions.request_digest")>>),
      Same("003_approval_used_at",
           <<AddColumn("approvals", "approvals.used_at")>>),
      Same("004_query_indexes",
           QueryIndexes \o <<TenantIndex>> \o AuditIndexes),
      Migration("005_decision_foreign_keys",
           <<AddForeignKey("approvals", "approvals.fk"),
             AddForeignKey("audit_meta", "audit_meta.fk")>>,
           <<>>),
      Same("006_decision_tenant_id",
           <<AddColumn("decisions", "decisions.tenant_id"), Backfill,
             TenantIndex>>),
      Same("007_remediation_proposals", RemediationTable \o RemediationIndexes),
      Same("008_capability_contracts", CapabilityTable \o CapabilityIndexes),
      Same("009_policy_bundles", PolicyTables \o PolicyIndexes),
      Same("010_capability_execution_digests",
           <<AddColumn("decisions", "decisions.agent_capability_digest"),
             AddColumn("decisions", "decisions.tools_capability_digest")>>)>>

FirstStatement(d, i) == SelectSeq(Migrations[i][d], LAMBDA st : st = Head(Migrations[i][d]))

Statements(d, i) == Migrations[i][d]
Version(i) == Migrations[i].version
Versions == {Version(i) : i \in DOMAIN Migrations}

ASSUME SchemaAssumption ==
    /\ Dialects \subseteq {"postgres", "sqlite"}
    /\ Origins \subseteq 0..Len(Migrations)

AddedBy(statements) == UNION {statements[i].adds : i \in DOMAIN statements}

(* A database that releases up to migration k have left: the first had     *)
(* three tables and no ledger, and no release before 006 knew tenants; the *)
(* index on them in 004 is younger than 004.                               *)
Historic(d, k) ==
    LET made == {"decisions", "approvals", "audit_meta"}
                  \cup (IF k = 0 THEN {} ELSE {"schema_migrations"})
                  \cup UNION {AddedBy(Statements(d, i)) : i \in 1..k}
    IN IF TenantIndex.needs \subseteq made THEN made
       ELSE made \ TenantIndex.adds

(* The database is empty, or a release that knew tenants has opened it.    *)
Upgradable == schema = {} \/ "decisions.tenant_id" \in schema

-----------------------------------------------------------------------------
SchemaInit ==
    /\ dialect \in Dialects
    /\ \/ schema = {} /\ ledger = {}
       \/ \E k \in Origins : /\ schema = Historic(dialect, k)
                             /\ ledger = {Version(i) : i \in 1..k}
    /\ draft = [s \in Stores |-> {}]
    /\ stage = [s \in Stores |-> "closed"]
    /\ queue = [s \in Stores |-> <<>>]
    /\ position = [s \in Stores |-> 1]
    /\ crashes = 0

Visible(s) == schema \cup draft[s]

Enter(s, where) == stage' = [stage EXCEPT ![s] = where]

(* The schema lock: on PostgreSQL an advisory lock around the migrations;  *)
(* on SQLite, where the stores are threads of one process, a lock around   *)
(* everything.                                                             *)
Inside == {"migrate", "apply"}
Opening == {"base", "lock"} \cup Inside
LockFree(s, busy) == \A k \in Stores \ {s} : stage[k] \notin busy

(* get_decision_store: at boot, and for any request that finds no store.   *)
OpenStore(s) ==
    /\ stage[s] = "closed"
    /\ dialect = "sqlite" => LockFree(s, Opening)
    /\ Enter(s, "base")
    /\ queue' = [queue EXCEPT ![s] = BaseStatements]
    /\ UNCHANGED <<dialect, schema, ledger, draft, position, crashes>>

(* Connections are closed: what they have not committed is gone.           *)
Without(f, lost, nothing) == [s \in Stores |-> IF s \in lost THEN nothing ELSE f[s]]

Abandon(lost) == /\ queue' = Without(queue, lost, <<>>)
                 /\ position' = Without(position, lost, 1)

Executing(s) == stage[s] \in {"base", "apply"} /\ queue[s] # <<>>

(* Another transaction has made the same thing: PostgreSQL waits for it.   *)
Contested(s, fact) == \E k \in Stores \ {s} : fact \in draft[k]

ForgivenOnPostgres(st, seen) == /\ dialect = "postgres" \/ st.kind # "column"
                                /\ st.kind # "rows" /\ st.makes \in seen

(* A statement that finds its table, index, column or key does nothing:    *)
(* IF NOT EXISTS, duplicate_object, or SQLite's error that is swallowed.   *)
Forgiven(st, seen) == st.kind # "rows" /\ st.makes \in seen

Possible(st, seen) == /\ st.needs \subseteq seen
                      /\ st.kind = "rows" \/ st.makes \notin seen

(* Data definition commits by itself on SQLite until the first statement   *)
(* that writes rows has opened a transaction.                              *)
Transactional(s, st) ==
    dialect = "postgres" \/ draft[s] # {} \/ st.kind = "rows"

Execute(s) ==
    /\ Executing(s)
    /\ LET st == Head(queue[s])
           made == IF Forgiven(st, Visible(s)) THEN {} ELSE st.adds
       IN /\ Forgiven(st, Visible(s)) \/ Possible(st, Visible(s))
          /\ ~Contested(s, st.makes)
          /\ IF Transactional(s, st)
             THEN /\ draft' = [draft EXCEPT ![s] = @ \cup made]
                  /\ UNCHANGED schema
             ELSE /\ schema' = schema \cup made
                  /\ UNCHANGED draft
    /\ queue' = [queue EXCEPT ![s] = Tail(@)]
    /\ UNCHANGED <<dialect, ledger, stage, position, crashes>>

(* A statement fails and the store is not opened.  On PostgreSQL only the  *)
(* statement is rolled back, and the unlock that follows a failed          *)
(* migration commits the statements before it.                             *)
Fail(s) ==
    /\ Executing(s)
    /\ schema' = IF dialect = "postgres" /\ stage[s] = "apply"
                 THEN Visible(s) ELSE schema
    /\ Enter(s, "closed")
    /\ draft' = Without(draft, {s}, {})
    /\ Abandon({s})
    /\ UNCHANGED <<dialect, ledger>>

(* The statement cannot succeed here. *)
Refuse(s) ==
    /\ Fail(s)
    /\ ~Forgiven(Head(queue[s]), Visible(s))
    /\ ~Possible(Head(queue[s]), Visible(s))
    /\ UNCHANGED crashes

(* Stores that may be waiting inside a CREATE for the transaction of s.    *)
Waiting(s) == {k \in Stores \ {s} : /\ stage[k] = "base" /\ queue[k] # <<>>
                                    /\ Head(queue[k]).makes \in draft[s]}

(* Those that are waiting fail with a duplicate key when s commits; those  *)
(* that had not begun their statement find the thing and go on.            *)
CommitBase(s) ==
    /\ stage[s] = "base" /\ queue[s] = <<>>
    /\ schema' = Visible(s)
    /\ \E failing \in SUBSET Waiting(s) :
          /\ draft' = Without(draft, failing \cup {s}, {})
          /\ stage' = [Without(stage, failing, "closed") EXCEPT ![s] = "lock"]
          /\ Abandon(failing)
    /\ UNCHANGED <<dialect, ledger, crashes>>

TakeLock(s) ==
    /\ stage[s] = "lock"
    /\ LockFree(s, Inside)
    /\ Enter(s, "migrate")
    /\ UNCHANGED <<dialect, schema, ledger, draft, queue, position, crashes>>

Applied(i) == Version(i) \in ledger

SkipApplied(s) ==
    /\ stage[s] = "migrate" /\ position[s] \in DOMAIN Migrations
    /\ Applied(position[s])
    /\ position' = [position EXCEPT ![s] = @ + 1]
    /\ UNCHANGED <<dialect, schema, ledger, draft, stage, queue, crashes>>

RecordFirst(s) ==
    /\ stage[s] = "migrate" /\ position[s] \in DOMAIN Migrations
    /\ ~Applied(position[s])
    /\ queue' = [queue EXCEPT ![s] = Statements(dialect, position[s])]
    /\ ledger' = ledger \cup {Version(position[s])}
    /\ Enter(s, "apply")
    /\ UNCHANGED <<dialect, schema, draft, position, crashes>>

BeginMigration(s) ==
    /\ stage[s] = "migrate" /\ position[s] \in DOMAIN Migrations
    /\ ~Applied(position[s])
    /\ queue' = [queue EXCEPT ![s] = Statements(dialect, position[s])]
    /\ Enter(s, "apply")
    /\ UNCHANGED <<dialect, schema, ledger, draft, position, crashes>>

(* The ledger row is committed in the transaction of its statements.       *)
RecordMigration(s) ==
    /\ stage[s] = "apply" /\ queue[s] = <<>>
    /\ schema' = Visible(s)
    /\ ledger' = ledger \cup {Version(position[s])}
    /\ draft' = [draft EXCEPT ![s] = {}]
    /\ position' = [position EXCEPT ![s] = @ + 1]
    /\ Enter(s, "migrate")
    /\ UNCHANGED <<dialect, queue, crashes>>

(* assert_migrations_current, after the lock is released. *)
MigrationsCurrent == Versions \subseteq ledger

FinishOpening(s) ==
    /\ stage[s] = "migrate" /\ position[s] \notin DOMAIN Migrations
    /\ MigrationsCurrent
    /\ Enter(s, "open")
    /\ UNCHANGED <<dialect, schema, ledger, draft, queue, position, crashes>>

(* A process dies: on SQLite every store is in it.                         *)
Crash(s) ==
    /\ stage[s] # "closed" /\ crashes < MaxCrashes
    /\ crashes' = crashes + 1
    /\ LET lost == IF dialect = "sqlite" THEN Stores ELSE {s}
       IN /\ stage' = Without(stage, lost, "closed")
          /\ draft' = Without(draft, lost, {})
          /\ Abandon(lost)
    /\ UNCHANGED <<dialect, schema, ledger>>

(* A statement that could succeed meets a timeout, a lock or a full disk.  *)
Disturb(s) == /\ Fail(s)
              /\ crashes < MaxCrashes /\ crashes' = crashes + 1

Advance(s) == \/ OpenStore(s) \/ Execute(s) \/ Refuse(s)
              \/ CommitBase(s) \/ TakeLock(s) \/ SkipApplied(s)
              \/ BeginMigration(s) \/ RecordMigration(s) \/ FinishOpening(s)

SchemaNext == \E s \in Stores : Advance(s) \/ Crash(s) \/ Disturb(s)

SchemaSpec == SchemaInit /\ [][SchemaNext]_schemaVars

(* A process that runs goes on, and its supervisor or the next request     *)
(* opens the store again; it need not die or be disturbed.                 *)
SchemaFairness == \A s \in Stores : WF_schemaVars(Advance(s))

FairSchemaSpec == SchemaSpec /\ SchemaFairness

-----------------------------------------------------------------------------
(* A version in the ledger has been carried out: everything its statements *)
(* make is there for every process, whatever died half-way and whoever     *)
(* migrated at the same time (the ledger row and the statements commit     *)
(* together, and a statement that did its work before is forgiven).  Only  *)
(* the index that 004 gained later is missing from a database that has the *)
(* row of 004 and no tenants.                                              *)
LedgerTruthful ==
    \A i \in DOMAIN Migrations :
       Applied(i) => AddedBy(Statements(dialect, i))
                        \ (IF Upgradable THEN {} ELSE TenantIndex.adds) \subseteq schema

(* A store that has opened works on a database with everything a fresh one *)
(* has, from whichever release it came; SQLite cannot add a foreign key to *)
(* an existing table.                                                      *)
OpenIsComplete ==
    \A s \in Stores :
       stage[s] = "open" =>
          AddedBy(BaseStatements)
             \ (IF dialect = "sqlite" THEN ForeignKeys ELSE {}) \subseteq schema

(* Every process gets its store open at last: a process that lost the race *)
(* to create a table, or died between two statements, succeeds later.      *)
StoresOpen == \A s \in Stores : Upgradable ~> stage[s] = "open"

(* "Existing rows are backfilled by migration 006"                         *)
(* (docs/adr/0001-tenant-isolation.md:23).                                 *)
RowsBackfilled == <>("tenant_known" \in schema)
=============================================================================

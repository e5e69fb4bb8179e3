----------------------- MODULE SchemaMigrationsProofs -----------------------
(***************************************************************************)
(* Proofs about opening the store: for any number of processes, whatever   *)
(* their interleaving and their deaths, the ledger is truthful and a store *)
(* that opened has everything; a database without tenants is refused for   *)
(* good.  The induction follows one migration statement by statement: what *)
(* its statements make is committed, drafted or still queued.              *)
(***************************************************************************)
EXTENDS SchemaMigrations, TLAPS

Tables == {"decisions", "approvals", "audit_meta", "schema_migrations",
           "remediation_proposals", "capability_contracts", "policy_bundles",
           "policy_bundle_impacts"}
Columns == {"decisions.request_digest", "decisions.tenant_id", "tenant_known",
            "decisions.agent_capability_digest",
            "decisions.tools_capability_digest", "approvals.used_at"}
Indexes == {"idx_approvals_status_created", "idx_approvals_decision_id",
            "idx_decisions_request_id", "idx_decisions_team_created",
            "idx_decisions_tenant_created", "idx_audit_meta_decision_id",
            "idx_audit_meta_created_at",
            "idx_remediation_proposals_status_created",
            "idx_remediation_proposals_tenant_created",
            "idx_capability_contracts_kind_name_status",
            "idx_capability_contracts_tenant_created",
            "idx_capability_contracts_digest",
            "idx_policy_bundles_status_updated", "idx_policy_bundles_digest",
            "idx_policy_bundle_impacts_bundle"}
Facts == Tables \cup Columns \cup Indexes \cup ForeignKeys

Kinds == {"table", "index", "column", "key", "rows"}

Statement == {st \in [kind : Kinds, makes : Facts, adds : SUBSET Facts,
                       needs : SUBSET Facts] : st.makes \in st.adds}

(* Statements that add exactly the thing they look for: all but the tables *)
(* of the base schema, which bring columns along.                          *)
Plain == {st \in Statement : st.adds = {st.makes}}

MadeBy(statements) == {statements[i].makes : i \in DOMAIN statements}

Stages == {"closed", "base", "lock", "migrate", "apply", "open"}

-----------------------------------------------------------------------------
(* Lemmas about sequences of statements. *)

(* What a non-empty queue adds is what its head adds and what the rest     *)
(* adds (the loop over the statements in _apply_schema and                 *)
(* _apply_migrations).                                                     *)
LEMMA AddedByHead ==
    ASSUME NEW q \in Seq(Statement), q # <<>>
    PROVE  /\ AddedBy(q) = Head(q).adds \cup AddedBy(Tail(q))
           /\ MadeBy(q) = {Head(q).makes} \cup MadeBy(Tail(q))
<1>1. /\ DOMAIN q = 1..Len(q) /\ Len(q) \in Nat /\ Len(q) > 0
      /\ DOMAIN Tail(q) = 1..(Len(q) - 1)
      /\ Head(q) = q[1]
      /\ \A i \in 1..(Len(q) - 1) : Tail(q)[i] = q[i + 1]
  OBVIOUS
<1>2. \A i \in DOMAIN q : i = 1 \/ (i - 1 \in DOMAIN Tail(q) /\ q[i] = Tail(q)[i - 1])
  BY <1>1
<1>3. \A i \in DOMAIN Tail(q) : i + 1 \in DOMAIN q /\ q[i + 1] = Tail(q)[i]
  BY <1>1
<1>4. 1 \in DOMAIN q
  BY <1>1
<1>5. AddedBy(q) \subseteq Head(q).adds \cup AddedBy(Tail(q))
  BY <1>1, <1>2 DEF AddedBy
<1>6. Head(q).adds \cup AddedBy(Tail(q)) \subseteq AddedBy(q)
  BY <1>1, <1>3, <1>4 DEF AddedBy
<1>7. MadeBy(q) \subseteq {Head(q).makes} \cup MadeBy(Tail(q))
  <2>1. ASSUME NEW m \in MadeBy(q)
        PROVE  m = Head(q).makes \/ m \in MadeBy(Tail(q))
    <3>1. PICK i \in DOMAIN q : m = q[i].makes
      BY DEF MadeBy
    <3>2. CASE i = 1
      BY <3>1, <3>2, <1>1
    <3>3. CASE i - 1 \in DOMAIN Tail(q) /\ q[i] = Tail(q)[i - 1]
      BY <3>1, <3>3 DEF MadeBy
    <3> QED BY <3>2, <3>3, <1>2
  <2> QED BY <2>1
<1>8. {Head(q).makes} \cup MadeBy(Tail(q)) \subseteq MadeBy(q)
  BY <1>1, <1>3, <1>4 DEF MadeBy
<1> QED BY <1>5, <1>6, <1>7, <1>8

(* Concatenating two lists of statements joins what they add and make.     *)
LEMMA AddedByConcatenation ==
    ASSUME NEW p \in Seq(Statement), NEW q \in Seq(Statement)
    PROVE  /\ AddedBy(p \o q) \subseteq AddedBy(p) \cup AddedBy(q)
           /\ MadeBy(p) \cup MadeBy(q) \subseteq MadeBy(p \o q)
<1>1. /\ DOMAIN (p \o q) = 1..(Len(p) + Len(q))
      /\ DOMAIN p = 1..Len(p) /\ DOMAIN q = 1..Len(q)
      /\ Len(p) \in Nat /\ Len(q) \in Nat
      /\ \A i \in 1..Len(p) : (p \o q)[i] = p[i]
      /\ \A i \in 1..Len(q) : (p \o q)[Len(p) + i] = q[i]
  OBVIOUS
<1>2. \A i \in DOMAIN (p \o q) : \/ i \in DOMAIN p /\ (p \o q)[i] = p[i]
                                 \/ /\ i - Len(p) \in DOMAIN q
                                    /\ (p \o q)[i] = q[i - Len(p)]
  <2> TAKE i \in DOMAIN (p \o q)
  <2>1. CASE i \in 1..Len(p)
    BY <2>1, <1>1
  <2>2. CASE i \notin 1..Len(p)
    <3>1. i - Len(p) \in 1..Len(q) /\ i = Len(p) + (i - Len(p))
      BY <2>2, <1>1
    <3> QED BY <3>1, <1>1
  <2> QED BY <2>1, <2>2
<1>3. AddedBy(p \o q) \subseteq AddedBy(p) \cup AddedBy(q)
  BY <1>2 DEF AddedBy
<1>4. \A i \in DOMAIN p : i \in DOMAIN (p \o q) /\ (p \o q)[i] = p[i]
  BY <1>1
<1>5. \A i \in DOMAIN q : /\ Len(p) + i \in DOMAIN (p \o q)
                          /\ (p \o q)[Len(p) + i] = q[i]
  BY <1>1
<1>6. MadeBy(p) \cup MadeBy(q) \subseteq MadeBy(p \o q)
  BY <1>4, <1>5 DEF MadeBy
<1> QED BY <1>3, <1>6

(* A list of plain statements adds what it makes. *)
LEMMA PlainAddsWhatItMakes ==
    ASSUME NEW q \in Seq(Plain)
    PROVE  AddedBy(q) \subseteq MadeBy(q)
<1>1. \A i \in DOMAIN q : q[i].adds = {q[i].makes}
  BY DEF Plain
<1> QED BY <1>1 DEF AddedBy, MadeBy

-----------------------------------------------------------------------------
(* The statements of db_schema.py. *)

(* The names that the statements use. *)
LEMMA NamesOfFacts ==
    /\ "decisions" \in Facts
    /\ "approvals" \in Facts
    /\ "audit_meta" \in Facts
    /\ "schema_migrations" \in Facts
    /\ "remediation_proposals" \in Facts
    /\ "capability_contracts" \in Facts
    /\ "policy_bundles" \in Facts
    /\ "policy_bundle_impacts" \in Facts
    /\ "decisions.request_digest" \in Facts
    /\ "decisions.tenant_id" \in Facts
    /\ "tenant_known" \in Facts
    /\ "decisions.agent_capability_digest" \in Facts
    /\ "decisions.tools_capability_digest" \in Facts
    /\ "approvals.used_at" \in Facts
    /\ "idx_approvals_status_created" \in Facts
    /\ "idx_approvals_decision_id" \in Facts
    /\ "idx_decisions_request_id" \in Facts
    /\ "idx_decisions_team_created" \in Facts
    /\ "idx_decisions_tenant_created" \in Facts
    /\ "idx_audit_meta_decision_id" \in Facts
    /\ "idx_audit_meta_created_at" \in Facts
    /\ "idx_remediation_proposals_status_created" \in Facts
    /\ "idx_remediation_proposals_tenant_created" \in Facts
    /\ "idx_capability_contracts_kind_name_status" \in Facts
    /\ "idx_capability_contracts_tenant_created" \in Facts
    /\ "idx_capability_contracts_digest" \in Facts
    /\ "idx_policy_bundles_status_updated" \in Facts
    /\ "idx_policy_bundles_digest" \in Facts
    /\ "idx_policy_bundle_impacts_bundle" \in Facts
BY DEF Facts, Tables, Columns, Indexes

(* Statements without columns are plain. *)
LEMMA PlainStatements ==
    /\ \A t \in Facts : CreateTable(t, {}) \in Plain
    /\ \A i \in Facts, needs \in SUBSET Facts : CreateIndex(i, needs) \in Plain
    /\ \A t, c \in Facts : AddColumn(t, c) \in Plain
    /\ \A t, k \in Facts : AddForeignKey(t, k) \in Plain
    /\ Backfill \in Plain
<1>1. \A t \in Facts : CreateTable(t, {}) \in Plain
  <2> TAKE t \in Facts
  <2>1. {t} \cup {} = {t}
    OBVIOUS
  <2> QED BY <2>1 DEF Plain, Statement, Kinds, CreateTable
<1>2. \A i \in Facts, needs \in SUBSET Facts : CreateIndex(i, needs) \in Plain
  BY DEF Plain, Statement, Kinds, CreateIndex
<1>3. \A t, c \in Facts : AddColumn(t, c) \in Plain
  BY DEF Plain, Statement, Kinds, AddColumn
<1>4. \A t, k \in Facts : AddForeignKey(t, k) \in Plain
  BY NamesOfFacts DEF Plain, Statement, Kinds, AddForeignKey
<1>5. Backfill \in Plain
  BY NamesOfFacts DEF Plain, Statement, Kinds, Backfill
<1> QED BY <1>1, <1>2, <1>3, <1>4, <1>5

(* The lists that base schema and migrations share are plain. *)
LEMMA SharedLists ==
    /\ QueryIndexes \in Seq(Plain) /\ AuditIndexes \in Seq(Plain)
    /\ <<TenantIndex>> \in Seq(Plain)
    /\ RemediationTable \in Seq(Plain) /\ RemediationIndexes \in Seq(Plain)
    /\ CapabilityTable \in Seq(Plain) /\ CapabilityIndexes \in Seq(Plain)
    /\ PolicyTables \in Seq(Plain) /\ PolicyIndexes \in Seq(Plain)
    /\ Ledger \in Seq(Plain)
<1>1. QueryIndexes \in Seq(Plain) /\ AuditIndexes \in Seq(Plain)
  BY PlainStatements, NamesOfFacts
     DEF QueryIndexes, AuditIndexes
<1>2. <<TenantIndex>> \in Seq(Plain)
  BY PlainStatements, NamesOfFacts
     DEF TenantIndex
<1>3. RemediationTable \in Seq(Plain) /\ RemediationIndexes \in Seq(Plain)
  BY PlainStatements, NamesOfFacts
     DEF RemediationTable, RemediationIndexes
<1>4. CapabilityTable \in Seq(Plain) /\ CapabilityIndexes \in Seq(Plain)
  BY PlainStatements, NamesOfFacts
     DEF CapabilityTable, CapabilityIndexes
<1>5. PolicyTables \in Seq(Plain) /\ PolicyIndexes \in Seq(Plain)
  BY PlainStatements, NamesOfFacts
     DEF PolicyTables, PolicyIndexes
<1>6. Ledger \in Seq(Plain)
  BY PlainStatements, NamesOfFacts
     DEF Ledger
<1> QED BY <1>1, <1>2, <1>3, <1>4, <1>5, <1>6

(* The statements of each migration (MIGRATIONS).                           *)
LEMMA MigrationStatements ==
    ASSUME NEW d \in {"postgres", "sqlite"}
    PROVE  /\ Statements(d, 1) =
                <<AddColumn("decisions", "decisions.request_digest")>>
           /\ Statements(d, 2) = <<AddColumn("approvals", "approvals.used_at")>>
           /\ Statements(d, 3) = QueryIndexes \o <<TenantIndex>> \o AuditIndexes
           /\ d = "postgres" => Statements(d, 4) =
                <<AddForeignKey("approvals", "approvals.fk"),
                  AddForeignKey("audit_meta", "audit_meta.fk")>>
           /\ d = "sqlite" => Statements(d, 4) = <<>>
           /\ Statements(d, 5) =
                <<AddColumn("decisions", "decisions.tenant_id"), Backfill,
                  TenantIndex>>
           /\ Statements(d, 6) = RemediationTable \o RemediationIndexes
           /\ Statements(d, 7) = CapabilityTable \o CapabilityIndexes
           /\ Statements(d, 8) = PolicyTables \o PolicyIndexes
           /\ Statements(d, 9) =
                <<AddColumn("decisions", "decisions.agent_capability_digest"),
                  AddColumn("decisions", "decisions.tools_capability_digest")>>
<1>1. CASE d = "postgres"
  BY <1>1 DEF Migrations, Statements, Same, Migration
<1>2. CASE d = "sqlite"
  BY <1>2 DEF Migrations, Statements, Same, Migration
<1> QED BY <1>1, <1>2

(* Nine migrations, each with a version of its own, whose statements are   *)
(* plain in both dialects.                                                 *)
LEMMA MigrationsKnown ==
    /\ DOMAIN Migrations = 1..9 /\ Len(Migrations) = 9
    /\ \A i, j \in 1..9 : Version(i) = Version(j) => i = j
    /\ \A d \in {"postgres", "sqlite"}, i \in 1..9 :
          Statements(d, i) \in Seq(Plain)
<1>1. DOMAIN Migrations = 1..9 /\ Len(Migrations) = 9
  BY DEF Migrations
<1>2. \A i, j \in 1..9 : Version(i) = Version(j) => i = j
  BY DEF Migrations, Version, Same, Migration
<1>3. ASSUME NEW d \in {"postgres", "sqlite"}, NEW i \in 1..9
      PROVE  Statements(d, i) \in Seq(Plain)
  <2>1. /\ AddColumn("decisions", "decisions.request_digest") \in Plain
        /\ AddColumn("approvals", "approvals.used_at") \in Plain
        /\ AddColumn("decisions", "decisions.tenant_id") \in Plain
        /\ AddColumn("decisions", "decisions.agent_capability_digest") \in Plain
        /\ AddColumn("decisions", "decisions.tools_capability_digest") \in Plain
    BY PlainStatements, NamesOfFacts
  <2>2. /\ AddForeignKey("approvals", "approvals.fk") \in Plain
        /\ AddForeignKey("audit_meta", "audit_meta.fk") \in Plain
    <3>1. "approvals.fk" \in Facts /\ "audit_meta.fk" \in Facts
      BY DEF Facts, ForeignKeys
    <3> QED BY <3>1, PlainStatements, NamesOfFacts
  <2>3. Backfill \in Plain /\ TenantIndex \in Plain
    BY PlainStatements, NamesOfFacts DEF TenantIndex
  <2>4. Statements(d, 1) \in Seq(Plain)
    <3>1. <<AddColumn("decisions", "decisions.request_digest")>>
            \in Seq(Plain)
      BY <2>1
    <3> QED BY <3>1, MigrationStatements, Zenon
  <2>5. Statements(d, 2) \in Seq(Plain)
    <3>1. <<AddColumn("approvals", "approvals.used_at")>>
            \in Seq(Plain)
      BY <2>1
    <3> QED BY <3>1, MigrationStatements, Zenon
  <2>6. Statements(d, 3) \in Seq(Plain)
    <3>1. QueryIndexes \o <<TenantIndex>> \o AuditIndexes
            \in Seq(Plain)
      BY SharedLists
    <3> QED BY <3>1, MigrationStatements, Zenon
  <2>7. Statements(d, 4) \in Seq(Plain)
    <3>1. <<>> \in Seq(Plain)
      OBVIOUS
    <3>2. <<AddForeignKey("approvals", "approvals.fk"),
            AddForeignKey("audit_meta", "audit_meta.fk")>> \in Seq(Plain)
      BY <2>2
    <3> QED BY <3>1, <3>2, MigrationStatements, ZenonT(30)
  <2>8. Statements(d, 5) \in Seq(Plain)
    <3>1. <<AddColumn("decisions", "decisions.tenant_id"), Backfill,
          TenantIndex>>
            \in Seq(Plain)
      BY <2>1, <2>3
    <3> QED BY <3>1, MigrationStatements, Zenon
  <2>9. Statements(d, 6) \in Seq(Plain)
    <3>1. RemediationTable \o RemediationIndexes
            \in Seq(Plain)
      BY SharedLists
    <3> QED BY <3>1, MigrationStatements, Zenon
  <2>10. Statements(d, 7) \in Seq(Plain)
    <3>1. CapabilityTable \o CapabilityIndexes
            \in Seq(Plain)
      BY SharedLists
    <3> QED BY <3>1, MigrationStatements, Zenon
  <2>11. Statements(d, 8) \in Seq(Plain)
    <3>1. PolicyTables \o PolicyIndexes
            \in Seq(Plain)
      BY SharedLists
    <3> QED BY <3>1, MigrationStatements, Zenon
  <2>12. Statements(d, 9) \in Seq(Plain)
    <3>1. <<AddColumn("decisions", "decisions.agent_capability_digest"),
          AddColumn("decisions", "decisions.tools_capability_digest")>>
            \in Seq(Plain)
      BY <2>1
    <3> QED BY <3>1, MigrationStatements, Zenon
  <2>13. i \in {1, 2, 3, 4, 5, 6, 7, 8, 9}
    OBVIOUS
  <2> QED BY <2>4, <2>5, <2>6, <2>7, <2>8, <2>9, <2>10, <2>11, <2>12, <2>13
<1> QED BY <1>1, <1>2, <1>3

(* SCHEMA_SQL is a list of statements. *)
LEMMA BaseIsAList ==
    /\ CoreTables \in Seq(Statement)
    /\ BaseStatements \in Seq(Statement)
<1>1. CoreTables \in Seq(Statement)
  <2>1. "approvals.fk" \in Facts /\ "audit_meta.fk" \in Facts
    BY DEF Facts, ForeignKeys
  <2>2. /\ {"decisions.request_digest", "decisions.tenant_id", "tenant_known",
            "decisions.agent_capability_digest",
            "decisions.tools_capability_digest"} \subseteq Facts
        /\ {"approvals.used_at", "approvals.fk"} \subseteq Facts
        /\ {"audit_meta.fk"} \subseteq Facts
    BY <2>1, NamesOfFacts
  <2>3. \A t \in Facts, columns \in SUBSET Facts :
           CreateTable(t, columns) \in Statement
    BY DEF CreateTable, Statement, Kinds
  <2>4. /\ CreateTable("decisions",
              {"decisions.request_digest", "decisions.tenant_id",
               "tenant_known", "decisions.agent_capability_digest",
               "decisions.tools_capability_digest"}) \in Statement
        /\ CreateTable("approvals", {"approvals.used_at", "approvals.fk"})
              \in Statement
        /\ CreateTable("audit_meta", {"audit_meta.fk"}) \in Statement
    BY <2>2, <2>3, NamesOfFacts, Zenon
  <2> QED BY <2>4 DEF CoreTables
<1>2. Seq(Plain) \subseteq Seq(Statement)
  BY DEF Plain
<1>3. \A p, q \in Seq(Statement) : p \o q \in Seq(Statement)
  OBVIOUS
<1>4. /\ QueryIndexes \in Seq(Statement) /\ AuditIndexes \in Seq(Statement)
      /\ <<TenantIndex>> \in Seq(Statement)
      /\ RemediationTable \in Seq(Statement)
      /\ RemediationIndexes \in Seq(Statement)
      /\ CapabilityTable \in Seq(Statement)
      /\ CapabilityIndexes \in Seq(Statement)
      /\ PolicyTables \in Seq(Statement) /\ PolicyIndexes \in Seq(Statement)
      /\ Ledger \in Seq(Statement)
  BY <1>2, SharedLists
<1>5. CoreTables \o RemediationTable \o CapabilityTable \o Ledger
         \o QueryIndexes \in Seq(Statement)
  BY <1>1, <1>3, <1>4, Zenon
<1>6. CoreTables \o RemediationTable \o CapabilityTable \o Ledger
         \o QueryIndexes \o <<TenantIndex>> \o AuditIndexes
         \o RemediationIndexes \o CapabilityIndexes \in Seq(Statement)
  BY <1>3, <1>4, <1>5, Zenon
<1> QED BY <1>1, <1>3, <1>4, <1>6, Zenon DEF BaseStatements

-----------------------------------------------------------------------------
(* The inductive invariant. *)

SchemaTypeOK ==
    /\ dialect \in {"postgres", "sqlite"}
    /\ schema \subseteq Facts
    /\ draft \in [Stores -> SUBSET Facts]
    /\ stage \in [Stores -> Stages]
    /\ queue \in [Stores -> Seq(Statement)]
    /\ position \in [Stores -> Nat \ {0}]

(* What the migration in hand makes is there for its process, or queued.   *)
MigrationInHand(s) ==
    stage[s] = "apply" =>
       /\ position[s] \in 1..9
       /\ queue[s] \in Seq(Plain)
       /\ AddedBy(Statements(dialect, position[s]))
             \subseteq Visible(s) \cup AddedBy(queue[s])

(* The things that the base schema looks for are there, or queued.         *)
BaseInHand(s) ==
    /\ stage[s] = "base" =>
          MadeBy(BaseStatements) \subseteq Visible(s) \cup MadeBy(queue[s])
    /\ stage[s] \in {"lock", "migrate", "apply", "open"} =>
          MadeBy(BaseStatements) \subseteq schema
    /\ stage[s] = "open" => Versions \subseteq ledger

InHand(s) == MigrationInHand(s) /\ BaseInHand(s)

(* LedgerTruthful, the index on tenants apart, which 004 did not always    *)
(* have.                                                                   *)
LedgerCarriedOut ==
    \A i \in DOMAIN Migrations :
       Applied(i) => AddedBy(Statements(dialect, i))
                        \subseteq schema \cup TenantIndex.adds

SchemaInv ==
    /\ SchemaTypeOK
    /\ LedgerCarriedOut
    /\ \A s \in Stores : InHand(s)

(* A process that does not move keeps what it has in hand while the others *)
(* only add to schema and ledger.                                          *)
LEMMA Undisturbed ==
    ASSUME NEW s \in Stores, InHand(s), dialect' = dialect,
           schema \subseteq schema', ledger \subseteq ledger',
           stage'[s] = stage[s], draft'[s] = draft[s],
           queue'[s] = queue[s], position'[s] = position[s]
    PROVE  InHand(s)'
<1>1. Visible(s) \subseteq Visible(s)'
  BY DEF Visible
<1>2. MigrationInHand(s)'
  BY <1>1 DEF InHand, MigrationInHand
<1>3. BaseInHand(s)'
  BY <1>1 DEF InHand, BaseInHand
<1> QED BY <1>2, <1>3 DEF InHand

(* A closed store has nothing in hand. *)
LEMMA NothingInHand ==
    ASSUME NEW s \in Stores, stage[s] = "closed"
    PROVE  InHand(s)
BY DEF InHand, MigrationInHand, BaseInHand

(* The ledger stays truthful while facts are only added. *)
LEMMA StillTruthful ==
    ASSUME LedgerCarriedOut, dialect' = dialect, ledger' = ledger,
           schema \subseteq schema'
    PROVE  LedgerCarriedOut'
BY DEF LedgerCarriedOut, Applied

(* A database left by an older release has a truthful ledger. *)
LEMMA InitSchema == SchemaInit => SchemaInv
<1> SUFFICES ASSUME SchemaInit PROVE SchemaInv
  OBVIOUS
<1>0. dialect \in {"postgres", "sqlite"}
  BY SchemaAssumption DEF SchemaInit
<1>1. \A s \in Stores : stage[s] = "closed"
  BY DEF SchemaInit
<1>2. \A s \in Stores : InHand(s)
  BY <1>1, NothingInHand
<1>3. <<>> \in Seq(Statement)
  OBVIOUS
<1>4. /\ draft \in [Stores -> SUBSET Facts] /\ stage \in [Stores -> Stages]
      /\ queue \in [Stores -> Seq(Statement)]
      /\ position \in [Stores -> Nat \ {0}]
  BY <1>3 DEF SchemaInit, Stages
<1>5. \A i \in 1..9 : AddedBy(Statements(dialect, i)) \subseteq Facts
  <2> TAKE i \in 1..9
  <2>1. Statements(dialect, i) \in Seq(Plain)
    BY <1>0, MigrationsKnown
  <2>2. \A j \in DOMAIN Statements(dialect, i) :
           Statements(dialect, i)[j].adds \subseteq Facts
    BY <2>1 DEF Plain, Statement
  <2> QED BY <2>2 DEF AddedBy
<1>6. CASE schema = {} /\ ledger = {}
  BY <1>0, <1>2, <1>4, <1>6
     DEF SchemaInv, SchemaTypeOK, LedgerCarriedOut, Applied
<1>7. ASSUME NEW k \in Origins, schema = Historic(dialect, k),
             ledger = {Version(i) : i \in 1..k}
      PROVE  SchemaInv
  <2>1. k \in 0..9
    BY SchemaAssumption, MigrationsKnown
  <2>2. 1..k \subseteq 1..9
    BY <2>1
  <2>3. schema \subseteq Facts
    BY <1>5, <1>7, <2>2, NamesOfFacts DEF Historic
  <2>4. ASSUME NEW i \in DOMAIN Migrations, Applied(i)
        PROVE  AddedBy(Statements(dialect, i)) \subseteq schema \cup TenantIndex.adds
    <3>1. PICK j \in 1..k : Version(i) = Version(j)
      BY <1>7, <2>4 DEF Applied
    <3>2. i = j
      BY <3>1, <2>2, MigrationsKnown
    <3> QED BY <1>7, <3>2 DEF Historic
  <2> QED BY <1>0, <1>2, <1>4, <2>3, <2>4
          DEF SchemaInv, SchemaTypeOK, LedgerCarriedOut
<1> QED BY <1>6, <1>7 DEF SchemaInit

(* One statement of the base schema or of a migration moves what it makes  *)
(* from the queue to the schema or to the draft (cursor.execute).          *)
LEMMA ExecuteKeeps ==
    ASSUME SchemaInv, NEW s \in Stores, Execute(s)
    PROVE  SchemaInv'
<1> DEFINE st == Head(queue[s])
           made == IF Forgiven(st, Visible(s)) THEN {} ELSE st.adds
<1>1. /\ queue[s] \in Seq(Statement) /\ queue[s] # <<>>
      /\ st \in Statement /\ Tail(queue[s]) \in Seq(Statement)
  BY DEF SchemaInv, SchemaTypeOK, Execute, Executing
<1>2. /\ \/ draft' = [draft EXCEPT ![s] = @ \cup made] /\ schema' = schema
         \/ draft' = draft /\ schema' = schema \cup made
      /\ queue' = [queue EXCEPT ![s] = Tail(@)]
      /\ dialect' = dialect /\ ledger' = ledger /\ stage' = stage
      /\ position' = position
  BY DEF Execute
<1>3. made \subseteq Facts
  BY <1>1 DEF Statement
<1>4. SchemaTypeOK'
  BY <1>1, <1>2, <1>3 DEF SchemaInv, SchemaTypeOK
<1>5. schema \subseteq schema' /\ LedgerCarriedOut'
  BY <1>2, StillTruthful DEF SchemaInv
<1>6. Visible(s)' = Visible(s) \cup made
  BY <1>2 DEF Visible, SchemaInv, SchemaTypeOK
<1>7. st.makes \in Visible(s)'
  BY <1>1, <1>6 DEF Forgiven, Statement
<1>8. queue'[s] = Tail(queue[s])
  BY <1>2 DEF SchemaInv, SchemaTypeOK
<1>9. MigrationInHand(s)'
  <2> SUFFICES ASSUME stage[s] = "apply" PROVE MigrationInHand(s)'
    BY <1>2 DEF MigrationInHand
  <2>1. /\ position[s] \in 1..9 /\ queue[s] \in Seq(Plain)
        /\ AddedBy(Statements(dialect, position[s]))
              \subseteq Visible(s) \cup AddedBy(queue[s])
    BY DEF SchemaInv, InHand, MigrationInHand
  <2>2. st.adds = {st.makes} /\ Tail(queue[s]) \in Seq(Plain)
    BY <1>1, <2>1 DEF Plain
  <2>3. AddedBy(queue[s]) \subseteq Visible(s)' \cup AddedBy(queue'[s])
    BY <1>1, <1>7, <1>8, <2>2, AddedByHead
  <2> QED BY <1>2, <1>6, <1>8, <2>1, <2>2, <2>3 DEF MigrationInHand
<1>10. BaseInHand(s)'
  <2>1. CASE stage[s] = "base"
    <3>1. MadeBy(BaseStatements) \subseteq Visible(s) \cup MadeBy(queue[s])
      BY <2>1 DEF SchemaInv, InHand, BaseInHand
    <3>2. MadeBy(queue[s]) \subseteq Visible(s)' \cup MadeBy(queue'[s])
      BY <1>1, <1>7, <1>8, AddedByHead
    <3> QED BY <1>2, <1>6, <2>1, <3>1, <3>2 DEF BaseInHand
  <2>2. CASE stage[s] # "base"
    BY <1>2, <1>5, <2>2 DEF SchemaInv, InHand, BaseInHand
  <2> QED BY <2>1, <2>2
<1>11. ASSUME NEW k \in Stores, k # s PROVE InHand(k)'
  <2>1. draft'[k] = draft[k] /\ queue'[k] = queue[k]
    BY <1>2, <1>11 DEF SchemaInv, SchemaTypeOK
  <2> QED BY <1>2, <1>5, <2>1, Undisturbed DEF SchemaInv
<1> QED BY <1>4, <1>5, <1>9, <1>10, <1>11 DEF SchemaInv, InHand

(* A connection that closes loses its draft and its queue; its store has   *)
(* nothing in hand, and nobody else is disturbed (the error paths of       *)
(* DecisionStore.__init__ and the death of a process).                     *)
LEMMA ClosingKeeps ==
    ASSUME SchemaInv, NEW lost \in SUBSET Stores,
           stage' = Without(stage, lost, "closed"),
           draft' = Without(draft, lost, {}), Abandon(lost),
           dialect' = dialect, ledger' = ledger,
           schema \subseteq schema', schema' \subseteq Facts
    PROVE  SchemaInv'
<1>1. <<>> \in Seq(Statement)
  OBVIOUS
<1>2. SchemaTypeOK'
  BY <1>1 DEF SchemaInv, SchemaTypeOK, Without, Abandon, Stages
<1>3. LedgerCarriedOut'
  BY StillTruthful DEF SchemaInv
<1>4. ASSUME NEW k \in Stores PROVE InHand(k)'
  <2>1. CASE k \in lost
    <3>1. stage'[k] = "closed"
      BY <2>1 DEF Without
    <3> QED BY <3>1 DEF InHand, MigrationInHand, BaseInHand
  <2>2. CASE k \notin lost
    <3>1. /\ stage'[k] = stage[k] /\ draft'[k] = draft[k]
          /\ queue'[k] = queue[k] /\ position'[k] = position[k]
      BY <2>2 DEF Without, Abandon
    <3> QED BY <3>1, Undisturbed DEF SchemaInv
  <2> QED BY <2>1, <2>2
<1> QED BY <1>2, <1>3, <1>4 DEF SchemaInv

(* A statement that fails closes the store (the exception leaves           *)
(* _apply_schema or _apply_migrations).                                    *)
LEMMA FailKeeps ==
    ASSUME SchemaInv, NEW s \in Stores, Fail(s)
    PROVE  SchemaInv'
<1>1. stage' = Without(stage, {s}, "closed")
  BY DEF Fail, Enter, Without, SchemaInv, SchemaTypeOK
<1>2. schema \subseteq schema' /\ schema' \subseteq Facts
  BY DEF Fail, Visible, SchemaInv, SchemaTypeOK
<1> QED BY <1>1, <1>2, ClosingKeeps DEF Fail

(* The death of a process closes its store, or every store on SQLite.      *)
LEMMA CrashKeeps ==
    ASSUME SchemaInv, NEW s \in Stores, Crash(s)
    PROVE  SchemaInv'
<1>1. PICK lost \in SUBSET Stores :
         /\ stage' = Without(stage, lost, "closed")
         /\ draft' = Without(draft, lost, {}) /\ Abandon(lost)
  BY DEF Crash
<1>2. dialect' = dialect /\ ledger' = ledger /\ schema' = schema
  BY DEF Crash
<1> QED BY <1>1, <1>2, ClosingKeeps DEF SchemaInv, SchemaTypeOK

(* The commit of the base schema publishes the draft, and the store has    *)
(* every thing the base schema names (_apply_schema).                      *)
LEMMA CommitBaseKeeps ==
    ASSUME SchemaInv, NEW s \in Stores, CommitBase(s)
    PROVE  SchemaInv'
<1>1. PICK failing \in SUBSET Waiting(s) :
         /\ draft' = Without(draft, failing \cup {s}, {})
         /\ stage' = [Without(stage, failing, "closed") EXCEPT ![s] = "lock"]
         /\ Abandon(failing)
  BY DEF CommitBase
<1>2. /\ stage[s] = "base" /\ queue[s] = <<>>
      /\ schema' = Visible(s) /\ dialect' = dialect /\ ledger' = ledger
  BY DEF CommitBase
<1>3. failing \subseteq Stores /\ s \notin failing
  BY <1>1 DEF Waiting
<1>4. schema \subseteq schema' /\ schema' \subseteq Facts
  BY <1>2 DEF Visible, SchemaInv, SchemaTypeOK
<1>5. <<>> \in Seq(Statement)
  OBVIOUS
<1>6. SchemaTypeOK'
  BY <1>1, <1>2, <1>3, <1>4, <1>5
     DEF SchemaInv, SchemaTypeOK, Without, Abandon, Stages
<1>7. LedgerCarriedOut'
  BY <1>2, <1>4, StillTruthful DEF SchemaInv
<1>8. ASSUME NEW k \in Stores PROVE InHand(k)'
  <2>1. CASE k = s
    <3>1. stage'[s] = "lock"
      BY <1>1, <1>3 DEF Without
    <3>2. MadeBy(BaseStatements) \subseteq Visible(s) \cup MadeBy(<<>>)
      BY <1>2 DEF SchemaInv, InHand, BaseInHand
    <3>3. MadeBy(<<>>) = {}
      BY DEF MadeBy
    <3> QED BY <1>2, <2>1, <3>1, <3>2, <3>3
            DEF InHand, MigrationInHand, BaseInHand
  <2>2. CASE k \in failing
    <3>1. stage'[k] = "closed"
      BY <1>1, <1>3, <2>2 DEF Without
    <3> QED BY <3>1 DEF InHand, MigrationInHand, BaseInHand
  <2>3. CASE k # s /\ k \notin failing
    <3>1. /\ stage'[k] = stage[k] /\ draft'[k] = draft[k]
          /\ queue'[k] = queue[k] /\ position'[k] = position[k]
      BY <1>1, <2>3 DEF Without, Abandon
    <3> QED BY <1>2, <1>4, <3>1, Undisturbed DEF SchemaInv
  <2> QED BY <2>1, <2>2, <2>3
<1> QED BY <1>6, <1>7, <1>8 DEF SchemaInv

(* A step that changes neither schema nor draft and no other store keeps   *)
(* the invariant if its own store still has everything in hand.            *)
LEMMA OwnStepKeeps ==
    ASSUME SchemaInv, SchemaTypeOK', NEW s \in Stores, InHand(s)',
           dialect' = dialect, schema' = schema, ledger' = ledger,
           \A k \in Stores \ {s} :
              /\ stage'[k] = stage[k] /\ draft'[k] = draft[k]
              /\ queue'[k] = queue[k] /\ position'[k] = position[k]
    PROVE  SchemaInv'
<1>1. LedgerCarriedOut'
  BY StillTruthful DEF SchemaInv
<1>2. ASSUME NEW k \in Stores, k # s PROVE InHand(k)'
  BY <1>2, Undisturbed DEF SchemaInv
<1> QED BY <1>1, <1>2 DEF SchemaInv

(* get_decision_store puts the base schema into the queue. *)
LEMMA OpenStoreKeeps ==
    ASSUME SchemaInv, NEW s \in Stores, OpenStore(s)
    PROVE  SchemaInv'
<1>1. SchemaTypeOK'
  BY BaseIsAList DEF SchemaInv, SchemaTypeOK, OpenStore, Enter, Stages
<1>2. stage'[s] = "base" /\ queue'[s] = BaseStatements
  BY DEF SchemaInv, SchemaTypeOK, OpenStore, Enter
<1>3. InHand(s)'
  BY <1>2 DEF InHand, MigrationInHand, BaseInHand
<1>4. \A k \in Stores \ {s} : /\ stage'[k] = stage[k] /\ draft'[k] = draft[k]
                               /\ queue'[k] = queue[k]
                               /\ position'[k] = position[k]
  BY DEF SchemaInv, SchemaTypeOK, OpenStore, Enter
<1> QED BY <1>1, <1>3, <1>4, OwnStepKeeps DEF OpenStore

(* Taking the lock and skipping an applied version change no schema.       *)
LEMMA LockAndSkipKeep ==
    ASSUME SchemaInv, NEW s \in Stores, TakeLock(s) \/ SkipApplied(s)
    PROVE  SchemaInv'
<1>1. SchemaTypeOK'
  <2>1. CASE TakeLock(s)
    BY <2>1 DEF SchemaInv, SchemaTypeOK, TakeLock, Enter, Stages
  <2>2. CASE SkipApplied(s)
    BY <2>2 DEF SchemaInv, SchemaTypeOK, SkipApplied
  <2> QED BY <2>1, <2>2
<1>2. /\ stage[s] \in {"lock", "migrate"} /\ stage'[s] = "migrate"
      /\ dialect' = dialect /\ schema' = schema /\ ledger' = ledger
      /\ draft' = draft /\ queue' = queue
      /\ \A k \in Stores \ {s} : stage'[k] = stage[k] /\ position'[k] = position[k]
  BY DEF SchemaInv, SchemaTypeOK, TakeLock, SkipApplied, Enter
<1>3. InHand(s)'
  BY <1>2 DEF SchemaInv, InHand, MigrationInHand, BaseInHand
<1> QED BY <1>1, <1>2, <1>3, OwnStepKeeps

(* A migration begins with all its statements queued (_apply_migrations).  *)
LEMMA BeginMigrationKeeps ==
    ASSUME SchemaInv, NEW s \in Stores, BeginMigration(s)
    PROVE  SchemaInv'
<1>1. position[s] \in 1..9
  BY MigrationsKnown DEF BeginMigration
<1>2. Statements(dialect, position[s]) \in Seq(Plain)
  BY <1>1, MigrationsKnown DEF SchemaInv, SchemaTypeOK
<1>3. Statements(dialect, position[s]) \in Seq(Statement)
  BY <1>2 DEF Plain
<1>4. SchemaTypeOK'
  BY <1>3 DEF SchemaInv, SchemaTypeOK, BeginMigration, Enter, Stages
<1>5. /\ stage[s] = "migrate" /\ stage'[s] = "apply"
      /\ queue'[s] = Statements(dialect, position[s])
      /\ dialect' = dialect /\ schema' = schema /\ ledger' = ledger
      /\ draft' = draft /\ position' = position
      /\ \A k \in Stores \ {s} : stage'[k] = stage[k] /\ queue'[k] = queue[k]
  BY DEF SchemaInv, SchemaTypeOK, BeginMigration, Enter
<1>6. InHand(s)'
  BY <1>1, <1>2, <1>5 DEF SchemaInv, InHand, MigrationInHand, BaseInHand
<1> QED BY <1>4, <1>5, <1>6, OwnStepKeeps

(* A store opens only with a complete ledger (assert_migrations_current).  *)
LEMMA FinishOpeningKeeps ==
    ASSUME SchemaInv, NEW s \in Stores, FinishOpening(s)
    PROVE  SchemaInv'
<1>1. SchemaTypeOK'
  BY DEF SchemaInv, SchemaTypeOK, FinishOpening, Enter, Stages
<1>2. /\ stage[s] = "migrate" /\ stage'[s] = "open" /\ Versions \subseteq ledger
      /\ dialect' = dialect /\ schema' = schema /\ ledger' = ledger
      /\ draft' = draft /\ queue' = queue /\ position' = position
      /\ \A k \in Stores \ {s} : stage'[k] = stage[k]
  BY DEF SchemaInv, SchemaTypeOK, FinishOpening, MigrationsCurrent, Enter
<1>3. InHand(s)'
  BY <1>2 DEF SchemaInv, InHand, MigrationInHand, BaseInHand
<1> QED BY <1>1, <1>2, <1>3, OwnStepKeeps

(* The ledger row commits with the draft, when nothing is queued any more. *)
LEMMA RecordMigrationKeeps ==
    ASSUME SchemaInv, NEW s \in Stores, RecordMigration(s)
    PROVE  SchemaInv'
<1>1. /\ stage[s] = "apply" /\ queue[s] = <<>> /\ schema' = Visible(s)
      /\ ledger' = ledger \cup {Version(position[s])}
      /\ dialect' = dialect /\ queue' = queue
  BY DEF RecordMigration
<1>2. SchemaTypeOK'
  BY DEF SchemaInv, SchemaTypeOK, RecordMigration, Enter, Visible, Stages
<1>3. schema \subseteq schema' /\ ledger \subseteq ledger'
  BY <1>1 DEF Visible
<1>4. /\ position[s] \in 1..9
      /\ AddedBy(Statements(dialect, position[s])) \subseteq schema'
  <2>1. AddedBy(<<>>) = {}
    BY DEF AddedBy
  <2> QED BY <1>1, <2>1 DEF SchemaInv, InHand, MigrationInHand
<1>5. ASSUME NEW i \in DOMAIN Migrations, Applied(i)'
      PROVE  AddedBy(Statements(dialect', i)) \subseteq schema' \cup TenantIndex.adds
  <2>1. CASE Version(i) \in ledger
    BY <1>1, <1>3, <2>1 DEF SchemaInv, LedgerCarriedOut, Applied
  <2>2. CASE Version(i) = Version(position[s])
    <3>1. i = position[s]
      BY <1>4, <2>2, MigrationsKnown
    <3> QED BY <1>1, <1>4, <3>1
  <2> QED BY <1>1, <1>5, <2>1, <2>2 DEF Applied
<1>6. LedgerCarriedOut'
  BY <1>5 DEF LedgerCarriedOut
<1>7. /\ stage'[s] = "migrate"
      /\ \A k \in Stores \ {s} : /\ stage'[k] = stage[k] /\ draft'[k] = draft[k]
                                /\ position'[k] = position[k]
  BY DEF SchemaInv, SchemaTypeOK, RecordMigration, Enter
<1>8. InHand(s)'
  BY <1>1, <1>3, <1>7 DEF SchemaInv, InHand, MigrationInHand, BaseInHand
<1>9. ASSUME NEW k \in Stores, k # s PROVE InHand(k)'
  BY <1>1, <1>3, <1>7, <1>9, Undisturbed DEF SchemaInv
<1> QED BY <1>2, <1>6, <1>8, <1>9 DEF SchemaInv

(* What every reachable state has in common. *)
LEMMA SchemaInvariant == SchemaSpec => []SchemaInv
<1>1. ASSUME SchemaInv, [SchemaNext]_schemaVars PROVE SchemaInv'
  <2>1. ASSUME NEW s \in Stores, Advance(s) PROVE SchemaInv'
    BY <1>1, <2>1, OpenStoreKeeps, ExecuteKeeps, FailKeeps, CommitBaseKeeps,
       LockAndSkipKeep, BeginMigrationKeeps, RecordMigrationKeeps,
       FinishOpeningKeeps DEF Advance, Refuse
  <2>2. ASSUME NEW s \in Stores, Crash(s) \/ Disturb(s) PROVE SchemaInv'
    BY <1>1, <2>2, CrashKeeps, FailKeeps DEF Disturb
  <2>3. CASE UNCHANGED schemaVars
    <3>1. \A s \in Stores : InHand(s)'
      BY <1>1, <2>3 DEF SchemaInv, InHand, MigrationInHand, BaseInHand,
                        Visible, schemaVars
    <3>2. SchemaTypeOK' /\ LedgerCarriedOut'
      BY <1>1, <2>3 DEF SchemaInv, SchemaTypeOK, LedgerCarriedOut, Applied,
                        schemaVars
    <3> QED BY <3>1, <3>2 DEF SchemaInv
  <2> QED BY <1>1, <2>1, <2>2, <2>3 DEF SchemaNext
<1> QED BY InitSchema, <1>1, PTL DEF SchemaSpec

-----------------------------------------------------------------------------
(* Databases without tenants.  SCHEMA_SQL stops at the index on a column   *)
(* that only migration 006 adds, so nobody gets that far.                  *)

TenantColumn == "decisions.tenant_id"
Tenants == {TenantColumn} \cup {"tenant_known"} \cup TenantIndex.adds

(* A base statement that makes the index needs the column, and only the    *)
(* table of decisions brings tenants along.                                *)
Careful == {st \in Statement :
              /\ st.kind # "rows"
              /\ TenantIndex.makes \in st.adds =>
                    TenantColumn \in st.needs /\ TenantIndex.makes = st.makes
              /\ {TenantColumn, "tenant_known"} \cap st.adds # {} =>
                    st.makes = "decisions"}

BaseFits(s) ==
    stage[s] = "base" =>
       /\ queue[s] \in Seq(Careful)
       /\ "decisions" \in Visible(s) \/ queue[s] = BaseStatements

(* Nobody gets beyond the base schema of a database without tenants.       *)
StuckInBase(s) ==
    ~Upgradable =>
       /\ stage[s] \in {"closed", "base"}
       /\ Tenants \cap draft[s] = {}
       /\ stage[s] = "base" => TenantIndex.makes \in MadeBy(queue[s])

(* A transaction on an empty database has created decisions with tenants.  *)
FirstDraft(s) ==
    schema = {} /\ draft[s] # {} => {"decisions", TenantColumn} \subseteq draft[s]

TenantFits(s) == BaseFits(s) /\ StuckInBase(s) /\ FirstDraft(s)

WithoutTenants == ~Upgradable => Tenants \cap schema = {} /\ "decisions" \in schema

(* Who has migrated a database with tenants has made their index before.   *)
IndexFits == Upgradable /\ ledger # {} => TenantIndex.adds \subseteq schema

TenantInv ==
    /\ schema = {} \/ "decisions" \in schema
    /\ WithoutTenants
    /\ IndexFits
    /\ \A s \in Stores : TenantFits(s)

LEMMA TenantNames ==
    /\ TenantIndex.adds = {"idx_decisions_tenant_created"}
    /\ TenantIndex.makes = "idx_decisions_tenant_created"
    /\ Tenants = {"decisions.tenant_id", "tenant_known",
                  "idx_decisions_tenant_created"}
    /\ TenantColumn = "decisions.tenant_id"
    /\ TenantIndex.needs = {"decisions", "decisions.tenant_id"}
BY DEF TenantIndex, CreateIndex, Tenants, TenantColumn

(* The statements of SCHEMA_SQL are careful. *)
LEMMA CarefulStatements ==
    /\ CreateTable("decisions",
         {"decisions.request_digest", "decisions.tenant_id", "tenant_known",
          "decisions.agent_capability_digest",
          "decisions.tools_capability_digest"}) \in Careful
    /\ CreateTable("approvals", {"approvals.used_at", "approvals.fk"}) \in Careful
    /\ CreateTable("audit_meta", {"audit_meta.fk"}) \in Careful
    /\ \A t \in Facts \ Tenants : CreateTable(t, {}) \in Careful
    /\ \A i \in Facts \ Tenants, needs \in SUBSET Facts :
          CreateIndex(i, needs) \in Careful
    /\ TenantIndex \in Careful
<1>1. /\ "approvals.fk" \in Facts /\ "audit_meta.fk" \in Facts
  BY DEF Facts, ForeignKeys
<1>2. CreateTable("decisions",
         {"decisions.request_digest", "decisions.tenant_id", "tenant_known",
          "decisions.agent_capability_digest",
          "decisions.tools_capability_digest"}) \in Careful
  BY NamesOfFacts, TenantNames DEF Careful, Statement, Kinds, CreateTable
<1>3. /\ CreateTable("approvals", {"approvals.used_at", "approvals.fk"}) \in Careful
      /\ CreateTable("audit_meta", {"audit_meta.fk"}) \in Careful
  BY <1>1, NamesOfFacts, TenantNames DEF Careful, Statement, Kinds, CreateTable
<1>4. \A t \in Facts \ Tenants : CreateTable(t, {}) \in Careful
  BY NamesOfFacts, TenantNames DEF Careful, Statement, Kinds, CreateTable
<1>5. \A i \in Facts \ Tenants, needs \in SUBSET Facts :
          CreateIndex(i, needs) \in Careful
  BY NamesOfFacts, TenantNames DEF Careful, Statement, Kinds, CreateIndex
<1>6. TenantIndex \in Careful
  BY NamesOfFacts, TenantNames DEF Careful, Statement, Kinds, TenantIndex, CreateIndex
<1> QED BY <1>2, <1>3, <1>4, <1>5, <1>6

LEMMA CarefulLists ==
    /\ CoreTables \in Seq(Careful)
    /\ QueryIndexes \in Seq(Careful) /\ AuditIndexes \in Seq(Careful)
    /\ <<TenantIndex>> \in Seq(Careful)
    /\ RemediationTable \in Seq(Careful) /\ RemediationIndexes \in Seq(Careful)
    /\ CapabilityTable \in Seq(Careful) /\ CapabilityIndexes \in Seq(Careful)
    /\ PolicyTables \in Seq(Careful) /\ PolicyIndexes \in Seq(Careful)
    /\ Ledger \in Seq(Careful)
<1>1. \A i \in Facts, needs \in SUBSET Facts : needs \in SUBSET Facts
  OBVIOUS
<1>2. CoreTables \in Seq(Careful) /\ <<TenantIndex>> \in Seq(Careful)
  BY CarefulStatements DEF CoreTables
<1>3. QueryIndexes \in Seq(Careful) /\ AuditIndexes \in Seq(Careful)
  BY CarefulStatements, NamesOfFacts, TenantNames DEF QueryIndexes, AuditIndexes
<1>4. RemediationTable \in Seq(Careful) /\ RemediationIndexes \in Seq(Careful)
  BY CarefulStatements, NamesOfFacts, TenantNames
     DEF RemediationTable, RemediationIndexes
<1>5. CapabilityTable \in Seq(Careful) /\ CapabilityIndexes \in Seq(Careful)
  BY CarefulStatements, NamesOfFacts, TenantNames
     DEF CapabilityTable, CapabilityIndexes
<1>6. PolicyTables \in Seq(Careful) /\ PolicyIndexes \in Seq(Careful)
  BY CarefulStatements, NamesOfFacts, TenantNames DEF PolicyTables, PolicyIndexes
<1>7. Ledger \in Seq(Careful)
  BY CarefulStatements, NamesOfFacts, TenantNames DEF Ledger
<1> QED BY <1>2, <1>3, <1>4, <1>5, <1>6, <1>7

(* A careful list that begins with the table of decisions. *)
BeginsWell(p) ==
    /\ p \in Seq(Careful) /\ p # <<>>
    /\ p[1] = CoreTables[1]

LEMMA GoesOnWell ==
    \A p, q : BeginsWell(p) /\ q \in Seq(Careful) =>
                 /\ BeginsWell(p \o q)
                 /\ MadeBy(p) \cup MadeBy(q) \subseteq MadeBy(p \o q)
<1> SUFFICES ASSUME NEW p, NEW q, BeginsWell(p), q \in Seq(Careful)
             PROVE  /\ BeginsWell(p \o q)
                    /\ MadeBy(p) \cup MadeBy(q) \subseteq MadeBy(p \o q)
  OBVIOUS
<1>1. p \in Seq(Careful) /\ p # <<>> /\ p[1] = CoreTables[1]
  BY DEF BeginsWell
<1>2. p \o q \in Seq(Careful) /\ p \o q # <<>> /\ (p \o q)[1] = p[1]
  BY <1>1
<1>3. p \in Seq(Statement) /\ q \in Seq(Statement)
  BY <1>1 DEF Careful
<1> QED BY <1>1, <1>2, <1>3, AddedByConcatenation DEF BeginsWell

(* SCHEMA_SQL begins with decisions and contains the index on tenants. *)
LEMMA BaseBeginsWell ==
    /\ BeginsWell(BaseStatements)
    /\ TenantIndex.makes \in MadeBy(BaseStatements)
<1>1. BeginsWell(CoreTables)
  BY CarefulLists DEF BeginsWell, CoreTables
<1>2. BeginsWell(CoreTables \o RemediationTable \o CapabilityTable \o Ledger
                   \o QueryIndexes)
  BY <1>1, GoesOnWell, CarefulLists, ZenonT(30)
<1> DEFINE p == CoreTables \o RemediationTable \o CapabilityTable \o Ledger
                  \o QueryIndexes \o <<TenantIndex>>
<1>3. BeginsWell(p) /\ MadeBy(<<TenantIndex>>) \subseteq MadeBy(p)
  BY <1>2, GoesOnWell, CarefulLists, ZenonT(30)
<1>4. TenantIndex.makes \in MadeBy(p)
  BY <1>3 DEF MadeBy
<1>5. BaseStatements = p \o AuditIndexes \o RemediationIndexes
                         \o CapabilityIndexes \o PolicyTables \o PolicyIndexes
  BY DEF BaseStatements
<1> HIDE DEF p
<1> DEFINE r == p \o AuditIndexes \o RemediationIndexes
<1>6. BeginsWell(r) /\ MadeBy(p) \subseteq MadeBy(r)
  <2>1. BeginsWell(p \o AuditIndexes) /\ MadeBy(p) \subseteq MadeBy(p \o AuditIndexes)
    BY <1>3, GoesOnWell, CarefulLists
  <2> QED BY <2>1, GoesOnWell, CarefulLists
<1>7. BaseStatements = r \o CapabilityIndexes \o PolicyTables \o PolicyIndexes
  BY <1>5
<1> HIDE DEF r
<1>8. /\ BeginsWell(r \o CapabilityIndexes)
      /\ MadeBy(r) \subseteq MadeBy(r \o CapabilityIndexes)
  BY <1>6, GoesOnWell, CarefulLists
<1>9. /\ BeginsWell(r \o CapabilityIndexes \o PolicyTables)
      /\ MadeBy(r \o CapabilityIndexes)
            \subseteq MadeBy(r \o CapabilityIndexes \o PolicyTables)
  BY <1>8, GoesOnWell, CarefulLists
<1>10. /\ BeginsWell(BaseStatements)
       /\ MadeBy(r \o CapabilityIndexes \o PolicyTables) \subseteq MadeBy(BaseStatements)
  BY <1>7, <1>9, GoesOnWell, CarefulLists
<1> QED BY <1>4, <1>6, <1>8, <1>9, <1>10

(* What the first statement of SCHEMA_SQL does. *)
LEMMA FirstTable ==
    /\ Head(BaseStatements) = CoreTables[1]
    /\ CoreTables[1].makes = "decisions" /\ CoreTables[1].kind = "table"
    /\ {"decisions", TenantColumn} \subseteq CoreTables[1].adds
<1>1. Head(BaseStatements) = CoreTables[1]
  BY BaseBeginsWell DEF BeginsWell
<1> QED BY <1>1, TenantNames DEF CoreTables, CreateTable

(* No migration before 006 has to do with tenants, but for the index.      *)
NoTenants == {st \in Statement : {TenantColumn, "tenant_known"} \cap st.adds = {}}

LEMMA EarlierMigrations ==
    ASSUME NEW d \in {"postgres", "sqlite"}, NEW i \in 1..4
    PROVE  {TenantColumn, "tenant_known"} \cap AddedBy(Statements(d, i)) = {}
<1>1. \A st \in Plain : /\ st \in Statement
                        /\ st.makes \notin {TenantColumn, "tenant_known"} =>
                              st \in NoTenants
  BY DEF Plain, NoTenants
<1>2. /\ \A t, c \in Facts \ {TenantColumn, "tenant_known"} :
            AddColumn(t, c) \in NoTenants
      /\ \A t, k \in Facts \ {TenantColumn, "tenant_known"} :
            AddForeignKey(t, k) \in NoTenants
      /\ \A x \in Facts \ {TenantColumn, "tenant_known"}, needs \in SUBSET Facts :
            CreateIndex(x, needs) \in NoTenants
  BY <1>1, PlainStatements DEF AddColumn, AddForeignKey, CreateIndex
<1>3. <<AddColumn("decisions", "decisions.request_digest")>> \in Seq(NoTenants)
  BY <1>2, NamesOfFacts, TenantNames
<1>4. <<AddColumn("approvals", "approvals.used_at")>> \in Seq(NoTenants)
  BY <1>2, NamesOfFacts, TenantNames
<1>5. QueryIndexes \o <<TenantIndex>> \o AuditIndexes \in Seq(NoTenants)
  <2>1. QueryIndexes \in Seq(NoTenants)
    BY <1>2, NamesOfFacts, TenantNames DEF QueryIndexes
  <2>2. AuditIndexes \in Seq(NoTenants)
    BY <1>2, NamesOfFacts, TenantNames DEF AuditIndexes
  <2>3. <<TenantIndex>> \in Seq(NoTenants)
    <3>1. TenantIndex \in NoTenants
      BY <1>2, NamesOfFacts, TenantNames DEF TenantIndex
    <3> QED BY <3>1
  <2> QED BY <2>1, <2>2, <2>3
<1>6. <<AddForeignKey("approvals", "approvals.fk"),
        AddForeignKey("audit_meta", "audit_meta.fk")>> \in Seq(NoTenants)
  <2>1. "approvals.fk" \in Facts /\ "audit_meta.fk" \in Facts
    BY DEF Facts, ForeignKeys
  <2> QED BY <1>2, <2>1, NamesOfFacts, TenantNames
<1>7. <<>> \in Seq(NoTenants)
  OBVIOUS
<1>8. i \in {1, 2, 3, 4}
  OBVIOUS
<1>9. Statements(d, i) \in Seq(NoTenants)
  BY <1>3, <1>4, <1>5, <1>6, <1>7, <1>8, MigrationStatements, ZenonT(30)
<1>10. \A j \in DOMAIN Statements(d, i) :
         {TenantColumn, "tenant_known"} \cap Statements(d, i)[j].adds = {}
  BY <1>9 DEF NoTenants
<1> QED BY <1>10 DEF AddedBy

-----------------------------------------------------------------------------
(* The steps. *)

(* Databases come without tenants, or with them and their index. *)
LEMMA InitTenants == SchemaInit => TenantInv
<1> SUFFICES ASSUME SchemaInit PROVE TenantInv
  OBVIOUS
<1>0. dialect \in {"postgres", "sqlite"}
  BY SchemaAssumption DEF SchemaInit
<1>1. \A s \in Stores : stage[s] = "closed" /\ draft[s] = {}
  BY DEF SchemaInit
<1>2. \A s \in Stores : TenantFits(s)
  BY <1>1 DEF TenantFits, BaseFits, StuckInBase, FirstDraft
<1>3. CASE schema = {} /\ ledger = {}
  BY <1>2, <1>3 DEF TenantInv, WithoutTenants, IndexFits, Upgradable
<1>4. ASSUME NEW k \in Origins, schema = Historic(dialect, k),
             ledger = {Version(i) : i \in 1..k}
      PROVE  TenantInv
  <2>1. k \in 0..9
    BY SchemaAssumption, MigrationsKnown
  <2> DEFINE made == {"decisions", "approvals", "audit_meta"}
                       \cup (IF k = 0 THEN {} ELSE {"schema_migrations"})
                       \cup UNION {AddedBy(Statements(dialect, i)) : i \in 1..k}
  <2>2. /\ schema = IF TenantIndex.needs \subseteq made THEN made
                    ELSE made \ TenantIndex.adds
        /\ "decisions" \in made
    BY <1>4 DEF Historic
  <2> HIDE DEF made
  <2>3. "decisions" \in schema
    BY <2>2, TenantNames
  <2>4. CASE k \in 5..9
    <3>1. AddedBy(Statements(dialect, 5)) \subseteq made
      BY <2>4 DEF made
    <3>2. Statements(dialect, 5) =
            <<AddColumn("decisions", "decisions.tenant_id"), Backfill, TenantIndex>>
      BY <1>0, MigrationStatements, Zenon
    <3>3. \A a, b, c : a.adds \cup c.adds \subseteq AddedBy(<<a, b, c>>)
      BY DEF AddedBy
    <3>4. TenantColumn \in made /\ TenantIndex.adds \subseteq made
      BY <3>1, <3>2, <3>3, TenantNames DEF AddColumn
    <3>5. schema = made
      BY <2>2, <3>4, TenantNames
    <3> QED BY <1>2, <2>3, <3>4, <3>5, TenantNames
            DEF TenantInv, WithoutTenants, IndexFits, Upgradable
  <2>5. CASE k \in 0..4
    <3>1. ASSUME NEW i \in 1..4
          PROVE  {TenantColumn, "tenant_known"} \cap AddedBy(Statements(dialect, i)) = {}
      BY <1>0, <3>1, EarlierMigrations
    <3>2. TenantColumn \notin made /\ "tenant_known" \notin made
      BY <2>5, <3>1, TenantNames DEF made
    <3>3. schema = made \ TenantIndex.adds
      BY <2>2, <3>2, TenantNames
    <3> QED BY <1>2, <2>3, <3>2, <3>3, TenantNames
            DEF TenantInv, WithoutTenants, IndexFits, Upgradable
  <2> QED BY <2>1, <2>4, <2>5
<1> QED BY <1>3, <1>4 DEF SchemaInit

(* A store that does not move while the others add facts, but no tenants   *)
(* where there are none.                                                   *)
LEMMA OthersFit ==
    ASSUME NEW k \in Stores, TenantFits(k), schema \subseteq schema',
           Upgradable => Upgradable',
           stage'[k] = stage[k], draft'[k] = draft[k], queue'[k] = queue[k]
    PROVE  TenantFits(k)'
<1>1. BaseFits(k)'
  BY DEF TenantFits, BaseFits, Visible
<1>2. StuckInBase(k)' /\ FirstDraft(k)'
  BY DEF TenantFits, StuckInBase, FirstDraft
<1> QED BY <1>1, <1>2 DEF TenantFits

(* A step that changes neither schema nor ledger.                          *)
LEMMA SameSchema ==
    ASSUME TenantInv, schema' = schema, ledger' = ledger,
           \A k \in Stores :
              \/ TenantFits(k)'
              \/ /\ stage'[k] = stage[k] /\ draft'[k] = draft[k]
                 /\ queue'[k] = queue[k]
    PROVE  TenantInv' /\ (Upgradable' => Upgradable)
<1>1. Upgradable' = Upgradable
  BY DEF Upgradable
<1>2. \A k \in Stores : TenantFits(k)'
  BY <1>1, OthersFit DEF TenantInv
<1>3. WithoutTenants' /\ IndexFits'
  BY <1>1 DEF TenantInv, WithoutTenants, IndexFits
<1> QED BY <1>1, <1>2, <1>3 DEF TenantInv

(* Beyond the base schema the database has tenants and the index.          *)
LEMMA BeyondBase ==
    ASSUME SchemaInv, TenantInv, NEW s \in Stores,
           stage[s] \in {"lock", "migrate", "apply", "open"}
    PROVE  /\ Upgradable /\ "decisions" \in schema
           /\ TenantColumn \in schema /\ TenantIndex.adds \subseteq schema
<1>1. Upgradable
  BY DEF TenantInv, TenantFits, StuckInBase
<1>2. TenantIndex.makes \in schema
  BY BaseBeginsWell DEF SchemaInv, InHand, BaseInHand
<1> QED BY <1>1, <1>2, TenantNames DEF TenantInv, Upgradable

LEMMA OpenStoreTenants ==
    ASSUME SchemaInv, TenantInv, NEW s \in Stores, OpenStore(s)
    PROVE  TenantInv' /\ (Upgradable' => Upgradable)
<1>1. /\ stage[s] = "closed" /\ stage'[s] = "base"
      /\ queue'[s] = BaseStatements /\ draft' = draft
      /\ schema' = schema /\ ledger' = ledger
      /\ \A k \in Stores \ {s} : stage'[k] = stage[k] /\ queue'[k] = queue[k]
  BY DEF SchemaInv, SchemaTypeOK, OpenStore, Enter
<1>2. TenantFits(s)'
  BY <1>1, BaseBeginsWell
     DEF TenantInv, TenantFits, BaseFits, StuckInBase, FirstDraft, Upgradable,
         BeginsWell
<1> QED BY <1>1, <1>2, SameSchema

(* Steps beyond the base schema that change neither schema nor ledger.     *)
LEMMA BeyondTenants ==
    ASSUME SchemaInv, TenantInv, NEW s \in Stores,
           TakeLock(s) \/ SkipApplied(s) \/ BeginMigration(s) \/ FinishOpening(s)
    PROVE  TenantInv' /\ (Upgradable' => Upgradable)
<1>1. /\ stage[s] \in {"lock", "migrate"} /\ stage'[s] \in {"migrate", "apply", "open"}
      /\ draft' = draft /\ schema' = schema /\ ledger' = ledger
      /\ \A k \in Stores \ {s} : stage'[k] = stage[k] /\ queue'[k] = queue[k]
  BY DEF SchemaInv, SchemaTypeOK, TakeLock, SkipApplied, BeginMigration,
         FinishOpening, Enter
<1>2. Upgradable /\ "decisions" \in schema
  BY <1>1, BeyondBase
<1>3. TenantFits(s)'
  BY <1>1, <1>2 DEF TenantFits, BaseFits, StuckInBase, FirstDraft, Upgradable
<1> QED BY <1>1, <1>3, SameSchema

LEMMA CrashTenants ==
    ASSUME SchemaInv, TenantInv, NEW s \in Stores, Crash(s)
    PROVE  TenantInv' /\ (Upgradable' => Upgradable)
<1> DEFINE lost == IF dialect = "sqlite" THEN Stores ELSE {s}
<1>1. /\ schema' = schema /\ ledger' = ledger
      /\ stage' = Without(stage, lost, "closed")
      /\ draft' = Without(draft, lost, {})
      /\ queue' = Without(queue, lost, <<>>)
  BY DEF Crash, Abandon
<1>2. ASSUME NEW k \in Stores
      PROVE  \/ stage'[k] = "closed" /\ draft'[k] = {}
             \/ /\ stage'[k] = stage[k] /\ draft'[k] = draft[k]
                /\ queue'[k] = queue[k]
  BY <1>1 DEF Without
<1>3. \A k \in Stores : stage'[k] = "closed" /\ draft'[k] = {} => TenantFits(k)'
  BY DEF TenantFits, BaseFits, StuckInBase, FirstDraft
<1> QED BY <1>1, <1>2, <1>3, SameSchema

(* A failure commits facts only beyond the base schema.                    *)
LEMMA FailTenants ==
    ASSUME SchemaInv, TenantInv, NEW s \in Stores, Fail(s)
    PROVE  TenantInv' /\ (Upgradable' => Upgradable)
<1>1. /\ stage[s] \in {"base", "apply"} /\ ledger' = ledger
      /\ schema' = IF dialect = "postgres" /\ stage[s] = "apply"
                   THEN Visible(s) ELSE schema
      /\ stage'[s] = "closed" /\ draft'[s] = {}
      /\ \A k \in Stores \ {s} : /\ stage'[k] = stage[k] /\ draft'[k] = draft[k]
                                 /\ queue'[k] = queue[k]
  BY DEF SchemaInv, SchemaTypeOK, Fail, Executing, Enter, Abandon, Without
<1>2. TenantFits(s)'
  BY <1>1 DEF TenantFits, BaseFits, StuckInBase, FirstDraft
<1>3. CASE schema' = schema
  BY <1>1, <1>2, <1>3, SameSchema
<1>4. CASE stage[s] = "apply" /\ schema' = Visible(s)
  <2>1. /\ Upgradable /\ "decisions" \in schema
        /\ TenantColumn \in schema /\ TenantIndex.adds \subseteq schema
    BY <1>4, BeyondBase
  <2>2. schema \subseteq schema'
    BY <1>4 DEF Visible
  <2>3. Upgradable'
    BY <2>1, <2>2 DEF Upgradable, TenantColumn
  <2>4. \A k \in Stores : TenantFits(k)'
    BY <1>1, <1>2, <2>2, <2>3, OthersFit DEF TenantInv
  <2> QED BY <2>1, <2>2, <2>3, <2>4 DEF TenantInv, WithoutTenants, IndexFits
<1> QED BY <1>1, <1>3, <1>4

LEMMA RecordMigrationTenants ==
    ASSUME SchemaInv, TenantInv, NEW s \in Stores, RecordMigration(s)
    PROVE  TenantInv' /\ (Upgradable' => Upgradable)
<1>1. /\ stage[s] = "apply" /\ schema' = Visible(s) /\ stage'[s] = "migrate"
      /\ \A k \in Stores \ {s} : /\ stage'[k] = stage[k] /\ draft'[k] = draft[k]
                                 /\ queue'[k] = queue[k]
  BY DEF SchemaInv, SchemaTypeOK, RecordMigration, Enter
<1>2. /\ Upgradable /\ "decisions" \in schema
      /\ TenantColumn \in schema /\ TenantIndex.adds \subseteq schema
  BY <1>1, BeyondBase
<1>3. schema \subseteq schema'
  BY <1>1 DEF Visible
<1>4. Upgradable' /\ schema' # {}
  BY <1>2, <1>3 DEF Upgradable, TenantColumn
<1>5. TenantFits(s)'
  BY <1>1, <1>4 DEF TenantFits, BaseFits, StuckInBase, FirstDraft
<1>6. \A k \in Stores : TenantFits(k)'
  BY <1>1, <1>3, <1>4, <1>5, OthersFit DEF TenantInv
<1> QED BY <1>2, <1>3, <1>4, <1>6 DEF TenantInv, WithoutTenants, IndexFits

(* A base schema that is committed has tenants. *)
LEMMA CommitBaseTenants ==
    ASSUME SchemaInv, TenantInv, NEW s \in Stores, CommitBase(s)
    PROVE  TenantInv' /\ (Upgradable' => Upgradable)
<1>1. PICK failing \in SUBSET Waiting(s) :
         /\ draft' = Without(draft, failing \cup {s}, {})
         /\ stage' = [Without(stage, failing, "closed") EXCEPT ![s] = "lock"]
         /\ Abandon(failing)
  BY DEF CommitBase
<1>2. /\ stage[s] = "base" /\ queue[s] = <<>> /\ schema' = Visible(s)
      /\ ledger' = ledger
  BY DEF CommitBase
<1>3. Upgradable
  <2>1. MadeBy(<<>>) = {}
    BY DEF MadeBy
  <2> QED BY <1>2, <2>1 DEF TenantInv, TenantFits, StuckInBase
<1>4. "decisions" \in Visible(s)
  BY <1>2, BaseBeginsWell DEF TenantInv, TenantFits, BaseFits, BeginsWell
<1>5. schema \subseteq schema' /\ "decisions" \in schema'
  BY <1>2, <1>4 DEF Visible
<1>6. TenantColumn \in schema'
  <2>1. CASE schema = {}
    BY <1>2, <1>4, <2>1 DEF TenantInv, TenantFits, FirstDraft, Visible
  <2>2. CASE schema # {}
    BY <1>3, <1>5, <2>2 DEF Upgradable, TenantColumn
  <2> QED BY <2>1, <2>2
<1>7. Upgradable'
  BY <1>6 DEF Upgradable, TenantColumn
<1>8. ASSUME NEW k \in Stores PROVE TenantFits(k)'
  <2>1. CASE k = s
    <3>1. stage'[s] = "lock"
      BY <1>1 DEF Without
    <3> QED BY <1>5, <1>7, <2>1, <3>1
            DEF TenantFits, BaseFits, StuckInBase, FirstDraft
  <2>2. CASE k \in failing /\ k # s
    <3>1. stage'[k] = "closed" /\ draft'[k] = {}
      BY <1>1, <2>2 DEF Without
    <3> QED BY <3>1 DEF TenantFits, BaseFits, StuckInBase, FirstDraft
  <2>3. CASE k \notin failing /\ k # s
    <3>1. /\ stage'[k] = stage[k] /\ draft'[k] = draft[k]
          /\ queue'[k] = queue[k]
      BY <1>1, <2>3 DEF Without, Abandon
    <3> QED BY <1>5, <1>7, <3>1, OthersFit DEF TenantInv
  <2> QED BY <2>1, <2>2, <2>3
<1>9. IndexFits'
  <2>1. CASE schema = {}
    <3>1. TenantIndex.makes \in schema'
      <4>1. MadeBy(<<>>) = {}
        BY DEF MadeBy
      <4> QED BY <1>2, <4>1, BaseBeginsWell DEF SchemaInv, InHand, BaseInHand
    <3> QED BY <3>1, TenantNames DEF IndexFits
  <2>2. CASE schema # {}
    BY <1>2, <1>3, <1>5, <2>2 DEF TenantInv, IndexFits
  <2> QED BY <2>1, <2>2
<1> QED BY <1>3, <1>5, <1>7, <1>8, <1>9 DEF TenantInv, WithoutTenants

(* On a database without tenants the statement that would make the index   *)
(* fails, and no other one makes anything that has to do with tenants.     *)
LEMMA ExecuteTenants ==
    ASSUME SchemaInv, TenantInv, NEW s \in Stores, Execute(s)
    PROVE  TenantInv' /\ (Upgradable' => Upgradable)
<1> DEFINE st == Head(queue[s])
           made == IF Forgiven(st, Visible(s)) THEN {} ELSE st.adds
<1>1. /\ queue[s] \in Seq(Statement) /\ queue[s] # <<>> /\ st \in Statement
      /\ stage[s] \in {"base", "apply"}
      /\ Forgiven(st, Visible(s)) \/ Possible(st, Visible(s))
      /\ IF Transactional(s, st)
         THEN draft' = [draft EXCEPT ![s] = @ \cup made] /\ schema' = schema
         ELSE schema' = schema \cup made /\ draft' = draft
      /\ queue'[s] = Tail(queue[s])
      /\ ledger' = ledger /\ stage' = stage
      /\ \A k \in Stores \ {s} : queue'[k] = queue[k]
  BY DEF SchemaInv, SchemaTypeOK, Execute, Executing
<1>2. /\ schema \subseteq schema' /\ schema' \subseteq schema \cup made
      /\ draft[s] \subseteq draft'[s] /\ draft'[s] \subseteq draft[s] \cup made
      /\ Visible(s)' = Visible(s) \cup made
      /\ \A k \in Stores \ {s} : draft'[k] = draft[k]
  <2>1. s \in Stores /\ DOMAIN draft = Stores
    BY DEF SchemaInv, SchemaTypeOK
  <2>2. CASE draft' = [draft EXCEPT ![s] = @ \cup made] /\ schema' = schema
    BY <2>1, <2>2 DEF Visible
  <2>3. CASE schema' = schema \cup made /\ draft' = draft
    BY <2>1, <2>3 DEF Visible
  <2> QED BY <1>1, <2>2, <2>3
<1>3. stage[s] = "base" =>
         /\ queue[s] \in Seq(Careful) /\ st \in Careful
         /\ Tail(queue[s]) \in Seq(Careful)
  BY <1>1 DEF TenantInv, TenantFits, BaseFits
<1>4. stage[s] = "base" => "decisions" \in Visible(s)'
  <2>1. CASE stage[s] = "base" /\ queue[s] = BaseStatements
    <3>1. /\ st.makes = "decisions" /\ "decisions" \in st.adds
      BY <2>1, FirstTable
    <3> QED BY <1>2, <3>1 DEF Forgiven
  <2>2. CASE "decisions" \in Visible(s)
    BY <1>2, <2>2
  <2> QED BY <2>1, <2>2 DEF TenantInv, TenantFits, BaseFits
<1>5. BaseFits(s)'
  BY <1>1, <1>3, <1>4 DEF BaseFits
<1>6. CASE ~Upgradable
  <2>1. /\ stage[s] = "base" /\ "decisions" \in schema
        /\ Tenants \cap schema = {} /\ Tenants \cap draft[s] = {}
        /\ TenantIndex.makes \in MadeBy(queue[s])
    BY <1>1, <1>6 DEF TenantInv, TenantFits, StuckInBase, WithoutTenants
  <2>2. Tenants \cap Visible(s) = {} /\ "decisions" \in Visible(s)
    BY <2>1 DEF Visible
  <2>3. /\ st.kind # "rows" /\ st.makes \in st.adds
        /\ TenantIndex.makes \in st.adds =>
              TenantColumn \in st.needs /\ TenantIndex.makes = st.makes
        /\ {TenantColumn, "tenant_known"} \cap st.adds # {} => st.makes = "decisions"
    BY <1>3, <2>1 DEF Careful, Statement
  <2>4. TenantIndex.makes # st.makes
    BY <1>1, <2>2, <2>3, TenantNames DEF Forgiven, Possible
  <2>5. Tenants \cap made = {}
    BY <2>2, <2>3, <2>4, TenantNames DEF Forgiven
  <2>6. /\ Tenants \cap schema' = {} /\ Tenants \cap draft'[s] = {}
        /\ "decisions" \in schema'
    BY <1>2, <2>1, <2>5
  <2>7. ~Upgradable'
    BY <2>6, TenantNames DEF Upgradable
  <2>8. TenantIndex.makes \in MadeBy(queue'[s])
    BY <1>1, <2>1, <2>4, AddedByHead
  <2>9. TenantFits(s)'
    BY <1>1, <1>5, <2>1, <2>6, <2>8 DEF TenantFits, StuckInBase, FirstDraft
  <2>10. \A k \in Stores : TenantFits(k)'
    BY <1>1, <1>2, <1>6, <2>9, OthersFit DEF TenantInv
  <2> QED BY <2>6, <2>7, <2>10 DEF TenantInv, WithoutTenants, IndexFits
<1>7. CASE schema = {}
  <2>1. stage[s] = "base"
    BY <1>1, <1>7, BeyondBase
  <2>2. /\ {"decisions", TenantColumn} \subseteq Visible(s)'
        /\ draft[s] # {} => {"decisions", TenantColumn} \subseteq draft[s]
    <3>1. CASE draft[s] # {}
      BY <1>2, <1>7, <3>1 DEF TenantInv, TenantFits, FirstDraft, Visible
    <3>2. CASE draft[s] = {}
      <4>1. Visible(s) = {}
        BY <1>7, <3>2 DEF Visible
      <4>2. queue[s] = BaseStatements
        BY <2>1, <4>1 DEF TenantInv, TenantFits, BaseFits
      <4>3. {"decisions", TenantColumn} \subseteq made
        BY <4>1, <4>2, FirstTable DEF Forgiven
      <4> QED BY <1>2, <3>2, <4>3
    <3> QED BY <3>1, <3>2
  <2>3. \/ schema' = {} /\ {"decisions", TenantColumn} \subseteq draft'[s]
        \/ {"decisions", TenantColumn} \subseteq schema'
    <3>1. CASE Transactional(s, st)
      <4>1. schema' = {}
        BY <1>1, <1>7, <3>1
      <4>2. (schema \cup draft[s])' = schema' \cup draft'[s]
        OBVIOUS
      <4> QED BY <2>2, <4>1, <4>2 DEF Visible
    <3>2. CASE ~Transactional(s, st)
      <4>1. draft[s] = {} /\ draft' = draft
        BY <1>1, <3>2 DEF Transactional
      <4>2. Visible(s)' = schema' \cup draft'[s]
        BY DEF Visible
      <4> QED BY <2>2, <4>1, <4>2
    <3> QED BY <3>1, <3>2
  <2>4. Upgradable'
    BY <2>3 DEF Upgradable, TenantColumn
  <2>5. TenantFits(s)'
    BY <1>5, <2>3, <2>4 DEF TenantFits, StuckInBase, FirstDraft
  <2>6. \A k \in Stores : TenantFits(k)'
    BY <1>1, <1>2, <2>4, <2>5, OthersFit DEF TenantInv
  <2>7. IndexFits'
    <3>1. ledger = {}
      BY <1>7, TenantNames DEF TenantInv, IndexFits, Upgradable
    <3> QED BY <1>1, <3>1 DEF IndexFits
  <2> QED BY <1>7, <2>3, <2>4, <2>6, <2>7 DEF TenantInv, WithoutTenants, Upgradable
<1>8. CASE Upgradable /\ schema # {}
  <2>1. "decisions" \in schema' /\ TenantColumn \in schema'
    BY <1>2, <1>8 DEF TenantInv, Upgradable, TenantColumn
  <2>2. Upgradable'
    BY <2>1 DEF Upgradable, TenantColumn
  <2>3. TenantFits(s)'
    BY <1>5, <2>1, <2>2 DEF TenantFits, StuckInBase, FirstDraft
  <2>4. \A k \in Stores : TenantFits(k)'
    BY <1>1, <1>2, <2>2, <2>3, OthersFit DEF TenantInv
  <2>5. IndexFits'
    BY <1>1, <1>2, <1>8 DEF TenantInv, IndexFits
  <2> QED BY <1>8, <2>1, <2>2, <2>4, <2>5 DEF TenantInv, WithoutTenants
<1> QED BY <1>6, <1>7, <1>8

LEMMA TenantNext ==
    ASSUME SchemaInv, TenantInv, [SchemaNext]_schemaVars
    PROVE  TenantInv' /\ (Upgradable' => Upgradable)
<1>1. ASSUME NEW s \in Stores, Advance(s) \/ Crash(s) \/ Disturb(s)
      PROVE  TenantInv' /\ (Upgradable' => Upgradable)
  BY <1>1, OpenStoreTenants, ExecuteTenants, FailTenants, CommitBaseTenants,
     BeyondTenants, RecordMigrationTenants, CrashTenants
     DEF Advance, Refuse, Disturb
<1>2. CASE UNCHANGED schemaVars
  BY <1>2, SameSchema DEF schemaVars
<1> QED BY <1>1, <1>2 DEF SchemaNext

LEMMA TenantInvariant == SchemaSpec => []TenantInv
<1>1. SchemaInv /\ TenantInv /\ [SchemaNext]_schemaVars => TenantInv'
  BY TenantNext
<1> QED BY InitTenants, SchemaInvariant, <1>1, PTL DEF SchemaSpec

(* The exemption of LedgerTruthful is needed only without tenants.         *)
LEMMA IndexIsTruthful == SchemaInv /\ TenantInv => LedgerTruthful
<1> SUFFICES ASSUME SchemaInv, TenantInv,
                    NEW i \in DOMAIN Migrations, Applied(i)
             PROVE  AddedBy(Statements(dialect, i))
                      \ (IF Upgradable THEN {} ELSE TenantIndex.adds) \subseteq schema
  BY DEF LedgerTruthful
<1>1. AddedBy(Statements(dialect, i)) \subseteq schema \cup TenantIndex.adds
  BY DEF SchemaInv, LedgerCarriedOut
<1>2. Upgradable => TenantIndex.adds \subseteq schema
  BY DEF TenantInv, IndexFits, Applied
<1> QED BY <1>1, <1>2

(* A database without tenants is refused for good: whatever processes open *)
(* it, and however often they try, none of them gets its store open and no *)
(* row ever has a tenant (SCHEMA_SQL before MIGRATIONS).                   *)
THEOREM OldDatabaseIsRefused ==
    SchemaSpec /\ ~Upgradable =>
       [](~Upgradable /\ "tenant_known" \notin schema
            /\ \A s \in Stores : stage[s] # "open")
<1>1. /\ SchemaInv /\ TenantInv /\ [SchemaNext]_schemaVars /\ ~Upgradable
      => ~Upgradable'
  BY TenantNext
<1>2. TenantInv /\ ~Upgradable =>
         /\ ~Upgradable /\ "tenant_known" \notin schema
         /\ \A s \in Stores : stage[s] # "open"
  BY TenantNames DEF TenantInv, WithoutTenants, TenantFits, StuckInBase
<1> QED BY SchemaInvariant, TenantInvariant, <1>1, <1>2, PTL DEF SchemaSpec

(* A version in the ledger has been carried out, for any number of         *)
(* processes that open the database at once and die anywhere               *)
(* (DecisionStore._apply_migrations).                                      *)
THEOREM LedgerIsTruthful == SchemaSpec => []LedgerTruthful
<1>1. SchemaInv /\ TenantInv => LedgerTruthful
  BY IndexIsTruthful
<1> QED BY SchemaInvariant, TenantInvariant, <1>1, PTL

(* A list of base statements whose columns all come with the core tables.  *)
CoreCovers(p) ==
    /\ p \in Seq(Statement)
    /\ AddedBy(p) \subseteq AddedBy(CoreTables) \cup MadeBy(p)
    /\ MadeBy(CoreTables) \subseteq MadeBy(p)

LEMMA PlainExtends ==
    \A p, q : CoreCovers(p) /\ q \in Seq(Plain) => CoreCovers(p \o q)
<1> SUFFICES ASSUME NEW p, NEW q, CoreCovers(p), q \in Seq(Plain)
             PROVE  CoreCovers(p \o q)
  OBVIOUS
<1>1. p \in Seq(Statement) /\ q \in Seq(Statement)
  BY DEF CoreCovers, Plain
<1>2. /\ AddedBy(p \o q) \subseteq AddedBy(p) \cup AddedBy(q)
      /\ MadeBy(p) \cup MadeBy(q) \subseteq MadeBy(p \o q)
  BY <1>1, AddedByConcatenation
<1>3. AddedBy(q) \subseteq MadeBy(q)
  BY PlainAddsWhatItMakes
<1>4. p \o q \in Seq(Statement)
  BY <1>1
<1> QED BY <1>2, <1>3, <1>4 DEF CoreCovers

(* Only the core tables bring columns along (SCHEMA_SQL). *)
LEMMA CoreCoversBase == CoreCovers(BaseStatements)
<1>1. CoreCovers(CoreTables)
  BY BaseIsAList DEF CoreCovers
<1>2. CoreCovers(CoreTables \o RemediationTable \o CapabilityTable \o Ledger)
  BY <1>1, PlainExtends, SharedLists, ZenonT(30)
<1>3. CoreCovers(CoreTables \o RemediationTable \o CapabilityTable \o Ledger
                   \o QueryIndexes \o <<TenantIndex>> \o AuditIndexes)
  BY <1>2, PlainExtends, SharedLists, ZenonT(30)
<1>4. CoreCovers(CoreTables \o RemediationTable \o CapabilityTable \o Ledger
                   \o QueryIndexes \o <<TenantIndex>> \o AuditIndexes
                   \o RemediationIndexes \o CapabilityIndexes)
  BY <1>3, PlainExtends, SharedLists, ZenonT(30)
<1> QED BY <1>4, PlainExtends, SharedLists, ZenonT(30) DEF BaseStatements

(* What the core tables add. *)
LEMMA CoreColumns ==
    /\ AddedBy(CoreTables) \subseteq
          {"decisions", "approvals", "audit_meta", "decisions.request_digest",
           "decisions.tenant_id", "tenant_known",
           "decisions.agent_capability_digest",
           "decisions.tools_capability_digest", "approvals.used_at"}
          \cup ForeignKeys
    /\ {"decisions", "approvals", "audit_meta"} \subseteq MadeBy(CoreTables)
<1>1. /\ DOMAIN CoreTables = 1..3
      /\ CoreTables[1].adds = {"decisions"} \cup
           {"decisions.request_digest", "decisions.tenant_id", "tenant_known",
            "decisions.agent_capability_digest",
            "decisions.tools_capability_digest"}
      /\ CoreTables[2].adds = {"approvals"} \cup
           {"approvals.used_at", "approvals.fk"}
      /\ CoreTables[3].adds = {"audit_meta"} \cup {"audit_meta.fk"}
      /\ CoreTables[1].makes = "decisions" /\ CoreTables[2].makes = "approvals"
      /\ CoreTables[3].makes = "audit_meta"
  BY DEF CoreTables, CreateTable
<1>2. \A i \in 1..3 : i \in {1, 2, 3}
  OBVIOUS
<1>3. AddedBy(CoreTables) = UNION {CoreTables[1].adds, CoreTables[2].adds,
                                   CoreTables[3].adds}
  BY <1>1, <1>2 DEF AddedBy
<1> QED BY <1>1, <1>3 DEF MadeBy, ForeignKeys

(* The migrations add every column that the core tables of a fresh         *)
(* database have, and on PostgreSQL the foreign keys.                      *)
LEMMA MigrationsCoverCore ==
    ASSUME NEW d \in {"postgres", "sqlite"}, NEW S,
           \A i \in 1..9 : AddedBy(Statements(d, i)) \subseteq S
    PROVE  /\ {"decisions.request_digest", "decisions.tenant_id",
               "tenant_known", "decisions.agent_capability_digest",
               "decisions.tools_capability_digest", "approvals.used_at"}
                 \subseteq S
           /\ d = "postgres" => ForeignKeys \subseteq S
<1>0. 1 \in 1..9 /\ 2 \in 1..9 /\ 4 \in 1..9 /\ 5 \in 1..9 /\ 9 \in 1..9
  OBVIOUS
<1>1. \A a : a.adds \subseteq AddedBy(<<a>>)
  BY DEF AddedBy
<1>2. \A a, b : a.adds \cup b.adds \subseteq AddedBy(<<a, b>>)
  BY DEF AddedBy
<1>3. \A a, b, c : a.adds \cup b.adds \subseteq AddedBy(<<a, b, c>>)
  BY DEF AddedBy
<1>4. "decisions.request_digest" \in S
  <2>1. AddedBy(<<AddColumn("decisions", "decisions.request_digest")>>) \subseteq S
    BY <1>0, MigrationStatements, Zenon
  <2> QED BY <2>1, <1>1 DEF AddColumn
<1>5. "approvals.used_at" \in S
  <2>1. AddedBy(<<AddColumn("approvals", "approvals.used_at")>>) \subseteq S
    BY <1>0, MigrationStatements, Zenon
  <2> QED BY <2>1, <1>1 DEF AddColumn
<1>6. {"decisions.tenant_id", "tenant_known"} \subseteq S
  <2>1. AddedBy(<<AddColumn("decisions", "decisions.tenant_id"), Backfill,
                  TenantIndex>>) \subseteq S
    BY <1>0, MigrationStatements, Zenon
  <2> QED BY <2>1, <1>3 DEF AddColumn, Backfill
<1>7. {"decisions.agent_capability_digest",
       "decisions.tools_capability_digest"} \subseteq S
  <2>1. AddedBy(<<AddColumn("decisions", "decisions.agent_capability_digest"),
                  AddColumn("decisions", "decisions.tools_capability_digest")>>)
          \subseteq S
    BY <1>0, MigrationStatements, Zenon
  <2> QED BY <2>1, <1>2 DEF AddColumn
<1>8. ASSUME d = "postgres" PROVE ForeignKeys \subseteq S
  <2>1. AddedBy(<<AddForeignKey("approvals", "approvals.fk"),
                  AddForeignKey("audit_meta", "audit_meta.fk")>>) \subseteq S
    BY <1>0, <1>8, MigrationStatements, Zenon
  <2> QED BY <2>1, <1>2 DEF AddForeignKey, ForeignKeys
<1> QED BY <1>4, <1>5, <1>6, <1>7, <1>8

(* A store that opened has everything a fresh database has, from whichever *)
(* release the database came (DecisionStore.__init__).                     *)
THEOREM OpenStoreIsComplete == SchemaSpec => []OpenIsComplete
<1>1. ASSUME SchemaInv PROVE OpenIsComplete
  <2> SUFFICES ASSUME NEW s \in Stores, stage[s] = "open"
               PROVE  AddedBy(BaseStatements)
                        \ (IF dialect = "sqlite" THEN ForeignKeys ELSE {})
                        \subseteq schema
    BY DEF OpenIsComplete
  <2>1. MadeBy(BaseStatements) \subseteq schema /\ Versions \subseteq ledger
    BY <1>1 DEF SchemaInv, InHand, BaseInHand
  <2>2. \A i \in 1..9 : AddedBy(Statements(dialect, i))
                            \subseteq schema \cup TenantIndex.adds
    BY <1>1, <2>1, MigrationsKnown
       DEF SchemaInv, LedgerCarriedOut, Applied, Versions
  <2>3. dialect \in {"postgres", "sqlite"}
    BY <1>1 DEF SchemaInv, SchemaTypeOK
  <2>4. /\ {"decisions.request_digest", "decisions.tenant_id",
            "tenant_known", "decisions.agent_capability_digest",
            "decisions.tools_capability_digest", "approvals.used_at"}
              \subseteq schema
        /\ dialect = "postgres" => ForeignKeys \subseteq schema
    <3>1. TenantIndex.adds = {"idx_decisions_tenant_created"}
      BY DEF TenantIndex, CreateIndex
    <3>2. /\ {"decisions.request_digest", "decisions.tenant_id",
              "tenant_known", "decisions.agent_capability_digest",
              "decisions.tools_capability_digest", "approvals.used_at"}
                \subseteq schema \cup TenantIndex.adds
          /\ dialect = "postgres" => ForeignKeys \subseteq schema \cup TenantIndex.adds
      BY <2>2, <2>3, MigrationsCoverCore
    <3> QED BY <3>1, <3>2 DEF ForeignKeys
  <2>5. /\ AddedBy(BaseStatements)
              \subseteq AddedBy(CoreTables) \cup MadeBy(BaseStatements)
        /\ MadeBy(CoreTables) \subseteq MadeBy(BaseStatements)
    BY CoreCoversBase DEF CoreCovers
  <2> QED BY <2>1, <2>3, <2>4, <2>5, CoreColumns
<1> QED BY SchemaInvariant, <1>1, PTL
=============================================================================

# Verification of the AI infrastructure control plane

TLA+ models of the control plane's durable governance: who may be allowed what,
by whose approval, under which policy bundle. Source paths are relative to `src/`; the
API's code is `apps/control-api/app`, abbreviated `app`.

## 1. Inventory

The control plane is a FastAPI service (`app`), run as one or more replicas over one
authoritative store: SQLite (one process, one connection under `_op_lock`) or PostgreSQL
(a pool, READ COMMITTED). Handlers are plain functions on a thread pool, so two
requests of one replica run concurrently too.

| Component | State it keeps | Operations | Interacts with | Hard behaviour | What makes it correct |
| --- | --- | --- | --- | --- | --- |
| Durable approvals (`durable_governance`, `routers/governance`, `routers/approvals`) | tables `decisions`, `approvals`, `audit_meta` | evaluate, retry with `x-ai-approval-id`, approve/reject, lazy expiry, listing, purge | policy cache, capability digests, enrichment | checks and writes in different sessions, racing retries and reviewers, crash between consume and record | one approval is worth one allowed request, bound to what was approved; answers are final; the audit table agrees |
| Policy bundle lifecycle (`policy_lifecycle`, `policy_bundle`) | table `policy_bundles`; per process: cache, previous, candidates, observed generation, bootstrap error | validate, simulate, activate, rollback, sync, boot, reload | evaluate, `/readyz`, policy sources | overlapping activations, sessions that fail and are not rolled back (SQLite), stale syncs, crash between store and cache, sources that change | one selection; replicas run only selected bundles and catch up; rollback restores |
| Remediation (`remediation_service`, `routers/remediation`) | table `remediation_proposals` | propose, evaluate, resolve, prepare PR, mark applied, verify | approvals, GitOps provider, probe cache | read-modify-write without compare-and-set, two tables in two commits | the status follows its life cycle; applied only after approval; verification is of fresh probes |
| GitOps provider (`gitops_provider`) | external repository | prepare a branch and a pull request | remediation | retry after a lost answer | at most one pull request per proposal |
| Capability contracts (`capability_service`, `routers/capabilities`) | table `capability_contracts` | import, activate, retire, resolve | evaluate, approvals | two UPDATEs per activation, no rollback on SQLite, one commit per imported entry, digests resolved twice | an activation (on PostgreSQL an undisturbed one) or an undisturbed import decides what is in force; a grant records what it compared |
| Schema migrations (`db_schema`, `decision_store`) | the schema, table `schema_migrations` | open the store | every process at start-up | concurrent start-ups outside the lock, crash between statement and record, two engines, old databases | the ledger is truthful; an opened store is complete; every process opens at last |
| Quota state (`quota_state_service`) | Redis counters and the older hash | increment, read | enrichment | keys that expire between reads, scripts that run after the client gave up, an outage | a reading misses no confirmed request and invents none |
| Probe cache (`probe_cache`) | TTL cache | get, clear | backends, verification | stale results | verification never reads a result older than the change |
| Governance inputs (`governance_inputs`, `server_signals`) | none | replace the caller's claims by the server's values | quota state, Prometheus, pricing, classification | Redis down or off, callers who may simulate | a claim of the body decides nothing in production |
| Governance engines (`governance_service`, `governance/*/evaluate.py`) | none | pure verdicts | policy bundle, governance inputs | order of precedence, skipped and replaced stages, boundaries | the strictest stage decides; no outage lets a request through |
| Offline pipeline (`governance/pipeline`) | none | the same engines over CSV rows | | a second copy of the precedence | agrees with the service |
| Identity, RBAC, tenants (`identity_service`, `authz`, `rbac`) | none | resolve, require | everything | two resolvers of the tenant, three switches | tenants never see each other's rows, and find their own |
| Views: backends, topology, fleet, FinOps, drift, runbooks, dashboard | none | read | probes, YAML | | |

`PROJECT.json` lists every component with its status, and every hazard of the code with
its line and the properties that address it.

## 2. Modules

| Module | Models | State | Actions |
| --- | --- | --- | --- |
| `ApprovalContract` | abstract: what an approval promises a requester | `state`, `permits`, `allowed` | Open, Bypass, Answer, Redeem, Record, Lose, Clean |
| `ApprovalLifecycle` | durable decisions and approvals | the three tables, the clock, every handler's stage (`pc`) and request (`job`) | one per store session or transaction of the handlers |
| `MCApprovalLifecycle`, `Approvals_*.cfg` | TLC instances | | |
| `ApprovalLifecycleProofs` | theorems about `ApprovalLifecycle` | | |
| `PolicyContract` | abstract: what the choice of a bundle promises an operator | `standing`, `last`, `latest`, `runs` | Select, Run |
| `PolicyLifecycle` | policy bundle selection | the table `policy_bundles` as sessions see it (`row`, `selected`) and as last committed (`durable`), each replica's process state, sources, handlers | one per store session, activation statement or locked section |
| `MCPolicyLifecycle`, `Policy_*.cfg` | TLC instances | | |
| `PolicyLifecycleProofs` | theorems about `PolicyLifecycle`, each under the kind of store it needs | | |
| `GovernancePipeline` | enrichment, the engines, the final verdict and its offline copy | one evaluation: `request`, `world`, the enriched `row`, the decision of each `stage`, `verdict` | Ask, WorldMoves |
| `MCGovernancePipeline`, `Pipeline_verdict.cfg` | the shipped YAML as constants | | |
| `GovernancePipelineProofs` | theorems about `GovernancePipeline` | | |
| `Remediation` | proposals, the approvals of their evaluations, the Git host, the probe caches | `proposal`, `eval`, `events`; external `committed`, `pull`, `live`; `cache`; handlers | one per store session, call to the host or locked section |
| `MCRemediation`, `Remediation_*.cfg` | TLC instances | | |
| `RemediationProofs` | theorems about `Remediation` | | |
| `SchemaMigrations` | opening the store | `schema` (facts), `ledger`, each process's transaction, stage and statements left | one per statement, commit or lock |
| `CapabilityContracts` | contracts and the pins of a grant | `status` of every contract, callers' tasks | one per store session or statement of an activation |
| `QuotaState` | the counters in Redis | keys with expiry, the clock, clients' calls; history of increments | one per command |
| `AccessScope` | whose records a request writes and reads | `mode` (three switches), `records`, the last reading | Record, Read |
| `MCPlatform`, `Platform_components.cfg`, `Schema_upgrade.cfg` | TLC instances of these four | `part`: which of them moves | |
| `SchemaMigrationsProofs`, `CapabilityContractsProofs`, `QuotaStateProofs`, `AccessScopeProofs` | theorems about them | | |

### Approvals

A handler is a process. `POST /governance/evaluate` without an approval id is
ReceiveEvaluate, PersistEvaluation; with one it is ReceiveEvaluate, LookupApproval,
CheckBinding, ConsumeApproval, PersistGrant, and falls through to PersistEvaluation
wherever `approval_grants_allow` returns False. `POST /approvals/{id}/approve|reject` is
ReceiveResolve, ResolveCheck, ResolveWrite, AuditResolution. Expiry has no worker: it
happens inside reads (LookupApproval, ResolveCheck, ReadApproval), listings and counts
(ListApprovals, also from `GET /metrics`) and the purge (PurgeRetained). Crash stops a
handler between any two of its commits; that is also a 503 of the store.

An approval is named by its decision, because `persist_evaluation` opens at most one in
the decision's own transaction; identifiers are uuids, so one is never reused (`issued`).
The row field `asked` and `via` are history: the digest of the request as it was sent, and the
approval a decision was allowed through (the code keeps the latter in the audit payload).
The verdict pipeline only reads, so its outcome is any verdict; the policy digest in a
replica's cache and the capability digests in force are any values of their sets, which
covers every interleaving with `PolicyLifecycle`. A subject is never empty, and
reviewers are compared after trimming and lower-casing, so a person is a model value. With
tenant isolation off, `TenantOf` is constant.

On SQLite the sessions of `resolve_approval` and `get_approval` are atomic; the model
splits check and write as PostgreSQL does, which allows more behaviours. A SQLite file upgraded
from a version without foreign keys accepts an audit event for a purged decision;
the model has the foreign key.

### Policy bundles

`Upsert` is `upsert_policy_bundle_candidate`; the activation transaction is Begin (target
and `MAX(generation)`), Retire (the rows the first UPDATE sees) and Commit (both UPDATEs
take effect). With `Overlap = TRUE` other transactions run between those statements,
as PostgreSQL allows at READ COMMITTED: the UPDATE that waited for a row re-evaluates
its WHERE, which is why Commit retires only rows that are still active. With
`Overlap = FALSE` a transaction excludes every other store access. Generation 0 is NULL.
Equal generations are ordered by `updated_at` in the code; the model takes either.

What becomes of a session that fails depends on the store, and two constants say which:

| Store | `Overlap` | `RollsBack` |
| --- | --- | --- |
| PostgreSQL, whose pool rolls a failing session back | TRUE | TRUE |
| PostgreSQL with operators who activate one bundle at a time | FALSE | TRUE |
| SQLite: one process, one connection under `_op_lock` | FALSE | FALSE |

On a store that rolls back, Abort is the only failure: the transaction never happened, or it did and the
answer was lost. The SQLite branch of `_session()` only releases the lock, and the upsert, the activation
and the rollback of a bundle do not use `transaction()`. So FailUncommitted leaves what was executed on
the connection that every handler shares: the upsert, the first UPDATE of an activation (after
which no row is active), or both. All sessions read it from there, so `row` shows it and `durable` does not.
Whoever commits next makes it durable (OthersCommit stands for every other commit of the process;
Upsert and Commit do it, too), a session of `transaction()` that fails undoes it (OthersRollBack), and so
does the death of the process (Restart).

A bundle is its content digest. `source[b]` is what loading the recorded source of b
yields now: b, nothing, or another bundle; the environment may change it within
`Contents`. A sync is ReadActive, then Install: comparing, loading and installing is
one step, since any later install of a concurrent sync could equally have come after it. `failed`
is `bootstrap_error`, which makes `/readyz` answer 503.

`PolicyContract` is the operator's view: numbered selections, each of which displaces the one before,
and replicas that run the shipped bundle or one selected before. `KeepsContract` maps
an active row to "governs", a previous row to "stands by", any other (a candidate is invisible) to "never",
the generation column to `last`, the highest generation to `latest` and the caches to `runs`.
So Commit is Select, a switch, sync, fallback, boot or reload is Run, and the rest stutters.

### The verdict

`POST /governance/evaluate` without an approval reads and computes; what it stores is in
`ApprovalLifecycle`. So `GovernancePipeline` is a set of operators, one per engine and per
step of `enrich_governance_request`, and `Evaluate` composes them as `governance_evaluate` does
(`Stages` and `Verdict` together are `evaluate_governance_request`). A state is one
evaluation. A step asks again with one
field of the request, or one fact of the world, changed: invariants then speak of every
evaluation within the bound, and action properties of pairs of evaluations.

The bundle and the prices are constants: functions and records with the keys of the YAML, so
`MCGovernancePipeline` is the shipped bundle and the theorems speak of every bundle. Reads
are modelled by what they return: `redis` is up, down (an error) or off (not
configured), a Prometheus signal may be missing. `request` holds what the caller sent after
authentication, plus three facts of its headers: a sensitive label, a writers group, the right to
simulate. A prompt is the set of kinds of pattern found in it. Money is in 0.0001 USD and
thousands of tokens are the unit, so prices stay whole; what the code rounds beyond that is
abstracted. Lower-casing matters because two engines normalise a provider or an environment and
the others do not, and is a function on the few names that have capitals. The texts of reasons
are left out. A bundle that lacks a key for which the code has a default is
written with that default.

### Remediation

Every operation reads the proposal, requires its transition (`Allows`), works in
further sessions, and writes with `UPDATE ... WHERE proposal_id = ?`, whatever the status
has become. So Start* is read and check, the middle steps are the work (persist_evaluation;
resolve_approval and append_audit_meta; the calls of the GitHub provider; the cache and its
probes), and the last step writes the row as it is then. Every step but the first may be
replaced by Abort: the replica died, the store or the host answered with an error.

An evaluation `e` names a decision and, if its verdict is `approval_required`, the approval opened
with it. `ResolveElsewhere` is `POST /approvals/{id}/...` and expiry, which know nothing of
proposals. Consumption and purge of such an approval are left to `ApprovalLifecycle`: no operation
of a proposal looks at either. `None` as a pull request stands for a URL the caller supplied and
for the no-op provider, which calls nothing. The host follows GitHub: one open pull request
per branch, 422 for another one, and people who merge or close at any time. Proposals share nothing
but the probe cache, so the runs have one. `since` in a job is history: the backends that would
have answered in sync at some moment since the handler read the proposal.

### Schema

A fact is a table, a column that some release added, an index or a foreign key, or
`tenant_known`: every row has a tenant. A statement adds facts, needs facts, and is named by
the fact that `IF NOT EXISTS` (or, on SQLite, the swallowed "duplicate column") looks for.
`Historic(d, k)` is the database that releases up to migration k left; `SchemaInit` starts
from one of those or from nothing. On PostgreSQL the base schema is one transaction *outside* the
advisory lock; two processes that create the same thing meet in a unique index, where the second
waits and fails when the first commits (CommitBase chooses who was waiting). Migrations run under
the lock, a transaction each. On SQLite all stores are threads of one process under
`_sqlite_schema_lock`, data definition commits by itself until the first statement that
writes rows has opened a transaction, and a crash takes all of them. Fail is a statement that
fails: the store is not opened, and get_decision_store tries again with the next request. On
PostgreSQL the unlock that follows a failed migration commits the statements before it, without a ledger
row. Refuse is a failure because the statement cannot succeed, Disturb one of a
statement that could: a timeout, a lock, a full disk. Disturb shares the budget of crashes. A failure of the
INSERT into the ledger is not modelled: it leaves what a failure of the last statement leaves, plus that
statement.

### Capability contracts

A contract is a row, unique by kind, name, tenant and digest; `NameOf` is the first three of
these. `set_capability_contract_status` to active is RequestActivation, RetireOthers (the rows
the first UPDATE sees) and SetActive (commit); the same two follow each entry of an
import that activates. On PostgreSQL other callers run in between; on SQLite `SessionFree` keeps them
out until the session ends. `StoreFails` ends a caller
anywhere; on SQLite `set_capability_contract_status` does not roll back, so what it executed stays
on the shared connection. A governed request resolves pins twice: RequestGrant, ReadAgent,
ReadTools, and after the consume ReadAgent, ReadTools, Persist. What the approved decision
had recorded is any set of pins once in force (`EarlierPins`). `moved` is history: a status was
changed by somebody else since.

### Quota counters

`Gateways` are calls that count usage (the trusted gateways for which `incr_quota_counters` is written;
nothing in `src/` calls it), `Evaluators` the control plane's readings. Each command to Redis is a step, the
scripts are atomic. `at` is the client's clock when it built
the keys, and a client gives up after `Patience`; a script it sent may run at any later time
(`lost`). A tick is a minute, a day is scaled to `Day` of them, so a counter of requests lives for two ticks and
one of tokens for two days. Clients and Redis share
the clock; drift between them is not modelled.

### Access scopes

A request is a record of what its token, its headers and its body say. `WorkloadTenant` is
`resolve_workload_identity`, whose tenant `persist_evaluation` records; `RequestTenant` is
`resolve_request_tenant`, to which readings are limited; `ListScope` is `tenant_for_request`. `Or` is
Python's `or` on strings, and an error ends a chain like any other non-empty string. Python's
short-circuit matters: `tenant_for_request` is asked first for proposals. That the comment in
`routers/remediation.py:107` holds, a body tenant is not used with JWT-only tenants, is part of
`TenantsKeptApart`: a token without tenant is refused before the fall-back is reached, unless its
bearer may work across tenants.

## 3. Runs

### Approvals

| Run | Bounds | Shows |
| --- | --- | --- |
| `approvals_lifecycle` | 2 handlers, 2 identifiers, 2 people, clock 0..2, TTL 1, retention 1, purge limit 1, symmetric in handlers, identifiers and people | `TypeOK`, `OneTimeUse`, `AuditTrail`, `AnswerIsFinal`, and `KeepsPromise`: the refinement of `ApprovalContract` |
| `approvals_expiry` | 1 handler, 2 identifiers, 3 people of 2 tenants, 2 policies, changing capability digests, clock 0..1, TTL 1, fair | `GrantIsBound`, `StaleApprovalsClose` |
| `approvals_grant_after_expiry` | violation | an approved approval never expires (`ExpiryHonoured`) |
| `approvals_enriched_retry` | violation | enrichment breaks the binding of an identical retry (`RetryIsGranted`) |

Why the bounds are enough. The races are between two handlers on one approval (two
retries, two reviewers, a retry and a purge), so two handlers meet all of them; a
grant needs the asking decision and the allowed one, hence two identifiers. With TTL
and retention 1 a clock of three values reaches a pending, an expired and a purged
approval with a handler in any stage. `approvals_expiry` trades handlers for data: one handler, and enough people, tenants and
policies that `GrantIsBound` can tell a grant under another policy, for another tenant or by the asker
from a proper one. It has one request digest, so it does not test the comparison of digests, and
nothing comes between a handler's check and its write; a second digest or handler takes this run beyond
minutes. `GrantIsBoundHolds` proves the property for any digests and handlers, with purges in between.
The clock needs only the moment at which an approval is as old as its TTL.

### Policy bundles

| Run | Bounds | Shows |
| --- | --- | --- |
| `policy_rollback` | SQLite: 1 replica, 1 thread, 3 bundles, activations asked for up to generation 4, failures that are not rolled back, sources that stay readable | `OneSelection`, `RollbackRestores` |
| `policy_catch_up` | a store that rolls back: 1 replica, 2 threads, 2 bundles, activations asked for up to generation 2, outages, serialised activations, fair | `TypeOK`, `RunsSelected`, `OneSelection`, `CatchesUp`, and `KeepsContract`: the refinement of `PolicyContract` |
| `policy_stuck_unready` | violation, a store that rolls back, fair | readiness never recovers (`ReadyAgain`) |

`MaxGen` bounds the generation beyond which nobody asks for another activation; what is
in flight still completes. Two threads on one replica are the worst case for a process's cache,
and as good as two replicas for the table, whose sessions they interleave all the same; the
theorems speak of any number of either. Three bundles are needed only to tell the previous
bundle from an older one. On SQLite activations exclude each other, so one thread is enough to leave
something pending, and the steps of everybody else that matter are OthersCommit and OthersRollBack.
No run has overlapping activations, nor a boot that seeds after another replica's selection: those
are covered by the theorems that do not assume `~Overlap`, for any number of replicas.

### The verdict

| Run | Bounds | Shows |
| --- | --- | --- |
| `pipeline_verdict` | five starting points (ordinary development and production requests, a playground caller, an external deployment, an outage), up to two changed fields of 31 | `TypeOK`, `StrictestStageWins`, `ReportAgrees`, `FailsClosed`, `ClientSignalsIgnored`, `GraverNeverSofter` |

Why the bounds are enough. One change makes a stage object, so two make any two stages object
at once, and the precedence of `final_verdict` can only be wrong for such a pair. Amounts are taken below, at and above the limits of the shipped YAML (119 and 120
requests, 1998 and 1999 thousand tokens before a request of 2, a cost at the warning, spend
at the budget). A starting point whose model the shipped registry does not know covers the
branches for unregistered models. All six properties are also proved without these
bounds, `GraverNeverSofter` for bundles without negative weights and rates.

### Remediation

| Run | Bounds | Shows |
| --- | --- | --- |
| `remediation_races` | 2 handlers on 1 replica, 1 proposal, 2 evaluations, 2 pull requests, 1 backend, symmetric in all but the last | `TypeOK`, `ConsentFirst`, `AnswersAudited`, `PullRequestComplete`, `FreshVerification` |
| `remediation_stuck` | violation, fair | a proposal waits for an answer for ever (`AnswerArrives`) |

Two handlers are what the races need (two operators, or an operator and a retry of a
request whose answer was lost). The second evaluation is the one that overlaps the first,
the second pull request the one opened after the first was merged. One replica is the
hard case for the cache, because the other handler's requests fill the very cache that
a verification has cleared.

### The components that share nothing

| Run | Bounds | Shows |
| --- | --- | --- |
| `platform_components` | schema: 2 processes, both engines, an empty database and those with the first 0, 4, 5 and 7 of the nine migrations (002 to 010), 1 crash or failing statement; contracts: 2 callers, one of them also governed, 3 contracts of 2 names, 2 registry images; quota: 2 calls that count, 1 that reads, 2 increments, minutes 0 to 4, days of 2 minutes; scopes: 32 requests in 8 modes, 1 record | `LedgerTruthful`, `OpenIsComplete`, `StoresOpen`, `LoneActivationDecides`, `SyncSelects`, `GrantRecordsComparedPins`, `ReadingIsCurrent`, `TenantsKeptApart`, `OwnDecisionsReadable` |
| `schema_upgrade` | violation, fair | a database older than migration 006 is never opened (`RowsBackfilled`) |

In a behaviour of `platform_components` one part moves and the others rest, so the states of
the four add up instead of multiplying: they share no variable, and no property relates two of
them. The run does not check deadlock because opened stores and exhausted bounds stop.

Why the bounds are enough. Two processes meet in every statement; an empty database needs
everything, those with 5 (up to 006) and 7 migrations what later releases added, and those with 0
and 4 know no tenants and are refused. Two callers race on two contracts of one name; the third contract is of a
tool, so that pins have two parts. The four minutes that pass are the life of a counter of tokens and twice
that of requests: both kinds of keys expire, one counter is there without the other, and a reading
meets the hash of an earlier minute of its day. One reading at a time is enough, because readings
write nothing. A reading looks at each
record by itself, so one record meets every reader; the requests contradict themselves in token,
headers and body in every way that the resolvers tell apart.

### Fairness

* `platform_components`, `schema_upgrade`: a process that runs goes on, and one whose store is not
  open tries again (its supervisor restarts it, or the next request asks for the store). It need
  not die or be disturbed.

* `approvals_expiry`: the clock runs, and `GET /metrics` keeps being scraped (the chart's
  ServiceMonitor, or the scrape annotation), which counts pending approvals and so
  expires them. Nothing is assumed of handlers.
* `policy_catch_up`, `policy_stuck_unready`: a handler that began goes on (a thread is
  scheduled), a replica that is down is booted (Kubernetes), and readiness probes arrive
  forever, however busy the replica is (strong fairness of ReadActive: kubelet probes
  arrive on their own timer). Nothing is assumed of operators, and restarts and source
  outages may happen at any time; the properties speak of replicas that stay up and
  sources that recover.
* `remediation_stuck`: a request that was accepted goes on, and an operator who sees a
  proposal waiting keeps answering (strong fairness of StartResolve). Both favour the
  property; it fails all the same.

## 4. Proofs

`ApprovalLifecycleProofs` proves, for any sets of handlers, identifiers, people and
digests, and any TTL, retention and purge limit (from `ApprovalAssumption` alone):

* `TypeCorrect`: `Spec => []TypeOK`. TypeOK includes what a handler at a stage relies on:
  the approval it names was handed out, its person and its answer are real.
* `OneTimeUseHolds`: `Spec => []OneTimeUse`.

OneTimeUse is not inductive: that an identifier handed out now is not yet somebody's
`via`, nor the approval some handler holds, has to be known. `UseInv` adds `Known`: every row
outside `issued` is absent, and every `via` of a present decision was issued. The argument:
a permit appears only in ConsumeApproval, whose compare-and-set needs "approved", and
leaves the row "consumed"; while any permit or grant exists the row is consumed or purged,
and no action leads from there back to "approved"; PersistGrant turns the one permit into
the one decision under a fresh identifier.

* `GrantIsBoundHolds`: `Spec => []GrantIsBound`. The invariant `BoundInv` says what a handler that
  checked in an earlier session may still rely on (`ChecksHold`): as long as the asking decision is
  there, its digest, policy and subject are what they were, because decisions are inserted once and
  only purged afterwards; a purge makes the statement void, and identifiers do not come back.
* `AuditTrailHolds`: `Spec => []AuditTrail`. The event of an answer is written one transaction after
  the answer, so `AuditInv` adds that what a handler is about to tell is true, has not been told, and
  is about to be told by nobody else; a crash only leaves it untold.
* `AnswerIsFinalHolds`: `Spec => AnswerIsFinal`. Every step moves an approval in one of five ways
  (`MovesOn`), and who is pending has no reviewer yet.
* `PromiseKept`: `Spec => KeepsPromise`, the refinement of `ApprovalContract`. Under the mapping of
  the module (`State`, `Permits`, `Allowed` in the proof) every session is one step of the contract or a
  stutter: consuming is Redeem, recording is Record, a crash that holds a permit is Lose, expiry and
  purge are Clean. One-time use is what makes giving up a permit exact: nobody else holds it.

`PolicyLifecycleProofs` proves, for any handlers, replicas and bundles (from `PolicyAssumption`; a
theorem that needs more of the store or of the sources has it as a hypothesis):

* `TypeCorrect`: `Spec => []TypeOK` on every store, again with what each stage relies on.
* `RunsSelectedHolds`: `Spec => []RunsSelected`, if `RollsBack` and `SourcesPinned`: a source may become
  unreadable but yields no other bundle. Both are needed: the fallback of a
  rollback installs what the source yields without comparing digests, and on SQLite a sync installs a
  selection that may still be undone.

The inductive invariant is `PolicyInv`. `Tables` adds that in the table as sessions see it and in the
durable one every active or previous row was selected under its generation, and how the two differ:
what is durable was shown, and a bundle in force has a durable row. `Sound(s, j)` says what a handler at
stage s may rely on: its target has a row, what it is about to install or switch to was selected. Both
survive the steps of other handlers because rows never vanish and, on a store that rolls back, selections
are only added (`Grows`), which is why no exclusion between transactions is needed. What runs do
for one order of activations (`policy_catch_up` is serialised), the theorem does for all.

It also proves two theorems of activations that exclude each other (`~Overlap`):
`OneSelectionHolds`, `Spec => []OneSelection`, and `RollbackRestoresHolds`,
`Spec => RollbackRestores`. The assumption is needed: overlapping ones can share a generation. It is all
they assume, so they hold on SQLite, too, where `OneSelection` says less: an active row is the one
selected last, but an activation that failed half-way may have left none.
The invariant `SelectionInv` adds that each of the two tables shows the order of selections (`SelectionTable`: no
generation was given twice, every selected bundle is active or previous, and active is none but the one with the
latest generation) and that what an activation has read is still so while it runs (`ReadsHold`), which
is what exclusion buys.

* `ContractKept`: `Spec => KeepsContract` if `~Overlap`, `RollsBack` and `SourcesPinned`, the refinement of
  `PolicyContract`. Each hypothesis is needed: overlapping transactions can hand out one number twice, a
  retirement that stays without its activation is no step of the contract, and a source that yields something else is run without having been selected. That selections are numbered
  without a gap takes a conjunct of `ReadsHold` that the other theorems do not: the generation an
  activation was given is one more than that of some row (and, with the rest, than the highest) until it
  commits. What a replica starts to run was selected by `RunsSelected` in the next state.
* `AlwaysGoverned`: `Spec => [](selected # {} => Having("active") # {})` if `RollsBack`, also for overlapping
  activations. From the first selection on no state has a table without an active row, so no boot that reads
  later seeds the configured bundle. On SQLite both can happen (section 5).
* `ProbesNeverRepair`, an action property of every instance, is the safety behind what
  `policy_stuck_unready` shows of one. `Unready(r, b)` says that r runs the selected bundle under its
  generation, has `failed` set, and that its handlers have neither committed nor are installing
  anything else (`Harmless`), and that nothing is pending on the connection. Only a commit, on SQLite a
  session that fails uncommitted, a restart or a reload leads out of it; probes, evaluations,
  validations and activations that fail otherwise do not.

`RemediationProofs` proves, for any number of handlers, replicas, proposals, evaluations and pull
requests (from the assumption of the module): `TypeCorrect`, `ConsentFirstHolds`,
`AnswersAuditedHolds`, `PullRequestCompleteHolds` and `FreshVerificationHolds`, each
`Spec => []P`. Handlers overwrite a proposal without looking at it again, so an invariant about rows alone
is not inductive: `RemediationInv` says what each stage of each handler relies on (the evaluation it
read was answered, its branch is committed) and that those facts only grow (`Grows`): an approval that
was given, an event that was written and a commit on the host stay. For fresh verification,
`FreshInv` says that `since` collects whatever was in sync after the handler read the
proposal, and that a cache cleared by it holds nothing older, whoever fills it.

`StrandedForGood`, `Spec => [][\A p : Stranded(p) => Stranded(p)']_vars`, says of every instance what
`remediation_stuck` shows of one: a proposal whose linked approval was answered or expired without
it stays where it is whatever later requests do. `Stranded` requires that nobody is
in the middle of answering or evaluating that proposal, because such a handler still writes.

`GovernancePipelineProofs` proves, for every bundle, pricing table, classification and
set of requests (from `PipelineAssumption`: starting points have the declared fields, the
outage policy is one of three; `FieldsAssumption`: amounts are natural numbers, as `ge=0` of the
request model demands, a reading may be missing, flags are Boolean; `NumbersAssumption`:
limits, weights and rates are integers):

* `TypeCorrect`, `FailsClosedHolds`, `StrictestStageHolds`, `ReportAgreesHolds`:
  `Spec => []P` for `TypeOK`, `FailsClosed`, `StrictestStageWins`, `ReportAgrees`.
* `ClientSignalsIgnoredHolds`: `Spec => ClientSignalsIgnored`.
* `GraverNeverSofterHolds`: `Spec => GraverNeverSofter`, if `NoDiscount`: no weight of the risk score
  and no token rate is negative. The loaders take any number, so this is a hypothesis and not an
  assumption; TLC checks that the shipped YAML satisfies it (`ShippedRules`). That thresholds be
  ordered is not needed, because every comparison is monotone by itself.

The inductive invariant is `Evaluated`: request and world are records with the declared fields,
and row, stage and verdict are what the operators make of them. The first four follow from it by lemmas about the operators:
`StagesTyped` (which decisions each stage can return), `FinalVerdictIsStrictest`,
`AllowedOnlyByQuota`. For the last, `EnrichmentReplaces` shows that two rows that
differed in claims are equal after enrichment, up to the counters when Redis does not answer, and
`OnlyQuotaCounts` that no stage but quota looks at those, whose result the outage policy
replaces. For `GraverNeverSofter` the argument follows a fact through the code: graver facts
give a row that is worse in every amount and flag (`GraverIsWorse`), enrichment keeps that order, each
engine maps a worse row to a result as strict or stricter (`QuotaKeepsOrder`, `CostKeepsOrder`,
`ScoreKeepsOrder` and so on), and the final precedence is monotone in every stage
(`FinalVerdictKeepsOrder`).

`SchemaMigrationsProofs` proves, for any number of processes, origins, crashes and failing statements on either
engine (from `SchemaAssumption`):

* `LedgerIsTruthful`: `SchemaSpec => []LedgerTruthful`.
* `OpenStoreIsComplete`: `SchemaSpec => []OpenIsComplete`.
* `OldDatabaseIsRefused`: `SchemaSpec /\ ~Upgradable => [](~Upgradable /\ ...)`: from a database without
  tenants no store ever opens and no row ever gets a tenant. It says of every instance what
  `schema_upgrade` shows of one.

The inductive invariant says what a process has behind it: what the statements already executed
of its migration make is visible to it, and what a process sees it either finds committed or has in
its own transaction. Facts are never lost by a commit, and only an abandoned transaction loses
facts, those of a process that then begins anew. Completeness follows from the ledger being
complete when a store opens and from the base schema, whose every fact some migration makes or
every origin has. `TenantInv` is about databases without tenants: every process is closed or has the
statement that needs the column still before it (`StuckInBase`), and a transaction on an empty
database has created `decisions` with the column first, so that no database becomes one without.
Such a database may have the ledger row of 004 but not the index that 004 gained
later; it is what `LedgerTruthful` exempts, and nothing else.

`CapabilityContractsProofs` proves, from `ContractAssumption`, `ActivationDecides`:
`ContractsSpec => LoneActivationDecides`. The invariant is that an activation which is not marked
`moved`, or runs on SQLite, still has in `retire` exactly the other active contracts of its name; on SQLite
because only one caller at a time is inside a session (`OneSession`). Two more theorems
take stronger invariants over the same steps:

* `SyncSelectsHolds`: `ContractsSpec => SyncSelects`. As long as nobody disturbs an import, whatever it has
  gone through is active (`SyncFits`), and the entries still to come retire only contracts of
  their own names; the names in an image differ because a registry is a mapping by name.
* `GrantRecordsHolds`: `ContractsSpec => GrantRecordsComparedPins`. What a request has read it would read
  again as long as no status changes (`GrantFits`); where one contract of each name is in force, what it
  would read is one value.

`QuotaStateProofs` proves, from `QuotaAssumption`, for any gateways and evaluators and any bounds on ticks and
increments, `QuotaTypeCorrect` (`QuotaSpec => []QuotaTypeOK`) and `ReadingIsCurrentHolds`
(`QuotaSpec => []ReadingIsCurrent`). A reading is compared
with what happened before it began, so the property is not inductive. `QuotaInv` balances the books of
every minute and day: a counter is at most what was sent minus what is under way, and at least what was
acknowledged or has been executed without an answer, until its key may have expired; a key holding
anything expires no earlier than that. `HashFits` says that the shared hash, whoever wrote it
last, holds no more than was sent in the minute and the day it names, and `ReadingFits` what each of the
three reads of a client may have seen. Only finitely many clients are busy at a time, which makes the sums over
calls under way finite; that is part of the invariant, not an assumption.

`AccessScopeProofs` proves, for every set of requests (from `RequestAssumption`),
`TenantsStayApart` and `OwnDecisionsAreReadable`. The invariant says where a record's tenant came
from and that a reading was within its reader's scope; the work is in the lemmas that relate the
two resolvers case by case.

Every safety and action property of the passing runs is stated by a theorem. Model-checked only
are liveness (`StaleApprovalsClose`, `CatchesUp`, `StoresOpen`), since the prover has no
support for fairness, and what the violation runs show.

## 5. Findings

Each violation run above is a disagreement between the code and a line of its own
documentation; `PROJECT.json` quotes both. In short: approved approvals never expire;
enrichment invalidates an identical retry; a rollback's fallback leaves the replica unready;
a database from before migration 006 is refused by the base schema, which indexes the column that
006 would add; a proposal whose linked approval was answered directly never moves on.

The models show more of what this code does, and the properties are stated so as to hold
regardless. Activations that overlap at READ COMMITTED can share a generation. A sync that
read its record before an activation can put the replica back until the next sync. A boot
that found the table empty seeds even after someone selected. An activation of a bundle the
replica does not hold loads its source and activates what that yields, under the digest it
has by then. An outage of Redis replaces the whole quota result, so with
`QUOTA_ON_UNAVAILABLE` at `approval_required` or `allow` a block that needed no counter (a
team that is not onboarded, sensitive data) is softened. A caller who may simulate has its
claims of cost and sensitivity accepted while Redis is up, too, and only its counters replaced.
Capability digests are resolved again after they were compared. Two activations of
contracts of one name that overlap on PostgreSQL leave both active. On SQLite an activation of a bundle or
a contract that fails half-way retires without activating, when somebody else commits; no bundle is active
then, replicas keep what they run, and the next boot seeds the configured bundle over the operators'
selection. Until that commit a sync may also install an activation that is undone later, and the
next sync after that corrects it. Of two processes that
create an empty PostgreSQL schema at once, one may fail and has to start again. With JWT-only
tenants a token whose tenant follows only from its groups may write decisions, and is refused
when it reads them. A crash between answer and
audit event of an approval leaves no event. A remediation handler that checked before
another one finished can overwrite a terminal status.

## 6. Not modelled

Pure reads and renderings (views, dashboard, metrics text), the arithmetic of token signatures and
the mapping of groups to roles, batch scripts and deployment files, for the reasons in
`PROJECT.json`. Tool calls (`POST /governance/evaluate-tool`) are one pure verdict over the shipped
registries, without state. The in-process audit log is a ring buffer that nothing reads back but
views. Simulation of bundles reads decisions and writes a report nothing depends on. OCI pulls
and signatures are external commands whose result is `source`. The pool of connections and its
time limits appear only as failures of a session.

## 7. Plan

Done: approvals and policy bundles, each with an abstract contract and the refinement, remediation with
the Git host and the probe cache, the verdict pipeline, schema migrations, capability contracts, quota
counters and access scopes; a theorem for every safety and action property that a passing run
checks. Next, in this order:

1. `ApprovalLifecycle` composed with `CapabilityContracts`, so that the digests a grant compares are
   those in force instead of a free choice.
2. Tool calls: the agent and tool verdict over the shipped registries, against the agent stage of the
   active bundle.
3. The cached impact of a simulation, which two replicas may show differently.

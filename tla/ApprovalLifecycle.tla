-------------------------- MODULE ApprovalLifecycle --------------------------
(***************************************************************************)
(* Durable decisions, approvals and their audit rows, and the request      *)
(* handlers that work on them concurrently: POST /governance/evaluate with *)
(* and without an x-ai-approval-id, POST /approvals/{id}/approve|reject,   *)
(* the reads that expire approvals lazily, and the retention purge.        *)
(*                                                                         *)
(* A handler is a process p.  pc[p] says which store operation it runs     *)
(* next; a step is one store session or transaction, so that everything    *)
(* between two commits of one handler interleaves with the other handlers, *)
(* on this replica or on another.  An approval is named by its decision:   *)
(* persist_evaluation opens at most one, inside the decision's own         *)
(* transaction.                                                            *)
(***************************************************************************)
EXTENDS Integers, FiniteSets

CONSTANTS
    Procs,      \* request handlers in flight, over all replicas
    Ids,        \* decision identifiers (fresh uuids)
    People,     \* subjects that evaluate and reviewers that resolve
    TenantOf,   \* TenantOf[u]: the tenant a person's token carries
    Digests,    \* request digests over the binding fields
    EnrichOf,   \* EnrichOf[d]: digests d may have after server-side enrichment
    Policies,   \* policy bundle digests a replica's cache may hold
    CapPins,    \* capability digests in force: functions on CapKinds
    None,       \* the empty string or NULL: no person, no digest, no approval
    TTL,        \* approval_ttl_seconds
    Retention,  \* retention_days, in ticks; 0 disables deletion
    PurgeLimit, \* decisions one purge may delete
    MaxNow      \* bound on the clock, for model checking

CapKinds == {"agent", "tools"}

ASSUME ApprovalAssumption ==
    /\ None \notin Ids \cup People \cup Digests
    /\ TTL \in Nat /\ Retention \in Nat /\ PurgeLimit \in Nat /\ MaxNow \in Nat
    /\ EnrichOf \in [Digests -> SUBSET Digests]
    /\ \A c \in CapPins : DOMAIN c = CapKinds

VARIABLES
    now,        \* the database clock
    issued,     \* identifiers handed out so far: a uuid never comes back
    decision,   \* table decisions
    approval,   \* table approvals
    audit,      \* table audit_meta: number of events of each kind, per decision
    pc,         \* what each handler does next
    job         \* what each handler works on

vars == <<now, issued, decision, approval, audit, pc, job>>

-----------------------------------------------------------------------------
(* Rows.  A row that is not there has verdict (status) "none". *)

Verdicts == {"allow", "block", "approval_required"}
Statuses == {"pending", "approved", "rejected", "expired", "consumed"}
AuditKinds == {"decision_recorded", "approval_created", "approval_approved",
               "approval_rejected", "approval_consumed"}

(* "asked" is a history field: the digest of the request as the client     *)
(* sent it.  The table stores only "digest", taken after enrichment.       *)
(* "via" is the approval_id of a decision allowed by a durable approval.   *)
NoDecision == [verdict |-> "none", subject |-> None, asked |-> None,
               digest |-> None, policy |-> None,
               caps |-> [k \in CapKinds |-> None], created |-> 0, via |-> None]

NoApproval == [status |-> "none", expires |-> 0, reviewer |-> None,
               used |-> FALSE]

NoEvents == [k \in AuditKinds |-> 0]

NoJob == [who |-> None, digest |-> None, policy |-> None, approval |-> None,
          answer |-> None]

HasDecision(i) == decision[i].verdict # "none"
HasApproval(i) == approval[i].status # "none"

Stages == {"idle", "lookup", "check", "consume", "grant", "evaluate",
           "resolve", "resolve_write", "resolve_audit"}

Init == /\ now = 0
        /\ issued = {}
        /\ decision = [i \in Ids |-> NoDecision]
        /\ approval = [i \in Ids |-> NoApproval]
        /\ audit = [i \in Ids |-> NoEvents]
        /\ pc = [p \in Procs |-> "idle"]
        /\ job = [p \in Procs |-> NoJob]

Goto(p, stage) == pc' = [pc EXCEPT ![p] = stage]

Finish(p) == Goto(p, "idle") /\ job' = [job EXCEPT ![p] = NoJob]

AddEvent(log, kind) == [log EXCEPT ![kind] = @ + 1]

-----------------------------------------------------------------------------
(* Lazy expiry: only pending approvals expire. *)

StaleIfUnused(i) == /\ approval[i].status \in {"pending", "approved"}
                    /\ approval[i].expires <= now

StaleStrictly(i) == approval[i].status = "pending" /\ approval[i].expires < now

Stale(i) == approval[i].status = "pending" /\ approval[i].expires <= now

ExpireStale(S) ==
    [i \in Ids |-> IF i \in S /\ Stale(i)
                   THEN [approval[i] EXCEPT !.status = "expired"]
                   ELSE approval[i]]

-----------------------------------------------------------------------------
(* POST /governance/evaluate *)

AlwaysLookup(a) == "lookup"

FirstStage(a) == IF a = None THEN "evaluate" ELSE "lookup"

(* The replica reads its cached policy bundle before it looks at the       *)
(* approval the header names, if there is one.                             *)
ReceiveEvaluate(p) ==
    /\ pc[p] = "idle"
    /\ \E who \in People, d \in Digests, pol \in Policies,
          a \in issued \cup {None} :
         /\ job' = [job EXCEPT ![p] = [NoJob EXCEPT !.who = who, !.digest = d,
                                              !.policy = pol, !.approval = a]]
         /\ Goto(p, FirstStage(a))
    /\ UNCHANGED <<now, issued, decision, approval, audit>>

LookupApproval(p) ==
    LET a == job[p].approval IN
    /\ pc[p] = "lookup"
    /\ approval' = ExpireStale({a})
    /\ Goto(p, IF approval'[a].status = "approved" /\ ~approval'[a].used
               THEN "check" ELSE "evaluate")
    /\ UNCHANGED <<now, issued, decision, audit, job>>

(* Two pins disagree only when both sides are pinned. *)
Differ(x, y) == x # None /\ y # None /\ x # y

BindsAnyPolicy(row, request, caps) ==
    /\ row.verdict # "none"
    /\ request.digest = row.digest
    /\ \A k \in CapKinds : ~Differ(caps[k], row.caps[k])

Binds(row, request, caps) ==
    /\ row.verdict # "none"
    /\ request.digest = row.digest
    /\ ~Differ(request.policy, row.policy)
    /\ \A k \in CapKinds : ~Differ(caps[k], row.caps[k])

CheckBinding(p) ==
    /\ pc[p] = "check"
    /\ \E caps \in CapPins :
         Goto(p, IF Binds(decision[job[p].approval], job[p], caps)
                 THEN "consume" ELSE "evaluate")
    /\ UNCHANGED <<now, issued, decision, approval, audit, job>>

ConsumableBlindly(row) == TRUE

Consumable(row) == row.status = "approved" /\ ~row.used

EventRegardless(won, log) == AddEvent(log, "approval_consumed")

ConsumeEvent(won, log) ==
    IF won THEN AddEvent(log, "approval_consumed") ELSE log

(* One transaction: the compare-and-set on the status, then its event. *)
ConsumeApproval(p) ==
    LET a == job[p].approval
        won == Consumable(approval[a]) IN
    /\ pc[p] = "consume"
    /\ approval' = IF won THEN [approval EXCEPT
                                  ![a] = [@ EXCEPT !.status = "consumed",
                                                   !.used = TRUE]]
                   ELSE approval
    /\ audit' = [audit EXCEPT ![a] = ConsumeEvent(won, @)]
    /\ Goto(p, IF won THEN "grant" ELSE "evaluate")
    /\ UNCHANGED <<now, issued, decision, job>>

Insert(i, row, opened, events) ==
    /\ issued' = issued \cup {i}
    /\ decision' = [decision EXCEPT ![i] = row]
    /\ approval' = [approval EXCEPT ![i] = opened]
    /\ audit' = [audit EXCEPT ![i] = events]

Row(p, verdict, digest, policy, caps, via) ==
    [verdict |-> verdict, subject |-> job[p].who, asked |-> job[p].digest,
     digest |-> digest, policy |-> policy, caps |-> caps, created |-> now,
     via |-> via]

(* A new approval; a negative TTL setting counts as zero in the code. *)
Opened == [NoApproval EXCEPT !.status = "pending", !.expires = now + TTL]

(* Server-derived cost and sensitivity fields replace the client's. *)
Enriched(d) == EnrichOf[d]

(* The granted request is recorded in a transaction of its own, and the    *)
(* capability digests it carries are read again.                           *)
PersistGrant(p) ==
    /\ pc[p] = "grant"
    /\ \E i \in Ids \ issued, caps \in CapPins :
         Insert(i, Row(p, "allow", job[p].digest, job[p].policy, caps,
                       job[p].approval),
                NoApproval, AddEvent(NoEvents, "decision_recorded"))
    /\ Finish(p)
    /\ UNCHANGED now

(* Enrichment and the verdict pipeline only read; their outcome is any     *)
(* verdict, under the policy bundle the replica holds by then.             *)
PersistEvaluation(p) ==
    /\ pc[p] = "evaluate"
    /\ \E i \in Ids \ issued, d \in Enriched(job[p].digest), v \in Verdicts,
          pol \in Policies, caps \in CapPins :
         LET recorded == AddEvent(NoEvents, "decision_recorded") IN
         IF v = "approval_required"
         THEN Insert(i, Row(p, v, d, pol, caps, None), Opened,
                     AddEvent(recorded, "approval_created"))
         ELSE Insert(i, Row(p, v, d, pol, caps, None), NoApproval, recorded)
    /\ Finish(p)
    /\ UNCHANGED now

-----------------------------------------------------------------------------
(* POST /approvals/{id}/approve|reject *)

ReceiveResolve(p) ==
    /\ pc[p] = "idle"
    /\ \E who \in People, a \in issued, answer \in {"approved", "rejected"} :
         job' = [job EXCEPT ![p] = [NoJob EXCEPT !.who = who, !.approval = a,
                                                 !.answer = answer]]
    /\ Goto(p, "resolve")
    /\ UNCHANGED <<now, issued, decision, approval, audit>>

MayResolve(who, subject) ==
    TenantOf[who] = TenantOf[subject] /\ who # subject

(* Expire if due, read the row, refuse what may not be resolved. *)
ResolveCheck(p) ==
    LET a == job[p].approval IN
    /\ pc[p] = "resolve"
    /\ approval' = ExpireStale({a})
    /\ IF /\ approval'[a].status = "pending"
          /\ MayResolve(job[p].who, decision[a].subject)
       THEN Goto(p, "resolve_write") /\ UNCHANGED job
       ELSE Finish(p)
    /\ UNCHANGED <<now, issued, decision, audit>>

AnyStatus(row) == row.status # "none"

StillPending(row) == row.status = "pending"

(* UPDATE ... WHERE status = 'pending'; the row count decides who won. *)
ResolveWrite(p) ==
    LET a == job[p].approval IN
    /\ pc[p] = "resolve_write"
    /\ IF StillPending(approval[a])
       THEN /\ approval' = [approval EXCEPT
                 ![a] = [@ EXCEPT !.status = job[p].answer,
                                  !.reviewer = job[p].who]]
            /\ Goto(p, "resolve_audit")
            /\ UNCHANGED job
       ELSE Finish(p) /\ UNCHANGED approval
    /\ UNCHANGED <<now, issued, decision, audit>>

AnswerEvent(answer) ==
    IF answer = "approved" THEN "approval_approved" ELSE "approval_rejected"

(* A commit of its own.  The foreign key refuses the event once the        *)
(* decision has been purged; the handler then answers 503.                 *)
AuditResolution(p) ==
    LET a == job[p].approval IN
    /\ pc[p] = "resolve_audit"
    /\ audit' = IF HasDecision(a)
                THEN [audit EXCEPT ![a] = AddEvent(@, AnswerEvent(job[p].answer))]
                ELSE audit
    /\ Finish(p)
    /\ UNCHANGED <<now, issued, decision, approval>>

-----------------------------------------------------------------------------
(* Reads that expire, retention, crashes, time *)

(* GET /approvals/{id} *)
ReadApproval(a) == /\ Stale(a)
                   /\ approval' = ExpireStale({a})
                   /\ UNCHANGED <<now, issued, decision, audit, pc, job>>

(* GET /approvals and GET /metrics: every listing and count expires first. *)
ListApprovals == /\ \E a \in Ids : Stale(a)
                 /\ approval' = ExpireStale(Ids)
                 /\ UNCHANGED <<now, issued, decision, audit, pc, job>>

Retained == {i \in Ids : HasDecision(i)}

Old == {i \in Retained : decision[i].created < now - Retention}

(* The oldest decisions, at most PurgeLimit of them. *)
OldestOf(S) ==
    /\ S \subseteq Old
    /\ Cardinality(S) <= PurgeLimit
    /\ S # Old => Cardinality(S) = PurgeLimit
    /\ \A i \in S, j \in Old \ S : decision[i].created <= decision[j].created

(* POST /ops/retention/purge, one transaction.  A dry run expires too. *)
PurgeRetained(dryRun) ==
    \E S \in SUBSET Ids :
      /\ IF dryRun \/ Retention = 0 THEN S = {} ELSE OldestOf(S)
      /\ decision' = [i \in Ids |-> IF i \in S THEN NoDecision ELSE decision[i]]
      /\ approval' = [i \in Ids |-> IF i \in S THEN NoApproval
                                    ELSE ExpireStale(Ids)[i]]
      /\ audit' = [i \in Ids |-> IF i \in S THEN NoEvents ELSE audit[i]]
      /\ UNCHANGED <<now, issued, pc, job>>

(* The replica dies, the store is unreachable (503), or the client is      *)
(* gone: whatever the handler had not committed never happens.             *)
Crash(p) == /\ pc[p] # "idle"
            /\ Finish(p)
            /\ UNCHANGED <<now, issued, decision, approval, audit>>

Tick == /\ now < MaxNow
        /\ now' = now + 1
        /\ UNCHANGED <<issued, decision, approval, audit, pc, job>>

Handle(p) == \/ ReceiveEvaluate(p) \/ LookupApproval(p) \/ CheckBinding(p)
             \/ ConsumeApproval(p) \/ PersistGrant(p) \/ PersistEvaluation(p)
             \/ ReceiveResolve(p) \/ ResolveCheck(p) \/ ResolveWrite(p)
             \/ AuditResolution(p)

Next == \/ \E p \in Procs : Handle(p) \/ Crash(p)
        \/ \E a \in Ids : ReadApproval(a)
        \/ ListApprovals
        \/ \E dryRun \in BOOLEAN : PurgeRetained(dryRun)
        \/ Tick

Spec == Init /\ [][Next]_vars

(* The clock runs, and a scraper keeps calling GET /metrics, which counts  *)
(* the pending approvals.                                                  *)
FairSpec == Spec /\ WF_vars(Tick) /\ WF_vars(ListApprovals)

-----------------------------------------------------------------------------
(* Properties *)

DecisionRows ==
    [verdict: Verdicts \cup {"none"}, subject: People \cup {None},
     asked: Digests \cup {None}, digest: Digests \cup {None},
     policy: Policies \cup {None}, caps: CapPins \cup {NoDecision.caps},
     created: Nat, via: Ids \cup {None}]

ApprovalRows ==
    [status: Statuses \cup {"none"}, expires: Nat,
     reviewer: People \cup {None}, used: BOOLEAN]

Jobs == [who: People \cup {None}, digest: Digests \cup {None},
         policy: Policies \cup {None}, approval: Ids \cup {None},
         answer: {"approved", "rejected", None}]

(* Every table and handler holds values of its type, and a handler past    *)
(* its reception names an approval that was really handed out: the code    *)
(* path from the x-ai-approval-id header or the URL to the store.          *)
TypeOK ==
    /\ now \in Nat
    /\ issued \in SUBSET Ids
    /\ decision \in [Ids -> DecisionRows]
    /\ approval \in [Ids -> ApprovalRows]
    /\ audit \in [Ids -> [AuditKinds -> Nat]]
    /\ pc \in [Procs -> Stages]
    /\ job \in [Procs -> Jobs]
    /\ \A p \in Procs :
         /\ pc[p] \notin {"idle", "evaluate"} => job[p].approval \in issued
         /\ pc[p] \in {"resolve", "resolve_write", "resolve_audit"} =>
              job[p].who \in People /\ job[p].answer \in {"approved", "rejected"}
         /\ pc[p] \in {"lookup", "check", "consume", "grant", "evaluate"} =>
              job[p].who \in People /\ job[p].digest \in Digests

Holds(p, a) == pc[p] = "grant" /\ job[p].approval = a
AllowedBy(i, a) == HasDecision(i) /\ decision[i].via = a

(* An approval is worth one allowed request: over all handlers that won    *)
(* the consume and all decisions recorded as allowed through it there is   *)
(* at most one, and the approval is spent by then (consume_approval's      *)
(* compare-and-set against racing retries, purge and expiry).              *)
OneTimeUse ==
    \A a \in Ids :
      /\ \A p, q \in Procs : Holds(p, a) /\ Holds(q, a) => p = q
      /\ \A i, j \in Ids : AllowedBy(i, a) /\ AllowedBy(j, a) => i = j
      /\ \A p \in Procs, i \in Ids : ~(Holds(p, a) /\ AllowedBy(i, a))
      /\ (\E p \in Procs : Holds(p, a)) \/ (\E i \in Ids : AllowedBy(i, a)) =>
            approval[a].status \in {"consumed", "none"}

(* What was allowed is what was approved: a decision allowed through an    *)
(* approval has the request digest and the policy of the decision that     *)
(* asked for it, and someone else of the same tenant answered yes          *)
(* (approval_grants_allow and resolve_approval, whose checks run in        *)
(* earlier sessions than the write they protect).                          *)
GrantIsBound ==
    \A i, a \in Ids :
      AllowedBy(i, a) /\ HasDecision(a) =>
        /\ decision[i].digest = decision[a].digest
        /\ ~Differ(decision[i].policy, decision[a].policy)
        /\ approval[a].reviewer \in People
        /\ MayResolve(approval[a].reviewer, decision[a].subject)

Count(i, kind) == audit[i][kind]
Once(b) == IF b THEN 1 ELSE 0

(* The audit table tells the truth about the other two: one creation event *)
(* per row, one consume event exactly when the approval is consumed, never *)
(* more answer events than the status admits, and nothing about rows that  *)
(* are gone (rows and events written in one transaction, resolve events in *)
(* a second one, retention deleting all three tables).                     *)
AuditTrail ==
    \A i \in Ids :
      /\ HasApproval(i) => decision[i].verdict = "approval_required"
      /\ Count(i, "decision_recorded") = Once(HasDecision(i))
      /\ Count(i, "approval_created") = Once(HasApproval(i))
      /\ Count(i, "approval_consumed") = Once(approval[i].status = "consumed")
      /\ Count(i, "approval_approved") <=
           Once(approval[i].status \in {"approved", "consumed"})
      /\ Count(i, "approval_rejected") <= Once(approval[i].status = "rejected")

Moves == {<<"pending", "approved">>, <<"pending", "rejected">>,
          <<"pending", "expired">>, <<"approved", "consumed">>}

(* An answer is final: whatever interleaving of resolvers, expiry,         *)
(* retries and purge, an approval moves along the documented lifecycle,    *)
(* its reviewer is never replaced, and an identifier that was used is      *)
(* never given a new approval.                                             *)
AnswerIsFinal ==
    [][\A a \in Ids :
         /\ HasApproval(a) /\ HasApproval(a)' =>
              /\ \/ approval'[a].status = approval[a].status
                 \/ <<approval[a].status, approval'[a].status>> \in Moves
              /\ approval[a].reviewer # None =>
                   approval'[a].reviewer = approval[a].reviewer
         /\ a \in issued /\ ~HasApproval(a) => ~HasApproval(a)']_vars

(* An approval nobody answers does not stay open: past its TTL it leaves   *)
(* "pending", because something keeps counting or listing (lazy expiry).   *)
StaleApprovalsClose ==
    \A a \in Ids :
      approval[a].status = "pending" /\ approval[a].expires <= MaxNow
        ~> approval[a].status # "pending"

(* The abstract promise, with the permit held by the handler at "grant".   *)
Promise == INSTANCE ApprovalContract WITH
    state <- [i \in Ids |-> IF HasApproval(i) THEN approval[i].status
                            ELSE IF i \in issued THEN "gone" ELSE "none"],
    permits <- {a \in Ids : \E p \in Procs : Holds(p, a)},
    allowed <- {a \in Ids : \E i \in Ids : AllowedBy(i, a)}

(* The tables and handlers keep the promise of ApprovalContract.           *)
KeepsPromise == Promise!Spec

-----------------------------------------------------------------------------
(* What the documentation says, where the code does otherwise *)

(* durable_governance.py: "approval status is approved and not expired".   *)
(* Only a pending approval ever expires, so an approved one grants at any  *)
(* later time.                                                             *)
ExpiryHonoured ==
    [][\A a \in Ids :
         approval[a].status = "approved" /\ approval'[a].status = "consumed"
           => now < approval[a].expires]_vars

(* docs/durable-governance.md: a retry with the same bound request is      *)
(* allowed; approval_binding.py: enrichment "cannot invalidate a bound     *)
(* approval".  The stored digest is taken after enrichment, the retry's    *)
(* digest before it.                                                       *)
RetryIsGranted ==
    [][\A p \in Procs :
         LET row == decision[job[p].approval] IN
         /\ pc[p] = "check" /\ HasDecision(job[p].approval)
         /\ job[p].digest = row.asked
         /\ ~Differ(job[p].policy, row.policy)
         => pc'[p] # "evaluate"]_vars
=============================================================================

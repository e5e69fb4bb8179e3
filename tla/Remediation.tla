----------------------------- MODULE Remediation -----------------------------
(***************************************************************************)
(* Remediation proposals: the table remediation_proposals, the decisions   *)
(* and approvals of their evaluations, the Git host that pull requests are *)
(* opened on, and the probe caches that verification reads through.        *)
(*                                                                         *)
(* A handler h of replica On[h] reads the proposal, checks that its        *)
(* transition is allowed, does its work in further sessions and calls, and *)
(* finally writes the new status: an UPDATE by id, whatever the status is  *)
(* by then.  A step is one store session, one call to the Git host, or one *)
(* section under the cache's lock.                                         *)
(***************************************************************************)
EXTENDS Integers, FiniteSets

CONSTANTS
    Handlers,
    Replicas,
    On,         \* On[h]: the replica handler h runs on
    Proposals,  \* proposal identifiers
    Evals,      \* policy evaluations; one names its decision and its approval
    Pulls,      \* pull requests the Git host may open
    Backends,   \* what a verification probes
    None        \* NULL, the empty string, a URL that the caller supplied

ASSUME RemediationAssumption ==
    /\ On \in [Handlers -> Replicas]
    /\ None \notin Proposals \cup Evals \cup Pulls

VARIABLES
    proposal,   \* table remediation_proposals
    eval,       \* decisions and approvals opened by evaluate-policy
    events,     \* the remediation_resolved rows of audit_meta
    committed,  \* external: proposals whose branch carries the manifest
    pull,       \* external: pull requests
    live,       \* external: what each backend would answer a probe
    cache,      \* each replica's probe cache
    pc, job

host == <<committed, pull>>
vars == <<proposal, eval, events, host, live, cache, pc, job>>

-----------------------------------------------------------------------------
(* "detected" is never stored. *)
Transitions ==
    {<<"proposed", "policy_evaluated">>,
     <<"policy_evaluated", "approved">>, <<"policy_evaluated", "rejected">>,
     <<"approved", "pr_created">>, <<"pr_created", "applied">>,
     <<"applied", "verifying">>, <<"applied", "verified">>,
     <<"applied", "failed">>, <<"verifying", "verified">>,
     <<"verifying", "failed">>}

AllowsUnanswered(s, t) ==
    <<s, t>> \in Transitions \/ <<s, t>> = <<"policy_evaluated", "pr_created">>

Allows(s, t) == <<s, t>> \in Transitions

Statuses == {t[1] : t \in Transitions} \cup {t[2] : t \in Transitions}
Verdicts == {"allow", "block", "approval_required"}
Answers == {"approved", "rejected"}
Readings == {"in_sync", "drifted"}

Stages == {"idle", "evaluate", "verdict", "resolve", "audit", "answer", "find",
           "commit", "open", "refind", "drafted", "applied", "verifying",
           "clear", "probe", "outcome"}

NoProposal == [status |-> "none", approval |-> None, url |-> None]
NoEval == [of |-> None, verdict |-> "none", approval |-> "none"]
NoPull == [of |-> None, open |-> FALSE]

(* "since" is history: the backends that would have answered "in_sync" at  *)
(* some moment since the handler read the proposal.                        *)
NoJob == [of |-> None, eval |-> None, answer |-> "none", pull |-> None,
          todo |-> {}, drift |-> FALSE, since |-> {}]

Init == /\ proposal = [p \in Proposals |-> NoProposal]
        /\ eval = [e \in Evals |-> NoEval]
        /\ events = {}
        /\ committed = {}
        /\ pull = [q \in Pulls |-> NoPull]
        /\ live \in [Backends -> Readings]
        /\ cache = [r \in Replicas |-> [b \in Backends |-> "none"]]
        /\ pc = [h \in Handlers |-> "idle"]
        /\ job = [h \in Handlers |-> NoJob]

Goto(h, stage) == pc' = [pc EXCEPT ![h] = stage]

Finish(h) == Goto(h, "idle") /\ job' = [job EXCEPT ![h] = NoJob]

InSync == {b \in Backends : live[b] = "in_sync"}

-----------------------------------------------------------------------------
(* Probes *)

Reading(r, b) == IF cache[r][b] = "none" THEN live[b] ELSE cache[r][b]

(* Without drift there is no action to propose. *)
LooksDrifted(r) == \E b \in Backends : Reading(r, b) = "drifted"

Proposed == [NoProposal EXCEPT !.status = "proposed"]

(* POST /remediation/proposals *)
CreateFromDrift(r) ==
    /\ LooksDrifted(r)
    /\ cache' = [cache EXCEPT ![r] = [b \in Backends |-> Reading(r, b)]]
    /\ \E p \in Proposals :
         /\ proposal[p].status = "none"
         /\ proposal' = [proposal EXCEPT ![p] = Proposed]
    /\ UNCHANGED <<eval, events, host, live, pc, job>>

(* GET /drift, the dashboard, metrics: everyone probes through the cache.  *)
ProbeBackend(r, b) ==
    /\ cache[r][b] = "none"
    /\ cache' = [cache EXCEPT ![r][b] = live[b]]
    /\ UNCHANGED <<proposal, eval, events, host, live, pc, job>>

ExpireProbe(r, b) ==
    /\ cache[r][b] # "none"
    /\ cache' = [cache EXCEPT ![r][b] = "none"]
    /\ UNCHANGED <<proposal, eval, events, host, live, pc, job>>

(* Models appear on and vanish from backends, backends go down. *)
BackendChanges(b) ==
    /\ live' = [live EXCEPT ![b] = IF @ = "drifted" THEN "in_sync" ELSE "drifted"]
    /\ job' = [h \in Handlers |->
                 IF pc[h] = "idle" \/ live'[b] = "drifted" THEN job[h]
                 ELSE [job[h] EXCEPT !.since = @ \cup {b}]]
    /\ UNCHANGED <<proposal, eval, events, host, cache, pc>>

-----------------------------------------------------------------------------
(* Every operation reads the proposal and requires its transition. *)
Read(h, p, target, stage) ==
    /\ pc[h] = "idle"
    /\ Allows(proposal[p].status, target)
    /\ Goto(h, stage)
    /\ UNCHANGED <<proposal, eval, events, host, live, cache>>

Job(p) == [NoJob EXCEPT !.of = p, !.eval = proposal[p].approval, !.since = InSync]

Works(h, p) == job' = [job EXCEPT ![h] = Job(p)]

(* The final UPDATE ... WHERE proposal_id = ?, which ends the handler. *)
Write(h, row) ==
    /\ proposal' = [proposal EXCEPT ![job[h].of] = row]
    /\ Finish(h)
    /\ UNCHANGED <<eval, events, host, live, cache>>

Row(h) == proposal[job[h].of]

(* POST .../evaluate-policy *)

StartEvaluate(h, p) == Read(h, p, "policy_evaluated", "evaluate") /\ Works(h, p)

(* persist_evaluation: the decision and, if required, its approval. *)
PersistEvaluation(h) ==
    /\ pc[h] = "evaluate"
    /\ \E e \in Evals, v \in Verdicts :
         /\ eval[e] = NoEval
         /\ eval' = [eval EXCEPT ![e] =
              [of |-> job[h].of, verdict |-> v,
               approval |-> IF v = "approval_required" THEN "pending" ELSE "none"]]
         /\ job' = [job EXCEPT ![h].eval = e]
    /\ Goto(h, "verdict")
    /\ UNCHANGED <<proposal, events, host, live, cache>>

StatusAfter(verdict) == CASE verdict = "allow" -> "approved"
                          [] verdict = "block" -> "rejected"
                          [] OTHER -> "policy_evaluated"

NeverLinked(e, old) == old

(* approval_id is written only if there is one; an old one stays.          *)
Linked(e, old) == IF eval[e].approval = "none" THEN old ELSE e

RecordVerdict(h) ==
    LET e == job[h].eval IN
    /\ pc[h] = "verdict"
    /\ Write(h, [Row(h) EXCEPT !.status = StatusAfter(eval[e].verdict),
                               !.approval = Linked(e, @)])

(* POST .../approve and .../reject *)

StartResolve(h, p) ==
    \E answer \in Answers :
      /\ Read(h, p, answer, IF proposal[p].approval = None THEN "answer"
                            ELSE "resolve")
      /\ job' = [job EXCEPT ![h] = [Job(p) EXCEPT !.answer = answer]]

SkipAudit == "answer"

AfterResolve == "audit"

(* resolve_approval: a compare-and-set; one that is expired or already     *)
(* answered fails the request.                                             *)
ResolveApproval(h) ==
    LET e == job[h].eval IN
    /\ pc[h] = "resolve"
    /\ IF eval[e].approval = "pending"
       THEN /\ eval' = [eval EXCEPT ![e].approval = job[h].answer]
            /\ Goto(h, AfterResolve)
            /\ UNCHANGED job
       ELSE Finish(h) /\ UNCHANGED eval
    /\ UNCHANGED <<proposal, events, host, live, cache>>

AuditResolution(h) ==
    /\ pc[h] = "audit"
    /\ events' = events \cup {<<job[h].eval, job[h].answer>>}
    /\ Goto(h, "answer")
    /\ UNCHANGED <<proposal, eval, host, live, cache, job>>

RecordAnswer(h) ==
    /\ pc[h] = "answer"
    /\ Write(h, [Row(h) EXCEPT !.status = job[h].answer])

(* The linked approval is a row like any other: POST /approvals/{id}/...   *)
(* answers it too, and it expires.  Neither knows of the proposal.         *)
ResolveElsewhere(e, answer) ==
    /\ eval[e].approval = "pending"
    /\ eval' = [eval EXCEPT ![e].approval = answer]
    /\ UNCHANGED <<proposal, events, host, live, cache, pc, job>>

-----------------------------------------------------------------------------
(* POST .../prepare-pr *)

(* With a pr_url in the request, or without a Git host, nothing is called. *)
StartPrepare(h, p) ==
    /\ \E stage \in {"find", "drafted"} : Read(h, p, "pr_created", stage)
    /\ Works(h, p)

OpenPulls(p) == {q \in Pulls : pull[q].of = p /\ pull[q].open}

(* GET .../pulls?state=open for the branch of this proposal. *)
FindOpenPullRequest(h) ==
    /\ pc[h] = "find"
    /\ \/ \E q \in OpenPulls(job[h].of) : job' = [job EXCEPT ![h].pull = q]
       \/ OpenPulls(job[h].of) = {} /\ UNCHANGED job
    /\ Goto(h, "commit")
    /\ UNCHANGED <<proposal, eval, events, host, live, cache>>

CommitsNothing(p) == committed

(* ensure_branch and both files; a failure ends the request (Abort).       *)
Committed(p) == committed \cup {p}

CommitManifest(h) ==
    /\ pc[h] = "commit"
    /\ committed' = Committed(job[h].of)
    /\ Goto(h, IF job[h].pull = None THEN "open" ELSE "drafted")
    /\ UNCHANGED <<proposal, eval, events, pull, live, cache, job>>

(* The host keeps one open pull request per branch and answers 422 to      *)
(* another one: then the open one is looked for again.                     *)
CreatePullRequest(h) ==
    LET p == job[h].of IN
    /\ pc[h] = "open"
    /\ \/ /\ OpenPulls(p) = {}
          /\ \E q \in Pulls :
               /\ pull[q] = NoPull
               /\ pull' = [pull EXCEPT ![q] = [of |-> p, open |-> TRUE]]
               /\ job' = [job EXCEPT ![h].pull = q]
          /\ Goto(h, "drafted")
       \/ OpenPulls(p) # {} /\ Goto(h, "refind") /\ UNCHANGED <<pull, job>>
    /\ UNCHANGED <<proposal, eval, events, committed, live, cache>>

RefindPullRequest(h) ==
    /\ pc[h] = "refind"
    /\ \/ /\ \E q \in OpenPulls(job[h].of) : job' = [job EXCEPT ![h].pull = q]
          /\ Goto(h, "drafted")
       \/ OpenPulls(job[h].of) = {} /\ Finish(h)
    /\ UNCHANGED <<proposal, eval, events, host, live, cache>>

RecordPullRequest(h) ==
    /\ pc[h] = "drafted"
    /\ Write(h, [Row(h) EXCEPT !.status = "pr_created", !.url = job[h].pull])

(* Someone merges or closes a pull request on the host. *)
ClosePull(q) ==
    /\ pull[q].open
    /\ pull' = [pull EXCEPT ![q].open = FALSE]
    /\ UNCHANGED <<proposal, eval, events, committed, live, cache, pc, job>>

(* POST .../mark-applied *)

StartApply(h, p) == Read(h, p, "applied", "applied") /\ Works(h, p)

RecordApplied(h) ==
    /\ pc[h] = "applied"
    /\ \E url \in {Row(h).url, None} :
         Write(h, [Row(h) EXCEPT !.status = "applied", !.url = url])

-----------------------------------------------------------------------------
(* POST .../verify *)

StartVerify(h, p) ==
    /\ Read(h, p, "verified",
            IF proposal[p].status = "applied" THEN "verifying" ELSE "clear")
    /\ job' = [job EXCEPT ![h] = [Job(p) EXCEPT !.todo = Backends]]

MarkVerifying(h) ==
    /\ pc[h] = "verifying"
    /\ proposal' = [proposal EXCEPT ![job[h].of].status = "verifying"]
    /\ Goto(h, "clear")
    /\ UNCHANGED <<eval, events, host, live, cache, job>>

Uncleared(r) == cache[r]

Cleared(r) == [b \in Backends |-> "none"]

ClearProbeCache(h) ==
    /\ pc[h] = "clear"
    /\ cache' = [cache EXCEPT ![On[h]] = Cleared(On[h])]
    /\ Goto(h, "probe")
    /\ UNCHANGED <<proposal, eval, events, host, live, job>>

(* One backend after the other, through the cache everybody fills.         *)
ProbeNext(h) ==
    LET r == On[h] IN
    /\ pc[h] = "probe"
    /\ \E b \in job[h].todo :
         /\ cache' = [cache EXCEPT ![r][b] = Reading(r, b)]
         /\ job' = [job EXCEPT ![h] =
                      [job[h] EXCEPT !.todo = @ \ {b},
                                     !.drift = @ \/ Reading(r, b) = "drifted"]]
    /\ Goto(h, IF job'[h].todo = {} THEN "outcome" ELSE "probe")
    /\ UNCHANGED <<proposal, eval, events, host, live>>

RecordOutcome(h) ==
    /\ pc[h] = "outcome"
    /\ Write(h, [Row(h) EXCEPT !.status = IF job[h].drift THEN "failed"
                                          ELSE "verified"])

(* The replica dies, the store or the Git host fails: the rest of the      *)
(* operation never happens.                                                *)
Abort(h) == /\ pc[h] # "idle"
            /\ Finish(h)
            /\ UNCHANGED <<proposal, eval, events, host, live, cache>>

Start(h, p) == \/ StartEvaluate(h, p) \/ StartResolve(h, p) \/ StartPrepare(h, p)
               \/ StartApply(h, p) \/ StartVerify(h, p)

Step(h) == \/ PersistEvaluation(h) \/ RecordVerdict(h) \/ ResolveApproval(h)
           \/ AuditResolution(h) \/ RecordAnswer(h) \/ FindOpenPullRequest(h)
           \/ CommitManifest(h) \/ CreatePullRequest(h) \/ RefindPullRequest(h)
           \/ RecordPullRequest(h) \/ RecordApplied(h) \/ MarkVerifying(h)
           \/ ClearProbeCache(h) \/ ProbeNext(h) \/ RecordOutcome(h)

Next == \/ \E h \in Handlers : Step(h) \/ Abort(h) \/ \E p \in Proposals : Start(h, p)
        \/ \E r \in Replicas : CreateFromDrift(r) \/
             \E b \in Backends : ProbeBackend(r, b) \/ ExpireProbe(r, b)
        \/ \E e \in Evals, answer \in Answers \cup {"expired"} :
             ResolveElsewhere(e, answer)
        \/ \E q \in Pulls : ClosePull(q)
        \/ \E b \in Backends : BackendChanges(b)

Spec == Init /\ [][Next]_vars

(* A request that was accepted goes on, and an operator who sees a         *)
(* proposal waiting for an answer keeps giving one.                        *)
FairSpec ==
    /\ Spec
    /\ \A h \in Handlers : /\ WF_vars(Step(h))
                           /\ \A p \in Proposals : SF_vars(StartResolve(h, p))

-----------------------------------------------------------------------------
(* Properties *)

ProposalRows == [status: Statuses \cup {"none"}, approval: Evals \cup {None},
                 url: Pulls \cup {None}]
EvalRows == [of: Proposals \cup {None}, verdict: Verdicts \cup {"none"},
             approval: Answers \cup {"none", "pending", "expired"}]
Jobs == [of: Proposals \cup {None}, eval: Evals \cup {None},
         answer: Answers \cup {"none"}, pull: Pulls \cup {None},
         todo: SUBSET Backends, drift: BOOLEAN, since: SUBSET Backends]

(* Types, and what handlers rely on: a proposal waiting for an answer is   *)
(* linked to an approval, and a handler at work has what its stage needs.  *)
TypeOK ==
    /\ proposal \in [Proposals -> ProposalRows]
    /\ eval \in [Evals -> EvalRows]
    /\ events \subseteq Evals \X Answers
    /\ committed \subseteq Proposals
    /\ pull \in [Pulls -> [of: Proposals \cup {None}, open: BOOLEAN]]
    /\ live \in [Backends -> Readings]
    /\ cache \in [Replicas -> [Backends -> Readings \cup {"none"}]]
    /\ pc \in [Handlers -> Stages] /\ job \in [Handlers -> Jobs]
    /\ \A p \in Proposals :
         proposal[p].status = "policy_evaluated" => proposal[p].approval # None
    /\ \A h \in Handlers :
         /\ pc[h] # "idle" => job[h].of \in Proposals
         /\ pc[h] \in {"verdict", "resolve", "audit"} => job[h].eval \in Evals
         /\ pc[h] \in {"resolve", "audit", "answer"} => job[h].answer \in Answers

Allowed(p) == \E e \in Evals : eval[e].of = p /\ eval[e].verdict = "allow"
Approved(p) == \E e \in Evals : eval[e].of = p /\ eval[e].approval = "approved"

(* Nothing goes to Git, and no proposal gets past "approved", without      *)
(* consent to this very proposal: a policy that allows it or a person who  *)
(* approved it.  Consent is committed before the status that rests on it,  *)
(* and no interleaving of evaluations, answers, retries and crashes gets   *)
(* around it (_require_transition and the order of commits in              *)
(* evaluate_policy and resolve_proposal).                                  *)
ConsentFirst ==
    \A p \in Proposals :
      \/ proposal[p].status \notin {"approved", "pr_created", "applied",
                                    "verifying", "verified", "failed"}
         /\ \A q \in Pulls : pull[q].of # p
      \/ Allowed(p) \/ Approved(p)

(* An answer given through the proposal is in the audit table before the   *)
(* proposal shows it, and what the table says is what the approval became  *)
(* (resolve_approval, append_audit_meta, update: three commits).           *)
AnswersAudited ==
    /\ \A ev \in events : eval[ev[1]].approval = ev[2]
    /\ \A p \in Proposals :
         proposal[p].status = "approved" /\ ~Allowed(p) =>
           \E e \in Evals : eval[e].of = p /\ <<e, "approved">> \in events

(* However many operators prepare the same proposal, and whatever fails in *)
(* between, a branch never has two open pull requests, every one of them   *)
(* carries the manifest, and the URL a proposal records is its own         *)
(* (create_draft_pull_request: reuse, commit, create, look again on 422).  *)
PullRequestComplete ==
    /\ \A p \in Proposals :
         /\ Cardinality(OpenPulls(p)) <= 1
         /\ proposal[p].url # None => pull[proposal[p].url].of = p
    /\ \A q \in Pulls : pull[q].of # None => pull[q].of \in committed

(* A verification that finds no drift saw every backend in sync after it   *)
(* began, hence after the change was marked applied: never a probe that    *)
(* the cache kept from before (clear_probe_cache against the requests that *)
(* keep filling the cache).                                                *)
FreshVerification ==
    \A h \in Handlers :
      pc[h] = "outcome" /\ ~job[h].drift => job[h].since = Backends

-----------------------------------------------------------------------------
(* What the documentation says, where the code does otherwise *)

(* docs/remediation-proposals.md: when approval is required, "resolve via  *)
(* /approve or /reject (and the linked /approvals/{approval_id} record)".  *)
(* Once the linked record is answered there, or has expired, /approve and  *)
(* /reject answer 409 for good and the proposal stays where it is.         *)
AnswerArrives ==
    \A p \in Proposals :
      proposal[p].status = "policy_evaluated"
        ~> proposal[p].status # "policy_evaluated"
=============================================================================

-------------------------- MODULE RemediationProofs --------------------------
(* Machine-checked safety of Remediation, for every set of handlers,       *)
(* replicas, proposals, evaluations, pull requests and backends.           *)
EXTENDS Remediation, FiniteSetTheorems, TLAPS

Consent(p) == Allowed(p) \/ Approved(p)

Audited(p) == \E e \in Evals : eval[e].of = p /\ <<e, "approved">> \in events

Consented == {"approved", "pr_created", "applied", "verifying", "verified",
              "failed"}

GitStages == {"find", "commit", "open", "refind", "drafted", "applied",
              "verifying", "clear", "probe", "outcome"}

TablesTyped ==
    /\ proposal \in [Proposals -> ProposalRows]
    /\ eval \in [Evals -> EvalRows]
    /\ events \subseteq Evals \X Answers
    /\ committed \subseteq Proposals
    /\ pull \in [Pulls -> [of: Proposals \cup {None}, open: BOOLEAN]]

EvalsSound ==
    /\ \A e \in Evals : eval[e].of # None =>
         /\ eval[e].verdict \in Verdicts
         /\ eval[e].verdict = "approval_required" => eval[e].approval # "none"
    /\ \A e \in Evals : eval[e].of = None => eval[e].approval = "none"
    /\ \A ev \in events : eval[ev[1]].approval = ev[2]

PullsSound ==
    /\ \A q \in Pulls : pull[q].of # None =>
                          pull[q].of \in committed /\ Consent(pull[q].of)
    /\ \A p \in Proposals, q, s \in Pulls :
         q \in OpenPulls(p) /\ s \in OpenPulls(p) => q = s

(* What the row r of proposal p may say. *)
RowSound(p, r) ==
    /\ r.approval # None => eval[r.approval].of = p
    /\ r.status = "policy_evaluated" => r.approval # None
    /\ r.status \in Consented => Consent(p)
    /\ r.status = "approved" => Allowed(p) \/ Audited(p)
    /\ r.url # None => pull[r.url].of = p

Tables == /\ TablesTyped /\ EvalsSound /\ PullsSound
          /\ \A p \in Proposals : RowSound(p, proposal[p])

(* What a handler at stage s may rely on when it works on job j. *)
Relies(s, j) ==
    /\ s # "idle" => j.of \in Proposals
    /\ s \in {"verdict", "resolve", "audit"} =>
         j.eval \in Evals /\ eval[j.eval].of = j.of
    /\ s \in {"resolve", "audit", "answer"} => j.answer \in Answers
    /\ s = "audit" => eval[j.eval].approval = j.answer
    /\ s = "answer" /\ j.answer = "approved" => Audited(j.of)
    /\ s \in GitStages => Consent(j.of)
    /\ s \in {"open", "refind"} => j.of \in committed
    /\ s # "idle" /\ j.pull # None => pull[j.pull].of = j.of

HandlersSound ==
    /\ pc \in [Handlers -> Stages]
    /\ job \in [Handlers -> Jobs]
    /\ \A h \in Handlers : Relies(pc[h], job[h])

RemediationInv == Tables /\ HandlersSound

(* Evaluations, answers, events, commits and pull requests stay. *)
Grows ==
    /\ \A e \in Evals : eval[e].of # None =>
         /\ eval'[e].of = eval[e].of /\ eval'[e].verdict = eval[e].verdict
         /\ eval[e].approval \in Answers => eval'[e].approval = eval[e].approval
    /\ events \subseteq events' /\ committed \subseteq committed'
    /\ \A q \in Pulls : pull[q].of # None => pull'[q].of = pull[q].of

LEMMA InvInit == Init => RemediationInv
<1> SUFFICES ASSUME Init PROVE RemediationInv
  OBVIOUS
<1>1. TablesTyped
  BY DEF Init, TablesTyped, NoProposal, NoEval, NoPull, ProposalRows, EvalRows
<1>2. EvalsSound /\ PullsSound
  BY DEF Init, EvalsSound, PullsSound, NoEval, NoPull, OpenPulls
<1>3. \A p \in Proposals : RowSound(p, proposal[p])
  BY DEF Init, RowSound, NoProposal, Consented
<1>4. HandlersSound
  BY DEF Init, HandlersSound, Relies, NoJob, Jobs, Stages, GitStages
<1> QED
  BY <1>1, <1>2, <1>3, <1>4 DEF RemediationInv, Tables

-----------------------------------------------------------------------------
(* What stays *)

LEMMA ConsentStays ==
  ASSUME Grows, NEW p \in Proposals
  PROVE  /\ Allowed(p) => Allowed(p)'
         /\ Approved(p) => Approved(p)'
         /\ Audited(p) => Audited(p)'
  BY RemediationAssumption DEF Grows, Allowed, Approved, Audited, Answers

LEMMA RowStays ==
  ASSUME Grows, NEW p \in Proposals, NEW r \in ProposalRows, RowSound(p, r)
  PROVE  RowSound(p, r)'
<1>1. /\ r.approval # None => r.approval \in Evals
      /\ r.url # None => r.url \in Pulls
  BY DEF ProposalRows
<1>2. /\ r.approval # None => eval'[r.approval].of = p
      /\ r.url # None => pull'[r.url].of = p
  BY <1>1, RemediationAssumption DEF RowSound, Grows
<1> QED
  BY <1>2, ConsentStays DEF RowSound, Consent

LEMMA RelyStays ==
  ASSUME Grows, NEW s, NEW j \in Jobs, Relies(s, j)
  PROVE  Relies(s, j)'
<1>1. CASE s = "idle"
  BY <1>1 DEF Relies, GitStages
<1>2. CASE s # "idle"
  <2>1. j.of \in Proposals /\ j.of # None
    BY <1>2, RemediationAssumption DEF Relies
  <2>2. s \in {"verdict", "resolve", "audit"} =>
          j.eval \in Evals /\ eval'[j.eval].of = j.of
    BY <2>1 DEF Relies, Grows
  <2>3. s = "audit" => eval'[j.eval].approval = j.answer
    BY <2>1 DEF Relies, Grows
  <2>4. j.pull # None => pull'[j.pull].of = j.of
    BY <1>2, <2>1 DEF Relies, Grows, Jobs
  <2>5. s = "answer" /\ j.answer = "approved" => Audited(j.of)'
    BY <2>1, ConsentStays DEF Relies
  <2>6. s \in GitStages => Consent(j.of)'
    BY <2>1, ConsentStays DEF Relies, Consent
  <2>7. /\ s \in {"resolve", "audit", "answer"} => j.answer \in Answers
        /\ s \in {"open", "refind"} => j.of \in committed'
    BY DEF Relies, Grows
  <2> QED
    BY <2>1, <2>2, <2>3, <2>4, <2>5, <2>6, <2>7 DEF Relies
<1> QED
  BY <1>1, <1>2

LEMMA TablesStay ==
  ASSUME Tables, UNCHANGED <<proposal, eval, events, host>>
  PROVE  Tables' /\ Grows
<1>1. Grows
  BY DEF Grows, host
<1>2. /\ proposal' = proposal /\ eval' = eval /\ events' = events
      /\ committed' = committed /\ pull' = pull
  BY DEF host
<1>3. TablesTyped' /\ EvalsSound'
  BY <1>2 DEF Tables, TablesTyped, EvalsSound
<1>4. PullsSound'
  BY <1>2 DEF Tables, PullsSound, OpenPulls, Consent, Allowed, Approved
<1>5. ASSUME NEW p \in Proposals PROVE RowSound(p, proposal[p])'
  <2>1. RowSound(p, proposal[p])
    BY DEF Tables
  <2> QED
    BY <1>2, <2>1 DEF RowSound, Consent, Allowed, Approved, Audited
<1> QED
  BY <1>1, <1>3, <1>4, <1>5 DEF Tables

(* A step of handler h to stage s with job j. *)
LEMMA HandlerMoves ==
  ASSUME HandlersSound, Grows, NEW h \in Handlers, NEW s \in Stages,
         NEW j \in Jobs, pc' = [pc EXCEPT ![h] = s],
         job' = [job EXCEPT ![h] = j], Relies(s, j)'
  PROVE  HandlersSound'
<1>1. pc' \in [Handlers -> Stages] /\ job' \in [Handlers -> Jobs]
  BY DEF HandlersSound
<1>2. ASSUME NEW k \in Handlers PROVE Relies(pc[k], job[k])'
  <2>1. CASE k = h
    <3>1. pc'[k] = s /\ job'[k] = j
      BY <2>1 DEF HandlersSound
    <3> QED
      BY <3>1 DEF Relies
  <2>2. CASE k # h
    <3>1. /\ pc'[k] = pc[k] /\ job'[k] = job[k]
          /\ pc[k] \in Stages /\ job[k] \in Jobs
      BY <2>2 DEF HandlersSound
    <3>2. Relies(pc[k], job[k])
      BY DEF HandlersSound
    <3>3. PICK t \in Stages, j1 \in Jobs : t = pc[k] /\ j1 = job[k]
      BY <3>1
    <3>4. Relies(t, j1)
      BY <3>2, <3>3
    <3>5. Relies(t, j1)'
      BY <3>4, RelyStays
    <3> QED
      BY <3>1, <3>3, <3>5 DEF Relies
  <2> QED
    BY <2>1, <2>2
<1> QED
  BY <1>1, <1>2 DEF HandlersSound

(* The same when the new job is made of the old one. *)
LEMMA HandlerSteps ==
  ASSUME HandlersSound, Grows, NEW h \in Handlers, NEW s \in Stages,
         pc' = [pc EXCEPT ![h] = s], job' = [job EXCEPT ![h] = job'[h]],
         job'[h] \in Jobs, Relies(s, job[h])'
  PROVE  HandlersSound'
<1>1. PICK j \in Jobs : j = job'[h]
  OBVIOUS
<1>2. Relies(s, j)'
  BY <1>1 DEF Relies
<1>3. job' = [job EXCEPT ![h] = j]
  BY <1>1
<1> QED
  BY <1>2, <1>3, HandlerMoves

(* The same when the handler keeps its job. *)
LEMMA HandlerGoes ==
  ASSUME HandlersSound, Grows, NEW h \in Handlers, NEW s \in Stages,
         Goto(h, s), UNCHANGED job, Relies(s, job[h])'
  PROVE  HandlersSound'
<1>1. /\ job' = [job EXCEPT ![h] = job'[h]] /\ job'[h] \in Jobs
      /\ pc' = [pc EXCEPT ![h] = s]
  BY DEF HandlersSound, Goto
<1> QED
  BY <1>1, HandlerSteps

LEMMA HandlersStay ==
  ASSUME HandlersSound, Grows, UNCHANGED <<pc, job>>
  PROVE  HandlersSound'
<1>1. ASSUME NEW k \in Handlers PROVE Relies(pc[k], job[k])'
  <2>1. PICK t \in Stages, j \in Jobs : t = pc[k] /\ j = job[k]
    BY DEF HandlersSound
  <2>2. Relies(t, j)
    BY <2>1 DEF HandlersSound
  <2>3. Relies(t, j)'
    BY <2>2, RelyStays
  <2> QED
    BY <2>1, <2>3 DEF Relies
<1> QED
  BY <1>1 DEF HandlersSound

LEMMA NoJobTyped == NoJob \in Jobs
  BY DEF NoJob, Jobs

LEMMA HandlerEnds ==
  ASSUME HandlersSound, Grows, NEW h \in Handlers, Finish(h)
  PROVE  HandlersSound'
<1>1. "idle" \in Stages /\ Relies("idle", NoJob)'
  BY DEF Stages, Relies, GitStages
<1>2. pc' = [pc EXCEPT ![h] = "idle"] /\ job' = [job EXCEPT ![h] = NoJob]
  BY DEF Finish, Goto
<1> QED
  BY <1>1, <1>2, NoJobTyped, HandlerMoves

(* A row of proposal p is replaced by r; no other table changes.           *)
LEMMA RowReplaced ==
  ASSUME Tables, NEW p \in Proposals, NEW r \in ProposalRows, RowSound(p, r),
         proposal' = [proposal EXCEPT ![p] = r],
         UNCHANGED <<eval, events, host>>
  PROVE  Tables' /\ Grows
<1>1. Grows
  BY DEF Grows, host
<1>2. /\ eval' = eval /\ events' = events
      /\ committed' = committed /\ pull' = pull
  BY DEF host
<1>3. TablesTyped' /\ EvalsSound'
  BY <1>2 DEF Tables, TablesTyped, EvalsSound
<1>4. PullsSound'
  BY <1>2 DEF Tables, PullsSound, OpenPulls, Consent, Allowed, Approved
<1>5. ASSUME NEW k \in Proposals PROVE RowSound(k, proposal[k])'
  <2>1. PICK r1 \in ProposalRows : r1 = proposal'[k] /\ RowSound(k, r1)
    BY DEF Tables, TablesTyped
  <2>2. RowSound(k, r1)'
    BY <1>1, <2>1, RowStays
  <2> QED
    BY <2>1, <2>2 DEF RowSound
<1> QED
  BY <1>1, <1>3, <1>4, <1>5 DEF Tables

(* What a final write leaves. *)
LEMMA WriteKeeps ==
  ASSUME RemediationInv, NEW h \in Handlers, NEW r \in ProposalRows,
         job[h].of \in Proposals, RowSound(job[h].of, r), Write(h, r)
  PROVE  RemediationInv'
<1>1. PICK p \in Proposals : p = job[h].of
  OBVIOUS
<1>2. /\ RowSound(p, r) /\ proposal' = [proposal EXCEPT ![p] = r]
      /\ UNCHANGED <<eval, events, host>> /\ Finish(h)
  BY <1>1 DEF Write
<1>3. Tables' /\ Grows
  BY <1>2, RowReplaced DEF RemediationInv
<1> QED
  BY <1>2, <1>3, HandlerEnds DEF RemediationInv

-----------------------------------------------------------------------------
(* Evaluations and answers *)

LEMMA StartKeeps ==
  ASSUME RemediationInv, NEW h \in Handlers, NEW p \in Proposals, Start(h, p)
  PROVE  RemediationInv'
<1>1. /\ Tables' /\ Grows /\ RowSound(p, proposal[p])
      /\ proposal[p] \in ProposalRows
  BY TablesStay DEF Start, StartEvaluate, StartResolve, StartPrepare, StartApply,
                    StartVerify, Read, RemediationInv, Tables, TablesTyped
<1>2. ASSUME NEW s \in Stages, NEW j \in Jobs, pc' = [pc EXCEPT ![h] = s],
             job' = [job EXCEPT ![h] = j], Relies(s, j)
      PROVE  RemediationInv'
  <2>1. Relies(s, j)'
    BY <1>1, <1>2, RelyStays
  <2> QED
    BY <1>1, <1>2, <2>1, HandlerMoves DEF RemediationInv
<1>3. /\ Job(p) \in Jobs /\ Job(p).of = p /\ Job(p).eval = proposal[p].approval
      /\ Job(p).pull = None /\ Job(p).answer = "none"
  BY <1>1 DEF Job, Jobs, NoJob, InSync, ProposalRows
<1>4. CASE StartEvaluate(h, p)
  <2>1. Relies("evaluate", Job(p)) /\ "evaluate" \in Stages
    BY <1>3 DEF Relies, GitStages, Stages
  <2>2. pc' = [pc EXCEPT ![h] = "evaluate"] /\ job' = [job EXCEPT ![h] = Job(p)]
    BY <1>4 DEF StartEvaluate, Read, Goto, Works
  <2> QED
    BY <1>2, <1>3, <2>1, <2>2
<1>5. CASE StartResolve(h, p)
  <2>1. PICK answer \in Answers :
          /\ Read(h, p, answer, IF proposal[p].approval = None THEN "answer"
                                ELSE "resolve")
          /\ job' = [job EXCEPT ![h] = [Job(p) EXCEPT !.answer = answer]]
    BY <1>5 DEF StartResolve
  <2>2. proposal[p].status = "policy_evaluated"
    BY <2>1 DEF Read, Allows, Transitions, Answers
  <2>3. /\ proposal[p].approval # None /\ proposal[p].approval \in Evals
        /\ eval[proposal[p].approval].of = p
    BY <1>1, <2>2 DEF RowSound, ProposalRows
  <2> DEFINE j == [Job(p) EXCEPT !.answer = answer]
  <2>4. /\ j \in Jobs /\ j.of = p /\ j.eval = proposal[p].approval
        /\ j.answer = answer /\ j.pull = None
    BY <1>3 DEF Jobs
  <2>5. Relies("resolve", j) /\ "resolve" \in Stages
    BY <2>3, <2>4 DEF Relies, GitStages, Stages
  <2>6. pc' = [pc EXCEPT ![h] = "resolve"]
    BY <2>1, <2>3 DEF Read, Goto
  <2> QED
    BY <1>2, <2>1, <2>4, <2>5, <2>6
<1>6. CASE StartPrepare(h, p)
  <2>1. PICK stage \in {"find", "drafted"} : Read(h, p, "pr_created", stage)
    BY <1>6 DEF StartPrepare
  <2>2. Consent(p)
    BY <1>1, <2>1 DEF Read, Allows, Transitions, RowSound, Consented
  <2>3. Relies(stage, Job(p)) /\ stage \in Stages
    BY <1>3, <2>2 DEF Relies, Stages
  <2>4. pc' = [pc EXCEPT ![h] = stage] /\ job' = [job EXCEPT ![h] = Job(p)]
    BY <1>6, <2>1 DEF StartPrepare, Read, Goto, Works
  <2> QED
    BY <1>2, <1>3, <2>3, <2>4
<1>7. CASE StartApply(h, p)
  <2>1. Consent(p)
    BY <1>1, <1>7 DEF StartApply, Read, Allows, Transitions, RowSound, Consented
  <2>2. Relies("applied", Job(p)) /\ "applied" \in Stages
    BY <1>3, <2>1 DEF Relies, Stages
  <2>3. pc' = [pc EXCEPT ![h] = "applied"] /\ job' = [job EXCEPT ![h] = Job(p)]
    BY <1>7 DEF StartApply, Read, Goto, Works
  <2> QED
    BY <1>2, <1>3, <2>2, <2>3
<1>8. CASE StartVerify(h, p)
  <2>1. PICK stage \in {"verifying", "clear"} : Read(h, p, "verified", stage)
    BY <1>8 DEF StartVerify
  <2>2. Consent(p)
    BY <1>1, <2>1 DEF Read, Allows, Transitions, RowSound, Consented
  <2> DEFINE j == [Job(p) EXCEPT !.todo = Backends]
  <2>3. /\ j \in Jobs /\ j.of = p /\ j.pull = None
    BY <1>3 DEF Jobs
  <2>4. Relies(stage, j) /\ stage \in Stages
    BY <2>2, <2>3 DEF Relies, Stages
  <2>5. pc' = [pc EXCEPT ![h] = stage] /\ job' = [job EXCEPT ![h] = j]
    BY <1>8, <2>1 DEF StartVerify, Read, Goto
  <2> QED
    BY <1>2, <2>3, <2>4, <2>5
<1> QED
  BY <1>4, <1>5, <1>6, <1>7, <1>8 DEF Start

(* Evaluations, answers and events that only grow support what rests on    *)
(* them.                                                                   *)
LEMMA EvaluationsGrow ==
  ASSUME Tables, Grows, TablesTyped', EvalsSound', UNCHANGED <<proposal, host>>
  PROVE  Tables'
<1>1. committed' = committed /\ pull' = pull /\ proposal' = proposal
  BY DEF host
<1>2. PullsSound'
  <2>1. ASSUME NEW q \in Pulls, pull[q].of # None
        PROVE  pull[q].of \in committed /\ Consent(pull[q].of)'
    <3>1. PICK p \in Proposals : p = pull[q].of
      BY <2>1 DEF Tables, TablesTyped
    <3>2. p \in committed /\ Consent(p)
      BY <2>1, <3>1 DEF Tables, PullsSound
    <3>3. Consent(p)'
      BY <3>2, ConsentStays DEF Consent
    <3>4. Consent(pull[q].of)'
      BY <1>1, <3>1, <3>3 DEF Consent, Allowed, Approved
    <3> QED
      BY <3>1, <3>2, <3>4
  <2>2. \A p \in Proposals, q, s \in Pulls :
          q \in OpenPulls(p)' /\ s \in OpenPulls(p)' => q = s
    BY <1>1 DEF Tables, PullsSound, OpenPulls
  <2>3. \A q \in Pulls : pull'[q].of # None =>
          pull'[q].of \in committed' /\ Consent(pull[q].of)'
    BY <1>1, <2>1
  <2> QED
    BY <2>2, <2>3 DEF PullsSound
<1>3. ASSUME NEW p \in Proposals PROVE RowSound(p, proposal[p])'
  <2>1. PICK r \in ProposalRows : r = proposal[p] /\ RowSound(p, r)
    BY DEF Tables, TablesTyped
  <2>2. RowSound(p, r)'
    BY <2>1, RowStays
  <2> QED
    BY <1>1, <2>1, <2>2 DEF RowSound
<1> QED
  BY <1>2, <1>3 DEF Tables

LEMMA PersistEvaluationKeeps ==
  ASSUME RemediationInv, NEW h \in Handlers, PersistEvaluation(h)
  PROVE  RemediationInv'
<1>1. PICK e \in Evals, v \in Verdicts :
        /\ eval[e] = NoEval
        /\ eval' = [eval EXCEPT ![e] =
             [of |-> job[h].of, verdict |-> v,
              approval |-> IF v = "approval_required" THEN "pending" ELSE "none"]]
        /\ job' = [job EXCEPT ![h].eval = e]
  BY DEF PersistEvaluation
<1>2. /\ pc[h] = "evaluate" /\ Goto(h, "verdict")
      /\ UNCHANGED <<proposal, events, host>>
  BY DEF PersistEvaluation
<1>3. /\ job[h] \in Jobs /\ job[h].of \in Proposals /\ Relies(pc[h], job[h])
      /\ job[h].of # None
  BY <1>2, RemediationAssumption DEF RemediationInv, HandlersSound, Relies
<1>4. eval \in [Evals -> EvalRows] /\ eval[e].of = None /\ eval[e].approval = "none"
  BY <1>1 DEF RemediationInv, Tables, TablesTyped, NoEval
<1>5. /\ eval'[e].of = job[h].of /\ eval'[e].verdict = v
      /\ eval'[e].approval = IF v = "approval_required" THEN "pending" ELSE "none"
      /\ \A f \in Evals \ {e} : eval'[f] = eval[f]
  BY <1>1, <1>4
<1>6. eval' \in [Evals -> EvalRows]
  BY <1>1, <1>3, <1>4 DEF EvalRows
<1>7. Grows
  BY <1>2, <1>4, <1>5 DEF Grows, host
<1>8. TablesTyped'
  BY <1>2, <1>6 DEF RemediationInv, Tables, TablesTyped, host
<1>9. EvalsSound'
  <2>1. ASSUME NEW ev \in events PROVE eval'[ev[1]].approval = ev[2]
    <3>1. /\ ev[1] \in Evals /\ ev[2] \in Answers /\ eval[ev[1]].approval = ev[2]
      BY DEF RemediationInv, Tables, TablesTyped, EvalsSound
    <3>2. ev[1] # e
      BY <1>4, <3>1 DEF Answers
    <3> QED
      BY <1>5, <3>1, <3>2
  <2>2. \A f \in Evals : eval'[f].of # None =>
         /\ eval'[f].verdict \in Verdicts
         /\ eval'[f].verdict = "approval_required" => eval'[f].approval # "none"
    BY <1>5 DEF RemediationInv, Tables, EvalsSound
  <2>3. \A f \in Evals : eval'[f].of = None => eval'[f].approval = "none"
    BY <1>3, <1>5 DEF RemediationInv, Tables, EvalsSound
  <2> QED
    BY <1>2, <2>1, <2>2, <2>3 DEF EvalsSound
<1>10. Tables'
  BY <1>2, <1>7, <1>8, <1>9, EvaluationsGrow DEF RemediationInv
<1>11. PICK j \in Jobs :
         /\ j = [job[h] EXCEPT !.eval = e]
         /\ j.of = job[h].of /\ j.eval = e /\ j.pull = job[h].pull
  <2> DEFINE j0 == [job[h] EXCEPT !.eval = e]
  <2>1. /\ j0 \in Jobs
        /\ j0.of = job[h].of /\ j0.eval = e /\ j0.pull = job[h].pull
    BY <1>3 DEF Jobs
  <2> HIDE DEF j0
  <2>2. j0 = [job[h] EXCEPT !.eval = e]
    BY DEF j0
  <2> QED
    BY <2>1, <2>2
<1>12. j.pull # None => pull'[j.pull].of = j.of
  BY <1>2, <1>3, <1>11 DEF Relies, host
<1>13. Relies("verdict", j)' /\ "verdict" \in Stages
  <2>1. j.of \in Proposals /\ j.eval \in Evals /\ eval'[j.eval].of = j.of
    BY <1>3, <1>5, <1>11
  <2> QED
    BY <1>12, <2>1 DEF Relies, GitStages, Stages
<1>14. /\ pc' = [pc EXCEPT ![h] = "verdict"]
       /\ job' = [job EXCEPT ![h] = j]
  BY <1>1, <1>2, <1>11 DEF Goto
<1>15. HandlersSound'
  BY <1>7, <1>11, <1>13, <1>14, HandlerMoves DEF RemediationInv
<1> QED
  BY <1>10, <1>15 DEF RemediationInv

LEMMA RecordVerdictKeeps ==
  ASSUME RemediationInv, NEW h \in Handlers, RecordVerdict(h)
  PROVE  RemediationInv'
<1> DEFINE e == job[h].eval
           r == [Row(h) EXCEPT !.status = StatusAfter(eval[e].verdict),
                               !.approval = Linked(e, @)]
<1>1. pc[h] = "verdict" /\ Write(h, r)
  BY DEF RecordVerdict
<1>2. /\ job[h].of \in Proposals /\ e \in Evals /\ eval[e].of = job[h].of
      /\ eval[e].of # None
  BY <1>1, RemediationAssumption DEF RemediationInv, HandlersSound, Relies
<1>3. Row(h) \in ProposalRows /\ RowSound(job[h].of, Row(h))
  BY <1>2 DEF Row, RemediationInv, Tables, TablesTyped
<1>4. /\ eval[e].verdict \in Verdicts
      /\ eval[e].verdict = "approval_required" => eval[e].approval # "none"
  BY <1>2 DEF RemediationInv, Tables, EvalsSound
<1>5. /\ r.status = StatusAfter(eval[e].verdict)
      /\ r.approval = Linked(e, Row(h).approval) /\ r.url = Row(h).url
  BY <1>3 DEF ProposalRows
<1>6. /\ r.status \in {"approved", "rejected", "policy_evaluated"}
      /\ r.status = "approved" <=> eval[e].verdict = "allow"
      /\ r.status = "policy_evaluated" <=> eval[e].verdict = "approval_required"
  BY <1>4, <1>5 DEF StatusAfter, Verdicts
<1>7. r.approval \in {e, Row(h).approval}
  BY <1>5 DEF Linked
<1>8. r \in ProposalRows
  <2>1. StatusAfter(eval[e].verdict) \in Statuses
    BY <1>5, <1>6 DEF Statuses, Transitions
  <2>2. Linked(e, Row(h).approval) \in Evals \cup {None}
    BY <1>2, <1>3 DEF Linked, ProposalRows
  <2> QED
    BY <1>3, <2>1, <2>2 DEF ProposalRows
<1>9. r.status = "policy_evaluated" => r.approval # None
  BY <1>2, <1>4, <1>5, <1>6, RemediationAssumption DEF Linked
<1>10. r.status = "approved" => Allowed(job[h].of)
  BY <1>2, <1>6 DEF Allowed
<1>11. RowSound(job[h].of, r)
  BY <1>2, <1>3, <1>5, <1>6, <1>7, <1>9, <1>10
     DEF RowSound, Consented, Consent
<1> QED
  BY <1>1, <1>2, <1>8, <1>11, WriteKeeps

LEMMA AnswerGrows ==
  ASSUME RemediationInv, NEW e \in Evals, NEW a \in Answers \cup {"expired"},
         eval[e].approval = "pending", eval' = [eval EXCEPT ![e].approval = a],
         UNCHANGED <<proposal, events, host>>
  PROVE  Tables' /\ Grows
<1>1. eval \in [Evals -> EvalRows]
  BY DEF RemediationInv, Tables, TablesTyped
<1>2. eval' \in [Evals -> EvalRows]
  BY <1>1 DEF EvalRows
<1>3. /\ eval'[e].of = eval[e].of /\ eval'[e].verdict = eval[e].verdict
      /\ eval'[e].approval = a /\ a # "none"
      /\ \A f \in Evals \ {e} : eval'[f] = eval[f]
  BY <1>1 DEF EvalRows, Answers
<1>4. Grows
  BY <1>3 DEF Grows, Answers, host
<1>5. eval[e].of # None
  BY DEF RemediationInv, Tables, EvalsSound
<1>6. EvalsSound'
  <2>1. ASSUME NEW ev \in events PROVE eval'[ev[1]].approval = ev[2]
    <3>1. /\ ev[1] \in Evals /\ ev[2] \in Answers /\ eval[ev[1]].approval = ev[2]
      BY DEF RemediationInv, Tables, TablesTyped, EvalsSound
    <3>2. ev[1] # e
      BY <3>1 DEF Answers
    <3> QED
      BY <1>3, <3>1, <3>2
  <2>2. \A f \in Evals : eval'[f].of # None =>
         /\ eval'[f].verdict \in Verdicts
         /\ eval'[f].verdict = "approval_required" => eval'[f].approval # "none"
    BY <1>3, <1>5 DEF RemediationInv, Tables, EvalsSound
  <2>3. \A f \in Evals : eval'[f].of = None => eval'[f].approval = "none"
    BY <1>3, <1>5 DEF RemediationInv, Tables, EvalsSound
  <2> QED
    BY <2>1, <2>2, <2>3 DEF EvalsSound
<1>7. TablesTyped'
  BY <1>2 DEF RemediationInv, Tables, TablesTyped, host
<1> QED
  BY <1>4, <1>6, <1>7, EvaluationsGrow DEF RemediationInv

LEMMA ResolveApprovalKeeps ==
  ASSUME RemediationInv, NEW h \in Handlers, ResolveApproval(h)
  PROVE  RemediationInv'
<1> DEFINE e == job[h].eval
<1>1. /\ pc[h] = "resolve" /\ job[h] \in Jobs /\ Relies("resolve", job[h])
      /\ UNCHANGED <<proposal, events, host>>
  BY DEF ResolveApproval, RemediationInv, HandlersSound
<1>2. /\ e \in Evals /\ eval[e].of = job[h].of /\ job[h].answer \in Answers
      /\ job[h].of \in Proposals
  BY <1>1 DEF Relies
<1>3. CASE eval[e].approval = "pending"
  <2>1. /\ eval' = [eval EXCEPT ![e].approval = job[h].answer]
        /\ Goto(h, "audit") /\ UNCHANGED job
    BY <1>3 DEF ResolveApproval, AfterResolve
  <2>2. Tables' /\ Grows
    BY <1>1, <1>2, <1>3, <2>1, AnswerGrows
  <2>3. eval'[e].of = eval[e].of /\ eval'[e].approval = job[h].answer
    BY <1>2, <2>1 DEF RemediationInv, Tables, TablesTyped, EvalRows
  <2>4. job'[h].pull # None => pull'[job'[h].pull].of = job'[h].of
    BY <1>1, <2>1 DEF Relies, host
  <2>5. Relies("audit", job[h])' /\ "audit" \in Stages
    BY <1>2, <2>1, <2>3, <2>4 DEF Relies, GitStages, Stages
  <2>6. HandlersSound'
    BY <2>1, <2>2, <2>5, HandlerGoes DEF RemediationInv
  <2> QED
    BY <2>2, <2>6 DEF RemediationInv
<1>4. CASE eval[e].approval # "pending"
  <2>1. Finish(h) /\ UNCHANGED eval
    BY <1>4 DEF ResolveApproval
  <2>2. Tables' /\ Grows
    BY <1>1, <2>1, TablesStay DEF RemediationInv
  <2> QED
    BY <2>1, <2>2, HandlerEnds DEF RemediationInv
<1> QED
  BY <1>3, <1>4

LEMMA ResolveElsewhereKeeps ==
  ASSUME RemediationInv, NEW e \in Evals, NEW a \in Answers \cup {"expired"},
         ResolveElsewhere(e, a)
  PROVE  RemediationInv'
<1>1. Tables' /\ Grows
  BY AnswerGrows DEF ResolveElsewhere
<1>2. HandlersSound'
  BY <1>1, HandlersStay DEF ResolveElsewhere, RemediationInv
<1> QED
  BY <1>1, <1>2 DEF RemediationInv

LEMMA AuditResolutionKeeps ==
  ASSUME RemediationInv, NEW h \in Handlers, AuditResolution(h)
  PROVE  RemediationInv'
<1> DEFINE e == job[h].eval
<1>1. /\ pc[h] = "audit" /\ job[h] \in Jobs /\ Relies("audit", job[h])
      /\ events' = events \cup {<<e, job[h].answer>>} /\ Goto(h, "answer")
      /\ UNCHANGED <<proposal, eval, host, job>>
  BY DEF AuditResolution, RemediationInv, HandlersSound
<1>2. /\ e \in Evals /\ eval[e].of = job[h].of /\ job[h].answer \in Answers
      /\ job[h].of \in Proposals /\ eval[e].approval = job[h].answer
  BY <1>1 DEF Relies
<1>3. Grows
  BY <1>1 DEF Grows, host
<1>4. TablesTyped'
  BY <1>1, <1>2 DEF RemediationInv, Tables, TablesTyped, host
<1>5. EvalsSound'
  BY <1>1, <1>2 DEF RemediationInv, Tables, EvalsSound
<1>6. Tables'
  BY <1>1, <1>3, <1>4, <1>5, EvaluationsGrow DEF RemediationInv
<1>7. job[h].answer = "approved" => Audited(job[h].of)'
  BY <1>1, <1>2 DEF Audited
<1>8. job[h].pull # None => pull'[job[h].pull].of = job[h].of
  BY <1>1 DEF Relies, host
<1>9. Relies("answer", job[h])' /\ "answer" \in Stages
  BY <1>1, <1>2, <1>7, <1>8 DEF Relies, GitStages, Stages, Audited
<1>10. HandlersSound'
  BY <1>1, <1>3, <1>9, HandlerGoes DEF RemediationInv
<1> QED
  BY <1>6, <1>10 DEF RemediationInv

LEMMA RecordAnswerKeeps ==
  ASSUME RemediationInv, NEW h \in Handlers, RecordAnswer(h)
  PROVE  RemediationInv'
<1> DEFINE r == [Row(h) EXCEPT !.status = job[h].answer]
           p == job[h].of
<1>1. pc[h] = "answer" /\ Write(h, r) /\ Relies("answer", job[h])
  BY DEF RecordAnswer, RemediationInv, HandlersSound
<1>2. /\ p \in Proposals /\ job[h].answer \in Answers
      /\ job[h].answer = "approved" => Audited(p)
  BY <1>1 DEF Relies
<1>3. Row(h) \in ProposalRows /\ RowSound(p, Row(h))
  BY <1>2 DEF Row, RemediationInv, Tables, TablesTyped
<1>4. r \in ProposalRows
  BY <1>2, <1>3 DEF ProposalRows, Statuses, Transitions, Answers
<1>5. /\ r.status = job[h].answer /\ r.approval = Row(h).approval
      /\ r.url = Row(h).url
  BY <1>3 DEF ProposalRows
<1>6. Audited(p) => Approved(p)
  BY DEF Audited, Approved, RemediationInv, Tables, EvalsSound
<1>7. RowSound(p, r)
  BY <1>2, <1>3, <1>5, <1>6 DEF RowSound, Answers, Consented, Consent
<1> QED
  BY <1>1, <1>2, <1>4, <1>7, WriteKeeps

-----------------------------------------------------------------------------
(* Pull requests *)

(* A handler that learnt a pull request of its own proposal.               *)
LEMMA PullFound ==
  ASSUME RemediationInv, Tables', Grows, NEW h \in Handlers, NEW q \in Pulls,
         NEW s \in {"commit", "drafted"}, Goto(h, s),
         job' = [job EXCEPT ![h].pull = q], job[h].of \in Proposals,
         Consent(job[h].of), pull'[q].of = job[h].of
  PROVE  RemediationInv'
<1>1. job[h] \in Jobs /\ job \in [Handlers -> Jobs]
  BY DEF RemediationInv, HandlersSound
<1>2. PICK j \in Jobs :
        /\ j = [job[h] EXCEPT !.pull = q]
        /\ j.of = job[h].of /\ j.pull = q
  <2> DEFINE j0 == [job[h] EXCEPT !.pull = q]
  <2>1. j0 \in Jobs /\ j0.of = job[h].of /\ j0.pull = q
    BY <1>1 DEF Jobs
  <2> HIDE DEF j0
  <2>2. j0 = [job[h] EXCEPT !.pull = q]
    BY DEF j0
  <2> QED
    BY <2>1, <2>2
<1>3. /\ pc' = [pc EXCEPT ![h] = s] /\ job' = [job EXCEPT ![h] = j]
      /\ s \in Stages
  BY <1>2 DEF Goto, Stages
<1>4. j.of \in Proposals /\ Consent(j.of)
  BY <1>2 DEF Consent, Allowed, Approved
<1>5. Consent(j.of)'
  BY <1>4, ConsentStays DEF Consent
<1>6. Relies(s, j)'
  BY <1>2, <1>4, <1>5 DEF Relies
<1> QED
  BY <1>3, <1>6, HandlerMoves DEF RemediationInv

LEMMA FindKeeps ==
  ASSUME RemediationInv, NEW h \in Handlers, FindOpenPullRequest(h)
  PROVE  RemediationInv'
<1>1. /\ pc[h] = "find" /\ Goto(h, "commit") /\ Relies("find", job[h])
      /\ UNCHANGED <<proposal, eval, events, host>>
  BY DEF FindOpenPullRequest, RemediationInv, HandlersSound
<1>2. Tables' /\ Grows
  BY <1>1, TablesStay DEF RemediationInv
<1>3. job[h].of \in Proposals /\ Consent(job[h].of)
  BY <1>1 DEF Relies, GitStages
<1>4. CASE \E q \in OpenPulls(job[h].of) : job' = [job EXCEPT ![h].pull = q]
  <2>1. PICK q \in OpenPulls(job[h].of) : job' = [job EXCEPT ![h].pull = q]
    BY <1>4
  <2>2. q \in Pulls /\ pull'[q].of = job[h].of
    BY <1>1 DEF OpenPulls, host
  <2> QED
    BY <1>1, <1>2, <1>3, <2>1, <2>2, PullFound
<1>5. CASE UNCHANGED job
  <2>1. PICK j \in Jobs : j = job[h] /\ Relies("find", j)
    BY <1>1 DEF RemediationInv, HandlersSound
  <2>2. Relies("find", j)'
    BY <1>2, <2>1, RelyStays
  <2>3. Relies("commit", j)' /\ "commit" \in Stages
    BY <2>2 DEF Relies, GitStages, Stages
  <2>4. Relies("commit", job[h])'
    BY <1>5, <2>1, <2>3 DEF Relies
  <2>5. HandlersSound'
    BY <1>1, <1>2, <1>5, <2>3, <2>4, HandlerGoes DEF RemediationInv
  <2> QED
    BY <1>2, <2>5 DEF RemediationInv
<1> QED
  BY <1>4, <1>5 DEF FindOpenPullRequest

LEMMA CommitManifestKeeps ==
  ASSUME RemediationInv, NEW h \in Handlers, CommitManifest(h)
  PROVE  RemediationInv'
<1>1. /\ pc[h] = "commit" /\ Relies("commit", job[h]) /\ job[h] \in Jobs
      /\ committed' = committed \cup {job[h].of}
      /\ UNCHANGED <<proposal, eval, events, pull, job>>
      /\ Goto(h, IF job[h].pull = None THEN "open" ELSE "drafted")
  BY DEF CommitManifest, Committed, RemediationInv, HandlersSound
<1>2. job[h].of \in Proposals
  BY <1>1 DEF Relies
<1>3. Grows
  BY <1>1 DEF Grows
<1>4. TablesTyped' /\ EvalsSound'
  BY <1>1, <1>2 DEF RemediationInv, Tables, TablesTyped, EvalsSound
<1>5. PullsSound'
  BY <1>1 DEF RemediationInv, Tables, PullsSound, OpenPulls, Consent, Allowed,
              Approved
<1>6. ASSUME NEW p \in Proposals PROVE RowSound(p, proposal[p])'
  <2>1. RowSound(p, proposal[p])
    BY DEF RemediationInv, Tables
  <2> QED
    BY <1>1, <2>1 DEF RowSound, Consent, Allowed, Approved, Audited
<1>7. PICK s \in {"open", "drafted"} :
        s = IF job[h].pull = None THEN "open" ELSE "drafted"
  OBVIOUS
<1>8. PICK j \in Jobs : j = job[h] /\ Relies("commit", j)
  BY <1>1
<1>9. Relies("commit", j)'
  BY <1>3, <1>8, RelyStays
<1>10. j.of \in committed'
  BY <1>1, <1>8
<1>11. Relies(s, j)' /\ s \in Stages
  BY <1>9, <1>10 DEF Relies, GitStages, Stages
<1>12. Relies(s, job[h])'
  BY <1>1, <1>8, <1>11 DEF Relies
<1>13. HandlersSound'
  BY <1>1, <1>3, <1>7, <1>11, <1>12, HandlerGoes DEF RemediationInv
<1> QED
  BY <1>4, <1>5, <1>6, <1>13 DEF RemediationInv, Tables

(* A pull request that opens or closes: rows and consent rest on nothing   *)
(* that changes.                                                           *)
LEMMA PullsChange ==
  ASSUME Tables, Grows, UNCHANGED <<proposal, eval, events, committed>>,
         pull' \in [Pulls -> [of: Proposals \cup {None}, open: BOOLEAN]],
         PullsSound'
  PROVE  Tables'
<1>1. TablesTyped' /\ EvalsSound'
  BY DEF Tables, TablesTyped, EvalsSound
<1>2. ASSUME NEW p \in Proposals PROVE RowSound(p, proposal[p])'
  <2>1. PICK r \in ProposalRows : r = proposal[p] /\ RowSound(p, r)
    BY DEF Tables, TablesTyped
  <2>2. RowSound(p, r)'
    BY <2>1, RowStays
  <2> QED
    BY <2>1, <2>2 DEF RowSound
<1> QED
  BY <1>1, <1>2 DEF Tables

LEMMA CreatePullRequestKeeps ==
  ASSUME RemediationInv, NEW h \in Handlers, CreatePullRequest(h)
  PROVE  RemediationInv'
<1>1. /\ pc[h] = "open" /\ Relies("open", job[h]) /\ job[h] \in Jobs
      /\ UNCHANGED <<proposal, eval, events, committed>>
  BY DEF CreatePullRequest, RemediationInv, HandlersSound
<1>2. PICK p \in Proposals : p = job[h].of
  BY <1>1 DEF Relies
<1>3. Consent(p) /\ p \in committed
  BY <1>1, <1>2 DEF Relies, GitStages
<1>4. CASE OpenPulls(p) = {} /\ Goto(h, "drafted")
           /\ \E q \in Pulls :
                /\ pull[q] = NoPull
                /\ pull' = [pull EXCEPT ![q] = [of |-> p, open |-> TRUE]]
                /\ job' = [job EXCEPT ![h].pull = q]
  <2>1. PICK q \in Pulls :
                /\ pull[q] = NoPull
                /\ pull' = [pull EXCEPT ![q] = [of |-> p, open |-> TRUE]]
                /\ job' = [job EXCEPT ![h].pull = q]
    BY <1>4
  <2>2. /\ pull \in [Pulls -> [of: Proposals \cup {None}, open: BOOLEAN]]
        /\ pull' \in [Pulls -> [of: Proposals \cup {None}, open: BOOLEAN]]
        /\ pull[q].of = None /\ pull'[q].of = p /\ pull'[q].open
        /\ \A s \in Pulls \ {q} : pull'[s] = pull[s]
    BY <2>1 DEF RemediationInv, Tables, TablesTyped, NoPull
  <2>3. Grows
    BY <1>1, <2>2 DEF Grows
  <2>4. ASSUME NEW s \in Pulls, pull'[s].of # None
        PROVE  pull'[s].of \in committed' /\ Consent(pull'[s].of)
    <3>1. CASE s = q
      BY <1>1, <1>3, <2>2, <3>1
    <3>2. CASE s # q
      BY <1>1, <2>2, <2>4, <3>2 DEF RemediationInv, Tables, PullsSound
    <3> QED
      BY <3>1, <3>2
  <2>5. ASSUME NEW k \in Proposals, NEW s \in OpenPulls(k)', NEW t \in OpenPulls(k)'
        PROVE  s = t
    <3>1. /\ s \in Pulls /\ t \in Pulls
          /\ pull'[s].of = k /\ pull'[t].of = k /\ pull'[s].open /\ pull'[t].open
      BY DEF OpenPulls
    <3>2. CASE s # q /\ t # q
      BY <2>2, <3>1, <3>2 DEF RemediationInv, Tables, PullsSound, OpenPulls
    <3>3. CASE s = q /\ t # q
      BY <1>4, <2>2, <3>1, <3>3 DEF OpenPulls
    <3>4. CASE s # q /\ t = q
      BY <1>4, <2>2, <3>1, <3>4 DEF OpenPulls
    <3> QED
      BY <3>2, <3>3, <3>4
  <2>6. PullsSound'
    BY <1>1, <2>4, <2>5 DEF PullsSound, Consent, Allowed, Approved
  <2>7. Tables'
    BY <1>1, <2>2, <2>3, <2>6, PullsChange DEF RemediationInv
  <2> QED
    BY <1>2, <1>3, <1>4, <2>1, <2>2, <2>3, <2>7, PullFound
<1>5. CASE Goto(h, "refind") /\ UNCHANGED <<pull, job>>
  <2>1. Tables' /\ Grows
    BY <1>1, <1>5, TablesStay DEF RemediationInv, host
  <2>2. PICK j \in Jobs : j = job[h] /\ Relies("open", j)
    BY <1>1
  <2>3. Relies("open", j)'
    BY <2>1, <2>2, RelyStays
  <2>4. Relies("refind", j)' /\ "refind" \in Stages
    BY <2>3 DEF Relies, GitStages, Stages
  <2>5. Relies("refind", job[h])'
    BY <1>5, <2>2, <2>4 DEF Relies
  <2>6. HandlersSound'
    BY <1>5, <2>1, <2>4, <2>5, HandlerGoes DEF RemediationInv
  <2> QED
    BY <2>1, <2>6 DEF RemediationInv
<1> QED
  BY <1>2, <1>4, <1>5 DEF CreatePullRequest

LEMMA RefindKeeps ==
  ASSUME RemediationInv, NEW h \in Handlers, RefindPullRequest(h)
  PROVE  RemediationInv'
<1>1. /\ pc[h] = "refind" /\ Relies("refind", job[h])
      /\ UNCHANGED <<proposal, eval, events, host>>
  BY DEF RefindPullRequest, RemediationInv, HandlersSound
<1>2. Tables' /\ Grows
  BY <1>1, TablesStay DEF RemediationInv
<1>3. job[h].of \in Proposals /\ Consent(job[h].of)
  BY <1>1 DEF Relies, GitStages
<1>4. CASE Goto(h, "drafted") /\
           \E q \in OpenPulls(job[h].of) : job' = [job EXCEPT ![h].pull = q]
  <2>1. PICK q \in OpenPulls(job[h].of) : job' = [job EXCEPT ![h].pull = q]
    BY <1>4
  <2>2. q \in Pulls /\ pull'[q].of = job[h].of
    BY <1>1 DEF OpenPulls, host
  <2> QED
    BY <1>2, <1>3, <1>4, <2>1, <2>2, PullFound
<1>5. CASE Finish(h)
  BY <1>2, <1>5, HandlerEnds DEF RemediationInv
<1> QED
  BY <1>4, <1>5 DEF RefindPullRequest

LEMMA ClosePullKeeps ==
  ASSUME RemediationInv, NEW q \in Pulls, ClosePull(q)
  PROVE  RemediationInv'
<1>1. /\ pull' = [pull EXCEPT ![q].open = FALSE]
      /\ pull \in [Pulls -> [of: Proposals \cup {None}, open: BOOLEAN]]
      /\ UNCHANGED <<proposal, eval, events, committed, pc, job>>
  BY DEF ClosePull, RemediationInv, Tables, TablesTyped
<1>2. /\ pull' \in [Pulls -> [of: Proposals \cup {None}, open: BOOLEAN]]
      /\ \A s \in Pulls : pull'[s].of = pull[s].of
      /\ \A s \in Pulls : pull'[s].open => pull[s].open
  BY <1>1
<1>3. Grows
  BY <1>1, <1>2 DEF Grows
<1>4. ASSUME NEW s \in Pulls, pull'[s].of # None
      PROVE  pull'[s].of \in committed' /\ Consent(pull'[s].of)
  BY <1>1, <1>2, <1>4 DEF RemediationInv, Tables, PullsSound
<1>5. \A p \in Proposals : OpenPulls(p)' \subseteq OpenPulls(p)
  BY <1>2 DEF OpenPulls
<1>6. PullsSound'
  BY <1>1, <1>4, <1>5
     DEF RemediationInv, Tables, PullsSound, Consent, Allowed, Approved
<1>7. Tables'
  BY <1>1, <1>2, <1>3, <1>6, PullsChange DEF RemediationInv
<1> QED
  BY <1>1, <1>3, <1>7, HandlersStay DEF RemediationInv

-----------------------------------------------------------------------------
(* The other final writes *)

(* A write that keeps the approval, of a proposal there was consent to.    *)
LEMMA ConsentedWrite ==
  ASSUME RemediationInv, NEW h \in Handlers, NEW r \in ProposalRows, Write(h, r),
         job[h].of \in Proposals, Consent(job[h].of),
         r.approval = proposal[job[h].of].approval,
         r.status \in {"pr_created", "applied", "verified", "failed"},
         r.url # None => pull[r.url].of = job[h].of
  PROVE  RemediationInv'
<1>1. RowSound(job[h].of, r)
  BY DEF RemediationInv, Tables, RowSound
<1> QED
  BY <1>1, WriteKeeps

LEMMA FinalWriteKeeps ==
  ASSUME RemediationInv, NEW h \in Handlers,
         RecordPullRequest(h) \/ RecordApplied(h) \/ RecordOutcome(h)
  PROVE  RemediationInv'
<1> DEFINE p == job[h].of
<1>1. pc[h] \in {"drafted", "applied", "outcome"} /\ Relies(pc[h], job[h])
  BY DEF RecordPullRequest, RecordApplied, RecordOutcome, RemediationInv,
         HandlersSound
<1>2. p \in Proposals /\ Consent(p) /\ (job[h].pull # None => pull[job[h].pull].of = p)
  BY <1>1 DEF Relies, GitStages
<1>3. /\ Row(h) \in ProposalRows /\ Row(h) = proposal[p]
      /\ Row(h).url # None => pull[Row(h).url].of = p
  BY <1>2 DEF Row, RemediationInv, Tables, TablesTyped, RowSound
<1>4. job[h].pull \in Pulls \cup {None}
  BY DEF RemediationInv, HandlersSound, Jobs
<1>5. CASE RecordPullRequest(h)
  <2> DEFINE r == [Row(h) EXCEPT !.status = "pr_created", !.url = job[h].pull]
  <2>1. /\ r \in ProposalRows /\ r.status = "pr_created" /\ r.url = job[h].pull
        /\ r.approval = Row(h).approval
    BY <1>3, <1>4 DEF ProposalRows, Statuses, Transitions
  <2>2. Write(h, r)
    BY <1>5 DEF RecordPullRequest
  <2> QED
    BY <1>2, <1>3, <2>1, <2>2, ConsentedWrite
<1>6. CASE RecordApplied(h)
  <2>1. PICK url \in {Row(h).url, None} :
          Write(h, [Row(h) EXCEPT !.status = "applied", !.url = url])
    BY <1>6 DEF RecordApplied
  <2> DEFINE r == [Row(h) EXCEPT !.status = "applied", !.url = url]
  <2>2. /\ r \in ProposalRows /\ r.status = "applied" /\ r.url = url
        /\ r.approval = Row(h).approval
    BY <1>3 DEF ProposalRows, Statuses, Transitions
  <2> QED
    BY <1>2, <1>3, <2>1, <2>2, ConsentedWrite
<1>7. CASE RecordOutcome(h)
  <2> DEFINE s == IF job[h].drift THEN "failed" ELSE "verified"
             r == [Row(h) EXCEPT !.status = s]
  <2>1. s \in {"verified", "failed"}
    OBVIOUS
  <2>2. /\ r \in ProposalRows /\ r.status = s /\ r.url = Row(h).url
        /\ r.approval = Row(h).approval
    BY <1>3, <2>1 DEF ProposalRows, Statuses, Transitions
  <2>3. Write(h, r)
    BY <1>7 DEF RecordOutcome
  <2> QED
    BY <1>2, <1>3, <2>1, <2>2, <2>3, ConsentedWrite
<1> QED
  BY <1>5, <1>6, <1>7

LEMMA CreateFromDriftKeeps ==
  ASSUME RemediationInv, NEW r \in Replicas, CreateFromDrift(r)
  PROVE  RemediationInv'
<1>1. PICK p \in Proposals : proposal' = [proposal EXCEPT ![p] = Proposed]
  BY DEF CreateFromDrift
<1>2. Proposed \in ProposalRows /\ RowSound(p, Proposed)
  BY DEF Proposed, NoProposal, ProposalRows, Statuses, Transitions, RowSound,
         Consented
<1>3. Tables' /\ Grows
  BY <1>1, <1>2, RowReplaced DEF CreateFromDrift, RemediationInv
<1> QED
  BY <1>3, HandlersStay DEF CreateFromDrift, RemediationInv

LEMMA MarkVerifyingKeeps ==
  ASSUME RemediationInv, NEW h \in Handlers, MarkVerifying(h)
  PROVE  RemediationInv'
<1>1. /\ pc[h] = "verifying" /\ Relies("verifying", job[h])
      /\ proposal' = [proposal EXCEPT ![job[h].of].status = "verifying"]
      /\ Goto(h, "clear") /\ UNCHANGED <<eval, events, host, job>>
  BY DEF MarkVerifying, RemediationInv, HandlersSound
<1>2. PICK p \in Proposals : p = job[h].of
  BY <1>1 DEF Relies
<1>3. Consent(p)
  BY <1>1, <1>2 DEF Relies, GitStages
<1>4. /\ proposal \in [Proposals -> ProposalRows] /\ RowSound(p, proposal[p])
      /\ proposal[p] \in ProposalRows
  BY DEF RemediationInv, Tables, TablesTyped
<1>5. PICK r \in ProposalRows :
        /\ proposal' = [proposal EXCEPT ![p] = r] /\ r.status = "verifying"
        /\ r.approval = proposal[p].approval /\ r.url = proposal[p].url
  <2> DEFINE r0 == [proposal[p] EXCEPT !.status = "verifying"]
  <2>1. /\ r0 \in ProposalRows /\ r0.status = "verifying"
        /\ r0.approval = proposal[p].approval /\ r0.url = proposal[p].url
    BY <1>4 DEF ProposalRows, Statuses, Transitions
  <2>2. proposal' = [proposal EXCEPT ![p] = r0]
    BY <1>1, <1>2
  <2> HIDE DEF r0
  <2> QED
    BY <2>1, <2>2
<1>6. RowSound(p, r)
  BY <1>3, <1>4, <1>5 DEF RowSound
<1>7. Tables' /\ Grows
  BY <1>1, <1>5, <1>6, RowReplaced DEF RemediationInv
<1>8. PICK j \in Jobs : j = job[h] /\ Relies("verifying", j)
  BY <1>1 DEF RemediationInv, HandlersSound
<1>9. Relies("verifying", j)'
  BY <1>7, <1>8, RelyStays
<1>10. Relies("clear", j)' /\ "clear" \in Stages
  BY <1>9 DEF Relies, GitStages, Stages
<1>11. Relies("clear", job[h])'
  BY <1>1, <1>8, <1>10 DEF Relies
<1>12. HandlersSound'
  BY <1>1, <1>7, <1>10, <1>11, HandlerGoes DEF RemediationInv
<1> QED
  BY <1>7, <1>12 DEF RemediationInv

-----------------------------------------------------------------------------
(* Probes change no table *)

ClearedOrProbed == {"clear", "probe", "outcome"}

(* Handlers that go on verifying, or only note what backends now answer.   *)
LEMMA VerifiersGo ==
  ASSUME RemediationInv, UNCHANGED <<proposal, eval, events, host>>,
         pc' \in [Handlers -> Stages], job' \in [Handlers -> Jobs],
         \A k \in Handlers :
           /\ \/ pc'[k] = pc[k]
              \/ pc[k] \in ClearedOrProbed /\ pc'[k] \in ClearedOrProbed
           /\ job'[k].of = job[k].of /\ job'[k].eval = job[k].eval
           /\ job'[k].answer = job[k].answer /\ job'[k].pull = job[k].pull
  PROVE  RemediationInv'
<1>1. Tables' /\ Grows
  BY TablesStay DEF RemediationInv
<1>2. ASSUME NEW k \in Handlers PROVE Relies(pc[k], job[k])'
  <2>1. PICK s \in Stages, j \in Jobs : s = pc[k] /\ j = job[k] /\ Relies(s, j)
    BY DEF RemediationInv, HandlersSound
  <2>2. Relies(s, j)'
    BY <1>1, <2>1, RelyStays
  <2>3. PICK s1 \in Stages, j1 \in Jobs : s1 = pc'[k] /\ j1 = job'[k]
    OBVIOUS
  <2>4. /\ j1.of = j.of /\ j1.eval = j.eval /\ j1.answer = j.answer
        /\ j1.pull = j.pull
        /\ s1 = s \/ (s \in ClearedOrProbed /\ s1 \in ClearedOrProbed)
    BY <2>1, <2>3
  <2>5. Relies(s1, j1)'
    <3>1. CASE s1 = s
      BY <2>2, <2>4, <3>1 DEF Relies
    <3>2. CASE s \in ClearedOrProbed /\ s1 \in ClearedOrProbed
      BY <2>2, <2>4, <3>2 DEF Relies, ClearedOrProbed, GitStages
    <3> QED
      BY <2>4, <3>1, <3>2
  <2> QED
    BY <2>3, <2>5 DEF Relies
<1> QED
  BY <1>1, <1>2 DEF RemediationInv, HandlersSound

LEMMA ProbesKeep ==
  ASSUME RemediationInv,
         \/ \E h \in Handlers : ClearProbeCache(h) \/ ProbeNext(h)
         \/ \E r \in Replicas, b \in Backends : ProbeBackend(r, b) \/ ExpireProbe(r, b)
         \/ \E b \in Backends : BackendChanges(b)
         \/ UNCHANGED vars
  PROVE  RemediationInv'
<1>1. pc \in [Handlers -> Stages] /\ job \in [Handlers -> Jobs]
  BY DEF RemediationInv, HandlersSound
<1>2. ASSUME NEW h \in Handlers, ClearProbeCache(h) PROVE RemediationInv'
  <2>1. /\ UNCHANGED <<proposal, eval, events, host, job>>
        /\ pc[h] = "clear" /\ pc' = [pc EXCEPT ![h] = "probe"]
    BY <1>2 DEF ClearProbeCache, Goto
  <2>2. pc' \in [Handlers -> Stages]
    BY <1>1, <2>1 DEF Stages
  <2> QED
    BY <1>1, <2>1, <2>2, VerifiersGo DEF ClearedOrProbed
<1>3. ASSUME NEW h \in Handlers, ProbeNext(h) PROVE RemediationInv'
  <2>1. PICK b \in job[h].todo :
          job' = [job EXCEPT ![h] =
                    [job[h] EXCEPT !.todo = @ \ {b},
                                   !.drift = @ \/ Reading(On[h], b) = "drifted"]]
    BY <1>3 DEF ProbeNext
  <2>2. /\ UNCHANGED <<proposal, eval, events, host>> /\ pc[h] = "probe"
        /\ pc' = [pc EXCEPT ![h] = IF job'[h].todo = {} THEN "outcome" ELSE "probe"]
    BY <1>3 DEF ProbeNext, Goto
  <2>3. pc' \in [Handlers -> Stages]
    BY <1>1, <2>2 DEF Stages
  <2>4. /\ job'[h] \in Jobs
        /\ job'[h].of = job[h].of /\ job'[h].eval = job[h].eval
        /\ job'[h].answer = job[h].answer /\ job'[h].pull = job[h].pull
    <3> DEFINE d == job[h].drift \/ Reading(On[h], b) = "drifted"
               t == job[h].todo \ {b}
    <3>1. d \in BOOLEAN /\ t \in SUBSET Backends
      BY <1>1 DEF Jobs
    <3>2. job' = [job EXCEPT ![h] = [@ EXCEPT !.todo = t, !.drift = d]]
      BY <2>1
    <3> HIDE DEF d, t
    <3>3. job[h] \in Jobs /\ job'[h] = [job[h] EXCEPT !.todo = t, !.drift = d]
      BY <1>1, <3>2
    <3>4. job'[h] \in Jobs
      BY <3>1, <3>3 DEF Jobs
    <3>5. /\ job'[h].of = job[h].of /\ job'[h].eval = job[h].eval
          /\ job'[h].answer = job[h].answer /\ job'[h].pull = job[h].pull
      BY <3>3 DEF Jobs
    <3> QED
      BY <3>4, <3>5
  <2>5. job' \in [Handlers -> Jobs] /\ \A k \in Handlers \ {h} : job'[k] = job[k]
    BY <1>1, <2>1, <2>4
  <2>6. ASSUME NEW k \in Handlers
        PROVE  /\ \/ pc'[k] = pc[k]
                  \/ pc[k] \in ClearedOrProbed /\ pc'[k] \in ClearedOrProbed
               /\ job'[k].of = job[k].of /\ job'[k].eval = job[k].eval
               /\ job'[k].answer = job[k].answer /\ job'[k].pull = job[k].pull
    BY <1>1, <2>2, <2>4, <2>5 DEF ClearedOrProbed
  <2> QED
    BY <2>2, <2>3, <2>5, <2>6, VerifiersGo
<1>4. ASSUME NEW b \in Backends, BackendChanges(b) PROVE RemediationInv'
  <2>1. /\ job' = [h \in Handlers |->
                     IF pc[h] = "idle" \/ live'[b] = "drifted" THEN job[h]
                     ELSE [job[h] EXCEPT !.since = @ \cup {b}]]
        /\ UNCHANGED <<proposal, eval, events, host, pc>>
    BY <1>4 DEF BackendChanges
  <2>2. ASSUME NEW k \in Handlers
        PROVE  /\ job'[k] \in Jobs
               /\ job'[k].of = job[k].of /\ job'[k].eval = job[k].eval
               /\ job'[k].answer = job[k].answer /\ job'[k].pull = job[k].pull
    <3>1. job'[k] = job[k] \/ job'[k] = [job[k] EXCEPT !.since = @ \cup {b}]
      BY <2>1
    <3> QED
      BY <1>1, <3>1 DEF Jobs
  <2>3. job' \in [Handlers -> Jobs]
    BY <2>1, <2>2
  <2> QED
    BY <1>1, <2>1, <2>2, <2>3, VerifiersGo
<1>5. CASE UNCHANGED <<proposal, eval, events, host, pc, job>>
  BY <1>1, <1>5, VerifiersGo
<1> QED
  BY <1>2, <1>3, <1>4, <1>5 DEF ProbeBackend, ExpireProbe, vars

LEMMA AbortKeeps ==
  ASSUME RemediationInv, NEW h \in Handlers, Abort(h)
  PROVE  RemediationInv'
<1>1. Tables' /\ Grows
  BY TablesStay DEF Abort, RemediationInv
<1> QED
  BY <1>1, HandlerEnds DEF Abort, RemediationInv

LEMMA InvNext == RemediationInv /\ [Next]_vars => RemediationInv'
<1> SUFFICES ASSUME RemediationInv, [Next]_vars PROVE RemediationInv'
  OBVIOUS
<1>1. ASSUME NEW h \in Handlers, Step(h) PROVE RemediationInv'
  BY <1>1, PersistEvaluationKeeps, RecordVerdictKeeps, ResolveApprovalKeeps,
     AuditResolutionKeeps, RecordAnswerKeeps, FindKeeps, CommitManifestKeeps,
     CreatePullRequestKeeps, RefindKeeps, FinalWriteKeeps, MarkVerifyingKeeps,
     ProbesKeep DEF Step
<1>2. ASSUME NEW h \in Handlers, NEW p \in Proposals, Start(h, p)
      PROVE  RemediationInv'
  BY <1>2, StartKeeps
<1>3. ASSUME NEW h \in Handlers, Abort(h) PROVE RemediationInv'
  BY <1>3, AbortKeeps
<1>4. ASSUME NEW r \in Replicas, CreateFromDrift(r) PROVE RemediationInv'
  BY <1>4, CreateFromDriftKeeps
<1>5. ASSUME NEW e \in Evals, NEW a \in Answers \cup {"expired"},
             ResolveElsewhere(e, a)
      PROVE  RemediationInv'
  BY <1>5, ResolveElsewhereKeeps
<1>6. ASSUME NEW q \in Pulls, ClosePull(q) PROVE RemediationInv'
  BY <1>6, ClosePullKeeps
<1> QED
  BY <1>1, <1>2, <1>3, <1>4, <1>5, <1>6, ProbesKeep DEF Next

-----------------------------------------------------------------------------
(* What verification sees *)

(* Since handler h read its proposal, "since" collects what was in sync;   *)
(* once it cleared the cache, the cache holds nothing older.               *)
Watching(h) ==
    /\ pc[h] # "idle" => InSync \subseteq job[h].since
    /\ pc[h] \in {"verifying", "clear"} => job[h].todo = Backends
    /\ pc[h] = "probe" =>
         \A b \in Backends : cache[On[h]][b] = "in_sync" => b \in job[h].since
    /\ pc[h] \in {"probe", "outcome"} /\ ~job[h].drift =>
         \A b \in Backends : b \in job[h].todo \/ b \in job[h].since
    /\ pc[h] = "outcome" => job[h].todo = {}

ProbesTyped ==
    /\ live \in [Backends -> Readings]
    /\ cache \in [Replicas -> [Backends -> Readings \cup {"none"}]]

FreshInv == ProbesTyped /\ \A h \in Handlers : Watching(h)

(* The cache forgets, keeps, or takes what is live. *)
CacheHonest ==
    \A r \in Replicas, b \in Backends :
      cache'[r][b] \in {cache[r][b], live[b], "none"}

LEMMA FreshInit == Init => FreshInv
  BY DEF Init, FreshInv, ProbesTyped, Watching, Readings

(* A step that changes no backend and leaves every handler where it was or *)
(* in a state of which the same is known.                                  *)
LEMMA WatchingStays ==
  ASSUME FreshInv, UNCHANGED live, ProbesTyped', CacheHonest,
         \A k \in Handlers : (pc'[k] = pc[k] /\ job'[k] = job[k]) \/ Watching(k)'
  PROVE  FreshInv'
<1>1. ASSUME NEW k \in Handlers, pc'[k] = pc[k], job'[k] = job[k]
      PROVE  Watching(k)'
  <2>1. Watching(k) /\ InSync' = InSync
    BY DEF FreshInv, InSync
  <2>2. ASSUME pc[k] = "probe", NEW b \in Backends, cache'[On[k]][b] = "in_sync"
        PROVE  b \in job[k].since
    <3>1. cache[On[k]][b] = "in_sync" \/ live[b] = "in_sync"
      BY <2>2, RemediationAssumption DEF CacheHonest
    <3>2. live[b] = "in_sync" => b \in InSync
      BY DEF InSync
    <3> QED
      BY <2>1, <2>2, <3>1, <3>2 DEF Watching
  <2> QED
    BY <1>1, <2>1, <2>2 DEF Watching
<1> QED
  BY <1>1 DEF FreshInv

(* A step of handler h that ends it or takes it to a stage that verifies   *)
(* nothing.                                                                *)
LEMMA ElsewhereStays ==
  ASSUME RemediationInv, FreshInv, UNCHANGED <<live, cache>>, NEW h \in Handlers,
         NEW s \in Stages \ {"verifying", "clear", "probe", "outcome"},
         pc' = [pc EXCEPT ![h] = s], \A k \in Handlers \ {h} : job'[k] = job[k],
         s = "idle" \/ (InSync \subseteq job'[h].since)
  PROVE  FreshInv'
<1>1. ProbesTyped' /\ CacheHonest
  BY DEF FreshInv, ProbesTyped, CacheHonest
<1>2. pc'[h] = s /\ \A k \in Handlers \ {h} : pc'[k] = pc[k]
  BY DEF RemediationInv, HandlersSound
<1>3. Watching(h)'
  BY <1>2 DEF Watching, InSync
<1> QED
  BY <1>1, <1>2, <1>3, WatchingStays

LEMMA StartFresh ==
  ASSUME RemediationInv, FreshInv, NEW h \in Handlers, NEW p \in Proposals,
         Start(h, p)
  PROVE  FreshInv'
<1>1. /\ job \in [Handlers -> Jobs] /\ pc \in [Handlers -> Stages]
      /\ Job(p).since = InSync
  BY DEF RemediationInv, HandlersSound, Job, NoJob
<1>2. UNCHANGED <<live, cache>>
  BY DEF Start, StartEvaluate, StartResolve, StartPrepare, StartApply,
         StartVerify, Read
<1>3. CASE StartVerify(h, p)
  <2>1. /\ pc'[h] \in {"verifying", "clear"}
        /\ job'[h] = [Job(p) EXCEPT !.todo = Backends]
        /\ \A k \in Handlers \ {h} : pc'[k] = pc[k] /\ job'[k] = job[k]
    BY <1>1, <1>3 DEF StartVerify, Read, Goto
  <2>2. job'[h].todo = Backends /\ job'[h].since = InSync
    <3>1. "todo" \in DOMAIN Job(p) /\ "since" \in DOMAIN Job(p)
      BY DEF Job, NoJob
    <3> QED BY <1>1, <2>1, <3>1
  <2>3. Watching(h)'
    BY <1>2, <2>1, <2>2 DEF Watching, InSync
  <2>4. ProbesTyped' /\ CacheHonest
    BY <1>2 DEF FreshInv, ProbesTyped, CacheHonest
  <2> QED
    BY <1>2, <2>1, <2>3, <2>4, WatchingStays
<1>4. CASE \/ StartEvaluate(h, p) \/ StartResolve(h, p) \/ StartPrepare(h, p)
           \/ StartApply(h, p)
  <2>1. PICK s \in {"evaluate", "answer", "resolve", "find", "drafted", "applied"} :
          pc' = [pc EXCEPT ![h] = s]
    BY <1>4 DEF StartEvaluate, StartResolve, StartPrepare, StartApply, Read, Goto
  <2>2. \/ job' = [job EXCEPT ![h] = Job(p)]
        \/ \E answer \in Answers :
             job' = [job EXCEPT ![h] = [Job(p) EXCEPT !.answer = answer]]
    BY <1>4 DEF StartEvaluate, StartResolve, StartPrepare, StartApply, Works
  <2>3. job'[h].since = InSync /\ \A k \in Handlers \ {h} : job'[k] = job[k]
    <3>1. \A answer \in Answers : [Job(p) EXCEPT !.answer = answer].since = Job(p).since
      BY DEF Job, NoJob
    <3>2. PICK begun : begun.since = InSync /\ job' = [job EXCEPT ![h] = begun]
      BY <1>1, <2>2, <3>1
    <3> QED BY <1>1, <3>2
  <2>4. s \in Stages \ {"verifying", "clear", "probe", "outcome"}
    BY DEF Stages
  <2> QED
    BY <1>2, <2>1, <2>3, <2>4, ElsewhereStays
<1> QED
  BY <1>3, <1>4 DEF Start

(* Every other step of a request that is not a verification. *)
LEMMA StepFresh ==
  ASSUME RemediationInv, FreshInv, NEW h \in Handlers,
         \/ PersistEvaluation(h) \/ RecordVerdict(h) \/ ResolveApproval(h)
         \/ AuditResolution(h) \/ RecordAnswer(h) \/ FindOpenPullRequest(h)
         \/ CommitManifest(h) \/ CreatePullRequest(h) \/ RefindPullRequest(h)
         \/ RecordPullRequest(h) \/ RecordApplied(h) \/ RecordOutcome(h)
         \/ Abort(h)
  PROVE  FreshInv'
<1>1. /\ job \in [Handlers -> Jobs] /\ pc \in [Handlers -> Stages]
      /\ pc[h] # "idle" /\ UNCHANGED <<live, cache>>
  BY DEF RemediationInv, HandlersSound, PersistEvaluation, RecordVerdict,
         ResolveApproval, AuditResolution, RecordAnswer, FindOpenPullRequest,
         CommitManifest, CreatePullRequest, RefindPullRequest, RecordPullRequest,
         RecordApplied, RecordOutcome, Abort, Write
<1>2. PICK s \in {"idle", "verdict", "audit", "answer", "commit", "open", "refind",
                  "drafted"} : pc' = [pc EXCEPT ![h] = s]
  BY DEF PersistEvaluation, RecordVerdict, ResolveApproval, AuditResolution,
         RecordAnswer, FindOpenPullRequest, CommitManifest, CreatePullRequest,
         RefindPullRequest, RecordPullRequest, RecordApplied, RecordOutcome,
         Abort, Write, Finish, Goto, AfterResolve
<1>3. \/ job' = job \/ Finish(h)
      \/ \E q \in Pulls : job' = [job EXCEPT ![h].pull = q]
      \/ \E e \in Evals : job' = [job EXCEPT ![h].eval = e]
  BY DEF PersistEvaluation, RecordVerdict, ResolveApproval, AuditResolution,
         RecordAnswer, FindOpenPullRequest, CommitManifest, CreatePullRequest,
         RefindPullRequest, RecordPullRequest, RecordApplied, RecordOutcome,
         Abort, Write, OpenPulls
<1>4. InSync \subseteq job[h].since
  BY <1>1 DEF FreshInv, Watching
<1>5. CASE Finish(h)
  <2>1. /\ pc' = [pc EXCEPT ![h] = "idle"] /\ "idle" \in Stages
        /\ \A k \in Handlers \ {h} : job'[k] = job[k]
    BY <1>1, <1>5 DEF Finish, Goto, Stages
  <2> QED
    BY <1>1, <2>1, ElsewhereStays
<1>6. CASE \/ job' = job
           \/ \E q \in Pulls : job' = [job EXCEPT ![h].pull = q]
           \/ \E e \in Evals : job' = [job EXCEPT ![h].eval = e]
  <2>1. /\ job'[h].since = job[h].since
        /\ \A k \in Handlers \ {h} : job'[k] = job[k]
    BY <1>1, <1>6 DEF Jobs
  <2>2. s \in Stages \ {"verifying", "clear", "probe", "outcome"}
    BY DEF Stages
  <2> QED
    BY <1>1, <1>2, <1>4, <2>1, <2>2, ElsewhereStays
<1> QED
  BY <1>3, <1>5, <1>6

LEMMA MarkVerifyingFresh ==
  ASSUME RemediationInv, FreshInv, NEW h \in Handlers, MarkVerifying(h)
  PROVE  FreshInv'
<1>1. /\ pc \in [Handlers -> Stages] /\ pc[h] = "verifying"
      /\ pc' = [pc EXCEPT ![h] = "clear"] /\ UNCHANGED <<live, cache, job>>
  BY DEF RemediationInv, HandlersSound, MarkVerifying, Goto
<1>2. ProbesTyped' /\ CacheHonest
  BY <1>1 DEF FreshInv, ProbesTyped, CacheHonest
<1>3. Watching(h)'
  BY <1>1 DEF FreshInv, Watching, InSync
<1> QED
  BY <1>1, <1>2, <1>3, WatchingStays

LEMMA ClearProbeCacheFresh ==
  ASSUME RemediationInv, FreshInv, NEW h \in Handlers, ClearProbeCache(h)
  PROVE  FreshInv'
<1>1. /\ pc \in [Handlers -> Stages] /\ pc[h] = "clear" /\ On[h] \in Replicas
      /\ pc' = [pc EXCEPT ![h] = "probe"] /\ UNCHANGED <<live, job>>
      /\ cache' = [cache EXCEPT ![On[h]] = [b \in Backends |-> "none"]]
  BY RemediationAssumption
  DEF RemediationInv, HandlersSound, ClearProbeCache, Cleared, Goto
<1>2. ProbesTyped' /\ CacheHonest
  BY <1>1 DEF FreshInv, ProbesTyped, CacheHonest
<1>3. \A b \in Backends : cache'[On[h]][b] = "none"
  BY <1>1 DEF FreshInv, ProbesTyped
<1>4. Watching(h)'
  BY <1>1, <1>3 DEF FreshInv, Watching, InSync
<1> QED
  BY <1>1, <1>2, <1>4, WatchingStays

LEMMA ProbeNextFresh ==
  ASSUME RemediationInv, FreshInv, NEW h \in Handlers, ProbeNext(h)
  PROVE  FreshInv'
<1>1. PICK b \in job[h].todo :
        /\ cache' = [cache EXCEPT ![On[h]][b] = Reading(On[h], b)]
        /\ job' = [job EXCEPT ![h] =
                     [job[h] EXCEPT !.todo = @ \ {b},
                                    !.drift = @ \/ Reading(On[h], b) = "drifted"]]
  BY DEF ProbeNext
<1>2. /\ pc \in [Handlers -> Stages] /\ job \in [Handlers -> Jobs]
      /\ pc[h] = "probe" /\ On[h] \in Replicas /\ UNCHANGED live
      /\ pc' = [pc EXCEPT ![h] = IF job'[h].todo = {} THEN "outcome" ELSE "probe"]
  BY RemediationAssumption DEF ProbeNext, Goto, RemediationInv, HandlersSound
<1>3. b \in Backends
  BY <1>1, <1>2 DEF Jobs
<1>4. ProbesTyped /\ Watching(h)
  BY DEF FreshInv
<1>5. /\ Reading(On[h], b) \in Readings
      /\ Reading(On[h], b) \in {cache[On[h]][b], live[b]}
  BY <1>2, <1>3, <1>4 DEF Reading, ProbesTyped
<1>6. /\ cache'[On[h]][b] = Reading(On[h], b)
      /\ \A r \in Replicas, c \in Backends :
           (r # On[h] \/ c # b) => cache'[r][c] = cache[r][c]
      /\ ProbesTyped'
  BY <1>1, <1>2, <1>3, <1>4, <1>5 DEF ProbesTyped
<1>7. CacheHonest
  BY <1>5, <1>6 DEF CacheHonest
<1>8. Reading(On[h], b) = "in_sync" => b \in job[h].since
  BY <1>2, <1>3, <1>4, <1>5 DEF Watching, InSync
<1>9. /\ job'[h].todo = job[h].todo \ {b} /\ job'[h].since = job[h].since
      /\ \A k \in Handlers \ {h} : job'[k] = job[k]
      /\ job'[h].drift <=> (job[h].drift \/ Reading(On[h], b) = "drifted")
  <2> DEFINE d == job[h].drift \/ Reading(On[h], b) = "drifted"
             t == job[h].todo \ {b}
  <2>1. job' = [job EXCEPT ![h] = [job[h] EXCEPT !.todo = t, !.drift = d]]
    BY <1>1
  <2> HIDE DEF d, t
  <2>2. job'[h] = [job[h] EXCEPT !.todo = t, !.drift = d] /\ job[h] \in Jobs
    BY <1>2, <2>1
  <2>3. job'[h].todo = t /\ job'[h].since = job[h].since /\ job'[h].drift = d
    BY <2>2 DEF Jobs
  <2>4. \A k \in Handlers \ {h} : job'[k] = job[k]
    BY <1>2, <2>1
  <2>5. job'[h].drift <=> (job[h].drift \/ Reading(On[h], b) = "drifted")
    BY <2>3 DEF d
  <2> QED
    BY <2>3, <2>4, <2>5 DEF t
<1>10. ~job'[h].drift => ~job[h].drift /\ Reading(On[h], b) = "in_sync"
  BY <1>5, <1>9 DEF Readings
<1>11. ~job'[h].drift =>
          \A c \in Backends : c \in job'[h].todo \/ c \in job'[h].since
  BY <1>2, <1>4, <1>8, <1>9, <1>10 DEF Watching
<1>12. \A c \in Backends : cache'[On[h]][c] = "in_sync" => c \in job'[h].since
  BY <1>2, <1>4, <1>6, <1>8, <1>9 DEF Watching
<1>13. pc'[h] \in {"probe", "outcome"} /\ (pc'[h] = "outcome" => job'[h].todo = {})
  BY <1>2
<1>14. InSync' \subseteq job'[h].since
  BY <1>2, <1>4, <1>9 DEF Watching, InSync
<1>15. Watching(h)'
  BY <1>11, <1>12, <1>13, <1>14 DEF Watching
<1>16. \A k \in Handlers \ {h} : pc'[k] = pc[k] /\ job'[k] = job[k]
  BY <1>2, <1>9
<1> QED
  BY <1>2, <1>6, <1>7, <1>15, <1>16, WatchingStays

(* A backend that changes is noted by everybody at work. *)
LEMMA BackendChangesFresh ==
  ASSUME RemediationInv, FreshInv, NEW b \in Backends, BackendChanges(b)
  PROVE  FreshInv'
<1>1. /\ live' = [live EXCEPT ![b] = IF @ = "drifted" THEN "in_sync" ELSE "drifted"]
      /\ job' = [h \in Handlers |->
                   IF pc[h] = "idle" \/ live'[b] = "drifted" THEN job[h]
                   ELSE [job[h] EXCEPT !.since = @ \cup {b}]]
      /\ UNCHANGED <<cache, pc>>
      /\ job \in [Handlers -> Jobs]
  BY DEF BackendChanges, RemediationInv, HandlersSound
<1>2. /\ ProbesTyped' /\ live'[b] \in Readings
      /\ \A c \in Backends \ {b} : live'[c] = live[c]
  BY <1>1 DEF FreshInv, ProbesTyped, Readings
<1>3. ASSUME NEW k \in Handlers PROVE Watching(k)'
  <2>1. Watching(k)
    BY DEF FreshInv
  <2>2. CASE pc[k] = "idle"
    BY <1>1, <2>2 DEF Watching
  <2>3. CASE pc[k] # "idle" /\ live'[b] = "drifted"
    <3>1. job'[k] = job[k]
      BY <1>1, <2>3
    <3>2. InSync' \subseteq InSync
      BY <1>2, <2>3 DEF InSync
    <3> QED
      BY <1>1, <2>1, <2>3, <3>1, <3>2 DEF Watching
  <2>4. CASE pc[k] # "idle" /\ live'[b] # "drifted"
    <3>1. job'[k] = [job[k] EXCEPT !.since = @ \cup {b}]
      BY <1>1, <2>4
    <3>2. /\ job'[k].since = job[k].since \cup {b} /\ job'[k].todo = job[k].todo
          /\ job'[k].drift = job[k].drift
      BY <1>1, <3>1 DEF Jobs
    <3>3. InSync' \subseteq InSync \cup {b}
      BY <1>2 DEF InSync
    <3> QED
      BY <1>1, <2>1, <2>4, <3>2, <3>3 DEF Watching
  <2> QED
    BY <2>2, <2>3, <2>4
<1> QED
  BY <1>2, <1>3 DEF FreshInv

LEMMA FreshNext == RemediationInv /\ FreshInv /\ [Next]_vars => FreshInv'
<1> SUFFICES ASSUME RemediationInv, FreshInv, [Next]_vars PROVE FreshInv'
  OBVIOUS
<1>1. ASSUME NEW h \in Handlers, Step(h) \/ Abort(h) PROVE FreshInv'
  BY <1>1, StepFresh, MarkVerifyingFresh, ClearProbeCacheFresh, ProbeNextFresh
     DEF Step
<1>2. ASSUME NEW h \in Handlers, NEW p \in Proposals, Start(h, p) PROVE FreshInv'
  BY <1>2, StartFresh
<1>3. ASSUME UNCHANGED <<live, pc, job>>, ProbesTyped', CacheHonest PROVE FreshInv'
  BY <1>3, WatchingStays
<1>4. ASSUME NEW r \in Replicas,
             \/ CreateFromDrift(r)
             \/ \E b \in Backends : ProbeBackend(r, b) \/ ExpireProbe(r, b)
      PROVE  FreshInv'
  <2>1. UNCHANGED <<live, pc, job>> /\ ProbesTyped
    BY <1>4 DEF CreateFromDrift, ProbeBackend, ExpireProbe, FreshInv
  <2>2. CASE CreateFromDrift(r)
    <3>1. cache' = [cache EXCEPT ![r] = [b \in Backends |-> Reading(r, b)]]
      BY <2>2 DEF CreateFromDrift
    <3>2. ProbesTyped' /\ CacheHonest
      BY <2>1, <3>1 DEF ProbesTyped, CacheHonest, Reading
    <3> QED
      BY <1>3, <2>1, <3>2
  <2>3. ASSUME NEW b \in Backends, ProbeBackend(r, b) \/ ExpireProbe(r, b)
        PROVE  FreshInv'
    <3>1. PICK x \in {live[b], "none"} : cache' = [cache EXCEPT ![r][b] = x]
      BY <2>3 DEF ProbeBackend, ExpireProbe
    <3>2. ProbesTyped' /\ CacheHonest
      BY <2>1, <3>1 DEF ProbesTyped, CacheHonest
    <3> QED
      BY <1>3, <2>1, <3>2
  <2> QED
    BY <1>4, <2>2, <2>3
<1>5. CASE \/ \E e \in Evals, a \in Answers \cup {"expired"} : ResolveElsewhere(e, a)
           \/ \E q \in Pulls : ClosePull(q)
           \/ UNCHANGED vars
  <2>1. UNCHANGED <<live, cache, pc, job>>
    BY <1>5 DEF ResolveElsewhere, ClosePull, vars
  <2>2. ProbesTyped' /\ CacheHonest
    BY <2>1 DEF FreshInv, ProbesTyped, CacheHonest
  <2> QED
    BY <1>3, <2>1, <2>2
<1>6. ASSUME NEW b \in Backends, BackendChanges(b) PROVE FreshInv'
  BY <1>6, BackendChangesFresh
<1> QED
  BY <1>1, <1>2, <1>4, <1>5, <1>6 DEF Next

-----------------------------------------------------------------------------
(* Theorems *)

LEMMA Always == Spec => [](RemediationInv /\ FreshInv)
<1>1. Init => RemediationInv /\ FreshInv
  BY InvInit, FreshInit
<1>2. RemediationInv /\ FreshInv /\ [Next]_vars => (RemediationInv /\ FreshInv)'
  BY InvNext, FreshNext
<1> QED
  BY <1>1, <1>2, PTL DEF Spec

(* Every state is well typed, a proposal that waits for an answer is       *)
(* linked to an approval, and each handler has what its stage needs.       *)
THEOREM TypeCorrect == Spec => []TypeOK
<1>1. RemediationInv /\ FreshInv => TypeOK
  <2> SUFFICES ASSUME RemediationInv, FreshInv PROVE TypeOK
    OBVIOUS
  <2>1. /\ TablesTyped /\ ProbesTyped
        /\ pc \in [Handlers -> Stages] /\ job \in [Handlers -> Jobs]
    BY DEF RemediationInv, Tables, HandlersSound, FreshInv
  <2>2. \A p \in Proposals :
          proposal[p].status = "policy_evaluated" => proposal[p].approval # None
    BY DEF RemediationInv, Tables, RowSound
  <2>3. ASSUME NEW h \in Handlers
        PROVE  /\ pc[h] # "idle" => job[h].of \in Proposals
               /\ pc[h] \in {"verdict", "resolve", "audit"} => job[h].eval \in Evals
               /\ pc[h] \in {"resolve", "audit", "answer"} =>
                    job[h].answer \in Answers
    BY DEF RemediationInv, HandlersSound, Relies
  <2> QED
    BY <2>1, <2>2, <2>3 DEF TypeOK, TablesTyped, ProbesTyped
<1> QED
  BY <1>1, Always, PTL

(* No interleaving of evaluations, answers, retries and crashes takes a    *)
(* proposal past "approved" or to the Git host without a policy that       *)
(* allows it or a person who approved it (_require_transition and the      *)
(* order of commits in evaluate_policy and resolve_proposal).              *)
THEOREM ConsentFirstHolds == Spec => []ConsentFirst
<1>1. RemediationInv => ConsentFirst
  <2> SUFFICES ASSUME RemediationInv, NEW p \in Proposals
               PROVE  \/ /\ proposal[p].status \notin Consented
                         /\ \A q \in Pulls : pull[q].of # p
                      \/ Consent(p)
    BY DEF ConsentFirst, Consented, Consent
  <2>1. p # None /\ RowSound(p, proposal[p])
    BY RemediationAssumption DEF RemediationInv, Tables
  <2> QED
    BY <2>1 DEF RemediationInv, Tables, PullsSound, RowSound
<1> QED
  BY <1>1, Always, PTL

(* What the audit table says of an approval is what became of it, and an   *)
(* answer given through the proposal is there before the proposal shows it *)
(* (resolve_approval, append_audit_meta, update: three commits).           *)
THEOREM AnswersAuditedHolds == Spec => []AnswersAudited
<1>1. RemediationInv => AnswersAudited
  BY DEF RemediationInv, Tables, EvalsSound, RowSound, Audited, AnswersAudited
<1> QED
  BY <1>1, Always, PTL

(* Whoever prepares a proposal at once, and whatever fails in between, its *)
(* branch has at most one open pull request, which carries the manifest,   *)
(* and the recorded URL is its own (create_draft_pull_request).            *)
THEOREM PullRequestCompleteHolds == Spec => []PullRequestComplete
<1>1. RemediationInv => PullRequestComplete
  <2> SUFFICES ASSUME RemediationInv PROVE PullRequestComplete
    OBVIOUS
  <2>1. ASSUME NEW p \in Proposals PROVE Cardinality(OpenPulls(p)) <= 1
    <3>1. CASE OpenPulls(p) = {}
      BY <3>1, FS_EmptySet
    <3>2. CASE OpenPulls(p) # {}
      <4>1. PICK q \in OpenPulls(p) : TRUE
        BY <3>2
      <4>2. OpenPulls(p) = {q}
        BY <4>1 DEF RemediationInv, Tables, PullsSound, OpenPulls
      <4>3. Cardinality({q}) = 1
        BY FS_Singleton
      <4> QED
        BY <4>2, <4>3
    <3> QED
      BY <3>1, <3>2
  <2>2. \A p \in Proposals :
          proposal[p].url # None => pull[proposal[p].url].of = p
    BY DEF RemediationInv, Tables, RowSound
  <2>3. \A q \in Pulls : pull[q].of # None => pull[q].of \in committed
    BY DEF RemediationInv, Tables, PullsSound
  <2> QED
    BY <2>1, <2>2, <2>3 DEF PullRequestComplete
<1> QED
  BY <1>1, Always, PTL

(* A verification that finds no drift saw every backend in sync after it   *)
(* began, whoever fills the probe cache meanwhile (clear_probe_cache).     *)
THEOREM FreshVerificationHolds == Spec => []FreshVerification
<1>1. RemediationInv /\ FreshInv => FreshVerification
  <2> SUFFICES ASSUME RemediationInv, FreshInv, NEW h \in Handlers,
                      pc[h] = "outcome", ~job[h].drift
               PROVE  job[h].since = Backends
    BY DEF FreshVerification
  <2>1. job[h].since \subseteq Backends
    BY DEF RemediationInv, HandlersSound, Jobs
  <2>2. Watching(h)
    BY DEF FreshInv
  <2> QED
    BY <2>1, <2>2 DEF Watching
<1> QED
  BY <1>1, Always, PTL

-----------------------------------------------------------------------------
(* A proposal whose linked approval was answered or has expired without    *)
(* it: whoever still works on it is about to find that out.                *)
Stranded(p) ==
    /\ proposal[p].status = "policy_evaluated"
    /\ proposal[p].approval \in Evals
    /\ eval[proposal[p].approval].approval \in Answers \cup {"expired"}
    /\ \A h \in Handlers :
         pc[h] # "idle" /\ job[h].of = p =>
            pc[h] = "resolve" /\ job[h].eval = proposal[p].approval

(* Nobody else has touched the proposal or its approval. *)
LEMMA StillStranded ==
    ASSUME NEW p \in Proposals, Stranded(p), proposal'[p] = proposal[p],
           eval'[proposal[p].approval] = eval[proposal[p].approval],
           \A h \in Handlers :
              \/ pc'[h] = "idle"
              \/ pc'[h] = pc[h] /\ job'[h].of = job[h].of /\ job'[h].eval = job[h].eval
              \/ job'[h].of # p
              \/ pc'[h] = "resolve" /\ job'[h].eval = proposal[p].approval
    PROVE  Stranded(p)'
BY DEF Stranded

(* Only /approve and /reject accept a proposal that waits for an answer.   *)
LEMMA StartStranded ==
    ASSUME RemediationInv, NEW p \in Proposals, Stranded(p),
           NEW h \in Handlers, NEW q \in Proposals, Start(h, q)
    PROVE  Stranded(p)'
<1>1. /\ pc \in [Handlers -> Stages] /\ job \in [Handlers -> Jobs]
  BY DEF RemediationInv, HandlersSound
<1>2. /\ proposal' = proposal /\ eval' = eval
  BY DEF Start, StartEvaluate, StartResolve, StartPrepare, StartApply, StartVerify, Read
<1>3. \A k \in Handlers \ {h} : pc'[k] = pc[k] /\ job'[k] = job[k]
  BY <1>1 DEF Start, StartEvaluate, StartResolve, StartPrepare, StartApply,
              StartVerify, Read, Works, Goto
<1>4. job'[h].of = q
  BY <1>1 DEF Start, StartEvaluate, StartResolve, StartPrepare, StartApply,
              StartVerify, Works, Job, NoJob
<1>5. CASE q # p
  BY <1>2, <1>3, <1>4, <1>5, StillStranded
<1>6. CASE q = p
  <2>1. /\ proposal[p].status = "policy_evaluated"
        /\ proposal[p].approval \in Evals /\ proposal[p].approval # None
    BY RemediationAssumption DEF Stranded
  <2>2. /\ ~Allows("policy_evaluated", "policy_evaluated")
        /\ ~Allows("policy_evaluated", "pr_created")
        /\ ~Allows("policy_evaluated", "applied")
        /\ ~Allows("policy_evaluated", "verified")
    BY DEF Allows, Transitions
  <2>3. StartResolve(h, p)
    BY <1>6, <2>1, <2>2
       DEF Start, StartEvaluate, StartPrepare, StartApply, StartVerify, Read
  <2>4. pc'[h] = "resolve" /\ job'[h].eval = proposal[p].approval
    BY <1>1, <2>1, <2>3 DEF StartResolve, Read, Goto, Job, NoJob
  <2> QED
    BY <1>2, <1>3, <2>4, StillStranded
<1> QED
  BY <1>5, <1>6

(* A handler that works on another proposal does not touch this one, and   *)
(* one that works on this one finds its approval answered.                 *)
LEMMA StepStranded ==
    ASSUME RemediationInv, NEW p \in Proposals, Stranded(p),
           NEW h \in Handlers, Step(h) \/ Abort(h)
    PROVE  Stranded(p)'
<1>1. /\ pc \in [Handlers -> Stages] /\ job \in [Handlers -> Jobs]
      /\ proposal \in [Proposals -> ProposalRows]
      /\ eval \in [Evals -> EvalRows]
      /\ \A k \in Handlers : Relies(pc[k], job[k])
  BY DEF RemediationInv, HandlersSound, Tables, TablesTyped
<1>2. /\ proposal[p].status = "policy_evaluated"
      /\ proposal[p].approval \in Evals
      /\ eval[proposal[p].approval].approval \in Answers \cup {"expired"}
      /\ eval[proposal[p].approval].approval # "pending"
      /\ eval[proposal[p].approval] # NoEval
      /\ eval[proposal[p].approval].of = p
      /\ \A k \in Handlers :
           pc[k] # "idle" /\ job[k].of = p =>
              pc[k] = "resolve" /\ job[k].eval = proposal[p].approval
  BY RemediationAssumption
     DEF Stranded, Answers, NoEval, RemediationInv, Tables, RowSound
<1>3. pc[h] # "idle" /\ job[h].of \in Proposals
  BY <1>1 DEF Step, Abort, Relies, PersistEvaluation, RecordVerdict, ResolveApproval,
       AuditResolution, RecordAnswer, FindOpenPullRequest, CommitManifest,
       CreatePullRequest, RefindPullRequest, RecordPullRequest, RecordApplied,
       MarkVerifying, ClearProbeCache, ProbeNext, RecordOutcome
<1>4. \A k \in Handlers \ {h} : pc'[k] = pc[k] /\ job'[k] = job[k]
  BY <1>1 DEF Step, Abort, PersistEvaluation, RecordVerdict, ResolveApproval,
       AuditResolution, RecordAnswer, FindOpenPullRequest, CommitManifest,
       CreatePullRequest, RefindPullRequest, RecordPullRequest, RecordApplied,
       MarkVerifying, ClearProbeCache, ProbeNext, RecordOutcome, Goto, Finish, Write
<1>5. \/ pc'[h] = "idle" \/ job'[h].of = job[h].of
  <2>0. /\ job[h] \in Jobs
        /\ \A j \in Jobs : \A x : /\ [j EXCEPT !.eval = x].of = j.of
                                 /\ [j EXCEPT !.pull = x].of = j.of
        /\ \A j \in Jobs : \A x, y : [j EXCEPT !.todo = x, !.drift = y].of = j.of
    BY <1>1 DEF Jobs
  <2>1. CASE \/ RecordVerdict(h) \/ RecordAnswer(h) \/ RecordPullRequest(h)
             \/ RecordApplied(h) \/ RecordOutcome(h) \/ Abort(h)
    BY <1>1, <2>1 DEF RecordVerdict, RecordAnswer, RecordPullRequest, RecordApplied,
                      RecordOutcome, Abort, Write, Finish, Goto
  <2>2. CASE PersistEvaluation(h)
    BY <1>1, <2>0, <2>2 DEF PersistEvaluation
  <2>3. CASE ResolveApproval(h)
    BY <1>1, <2>3 DEF ResolveApproval, Finish, Goto
  <2>4. CASE \/ AuditResolution(h) \/ CommitManifest(h) \/ MarkVerifying(h)
             \/ ClearProbeCache(h)
    BY <2>4 DEF AuditResolution, CommitManifest, MarkVerifying, ClearProbeCache
  <2>5. CASE FindOpenPullRequest(h) \/ CreatePullRequest(h) \/ RefindPullRequest(h)
    <3>1. \/ pc'[h] = "idle"
          \/ job' = job
          \/ \E q \in Pulls : job' = [job EXCEPT ![h].pull = q]
      BY <1>1, <2>5
         DEF FindOpenPullRequest, CreatePullRequest, RefindPullRequest, OpenPulls,
             Finish, Goto
    <3>2. ASSUME NEW q \in Pulls, job' = [job EXCEPT ![h].pull = q]
          PROVE  job'[h].of = job[h].of
      <4>1. job'[h] = [job[h] EXCEPT !.pull = q]
        BY <1>1, <3>2
      <4> QED
        BY <2>0, <4>1
    <3> QED
      BY <3>1, <3>2
  <2>6. CASE ProbeNext(h)
    BY <1>1, <2>0, <2>6 DEF ProbeNext
  <2> QED
    BY <2>1, <2>2, <2>3, <2>4, <2>5, <2>6 DEF Step
<1>6. CASE job[h].of # p
  <2>1. proposal'[p] = proposal[p]
    BY <1>1, <1>3, <1>6 DEF Step, Abort, PersistEvaluation, RecordVerdict, ResolveApproval,
       AuditResolution, RecordAnswer, FindOpenPullRequest, CommitManifest,
       CreatePullRequest, RefindPullRequest, RecordPullRequest, RecordApplied,
       MarkVerifying, ClearProbeCache, ProbeNext, RecordOutcome, Write
  <2>2. eval'[proposal[p].approval] = eval[proposal[p].approval]
    BY <1>1, <1>2, <1>3, <1>6 DEF Step, Abort, PersistEvaluation, RecordVerdict,
       ResolveApproval,
       AuditResolution, RecordAnswer, FindOpenPullRequest, CommitManifest,
       CreatePullRequest, RefindPullRequest, RecordPullRequest, RecordApplied,
       MarkVerifying, ClearProbeCache, ProbeNext, RecordOutcome, Write
  <2> QED
    BY <1>4, <1>5, <1>6, <2>1, <2>2, StillStranded
<1>7. CASE job[h].of = p
  <2>1. pc[h] = "resolve" /\ job[h].eval = proposal[p].approval
    BY <1>2, <1>3, <1>7
  <2>2. ResolveApproval(h) \/ Abort(h)
    BY <2>1 DEF Step, PersistEvaluation, RecordVerdict,
       AuditResolution, RecordAnswer, FindOpenPullRequest, CommitManifest,
       CreatePullRequest, RefindPullRequest, RecordPullRequest, RecordApplied,
       MarkVerifying, ClearProbeCache, ProbeNext, RecordOutcome
  <2>3. proposal' = proposal /\ eval' = eval /\ pc'[h] = "idle"
    BY <1>1, <1>2, <2>1, <2>2 DEF ResolveApproval, Abort, Finish, Goto
  <2> QED
    BY <1>4, <2>3, StillStranded
<1> QED
  BY <1>6, <1>7

(* A proposal is stranded for good once its linked approval was answered   *)
(* at POST /approvals/{id}/... or has expired and nobody was in the middle *)
(* of answering through the proposal: no later request, on whichever       *)
(* replica, moves it (resolve_proposal answers 409 before its UPDATE).     *)
THEOREM StrandedForGood ==
    Spec => [][\A p \in Proposals : Stranded(p) => Stranded(p)']_vars
<1>1. ASSUME RemediationInv, [Next]_vars, NEW p \in Proposals, Stranded(p)
      PROVE  Stranded(p)'
  <2>1. ASSUME NEW h \in Handlers, Step(h) \/ Abort(h) PROVE Stranded(p)'
    BY <1>1, <2>1, StepStranded
  <2>2. ASSUME NEW h \in Handlers, NEW q \in Proposals, Start(h, q)
        PROVE  Stranded(p)'
    BY <1>1, <2>2, StartStranded
  <2>3. ASSUME NEW r \in Replicas, CreateFromDrift(r) PROVE Stranded(p)'
    <3>1. proposal'[p] = proposal[p]
      BY <1>1, <2>3
         DEF CreateFromDrift, Stranded, RemediationInv, Tables, TablesTyped
    <3> QED
      BY <1>1, <2>3, <3>1, StillStranded DEF CreateFromDrift
  <2>4. ASSUME NEW r \in Replicas, NEW b \in Backends,
               ProbeBackend(r, b) \/ ExpireProbe(r, b)
        PROVE  Stranded(p)'
    BY <1>1, <2>4, StillStranded DEF ProbeBackend, ExpireProbe
  <2>5. ASSUME NEW e \in Evals, NEW answer \in Answers \cup {"expired"},
               ResolveElsewhere(e, answer)
        PROVE  Stranded(p)'
    <3>1. e # proposal[p].approval
      BY <1>1, <2>5 DEF ResolveElsewhere, Stranded, Answers
    <3>2. eval'[proposal[p].approval] = eval[proposal[p].approval]
      BY <1>1, <2>5, <3>1
         DEF ResolveElsewhere, Stranded, RemediationInv, Tables, TablesTyped
    <3> QED
      BY <1>1, <2>5, <3>2, StillStranded DEF ResolveElsewhere
  <2>6. ASSUME NEW q \in Pulls, ClosePull(q) PROVE Stranded(p)'
    BY <1>1, <2>6, StillStranded DEF ClosePull
  <2>7. ASSUME NEW b \in Backends, BackendChanges(b) PROVE Stranded(p)'
    <3>1. \A h \in Handlers : job'[h].of = job[h].of /\ job'[h].eval = job[h].eval
      BY <1>1, <2>7 DEF BackendChanges, RemediationInv, HandlersSound, Jobs
    <3> QED
      BY <1>1, <2>7, <3>1, StillStranded DEF BackendChanges
  <2>8. CASE UNCHANGED vars
    BY <1>1, <2>8, StillStranded DEF vars
  <2> QED
    BY <1>1, <2>1, <2>2, <2>3, <2>4, <2>5, <2>6, <2>7, <2>8 DEF Next
<1>2. RemediationInv /\ [Next]_vars =>
         [\A p \in Proposals : Stranded(p) => Stranded(p)']_vars
  BY <1>1
<1> QED
  BY <1>2, Always, PTL DEF Spec
=============================================================================

----------------------- MODULE ApprovalLifecycleProofs -----------------------
(* Machine-checked safety of ApprovalLifecycle, for every set of handlers, *)
(* identifiers, people, digests and pins, and every TTL and retention.     *)
EXTENDS ApprovalLifecycle, TLAPS

(* The initial tables are empty and well typed. *)
LEMMA TypeInit == Init => TypeOK
  BY ApprovalAssumption
  DEF Init, TypeOK, DecisionRows, ApprovalRows, Jobs, NoDecision, NoApproval,
      NoEvents, NoJob, AuditKinds, Stages, CapKinds, Verdicts, Statuses

(* Lazy expiry keeps the approvals table well typed and touches only       *)
(* pending rows (_expire_if_needed and _expire_stale).                     *)
LEMMA ExpireType ==
  ASSUME approval \in [Ids -> ApprovalRows], NEW S
  PROVE  /\ ExpireStale(S) \in [Ids -> ApprovalRows]
         /\ \A i \in Ids :
              \/ ExpireStale(S)[i] = approval[i]
              \/ /\ approval[i].status = "pending"
                 /\ ExpireStale(S)[i] = [approval[i] EXCEPT !.status = "expired"]
                 /\ ExpireStale(S)[i].status = "expired"
                 /\ ExpireStale(S)[i].reviewer = approval[i].reviewer
                 /\ ExpireStale(S)[i].used = approval[i].used
  BY DEF ExpireStale, Stale, ApprovalRows, Statuses

(* Appending an event keeps a decision's event counts well typed.          *)
LEMMA AddEventType ==
  ASSUME NEW log \in [AuditKinds -> Nat], NEW kind \in AuditKinds
  PROVE  AddEvent(log, kind) \in [AuditKinds -> Nat]
  BY DEF AddEvent

(* Every event the handlers write is of a known kind. *)
LEMMA KindsKnown ==
  /\ {"decision_recorded", "approval_created", "approval_consumed"}
       \subseteq AuditKinds
  /\ \A answer : AnswerEvent(answer) \in AuditKinds
  BY DEF AuditKinds, AnswerEvent

(* The empty rows that stand for absent ones are well typed. *)
LEMMA EmptyRowsTyped ==
  /\ NoDecision \in DecisionRows
  /\ NoApproval \in ApprovalRows
  /\ NoEvents \in [AuditKinds -> Nat]
  /\ NoJob \in Jobs
  BY DEF NoDecision, DecisionRows, NoApproval, ApprovalRows, NoEvents, NoJob,
     Jobs, Verdicts, Statuses

(* A handler that ends leaves nothing behind. *)
LEMMA FinishType ==
  ASSUME TypeOK, NEW p \in Procs, Finish(p), now' \in Nat,
         issued' \in SUBSET Ids, issued \subseteq issued',
         decision' \in [Ids -> DecisionRows],
         approval' \in [Ids -> ApprovalRows],
         audit' \in [Ids -> [AuditKinds -> Nat]]
  PROVE  TypeOK'
  BY EmptyRowsTyped DEF TypeOK, Finish, Goto, NoJob, Stages

LEMMA TypeNext == TypeOK /\ [Next]_vars => TypeOK'
<1> SUFFICES ASSUME TypeOK, [Next]_vars PROVE TypeOK'
  OBVIOUS
<1>1. ASSUME NEW p \in Procs, ReceiveEvaluate(p) PROVE TypeOK'
  <2>1. PICK who \in People, d \in Digests, pol \in Policies,
             a \in issued \cup {None} :
          /\ job' = [job EXCEPT ![p] = [NoJob EXCEPT !.who = who, !.digest = d,
                                               !.policy = pol, !.approval = a]]
          /\ Goto(p, FirstStage(a))
    BY <1>1 DEF ReceiveEvaluate
  <2> DEFINE new == [NoJob EXCEPT !.who = who, !.digest = d, !.policy = pol,
                                  !.approval = a]
  <2>2. /\ new \in Jobs /\ new.who \in People /\ new.digest \in Digests
        /\ new.approval = a
    BY DEF NoJob, Jobs, TypeOK
  <2>3. FirstStage(a) \in {"lookup", "evaluate"}
        /\ (FirstStage(a) = "lookup" => a \in issued)
    BY DEF FirstStage
  <2> HIDE DEF new
  <2>4. /\ job' = [job EXCEPT ![p] = new]
        /\ UNCHANGED <<now, issued, decision, approval, audit>>
    BY <1>1, <2>1 DEF ReceiveEvaluate, new
  <2> QED
    BY <2>1, <2>2, <2>3, <2>4 DEF TypeOK, Goto, Stages
<1>2. ASSUME NEW p \in Procs, LookupApproval(p) PROVE TypeOK'
  BY <1>2, ExpireType DEF LookupApproval, TypeOK, Goto, Stages
<1>3. ASSUME NEW p \in Procs, CheckBinding(p) PROVE TypeOK'
  BY <1>3 DEF CheckBinding, TypeOK, Goto, Stages
<1>4. ASSUME NEW p \in Procs, ConsumeApproval(p) PROVE TypeOK'
  <2> DEFINE a == job[p].approval
  <2>1. a \in Ids
    BY <1>4 DEF ConsumeApproval, TypeOK
  <2>2. approval' \in [Ids -> ApprovalRows]
    <3>1. approval \in [Ids -> ApprovalRows] /\ approval[a] \in ApprovalRows
      BY <2>1 DEF TypeOK
    <3>2. PICK spent : spent = [approval[a] EXCEPT !.status = "consumed", !.used = TRUE]
      OBVIOUS
    <3>3. spent \in ApprovalRows
      BY <3>1, <3>2 DEF ApprovalRows, Statuses
    <3>4. approval' = approval \/ approval' = [approval EXCEPT ![a] = spent]
      BY <1>4, <3>1, <3>2 DEF ConsumeApproval
    <3> QED BY <2>1, <3>1, <3>3, <3>4
  <2>3. audit' \in [Ids -> [AuditKinds -> Nat]]
    BY <1>4, <2>1, AddEventType, KindsKnown DEF ConsumeApproval, ConsumeEvent, TypeOK
  <2> QED
    BY <1>4, <2>2, <2>3 DEF ConsumeApproval, TypeOK, Goto, Stages
<1>5. ASSUME NEW p \in Procs, PersistGrant(p) PROVE TypeOK'
  <2>1. PICK i \in Ids \ issued, caps \in CapPins :
          Insert(i, Row(p, "allow", job[p].digest, job[p].policy, caps,
                        job[p].approval),
                 NoApproval, AddEvent(NoEvents, "decision_recorded"))
    BY <1>5 DEF PersistGrant
  <2>2. Row(p, "allow", job[p].digest, job[p].policy, caps, job[p].approval)
          \in DecisionRows
    BY DEF Row, DecisionRows, TypeOK, Jobs, Verdicts
  <2> QED
    <3>1. Finish(p) /\ now' = now
      BY <1>5 DEF PersistGrant
    <3> QED
      BY <2>1, <2>2, <3>1, EmptyRowsTyped, AddEventType, KindsKnown, FinishType
      DEF Insert, TypeOK
<1>6. ASSUME NEW p \in Procs, PersistEvaluation(p) PROVE TypeOK'
  <2>1. PICK i \in Ids \ issued, d \in Enriched(job[p].digest), v \in Verdicts,
             pol \in Policies, caps \in CapPins, opened \in ApprovalRows,
             events \in [AuditKinds -> Nat] :
          Insert(i, Row(p, v, d, pol, caps, None), opened, events)
    <3>1. PICK i \in Ids \ issued, d \in Enriched(job[p].digest),
               v \in Verdicts, pol \in Policies, caps \in CapPins :
            LET recorded == AddEvent(NoEvents, "decision_recorded") IN
            IF v = "approval_required"
            THEN Insert(i, Row(p, v, d, pol, caps, None), Opened,
                        AddEvent(recorded, "approval_created"))
            ELSE Insert(i, Row(p, v, d, pol, caps, None), NoApproval, recorded)
      BY <1>6 DEF PersistEvaluation
    <3>2. Opened \in ApprovalRows
      <4>1. now + TTL \in Nat
        BY ApprovalAssumption DEF TypeOK
      <4> QED
        BY <4>1 DEF Opened, NoApproval, ApprovalRows, Statuses
    <3>3. /\ AddEvent(NoEvents, "decision_recorded") \in [AuditKinds -> Nat]
          /\ AddEvent(AddEvent(NoEvents, "decision_recorded"),
                      "approval_created") \in [AuditKinds -> Nat]
      BY EmptyRowsTyped, AddEventType, KindsKnown
    <3> QED
      BY <3>1, <3>2, <3>3, EmptyRowsTyped
  <2>2. Row(p, v, d, pol, caps, None) \in DecisionRows
    <3>1. d \in Digests
      BY <1>6, ApprovalAssumption DEF PersistEvaluation, Enriched, TypeOK
    <3> QED
      BY <3>1 DEF Row, DecisionRows, TypeOK, Jobs, Verdicts
  <2> QED
    <3>1. Finish(p) /\ now' = now
      BY <1>6 DEF PersistEvaluation
    <3> QED
      BY <2>1, <2>2, <3>1, FinishType DEF Insert, TypeOK
<1>7. ASSUME NEW p \in Procs, ReceiveResolve(p) PROVE TypeOK'
  <2>1. PICK who \in People, a \in issued, answer \in {"approved", "rejected"} :
          job' = [job EXCEPT ![p] = [NoJob EXCEPT !.who = who, !.approval = a,
                                                  !.answer = answer]]
    BY <1>7 DEF ReceiveResolve
  <2> DEFINE new == [NoJob EXCEPT !.who = who, !.approval = a,
                                  !.answer = answer]
  <2>2. /\ new \in Jobs /\ new.who \in People /\ new.approval \in issued
        /\ new.answer \in {"approved", "rejected"}
    BY DEF NoJob, Jobs, TypeOK
  <2> HIDE DEF new
  <2>3. job' = [job EXCEPT ![p] = new]
    BY <2>1 DEF new
  <2> QED
    BY <1>7, <2>2, <2>3 DEF ReceiveResolve, TypeOK, Goto, Stages
<1>8. ASSUME NEW p \in Procs, ResolveCheck(p) PROVE TypeOK'
  <2>1. CASE Finish(p)
    BY <1>8, <2>1, ExpireType, FinishType DEF ResolveCheck, TypeOK
  <2>2. CASE Goto(p, "resolve_write") /\ UNCHANGED job
    BY <1>8, <2>2, ExpireType DEF ResolveCheck, TypeOK, Goto, Stages
  <2> QED
    BY <1>8, <2>1, <2>2 DEF ResolveCheck
<1>9. ASSUME NEW p \in Procs, ResolveWrite(p) PROVE TypeOK'
  <2>1. CASE StillPending(approval[job[p].approval])
    <3>1. /\ job[p].approval \in Ids /\ job[p].who \in People
          /\ job[p].answer \in {"approved", "rejected"}
      BY <1>9 DEF ResolveWrite, TypeOK
    <3>2. approval' \in [Ids -> ApprovalRows]
      <4>1. [approval[job[p].approval] EXCEPT !.status = job[p].answer,
                                               !.reviewer = job[p].who]
              \in ApprovalRows
        <5>1. approval[job[p].approval] \in ApprovalRows
          BY <3>1 DEF TypeOK
        <5> QED
          BY <3>1, <5>1 DEF ApprovalRows, Statuses
      <4> QED
        BY <1>9, <2>1, <3>1, <4>1 DEF ResolveWrite, TypeOK
    <3> QED
      BY <1>9, <2>1, <3>1, <3>2 DEF ResolveWrite, TypeOK, Goto, Stages
  <2>2. CASE ~StillPending(approval[job[p].approval])
    BY <1>9, <2>2, FinishType DEF ResolveWrite, TypeOK
  <2> QED
    BY <2>1, <2>2
<1>10. ASSUME NEW p \in Procs, AuditResolution(p) PROVE TypeOK'
  <2>1. audit' \in [Ids -> [AuditKinds -> Nat]]
    BY <1>10, AddEventType, KindsKnown DEF AuditResolution, TypeOK
  <2> QED
    BY <1>10, <2>1, FinishType DEF AuditResolution, TypeOK
<1>11. ASSUME NEW p \in Procs, Crash(p) PROVE TypeOK'
  BY <1>11, FinishType DEF Crash, TypeOK
<1>12. ASSUME NEW a \in Ids, ReadApproval(a) PROVE TypeOK'
  BY <1>12, ExpireType DEF ReadApproval, TypeOK
<1>13. CASE ListApprovals
  BY <1>13, ExpireType DEF ListApprovals, TypeOK
<1>14. ASSUME NEW dryRun \in BOOLEAN, PurgeRetained(dryRun) PROVE TypeOK'
  BY <1>14, ExpireType, EmptyRowsTyped DEF PurgeRetained, TypeOK
<1>15. CASE Tick
  BY <1>15 DEF Tick, TypeOK
<1>16. CASE UNCHANGED vars
  BY <1>16 DEF vars, TypeOK
<1> QED
  BY <1>1, <1>2, <1>3, <1>4, <1>5, <1>6, <1>7, <1>8, <1>9, <1>10, <1>11, <1>12,
     <1>13, <1>14, <1>15, <1>16 DEF Next, Handle

(* Type correctness: the tables and handlers of durable governance always  *)
(* hold values of their types, whatever interleaves.                       *)
THEOREM TypeCorrect == Spec => []TypeOK
  BY TypeInit, TypeNext, PTL DEF Spec

-----------------------------------------------------------------------------
(* One-time use.  OneTimeUse alone is not inductive: a decision inserted   *)
(* under an identifier that an old grant still names would break it.  What *)
(* excludes that is that rows and grants only name identifiers already     *)
(* handed out.                                                             *)

Known == \A i \in Ids :
           /\ HasDecision(i) \/ HasApproval(i) => i \in issued
           /\ \A a \in Ids : AllowedBy(i, a) => a \in issued

UseInv == TypeOK /\ Known /\ OneTimeUse

LEMMA UseInit == Init => UseInv
  BY TypeInit DEF Init, UseInv, Known, OneTimeUse, HasDecision, HasApproval,
     AllowedBy, Holds, NoDecision, NoApproval

(* A step that creates no holder and no decision, and takes no approval    *)
(* out of the spent states, cannot break one-time use.                     *)
LEMMA QuietStep ==
  ASSUME UseInv, TypeOK', issued \subseteq issued',
         \A p \in Procs, a \in Ids : Holds(p, a)' => Holds(p, a),
         \A i \in Ids : decision'[i] = decision[i] \/ ~HasDecision(i)',
         \A i \in Ids : HasApproval(i)' => HasApproval(i),
         \A i \in Ids : approval[i].status = "consumed" =>
                          approval'[i].status \in {"consumed", "none"}
  PROVE  UseInv'
<1>1. \A i, a \in Ids : AllowedBy(i, a)' => AllowedBy(i, a)
  BY DEF AllowedBy, HasDecision
<1>2. \A i \in Ids : HasDecision(i)' => HasDecision(i)
  BY DEF HasDecision
<1>3. Known'
  BY <1>1, <1>2 DEF UseInv, Known
<1>4. OneTimeUse'
  BY <1>1 DEF UseInv, OneTimeUse, HasApproval
<1> QED
  BY <1>3, <1>4 DEF UseInv

(* A handler that moves on without reaching "grant" becomes no holder.     *)
LEMMA NoNewHolder ==
  ASSUME TypeOK, NEW p \in Procs, NEW stage, stage # "grant", Goto(p, stage),
         \A q \in Procs : q # p => job'[q] = job[q]
  PROVE  \A q \in Procs, a \in Ids : Holds(q, a)' => Holds(q, a)
  BY DEF TypeOK, Goto, Holds

LEMMA FinishNoHolder ==
  ASSUME TypeOK, NEW p \in Procs, Finish(p)
  PROVE  \A q \in Procs, a \in Ids : Holds(q, a)' => Holds(q, a)
  BY NoNewHolder DEF Finish, TypeOK

(* Inserting a fresh decision, after the inserting handler has ended.      *)
LEMMA FreshInsert ==
  ASSUME UseInv, TypeOK', NEW p \in Procs, NEW i \in Ids \ issued, NEW row,
         NEW opened, NEW events, Insert(i, row, opened, events), Finish(p),
         row.via = None \/ (row.via \in Ids /\ Holds(p, row.via))
  PROVE  UseInv'
<1>1. \A q \in Procs, a \in Ids : Holds(q, a)' => Holds(q, a) /\ q # p
  BY DEF UseInv, TypeOK, Finish, Goto, Holds
<1>2. \A j, a \in Ids : AllowedBy(j, a)' =>
        \/ j # i /\ AllowedBy(j, a)
        \/ j = i /\ a = row.via /\ Holds(p, a)
  BY ApprovalAssumption DEF UseInv, TypeOK, Insert, AllowedBy, HasDecision
<1>3. \A a \in Ids : a # i => approval'[a] = approval[a]
  BY DEF UseInv, TypeOK, Insert
<1>4. \A q \in Procs, a \in Ids : Holds(q, a) => a \in issued
  BY DEF UseInv, TypeOK, Holds
<1>5. Known'
  BY <1>2, <1>3, <1>4 DEF UseInv, TypeOK, Known, Insert, HasDecision, HasApproval
<1>6. OneTimeUse'
  <2> SUFFICES ASSUME NEW a \in Ids
               PROVE  OneTimeUse!(a)'
    BY DEF OneTimeUse
  <2>1. \A q, r \in Procs : Holds(q, a)' /\ Holds(r, a)' => q = r
    BY <1>1 DEF UseInv, OneTimeUse
  <2>2. \A j, k \in Ids : AllowedBy(j, a)' /\ AllowedBy(k, a)' => j = k
    BY <1>2 DEF UseInv, OneTimeUse
  <2>3. \A q \in Procs, j \in Ids : ~(Holds(q, a)' /\ AllowedBy(j, a)')
    BY <1>1, <1>2 DEF UseInv, OneTimeUse
  <2>4. (\E q \in Procs : Holds(q, a)') \/ (\E j \in Ids : AllowedBy(j, a)')
          => a # i /\ approval[a].status \in {"consumed", "none"}
    BY <1>1, <1>2, <1>4 DEF UseInv, OneTimeUse, Known
  <2> QED
    BY <2>1, <2>2, <2>3, <2>4, <1>3
<1> QED
  BY <1>5, <1>6 DEF UseInv

(* What lazy expiry does to the shape of the approvals table.              *)
LEMMA ExpireQuiet ==
  ASSUME TypeOK, NEW S
  PROVE  \A i \in Ids :
           /\ ExpireStale(S)[i].status # "none" => HasApproval(i)
           /\ approval[i].status = "consumed" =>
                ExpireStale(S)[i].status = "consumed"
  BY ExpireType DEF TypeOK, HasApproval

LEMMA UseNext == UseInv /\ [Next]_vars => UseInv'
<1> SUFFICES ASSUME UseInv, [Next]_vars PROVE UseInv'
  OBVIOUS
<1>a. TypeOK /\ TypeOK'
  BY TypeNext DEF UseInv
<1>1. ASSUME NEW p \in Procs, ReceiveEvaluate(p) PROVE UseInv'
  <2>1. PICK a \in issued \cup {None} : Goto(p, FirstStage(a))
    BY <1>1 DEF ReceiveEvaluate
  <2>2. \A q \in Procs : q # p => job'[q] = job[q]
    BY <1>1, <1>a DEF ReceiveEvaluate, TypeOK
  <2>3. FirstStage(a) # "grant"
    BY DEF FirstStage
  <2> QED
    BY <1>1, <1>a, <2>1, <2>2, <2>3, NoNewHolder, QuietStep
    DEF ReceiveEvaluate, HasApproval
<1>2. ASSUME NEW p \in Procs, LookupApproval(p) PROVE UseInv'
  <2>1. PICK stage \in {"check", "evaluate"} : Goto(p, stage)
    BY <1>2 DEF LookupApproval
  <2> QED
    BY <1>2, <1>a, <2>1, NoNewHolder, ExpireQuiet, QuietStep
    DEF LookupApproval, HasApproval
<1>3. ASSUME NEW p \in Procs, CheckBinding(p) PROVE UseInv'
  <2>1. PICK stage \in {"consume", "evaluate"} : Goto(p, stage)
    BY <1>3 DEF CheckBinding
  <2> QED
    BY <1>3, <1>a, <2>1, NoNewHolder, QuietStep DEF CheckBinding, HasApproval
<1>4. ASSUME NEW p \in Procs, ConsumeApproval(p) PROVE UseInv'
  <2> DEFINE a == job[p].approval
  <2>1. a \in issued /\ a \in Ids
    BY <1>4, <1>a DEF ConsumeApproval, TypeOK
  <2>2. CASE ~Consumable(approval[a])
    BY <1>4, <1>a, <2>2, NoNewHolder, QuietStep
    DEF ConsumeApproval, HasApproval
  <2>3. CASE Consumable(approval[a])
    <3>1. \A q \in Procs, b \in Ids :
            Holds(q, b)' => Holds(q, b) \/ (q = p /\ b = a)
      BY <1>4, <1>a DEF ConsumeApproval, TypeOK, Goto, Holds
    <3>2. \A i, b \in Ids : AllowedBy(i, b)' = AllowedBy(i, b)
      BY <1>4 DEF ConsumeApproval, AllowedBy, HasDecision
    <3>3. /\ \A q \in Procs : ~Holds(q, a)
          /\ \A i \in Ids : ~AllowedBy(i, a)
      BY <2>1, <2>3 DEF UseInv, OneTimeUse, Consumable
    <3>4. /\ \A b \in Ids : b # a => approval'[b] = approval[b]
          /\ approval'[a].status = "consumed"
      BY <1>4, <1>a, <2>1, <2>3 DEF ConsumeApproval, TypeOK, ApprovalRows
    <3>5. Known'
      BY <1>4, <2>1, <3>2, <3>4
      DEF UseInv, Known, ConsumeApproval, HasDecision, HasApproval
    <3>6. OneTimeUse'
      BY <3>1, <3>2, <3>3, <3>4 DEF UseInv, OneTimeUse
    <3> QED
      BY <1>a, <3>5, <3>6 DEF UseInv
  <2> QED
    BY <2>2, <2>3
<1>5. ASSUME NEW p \in Procs, PersistGrant(p) PROVE UseInv'
  <2>1. PICK i \in Ids \ issued, caps \in CapPins :
          Insert(i, Row(p, "allow", job[p].digest, job[p].policy, caps,
                        job[p].approval),
                 NoApproval, AddEvent(NoEvents, "decision_recorded"))
    BY <1>5 DEF PersistGrant
  <2>2. job[p].approval \in Ids /\ Holds(p, job[p].approval)
    BY <1>5, <1>a DEF PersistGrant, TypeOK, Holds
  <2> QED
    BY <1>5, <1>a, <2>1, <2>2, FreshInsert DEF PersistGrant, Row
<1>6. ASSUME NEW p \in Procs, PersistEvaluation(p) PROVE UseInv'
  <2>1. PICK i \in Ids \ issued, d \in Enriched(job[p].digest),
             v \in Verdicts, pol \in Policies, caps \in CapPins :
          \E opened, events : Insert(i, Row(p, v, d, pol, caps, None),
                                     opened, events)
    BY <1>6 DEF PersistEvaluation
  <2> QED
    BY <1>6, <1>a, <2>1, FreshInsert DEF PersistEvaluation, Row
<1>7. ASSUME NEW p \in Procs, ReceiveResolve(p) PROVE UseInv'
  <2>1. \A q \in Procs : q # p => job'[q] = job[q]
    BY <1>7, <1>a DEF ReceiveResolve, TypeOK
  <2> QED
    BY <1>7, <1>a, <2>1, NoNewHolder, QuietStep DEF ReceiveResolve, HasApproval
<1>8. ASSUME NEW p \in Procs, ResolveCheck(p) PROVE UseInv'
  <2>1. \A q \in Procs, a \in Ids : Holds(q, a)' => Holds(q, a)
    BY <1>8, <1>a, NoNewHolder, FinishNoHolder DEF ResolveCheck
  <2> QED
    BY <1>8, <1>a, <2>1, ExpireQuiet, QuietStep DEF ResolveCheck, HasApproval
<1>9. ASSUME NEW p \in Procs, ResolveWrite(p) PROVE UseInv'
  <2>1. \A q \in Procs, a \in Ids : Holds(q, a)' => Holds(q, a)
    BY <1>9, <1>a, NoNewHolder, FinishNoHolder DEF ResolveWrite
  <2>2. \A i \in Ids :
          \/ approval'[i] = approval[i]
          \/ approval[i].status = "pending"
    BY <1>9, <1>a DEF ResolveWrite, StillPending, TypeOK
  <2> QED
    BY <1>9, <1>a, <2>1, <2>2, QuietStep DEF ResolveWrite, HasApproval
<1>10. ASSUME NEW p \in Procs, AuditResolution(p) PROVE UseInv'
  BY <1>10, <1>a, FinishNoHolder, QuietStep DEF AuditResolution, HasApproval
<1>11. ASSUME NEW p \in Procs, Crash(p) PROVE UseInv'
  BY <1>11, <1>a, FinishNoHolder, QuietStep DEF Crash, HasApproval
<1>12. ASSUME NEW a \in Ids, ReadApproval(a) PROVE UseInv'
  BY <1>12, <1>a, ExpireQuiet, QuietStep DEF ReadApproval, HasApproval, Holds
<1>13. CASE ListApprovals
  BY <1>13, <1>a, ExpireQuiet, QuietStep DEF ListApprovals, HasApproval, Holds
<1>14. ASSUME NEW dryRun \in BOOLEAN, PurgeRetained(dryRun) PROVE UseInv'
  <2>1. PICK S \in SUBSET Ids :
          /\ decision' = [i \in Ids |-> IF i \in S THEN NoDecision
                                        ELSE decision[i]]
          /\ approval' = [i \in Ids |-> IF i \in S THEN NoApproval
                                        ELSE ExpireStale(Ids)[i]]
    BY <1>14 DEF PurgeRetained
  <2>2. \A i \in Ids : decision'[i] = decision[i] \/ ~HasDecision(i)'
    BY <2>1 DEF HasDecision, NoDecision
  <2>3. \A i \in Ids :
          /\ HasApproval(i)' => HasApproval(i)
          /\ approval[i].status = "consumed" =>
               approval'[i].status \in {"consumed", "none"}
    BY <1>a, <2>1, ExpireQuiet DEF HasApproval, NoApproval
  <2> QED
    BY <1>14, <1>a, <2>2, <2>3, QuietStep DEF PurgeRetained, Holds
<1>15. CASE Tick
  BY <1>15, <1>a, QuietStep DEF Tick, HasApproval, Holds
<1>16. CASE UNCHANGED vars
  BY <1>16, <1>a, QuietStep DEF vars, HasApproval, Holds
<1> QED
  BY <1>1, <1>2, <1>3, <1>4, <1>5, <1>6, <1>7, <1>8, <1>9, <1>10, <1>11, <1>12,
     <1>13, <1>14, <1>15, <1>16 DEF Next, Handle

(* One approval, one allowed request: no interleaving of racing retries,   *)
(* crashes between consume and record, lazy expiry and purge lets an       *)
(* approval_id grant twice (consume_approval, persist_evaluation).         *)
THEOREM OneTimeUseHolds == Spec => []OneTimeUse
  BY UseInit, UseNext, PTL DEF Spec, UseInv

-----------------------------------------------------------------------------
(* What was allowed is what was approved.                                  *)

Matches(x, y) == x.digest = y.digest /\ ~Differ(x.policy, y.policy)

(* What handler p checked in an earlier session is still so as long as the *)
(* decision it read is there.                                              *)
ChecksHold(p) ==
    HasDecision(job[p].approval) =>
      /\ pc[p] = "resolve_write" =>
           MayResolve(job[p].who, decision[job[p].approval].subject)
      /\ pc[p] \in {"consume", "grant"} =>
           Matches(job[p], decision[job[p].approval])
      /\ pc[p] = "grant" => approval[job[p].approval].status = "consumed"

Answered(a) ==
    approval[a].status \in {"approved", "consumed"} /\ HasDecision(a) =>
      /\ approval[a].reviewer \in People
      /\ MayResolve(approval[a].reviewer, decision[a].subject)

Granted(i, a) ==
    AllowedBy(i, a) /\ HasDecision(a) =>
      Matches(decision[i], decision[a]) /\ approval[a].status = "consumed"

BoundInv ==
    /\ \A p \in Procs : ChecksHold(p)
    /\ \A a \in Ids : Answered(a)
    /\ \A i, a \in Ids : Granted(i, a)

LEMMA BoundInit == Init => BoundInv
  BY DEF Init, BoundInv, ChecksHold, Answered, Granted, HasDecision, AllowedBy,
         NoDecision, NoApproval

LEMMA BoundIsBound ==
  ASSUME BoundInv
  PROVE  GrantIsBound
  BY DEF BoundInv, GrantIsBound, Granted, Answered, Matches

Careful == {"resolve_write", "consume", "grant"}

(* A step that adds no decision, answers no approval and takes no handler  *)
(* to a stage that relies on a check.                                      *)
LEMMA BoundStays ==
  ASSUME UseInv, BoundInv,
         \A i \in Ids : decision'[i] = decision[i] \/ ~HasDecision(i)',
         \A i \in Ids : HasDecision(i)' =>
           /\ \/ Answered(i)'
              \/ approval'[i].status \in {"approved", "consumed"} =>
                   approval[i].status \in {"approved", "consumed"}
                     /\ approval'[i].reviewer = approval[i].reviewer
           /\ approval[i].status = "consumed" => approval'[i].status = "consumed",
         \A p \in Procs : pc'[p] \notin Careful \/ ChecksHold(p)'
                          \/ (pc'[p] = pc[p] /\ job'[p] = job[p])
  PROVE  BoundInv'
<1>1. \A i \in Ids : HasDecision(i)' => HasDecision(i) /\ decision'[i] = decision[i]
  BY DEF HasDecision
<1>2. ASSUME NEW p \in Procs PROVE ChecksHold(p)'
  <2>1. CASE pc'[p] \notin Careful
    BY <2>1 DEF ChecksHold, Careful
  <2>2. CASE pc'[p] \in Careful /\ pc'[p] = pc[p] /\ job'[p] = job[p]
    <3>1. job[p].approval \in Ids /\ ChecksHold(p)
      BY <2>2 DEF UseInv, TypeOK, Careful, BoundInv
    <3>2. CASE ~HasDecision(job[p].approval)'
      BY <2>2, <3>2 DEF ChecksHold, HasDecision
    <3>3. CASE HasDecision(job[p].approval)'
      <4>1. /\ HasDecision(job[p].approval)
            /\ decision'[job[p].approval] = decision[job[p].approval]
            /\ approval[job[p].approval].status = "consumed" =>
                 approval'[job[p].approval].status = "consumed"
        BY <1>1, <2>2, <3>1, <3>3 DEF HasDecision
      <4> QED
        BY <2>2, <3>1, <4>1 DEF ChecksHold
    <3> QED
      BY <3>2, <3>3
  <2> QED
    BY <2>1, <2>2
<1>3. ASSUME NEW a \in Ids PROVE Answered(a)'
  <2>1. Answered(a)
    BY DEF BoundInv
  <2>2. CASE ~HasDecision(a)'
    BY <2>2 DEF Answered
  <2>3. CASE HasDecision(a)'
    BY <1>1, <2>1, <2>3 DEF Answered
  <2> QED
    BY <2>2, <2>3
<1>4. ASSUME NEW i \in Ids, NEW a \in Ids PROVE Granted(i, a)'
  <2>1. Granted(i, a)
    BY DEF BoundInv
  <2> QED
    BY <1>1, <2>1 DEF Granted, AllowedBy
<1> QED
  BY <1>2, <1>3, <1>4 DEF BoundInv

(* A decision under a fresh identifier; its handler has ended.             *)
LEMMA BoundInsert ==
  ASSUME UseInv, BoundInv, NEW p \in Procs, NEW i \in Ids \ issued, NEW row,
         NEW opened, NEW events, Insert(i, row, opened, events), Finish(p),
         opened.status \notin {"approved", "consumed"},
         row.via = None \/
           /\ row.via \in issued
           /\ HasDecision(row.via) =>
                Matches(row, decision[row.via]) /\ approval[row.via].status = "consumed"
  PROVE  BoundInv'
<1>1. /\ decision'[i] = row /\ approval'[i] = opened
      /\ \A a \in Ids \ {i} : decision'[a] = decision[a] /\ approval'[a] = approval[a]
      /\ issued \subseteq Ids
  BY DEF UseInv, TypeOK, Insert
<1>2. ASSUME NEW q \in Procs PROVE ChecksHold(q)'
  <2>1. CASE q = p
    <3>1. pc'[q] = "idle"
      BY <2>1 DEF UseInv, TypeOK, Finish, Goto
    <3> QED
      BY <3>1 DEF ChecksHold
  <2>2. CASE q # p
    <3>1. pc'[q] = pc[q] /\ job'[q] = job[q] /\ ChecksHold(q)
      BY <2>2 DEF UseInv, TypeOK, Finish, Goto, BoundInv
    <3>2. CASE pc[q] \in Careful
      <4>1. job[q].approval \in issued
        BY <3>2 DEF UseInv, TypeOK, Careful
      <4>2. /\ decision'[job[q].approval] = decision[job[q].approval]
            /\ approval'[job[q].approval] = approval[job[q].approval]
        BY <1>1, <4>1
      <4> QED
        BY <3>1, <4>2 DEF ChecksHold, HasDecision
    <3>3. CASE pc[q] \notin Careful
      BY <3>1, <3>3 DEF ChecksHold, Careful
    <3> QED
      BY <3>2, <3>3
  <2> QED
    BY <2>1, <2>2
<1>3. ASSUME NEW a \in Ids PROVE Answered(a)'
  <2>1. Answered(a)
    BY DEF BoundInv
  <2> QED
    BY <1>1, <2>1 DEF Answered, HasDecision
<1>4. ASSUME NEW j \in Ids, NEW a \in Ids PROVE Granted(j, a)'
  <2> SUFFICES ASSUME AllowedBy(j, a)', HasDecision(a)'
               PROVE  Matches(decision'[j], decision'[a])
                        /\ approval'[a].status = "consumed"
    BY DEF Granted
  <2>1. CASE j # i
    <3>1. decision'[j] = decision[j] /\ AllowedBy(j, a)
      BY <1>1, <2>1 DEF AllowedBy, HasDecision
    <3>2. a \in issued /\ a # i
      BY <3>1 DEF UseInv, Known
    <3>3. decision'[a] = decision[a] /\ approval'[a] = approval[a]
      BY <1>1, <3>2
    <3> QED
      BY <3>1, <3>3 DEF BoundInv, Granted, HasDecision
  <2>2. CASE j = i
    <3>1. row.via = a /\ row.via # None
      BY <1>1, <2>2, ApprovalAssumption DEF AllowedBy
    <3>2. a \in issued /\ a # i
      BY <3>1
    <3>3. decision'[a] = decision[a] /\ approval'[a] = approval[a]
      BY <1>1, <3>2
    <3> QED
      BY <1>1, <2>2, <3>1, <3>3 DEF HasDecision
  <2> QED
    BY <2>1, <2>2
<1> QED
  BY <1>2, <1>3, <1>4 DEF BoundInv

(* A handler that goes on: all the others stay where they are.             *)
LEMMA OthersStay ==
  ASSUME TypeOK, NEW p \in Procs, NEW s, Goto(p, s),
         \A q \in Procs : q # p => job'[q] = job[q]
  PROVE  /\ pc'[p] = s
         /\ \A q \in Procs : q # p => pc'[q] = pc[q] /\ job'[q] = job[q]
  BY DEF TypeOK, Goto

(* Lazy expiry answers nothing. *)
LEMMA ExpiryAnswersNothing ==
  ASSUME TypeOK, NEW S, NEW i \in Ids
  PROVE  /\ ExpireStale(S)[i].status \in {"approved", "consumed"} =>
              approval[i].status \in {"approved", "consumed"}
                /\ ExpireStale(S)[i].reviewer = approval[i].reviewer
         /\ approval[i].status = "consumed" => ExpireStale(S)[i].status = "consumed"
  BY ExpireType DEF TypeOK

LEMMA BoundNext == UseInv /\ BoundInv /\ [Next]_vars => BoundInv'
<1> SUFFICES ASSUME UseInv, BoundInv, [Next]_vars PROVE BoundInv'
  OBVIOUS
<1>a. TypeOK
  BY DEF UseInv
<1>b. ASSUME UNCHANGED <<decision, approval>>,
             \A p \in Procs : pc'[p] \notin Careful \/ ChecksHold(p)'
                              \/ (pc'[p] = pc[p] /\ job'[p] = job[p])
      PROVE  BoundInv'
  BY <1>b, BoundStays
<1>1. ASSUME NEW p \in Procs, ReceiveEvaluate(p) \/ ReceiveResolve(p)
      PROVE  BoundInv'
  <2>1. PICK s \in {"evaluate", "lookup", "resolve"} : Goto(p, s)
    BY <1>1 DEF ReceiveEvaluate, ReceiveResolve, FirstStage
  <2>2. /\ UNCHANGED <<decision, approval>>
        /\ \A q \in Procs : q # p => job'[q] = job[q]
    BY <1>1, <1>a DEF ReceiveEvaluate, ReceiveResolve, TypeOK
  <2> QED
    BY <1>a, <1>b, <2>1, <2>2, OthersStay DEF Careful
<1>2. ASSUME NEW p \in Procs, LookupApproval(p) PROVE BoundInv'
  <2>1. PICK s \in {"check", "evaluate"} : Goto(p, s)
    BY <1>2 DEF LookupApproval
  <2>2. /\ UNCHANGED <<decision, job>>
        /\ approval' = ExpireStale({job[p].approval})
    BY <1>2 DEF LookupApproval
  <2>3. \A q \in Procs : pc'[q] \notin Careful \/ (pc'[q] = pc[q] /\ job'[q] = job[q])
    BY <1>a, <2>1, <2>2, OthersStay DEF Careful
  <2> QED
    BY <1>a, <2>2, <2>3, ExpiryAnswersNothing, BoundStays
<1>3. ASSUME NEW p \in Procs, CheckBinding(p) PROVE BoundInv'
  <2> DEFINE a == job[p].approval
  <2>1. PICK caps \in CapPins :
          Goto(p, IF Binds(decision[a], job[p], caps) THEN "consume" ELSE "evaluate")
    BY <1>3 DEF CheckBinding
  <2>2. UNCHANGED <<decision, approval, job>>
    BY <1>3 DEF CheckBinding
  <2>3. CASE ~Binds(decision[a], job[p], caps)
    <3>1. Goto(p, "evaluate")
      BY <2>1, <2>3
    <3> QED
      BY <1>a, <1>b, <2>2, <3>1, OthersStay DEF Careful
  <2>4. CASE Binds(decision[a], job[p], caps)
    <3>1. Goto(p, "consume")
      BY <2>1, <2>4
    <3>2. Matches(job[p], decision[a])
      BY <2>4 DEF Binds, Matches
    <3>3. pc'[p] = "consume"
          /\ \A q \in Procs : q # p => pc'[q] = pc[q] /\ job'[q] = job[q]
      BY <1>a, <2>2, <3>1, OthersStay
    <3>4. ChecksHold(p)'
      BY <2>2, <3>2, <3>3 DEF ChecksHold
    <3> QED
      BY <1>b, <2>2, <3>3, <3>4
  <2> QED
    BY <2>3, <2>4
<1>4. ASSUME NEW p \in Procs, ConsumeApproval(p) PROVE BoundInv'
  <2> DEFINE a == job[p].approval
  <2>1. /\ pc[p] = "consume" /\ a \in Ids /\ UNCHANGED <<decision, job>>
        /\ ChecksHold(p) /\ approval \in [Ids -> ApprovalRows]
    BY <1>4, <1>a DEF ConsumeApproval, TypeOK, BoundInv
  <2>2. CASE ~Consumable(approval[a])
    <3>1. Goto(p, "evaluate") /\ UNCHANGED approval
      BY <1>4, <2>2 DEF ConsumeApproval
    <3> QED
      BY <1>a, <1>b, <2>1, <3>1, OthersStay DEF Careful
  <2>3. CASE Consumable(approval[a])
    <3>1. /\ Goto(p, "grant")
          /\ approval' = [approval EXCEPT ![a] = [approval[a] EXCEPT
                             !.status = "consumed", !.used = TRUE]]
      BY <1>4, <2>3 DEF ConsumeApproval
    <3>2. /\ approval[a].status = "approved"
          /\ approval'[a].status = "consumed"
          /\ approval'[a].reviewer = approval[a].reviewer
          /\ \A b \in Ids : b # a => approval'[b] = approval[b]
      BY <2>1, <2>3, <3>1 DEF Consumable, ApprovalRows
    <3>3. pc'[p] = "grant"
          /\ \A q \in Procs : q # p => pc'[q] = pc[q] /\ job'[q] = job[q]
      BY <1>a, <2>1, <3>1, OthersStay
    <3>4. ChecksHold(p)'
      BY <2>1, <3>2, <3>3 DEF ChecksHold, HasDecision
    <3> QED
      BY <2>1, <3>2, <3>3, <3>4, BoundStays
  <2> QED
    BY <2>2, <2>3
<1>5. ASSUME NEW p \in Procs, PersistGrant(p) PROVE BoundInv'
  <2>1. PICK i \in Ids \ issued, caps \in CapPins :
          Insert(i, Row(p, "allow", job[p].digest, job[p].policy, caps,
                        job[p].approval),
                 NoApproval, AddEvent(NoEvents, "decision_recorded"))
    BY <1>5 DEF PersistGrant
  <2> DEFINE row == Row(p, "allow", job[p].digest, job[p].policy, caps,
                        job[p].approval)
  <2>2. /\ row.via = job[p].approval /\ row.digest = job[p].digest
        /\ row.policy = job[p].policy
    BY DEF Row
  <2>3. pc[p] = "grant" /\ job[p].approval \in issued /\ ChecksHold(p)
    BY <1>5, <1>a DEF PersistGrant, TypeOK, BoundInv
  <2>4. HasDecision(row.via) =>
          Matches(row, decision[row.via]) /\ approval[row.via].status = "consumed"
    BY <2>2, <2>3 DEF ChecksHold, Matches
  <2>5. NoApproval.status \notin {"approved", "consumed"} /\ Finish(p)
    BY <1>5 DEF NoApproval, PersistGrant
  <2> HIDE DEF row
  <2>6. Insert(i, row, NoApproval, AddEvent(NoEvents, "decision_recorded"))
    BY <2>1 DEF row
  <2> QED
    BY <2>2, <2>3, <2>4, <2>5, <2>6, BoundInsert
<1>6. ASSUME NEW p \in Procs, PersistEvaluation(p) PROVE BoundInv'
  <2>1. PICK i \in Ids \ issued, d \in Enriched(job[p].digest),
             v \in Verdicts, pol \in Policies, caps \in CapPins :
          \E opened, events :
            /\ opened \in {Opened, NoApproval}
            /\ Insert(i, Row(p, v, d, pol, caps, None), opened, events)
    BY <1>6 DEF PersistEvaluation
  <2>2. PICK opened, events :
          /\ opened \in {Opened, NoApproval}
          /\ Insert(i, Row(p, v, d, pol, caps, None), opened, events)
    BY <2>1
  <2>3. opened.status \notin {"approved", "consumed"} /\ Finish(p)
    <3>1. Opened.status = "pending"
      BY DEF Opened, NoApproval
    <3>2. NoApproval.status = "none"
      BY DEF NoApproval
    <3> QED
      BY <1>6, <2>2, <3>1, <3>2 DEF PersistEvaluation
  <2>4. Row(p, v, d, pol, caps, None).via = None
    BY DEF Row
  <2> QED
    BY <2>2, <2>3, <2>4, BoundInsert
<1>7. ASSUME NEW p \in Procs, ResolveCheck(p) PROVE BoundInv'
  <2> DEFINE a == job[p].approval
  <2>1. UNCHANGED decision /\ approval' = ExpireStale({a})
    BY <1>7 DEF ResolveCheck
  <2>2. CASE Finish(p)
    <3>1. \A q \in Procs : pc'[q] \notin Careful \/ (pc'[q] = pc[q] /\ job'[q] = job[q])
      BY <1>a, <2>2 DEF Finish, Goto, TypeOK, Careful
    <3> QED
      BY <1>a, <2>1, <3>1, ExpiryAnswersNothing, BoundStays
  <2>3. CASE /\ Goto(p, "resolve_write") /\ UNCHANGED job
             /\ MayResolve(job[p].who, decision[a].subject)
    <3>1. pc'[p] = "resolve_write"
          /\ \A q \in Procs : q # p => pc'[q] = pc[q] /\ job'[q] = job[q]
      BY <1>a, <2>3, OthersStay
    <3>2. ChecksHold(p)'
      BY <2>1, <2>3, <3>1 DEF ChecksHold, MayResolve
    <3> QED
      BY <1>a, <2>1, <3>1, <3>2, ExpiryAnswersNothing, BoundStays
  <2> QED
    BY <1>7, <2>2, <2>3 DEF ResolveCheck
<1>8. ASSUME NEW p \in Procs, ResolveWrite(p) PROVE BoundInv'
  <2> DEFINE a == job[p].approval
  <2>1. /\ pc[p] = "resolve_write" /\ a \in Ids /\ UNCHANGED decision
        /\ job[p].who \in People /\ ChecksHold(p)
        /\ approval \in [Ids -> ApprovalRows]
    BY <1>8, <1>a DEF ResolveWrite, TypeOK, BoundInv
  <2>2. CASE ~StillPending(approval[a])
    <3>1. Finish(p) /\ UNCHANGED approval
      BY <1>8, <2>2 DEF ResolveWrite
    <3>2. \A q \in Procs : pc'[q] \notin Careful \/ (pc'[q] = pc[q] /\ job'[q] = job[q])
      BY <1>a, <3>1 DEF Finish, Goto, TypeOK, Careful
    <3> QED
      BY <1>b, <2>1, <3>1, <3>2
  <2>3. CASE StillPending(approval[a])
    <3>1. /\ Goto(p, "resolve_audit") /\ UNCHANGED job
          /\ approval' = [approval EXCEPT ![a] = [approval[a] EXCEPT
                             !.status = job[p].answer, !.reviewer = job[p].who]]
      BY <1>8, <2>3 DEF ResolveWrite
    <3>2. /\ approval[a].status = "pending"
          /\ approval'[a].reviewer = job[p].who
          /\ \A b \in Ids : b # a => approval'[b] = approval[b]
      BY <2>1, <2>3, <3>1 DEF StillPending, ApprovalRows
    <3>3. HasDecision(a) =>
            /\ approval'[a].reviewer \in People
            /\ MayResolve(approval'[a].reviewer, decision[a].subject)
      BY <2>1, <3>2 DEF ChecksHold
    <3>4. \A q \in Procs : pc'[q] \notin Careful \/ (pc'[q] = pc[q] /\ job'[q] = job[q])
      BY <1>a, <3>1, OthersStay DEF Careful
    <3>5. ASSUME NEW b \in Ids
          PROVE  /\ \/ Answered(b)'
                    \/ approval'[b].status \in {"approved", "consumed"} =>
                         approval[b].status \in {"approved", "consumed"}
                           /\ approval'[b].reviewer = approval[b].reviewer
                 /\ approval[b].status = "consumed" =>
                      approval'[b].status = "consumed"
      <4>1. CASE b = a
        BY <2>1, <3>2, <3>3, <4>1 DEF Answered, HasDecision, MayResolve
      <4>2. CASE b # a
        BY <3>2, <4>2
      <4> QED
        BY <4>1, <4>2
    <3> QED
      BY <2>1, <3>4, <3>5, BoundStays
  <2> QED
    BY <2>2, <2>3
<1>9. ASSUME NEW p \in Procs, AuditResolution(p) \/ Crash(p) PROVE BoundInv'
  <2>1. Finish(p) /\ UNCHANGED <<decision, approval>>
    BY <1>9 DEF AuditResolution, Crash
  <2>2. \A q \in Procs : pc'[q] \notin Careful \/ (pc'[q] = pc[q] /\ job'[q] = job[q])
    BY <1>a, <2>1 DEF Finish, Goto, TypeOK, Careful
  <2> QED
    BY <1>b, <2>1, <2>2
<1>10. ASSUME NEW S, approval' = ExpireStale(S), UNCHANGED <<decision, pc, job>>
       PROVE  BoundInv'
  BY <1>a, <1>10, ExpiryAnswersNothing, BoundStays
<1>11. ASSUME NEW dryRun \in BOOLEAN, PurgeRetained(dryRun) PROVE BoundInv'
  <2>1. PICK S \in SUBSET Ids :
          /\ decision' = [i \in Ids |-> IF i \in S THEN NoDecision
                                        ELSE decision[i]]
          /\ approval' = [i \in Ids |-> IF i \in S THEN NoApproval
                                        ELSE ExpireStale(Ids)[i]]
    BY <1>11 DEF PurgeRetained
  <2>2. \A i \in Ids : /\ i \in S => ~HasDecision(i)'
                       /\ i \notin S => decision'[i] = decision[i]
                                        /\ approval'[i] = ExpireStale(Ids)[i]
    BY <2>1 DEF HasDecision, NoDecision
  <2>3. UNCHANGED <<pc, job>>
    BY <1>11 DEF PurgeRetained
  <2> QED
    BY <1>a, <2>2, <2>3, ExpiryAnswersNothing, BoundStays
<1>12. CASE Tick \/ UNCHANGED vars
  BY <1>12, <1>b DEF Tick, vars
<1> QED
  BY <1>1, <1>2, <1>3, <1>4, <1>5, <1>6, <1>7, <1>8, <1>9, <1>10, <1>11, <1>12
     DEF Next, Handle, ReadApproval, ListApprovals

(* No interleaving of answers, retries, expiry, purge and crashes allows a *)
(* request under an approval that was given for another digest or policy,  *)
(* or by anyone but another person of the same tenant                      *)
(* (approval_grants_allow and resolve_approval, whose checks run in        *)
(* earlier sessions than the writes they protect).                         *)
THEOREM GrantIsBoundHolds == Spec => []GrantIsBound
<1>1. Init => UseInv /\ BoundInv
  BY UseInit, BoundInit
<1>2. UseInv /\ BoundInv /\ [Next]_vars => (UseInv /\ BoundInv)'
  BY UseNext, BoundNext
<1> QED
  BY <1>1, <1>2, BoundIsBound, PTL DEF Spec

-----------------------------------------------------------------------------
(* The audit table tells the truth.                                        *)

Trail(i) ==
    /\ HasApproval(i) => decision[i].verdict = "approval_required"
    /\ Count(i, "decision_recorded") = Once(HasDecision(i))
    /\ Count(i, "approval_created") = Once(HasApproval(i))
    /\ Count(i, "approval_consumed") = Once(approval[i].status = "consumed")
    /\ Count(i, "approval_approved") <=
         Once(approval[i].status \in {"approved", "consumed"})
    /\ Count(i, "approval_rejected") <= Once(approval[i].status = "rejected")

Telling(p, a) == pc[p] = "resolve_audit" /\ job[p].approval = a /\ HasDecision(a)

(* What handler p is about to tell is true and has not been told.          *)
TellsTruth(p) ==
    \A a \in Ids : Telling(p, a) =>
      /\ job[p].answer = "approved" => approval[a].status \in {"approved", "consumed"}
      /\ job[p].answer = "rejected" => approval[a].status = "rejected"
      /\ Count(a, "approval_approved") = 0
      /\ Count(a, "approval_rejected") = 0

AuditInv ==
    /\ \A i \in Ids : Trail(i)
    /\ \A p \in Procs : TellsTruth(p)
    /\ \A p, q \in Procs, a \in Ids : Telling(p, a) /\ Telling(q, a) => p = q

LEMMA AuditInit == Init => AuditInv
<1> SUFFICES ASSUME Init PROVE AuditInv
  OBVIOUS
<1>1. \A i \in Ids : Trail(i)
  BY DEF Init, Trail, HasApproval, HasDecision, Count, Once, NoDecision,
         NoApproval, NoEvents, AuditKinds
<1> QED
  BY <1>1 DEF Init, AuditInv, TellsTruth, Telling

(* Appending an event counts that one and no other. *)
LEMMA AddEventCounts ==
  ASSUME NEW log \in [AuditKinds -> Nat], NEW kind \in AuditKinds
  PROVE  \A k \in AuditKinds :
           AddEvent(log, kind)[k] = IF k = kind THEN log[k] + 1 ELSE log[k]
  BY DEF AddEvent

(* A row that is kept, but for its expiry, or that is gone.                *)
KeptOrGone(i) ==
    \/ /\ decision'[i] = decision[i] /\ audit'[i] = audit[i]
       /\ \/ approval'[i].status = approval[i].status
          \/ approval[i].status = "pending" /\ approval'[i].status = "expired"
    \/ /\ ~HasDecision(i)' /\ ~HasApproval(i)' /\ audit'[i] = NoEvents

LEMMA TrailKept ==
  ASSUME TypeOK, NEW i \in Ids, Trail(i), KeptOrGone(i)
  PROVE  Trail(i)'
<1>1. CASE /\ decision'[i] = decision[i] /\ audit'[i] = audit[i]
           /\ approval'[i].status = approval[i].status
  BY <1>1 DEF Trail, HasApproval, HasDecision, Count, Once
<1>2. CASE /\ decision'[i] = decision[i] /\ audit'[i] = audit[i]
           /\ approval[i].status = "pending" /\ approval'[i].status = "expired"
  BY <1>2 DEF Trail, HasApproval, HasDecision, Count, Once
<1>3. CASE ~HasDecision(i)' /\ ~HasApproval(i)' /\ audit'[i] = NoEvents
  BY <1>3 DEF Trail, HasApproval, HasDecision, Count, Once, NoEvents, AuditKinds
<1> QED
  BY <1>1, <1>2, <1>3 DEF KeptOrGone

(* A step after which nobody is about to tell what nobody was about to     *)
(* tell before.                                                            *)
LEMMA AuditStays ==
  ASSUME TypeOK, AuditInv, \A i \in Ids : KeptOrGone(i),
         \A p \in Procs : \/ pc'[p] # "resolve_audit"
                          \/ pc'[p] = pc[p] /\ job'[p] = job[p]
  PROVE  AuditInv'
<1>1. \A i \in Ids : Trail(i)'
  BY TrailKept DEF AuditInv
<1>2. ASSUME NEW p \in Procs, NEW a \in Ids, Telling(p, a)'
      PROVE  /\ Telling(p, a) /\ job'[p] = job[p]
             /\ decision'[a] = decision[a] /\ audit'[a] = audit[a]
             /\ \/ approval'[a].status = approval[a].status
                \/ approval[a].status = "pending" /\ approval'[a].status = "expired"
  <2>1. pc'[p] = pc[p] /\ job'[p] = job[p] /\ HasDecision(a)'
    BY <1>2 DEF Telling
  <2>2. /\ decision'[a] = decision[a] /\ audit'[a] = audit[a]
        /\ \/ approval'[a].status = approval[a].status
           \/ approval[a].status = "pending" /\ approval'[a].status = "expired"
    BY <2>1 DEF KeptOrGone
  <2> QED
    BY <1>2, <2>1, <2>2 DEF Telling, HasDecision
<1>3. ASSUME NEW p \in Procs, NEW a \in Ids, Telling(p, a)'
      PROVE  /\ job'[p].answer = "approved" =>
                  approval'[a].status \in {"approved", "consumed"}
             /\ job'[p].answer = "rejected" => approval'[a].status = "rejected"
             /\ audit'[a]["approval_approved"] = 0
             /\ audit'[a]["approval_rejected"] = 0
  <2>1. /\ Telling(p, a) /\ job'[p] = job[p] /\ audit'[a] = audit[a]
        /\ \/ approval'[a].status = approval[a].status
           \/ approval[a].status = "pending"
    BY <1>2, <1>3
  <2>2. job[p].answer \in {"approved", "rejected"}
    BY <2>1 DEF Telling, TypeOK
  <2> QED
    BY <2>1, <2>2 DEF AuditInv, TellsTruth, Count
<1>4. \A p \in Procs : TellsTruth(p)'
  BY <1>3 DEF TellsTruth, Count
<1>5. \A p, q \in Procs, a \in Ids : Telling(p, a)' /\ Telling(q, a)' => p = q
  BY <1>2 DEF AuditInv
<1> QED
  BY <1>1, <1>4, <1>5 DEF AuditInv

(* A step that touches the rows of a alone, not its decision, and tells    *)
(* nothing but through handler p.                                          *)
LEMMA AuditChanges ==
  ASSUME TypeOK, AuditInv, NEW a \in Ids, NEW p \in Procs,
         UNCHANGED decision, Trail(a)',
         \A i \in Ids \ {a} : audit'[i] = audit[i] /\ approval'[i] = approval[i],
         \A q \in Procs \ {p} : pc'[q] = pc[q] /\ job'[q] = job[q],
         \A b \in Ids : Telling(p, b)' => b = a /\ TellsTruth(p)',
         \A q \in Procs \ {p} : Telling(q, a) =>
           /\ ~Telling(p, a)'
           /\ approval[a].status = "approved" /\ approval'[a].status = "consumed"
           /\ \A k \in {"approval_approved", "approval_rejected"} :
                audit'[a][k] = audit[a][k]
  PROVE  AuditInv'
<1>1. ASSUME NEW i \in Ids PROVE Trail(i)'
  <2>1. CASE i # a
    BY <2>1, TrailKept DEF KeptOrGone, AuditInv
  <2> QED
    BY <2>1
<1>2. ASSUME NEW q \in Procs \ {p}, NEW b \in Ids
      PROVE  Telling(q, b)' <=> Telling(q, b)
  BY DEF Telling, HasDecision
<1>3. ASSUME NEW q \in Procs \ {p}, NEW b \in Ids, Telling(q, b)'
      PROVE  /\ job'[q].answer = "approved" =>
                  approval'[b].status \in {"approved", "consumed"}
             /\ job'[q].answer = "rejected" => approval'[b].status = "rejected"
             /\ audit'[b]["approval_approved"] = 0
             /\ audit'[b]["approval_rejected"] = 0
  <2>1. Telling(q, b) /\ job'[q] = job[q]
    BY <1>2, <1>3
  <2>2. /\ job[q].answer = "approved" => approval[b].status \in {"approved", "consumed"}
        /\ job[q].answer = "rejected" => approval[b].status = "rejected"
        /\ audit[b]["approval_approved"] = 0 /\ audit[b]["approval_rejected"] = 0
    BY <2>1 DEF AuditInv, TellsTruth, Count
  <2>3. CASE b = a
    BY <2>1, <2>2, <2>3
  <2>4. CASE b # a
    BY <2>1, <2>2, <2>4
  <2> QED
    BY <2>3, <2>4
<1>4. ASSUME NEW q \in Procs PROVE TellsTruth(q)'
  <2>1. CASE q = p
    BY <2>1 DEF TellsTruth
  <2>2. CASE q # p
    BY <1>3, <2>2 DEF TellsTruth, Count
  <2> QED
    BY <2>1, <2>2
<1>5. ASSUME NEW q \in Procs, NEW r \in Procs, NEW b \in Ids,
             Telling(q, b)', Telling(r, b)'
      PROVE  q = r
  <2>1. CASE q # p /\ r # p
    BY <1>2, <1>5, <2>1 DEF AuditInv
  <2>2. CASE q = p /\ r # p
    BY <1>2, <1>5, <2>2
  <2>3. CASE q # p /\ r = p
    BY <1>2, <1>5, <2>3
  <2> QED
    BY <2>1, <2>2, <2>3
<1> QED
  BY <1>1, <1>4, <1>5 DEF AuditInv

(* A decision under a fresh identifier, perhaps with its approval.         *)
LEMMA AuditInsert ==
  ASSUME TypeOK, AuditInv, NEW p \in Procs, NEW i \in Ids \ issued, NEW row,
         NEW opened, NEW events, Insert(i, row, opened, events), Finish(p),
         row.verdict # "none", opened.status \in {"none", "pending"},
         opened.status = "pending" => row.verdict = "approval_required",
         \A k \in AuditKinds : events[k] =
           IF k = "decision_recorded" THEN 1
           ELSE IF k = "approval_created" THEN Once(opened.status = "pending") ELSE 0
  PROVE  AuditInv'
<1>1. /\ decision'[i] = row /\ approval'[i] = opened /\ audit'[i] = events
      /\ \A a \in Ids \ {i} : /\ decision'[a] = decision[a]
                              /\ approval'[a] = approval[a] /\ audit'[a] = audit[a]
      /\ issued \subseteq Ids
  BY DEF TypeOK, Insert
<1>2. ASSUME NEW j \in Ids PROVE Trail(j)'
  <2>1. CASE j # i
    BY <1>1, <2>1, TrailKept DEF KeptOrGone, AuditInv
  <2>2. CASE j = i
    BY <1>1, <2>2 DEF Trail, HasApproval, HasDecision, Count, Once, AuditKinds
  <2> QED
    BY <2>1, <2>2
<1>3. ASSUME NEW q \in Procs, NEW a \in Ids, Telling(q, a)'
      PROVE  Telling(q, a) /\ job'[q] = job[q] /\ a # i
  <2>1. q # p /\ pc'[q] = pc[q] /\ job'[q] = job[q]
    BY <1>3 DEF Telling, TypeOK, Finish, Goto
  <2>2. a \in issued
    BY <1>3, <2>1 DEF Telling, TypeOK
  <2> QED
    BY <1>1, <1>3, <2>1, <2>2 DEF Telling, HasDecision
<1>4. ASSUME NEW q \in Procs PROVE TellsTruth(q)'
  BY <1>1, <1>3 DEF TellsTruth, AuditInv, Count
<1>5. \A q, r \in Procs, a \in Ids : Telling(q, a)' /\ Telling(r, a)' => q = r
  BY <1>3 DEF AuditInv
<1> QED
  BY <1>2, <1>4, <1>5 DEF AuditInv

(* Lazy expiry changes a status only from pending to expired. *)
LEMMA ExpiryOnlyExpires ==
  ASSUME TypeOK, NEW S, NEW i \in Ids
  PROVE  \/ ExpireStale(S)[i].status = approval[i].status
         \/ approval[i].status = "pending" /\ ExpireStale(S)[i].status = "expired"
<1>1. \/ ExpireStale(S)[i] = approval[i]
      \/ approval[i].status = "pending" /\ ExpireStale(S)[i].status = "expired"
  BY DEF TypeOK, ExpireStale, Stale, ApprovalRows
<1>2. PICK row : row = ExpireStale(S)[i]
  OBVIOUS
<1> QED
  BY <1>1, <1>2, Zenon

LEMMA AuditNext == UseInv /\ AuditInv /\ [Next]_vars => AuditInv'
<1> SUFFICES ASSUME UseInv, AuditInv, [Next]_vars PROVE AuditInv'
  OBVIOUS
<1>a. TypeOK
  BY DEF UseInv
<1>b. ASSUME UNCHANGED <<decision, approval, audit>>,
             \A p \in Procs : \/ pc'[p] # "resolve_audit"
                              \/ pc'[p] = pc[p] /\ job'[p] = job[p]
      PROVE  AuditInv'
  BY <1>a, <1>b, AuditStays DEF KeptOrGone
<1>c. ASSUME NEW S, approval' = ExpireStale(S), UNCHANGED <<decision, audit>>,
             \A p \in Procs : \/ pc'[p] # "resolve_audit"
                              \/ pc'[p] = pc[p] /\ job'[p] = job[p]
      PROVE  AuditInv'
  <2>1. \A i \in Ids : KeptOrGone(i)
    BY <1>a, <1>c, ExpiryOnlyExpires DEF KeptOrGone
  <2> QED
    BY <1>a, <1>c, <2>1, AuditStays
<1>d. ASSUME NEW p \in Procs, Finish(p)
      PROVE  /\ pc'[p] = "idle"
             /\ \A q \in Procs : q # p => pc'[q] = pc[q] /\ job'[q] = job[q]
  BY <1>a, <1>d DEF Finish, Goto, TypeOK
<1>1. ASSUME NEW p \in Procs, ReceiveEvaluate(p) \/ ReceiveResolve(p)
      PROVE  AuditInv'
  <2>1. PICK s \in {"evaluate", "lookup", "resolve"} : Goto(p, s)
    BY <1>1 DEF ReceiveEvaluate, ReceiveResolve, FirstStage
  <2>2. /\ UNCHANGED <<decision, approval, audit>>
        /\ \A q \in Procs : q # p => job'[q] = job[q]
    BY <1>1, <1>a DEF ReceiveEvaluate, ReceiveResolve, TypeOK
  <2> QED
    BY <1>a, <1>b, <2>1, <2>2, OthersStay
<1>2. ASSUME NEW p \in Procs, LookupApproval(p) PROVE AuditInv'
  <2>1. PICK s \in {"check", "evaluate"} : Goto(p, s)
    BY <1>2 DEF LookupApproval
  <2>2. /\ UNCHANGED <<decision, audit, job>>
        /\ approval' = ExpireStale({job[p].approval})
    BY <1>2 DEF LookupApproval
  <2> QED
    BY <1>a, <1>c, <2>1, <2>2, OthersStay
<1>3. ASSUME NEW p \in Procs, CheckBinding(p) PROVE AuditInv'
  <2>1. PICK s \in {"consume", "evaluate"} : Goto(p, s)
    BY <1>3 DEF CheckBinding
  <2>2. UNCHANGED <<decision, approval, audit, job>>
    BY <1>3 DEF CheckBinding
  <2> QED
    BY <1>a, <1>b, <2>1, <2>2, OthersStay
<1>4. ASSUME NEW p \in Procs, ConsumeApproval(p) PROVE AuditInv'
  <2>1. PICK a : a = job[p].approval
    OBVIOUS
  <2>2. /\ a \in Ids /\ UNCHANGED <<decision, job>>
        /\ approval \in [Ids -> ApprovalRows]
        /\ audit \in [Ids -> [AuditKinds -> Nat]]
    BY <1>4, <1>a, <2>1 DEF ConsumeApproval, TypeOK
  <2>3. CASE ~Consumable(approval[a])
    <3>1. /\ Goto(p, "evaluate") /\ UNCHANGED approval
          /\ audit' = [audit EXCEPT ![a] = audit[a]]
      BY <1>4, <2>1, <2>3 DEF ConsumeApproval, ConsumeEvent
    <3>2. UNCHANGED audit
      BY <2>2, <3>1
    <3> QED
      BY <1>a, <1>b, <2>2, <3>1, <3>2, OthersStay
  <2>4. CASE Consumable(approval[a])
    <3>1. PICK log : log = AddEvent(audit[a], "approval_consumed")
      OBVIOUS
    <3>2. /\ Goto(p, "grant")
          /\ approval' = [approval EXCEPT ![a] = [approval[a] EXCEPT
                             !.status = "consumed", !.used = TRUE]]
          /\ audit' = [audit EXCEPT ![a] = log]
      BY <1>4, <2>1, <2>4, <3>1 DEF ConsumeApproval, ConsumeEvent
    <3>3. /\ approval[a].status = "approved"
          /\ approval'[a].status = "consumed"
          /\ \A b \in Ids \ {a} : approval'[b] = approval[b]
      BY <2>2, <2>4, <3>2 DEF Consumable, ApprovalRows
    <3>4. /\ audit'[a] = log
          /\ \A b \in Ids \ {a} : audit'[b] = audit[b]
      BY <2>2, <3>2
    <3>5. \A k \in AuditKinds :
            log[k] = IF k = "approval_consumed" THEN audit[a][k] + 1
                     ELSE audit[a][k]
      BY <2>2, <3>1, AddEventCounts, KindsKnown
    <3>6. pc'[p] = "grant"
          /\ \A q \in Procs \ {p} : pc'[q] = pc[q] /\ job'[q] = job[q]
      BY <1>a, <2>2, <3>2, OthersStay
    <3>7. Trail(a)'
      BY <2>2, <3>3, <3>4, <3>5
      DEF AuditInv, Trail, HasApproval, HasDecision, Count, Once, AuditKinds
    <3>8. \A b \in Ids : ~Telling(p, b)'
      BY <3>6 DEF Telling
    <3>9. \A k \in {"approval_approved", "approval_rejected"} :
            audit'[a][k] = audit[a][k]
      BY <3>4, <3>5 DEF AuditKinds
    <3> QED
      BY <1>a, <2>2, <3>3, <3>4, <3>6, <3>7, <3>8, <3>9, AuditChanges
  <2> QED
    BY <2>3, <2>4
<1>5. ASSUME NEW p \in Procs, PersistGrant(p) PROVE AuditInv'
  <2>1. PICK i \in Ids \ issued, caps \in CapPins :
          Insert(i, Row(p, "allow", job[p].digest, job[p].policy, caps,
                        job[p].approval),
                 NoApproval, AddEvent(NoEvents, "decision_recorded"))
    BY <1>5 DEF PersistGrant
  <2>2. /\ Row(p, "allow", job[p].digest, job[p].policy, caps,
               job[p].approval).verdict # "none"
        /\ NoApproval.status = "none"
    BY DEF Row, NoApproval
  <2>3. \A k \in AuditKinds : AddEvent(NoEvents, "decision_recorded")[k] =
          IF k = "decision_recorded" THEN 1
          ELSE IF k = "approval_created" THEN Once(NoApproval.status = "pending")
          ELSE 0
    BY <2>2, EmptyRowsTyped, KindsKnown, AddEventCounts DEF NoEvents, Once
  <2>4. Finish(p)
    BY <1>5 DEF PersistGrant
  <2> QED
    BY <1>a, <2>1, <2>2, <2>3, <2>4, AuditInsert
<1>6. ASSUME NEW p \in Procs, PersistEvaluation(p) PROVE AuditInv'
  <2>1. PICK recorded : recorded = AddEvent(NoEvents, "decision_recorded")
    OBVIOUS
  <2>2. /\ recorded \in [AuditKinds -> Nat]
        /\ \A k \in AuditKinds :
             recorded[k] = IF k = "decision_recorded" THEN 1 ELSE 0
    BY <2>1, EmptyRowsTyped, KindsKnown, AddEventType, AddEventCounts DEF NoEvents
  <2>3. PICK both : both = AddEvent(recorded, "approval_created")
    OBVIOUS
  <2>4. \A k \in AuditKinds :
          both[k] = IF k \in {"decision_recorded", "approval_created"} THEN 1 ELSE 0
    BY <2>2, <2>3, KindsKnown, AddEventCounts
  <2>5. PICK i \in Ids \ issued, d \in Enriched(job[p].digest),
             v \in Verdicts, pol \in Policies, caps \in CapPins :
          IF v = "approval_required"
          THEN Insert(i, Row(p, v, d, pol, caps, None), Opened, both)
          ELSE Insert(i, Row(p, v, d, pol, caps, None), NoApproval, recorded)
    BY <1>6, <2>1, <2>3 DEF PersistEvaluation
  <2>6. PICK row : row = Row(p, v, d, pol, caps, None)
    OBVIOUS
  <2>7. row.verdict = v /\ v # "none"
    BY <2>6 DEF Row, Verdicts
  <2>8. Finish(p) /\ Opened.status = "pending" /\ NoApproval.status = "none"
    BY <1>6 DEF PersistEvaluation, Opened, NoApproval
  <2>9. CASE v = "approval_required"
    <3>1. \A k \in AuditKinds : both[k] =
            IF k = "decision_recorded" THEN 1
            ELSE IF k = "approval_created" THEN Once(Opened.status = "pending")
            ELSE 0
      BY <2>4, <2>8 DEF Once
    <3>2. Insert(i, row, Opened, both)
      BY <2>5, <2>6, <2>9
    <3> QED
      BY <1>a, <2>7, <2>8, <2>9, <3>1, <3>2, AuditInsert
  <2>10. CASE v # "approval_required"
    <3>1. \A k \in AuditKinds : recorded[k] =
            IF k = "decision_recorded" THEN 1
            ELSE IF k = "approval_created" THEN Once(NoApproval.status = "pending")
            ELSE 0
      BY <2>2, <2>8 DEF Once
    <3>2. Insert(i, row, NoApproval, recorded)
      BY <2>5, <2>6, <2>10
    <3> QED
      BY <1>a, <2>7, <2>8, <3>1, <3>2, AuditInsert
  <2> QED
    BY <2>9, <2>10
<1>7. ASSUME NEW p \in Procs, ResolveCheck(p) PROVE AuditInv'
  <2>1. UNCHANGED <<decision, audit>> /\ approval' = ExpireStale({job[p].approval})
    BY <1>7 DEF ResolveCheck
  <2>2. CASE Finish(p)
    BY <1>c, <1>d, <2>1, <2>2
  <2>3. CASE Goto(p, "resolve_write") /\ UNCHANGED job
    BY <1>a, <1>c, <2>1, <2>3, OthersStay
  <2> QED
    BY <1>7, <2>2, <2>3 DEF ResolveCheck
<1>8. ASSUME NEW p \in Procs, ResolveWrite(p) PROVE AuditInv'
  <2>1. PICK a : a = job[p].approval
    OBVIOUS
  <2>2. /\ a \in Ids /\ UNCHANGED <<decision, audit>>
        /\ job[p].answer \in {"approved", "rejected"}
        /\ approval \in [Ids -> ApprovalRows]
    BY <1>8, <1>a, <2>1 DEF ResolveWrite, TypeOK
  <2>3. CASE ~StillPending(approval[a])
    BY <1>8, <1>b, <1>d, <2>1, <2>2, <2>3 DEF ResolveWrite
  <2>4. CASE StillPending(approval[a])
    <3>1. /\ Goto(p, "resolve_audit") /\ UNCHANGED job
          /\ approval' = [approval EXCEPT ![a] = [approval[a] EXCEPT
                             !.status = job[p].answer, !.reviewer = job[p].who]]
      BY <1>8, <2>1, <2>4 DEF ResolveWrite
    <3>2. /\ approval[a].status = "pending"
          /\ approval'[a].status = job[p].answer
          /\ \A b \in Ids \ {a} : approval'[b] = approval[b]
      BY <2>2, <2>4, <3>1 DEF StillPending, ApprovalRows
    <3>3. pc'[p] = "resolve_audit" /\ job' = job
          /\ \A q \in Procs \ {p} : pc'[q] = pc[q] /\ job'[q] = job[q]
      BY <1>a, <3>1, OthersStay
    <3>4. Trail(a) /\ audit \in [Ids -> [AuditKinds -> Nat]]
      BY <1>a, <2>2 DEF AuditInv, TypeOK
    <3>5. /\ audit[a]["approval_approved"] = 0
          /\ audit[a]["approval_rejected"] = 0
      BY <2>2, <3>2, <3>4 DEF Trail, Count, Once, AuditKinds
    <3>6. Trail(a)'
      BY <2>2, <3>2, <3>4, <3>5 DEF Trail, HasApproval, HasDecision, Count, Once
    <3>7. \A b \in Ids : Telling(p, b)' => b = a
      BY <2>1, <3>3 DEF Telling
    <3>8. TellsTruth(p)'
      BY <2>2, <3>2, <3>3, <3>5, <3>7 DEF TellsTruth, Count
    <3>9. ASSUME NEW q \in Procs \ {p} PROVE ~Telling(q, a)
      BY <1>a, <2>2, <3>2 DEF AuditInv, TellsTruth, Telling, TypeOK
    <3> QED
      BY <1>a, <2>2, <3>2, <3>3, <3>6, <3>7, <3>8, <3>9, AuditChanges
  <2> QED
    BY <2>3, <2>4
<1>9. ASSUME NEW p \in Procs, AuditResolution(p) PROVE AuditInv'
  <2>1. PICK a : a = job[p].approval
    OBVIOUS
  <2>2. /\ a \in Ids /\ UNCHANGED <<decision, approval>> /\ Finish(p)
        /\ pc[p] = "resolve_audit" /\ job[p].answer \in {"approved", "rejected"}
        /\ audit \in [Ids -> [AuditKinds -> Nat]]
    BY <1>9, <1>a, <2>1 DEF AuditResolution, TypeOK
  <2>3. CASE ~HasDecision(a)
    BY <1>9, <1>b, <1>d, <2>1, <2>2, <2>3 DEF AuditResolution
  <2>4. CASE HasDecision(a)
    <3>1. Telling(p, a)
      BY <2>1, <2>2, <2>4 DEF Telling
    <3>2. PICK kind \in AuditKinds : kind = AnswerEvent(job[p].answer)
      BY KindsKnown
    <3>3. PICK log : log = AddEvent(audit[a], kind)
      OBVIOUS
    <3>4. audit' = [audit EXCEPT ![a] = log]
      BY <1>9, <2>1, <2>4, <3>2, <3>3 DEF AuditResolution
    <3>5. /\ audit'[a] = log
          /\ \A b \in Ids \ {a} : audit'[b] = audit[b]
      BY <2>2, <3>4
    <3>6. \A k \in AuditKinds :
            log[k] = IF k = kind THEN audit[a][k] + 1 ELSE audit[a][k]
      BY <2>2, <3>3, AddEventCounts
    <3>7. /\ kind = "approval_approved" =>
               approval[a].status \in {"approved", "consumed"}
          /\ kind = "approval_rejected" => approval[a].status = "rejected"
          /\ kind \in {"approval_approved", "approval_rejected"}
          /\ audit[a]["approval_approved"] = 0 /\ audit[a]["approval_rejected"] = 0
      BY <2>2, <3>1, <3>2 DEF AuditInv, TellsTruth, Count, AnswerEvent
    <3>8. Trail(a) /\ audit[a] \in [AuditKinds -> Nat]
      BY <2>2 DEF AuditInv
    <3>9. Trail(a)'
      BY <2>2, <3>5, <3>6, <3>7, <3>8
      DEF Trail, HasApproval, HasDecision, Count, Once, AuditKinds
    <3>10. /\ \A b \in Ids : ~Telling(p, b)'
           /\ \A q \in Procs \ {p} : pc'[q] = pc[q] /\ job'[q] = job[q]
      BY <1>d, <2>2 DEF Telling
    <3>11. ASSUME NEW q \in Procs \ {p} PROVE ~Telling(q, a)
      BY <2>2, <3>1 DEF AuditInv
    <3> QED
      BY <1>a, <2>2, <3>5, <3>9, <3>10, <3>11, AuditChanges
  <2> QED
    BY <2>3, <2>4
<1>10. ASSUME NEW p \in Procs, Crash(p) PROVE AuditInv'
  BY <1>10, <1>b, <1>d DEF Crash
<1>11. ASSUME NEW S, approval' = ExpireStale(S),
              UNCHANGED <<decision, audit, pc, job>>
       PROVE  AuditInv'
  BY <1>11, <1>c
<1>12. ASSUME NEW dryRun \in BOOLEAN, PurgeRetained(dryRun) PROVE AuditInv'
  <2>1. PICK S \in SUBSET Ids :
          /\ decision' = [i \in Ids |-> IF i \in S THEN NoDecision
                                        ELSE decision[i]]
          /\ approval' = [i \in Ids |-> IF i \in S THEN NoApproval
                                        ELSE ExpireStale(Ids)[i]]
          /\ audit' = [i \in Ids |-> IF i \in S THEN NoEvents ELSE audit[i]]
    BY <1>12 DEF PurgeRetained
  <2>2. ASSUME NEW i \in Ids, i \in S PROVE KeptOrGone(i)
    BY <2>1, <2>2 DEF KeptOrGone, HasDecision, HasApproval, NoDecision, NoApproval
  <2>3. ASSUME NEW i \in Ids, i \notin S PROVE KeptOrGone(i)
    <3>1. /\ decision'[i] = decision[i] /\ audit'[i] = audit[i]
          /\ approval'[i] = ExpireStale(Ids)[i]
      BY <2>1, <2>3
    <3> QED
      BY <1>a, <3>1, ExpiryOnlyExpires DEF KeptOrGone
  <2>4. UNCHANGED <<pc, job>>
    BY <1>12 DEF PurgeRetained
  <2> QED
    BY <1>a, <2>2, <2>3, <2>4, AuditStays
<1>13. CASE Tick \/ UNCHANGED vars
  BY <1>13, <1>b DEF Tick, vars
<1> QED
  BY <1>1, <1>2, <1>3, <1>4, <1>5, <1>6, <1>7, <1>8, <1>9, <1>10, <1>11, <1>12,
     <1>13 DEF Next, Handle, ReadApproval, ListApprovals

LEMMA AuditIsTrail ==
  ASSUME AuditInv
  PROVE  AuditTrail
  BY DEF AuditInv, Trail, AuditTrail

(* Whatever handlers, purges and crashes come in between, the audit table  *)
(* tells the truth about the decisions and approvals it accompanies        *)
(* (persist_evaluation and consume_approval, which write rows and events   *)
(* in one transaction, approve_request and reject_request, which write     *)
(* the event of an answer in a second one, and purge_retained, which       *)
(* deletes from all three tables).                                         *)
THEOREM AuditTrailHolds == Spec => []AuditTrail
<1>1. Init => UseInv /\ AuditInv
  BY UseInit, AuditInit
<1>2. UseInv /\ AuditInv /\ [Next]_vars => (UseInv /\ AuditInv)'
  BY UseNext, AuditNext
<1> QED
  BY <1>1, <1>2, AuditIsTrail, PTL DEF Spec

-----------------------------------------------------------------------------
(* An answer is final.                                                     *)

(* All that a step can do to the approval of a.                            *)
MovesOn(a) ==
    \/ approval'[a] = approval[a]
    \/ /\ <<approval[a].status, approval'[a].status>> \in
            {<<"pending", "expired">>, <<"approved", "consumed">>}
       /\ approval'[a].reviewer = approval[a].reviewer
    \/ /\ approval[a].status = "pending"
       /\ approval'[a].status \in {"approved", "rejected"}
    \/ a \notin issued /\ approval'[a].reviewer = None
    \/ approval'[a] = NoApproval

LEMMA ExpiryMovesOn ==
  ASSUME TypeOK, NEW S, NEW a \in Ids, approval'[a] = ExpireStale(S)[a]
  PROVE  MovesOn(a)
<1>1. CASE a \in S /\ Stale(a)
  <2>1. approval'[a] = [approval[a] EXCEPT !.status = "expired"]
    BY <1>1 DEF ExpireStale
  <2>2. approval[a] \in ApprovalRows /\ approval[a].status = "pending"
    BY <1>1 DEF TypeOK, Stale
  <2>3. /\ approval'[a].status = "expired"
        /\ approval'[a].reviewer = approval[a].reviewer
    BY <2>1, <2>2 DEF ApprovalRows
  <2> QED
    BY <2>2, <2>3 DEF MovesOn
<1>2. CASE ~(a \in S /\ Stale(a))
  BY <1>2 DEF ExpireStale, MovesOn
<1> QED
  BY <1>1, <1>2

LEMMA EveryStepMovesOn ==
  ASSUME UseInv, [Next]_vars
  PROVE  \A a \in Ids : MovesOn(a)
<1> SUFFICES ASSUME NEW a \in Ids PROVE MovesOn(a)
  OBVIOUS
<1>a. TypeOK
  BY DEF UseInv
<1>b. CASE UNCHANGED approval
  BY <1>b DEF MovesOn
<1>c. ASSUME NEW S, approval' = ExpireStale(S) PROVE MovesOn(a)
  BY <1>a, <1>c, ExpiryMovesOn
<1>1. ASSUME NEW p \in Procs, ConsumeApproval(p) PROVE MovesOn(a)
  <2>1. PICK b : b = job[p].approval
    OBVIOUS
  <2>2. b \in Ids /\ approval[b] \in ApprovalRows /\ approval \in [Ids -> ApprovalRows]
    BY <1>1, <1>a, <2>1 DEF ConsumeApproval, TypeOK
  <2>3. CASE ~Consumable(approval[b])
    BY <1>1, <1>b, <2>1, <2>3 DEF ConsumeApproval
  <2>4. CASE Consumable(approval[b])
    <3>1. approval' = [approval EXCEPT ![b] = [approval[b] EXCEPT
                          !.status = "consumed", !.used = TRUE]]
      BY <1>1, <2>1, <2>4 DEF ConsumeApproval
    <3>2. CASE a # b
      BY <2>2, <3>1, <3>2 DEF MovesOn
    <3>3. CASE a = b
      <4>1. /\ approval[a].status = "approved"
            /\ approval'[a].status = "consumed"
            /\ approval'[a].reviewer = approval[a].reviewer
        BY <2>2, <2>4, <3>1, <3>3 DEF Consumable, ApprovalRows
      <4> QED
        BY <4>1 DEF MovesOn
    <3> QED
      BY <3>2, <3>3
  <2> QED
    BY <2>3, <2>4
<1>2. ASSUME NEW p \in Procs, NEW i \in Ids \ issued, NEW row, NEW opened, NEW events,
             Insert(i, row, opened, events), opened.reviewer = None
      PROVE  MovesOn(a)
  BY <1>2, <1>a DEF Insert, TypeOK, MovesOn
<1>3. NoApproval.reviewer = None /\ Opened.reviewer = None
  BY DEF Opened, NoApproval
<1>4. ASSUME NEW p \in Procs, PersistGrant(p) PROVE MovesOn(a)
  <2>1. PICK i, row, events : i \in Ids \ issued /\ Insert(i, row, NoApproval, events)
    BY <1>4 DEF PersistGrant
  <2> QED
    BY <1>2, <1>3, <2>1
<1>5. ASSUME NEW p \in Procs, PersistEvaluation(p) PROVE MovesOn(a)
  <2>1. PICK i \in Ids \ issued, d \in Enriched(job[p].digest),
             v \in Verdicts, pol \in Policies, caps \in CapPins :
          \E opened, events :
            /\ opened \in {Opened, NoApproval}
            /\ Insert(i, Row(p, v, d, pol, caps, None), opened, events)
    BY <1>5 DEF PersistEvaluation
  <2> QED
    BY <1>2, <1>3, <2>1
<1>6. ASSUME NEW p \in Procs, ResolveWrite(p) PROVE MovesOn(a)
  <2>1. PICK b : b = job[p].approval
    OBVIOUS
  <2>2. /\ b \in Ids /\ approval[b] \in ApprovalRows
        /\ approval \in [Ids -> ApprovalRows]
        /\ job[p].answer \in {"approved", "rejected"}
    BY <1>6, <1>a, <2>1 DEF ResolveWrite, TypeOK
  <2>3. CASE ~StillPending(approval[b])
    BY <1>6, <1>b, <2>1, <2>3 DEF ResolveWrite
  <2>4. CASE StillPending(approval[b])
    <3>1. approval' = [approval EXCEPT ![b] = [approval[b] EXCEPT
                          !.status = job[p].answer, !.reviewer = job[p].who]]
      BY <1>6, <2>1, <2>4 DEF ResolveWrite
    <3>2. CASE a # b
      BY <2>2, <3>1, <3>2 DEF MovesOn
    <3>3. CASE a = b
      <4>1. approval[a].status = "pending" /\ approval'[a].status = job[p].answer
        BY <2>2, <2>4, <3>1, <3>3 DEF StillPending, ApprovalRows
      <4> QED
        BY <2>2, <4>1 DEF MovesOn
    <3> QED
      BY <3>2, <3>3
  <2> QED
    BY <2>3, <2>4
<1>7. ASSUME NEW dryRun \in BOOLEAN, PurgeRetained(dryRun) PROVE MovesOn(a)
  <2>1. PICK S \in SUBSET Ids :
          approval' = [i \in Ids |-> IF i \in S THEN NoApproval
                                     ELSE ExpireStale(Ids)[i]]
    BY <1>7 DEF PurgeRetained
  <2>2. CASE a \in S
    BY <2>1, <2>2 DEF MovesOn
  <2>3. CASE a \notin S
    <3>1. approval'[a] = ExpireStale(Ids)[a]
      BY <2>1, <2>3
    <3> QED
      BY <1>a, <3>1, ExpiryMovesOn
  <2> QED
    BY <2>2, <2>3
<1>8. ASSUME NEW p \in Procs, LookupApproval(p) \/ ResolveCheck(p) PROVE MovesOn(a)
  BY <1>8, <1>c DEF LookupApproval, ResolveCheck
<1>9. ASSUME NEW p \in Procs,
             \/ ReceiveEvaluate(p) \/ CheckBinding(p) \/ ReceiveResolve(p)
             \/ AuditResolution(p) \/ Crash(p)
      PROVE  MovesOn(a)
  BY <1>9, <1>b
     DEF ReceiveEvaluate, CheckBinding, ReceiveResolve, AuditResolution, Crash
<1>10. CASE Tick \/ UNCHANGED vars
  BY <1>10, <1>b DEF Tick, vars
<1> QED
  BY <1>1, <1>4, <1>5, <1>6, <1>7, <1>8, <1>9, <1>10, <1>c
     DEF Next, Handle, ReadApproval, ListApprovals

(* Nobody has answered what is still pending. *)
NotYetAnswered ==
    \A a \in Ids : approval[a].status = "pending" => approval[a].reviewer = None

FinalInv == UseInv /\ NotYetAnswered

LEMMA FinalInit == Init => FinalInv
  BY UseInit DEF FinalInv, NotYetAnswered, Init, NoApproval

LEMMA FinalNext == FinalInv /\ [Next]_vars => FinalInv'
<1> SUFFICES ASSUME FinalInv, [Next]_vars PROVE FinalInv'
  OBVIOUS
<1>1. UseInv /\ UseInv' /\ \A a \in Ids : MovesOn(a)
  BY UseNext, EveryStepMovesOn DEF FinalInv
<1>2. ASSUME NEW a \in Ids, approval'[a].status = "pending"
      PROVE  approval'[a].reviewer = None
  BY <1>1, <1>2 DEF FinalInv, NotYetAnswered, MovesOn, NoApproval
<1> QED
  BY <1>1, <1>2 DEF FinalInv, NotYetAnswered

(* A step gives no approval to an identifier that was used before. *)
LEMMA UsedStaysUsed ==
  ASSUME UseInv, [Next]_vars, NEW a \in issued, ~HasApproval(a)
  PROVE  ~HasApproval(a)'
<1>1. a \in Ids /\ MovesOn(a) /\ approval[a].status = "none"
  BY EveryStepMovesOn DEF UseInv, TypeOK, HasApproval
<1> QED
  BY <1>1 DEF MovesOn, HasApproval, NoApproval

(* Whatever interleaving of reviewers, retries, lazy expiry, purge and     *)
(* crashes: an approval moves along its life cycle only, its reviewer is   *)
(* never replaced, and a used identifier is given no new approval          *)
(* (resolve_approval's and consume_approval's conditional updates against  *)
(* _expire_if_needed, _expire_stale and purge_retained).                   *)
THEOREM AnswerIsFinalHolds == Spec => AnswerIsFinal
<1> DEFINE Final(a) ==
      /\ HasApproval(a) /\ HasApproval(a)' =>
           /\ \/ approval'[a].status = approval[a].status
              \/ <<approval[a].status, approval'[a].status>> \in Moves
           /\ approval[a].reviewer # None =>
                approval'[a].reviewer = approval[a].reviewer
      /\ a \in issued /\ ~HasApproval(a) => ~HasApproval(a)'
<1>1. FinalInv /\ [Next]_vars => [\A a \in Ids : Final(a)]_vars
  <2> SUFFICES ASSUME FinalInv, [Next]_vars, NEW a \in Ids PROVE Final(a)
    OBVIOUS
  <2>1. UseInv /\ MovesOn(a)
    BY EveryStepMovesOn DEF FinalInv
  <2>2. HasApproval(a) => a \in issued
    BY <2>1 DEF UseInv, Known
  <2>3. ASSUME HasApproval(a), HasApproval(a)'
        PROVE  /\ \/ approval'[a].status = approval[a].status
                  \/ <<approval[a].status, approval'[a].status>> \in Moves
               /\ approval[a].reviewer # None =>
                    approval'[a].reviewer = approval[a].reviewer
    BY <2>1, <2>2, <2>3
       DEF MovesOn, Moves, FinalInv, NotYetAnswered, HasApproval, NoApproval
  <2> QED
    BY <2>1, <2>3, UsedStaysUsed
<1>2. Spec => []FinalInv
  BY FinalInit, FinalNext, PTL DEF Spec
<1> QED
  BY <1>1, <1>2, PTL DEF Spec, AnswerIsFinal

-----------------------------------------------------------------------------
(* ApprovalLifecycle implements ApprovalContract.                          *)

Where(i) == IF HasApproval(i) THEN approval[i].status
            ELSE IF i \in issued THEN "gone" ELSE "none"
State == [i \in Ids |-> Where(i)]
Permits == {a \in Ids : \E p \in Procs : Holds(p, a)}
Allowed == {a \in Ids : \E i \in Ids : AllowedBy(i, a)}

LEMMA PromiseInit == Init => Promise!Init
  BY DEF Init, Promise!Init, HasApproval, Holds, AllowedBy, HasDecision,
         NoApproval, NoDecision

LEMMA PromiseStutters ==
  ASSUME State' = State, Permits' = Permits, Allowed' = Allowed
  PROVE  [Promise!Next]_(Promise!vars)
  BY DEF State, Where, Permits, Allowed, Promise!vars

LEMMA PromiseMoves ==
  ASSUME NEW a \in Ids, Permits' = Permits, Allowed' = Allowed,
         \A i \in Ids \ {a} : Where(i)' = Where(i),
         <<Where(a), Where(a)'>> \in
           {<<"none", "pending">>, <<"none", "gone">>,
            <<"pending", "approved">>, <<"pending", "rejected">>}
  PROVE  Promise!Next
<1>1. State' = [State EXCEPT ![a] = Where(a)'] /\ State[a] = Where(a)
  BY DEF State
<1>2. \/ Promise!Open(a) \/ Promise!Bypass(a) \/ Promise!Answer(a)
  BY <1>1 DEF Promise!Open, Promise!Bypass, Promise!Answer, Promise!Move, State,
     Where, Permits, Allowed
<1> QED
  BY <1>2 DEF Promise!Next

LEMMA PromiseRedeems ==
  ASSUME NEW a \in Ids, Permits' = Permits \cup {a}, Allowed' = Allowed,
         \A i \in Ids \ {a} : Where(i)' = Where(i),
         Where(a) = "approved", Where(a)' = "consumed"
  PROVE  Promise!Next
<1>1. State' = [State EXCEPT ![a] = "consumed"] /\ State[a] = "approved"
  BY DEF State
<1>2. Promise!Redeem(a)
  BY <1>1 DEF Promise!Redeem, Promise!Move, State, Where, Permits, Allowed
<1> QED
  BY <1>2 DEF Promise!Next

LEMMA PromiseRecords ==
  ASSUME NEW a \in Permits, NEW i \in Ids, Permits' = Permits \ {a},
         Allowed' = Allowed \cup {a},
         \A j \in Ids \ {i} : Where(j)' = Where(j),
         Where(i) = "none", Where(i)' = "gone"
  PROVE  Promise!Next
<1>1. State' = [State EXCEPT ![i] = "gone"] /\ State[i] = "none"
  BY DEF State
<1>2. Promise!Record(a, i) /\ a \in Ids
  BY <1>1 DEF Promise!Record, Promise!Move, State, Where, Permits, Allowed
<1> QED
  BY <1>2 DEF Promise!Next

LEMMA PromiseLoses ==
  ASSUME NEW a \in Permits, Permits' = Permits \ {a}, Allowed' = Allowed,
         State' = State
  PROVE  Promise!Next
<1>1. Promise!Lose(a) /\ a \in Ids
  BY DEF Promise!Lose, State, Where, Permits, Allowed
<1> QED
  BY <1>1 DEF Promise!Next

LEMMA PromiseCleans ==
  ASSUME NEW timedOut \in SUBSET Ids, NEW old \in SUBSET Ids,
         Permits' = Permits, Allowed' \subseteq Allowed,
         \A i \in timedOut : Where(i) = "pending",
         \A i \in old : Where(i) # "none",
         \A i \in Ids : Where(i)' = IF i \in old THEN "gone"
                                    ELSE IF i \in timedOut THEN "expired"
                                    ELSE Where(i)
  PROVE  Promise!Next
<1>1. PICK forgotten : forgotten = Allowed \ Allowed'
  OBVIOUS
<1>2. /\ forgotten \in SUBSET Ids /\ forgotten \subseteq Allowed
      /\ Allowed' = Allowed \ forgotten
  BY <1>1 DEF Allowed
<1>3. State' = [i \in Ids |-> IF i \in old THEN "gone"
                              ELSE IF i \in timedOut THEN "expired"
                              ELSE State[i]]
  BY DEF State
<1>4. /\ \A i \in timedOut : State[i] = "pending"
      /\ \A i \in old : State[i] # "none"
  BY DEF State
<1>5. Promise!Clean(timedOut, old, forgotten)
  BY <1>2, <1>3, <1>4 DEF Promise!Clean, State, Where, Permits, Allowed
<1> QED
  BY <1>2, <1>5 DEF Promise!Next

(* Nobody takes or gives up a permit. *)
LEMMA SamePermits ==
  ASSUME NEW p \in Procs, pc[p] # "grant", pc'[p] # "grant",
         \A q \in Procs : q # p => pc'[q] = pc[q] /\ job'[q] = job[q]
  PROVE  Permits' = Permits
<1>1. \A q \in Procs, a \in Ids : Holds(q, a)' <=> Holds(q, a)
  BY DEF Holds
<1> QED
  BY <1>1 DEF Permits

LEMMA SameAllowed ==
  ASSUME decision' = decision
  PROVE  Allowed' = Allowed
  BY DEF Allowed, AllowedBy, HasDecision

LEMMA FinishGoes ==
  ASSUME TypeOK, NEW p \in Procs, Finish(p)
  PROVE  /\ pc'[p] = "idle"
         /\ \A q \in Procs : q # p => pc'[q] = pc[q] /\ job'[q] = job[q]
  BY DEF Finish, Goto, TypeOK

LEMMA ExpiryCleans ==
  ASSUME TypeOK, NEW S, approval' = ExpireStale(S), UNCHANGED <<issued, decision>>,
         Permits' = Permits
  PROVE  Promise!Next
<1>1. PICK timedOut \in SUBSET Ids :
        timedOut = {i \in Ids : i \in S /\ Stale(i)}
  OBVIOUS
<1>2. ASSUME NEW i \in timedOut
      PROVE  Where(i) = "pending" /\ Where(i)' = "expired"
  <2>1. /\ approval[i].status = "pending" /\ approval[i] \in ApprovalRows
        /\ approval'[i] = [approval[i] EXCEPT !.status = "expired"]
    BY <1>1 DEF ExpireStale, Stale, TypeOK
  <2>2. approval'[i].status = "expired"
    BY <2>1 DEF ApprovalRows
  <2> QED
    BY <2>1, <2>2 DEF Where, HasApproval
<1>3. ASSUME NEW i \in Ids \ timedOut PROVE Where(i)' = Where(i)
  <2>1. approval'[i] = approval[i]
    BY <1>1, <1>3 DEF ExpireStale
  <2> QED
    BY <2>1 DEF Where, HasApproval
<1>4. Allowed' \subseteq Allowed
  BY SameAllowed
<1>5. PICK old \in SUBSET Ids : old = {}
  OBVIOUS
<1>6. \A i \in Ids : Where(i)' = IF i \in old THEN "gone"
                                 ELSE IF i \in timedOut THEN "expired" ELSE Where(i)
  BY <1>2, <1>3, <1>5
<1>7. /\ \A i \in timedOut : Where(i) = "pending"
      /\ \A i \in old : Where(i) # "none"
  BY <1>2, <1>5
<1> QED
  BY <1>4, <1>6, <1>7, PromiseCleans

(* A fresh row that is no approval that was granted. *)
LEMMA FreshWhere ==
  ASSUME UseInv, NEW i \in Ids \ issued, NEW row, NEW opened, NEW events,
         Insert(i, row, opened, events), opened.status \in {"none", "pending"}
  PROVE  /\ Where(i) = "none"
         /\ Where(i)' = IF opened.status = "none" THEN "gone" ELSE "pending"
         /\ \A j \in Ids \ {i} : Where(j)' = Where(j)
<1>1. /\ approval'[i] = opened /\ issued' = issued \cup {i}
      /\ \A j \in Ids \ {i} : approval'[j] = approval[j]
      /\ ~HasApproval(i)
  BY DEF UseInv, Known, TypeOK, Insert
<1> QED
  BY <1>1 DEF Where, HasApproval

LEMMA FreshAllows ==
  ASSUME UseInv, NEW i \in Ids \ issued, NEW row, NEW opened, NEW events,
         Insert(i, row, opened, events), row.verdict # "none"
  PROVE  Allowed' = Allowed \cup ({row.via} \cap Ids)
<1>1. /\ decision'[i] = row /\ ~HasDecision(i)
      /\ \A j \in Ids \ {i} : decision'[j] = decision[j]
  BY DEF UseInv, Known, TypeOK, Insert
<1>2. \A j, a \in Ids : AllowedBy(j, a)' <=>
        (AllowedBy(j, a) \/ (j = i /\ a = row.via))
  BY <1>1 DEF AllowedBy, HasDecision
<1> QED
  BY <1>2 DEF Allowed

LEMMA PromiseNext ==
  ASSUME UseInv, [Next]_vars
  PROVE  [Promise!Next]_(Promise!vars)
<1>a. TypeOK
  BY DEF UseInv
<1>b. ASSUME UNCHANGED <<issued, decision, approval>>, Permits' = Permits
      PROVE  [Promise!Next]_(Promise!vars)
  <2>1. State' = State
    BY <1>b DEF State, Where, HasApproval
  <2> QED
    BY <1>b, <2>1, SameAllowed, PromiseStutters
<1>1. ASSUME NEW p \in Procs, ReceiveEvaluate(p) \/ ReceiveResolve(p)
      PROVE  [Promise!Next]_(Promise!vars)
  <2>1. PICK s \in {"evaluate", "lookup", "resolve"} : Goto(p, s)
    BY <1>1 DEF ReceiveEvaluate, ReceiveResolve, FirstStage
  <2>2. /\ UNCHANGED <<issued, decision, approval>> /\ pc[p] = "idle"
        /\ \A q \in Procs : q # p => job'[q] = job[q]
    BY <1>1, <1>a DEF ReceiveEvaluate, ReceiveResolve, TypeOK
  <2> QED
    BY <1>a, <1>b, <2>1, <2>2, OthersStay, SamePermits
<1>2. ASSUME NEW p \in Procs, LookupApproval(p) PROVE Promise!Next
  <2>1. PICK s \in {"check", "evaluate"} : Goto(p, s)
    BY <1>2 DEF LookupApproval
  <2>2. /\ UNCHANGED <<issued, decision, job>> /\ pc[p] = "lookup"
        /\ approval' = ExpireStale({job[p].approval})
    BY <1>2 DEF LookupApproval
  <2> QED
    BY <1>a, <2>1, <2>2, OthersStay, SamePermits, ExpiryCleans
<1>3. ASSUME NEW p \in Procs, CheckBinding(p) PROVE [Promise!Next]_(Promise!vars)
  <2>1. PICK s \in {"consume", "evaluate"} : Goto(p, s)
    BY <1>3 DEF CheckBinding
  <2>2. UNCHANGED <<issued, decision, approval, job>> /\ pc[p] = "check"
    BY <1>3 DEF CheckBinding
  <2> QED
    BY <1>a, <1>b, <2>1, <2>2, OthersStay, SamePermits
<1>4. ASSUME NEW p \in Procs, ConsumeApproval(p)
      PROVE  [Promise!Next]_(Promise!vars)
  <2>1. PICK a : a = job[p].approval
    OBVIOUS
  <2>2. /\ a \in Ids /\ UNCHANGED <<issued, decision, job>> /\ pc[p] = "consume"
        /\ approval \in [Ids -> ApprovalRows]
    BY <1>4, <1>a, <2>1 DEF ConsumeApproval, TypeOK
  <2>3. CASE ~Consumable(approval[a])
    <3>1. Goto(p, "evaluate") /\ UNCHANGED approval
      BY <1>4, <2>1, <2>3 DEF ConsumeApproval
    <3> QED
      BY <1>a, <1>b, <2>2, <3>1, OthersStay, SamePermits
  <2>4. CASE Consumable(approval[a])
    <3>1. /\ Goto(p, "grant")
          /\ approval' = [approval EXCEPT ![a] = [approval[a] EXCEPT
                             !.status = "consumed", !.used = TRUE]]
      BY <1>4, <2>1, <2>4 DEF ConsumeApproval
    <3>2. /\ approval[a].status = "approved"
          /\ approval'[a].status = "consumed"
          /\ \A b \in Ids \ {a} : approval'[b] = approval[b]
      BY <2>2, <2>4, <3>1 DEF Consumable, ApprovalRows
    <3>3. /\ Where(a) = "approved" /\ Where(a)' = "consumed"
          /\ \A b \in Ids \ {a} : Where(b)' = Where(b)
      BY <2>2, <3>2 DEF Where, HasApproval
    <3>4. pc'[p] = "grant"
          /\ \A q \in Procs : q # p => pc'[q] = pc[q] /\ job'[q] = job[q]
      BY <1>a, <2>2, <3>1, OthersStay
    <3>5. \A q \in Procs, b \in Ids :
            Holds(q, b)' <=> Holds(q, b) \/ (q = p /\ b = a)
      BY <2>1, <2>2, <3>4 DEF Holds
    <3>6. Permits' = Permits \cup {a}
      BY <2>2, <3>5 DEF Permits
    <3> QED
      BY <2>2, <3>3, <3>6, SameAllowed, PromiseRedeems
  <2> QED
    BY <2>3, <2>4
<1>5. ASSUME NEW p \in Procs, PersistGrant(p) PROVE Promise!Next
  <2>1. PICK a : a = job[p].approval
    OBVIOUS
  <2>2. PICK i \in Ids \ issued, caps \in CapPins :
          Insert(i, Row(p, "allow", job[p].digest, job[p].policy, caps, a),
                 NoApproval, AddEvent(NoEvents, "decision_recorded"))
    BY <1>5, <2>1 DEF PersistGrant
  <2>3. PICK row : row = Row(p, "allow", job[p].digest, job[p].policy, caps, a)
    OBVIOUS
  <2>4. row.verdict # "none" /\ row.via = a /\ NoApproval.status = "none"
    BY <2>3 DEF Row, NoApproval
  <2>5. a \in Ids /\ Holds(p, a) /\ Finish(p)
    BY <1>5, <1>a, <2>1 DEF PersistGrant, TypeOK, Holds
  <2>6. /\ \A q \in Procs : Holds(q, a) => q = p
        /\ \A b \in Ids : Holds(p, b) => b = a
    BY <2>5 DEF UseInv, OneTimeUse, Holds
  <2>7. \A q \in Procs, b \in Ids : Holds(q, b)' <=> Holds(q, b) /\ q # p
    BY <1>a, <2>5, FinishGoes DEF Holds
  <2>8. Permits' = Permits \ {a} /\ a \in Permits
    BY <2>5, <2>6, <2>7 DEF Permits
  <2>9. Allowed' = Allowed \cup {a}
    BY <2>2, <2>3, <2>4, <2>5, FreshAllows
  <2>10. /\ Where(i) = "none" /\ Where(i)' = "gone"
         /\ \A j \in Ids \ {i} : Where(j)' = Where(j)
    BY <2>2, <2>4, FreshWhere
  <2> QED
    BY <2>8, <2>9, <2>10, PromiseRecords
<1>6. ASSUME NEW p \in Procs, PersistEvaluation(p) PROVE Promise!Next
  <2>1. PICK i \in Ids \ issued, d \in Enriched(job[p].digest),
             v \in Verdicts, pol \in Policies, caps \in CapPins :
          \E opened, events :
            /\ opened \in {Opened, NoApproval}
            /\ Insert(i, Row(p, v, d, pol, caps, None), opened, events)
    BY <1>6 DEF PersistEvaluation
  <2>2. PICK opened, events :
          /\ opened \in {Opened, NoApproval}
          /\ Insert(i, Row(p, v, d, pol, caps, None), opened, events)
    BY <2>1
  <2>3. PICK row : row = Row(p, v, d, pol, caps, None)
    OBVIOUS
  <2>4. row.verdict # "none" /\ row.via = None
    BY <2>3 DEF Row, Verdicts
  <2>5. opened.status \in {"none", "pending"}
    <3>1. Opened.status = "pending" /\ NoApproval.status = "none"
      BY DEF Opened, NoApproval
    <3>2. opened = Opened \/ opened = NoApproval
      BY <2>2
    <3>3. CASE opened = Opened
      BY <3>1, <3>3
    <3>4. CASE opened = NoApproval
      BY <3>1, <3>4
    <3> QED
      BY <3>2, <3>3, <3>4
  <2>6. Allowed' = Allowed
    <3>1. Allowed' = Allowed \cup ({row.via} \cap Ids)
      BY <2>2, <2>3, <2>4, FreshAllows
    <3>2. None \notin Ids
      BY ApprovalAssumption
    <3> QED
      BY <2>4, <3>1, <3>2
  <2>7. /\ Where(i) = "none" /\ Where(i)' \in {"gone", "pending"}
        /\ \A j \in Ids \ {i} : Where(j)' = Where(j)
    BY <2>2, <2>5, FreshWhere
  <2>8. Permits' = Permits
    BY <1>6, <1>a, FinishGoes, SamePermits DEF PersistEvaluation
  <2> QED
    BY <2>6, <2>7, <2>8, PromiseMoves
<1>7. ASSUME NEW p \in Procs, ResolveCheck(p) PROVE Promise!Next
  <2>1. /\ UNCHANGED <<issued, decision>> /\ pc[p] = "resolve"
        /\ approval' = ExpireStale({job[p].approval})
    BY <1>7 DEF ResolveCheck
  <2>2. CASE Finish(p)
    BY <1>a, <2>1, <2>2, FinishGoes, SamePermits, ExpiryCleans
  <2>3. CASE Goto(p, "resolve_write") /\ UNCHANGED job
    BY <1>a, <2>1, <2>3, OthersStay, SamePermits, ExpiryCleans
  <2> QED
    BY <1>7, <2>2, <2>3 DEF ResolveCheck
<1>8. ASSUME NEW p \in Procs, ResolveWrite(p) PROVE [Promise!Next]_(Promise!vars)
  <2>1. PICK a : a = job[p].approval
    OBVIOUS
  <2>2. /\ a \in Ids /\ UNCHANGED <<issued, decision>> /\ pc[p] = "resolve_write"
        /\ job[p].answer \in {"approved", "rejected"}
        /\ approval \in [Ids -> ApprovalRows]
    BY <1>8, <1>a, <2>1 DEF ResolveWrite, TypeOK
  <2>3. CASE ~StillPending(approval[a])
    <3>1. Finish(p) /\ UNCHANGED approval
      BY <1>8, <2>1, <2>3 DEF ResolveWrite
    <3> QED
      BY <1>a, <1>b, <2>2, <3>1, FinishGoes, SamePermits
  <2>4. CASE StillPending(approval[a])
    <3>1. /\ Goto(p, "resolve_audit") /\ UNCHANGED job
          /\ approval' = [approval EXCEPT ![a] = [approval[a] EXCEPT
                             !.status = job[p].answer, !.reviewer = job[p].who]]
      BY <1>8, <2>1, <2>4 DEF ResolveWrite
    <3>2. /\ approval[a].status = "pending"
          /\ approval'[a].status = job[p].answer
          /\ \A b \in Ids \ {a} : approval'[b] = approval[b]
      BY <2>2, <2>4, <3>1 DEF StillPending, ApprovalRows
    <3>3. /\ Where(a) = "pending" /\ Where(a)' \in {"approved", "rejected"}
          /\ \A b \in Ids \ {a} : Where(b)' = Where(b)
      BY <2>2, <3>2 DEF Where, HasApproval
    <3>4. Permits' = Permits
      BY <1>a, <2>2, <3>1, OthersStay, SamePermits
    <3> QED
      BY <2>2, <3>3, <3>4, SameAllowed, PromiseMoves
  <2> QED
    BY <2>3, <2>4
<1>9. ASSUME NEW p \in Procs, AuditResolution(p)
      PROVE  [Promise!Next]_(Promise!vars)
  <2>1. /\ UNCHANGED <<issued, decision, approval>> /\ Finish(p)
        /\ pc[p] = "resolve_audit"
    BY <1>9 DEF AuditResolution
  <2> QED
    BY <1>a, <1>b, <2>1, FinishGoes, SamePermits
<1>10. ASSUME NEW p \in Procs, Crash(p) PROVE [Promise!Next]_(Promise!vars)
  <2>1. UNCHANGED <<issued, decision, approval>> /\ Finish(p)
    BY <1>10 DEF Crash
  <2>2. CASE pc[p] # "grant"
    BY <1>a, <1>b, <2>1, <2>2, FinishGoes, SamePermits
  <2>3. CASE pc[p] = "grant"
    <3>1. PICK a : a = job[p].approval
      OBVIOUS
    <3>2. a \in Ids /\ Holds(p, a)
      BY <1>a, <2>3, <3>1 DEF TypeOK, Holds
    <3>3. /\ \A q \in Procs : Holds(q, a) => q = p
          /\ \A b \in Ids : Holds(p, b) => b = a
      BY <3>2 DEF UseInv, OneTimeUse, Holds
    <3>4. \A q \in Procs, b \in Ids : Holds(q, b)' <=> Holds(q, b) /\ q # p
      BY <1>a, <2>1, FinishGoes DEF Holds
    <3>5. Permits' = Permits \ {a} /\ a \in Permits
      BY <3>2, <3>3, <3>4 DEF Permits
    <3>6. State' = State
      BY <2>1 DEF State, Where, HasApproval
    <3> QED
      BY <2>1, <3>5, <3>6, SameAllowed, PromiseLoses
  <2> QED
    BY <2>2, <2>3
<1>11. ASSUME NEW S, approval' = ExpireStale(S), UNCHANGED <<issued, decision, pc, job>>
       PROVE  Promise!Next
  <2>1. Permits' = Permits
    BY <1>11 DEF Permits, Holds
  <2> QED
    BY <1>a, <1>11, <2>1, ExpiryCleans
<1>12. ASSUME NEW dryRun \in BOOLEAN, PurgeRetained(dryRun) PROVE Promise!Next
  <2>1. PICK S \in SUBSET Ids :
          /\ IF dryRun \/ Retention = 0 THEN S = {} ELSE OldestOf(S)
          /\ decision' = [i \in Ids |-> IF i \in S THEN NoDecision
                                        ELSE decision[i]]
          /\ approval' = [i \in Ids |-> IF i \in S THEN NoApproval
                                        ELSE ExpireStale(Ids)[i]]
          /\ UNCHANGED <<issued, pc, job>>
    BY <1>12 DEF PurgeRetained
  <2>2. \A i \in S : i \in issued
    BY <2>1 DEF OldestOf, Old, Retained, UseInv, Known
  <2>3. PICK timedOut \in SUBSET Ids : timedOut = {i \in Ids \ S : Stale(i)}
    OBVIOUS
  <2>4. ASSUME NEW i \in S PROVE Where(i) # "none" /\ Where(i)' = "gone"
    BY <2>1, <2>2 DEF Where, HasApproval, NoApproval
  <2>5. ASSUME NEW i \in timedOut
        PROVE  Where(i) = "pending" /\ Where(i)' = "expired"
    <3>1. /\ approval[i].status = "pending" /\ approval[i] \in ApprovalRows
          /\ approval'[i] = [approval[i] EXCEPT !.status = "expired"]
      BY <1>a, <2>1, <2>3 DEF ExpireStale, Stale, TypeOK
    <3>2. approval'[i].status = "expired"
      BY <3>1 DEF ApprovalRows
    <3> QED
      BY <3>1, <3>2 DEF Where, HasApproval
  <2>6. ASSUME NEW i \in Ids \ S, i \notin timedOut PROVE Where(i)' = Where(i)
    <3>1. approval'[i] = approval[i]
      BY <2>1, <2>3, <2>6 DEF ExpireStale
    <3> QED
      BY <2>1, <3>1 DEF Where, HasApproval
  <2>7. Permits' = Permits
    BY <2>1 DEF Permits, Holds
  <2>8. \A i, a \in Ids : AllowedBy(i, a)' => AllowedBy(i, a)
    BY <2>1 DEF AllowedBy, HasDecision, NoDecision
  <2>9. Allowed' \subseteq Allowed
    BY <2>8 DEF Allowed
  <2>10. S \cap timedOut = {}
    BY <2>3
  <2> QED
    BY <2>4, <2>5, <2>6, <2>7, <2>9, <2>10, PromiseCleans
<1>13. CASE Tick \/ UNCHANGED vars
  <2>1. UNCHANGED <<issued, decision, approval, pc, job>>
    BY <1>13 DEF Tick, vars
  <2>2. Permits' = Permits
    BY <2>1 DEF Permits, Holds
  <2> QED
    BY <1>b, <2>1, <2>2
<1> QED
  BY <1>1, <1>2, <1>3, <1>4, <1>5, <1>6, <1>7, <1>8, <1>9, <1>10, <1>11, <1>12,
     <1>13 DEF Next, Handle, ReadApproval, ListApprovals

(* The tables and handlers implement ApprovalContract: to a requester the  *)
(* sessions of evaluate_governance, resolve_approval, the lazy expiry and  *)
(* purge_retained look like single steps on one approval each, and a       *)
(* positive answer is redeemed once, by one request.                       *)
THEOREM PromiseKept == Spec => KeepsPromise
<1>1. UseInv /\ [Next]_vars => [Promise!Next]_(Promise!vars)
  BY PromiseNext
<1>2. Spec => []UseInv
  BY UseInit, UseNext, PTL DEF Spec
<1> QED
  BY <1>1, <1>2, PromiseInit, PTL DEF Spec, KeepsPromise, Promise!Spec
=============================================================================

----------------------- MODULE GovernancePipelineProofs -----------------------
(***************************************************************************)
(* Theorems about GovernancePipeline, for every bundle, pricing table and  *)
(* set of requests.  The last one follows the order of graver facts from   *)
(* the request through enrichment, every engine and the precedence.        *)
(***************************************************************************)
EXTENDS GovernancePipeline, TLAPS

IsRow(r) == r = [field \in RequestFields |-> r[field]]

\* What every state of the walk is: a request and a world with their fields, and what
\* enrichment, the stages and the precedence make of them.
Evaluated ==
    /\ IsRow(request)
    /\ world = [field \in WorldFields |-> world[field]]
    /\ world.on_unavailable \in Verdicts
    /\ row = Enrich(request, world)
    /\ stage = Stages(row, Telemetry(request, world))
    /\ verdict = Verdict(stage, Telemetry(request, world))

\* Evaluated is an invariant.
LEMMA EvaluatedHolds == Spec => []Evaluated
<1>1. Init => Evaluated
  BY PipelineAssumption DEF Init, Evaluated, IsRow
<1>2. Evaluated /\ [Next]_vars => Evaluated'
  <2> SUFFICES ASSUME Evaluated, [Next]_vars PROVE Evaluated'
    OBVIOUS
  <2>1. ASSUME Ask PROVE Evaluated'
    <3>1. PICK field \in DOMAIN RequestValues : \E value \in RequestValues[field] :
            request' = [request EXCEPT ![field] = value]
      BY <2>1 DEF Ask
    <3>2. IsRow(request')
      BY <3>1 DEF Evaluated, IsRow
    <3>3. world' = world /\ Evaluate
      BY <2>1 DEF Ask
    <3> QED BY <3>2, <3>3 DEF Evaluated, Evaluate
  <2>2. ASSUME WorldMoves PROVE Evaluated'
    <3>1. PICK field \in DOMAIN WorldValues : \E value \in WorldValues[field] :
            world' = [world EXCEPT ![field] = value]
      BY <2>2 DEF WorldMoves
    <3>2. PICK value \in WorldValues[field] : world' = [world EXCEPT ![field] = value]
      BY <3>1
    <3>3. world' = [f \in WorldFields |-> world'[f]]
      BY <3>2 DEF Evaluated
    <3>4. world'.on_unavailable \in Verdicts
      <4>1. "on_unavailable" \in WorldFields
        BY DEF WorldFields
      <4>2. CASE field = "on_unavailable"
        BY <3>2, <4>1, <4>2, PipelineAssumption DEF Evaluated
      <4>3. CASE field # "on_unavailable"
        BY <3>2, <4>1, <4>3 DEF Evaluated
      <4> QED BY <4>2, <4>3
    <3>5. request' = request /\ Evaluate
      BY <2>2 DEF WorldMoves
    <3> QED BY <3>3, <3>4, <3>5 DEF Evaluated, Evaluate
  <2>3. CASE UNCHANGED vars
    BY <2>3 DEF vars, Evaluated
  <2> QED BY <2>1, <2>2, <2>3 DEF Next
<1> QED BY <1>1, <1>2, PTL DEF Spec

-----------------------------------------------------------------------------
(* Failing closed *)

\* final_verdict allows only what the pack and the quota stage allow.
LEMMA AllowedOnlyByQuota ==
  ASSUME NEW s, FinalVerdict(s) = "allow", s.quota \in Verdicts
  PROVE  s.quota = "allow" /\ s.pack_pre # "block"
BY DEF FinalVerdict, Verdicts

\* An outage of Redis, or a deployment without it, lets no request through unmetered,
\* whatever the bundle: enrich_governance_request marks the evaluation and
\* evaluate_governance_request replaces the quota decision by the outage policy, or the
\* pack blocks.
THEOREM FailsClosedHolds == Spec => []FailsClosed
<1>1. Evaluated => FailsClosed
  <2> SUFFICES ASSUME Evaluated, Unavailable(request, world),
                      world.on_unavailable # "allow", verdict = "allow"
               PROVE  FALSE
    BY DEF FailsClosed, Unavailable
  <2> DEFINE telemetry == Telemetry(request, world)
  <2>1. stage = Stages(row, telemetry) /\ FinalVerdict(stage) = "allow"
    BY DEF Evaluated, Verdict
  <2>2. CASE PackBefore(row) = "block"
    <3>1. stage.quota = "allow" /\ stage.pack_pre = "block"
      BY <2>1, <2>2 DEF Stages, Skipped
    <3> QED BY <3>1, <2>1, AllowedOnlyByQuota DEF Verdicts
  <2>3. CASE PackBefore(row) # "block"
    <3>1. stage.quota = world.on_unavailable
      BY <2>1, <2>3 DEF Stages, Judged, QuotaStage, Telemetry
    <3> QED BY <2>1, <3>1, AllowedOnlyByQuota DEF Evaluated
  <2> QED BY <2>2, <2>3
<1> QED BY <1>1, EvaluatedHolds, PTL

-----------------------------------------------------------------------------
(* Types *)

\* TypeOK: requests and worlds stay within the values they are drawn from, and a verdict
\* is one that gateways understand.
THEOREM TypeCorrect == Spec => []TypeOK
<1>1. Init => TypeOK
  BY PipelineAssumption DEF Init, TypeOK, Verdict, FinalVerdict, Verdicts
<1>2. TypeOK /\ Evaluated /\ [Next]_vars => TypeOK'
  <2> SUFFICES ASSUME TypeOK, Evaluated, [Next]_vars PROVE TypeOK'
    OBVIOUS
  <2>1. ASSUME Ask PROVE TypeOK'
    <3>1. PICK field \in DOMAIN RequestValues : \E value \in RequestValues[field] :
            request' = [request EXCEPT ![field] = value]
      BY <2>1 DEF Ask
    <3>2. PICK value \in RequestValues[field] : request' = [request EXCEPT ![field] = value]
      BY <3>1
    <3>3. \A f \in DOMAIN RequestValues :
            request'[f] \in RequestValues[f] \cup {b[1][f] : b \in Bases}
      <4> SUFFICES ASSUME NEW f \in DOMAIN RequestValues
                   PROVE  request'[f] \in RequestValues[f] \cup {b[1][f] : b \in Bases}
        OBVIOUS
      <4>1. f \in DOMAIN request
        BY PipelineAssumption DEF Evaluated, IsRow
      <4>2. request'[f] = IF f = field THEN value ELSE request[f]
        BY <3>2, <4>1
      <4> QED BY <4>2 DEF TypeOK
    <3>4. verdict' \in Verdicts /\ world' = world
      BY <2>1 DEF Ask, Evaluate, Verdict, FinalVerdict, Verdicts
    <3> QED BY <3>3, <3>4 DEF TypeOK
  <2>2. ASSUME WorldMoves PROVE TypeOK'
    <3>1. PICK field \in DOMAIN WorldValues : \E value \in WorldValues[field] :
            world' = [world EXCEPT ![field] = value]
      BY <2>2 DEF WorldMoves
    <3>2. PICK value \in WorldValues[field] : world' = [world EXCEPT ![field] = value]
      BY <3>1
    <3>3. \A f \in DOMAIN WorldValues :
            world'[f] \in WorldValues[f] \cup {b[2][f] : b \in Bases}
      <4> SUFFICES ASSUME NEW f \in DOMAIN WorldValues
                   PROVE  world'[f] \in WorldValues[f] \cup {b[2][f] : b \in Bases}
        OBVIOUS
      <4>1. f \in DOMAIN world
        BY PipelineAssumption DEF Evaluated
      <4>2. world'[f] = IF f = field THEN value ELSE world[f]
        BY <3>2, <4>1
      <4> QED BY <4>2 DEF TypeOK
    <3>4. verdict' \in Verdicts /\ request' = request
      BY <2>2 DEF WorldMoves, Evaluate, Verdict, FinalVerdict, Verdicts
    <3> QED BY <3>3, <3>4 DEF TypeOK
  <2>3. CASE UNCHANGED vars
    BY <2>3 DEF vars, TypeOK
  <2> QED BY <2>1, <2>2, <2>3 DEF Next
<1> QED BY <1>1, <1>2, EvaluatedHolds, PTL DEF Spec

-----------------------------------------------------------------------------
(* The precedence of final_verdict *)

\* What the stages may say.
StageTypes ==
    [pack_pre : {"allow", "block"}, prompt : {"allow", "block"}, agent : {"allow", "block"},
     quota : Verdicts, registry : {"allow", "block"}, sovereign : {"allow", "block"},
     cost : {"allow", "warn", "block"}, risk : {"low", "medium", "high", "critical"},
     approval : Verdicts, pack_post : Verdicts]

\* The stages say one of these, and the second look at the pack blocks only what the
\* first one blocked.
LEMMA StagesTyped ==
  ASSUME NEW r, NEW telemetry, telemetry.on_unavailable \in Verdicts
  PROVE  /\ Stages(r, telemetry) \in StageTypes
         /\ Stages(r, telemetry).pack_post = "block" => Stages(r, telemetry).pack_pre = "block"
<1>1. CASE PackBefore(r) = "block"
  BY <1>1 DEF Stages, Skipped, StageTypes, Verdicts
<1>2. CASE PackBefore(r) # "block"
  <2>1. PromptDecision(r) \in {"allow", "block"}
    BY DEF PromptDecision
  <2>2. \A b : Forbids(b) \in {"allow", "block"}
    BY DEF Forbids
  <2>3. QuotaStage(r, telemetry) \in Verdicts
    BY DEF QuotaStage, QuotaDecision, Verdicts
  <2>4. CostDecision(r) \in {"allow", "warn", "block"}
    BY DEF CostDecision
  <2>5. RiskLevel(r) \in {"low", "medium", "high", "critical"}
    BY DEF RiskLevel, LevelOf
  <2>6. \A cost, level : ApprovalDecision(r, cost, level) \in Verdicts
    BY DEF ApprovalDecision, Verdicts
  <2>7. \A level : PackAfter(r, level) \in {"allow", "approval_required"}
    BY <1>2 DEF PackBefore, PackAfter
  <2>8. Stages(r, telemetry) = Judged(r, telemetry, CostDecision(r), RiskLevel(r))
    BY <1>2 DEF Stages
  <2> QED
    BY <2>1, <2>2, <2>3, <2>4, <2>5, <2>6, <2>7, <2>8 DEF Judged, StageTypes, Verdicts
<1> QED BY <1>1, <1>2

\* final_verdict's two lists of conditions give the strictest of the stages' decisions,
\* with a warning of cost and a critical risk counted as a demand for approval.
LEMMA FinalVerdictIsStrictest ==
  ASSUME NEW s \in StageTypes, s.pack_post = "block" => s.pack_pre = "block",
         NEW said, said = {s.pack_pre, s.prompt, s.agent, s.quota, s.registry, s.sovereign,
                           s.approval, s.pack_post, "allow",
                           IF s.cost = "warn" THEN "approval_required" ELSE s.cost,
                           IF s.risk = "critical" THEN "approval_required" ELSE "allow"}
  PROVE  /\ FinalVerdict(s) \in said
         /\ \A d \in said : Severity(FinalVerdict(s)) >= Severity(d)
<1>1. said \subseteq Verdicts
  BY DEF StageTypes, Verdicts
<1>2. /\ Severity("allow") = 0 /\ Severity("approval_required") = 1
      /\ Severity("block") = 2
  BY DEF Severity
<1>3. "block" \in said <=>
      "block" \in {s.pack_pre, s.prompt, s.agent, s.quota, s.registry, s.sovereign, s.cost,
                   s.approval}
  BY DEF StageTypes
<1>4. "approval_required" \in said <=>
        \/ s.quota = "approval_required" \/ s.pack_post = "approval_required"
        \/ s.risk = "critical" \/ s.approval = "approval_required" \/ s.cost = "warn"
  BY DEF StageTypes
<1>5. CASE "block" \in said
  <2>1. FinalVerdict(s) = "block"
    BY <1>3, <1>5 DEF FinalVerdict
  <2> QED BY <2>1, <1>1, <1>2, <1>5 DEF Verdicts
<1>6. CASE "block" \notin said /\ "approval_required" \in said
  <2>1. FinalVerdict(s) = "approval_required"
    BY <1>3, <1>4, <1>6 DEF FinalVerdict
  <2> QED BY <2>1, <1>1, <1>2, <1>6 DEF Verdicts
<1>7. CASE "block" \notin said /\ "approval_required" \notin said
  <2>1. FinalVerdict(s) = "allow"
    BY <1>3, <1>4, <1>7 DEF FinalVerdict
  <2> QED BY <2>1, <1>1, <1>2, <1>7 DEF Verdicts
<1> QED BY <1>5, <1>6, <1>7

\* A request gets the strictest decision of any stage, whatever the bundle.
THEOREM StrictestStageHolds == Spec => []StrictestStageWins
<1>1. Evaluated => StrictestStageWins
  <2> SUFFICES ASSUME Evaluated PROVE StrictestStageWins
    OBVIOUS
  <2> DEFINE engines == {stage.pack_pre, stage.prompt, stage.agent, stage.quota,
                         stage.registry, stage.sovereign, stage.approval, stage.pack_post,
                         "allow",
                         IF stage.cost = "warn" THEN "approval_required" ELSE stage.cost,
                         IF stage.risk = "critical" THEN "approval_required" ELSE "allow"}
             said == {stage.pack_pre, stage.prompt, stage.agent, stage.quota,
                      stage.registry, stage.sovereign, stage.approval, stage.pack_post,
                      Forbids(Breached(world)),
                      IF stage.cost = "warn" THEN "approval_required" ELSE stage.cost,
                      IF stage.risk = "critical" THEN "approval_required" ELSE "allow"}
  <2>1. verdict = IF Breached(world) THEN "block" ELSE FinalVerdict(stage)
    BY DEF Evaluated, Verdict, Telemetry
  <2>2. /\ stage \in StageTypes
        /\ stage.pack_post = "block" => stage.pack_pre = "block"
    BY StagesTyped DEF Evaluated, Telemetry
  <2>3. /\ FinalVerdict(stage) \in engines
        /\ \A d \in engines : Severity(FinalVerdict(stage)) >= Severity(d)
    BY <2>2, FinalVerdictIsStrictest
  <2>4. said \subseteq Verdicts
    BY <2>2 DEF StageTypes, Verdicts, Forbids
  <2>5. /\ Severity("allow") = 0 /\ Severity("approval_required") = 1
        /\ Severity("block") = 2
    BY DEF Severity
  <2>6. verdict \in said /\ \A d \in said : Severity(verdict) >= Severity(d)
    <3>1. CASE Breached(world)
      BY <3>1, <2>1, <2>4, <2>5 DEF Forbids, Verdicts
    <3>2. CASE ~Breached(world)
      <4>1. engines = said
        BY <3>2 DEF Forbids
      <4> QED BY <4>1, <3>2, <2>1, <2>3
    <3> QED BY <3>1, <3>2
  <2> QED BY <2>6 DEF StrictestStageWins
<1> QED BY <1>1, EvaluatedHolds, PTL

\* The service is as strict as the offline report, and stricter only because of a stage
\* the report does not have.
THEOREM ReportAgreesHolds == Spec => []ReportAgrees
<1>1. Evaluated => ReportAgrees
  <2> DEFINE own == {stage.prompt, stage.agent, stage.sovereign, stage.pack_post,
                     Forbids(Breached(world))}
             report == ReportVerdict(row)
  <2> SUFFICES ASSUME Evaluated, ~Unavailable(request, world), ~PackForbids(row),
                      Pack(row).quota_multiplier = 1
               PROVE  verdict \in own \cup {report} /\ Severity(verdict) >= Severity(report)
    BY DEF ReportAgrees
  <2>1. verdict = IF Breached(world) THEN "block" ELSE FinalVerdict(stage)
    BY DEF Evaluated, Verdict, Telemetry
  <2>2. /\ stage \in StageTypes
        /\ report \in Verdicts
    <3>1. stage \in StageTypes
      BY StagesTyped DEF Evaluated, Telemetry
    <3>2. report \in Verdicts
      BY DEF ReportVerdict, Verdicts
    <3> QED BY <3>1, <3>2
  <2>3. stage = Judged(row, Telemetry(request, world), CostDecision(row), RiskLevel(row))
    BY DEF Evaluated, Stages, PackBefore
  <2>4. /\ stage.pack_pre = "allow" /\ stage.quota = QuotaDecision(row, 1)
        /\ stage.registry = Forbids(RegistryForbidden(row))
        /\ stage.cost = CostDecision(row) /\ stage.risk = RiskLevel(row)
        /\ stage.approval = ApprovalDecision(row, CostDecision(row), RiskLevel(row))
    BY <2>3 DEF Judged, QuotaStage, Telemetry
  <2>5. report = IF "block" \in {stage.quota, stage.registry, stage.cost, stage.approval}
                 THEN "block"
                 ELSE IF stage.risk = "critical" \/ stage.approval = "approval_required"
                         \/ stage.cost = "warn"
                      THEN "approval_required" ELSE "allow"
    <3>1. stage.registry = "block" <=> RegistryForbidden(row)
      BY <2>4 DEF Forbids
    <3> QED BY <2>4, <3>1 DEF ReportVerdict
  <2>6. stage.quota # "approval_required"
    BY <2>4 DEF QuotaDecision
  <2>7. /\ Severity("allow") = 0 /\ Severity("approval_required") = 1
        /\ Severity("block") = 2
    BY DEF Severity
  <2> HIDE DEF report
  <2>8. CASE Breached(world)
    <3>1. verdict = "block" /\ verdict \in own
      BY <2>1, <2>8 DEF Forbids
    <3> QED BY <3>1, <2>2, <2>7 DEF Verdicts
  <2>9. CASE ~Breached(world)
    <3>1. verdict = FinalVerdict(stage)
      BY <2>1, <2>9
    <3>2. verdict \in own \cup {report}
      BY <3>1, <2>2, <2>4, <2>5, <2>6, <2>9 DEF FinalVerdict, Forbids, StageTypes
    <3>3. /\ report = "block" => verdict = "block"
          /\ report = "approval_required" => verdict # "allow"
          /\ verdict \in Verdicts
      BY <3>1, <2>5 DEF FinalVerdict, Verdicts
    <3> QED BY <3>2, <3>3, <2>2, <2>7 DEF Verdicts
  <2> QED BY <2>8, <2>9
<1> QED BY <1>1, EvaluatedHolds, PTL

-----------------------------------------------------------------------------
(* Client signals *)

Counters == {"requests_last_minute", "tokens_today"}

\* Rows that differ in their counters only.
Alike(r, q) == \A field \in RequestFields \ Counters : r[field] = q[field]

\* Redis, when it answers, replaces the two counters, and nothing else.
LEMMA CounterFields ==
  ASSUME NEW r, IsRow(r), NEW w, NEW c, c = WithCounters(r, w)
  PROVE  /\ IsRow(c)
         /\ \A field \in RequestFields \ Counters : c[field] = r[field]
         /\ w.redis = "up" => /\ c.requests_last_minute = w.requests_last_minute
                              /\ c.tokens_today = w.tokens_today
         /\ w.redis # "up" => c = r
<1>1. CASE w.redis = "up"
  <2>1. c = [r EXCEPT !.requests_last_minute = w.requests_last_minute,
                      !.tokens_today = w.tokens_today]
    BY <1>1 DEF WithCounters
  <2>2. DOMAIN r = RequestFields /\ Counters \subseteq RequestFields
    BY DEF Counters, RequestFields, IsRow
  <2>3. IsRow(c)
    BY <2>1, <2>2 DEF IsRow
  <2>4. /\ \A field \in RequestFields \ Counters : c[field] = r[field]
        /\ c.requests_last_minute = w.requests_last_minute
        /\ c.tokens_today = w.tokens_today
    BY <2>1, <2>2 DEF Counters
  <2> QED BY <1>1, <2>3, <2>4
<1>2. CASE w.redis # "up"
  BY <1>2 DEF WithCounters
<1> QED BY <1>1, <1>2

Costs == {"cost_per_request_usd", "cost_per_hour_usd", "month_to_date_cost_usd",
          "forecast_monthly_cost_usd"}

\* derive_request_cost writes the four costs, by the prices of the model, and nothing else.
LEMMA CostFields ==
  ASSUME NEW r, IsRow(r), NEW month,
         NEW m, m = WithCosts(r, month)
  PROVE  /\ IsRow(m)
         /\ \A field \in RequestFields \ Costs : m[field] = r[field]
         /\ m.cost_per_request_usd = r.input_tokens * Rates(r.model).input
                                       + r.output_tokens * Rates(r.model).output
         /\ m.cost_per_hour_usd = Rates(r.model).hourly
         /\ m.month_to_date_cost_usd = month
         /\ m.forecast_monthly_cost_usd = Larger((month * 5) \div 4, Rates(r.model).hourly * 72)
<1>1. PICK a, b, d :
        /\ a = r.input_tokens * Rates(r.model).input + r.output_tokens * Rates(r.model).output
        /\ b = Rates(r.model).hourly
        /\ d = Larger((month * 5) \div 4, Rates(r.model).hourly * 72)
  OBVIOUS
<1>2. m = [r EXCEPT !.cost_per_request_usd = a, !.cost_per_hour_usd = b,
                    !.month_to_date_cost_usd = month, !.forecast_monthly_cost_usd = d]
  BY <1>1 DEF WithCosts
<1>3. DOMAIN r = RequestFields /\ Costs \subseteq RequestFields
  BY DEF Costs, RequestFields, IsRow
<1>4. IsRow(m)
  BY <1>2, <1>3 DEF IsRow
<1>5. \A field \in RequestFields \ Costs : m[field] = r[field]
  BY <1>2, <1>3 DEF Costs
<1>6. /\ m.cost_per_request_usd = a /\ m.cost_per_hour_usd = b
      /\ m.month_to_date_cost_usd = month /\ m.forecast_monthly_cost_usd = d
  BY <1>2, <1>3 DEF Costs
<1> QED BY <1>1, <1>4, <1>5, <1>6

Sensitivity == {"sensitive_data", "write_permission"}

\* e is r with its two flags judged.
Classified(r, e) ==
    /\ IsRow(e)
    /\ \A field \in RequestFields \ Sensitivity : e[field] = r[field]
    /\ e.sensitive_data = (\/ r.team \in Sensitive
                           \/ r.namespace \in SensitiveNamespaces
                           \/ r.labelled)
    /\ e.write_permission = (r.team \in Writers \/ r.writer)

\* derive_sensitivity writes the two flags, and nothing else.
LEMMA SensitivityFields ==
  ASSUME NEW r, IsRow(r), NEW e, e = WithSensitivity(r)
  PROVE  Classified(r, e)
<1>1. PICK a, b : /\ a = (\/ r.team \in Sensitive
                          \/ r.namespace \in SensitiveNamespaces
                          \/ r.labelled)
                  /\ b = (r.team \in Writers \/ r.writer)
  OBVIOUS
<1>2. e = [r EXCEPT !.sensitive_data = a, !.write_permission = b]
  BY <1>1 DEF WithSensitivity
<1>3. DOMAIN r = RequestFields /\ Sensitivity \subseteq RequestFields
  BY DEF Sensitivity, RequestFields, IsRow
<1>4. IsRow(e)
  BY <1>2, <1>3 DEF IsRow
<1>5. \A field \in RequestFields \ Sensitivity : e[field] = r[field]
  BY <1>2, <1>3 DEF Sensitivity
<1>6. e.sensitive_data = a /\ e.write_permission = b
  BY <1>2, <1>3 DEF Sensitivity
<1> QED BY <1>1, <1>4, <1>5, <1>6 DEF Classified

\* Enrichment replaces whatever a client may claim, except that without Redis the claimed
\* counters stay in the row.
LEMMA EnrichmentReplaces ==
  ASSUME NEW r, NEW q, NEW w,
         IsRow(r), IsRow(q),
         \A field \in RequestFields \ ClientFields : r[field] = q[field],
         ~r.simulate
  PROVE  /\ w.redis = "up" => Enrich(r, w) = Enrich(q, w)
         /\ w.redis # "up" => Alike(Enrich(r, w), Enrich(q, w))
<1> DEFINE month == IF w.redis = "up" THEN w.month_to_date_cost_usd ELSE 0
           rc == WithCounters(r, w)
           qc == WithCounters(q, w)
           rm == WithCosts(rc, month)
           qm == WithCosts(qc, month)
<1>1. Enrich(r, w) = WithSensitivity(rm) /\ Enrich(q, w) = WithSensitivity(qm)
  <2>1. ~q.simulate
    BY DEF RequestFields, ClientFields
  <2> QED BY <2>1 DEF Enrich
<1>2. /\ IsRow(rc) /\ IsRow(qc)
      /\ \A field \in RequestFields \ Counters : rc[field] = r[field] /\ qc[field] = q[field]
  BY CounterFields
<1>3. w.redis = "up" => /\ rc.requests_last_minute = qc.requests_last_minute
                        /\ rc.tokens_today = qc.tokens_today
  BY CounterFields
<1>4. \A field \in RequestFields \ ClientFields : rc[field] = qc[field]
  <2>1. Counters \subseteq ClientFields
    BY DEF Counters, ClientFields
  <2> QED BY <1>2, <2>1
<1>5. Rates(rc.model) = Rates(qc.model) /\ rc.input_tokens = qc.input_tokens
      /\ rc.output_tokens = qc.output_tokens
  <2>1. {"model", "input_tokens", "output_tokens"} \subseteq RequestFields \ ClientFields
    BY DEF RequestFields, ClientFields
  <2> QED BY <1>4, <2>1
<1>6. /\ IsRow(rm) /\ IsRow(qm)
      /\ \A field \in RequestFields \ Costs : rm[field] = rc[field] /\ qm[field] = qc[field]
      /\ \A field \in Costs : rm[field] = qm[field]
  BY <1>2, <1>5, CostFields DEF Costs
<1>7. \A field \in RequestFields \ (Counters \cup Sensitivity) : rm[field] = qm[field]
  <2>1. \A field \in ClientFields : field \in Costs \cup Counters \cup Sensitivity
    BY DEF Costs, Counters, Sensitivity, ClientFields
  <2> QED BY <1>4, <1>6, <2>1
<1>8. \A field \in Counters : rm[field] = rc[field] /\ qm[field] = qc[field]
  <2>1. Counters \subseteq RequestFields \ Costs
    BY DEF RequestFields, Counters, Costs
  <2> QED BY <1>6, <2>1
<1>9. /\ rm.team = qm.team /\ rm.namespace = qm.namespace
      /\ rm.labelled = qm.labelled /\ rm.writer = qm.writer
  <2>1. {"team", "namespace", "labelled", "writer"}
           \subseteq RequestFields \ (Counters \cup Sensitivity)
    BY DEF RequestFields, Counters, Sensitivity
  <2> QED BY <1>7, <2>1
<1>10. PICK re, qe : re = WithSensitivity(rm) /\ qe = WithSensitivity(qm)
  OBVIOUS
<1> HIDE DEF rm, qm, rc, qc, month
<1>11. Classified(rm, re)
  BY <1>6, <1>10, SensitivityFields
<1>12. Classified(qm, qe)
  BY <1>6, <1>10, SensitivityFields
<1>13. \A field \in Sensitivity : re[field] = qe[field]
  BY <1>9, <1>11, <1>12 DEF Classified, Sensitivity
<1>14. Alike(re, qe)
  BY <1>7, <1>11, <1>12, <1>13 DEF Classified, Alike
<1>15. ASSUME w.redis = "up" PROVE re = qe
  <2>1. \A field \in Counters : rm[field] = qm[field]
    BY <1>3, <1>8, <1>15 DEF Counters
  <2>2. \A field \in RequestFields : re[field] = qe[field]
    BY <1>7, <1>11, <1>12, <1>13, <2>1 DEF Classified
  <2> QED BY <1>11, <1>12, <2>2 DEF Classified, IsRow
<1> QED BY <1>1, <1>10, <1>14, <1>15

\* No engine but the quota looks at the counters.
LEMMA OnlyQuotaCounts ==
  ASSUME NEW r, NEW q, Alike(r, q)
  PROVE  \A telemetry : telemetry.unavailable => Stages(r, telemetry) = Stages(q, telemetry)
<1>1. /\ r.policy_pack = q.policy_pack /\ r.team = q.team /\ r.owner = q.owner
      /\ r.environment = q.environment /\ r.namespace = q.namespace /\ r.action = q.action
      /\ r.model = q.model /\ r.provider = q.provider /\ r.input_tokens = q.input_tokens
      /\ r.output_tokens = q.output_tokens /\ r.cost_per_hour_usd = q.cost_per_hour_usd
      /\ r.month_to_date_cost_usd = q.month_to_date_cost_usd
      /\ r.forecast_monthly_cost_usd = q.forecast_monthly_cost_usd
      /\ r.sensitive_data = q.sensitive_data /\ r.tool_access = q.tool_access
      /\ r.write_permission = q.write_permission /\ r.prompt = q.prompt
      /\ r.model_artifact_digest = q.model_artifact_digest
      /\ r.agent = q.agent /\ r.region = q.region
  BY DEF Alike, RequestFields, Counters
<1>2. PackName(r) = PackName(q) /\ Pack(r) = Pack(q)
  BY <1>1 DEF PackName, Pack
<1>3. PackForbids(r) = PackForbids(q) /\ PackBefore(r) = PackBefore(q)
  BY <1>1, <1>2 DEF PackForbids, PackBefore
<1>4. \A level : PackAfter(r, level) = PackAfter(q, level)
  BY <1>2, <1>3 DEF PackAfter
<1>5. PromptDecision(r) = PromptDecision(q)
  BY <1>1 DEF PromptDecision
<1>6. Forbids(AgentForbidden(r)) = Forbids(AgentForbidden(q))
  BY <1>1 DEF AgentForbidden
<1>7. Forbids(RegistryForbidden(r)) = Forbids(RegistryForbidden(q))
  BY <1>1 DEF RegistryForbidden
<1>8. Forbids(SovereignForbidden(r)) = Forbids(SovereignForbidden(q))
  BY <1>1 DEF SovereignForbidden
<1>9. CostDecision(r) = CostDecision(q)
  BY <1>1 DEF CostDecision, CostBlocks, CostWarns
<1>10. RiskScore(r) = RiskScore(q)
  BY <1>1 DEF RiskScore, RegistryPoints
<1>11. RiskLevel(r) = RiskLevel(q)
  BY <1>10 DEF RiskLevel
<1>12. \A cost, level : ApprovalDecision(r, cost, level) = ApprovalDecision(q, cost, level)
  BY <1>1 DEF ApprovalDecision, ApprovalBlocks, ApprovalAsks
<1>13. \A telemetry : telemetry.unavailable =>
         QuotaStage(r, telemetry) = QuotaStage(q, telemetry)
  BY DEF QuotaStage
<1> QED
  BY <1>3, <1>4, <1>5, <1>6, <1>7, <1>8, <1>9, <1>11, <1>12, <1>13
  DEF Stages, Judged

\* The claims of a caller who may not simulate do not matter: with Redis up they are
\* replaced, and otherwise the only ones that stay, the counters, are read by the quota
\* engine alone, whose decision the outage policy replaces.
THEOREM ClientSignalsIgnoredHolds == Spec => ClientSignalsIgnored
<1>1. ASSUME Evaluated, Evaluated', ~request.simulate, world' = world,
             \A field \in DOMAIN request \ ClientFields : request'[field] = request[field]
      PROVE  verdict' = verdict
  <2> DEFINE telemetry == Telemetry(request, world)
  <2>1. \A field \in RequestFields \ ClientFields : request[field] = request'[field]
    BY <1>1 DEF Evaluated, IsRow
  <2>2. /\ IsRow(request) /\ IsRow(request')
    BY <1>1 DEF Evaluated
  <2>3. row = Enrich(request, world) /\ row' = Enrich(request', world)
    BY <1>1 DEF Evaluated
  <2>4. /\ world.redis = "up" => row' = row
        /\ world.redis # "up" => Alike(row, row')
    BY <1>1, <2>1, <2>2, <2>3, EnrichmentReplaces
  <2>5. request'.simulate = request.simulate
    BY <2>1 DEF RequestFields, ClientFields
  <2>6. Telemetry(request', world) = telemetry
    BY <2>5 DEF Telemetry, Unavailable
  <2>7. /\ stage = Stages(row, telemetry) /\ verdict = Verdict(stage, telemetry)
        /\ stage' = Stages(row', telemetry) /\ verdict' = Verdict(stage', telemetry)
    BY <1>1, <2>6 DEF Evaluated
  <2>8. CASE world.redis = "up"
    BY <2>4, <2>7, <2>8
  <2>9. CASE world.redis # "up"
    <3>1. telemetry.unavailable
      BY <1>1, <2>9 DEF Telemetry, Unavailable
    <3> HIDE DEF telemetry
    <3>2. Stages(row, telemetry) = Stages(row', telemetry)
      BY <2>4, <2>9, <3>1, OnlyQuotaCounts
    <3> QED BY <2>7, <3>2
  <2> QED BY <2>8, <2>9
<1>2. Evaluated /\ Evaluated' /\ [Next]_vars =>
        [ /\ ~request.simulate
          /\ world' = world
          /\ \A field \in DOMAIN request \ ClientFields : request'[field] = request[field]
          => verdict' = verdict ]_vars
  BY <1>1
<1> QED BY <1>2, EvaluatedHolds, PTL DEF Spec, ClientSignalsIgnored

-----------------------------------------------------------------------------
(* Graver facts *)

\* Amounts are numbers and flags are flags, in requests and in what the reads meet.
FieldsTyped ==
    /\ \A field \in (Amounts \cup Flags) \cap RequestFields :
          request[field] \in Possible(field)
    /\ \A field \in (Amounts \cup Flags) \cap WorldFields :
          world[field] \in Possible(field)

LEMMA FieldsStayTyped == Spec => []FieldsTyped
<1>1. Init => FieldsTyped
  BY FieldsAssumption DEF Init, FieldsTyped
<1>2. FieldsTyped /\ Evaluated /\ [Next]_vars => FieldsTyped'
  <2> SUFFICES ASSUME FieldsTyped, Evaluated, [Next]_vars PROVE FieldsTyped'
    OBVIOUS
  <2>1. \A f : Possible(f)' = Possible(f)
    BY DEF Possible
  <2>2. ASSUME Ask PROVE FieldsTyped'
    <3>1. PICK field \in DOMAIN RequestValues : \E value \in RequestValues[field] :
            request' = [request EXCEPT ![field] = value]
      BY <2>2 DEF Ask
    <3>2. PICK value \in RequestValues[field] : request' = [request EXCEPT ![field] = value]
      BY <3>1
    <3>3. ASSUME NEW f \in (Amounts \cup Flags) \cap RequestFields
          PROVE  request'[f] \in Possible(f)
      <4>1. request'[f] = IF f = field THEN value ELSE request[f]
        BY <3>2 DEF Evaluated, IsRow
      <4> QED BY <3>1, <3>2, <4>1, FieldsAssumption DEF FieldsTyped
    <3>4. world' = world
      BY <2>2 DEF Ask
    <3> QED BY <2>1, <3>3, <3>4 DEF FieldsTyped
  <2>3. ASSUME WorldMoves PROVE FieldsTyped'
    <3>1. PICK field \in DOMAIN WorldValues : \E value \in WorldValues[field] :
            world' = [world EXCEPT ![field] = value]
      BY <2>3 DEF WorldMoves
    <3>2. PICK value \in WorldValues[field] : world' = [world EXCEPT ![field] = value]
      BY <3>1
    <3>3. ASSUME NEW f \in (Amounts \cup Flags) \cap WorldFields
          PROVE  world'[f] \in Possible(f)
      <4>1. world'[f] = IF f = field THEN value ELSE world[f]
        BY <3>2 DEF Evaluated
      <4> QED BY <3>1, <3>2, <4>1, FieldsAssumption DEF FieldsTyped
    <3>4. request' = request
      BY <2>3 DEF WorldMoves
    <3> QED BY <2>1, <3>3, <3>4 DEF FieldsTyped
  <2>4. CASE UNCHANGED vars
    BY <2>1, <2>4 DEF vars, FieldsTyped
  <2> QED BY <2>2, <2>3, <2>4 DEF Next
<1> QED BY <1>1, <1>2, EvaluatedHolds, PTL DEF Spec

-----------------------------------------------------------------------------
(* Rows *)

\* A row as the engines take it: its amounts are whole numbers.
Spent == {"input_tokens", "output_tokens", "requests_last_minute", "tokens_today",
          "cost_per_request_usd", "cost_per_hour_usd", "month_to_date_cost_usd",
          "forecast_monthly_cost_usd"}
Words == RequestFields \ (Spent \cup Flags \cup {"prompt"})

Numeric(r) == \A field \in Spent : r[field] \in Int

\* q is r with more spent, found or claimed.
Worse(r, q) ==
    /\ \A field \in Words : r[field] = q[field]
    /\ \A field \in Spent : r[field] <= q[field]
    /\ \A field \in Flags : r[field] => q[field]
    /\ r.prompt \subseteq q.prompt

LEMMA GraverIsWorse ==
  ASSUME Evaluated, Evaluated', FieldsTyped, FieldsTyped', Graver(request, request')
  PROVE  Numeric(request) /\ Numeric(request') /\ Worse(request, request')
<1>1. DOMAIN request = RequestFields
  BY DEF Evaluated, IsRow
<1>2. \A field \in Spent : request[field] \in Nat /\ request'[field] \in Nat
  <2>1. \A field \in Spent : /\ field \in (Amounts \cup Flags) \cap RequestFields
                             /\ Possible(field) = Nat /\ Possible(field)' = Nat
    BY DEF Spent, Amounts, Readings, RequestFields, Possible
  <2> QED BY <2>1 DEF FieldsTyped
<1>3. \A field \in Flags : request[field] \in BOOLEAN
  <2>1. \A field \in Flags : /\ field \in (Amounts \cup Flags) \cap RequestFields
                              /\ Possible(field) = BOOLEAN
    BY DEF Amounts, Flags, Readings, RequestFields, Possible
  <2> QED BY <2>1 DEF FieldsTyped
<1>4. ASSUME NEW field \in Words PROVE request[field] = request'[field]
  <2>1. /\ field \in RequestFields /\ field # "prompt" /\ field \notin Flags
        /\ field \notin Amounts
    BY DEF Words, Spent, Flags, Amounts, Readings, RequestFields
  <2> QED BY <1>1, <2>1 DEF Graver
<1>5. ASSUME NEW field \in Spent PROVE request[field] <= request'[field]
  <2>1. field \in RequestFields /\ field # "prompt" /\ field \notin Flags
    BY DEF Spent, Flags, RequestFields
  <2>2. request[field] = request'[field] \/ request[field] <= request'[field]
    BY <1>1, <2>1 DEF Graver
  <2> QED BY <1>2, <2>2
<1>6. ASSUME NEW field \in Flags PROVE request[field] => request'[field]
  <2>1. field \in RequestFields /\ field # "prompt" /\ field \notin Amounts
    BY DEF Flags, Amounts, Readings, RequestFields
  <2> QED BY <1>1, <2>1 DEF Graver
<1>7. request.prompt \subseteq request'.prompt
  <2>1. "prompt" \in RequestFields /\ "prompt" \notin Amounts /\ "prompt" \notin Flags
    BY DEF RequestFields, Amounts, Readings, Flags
  <2> QED BY <1>1, <2>1 DEF Graver
<1> QED BY <1>2, <1>4, <1>5, <1>6, <1>7 DEF Numeric, Worse

\* The same for what the reads meet.
WorseWorld(w, v) ==
    /\ w.redis = v.redis /\ w.on_unavailable = v.on_unavailable
    /\ w.requests_last_minute <= v.requests_last_minute
    /\ w.tokens_today <= v.tokens_today
    /\ w.month_to_date_cost_usd <= v.month_to_date_cost_usd
    /\ Breached(w) => Breached(v)

NumericWorld(w) ==
    /\ w.requests_last_minute \in Nat /\ w.tokens_today \in Nat
    /\ w.month_to_date_cost_usd \in Nat

LEMMA GraverIsWorseWorld ==
  ASSUME Evaluated, FieldsTyped, FieldsTyped', Graver(world, world')
  PROVE  NumericWorld(world) /\ NumericWorld(world') /\ WorseWorld(world, world')
<1>1. DOMAIN world = WorldFields
  BY DEF Evaluated
<1>2. \A field \in {"requests_last_minute", "tokens_today", "month_to_date_cost_usd"} :
         world[field] \in Nat /\ world'[field] \in Nat
  <2>1. \A field \in {"requests_last_minute", "tokens_today", "month_to_date_cost_usd"} :
           /\ field \in (Amounts \cup Flags) \cap WorldFields
           /\ Possible(field) = Nat /\ Possible(field)' = Nat
    BY DEF Amounts, Readings, WorldFields, Possible
  <2> QED BY <2>1 DEF FieldsTyped
<1>3. \A field \in Readings : /\ world[field] \in Nat \cup {NoValue}
                              /\ world'[field] \in Nat \cup {NoValue}
  <2>1. \A field \in Readings : /\ field \in (Amounts \cup Flags) \cap WorldFields
                                /\ Possible(field) = Nat \cup {NoValue}
                                /\ Possible(field)' = Nat \cup {NoValue}
    BY DEF Amounts, Readings, WorldFields, Possible, NoValue
  <2> QED BY <2>1 DEF FieldsTyped
<1>4. \A field \in {"redis", "on_unavailable"} : world[field] = world'[field]
  <2>1. \A field \in {"redis", "on_unavailable"} :
           /\ field \in WorldFields /\ field # "prompt" /\ field \notin Amounts
           /\ field \notin Flags
    BY DEF WorldFields, Amounts, Readings, Flags
  <2> QED BY <1>1, <2>1 DEF Graver
<1>5. \A field \in WorldFields \cap Amounts :
         world[field] = world'[field] \/ world[field] <= world'[field]
  <2>1. \A field \in Amounts : field # "prompt" /\ field \notin Flags
    BY DEF Amounts, Readings, Flags
  <2> QED BY <1>1, <2>1 DEF Graver
<1>6. \A field \in WorldFields \cap Amounts : world[field] <= world'[field]
  <2>1. \A field \in WorldFields \cap Amounts : world[field] \in Int
    BY <1>2, <1>3 DEF WorldFields, Amounts, Readings, NoValue
  <2> QED BY <1>5, <2>1
<1>7. Breached(world) => Breached(world')
  <2>1. \A field \in Readings : world[field] <= world'[field]
    BY <1>6 DEF Readings, WorldFields, Amounts
  <2> QED BY <1>3, <2>1, NumbersAssumption DEF Breached, Readings, NoValue
<1>8. \A field \in {"requests_last_minute", "tokens_today", "month_to_date_cost_usd"} :
         world[field] <= world'[field]
  BY <1>6 DEF WorldFields, Amounts
<1> QED BY <1>2, <1>4, <1>7, <1>8 DEF NumericWorld, WorseWorld

LEMMA TimesKeepsOrder ==
  ASSUME NEW a \in Int, NEW b \in Int, a <= b, NEW k \in Int, k >= 0
  PROVE  a * k <= b * k
<1>1. (b - a) * k >= 0
  <2>1. PICK d \in Nat : d = b - a
    OBVIOUS
  <2>2. d * k >= 0
    OBVIOUS
  <2> QED BY <2>1, <2>2
<1>2. (b - a) * k = b * k - a * k
  OBVIOUS
<1> QED BY <1>1, <1>2

\* What enrichment makes of a row's fields.
KeepsTheRest(r, e) ==
    \A field \in Words \cup {"input_tokens", "output_tokens", "tool_access", "labelled",
                             "writer", "prompt"} : e[field] = r[field]

Counted(r, w, e) ==
    IF w.redis = "up"
    THEN /\ e.requests_last_minute = w.requests_last_minute
         /\ e.tokens_today = w.tokens_today
    ELSE /\ e.requests_last_minute = r.requests_last_minute
         /\ e.tokens_today = r.tokens_today

Month(w) == IF w.redis = "up" THEN w.month_to_date_cost_usd ELSE 0

Derived(r, w, e) ==
    LET rates == Rates(r.model)
    IN  /\ e.cost_per_request_usd = r.input_tokens * rates.input
                                      + r.output_tokens * rates.output
        /\ e.cost_per_hour_usd = rates.hourly
        /\ e.month_to_date_cost_usd = Month(w)
        /\ e.forecast_monthly_cost_usd = Larger((Month(w) * 5) \div 4, rates.hourly * 72)
        /\ e.sensitive_data = (\/ r.team \in Sensitive
                               \/ r.namespace \in SensitiveNamespaces
                               \/ r.labelled)
        /\ e.write_permission = (r.team \in Writers \/ r.writer)

KeepsClaims(r, e) ==
    \A field \in {"cost_per_request_usd", "cost_per_hour_usd", "month_to_date_cost_usd",
                  "forecast_monthly_cost_usd", "sensitive_data", "write_permission"} :
       e[field] = r[field]

LEMMA EnrichedFields ==
  ASSUME NEW r, IsRow(r), NEW w, NEW e, e = Enrich(r, w)
  PROVE  /\ KeepsTheRest(r, e) /\ Counted(r, w, e)
         /\ r.simulate => KeepsClaims(r, e)
         /\ ~r.simulate => Derived(r, w, e)
<1> DEFINE c == WithCounters(r, w)
           m == WithCosts(c, Month(w))
           counted == Counters
           costs == Costs
           derived == Sensitivity
<1>1. /\ IsRow(c)
      /\ \A field \in RequestFields \ counted : c[field] = r[field]
      /\ w.redis = "up" => /\ c.requests_last_minute = w.requests_last_minute
                           /\ c.tokens_today = w.tokens_today
      /\ w.redis # "up" => /\ c.requests_last_minute = r.requests_last_minute
                           /\ c.tokens_today = r.tokens_today
  BY CounterFields
<1>2. CASE r.simulate
  <2>1. e = c
    BY <1>2 DEF Enrich
  <2> HIDE DEF c
  <2>2. KeepsTheRest(r, e) /\ KeepsClaims(r, e)
    <3>1. \A field \in RequestFields \ Counters : e[field] = r[field]
      BY <1>1, <2>1
    <3> QED BY <3>1 DEF RequestFields, Counters, Words, Spent, Flags, KeepsTheRest, KeepsClaims
  <2> QED BY <1>1, <1>2, <2>1, <2>2 DEF Counted
<1>3. CASE ~r.simulate
  <2>1. e = WithSensitivity(m)
    BY <1>3 DEF Enrich, Month
  <2>2. /\ IsRow(m)
        /\ \A field \in RequestFields \ costs : m[field] = c[field]
        /\ m.cost_per_request_usd = c.input_tokens * Rates(c.model).input
                                      + c.output_tokens * Rates(c.model).output
        /\ m.cost_per_hour_usd = Rates(c.model).hourly
        /\ m.month_to_date_cost_usd = Month(w)
        /\ m.forecast_monthly_cost_usd = Larger((Month(w) * 5) \div 4,
                                                Rates(c.model).hourly * 72)
    BY <1>1, CostFields
  <2> HIDE DEF m
  <2>3. /\ IsRow(e)
        /\ \A field \in RequestFields \ derived : e[field] = m[field]
        /\ e.sensitive_data = (\/ m.team \in Sensitive
                               \/ m.namespace \in SensitiveNamespaces
                               \/ m.labelled)
        /\ e.write_permission = (m.team \in Writers \/ m.writer)
    BY <2>1, <2>2, SensitivityFields DEF Classified
  <2> HIDE DEF c
  <2>4. \A field \in RequestFields \ (counted \cup costs \cup derived) :
          c[field] = r[field] /\ m[field] = r[field] /\ e[field] = r[field]
    BY <1>1, <2>2, <2>3
  <2>5. KeepsTheRest(r, e)
    BY <2>4 DEF RequestFields, Words, Spent, Flags, Counters, Costs, Sensitivity, KeepsTheRest
  <2>6. \A field \in {"team", "namespace", "model", "labelled", "writer", "input_tokens",
                      "output_tokens"} : c[field] = r[field] /\ m[field] = r[field]
    BY <2>4 DEF RequestFields, Counters, Costs, Sensitivity
  <2>7. \A field \in counted : e[field] = c[field]
    <3>1. \A field \in counted : field \in (RequestFields \ costs) \ derived
      BY DEF RequestFields, Counters, Costs, Sensitivity
    <3> QED BY <2>2, <2>3, <3>1
  <2>8. \A field \in costs : e[field] = m[field]
    <3>1. \A field \in costs : field \in RequestFields \ derived
      BY DEF RequestFields, Costs, Sensitivity
    <3> QED BY <2>3, <3>1
  <2>9. Counted(r, w, e)
    BY <1>1, <2>7 DEF Counted, Counters
  <2>10. /\ c.input_tokens = r.input_tokens /\ c.output_tokens = r.output_tokens
         /\ c.model = r.model
         /\ m.team = r.team /\ m.namespace = r.namespace /\ m.labelled = r.labelled
         /\ m.writer = r.writer
    BY <2>6
  <2>11. /\ e.cost_per_request_usd = m.cost_per_request_usd
         /\ e.cost_per_hour_usd = m.cost_per_hour_usd
         /\ e.month_to_date_cost_usd = m.month_to_date_cost_usd
         /\ e.forecast_monthly_cost_usd = m.forecast_monthly_cost_usd
    BY <2>8 DEF Costs
  <2>12. Derived(r, w, e)
    BY <2>2, <2>3, <2>10, <2>11 DEF Derived
  <2> QED BY <1>3, <2>5, <2>9, <2>12
<1> QED BY <1>2, <1>3

LEMMA RatesAreNumbers ==
  ASSUME NEW model
  PROVE  /\ Rates(model).input \in Int /\ Rates(model).output \in Int
         /\ Rates(model).hourly \in Int
         /\ NoDiscount => Rates(model).input >= 0 /\ Rates(model).output >= 0
<1>1. Rates(model) \in AllRates
  BY DEF Rates, AllRates
<1> QED BY <1>1, NumbersAssumption DEF NoDiscount

\* Enrichment keeps the order: dearer tokens, spend and labels yield a graver row.
LEMMA EnrichKeepsOrder ==
  ASSUME NoDiscount, NEW r, NEW q, NEW w, NEW v,
         IsRow(r), IsRow(q),
         Numeric(r), Numeric(q), Worse(r, q),
         NumericWorld(w), NumericWorld(v), WorseWorld(w, v),
         NEW e, e = Enrich(r, w), NEW f, f = Enrich(q, v)
  PROVE  Numeric(e) /\ Numeric(f) /\ Worse(e, f)
<1>1. PICK month, later \in Nat : month = Month(w) /\ later = Month(v) /\ month <= later
  BY DEF Month, NumericWorld, WorseWorld
<1>2. /\ KeepsTheRest(r, e) /\ Counted(r, w, e)
      /\ r.simulate => KeepsClaims(r, e)
      /\ ~r.simulate => Derived(r, w, e)
  BY EnrichedFields
<1>3. /\ KeepsTheRest(q, f) /\ Counted(q, v, f)
      /\ q.simulate => KeepsClaims(q, f)
      /\ ~q.simulate => Derived(q, v, f)
  BY EnrichedFields
<1>4. /\ r.simulate = q.simulate /\ r.model = q.model /\ r.team = q.team
      /\ r.namespace = q.namespace
  BY DEF Worse, Words, RequestFields, Spent, Flags
<1>5. PICK in, out, hourly \in Int : /\ in = Rates(r.model).input
                                    /\ out = Rates(r.model).output
                                    /\ hourly = Rates(r.model).hourly
                                    /\ in >= 0 /\ out >= 0
  BY RatesAreNumbers
<1>6. \A field \in Words : e[field] = f[field]
  BY <1>2, <1>3 DEF Worse, KeepsTheRest
<1>7. e.prompt \subseteq f.prompt
  <2>1. e.prompt = r.prompt /\ f.prompt = q.prompt
    BY <1>2, <1>3 DEF KeepsTheRest
  <2> QED BY <2>1 DEF Worse
<1>8. /\ e.input_tokens = r.input_tokens /\ f.input_tokens = q.input_tokens
      /\ e.output_tokens = r.output_tokens /\ f.output_tokens = q.output_tokens
  BY <1>2, <1>3 DEF KeepsTheRest
<1>9. /\ r.input_tokens \in Int /\ q.input_tokens \in Int
      /\ r.output_tokens \in Int /\ q.output_tokens \in Int
      /\ r.input_tokens <= q.input_tokens /\ r.output_tokens <= q.output_tokens
  BY DEF Worse, Numeric, Spent
<1>10. /\ e.requests_last_minute \in Int /\ f.requests_last_minute \in Int
       /\ e.tokens_today \in Int /\ f.tokens_today \in Int
       /\ e.requests_last_minute <= f.requests_last_minute
       /\ e.tokens_today <= f.tokens_today
  <2>1. w.redis = v.redis
    BY DEF WorseWorld
  <2>2. CASE w.redis = "up"
    BY <1>2, <1>3, <2>1, <2>2 DEF WorseWorld, NumericWorld, Counted
  <2>3. CASE w.redis # "up"
    BY <1>2, <1>3, <2>1, <2>3 DEF Worse, Numeric, Spent, Counted
  <2> QED BY <2>2, <2>3
<1>11. CASE r.simulate
  <2>1. KeepsClaims(r, e) /\ KeepsClaims(q, f)
    BY <1>2, <1>3, <1>4, <1>11
  <2>2. /\ \A field \in Spent : e[field] \in Int /\ f[field] \in Int /\ e[field] <= f[field]
        /\ \A field \in {"sensitive_data", "write_permission"} : e[field] => f[field]
    BY <1>8, <1>9, <1>10, <2>1 DEF Worse, Numeric, Spent, Flags, KeepsClaims
  <2>3. /\ e.tool_access = r.tool_access /\ f.tool_access = q.tool_access
        /\ e.labelled = r.labelled /\ f.labelled = q.labelled
        /\ e.writer = r.writer /\ f.writer = q.writer
    BY <1>2, <1>3 DEF KeepsTheRest
  <2>4. \A field \in Flags : e[field] => f[field]
    BY <2>2, <2>3 DEF Worse, Flags
  <2> QED BY <1>6, <1>7, <2>2, <2>4 DEF Numeric, Worse
<1>12. CASE ~r.simulate
  <2>1. Derived(r, w, e) /\ Derived(q, v, f)
    BY <1>2, <1>3, <1>4, <1>12
  <2>2. /\ e.cost_per_request_usd = r.input_tokens * in + r.output_tokens * out
        /\ f.cost_per_request_usd = q.input_tokens * in + q.output_tokens * out
    BY <1>4, <1>5, <2>1 DEF Derived
  <2>3. /\ e.cost_per_hour_usd = hourly /\ f.cost_per_hour_usd = hourly
        /\ e.month_to_date_cost_usd = month /\ f.month_to_date_cost_usd = later
        /\ e.forecast_monthly_cost_usd = Larger((month * 5) \div 4, hourly * 72)
        /\ f.forecast_monthly_cost_usd = Larger((later * 5) \div 4, hourly * 72)
    BY <1>1, <1>4, <1>5, <2>1 DEF Derived
  <2>4. /\ e.cost_per_request_usd \in Int /\ f.cost_per_request_usd \in Int
        /\ e.cost_per_request_usd <= f.cost_per_request_usd
    <3> DEFINE a == r.input_tokens * in
               b == q.input_tokens * in
               c == r.output_tokens * out
               d == q.output_tokens * out
    <3>1. a <= b /\ c <= d
      BY <1>5, <1>9, TimesKeepsOrder
    <3>2. a \in Int /\ b \in Int /\ c \in Int /\ d \in Int
      BY <1>5, <1>9
    <3>3. e.cost_per_request_usd = a + c /\ f.cost_per_request_usd = b + d
      BY <2>2
    <3> HIDE DEF a, b, c, d
    <3> QED BY <3>1, <3>2, <3>3
  <2>5. /\ e.forecast_monthly_cost_usd \in Int /\ f.forecast_monthly_cost_usd \in Int
        /\ e.forecast_monthly_cost_usd <= f.forecast_monthly_cost_usd
    <3>1. /\ (month * 5) \div 4 \in Int /\ (later * 5) \div 4 \in Int
          /\ (month * 5) \div 4 <= (later * 5) \div 4 /\ hourly * 72 \in Int
      BY <1>1
    <3> QED BY <2>3, <3>1 DEF Larger
  <2>6. \A field \in Spent : e[field] \in Int /\ f[field] \in Int /\ e[field] <= f[field]
    BY <1>1, <1>5, <1>8, <1>9, <1>10, <2>3, <2>4, <2>5 DEF Spent
  <2>7. /\ e.tool_access = r.tool_access /\ f.tool_access = q.tool_access
        /\ e.labelled = r.labelled /\ f.labelled = q.labelled
        /\ e.writer = r.writer /\ f.writer = q.writer
    BY <1>2, <1>3 DEF KeepsTheRest
  <2>8. /\ r.labelled => q.labelled
        /\ r.writer => q.writer
        /\ r.tool_access => q.tool_access
    BY DEF Worse, Flags
  <2>9. e.sensitive_data => f.sensitive_data
    <3>1. /\ e.sensitive_data = (\/ r.team \in Sensitive
                                 \/ r.namespace \in SensitiveNamespaces
                                 \/ r.labelled)
          /\ f.sensitive_data = (\/ q.team \in Sensitive
                                 \/ q.namespace \in SensitiveNamespaces
                                 \/ q.labelled)
      BY <2>1 DEF Derived
    <3> QED BY <1>4, <2>8, <3>1
  <2>10. e.write_permission => f.write_permission
    <3>1. /\ e.write_permission = (r.team \in Writers \/ r.writer)
          /\ f.write_permission = (q.team \in Writers \/ q.writer)
      BY <2>1 DEF Derived
    <3> QED BY <1>4, <2>8, <3>1
  <2>11. \A field \in Flags : e[field] => f[field]
    BY <2>7, <2>8, <2>9, <2>10 DEF Flags
  <2> QED BY <1>6, <1>7, <2>6, <2>11 DEF Numeric, Worse
<1> QED BY <1>11, <1>12

-----------------------------------------------------------------------------
(* Engines *)

\* The fields of two rows of which one is worse, by name.
LEMMA SameWords ==
  ASSUME NEW r, NEW q, Worse(r, q)
  PROVE  /\ r.policy_pack = q.policy_pack /\ r.team = q.team /\ r.owner = q.owner
         /\ r.environment = q.environment /\ r.namespace = q.namespace
         /\ r.action = q.action /\ r.model = q.model /\ r.provider = q.provider
         /\ r.model_artifact_digest = q.model_artifact_digest
         /\ r.agent = q.agent /\ r.region = q.region
BY DEF Worse, Words, RequestFields, Spent, Flags

LEMMA LargerAmounts ==
  ASSUME NEW r, NEW q, Numeric(r), Numeric(q), Worse(r, q)
  PROVE  /\ r.input_tokens \in Int /\ q.input_tokens \in Int
         /\ r.output_tokens \in Int /\ q.output_tokens \in Int
         /\ r.requests_last_minute \in Int /\ q.requests_last_minute \in Int
         /\ r.tokens_today \in Int /\ q.tokens_today \in Int
         /\ r.cost_per_request_usd \in Int /\ q.cost_per_request_usd \in Int
         /\ r.cost_per_hour_usd \in Int /\ q.cost_per_hour_usd \in Int
         /\ r.month_to_date_cost_usd \in Int /\ q.month_to_date_cost_usd \in Int
         /\ r.forecast_monthly_cost_usd \in Int /\ q.forecast_monthly_cost_usd \in Int
         /\ r.input_tokens <= q.input_tokens /\ r.output_tokens <= q.output_tokens
         /\ r.requests_last_minute <= q.requests_last_minute
         /\ r.tokens_today <= q.tokens_today
         /\ r.cost_per_request_usd <= q.cost_per_request_usd
         /\ r.cost_per_hour_usd <= q.cost_per_hour_usd
         /\ r.month_to_date_cost_usd <= q.month_to_date_cost_usd
         /\ r.forecast_monthly_cost_usd <= q.forecast_monthly_cost_usd
BY DEF Worse, Numeric, Spent

LEMMA MoreFlags ==
  ASSUME NEW r, NEW q, Worse(r, q)
  PROVE  /\ r.sensitive_data => q.sensitive_data
         /\ r.write_permission => q.write_permission
         /\ r.tool_access => q.tool_access
         /\ r.prompt \subseteq q.prompt
BY DEF Worse, Flags

LEMMA PackKeepsOrder ==
  ASSUME NEW r, NEW q, Worse(r, q)
  PROVE  /\ PackName(r) = PackName(q) /\ Pack(r) = Pack(q)
         /\ PackForbids(r) => PackForbids(q)
<1>1. r.policy_pack = q.policy_pack /\ r.environment = q.environment
  BY SameWords
<1>2. PackName(r) = PackName(q)
  BY <1>1 DEF PackName
<1>3. Pack(r) = Pack(q)
  BY <1>2 DEF Pack
<1>4. /\ r.provider = q.provider /\ r.model = q.model /\ r.region = q.region
      /\ r.sensitive_data => q.sensitive_data
  BY SameWords, MoreFlags
<1> QED BY <1>1, <1>2, <1>3, <1>4 DEF PackForbids

\* The agents engine and the sovereign engine read nothing but words.
LEMMA AgentKeepsOrder ==
  ASSUME NEW r, NEW q, Worse(r, q)
  PROVE  AgentForbidden(r) <=> AgentForbidden(q)
<1>1. r.agent = q.agent /\ r.team = q.team /\ r.namespace = q.namespace /\ r.model = q.model
  BY SameWords
<1> QED BY <1>1 DEF AgentForbidden

LEMMA SovereignKeepsOrder ==
  ASSUME NEW r, NEW q, Worse(r, q)
  PROVE  SovereignForbidden(r) <=> SovereignForbidden(q)
<1>1. r.region = q.region /\ r.provider = q.provider /\ r.model = q.model
  BY SameWords
<1> QED BY <1>1 DEF SovereignForbidden

LEMMA PromptKeepsOrder ==
  ASSUME NEW r, NEW q, Worse(r, q), PromptDecision(r) = "block"
  PROVE  PromptDecision(q) = "block"
BY MoreFlags DEF PromptDecision

LEMMA QuotaKeepsOrder ==
  ASSUME NEW r, NEW q, Numeric(r), Numeric(q), Worse(r, q), NEW multiplier \in Int,
         QuotaDecision(r, multiplier) = "block"
  PROVE  QuotaDecision(q, multiplier) = "block"
<1>1. CASE r.team \notin DOMAIN Bundle.tenants
  BY <1>1, SameWords DEF QuotaDecision
<1>2. CASE r.team \in DOMAIN Bundle.tenants
  <2>1. PICK tenant : tenant = Bundle.tenants[r.team]
    OBVIOUS
  <2>2. /\ tenant.requests_per_minute \in Int /\ tenant.tokens_per_day \in Int
        /\ tenant.max_monthly_budget_usd \in Int
    BY <1>2, <2>1, NumbersAssumption
  <2>3. PICK rpm, tokens \in Int : /\ rpm = tenant.requests_per_minute * multiplier
                                  /\ tokens = tenant.tokens_per_day * multiplier
    BY <2>2
  <2>4. ASSUME NEW x
        PROVE  x.team = r.team =>
               QuotaExceeded(x, multiplier) =
                 (\/ rpm # 0 /\ x.requests_last_minute >= rpm
                  \/ tokens # 0 /\ x.tokens_today + x.input_tokens + x.output_tokens > tokens
                  \/ x.month_to_date_cost_usd + x.cost_per_request_usd
                       > tenant.max_monthly_budget_usd
                  \/ x.sensitive_data /\ ~tenant.sensitive_data_allowed)
    BY <2>1, <2>3 DEF QuotaExceeded
  <2>5. QuotaExceeded(r, multiplier)
    BY <1>2 DEF QuotaDecision
  <2>6. q.team = r.team
    BY SameWords
  <2>7. QuotaExceeded(q, multiplier)
    <3>1. rpm # 0 /\ r.requests_last_minute >= rpm => q.requests_last_minute >= rpm
      BY LargerAmounts
    <3>2. r.tokens_today + r.input_tokens + r.output_tokens > tokens
            => q.tokens_today + q.input_tokens + q.output_tokens > tokens
      BY LargerAmounts
    <3>3. PICK limit \in Int : limit = tenant.max_monthly_budget_usd
      BY <2>2
    <3>4. r.month_to_date_cost_usd + r.cost_per_request_usd > limit
            => q.month_to_date_cost_usd + q.cost_per_request_usd > limit
      BY LargerAmounts
    <3>5. r.sensitive_data => q.sensitive_data
      BY MoreFlags
    <3> QED BY <2>4, <2>5, <2>6, <3>1, <3>2, <3>3, <3>4, <3>5
  <2> QED BY <2>7 DEF QuotaDecision
<1> QED BY <1>1, <1>2

LEMMA RegistryKeepsOrder ==
  ASSUME NEW r, NEW q, Numeric(r), Numeric(q), Worse(r, q), RegistryForbidden(r)
  PROVE  RegistryForbidden(q)
<1>1. Registered(r.model) /\ r.model \in DOMAIN Bundle.models
  BY DEF RegistryForbidden, Registered
<1>2. Bundle.models[r.model].max_monthly_budget_usd \in Int
  BY <1>1, NumbersAssumption
<1>3. PICK limit \in Int : limit = Bundle.models[r.model].max_monthly_budget_usd
  BY <1>2
<1>4. r.forecast_monthly_cost_usd > limit => q.forecast_monthly_cost_usd > limit
  BY LargerAmounts
<1>5. r.sensitive_data => q.sensitive_data
  BY MoreFlags
<1>6. /\ r.model = q.model /\ r.namespace = q.namespace /\ r.team = q.team
      /\ r.model_artifact_digest = q.model_artifact_digest
  BY SameWords
<1> QED BY <1>3, <1>4, <1>5, <1>6 DEF RegistryForbidden

LEMMA CostKeepsOrder ==
  ASSUME NEW r, NEW q, Numeric(r), Numeric(q), Worse(r, q)
  PROVE  /\ CostBlocks(r) => CostBlocks(q)
         /\ CostWarns(r) /\ ~CostBlocks(r) => CostBlocks(q) \/ CostWarns(q)
<1>1. /\ Bundle.global.max_model_hourly_cost_usd \in Int
      /\ Bundle.global.warn_model_hourly_cost_usd \in Int
      /\ Bundle.global.max_forecast_monthly_cost_usd \in Int
      /\ Bundle.global.warn_forecast_monthly_cost_usd \in Int
  BY NumbersAssumption
<1>2. r.team \in DOMAIN Bundle.teams =>
         /\ Bundle.teams[r.team].monthly_budget_usd \in Int
         /\ Bundle.teams[r.team].warn_at_percent \in Int
  BY NumbersAssumption
<1>3. CostBlocks(r) => CostBlocks(q)
  BY <1>1, <1>2, SameWords, LargerAmounts DEF CostBlocks
<1>4. ASSUME CostWarns(r), ~CostBlocks(r) PROVE CostWarns(q)
  <2>1. PICK limit \in Int :
           limit = Bundle.teams[r.team].monthly_budget_usd
                     * Bundle.teams[r.team].warn_at_percent
    BY <1>2, <1>4 DEF CostBlocks
  <2>2. q.team = r.team
    BY SameWords
  <2> QED BY <1>1, <1>4, <2>1, <2>2, LargerAmounts DEF CostWarns
<1> QED BY <1>3, <1>4

\* Without discounts every factor adds points, and a level follows the points whatever
\* the order of the thresholds.
LEMMA ScoreKeepsOrder ==
  ASSUME NoDiscount, NEW r, NEW q, Numeric(r), Numeric(q), Worse(r, q)
  PROVE  RiskScore(r) \in Int /\ RiskScore(q) \in Int /\ RiskScore(r) <= RiskScore(q)
<1>1. ASSUME NEW factor \in Factors, NEW a, NEW b, a => b
      PROVE  /\ Points(factor, a) \in Int /\ Points(factor, b) \in Int
             /\ Points(factor, a) <= Points(factor, b)
  <2>1. PICK weight \in Int : weight = Bundle.score_weights[factor] /\ weight >= 0
    BY NumbersAssumption DEF NoDiscount
  <2> QED BY <1>1, <2>1 DEF Points
<1>2. RegistryPoints(r) \in Int /\ RegistryPoints(q) \in Int
      /\ RegistryPoints(r) <= RegistryPoints(q)
  <2>1. CASE ~Registered(r.model)
    <3>1. r.model = q.model
      BY SameWords
    <3>2. Bundle.score_weights["missing_owner"] \in Int
      BY NumbersAssumption DEF Factors
    <3> QED BY <2>1, <3>1, <3>2 DEF RegistryPoints
  <2>2. CASE Registered(r.model)
    <3>1. PICK entry : entry = Bundle.models[r.model]
      OBVIOUS
    <3>2. PICK a, b \in Int :
            /\ a = Points("high_cost_forecast", entry.risk_tier = "critical")
            /\ b = Points("external_provider", entry.risk_tier = "high")
      BY <1>1 DEF Factors
    <3>3. PICK c, d \in Int :
            /\ c = Points("sensitive_data", r.sensitive_data /\ ~entry.pii_allowed)
            /\ d = Points("sensitive_data", q.sensitive_data /\ ~entry.pii_allowed)
            /\ c <= d
      <4>1. "sensitive_data" \in Factors
        BY DEF Factors
      <4>2. (r.sensitive_data /\ ~entry.pii_allowed) => (q.sensitive_data /\ ~entry.pii_allowed)
        BY MoreFlags
      <4> QED BY <1>1, <4>1, <4>2
    <3>4. r.model = q.model
      BY SameWords
    <3>5. RegistryPoints(r) = a + b + c
      BY <2>2, <3>1, <3>2, <3>3 DEF RegistryPoints
    <3>6. RegistryPoints(q) = a + b + d
      BY <2>2, <3>1, <3>2, <3>3, <3>4 DEF RegistryPoints
    <3> QED BY <3>2, <3>3, <3>5, <3>6
  <2> QED BY <2>1, <2>2
<1>3. PICK p1, p2, p3 \in Int :
        /\ p1 = Points("missing_owner", r.owner = "")
        /\ p2 = Points("external_provider", r.provider \in Bundle.external_providers)
        /\ p3 = Points("production_namespace", \/ r.environment = "production"
                                               \/ r.namespace \in Bundle.production_namespaces
                                               \/ r.namespace \in ProdNamed)
  BY <1>1 DEF Factors
<1>4. PICK p9 \in Int : p9 = Points("deploy_permission", r.action \in DEPLOY_ACTIONS)
  BY <1>1 DEF Factors
<1>5. PICK r4, q4 \in Int :
        /\ r4 = Points("high_token_volume",
                   r.input_tokens + r.output_tokens >= Bundle.thresholds.high_token_volume)
        /\ q4 = Points("high_token_volume",
                   q.input_tokens + q.output_tokens >= Bundle.thresholds.high_token_volume)
        /\ r4 <= q4
  <2>1. (r.input_tokens + r.output_tokens >= Bundle.thresholds.high_token_volume)
          => (q.input_tokens + q.output_tokens >= Bundle.thresholds.high_token_volume)
    BY LargerAmounts, NumbersAssumption
  <2> QED BY <1>1, <2>1 DEF Factors
<1>6. PICK r5, q5 \in Int :
        /\ r5 = Points("high_cost_forecast",
                   r.forecast_monthly_cost_usd >= Bundle.thresholds.high_cost_forecast_usd)
        /\ q5 = Points("high_cost_forecast",
                   q.forecast_monthly_cost_usd >= Bundle.thresholds.high_cost_forecast_usd)
        /\ r5 <= q5
  <2>1. (r.forecast_monthly_cost_usd >= Bundle.thresholds.high_cost_forecast_usd)
          => (q.forecast_monthly_cost_usd >= Bundle.thresholds.high_cost_forecast_usd)
    BY LargerAmounts, NumbersAssumption
  <2> QED BY <1>1, <2>1 DEF Factors
<1>7. PICK r6, q6, r7, q7, r8, q8 \in Int :
        /\ r6 = Points("sensitive_data", r.sensitive_data)
        /\ q6 = Points("sensitive_data", q.sensitive_data)
        /\ r7 = Points("tool_access", r.tool_access)
        /\ q7 = Points("tool_access", q.tool_access)
        /\ r8 = Points("write_permission", r.write_permission)
        /\ q8 = Points("write_permission", q.write_permission)
        /\ r6 <= q6 /\ r7 <= q7 /\ r8 <= q8
  BY <1>1, MoreFlags DEF Factors
<1>8. RiskScore(r) = p1 + p2 + p3 + r4 + r5 + r6 + r7 + r8 + p9 + RegistryPoints(r)
  BY <1>3, <1>4, <1>5, <1>6, <1>7 DEF RiskScore
<1>9. /\ p1 = Points("missing_owner", q.owner = "")
      /\ p2 = Points("external_provider", q.provider \in Bundle.external_providers)
      /\ p3 = Points("production_namespace", \/ q.environment = "production"
                                             \/ q.namespace \in Bundle.production_namespaces
                                             \/ q.namespace \in ProdNamed)
      /\ p9 = Points("deploy_permission", q.action \in DEPLOY_ACTIONS)
  <2>1. r.owner = q.owner /\ r.provider = q.provider /\ r.environment = q.environment
        /\ r.namespace = q.namespace /\ r.action = q.action
    BY SameWords
  <2> QED BY <1>3, <1>4, <2>1
<1>10. RiskScore(q) = p1 + p2 + p3 + q4 + q5 + q6 + q7 + q8 + p9 + RegistryPoints(q)
  BY <1>5, <1>6, <1>7, <1>9 DEF RiskScore
<1> QED BY <1>2, <1>5, <1>6, <1>7, <1>8, <1>10

LEMMA LevelKeepsOrder ==
  ASSUME NoDiscount, NEW r, NEW q, Numeric(r), Numeric(q), Worse(r, q)
  PROVE  /\ RiskLevel(r) \in DOMAIN RISK_ORDER /\ RiskLevel(q) \in DOMAIN RISK_ORDER
         /\ RISK_ORDER[RiskLevel(r)] <= RISK_ORDER[RiskLevel(q)]
<1>1. PICK x, y \in Int : /\ x = Smaller(RiskScore(r), 100) /\ y = Smaller(RiskScore(q), 100)
                         /\ x <= y
  BY ScoreKeepsOrder DEF Smaller
<1>2. PICK t : t = Bundle.thresholds
  OBVIOUS
<1>3. t.critical_min \in Int /\ t.high_min \in Int /\ t.medium_min \in Int
  BY <1>2, NumbersAssumption
<1> QED BY <1>1, <1>2, <1>3 DEF RiskLevel, LevelOf, RISK_ORDER

\* A level that asks for approval, or blocks, does so when it rises.
LEMMA PackAsksKeepsOrder ==
  ASSUME NEW r, NEW q, Worse(r, q), ~PackForbids(q),
         NEW low \in DOMAIN RISK_ORDER, NEW high \in DOMAIN RISK_ORDER,
         RISK_ORDER[low] <= RISK_ORDER[high], PackAfter(r, low) = "approval_required"
  PROVE  PackAfter(q, high) = "approval_required"
<1>1. Pack(r) = Pack(q) /\ ~PackForbids(r)
  BY PackKeepsOrder
<1>2. PICK min : min = Pack(q).min_risk_for_approval
  OBVIOUS
<1>3. min \in DOMAIN RISK_ORDER /\ RISK_ORDER[low] >= RISK_ORDER[min]
  BY <1>1, <1>2 DEF PackAfter
<1>4. RISK_ORDER[low] \in Int /\ RISK_ORDER[high] \in Int /\ RISK_ORDER[min] \in Int
  BY <1>3 DEF RISK_ORDER
<1> QED BY <1>2, <1>3, <1>4 DEF PackAfter

LEMMA ApprovalKeepsOrder ==
  ASSUME NEW r, NEW q, Numeric(r), Numeric(q), Worse(r, q),
         NEW low \in DOMAIN RISK_ORDER, NEW high \in DOMAIN RISK_ORDER,
         RISK_ORDER[low] <= RISK_ORDER[high],
         NEW cost, NEW dearer, cost = "block" => dearer = "block",
         cost = "warn" => dearer \in {"warn", "block"}
  PROVE  /\ ApprovalDecision(r, cost, low) = "block" =>
              ApprovalDecision(q, dearer, high) = "block"
         /\ ApprovalDecision(r, cost, low) = "approval_required" =>
              ApprovalDecision(q, dearer, high) \in {"approval_required", "block"}
<1>1. ApprovalBlocks(r, cost) => ApprovalBlocks(q, dearer)
  BY SameWords DEF ApprovalBlocks
<1>2. low \in {"high", "critical"} => high \in {"high", "critical"}
  BY DEF RISK_ORDER
<1>3. ASSUME ApprovalAsks(r, cost, low)
      PROVE  ApprovalBlocks(q, dearer) \/ ApprovalAsks(q, dearer, high)
  <2>1. dearer = "block" => ApprovalBlocks(q, dearer)
    BY DEF ApprovalBlocks
  <2> QED BY <1>2, <1>3, <2>1, SameWords, LargerAmounts DEF ApprovalAsks
<1> QED BY <1>1, <1>3 DEF ApprovalDecision

-----------------------------------------------------------------------------
(* The verdict *)

\* Every stage of t is as strict as that of s.
Stricter(s, t) ==
    /\ \A field \in {"prompt", "agent", "quota", "registry", "sovereign", "cost",
                     "approval"} : s[field] = "block" => t[field] = "block"
    /\ s.quota = "approval_required" => t.quota \in {"approval_required", "block"}
    /\ s.cost = "warn" => t.cost \in {"warn", "block"}
    /\ s.approval = "approval_required" => t.approval \in {"approval_required", "block"}
    /\ s.pack_post = "approval_required" => t.pack_post = "approval_required"
    /\ s.risk = "critical" => t.risk = "critical"
    /\ s.pack_pre = "allow"

LEMMA StagesKeepOrder ==
  ASSUME NoDiscount, NEW r, NEW q, Numeric(r), Numeric(q), Worse(r, q), ~PackForbids(q),
         NEW before, NEW after, before.unavailable = after.unavailable,
         before.on_unavailable = after.on_unavailable
  PROVE  Stricter(Stages(r, before), Stages(q, after))
<1>1. ~PackForbids(r) /\ Pack(r) = Pack(q)
  BY PackKeepsOrder
<1>2. PICK low, high \in DOMAIN RISK_ORDER :
         low = RiskLevel(r) /\ high = RiskLevel(q) /\ RISK_ORDER[low] <= RISK_ORDER[high]
  BY LevelKeepsOrder
<1>3. PICK cost : cost = CostDecision(r)
  OBVIOUS
<1>4. PICK dearer : dearer = CostDecision(q)
  OBVIOUS
<1>5. /\ cost = "block" => dearer = "block"
      /\ cost = "warn" => dearer \in {"warn", "block"}
  BY <1>3, <1>4, CostKeepsOrder DEF CostDecision
<1>6. PICK s : s = Judged(r, before, cost, low)
  OBVIOUS
<1>7. PICK t : t = Judged(q, after, dearer, high)
  OBVIOUS
<1>8. Stages(r, before) = s /\ Stages(q, after) = t
  BY <1>1, <1>2, <1>3, <1>4, <1>6, <1>7 DEF Stages, PackBefore
<1>9. /\ s.pack_pre = "allow" /\ s.prompt = PromptDecision(r)
      /\ s.agent = Forbids(AgentForbidden(r)) /\ s.quota = QuotaStage(r, before)
      /\ s.registry = Forbids(RegistryForbidden(r))
      /\ s.sovereign = Forbids(SovereignForbidden(r)) /\ s.cost = cost /\ s.risk = low
      /\ s.approval = ApprovalDecision(r, cost, low) /\ s.pack_post = PackAfter(r, low)
  BY <1>6 DEF Judged
<1>10. /\ t.pack_pre = "allow" /\ t.prompt = PromptDecision(q)
       /\ t.agent = Forbids(AgentForbidden(q)) /\ t.quota = QuotaStage(q, after)
       /\ t.registry = Forbids(RegistryForbidden(q))
       /\ t.sovereign = Forbids(SovereignForbidden(q)) /\ t.cost = dearer /\ t.risk = high
       /\ t.approval = ApprovalDecision(q, dearer, high)
       /\ t.pack_post = PackAfter(q, high)
  BY <1>7 DEF Judged
<1>11. s.prompt = "block" => t.prompt = "block"
  BY <1>9, <1>10, PromptKeepsOrder
<1>12. /\ AgentForbidden(r) <=> AgentForbidden(q)
       /\ SovereignForbidden(r) <=> SovereignForbidden(q)
  BY AgentKeepsOrder, SovereignKeepsOrder
<1>13. s.agent = t.agent /\ s.sovereign = t.sovereign
  BY <1>9, <1>10, <1>12 DEF Forbids
<1>14. s.registry = "block" => t.registry = "block"
  BY <1>9, <1>10, RegistryKeepsOrder DEF Forbids
<1>15. /\ s.quota = "block" => t.quota = "block"
       /\ s.quota = "approval_required" => t.quota = "approval_required"
  <2>1. CASE before.unavailable
    BY <1>9, <1>10, <2>1 DEF QuotaStage
  <2>2. CASE ~before.unavailable
    <3>1. PICK multiplier \in Int : multiplier = Pack(q).quota_multiplier
      BY NumbersAssumption DEF PackForbids, Pack
    <3>2. s.quota = QuotaDecision(r, multiplier) /\ t.quota = QuotaDecision(q, multiplier)
      BY <1>1, <1>9, <1>10, <2>2, <3>1 DEF QuotaStage
    <3>3. s.quota # "approval_required"
      BY <3>2 DEF QuotaDecision
    <3> QED BY <3>2, <3>3, QuotaKeepsOrder
  <2> QED BY <2>1, <2>2
<1>16. /\ s.approval = "block" => t.approval = "block"
       /\ s.approval = "approval_required" => t.approval \in {"approval_required", "block"}
  BY <1>2, <1>5, <1>9, <1>10, ApprovalKeepsOrder
<1>17. s.pack_post = "approval_required" => t.pack_post = "approval_required"
  BY <1>2, <1>9, <1>10, PackAsksKeepsOrder
<1>18. s.risk = "critical" => t.risk = "critical"
  BY <1>2, <1>9, <1>10 DEF RISK_ORDER
<1> QED BY <1>5, <1>8, <1>9, <1>10, <1>11, <1>13, <1>14, <1>15, <1>16, <1>17, <1>18
        DEF Stricter

LEMMA FinalVerdictKeepsOrder ==
  ASSUME NEW s, NEW t, Stricter(s, t)
  PROVE  /\ FinalVerdict(s) = "block" => FinalVerdict(t) = "block"
         /\ FinalVerdict(s) = "approval_required" =>
              FinalVerdict(t) \in {"approval_required", "block"}
BY DEF Stricter, FinalVerdict

\* Whatever makes a request or its surroundings graver keeps the verdict or makes it
\* stricter (enrich_governance_request, the engines and final_verdict), provided that no
\* risk factor takes points off and no token earns money.
THEOREM GraverNeverSofterHolds == ASSUME NoDiscount PROVE Spec => GraverNeverSofter
<1>1. ASSUME Evaluated, Evaluated', FieldsTyped, FieldsTyped',
             Graver(request, request'), Graver(world, world')
      PROVE  Severity(verdict') >= Severity(verdict)
  <2> DEFINE before == Telemetry(request, world)
             after == Telemetry(request', world')
  <2>1. /\ Numeric(request) /\ Numeric(request') /\ Worse(request, request')
        /\ NumericWorld(world) /\ NumericWorld(world') /\ WorseWorld(world, world')
    BY <1>1, GraverIsWorse, GraverIsWorseWorld
  <2>2. /\ row = Enrich(request, world) /\ row' = Enrich(request', world')
        /\ IsRow(request) /\ IsRow(request')
    BY <1>1 DEF Evaluated
  <2>3. Numeric(row) /\ Numeric(row') /\ Worse(row, row')
    BY <2>1, <2>2, EnrichKeepsOrder
  <2>4. request.simulate = request'.simulate
    BY <2>1 DEF Worse, Words, RequestFields, Spent, Flags
  <2>5. /\ before.unavailable = after.unavailable
        /\ before.on_unavailable = after.on_unavailable
        /\ before.block_reasons => after.block_reasons
    BY <2>1, <2>4 DEF Telemetry, Unavailable, WorseWorld
  <2>6. /\ stage = Stages(row, before) /\ verdict = Verdict(stage, before)
        /\ stage' = Stages(row', after) /\ verdict' = Verdict(stage', after)
    BY <1>1 DEF Evaluated
  <2> HIDE DEF before, after
  <2>7. /\ verdict = "block" => verdict' = "block"
        /\ verdict = "approval_required" => verdict' \in {"approval_required", "block"}
    <3>1. CASE after.block_reasons
      BY <2>6, <3>1 DEF Verdict
    <3>2. CASE PackForbids(row')
      <4>1. stage'.pack_pre = "block"
        BY <2>6, <3>2 DEF Stages, PackBefore, Skipped
      <4> QED BY <2>6, <4>1 DEF Verdict, FinalVerdict
    <3>3. CASE ~after.block_reasons /\ ~PackForbids(row')
      <4>1. Stricter(stage, stage')
        BY <2>3, <2>5, <2>6, <3>3, StagesKeepOrder
      <4>2. verdict = FinalVerdict(stage) /\ verdict' = FinalVerdict(stage')
        BY <2>5, <2>6, <3>3 DEF Verdict
      <4> QED BY <4>1, <4>2, FinalVerdictKeepsOrder
    <3> QED BY <3>1, <3>2, <3>3
  <2>8. verdict \in Verdicts /\ verdict' \in Verdicts
    BY <2>6 DEF Verdict, FinalVerdict, Verdicts
  <2>9. /\ Severity("allow") = 0 /\ Severity("approval_required") = 1
        /\ Severity("block") = 2
    BY DEF Severity
  <2> QED BY <2>7, <2>8, <2>9 DEF Verdicts
<1>2. Evaluated /\ Evaluated' /\ FieldsTyped /\ FieldsTyped' /\ [Next]_vars =>
        [ Graver(request, request') /\ Graver(world, world')
          => Severity(verdict') >= Severity(verdict) ]_vars
  BY <1>1
<1> QED BY <1>2, EvaluatedHolds, FieldsStayTyped, PTL DEF Spec, GraverNeverSofter

=============================================================================

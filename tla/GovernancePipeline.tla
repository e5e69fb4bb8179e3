--------------------------- MODULE GovernancePipeline ---------------------------
(***************************************************************************)
(* POST /governance/evaluate without an approval: what enrichment and the  *)
(* engines under governance/ decide, and the verdict drawn from them.      *)
(*                                                                         *)
(* An evaluation changes nothing, so a state is one evaluation: a request, *)
(* the world its reads met (Redis, Prometheus, the outage policy), the     *)
(* enriched row, what each stage said of it and the verdict. A step asks   *)
(* again with one thing different, which lets action properties compare    *)
(* two evaluations.                                                        *)
(*                                                                         *)
(* Money is in units of 0.0001 USD, tokens in thousands, multipliers are   *)
(* whole numbers, as in the shipped YAML.                                  *)
(***************************************************************************)
EXTENDS Integers, FiniteSets

CONSTANTS
    Bundle,             \* the policy bundle: packs, tenants, models, agents, regions, ...
    Pricing,            \* server-side rates of every model
    Sensitive, Writers, \* teams that are classified sensitive, teams that may write
    SensitiveNamespaces,
    ProdNamed,          \* namespaces whose name ends in "-prod"
    Lower,              \* lower-casing: a function on the names that are not lower case
    VerifySignatures,   \* MODEL_REGISTRY_VERIFY
    MaxErrorRate,       \* PROMETHEUS_MAX_ERROR_RATE, in thousandths
    MaxLatency,         \* PROMETHEUS_MAX_P95_LATENCY_MS
    RequestValues,      \* the values of every request field the runs vary
    WorldValues,        \* the same for what the reads meet
    Bases,              \* the <<request, world>> pairs the walk starts from
    MaxChanges          \* how many fields may differ from some base

VARIABLES request, world, row, stage, verdict
vars == <<request, world, row, stage, verdict>>

Verdicts == {"allow", "approval_required", "block"}

\* GovernanceEvaluateRequest, as far as an engine reads it, and what the headers add: a
\* sensitive label, a writers group, the right to simulate.
RequestFields ==
    {"policy_pack", "team", "owner", "environment", "namespace", "action", "model",
     "provider", "input_tokens", "output_tokens", "cost_per_request_usd",
     "cost_per_hour_usd", "month_to_date_cost_usd", "forecast_monthly_cost_usd",
     "sensitive_data", "tool_access", "write_permission", "requests_last_minute",
     "tokens_today", "model_artifact_digest", "prompt", "agent", "region",
     "labelled", "writer", "simulate"}

\* The quota snapshot, the Prometheus signals, QUOTA_ON_UNAVAILABLE.
WorldFields ==
    {"redis", "requests_last_minute", "tokens_today", "month_to_date_cost_usd",
     "gateway_error_rate", "gateway_p95_latency_ms", "on_unavailable"}

ASSUME PipelineAssumption ==
    /\ \A b \in Bases : /\ b[1] = [field \in RequestFields |-> b[1][field]]
                        /\ b[2] = [field \in WorldFields |-> b[2][field]]
                        /\ b[2].on_unavailable \in Verdicts
    /\ DOMAIN RequestValues \subseteq RequestFields
    /\ DOMAIN WorldValues \subseteq WorldFields
    /\ "on_unavailable" \in DOMAIN WorldValues => WorldValues.on_unavailable \subseteq Verdicts

\* A signal without a value (disabled, unreachable, no data) breaches nothing.
NoValue == -1

Readings == {"gateway_error_rate", "gateway_p95_latency_ms"}
Amounts ==
    {"cost_per_request_usd", "cost_per_hour_usd", "month_to_date_cost_usd",
     "forecast_monthly_cost_usd", "requests_last_minute", "tokens_today",
     "input_tokens", "output_tokens"} \cup Readings
Flags == {"sensitive_data", "write_permission", "tool_access", "labelled", "writer"}

\* What a field may hold; amounts are not negative (ge=0), nor are rates and latencies.
Possible(field) ==
    IF field \in Readings THEN Nat \cup {NoValue}
    ELSE IF field \in Amounts THEN Nat ELSE BOOLEAN

ASSUME FieldsAssumption ==
    /\ \A b \in Bases : \A field \in Amounts \cup Flags :
           /\ field \in RequestFields => b[1][field] \in Possible(field)
           /\ field \in WorldFields => b[2][field] \in Possible(field)
    /\ \A field \in (Amounts \cup Flags) \cap DOMAIN RequestValues :
           RequestValues[field] \subseteq Possible(field)
    /\ \A field \in (Amounts \cup Flags) \cap DOMAIN WorldValues :
           WorldValues[field] \subseteq Possible(field)

Factors ==
    {"missing_owner", "external_provider", "production_namespace", "high_token_volume",
     "high_cost_forecast", "sensitive_data", "tool_access", "write_permission",
     "deploy_permission"}

AllRates == {Pricing.default} \cup {Pricing.models[m] : m \in DOMAIN Pricing.models}

\* Limits, budgets, weights and rates are numbers.
ASSUME NumbersAssumption ==
    /\ MaxErrorRate \in Int /\ MaxLatency \in Int
    /\ \A factor \in Factors : Bundle.score_weights[factor] \in Int
    /\ LET t == Bundle.thresholds
       IN  {t.high_token_volume, t.high_cost_forecast_usd, t.medium_min, t.high_min,
            t.critical_min} \subseteq Int
    /\ LET g == Bundle.global
       IN  {g.max_model_hourly_cost_usd, g.warn_model_hourly_cost_usd,
            g.max_forecast_monthly_cost_usd, g.warn_forecast_monthly_cost_usd} \subseteq Int
    /\ \A name \in DOMAIN Bundle.packs : Bundle.packs[name].quota_multiplier \in Int
    /\ \A name \in DOMAIN Bundle.tenants :
           LET t == Bundle.tenants[name]
           IN  {t.requests_per_minute, t.tokens_per_day, t.max_monthly_budget_usd}
                 \subseteq Int
    /\ \A name \in DOMAIN Bundle.models :
           Bundle.models[name].max_monthly_budget_usd \in Int
    /\ \A name \in DOMAIN Bundle.teams :
           LET t == Bundle.teams[name]
           IN  {t.monthly_budget_usd, t.warn_at_percent} \subseteq Int
    /\ \A rates \in AllRates :
           {rates.input, rates.output, rates.hourly} \subseteq Int

Severity(v) == CASE v = "allow" -> 0 [] v = "approval_required" -> 1 [] v = "block" -> 2

RISK_ORDER == [low |-> 1, medium |-> 2, high |-> 3, critical |-> 4]
EXTERNAL_PROVIDERS == {"anthropic", "openai", "external"}
DEPLOY_ACTIONS == {"deploy_model", "enable_external_model", "scale_replicas"}
SUPPORTED_TEAMS == {"platform", "search", "mlops", "finance"}
FORBIDDEN_MODELS == {"unknown-frontier-model"}

LowerCase(s) == IF s \in DOMAIN Lower THEN Lower[s] ELSE s
Larger(a, b) == IF a < b THEN b ELSE a
Smaller(a, b) == IF b < a THEN b ELSE a
Registered(m) == m \in DOMAIN Bundle.models

-----------------------------------------------------------------------------
(* Enrichment *)

\* No counters to decide by: Redis failed, or it is off and the caller may not simulate.
OnlyOutages(r, w) == w.redis = "down"

Unavailable(r, w) == w.redis # "up" /\ (w.redis = "off" => ~r.simulate)

Rates(m) == IF m \in DOMAIN Pricing.models THEN Pricing.models[m] ELSE Pricing.default

\* The row with the counters of Redis, when it answers.
WithCounters(r, w) ==
    IF w.redis = "up"
    THEN [r EXCEPT !.requests_last_minute = w.requests_last_minute,
                   !.tokens_today = w.tokens_today]
    ELSE r

\* derive_request_cost: the forecast is the larger of spend + 25% and 10% of a month's hours.
WithCosts(r, month) ==
    LET rates == Rates(r.model)
    IN  [r EXCEPT
          !.cost_per_request_usd = r.input_tokens * rates.input + r.output_tokens * rates.output,
          !.cost_per_hour_usd = rates.hourly,
          !.month_to_date_cost_usd = month,
          !.forecast_monthly_cost_usd = Larger((month * 5) \div 4, rates.hourly * 72)]

\* derive_sensitivity: classification of team and namespace, label, the caller's groups.
WithSensitivity(r) ==
    [r EXCEPT !.sensitive_data = \/ r.team \in Sensitive
                                \/ r.namespace \in SensitiveNamespaces
                                \/ r.labelled,
              !.write_permission = r.team \in Writers \/ r.writer]

EnrichMetered(r, w) ==
    IF r.simulate \/ w.redis # "up" THEN WithCounters(r, w)
    ELSE WithSensitivity(WithCosts(WithCounters(r, w), w.month_to_date_cost_usd))

\* The server's values replace the client's, unless the caller may simulate; the counters
\* of Redis replace them for everybody.
Enrich(r, w) ==
    LET counted == WithCounters(r, w)
    IN  IF r.simulate THEN counted
        ELSE WithSensitivity(
               WithCosts(counted, IF w.redis = "up" THEN w.month_to_date_cost_usd ELSE 0))

Breached(w) ==
    \/ w.gateway_error_rate # NoValue /\ w.gateway_error_rate > MaxErrorRate
    \/ w.gateway_p95_latency_ms # NoValue /\ w.gateway_p95_latency_ms > MaxLatency

-----------------------------------------------------------------------------
(* The engines, each on an enriched row *)

PackName(r) ==
    LET environment == LowerCase(r.environment)
    IN  IF r.policy_pack # "" THEN r.policy_pack
        ELSE IF environment \in DOMAIN Bundle.environment_map
             THEN Bundle.environment_map[environment]
             ELSE Bundle.default_pack

Pack(r) == Bundle.packs[PackName(r)]

PackForbids(r) ==
    \/ PackName(r) \notin DOMAIN Bundle.packs
    \/ Pack(r).require_environment \notin {"", r.environment}
    \/ Pack(r).block_external_providers /\ r.provider \in EXTERNAL_PROVIDERS
    \/ Pack(r).block_unknown_models /\ ~Registered(r.model)
    \/ Pack(r).block_sensitive_data /\ r.sensitive_data
    \/ Pack(r).require_region \notin {"", r.region}

\* evaluate_pack before the engines (no risk level known) ...
PackBefore(r) == IF PackForbids(r) THEN "block" ELSE "allow"

\* ... and after them.
PackAfter(r, level) ==
    IF PackForbids(r) THEN "block"
    ELSE IF /\ Pack(r).min_risk_for_approval \in DOMAIN RISK_ORDER
            /\ RISK_ORDER[level] >= RISK_ORDER[Pack(r).min_risk_for_approval]
         THEN "approval_required"
         ELSE "allow"

\* The kinds of pattern found in the prompt; the lesser decision, "warn", blocks nothing.
PromptDecision(r) ==
    IF r.prompt \cap {"injection", "secret"} # {} \/ ("pii" \in r.prompt /\ r.sensitive_data)
    THEN "block" ELSE "allow"

\* No tool is ever part of a pipeline row.
AgentForbidden(r) ==
    /\ r.agent # ""
    /\ \/ r.agent \notin DOMAIN Bundle.agents
       \/ LET entry == Bundle.agents[r.agent]
          IN  \/ entry.forbidden
              \/ entry.allowed_teams # {} /\ r.team \notin entry.allowed_teams
              \/ entry.allowed_namespaces # {} /\ r.namespace \notin entry.allowed_namespaces
              \/ r.model # "" /\ entry.model \notin {"", r.model}

ExceededAtTheLimit(r, multiplier) ==
    LET rpm == Bundle.tenants[r.team].requests_per_minute * multiplier
    IN  rpm # 0 /\ r.requests_last_minute = rpm

\* A limit of 0 limits nothing.
QuotaExceeded(r, multiplier) ==
    LET tenant == Bundle.tenants[r.team]
        rpm == tenant.requests_per_minute * multiplier
        tokens == tenant.tokens_per_day * multiplier
    IN  \/ rpm # 0 /\ r.requests_last_minute >= rpm
        \/ tokens # 0 /\ r.tokens_today + r.input_tokens + r.output_tokens > tokens
        \/ r.month_to_date_cost_usd + r.cost_per_request_usd > tenant.max_monthly_budget_usd
        \/ r.sensitive_data /\ ~tenant.sensitive_data_allowed

QuotaDecision(r, multiplier) ==
    IF r.team \notin DOMAIN Bundle.tenants \/ QuotaExceeded(r, multiplier)
    THEN "block" ELSE "allow"

\* The quota stage: without counters the outage policy replaces the engine's decision.
QuotaStage(r, telemetry) ==
    IF telemetry.unavailable THEN telemetry.on_unavailable
    ELSE QuotaDecision(r, Pack(r).quota_multiplier)

\* An entry without a namespace list has every namespace; a digest of "" is none.
\* signature is "" (none), "valid" or "invalid".
RegistryForbidden(r) ==
    /\ Registered(r.model)
    /\ LET entry == Bundle.models[r.model]
       IN  \/ entry.forbidden
           \/ r.namespace \notin entry.allowed_namespaces
           \/ r.sensitive_data /\ ~entry.pii_allowed
           \/ entry.allowed_teams # {} /\ r.team \notin entry.allowed_teams
           \/ /\ "" \notin {entry.artifact_digest, r.model_artifact_digest}
              /\ r.model_artifact_digest # entry.artifact_digest
           \/ /\ VerifySignatures
              /\ \/ entry.signature = "" /\ entry.artifact_digest # ""
                 \/ entry.signature = "invalid"
           \/ r.forecast_monthly_cost_usd > entry.max_monthly_budget_usd

SovereignForbidden(r) ==
    LET region == IF r.region = "" THEN Bundle.default_region ELSE r.region
        external == \/ LowerCase(r.provider) \in EXTERNAL_PROVIDERS
                    \/ Registered(r.model) /\ Bundle.models[r.model].external_provider
    IN  \/ /\ external
           /\ region \in DOMAIN Bundle.regions
           /\ \/ Bundle.regions[region].block_external_providers
              \/ Bundle.regions[region].require_local_model
        \/ /\ Registered(r.model)
           /\ Bundle.models[r.model].allowed_regions # {}
           /\ region \notin Bundle.models[r.model].allowed_regions

CostBlocks(r) ==
    \/ r.team \notin DOMAIN Bundle.teams
    \/ r.model \notin Bundle.teams[r.team].allowed_models
    \/ r.month_to_date_cost_usd > Bundle.teams[r.team].monthly_budget_usd
    \/ r.cost_per_hour_usd > Bundle.global.max_model_hourly_cost_usd
    \/ r.forecast_monthly_cost_usd > Bundle.global.max_forecast_monthly_cost_usd

CostWarns(r) ==
    \/ LET team == Bundle.teams[r.team]
       IN  100 * r.month_to_date_cost_usd >= team.monthly_budget_usd * team.warn_at_percent
    \/ r.cost_per_hour_usd >= Bundle.global.warn_model_hourly_cost_usd
    \/ r.forecast_monthly_cost_usd >= Bundle.global.warn_forecast_monthly_cost_usd

CostDecision(r) == IF CostBlocks(r) THEN "block" ELSE IF CostWarns(r) THEN "warn" ELSE "allow"

Points(factor, present) == IF present THEN Bundle.score_weights[factor] ELSE 0

\* The registry's factors borrow the weights of others; a tier is one of RISK_ORDER.
RegistryPoints(r) ==
    IF ~Registered(r.model) THEN Bundle.score_weights["missing_owner"]
    ELSE LET entry == Bundle.models[r.model]
         IN    Points("high_cost_forecast", entry.risk_tier = "critical")
             + Points("external_provider", entry.risk_tier = "high")
             + Points("sensitive_data", r.sensitive_data /\ ~entry.pii_allowed)

RiskScore(r) ==
      Points("missing_owner", r.owner = "")
    + Points("external_provider", r.provider \in Bundle.external_providers)
    + Points("production_namespace", \/ r.environment = "production"
                                     \/ r.namespace \in Bundle.production_namespaces
                                     \/ r.namespace \in ProdNamed)
    + Points("high_token_volume",
             r.input_tokens + r.output_tokens >= Bundle.thresholds.high_token_volume)
    + Points("high_cost_forecast",
             r.forecast_monthly_cost_usd >= Bundle.thresholds.high_cost_forecast_usd)
    + Points("sensitive_data", r.sensitive_data)
    + Points("tool_access", r.tool_access)
    + Points("write_permission", r.write_permission)
    + Points("deploy_permission", r.action \in DEPLOY_ACTIONS)
    + RegistryPoints(r)

LevelOf(score) ==
    IF score >= Bundle.thresholds.critical_min THEN "critical"
    ELSE IF score >= Bundle.thresholds.high_min THEN "high"
    ELSE IF score >= Bundle.thresholds.medium_min THEN "medium"
    ELSE "low"

RiskLevel(r) == LevelOf(Smaller(RiskScore(r), 100))

ApprovalBlocks(r, cost) ==
    \/ r.owner \in {"", "none"}
    \/ r.team \notin SUPPORTED_TEAMS
    \/ /\ Registered(r.model)
       /\ \/ Bundle.models[r.model].forbidden
          \/ r.namespace \notin Bundle.models[r.model].allowed_namespaces
    \/ ~Registered(r.model) /\ r.model \in FORBIDDEN_MODELS
    \/ cost = "block"

\* 7500 is 0.75 USD an hour, 15000000 is 1500 USD a month.
ApprovalAsks(r, cost, level) ==
    \/ cost = "warn"
    \/ r.environment = "production"
    \/ r.namespace \in ProdNamed
    \/ r.provider \in EXTERNAL_PROVIDERS
    \/ r.action \in DEPLOY_ACTIONS
    \/ level \in {"high", "critical"}
    \/ r.cost_per_hour_usd >= 7500
    \/ r.forecast_monthly_cost_usd >= 15000000

ApprovalDecision(r, cost, level) ==
    IF ApprovalBlocks(r, cost) THEN "block"
    ELSE IF ApprovalAsks(r, cost, level) THEN "approval_required" ELSE "allow"

-----------------------------------------------------------------------------
(* The verdict *)

Forbids(b) == IF b THEN "block" ELSE "allow"

\* A pack that forbids skips the engines: their places are filled.
Skipped ==
    [pack_pre |-> "block", prompt |-> "allow", agent |-> "allow", quota |-> "allow",
     registry |-> "allow", sovereign |-> "allow", cost |-> "allow", risk |-> "low",
     approval |-> "allow", pack_post |-> "block"]

\* What every engine says of a row that passed its pack.
Judged(r, telemetry, cost, level) ==
    [pack_pre  |-> "allow",
     prompt    |-> PromptDecision(r),
     agent     |-> Forbids(AgentForbidden(r)),
     quota     |-> QuotaStage(r, telemetry),
     registry  |-> Forbids(RegistryForbidden(r)),
     sovereign |-> Forbids(SovereignForbidden(r)),
     cost      |-> cost,
     risk      |-> level,
     approval  |-> ApprovalDecision(r, cost, level),
     pack_post |-> PackAfter(r, level)]

Stages(r, telemetry) ==
    IF PackBefore(r) = "block" THEN Skipped
    ELSE Judged(r, telemetry, CostDecision(r), RiskLevel(r))

AsksFirst(s) ==
    IF "block" \in {s.pack_pre, s.prompt, s.agent, s.quota} THEN "block"
    ELSE IF s.quota = "approval_required" THEN "approval_required"
    ELSE IF "block" \in {s.registry, s.sovereign, s.cost, s.approval} THEN "block"
    ELSE IF \/ "approval_required" \in {s.pack_post, s.approval}
            \/ s.risk = "critical" \/ s.cost = "warn"
         THEN "approval_required" ELSE "allow"

PassesWarnOn(s) ==
    IF "block" \in {s.pack_pre, s.prompt, s.agent, s.quota, s.registry, s.sovereign,
                    s.cost, s.approval}
    THEN "block"
    ELSE IF s.cost = "warn" THEN s.cost
    ELSE IF "approval_required" \in {s.quota, s.pack_post, s.approval} \/ s.risk = "critical"
         THEN "approval_required" ELSE "allow"

\* final_verdict: the hard violations, then what asks for a human.
FinalVerdict(s) ==
    IF "block" \in {s.pack_pre, s.prompt, s.agent, s.quota, s.registry, s.sovereign,
                    s.cost, s.approval}
    THEN "block"
    ELSE IF \/ s.quota = "approval_required"
            \/ s.pack_post = "approval_required"
            \/ s.risk = "critical"
            \/ s.approval = "approval_required"
            \/ s.cost = "warn"
         THEN "approval_required"
         ELSE "allow"

\* build_telemetry_stage: what the reads of this evaluation found.
Telemetry(r, w) ==
    [unavailable |-> Unavailable(r, w), on_unavailable |-> w.on_unavailable,
     block_reasons |-> Breached(w)]

\* A breached Prometheus threshold overrides whatever the stages said.
Verdict(s, telemetry) ==
    IF telemetry.block_reasons THEN "block" ELSE FinalVerdict(s)

ReportWithoutRegistry(r) ==
    LET cost == CostDecision(r)
        level == RiskLevel(r)
        approval == ApprovalDecision(r, cost, level)
    IN  IF "block" \in {QuotaDecision(r, 1), cost, approval} THEN "block"
        ELSE IF level = "critical" \/ approval = "approval_required" \/ cost = "warn"
             THEN "approval_required" ELSE "allow"

\* The offline pipeline (governance/pipeline) on the same row: no pack, prompt, agent,
\* region or outage, and quotas without a multiplier.
ReportVerdict(r) ==
    LET cost == CostDecision(r)
        level == RiskLevel(r)
        approval == ApprovalDecision(r, cost, level)
    IN  IF \/ QuotaDecision(r, 1) = "block"
           \/ RegistryForbidden(r)
           \/ cost = "block"
           \/ approval = "block"
        THEN "block"
        ELSE IF level = "critical" \/ approval = "approval_required" \/ cost = "warn"
             THEN "approval_required"
             ELSE "allow"

-----------------------------------------------------------------------------
(* The walk over evaluations *)

Differences(f, g) == Cardinality({x \in DOMAIN f : f[x] # g[x]})
Distance(b) == Differences(b[1], request) + Differences(b[2], world)

Init ==
    /\ \E b \in Bases : request = b[1] /\ world = b[2]
    /\ row = Enrich(request, world)
    /\ stage = Stages(row, Telemetry(request, world))
    /\ verdict = Verdict(stage, Telemetry(request, world))

\* governance_evaluate of the new request in the new world.
Evaluate ==
    /\ row' = Enrich(request', world')
    /\ stage' = Stages(row', Telemetry(request', world'))
    /\ verdict' = Verdict(stage', Telemetry(request', world'))

\* Another request, evaluated in the same world.
Ask ==
    \E b \in Bases : \E steps \in {Distance(b)} :
        \E field \in DOMAIN RequestValues :
            /\ \/ steps < MaxChanges
               \/ steps = MaxChanges /\ request[field] # b[1][field]
            /\ \E value \in RequestValues[field] \ {request[field]} :
                   request' = [request EXCEPT ![field] = value]
            /\ UNCHANGED world
            /\ Evaluate

\* The same request, evaluated once the world has moved.
WorldMoves ==
    \E b \in Bases : \E steps \in {Distance(b)} :
        \E field \in DOMAIN WorldValues :
            /\ \/ steps < MaxChanges
               \/ steps = MaxChanges /\ world[field] # b[2][field]
            /\ \E value \in WorldValues[field] \ {world[field]} :
                   world' = [world EXCEPT ![field] = value]
            /\ UNCHANGED request
            /\ Evaluate

Next == Ask \/ WorldMoves
Spec == Init /\ [][Next]_vars

-----------------------------------------------------------------------------
(* Properties *)

\* Types: a verdict is one of the three that gateways understand, whatever the engines
\* and the outage policy said (a cost "warn" never leaves the pipeline).
TypeOK ==
    /\ verdict \in Verdicts
    /\ \A field \in DOMAIN RequestValues :
           request[field] \in RequestValues[field] \cup {b[1][field] : b \in Bases}
    /\ \A field \in DOMAIN WorldValues :
           world[field] \in WorldValues[field] \cup {b[2][field] : b \in Bases}

\* "block: one or more governance checks found a hard violation": the verdict is the
\* strictest decision of any stage, however the precedence in final_verdict and the
\* stages that are skipped, replaced or added afterwards are ordered.
StrictestStageWins ==
    LET said == {stage.pack_pre, stage.prompt, stage.agent, stage.quota, stage.registry,
                 stage.sovereign, stage.approval, stage.pack_post, Forbids(Breached(world)),
                 IF stage.cost = "warn" THEN "approval_required" ELSE stage.cost,
                 IF stage.risk = "critical" THEN "approval_required" ELSE "allow"}
    IN  /\ verdict \in said
        /\ \A d \in said : Severity(verdict) >= Severity(d)

\* The service and the offline pipeline, two copies of the same precedence, agree on a
\* row unless a stage only the service has objects: with counters at hand and a pack
\* that does not stretch quotas, the service is as strict as the report, and stricter
\* only because of such a stage.
ReportAgrees ==
    LET own == {stage.prompt, stage.agent, stage.sovereign, stage.pack_post,
                Forbids(Breached(world))}
    IN  ~Unavailable(request, world) /\ ~PackForbids(row) /\ Pack(row).quota_multiplier = 1
        => /\ verdict \in own \cup {ReportVerdict(row)}
           /\ Severity(verdict) >= Severity(ReportVerdict(row))

\* Without counters nothing is allowed, unless the operator opted into that: neither an
\* outage of Redis nor a deployment without one lets an unmetered request through.
FailsClosed ==
    /\ \/ world.redis = "down"
       \/ world.redis = "off" /\ ~request.simulate
    /\ world.on_unavailable # "allow"
    => verdict # "allow"

ClientFields ==
    {"cost_per_request_usd", "cost_per_hour_usd", "month_to_date_cost_usd",
     "forecast_monthly_cost_usd", "sensitive_data", "write_permission",
     "requests_last_minute", "tokens_today"}

\* b differs from a, if at all, by more findings, true flags and larger amounts.
Graver(a, b) ==
    \A field \in DOMAIN a :
        \/ a[field] = b[field]
        \/ field = "prompt" /\ a[field] \subseteq b[field]
        \/ field \in Amounts /\ a[field] <= b[field]
        \/ field \in Flags /\ (a[field] => b[field])

\* Asking with the same words in production, a caller gets the same verdict whatever cost,
\* sensitivity, permission or counters the body claims: every one is derived by the
\* server or not looked at, also when Redis is down or off.
ClientSignalsIgnored ==
    [][ /\ ~request.simulate
        /\ world' = world
        /\ \A field \in DOMAIN request \ ClientFields : request'[field] = request[field]
        => verdict' = verdict ]_vars

\* No risk factor takes points off and no token earns money: what the shipped YAML
\* satisfies, and what the next property needs. The loaders take any number.
NoDiscount ==
    /\ \A factor \in Factors : Bundle.score_weights[factor] >= 0
    /\ \A rates \in AllRates :
           rates.input >= 0 /\ rates.output >= 0

\* Graver facts never soften a verdict: more findings, tokens, spend, requests or
\* sensitivity can only keep it or make it stricter, through every engine, weight and
\* threshold and the order of the final precedence.
GraverNeverSofter ==
    [][ Graver(request, request') /\ Graver(world, world')
        => Severity(verdict') >= Severity(verdict) ]_vars

=============================================================================

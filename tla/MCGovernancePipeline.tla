------------------------- MODULE MCGovernancePipeline -------------------------
(***************************************************************************)
(* GovernancePipeline with the YAML the repository ships, from a handful   *)
(* of ordinary requests.                                                   *)
(***************************************************************************)
EXTENDS GovernancePipeline, TLC

Usd == 10000

PackOf(environment, region, external, unknown, sensitive, multiplier, minimum) ==
    [require_environment |-> environment, require_region |-> region,
     block_external_providers |-> external, block_unknown_models |-> unknown,
     block_sensitive_data |-> sensitive, quota_multiplier |-> multiplier,
     min_risk_for_approval |-> minimum]

TenantOf(rpm, tokens, budget, sensitive) ==
    [requests_per_minute |-> rpm, tokens_per_day |-> tokens,
     max_monthly_budget_usd |-> budget * Usd, sensitive_data_allowed |-> sensitive]

ModelOf(forbidden, namespaces, teams, regions, digest, signature, tier, external, budget) ==
    [forbidden |-> forbidden, allowed_namespaces |-> namespaces, allowed_teams |-> teams,
     allowed_regions |-> regions, artifact_digest |-> digest, signature |-> signature,
     risk_tier |-> tier, pii_allowed |-> FALSE, external_provider |-> external,
     max_monthly_budget_usd |-> budget * Usd]

AgentOf(model, teams, namespaces, forbidden) ==
    [model |-> model, allowed_teams |-> teams, allowed_namespaces |-> namespaces,
     forbidden |-> forbidden]

RegionOf(strict) == [block_external_providers |-> strict, require_local_model |-> strict]

TeamOf(budget, percent, models) ==
    [monthly_budget_usd |-> budget * Usd, warn_at_percent |-> percent,
     allowed_models |-> models]

\* packs.yaml, policies.yaml (quota and cost), models.yaml, agents.yaml, residency.yaml
\* and rules.yaml; the pack "strict" adds what no shipped pack uses, as a
\* sensitive namespace (in the .cfg) does for tenants.yaml.
ShippedBundle ==
    [default_pack |-> "development",
     environment_map |-> "production" :> "production" @@ "prod" :> "production"
        @@ "development" :> "development" @@ "dev" :> "development"
        @@ "research" :> "research" @@ "staging" :> "research",
     packs |-> "production" :> PackOf("production", "", TRUE, TRUE, FALSE, 1, "medium")
        @@ "development" :> PackOf("", "", FALSE, FALSE, FALSE, 2, "high")
        @@ "research" :> PackOf("", "", FALSE, FALSE, FALSE, 5, "critical")
        @@ "eu-sovereign" :> PackOf("", "eu-central", TRUE, TRUE, FALSE, 1, "medium")
        @@ "strict" :> PackOf("", "", FALSE, FALSE, TRUE, 1, "high"),
     tenants |-> "platform" :> TenantOf(120, 2000, 2000, TRUE)
        @@ "search" :> TenantOf(80, 1500, 1200, FALSE)
        @@ "finance" :> TenantOf(30, 500, 800, FALSE),
     models |->
        "qwen2.5-7b" :> ModelOf(FALSE, {"ai-dev", "ai-prod"}, {"platform", "search"},
            {"eu-central", "local", "us-east-1"}, "abc111", "valid", "low", FALSE, 500)
        @@ "llama3.1:8b" :> ModelOf(FALSE, {"ai-dev", "ai-prod"},
            {"platform", "finance", "search"}, {"eu-central", "local", "us-east-1"},
            "e3b0c4", "valid", "low", FALSE, 400)
        @@ "gpt-4.1-mini" :> ModelOf(FALSE, {"ai-prod"}, {"platform"}, {"us-east-1"},
            "gpt41mini", "", "high", TRUE, 1500)
        @@ "unknown-frontier-model" :> ModelOf(TRUE, {"ai-dev"}, {}, {}, "unknown", "",
            "critical", TRUE, 0),
     agents |-> "platform-copilot" :> AgentOf("llama3.1:8b", {"platform"},
            {"ai-dev", "ai-prod"}, FALSE)
        @@ "rogue-agent" :> AgentOf("unknown-frontier-model", {}, {}, TRUE),
     default_region |-> "local",
     regions |-> "eu-central" :> RegionOf(TRUE) @@ "us-east-1" :> RegionOf(FALSE)
        @@ "local" :> RegionOf(FALSE),
     teams |-> "platform" :> TeamOf(600, 80, {"llama3.1:8b", "qwen2.5:14b", "gemma-3-12b"})
        @@ "search" :> TeamOf(900, 80, {"qwen2.5:14b", "gemma-3-12b"})
        @@ "mlops" :> TeamOf(1200, 85, {"gpt-4.1-mini", "claude-3.7-sonnet", "qwen2.5:14b"})
        @@ "finance" :> TeamOf(700, 75, {"gpt-4.1-mini", "qwen2.5:14b"}),
     global |-> [max_model_hourly_cost_usd |-> Usd,
                 warn_model_hourly_cost_usd |-> 7500,
                 max_forecast_monthly_cost_usd |-> 2500 * Usd,
                 warn_forecast_monthly_cost_usd |-> 1800 * Usd],
     score_weights |-> [external_provider |-> 18, production_namespace |-> 20,
        high_token_volume |-> 12, high_cost_forecast |-> 16, sensitive_data |-> 18,
        tool_access |-> 10, write_permission |-> 14, deploy_permission |-> 16,
        missing_owner |-> 25],
     thresholds |-> [high_token_volume |-> 50, high_cost_forecast_usd |-> 1500 * Usd,
        medium_min |-> 25, high_min |-> 50, critical_min |-> 75],
     external_providers |-> {"anthropic", "openai", "external"},
     production_namespaces |-> {"ai-prod", "finance-ai-prod", "customer-ai-prod"}]

RatesOf(in, out, hour) == [input |-> in, output |-> out, hourly |-> hour]

\* pricing.yaml
ShippedPricing ==
    [default |-> RatesOf(10, 20, 5000),
     models |-> "llama3.1:8b" :> RatesOf(1, 2, 1800) @@ "qwen2.5:14b" :> RatesOf(2, 4, 3500)
        @@ "gpt-4.1-mini" :> RatesOf(1500, 6000, 12000)]

LowerCased == "OpenAI" :> "openai" @@ "Production" :> "production"

\* An ordinary development request by somebody who may not simulate.
Plain ==
    [team |-> "platform", owner |-> "alice", policy_pack |-> "",
     environment |-> "development", namespace |-> "ai-dev", action |-> "invoke_model",
     model |-> "llama3.1:8b", provider |-> "ollama", agent |-> "", region |-> "",
     model_artifact_digest |-> "", prompt |-> {}, input_tokens |-> 1, output_tokens |-> 1,
     cost_per_request_usd |-> 0, cost_per_hour_usd |-> 0, month_to_date_cost_usd |-> 0,
     forecast_monthly_cost_usd |-> 0, sensitive_data |-> FALSE, write_permission |-> FALSE,
     tool_access |-> FALSE, requests_last_minute |-> 0, tokens_today |-> 0,
     labelled |-> FALSE, writer |-> FALSE, simulate |-> FALSE]

Quiet ==
    [redis |-> "up", requests_last_minute |-> 0, tokens_today |-> 0,
     month_to_date_cost_usd |-> 0, gateway_error_rate |-> NoValue,
     gateway_p95_latency_ms |-> NoValue, on_unavailable |-> "approval_required"]

Production == [Plain EXCEPT !.environment = "production", !.namespace = "ai-prod",
                            !.agent = "platform-copilot"]
Playground == [Plain EXCEPT !.simulate = TRUE, !.team = "finance", !.model = "qwen2.5:14b",
                            !.policy_pack = "strict", !.cost_per_hour_usd = 3500]
External == [Plain EXCEPT !.simulate = TRUE, !.team = "mlops", !.namespace = "tools-prod",
                          !.model = "claude-3.7-sonnet", !.provider = "anthropic",
                          !.policy_pack = "research", !.action = "deploy_model",
                          !.cost_per_hour_usd = 8200]
Outage == [Quiet EXCEPT !.redis = "down"]
Unmetered == [Quiet EXCEPT !.redis = "off"]

StartingPoints ==
    {<<Plain, Quiet>>, <<Production, Quiet>>, <<Playground, Unmetered>>,
     <<External, [Outage EXCEPT !.on_unavailable = "allow"]>>, <<Plain, Outage>>}

VariedRequest ==
    [team |-> {"platform", "finance", "mlops", "guest"},
     owner |-> {"alice", "", "none"},
     policy_pack |-> {"", "research", "eu-sovereign", "strict", "unheard-of"},
     environment |-> {"development", "production", "Production"},
     namespace |-> {"ai-dev", "ai-prod", "tools-prod"},
     action |-> {"invoke_model", "deploy_model"},
     model |-> {"llama3.1:8b", "qwen2.5:14b", "gpt-4.1-mini", "unknown-frontier-model"},
     provider |-> {"ollama", "openai", "OpenAI"},
     agent |-> {"", "platform-copilot", "rogue-agent", "unheard-of"},
     region |-> {"", "eu-central", "us-east-1"},
     model_artifact_digest |-> {"", "e3b0c4", "abc111"},
     prompt |-> {{}, {"pii"}, {"pii", "secret"}},
     input_tokens |-> {1, 60},
     cost_per_hour_usd |-> {0, 7500, 12000},
     month_to_date_cost_usd |-> {0, 480 * Usd, 900 * Usd},
     forecast_monthly_cost_usd |-> {0, 1500 * Usd, 2600 * Usd},
     sensitive_data |-> BOOLEAN, write_permission |-> BOOLEAN, tool_access |-> BOOLEAN,
     requests_last_minute |-> {0, 600}, tokens_today |-> {0, 5000},
     labelled |-> BOOLEAN, writer |-> BOOLEAN, simulate |-> BOOLEAN]

VariedWorld ==
    [redis |-> {"up", "down", "off"},
     requests_last_minute |-> {0, 119, 120, 240, 600},
     tokens_today |-> {0, 1998, 1999, 5000},
     month_to_date_cost_usd |-> {0, 480 * Usd, 600 * Usd, 900 * Usd},
     gateway_error_rate |-> {NoValue, 50, 51},
     gateway_p95_latency_ms |-> {NoValue, 2501},
     on_unavailable |-> Verdicts]

\* What the theorem about graver facts assumes holds of the shipped rules and prices.
ASSUME ShippedRules == NoDiscount
=============================================================================

--------------------------- MODULE DeclaredModels ---------------------------
(***************************************************************************)
(* The tables the SQLAlchemy models declare (every */models.py that        *)
(* subclasses Base): their columns, split into those an INSERT has to      *)
(* supply and the others, foreign keys with their ON DELETE rule, unique   *)
(* constraints and unique indexes with their predicate, plain indexes.     *)
(***************************************************************************)

Declare(name, must, may, refs, uniques, indexes) ==
    [name |-> name, must |-> must, may |-> may, refs |-> refs, uniques |-> uniques,
     indexes |-> indexes]

AiVisibilityModels == {
    Declare("visibility_weight_sets", {"version", "weights", "is_active"}, {"id",
        "created_at"}, {}, {<<{"version"}, "">>}, {{"is_active"}}),
    Declare("visibility_calculations", {"entity_id", "entity", "visibility_score",
        "confidence", "metrics", "weights", "weight_version", "input_payload", "calculated_at"},
        {"id"}, {}, {}, {{"entity_id"}, {"weight_version"}, {"calculated_at"}})}

AlertModels == {
    Declare("alert_rules", {"code", "alert_type", "severity", "version", "is_active"}, {"id",
        "threshold", "created_at"}, {}, {<<{"code", "version"}, "">>}, {{"is_active",
        "version"}}),
    Declare("alerts", {"entity_id", "rule_id", "alert_type", "severity", "title", "message",
        "context"}, {"id", "previous_value", "current_value", "detected_at"}, {<<"rule_id",
        "alert_rules", "">>}, {}, {{"entity_id", "detected_at"}, {"rule_id"}}),
    Declare("alert_events", {"alert_id", "event_type", "payload"}, {"id", "created_at"},
        {<<"alert_id", "alerts", "CASCADE">>}, {}, {{"alert_id", "created_at"}})}

AnalyticsModels == {
    Declare("analytics_runs", {"engine_version", "query_payload", "result_payload",
        "source_record_count", "group_count"}, {"id", "calculated_at"}, {}, {}, {{"calculated_at",
        "id"}, {"engine_version", "calculated_at"}})}

ApikeysModels == {
    Declare("api_keys", {"name", "owner_id", "prefix", "secret_digest", "scopes", "rate_plan",
        "metadata_json"}, {"id", "expires_at", "revoked_at", "rotated_from_id", "created_at"}, {},
        {<<{"prefix"}, "">>}, {{"owner_id", "revoked_at", "expires_at"}, {"owner_id"}})}

AuditModels == {
    Declare("audit_events", {"actor_id", "actor_type", "action", "category", "resource",
        "correlation_id"}, {"id", "resource_id", "ip_address", "user_agent", "old_state",
        "new_state", "created_at"}, {}, {}, {{"created_at", "action"}, {"correlation_id"}})}

AuthenticationModels == {
    Declare("auth_users", {"email", "password_hash", "display_name", "is_active",
        "token_version"}, {"id", "oauth_provider", "oauth_subject", "created_at", "updated_at"},
        {}, {<<{"email"}, "">>}, {}),
    Declare("auth_sessions", {"id", "user_id", "family_id", "refresh_token_hash",
        "token_version", "expires_at"}, {"revoked_at", "replaced_by_session_id", "ip_address",
        "user_agent", "created_at", "last_used_at"}, {<<"user_id", "auth_users", "CASCADE">>},
        {<<{"refresh_token_hash"}, "">>}, {{"user_id", "revoked_at", "expires_at"},
        {"family_id"}})}

LlmRouterModels == {
    Declare("router_models", {"id", "provider", "display_name", "version", "status", "tier",
        "capabilities", "input_cost_per_million", "output_cost_per_million", "latency_ms",
        "tokens_per_second", "average_latency", "benchmark_score", "quality", "availability",
        "context_window", "hallucination_rate", "domains", "languages", "region",
        "success_probability", "reasoning", "multimodal", "embeddings", "json_mode",
        "tool_calling", "metadata_payload", "created_at", "updated_at"}, {"release_date"}, {}, {},
        {{"provider"}, {"status"}, {"tier"}, {"region"}}),
    Declare("router_model_versions", {"model_id", "version", "snapshot", "created_at"},
        {"id"}, {}, {}, {{"model_id"}, {"version"}, {"created_at"}}),
    Declare("router_policies", {"id", "name", "strategy", "enabled", "execution_mode",
        "top_k", "weights", "required_capabilities", "settings", "updated_at"}, {"task_type",
        "daily_budget_usd", "monthly_budget_usd", "per_research_budget_usd"}, {}, {},
        {{"task_type"}, {"enabled"}}),
    Declare("router_history", {"correlation_id", "query", "intent", "policy_id",
        "selected_models", "execution_mode", "routing_scores", "estimated_cost_usd", "latency_ms",
        "fallback_count", "budget_downgraded", "created_at"}, {"id", "error"}, {}, {},
        {{"correlation_id"}, {"intent"}, {"policy_id"}, {"created_at"}}),
    Declare("router_cost_logs", {"correlation_id", "model_id", "provider", "input_tokens",
        "output_tokens", "cost_usd", "cost_type", "created_at"}, {"id"}, {}, {},
        {{"correlation_id"}, {"model_id"}, {"provider"}, {"created_at"}}),
    Declare("router_budget_reservations", {"id", "correlation_id", "policy_id", "amount_usd",
        "state", "created_at", "expires_at"}, {"settled_at"}, {}, {<<{"correlation_id"}, "">>},
        {{"policy_id"}, {"state"}, {"created_at"}, {"expires_at"}}),
    Declare("router_circuit_breakers", {"model_id", "state", "failure_count", "success_count",
        "updated_at"}, {"opened_at", "last_failure_at"}, {}, {}, {{"state"}})}

BackendModels == {
    Declare("system_events", {"event_type"}, {"id", "created_at"}, {}, {}, {{"event_type"}})}

ProvidersModels == {
    Declare("provider_usage", {"execution_id", "provider", "model", "prompt_tokens",
        "completion_tokens", "total_tokens", "estimated_cost", "currency", "created_at"}, {"id",
        "research_id", "user_id"}, {}, {}, {{"execution_id"}, {"research_id"}, {"user_id"},
        {"provider"}, {"model"}, {"created_at"}})}

BaselineModels == {
    Declare("baselines", {"entity_id", "research_id", "update_policy", "thresholds",
        "algorithm_version"}, {"id", "created_at", "updated_at"}, {}, {<<{"entity_id"}, "">>},
        {}),
    Declare("baseline_snapshots", {"baseline_id", "research_id", "visibility", "mention",
        "recommendation", "citation", "coverage", "confidence", "reason", "algorithm_version"},
        {"id", "created_at"}, {<<"baseline_id", "baselines", "CASCADE">>}, {}, {{"baseline_id",
        "created_at"}}),
    Declare("regression_events", {"baseline_id", "baseline_snapshot_id",
        "current_research_id", "metric", "baseline_value", "current_value", "delta", "severity",
        "algorithm_version"}, {"id", "created_at"}, {<<"baseline_id", "baselines", "CASCADE">>,
        <<"baseline_snapshot_id", "baseline_snapshots", "CASCADE">>}, {}, {{"baseline_id",
        "created_at"}, {"baseline_snapshot_id"}})}

BenchmarkModels == {
    Declare("benchmark_runs", {"engine_version", "metrics", "entity_count"}, {"id",
        "date_from", "date_to", "calculated_at"}, {}, {}, {{"calculated_at", "id"}}),
    Declare("benchmark_entries", {"run_id", "entity_id", "observation_count",
        "metric_results", "overall_score", "overall_rank", "overall_percentile"}, {"id"},
        {<<"run_id", "benchmark_runs", "CASCADE">>}, {<<{"run_id", "entity_id"}, "">>},
        {{"run_id", "overall_rank"}, {"entity_id"}})}

CacheModels == {
    Declare("cache_warm_runs", {"namespace", "items_warmed", "status"}, {"id", "created_at"},
        {}, {}, {})}

ChangeDetectionModels == {
    Declare("research_changes", {"research_id", "metric_deltas", "new_recommendations",
        "removed_recommendations", "new_sources", "removed_sources", "graph_changes",
        "algorithm_version"}, {"id", "previous_research_id", "created_at"}, {},
        {<<{"research_id"}, "">>}, {})}

ClosedBetaModels == {
    Declare("beta_user_profiles", {"user_id", "status", "daily_research_limit",
        "monthly_research_limit", "max_projects", "max_domains", "max_organization_users"}, {"id",
        "updated_at"}, {}, {<<{"user_id"}, "">>}, {}),
    Declare("beta_invitations", {"email", "token_hash", "token_prefix", "expires_at",
        "invited_by", "send_count"}, {"id", "role_id", "revoked_at", "accepted_at", "created_at"},
        {}, {<<{"token_hash"}, "">>}, {{"email"}})}

DecisionCenterModels == {
    Declare("projects", {"name"}, {"id", "description", "created_at"}, {}, {<<{"name"}, "">>},
        {}),
    Declare("agents", {"name", "agent_type", "is_enabled"}, {"id", "description",
        "specialization", "created_at"}, {}, {<<{"name"}, "">>}, {{"specialization"}}),
    Declare("sprints", {"name"}, {"id", "goal", "starts_on", "ends_on", "project_id",
        "created_at"}, {<<"project_id", "projects", "SET NULL">>}, {}, {}),
    Declare("tasks", {"title", "status", "priority"}, {"id", "description",
        "required_specialization", "owner_id", "sprint_id", "project_id", "created_at",
        "updated_at"}, {<<"owner_id", "agents", "SET NULL">>, <<"sprint_id", "sprints",
        "SET NULL">>, <<"project_id", "projects", "SET NULL">>}, {<<{"owner_id"},
        "in progress">>}, {{"required_specialization"}}),
    Declare("execution_logs", {"entity_type", "entity_id", "action", "changes"}, {"id",
        "created_at"}, {}, {}, {{"created_at"}, {"entity_type"}, {"entity_id"}})}

EntityExtractionModels == {
    Declare("entity_extraction_runs", {"response_id", "raw_response", "output_payload",
        "version", "processed_at"}, {"id", "model"}, {}, {<<{"response_id"}, "">>},
        {{"processed_at"}}),
    Declare("entity_history", {"run_id", "response_id", "entity_id", "name", "canonical_name",
        "entity_type", "confidence", "aliases", "knowledge_graph_id"}, {"id"}, {<<"run_id",
        "entity_extraction_runs", "CASCADE">>}, {}, {{"response_id"}, {"canonical_name"},
        {"entity_type"}, {"knowledge_graph_id"}}),
    Declare("relation_history", {"run_id", "response_id", "relation_id", "source_entity_id",
        "target_entity_id", "relation_type", "confidence"}, {"id"}, {<<"run_id",
        "entity_extraction_runs", "CASCADE">>}, {}, {{"response_id"}, {"relation_type"}}),
    Declare("resolution_log_history", {"run_id", "response_id", "stage", "action", "details"},
        {"id", "message"}, {<<"run_id", "entity_extraction_runs", "CASCADE">>}, {},
        {{"response_id"}, {"stage"}})}

EntityLinkingModels == {
    Declare("canonical_entities", {"canonical_name", "normalized_name", "entity_type",
        "algorithm_version"}, {"id", "created_at", "updated_at"}, {}, {<<{"entity_type",
        "normalized_name"}, "">>}, {}),
    Declare("entity_aliases", {"canonical_entity_id", "alias", "normalized_alias",
        "entity_type", "source"}, {"id", "created_at"}, {<<"canonical_entity_id",
        "canonical_entities", "CASCADE">>}, {<<{"entity_type", "normalized_alias"}, "">>},
        {{"canonical_entity_id"}}),
    Declare("link_candidates", {"graph_snapshot_id", "graph_node_id", "external_id",
        "entity_name", "normalized_name", "entity_type", "confidence", "match_method", "status",
        "algorithm_version"}, {"id", "canonical_entity_id", "created_at", "resolved_at"},
        {<<"canonical_entity_id", "canonical_entities", "SET NULL">>}, {}, {{"status",
        "created_at"}, {"graph_snapshot_id", "graph_node_id"}}),
    Declare("link_decisions", {"candidate_id", "decision", "actor", "algorithm_version"},
        {"id", "canonical_entity_id", "reason", "created_at"}, {<<"candidate_id",
        "link_candidates", "CASCADE">>}, {}, {{"candidate_id", "created_at"}})}

ExecutionEngineModels == {
    Declare("executions", {"task_id", "state", "attempt_count"}, {"id", "agent_id",
        "started_at", "finished_at", "duration_ms", "result", "error", "created_at"},
        {<<"task_id", "tasks", "">>, <<"agent_id", "agents", "">>}, {<<{"task_id"},
        "pending to review">>, <<{"agent_id"}, "assigned to review">>}, {{"state", "finished_at"},
        {"task_id"}, {"agent_id"}, {"state"}})}

FeedbackCenterModels == {
    Declare("product_feedback", {"user_id", "feedback_type", "priority", "status", "title",
        "description"}, {"id", "project_id", "research_id", "report_id", "organization_id",
        "created_at", "updated_at"}, {}, {}, {{"status", "priority"}, {"user_id", "created_at"}}),
    Declare("feedback_attachments", {"feedback_id", "filename", "content_type", "storage_key",
        "size_bytes", "metadata"}, {"id", "created_at"}, {<<"feedback_id", "product_feedback",
        "CASCADE">>}, {}, {{"feedback_id"}}),
    Declare("feedback_history", {"feedback_id", "actor_id", "action"}, {"id", "old_state",
        "new_state", "created_at"}, {<<"feedback_id", "product_feedback", "CASCADE">>}, {},
        {{"feedback_id"}})}

GraphModels == {
    Declare("graph_snapshots", {"structure_version", "node_count", "edge_count",
        "build_metadata"}, {"id", "created_at"}, {}, {}, {{"created_at"}}),
    Declare("graph_nodes", {"snapshot_id", "external_id", "name", "canonical_name",
        "node_type", "confidence", "aliases", "properties"}, {"id"}, {<<"snapshot_id",
        "graph_snapshots", "CASCADE">>}, {<<{"snapshot_id", "external_id"}, "">>},
        {{"snapshot_id", "node_type"}, {"snapshot_id", "name"}, {"snapshot_id",
        "canonical_name"}}),
    Declare("graph_edges", {"snapshot_id", "source_node_id", "target_node_id", "edge_type",
        "confidence", "properties"}, {"id"}, {<<"snapshot_id", "graph_snapshots", "CASCADE">>,
        <<"source_node_id", "graph_nodes", "CASCADE">>, <<"target_node_id", "graph_nodes",
        "CASCADE">>}, {<<{"snapshot_id", "source_node_id", "target_node_id", "edge_type"}, "">>},
        {{"snapshot_id", "edge_type"}, {"snapshot_id", "target_node_id"}})}

HardeningModels == {
    Declare("idempotency_records", {"scope", "key", "request_hash", "status_code", "response",
        "expires_at"}, {"id", "created_at"}, {}, {<<{"scope", "key"}, "">>}, {}),
    Declare("dead_letter_messages", {"queue", "payload", "error", "attempts", "status"},
        {"id", "created_at"}, {}, {}, {})}

InfluenceModels == {
    Declare("influence_snapshots", {"graph_snapshot_id", "algorithm_version", "node_count",
        "edge_count"}, {"id", "calculated_at"}, {}, {<<{"graph_snapshot_id", "algorithm_version"},
        "">>}, {{"calculated_at"}}),
    Declare("entity_influence", {"snapshot_id", "entity_id", "name", "node_type", "degree",
        "weighted_degree", "pagerank", "betweenness", "closeness", "influence_score", "rank"},
        {"id"}, {<<"snapshot_id", "influence_snapshots", "CASCADE">>}, {<<{"snapshot_id",
        "entity_id"}, "">>}, {{"snapshot_id", "rank"}, {"entity_id"}})}

InsightsModels == {
    Declare("insight_runs", {"engine_version", "request_payload", "source_record_count",
        "insight_count"}, {"id", "calculated_at"}, {}, {}, {{"calculated_at", "id"}}),
    Declare("insights", {"run_id", "insight_type", "severity", "title", "description",
        "confidence", "evidence"}, {"id", "entity_id", "metric", "previous_value",
        "current_value", "absolute_change", "percentage_change", "recommendation"}, {<<"run_id",
        "insight_runs", "CASCADE">>}, {}, {{"run_id", "insight_type"}, {"entity_id", "metric"}})}

ModelBenchmarkModels == {
    Declare("model_benchmark_runs", {"prompt", "iterations", "created_at"}, {"id"}, {}, {},
        {{"created_at"}}),
    Declare("model_benchmark_results", {"run_id", "provider", "model", "latency_ms",
        "cost_usd", "quality_score", "response_length", "stability_score", "created_at"}, {"id"},
        {}, {}, {{"run_id"}, {"provider"}, {"model"}, {"created_at"}})}

ModelEvaluationModels == {
    Declare("model_evaluation_scores", {"provider", "model", "task", "score", "latency_ms",
        "version", "created_at"}, {"id"}, {}, {}, {{"provider"}, {"model"}, {"task"},
        {"created_at"}})}

NotificationCenterModels == {
    Declare("product_notifications", {"user_id", "event_type", "category", "priority",
        "title", "message", "metadata", "is_read"}, {"id", "resource_type", "resource_id",
        "read_at", "archived_at", "created_at"}, {}, {}, {{"user_id"}, {"event_type"},
        {"archived_at"}}),
    Declare("notification_deliveries", {"notification_id", "channel", "status", "attempts"},
        {"id", "error", "created_at"}, {<<"notification_id", "product_notifications",
        "CASCADE">>}, {}, {{"notification_id"}})}

ObservabilityModels == {
    Declare("observability_spans", {"trace_id", "span_id", "operation", "status",
        "duration_ms"}, {"id", "started_at"}, {}, {<<{"span_id"}, "">>}, {{"trace_id",
        "started_at"}})}

OrganizationWorkspaceModels == {
    Declare("organizations", {"name", "slug", "description", "timezone", "settings",
        "limits"}, {"id", "logo_url", "industry", "country", "created_at"}, {}, {<<{"slug"},
        "">>}, {}),
    Declare("organization_members", {"organization_id", "user_id", "role", "is_default"},
        {"id", "joined_at"}, {<<"organization_id", "organizations", "CASCADE">>},
        {<<{"organization_id", "user_id"}, "">>}, {{"organization_id"}, {"user_id"}}),
    Declare("organization_invitations", {"organization_id", "email", "role", "token_hash",
        "expires_at", "invited_by"}, {"id", "accepted_at", "revoked_at", "created_at"},
        {<<"organization_id", "organizations", "CASCADE">>}, {<<{"token_hash"}, "">>},
        {{"organization_id"}}),
    Declare("organization_activity", {"organization_id", "actor_id", "action", "metadata"},
        {"id", "entity_type", "entity_id", "created_at"}, {<<"organization_id", "organizations",
        "CASCADE">>}, {}, {{"organization_id"}}),
    Declare("organization_projects", {"organization_id", "project_id"}, {},
        {<<"organization_id", "organizations", "CASCADE">>}, {}, {})}

ProductModels == {
    Declare("prompt_definitions", {"code", "version", "title", "description", "category",
        "language", "variables", "template", "expected_output", "tags", "status", "active"},
        {"id", "created_at"}, {}, {<<{"code", "version"}, "">>}, {{"category", "language"}}),
    Declare("research_template_definitions", {"code", "version", "title", "description",
        "research_type", "prompt_code", "pipeline", "default_languages", "default_regions",
        "configuration", "active"}, {"id", "created_at"}, {}, {<<{"code", "version"}, "">>}, {})}

ProductAnalyticsModels == {
    Declare("product_analytics_events", {"event_name", "event_category", "metadata"}, {"id",
        "organization_id", "user_id", "session_id", "entity_type", "entity_id", "ip_hash",
        "user_agent", "created_at"}, {}, {}, {{"created_at", "event_category"},
        {"organization_id", "created_at"}, {"user_id", "created_at"}, {"event_name",
        "created_at"}}),
    Declare("product_analytics_sessions", {"id", "started_at", "device", "browser", "os"},
        {"user_id", "organization_id", "finished_at", "duration"}, {}, {}, {{"user_id"},
        {"organization_id"}}),
    Declare("product_analytics_reports", {"period", "filters_hash", "range_start",
        "range_end", "payload", "event_count"}, {"id", "created_at"}, {}, {}, {{"period",
        "created_at"}})}

ProjectMonitoringModels == {
    Declare("project_monitors", {"project_id", "schedule_id", "template_research_id",
        "frequency", "enabled", "next_run_at"}, {"id", "query", "created_at", "updated_at"},
        {<<"project_id", "workspace_projects", "CASCADE">>}, {<<{"project_id"}, "">>,
        <<{"schedule_id"}, "">>}, {})}

ProviderDiscoveryModels == {
    Declare("provider_sync_runs", {"source", "status", "discovered", "created", "updated",
        "created_at"}, {"id", "error"}, {}, {}, {{"status"}, {"created_at"}})}

ProviderRecommendationModels == {
    Declare("provider_recommendations", {"research_id", "recommendation_type", "message",
        "recommended_provider", "expected_savings_usd", "expected_speedup_percent", "version",
        "created_at"}, {"id"}, {}, {}, {{"research_id"}, {"recommendation_type"},
        {"created_at"}})}

ProviderRegistryModels == {
    Declare("provider_registry", {"id", "display_name", "capabilities", "pricing",
        "context_window", "vision", "embeddings", "reasoning", "tools", "json_mode", "streaming",
        "availability", "free_tier", "priority", "metadata_payload", "created_at", "updated_at"},
        {}, {}, {}, {{"availability"}, {"free_tier"}, {"priority"}})}

QueryExecutorModels == {
    Declare("query_execution_history", {"execution_id", "plan_id", "mode", "state",
        "plan_payload", "created_at"}, {"id", "request_id", "output_payload", "error",
        "started_at", "finished_at", "duration_ms"}, {}, {<<{"execution_id"}, "">>},
        {{"created_at"}, {"plan_id"}, {"request_id"}, {"mode"}, {"state"}}),
    Declare("query_execution_metrics", {"execution_row_id", "execution_id", "metric_name",
        "metric_value", "unit", "metadata_payload"}, {"id"}, {<<"execution_row_id",
        "query_execution_history", "CASCADE">>}, {}, {{"execution_id"}, {"metric_name"}}),
    Declare("query_provider_metrics", {"execution_row_id", "execution_id", "step_id",
        "provider", "state", "attempts", "latency_ms"}, {"id", "failure"}, {<<"execution_row_id",
        "query_execution_history", "CASCADE">>}, {}, {{"execution_id"}, {"provider"}, {"state"}})}

QueryIntentModels == {
    Declare("intent_classification_runs", {"request_id", "query", "language",
        "primary_intent", "confidence", "output_payload", "version", "classified_at"}, {"id"}, {},
        {<<{"request_id"}, "">>}, {{"language"}, {"primary_intent"}, {"classified_at"}}),
    Declare("intent_history", {"run_id", "request_id", "intent", "subtype", "confidence",
        "is_primary", "signals"}, {"id"}, {<<"run_id", "intent_classification_runs", "CASCADE">>},
        {}, {{"request_id"}, {"intent"}}),
    Declare("confidence_history", {"run_id", "request_id", "source", "intent", "confidence"},
        {"id"}, {<<"run_id", "intent_classification_runs", "CASCADE">>}, {}, {{"request_id"},
        {"source"}, {"intent"}}),
    Declare("routing_metadata", {"run_id", "request_id", "strategy", "llm_fallback_required",
        "metadata_payload"}, {"id"}, {<<"run_id", "intent_classification_runs", "CASCADE">>}, {},
        {{"request_id"}, {"strategy"}})}

RateLimitModels == {
    Declare("rate_limit_policies", {"name", "algorithm", "subject_type", "endpoint", "limit",
        "window_seconds", "burst", "enabled"}, {"id", "created_at"}, {}, {<<{"name"}, "">>}, {})}

RbacModels == {
    Declare("rbac_role_permissions", {"role_id", "permission_id"}, {}, {<<"role_id",
        "rbac_roles", "CASCADE">>, <<"permission_id", "rbac_permissions", "CASCADE">>}, {}, {}),
    Declare("rbac_role_inheritance", {"role_id", "parent_role_id"}, {}, {<<"role_id",
        "rbac_roles", "CASCADE">>, <<"parent_role_id", "rbac_roles", "CASCADE">>}, {}, {}),
    Declare("rbac_roles", {"code", "name", "description", "is_system"}, {"id", "created_at"},
        {}, {<<{"code"}, "">>}, {}),
    Declare("rbac_permissions", {"resource", "action", "scope", "description"}, {"id"}, {},
        {<<{"resource", "action", "scope"}, "">>}, {}),
    Declare("rbac_user_roles", {"user_id", "role_id"}, {"assigned_at"}, {<<"role_id",
        "rbac_roles", "CASCADE">>}, {}, {{"user_id"}})}

RecommendationModels == {
    Declare("recommendation_rules", {"code", "recommendation_type", "metric", "operator",
        "threshold", "priority", "explanation_template", "expected_effect", "version",
        "is_active"}, {"id", "created_at"}, {}, {<<{"code"}, "">>}, {{"is_active", "version"}}),
    Declare("recommendation_executions", {"research_id", "status", "engine_version",
        "input_snapshot", "generated_count"}, {"id", "error", "started_at", "finished_at"}, {},
        {}, {{"research_id", "started_at"}}),
    Declare("recommendations", {"execution_id", "research_id", "recommendation_type",
        "priority", "explanation", "metric", "metric_value", "expected_effect"}, {"id", "rule_id",
        "template_id", "created_at"}, {<<"execution_id", "recommendation_executions", "CASCADE">>,
        <<"rule_id", "recommendation_rules", "SET NULL">>, <<"template_id",
        "recommendation_templates", "SET NULL">>}, {}, {{"research_id", "created_at"},
        {"execution_id", "priority"}, {"rule_id"}, {"template_id"}})}

RecommendationSimulationModels == {
    Declare("recommendation_simulations", {"recommendation_id", "current_visibility",
        "predicted_visibility", "predicted_delta", "confidence_min", "confidence_expected",
        "confidence_max", "estimated_duration_days", "model_version"}, {"id", "created_at"},
        {<<"recommendation_id", "recommendations", "CASCADE">>}, {}, {{"recommendation_id",
        "created_at"}})}

RecommendationTemplatesModels == {
    Declare("recommendation_templates", {"template_code", "recommendation_type", "title",
        "description", "steps", "expected_result", "estimated_time", "priority", "version"},
        {"id", "created_at"}, {}, {<<{"template_code", "version"}, "">>}, {{"recommendation_type",
        "version"}})}

RelationshipDiscoveryModels == {
    Declare("relationship_candidates", {"graph_snapshot_id", "source_external_id",
        "target_external_id", "relationship_type", "confidence", "status", "algorithm_version"},
        {"id", "integrated_snapshot_id", "created_at", "resolved_at"}, {},
        {<<{"graph_snapshot_id", "source_external_id", "target_external_id", "relationship_type"},
        "">>}, {{"status", "created_at"}}),
    Declare("relationship_evidence", {"candidate_id", "source_type", "source_reference",
        "confidence", "payload"}, {"id", "created_at"}, {<<"candidate_id",
        "relationship_candidates", "CASCADE">>}, {<<{"candidate_id", "source_type",
        "source_reference"}, "">>}, {{"candidate_id"}}),
    Declare("relationship_decisions", {"candidate_id", "decision", "actor",
        "algorithm_version"}, {"id", "reason", "created_at"}, {<<"candidate_id",
        "relationship_candidates", "CASCADE">>}, {}, {{"candidate_id", "created_at"}})}

ReportCenterModels == {
    Declare("report_catalog_entries", {"research_id", "project_id", "tags", "archived"},
        {"id", "created_at", "updated_at"}, {}, {<<{"research_id"}, "">>}, {{"project_id"}}),
    Declare("report_versions", {"research_id", "catalog_entry_id", "version", "checksum",
        "payload"}, {"id", "created_at"}, {<<"catalog_entry_id", "report_catalog_entries",
        "CASCADE">>}, {<<{"research_id", "version"}, "">>, <<{"research_id", "checksum"}, "">>},
        {{"research_id"}})}

ReportSharingModels == {
    Declare("report_share_links", {"research_id", "token_hash", "token_prefix", "access_mode",
        "active", "created_by"}, {"id", "password_hash", "expires_at", "created_at",
        "revoked_at"}, {}, {<<{"token_hash"}, "">>}, {{"research_id", "active"},
        {"research_id"}}),
    Declare("report_share_views", {"share_id", "correlation_id"}, {"id", "ip_address",
        "user_agent", "viewed_at"}, {<<"share_id", "report_share_links", "CASCADE">>}, {},
        {{"share_id"}})}

ResearchModels1 == {
    Declare("researches", {"title", "status", "metadata_payload", "total_tasks",
        "completed_tasks", "failed_tasks", "progress_percent"}, {"id", "project_id", "domain_id",
        "entity_id", "description", "objective", "created_at", "updated_at"}, {<<"project_id",
        "workspace_projects", "SET NULL">>, <<"domain_id", "project_domains", "SET NULL">>}, {},
        {{"status", "created_at"}, {"project_id"}, {"domain_id"}, {"entity_id"}}),
    Declare("research_tasks", {"research_id", "query", "status", "priority",
        "metadata_payload"}, {"id", "provider", "model", "decision_task_id", "execution_id",
        "error", "created_at", "updated_at"}, {<<"research_id", "researches", "CASCADE">>,
        <<"decision_task_id", "tasks", "SET NULL">>, <<"execution_id", "executions",
        "SET NULL">>}, {}, {{"research_id", "status"}, {"decision_task_id"}, {"execution_id"}}),
    Declare("research_jobs", {"research_id", "state", "payload", "attempts"}, {"id", "error",
        "created_at", "started_at", "finished_at"}, {<<"research_id", "researches", "CASCADE">>},
        {}, {{"state", "created_at"}, {"research_id"}, {"state"}})}

ResearchModels2 == {
    Declare("research_responses", {"research_task_id", "provider", "model", "content",
        "raw_payload", "prompt", "raw_response", "normalized_response", "prompt_tokens",
        "completion_tokens", "input_tokens", "output_tokens", "total_tokens", "cost",
        "processing_status"}, {"id", "latency_ms", "error_type", "error_message",
        "processing_error", "created_at", "finished_at"}, {<<"research_task_id", "research_tasks",
        "CASCADE">>}, {}, {{"research_task_id", "created_at"}}),
    Declare("research_extracted_entities", {"response_id", "name", "canonical_name",
        "entity_type", "confidence", "aliases", "metadata_payload"}, {"id", "knowledge_graph_id"},
        {<<"response_id", "research_responses", "CASCADE">>}, {}, {{"response_id",
        "entity_type"}}),
    Declare("research_extracted_citations", {"response_id", "position", "metadata_payload"},
        {"id", "url", "title", "source", "excerpt"}, {<<"response_id", "research_responses",
        "CASCADE">>}, {}, {{"response_id"}}),
    Declare("research_extracted_recommendations", {"response_id", "content", "rank",
        "confidence", "metadata_payload"}, {"id"}, {<<"response_id", "research_responses",
        "CASCADE">>}, {}, {{"response_id"}}),
    Declare("research_scores", {"research_id", "mention_score", "recommendation_score",
        "citation_score", "coverage_score", "confidence_score", "visibility_score", "version"},
        {"id", "calculated_at"}, {<<"research_id", "researches", "CASCADE">>}, {<<{"research_id",
        "version"}, "">>}, {{"calculated_at"}})}

SchedulerModels == {
    Declare("schedules", {"name", "research_id", "schedule_type", "models", "retry_policy",
        "is_enabled", "next_run_at"}, {"id", "cron_expression", "query", "last_run_at",
        "created_at", "updated_at"}, {}, {}, {{"is_enabled", "next_run_at"}}),
    Declare("schedule_executions", {"schedule_id", "status", "attempts", "scheduled_for",
        "started_at"}, {"id", "research_id", "error", "finished_at"}, {<<"schedule_id",
        "schedules", "CASCADE">>}, {<<{"schedule_id"}, "running">>}, {{"schedule_id",
        "started_at"}}),
    Declare("schedule_history", {"execution_id", "attempt", "status", "retry_delay_seconds",
        "started_at", "finished_at"}, {"id", "research_id", "error"}, {<<"execution_id",
        "schedule_executions", "CASCADE">>}, {}, {{"execution_id", "attempt"}})}

SegmentationModels == {
    Declare("segment_definitions", {"code", "name", "segment_type", "rules", "version",
        "is_active"}, {"id", "created_at", "updated_at"}, {}, {<<{"code"}, "">>},
        {{"segment_type", "is_active"}}),
    Declare("segment_evaluations", {"segment_id", "segment_version", "source_count",
        "matched_count"}, {"id", "evaluated_at"}, {<<"segment_id", "segment_definitions",
        "CASCADE">>}, {}, {{"segment_id", "evaluated_at"}}),
    Declare("segment_memberships", {"evaluation_id", "member_key", "observed_at",
        "dimensions", "metrics"}, {"id"}, {<<"evaluation_id", "segment_evaluations", "CASCADE">>},
        {<<{"evaluation_id", "member_key"}, "">>}, {{"member_key"}})}

TrendModels == {
    Declare("trend_series", {"entity_id", "model_version", "moving_average_window"}, {"id",
        "created_at"}, {}, {<<{"entity_id", "model_version"}, "">>}, {}),
    Declare("trend_snapshots", {"series_id", "source_count"}, {"id", "built_at"},
        {<<"series_id", "trend_series", "CASCADE">>}, {}, {{"series_id", "built_at"}}),
    Declare("trend_points", {"snapshot_id", "research_id", "metric", "observed_at", "value",
        "moving_average", "direction"}, {"id", "percentage_change"}, {<<"snapshot_id",
        "trend_snapshots", "CASCADE">>}, {}, {{"snapshot_id", "metric", "observed_at"}})}

WorkspaceModels1 == {
    Declare("user_workspaces", {"user_id", "name", "settings"}, {"id", "created_at",
        "updated_at"}, {}, {<<{"user_id"}, "">>}, {{"user_id"}}),
    Declare("workspace_projects", {"workspace_id", "name", "description", "settings", "tags",
        "favorite", "archived"}, {"id", "created_at", "updated_at"}, {<<"workspace_id",
        "user_workspaces", "CASCADE">>}, {}, {{"workspace_id", "updated_at"}, {"workspace_id"}}),
    Declare("project_competitors", {"project_id", "name", "domains", "brands", "notes",
        "active"}, {"id", "created_at", "updated_at"}, {<<"project_id", "workspace_projects",
        "CASCADE">>}, {<<{"project_id", "name"}, "">>}, {{"project_id", "active"}}),
    Declare("project_domains", {"project_id", "hostname", "display_name", "is_primary",
        "active", "brands", "settings"}, {"id", "created_at", "updated_at"}, {<<"project_id",
        "workspace_projects", "CASCADE">>}, {<<{"project_id", "hostname"}, "">>, <<{"project_id"},
        "primary">>}, {{"project_id", "active"}}),
    Declare("saved_research_configurations", {"project_id", "name", "template_code",
        "routing_profile", "languages", "regions", "prompt_count", "configuration"}, {"id",
        "schedule_hint", "created_at", "updated_at"}, {<<"project_id", "workspace_projects",
        "CASCADE">>}, {<<{"project_id", "name"}, "">>}, {{"project_id"}})}

WorkspaceModels2 == {
    Declare("bulk_research_runs", {"project_id", "name", "template_code", "routing_profile",
        "total_items"}, {"id", "created_at"}, {<<"project_id", "workspace_projects", "CASCADE">>},
        {}, {{"project_id"}}),
    Declare("bulk_research_items", {"bulk_run_id", "brand", "research_id", "job_id", "state"},
        {"id", "domain_id", "created_at"}, {<<"bulk_run_id", "bulk_research_runs", "CASCADE">>,
        <<"domain_id", "project_domains", "SET NULL">>}, {<<{"bulk_run_id", "brand"}, "">>,
        <<{"research_id"}, "">>, <<{"job_id"}, "">>}, {{"bulk_run_id"}})}

\* Base.metadata once every model module is imported.
Models ==
    UNION {AiVisibilityModels, AlertModels, AnalyticsModels, ApikeysModels, AuditModels,
    AuthenticationModels, LlmRouterModels, BackendModels, ProvidersModels, BaselineModels,
    BenchmarkModels, CacheModels, ChangeDetectionModels, ClosedBetaModels, DecisionCenterModels,
    EntityExtractionModels, EntityLinkingModels, ExecutionEngineModels, FeedbackCenterModels,
    GraphModels, HardeningModels, InfluenceModels, InsightsModels, ModelBenchmarkModels,
    ModelEvaluationModels, NotificationCenterModels, ObservabilityModels,
    OrganizationWorkspaceModels, ProductModels, ProductAnalyticsModels, ProjectMonitoringModels,
    ProviderDiscoveryModels, ProviderRecommendationModels, ProviderRegistryModels,
    QueryExecutorModels, QueryIntentModels, RateLimitModels, RbacModels, RecommendationModels,
    RecommendationSimulationModels, RecommendationTemplatesModels, RelationshipDiscoveryModels,
    ReportCenterModels, ReportSharingModels, ResearchModels1, ResearchModels2, SchedulerModels,
    SegmentationModels, TrendModels, WorkspaceModels1, WorkspaceModels2}

=============================================================================

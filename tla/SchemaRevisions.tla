-------------------------- MODULE SchemaRevisions --------------------------
(***************************************************************************)
(* The Alembic revisions of backend/alembic/versions, each as the sequence *)
(* of operations its upgrade and its downgrade perform, in their order.    *)
(* Column types, lengths and texts are left out; what is kept of a column  *)
(* is whether an INSERT must supply it.                                    *)
(***************************************************************************)
EXTENDS SchemaOperations

\* Create system events table.
Up0001 == <<
    Create("system_events", {"event_type"}, {"id", "created_at"}, {}, {}),
    Index("ix_system_events_event_type", "system_events", {"event_type"})>>
Down0001 == <<
    DropIndex("ix_system_events_event_type", "system_events"), DropTable("system_events")>>

\* Create Decision Center entities.
Up0002 == <<
    Create("projects", {"name"}, {"id", "description", "created_at"}, {}, {{"name"}}),
    Create("agents", {"name"}, {"id", "description", "created_at"}, {}, {{"name"}}),
    Create("sprints", {"name"}, {"id", "goal", "starts_on", "ends_on", "project_id",
        "created_at"}, {<<"", "project_id", "projects", "SET NULL">>}, {}),
    Create("tasks", {"title", "status"}, {"id", "description", "owner_id", "sprint_id",
        "project_id", "created_at", "updated_at"}, {<<"", "owner_id", "agents", "SET NULL">>,
        <<"", "project_id", "projects", "SET NULL">>, <<"", "sprint_id", "sprints", "SET NULL">>},
        {}), UniqueWhere("uq_tasks_owner_in_progress", "tasks", {"owner_id"}, "in progress"),
    Create("execution_logs", {"entity_type", "entity_id", "action", "changes"}, {"id",
        "created_at"}, {}, {}),
    Index("ix_execution_logs_entity_id", "execution_logs", {"entity_id"}),
    Index("ix_execution_logs_entity_type", "execution_logs", {"entity_type"})>>
Down0002 == <<
    DropIndex("ix_execution_logs_entity_type", "execution_logs"),
    DropIndex("ix_execution_logs_entity_id", "execution_logs"), DropTable("execution_logs"),
    DropIndex("uq_tasks_owner_in_progress", "tasks"), DropTable("tasks"), DropTable("sprints"),
    DropTable("agents"), DropTable("projects")>>

\* Create Execution Engine.
Up0003 == <<
    AddColumn("agents", "agent_type", "optional"),
    AddColumn("agents", "specialization", "optional"),
    AddColumn("agents", "is_enabled", "optional"),
    Index("ix_agents_specialization", "agents", {"specialization"}),
    AddColumn("tasks", "priority", "optional"),
    AddColumn("tasks", "required_specialization", "optional"),
    Index("ix_tasks_required_specialization", "tasks", {"required_specialization"}),
    Create("executions", {"task_id"}, {"id", "agent_id", "state", "started_at", "finished_at",
        "duration_ms", "result", "error", "attempt_count", "created_at"}, {<<"", "agent_id",
        "agents", "">>, <<"", "task_id", "tasks", "">>}, {}),
    Index("ix_executions_agent_id", "executions", {"agent_id"}),
    Index("ix_executions_state", "executions", {"state"}),
    Index("ix_executions_task_id", "executions", {"task_id"}),
    UniqueWhere("uq_executions_active_task", "executions", {"task_id"}, "pending to review"),
    UniqueWhere("uq_executions_active_agent", "executions", {"agent_id"}, "assigned to review")>>
Down0003 == <<
    DropIndex("uq_executions_active_agent", "executions"),
    DropIndex("uq_executions_active_task", "executions"),
    DropIndex("ix_executions_task_id", "executions"),
    DropIndex("ix_executions_state", "executions"),
    DropIndex("ix_executions_agent_id", "executions"), DropTable("executions"),
    DropIndex("ix_tasks_required_specialization", "tasks"),
    DropColumn("tasks", "required_specialization"), DropColumn("tasks", "priority"),
    DropIndex("ix_agents_specialization", "agents"), DropColumn("agents", "is_enabled"),
    DropColumn("agents", "specialization"), DropColumn("agents", "agent_type")>>

\* Create AI Visibility Engine history and weight versions.
Up0004 == <<
    Create("visibility_weight_sets", {"version", "weights", "is_active"}, {"id",
        "created_at"}, {}, {{"version"}}),
    Index("ix_visibility_weight_sets_is_active", "visibility_weight_sets", {"is_active"}),
    Seed("visibility_weight_sets", {"version", "weights", "is_active"}, {"1.0"}),
    Create("visibility_calculations", {"entity_id", "entity", "visibility_score",
        "confidence", "metrics", "weights", "weight_version", "input_payload", "calculated_at"},
        {"id"}, {}, {}),
    Index("ix_visibility_calculations_calculated_at", "visibility_calculations",
        {"calculated_at"}),
    Index("ix_visibility_calculations_entity_id", "visibility_calculations", {"entity_id"}),
    Index("ix_visibility_calculations_weight_version", "visibility_calculations",
        {"weight_version"})>>
Down0004 == <<
    DropIndex("ix_visibility_calculations_weight_version", "visibility_calculations"),
    DropIndex("ix_visibility_calculations_entity_id", "visibility_calculations"),
    DropIndex("ix_visibility_calculations_calculated_at", "visibility_calculations"),
    DropTable("visibility_calculations"),
    DropIndex("ix_visibility_weight_sets_is_active", "visibility_weight_sets"),
    DropTable("visibility_weight_sets")>>

\* Create Entity Extraction Engine history.
Up0005 == <<
    Create("entity_extraction_runs", {"response_id", "raw_response", "output_payload",
        "version", "processed_at"}, {"id", "model"}, {}, {{"response_id"}}),
    Index("ix_entity_extraction_runs_processed_at", "entity_extraction_runs", {"processed_at"}),
    Unique("ix_entity_extraction_runs_response_id", "entity_extraction_runs", {"response_id"}),
    Create("entity_history", {"run_id", "response_id", "entity_id", "name", "canonical_name",
        "entity_type", "confidence", "aliases", "knowledge_graph_id"}, {"id"}, {<<"", "run_id",
        "entity_extraction_runs", "CASCADE">>}, {}),
    Index("ix_entity_history_canonical_name", "entity_history", {"canonical_name"}),
    Index("ix_entity_history_entity_type", "entity_history", {"entity_type"}),
    Index("ix_entity_history_knowledge_graph_id", "entity_history", {"knowledge_graph_id"}),
    Index("ix_entity_history_response_id", "entity_history", {"response_id"}),
    Create("relation_history", {"run_id", "response_id", "relation_id", "source_entity_id",
        "target_entity_id", "relation_type", "confidence"}, {"id"}, {<<"", "run_id",
        "entity_extraction_runs", "CASCADE">>}, {}),
    Index("ix_relation_history_relation_type", "relation_history", {"relation_type"}),
    Index("ix_relation_history_response_id", "relation_history", {"response_id"}),
    Create("resolution_log_history", {"run_id", "response_id", "stage", "action", "details"},
        {"id", "message"}, {<<"", "run_id", "entity_extraction_runs", "CASCADE">>}, {}),
    Index("ix_resolution_log_history_response_id", "resolution_log_history", {"response_id"}),
    Index("ix_resolution_log_history_stage", "resolution_log_history", {"stage"})>>
Down0005 == <<
    DropIndex("ix_resolution_log_history_stage", "resolution_log_history"),
    DropIndex("ix_resolution_log_history_response_id", "resolution_log_history"),
    DropTable("resolution_log_history"),
    DropIndex("ix_relation_history_response_id", "relation_history"),
    DropIndex("ix_relation_history_relation_type", "relation_history"),
    DropTable("relation_history"), DropIndex("ix_entity_history_response_id", "entity_history"),
    DropIndex("ix_entity_history_knowledge_graph_id", "entity_history"),
    DropIndex("ix_entity_history_entity_type", "entity_history"),
    DropIndex("ix_entity_history_canonical_name", "entity_history"), DropTable("entity_history"),
    DropIndex("ix_entity_extraction_runs_response_id", "entity_extraction_runs"),
    DropIndex("ix_entity_extraction_runs_processed_at", "entity_extraction_runs"),
    DropTable("entity_extraction_runs")>>

\* Create Query Intent Engine history.
Up0006 == <<
    Create("intent_classification_runs", {"request_id", "query", "language", "primary_intent",
        "confidence", "output_payload", "version", "classified_at"}, {"id"}, {},
        {{"request_id"}}),
    Index("ix_intent_classification_runs_classified_at", "intent_classification_runs",
        {"classified_at"}),
    Index("ix_intent_classification_runs_language", "intent_classification_runs", {"language"}),
    Index("ix_intent_classification_runs_primary_intent", "intent_classification_runs",
        {"primary_intent"}),
    Unique("ix_intent_classification_runs_request_id", "intent_classification_runs",
        {"request_id"}),
    Create("intent_history", {"run_id", "request_id", "intent", "subtype", "confidence",
        "is_primary", "signals"}, {"id"}, {<<"", "run_id", "intent_classification_runs",
        "CASCADE">>}, {}), Index("ix_intent_history_intent", "intent_history", {"intent"}),
    Index("ix_intent_history_request_id", "intent_history", {"request_id"}),
    Create("confidence_history", {"run_id", "request_id", "source", "intent", "confidence"},
        {"id"}, {<<"", "run_id", "intent_classification_runs", "CASCADE">>}, {}),
    Index("ix_confidence_history_intent", "confidence_history", {"intent"}),
    Index("ix_confidence_history_request_id", "confidence_history", {"request_id"}),
    Index("ix_confidence_history_source", "confidence_history", {"source"}),
    Create("routing_metadata", {"run_id", "request_id", "strategy", "llm_fallback_required",
        "metadata_payload"}, {"id"}, {<<"", "run_id", "intent_classification_runs", "CASCADE">>},
        {}), Index("ix_routing_metadata_request_id", "routing_metadata", {"request_id"}),
    Index("ix_routing_metadata_strategy", "routing_metadata", {"strategy"})>>
Down0006 == <<
    DropIndex("ix_routing_metadata_strategy", "routing_metadata"),
    DropIndex("ix_routing_metadata_request_id", "routing_metadata"),
    DropTable("routing_metadata"),
    DropIndex("ix_confidence_history_source", "confidence_history"),
    DropIndex("ix_confidence_history_request_id", "confidence_history"),
    DropIndex("ix_confidence_history_intent", "confidence_history"),
    DropTable("confidence_history"), DropIndex("ix_intent_history_request_id", "intent_history"),
    DropIndex("ix_intent_history_intent", "intent_history"), DropTable("intent_history"),
    DropIndex("ix_intent_classification_runs_request_id", "intent_classification_runs"),
    DropIndex("ix_intent_classification_runs_primary_intent", "intent_classification_runs"),
    DropIndex("ix_intent_classification_runs_language", "intent_classification_runs"),
    DropIndex("ix_intent_classification_runs_classified_at", "intent_classification_runs"),
    DropTable("intent_classification_runs")>>

\* Create Query Executor history and metrics.
Up0007 == <<
    Create("query_execution_history", {"execution_id", "plan_id", "mode", "state",
        "plan_payload", "created_at"}, {"id", "request_id", "output_payload", "error",
        "started_at", "finished_at", "duration_ms"}, {}, {{"execution_id"}}),
    Unique("ix_query_execution_history_execution_id", "query_execution_history",
        {"execution_id"}),
    Index("ix_query_execution_history_mode", "query_execution_history", {"mode"}),
    Index("ix_query_execution_history_plan_id", "query_execution_history", {"plan_id"}),
    Index("ix_query_execution_history_request_id", "query_execution_history", {"request_id"}),
    Index("ix_query_execution_history_state", "query_execution_history", {"state"}),
    Create("query_execution_metrics", {"execution_row_id", "execution_id", "metric_name",
        "metric_value", "unit", "metadata_payload"}, {"id"}, {<<"", "execution_row_id",
        "query_execution_history", "CASCADE">>}, {}),
    Index("ix_query_execution_metrics_execution_id", "query_execution_metrics", {"execution_id"}),
    Index("ix_query_execution_metrics_metric_name", "query_execution_metrics", {"metric_name"}),
    Create("query_provider_metrics", {"execution_row_id", "execution_id", "step_id",
        "provider", "state", "attempts", "latency_ms"}, {"id", "failure"}, {<<"",
        "execution_row_id", "query_execution_history", "CASCADE">>}, {}),
    Index("ix_query_provider_metrics_execution_id", "query_provider_metrics", {"execution_id"}),
    Index("ix_query_provider_metrics_provider", "query_provider_metrics", {"provider"}),
    Index("ix_query_provider_metrics_state", "query_provider_metrics", {"state"})>>
Down0007 == <<
    DropIndex("ix_query_provider_metrics_state", "query_provider_metrics"),
    DropIndex("ix_query_provider_metrics_provider", "query_provider_metrics"),
    DropIndex("ix_query_provider_metrics_execution_id", "query_provider_metrics"),
    DropTable("query_provider_metrics"),
    DropIndex("ix_query_execution_metrics_metric_name", "query_execution_metrics"),
    DropIndex("ix_query_execution_metrics_execution_id", "query_execution_metrics"),
    DropTable("query_execution_metrics"),
    DropIndex("ix_query_execution_history_state", "query_execution_history"),
    DropIndex("ix_query_execution_history_request_id", "query_execution_history"),
    DropIndex("ix_query_execution_history_plan_id", "query_execution_history"),
    DropIndex("ix_query_execution_history_mode", "query_execution_history"),
    DropIndex("ix_query_execution_history_execution_id", "query_execution_history"),
    DropTable("query_execution_history")>>

\* Create production LLM Router storage.
Up0008 == <<
    Create("router_models", {"id", "provider", "display_name", "status", "tier",
        "capabilities", "input_cost_per_million", "output_cost_per_million", "latency_ms",
        "quality", "availability", "context_window", "hallucination_rate", "domains", "languages",
        "metadata_payload", "created_at", "updated_at"}, {}, {}, {}),
    Index("ix_router_models_provider", "router_models", {"provider"}),
    Index("ix_router_models_status", "router_models", {"status"}),
    Index("ix_router_models_tier", "router_models", {"tier"}),
    Create("router_policies", {"id", "name", "enabled", "execution_mode", "top_k", "weights",
        "required_capabilities", "settings", "updated_at"}, {"daily_budget_usd",
        "monthly_budget_usd"}, {}, {}),
    Index("ix_router_policies_enabled", "router_policies", {"enabled"}),
    Create("router_history", {"correlation_id", "query", "intent", "policy_id",
        "selected_models", "execution_mode", "routing_scores", "estimated_cost_usd", "latency_ms",
        "fallback_count", "budget_downgraded", "created_at"}, {"id", "error"}, {}, {}),
    Index("ix_router_history_correlation_id", "router_history", {"correlation_id"}),
    Index("ix_router_history_intent", "router_history", {"intent"}),
    Index("ix_router_history_policy_id", "router_history", {"policy_id"}),
    Index("ix_router_history_created_at", "router_history", {"created_at"}),
    Create("router_cost_logs", {"correlation_id", "model_id", "provider", "input_tokens",
        "output_tokens", "cost_usd", "cost_type", "created_at"}, {"id"}, {}, {}),
    Index("ix_router_cost_logs_correlation_id", "router_cost_logs", {"correlation_id"}),
    Index("ix_router_cost_logs_model_id", "router_cost_logs", {"model_id"}),
    Index("ix_router_cost_logs_provider", "router_cost_logs", {"provider"}),
    Index("ix_router_cost_logs_created_at", "router_cost_logs", {"created_at"}),
    Create("router_circuit_breakers", {"model_id", "state", "failure_count", "success_count",
        "updated_at"}, {"opened_at", "last_failure_at"}, {}, {}),
    Index("ix_router_circuit_breakers_state", "router_circuit_breakers", {"state"})>>
Down0008 == <<
    DropIndex("ix_router_circuit_breakers_state", "router_circuit_breakers"),
    DropTable("router_circuit_breakers"),
    DropIndex("ix_router_cost_logs_created_at", "router_cost_logs"),
    DropIndex("ix_router_cost_logs_provider", "router_cost_logs"),
    DropIndex("ix_router_cost_logs_model_id", "router_cost_logs"),
    DropIndex("ix_router_cost_logs_correlation_id", "router_cost_logs"),
    DropTable("router_cost_logs"), DropIndex("ix_router_history_created_at", "router_history"),
    DropIndex("ix_router_history_policy_id", "router_history"),
    DropIndex("ix_router_history_intent", "router_history"),
    DropIndex("ix_router_history_correlation_id", "router_history"), DropTable("router_history"),
    DropIndex("ix_router_policies_enabled", "router_policies"), DropTable("router_policies"),
    DropIndex("ix_router_models_tier", "router_models"),
    DropIndex("ix_router_models_status", "router_models"),
    DropIndex("ix_router_models_provider", "router_models"), DropTable("router_models")>>

\* Add provider region and success probability.
Up0009 == <<
    AddColumn("router_models", "region", "optional"),
    AddColumn("router_models", "success_probability", "optional"),
    Index("ix_router_models_region", "router_models", {"region"})>>
Down0009 == <<
    DropIndex("ix_router_models_region", "router_models"),
    DropColumn("router_models", "success_probability"), DropColumn("router_models", "region")>>

\* Create provider usage ledger.
Up0010 == <<
    Create("provider_usage", {"execution_id", "provider", "model", "prompt_tokens",
        "completion_tokens", "total_tokens", "estimated_cost", "currency", "created_at"}, {"id"},
        {}, {}), Index("ix_provider_usage_execution_id", "provider_usage", {"execution_id"}),
    Index("ix_provider_usage_provider", "provider_usage", {"provider"}),
    Index("ix_provider_usage_model", "provider_usage", {"model"}),
    Index("ix_provider_usage_created_at", "provider_usage", {"created_at"})>>
Down0010 == <<
    DropIndex("ix_provider_usage_created_at", "provider_usage"),
    DropIndex("ix_provider_usage_model", "provider_usage"),
    DropIndex("ix_provider_usage_provider", "provider_usage"),
    DropIndex("ix_provider_usage_execution_id", "provider_usage"), DropTable("provider_usage")>>

\* Create Research domain.
Up0011 == <<
    Create("researches", {"title", "status", "metadata_payload"}, {"id", "description",
        "objective", "created_at", "updated_at"}, {}, {}),
    Index("ix_researches_status_created_at", "researches", {"status", "created_at"}),
    Create("research_tasks", {"research_id", "query", "status", "priority",
        "metadata_payload"}, {"id", "provider", "model", "created_at", "updated_at"}, {<<"",
        "research_id", "researches", "CASCADE">>}, {}),
    Index("ix_research_tasks_research_id_status", "research_tasks", {"research_id", "status"}),
    Create("research_responses", {"research_task_id", "provider", "model", "content",
        "raw_payload", "prompt_tokens", "completion_tokens", "total_tokens"}, {"id", "latency_ms",
        "created_at"}, {<<"", "research_task_id", "research_tasks", "CASCADE">>}, {}),
    Index("ix_research_responses_task_created_at", "research_responses", {"research_task_id",
        "created_at"})>>
Down0011 == <<
    DropIndex("ix_research_responses_task_created_at", "research_responses"),
    DropTable("research_responses"),
    DropIndex("ix_research_tasks_research_id_status", "research_tasks"),
    DropTable("research_tasks"), DropIndex("ix_researches_status_created_at", "researches"),
    DropTable("researches")>>

\* Add Research execution progress.
Up0012 == <<
    AddColumn("researches", "total_tasks", "optional"),
    AddColumn("researches", "completed_tasks", "optional"),
    AddColumn("researches", "failed_tasks", "optional"),
    AddColumn("researches", "progress_percent", "optional"),
    AddColumn("research_tasks", "decision_task_id", "optional"),
    AddColumn("research_tasks", "execution_id", "optional"),
    AddColumn("research_tasks", "error", "optional"),
    AddReference("fk_research_tasks_decision_task_id", "research_tasks", "decision_task_id",
        "tasks", "SET NULL"),
    AddReference("fk_research_tasks_execution_id", "research_tasks", "execution_id",
        "executions", "SET NULL"),
    Index("ix_research_tasks_decision_task_id", "research_tasks", {"decision_task_id"}),
    Index("ix_research_tasks_execution_id", "research_tasks", {"execution_id"})>>
Down0012 == <<
    DropIndex("ix_research_tasks_execution_id", "research_tasks"),
    DropIndex("ix_research_tasks_decision_task_id", "research_tasks"),
    DropReference("fk_research_tasks_execution_id", "research_tasks"),
    DropReference("fk_research_tasks_decision_task_id", "research_tasks"),
    DropColumn("research_tasks", "error"), DropColumn("research_tasks", "execution_id"),
    DropColumn("research_tasks", "decision_task_id"),
    DropColumn("researches", "progress_percent"), DropColumn("researches", "failed_tasks"),
    DropColumn("researches", "completed_tasks"), DropColumn("researches", "total_tasks")>>

\* Add normalized Research responses.
Up0013 == <<
    AddColumn("research_responses", "prompt", "optional"),
    AddColumn("research_responses", "raw_response", "optional"),
    AddColumn("research_responses", "normalized_response", "optional"),
    AddColumn("research_responses", "input_tokens", "optional"),
    AddColumn("research_responses", "output_tokens", "optional"),
    AddColumn("research_responses", "cost", "optional"),
    AddColumn("research_responses", "error_type", "optional"),
    AddColumn("research_responses", "error_message", "optional"),
    AddColumn("research_responses", "finished_at", "optional"),
    Update("research_responses", {"completion_tokens", "created_at", "finished_at",
        "input_tokens", "output_tokens", "prompt_tokens", "raw_payload", "raw_response"})>>
Down0013 == <<
    DropColumn("research_responses", "finished_at"),
    DropColumn("research_responses", "error_message"),
    DropColumn("research_responses", "error_type"), DropColumn("research_responses", "cost"),
    DropColumn("research_responses", "output_tokens"),
    DropColumn("research_responses", "input_tokens"),
    DropColumn("research_responses", "normalized_response"),
    DropColumn("research_responses", "raw_response"), DropColumn("research_responses", "prompt")>>

\* Add Research intelligence extraction.
Up0014 == <<
    AddColumn("research_responses", "processing_status", "optional"),
    AddColumn("research_responses", "processing_error", "optional"),
    Create("research_extracted_entities", {"response_id", "name", "canonical_name",
        "entity_type", "confidence", "aliases", "metadata_payload"}, {"id", "knowledge_graph_id"},
        {<<"", "response_id", "research_responses", "CASCADE">>}, {}),
    Index("ix_research_entities_response_type", "research_extracted_entities", {"response_id",
        "entity_type"}),
    Create("research_extracted_citations", {"response_id", "position", "metadata_payload"},
        {"id", "url", "title", "source", "excerpt"}, {<<"", "response_id", "research_responses",
        "CASCADE">>}, {}),
    Index("ix_research_citations_response", "research_extracted_citations", {"response_id"}),
    Create("research_extracted_recommendations", {"response_id", "content", "rank",
        "confidence", "metadata_payload"}, {"id"}, {<<"", "response_id", "research_responses",
        "CASCADE">>}, {}),
    Index("ix_research_recommendations_response", "research_extracted_recommendations",
        {"response_id"})>>
Down0014 == <<
    DropIndex("ix_research_recommendations_response", "research_extracted_recommendations"),
    DropTable("research_extracted_recommendations"),
    DropIndex("ix_research_citations_response", "research_extracted_citations"),
    DropTable("research_extracted_citations"),
    DropIndex("ix_research_entities_response_type", "research_extracted_entities"),
    DropTable("research_extracted_entities"),
    DropColumn("research_responses", "processing_error"),
    DropColumn("research_responses", "processing_status")>>

\* Add Research visibility scores.
Up0015 == <<
    Create("research_scores", {"research_id", "mention_score", "recommendation_score",
        "citation_score", "coverage_score", "confidence_score", "visibility_score", "version"},
        {"id", "calculated_at"}, {<<"", "research_id", "researches", "CASCADE">>}, {}),
    Unique("uq_research_scores_research_version", "research_scores", {"research_id", "version"}),
    Index("ix_research_scores_calculated_at", "research_scores", {"calculated_at"})>>
Down0015 == <<
    DropIndex("ix_research_scores_calculated_at", "research_scores"),
    DropIndex("uq_research_scores_research_version", "research_scores"),
    DropTable("research_scores")>>

\* Add tracked entity ID to Research.
Up0016 == <<
    AddColumn("researches", "entity_id", "optional"),
    Index("ix_researches_entity_id", "researches", {"entity_id"})>>
Down0016 == <<
    DropIndex("ix_researches_entity_id", "researches"), DropColumn("researches", "entity_id")>>

\* Create rule-based Recommendation Engine.
Up0017 == <<
    Create("recommendation_rules", {"code", "recommendation_type", "metric", "operator",
        "threshold", "priority", "explanation_template", "expected_effect", "version",
        "is_active"}, {"id", "created_at"}, {}, {{"code"}}),
    Index("ix_recommendation_rules_active_version", "recommendation_rules", {"is_active",
        "version"}),
    Create("recommendation_executions", {"research_id", "status", "engine_version",
        "input_snapshot", "generated_count"}, {"id", "error", "started_at", "finished_at"}, {},
        {}),
    Index("ix_recommendation_executions_research_started", "recommendation_executions",
        {"research_id", "started_at"}),
    Create("recommendations", {"execution_id", "research_id", "recommendation_type",
        "priority", "explanation", "metric", "metric_value", "expected_effect"}, {"id", "rule_id",
        "created_at"}, {<<"", "execution_id", "recommendation_executions", "CASCADE">>, <<"",
        "rule_id", "recommendation_rules", "SET NULL">>}, {}),
    Index("ix_recommendations_research_created", "recommendations", {"research_id",
        "created_at"}),
    Index("ix_recommendations_execution_priority", "recommendations", {"execution_id",
        "priority"}), Index("ix_recommendations_rule_id", "recommendations", {"rule_id"}),
    Seed("recommendation_rules", {"code", "expected_effect", "explanation_template",
        "is_active", "metric", "operator", "priority", "recommendation_type", "threshold",
        "version"}, {"v1-low-mention", "v1-low-citation", "v1-low-recommendation",
        "v1-low-coverage"})>>
Down0017 == <<
    DropIndex("ix_recommendations_rule_id", "recommendations"),
    DropIndex("ix_recommendations_execution_priority", "recommendations"),
    DropIndex("ix_recommendations_research_created", "recommendations"),
    DropTable("recommendations"),
    DropIndex("ix_recommendation_executions_research_started", "recommendation_executions"),
    DropTable("recommendation_executions"),
    DropIndex("ix_recommendation_rules_active_version", "recommendation_rules"),
    DropTable("recommendation_rules")>>

\* Add versioned Recommendation templates.
Up0018 == <<
    Create("recommendation_templates", {"template_code", "recommendation_type", "title",
        "description", "steps", "expected_result", "estimated_time", "priority", "version"},
        {"id", "created_at"}, {}, {{"template_code", "version"}}),
    Index("ix_recommendation_templates_type_version", "recommendation_templates",
        {"recommendation_type", "version"}),
    AddColumn("recommendations", "template_id", "optional"),
    AddReference("fk_recommendations_template_id", "recommendations", "template_id",
        "recommendation_templates", "SET NULL"),
    Index("ix_recommendations_template_id", "recommendations", {"template_id"}),
    Seed("recommendation_templates", {"description", "estimated_time", "expected_result",
        "priority", "recommendation_type", "steps", "template_code", "title", "version"},
        {"mention-quality-plan", "citation-authority-plan", "trust-signals-plan",
        "source-expansion-plan"})>>
Down0018 == <<
    DropIndex("ix_recommendations_template_id", "recommendations"),
    DropReference("fk_recommendations_template_id", "recommendations"),
    DropColumn("recommendations", "template_id"),
    DropIndex("ix_recommendation_templates_type_version", "recommendation_templates"),
    DropTable("recommendation_templates")>>

\* Add deterministic Recommendation simulations.
Up0019 == <<
    Create("recommendation_simulations", {"recommendation_id", "current_visibility",
        "predicted_visibility", "predicted_delta", "confidence_min", "confidence_expected",
        "confidence_max", "estimated_duration_days", "model_version"}, {"id", "created_at"},
        {<<"", "recommendation_id", "recommendations", "CASCADE">>}, {}),
    Index("ix_recommendation_simulations_recommendation_created",
        "recommendation_simulations", {"recommendation_id", "created_at"})>>
Down0019 == <<
    DropIndex("ix_recommendation_simulations_recommendation_created",
        "recommendation_simulations"), DropTable("recommendation_simulations")>>

\* Add persisted trend series, snapshots, and points.
Up0020 == <<
    Create("trend_series", {"entity_id", "model_version"}, {"id", "moving_average_window",
        "created_at"}, {}, {}),
    Unique("uq_trend_series_entity_version", "trend_series", {"entity_id", "model_version"}),
    Create("trend_snapshots", {"series_id", "source_count"}, {"id", "built_at"}, {<<"",
        "series_id", "trend_series", "CASCADE">>}, {}),
    Index("ix_trend_snapshots_series_built", "trend_snapshots", {"series_id", "built_at"}),
    Create("trend_points", {"snapshot_id", "research_id", "metric", "observed_at", "value",
        "moving_average", "direction"}, {"id", "percentage_change"}, {<<"", "snapshot_id",
        "trend_snapshots", "CASCADE">>}, {}),
    Index("ix_trend_points_snapshot_metric_time", "trend_points", {"snapshot_id", "metric",
        "observed_at"})>>
Down0020 == <<
    DropIndex("ix_trend_points_snapshot_metric_time", "trend_points"), DropTable("trend_points"),
    DropIndex("ix_trend_snapshots_series_built", "trend_snapshots"), DropTable("trend_snapshots"),
    DropIndex("uq_trend_series_entity_version", "trend_series"), DropTable("trend_series")>>

\* Add versioned Alert Engine rules and event history.
Up0021 == <<
    Create("alert_rules", {"code", "alert_type", "severity", "version", "is_active"}, {"id",
        "threshold", "created_at"}, {}, {}),
    Unique("uq_alert_rules_code_version", "alert_rules", {"code", "version"}),
    Index("ix_alert_rules_active_version", "alert_rules", {"is_active", "version"}),
    Create("alerts", {"entity_id", "rule_id", "alert_type", "severity", "title", "message",
        "context"}, {"id", "previous_value", "current_value", "detected_at"}, {<<"", "rule_id",
        "alert_rules", "">>}, {}),
    Index("ix_alerts_entity_detected", "alerts", {"entity_id", "detected_at"}),
    Index("ix_alerts_rule_id", "alerts", {"rule_id"}),
    Create("alert_events", {"alert_id", "event_type", "payload"}, {"id", "created_at"}, {<<"",
        "alert_id", "alerts", "CASCADE">>}, {}),
    Index("ix_alert_events_alert_created", "alert_events", {"alert_id", "created_at"})>>
Down0021 == <<
    DropIndex("ix_alert_events_alert_created", "alert_events"), DropTable("alert_events"),
    DropIndex("ix_alerts_rule_id", "alerts"), DropIndex("ix_alerts_entity_detected", "alerts"),
    DropTable("alerts"), DropIndex("ix_alert_rules_active_version", "alert_rules"),
    DropIndex("uq_alert_rules_code_version", "alert_rules"), DropTable("alert_rules")>>

\* Add recurring schedules and execution history.
Up0022 == <<
    Create("schedules", {"name", "research_id", "schedule_type", "models", "retry_policy",
        "is_enabled", "next_run_at"}, {"id", "cron_expression", "query", "last_run_at",
        "created_at", "updated_at"}, {}, {}),
    Index("ix_schedules_enabled_next_run", "schedules", {"is_enabled", "next_run_at"}),
    Create("schedule_executions", {"schedule_id", "status", "attempts", "scheduled_for",
        "started_at"}, {"id", "research_id", "error", "finished_at"}, {<<"", "schedule_id",
        "schedules", "CASCADE">>}, {}),
    Index("ix_schedule_executions_schedule_started", "schedule_executions", {"schedule_id",
        "started_at"}),
    UniqueWhere("uq_schedule_executions_one_running", "schedule_executions", {"schedule_id"},
        "running"),
    Create("schedule_history", {"execution_id", "attempt", "status", "retry_delay_seconds",
        "started_at", "finished_at"}, {"id", "research_id", "error"}, {<<"", "execution_id",
        "schedule_executions", "CASCADE">>}, {}),
    Index("ix_schedule_history_execution_attempt", "schedule_history", {"execution_id",
        "attempt"})>>
Down0022 == <<
    DropIndex("ix_schedule_history_execution_attempt", "schedule_history"),
    DropTable("schedule_history"),
    DropIndex("uq_schedule_executions_one_running", "schedule_executions"),
    DropIndex("ix_schedule_executions_schedule_started", "schedule_executions"),
    DropTable("schedule_executions"), DropIndex("ix_schedules_enabled_next_run", "schedules"),
    DropTable("schedules")>>

\* Add quality baselines, snapshots, and regression events.
Up0023 == <<
    Create("baselines", {"entity_id", "research_id", "update_policy", "thresholds",
        "algorithm_version"}, {"id", "created_at", "updated_at"}, {}, {{"entity_id"}}),
    Create("baseline_snapshots", {"baseline_id", "research_id", "visibility", "mention",
        "recommendation", "citation", "coverage", "confidence", "reason", "algorithm_version"},
        {"id", "created_at"}, {<<"", "baseline_id", "baselines", "CASCADE">>}, {}),
    Index("ix_baseline_snapshots_baseline_created", "baseline_snapshots", {"baseline_id",
        "created_at"}),
    Create("regression_events", {"baseline_id", "baseline_snapshot_id", "current_research_id",
        "metric", "baseline_value", "current_value", "delta", "severity", "algorithm_version"},
        {"id", "created_at"}, {<<"", "baseline_id", "baselines", "CASCADE">>, <<"",
        "baseline_snapshot_id", "baseline_snapshots", "CASCADE">>}, {}),
    Index("ix_regression_events_baseline_created", "regression_events", {"baseline_id",
        "created_at"}),
    Index("ix_regression_events_snapshot_id", "regression_events", {"baseline_snapshot_id"})>>
Down0023 == <<
    DropIndex("ix_regression_events_snapshot_id", "regression_events"),
    DropIndex("ix_regression_events_baseline_created", "regression_events"),
    DropTable("regression_events"),
    DropIndex("ix_baseline_snapshots_baseline_created", "baseline_snapshots"),
    DropTable("baseline_snapshots"), DropTable("baselines")>>

\* Add immutable knowledge graph snapshots.
Up0024 == <<
    Create("graph_snapshots", {"structure_version", "node_count", "edge_count",
        "build_metadata"}, {"id", "created_at"}, {}, {}),
    Index("ix_graph_snapshots_created", "graph_snapshots", {"created_at"}),
    Create("graph_nodes", {"snapshot_id", "external_id", "name", "canonical_name",
        "node_type", "confidence", "aliases", "properties"}, {"id"}, {<<"", "snapshot_id",
        "graph_snapshots", "CASCADE">>}, {}),
    Unique("uq_graph_nodes_snapshot_external", "graph_nodes", {"snapshot_id", "external_id"}),
    Index("ix_graph_nodes_snapshot_type", "graph_nodes", {"snapshot_id", "node_type"}),
    Create("graph_edges", {"snapshot_id", "source_node_id", "target_node_id", "edge_type",
        "confidence", "properties"}, {"id"}, {<<"", "snapshot_id", "graph_snapshots", "CASCADE">>,
        <<"", "source_node_id", "graph_nodes", "CASCADE">>, <<"", "target_node_id", "graph_nodes",
        "CASCADE">>}, {}),
    Index("ix_graph_edges_snapshot_type", "graph_edges", {"snapshot_id", "edge_type"}),
    Unique("uq_graph_edges_snapshot_nodes_type", "graph_edges", {"snapshot_id",
        "source_node_id", "target_node_id", "edge_type"})>>
Down0024 == <<
    DropIndex("uq_graph_edges_snapshot_nodes_type", "graph_edges"),
    DropIndex("ix_graph_edges_snapshot_type", "graph_edges"), DropTable("graph_edges"),
    DropIndex("ix_graph_nodes_snapshot_type", "graph_nodes"),
    DropIndex("uq_graph_nodes_snapshot_external", "graph_nodes"), DropTable("graph_nodes"),
    DropIndex("ix_graph_snapshots_created", "graph_snapshots"), DropTable("graph_snapshots")>>

\* Add canonical entity linking and decision history.
Up0025 == <<
    Create("canonical_entities", {"canonical_name", "normalized_name", "entity_type",
        "algorithm_version"}, {"id", "created_at", "updated_at"}, {}, {}),
    Unique("uq_canonical_entities_type_normalized", "canonical_entities", {"entity_type",
        "normalized_name"}),
    Create("entity_aliases", {"canonical_entity_id", "alias", "normalized_alias",
        "entity_type", "source"}, {"id", "created_at"}, {<<"", "canonical_entity_id",
        "canonical_entities", "CASCADE">>}, {}),
    Index("ix_entity_aliases_canonical_id", "entity_aliases", {"canonical_entity_id"}),
    Unique("uq_entity_aliases_type_normalized", "entity_aliases", {"entity_type",
        "normalized_alias"}),
    Create("link_candidates", {"graph_snapshot_id", "graph_node_id", "external_id",
        "entity_name", "normalized_name", "entity_type", "confidence", "match_method", "status",
        "algorithm_version"}, {"id", "canonical_entity_id", "created_at", "resolved_at"}, {<<"",
        "canonical_entity_id", "canonical_entities", "SET NULL">>}, {}),
    Index("ix_link_candidates_status_created", "link_candidates", {"status", "created_at"}),
    Index("ix_link_candidates_snapshot_node", "link_candidates", {"graph_snapshot_id",
        "graph_node_id"}),
    Create("link_decisions", {"candidate_id", "decision", "actor", "algorithm_version"},
        {"id", "canonical_entity_id", "reason", "created_at"}, {<<"", "candidate_id",
        "link_candidates", "CASCADE">>}, {}),
    Index("ix_link_decisions_candidate_created", "link_decisions", {"candidate_id",
        "created_at"})>>
Down0025 == <<
    DropIndex("ix_link_decisions_candidate_created", "link_decisions"),
    DropTable("link_decisions"), DropIndex("ix_link_candidates_snapshot_node", "link_candidates"),
    DropIndex("ix_link_candidates_status_created", "link_candidates"),
    DropTable("link_candidates"),
    DropIndex("uq_entity_aliases_type_normalized", "entity_aliases"),
    DropIndex("ix_entity_aliases_canonical_id", "entity_aliases"), DropTable("entity_aliases"),
    DropIndex("uq_canonical_entities_type_normalized", "canonical_entities"),
    DropTable("canonical_entities")>>

\* Add relationship discovery candidates and evidence.
Up0026 == <<
    Create("relationship_candidates", {"graph_snapshot_id", "source_external_id",
        "target_external_id", "relationship_type", "confidence", "status", "algorithm_version"},
        {"id", "integrated_snapshot_id", "created_at", "resolved_at"}, {}, {}),
    Unique("uq_relationship_candidates_identity", "relationship_candidates",
        {"graph_snapshot_id", "source_external_id", "target_external_id", "relationship_type"}),
    Index("ix_relationship_candidates_status_created", "relationship_candidates", {"status",
        "created_at"}),
    Create("relationship_evidence", {"candidate_id", "source_type", "source_reference",
        "confidence", "payload"}, {"id", "created_at"}, {<<"", "candidate_id",
        "relationship_candidates", "CASCADE">>}, {}),
    Index("ix_relationship_evidence_candidate", "relationship_evidence", {"candidate_id"}),
    Unique("uq_relationship_evidence_source", "relationship_evidence", {"candidate_id",
        "source_type", "source_reference"}),
    Create("relationship_decisions", {"candidate_id", "decision", "actor",
        "algorithm_version"}, {"id", "reason", "created_at"}, {<<"", "candidate_id",
        "relationship_candidates", "CASCADE">>}, {}),
    Index("ix_relationship_decisions_candidate_created", "relationship_decisions",
        {"candidate_id", "created_at"})>>
Down0026 == <<
    DropIndex("ix_relationship_decisions_candidate_created", "relationship_decisions"),
    DropTable("relationship_decisions"),
    DropIndex("uq_relationship_evidence_source", "relationship_evidence"),
    DropIndex("ix_relationship_evidence_candidate", "relationship_evidence"),
    DropTable("relationship_evidence"),
    DropIndex("ix_relationship_candidates_status_created", "relationship_candidates"),
    DropIndex("uq_relationship_candidates_identity", "relationship_candidates"),
    DropTable("relationship_candidates")>>

\* Add versioned entity influence scoring.
Up0027 == <<
    Create("influence_snapshots", {"graph_snapshot_id", "algorithm_version", "node_count",
        "edge_count"}, {"id", "calculated_at"}, {}, {{"graph_snapshot_id", "algorithm_version"}}),
    Index("ix_influence_snapshots_calculated", "influence_snapshots", {"calculated_at"}),
    Create("entity_influence", {"snapshot_id", "entity_id", "name", "node_type", "degree",
        "weighted_degree", "pagerank", "betweenness", "closeness", "influence_score", "rank"},
        {"id"}, {<<"", "snapshot_id", "influence_snapshots", "CASCADE">>}, {{"snapshot_id",
        "entity_id"}}), Index("ix_entity_influence_entity", "entity_influence", {"entity_id"}),
    Index("ix_entity_influence_snapshot_rank", "entity_influence", {"snapshot_id", "rank"})>>
Down0027 == <<
    DropIndex("ix_entity_influence_snapshot_rank", "entity_influence"),
    DropIndex("ix_entity_influence_entity", "entity_influence"), DropTable("entity_influence"),
    DropIndex("ix_influence_snapshots_calculated", "influence_snapshots"),
    DropTable("influence_snapshots")>>

\* Add graph search indexes.
Up0028 == <<
    Index("ix_graph_nodes_snapshot_name", "graph_nodes", {"snapshot_id", "name"}),
    Index("ix_graph_nodes_snapshot_canonical", "graph_nodes", {"snapshot_id", "canonical_name"}),
    Index("ix_graph_edges_snapshot_target", "graph_edges", {"snapshot_id", "target_node_id"})>>
Down0028 == <<
    DropIndex("ix_graph_edges_snapshot_target", "graph_edges"),
    DropIndex("ix_graph_nodes_snapshot_canonical", "graph_nodes"),
    DropIndex("ix_graph_nodes_snapshot_name", "graph_nodes")>>

\* Add Analytics Engine run history.
Up0029 == <<
    Create("analytics_runs", {"engine_version", "query_payload", "result_payload",
        "source_record_count", "group_count"}, {"id", "calculated_at"}, {}, {}),
    Index("ix_analytics_runs_calculated_id", "analytics_runs", {"calculated_at", "id"}),
    Index("ix_analytics_runs_version_calculated", "analytics_runs", {"engine_version",
        "calculated_at"})>>
Down0029 == <<
    DropIndex("ix_analytics_runs_version_calculated", "analytics_runs"),
    DropIndex("ix_analytics_runs_calculated_id", "analytics_runs"), DropTable("analytics_runs")>>

\* Add extensible segmentation definitions and snapshots.
Up0030 == <<
    Create("segment_definitions", {"code", "name", "segment_type", "rules", "version",
        "is_active"}, {"id", "created_at", "updated_at"}, {}, {}),
    Unique("uq_segment_definitions_code", "segment_definitions", {"code"}),
    Index("ix_segment_definitions_type_active", "segment_definitions", {"segment_type",
        "is_active"}),
    Create("segment_evaluations", {"segment_id", "segment_version", "source_count",
        "matched_count"}, {"id", "evaluated_at"}, {<<"", "segment_id", "segment_definitions",
        "CASCADE">>}, {}),
    Index("ix_segment_evaluations_segment_time", "segment_evaluations", {"segment_id",
        "evaluated_at"}),
    Create("segment_memberships", {"evaluation_id", "member_key", "observed_at", "dimensions",
        "metrics"}, {"id"}, {<<"", "evaluation_id", "segment_evaluations", "CASCADE">>}, {}),
    Index("ix_segment_memberships_key", "segment_memberships", {"member_key"}),
    Unique("uq_segment_memberships_evaluation_key", "segment_memberships", {"evaluation_id",
        "member_key"})>>
Down0030 == <<
    DropIndex("uq_segment_memberships_evaluation_key", "segment_memberships"),
    DropIndex("ix_segment_memberships_key", "segment_memberships"),
    DropTable("segment_memberships"),
    DropIndex("ix_segment_evaluations_segment_time", "segment_evaluations"),
    DropTable("segment_evaluations"),
    DropIndex("ix_segment_definitions_type_active", "segment_definitions"),
    DropIndex("uq_segment_definitions_code", "segment_definitions"),
    DropTable("segment_definitions")>>

\* Add Benchmark Engine snapshots.
Up0031 == <<
    Create("benchmark_runs", {"engine_version", "metrics", "entity_count"}, {"id",
        "date_from", "date_to", "calculated_at"}, {}, {}),
    Index("ix_benchmark_runs_calculated_id", "benchmark_runs", {"calculated_at", "id"}),
    Create("benchmark_entries", {"run_id", "entity_id", "observation_count", "metric_results",
        "overall_score", "overall_rank", "overall_percentile"}, {"id"}, {<<"", "run_id",
        "benchmark_runs", "CASCADE">>}, {}),
    Index("ix_benchmark_entries_entity", "benchmark_entries", {"entity_id"}),
    Index("ix_benchmark_entries_run_rank", "benchmark_entries", {"run_id", "overall_rank"}),
    Unique("uq_benchmark_entries_run_entity", "benchmark_entries", {"run_id", "entity_id"})>>
Down0031 == <<
    DropIndex("uq_benchmark_entries_run_entity", "benchmark_entries"),
    DropIndex("ix_benchmark_entries_run_rank", "benchmark_entries"),
    DropIndex("ix_benchmark_entries_entity", "benchmark_entries"), DropTable("benchmark_entries"),
    DropIndex("ix_benchmark_runs_calculated_id", "benchmark_runs"), DropTable("benchmark_runs")>>

\* Add deterministic Insights Engine history.
Up0032 == <<
    Create("insight_runs", {"engine_version", "request_payload", "source_record_count",
        "insight_count"}, {"id", "calculated_at"}, {}, {}),
    Index("ix_insight_runs_calculated_id", "insight_runs", {"calculated_at", "id"}),
    Create("insights", {"run_id", "insight_type", "severity", "title", "description",
        "confidence", "evidence"}, {"id", "entity_id", "metric", "previous_value",
        "current_value", "absolute_change", "percentage_change", "recommendation"}, {<<"",
        "run_id", "insight_runs", "CASCADE">>}, {}),
    Index("ix_insights_entity_metric", "insights", {"entity_id", "metric"}),
    Index("ix_insights_run_type", "insights", {"run_id", "insight_type"})>>
Down0032 == <<
    DropIndex("ix_insights_run_type", "insights"),
    DropIndex("ix_insights_entity_metric", "insights"), DropTable("insights"),
    DropIndex("ix_insight_runs_calculated_id", "insight_runs"), DropTable("insight_runs")>>

\* Add authentication.
Up0033 == <<
    Create("auth_users", {"email", "password_hash", "display_name", "is_active",
        "token_version"}, {"id", "oauth_provider", "oauth_subject", "created_at", "updated_at"},
        {}, {{"email"}}), Index("ix_auth_users_email", "auth_users", {"email"}),
    Create("auth_sessions", {"id", "user_id", "family_id", "refresh_token_hash",
        "token_version", "expires_at"}, {"revoked_at", "replaced_by_session_id", "ip_address",
        "user_agent", "created_at", "last_used_at"}, {<<"", "user_id", "auth_users", "CASCADE">>},
        {{"refresh_token_hash"}}),
    Index("ix_auth_sessions_user_active", "auth_sessions", {"user_id", "revoked_at",
        "expires_at"}), Index("ix_auth_sessions_family", "auth_sessions", {"family_id"})>>
Down0033 == <<
    DropIndex("ix_auth_sessions_family", "auth_sessions"),
    DropIndex("ix_auth_sessions_user_active", "auth_sessions"), DropTable("auth_sessions"),
    DropIndex("ix_auth_users_email", "auth_users"), DropTable("auth_users")>>

\* Add rbac.
Up0034 == <<
    Create("rbac_roles", {"code", "name", "description", "is_system"}, {"id", "created_at"},
        {}, {{"code"}}),
    Create("rbac_permissions", {"resource", "action", "scope", "description"}, {"id"}, {},
        {{"resource", "action", "scope"}}),
    Create("rbac_role_permissions", {"role_id", "permission_id"}, {}, {<<"", "role_id",
        "rbac_roles", "CASCADE">>, <<"", "permission_id", "rbac_permissions", "CASCADE">>}, {}),
    Create("rbac_role_inheritance", {"role_id", "parent_role_id"}, {}, {<<"", "role_id",
        "rbac_roles", "CASCADE">>, <<"", "parent_role_id", "rbac_roles", "CASCADE">>}, {}),
    Create("rbac_user_roles", {"user_id", "role_id"}, {"assigned_at"}, {<<"", "role_id",
        "rbac_roles", "CASCADE">>}, {}),
    Index("ix_rbac_user_roles_user", "rbac_user_roles", {"user_id"})>>
Down0034 == <<
    DropIndex("ix_rbac_user_roles_user", "rbac_user_roles"), DropTable("rbac_user_roles"),
    DropTable("rbac_role_inheritance"), DropTable("rbac_role_permissions"),
    DropTable("rbac_permissions"), DropTable("rbac_roles")>>

\* Add api keys.
Up0035 == <<
    Create("api_keys", {"name", "owner_id", "prefix", "secret_digest", "scopes", "rate_plan",
        "metadata_json"}, {"id", "expires_at", "revoked_at", "rotated_from_id", "created_at"}, {},
        {{"prefix"}}), Index("ix_api_keys_owner_id", "api_keys", {"owner_id"}),
    Index("ix_api_keys_owner_active", "api_keys", {"owner_id", "revoked_at", "expires_at"})>>
Down0035 == <<
    DropIndex("ix_api_keys_owner_active", "api_keys"),
    DropIndex("ix_api_keys_owner_id", "api_keys"), DropTable("api_keys")>>

\* Add audit.
Up0036 == <<
    Create("audit_events", {"actor_id", "actor_type", "action", "category", "resource",
        "correlation_id"}, {"id", "resource_id", "ip_address", "user_agent", "old_state",
        "new_state", "created_at"}, {}, {}),
    Index("ix_audit_time_action", "audit_events", {"created_at", "action"}),
    Index("ix_audit_correlation", "audit_events", {"correlation_id"})>>
Down0036 == <<
    DropIndex("ix_audit_correlation", "audit_events"),
    DropIndex("ix_audit_time_action", "audit_events"), DropTable("audit_events")>>

\* Add observability.
Up0037 == <<
    Create("observability_spans", {"trace_id", "span_id", "operation", "status",
        "duration_ms"}, {"id", "started_at"}, {}, {{"span_id"}}),
    Index("ix_spans_trace_started", "observability_spans", {"trace_id", "started_at"})>>
Down0037 == <<
    DropIndex("ix_spans_trace_started", "observability_spans"), DropTable("observability_spans")>>

\* Add cache.
Up0038 == <<
    Create("cache_warm_runs", {"namespace", "items_warmed", "status"}, {"id", "created_at"},
        {}, {})>>
Down0038 == <<DropTable("cache_warm_runs")>>

\* Add rate limits.
Up0039 == <<
    Create("rate_limit_policies", {"name", "algorithm", "subject_type", "endpoint", "limit",
        "window_seconds", "burst", "enabled"}, {"id", "created_at"}, {}, {{"name"}})>>
Down0039 == <<DropTable("rate_limit_policies")>>

\* Add hardening.
Up0040 == <<
    Create("idempotency_records", {"scope", "key", "request_hash", "status_code", "response",
        "expires_at"}, {"id", "created_at"}, {}, {{"scope", "key"}}),
    Create("dead_letter_messages", {"queue", "payload", "error", "attempts", "status"}, {"id",
        "created_at"}, {}, {})>>
Down0040 == <<DropTable("dead_letter_messages"), DropTable("idempotency_records")>>

\* Add retention indexes.
Up0041 == <<
    Index("ix_execution_logs_created_at", "execution_logs", {"created_at"}),
    Index("ix_executions_state_finished_at", "executions", {"state", "finished_at"}),
    Index("ix_query_execution_history_created_at", "query_execution_history", {"created_at"})>>
Down0041 == <<
    DropIndex("ix_query_execution_history_created_at", "query_execution_history"),
    DropIndex("ix_executions_state_finished_at", "executions"),
    DropIndex("ix_execution_logs_created_at", "execution_logs")>>

\* Add product prompt and research template catalogs.
Up0042 == <<
    Create("prompt_definitions", {"code", "version", "title", "description", "category",
        "language", "variables", "template", "expected_output", "tags", "status", "active"},
        {"id", "created_at"}, {}, {{"code", "version"}}),
    Index("ix_prompt_definitions_category_language", "prompt_definitions", {"category",
        "language"}),
    Create("research_template_definitions", {"code", "version", "title", "description",
        "prompt_code", "pipeline", "default_languages", "default_regions", "active"}, {"id",
        "created_at"}, {}, {{"code", "version"}}),
    Seed("prompt_definitions", {"active", "category", "code", "description",
        "expected_output", "language", "status", "tags", "template", "title", "variables",
        "version"}, {"ai-visibility", "brand-audit", "product-audit", "competitor-analysis",
        "reputation-analysis", "geo-analysis"}),
    Seed("research_template_definitions", {"active", "code", "default_languages",
        "default_regions", "description", "pipeline", "prompt_code", "title", "version"},
        {"ai-visibility", "brand-audit", "product-audit", "competitor-analysis",
        "reputation-analysis", "geo-analysis"})>>
Down0042 == <<
    DropTable("research_template_definitions"),
    DropIndex("ix_prompt_definitions_category_language", "prompt_definitions"),
    DropTable("prompt_definitions")>>

\* Add provider registry.
Up0043 == <<
    Create("provider_registry", {"id", "display_name", "capabilities", "pricing",
        "context_window", "vision", "embeddings", "reasoning", "tools", "json_mode", "streaming",
        "availability", "free_tier", "priority", "metadata_payload", "created_at", "updated_at"},
        {}, {}, {}),
    Index("ix_provider_registry_availability", "provider_registry", {"availability"}),
    Index("ix_provider_registry_free_tier", "provider_registry", {"free_tier"}),
    Index("ix_provider_registry_priority", "provider_registry", {"priority"})>>
Down0043 == <<
    DropIndex("ix_provider_registry_priority", "provider_registry"),
    DropIndex("ix_provider_registry_free_tier", "provider_registry"),
    DropIndex("ix_provider_registry_availability", "provider_registry"),
    DropTable("provider_registry")>>

\* Extend model registry and add versions.
Up0044 == <<
    AddColumn("router_models", "version", "optional"),
    AddColumn("router_models", "release_date", "optional"),
    AddColumn("router_models", "tokens_per_second", "optional"),
    AddColumn("router_models", "average_latency", "optional"),
    AddColumn("router_models", "benchmark_score", "optional"),
    AddColumn("router_models", "reasoning", "optional"),
    AddColumn("router_models", "multimodal", "optional"),
    AddColumn("router_models", "embeddings", "optional"),
    AddColumn("router_models", "json_mode", "optional"),
    AddColumn("router_models", "tool_calling", "optional"),
    Create("router_model_versions", {"model_id", "version", "snapshot", "created_at"}, {"id"},
        {}, {}),
    Index("ix_router_model_versions_model_id", "router_model_versions", {"model_id"}),
    Index("ix_router_model_versions_version", "router_model_versions", {"version"}),
    Index("ix_router_model_versions_created_at", "router_model_versions", {"created_at"})>>
Down0044 == <<
    DropIndex("ix_router_model_versions_created_at", "router_model_versions"),
    DropIndex("ix_router_model_versions_version", "router_model_versions"),
    DropIndex("ix_router_model_versions_model_id", "router_model_versions"),
    DropTable("router_model_versions"), DropColumn("router_models", "tool_calling"),
    DropColumn("router_models", "json_mode"), DropColumn("router_models", "embeddings"),
    DropColumn("router_models", "multimodal"), DropColumn("router_models", "reasoning"),
    DropColumn("router_models", "benchmark_score"),
    DropColumn("router_models", "average_latency"),
    DropColumn("router_models", "tokens_per_second"), DropColumn("router_models", "release_date"),
    DropColumn("router_models", "version")>>

\* Add task routing policies.
Up0045 == <<
    AddColumn("router_policies", "task_type", "optional"),
    AddColumn("router_policies", "strategy", "optional"),
    Index("ix_router_policies_task_type", "router_policies", {"task_type"})>>
Down0045 == <<
    DropIndex("ix_router_policies_task_type", "router_policies"),
    DropColumn("router_policies", "strategy"), DropColumn("router_policies", "task_type")>>

\* Add per research routing budget.
Up0046 == <<AddColumn("router_policies", "per_research_budget_usd", "optional")>>
Down0046 == <<DropColumn("router_policies", "per_research_budget_usd")>>

\* Add model benchmarks.
Up0047 == <<
    Create("model_benchmark_runs", {"prompt", "iterations", "created_at"}, {"id"}, {}, {}),
    Index("ix_model_benchmark_runs_created_at", "model_benchmark_runs", {"created_at"}),
    Create("model_benchmark_results", {"run_id", "provider", "model", "latency_ms",
        "cost_usd", "quality_score", "response_length", "stability_score", "created_at"}, {"id"},
        {}, {}),
    Index("ix_model_benchmark_results_run_id", "model_benchmark_results", {"run_id"}),
    Index("ix_model_benchmark_results_provider", "model_benchmark_results", {"provider"}),
    Index("ix_model_benchmark_results_model", "model_benchmark_results", {"model"}),
    Index("ix_model_benchmark_results_created_at", "model_benchmark_results", {"created_at"})>>
Down0047 == <<
    DropTable("model_benchmark_results"),
    DropIndex("ix_model_benchmark_runs_created_at", "model_benchmark_runs"),
    DropTable("model_benchmark_runs")>>

\* Add model evaluations.
Up0048 == <<
    Create("model_evaluation_scores", {"provider", "model", "task", "score", "latency_ms",
        "version", "created_at"}, {"id"}, {}, {}),
    Index("ix_model_evaluation_scores_provider", "model_evaluation_scores", {"provider"}),
    Index("ix_model_evaluation_scores_model", "model_evaluation_scores", {"model"}),
    Index("ix_model_evaluation_scores_task", "model_evaluation_scores", {"task"}),
    Index("ix_model_evaluation_scores_created_at", "model_evaluation_scores", {"created_at"})>>
Down0048 == <<DropTable("model_evaluation_scores")>>

\* Add provider discovery history.
Up0049 == <<
    Create("provider_sync_runs", {"source", "status", "discovered", "created", "updated",
        "created_at"}, {"id", "error"}, {}, {}),
    Index("ix_provider_sync_runs_status", "provider_sync_runs", {"status"}),
    Index("ix_provider_sync_runs_created_at", "provider_sync_runs", {"created_at"})>>
Down0049 == <<
    DropIndex("ix_provider_sync_runs_created_at", "provider_sync_runs"),
    DropIndex("ix_provider_sync_runs_status", "provider_sync_runs"),
    DropTable("provider_sync_runs")>>

\* Add usage attribution.
Up0050 == <<
    AddColumn("provider_usage", "research_id", "optional"),
    AddColumn("provider_usage", "user_id", "optional"),
    Index("ix_provider_usage_research_id", "provider_usage", {"research_id"}),
    Index("ix_provider_usage_user_id", "provider_usage", {"user_id"})>>
Down0050 == <<
    DropIndex("ix_provider_usage_user_id", "provider_usage"),
    DropIndex("ix_provider_usage_research_id", "provider_usage"),
    DropColumn("provider_usage", "user_id"), DropColumn("provider_usage", "research_id")>>

\* Add provider recommendations.
Up0051 == <<
    Create("provider_recommendations", {"research_id", "recommendation_type", "message",
        "recommended_provider", "expected_savings_usd", "expected_speedup_percent", "version",
        "created_at"}, {"id"}, {}, {}),
    Index("ix_provider_recommendations_research_id", "provider_recommendations", {"research_id"}),
    Index("ix_provider_recommendations_recommendation_type", "provider_recommendations",
        {"recommendation_type"}),
    Index("ix_provider_recommendations_created_at", "provider_recommendations", {"created_at"})>>
Down0051 == <<DropTable("provider_recommendations")>>

\* Add atomic router budget reservations.
Up0052 == <<
    Update("router_models", {"provider"}),
    Create("router_budget_reservations", {"id", "correlation_id", "policy_id", "amount_usd",
        "state", "created_at", "expires_at"}, {"settled_at"}, {}, {{"correlation_id"}}),
    Index("ix_budget_reservation_correlation", "router_budget_reservations", {"correlation_id"}),
    Index("ix_budget_reservation_policy", "router_budget_reservations", {"policy_id"}),
    Index("ix_budget_reservation_state", "router_budget_reservations", {"state"}),
    Index("ix_budget_reservation_created", "router_budget_reservations", {"created_at"}),
    Index("ix_budget_reservation_expires", "router_budget_reservations", {"expires_at"})>>
Down0052 == <<
    DropIndex("ix_budget_reservation_expires", "router_budget_reservations"),
    DropIndex("ix_budget_reservation_created", "router_budget_reservations"),
    DropIndex("ix_budget_reservation_state", "router_budget_reservations"),
    DropIndex("ix_budget_reservation_policy", "router_budget_reservations"),
    DropIndex("ix_budget_reservation_correlation", "router_budget_reservations"),
    DropTable("router_budget_reservations"), Update("router_models", {"provider"})>>

\* Add durable async research queue.
Up0053 == <<
    Create("research_jobs", {"research_id", "state", "payload", "attempts"}, {"id", "error",
        "created_at", "started_at", "finished_at"}, {<<"", "research_id", "researches",
        "CASCADE">>}, {}),
    Index("ix_research_jobs_research_id", "research_jobs", {"research_id"}),
    Index("ix_research_jobs_state", "research_jobs", {"state"}),
    Index("ix_research_jobs_state_created", "research_jobs", {"state", "created_at"})>>
Down0053 == <<
    DropIndex("ix_research_jobs_state_created", "research_jobs"),
    DropIndex("ix_research_jobs_state", "research_jobs"),
    DropIndex("ix_research_jobs_research_id", "research_jobs"), DropTable("research_jobs")>>

\* Add user workspaces.
Up0054 == <<
    Create("user_workspaces", {"user_id", "name", "settings"}, {"id", "created_at",
        "updated_at"}, {}, {{"user_id"}}),
    Index("ix_user_workspaces_user_id", "user_workspaces", {"user_id"})>>
Down0054 == <<
    DropIndex("ix_user_workspaces_user_id", "user_workspaces"), DropTable("user_workspaces")>>

\* Add workspace projects and research ownership.
Up0055 == <<
    Create("workspace_projects", {"workspace_id", "name", "description", "settings", "tags",
        "favorite", "archived"}, {"id", "created_at", "updated_at"}, {<<"", "workspace_id",
        "user_workspaces", "CASCADE">>}, {}),
    Index("ix_workspace_projects_workspace_id", "workspace_projects", {"workspace_id"}),
    Index("ix_workspace_projects_workspace_updated", "workspace_projects", {"workspace_id",
        "updated_at"}), AddColumn("researches", "project_id", "optional"),
    AddReference("fk_researches_project_id", "researches", "project_id", "workspace_projects",
        "SET NULL"), Index("ix_researches_project_id", "researches", {"project_id"})>>
Down0055 == <<
    DropIndex("ix_researches_project_id", "researches"),
    DropReference("fk_researches_project_id", "researches"),
    DropColumn("researches", "project_id"),
    DropIndex("ix_workspace_projects_workspace_updated", "workspace_projects"),
    DropIndex("ix_workspace_projects_workspace_id", "workspace_projects"),
    DropTable("workspace_projects")>>

\* Add project competitors.
Up0056 == <<
    Create("project_competitors", {"project_id", "name", "domains", "brands", "notes",
        "active"}, {"id", "created_at", "updated_at"}, {<<"", "project_id", "workspace_projects",
        "CASCADE">>}, {{"project_id", "name"}}),
    Index("ix_project_competitors_project_active", "project_competitors", {"project_id",
        "active"})>>
Down0056 == <<
    DropIndex("ix_project_competitors_project_active", "project_competitors"),
    DropTable("project_competitors")>>

\* Add project domains and research domain binding.
Up0057 == <<
    Create("project_domains", {"project_id", "hostname", "display_name", "is_primary",
        "active", "brands", "settings"}, {"id", "created_at", "updated_at"}, {<<"", "project_id",
        "workspace_projects", "CASCADE">>}, {{"project_id", "hostname"}}),
    Index("ix_project_domains_project", "project_domains", {"project_id", "active"}),
    UniqueWhere("uq_project_domains_primary", "project_domains", {"project_id"}, "primary"),
    AddColumn("researches", "domain_id", "optional"),
    AddReference("fk_researches_domain_id", "researches", "domain_id", "project_domains",
        "SET NULL"), Index("ix_researches_domain_id", "researches", {"domain_id"})>>
Down0057 == <<
    DropIndex("ix_researches_domain_id", "researches"),
    DropReference("fk_researches_domain_id", "researches"), DropColumn("researches", "domain_id"),
    DropIndex("uq_project_domains_primary", "project_domains"),
    DropIndex("ix_project_domains_project", "project_domains"), DropTable("project_domains")>>

\* Extend research templates for product readiness.
Up0058 == <<
    AddColumn("research_template_definitions", "research_type", "optional"),
    AddColumn("research_template_definitions", "configuration", "optional"),
    Update("research_template_definitions", {"research_type"}),
    Seed("research_template_definitions", {"active", "code", "configuration",
        "default_languages", "default_regions", "description", "pipeline", "prompt_code",
        "research_type", "title", "version"}, {"ai-recommendation-audit", "content-audit",
        "website-audit"})>>
Down0058 == <<
    Purge("research_template_definitions", {"ai-recommendation-audit", "content-audit",
        "website-audit"}), DropColumn("research_template_definitions", "configuration"),
    DropColumn("research_template_definitions", "research_type")>>

\* Add saved research configurations.
Up0059 == <<
    Create("saved_research_configurations", {"project_id", "name", "template_code",
        "routing_profile", "languages", "regions", "configuration"}, {"id", "prompt_count",
        "schedule_hint", "created_at", "updated_at"}, {<<"", "project_id", "workspace_projects",
        "CASCADE">>}, {{"project_id", "name"}}),
    Index("ix_saved_research_configurations_project_id", "saved_research_configurations",
        {"project_id"})>>
Down0059 == <<
    DropIndex("ix_saved_research_configurations_project_id", "saved_research_configurations"),
    DropTable("saved_research_configurations")>>

\* Add bulk research runs.
Up0060 == <<
    Create("bulk_research_runs", {"project_id", "name", "template_code", "routing_profile",
        "total_items"}, {"id", "created_at"}, {<<"", "project_id", "workspace_projects",
        "CASCADE">>}, {}),
    Index("ix_bulk_research_runs_project_id", "bulk_research_runs", {"project_id"}),
    Create("bulk_research_items", {"bulk_run_id", "brand", "research_id", "job_id", "state"},
        {"id", "domain_id", "created_at"}, {<<"", "bulk_run_id", "bulk_research_runs",
        "CASCADE">>, <<"", "domain_id", "project_domains", "SET NULL">>}, {{"research_id"},
        {"job_id"}, {"bulk_run_id", "brand"}}),
    Index("ix_bulk_research_items_bulk_run_id", "bulk_research_items", {"bulk_run_id"})>>
Down0060 == <<
    DropIndex("ix_bulk_research_items_bulk_run_id", "bulk_research_items"),
    DropTable("bulk_research_items"),
    DropIndex("ix_bulk_research_runs_project_id", "bulk_research_runs"),
    DropTable("bulk_research_runs")>>

\* Add report center metadata.
Up0061 == <<
    Create("report_catalog_entries", {"research_id", "project_id", "tags"}, {"id", "archived",
        "created_at", "updated_at"}, {}, {{"research_id"}}),
    Index("ix_report_catalog_entries_research_id", "report_catalog_entries", {"research_id"}),
    Index("ix_report_catalog_entries_project_id", "report_catalog_entries", {"project_id"})>>
Down0061 == <<
    DropIndex("ix_report_catalog_entries_project_id", "report_catalog_entries"),
    DropIndex("ix_report_catalog_entries_research_id", "report_catalog_entries"),
    DropTable("report_catalog_entries")>>

\* Add immutable report versions.
Up0062 == <<
    Create("report_versions", {"research_id", "catalog_entry_id", "version", "checksum",
        "payload"}, {"id", "created_at"}, {<<"", "catalog_entry_id", "report_catalog_entries",
        "CASCADE">>}, {{"research_id", "version"}, {"research_id", "checksum"}}),
    Index("ix_report_versions_research_id", "report_versions", {"research_id"})>>
Down0062 == <<
    DropIndex("ix_report_versions_research_id", "report_versions"), DropTable("report_versions")>>

\* Add secure report sharing.
Up0063 == <<
    Create("report_share_links", {"research_id", "token_hash", "token_prefix", "access_mode",
        "created_by"}, {"id", "password_hash", "active", "expires_at", "created_at",
        "revoked_at"}, {}, {{"token_hash"}}),
    Index("ix_report_share_links_research_id", "report_share_links", {"research_id"}),
    Index("ix_report_share_research_active", "report_share_links", {"research_id", "active"}),
    Create("report_share_views", {"share_id", "correlation_id"}, {"id", "ip_address",
        "user_agent", "viewed_at"}, {<<"", "share_id", "report_share_links", "CASCADE">>}, {}),
    Index("ix_report_share_views_share_id", "report_share_views", {"share_id"})>>
Down0063 == <<
    DropIndex("ix_report_share_views_share_id", "report_share_views"),
    DropTable("report_share_views"),
    DropIndex("ix_report_share_research_active", "report_share_links"),
    DropIndex("ix_report_share_links_research_id", "report_share_links"),
    DropTable("report_share_links")>>

\* Add project monitoring.
Up0064 == <<
    Create("project_monitors", {"project_id", "schedule_id", "template_research_id",
        "frequency", "next_run_at"}, {"id", "enabled", "query", "created_at", "updated_at"},
        {<<"", "project_id", "workspace_projects", "CASCADE">>}, {{"project_id"},
        {"schedule_id"}})>>
Down0064 == <<DropTable("project_monitors")>>

\* Add research change detection results.
Up0065 == <<
    Create("research_changes", {"research_id", "metric_deltas", "new_recommendations",
        "removed_recommendations", "new_sources", "removed_sources", "graph_changes"}, {"id",
        "previous_research_id", "algorithm_version", "created_at"}, {}, {{"research_id"}}),
    Index("ix_research_changes_research_id", "research_changes", {"research_id"})>>
Down0065 == <<
    DropIndex("ix_research_changes_research_id", "research_changes"),
    DropTable("research_changes")>>

\* Add notification center.
Up0066 == <<
    Create("product_notifications", {"user_id", "event_type", "title", "message", "metadata"},
        {"id", "resource_type", "resource_id", "is_read", "created_at"}, {}, {}),
    Index("ix_product_notifications_user_id", "product_notifications", {"user_id"}),
    Index("ix_product_notifications_event_type", "product_notifications", {"event_type"}),
    Create("notification_deliveries", {"notification_id", "channel", "status"}, {"id",
        "attempts", "error", "created_at"}, {<<"", "notification_id", "product_notifications",
        "CASCADE">>}, {}),
    Index("ix_notification_deliveries_notification_id", "notification_deliveries",
        {"notification_id"})>>
Down0066 == <<
    DropIndex("ix_notification_deliveries_notification_id", "notification_deliveries"),
    DropTable("notification_deliveries"),
    DropIndex("ix_product_notifications_event_type", "product_notifications"),
    DropIndex("ix_product_notifications_user_id", "product_notifications"),
    DropTable("product_notifications")>>

\* Add closed beta administration.
Up0067 == <<
    Create("beta_user_profiles", {"user_id"}, {"id", "status", "daily_research_limit",
        "monthly_research_limit", "max_projects", "max_domains", "max_organization_users",
        "updated_at"}, {}, {{"user_id"}}),
    Index("ix_beta_user_profiles_user_id", "beta_user_profiles", {"user_id"}),
    Create("beta_invitations", {"email", "token_hash", "token_prefix", "expires_at",
        "invited_by"}, {"id", "role_id", "send_count", "revoked_at", "accepted_at", "created_at"},
        {}, {{"token_hash"}}), Index("ix_beta_invitations_email", "beta_invitations", {"email"})>>
Down0067 == <<
    DropIndex("ix_beta_invitations_email", "beta_invitations"), DropTable("beta_invitations"),
    DropIndex("ix_beta_user_profiles_user_id", "beta_user_profiles"),
    DropTable("beta_user_profiles")>>

\* Add feedback center.
Up0068 == <<
    Create("product_feedback", {"user_id", "feedback_type", "priority", "title",
        "description"}, {"id", "status", "project_id", "research_id", "report_id",
        "organization_id", "created_at", "updated_at"}, {}, {}),
    Index("ix_product_feedback_status_priority", "product_feedback", {"status", "priority"}),
    Index("ix_product_feedback_user_created", "product_feedback", {"user_id", "created_at"}),
    Create("feedback_attachments", {"feedback_id", "filename", "content_type", "storage_key",
        "size_bytes", "metadata"}, {"id", "created_at"}, {<<"", "feedback_id", "product_feedback",
        "CASCADE">>}, {}),
    Index("ix_feedback_attachments_feedback_id", "feedback_attachments", {"feedback_id"}),
    Create("feedback_history", {"feedback_id", "actor_id", "action"}, {"id", "old_state",
        "new_state", "created_at"}, {<<"", "feedback_id", "product_feedback", "CASCADE">>}, {}),
    Index("ix_feedback_history_feedback_id", "feedback_history", {"feedback_id"})>>
Down0068 == <<
    DropIndex("ix_feedback_history_feedback_id", "feedback_history"),
    DropTable("feedback_history"),
    DropIndex("ix_feedback_attachments_feedback_id", "feedback_attachments"),
    DropTable("feedback_attachments"),
    DropIndex("ix_product_feedback_user_created", "product_feedback"),
    DropIndex("ix_product_feedback_status_priority", "product_feedback"),
    DropTable("product_feedback")>>

\* Add product analytics.
Up0069 == <<
    Create("product_analytics_events", {"event_name", "event_category", "metadata"}, {"id",
        "organization_id", "user_id", "session_id", "entity_type", "entity_id", "ip_hash",
        "user_agent", "created_at"}, {}, {}),
    Index("ix_product_analytics_event_time_category", "product_analytics_events",
        {"created_at", "event_category"}),
    Index("ix_product_analytics_event_org_time", "product_analytics_events",
        {"organization_id", "created_at"}),
    Index("ix_product_analytics_event_user_time", "product_analytics_events", {"user_id",
        "created_at"}),
    Index("ix_product_analytics_event_name_time", "product_analytics_events", {"event_name",
        "created_at"}),
    Create("product_analytics_sessions", {"id", "started_at", "device", "browser", "os"},
        {"user_id", "organization_id", "finished_at", "duration"}, {}, {}),
    Index("ix_product_analytics_sessions_user_id", "product_analytics_sessions", {"user_id"}),
    Index("ix_product_analytics_sessions_organization_id", "product_analytics_sessions",
        {"organization_id"}),
    Create("product_analytics_reports", {"period", "filters_hash", "range_start", "range_end",
        "payload", "event_count"}, {"id", "created_at"}, {}, {}),
    Index("ix_product_analytics_report_period", "product_analytics_reports", {"period",
        "created_at"})>>
Down0069 == <<
    DropIndex("ix_product_analytics_report_period", "product_analytics_reports"),
    DropTable("product_analytics_reports"),
    DropIndex("ix_product_analytics_sessions_organization_id", "product_analytics_sessions"),
    DropIndex("ix_product_analytics_sessions_user_id", "product_analytics_sessions"),
    DropTable("product_analytics_sessions"),
    DropIndex("ix_product_analytics_event_name_time", "product_analytics_events"),
    DropIndex("ix_product_analytics_event_user_time", "product_analytics_events"),
    DropIndex("ix_product_analytics_event_org_time", "product_analytics_events"),
    DropIndex("ix_product_analytics_event_time_category", "product_analytics_events"),
    DropTable("product_analytics_events")>>

\* Expand notification center.
Up0070 == <<
    AddColumn("product_notifications", "category", "optional"),
    AddColumn("product_notifications", "priority", "optional"),
    AddColumn("product_notifications", "read_at", "optional"),
    AddColumn("product_notifications", "archived_at", "optional"),
    Index("ix_product_notifications_archived_at", "product_notifications", {"archived_at"}),
    Index("ix_product_notifications_user_inbox", "product_notifications", {"user_id",
        "archived_at", "is_read", "created_at"})>>
Down0070 == <<
    DropIndex("ix_product_notifications_user_inbox", "product_notifications"),
    DropIndex("ix_product_notifications_archived_at", "product_notifications"),
    DropColumn("product_notifications", "archived_at"),
    DropColumn("product_notifications", "read_at"),
    DropColumn("product_notifications", "priority"),
    DropColumn("product_notifications", "category")>>

\* Add organization workspace.
Up0071 == <<
    Create("organizations", {"name", "slug", "description", "timezone", "settings", "limits"},
        {"id", "logo_url", "industry", "country", "created_at"}, {}, {{"slug"}}),
    Create("organization_members", {"organization_id", "user_id", "role", "is_default"},
        {"id", "joined_at"}, {<<"", "organization_id", "organizations", "CASCADE">>},
        {{"organization_id", "user_id"}}),
    Index("ix_organization_members_organization_id", "organization_members", {"organization_id"}),
    Index("ix_organization_members_user_id", "organization_members", {"user_id"}),
    Create("organization_invitations", {"organization_id", "email", "role", "token_hash",
        "expires_at", "invited_by"}, {"id", "accepted_at", "revoked_at", "created_at"}, {<<"",
        "organization_id", "organizations", "CASCADE">>}, {{"token_hash"}}),
    Index("ix_organization_invitations_organization_id", "organization_invitations",
        {"organization_id"}),
    Create("organization_activity", {"organization_id", "actor_id", "action", "metadata"},
        {"id", "entity_type", "entity_id", "created_at"}, {<<"", "organization_id",
        "organizations", "CASCADE">>}, {}),
    Index("ix_organization_activity_organization_id", "organization_activity",
        {"organization_id"}),
    Create("organization_projects", {"organization_id", "project_id"}, {}, {<<"",
        "organization_id", "organizations", "CASCADE">>}, {})>>
Down0071 == <<
    DropTable("organization_projects"),
    DropIndex("ix_organization_activity_organization_id", "organization_activity"),
    DropTable("organization_activity"),
    DropIndex("ix_organization_invitations_organization_id", "organization_invitations"),
    DropTable("organization_invitations"),
    DropIndex("ix_organization_members_user_id", "organization_members"),
    DropIndex("ix_organization_members_organization_id", "organization_members"),
    DropTable("organization_members"), DropTable("organizations")>>

\* The chain of revisions: revision n's down_revision is revision n - 1.
Revisions == <<
    [up |-> Up0001, down |-> Down0001], [up |-> Up0002, down |-> Down0002],
    [up |-> Up0003, down |-> Down0003], [up |-> Up0004, down |-> Down0004],
    [up |-> Up0005, down |-> Down0005], [up |-> Up0006, down |-> Down0006],
    [up |-> Up0007, down |-> Down0007], [up |-> Up0008, down |-> Down0008],
    [up |-> Up0009, down |-> Down0009], [up |-> Up0010, down |-> Down0010],
    [up |-> Up0011, down |-> Down0011], [up |-> Up0012, down |-> Down0012],
    [up |-> Up0013, down |-> Down0013], [up |-> Up0014, down |-> Down0014],
    [up |-> Up0015, down |-> Down0015], [up |-> Up0016, down |-> Down0016],
    [up |-> Up0017, down |-> Down0017], [up |-> Up0018, down |-> Down0018],
    [up |-> Up0019, down |-> Down0019], [up |-> Up0020, down |-> Down0020],
    [up |-> Up0021, down |-> Down0021], [up |-> Up0022, down |-> Down0022],
    [up |-> Up0023, down |-> Down0023], [up |-> Up0024, down |-> Down0024],
    [up |-> Up0025, down |-> Down0025], [up |-> Up0026, down |-> Down0026],
    [up |-> Up0027, down |-> Down0027], [up |-> Up0028, down |-> Down0028],
    [up |-> Up0029, down |-> Down0029], [up |-> Up0030, down |-> Down0030],
    [up |-> Up0031, down |-> Down0031], [up |-> Up0032, down |-> Down0032],
    [up |-> Up0033, down |-> Down0033], [up |-> Up0034, down |-> Down0034],
    [up |-> Up0035, down |-> Down0035], [up |-> Up0036, down |-> Down0036],
    [up |-> Up0037, down |-> Down0037], [up |-> Up0038, down |-> Down0038],
    [up |-> Up0039, down |-> Down0039], [up |-> Up0040, down |-> Down0040],
    [up |-> Up0041, down |-> Down0041], [up |-> Up0042, down |-> Down0042],
    [up |-> Up0043, down |-> Down0043], [up |-> Up0044, down |-> Down0044],
    [up |-> Up0045, down |-> Down0045], [up |-> Up0046, down |-> Down0046],
    [up |-> Up0047, down |-> Down0047], [up |-> Up0048, down |-> Down0048],
    [up |-> Up0049, down |-> Down0049], [up |-> Up0050, down |-> Down0050],
    [up |-> Up0051, down |-> Down0051], [up |-> Up0052, down |-> Down0052],
    [up |-> Up0053, down |-> Down0053], [up |-> Up0054, down |-> Down0054],
    [up |-> Up0055, down |-> Down0055], [up |-> Up0056, down |-> Down0056],
    [up |-> Up0057, down |-> Down0057], [up |-> Up0058, down |-> Down0058],
    [up |-> Up0059, down |-> Down0059], [up |-> Up0060, down |-> Down0060],
    [up |-> Up0061, down |-> Down0061], [up |-> Up0062, down |-> Down0062],
    [up |-> Up0063, down |-> Down0063], [up |-> Up0064, down |-> Down0064],
    [up |-> Up0065, down |-> Down0065], [up |-> Up0066, down |-> Down0066],
    [up |-> Up0067, down |-> Down0067], [up |-> Up0068, down |-> Down0068],
    [up |-> Up0069, down |-> Down0069], [up |-> Up0070, down |-> Down0070],
    [up |-> Up0071, down |-> Down0071]>>

=============================================================================

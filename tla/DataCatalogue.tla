--------------------------- MODULE DataCatalogue ---------------------------
(***************************************************************************)
(* The catalogue, in the order of the handler: of each class its store and    *)
(* what it says of the rows at rest.  The verdict on a sealed or hashed class *)
(* is computed from the rows; the others are declared.                        *)
(***************************************************************************)
Artifact(store, rest, class) == [class |-> class, store |-> store, rest |-> rest]
Plain(store, classes) == {Artifact(store, "plaintext_by_design", c) : c \in classes}

RequestEvents == Artifact("clickhouse", "plaintext_by_design", "request_events")
Captures == Artifact("clickhouse", "sealed", "request_content_captures")
ChTables == Plain("clickhouse", {"policy_events", "token_usage", "latency_samples",
                                 "detection_class_counts"})
ChAggregates == Plain("clickhouse", {"mv_hourly_cost_agg", "mv_p95_latency_agg"})
DbtViews == Plain("clickhouse", {"stg_request_events", "stg_policy_events"})
DbtIntermediate == Plain("clickhouse", {"int_requests_enriched"})
DbtMarts == Plain("clickhouse", {"mart_usage_daily", "mart_cost_by_model",
                                 "mart_policy_violations", "mart_latency_pctiles"})

TokenVault == Artifact("postgres", "sealed", "token_vault_entries")
Users == Artifact("postgres", "hashed", "users")
RefreshTokens == Artifact("postgres", "hashed", "refresh_tokens")
DeviceContext == Artifact("postgres", "plaintext_by_design", "session_device_context")
ApiKeys == Artifact("postgres", "hashed", "api_keys")
Providers == Artifact("postgres", "sealed", "providers")
UserBackupCodes == Artifact("postgres", "hashed", "user_backup_codes")
PolicyRules == Artifact("postgres", "plaintext_by_design", "policy_rules")
PurgeTrails == Plain("postgres", {"raw_capture_audit", "retention_purge_audit"})
AdminTrails == Plain("postgres", {"session_revocation_audit", "admin_audit"})
Exports == Plain("postgres", {"audit_exports", "audit_export_pages"})
Configuration == Plain("postgres", {"workspaces", "models", "audit_events_meta",
                   "workspace_budgets", "workspace_secure_mode", "workspace_sidecar_policy",
                   "workspace_raw_capture"})

Budget == Artifact("redis", "plaintext_by_design", "redis:budget")

(* Keys and stores that carry no workspace: declared without a count. *)
FileVault == Artifact("nobody", "ciphertext", "redis:filevault")
RedisUncounted == Plain("nobody", {"redis:jti_blacklist", "redis:session_revocation",
                    "redis:oidc_state", "redis:scan_task", "redis:queues"})
OthersUncounted == Plain("nobody", {"mongo:librechat", "license_freshness", "license_activation",
                     "_schema_migrations", "_dbt_lock", "qdrant:policy_rag",
                     "qdrant:prompt_similarity"})

Catalogue ==
  {RequestEvents, Captures, TokenVault, Users, RefreshTokens, DeviceContext, ApiKeys, Providers,
   UserBackupCodes, PolicyRules, Budget, FileVault}
  \cup ChTables \cup ChAggregates \cup DbtViews \cup DbtIntermediate \cup DbtMarts
  \cup PurgeTrails \cup AdminTrails \cup Exports \cup Configuration
  \cup RedisUncounted \cup OthersUncounted
=============================================================================

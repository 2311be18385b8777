------------------------------- MODULE Routes -------------------------------
(***************************************************************************)
(* The way of a request from an HTTP route of the ingress to a handler of  *)
(* the brain: the route's handler in ui_routes.rs, its checks, its calls   *)
(* over the brain socket, and in the brain the scope table, the envelope,  *)
(* the security policy, the worker table and the dispatch table.  Five     *)
(* tables in five files have to agree for a call to be served.             *)
(*                                                                         *)
(* A handler is its name.  What a handler asks of the brain is a sequence  *)
(* of calls <<method, scope>>; payloads are left out.                      *)
(***************************************************************************)
EXTENDS Naturals, Sequences, FiniteSets, TLC

Sys(m) == <<m, "system">>
One(m) == <<Sys(m)>>

-----------------------------------------------------------------------------
(* Handlers that call the brain, in the order of the source.               *)

SessionCreateCalls == [sessions_create |-> One("sessions.create"), permissions_policy |-> One("permissions.get")]

AccountCalls == [session |-> One("session.get"), login |-> One("session.login"), logout |-> One("session.logout"),
                 status |-> <<Sys("system.status"), Sys("system.health")>>,
                 runtime_status |-> One("runtime.status"), ui_contract |-> One("ui.contract.snapshot")]

LedgerCalls == [ledger_verify |-> One("ledger.verify"), ledger_repair_segmented |-> One("ledger.repair_segmented"),
                ledger_record_mutation |-> One("ledger.record_mutation"),
                ledger_reconcile_mismatches |-> One("ledger.reconcile_mismatches"),
                monitoring_snapshot |-> << <<"monitoring.snapshot", "diagnostics:read">> >>]

SecurityCalls ==
    [security_saber_dry_run |-> << <<"security.saber_dry_run", "security:read">> >>,
     security_canary_timeline |-> << <<"security.canary_timeline", "security:read">> >>,
     security_status |-> << <<"security.saber_dry_run", "security:read">>, <<"security.canary_timeline", "security:read">> >>,
     diagnostics_capability |-> << <<"diagnostics.capability", "diagnostics:read">> >>]

gate_read(m) == << <<m, "gates:read">> >>
gate_write(m) == << <<m, "gates:write">> >>

GatePlanCalls ==
    [gates_status |-> gate_read("gates.runtime.snapshot"), gates_plan_current |-> gate_read("gates.plan.current"),
     gates_prompt_create |-> gate_write("gates.prompt.create"), gates_plan_propose |-> gate_write("gates.plan.propose"),
     gates_plan_approve |-> gate_write("gates.plan.approve"), gates_tasks_derive |-> gate_write("gates.tasks.derive"),
     gates_tasks_preflight |-> gate_write("gates.tasks.preflight"),
     gates_amendment_request |-> gate_write("gates.amendment.request"),
     gates_amendment_approve |-> gate_write("gates.amendment.approve")]

GateProofCalls ==
    [gates_runtime_verify |-> gate_write("gates.runtime.verify"), gates_decisions |-> gate_read("gates.decisions.list"),
     gates_evidence_list |-> gate_read("gates.evidence.list"), gates_evidence_submit |-> gate_write("gates.evidence.submit"),
     gates_tasks_complete |-> gate_write("gates.tasks.complete"), gates_argument_build |-> gate_write("gates.argument.build"),
     gates_argument_inspect |-> gate_read("gates.argument.inspect"), gates_argument_accept |-> gate_write("gates.argument.accept")]

Recalling == << <<"memory.recall", "memory:recall">> >>
SearchCalls == [search |-> Recalling]
RecallCalls == [recall |-> Recalling, recall_smart |-> Recalling]

CompactionCalls == [recall_detail |-> << <<"memory.open", "memory:open">> >>,
                    compaction_snapshot |-> One("session.compaction_snapshot"), session_compact |-> One("session.compact")]

MemoryCalls == [memory_detail |-> << <<"memory.open", "memory:open">> >>, memory_save |-> << <<"memory.save", "memory:save">> >>,
                benchmarks_list |-> One("benchmarks.list"), benchmark_detail |-> One("benchmarks.detail"),
                events |-> << <<"events.list", "events:read">> >>]

ProjectCalls == [projects_list |-> One("projects.list"), projects_create |-> One("projects.create"),
                 projects_hierarchy |-> One("sessions.hierarchy")]

SessionCalls == [sessions_list |-> One("sessions.list"), session_detail |-> One("sessions.detail"),
                 session_rename |-> One("sessions.rename"), session_set_active |-> One("sessions.set_active")]

ReasoningCalls ==
    [nightly_tree |-> One("nightly.tree"), nightly_run |-> One("nightly.run"), nightly_dry_run |-> One("nightly.dry_run"),
     reasoning_list |-> << <<"reasoning.artifacts", "diagnostics:read">> >>,
     reasoning_bridge_integrity |-> << <<"reasoning.bridge.integrity", "diagnostics:read">> >>,
     reasoning |-> << <<"reasoning.run", "memory:save">> >>]

\* model_select, the reasoning policy and the provider routes are in module Ingress.
SettingsCalls == [settings_get |-> <<Sys("settings.get"), Sys("session.get")>>, settings_set |-> One("settings.set")]

GrantCalls == [permissions_grant_root |-> One("permissions.grant_root"), permissions_revoke_root |-> One("permissions.revoke_root"),
               permissions_grants_create |-> One("permissions.grants.create"),
               permissions_grants_revoke |-> One("permissions.grants.revoke")]

\* gate_grants and create_gate_grant of the mesh.
MeshGrantCalls == [gate_grants_list |-> One("permissions.grants.list"), gate_grants_create |-> One("permissions.grants.create")]

InspectorCalls == [inspector_target |-> One("ui.inspector.target")]

ExchangeCalls == [imports_list |-> <<Sys("import.list"), Sys("settings.get")>>, import_pack |-> One("import.pack"),
                  export_brain |-> One("export.brain")]

ImportCalls ==
    [memory_import_sources |-> One("import.memory.sources"), memory_import_batch_create |-> One("import.memory.batch.create"),
     memory_import_batch_get |-> One("import.memory.batch.get"), memory_import_batch_parse |-> One("import.memory.batch.parse")]

ImportBatchCalls ==
    [memory_import_batch_preview |-> One("import.memory.batch.preview"), memory_import_batch_commit |-> One("import.memory.batch.commit"),
     memory_import_batch_cancel |-> One("import.memory.batch.cancel"), memory_import_batch_report |-> One("import.memory.batch.report")]

BackupCalls == [brain_backup |-> One("brain.backup")]
RawSettingsCalls == [settings_raw |-> One("settings.get")]
ReadyCalls == [ready |-> One("system.ready")]

\* The purge route raises the profile of the brain first.
PurgeCalls == [brain_purge |-> <<Sys("permissions.set_profile"), Sys("brain.purge")>>]

CallTables ==
    {SessionCreateCalls, AccountCalls, LedgerCalls, SecurityCalls, GatePlanCalls, GateProofCalls, SearchCalls,
     RecallCalls, CompactionCalls, MemoryCalls, ProjectCalls, SessionCalls, ReasoningCalls, SettingsCalls,
     GrantCalls, MeshGrantCalls, InspectorCalls, ExchangeCalls, ImportCalls, ImportBatchCalls,
     BackupCalls, RawSettingsCalls, ReadyCalls, PurgeCalls}

\* The tables as one; no two have a handler in common.
Joined(tables) == [h \in UNION {DOMAIN t : t \in tables} |-> (CHOOSE t \in tables : h \in DOMAIN t)[h]]

Calls == Joined(CallTables)

\* Handlers answered within the ingress: offline runtimes, constants, the mesh, and the
\* workspace, which asks for a permission profile first.
OfflineHandlers == {"provider_runtime_offline", "plugins_runtime_offline"}
McpHandlers == {"mcp_status", "mcp_tools", "mcp_connect", "mcp_create", "mcp_server_connect", "mcp_server_enable",
                "mcp_server_disable", "mcp_call_tool"}
SandboxHandlers == {"sandbox_profiles", "sandbox_preview", "sandbox_execute", "sandbox_denials"}
ComposerHandlers == {"chat_composer_actions"}
MeshHandlers == {"tools_list", "tools_detail", "tools_call", "plugins_list",
                 "plugins_marketplace", "plugins_install", "plugins_enable", "plugins_disable", "plugins_uninstall",
                 "apps_skills", "mcp_servers"}
ProviderHandlers == {"provider_credentials_save", "providers_connect", "providers_discover", "providers_list",
                     "providers_detail", "providers_models", "providers_preflight", "providers_auth_start",
                     "providers_auth_complete", "providers_auth_refresh", "providers_entitlement", "mcp_config"}
OtherHandlers == {"attachments_inspect", "code_review_diff", "code_review_list"}
StatusHandlers == {"well_known", "health", "openapi"}

ReviewOrFull == {"workspace_files_list", "workspace_files_read", "workspace_files_search"}
WorkspaceNeeds == [h \in ReviewOrFull |-> {"review", "full"}]
WorkspaceWriteNeeds == [workspace_files_write_preview |-> {"full"}, workspace_files_write_apply |-> {"full"}]
ReviewNeeds == [code_review_propose |-> {"review", "full"}, code_review_accept |-> {"full"}, code_review_reject |-> {"full"}]
DocumentNeeds == [documents_read |-> {"review", "full"}]
Needs == Joined({WorkspaceNeeds, WorkspaceWriteNeeds, ReviewNeeds, DocumentNeeds})

-----------------------------------------------------------------------------
(* build_router: the handlers each section of the router binds.  Those     *)
(* that keep state of their own are in modules Ingress and Tools.          *)

RoutedHome == StatusHandlers \cup ComposerHandlers \cup {"settings_raw", "ready", "ledger_verify", "tools_list", "provider_runtime_offline"}
              \cup DOMAIN AccountCalls \cup DOMAIN LedgerCalls \cup DOMAIN SecurityCalls
RoutedGates == DOMAIN GatePlanCalls \cup DOMAIN GateProofCalls \cup DOMAIN RecallCalls \cup DOMAIN SearchCalls
               \cup DOMAIN CompactionCalls \cup DOMAIN MemoryCalls \cup {"provider_runtime_offline"}
RoutedSessions == DOMAIN ProjectCalls \cup DOMAIN SessionCalls \cup DOMAIN SessionCreateCalls \cup DOMAIN ReasoningCalls
                  \cup DOMAIN SettingsCalls \cup DOMAIN GrantCalls \cup SandboxHandlers
RoutedRegistry == MeshHandlers \cup DOMAIN MeshGrantCalls \cup McpHandlers \cup DOMAIN InspectorCalls
RoutedApps == {"plugins_runtime_offline"}
RoutedProviderState == {"provider_runtime_offline", "provider_credentials_save", "providers_discover"}
RoutedProviders == (ProviderHandlers \ {"mcp_config"}) \cup {"provider_runtime_offline"}
RoutedAdmin == {"mcp_config"} \cup DOMAIN ExchangeCalls \cup DOMAIN BackupCalls \cup DOMAIN PurgeCalls
               \cup DOMAIN ImportCalls \cup DOMAIN ImportBatchCalls
RoutedWorkspace == DOMAIN Needs \cup OtherHandlers

Routed == RoutedHome \cup RoutedGates \cup RoutedSessions \cup RoutedRegistry \cup RoutedApps
          \cup RoutedProviderState \cup RoutedProviders \cup RoutedAdmin \cup RoutedWorkspace

-----------------------------------------------------------------------------
(* The tables of the brain.                                                *)

\* ensure_helper_identity of the ingress: the scopes it is registered with.
IngressScopes == {"system", "memory:save", "memory:recall", "memory:open", "memory:answer", "events:read", "events:write",
                  "diagnostics:read", "security:read", "gates:read", "gates:write"}

gatesRead == {"gates.plan.current", "gates.runtime.snapshot", "gates.decisions.list", "gates.evidence.list", "gates.argument.inspect"}
gatesWrite == {"gates.prompt.create", "gates.plan.propose", "gates.plan.approve", "gates.tasks.derive", "gates.tasks.preflight",
               "gates.amendment.request", "gates.amendment.approve", "gates.runtime.verify", "gates.evidence.submit",
               "gates.tasks.complete", "gates.argument.build", "gates.argument.accept"}

\* Methods of one scope in the order of the source; a method of none is not found.
ScopeTable ==
    [s \in {"system"} |->
        {"system.health", "system.ready", "system.status", "system.shutdown", "runtime.status", "ledger.verify",
         "ledger.repair_segmented", "ledger.record_mutation", "ledger.reconcile_mismatches", "session.get", "session.login",
         "session.logout", "session.compact", "projects.list", "projects.create", "sessions.list", "sessions.create",
         "sessions.detail", "sessions.set_active", "sessions.rename", "sessions.hierarchy", "ui.contract.snapshot",
         "ui.inspector.target", "settings.get", "settings.set", "permissions.get", "permissions.set_profile",
         "permissions.grant_root", "permissions.revoke_root", "permissions.grants.list", "permissions.grants.create",
         "permissions.grants.revoke", "permissions.grants.check", "tool.check_gate", "nightly.tree", "nightly.dry_run",
         "nightly.run", "import.list", "import.pack", "export.brain", "brain.backup", "brain.purge"}]
    @@ [s \in {"memory:save"} |-> {"memory.save", "reasoning.run", "reasoning.bridge.backfill_imports", "reasoning.tool_event.record"}]
    @@ [s \in {"memory:recall"} |-> {"memory.recall", "memory.recall.smart"}]
    @@ [s \in {"memory:open"} |-> {"memory.open"}]
    @@ [s \in {"memory:answer"} |-> {"memory.answer"}]
    @@ [s \in {"events:read"} |-> {"events.list"}]
    @@ [s \in {"events:write"} |-> {"events.security"}]
    @@ [s \in {"diagnostics:read"} |->
        {"monitoring.snapshot", "diagnostics.trust", "diagnostics.recall", "diagnostics.capability", "paper.registry",
         "reasoning.artifacts", "reasoning.bridge.list", "reasoning.bridge.integrity", "reasoning.causal_chain", "reasoning.tool_quality"}]
    @@ [s \in {"security:read"} |-> {"security.saber_dry_run", "security.canary_timeline", "security.audit_log"}]
    @@ [s \in {"gates:read"} |-> gatesRead]
    @@ [s \in {"gates:write"} |-> gatesWrite]

\* The scopes that make a call of the method acceptable: none for an unknown method.
required_scope(m) == {s \in DOMAIN ScopeTable : m \in ScopeTable[s]}

\* Vector methods of benchmarks and policy.
VectorMethods == {"benchmarks.vector_exact", "benchmarks.vector_pq_candidates", "benchmarks.vector_pq_exact_rerank",
                  "benchmarks.vector_recall", "benchmarks.vector_thresholds", "benchmarks.vector_regression_profile",
                  "benchmarks.vector_regression_compare", "benchmarks.vector_regression_response", "policy.vector_recall"}

\* permitted_method lists what the scope table does, but for one method, and some that have
\* no scope.
permitted_method(m) ==
    \/ m \in (UNION {ScopeTable[s] : s \in DOMAIN ScopeTable}) \ {"reasoning.tool_event.record"}
    \/ m \in VectorMethods \cup {"diagnostics.recall_drift", "route.certificate.issue", "route.certificate.open"}

MemoryHandlers == {"memory.save", "memory.embedding.upsert", "memory.recall", "memory.recall.smart", "memory.open", "memory.answer"}
MainHandlers == {"events.list", "events.security", "diagnostics.trust", "diagnostics.recall", "diagnostics.recall_drift",
                 "diagnostics.capability", "paper.registry", "route.certificate.issue", "route.certificate.open", "exposure.policy",
                 "security.saber_dry_run", "security.canary_timeline", "runtime.status", "ledger.verify", "ledger.repair_segmented",
                 "ledger.record_mutation", "ledger.reconcile_mismatches", "monitoring.snapshot", "benchmarks.vector_recall"}
CognitionHandlers ==
    {"session.get", "session.login", "session.logout", "session.compact", "session.compactions", "session.compaction.open",
     "session.compaction_snapshot", "session.context_pressure", "providers.model_catalog", "benchmarks.list", "benchmarks.detail",
     "benchmarks.record", "projects.list", "projects.create", "sessions.list", "sessions.create", "sessions.detail",
     "sessions.set_active", "sessions.rename", "sessions.hierarchy", "ui.contract.snapshot", "ui.inspector.target", "nightly.tree",
     "nightly.dry_run", "nightly.run", "reasoning.artifacts", "reasoning.bridge.list", "reasoning.bridge.integrity",
     "reasoning.bridge.backfill_imports", "reasoning.tool_quality", "reasoning.tool_event.record", "reasoning.run",
     "reasoning.causal_chain", "settings.get", "settings.set", "permissions.get", "permissions.set_profile",
     "permissions.grant_root", "permissions.revoke_root", "permissions.grants.list", "permissions.grants.create",
     "permissions.grants.revoke", "permissions.grants.check", "tool.check_gate", "brain.backup", "brain.purge"}
    \cup gatesRead \cup gatesWrite \cup (VectorMethods \ {"benchmarks.vector_recall"})
IoHandlers == {"import.list", "import.pack", "import.memory.sources", "import.memory.batch.create", "import.memory.batch.get",
               "import.memory.batch.list", "import.memory.batch.parse", "import.memory.batch.preview", "import.memory.batch.commit",
               "import.memory.batch.cancel", "import.memory.batch.report", "export.brain"}

\* execute: what the dispatch table knows.
Dispatched == MemoryHandlers \cup MainHandlers \cup CognitionHandlers \cup IoHandlers \cup {"security.audit_log"}

\* Mutant: the reasoning family is forgotten.
worker_for_method_NoReasoning(m) ==
    CASE m \in MemoryHandlers -> "memory"
      [] m \in MainHandlers -> "main"
      [] m \in CognitionHandlers \ {"reasoning.run", "reasoning.artifacts"} -> "cognition"
      [] m \in IoHandlers -> "io"
      [] OTHER -> "none"

\* worker_for_method.  The Cognition and Io families are prefixes in the code, so they hold
\* every method of the dispatch table that starts with one; Save and Recall are one here.
worker_for_method(m) ==
    CASE m \in MemoryHandlers -> "memory"
      [] m \in MainHandlers -> "main"
      [] m \in CognitionHandlers -> "cognition"
      [] m \in IoHandlers -> "io"
      [] OTHER -> "none"

\* dispatch_value answers these itself.
SystemMethods == {"system.health", "system.ready", "system.status", "system.shutdown"}

\* What process_frame and route answer before any handler runs, "none" if a handler runs.
Rejection(m, scopes) ==
    CASE required_scope(m) = {} -> "no_scope"
      [] ~(scopes \subseteq IngressScopes) \/ required_scope(m) \cap scopes = {} -> "scope_insufficient"
      [] ~permitted_method(m) -> "quarantined"
      [] m \notin SystemMethods /\ worker_for_method(m) = "none" -> "no_worker"
      [] m \notin SystemMethods \cup Dispatched -> "no_handler"
      [] OTHER -> "none"
=============================================================================

-------------------------------- MODULE Chat --------------------------------
(***************************************************************************)
(* A turn of chat and a call of a tool (capability_mesh.rs chat, call_tool *)
(* and execute_tool).  A turn may recall first, then asks the provider,    *)
(* runs the tools the model asks for, at most MAX_TOOL_ITERATIONS of them, *)
(* and lets the answer through only if its claims have traces.  A tool is  *)
(* run after its descriptor and the permission gate of the brain were      *)
(* checked; a tool of an MCP server goes to the MCP runtime instead, whose *)
(* servers come and go meanwhile.                                          *)
(*                                                                         *)
(* The text of an answer is the set of claims the gate finds in it.  The   *)
(* records of an execution in the brain are calls whose failure is         *)
(* ignored; they are one step, and their rows are left out.                *)
(***************************************************************************)
EXTENDS Routes, Mcp

CONSTANTS
    McpIds         \* tool ids in the namespace mcp: a function to <<server, tool>>

MAX_TOOL_ITERATIONS == 3

VARIABLES
    turn,     \* the request in progress
    ran,      \* history variable: tools run in this request, with whether the config of the
              \*   server said disabled then, by a disabling that no other request overlapped
    answer    \* the answer to the last request

chatVars == <<turn, ran, answer, mcpVars>>

-----------------------------------------------------------------------------
(* Descriptors.                                                            *)

\* What run_tool asks of the brain for a tool.
RecallTools ==
    [x \in {"brain.memory.recall"} |-> <<"memory.recall", "memory:recall">>]
    @@ "brain.memory.save" :> <<"memory.save", "memory:save">>
    @@ "brain.reasoning.run" :> <<"reasoning.run", "memory:save">>
    @@ "brain.nightly.tree" :> Sys("nightly.tree")
    @@ "brain.status" :> Sys("runtime.status")
    @@ "brain.recall.smart" :> <<"memory.recall.smart", "memory:recall">>
    @@ "brain.recall.detail" :> <<"memory.open", "memory:open">>
    @@ "brain.memory.detail" :> <<"memory.open", "memory:open">>

InspectionTools ==
    "brain.ledger.verify" :> Sys("ledger.verify")
    @@ "brain.ledger.inspect" :> Sys("ledger.verify")
    @@ "brain.compaction.snapshot" :> Sys("session.compaction_snapshot")
    @@ "brain.compaction.run" :> Sys("session.compact")
    @@ "brain.reasoning.trace.list" :> Sys("reasoning.bridge.list")
    @@ "brain.tool_trace.list" :> <<"events.list", "events:read">>
    @@ "brain.benchmark.evidence.list" :> Sys("benchmarks.list")

\* Described as pending, and run all the same.
PendingTools ==
    "brain.continuity.snapshot" :> Sys("session.compaction_snapshot")
    @@ "brain.confidence.snapshot" :> <<"diagnostics.trust", "diagnostics:read">>
    @@ "brain.route_certificate.inspect" :> Sys("route.certificate.open")
    @@ "brain.cognitive_audit.snapshot" :> <<"diagnostics.recall", "diagnostics:read">>

brain_tool == RecallTools @@ InspectionTools @@ PendingTools

FilesystemTools == {"filesystem.read", "filesystem.list", "filesystem.search", "filesystem.write.preview", "filesystem.write.apply"}
BrowserTools == {"browser.open", "browser.snapshot", "browser.current_page"}
ShellTools == {"shell.propose", "shell.execute"}
NetworkTools == {"network.check", "web.fetch_url"}
RegistryTools == {"skill.registry.list", "plugin.registry.list", "mcp.registry.list"}

\* Described without a handler.
Unimplemented == {"filesystem.edit.preview", "filesystem.edit.apply", "filesystem.patch.preview", "filesystem.patch.apply",
                  "brain.reasoning.trace.detail", "brain.reasoning.policy.get", "brain.route_certificate.validate",
                  "brain.tool_trace.detail"}

tool_descriptors == DOMAIN brain_tool \cup FilesystemTools \cup BrowserTools \cup ShellTools \cup NetworkTools
                    \cup RegistryTools \cup Unimplemented

-----------------------------------------------------------------------------
(* execute_tool.                                                           *)

NoExecution == [at |-> "none"]
Execution(tool, caller, hash, at, why) ==
    [tool |-> tool, caller |-> caller, hash |-> hash, at |-> at, why |-> why, gate |-> FALSE, ok |-> FALSE, executed |-> FALSE]

execute_tool(tool, caller, hash) ==
    CASE tool \in DOMAIN McpIds -> Execution(tool, caller, hash, "mcp", "")
      [] tool \notin tool_descriptors \cup DOMAIN McpIds -> Execution(tool, caller, hash, "record", "tool_not_found")
      [] tool \in tool_descriptors \ DOMAIN McpIds /\ caller = "model" /\ hash # "current" ->
             Execution(tool, caller, hash, "record", "descriptor")
      [] OTHER -> Execution(tool, caller, hash, "gate", "")

Finished(ok, executed, why) ==
    turn' = [turn EXCEPT !.exec.at = "record", !.exec.ok = ok, !.exec.executed = executed, !.exec.why = why]
Ran(ok, server) ==
    ran' = ran \cup {[tool |-> turn.exec.tool, caller |-> turn.exec.caller, hash |-> turn.exec.hash,
                      gate |-> turn.exec.gate, ok |-> ok, server |-> server,
                      disabled |-> Disabled(server), undisturbed |-> server \in down]}

\* Mutant: a brain that cannot be asked lets the tool run.
CheckGate_FailOpen(allowed) ==
    /\ turn.exec.at = "gate"
    /\ turn' = [turn EXCEPT !.exec.at = "run", !.exec.gate = allowed]
    /\ UNCHANGED <<ran, answer, mcpVars>>

\* tool.check_gate; a refusal and a brain that does not answer are both denials.
CheckGate(allowed) ==
    /\ turn.exec.at = "gate"
    /\ IF allowed THEN turn' = [turn EXCEPT !.exec.at = "run", !.exec.gate = TRUE] ELSE Finished(FALSE, FALSE, "denied")
    /\ UNCHANGED <<ran, answer, mcpVars>>

\* run_tool: shell.propose answers what it was asked and runs nothing.
Handled(tool) == tool \notin Unimplemented
Refused(tool) == tool \in DOMAIN brain_tool /\ Rejection(brain_tool[tool][1], {brain_tool[tool][2]}) # "none"

run_tool(ok) ==
    LET tool == turn.exec.tool
    IN  /\ turn.exec.at = "run"
        /\ ok => Handled(tool) /\ ~Refused(tool)
        /\ tool = "shell.propose" => ok
        /\ Finished(ok, tool = "shell.execute" /\ ok,
                    CASE ~Handled(tool) -> "tool_not_implemented" [] Refused(tool) -> "refused" [] ok -> "" [] OTHER -> "failed")
        /\ IF Handled(tool) /\ tool # "shell.propose" THEN Ran(ok, "none") ELSE UNCHANGED ran
        /\ UNCHANGED <<answer, mcpVars>>

\* dispatch_mcp_tool: no gate and no descriptor, and the approval is given with the call.
dispatch_mcp_tool ==
    LET target == McpIds[turn.exec.tool]
    IN  /\ turn.exec.at = "mcp"
        /\ IF Callable(target[1], target[2])
           THEN \/ CallSucceeds(target[1], target[2]) /\ Finished(TRUE, FALSE, "") /\ Ran(TRUE, target[1]) /\ UNCHANGED <<runtime, alive>>
                \/ CallBreaks(target[1]) /\ Finished(FALSE, FALSE, "failed") /\ Ran(FALSE, target[1])
           ELSE Finished(FALSE, FALSE, "not_connected") /\ UNCHANGED <<ran, runtime, alive>>
        /\ UNCHANGED <<answer, configs, mcpCalls, started, down>>

-----------------------------------------------------------------------------
(* Turns.                                                                  *)

Turn(at, wants, exec) == [at |-> at, wants |-> wants, rounds |-> 0, traces |-> {}, exec |-> exec]
NoAnswer == [status |-> "none", claims |-> {}]
Answered(status, claims) ==
    /\ turn' = [turn EXCEPT !.at = "idle", !.exec = NoExecution]
    /\ answer' = [status |-> status, claims |-> claims]

ChatInit == McpInit /\ turn = Turn("idle", FALSE, NoExecution) /\ ran = {} /\ answer = NoAnswer

Begin(start) == /\ turn.at = "idle" /\ turn' = start
                /\ ran' = {} /\ answer' = NoAnswer
                /\ UNCHANGED mcpVars

call_tool(tool) == Begin(Turn("api", FALSE, execute_tool(tool, "api", "none")))

\* recall_preflight: a question about memory is recalled for before the provider is asked.
recall_preflight(wants) ==
    IF wants THEN Turn("preflight", TRUE, execute_tool("brain.memory.recall", "orchestrator", "none"))
    ELSE Turn("prompt", FALSE, NoExecution)
ChatStart(wants) == Begin(recall_preflight(wants))

\* The records of an execution, and its trace.
trace_summary == [tool |-> turn.exec.tool, ok |-> turn.exec.ok, executed |-> turn.exec.executed]
Traced(at) == turn' = [turn EXCEPT !.at = at, !.exec = NoExecution, !.traces = @ \cup {trace_summary},
                                   !.rounds = IF turn.at = "tool" THEN @ + 1 ELSE @]

ToolReturns ==
    /\ turn.exec.at = "record"
    /\ CASE turn.at = "api" -> Answered(IF turn.exec.ok THEN "ok" ELSE turn.exec.why, {})
         [] turn.at = "preflight" -> Traced("prompt") /\ UNCHANGED answer
         [] turn.at = "tool" /\ turn.exec.why = "descriptor" -> Answered("descriptor", {})
         [] OTHER -> Traced("provider") /\ UNCHANGED answer
    /\ UNCHANGED <<ran, mcpVars>>

\* The prompt lists the tools, those of MCP servers after a reconciliation.
Prompt == /\ turn.at = "prompt" /\ turn' = [turn EXCEPT !.at = "provider"]
          /\ runtime' = reconcile_mcp_runtime
          /\ UNCHANGED <<ran, answer, configs, mcpCalls, started, alive, down>>

\* The provider fails, or answers with a strict_tool_call or with text.
ProviderFails == /\ turn.at = "provider" /\ Answered("provider", {})
                 /\ UNCHANGED <<ran, mcpVars>>

ProviderCalls(tool, hash) ==
    /\ turn.at = "provider"
    /\ IF turn.rounds < MAX_TOOL_ITERATIONS
       THEN turn' = [turn EXCEPT !.at = "tool", !.exec = execute_tool(tool, "model", hash)] /\ UNCHANGED answer
       ELSE Answered("limit", {})
    /\ UNCHANGED <<ran, mcpVars>>

has_trace(tool) == \E t \in turn.traces : t.tool = tool
has_any_successful_trace(tools) == \E t \in turn.traces : t.ok /\ t.tool \in tools
has_successful_shell_execution_trace == \E t \in turn.traces : t.ok /\ t.executed /\ t.tool \in ShellTools

WebTools == BrowserTools \cup {"web.fetch_url"}
Recall == {"brain.memory.recall"}

\* Mutant: a proposed command will do for a claim of having run one.
answer_gate_Proposed(claims) ==
    /\ "shell" \in claims => has_any_successful_trace(ShellTools)
    /\ "recall" \in claims => has_any_successful_trace(Recall)

answer_gate(claims) ==
    /\ turn.wants => has_trace("brain.memory.recall")
    /\ "recall" \in claims => has_any_successful_trace(Recall)
    /\ "web" \in claims => has_any_successful_trace(WebTools)
    /\ "search" \in claims => has_any_successful_trace(WebTools \cup Recall)
    /\ "file" \in claims => has_any_successful_trace(FilesystemTools)
    /\ "shell" \in claims => has_successful_shell_execution_trace
    /\ "generic" \in claims => turn.traces # {}

ProviderAnswers(claims) ==
    /\ turn.at = "provider"
    /\ Answered(IF answer_gate(claims) THEN "ok" ELSE "answer_gate_rejected", claims)
    /\ UNCHANGED <<ran, mcpVars>>

ApiNext(tools) == \E tool \in tools : call_tool(tool)

\* The model asks for tools, described or not, and answers with the claims of contents.
ChatNext(tools, contents) ==
    \/ \E wants \in BOOLEAN : ChatStart(wants)
    \/ \E allowed \in BOOLEAN : CheckGate(allowed)
    \/ \E ok \in BOOLEAN : run_tool(ok)
    \/ dispatch_mcp_tool \/ ToolReturns \/ Prompt \/ ProviderFails
    \/ \E tool \in tools, hash \in {"current", "other"} : ProviderCalls(tool, hash)
    \/ \E claims \in contents : ProviderAnswers(claims)

McpSteps == McpNext /\ UNCHANGED <<turn, ran, answer>>

ChatSpec(tools, contents) ==
    ChatInit /\ [][ChatNext(tools, contents) \/ ApiNext(tools) \/ McpSteps]_chatVars

-----------------------------------------------------------------------------
(* Properties.                                                             *)

\* An answer let through claims no recall, fetch, search, file access or command that did not
\* really happen in its turn, and no command that was only proposed.
AnswerBacked ==
    LET Did(tools) == \E r \in ran : r.ok /\ r.tool \in tools
    IN  answer.status = "ok" =>
            /\ "recall" \in answer.claims => Did(Recall)
            /\ "web" \in answer.claims => Did(WebTools)
            /\ "search" \in answer.claims => Did(WebTools \cup Recall)
            /\ "file" \in answer.claims => Did(FilesystemTools)
            /\ "shell" \in answer.claims => Did({"shell.execute"})

\* A tool that ran passed the checks: it is described, the brain's gate let it through in this
\* execution and, when a model asked, under the descriptor as it is.
PassedChecks(r) ==
    r.gate /\ r.tool \in tool_descriptors /\ (r.caller = "model" => r.hash = "current")

\* A tool runs in a turn without these checks only in the namespace mcp, on the server its id
\* names.  Such a tool may run although the config of its server says disabled: while the
\* disabling is under way, when another request overlapped it, or when the config was written
\* disabled by mcp_create; once a disabling that nothing overlapped is done, it does not.
RunAsGated ==
    /\ \A r \in ran :
           \/ PassedChecks(r)
           \/ /\ r.tool \in DOMAIN McpIds /\ r.server = McpIds[r.tool][1]
              /\ r.disabled => ~r.undisturbed
    /\ Cardinality(ran) <= MAX_TOOL_ITERATIONS + 1

\* "Every tool invocation goes through permission checks: ... Tool must be registered; Tool
\* domain must be allowed; Permission profile must permit the operation" (docs/security.md).
EveryToolChecked == \A r \in ran : PassedChecks(r)
=============================================================================

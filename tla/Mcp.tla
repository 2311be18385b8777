-------------------------------- MODULE Mcp ---------------------------------
(***************************************************************************)
(* The MCP runtime of the capability mesh (capability_mesh.rs): the config *)
(* file of each server, the table of runtime entries behind a mutex, and   *)
(* the processes behind connected entries.  Connecting, enabling and       *)
(* disabling read a config first and take the mutex later, so that they    *)
(* overlap; a session that leaves its entry is dropped, and dropping it    *)
(* kills its process.  A process may exit at any time.                     *)
(***************************************************************************)
EXTENDS Naturals, FiniteSets

CONSTANTS
    Servers,
    McpCallers,  \* requests in progress
    McpTools,    \* names of tools
    MaxStarts    \* bound: processes started

ASSUME StartsAssumption == MaxStarts \in Nat
ASSUME ServersAssumption == "none" \notin Servers   \* it stands for no server

VARIABLES
    configs,     \* config files: a partial function
    runtime,     \* mcp_runtime: a partial function
    mcpCalls,    \* requests in progress
    started,     \* processes started so far
    alive,       \* processes that run
    down         \* history variable: servers disabled by a request no other one overlapped

mcpVars == <<configs, runtime, mcpCalls, started, alive, down>>

IdleCall == [at |-> "idle", server |-> "none", alone |-> TRUE]
Entry(state, tools, process) == [state |-> state, tools |-> tools, process |-> process]

McpInit ==
    /\ configs = [s \in {} |-> {}] /\ runtime = [s \in {} |-> {}]
    /\ mcpCalls = [c \in McpCallers |-> IdleCall]
    /\ started = 0 /\ alive = {} /\ down = {}

With(table, s, row) == [x \in DOMAIN table \cup {s} |-> IF x = s THEN row ELSE table[x]]
Without(table, s) == [x \in DOMAIN table \ {s} |-> table[x]]

\* Drop of the session an entry holds.
Held(s) == IF s \in DOMAIN runtime THEN {runtime[s].process} ELSE {}

\* The requests at work on a server are no longer alone.
Crowd(s) == [c \in McpCallers |-> [mcpCalls[c] EXCEPT !.alone = @ /\ mcpCalls[c].server # s]]
AloneOn(s) == \A c \in McpCallers : mcpCalls[c].server # s
Enter(c, s, call) == mcpCalls' = [Crowd(s) EXCEPT ![c] = call]
Leave(c) == mcpCalls' = [mcpCalls EXCEPT ![c] = IdleCall]

-----------------------------------------------------------------------------
(* Configs.                                                                *)

\* The file of a server is written whatever its entry is.
mcp_create(s, config) ==
    /\ configs' = With(configs, s, config)
    /\ down' = down \ {s} /\ mcpCalls' = Crowd(s)
    /\ UNCHANGED <<runtime, started, alive>>

\* enable and disable: the file is read, then written, then the entry is removed.
LifecycleRead(c, s, enabled) ==
    /\ mcpCalls[c].at = "idle" /\ s \in DOMAIN configs
    /\ Enter(c, s, [at |-> "write", server |-> s, alone |-> AloneOn(s),
                    config |-> [configs[s] EXCEPT !.enabled = enabled]])
    /\ UNCHANGED <<configs, runtime, started, alive, down>>

LifecycleWrite(c) ==
    LET call == mcpCalls[c]
    IN  /\ call.at = "write"
        /\ configs' = With(configs, call.server, call.config)
        /\ IF call.config.enabled THEN Leave(c) /\ down' = down \ {call.server}
           ELSE mcpCalls' = [mcpCalls EXCEPT ![c].at = "remove"] /\ UNCHANGED down
        /\ UNCHANGED <<runtime, started, alive>>

\* Mutant: the entry stays until the server is connected again.
LifecycleRemove_FileOnly(c) ==
    /\ mcpCalls[c].at = "remove"
    /\ down' = IF mcpCalls[c].alone THEN down \cup {mcpCalls[c].server} ELSE down
    /\ Leave(c)
    /\ UNCHANGED <<configs, runtime, started, alive>>

LifecycleRemove(c) ==
    LET s == mcpCalls[c].server
    IN  /\ mcpCalls[c].at = "remove"
        /\ runtime' = Without(runtime, s) /\ alive' = alive \ Held(s)
        /\ down' = IF mcpCalls[c].alone THEN down \cup {s} ELSE down
        /\ Leave(c)
        /\ UNCHANGED <<configs, started>>

-----------------------------------------------------------------------------
(* Entries.                                                                *)

\* Entries whose process has exited fail and lose their tools and their session.
Exited(s) == runtime[s].process # 0 /\ runtime[s].process \notin alive
reconcile_mcp_runtime ==
    [s \in DOMAIN runtime |-> IF Exited(s) THEN Entry("failed", {}, 0) ELSE runtime[s]]

\* The config of a server says that it is disabled.
Disabled(s) == s \in DOMAIN configs /\ ~configs[s].enabled

\* What the runtime shows of a server.
normalized_mcp_row(s) ==
    LET config == configs[s]
        state  == CASE s \in DOMAIN runtime -> runtime[s].state
                    [] config.transport = "invalid" -> "failed"
                    [] ~config.enabled -> "disabled"
                    [] OTHER -> "configured"
    IN  [state |-> state, enabled |-> config.enabled, transport |-> config.transport,
         tools |-> IF state = "connected" /\ runtime[s].tools # {} THEN runtime[s].tools ELSE config.tools]

mcp_rows == /\ runtime' = reconcile_mcp_runtime
            /\ UNCHANGED <<configs, mcpCalls, started, alive, down>>

\* The tools the model is told it may call.
mcp_tool_rows(s) ==
    IF s \in DOMAIN configs /\ normalized_mcp_row(s).state = "connected" THEN normalized_mcp_row(s).tools ELSE {}

Replace(s, row) == /\ runtime' = With(runtime, s, row)
                   /\ alive' = alive \ Held(s)

record_mcp_failed_state(s) == Replace(s, Entry("failed", {}, 0))

\* mcp_connect: the rows are read; a server that has no config or is disabled is refused.
ConnectRead(c, s) ==
    /\ mcpCalls[c].at = "idle" /\ s \in DOMAIN configs
    /\ runtime' = reconcile_mcp_runtime
    /\ IF configs[s].enabled
       THEN Enter(c, s, [at |-> "insert", server |-> s, alone |-> AloneOn(s), transport |-> configs[s].transport])
       ELSE UNCHANGED mcpCalls
    /\ UNCHANGED <<configs, started, alive, down>>

ConnectInsert(c) ==
    LET call == mcpCalls[c]
    IN  /\ call.at = "insert"
        /\ IF call.transport = "stdio"
           THEN Replace(call.server, Entry("connecting", {}, 0)) /\ mcpCalls' = [mcpCalls EXCEPT ![c].at = "spawn"]
           ELSE record_mcp_failed_state(call.server) /\ Leave(c)
        /\ UNCHANGED <<configs, started, down>>

\* start_stdio_mcp_session, outside the mutex: a process is spawned, then asked to initialize
\* and for its tools.
ConnectSpawn(c) ==
    /\ mcpCalls[c].at = "spawn"
    /\ IF started < MaxStarts
       THEN /\ started' = started + 1 /\ alive' = alive \cup {started'}
            /\ mcpCalls' = [mcpCalls EXCEPT ![c] = [at |-> "handshake", server |-> @.server, alone |-> @.alone, process |-> started']]
            /\ UNCHANGED runtime
       ELSE record_mcp_failed_state(mcpCalls[c].server) /\ Leave(c) /\ UNCHANGED started
    /\ UNCHANGED <<configs, down>>

ConnectDone(c, tools) ==
    LET call == mcpCalls[c]
    IN  /\ call.at = "handshake" /\ call.process \in alive
        /\ Replace(call.server, Entry("connected", tools, call.process))
        /\ Leave(c)
        /\ UNCHANGED <<configs, started, down>>

\* The handshake fails, and the session goes with it.
ConnectFails(c) ==
    LET call == mcpCalls[c]
    IN  /\ call.at = "handshake"
        /\ runtime' = With(runtime, call.server, Entry("failed", {}, 0))
        /\ alive' = alive \ (Held(call.server) \cup {call.process})
        /\ Leave(c)
        /\ UNCHANGED <<configs, started, down>>

\* mcp_call_tool of an approved call, under the mutex to its end: a tool the connected session
\* told of; an error ends the session.
Callable(s, tool) == s \in DOMAIN runtime /\ runtime[s].state = "connected" /\ tool \in runtime[s].tools

CallSucceeds(s, tool) == Callable(s, tool) /\ runtime[s].process \in alive
CallBreaks(s) == /\ runtime' = [runtime EXCEPT ![s] = Entry("failed", @.tools, 0)]
                 /\ alive' = alive \ Held(s)

mcp_call_tool(s, tool) ==
    /\ Callable(s, tool)
    /\ \/ CallSucceeds(s, tool) /\ UNCHANGED <<runtime, alive>>
       \/ CallBreaks(s)
    /\ UNCHANGED <<configs, mcpCalls, started, down>>

ProcessExits(p) == /\ p \in alive /\ alive' = alive \ {p}
                   /\ UNCHANGED <<configs, runtime, mcpCalls, started, down>>

\* The ingress stops: processes see their pipes close, configs stay.
McpRestarts ==
    /\ runtime' = [s \in {} |-> {}] /\ alive' = {}
    /\ mcpCalls' = [c \in McpCallers |-> IdleCall]
    /\ UNCHANGED <<configs, started, down>>

McpConfigs == [enabled : BOOLEAN, transport : {"stdio", "http", "invalid"}, tools : SUBSET McpTools]

McpNext ==
    \/ \E s \in Servers, config \in McpConfigs : mcp_create(s, config)
    \/ \E c \in McpCallers :
           \/ \E s \in Servers : ConnectRead(c, s) \/ \E enabled \in BOOLEAN : LifecycleRead(c, s, enabled)
           \/ LifecycleWrite(c) \/ LifecycleRemove(c)
           \/ ConnectInsert(c) \/ ConnectSpawn(c) \/ ConnectFails(c)
           \/ \E tools \in SUBSET McpTools : ConnectDone(c, tools)
    \/ mcp_rows
    \/ \E s \in Servers, tool \in McpTools : mcp_call_tool(s, tool)
    \/ \E p \in alive : ProcessExits(p)
    \/ McpRestarts

McpSpec == McpInit /\ [][McpNext]_mcpVars

-----------------------------------------------------------------------------
(* Properties.                                                             *)

\* However connects, failures and lifecycle requests overlap, a running process has one owner,
\* an entry or a connect in progress, so that none is left behind and none is shared; a
\* connected entry has a session; and a server whose disabling no request overlapped is not
\* connected and runs no process, whoever tries to connect it later, until it is enabled or
\* written anew.
SessionsOwned ==
    /\ \A p \in alive :
           Cardinality({s \in DOMAIN runtime : runtime[s].process = p}) +
           Cardinality({c \in McpCallers : mcpCalls[c].at = "handshake" /\ mcpCalls[c].process = p}) = 1
    /\ \A s \in DOMAIN runtime : runtime[s].state = "connected" <=> runtime[s].process # 0
    /\ \A s \in down : s \notin DOMAIN runtime /\ mcp_tool_rows(s) = {}
=============================================================================

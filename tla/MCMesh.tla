------------------------------- MODULE MCMesh -------------------------------
\* Model-checking instances of FileStores, Ingress and Chat with Mcp, the parts of the
\* ingress that keep state.  They share no variable: a behaviour moves one of them, or one
\* part of Ingress or Chat, and leaves the others as they began.
EXTENDS FileStores, Ingress, Chat

VARIABLE part

\* Ingress: a full selection, and partial ones of which the last is refused; one call at a time
\* is still queued in the brain when its caller has given up.
MCSelections == {[provider |-> "p", model |-> "m"], [model |-> "n", effort |-> "high"], [effort |-> "extreme"]}

\* Chat: a tool of each kind, and one nobody has; the contents a message can have.
MCMcpIds == "mcp.registry.list" :> <<"registry", "list">> @@ "mcp.s.t" :> <<"s", "t">>
MCTools == {"brain.memory.recall", "shell.propose", "shell.execute", "filesystem.read",
            "web.fetch_url", "mcp.s.t", "made.up"}
MCContents == {{}, {"generic"}, {"recall", "generic"}, {"web", "generic"}, {"search"}, {"file"}, {"shell"}}

\* With the chat, one caller at a time, one kind of server and one process are enough.
OneCaller == /\ Cardinality({c \in McpCallers : mcpCalls'[c] # IdleCall}) <= 1
             /\ \A s \in DOMAIN configs' : configs'[s].transport = "stdio"
             /\ started' <= 1

MCInit ==
    /\ StoresInit /\ IngressInit /\ ChatInit
    /\ part \in {"stores", "select", "skills", "limit", "chat", "mcp", "both"}
    /\ part # "stores" => store = "plugins" /\ exists

IngressStep == \/ part = "select" /\ SelectNext /\ Cardinality(overdue') <= 1
               \/ part = "skills" /\ SkillNext
               \/ part = "limit" /\ LimitNext
               \/ part \in {"select", "skills", "limit"} /\ IngressRestarts

ChatStep == \/ part = "chat" /\ (ChatNext(MCTools, MCContents) \/ ApiNext(tool_descriptors \cup MCTools))
            \/ part = "mcp" /\ McpSteps
            \/ part = "both" /\ (ChatNext({"mcp.s.t"}, {{}}) \/ ApiNext({"mcp.s.t"}) \/ (McpSteps /\ OneCaller))

MCNext ==
    /\ UNCHANGED part
    /\ \/ part = "stores" /\ StoresNext /\ UNCHANGED <<ingressVars, chatVars>>
       \/ IngressStep /\ UNCHANGED <<storesVars, chatVars>>
       \/ ChatStep /\ UNCHANGED <<storesVars, ingressVars>>

Symmetry == Permutations(StoreClients) \cup Permutations(Clients)

MCSpec == MCInit /\ [][MCNext]_<<storesVars, ingressVars, chatVars, part>>
=============================================================================

SPECIFICATION MCSpec
CONSTANTS
    StoreClients = {r1, r2}
    Previews = {"create", "append"}
    Creates = {"create"}
    Reviews = {"review"}
    Plugins = {"plugin"}
    MaxPushes = 2
    Clients = {c1, c2}
    Selections <- MCSelections
    SkillLists = {{"a"}, {"a", "b"}, {"x"}}
    Descriptors = {"a", "b"}
    Limit = 2
    Window = 3
    MaxNow = 8
    Servers = {"s"}
    McpCallers = {m1, m2}
    McpTools = {"t"}
    MaxStarts = 2
    McpIds <- MCMcpIds
INVARIANT EveryToolChecked
CHECK_DEADLOCK FALSE

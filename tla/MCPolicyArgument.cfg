SPECIFICATION MCSpec
CONSTANTS
    Methods = {"memory.save", "settings.set"}
    GateScopes = {"memory:save", "system"}
    EvidenceTypes = {"command_result", "db_query"}
    TaskLists <- MCTaskLists
    Times = {1}
    MaxVersions = 1
    MaxTasks = 2
    MaxAmendments = 0
    MaxEvidence = 2
    MaxDecisions = 1
    MaxArguments = 1
    Toggles = {"shell", "filesystem"}
    Lists = {"local_roots"}
    Paths = {"/a", "/ab"}
    Covers <- MCCovers
    Updates <- MCUpdates
    MaxNow = 1
    MaxRows = 2
    MaxBoots = 1
PROPERTIES CompletionArgumentHolds
CHECK_DEADLOCK FALSE

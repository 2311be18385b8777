SPECIFICATION MCSpec
CONSTANTS
    Batches = {b1}
    Contents <- MCContents
    Packs <- MCPacks
    GoodValues = {"v1", "v2"}
    NoKey = NoKey
    MaxMemories = 3
    MaxRuns = 2
    Memories = {1, 2, 3}
    SourceOf <- MCSourceOf
    Rank <- MCRank
    ToolEvents = {"t"}
    Signals = {0, 900}
    CYCLE_CAP_PERCENT = 60
    SOURCE_CAP_PERCENT = 50
    MaxCycles = 2
    MaxPurges = 1
    Projects = {"p"}
    SessionIds = {"a", "b"}
    Titles = {"t", "u"}
    Limits = {1, 2}
    MaxTexts = 4
    MaxRenames = 2
    Drafts <- MCDrafts
INVARIANT BackupComplete
CHECK_DEADLOCK FALSE

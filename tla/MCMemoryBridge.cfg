SPECIFICATION MCFairSpec
CONSTANTS
    Batches = {}
    Contents <- MCContents
    Packs <- MCPacks
    GoodValues = {"v1", "v2", "v3"}
    NoKey = NoKey
    MaxMemories = 2
    MaxRuns = 1
    Memories = {1}
    SourceOf <- MCSourceOf
    Rank <- MCRank
    ToolEvents = {"t"}
    Signals = {0, 900}
    CYCLE_CAP_PERCENT = 60
    SOURCE_CAP_PERCENT = 50
    MaxCycles = 1
    MaxPurges = 1
    Projects = {"p"}
    SessionIds = {"a", "b"}
    Titles = {"t", "u"}
    Limits = {1, 2}
    MaxTexts = 1
    MaxRenames = 2
    Drafts <- MCDrafts
PROPERTIES BridgesGetRecorded
CHECK_DEADLOCK FALSE

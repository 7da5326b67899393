CONSTANTS
    NumTasks = 2
    Operations = {"list", "rename", "upload"}
    RecordLimit = 1
    MaxRecords = 4
SPECIFICATION FairSpec
INVARIANT SessionIsSafe
INVARIANT EvictionSparesFailures
PROPERTY KnownOutcomeIsFinal
PROPERTY NothingIsLeftBehind
CHECK_DEADLOCK FALSE

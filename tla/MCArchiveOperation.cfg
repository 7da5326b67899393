CONSTANTS
    Entry = {a, b}
    Archive = a
    None = None
SPECIFICATION FairSpec
INVARIANT ArchiveIsSafe
PROPERTIES OnlyTheAgreedIsReplaced EveryStopTakesEffect CloseEnds
CHECK_DEADLOCK FALSE

CONSTANTS
    dir = dir
    leaf = leaf
    Name = {dir, leaf}
    Dot = dot
    DotDot = dotdot
    TaskSpec <- MixedSpecs
    Waiter = {}
    MaxTasks = 5
    MaxDepth = 3
    MaxClaims = 2
    MaxStream = 7
    Esc = esc
    Bracket = bracket
    Marker = marker
    Bell = bell
    Backslash = backslash
    Plain = plain
    PayloadMax = 1
    TotalLimit = 3
    HeavyLimit = 2
    MutationLimit = 1
SPECIFICATION AlgorithmsSpec
INVARIANTS
    ClaimsAreExact
    OnePassIsTheLoop
    StreamIsFaithful
CHECK_DEADLOCK FALSE

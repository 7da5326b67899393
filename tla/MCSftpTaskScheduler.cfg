CONSTANTS
    dir = dir
    leaf = leaf
    Name = {dir, leaf}
    Dot = dot
    DotDot = dotdot
    TaskSpec <- ContendedSpecs
    Waiter = {w1}
    MaxTasks = 3
    TotalLimit = 2
    HeavyLimit = 1
    MutationLimit = 1
SPECIFICATION ContendedSpec
INVARIANTS
    OwnersAreSafe
    NoMissedDispatch
    RecordsAreSafe
PROPERTIES
    NoOvertaking
    EndedTasksStayEnded
    ImplementsAdmission
    EveryTaskIsReported
    IdleIsReached
CHECK_DEADLOCK FALSE

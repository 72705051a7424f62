SPECIFICATION FairSpec
CONSTANTS
    t1 = t1
    t2 = t2
    t3 = t3
    Threads <- MCThreads
    Wait = 1
    MayPanic = TRUE
    MaxTime = 3
    MaxCalls = 4
INVARIANTS OneInFlight ResultThere NeverOutdated DroppedStayDropped
PROPERTY CallsReturn
CHECK_DEADLOCK FALSE

SPECIFICATION FairLockSpec
CONSTANTS
    t1 = t1
    t2 = t2
    t3 = t3
    Tasks <- MCTasks
    Names <- MCNames
INVARIANTS OneOwner NoCircle
PROPERTY AcquireReturns
CHECK_DEADLOCK FALSE

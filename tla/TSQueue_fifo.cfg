SPECIFICATION FairSpec
CONSTANTS
    Producers = {p1, p2}
    Consumer = main
    Items = {a, b}
    MaxPushes = 5
    NoThread = NoThread
INVARIANTS TypeOK DequeMutualExclusion NoDeadlock
PROPERTIES ImplementsFifo LaterPushDrains
CHECK_DEADLOCK FALSE

SPECIFICATION FairSpec
CONSTANTS
    Producers = {loop}
    Consumer = main
    Items = {a}
    MaxPushes = 2
    NoThread = NoThread
PROPERTY RequestsAreHandled
CHECK_DEADLOCK FALSE

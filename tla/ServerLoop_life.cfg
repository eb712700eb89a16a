SPECIFICATION FairSpec
CONSTANTS
    c1 = c1
    c2 = c2
    c3 = c3
    NoConn = NoConn
    Conns <- MCConns
    PortOf <- MCPorts
    MaxConnects = 2
    MaxMessages = 1
INVARIANTS
    TypeOK
    AcceptOutstanding
    OnlyValidatedServed
    NoDanglingHandler
    LoopUndisturbed
PROPERTY LeaverIsErased
CHECK_DEADLOCK FALSE

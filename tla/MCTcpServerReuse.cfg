SPECIFICATION FairSpec
CONSTANTS
    c1 = c1
    c2 = c2
    f1 = f1
    f2 = f2
    w1 = w1
    w2 = w2
    NoConn = NoConn
    NullConn = NullConn
    NoFd = NoFd
    ListenFd = ListenFd
    Conns <- MCConns
    Fds <- OneFd
    Workers <- OneWorker
    MaxUnits = 2
    SlotReads = {"own"}
    HandlerResults = {"drop", "respond", "throw"}
    SendResults = {"sent", "failed"}
    CloseResults = {"closed", "failed"}
    AutoRemove = {TRUE, FALSE}
    Pieces = 1
PROPERTIES
    DeadClientsAreRemoved
    InputIsRead
    EdgeServesHead

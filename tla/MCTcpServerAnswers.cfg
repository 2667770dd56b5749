SPECIFICATION Spec
CONSTANTS
    c1 = c1
    c2 = c2
    f1 = f1
    f2 = f2
    w1 = w1
    w2 = w2
    NoConn = NoConn
    NullConn = NullConn
    NoFd = NoFd
    ListenFd = ListenFd
    Conns <- MCConns
    Fds <- OneFd
    Workers <- TwoWorkers
    MaxUnits = 1
    SlotReads = {"own"}
    HandlerResults = {"drop", "respond", "throw"}
    SendResults = {"sent"}
    CloseResults = {"closed"}
    AutoRemove = {TRUE}
    Pieces = 1
INVARIANTS
    AnswersStayOnTheirConnection

SPECIFICATION FairSpec
CONSTANTS
    c1 = c1
    c2 = c2
    w1 = w1
    w2 = w2
    Conns <- MCConns
    Workers <- MCWorkers
    Kinds = {"TcpServer", "RPCServer"}
    MaxTasks = 2
INVARIANTS
    SocketsAreReleased
    QuietDestructionIsSafe
PROPERTIES
    DestructorReturns

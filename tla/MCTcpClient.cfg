SPECIFICATION FairSpec
CONSTANTS
    MaxConns = 2
    BUFFER_SIZE = 3
    MaxBytes = 4
    MsgSizes = {0, 1, 2, 4}
INVARIANTS
    StreamIntact
    ThreadFollowsConnection
    LossReportedOnce
PROPERTIES
    CloseReturns
    LossIsReported

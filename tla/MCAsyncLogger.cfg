SPECIFICATION FairSpec
CONSTANTS
    SIZE = 6
    BodyLens = {0, 1, 7}
    NumberLens <- ConvertedLens
    Bits = 5
    K_MAXNUMERIC_SIZE = 5
    MaxLogged = 5
    FileOpens = {TRUE, FALSE}
    Null = Null
INVARIANTS
    BuffersHoldTheRest
    AssertsHold
PROPERTIES
    ImplementsSink
    LoggedIsWritten
    TerminateReturns

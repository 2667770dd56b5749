SPECIFICATION FairSpec
CONSTANTS
    Calls <- MCCalls
    Kinds = {"value", "nomatch", "mistyped", "nomethod"}
    MetaLen = 2
    ContentLen = 2
    Cuts = TRUE
    MayFail = FALSE
PROPERTY CallReturns
CHECK_DEADLOCK FALSE

SPECIFICATION FairSpec
CONSTANTS
    Calls <- MCCalls
    Kinds = {"value", "nomatch", "mistyped", "nomethod", "throws"}
    MetaLen = 2
    ContentLen = 2
    Cuts = TRUE
    MayFail = TRUE
INVARIANTS
    ExchangeInStep
PROPERTIES
    ImplementsService
    WholeRequestsReturn

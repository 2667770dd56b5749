SPECIFICATION FairSpec
CONSTANTS
    s1 = s1
    s2 = s2
    k1 = k1
    None = None
    Servers <- MCServers
    Clients <- MCClients
    Depth = 2
    MaxInterruptions = 1
    SlashResults = {TRUE, FALSE}
INVARIANTS
    RegistryIsTrue
    ExitsOnlyInARace
    AddressWasServed
PROPERTIES
    StartReturns
    DeadProviderVanishes

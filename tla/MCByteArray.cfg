SPECIFICATION UseSpec
CONSTANTS
    baseSize_ = 2
    Values = {1, 2}
    Garbage = Garbage
    MaxLen = 3
    MaxCapacity = 6
    Width = 5
    Group = 2
    FixedLen = 2
    PrefixLen = 1
    MaxItems = 2
    MaxString = 9
    ElementType = "uint"
    Elements <- MCElements
    MaxList = 2
    Members <- MCMembers
    MaxMembers = 2
INVARIANTS
    Consistent
    OnlyEmptyReadFaults
    LoopsAreExact
    StreamIsSound
    RoundTrip
PROPERTIES
    ImplementsFlat
CHECK_DEADLOCK FALSE

SPECIFICATION Spec
CONSTANTS
    Keys = {1, 2, 3, 4}
    Payloads = {"a", "b"}
    End = 9
    Junk = "junk"
    W = 4
    MaxSlots = 9
    Models <- ModelSet
    PastEnd = {{}}
    Loads <- LoadSeqs
    MaxCalls = 2
INVARIANT ValidStructure
INVARIANT SearchesExact
INVARIANT CostOfLayout
PROPERTY ImplementsMultimap
CHECK_DEADLOCK FALSE

SPECIFICATION FairSpec
CONSTANTS
    a = a
    b = b
    c = c

    None = None
    Objects = {a, b, c}
    RTModes <- HeapModes
    SelfUnregister = {}
    Debug = TRUE
    MaxInterval = 1
    BudgetEvery = 2
    MaxPasses = 2
    RTCapacity = 1
    MaxRegistration = 1
    MaxLag = 3
PROPERTIES Served HeapOncePerFrame

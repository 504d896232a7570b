SPECIFICATION Spec
CONSTANTS
    a = a
    b = b
    c = c
    None = None
    Objects = {a, b, c}
    RTModes <- MixedModes
    SelfUnregister = {}
    Debug = FALSE
    MaxInterval = 1
    BudgetEvery = 3
    MaxPasses = 1
    RTCapacity = 2
    MaxRegistration = 2
    MaxLag = 2
INVARIANTS TypeOK CallsOnlyRegistered NoneLost 
PROPERTIES OncePerFrame KeepsPromise

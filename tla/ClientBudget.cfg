CONSTANTS
    Stalkers = {s, u}
    Boxes = {}
    Items = {i}
    None = None
    Unspawnable = {}
    ReturnsEarly = TRUE
    MaxQueue = 4
SPECIFICATION Spec
INVARIANTS NothingLost

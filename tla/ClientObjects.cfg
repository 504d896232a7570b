CONSTANTS
    Stalkers = {s, u}
    Boxes = {x}
    Items = {i, j}
    None = None
    Unspawnable = {u}
    ReturnsEarly = FALSE
    MaxQueue = 3
SPECIFICATION FairSpec
INVARIANTS TypeOK   HandsMatch
PROPERTIES GoneLeaves

CONSTANTS
    Traders = {t}
    Boxes = {x}
    Monsters = {m}
    Items = {i}
    Bolts = {b}
    Supplies = {i}
    Ids = {n1, n2, n3, n4, n5, n6}
    NoId = NoId
    None = None
    CallsPerWalk = 2
SPECIFICATION Spec
SYMMETRY IdSymmetry
INVARIANTS TypeOK   FamilyTogether NoAssert
PROPERTIES KeepsInventory PendingSpares

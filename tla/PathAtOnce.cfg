SPECIFICATION Spec
CONSTANTS
    p = p
    q = q
    None = None
    Targets = {p, q}
    Kinds = {"monster", "stalker"}
    MaxFails = 2
    Troubles = {"atOnce", "disable", "doom", "restrict", "script"}
INVARIANT PathToSelect
SYMMETRY Symmetric
CHECK_DEADLOCK FALSE

SPECIFICATION Spec
CONSTANTS
    auto = auto
    user = user
    None = None
    Names = {auto, user}
    Autosave = auto
    MaxMade = 4
    Troubles = {"crash", "open", "flush"}
INVARIANTS TypeOK OldOrNew CatalogueTrue
PROPERTIES TravelGoesOn

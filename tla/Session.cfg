SPECIFICATION Spec
CONSTANTS
    Profile = {"a", "b"}
    Edit = {"library", "registration", "origin", "override"}
    Batch = {"toggle", "repair"}
    None = None
    SavesCanFail = FALSE
    MaxAsks = 4
INVARIANTS
    TypeOK
    AtRestTheProfileIsSaved
    TheyLandTogether
PROPERTIES
    NoSavedEditIsLost
    AppliedEditsStay
    ARefreshNeverGoesBack
    EverythingLands
CHECK_DEADLOCK FALSE

SPECIFICATION Spec
CONSTANTS
    Profile = {"a", "b"}
    Edit = {"library", "registration", "origin", "override"}
    Batch = {"toggle", "repair"}
    None = None
    SavesCanFail = FALSE
    MaxAsks = 2
INVARIANT TheCurrentEntriesAreRead
CHECK_DEADLOCK FALSE

SPECIFICATION Spec
CONSTANTS
    Profile = {"one", "two"}
    Path = {"a", "b", "c"}
    Text = {"x", "y"}
    None = None
    FirstProfile = "one"
    SomeStarts <- OneStart
    TheirEntries <- Newcomers
    MaxGestures = 3
    MaxForeign = 1
    MaxMishaps = 1
INVARIANTS TypeOK NothingIsLost NoPresetIsLeftBehind TheReturnIsTheWayBack
PROPERTIES UndoTakesTheGestureBack TheRestOfTheFileStays
CHECK_DEADLOCK FALSE

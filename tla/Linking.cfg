SPECIFICATION FoldersSpec
CONSTANTS
    Addon = {p, q, r}
    Removable = {q}
    Vacant = {r}
    Category = {{p, r}}
    Starter = {p}
    FirstPlace = {d1, d2}
    SecondPlace = {e1}
    Chosen = {d2}
    Default = {d1, e1}
    Worker = {"tree", "community", "presets"}
    None = None
    Folder = Folder
    MaxMishaps = 1
    MaxBatches = 2
INVARIANTS FoldersTypeOK UndoPutsTheLastBatchBack WhatWasAskedIsSo WhatIsDerivedIsOnDisk NoLinkOutlivesItsAddon AMovedAddonIsAsEnabledAsBefore
PROPERTIES ARepairTakesOnlyDeadLinks
CHECK_DEADLOCK FALSE

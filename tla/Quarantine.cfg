SPECIFICATION Spec
CONSTANTS
    Copy = {v1, v2, v3}
    Category = {flights, scenery}
    Adopted = {flights}
    VendorElsewhere = TRUE
    None = None
    MaxFaults = 2
INVARIANTS TypeOK NoCopyIsLost LinksLeadSomewhere TheRecordStaysWithIt
PROPERTIES LinksComeBack DiscardedOnlyForTheNewcomer
CHECK_DEADLOCK FALSE

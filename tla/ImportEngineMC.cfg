SPECIFICATION Spec
CONSTANTS
    own = own
    theirs = theirs
    other = other
    place = place
    Request = {own, theirs, other}
    External = {theirs, other}
    Target = {place}
    TargetOf <- MCTargetOf
    Verification = "ByHash"
    CopiesCanMangle = TRUE
INVARIANTS
    TypeOK
    NothingIsLost
    LinksLeadToWholeAddons
    TheOtherProgramCanGetItBack
    BesideOthersIsListed
    CompletedIsComplete
PROPERTY Custody

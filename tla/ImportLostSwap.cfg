SPECIFICATION Spec
CONSTANTS
    own = own
    theirs = theirs
    other = other
    place = place
    Request = {own, theirs}
    External = {theirs}
    Target = {place}
    TargetOf <- MCTargetOf
    Verification = "ByHash"
    CopiesCanMangle = TRUE
INVARIANT ALostSwapIsFound

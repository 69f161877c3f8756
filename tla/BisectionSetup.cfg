SPECIFICATION Spec
CONSTANTS
    Addon = {1, 2, 3, 4}
    Foreign = 9
    None = None
    Hangar <- SomeHangars
    Latecomer = {4}
    Culprit = {1, 2, 3, 4, 9}
    MaxMishaps = 1
PROPERTIES TheSetupIsRestoredHoweverItEnds

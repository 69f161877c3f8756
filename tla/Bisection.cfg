SPECIFICATION Spec
CONSTANTS
    Addon = {1, 2, 3, 4}
    Foreign = 9
    None = None
    Hangar <- SomeHangars
    Latecomer = {4}
    Culprit = {2, 3, 9}
    MaxMishaps = 1
INVARIANTS TypeOK TheUnitsAreTheCoupledOnes TheCulpritIsNeverRuledOut AnAnswerIsAboutTheRound TheAnnouncedRoundsAreEnough
PROPERTIES TheSetupComesBack

CONSTANTS
    Reprobe = TRUE
    ReprobeWatch = TRUE
SPECIFICATION FairSpec
INVARIANTS TypeOK SessionHasOneOwner
PROPERTIES DisableHolds EveryWaitEnds WakeIsAnswered

CONSTANTS
    Reprobe = TRUE
    ReprobeWatch = TRUE
SPECIFICATION FairSpec
PROPERTIES RetryComes

CONSTANTS
    MaxLines = 4
SPECIFICATION FairSpec
INVARIANTS TypeOK
PROPERTIES RestartedAsItDied SurvivesCrashes CrashIsRestarted
CHECK_DEADLOCK FALSE

SPECIFICATION FairSpec
CONSTANTS
    MaxCommits = 3
    Scales = {1}
    UseTimer = FALSE
    UseFeedback = FALSE
    CanTear = FALSE
    RenderUnfocused = TRUE
    DropsFifo = FALSE
    EmptyBarriers = FALSE
INVARIANTS FifoWaitsForFrame
PROPERTIES EveryCommitSettles
CHECK_DEADLOCK FALSE

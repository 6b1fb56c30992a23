SPECIFICATION Spec
CONSTANTS
    MaxCommits = 2
    Scales = {1, 2}
    UseTimer = TRUE
    UseFeedback = TRUE
    CanTear = TRUE
    RenderUnfocused = TRUE
    DropsFifo = FALSE
    EmptyBarriers = FALSE
INVARIANTS TypeOK AppliedIsReady FeedbackIsTrue
PROPERTIES AppliedInOrder
CHECK_DEADLOCK FALSE

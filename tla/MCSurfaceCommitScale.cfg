SPECIFICATION Spec
CONSTANTS
    MaxCommits = 2
    Scales = {1, 2}
    UseTimer = FALSE
    UseFeedback = FALSE
    CanTear = FALSE
    RenderUnfocused = FALSE
    DropsFifo = FALSE
    EmptyBarriers = FALSE
INVARIANTS CommitAssignsPending
CHECK_DEADLOCK FALSE

CONSTANTS
    Locks = {l1, l2}
    Surfaces = {s1}
    Monitors = {m1, m2}
    Apps = {a1}
    None = None
    AllowRelock = TRUE
    StartLocked = TRUE
    StartCommand = FALSE
    KeyboardUnplugs = TRUE
SPECIFICATION FairSpec
INVARIANTS LockIsAnnounced
PROPERTIES ToldOnce PendingIsAnswered

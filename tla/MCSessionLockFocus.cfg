CONSTANTS
    Locks = {l1, l2}
    Surfaces = {s1, s2}
    Monitors = {m1, m2}
    Apps = {a1, a2}
    None = None
    AllowRelock = FALSE
    StartLocked = TRUE
    StartCommand = TRUE
    KeyboardUnplugs = FALSE
SPECIFICATION Spec
SYMMETRY LockSymmetry
INVARIANTS TypeOK KeyboardReachesLock
PROPERTIES NoAppGainsFocus

SPECIFICATION FairSpec
CONSTANTS
    MaxSyncs = 3
INVARIANTS
    TypeOK
    BlockedAwaitsFence
    PendingFrameIsOwed
PROPERTIES
    DamageIsRendered

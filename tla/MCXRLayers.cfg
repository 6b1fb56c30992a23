CONSTANTS
    Names = {a}
    Other = other
    Motion = {motion}
    Nothing = nothing
    Cap = 4
    Entries <- MCEntries
    DestroyOnStop = FALSE
SPECIFICATION FairSpec
INVARIANTS TypeOK LayersAgree NothingIsLost
PROPERTIES ChannelIsFifo OnlyPendingLayersGo RemovalEnds

CONSTANTS
    MaxDocs = 2
    MaxClock = 4
    CanFail = TRUE
    CanDie = TRUE
    CanRestart = TRUE
SPECIFICATION FairSpec
INVARIANTS LocalCopyWhole RefreshLoadsIt
PROPERTIES OncePerDate DueIsServed
CHECK_DEADLOCK FALSE

CONSTANTS
    MaxDocs = 2
    MaxClock = 4
    CanFail = FALSE
    CanDie = FALSE
    CanRestart = FALSE
SPECIFICATION FairSpec
PROPERTIES ScheduledIsServed
CHECK_DEADLOCK FALSE

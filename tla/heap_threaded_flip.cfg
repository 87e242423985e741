CONSTANTS
    Readers = {r1}
    Writer = writer
    Starter = starter
    Threaded = TRUE
    CanDie = FALSE
    MaxGen = 2
    MaxClock = 1
SPECIFICATION FairSpec
PROPERTIES PublishReaches
CHECK_DEADLOCK FALSE

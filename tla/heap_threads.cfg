CONSTANTS
    Readers = {r1, r2}
    Writer = writer
    Starter = starter
    Threaded = FALSE
    CanDie = FALSE
    MaxGen = 2
    MaxClock = 1
SPECIFICATION FairSpec
INVARIANTS PointerCurrent
PROPERTIES ImplementsService PublishReaches
CHECK_DEADLOCK FALSE

CONSTANTS
    Readers = {r1}
    Writer = writer
    Starter = starter
    Threaded = FALSE
    CanDie = TRUE
    MaxGen = 3
    MaxClock = 2
SPECIFICATION Spec
INVARIANTS TypeOK FrontServable HeapCurrent TornOnlyIfLapped AnswerInForce
PROPERTIES AnswersNeverGoBack
CHECK_DEADLOCK FALSE

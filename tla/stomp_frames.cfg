CONSTANTS
    BlockSize = 2
    MaxFrames = 3
    MaxText = 2
    MaxStalls = 1
    MaxConnects = 2
    OutLength = 3
    MaxOut = 1
    NewlineChoices = {TRUE, FALSE}
SPECIFICATION FairSpec
INVARIANTS DamageContained NothingSkipped OutInStep
PROPERTIES ReadReturns
CHECK_DEADLOCK FALSE

SPECIFICATION ListSpec
CONSTANTS
    Value = {0, 1, 2, 3}
    InitialSize = 2
    MaxTokens = 6
    MaxPieces = 3
    UploadSize = 5
    BufferSize = 2
    Line <- MCLine
    NoFile = NoFile
    Zero = Zero
INVARIANTS NothingLost FoundIffPublished BodyAsSent ListFromRepository AnswersAsListed
CHECK_DEADLOCK FALSE

SPECIFICATION Spec
CHECK_DEADLOCK FALSE
CONSTANTS
    None = None
    Id = {m1, m2}
    Name = {n1}
    Type = {"boolean", "long", "string", "regex", "longArray",
            "stringArray", "regexArray", "longFile", "stringFile", "regexFile", "other"}
    Piece = {"on", "5"}
    Long <- MCLong
    Compiles <- MCCompiles
    Regex <- MCRegex
    List <- MCList
    Remote <- MCRemote
    Local <- MCLocal
    MaxPieces = 2
    MaxModules = 2
    MaxSwitches = 2
    MaxOthers = 1
SYMMETRY Symmetry
INVARIANTS AnswersAsWritten

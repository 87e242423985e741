SPECIFICATION Spec
CHECK_DEADLOCK FALSE
CONSTANTS
    Apps = {a1, a2}
    Self = a1
    SegmentSize = 8
    Structs = {4}
    Strings = {4}
    Services = 2
    MaxBuilds = 3
INVARIANTS BlocksApart FrontIntact ItemCovers RefusedOnlyIfTooLarge MadeOverAnything

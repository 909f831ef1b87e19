SPECIFICATION QuietSpec

CONSTANTS
    MaxEdits = 3
    FoldKeys = TRUE

INVARIANTS
    BuiltOnBase
    UnpushedFlagged

PROPERTIES
    ServerKeepsPulled

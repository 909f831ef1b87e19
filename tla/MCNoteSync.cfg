SPECIFICATION Spec

CONSTANTS
    MaxEdits = 3
    FoldKeys = TRUE

INVARIANTS
    TypeOK
    OnlyCopyKept
    EditLockHeld

PROPERTIES
    MergeKeepsEdits

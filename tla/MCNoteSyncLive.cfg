SPECIFICATION FairSpec

CONSTANTS
    MaxEdits = 2
    FoldKeys = FALSE

PROPERTIES
    SyncEnds
    PageAnswers
    EditLockReleased

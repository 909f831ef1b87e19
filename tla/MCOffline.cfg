SPECIFICATION Spec
CONSTANTS
    FoldKeys = TRUE
    MaxContent = 3
    MaxAttachment = 1
    MaxChanges = 3
    Unmerged = {3}
INVARIANTS TypeOK Kept
PROPERTIES EditsStay

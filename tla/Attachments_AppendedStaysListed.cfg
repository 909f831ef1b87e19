SPECIFICATION Spec
CONSTANTS
    Hash = {h1, h2}
    None = None
    FoldKeys = FALSE
    MaxSize = 3
    MaxGuid = 2
    MaxChanges = 3
    MaxDepth = 1
INVARIANTS AppendedStaysListed
CHECK_DEADLOCK FALSE

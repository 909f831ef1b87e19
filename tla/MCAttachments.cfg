SPECIFICATION Spec
CONSTANTS
    h1 = h1
    h2 = h2
    Hash = {h1, h2}
    None = None
    FoldKeys = TRUE
    MaxSize = 3
    MaxGuid = 2
    MaxChanges = 3
    MaxDepth = 1
SYMMETRY Symmetry
INVARIANTS TypeOK AppendedKept NothingForgotten

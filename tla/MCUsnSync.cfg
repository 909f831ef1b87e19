SPECIFICATION FairSpec
CONSTANTS
    Books = {1, 2}
    Notes = {1, 2}
    BookGuids = {h1}
    NoteGuids = {m1}
    Names = {x, y}
    None = None
    MaxUsn = 3
    ChunkSize = 1
    FoldKeys = FALSE
INVARIANTS TypeOK MirrorUpToUsn
PROPERTIES MirrorsAccount UnpushedKept CatchesUp
CHECK_DEADLOCK FALSE

\* The ids are finite: once every note, guid, notebook and tag has been given out
\* and taken away, nothing is left to happen.
SPECIFICATION Spec
CHECK_DEADLOCK FALSE

CONSTANTS
    Notes = {n1}
    Guids = {g1, g2}
    Notebooks = {b1, b2}
    Tags = {t1}
    FirstNotebook = b1
    None = None

SYMMETRY Symmetry

INVARIANTS
    TypeOK
    Listed
    OneNotebook
    MarksAgree


PROPERTY
    DefaultTakesOver

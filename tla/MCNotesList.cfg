SPECIFICATION Spec
CONSTANTS
    Notes = {n1, n2}
    None = None
    MaxTime = 2
    MaxQueue = 1
SYMMETRY Symmetry
INVARIANTS TypeOK ShowsTheList
PROPERTIES KeptInAList

SPECIFICATION Spec

CONSTANTS
    Notes = {n1, n2, n3}
    Guids = {g1}
    Notebooks = {b1}
    Tags = {}
    FirstNotebook = b1
    None = None

PROPERTY
    NoDuplicate

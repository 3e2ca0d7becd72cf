SPECIFICATION StorageSpec
CONSTANTS
    Contents = {c1, c2}
    Names = {n1}
    Handlers = {h1, h2}
    MaxRows = 2
SYMMETRY Symmetry
CHECK_DEADLOCK FALSE
INVARIANTS  DuplicatesAreEqual

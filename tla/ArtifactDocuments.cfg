SPECIFICATION DocumentSpec
CONSTANTS
    Requests = {q1, q2, q3}
    Generations = {g1, g2}
    Notes = {n1}
    NoDoc = NoDoc
SYMMETRY RequestSymmetry
INVARIANTS DocumentTypeOK NoLostEdit NotesRespected NobodyStuck
PROPERTIES HistoryKept
CHECK_DEADLOCK FALSE

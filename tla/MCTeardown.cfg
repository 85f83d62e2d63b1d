SPECIFICATION Spec
CONSTANTS
    c1 = c1
    c2 = c2
    Users = {u1, u2}
    Admins = {u1, u2}
    Projects = {p1}
    Entries = {e1}
    Callers = {c1, c2}
    Providers = {"pgvector", "qdrant"}
    Nobody = Nobody
    Global = Global
    MaxMoves = 2
    MaxFaults = 1
CHECK_DEADLOCK FALSE
SYMMETRY Symmetry
INVARIANTS
    VectorsAccounted
    NothingLeft
    Governed

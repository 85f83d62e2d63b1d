\* Two handlers and two shelves, one failure.
SPECIFICATION Spec
CONSTANTS
    Ids = {e1}
    Namespaces = {n1, n2}
    Callers = {c1, c2}
    Reconcilers = {r1}
    Reapers = {o1}
    MaxVer = 2
    MaxFaults = 1
    OrphanMaxAttempts = 2
SYMMETRY Symmetry
CHECK_DEADLOCK FALSE
INVARIANTS
    StampIsCurrent

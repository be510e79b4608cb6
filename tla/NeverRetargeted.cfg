CONSTANTS
    p1 = p1  p2 = p2  i1 = i1  i2 = i2  t1 = t1  t2 = t2
    Procs = {p1, p2}
    Items = {i1, i2}
    NoItem = NoItem
    Attempts = {t1, t2}
    NoAttempt = NoAttempt
    MaxEdits = 2
SYMMETRY Symmetry
SPECIFICATION Spec
CHECK_DEADLOCK FALSE
INVARIANTS
    NeverRetargeted

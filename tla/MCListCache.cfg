SPECIFICATION Spec
CONSTANTS
    Keys = {k1, k2, k3}
    k1 = k1
    k2 = k2
    k3 = k3
    Writers = {w1, w2}
    w1 = w1
    w2 = w2
    Readers = {r1, r2}
    r1 = r1
    r2 = r2
    ByPattern = TRUE
    Batch = 2
    ResponseFirst = FALSE
SYMMETRY Symmetry
INVARIANT TypeOK
INVARIANT NoSurvivors

SPECIFICATION FairSpec
CONSTANTS
    Keys = {k1}
    k1 = k1
    Writers = {w1, w2}
    w1 = w1
    w2 = w2
    Readers = {r1, r2}
    r1 = r1
    r2 = r2
    ByPattern = FALSE
    Batch = 1
    ResponseFirst = TRUE
PROPERTY EventuallyFresh

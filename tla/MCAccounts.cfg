SPECIFICATION Spec
CONSTANTS
    Ids = {x1, x2}
    x1 = x1
    x2 = x2
    Values = {v1, v2}
    v1 = v1
    v2 = v2
    Reqs = {r1, r2}
    r1 = r1
    r2 = r2
    Null = Null
    Unset = Unset
    NoAccount = NoAccount
    NoId = NoId
SYMMETRY Symmetry
INVARIANT TypeOK
PROPERTY DirectorySpec
PROPERTY RefusedOnlyByRace
CHECK_DEADLOCK FALSE

SPECIFICATION FairSpec
CONSTANTS
    Instances = {i1, i2}
    i1 = i1
    i2 = i2
    Operators = {o1, o2}
    o1 = o1
    o2 = o2
    MaxEvents = 2
INVARIANT TypeOK
INVARIANT SchemaMatchesVersion
INVARIANT ServesAtHead
PROPERTY RefusedOnlyByRace
PROPERTY AllServe

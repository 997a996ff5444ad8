SPECIFICATION Spec
CONSTANTS
    Users = {u1, u2, u3}
    u1 = u1
    u2 = u2
    u3 = u3
    Conns = {c1, c2}
    c1 = c1
    c2 = c2
    Workers = {w1, w2}
    w1 = w1
    w2 = w2
    NoUser = NoUser
    NoWorker = NoWorker
    MaxMsgs = 3
SYMMETRY Symmetry
INVARIANT TypeOK
INVARIANT RegistryExact
INVARIANT OnlyParties
INVARIANT NeverTwice
INVARIANT ReachesProcess
INVARIANT AllOrNothing
INVARIANT LossHasCause
CHECK_DEADLOCK FALSE

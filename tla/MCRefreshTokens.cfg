SPECIFICATION Spec
CONSTANTS
    Users = {u1, u2}
    u1 = u1
    u2 = u2
    Tokens = {t1, t2, t3}
    t1 = t1
    t2 = t2
    t3 = t3
    Reqs = {r1, r2}
    r1 = r1
    r2 = r2
    NoUser = NoUser
    NoToken = NoToken
    ResponseFirst = FALSE
SYMMETRY Symmetry
INVARIANT TypeOK
INVARIANT RotationAtomic
INVARIANT DeliveredDurable
PROPERTY DeadTokensWindDown
PROPERTY LedgerSpec

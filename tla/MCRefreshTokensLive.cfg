SPECIFICATION FairSpec
CONSTANTS
    Users = {u1}
    u1 = u1
    Tokens = {t1, t2}
    t1 = t1
    t2 = t2
    Reqs = {r1, r2}
    r1 = r1
    r2 = r2
    NoUser = NoUser
    NoToken = NoToken
    ResponseFirst = TRUE
PROPERTY Answered

SPECIFICATION FairSystemSpec
CONSTANTS
    Ids = {x1, x2}
    x1 = x1
    x2 = x2
    Values = {v1}
    v1 = v1
    Reqs = {r1}
    r1 = r1
    Null = Null
    Unset = Unset
    NoAccount = NoAccount
    NoId = NoId
    Children = {c1, c2}
    c1 = c1
    c2 = c2
    NoMail = NoMail
    Restores = TRUE
    MaxLosses = 2
INVARIANT WelcomeTracked
INVARIANT DuplicateHasCause
PROPERTY WelcomeHandled
CHECK_DEADLOCK FALSE

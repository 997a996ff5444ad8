SPECIFICATION Spec
CONSTANTS
    Users = {u1}
    u1 = u1
    Devices = {d1}
    d1 = d1
    Reqs = {r1, r2}
    r1 = r1
    r2 = r2
    NoToken = NoToken
    Lifetime = 2
    Ticks = 2
    MaxSec = 3
SYMMETRY Symmetry
INVARIANT TypeOK
INVARIANT BlacklistHoldsToExp
INVARIANT LateAcceptOnlyInLastSecond

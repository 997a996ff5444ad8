SPECIFICATION Spec
CONSTANTS
    Users = {u1, u2}
    u1 = u1
    u2 = u2
    name = name
    Projects = {p1}
    p1 = p1
    Tasks = {t1, t2}
    t1 = t1
    t2 = t2
    Tags = {g1, g2}
    g1 = g1
    g2 = g2
    OwnerOf <- MCOwnerOf
    ProjectOf <- MCProjectOf
    NameOf <- MCNameOf
    Reqs = {r1, r2}
    r1 = r1
    r2 = r2
    NoRow = NoRow
    NoUser = NoUser
SYMMETRY Symmetry
INVARIANT TypeOK
INVARIANT NoOrphans
INVARIANT TagNamesUnique
PROPERTY OwnersOnly
PROPERTY TookEffect

\* Two requests in flight: sign-ins of one Google identity with two emails and
\* of an Apple identity with the first, refreshes, logout, deletion.
CONSTANTS
    None = None  Gone = Gone
    u1 = u1  u2 = u2  t1 = t1  t2 = t2  t3 = t3  o1 = o1  o2 = o2
    g1 = g1  a1 = a1  e1 = e1  e2 = e2  n1 = n1  n2 = n2
    UserIds = {u1, u2}
    TokenIds = {t1, t2}
    Reqs = {o1, o2}
    Identities <- GoogleAndApple
    Names = {n2}
    RefreshTTL = 0
    MaxTime = 1
SPECIFICATION Spec
INVARIANTS RotationKept
PROPERTIES EndedForGood SignInFindsIdentity NameSettles
CHECK_DEADLOCK FALSE
SYMMETRY Symmetry

\* Two customers, three requests (one may be for two), a shop of two barbers.
CONSTANTS
    None = None
    u1 = u1  u2 = u2  b1 = b1  b2 = b2  s1 = s1  s2 = s2
    q1 = q1  q2 = q2  q3 = q3  o1 = o1  o2 = o2
    Users = {u1, u2}
    Shops = {s1}
    Barbers = {b1, b2}
    Reqs = {q1, q2, q3}
    Ops = {}
    ShopOf <- TwoBarbers
    ChairCount <- OneChair
    BufferMin <- OneStep
    Calls = {"double"}
    Starts = {1, 3}
    Durations = {1}
    DealShops = {s1}
    OpenAt = 0  CloseAt = 6
    Step = 1  Lead = 1  Horizon = 3  Cutoff = 2
    MaxRetries = 0
    MaxTime = 2
SPECIFICATION Spec
INVARIANTS BufferKept OfferedIsBookable
SYMMETRY RaceSymmetry
PROPERTIES Implements
CHECK_DEADLOCK FALSE

\* A request is cancelled while the backlog is confirmed.
CONSTANTS
    None = None
    u1 = u1  u2 = u2  b1 = b1  b2 = b2  s1 = s1  s2 = s2
    q1 = q1  q2 = q2  q3 = q3  o1 = o1  o2 = o2
    Users = {u1}
    Shops = {s1}
    Barbers = {b1}
    Reqs = {q1, q2}
    Ops = {o1, o2}
    ShopOf <- OneBarber
    ChairCount <- OneChair
    BufferMin <- NoBuffer
    Calls = {"cancel", "auto"}
    Starts = {2}
    Durations = {1}
    DealShops = {s1}
    OpenAt = 0  CloseAt = 6
    Step = 1  Lead = 1  Horizon = 3  Cutoff = 2
    MaxRetries = 0
    MaxTime = 2
SPECIFICATION Spec
PROPERTIES AcceptedMeansConfirmed
CHECK_DEADLOCK FALSE

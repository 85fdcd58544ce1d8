\* A shop with a barber who may be deactivated, and a shop of two chairs.
CONSTANTS
    None = None
    u1 = u1  u2 = u2  b1 = b1  b2 = b2  s1 = s1  s2 = s2
    q1 = q1  q2 = q2  q3 = q3  o1 = o1  o2 = o2
    Users = {u1, u2}
    Shops = {s1, s2}
    Barbers = {b1}
    Reqs = {q1, q2}
    Ops = {}
    ShopOf <- OneBarber
    ChairCount <- OneAndTwoChairs
    BufferMin <- TwoShopBuffers
    Calls = {"deactivate"}
    Starts = {1, 2}
    Durations = {1, 2}
    DealShops = {s2}
    OpenAt = 0  CloseAt = 6
    Step = 1  Lead = 1  Horizon = 3  Cutoff = 2
    MaxRetries = 1
    MaxTime = 1
SPECIFICATION FairSpec
INVARIANTS OneActiveBooking ChairCapacity BookableIsOffered
PROPERTIES Answered
CHECK_DEADLOCK FALSE

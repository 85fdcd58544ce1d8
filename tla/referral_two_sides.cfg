\* A booking is invited to a pair while its own invite is being created.
CONSTANTS
    None = None
    r1 = r1  r2 = r2  r3 = r3  s1 = s1  o1 = o1  o2 = o2  o3 = o3
    Bookings = {r1, r2, r3}
    Owner <- OneEach
    ShopAt <- AtOneShop
    EndsAt <- EndLate
    GroupOf <- NoGroups
    Given <- NoneGiven
    Shops = {s1}
    Ops = {o1, o2}
    Amounts = {1}
    CodeTTL = 0  QrTTL = 0  Window = 0
    MaxTime = 1
SPECIFICATION Spec
INVARIANTS OnePairPerBooking
CHECK_DEADLOCK FALSE

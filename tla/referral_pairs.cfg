\* Two singles and a cut of a double, of three customers; two handlers in flight;
\* the offer also ends.
CONSTANTS
    None = None
    r1 = r1  r2 = r2  r3 = r3  s1 = s1  o1 = o1  o2 = o2  o3 = o3
    Bookings = {r1, r2, r3}
    Owner <- OneEach
    ShopAt <- AtOneShop
    EndsAt <- EndLate
    GroupOf <- NoGroups
    Given <- GivenToCut
    Shops = {s1}
    Ops = {o1, o2}
    Amounts = {0, 1}
    CodeTTL = 0  QrTTL = 0  Window = 0
    MaxTime = 1
SPECIFICATION Spec
INVARIANTS TypeOK ScansTogether DiscountOnBoth
PROPERTIES PairForward DiscountOnce
SYMMETRY Symmetry
CHECK_DEADLOCK FALSE

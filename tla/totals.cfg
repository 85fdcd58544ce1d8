\* Two handlers at a time: reviews, their removal, account deletions, while
\* bookings finish, are cancelled and discounted.
CONSTANTS
    None = None
    u1 = u1  u2 = u2  b1 = b1  s1 = s1  k1 = k1  k2 = k2  o1 = o1  o2 = o2
    Users = {u1, u2}
    Barbers = {b1}
    Shops = {s1}
    Bookings = {k1, k2}
    Owner <- OwnerOf
    BarberOf <- ByBarber
    ShopAt <- AtShop
    EndsAt <- Ends
    Price <- Prices
    Deal = 1
    Ratings = {1, 4}
    Reqs = {o1, o2}
    MaxTime = 2
SPECIFICATION Spec
INVARIANTS ArchivedOnce
PROPERTIES ErasureKeepsTotals RatingTrueWhenAlone
CHECK_DEADLOCK FALSE
SYMMETRY Symmetry

\* Two server processes, two sweeps at a time that read one row each, two
\* bookings at the same time.
CONSTANTS
    None = None
    k1 = k1  k2 = k2  s1 = s1  s2 = s2  w1 = w1  w2 = w2
    Bookings = {k1, k2}
    Servers = {s1, s2}
    Sweeps = {w1, w2}
    StartsAt <- SameTime
    ReminderLead = 2
    Take = 1
    MaxTime = 3
SPECIFICATION Spec
INVARIANTS RemindedOnce RemindedInTime
PROPERTIES CancelledStaysQuiet
CHECK_DEADLOCK FALSE
SYMMETRY Symmetry

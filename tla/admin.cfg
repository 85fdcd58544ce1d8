\* Two administrators, two requests at a time, two plans sold to one shop for one
\* month or three, over three dates at the ends of months.
CONSTANTS
    None = None
    a1 = a1  a2 = a2  p1 = p1  p2 = p2  o1 = o1  o2 = o2
    Admins = {a1, a2}
    Plans = {p1, p2}
    Ops = {o1, o2}
    Days <- MCDays
    MonthLength <- MCMonthLength
    Months = {1, 3}
    MaxMonth = 4
    AdminTtl = 1
SPECIFICATION Spec
INVARIANTS OneLeftWhenAlone DisabledFadesOut PaidTime
SYMMETRY Symmetry

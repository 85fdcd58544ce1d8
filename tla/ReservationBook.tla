-------------------------- MODULE ReservationBook ---------------------------
(***************************************************************************)
(* What the booking service promises: a reservation book in which booking, *)
(* confirming, declining and cancelling each happen at one instant.  A     *)
(* reservation is entered only if, at that instant, the customer has no    *)
(* active booking and the barber (or a chair) is free with the grace       *)
(* period kept; afterwards its status only moves forward.  Booking, with   *)
(* its snapshots, retries, stale reads and compare-and-swaps, implements   *)
(* this (Booking!Implements).                                              *)
(***************************************************************************)
EXTENDS Reservations

CONSTANT Times      \* the instants a reservation may start or end at

VARIABLES now, reservation, accounts
bookVars == <<now, reservation, accounts>>

BookInit ==
    /\ now = 0
    /\ reservation = EmptyTable
    /\ accounts = Users

\* A chair shop has room while fewer bookings collide than it has chairs; a
\* barber is free when none of the colliding bookings is theirs.
Room(s, b, from, to) ==
    IF b = None
    THEN Cardinality(Overlapping(reservation, s, from, to)) < ChairCount[s]
    ELSE ShopOf[b] = s /\ b \notin Taken(reservation, s, from, to)

Reserve(q, u, s, b, from, mid, to, st) ==
    /\ reservation[<<q, 1>>] = None /\ reservation[<<q, 2>>] = None
    /\ from < mid /\ mid <= to
    /\ u \in accounts
    /\ ActiveOf(reservation, u, now) = {}
    /\ Room(s, b, from, to)
    /\ reservation' = Inserted(reservation, q, u, s, b, from, mid, to, st)
    /\ UNCHANGED <<now, accounts>>

\* (The entry's fields are read off the rows it leaves in the book.)
ReserveAny ==
    \E q \in Reqs :
        /\ reservation'[<<q, 1>>] # None
        /\ LET r == reservation'[<<q, 1>>]
               to == IF r.grouped THEN reservation'[<<q, 2>>].endsAt ELSE r.endsAt
           IN /\ {r.startsAt, r.endsAt, to} \subseteq Times
              /\ r.user \in Users /\ r.shop \in Shops
              /\ r.barber \in Barbers \cup {None}
              /\ r.status \in HOLDING_STATUSES
              /\ Reserve(q, r.user, r.shop, r.barber, r.startsAt, r.endsAt, to, r.status)

Changed == {i \in Rows(reservation) : reservation'[i] # reservation[i]}

\* Requests are accepted or declined while they are PENDING.
Decide ==
    /\ \A i \in Changed : reservation[i].status = "PENDING"
    /\ \E st \in {"CONFIRMED", "DECLINED"} :
          reservation' = WithStatus(reservation, Changed, st)
    /\ UNCHANGED <<now, accounts>>

\* Holding rows are given up, by the customer or the shop.
Release ==
    /\ Changed \subseteq Holding(reservation)
    /\ reservation' = WithStatus(reservation, Changed, "CANCELLED")
    /\ UNCHANGED <<now, accounts>>

Forget(u) ==
    /\ u \in accounts
    /\ accounts' = accounts \ {u}
    /\ reservation' = Without(reservation, u)
    /\ UNCHANGED now

Pass == now' = now + 1 /\ UNCHANGED <<reservation, accounts>>

BookNext == ReserveAny \/ Decide \/ Release \/ (\E u \in Users : Forget(u)) \/ Pass

BookSpec == BookInit /\ [][BookNext]_bookVars
=============================================================================

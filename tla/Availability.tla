---------------------------- MODULE Availability ----------------------------
(***************************************************************************)
(* The free times shown to customers: computeFreeSlots                     *)
(* (services/availability.ts) and computeDoubleSlots                       *)
(* (services/doubleBooking.ts), read from the same tables the booking      *)
(* handlers write.  They repeat the rules of booking in code of their own; *)
(* the invariants compare the two in every state booking reaches.          *)
(***************************************************************************)
EXTENDS Booking

\* Mutant of Conflicts: the grace period kept on one side only.
ConflictsAfter(r, from, to, gap) == r.startsAt < to /\ r.endsAt + gap > from

\* The gap between a booking and [from, to) would be less than the grace period.
Conflicts(r, from, to, gap) == r.startsAt < to + gap /\ r.endsAt + gap > from

\* The slot-holding bookings near the day; the window of the query is wider
\* than any slot of it.
Existing(s) == {reservation[i] : i \in {j \in Holding(reservation) :
                                          /\ reservation[j].shop = s
                                          /\ reservation[j].startsAt < CloseAt + BufferMin[s]
                                          /\ reservation[j].endsAt > OpenAt - BufferMin[s]}}

\* How many holding bookings are in the way (two rows may be equal but for
\* their id, so rows are counted, not their contents).
InTheWay(s, from, to) ==
    Cardinality({i \in Holding(reservation) :
        /\ reservation[i] \in Existing(s)
        /\ Conflicts(reservation[i], from, to, BufferMin[s])})

\* Some eligible barber, or a chair of a shop without barbers, is free.
SlotFree(s, want, from, to) ==
    LET eligible == IF want = None THEN Present(s) ELSE Present(s) \cap {want}
    IN IF eligible = {} THEN InTheWay(s, from, to) < ChairCount[s]
       ELSE \E b \in eligible : \A r \in Existing(s) :
               r.barber = b => ~Conflicts(r, from, to, BufferMin[s])

\* Mutant of Candidates: a slot that ends at closing time is not offered.
CandidatesEarly(block) ==
    {m \in OpenAt..CloseAt : (m - OpenAt) % Step = 0 /\ m + block < CloseAt}

\* The slot loop: from opening, step by step, while the block fits.
Candidates(block) ==
    {m \in OpenAt..CloseAt : (m - OpenAt) % Step = 0 /\ m + block <= CloseAt}

\* An absent or inactive barber is answered with 404.
computeFreeSlots(s, want, block) ==
    IF want # None /\ want \notin Present(s) THEN {}
    ELSE {m \in Candidates(block) :
            m >= now + Lead /\ SlotFree(s, want, m, m + block)}

\* The same for the back-to-back block of two services, any barber.
computeDoubleSlots(s, block) ==
    IF s \notin DealShops THEN {}
    ELSE {m \in Candidates(block) :
            m >= now + Lead /\ SlotFree(s, None, m, m + block)}

\* What createReservation / createDoubleBooking would answer now to a customer
\* without another booking, in Booking's terms.
Bookable(s, want, from, mid, to) ==
    /\ Admissible(s, want, from, mid, to)
    /\ IF Present(s) = {}
       THEN Cardinality(Overlapping(reservation, s, from, to)) < ChairCount[s]
       ELSE \E b \in (IF want = None THEN Present(s) ELSE {want}) :
               b \notin Taken(reservation, s, from, to)

-----------------------------------------------------------------------------
(* Properties                                                              *)

\* A time the app offers is a time the shop would give: nothing offered is
\* refused with SLOT_TAKEN, OUTSIDE_HOURS or TOO_SOON, whatever bookings,
\* cancellations and barber changes went before.  (Two differences are in the
\* code and excepted: slots are offered beyond the booking horizon, and off the
\* 15-minute grid where the shop opens off it.)
OfferedIsBookable ==
    \A s \in Shops, d \in Durations :
        /\ \A want \in Barbers \cup {None} : \A m \in computeFreeSlots(s, want, d) :
              m % Step = 0 /\ m <= now + Horizon => Bookable(s, want, m, m + d, m + d)
        /\ \A e \in Durations : \A m \in computeDoubleSlots(s, d + e) :
              m % Step = 0 /\ m <= now + Horizon => Bookable(s, None, m, m + d, m + d + e)

\* A time the shop would give is offered: no free chair or barber is hidden
\* from customers, at either end of the day or next to another booking.
\* (For shops that open on the grid.)
BookableIsOffered ==
    OpenAt % Step = 0 =>
    \A s \in Shops, d \in Durations :
        /\ \A want \in Barbers \cup {None} :
              {m \in 0..CloseAt : Bookable(s, want, m, m + d, m + d)}
                \subseteq computeFreeSlots(s, want, d)
        /\ \A e \in Durations :
              {m \in 0..CloseAt : Bookable(s, None, m, m + d, m + d + e)}
                \subseteq computeDoubleSlots(s, d + e)
=============================================================================

---------------------------- MODULE Reservations ----------------------------
(***************************************************************************)
(* The reservation table of prisma/schema.prisma and the questions the     *)
(* services ask of it.  No behaviour: ReservationBook (what the booking    *)
(* service promises) and Booking (what its handlers do) both extend it.    *)
(*                                                                         *)
(* Time is counted in slot steps (SLOT_STEP_MIN, 15 minutes).  Row <<q,k>> *)
(* is the k-th cut inserted by booking request q: a single booking inserts *)
(* <<q,1>>, a "book for two" inserts <<q,1>> and <<q,2>> under one groupId.*)
(***************************************************************************)
EXTENDS Integers, FiniteSets

CONSTANTS Users, Shops, Barbers, Reqs,
          ShopOf,        \* the shop a barber works at
          ChairCount,    \* places of a shop that has no active barber
          BufferMin,     \* grace period of a shop between two bookings
          None           \* an absent value (SQL NULL)

ASSUME ShopAssumption ==
    /\ ShopOf \in [Barbers -> Shops]
    /\ ChairCount \in [Shops -> Nat]
    /\ BufferMin \in [Shops -> Nat]

ASSUME FiniteAssumption == IsFiniteSet(Reqs)

HOLDING_STATUSES == {"PENDING", "CONFIRMED"}
Statuses == HOLDING_STATUSES \cup {"DECLINED", "CANCELLED"}

Ids == Reqs \X {1, 2}

Row == [user: Users, shop: Shops, barber: Barbers \cup {None},
        startsAt: Int, endsAt: Int, status: Statuses, grouped: BOOLEAN]

ASSUME NoneAssumption == None \notin Row /\ None \notin Barbers

EmptyTable == [i \in Ids |-> None]

Rows(table) == {i \in Ids : table[i] # None}
Holding(table) == {i \in Rows(table) : table[i].status \in HOLDING_STATUSES}

\* The rows that make a user's "active booking" at time t.
ActiveOf(table, u, t) ==
    {i \in Holding(table) : table[i].user = u /\ table[i].endsAt > t}

\* Mutant of Overlapping: the grace period forgotten.
OverlappingNoGrace(table, s, from, to) ==
    {i \in Holding(table) : /\ table[i].shop = s
                            /\ table[i].startsAt < to
                            /\ table[i].endsAt > from}

\* The rows that collide with [from, to) at shop s once the grace period is
\* kept on both sides.
Overlapping(table, s, from, to) ==
    {i \in Holding(table) : /\ table[i].shop = s
                            /\ table[i].startsAt < to + BufferMin[s]
                            /\ table[i].endsAt > from - BufferMin[s]}

\* findMany over the overlapping rows, reduced to the barbers that are taken.
Taken(table, s, from, to) ==
    {table[i].barber : i \in Overlapping(table, s, from, to)}

\* One request's insert: the cut [from, mid) and, when mid # to, a second cut
\* [mid, to) of the same group.  from < mid <= to.
Inserted(table, q, u, s, b, from, mid, to, st) ==
    [i \in Ids |->
        IF i = <<q, 1>> \/ (i = <<q, 2>> /\ mid # to)
        THEN [user |-> u, shop |-> s, barber |-> b,
              startsAt |-> IF i[2] = 1 THEN from ELSE mid,
              endsAt   |-> IF i[2] = 1 THEN mid ELSE to,
              status |-> st, grouped |-> mid # to]
        ELSE table[i]]

\* updateMany({ where: id in ids, data: { status: st } })
WithStatus(table, ids, st) ==
    [i \in Ids |-> IF i \in ids THEN [table[i] EXCEPT !.status = st]
                                ELSE table[i]]

\* deleteMany({ where: { userId: u } })
Without(table, u) ==
    [i \in Ids |-> IF table[i] # None /\ table[i].user = u THEN None
                                                          ELSE table[i]]

Intersect(r, s) == r.startsAt < s.endsAt /\ s.startsAt < r.endsAt
=============================================================================

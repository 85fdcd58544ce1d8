------------------------------ MODULE Booking ------------------------------
(***************************************************************************)
(* The booking handlers of the API: createReservation, createDoubleBooking,*)
(* cancelReservation, adminCancelReservation (services/booking.ts,         *)
(* services/doubleBooking.ts), the barber's accept, decline and            *)
(* auto-approve (routes/barber.ts), account deletion as far as it touches  *)
(* reservations (routes/auth.ts) and barber (de)activation by an admin     *)
(* (routes/admin.ts), over one Postgres database.                          *)
(*                                                                         *)
(* Every handler is a sequence of statements; other handlers run between   *)
(* any two of them.  A booking transaction runs at SERIALIZABLE: it reads  *)
(* the snapshot taken by its first statement and, when it commits, loses   *)
(* with P2034 to any booking transaction that committed since and whose    *)
(* rows it should have seen.  All other writes are single READ COMMITTED   *)
(* statements (or one short transaction) that re-check their WHERE clause  *)
(* at the moment of the write.                                             *)
(***************************************************************************)
EXTENDS Reservations

CONSTANTS Ops,           \* concurrent non-booking requests
          Calls,         \* the handlers clients and staff call
          Starts,        \* start times customers ask for, in slot steps
          Durations,     \* service durations
          DealShops,     \* shops with referralDiscount > 0
          OpenAt, CloseAt,
          Step,          \* SLOT_STEP_MIN
          Lead, Horizon, Cutoff,
          MaxRetries,    \* MAX_BOOKING_RETRIES, MAX_RETRIES
          MaxTime        \* bound: the clock stops here

ASSUME ParameterAssumption ==
    /\ Starts \subseteq Nat /\ Durations \subseteq Nat \ {0}
    /\ DealShops \subseteq Shops
    /\ OpenAt \in Nat /\ CloseAt \in Nat /\ Step \in Nat \ {0}
    /\ Lead \in Nat /\ Horizon \in Nat /\ Cutoff \in Nat
    /\ MaxRetries \in Nat /\ MaxTime \in Nat

VARIABLES
    now,           \* Date.now()
    reservation,   \* the Reservation table
    accounts,      \* users that have a User row
    active,        \* barbers with isActive
    auto,          \* barbers with autoApprove
    pc,            \* progress of each booking request
    ask,           \* what the request asked for and loaded before its tx
    tx,            \* what its transaction read and chose
    attempt,       \* retries so far
    op,            \* what each non-booking handler has read
    notices        \* Notification rows about decisions

requests == <<pc, ask, tx, attempt>>
staff == <<active, auto>>
vars == <<now, reservation, accounts, staff, requests, op, notices>>

Ask == [user: Users, shop: Shops, startsAt: Int, midAt: Int, endsAt: Int,
        useBarbers: BOOLEAN, eligible: SUBSET Barbers, autoApprove: SUBSET Barbers,
        at: Nat]
Tx == [seen: SUBSET Ids, barber: Barbers \cup {None}]
NoTx == [seen |-> {}, barber |-> None]
Op == [kind: {"cancel", "adminCancel", "decide-accept", "decide-decline", "toggled", "backlog"},
       ids: SUBSET Ids, seen: Statuses \cup {None},
       barber: Barbers \cup {None}, at: Nat]
Notice == [type: {"BOOKING_ACCEPTED", "BOOKING_DECLINED"}, id: Ids]

InFlight(q) == pc[q] \in {"begin", "commit"}

Init ==
    /\ now = 0
    /\ reservation = EmptyTable
    /\ accounts = Users
    /\ active \in SUBSET Barbers
    /\ auto \in SUBSET Barbers
    /\ pc = [q \in Reqs |-> "idle"]
    /\ ask = [q \in Reqs |-> None]
    /\ tx = [q \in Reqs |-> NoTx]
    /\ attempt = [q \in Reqs |-> 0]
    /\ op = [o \in Ops |-> None]
    /\ notices = {}

-----------------------------------------------------------------------------
(* Booking requests                                                        *)

Answer(q) ==
    /\ pc' = [pc EXCEPT ![q] = "done"]
    /\ ask' = [ask EXCEPT ![q] = None]
    /\ tx' = [tx EXCEPT ![q] = NoTx]
    /\ attempt' = [attempt EXCEPT ![q] = 0]

Present(s) == {b \in active : ShopOf[b] = s}

\* The checks made on the shop as loaded, outside any transaction.
Admissible(s, want, from, mid, to) ==
    /\ want \in Present(s) \cup {None}
    /\ from % Step = 0
    /\ from >= OpenAt /\ to <= CloseAt
    /\ from >= now + Lead
    /\ from <= now + Horizon
    /\ mid # to => s \in DealShops

\* Everything createReservation / createDoubleBooking does before its
\* transaction.  Barbers and their flags are captured here and not read again.
Load(q, u, s, want, from, mid, to) ==
    /\ pc[q] = "idle"
    /\ u \in accounts
    /\ mid # to => "double" \in Calls
    /\ Admissible(s, want, from, mid, to)
    /\ pc' = [pc EXCEPT ![q] = "begin"]
    /\ ask' = [ask EXCEPT ![q] =
                 [user |-> u, shop |-> s,
                  startsAt |-> from, midAt |-> mid, endsAt |-> to,
                  useBarbers |-> Present(s) # {},
                  eligible |-> IF want = None THEN Present(s) ELSE {want},
                  autoApprove |-> auto \cap Present(s),
                  at |-> now]]
    /\ UNCHANGED <<now, reservation, accounts, staff, tx, attempt, op, notices>>

LoadAny(q) ==
    \E u \in Users, s \in Shops, want \in Barbers \cup {None},
       from \in Starts, d1 \in Durations, d2 \in Durations \cup {0} :
       Load(q, u, s, want, from, from + d1, from + d1 + d2)

\* Mutant of HasActive: only bookings at the same shop count.
HasActiveHere(q) ==
    \E i \in ActiveOf(reservation, ask[q].user, now) :
        reservation[i].shop = ask[q].shop

HasActive(q) == ActiveOf(reservation, ask[q].user, now) # {}

Free(q) == ask[q].eligible
             \ Taken(reservation, ask[q].shop, ask[q].startsAt, ask[q].endsAt)

\* Mutant of Full: one booking too many for the chairs.
FullOffByOne(q) ==
    IF ask[q].useBarbers THEN Free(q) = {}
    ELSE Cardinality(Overlapping(reservation, ask[q].shop,
                                 ask[q].startsAt, ask[q].endsAt))
           > ChairCount[ask[q].shop]

Full(q) ==
    IF ask[q].useBarbers THEN Free(q) = {}
    ELSE Cardinality(Overlapping(reservation, ask[q].shop,
                                 ask[q].startsAt, ask[q].endsAt))
           >= ChairCount[ask[q].shop]

\* The transaction's reads, all of the snapshot its first statement takes: the
\* one-active-booking count, the overlapping rows, and the choice of a barber
\* (the order of shop.barbers is unspecified: any free one).
BeginTx(q) ==
    /\ pc[q] = "begin"
    /\ ~HasActive(q)
    /\ ~Full(q)
    /\ \E b \in IF ask[q].useBarbers THEN Free(q) ELSE {None} :
          tx' = [tx EXCEPT ![q] = [seen |-> Rows(reservation), barber |-> b]]
    /\ pc' = [pc EXCEPT ![q] = "commit"]
    /\ UNCHANGED <<now, reservation, accounts, staff, ask, attempt, op, notices>>

\* ONE_ACTIVE_BOOKING or SLOT_TAKEN, thrown inside the transaction.
RefuseTx(q) ==
    /\ pc[q] = "begin"
    /\ HasActive(q) \/ Full(q)
    /\ Answer(q)
    /\ UNCHANGED <<now, reservation, accounts, staff, op, notices>>

\* Mutants of Missed: only the slot is protected; nothing is (READ COMMITTED).
MissedSlotOnly(q) ==
    {i \in Rows(reservation) \ tx[q].seen :
        /\ reservation[i].shop = ask[q].shop
        /\ reservation[i].startsAt < ask[q].endsAt + BufferMin[ask[q].shop]
        /\ reservation[i].endsAt > ask[q].startsAt - BufferMin[ask[q].shop]}

MissedNothing(q) == {}

\* Rows committed since q's snapshot that q's queries would have returned.  The
\* other transaction cannot have seen q's rows either, and both predicates are
\* symmetric, so Postgres lets only one of the two commit.
Missed(q) ==
    {i \in Rows(reservation) \ tx[q].seen :
        \/ reservation[i].user = ask[q].user
        \/ /\ reservation[i].shop = ask[q].shop
           /\ reservation[i].startsAt < ask[q].endsAt + BufferMin[ask[q].shop]
           /\ reservation[i].endsAt > ask[q].startsAt - BufferMin[ask[q].shop]}

SerializationFailure(q) == Missed(q) # {}

\* The no_barber_overlap exclusion constraint, checked against committed rows.
OverlapExclusion(q) ==
    /\ tx[q].barber # None
    /\ \E i \in Holding(reservation) :
          /\ reservation[i].barber = tx[q].barber
          /\ reservation[i].startsAt < ask[q].endsAt
          /\ reservation[i].endsAt > ask[q].startsAt

\* reservation.create, once or twice, and COMMIT.
CommitTx(q) ==
    /\ pc[q] = "commit"
    /\ ~SerializationFailure(q)
    /\ ~OverlapExclusion(q)
    /\ ask[q].user \in accounts
    /\ reservation' =
         Inserted(reservation, q, ask[q].user, ask[q].shop, tx[q].barber,
                  ask[q].startsAt, ask[q].midAt, ask[q].endsAt,
                  IF tx[q].barber \in ask[q].autoApprove THEN "CONFIRMED"
                                                         ELSE "PENDING")
    /\ Answer(q)
    /\ UNCHANGED <<now, accounts, staff, op, notices>>

\* Mutants of AbortTx: one retry too many; retries never counted.
AbortOffByOne(q) ==
    /\ pc[q] = "commit"
    /\ IF attempt[q] <= MaxRetries
       THEN /\ attempt' = [attempt EXCEPT ![q] = @ + 1]
            /\ pc' = [pc EXCEPT ![q] = "begin"]
            /\ tx' = [tx EXCEPT ![q] = NoTx]
            /\ UNCHANGED ask
       ELSE Answer(q)
    /\ UNCHANGED <<now, reservation, accounts, staff, op, notices>>

AbortForever(q) ==
    /\ pc[q] = "commit"
    /\ pc' = [pc EXCEPT ![q] = "begin"]
    /\ tx' = [tx EXCEPT ![q] = NoTx]
    /\ UNCHANGED <<now, reservation, accounts, staff, ask, attempt, op, notices>>

\* P2034: a real conflict, or one Postgres cannot rule out.  The retry runs the
\* transaction again with the arguments loaded before the first attempt.
AbortTx(q) ==
    /\ pc[q] = "commit"
    /\ IF attempt[q] < MaxRetries
       THEN /\ attempt' = [attempt EXCEPT ![q] = @ + 1]
            /\ pc' = [pc EXCEPT ![q] = "begin"]
            /\ tx' = [tx EXCEPT ![q] = NoTx]
            /\ UNCHANGED ask
       ELSE Answer(q)
    /\ UNCHANGED <<now, reservation, accounts, staff, op, notices>>

\* Any other error ends the request: the exclusion constraint (SLOT_TAKEN), the
\* user's row gone (foreign key), the 10 s timeout, a crash of the process.
FailTx(q) ==
    /\ InFlight(q)
    /\ Answer(q)
    /\ UNCHANGED <<now, reservation, accounts, staff, op, notices>>

-----------------------------------------------------------------------------
(* Cancelling                                                              *)

Start(o, kind, ids, seen, b) ==
    /\ op[o] = None
    /\ op' = [op EXCEPT ![o] = [kind |-> kind, ids |-> ids, seen |-> seen,
                                barber |-> b, at |-> now]]

Close(o) == op' = [op EXCEPT ![o] = None]

\* findUnique, the holding-status check and the cutoff of cancelReservation.
CancelRead(o, i) ==
    /\ "cancel" \in Calls
    /\ i \in Holding(reservation)
    /\ reservation[i].status = "CONFIRMED"
          => reservation[i].startsAt - now >= Cutoff
    /\ Start(o, "cancel", {i}, reservation[i].status, None)
    /\ UNCHANGED <<now, reservation, accounts, staff, requests, notices>>

\* The same for adminCancelReservation, which has no cutoff.
AdminCancelRead(o, i) ==
    /\ "adminCancel" \in Calls
    /\ i \in Holding(reservation)
    /\ Start(o, "adminCancel", {i}, reservation[i].status, None)
    /\ UNCHANGED <<now, reservation, accounts, staff, requests, notices>>

\* Mutants of CancelWhere: any holding status instead of the one read; the
\* requested cut only.
CancelWhereHolding(o) ==
    {j \in Holding(reservation) :
        \E i \in op[o].ids : IF reservation[j].grouped THEN j[1] = i[1] ELSE j = i}

CancelWhereOne(o) ==
    {j \in Holding(reservation) \cap op[o].ids :
        reservation[j].grouped \/ reservation[j].status = op[o].seen}

\* groupWhere: the holding rows of a double, or the one row provided its
\* status is still the one that was read.
CancelWhere(o) ==
    {j \in Holding(reservation) :
        \E i \in op[o].ids :
            IF reservation[j].grouped THEN j[1] = i[1]
            ELSE j = i /\ reservation[j].status = op[o].seen}

\* updateMany; zero rows is RESERVATION_CHANGED.
CancelWrite(o) ==
    /\ op[o] # None /\ op[o].kind \in {"cancel", "adminCancel"}
    /\ reservation' = WithStatus(reservation, CancelWhere(o), "CANCELLED")
    /\ Close(o)
    /\ UNCHANGED <<now, accounts, staff, requests, notices>>

-----------------------------------------------------------------------------
(* The barber's decisions                                                  *)

DecideRead(o, i, verdict) ==
    /\ verdict \in Calls
    /\ i \in Rows(reservation)
    /\ reservation[i].barber # None
    /\ reservation[i].status = "PENDING"
    /\ Start(o, IF verdict = "accept" THEN "decide-accept" ELSE "decide-decline",
             {i}, "PENDING", reservation[i].barber)
    /\ UNCHANGED <<now, reservation, accounts, staff, requests, notices>>

\* Mutant of StillPending: the write trusts the earlier read.
StillThere(o) == op[o].ids \cap Rows(reservation)

\* The rows the compare-and-swap still finds PENDING.
StillPending(o) ==
    {i \in op[o].ids : i \in Rows(reservation) /\ reservation[i].status = "PENDING"}

Notify(type, ids) == notices' = notices \cup [type: {type}, id: ids]

\* Mutant of DecideWrite: the count of updated rows is not checked.
DecideUnchecked(o) ==
    /\ op[o] # None /\ op[o].kind \in {"decide-accept", "decide-decline"}
    /\ LET accepted == op[o].kind = "decide-accept" IN
       /\ reservation' = WithStatus(reservation, StillPending(o),
                              IF accepted THEN "CONFIRMED" ELSE "DECLINED")
       /\ Notify(IF accepted THEN "BOOKING_ACCEPTED" ELSE "BOOKING_DECLINED",
                 op[o].ids)
    /\ Close(o)
    /\ UNCHANGED <<now, accounts, staff, requests>>

\* updateMany and notification.create in one transaction; zero rows throws
\* ALREADY_DECIDED and rolls back.
DecideWrite(o) ==
    /\ op[o] # None /\ op[o].kind \in {"decide-accept", "decide-decline"}
    /\ LET accepted == op[o].kind = "decide-accept" IN
       IF StillPending(o) = {} THEN UNCHANGED <<reservation, notices>>
       ELSE /\ reservation' = WithStatus(reservation, StillPending(o),
                                 IF accepted THEN "CONFIRMED" ELSE "DECLINED")
            /\ Notify(IF accepted THEN "BOOKING_ACCEPTED" ELSE "BOOKING_DECLINED",
                      op[o].ids)
    /\ Close(o)
    /\ UNCHANGED <<now, accounts, staff, requests>>

\* PATCH /auto-approve, first statement: the flag.
ToggleAuto(o, b, enabled) ==
    /\ "auto" \in Calls
    /\ auto' = IF enabled THEN auto \cup {b} ELSE auto \ {b}
    /\ IF enabled THEN Start(o, "toggled", {}, None, b)
                  ELSE op[o] = None /\ UNCHANGED op
    /\ UNCHANGED <<now, reservation, accounts, active, requests, notices>>

\* Second statement: the backlog of the barber.
FetchBacklog(o) ==
    /\ op[o] # None /\ op[o].kind = "toggled"
    /\ LET pending == {i \in Rows(reservation) :
                          /\ reservation[i].barber = op[o].barber
                          /\ reservation[i].status = "PENDING"
                          /\ reservation[i].endsAt >= now}
       IN op' = [op EXCEPT ![o] =
                    IF pending = {} THEN None
                    ELSE [@ EXCEPT !.kind = "backlog", !.ids = pending]]
    /\ UNCHANGED <<now, reservation, accounts, staff, requests, notices>>

\* Third: the transaction that confirms what is still PENDING and writes one
\* notification per fetched request.  A fetched request whose user is gone
\* fails the insert (foreign key) and with it the whole transaction.
ConfirmBacklog(o) ==
    /\ op[o] # None /\ op[o].kind = "backlog"
    /\ IF op[o].ids \subseteq Rows(reservation)
       THEN /\ reservation' = WithStatus(reservation, StillPending(o), "CONFIRMED")
            /\ Notify("BOOKING_ACCEPTED", op[o].ids)
       ELSE UNCHANGED <<reservation, notices>>
    /\ Close(o)
    /\ UNCHANGED <<now, accounts, staff, requests>>

\* A crash or a dropped connection between two statements of a handler.
LoseOp(o) ==
    /\ op[o] # None
    /\ Close(o)
    /\ UNCHANGED <<now, reservation, accounts, staff, requests, notices>>

-----------------------------------------------------------------------------
(* The surroundings                                                        *)

\* PATCH /admin/shops/:id sets a barber's isActive.
ToggleActive(b) ==
    /\ "deactivate" \in Calls
    /\ active' = IF b \in active THEN active \ {b} ELSE active \cup {b}
    /\ UNCHANGED <<now, reservation, accounts, auto, requests, op, notices>>

\* DELETE /me: the user's reservations and the user in one transaction; the
\* notifications cascade.
DeleteAccount(u) ==
    /\ "delete" \in Calls
    /\ u \in accounts
    /\ accounts' = accounts \ {u}
    /\ reservation' = Without(reservation, u)
    /\ notices' = {n \in notices : reservation[n.id] # None
                                     /\ reservation[n.id].user # u}
    /\ UNCHANGED <<now, staff, requests, op>>

\* One slot step passes.  A handler spans at most one of them: its transactions
\* are bounded (maxWait 5 s, timeout 10 s, four attempts).
Tick ==
    /\ now < MaxTime
    /\ \A q \in Reqs : InFlight(q) => ask[q].at = now
    /\ \A o \in Ops : op[o] # None => op[o].at = now
    /\ now' = now + 1
    /\ UNCHANGED <<reservation, accounts, staff, requests, op, notices>>

RunTx(q) == BeginTx(q) \/ RefuseTx(q) \/ CommitTx(q) \/ AbortTx(q) \/ FailTx(q)

Handle(o) ==
    \/ \E i \in Ids : CancelRead(o, i) \/ AdminCancelRead(o, i)
    \/ \E i \in Ids, verdict \in {"accept", "decline"} : DecideRead(o, i, verdict)
    \/ \E b \in Barbers, enabled \in BOOLEAN : ToggleAuto(o, b, enabled)
    \/ CancelWrite(o) \/ DecideWrite(o)
    \/ FetchBacklog(o) \/ ConfirmBacklog(o) \/ LoseOp(o)

Next ==
    \/ \E q \in Reqs : LoadAny(q) \/ RunTx(q)
    \/ \E o \in Ops : Handle(o)
    \/ \E b \in Barbers : ToggleActive(b)
    \/ \E u \in Users : DeleteAccount(u)
    \/ Tick

Spec == Init /\ [][Next]_vars

\* The event loop runs every accepted booking request to an answer; nothing
\* obliges clients to call, staff to act or the clock to reach any time.
FairSpec == Spec /\ \A q \in Reqs : WF_vars(RunTx(q))

-----------------------------------------------------------------------------
(* Properties                                                              *)

\* Every variable keeps its type.
TypeOK ==
    /\ now \in 0..MaxTime
    /\ reservation \in [Ids -> Row \cup {None}]
    /\ accounts \subseteq Users
    /\ active \subseteq Barbers /\ auto \subseteq Barbers
    /\ pc \in [Reqs -> {"idle", "begin", "commit", "done"}]
    /\ ask \in [Reqs -> Ask \cup {None}]
    /\ tx \in [Reqs -> Tx]
    /\ attempt \in [Reqs -> 0..MaxRetries]
    /\ op \in [Ops -> Op \cup {None}]
    /\ notices \subseteq Notice

\* ONE_ACTIVE_BOOKING: whatever requests of one customer race each other, at
\* any shops, the unfinished holding rows of a customer belong to one request.
OneActiveBooking ==
    \A u \in Users : \A i, j \in ActiveOf(reservation, u, now) : i[1] = j[1]

Apart(r, s, gap) == r.endsAt + gap <= s.startsAt \/ s.endsAt + gap <= r.startsAt

\* The grace period between two bookings of one barber.  No constraint of the
\* database knows it: only the serializable transaction protects it.
BufferKept ==
    \A i, j \in Holding(reservation) :
        /\ i[1] # j[1]
        /\ reservation[i].barber = reservation[j].barber
        /\ reservation[i].barber # None
        => Apart(reservation[i], reservation[j], BufferMin[reservation[i].shop])

\* A shop without barbers never has more unassigned rows in its chairs at one
\* instant than it has chairs ("covered by the application-level check only").
ChairCapacity ==
    \A s \in Shops, i \in Holding(reservation) :
        LET t == reservation[i].startsAt IN
        Cardinality({j \in Holding(reservation) :
                        /\ reservation[j].shop = s
                        /\ reservation[j].barber = None
                        /\ reservation[j].startsAt <= t
                        /\ reservation[j].endsAt > t}) <= ChairCount[s]

\* A decision is final: CANCELLED and DECLINED rows never change, a CONFIRMED
\* one can only be cancelled.  Cancelling, accepting, declining and the backlog
\* all write on a status read earlier.
DecisionsFinal ==
    [][\A i \in Ids :
          reservation[i] # None /\ reservation'[i] # None =>
             \/ reservation'[i].status = reservation[i].status
             \/ reservation[i].status = "PENDING"
             \/ reservation[i].status = "CONFIRMED"
                   /\ reservation'[i].status = "CANCELLED"]_vars

\* A customer's cancellation, as opposed to an admin's, that lands on row i.
CustomerCancels(i) ==
    /\ \E o \in Ops : op[o] # None /\ op[o].kind = "cancel" /\ op'[o] = None
    /\ reservation[i] # None /\ reservation'[i] # None
    /\ reservation[i].status \in HOLDING_STATUSES
    /\ reservation'[i].status = "CANCELLED"

\* A customer never cancels a CONFIRMED single booking inside the cutoff, even
\* when it was still PENDING as the handler read it.  (One step of slack: the
\* clock may tick between the check and the write.)
CutoffHolds ==
    [][\A i \in Ids :
          CustomerCancels(i) /\ ~reservation[i].grouped
            /\ reservation[i].status = "CONFIRMED"
          => reservation[i].startsAt - now >= Cutoff - 1]_vars

\* Cancelling either cut of a double leaves no holding cut of it behind.
DoubleCancelledWhole ==
    [][\A i, j \in Ids :
          /\ i[1] = j[1] /\ reservation'[i] # None /\ reservation'[j] # None
          /\ reservation[i] # reservation'[i]
          /\ reservation'[i].status = "CANCELLED"
          => reservation'[j].status \notin HOLDING_STATUSES]_vars

\* A customer is told a request was declined exactly when it was.
DeclineTold ==
    \A i \in Ids : [type |-> "BOOKING_DECLINED", id |-> i] \in notices <=>
                   reservation[i] # None /\ reservation[i].status = "DECLINED"

Book == INSTANCE ReservationBook WITH Times <- OpenAt..CloseAt

\* Seen from the table, the clock and the accounts alone, the handlers behave
\* as if each booking were checked and entered at the instant it commits, and
\* each decision and cancellation at the instant of its write.
Implements == Book!BookSpec

\* Every booking request that reaches its transaction is answered: the retry
\* loop ends.
Answered == \A q \in Reqs : InFlight(q) ~> pc[q] = "done"

-----------------------------------------------------------------------------
(* What a comment says and the handlers do not keep                        *)

\* routes/barber.ts on the backlog: "any request cancelled since the fetch is
\* left alone"; a customer told of an acceptance has a CONFIRMED booking.
AcceptedMeansConfirmed ==
    [][\A i \in Ids :
          [type |-> "BOOKING_ACCEPTED", id |-> i] \in notices' \ notices =>
             reservation'[i].status = "CONFIRMED"]_vars
=============================================================================

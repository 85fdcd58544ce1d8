---------------------------- MODULE BookingProofs ---------------------------
(***************************************************************************)
(* Proofs about Booking and Availability, for every number of customers,   *)
(* shops, barbers and concurrent requests: types, the safety of the        *)
(* booking transaction, the atomic book it implements, what holds over the *)
(* life of a reservation, and the free times shown to customers.           *)
(***************************************************************************)
EXTENDS Availability, FiniteSetTheorems, TLAPS

-----------------------------------------------------------------------------
(* The table                                                               *)

Tables == [Ids -> Row \cup {None}]

SameSlot(r, s) ==
    /\ r.user = s.user /\ r.shop = s.shop /\ r.barber = s.barber
    /\ r.startsAt = s.startsAt /\ r.endsAt = s.endsAt /\ r.grouped = s.grouped

\* Every row of the new table was in the old one, at the same place, and holds
\* it only if it did before.
OnlyReleases(old, new) ==
    \A i \in Ids : new[i] # None =>
        /\ old[i] # None
        /\ SameSlot(new[i], old[i])
        /\ new[i].status \in HOLDING_STATUSES => old[i].status \in HOLDING_STATUSES

\* A status update of existing rows leaves a table (updateMany).
LEMMA WithStatusType ==
    ASSUME NEW table \in Tables, NEW ids \in SUBSET Rows(table), NEW st \in Statuses
    PROVE  WithStatus(table, ids, st) \in Tables
BY DEF Tables, WithStatus, Rows, Row

\* Deleting a user's rows leaves a table (deleteMany).
LEMMA WithoutType ==
    ASSUME NEW table \in Tables, NEW u
    PROVE  Without(table, u) \in Tables
BY DEF Tables, Without

\* Inserting a request's cuts leaves a table (reservation.create).
LEMMA InsertedType ==
    ASSUME NEW table \in Tables, NEW q \in Reqs, NEW u \in Users, NEW s \in Shops,
           NEW b \in Barbers \cup {None}, NEW from \in Int, NEW mid \in Int, NEW to \in Int,
           NEW st \in Statuses
    PROVE  Inserted(table, q, u, s, b, from, mid, to, st) \in Tables
BY DEF Tables, Inserted, Row

\* A table released nothing and gained nothing when it stays the same.
LEMMA SameReleases ==
    ASSUME NEW table PROVE OnlyReleases(table, table)
BY DEF OnlyReleases, SameSlot

\* A status update of holding rows moves no row and brings none back.
LEMMA WithStatusReleases ==
    ASSUME NEW table \in Tables, NEW ids \in SUBSET Holding(table), NEW st \in Statuses
    PROVE  OnlyReleases(table, WithStatus(table, ids, st))
BY NoneAssumption DEF OnlyReleases, SameSlot, WithStatus, Tables, Holding, Rows, Row

\* Deleting a user's rows moves no other row.
LEMMA WithoutReleases ==
    ASSUME NEW table \in Tables, NEW u
    PROVE  OnlyReleases(table, Without(table, u))
BY DEF OnlyReleases, SameSlot, Without, Tables

-----------------------------------------------------------------------------
(* Types                                                                   *)

\* A request that reached its transaction knows what it asked for; its cuts
\* follow one another within the opening hours.
AskInv ==
    \A q \in Reqs : InFlight(q) =>
        /\ ask[q] \in Ask
        /\ ask[q].startsAt < ask[q].midAt /\ ask[q].midAt <= ask[q].endsAt
        /\ OpenAt <= ask[q].startsAt /\ ask[q].endsAt <= CloseAt
        /\ \A b \in ask[q].eligible : ShopOf[b] = ask[q].shop

TypeInv == TypeOK /\ AskInv

\* The empty database with idle handlers has the right types.
LEMMA TypeInit == Init => TypeInv
<1> SUFFICES ASSUME Init PROVE TypeInv
  OBVIOUS
<1> USE ParameterAssumption DEF Init
<1>1. TypeOK
  BY DEF TypeOK, EmptyTable, NoTx, Tx
<1>2. AskInv
  BY DEF AskInv, InFlight
<1> QED BY <1>1, <1>2 DEF TypeInv

\* Every action keeps the types.
LEMMA TypeNext == TypeInv /\ [Next]_vars => TypeInv'
<1> SUFFICES ASSUME TypeInv, [Next]_vars PROVE TypeInv'
  OBVIOUS
<1> USE ParameterAssumption, ShopAssumption, NoneAssumption DEF TypeInv
<1>t. reservation \in Tables
  BY DEF TypeOK, Tables
<1>1. ASSUME NEW q \in Reqs, LoadAny(q) PROVE TypeInv'
  <2> PICK u \in Users, s \in Shops, want \in Barbers \cup {None},
           from \in Starts, d1 \in Durations, d2 \in Durations \cup {0} :
           Load(q, u, s, want, from, from + d1, from + d1 + d2)
    BY <1>1 DEF LoadAny
  <2> DEFINE a == [user |-> u, shop |-> s, startsAt |-> from, midAt |-> from + d1,
                   endsAt |-> from + d1 + d2, useBarbers |-> Present(s) # {},
                   eligible |-> IF want = None THEN Present(s) ELSE {want},
                   autoApprove |-> auto \cap Present(s), at |-> now]
  <2>1. /\ from \in Int /\ from + d1 \in Int /\ from + d1 + d2 \in Int
        /\ from < from + d1 /\ from + d1 <= from + d1 + d2
        /\ OpenAt <= from /\ from + d1 + d2 <= CloseAt
    BY DEF Load, Admissible
  <2>2. Present(s) \subseteq Barbers /\ \A b \in Present(s) : ShopOf[b] = s
    BY DEF Present, TypeOK
  <2>3. want \in Present(s) \cup {None}
    BY DEF Load, Admissible
  <2>4. a \in Ask /\ \A b \in a.eligible : ShopOf[b] = a.shop
    <3>1. a.eligible \subseteq Barbers /\ \A b \in a.eligible : ShopOf[b] = s
      BY <2>2, <2>3
    <3>2. now \in Nat /\ auto \cap Present(s) \in SUBSET Barbers
      BY DEF TypeOK
    <3> QED BY <2>1, <3>1, <3>2 DEF Ask
  <2>5. ask' = [ask EXCEPT ![q] = a] /\ pc' = [pc EXCEPT ![q] = "begin"]
    BY DEF Load
  <2> HIDE DEF a
  <2>6. TypeOK'
    <3>1. UNCHANGED <<now, reservation, accounts, staff, tx, attempt, op, notices>>
      BY DEF Load
    <3>2. pc' \in [Reqs -> {"idle", "begin", "commit", "done"}]
      BY <2>5 DEF TypeOK
    <3>3. ask' \in [Reqs -> Ask \cup {None}]
      BY <2>4, <2>5 DEF TypeOK
    <3> QED BY <3>1, <3>2, <3>3 DEF TypeOK, staff
  <2>7. AskInv'
    <3> SUFFICES ASSUME NEW r \in Reqs, InFlight(r)'
                 PROVE  /\ ask'[r] \in Ask
                        /\ ask'[r].startsAt < ask'[r].midAt
                        /\ ask'[r].midAt <= ask'[r].endsAt
                        /\ OpenAt <= ask'[r].startsAt /\ ask'[r].endsAt <= CloseAt
                        /\ \A b \in ask'[r].eligible : ShopOf[b] = ask'[r].shop
      BY DEF AskInv
    <3>1. CASE r = q
      BY <3>1, <2>1, <2>4, <2>5 DEF TypeOK, a
    <3>2. CASE r # q
      BY <3>2, <2>5 DEF TypeOK, AskInv, InFlight
    <3> QED BY <3>1, <3>2
  <2> QED BY <2>6, <2>7
<1>2. ASSUME NEW q \in Reqs, RunTx(q) PROVE TypeInv'
  <2>1. CASE BeginTx(q)
    <3> PICK b \in (IF ask[q].useBarbers THEN Free(q) ELSE {None}) :
             tx' = [tx EXCEPT ![q] = [seen |-> Rows(reservation), barber |-> b]]
      BY <2>1 DEF BeginTx
    <3>1. ask[q] \in Ask
      BY <2>1 DEF BeginTx, AskInv, InFlight
    <3>2. [seen |-> Rows(reservation), barber |-> b] \in Tx
      BY <3>1 DEF Free, Ask, Tx, Rows
    <3>3. TypeOK'
      BY <2>1, <3>2 DEF TypeOK, BeginTx, staff
    <3>4. AskInv'
      BY <2>1 DEF AskInv, InFlight, BeginTx, TypeOK
    <3> QED BY <3>3, <3>4
  <2>2. ASSUME Answer(q), UNCHANGED <<now, accounts, staff, op, notices>>,
               reservation' \in Tables
        PROVE  TypeInv'
    <3>1. NoTx \in Tx
      BY DEF NoTx, Tx
    <3>2. TypeOK'
      BY <2>2, <3>1 DEF TypeOK, Answer, Tables, staff
    <3>3. AskInv'
      BY <2>2 DEF AskInv, InFlight, Answer, TypeOK
    <3> QED BY <3>2, <3>3
  <2>3. CASE RefuseTx(q)
    BY <1>t, <2>2, <2>3 DEF RefuseTx
  <2>4. CASE CommitTx(q)
    <3> DEFINE st == IF tx[q].barber \in ask[q].autoApprove THEN "CONFIRMED" ELSE "PENDING"
    <3>1. ask[q] \in Ask /\ tx[q] \in Tx
      BY <2>4 DEF CommitTx, AskInv, InFlight, TypeOK
    <3>2. st \in Statuses
      BY DEF Statuses, HOLDING_STATUSES
    <3> HIDE DEF st
    <3>3. Inserted(reservation, q, ask[q].user, ask[q].shop, tx[q].barber,
                   ask[q].startsAt, ask[q].midAt, ask[q].endsAt, st) \in Tables
      BY <1>t, <3>1, <3>2, InsertedType DEF Ask, Tx
    <3> QED BY <2>2, <2>4, <3>3 DEF CommitTx, st
  <2>5. CASE AbortTx(q)
    <3>1. CASE attempt[q] < MaxRetries
      <4>1. NoTx \in Tx /\ attempt[q] + 1 \in 0..MaxRetries
        BY <3>1 DEF NoTx, Tx, TypeOK
      <4>2. TypeOK'
        BY <2>5, <3>1, <4>1 DEF TypeOK, AbortTx, staff
      <4>3. AskInv'
        BY <2>5, <3>1 DEF AskInv, InFlight, AbortTx, TypeOK
      <4> QED BY <4>2, <4>3
    <3>2. CASE ~(attempt[q] < MaxRetries)
      BY <1>t, <2>2, <2>5, <3>2 DEF AbortTx
    <3> QED BY <3>1, <3>2
  <2>6. CASE FailTx(q)
    BY <1>t, <2>2, <2>6 DEF FailTx
  <2> QED BY <1>2, <2>1, <2>3, <2>4, <2>5, <2>6 DEF RunTx
<1>3. ASSUME requests' = requests, TypeOK' PROVE TypeInv'
  BY <1>3 DEF requests, AskInv, InFlight
<1>4. ASSUME NEW o \in Ops, Handle(o) PROVE TypeInv'
  <2>1. ASSUME NEW kind \in {"cancel", "adminCancel", "decide-accept", "decide-decline", "toggled"},
               NEW ids \in SUBSET Ids, NEW seen \in Statuses \cup {None},
               NEW b \in Barbers \cup {None}, Start(o, kind, ids, seen, b),
               auto' \in SUBSET Barbers,
               UNCHANGED <<now, reservation, accounts, active, requests, notices>>
        PROVE  TypeInv'
    <3>1. [kind |-> kind, ids |-> ids, seen |-> seen, barber |-> b, at |-> now] \in Op
      BY DEF Op, TypeOK
    <3>2. TypeOK'
      BY <2>1, <3>1 DEF TypeOK, Start, requests
    <3> QED BY <1>3, <2>1, <3>2
  <2>2. ASSUME Close(o), UNCHANGED <<now, accounts, staff, requests>>,
               reservation' \in Tables, notices' \subseteq Notice
        PROVE  TypeInv'
    <3>1. TypeOK'
      BY <2>2 DEF TypeOK, Close, Tables, requests, staff
    <3> QED BY <1>3, <2>2, <3>1
  <2>3. ASSUME NEW type \in {"BOOKING_ACCEPTED", "BOOKING_DECLINED"},
               NEW ids \in SUBSET Ids, Notify(type, ids)
        PROVE  notices' \subseteq Notice
    BY <2>3 DEF Notify, Notice, TypeOK
  <2>4. ASSUME NEW i \in Ids, CancelRead(o, i) \/ AdminCancelRead(o, i) PROVE TypeInv'
    <3>1. reservation[i].status \in Statuses
      BY <2>4 DEF CancelRead, AdminCancelRead, Holding, Rows, TypeOK, Row
    <3> QED BY <2>1, <2>4, <3>1 DEF CancelRead, AdminCancelRead, staff, TypeOK
  <2>5. ASSUME NEW i \in Ids, NEW verdict \in {"accept", "decline"}, DecideRead(o, i, verdict)
        PROVE  TypeInv'
    <3>1. reservation[i].barber \in Barbers \cup {None}
      BY <2>5 DEF DecideRead, Rows, TypeOK, Row
    <3>2. "PENDING" \in Statuses
      BY DEF Statuses, HOLDING_STATUSES
    <3>3. auto' \in SUBSET Barbers
      BY <2>5 DEF DecideRead, staff, TypeOK
    <3>4. CASE verdict = "accept"
      BY <2>1, <2>5, <3>1, <3>2, <3>3, <3>4 DEF DecideRead, staff
    <3>5. CASE verdict = "decline"
      BY <2>1, <2>5, <3>1, <3>2, <3>3, <3>5 DEF DecideRead, staff
    <3> QED BY <3>4, <3>5
  <2>6. ASSUME NEW b \in Barbers, NEW enabled \in BOOLEAN, ToggleAuto(o, b, enabled)
        PROVE  TypeInv'
    <3>1. auto' \in SUBSET Barbers
      BY <2>6 DEF ToggleAuto, TypeOK
    <3>2. CASE enabled
      BY <2>1, <2>6, <3>1, <3>2 DEF ToggleAuto
    <3>3. CASE ~enabled
      <4>1. TypeOK'
        BY <2>6, <3>1, <3>3 DEF ToggleAuto, TypeOK, requests
      <4> QED BY <1>3, <2>6, <4>1 DEF ToggleAuto
    <3> QED BY <3>2, <3>3
  <2>7. CASE CancelWrite(o)
    <3>1. CancelWhere(o) \in SUBSET Rows(reservation)
      BY DEF CancelWhere, Holding
    <3>2. reservation' \in Tables
      BY <1>t, <2>7, <3>1, WithStatusType DEF CancelWrite, Statuses
    <3> QED BY <2>2, <2>7, <3>2 DEF CancelWrite, TypeOK
  <2>8. StillPending(o) \in SUBSET Rows(reservation)
    BY DEF StillPending
  <2>9. CASE DecideWrite(o)
    <3>1. op[o].ids \in SUBSET Ids
      BY <2>9 DEF DecideWrite, TypeOK, Op
    <3>2. reservation' \in Tables
      BY <1>t, <2>8, <2>9, WithStatusType DEF DecideWrite, Statuses, HOLDING_STATUSES
    <3>3. notices' \subseteq Notice
      BY <2>3, <2>9, <3>1 DEF DecideWrite, TypeOK
    <3> QED BY <2>2, <2>9, <3>2, <3>3 DEF DecideWrite
  <2>10. CASE FetchBacklog(o)
    <3>1. op[o] \in Op
      BY <2>10 DEF FetchBacklog, TypeOK
    <3> DEFINE pending == {i \in Rows(reservation) :
                              /\ reservation[i].barber = op[o].barber
                              /\ reservation[i].status = "PENDING"
                              /\ reservation[i].endsAt >= now}
    <3>2. pending \in SUBSET Ids
      BY DEF Rows
    <3>3. op' = [op EXCEPT ![o] = IF pending = {} THEN None
                                  ELSE [@ EXCEPT !.kind = "backlog", !.ids = pending]]
      BY <2>10 DEF FetchBacklog
    <3> HIDE DEF pending
    <3>4. [op[o] EXCEPT !.kind = "backlog", !.ids = pending] \in Op
      BY <3>1, <3>2 DEF Op
    <3>5. TypeOK'
      BY <2>10, <3>3, <3>4 DEF TypeOK, FetchBacklog, requests, staff
    <3> QED BY <1>3, <2>10, <3>5 DEF FetchBacklog
  <2>11. CASE ConfirmBacklog(o)
    <3>1. op[o].ids \in SUBSET Ids
      BY <2>11 DEF ConfirmBacklog, TypeOK, Op
    <3>2. reservation' \in Tables
      BY <1>t, <2>8, <2>11, WithStatusType DEF ConfirmBacklog, Statuses, HOLDING_STATUSES
    <3>3. notices' \subseteq Notice
      BY <2>3, <2>11, <3>1 DEF ConfirmBacklog, TypeOK
    <3> QED BY <2>2, <2>11, <3>2, <3>3 DEF ConfirmBacklog
  <2>12. CASE LoseOp(o)
    BY <1>t, <2>2, <2>12 DEF LoseOp, TypeOK
  <2> QED BY <1>4, <2>4, <2>5, <2>6, <2>7, <2>9, <2>10, <2>11, <2>12 DEF Handle
<1>5. ASSUME NEW b \in Barbers, ToggleActive(b) PROVE TypeInv'
  <2>1. TypeOK'
    BY <1>5 DEF ToggleActive, TypeOK, requests
  <2> QED BY <1>3, <1>5, <2>1 DEF ToggleActive
<1>6. ASSUME NEW u \in Users, DeleteAccount(u) PROVE TypeInv'
  <2>1. reservation' \in Tables
    BY <1>t, <1>6, WithoutType DEF DeleteAccount
  <2>2. TypeOK'
    BY <1>6, <2>1 DEF DeleteAccount, TypeOK, Tables, requests, staff
  <2> QED BY <1>3, <1>6, <2>2 DEF DeleteAccount
<1>7. CASE Tick
  <2>1. TypeOK'
    BY <1>7 DEF Tick, TypeOK, requests, staff
  <2> QED BY <1>3, <1>7, <2>1 DEF Tick
<1>8. CASE UNCHANGED vars
  <2>1. TypeOK'
    BY <1>8 DEF TypeOK, vars, staff, requests
  <2> QED BY <1>3, <1>8, <2>1 DEF vars
<1> QED BY <1>1, <1>2, <1>4, <1>5, <1>6, <1>7, <1>8 DEF Next

\* The inductive form of type correctness.
LEMMA TypeInvariant == Spec => []TypeInv
BY TypeInit, TypeNext, PTL DEF Spec

\* Every variable keeps its type, for every size of the instance.
THEOREM TypeCorrect == Spec => []TypeOK
<1>1. TypeInv => TypeOK
  BY DEF TypeInv
<1> QED BY <1>1, TypeInvariant, PTL

-----------------------------------------------------------------------------
(* Safety of the booking transaction: what it found in its snapshot,       *)
(* together with the rows it was not allowed to miss, is still true of the *)
(* table when it commits.                                                  *)

Colliding(q) ==
    Overlapping(reservation, ask[q].shop, ask[q].startsAt, ask[q].endsAt)

\* What a transaction that has read and not yet committed knows of the rows of
\* its snapshot: none of them is an active booking of its customer, and they
\* leave the chosen barber (or a chair) free.
SnapshotOf(q) ==
    /\ \A i \in tx[q].seen : pc[i[1]] = "done"
    /\ \A i \in tx[q].seen \cap Holding(reservation) :
          reservation[i].user = ask[q].user => reservation[i].endsAt <= now
    /\ IF tx[q].barber = None
       THEN Cardinality(tx[q].seen \cap Colliding(q)) < ChairCount[ask[q].shop]
       ELSE /\ ShopOf[tx[q].barber] = ask[q].shop
            /\ \A i \in tx[q].seen \cap Colliding(q) :
                  reservation[i].barber # tx[q].barber

SnapshotInv == \A q \in Reqs : pc[q] = "commit" => SnapshotOf(q)

\* A row stems from a request that was answered; its barber works at its shop.
RowInv ==
    \A i \in Rows(reservation) :
        /\ pc[i[1]] = "done"
        /\ reservation[i].barber # None
              => ShopOf[reservation[i].barber] = reservation[i].shop

\* The second cut of a double starts when the first ends.
CutInv ==
    \A q \in Reqs :
        reservation[<<q, 1>>] # None /\ reservation[<<q, 2>>] # None =>
            /\ reservation[<<q, 1>>].endsAt = reservation[<<q, 2>>].startsAt
            /\ reservation[<<q, 1>>].grouped /\ reservation[<<q, 2>>].grouped

\* ChairCapacity at every instant.
InChairs(s, t) ==
    {j \in Holding(reservation) : /\ reservation[j].shop = s
                                  /\ reservation[j].barber = None
                                  /\ reservation[j].startsAt <= t
                                  /\ reservation[j].endsAt > t}

ChairInv == \A s \in Shops, t \in Int : Cardinality(InChairs(s, t)) <= ChairCount[s]

BookInv ==
    /\ RowInv /\ CutInv /\ SnapshotInv
    /\ OneActiveBooking /\ BufferKept /\ ChairInv

-----------------------------------------------------------------------------

\* The table is finite.
LEMMA IdsFinite == IsFiniteSet(Ids)
<1>1. IsFiniteSet({1, 2})
  <2>1. IsFiniteSet({1}) /\ {1, 2} = {1} \cup {2}
    BY FS_Singleton
  <2> QED BY <2>1, FS_AddElement
<1> QED BY <1>1, FiniteAssumption, FS_Product DEF Ids

\* A part of a part of the table has no more elements.
LEMMA SmallerSet ==
    ASSUME NEW S \in SUBSET Ids, NEW T \in SUBSET S
    PROVE  /\ Cardinality(S) \in Nat /\ Cardinality(T) \in Nat
           /\ Cardinality(T) <= Cardinality(S)
<1>1. IsFiniteSet(S)
  BY IdsFinite, FS_Subset
<1>2. IsFiniteSet(T) /\ Cardinality(T) <= Cardinality(S)
  BY <1>1, FS_Subset
<1> QED BY <1>1, <1>2, FS_CardinalityType

\* One more element adds at most one.
LEMMA OneMore ==
    ASSUME NEW S \in SUBSET Ids, NEW k, NEW T \in SUBSET (S \cup {k}), k \in Ids
    PROVE  Cardinality(T) <= Cardinality(S) + 1 /\ Cardinality(S) \in Nat
<1>1. IsFiniteSet(S)
  BY IdsFinite, FS_Subset
<1>2. /\ Cardinality(S) \in Nat
      /\ Cardinality(S \cup {k}) <= Cardinality(S) + 1
      /\ Cardinality(S \cup {k}) \in Nat
  <2>1. Cardinality(S) \in Nat
    BY <1>1, FS_CardinalityType
  <2>2. Cardinality(S \cup {k}) = IF k \in S THEN Cardinality(S) ELSE Cardinality(S) + 1
    BY <1>1, FS_AddElement
  <2> QED BY <2>1, <2>2
<1>3. Cardinality(T) <= Cardinality(S \cup {k}) /\ Cardinality(T) \in Nat
  BY SmallerSet
<1> QED BY <1>2, <1>3

\* The empty database satisfies the invariant.
LEMMA BookInit == Init => BookInv
<1> SUFFICES ASSUME Init PROVE BookInv
  OBVIOUS
<1>1. Rows(reservation) = {} /\ Holding(reservation) = {}
  BY DEF Init, EmptyTable, Rows, Holding
<1>2. RowInv /\ CutInv /\ SnapshotInv
  <2>1. \A q \in Reqs : reservation[<<q, 1>>] = None
    BY DEF Init, EmptyTable, Ids
  <2> QED BY <1>1, <2>1 DEF RowInv, CutInv, SnapshotInv, Init
<1>3. OneActiveBooking /\ BufferKept
  BY <1>1 DEF OneActiveBooking, BufferKept, ActiveOf
<1>4. ChairInv
  <2> SUFFICES ASSUME NEW s \in Shops, NEW t \in Int
               PROVE Cardinality(InChairs(s, t)) <= ChairCount[s]
    BY DEF ChairInv
  <2>1. InChairs(s, t) = {}
    BY <1>1 DEF InChairs
  <2>2. ChairCount[s] \in Nat
    BY ShopAssumption
  <2> QED BY <2>1, <2>2, FS_EmptySet
<1> QED BY <1>2, <1>3, <1>4 DEF BookInv

-----------------------------------------------------------------------------
(* Steps that only release rows                                            *)

\* A step that adds no row, answers no request backwards and lets no time run
\* backwards keeps the invariant, as long as every transaction that has read by
\* then either had read before or read in this step.
LEMMA ReleaseKeeps ==
    ASSUME TypeInv, TypeInv', BookInv,
           OnlyReleases(reservation, reservation'),
           now <= now',
           \A r \in Reqs : pc[r] = "done" => pc'[r] = "done",
           \A r \in Reqs : pc'[r] = "commit" =>
              \/ pc[r] = "commit" /\ ask'[r] = ask[r] /\ tx'[r] = tx[r]
              \/ SnapshotOf(r)'
    PROVE  BookInv'
<1> USE NoneAssumption, ShopAssumption
<1>t. reservation \in Tables /\ reservation' \in Tables /\ now \in Int /\ now' \in Int
  BY DEF TypeInv, TypeOK, Tables
<1>1. \A i \in Rows(reservation)' : /\ i \in Ids /\ i[1] \in Reqs
                                    /\ i \in Rows(reservation)
                                    /\ SameSlot(reservation'[i], reservation[i])
                                    /\ reservation[i] \in Row /\ reservation'[i] \in Row
  BY <1>t DEF Rows, OnlyReleases, Ids, Tables
<1>2. \A i \in Holding(reservation)' : i \in Rows(reservation)' /\ i \in Holding(reservation)
  BY <1>1 DEF Holding, OnlyReleases, Rows
<1>3. RowInv'
  BY <1>1 DEF RowInv, BookInv, SameSlot
<1>4. CutInv'
  <2> SUFFICES ASSUME NEW q \in Reqs,
                      reservation'[<<q, 1>>] # None, reservation'[<<q, 2>>] # None
               PROVE  /\ reservation'[<<q, 1>>].endsAt = reservation'[<<q, 2>>].startsAt
                      /\ reservation'[<<q, 1>>].grouped /\ reservation'[<<q, 2>>].grouped
    BY DEF CutInv
  <2>1. <<q, 1>> \in Ids /\ <<q, 2>> \in Ids
    BY DEF Ids
  <2> QED BY <2>1 DEF OnlyReleases, SameSlot, CutInv, BookInv
<1>5. SnapshotInv'
  <2> SUFFICES ASSUME NEW r \in Reqs, pc'[r] = "commit", pc[r] = "commit",
                      ask'[r] = ask[r], tx'[r] = tx[r]
               PROVE  SnapshotOf(r)'
    BY DEF SnapshotInv
  <2>1. SnapshotOf(r) /\ tx[r] \in Tx /\ ask[r] \in Ask
    BY DEF BookInv, SnapshotInv, TypeInv, TypeOK, AskInv, InFlight
  <2>2. (\A i \in tx[r].seen : pc[i[1]] = "done")'
    <3>1. \A i \in tx[r].seen : i[1] \in Reqs
      BY <2>1 DEF Tx, Ids
    <3> QED BY <2>1, <3>1 DEF SnapshotOf
  <2>3. (\A i \in tx[r].seen \cap Holding(reservation) :
            reservation[i].user = ask[r].user => reservation[i].endsAt <= now)'
    <3> SUFFICES ASSUME NEW i \in tx[r].seen, i \in Holding(reservation)',
                        reservation'[i].user = ask[r].user
                 PROVE  reservation'[i].endsAt <= now'
      OBVIOUS
    <3>1. reservation[i].endsAt <= now /\ reservation'[i].endsAt = reservation[i].endsAt
      BY <1>1, <1>2, <2>1 DEF SnapshotOf, SameSlot
    <3>2. reservation[i].endsAt \in Int
      BY <1>1, <1>2 DEF Row
    <3> QED BY <1>t, <3>1, <3>2
  <2>4. (tx[r].seen \cap Colliding(r))' \subseteq tx[r].seen \cap Colliding(r)
    BY <1>1, <1>2 DEF Colliding, Overlapping, SameSlot
  <2>5. CASE tx[r].barber = None
    <3>1. tx[r].seen \cap Colliding(r) \in SUBSET Ids
      BY <2>1 DEF Tx
    <3>2. ChairCount[ask[r].shop] \in Nat
      BY <2>1 DEF Ask
    <3>3. Cardinality((tx[r].seen \cap Colliding(r))') < ChairCount[ask[r].shop]
      <4>1. Cardinality(tx[r].seen \cap Colliding(r)) < ChairCount[ask[r].shop]
        BY <2>1, <2>5 DEF SnapshotOf
      <4>2. /\ Cardinality((tx[r].seen \cap Colliding(r))') \in Nat
            /\ Cardinality(tx[r].seen \cap Colliding(r)) \in Nat
            /\ Cardinality((tx[r].seen \cap Colliding(r))')
                  <= Cardinality(tx[r].seen \cap Colliding(r))
        BY <2>4, <3>1, SmallerSet
      <4> QED BY <3>2, <4>1, <4>2
    <3> QED BY <2>2, <2>3, <2>5, <3>3 DEF SnapshotOf
  <2>6. CASE tx[r].barber # None
    <3>1. ShopOf[tx[r].barber] = ask[r].shop
      BY <2>1, <2>6 DEF SnapshotOf
    <3>2. (\A i \in tx[r].seen \cap Colliding(r) : reservation[i].barber # tx[r].barber)'
      <4> SUFFICES ASSUME NEW i \in (tx[r].seen \cap Colliding(r))'
                   PROVE  reservation'[i].barber # tx[r].barber
        OBVIOUS
      <4>1. reservation[i].barber # tx[r].barber
        BY <2>1, <2>4, <2>6 DEF SnapshotOf
      <4>2. i \in Rows(reservation)'
        BY DEF Colliding, Overlapping, Holding
      <4> QED BY <1>1, <4>1, <4>2 DEF SameSlot
    <3> QED BY <2>2, <2>3, <2>6, <3>1, <3>2 DEF SnapshotOf
  <2> QED BY <2>5, <2>6
<1>6. OneActiveBooking'
  <2> SUFFICES ASSUME NEW u \in Users, NEW i \in ActiveOf(reservation, u, now)',
                      NEW j \in ActiveOf(reservation, u, now)'
               PROVE  i[1] = j[1]
    BY DEF OneActiveBooking
  <2>1. \A k \in ActiveOf(reservation, u, now)' : k \in ActiveOf(reservation, u, now)
    <3> SUFFICES ASSUME NEW k \in ActiveOf(reservation, u, now)'
                 PROVE  k \in ActiveOf(reservation, u, now)
      OBVIOUS
    <3>1. k \in Holding(reservation)' /\ reservation'[k].user = u /\ reservation'[k].endsAt > now'
      BY DEF ActiveOf
    <3>2. k \in Holding(reservation) /\ SameSlot(reservation'[k], reservation[k])
          /\ reservation'[k].endsAt \in Int
      BY <1>1, <1>2, <3>1 DEF Row
    <3>3. reservation[k].user = u /\ reservation[k].endsAt > now
      BY <1>t, <3>1, <3>2 DEF SameSlot
    <3> QED BY <3>2, <3>3 DEF ActiveOf
  <2> QED BY <2>1 DEF OneActiveBooking, BookInv
<1>7. BufferKept'
  BY <1>1, <1>2 DEF BufferKept, BookInv, Apart, SameSlot
<1>8. ChairInv'
  <2> SUFFICES ASSUME NEW s \in Shops, NEW t \in Int
               PROVE  Cardinality(InChairs(s, t)') <= ChairCount[s]
    BY DEF ChairInv
  <2>1. InChairs(s, t)' \subseteq InChairs(s, t)
    BY <1>1, <1>2 DEF InChairs, SameSlot
  <2>2. InChairs(s, t) \in SUBSET Ids
    BY DEF InChairs, Holding, Rows
  <2>3. Cardinality(InChairs(s, t)) <= ChairCount[s] /\ ChairCount[s] \in Nat
    BY DEF ChairInv, BookInv
  <2>4. /\ Cardinality(InChairs(s, t)') \in Nat /\ Cardinality(InChairs(s, t)) \in Nat
        /\ Cardinality(InChairs(s, t)') <= Cardinality(InChairs(s, t))
    BY <2>1, <2>2, SmallerSet
  <2> QED BY <2>3, <2>4
<1> QED BY <1>3, <1>4, <1>5, <1>6, <1>7, <1>8 DEF BookInv
-----------------------------------------------------------------------------
(* The reads and the commit of a booking transaction                       *)

\* What BeginTx reads makes a valid snapshot.
LEMMA BeginReads ==
    ASSUME TypeInv, BookInv, NEW q \in Reqs, BeginTx(q)
    PROVE  SnapshotOf(q)'
<1> USE NoneAssumption, ShopAssumption
<1> PICK b \in (IF ask[q].useBarbers THEN Free(q) ELSE {None}) :
         tx' = [tx EXCEPT ![q] = [seen |-> Rows(reservation), barber |-> b]]
  BY DEF BeginTx
<1>1. /\ ask[q] \in Ask /\ \A c \in ask[q].eligible : ShopOf[c] = ask[q].shop
      /\ ask' = ask /\ reservation' = reservation /\ now' = now
      /\ ~HasActive(q) /\ ~Full(q)
  BY DEF BeginTx, TypeInv, AskInv, InFlight
<1>2. tx'[q] = [seen |-> Rows(reservation), barber |-> b]
  BY DEF TypeInv, TypeOK
<1>3. \A i \in Rows(reservation) : pc'[i[1]] = "done"
  <2> SUFFICES ASSUME NEW i \in Rows(reservation) PROVE pc'[i[1]] = "done"
    OBVIOUS
  <2>1. pc[i[1]] = "done" /\ i[1] \in Reqs
    BY DEF BookInv, RowInv, Rows, Ids
  <2> QED BY <2>1 DEF BeginTx, TypeInv, TypeOK
<1>4. \A i \in Holding(reservation) :
         reservation[i].user = ask[q].user => reservation[i].endsAt <= now
  <2> SUFFICES ASSUME NEW i \in Holding(reservation), reservation[i].user = ask[q].user
               PROVE  reservation[i].endsAt <= now
    OBVIOUS
  <2>1. ~(reservation[i].endsAt > now)
    BY <1>1 DEF HasActive, ActiveOf
  <2>2. reservation[i].endsAt \in Int /\ now \in Int
    BY DEF Holding, Rows, TypeInv, TypeOK, Row
  <2> QED BY <2>1, <2>2
<1>5. Rows(reservation) \cap Colliding(q) = Colliding(q) /\ Colliding(q) \in SUBSET Ids
  BY DEF Colliding, Overlapping, Holding, Rows
<1>6. CASE ask[q].useBarbers
  <2>1. b \in ask[q].eligible /\ b \in Barbers /\ b # None
    BY <1>1, <1>6 DEF Free, Ask
  <2>2. \A i \in Colliding(q) : reservation[i].barber # b
    BY <1>6 DEF Free, Taken, Colliding
  <2> QED BY <1>1, <1>2, <1>3, <1>4, <1>5, <2>1, <2>2 DEF SnapshotOf, Colliding
<1>7. CASE ~ask[q].useBarbers
  <2>1. b = None
    BY <1>7
  <2>2. ~(Cardinality(Colliding(q)) >= ChairCount[ask[q].shop])
    BY <1>1, <1>7 DEF Full, Colliding
  <2>3. Cardinality(Colliding(q)) \in Nat /\ ChairCount[ask[q].shop] \in Nat
    BY <1>1, <1>5, SmallerSet DEF Ask
  <2>4. Cardinality(Colliding(q)) < ChairCount[ask[q].shop]
    BY <2>2, <2>3
  <2>5. (tx[q].seen \cap Colliding(q))' = Colliding(q)
    BY <1>1, <1>2, <1>5 DEF Colliding
  <2>6. Cardinality((tx[q].seen \cap Colliding(q))') < ChairCount[ask'[q].shop]
    BY <1>1, <2>4, <2>5
  <2> QED BY <1>1, <1>2, <1>3, <1>4, <2>1, <2>6 DEF SnapshotOf
<1> QED BY <1>6, <1>7

\* A transaction that may commit finds the customer without an active booking,
\* and its barber (or a chair) free, at the instant of the commit.
LEMMA CommitFinds ==
    ASSUME TypeInv, BookInv, NEW q \in Reqs, CommitTx(q)
    PROVE  /\ ActiveOf(reservation, ask[q].user, now) = {}
           /\ IF tx[q].barber = None
              THEN Cardinality(Colliding(q)) < ChairCount[ask[q].shop]
              ELSE /\ ShopOf[tx[q].barber] = ask[q].shop
                   /\ tx[q].barber \notin Taken(reservation, ask[q].shop,
                                               ask[q].startsAt, ask[q].endsAt)
<1>1. SnapshotOf(q) /\ Missed(q) = {}
  BY DEF CommitTx, BookInv, SnapshotInv, SerializationFailure
<1>2. \A i \in Holding(reservation) : i \in Rows(reservation)
         /\ reservation[i].endsAt \in Int
  BY DEF Holding, Rows, TypeInv, TypeOK, Row
<1>3. ActiveOf(reservation, ask[q].user, now) = {}
  <2> SUFFICES ASSUME NEW i \in ActiveOf(reservation, ask[q].user, now) PROVE FALSE
    OBVIOUS
  <2>1. i \in Holding(reservation) /\ reservation[i].user = ask[q].user
        /\ reservation[i].endsAt > now
    BY DEF ActiveOf
  <2>2. i \in tx[q].seen
    BY <1>1, <1>2, <2>1 DEF Missed
  <2>3. reservation[i].endsAt <= now
    BY <1>1, <2>1, <2>2 DEF SnapshotOf
  <2>4. now \in Int
    BY DEF TypeInv, TypeOK
  <2> QED BY <1>2, <2>1, <2>3, <2>4
<1>4. Colliding(q) = tx[q].seen \cap Colliding(q)
  BY <1>1, <1>2 DEF Missed, Colliding, Overlapping
<1> QED BY <1>1, <1>3, <1>4 DEF SnapshotOf, Taken, Colliding

\* A commit keeps the invariant.
LEMMA CommitKeeps ==
    ASSUME TypeInv, TypeInv', BookInv, NEW q \in Reqs, CommitTx(q)
    PROVE  BookInv'
<1> USE NoneAssumption, ShopAssumption
<1> DEFINE a == ask[q]
           b == tx[q].barber
<1>1. /\ a \in Ask /\ a.startsAt < a.midAt /\ a.midAt <= a.endsAt
      /\ a.startsAt \in Int /\ a.midAt \in Int /\ a.endsAt \in Int
      /\ a.shop \in Shops /\ b \in Barbers \cup {None} /\ now' = now
  BY DEF TypeInv, TypeOK, AskInv, InFlight, CommitTx, Ask, Tx
<1>2. /\ pc[q] = "commit" /\ pc'[q] = "done"
      /\ \A r \in Reqs : r # q => pc'[r] = pc[r] /\ ask'[r] = ask[r] /\ tx'[r] = tx[r]
      /\ \A r \in Reqs : pc[r] = "done" => pc'[r] = "done"
  BY DEF CommitTx, Answer, TypeInv, TypeOK
<1> DEFINE st == IF b \in a.autoApprove THEN "CONFIRMED" ELSE "PENDING"
<1>3. reservation' = Inserted(reservation, q, a.user, a.shop, b,
                              a.startsAt, a.midAt, a.endsAt, st)
  BY DEF CommitTx
<1> HIDE DEF st
<1>4. \A i \in Ids : i[1] \in Reqs /\ (i[1] # q => reservation'[i] = reservation[i])
  BY <1>3 DEF Inserted, Ids
<1>5. \A i \in Ids : i[1] = q => reservation[i] = None
  BY <1>2 DEF BookInv, RowInv, Rows
<1>6. \A i \in Ids : i[1] = q /\ reservation'[i] # None =>
         /\ i = <<q, 1>> \/ i = <<q, 2>>
         /\ reservation'[i].user = a.user /\ reservation'[i].shop = a.shop
         /\ reservation'[i].barber = b
         /\ reservation'[i].grouped = (a.midAt # a.endsAt)
         /\ reservation'[i].startsAt = IF i = <<q, 1>> THEN a.startsAt ELSE a.midAt
         /\ reservation'[i].endsAt = IF i = <<q, 1>> THEN a.midAt ELSE a.endsAt
         /\ i = <<q, 2>> => a.midAt # a.endsAt
  <2> SUFFICES ASSUME NEW i \in Ids, i[1] = q, reservation'[i] # None
               PROVE  /\ i = <<q, 1>> \/ i = <<q, 2>>
                      /\ reservation'[i].user = a.user /\ reservation'[i].shop = a.shop
                      /\ reservation'[i].barber = b
                      /\ reservation'[i].grouped = (a.midAt # a.endsAt)
                      /\ reservation'[i].startsAt = IF i = <<q, 1>> THEN a.startsAt ELSE a.midAt
                      /\ reservation'[i].endsAt = IF i = <<q, 1>> THEN a.midAt ELSE a.endsAt
                      /\ i = <<q, 2>> => a.midAt # a.endsAt
    OBVIOUS
  <2>1. (i = <<q, 1>> /\ i[2] = 1) \/ (i = <<q, 2>> /\ i[2] = 2)
    BY DEF Ids
  <2>2. CASE i = <<q, 1>>
    BY <1>3, <2>1, <2>2 DEF Inserted
  <2>3. CASE i = <<q, 2>>
    <3>1. a.midAt # a.endsAt
      BY <1>3, <1>5, <2>1, <2>3 DEF Inserted
    <3> QED BY <1>3, <2>1, <2>3, <3>1 DEF Inserted
  <2> QED BY <2>1, <2>2, <2>3
<1>7. /\ ActiveOf(reservation, a.user, now) = {}
      /\ IF b = None
         THEN Cardinality(Colliding(q)) < ChairCount[a.shop]
         ELSE ShopOf[b] = a.shop /\ b \notin Taken(reservation, a.shop, a.startsAt, a.endsAt)
  BY CommitFinds
<1> HIDE DEF a, b
<1>8. \A i \in Holding(reservation)' :
         i \in Ids /\ reservation'[i] # None /\ (i[1] # q => i \in Holding(reservation))
  BY <1>4 DEF Holding, Rows
<1>9. \A i \in Holding(reservation) :
         /\ i \in Ids /\ i[1] # q /\ reservation[i] \in Row
         /\ reservation'[i] = reservation[i] /\ i \in Holding(reservation)'
  BY <1>4, <1>5 DEF Holding, Rows, TypeInv, TypeOK
<1>10. RowInv'
  <2> SUFFICES ASSUME NEW i \in Ids, reservation'[i] # None
               PROVE  /\ pc'[i[1]] = "done"
                      /\ reservation'[i].barber # None
                            => ShopOf[reservation'[i].barber] = reservation'[i].shop
    BY DEF RowInv, Rows
  <2>1. CASE i[1] = q
    BY <1>2, <1>6, <1>7, <2>1
  <2>2. CASE i[1] # q
    BY <1>2, <1>4, <2>2 DEF BookInv, RowInv, Rows
  <2> QED BY <2>1, <2>2
<1>11. CutInv'
  <2> SUFFICES ASSUME NEW r \in Reqs,
                      reservation'[<<r, 1>>] # None, reservation'[<<r, 2>>] # None
               PROVE  /\ reservation'[<<r, 1>>].endsAt = reservation'[<<r, 2>>].startsAt
                      /\ reservation'[<<r, 1>>].grouped /\ reservation'[<<r, 2>>].grouped
    BY DEF CutInv
  <2>1. <<r, 1>> \in Ids /\ <<r, 2>> \in Ids
    BY DEF Ids
  <2>2. CASE r = q
    <3>1. a.midAt # a.endsAt /\ <<q, 2>> # <<q, 1>>
      BY <1>6, <2>1, <2>2
    <3> QED BY <1>6, <2>1, <2>2, <3>1
  <2>3. CASE r # q
    BY <1>4, <2>1, <2>3 DEF BookInv, CutInv
  <2> QED BY <2>2, <2>3
<1>12. SnapshotInv'
  <2> SUFFICES ASSUME NEW r \in Reqs, pc'[r] = "commit" PROVE SnapshotOf(r)'
    BY DEF SnapshotInv
  <2>1. r # q /\ SnapshotOf(r) /\ tx'[r] = tx[r] /\ ask'[r] = ask[r] /\ tx[r] \in Tx
    BY <1>2 DEF BookInv, SnapshotInv, TypeInv, TypeOK
  <2>2. \A i \in tx[r].seen : i \in Ids /\ i[1] # q /\ pc'[i[1]] = "done"
                                /\ reservation'[i] = reservation[i]
    BY <1>2, <1>4, <2>1 DEF SnapshotOf, Tx
  <2>3. (tx[r].seen \cap Holding(reservation))' = tx[r].seen \cap Holding(reservation)
    BY <2>1, <2>2 DEF Holding, Rows
  <2>4. (tx[r].seen \cap Colliding(r))' = tx[r].seen \cap Colliding(r)
    BY <2>1, <2>2, <2>3 DEF Colliding, Overlapping
  <2> QED BY <1>1, <2>1, <2>2, <2>3, <2>4 DEF SnapshotOf
<1>13. OneActiveBooking'
  <2> SUFFICES ASSUME NEW u \in Users, NEW i \in ActiveOf(reservation, u, now)',
                      NEW j \in ActiveOf(reservation, u, now)'
               PROVE  i[1] = j[1]
    BY DEF OneActiveBooking
  <2>1. \A k \in ActiveOf(reservation, u, now)' :
           IF k[1] = q THEN u = a.user ELSE k \in ActiveOf(reservation, u, now)
    BY <1>1, <1>4, <1>6, <1>8 DEF ActiveOf
  <2>2. CASE i[1] = q \/ j[1] = q
    BY <1>7, <2>1, <2>2
  <2>3. CASE i[1] # q /\ j[1] # q
    BY <2>1, <2>3 DEF BookInv, OneActiveBooking
  <2> QED BY <2>2, <2>3
<1>14. BufferKept'
  <2>1. ASSUME NEW i \in Holding(reservation)', NEW j \in Holding(reservation),
               i[1] = q, reservation'[i].barber = reservation[j].barber, b # None
        PROVE  /\ reservation'[i].shop = a.shop /\ reservation[j].shop = a.shop
               /\ Apart(reservation'[i], reservation[j], BufferMin[a.shop])
               /\ Apart(reservation[j], reservation'[i], BufferMin[a.shop])
    <3>1. reservation[j].barber = b /\ reservation'[i].shop = a.shop
      BY <1>6, <1>8, <2>1
    <3>2. reservation[j].shop = a.shop
      BY <1>7, <2>1, <3>1 DEF BookInv, RowInv, Holding
    <3>3. j \notin Overlapping(reservation, a.shop, a.startsAt, a.endsAt)
      BY <1>7, <2>1, <3>1 DEF Taken
    <3>4. /\ a.startsAt <= reservation'[i].startsAt /\ reservation'[i].endsAt <= a.endsAt
          /\ reservation'[i].startsAt \in Int /\ reservation'[i].endsAt \in Int
      BY <1>1, <1>6, <1>8, <2>1
    <3>5. /\ reservation[j].startsAt \in Int /\ reservation[j].endsAt \in Int
          /\ BufferMin[a.shop] \in Nat
      BY <1>1, <1>9 DEF Row
    <3>6. ~(/\ reservation[j].startsAt < a.endsAt + BufferMin[a.shop]
            /\ reservation[j].endsAt > a.startsAt - BufferMin[a.shop])
      BY <3>2, <3>3 DEF Overlapping
    <3> QED BY <1>1, <3>1, <3>2, <3>4, <3>5, <3>6 DEF Apart
  <2> SUFFICES ASSUME NEW i \in Holding(reservation)', NEW j \in Holding(reservation)',
                      i[1] # j[1], reservation'[i].barber = reservation'[j].barber,
                      reservation'[i].barber # None
               PROVE  Apart(reservation'[i], reservation'[j], BufferMin[reservation'[i].shop])
    BY DEF BufferKept
  <2>2. CASE i[1] = q
    <3>1. j \in Holding(reservation) /\ reservation'[j] = reservation[j] /\ b # None
      BY <1>6, <1>8, <1>9, <2>2
    <3> QED BY <2>1, <2>2, <3>1
  <2>3. CASE j[1] = q
    <3>1. i \in Holding(reservation) /\ reservation'[i] = reservation[i] /\ b # None
      BY <1>6, <1>8, <1>9, <2>3
    <3> QED BY <2>1, <2>3, <3>1
  <2>4. CASE i[1] # q /\ j[1] # q
    BY <1>8, <1>9, <2>4 DEF BufferKept, BookInv
  <2> QED BY <2>2, <2>3, <2>4
<1>15. ChairInv'
  <2> SUFFICES ASSUME NEW s \in Shops, NEW t \in Int
               PROVE  Cardinality(InChairs(s, t)') <= ChairCount[s]
    BY DEF ChairInv
  <2>1. \A j \in InChairs(s, t)' : j \in Ids /\ (j[1] # q => j \in InChairs(s, t))
    BY <1>4, <1>8 DEF InChairs
  <2>2. InChairs(s, t) \in SUBSET Ids /\ Cardinality(InChairs(s, t)) <= ChairCount[s]
        /\ ChairCount[s] \in Nat
    BY DEF InChairs, Holding, Rows, BookInv, ChairInv
  <2>3. CASE \A j \in InChairs(s, t)' : j[1] # q
    <3>1. InChairs(s, t)' \in SUBSET InChairs(s, t)
      BY <2>1, <2>3
    <3>2. /\ Cardinality(InChairs(s, t)') <= Cardinality(InChairs(s, t))
          /\ Cardinality(InChairs(s, t)') \in Nat /\ Cardinality(InChairs(s, t)) \in Nat
      BY <2>2, <3>1, SmallerSet
    <3> QED BY <2>2, <3>2
  <2>4. ASSUME NEW k \in InChairs(s, t)', k[1] = q
        PROVE  Cardinality(InChairs(s, t)') <= ChairCount[s]
    <3>1. /\ k \in Ids /\ reservation'[k] # None /\ reservation'[k].shop = s
          /\ reservation'[k].barber = None
          /\ reservation'[k].startsAt <= t /\ t < reservation'[k].endsAt
      BY <1>8 DEF InChairs
    <3>2. a.shop = s /\ b = None /\ a.startsAt <= t /\ t < a.endsAt
      BY <1>1, <1>6, <2>4, <3>1
    <3>3. \A j \in InChairs(s, t)' : j[1] = q => j = k
      <4> SUFFICES ASSUME NEW j \in InChairs(s, t)', j[1] = q PROVE j = k
        OBVIOUS
      <4>1. /\ j \in Ids /\ reservation'[j] # None
            /\ reservation'[j].startsAt <= t /\ t < reservation'[j].endsAt
        BY <1>8 DEF InChairs
      <4> QED BY <1>1, <1>6, <2>4, <3>1, <4>1
    <3>4. InChairs(s, t) \subseteq Colliding(q)
      <4> SUFFICES ASSUME NEW j \in InChairs(s, t) PROVE j \in Colliding(q)
        OBVIOUS
      <4>1. /\ j \in Holding(reservation) /\ reservation[j].shop = s
            /\ reservation[j].startsAt <= t /\ reservation[j].endsAt > t
            /\ reservation[j].startsAt \in Int /\ reservation[j].endsAt \in Int
        BY <1>9 DEF InChairs, Row
      <4>2. /\ reservation[j].startsAt < a.endsAt + BufferMin[s]
            /\ reservation[j].endsAt > a.startsAt - BufferMin[s]
        BY <1>1, <3>2, <4>1
      <4> QED BY <3>2, <4>1, <4>2 DEF Colliding, Overlapping, a
    <3>5. Colliding(q) \in SUBSET Ids
      BY DEF Colliding, Overlapping, Holding, Rows
    <3>6. InChairs(s, t)' \in SUBSET (Colliding(q) \cup {k})
      BY <2>1, <3>3, <3>4
    <3>7. Cardinality(InChairs(s, t)') <= Cardinality(Colliding(q)) + 1
          /\ Cardinality(Colliding(q)) \in Nat
      BY <3>1, <3>5, <3>6, OneMore
    <3>8. Cardinality(InChairs(s, t)') \in Nat
      <4>1. InChairs(s, t)' \in SUBSET Ids
        BY <2>1
      <4> QED BY <4>1, SmallerSet
    <3>9. Cardinality(Colliding(q)) < ChairCount[s]
      BY <1>7, <3>2
    <3> QED BY <2>2, <3>7, <3>8, <3>9
  <2> QED BY <2>3, <2>4
<1> QED BY <1>10, <1>11, <1>12, <1>13, <1>14, <1>15 DEF BookInv

\* Every step keeps the invariant.
LEMMA BookStep == TypeInv /\ TypeInv' /\ BookInv /\ [Next]_vars => BookInv'
<1> SUFFICES ASSUME TypeInv, TypeInv', BookInv, [Next]_vars PROVE BookInv'
  OBVIOUS
<1>t. reservation \in Tables /\ now \in Int
  BY DEF TypeInv, TypeOK, Tables
<1>1. ASSUME OnlyReleases(reservation, reservation'), now' = now \/ now' = now + 1,
             requests' = requests
      PROVE  BookInv'
  <2>1. now <= now'
    BY <1>t, <1>1
  <2> QED BY <1>1, <2>1, ReleaseKeeps DEF requests
<1>2. ASSUME reservation' = reservation, now' = now, requests' = requests PROVE BookInv'
  BY <1>1, <1>2, SameReleases
<1>3. ASSUME NEW q \in Reqs, reservation' = reservation, now' = now,
             pc[q] # "done",
             \A r \in Reqs : r # q => pc'[r] = pc[r] /\ ask'[r] = ask[r] /\ tx'[r] = tx[r],
             pc'[q] = "commit" => SnapshotOf(q)'
      PROVE  BookInv'
  <2>1. OnlyReleases(reservation, reservation') /\ now <= now'
    BY <1>t, <1>3, SameReleases
  <2> QED BY <1>3, <2>1, ReleaseKeeps
<1>4. ASSUME NEW q \in Reqs, LoadAny(q) PROVE BookInv'
  <2> PICK u \in Users, s \in Shops, want \in Barbers \cup {None},
           from \in Starts, d1 \in Durations, d2 \in Durations \cup {0} :
           Load(q, u, s, want, from, from + d1, from + d1 + d2)
    BY <1>4 DEF LoadAny
  <2>1. /\ reservation' = reservation /\ now' = now /\ pc[q] # "done" /\ pc'[q] # "commit"
        /\ \A r \in Reqs : r # q => pc'[r] = pc[r] /\ ask'[r] = ask[r] /\ tx'[r] = tx[r]
    BY DEF Load, TypeInv, TypeOK
  <2> QED BY <1>3, <2>1
<1>5. ASSUME NEW q \in Reqs, RunTx(q) PROVE BookInv'
  <2>1. CASE BeginTx(q)
    <3>1. /\ reservation' = reservation /\ now' = now /\ pc[q] # "done"
          /\ \A r \in Reqs : r # q => pc'[r] = pc[r] /\ ask'[r] = ask[r] /\ tx'[r] = tx[r]
      BY <2>1 DEF BeginTx, TypeInv, TypeOK
    <3> QED BY <1>3, <2>1, <3>1, BeginReads
  <2>2. CASE RefuseTx(q) \/ FailTx(q)
    <3>1. /\ reservation' = reservation /\ now' = now /\ pc[q] # "done" /\ pc'[q] # "commit"
          /\ \A r \in Reqs : r # q => pc'[r] = pc[r] /\ ask'[r] = ask[r] /\ tx'[r] = tx[r]
      BY <2>2 DEF RefuseTx, FailTx, Answer, InFlight, TypeInv, TypeOK
    <3> QED BY <1>3, <3>1
  <2>3. CASE AbortTx(q)
    <3>1. /\ reservation' = reservation /\ now' = now /\ pc[q] # "done" /\ pc'[q] # "commit"
          /\ \A r \in Reqs : r # q => pc'[r] = pc[r] /\ ask'[r] = ask[r] /\ tx'[r] = tx[r]
      BY <2>3 DEF AbortTx, Answer, TypeInv, TypeOK
    <3> QED BY <1>3, <3>1
  <2>4. CASE CommitTx(q)
    BY <2>4, CommitKeeps
  <2> QED BY <1>5, <2>1, <2>2, <2>3, <2>4 DEF RunTx
<1>6. ASSUME NEW o \in Ops, Handle(o) PROVE BookInv'
  <2>1. CASE CancelWrite(o)
    <3>1. CancelWhere(o) \in SUBSET Holding(reservation)
      BY DEF CancelWhere
    <3>2. OnlyReleases(reservation, reservation')
      BY <1>t, <2>1, <3>1, WithStatusReleases DEF CancelWrite, Statuses
    <3> QED BY <1>1, <2>1, <3>2 DEF CancelWrite
  <2>2. StillPending(o) \in SUBSET Holding(reservation)
    BY DEF StillPending, Holding, HOLDING_STATUSES
  <2>3. CASE DecideWrite(o)
    <3>1. OnlyReleases(reservation, reservation')
      BY <1>t, <2>2, <2>3, WithStatusReleases, SameReleases
         DEF DecideWrite, Statuses, HOLDING_STATUSES
    <3> QED BY <1>1, <2>3, <3>1 DEF DecideWrite
  <2>4. CASE ConfirmBacklog(o)
    <3>1. OnlyReleases(reservation, reservation')
      BY <1>t, <2>2, <2>4, WithStatusReleases, SameReleases
         DEF ConfirmBacklog, Statuses, HOLDING_STATUSES
    <3> QED BY <1>1, <2>4, <3>1 DEF ConfirmBacklog
  <2>5. CASE FetchBacklog(o) \/ LoseOp(o)
    BY <1>2, <2>5 DEF FetchBacklog, LoseOp
  <2>6. ASSUME NEW i \in Ids, CancelRead(o, i) \/ AdminCancelRead(o, i) PROVE BookInv'
    BY <1>2, <2>6 DEF CancelRead, AdminCancelRead
  <2>7. ASSUME NEW i \in Ids, NEW verdict \in {"accept", "decline"}, DecideRead(o, i, verdict)
        PROVE  BookInv'
    BY <1>2, <2>7 DEF DecideRead
  <2>8. ASSUME NEW b \in Barbers, NEW enabled \in BOOLEAN, ToggleAuto(o, b, enabled)
        PROVE  BookInv'
    BY <1>2, <2>8 DEF ToggleAuto
  <2> QED BY <1>6, <2>1, <2>3, <2>4, <2>5, <2>6, <2>7, <2>8 DEF Handle
<1>7. ASSUME NEW b \in Barbers, ToggleActive(b) PROVE BookInv'
  BY <1>2, <1>7 DEF ToggleActive
<1>8. ASSUME NEW u \in Users, DeleteAccount(u) PROVE BookInv'
  <2>1. OnlyReleases(reservation, reservation')
    BY <1>t, <1>8, WithoutReleases DEF DeleteAccount
  <2> QED BY <1>1, <1>8, <2>1 DEF DeleteAccount
<1>9. CASE Tick
  BY <1>1, <1>9, SameReleases DEF Tick
<1>10. CASE UNCHANGED vars
  BY <1>2, <1>10 DEF vars
<1> QED BY <1>4, <1>5, <1>6, <1>7, <1>8, <1>9, <1>10 DEF Next

\* The invariant of the booking transaction holds throughout.
LEMMA BookInvariant == Spec => []BookInv
<1>1. TypeInv /\ BookInv /\ [Next]_vars => (TypeInv /\ BookInv)'
  BY TypeNext, BookStep
<1> QED BY <1>1, TypeInit, BookInit, PTL DEF Spec

-----------------------------------------------------------------------------
(* Safety                                                                  *)

\* However requests race, retry, abort and crash, at any number of shops, a
\* customer never has active bookings of two requests (ONE_ACTIVE_BOOKING).
THEOREM OneActive == Spec => []OneActiveBooking
<1>1. BookInv => OneActiveBooking
  BY DEF BookInv
<1> QED BY <1>1, BookInvariant, PTL

\* The grace period between two bookings of a barber, which no constraint of
\* the database protects, is never lost to a race.
THEOREM Buffers == Spec => []BufferKept
<1>1. BookInv => BufferKept
  BY DEF BookInv
<1> QED BY <1>1, BookInvariant, PTL

\* A shop without barbers never has more bookings in its chairs than chairs,
\* although no constraint of the database counts them.
THEOREM Chairs == Spec => []ChairCapacity
<1>1. TypeInv /\ BookInv => ChairCapacity
  <2> SUFFICES ASSUME TypeInv, BookInv, NEW s \in Shops, NEW i \in Holding(reservation)
               PROVE  Cardinality(InChairs(s, reservation[i].startsAt)) <= ChairCount[s]
    BY DEF ChairCapacity, InChairs
  <2>1. reservation[i].startsAt \in Int
    BY DEF Holding, Rows, TypeInv, TypeOK, Row
  <2> QED BY <2>1 DEF BookInv, ChairInv
<1> QED BY <1>1, TypeInvariant, BookInvariant, PTL

-----------------------------------------------------------------------------
(* The handlers implement the atomic book of ReservationBook               *)

\* The empty database is the empty book.
LEMMA BookingInit == Init => Book!BookInit
BY DEF Init, Book!BookInit, EmptyTable, Book!EmptyTable, Ids, Book!Ids

\* (The book's instance counts with a copy of Cardinality.)
LEMMA SameCount == ASSUME NEW S PROVE Book!Cardinality(S) = Cardinality(S)
BY DEF Book!Cardinality, Cardinality

\* A commit enters the request into the book, at the instant of the commit.
LEMMA CommitReserves ==
    ASSUME TypeInv, TypeInv', BookInv, NEW q \in Reqs, CommitTx(q)
    PROVE  Book!ReserveAny
<1> USE NoneAssumption, ShopAssumption, ParameterAssumption
<1> DEFINE a == ask[q]
           b == tx[q].barber
           st == IF b \in a.autoApprove THEN "CONFIRMED" ELSE "PENDING"
<1>1. /\ a \in Ask /\ a.startsAt < a.midAt /\ a.midAt <= a.endsAt
      /\ OpenAt <= a.startsAt /\ a.endsAt <= CloseAt
      /\ a.startsAt \in Int /\ a.midAt \in Int /\ a.endsAt \in Int
      /\ a.shop \in Shops /\ b \in Barbers \cup {None} /\ a.user \in Users
      /\ st \in HOLDING_STATUSES
  BY DEF TypeInv, TypeOK, AskInv, InFlight, CommitTx, Ask, Tx, HOLDING_STATUSES
<1>2. /\ reservation' = Inserted(reservation, q, a.user, a.shop, b,
                                 a.startsAt, a.midAt, a.endsAt, st)
      /\ a.user \in accounts
      /\ UNCHANGED <<now, accounts>>
  BY DEF CommitTx
<1>3. <<q, 1>> \in Ids /\ <<q, 2>> \in Ids
  BY DEF Ids
<1>4. reservation[<<q, 1>>] = None /\ reservation[<<q, 2>>] = None
  BY <1>3 DEF CommitTx, BookInv, RowInv, Rows
<1>5. /\ ActiveOf(reservation, a.user, now) = {}
      /\ IF b = None
         THEN Cardinality(Colliding(q)) < ChairCount[a.shop]
         ELSE ShopOf[b] = a.shop /\ b \notin Taken(reservation, a.shop, a.startsAt, a.endsAt)
  BY CommitFinds
<1>6. Book!ActiveOf(reservation, a.user, now) = {}
  BY <1>5 DEF ActiveOf, Book!ActiveOf, Holding, Book!Holding, Rows, Book!Rows, Ids, Book!Ids,
              HOLDING_STATUSES, Book!HOLDING_STATUSES
<1>7. Book!Overlapping(reservation, a.shop, a.startsAt, a.endsAt) = Colliding(q)
  BY DEF Colliding, Overlapping, Book!Overlapping, Holding, Book!Holding, Rows, Book!Rows,
         Ids, Book!Ids, HOLDING_STATUSES, Book!HOLDING_STATUSES
<1>8. Book!Room(a.shop, b, a.startsAt, a.endsAt)
  <2>1. Book!Taken(reservation, a.shop, a.startsAt, a.endsAt)
           = Taken(reservation, a.shop, a.startsAt, a.endsAt)
    BY <1>7 DEF Taken, Book!Taken, Colliding
  <2>2. Book!Cardinality(Colliding(q)) = Cardinality(Colliding(q))
    BY SameCount
  <2> QED BY <1>5, <1>7, <2>1, <2>2 DEF Book!Room
<1>9. reservation' = Book!Inserted(reservation, q, a.user, a.shop, b,
                                   a.startsAt, a.midAt, a.endsAt, st)
  BY <1>2 DEF Inserted, Book!Inserted, Ids, Book!Ids
<1>10. reservation'[<<q, 1>>] =
          [user |-> a.user, shop |-> a.shop, barber |-> b, startsAt |-> a.startsAt,
           endsAt |-> a.midAt, status |-> st, grouped |-> a.midAt # a.endsAt]
  BY <1>2, <1>3 DEF Inserted
<1>11. a.midAt # a.endsAt => reservation'[<<q, 2>>].endsAt = a.endsAt
  BY <1>2, <1>3 DEF Inserted
<1>12. reservation'[<<q, 1>>] # None
  <2>1. reservation'[<<q, 1>>] \in Row
    BY <1>1, <1>10 DEF Row, Statuses
  <2> QED BY <2>1
<1>13. Book!Reserve(q, a.user, a.shop, b, a.startsAt, a.midAt, a.endsAt, st)
  BY <1>1, <1>2, <1>4, <1>6, <1>8, <1>9 DEF Book!Reserve
<1> HIDE DEF a, b, st
<1> DEFINE r == reservation'[<<q, 1>>]
           to == IF r.grouped THEN reservation'[<<q, 2>>].endsAt ELSE r.endsAt
<1>14. /\ r.user = a.user /\ r.shop = a.shop /\ r.barber = b /\ r.startsAt = a.startsAt
       /\ r.endsAt = a.midAt /\ r.status = st /\ r.grouped = (a.midAt # a.endsAt)
  BY <1>10
<1>15. to = a.endsAt
  BY <1>11, <1>14
<1>16. {r.startsAt, r.endsAt, to} \subseteq OpenAt..CloseAt
  BY <1>1, <1>14, <1>15
<1> HIDE DEF r, to
<1>17. /\ r.user \in Users /\ r.shop \in Shops /\ r.barber \in Barbers \cup {None}
       /\ r.status \in Book!HOLDING_STATUSES
       /\ Book!Reserve(q, r.user, r.shop, r.barber, r.startsAt, r.endsAt, to, r.status)
  BY <1>1, <1>13, <1>14, <1>15 DEF HOLDING_STATUSES, Book!HOLDING_STATUSES
<1> QED BY <1>12, <1>16, <1>17 DEF Book!ReserveAny, r, to

\* An update of rows whose status it changes, seen from the book.
LEMMA UpdateChanges ==
    ASSUME TypeInv, NEW ids \in SUBSET Rows(reservation), NEW st \in Statuses,
           \A i \in ids : reservation[i].status # st,
           reservation' = WithStatus(reservation, ids, st)
    PROVE  Book!Changed = ids /\ reservation' = Book!WithStatus(reservation, ids, st)
<1> USE NoneAssumption
<1>1. \A i \in Rows(reservation) : i \in Ids /\ reservation[i] \in Row
  BY DEF Rows, TypeInv, TypeOK
<1>2. \A i \in ids : reservation'[i].status = st
  BY <1>1 DEF WithStatus, Row
<1>3. \A i \in Rows(reservation) \ ids : reservation'[i] = reservation[i]
  BY <1>1 DEF WithStatus
<1>4. Book!Changed = ids
  BY <1>2, <1>3 DEF Book!Changed, Rows, Book!Rows, Ids, Book!Ids
<1> QED BY <1>4 DEF WithStatus, Book!WithStatus, Ids, Book!Ids

\* Every step of the handlers is a step of the book or leaves it alone.
LEMMA BookingStep ==
    TypeInv /\ TypeInv' /\ BookInv /\ [Next]_vars => [Book!BookNext]_(Book!bookVars)
<1> SUFFICES ASSUME TypeInv, TypeInv', BookInv, [Next]_vars
             PROVE  Book!BookNext \/ UNCHANGED <<now, reservation, accounts>>
  BY DEF Book!bookVars
<1>s. "PENDING" \in Statuses /\ "CONFIRMED" \in Statuses
      /\ "DECLINED" \in Statuses /\ "CANCELLED" \in Statuses
  BY DEF Statuses, HOLDING_STATUSES
<1>1. ASSUME NEW q \in Reqs, LoadAny(q) PROVE UNCHANGED <<now, reservation, accounts>>
  BY <1>1 DEF LoadAny, Load
<1>2. ASSUME NEW q \in Reqs, RunTx(q)
      PROVE  Book!BookNext \/ UNCHANGED <<now, reservation, accounts>>
  <2>1. CASE CommitTx(q)
    BY <2>1, CommitReserves DEF Book!BookNext
  <2>2. CASE BeginTx(q) \/ RefuseTx(q) \/ AbortTx(q) \/ FailTx(q)
    BY <2>2 DEF BeginTx, RefuseTx, AbortTx, FailTx
  <2> QED BY <1>2, <2>1, <2>2 DEF RunTx
<1>3. ASSUME NEW o \in Ops, Handle(o)
      PROVE  Book!BookNext \/ UNCHANGED <<now, reservation, accounts>>
  <2>1. CASE CancelWrite(o)
    <3>1. CancelWhere(o) \in SUBSET Holding(reservation)
      BY DEF CancelWhere
    <3>2. /\ CancelWhere(o) \in SUBSET Rows(reservation)
          /\ \A i \in CancelWhere(o) : reservation[i].status # "CANCELLED"
      BY <3>1 DEF Holding, HOLDING_STATUSES
    <3>3. /\ Book!Changed = CancelWhere(o)
          /\ reservation' = Book!WithStatus(reservation, CancelWhere(o), "CANCELLED")
      BY <1>s, <2>1, <3>2, UpdateChanges DEF CancelWrite
    <3>4. CancelWhere(o) \subseteq Book!Holding(reservation)
      BY <3>1 DEF Holding, Book!Holding, Rows, Book!Rows, Ids, Book!Ids,
                  HOLDING_STATUSES, Book!HOLDING_STATUSES
    <3> QED BY <2>1, <3>3, <3>4 DEF CancelWrite, Book!Release, Book!BookNext
  <2>2. ASSUME NEW st \in {"CONFIRMED", "DECLINED"}, UNCHANGED <<now, accounts>>,
               reservation' = WithStatus(reservation, StillPending(o), st)
        PROVE  Book!BookNext
    <3>1. /\ StillPending(o) \in SUBSET Rows(reservation)
          /\ \A i \in StillPending(o) : reservation[i].status = "PENDING"
      BY DEF StillPending
    <3>2. /\ Book!Changed = StillPending(o)
          /\ reservation' = Book!WithStatus(reservation, StillPending(o), st)
      BY <1>s, <2>2, <3>1, UpdateChanges
    <3> QED BY <2>2, <3>1, <3>2 DEF Book!Decide, Book!BookNext
  <2>3. CASE DecideWrite(o)
    BY <2>2, <2>3 DEF DecideWrite
  <2>4. CASE ConfirmBacklog(o)
    BY <2>2, <2>4 DEF ConfirmBacklog
  <2>5. CASE FetchBacklog(o) \/ LoseOp(o)
    BY <2>5 DEF FetchBacklog, LoseOp
  <2>6. ASSUME NEW i \in Ids, CancelRead(o, i) \/ AdminCancelRead(o, i)
        PROVE  UNCHANGED <<now, reservation, accounts>>
    BY <2>6 DEF CancelRead, AdminCancelRead
  <2>7. ASSUME NEW i \in Ids, NEW verdict \in {"accept", "decline"}, DecideRead(o, i, verdict)
        PROVE  UNCHANGED <<now, reservation, accounts>>
    BY <2>7 DEF DecideRead
  <2>8. ASSUME NEW b \in Barbers, NEW enabled \in BOOLEAN, ToggleAuto(o, b, enabled)
        PROVE  UNCHANGED <<now, reservation, accounts>>
    BY <2>8 DEF ToggleAuto
  <2> QED BY <1>3, <2>1, <2>3, <2>4, <2>5, <2>6, <2>7, <2>8 DEF Handle
<1>4. ASSUME NEW b \in Barbers, ToggleActive(b) PROVE UNCHANGED <<now, reservation, accounts>>
  BY <1>4 DEF ToggleActive
<1>5. ASSUME NEW u \in Users, DeleteAccount(u) PROVE Book!BookNext
  <2>1. Book!Forget(u)
    BY <1>5 DEF DeleteAccount, Book!Forget, Without, Book!Without, Ids, Book!Ids
  <2> QED BY <2>1 DEF Book!BookNext
<1>6. CASE Tick
  BY <1>6 DEF Tick, Book!Pass, Book!BookNext
<1>7. CASE UNCHANGED vars
  BY <1>7 DEF vars
<1> QED BY <1>1, <1>2, <1>3, <1>4, <1>5, <1>6, <1>7 DEF Next

\* For any customers, shops, barbers and requests, the handlers with their
\* snapshots, retries and stale reads implement the book in which every booking
\* is checked and entered at one instant.
THEOREM Refinement == Spec => Implements
<1>1. Spec => Book!BookSpec
  BY BookingInit, BookingStep, TypeInvariant, BookInvariant, PTL DEF Spec, Book!BookSpec
<1> QED BY <1>1 DEF Implements

-----------------------------------------------------------------------------
(* The life of a reservation                                               *)

Final(old, new) ==
    \A i \in Ids : old[i] # None /\ new[i] # None =>
        \/ new[i].status = old[i].status
        \/ old[i].status = "PENDING"
        \/ old[i].status = "CONFIRMED" /\ new[i].status = "CANCELLED"

\* No step undoes a decision.
LEMMA FinalStep == TypeInv /\ BookInv /\ [Next]_vars => Final(reservation, reservation')
<1> SUFFICES ASSUME TypeInv, BookInv, [Next]_vars PROVE Final(reservation, reservation')
  OBVIOUS
<1> USE NoneAssumption
<1>1. ASSUME reservation' = reservation PROVE Final(reservation, reservation')
  BY <1>1 DEF Final
<1>2. ASSUME NEW q \in Reqs, LoadAny(q) \/ RunTx(q) PROVE Final(reservation, reservation')
  <2>1. CASE CommitTx(q)
    <3>1. \A i \in Ids : reservation[i] # None => reservation'[i] = reservation[i]
      <4> SUFFICES ASSUME NEW i \in Ids, reservation[i] # None
                   PROVE  reservation'[i] = reservation[i]
        OBVIOUS
      <4>1. i # <<q, 1>> /\ i # <<q, 2>>
        BY <2>1 DEF CommitTx, BookInv, RowInv, Rows
      <4> QED BY <2>1, <4>1 DEF CommitTx, Inserted
    <3> QED BY <3>1 DEF Final
  <2>2. CASE LoadAny(q) \/ BeginTx(q) \/ RefuseTx(q) \/ AbortTx(q) \/ FailTx(q)
    BY <1>1, <2>2 DEF LoadAny, Load, BeginTx, RefuseTx, AbortTx, FailTx
  <2> QED BY <1>2, <2>1, <2>2 DEF RunTx
<1>3. ASSUME NEW ids \in SUBSET Rows(reservation), NEW st \in Statuses,
             reservation' = WithStatus(reservation, ids, st),
             \A i \in ids : \/ reservation[i].status = "PENDING"
                            \/ reservation[i].status = "CONFIRMED" /\ st = "CANCELLED"
      PROVE  Final(reservation, reservation')
  <2> SUFFICES ASSUME NEW i \in Ids, reservation[i] # None
               PROVE  \/ reservation'[i].status = reservation[i].status
                      \/ reservation[i].status = "PENDING"
                      \/ reservation[i].status = "CONFIRMED"
                            /\ reservation'[i].status = "CANCELLED"
    BY DEF Final
  <2>1. reservation[i] \in Row
    BY DEF TypeInv, TypeOK
  <2>2. CASE i \in ids
    <3>1. reservation'[i].status = st
      BY <1>3, <2>1, <2>2 DEF WithStatus, Row
    <3> QED BY <1>3, <2>2, <3>1
  <2>3. CASE i \notin ids
    BY <1>3, <2>3 DEF WithStatus
  <2> QED BY <2>2, <2>3
<1>4. ASSUME NEW o \in Ops, Handle(o) PROVE Final(reservation, reservation')
  <2>1. CASE CancelWrite(o)
    <3>1. /\ CancelWhere(o) \in SUBSET Rows(reservation)
          /\ \A i \in CancelWhere(o) : reservation[i].status \in {"PENDING", "CONFIRMED"}
      BY DEF CancelWhere, Holding, HOLDING_STATUSES
    <3> QED BY <1>3, <2>1, <3>1 DEF CancelWrite, Statuses
  <2>2. /\ StillPending(o) \in SUBSET Rows(reservation)
        /\ \A i \in StillPending(o) : reservation[i].status = "PENDING"
    BY DEF StillPending
  <2>3. CASE DecideWrite(o)
    BY <1>1, <1>3, <2>2, <2>3 DEF DecideWrite, Statuses, HOLDING_STATUSES
  <2>4. CASE ConfirmBacklog(o)
    BY <1>1, <1>3, <2>2, <2>4 DEF ConfirmBacklog, Statuses, HOLDING_STATUSES
  <2>5. CASE ~(CancelWrite(o) \/ DecideWrite(o) \/ ConfirmBacklog(o))
    BY <1>1, <1>4, <2>5 DEF Handle, FetchBacklog, LoseOp, CancelRead, AdminCancelRead,
                            DecideRead, ToggleAuto
  <2> QED BY <2>1, <2>3, <2>4, <2>5
<1>5. ASSUME NEW u \in Users, DeleteAccount(u) PROVE Final(reservation, reservation')
  BY <1>5 DEF DeleteAccount, Without, Final
<1>6. CASE (\E b \in Barbers : ToggleActive(b)) \/ Tick \/ UNCHANGED vars
  BY <1>1, <1>6 DEF ToggleActive, Tick, vars
<1> QED BY <1>2, <1>4, <1>5, <1>6 DEF Next

\* A decision is final: no interleaving of cancelling, accepting, declining and
\* auto-approving revives a declined or cancelled reservation, or declines or
\* reopens a confirmed one.
THEOREM FinalDecisions == Spec => DecisionsFinal
<1>1. TypeInv /\ BookInv /\ [Next]_vars =>
        [\A i \in Ids :
          reservation[i] # None /\ reservation'[i] # None =>
             \/ reservation'[i].status = reservation[i].status
             \/ reservation[i].status = "PENDING"
             \/ reservation[i].status = "CONFIRMED"
                   /\ reservation'[i].status = "CANCELLED"]_vars
  BY FinalStep DEF Final
<1> QED BY <1>1, TypeInvariant, BookInvariant, PTL DEF Spec, DecisionsFinal

Whole(old, new) ==
    \A i, j \in Ids :
        /\ i[1] = j[1] /\ new[i] # None /\ new[j] # None
        /\ old[i] # new[i] /\ new[i].status = "CANCELLED"
        => new[j].status \notin HOLDING_STATUSES

\* No step cancels one cut of a double only.
LEMMA WholeStep == TypeInv /\ BookInv /\ [Next]_vars => Whole(reservation, reservation')
<1> SUFFICES ASSUME TypeInv, BookInv, [Next]_vars PROVE Whole(reservation, reservation')
  OBVIOUS
<1> USE NoneAssumption
<1>1. ASSUME reservation' = reservation PROVE Whole(reservation, reservation')
  BY <1>1 DEF Whole
<1>2. ASSUME NEW q \in Reqs, LoadAny(q) \/ RunTx(q) PROVE Whole(reservation, reservation')
  <2>1. CASE CommitTx(q)
    <3>1. \A i \in Ids : reservation'[i] # reservation[i] =>
             reservation'[i].status \in {"CONFIRMED", "PENDING"}
      BY <2>1 DEF CommitTx, Inserted
    <3> QED BY <3>1 DEF Whole
  <2>2. CASE LoadAny(q) \/ BeginTx(q) \/ RefuseTx(q) \/ AbortTx(q) \/ FailTx(q)
    BY <1>1, <2>2 DEF LoadAny, Load, BeginTx, RefuseTx, AbortTx, FailTx
  <2> QED BY <1>2, <2>1, <2>2 DEF RunTx
<1>3. ASSUME NEW o \in Ops, Handle(o) PROVE Whole(reservation, reservation')
  <2>1. CASE CancelWrite(o)
    <3> SUFFICES ASSUME NEW i \in Ids, NEW j \in Ids, i[1] = j[1],
                        reservation'[i] # None, reservation'[j] # None,
                        reservation[i] # reservation'[i]
                 PROVE  reservation'[j].status \notin HOLDING_STATUSES
      BY DEF Whole
    <3>1. reservation' = [k \in Ids |-> IF k \in CancelWhere(o)
                                        THEN [reservation[k] EXCEPT !.status = "CANCELLED"]
                                        ELSE reservation[k]]
      BY <2>1 DEF CancelWrite, WithStatus
    <3>2. i \in CancelWhere(o) /\ reservation[i] \in Row
      BY <3>1 DEF CancelWhere, Holding, Rows, TypeInv, TypeOK
    <3>3. ASSUME j \in CancelWhere(o) PROVE reservation'[j].status = "CANCELLED"
      <4>1. reservation[j] \in Row
        BY <3>3 DEF CancelWhere, Holding, Rows, TypeInv, TypeOK
      <4> QED BY <3>1, <3>3, <4>1 DEF Row
    <3>4. CASE j \in CancelWhere(o)
      BY <3>3, <3>4 DEF HOLDING_STATUSES
    <3>5. CASE j \notin CancelWhere(o)
      <4>1. reservation'[j] = reservation[j] /\ reservation[j] # None /\ i # j
        BY <3>1, <3>2, <3>5
      <4>2. reservation[i].grouped /\ reservation[j].grouped
        <5>1. PICK q \in Reqs : \/ i = <<q, 1>> /\ j = <<q, 2>>
                                \/ i = <<q, 2>> /\ j = <<q, 1>>
          BY <4>1 DEF Ids
        <5>2. reservation[i] # None
          BY <3>2
        <5> QED BY <4>1, <5>1, <5>2 DEF BookInv, CutInv
      <4>3. PICK x \in op[o].ids : i[1] = x[1]
        BY <3>2, <4>2 DEF CancelWhere
      <4>4. j \notin Holding(reservation)
        BY <3>5, <4>2, <4>3 DEF CancelWhere
      <4> QED BY <4>1, <4>4 DEF Holding, Rows
    <3> QED BY <3>4, <3>5
  <2>2. ASSUME NEW st \in {"CONFIRMED", "DECLINED"},
               reservation' = WithStatus(reservation, StillPending(o), st)
        PROVE  Whole(reservation, reservation')
    <3>1. \A i \in StillPending(o) : i \in Ids /\ reservation[i] \in Row
      BY DEF StillPending, Rows, TypeInv, TypeOK
    <3>2. \A i \in Ids : reservation'[i] # reservation[i] => reservation'[i].status = st
      BY <2>2, <3>1 DEF WithStatus, Row
    <3> QED BY <3>2 DEF Whole
  <2>3. CASE DecideWrite(o)
    BY <1>1, <2>2, <2>3 DEF DecideWrite
  <2>4. CASE ConfirmBacklog(o)
    BY <1>1, <2>2, <2>4 DEF ConfirmBacklog
  <2>5. CASE ~(CancelWrite(o) \/ DecideWrite(o) \/ ConfirmBacklog(o))
    BY <1>1, <1>3, <2>5 DEF Handle, FetchBacklog, LoseOp, CancelRead, AdminCancelRead,
                            DecideRead, ToggleAuto
  <2> QED BY <2>1, <2>3, <2>4, <2>5
<1>4. ASSUME NEW u \in Users, DeleteAccount(u) PROVE Whole(reservation, reservation')
  BY <1>4 DEF DeleteAccount, Without, Whole
<1>5. CASE (\E b \in Barbers : ToggleActive(b)) \/ Tick \/ UNCHANGED vars
  BY <1>1, <1>5 DEF ToggleActive, Tick, vars
<1> QED BY <1>2, <1>3, <1>4, <1>5 DEF Next

\* Cancelling either cut of a double, by the customer or by staff, leaves no
\* holding cut of it behind, whatever was decided on either cut since the read.
THEOREM WholeDoubles == Spec => DoubleCancelledWhole
<1>1. TypeInv /\ BookInv /\ [Next]_vars =>
        [\A i, j \in Ids :
          /\ i[1] = j[1] /\ reservation'[i] # None /\ reservation'[j] # None
          /\ reservation[i] # reservation'[i]
          /\ reservation'[i].status = "CANCELLED"
          => reservation'[j].status \notin HOLDING_STATUSES]_vars
  BY WholeStep DEF Whole
<1> QED BY <1>1, TypeInvariant, BookInvariant, PTL DEF Spec, DoubleCancelledWhole
-----------------------------------------------------------------------------
(* What the customer is told                                               *)

\* A handler that decides has read one request.
OneDecided ==
    \A o \in Ops : op[o] # None /\ op[o].kind \in {"decide-accept", "decide-decline"}
                   => \E i \in Ids : op[o].ids = {i}

\* Only the barber's read starts a decision, and it names the row it read.
LEMMA OneDecidedStep == TypeInv /\ OneDecided /\ [Next]_vars => OneDecided'
<1> SUFFICES ASSUME TypeInv, OneDecided, [Next]_vars PROVE OneDecided'
  OBVIOUS
<1>t. op \in [Ops -> Op \cup {None}]
  BY DEF TypeInv, TypeOK
<1>1. ASSUME op' = op PROVE OneDecided'
  BY <1>1 DEF OneDecided
<1>2. ASSUME NEW o \in Ops, NEW new, op' = [op EXCEPT ![o] = new],
             new # None /\ new.kind \in {"decide-accept", "decide-decline"}
               => \E i \in Ids : new.ids = {i}
      PROVE  OneDecided'
  BY <1>t, <1>2 DEF OneDecided
<1>3. ASSUME NEW q \in Reqs, LoadAny(q) \/ RunTx(q) PROVE OneDecided'
  BY <1>1, <1>3 DEF LoadAny, Load, RunTx, BeginTx, RefuseTx, CommitTx, AbortTx, FailTx
<1>4. ASSUME NEW o \in Ops, Handle(o) PROVE OneDecided'
  <2>1. CASE CancelWrite(o) \/ DecideWrite(o) \/ ConfirmBacklog(o) \/ LoseOp(o)
    <3>1. op' = [op EXCEPT ![o] = None]
      BY <2>1 DEF CancelWrite, DecideWrite, ConfirmBacklog, LoseOp, Close
    <3> QED BY <1>2, <3>1
  <2>2. CASE FetchBacklog(o)
    <3> DEFINE pending == {i \in Rows(reservation) :
                              /\ reservation[i].barber = op[o].barber
                              /\ reservation[i].status = "PENDING"
                              /\ reservation[i].endsAt >= now}
               new == IF pending = {} THEN None
                      ELSE [op[o] EXCEPT !.kind = "backlog", !.ids = pending]
    <3>1. op' = [op EXCEPT ![o] = new]
      BY <2>2 DEF FetchBacklog
    <3> HIDE DEF pending
    <3>2. op[o] \in Op
      BY <1>t, <2>2 DEF FetchBacklog
    <3>3. new # None => new.kind = "backlog"
      BY <3>2 DEF Op
    <3> QED BY <1>2, <3>1, <3>3
  <2>3. ASSUME NEW kind, NEW ids, NEW seen, NEW b, Start(o, kind, ids, seen, b),
               kind \in {"decide-accept", "decide-decline"} => \E i \in Ids : ids = {i}
        PROVE  OneDecided'
    BY <1>2, <2>3 DEF Start
  <2>4. ASSUME NEW i \in Ids, CancelRead(o, i) \/ AdminCancelRead(o, i) PROVE OneDecided'
    BY <2>3, <2>4 DEF CancelRead, AdminCancelRead
  <2>5. ASSUME NEW i \in Ids, NEW verdict \in {"accept", "decline"}, DecideRead(o, i, verdict)
        PROVE  OneDecided'
    BY <2>3, <2>5 DEF DecideRead
  <2>6. ASSUME NEW b \in Barbers, NEW enabled \in BOOLEAN, ToggleAuto(o, b, enabled)
        PROVE  OneDecided'
    BY <1>1, <2>3, <2>6 DEF ToggleAuto
  <2> QED BY <1>4, <2>1, <2>2, <2>4, <2>5, <2>6 DEF Handle
<1>5. CASE \/ \E b \in Barbers : ToggleActive(b)
           \/ \E u \in Users : DeleteAccount(u)
           \/ Tick \/ UNCHANGED vars
  BY <1>1, <1>5 DEF ToggleActive, DeleteAccount, Tick, vars
<1> QED BY <1>3, <1>4, <1>5 DEF Next

Decline(i) == [type |-> "BOOKING_DECLINED", id |-> i]

\* DeclineTold as a relation between a table and the notices about it.
Told(table, told) ==
    \A i \in Ids : Decline(i) \in told <=>
                   table[i] # None /\ table[i].status = "DECLINED"

\* Every step that declines a request writes its notice, and no other step
\* writes or drops one.
LEMMA ToldStep ==
    TypeInv /\ BookInv /\ OneDecided /\ Told(reservation, notices) /\ [Next]_vars
      => Told(reservation', notices')
<1> SUFFICES ASSUME TypeInv, BookInv, OneDecided, Told(reservation, notices), [Next]_vars
             PROVE  Told(reservation', notices')
  OBVIOUS
<1> USE NoneAssumption
<1>1. ASSUME reservation' = reservation, notices' = notices PROVE Told(reservation', notices')
  BY <1>1 DEF Told
<1>2. ASSUME NEW q \in Reqs, LoadAny(q) \/ RunTx(q) PROVE Told(reservation', notices')
  <2>1. CASE CommitTx(q)
    <3>1. notices' = notices
      BY <2>1 DEF CommitTx
    <3>2. reservation[<<q, 1>>] = None /\ reservation[<<q, 2>>] = None
      BY <2>1 DEF CommitTx, BookInv, RowInv, Rows, Ids
    <3>3. \A i \in Ids : \/ reservation'[i] = reservation[i]
                         \/ /\ reservation[i] = None
                            /\ reservation'[i].status \in {"CONFIRMED", "PENDING"}
      BY <2>1, <3>2 DEF CommitTx, Inserted
    <3> QED BY <3>1, <3>3 DEF Told
  <2>2. CASE LoadAny(q) \/ BeginTx(q) \/ RefuseTx(q) \/ AbortTx(q) \/ FailTx(q)
    BY <1>1, <2>2 DEF LoadAny, Load, BeginTx, RefuseTx, AbortTx, FailTx
  <2> QED BY <1>2, <2>1, <2>2 DEF RunTx
<1>3. ASSUME NEW ids \in SUBSET Rows(reservation), NEW st \in Statuses,
             reservation' = WithStatus(reservation, ids, st),
             \A i \in ids : reservation[i].status # "DECLINED",
             \A i \in Ids : Decline(i) \in notices' <=>
                               Decline(i) \in notices \/ (st = "DECLINED" /\ i \in ids)
      PROVE  Told(reservation', notices')
  <2> SUFFICES ASSUME NEW i \in Ids
               PROVE  Decline(i) \in notices' <=>
                        reservation'[i] # None /\ reservation'[i].status = "DECLINED"
    BY DEF Told
  <2>1. Decline(i) \in notices <=> reservation[i] # None /\ reservation[i].status = "DECLINED"
    BY DEF Told
  <2>2. CASE i \in ids
    <3>1. reservation[i] \in Row
      BY <2>2 DEF Rows, TypeInv, TypeOK
    <3>2. reservation'[i] \in Row /\ reservation'[i].status = st
      BY <1>3, <2>2, <3>1 DEF WithStatus, Row
    <3> QED BY <1>3, <2>1, <2>2, <3>2
  <2>3. CASE i \notin ids
    <3>1. reservation'[i] = reservation[i]
      BY <1>3, <2>3 DEF WithStatus
    <3> QED BY <1>3, <2>1, <2>3, <3>1
  <2> QED BY <2>2, <2>3
<1>4. ASSUME NEW o \in Ops, Handle(o) PROVE Told(reservation', notices')
  <2>1. CASE CancelWrite(o)
    <3>1. /\ CancelWhere(o) \in SUBSET Rows(reservation)
          /\ \A i \in CancelWhere(o) : reservation[i].status # "DECLINED"
      BY DEF CancelWhere, Holding, HOLDING_STATUSES
    <3>2. notices' = notices /\ "CANCELLED" \in Statuses
      BY <2>1 DEF CancelWrite, Statuses
    <3> QED BY <1>3, <2>1, <3>1, <3>2 DEF CancelWrite
  <2>2. /\ StillPending(o) \in SUBSET Rows(reservation)
        /\ \A i \in StillPending(o) : reservation[i].status # "DECLINED"
    BY DEF StillPending
  <2>s. "CONFIRMED" \in Statuses /\ "DECLINED" \in Statuses
    BY DEF Statuses, HOLDING_STATUSES
  <2>3. ASSUME NEW ids, Notify("BOOKING_ACCEPTED", ids),
               reservation' = WithStatus(reservation, StillPending(o), "CONFIRMED")
        PROVE  Told(reservation', notices')
    <3>1. \A i \in Ids : Decline(i) \in notices' <=> Decline(i) \in notices
      BY <2>3 DEF Notify, Decline
    <3> QED BY <1>3, <2>2, <2>s, <2>3, <3>1
  <2>4. CASE DecideWrite(o) /\ StillPending(o) # {}
    <3>1. CASE op[o].kind = "decide-accept"
      BY <2>3, <2>4, <3>1 DEF DecideWrite
    <3>2. CASE op[o].kind = "decide-decline"
      <4>1. StillPending(o) = op[o].ids
        BY <2>4, <3>2 DEF DecideWrite, OneDecided, StillPending
      <4>2. \A i \in Ids : Decline(i) \in notices' <=> Decline(i) \in notices \/ i \in op[o].ids
        BY <2>4, <3>2 DEF DecideWrite, Notify, Decline
      <4>3. reservation' = WithStatus(reservation, StillPending(o), "DECLINED")
        BY <2>4, <3>2 DEF DecideWrite
      <4> QED BY <1>3, <2>2, <2>s, <4>1, <4>2, <4>3
    <3> QED BY <2>4, <3>1, <3>2 DEF DecideWrite
  <2>5. CASE DecideWrite(o) /\ StillPending(o) = {}
    BY <1>1, <2>5 DEF DecideWrite
  <2>6. CASE ConfirmBacklog(o)
    BY <1>1, <2>3, <2>6 DEF ConfirmBacklog
  <2>7. CASE ~(CancelWrite(o) \/ DecideWrite(o) \/ ConfirmBacklog(o))
    BY <1>1, <1>4, <2>7 DEF Handle, FetchBacklog, LoseOp, CancelRead, AdminCancelRead,
                            DecideRead, ToggleAuto
  <2> QED BY <2>1, <2>4, <2>5, <2>6, <2>7
<1>5. ASSUME NEW u \in Users, DeleteAccount(u) PROVE Told(reservation', notices')
  <2> SUFFICES ASSUME NEW i \in Ids
               PROVE  Decline(i) \in notices' <=>
                        reservation'[i] # None /\ reservation'[i].status = "DECLINED"
    BY DEF Told
  <2>1. Decline(i) \in notices' <=>
           Decline(i) \in notices /\ reservation[i] # None /\ reservation[i].user # u
    BY <1>5 DEF DeleteAccount, Decline
  <2>2. reservation'[i] = IF reservation[i] # None /\ reservation[i].user = u
                          THEN None ELSE reservation[i]
    BY <1>5 DEF DeleteAccount, Without
  <2> QED BY <2>1, <2>2 DEF Told
<1>6. CASE (\E b \in Barbers : ToggleActive(b)) \/ Tick \/ UNCHANGED vars
  BY <1>1, <1>6 DEF ToggleActive, Tick, vars
<1> QED BY <1>2, <1>4, <1>5, <1>6 DEF Next

\* A customer is told a request was declined exactly when it was: the notice is
\* written with the decision or not at all, no decline is lost in a race with a
\* cancellation or a second decision, and the notice goes with the account.
THEOREM DeclinesTold == Spec => []DeclineTold
<1>1. DeclineTold <=> Told(reservation, notices)
  BY Zenon DEF DeclineTold, Told, Decline
<1>2. DeclineTold' <=> Told(reservation', notices')
  BY Zenon DEF DeclineTold, Told, Decline
<1>3. Init => OneDecided /\ DeclineTold
  BY <1>1 DEF Init, OneDecided, Told, EmptyTable
<1>4. OneDecided /\ DeclineTold /\ TypeInv /\ BookInv /\ [Next]_vars
        => (OneDecided /\ DeclineTold)'
  BY <1>1, <1>2, OneDecidedStep, ToldStep
<1> QED BY <1>3, <1>4, TypeInvariant, BookInvariant, PTL DEF Spec
-----------------------------------------------------------------------------
(* The cutoff                                                              *)

\* What a handler x that is still open knows at time t: it began at most one
\* slot step ago, and the row a customer cancels belongs to an answered request
\* and, when it was CONFIRMED at the read, was then outside the cutoff.
Current(x, t, progress, table) ==
    /\ t - 1 <= x.at /\ x.at <= t
    /\ x.kind = "cancel" =>
          \A i \in x.ids :
             /\ progress[i[1]] = "done"
             /\ x.seen = "CONFIRMED" /\ table[i] # None
                  => table[i].startsAt - x.at >= Cutoff

ReadsCurrent == \A o \in Ops : op[o] # None => Current(op[o], now, pc, reservation)

\* No row moves, and a row of an answered request does not come back.
Steady ==
    /\ \A q \in Reqs : pc[q] = "done" => pc'[q] = "done"
    /\ \A i \in Ids : reservation'[i] # None /\ pc[i[1]] = "done" =>
          reservation[i] # None /\ reservation'[i].startsAt = reservation[i].startsAt

\* What an open handler knows stays true while the clock stands.
LEMMA StaysCurrent ==
    ASSUME TypeInv, ReadsCurrent, Steady, now' = now, NEW o \in Ops, op[o] # None
    PROVE  Current(op[o], now', pc', reservation')
<1>1. op[o] \in Op /\ Current(op[o], now, pc, reservation)
  BY DEF TypeInv, TypeOK, ReadsCurrent
<1>2. op[o].ids \subseteq Ids /\ \A i \in Ids : i[1] \in Reqs
  BY <1>1 DEF Op, Ids
<1> QED BY <1>1, <1>2 DEF Current, Steady

\* No step moves a row; only a commit adds one, for a request not yet answered.
LEMMA SteadyStep == TypeInv /\ BookInv /\ [Next]_vars => Steady
<1> SUFFICES ASSUME TypeInv, BookInv, [Next]_vars PROVE Steady
  OBVIOUS
<1>t. reservation \in Tables /\ pc \in [Reqs -> {"idle", "begin", "commit", "done"}]
  BY DEF TypeInv, TypeOK, Tables
<1>1. ASSUME pc' = pc, OnlyReleases(reservation, reservation') PROVE Steady
  BY <1>1 DEF Steady, OnlyReleases, SameSlot
<1>2. ASSUME NEW q \in Reqs, LoadAny(q) \/ RunTx(q) PROVE Steady
  <2>1. \A r \in Reqs : pc[r] = "done" => pc'[r] = "done"
    BY <1>t, <1>2 DEF LoadAny, Load, RunTx, BeginTx, RefuseTx, CommitTx, AbortTx, FailTx,
                      Answer, InFlight
  <2>2. CASE CommitTx(q)
    <3>1. \A i \in Ids : pc[i[1]] = "done" => reservation'[i] = reservation[i]
      <4> SUFFICES ASSUME NEW i \in Ids, pc[i[1]] = "done"
                   PROVE  reservation'[i] = reservation[i]
        OBVIOUS
      <4>1. i # <<q, 1>> /\ i # <<q, 2>>
        BY <2>2 DEF CommitTx
      <4> QED BY <2>2, <4>1 DEF CommitTx, Inserted
    <3> QED BY <2>1, <3>1 DEF Steady
  <2>3. CASE LoadAny(q) \/ BeginTx(q) \/ RefuseTx(q) \/ AbortTx(q) \/ FailTx(q)
    <3>1. reservation' = reservation
      BY <2>3 DEF LoadAny, Load, BeginTx, RefuseTx, AbortTx, FailTx
    <3> QED BY <2>1, <3>1 DEF Steady
  <2> QED BY <1>2, <2>2, <2>3 DEF RunTx
<1>3. ASSUME NEW o \in Ops, Handle(o) PROVE Steady
  <2>1. pc' = pc
    BY <1>3 DEF Handle, CancelRead, AdminCancelRead, DecideRead, ToggleAuto, CancelWrite,
                DecideWrite, FetchBacklog, ConfirmBacklog, LoseOp, requests
  <2>2. StillPending(o) \in SUBSET Holding(reservation)
        /\ CancelWhere(o) \in SUBSET Holding(reservation)
    BY DEF StillPending, CancelWhere, Holding, Rows, HOLDING_STATUSES
  <2>3. ASSUME NEW st \in Statuses, NEW ids \in SUBSET Holding(reservation),
               reservation' = WithStatus(reservation, ids, st)
        PROVE  Steady
    BY <1>t, <1>1, <2>1, <2>3, WithStatusReleases
  <2>s. {"CONFIRMED", "DECLINED", "CANCELLED"} \subseteq Statuses
    BY DEF Statuses, HOLDING_STATUSES
  <2>4. CASE CancelWrite(o)
    BY <2>2, <2>3, <2>4, <2>s DEF CancelWrite
  <2>5. CASE (DecideWrite(o) \/ ConfirmBacklog(o)) /\ reservation' # reservation
    <3>1. PICK st \in Statuses : reservation' = WithStatus(reservation, StillPending(o), st)
      BY <2>5, <2>s DEF DecideWrite, ConfirmBacklog
    <3> QED BY <2>2, <2>3, <3>1
  <2>6. CASE reservation' = reservation
    BY <1>1, <2>1, <2>6, SameReleases
  <2>7. CASE ~(CancelWrite(o) \/ DecideWrite(o) \/ ConfirmBacklog(o))
    BY <1>3, <2>6, <2>7 DEF Handle, FetchBacklog, LoseOp, CancelRead, AdminCancelRead,
                            DecideRead, ToggleAuto
  <2> QED BY <2>4, <2>5, <2>6, <2>7
<1>4. ASSUME NEW u \in Users, DeleteAccount(u) PROVE Steady
  BY <1>t, <1>1, <1>4, WithoutReleases DEF DeleteAccount, requests
<1>5. CASE (\E b \in Barbers : ToggleActive(b)) \/ Tick \/ UNCHANGED vars
  BY <1>1, <1>5, SameReleases DEF ToggleActive, Tick, vars, requests
<1> QED BY <1>2, <1>3, <1>4, <1>5 DEF Next

\* Reads are made of the present; the clock waits for open handlers.
LEMMA CurrentStep == TypeInv /\ BookInv /\ ReadsCurrent /\ [Next]_vars => ReadsCurrent'
<1> SUFFICES ASSUME TypeInv, BookInv, ReadsCurrent, [Next]_vars,
                    NEW o \in Ops, op'[o] # None
             PROVE  Current(op'[o], now', pc', reservation')
  BY DEF ReadsCurrent
<1>t. /\ op \in [Ops -> Op \cup {None}] /\ now \in Nat
      /\ op[o] # None => op[o] \in Op /\ op[o].at \in Nat
  BY DEF TypeInv, TypeOK, Op
<1>s. Steady
  BY SteadyStep
<1>1. ASSUME op'[o] = op[o], now' = now PROVE Current(op'[o], now', pc', reservation')
  BY <1>1, <1>s, StaysCurrent
<1>2. ASSUME NEW q \in Reqs, LoadAny(q) \/ RunTx(q)
      PROVE  Current(op'[o], now', pc', reservation')
  BY <1>1, <1>2 DEF LoadAny, Load, RunTx, BeginTx, RefuseTx, CommitTx, AbortTx, FailTx
<1>3. ASSUME NEW p \in Ops, Handle(p) PROVE Current(op'[o], now', pc', reservation')
  <2>1. now' = now
    BY <1>3 DEF Handle, CancelRead, AdminCancelRead, DecideRead, ToggleAuto, CancelWrite,
                DecideWrite, FetchBacklog, ConfirmBacklog, LoseOp
  <2>2. ASSUME NEW kind, NEW ids, NEW seen, NEW b, Start(p, kind, ids, seen, b),
               kind # "cancel"
        PROVE  Current(op'[o], now', pc', reservation')
    <3>1. CASE o = p
      BY <1>t, <2>1, <2>2, <3>1 DEF Start, Current
    <3>2. CASE o # p
      BY <1>1, <1>t, <2>1, <2>2, <3>2 DEF Start
    <3> QED BY <3>1, <3>2
  <2>3. ASSUME NEW i \in Ids, CancelRead(p, i)
        PROVE  Current(op'[o], now', pc', reservation')
    <3>1. CASE o = p
      <4>1. /\ op'[o] = [kind |-> "cancel", ids |-> {i}, seen |-> reservation[i].status,
                         barber |-> None, at |-> now]
            /\ pc' = pc /\ reservation' = reservation
        BY <1>t, <2>3, <3>1 DEF CancelRead, Start, requests
      <4>2. /\ pc[i[1]] = "done"
            /\ reservation[i].status = "CONFIRMED" => reservation[i].startsAt - now >= Cutoff
        BY <2>3 DEF CancelRead, BookInv, RowInv, Holding
      <4> QED BY <1>t, <2>1, <4>1, <4>2 DEF Current
    <3>2. CASE o # p
      BY <1>1, <1>t, <2>1, <2>3, <3>2 DEF CancelRead, Start
    <3> QED BY <3>1, <3>2
  <2>4. ASSUME NEW i \in Ids, AdminCancelRead(p, i)
        PROVE  Current(op'[o], now', pc', reservation')
    BY <2>2, <2>4 DEF AdminCancelRead
  <2>5. ASSUME NEW i \in Ids, NEW verdict \in {"accept", "decline"}, DecideRead(p, i, verdict)
        PROVE  Current(op'[o], now', pc', reservation')
    BY <2>2, <2>5 DEF DecideRead
  <2>6. ASSUME NEW b \in Barbers, NEW enabled \in BOOLEAN, ToggleAuto(p, b, enabled)
        PROVE  Current(op'[o], now', pc', reservation')
    BY <1>1, <2>1, <2>2, <2>6 DEF ToggleAuto
  <2>7. CASE FetchBacklog(p)
    <3>1. CASE o = p
      <4> DEFINE pending == {i \in Rows(reservation) :
                                /\ reservation[i].barber = op[p].barber
                                /\ reservation[i].status = "PENDING"
                                /\ reservation[i].endsAt >= now}
      <4>1. op'[o] = [op[o] EXCEPT !.kind = "backlog", !.ids = pending] /\ op[o] # None
        BY <1>t, <2>7, <3>1 DEF FetchBacklog
      <4> HIDE DEF pending
      <4>2. op'[o].kind = "backlog" /\ op'[o].at = op[o].at
        BY <1>t, <4>1 DEF Op
      <4>3. Current(op[o], now', pc', reservation')
        BY <1>s, <2>1, <4>1, StaysCurrent
      <4> QED BY <4>2, <4>3 DEF Current
    <3>2. CASE o # p
      BY <1>1, <1>t, <2>1, <2>7, <3>2 DEF FetchBacklog
    <3> QED BY <3>1, <3>2
  <2>8. CASE CancelWrite(p) \/ DecideWrite(p) \/ ConfirmBacklog(p) \/ LoseOp(p)
    <3>1. op' = [op EXCEPT ![p] = None]
      BY <2>8 DEF CancelWrite, DecideWrite, ConfirmBacklog, LoseOp, Close
    <3> QED BY <1>1, <1>t, <2>1, <3>1
  <2> QED BY <1>3, <2>3, <2>4, <2>5, <2>6, <2>7, <2>8 DEF Handle
<1>4. CASE Tick
  <2>1. op[o] # None /\ op' = op /\ op[o].at = now /\ now' = now + 1
        /\ pc' = pc /\ reservation' = reservation
    BY <1>4 DEF Tick, requests
  <2> QED BY <1>t, <2>1 DEF ReadsCurrent, Current
<1>5. CASE \/ \E b \in Barbers : ToggleActive(b)
           \/ \E u \in Users : DeleteAccount(u)
           \/ UNCHANGED vars
  BY <1>1, <1>5 DEF ToggleActive, DeleteAccount, vars
<1> QED BY <1>2, <1>3, <1>4, <1>5 DEF Next

\* A customer's cancellation of a CONFIRMED single is the write of a handler that
\* read it CONFIRMED, for its WHERE repeats the status.
LEMMA CutoffStep ==
    ASSUME TypeInv, BookInv, ReadsCurrent, [Next]_vars, NEW i \in Ids,
           CustomerCancels(i), ~reservation[i].grouped, reservation[i].status = "CONFIRMED"
    PROVE  reservation[i].startsAt - now >= Cutoff - 1
<1>t. op \in [Ops -> Op \cup {None}] /\ now \in Nat
  BY DEF TypeInv, TypeOK
<1>1. PICK o \in Ops : op[o] # None /\ op[o].kind = "cancel" /\ op'[o] = None
  BY DEF CustomerCancels
<1>2. reservation'[i] # reservation[i]
  BY DEF CustomerCancels, HOLDING_STATUSES
<1>3. CancelWrite(o)
  <2>1. CASE \E q \in Reqs : LoadAny(q) \/ RunTx(q)
    BY <1>1, <2>1 DEF LoadAny, Load, RunTx, BeginTx, RefuseTx, CommitTx, AbortTx, FailTx
  <2>2. ASSUME NEW p \in Ops, Handle(p) PROVE CancelWrite(o)
    <3>1. CASE CancelWrite(p)
      BY <1>1, <1>t, <3>1 DEF CancelWrite, Close
    <3>2. CASE DecideWrite(p)
      BY <1>1, <1>t, <3>2 DEF DecideWrite, Close
    <3>3. CASE ConfirmBacklog(p)
      BY <1>1, <1>t, <3>3 DEF ConfirmBacklog, Close
    <3>4. CASE ~(CancelWrite(p) \/ DecideWrite(p) \/ ConfirmBacklog(p))
      BY <1>2, <2>2, <3>4 DEF Handle, FetchBacklog, LoseOp, CancelRead, AdminCancelRead,
                              DecideRead, ToggleAuto
    <3> QED BY <3>1, <3>2, <3>3, <3>4
  <2>3. CASE \/ \E b \in Barbers : ToggleActive(b)
             \/ \E u \in Users : DeleteAccount(u)
             \/ Tick \/ UNCHANGED vars
    BY <1>1, <2>3 DEF ToggleActive, DeleteAccount, Tick, vars
  <2> QED BY <2>1, <2>2, <2>3 DEF Next
<1>4. i \in op[o].ids /\ op[o].seen = "CONFIRMED" /\ reservation[i] # None
  BY <1>2, <1>3 DEF CancelWrite, WithStatus, CancelWhere, Holding, Rows
<1>5. /\ reservation[i].startsAt - op[o].at >= Cutoff
      /\ now - 1 <= op[o].at
  BY <1>1, <1>4 DEF ReadsCurrent, Current
<1>6. reservation[i].startsAt \in Int /\ op[o].at \in Nat
  BY <1>1, <1>t, <1>4 DEF TypeInv, TypeOK, Row, Op
<1> QED BY <1>t, <1>5, <1>6, ParameterAssumption

\* A customer never cancels a CONFIRMED single inside the cutoff, for any cutoff
\* and any race of barbers' decisions with the cancellation.
THEOREM CutoffKept == Spec => CutoffHolds
<1>1. Init => ReadsCurrent
  BY DEF Init, ReadsCurrent
<1>2. TypeInv /\ BookInv /\ ReadsCurrent /\ [Next]_vars =>
        [\A i \in Ids :
          CustomerCancels(i) /\ ~reservation[i].grouped
            /\ reservation[i].status = "CONFIRMED"
          => reservation[i].startsAt - now >= Cutoff - 1]_vars
  BY CutoffStep
<1> QED BY <1>1, <1>2, CurrentStep, TypeInvariant, BookInvariant, PTL DEF Spec, CutoffHolds

-----------------------------------------------------------------------------
(* The times shown to customers                                            *)

\* The rows the slot loop counts against a block within the opening hours are
\* those a booking of the block would collide with.
LEMMA SameRows ==
    ASSUME TypeOK, NEW s \in Shops, NEW from \in Int, NEW to \in Int,
           OpenAt <= from, to <= CloseAt
    PROVE  /\ {i \in Holding(reservation) :
                  /\ reservation[i] \in Existing(s)
                  /\ Conflicts(reservation[i], from, to, BufferMin[s])}
                = Overlapping(reservation, s, from, to)
           /\ \A r \in Existing(s) : Conflicts(r, from, to, BufferMin[s]) =>
                 \E i \in Overlapping(reservation, s, from, to) : r = reservation[i]
<1>1. /\ BufferMin[s] \in Nat /\ OpenAt \in Nat /\ CloseAt \in Nat
      /\ \A i \in Holding(reservation) : /\ reservation[i].startsAt \in Int
                                         /\ reservation[i].endsAt \in Int
  <2>1. \A i \in Holding(reservation) : reservation[i] \in Row
    BY DEF TypeOK, Holding, Rows
  <2> QED BY <2>1, ShopAssumption, ParameterAssumption DEF Row
<1>2. ASSUME NEW i \in Holding(reservation), reservation[i].shop = s
      PROVE  /\ Conflicts(reservation[i], from, to, BufferMin[s])
                   <=> i \in Overlapping(reservation, s, from, to)
             /\ i \in Overlapping(reservation, s, from, to) => reservation[i] \in Existing(s)
  <2> DEFINE r == reservation[i]
             gap == BufferMin[s]
  <2>1. r.startsAt \in Int /\ r.endsAt \in Int /\ gap \in Nat /\ OpenAt \in Nat /\ CloseAt \in Nat
    BY <1>1
  <2>2. r.endsAt + gap > from <=> r.endsAt > from - gap
    BY <2>1
  <2>3. r.startsAt < to + gap /\ r.endsAt > from - gap =>
           r.startsAt < CloseAt + gap /\ r.endsAt > OpenAt - gap
    BY <2>1
  <2> QED BY <1>2, <2>2, <2>3 DEF Conflicts, Overlapping, Existing
<1>3. \A r \in Existing(s) : \E i \in Holding(reservation) :
          r = reservation[i] /\ reservation[i].shop = s
  BY DEF Existing
<1>4. \A i \in Overlapping(reservation, s, from, to) :
          i \in Holding(reservation) /\ reservation[i].shop = s
  BY DEF Overlapping
<1>5. ASSUME NEW r \in Existing(s), Conflicts(r, from, to, BufferMin[s])
      PROVE  \E i \in Overlapping(reservation, s, from, to) : r = reservation[i]
  BY <1>2, <1>3, <1>5
<1>6. ASSUME NEW i \in Holding(reservation)
      PROVE  /\ reservation[i] \in Existing(s)
             /\ Conflicts(reservation[i], from, to, BufferMin[s])
             <=> i \in Overlapping(reservation, s, from, to)
  <2>1. reservation[i] \in Existing(s) => reservation[i].shop = s
    BY <1>3
  <2>2. CASE reservation[i].shop = s
    BY <1>2, <2>2
  <2>3. CASE reservation[i].shop # s
    BY <1>4, <2>1, <2>3
  <2> QED BY <2>2, <2>3
<1> QED BY <1>4, <1>5, <1>6

\* A block within the opening hours is free for the slot loop when it is for the
\* booking transaction.
LEMMA SameFree ==
    ASSUME TypeOK, NEW s \in Shops, NEW want \in Present(s) \cup {None},
           NEW from \in Int, NEW to \in Int, OpenAt <= from, to <= CloseAt
    PROVE  SlotFree(s, want, from, to) <=>
              IF Present(s) = {}
              THEN Cardinality(Overlapping(reservation, s, from, to)) < ChairCount[s]
              ELSE \E b \in (IF want = None THEN Present(s) ELSE {want}) :
                      b \notin Taken(reservation, s, from, to)
<1> DEFINE eligible == IF want = None THEN Present(s) ELSE Present(s) \cap {want}
           free(b) == \A r \in Existing(s) :
                         r.barber = b => ~Conflicts(r, from, to, BufferMin[s])
<1>1. InTheWay(s, from, to) = Cardinality(Overlapping(reservation, s, from, to))
  BY SameRows DEF InTheWay
<1>2. ASSUME NEW b PROVE free(b) <=> b \notin Taken(reservation, s, from, to)
  <2>1. ASSUME ~free(b) PROVE b \in Taken(reservation, s, from, to)
    <3>1. PICK r \in Existing(s) : r.barber = b /\ Conflicts(r, from, to, BufferMin[s])
      BY <2>1
    <3>2. PICK i \in Overlapping(reservation, s, from, to) : r = reservation[i]
      BY <3>1, SameRows
    <3> QED BY <3>1, <3>2 DEF Taken
  <2>2. ASSUME b \in Taken(reservation, s, from, to) PROVE ~free(b)
    <3>1. PICK i \in Overlapping(reservation, s, from, to) : b = reservation[i].barber
      BY <2>2 DEF Taken
    <3>2. reservation[i] \in Existing(s) /\ Conflicts(reservation[i], from, to, BufferMin[s])
      BY <3>1, SameRows
    <3> QED BY <3>1, <3>2
  <2> QED BY <2>1, <2>2
<1>3. None \notin Present(s)
  BY NoneAssumption DEF TypeOK, Present
<1>4. /\ eligible = {} <=> Present(s) = {}
      /\ Present(s) # {} => eligible = (IF want = None THEN Present(s) ELSE {want})
  BY <1>3
<1>5. SlotFree(s, want, from, to) <=>
         IF eligible = {} THEN InTheWay(s, from, to) < ChairCount[s]
         ELSE \E b \in eligible : free(b)
  BY DEF SlotFree
<1> HIDE DEF eligible, free
<1>6. CASE Present(s) = {}
  BY <1>1, <1>4, <1>5, <1>6
<1>7. CASE Present(s) # {}
  BY <1>2, <1>4, <1>5, <1>7
<1> QED BY <1>6, <1>7

\* A number on the grid is a multiple of the step.
LEMMA OnGrid ==
    ASSUME NEW a \in Int, NEW n \in Nat \ {0}, a % n = 0
    PROVE  \E k \in Int : a = n * k
<1>1. a = n * (a \div n) + (a % n) /\ a \div n \in Int /\ n * (a \div n) \in Int
  OBVIOUS
<1>2. a = n * (a \div n)
  BY <1>1
<1> QED BY <1>1, <1>2

\* The slots of a shop that opens on the grid are on the grid, and the other way
\* round.
LEMMA SameGrid ==
    ASSUME NEW a \in Int, NEW b \in Int, NEW n \in Nat \ {0}, a % n = 0, b % n = 0
    PROVE  (a - b) % n = 0
<1>1. PICK i \in Int : a = n * i
  BY OnGrid
<1>2. PICK j \in Int : b = n * j
  BY OnGrid
<1>3. a - b = n * (i - j)
  BY <1>1, <1>2
<1>4. \A k \in Int : (n * k) % n = 0
  OBVIOUS
<1> QED BY <1>3, <1>4

\* What is known of the numbers in the two calculations.
LEMMA SlotNumbers ==
    ASSUME TypeOK
    PROVE  /\ now \in Nat /\ OpenAt \in Nat /\ CloseAt \in Nat /\ Step \in Nat \ {0}
           /\ Lead \in Nat /\ Horizon \in Nat
           /\ \A d \in Durations : d \in Nat \ {0}
BY ParameterAssumption DEF TypeOK

\* A time the app offers is a time the shop would give, for any shops, opening
\* hours, grace periods and lead times, and after any bookings, cancellations and
\* barber changes.
THEOREM OfferedBookable == Spec => []OfferedIsBookable
<1>1. ASSUME TypeOK PROVE OfferedIsBookable
  <2> SUFFICES ASSUME NEW s \in Shops, NEW d \in Durations
               PROVE  /\ \A want \in Barbers \cup {None} : \A m \in computeFreeSlots(s, want, d) :
                            m % Step = 0 /\ m <= now + Horizon => Bookable(s, want, m, m + d, m + d)
                      /\ \A e \in Durations : \A m \in computeDoubleSlots(s, d + e) :
                            m % Step = 0 /\ m <= now + Horizon => Bookable(s, None, m, m + d, m + d + e)
    BY DEF OfferedIsBookable
  <2>1. ASSUME NEW want \in Barbers \cup {None}, NEW m \in computeFreeSlots(s, want, d),
               m % Step = 0, m <= now + Horizon
        PROVE  Bookable(s, want, m, m + d, m + d)
    <3>1. /\ want \in Present(s) \cup {None} /\ m \in OpenAt..CloseAt /\ m + d <= CloseAt
          /\ m >= now + Lead /\ SlotFree(s, want, m, m + d)
      BY <2>1 DEF computeFreeSlots, Candidates
    <3>2. m \in Int /\ m + d \in Int /\ OpenAt <= m
      BY <1>1, <3>1, SlotNumbers
    <3>3. Admissible(s, want, m, m + d, m + d)
      BY <2>1, <3>1, <3>2, <1>1, SlotNumbers DEF Admissible
    <3> QED BY <1>1, <3>1, <3>2, <3>3, SameFree DEF Bookable
  <2>2. ASSUME NEW e \in Durations, NEW m \in computeDoubleSlots(s, d + e),
               m % Step = 0, m <= now + Horizon
        PROVE  Bookable(s, None, m, m + d, m + d + e)
    <3>1. /\ s \in DealShops /\ m \in OpenAt..CloseAt /\ m + (d + e) <= CloseAt
          /\ m >= now + Lead /\ SlotFree(s, None, m, m + (d + e))
      BY <2>2 DEF computeDoubleSlots, Candidates
    <3>2. m \in Int /\ m + (d + e) = m + d + e /\ m + d + e \in Int /\ OpenAt <= m
      BY <1>1, <3>1, SlotNumbers
    <3>3. Admissible(s, None, m, m + d, m + d + e)
      BY <2>2, <3>1, <3>2, <1>1, SlotNumbers DEF Admissible
    <3>4. SlotFree(s, None, m, m + d + e) /\ m + d + e <= CloseAt
      BY <3>1, <3>2
    <3> QED BY <1>1, <3>2, <3>3, <3>4, SameFree DEF Bookable
  <2> QED BY <2>1, <2>2
<1>2. TypeInv => TypeOK
  BY DEF TypeInv
<1> QED BY <1>1, <1>2, TypeInvariant, PTL

\* A time the shop would give is offered, by a shop that opens on the grid.
THEOREM BookableOffered == Spec => []BookableIsOffered
<1>1. ASSUME TypeOK PROVE BookableIsOffered
  <2> SUFFICES ASSUME OpenAt % Step = 0, NEW s \in Shops, NEW d \in Durations
               PROVE  /\ \A want \in Barbers \cup {None} :
                            {m \in 0..CloseAt : Bookable(s, want, m, m + d, m + d)}
                              \subseteq computeFreeSlots(s, want, d)
                      /\ \A e \in Durations :
                            {m \in 0..CloseAt : Bookable(s, None, m, m + d, m + d + e)}
                              \subseteq computeDoubleSlots(s, d + e)
    BY DEF BookableIsOffered
  <2>1. ASSUME NEW want \in Barbers \cup {None}, NEW m \in 0..CloseAt,
               Bookable(s, want, m, m + d, m + d)
        PROVE  m \in computeFreeSlots(s, want, d)
    <3>1. /\ want \in Present(s) \cup {None} /\ m % Step = 0
          /\ m >= OpenAt /\ m + d <= CloseAt /\ m >= now + Lead
      BY <2>1 DEF Bookable, Admissible
    <3>2. m \in Int /\ m + d \in Int /\ m \in OpenAt..CloseAt
      BY <1>1, <3>1, SlotNumbers
    <3>3. (m - OpenAt) % Step = 0
      BY <1>1, <3>1, <3>2, SameGrid, SlotNumbers
    <3>4. SlotFree(s, want, m, m + d)
      BY <1>1, <2>1, <3>1, <3>2, SameFree, SlotNumbers DEF Bookable
    <3> QED BY <3>1, <3>2, <3>3, <3>4 DEF computeFreeSlots, Candidates
  <2>2. ASSUME NEW e \in Durations, NEW m \in 0..CloseAt, Bookable(s, None, m, m + d, m + d + e)
        PROVE  m \in computeDoubleSlots(s, d + e)
    <3>1. /\ m % Step = 0 /\ m >= OpenAt /\ m + d + e <= CloseAt /\ m >= now + Lead
          /\ m + d # m + d + e => s \in DealShops
      BY <2>2 DEF Bookable, Admissible
    <3>2. /\ m \in Int /\ m + d + e \in Int /\ m \in OpenAt..CloseAt
          /\ m + (d + e) = m + d + e /\ m + d # m + d + e
      BY <1>1, <3>1, SlotNumbers
    <3>3. (m - OpenAt) % Step = 0
      BY <1>1, <3>1, <3>2, SameGrid, SlotNumbers
    <3>4. SlotFree(s, None, m, m + (d + e))
      <4>1. SlotFree(s, None, m, m + d + e)
        BY <1>1, <2>2, <3>1, <3>2, SameFree, SlotNumbers DEF Bookable
      <4> QED BY <3>2, <4>1
    <3>5. m + (d + e) <= CloseAt
      BY <3>1, <3>2
    <3> QED BY <3>1, <3>2, <3>3, <3>4, <3>5 DEF computeDoubleSlots, Candidates
  <2> QED BY <2>1, <2>2
<1>2. TypeInv => TypeOK
  BY DEF TypeInv
<1> QED BY <1>1, <1>2, TypeInvariant, PTL
=============================================================================

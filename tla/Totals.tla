------------------------------- MODULE Totals -------------------------------
(***************************************************************************)
(* The two totals kept beside the rows they summarise: a barber's archive  *)
(* of cuts and earnings, written when an account is deleted                *)
(* (routes/auth.ts, read by routes/barber.ts), and a shop's ratingAvg and  *)
(* ratingCount, rewritten by every review, its removal by an admin, and    *)
(* account deletion (routes/reviews.ts, routes/admin.ts).                  *)
(*                                                                         *)
(* All transactions here are READ COMMITTED: a statement sees what has     *)
(* committed and its own writes; writes take effect at the commit, and     *)
(* until then block other writers of the same rows.                        *)
(***************************************************************************)
EXTENDS Integers, FiniteSets, FiniteSetsExt

CONSTANTS Users, Barbers, Shops, Bookings,
          Owner, BarberOf, ShopAt, EndsAt, Price,   \* fixed columns of a booking
          Deal,                 \* discountAmount of a double or a completed referral
          Ratings, Reqs,
          MaxTime,              \* bound: the clock stops here
          None

ASSUME TotalsAssumption ==
    /\ IsFiniteSet(Users) /\ IsFiniteSet(Bookings)
    /\ Owner \in [Bookings -> Users] /\ BarberOf \in [Bookings -> Barbers \cup {None}]
    /\ ShopAt \in [Bookings -> Shops]
    /\ EndsAt \in [Bookings -> Nat] /\ Price \in [Bookings -> Nat]
    /\ Deal \in Nat /\ Ratings \subseteq 1..5 /\ MaxTime \in Nat

VARIABLES
    now,
    status,       \* CONFIRMED, CANCELLED or deleted
    discount,     \* discountAmount
    archived,     \* archivedCuts and archivedEarnings of each barber
    accounts,
    review,       \* the committed Review rows
    rating,       \* ratingAvg (in tenths) and ratingCount of each shop
    op            \* handlers in flight
vars == <<now, status, discount, archived, accounts, review, rating, op>>

Sum == [cuts: Int, earnings: Int]
Keys == Users \X Shops
NoReviews == [count |-> 0, avg |-> 0]

Init ==
    /\ now = 0
    /\ status = [k \in Bookings |-> "CONFIRMED"]
    /\ discount \in [Bookings -> {0, Deal}]   \* a double's cuts are created with it
    /\ archived = [b \in Barbers |-> [cuts |-> 0, earnings |-> 0]]
    /\ accounts = Users
    /\ review = [x \in Keys |-> None]
    /\ rating = [s \in Shops |-> NoReviews]
    /\ op = [o \in Reqs |-> None]

\* What a set of bookings earned, under a table of discounts.
Earned(d, ks) == MapThenSumSet(LAMBDA k : Price[k] - d[k], ks)
SumOf(ks) == [cuts |-> Cardinality(ks), earnings |-> Earned(discount, ks)]
Plus(x, y) == [cuts |-> x.cuts + y.cuts, earnings |-> x.earnings + y.earnings]

\* "Completed = confirmed and already finished."
Completed(b) ==
    {k \in Bookings : BarberOf[k] = b /\ status[k] = "CONFIRMED" /\ EndsAt[k] < now}

CompletedOf(u) == {<<k, discount[k]>> : k \in {k \in Bookings :
                       \E b \in Barbers : Owner[k] = u /\ k \in Completed(b)}}

\* totalCuts and totalEarnings of GET /barber/stats.
Stats(b) == Plus(SumOf(Completed(b)), archived[b])

\* review.aggregate with Math.round(avg * 10) / 10.
Aggregate(rows, s) ==
    LET given == {x \in Keys : x[2] = s /\ rows[x] # None}
        total == MapThenSumSet(LAMBDA x : rows[x], given)
        n == Cardinality(given)
    IN IF n = 0 THEN NoReviews ELSE [count |-> n, avg |-> (20 * total + n) \div (2 * n)]

\* Mutant of ToArchive: the price before the referral discount.
ToArchiveGross(ks) == [cuts |-> Cardinality(ks),
                       earnings |-> MapThenSumSet(LAMBDA k : Price[k], ks)]

\* What DELETE /me archives for the completed bookings it removes: price net of
\* "any referral discount the barber absorbed".
ToArchive(ks) == [cuts |-> Cardinality(ks), earnings |-> Earned(discount, ks)]

-----------------------------------------------------------------------------
(* Handlers and their transactions                                         *)

Blank == [kind |-> "none", user |-> None, shops |-> {}, rating |-> None,
          sums |-> [b \in Barbers |-> [cuts |-> 0, earnings |-> 0]],
          counted |-> [s \in Shops |-> None], read |-> {}, alone |-> TRUE]

\* A handler starts.  Two fields are history: "read", the bookings a deletion
\* summed, and "alone", that no other handler of this module has run at any
\* time since it started.
Start(o, x) ==
    /\ op[o] = None
    /\ LET others == {p \in Reqs : op[p] # None} IN
       op' = [p \in Reqs |->
                 IF p = o THEN [x EXCEPT !.alone = others = {}]
                 ELSE IF p \in others THEN [op[p] EXCEPT !.alone = FALSE] ELSE None]

Running(o, kind) == op[o] # None /\ op[o].kind = kind
Close(o) == op' = [op EXCEPT ![o] = None]

\* The Review rows a handler's transaction has written and not committed.
Written(o) ==
    IF op[o] = None \/ op[o].kind \notin {"putting", "removing", "erasing"} THEN {}
    ELSE {op[o].user} \X (IF op[o].kind = "erasing" THEN Shops ELSE op[o].shops)
Unlocked(o, keys) == \A p \in Reqs \ {o} : Written(p) \cap keys = {}

\* What o's statements see: the committed rows and its own writes.
Seen(o) == [x \in Keys |-> IF x \in Written(o)
                           THEN IF op[o].kind = "putting" THEN op[o].rating ELSE None
                           ELSE review[x]]

\* PUT /shops/:id/review: the visit is checked before the transaction.
ReviewRead(o, u, s, r) ==
    /\ \E k \in Bookings : /\ Owner[k] = u /\ ShopAt[k] = s
                           /\ status[k] = "CONFIRMED" /\ EndsAt[k] < now
    /\ Start(o, [Blank EXCEPT !.kind = "put", !.user = u, !.shops = {s}, !.rating = r])
    /\ UNCHANGED <<now, status, discount, archived, accounts, review, rating>>

\* review.upsert; the author's row is gone: foreign key, the request fails.
Upsert(o) ==
    /\ Running(o, "put")
    /\ IF op[o].user \in accounts
       THEN /\ Unlocked(o, {op[o].user} \X op[o].shops)
            /\ op' = [op EXCEPT ![o].kind = "putting"]
       ELSE Close(o)
    /\ UNCHANGED <<now, status, discount, archived, accounts, review, rating>>

\* DELETE /admin/reviews/:id, findUnique.
ModerateRead(o, x) ==
    /\ review[x] # None
    /\ Start(o, [Blank EXCEPT !.kind = "remove", !.user = x[1], !.shops = {x[2]}])
    /\ UNCHANGED <<now, status, discount, archived, accounts, review, rating>>

\* review.delete; a row already gone fails the transaction.
Remove(o) ==
    /\ Running(o, "remove")
    /\ LET keys == {op[o].user} \X op[o].shops IN
       /\ Unlocked(o, keys)
       /\ IF \A x \in keys : review[x] # None
          THEN op' = [op EXCEPT ![o].kind = "removing"] ELSE Close(o)
    /\ UNCHANGED <<now, status, discount, archived, accounts, review, rating>>

\* DELETE /me, first read: the completed cuts of each barber, as of `now`.
EraseReadCuts(o, u) ==
    /\ u \in accounts
    /\ Start(o, [Blank EXCEPT !.kind = "eraseCuts", !.user = u,
                   !.sums = [b \in Barbers |->
                               ToArchive({k \in Completed(b) : Owner[k] = u})],
                   !.read = CompletedOf(u)])
    /\ UNCHANGED <<now, status, discount, archived, accounts, review, rating>>

\* Second read: the shops the customer reviewed.
EraseReadShops(o) ==
    /\ Running(o, "eraseCuts")
    /\ op' = [op EXCEPT ![o].kind = "erase",
                        ![o].shops = {s \in Shops : review[<<op[o].user, s>>] # None}]
    /\ UNCHANGED <<now, status, discount, archived, accounts, review, rating>>

\* Mutant of EraseWrite: the user is deleted with deleteMany, which does not
\* mind that another request has done so.
EraseWriteAgain(o) ==
    /\ Running(o, "erase")
    /\ Unlocked(o, {op[o].user} \X Shops)
    /\ op' = [op EXCEPT ![o].kind = "erasing"]
    /\ UNCHANGED <<now, status, discount, archived, accounts, review, rating>>

\* The statements up to tx.user.delete, which throws for a user already gone
\* and takes the archive increments back with it.
EraseWrite(o) ==
    /\ Running(o, "erase")
    /\ Unlocked(o, {op[o].user} \X Shops)
    /\ IF op[o].user \in accounts
       THEN op' = [op EXCEPT ![o].kind = "erasing"] ELSE Close(o)
    /\ UNCHANGED <<now, status, discount, archived, accounts, review, rating>>

InTx(o) == op[o] # None /\ op[o].kind \in {"putting", "removing", "erasing"}

\* Mutant of Count: the aggregate leaves the transaction's own write out.
CountBefore(o, s) ==
    /\ InTx(o)
    /\ s \in op[o].shops /\ op[o].counted[s] = None
    /\ op' = [op EXCEPT ![o].counted[s] = Aggregate(review, s)]
    /\ UNCHANGED <<now, status, discount, archived, accounts, review, rating>>

\* review.aggregate of one shop.
Count(o, s) ==
    /\ InTx(o)
    /\ s \in op[o].shops /\ op[o].counted[s] = None
    /\ op' = [op EXCEPT ![o].counted[s] = Aggregate(Seen(o), s)]
    /\ UNCHANGED <<now, status, discount, archived, accounts, review, rating>>

\* barbershop.update from the aggregates, and COMMIT of everything.
Commit(o) ==
    /\ InTx(o)
    /\ \A s \in op[o].shops : op[o].counted[s] # None
    /\ LET u == op[o].user  erasing == op[o].kind = "erasing" IN
       /\ review' = Seen(o)
       /\ rating' = [s \in Shops |-> IF s \in op[o].shops THEN op[o].counted[s]
                                                          ELSE rating[s]]
       /\ archived' = [b \in Barbers |-> Plus(archived[b], op[o].sums[b])]
       /\ status' = [k \in Bookings |-> IF erasing /\ Owner[k] = u THEN "deleted"
                                                                  ELSE status[k]]
       /\ accounts' = IF erasing THEN accounts \ {u} ELSE accounts
    /\ Close(o)
    /\ UNCHANGED <<now, discount>>

\* A crash, a dropped connection, a deadlock or a foreign key that fails a
\* statement: the transaction rolls back.
LoseOp(o) ==
    /\ op[o] # None
    /\ Close(o)
    /\ UNCHANGED <<now, status, discount, archived, accounts, review, rating>>

-----------------------------------------------------------------------------
(* What moves a booking meanwhile                                          *)

BeingErased(k) == \E o \in Reqs : Running(o, "erasing") /\ op[o].user = Owner[k]

\* adminCancelReservation, of past bookings too.
AdminCancel(k) ==
    /\ status[k] = "CONFIRMED" /\ ~BeingErased(k)
    /\ status' = [status EXCEPT ![k] = "CANCELLED"]
    /\ UNCHANGED <<now, discount, archived, accounts, review, rating, op>>

\* A referral pair completes (Referral!ScanWrite), which no clock prevents
\* after the visit.
StampDiscount(k) ==
    /\ status[k] # "deleted" /\ discount[k] = 0 /\ Deal > 0 /\ ~BeingErased(k)
    /\ discount' = [discount EXCEPT ![k] = Deal]
    /\ UNCHANGED <<now, status, archived, accounts, review, rating, op>>

Tick ==
    /\ now < MaxTime /\ now' = now + 1
    /\ UNCHANGED <<status, discount, archived, accounts, review, rating, op>>

Handle(o) ==
    \/ \E u \in Users, s \in Shops, r \in Ratings : ReviewRead(o, u, s, r)
    \/ \E x \in Keys : ModerateRead(o, x)
    \/ \E u \in Users : EraseReadCuts(o, u)
    \/ EraseReadShops(o) \/ Upsert(o) \/ Remove(o) \/ EraseWrite(o)
    \/ \E s \in Shops : Count(o, s)
    \/ Commit(o) \/ LoseOp(o)

Next ==
    \/ \E o \in Reqs : Handle(o)
    \/ \E k \in Bookings : AdminCancel(k) \/ StampDiscount(k)
    \/ Tick

Spec == Init /\ [][Next]_vars

-----------------------------------------------------------------------------
(* Properties                                                              *)

Committing(o, kind) ==
    /\ Running(o, kind) /\ op'[o] = None
    /\ <<review, accounts, rating>>' # <<review, accounts, rating>>

\* No cut is archived twice, however often a deletion is submitted: a barber's
\* archive never counts more cuts than the bookings that were removed.
ArchivedOnce ==
    \A b \in Barbers :
        archived[b].cuts <= Cardinality({k \in Bookings : BarberOf[k] = b
                                                          /\ status[k] = "deleted"})

\* "A deletion no longer rewrites this barber's lifetime totals": a deletion
\* that summed what is still there when it commits leaves cuts and earnings of
\* every barber as they were, discounts included.
ErasureKeepsTotals ==
    [][\A o \in Reqs :
          /\ Committing(o, "erasing")
          /\ op[o].read = CompletedOf(op[o].user)
          => \A b \in Barbers : Stats(b)' = Stats(b)]_vars

\* A review write, removal or account deletion that nothing overlapped leaves
\* the rating of every shop it touched equal to what its reviews say.
RatingTrueWhenAlone ==
    [][\A o \in Reqs :
          /\ op[o] # None /\ op[o].alone
          /\ Committing(o, op[o].kind)
          => \A s \in op[o].shops : rating'[s] = Aggregate(review', s)]_vars
=============================================================================

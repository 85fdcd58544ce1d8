# A formal model of brb-backend

brb-backend is the HTTP API of a barbershop booking app: an Express server over
one Postgres database, reached through Prisma (`src/src/**`, schema in
`src/prisma/schema.prisma`). This directory holds TLA+ models of its booking,
referral, account, totals, reminder, broadcast, administration and shutdown logic,
the TLC configurations that check them on small instances, and TLAPS proofs of
their safety properties for instances of every size.

The difficulty of this code is not in its data but in its interleavings. A
request handler is an `async` function: between two `await`s any other request,
a barber's decision, an admin's edit, an account deletion or a background sweep
may run. Handlers defend themselves with SERIALIZABLE transactions that are
retried, with compare-and-swap updates (`updateMany` with the expected status in
its WHERE), with unique keys and one exclusion constraint, or not at all. The
models keep exactly that: the reads, the writes, their order, and what may have
changed in between.

Paths below are relative to the repository's root as laid out under `src/`.

## 1. Inventory

| Component | State it owns | Operations that change it | Interacts with |
|---|---|---|---|
| Booking: `services/booking.ts`, `services/doubleBooking.ts`, `routes/reservations.ts` | `Reservation` rows | create, create a double ("book for two"), cancel, admin cancel | reads shops, barbers, hours; releases referral pairs; notifies |
| Barber workspace: `routes/barber.ts` | `Reservation.status`, `Barber.autoApprove`, decision notifications | accept, decline, toggle auto-approve and confirm the backlog, mint the referral QR | reservations, notifications, referral |
| Referral: `services/referral.ts` | `ReferralPair`, `ReferralToken`, `Reservation.discountAmount` | invite, join by code, scan, void | reservations (their status), shop offer |
| Availability: `services/availability.ts`, `computeDoubleSlots` | none (derived from hours and reservations) | none | must agree with what booking accepts |
| Accounts: `routes/auth.ts`, `lib/jwt.ts` | `User`, `RefreshToken`, `Barber.archivedCuts`, `archivedEarnings` | Google/Apple sign-in upsert, refresh-token rotation, logout, profile edit, one-time name, account deletion | deletion removes reservations, reviews, tokens |
| Reviews: `routes/reviews.ts` | `Review`, the shop's `rating` and `ratingCount` | upsert review and aggregate | reservations (who may review) |
| Admin: `routes/admin.ts` | shops, barbers, services, hours, subscriptions, administrators, Barber of the Week, cities, admins | edits, subscription renewal/cancel, disabling administrators, ranking, broadcast | every other component |
| Reminders: `services/reminders.ts` | `Reservation.reminderSentAt` | sweep: claim and notify | reservations |
| Maintenance: `services/maintenance.ts` | expired tokens, old notifications and audit rows, `referralDiscount` | chunked retention sweep, promo expiry | referral offer |
| Broadcast: `services/broadcast.ts` | the process-local "running" flag, `Notification` rows | paged feed and push waves | users (created and deleted meanwhile) |
| Notifications and push: `lib/notify.ts`, `lib/push.ts`, `routes/notifications.ts` | `Notification`, device tokens | best-effort delivery | external push service |
| Lifecycle: `server.ts`, `app.ts` | timers, the listening socket | start, graceful shutdown with a deadline | all background jobs |
| Catalog, middleware, `lib/*` | none | read-only listings, validation, formatting, time arithmetic | - |

Behaviours that are hard to get right, and what correctness means there:

* **Booking.** Requests race for a slot, for the last chair, and for the
  customer's one active booking (`ONE_ACTIVE_BOOKING` spans all shops). The
  transaction works on a snapshot, is retried on `P2034`, and decides with shop
  data loaded before the first attempt. The exclusion constraint in the database
  knows barbers but neither the grace period nor chairs. Correct: one active
  booking per customer, no lost grace period per barber, never more chair bookings
  than chairs, an answer for every request.
* **Decisions and cancellation.** Cancel, admin cancel, accept, decline and the
  auto-approve backlog read a status and write later. Correct: decisions are
  final, the two-hour cutoff holds also when the barber accepts in between,
  doubles are cancelled whole, customers are told what happened.
* **Referral.** Two people redeem one code, scan in either order, repeat scans,
  cancel half way; a cut of a double, discounted since it was created, may be one
  side. Correct: the discount lands on both bookings of two people who
  scanned together, once, with the promised amount.
* **Accounts.** Deletion sums earnings before the transaction that deletes;
  refresh tokens may be presented twice; two first sign-ins of one identity race.
  Correct: one good token per session, a session that ended stays over, a sign-in
  ends on the account of its identity, totals survive deletions.
* **Aggregates and sweeps.** The shop's rating is an aggregate written at READ
  COMMITTED; the reminder claim does not re-check the status; the broadcast pages
  over a table that changes; the sweep is chunked and stops at the first error.
  Correct: one reminder, in time; everybody who was there throughout is reached,
  once; a promo ends although sweeps are cut short.
* **Lifecycle.** Signals, exceptions and database outages come at any time.
  Correct: no request is refused or cut off, every shutdown ends.
* **Admin.** Two administrators disable each other; two renewals of one
  subscription read the same period end; the broadcast check is not atomic with
  its start. Correct: somebody can still sign in, a disabled administrator cannot
  for long, a shop gets the months it paid for.

Each is listed at its line under `hazards` in `PROJECT.json`, with the properties
that cover it or the reason why none does.

## 2. Modules

```
Reservations          table of reservations, its queries and updates (no behaviour)
  |-- ReservationBook abstract: every booking, decision, cancellation is atomic
  |-- Booking         the handlers, statement by statement; Implements == the book
  |     `-- Availability          the free times shown, over Booking's tables
  |           `-- MCBooking       instances for TLC
              `-- BookingProofs   lemmas on the table, types, the transaction
                                  invariant and its consequences, Spec => Implements,
                                  the life of a reservation, the times shown
Referral              pairs, codes, QR tokens, scans, discounts
  |-- MCReferral      instances for TLC
  `-- ReferralProofs  types, pairs, presence and discounts
Accounts              sign-in, refresh tokens, the one-time name
  |-- MCAccounts
  `-- AccountsProofs  types, rotation, ended sessions, names, Google identities
Totals                archived earnings and ratings beside the rows they summarise
  |-- MCTotals
  `-- TotalsProofs    the archive, ratings, totals across a deletion
Reminders             sweeps of several processes over one table
  |-- MCReminders
  `-- RemindersProofs types, one reminder, in time, cancelled bookings
Broadcast             announcements, users and devices
  |-- MCBroadcast
  `-- BroadcastProofs types, nobody twice, nobody forgotten, one at a time
Admin                 administrators and subscriptions
  |-- MCAdmin
  `-- AdminProofs     disabled sessions, the last administrator, months paid for
Lifecycle             one process from boot to exit, with its retention sweep
  |-- MCLifecycle
  `-- LifecycleProofs types, leaving the rotation, requests in flight
```

The modules share the database; each has the tables its own properties relate, and
the writes of other components that touch them as actions (an account deletion
appears in Booking, Accounts, Totals, Broadcast and Reminders, a cancellation in
Booking, Referral, Totals and Reminders). Two components are in one module where
their steps race for the same rows and a property needs both: booking with
decisions, backlog and barber flags; availability with booking; reviews with
moderation and deletion; broadcast with its callers, users and devices; shutdown
with the balancer and the sweep.

### Reservations

Time is counted in slot steps (`SLOT_STEP_MIN`). A reservation is a record of its
customer, shop, barber (or `None` for a chair), start, end, status and whether it
belongs to a double. Rows are named `<<q, k>>`: the k-th cut inserted by booking
request `q`; so "same `groupId`" is "same first component", and row ids are fresh
by construction, like `cuid()`. `ActiveOf`, `Overlapping` and `Taken` are the three
queries of `runBookingTx`; `Inserted`, `WithStatus` and `Without` the
writes (`create`, `updateMany`, `deleteMany`).

### Booking

| Action | Code |
|---|---|
| `Load` | everything `createReservation` / `createDoubleBooking` do before the transaction: shop, barbers and flags captured; opening hours, slot grid, lead time, horizon and (for doubles) the offer checked |
| `BeginTx` / `RefuseTx` | the transaction's reads on one snapshot: active bookings, overlapping rows, the free barber; `ONE_ACTIVE_BOOKING` or `SLOT_TAKEN` |
| `CommitTx` | the insert(s) and COMMIT |
| `AbortTx` | `P2034`, with the bounded retry loop |
| `FailTx` | any other error, the 10 s timeout, a crash |
| `CancelRead`, `AdminCancelRead`, `CancelWrite` | read and checks; then `updateMany` on `groupWhere` |
| `DecideRead`, `DecideWrite` | accept and decline: check, then compare-and-swap and notification in one transaction |
| `ToggleAuto`, `FetchBacklog`, `ConfirmBacklog` | the three statements of `PATCH /auto-approve` |
| `ToggleActive` | an admin (de)activates a barber |
| `DeleteAccount` | the transaction of `DELETE /me`, as far as it touches reservations and notifications |
| `LoseOp` | a crash or lost connection between two statements of a handler |
| `Tick` | time passes |

*Isolation.* A booking transaction runs at SERIALIZABLE. Postgres implements it
by snapshots plus conflict detection: of two concurrent booking transactions that
both fail to see a row the other's queries would have returned, at most one
commits. Both predicates of `runBookingTx` (same customer; same shop and
overlapping with the grace period) are symmetric between bookings, so a
transaction that missed a committed row its queries cover is the pivot and
aborts: `SerializationFailure` is that condition. The database may abort more
often (page-granular predicate locks); `AbortTx` is therefore always possible.
All other writes run at READ COMMITTED, where an UPDATE re-evaluates its WHERE on
the current row; they are one atomic step each.

*Abstractions.* Opening hours are one interval for all shops and days, and the
closed-day, shop-visibility and service-ownership checks are preconditions
(the instances only contain bookable shops); prices and names are left out. Which
of several free barbers is taken is left open: the code takes the first of
`shop.barbers`, loaded without an order. A handler spans at most one slot step
(15 minutes), which its timeouts justify (`maxWait` 5 s and `timeout` 10 s, four
attempts). Sending the push message is left out; the notification row is kept for
decisions.

### ReservationBook

What booking promises, without snapshots: `Reserve` enters a reservation only if
at that instant the customer has no active booking and there is `Room`; `Decide`
moves PENDING rows, `Release` cancels holding rows, `Forget` deletes a customer's
rows, `Pass` lets time pass. `Booking!Implements` is this specification under the
identity mapping on the clock, the table and the accounts.

### Referral

A pair is known by its inviter's booking (`inviterReservationId` is unique), and
that is also its code. `InviteRead`/`InviteWrite`, `JoinRead`/`JoinWrite` and
`ScanRead`/`ScanWrite` split each handler at its last await before the write: the
unique key, the claim's WHERE and the serializable transaction of `recordScan` are
the guards of the writes. `MintBarberToken` is the barber's QR, `EndBooking` a
cancellation or decline, `VoidPair` the separate best-effort statement that
releases the pair, `SetDeal` the admin's edit of the offer and its expiry,
`LoseOp` a crash between two statements. A forged or foreign QR and a random code
collision are left out, and so is the cascade of an account deletion on pairs.

`Given` is the discount a booking was created with: none for a single, the shop's offer
of that moment for both cuts of a double (`doubleBooking.ts:248,299`), which `GroupOf`
groups for cancellations. Nothing in `createInvite` or `joinInvite` looks at
`groupId`, so a cut of a double is invited, redeems a code and is scanned like a single;
the stamp's `discountAmount = 0` then leaves it the discount it has, and stamps the
friend's. So `DiscountOnBoth` explains a discount by a completed pair only where it
differs from `Given`. That the column "stays 0 until BOTH people in the pair scan"
(`schema.prisma:255`) holds for singles.

### Availability

`computeFreeSlots` and `computeDoubleSlots` repeat the rules of booking in code of
their own. The module extends Booking, so it reads the tables in every state booking
reaches, and compares: what is offered is bookable, what is bookable is offered.
`Bookable` is what `createReservation` or `createDoubleBooking` would answer at that
moment to a customer without a booking. Two differences are in the code and excepted:
slots are offered beyond the booking horizon, and a shop that opens off the
15-minute grid is offered slots off the grid, which booking refuses.

### Accounts

Every handler of `routes/auth.ts` but the deletion is a sequence of single
statements, each an action; `op` holds what a request has read. A user row is the
email, the two provider identities, the name and `nameChosen`.

| Action | Code |
|---|---|
| `SignIn`, `FindByEmail` | `findUnique` by googleId or appleId, then by email |
| `UpdateMatched`, `LinkByEmail`, `CreateUser`, `Refetch` | the writes of `upsertGoogleUser` and `upsertAppleUser`, with what each provider does on `P2002` and `P2025` |
| `IssueTokens` | `issueTokens`; the foreign key fails for a deleted user |
| `RefreshRead`, `Claim`, `RevokeFamily` | `POST /refresh`: lookup, compare-and-swap on `revokedAt`, reuse |
| `Logout`, `ChooseName`, `DeleteAccount`, `SweepTokens` | single statements or one transaction |
| `LoseOp` | a crash or dropped connection between two statements |

Rows are inserted once per id and a deleted id is not used again (`Gone`). A token
carries the session it descends from, as history: the code has no such column, and
that no session ever has two good tokens is the property.

### Totals

A barber's `archivedCuts` and `archivedEarnings`, and a shop's `ratingAvg` and
`ratingCount`. A handler's transaction is split at each aggregate (`Count`), since at
READ COMMITTED each statement has a snapshot of its own; writes take effect at
`Commit`, and `Unlocked` is the row lock that makes a second writer of the same
review wait. A booking starts with no discount or, as a cut of a double, with the offer's,
and may be stamped later. `alone` and `read` are history and only state the premises of the
properties.

### Reminders

Several sweeps, of several processes, in flight: `StartSweep` reads at most `Take`
rows in no particular order, `Claim` is the compare-and-swap of one row, `Notify` the
feed row (which may fail), `FailSweep` the catch of the whole sweep, `Die` a crash.
One step of the clock covers several runs of the timer; `Tick` assumes that one of
them, of any process, begins in that step and ends well.

### Broadcast

One process: the `running` and `aborted` flags, the three callers (`Arrive`, `Refuse`,
`SetRanks`), the feed phase page by page (`ReadUsers`, `InsertFeed`), the push phase
in the background (`ReadDevices`, `Send`), and users and devices that come and go
between two pages. What the database library returns for a cursor whose row is gone
is left open (`Pages`): the rows after its key, or none. `Shutdown` sets `aborted`,
`Restart` is the end of the process and the start of the next.

### Admin

`ReadLogin`/`Login`, `ReadTarget`/`CountActive`/`Disable` and
`ReadSubscription`/`Assign` are the statements of the three handlers that decide on
something they read before; the others are one step. `SignedIn` is `requireAdmin`: the
token is verified, the row is not looked up. Dates are pairs of month and day, since
the clamping of `addMonths` is about days; `lastActive`, `overlapped`, `anchor`, `paid` and
`alone` are history: a renewal that another write of the subscription overtook begins a
new anchor, since the months of one of the two are lost. A request ends before the clock moves on: it runs for seconds,
the clock in days.

### Lifecycle

One process (`phase`), the requests it is handling, the readiness cache, the timers of
the sweep, and around it a load balancer that probes at least every `PollEvery`, a
platform that starts the next process, and a database that may stop answering. Time
is counted in units of the probes. A sweep is `StartSweep`, `DeleteChunk` for each
statement of `deleteInChunks` and `ExpireDiscounts` at its end. These statements need the
database; while it is down the sweep's next one rejects and the catch ends it
(`SweepRejected`), and `SweepFails` is any other failure of a statement. `Shutdown` stands for the signals and the two
crash handlers, `Drained` for the callback of `server.close` and the disconnect.

## 3. Runs

All runs are closed (every reachable state is explored). `shutdown`, `broadcast` and
`admin` check for deadlock too; in the others the modelled system may stop, once
each request is used up and the clock has reached its bound.

| Run | Shows | Instance |
|---|---|---|
| `booking_race` | `BufferKept`, `OfferedIsBookable`, `Implements` under racing requests, aborts, crashes | two customers, three requests (singles and doubles), a shop of two barbers with a grace period |
| `booking_shops` | `OneActiveBooking` across shops, `ChairCapacity`, `BookableIsOffered`, `Answered`: the retry loop ends | a shop whose barber may be deactivated between load and insert (it then falls back to its chair), a shop of two chairs, two lengths, one retry, fairness |
| `booking_decisions` | `DecisionsFinal`, `CutoffHolds`, `DoubleCancelledWhole`, `DeclineTold`, `TypeOK` | two requests of a customer, two concurrent handlers of every kind, account deletion |
| `referral_pairs` | `ScansTogether`, `DiscountOnBoth`, `DiscountOnce`, `PairForward`, `TypeOK` | two singles and a cut of a double, two concurrent handlers, two instants, an offer that ends and comes back |
| `accounts` | `RotationKept`, `EndedForGood`, `SignInFindsIdentity`, `NameSettles` | two user rows, two tokens, two requests; a Google identity with two emails, an Apple identity with the first of them or none |
| `totals` | `ArchivedOnce`, `ErasureKeepsTotals`, `RatingTrueWhenAlone` | two customers with a booking each at one barber, two handlers, three instants |
| `reminders` | `RemindedOnce`, `RemindedInTime`, `CancelledStaysQuiet` | two bookings, two processes, two sweeps that read one row each |
| `broadcast` | `OneAtATime`, `ReachedOnce`, `ReachesAll`, `Released` | two announcements, two users in pages of one, two devices in pages of two, two changes of rows |
| `admin` | `OneLeftWhenAlone`, `DisabledFadesOut`, `PaidTime` | two administrators, two requests, two plans, three dates at ends of months |
| `shutdown` | `NoRequestRefused`, `NoRequestCutOff`, `OutageNoticed`, `ShutdownEnds`, `PromosExpire` | one request, two tables, two faults |
| `booking_backlog` | violation of `AcceptedMeansConfirmed` | one request, a cancellation and the backlog |
| `referral_two_sides` | violation of `OnePairPerBooking` | an invite racing a join |

*Why the bounds are enough.* A lost race needs two requests; the third one in
`booking_race` is there for a booking whose effect is seen by one of the racers
and missed by the other. Two starts and the grace period make slots that touch,
that keep the gap, and that overlap; two shops make the customer's rule and the
slot's rule independent. `MaxRetries` is 0 in the first and third run: a retry begins
again with the request's arguments and a new snapshot, so it reaches the state of
a request loaded earlier, and more attempts add no new interleaving of the table;
`booking_shops` has a retry, and the proofs hold for any number. A handler in
flight holds one stale read and a second one can invalidate it, hence two `Ops`,
`Reqs` or handlers everywhere. In `referral_pairs` three bookings make a chain of
pairs (inviter of one, friend of another), and two instants with `Window = 0` make
scans that are close and scans that are not. One of the three is a cut of a double, created
under an offer (2) that differs from the later ones (1, and 0 for an offer that ended), so
a stamp that overwrote it would show, and so would one with the shop's present amount
instead of the promised one. Its other cut joins no pair in this run; the proofs hold for
any doubles. Two tokens are a session and its
rotation, or two sessions; the two Google addresses make the email change, clash and
be linked. In `reminders` `Take` is smaller than the number of bookings, so sweeps
leave rows to later ones. Pages of one user make a cursor for every row, pages of two
devices make full, short and empty pages. January 31, February 28 and April 30 are
the dates at which a month added by clamping, twice, differs from two months added
at once. In `shutdown` the expired rows (`MaxRows`) fill more than one chunk, and the
grace period is longer than a probe interval, as in production.

*Bounds by name:* `MaxTime` and `Days` stop the clock; `MaxRetries` is the code's
constant; `Reqs`, `Ops`, `Sweeps`, `Casts`, `UserIds`, `TokenIds` bound what is under way
or inserted; `MaxChanges`, `MaxFaults`, `MaxRows` bound how often something
happens; `MaxMonth` is the last month in which a subscription may end; `Starts`, `Durations`, `Amounts`, `Months`, `Identities`, `Ratings` are the inputs
enumerated.

*Symmetry.* Customers, requests, barbers of one shop, handlers, rows without an
order, servers, sweeps, plans and administrators are interchangeable where the
configuration permutes them; no liveness property is checked under symmetry.

*Fairness.* Three runs assume some, all weak. `booking_shops`: `RunTx(q)` of each
request, that is, the event loop keeps running a request it has accepted, and the
database answers or times out (`maxWait`, `timeout`). `broadcast`: `Proceed` of each
announcement, since queries are answered or fail (statement timeout), FCM calls time
out and the timer between pages fires. `shutdown`: the clock, the balancer's probes,
the timers and callbacks of the event loop, the sweep's statements (answered, or
rejected while the database is down) and the platform's restart; requests need not be
answered, which is what the deadline is for. Nothing obliges customers to call, staff to
decide or a database to recover: `PromosExpire` says so in its premise, `[]<>database`,
that the database keeps coming back. In an outage that never ends no sweep reaches the
promo expiry, and the property claims nothing.

### Where the code and its words part

The two runs that end in a violation show behaviours of the code that a comment
contradicts; the quotations are under `findings` in `PROJECT.json`.

* The backlog confirmation announces acceptance for every fetched request,
  including those cancelled since the fetch.
* A booking can become the inviter of one pair and the friend of another.

Modelling met more places where the code does less than one might read into it. The
behaviours are in the models, and the properties state the part that holds:

* Booking. A barber decides each cut of a double separately, so one cut may be
  declined and the other stay (`schema.prisma:262-263`: "lives and dies together");
  the cutoff is checked on the requested cut only, so a double cancelled through its
  second cut loses a first one inside the cutoff (`booking.ts:12,322`).
* Referral. A pair can complete after one of its bookings was cancelled, while its
  release is still to come or was lost (`booking.ts:339`); a stale first scan is not
  refreshed as long as the friend has not scanned (`referral.ts:334-336`).
* Accounts. A sign-in in flight overwrites a name chosen meanwhile with the one it
  read (`auth.ts:163-166`, `276`, `292`). A Google account with the address of
  another takes its row over (`auth.ts:290-293`), and an Apple sign-in whose link
  clashes goes on with the row it matched by email (`auth.ts:353-357`). A refresh in
  flight survives the logout of its token; a refresh that races a logout or the
  sweep revokes every session of the user.
* Totals. A rating can stay stale after two concurrent writers, until the next review
  (`reviews.ts:40-41`). A booking that completes, is cancelled or is discounted between
  a deletion's sums and its transaction changes a barber's totals (`auth.ts:207`).
* Reminders. The claim does not look at the status again, and a crash between claim
  and feed row loses the reminder.
* Broadcast. The flag is local to a process. A ranking whose broadcast is refused
  after all is answered with 500 and stays unannounced. A broadcast that starts while
  the process drains resets `aborted` (`broadcast.ts:90`). A cursor row that is
  deleted, a pruned device among them, may end the walk early.
* Admin. Two administrators who disable each other leave none active
  (`admin.ts:1187`). Of two renewals at once one is lost; a renewal may undo a
  cancellation. The token of a disabled administrator works until it expires.
* Lifecycle. The timer of the first sweep is not kept, so a shutdown does not stop it
  (`maintenance.ts:137`); an uncaught exception after SIGTERM exits with 0; outside
  production the grace period is 0, and `NoRequestRefused` has nothing to promise. The
  promo expiry comes last in one try block (`maintenance.ts:115-121`), so a table whose
  statement fails in every sweep keeps all of them from it. Failures are finitely many in
  the model (`MaxFaults`), so `PromosExpire` is about errors that pass.

## 4. Proofs

`TypeCorrect`, `OneActive`, `Buffers`, `Chairs`, `Refinement`,
`FinalDecisions`, `WholeDoubles`, `DeclinesTold`, `CutoffKept`, `OfferedBookable` and
`BookableOffered` hold for all sets of customers, shops, barbers, requests and handlers,
all buffers, chairs, hours and retry limits, under the assumptions of `Reservations` and
`Booking`: constants have the evident types, the set of requests ever made is finite
(`FiniteAssumption`; the chair argument counts rows), and `None` is no row and no barber.
The other proof modules are as general. Their assumptions are the types of the constants
and: finitely many bookings in Reminders and bookings and users in Totals, whose
properties count them; an identity token has a subject, and Google's an email, in
Accounts (`googleAuth.ts:53`, `appleAuth.ts:113`); user and device ids are positive numbers
in Broadcast, which stands for their order; `DrainGrace < Deadline` in Lifecycle; months
of 28 to 31 days in Admin.

*Types.* `TypeInv` adds to `TypeOK` that a request in its transaction carries its
arguments (`AskInv`): cuts in order, inside the opening hours, eligible barbers of
the shop asked for. `TypeOK` alone is not inductive, because a commit copies those
arguments into the table.

*Safety.* None of the safety invariants is inductive: at the commit, nothing in
the table says that the slot is still free. The strengthening is `SnapshotInv`:
while a transaction is between its reads and its commit, the rows of its snapshot
contain no active booking of its customer and leave the chosen barber (or a chair)
free *now*, not only when they were read. It is kept because every other write
only releases rows (`OnlyReleases`: cancel, decide, delete, and no row id is used
twice, since rows stem from answered requests, `RowInv`) and because time only
ends bookings (`ReleaseKeeps`). At the commit the serialization check says that no
row outside the snapshot matters, so both together describe the whole table
(`CommitFinds`), and the insert keeps the invariants (`CommitKeeps`). The chair
count needs `ChairInv` at every instant, not only where bookings start.

*Refinement.* `BookingStep` maps each action to a step of the book or a stutter;
`CommitReserves` is `CommitFinds` read in the book's terms. `FinalDecisions` and
`WholeDoubles` are case analyses over the writes.

*Stale reads.* `DeclinesTold` needs `OneDecided`: a decision names one request, so a
compare-and-swap that wrote a row wrote that one, the one the notice is about.
`CutoffKept` needs `ReadsCurrent`, what an open handler still knows: it began at most one
slot step ago, and the row it cancels, if read CONFIRMED, was outside the cutoff then.
Both stay true because rows do not move and deleted ids do not come back (`Steady`);
a single is cancelled only in the status that was read.

*Referral.* `ReferralProofs` proves every property `referral_pairs` checks, for all
sets of bookings, singles and cuts of doubles, shops, handlers and offers,
under the assumptions of `Referral`.
`TypeInv` adds what handlers in flight have read (`OpInv`: an invitation promises a
real amount, a join or scan names an existing pair) and what a pair promises
(`PairInv`). `Forward` says how any step may change the pairs: never the friend, the
amount, or anything of a completed or void one; it makes stale reads harmless and
is proved with the types (`TypeNext`). `OnlyScans` isolates the one step that
completes pairs and stamps bookings, and `ScanStamps` says what it does, so
`ScansTogether`, `DiscountOnBoth` and `DiscountOnce` are each inductive relative
to `TypeInv`.

*Reminders.* `RemindersProofs`: that the feed has at most one row per booking is not
inductive, since a sweep that has claimed a booking writes its row later. `Claimed`
adds that a booking in the feed, or claimed by a sweep, carries `reminderSentAt`, that
at most one sweep holds it, and that it is not in the feed yet while one does. Steps
that claim nothing keep it by one lemma (`NoNewClaim`). `CancelledIsQuiet` follows from
types and the WHERE of the sweep's read. `ReminderInTime` counts: while a booking
waits in its window, every step of the window that has had a sweep that ended well has
settled `Take` other bookings (`ServedInv`), so when the window is over there are more
settled bookings than bookings, if the sweeps of a window can read them all. Sweeps
under way count with the rows they hold, and a row deleted under one counts as settled.

*Accounts.* `AccountsProofs`: `RotationKept` needs that every session named by a token
or a request has begun (`SessionsBegun`), so that a session of a new token is new, and
that a refresh belongs to the session of the token it presents. Two lemmas cover all
actions but `Claim` and `IssueTokens`: tokens that only fade and requests that only end
keep it. `SessionsEnd` uses the same invariant, `NamesSettle` only the types.
`GoogleFindsItsAccount` has an invariant of its own, `LinkInv`: no two accounts carry one
Google identity, the address of an account that carries one is an address of that
identity (`Carried`), and the row a sign-in holds carries its identity, or carries none
and has its address, or was deleted (`Fits`). It is inductive only under the property's
premise that addresses do not pass between Google accounts, which is where the link
that takes a row over would break it. `Grown` is what any write may do to a row as far as
the sign-ins in flight are concerned.

*Admin.* `AdminProofs`: `SessionsEarned` says that a session, and a sign-in about to
open one, is not younger than the last moment its administrator was active; `OneSpared`
says that unless two requests to disable someone overlapped there is at most one, and
that when it is about to write somebody else than its target is active, which is what
the count showed (`FiniteSetTheorems`) and no other step undoes. `MonthsPaidFor` rests on
`Sells` (a request about to write, if nothing overtook it, holds the row as it is) and
`MonthsAdded`: `AddMonths` lands in the month so many months on, on no later a day. The
anchor's day bounds the end of every later renewal, so nothing is gained by clamping.

*Times shown.* `OfferedBookable` and `BookableOffered` need only the types. `SameRows`
says that the rows the slot loop counts against a block within the opening hours are
those a booking of the block collides with, `SameFree` that both then find the same
barber or chair, `SameGrid` (division with remainder) that the slots of a shop that
opens on the grid are the multiples of the step.

*Totals.* `TotalsProofs`: `ArchivedOnce` needs `ErasedOnce` (one request at a time is
deleting an account, the account is still there, and a booking whose owner is there is
not deleted) and that a request archives no more cuts of a barber than its customer has
bookings there; the deletion then removes as many rows as the archive may grow by
(`FiniteSetTheorems`). `RatingTrueWhenAlone` needs `Undisturbed`: a request that is
alone is the only one, and each aggregate in its transaction is still the aggregate of
what it sees. The arithmetic of `Aggregate` is not looked into, only that equal reviews
give equal ratings. `ErasureKeepsTotals` needs `SumInv`: what a deletion will archive is
what the cuts it has read earned, at the discounts it has read. At the commit these are
the cuts it removes, and what is left of a sum is the rest of it. That last fact is about
the fold `MapThenSumSet`, which goes through a set in an order that `CHOOSE` fixes.
`EarnedFirst` shows that the function the fold defines exists, `EarnedOne` that any
element may be taken first, `EarnedSplit` that a set may be summed in two parts. Each takes
a smallest set for which it fails (`LeastSet`, from the well-foundedness of the subset
ordering of finite sets) and finds a smaller one; so no induction theorem with an operator
as parameter is needed.

*Broadcast.* `BroadcastProofs` reasons about a walk by its cursor: `Reached` (nobody
twice, nobody past the cursor), `Covered` (of those who were there at the start and
still are, everybody up to it), `PageCovers` (a page skips none of them, and a short page
is the last). `Progress` says this of the feed and of the pushes of each announcement,
and that who was there when it began does not come back (`Known`). The pages are
arbitrary finite sets of keys: that the first `n` of a set have a greatest element, are
closed downwards, and are all of it when fewer than `n`, are lemmas proved from the
well-ordering of the naturals and `FiniteSetTheorems`. `OneInv` is `OneAtATime` without
cardinalities.

*Lifecycle.* `LifecycleProofs`: `DrainInv` (while requests still come, the drain is no
older than the last probe), `OutageInv` (a cached success is no younger than the outage;
a balancer that still sends was answered within a cache lifetime and a probe interval) and
`DrainedInv` (a process that closed has no request open) are inductive together.

*Left to TLC.* `Answered`, `Released`, `ShutdownEnds` and `PromosExpire`: liveness under
fairness is outside what the prover does here. The properties of the violation runs are
false, so there is nothing to prove. `AddMonths`
is proved to add months and to clamp the day, with `MonthLength` any function with values
from 28 to 31.

## 5. Not modelled, and the plan

Done: every component that keeps state of its own. What is left out, and why:

* The development-only test login, and the verification of identity tokens, which
  the identity providers' libraries do.
* Cities, plans, services, opening hours and the other fields of a shop edit: single
  statements, or one transaction, guarded by foreign keys. `bufferMin` and `chairCount`
  are constants of Booking, so a change of them between two bookings is not covered.
* The rank transaction of Barber of the Week, of which Broadcast keeps only its place
  between check and start.
* To whom a device row belongs (it changes hands and keeps its id), and marking
  notifications read.
* The cascade of an account deletion on referral pairs.
* Catalog listings, the barber's day views and response formatting (read-only),
  validation and rate limiting (library middleware), push delivery (an external
  service), localisation, moderation word lists and audit rows (no behaviour depends
  on them). Conversions between a shop's local dates and instants are one fixed offset.

What would come next: the cascade of an account deletion on referral pairs, and changes of
`bufferMin` and `chairCount` between bookings.

----------------------------- MODULE Broadcast ------------------------------
(***************************************************************************)
(* The platform-wide announcements (services/broadcast.ts) of one server   *)
(* process, with the three callers of the admin panel that start one and   *)
(* the shutdown that ends one early.  A broadcast pages through the users  *)
(* and writes a feed row for each, answers its caller, then pages through  *)
(* the devices in the background.  Users and devices come and go meanwhile. *)
(*                                                                         *)
(* A page starts after a cursor, the row the last page ended with.  What   *)
(* the database library returns when that row is gone is left open: the    *)
(* rows that follow its key, or none.                                      *)
(***************************************************************************)
EXTENDS Integers, FiniteSets, FiniteSetsExt

CONSTANTS UserIds,     \* primary keys of users, ordered
          RowIds,      \* primary keys of device rows, ordered
          Casts,       \* bound: announcements asked for
          MaxChanges,  \* bound: rows of users and devices that come or go
          FeedBatch, PushBatch

ASSUME BroadcastAssumption ==
    /\ UserIds \subseteq Nat \ {0} /\ RowIds \subseteq Nat \ {0}
    /\ MaxChanges \in Nat /\ FeedBatch \in Nat \ {0} /\ PushBatch \in Nat \ {0}

VARIABLES
    users,      \* of each id: "unborn", "there", "gone"; ids are not reused
    device,     \* of each row id: "unborn", "there", "dead" (FCM no longer knows
                \* its token), "gone"
    changes,    \* of users and devices so far
    draining,   \* the process was told to stop: it takes no new request
    running, aborted,
    cast        \* of each announcement: how far it is
vars == <<users, device, changes, draining, running, aborted, cast>>
data == <<users, device, changes>>

There == {u \in UserIds : users[u] = "there"}
Registered == {r \in RowIds : device[r] \in {"there", "dead"}}

\* answered: its caller was answered with success, not with 409 or 500.  The rest
\* is history: who was there when it began (users, rows),
\* how often each was reached (fed, pushed), whether the row of a
\* cursor was missing when the next page was read (gap).
NewCast == [kind |-> "none", st |-> "idle", cursor |-> 0, page |-> {}, answered |-> FALSE,
            users |-> {}, rows |-> {}, gap |-> FALSE,
            fed |-> [u \in UserIds |-> 0], pushed |-> [r \in RowIds |-> 0]]

\* One that ended, its history forgotten.
Ended == [NewCast EXCEPT !.st = "over"]

Init ==
    /\ users \in [UserIds -> {"unborn", "there"}]
    /\ device \in [RowIds -> {"unborn", "there"}]
    /\ changes = 0
    /\ draining = FALSE /\ running = FALSE /\ aborted = FALSE
    /\ cast = [c \in Casts |-> NewCast]

-----------------------------------------------------------------------------
(* The callers                                                             *)

\* POST /barber-of-week; "news" is POST /announcements, or the announcement of a
\* deal that a shop edit starts.
Arrive(c, kind) ==
    /\ cast[c].st = "idle" /\ ~draining
    /\ cast' = [cast EXCEPT ![c].kind = kind, ![c].st = "arrived"]
    /\ UNCHANGED <<data, draining, running, aborted>>

\* isBroadcastRunning: answered 409, or the deal goes unannounced.
Refuse(c) ==
    /\ cast[c].st = "arrived" /\ running
    /\ cast' = [cast EXCEPT ![c] = Ended]
    /\ UNCHANGED <<data, draining, running, aborted>>

\* The transaction that sets the week's ranks lies between the check and the
\* broadcast of POST /barber-of-week.
SetRanks(c) ==
    /\ cast[c].kind = "week" /\ cast[c].st = "arrived" /\ ~running
    /\ cast' = [cast EXCEPT ![c].st = "ranked"]
    /\ UNCHANGED <<data, draining, running, aborted>>

Ready(c) ==
    \/ cast[c].st = "ranked"
    \/ cast[c].st = "arrived" /\ cast[c].kind # "week" /\ ~running

-----------------------------------------------------------------------------
(* broadcastToAllUsers                                                     *)

\* Mutant of Start: a second broadcast is not refused.
StartAnyway(c) ==
    /\ Ready(c)
    /\ cast' = [cast EXCEPT ![c].st = "reading", ![c].users = There, ![c].rows = Registered]
    /\ running' = TRUE /\ aborted' = FALSE
    /\ UNCHANGED <<data, draining>>

Start(c) ==
    /\ Ready(c)
    /\ IF running
       THEN /\ cast' = [cast EXCEPT ![c] = Ended]
            /\ UNCHANGED <<running, aborted>>
       ELSE /\ cast' = [cast EXCEPT ![c].st = "reading", ![c].users = There,
                                    ![c].rows = Registered]
            /\ running' = TRUE /\ aborted' = FALSE
    /\ UNCHANGED <<data, draining>>

\* The first n of a set of keys, in key order.
First(n, S) == {k \in S : Cardinality({j \in S : j < k}) < n}

\* Mutant of After: the row of the cursor is not skipped.
AfterInclusive(cursor, S) == {k \in S : k >= cursor}

After(cursor, S) == {k \in S : k > cursor}

\* findMany ordered by id, n rows from the cursor on.
Pages(cursor, n, S) ==
    LET rest == First(n, After(cursor, S)) IN
    IF cursor = 0 \/ cursor \in S THEN {rest} ELSE {rest, {}}

Gap(c, S) == cast[c].gap \/ (cast[c].cursor # 0 /\ cast[c].cursor \notin S)

\* Mutant of EndFeed: running is released when the request is answered.
EndFeedReleased(c, fed, gap) ==
    /\ cast' = [cast EXCEPT ![c].st = "push", ![c].cursor = 0, ![c].page = {},
                            ![c].fed = fed, ![c].gap = gap, ![c].answered = TRUE]
    /\ running' = FALSE

\* The feed is written: the caller is answered and the pushes begin.
EndFeed(c, fed, gap) ==
    /\ cast' = [cast EXCEPT ![c].st = "push", ![c].cursor = 0, ![c].page = {},
                            ![c].fed = fed, ![c].gap = gap, ![c].answered = TRUE]
    /\ UNCHANGED running

ReadUsers(c) ==
    /\ cast[c].st = "reading"
    /\ \E page \in Pages(cast[c].cursor, FeedBatch, There) :
          IF page = {} THEN EndFeed(c, cast[c].fed, Gap(c, There))
          ELSE /\ cast' = [cast EXCEPT ![c].st = "inserting", ![c].page = page,
                                       ![c].gap = Gap(c, There)]
               /\ UNCHANGED running
    /\ UNCHANGED <<data, draining, aborted>>

\* Mutant of ShortPage: one row short of a full page still asks for more, a full
\* page does not.
ShortPageOffByOne(page, n) == Cardinality(page) <= n

ShortPage(page, n) == Cardinality(page) < n

\* createMany, one statement: a user of the page who is gone fails all of it.
InsertFeed(c) ==
    /\ cast[c].st = "inserting" /\ cast[c].page \subseteq There
    /\ LET page == cast[c].page
           fed == [u \in UserIds |-> cast[c].fed[u] + (IF u \in page THEN 1 ELSE 0)] IN
       IF ShortPage(page, FeedBatch) THEN EndFeed(c, fed, cast[c].gap)
       ELSE /\ cast' = [cast EXCEPT ![c].st = "reading", ![c].cursor = Max(page),
                                    ![c].page = {}, ![c].fed = fed]
            /\ UNCHANGED running
    /\ UNCHANGED <<data, draining, aborted>>

\* Mutant of FailFeed: running stays set.
FailFeedStuck(c) ==
    /\ cast[c].st \in {"reading", "inserting"}
    /\ cast' = [cast EXCEPT ![c] = Ended]
    /\ UNCHANGED <<data, draining, running, aborted>>

\* A query of the feed phase fails, a page with a deleted user among them.
FailFeed(c) ==
    /\ cast[c].st \in {"reading", "inserting"}
    /\ cast' = [cast EXCEPT ![c] = Ended]
    /\ running' = FALSE
    /\ UNCHANGED <<data, draining, aborted>>

-----------------------------------------------------------------------------
(* pushPhase                                                               *)

\* Every device was paged through.
Complete(c, pushed, gap) ==
    /\ cast' = [cast EXCEPT ![c] = [NewCast EXCEPT !.st = "complete", !.rows = cast[c].rows,
                                                   !.pushed = pushed, !.gap = gap]]
    /\ running' = FALSE

StopPush(c) ==
    /\ cast' = [cast EXCEPT ![c] = Ended]
    /\ running' = FALSE

ReadDevices(c) ==
    /\ cast[c].st = "push"
    /\ IF aborted THEN StopPush(c)
       ELSE \E page \in Pages(cast[c].cursor, PushBatch, Registered) :
              IF page = {} THEN Complete(c, cast[c].pushed, Gap(c, Registered))
              ELSE /\ cast' = [cast EXCEPT ![c].st = "sending", ![c].page = page,
                                           ![c].gap = Gap(c, Registered)]
                   /\ UNCHANGED running
    /\ UNCHANGED <<data, draining, aborted>>

\* sendPushToTokens never throws.  When FCM answers in time, the tokens it does
\* not know are pruned, unless the database fails; the sleep follows.  (The row
\* of a token that moved to another account keeps its id.)
Send(c, prunes) ==
    /\ cast[c].st = "sending"
    /\ LET page == cast[c].page
           pushed == [r \in RowIds |-> cast[c].pushed[r] + (IF r \in page THEN 1 ELSE 0)] IN
       /\ device' = IF prunes
                    THEN [r \in RowIds |-> IF r \in page /\ device[r] = "dead"
                                           THEN "gone" ELSE device[r]]
                    ELSE device
       /\ IF ShortPage(page, PushBatch) THEN Complete(c, pushed, cast[c].gap)
          ELSE /\ cast' = [cast EXCEPT ![c].st = "push", ![c].cursor = Max(page),
                                       ![c].page = {}, ![c].pushed = pushed]
               /\ UNCHANGED running
    /\ UNCHANGED <<users, changes, draining, aborted>>

FailPush(c) ==
    /\ cast[c].st = "push" /\ ~aborted
    /\ StopPush(c)
    /\ UNCHANGED <<data, draining, aborted>>

-----------------------------------------------------------------------------
(* The process and the tables                                              *)

\* SIGTERM: abortBroadcasts, and the listener closes.
Shutdown ==
    /\ ~draining
    /\ draining' = TRUE /\ aborted' = TRUE
    /\ UNCHANGED <<data, running, cast>>

\* The process ends, drained or not, and another takes its place.
Restart ==
    /\ draining' = FALSE /\ running' = FALSE /\ aborted' = FALSE
    /\ cast' = [c \in Casts |-> IF cast[c].st \in {"idle", "complete"} THEN cast[c]
                                ELSE Ended]
    /\ UNCHANGED data

Change ==
    /\ changes < MaxChanges
    /\ changes' = changes + 1
    /\ UNCHANGED <<draining, running, aborted, cast>>

SignUp(u) ==
    /\ users[u] = "unborn" /\ Change
    /\ users' = [users EXCEPT ![u] = "there"]
    /\ UNCHANGED device

DeleteUser(u) ==
    /\ users[u] = "there" /\ Change
    /\ users' = [users EXCEPT ![u] = "gone"]
    /\ UNCHANGED device

\* POST /device of a token that has no row; the row of a known token only
\* changes hands.
Register(r) ==
    /\ device[r] = "unborn" /\ Change
    /\ device' = [device EXCEPT ![r] = "there"]
    /\ UNCHANGED users

\* POST /device/unregister, or the row goes with its account.
Unregister(r) ==
    /\ r \in Registered /\ Change
    /\ device' = [device EXCEPT ![r] = "gone"]
    /\ UNCHANGED users

Uninstall(r) ==
    /\ device[r] = "there" /\ Change
    /\ device' = [device EXCEPT ![r] = "dead"]
    /\ UNCHANGED users

\* What the process does by itself once a request has arrived.
Proceed(c) ==
    \/ Refuse(c) \/ SetRanks(c) \/ Start(c) \/ ReadUsers(c) \/ InsertFeed(c) \/ FailFeed(c)
    \/ ReadDevices(c) \/ (\E prunes \in BOOLEAN : Send(c, prunes)) \/ FailPush(c)

Next ==
    \/ \E c \in Casts : Proceed(c) \/ \E kind \in {"week", "news"} : Arrive(c, kind)
    \/ Shutdown \/ Restart
    \/ \E u \in UserIds : SignUp(u) \/ DeleteUser(u)
    \/ \E r \in RowIds : Register(r) \/ Unregister(r) \/ Uninstall(r)

Spec == Init /\ [][Next]_vars

\* Queries are answered or fail, FCM calls time out after FCM_TIMEOUT_MS, and
\* the timer between two pages fires.
FairSpec == Spec /\ \A c \in Casts : WF_vars(Proceed(c))

-----------------------------------------------------------------------------
(* Properties                                                              *)

InProgress == {"reading", "inserting", "push", "sending"}

\* Every variable keeps its type.
TypeOK ==
    /\ users \in [UserIds -> {"unborn", "there", "gone"}]
    /\ device \in [RowIds -> {"unborn", "there", "dead", "gone"}]
    /\ changes \in Nat
    /\ {draining, running, aborted} \subseteq BOOLEAN
    /\ cast \in [Casts -> [kind : {"none", "week", "news"},
                           st : {"idle", "arrived", "ranked", "over", "complete"} \cup InProgress,
                           cursor : Nat, page : SUBSET (UserIds \cup RowIds),
                           answered : BOOLEAN,
                           users : SUBSET UserIds, rows : SUBSET RowIds, gap : BOOLEAN,
                           fed : [UserIds -> Nat], pushed : [RowIds -> Nat]]]

\* "Two overlapping broadcasts would double every user's feed entry and stack
\* two push waves": a process has at most one broadcast between its start and
\* the end of its pushes, although POST /barber-of-week checks for another well
\* before it starts its own, and running says so.
OneAtATime ==
    LET active == {c \in Casts : cast[c].st \in InProgress} IN
    /\ Cardinality(active) <= 1
    /\ running <=> active # {}

\* "A user created mid-sweep is either included once or not at all": whatever
\* users and devices come and go between two pages, a broadcast writes at most
\* one feed row for a user and sends at most one push to a device row.
ReachedOnce ==
    \A c \in Casts : /\ \A u \in UserIds : cast[c].fed[u] <= 1
                     /\ \A r \in RowIds : cast[c].pushed[r] <= 1

\* An announcement that is answered with success has a feed row for every user
\* who was there when it began and still is, and one whose pushes were neither
\* aborted nor failed has pushed to every device row that was there when it
\* began and still is.  The exception is a row deleted just when a page ended
\* with it.
ReachesAll ==
    \A c \in Casts : ~cast[c].gap =>
        /\ cast[c].answered => \A u \in cast[c].users \cap There : cast[c].fed[u] = 1
        /\ cast[c].st = "complete" =>
               \A r \in cast[c].rows \cap Registered : cast[c].pushed[r] = 1

\* No error, abort or restart leaves the flag set: the next announcement is not
\* refused for ever.
Released == running ~> ~running
=============================================================================

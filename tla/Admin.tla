------------------------------- MODULE Admin --------------------------------
(***************************************************************************)
(* The administrators of the panel (routes/admin.ts): who may sign in, what *)
(* a session can still do, and the subscriptions the panel sells to a shop. *)
(* Requests of several administrators interleave at every database call.   *)
(*                                                                         *)
(* Calendar dates are <<month, day>> pairs, months counted on over the     *)
(* years.  The clock passes through the dates of Days; a request ends long *)
(* before the clock moves on.                                              *)
(***************************************************************************)
EXTENDS Integers, FiniteSets, Sequences

CONSTANTS Admins, Plans,         \* active plans
          Ops,            \* bound: requests under way at a time
          Days,           \* the dates the clock passes through, in order
          MonthLength(_), \* days of a month
          Months,         \* months sold at a time (1 to 24)
          MaxMonth,       \* bound: the last month in which a period ends
          AdminTtl,       \* adminAccessTtl, in steps of the clock
          None

ASSUME AdminAssumption ==
    /\ Days \in Seq(Nat \X (1..31)) /\ Days # <<>>
    /\ Months \subseteq Nat \ {0} /\ MaxMonth \in Nat /\ AdminTtl \in Nat
    /\ \A m \in 0..MaxMonth : MonthLength(m) \in 28..31

VARIABLES
    clock,        \* index into Days
    admin,        \* AdminUser rows: "none", "active", "disabled"
    session,      \* when the administrator last signed in, 0 if never
    sub,          \* the Subscription row of the shop
    op,           \* requests under way
    lastActive,   \* history: when the administrator was last active
    overlapped    \* history: two requests to disable someone were under way at once
vars == <<clock, admin, session, sub, op, lastActive, overlapped>>
people == <<admin, session, lastActive, overlapped>>

\* History of the subscription: since when it was renewed without a break by
\* requests that had read the row they replaced (anchor), and the months these
\* sold (paid).
NoSub == [status |-> "none", plan |-> None, end |-> <<0, 1>>,
          anchor |-> <<0, 1>>, paid |-> 0]

Idle == [kind |-> "idle", on |-> None, st |-> "none", months |-> 0,
         sub |-> NoSub, alone |-> TRUE]

Init ==
    /\ clock = 1
    /\ admin \in [Admins -> {"none", "active"}] /\ \E a \in Admins : admin[a] = "active"
    /\ session = [a \in Admins |-> 0]
    /\ sub = NoSub
    /\ op = [o \in Ops |-> Idle]
    /\ lastActive = [a \in Admins |-> IF admin[a] = "active" THEN 1 ELSE 0]
    /\ overlapped = FALSE

\* requireAdmin: the token is verified, its administrator is not looked up.
SignedIn(a) == session[a] # 0 /\ clock - session[a] <= AdminTtl

Ends(o) == op' = [op EXCEPT ![o] = Idle]

-----------------------------------------------------------------------------
(* Administrators                                                          *)

\* POST /login reads the row, then compares the password.
ReadLogin(o, a) ==
    /\ op[o] = Idle /\ admin[a] # "none"
    /\ op' = [op EXCEPT ![o] = [Idle EXCEPT !.kind = "login", !.on = a, !.st = admin[a]]]
    /\ UNCHANGED <<clock, people, sub>>

\* Mutant of Login: isActive is not checked.
LoginUnchecked(o) ==
    /\ op[o].kind = "login" /\ Ends(o)
    /\ session' = [session EXCEPT ![op[o].on] = clock]
    /\ UNCHANGED <<clock, admin, sub, lastActive, overlapped>>

Login(o) ==
    /\ op[o].kind = "login" /\ Ends(o)
    /\ session' = IF op[o].st = "active" THEN [session EXCEPT ![op[o].on] = clock]
                  ELSE session
    /\ UNCHANGED <<clock, admin, sub, lastActive, overlapped>>

Activate(a) ==
    /\ admin' = [admin EXCEPT ![a] = "active"]
    /\ lastActive' = [lastActive EXCEPT ![a] = clock]

CreateAdmin(by, a) ==
    /\ SignedIn(by) /\ admin[a] = "none" /\ Activate(a)
    /\ UNCHANGED <<clock, session, sub, op, overlapped>>

\* PATCH /admins/:id with isActive true.
Enable(by, a) ==
    /\ SignedIn(by) /\ admin[a] = "disabled" /\ Activate(a)
    /\ UNCHANGED <<clock, session, sub, op, overlapped>>

Disabling == {o \in Ops : op[o].kind = "disable"}

\* PATCH /admins/:id with isActive false, of anyone but oneself: the row is read.
ReadTarget(o, by, a) ==
    /\ by # a /\ admin[a] # "none" /\ op[o] = Idle /\ SignedIn(by)
    /\ op' = [op EXCEPT ![o] = [Idle EXCEPT !.kind = "disable", !.on = a,
                   !.st = IF admin[a] = "active" THEN "count" ELSE "update"]]
    /\ overlapped' = (overlapped \/ Disabling # {})
    /\ UNCHANGED <<clock, admin, session, sub, lastActive>>

\* Mutant of LastActive: off by one.
LastActiveOffByOne == Cardinality({a \in Admins : admin[a] = "active"}) < 1

LastActive == Cardinality({a \in Admins : admin[a] = "active"}) <= 1

CountActive(o) ==
    /\ op[o].kind = "disable" /\ op[o].st = "count"
    /\ IF LastActive THEN Ends(o) ELSE op' = [op EXCEPT ![o].st = "update"]
    /\ UNCHANGED <<clock, people, sub>>

Disable(o) ==
    /\ op[o].kind = "disable" /\ op[o].st = "update" /\ Ends(o)
    /\ admin' = [admin EXCEPT ![op[o].on] = "disabled"]
    /\ UNCHANGED <<clock, session, sub, lastActive, overlapped>>

-----------------------------------------------------------------------------
(* Plans and subscriptions                                                 *)

\* Mutant of AddMonths: the day is not clamped, and runs into the next month.
AddMonthsOverflow(d, n) ==
    LET m == d[1] + n  len == MonthLength(m) IN
    IF d[2] <= len THEN <<m, d[2]>> ELSE <<m + 1, d[2] - len>>

AddMonths(d, n) ==
    LET m == d[1] + n  len == MonthLength(m) IN
    <<m, IF d[2] <= len THEN d[2] ELSE len>>

Before(d, e) == d[1] < e[1] \/ (d[1] = e[1] /\ d[2] < e[2])

Today == Days[clock]

\* A period of plan p that runs today.
Running(s, p) == s.status = "ACTIVE" /\ s.plan = p /\ Before(Today, s.end)

\* Mutant of Base: a renewal starts at once, whatever is left of the period.
BaseToday(s, p) == Today

\* A running period of the same plan is extended, anything else starts today.
Base(s, p) == IF Running(s, p) THEN s.end ELSE Today

\* PUT /shops/:id/subscription, of an active plan, reads the shop's row.
ReadSubscription(o, by, p, n) ==
    /\ op[o] = Idle /\ SignedIn(by)
    /\ Base(sub, p)[1] + n <= MaxMonth
    /\ op' = [op EXCEPT ![o] = [Idle EXCEPT !.kind = "assign", !.on = p,
                                            !.months = n, !.sub = sub]]
    /\ UNCHANGED <<clock, people, sub>>

\* Requests that read the row before a write of it are no longer alone.
Disturbed(o) == IF op[o].kind = "assign" THEN [op[o] EXCEPT !.alone = FALSE] ELSE op[o]

\* The upsert, with the end computed from the row read.
Assign(o) ==
    /\ op[o].kind = "assign"
    /\ LET p == op[o].on  n == op[o].months  end == AddMonths(Base(op[o].sub, p), n)
           on == Running(sub, p) IN
       sub' = [status |-> "ACTIVE", plan |-> p, end |-> end,
               anchor |-> IF ~op[o].alone THEN end ELSE IF on THEN sub.anchor ELSE Today,
               paid |-> IF ~op[o].alone THEN 0 ELSE IF on THEN sub.paid + n ELSE n]
    /\ op' = [q \in Ops |-> IF q = o THEN Idle ELSE Disturbed(q)]
    /\ UNCHANGED <<clock, people>>

CancelSubscription(by) ==
    /\ SignedIn(by) /\ sub.status # "none"
    /\ sub' = [sub EXCEPT !.status = "CANCELLED"]
    /\ op' = [q \in Ops |-> Disturbed(q)]
    /\ UNCHANGED <<clock, people>>

-----------------------------------------------------------------------------
Tick ==
    /\ clock < Len(Days) /\ \A o \in Ops : op[o] = Idle
    /\ clock' = clock + 1
    /\ lastActive' = [a \in Admins |-> IF admin[a] = "active" THEN clock'
                                       ELSE lastActive[a]]
    /\ UNCHANGED <<admin, session, sub, op, overlapped>>

Next ==
    \/ \E o \in Ops :
          \/ Login(o) \/ CountActive(o) \/ Disable(o) \/ Assign(o)
          \/ \E a \in Admins : ReadLogin(o, a) \/ \E by \in Admins : ReadTarget(o, by, a)
          \/ \E by \in Admins, p \in Plans, n \in Months : ReadSubscription(o, by, p, n)
    \/ \E by \in Admins :
          \/ \E a \in Admins : CreateAdmin(by, a) \/ Enable(by, a)
          \/ CancelSubscription(by)
    \/ Tick

Spec == Init /\ [][Next]_vars

-----------------------------------------------------------------------------
(* Properties                                                              *)

Date == Nat \X (1..31)
Sub == [status : {"none", "ACTIVE", "CANCELLED"}, plan : Plans \cup {None}, end : Date,
        anchor : Date, paid : Nat]

\* Every variable keeps its type.
TypeOK ==
    /\ clock \in 1..Len(Days)
    /\ admin \in [Admins -> {"none", "active", "disabled"}]
    /\ session \in [Admins -> Nat]
    /\ sub \in Sub
    /\ op \in [Ops -> [kind : {"idle", "login", "disable", "assign"},
                       on : Admins \cup Plans \cup {None},
                       st : {"none", "active", "disabled", "count", "update"},
                       months : Nat, sub : Sub, alone : BOOLEAN]]
    /\ lastActive \in [Admins -> Nat]
    /\ overlapped \in BOOLEAN

\* "You can't disable the last active admin": whatever sessions disabled
\* administrators still hold, the panel is left to at least one active
\* administrator, as long as no two requests to disable someone overlapped.  (Two
\* administrators who disable each other at once each count the other as active.)
OneLeftWhenAlone == overlapped \/ \E a \in Admins : admin[a] = "active"

\* "The credential must stop working": a disabled administrator acts with the
\* session of before until it expires, and not a moment longer.
DisabledFadesOut ==
    \A a \in Admins : SignedIn(a) => clock - lastActive[a] <= AdminTtl

\* "Never overflowing into March (which would silently gift the subscriber extra
\* days)": after renewals in a row, each of which had read the row it replaced, the
\* period ends in the month in which all their months bought at once would end, and
\* on no later a day.  (Two renewals that overlap both extend the same period, and
\* the months of one are lost.)
PaidTime ==
    sub.status # "none" =>
        /\ sub.end[1] = sub.anchor[1] + sub.paid
        /\ sub.end[2] <= sub.anchor[2]
=============================================================================

----------------------------- MODULE Reminders ------------------------------
(***************************************************************************)
(* The appointment reminders (services/reminders.ts), swept by every       *)
(* running server process over one Reservation table.  Sweeps are started  *)
(* by a timer that does not wait for the previous one, so sweeps of one    *)
(* process overlap, and those of several processes do.                     *)
(*                                                                         *)
(* Time passes in steps of several sweeps; ReminderLead is                 *)
(* REMINDER_LEAD_MIN in such steps.                                        *)
(***************************************************************************)
EXTENDS Integers, FiniteSets

CONSTANTS Bookings, Servers,
          Sweeps,        \* bound: sweeps in flight at a time
          StartsAt,
          ReminderLead,  \* REMINDER_LEAD_MIN
          Take,          \* rows a sweep reads at most (200)
          MaxTime,       \* bound: the clock stops here
          None

ASSUME ReminderAssumption ==
    /\ StartsAt \in [Bookings -> Nat] /\ ReminderLead \in Nat \ {0}
    /\ Take \in Nat \ {0} /\ MaxTime \in Nat /\ IsFiniteSet(Bookings)
    /\ None \notin Bookings

VARIABLES
    now,
    status,       \* of each booking; "deleted" when its row is gone
    sent,         \* reminderSentAt is set
    feed,         \* BOOKING_REMINDER rows written for the booking
    up,           \* servers whose timers run
    sweep,        \* sweeps in flight
    sweptAt,      \* history: when the last sweep began that ended well
    confirmedAt   \* history: when a booking was confirmed
vars == <<now, status, sent, feed, up, sweep, sweptAt, confirmedAt>>

Sweep == [server: Servers, at: Nat, due: SUBSET Bookings,
          claimed: Bookings \cup {None}]

ASSUME AbsentAssumption == None \notin Sweep

Init ==
    /\ now = 0
    /\ status \in [Bookings -> {"PENDING", "CONFIRMED"}]
    /\ sent = [k \in Bookings |-> FALSE]
    /\ feed = [k \in Bookings |-> 0]
    /\ up = Servers
    /\ sweep = [w \in Sweeps |-> None]
    /\ sweptAt = -1
    /\ confirmedAt = [k \in Bookings |-> -1]

\* Mutants of Due: bookings exactly a lead time ahead; of any status.
DueExactly == {k \in Bookings : /\ status[k] = "CONFIRMED" /\ ~sent[k]
                                /\ StartsAt[k] = now + ReminderLead}
DueAny == {k \in Bookings : /\ status[k] # "deleted" /\ ~sent[k]
                            /\ StartsAt[k] > now /\ StartsAt[k] <= now + ReminderLead}

Due == {k \in Bookings : /\ status[k] = "CONFIRMED" /\ ~sent[k]
                         /\ StartsAt[k] > now /\ StartsAt[k] <= now + ReminderLead}

\* sendDueReminders: findMany, at most Take rows in no particular order.
StartSweep(w, s) ==
    /\ s \in up /\ sweep[w] = None
    /\ \E rows \in SUBSET Due :
          /\ rows = Due \/ Cardinality(rows) = Take
          /\ Cardinality(rows) <= Take
          /\ sweep' = [sweep EXCEPT ![w] = [server |-> s, at |-> now, due |-> rows,
                                            claimed |-> None]]
    /\ UNCHANGED <<now, status, sent, feed, up, sweptAt, confirmedAt>>

\* Mutant of Claim: the row is claimed without looking at reminderSentAt.
ClaimAny(w) ==
    /\ sweep[w] # None /\ sweep[w].claimed = None
    /\ \E k \in sweep[w].due :
          LET won == status[k] # "deleted" IN
          /\ sent' = IF won THEN [sent EXCEPT ![k] = TRUE] ELSE sent
          /\ sweep' = [sweep EXCEPT ![w].due = @ \ {k},
                                    ![w].claimed = IF won THEN k ELSE None]
    /\ UNCHANGED <<now, status, feed, up, sweptAt, confirmedAt>>

\* The compare-and-swap on reminderSentAt of the next row.  The status it was
\* read with is not checked again.
Claim(w) ==
    /\ sweep[w] # None /\ sweep[w].claimed = None
    /\ \E k \in sweep[w].due :
          LET won == status[k] # "deleted" /\ ~sent[k] IN
          /\ sent' = IF won THEN [sent EXCEPT ![k] = TRUE] ELSE sent
          /\ sweep' = [sweep EXCEPT ![w].due = @ \ {k},
                                    ![w].claimed = IF won THEN k ELSE None]
    /\ UNCHANGED <<now, status, feed, up, sweptAt, confirmedAt>>

\* notifyUser: the feed row.  Its insert may fail (the customer is gone, the
\* database does not answer); the failure is logged and the sweep goes on.
Notify(w, written) ==
    /\ sweep[w] # None /\ sweep[w].claimed # None
    /\ LET k == sweep[w].claimed IN
       /\ written => status[k] # "deleted"
       /\ feed' = IF written THEN [feed EXCEPT ![k] = @ + 1] ELSE feed
    /\ sweep' = [sweep EXCEPT ![w].claimed = None]
    /\ UNCHANGED <<now, status, sent, up, sweptAt, confirmedAt>>

EndSweep(w) ==
    /\ sweep[w] # None /\ sweep[w].claimed = None /\ sweep[w].due = {}
    /\ sweptAt' = IF sweep[w].at > sweptAt THEN sweep[w].at ELSE sweptAt
    /\ sweep' = [sweep EXCEPT ![w] = None]
    /\ UNCHANGED <<now, status, sent, feed, up, confirmedAt>>

\* A query or claim fails: the rest of the sweep does not happen.
FailSweep(w) ==
    /\ sweep[w] # None
    /\ sweep' = [sweep EXCEPT ![w] = None]
    /\ UNCHANGED <<now, status, sent, feed, up, sweptAt, confirmedAt>>

\* stopReminderScheduler of a shutdown; sweeps under way go on until the exit.
StopTimer(s) ==
    /\ s \in up
    /\ up' = up \ {s}
    /\ UNCHANGED <<now, status, sent, feed, sweep, sweptAt, confirmedAt>>

\* The process ends, after a shutdown or by a crash; its sweeps with it.
Die(s) ==
    /\ up' = up \ {s}
    /\ sweep' = [w \in Sweeps |-> IF sweep[w] # None /\ sweep[w].server = s
                                  THEN None ELSE sweep[w]]
    /\ UNCHANGED <<now, status, sent, feed, sweptAt, confirmedAt>>

Boot(s) ==
    /\ s \notin up /\ \A w \in Sweeps : sweep[w] # None => sweep[w].server # s
    /\ up' = up \cup {s}
    /\ UNCHANGED <<now, status, sent, feed, sweep, sweptAt, confirmedAt>>

\* Bookings are accepted, cancelled, and deleted with their customer.
Confirm(k) ==
    /\ status[k] = "PENDING"
    /\ status' = [status EXCEPT ![k] = "CONFIRMED"]
    /\ confirmedAt' = [confirmedAt EXCEPT ![k] = now]
    /\ UNCHANGED <<now, sent, feed, up, sweep, sweptAt>>

Drop(k, st) ==
    /\ status[k] # "deleted"
    /\ st = "CANCELLED" => status[k] \in {"PENDING", "CONFIRMED"}
    /\ status' = [status EXCEPT ![k] = st]
    /\ UNCHANGED <<now, sent, feed, up, sweep, sweptAt, confirmedAt>>

\* Several sweeps fit into one step of the clock: at least one of them, of any
\* server, begins in it and ends well.
Tick ==
    /\ now < MaxTime /\ sweptAt = now
    /\ now' = now + 1
    /\ UNCHANGED <<status, sent, feed, up, sweep, sweptAt, confirmedAt>>

Run(w) ==
    \/ \E s \in Servers : StartSweep(w, s)
    \/ Claim(w) \/ (\E written \in BOOLEAN : Notify(w, written))
    \/ EndSweep(w) \/ FailSweep(w)

Next ==
    \/ \E w \in Sweeps : Run(w)
    \/ \E s \in Servers : StopTimer(s) \/ Die(s) \/ Boot(s)
    \/ \E k \in Bookings : Confirm(k) \/ \E st \in {"CANCELLED", "deleted"} : Drop(k, st)
    \/ Tick

Spec == Init /\ [][Next]_vars

-----------------------------------------------------------------------------
(* Properties                                                              *)

\* Every variable keeps its type.
TypeOK ==
    /\ now \in Nat
    /\ status \in [Bookings -> {"PENDING", "CONFIRMED", "CANCELLED", "deleted"}]
    /\ sent \in [Bookings -> BOOLEAN]
    /\ feed \in [Bookings -> Nat]
    /\ up \subseteq Servers
    /\ sweep \in [Sweeps -> Sweep \cup {None}]
    /\ sweptAt \in Int
    /\ confirmedAt \in [Bookings -> Int]

\* "Concurrent sweeps (or multiple server instances) can't double-send."
RemindedOnce == \A k \in Bookings : feed[k] <= 1

\* "A missed minute just fires the reminder a minute later, still comfortably
\* before the slot": a booking confirmed before its window opens is claimed
\* before it starts, whatever processes died and sweeps failed, as long as one
\* sweep per step of the clock ends well and the sweeps of a window can read as
\* many rows as there are bookings.
RemindedInTime ==
    Cardinality(Bookings) <= Take * ReminderLead =>
    \A k \in Bookings :
        /\ status[k] = "CONFIRMED" /\ now >= StartsAt[k]
        /\ confirmedAt[k] < StartsAt[k] - ReminderLead
        => sent[k]

\* A booking that is off and that no sweep under way has read as due.
Quiet(k) ==
    /\ status[k] \in {"CANCELLED", "deleted"}
    /\ \A w \in Sweeps : sweep[w] # None => k # sweep[w].claimed /\ k \notin sweep[w].due

\* A cancelled booking is reminded of at most by the sweeps that were under way
\* when it was cancelled, never by a later one.
CancelledStaysQuiet ==
    [][\A k \in Bookings : Quiet(k) => Quiet(k)' /\ feed'[k] = feed[k]]_vars
=============================================================================

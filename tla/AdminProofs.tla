---------------------------- MODULE AdminProofs -----------------------------
(***************************************************************************)
(* Proofs about the administrators of Admin and the subscriptions they     *)
(* sell, however many there are and however many requests are under way.   *)
(***************************************************************************)
EXTENDS Admin, FiniteSetTheorems, TLAPS

\* The fields of a request (whatever row it has read of the subscription).
Request(r) ==
    r \in [kind : {"idle", "login", "disable", "assign"},
           on : Admins \cup Plans \cup {None},
           st : {"none", "active", "disabled", "count", "update"},
           months : Nat, sub : {r.sub}, alone : BOOLEAN]

\* The types of what the sessions and the disabling depend on.
Typed ==
    /\ clock \in Nat
    /\ admin \in [Admins -> {"none", "active", "disabled"}]
    /\ session \in [Admins -> Nat]
    /\ lastActive \in [Admins -> Nat]
    /\ overlapped \in BOOLEAN
    /\ op = [o \in Ops |-> op[o]]
    /\ \A o \in Ops : Request(op[o])
    /\ \A o \in Ops : op[o].kind \in {"login", "disable"} => op[o].on \in Admins

\* A session is not younger than its administrator's last active moment, nor is
\* a sign-in that is about to open one.
SessionsEarned ==
    \A a \in Admins :
        /\ session[a] <= lastActive[a] /\ lastActive[a] <= clock
        /\ admin[a] = "active" => lastActive[a] = clock
        /\ \A o \in Ops : op[o].kind = "login" /\ op[o].on = a /\ op[o].st = "active"
                          => lastActive[a] = clock

\* Unless two requests to disable someone overlapped, there is one at a time,
\* and when it is about to write, somebody else than its target is active.
OneSpared ==
    overlapped = FALSE =>
        /\ \E a \in Admins : admin[a] = "active"
        /\ \A o, q \in Disabling : o = q
        /\ \A o \in Disabling : op[o].st = "update" =>
               \E a \in Admins \ {op[o].on} : admin[a] = "active"

IInv == Typed /\ SessionsEarned /\ OneSpared

-----------------------------------------------------------------------------

\* Nothing but requests changes, and those that go on keep their kind.
LEMMA RequestStep ==
    ASSUME IInv, UNCHANGED people, clock' = clock,
           op' = [o \in Ops |-> op'[o]], \A o \in Ops : Request(op'[o]),
           \A o \in Ops : \/ op'[o].kind \notin {"login", "disable"}
                          \/ /\ op'[o].kind = op[o].kind
                             /\ op'[o].on = op[o].on /\ op'[o].st = op[o].st
    PROVE  IInv'
<1>1. Typed'
      BY DEF IInv, Typed, people
<1>2. SessionsEarned'
      BY DEF IInv, SessionsEarned, people
<1>3. Disabling' \subseteq Disabling
      BY DEF Disabling
<1>4. OneSpared'
      BY <1>3 DEF IInv, OneSpared, Disabling, people
<1> QED  BY <1>1, <1>2, <1>4 DEF IInv

\* A request ends.
LEMMA EndStep ==
    ASSUME Typed, NEW o \in Ops, Ends(o)
    PROVE  /\ op' = [q \in Ops |-> op'[q]] /\ \A q \in Ops : Request(op'[q])
           /\ op'[o].kind = "idle" /\ \A q \in Ops \ {o} : op'[q] = op[q]
<1>1. op'[o] = Idle /\ \A q \in Ops \ {o} : op'[q] = op[q]
      BY DEF Typed, Ends
<1>2. Request(Idle)
      BY DEF Request, Idle
<1> QED  BY <1>1, <1>2 DEF Typed, Ends, Idle

\* If more than one is active, somebody else than any one administrator is.
LEMMA NotTheLast ==
    ASSUME ~LastActive, NEW x
    PROVE  \E a \in Admins \ {x} : admin[a] = "active"
<1> DEFINE A == {a \in Admins : admin[a] = "active"}
<1>1. ~(Cardinality(A) <= 1)
      BY DEF LastActive
<1>2. A # {} /\ A # {x}
  <2> HIDE DEF A
  <2>1. Cardinality({}) = 0 /\ Cardinality({x}) = 1
        BY FS_EmptySet, FS_Singleton
  <2>2. Cardinality(A) # 0 /\ Cardinality(A) # 1
        BY <1>1
  <2> QED  BY <2>1, <2>2
<1> QED  BY <1>2

-----------------------------------------------------------------------------
(* One step per operation                                                  *)

LEMMA LoginStep ==
    ASSUME IInv, NEW o \in Ops, (\E a \in Admins : ReadLogin(o, a)) \/ Login(o)
    PROVE  IInv'
<1>1. ASSUME NEW a \in Admins, ReadLogin(o, a)
      PROVE  IInv'
  <2> DEFINE r == [Idle EXCEPT !.kind = "login", !.on = a, !.st = admin[a]]
  <2>1. op' = [op EXCEPT ![o] = r]
        BY <1>1 DEF ReadLogin
  <2>2. Request(r) /\ r.kind = "login" /\ r.on = a /\ r.st = admin[a]
    <3>1. r.kind = "login" /\ r.on = a /\ r.st = admin[a] /\ r.sub = NoSub
          BY DEF Idle
    <3>2. r \in [kind : {"idle", "login", "disable", "assign"},
                 on : Admins \cup Plans \cup {None},
                 st : {"none", "active", "disabled", "count", "update"},
                 months : Nat, sub : {NoSub}, alone : BOOLEAN]
          BY DEF Idle, IInv, Typed
    <3> HIDE DEF r
    <3> QED  BY <3>1, <3>2 DEF Request
  <2> HIDE DEF r
  <2>3. /\ op'[o] = r /\ \A q \in Ops \ {o} : op'[q] = op[q]
        /\ op' = [q \in Ops |-> op'[q]]
        BY <2>1 DEF IInv, Typed
  <2>4. UNCHANGED <<clock, people>>
        BY <1>1 DEF ReadLogin
  <2>5. Typed'
        BY <2>2, <2>3, <2>4 DEF IInv, Typed, people
  <2>6. SessionsEarned'
        BY <2>2, <2>3, <2>4 DEF IInv, SessionsEarned, people
  <2>7. OneSpared'
        BY <2>2, <2>3, <2>4 DEF IInv, OneSpared, Disabling, people
  <2> QED  BY <2>5, <2>6, <2>7 DEF IInv
<1>2. ASSUME Login(o)
      PROVE  IInv'
  <2>1. /\ op' = [q \in Ops |-> op'[q]] /\ \A q \in Ops : Request(op'[q])
        /\ op'[o].kind = "idle" /\ \A q \in Ops \ {o} : op'[q] = op[q]
        BY <1>2, EndStep DEF Login, IInv
  <2>2. op[o].on \in Admins /\ UNCHANGED <<clock, admin, lastActive, overlapped>>
        BY <1>2 DEF Login, IInv, Typed
  <2>3. \A a \in Admins : \/ session'[a] = session[a]
                          \/ session'[a] = clock /\ lastActive[a] = clock
        BY <1>2, <2>2 DEF Login, IInv, Typed, SessionsEarned
  <2>4. Typed'
        BY <1>2, <2>1, <2>2 DEF Login, IInv, Typed
  <2>5. SessionsEarned'
        BY <2>1, <2>2, <2>3 DEF IInv, Typed, SessionsEarned
  <2>6. OneSpared'
        BY <2>1, <2>2 DEF IInv, OneSpared, Disabling
  <2> QED  BY <2>4, <2>5, <2>6 DEF IInv
<1> QED  BY <1>1, <1>2

LEMMA ActivateStep ==
    ASSUME IInv, NEW by \in Admins, NEW a \in Admins, CreateAdmin(by, a) \/ Enable(by, a)
    PROVE  IInv'
<1>1. /\ admin' = [admin EXCEPT ![a] = "active"]
      /\ lastActive' = [lastActive EXCEPT ![a] = clock]
      /\ UNCHANGED <<clock, session, op, overlapped>>
      BY DEF CreateAdmin, Enable, Activate
<1>2. Typed'
      BY <1>1 DEF IInv, Typed
<1>3. SessionsEarned'
      BY <1>1 DEF IInv, Typed, SessionsEarned
<1>4. \A b \in Admins : admin[b] = "active" => admin'[b] = "active"
      BY <1>1 DEF IInv, Typed
<1>5. OneSpared'
      BY <1>1, <1>4 DEF IInv, OneSpared, Disabling
<1> QED  BY <1>2, <1>3, <1>5 DEF IInv

LEMMA ReadTargetStep ==
    ASSUME IInv, NEW o \in Ops, NEW by \in Admins, NEW a \in Admins, ReadTarget(o, by, a)
    PROVE  IInv'
<1> DEFINE r == [Idle EXCEPT !.kind = "disable", !.on = a,
                     !.st = IF admin[a] = "active" THEN "count" ELSE "update"]
<1>1. op' = [op EXCEPT ![o] = r]
      BY DEF ReadTarget
<1>2. /\ Request(r) /\ r.kind = "disable" /\ r.on = a
      /\ r.st = "update" => admin[a] # "active"
  <2>1. r.kind = "disable" /\ r.on = a /\ r.sub = NoSub /\
        (r.st = "update" => admin[a] # "active")
        BY DEF Idle
  <2>2. r \in [kind : {"idle", "login", "disable", "assign"},
               on : Admins \cup Plans \cup {None},
               st : {"none", "active", "disabled", "count", "update"},
               months : Nat, sub : {NoSub}, alone : BOOLEAN]
        BY DEF Idle
  <2> HIDE DEF r
  <2> QED  BY <2>1, <2>2 DEF Request
<1> HIDE DEF r
<1>3. /\ op'[o] = r /\ \A q \in Ops \ {o} : op'[q] = op[q]
      /\ op' = [q \in Ops |-> op'[q]]
      BY <1>1 DEF IInv, Typed
<1>4. /\ UNCHANGED <<clock, admin, session, lastActive>>
      /\ overlapped' = (overlapped \/ Disabling # {})
      BY DEF ReadTarget
<1>5. Typed'
  <2>1. overlapped' \in BOOLEAN
        BY <1>4
  <2> QED  BY <1>2, <1>3, <1>4, <2>1 DEF IInv, Typed
<1>6. SessionsEarned'
      BY <1>2, <1>3, <1>4 DEF IInv, SessionsEarned
<1>7. OneSpared'
  <2> SUFFICES ASSUME overlapped' = FALSE
               PROVE  /\ \E b \in Admins : admin[b] = "active"
                      /\ \A p, q \in Disabling' : p = q
                      /\ \A q \in Disabling' : op'[q].st = "update" =>
                             \E b \in Admins \ {op'[q].on} : admin[b] = "active"
      BY <1>4 DEF OneSpared
  <2>1. overlapped = FALSE /\ Disabling = {}
        BY <1>4 DEF IInv, Typed
  <2>2. Disabling' = {o}
        BY <1>2, <1>3, <2>1 DEF Disabling
  <2>3. \E b \in Admins : admin[b] = "active"
        BY <2>1 DEF IInv, OneSpared
  <2> QED  BY <1>2, <1>3, <2>2, <2>3
<1> QED  BY <1>5, <1>6, <1>7 DEF IInv

LEMMA CountStep ==
    ASSUME IInv, NEW o \in Ops, CountActive(o)
    PROVE  IInv'
<1>1. UNCHANGED <<clock, people>>
      BY DEF CountActive
<1>2. CASE LastActive
  <2>1. /\ op' = [q \in Ops |-> op'[q]] /\ \A q \in Ops : Request(op'[q])
        /\ op'[o].kind = "idle" /\ \A q \in Ops \ {o} : op'[q] = op[q]
        BY <1>2, EndStep DEF CountActive, IInv
  <2> QED  BY <1>1, <2>1, RequestStep
<1>3. CASE ~LastActive
  <2>1. op' = [op EXCEPT ![o].st = "update"] /\ op[o].kind = "disable" /\ Request(op[o])
        BY <1>3 DEF CountActive, IInv, Typed
  <2>2. /\ op'[o].kind = "disable" /\ op'[o].on = op[o].on /\ op'[o].sub = op[o].sub
        /\ op'[o] \in [kind : {"idle", "login", "disable", "assign"},
                       on : Admins \cup Plans \cup {None},
                       st : {"none", "active", "disabled", "count", "update"},
                       months : Nat, sub : {op[o].sub}, alone : BOOLEAN]
        BY <2>1 DEF Request, IInv, Typed
  <2>3. Request(op'[o])
        BY <2>2 DEF Request
  <2>4. \A q \in Ops \ {o} : op'[q] = op[q]
        BY <2>1 DEF IInv, Typed
  <2>5. op' = [q \in Ops |-> op'[q]]
        BY <2>1 DEF IInv, Typed
  <2>6. Typed'
        BY <1>1, <2>1, <2>2, <2>3, <2>4, <2>5 DEF IInv, Typed, people
  <2>7. SessionsEarned'
        BY <1>1, <2>2, <2>4 DEF IInv, SessionsEarned, people
  <2>8. Disabling' = Disabling
        BY <2>1, <2>2, <2>4 DEF Disabling
  <2>9. \E a \in Admins \ {op[o].on} : admin[a] = "active"
        BY <1>3, NotTheLast
  <2>10. OneSpared'
    <3> SUFFICES ASSUME overlapped = FALSE
                 PROVE  /\ \E a \in Admins : admin[a] = "active"
                        /\ \A p, q \in Disabling' : p = q
                        /\ \A q \in Disabling' :
                               \E a \in Admins \ {op'[q].on} : admin[a] = "active"
        BY <1>1 DEF OneSpared, people
    <3>1. o \in Disabling
          BY <2>1 DEF Disabling
    <3>2. \A p, q \in Disabling : p = q
          BY DEF IInv, OneSpared
    <3> QED  BY <2>2, <2>8, <2>9, <3>1, <3>2
  <2> QED  BY <2>6, <2>7, <2>10 DEF IInv
<1> QED  BY <1>2, <1>3

LEMMA DisableStep ==
    ASSUME IInv, NEW o \in Ops, Disable(o)
    PROVE  IInv'
<1>1. /\ op' = [q \in Ops |-> op'[q]] /\ \A q \in Ops : Request(op'[q])
      /\ op'[o].kind = "idle" /\ \A q \in Ops \ {o} : op'[q] = op[q]
      BY EndStep DEF Disable, IInv
<1>2. /\ admin' = [admin EXCEPT ![op[o].on] = "disabled"]
      /\ UNCHANGED <<clock, session, lastActive, overlapped>>
      /\ op[o].kind = "disable" /\ op[o].st = "update" /\ op[o].on \in Admins
      BY DEF Disable, IInv, Typed
<1>3. Typed'
      BY <1>1, <1>2 DEF IInv, Typed
<1>4. SessionsEarned'
      BY <1>1, <1>2 DEF IInv, Typed, SessionsEarned
<1>5. OneSpared'
  <2> SUFFICES ASSUME overlapped = FALSE
               PROVE  Disabling' = {} /\ \E a \in Admins : admin'[a] = "active"
      BY <1>2 DEF OneSpared
  <2>1. o \in Disabling
        BY <1>2 DEF Disabling
  <2>2. Disabling = {o} /\ \E a \in Admins \ {op[o].on} : admin[a] = "active"
        BY <1>2, <2>1 DEF IInv, OneSpared
  <2>3. Disabling' = {}
        BY <1>1, <2>2 DEF Disabling
  <2> QED  BY <1>2, <2>2, <2>3 DEF IInv, Typed
<1> QED  BY <1>3, <1>4, <1>5 DEF IInv

\* The subscriptions' requests leave the administrators alone.
LEMMA SubscriptionStep ==
    ASSUME IInv,
           \/ \E o \in Ops, by \in Admins, p \in Plans, n \in Months :
                 ReadSubscription(o, by, p, n)
           \/ \E o \in Ops : Assign(o)
           \/ \E by \in Admins : CancelSubscription(by)
    PROVE  IInv'
<1>1. UNCHANGED <<clock, people>>
      BY DEF ReadSubscription, Assign, CancelSubscription
<1>2. \A q \in Ops : /\ Disturbed(q).kind = op[q].kind /\ Disturbed(q).on = op[q].on
                     /\ Disturbed(q).st = op[q].st /\ Request(Disturbed(q))
  <2> SUFFICES ASSUME NEW q \in Ops
               PROVE  /\ Disturbed(q).kind = op[q].kind /\ Disturbed(q).on = op[q].on
                      /\ Disturbed(q).st = op[q].st /\ Request(Disturbed(q))
      OBVIOUS
  <2>1. Request(op[q])
        BY DEF IInv, Typed
  <2>2. /\ Disturbed(q).sub = op[q].sub /\ Disturbed(q).kind = op[q].kind
        /\ Disturbed(q).on = op[q].on /\ Disturbed(q).st = op[q].st
        BY <2>1 DEF Disturbed, Request
  <2>3. Disturbed(q) \in [kind : {"idle", "login", "disable", "assign"},
                         on : Admins \cup Plans \cup {None},
                         st : {"none", "active", "disabled", "count", "update"},
                         months : Nat, sub : {op[q].sub}, alone : BOOLEAN]
        BY <2>1 DEF Disturbed, Request
  <2> QED  BY <2>2, <2>3 DEF Request
<1>3. ASSUME NEW o \in Ops, NEW by \in Admins, NEW p \in Plans, NEW n \in Months,
             ReadSubscription(o, by, p, n)
      PROVE  IInv'
  <2> DEFINE r == [Idle EXCEPT !.kind = "assign", !.on = p, !.months = n, !.sub = sub]
  <2>1. op' = [op EXCEPT ![o] = r]
        BY <1>3 DEF ReadSubscription
  <2>2. Request(r) /\ r.kind = "assign"
    <3>1. r.kind = "assign" /\ r.sub = sub
          BY DEF Idle
    <3>2. r \in [kind : {"idle", "login", "disable", "assign"},
                 on : Admins \cup Plans \cup {None},
                 st : {"none", "active", "disabled", "count", "update"},
                 months : Nat, sub : {sub}, alone : BOOLEAN]
          BY AdminAssumption DEF Idle
    <3> HIDE DEF r
    <3> QED  BY <3>1, <3>2 DEF Request
  <2> HIDE DEF r
  <2>3. /\ op'[o] = r /\ \A q \in Ops \ {o} : op'[q] = op[q]
        /\ op' = [q \in Ops |-> op'[q]]
        BY <2>1 DEF IInv, Typed
  <2>4. \A q \in Ops : Request(op'[q])
        BY <2>2, <2>3 DEF IInv, Typed
  <2> QED  BY <1>1, <2>2, <2>3, <2>4, RequestStep
<1>4. ASSUME NEW o \in Ops, Assign(o)
      PROVE  IInv'
  <2>1. op' = [q \in Ops |-> IF q = o THEN Idle ELSE Disturbed(q)]
        BY <1>4 DEF Assign
  <2>2. op' = [q \in Ops |-> op'[q]]
        BY <2>1
  <2>3. Request(Idle) /\ Idle.kind = "idle"
        BY DEF Request, Idle
  <2>4. \A q \in Ops : Request(op'[q])
        BY <1>2, <2>1, <2>3
  <2>5. \A q \in Ops : \/ op'[q].kind \notin {"login", "disable"}
                      \/ /\ op'[q].kind = op[q].kind
                         /\ op'[q].on = op[q].on /\ op'[q].st = op[q].st
        BY <1>2, <2>1, <2>3
  <2> QED  BY <1>1, <2>2, <2>4, <2>5, RequestStep
<1>5. ASSUME NEW by \in Admins, CancelSubscription(by)
      PROVE  IInv'
  <2>1. op' = [q \in Ops |-> Disturbed(q)]
        BY <1>5 DEF CancelSubscription
  <2>2. op' = [q \in Ops |-> op'[q]]
        BY <2>1
  <2> QED  BY <1>1, <1>2, <2>1, <2>2, RequestStep
<1> QED  BY <1>3, <1>4, <1>5

LEMMA TickStep ==
    ASSUME IInv, Tick
    PROVE  IInv'
<1>1. clock' = clock + 1 /\ UNCHANGED <<admin, session, sub, op, overlapped>>
      BY DEF Tick
<1>2. lastActive' \in [Admins -> Nat]
      BY <1>1 DEF Tick, IInv, Typed
<1>3. Typed'
      BY <1>1, <1>2 DEF IInv, Typed
<1>4. \A o \in Ops : op[o].kind # "login"
      BY DEF Tick, Idle
<1>5. SessionsEarned'
      BY <1>1, <1>4 DEF Tick, IInv, Typed, SessionsEarned
<1>6. OneSpared'
      BY <1>1 DEF IInv, OneSpared, Disabling
<1> QED  BY <1>3, <1>5, <1>6 DEF IInv

LEMMA InvStep ==
    ASSUME IInv, [Next]_vars
    PROVE  IInv'
<1>1. CASE UNCHANGED vars
  <2>1. UNCHANGED <<clock, people, op>>
        BY <1>1 DEF vars, people
  <2> QED  BY <2>1, RequestStep DEF IInv, Typed
<1>2. CASE Next
      BY <1>2, LoginStep, ActivateStep, ReadTargetStep, CountStep, DisableStep,
         SubscriptionStep, TickStep DEF Next
<1> QED  BY <1>1, <1>2

LEMMA InvInit ==
    ASSUME Init
    PROVE  IInv
<1>1. Request(Idle) /\ Idle.kind = "idle"
      BY DEF Request, Idle
<1>2. Typed
      BY <1>1 DEF Init, Typed
<1>3. SessionsEarned
      BY <1>1 DEF Init, SessionsEarned
<1>4. OneSpared
      BY <1>1 DEF Init, OneSpared, Disabling
<1> QED  BY <1>2, <1>3, <1>4 DEF IInv

-----------------------------------------------------------------------------
(* Theorems                                                                *)

\* A disabled administrator acts with the session of before until its token
\* expires and not a moment longer: no sign-in that read the row as active
\* outlives the moment in which it was.
THEOREM DisabledActsNoLonger == Spec => []DisabledFadesOut
<1>1. IInv => DisabledFadesOut
  <2> SUFFICES ASSUME IInv, NEW a \in Admins, SignedIn(a)
               PROVE  clock - lastActive[a] <= AdminTtl
      BY DEF DisabledFadesOut
  <2>1. clock - session[a] <= AdminTtl /\ session[a] <= lastActive[a]
        BY DEF SignedIn, IInv, SessionsEarned
  <2> QED  BY <2>1, AdminAssumption DEF IInv, Typed
<1> QED  BY <1>1, InvInit, InvStep, PTL DEF Spec

\* The count before the write spares the last active administrator, as long as
\* requests to disable someone do not overlap.
THEOREM LastOneSpared == Spec => []OneLeftWhenAlone
<1>1. IInv => OneLeftWhenAlone
      BY DEF IInv, Typed, OneSpared, OneLeftWhenAlone
<1> QED  BY <1>1, InvInit, InvStep, PTL DEF Spec

-----------------------------------------------------------------------------
(* The months paid for                                                     *)

\* A request about to sell months ends the period within the bound, and as long as
\* it is alone the row it read is the row it will replace.
Sells(r) ==
    /\ r \in [kind : {"assign"}, on : Plans, st : {"none"}, months : Nat, sub : Sub,
              alone : BOOLEAN]
    /\ r.alone => r.sub = sub
    /\ Base(r.sub, r.on)[1] + r.months <= MaxMonth

PaidInv ==
    /\ clock \in DOMAIN Days /\ sub \in Sub /\ PaidTime
    /\ op = [o \in Ops |-> op[o]]
    /\ \A o \in Ops : op[o].kind = "assign" => Sells(op[o])

\* A number of months after a day is a day of the month so many months on, and not
\* a later one of its month.
LEMMA MonthsAdded ==
    ASSUME NEW d \in Date, NEW n \in Nat, d[1] + n <= MaxMonth
    PROVE  /\ AddMonths(d, n) \in Date
           /\ AddMonths(d, n)[1] = d[1] + n /\ AddMonths(d, n)[2] <= d[2]
<1>1. d[1] \in Nat /\ d[2] \in 1..31 /\ d[1] + n \in 0..MaxMonth
      BY AdminAssumption DEF Date
<1>2. MonthLength(d[1] + n) \in 28..31
      BY <1>1, AdminAssumption
<1> QED  BY <1>1, <1>2 DEF AddMonths, Date

LEMMA BaseIsDate ==
    ASSUME PaidInv, NEW s \in Sub, NEW p
    PROVE  Base(s, p) \in Date
<1>1. Today \in Date
      BY AdminAssumption DEF Today, Date, PaidInv
<1>2. s.end \in Date
      BY DEF Sub
<1> QED  BY <1>1, <1>2 DEF Base

\* A step that leaves the subscription and every request about to sell alone.
LEMMA SellsKept ==
    ASSUME PaidInv, UNCHANGED <<clock, sub>>, op' = [o \in Ops |-> op'[o]],
           \A o \in Ops : op'[o].kind = "assign" => op'[o] = op[o]
    PROVE  PaidInv'
<1>1. \A o \in Ops : op'[o].kind = "assign" => Sells(op[o])'
      BY DEF PaidInv, Sells, Base, Running, Today
<1> QED  BY <1>1 DEF PaidInv, PaidTime

\* A request that another write overtakes still ends the period within the bound.
LEMMA DisturbedSells ==
    ASSUME NEW q \in Ops, Sells(op[q]), op'[q] = Disturbed(q), UNCHANGED clock
    PROVE  Sells(op[q])'
<1>1. op'[q] = [op[q] EXCEPT !.alone = FALSE]
      BY DEF Disturbed, Sells
<1>2. /\ op'[q] \in [kind : {"assign"}, on : Plans, st : {"none"}, months : Nat,
                     sub : Sub, alone : BOOLEAN]
      /\ op'[q].alone = FALSE /\ op'[q].sub = op[q].sub /\ op'[q].on = op[q].on
      /\ op'[q].months = op[q].months
      BY <1>1 DEF Sells
<1> QED  BY <1>2 DEF Sells, Base, Running, Today

LEMMA AssignStep ==
    ASSUME PaidInv, NEW o \in Ops, Assign(o)
    PROVE  PaidInv'
<1> DEFINE p == op[o].on  n == op[o].months  read == op[o].sub
           end == AddMonths(Base(read, p), n)
<1>1. Sells(op[o])
      BY DEF Assign, PaidInv
<1>2. p \in Plans /\ read \in Sub /\ n \in Nat /\ Base(read, p)[1] + n <= MaxMonth
      BY <1>1 DEF Sells
<1>3. Base(read, p) \in Date
      BY <1>2, BaseIsDate
<1>4. end \in Date /\ end[1] = Base(read, p)[1] + n /\ end[2] <= Base(read, p)[2]
      BY <1>2, <1>3, MonthsAdded
<1>5. Today \in Date
      BY AdminAssumption DEF Today, Date, PaidInv
<1>6. /\ sub' = [status |-> "ACTIVE", plan |-> p, end |-> end,
                 anchor |-> IF ~op[o].alone THEN end
                            ELSE IF Running(sub, p) THEN sub.anchor ELSE Today,
                 paid |-> IF ~op[o].alone THEN 0
                          ELSE IF Running(sub, p) THEN sub.paid + n ELSE n]
      /\ op' = [q \in Ops |-> IF q = o THEN Idle ELSE Disturbed(q)]
      /\ UNCHANGED clock
      BY DEF Assign
<1>7. sub' \in Sub /\ PaidTime'
  <2>1. CASE ~op[o].alone
    <3> HIDE DEF end, p
    <3>1. sub' = [status |-> "ACTIVE", plan |-> p, end |-> end, anchor |-> end, paid |-> 0]
          BY <1>6, <2>1
    <3> QED  BY <1>2, <1>4, <3>1 DEF Sub, PaidTime, Date
  <2>2. CASE op[o].alone /\ Running(sub, p)
    <3>1. Base(read, p) = sub.end /\ sub.status # "none"
          BY <1>1, <2>2 DEF Sells, Base, Running
    <3>2. /\ sub.anchor \in Date /\ sub.paid \in Nat /\ sub.end \in Date
          /\ sub.end[1] = sub.anchor[1] + sub.paid /\ sub.end[2] <= sub.anchor[2]
          BY <3>1 DEF PaidInv, PaidTime, Sub
    <3> HIDE DEF end, p, n, read
    <3>3. sub' = [status |-> "ACTIVE", plan |-> p, end |-> end, anchor |-> sub.anchor,
                  paid |-> sub.paid + n]
          BY <1>6, <2>2
    <3>4. end[1] = sub.anchor[1] + (sub.paid + n) /\ end[2] <= sub.anchor[2]
          BY <1>2, <1>4, <3>1, <3>2 DEF Date
    <3> QED  BY <1>2, <1>4, <3>2, <3>3, <3>4 DEF Sub, PaidTime
  <2>3. CASE op[o].alone /\ ~Running(sub, p)
    <3>1. Base(read, p) = Today
          BY <1>1, <2>3 DEF Sells, Base
    <3> HIDE DEF end, p, n, read
    <3>2. sub' = [status |-> "ACTIVE", plan |-> p, end |-> end, anchor |-> Today,
                  paid |-> n]
          BY <1>6, <2>3
    <3> QED  BY <1>2, <1>4, <1>5, <3>1, <3>2 DEF Sub, PaidTime
  <2> QED  BY <2>1, <2>2, <2>3
<1>8. ASSUME NEW q \in Ops, op'[q].kind = "assign"
      PROVE  Sells(op[q])'
  <2>1. q # o
        BY <1>6, <1>8 DEF Idle
  <2>2. op'[q] = Disturbed(q)
        BY <1>6, <2>1
  <2>3. op[q].kind = "assign"
        BY <1>8, <2>2 DEF Disturbed
  <2>4. Sells(op[q])
        BY <2>3 DEF PaidInv
  <2> QED  BY <1>6, <2>2, <2>4, DisturbedSells
<1> QED  BY <1>6, <1>7, <1>8 DEF PaidInv

LEMMA ReadSubscriptionStep ==
    ASSUME PaidInv, NEW o \in Ops, NEW by \in Admins, NEW p \in Plans, NEW n \in Months,
           ReadSubscription(o, by, p, n)
    PROVE  PaidInv'
<1> DEFINE r == [Idle EXCEPT !.kind = "assign", !.on = p, !.months = n, !.sub = sub]
<1>1. op' = [op EXCEPT ![o] = r] /\ UNCHANGED <<clock, sub>>
      BY DEF ReadSubscription
<1>2. /\ r \in [kind : {"assign"}, on : Plans, st : {"none"}, months : Nat, sub : Sub,
                alone : BOOLEAN]
      /\ r.sub = sub /\ r.on = p /\ r.months = n
      BY AdminAssumption DEF Idle, PaidInv
<1>3. Base(r.sub, r.on)[1] + r.months <= MaxMonth
      BY <1>2 DEF ReadSubscription
<1> HIDE DEF r
<1>4. op'[o] = r /\ \A q \in Ops \ {o} : op'[q] = op[q]
      BY <1>1 DEF PaidInv
<1>5. \A q \in Ops : op'[q].kind = "assign" => Sells(op[q])'
      BY <1>1, <1>2, <1>3, <1>4 DEF PaidInv, Sells, Base, Running, Today
<1>6. op' = [q \in Ops |-> op'[q]]
      BY <1>1 DEF PaidInv
<1> QED  BY <1>1, <1>5, <1>6 DEF PaidInv, PaidTime

LEMMA CancelSubscriptionStep ==
    ASSUME PaidInv, NEW by \in Admins, CancelSubscription(by)
    PROVE  PaidInv'
<1>1. /\ sub' = [sub EXCEPT !.status = "CANCELLED"] /\ sub.status # "none"
      /\ op' = [q \in Ops |-> Disturbed(q)] /\ UNCHANGED clock
      BY DEF CancelSubscription
<1>2. sub' \in Sub /\ PaidTime'
      BY <1>1 DEF PaidInv, PaidTime, Sub
<1>3. ASSUME NEW q \in Ops, op'[q].kind = "assign"
      PROVE  Sells(op[q])'
  <2>1. op'[q] = Disturbed(q)
        BY <1>1
  <2>2. op[q].kind = "assign"
        BY <1>3, <2>1 DEF Disturbed
  <2>3. Sells(op[q])
        BY <2>2 DEF PaidInv
  <2> QED  BY <1>1, <2>1, <2>3, DisturbedSells
<1> QED  BY <1>1, <1>2, <1>3 DEF PaidInv

LEMMA PaidStep ==
    ASSUME PaidInv, [Next]_vars
    PROVE  PaidInv'
<1>1. Idle.kind = "idle"
      BY DEF Idle
<1>2. ASSUME NEW o \in Ops, NEW r, op' = [op EXCEPT ![o] = r], r.kind # "assign",
             UNCHANGED <<clock, sub>>
      PROVE  PaidInv'
  <2>1. op'[o] = r /\ \A q \in Ops \ {o} : op'[q] = op[q]
        BY <1>2 DEF PaidInv
  <2>2. \A q \in Ops : op'[q].kind = "assign" => op'[q] = op[q]
        BY <1>2, <2>1
  <2>3. op' = [q \in Ops |-> op'[q]]
        BY <1>2 DEF PaidInv
  <2> QED  BY <1>2, <2>2, <2>3, SellsKept
<1>3. ASSUME NEW o \in Ops, Login(o) \/ Disable(o) \/ (CountActive(o) /\ LastActive)
      PROVE  PaidInv'
  <2>1. op' = [op EXCEPT ![o] = Idle] /\ UNCHANGED <<clock, sub>>
        BY <1>3 DEF Login, Disable, CountActive, Ends
  <2> QED  BY <1>1, <1>2, <2>1
<1>4. ASSUME NEW o \in Ops, CountActive(o), ~LastActive
      PROVE  PaidInv'
  <2>1. op' = [op EXCEPT ![o].st = "update"] /\ op[o].kind = "disable"
        /\ UNCHANGED <<clock, sub>>
        BY <1>4 DEF CountActive
  <2>2. op' = [op EXCEPT ![o] = [op[o] EXCEPT !.st = "update"]]
        BY <2>1
  <2>3. [op[o] EXCEPT !.st = "update"].kind # "assign"
        BY <2>1
  <2> QED  BY <1>2, <2>1, <2>2, <2>3
<1>5. ASSUME NEW o \in Ops, NEW a \in Admins, ReadLogin(o, a)
      PROVE  PaidInv'
  <2>1. op' = [op EXCEPT ![o] = [Idle EXCEPT !.kind = "login", !.on = a, !.st = admin[a]]]
        /\ UNCHANGED <<clock, sub>>
        BY <1>5 DEF ReadLogin
  <2>2. [Idle EXCEPT !.kind = "login", !.on = a, !.st = admin[a]].kind = "login"
        BY DEF Idle
  <2> QED  BY <1>2, <2>1, <2>2
<1>6. ASSUME NEW o \in Ops, NEW by \in Admins, NEW a \in Admins, ReadTarget(o, by, a)
      PROVE  PaidInv'
  <2> DEFINE r == [Idle EXCEPT !.kind = "disable", !.on = a,
                       !.st = IF admin[a] = "active" THEN "count" ELSE "update"]
  <2>1. op' = [op EXCEPT ![o] = r] /\ UNCHANGED <<clock, sub>>
        BY <1>6 DEF ReadTarget
  <2>2. r.kind = "disable"
        BY DEF Idle
  <2> HIDE DEF r
  <2> QED  BY <1>2, <2>1, <2>2
<1>7. ASSUME UNCHANGED <<clock, sub, op>>
      PROVE  PaidInv'
      BY <1>7, SellsKept DEF PaidInv
<1>8. ASSUME NEW by \in Admins, NEW a \in Admins, CreateAdmin(by, a) \/ Enable(by, a)
      PROVE  PaidInv'
      BY <1>7, <1>8 DEF CreateAdmin, Enable
<1>9. CASE Tick
  <2>1. clock' = clock + 1 /\ clock < Len(Days) /\ UNCHANGED <<sub, op>>
        BY <1>9 DEF Tick
  <2>2. clock' \in DOMAIN Days
        BY <2>1, AdminAssumption DEF PaidInv
  <2>3. \A o \in Ops : op'[o].kind # "assign"
        BY <1>1, <1>9, <2>1 DEF Tick
  <2> QED  BY <2>1, <2>2, <2>3 DEF PaidInv, PaidTime
<1>10. CASE UNCHANGED vars
      BY <1>7, <1>10 DEF vars
<1> QED
    BY <1>3, <1>4, <1>5, <1>6, <1>8, <1>9, <1>10, ReadSubscriptionStep, AssignStep,
       CancelSubscriptionStep DEF Next

\* However many renewals and cancellations race, a period ends in the month of all
\* the months its renewals sold since one of them last replaced a row it had not
\* read, and is never longer than they are.
THEOREM MonthsPaidFor == Spec => []PaidTime
<1>1. Init => PaidInv
  <2> SUFFICES ASSUME Init PROVE PaidInv
      OBVIOUS
  <2>1. clock \in DOMAIN Days
        BY AdminAssumption DEF Init
  <2>2. sub \in Sub /\ PaidTime
        BY DEF Init, NoSub, Sub, Date, PaidTime
  <2>3. op = [o \in Ops |-> op[o]] /\ \A o \in Ops : op[o].kind = "idle"
        BY DEF Init, Idle
  <2> QED  BY <2>1, <2>2, <2>3 DEF PaidInv
<1>2. PaidInv => PaidTime
      BY DEF PaidInv
<1> QED  BY <1>1, <1>2, PaidStep, PTL DEF Spec

=============================================================================

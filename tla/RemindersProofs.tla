-------------------------- MODULE RemindersProofs ---------------------------
(***************************************************************************)
(* Proofs about Reminders for any number of bookings, servers and sweeps:  *)
(* no booking is reminded of twice, one that is off is reminded of by no   *)
(* sweep that begins later, and one confirmed in time is reminded of       *)
(* before it starts.                                                       *)
(***************************************************************************)
EXTENDS Reminders, FiniteSetTheorems, TLAPS

-----------------------------------------------------------------------------
(* Types                                                                   *)

\* Every step keeps the type of every variable.
LEMMA TypeStep ==
    ASSUME TypeOK, [Next]_vars
    PROVE  TypeOK'
<1> USE DEF TypeOK
<1>1. ASSUME NEW w \in Sweeps, NEW s \in Servers, StartSweep(w, s)
      PROVE  TypeOK'
  <2>1. PICK rows \in SUBSET Due :
              sweep' = [sweep EXCEPT ![w] = [server |-> s, at |-> now, due |-> rows,
                                             claimed |-> None]]
        BY <1>1 DEF StartSweep
  <2>2. [server |-> s, at |-> now, due |-> rows, claimed |-> None] \in Sweep
        BY DEF Sweep, Due
  <2>3. sweep' \in [Sweeps -> Sweep \cup {None}]
        BY <2>1, <2>2
  <2> QED  BY <1>1, <2>3 DEF StartSweep
<1>2. ASSUME NEW w \in Sweeps, Claim(w)
      PROVE  TypeOK'
  <2>1. PICK k \in sweep[w].due, won \in BOOLEAN :
              /\ sent' = IF won THEN [sent EXCEPT ![k] = TRUE] ELSE sent
              /\ sweep' = [sweep EXCEPT ![w].due = @ \ {k},
                                        ![w].claimed = IF won THEN k ELSE None]
        BY <1>2 DEF Claim
  <2>2. sweep[w] \in Sweep /\ k \in Bookings
        BY <1>2, <2>1 DEF Claim, Sweep
  <2>3. sweep' \in [Sweeps -> Sweep \cup {None}]
        BY <2>1, <2>2 DEF Sweep
  <2>4. sent' \in [Bookings -> BOOLEAN]
        BY <2>1, <2>2
  <2> QED  BY <1>2, <2>3, <2>4 DEF Claim
<1>3. ASSUME NEW w \in Sweeps, NEW written \in BOOLEAN, Notify(w, written)
      PROVE  TypeOK'
  <2>1. sweep[w] \in Sweep /\ sweep[w].claimed \in Bookings
        BY <1>3 DEF Notify, Sweep
  <2>2. sweep' \in [Sweeps -> Sweep \cup {None}]
        BY <1>3, <2>1 DEF Notify, Sweep
  <2>3. feed' \in [Bookings -> Nat]
        BY <1>3, <2>1 DEF Notify
  <2> QED  BY <1>3, <2>2, <2>3 DEF Notify
<1>4. ASSUME NEW w \in Sweeps, EndSweep(w)
      PROVE  TypeOK'
  <2>1. sweep[w] \in Sweep
        BY <1>4 DEF EndSweep
  <2>2. sweptAt' \in Int /\ sweep' \in [Sweeps -> Sweep \cup {None}]
        BY <1>4, <2>1 DEF EndSweep, Sweep
  <2> QED  BY <1>4, <2>2 DEF EndSweep
<1>5. ASSUME NEW w \in Sweeps, FailSweep(w)
      PROVE  TypeOK'
      BY <1>5 DEF FailSweep
<1>6. ASSUME NEW s \in Servers, StopTimer(s) \/ Die(s) \/ Boot(s)
      PROVE  TypeOK'
      BY <1>6 DEF StopTimer, Die, Boot
<1>7. ASSUME NEW k \in Bookings,
             Confirm(k) \/ \E st \in {"CANCELLED", "deleted"} : Drop(k, st)
      PROVE  TypeOK'
      BY <1>7 DEF Confirm, Drop
<1>8. CASE Tick
      BY <1>8 DEF Tick
<1>9. CASE UNCHANGED vars
      BY <1>9 DEF vars
<1> QED
    BY <1>1, <1>2, <1>3, <1>4, <1>5, <1>6, <1>7, <1>8, <1>9 DEF Next, Run

\* Every variable keeps its type.
THEOREM Types == Spec => []TypeOK
<1>1. Init => TypeOK
      BY DEF Init, TypeOK
<1>2. TypeOK /\ [Next]_vars => TypeOK'
      BY TypeStep
<1> QED  BY <1>1, <1>2, PTL DEF Spec

-----------------------------------------------------------------------------
(* No double reminders                                                     *)

\* The claim of a sweep that has not written its feed row yet.
Holds(w, k) == sweep[w] # None /\ sweep[w].claimed = k

\* A booking in the feed, or about to be, carries reminderSentAt; only one sweep
\* is about to write it, and it is not there yet.
Claimed ==
    /\ \A k \in Bookings : feed[k] # 0 => sent[k]
    /\ \A k \in Bookings, w \in Sweeps : Holds(w, k) => sent[k] /\ feed[k] = 0
    /\ \A k \in Bookings, v, w \in Sweeps : Holds(v, k) /\ Holds(w, k) => v = w

IInv == TypeOK /\ RemindedOnce /\ Claimed

\* A step that writes neither a booking's mark nor its feed, and by which no
\* sweep claims anything, keeps the invariant.
LEMMA NoNewClaim ==
    ASSUME IInv, TypeOK', UNCHANGED <<sent, feed>>,
           \A k \in Bookings, w \in Sweeps : Holds(w, k)' => Holds(w, k)
    PROVE  IInv'
BY DEF IInv, RemindedOnce, Claimed

LEMMA ClaimedStep ==
    ASSUME IInv, [Next]_vars
    PROVE  IInv'
<1>0. TypeOK'
      BY TypeStep DEF IInv
<1> USE AbsentAssumption, ReminderAssumption
<1>1. ASSUME NEW w \in Sweeps, NEW s \in Servers, StartSweep(w, s)
      PROVE  IInv'
  <2>1. PICK rows \in SUBSET Due :
              sweep' = [sweep EXCEPT ![w] = [server |-> s, at |-> now, due |-> rows,
                                             claimed |-> None]]
        BY <1>1 DEF StartSweep
  <2>2. \A k \in Bookings, v \in Sweeps : Holds(v, k)' => Holds(v, k)
        BY <2>1 DEF Holds, IInv, TypeOK
  <2> QED  BY <1>0, <1>1, <2>2, NoNewClaim DEF StartSweep
<1>2. ASSUME NEW w \in Sweeps, Claim(w)
      PROVE  IInv'
  <2>1. PICK k \in sweep[w].due : LET won == status[k] # "deleted" /\ ~sent[k] IN
              /\ sent' = IF won THEN [sent EXCEPT ![k] = TRUE] ELSE sent
              /\ sweep' = [sweep EXCEPT ![w].due = @ \ {k},
                                        ![w].claimed = IF won THEN k ELSE None]
        BY <1>2 DEF Claim
  <2>2. sweep[w] \in Sweep /\ k \in Bookings
        BY <1>2, <2>1 DEF Claim, Sweep, IInv, TypeOK
  <2>3. UNCHANGED feed
        BY <1>2 DEF Claim
  <2>4. CASE status[k] # "deleted" /\ ~sent[k]
    <3>1. sent' = [sent EXCEPT ![k] = TRUE]
          BY <2>1, <2>4
    <3>2. Holds(w, k)' /\ \A j \in Bookings : Holds(w, j)' => j = k
      <4>1. sweep'[w] \in Sweep
            BY <2>1, <2>2, <2>4 DEF Sweep, IInv, TypeOK
      <4>2. sweep'[w].claimed = k
            BY <2>1, <2>2, <2>4 DEF Sweep, IInv, TypeOK
      <4> QED  BY <4>1, <4>2 DEF Holds
    <3>3. \A j \in Bookings, v \in Sweeps \ {w} : Holds(v, j)' <=> Holds(v, j)
          BY <2>1, <2>2, <2>4 DEF Holds, IInv, TypeOK
    <3>4. feed[k] = 0 /\ \A v \in Sweeps : ~Holds(v, k)
          BY <2>2, <2>4 DEF IInv, Claimed
    <3>5. \A j \in Bookings : feed'[j] # 0 => sent'[j]
          BY <2>2, <2>3, <3>1 DEF IInv, Claimed, TypeOK
    <3>6. \A j \in Bookings, v \in Sweeps : Holds(v, j)' => sent'[j] /\ feed'[j] = 0
          BY <2>2, <2>3, <3>1, <3>2, <3>3, <3>4 DEF IInv, Claimed, TypeOK
    <3>7. \A j \in Bookings, u, v \in Sweeps : Holds(u, j)' /\ Holds(v, j)' => u = v
          BY <2>2, <3>2, <3>3, <3>4 DEF IInv, Claimed
    <3> QED  BY <1>0, <2>3, <3>5, <3>6, <3>7 DEF IInv, Claimed, RemindedOnce
  <2>5. CASE ~(status[k] # "deleted" /\ ~sent[k])
    <3>1. UNCHANGED sent
          BY <2>1, <2>5
    <3>2. \A j \in Bookings, v \in Sweeps : Holds(v, j)' => Holds(v, j)
          BY <2>1, <2>2, <2>5 DEF Holds, Sweep, IInv, TypeOK
    <3> QED  BY <1>0, <2>3, <3>1, <3>2, NoNewClaim
  <2> QED  BY <2>4, <2>5
<1>3. ASSUME NEW w \in Sweeps, NEW written \in BOOLEAN, Notify(w, written)
      PROVE  IInv'
  <2> DEFINE k == sweep[w].claimed
  <2>1. k \in Bookings /\ sweep[w] \in Sweep /\ Holds(w, k)
        BY <1>3 DEF Notify, Sweep, Holds, IInv, TypeOK
  <2>2. UNCHANGED sent /\ feed' = IF written THEN [feed EXCEPT ![k] = @ + 1] ELSE feed
        BY <1>3 DEF Notify
  <2>3. \A j \in Bookings : ~Holds(w, j)'
        BY <1>3, <2>1 DEF Notify, Holds, Sweep, IInv, TypeOK
  <2>4. \A j \in Bookings, v \in Sweeps \ {w} : Holds(v, j)' => Holds(v, j) /\ j # k
        BY <1>3, <2>1 DEF Notify, Holds, IInv, Claimed, TypeOK
  <2>5. sent[k] /\ feed[k] = 0
        BY <2>1 DEF IInv, Claimed
  <2>6. \A j \in Bookings \ {k} : feed'[j] = feed[j]
        BY <2>2 DEF IInv, TypeOK
  <2>7. feed'[k] \in {0, 1}
        BY <2>1, <2>2, <2>5 DEF IInv, TypeOK
  <2>8. RemindedOnce'
        BY <2>6, <2>7 DEF IInv, RemindedOnce
  <2>9. Claimed'
        BY <2>2, <2>3, <2>4, <2>5, <2>6, <2>7 DEF IInv, Claimed
  <2> QED  BY <1>0, <2>8, <2>9 DEF IInv
<1>4. ASSUME NEW w \in Sweeps, EndSweep(w) \/ FailSweep(w)
      PROVE  IInv'
  <2>1. \A k \in Bookings, v \in Sweeps : Holds(v, k)' => Holds(v, k)
        BY <1>4 DEF EndSweep, FailSweep, Holds, IInv, TypeOK
  <2> QED  BY <1>0, <1>4, <2>1, NoNewClaim DEF EndSweep, FailSweep
<1>5. ASSUME NEW s \in Servers, StopTimer(s) \/ Die(s) \/ Boot(s)
      PROVE  IInv'
  <2>1. \A k \in Bookings, v \in Sweeps : Holds(v, k)' => Holds(v, k)
        BY <1>5 DEF StopTimer, Die, Boot, Holds, IInv, TypeOK
  <2> QED  BY <1>0, <1>5, <2>1, NoNewClaim DEF StopTimer, Die, Boot
<1>6. ASSUME UNCHANGED <<sent, feed, sweep>>
      PROVE  IInv'
      BY <1>0, <1>6, NoNewClaim DEF Holds
<1>7. ASSUME NEW k \in Bookings,
             Confirm(k) \/ \E st \in {"CANCELLED", "deleted"} : Drop(k, st)
      PROVE  IInv'
      BY <1>6, <1>7 DEF Confirm, Drop
<1>8. CASE Tick \/ UNCHANGED vars
      BY <1>6, <1>8 DEF Tick, vars
<1> QED
    BY <1>1, <1>2, <1>3, <1>4, <1>5, <1>7, <1>8 DEF Next, Run

\* "Can't double-send": the compare-and-swap on reminderSentAt lets one sweep
\* through, however many sweeps of however many processes have read the row,
\* and it writes at most one feed row before it ends or dies.
THEOREM NoDoubleReminder == Spec => []RemindedOnce
<1>1. Init => IInv
      BY AbsentAssumption DEF Init, IInv, TypeOK, RemindedOnce, Claimed, Holds
<1>2. IInv /\ [Next]_vars => IInv'
      BY ClaimedStep
<1>3. IInv => RemindedOnce
      BY DEF IInv
<1> QED  BY <1>1, <1>2, <1>3, PTL DEF Spec

-----------------------------------------------------------------------------
(* Cancelled bookings                                                      *)

LEMMA QuietStep ==
    ASSUME TypeOK, [Next]_vars, NEW k \in Bookings, Quiet(k)
    PROVE  Quiet(k)' /\ feed'[k] = feed[k]
<1> USE DEF Quiet
<1>1. ASSUME NEW w \in Sweeps, NEW s \in Servers, StartSweep(w, s)
      PROVE  Quiet(k)' /\ feed'[k] = feed[k]
  <2>1. PICK rows \in SUBSET Due :
              sweep' = [sweep EXCEPT ![w] = [server |-> s, at |-> now, due |-> rows,
                                             claimed |-> None]]
        BY <1>1 DEF StartSweep
  <2>2. k \notin rows /\ k # None
        BY ReminderAssumption DEF Due
  <2>3. sweep'[w].due = rows /\ sweep'[w].claimed = None
        BY <2>1 DEF TypeOK
  <2>4. \A v \in Sweeps \ {w} : sweep'[v] = sweep[v]
        BY <2>1 DEF TypeOK
  <2> QED  BY <1>1, <2>2, <2>3, <2>4 DEF StartSweep
<1>2. ASSUME NEW w \in Sweeps, Claim(w)
      PROVE  Quiet(k)' /\ feed'[k] = feed[k]
  <2>1. PICK j \in sweep[w].due : \E c \in {j, None} :
              sweep' = [sweep EXCEPT ![w].due = @ \ {j}, ![w].claimed = c]
        BY <1>2 DEF Claim
  <2>2. PICK c \in {j, None} :
              sweep' = [sweep EXCEPT ![w].due = @ \ {j}, ![w].claimed = c]
        BY <2>1
  <2>3. sweep[w] \in Sweep /\ sweep[w] # None /\ j # k /\ c # k
        BY <1>2, <2>1, ReminderAssumption DEF Claim, TypeOK
  <2>4. sweep'[w].due = sweep[w].due \ {j} /\ sweep'[w].claimed = c
        BY <2>2, <2>3 DEF TypeOK, Sweep
  <2>5. \A v \in Sweeps \ {w} : sweep'[v] = sweep[v]
        BY <2>2 DEF TypeOK
  <2> QED  BY <1>2, <2>3, <2>4, <2>5 DEF Claim
<1>3. ASSUME NEW w \in Sweeps, NEW written \in BOOLEAN, Notify(w, written)
      PROVE  Quiet(k)' /\ feed'[k] = feed[k]
  <2>1. sweep[w] \in Sweep /\ sweep[w].claimed # k
        BY <1>3 DEF Notify, TypeOK
  <2>2. feed'[k] = feed[k]
        BY <1>3, <2>1 DEF Notify, TypeOK
  <2>3. sweep'[w].due = sweep[w].due /\ sweep'[w].claimed = None
        BY <1>3, <2>1 DEF Notify, TypeOK, Sweep
  <2>4. \A v \in Sweeps \ {w} : sweep'[v] = sweep[v]
        BY <1>3 DEF Notify, TypeOK
  <2> QED  BY <1>3, <2>2, <2>3, <2>4, ReminderAssumption DEF Notify
<1>4. ASSUME NEW w \in Sweeps, EndSweep(w) \/ FailSweep(w)
      PROVE  Quiet(k)' /\ feed'[k] = feed[k]
      BY <1>4 DEF EndSweep, FailSweep, TypeOK
<1>5. ASSUME NEW s \in Servers, StopTimer(s) \/ Die(s) \/ Boot(s)
      PROVE  Quiet(k)' /\ feed'[k] = feed[k]
      BY <1>5 DEF StopTimer, Die, Boot, TypeOK
<1>6. ASSUME NEW j \in Bookings,
             Confirm(j) \/ \E st \in {"CANCELLED", "deleted"} : Drop(j, st)
      PROVE  Quiet(k)' /\ feed'[k] = feed[k]
      BY <1>6 DEF Confirm, Drop, TypeOK
<1>7. CASE Tick \/ UNCHANGED vars
      BY <1>7 DEF Tick, vars
<1> QED
    BY <1>1, <1>2, <1>3, <1>4, <1>5, <1>6, <1>7 DEF Next, Run

\* A booking that is cancelled or deleted, and that no sweep under way has read
\* as due, gets no reminder any more.
THEOREM CancelledIsQuiet == Spec => CancelledStaysQuiet
<1>1. TypeOK /\ [Next]_vars =>
          [\A k \in Bookings : Quiet(k) => Quiet(k)' /\ feed'[k] = feed[k]]_vars
      BY QuietStep
<1> QED  BY <1>1, Types, PTL DEF Spec, CancelledStaysQuiet

-----------------------------------------------------------------------------
(* Reminders in time                                                       *)

\* When the window of a booking opens, and a booking its window must not miss.
Opens(k) == StartsAt[k] - ReminderLead
Waiting(k) == status[k] = "CONFIRMED" /\ ~sent[k] /\ confirmedAt[k] < Opens(k)

\* The bookings no sweep has anything to do about any more.
Settled == {x \in Bookings : sent[x] \/ status[x] = "deleted"}

\* S is as large as what the sweeps of k's window up to the time at can read: one
\* of Take rows at each time.
Served(S, at, k) ==
    \A t \in Opens(k) .. (StartsAt[k] - 1) :
        t <= at => Cardinality(S) >= Take * (t - Opens(k) + 1)

\* The clock never runs ahead of the sweeps that end well by more than a step.
ClockInv ==
    /\ now - 1 <= sweptAt /\ sweptAt <= now
    /\ \A w \in Sweeps : sweep[w] # None => sweep[w].at <= now
    /\ \A k \in Bookings : confirmedAt[k] <= now

\* While k waits, every sweep of its window that did not read it has read as many
\* others as it can, and those are settled when it ends.
ServedInv ==
    \A k \in Bookings : Waiting(k) =>
        /\ Served(Settled, sweptAt, k)
        /\ \A w \in Sweeps : sweep[w] # None /\ k \notin sweep[w].due
                             => Served(Settled \cup sweep[w].due, sweep[w].at, k)

TimeInv == TypeOK /\ ClockInv /\ ServedInv

\* A set that serves k, served up to a later time or by a larger set.
LEMMA ServedByMore ==
    ASSUME NEW S, NEW T, S \subseteq T, T \subseteq Bookings,
           NEW at \in Int, NEW k \in Bookings, Served(S, at, k)
    PROVE  Served(T, at, k)
<1>1. IsFiniteSet(T) /\ IsFiniteSet(S)
      BY FS_Subset, ReminderAssumption
<1>2. Cardinality(S) \in Nat /\ Cardinality(T) \in Nat /\ Cardinality(S) <= Cardinality(T)
      BY <1>1, FS_Subset, FS_CardinalityType
<1>3. SUFFICES ASSUME NEW t \in Opens(k) .. (StartsAt[k] - 1), t <= at
               PROVE  Cardinality(T) >= Take * (t - Opens(k) + 1)
      BY DEF Served
<1>4. Cardinality(S) >= Take * (t - Opens(k) + 1)
      BY <1>3 DEF Served
<1>5. Take * (t - Opens(k) + 1) \in Int
      BY ReminderAssumption DEF Opens
<1> QED  BY <1>2, <1>4, <1>5

\* A step that starts no sweep and ends none well, lets no booking begin to wait,
\* and drops from a sweep's list what is settled.
LEMMA ServedKept ==
    ASSUME TypeOK, TypeOK', ServedInv, UNCHANGED sweptAt, Settled \subseteq Settled',
           \A k \in Bookings : Waiting(k)' => Waiting(k),
           \A w \in Sweeps : sweep'[w] # None =>
               /\ sweep[w] # None /\ sweep'[w].at = sweep[w].at
               /\ sweep[w].due \subseteq Settled' \cup sweep'[w].due
               /\ \A k \in Bookings : Waiting(k)' /\ k \in sweep[w].due
                                      => k \in sweep'[w].due
    PROVE  ServedInv'
<1>1. SUFFICES ASSUME NEW k \in Bookings, Waiting(k)'
               PROVE  /\ Served(Settled', sweptAt', k)
                      /\ \A w \in Sweeps : sweep'[w] # None /\ k \notin sweep'[w].due
                             => Served(Settled' \cup sweep'[w].due, sweep'[w].at, k)
      BY DEF ServedInv, Served, Opens
<1>2. Waiting(k) /\ Served(Settled, sweptAt, k)
      BY <1>1 DEF ServedInv
<1>3. Settled' \subseteq Bookings
      BY DEF Settled
<1>4. Served(Settled', sweptAt', k)
      BY <1>2, <1>3, ServedByMore DEF TypeOK
<1>5. ASSUME NEW w \in Sweeps, sweep'[w] # None, k \notin sweep'[w].due
      PROVE  Served(Settled' \cup sweep'[w].due, sweep'[w].at, k)
  <2>1. sweep'[w] \in Sweep /\ sweep[w] # None /\ sweep'[w].at = sweep[w].at
        BY <1>5 DEF TypeOK
  <2>2. k \notin sweep[w].due
        BY <1>1, <1>5
  <2>3. Served(Settled \cup sweep[w].due, sweep[w].at, k)
        BY <1>2, <2>1, <2>2 DEF ServedInv
  <2>4. Settled \cup sweep[w].due \subseteq Settled' \cup sweep'[w].due
        BY <1>5
  <2>5. Settled' \cup sweep'[w].due \subseteq Bookings /\ sweep[w].at \in Int
        BY <1>3, <2>1 DEF Sweep
  <2> QED  BY <2>1, <2>3, <2>4, <2>5, ServedByMore
<1> QED  BY <1>4, <1>5

\* What is settled stays settled, and no booking begins to wait once its window
\* is open.
LEMMA SettledStays ==
    ASSUME TypeOK, [Next]_vars
    PROVE  Settled \subseteq Settled'
<1>1. ASSUME NEW w \in Sweeps, Claim(w)
      PROVE  Settled \subseteq Settled'
      BY <1>1 DEF Claim, Settled, TypeOK
<1>2. ASSUME NEW k \in Bookings,
             Confirm(k) \/ \E st \in {"CANCELLED", "deleted"} : Drop(k, st)
      PROVE  Settled \subseteq Settled'
      BY <1>2 DEF Confirm, Drop, Settled, TypeOK
<1>3. ASSUME UNCHANGED <<status, sent>>
      PROVE  Settled \subseteq Settled'
      BY <1>3 DEF Settled
<1> QED
    BY <1>1, <1>2, <1>3
    DEF Next, Run, StartSweep, Notify, EndSweep, FailSweep, StopTimer, Die, Boot, Tick, vars

\* A sweep reads k, or as many rows as it can that no sweep has settled: then the
\* sweeps of k's window have read up to the present time all they can.
LEMMA StartServes ==
    ASSUME TimeInv, NEW k \in Bookings, Waiting(k), k \notin Settled,
           NEW rows \in SUBSET Due, k \notin rows,
           rows = Due \/ Cardinality(rows) = Take
    PROVE  Served(Settled \cup rows, now, k)
<1> DEFINE T == Settled \cup rows
<1>1. IsFiniteSet(T) /\ IsFiniteSet(Settled) /\ IsFiniteSet(rows)
      BY FS_Subset, ReminderAssumption DEF Settled, Due
<1>2. Settled \cap rows = {}
      BY DEF Settled, Due
<1>3. Cardinality(T) = Cardinality(Settled) + Cardinality(rows)
  <2>1. Cardinality(Settled \cap rows) = 0
        BY <1>2, FS_EmptySet
  <2>2. Cardinality(Settled \cup rows)
            = Cardinality(Settled) + Cardinality(rows) - Cardinality(Settled \cap rows)
        BY <1>1, FS_Union
  <2>3. Cardinality(Settled) \in Nat /\ Cardinality(rows) \in Nat
        BY <1>1, FS_CardinalityType
  <2> QED  BY <2>1, <2>2, <2>3
<1>4. Cardinality(Settled) \in Nat /\ Cardinality(rows) \in Nat
      BY <1>1, FS_CardinalityType
<1>5. Served(Settled, sweptAt, k) /\ now - 1 <= sweptAt /\ now \in Int /\ sweptAt \in Int
      BY DEF TimeInv, ServedInv, ClockInv, TypeOK
<1>6. SUFFICES ASSUME NEW t \in Opens(k) .. (StartsAt[k] - 1), t <= now
               PROVE  Cardinality(T) >= Take * (t - Opens(k) + 1)
      BY DEF Served
<1>7. t \in Int /\ Opens(k) \in Int /\ StartsAt[k] \in Int /\ Take \in Nat
      BY ReminderAssumption DEF Opens
<1>8. CASE t <= sweptAt
  <2>1. Cardinality(Settled) >= Take * (t - Opens(k) + 1)
        BY <1>5, <1>8 DEF Served
  <2>2. Take * (t - Opens(k) + 1) \in Int
        BY <1>7
  <2> QED  BY <1>3, <1>4, <2>1, <2>2
<1>9. CASE t > sweptAt
  <2>1. t = now
        BY <1>5, <1>6, <1>7, <1>9
  <2>2. k \in Due
    <3>1. StartsAt[k] > now /\ StartsAt[k] <= now + ReminderLead
          BY <1>5, <1>6, <1>7, <2>1, ReminderAssumption DEF Opens
    <3> QED  BY <3>1 DEF Due, Waiting
  <2>3. Cardinality(rows) = Take
        BY <2>2
  <2>4. Take * (t - Opens(k) + 1) = Take * (t - Opens(k)) + Take
        BY <1>7
  <2>5. CASE t = Opens(k)
    <3>1. Take * (t - Opens(k)) = 0
          BY <1>7, <2>5
    <3> QED  BY <1>3, <1>4, <2>3, <2>4, <3>1
  <2>6. CASE t # Opens(k)
    <3>1. t - 1 \in Opens(k) .. (StartsAt[k] - 1) /\ t - 1 <= sweptAt
          BY <1>5, <1>6, <1>7, <2>1, <2>6
    <3>2. Cardinality(Settled) >= Take * ((t - 1) - Opens(k) + 1)
          BY <1>5, <3>1 DEF Served
    <3>3. (t - 1) - Opens(k) + 1 = t - Opens(k)
          BY <1>7
    <3>4. Take * (t - Opens(k)) \in Int
          BY <1>7
    <3> QED  BY <1>3, <1>4, <2>3, <2>4, <3>2, <3>3, <3>4, <1>7
  <2> QED  BY <2>5, <2>6
<1> QED  BY <1>5, <1>7, <1>8, <1>9

LEMMA TimeStep ==
    ASSUME TimeInv, [Next]_vars
    PROVE  TimeInv'
<1>0. TypeOK /\ TypeOK' /\ ClockInv /\ ServedInv /\ Settled \subseteq Settled'
      BY TypeStep, SettledStays DEF TimeInv
<1> USE ReminderAssumption, AbsentAssumption
<1>1. ASSUME NEW w \in Sweeps, NEW s \in Servers, StartSweep(w, s)
      PROVE  TimeInv'
  <2>1. PICK rows \in SUBSET Due :
              /\ rows = Due \/ Cardinality(rows) = Take
              /\ sweep' = [sweep EXCEPT ![w] = [server |-> s, at |-> now, due |-> rows,
                                                claimed |-> None]]
        BY <1>1 DEF StartSweep
  <2>2. sweep'[w].at = now /\ sweep'[w].due = rows
        BY <1>0, <2>1 DEF TypeOK
  <2>3. \A v \in Sweeps \ {w} : sweep'[v] = sweep[v]
        BY <1>0, <2>1 DEF TypeOK
  <2>4. UNCHANGED <<now, status, sent, sweptAt, confirmedAt>>
        BY <1>1 DEF StartSweep
  <2>5. ClockInv'
        BY <1>0, <2>2, <2>3, <2>4 DEF ClockInv, TypeOK
  <2>6. Settled' = Settled /\ \A k \in Bookings : Waiting(k)' <=> Waiting(k)
        BY <2>4 DEF Settled, Waiting, Opens
  <2>7. ASSUME NEW k \in Bookings, Waiting(k), k \notin rows
        PROVE  Served(Settled \cup rows, now, k)
    <3>1. k \notin Settled
          BY <2>7 DEF Waiting, Settled
    <3> QED  BY <2>1, <2>7, <3>1, StartServes
  <2>8. ServedInv'
    <3>1. ASSUME NEW k \in Bookings, Waiting(k)'
          PROVE  /\ Served(Settled', sweptAt', k)
                 /\ \A v \in Sweeps : sweep'[v] # None /\ k \notin sweep'[v].due
                                => Served(Settled' \cup sweep'[v].due, sweep'[v].at, k)
      <4>1. Waiting(k)
            BY <2>6, <3>1
      <4>2. Served(Settled', sweptAt', k)
            BY <1>0, <2>4, <2>6, <4>1 DEF ServedInv
      <4>3. ASSUME NEW v \in Sweeps, sweep'[v] # None, k \notin sweep'[v].due
            PROVE  Served(Settled' \cup sweep'[v].due, sweep'[v].at, k)
        <5>1. CASE v = w
              BY <2>2, <2>6, <2>7, <4>1, <4>3, <5>1
        <5>2. CASE v # w
              BY <1>0, <2>3, <2>6, <4>1, <4>3, <5>2 DEF ServedInv
        <5> QED  BY <5>1, <5>2
      <4> QED  BY <4>2, <4>3
    <3> QED  BY <3>1 DEF ServedInv, Served, Opens
  <2> QED  BY <1>0, <2>5, <2>8 DEF TimeInv
<1>2. ASSUME NEW w \in Sweeps, Claim(w)
      PROVE  TimeInv'
  <2>1. PICK j \in sweep[w].due : LET won == status[j] # "deleted" /\ ~sent[j] IN
              /\ sent' = IF won THEN [sent EXCEPT ![j] = TRUE] ELSE sent
              /\ sweep' = [sweep EXCEPT ![w].due = @ \ {j},
                                        ![w].claimed = IF won THEN j ELSE None]
        BY <1>2 DEF Claim
  <2>2. sweep[w] \in Sweep /\ sweep[w] # None /\ j \in Bookings
        BY <1>0, <1>2, <2>1 DEF Claim, TypeOK, Sweep
  <2>3. sweep'[w].at = sweep[w].at /\ sweep'[w].due = sweep[w].due \ {j}
        BY <1>0, <2>1, <2>2 DEF TypeOK, Sweep
  <2>4. \A v \in Sweeps \ {w} : sweep'[v] = sweep[v]
        BY <1>0, <2>1 DEF TypeOK
  <2>5. UNCHANGED <<now, status, sweptAt, confirmedAt>>
        BY <1>2 DEF Claim
  <2>6. ClockInv'
        BY <1>0, <2>2, <2>3, <2>4, <2>5 DEF ClockInv, TypeOK
  <2>7. (sent'[j] \/ status[j] = "deleted") /\ \A k \in Bookings : sent[k] => sent'[k]
        BY <1>0, <2>1, <2>2 DEF TypeOK
  <2>8. \A k \in Bookings : Waiting(k)' => Waiting(k) /\ k # j
        BY <2>5, <2>7 DEF Waiting, Opens
  <2>9. j \in Settled'
        BY <2>2, <2>5, <2>7 DEF Settled
  <2>10. \A v \in Sweeps : sweep'[v] # None =>
              /\ sweep[v] # None /\ sweep'[v].at = sweep[v].at
              /\ sweep[v].due \subseteq Settled' \cup sweep'[v].due
              /\ \A k \in Bookings : Waiting(k)' /\ k \in sweep[v].due
                                     => k \in sweep'[v].due
        BY <2>2, <2>3, <2>4, <2>8, <2>9
  <2>11. ServedInv'
        BY <1>0, <2>5, <2>8, <2>10, ServedKept
  <2> QED  BY <1>0, <2>6, <2>11 DEF TimeInv
<1>3. ASSUME NEW w \in Sweeps, NEW written \in BOOLEAN, Notify(w, written)
      PROVE  TimeInv'
  <2>1. sweep[w] \in Sweep /\ sweep[w] # None
        BY <1>0, <1>3 DEF Notify, TypeOK
  <2>2. UNCHANGED <<now, status, sent, sweptAt, confirmedAt>>
        BY <1>3 DEF Notify
  <2>3. \A v \in Sweeps : sweep'[v] # None =>
            sweep[v] # None /\ sweep'[v].at = sweep[v].at /\ sweep'[v].due = sweep[v].due
        BY <1>0, <1>3, <2>1 DEF Notify, TypeOK, Sweep
  <2>4. ClockInv'
        BY <1>0, <2>2, <2>3 DEF ClockInv
  <2>5. \A k \in Bookings : Waiting(k)' => Waiting(k)
        BY <2>2 DEF Waiting, Opens
  <2>6. ServedInv'
        BY <1>0, <2>2, <2>3, <2>5, ServedKept
  <2> QED  BY <1>0, <2>4, <2>6 DEF TimeInv
<1>4. ASSUME NEW w \in Sweeps, EndSweep(w)
      PROVE  TimeInv'
  <2>1. /\ sweep[w] \in Sweep /\ sweep[w] # None /\ sweep[w].due = {}
        /\ sweptAt' \in {sweptAt, sweep[w].at} /\ sweptAt' >= sweptAt
        /\ sweep' = [sweep EXCEPT ![w] = None]
        /\ UNCHANGED <<now, status, sent, confirmedAt>>
        BY <1>0, <1>4 DEF EndSweep, TypeOK, Sweep
  <2>2. \A v \in Sweeps : sweep'[v] # None => sweep'[v] = sweep[v]
        BY <1>0, <2>1 DEF TypeOK
  <2>3. ClockInv'
    <3>1. sweep[w].at <= now
          BY <1>0, <2>1 DEF ClockInv
    <3> QED  BY <1>0, <2>1, <2>2, <3>1 DEF ClockInv, TypeOK, Sweep
  <2>4. Settled' = Settled /\ \A k \in Bookings : Waiting(k)' <=> Waiting(k)
        BY <2>1 DEF Settled, Waiting, Opens
  <2>5. ASSUME NEW k \in Bookings, Waiting(k)
        PROVE  Served(Settled, sweptAt', k)
    <3>1. Served(Settled \cup sweep[w].due, sweep[w].at, k)
          BY <1>0, <2>1, <2>5 DEF ServedInv
    <3>2. Settled \cup sweep[w].due = Settled
          BY <2>1
    <3>3. Served(Settled, sweptAt, k)
          BY <1>0, <2>5 DEF ServedInv
    <3> QED  BY <2>1, <3>1, <3>2, <3>3
  <2>6. ServedInv'
    <3>1. ASSUME NEW k \in Bookings, Waiting(k)'
          PROVE  /\ Served(Settled', sweptAt', k)
                 /\ \A v \in Sweeps : sweep'[v] # None /\ k \notin sweep'[v].due
                                => Served(Settled' \cup sweep'[v].due, sweep'[v].at, k)
          BY <1>0, <2>2, <2>4, <2>5, <3>1 DEF ServedInv
    <3> QED  BY <3>1 DEF ServedInv, Served, Opens
  <2> QED  BY <1>0, <2>3, <2>6 DEF TimeInv
<1>5. ASSUME UNCHANGED <<status, sent, sweptAt, confirmedAt>>,
             now' = now \/ (now' = now + 1 /\ sweptAt = now),
             \A w \in Sweeps : sweep'[w] # None => sweep'[w] = sweep[w]
      PROVE  TimeInv'
  <2>1. ClockInv'
        BY <1>0, <1>5 DEF ClockInv, TypeOK, Sweep
  <2>2. \A k \in Bookings : Waiting(k)' => Waiting(k)
        BY <1>5 DEF Waiting, Opens
  <2>3. ServedInv'
        BY <1>0, <1>5, <2>2, ServedKept
  <2> QED  BY <1>0, <2>1, <2>3 DEF TimeInv
<1>6. ASSUME NEW w \in Sweeps, FailSweep(w)
      PROVE  TimeInv'
  <2>1. \A v \in Sweeps : sweep'[v] # None => sweep'[v] = sweep[v]
        BY <1>0, <1>6 DEF FailSweep, TypeOK
  <2> QED  BY <1>5, <1>6, <2>1 DEF FailSweep
<1>7. ASSUME NEW s \in Servers, StopTimer(s) \/ Die(s) \/ Boot(s)
      PROVE  TimeInv'
  <2>1. \A v \in Sweeps : sweep'[v] # None => sweep'[v] = sweep[v]
        BY <1>7 DEF StopTimer, Die, Boot
  <2> QED  BY <1>5, <1>7, <2>1 DEF StopTimer, Die, Boot
<1>8. ASSUME NEW j \in Bookings, NEW st \in {"CANCELLED", "deleted"}, Drop(j, st)
      PROVE  TimeInv'
  <2>1. UNCHANGED <<now, sent, sweep, sweptAt, confirmedAt>>
        BY <1>8 DEF Drop
  <2>2. \A k \in Bookings : status'[k] = "CONFIRMED" => status[k] = "CONFIRMED"
        BY <1>0, <1>8 DEF Drop, TypeOK
  <2>3. \A k \in Bookings : Waiting(k)' => Waiting(k)
        BY <2>1, <2>2 DEF Waiting, Opens
  <2>4. ClockInv'
        BY <1>0, <2>1 DEF ClockInv
  <2>5. ServedInv'
        BY <1>0, <2>1, <2>3, ServedKept
  <2> QED  BY <1>0, <2>4, <2>5 DEF TimeInv
<1>9. ASSUME NEW j \in Bookings, Confirm(j)
      PROVE  TimeInv'
  <2>1. UNCHANGED <<now, sent, sweep, sweptAt>> /\ Settled' = Settled
        BY <1>0, <1>9 DEF Confirm, Settled, TypeOK
  <2>2. confirmedAt'[j] = now /\ \A k \in Bookings \ {j} :
                confirmedAt'[k] = confirmedAt[k] /\ status'[k] = status[k]
        BY <1>0, <1>9 DEF Confirm, TypeOK
  <2>3. ClockInv'
        BY <1>0, <2>1, <2>2 DEF ClockInv, TypeOK
  <2>4. \A k \in Bookings \ {j} : Waiting(k)' => Waiting(k)
        BY <2>1, <2>2 DEF Waiting, Opens
  <2>5. ASSUME Waiting(j)', NEW S, NEW at \in Int, at <= now
        PROVE  Served(S, at, j)
    <3>1. now < Opens(j) /\ Opens(j) \in Int /\ now \in Int
          BY <1>0, <2>2, <2>5 DEF Waiting, Opens, TypeOK
    <3> QED  BY <2>5, <3>1 DEF Served
  <2>6. ServedInv'
    <3>1. ASSUME NEW k \in Bookings, Waiting(k)'
          PROVE  /\ Served(Settled', sweptAt', k)
                 /\ \A v \in Sweeps : sweep'[v] # None /\ k \notin sweep'[v].due
                                => Served(Settled' \cup sweep'[v].due, sweep'[v].at, k)
      <4>1. CASE k = j
        <5>1. sweptAt \in Int /\ sweptAt <= now
              BY <1>0 DEF TypeOK, ClockInv
        <5>2. \A v \in Sweeps : sweep[v] # None => sweep[v].at \in Int /\ sweep[v].at <= now
              BY <1>0 DEF TypeOK, ClockInv, Sweep
        <5> QED  BY <2>1, <2>5, <3>1, <4>1, <5>1, <5>2
      <4>2. CASE k # j
            BY <1>0, <2>1, <2>4, <3>1, <4>2 DEF ServedInv
      <4> QED  BY <4>1, <4>2
    <3> QED  BY <3>1 DEF ServedInv, Served, Opens
  <2> QED  BY <1>0, <2>3, <2>6 DEF TimeInv
<1>10. CASE Tick
      BY <1>5, <1>10 DEF Tick
<1>11. CASE UNCHANGED vars
      BY <1>5, <1>11 DEF vars
<1> QED
    BY <1>1, <1>2, <1>3, <1>4, <1>6, <1>7, <1>8, <1>9, <1>10, <1>11 DEF Next, Run

\* When a booking that waits has begun, the sweeps of its window have settled as
\* many bookings as there are, and it is not among them.
LEMMA AllSettled ==
    ASSUME TimeInv
    PROVE  RemindedInTime
<1>1. SUFFICES ASSUME Cardinality(Bookings) <= Take * ReminderLead,
                      NEW k \in Bookings, Waiting(k), now >= StartsAt[k]
               PROVE  FALSE
      BY DEF RemindedInTime, Waiting, Opens, TimeInv, TypeOK
<1>2. /\ IsFiniteSet(Bookings) /\ Settled \subseteq Bookings
      /\ Settled # Bookings
      BY <1>1, ReminderAssumption DEF Settled, Waiting
<1>3. /\ Cardinality(Settled) \in Nat /\ Cardinality(Bookings) \in Nat
      /\ Cardinality(Settled) < Cardinality(Bookings)
      BY <1>2, FS_Subset, FS_CardinalityType
<1>4. /\ Served(Settled, sweptAt, k) /\ sweptAt >= now - 1
      /\ sweptAt \in Int /\ now \in Int /\ Opens(k) \in Int
      /\ StartsAt[k] \in Nat /\ ReminderLead \in Nat \ {0} /\ Take \in Nat
      BY <1>1, ReminderAssumption DEF TimeInv, ServedInv, ClockInv, TypeOK, Opens
<1>5. StartsAt[k] - 1 \in Opens(k) .. (StartsAt[k] - 1) /\ StartsAt[k] - 1 <= sweptAt
      BY <1>1, <1>4 DEF Opens
<1>6. Cardinality(Settled) >= Take * ((StartsAt[k] - 1) - Opens(k) + 1)
      BY <1>4, <1>5 DEF Served
<1>7. (StartsAt[k] - 1) - Opens(k) + 1 = ReminderLead
      BY <1>4 DEF Opens
<1>8. Take * ReminderLead \in Int
      BY <1>4
<1> QED  BY <1>1, <1>3, <1>6, <1>7, <1>8

\* "A missed minute just fires the reminder a minute later, still comfortably
\* before the slot": whatever sweeps fail and processes die, a booking confirmed
\* before its window opens is claimed before it starts, if one sweep per step of
\* the clock ends well and the sweeps of a window can read every booking there is.
THEOREM ReminderInTime == Spec => []RemindedInTime
<1>1. Init => TimeInv
  <2> SUFFICES ASSUME Init PROVE TimeInv
      OBVIOUS
  <2>1. TypeOK
        BY DEF Init, TypeOK
  <2>2. ClockInv
        BY AbsentAssumption DEF Init, ClockInv
  <2>3. ASSUME NEW k \in Bookings, Waiting(k)
        PROVE  Served(Settled, sweptAt, k)
    <3>1. sweptAt = -1 /\ Opens(k) \in Int /\ Opens(k) > -1
          BY <2>3, ReminderAssumption DEF Init, Waiting, Opens
    <3> QED  BY <3>1 DEF Served
  <2>4. ServedInv
        BY <2>3 DEF ServedInv, Init
  <2> QED  BY <2>1, <2>2, <2>4 DEF TimeInv
<1>2. TimeInv /\ [Next]_vars => TimeInv'
      BY TimeStep
<1>3. TimeInv => RemindedInTime
      BY AllSettled
<1> QED  BY <1>1, <1>2, <1>3, PTL DEF Spec

=============================================================================

--------------------------- MODULE BroadcastProofs --------------------------
(***************************************************************************)
(* Proofs about Broadcast, for any users, devices, announcements and page  *)
(* sizes: one broadcast at a time, nobody reached twice, nobody forgotten. *)
(***************************************************************************)
EXTENDS Broadcast, FiniteSetTheorems, WellFoundedInduction, TLAPS

-----------------------------------------------------------------------------
(* Pages                                                                   *)

\* A set of numbers that is not empty has a least one.
LEMMA LeastNumber ==
    ASSUME NEW T \in SUBSET Nat, T # {}
    PROVE  \E x \in T : \A y \in T : x <= y
<1>1. PICK x \in T : \A y \in T : ~ (<<y, x>> \in OpToRel(<, Nat))
  BY NatLessThanWellFounded, WFMin
<1>2. \A y \in T : y \in Nat /\ x \in Nat /\ ~(y < x)
  BY <1>1 DEF OpToRel
<1> QED BY <1>2

\* The keys of S below k.
Below(k, S) == {j \in S : j < k}

\* There are finitely many keys below another, and more below a greater one.
LEMMA CountBelow ==
    ASSUME NEW S \in SUBSET Nat, NEW k \in S
    PROVE  /\ IsFiniteSet(Below(k, S)) /\ Cardinality(Below(k, S)) \in Nat
           /\ \A j \in S : j < k => Cardinality(Below(j, S)) < Cardinality(Below(k, S))
<1>1. \A i \in S : IsFiniteSet(Below(i, S)) /\ Cardinality(Below(i, S)) \in Nat
  <2> TAKE i \in S
  <2>1. Below(i, S) \in SUBSET Nat /\ i \in Nat /\ \A j \in Below(i, S) : j <= i
    <3>1. i \in Nat /\ \A j \in S : j \in Nat
      OBVIOUS
    <3>2. \A j \in Below(i, S) : j \in Nat /\ j < i
      BY <3>1 DEF Below
    <3> QED BY <3>1, <3>2
  <2>2. IsFiniteSet(Below(i, S))
    BY <2>1, FS_BoundedSetOfNaturals
  <2> QED BY <2>2, FS_CardinalityType
<1>2. ASSUME NEW j \in S, j < k
      PROVE  Cardinality(Below(j, S)) < Cardinality(Below(k, S))
  <2>1. Below(j, S) \in SUBSET Below(k, S) /\ j \in Below(k, S) /\ j \notin Below(j, S)
    <3>1. j \in Nat /\ k \in Nat /\ \A i \in S : i \in Nat
      OBVIOUS
    <3>2. \A i \in S : i < j => i < k
      BY <1>2, <3>1
    <3>3. Below(j, S) \subseteq Below(k, S)
      BY <3>2 DEF Below
    <3> QED BY <1>2, <3>1, <3>3 DEF Below
  <2>2. /\ Cardinality(Below(j, S)) <= Cardinality(Below(k, S))
        /\ Cardinality(Below(k, S)) = Cardinality(Below(j, S)) => Below(k, S) = Below(j, S)
    BY <1>1, <2>1, FS_Subset
  <2> QED BY <1>1, <2>1, <2>2
<1> QED BY <1>1, <1>2

\* A first page has no holes: with a key it has every smaller one.
LEMMA FirstClosed ==
    ASSUME NEW S \in SUBSET Nat, NEW n \in Nat, NEW k \in First(n, S), NEW j \in S, j < k
    PROVE  j \in First(n, S)
<1>1. k \in S /\ Cardinality(Below(k, S)) < n
  BY DEF First, Below
<1>2. Cardinality(Below(j, S)) < Cardinality(Below(k, S))
  BY <1>1, CountBelow
<1>3. Cardinality(Below(j, S)) \in Nat /\ Cardinality(Below(k, S)) \in Nat
  BY <1>1, CountBelow
<1>4. Cardinality(Below(j, S)) < n
  BY <1>1, <1>2, <1>3
<1> QED BY <1>4 DEF First, Below

\* A first page that is not empty has a last key.
LEMMA FirstHasLast ==
    ASSUME NEW S \in SUBSET Nat, NEW n \in Nat, First(n, S) # {}
    PROVE  /\ Max(First(n, S)) \in First(n, S)
           /\ \A k \in First(n, S) : k <= Max(First(n, S))
<1> DEFINE P == First(n, S)
           room(k) == n - Cardinality(Below(k, S))
           T == {room(k) : k \in P}
<1>1. \A k \in P : k \in S /\ k \in Nat /\ Cardinality(Below(k, S)) \in Nat
                   /\ Cardinality(Below(k, S)) < n
  BY CountBelow DEF First, Below
<1>2. T \in SUBSET Nat /\ T # {}
  BY <1>1
<1>3. PICK k \in P : \A j \in P : room(k) <= room(j)
  <2> HIDE DEF P, room
  <2>1. PICK x \in T : \A y \in T : x <= y
    BY <1>2, LeastNumber
  <2>2. PICK k \in P : x = room(k)
    BY <2>1
  <2> QED BY <2>1, <2>2
<1>4. \A j \in P : j <= k
  <2> SUFFICES ASSUME NEW j \in P, k < j PROVE FALSE
    BY <1>1
  <2>1. Cardinality(Below(k, S)) < Cardinality(Below(j, S))
    BY <1>1, CountBelow
  <2> QED BY <1>1, <1>3, <2>1
<1>5. \E x \in P : \A y \in P : x >= y
  BY <1>1, <1>4
<1>6. Max(P) \in P /\ \A y \in P : Max(P) >= y
  BY <1>5 DEF Max
<1> QED BY <1>1, <1>6

\* A first page shorter than asked for has every key.
LEMMA ShortFirst ==
    ASSUME NEW S \in SUBSET Nat, NEW n \in Nat, Cardinality(First(n, S)) < n
    PROVE  First(n, S) = S
<1> SUFFICES ASSUME S \ First(n, S) # {} PROVE FALSE
  BY DEF First
<1>1. PICK m \in S \ First(n, S) : \A y \in S \ First(n, S) : m <= y
  <2>1. S \ First(n, S) \in SUBSET Nat
    OBVIOUS
  <2> QED BY <2>1, LeastNumber
<1>2. \A k \in First(n, S) : k < m
  <2> SUFFICES ASSUME NEW k \in First(n, S), ~(k < m) PROVE FALSE
    OBVIOUS
  <2>1. k \in S /\ k # m /\ k \in Nat /\ m \in Nat
    BY <1>1 DEF First
  <2>2. m < k
    BY <2>1
  <2> QED BY <1>1, <2>2, FirstClosed
<1>3. First(n, S) = Below(m, S)
  <2>1. First(n, S) \subseteq S /\ \A k \in S : k \in Nat
    BY DEF First
  <2>2. \A k \in S : k < m => k \in First(n, S)
    BY <1>1, <2>1
  <2> QED BY <1>2, <2>1, <2>2 DEF Below
<1>4. ~(Cardinality(Below(m, S)) < n)
  BY <1>1 DEF First, Below
<1> QED BY <1>3, <1>4
-----------------------------------------------------------------------------
(* Progress through the keys                                               *)

\* count says who was reached so far: nobody twice, nobody past the cursor.
Reached(count, cursor, keys) ==
    \A k \in keys : count[k] \in {0, 1} /\ (count[k] = 1 => k <= cursor)

\* page is a page of keys past the cursor, with a last one.
PageOk(page, cursor, keys) ==
    /\ page \subseteq keys
    /\ \A k \in page : k > cursor
    /\ Max(page) \in page /\ \A k \in page : k <= Max(page)

\* Everyone of S up to the cursor was reached.
Covered(S, cursor, count) == \A k \in S : k <= cursor => count[k] = 1

\* page skips nobody of S, and a short page is the last.
PageCovers(S, page, cursor, n) ==
    \A k \in S : k > cursor => k \in page \/ (~ShortPage(page, n) /\ k > Max(page))

\* What findMany returns: a page that skips nobody who is there, unless the row
\* of the cursor is gone; when it is empty nobody is left.
LEMMA PageRead ==
    ASSUME NEW keys \in SUBSET (Nat \ {0}), NEW S \in SUBSET keys, NEW n \in Nat \ {0},
           NEW cursor \in Nat, NEW page \in Pages(cursor, n, S)
    PROVE  /\ page # {} => PageOk(page, cursor, keys)
           /\ cursor = 0 \/ cursor \in S =>
                 /\ page # {} => PageCovers(S, page, cursor, n)
                 /\ page = {} => \A k \in S : k <= cursor
<1> DEFINE R == After(cursor, S)
<1>1. R \in SUBSET Nat /\ R \subseteq S /\ \A k \in S : k \in R <=> k > cursor
  BY DEF After
<1>2. page \in {First(n, R), {}} /\ (cursor = 0 \/ cursor \in S => page = First(n, R))
  BY DEF Pages
<1>3. First(n, R) \subseteq R
  BY DEF First
<1>4. ASSUME page # {} PROVE PageOk(page, cursor, keys)
  <2>1. page = First(n, R)
    BY <1>2, <1>4
  <2>2. Max(page) \in page /\ \A k \in page : k <= Max(page)
    BY <1>1, <1>4, <2>1, FirstHasLast
  <2> QED BY <1>1, <1>3, <2>1, <2>2 DEF PageOk
<1>5. ASSUME cursor = 0 \/ cursor \in S, page # {} PROVE PageCovers(S, page, cursor, n)
  <2> SUFFICES ASSUME NEW k \in S, k > cursor, k \notin page
               PROVE  ~ShortPage(page, n) /\ k > Max(page)
    BY DEF PageCovers
  <2>1. page = First(n, R) /\ k \in R
    BY <1>1, <1>2, <1>5
  <2>2. ~ShortPage(page, n)
    BY <1>1, <2>1, ShortFirst DEF ShortPage
  <2>3. Max(page) \in page
    BY <1>4, <1>5 DEF PageOk
  <2>4. ~(k < Max(page))
    BY <1>1, <2>1, <2>3, FirstClosed
  <2> QED BY <1>1, <1>3, <2>1, <2>2, <2>3, <2>4
<1>6. ASSUME cursor = 0 \/ cursor \in S, page = {} PROVE \A k \in S : k <= cursor
  <2>1. Cardinality(First(n, R)) < n
    BY <1>2, <1>6, FS_EmptySet
  <2>2. R = {}
    BY <1>1, <1>2, <1>6, <2>1, ShortFirst
  <2> QED BY <1>1, <2>2
<1> QED BY <1>4, <1>5, <1>6

\* count after one page was reached.
Counted(count, page, keys) == [k \in keys |-> count[k] + (IF k \in page THEN 1 ELSE 0)]

\* A page about to be counted.
Turn(keys, cursor, page, count) ==
    /\ keys \in SUBSET (Nat \ {0}) /\ cursor \in Nat /\ count \in [keys -> Nat]
    /\ Reached(count, cursor, keys) /\ PageOk(page, cursor, keys)

\* One counted: nobody is reached twice, nobody past the last key of the page.
LEMMA PageCounted ==
    ASSUME NEW keys, NEW cursor, NEW page, NEW count, Turn(keys, cursor, page, count)
    PROVE  /\ Max(page) \in Nat
           /\ Counted(count, page, keys) \in [keys -> Nat]
           /\ Reached(Counted(count, page, keys), Max(page), keys)
           /\ \A k \in keys : Counted(count, page, keys)[k] <= 1
<1> DEFINE m == Max(page)
           next == Counted(count, page, keys)
<1>1. m \in keys /\ m \in page /\ m \in Nat /\ cursor \in Nat /\ \A k \in keys : k \in Nat
  BY DEF PageOk, Turn
<1>2. \A k \in keys : count[k] \in {0, 1} /\ (count[k] = 1 => k <= cursor)
  BY DEF Reached, Turn
<1>3. \A k \in page : k \in keys /\ k > cursor /\ k <= m
  BY DEF PageOk, Turn
<1>4. \A k \in keys : next[k] = IF k \in page THEN 1 ELSE count[k]
  <2>1. \A k \in page : count[k] = 0
    BY <1>1, <1>2, <1>3
  <2> QED BY <1>2, <2>1 DEF Counted
<1>5. next \in [keys -> Nat]
  BY DEF Counted, Turn
<1> HIDE DEF m, next
<1>6. Reached(next, m, keys)
  <2> SUFFICES ASSUME NEW k \in keys
               PROVE  next[k] \in {0, 1} /\ (next[k] = 1 => k <= m)
    BY DEF Reached
  <2>1. cursor < m
    BY <1>1, <1>3
  <2>2. count[k] = 1 => k <= m
    BY <1>1, <1>2, <2>1
  <2> QED BY <1>2, <1>3, <1>4, <2>2
<1>7. \A k \in keys : next[k] <= 1
  BY <1>2, <1>4
<1> QED BY <1>1, <1>5, <1>6, <1>7 DEF m, next

\* Nobody before its last key is left out, and after a short page nobody at all.
LEMMA PageCovered ==
    ASSUME NEW keys, NEW cursor, NEW page, NEW count, Turn(keys, cursor, page, count),
           NEW S, NEW n, S \subseteq keys,
           Covered(S, cursor, count), PageCovers(S, page, cursor, n)
    PROVE  /\ Covered(S, Max(page), Counted(count, page, keys))
           /\ ShortPage(page, n) => \A k \in S : Counted(count, page, keys)[k] = 1
<1> DEFINE next == Counted(count, page, keys)
<1>1. /\ \A k \in S : k \in keys /\ k \in Nat /\ cursor \in Nat
      /\ Max(page) \in Nat
      /\ \A k \in keys : count[k] \in {0, 1} /\ (count[k] = 1 => k <= cursor)
      /\ \A k \in page : k > cursor
  BY DEF Turn, PageOk, Reached
<1>2. \A k \in S : next[k] = count[k] + (IF k \in page THEN 1 ELSE 0)
  BY <1>1 DEF Counted
<1> HIDE DEF next
<1>3. ASSUME NEW k \in S, k <= cursor PROVE next[k] = 1
  <2>1. k \notin page /\ count[k] = 1
    BY <1>1, <1>3 DEF Covered
  <2> QED BY <1>2, <2>1
<1>4. ASSUME NEW k \in S, k > cursor
      PROVE  next[k] = 1 \/ (~ShortPage(page, n) /\ k > Max(page))
  <2>1. count[k] = 0
    BY <1>1, <1>4
  <2> QED BY <1>2, <1>4, <2>1 DEF PageCovers
<1>5. \A k \in S : next[k] = 1 \/ (~ShortPage(page, n) /\ k > Max(page))
  BY <1>1, <1>3, <1>4
<1> QED BY <1>1, <1>5 DEF Covered, next
-----------------------------------------------------------------------------
(* The invariant                                                           *)

CastRec == [kind : {"none", "week", "news"},
            st : {"idle", "arrived", "ranked", "over", "complete"} \cup InProgress,
            cursor : Nat, page : SUBSET (UserIds \cup RowIds),
            answered : BOOLEAN,
            users : SUBSET UserIds, rows : SUBSET RowIds, gap : BOOLEAN,
            fed : [UserIds -> Nat], pushed : [RowIds -> Nat]]

Fresh == {"idle", "arrived", "ranked"}
Feeding == {"reading", "inserting"}
Pushing == {"push", "sending"}

\* How far the feed of announcement x is, when `there` are the users now.
FeedInv(x, there) ==
    /\ x.st \in Fresh =>
          x.cursor = 0 /\ ~x.answered /\ \A u \in UserIds : x.fed[u] = 0
    /\ x.st \in Feeding =>
          /\ ~x.answered /\ Reached(x.fed, x.cursor, UserIds)
          /\ ~x.gap => Covered(x.users \cap there, x.cursor, x.fed)
    /\ x.st = "inserting" =>
          /\ PageOk(x.page, x.cursor, UserIds)
          /\ ~x.gap => PageCovers(x.users \cap there, x.page, x.cursor, FeedBatch)
    /\ \A u \in UserIds : x.fed[u] <= 1
    /\ x.answered /\ ~x.gap => \A u \in x.users \cap there : x.fed[u] = 1

\* How far its pushes are, when reg are the device rows now.
PushInv(x, reg) ==
    /\ x.st \in Fresh \cup Feeding => \A r \in RowIds : x.pushed[r] = 0
    /\ x.st \in Pushing =>
          /\ Reached(x.pushed, x.cursor, RowIds)
          /\ ~x.gap => Covered(x.rows \cap reg, x.cursor, x.pushed)
    /\ x.st = "sending" =>
          /\ PageOk(x.page, x.cursor, RowIds)
          /\ ~x.gap => PageCovers(x.rows \cap reg, x.page, x.cursor, PushBatch)
    /\ \A r \in RowIds : x.pushed[r] <= 1
    /\ x.st = "complete" /\ ~x.gap => \A r \in x.rows \cap reg : x.pushed[r] = 1

\* Whoever was there when it began cannot come again.
Known(x) ==
    /\ \A u \in x.users : users[u] # "unborn"
    /\ \A r \in x.rows : device[r] # "unborn"

CastInv(x) == FeedInv(x, There) /\ PushInv(x, Registered) /\ Known(x)

DataType ==
    /\ users \in [UserIds -> {"unborn", "there", "gone"}]
    /\ device \in [RowIds -> {"unborn", "there", "dead", "gone"}]
    /\ changes \in Nat
    /\ {draining, running, aborted} \subseteq BOOLEAN

Progress == DataType /\ cast \in [Casts -> CastRec] /\ \A c \in Casts : CastInv(cast[c])

\* Users and devices come once and do not come back.
Ages ==
    /\ \A u \in UserIds :
          /\ users[u] # "unborn" => users'[u] # "unborn"
          /\ users'[u] = "there" => users[u] \in {"unborn", "there"}
    /\ \A r \in RowIds :
          /\ device[r] # "unborn" => device'[r] # "unborn"
          /\ device'[r] \in {"there", "dead"} => device[r] \in {"unborn", "there", "dead"}

\* What was reached of some was reached of fewer.
LEMMA Fewer ==
    ASSUME NEW x, NEW S, NEW T
    PROVE  /\ FeedInv(x, S) /\ x.users \cap T \subseteq S => FeedInv(x, T)
           /\ PushInv(x, S) /\ x.rows \cap T \subseteq S => PushInv(x, T)
<1>1. ASSUME FeedInv(x, S), x.users \cap T \subseteq S PROVE FeedInv(x, T)
  <2>1. x.users \cap T \subseteq x.users \cap S
    BY <1>1
  <2> QED BY <1>1, <2>1 DEF FeedInv, Covered, PageCovers
<1>2. ASSUME PushInv(x, S), x.rows \cap T \subseteq S PROVE PushInv(x, T)
  <2>1. x.rows \cap T \subseteq x.rows \cap S
    BY <1>2
  <2> QED BY <1>2, <2>1 DEF PushInv, Covered, PageCovers
<1> QED BY <1>1, <1>2

\* A step keeps the invariant when every announcement it changes has it for the
\* users and devices there were.
LEMMA ProgressStep ==
    ASSUME Progress, Ages, DataType', cast' \in [Casts -> CastRec],
           \A c \in Casts : cast'[c] = cast[c] \/ CastInv(cast'[c])
    PROVE  Progress'
<1> SUFFICES ASSUME NEW c \in Casts
             PROVE  /\ FeedInv(cast'[c], There') /\ PushInv(cast'[c], Registered')
                    /\ Known(cast[c])'
  BY DEF Progress, CastInv
<1>1. /\ FeedInv(cast'[c], There) /\ PushInv(cast'[c], Registered) /\ Known(cast'[c])
      /\ cast'[c] \in CastRec
  BY DEF Progress, CastInv
<1>2. cast'[c].users \subseteq UserIds /\ cast'[c].rows \subseteq RowIds
  BY <1>1 DEF CastRec
<1>3. cast'[c].users \cap There' \subseteq There
  BY <1>1, <1>2 DEF Known, Ages, There
<1>4. cast'[c].rows \cap Registered' \subseteq Registered
  BY <1>1, <1>2 DEF Known, Ages, Registered
<1>5. Known(cast[c])'
  BY <1>1, <1>2 DEF Known, Ages
<1>6. FeedInv(cast'[c], There')
  BY <1>1, <1>3, Fewer
<1>7. PushInv(cast'[c], Registered')
  BY <1>1, <1>4, Fewer
<1> QED BY <1>5, <1>6, <1>7

\* The same for a step of one announcement.
LEMMA OneStep ==
    ASSUME Progress, Ages, DataType', NEW c \in Casts,
           cast' \in [Casts -> CastRec], CastInv(cast'[c]),
           \A d \in Casts \ {c} : cast'[d] = cast[d]
    PROVE  Progress'
BY ProgressStep

\* An announcement that has ended, or was never made, holds nothing.
LEMMA EndedOk ==
    /\ NewCast \in CastRec /\ CastInv(NewCast)
    /\ Ended \in CastRec /\ CastInv(Ended)
<1>1. NewCast \in CastRec /\ Ended \in CastRec
  BY DEF NewCast, Ended, CastRec
<1>2. CastInv(NewCast)
  BY DEF CastInv, FeedInv, PushInv, Known, NewCast, Fresh, Feeding, Pushing
<1>3. CastInv(Ended)
  BY DEF CastInv, FeedInv, PushInv, Known, NewCast, Ended, Fresh, Feeding, Pushing
<1> QED BY <1>1, <1>2, <1>3
\* Time stands still for users and devices.
LEMMA SameAges == ASSUME data' = data PROVE Ages
BY DEF data, Ages

\* An announcement that is answered, refused, aborted or fails, or is only begun.
LEMMA QuietSteps ==
    ASSUME Progress, NEW c \in Casts,
           \/ \E kind \in {"week", "news"} : Arrive(c, kind)
           \/ Refuse(c) \/ SetRanks(c) \/ FailFeed(c) \/ FailPush(c)
    PROVE  Progress'
<1> DEFINE x == cast[c]
<1>1. x \in CastRec /\ CastInv(x) /\ cast \in [Casts -> CastRec]
  BY DEF Progress
<1>2. data' = data /\ Ages /\ DataType'
  <2>1. data' = data /\ {draining', running', aborted'} \subseteq BOOLEAN
    BY DEF Progress, DataType, Arrive, Refuse, SetRanks, FailFeed, FailPush, StopPush
  <2> QED BY <2>1, SameAges DEF data, Progress, DataType
<1>3. CASE cast' = [cast EXCEPT ![c] = Ended]
  BY <1>1, <1>2, <1>3, EndedOk, OneStep
<1>4. ASSUME NEW kind \in {"week", "news"}, Arrive(c, kind) PROVE Progress'
  <2> DEFINE new == [x EXCEPT !.kind = kind, !.st = "arrived"]
  <2>1. new \in CastRec /\ CastInv(new)
    BY <1>1, <1>4 DEF Arrive, CastRec, CastInv, FeedInv, PushInv, Known, Fresh, Feeding, Pushing
  <2>2. cast' = [cast EXCEPT ![c] = new]
    BY <1>4 DEF Arrive
  <2> QED BY <1>1, <1>2, <2>1, <2>2, OneStep
<1>5. CASE SetRanks(c)
  <2> DEFINE new == [x EXCEPT !.st = "ranked"]
  <2>1. new \in CastRec /\ CastInv(new)
    BY <1>1, <1>5 DEF SetRanks, CastRec, CastInv, FeedInv, PushInv, Known, Fresh, Feeding, Pushing
  <2>2. cast' = [cast EXCEPT ![c] = new]
    BY <1>5 DEF SetRanks
  <2> QED BY <1>1, <1>2, <2>1, <2>2, OneStep
<1> QED BY <1>3, <1>4, <1>5 DEF Refuse, FailFeed, FailPush, StopPush

\* A broadcast starts with nobody reached.
LEMMA StartStep ==
    ASSUME Progress, NEW c \in Casts, Start(c)
    PROVE  Progress'
<1> DEFINE x == cast[c]
           new == [x EXCEPT !.st = "reading", !.users = There, !.rows = Registered]
<1>1. x \in CastRec /\ CastInv(x) /\ cast \in [Casts -> CastRec]
  BY DEF Progress
<1>2. Ages /\ DataType'
  <2>1. data' = data /\ {draining', running', aborted'} \subseteq BOOLEAN
    BY DEF Progress, DataType, Start
  <2> QED BY <2>1, SameAges DEF data, Progress, DataType
<1>3. CASE running
  <2>1. cast' = [cast EXCEPT ![c] = Ended]
    BY <1>3 DEF Start
  <2> QED BY <1>1, <1>2, <2>1, EndedOk, OneStep
<1>4. CASE ~running
  <2>1. cast' = [cast EXCEPT ![c] = new]
    BY <1>4 DEF Start
  <2>2. There \subseteq UserIds /\ Registered \subseteq RowIds
    BY DEF There, Registered
  <2>3. new \in CastRec
    BY <1>1, <2>2 DEF CastRec, InProgress
  <2>4. x.st \in Fresh
    BY DEF Start, Ready, Fresh
  <2>5. /\ x.cursor = 0 /\ ~x.answered
        /\ \A u \in UserIds : x.fed[u] = 0
        /\ \A r \in RowIds : x.pushed[r] = 0
    BY <1>1, <2>4 DEF CastInv, FeedInv, PushInv
  <2>6. /\ new.st = "reading" /\ new.users = There /\ new.rows = Registered
        /\ new.cursor = x.cursor /\ new.answered = x.answered
        /\ new.fed = x.fed /\ new.pushed = x.pushed
    BY <1>1 DEF CastRec
  <2> HIDE DEF new
  <2>7. FeedInv(new, There)
    BY <2>2, <2>5, <2>6, BroadcastAssumption DEF FeedInv, Fresh, Feeding, Reached, Covered
  <2>8. PushInv(new, Registered)
    BY <2>5, <2>6 DEF PushInv, Fresh, Feeding, Pushing
  <2>9. Known(new)
    BY <2>6 DEF Known, There, Registered
  <2> QED BY <1>1, <1>2, <2>1, <2>3, <2>7, <2>8, <2>9, OneStep DEF CastInv
<1> QED BY <1>3, <1>4

\* The feed is written, of everyone unless a cursor was lost.
LEMMA FeedEnds ==
    ASSUME Progress, NEW c \in Casts, cast[c].st \in Feeding,
           NEW fed \in [UserIds -> Nat], NEW gap \in BOOLEAN, EndFeed(c, fed, gap),
           \A u \in UserIds : fed[u] <= 1,
           ~gap => \A u \in cast[c].users \cap There : fed[u] = 1,
           UNCHANGED <<data, draining, aborted>>
    PROVE  Progress'
<1> DEFINE x == cast[c]
           new == [x EXCEPT !.st = "push", !.cursor = 0, !.page = {}, !.fed = fed,
                            !.gap = gap, !.answered = TRUE]
<1>1. x \in CastRec /\ CastInv(x) /\ cast \in [Casts -> CastRec]
  BY DEF Progress
<1>2. Ages /\ DataType'
  BY SameAges DEF data, Progress, DataType, EndFeed
<1>3. cast' = [cast EXCEPT ![c] = new]
  BY DEF EndFeed
<1>4. new \in CastRec
  BY <1>1 DEF CastRec, InProgress
<1>5. /\ new.st = "push" /\ new.cursor = 0 /\ new.fed = fed /\ new.gap = gap
      /\ new.users = x.users /\ new.rows = x.rows /\ new.pushed = x.pushed
      /\ x.rows \subseteq RowIds
  BY <1>1 DEF CastRec
<1>6. \A r \in RowIds : x.pushed[r] = 0
  BY <1>1 DEF CastInv, PushInv
<1> HIDE DEF new
<1>7. FeedInv(new, There)
  BY <1>5 DEF FeedInv, Fresh, Feeding
<1>8. PushInv(new, Registered)
  <2>1. \A r \in RowIds : new.pushed[r] = 0 /\ r \in Nat /\ ~(r <= 0)
    BY <1>5, <1>6, BroadcastAssumption
  <2>2. Reached(new.pushed, 0, RowIds)
    BY <2>1 DEF Reached
  <2>3. Covered(new.rows \cap Registered, 0, new.pushed)
    BY <1>5, <2>1 DEF Covered
  <2> QED BY <1>5, <2>1, <2>2, <2>3 DEF PushInv, Fresh, Feeding, Pushing
<1>9. Known(new)
  BY <1>1, <1>5 DEF Known, CastInv
<1> QED BY <1>1, <1>2, <1>3, <1>4, <1>7, <1>8, <1>9, OneStep DEF CastInv

\* A page of users is read.
LEMMA ReadUsersStep ==
    ASSUME Progress, NEW c \in Casts, ReadUsers(c)
    PROVE  Progress'
<1> DEFINE x == cast[c]
           gap == Gap(c, There)
<1>1. /\ x \in CastRec /\ CastInv(x) /\ cast \in [Casts -> CastRec]
      /\ x.st = "reading" /\ x.st \in Feeding /\ gap \in BOOLEAN
      /\ UNCHANGED <<data, draining, aborted>>
  <2>1. x \in CastRec /\ CastInv(x) /\ cast \in [Casts -> CastRec]
    BY DEF Progress
  <2>2. gap \in BOOLEAN
    BY <2>1 DEF Gap, CastRec
  <2> QED BY <2>1, <2>2 DEF ReadUsers, Feeding
<1>2. PICK page \in Pages(x.cursor, FeedBatch, There) :
          IF page = {} THEN EndFeed(c, x.fed, gap)
          ELSE /\ cast' = [cast EXCEPT ![c].st = "inserting", ![c].page = page, ![c].gap = gap]
               /\ UNCHANGED running
  BY DEF ReadUsers
<1>3. /\ There \in SUBSET UserIds /\ UserIds \in SUBSET (Nat \ {0}) /\ FeedBatch \in Nat \ {0}
      /\ x.cursor \in Nat /\ x.users \subseteq UserIds /\ x.fed \in [UserIds -> Nat]
  BY <1>1, BroadcastAssumption DEF There, CastRec
<1>4. /\ page # {} => PageOk(page, x.cursor, UserIds)
      /\ ~gap => /\ page # {} => PageCovers(There, page, x.cursor, FeedBatch)
                 /\ page = {} => \A u \in There : u <= x.cursor
  <2>1. ~gap => x.cursor = 0 \/ x.cursor \in There
    BY DEF Gap
  <2> QED BY <1>2, <1>3, <2>1, PageRead
<1>5. /\ Reached(x.fed, x.cursor, UserIds) /\ \A u \in UserIds : x.fed[u] <= 1
      /\ ~x.answered
      /\ ~gap => Covered(x.users \cap There, x.cursor, x.fed)
  BY <1>1 DEF CastInv, FeedInv, Gap
<1>6. CASE page = {}
  <2>1. ~gap => \A u \in x.users \cap There : x.fed[u] = 1
    BY <1>4, <1>5, <1>6 DEF Covered
  <2> QED BY <1>1, <1>2, <1>3, <1>5, <1>6, <2>1, FeedEnds
<1>7. CASE page # {}
  <2> DEFINE new == [x EXCEPT !.st = "inserting", !.page = page, !.gap = gap]
  <2>1. cast' = [cast EXCEPT ![c] = new]
    BY <1>2, <1>7
  <2>2. page \in SUBSET UserIds
    BY <1>4, <1>7 DEF PageOk
  <2>3. new \in CastRec
    BY <1>1, <2>2 DEF CastRec, InProgress
  <2>4. /\ new.st = "inserting" /\ new.cursor = x.cursor /\ new.page = page /\ new.gap = gap
        /\ new.answered = x.answered /\ new.fed = x.fed /\ new.users = x.users
        /\ new.rows = x.rows /\ new.pushed = x.pushed
    BY <1>1 DEF CastRec
  <2>5. \A r \in RowIds : x.pushed[r] = 0
    BY <1>1 DEF CastInv, PushInv
  <2>6. ~gap => PageCovers(x.users \cap There, page, x.cursor, FeedBatch)
    BY <1>4, <1>7 DEF PageCovers
  <2> HIDE DEF new
  <2>7. FeedInv(new, There)
    BY <1>4, <1>5, <1>7, <2>4, <2>6 DEF FeedInv, Fresh, Feeding
  <2>8. PushInv(new, Registered)
    BY <2>4, <2>5 DEF PushInv, Fresh, Feeding, Pushing
  <2>9. Known(new)
    BY <1>1, <2>4 DEF Known, CastInv
  <2>10. Ages /\ DataType'
    BY <1>1, <1>2, <1>7, SameAges DEF data, Progress, DataType
  <2> QED BY <1>1, <2>1, <2>3, <2>7, <2>8, <2>9, <2>10, OneStep DEF CastInv
<1> QED BY <1>6, <1>7

\* The feed rows of a page are inserted.
LEMMA InsertFeedStep ==
    ASSUME Progress, NEW c \in Casts, InsertFeed(c)
    PROVE  Progress'
<1> DEFINE x == cast[c]
           page == x.page
           fed == Counted(x.fed, page, UserIds)
           S == x.users \cap There
<1>1. /\ x \in CastRec /\ CastInv(x) /\ cast \in [Casts -> CastRec]
      /\ x.st = "inserting" /\ x.st \in Feeding /\ UNCHANGED <<data, draining, aborted>>
  BY DEF Progress, InsertFeed, Feeding
<1>2. /\ UserIds \in SUBSET (Nat \ {0}) /\ x.cursor \in Nat /\ x.users \subseteq UserIds
      /\ x.fed \in [UserIds -> Nat] /\ x.gap \in BOOLEAN
      /\ S \in SUBSET UserIds /\ FeedBatch \in Nat
  BY <1>1, BroadcastAssumption DEF There, CastRec
<1>3. /\ Reached(x.fed, x.cursor, UserIds) /\ PageOk(page, x.cursor, UserIds) /\ ~x.answered
      /\ ~x.gap => Covered(S, x.cursor, x.fed) /\ PageCovers(S, page, x.cursor, FeedBatch)
  BY <1>1 DEF CastInv, FeedInv
<1>4. /\ fed \in [UserIds -> Nat] /\ Max(page) \in Nat /\ Reached(fed, Max(page), UserIds)
      /\ \A u \in UserIds : fed[u] <= 1
      /\ ~x.gap => /\ Covered(S, Max(page), fed)
                   /\ ShortPage(page, FeedBatch) => \A u \in S : fed[u] = 1
  <2> HIDE DEF x, page, S
  <2>1. Turn(UserIds, x.cursor, page, x.fed)
    BY <1>2, <1>3 DEF Turn
  <2>2. /\ fed \in [UserIds -> Nat] /\ Max(page) \in Nat /\ Reached(fed, Max(page), UserIds)
        /\ \A u \in UserIds : fed[u] <= 1
    BY <2>1, PageCounted
  <2>3. ASSUME ~x.gap
        PROVE  /\ Covered(S, Max(page), fed)
               /\ ShortPage(page, FeedBatch) => \A u \in S : fed[u] = 1
    <3>1. /\ S \subseteq UserIds /\ Covered(S, x.cursor, x.fed)
          /\ PageCovers(S, page, x.cursor, FeedBatch)
      BY <1>2, <1>3, <2>3
    <3> QED BY <2>1, <3>1, PageCovered
  <2> QED BY <2>2, <2>3
<1>6. IF ShortPage(page, FeedBatch) THEN EndFeed(c, fed, x.gap)
      ELSE /\ cast' = [cast EXCEPT ![c].st = "reading", ![c].cursor = Max(page),
                                   ![c].page = {}, ![c].fed = fed]
           /\ UNCHANGED running
  BY DEF InsertFeed, Counted
<1> HIDE DEF fed, page
<1>7. CASE ShortPage(page, FeedBatch)
  BY <1>1, <1>2, <1>4, <1>6, <1>7, FeedEnds
<1>8. CASE ~ShortPage(page, FeedBatch)
  <2> DEFINE new == [x EXCEPT !.st = "reading", !.cursor = Max(page), !.page = {}, !.fed = fed]
  <2>1. cast' = [cast EXCEPT ![c] = new]
    BY <1>6, <1>8
  <2>2. new \in CastRec
    BY <1>1, <1>4 DEF CastRec, InProgress
  <2>3. /\ new.st = "reading" /\ new.cursor = Max(page) /\ new.gap = x.gap /\ new.fed = fed
        /\ new.answered = x.answered /\ new.users = x.users
        /\ new.rows = x.rows /\ new.pushed = x.pushed
    BY <1>1 DEF CastRec
  <2>4. \A r \in RowIds : x.pushed[r] = 0
    BY <1>1 DEF CastInv, PushInv
  <2> HIDE DEF new
  <2>5. FeedInv(new, There)
    BY <1>3, <1>4, <2>3 DEF FeedInv, Fresh, Feeding
  <2>6. PushInv(new, Registered)
    BY <2>3, <2>4 DEF PushInv, Fresh, Feeding, Pushing
  <2>7. Known(new)
    BY <1>1, <2>3 DEF Known, CastInv
  <2>8. Ages /\ DataType'
    BY <1>1, <1>6, <1>8, SameAges DEF data, Progress, DataType
  <2> QED BY <1>1, <2>1, <2>2, <2>5, <2>6, <2>7, <2>8, OneStep DEF CastInv
<1> QED BY <1>7, <1>8

\* The last page of devices was sent, to everyone unless a cursor was lost.
LEMMA Completed ==
    ASSUME NEW x \in CastRec, CastInv(x), NEW pushed \in [RowIds -> Nat], NEW gap \in BOOLEAN,
           \A r \in RowIds : pushed[r] <= 1,
           ~gap => \A r \in x.rows \cap Registered : pushed[r] = 1,
           NEW new, new = [NewCast EXCEPT !.st = "complete", !.rows = x.rows,
                                          !.pushed = pushed, !.gap = gap]
    PROVE  new \in CastRec /\ CastInv(new)
<1>1. x.rows \subseteq RowIds
  BY DEF CastRec
<1>2. new \in CastRec
  BY <1>1 DEF NewCast, CastRec
<1>3. /\ new.st = "complete" /\ new.rows = x.rows /\ new.pushed = pushed /\ new.gap = gap
      /\ ~new.answered /\ new.users = {} /\ \A u \in UserIds : new.fed[u] = 0
  BY DEF NewCast
<1>4. FeedInv(new, There)
  BY <1>3 DEF FeedInv, Fresh, Feeding
<1>5. PushInv(new, Registered)
  BY <1>3 DEF PushInv, Fresh, Feeding, Pushing
<1>6. Known(new)
  BY <1>3 DEF Known, CastInv
<1> QED BY <1>2, <1>4, <1>5, <1>6 DEF CastInv

\* Once the feed is written it stays written.
LEMMA FeedStays ==
    ASSUME NEW x, NEW new, NEW S, FeedInv(x, S), new.st \in Pushing,
           new.answered = x.answered, new.gap = x.gap \/ new.gap,
           new.fed = x.fed, new.users = x.users
    PROVE  FeedInv(new, S)
<1>1. new.st \notin Fresh \cup Feeding /\ new.st # "inserting"
  BY DEF Fresh, Feeding, Pushing
<1>2. \A u \in UserIds : new.fed[u] <= 1
  BY DEF FeedInv
<1>3. new.answered /\ ~new.gap => \A u \in new.users \cap S : new.fed[u] = 1
  BY DEF FeedInv
<1> QED BY <1>1, <1>2, <1>3 DEF FeedInv

\* A page of devices is read.
LEMMA ReadDevicesStep ==
    ASSUME Progress, NEW c \in Casts, ReadDevices(c)
    PROVE  Progress'
<1> DEFINE x == cast[c]
           gap == Gap(c, Registered)
<1>1. /\ x \in CastRec /\ CastInv(x) /\ cast \in [Casts -> CastRec]
      /\ x.st = "push" /\ x.st \in Pushing /\ gap \in BOOLEAN
      /\ UNCHANGED <<data, draining, aborted>>
  <2>1. x \in CastRec /\ CastInv(x) /\ cast \in [Casts -> CastRec]
    BY DEF Progress
  <2>2. gap \in BOOLEAN
    BY <2>1 DEF Gap, CastRec
  <2> QED BY <2>1, <2>2 DEF ReadDevices, Pushing
<1>2. Ages /\ DataType'
  <2>1. running' \in BOOLEAN
    BY DEF ReadDevices, StopPush, Complete, Progress, DataType
  <2> QED BY <1>1, <2>1, SameAges DEF data, Progress, DataType
<1>3. CASE aborted
  <2>1. cast' = [cast EXCEPT ![c] = Ended]
    BY <1>3 DEF ReadDevices, StopPush
  <2> QED BY <1>1, <1>2, <2>1, EndedOk, OneStep
<1>4. CASE ~aborted
  <2>1. PICK page \in Pages(x.cursor, PushBatch, Registered) :
            IF page = {} THEN Complete(c, x.pushed, gap)
            ELSE /\ cast' = [cast EXCEPT ![c].st = "sending", ![c].page = page, ![c].gap = gap]
                 /\ UNCHANGED running
    BY <1>4 DEF ReadDevices
  <2>2. /\ Registered \in SUBSET RowIds /\ RowIds \in SUBSET (Nat \ {0}) /\ PushBatch \in Nat \ {0}
        /\ x.cursor \in Nat /\ x.rows \subseteq RowIds /\ x.pushed \in [RowIds -> Nat]
    BY <1>1, BroadcastAssumption DEF Registered, CastRec
  <2>3. /\ page # {} => PageOk(page, x.cursor, RowIds)
        /\ ~gap => /\ page # {} => PageCovers(Registered, page, x.cursor, PushBatch)
                   /\ page = {} => \A r \in Registered : r <= x.cursor
    <3>1. ~gap => x.cursor = 0 \/ x.cursor \in Registered
      BY DEF Gap
    <3> QED BY <2>1, <2>2, <3>1, PageRead
  <2>4. /\ Reached(x.pushed, x.cursor, RowIds) /\ \A r \in RowIds : x.pushed[r] <= 1
        /\ ~gap => Covered(x.rows \cap Registered, x.cursor, x.pushed)
    BY <1>1 DEF CastInv, PushInv, Gap
  <2>5. CASE page = {}
    <3> DEFINE new == [NewCast EXCEPT !.st = "complete", !.rows = x.rows,
                                      !.pushed = x.pushed, !.gap = gap]
    <3>1. ~gap => \A r \in x.rows \cap Registered : x.pushed[r] = 1
      BY <2>3, <2>4, <2>5 DEF Covered
    <3>2. cast' = [cast EXCEPT ![c] = new]
      BY <2>1, <2>5 DEF Complete
    <3>3. new \in CastRec /\ CastInv(new)
      BY <1>1, <2>2, <2>4, <3>1, Completed
    <3> QED BY <1>1, <1>2, <3>2, <3>3, OneStep
  <2>6. CASE page # {}
    <3> DEFINE new == [x EXCEPT !.st = "sending", !.page = page, !.gap = gap]
    <3>1. cast' = [cast EXCEPT ![c] = new]
      BY <2>1, <2>6
    <3>2. page \in SUBSET RowIds
      BY <2>3, <2>6 DEF PageOk
    <3>3. new \in CastRec
      BY <1>1, <3>2 DEF CastRec, InProgress
    <3>4. /\ new.st = "sending" /\ new.cursor = x.cursor /\ new.page = page /\ new.gap = gap
          /\ new.answered = x.answered /\ new.fed = x.fed /\ new.users = x.users
          /\ new.rows = x.rows /\ new.pushed = x.pushed
      BY <1>1 DEF CastRec
    <3>5. ~gap => PageCovers(x.rows \cap Registered, page, x.cursor, PushBatch)
      BY <2>3, <2>6 DEF PageCovers
    <3>6. new.gap = x.gap \/ new.gap
      BY <1>1, <3>4 DEF Gap, CastRec
    <3> HIDE DEF new
    <3>7. FeedInv(new, There)
      <4>1. new.st \in Pushing /\ FeedInv(x, There)
        BY <1>1, <3>4 DEF Pushing, CastInv
      <4> QED BY <3>4, <3>6, <4>1, FeedStays
    <3>8. PushInv(new, Registered)
      BY <2>3, <2>4, <2>6, <3>4, <3>5 DEF PushInv, Fresh, Feeding, Pushing
    <3>9. Known(new)
      BY <1>1, <3>4 DEF Known, CastInv
    <3> QED BY <1>1, <1>2, <3>1, <3>3, <3>7, <3>8, <3>9, OneStep DEF CastInv
  <2> QED BY <2>5, <2>6
<1> QED BY <1>3, <1>4

\* The pushes of a page are sent, and rows of tokens unknown to FCM are pruned.
LEMMA SendStep ==
    ASSUME Progress, NEW c \in Casts, NEW prunes \in BOOLEAN, Send(c, prunes)
    PROVE  Progress'
<1> DEFINE x == cast[c]
           page == x.page
           sent == Counted(x.pushed, page, RowIds)
           S == x.rows \cap Registered
<1>1. /\ x \in CastRec /\ CastInv(x) /\ cast \in [Casts -> CastRec]
      /\ x.st = "sending" /\ x.st \in Pushing
      /\ UNCHANGED <<users, changes, draining, aborted>>
  BY DEF Progress, Send, Pushing
<1>2. /\ RowIds \in SUBSET (Nat \ {0}) /\ x.cursor \in Nat
      /\ x.pushed \in [RowIds -> Nat] /\ x.gap \in BOOLEAN
      /\ S \in SUBSET RowIds /\ PushBatch \in Nat
  BY <1>1, BroadcastAssumption DEF Registered, CastRec
<1>3. /\ Reached(x.pushed, x.cursor, RowIds) /\ PageOk(page, x.cursor, RowIds)
      /\ ~x.gap => Covered(S, x.cursor, x.pushed) /\ PageCovers(S, page, x.cursor, PushBatch)
  BY <1>1 DEF CastInv, PushInv
<1>4. /\ sent \in [RowIds -> Nat] /\ Max(page) \in Nat /\ Reached(sent, Max(page), RowIds)
      /\ \A r \in RowIds : sent[r] <= 1
      /\ ~x.gap => /\ Covered(S, Max(page), sent)
                   /\ ShortPage(page, PushBatch) => \A r \in S : sent[r] = 1
  <2> HIDE DEF x, page, S
  <2>1. Turn(RowIds, x.cursor, page, x.pushed)
    BY <1>2, <1>3 DEF Turn
  <2>2. /\ sent \in [RowIds -> Nat] /\ Max(page) \in Nat /\ Reached(sent, Max(page), RowIds)
        /\ \A r \in RowIds : sent[r] <= 1
    BY <2>1, PageCounted
  <2>3. ASSUME ~x.gap
        PROVE  /\ Covered(S, Max(page), sent)
               /\ ShortPage(page, PushBatch) => \A r \in S : sent[r] = 1
    <3>1. /\ S \subseteq RowIds /\ Covered(S, x.cursor, x.pushed)
          /\ PageCovers(S, page, x.cursor, PushBatch)
      BY <1>2, <1>3, <2>3
    <3> QED BY <2>1, <3>1, PageCovered
  <2> QED BY <2>2, <2>3
<1>5. /\ device' = IF prunes
                   THEN [r \in RowIds |-> IF r \in page /\ device[r] = "dead"
                                          THEN "gone" ELSE device[r]]
                   ELSE device
      /\ IF ShortPage(page, PushBatch) THEN Complete(c, sent, x.gap)
         ELSE /\ cast' = [cast EXCEPT ![c].st = "push", ![c].cursor = Max(page),
                                      ![c].page = {}, ![c].pushed = sent]
              /\ UNCHANGED running
  BY DEF Send, Counted
<1> HIDE DEF sent, page
<1>6. Ages /\ DataType'
  <2>1. device \in [RowIds -> {"unborn", "there", "dead", "gone"}]
    BY DEF Progress, DataType
  <2>2. \A r \in RowIds : device'[r] = device[r] \/ (device[r] = "dead" /\ device'[r] = "gone")
    BY <1>5
  <2>3. device' \in [RowIds -> {"unborn", "there", "dead", "gone"}]
    BY <1>5, <2>1
  <2>4. running' \in BOOLEAN
    BY <1>5 DEF Complete, Progress, DataType
  <2>5. DataType'
    BY <1>1, <2>3, <2>4 DEF Progress, DataType
  <2> QED BY <1>1, <2>2, <2>5 DEF Ages
<1>7. CASE ShortPage(page, PushBatch)
  <2> DEFINE new == [NewCast EXCEPT !.st = "complete", !.rows = x.rows,
                                    !.pushed = sent, !.gap = x.gap]
  <2>1. cast' = [cast EXCEPT ![c] = new]
    BY <1>5, <1>7 DEF Complete
  <2>2. ~x.gap => \A r \in x.rows \cap Registered : sent[r] = 1
    BY <1>4, <1>7
  <2>3. new \in CastRec /\ CastInv(new)
    BY <1>1, <1>2, <1>4, <2>2, Completed
  <2> QED BY <1>1, <1>6, <2>1, <2>3, OneStep
<1>8. CASE ~ShortPage(page, PushBatch)
  <2> DEFINE new == [x EXCEPT !.st = "push", !.cursor = Max(page), !.page = {}, !.pushed = sent]
  <2>1. cast' = [cast EXCEPT ![c] = new]
    BY <1>5, <1>8
  <2>2. new \in CastRec
    BY <1>1, <1>4 DEF CastRec, InProgress
  <2>3. /\ new.st = "push" /\ new.cursor = Max(page) /\ new.gap = x.gap /\ new.fed = x.fed
        /\ new.answered = x.answered /\ new.users = x.users
        /\ new.rows = x.rows /\ new.pushed = sent
    BY <1>1 DEF CastRec
  <2> HIDE DEF new
  <2>4. FeedInv(new, There)
    <3>1. new.st \in Pushing /\ FeedInv(x, There)
      BY <1>1, <2>3 DEF Pushing, CastInv
    <3> QED BY <2>3, <3>1, FeedStays
  <2>5. PushInv(new, Registered)
    BY <1>4, <2>3 DEF PushInv, Fresh, Feeding, Pushing
  <2>6. Known(new)
    BY <1>1, <2>3 DEF Known, CastInv
  <2> QED BY <1>1, <1>6, <2>1, <2>2, <2>4, <2>5, <2>6, OneStep DEF CastInv
<1> QED BY <1>7, <1>8

\* The process is told to stop, or another takes its place.
LEMMA ProcessSteps ==
    ASSUME Progress, Shutdown \/ Restart
    PROVE  Progress'
<1>1. data' = data /\ Ages /\ DataType'
  <2>1. data' = data /\ {draining', running', aborted'} \subseteq BOOLEAN
    BY DEF Progress, DataType, Shutdown, Restart
  <2> QED BY <2>1, SameAges DEF data, Progress, DataType
<1>2. cast \in [Casts -> CastRec]
  BY DEF Progress
<1>3. CASE Shutdown
  BY <1>1, <1>2, <1>3, ProgressStep DEF Shutdown
<1>4. CASE Restart
  <2>1. /\ cast' \in [Casts -> CastRec]
        /\ \A c \in Casts : cast'[c] = cast[c] \/ cast'[c] = Ended
    BY <1>2, <1>4, EndedOk DEF Restart
  <2>2. \A c \in Casts : cast'[c] = cast[c] \/ CastInv(cast'[c])
    BY <2>1, EndedOk
  <2> QED BY <1>1, <2>1, <2>2, ProgressStep
<1> QED BY <1>3, <1>4

\* Users and devices come and go.
LEMMA ChangeSteps ==
    ASSUME Progress,
           \/ \E u \in UserIds : SignUp(u) \/ DeleteUser(u)
           \/ \E r \in RowIds : Register(r) \/ Unregister(r) \/ Uninstall(r)
    PROVE  Progress'
<1>1. cast' = cast /\ changes' = changes + 1 /\ UNCHANGED <<draining, running, aborted>>
  BY DEF SignUp, DeleteUser, Register, Unregister, Uninstall, Change
<1>2. /\ users \in [UserIds -> {"unborn", "there", "gone"}]
      /\ device \in [RowIds -> {"unborn", "there", "dead", "gone"}] /\ changes \in Nat
      /\ cast \in [Casts -> CastRec]
  BY DEF Progress, DataType
<1>3. ASSUME NEW u \in UserIds, SignUp(u) \/ DeleteUser(u) PROVE Ages /\ DataType'
  <2>1. /\ device' = device
        /\ \/ users[u] = "unborn" /\ users' = [users EXCEPT ![u] = "there"]
           \/ users[u] = "there" /\ users' = [users EXCEPT ![u] = "gone"]
    BY <1>3 DEF SignUp, DeleteUser
  <2>2. Ages
    BY <1>2, <2>1 DEF Ages
  <2> QED BY <1>1, <1>2, <2>1, <2>2 DEF DataType, Progress
<1>4. ASSUME NEW r \in RowIds, Register(r) \/ Unregister(r) \/ Uninstall(r)
      PROVE  Ages /\ DataType'
  <2>1. /\ users' = users
        /\ \/ device[r] = "unborn" /\ device' = [device EXCEPT ![r] = "there"]
           \/ device[r] \in {"there", "dead"} /\ device' = [device EXCEPT ![r] = "gone"]
           \/ device[r] = "there" /\ device' = [device EXCEPT ![r] = "dead"]
    BY <1>4 DEF Register, Unregister, Uninstall, Registered
  <2>2. Ages
    BY <1>2, <2>1 DEF Ages
  <2> QED BY <1>1, <1>2, <2>1, <2>2 DEF DataType, Progress
<1> QED BY <1>1, <1>2, <1>3, <1>4, ProgressStep

LEMMA Progresses == Spec => []Progress
<1>1. Init => Progress
  <2> SUFFICES ASSUME Init PROVE Progress
    OBVIOUS
  <2>1. DataType
    BY DEF Init, DataType
  <2>2. cast = [c \in Casts |-> NewCast]
    BY DEF Init
  <2> QED BY <2>1, <2>2, EndedOk DEF Progress
<1>2. Progress /\ [Next]_vars => Progress'
  <2> SUFFICES ASSUME Progress, [Next]_vars PROVE Progress'
    OBVIOUS
  <2>1. ASSUME NEW c \in Casts, Proceed(c) PROVE Progress'
    BY <2>1, QuietSteps, StartStep, ReadUsersStep, InsertFeedStep, ReadDevicesStep, SendStep
       DEF Proceed
  <2>2. ASSUME NEW c \in Casts, NEW kind \in {"week", "news"}, Arrive(c, kind) PROVE Progress'
    BY <2>2, QuietSteps
  <2>3. CASE UNCHANGED vars
    BY <2>3 DEF vars, Progress, DataType, CastInv, FeedInv, PushInv, Known, There, Registered
  <2> QED BY <2>1, <2>2, <2>3, ProcessSteps, ChangeSteps DEF Next
<1> QED BY <1>1, <1>2, PTL DEF Spec
-----------------------------------------------------------------------------
(* One broadcast at a time                                                 *)

Active(c) == cast[c].st \in InProgress

OneInv ==
    /\ cast \in [Casts -> CastRec]
    /\ \A c, d \in Casts : Active(c) /\ Active(d) => c = d
    /\ running <=> \E c \in Casts : Active(c)

\* A step either leaves the broadcast there is alone, or begins one when there is
\* none, or ends the one there is.
LEMMA OneStays ==
    ASSUME OneInv, NEW c \in Casts, \A d \in Casts \ {c} : cast'[d] = cast[d],
           cast' \in [Casts -> CastRec],
           \/ (Active(c)' <=> Active(c)) /\ running' = running
           \/ ~running /\ Active(c)' /\ running'
           \/ Active(c) /\ ~Active(c)' /\ ~running'
    PROVE  OneInv'
<1>1. \A d \in Casts \ {c} : Active(d)' = Active(d)
  BY DEF Active
<1> QED BY <1>1 DEF OneInv

LEMMA OneProceeds ==
    ASSUME OneInv, Progress, Progress', NEW c \in Casts,
           Proceed(c) \/ \E kind \in {"week", "news"} : Arrive(c, kind)
    PROVE  OneInv'
<1> DEFINE Others == \A d \in Casts \ {c} : cast'[d] = cast[d]
<1>1. /\ cast \in [Casts -> CastRec] /\ cast' \in [Casts -> CastRec]
      /\ cast[c] \in CastRec
  BY DEF Progress
<1>2. ASSUME NEW new, cast' = [cast EXCEPT ![c] = new]
      PROVE  Others /\ cast'[c] = new
  BY <1>1, <1>2
<1>3. /\ Ended.st = "over"
      /\ \A new : cast' = [cast EXCEPT ![c] = new] => Others /\ cast'[c] = new
  BY <1>2 DEF Ended, NewCast
<1>4. ASSUME NEW st \in {"arrived", "ranked", "over", "complete"} \cup InProgress,
             Others, cast'[c].st = st,
             \/ (st \in InProgress <=> Active(c)) /\ running' = running
             \/ ~running /\ st \in InProgress /\ running'
             \/ Active(c) /\ st \notin InProgress /\ ~running'
      PROVE  OneInv'
  <2>1. Active(c)' <=> st \in InProgress
    BY <1>4 DEF Active
  <2> QED BY <1>1, <1>4, <2>1, OneStays
<1> HIDE DEF Others
<1>5. CASE Refuse(c) \/ FailFeed(c) \/ FailPush(c) \/ (Start(c) /\ running)
                     \/ (ReadDevices(c) /\ aborted)
  <2>1. cast' = [cast EXCEPT ![c] = Ended]
    BY <1>5 DEF Refuse, FailFeed, FailPush, StopPush, Start, ReadDevices
  <2>2. Others /\ cast'[c].st = "over" /\ "over" \notin InProgress
    BY <1>3, <2>1 DEF InProgress
  <2>3. \/ ~Active(c) /\ running' = running
        \/ Active(c) /\ ~running'
    BY <1>5 DEF Refuse, FailFeed, FailPush, StopPush, Start, Ready, ReadDevices, Active, InProgress
  <2> QED BY <1>4, <2>2, <2>3
<1>6. CASE SetRanks(c) \/ \E kind \in {"week", "news"} : Arrive(c, kind)
  <2>1. /\ Others /\ cast'[c].st \in {"arrived", "ranked"} /\ running' = running
        /\ cast[c].st \in {"idle", "arrived"}
    BY <1>1, <1>6 DEF SetRanks, Arrive, CastRec, Others
  <2> QED BY <1>4, <2>1 DEF Active, InProgress
<1>7. CASE Start(c) /\ ~running
  <2>1. Others /\ cast'[c].st = "reading" /\ running' = TRUE
    BY <1>1, <1>7 DEF Start, CastRec, Others
  <2> QED BY <1>4, <1>7, <2>1 DEF InProgress
<1>8. ASSUME NEW fed, NEW gap, EndFeed(c, fed, gap)
      PROVE  Others /\ cast'[c].st = "push" /\ running' = running
  BY <1>1, <1>8 DEF EndFeed, CastRec, Others
<1>9. CASE ReadUsers(c)
  <2>1. Active(c)
    BY <1>9 DEF ReadUsers, Active, InProgress
  <2>2. \/ \E fed, gap : EndFeed(c, fed, gap)
        \/ \E page, gap : /\ cast' = [cast EXCEPT ![c].st = "inserting", ![c].page = page,
                                                  ![c].gap = gap]
                          /\ UNCHANGED running
    BY <1>9 DEF ReadUsers
  <2>3. ASSUME NEW page, NEW gap,
               cast' = [cast EXCEPT ![c].st = "inserting", ![c].page = page, ![c].gap = gap]
        PROVE  Others /\ cast'[c].st = "inserting"
    BY <1>1, <2>3 DEF CastRec, Others
  <2>4. Others /\ cast'[c].st \in {"push", "inserting"} /\ running' = running
    BY <1>8, <2>2, <2>3
  <2> QED BY <1>4, <2>1, <2>4 DEF InProgress
<1>10. CASE InsertFeed(c)
  <2>1. Active(c)
    BY <1>10 DEF InsertFeed, Active, InProgress
  <2>2. \/ \E fed, gap : EndFeed(c, fed, gap)
        \/ \E cursor, fed : /\ cast' = [cast EXCEPT ![c].st = "reading", ![c].cursor = cursor,
                                                    ![c].page = {}, ![c].fed = fed]
                            /\ UNCHANGED running
    BY <1>10 DEF InsertFeed
  <2>3. ASSUME NEW cursor, NEW fed,
               cast' = [cast EXCEPT ![c].st = "reading", ![c].cursor = cursor,
                                    ![c].page = {}, ![c].fed = fed]
        PROVE  Others /\ cast'[c].st = "reading"
    BY <1>1, <2>3 DEF CastRec, Others
  <2>4. Others /\ cast'[c].st \in {"push", "reading"} /\ running' = running
    BY <1>8, <2>2, <2>3
  <2> QED BY <1>4, <2>1, <2>4 DEF InProgress
<1>11. ASSUME NEW pushed, NEW gap, Complete(c, pushed, gap)
       PROVE  Others /\ cast'[c].st = "complete" /\ ~running'
  BY <1>3, <1>11 DEF Complete, NewCast
<1>12. CASE ReadDevices(c) /\ ~aborted
  <2>1. Active(c)
    BY <1>12 DEF ReadDevices, Active, InProgress
  <2>2. \/ \E pushed, gap : Complete(c, pushed, gap)
        \/ \E page, gap : /\ cast' = [cast EXCEPT ![c].st = "sending", ![c].page = page,
                                                  ![c].gap = gap]
                          /\ UNCHANGED running
    BY <1>12 DEF ReadDevices
  <2>3. ASSUME NEW page, NEW gap,
               cast' = [cast EXCEPT ![c].st = "sending", ![c].page = page, ![c].gap = gap]
        PROVE  Others /\ cast'[c].st = "sending"
    BY <1>1, <2>3 DEF CastRec, Others
  <2>4. \/ Others /\ cast'[c].st = "complete" /\ ~running'
        \/ Others /\ cast'[c].st = "sending" /\ running' = running
    BY <1>11, <2>2, <2>3
  <2> QED BY <1>4, <2>1, <2>4 DEF InProgress
<1>13. ASSUME NEW prunes \in BOOLEAN, Send(c, prunes) PROVE OneInv'
  <2>1. Active(c)
    BY <1>13 DEF Send, Active, InProgress
  <2>2. \/ \E pushed, gap : Complete(c, pushed, gap)
        \/ \E cursor, pushed :
              /\ cast' = [cast EXCEPT ![c].st = "push", ![c].cursor = cursor,
                                      ![c].page = {}, ![c].pushed = pushed]
              /\ UNCHANGED running
    BY <1>13 DEF Send
  <2>3. ASSUME NEW cursor, NEW pushed,
               cast' = [cast EXCEPT ![c].st = "push", ![c].cursor = cursor,
                                    ![c].page = {}, ![c].pushed = pushed]
        PROVE  Others /\ cast'[c].st = "push"
    BY <1>1, <2>3 DEF CastRec, Others
  <2>4. \/ Others /\ cast'[c].st = "complete" /\ ~running'
        \/ Others /\ cast'[c].st = "push" /\ running' = running
    BY <1>11, <2>2, <2>3
  <2> QED BY <1>4, <2>1, <2>4 DEF InProgress
<1> QED BY <1>5, <1>6, <1>7, <1>9, <1>10, <1>12, <1>13 DEF Proceed
-----------------------------------------------------------------------------
(* The theorems                                                            *)

\* Every variable keeps its type.
THEOREM Types == Spec => []TypeOK
<1>1. Progress => TypeOK
  BY DEF Progress, DataType, CastRec, TypeOK
<1> QED BY <1>1, Progresses, PTL

\* A broadcast writes at most one feed row for a user and sends at most one push
\* to a device row, for any users, devices and page sizes.
THEOREM NobodyReachedTwice == Spec => []ReachedOnce
<1>1. Progress => ReachedOnce
  BY DEF Progress, CastInv, FeedInv, PushInv, ReachedOnce
<1> QED BY <1>1, Progresses, PTL

\* An announcement answered with success reached every user who was there when it
\* began and still is; one that completed reached every such device row.
THEOREM NobodyForgotten == Spec => []ReachesAll
<1>1. Progress => ReachesAll
  BY DEF Progress, CastInv, FeedInv, PushInv, ReachesAll
<1> QED BY <1>1, Progresses, PTL

\* A process has at most one broadcast between its start and the end of its
\* pushes, and running says whether it has.
THEOREM OneBroadcast == Spec => []OneAtATime
<1>1. Init => OneInv
  BY EndedOk DEF Init, OneInv, Active, NewCast, InProgress
<1>2. OneInv /\ Progress /\ Progress' /\ [Next]_vars => OneInv'
  <2> SUFFICES ASSUME OneInv, Progress, Progress', [Next]_vars PROVE OneInv'
    OBVIOUS
  <2>1. CASE cast' = cast /\ running' = running
    BY <2>1 DEF OneInv, Active
  <2>2. CASE Restart
    <3>1. cast' \in [Casts -> CastRec] /\ running' = FALSE
      BY <2>2 DEF Progress, Restart
    <3>2. \A c \in Casts : cast'[c].st \notin InProgress
      BY <2>2 DEF Restart, Ended, NewCast, InProgress
    <3> QED BY <3>1, <3>2 DEF OneInv, Active
  <2> QED BY <2>1, <2>2, OneProceeds
      DEF Next, vars, Shutdown, SignUp, DeleteUser, Register, Unregister, Uninstall, Change
<1>3. OneInv => OneAtATime
  <2> SUFFICES ASSUME OneInv PROVE OneAtATime
    OBVIOUS
  <2> DEFINE active == {c \in Casts : cast[c].st \in InProgress}
  <2>1. running <=> active # {}
    BY DEF OneInv, Active
  <2>2. Cardinality(active) <= 1
    <3>1. CASE active = {}
      BY <3>1, FS_EmptySet
    <3>2. ASSUME NEW c \in active PROVE Cardinality(active) <= 1
      <4>1. active = {c}
        BY <3>2 DEF OneInv, Active
      <4> QED BY <4>1, FS_Singleton
    <3> QED BY <3>1, <3>2
  <2> QED BY <2>1, <2>2 DEF OneAtATime
<1> QED BY <1>1, <1>2, <1>3, Progresses, PTL DEF Spec
=============================================================================

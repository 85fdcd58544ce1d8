---------------------------- MODULE TotalsProofs ----------------------------
(***************************************************************************)
(* Proofs about Totals, for any number of customers, bookings, shops and   *)
(* requests: no cut is archived twice, the rating a request writes while   *)
(* no other runs is what the reviews say, and a deletion that summed what  *)
(* is still there when it commits leaves every barber's totals.            *)
(***************************************************************************)
EXTENDS Totals, FiniteSetTheorems, WellFoundedInduction, TLAPS

Erasures == {"eraseCuts", "erase", "erasing"}
Writing == {"putting", "removing", "erasing"}

\* A customer's bookings with a barber, and the barber's removed bookings.
Of(u, b) == {k \in Bookings : Owner[k] = u /\ BarberOf[k] = b}
Removed(b) == {k \in Bookings : BarberOf[k] = b /\ status[k] = "deleted"}

\* A request archives at most the cuts its customer has had, and only if it deletes
\* the account; it has counted no ratings before its transaction.
Request(r) ==
    /\ r \in [kind : {"none", "put", "remove"} \cup Erasures \cup Writing,
              user : Users \cup {None}, shops : SUBSET Shops, rating : {r.rating},
              sums : {r.sums}, counted : {r.counted}, read : {r.read}, alone : BOOLEAN]
    /\ r.counted = [s \in Shops |-> r.counted[s]]
    /\ r.kind \notin Writing => \A s \in Shops : r.counted[s] = None

Archives(r) ==
    \A b \in Barbers :
        /\ r.sums[b].cuts \in Nat
        /\ r.sums[b].cuts # 0 =>
               r.kind \in Erasures /\ r.sums[b].cuts <= Cardinality(Of(r.user, b))

Typed ==
    /\ op = [o \in Reqs |-> op[o]]
    /\ \A o \in Reqs : op[o] # None => Request(op[o]) /\ Archives(op[o])
    /\ archived = [b \in Barbers |-> archived[b]]
    /\ \A b \in Barbers : archived[b].cuts \in Int
    /\ status = [k \in Bookings |-> status[k]]

\* An account is there while its deletion is being written, by one request at a
\* time, and its bookings are.  (Without shops there are no bookings, and no row of
\* a review keeps two deletions apart.)
ErasedOnce ==
    /\ \A o \in Reqs : Running(o, "erasing") /\ Shops # {} =>
           /\ op[o].user \in accounts
           /\ \A p \in Reqs : Running(p, "erasing") /\ op[p].user = op[o].user => p = o
    /\ \A k \in Bookings : Owner[k] \in accounts => status[k] # "deleted"

IInv == Typed /\ ErasedOnce /\ ArchivedOnce

-----------------------------------------------------------------------------
(* The archive                                                             *)

\* A step that only moves requests on, by which none begins to delete an account.
LEMMA RequestsMove ==
    ASSUME IInv, UNCHANGED <<status, archived, accounts>>,
           op' = [o \in Reqs |-> op'[o]],
           \A o \in Reqs : op'[o] # None => Request(op'[o]) /\ Archives(op'[o]),
           \A o \in Reqs : Running(o, "erasing")' =>
                               Running(o, "erasing") /\ op'[o].user = op[o].user
    PROVE  IInv'
<1>1. Typed'
      BY DEF IInv, Typed
<1>2. ErasedOnce'
      BY DEF IInv, ErasedOnce
<1>3. ArchivedOnce'
      BY DEF IInv, ArchivedOnce
<1> QED  BY <1>1, <1>2, <1>3 DEF IInv

\* A request that replaces one record, or ends.
LEMMA OneMoves ==
    ASSUME IInv, NEW o \in Reqs, NEW r, op' = [op EXCEPT ![o] = r],
           UNCHANGED <<status, archived, accounts>>,
           r # None => Request(r) /\ Archives(r),
           r # None /\ r.kind = "erasing" =>
               Running(o, "erasing") /\ r.user = op[o].user
    PROVE  IInv'
<1>1. op'[o] = r /\ \A p \in Reqs \ {o} : op'[p] = op[p]
      BY DEF IInv, Typed
<1>2. op' = [p \in Reqs |-> op'[p]]
      BY DEF IInv, Typed
<1>3. \A p \in Reqs : op'[p] # None => Request(op'[p]) /\ Archives(op'[p])
      BY <1>1 DEF IInv, Typed
<1>4. \A p \in Reqs : Running(p, "erasing")' =>
                          Running(p, "erasing") /\ op'[p].user = op[p].user
      BY <1>1 DEF Running
<1> QED  BY <1>2, <1>3, <1>4, RequestsMove

\* A handler starts.
LEMMA Starts ==
    ASSUME IInv, NEW o \in Reqs, NEW x, Start(o, x), Request(x), Archives(x),
           x.kind # "erasing", UNCHANGED <<status, archived, accounts>>
    PROVE  IInv'
<1> DEFINE others == {p \in Reqs : op[p] # None}
<1>1. op' = [p \in Reqs |->
                 IF p = o THEN [x EXCEPT !.alone = others = {}]
                 ELSE IF p \in others THEN [op[p] EXCEPT !.alone = FALSE] ELSE None]
      BY DEF Start
<1>2. ASSUME NEW r, NEW a \in BOOLEAN, Request(r), Archives(r)
      PROVE  LET q == [r EXCEPT !.alone = a] IN
             Request(q) /\ Archives(q) /\ q.kind = r.kind /\ q.user = r.user
  <2> DEFINE q == [r EXCEPT !.alone = a]
  <2>1. /\ q.kind = r.kind /\ q.user = r.user /\ q.shops = r.shops
        /\ q.rating = r.rating /\ q.sums = r.sums /\ q.counted = r.counted
        /\ q.read = r.read
        BY <1>2 DEF Request
  <2>2. q \in [kind : {"none", "put", "remove"} \cup Erasures \cup Writing,
               user : Users \cup {None}, shops : SUBSET Shops, rating : {r.rating},
               sums : {r.sums}, counted : {r.counted}, read : {r.read}, alone : BOOLEAN]
        BY <1>2 DEF Request
  <2> HIDE DEF q
  <2>3. Request(q)
        BY <1>2, <2>1, <2>2 DEF Request
  <2>4. Archives(q)
        BY <1>2, <2>1 DEF Archives
  <2> QED  BY <2>1, <2>3, <2>4 DEF q
<1>3. Request(op'[o]) /\ Archives(op'[o]) /\ op'[o].kind # "erasing"
      BY <1>1, <1>2
<1>4. ASSUME NEW p \in Reqs \ {o}, op'[p] # None
      PROVE  /\ Request(op'[p]) /\ Archives(op'[p])
             /\ op[p] # None /\ op'[p].kind = op[p].kind /\ op'[p].user = op[p].user
  <2>1. op[p] # None /\ op'[p] = [op[p] EXCEPT !.alone = FALSE]
        BY <1>1, <1>4
  <2> QED  BY <1>2, <2>1 DEF IInv, Typed
<1>5. op' = [p \in Reqs |-> op'[p]]
      BY <1>1
<1>6. \A p \in Reqs : Running(p, "erasing")' =>
                          Running(p, "erasing") /\ op'[p].user = op[p].user
      BY <1>3, <1>4 DEF Running
<1> QED  BY <1>3, <1>4, <1>5, <1>6, RequestsMove

LEMMA ReadSteps ==
    ASSUME IInv, NEW o \in Reqs,
           \/ \E u \in Users, s \in Shops, r \in Ratings : ReviewRead(o, u, s, r)
           \/ \E y \in Keys : ModerateRead(o, y)
           \/ \E u \in Users : EraseReadCuts(o, u)
    PROVE  IInv'
<1>1. ASSUME NEW u \in Users, NEW s \in Shops, NEW r, ReviewRead(o, u, s, r)
      PROVE  IInv'
  <2> DEFINE x == [Blank EXCEPT !.kind = "put", !.user = u, !.shops = {s}, !.rating = r]
  <2>1. x.kind = "put" /\ Request(x) /\ Archives(x)
        BY DEF Blank, Request, Archives, Erasures, Writing
  <2> HIDE DEF x
  <2>2. Start(o, x) /\ UNCHANGED <<status, archived, accounts>>
        BY <1>1 DEF ReviewRead, x
  <2> QED  BY <2>1, <2>2, Starts
<1>2. ASSUME NEW y \in Keys, ModerateRead(o, y)
      PROVE  IInv'
  <2> DEFINE x == [Blank EXCEPT !.kind = "remove", !.user = y[1], !.shops = {y[2]}]
  <2>1. x.kind = "remove" /\ Request(x) /\ Archives(x)
        BY DEF Blank, Request, Archives, Erasures, Writing, Keys
  <2> HIDE DEF x
  <2>2. Start(o, x) /\ UNCHANGED <<status, archived, accounts>>
        BY <1>2 DEF ModerateRead, x
  <2> QED  BY <2>1, <2>2, Starts
<1>3. ASSUME NEW u \in Users, EraseReadCuts(o, u)
      PROVE  IInv'
  <2> DEFINE sums == [b \in Barbers |-> ToArchive({k \in Completed(b) : Owner[k] = u})]
             x == [Blank EXCEPT !.kind = "eraseCuts", !.user = u, !.sums = sums,
                                !.read = CompletedOf(u)]
  <2>1. Start(o, x) /\ UNCHANGED <<status, archived, accounts>>
        BY <1>3 DEF EraseReadCuts
  <2>2. ASSUME NEW b \in Barbers
        PROVE  sums[b].cuts \in Nat /\ sums[b].cuts <= Cardinality(Of(u, b))
    <3>1. sums[b].cuts = Cardinality({k \in Completed(b) : Owner[k] = u})
          BY DEF ToArchive
    <3>2. /\ {k \in Completed(b) : Owner[k] = u} \subseteq Of(u, b)
          /\ Of(u, b) \subseteq Bookings
          BY DEF Completed, Of
    <3>3. IsFiniteSet(Of(u, b))
          BY <3>2, FS_Subset, TotalsAssumption
    <3> QED  BY <3>1, <3>2, <3>3, FS_Subset, FS_CardinalityType
  <2> HIDE DEF sums
  <2>3. x.kind = "eraseCuts" /\ x.user = u /\ x.sums = sums /\ Request(x)
        BY DEF Blank, Request, Erasures, Writing
  <2>4. Archives(x)
        BY <2>2, <2>3 DEF Archives, Erasures
  <2> HIDE DEF x
  <2> QED  BY <2>1, <2>3, <2>4, Starts
<1> QED  BY <1>1, <1>2, <1>3

\* A request that closes.
LEMMA Closes ==
    ASSUME IInv, NEW o \in Reqs, Close(o), UNCHANGED <<status, archived, accounts>>
    PROVE  IInv'
BY OneMoves DEF Close

\* A request that goes on to its next statement and does not delete an account.
LEMMA GoesOn ==
    ASSUME IInv, NEW o \in Reqs, op[o] # None, NEW kind, NEW shops \in SUBSET Shops,
           op' = [op EXCEPT ![o].kind = kind, ![o].shops = shops],
           UNCHANGED <<status, archived, accounts>>,
           \/ op[o].kind = "put" /\ kind = "putting"
           \/ op[o].kind = "remove" /\ kind = "removing"
           \/ op[o].kind = "eraseCuts" /\ kind = "erase"
    PROVE  IInv'
<1> DEFINE r == [op[o] EXCEPT !.kind = kind, !.shops = shops]
<1>1. Request(op[o]) /\ Archives(op[o]) /\ op' = [op EXCEPT ![o] = r]
      BY DEF IInv, Typed
<1>2. /\ r.kind = kind /\ r.user = op[o].user /\ r.rating = op[o].rating
      /\ r.sums = op[o].sums /\ r.counted = op[o].counted /\ r.read = op[o].read
      BY <1>1 DEF Request
<1>3. r \in [kind : {"none", "put", "remove"} \cup Erasures \cup Writing,
             user : Users \cup {None}, shops : SUBSET Shops, rating : {r.rating},
             sums : {r.sums}, counted : {r.counted}, read : {r.read}, alone : BOOLEAN]
      BY <1>1 DEF Request, Erasures, Writing
<1> HIDE DEF r
<1>4. Request(r)
      BY <1>1, <1>2, <1>3 DEF Request, Writing
<1>5. Archives(r)
      BY <1>1, <1>2 DEF Archives, Erasures
<1> QED  BY <1>1, <1>2, <1>4, <1>5, OneMoves

LEMMA WriteSteps ==
    ASSUME IInv, NEW o \in Reqs, Upsert(o) \/ Remove(o) \/ EraseReadShops(o)
    PROVE  IInv'
<1>1. op[o] # None /\ Request(op[o]) /\ UNCHANGED <<status, archived, accounts>>
      BY DEF Upsert, Remove, EraseReadShops, Running, IInv, Typed
<1>2. op[o].shops \in SUBSET Shops
      BY <1>1 DEF Request
<1>3. ASSUME NEW kind, op' = [op EXCEPT ![o].kind = kind]
      PROVE  op' = [op EXCEPT ![o].kind = kind, ![o].shops = op[o].shops]
  <2>1. [op[o] EXCEPT !.kind = kind] = [op[o] EXCEPT !.kind = kind, !.shops = op[o].shops]
        BY <1>1 DEF Request
  <2> QED  BY <1>3, <2>1
<1>4. CASE Close(o)
      BY <1>1, <1>4, Closes
<1>5. CASE Upsert(o) /\ ~Close(o)
  <2>1. op[o].kind = "put" /\ op' = [op EXCEPT ![o].kind = "putting"]
        BY <1>5 DEF Upsert, Running
  <2> QED  BY <1>1, <1>2, <1>3, <2>1, GoesOn
<1>6. CASE Remove(o) /\ ~Close(o)
  <2>1. op[o].kind = "remove" /\ op' = [op EXCEPT ![o].kind = "removing"]
        BY <1>6 DEF Remove, Running
  <2> QED  BY <1>1, <1>2, <1>3, <2>1, GoesOn
<1>7. CASE EraseReadShops(o)
  <2> DEFINE shops == {s \in Shops : review[<<op[o].user, s>>] # None}
  <2>1. /\ op[o].kind = "eraseCuts" /\ shops \in SUBSET Shops
        /\ op' = [op EXCEPT ![o].kind = "erase", ![o].shops = shops]
        BY <1>7 DEF EraseReadShops, Running
  <2> HIDE DEF shops
  <2> QED  BY <1>1, <2>1, GoesOn
<1> QED  BY <1>4, <1>5, <1>6, <1>7

LEMMA EraseWriteStep ==
    ASSUME IInv, NEW o \in Reqs, EraseWrite(o)
    PROVE  IInv'
<1>1. /\ op[o] # None /\ op[o].kind = "erase" /\ Request(op[o]) /\ Archives(op[o])
      /\ UNCHANGED <<status, archived, accounts>>
      BY DEF EraseWrite, Running, IInv, Typed
<1>2. CASE op[o].user \notin accounts
      BY <1>1, <1>2, Closes DEF EraseWrite
<1>3. CASE op[o].user \in accounts
  <2> DEFINE r == [op[o] EXCEPT !.kind = "erasing"]
  <2>1. op' = [op EXCEPT ![o] = r]
        BY <1>3 DEF EraseWrite
  <2>2. /\ r.kind = "erasing" /\ r.user = op[o].user /\ r.rating = op[o].rating
        /\ r.sums = op[o].sums /\ r.counted = op[o].counted /\ r.read = op[o].read
        BY <1>1 DEF Request
  <2>3. r \in [kind : {"none", "put", "remove"} \cup Erasures \cup Writing,
               user : Users \cup {None}, shops : SUBSET Shops, rating : {r.rating},
               sums : {r.sums}, counted : {r.counted}, read : {r.read}, alone : BOOLEAN]
        BY <1>1 DEF Request, Erasures, Writing
  <2> HIDE DEF r
  <2>4. Request(r) /\ Archives(r)
        BY <1>1, <2>2, <2>3 DEF Request, Archives, Erasures, Writing
  <2>5. op'[o] = r /\ \A p \in Reqs \ {o} : op'[p] = op[p]
        BY <2>1 DEF IInv, Typed
  <2>6. op' = [p \in Reqs |-> op'[p]]
        BY <2>1 DEF IInv, Typed
  <2>7. \A p \in Reqs : op'[p] # None => Request(op'[p]) /\ Archives(op'[p])
        BY <2>4, <2>5 DEF IInv, Typed
  <2>8. Typed'
        BY <1>1, <2>6, <2>7 DEF IInv, Typed
  <2>9. ASSUME NEW p \in Reqs \ {o}, Running(p, "erasing"), Shops # {}
        PROVE  op[p].user # op[o].user
    <3>1. Written(p) = {op[p].user} \X Shops
          BY <2>9 DEF Written, Running
    <3>2. Written(p) \cap ({op[o].user} \X Shops) = {}
          BY <2>9 DEF EraseWrite, Unlocked
    <3>3. PICK s \in Shops : TRUE
          BY <2>9
    <3>4. <<op[p].user, s>> \in Written(p)
          BY <3>1
    <3>5. <<op[p].user, s>> \notin {op[o].user} \X Shops
          BY <3>2, <3>4
    <3> QED  BY <3>5
  <2>10. ASSUME NEW p \in Reqs, Running(p, "erasing")', Shops # {}
         PROVE  /\ op'[p].user \in accounts
                /\ \A q \in Reqs : Running(q, "erasing")' /\ op'[q].user = op'[p].user
                                   => q = p
    <3>1. op'[p].user \in accounts
          BY <1>3, <2>2, <2>5, <2>10 DEF IInv, ErasedOnce, Running
    <3>2. ASSUME NEW q \in Reqs, Running(q, "erasing")', op'[q].user = op'[p].user, q # p
          PROVE  FALSE
          BY <2>2, <2>5, <2>9, <2>10, <3>2 DEF IInv, ErasedOnce, Running
    <3> QED  BY <3>1, <3>2
  <2>11. ErasedOnce'
         BY <1>1, <2>10 DEF IInv, ErasedOnce
  <2> QED  BY <1>1, <2>8, <2>11 DEF IInv, ArchivedOnce
<1> QED  BY <1>2, <1>3

LEMMA CountStep ==
    ASSUME IInv, NEW o \in Reqs, NEW s \in Shops, Count(o, s)
    PROVE  IInv'
<1> DEFINE a == Aggregate(Seen(o), s)
           r == [op[o] EXCEPT !.counted[s] = a]
<1>1. /\ op[o] # None /\ op[o].kind \in Writing /\ Request(op[o]) /\ Archives(op[o])
      /\ UNCHANGED <<status, archived, accounts>>
      BY DEF Count, InTx, Writing, IInv, Typed
<1>2. op' = [op EXCEPT ![o] = r]
      BY DEF Count
<1> HIDE DEF a
<1>3. /\ r.kind = op[o].kind /\ r.user = op[o].user /\ r.rating = op[o].rating
      /\ r.sums = op[o].sums /\ r.counted = [op[o].counted EXCEPT ![s] = a]
      /\ r.read = op[o].read /\ r.shops = op[o].shops
      BY <1>1 DEF Request
<1>4. r \in [kind : {"none", "put", "remove"} \cup Erasures \cup Writing,
             user : Users \cup {None}, shops : SUBSET Shops, rating : {r.rating},
             sums : {r.sums}, counted : {r.counted}, read : {r.read}, alone : BOOLEAN]
      BY <1>1 DEF Request
<1> HIDE DEF r
<1>5. Request(r) /\ Archives(r)
      BY <1>1, <1>3, <1>4 DEF Request, Archives
<1> QED  BY <1>1, <1>2, <1>3, <1>5, OneMoves DEF Running

LEMMA CommitStep ==
    ASSUME IInv, NEW o \in Reqs, Commit(o)
    PROVE  IInv'
<1> DEFINE u == op[o].user
           erasing == op[o].kind = "erasing"
<1>1. /\ op[o] # None /\ op[o].kind \in Writing /\ Request(op[o]) /\ Archives(op[o])
      /\ op' = [op EXCEPT ![o] = None]
      BY DEF Commit, InTx, Writing, Close, IInv, Typed
<1>2. op'[o] = None /\ \A p \in Reqs \ {o} : op'[p] = op[p]
      BY <1>1 DEF IInv, Typed
<1>3. /\ archived' = [b \in Barbers |-> Plus(archived[b], op[o].sums[b])]
      /\ status' = [k \in Bookings |-> IF erasing /\ Owner[k] = u THEN "deleted"
                                                                ELSE status[k]]
      /\ accounts' = IF erasing THEN accounts \ {u} ELSE accounts
      BY DEF Commit
<1>4. \A b \in Barbers : /\ archived'[b].cuts = archived[b].cuts + op[o].sums[b].cuts
                         /\ op[o].sums[b].cuts \in Nat /\ archived[b].cuts \in Int
      BY <1>1, <1>3 DEF Plus, IInv, Typed, Archives
<1>5. Typed'
  <2>1. op' = [p \in Reqs |-> op'[p]]
        BY <1>1 DEF IInv, Typed
  <2>2. \A p \in Reqs : op'[p] # None => Request(op'[p]) /\ Archives(op'[p])
        BY <1>2 DEF IInv, Typed
  <2>3. /\ archived' = [b \in Barbers |-> archived'[b]]
        /\ status' = [k \in Bookings |-> status'[k]]
        BY <1>3
  <2>4. \A b \in Barbers : archived'[b].cuts \in Int
        BY <1>4
  <2> QED  BY <2>1, <2>2, <2>3, <2>4 DEF Typed
<1>6. ErasedOnce'
  <2>1. ASSUME NEW p \in Reqs, Running(p, "erasing")', Shops # {}
        PROVE  /\ op'[p].user \in accounts'
               /\ \A q \in Reqs : Running(q, "erasing")' /\ op'[q].user = op'[p].user
                                  => q = p
    <3>1. p # o /\ op'[p] = op[p] /\ Running(p, "erasing")
          BY <1>2, <2>1 DEF Running
    <3>2. op[p].user \in accounts /\ (erasing => op[p].user # u)
          BY <1>1, <2>1, <3>1 DEF IInv, ErasedOnce, Running
    <3>3. \A q \in Reqs : Running(q, "erasing")' => q # o /\ op'[q] = op[q]
                                                    /\ Running(q, "erasing")
          BY <1>2 DEF Running
    <3> QED  BY <1>3, <2>1, <3>1, <3>2, <3>3 DEF IInv, ErasedOnce
  <2>2. ASSUME NEW k \in Bookings, Owner[k] \in accounts'
        PROVE  status'[k] # "deleted"
        BY <1>3, <2>2 DEF IInv, ErasedOnce
  <2> QED  BY <2>1, <2>2 DEF ErasedOnce
<1>7. ArchivedOnce'
  <2> SUFFICES ASSUME NEW b \in Barbers
               PROVE  archived'[b].cuts <= Cardinality(Removed(b)')
      BY DEF ArchivedOnce, Removed
  <2> DEFINE n == op[o].sums[b].cuts
  <2>1. Removed(b) \subseteq Removed(b)' /\ Removed(b)' \subseteq Bookings
        BY <1>3 DEF Removed
  <2>2. IsFiniteSet(Removed(b)') /\ IsFiniteSet(Removed(b))
        BY <2>1, FS_Subset, TotalsAssumption
  <2>3. /\ Cardinality(Removed(b)) \in Nat /\ Cardinality(Removed(b)') \in Nat
        /\ Cardinality(Removed(b)) <= Cardinality(Removed(b)')
        BY <2>1, <2>2, FS_Subset, FS_CardinalityType
  <2>4. archived[b].cuts <= Cardinality(Removed(b))
        BY DEF IInv, ArchivedOnce, Removed
  <2>5. CASE n = 0
        BY <1>4, <2>3, <2>4, <2>5
  <2>6. CASE n # 0
    <3>1. erasing /\ n <= Cardinality(Of(u, b))
          BY <1>1, <2>6 DEF Archives, Erasures, Writing
    <3>2. IsFiniteSet(Of(u, b))
          BY FS_Subset, TotalsAssumption DEF Of
    <3>3. Of(u, b) # {}
      <4>1. Cardinality(Of(u, b)) # 0
            BY <1>4, <2>6, <3>1, <3>2, FS_CardinalityType
      <4> QED  BY <4>1, FS_EmptySet
    <3>4. Shops # {}
          BY <3>3, TotalsAssumption DEF Of
    <3>5. u \in accounts
          BY <1>1, <3>1, <3>4 DEF IInv, ErasedOnce, Running
    <3>6. Removed(b) \cap Of(u, b) = {}
          BY <3>5 DEF IInv, ErasedOnce, Removed, Of
    <3>7. Removed(b)' = Removed(b) \cup Of(u, b)
          BY <1>3, <3>1 DEF Removed, Of
    <3>8. Cardinality(Removed(b) \cup Of(u, b))
              = Cardinality(Removed(b)) + Cardinality(Of(u, b))
                - Cardinality(Removed(b) \cap Of(u, b))
          BY <2>2, <3>2, FS_Union
    <3>9. Cardinality(Removed(b) \cap Of(u, b)) = 0
          BY <3>6, FS_EmptySet
    <3>10. Cardinality(Of(u, b)) \in Nat
           BY <3>2, FS_CardinalityType
    <3> QED  BY <1>4, <2>3, <2>4, <3>1, <3>7, <3>8, <3>9, <3>10
  <2> QED  BY <2>5, <2>6
<1> QED  BY <1>5, <1>6, <1>7 DEF IInv

LEMMA InvStep ==
    ASSUME IInv, [Next]_vars
    PROVE  IInv'
<1>1. ASSUME UNCHANGED <<op, archived, accounts>>, status' = [k \in Bookings |-> status'[k]],
             \A k \in Bookings : status'[k] = "deleted" <=> status[k] = "deleted"
      PROVE  IInv'
  <2>1. Typed'
        BY <1>1 DEF IInv, Typed
  <2>2. ErasedOnce'
        BY <1>1 DEF IInv, ErasedOnce, Running
  <2>3. \A b \in Barbers : Removed(b)' = Removed(b)
        BY <1>1 DEF Removed
  <2>4. ArchivedOnce'
        BY <1>1, <2>3 DEF IInv, ArchivedOnce, Removed
  <2> QED  BY <2>1, <2>2, <2>4 DEF IInv
<1>2. ASSUME NEW k \in Bookings, AdminCancel(k)
      PROVE  IInv'
      BY <1>1, <1>2 DEF AdminCancel, IInv, Typed
<1>3. ASSUME UNCHANGED <<op, archived, accounts, status>>
      PROVE  IInv'
      BY <1>1, <1>3 DEF IInv, Typed
<1>4. ASSUME NEW k \in Bookings, StampDiscount(k)
      PROVE  IInv'
      BY <1>3, <1>4 DEF StampDiscount
<1>5. CASE Tick \/ UNCHANGED vars
      BY <1>3, <1>5 DEF Tick, vars
<1>6. ASSUME NEW o \in Reqs, LoseOp(o)
      PROVE  IInv'
      BY <1>6, Closes DEF LoseOp
<1>7. ASSUME NEW o \in Reqs, Handle(o)
      PROVE  IInv'
      BY <1>6, <1>7, ReadSteps, WriteSteps, EraseWriteStep, CountStep, CommitStep DEF Handle
<1> QED  BY <1>2, <1>4, <1>5, <1>7 DEF Next

LEMMA InvInit ==
    ASSUME Init
    PROVE  IInv
<1>1. Typed /\ ErasedOnce
      BY DEF Init, Typed, ErasedOnce, Running
<1>2. ASSUME NEW b \in Barbers
      PROVE  archived[b].cuts <= Cardinality(Removed(b))
  <2>1. IsFiniteSet(Removed(b))
        BY FS_Subset, TotalsAssumption DEF Removed
  <2>2. archived[b].cuts = 0 /\ Cardinality(Removed(b)) \in Nat
        BY <2>1, FS_CardinalityType DEF Init
  <2> QED  BY <2>2
<1> QED  BY <1>1, <1>2 DEF IInv, ArchivedOnce, Removed

\* No cut is archived twice, however many deletions of however many accounts are
\* submitted, repeated or lost: the statement that deletes the user throws for all
\* but one of them, and takes the archive increments back with it.
THEOREM NoCutArchivedTwice == Spec => []ArchivedOnce
<1>1. IInv => ArchivedOnce
      BY DEF IInv
<1> QED  BY <1>1, InvInit, InvStep, PTL DEF Spec

-----------------------------------------------------------------------------
(* The ratings                                                             *)

\* A request that is alone is the only one, and what it has counted in its
\* transaction is what it still sees.
Undisturbed ==
    \A o \in Reqs : op[o] # None /\ op[o].alone =>
        /\ \A p \in Reqs \ {o} : op[p] = None
        /\ InTx(o) => \A s \in op[o].shops :
                          op[o].counted[s] # None => op[o].counted[s] = Aggregate(Seen(o), s)

AloneInv == IInv /\ Undisturbed

\* A request that ends, or that goes on to a state in which nothing is counted.
LEMMA AloneMoves ==
    ASSUME AloneInv, NEW o \in Reqs, op[o] # None, NEW r, op' = [op EXCEPT ![o] = r],
           r # None /\ r.alone =>
               /\ op[o].alone
               /\ \A s \in r.shops : r.counted[s] = None
    PROVE  Undisturbed'
<1>1. op'[o] = r /\ \A p \in Reqs \ {o} : op'[p] = op[p]
      BY DEF AloneInv, IInv, Typed
<1>2. \A p \in Reqs \ {o} : op[p] # None => ~op[p].alone
      BY DEF AloneInv, Undisturbed
<1>3. op[o].alone => \A p \in Reqs \ {o} : op[p] = None
      BY DEF AloneInv, Undisturbed
<1>4. ASSUME NEW p \in Reqs, op'[p] # None, op'[p].alone
      PROVE  /\ \A q \in Reqs \ {p} : op'[q] = None
             /\ \A s \in op'[p].shops : op'[p].counted[s] = None
  <2>1. p = o
        BY <1>1, <1>2, <1>4
  <2> QED  BY <1>1, <1>3, <1>4, <2>1
<1> QED  BY <1>4 DEF Undisturbed

LEMMA UndisturbedStep ==
    ASSUME AloneInv, [Next]_vars
    PROVE  Undisturbed'
<1>0. /\ op = [o \in Reqs |-> op[o]]
      /\ \A o \in Reqs : op[o] # None => Request(op[o])
      BY DEF AloneInv, IInv, Typed
<1>1. ASSUME NEW o \in Reqs, NEW x, Start(o, x), Request(x), x.kind \notin Writing
      PROVE  Undisturbed'
  <2> DEFINE others == {p \in Reqs : op[p] # None}
  <2>1. /\ op[o] = None
        /\ op' = [p \in Reqs |->
                     IF p = o THEN [x EXCEPT !.alone = others = {}]
                     ELSE IF p \in others THEN [op[p] EXCEPT !.alone = FALSE] ELSE None]
        BY <1>1 DEF Start
  <2>2. \A p \in Reqs \ {o} : op'[p] # None => ~op'[p].alone /\ others # {}
        BY <1>0, <2>1 DEF Request
  <2>3. op'[o].alone => others = {}
        BY <1>1, <2>1 DEF Request
  <2>4. op'[o].kind = x.kind
        BY <1>1, <2>1 DEF Request
  <2>5. ~InTx(o)'
        BY <1>1, <2>4 DEF InTx, Writing
  <2> QED  BY <2>2, <2>3, <2>5 DEF Undisturbed
<1>2. ASSUME NEW o \in Reqs, NEW u \in Users, NEW s \in Shops, NEW r, ReviewRead(o, u, s, r)
      PROVE  Undisturbed'
  <2> DEFINE x == [Blank EXCEPT !.kind = "put", !.user = u, !.shops = {s}, !.rating = r]
  <2>1. x.kind = "put" /\ Request(x)
        BY DEF Blank, Request, Erasures, Writing
  <2> HIDE DEF x
  <2> QED  BY <1>1, <1>2, <2>1 DEF ReviewRead, x, Writing
<1>3. ASSUME NEW o \in Reqs, NEW y \in Keys, ModerateRead(o, y)
      PROVE  Undisturbed'
  <2> DEFINE x == [Blank EXCEPT !.kind = "remove", !.user = y[1], !.shops = {y[2]}]
  <2>1. x.kind = "remove" /\ Request(x)
        BY DEF Blank, Request, Erasures, Writing, Keys
  <2> HIDE DEF x
  <2> QED  BY <1>1, <1>3, <2>1 DEF ModerateRead, x, Writing
<1>4. ASSUME NEW o \in Reqs, NEW u \in Users, EraseReadCuts(o, u)
      PROVE  Undisturbed'
  <2> DEFINE sums == [b \in Barbers |-> ToArchive({k \in Completed(b) : Owner[k] = u})]
             x == [Blank EXCEPT !.kind = "eraseCuts", !.user = u, !.sums = sums,
                                !.read = CompletedOf(u)]
  <2>1. Start(o, x)
        BY <1>4 DEF EraseReadCuts
  <2> HIDE DEF sums
  <2>2. x.kind = "eraseCuts" /\ Request(x)
        BY DEF Blank, Request, Erasures, Writing
  <2> HIDE DEF x
  <2> QED  BY <1>1, <2>1, <2>2 DEF Writing
<1>5. ASSUME NEW o \in Reqs, op[o] # None, Close(o)
      PROVE  Undisturbed'
      BY <1>5, AloneMoves DEF Close
<1>6. ASSUME NEW o \in Reqs, op[o] # None, op[o].kind \notin Writing, NEW kind,
             op' = [op EXCEPT ![o].kind = kind]
      PROVE  Undisturbed'
  <2> DEFINE r == [op[o] EXCEPT !.kind = kind]
  <2>1. Request(op[o]) /\ op' = [op EXCEPT ![o] = r]
        BY <1>0, <1>6
  <2>2. r.alone = op[o].alone /\ r.shops = op[o].shops /\ r.counted = op[o].counted
        BY <2>1 DEF Request
  <2>3. \A s \in op[o].shops : op[o].counted[s] = None
        BY <1>6, <2>1 DEF Request
  <2>4. op[o] # None
        BY <1>6
  <2> HIDE DEF r
  <2> QED  BY <2>1, <2>2, <2>3, <2>4, AloneMoves
<1>7. ASSUME NEW o \in Reqs, Upsert(o) \/ Remove(o) \/ EraseWrite(o)
      PROVE  Undisturbed'
      BY <1>5, <1>6, <1>7 DEF Upsert, Remove, EraseWrite, Running, Writing
<1>8. ASSUME NEW o \in Reqs, EraseReadShops(o)
      PROVE  Undisturbed'
  <2> DEFINE shops == {s \in Shops : review[<<op[o].user, s>>] # None}
             r == [op[o] EXCEPT !.kind = "erase", !.shops = shops]
  <2>1. op[o] # None /\ Request(op[o]) /\ op[o].kind \notin Writing
        BY <1>0, <1>8 DEF EraseReadShops, Running, Writing
  <2>2. op' = [op EXCEPT ![o] = r]
        BY <1>8 DEF EraseReadShops
  <2> HIDE DEF shops
  <2>3. r.alone = op[o].alone /\ r.shops = shops /\ r.counted = op[o].counted
        BY <2>1 DEF Request
  <2>4. \A s \in shops : op[o].counted[s] = None
        BY <2>1 DEF Request, shops
  <2> HIDE DEF r
  <2> QED  BY <2>1, <2>2, <2>3, <2>4, AloneMoves
<1>9. ASSUME NEW o \in Reqs, NEW s \in Shops, Count(o, s)
      PROVE  Undisturbed'
  <2> DEFINE a == Aggregate(Seen(o), s)
             r == [op[o] EXCEPT !.counted[s] = a]
  <2>1. op[o] # None /\ Request(op[o]) /\ InTx(o) /\ UNCHANGED review
        BY <1>0, <1>9 DEF Count, InTx
  <2>2. op' = [op EXCEPT ![o] = r]
        BY <1>9 DEF Count
  <2> HIDE DEF a
  <2>3. /\ r.alone = op[o].alone /\ r.shops = op[o].shops /\ r.kind = op[o].kind
        /\ r.user = op[o].user /\ r.rating = op[o].rating
        /\ r.counted = [op[o].counted EXCEPT ![s] = a]
        BY <2>1 DEF Request
  <2>4. /\ r.counted[s] = a
        /\ \A z \in Shops \ {s} : r.counted[z] = op[o].counted[z]
        BY <2>1, <2>3 DEF Request
  <2> HIDE DEF r
  <2>5. op'[o] = r /\ \A p \in Reqs \ {o} : op'[p] = op[p]
        BY <1>0, <2>2
  <2>6. CASE op[o].alone
    <3>1. /\ \A p \in Reqs \ {o} : op[p] = None
          /\ \A z \in op[o].shops : op[o].counted[z] # None
                                    => op[o].counted[z] = Aggregate(Seen(o), z)
          BY <2>1, <2>6 DEF AloneInv, Undisturbed
    <3>2. CASE op'[o] = None
          BY <2>5, <3>1, <3>2 DEF Undisturbed
    <3>3. CASE op'[o] # None
      <4>1. Written(o)' = Written(o)
            BY <2>1, <2>3, <2>5, <3>3 DEF Written
      <4>2. Seen(o)' = Seen(o)
            BY <2>1, <2>3, <2>5, <4>1 DEF Seen
      <4>3. \A z \in op[o].shops : op'[o].counted[z] # None
                                   => op'[o].counted[z] = Aggregate(Seen(o), z)
            BY <2>1, <2>4, <2>5, <3>1 DEF Request, a
      <4>4. \A z \in op'[o].shops : op'[o].counted[z] # None
                                   => op'[o].counted[z] = Aggregate(Seen(o), z)'
            BY <2>3, <2>5, <4>2, <4>3
      <4> QED  BY <2>5, <3>1, <4>4 DEF Undisturbed
    <3> QED  BY <3>2, <3>3
  <2>7. CASE ~op[o].alone
        BY <2>1, <2>2, <2>3, <2>7, AloneMoves
  <2> QED  BY <2>6, <2>7
<1>10. ASSUME NEW o \in Reqs, Commit(o) \/ LoseOp(o)
       PROVE  Undisturbed'
       BY <1>5, <1>10 DEF Commit, LoseOp, InTx
<1>11. ASSUME UNCHANGED <<op, review>>
       PROVE  Undisturbed'
  <2>1. \A o \in Reqs : Seen(o)' = Seen(o)
    <3>1. \A o \in Reqs : Written(o)' = Written(o)
          BY <1>11 DEF Written
    <3> QED  BY <1>11, <3>1 DEF Seen
  <2>2. \A o \in Reqs : InTx(o)' <=> InTx(o)
        BY <1>11 DEF InTx
  <2> QED  BY <1>11, <2>1, <2>2 DEF AloneInv, Undisturbed
<1>12. ASSUME NEW k \in Bookings, AdminCancel(k) \/ StampDiscount(k)
       PROVE  Undisturbed'
       BY <1>11, <1>12 DEF AdminCancel, StampDiscount
<1>13. CASE Tick \/ UNCHANGED vars
       BY <1>11, <1>13 DEF Tick, vars
<1>14. ASSUME NEW o \in Reqs, Handle(o)
       PROVE  Undisturbed'
       BY <1>2, <1>3, <1>4, <1>7, <1>8, <1>9, <1>10, <1>14 DEF Handle
<1> QED  BY <1>12, <1>13, <1>14 DEF Next

\* What a request alone commits is what it counted, and that what its transaction,
\* and with the commit everybody, sees.
LEMMA RatingStep ==
    ASSUME AloneInv, [Next]_vars, NEW o \in Reqs, op[o] # None, op[o].alone,
           Committing(o, op[o].kind)
    PROVE  \A s \in op[o].shops : rating'[s] = Aggregate(review', s)
<1>1. op'[o] = None /\ <<review, accounts, rating>>' # <<review, accounts, rating>>
      BY DEF Committing
<1>2. PICK p \in Reqs : Commit(p)
      BY <1>1 DEF Next, Handle, ReviewRead, ModerateRead, EraseReadCuts, EraseReadShops,
                  Upsert, Remove, EraseWrite, Count, LoseOp, AdminCancel, StampDiscount,
                  Tick, vars
<1>3. p = o
      BY <1>2 DEF Commit, InTx, AloneInv, Undisturbed
<1>4. /\ InTx(o) /\ review' = Seen(o) /\ op[o].shops \subseteq Shops
      /\ \A s \in op[o].shops : op[o].counted[s] # None
      /\ rating' = [s \in Shops |-> IF s \in op[o].shops THEN op[o].counted[s]
                                                         ELSE rating[s]]
      BY <1>2, <1>3 DEF Commit, AloneInv, IInv, Typed, Request
<1>5. \A s \in op[o].shops : op[o].counted[s] = Aggregate(Seen(o), s)
      BY <1>4 DEF AloneInv, Undisturbed
<1> QED  BY <1>4, <1>5

\* A review write, removal or account deletion that no other request overlapped
\* leaves the rating of every shop it touched what the shop's reviews say, its own
\* write among them.
THEOREM RatingsTrue == Spec => RatingTrueWhenAlone
<1>1. Init => AloneInv
      BY InvInit DEF Init, AloneInv, Undisturbed
<1>2. AloneInv /\ [Next]_vars => AloneInv'
      BY InvStep, UndisturbedStep DEF AloneInv
<1>3. AloneInv /\ [Next]_vars =>
          [\A o \in Reqs :
              /\ op[o] # None /\ op[o].alone
              /\ Committing(o, op[o].kind)
              => \A s \in op[o].shops : rating'[s] = Aggregate(review', s)]_vars
      BY RatingStep
<1> QED  BY <1>1, <1>2, <1>3, PTL DEF Spec, RatingTrueWhenAlone

-----------------------------------------------------------------------------
(* Sums over sets of cuts.  A fold over a finite set goes by an order that *)
(* CHOOSE fixes; the lemmas show that the order does not matter, by a      *)
(* smallest set for which it would.                                        *)

\* Among sets of bookings there is one that no other is smaller than.
LEMMA LeastSet ==
    ASSUME NEW F \in SUBSET SUBSET Bookings, F # {}
    PROVE  \E S \in F : \A T \in F : T \subseteq S => T = S
<1>1. F \subseteq FiniteSubsetsOf(Bookings)
      BY FS_Subset, TotalsAssumption DEF FiniteSubsetsOf
<1>2. IsWellFoundedOn(StrictSubsetOrdering(Bookings), FiniteSubsetsOf(Bookings))
      BY FS_StrictSubsetOrderingWellFounded
<1>3. PICK S \in F : \A T \in F : ~ (<<T, S>> \in StrictSubsetOrdering(Bookings))
      BY <1>1, <1>2, WFMin
<1>4. ASSUME NEW T \in F, T \subseteq S, T # S
      PROVE  FALSE
      BY <1>3, <1>4 DEF StrictSubsetOrdering
<1> QED  BY <1>4

Discounts == [Bookings -> Int]
First(s) == CHOOSE x \in s : TRUE

\* The sums over the sets that a fold over S goes through.
Sums(d, S, g) ==
    g = [s \in SUBSET S |->
            IF s = {} THEN 0
            ELSE Price[CHOOSE x \in s : TRUE] - d[CHOOSE x \in s : TRUE]
                 + g[s \ {CHOOSE x \in s : TRUE}]]

LEMMA SumsEach ==
    ASSUME NEW d, NEW S, NEW g, Sums(d, S, g), NEW s \in SUBSET S
    PROVE  /\ s = {} => g[s] = 0
           /\ s # {} => /\ First(s) \in s
                        /\ g[s] = Price[First(s)] - d[First(s)] + g[s \ {First(s)}]
<1>1. s # {} => First(s) \in s
      BY DEF First
<1> QED  BY <1>1 DEF Sums, First

LEMMA FoldSums ==
    ASSUME NEW d, NEW S, \E g : Sums(d, S, g)
    PROVE  \E g : Sums(d, S, g) /\ Earned(d, S) = g[S]
BY DEF Earned, MapThenSumSet, MapThenFoldSet, Sums

LEMMA SumsAgree ==
    ASSUME NEW d, NEW S \in SUBSET Bookings, NEW g, Sums(d, S, g),
           NEW T \in SUBSET S, NEW h, Sums(d, T, h)
    PROVE  g[T] = h[T]
<1> DEFINE F == {s \in SUBSET T : g[s] # h[s]}
<1>1. CASE F # {}
  <2>0. F \in SUBSET SUBSET Bookings
        OBVIOUS
  <2> HIDE DEF F
  <2>1. PICK s \in F : \A t \in F : t \subseteq s => t = s
        BY <1>1, <2>0, LeastSet
  <2> USE DEF F
  <2>2. s # {}
        BY <2>1, SumsEach
  <2> DEFINE x == First(s)
  <2>3. /\ x \in s
        /\ g[s] = Price[x] - d[x] + g[s \ {x}]
        /\ h[s] = Price[x] - d[x] + h[s \ {x}]
        BY <2>1, <2>2, SumsEach
  <2>4. g[s \ {x}] = h[s \ {x}]
        BY <2>1, <2>3
  <2> QED  BY <2>1, <2>3, <2>4
<1>2. CASE F = {}
      BY <1>2
<1> QED  BY <1>1, <1>2

\* What a set of cuts earned is what its first cut did and what the others did.
LEMMA EarnedFirst ==
    ASSUME NEW d, NEW S \in SUBSET Bookings
    PROVE  /\ \E g : Sums(d, S, g)
           /\ Earned(d, {}) = 0
           /\ S # {} => Earned(d, S) = Price[First(S)] - d[First(S)] + Earned(d, S \ {First(S)})
<1>1. ASSUME NEW T \in SUBSET Bookings, NEW g, Sums(d, T, g), NEW s \in SUBSET T,
             \E h : Sums(d, s, h)
      PROVE  Earned(d, s) = g[s]
  <2>1. PICK h : Sums(d, s, h) /\ Earned(d, s) = h[s]
        BY <1>1, FoldSums
  <2> QED  BY <1>1, <2>1, SumsAgree
<1>2. ASSUME NEW T \in SUBSET Bookings, NEW g, Sums(d, T, g)
      PROVE  \A s \in SUBSET T : \E h : Sums(d, s, h)
  <2> TAKE s \in SUBSET T
  <2> DEFINE h == [t \in SUBSET s |-> g[t]]
  <2>1. \A t \in SUBSET s : t \in SUBSET T /\ h[t] = g[t]
                            /\ t \ {CHOOSE x \in t : TRUE} \in SUBSET s
        OBVIOUS
  <2>2. \A t \in SUBSET s :
            g[t] = IF t = {} THEN 0
                   ELSE Price[CHOOSE x \in t : TRUE] - d[CHOOSE x \in t : TRUE]
                        + g[t \ {CHOOSE x \in t : TRUE}]
        BY <1>2, <2>1 DEF Sums
  <2>3. Sums(d, s, h)
        BY <2>1, <2>2 DEF Sums
  <2> QED  BY <2>3
<1> DEFINE F == {T \in SUBSET Bookings : ~ \E g : Sums(d, T, g)}
<1>3. F = {}
  <2> SUFFICES ASSUME F # {}
               PROVE  FALSE
      OBVIOUS
  <2>0. F \in SUBSET SUBSET Bookings
        OBVIOUS
  <2> HIDE DEF F
  <2>1. PICK T \in F : \A t \in F : t \subseteq T => t = T
        BY <2>0, LeastSet
  <2> USE DEF F
  <2>2. \A s \in SUBSET T : s # T => \E g : Sums(d, s, g)
        BY <2>1
  <2> DEFINE g == [s \in SUBSET T |->
                      IF s = {} THEN 0
                      ELSE Price[First(s)] - d[First(s)] + Earned(d, s \ {First(s)})]
  <2>3. \A s \in SUBSET T : s # {} => First(s) \in s
        BY DEF First
  <2>4. ASSUME NEW s \in SUBSET T, s # T
        PROVE  g[s] = Earned(d, s)
    <3>1. PICK h : Sums(d, s, h) /\ Earned(d, s) = h[s]
          BY <2>2, <2>4, FoldSums
    <3>2. CASE s = {}
          BY <3>1, <3>2, SumsEach
    <3>3. CASE s # {}
      <4>1. h[s] = Price[First(s)] - d[First(s)] + h[s \ {First(s)}]
            BY <3>1, <3>3, SumsEach
      <4>2. Earned(d, s \ {First(s)}) = h[s \ {First(s)}]
            BY <1>1, <1>2, <3>1
      <4> QED  BY <3>1, <3>3, <4>1, <4>2
    <3> QED  BY <3>2, <3>3
  <2>5. \A s \in SUBSET T : s # {} => g[s \ {First(s)}] = Earned(d, s \ {First(s)})
        BY <2>3, <2>4
  <2>6. Sums(d, T, g)
    <3>1. g = [s \in SUBSET T |->
                  IF s = {} THEN 0
                  ELSE Price[First(s)] - d[First(s)] + g[s \ {First(s)}]]
          BY <2>5
    <3> HIDE DEF g
    <3> QED  BY <3>1 DEF Sums, First
  <2> QED  BY <2>1, <2>6
<1>4. \A T \in SUBSET Bookings : \E g : Sums(d, T, g)
      BY <1>3
<1>5. PICK g : Sums(d, S, g)
      BY <1>4
<1>6. \A s \in SUBSET S : Earned(d, s) = g[s]
      BY <1>1, <1>4, <1>5
<1>7. S # {} => First(S) \in S /\ g[S] = Price[First(S)] - d[First(S)] + g[S \ {First(S)}]
      BY <1>5, SumsEach
<1>8. g[{}] = 0
      BY <1>5, SumsEach
<1> QED  BY <1>5, <1>6, <1>7, <1>8

\* ... and is an integer where the discounts are.
LEMMA EarnedType ==
    ASSUME NEW d \in Discounts, NEW S \in SUBSET Bookings
    PROVE  Earned(d, S) \in Int
<1> DEFINE F == {T \in SUBSET Bookings : Earned(d, T) \notin Int}
<1>1. F \in SUBSET SUBSET Bookings
      OBVIOUS
<1>2. ASSUME F # {}
      PROVE  FALSE
  <2> HIDE DEF F
  <2>1. PICK T \in F : \A t \in F : t \subseteq T => t = T
        BY <1>1, <1>2, LeastSet
  <2> USE DEF F
  <2>2. T \in SUBSET Bookings /\ Earned(d, T) \notin Int
        BY <2>1
  <2>3. T # {}
    <3>1. Earned(d, {}) = 0 /\ Earned(d, {}) \in Int
          BY EarnedFirst
    <3> HIDE DEF F
    <3> QED  BY <2>2, <3>1
  <2>4. First(T) \in T
        BY <2>3 DEF First
  <2>5. Earned(d, T) = Price[First(T)] - d[First(T)] + Earned(d, T \ {First(T)})
        BY <2>2, <2>3, EarnedFirst
  <2>6. Earned(d, T \ {First(T)}) \in Int
        BY <2>1, <2>4
  <2>7. Price[First(T)] \in Int /\ d[First(T)] \in Int
        BY <2>1, <2>4, TotalsAssumption DEF Discounts
  <2> HIDE DEF F
  <2>8. Earned(d, T) \in Int
        BY <2>5, <2>6, <2>7
  <2> QED  BY <2>1, <2>8 DEF F
<1> QED  BY <1>2

\* What a set of cuts earned is what any one of them did and what the others did.
LEMMA EarnedOne ==
    ASSUME NEW d \in Discounts, NEW S \in SUBSET Bookings, NEW x \in S
    PROVE  Earned(d, S) = Price[x] - d[x] + Earned(d, S \ {x})
<1> DEFINE F == {T \in SUBSET Bookings :
                   ~ \A y \in T : Earned(d, T) = Price[y] - d[y] + Earned(d, T \ {y})}
<1>1. F \in SUBSET SUBSET Bookings
      OBVIOUS
<1>2. ASSUME F # {}
      PROVE  FALSE
  <2> HIDE DEF F
  <2>1. PICK T \in F : \A t \in F : t \subseteq T => t = T
        BY <1>1, <1>2, LeastSet
  <2> USE DEF F
  <2>2. PICK y \in T : Earned(d, T) # Price[y] - d[y] + Earned(d, T \ {y})
        BY <2>1
  <2> DEFINE z == First(T)
  <2>3. z \in T /\ T \in SUBSET Bookings
        BY <2>1, <2>2 DEF First
  <2>4. Earned(d, T) = Price[z] - d[z] + Earned(d, T \ {z})
        BY <2>2, <2>3, EarnedFirst
  <2>5. y # z
        BY <2>2, <2>4
  <2>6. T \ {z} \notin F /\ T \ {y} \notin F
        BY <2>1, <2>2, <2>3
  <2>7. /\ Earned(d, T \ {z}) = Price[y] - d[y] + Earned(d, (T \ {z}) \ {y})
        /\ Earned(d, T \ {y}) = Price[z] - d[z] + Earned(d, (T \ {y}) \ {z})
        BY <2>2, <2>3, <2>5, <2>6
  <2>8. (T \ {z}) \ {y} = (T \ {y}) \ {z}
        OBVIOUS
  <2>9. /\ Earned(d, (T \ {z}) \ {y}) \in Int
        /\ \A k \in {y, z} : Price[k] \in Int /\ d[k] \in Int
        BY <2>2, <2>3, EarnedType, TotalsAssumption DEF Discounts
  <2> DEFINE rest == Earned(d, (T \ {z}) \ {y})
  <2>10. /\ Earned(d, T) = Price[z] - d[z] + (Price[y] - d[y] + rest)
         /\ Price[y] - d[y] + Earned(d, T \ {y})
               = Price[y] - d[y] + (Price[z] - d[z] + rest)
         BY <2>4, <2>7, <2>8
  <2>11. rest \in Int /\ Price[z] \in Int /\ Price[y] \in Int /\ d[z] \in Int /\ d[y] \in Int
         BY <2>9
  <2> HIDE DEF F, z, rest
  <2> QED  BY <2>2, <2>10, <2>11
<1> QED  BY <1>2

\* What a set of cuts earned is what one part did and what the rest did.
LEMMA EarnedSplit ==
    ASSUME NEW d \in Discounts, NEW S \in SUBSET Bookings, NEW A \in SUBSET S
    PROVE  Earned(d, S) = Earned(d, A) + Earned(d, S \ A)
<1> DEFINE F == {T \in SUBSET A : Earned(d, S) # Earned(d, S \ T) + Earned(d, T)}
<1>1. F \in SUBSET SUBSET Bookings
      OBVIOUS
<1>2. ASSUME F # {}
      PROVE  FALSE
  <2> HIDE DEF F
  <2>1. PICK T \in F : \A t \in F : t \subseteq T => t = T
        BY <1>1, <1>2, LeastSet
  <2> USE DEF F
  <2>2. T # {}
    <3>1. Earned(d, {}) = 0 /\ Earned(d, S) \in Int
          BY EarnedFirst, EarnedType
    <3>2. Earned(d, S) = Earned(d, S \ {}) + Earned(d, {})
      <4>1. S \ {} = S
            OBVIOUS
      <4> QED  BY <3>1, <4>1
    <3>3. Earned(d, S) # Earned(d, S \ T) + Earned(d, T)
          BY <2>1
    <3> HIDE DEF F
    <3> QED  BY <3>2, <3>3
  <2>3. PICK y \in T : TRUE
        BY <2>2
  <2>4. T \ {y} \notin F /\ T \subseteq A
        BY <2>1, <2>3
  <2>5. Earned(d, S) = Earned(d, S \ (T \ {y})) + Earned(d, T \ {y})
        BY <2>4
  <2>6. Earned(d, T) = Price[y] - d[y] + Earned(d, T \ {y})
        BY <2>3, <2>4, EarnedOne
  <2>7. /\ S \ (T \ {y}) \in SUBSET Bookings /\ y \in S \ (T \ {y})
        /\ (S \ (T \ {y})) \ {y} = S \ T
        BY <2>3, <2>4
  <2>8. Earned(d, S \ (T \ {y})) = Price[y] - d[y] + Earned(d, S \ T)
        BY <2>7, EarnedOne
  <2>9. /\ Earned(d, S \ T) \in Int /\ Earned(d, T \ {y}) \in Int
        /\ Price[y] \in Int /\ d[y] \in Int
        BY <2>3, <2>4, EarnedType, TotalsAssumption DEF Discounts
  <2>10. Earned(d, S) # Earned(d, S \ T) + Earned(d, T)
        BY <2>1
  <2> HIDE DEF F
  <2> QED  BY <2>5, <2>6, <2>8, <2>9, <2>10
<1>3. A \notin F
      BY <1>2
<1>4. Earned(d, S \ A) \in Int /\ Earned(d, A) \in Int
      BY EarnedType
<1> QED  BY <1>3, <1>4

\* What a set of cuts earned depends on their own discounts only.
LEMMA EarnedSame ==
    ASSUME NEW d, NEW e, NEW S \in SUBSET Bookings, \A k \in S : e[k] = d[k]
    PROVE  Earned(e, S) = Earned(d, S)
<1> DEFINE F == {T \in SUBSET S : Earned(e, T) # Earned(d, T)}
<1>1. F \in SUBSET SUBSET Bookings
      OBVIOUS
<1>2. ASSUME F # {}
      PROVE  FALSE
  <2> HIDE DEF F
  <2>1. PICK T \in F : \A t \in F : t \subseteq T => t = T
        BY <1>1, <1>2, LeastSet
  <2> USE DEF F
  <2>2. T # {} /\ T \in SUBSET Bookings
        BY <2>1, EarnedFirst
  <2>3. First(T) \in T
        BY <2>2 DEF First
  <2>4. /\ Earned(d, T) = Price[First(T)] - d[First(T)] + Earned(d, T \ {First(T)})
        /\ Earned(e, T) = Price[First(T)] - e[First(T)] + Earned(e, T \ {First(T)})
        BY <2>2, EarnedFirst
  <2>5. Earned(e, T \ {First(T)}) = Earned(d, T \ {First(T)})
        BY <2>1, <2>3
  <2>6. e[First(T)] = d[First(T)]
        BY <2>1, <2>3
  <2> QED  BY <2>1, <2>4, <2>5, <2>6
<1> QED  BY <1>2

-----------------------------------------------------------------------------
(* A deletion and the totals                                               *)

Done(u) ==
    {k \in Bookings : \E b \in Barbers : Owner[k] = u /\ k \in Completed(b)}
Cuts(e, ks) == {<<k, e[k]>> : k \in ks}
By(b, ks) == {k \in ks : BarberOf[k] = b}

\* What a request will archive of each barber is a number, and that of a deletion
\* is what the cuts it has read earned, at the discounts it has read.
Summed(r) ==
    /\ \A b \in Barbers : r.sums[b].earnings \in Int
    /\ r.kind \in Erasures =>
           \E e \in Discounts, ks \in SUBSET Bookings :
               /\ r.read = Cuts(e, ks)
               /\ \A b \in Barbers :
                      /\ r.sums[b].cuts = Cardinality(By(b, ks))
                      /\ r.sums[b].earnings = Earned(e, By(b, ks))

SumInv ==
    /\ IInv
    /\ discount \in Discounts
    /\ \A b \in Barbers : archived[b].earnings \in Int
    /\ \A o \in Reqs : op[o] # None => Summed(op[o])

\* The tables, from one step to the next.
LEMMA SumMoves ==
    ASSUME SumInv, IInv', UNCHANGED <<discount, archived>>,
           \A o \in Reqs : op'[o] # None => Summed(op'[o])
    PROVE  SumInv'
BY DEF SumInv

\* A request that replaces its record by one that archives the same, or ends.
LEMMA SumGoesOn ==
    ASSUME SumInv, IInv', UNCHANGED <<discount, archived>>,
           NEW o \in Reqs, op[o] # None, NEW r, op' = [op EXCEPT ![o] = r],
           r # None => /\ r.sums = op[o].sums /\ r.read = op[o].read
                       /\ r.kind \in Erasures => op[o].kind \in Erasures
    PROVE  SumInv'
<1>1. op'[o] = r /\ \A p \in Reqs \ {o} : op'[p] = op[p]
      BY DEF SumInv, IInv, Typed
<1>2. r # None => Summed(r)
      BY DEF SumInv, Summed
<1>3. \A p \in Reqs \ {o} : op[p] # None => Summed(op[p])
      BY DEF SumInv
<1> QED  BY <1>1, <1>2, <1>3, SumMoves

\* A handler starts.
LEMMA SumStarts ==
    ASSUME SumInv, IInv', UNCHANGED <<discount, archived>>,
           NEW o \in Reqs, NEW x, Start(o, x), Request(x), Summed(x)
    PROVE  SumInv'
<1> DEFINE others == {p \in Reqs : op[p] # None}
<1>1. op' = [p \in Reqs |->
                 IF p = o THEN [x EXCEPT !.alone = others = {}]
                 ELSE IF p \in others THEN [op[p] EXCEPT !.alone = FALSE] ELSE None]
      BY DEF Start
<1>2. ASSUME NEW r, NEW a, Request(r), Summed(r)
      PROVE  Summed([r EXCEPT !.alone = a])
  <2> DEFINE q == [r EXCEPT !.alone = a]
  <2>1. q.kind = r.kind /\ q.sums = r.sums /\ q.read = r.read
        BY <1>2 DEF Request
  <2> HIDE DEF q
  <2>2. Summed(q)
        BY <1>2, <2>1 DEF Summed
  <2> QED  BY <2>2 DEF q
<1>3. Summed(op'[o])
      BY <1>1, <1>2
<1>4. ASSUME NEW p \in Reqs \ {o}, op'[p] # None
      PROVE  Summed(op'[p])
  <2>1. op[p] # None /\ op'[p] = [op[p] EXCEPT !.alone = FALSE]
        BY <1>1, <1>4
  <2>2. Request(op[p]) /\ Summed(op[p])
        BY <2>1 DEF SumInv, IInv, Typed
  <2>3. Summed([op[p] EXCEPT !.alone = FALSE])
        BY <1>2, <2>2
  <2> QED  BY <2>1, <2>3
<1> QED  BY <1>3, <1>4, SumMoves

\* A request of reviews archives nothing.
LEMMA NothingSummed ==
    ASSUME NEW r, r.kind \notin Erasures, r.sums = Blank.sums
    PROVE  Summed(r)
<1>1. \A b \in Barbers : Blank.sums[b].earnings = 0
      BY DEF Blank
<1> QED  BY <1>1 DEF Summed

LEMMA SumReads ==
    ASSUME SumInv, IInv', NEW o \in Reqs,
           \/ \E u \in Users, s \in Shops, r \in Ratings : ReviewRead(o, u, s, r)
           \/ \E y \in Keys : ModerateRead(o, y)
           \/ \E u \in Users : EraseReadCuts(o, u)
    PROVE  SumInv'
<1>1. ASSUME NEW u \in Users, NEW s \in Shops, NEW r, ReviewRead(o, u, s, r)
      PROVE  SumInv'
  <2> DEFINE x == [Blank EXCEPT !.kind = "put", !.user = u, !.shops = {s}, !.rating = r]
  <2>1. x.kind = "put" /\ Request(x) /\ x.sums = Blank.sums
        BY DEF Blank, Request, Erasures, Writing
  <2>2. Start(o, x) /\ UNCHANGED <<discount, archived>>
        BY <1>1 DEF ReviewRead
  <2> HIDE DEF x
  <2>3. Summed(x)
        BY <2>1, NothingSummed DEF Erasures
  <2> QED  BY <2>1, <2>2, <2>3, SumStarts
<1>2. ASSUME NEW y \in Keys, ModerateRead(o, y)
      PROVE  SumInv'
  <2> DEFINE x == [Blank EXCEPT !.kind = "remove", !.user = y[1], !.shops = {y[2]}]
  <2>1. x.kind = "remove" /\ Request(x) /\ x.sums = Blank.sums
        BY DEF Blank, Request, Erasures, Writing, Keys
  <2>2. Start(o, x) /\ UNCHANGED <<discount, archived>>
        BY <1>2 DEF ModerateRead
  <2> HIDE DEF x
  <2>3. Summed(x)
        BY <2>1, NothingSummed DEF Erasures
  <2> QED  BY <2>1, <2>2, <2>3, SumStarts
<1>3. ASSUME NEW u \in Users, EraseReadCuts(o, u)
      PROVE  SumInv'
  <2> DEFINE sums == [b \in Barbers |-> ToArchive({k \in Completed(b) : Owner[k] = u})]
             x == [Blank EXCEPT !.kind = "eraseCuts", !.user = u, !.sums = sums,
                                !.read = CompletedOf(u)]
  <2>1. Start(o, x) /\ UNCHANGED <<discount, archived>>
        BY <1>3 DEF EraseReadCuts
  <2>2. ASSUME NEW b \in Barbers
        PROVE  /\ sums[b].cuts = Cardinality(By(b, Done(u)))
               /\ sums[b].earnings = Earned(discount, By(b, Done(u)))
    <3>1. {k \in Completed(b) : Owner[k] = u} = By(b, Done(u))
          BY DEF By, Done, Completed
    <3>2. sums[b] = ToArchive(By(b, Done(u)))
          BY <3>1
    <3> QED  BY <3>2 DEF ToArchive
  <2> HIDE DEF sums
  <2>3. x.sums = sums /\ x.read = CompletedOf(u) /\ Request(x)
        BY DEF Blank, Request, Erasures, Writing
  <2> HIDE DEF x
  <2>4. CompletedOf(u) = Cuts(discount, Done(u)) /\ Done(u) \in SUBSET Bookings
        BY DEF CompletedOf, Cuts, Done
  <2>5. discount \in Discounts
        BY DEF SumInv
  <2>6. \A b \in Barbers : Earned(discount, By(b, Done(u))) \in Int
    <3>1. \A b \in Barbers : By(b, Done(u)) \in SUBSET Bookings
          BY <2>4 DEF By
    <3> QED  BY <2>5, <3>1, EarnedType
  <2>7. Summed(x)
        BY <2>2, <2>3, <2>4, <2>5, <2>6 DEF Summed
  <2> QED  BY <2>1, <2>3, <2>7, SumStarts
<1> QED  BY <1>1, <1>2, <1>3

LEMMA SumCounts ==
    ASSUME SumInv, IInv', NEW o \in Reqs, NEW s \in Shops, Count(o, s)
    PROVE  SumInv'
<1> DEFINE a == Aggregate(Seen(o), s)
           r == [op[o] EXCEPT !.counted[s] = a]
<1>1. op[o] # None /\ Request(op[o]) /\ UNCHANGED <<discount, archived>>
      BY DEF Count, InTx, SumInv, IInv, Typed
<1>2. op' = [op EXCEPT ![o] = r]
      BY DEF Count
<1> HIDE DEF a
<1>3. r.sums = op[o].sums /\ r.read = op[o].read /\ r.kind = op[o].kind
      BY <1>1 DEF Request
<1> HIDE DEF r
<1> QED  BY <1>1, <1>2, <1>3, SumGoesOn

LEMMA SumWrites ==
    ASSUME SumInv, IInv', NEW o \in Reqs,
           Upsert(o) \/ Remove(o) \/ EraseReadShops(o) \/ EraseWrite(o) \/ LoseOp(o)
    PROVE  SumInv'
<1>1. op[o] # None /\ Request(op[o]) /\ UNCHANGED <<discount, archived>>
      BY DEF Upsert, Remove, EraseReadShops, EraseWrite, LoseOp, Running, SumInv, IInv, Typed
<1>2. CASE Close(o)
      BY <1>1, <1>2, SumGoesOn DEF Close
<1>3. ASSUME NEW kind, op' = [op EXCEPT ![o].kind = kind],
             kind \in Erasures => op[o].kind \in Erasures
      PROVE  SumInv'
  <2> DEFINE r == [op[o] EXCEPT !.kind = kind]
  <2>1. op' = [op EXCEPT ![o] = r]
        BY <1>3
  <2>2. r.sums = op[o].sums /\ r.read = op[o].read /\ r.kind = kind
        BY <1>1 DEF Request
  <2> HIDE DEF r
  <2> QED  BY <1>1, <1>3, <2>1, <2>2, SumGoesOn
<1>4. CASE Upsert(o) /\ ~Close(o)
      BY <1>3, <1>4 DEF Upsert, Erasures
<1>5. CASE Remove(o) /\ ~Close(o)
      BY <1>3, <1>5 DEF Remove, Erasures
<1>6. CASE EraseWrite(o) /\ ~Close(o)
      BY <1>3, <1>6 DEF EraseWrite, Running, Erasures
<1>7. CASE EraseReadShops(o)
  <2> DEFINE shops == {s \in Shops : review[<<op[o].user, s>>] # None}
             r == [op[o] EXCEPT !.kind = "erase", !.shops = shops]
  <2>1. op' = [op EXCEPT ![o] = r]
        BY <1>7 DEF EraseReadShops
  <2> HIDE DEF shops
  <2>2. r.sums = op[o].sums /\ r.read = op[o].read
        BY <1>1 DEF Request
  <2>3. op[o].kind \in Erasures
        BY <1>7 DEF EraseReadShops, Running, Erasures
  <2> HIDE DEF r
  <2> QED  BY <1>1, <2>1, <2>2, <2>3, SumGoesOn
<1>8. CASE LoseOp(o)
      BY <1>2, <1>8 DEF LoseOp
<1> QED  BY <1>2, <1>4, <1>5, <1>6, <1>7, <1>8

LEMMA SumCommits ==
    ASSUME SumInv, IInv', NEW o \in Reqs, Commit(o)
    PROVE  SumInv'
<1>1. op[o] # None /\ op' = [op EXCEPT ![o] = None] /\ discount' = discount
      BY DEF Commit, InTx, Close
<1>2. \A p \in Reqs : op'[p] # None => op'[p] = op[p]
      BY <1>1 DEF SumInv, IInv, Typed
<1>3. \A p \in Reqs : op'[p] # None => Summed(op'[p])
  <2> SUFFICES ASSUME NEW p \in Reqs, op'[p] # None
               PROVE  Summed(op'[p])
      OBVIOUS
  <2>1. op'[p] = op[p]
        BY <1>2
  <2>2. Summed(op[p])
        BY <2>1 DEF SumInv
  <2> QED  BY <2>1, <2>2
<1>4. ASSUME NEW b \in Barbers
      PROVE  archived'[b].earnings \in Int
  <2>1. archived'[b].earnings = archived[b].earnings + op[o].sums[b].earnings
        BY DEF Commit, Plus
  <2>2. archived[b].earnings \in Int /\ op[o].sums[b].earnings \in Int
        BY <1>1 DEF SumInv, Summed
  <2> QED  BY <2>1, <2>2
<1> QED  BY <1>1, <1>3, <1>4 DEF SumInv

LEMMA SumStep ==
    ASSUME SumInv, [Next]_vars
    PROVE  SumInv'
<1>1. IInv'
      BY InvStep DEF SumInv
<1>2. ASSUME UNCHANGED <<op, discount, archived>>
      PROVE  SumInv'
      BY <1>1, <1>2, SumMoves DEF SumInv
<1>3. ASSUME NEW k \in Bookings, AdminCancel(k)
      PROVE  SumInv'
      BY <1>2, <1>3 DEF AdminCancel
<1>4. ASSUME NEW k \in Bookings, StampDiscount(k)
      PROVE  SumInv'
  <2>1. UNCHANGED <<op, archived>> /\ discount' = [discount EXCEPT ![k] = Deal]
        BY <1>4 DEF StampDiscount
  <2>2. discount' \in Discounts
        BY <2>1, TotalsAssumption DEF SumInv, Discounts
  <2> QED  BY <1>1, <2>1, <2>2 DEF SumInv
<1>5. CASE Tick \/ UNCHANGED vars
      BY <1>2, <1>5 DEF Tick, vars
<1>6. ASSUME NEW o \in Reqs, Handle(o)
      PROVE  SumInv'
      BY <1>1, <1>6, SumReads, SumWrites, SumCounts, SumCommits DEF Handle
<1> QED  BY <1>3, <1>4, <1>5, <1>6 DEF Next

LEMMA SumInit ==
    ASSUME Init
    PROVE  SumInv
<1>1. discount \in Discounts
      BY TotalsAssumption DEF Init, Discounts
<1>2. \A b \in Barbers : archived[b].earnings \in Int
      BY DEF Init
<1>3. \A o \in Reqs : op[o] = None
      BY DEF Init
<1> QED  BY <1>1, <1>2, <1>3, InvInit DEF SumInv

\* A deletion moves the customer's cuts, at their discounts, from what a barber's
\* completed bookings sum to, to the archive.
LEMMA ErasureStep ==
    ASSUME SumInv, [Next]_vars, NEW o \in Reqs, Committing(o, "erasing"),
           op[o].read = CompletedOf(op[o].user), NEW b \in Barbers
    PROVE  Stats(b)' = Stats(b)
<1> DEFINE u == op[o].user
           mine == By(b, Done(u))
           all == Completed(b)
<1>1. /\ op[o] # None /\ op[o].kind = "erasing" /\ op'[o] = None
      /\ <<review, accounts, rating>>' # <<review, accounts, rating>>
      BY DEF Committing, Running
<1>2. PICK p \in Reqs : Commit(p)
      BY <1>1 DEF Next, Handle, ReviewRead, ModerateRead, EraseReadCuts, EraseReadShops,
                  Upsert, Remove, EraseWrite, Count, LoseOp, AdminCancel, StampDiscount,
                  Tick, vars
<1>3. p = o
  <2>1. op' = [op EXCEPT ![p] = None]
        BY <1>2 DEF Commit, Close
  <2> QED  BY <1>1, <2>1 DEF SumInv, IInv, Typed
<1>4. /\ now' = now /\ discount' = discount
      /\ archived' = [c \in Barbers |-> Plus(archived[c], op[o].sums[c])]
      /\ status' = [k \in Bookings |-> IF Owner[k] = u THEN "deleted" ELSE status[k]]
      BY <1>1, <1>2, <1>3 DEF Commit
<1>5. PICK e \in Discounts, ks \in SUBSET Bookings :
          /\ op[o].read = Cuts(e, ks)
          /\ op[o].sums[b].cuts = Cardinality(By(b, ks))
          /\ op[o].sums[b].earnings = Earned(e, By(b, ks))
      BY <1>1 DEF SumInv, Summed, Erasures
<1>6. ks = Done(u) /\ \A k \in ks : e[k] = discount[k]
  <2>1. Cuts(e, ks) = Cuts(discount, Done(u))
        BY <1>5 DEF CompletedOf, Cuts, Done
  <2>2. ASSUME NEW k \in ks
        PROVE  k \in Done(u) /\ e[k] = discount[k]
    <3>1. <<k, e[k]>> \in Cuts(discount, Done(u))
          BY <2>1 DEF Cuts
    <3> QED  BY <3>1 DEF Cuts
  <2>3. ASSUME NEW k \in Done(u)
        PROVE  k \in ks
    <3>1. <<k, discount[k]>> \in Cuts(e, ks)
          BY <2>1 DEF Cuts
    <3> QED  BY <3>1 DEF Cuts
  <2> QED  BY <2>2, <2>3
<1>7. mine \subseteq all /\ all \subseteq Bookings /\ all' = all \ mine
  <2>1. mine = {k \in Bookings : k \in all /\ Owner[k] = u}
        BY DEF By, Done, Completed
  <2>2. all' = {k \in all : Owner[k] # u}
        BY <1>4 DEF Completed
  <2> QED  BY <2>1, <2>2 DEF Completed
<1>8. discount \in Discounts
      BY DEF SumInv
<1>9. op[o].sums[b].cuts = Cardinality(mine) /\ op[o].sums[b].earnings = Earned(discount, mine)
  <2>1. \A k \in mine : e[k] = discount[k]
        BY <1>6 DEF By
  <2>2. Earned(e, mine) = Earned(discount, mine)
        BY <1>7, <2>1, EarnedSame
  <2> QED  BY <1>5, <1>6, <2>2
<1>10. Earned(discount, all) = Earned(discount, mine) + Earned(discount, all \ mine)
       BY <1>7, <1>8, EarnedSplit
<1>11. Cardinality(all) = Cardinality(mine) + Cardinality(all \ mine)
  <2>1. IsFiniteSet(all) /\ IsFiniteSet(mine)
        BY <1>7, FS_Subset, TotalsAssumption
  <2>2. all \cap mine = mine
        BY <1>7
  <2>3. Cardinality(all \ mine) = Cardinality(all) - Cardinality(mine)
        BY <2>1, <2>2, FS_Difference
  <2>4. Cardinality(all) \in Nat /\ Cardinality(mine) \in Nat
        BY <2>1, FS_CardinalityType
  <2> QED  BY <2>3, <2>4
<1>12. /\ Earned(discount, mine) \in Int /\ Earned(discount, all \ mine) \in Int
       /\ Cardinality(mine) \in Int /\ Cardinality(all \ mine) \in Int
       /\ archived[b].cuts \in Int /\ archived[b].earnings \in Int
  <2>1. IsFiniteSet(mine) /\ IsFiniteSet(all \ mine)
        BY <1>7, FS_Subset, TotalsAssumption
  <2>2. Cardinality(mine) \in Nat /\ Cardinality(all \ mine) \in Nat
        BY <2>1, FS_CardinalityType
  <2>3. Earned(discount, mine) \in Int /\ Earned(discount, all \ mine) \in Int
        BY <1>7, <1>8, EarnedType
  <2> QED  BY <2>2, <2>3 DEF SumInv, IInv, Typed
<1>13. archived'[b] = [cuts |-> archived[b].cuts + Cardinality(mine),
                       earnings |-> archived[b].earnings + Earned(discount, mine)]
       BY <1>4, <1>9 DEF Plus
<1>14. Stats(b) = [cuts |-> Cardinality(all) + archived[b].cuts,
                   earnings |-> Earned(discount, all) + archived[b].earnings]
       BY DEF Stats, SumOf, Plus
<1>15. Stats(b)' = [cuts |-> Cardinality(all') + archived'[b].cuts,
                    earnings |-> Earned(discount', all') + archived'[b].earnings]
       BY DEF Stats, SumOf, Plus
<1>16. /\ Cardinality(all') = Cardinality(all \ mine)
       /\ Earned(discount', all') = Earned(discount, all \ mine)
       BY <1>4, <1>7
<1> HIDE DEF u, mine, all
<1>17. /\ Cardinality(all') + archived'[b].cuts = Cardinality(all) + archived[b].cuts
       /\ Earned(discount', all') + archived'[b].earnings
              = Earned(discount, all) + archived[b].earnings
       BY <1>10, <1>11, <1>12, <1>13, <1>16
<1> QED  BY <1>14, <1>15, <1>17

\* "A deletion no longer rewrites this barber's lifetime totals": a deletion that
\* summed what is still there when it commits leaves the cuts and the earnings of
\* every barber as they were, whatever else has run meanwhile.
THEOREM ErasuresKeepTotals == Spec => ErasureKeepsTotals
<1>1. Init => SumInv
      BY SumInit
<1>2. SumInv /\ [Next]_vars => SumInv'
      BY SumStep
<1>3. SumInv /\ [Next]_vars =>
          [\A o \in Reqs :
              /\ Committing(o, "erasing")
              /\ op[o].read = CompletedOf(op[o].user)
              => \A b \in Barbers : Stats(b)' = Stats(b)]_vars
      BY ErasureStep
<1> QED  BY <1>1, <1>2, <1>3, PTL DEF Spec, ErasureKeepsTotals

=============================================================================

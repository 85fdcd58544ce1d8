--------------------------- MODULE ReferralProofs ---------------------------
(***************************************************************************)
(* Proofs about Referral, for any number of bookings, shops and concurrent *)
(* handlers.                                                               *)
(***************************************************************************)
EXTENDS Referral, TLAPS

-----------------------------------------------------------------------------
(* Types                                                                   *)

\* A join or a scan in flight knows an existing pair; an invitation in flight
\* promises a real discount.
OpInv ==
    \A o \in Ops : op[o] # None =>
        /\ op[o].kind \in {"join", "scan"} => op[o].code \in Pairs
        /\ op[o].kind = "invite" => op[o].amount > 0

\* A pair that waits for scans or is complete has a friend, and promises a real
\* discount.
PairInv ==
    \A p \in Pairs :
        /\ pair[p].status \in {"PENDING", "CONFIRMED"} => pair[p].invitee \in Bookings
        /\ pair[p].amount > 0

TypeInv == TypeOK /\ OpInv /\ PairInv

\* The first state has the right types.
LEMMA TypeInit == Init => TypeInv
BY NoneAssumption, PeriodsAssumption, BookingsAssumption
   DEF Init, TypeInv, TypeOK, OpInv, PairInv, Pairs, Never

\* A completed or void pair, and the friend and amount of any pair, stay.
Forward(old, new) ==
    \A p \in Bookings : old[p] # None =>
        /\ new[p] # None
        /\ new[p].amount = old[p].amount
        /\ old[p].invitee # None => new[p].invitee = old[p].invitee
        /\ old[p].status \in {"CONFIRMED", "VOID"} =>
              new[p].status = old[p].status /\ new[p].scannedAt = old[p].scannedAt

ScanSide(o) == IF op[o].code = op[o].r THEN "inviter" ELSE "invitee"
OtherSide(o) == IF op[o].code = op[o].r THEN "invitee" ELSE "inviter"

\* What ScanWrite makes of a pending pair, spelled out.
LEMMA ScanStamps ==
    ASSUME TypeInv, NEW o \in Ops, ScanWrite(o), pair[op[o].code].status = "PENDING"
    PROVE  LET p == op[o].code
               theirs == pair[p].scannedAt[OtherSide(o)]
               mine == EffectiveMine(pair[p].scannedAt[ScanSide(o)], theirs, op[o].at)
           IN /\ p \in Pairs /\ pair[p] \in Pair /\ op[o] \in Op
              /\ mine \in Int /\ mine # Never /\ theirs \in Int
              /\ \A b \in Bookings : b # p => pair'[b] = pair[b]
              /\ pair'[p] \in Pair
              /\ pair'[p].invitee = pair[p].invitee /\ pair'[p].amount = pair[p].amount
              /\ pair'[p].status = IF Complete(mine, theirs) THEN "CONFIRMED" ELSE "PENDING"
              /\ pair'[p].scannedAt[ScanSide(o)] = mine
              /\ pair'[p].scannedAt[OtherSide(o)] = theirs
              /\ discount' = IF Complete(mine, theirs)
                             THEN [b \in Bookings |-> IF b \in Stamped(p, op[o].r)
                                                      THEN pair[p].amount ELSE discount[b]]
                             ELSE discount
<1> USE NoneAssumption
<1> DEFINE p == op[o].code
           theirs == pair[p].scannedAt[OtherSide(o)]
           mine == EffectiveMine(pair[p].scannedAt[ScanSide(o)], theirs, op[o].at)
<1>1. op[o] \in Op /\ p \in Pairs /\ p \in Bookings /\ pair[p] \in Pair
  BY DEF TypeInv, TypeOK, OpInv, ScanWrite, Running, Pairs
<1>2. ScanSide(o) \in Sides /\ OtherSide(o) \in Sides /\ ScanSide(o) # OtherSide(o)
  BY DEF ScanSide, OtherSide, Sides
<1>3. /\ pair[p].scannedAt \in [Sides -> Int]
      /\ pair[p].scannedAt[ScanSide(o)] \in Int /\ theirs \in Int /\ op[o].at \in Nat
  BY <1>1, <1>2 DEF Pair, Op
<1>4. mine \in Int /\ mine # Never
  BY <1>3 DEF EffectiveMine, Never
<1> HIDE DEF mine
<1>5. pair' = [pair EXCEPT ![p].scannedAt[ScanSide(o)] = mine,
                           ![p].status = IF Complete(mine, theirs) THEN "CONFIRMED" ELSE @]
  BY DEF ScanWrite, ScanSide, OtherSide, mine
<1>6. /\ \A b \in Bookings : b # p => pair'[b] = pair[b]
      /\ pair'[p] = [pair[p] EXCEPT !.scannedAt = [@ EXCEPT ![ScanSide(o)] = mine],
                          !.status = IF Complete(mine, theirs) THEN "CONFIRMED" ELSE @]
  BY <1>1, <1>5 DEF TypeInv, TypeOK, Pair
<1>7. discount' = IF Complete(mine, theirs)
                  THEN [b \in Bookings |-> IF b \in Stamped(p, op[o].r)
                                           THEN pair[p].amount ELSE discount[b]]
                  ELSE discount
  BY DEF ScanWrite, ScanSide, OtherSide, mine
<1>8. [pair[p].scannedAt EXCEPT ![ScanSide(o)] = mine] \in [Sides -> Int]
  BY <1>3, <1>4
<1>9. pair'[p] \in Pair
  BY <1>1, <1>6, <1>8 DEF Pair
<1>10. /\ pair'[p].invitee = pair[p].invitee /\ pair'[p].amount = pair[p].amount
       /\ pair'[p].status = IF Complete(mine, theirs) THEN "CONFIRMED" ELSE "PENDING"
       /\ pair'[p].scannedAt = [pair[p].scannedAt EXCEPT ![ScanSide(o)] = mine]
  BY <1>1, <1>6 DEF Pair
<1>11. /\ pair'[p].scannedAt[ScanSide(o)] = mine
       /\ pair'[p].scannedAt[OtherSide(o)] = theirs
  BY <1>2, <1>3, <1>10
<1> QED BY <1>1, <1>3, <1>4, <1>6, <1>7, <1>9, <1>10, <1>11 DEF mine

\* Every action keeps the types, and no pair goes backwards.
LEMMA TypeNext == TypeInv /\ [Next]_vars => TypeInv' /\ Forward(pair, pair')
<1> SUFFICES ASSUME TypeInv, [Next]_vars PROVE TypeInv' /\ Forward(pair, pair')
  OBVIOUS
<1> USE NoneAssumption, PeriodsAssumption
<1>t. /\ now \in Nat /\ pair \in [Bookings -> Pair \cup {None}]
      /\ op \in [Ops -> Op \cup {None}] /\ discount \in [Bookings -> Nat]
  BY DEF TypeInv, TypeOK
<1>1. ASSUME pair' = pair, op' = op, TypeOK' PROVE TypeInv' /\ Forward(pair, pair')
  BY <1>1 DEF TypeInv, OpInv, PairInv, Pairs, Forward
<1>2. ASSUME NEW o \in Ops, Start(o, "invite", op'[o].r, None, op'[o].amount)
                             \/ Start(o, "scan", op'[o].r, op'[o].code, 0)
                             \/ Start(o, "join", op'[o].r, op'[o].code, 0)
                             \/ Start(o, "void", op'[o].r, None, 0),
             op'[o] \in Op,
             op'[o].kind \in {"join", "scan"} => op'[o].code \in Pairs,
             op'[o].kind = "invite" => op'[o].amount > 0,
             holding' \subseteq Bookings,
             UNCHANGED <<now, discount, deal, pair, qr>>
      PROVE  TypeInv' /\ Forward(pair, pair')
  <2>1. op' \in [Ops -> Op \cup {None}] /\ \A x \in Ops : x # o => op'[x] = op[x]
    BY <1>t, <1>2 DEF Start
  <2>2. TypeOK'
    BY <1>2, <2>1 DEF TypeInv, TypeOK
  <2>3. OpInv'
    BY <1>2, <2>1 DEF TypeInv, OpInv, Pairs
  <2>4. PairInv' /\ Forward(pair, pair')
    BY <1>2 DEF TypeInv, PairInv, Pairs, Forward
  <2> QED BY <2>2, <2>3, <2>4 DEF TypeInv
<1>3. ASSUME NEW o \in Ops, Close(o), UNCHANGED <<now, holding, deal, qr>>,
             pair' \in [Bookings -> Pair \cup {None}], discount' \in [Bookings -> Nat],
             PairInv', Forward(pair, pair')
      PROVE  TypeInv' /\ Forward(pair, pair')
  <2>1. op' \in [Ops -> Op \cup {None}] /\ \A x \in Ops : op'[x] # None => op'[x] = op[x]
    BY <1>t, <1>3 DEF Close
  <2>2. TypeOK'
    BY <1>3, <2>1 DEF TypeInv, TypeOK
  <2>3. \A p \in Pairs : p \in Pairs'
    BY <1>3 DEF Pairs, Forward
  <2>4. OpInv'
    BY <2>1, <2>3 DEF TypeInv, OpInv
  <2> QED BY <1>3, <2>2, <2>4 DEF TypeInv
<1>4. PairInv /\ Forward(pair, pair)
  BY DEF TypeInv, Forward
<1>5. ASSUME NEW o \in Ops, NEW r \in Bookings, InviteRead(o, r)
      PROVE  TypeInv' /\ Forward(pair, pair')
  <2>1. deal[ShopAt[r]] \in Nat /\ deal[ShopAt[r]] > 0
    BY <1>5, BookingsAssumption DEF InviteRead, TypeInv, TypeOK
  <2>2. op'[o] = [kind |-> "invite", r |-> r, code |-> None, amount |-> deal[ShopAt[r]], at |-> now]
    BY <1>t, <1>5 DEF InviteRead, Start
  <2>3. op'[o] \in Op
    BY <1>t, <2>1, <2>2 DEF Op
  <2>4. holding' \subseteq Bookings
    BY <1>5 DEF InviteRead, TypeInv, TypeOK
  <2> QED BY <1>2, <1>5, <2>1, <2>2, <2>3, <2>4 DEF InviteRead
<1>6. ASSUME NEW o \in Ops, NEW r \in Bookings, NEW p \in Bookings, JoinRead(o, r, p)
      PROVE  TypeInv' /\ Forward(pair, pair')
  <2>1. op'[o] = [kind |-> "join", r |-> r, code |-> p, amount |-> 0, at |-> now]
    BY <1>t, <1>6 DEF JoinRead, Start
  <2>2. op'[o] \in Op /\ p \in Pairs
    BY <1>t, <1>6, <2>1 DEF Op, JoinRead
  <2>3. holding' \subseteq Bookings
    BY <1>6 DEF JoinRead, TypeInv, TypeOK
  <2> QED BY <1>2, <1>6, <2>1, <2>2, <2>3 DEF JoinRead
<1>7. ASSUME NEW o \in Ops, NEW r \in Bookings, ScanRead(o, r)
      PROVE  TypeInv' /\ Forward(pair, pair')
  <2>1. PICK p \in PairOf(r) : Start(o, "scan", r, p, 0)
    BY <1>7 DEF ScanRead
  <2>2. p \in Pairs /\ p \in Bookings
    BY DEF PairOf, InviteeOf, Pairs
  <2>3. op'[o] = [kind |-> "scan", r |-> r, code |-> p, amount |-> 0, at |-> now]
    BY <1>t, <2>1 DEF Start
  <2>4. op'[o] \in Op
    BY <1>t, <2>2, <2>3 DEF Op
  <2>5. holding' \subseteq Bookings /\ UNCHANGED <<now, discount, deal, pair, qr>>
    BY <1>7 DEF ScanRead, TypeInv, TypeOK
  <2> QED BY <1>2, <2>1, <2>2, <2>3, <2>4, <2>5
<1>8. ASSUME NEW o \in Ops, NEW r \in Bookings, NEW rows \in {{r}, GroupOf[r]},
             EndBooking(o, r, rows)
      PROVE  TypeInv' /\ Forward(pair, pair')
  <2>1. op'[o] = [kind |-> "void", r |-> r, code |-> None, amount |-> 0, at |-> now]
    BY <1>t, <1>8 DEF EndBooking, Start
  <2>2. op'[o] \in Op
    BY <1>t, <2>1 DEF Op
  <2>3. holding' \subseteq Bookings
    BY <1>8 DEF EndBooking, TypeInv, TypeOK
  <2> QED BY <1>2, <1>8, <2>1, <2>2, <2>3 DEF EndBooking
<1>9. ASSUME NEW o \in Ops, InviteWrite(o) PROVE TypeInv' /\ Forward(pair, pair')
  <2>1. op[o] \in Op /\ op[o].r \in Bookings /\ op[o].amount \in Nat /\ op[o].amount > 0
    BY <1>9 DEF InviteWrite, Running, TypeInv, TypeOK, OpInv, Op
  <2> DEFINE r == op[o].r
             new == [invitee |-> None, amount |-> op[o].amount, expiresAt |-> now + CodeTTL,
                     status |-> "OPEN", scannedAt |-> [side \in Sides |-> Never]]
  <2>2. new \in Pair /\ new.amount > 0 /\ new.status = "OPEN"
    BY <1>t, <2>1 DEF Pair, Never
  <2>3. pair' = IF pair[r] # None THEN pair ELSE [pair EXCEPT ![r] = new]
    BY <1>9 DEF InviteWrite
  <2> HIDE DEF new
  <2>4. pair' \in [Bookings -> Pair \cup {None}]
    BY <1>t, <2>2, <2>3
  <2>5. PairInv'
    BY <1>t, <1>4, <2>1, <2>2, <2>3 DEF PairInv, Pairs
  <2>6. Forward(pair, pair')
    BY <1>t, <2>1, <2>3 DEF Forward
  <2> QED BY <1>3, <1>t, <1>9, <2>4, <2>5, <2>6 DEF InviteWrite
<1>10. ASSUME NEW o \in Ops, JoinWrite(o) PROVE TypeInv' /\ Forward(pair, pair')
  <2>1. op[o] \in Op /\ op[o].r \in Bookings /\ op[o].code \in Bookings
    BY <1>10 DEF JoinWrite, Running, TypeInv, TypeOK, OpInv, Op, Pairs
  <2> DEFINE r == op[o].r
             p == op[o].code
  <2>2. CASE ~Claimable(p, r)
    BY <1>3, <1>4, <1>t, <1>10, <2>2 DEF JoinWrite, PairInv, Pairs
  <2>3. CASE Claimable(p, r)
    <3>1. pair[p] \in Pair /\ pair[p].status = "OPEN" /\ pair[p].invitee = None
      BY <1>t, <2>1, <2>3 DEF Claimable
    <3>2. pair' = [pair EXCEPT ![p].invitee = r, ![p].status = "PENDING"]
      BY <1>10, <2>3 DEF JoinWrite
    <3>3. /\ \A b \in Bookings : b # p => pair'[b] = pair[b]
          /\ pair'[p] = [pair[p] EXCEPT !.invitee = r, !.status = "PENDING"]
      BY <1>t, <2>1, <3>1, <3>2 DEF Pair
    <3>4. /\ pair'[p] \in Pair /\ pair'[p].invitee = r /\ pair'[p].status = "PENDING"
          /\ pair'[p].amount = pair[p].amount /\ pair'[p].scannedAt = pair[p].scannedAt
      BY <2>1, <3>1, <3>3 DEF Pair
    <3>5. pair' \in [Bookings -> Pair \cup {None}]
      BY <1>t, <3>2, <3>3, <3>4
    <3>6. PairInv'
      BY <1>4, <2>1, <3>1, <3>3, <3>4 DEF PairInv, Pairs
    <3>7. Forward(pair, pair')
      BY <2>1, <3>1, <3>3, <3>4 DEF Forward
    <3> QED BY <1>3, <1>t, <1>10, <3>5, <3>6, <3>7 DEF JoinWrite
  <2> QED BY <2>2, <2>3
<1>11. ASSUME NEW o \in Ops, ScanWrite(o) PROVE TypeInv' /\ Forward(pair, pair')
  <2>1. Close(o) /\ UNCHANGED <<now, holding, deal, qr>>
    BY <1>11 DEF ScanWrite
  <2>2. CASE pair[op[o].code].status # "PENDING"
    <3>1. pair' = pair /\ discount' = discount
      BY <1>11, <2>2 DEF ScanWrite
    <3>2. PairInv'
      BY <1>4, <3>1 DEF PairInv, Pairs
    <3> QED BY <1>3, <1>4, <1>t, <2>1, <3>1, <3>2
  <2>3. CASE pair[op[o].code].status = "PENDING"
    <3> DEFINE p == op[o].code
               theirs == pair[p].scannedAt[OtherSide(o)]
               mine == EffectiveMine(pair[p].scannedAt[ScanSide(o)], theirs, op[o].at)
               done == Complete(mine, theirs)
    <3>1. /\ p \in Pairs /\ p \in Bookings /\ pair[p] \in Pair
          /\ \A b \in Bookings : b # p => pair'[b] = pair[b]
          /\ pair'[p] \in Pair
          /\ pair'[p].invitee = pair[p].invitee /\ pair'[p].amount = pair[p].amount
          /\ discount' = IF done
                         THEN [b \in Bookings |-> IF b \in Stamped(p, op[o].r)
                                                  THEN pair[p].amount ELSE discount[b]]
                         ELSE discount
      BY <1>11, <2>3, ScanStamps DEF Pairs
    <3>2. DOMAIN pair' = Bookings /\ pair' = [b \in Bookings |-> pair'[b]]
      BY <1>t, <1>11, <2>3 DEF ScanWrite
    <3> HIDE DEF done
    <3>3. pair' \in [Bookings -> Pair \cup {None}]
      BY <1>t, <3>1, <3>2
    <3>4. discount' \in [Bookings -> Nat]
      BY <1>t, <3>1 DEF Pair
    <3>5. PairInv'
      BY <1>4, <2>3, <3>1 DEF PairInv, Pairs
    <3>6. Forward(pair, pair')
      BY <2>3, <3>1 DEF Forward
    <3> QED BY <1>3, <2>1, <3>3, <3>4, <3>5, <3>6
  <2> QED BY <2>2, <2>3
<1>12. ASSUME NEW o \in Ops, VoidPair(o) PROVE TypeInv' /\ Forward(pair, pair')
  <2>1. pair' = [p \in Bookings |-> IF p \in Pairs /\ Voidable(p, op[o].r)
                                    THEN [pair[p] EXCEPT !.status = "VOID"] ELSE pair[p]]
    BY <1>12 DEF VoidPair
  <2>2. \A p \in Pairs : p \in Bookings /\ pair[p] \in Pair
    BY <1>t DEF Pairs
  <2>3. \A p \in Pairs : /\ pair'[p] \in Pair /\ pair'[p].invitee = pair[p].invitee
                          /\ pair'[p].amount = pair[p].amount
                          /\ pair'[p].scannedAt = pair[p].scannedAt
                          /\ \/ pair'[p].status = pair[p].status
                             \/ pair'[p].status = "VOID" /\ pair[p].status \in {"OPEN", "PENDING"}
    BY <2>1, <2>2 DEF Pair, Voidable
  <2>4. \A p \in Bookings \ Pairs : pair'[p] = pair[p] /\ pair[p] = None
    BY <2>1 DEF Pairs
  <2>5. pair' \in [Bookings -> Pair \cup {None}]
    BY <2>1, <2>3, <2>4
  <2>6. PairInv'
    BY <1>4, <2>3, <2>4 DEF PairInv, Pairs
  <2>7. Forward(pair, pair')
    BY <2>3 DEF Forward, Pairs
  <2> QED BY <1>3, <1>t, <1>12, <2>5, <2>6, <2>7 DEF VoidPair
<1>13. ASSUME NEW o \in Ops, LoseOp(o) PROVE TypeInv' /\ Forward(pair, pair')
  BY <1>3, <1>4, <1>t, <1>13 DEF LoseOp, PairInv, Pairs
<1>14. ASSUME NEW s \in Shops, MintBarberToken(s) PROVE TypeInv' /\ Forward(pair, pair')
  <2>1. TypeOK'
    BY <1>t, <1>14 DEF MintBarberToken, mintBarberToken, TypeInv, TypeOK
  <2> QED BY <1>1, <1>14, <2>1 DEF MintBarberToken
<1>15. ASSUME NEW s \in Shops, NEW a \in Amounts, SetDeal(s, a)
       PROVE  TypeInv' /\ Forward(pair, pair')
  <2>1. TypeOK'
    BY <1>15 DEF SetDeal, TypeInv, TypeOK
  <2> QED BY <1>1, <1>15, <2>1 DEF SetDeal
<1>16. CASE Tick \/ UNCHANGED vars
  <2>1. TypeOK' /\ pair' = pair /\ op' = op
    BY <1>16 DEF Tick, vars, TypeInv, TypeOK
  <2> QED BY <1>1, <2>1
<1>17. ASSUME NEW o \in Ops, Handle(o) PROVE TypeInv' /\ Forward(pair, pair')
  <2>1. ASSUME NEW r \in Bookings,
               InviteRead(o, r) \/ ScanRead(o, r)
                 \/ (\E p \in Bookings : JoinRead(o, r, p))
                 \/ (\E rows \in {{r}, GroupOf[r]} : EndBooking(o, r, rows))
        PROVE  TypeInv' /\ Forward(pair, pair')
    BY <1>5, <1>6, <1>7, <1>8, <2>1
  <2> QED BY <1>9, <1>10, <1>11, <1>12, <1>13, <1>17, <2>1 DEF Handle
<1> QED BY <1>14, <1>15, <1>16, <1>17 DEF Next

\* The types hold in every state.
LEMMA TypeInvariant == Spec => []TypeInv
<1>1. TypeInv /\ [Next]_vars => TypeInv'
  BY TypeNext
<1> QED BY TypeInit, <1>1, PTL DEF Spec

\* Every variable keeps its type, for any bookings, shops and handlers.
THEOREM TypeCorrect == Spec => []TypeOK
<1>1. TypeInv => TypeOK
  BY DEF TypeInv
<1> QED BY TypeInvariant, <1>1, PTL

-----------------------------------------------------------------------------
(* Pairs and discounts only move forward                                   *)

\* A code brings one friend, and a completed or void pair stays so, however
\* the claims, scans and cancellations of joinInvite, recordScan and
\* voidPairForReservation overtake each other.
THEOREM PairsForward == Spec => PairForward
<1>1. TypeInv /\ [Next]_vars =>
        [\A p \in Pairs :
            /\ pair[p].invitee # None => pair'[p].invitee = pair[p].invitee
            /\ pair[p].status \in {"CONFIRMED", "VOID"} =>
                  pair'[p].status = pair[p].status]_vars
  BY TypeNext DEF Forward, Pairs
<1> QED BY TypeInvariant, <1>1, PTL DEF Spec, PairForward

\* A pair is completed, and a booking stamped, by recordScan's transaction on a
\* pending pair and by nothing else.
LEMMA OnlyScans ==
    ASSUME TypeInv, [Next]_vars
    PROVE  \/ \E o \in Ops : ScanWrite(o) /\ pair[op[o].code].status = "PENDING"
           \/ /\ discount' = discount
              /\ \A p \in Bookings : pair'[p] # None /\ pair'[p].status = "CONFIRMED" =>
                    pair[p] # None /\ pair[p].status = "CONFIRMED"
<1> DEFINE Quiet == /\ discount' = discount
                    /\ \A p \in Bookings : pair'[p] # None /\ pair'[p].status = "CONFIRMED" =>
                          pair[p] # None /\ pair[p].status = "CONFIRMED"
<1> USE NoneAssumption
<1>t. /\ pair \in [Bookings -> Pair \cup {None}]
      /\ op \in [Ops -> Op \cup {None}]
  BY DEF TypeInv, TypeOK
<1>1. ASSUME pair' = pair, discount' = discount PROVE Quiet
  BY <1>1
<1>2. ASSUME NEW o \in Ops, InviteWrite(o) PROVE Quiet
  <2>1. op[o].r \in Bookings
    BY <1>t, <1>2 DEF InviteWrite, Running, Op
  <2> DEFINE new == [invitee |-> None, amount |-> op[o].amount, expiresAt |-> now + CodeTTL,
                     status |-> "OPEN", scannedAt |-> [side \in Sides |-> Never]]
  <2>2. new.status = "OPEN"
    OBVIOUS
  <2>3. pair' = IF pair[op[o].r] # None THEN pair ELSE [pair EXCEPT ![op[o].r] = new]
    BY <1>2 DEF InviteWrite
  <2> HIDE DEF new
  <2>4. \A p \in Bookings : pair'[p] = pair[p] \/ pair'[p] = new
    BY <1>t, <2>1, <2>3
  <2> QED BY <1>2, <2>2, <2>4 DEF InviteWrite
<1>3. ASSUME NEW o \in Ops, JoinWrite(o) PROVE Quiet
  <2>1. op[o] \in Op /\ op[o].code \in Pairs
    BY <1>t, <1>3 DEF JoinWrite, Running, TypeInv, OpInv
  <2> DEFINE c == op[o].code
  <2>2. CASE ~Claimable(c, op[o].r)
    BY <1>1, <1>3, <2>2 DEF JoinWrite
  <2>3. CASE Claimable(c, op[o].r)
    <3>1. c \in Bookings /\ pair[c] \in Pair
      BY <1>t, <2>1 DEF Pairs
    <3>2. pair' = [pair EXCEPT ![c].invitee = op[o].r, ![c].status = "PENDING"]
      BY <1>3, <2>3 DEF JoinWrite
    <3>3. /\ \A b \in Bookings : b # c => pair'[b] = pair[b]
          /\ pair'[c].status = "PENDING"
      BY <1>t, <3>1, <3>2 DEF Pair
    <3> QED BY <1>3, <3>3 DEF JoinWrite
  <2> QED BY <2>2, <2>3
<1>4. ASSUME NEW o \in Ops, ScanWrite(o), pair[op[o].code].status # "PENDING" PROVE Quiet
  BY <1>1, <1>4 DEF ScanWrite
<1>5. ASSUME NEW o \in Ops, VoidPair(o) PROVE Quiet
  <2>1. \A p \in Bookings :
           pair'[p] = IF p \in Pairs /\ Voidable(p, op[o].r)
                      THEN [pair[p] EXCEPT !.status = "VOID"] ELSE pair[p]
    BY <1>5 DEF VoidPair
  <2>2. \A p \in Bookings : pair'[p] = pair[p] \/ pair'[p].status = "VOID"
    BY <1>t, <2>1 DEF Pair, Pairs
  <2> QED BY <1>5, <2>2 DEF VoidPair
<1>6. ASSUME NEW o \in Ops, Handle(o),
             ~(ScanWrite(o) /\ pair[op[o].code].status = "PENDING")
      PROVE  Quiet
  <2>1. ASSUME NEW r \in Bookings,
               InviteRead(o, r) \/ ScanRead(o, r)
                 \/ (\E p \in Bookings : JoinRead(o, r, p))
                 \/ (\E rows \in {{r}, GroupOf[r]} : EndBooking(o, r, rows))
        PROVE  Quiet
    BY <1>1, <2>1 DEF InviteRead, ScanRead, JoinRead, EndBooking
  <2>2. LoseOp(o) => Quiet
    BY <1>1 DEF LoseOp
  <2> HIDE DEF Quiet
  <2> QED BY <1>2, <1>3, <1>4, <1>5, <1>6, <2>1, <2>2 DEF Handle
<1>7. ASSUME \/ \E s \in Shops : MintBarberToken(s)
             \/ \E s \in Shops, a \in Amounts : SetDeal(s, a)
             \/ Tick \/ UNCHANGED vars
      PROVE  Quiet
  BY <1>1, <1>7 DEF MintBarberToken, SetDeal, Tick, vars
<1> HIDE DEF Quiet
<1>8. (\E o \in Ops : ScanWrite(o) /\ pair[op[o].code].status = "PENDING") \/ Quiet
  BY <1>6, <1>7 DEF Next
<1> QED BY <1>8 DEF Quiet

\* A booking earns the discount once: whatever replays, races and changes of
\* the shop's amount do, recordScan's guarded updateMany leaves it alone.
THEOREM DiscountsOnce == Spec => DiscountOnce
<1>1. ASSUME TypeInv, [Next]_vars, NEW r \in Bookings, discount[r] # 0
      PROVE  discount'[r] = discount[r]
  <2>1. CASE discount' = discount
    BY <2>1
  <2>2. ASSUME NEW o \in Ops, ScanWrite(o), pair[op[o].code].status = "PENDING"
        PROVE  discount'[r] = discount[r]
    <3>1. r \notin Stamped(op[o].code, op[o].r)
      BY <1>1 DEF Stamped
    <3> QED BY <1>1, <2>2, <3>1, ScanStamps
  <2> QED BY <1>1, <2>1, <2>2, OnlyScans
<1>2. TypeInv /\ [Next]_vars =>
        [\A r \in Bookings : discount[r] # 0 => discount'[r] = discount[r]]_vars
  BY <1>1
<1> QED BY TypeInvariant, <1>2, PTL DEF Spec, DiscountOnce

-----------------------------------------------------------------------------
(* Presence                                                                *)

\* A completed pair holds one scan of each side, no further apart than the
\* window, whatever scans recordScan saw before, repeated, stale or racing.
THEOREM TogetherScanned == Spec => []ScansTogether
<1> USE NoneAssumption
<1>1. Init => ScansTogether
  BY DEF Init, ScansTogether, Pairs
<1>2. ASSUME TypeInv, ScansTogether, [Next]_vars PROVE ScansTogether'
  <2> SUFFICES ASSUME NEW p \in Bookings, pair'[p] # None, pair'[p].status = "CONFIRMED"
               PROVE  /\ \A side \in Sides : pair'[p].scannedAt[side] # Never
                      /\ CloseBy(pair'[p].scannedAt["inviter"], pair'[p].scannedAt["invitee"])
    BY DEF ScansTogether, Pairs
  <2>1. CASE pair[p] # None /\ pair[p].status = "CONFIRMED"
    BY <1>2, <2>1, TypeNext DEF Forward, ScansTogether, Pairs
  <2>2. ASSUME NEW o \in Ops, ScanWrite(o), pair[op[o].code].status = "PENDING", p = op[o].code
        PROVE  /\ \A side \in Sides : pair'[p].scannedAt[side] # Never
               /\ CloseBy(pair'[p].scannedAt["inviter"], pair'[p].scannedAt["invitee"])
    <3> DEFINE theirs == pair[p].scannedAt[OtherSide(o)]
               mine == EffectiveMine(pair[p].scannedAt[ScanSide(o)], theirs, op[o].at)
    <3>1. /\ pair'[p].status = IF Complete(mine, theirs) THEN "CONFIRMED" ELSE "PENDING"
          /\ pair'[p].scannedAt[ScanSide(o)] = mine
          /\ pair'[p].scannedAt[OtherSide(o)] = theirs
          /\ mine \in Int /\ mine # Never /\ theirs \in Int
      BY <1>2, <2>2, ScanStamps
    <3> HIDE DEF mine, theirs
    <3>2. theirs # Never /\ CloseBy(mine, theirs) /\ CloseBy(theirs, mine)
      BY <3>1 DEF Complete, CloseBy
    <3> QED BY <3>1, <3>2 DEF ScanSide, OtherSide, Sides
  <2>3. ASSUME NEW o \in Ops, ScanWrite(o), pair[op[o].code].status = "PENDING", p # op[o].code
        PROVE  pair[p] # None /\ pair[p].status = "CONFIRMED"
    BY <1>2, <2>3, ScanStamps
  <2> QED BY <1>2, <2>1, <2>2, <2>3, OnlyScans
<1> QED BY TypeInvariant, <1>1, <1>2, PTL DEF Spec

-----------------------------------------------------------------------------
(* All or nothing                                                          *)

\* Both bookings of a completed pair carry a discount, and one that a booking was
\* not created with is the amount of a completed pair of its own: recordScan's
\* transaction stamps both and completes the pair, and nothing takes either back.
THEOREM BothDiscounted == Spec => []DiscountOnBoth
<1> USE NoneAssumption
<1>1. Init => DiscountOnBoth
  BY DEF Init, DiscountOnBoth, Pairs
<1>2. ASSUME TypeInv, DiscountOnBoth, [Next]_vars PROVE DiscountOnBoth'
  <2>t. Forward(pair, pair') /\ discount \in [Bookings -> Nat]
    BY <1>2, TypeNext DEF TypeInv, TypeOK
  \* A completed pair that justified a discount goes on doing so.
  <2>1. ASSUME NEW r \in Bookings, discount[r] # Given[r], discount'[r] = discount[r]
        PROVE  \E p \in (PairOf(r) \cup InviteeOf(r))' :
                  pair'[p].status = "CONFIRMED" /\ pair'[p].amount = discount'[r]
    <3>1. PICK p \in PairOf(r) \cup InviteeOf(r) :
             pair[p].status = "CONFIRMED" /\ pair[p].amount = discount[r]
      BY <1>2, <2>1 DEF DiscountOnBoth
    <3>2. p \in Bookings /\ pair[p] # None /\ (p = r \/ pair[p].invitee = r)
      BY <3>1 DEF PairOf, InviteeOf, Pairs
    <3>3. /\ pair'[p] # None /\ pair'[p].status = "CONFIRMED"
          /\ pair'[p].amount = discount'[r] /\ (p = r \/ pair'[p].invitee = r)
      BY <2>t, <2>1, <3>1, <3>2 DEF Forward
    <3>4. p \in (PairOf(r) \cup InviteeOf(r))'
      BY <3>2, <3>3 DEF PairOf, InviteeOf, Pairs
    <3> QED BY <3>3, <3>4
  \* The discounts of a completed pair stay.
  <2>2. ASSUME NEW p \in Bookings, pair[p] # None, pair[p].status = "CONFIRMED",
               \A r \in Bookings : discount[r] # 0 => discount'[r] = discount[r]
        PROVE  discount'[p] # 0 /\ discount'[pair'[p].invitee] # 0
    <3>1. discount[p] # 0 /\ discount[pair[p].invitee] # 0
      BY <1>2, <2>2 DEF DiscountOnBoth, Pairs
    <3>2. pair[p].invitee \in Bookings /\ pair'[p].invitee = pair[p].invitee
      BY <1>2, <2>t, <2>2 DEF TypeInv, PairInv, Pairs, Forward
    <3> QED BY <2>2, <3>1, <3>2
  <2>3. CASE /\ discount' = discount
             /\ \A p \in Bookings : pair'[p] # None /\ pair'[p].status = "CONFIRMED" =>
                   pair[p] # None /\ pair[p].status = "CONFIRMED"
    BY <2>1, <2>2, <2>3 DEF DiscountOnBoth, Pairs
  <2>4. ASSUME NEW o \in Ops, ScanWrite(o), pair[op[o].code].status = "PENDING"
        PROVE  DiscountOnBoth'
    <3> DEFINE c == op[o].code
               theirs == pair[c].scannedAt[OtherSide(o)]
               mine == EffectiveMine(pair[c].scannedAt[ScanSide(o)], theirs, op[o].at)
               done == Complete(mine, theirs)
    <3>1. /\ c \in Bookings /\ pair[c] # None
          /\ \A b \in Bookings : b # c => pair'[b] = pair[b]
          /\ pair'[c].invitee = pair[c].invitee /\ pair'[c].amount = pair[c].amount
          /\ pair'[c].status = IF done THEN "CONFIRMED" ELSE "PENDING"
          /\ discount' = IF done
                         THEN [b \in Bookings |-> IF b \in Stamped(c, op[o].r)
                                                  THEN pair[c].amount ELSE discount[b]]
                         ELSE discount
      BY <1>2, <2>4, ScanStamps DEF Pairs
    <3> HIDE DEF done
    <3>2. pair[c].invitee \in Bookings /\ pair[c].amount \in Nat \ {0}
      BY <1>2, <2>4, <3>1 DEF TypeInv, TypeOK, PairInv, Pairs, Pair
    <3>3. CASE ~done
      BY <2>3, <3>1, <3>3
    <3>4. CASE done
      <4>1. \A r \in Bookings : discount[r] # 0 => discount'[r] = discount[r]
        BY <3>1, <3>4 DEF Stamped
      <4>2. \A r \in {c, pair[c].invitee} :
               /\ discount'[r] # 0
               /\ discount[r] = 0 => discount'[r] = pair[c].amount
        BY <3>1, <3>2, <3>4 DEF Stamped
      <4>3. \A r \in Bookings \ {c, pair[c].invitee} : discount'[r] = discount[r]
        BY <3>1, <3>4 DEF Stamped
      <4>4. /\ pair'[c] # None /\ pair'[c].status = "CONFIRMED"
        BY <2>t, <3>1, <3>4 DEF Forward
      <4>5. ASSUME NEW p \in Bookings, pair'[p] # None, pair'[p].status = "CONFIRMED"
            PROVE  discount'[p] # 0 /\ discount'[pair'[p].invitee] # 0
        <5>1. CASE p = c
          BY <3>1, <4>2, <5>1
        <5>2. CASE p # c
          BY <2>2, <3>1, <4>1, <4>5, <5>2
        <5> QED BY <5>1, <5>2
      <4>6. ASSUME NEW r \in Bookings, discount'[r] # Given[r]
            PROVE  \E p \in (PairOf(r) \cup InviteeOf(r))' :
                      pair'[p].status = "CONFIRMED" /\ pair'[p].amount = discount'[r]
        <5>1. CASE discount'[r] = discount[r]
          BY <2>1, <4>6, <5>1
        <5>2. CASE discount'[r] # discount[r]
          <6>1. r \in {c, pair[c].invitee} /\ discount'[r] = pair'[c].amount
            BY <3>1, <4>1, <4>2, <4>3, <5>2
          <6>2. c \in (PairOf(r) \cup InviteeOf(r))'
            BY <3>1, <4>4, <6>1 DEF PairOf, InviteeOf, Pairs
          <6> QED BY <4>4, <6>1, <6>2
        <5> QED BY <5>1, <5>2
      <4> QED BY <4>5, <4>6 DEF DiscountOnBoth, Pairs
    <3> QED BY <3>3, <3>4
  <2> QED BY <1>2, <2>3, <2>4, OnlyScans
<1> QED BY TypeInvariant, <1>1, <1>2, PTL DEF Spec
=============================================================================

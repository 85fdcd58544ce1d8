------------------------------ MODULE Referral ------------------------------
(***************************************************************************)
(* "Bring a friend" (services/referral.ts): a customer's booking gets a    *)
(* code, a friend's booking at the same shop redeems it, both scan the     *)
(* barber's QR, and the second scan stamps the discount on both bookings.  *)
(*                                                                         *)
(* A pair is known by its inviter's booking (inviterReservationId is       *)
(* unique), and so is its code.  Handlers read outside any transaction and *)
(* write later: a unique key, a compare-and-swap, or recordScan's          *)
(* serializable transaction, which conflicts with every concurrent update  *)
(* of the rows it writes and is therefore one step.                        *)
(***************************************************************************)
EXTENDS Integers, FiniteSets

CONSTANTS Bookings, Owner, ShopAt, EndsAt,   \* reservations, as booked
          GroupOf,        \* the bookings that are cancelled with one
          Given,          \* discountAmount a booking was created with
          Shops, Ops, None,
          Amounts,        \* values an admin gives referralDiscount
          CodeTTL, QrTTL, Window,
          MaxTime         \* bound: the clock stops here

ASSUME BookingsAssumption ==
    /\ EndsAt \in [Bookings -> Nat]
    /\ ShopAt \in [Bookings -> Shops]
    /\ GroupOf \in [Bookings -> SUBSET Bookings]
    /\ \A r \in Bookings : r \in GroupOf[r]
    /\ Given \in [Bookings -> Nat]
    \* The cuts of a "book for two" are created with the offer of their shop.
    /\ \A r \in Bookings : \A c \in GroupOf[r] :
          Given[c] = Given[r] /\ (c # r => Given[r] # 0)
ASSUME PeriodsAssumption ==
    /\ Amounts \subseteq Nat
    /\ CodeTTL \in Nat /\ QrTTL \in Nat /\ Window \in Nat /\ MaxTime \in Nat

VARIABLES
    now,
    holding,     \* bookings that are PENDING or CONFIRMED
    discount,    \* discountAmount of each booking
    deal,        \* referralDiscount of each shop
    pair,        \* the ReferralPair a booking is the inviter of
    qr,          \* when the newest QR token of a shop expires
    op           \* what each handler in flight has read

vars == <<now, holding, discount, deal, pair, qr, op>>

Never == -1     \* a DateTime column that is NULL
Sides == {"inviter", "invitee"}

Pair == [invitee: Bookings \cup {None}, amount: Nat, expiresAt: Nat,
         status: {"OPEN", "PENDING", "CONFIRMED", "VOID"},
         scannedAt: [Sides -> Int]]
Op == [kind: {"invite", "join", "scan", "void"}, r: Bookings,
       code: Bookings \cup {None}, amount: Nat, at: Nat]

ASSUME NoneAssumption == None \notin Bookings /\ None \notin Pair \cup Op

Pairs == {p \in Bookings : pair[p] # None}
InviteeOf(r) == {p \in Pairs : pair[p].invitee = r}
Linked(r) == pair[r] # None \/ InviteeOf(r) # {}

isLive(r) == r \in holding /\ EndsAt[r] > now

Init ==
    /\ now = 0
    /\ holding = Bookings
    /\ discount = Given
    /\ deal \in [Shops -> Amounts]
    /\ pair = [r \in Bookings |-> None]
    /\ qr = [s \in Shops |-> Never]
    /\ op = [o \in Ops |-> None]

Start(o, kind, r, code, amount) ==
    /\ op[o] = None
    /\ op' = [op EXCEPT ![o] = [kind |-> kind, r |-> r, code |-> code,
                                amount |-> amount, at |-> now]]

Running(o, kind) == op[o] # None /\ op[o].kind = kind
Close(o) == op' = [op EXCEPT ![o] = None]

-----------------------------------------------------------------------------
(* Linkage                                                                 *)

\* createInvite up to the create: a booking in no pair, live, at a shop with
\* the offer.  The amount read here is the one promised.
InviteRead(o, r) ==
    /\ ~Linked(r) /\ isLive(r)
    /\ deal[ShopAt[r]] > 0
    /\ Start(o, "invite", r, None, deal[ShopAt[r]])
    /\ UNCHANGED <<now, holding, discount, deal, pair, qr>>

\* referralPair.create.  A second pair for the same inviter breaks the unique
\* key; nothing is checked about the invitee side.
InviteWrite(o) ==
    /\ Running(o, "invite")
    /\ LET r == op[o].r IN
       pair' = IF pair[r] # None THEN pair
               ELSE [pair EXCEPT ![r] =
                      [invitee |-> None, amount |-> op[o].amount,
                       expiresAt |-> now + CodeTTL, status |-> "OPEN",
                       scannedAt |-> [side \in Sides |-> Never]]]
    /\ Close(o)
    /\ UNCHANGED <<now, holding, discount, deal, qr>>

\* joinInvite up to the claim.
JoinRead(o, r, p) ==
    /\ ~Linked(r) /\ isLive(r)
    /\ p \in Pairs
    /\ pair[p].status = "OPEN" /\ pair[p].expiresAt >= now
    /\ isLive(p)
    /\ ShopAt[p] = ShopAt[r] /\ Owner[p] # Owner[r]
    /\ Start(o, "join", r, p, 0)
    /\ UNCHANGED <<now, holding, discount, deal, pair, qr>>

\* Mutant of Claimable: the pair is claimed on the strength of the read.
ClaimableAsRead(p, r) == pair[p] # None

\* updateMany({ where: { id, status: "OPEN", inviteeReservationId: null } }),
\* with inviteeReservationId unique.
Claimable(p, r) ==
    /\ pair[p] # None
    /\ pair[p].status = "OPEN" /\ pair[p].invitee = None
    /\ InviteeOf(r) = {}

JoinWrite(o) ==
    /\ Running(o, "join")
    /\ LET p == op[o].code IN
       pair' = IF Claimable(p, op[o].r)
               THEN [pair EXCEPT ![p].invitee = op[o].r, ![p].status = "PENDING"]
               ELSE pair
    /\ Close(o)
    /\ UNCHANGED <<now, holding, discount, deal, qr>>

-----------------------------------------------------------------------------
(* Presence                                                                *)

mintBarberToken(s) == qr' = [qr EXCEPT ![s] = now + QrTTL]

\* GET /barber/referral-token: a fresh QR while the shop runs the offer.
MintBarberToken(s) ==
    /\ deal[s] > 0
    /\ mintBarberToken(s)
    /\ UNCHANGED <<now, holding, discount, deal, pair, op>>

\* The pair recordScan works on: as inviter first, else as invitee.
PairOf(r) == IF pair[r] # None THEN {r} ELSE InviteeOf(r)

\* recordScan up to its transaction; `now` is taken here.
ScanRead(o, r) ==
    \E p \in PairOf(r) :
        /\ qr[ShopAt[p]] >= now
        /\ pair[p].status = "PENDING"
        /\ Start(o, "scan", r, p, 0)
        /\ UNCHANGED <<now, holding, discount, deal, pair, qr>>

CloseBy(a, b) == a - b <= Window /\ b - a <= Window

\* The caller's stamp: the earlier one is kept unless the other side's scan is
\* too far from it.
EffectiveMine(mine, theirs, t) ==
    LET stamped == IF mine # Never THEN mine ELSE t
    IN IF theirs # Never /\ ~CloseBy(stamped, theirs) THEN t ELSE stamped

\* Mutant of Complete: both have scanned, some time.
CompleteAnyTime(mine, theirs) == theirs # Never

Complete(mine, theirs) == theirs # Never /\ CloseBy(mine, theirs)

\* Mutants of Stamped: an earlier discount is overwritten; only the scanning
\* customer's booking is stamped.
StampedAgain(p, r) == {p, pair[p].invitee}
StampedMine(p, r) == {b \in {r} : discount[b] = 0}

\* updateMany on both bookings, guarded on discountAmount = 0.
Stamped(p, r) == {b \in {p, pair[p].invitee} : discount[b] = 0}

ScanWrite(o) ==
    /\ Running(o, "scan")
    /\ LET r == op[o].r
           p == op[o].code
           t == op[o].at
           side == IF p = r THEN "inviter" ELSE "invitee"
           theirs == pair[p].scannedAt[IF p = r THEN "invitee" ELSE "inviter"]
           mine == EffectiveMine(pair[p].scannedAt[side], theirs, t)
       IN IF pair[p].status # "PENDING" THEN UNCHANGED <<pair, discount>>
          ELSE /\ pair' = [pair EXCEPT
                    ![p].scannedAt[side] = mine,
                    ![p].status = IF Complete(mine, theirs) THEN "CONFIRMED" ELSE @]
               /\ discount' = IF Complete(mine, theirs)
                              THEN [b \in Bookings |-> IF b \in Stamped(p, r)
                                                       THEN pair[p].amount
                                                       ELSE discount[b]]
                              ELSE discount
    /\ Close(o)
    /\ UNCHANGED <<now, holding, deal, qr>>

-----------------------------------------------------------------------------
(* Bookings that fall through                                              *)

\* The write of cancelReservation, adminCancelReservation (rows = the group) or
\* a decline (rows = the one cut); releasing the pair is a later statement.
EndBooking(o, r, rows) ==
    /\ r \in holding
    /\ holding' = holding \ rows
    /\ Start(o, "void", r, None, 0)
    /\ UNCHANGED <<now, discount, deal, pair, qr>>

Voidable(p, r) == /\ p = r \/ pair[p].invitee = r
                  /\ pair[p].status \in {"OPEN", "PENDING"}

\* Mutant of VoidPair: the status column is a free string, and the wrong word
\* is written to it.
VoidPairMisnamed(o) ==
    /\ Running(o, "void")
    /\ pair' = [p \in Bookings |->
                  IF p \in Pairs /\ Voidable(p, op[o].r)
                  THEN [pair[p] EXCEPT !.status = "CANCELLED"] ELSE pair[p]]
    /\ Close(o)
    /\ UNCHANGED <<now, holding, discount, deal, qr>>

\* voidPairForReservation of the requested row.
VoidPair(o) ==
    /\ Running(o, "void")
    /\ pair' = [p \in Bookings |->
                  IF p \in Pairs /\ Voidable(p, op[o].r)
                  THEN [pair[p] EXCEPT !.status = "VOID"] ELSE pair[p]]
    /\ Close(o)
    /\ UNCHANGED <<now, holding, discount, deal, qr>>

\* A crash, a lost connection, a failed transaction: the rest does not happen.
LoseOp(o) ==
    /\ op[o] # None
    /\ Close(o)
    /\ UNCHANGED <<now, holding, discount, deal, pair, qr>>

\* PATCH /admin/shops/:id and the promo expiry.
SetDeal(s, a) ==
    /\ deal[s] # a
    /\ deal' = [deal EXCEPT ![s] = a]
    /\ UNCHANGED <<now, holding, discount, pair, qr, op>>

\* Handlers are short: the clock moves when none has been waiting.
Tick ==
    /\ now < MaxTime
    /\ \A o \in Ops : op[o] # None => op[o].at = now
    /\ now' = now + 1
    /\ UNCHANGED <<holding, discount, deal, pair, qr, op>>

Handle(o) ==
    \/ \E r \in Bookings :
          \/ InviteRead(o, r) \/ ScanRead(o, r)
          \/ \E p \in Bookings : JoinRead(o, r, p)
          \/ \E rows \in {{r}, GroupOf[r]} : EndBooking(o, r, rows)
    \/ InviteWrite(o) \/ JoinWrite(o) \/ ScanWrite(o) \/ VoidPair(o) \/ LoseOp(o)

Next ==
    \/ \E o \in Ops : Handle(o)
    \/ \E s \in Shops : MintBarberToken(s)
    \/ \E s \in Shops, a \in Amounts : SetDeal(s, a)
    \/ Tick

Spec == Init /\ [][Next]_vars

-----------------------------------------------------------------------------
(* Properties                                                              *)

\* Every variable keeps its type.
TypeOK ==
    /\ now \in 0..MaxTime
    /\ holding \subseteq Bookings
    /\ discount \in [Bookings -> Nat]
    /\ deal \in [Shops -> Amounts]
    /\ pair \in [Bookings -> Pair \cup {None}]
    /\ qr \in [Shops -> Int]
    /\ op \in [Ops -> Op \cup {None}]

\* Presence: a completed pair holds one scan of each side, close together,
\* whatever scans were repeated, refreshed or raced before.
ScansTogether ==
    \A p \in Pairs : pair[p].status = "CONFIRMED" =>
        /\ \A side \in Sides : pair[p].scannedAt[side] # Never
        /\ CloseBy(pair[p].scannedAt["inviter"], pair[p].scannedAt["invitee"])

\* All or nothing: both bookings of a completed pair carry a discount, and one
\* that a booking was not created with is the amount of a completed pair of its own.
DiscountOnBoth ==
    /\ \A p \in Pairs : pair[p].status = "CONFIRMED" =>
          discount[p] # 0 /\ discount[pair[p].invitee] # 0
    /\ \A r \in Bookings : discount[r] # Given[r] =>
          \E p \in PairOf(r) \cup InviteeOf(r) :
              pair[p].status = "CONFIRMED" /\ pair[p].amount = discount[r]

\* A booking earns the discount once: replays, a second pair it raced into and
\* changes of the shop's amount leave it alone.
DiscountOnce ==
    [][\A r \in Bookings : discount[r] # 0 => discount'[r] = discount[r]]_vars

\* A code brings one friend, and a completed or void pair stays so.
PairForward ==
    [][\A p \in Pairs :
          /\ pair[p].invitee # None => pair'[p].invitee = pair[p].invitee
          /\ pair[p].status \in {"CONFIRMED", "VOID"} =>
                pair'[p].status = pair[p].status]_vars

-----------------------------------------------------------------------------
(* What a comment says and the handlers do not keep                        *)

\* schema.prisma: "A reservation can sit on at most one side of at most one
\* pair."
OnePairPerBooking == \A r \in Bookings : ~(pair[r] # None /\ InviteeOf(r) # {})
=============================================================================

------------------------------ MODULE MCTotals ------------------------------
(***************************************************************************)
(* An instance of Totals for TLC: one shop, one barber, two customers with *)
(* a booking each, one of which ends later.                                *)
(***************************************************************************)
EXTENDS Totals, TLC

CONSTANTS u1, u2, b1, s1, k1, k2, o1, o2

OwnerOf == k1 :> u1 @@ k2 :> u2
ByBarber == [k \in Bookings |-> b1]
AtShop == [k \in Bookings |-> s1]
Ends == k1 :> 0 @@ k2 :> 1
Prices == k1 :> 3 @@ k2 :> 3

Symmetry == Permutations(Reqs)
=============================================================================

----------------------------- MODULE MCBooking ------------------------------
(***************************************************************************)
(* Instances of Booking and Availability for TLC: shop layouts, symmetry.  *)
(***************************************************************************)
EXTENDS Availability, TLC

CONSTANTS u1, u2, b1, b2, s1, s2, q1, q2, q3, o1, o2

\* One shop with two barbers.
TwoBarbers == b1 :> s1 @@ b2 :> s1
OneBarber == b1 :> s1
OneChair == s1 :> 1
OneAndTwoChairs == s1 :> 1 @@ s2 :> 2
NoBuffer == s1 :> 0
OneStep == s1 :> 1
TwoShopBuffers == s1 :> 1 @@ s2 :> 0

Symmetry == Permutations({u1, u2}) \cup Permutations({q1, q2, q3})
RaceSymmetry == Symmetry \cup Permutations({b1, b2})
OpSymmetry == Permutations({o1, o2}) \cup Permutations({q1, q2})
=============================================================================

----------------------------- MODULE MCReferral -----------------------------
(***************************************************************************)
(* Instances of Referral for TLC.                                          *)
(***************************************************************************)
EXTENDS Referral, TLC

CONSTANTS r1, r2, r3, s1, o1, o2, o3

AtOneShop == [r \in Bookings |-> s1]
EndLate == [r \in Bookings |-> MaxTime + 1]

\* Each booking of its own customer, so that bookings are interchangeable.
OneEach == [r \in Bookings |-> r]
NoGroups == [r \in Bookings |-> {r}]
NoneGiven == [r \in Bookings |-> 0]

\* Two singles and one cut of a double (r1), whose other cut joins no pair.
GivenToCut == [r \in Bookings |-> IF r = r1 THEN 2 ELSE 0]
Symmetry == Permutations(Ops) \cup Permutations({r2, r3})
=============================================================================

---------------------------- MODULE MCReminders -----------------------------
(***************************************************************************)
(* An instance of Reminders for TLC.                                       *)
(***************************************************************************)
EXTENDS Reminders, TLC

CONSTANTS k1, k2, s1, s2, w1, w2

\* Two bookings at the same time, after one step of the clock.
SameTime == [k \in Bookings |-> 3]

Symmetry == Permutations(Servers) \cup Permutations(Sweeps) \cup Permutations(Bookings)
=============================================================================

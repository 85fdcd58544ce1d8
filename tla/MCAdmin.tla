------------------------------ MODULE MCAdmin -------------------------------
(***************************************************************************)
(* An instance of Admin for TLC.                                           *)
(***************************************************************************)
EXTENDS Admin, TLC

CONSTANTS a1, a2, p1, p2, o1, o2

\* The last day of a January, and of the February and April that follow.
MCDays == << <<0, 31>>, <<1, 28>>, <<3, 30>> >>

\* No leap year.
MCMonthLength(m) == << 31, 28, 31, 30, 31, 30, 31, 31, 30, 31, 30, 31 >>[(m % 12) + 1]

Symmetry == Permutations(Ops) \cup Permutations(Plans) \cup Permutations(Admins)
=============================================================================

----------------------------- MODULE MCAccounts -----------------------------
(***************************************************************************)
(* Instances of Accounts for TLC.                                          *)
(***************************************************************************)
EXTENDS Accounts, TLC

CONSTANTS u1, u2, t1, t2, t3, o1, o2, g1, a1, e1, e2, n1, n2

\* A Google account whose email changes, and an Apple account with the first
\* of its emails, or none.
GoogleAndApple ==
    {[provider |-> "google", sub |-> g1, email |-> e1, name |-> None],
     [provider |-> "google", sub |-> g1, email |-> e2, name |-> n1],
     [provider |-> "apple", sub |-> a1, email |-> e1, name |-> None],
     [provider |-> "apple", sub |-> a1, email |-> None, name |-> None]}

Symmetry == Permutations(UserIds) \cup Permutations(TokenIds) \cup Permutations(Reqs)
=============================================================================

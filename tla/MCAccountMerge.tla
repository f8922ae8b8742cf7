---------------------------- MODULE MCAccountMerge ----------------------------
(* A small instance of AccountMerge for TLC.                               *)
EXTENDS AccountMerge, TLC

\* Users are interchangeable, except that one of them owns the identity, and so
\* are executors.
Symmetry == Permutations(Users) \cup Permutations(Executors)
=============================================================================

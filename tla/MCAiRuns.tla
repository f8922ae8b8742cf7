------------------------------ MODULE MCAiRuns ------------------------------
(* Small instances of AiRuns for TLC.                                      *)
EXTENDS AiRuns, TLC

CONSTANT u1

\* Every resume belongs to the one user.
OneOwner == [r \in Resumes |-> u1]

Symmetry == Permutations(Workers) \cup Permutations(Resumes)
=============================================================================

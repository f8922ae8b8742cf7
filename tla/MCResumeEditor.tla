---------------------------- MODULE MCResumeEditor ----------------------------
(* A small instance of ResumeEditor for TLC.                               *)
EXTENDS ResumeEditor, TLC

\* Documents are interchangeable, and so are slots.
Symmetry == Permutations(Docs) \cup Permutations(Slots)
=============================================================================

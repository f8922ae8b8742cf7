----------------------------- MODULE MCPdfExport -----------------------------
(* Small instances of PdfExport for TLC.                                   *)
EXTENDS PdfExport, TLC

\* Sessions and users are interchangeable: no definition orders or names one.
Symmetry == Permutations(Sessions) \cup Permutations(Users)
=============================================================================

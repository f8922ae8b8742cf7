--------------------------- MODULE MCSystemRestart ---------------------------
(***************************************************************************)
(* Instances of SystemRestart for TLC.  Process 1 is a worker.  With one   *)
(* process and no operation, what is left is the configuration and the     *)
(* manager of that process; with two processes, the second is the web      *)
(* process and an operation restarts one after the other.                  *)
(***************************************************************************)
EXTENDS SystemRestart

OnlyWorker == {}
SecondIsWeb == {2}
=============================================================================

------------------------------ MODULE MCAiQuota ------------------------------
(* Small instances of AiQuota for TLC.                                     *)
EXTENDS AiQuota

\* bound: releases of one run that lease recovery may add
MaxReleases == 2

BoundedReleases ==
    \A u \in Users, n \in Runs : ledger[u][n].releases <= MaxReleases
=============================================================================

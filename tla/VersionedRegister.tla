-------------------------- MODULE VersionedRegister --------------------------
(***************************************************************************)
(* What a store with optimistic versions promises, whatever it holds: a    *)
(* value is replaced only by one that was written over it.  The published  *)
(* configuration (PlatformConfig) and a stored resume (ResumeEditor) are   *)
(* shown to implement this register.                                       *)
(***************************************************************************)
EXTENDS Integers

VARIABLES
    version,    \* of the current value
    base        \* the version that value was written over

registerVars == <<version, base>>

Init == version \in Nat /\ base \in Nat

\* A write names the version it has read; it is accepted if that is current.
Write ==
    /\ version' \in Nat /\ version' > version
    /\ base' = version

Spec == Init /\ [][Write]_registerVars
=============================================================================

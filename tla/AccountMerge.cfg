\* Safety: three accounts, two attempts to link one identity, two executors and one
\* piece of work that may be requested at any time.
SPECIFICATION Spec
CONSTANTS
    Users = {u1, u2, u3}
    NoUser = NoUser
    Executors = {e1, e2}
    MaxAttempts = 2
    Work = {w1}
    MaxRetries = 2
    Circumstances = {"slow", "suspend"}
SYMMETRY Symmetry
INVARIANTS LocksGuardOperations SomeAccountRemains
PROPERTIES OnlyLateWorkMoves
CHECK_DEADLOCK FALSE

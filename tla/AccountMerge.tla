----------------------------- MODULE AccountMerge -----------------------------
(***************************************************************************)
(* Merging two accounts of one person (src/lib/auth/account/merge).  A     *)
(* user who tries to link an external identity that belongs to another     *)
(* account proves to own both, confirms, and from then on both accounts    *)
(* are locked; executors wait until neither has work in progress and then  *)
(* move everything to the primary account in one transaction.              *)
(*                                                                         *)
(* One external identity is enough: attempts to link it are numbered, and  *)
(* an attempt leads to at most one operation, which has its number.        *)
(***************************************************************************)
EXTENDS Integers, FiniteSets

CONSTANTS
    Users,
    NoUser,
    Executors,        \* of maintenance rounds and of confirming requests
    MaxAttempts,      \* bound: attempts in one behaviour
    Work,             \* PDF exports and AI runs that may be requested
    MaxRetries,       \* MAX_OPERATION_RETRIES
    Circumstances     \* what may happen around the code

ASSUME MergeConstants ==
    /\ NoUser \notin Users
    /\ MaxAttempts \in Nat /\ MaxRetries \in Nat \ {0}

VARIABLES
    owner,        \* of the external identity, or NoUser
    mergedInto,   \* account_lifecycle: where a merged account has gone, or NoUser
    suspended,    \* account_restrictions
    attempt,      \* account_social_link_attempts
    operation,    \* account_merge_operations
    lock,         \* account_merge_locks: the operation that holds an account, or 0
    intent,       \* primary account of a confirmation that has passed the policy
    exec,         \* advanceAccountMergeOperation in each executor
    work,         \* what is requested, and in whose name
    unlinking     \* whose request to give up the identity is under way, or NoUser

vars == <<owner, mergedInto, suspended, attempt, operation, lock, intent, exec, work, unlinking>>

-----------------------------------------------------------------------------
Attempts == 1..MaxAttempts

Attempt ==
    [state : {"none", "started", "captured", "collision", "consumed", "cancelled"},
     user : Users \cup {NoUser}]

Terminal == {"completed", "cancelled", "expired", "failed"}
InProgress == {"confirmed", "waiting", "merging"}

\* "late": wait_deadline has passed, and so have the locks of the operation.
Operation ==
    [state : {"none", "created"} \cup InProgress \cup Terminal,
     initiating : Users \cup {NoUser}, target : Users \cup {NoUser},
     primary : Users \cup {NoUser}, secondary : Users \cup {NoUser},
     late : BOOLEAN, lease : {"none", "held", "late"}, retries : Nat]

\* "picked" an operation, "decided" to execute it, and then perhaps to "retry" or to
\* terminate it as "expired" or "failed".  Its clock is read when its round begins:
\* late says whether the deadline had passed then, leased whether a lease that has
\* ended since is to it still running.
Executor ==
    [step : {"idle", "picked", "decided", "retry", "expired", "failed"},
     op : 0..MaxAttempts, late : BOOLEAN, leased : BOOLEAN, retries : Nat]

\* What only the properties use: barred are the operations that had locked its user's
\* account, with time left, when the request asked; past those whose executor had
\* found that account without work when it inserted.
Request ==
    [step : {"idle", "checked", "active", "done"}, user : Users \cup {NoUser},
     barred : SUBSET Attempts, past : SUBSET Attempts]

Idle == [step |-> "idle", op |-> 0, late |-> FALSE, leased |-> FALSE, retries |-> 0]

Init ==
    /\ owner \in Users
    /\ mergedInto = [u \in Users |-> NoUser]
    /\ suspended = {}
    /\ attempt = [a \in Attempts |-> [state |-> "none", user |-> NoUser]]
    /\ operation = [a \in Attempts |->
         [state |-> "none", initiating |-> NoUser, target |-> NoUser, primary |-> NoUser,
          secondary |-> NoUser, late |-> FALSE, lease |-> "none", retries |-> 0]]
    /\ lock = [u \in Users |-> 0]
    /\ intent = [a \in Attempts |-> NoUser]
    /\ exec = [e \in Executors |-> Idle]
    /\ work = [w \in Work |->
         [step |-> "idle", user |-> NoUser, barred |-> {}, past |-> {}]]
    /\ unlinking = NoUser

Merged(u) == mergedInto[u] # NoUser
Available(u) == ~Merged(u) /\ u \notin suspended
Participants(o) == {operation[o].initiating, operation[o].target}

\* Mutant: no lock is asked about.
NothingIsLocked(u) == TRUE

\* assertAccountMergeMutationAllowed does not throw.
MutationAllowed(u) ==
    ~(lock[u] # 0 /\ ~operation[lock[u]].late /\ operation[lock[u]].state \in InProgress)

-----------------------------------------------------------------------------
(* Attempts to link the identity                                           *)

Open == {"started", "captured", "collision"}

\* createSocialLinkAttempt: it cancels the user's earlier attempts.
CreateSocialLinkAttempt(a, u) ==
    /\ attempt[a].state = "none" /\ \A b \in 1..(a - 1) : attempt[b].state # "none"
    /\ ~Merged(u)
    /\ MutationAllowed(u)
    /\ attempt' = [b \in Attempts |->
         IF b = a THEN [state |-> "started", user |-> u]
         ELSE IF attempt[b].user = u /\ attempt[b].state \in Open
         THEN [attempt[b] EXCEPT !.state = "cancelled"] ELSE attempt[b]]
    /\ UNCHANGED <<owner, mergedInto, suspended, operation, lock, intent, exec, work, unlinking>>

SetAttempt(a, state) == attempt' = [attempt EXCEPT ![a].state = state]

CaptureSocialLinkProviderSubject(a) ==
    /\ attempt[a].state = "started"
    /\ SetAttempt(a, "captured")
    /\ UNCHANGED <<owner, mergedInto, suspended, operation, lock, intent, exec, work, unlinking>>

\* resolveSocialLinkAttempt: the identity was free and is now the user's, it belongs
\* to another account, or the provider reports an error.
ResolveSocialLinkAttempt(a) ==
    /\ attempt[a].state # "none" /\ ~Merged(attempt[a].user)
    /\ \/ /\ attempt[a].state = "captured" /\ owner = NoUser
          /\ owner' = attempt[a].user
          /\ SetAttempt(a, "consumed")
       \/ /\ attempt[a].state = "captured" /\ owner \notin {NoUser, attempt[a].user}
          /\ SetAttempt(a, "collision")
          /\ UNCHANGED owner
       \/ /\ attempt[a].state \in {"started", "captured"}
          /\ SetAttempt(a, "cancelled")
          /\ UNCHANGED owner
    /\ UNCHANGED <<mergedInto, suspended, operation, lock, intent, exec, work, unlinking>>

-----------------------------------------------------------------------------
(* Verification and confirmation                                           *)

\* evaluateAccountMergePolicy, for accounts with a password and no administrator.
PolicyAllows(initiating, target) ==
    /\ initiating # target
    /\ Available(initiating) /\ Available(target)
    /\ owner = target

\* verifyAccountMergeIntent, where it ends with createVerifiedMergeOperation.
VerifyAccountMergeIntent(a) ==
    LET u == attempt[a].user IN
    /\ attempt[a].state = "collision"
    /\ owner # NoUser /\ PolicyAllows(u, owner)
    /\ SetAttempt(a, "consumed")
    /\ operation' = [operation EXCEPT ![a].state = "created",
                                      ![a].initiating = u, ![a].target = owner]
    /\ UNCHANGED <<owner, mergedInto, suspended, lock, intent, exec, work, unlinking>>

CancelCreatedMergeOperation(o) ==
    /\ operation[o].state = "created"
    /\ operation' = [operation EXCEPT ![o].state = "cancelled"]
    /\ UNCHANGED <<owner, mergedInto, suspended, attempt, lock, intent, exec, work, unlinking>>

\* confirmVerifiedAccountMerge reads both accounts and evaluates the policy ...
EvaluateConfirmation(o, primary) ==
    /\ operation[o].state = "created" /\ intent[o] = NoUser
    /\ primary \in Participants(o)
    /\ PolicyAllows(operation[o].initiating, operation[o].target)
    /\ intent' = [intent EXCEPT ![o] = primary]
    /\ UNCHANGED <<owner, mergedInto, suspended, attempt, operation, lock, exec, work, unlinking>>

\* What an executor knows when it picks operation o.
Picked(o) ==
    [step |-> "picked", op |-> o, late |-> operation[o].late,
     leased |-> FALSE, retries |-> 0]

\* Mutant: locks are taken over from another operation.
OneIsUnlocked(o) == \E u \in Participants(o) : lock[u] = 0

\* The locks' primary key.
Unlocked(o) == \A u \in Participants(o) : lock[u] = 0

\* ... and confirmMergeOperation, in a transaction of its own, locks them; the
\* request then advances the operation itself.
ConfirmMergeOperation(o, e) ==
    /\ intent[o] # NoUser
    /\ intent' = [intent EXCEPT ![o] = NoUser]
    /\ IF operation[o].state = "created" /\ Unlocked(o)
       THEN /\ exec[e].step = "idle"
            /\ exec' = [exec EXCEPT ![e] = Picked(o)]
            /\ lock' = [u \in Users |-> IF u \in Participants(o) THEN o ELSE lock[u]]
            /\ operation' = [operation EXCEPT
                 ![o].state = "confirmed", ![o].primary = intent[o],
                 ![o].secondary = CHOOSE u \in Participants(o) : u # intent[o]]
       ELSE UNCHANGED <<lock, operation, exec>>
    /\ UNCHANGED <<owner, mergedInto, suspended, attempt, work, unlinking>>

DeadlinePasses(o) ==
    /\ operation[o].state \in InProgress /\ ~operation[o].late
    /\ operation' = [operation EXCEPT ![o].late = TRUE]
    /\ UNCHANGED <<owner, mergedInto, suspended, attempt, lock, intent, exec, work, unlinking>>

-----------------------------------------------------------------------------
(* Executors: advanceAccountMergeOperation                                  *)

\* Mutant: an executor that has begun is trusted to finish.
NotBegun(o) == operation[o].state \in {"confirmed", "waiting"}

\* runAccountMergeExecutor finds it among the candidates.
Candidate(o) ==
    \/ operation[o].state \in {"confirmed", "waiting"}
    \/ operation[o].state = "merging" /\ operation[o].lease # "held"

PickOperation(e, o) ==
    /\ exec[e].step = "idle"
    /\ Candidate(o)
    /\ exec' = [exec EXCEPT ![e] = Picked(o)]
    /\ UNCHANGED <<owner, mergedInto, suspended, attempt, operation, lock, intent, work, unlinking>>

\* EXECUTOR_LEASE_MS have passed.
ExpireLease(o) ==
    /\ operation[o].state = "merging" /\ operation[o].lease = "held"
    /\ \/ "slow" \in Circumstances
       \/ \A e \in Executors : exec[e].op # o
    /\ operation' = [operation EXCEPT ![o].lease = "late"]
    /\ exec' = [e \in Executors |->
         IF exec[e].step = "picked" /\ exec[e].op = o
         THEN [exec[e] EXCEPT !.leased = TRUE] ELSE exec[e]]
    /\ UNCHANGED <<owner, mergedInto, suspended, attempt, lock, intent, work, unlinking>>

\* Mutant: merging accounts are taken to be at rest.
AtRest(o) == FALSE

\* hasActiveAccountMergeWork
HasActiveWork(o) == \E w \in Work : work[w].step = "active" /\ work[w].user \in Participants(o)

Become(e, step) == exec' = [exec EXCEPT ![e].step = step]

Done(e) == exec' = [exec EXCEPT ![e] = Idle]

\* What the operation's lease_expires_at is to this executor's clock.
Leased(e) ==
    LET o == exec[e].op IN
    /\ operation[o].state = "merging"
    /\ operation[o].lease = "held" \/ (operation[o].lease = "late" /\ exec[e].leased)

\* Mutant: the lease is left to run out.
SetState(o, state) == operation' = [operation EXCEPT ![o].state = state]

\* The operation leaves "merging", or never gets there, and gives its lease back.
Return(o, state) == operation' = [operation EXCEPT ![o].state = state, ![o].lease = "none"]

\* The transaction that decides what to do with the operation.
Decide(e) ==
    LET o == exec[e].op IN
    /\ exec[e].step = "picked"
    /\ \/ /\ operation[o].state \in Terminal \/ Leased(e)
          /\ Done(e) /\ UNCHANGED operation
       \/ /\ operation[o].state \in InProgress /\ ~Leased(e)
          /\ IF exec[e].late THEN Become(e, "expired") /\ UNCHANGED operation
             ELSE IF HasActiveWork(o)
             THEN Done(e) /\ Return(o, "waiting")
             ELSE /\ exec' = [exec EXCEPT ![e].step = "decided", ![e].leased = FALSE,
                                          ![e].retries = operation[o].retries]
                  /\ operation' = [operation EXCEPT ![o].state = "merging", ![o].lease = "held"]
    /\ UNCHANGED <<owner, mergedInto, suspended, attempt, lock, intent, work, unlinking>>

\* Mutant: whether both accounts may still be merged is not asked again.
StillTheOperation(o) == operation[o].state \in {"confirmed", "merging"}

\* assertTransferableOperation, assertParticipantsRemainEligible and the condition
\* of transferAuthorizingIdentity.
Transferable(o) ==
    /\ operation[o].state \in {"confirmed", "merging"}
    /\ \A u \in Participants(o) : Available(u)
    /\ owner = operation[o].target

Unlock(o) == lock' = [u \in Users |-> IF lock[u] = o THEN 0 ELSE lock[u]]

\* executeAccountMergeTransfer commits.
ExecuteTransfer(e) ==
    LET o == exec[e].op
        primary == operation[o].primary
        secondary == operation[o].secondary
    IN
    /\ exec[e].step = "decided"
    /\ Transferable(o)
    /\ work' = [w \in Work |->
         IF work[w].user = secondary /\ work[w].step \in {"active", "done"}
         THEN [work[w] EXCEPT !.user = primary] ELSE work[w]]
    /\ owner' = primary
    /\ mergedInto' = [mergedInto EXCEPT ![secondary] = primary]
    /\ Return(o, "completed")
    /\ Unlock(o)
    /\ Done(e)
    /\ UNCHANGED <<suspended, attempt, intent, unlinking>>

\* It finds the operation completed by another executor, is refused, or its
\* database fails, with a transient error or another.
TransferFails(e) ==
    LET o == exec[e].op IN
    /\ exec[e].step = "decided"
    /\ \/ operation[o].state = "completed" /\ Done(e)
       \/ operation[o].state # "completed" /\ ~Transferable(o) /\ Become(e, "failed")
       \/ /\ "database" \in Circumstances
          /\ \/ exec[e].retries + 1 < MaxRetries /\ Become(e, "retry")
             \/ Become(e, "failed")
    /\ UNCHANGED <<owner, mergedInto, suspended, attempt, operation, lock, intent, work, unlinking>>

ReleaseForRetry(e) ==
    LET o == exec[e].op IN
    /\ exec[e].step = "retry"
    /\ operation' =
         IF operation[o].state = "merging"
         THEN [operation EXCEPT ![o].state = "waiting", ![o].lease = "none", ![o].retries = @ + 1]
         ELSE operation
    /\ Done(e)
    /\ UNCHANGED <<owner, mergedInto, suspended, attempt, lock, intent, work, unlinking>>

TerminateOperation(e) ==
    LET o == exec[e].op IN
    /\ exec[e].step \in {"expired", "failed"}
    /\ IF operation[o].state \in Terminal THEN UNCHANGED <<operation, lock>>
       ELSE /\ Return(o, exec[e].step)
            /\ Unlock(o)
    /\ Done(e)
    /\ UNCHANGED <<owner, mergedInto, suspended, attempt, intent, work, unlinking>>

\* The process dies, or a statement between the transactions throws.
CrashExecutor(e) ==
    /\ "crash" \in Circumstances
    /\ exec[e].step # "idle"
    /\ Done(e)
    /\ UNCHANGED <<owner, mergedInto, suspended, attempt, operation, lock, intent, work, unlinking>>

-----------------------------------------------------------------------------
(* Meanwhile                                                               *)

\* Merges that have confirmed, locked and not yet given up u's account.
InForce(u) ==
    {o \in Attempts :
       operation[o].state \in InProgress /\ ~operation[o].late /\ u \in Participants(o)}

\* A request for an export or a run first asks whether its user is being merged ...
CheckRequest(w, u) ==
    /\ work[w].step = "idle"
    /\ ~Merged(u) /\ u \notin suspended
    /\ MutationAllowed(u)
    /\ work' = [work EXCEPT ![w].step = "checked", ![w].user = u, ![w].barred = InForce(u)]
    /\ UNCHANGED <<owner, mergedInto, suspended, attempt, operation, lock, intent, exec, unlinking>>

\* Operations that an executor is about to transfer.
DecidedFor(u) ==
    {o \in Attempts :
       u \in Participants(o) /\ \E e \in Executors : exec[e].step = "decided" /\ exec[e].op = o}

\* ... and inserts it in another transaction, if the resume is still the user's.
InsertWork(w) ==
    LET u == work[w].user IN
    /\ work[w].step = "checked"
    /\ work' = [work EXCEPT ![w].step = IF Merged(u) THEN "done" ELSE "active",
                            ![w].past = DecidedFor(u)]
    /\ UNCHANGED <<owner, mergedInto, suspended, attempt, operation, lock, intent, exec, unlinking>>

FinishWork(w) ==
    /\ work[w].step = "active"
    /\ work' = [work EXCEPT ![w].step = "done"]
    /\ UNCHANGED <<owner, mergedInto, suspended, attempt, operation, lock, intent, exec, unlinking>>

\* An administrator suspends an account, whether it is locked or not.
Suspend(u) ==
    /\ "suspend" \in Circumstances
    /\ u \notin suspended
    /\ suspended' = suspended \cup {u}
    /\ UNCHANGED <<owner, mergedInto, attempt, operation, lock, intent, exec, work, unlinking>>

\* The owner of the identity gives it up: the route asks whether its account is being
\* merged (blockSocialMutationDuringMerge) ...
AskUnlink(u) ==
    /\ "unlink" \in Circumstances
    /\ unlinking = NoUser       \* bound: one such request at a time
    /\ u = owner
    /\ MutationAllowed(u)
    /\ unlinking' = u
    /\ UNCHANGED <<owner, mergedInto, suspended, attempt, operation, lock, intent, exec, work>>

\* ... and better-auth then deletes what that user has of it.
Unlink ==
    /\ unlinking # NoUser
    /\ owner' = IF owner = unlinking THEN NoUser ELSE owner
    /\ unlinking' = NoUser
    /\ UNCHANGED <<mergedInto, suspended, attempt, operation, lock, intent, exec, work>>

Next ==
    \/ \E a \in Attempts, u \in Users : CreateSocialLinkAttempt(a, u)
    \/ \E a \in Attempts :
         \/ CaptureSocialLinkProviderSubject(a) \/ ResolveSocialLinkAttempt(a)
         \/ VerifyAccountMergeIntent(a) \/ CancelCreatedMergeOperation(a)
         \/ \E u \in Users : EvaluateConfirmation(a, u)
         \/ \E e \in Executors : ConfirmMergeOperation(a, e) \/ PickOperation(e, a)
         \/ DeadlinePasses(a) \/ ExpireLease(a)
    \/ \E e \in Executors :
         \/ Decide(e) \/ ExecuteTransfer(e) \/ TransferFails(e) \/ ReleaseForRetry(e)
         \/ TerminateOperation(e) \/ CrashExecutor(e)
    \/ \E w \in Work :
         InsertWork(w) \/ FinishWork(w) \/ \E u \in Users : CheckRequest(w, u)
    \/ \E u \in Users : Suspend(u) \/ AskUnlink(u)
    \/ Unlink

Spec == Init /\ [][Next]_vars

\* Time passes and the maintenance timer runs; an executor may crash, but not each
\* time before the same statement.  Work may never end.
Fairness ==
    /\ \A o \in Attempts : WF_vars(DeadlinePasses(o)) /\ WF_vars(ExpireLease(o))
    /\ \A o \in Attempts : SF_vars(\E e \in Executors : PickOperation(e, o))
    /\ SF_vars(\E e \in Executors : Decide(e))
    /\ SF_vars(\E e \in Executors : ExecuteTransfer(e) \/ TransferFails(e))
    /\ SF_vars(\E e \in Executors : ReleaseForRetry(e))
    /\ SF_vars(\E e \in Executors : TerminateOperation(e))

FairSpec == Spec /\ Fairness

-----------------------------------------------------------------------------
TypeOK ==
    /\ owner \in Users \cup {NoUser}
    /\ mergedInto \in [Users -> Users \cup {NoUser}]
    /\ suspended \subseteq Users
    /\ attempt \in [Attempts -> Attempt]
    /\ operation \in [Attempts -> Operation]
    /\ \A o \in Attempts : operation[o].lease # "none" <=> operation[o].state = "merging"
    /\ lock \in [Users -> 0..MaxAttempts]
    /\ intent \in [Attempts -> Users \cup {NoUser}]
    /\ exec \in [Executors -> Executor]
    /\ work \in [Work -> Request]
    /\ unlinking \in Users \cup {NoUser}

\* An operation in progress holds the locks of both its accounts, to its end and
\* through crashes, retries and late executors, and no other operation is locked
\* in: an account takes part in one merge at a time.
LocksGuardOperations ==
    /\ \A o \in Attempts : operation[o].state \in InProgress =>
         \A u \in Participants(o) : lock[u] = o
    /\ \A u \in Users : lock[u] # 0 =>
         operation[lock[u]].state \in InProgress /\ u \in Participants(lock[u])

\* Whatever accounts are merged in whatever order, including confirmations decided
\* before another merge has completed, there is always an account at the end: no
\* set of accounts is merged only into one another.
SomeAccountRemains ==
    \A S \in SUBSET Users : S # {} => \E u \in S : mergedInto[u] \notin S

\* Nothing that was in progress when the executor looked is moved while it is in
\* progress: work that a transfer finds active was inserted after that look, by a
\* request that had asked before the accounts were locked or after their deadline.
OnlyLateWorkMoves ==
    [][\A o \in Attempts :
         operation'[o].state = "completed" /\ operation[o].state # "completed" =>
           \A w \in Work : work[w].step = "active" /\ work[w].user \in Participants(o) =>
             o \in work[w].past \ work[w].barred]_vars

\* A confirmed merge ends, even if its work does not, with executors that crash and
\* a database that fails: both accounts are unlocked again.
EveryMergeEnds ==
    \A o \in Attempts : (\E u \in Users : lock[u] = o) ~> (\A u \in Users : lock[u] # o)
=============================================================================

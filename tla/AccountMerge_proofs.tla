------------------------- MODULE AccountMerge_proofs -------------------------
(* Theorems about AccountMerge for every value of its constants.           *)
EXTENDS AccountMerge, TLAPS

\* The accounts of an operation never change once it exists, and are two.
OperationsOK ==
    \A a \in Attempts :
        /\ attempt[a].state # "none" => attempt[a].user \in Users
        /\ operation[a].state # "none" =>
             /\ attempt[a].state = "consumed"
             /\ operation[a].initiating \in Users /\ operation[a].target \in Users
             /\ operation[a].initiating # operation[a].target
        /\ intent[a] # NoUser => operation[a].state # "none" /\ intent[a] \in Participants(a)
        /\ operation[a].state \in InProgress =>
             /\ operation[a].primary \in Participants(a)
             /\ operation[a].secondary \in Participants(a)
             /\ operation[a].primary # operation[a].secondary

\* Executors know only operations that have been confirmed.
ExecutorsOK ==
    \A e \in Executors : exec[e].step # "idle" =>
        /\ exec[e].op \in Attempts
        /\ operation[exec[e].op].state \in InProgress \cup Terminal

\* What is in progress although an executor is to transfer it came too late for it.
LateWorkOK ==
    \A e \in Executors, w \in Work :
        /\ exec[e].step = "decided" /\ operation[exec[e].op].state \in InProgress
        /\ work[w].step = "active" /\ work[w].user \in Participants(exec[e].op)
        => exec[e].op \in work[w].past

\* No request asks about an account while a merge of it is in force and goes on.
RequestsOK == \A w \in Work : work[w].barred = {}

IInv ==
    /\ TypeOK /\ OperationsOK /\ ExecutorsOK /\ LateWorkOK /\ RequestsOK
    /\ LocksGuardOperations /\ SomeAccountRemains

-----------------------------------------------------------------------------
(* Type correctness                                                        *)

LEMMA InitType == ASSUME MergeConstants, Init PROVE TypeOK
<1> USE DEF MergeConstants, Init
<1>1. owner \in Users \cup {NoUser} /\ mergedInto \in [Users -> Users \cup {NoUser}] /\ suspended \subseteq Users
  OBVIOUS
<1>2. attempt \in [Attempts -> Attempt]
  BY DEF Attempt
<1>3. operation \in [Attempts -> Operation]
  BY DEF Operation
<1>4. \A o \in Attempts : operation[o].lease = "none" /\ operation[o].state = "none"
  OBVIOUS
<1>5. lock \in [Users -> 0..MaxAttempts] /\ intent \in [Attempts -> Users \cup {NoUser}]
  OBVIOUS
<1>6. exec \in [Executors -> Executor]
  BY DEF Executor, Idle
<1>7. work \in [Work -> Request]
  BY DEF Request
<1>8. unlinking \in Users \cup {NoUser}
  OBVIOUS
<1> QED BY <1>1, <1>2, <1>3, <1>4, <1>5, <1>6, <1>7, <1>8 DEF TypeOK

\* The rows of operations and the locks, as every action that writes them leaves them.
OperationType(op) ==
    /\ op \in [Attempts -> Operation]
    /\ \A o \in Attempts : op[o].lease # "none" <=> op[o].state = "merging"

LEMMA PutType ==
    ASSUME TypeOK, NEW o \in Attempts, NEW r \in Operation,
           r.lease # "none" <=> r.state = "merging", operation' = [operation EXCEPT ![o] = r]
    PROVE  OperationType(operation')
<1>1. operation' \in [Attempts -> Operation]
  BY DEF TypeOK
<1>2. ASSUME NEW p \in Attempts
      PROVE  operation'[p].lease # "none" <=> operation'[p].state = "merging"
  BY DEF TypeOK
<1> QED BY <1>1, <1>2 DEF OperationType

\* The rows that the actions write.
LEMMA LateRow ==
    ASSUME NEW a \in Operation, NEW b, b = [a EXCEPT !.late = TRUE]
    PROVE  b \in Operation /\ b.state = a.state /\ b.lease = a.lease
BY DEF Operation

LEMMA MergingRow ==
    ASSUME NEW a \in Operation, NEW b, b = [a EXCEPT !.state = "merging", !.lease = "held"]
    PROVE  b \in Operation /\ b.state = "merging" /\ b.lease = "held"
BY DEF Operation, InProgress

LEMMA RetriedRow ==
    ASSUME NEW a \in Operation, NEW b,
           b = [a EXCEPT !.state = "waiting", !.lease = "none", !.retries = @ + 1]
    PROVE  b \in Operation /\ b.state = "waiting" /\ b.lease = "none"
<1>1. PICK n : n = a.retries + 1
  OBVIOUS
<1>2. n \in Nat /\ b = [a EXCEPT !.state = "waiting", !.lease = "none", !.retries = n]
  BY <1>1 DEF Operation
<1> QED BY <1>2 DEF Operation, InProgress

LEMMA DecidedExecutor ==
    ASSUME NEW a \in Executor, NEW n \in Nat, NEW b,
           b = [a EXCEPT !.step = "decided", !.leased = FALSE, !.retries = n]
    PROVE  b \in Executor
BY DEF Executor

LEMMA ReturnType ==
    ASSUME TypeOK, NEW o \in Attempts, NEW state \in {"waiting"} \cup Terminal, Return(o, state)
    PROVE  OperationType(operation')
<1>0. PICK q \in Operation : q = operation[o]
  BY DEF TypeOK
<1>1. PICK r : r = [q EXCEPT !.state = state, !.lease = "none"]
  OBVIOUS
<1>2. r \in Operation /\ r.lease = "none" /\ r.state = state
  BY ONLY <1>1, q \in Operation, state \in {"waiting"} \cup Terminal
     DEF Operation, InProgress, Terminal
<1>3. operation' = [operation EXCEPT ![o] = r]
  BY <1>0, <1>1 DEF Return, TypeOK
<1>4. state # "merging"
  BY DEF Terminal
<1> QED BY <1>2, <1>3, <1>4, PutType

LEMMA UnlockType == ASSUME MergeConstants, TypeOK, NEW o, Unlock(o) PROVE lock' \in [Users -> 0..MaxAttempts]
BY DEF TypeOK, Unlock, MergeConstants

LEMMA DoneType ==
    ASSUME MergeConstants, TypeOK, NEW e \in Executors, Done(e)
    PROVE  exec' \in [Executors -> Executor]
BY DEF TypeOK, Done, Idle, Executor, MergeConstants

LEMMA BecomeType ==
    ASSUME TypeOK, NEW e \in Executors, NEW step \in {"retry", "expired", "failed"}, Become(e, step)
    PROVE  exec' \in [Executors -> Executor]
BY DEF TypeOK, Become, Executor

LEMMA TypeStep ==
    ASSUME MergeConstants, TypeOK, OperationsOK, ExecutorsOK, [Next]_vars
    PROVE  TypeOK'
<1> USE DEF MergeConstants
<1>1. ASSUME NEW a \in Attempts, NEW u \in Users, CreateSocialLinkAttempt(a, u) PROVE TypeOK'
  BY <1>1 DEF CreateSocialLinkAttempt, TypeOK, Attempt
<1>2. ASSUME NEW a \in Attempts, CaptureSocialLinkProviderSubject(a) PROVE TypeOK'
  BY <1>2 DEF CaptureSocialLinkProviderSubject, TypeOK, Attempt, SetAttempt
<1>3. ASSUME NEW a \in Attempts, ResolveSocialLinkAttempt(a) PROVE TypeOK'
  <2>1. PICK state \in {"consumed", "collision", "cancelled"} :
          attempt' = [attempt EXCEPT ![a].state = state]
    BY <1>3 DEF ResolveSocialLinkAttempt, SetAttempt
  <2>2. attempt' \in [Attempts -> Attempt]
    BY <2>1 DEF TypeOK, Attempt
  <2>3. owner' \in Users \cup {NoUser}
    BY <1>3 DEF ResolveSocialLinkAttempt, TypeOK, Attempt
  <2> QED BY <1>3, <2>2, <2>3 DEF ResolveSocialLinkAttempt, TypeOK
<1>4. ASSUME NEW a \in Attempts, VerifyAccountMergeIntent(a) PROVE TypeOK'
  <2>1. attempt[a].user \in Users /\ owner \in Users
    BY <1>4 DEF VerifyAccountMergeIntent, OperationsOK, TypeOK
  <2>2. operation[a].state = "none"
    BY <1>4 DEF VerifyAccountMergeIntent, OperationsOK
  <2> DEFINE u == attempt[a].user
  <2>0. PICK q \in Operation : q = operation[a]
    BY DEF TypeOK
  <2>3. PICK r : r = [q EXCEPT !.state = "created", !.initiating = u, !.target = owner]
    OBVIOUS
  <2>4. r \in Operation /\ r.state = "created" /\ r.lease = operation[a].lease
    <3>1. u \in Users /\ owner \in Users
      BY <2>1
    <3> HIDE DEF u
    <3> QED BY <2>0, <3>1, <2>3 DEF Operation
  <2>5. operation' = [operation EXCEPT ![a] = r]
    BY <1>4, <2>0, <2>3 DEF VerifyAccountMergeIntent, TypeOK
  <2>6. OperationType(operation')
    BY <2>2, <2>4, <2>5, PutType DEF TypeOK
  <2>7. attempt' \in [Attempts -> Attempt]
    BY <1>4 DEF VerifyAccountMergeIntent, SetAttempt, TypeOK, Attempt
  <2> QED BY <2>6, <2>7, <1>4 DEF VerifyAccountMergeIntent, TypeOK, OperationType
<1>5. ASSUME NEW a \in Attempts, CancelCreatedMergeOperation(a) PROVE TypeOK'
  <2>1. PICK r : r = [operation[a] EXCEPT !.state = "cancelled"]
    OBVIOUS
  <2>2. r \in Operation /\ r.state = "cancelled" /\ r.lease = operation[a].lease
    BY <2>1 DEF TypeOK, Operation, Terminal
  <2>3. operation' = [operation EXCEPT ![a] = r]
    BY <1>5, <2>1 DEF CancelCreatedMergeOperation, TypeOK
  <2>4. OperationType(operation')
    <3>1. operation[a].lease = "none"
      BY <1>5 DEF CancelCreatedMergeOperation, TypeOK
    <3>2. r.lease # "none" <=> r.state = "merging"
      BY <3>1, <2>2
    <3> QED BY <3>2, <2>2, <2>3, PutType
  <2> QED BY <2>4, <1>5 DEF CancelCreatedMergeOperation, TypeOK, OperationType
<1>6. ASSUME NEW a \in Attempts, NEW u \in Users, EvaluateConfirmation(a, u) PROVE TypeOK'
  BY <1>6 DEF EvaluateConfirmation, TypeOK
<1>7. ASSUME NEW a \in Attempts, NEW e \in Executors, ConfirmMergeOperation(a, e) PROVE TypeOK'
  <2>1. intent' \in [Attempts -> Users \cup {NoUser}]
    BY <1>7 DEF ConfirmMergeOperation, TypeOK
  <2>2. CASE operation[a].state = "created" /\ Unlocked(a)
    <3>1. PICK v : v = CHOOSE u \in Participants(a) : u # intent[a]
      OBVIOUS
    <3>2. v \in Users
      BY <1>7, <3>1, <2>2 DEF ConfirmMergeOperation, OperationsOK, Participants
    <3> DEFINE u == intent[a]
    <3>0. PICK q \in Operation : q = operation[a]
      BY DEF TypeOK
    <3>3. PICK r : r = [q EXCEPT !.state = "confirmed", !.primary = u, !.secondary = v]
      OBVIOUS
    <3>4. OperationType(operation')
      <4>1. r \in Operation /\ r.state = "confirmed" /\ r.lease = operation[a].lease
        <5>1. u \in Users \cup {NoUser}
          BY DEF TypeOK
        <5> HIDE DEF u
        <5> QED BY <5>1, <3>0, <3>2, <3>3 DEF Operation, InProgress
      <4>2. operation' = [operation EXCEPT ![a] = r]
        BY <1>7, <2>2, <3>0, <3>1, <3>3 DEF ConfirmMergeOperation, TypeOK
      <4> QED BY <4>1, <4>2, <2>2, PutType DEF TypeOK
    <3>5. lock' \in [Users -> 0..MaxAttempts]
      <4>1. a \in 0..MaxAttempts
        BY DEF Attempts
      <4>2. lock' = [w \in Users |-> IF w \in Participants(a) THEN a ELSE lock[w]]
        BY <1>7, <2>2 DEF ConfirmMergeOperation
      <4> QED BY <4>1, <4>2 DEF TypeOK
    <3>6. exec' \in [Executors -> Executor]
      <4>1. Picked(a) \in Executor
        BY DEF Picked, Executor, TypeOK, Operation, Attempts
      <4> QED BY <4>1, <1>7, <2>2 DEF ConfirmMergeOperation, TypeOK
    <3> QED BY <2>1, <3>4, <3>5, <3>6, <1>7 DEF ConfirmMergeOperation, TypeOK, OperationType
  <2>3. CASE ~(operation[a].state = "created" /\ Unlocked(a))
    BY <2>1, <2>3, <1>7 DEF ConfirmMergeOperation, TypeOK
  <2> QED BY <2>2, <2>3
<1>8. ASSUME NEW a \in Attempts, NEW e \in Executors, PickOperation(e, a) PROVE TypeOK'
  <2>1. Picked(a) \in Executor
    BY DEF Picked, Executor, TypeOK, Operation, Attempts
  <2> QED BY <2>1, <1>8 DEF PickOperation, TypeOK
<1>9. ASSUME NEW a \in Attempts, DeadlinePasses(a) PROVE TypeOK'
  <2>1. PICK r : r = [operation[a] EXCEPT !.late = TRUE]
    OBVIOUS
  <2>2. r \in Operation /\ r.state = operation[a].state /\ r.lease = operation[a].lease
    BY <2>1, LateRow DEF TypeOK
  <2>3. operation' = [operation EXCEPT ![a] = r]
    BY <1>9, <2>1 DEF DeadlinePasses, TypeOK
  <2>4. OperationType(operation')
    BY <2>2, <2>3, PutType DEF TypeOK
  <2>5. UNCHANGED <<owner, mergedInto, suspended, attempt, lock, intent, exec, work, unlinking>>
    BY <1>9 DEF DeadlinePasses
  <2> QED BY <2>4, <2>5 DEF TypeOK, OperationType
<1>10. ASSUME NEW a \in Attempts, ExpireLease(a) PROVE TypeOK'
  <2>1. exec' \in [Executors -> Executor]
    <3>1. ASSUME NEW e \in Executors PROVE [exec[e] EXCEPT !.leased = TRUE] \in Executor
      <4>1. exec[e] \in Executor
        BY DEF TypeOK
      <4> QED BY ONLY <4>1 DEF Executor
    <3>2. exec' = [e \in Executors |->
            IF exec[e].step = "picked" /\ exec[e].op = a
            THEN [exec[e] EXCEPT !.leased = TRUE] ELSE exec[e]]
      BY <1>10 DEF ExpireLease
    <3> QED BY <3>1, <3>2 DEF TypeOK
  <2>2. OperationType(operation')
    <3>1. PICK r : r = [operation[a] EXCEPT !.lease = "late"]
      OBVIOUS
    <3>2. r \in Operation /\ r.state = "merging" /\ r.lease = "late"
      <4>1. operation[a] \in Operation /\ operation[a].state = "merging"
        BY <1>10 DEF ExpireLease, TypeOK
      <4> QED BY ONLY <3>1, <4>1 DEF Operation
    <3>3. operation' = [operation EXCEPT ![a] = r]
      BY <1>10, <3>1 DEF ExpireLease, TypeOK
    <3> QED BY <3>2, <3>3, PutType
  <2> QED BY <2>1, <2>2, <1>10 DEF ExpireLease, TypeOK, OperationType
<1>11. ASSUME NEW e \in Executors, Decide(e) PROVE TypeOK'
  <2> DEFINE o == exec[e].op
  <2>1. o \in Attempts
    BY <1>11 DEF Decide, ExecutorsOK
  <2>2. OperationType(operation')
    <3>1. CASE UNCHANGED operation
      BY <3>1 DEF OperationType, TypeOK
    <3>2. CASE Return(o, "waiting")
      BY <3>2, <2>1, ReturnType
    <3>3. CASE operation' = [operation EXCEPT ![o].state = "merging", ![o].lease = "held"]
      <4>1. PICK r : r = [operation[o] EXCEPT !.state = "merging", !.lease = "held"]
        OBVIOUS
      <4>2. r \in Operation /\ r.state = "merging" /\ r.lease = "held"
        BY <4>1, <2>1, MergingRow DEF TypeOK
      <4>3. operation' = [operation EXCEPT ![o] = r]
        BY <3>3, <4>1, <2>1 DEF TypeOK
      <4> QED BY <4>2, <4>3, <2>1, PutType
    <3> QED BY <3>1, <3>2, <3>3, <1>11 DEF Decide
  <2>3. exec' \in [Executors -> Executor]
    <3>1. CASE Done(e)
      BY <3>1, DoneType
    <3>2. CASE Become(e, "expired")
      BY <3>2, BecomeType
    <3>3. CASE exec' = [exec EXCEPT ![e].step = "decided", ![e].leased = FALSE,
                                    ![e].retries = operation[o].retries]
      <4>1. operation[o].retries \in Nat
        BY <2>1 DEF TypeOK, Operation, InProgress, Terminal
      <4>2. PICK r : r = [exec[e] EXCEPT !.step = "decided", !.leased = FALSE,
                                         !.retries = operation[o].retries]
        OBVIOUS
      <4>3. r \in Executor
        BY <4>1, <4>2, DecidedExecutor DEF TypeOK
      <4>4. exec' = [exec EXCEPT ![e] = r]
        BY <3>3, <4>2 DEF TypeOK
      <4> QED BY <4>3, <4>4 DEF TypeOK
    <3> QED BY <3>1, <3>2, <3>3, <1>11 DEF Decide
  <2> QED BY <2>2, <2>3, <1>11 DEF Decide, TypeOK, OperationType
<1>12. ASSUME NEW e \in Executors, ExecuteTransfer(e) PROVE TypeOK'
  <2> DEFINE o == exec[e].op
  <2>1. o \in Attempts
    BY <1>12 DEF ExecuteTransfer, ExecutorsOK
  <2>2. operation[o].state \in InProgress
    BY <1>12 DEF ExecuteTransfer, Transferable, InProgress
  <2>3. operation[o].primary \in Users /\ operation[o].secondary \in Users
    BY <2>1, <2>2 DEF OperationsOK, Participants, InProgress
  <2>4. OperationType(operation')
    BY <1>12, <2>1, ReturnType DEF ExecuteTransfer, Terminal
  <2>5. lock' \in [Users -> 0..MaxAttempts]
    BY <1>12, UnlockType DEF ExecuteTransfer
  <2>6. exec' \in [Executors -> Executor]
    BY <1>12, DoneType DEF ExecuteTransfer
  <2>7. work' \in [Work -> Request]
    BY <1>12, <2>3 DEF ExecuteTransfer, TypeOK, Request
  <2> QED BY <2>3, <2>4, <2>5, <2>6, <2>7, <1>12 DEF ExecuteTransfer, TypeOK, OperationType
<1>13. ASSUME NEW e \in Executors, TransferFails(e) PROVE TypeOK'
  <2>1. exec' \in [Executors -> Executor]
    BY <1>13, DoneType, BecomeType DEF TransferFails
  <2> QED BY <2>1, <1>13 DEF TransferFails, TypeOK
<1>14. ASSUME NEW e \in Executors, ReleaseForRetry(e) PROVE TypeOK'
  <2>1. exec' \in [Executors -> Executor]
    BY <1>14, DoneType DEF ReleaseForRetry
  <2>2. OperationType(operation')
    <3> DEFINE o == exec[e].op
    <3>1. CASE UNCHANGED operation
      BY <3>1 DEF OperationType, TypeOK
    <3>2. CASE operation' = [operation EXCEPT ![o].state = "waiting", ![o].lease = "none",
                                              ![o].retries = @ + 1]
      <4>1. o \in Attempts
        BY <1>14 DEF ReleaseForRetry, ExecutorsOK
      <4>2. PICK r : r = [operation[o] EXCEPT !.state = "waiting", !.lease = "none",
                                              !.retries = @ + 1]
        OBVIOUS
      <4>3. r \in Operation /\ r.state = "waiting" /\ r.lease = "none"
        BY <4>1, <4>2, RetriedRow DEF TypeOK
      <4>4. operation' = [operation EXCEPT ![o] = r]
        BY <3>2, <4>1, <4>2 DEF TypeOK
      <4> QED BY <4>1, <4>3, <4>4, PutType
    <3> QED BY <3>1, <3>2, <1>14 DEF ReleaseForRetry
  <2> QED BY <2>1, <2>2, <1>14 DEF ReleaseForRetry, TypeOK, OperationType
<1>15. ASSUME NEW e \in Executors, TerminateOperation(e) PROVE TypeOK'
  <2> DEFINE o == exec[e].op
  <2>1. o \in Attempts
    BY <1>15 DEF TerminateOperation, ExecutorsOK
  <2>2. exec' \in [Executors -> Executor]
    BY <1>15, DoneType DEF TerminateOperation
  <2>3. CASE operation[o].state \in Terminal
    BY <2>2, <2>3, <1>15 DEF TerminateOperation, TypeOK
  <2>4. CASE operation[o].state \notin Terminal
    <3>1. OperationType(operation')
      BY <1>15, <2>1, <2>4, ReturnType DEF TerminateOperation, Terminal
    <3>2. lock' \in [Users -> 0..MaxAttempts]
      BY <1>15, <2>4, UnlockType DEF TerminateOperation
    <3> QED BY <2>2, <3>1, <3>2, <1>15 DEF TerminateOperation, TypeOK, OperationType
  <2> QED BY <2>3, <2>4
<1>16. ASSUME NEW e \in Executors, CrashExecutor(e) PROVE TypeOK'
  <2>1. exec' \in [Executors -> Executor]
    BY <1>16, DoneType DEF CrashExecutor
  <2> QED BY <2>1, <1>16 DEF CrashExecutor, TypeOK
<1>17. ASSUME NEW w \in Work, InsertWork(w) PROVE TypeOK'
  <2>1. DecidedFor(work[w].user) \subseteq Attempts
    BY DEF DecidedFor
  <2>2. PICK q \in Request : q = work[w]
    BY DEF TypeOK
  <2>3. PICK step, past, r :
          /\ step = IF Merged(q.user) THEN "done" ELSE "active"
          /\ past = DecidedFor(q.user)
          /\ r = [q EXCEPT !.step = step, !.past = past]
    OBVIOUS
  <2>4. step \in {"done", "active"} /\ past \in SUBSET Attempts
    BY ONLY <2>1, <2>2, <2>3
  <2>5. r \in Request
    BY ONLY <2>3, <2>4, q \in Request DEF Request
  <2>6. work' = [work EXCEPT ![w] = r]
    BY <1>17, <2>2, <2>3 DEF InsertWork, TypeOK
  <2>7. work' \in [Work -> Request]
    BY <2>5, <2>6 DEF TypeOK
  <2>8. UNCHANGED <<owner, mergedInto, suspended, attempt, operation, lock, intent, exec, unlinking>>
    BY <1>17 DEF InsertWork
  <2> QED BY <2>7, <2>8 DEF TypeOK
<1>18. ASSUME NEW w \in Work, FinishWork(w) PROVE TypeOK'
  <2>1. [work[w] EXCEPT !.step = "done"] \in Request
    <3>1. work[w] \in Request
      BY DEF TypeOK
    <3> QED BY ONLY <3>1 DEF Request
  <2>2. work' \in [Work -> Request]
    BY <1>18, <2>1 DEF FinishWork, TypeOK
  <2> QED BY <1>18, <2>2 DEF FinishWork, TypeOK
<1>19. ASSUME NEW w \in Work, NEW u \in Users, CheckRequest(w, u) PROVE TypeOK'
  <2>0. PICK barred \in SUBSET Attempts : barred = InForce(u)
    BY DEF InForce
  <2>1. [work[w] EXCEPT !.step = "checked", !.user = u, !.barred = barred] \in Request
    <3>1. work[w] \in Request
      BY DEF TypeOK
    <3> QED BY ONLY <3>1, u \in Users, barred \in SUBSET Attempts DEF Request
  <2>2. work' \in [Work -> Request]
    BY <1>19, <2>0, <2>1 DEF CheckRequest, TypeOK
  <2> QED BY <1>19, <2>2 DEF CheckRequest, TypeOK
<1>20. ASSUME NEW u \in Users, Suspend(u) PROVE TypeOK'
  BY <1>20 DEF Suspend, TypeOK
<1>21. CASE Unlink
  BY <1>21 DEF Unlink, TypeOK
<1>22. ASSUME NEW u \in Users, AskUnlink(u) PROVE TypeOK'
  BY <1>22 DEF AskUnlink, TypeOK
<1>23. CASE UNCHANGED vars
  BY <1>23 DEF vars, TypeOK
<1> QED
  BY <1>1, <1>2, <1>3, <1>4, <1>5, <1>6, <1>7, <1>8, <1>9, <1>10, <1>11, <1>12, <1>13,
     <1>14, <1>15, <1>16, <1>17, <1>18, <1>19, <1>20, <1>21, <1>22, <1>23 DEF Next

-----------------------------------------------------------------------------
(* The accounts of an operation, and what executors know                   *)

LEMMA InitRest ==
    ASSUME MergeConstants, Init
    PROVE  /\ OperationsOK /\ ExecutorsOK /\ LateWorkOK /\ RequestsOK
           /\ LocksGuardOperations /\ SomeAccountRemains
<1>1. OperationsOK
  BY DEF Init, OperationsOK, InProgress
<1>2. ExecutorsOK /\ LateWorkOK /\ RequestsOK
  BY DEF Init, ExecutorsOK, LateWorkOK, RequestsOK, Idle
<1>3. LocksGuardOperations
  BY DEF Init, LocksGuardOperations, InProgress
<1>4. SomeAccountRemains
  BY DEF Init, SomeAccountRemains, MergeConstants
<1> QED BY <1>1, <1>2, <1>3, <1>4

\* What every step does to an operation: its accounts are set when it is created
\* and never again, and it does not come back to life.
OperationStep(a) ==
    /\ operation[a].state # "none" =>
         /\ operation'[a].initiating = operation[a].initiating
         /\ operation'[a].target = operation[a].target
         /\ operation'[a].state # "none"
    /\ operation[a].state \in InProgress \cup Terminal =>
         /\ operation'[a].state \in InProgress \cup Terminal
         /\ operation'[a].primary = operation[a].primary
         /\ operation'[a].secondary = operation[a].secondary
    /\ operation[a].state \in Terminal => operation'[a].state = operation[a].state

LEMMA SameOperation == ASSUME NEW a \in Attempts, operation'[a] = operation[a] PROVE OperationStep(a)
BY DEF OperationStep

\* An action that changes only the state, deadline, lease or retries of one operation.
LEMMA StateStep ==
    ASSUME TypeOK, NEW o \in Attempts, NEW a \in Attempts, NEW r,
           operation' = [operation EXCEPT ![o] = r],
           r.initiating = operation[o].initiating, r.target = operation[o].target,
           r.primary = operation[o].primary, r.secondary = operation[o].secondary,
           operation[o].state \in InProgress => r.state \in InProgress \cup Terminal,
           operation[o].state \in Terminal => r.state = operation[o].state,
           operation[o].state # "none" => r.state # "none"
    PROVE  OperationStep(a)
<1>1. CASE a = o
  BY <1>1 DEF OperationStep, TypeOK
<1>2. CASE a # o
  BY <1>2, SameOperation DEF TypeOK
<1> QED BY <1>1, <1>2

LEMMA ReturnStep ==
    ASSUME TypeOK, NEW o \in Attempts, NEW a \in Attempts, NEW state \in {"waiting"} \cup Terminal,
           Return(o, state), operation[o].state \in InProgress
    PROVE  OperationStep(a)
<1>1. PICK q \in Operation : q = operation[o]
  BY DEF TypeOK
<1>2. PICK r : r = [q EXCEPT !.state = state, !.lease = "none"]
  OBVIOUS
<1>3. operation' = [operation EXCEPT ![o] = r]
  BY <1>1, <1>2 DEF Return, TypeOK
<1>4. /\ r.initiating = q.initiating /\ r.target = q.target
      /\ r.primary = q.primary /\ r.secondary = q.secondary /\ r.state = state
  BY <1>2 DEF Operation
<1>5. state \in InProgress \cup Terminal /\ state # "none" /\ operation[o].state \notin Terminal
  BY DEF InProgress, Terminal
<1> QED BY <1>1, <1>3, <1>4, <1>5, StateStep

\* The actions that write operations.
LEMMA OperationWriters ==
    ASSUME [Next]_vars, operation' # operation
    PROVE  \/ \E o \in Attempts :
                \/ VerifyAccountMergeIntent(o) \/ CancelCreatedMergeOperation(o)
                \/ \E e \in Executors : ConfirmMergeOperation(o, e)
                \/ DeadlinePasses(o) \/ ExpireLease(o)
           \/ \E e \in Executors :
                \/ Decide(e) \/ ExecuteTransfer(e) \/ ReleaseForRetry(e) \/ TerminateOperation(e)
BY Zenon DEF Next, vars, CreateSocialLinkAttempt, CaptureSocialLinkProviderSubject,
   ResolveSocialLinkAttempt, EvaluateConfirmation, PickOperation, TransferFails, CrashExecutor,
   CheckRequest, InsertWork, FinishWork, Suspend, AskUnlink, Unlink

LEMMA OperationsStep ==
    ASSUME MergeConstants, TypeOK, OperationsOK, ExecutorsOK, [Next]_vars, NEW a \in Attempts
    PROVE  OperationStep(a)
<1>1. CASE operation' = operation
  BY <1>1, SameOperation
<1>2. ASSUME NEW o \in Attempts, VerifyAccountMergeIntent(o) PROVE OperationStep(a)
  <2>1. operation[o].state = "none"
    BY <1>2 DEF VerifyAccountMergeIntent, OperationsOK
  <2>2. CASE a = o
    BY <2>1, <2>2 DEF OperationStep, InProgress, Terminal
  <2>3. CASE a # o
    BY <2>3, <1>2, SameOperation DEF VerifyAccountMergeIntent, TypeOK
  <2> QED BY <2>2, <2>3
<1>3. ASSUME NEW o \in Attempts, CancelCreatedMergeOperation(o) PROVE OperationStep(a)
  <2>1. PICK q \in Operation : q = operation[o]
    BY DEF TypeOK
  <2>2. PICK r : r = [q EXCEPT !.state = "cancelled"]
    OBVIOUS
  <2>3. operation' = [operation EXCEPT ![o] = r]
    BY <1>3, <2>1, <2>2 DEF CancelCreatedMergeOperation, TypeOK
  <2>4. /\ r.initiating = q.initiating /\ r.target = q.target
        /\ r.primary = q.primary /\ r.secondary = q.secondary /\ r.state = "cancelled"
    BY <2>2 DEF Operation
  <2>5. operation[o].state = "created"
    BY <1>3 DEF CancelCreatedMergeOperation
  <2> QED BY <2>1, <2>3, <2>4, <2>5, StateStep DEF InProgress, Terminal
<1>4. ASSUME NEW o \in Attempts, NEW e \in Executors, ConfirmMergeOperation(o, e) PROVE OperationStep(a)
  <2>1. CASE operation[o].state = "created" /\ Unlocked(o)
    <3>1. PICK v : v = CHOOSE u \in Participants(o) : u # intent[o]
      OBVIOUS
    <3>2. operation' = [operation EXCEPT ![o].state = "confirmed", ![o].primary = intent[o],
                                         ![o].secondary = v]
      BY <1>4, <2>1, <3>1 DEF ConfirmMergeOperation
    <3>3. CASE a = o
      <4>1. PICK q \in Operation : q = operation[o]
        BY DEF TypeOK
      <4>2. PICK r : r = [q EXCEPT !.state = "confirmed", !.primary = intent[o], !.secondary = v]
        OBVIOUS
      <4>3. r.initiating = q.initiating /\ r.target = q.target /\ r.state = "confirmed"
        BY <4>2 DEF Operation
      <4>4. operation'[o] = r
        BY <3>2, <4>1, <4>2 DEF TypeOK
      <4> QED BY <2>1, <3>3, <4>1, <4>3, <4>4 DEF OperationStep, InProgress, Terminal
    <3>4. CASE a # o
      BY <3>2, <3>4, SameOperation DEF TypeOK
    <3> QED BY <3>3, <3>4
  <2>2. CASE ~(operation[o].state = "created" /\ Unlocked(o))
    BY <2>2, <1>4, SameOperation DEF ConfirmMergeOperation
  <2> QED BY <2>1, <2>2
<1>5. ASSUME NEW o \in Attempts, DeadlinePasses(o) \/ ExpireLease(o) PROVE OperationStep(a)
  <2>1. PICK q \in Operation : q = operation[o]
    BY DEF TypeOK
  <2>2. PICK r : \/ r = [q EXCEPT !.late = TRUE] /\ DeadlinePasses(o)
                 \/ r = [q EXCEPT !.lease = "late"] /\ ExpireLease(o)
    BY <1>5
  <2>3. operation' = [operation EXCEPT ![o] = r]
    BY <2>1, <2>2 DEF DeadlinePasses, ExpireLease, TypeOK
  <2>4. /\ r.initiating = q.initiating /\ r.target = q.target
        /\ r.primary = q.primary /\ r.secondary = q.secondary /\ r.state = q.state
    BY <2>2 DEF Operation
  <2> QED BY <2>1, <2>3, <2>4, StateStep
<1>6. ASSUME NEW e \in Executors, Decide(e) PROVE OperationStep(a)
  <2> DEFINE o == exec[e].op
  <2>1. o \in Attempts
    BY <1>6 DEF Decide, ExecutorsOK
  <2>2. CASE operation' = operation
    BY <2>2, SameOperation
  <2>3. CASE operation' # operation
    <3>1. operation[o].state \in InProgress
      BY <1>6, <2>3 DEF Decide
    <3>2. CASE Return(o, "waiting")
      BY <3>1, <3>2, <2>1, ReturnStep
    <3>3. CASE operation' = [operation EXCEPT ![o].state = "merging", ![o].lease = "held"]
      <4>1. PICK q \in Operation : q = operation[o]
        BY <2>1 DEF TypeOK
      <4>2. PICK r : r = [q EXCEPT !.state = "merging", !.lease = "held"]
        OBVIOUS
      <4>3. operation' = [operation EXCEPT ![o] = r]
        BY <3>3, <4>1, <4>2, <2>1 DEF TypeOK
      <4>4. /\ r.initiating = q.initiating /\ r.target = q.target
            /\ r.primary = q.primary /\ r.secondary = q.secondary /\ r.state = "merging"
        BY <4>2 DEF Operation
      <4> QED BY <2>1, <3>1, <4>1, <4>3, <4>4, StateStep DEF InProgress, Terminal
    <3> QED BY <1>6, <2>3, <3>2, <3>3 DEF Decide
  <2> QED BY <2>2, <2>3
<1>7. ASSUME NEW e \in Executors, ExecuteTransfer(e) PROVE OperationStep(a)
  <2>1. exec[e].op \in Attempts
    BY <1>7 DEF ExecuteTransfer, ExecutorsOK
  <2> QED BY <2>1, <1>7, ReturnStep DEF ExecuteTransfer, Transferable, InProgress, Terminal
<1>8. ASSUME NEW e \in Executors, ReleaseForRetry(e) PROVE OperationStep(a)
  <2> DEFINE o == exec[e].op
  <2>1. o \in Attempts
    BY <1>8 DEF ReleaseForRetry, ExecutorsOK
  <2>2. CASE operation[o].state = "merging"
    <3>1. PICK q \in Operation : q = operation[o]
      BY <2>1 DEF TypeOK
    <3>2. PICK r : r = [q EXCEPT !.state = "waiting", !.lease = "none", !.retries = @ + 1]
      OBVIOUS
    <3>3. operation' = [operation EXCEPT ![o] = r]
      BY <1>8, <2>2, <3>1, <3>2, <2>1 DEF ReleaseForRetry, TypeOK
    <3>4. /\ r.initiating = q.initiating /\ r.target = q.target
          /\ r.primary = q.primary /\ r.secondary = q.secondary /\ r.state = "waiting"
      BY <3>2 DEF Operation
    <3> QED BY <2>1, <2>2, <3>1, <3>3, <3>4, StateStep DEF InProgress, Terminal
  <2>3. CASE operation[o].state # "merging"
    BY <2>3, <1>8, SameOperation DEF ReleaseForRetry
  <2> QED BY <2>2, <2>3
<1>9. ASSUME NEW e \in Executors, TerminateOperation(e) PROVE OperationStep(a)
  <2> DEFINE o == exec[e].op
  <2>1. o \in Attempts /\ operation[o].state \in InProgress \cup Terminal
    BY <1>9 DEF TerminateOperation, ExecutorsOK
  <2>2. CASE operation[o].state \in Terminal
    BY <2>2, <1>9, SameOperation DEF TerminateOperation
  <2>3. CASE operation[o].state \notin Terminal
    <3>1. exec[e].step \in Terminal
      BY <1>9 DEF TerminateOperation, Terminal
    <3>2. Return(o, exec[e].step)
      BY <1>9, <2>3 DEF TerminateOperation
    <3> QED BY <2>1, <2>3, <3>1, <3>2, ReturnStep
  <2> QED BY <2>2, <2>3
<1> QED BY <1>1, <1>2, <1>3, <1>4, <1>5, <1>6, <1>7, <1>8, <1>9, OperationWriters

\* What every step does to an attempt: once consumed it stays so.
LEMMA AttemptStep ==
    ASSUME MergeConstants, TypeOK, OperationsOK, [Next]_vars, NEW a \in Attempts
    PROVE  /\ attempt'[a].state # "none" => attempt'[a].user \in Users
           /\ attempt[a].state = "consumed" => attempt'[a].state = "consumed"
<1>1. CASE attempt' = attempt
  BY <1>1 DEF OperationsOK
<1>2. ASSUME NEW b \in Attempts, NEW u \in Users, CreateSocialLinkAttempt(b, u)
      PROVE  /\ attempt'[a].state # "none" => attempt'[a].user \in Users
             /\ attempt[a].state = "consumed" => attempt'[a].state = "consumed"
  <2>1. CASE a = b
    BY <1>2, <2>1 DEF CreateSocialLinkAttempt
  <2>2. CASE a # b
    BY <1>2, <2>2 DEF CreateSocialLinkAttempt, OperationsOK, TypeOK, Attempt, Open
  <2> QED BY <2>1, <2>2
<1>3. ASSUME NEW b \in Attempts, NEW state, attempt[b].state \notin {"none", "consumed"},
             SetAttempt(b, state)
      PROVE  /\ attempt'[a].state # "none" => attempt'[a].user \in Users
             /\ attempt[a].state = "consumed" => attempt'[a].state = "consumed"
  <2>1. CASE a = b
    BY <1>3, <2>1 DEF SetAttempt, OperationsOK, TypeOK, Attempt
  <2>2. CASE a # b
    BY <1>3, <2>2 DEF SetAttempt, OperationsOK, TypeOK
  <2> QED BY <2>1, <2>2
<1>4. ASSUME [Next]_vars, attempt' # attempt
      PROVE  \/ \E b \in Attempts, u \in Users : CreateSocialLinkAttempt(b, u)
             \/ \E b \in Attempts : \/ CaptureSocialLinkProviderSubject(b)
                                    \/ ResolveSocialLinkAttempt(b) \/ VerifyAccountMergeIntent(b)
  BY <1>4, Zenon DEF Next, vars, CancelCreatedMergeOperation, EvaluateConfirmation,
     ConfirmMergeOperation, PickOperation, DeadlinePasses, ExpireLease, Decide, ExecuteTransfer,
     TransferFails, ReleaseForRetry, TerminateOperation, CrashExecutor, CheckRequest, InsertWork,
     FinishWork, Suspend, AskUnlink, Unlink
<1>5. ASSUME NEW b \in Attempts, \/ CaptureSocialLinkProviderSubject(b)
                                 \/ ResolveSocialLinkAttempt(b) \/ VerifyAccountMergeIntent(b)
      PROVE  attempt[b].state \notin {"none", "consumed"} /\ \E state : SetAttempt(b, state)
  BY <1>5 DEF CaptureSocialLinkProviderSubject, ResolveSocialLinkAttempt, VerifyAccountMergeIntent
<1> QED BY <1>1, <1>2, <1>3, <1>4, <1>5

\* How an operation begins and is confirmed, and how a confirmation is decided.
LEMMA BecomesCreated ==
    ASSUME MergeConstants, TypeOK, OperationsOK, ExecutorsOK, [Next]_vars, NEW a \in Attempts,
           operation[a].state = "none", operation'[a].state # "none"
    PROVE  VerifyAccountMergeIntent(a)
<1>1. operation' # operation
  OBVIOUS
<1>2. ASSUME NEW o \in Attempts, VerifyAccountMergeIntent(o) PROVE VerifyAccountMergeIntent(a)
  BY <1>2 DEF VerifyAccountMergeIntent, TypeOK
<1>3. ASSUME NEW o \in Attempts, \/ CancelCreatedMergeOperation(o)
                                 \/ \E e \in Executors : ConfirmMergeOperation(o, e)
                                 \/ DeadlinePasses(o) \/ ExpireLease(o)
      PROVE  FALSE
  BY <1>1, <1>3 DEF CancelCreatedMergeOperation, ConfirmMergeOperation, DeadlinePasses,
     ExpireLease, TypeOK, InProgress
<1>4. ASSUME NEW e \in Executors, \/ Decide(e) \/ ExecuteTransfer(e)
                                  \/ ReleaseForRetry(e) \/ TerminateOperation(e)
      PROVE  FALSE
  <2>1. exec[e].op \in Attempts /\ operation[exec[e].op].state # "none"
    BY <1>4 DEF Decide, ExecuteTransfer, ReleaseForRetry, TerminateOperation, ExecutorsOK,
       InProgress, Terminal
  <2>2. operation'[a] = operation[a]
    BY <2>1, <1>4 DEF Decide, ExecuteTransfer, ReleaseForRetry, TerminateOperation, Return, TypeOK
  <2> QED BY <2>2
<1> QED BY <1>1, <1>2, <1>3, <1>4, OperationWriters

LEMMA BecomesConfirmed ==
    ASSUME MergeConstants, TypeOK, OperationsOK, ExecutorsOK, [Next]_vars, NEW a \in Attempts,
           operation[a].state \notin InProgress, operation'[a].state \in InProgress
    PROVE  \E e \in Executors : ConfirmMergeOperation(a, e) /\ operation[a].state = "created"
                                /\ Unlocked(a)
<1>1. operation' # operation
  OBVIOUS
<1>2. ASSUME NEW o \in Attempts, VerifyAccountMergeIntent(o) PROVE FALSE
  <2>1. o = a
    BY <1>2 DEF VerifyAccountMergeIntent, TypeOK
  <2>2. PICK q \in Operation : q = operation[a]
    BY DEF TypeOK
  <2>3. PICK u, v, r : /\ r = [q EXCEPT !.state = "created", !.initiating = u, !.target = v]
                       /\ operation'[a] = r
    BY <1>2, <2>1, <2>2 DEF VerifyAccountMergeIntent, TypeOK
  <2>4. r.state = "created"
    BY <2>3 DEF Operation
  <2> QED BY <2>3, <2>4 DEF InProgress
<1>3. ASSUME NEW o \in Attempts, \/ CancelCreatedMergeOperation(o)
                                 \/ DeadlinePasses(o) \/ ExpireLease(o)
      PROVE  FALSE
  <2>1. CASE a = o
    <3>1. CancelCreatedMergeOperation(a)
      BY <1>3, <2>1 DEF DeadlinePasses, ExpireLease, InProgress
    <3>2. PICK q \in Operation : q = operation[a]
      BY DEF TypeOK
    <3>3. PICK r : r = [q EXCEPT !.state = "cancelled"] /\ operation'[a] = r
      BY <3>1, <3>2 DEF CancelCreatedMergeOperation, TypeOK
    <3>4. r.state = "cancelled"
      BY <3>3 DEF Operation
    <3> QED BY <3>3, <3>4 DEF InProgress
  <2>2. CASE a # o
    BY <2>2, <1>3 DEF CancelCreatedMergeOperation, DeadlinePasses, ExpireLease, TypeOK
  <2> QED BY <2>1, <2>2
<1>4. ASSUME NEW e \in Executors, \/ Decide(e) \/ ExecuteTransfer(e)
                                  \/ ReleaseForRetry(e) \/ TerminateOperation(e)
      PROVE  FALSE
  <2>1. exec[e].op \in Attempts /\ operation[exec[e].op].state \in InProgress \cup Terminal
    BY <1>4 DEF Decide, ExecuteTransfer, ReleaseForRetry, TerminateOperation, ExecutorsOK
  <2>2. OperationStep(a)
    BY OperationsStep
  <2>3. a # exec[e].op
    BY <2>1, <2>2 DEF OperationStep, InProgress, Terminal
  <2>4. operation'[a] = operation[a]
    BY <2>1, <2>3, <1>4 DEF Decide, ExecuteTransfer, ReleaseForRetry, TerminateOperation, Return, TypeOK
  <2> QED BY <2>4
<1>5. ASSUME NEW o \in Attempts, NEW e \in Executors, ConfirmMergeOperation(o, e)
      PROVE  ConfirmMergeOperation(a, e) /\ operation[a].state = "created" /\ Unlocked(a)
  <2>1. operation[o].state = "created" /\ Unlocked(o)
    BY <1>1, <1>5 DEF ConfirmMergeOperation
  <2>2. a = o
    <3>1. PICK q : operation' = [operation EXCEPT ![o] = q]
      BY <1>5, <2>1 DEF ConfirmMergeOperation, TypeOK
    <3> QED BY <3>1 DEF TypeOK
  <2> QED BY <1>5, <2>1, <2>2
<1> QED BY <1>1, <1>2, <1>3, <1>4, <1>5, OperationWriters

LEMMA IntentChanges ==
    ASSUME TypeOK, [Next]_vars, NEW a \in Attempts, intent'[a] # intent[a], intent'[a] # NoUser
    PROVE  \E u \in Users : EvaluateConfirmation(a, u)
<1>1. ASSUME NEW o \in Attempts, NEW u \in Users, EvaluateConfirmation(o, u)
      PROVE  EvaluateConfirmation(a, u)
  BY <1>1 DEF EvaluateConfirmation, TypeOK
<1>2. ASSUME NEW o \in Attempts, NEW e \in Executors, ConfirmMergeOperation(o, e) PROVE FALSE
  BY <1>2 DEF ConfirmMergeOperation, TypeOK
<1>3. intent' # intent
  OBVIOUS
<1>4. \/ \E o \in Attempts, u \in Users : EvaluateConfirmation(o, u)
      \/ \E o \in Attempts, e \in Executors : ConfirmMergeOperation(o, e)
  BY <1>3, Zenon DEF Next, vars, CreateSocialLinkAttempt, CaptureSocialLinkProviderSubject,
     ResolveSocialLinkAttempt, VerifyAccountMergeIntent, CancelCreatedMergeOperation,
     PickOperation, DeadlinePasses, ExpireLease, Decide, ExecuteTransfer, TransferFails,
     ReleaseForRetry, TerminateOperation, CrashExecutor, CheckRequest, InsertWork, FinishWork,
     Suspend, AskUnlink, Unlink
<1> QED BY <1>1, <1>2, <1>4

LEMMA OperationsInvariant ==
    ASSUME MergeConstants, TypeOK, OperationsOK, ExecutorsOK, [Next]_vars
    PROVE  OperationsOK'
<1> SUFFICES ASSUME NEW a \in Attempts
             PROVE  /\ attempt'[a].state # "none" => attempt'[a].user \in Users
                    /\ operation'[a].state # "none" =>
                         /\ attempt'[a].state = "consumed"
                         /\ operation'[a].initiating \in Users /\ operation'[a].target \in Users
                         /\ operation'[a].initiating # operation'[a].target
                    /\ intent'[a] # NoUser =>
                         operation'[a].state # "none" /\ intent'[a] \in Participants(a)'
                    /\ operation'[a].state \in InProgress =>
                         /\ operation'[a].primary \in Participants(a)'
                         /\ operation'[a].secondary \in Participants(a)'
                         /\ operation'[a].primary # operation'[a].secondary
  BY DEF OperationsOK
<1>1. OperationStep(a)
  BY OperationsStep
<1>2. attempt'[a].state # "none" => attempt'[a].user \in Users
  BY AttemptStep
<1>3. ASSUME operation'[a].state # "none"
      PROVE  /\ attempt'[a].state = "consumed"
             /\ operation'[a].initiating \in Users /\ operation'[a].target \in Users
             /\ operation'[a].initiating # operation'[a].target
  <2>1. CASE operation[a].state # "none"
    BY <2>1, <1>1, AttemptStep DEF OperationStep, OperationsOK
  <2>2. CASE operation[a].state = "none"
    <3>1. VerifyAccountMergeIntent(a)
      BY <1>3, <2>2, BecomesCreated
    <3>2. attempt'[a].state = "consumed"
      BY <3>1 DEF VerifyAccountMergeIntent, SetAttempt, TypeOK, Attempt
    <3>3. operation'[a].initiating = attempt[a].user /\ operation'[a].target = owner
      <4>1. PICK q \in Operation : q = operation[a]
        BY DEF TypeOK
      <4>2. PICK u : u = attempt[a].user
        OBVIOUS
      <4>3. PICK r : r = [q EXCEPT !.state = "created", !.initiating = u, !.target = owner]
        OBVIOUS
      <4>4. operation'[a] = r
        BY <3>1, <4>1, <4>2, <4>3 DEF VerifyAccountMergeIntent, TypeOK
      <4>5. r.initiating = u /\ r.target = owner
        BY <4>3 DEF Operation
      <4> QED BY <4>2, <4>4, <4>5
    <3>4. attempt[a].user \in Users /\ owner \in Users /\ attempt[a].user # owner
      BY <3>1 DEF VerifyAccountMergeIntent, OperationsOK, TypeOK, PolicyAllows
    <3> QED BY <3>2, <3>3, <3>4
  <2> QED BY <2>1, <2>2
<1>4. ASSUME intent'[a] # NoUser
      PROVE  operation'[a].state # "none" /\ intent'[a] \in Participants(a)'
  <2>1. operation[a].state # "none" /\ intent'[a] \in Participants(a)
    <3>1. CASE intent'[a] = intent[a]
      BY <1>4, <3>1 DEF OperationsOK
    <3>2. CASE intent'[a] # intent[a]
      <4>1. PICK u \in Users : EvaluateConfirmation(a, u)
        BY <1>4, <3>2, IntentChanges
      <4> QED BY <4>1 DEF EvaluateConfirmation, TypeOK
    <3> QED BY <3>1, <3>2
  <2> QED BY <2>1, <1>1 DEF OperationStep, Participants
<1>5. ASSUME operation'[a].state \in InProgress
      PROVE  /\ operation'[a].primary \in Participants(a)'
             /\ operation'[a].secondary \in Participants(a)'
             /\ operation'[a].primary # operation'[a].secondary
  <2>1. CASE operation[a].state \in InProgress
    BY <2>1, <1>1 DEF OperationStep, OperationsOK, Participants, InProgress
  <2>2. CASE operation[a].state \notin InProgress
    <3>1. PICK e \in Executors : ConfirmMergeOperation(a, e) /\ operation[a].state = "created"
                                 /\ Unlocked(a)
      BY <1>5, <2>2, BecomesConfirmed
    <3>2. PICK v : v = CHOOSE u \in Participants(a) : u # intent[a]
      OBVIOUS
    <3>3. intent[a] \in Participants(a) /\ v \in Participants(a) /\ v # intent[a]
      BY <3>1, <3>2 DEF ConfirmMergeOperation, OperationsOK, Participants
    <3>4. operation'[a].primary = intent[a] /\ operation'[a].secondary = v
      <4>1. PICK q \in Operation : q = operation[a]
        BY DEF TypeOK
      <4>2. PICK u : u = intent[a]
        OBVIOUS
      <4>3. PICK r : r = [q EXCEPT !.state = "confirmed", !.primary = u, !.secondary = v]
        OBVIOUS
      <4>4. operation'[a] = r
        BY <3>1, <3>2, <4>1, <4>2, <4>3 DEF ConfirmMergeOperation, TypeOK
      <4>5. r.primary = u /\ r.secondary = v
        BY <4>3 DEF Operation
      <4> QED BY <4>2, <4>4, <4>5
    <3> QED BY <3>1, <3>3, <3>4, <1>1 DEF OperationStep, Participants
  <2> QED BY <2>1, <2>2
<1> QED BY <1>2, <1>3, <1>4, <1>5

\* What every step does to an executor: it begins with an operation in progress or
\* goes on with its own, and decides to execute it only where it finds no work.
ExecutorStep(e) ==
    exec'[e].step # "idle" =>
        \/ /\ exec'[e].step = "picked" /\ exec'[e].op \in Attempts
           /\ operation'[exec'[e].op].state \in InProgress
        \/ /\ exec[e].step # "idle" /\ exec'[e].op = exec[e].op
           /\ exec'[e].step = "decided" =>
                \/ exec[e].step = "decided"
                \/ ~HasActiveWork(exec[e].op) /\ work' = work

LEMMA PickedStep ==
    ASSUME TypeOK, NEW o \in Attempts, NEW f \in Executors, NEW e \in Executors,
           exec' = [exec EXCEPT ![f] = Picked(o)], operation'[o].state \in InProgress
    PROVE  ExecutorStep(e)
<1>1. CASE e = f
  BY <1>1 DEF ExecutorStep, TypeOK, Picked
<1>2. CASE e # f
  BY <1>2 DEF ExecutorStep, TypeOK
<1> QED BY <1>1, <1>2

LEMMA DoneStep ==
    ASSUME TypeOK, NEW f \in Executors, NEW e \in Executors, Done(f)
    PROVE  ExecutorStep(e)
BY DEF ExecutorStep, TypeOK, Done, Idle

LEMMA BecomeStep ==
    ASSUME TypeOK, NEW f \in Executors, NEW e \in Executors, NEW step \in {"retry", "expired", "failed"},
           Become(f, step), exec[f].step # "idle"
    PROVE  ExecutorStep(e)
<1>1. CASE e = f
  BY <1>1 DEF ExecutorStep, TypeOK, Become, Executor
<1>2. CASE e # f
  BY <1>2 DEF ExecutorStep, TypeOK, Become
<1> QED BY <1>1, <1>2

LEMMA ExecutorWriters ==
    ASSUME [Next]_vars, exec' # exec
    PROVE  \/ \E o \in Attempts : \/ \E e \in Executors : \/ ConfirmMergeOperation(o, e)
                                                         \/ PickOperation(e, o)
                                  \/ ExpireLease(o)
           \/ \E e \in Executors : \/ Decide(e) \/ ExecuteTransfer(e) \/ TransferFails(e)
                                   \/ ReleaseForRetry(e) \/ TerminateOperation(e) \/ CrashExecutor(e)
BY Zenon DEF Next, vars, CreateSocialLinkAttempt, CaptureSocialLinkProviderSubject,
   ResolveSocialLinkAttempt, VerifyAccountMergeIntent, CancelCreatedMergeOperation,
   EvaluateConfirmation, DeadlinePasses, CheckRequest, InsertWork, FinishWork, Suspend, AskUnlink, Unlink

LEMMA ExecutorsStep ==
    ASSUME MergeConstants, TypeOK, OperationsOK, ExecutorsOK, [Next]_vars, NEW e \in Executors
    PROVE  ExecutorStep(e)
<1>1. CASE exec'[e] = exec[e]
  BY <1>1 DEF ExecutorStep
<1>2. ASSUME NEW o \in Attempts, NEW f \in Executors, ConfirmMergeOperation(o, f), exec' # exec
      PROVE  ExecutorStep(e)
  <2>1. operation[o].state = "created" /\ Unlocked(o) /\ exec' = [exec EXCEPT ![f] = Picked(o)]
    BY <1>2 DEF ConfirmMergeOperation
  <2>2. PICK q \in Operation : q = operation[o]
    BY DEF TypeOK
  <2>5. PICK u, v : u = intent[o] /\ v = CHOOSE w \in Participants(o) : w # intent[o]
    OBVIOUS
  <2>6. PICK r : r = [q EXCEPT !.state = "confirmed", !.primary = u, !.secondary = v]
    OBVIOUS
  <2>3. operation'[o] = r
    BY <1>2, <2>1, <2>2, <2>5, <2>6 DEF ConfirmMergeOperation, TypeOK
  <2>4. r.state = "confirmed"
    BY <2>6 DEF Operation
  <2> QED BY <2>1, <2>3, <2>4, PickedStep DEF InProgress
<1>3. ASSUME NEW o \in Attempts, NEW f \in Executors, PickOperation(f, o) PROVE ExecutorStep(e)
  BY <1>3, PickedStep DEF PickOperation, Candidate, InProgress
<1>4. ASSUME NEW o \in Attempts, ExpireLease(o) PROVE ExecutorStep(e)
  <2>1. exec'[e] = exec[e] \/ (exec[e].step = "picked" /\ exec'[e] = [exec[e] EXCEPT !.leased = TRUE])
    BY <1>4 DEF ExpireLease
  <2> QED BY <2>1 DEF ExecutorStep, TypeOK, Executor
<1>5. ASSUME NEW f \in Executors, Decide(f) PROVE ExecutorStep(e)
  <2> DEFINE o == exec[f].op
  <2>1. CASE Done(f)
    BY <2>1, DoneStep
  <2>2. CASE Become(f, "expired")
    BY <2>2, <1>5, BecomeStep DEF Decide
  <2>3. CASE /\ exec' = [exec EXCEPT ![f].step = "decided", ![f].leased = FALSE,
                                     ![f].retries = operation[o].retries]
             /\ ~HasActiveWork(o)
    <3>1. PICK n : n = operation[o].retries
      OBVIOUS
    <3>2. PICK q \in Executor : q = exec[f]
      BY DEF TypeOK
    <3>3. PICK r : r = [q EXCEPT !.step = "decided", !.leased = FALSE, !.retries = n]
      OBVIOUS
    <3>4. exec' = [exec EXCEPT ![f] = r]
      BY <2>3, <3>1, <3>2, <3>3 DEF TypeOK
    <3>5. r.op = q.op
      BY <3>3 DEF Executor
    <3>6. exec[f].step # "idle" /\ work' = work
      BY <1>5 DEF Decide
    <3>7. CASE e = f
      BY <2>3, <3>2, <3>4, <3>5, <3>6, <3>7 DEF ExecutorStep, TypeOK
    <3>8. CASE e # f
      BY <3>4, <3>8 DEF ExecutorStep, TypeOK
    <3> QED BY <3>7, <3>8
  <2> QED BY <1>5, <2>1, <2>2, <2>3 DEF Decide
<1>6. ASSUME NEW f \in Executors, \/ ExecuteTransfer(f) \/ ReleaseForRetry(f)
                                  \/ TerminateOperation(f) \/ CrashExecutor(f)
      PROVE  ExecutorStep(e)
  BY <1>6, DoneStep DEF ExecuteTransfer, ReleaseForRetry, TerminateOperation, CrashExecutor
<1>7. ASSUME NEW f \in Executors, TransferFails(f) PROVE ExecutorStep(e)
  BY <1>7, DoneStep, BecomeStep DEF TransferFails
<1> QED BY <1>1, <1>2, <1>3, <1>4, <1>5, <1>6, <1>7, ExecutorWriters

LEMMA ExecutorsInvariant ==
    ASSUME MergeConstants, TypeOK, OperationsOK, ExecutorsOK, [Next]_vars
    PROVE  ExecutorsOK'
<1> SUFFICES ASSUME NEW e \in Executors, exec'[e].step # "idle"
             PROVE  /\ exec'[e].op \in Attempts
                    /\ operation'[exec'[e].op].state \in InProgress \cup Terminal
  BY DEF ExecutorsOK
<1>1. ExecutorStep(e)
  BY ExecutorsStep
<1>2. CASE exec[e].step # "idle" /\ exec'[e].op = exec[e].op
  BY <1>2, OperationsStep DEF ExecutorsOK, OperationStep
<1> QED BY <1>1, <1>2 DEF ExecutorStep

-----------------------------------------------------------------------------
(* Locks                                                                   *)

\* What a step does to the locks: nothing to them and to what is in progress, or it
\* locks the accounts of one confirmed operation, or it ends one and unlocks them.
LockStep ==
    \/ /\ lock' = lock
       /\ \A a \in Attempts : operation'[a].state \in InProgress <=> operation[a].state \in InProgress
    \/ \E o \in Attempts :
         /\ Unlocked(o) /\ operation[o].state = "created" /\ operation'[o].state \in InProgress
         /\ lock' = [u \in Users |-> IF u \in Participants(o) THEN o ELSE lock[u]]
         /\ \A a \in Attempts \ {o} : operation'[a] = operation[a]
    \/ \E o \in Attempts :
         /\ operation[o].state \in InProgress /\ operation'[o].state \in Terminal
         /\ Unlock(o)
         /\ \A a \in Attempts \ {o} : operation'[a] = operation[a]

LEMMA ReturnState ==
    ASSUME TypeOK, NEW o \in Attempts, NEW state, Return(o, state)
    PROVE  operation'[o].state = state /\ \A a \in Attempts \ {o} : operation'[a] = operation[a]
<1>1. PICK q \in Operation : q = operation[o]
  BY DEF TypeOK
<1>2. PICK r : r = [q EXCEPT !.state = state, !.lease = "none"]
  OBVIOUS
<1>3. operation' = [operation EXCEPT ![o] = r]
  BY <1>1, <1>2 DEF Return, TypeOK
<1>4. r.state = state
  BY <1>2 DEF Operation
<1> QED BY <1>3, <1>4 DEF TypeOK

LEMMA LocksStep ==
    ASSUME MergeConstants, TypeOK, OperationsOK, ExecutorsOK, [Next]_vars
    PROVE  LockStep
<1>1. ASSUME NEW o \in Attempts, NEW e \in Executors, ConfirmMergeOperation(o, e),
             operation[o].state = "created", Unlocked(o)
      PROVE  LockStep
  <2>1. PICK q \in Operation : q = operation[o]
    BY DEF TypeOK
  <2>6. PICK u, v : u = intent[o] /\ v = CHOOSE w \in Participants(o) : w # intent[o]
    OBVIOUS
  <2>7. PICK r : r = [q EXCEPT !.state = "confirmed", !.primary = u, !.secondary = v]
    OBVIOUS
  <2>2. operation' = [operation EXCEPT ![o] = r]
    BY <1>1, <2>1, <2>6, <2>7 DEF ConfirmMergeOperation, TypeOK
  <2>3. r.state \in InProgress
    BY <2>7 DEF Operation, InProgress
  <2>4. /\ operation'[o].state \in InProgress
        /\ \A a \in Attempts \ {o} : operation'[a] = operation[a]
    BY <2>2, <2>3 DEF TypeOK
  <2>5. lock' = [w \in Users |-> IF w \in Participants(o) THEN o ELSE lock[w]]
    BY <1>1 DEF ConfirmMergeOperation
  <2> QED BY <1>1, <2>4, <2>5 DEF LockStep
<1>2. ASSUME NEW o \in Attempts, NEW state \in Terminal, Return(o, state), Unlock(o),
             operation[o].state \in InProgress
      PROVE  LockStep
  BY <1>2, ReturnState DEF LockStep
<1>3. ASSUME NEW e \in Executors, ExecuteTransfer(e) PROVE LockStep
  <2>1. exec[e].op \in Attempts
    BY <1>3 DEF ExecuteTransfer, ExecutorsOK
  <2>2. operation[exec[e].op].state \in InProgress
    BY <1>3 DEF ExecuteTransfer, Transferable, InProgress
  <2> QED BY <1>2, <1>3, <2>1, <2>2 DEF ExecuteTransfer, Terminal
<1>4. ASSUME NEW e \in Executors, TerminateOperation(e), operation[exec[e].op].state \notin Terminal
      PROVE  LockStep
  <2>1. exec[e].op \in Attempts /\ operation[exec[e].op].state \in InProgress
    BY <1>4 DEF TerminateOperation, ExecutorsOK
  <2>2. exec[e].step \in Terminal
    BY <1>4 DEF TerminateOperation, Terminal
  <2>3. Return(exec[e].op, exec[e].step) /\ Unlock(exec[e].op)
    BY <1>4 DEF TerminateOperation
  <2> QED BY <1>2, <2>1, <2>2, <2>3
<1>6. ASSUME lock' = lock, operation' = operation PROVE LockStep
  BY <1>6 DEF LockStep
<1>7. ASSUME NEW o \in Attempts, VerifyAccountMergeIntent(o) PROVE LockStep
  <2>1. operation[o].state = "none"
    BY <1>7 DEF VerifyAccountMergeIntent, OperationsOK
  <2>2. PICK q \in Operation : q = operation[o]
    BY DEF TypeOK
  <2>3. PICK u, v, r : /\ r = [q EXCEPT !.state = "created", !.initiating = u, !.target = v]
                       /\ operation' = [operation EXCEPT ![o] = r]
    BY <1>7, <2>2 DEF VerifyAccountMergeIntent, TypeOK
  <2>4. r.state = "created"
    BY <2>3 DEF Operation
  <2>5. lock' = lock
    BY <1>7 DEF VerifyAccountMergeIntent
  <2>6. \A a \in Attempts : operation'[a].state \in InProgress <=> operation[a].state \in InProgress
    BY <2>1, <2>3, <2>4 DEF TypeOK, InProgress
  <2> QED BY <2>5, <2>6 DEF LockStep
<1>8. ASSUME NEW o \in Attempts, CancelCreatedMergeOperation(o) PROVE LockStep
  <2>1. PICK q \in Operation : q = operation[o]
    BY DEF TypeOK
  <2>2. PICK r : r = [q EXCEPT !.state = "cancelled"]
    OBVIOUS
  <2>3. operation' = [operation EXCEPT ![o] = r] /\ lock' = lock /\ operation[o].state = "created"
    BY <1>8, <2>1, <2>2 DEF CancelCreatedMergeOperation, TypeOK
  <2>4. r.state = "cancelled"
    BY <2>2 DEF Operation
  <2>5. \A a \in Attempts : operation'[a].state \in InProgress <=> operation[a].state \in InProgress
    BY <2>3, <2>4 DEF TypeOK, InProgress
  <2> QED BY <2>3, <2>5 DEF LockStep
<1>9. ASSUME NEW o \in Attempts, DeadlinePasses(o) \/ ExpireLease(o) PROVE LockStep
  <2>1. PICK q \in Operation : q = operation[o]
    BY DEF TypeOK
  <2>2. PICK r : \/ r = [q EXCEPT !.late = TRUE] /\ DeadlinePasses(o)
                 \/ r = [q EXCEPT !.lease = "late"] /\ ExpireLease(o)
    BY <1>9
  <2>3. operation' = [operation EXCEPT ![o] = r] /\ lock' = lock
    BY <2>1, <2>2 DEF DeadlinePasses, ExpireLease, TypeOK
  <2>4. r.state = q.state
    BY <2>2 DEF Operation
  <2>5. \A a \in Attempts : operation'[a].state \in InProgress <=> operation[a].state \in InProgress
    BY <2>1, <2>3, <2>4 DEF TypeOK
  <2> QED BY <2>3, <2>5 DEF LockStep
<1>10. ASSUME NEW e \in Executors, Decide(e), operation' # operation PROVE LockStep
  <2> DEFINE o == exec[e].op
  <2>1. o \in Attempts /\ operation[o].state \in InProgress /\ lock' = lock
    BY <1>10 DEF Decide, ExecutorsOK
  <2>2. CASE Return(o, "waiting")
    BY <2>1, <2>2, ReturnState DEF LockStep, InProgress
  <2>3. CASE operation' = [operation EXCEPT ![o].state = "merging", ![o].lease = "held"]
    <3>1. PICK q \in Operation : q = operation[o]
      BY <2>1 DEF TypeOK
    <3>2. PICK r : r = [q EXCEPT !.state = "merging", !.lease = "held"]
      OBVIOUS
    <3>3. operation' = [operation EXCEPT ![o] = r]
      BY <2>3, <3>1, <3>2, <2>1 DEF TypeOK
    <3>4. r.state \in InProgress
      BY <3>2 DEF Operation, InProgress
    <3>5. \A a \in Attempts : operation'[a].state \in InProgress <=> operation[a].state \in InProgress
      BY <2>1, <3>3, <3>4 DEF TypeOK
    <3> QED BY <2>1, <3>5 DEF LockStep
  <2> QED BY <1>10, <2>2, <2>3 DEF Decide
<1>11. ASSUME NEW e \in Executors, ReleaseForRetry(e), operation' # operation PROVE LockStep
  <2> DEFINE o == exec[e].op
  <2>1. /\ o \in Attempts /\ operation[o].state = "merging" /\ lock' = lock
    BY <1>11 DEF ReleaseForRetry, ExecutorsOK
  <2>2. PICK q \in Operation : q = operation[o]
    BY <2>1 DEF TypeOK
  <2>3. PICK r : r = [q EXCEPT !.state = "waiting", !.lease = "none", !.retries = @ + 1]
    OBVIOUS
  <2>4. operation' = [operation EXCEPT ![o] = r]
    BY <1>11, <2>1, <2>2, <2>3 DEF ReleaseForRetry, TypeOK
  <2>5. r.state = "waiting"
    BY <2>3 DEF Operation
  <2>6. \A a \in Attempts : operation'[a].state \in InProgress <=> operation[a].state \in InProgress
    BY <2>1, <2>4, <2>5 DEF TypeOK, InProgress
  <2> QED BY <2>1, <2>6 DEF LockStep
<1>12. ASSUME NEW e \in Executors, TerminateOperation(e), operation[exec[e].op].state \in Terminal
       PROVE  LockStep
  BY <1>6, <1>12 DEF TerminateOperation
<1>13. ASSUME NEW o \in Attempts, NEW e \in Executors, ConfirmMergeOperation(o, e),
              ~(operation[o].state = "created" /\ Unlocked(o))
       PROVE  LockStep
  BY <1>6, <1>13 DEF ConfirmMergeOperation
<1>14. CASE operation' # operation
  BY <1>14, <1>1, <1>3, <1>4, <1>7, <1>8, <1>9, <1>10, <1>11, <1>12, <1>13, OperationWriters
<1>15. CASE operation' = operation /\ lock' # lock
  <2>1. \/ \E o \in Attempts, e \in Executors : ConfirmMergeOperation(o, e)
        \/ \E e \in Executors : ExecuteTransfer(e) \/ TerminateOperation(e)
    BY <1>15, Zenon DEF Next, vars, CreateSocialLinkAttempt, CaptureSocialLinkProviderSubject,
       ResolveSocialLinkAttempt, VerifyAccountMergeIntent, CancelCreatedMergeOperation,
       EvaluateConfirmation, PickOperation, DeadlinePasses, ExpireLease, Decide, TransferFails,
       ReleaseForRetry, CrashExecutor, CheckRequest, InsertWork, FinishWork, Suspend, AskUnlink, Unlink
  <2> QED BY <2>1, <1>1, <1>3, <1>4, <1>12, <1>13
<1> QED BY <1>6, <1>14, <1>15

LEMMA LocksInvariant ==
    ASSUME MergeConstants, IInv, [Next]_vars
    PROVE  LocksGuardOperations'
<1> USE DEF IInv, MergeConstants
<1>1. LockStep /\ \A a \in Attempts : OperationStep(a)
  BY LocksStep, OperationsStep
<1>2. \A a \in Attempts : operation[a].state # "none" => Participants(a)' = Participants(a)
  BY <1>1 DEF OperationStep, Participants
<1>3. 0 \notin Attempts
  BY DEF Attempts
<1>4. \A u \in Users : lock[u] # 0 => lock[u] \in Attempts
  BY DEF TypeOK, Attempts
<1>5. CASE /\ lock' = lock
           /\ \A a \in Attempts : operation'[a].state \in InProgress <=> operation[a].state \in InProgress
  <2>1. ASSUME NEW o \in Attempts, operation'[o].state \in InProgress, NEW u \in Participants(o)'
        PROVE  lock'[u] = o
    BY <1>2, <1>5, <2>1 DEF LocksGuardOperations, InProgress
  <2>2. ASSUME NEW u \in Users, lock'[u] # 0
        PROVE  operation'[lock'[u]].state \in InProgress /\ u \in Participants(lock[u])'
    BY <1>2, <1>4, <1>5, <2>2 DEF LocksGuardOperations, InProgress
  <2> QED BY <1>5, <2>1, <2>2 DEF LocksGuardOperations, Participants
<1>6. ASSUME NEW o \in Attempts, Unlocked(o), operation[o].state = "created",
             operation'[o].state \in InProgress,
             lock' = [u \in Users |-> IF u \in Participants(o) THEN o ELSE lock[u]],
             \A a \in Attempts \ {o} : operation'[a] = operation[a]
      PROVE  LocksGuardOperations'
  <2>0. Participants(o)' = Participants(o) /\ Participants(o) \subseteq Users
    BY <1>2, <1>6 DEF OperationsOK, Participants
  <2>1. ASSUME NEW p \in Attempts, operation'[p].state \in InProgress, NEW u \in Participants(p)'
        PROVE  lock'[u] = p
    <3>1. CASE p = o
      BY <1>6, <2>0, <2>1, <3>1
    <3>2. CASE p # o
      <4>1. operation[p].state \in InProgress /\ u \in Participants(p)
        BY <1>6, <2>1, <3>2 DEF Participants
      <4>2. lock[u] = p /\ u \in Users
        BY <4>1 DEF LocksGuardOperations, OperationsOK, Participants, InProgress
      <4>3. u \notin Participants(o)
        BY <4>2, <1>6, <1>3 DEF Unlocked
      <4> QED BY <4>2, <4>3, <1>6
    <3> QED BY <3>1, <3>2
  <2>2. ASSUME NEW u \in Users, NEW p, p = lock'[u], p # 0
        PROVE  operation'[p].state \in InProgress /\ u \in Participants(p)'
    <3>1. CASE u \in Participants(o)
      BY <3>1, <1>6, <2>0, <2>2
    <3>2. CASE u \notin Participants(o)
      <4>1. p = lock[u] /\ p \in Attempts
        BY <3>2, <1>4, <1>6, <2>2
      <4>2. operation[p].state \in InProgress /\ u \in Participants(p)
        BY <4>1, <2>2 DEF LocksGuardOperations
      <4>3. p # o
        BY <4>2, <3>2
      <4> QED BY <4>1, <4>2, <4>3, <1>6 DEF Participants
    <3> QED BY <3>1, <3>2
  <2> QED BY <2>1, <2>2 DEF LocksGuardOperations, Participants
<1>7. ASSUME NEW o \in Attempts, operation[o].state \in InProgress, operation'[o].state \in Terminal,
             Unlock(o), \A a \in Attempts \ {o} : operation'[a] = operation[a]
      PROVE  LocksGuardOperations'
  <2>1. ASSUME NEW p \in Attempts, operation'[p].state \in InProgress, NEW u \in Participants(p)'
        PROVE  lock'[u] = p
    <3>1. p # o
      BY <1>7, <2>1 DEF InProgress, Terminal
    <3>2. operation[p].state \in InProgress /\ u \in Participants(p)
      BY <1>7, <2>1, <3>1 DEF Participants
    <3>3. lock[u] = p /\ u \in Users
      BY <3>2 DEF LocksGuardOperations, OperationsOK, Participants, InProgress
    <3> QED BY <3>1, <3>3, <1>7 DEF Unlock
  <2>2. ASSUME NEW u \in Users, NEW p, p = lock'[u], p # 0
        PROVE  operation'[p].state \in InProgress /\ u \in Participants(p)'
    <3>1. p = lock[u] /\ p # o /\ p \in Attempts
      BY <1>4, <1>7, <2>2 DEF Unlock
    <3>2. operation[p].state \in InProgress /\ u \in Participants(p)
      BY <3>1, <2>2 DEF LocksGuardOperations
    <3> QED BY <3>1, <3>2, <1>7 DEF Participants
  <2> QED BY <2>1, <2>2 DEF LocksGuardOperations, Participants
<1> QED BY <1>1, <1>5, <1>6, <1>7 DEF LockStep

-----------------------------------------------------------------------------
(* Work in progress, and the accounts that remain                          *)

LEMMA WorkWriters ==
    ASSUME [Next]_vars, work' # work
    PROVE  \/ \E e \in Executors : ExecuteTransfer(e)
           \/ \E w \in Work : InsertWork(w) \/ FinishWork(w) \/ \E u \in Users : CheckRequest(w, u)
BY Zenon DEF Next, vars, CreateSocialLinkAttempt, CaptureSocialLinkProviderSubject,
   ResolveSocialLinkAttempt, VerifyAccountMergeIntent, CancelCreatedMergeOperation,
   EvaluateConfirmation, ConfirmMergeOperation, PickOperation, DeadlinePasses, ExpireLease, Decide,
   TransferFails, ReleaseForRetry, TerminateOperation, CrashExecutor, Suspend, AskUnlink, Unlink

LEMMA LateWorkInvariant ==
    ASSUME MergeConstants, IInv, [Next]_vars
    PROVE  LateWorkOK'
<1> USE DEF IInv
<1> SUFFICES ASSUME NEW e \in Executors, NEW w \in Work,
                    exec'[e].step = "decided", operation'[exec'[e].op].state \in InProgress,
                    work'[w].step = "active", work'[w].user \in Participants(exec[e].op)'
             PROVE  exec'[e].op \in work'[w].past
  BY DEF LateWorkOK
<1> DEFINE o == exec[e].op
<1>1. ExecutorStep(e) /\ exec[e].step # "idle" /\ exec'[e].op = o /\ o \in Attempts
  BY ExecutorsStep DEF ExecutorStep, ExecutorsOK
<1>2. operation[o].state \in InProgress /\ work'[w].user \in Participants(o)
  BY <1>1, OperationsStep DEF ExecutorsOK, OperationStep, Participants, InProgress, Terminal
<1>3. CASE ~HasActiveWork(o) /\ work' = work
  BY <1>2, <1>3 DEF HasActiveWork
<1>4. CASE exec[e].step = "decided"
  <2>1. CASE work'[w] = work[w]
    BY <1>1, <1>2, <1>4, <2>1 DEF LateWorkOK
  <2>2. ASSUME NEW v \in Work, InsertWork(v), work'[w] # work[w] PROVE o \in work'[w].past
    <3>1. v = w
      BY <2>2 DEF InsertWork, TypeOK
    <3>2. PICK q \in Request : q = work[w]
      BY DEF TypeOK
    <3>3. PICK d : d = DecidedFor(work[w].user)
      OBVIOUS
    <3>4. PICK x, r : r = [q EXCEPT !.step = x, !.past = d] /\ work'[w] = r
      BY <2>2, <3>1, <3>2, <3>3 DEF InsertWork, TypeOK
    <3>5. r.past = d /\ r.user = q.user
      BY <3>4 DEF Request
    <3>6. o \in d
      <4>1. work[w].user \in Participants(o)
        BY <1>2, <3>2, <3>4, <3>5
      <4> QED BY <1>1, <1>4, <3>3, <4>1 DEF DecidedFor
    <3> QED BY <3>4, <3>5, <3>6
  <2>3. ASSUME NEW v \in Work, FinishWork(v) \/ \E u \in Users : CheckRequest(v, u) PROVE work'[w] = work[w]
    <3>1. CASE FinishWork(v)
      <4>1. work' = [work EXCEPT ![v].step = "done"]
        BY <3>1 DEF FinishWork
      <4>2. v # w
        BY <4>1 DEF TypeOK, Request
      <4> QED BY <4>1, <4>2 DEF TypeOK
    <3>2. ASSUME NEW u, CheckRequest(v, u) PROVE work'[w] = work[w]
      <4>1. PICK r : r = [work[v] EXCEPT !.step = "checked", !.user = u, !.barred = InForce(u)]
        OBVIOUS
      <4>2. work' = [work EXCEPT ![v] = r] /\ r.step = "checked"
        BY <3>2, <4>1 DEF CheckRequest, TypeOK, Request
      <4>3. v # w
        BY <4>2 DEF TypeOK
      <4> QED BY <4>2, <4>3 DEF TypeOK
    <3> QED BY <2>3, <3>1, <3>2
  <2>4. ASSUME NEW f \in Executors, ExecuteTransfer(f) PROVE work'[w] = work[w]
    <3> DEFINE p == exec[f].op
    <3>1. p \in Attempts /\ operation[p].state \in InProgress
      BY <2>4 DEF ExecuteTransfer, Transferable, ExecutorsOK, InProgress
    <3>2. operation'[p].state = "completed"
      BY <2>4, <3>1, ReturnState DEF ExecuteTransfer
    <3>3. p # o
      BY <1>1, <3>2 DEF InProgress
    <3>4. operation[p].primary \notin Participants(o)
      BY <1>1, <1>2, <3>1, <3>3 DEF LocksGuardOperations, OperationsOK
    <3>5. work'[w] = work[w] \/ work'[w] = [work[w] EXCEPT !.user = operation[p].primary]
      BY <2>4 DEF ExecuteTransfer
    <3> QED BY <1>2, <3>4, <3>5 DEF TypeOK, Request
  <2> QED BY <1>1, <2>1, <2>2, <2>3, <2>4, WorkWriters
<1> QED BY <1>1, <1>3, <1>4 DEF ExecutorStep

\* Who may ask has no merge in force, because its locks are there as long as it is.
LEMMA NothingInForce ==
    ASSUME TypeOK, LocksGuardOperations, NEW u \in Users, MutationAllowed(u)
    PROVE  InForce(u) = {}
<1> SUFFICES ASSUME NEW o \in InForce(u) PROVE FALSE
  OBVIOUS
<1>1. /\ o \in Attempts /\ u \in Participants(o)
      /\ operation[o].state \in InProgress /\ ~operation[o].late
  BY DEF InForce
<1>2. lock[u] = o
  BY <1>1 DEF LocksGuardOperations
<1>3. o # 0
  BY <1>1 DEF Attempts
<1> QED BY <1>1, <1>2, <1>3 DEF MutationAllowed

LEMMA RequestsInvariant ==
    ASSUME MergeConstants, IInv, [Next]_vars
    PROVE  RequestsOK'
<1> USE DEF IInv
<1>1. CASE work' = work
  BY <1>1 DEF RequestsOK
<1>2. ASSUME NEW w \in Work, NEW q, q.barred = {}, work' = [work EXCEPT ![w] = q]
      PROVE  RequestsOK'
  BY <1>2 DEF RequestsOK, TypeOK
<1>3. ASSUME NEW w \in Work, InsertWork(w) \/ FinishWork(w) PROVE RequestsOK'
  <2>1. PICK p \in Request : p = work[w]
    BY DEF TypeOK
  <2>2. PICK x, y : x = (IF Merged(work[w].user) THEN "done" ELSE "active") /\ y = DecidedFor(work[w].user)
    OBVIOUS
  <2>3. PICK q : \/ q = [p EXCEPT !.step = x, !.past = y] /\ InsertWork(w)
                 \/ q = [p EXCEPT !.step = "done"] /\ FinishWork(w)
    BY <1>3
  <2>4. work' = [work EXCEPT ![w] = q]
    BY <2>1, <2>2, <2>3 DEF InsertWork, FinishWork, TypeOK
  <2>5. q.barred = p.barred
    BY <2>3 DEF Request
  <2> QED BY <1>2, <2>1, <2>4, <2>5 DEF RequestsOK
<1>4. ASSUME NEW w \in Work, NEW u \in Users, CheckRequest(w, u) PROVE RequestsOK'
  <2>1. PICK p \in Request : p = work[w]
    BY DEF TypeOK
  <2>2. PICK q : q = [p EXCEPT !.step = "checked", !.user = u, !.barred = {}]
    OBVIOUS
  <2>3. work' = [work EXCEPT ![w] = q]
    BY <1>4, <2>1, <2>2, NothingInForce DEF CheckRequest, TypeOK
  <2>4. q.barred = {}
    BY <2>2 DEF Request
  <2> QED BY <1>2, <2>3, <2>4
<1>5. ASSUME NEW e \in Executors, ExecuteTransfer(e) PROVE RequestsOK'
  <2> SUFFICES ASSUME NEW w \in Work PROVE work'[w].barred = {}
    BY DEF RequestsOK
  <2>1. PICK p \in Request : p = work[w]
    BY DEF TypeOK
  <2>2. PICK u : work'[w] = p \/ work'[w] = [p EXCEPT !.user = u]
    BY <1>5, <2>1 DEF ExecuteTransfer, TypeOK
  <2>3. work'[w].barred = p.barred
    BY <2>2 DEF Request
  <2> QED BY <2>1, <2>3 DEF RequestsOK
<1> QED BY <1>1, <1>3, <1>4, <1>5, WorkWriters

LEMMA AccountsInvariant ==
    ASSUME MergeConstants, IInv, [Next]_vars
    PROVE  SomeAccountRemains'
<1> USE DEF IInv
<1>1. CASE mergedInto' = mergedInto
  BY <1>1 DEF SomeAccountRemains
<1>2. ASSUME NEW e \in Executors, ExecuteTransfer(e) PROVE SomeAccountRemains'
  <2> DEFINE o == exec[e].op
  <2>1. o \in Attempts /\ operation[o].state \in InProgress
    BY <1>2 DEF ExecuteTransfer, Transferable, ExecutorsOK, InProgress
  <2>2. PICK primary \in Users, secondary \in Users :
           /\ primary = operation[o].primary /\ secondary = operation[o].secondary
           /\ primary # secondary /\ primary \in Participants(o)
    BY <2>1 DEF OperationsOK, Participants, InProgress
  <2>3. mergedInto[primary] = NoUser
    BY <1>2, <2>2 DEF ExecuteTransfer, Transferable, Available, Merged
  <2>4. mergedInto' = [mergedInto EXCEPT ![secondary] = primary]
    BY <1>2, <2>2 DEF ExecuteTransfer
  <2> SUFFICES ASSUME NEW S \in SUBSET Users, S # {}
               PROVE  \E u \in S : mergedInto'[u] \notin S
    BY DEF SomeAccountRemains
  <2>5. CASE secondary \notin S
    <3>1. \A u \in S : mergedInto'[u] = mergedInto[u]
      BY <2>4, <2>5 DEF TypeOK
    <3> QED BY <3>1 DEF SomeAccountRemains
  <2>6. CASE secondary \in S /\ primary \notin S
    BY <2>4, <2>6 DEF TypeOK
  <2>7. CASE secondary \in S /\ primary \in S
    <3>1. mergedInto'[primary] = NoUser
      BY <2>2, <2>3, <2>4 DEF TypeOK
    <3> QED BY <2>7, <3>1 DEF MergeConstants
  <2> QED BY <2>5, <2>6, <2>7
<1>3. mergedInto' = mergedInto \/ \E e \in Executors : ExecuteTransfer(e)
  BY Zenon DEF Next, vars, CreateSocialLinkAttempt, CaptureSocialLinkProviderSubject,
     ResolveSocialLinkAttempt, VerifyAccountMergeIntent, CancelCreatedMergeOperation,
     EvaluateConfirmation, ConfirmMergeOperation, PickOperation, DeadlinePasses, ExpireLease,
     Decide, TransferFails, ReleaseForRetry, TerminateOperation, CrashExecutor, CheckRequest,
     InsertWork, FinishWork, Suspend, AskUnlink, Unlink
<1> QED BY <1>1, <1>2, <1>3

\* An operation becomes completed by its transfer and in no other way.
LEMMA BecomesCompleted ==
    ASSUME MergeConstants, IInv, [Next]_vars, NEW o \in Attempts,
           operation[o].state # "completed", operation'[o].state = "completed"
    PROVE  \E e \in Executors : ExecuteTransfer(e) /\ exec[e].op = o
<1> USE DEF IInv
<1>0. operation' # operation
  OBVIOUS
<1>1. ASSUME NEW p \in Attempts, NEW r, operation' = [operation EXCEPT ![p] = r],
             r.state # "completed" \/ r.state = operation[p].state
      PROVE  FALSE
  BY <1>1 DEF TypeOK
<1>2. ASSUME NEW p \in Attempts, VerifyAccountMergeIntent(p) \/ CancelCreatedMergeOperation(p) PROVE FALSE
  <2>1. PICK q \in Operation : q = operation[p]
    BY DEF TypeOK
  <2>2. PICK u, v : u = attempt[p].user /\ v = owner
    OBVIOUS
  <2>3. PICK r : \/ /\ r = [q EXCEPT !.state = "created", !.initiating = u, !.target = v]
                    /\ VerifyAccountMergeIntent(p)
                 \/ r = [q EXCEPT !.state = "cancelled"] /\ CancelCreatedMergeOperation(p)
    BY <1>2
  <2>4. operation' = [operation EXCEPT ![p] = r]
    BY <2>1, <2>2, <2>3 DEF VerifyAccountMergeIntent, CancelCreatedMergeOperation, TypeOK
  <2>5. r.state # "completed"
    BY <2>3 DEF Operation
  <2> QED BY <1>1, <2>4, <2>5
<1>3. ASSUME NEW p \in Attempts, NEW e \in Executors, ConfirmMergeOperation(p, e) PROVE FALSE
  <2>1. PICK q \in Operation : q = operation[p]
    BY DEF TypeOK
  <2>2. PICK u, v : u = intent[p] /\ v = CHOOSE w \in Participants(p) : w # intent[p]
    OBVIOUS
  <2>3. PICK r : r = [q EXCEPT !.state = "confirmed", !.primary = u, !.secondary = v]
    OBVIOUS
  <2>4. operation' = [operation EXCEPT ![p] = r]
    BY <1>0, <1>3, <2>1, <2>2, <2>3 DEF ConfirmMergeOperation, TypeOK
  <2>5. r.state # "completed"
    BY <2>3 DEF Operation
  <2> QED BY <1>1, <2>4, <2>5
<1>4. ASSUME NEW p \in Attempts, DeadlinePasses(p) \/ ExpireLease(p) PROVE FALSE
  <2>1. PICK q \in Operation : q = operation[p]
    BY DEF TypeOK
  <2>2. PICK r : \/ r = [q EXCEPT !.late = TRUE] /\ DeadlinePasses(p)
                 \/ r = [q EXCEPT !.lease = "late"] /\ ExpireLease(p)
    BY <1>4
  <2>3. operation' = [operation EXCEPT ![p] = r]
    BY <2>1, <2>2 DEF DeadlinePasses, ExpireLease, TypeOK
  <2>4. r.state = q.state
    BY <2>2 DEF Operation
  <2> QED BY <1>1, <2>1, <2>3, <2>4
<1>5. ASSUME NEW e \in Executors, Decide(e) PROVE FALSE
  <2>1. exec[e].op \in Attempts
    BY <1>5 DEF Decide, ExecutorsOK
  <2>2. PICK p \in Attempts, q \in Operation : p = exec[e].op /\ q = operation[p]
    BY <2>1 DEF TypeOK
  <2>3. CASE Return(p, "waiting")
    BY <2>3, ReturnState, <1>0
  <2>4. CASE operation' = [operation EXCEPT ![p].state = "merging", ![p].lease = "held"]
    <3>1. PICK r : r = [q EXCEPT !.state = "merging", !.lease = "held"]
      OBVIOUS
    <3>2. operation' = [operation EXCEPT ![p] = r]
      BY <2>2, <2>4, <3>1 DEF TypeOK
    <3>3. r.state # "completed"
      BY <3>1 DEF Operation
    <3> QED BY <1>1, <3>2, <3>3
  <2> QED BY <1>0, <1>5, <2>2, <2>3, <2>4 DEF Decide
<1>6. ASSUME NEW e \in Executors, ReleaseForRetry(e) PROVE FALSE
  <2>1. exec[e].op \in Attempts
    BY <1>6 DEF ReleaseForRetry, ExecutorsOK
  <2>2. PICK p \in Attempts, q \in Operation : p = exec[e].op /\ q = operation[p]
    BY <2>1 DEF TypeOK
  <2>3. PICK r : r = [q EXCEPT !.state = "waiting", !.lease = "none", !.retries = @ + 1]
    OBVIOUS
  <2>4. operation' = [operation EXCEPT ![p] = r]
    BY <1>0, <1>6, <2>2, <2>3 DEF ReleaseForRetry, TypeOK
  <2>5. r.state # "completed"
    BY <2>3 DEF Operation
  <2> QED BY <1>1, <2>4, <2>5
<1>7. ASSUME NEW e \in Executors, TerminateOperation(e) PROVE FALSE
  <2>1. PICK p \in Attempts : p = exec[e].op
    BY <1>7 DEF TerminateOperation, ExecutorsOK
  <2>2. Return(p, exec[e].step) /\ exec[e].step # "completed"
    BY <1>0, <1>7, <2>1 DEF TerminateOperation
  <2> QED BY <2>2, ReturnState
<1>8. ASSUME NEW e \in Executors, ExecuteTransfer(e) PROVE exec[e].op = o
  <2>1. exec[e].op \in Attempts
    BY <1>8 DEF ExecuteTransfer, ExecutorsOK
  <2> QED BY <1>8, <2>1, ReturnState DEF ExecuteTransfer
<1> QED BY <1>0, <1>2, <1>3, <1>4, <1>5, <1>6, <1>7, <1>8, OperationWriters

-----------------------------------------------------------------------------
(* Theorems                                                                *)

\* The inductive invariant.
THEOREM Invariant == Spec => []IInv
<1> USE MergeConstants
<1>1. Init => IInv
  BY InitType, InitRest DEF IInv
<1>2. IInv /\ [Next]_vars => IInv'
  <2> SUFFICES ASSUME IInv, [Next]_vars PROVE IInv'
    OBVIOUS
  <2>1. TypeOK' /\ OperationsOK' /\ ExecutorsOK'
    BY TypeStep, OperationsInvariant, ExecutorsInvariant DEF IInv
  <2>2. LateWorkOK' /\ RequestsOK' /\ LocksGuardOperations' /\ SomeAccountRemains'
    BY LateWorkInvariant, RequestsInvariant, LocksInvariant, AccountsInvariant
  <2> QED BY <2>1, <2>2 DEF IInv
<1> QED BY <1>1, <1>2, PTL DEF Spec

\* Accounts, attempts, operations, locks, executors and work keep their types, and
\* exactly the operations that are merging have a lease.
THEOREM MergeTypeCorrect == Spec => []TypeOK
BY Invariant, PTL DEF IInv

\* An operation in progress holds the locks of both its accounts and no other
\* operation is locked in, however many users, executors, crashes and retries.
THEOREM LocksAreExclusive == Spec => []LocksGuardOperations
BY Invariant, PTL DEF IInv

\* No set of accounts is ever merged only into one another.
THEOREM AccountsRemain == Spec => []SomeAccountRemains
BY Invariant, PTL DEF IInv

\* Work that a transfer finds active was inserted too late for the executor that
\* looked, by a request that had not asked while the accounts were locked in time.
THEOREM TransferMovesLateWork == Spec => OnlyLateWorkMoves
<1> USE MergeConstants
<1>1. ASSUME IInv, [Next]_vars,
             NEW o \in Attempts, operation'[o].state = "completed", operation[o].state # "completed",
             NEW w \in Work, work[w].step = "active", work[w].user \in Participants(o)
      PROVE  o \in work[w].past \ work[w].barred
  <2>1. PICK e \in Executors : ExecuteTransfer(e) /\ exec[e].op = o
    BY <1>1, BecomesCompleted
  <2>2. exec[e].step = "decided" /\ operation[o].state \in InProgress
    BY <2>1 DEF ExecuteTransfer, Transferable, InProgress
  <2> QED BY <1>1, <2>1, <2>2 DEF IInv, LateWorkOK, RequestsOK
<1>2. IInv /\ [Next]_vars =>
        [\A o \in Attempts :
           operation'[o].state = "completed" /\ operation[o].state # "completed" =>
             \A w \in Work : work[w].step = "active" /\ work[w].user \in Participants(o) =>
               o \in work[w].past \ work[w].barred]_vars
  BY <1>1
<1> QED BY <1>2, Invariant, PTL DEF Spec, OnlyLateWorkMoves
=============================================================================

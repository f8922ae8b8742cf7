---------------------------- MODULE AiRuns_proofs ----------------------------
(* Theorems about AiRuns for every value of its constants: its types, and   *)
(* that every step of a run is an operation of the ledger or leaves the     *)
(* account alone, so that what is proved of AiQuota holds of the system.    *)
EXTENDS AiRuns, AiQuota_proofs

\* What every change of a row keeps, insertions apart.
RunStep(a, b) ==
    /\ b \in Run
    /\ b.resume = a.resume /\ b.points = a.points
    /\ b.status = "unborn" <=> a.status = "unborn"

RunsStep ==
    /\ run' \in [Runs -> Run]
    /\ \A n \in Runs : RunStep(run[n], run'[n])

-----------------------------------------------------------------------------
(* The row operators                                                       *)

LEMMA NewRunType ==
    ASSUME RunConstants, NEW r \in Resumes, NEW p \in Reservations \cup {0}
    PROVE  NewRun(r, p) \in Run
BY DEF NewRun, Run, Statuses, ActiveStatuses, Failures

\* A row may stay as it is.
LEMMA SameRun ==
    ASSUME NEW a \in Run
    PROVE  RunStep(a, a)
BY DEF RunStep

\* Ending an existing run is a step of its row.
LEMMA EndedRun ==
    ASSUME NEW a \in Run, a.status # "unborn",
           NEW st \in Statuses, NEW f \in Failures
    PROVE  /\ RunStep(a, Ended(a, st, f)) /\ Ended(a, st, f) \in Run
           /\ Ended(a, st, f).status = st
<1>1. PICK b : b = Ended(a, st, f)
  OBVIOUS
<1>2. /\ b \in Run /\ b.status = st
      /\ b.resume = a.resume /\ b.points = a.points
  BY <1>1 DEF Ended, Run
<1>3. st # "unborn"
  BY DEF Statuses, ActiveStatuses
<1> QED BY <1>1, <1>2, <1>3 DEF RunStep

\* Changing only the status of an existing run is a step of its row.
LEMMA StatusRun ==
    ASSUME NEW a \in Run, a.status # "unborn", NEW st \in Statuses,
           NEW b, b = [a EXCEPT !.status = st]
    PROVE  RunStep(a, b)
<1>1. /\ b \in Run /\ b.status = st
      /\ b.resume = a.resume /\ b.points = a.points
  BY DEF Run
<1>2. st # "unborn"
  BY DEF Statuses, ActiveStatuses
<1> QED BY <1>1, <1>2 DEF RunStep

\* Raising the stop request is a step of its row.
LEMMA StopRequestedRun ==
    ASSUME NEW a \in Run, NEW b, b = [a EXCEPT !.stop = TRUE]
    PROVE  RunStep(a, b)
BY DEF Run, RunStep

\* A step of one row is a step of the table.
LEMMA OneRun ==
    ASSUME run \in [Runs -> Run], NEW n \in Runs, NEW b,
           RunStep(run[n], b), Update(n, b)
    PROVE  RunsStep
<1>1. run' = [run EXCEPT ![n] = b] /\ b \in Run
  BY DEF Update, RunStep
<1>2. run' \in [Runs -> Run]
  BY <1>1
<1>3. ASSUME NEW i \in Runs PROVE RunStep(run[i], run'[i])
  <2>1. CASE i = n
    BY <1>1, <2>1
  <2>2. CASE i # n
    <3>1. run'[i] = run[i]
      BY <1>1, <2>2
    <3> QED BY <3>1, SameRun
  <2> QED BY <2>1, <2>2
<1> QED BY <1>2, <1>3 DEF RunsStep

\* A step that leaves the table alone is one, too.
LEMMA NoRun ==
    ASSUME run \in [Runs -> Run], UNCHANGED run
    PROVE  RunsStep
BY SameRun DEF RunsStep

-----------------------------------------------------------------------------
(* The rows of ai_runs                                                     *)

LEMMA PrepareRows ==
    ASSUME run \in [Runs -> Run], NEW n \in Runs, Prepare(n)
    PROVE  RunsStep
<1>1. CASE UNCHANGED run
  BY <1>1, NoRun
<1>2. CASE EnqueueRun(n)
  <2>1. CASE InPreparation(run[n])
    <3>1. PICK b : b = [run[n] EXCEPT !.status = "queued", !.lease = "none"]
      OBVIOUS
    <3>2. run[n].status = "preparing"
      BY <2>1 DEF InPreparation
    <3>3. RunStep(run[n], b)
      BY <3>1, <3>2 DEF RunStep, Run, Statuses, ActiveStatuses
    <3>4. Update(n, b)
      BY <1>2, <2>1, <3>1 DEF EnqueueRun
    <3> QED BY <3>3, <3>4, OneRun
  <2>2. CASE ~InPreparation(run[n])
    BY <1>1, <1>2, <2>2 DEF EnqueueRun
  <2> QED BY <2>1, <2>2
<1>3. CASE RecordPreflightFailure(n)
  <2>1. PICK b : b = IF InPreparation(run[n])
                     THEN Ended(run[n], "failed", "preflight_failed") ELSE run[n]
    OBVIOUS
  <2>2. RunStep(run[n], b)
    BY <2>1, EndedRun, SameRun DEF InPreparation, Statuses, Failures
  <2>3. Update(n, b)
    BY <1>3, <2>1 DEF RecordPreflightFailure
  <2> QED BY <2>2, <2>3, OneRun
<1> QED BY <1>1, <1>2, <1>3 DEF Prepare, ReserveQuota, RefuseQuota,
       FailPreparation, UndoReservation, AbandonPreparation

\* Executing a run takes a step of the table.
LEMMA ExecuteRows ==
    ASSUME run \in [Runs -> Run], exec \in [Runs -> Execution],
           NEW n \in Runs, Execute(n) \/ ReportUsage(n)
    PROVE  RunsStep
<1>1. CASE UNCHANGED run
  BY <1>1, NoRun
<1>2. CASE StartRun(n)
  <2>1. CASE Owns(n, "preparing") /\ ~run[n].stop
    <3>1. PICK b : b = [run[n] EXCEPT !.status = "streaming", !.started = TRUE]
      OBVIOUS
    <3>2. run[n].status = "preparing"
      BY <2>1 DEF Owns, Holds
    <3>3. RunStep(run[n], b)
      BY <3>1, <3>2 DEF RunStep, Run, Statuses, ActiveStatuses
    <3>4. Update(n, b)
      BY <1>2, <2>1, <3>1 DEF StartRun
    <3> QED BY <3>3, <3>4, OneRun
  <2>2. CASE ~(Owns(n, "preparing") /\ ~run[n].stop)
    BY <1>1, <1>2, <2>2 DEF StartRun
  <2> QED BY <2>1, <2>2
<1>3. CASE FinalizeOwnedAiRun(n)
  <2>1. \E st \in Statuses, f \in Failures : Update(n, Ended(run[n], st, f))
    BY <1>3 DEF FinalizeOwnedAiRun, Statuses, Failures
  <2>2. run[n].status # "unborn"
    BY <1>3 DEF FinalizeOwnedAiRun, MayFinalize, Owns, Holds
  <2> QED BY <2>1, <2>2, EndedRun, OneRun
<1>4. CASE RecordFailure(n)
  <2>1. CASE Holds(n, "streaming")
    <3>0. exec[n].code \in Failures
      BY DEF Execution
    <3>1. \E st \in Statuses : Update(n, Ended(run[n], st, exec[n].code))
      BY <1>4, <2>1 DEF RecordFailure, Statuses
    <3>2. run[n].status # "unborn"
      BY <2>1 DEF Holds
    <3> QED BY <3>0, <3>1, <3>2, EndedRun, OneRun
  <2>2. CASE ~Holds(n, "streaming")
    <3>1. Update(n, run[n])
      BY <1>4, <2>2 DEF RecordFailure
    <3> QED BY <3>1, SameRun, OneRun
  <2> QED BY <2>1, <2>2
<1> QED BY <1>1, <1>2, <1>3, <1>4 DEF Execute, ReportUsage, FailExecution,
       LoseRun, ReleaseUnbilled, AbandonExecution

\* Claiming a run takes a step of the table.
LEMMA ClaimRow ==
    ASSUME run \in [Runs -> Run], NEW w \in Workers, ClaimQueuedAiRun(w)
    PROVE  RunsStep
<1>1. PICK n \in Runs :
        /\ Claimable(n)
        /\ Update(n, [run[n] EXCEPT !.status = "preparing", !.owner = w,
                                    !.lease = "live"])
  BY DEF ClaimQueuedAiRun
<1>2. PICK b : b = [run[n] EXCEPT !.status = "preparing", !.owner = w,
                                  !.lease = "live"]
  OBVIOUS
<1>3. run[n].status = "queued"
  BY <1>1 DEF Claimable
<1>4. RunStep(run[n], b)
  BY <1>2, <1>3 DEF RunStep, Run, Statuses, ActiveStatuses
<1> QED BY <1>1, <1>2, <1>4, OneRun

\* So do the expiry of a lease and its recovery.
LEMMA RecoveryRows ==
    ASSUME run \in [Runs -> Run], NEW n \in Runs
    PROVE  /\ ExpireLease(n) => RunsStep
           /\ RecoverExpiredAiRun(n) => RunsStep
<1>1. ASSUME ExpireLease(n) PROVE RunsStep
  <2>1. PICK b : b = [run[n] EXCEPT !.lease = "expired"]
    OBVIOUS
  <2>2. RunStep(run[n], b)
    BY <2>1 DEF RunStep, Run
  <2>3. Update(n, b)
    BY <1>1, <2>1 DEF ExpireLease
  <2> QED BY <2>2, <2>3, OneRun
<1>2. ASSUME RecoverExpiredAiRun(n) PROVE RunsStep
  <2>1. \E st \in Statuses : Update(n, Ended(run[n], st, "lease_expired"))
    BY <1>2 DEF RecoverExpiredAiRun, Statuses
  <2>2. run[n].status # "unborn" /\ "lease_expired" \in Failures
    BY <1>2 DEF RecoverExpiredAiRun, Failures
  <2> QED BY <2>1, <2>2, EndedRun, OneRun
<1> QED BY <1>1, <1>2

\* So do the two halves of a stop.
LEMMA StopRows ==
    ASSUME run \in [Runs -> Run], NEW n \in Runs
    PROVE  /\ StopAiRun(n) => RunsStep
           /\ Stop(n) => RunsStep
<1>1. ASSUME StopAiRun(n) PROVE RunsStep
  <2>1. PICK a : a = Ended(run[n], "settlement_pending", "stopped")
    OBVIOUS
  <2>2. run[n].status # "unborn"
    BY <1>1 DEF StopAiRun, Active, ActiveStatuses
  <2>3. RunStep(run[n], a) /\ a \in Run
    BY <2>1, <2>2, EndedRun DEF Statuses, Failures
  <2>4. PICK b : b = [a EXCEPT !.stop = TRUE]
    OBVIOUS
  <2>5. RunStep(a, b)
    BY <2>3, <2>4, StopRequestedRun
  <2>6. RunStep(run[n], b)
    BY <2>3, <2>5 DEF RunStep
  <2>7. Update(n, b)
    BY <1>1, <2>1, <2>4 DEF StopAiRun
  <2> QED BY <2>6, <2>7, OneRun
<1>2. ASSUME CloseStopped(n) PROVE RunsStep
  <2>1. CASE run[n].status = "settlement_pending" /\ run[n].failure = "stopped"
    <3>1. PICK b : b = [run[n] EXCEPT !.status = "stopped"]
      OBVIOUS
    <3>2. RunStep(run[n], b)
      BY <2>1, <3>1, StatusRun DEF Statuses
    <3>3. Update(n, b)
      BY <1>2, <2>1, <3>1 DEF CloseStopped
    <3> QED BY <3>2, <3>3, OneRun
  <2>2. CASE ~(run[n].status = "settlement_pending" /\ run[n].failure = "stopped")
    <3>1. Update(n, run[n])
      BY <1>2, <2>2 DEF CloseStopped
    <3> QED BY <3>1, SameRun, OneRun
  <2> QED BY <2>1, <2>2
<1>3. ASSUME Stop(n) PROVE RunsStep
  BY <1>2, <1>3, NoRun DEF Stop, ReleaseStopped, AbandonStop
<1> QED BY <1>1, <1>3

\* So does the decision of an administrator.
LEMMA ResolveRows ==
    ASSUME run \in [Runs -> Run], NEW c \in Resolution, Resolve(c)
    PROVE  RunsStep
<1>0. c.run \in Runs /\ c.target \in Statuses
  BY DEF Resolution, Statuses
<1>1. CASE UNCHANGED run
  BY <1>1, NoRun
<1>2. CASE ClaimSettlement(c)
  <2>1. CASE run[c.run].status = "settlement_pending"
    <3>1. PICK b : b = [run[c.run] EXCEPT !.status = c.target]
      OBVIOUS
    <3>2. RunStep(run[c.run], b)
      BY <1>0, <2>1, <3>1, StatusRun
    <3>3. Update(c.run, b)
      BY <1>2, <2>1, <3>1 DEF ClaimSettlement
    <3> QED BY <1>0, <3>2, <3>3, OneRun
  <2>2. CASE run[c.run].status # "settlement_pending"
    BY <1>1, <1>2, <2>2 DEF ClaimSettlement
  <2> QED BY <2>1, <2>2
<1>3. CASE RevertSettlement(c)
  <2>1. CASE run[c.run].status = c.target
    <3>1. PICK b : b = [run[c.run] EXCEPT !.status = "settlement_pending"]
      OBVIOUS
    <3>2. run[c.run].status # "unborn"
      BY <1>0, <2>1 DEF Statuses, ActiveStatuses
    <3>3. RunStep(run[c.run], b)
      BY <1>0, <3>1, <3>2, StatusRun DEF Statuses
    <3>4. Update(c.run, b)
      BY <1>3, <2>1, <3>1 DEF RevertSettlement
    <3> QED BY <1>0, <3>3, <3>4, OneRun
  <2>2. CASE run[c.run].status # c.target
    <3>1. Update(c.run, run[c.run])
      BY <1>3, <2>2 DEF RevertSettlement
    <3> QED BY <1>0, <3>1, SameRun, OneRun
  <2> QED BY <2>1, <2>2
<1> QED BY <1>1, <1>2, <1>3 DEF Resolve, CloseSettlement, AbandonSettlement

\* So do the three operations of the trash.
LEMMA ResumeRows ==
    ASSUME RunConstants, run \in [Runs -> Run],
           \A n \in Runs : run[n].points \in Reservations \cup {0},
           NEW r \in Resumes
    PROVE  /\ MoveResumeToTrash(r) => RunsStep
           /\ RestoreTrashedResume(r) => RunsStep
           /\ PurgeTrashedResume(r) => RunsStep
<1>1. ASSUME MoveResumeToTrash(r) PROVE RunsStep
  <2>1. ASSUME NEW n \in Runs PROVE RunStep(run[n], run'[n])
    <3>1. PICK b : b = [run[n] EXCEPT !.stop = TRUE]
      OBVIOUS
    <3>2. run'[n] = b \/ run'[n] = run[n]
      BY <1>1, <3>1 DEF MoveResumeToTrash
    <3> QED BY <3>1, <3>2, StopRequestedRun, SameRun
  <2>2. ASSUME NEW n \in Runs PROVE run'[n] \in Run
    BY <2>1 DEF RunStep
  <2>3. run' \in [Runs -> Run]
    BY <1>1, <2>2 DEF MoveResumeToTrash
  <2> QED BY <2>1, <2>3 DEF RunsStep
<1>2. ASSUME RestoreTrashedResume(r) PROVE RunsStep
  BY <1>2, NoRun DEF RestoreTrashedResume
<1>3. ASSUME PurgeTrashedResume(r) PROVE RunsStep
  <2>1. ASSUME NEW n \in Runs PROVE RunStep(run[n], run'[n])
    <3>1. CASE Exists(n) /\ run[n].resume = r
      <4>1. PICK a : a = NewRun(r, run[n].points)
        OBVIOUS
      <4>2. a \in Run /\ a.resume = r /\ a.points = run[n].points
        BY <4>1, NewRunType DEF NewRun
      <4>3. PICK b : b = [a EXCEPT !.status = "deleted", !.lease = "none"]
        OBVIOUS
      <4>4. run'[n] = b
        BY <1>3, <3>1, <4>1, <4>3 DEF PurgeTrashedResume
      <4>5. /\ b \in Run /\ b.status = "deleted"
            /\ b.resume = run[n].resume /\ b.points = run[n].points
        BY <3>1, <4>2, <4>3 DEF Run
      <4>6. run[n].status # "unborn"
        BY <3>1 DEF Exists, Statuses, ActiveStatuses
      <4> QED BY <4>4, <4>5, <4>6 DEF RunStep
    <3>2. CASE ~(Exists(n) /\ run[n].resume = r)
      <4>1. run'[n] = run[n]
        BY <1>3, <3>2 DEF PurgeTrashedResume
      <4> QED BY <4>1, SameRun
    <3> QED BY <3>1, <3>2
  <2>2. ASSUME NEW n \in Runs PROVE run'[n] \in Run
    BY <2>1 DEF RunStep
  <2>3. run' \in [Runs -> Run]
    BY <1>3, <2>2 DEF PurgeTrashedResume
  <2> QED BY <2>1, <2>3 DEF RunsStep
<1> QED BY <1>1, <1>2, <1>3

\* The INSERT: the first row that is unborn.
AdmitStep ==
    /\ UNCHANGED quotaVars
    /\ \E n \in Runs, r \in Resumes, p \in Reservations :
         run[n].status = "unborn" /\ run' = [run EXCEPT ![n] = NewRun(r, p)]

\* Admission turns an unborn row into a new run.
LEMMA AdmitRow ==
    ASSUME NEW r \in Resumes, NEW p \in Reservations, AdmitAiRun(r, p)
    PROVE  AdmitStep
BY DEF AdmitAiRun, AdmitStep, Update

-----------------------------------------------------------------------------
(* The account and the ledger                                              *)

\* A reserve entry belongs to a run that was inserted, and has its points: an
\* administrator's charge of run.points is the charge of the reservation.
PointsLinked ==
    \A n \in Runs :
      /\ run[n].status # "unborn" => run[n].points \in Reservations
      /\ \A u \in Users : ledger[u][n].reserve => run[n].status # "unborn"
      /\ ledger[UserOf(n)][n].reserve => ledger[UserOf(n)][n].points = run[n].points

\* What closes, renews or leaves alone keeps the reserve entries.
EntriesKept ==
    \A u \in Users, n \in Runs :
      /\ ledger'[u][n].reserve = ledger[u][n].reserve
      /\ ledger'[u][n].points = ledger[u][n].points

Keeping == [QuotaNext]_quotaVars /\ EntriesKept

\* A step that leaves the account alone keeps the entries.
LEMMA NoQuota ==
    ASSUME UNCHANGED quotaVars
    PROVE  Keeping
BY DEF quotaVars, Keeping, EntriesKept

\* Writing an entry with the same reservation keeps the entries.
LEMMA WriteKeeps ==
    ASSUME QuotaTypeOK, NEW u \in Users, NEW n \in Runs, NEW a, NEW e,
           Write(u, n, a, e),
           e.reserve = ledger[u][n].reserve, e.points = ledger[u][n].points
    PROVE  EntriesKept
<1>1. ledger' = [ledger EXCEPT ![u][n] = e]
  BY DEF Write
<1>2. ASSUME NEW v \in Users, NEW m \in Runs
      PROVE  ledger'[v][m] = IF v = u /\ m = n THEN e ELSE ledger[v][m]
  BY <1>1 DEF QuotaTypeOK
<1> QED BY <1>2 DEF EntriesKept

\* A release entry leaves the reservation as it was.
LEMMA AddReleaseKeeps ==
    ASSUME QuotaTypeOK, NEW u \in Users, NEW n \in Runs, AddRelease(u, n)
    PROVE  EntriesKept
<1>1. PICK d : d = [ledger[u][n] EXCEPT !.releases = @ + 1]
  OBVIOUS
<1>2. ledger[u][n] \in Entries
  BY DEF QuotaTypeOK
<1>3. d.reserve = ledger[u][n].reserve /\ d.points = ledger[u][n].points
  BY <1>1, <1>2 DEF Entries
<1>4. PICK a : Write(u, n, a, d)
  BY <1>1 DEF AddRelease
<1> QED BY <1>3, <1>4, WriteKeeps

\* A release is an operation of the account that keeps the entries.
LEMMA ReleaseKeeps ==
    ASSUME QuotaTypeOK, NEW u \in Users, NEW n \in Runs,
           Release(u, n) \/ ReleaseUnused(u, n)
    PROVE  Keeping
<1>1. QuotaNext
  BY DEF QuotaNext
<1>2. CASE AddRelease(u, n)
  BY <1>1, <1>2, AddReleaseKeeps DEF Keeping
<1>3. CASE UNCHANGED quotaVars
  BY <1>3, NoQuota
<1> QED BY <1>2, <1>3 DEF Release, ReleaseUnused

\* A charge of a known amount, or of what was reserved.
LEMMA SettleKeeps ==
    ASSUME QuotaTypeOK, NEW u \in Users, NEW n \in Runs, NEW c, Settle(u, n, c),
           c \in Charges \/ (ledger[u][n].reserve => c = ledger[u][n].points)
    PROVE  Keeping
<1>1. CASE ledger[u][n].settlements > 0
  BY <1>1, NoQuota DEF Settle
<1>2. CASE ~(ledger[u][n].settlements > 0)
  <2>1. c \in Charges \cup {ledger[u][n].points}
    BY <1>2 DEF Settle, Settleable, Reserved
  <2>2. QuotaNext
    BY <2>1 DEF QuotaNext
  <2>3. PICK d : d = [ledger[u][n] EXCEPT !.settlements = @ + 1]
    OBVIOUS
  <2>4. ledger[u][n] \in Entries
    BY DEF QuotaTypeOK
  <2>5. d.reserve = ledger[u][n].reserve /\ d.points = ledger[u][n].points
    BY <2>3, <2>4 DEF Entries
  <2>6. PICK a : Write(u, n, a, d)
    BY <1>2, <2>3 DEF Settle
  <2> QED BY <2>2, <2>5, <2>6, WriteKeeps DEF Keeping
<1> QED BY <1>1, <1>2

\* The account of a run is that of a user.
LEMMA OwnerIsUser ==
    ASSUME RunConstants, run \in [Runs -> Run], NEW n \in Runs
    PROVE  UserOf(n) \in Users
BY DEF UserOf, RunConstants, Run

\* Every step but a reservation keeps the reserve entries.
LEMMA PrepareQuota ==
    ASSUME RunConstants, QuotaTypeOK, run \in [Runs -> Run], NEW n \in Runs,
           Prepare(n)
    PROVE  Keeping \/ ReserveQuota(n)
<1>1. CASE UNCHANGED quotaVars
  BY <1>1, NoQuota
<1>2. CASE UndoReservation(n)
  <2>1. ReleaseRun(n) \/ UNCHANGED quotaVars
    BY <1>2 DEF UndoReservation, ReleaseThrows
  <2>2. CASE ReleaseRun(n)
    BY <2>2, OwnerIsUser, ReleaseKeeps DEF ReleaseRun
  <2> QED BY <1>1, <2>1, <2>2
<1> QED BY <1>1, <1>2 DEF Prepare, RefuseQuota, EnqueueRun, FailPreparation,
       RecordPreflightFailure, AbandonPreparation

\* What an execution does to the account is an operation of AiQuota.
LEMMA ExecuteQuota ==
    ASSUME RunConstants, QuotaTypeOK, run \in [Runs -> Run], NEW n \in Runs,
           Execute(n) \/ ReportUsage(n)
    PROVE  Keeping
<1>1. CASE UNCHANGED quotaVars
  BY <1>1, NoQuota
<1>2. CASE FinalizeOwnedAiRun(n)
  <2>1. UNCHANGED quotaVars \/ \E actual \in Charges : SettleRun(n, actual)
    BY <1>2 DEF FinalizeOwnedAiRun
  <2>2. CASE \E actual \in Charges : SettleRun(n, actual)
    BY <2>2, OwnerIsUser, SettleKeeps DEF SettleRun
  <2> QED BY <1>1, <2>1, <2>2
<1>3. CASE ReleaseUnbilled(n)
  <2>1. ReleaseRun(n) \/ UNCHANGED quotaVars
    BY <1>3 DEF ReleaseUnbilled, ReleaseThrows
  <2>2. CASE ReleaseRun(n)
    BY <2>2, OwnerIsUser, ReleaseKeeps DEF ReleaseRun
  <2> QED BY <1>1, <2>1, <2>2
<1> QED BY <1>1, <1>2, <1>3 DEF Execute, ReportUsage, StartRun, FailExecution,
       LoseRun, RecordFailure, AbandonExecution

\* So is what a stop or a recovery does to it.
LEMMA StopQuota ==
    ASSUME RunConstants, QuotaTypeOK, run \in [Runs -> Run], NEW n \in Runs
    PROVE  /\ Stop(n) => Keeping
           /\ RecoverExpiredAiRun(n) => Keeping
<1>1. ASSUME ReleaseStopped(n) PROVE Keeping
  <2>1. ReleaseRun(n) \/ UNCHANGED quotaVars
    BY <1>1 DEF ReleaseStopped, ReleaseThrows
  <2>2. CASE ReleaseRun(n)
    BY <2>2, OwnerIsUser, ReleaseKeeps DEF ReleaseRun
  <2> QED BY <2>1, <2>2, NoQuota
<1>2. ASSUME Stop(n) PROVE Keeping
  BY <1>1, <1>2, NoQuota DEF Stop, CloseStopped, AbandonStop
<1>3. ASSUME RecoverExpiredAiRun(n) PROVE Keeping
  <2>1. ReleaseUnused(UserOf(n), n) \/ UNCHANGED quotaVars
    BY <1>3 DEF RecoverExpiredAiRun
  <2> QED BY <2>1, OwnerIsUser, ReleaseKeeps, NoQuota
<1> QED BY <1>2, <1>3

\* So is what an administrator does to it: a charge is what was reserved.
LEMMA ResolveQuota ==
    ASSUME RunConstants, QuotaTypeOK, run \in [Runs -> Run], PointsLinked,
           NEW c \in Resolution, Resolve(c)
    PROVE  Keeping
<1>0. c.run \in Runs
  BY DEF Resolution
<1>1. CASE CloseSettlement(c)
  <2>1. ReleaseRun(c.run) \/ SettleRun(c.run, run[c.run].points)
    BY <1>1 DEF CloseSettlement
  <2>2. CASE ReleaseRun(c.run)
    BY <1>0, <2>2, OwnerIsUser, ReleaseKeeps DEF ReleaseRun
  <2>3. CASE SettleRun(c.run, run[c.run].points)
    BY <1>0, <2>3, OwnerIsUser, SettleKeeps DEF SettleRun, PointsLinked
  <2> QED BY <2>1, <2>2, <2>3
<1>2. CASE RevertSettlement(c)
  <2>1. UNCHANGED quotaVars
    BY <1>2 DEF RevertSettlement, ReleaseThrows, SettleThrows
  <2> QED BY <2>1, NoQuota
<1>3. CASE ClaimSettlement(c) \/ AbandonSettlement(c)
  BY <1>3, NoQuota DEF ClaimSettlement, AbandonSettlement
<1> QED BY <1>1, <1>2, <1>3 DEF Resolve

\* A change of the quota is an operation of AiQuota.
LEMMA ChangeKeeps ==
    ASSUME NEW u \in Users, ChangeQuota(u)
    PROVE  Keeping
<1>1. QuotaNext
  BY DEF ChangeQuota, QuotaNext
<1>2. UNCHANGED ledger
  BY DEF ChangeQuota, UpdateQuota, EndPeriod
<1> QED BY <1>1, <1>2 DEF Keeping, EntriesKept

-----------------------------------------------------------------------------
(* The link between the runs and their reserve entries                     *)

LEMMA LinkKept ==
    ASSUME RunConstants, run \in [Runs -> Run], PointsLinked, RunsStep, EntriesKept
    PROVE  PointsLinked'
<1>1. ASSUME NEW n \in Runs
      PROVE  /\ run'[n].status # "unborn" => run'[n].points \in Reservations
             /\ \A u \in Users : ledger'[u][n].reserve => run'[n].status # "unborn"
             /\ ledger'[UserOf(n)'][n].reserve
                  => ledger'[UserOf(n)'][n].points = run'[n].points
  <2>1. UserOf(n) \in Users
    BY OwnerIsUser
  <2>2. UserOf(n)' = UserOf(n) /\ RunStep(run[n], run'[n])
    BY DEF RunsStep, RunStep, UserOf
  <2> QED BY <2>1, <2>2 DEF PointsLinked, EntriesKept, RunStep
<1> QED BY <1>1 DEF PointsLinked

\* A new run has no reserve entry that could differ from its points.
LEMMA LinkAdmitted ==
    ASSUME RunConstants, run \in [Runs -> Run], PointsLinked, AdmitStep
    PROVE  PointsLinked' /\ run' \in [Runs -> Run]
<1>1. PICK i \in Runs, r \in Resumes, p \in Reservations :
        run[i].status = "unborn" /\ run' = [run EXCEPT ![i] = NewRun(r, p)]
  BY DEF AdmitStep
<1>2. PICK b : b = NewRun(r, p)
  OBVIOUS
<1>3. b \in Run /\ b.points = p /\ b.resume = r /\ b.status # "unborn"
  BY <1>2, NewRunType DEF NewRun
<1>4. run' \in [Runs -> Run]
  BY <1>1, <1>2, <1>3
<1>5. ASSUME NEW n \in Runs
      PROVE  /\ run'[n].status # "unborn" => run'[n].points \in Reservations
             /\ \A u \in Users : ledger'[u][n].reserve => run'[n].status # "unborn"
             /\ ledger'[UserOf(n)'][n].reserve
                  => ledger'[UserOf(n)'][n].points = run'[n].points
  <2>1. ledger' = ledger
    BY DEF AdmitStep, quotaVars
  <2>2. CASE n = i
    <3>1. run'[n] = b /\ UserOf(n)' \in Users
      BY <1>1, <1>2, <1>3, <2>2 DEF UserOf, RunConstants
    <3>2. \A u \in Users : ~ledger[u][n].reserve
      BY <1>1, <2>2 DEF PointsLinked
    <3> QED BY <1>3, <2>1, <3>1, <3>2
  <2>3. CASE n # i
    <3>1. run'[n] = run[n] /\ UserOf(n)' = UserOf(n)
      BY <1>1, <2>3 DEF UserOf
    <3> QED BY <2>1, <3>1 DEF PointsLinked
  <2> QED BY <2>2, <2>3
<1> QED BY <1>4, <1>5 DEF PointsLinked

\* The reservation of a run is made with its own points.
LEMMA LinkReserved ==
    ASSUME RunConstants, QuotaTypeOK, run \in [Runs -> Run], PointsLinked,
           NEW n \in Runs, ReserveQuota(n)
    PROVE  PointsLinked' /\ QuotaNext /\ UNCHANGED run
<1>1. /\ UserOf(n) \in Users /\ run[n].points \in Reservations
      /\ run[n].status # "unborn" /\ UNCHANGED run
      /\ Reserve(UserOf(n), n, run[n].points)
  BY OwnerIsUser DEF ReserveQuota, Exists, Statuses, ActiveStatuses, PointsLinked
<1>2. QuotaNext
  BY <1>1 DEF QuotaNext
<1>3. CASE ledger[UserOf(n)][n].reserve
  <2>1. PICK a : Write(UserOf(n), n, a, ledger[UserOf(n)][n])
    BY <1>1, <1>3 DEF Reserve
  <2>2. EntriesKept
    BY <1>1, <2>1, WriteKeeps
  <2>3. PointsLinked'
    BY <1>1, <2>2, NoRun, LinkKept
  <2> QED BY <1>1, <1>2, <2>3
<1>4. CASE ~ledger[UserOf(n)][n].reserve
  <2>1. PICK d : d = [ledger[UserOf(n)][n] EXCEPT !.reserve = TRUE,
                                                  !.points = run[n].points]
    OBVIOUS
  <2>2. ledger[UserOf(n)][n] \in Entries
    BY <1>1 DEF QuotaTypeOK
  <2>3. d.reserve /\ d.points = run[n].points
    BY <2>1, <2>2 DEF Entries
  <2>4. ledger' = [ledger EXCEPT ![UserOf(n)][n] = d]
    BY <1>1, <1>4, <2>1 DEF Reserve, Write
  <2>5. ASSUME NEW v \in Users, NEW m \in Runs
        PROVE  ledger'[v][m] = IF v = UserOf(n) /\ m = n THEN d ELSE ledger[v][m]
    BY <1>1, <2>4 DEF QuotaTypeOK
  <2>6. ASSUME NEW m \in Runs
        PROVE  /\ run[m].status # "unborn" => run[m].points \in Reservations
               /\ \A u \in Users : ledger'[u][m].reserve => run[m].status # "unborn"
               /\ ledger'[UserOf(m)][m].reserve
                    => ledger'[UserOf(m)][m].points = run[m].points
    <3>1. UserOf(m) \in Users
      BY OwnerIsUser
    <3> QED BY <1>1, <2>3, <2>5, <3>1 DEF PointsLinked
  <2>7. PointsLinked'
    BY <1>1, <2>6 DEF PointsLinked, UserOf
  <2> QED BY <1>1, <1>2, <2>7
<1> QED BY <1>3, <1>4

-----------------------------------------------------------------------------
(* The phases of the procedures                                            *)

PhasesOK ==
    /\ resume \in [Resumes -> {"active", "trashed", "purged"}]
    /\ prep \in [Runs -> Preparing \cup {"none", "done"}]
    /\ exec \in [Runs -> Execution]
    /\ stopper \in [Runs -> {"none", "releasing", "closing"}]
    /\ resolving \subseteq Resolution

\* The type invariant in its three parts: account, rows, phases.
LEMMA TypeParts ==
    TypeOK <=> QuotaTypeOK /\ run \in [Runs -> Run] /\ PhasesOK
BY DEF TypeOK, PhasesOK

\* A move to a known phase keeps the type of executions.
LEMMA ExecutePhase ==
    ASSUME exec \in [Runs -> Execution], NEW n \in Runs,
           NEW p \in Executing \cup {"none", "ended"}, ExecuteTo(n, p)
    PROVE  exec' \in [Runs -> Execution]
BY DEF Execution, ExecuteTo

\* Preparation keeps the types of all phases.
LEMMA PreparePhases ==
    ASSUME PhasesOK, NEW n \in Runs, Prepare(n)
    PROVE  PhasesOK'
<1>1. UNCHANGED <<resume, exec, stopper, resolving>>
  BY DEF Prepare, ReserveQuota, RefuseQuota, EnqueueRun, FailPreparation,
         UndoReservation, RecordPreflightFailure, AbandonPreparation
<1>2. \E p \in Preparing \cup {"done"} : PrepareTo(n, p)
  BY DEF Prepare, ReserveQuota, RefuseQuota, EnqueueRun, FailPreparation,
         UndoReservation, RecordPreflightFailure, AbandonPreparation, Preparing
<1> QED BY <1>1, <1>2 DEF PhasesOK, PrepareTo

\* Execution keeps them.
LEMMA ExecutePhases ==
    ASSUME PhasesOK, NEW n \in Runs, Execute(n) \/ ReportUsage(n)
    PROVE  PhasesOK'
<1>1. UNCHANGED <<resume, prep, stopper, resolving>>
  BY DEF Execute, ReportUsage, StartRun, FailExecution, LoseRun,
         FinalizeOwnedAiRun, ReleaseUnbilled, RecordFailure, AbandonExecution
<1>2. CASE exec' \in [Runs -> Execution]
  BY <1>1, <1>2 DEF PhasesOK
<1>3. CASE \E p \in Executing \cup {"ended"} : ExecuteTo(n, p)
  BY <1>2, <1>3, ExecutePhase DEF PhasesOK
<1>4. CASE ReportUsage(n)
  BY <1>2, <1>4 DEF ReportUsage, PhasesOK, Execution
<1>5. CASE \E code \in {"stopped", "failed"} : FailExecution(n, code)
  <2>1. PICK code \in {"stopped", "failed"}, p \in {"unbilled", "recording"} :
          exec' = [exec EXCEPT ![n] = [exec[n] EXCEPT !.phase = p, !.code = code]]
    BY <1>5 DEF FailExecution
  <2>2. PICK x : x = [exec[n] EXCEPT !.phase = p, !.code = code]
    OBVIOUS
  <2>3. exec[n] \in Execution
    BY DEF PhasesOK
  <2>4. x \in Execution
    BY <2>2, <2>3 DEF Execution, Executing, Failures
  <2> QED BY <1>2, <2>1, <2>2, <2>4 DEF PhasesOK
<1> QED BY <1>3, <1>4, <1>5 DEF Execute, StartRun, FinalizeOwnedAiRun, LoseRun,
       ReleaseUnbilled, RecordFailure, AbandonExecution, Executing

\* A claim keeps them.
LEMMA ClaimPhases ==
    ASSUME PhasesOK, NEW w \in Workers, ClaimQueuedAiRun(w)
    PROVE  PhasesOK'
<1>1. PICK x : x = [phase |-> "claimed", used |-> FALSE, owner |-> w, code |-> "none"]
  OBVIOUS
<1>2. x \in Execution
  BY <1>1 DEF Execution, Executing, Failures
<1>3. PICK n \in Runs : exec' = [exec EXCEPT ![n] = x]
  BY <1>1 DEF ClaimQueuedAiRun
<1>4. UNCHANGED <<resume, prep, stopper, resolving>>
  BY DEF ClaimQueuedAiRun
<1> QED BY <1>2, <1>3, <1>4 DEF PhasesOK

\* The steps of a decision keep them.
LEMMA ResolvePhases ==
    ASSUME PhasesOK, NEW c \in resolving, Resolve(c)
    PROVE  PhasesOK'
<1>1. UNCHANGED <<resume, prep, exec, stopper>>
  BY DEF Resolve, ClaimSettlement, CloseSettlement, RevertSettlement,
         AbandonSettlement
<1>2. CASE Drop(c)
  BY <1>1, <1>2 DEF Drop, PhasesOK
<1>3. PICK d : d = [c EXCEPT !.closing = TRUE]
  OBVIOUS
<1>4. d \in Resolution
  BY <1>3 DEF PhasesOK, Resolution
<1>5. CASE Replace(c, d)
  BY <1>1, <1>4, <1>5 DEF Replace, PhasesOK
<1> QED BY <1>2, <1>3, <1>5 DEF Resolve, ClaimSettlement, CloseSettlement,
       RevertSettlement, AbandonSettlement

\* A new decision keeps them.
LEMMA ReadPhases ==
    ASSUME PhasesOK, NEW n \in Runs, NEW d \in Decisions, ReadSettlement(n, d)
    PROVE  PhasesOK'
<1>1. PICK c : c = [run |-> n, decision |-> d, closing |-> FALSE, target |-> Target(n, d)]
  OBVIOUS
<1>2. Target(n, d) \in {"complete", "stopped", "failed"}
  BY DEF Target
<1>3. c \in Resolution
  BY <1>1, <1>2 DEF Resolution
<1>4. resolving' = resolving \cup {c} /\ UNCHANGED <<resume, prep, exec, stopper>>
  BY <1>1 DEF ReadSettlement
<1> QED BY <1>3, <1>4 DEF PhasesOK

\* Stops, recovery, the trash and the quota keep them.
LEMMA OtherPhases ==
    ASSUME PhasesOK
    PROVE  /\ \A n \in Runs : Stop(n) \/ StopAiRun(n) => PhasesOK'
           /\ \A n \in Runs : ExpireLease(n) \/ RecoverExpiredAiRun(n) => PhasesOK'
           /\ \A r \in Resumes : MoveResumeToTrash(r) \/ RestoreTrashedResume(r)
                                   \/ PurgeTrashedResume(r) => PhasesOK'
           /\ \A u \in Users : ChangeQuota(u) => PhasesOK'
<1>1. ASSUME NEW n \in Runs, Stop(n) \/ StopAiRun(n) PROVE PhasesOK'
  BY <1>1 DEF Stop, StopAiRun, ReleaseStopped, CloseStopped, AbandonStop, StopTo,
              PhasesOK
<1>2. ASSUME NEW n \in Runs, ExpireLease(n) \/ RecoverExpiredAiRun(n) PROVE PhasesOK'
  BY <1>2 DEF ExpireLease, RecoverExpiredAiRun, PhasesOK
<1>3. ASSUME NEW r \in Resumes, MoveResumeToTrash(r) \/ RestoreTrashedResume(r)
                                  \/ PurgeTrashedResume(r)
      PROVE  PhasesOK'
  BY <1>3 DEF MoveResumeToTrash, RestoreTrashedResume, PurgeTrashedResume, PhasesOK
<1>4. ASSUME NEW u \in Users, ChangeQuota(u) PROVE PhasesOK'
  BY <1>4 DEF ChangeQuota, runVars, PhasesOK
<1> QED BY <1>1, <1>2, <1>3, <1>4

\* Admission keeps them.
LEMMA AdmitPhases ==
    ASSUME PhasesOK, NEW r \in Resumes, NEW p \in Reservations, AdmitAiRun(r, p)
    PROVE  PhasesOK'
<1>1. PICK n \in Runs : PrepareTo(n, "admitted")
  BY DEF AdmitAiRun
<1>2. UNCHANGED <<resume, exec, stopper, resolving>>
  BY DEF AdmitAiRun
<1> QED BY <1>1, <1>2 DEF PrepareTo, PhasesOK, Preparing

-----------------------------------------------------------------------------
(* The theorems                                                            *)

\* The type invariant is not inductive alone: that an administrator's charge of
\* run.points is an operation of the ledger needs the link.
AiInv == TypeOK /\ PointsLinked

\* The invariant holds before the first run is admitted.
LEMMA AiInit ==
    ASSUME QuotaConstants, RunConstants, Init
    PROVE  AiInv
<1>1. PICK a : a = NewRun(CHOOSE r \in Resumes : TRUE, 0)
  OBVIOUS
<1>2. a \in Run
  BY <1>1, NewRunType DEF RunConstants
<1>3. PICK b : b = [a EXCEPT !.status = "unborn", !.lease = "none"]
  OBVIOUS
<1>4. b \in Run /\ b.status = "unborn"
  BY <1>2, <1>3 DEF Run
<1>5. run = [n \in Runs |-> b]
  BY <1>1, <1>3 DEF Init
<1>6. QuotaTypeOK
  BY QuotaInitInv DEF Init, QuotaInv
<1>7. PhasesOK
  BY DEF Init, PhasesOK, Preparing, Execution, Executing, Failures
<1>8. PointsLinked
  <2>1. ASSUME NEW n \in Runs, NEW u \in Users PROVE ~ledger[u][n].reserve
    BY DEF Init, QuotaInit, NoEntries
  <2>2. ASSUME NEW n \in Runs PROVE UserOf(n) \in Users /\ run[n].status = "unborn"
    BY <1>4, <1>5, OwnerIsUser
  <2> QED BY <2>1, <2>2 DEF PointsLinked
<1> QED BY <1>4, <1>5, <1>6, <1>7, <1>8, TypeParts DEF AiInv

\* What one step does to the rows, the account and the ledger.
LEMMA AiNextParts ==
    ASSUME QuotaConstants, RunConstants, AiInv, Next
    PROVE  /\ PhasesOK'
           /\ \/ RunsStep /\ Keeping
              \/ AdmitStep
              \/ \E n \in Runs : ReserveQuota(n)
<1>1. QuotaTypeOK /\ PhasesOK /\ PointsLinked /\ run \in [Runs -> Run]
      /\ exec \in [Runs -> Execution]
  BY TypeParts DEF AiInv, PhasesOK
<1>2. ASSUME NEW r \in Resumes, NEW p \in Reservations, AdmitAiRun(r, p)
      PROVE  PhasesOK' /\ AdmitStep
  BY <1>1, <1>2, AdmitPhases, AdmitRow
<1>3. ASSUME NEW r \in Resumes, MoveResumeToTrash(r) \/ RestoreTrashedResume(r)
                                  \/ PurgeTrashedResume(r)
      PROVE  PhasesOK' /\ RunsStep /\ Keeping
  <2>1. \A n \in Runs : run[n].points \in Reservations \cup {0}
    BY <1>1 DEF Run
  <2>2. RunsStep
    BY <1>1, <1>3, <2>1, ResumeRows
  <2>3. UNCHANGED quotaVars
    BY <1>3 DEF MoveResumeToTrash, RestoreTrashedResume, PurgeTrashedResume
  <2> QED BY <1>1, <1>3, <2>2, <2>3, OtherPhases, NoQuota
<1>4. ASSUME NEW n \in Runs, Prepare(n)
      PROVE  PhasesOK' /\ ((RunsStep /\ Keeping) \/ ReserveQuota(n))
  BY <1>1, <1>4, PrepareRows, PrepareQuota, PreparePhases
<1>5. ASSUME NEW n \in Runs, Execute(n) \/ ReportUsage(n)
      PROVE  PhasesOK' /\ RunsStep /\ Keeping
  BY <1>1, <1>5, ExecuteRows, ExecuteQuota, ExecutePhases
<1>6. ASSUME NEW n \in Runs, Stop(n) \/ RecoverExpiredAiRun(n)
      PROVE  PhasesOK' /\ RunsStep /\ Keeping
  BY <1>1, <1>6, StopRows, RecoveryRows, StopQuota, OtherPhases
<1>7. ASSUME NEW n \in Runs, ExpireLease(n) \/ StopAiRun(n)
      PROVE  PhasesOK' /\ RunsStep /\ Keeping
  <2>1. UNCHANGED quotaVars
    BY <1>7 DEF ExpireLease, StopAiRun
  <2> QED BY <1>1, <1>7, <2>1, StopRows, RecoveryRows, OtherPhases, NoQuota
<1>8. ASSUME NEW n \in Runs, NEW d \in Decisions, ReadSettlement(n, d)
      PROVE  PhasesOK' /\ RunsStep /\ Keeping
  <2>1. UNCHANGED quotaVars /\ UNCHANGED run
    BY <1>8 DEF ReadSettlement
  <2> QED BY <1>1, <1>8, <2>1, ReadPhases, NoRun, NoQuota
<1>9. ASSUME NEW w \in Workers, ClaimQueuedAiRun(w)
      PROVE  PhasesOK' /\ RunsStep /\ Keeping
  <2>1. UNCHANGED quotaVars
    BY <1>9 DEF ClaimQueuedAiRun
  <2> QED BY <1>1, <1>9, <2>1, ClaimRow, ClaimPhases, NoQuota
<1>10. ASSUME NEW c \in resolving, Resolve(c)
       PROVE  PhasesOK' /\ RunsStep /\ Keeping
  <2>1. c \in Resolution
    BY <1>1 DEF PhasesOK
  <2> QED BY <1>1, <1>10, <2>1, ResolveRows, ResolveQuota, ResolvePhases
<1>11. ASSUME NEW u \in Users, ChangeQuota(u)
       PROVE  PhasesOK' /\ RunsStep /\ Keeping
  <2>1. UNCHANGED run
    BY <1>11 DEF ChangeQuota, runVars
  <2> QED BY <1>1, <1>11, <2>1, ChangeKeeps, OtherPhases, NoRun
<1> QED BY <1>2, <1>3, <1>4, <1>5, <1>6, <1>7, <1>8, <1>9, <1>10, <1>11
        DEF Next, ProcessTrashedResumeStops

\* The type invariant of the account, which is inductive by itself.
LEMMA QuotaTypeKept ==
    ASSUME QuotaConstants, QuotaTypeOK, [QuotaNext]_quotaVars
    PROVE  QuotaTypeOK'
<1>1. CASE UNCHANGED quotaVars
  BY <1>1 DEF quotaVars, QuotaTypeOK
<1>2. CASE QuotaNext
  <2>1. Safe
    BY <1>2, QuotaNextSafe
  <2> QED BY <2>1 DEF Safe, WritesAccount, QuotaTypeOK, Ledger
<1> QED BY <1>1, <1>2

\* The invariant is inductive, and every step is one of the account or leaves it alone.
LEMMA AiStep ==
    ASSUME QuotaConstants, RunConstants, AiInv, [Next]_vars
    PROVE  AiInv' /\ [QuotaNext]_quotaVars
<1>1. QuotaTypeOK /\ PhasesOK /\ PointsLinked /\ run \in [Runs -> Run]
  BY TypeParts DEF AiInv
<1>2. ASSUME [QuotaNext]_quotaVars, PhasesOK', run' \in [Runs -> Run], PointsLinked'
      PROVE  AiInv'
  <2>1. QuotaTypeOK'
    BY <1>1, <1>2, QuotaTypeKept
  <2> QED BY <1>2, <2>1 DEF AiInv, TypeOK, PhasesOK
<1>3. CASE UNCHANGED vars
  <2>1. UNCHANGED quotaVars
    BY <1>3 DEF vars, quotaVars
  <2> QED BY <1>3, <2>1
      DEF vars, AiInv, TypeOK, QuotaTypeOK, PointsLinked, UserOf, quotaVars
<1>4. CASE Next
  <2>0. PhasesOK'
    BY <1>4, AiNextParts
  <2>1. CASE RunsStep /\ Keeping
    BY <1>1, <1>2, <2>0, <2>1, LinkKept DEF Keeping, RunsStep
  <2>2. CASE AdmitStep
    <3>1. UNCHANGED quotaVars
      BY <2>2 DEF AdmitStep
    <3> QED BY <1>1, <1>2, <2>0, <2>2, <3>1, LinkAdmitted
  <2>3. CASE \E n \in Runs : ReserveQuota(n)
    BY <1>1, <1>2, <2>0, <2>3, LinkReserved
  <2> QED BY <1>4, <2>1, <2>2, <2>3, AiNextParts
<1> QED BY <1>3, <1>4

\* The invariant holds in every behaviour of the system.
LEMMA AiInvariance == Spec => []AiInv
<1>1. Init => AiInv
  BY QuotaConstants, RunConstants, AiInit
<1>2. AiInv /\ [Next]_vars => AiInv'
  BY QuotaConstants, RunConstants, AiStep
<1> QED BY <1>1, <1>2, PTL DEF Spec

\* Types of the runs, the phases of their procedures, the account and the ledger.
THEOREM AiTypeCorrect == Spec => []TypeOK
<1>1. AiInv => TypeOK
  BY DEF AiInv
<1> QED BY <1>1, AiInvariance, PTL

\* The runs implement the points account: whatever crashes and whichever
\* procedures overlap, the account only moves by operations of the ledger.
THEOREM RunsImplementQuota == Spec => ImplementsQuota
<1>1. Init => QuotaInit
  BY DEF Init
<1>2. AiInv /\ [Next]_vars => [QuotaNext]_quotaVars
  BY QuotaConstants, RunConstants, AiStep
<1> QED BY <1>1, <1>2, AiInvariance, PTL DEF Spec, QuotaSpec, ImplementsQuota

\* What is proved of the account holds of the system of runs: nobody spends more
\* than the highest limit that is given.
THEOREM RunsNeverOverdraw == Spec => []QuotaNeverOverdrawn
<1>1. QuotaSpec => []QuotaNeverOverdrawn
  BY QuotaIsNeverOverdrawn
<1> QED BY <1>1, RunsImplementQuota, PTL DEF ImplementsQuota

\* Nor do crashes, recovery and overlapping procedures ever take the account away
\* from its ledger: what is reserved is what the entries of the runs add up to.
THEOREM RunsKeepTheLedger == Spec => []LedgerBalances
<1>1. QuotaSpec => []LedgerBalances
  BY LedgerAlwaysBalances
<1> QED BY <1>1, RunsImplementQuota, PTL DEF ImplementsQuota
=============================================================================

-------------------------- MODULE PdfExport_proofs --------------------------
(* Theorems about PdfExport for every value of its constants.              *)
(*                                                                         *)
(* Every action changes each row by one of a few row operators (Settled,   *)
(* Reaped, Stopped, ...).  RowStep says what all of them keep; the          *)
(* invariants follow from it without looking at the actions again.          *)
EXTENDS PdfExport, TLAPS, FiniteSetTheorems

IsActive(a) == a.status \in {"queued", "running"}

\* A row of the right shape.  A queued one has an attempt left, and an unfinished
\* one has no retention yet, unless the trash has withdrawn it and flagged it.
RowOK(a) ==
    /\ a \in Row
    /\ a.status = "queued" => a.attempts < MaxAttempts
    /\ IsActive(a) => a.retention = "open"
                        \/ (a.retention = "due" /\ a.cancelRequested)

\* What every change of a row keeps, insertions and claims apart.
RowStep(a, b) ==
    /\ RowOK(b)
    /\ b.status \in Statuses => a.status \in Statuses /\ b.resume = a.resume
    /\ IsActive(b) => IsActive(a)
    /\ b.status = "running" => a.status = "running"
    /\ b.status = "unborn" => a.status = "unborn"
    /\ a.cancelRequested /\ b.status \in Statuses =>
         /\ b.cancelRequested
         /\ b.status = "queued" => a.status = "queued"
         /\ b.status = "completed" => a.status = "completed"
         /\ a.retention = "due" => b.retention = "due"
    /\ a.retention = "due" /\ b.status \in Statuses =>
         b.retention = "due" \/ (a.status = "running" /\ ~a.cancelRequested)
    /\ b.worker \in {a.worker, NoSession}
    /\ b.attempts = a.attempts

-----------------------------------------------------------------------------
(* The row operators                                                       *)

LEMMA NewRowOK ==
    ASSUME PdfConstants, NEW u \in Users \cup {Anonymous}, NEW r \in Resumes
    PROVE  RowOK(NewRow(u, r))
BY DEF NewRow, Row, Statuses, Absent, RowOK, IsActive, PdfConstants

\* A row may stay as it is.
LEMMA SameRow ==
    ASSUME NEW a, RowOK(a)
    PROVE  RowStep(a, a)
BY DEF RowStep, RowOK, Row, Statuses, IsActive

\* A row that ends: unless it completes, it may have been anything unfinished.
LEMMA SettledRow ==
    ASSUME NEW a, RowOK(a), IsActive(a), NEW st \in {"failed", "cancelled"}
    PROVE  RowStep(a, Settled(a, st))
<1>1. PICK b : b = Settled(a, st)
  OBVIOUS
<1>2. /\ b \in Row /\ b.status = st /\ b.resume = a.resume
      /\ b.cancelRequested = a.cancelRequested /\ b.worker = NoSession
      /\ b.attempts = a.attempts
      /\ a.retention = "due" => b.retention = "due"
  BY <1>1 DEF Settled, RowOK, Row, Statuses
<1>3. RowStep(a, b)
  BY <1>2 DEF RowStep, RowOK, IsActive, Statuses
<1> QED BY <1>1, <1>3

\* Cancelling a queued row is a step of it.
LEMMA CancelledRow ==
    ASSUME NEW a, RowOK(a), a.status = "queued"
    PROVE  RowStep(a, Cancelled(a))
<1>1. PICK s : s = Settled(a, "cancelled")
  OBVIOUS
<1>2. /\ s \in Row /\ s.status = "cancelled" /\ s.resume = a.resume
      /\ s.worker = NoSession /\ s.attempts = a.attempts
      /\ a.retention = "due" => s.retention = "due"
  BY <1>1 DEF Settled, RowOK, Row, Statuses
<1>3. PICK b : b = [s EXCEPT !.cancelRequested = TRUE]
  OBVIOUS
<1>4. /\ b \in Row /\ b.status = "cancelled" /\ b.resume = a.resume
      /\ b.cancelRequested /\ b.worker = NoSession
      /\ b.attempts = a.attempts
      /\ a.retention = "due" => b.retention = "due"
  BY <1>2, <1>3 DEF Row
<1>5. RowStep(a, b)
  BY <1>4 DEF RowStep, RowOK, IsActive, Statuses
<1> QED BY <1>1, <1>3, <1>5 DEF Cancelled

\* Raising the cancel flag is a step of a row, whatever its status.
LEMMA FlaggedRow ==
    ASSUME NEW a, RowOK(a)
    PROVE  RowStep(a, [a EXCEPT !.cancelRequested = TRUE])
<1>1. PICK b : b = [a EXCEPT !.cancelRequested = TRUE]
  OBVIOUS
<1>2. /\ b \in Row /\ b.status = a.status /\ b.resume = a.resume
      /\ b.cancelRequested /\ b.retention = a.retention
      /\ b.attempts = a.attempts /\ b.worker = a.worker
  BY <1>1 DEF RowOK, Row
<1>3. RowStep(a, b)
  BY <1>2 DEF RowStep, RowOK, IsActive, Statuses
<1> QED BY <1>1, <1>3

\* Stopping by the trash is a step of a row, and leaves it flagged and withdrawn.
LEMMA StoppedRow ==
    ASSUME NEW a, RowOK(a)
    PROVE  /\ RowStep(a, Stopped(a))
           /\ Stopped(a).cancelRequested /\ Stopped(a).retention = "due"
           /\ Stopped(a).status # "queued"
<1>1. PICK b : b = Stopped(a)
  OBVIOUS
<1>2. /\ b \in Row /\ b.resume = a.resume
      /\ b.status = IF a.status = "queued" THEN "cancelled" ELSE a.status
      /\ b.cancelRequested /\ b.retention = "due" /\ b.worker = a.worker
      /\ b.attempts = a.attempts
  BY <1>1 DEF Stopped, RowOK, Row, Statuses
<1>3. RowStep(a, b) /\ b.status # "queued"
  BY <1>2 DEF RowStep, RowOK, IsActive, Statuses
<1> QED BY <1>1, <1>2, <1>3

\* Deleting a row is a step of it.
LEMMA DeletedRow ==
    ASSUME PdfConstants, NEW a, RowOK(a)
    PROVE  RowStep(a, Deleted(a)) /\ Deleted(a).status = "deleted"
<1>1. PICK n : n = NewRow(Anonymous, a.resume)
  OBVIOUS
<1>2. n \in Row /\ n.worker = NoSession
  BY <1>1, NewRowOK DEF RowOK, Row, NewRow
<1>3. PICK b : b = [n EXCEPT !.status = "deleted", !.attempts = a.attempts,
                             !.lease = a.lease]
  OBVIOUS
<1>4. /\ b \in Row /\ b.status = "deleted" /\ b.worker = NoSession
      /\ b.attempts = a.attempts
  BY <1>2, <1>3 DEF RowOK, Row, Absent
<1>5. RowStep(a, b)
  BY <1>4 DEF RowStep, RowOK, IsActive, Statuses
<1> QED BY <1>1, <1>3, <1>4, <1>5 DEF Deleted

\* The lease, the retention and the age of a row change nothing else.
LEMMA ClockRow ==
    ASSUME NEW a, RowOK(a), NEW b \in Row,
           b.status = a.status, b.cancelRequested = a.cancelRequested,
           b.attempts = a.attempts, b.resume = a.resume, b.worker = a.worker,
           \/ b.retention = a.retention
           \/ a.retention # "open" /\ b.retention = "due"
    PROVE  RowStep(a, b)
BY DEF RowStep, RowOK, IsActive, Statuses

\* Renewing a lease is a step of a row.
LEMMA RenewedRow ==
    ASSUME NEW a, RowOK(a), NEW s
    PROVE  RowStep(a, Renewed(a, s))
<1>1. CASE Held(a, s)
  <2>1. PICK b : b = [a EXCEPT !.lease = "live"]
    OBVIOUS
  <2>2. /\ b \in Row /\ b.status = a.status
        /\ b.cancelRequested = a.cancelRequested /\ b.attempts = a.attempts
        /\ b.resume = a.resume /\ b.retention = a.retention
        /\ b.worker = a.worker
    BY <2>1 DEF RowOK, Row
  <2>3. RowStep(a, b)
    BY <2>2, ClockRow
  <2> QED BY <1>1, <2>1, <2>3 DEF Renewed
<1>2. CASE ~Held(a, s)
  BY <1>2, SameRow DEF Renewed
<1> QED BY <1>1, <1>2

\* Only a held, unflagged row is completed.
LEMMA CompletedRow ==
    ASSUME NEW a, RowOK(a), NEW s, MaySave(a, s)
    PROVE  RowStep(a, Completed(a))
<1>1. PICK t : t = Settled(a, "completed")
  OBVIOUS
<1>2. /\ t \in Row /\ t.status = "completed" /\ t.resume = a.resume
      /\ t.cancelRequested = a.cancelRequested /\ t.worker = NoSession
      /\ t.attempts = a.attempts
  BY <1>1 DEF Settled, RowOK, Row, Statuses
<1>3. PICK b : b = [t EXCEPT !.retention = "kept"]
  OBVIOUS
<1>4. /\ b \in Row /\ b.status = "completed" /\ b.resume = a.resume
      /\ b.cancelRequested = a.cancelRequested /\ b.worker = NoSession
      /\ b.attempts = a.attempts
  BY <1>2, <1>3 DEF Row
<1>5. RowStep(a, b)
  BY <1>4 DEF RowStep, RowOK, IsActive, Statuses, MaySave, Held
<1> QED BY <1>1, <1>3, <1>5 DEF Completed

\* A row whose lease expired is settled, or goes back to the queue while it has
\* an attempt left and no cancel request.
LEMMA ReapedRow ==
    ASSUME PdfConstants, NEW a, RowOK(a)
    PROVE  RowStep(a, Reaped(a))
<1>1. CASE a.status # "running" \/ a.lease # "expired"
  BY <1>1, SameRow DEF Reaped
<1> SUFFICES ASSUME a.status = "running", a.lease = "expired"
             PROVE  RowStep(a, Reaped(a))
  BY <1>1
<1>2. CASE a.cancelRequested
  BY <1>2, SettledRow DEF Reaped, IsActive
<1>3. CASE ~a.cancelRequested /\ a.attempts >= MaxAttempts
  BY <1>3, SettledRow DEF Reaped, IsActive
<1>4. CASE ~a.cancelRequested /\ ~(a.attempts >= MaxAttempts)
  <2>1. PICK b : b = [a EXCEPT !.status = "queued", !.worker = NoSession,
                               !.lease = "none"]
    OBVIOUS
  <2>2. /\ b \in Row /\ b.status = "queued" /\ b.resume = a.resume
        /\ b.cancelRequested = a.cancelRequested /\ b.attempts = a.attempts
        /\ b.retention = a.retention /\ b.worker = NoSession
    BY <2>1 DEF RowOK, Row, Statuses
  <2>3. a.attempts \in Int /\ MaxAttempts \in Int
    BY DEF RowOK, Row, PdfConstants
  <2>4. b.attempts < MaxAttempts
    BY <1>4, <2>2, <2>3
  <2>5. RowStep(a, b)
    BY <1>4, <2>2, <2>4 DEF RowStep, RowOK, IsActive, Statuses
  <2>6. Reaped(a) = b
    BY <1>4, <2>1 DEF Reaped
  <2> QED BY <2>5, <2>6
<1> QED BY <1>2, <1>3, <1>4

\* A claimed row uses one of the attempts it has left.
LEMMA TakenRow ==
    ASSUME PdfConstants, NEW a, RowOK(a), a.status = "queued", NEW s \in Sessions
    PROVE  /\ RowOK(Taken(a, s)) /\ Taken(a, s).status = "running"
           /\ Taken(a, s).resume = a.resume
           /\ Taken(a, s).cancelRequested = a.cancelRequested
           /\ Taken(a, s).worker = s
<1>1. a.attempts + 1 \in 0..MaxAttempts
  BY DEF RowOK, Row, PdfConstants
<1>2. PICK b : b = [a EXCEPT !.status = "running", !.worker = s,
                             !.lease = "live", !.attempts = @ + 1]
  OBVIOUS
<1>3. /\ b \in Row /\ b.status = "running" /\ b.resume = a.resume
      /\ b.cancelRequested = a.cancelRequested /\ b.retention = a.retention
      /\ b.worker = s
  BY <1>1, <1>2 DEF RowOK, Row, Statuses
<1>4. RowOK(b)
  BY <1>3 DEF RowOK, IsActive
<1> QED BY <1>2, <1>3, <1>4 DEF Taken

-----------------------------------------------------------------------------
(* The actions that neither insert nor claim                               *)

RowsOK == jobs \in [Jobs -> Row] /\ \A j \in Jobs : RowOK(jobs[j])

RowsStep ==
    /\ jobs' \in [Jobs -> Row]
    /\ \A j \in Jobs : RowStep(jobs[j], jobs'[j])

\* A step that leaves the table alone is a step of the table.
LEMMA NoRow ==
    ASSUME RowsOK, UNCHANGED jobs
    PROVE  RowsStep
BY SameRow DEF RowsOK, RowsStep

\* A step of one row is a step of the table.
LEMMA OneRow ==
    ASSUME RowsOK, NEW j \in Jobs, NEW b, RowStep(jobs[j], b),
           jobs' = [jobs EXCEPT ![j] = b]
    PROVE  RowsStep
<1>1. b \in Row
  BY DEF RowStep, RowOK
<1>2. jobs' \in [Jobs -> Row]
  BY <1>1 DEF RowsOK
<1>3. ASSUME NEW i \in Jobs PROVE RowStep(jobs[i], jobs'[i])
  <2>1. CASE i = j
    BY <2>1 DEF RowsOK
  <2>2. CASE i # j
    <3>1. jobs'[i] = jobs[i]
      BY <2>2 DEF RowsOK
    <3> QED BY <3>1, SameRow DEF RowsOK
  <2> QED BY <2>1, <2>2
<1> QED BY <1>2, <1>3 DEF RowsStep

\* The cancellations take steps of the table.
LEMMA WebRows ==
    ASSUME PdfConstants, RowsOK, cancels \subseteq (Jobs \X {"queued", "running"})
    PROVE  /\ \A j \in Jobs : CancelRead(j) => RowsStep
           /\ \A j \in Jobs : AdminCancelPdfExport(j) => RowsStep
           /\ \A c \in cancels : CancelUpdate(c) => RowsStep
<1>1. ASSUME NEW j \in Jobs, CancelRead(j) PROVE RowsStep
  BY <1>1, NoRow DEF CancelRead
<1>2. ASSUME NEW j \in Jobs, AdminCancelPdfExport(j) PROVE RowsStep
  <2>1. PICK b : b = IF jobs[j].status = "queued" THEN Cancelled(jobs[j])
                     ELSE [jobs[j] EXCEPT !.cancelRequested = TRUE]
    OBVIOUS
  <2>2. RowStep(jobs[j], b)
    BY <2>1, CancelledRow, FlaggedRow DEF RowsOK
  <2>3. jobs' = [jobs EXCEPT ![j] = b]
    BY <1>2, <2>1 DEF AdminCancelPdfExport
  <2> QED BY <2>2, <2>3, OneRow
<1>3. ASSUME NEW c \in cancels, CancelUpdate(c) PROVE RowsStep
  <2>1. c[1] \in Jobs
    OBVIOUS
  <2>2. PICK a : a = jobs[c[1]]
    OBVIOUS
  <2>3. PICK b : b = IF c[2] = "queued"
                     THEN IF a.status = "queued" THEN Cancelled(a) ELSE a
                     ELSE IF Exists(c[1]) THEN [a EXCEPT !.cancelRequested = TRUE]
                                          ELSE a
    OBVIOUS
  <2>4. RowStep(a, b)
    BY <2>1, <2>2, <2>3, CancelledRow, FlaggedRow, SameRow DEF RowsOK
  <2>5. jobs' = [jobs EXCEPT ![c[1]] = b]
    BY <1>3, <2>2, <2>3 DEF CancelUpdate
  <2> QED BY <2>1, <2>2, <2>4, <2>5, OneRow
<1> QED BY <1>1, <1>2, <1>3

\* So do the operations of the trash.
LEMMA TrashRows ==
    ASSUME PdfConstants, RowsOK, NEW r \in Resumes
    PROVE  /\ MoveResumeToTrash(r) => RowsStep
           /\ RestoreTrashedResume(r) => RowsStep
           /\ PurgeTrashedResume(r) => RowsStep
<1>1. ASSUME MoveResumeToTrash(r) PROVE RowsStep
  <2>1. ASSUME NEW j \in Jobs PROVE RowStep(jobs[j], jobs'[j])
    <3>1. jobs'[j] = Stopped(jobs[j]) \/ jobs'[j] = jobs[j]
      BY <1>1 DEF MoveResumeToTrash
    <3> QED BY <3>1, StoppedRow, SameRow DEF RowsOK
  <2>2. ASSUME NEW j \in Jobs PROVE jobs'[j] \in Row
    BY <2>1 DEF RowStep, RowOK
  <2>3. jobs' \in [Jobs -> Row]
    BY <1>1, <2>2 DEF MoveResumeToTrash
  <2> QED BY <2>1, <2>3 DEF RowsStep
<1>2. ASSUME RestoreTrashedResume(r) PROVE RowsStep
  BY <1>2, NoRow DEF RestoreTrashedResume
<1>3. ASSUME PurgeTrashedResume(r) PROVE RowsStep
  <2>1. ASSUME NEW j \in Jobs PROVE RowStep(jobs[j], jobs'[j])
    <3>1. jobs'[j] = Deleted(jobs[j]) \/ jobs'[j] = jobs[j]
      BY <1>3 DEF PurgeTrashedResume
    <3> QED BY <3>1, DeletedRow, SameRow DEF RowsOK
  <2>2. ASSUME NEW j \in Jobs PROVE jobs'[j] \in Row
    BY <2>1 DEF RowStep, RowOK
  <2>3. jobs' \in [Jobs -> Row]
    BY <1>3, <2>2 DEF PurgeTrashedResume
  <2> QED BY <2>1, <2>3 DEF RowsStep
<1> QED BY <1>1, <1>2, <1>3

\* So do cleanup and the life cycle of a worker.
LEMMA WorkerRows ==
    ASSUME PdfConstants, RowsOK, NEW s \in Sessions
    PROVE  /\ DeleteExpiredPdfExportResults(s) => RowsStep
           /\ RefreshConfiguration(s) \/ StopWorker(s) \/ WorkerStopped(s)
                \/ CrashWorker(s) => RowsStep
<1>1. ASSUME DeleteExpiredPdfExportResults(s) PROVE RowsStep
  <2>1. ASSUME NEW j \in Jobs PROVE RowStep(jobs[j], jobs'[j])
    <3>1. jobs'[j] = Deleted(jobs[j]) \/ jobs'[j] = jobs[j]
      BY <1>1 DEF DeleteExpiredPdfExportResults
    <3> QED BY <3>1, DeletedRow, SameRow DEF RowsOK
  <2>2. ASSUME NEW j \in Jobs PROVE jobs'[j] \in Row
    BY <2>1 DEF RowStep, RowOK
  <2>3. jobs' \in [Jobs -> Row]
    BY <1>1, <2>2 DEF DeleteExpiredPdfExportResults
  <2> QED BY <2>1, <2>3 DEF RowsStep
<1>2. ASSUME RefreshConfiguration(s) \/ StopWorker(s) \/ WorkerStopped(s)
               \/ CrashWorker(s)
      PROVE  RowsStep
  BY <1>2, NoRow DEF RefreshConfiguration, StopWorker, WorkerStopped, CrashWorker
<1> QED BY <1>1, <1>2

\* So does every step of an execution.
LEMMA ExecuteRows ==
    ASSUME PdfConstants, RowsOK, NEW e \in Executions, Execute(e)
    PROVE  RowsStep
<1> DEFINE j == e[1]
           a == jobs[j]
           s == exec[e].owner
<1>0. j \in Jobs /\ RowOK(a)
  BY DEF Executions, RowsOK
<1>1. CASE UNCHANGED jobs
  BY <1>1, NoRow
<1>2. CASE jobs' = [jobs EXCEPT ![j] = Renewed(a, s)]
  BY <1>0, <1>2, RenewedRow, OneRow
<1>3. CASE CompletePdfExport(e)
  <2>1. PICK b : b = IF MaySave(a, s) THEN Completed(a) ELSE a
    OBVIOUS
  <2>2. RowStep(a, b)
    BY <1>0, <2>1, CompletedRow, SameRow
  <2>3. jobs' = [jobs EXCEPT ![j] = b]
    BY <1>3, <2>1 DEF CompletePdfExport
  <2> QED BY <1>0, <2>2, <2>3, OneRow
<1>4. CASE FailPdfExport(e)
  <2>1. PICK st \in {"failed", "cancelled"} :
          st = IF InPhase(e, {"failing"}) THEN "failed" ELSE "cancelled"
    OBVIOUS
  <2>2. PICK b : b = IF Held(a, s) THEN Settled(a, st) ELSE a
    OBVIOUS
  <2>3. RowStep(a, b)
    BY <1>0, <2>2, SettledRow, SameRow DEF Held, IsActive
  <2>4. jobs' = [jobs EXCEPT ![j] = b]
    BY <1>4, <2>1, <2>2 DEF FailPdfExport
  <2> QED BY <1>0, <2>3, <2>4, OneRow
<1>5. CASE Heartbeat(e) \/ RenewBeforeSave(e)
  BY <1>1, <1>2, <1>5 DEF Heartbeat, RenewBeforeSave
<1>6. CASE LoadDocument(e) \/ Throw(e) \/ AbandonFailPdfExport(e)
  BY <1>1, <1>6 DEF LoadDocument, Throw, AbandonFailPdfExport
<1> QED BY <1>3, <1>4, <1>5, <1>6 DEF Execute

\* So does the passing of time.
LEMMA TimeRows ==
    ASSUME PdfConstants, RowsOK, NEW j \in Jobs,
           ExpireLease(j) \/ ElapseRetention(j) \/ Overdue(j)
    PROVE  RowsStep
<1>0. RowOK(jobs[j]) /\ jobs[j] \in Row
  BY DEF RowsOK
<1>1. CASE ExpireLease(j)
  <2>1. PICK b : b = [jobs[j] EXCEPT !.lease = "expired"]
    OBVIOUS
  <2>2. /\ b \in Row /\ b.status = jobs[j].status /\ b.resume = jobs[j].resume
        /\ b.cancelRequested = jobs[j].cancelRequested
        /\ b.attempts = jobs[j].attempts /\ b.retention = jobs[j].retention
        /\ b.worker = jobs[j].worker
    BY <1>0, <2>1 DEF Row
  <2>3. RowStep(jobs[j], b)
    BY <1>0, <2>2, ClockRow
  <2>4. jobs' = [jobs EXCEPT ![j] = b]
    BY <1>1, <2>1 DEF ExpireLease
  <2> QED BY <2>3, <2>4, OneRow
<1>2. CASE ElapseRetention(j)
  <2>1. PICK b : b = [jobs[j] EXCEPT !.retention = "due"]
    OBVIOUS
  <2>2. /\ b \in Row /\ b.status = jobs[j].status /\ b.resume = jobs[j].resume
        /\ b.cancelRequested = jobs[j].cancelRequested
        /\ b.attempts = jobs[j].attempts /\ b.retention = "due"
        /\ b.worker = jobs[j].worker /\ jobs[j].retention = "kept"
    BY <1>0, <1>2, <2>1 DEF Row, ElapseRetention
  <2>3. RowStep(jobs[j], b)
    BY <1>0, <2>2, ClockRow
  <2>4. jobs' = [jobs EXCEPT ![j] = b]
    BY <1>2, <2>1 DEF ElapseRetention
  <2> QED BY <2>3, <2>4, OneRow
<1>3. CASE Overdue(j)
  <2>1. PICK b : b = [jobs[j] EXCEPT !.overdue = TRUE]
    OBVIOUS
  <2>2. /\ b \in Row /\ b.status = jobs[j].status /\ b.resume = jobs[j].resume
        /\ b.cancelRequested = jobs[j].cancelRequested
        /\ b.attempts = jobs[j].attempts /\ b.retention = jobs[j].retention
        /\ b.worker = jobs[j].worker
    BY <1>0, <2>1 DEF Row
  <2>3. RowStep(jobs[j], b)
    BY <1>0, <2>2, ClockRow
  <2>4. jobs' = [jobs EXCEPT ![j] = b]
    BY <1>3, <2>1 DEF Overdue
  <2> QED BY <2>3, <2>4, OneRow
<1> QED BY <1>1, <1>2, <1>3

-----------------------------------------------------------------------------
(* The actions that insert or claim                                        *)

\* A new row, while the queue has room, for a resume that is not in the trash.
InsertStep ==
    /\ HasCapacity
    /\ UNCHANGED <<resume, limit>>
    /\ \E j \in Jobs, u \in Users \cup {Anonymous}, r \in Resumes :
         /\ jobs[j].status = "unborn" /\ resume[r] = "active"
         /\ jobs' = [jobs EXCEPT ![j] = NewRow(u, r)]

\* Enqueueing and retrying insert one row of an active resume.
LEMMA InsertRows ==
    ASSUME PdfConstants, RowsOK
    PROVE  /\ \A u \in Users \cup {Anonymous}, r \in Resumes :
                EnqueuePdfExport(u, r) => InsertStep
           /\ \A i \in Jobs : AdminRetryPdfExport(i) => InsertStep
<1>1. ASSUME NEW u \in Users \cup {Anonymous}, NEW r \in Resumes,
             Insert(u, r), LockPdfResume(r), UNCHANGED <<resume, limit>>
      PROVE  InsertStep
  BY <1>1 DEF Insert, LockPdfResume, InsertStep
<1>2. ASSUME NEW u \in Users \cup {Anonymous}, NEW r \in Resumes,
             EnqueuePdfExport(u, r)
      PROVE  InsertStep
  BY <1>1, <1>2 DEF EnqueuePdfExport
<1>3. ASSUME NEW i \in Jobs, AdminRetryPdfExport(i) PROVE InsertStep
  <2>1. jobs[i].requester \in Users \cup {Anonymous} /\ jobs[i].resume \in Resumes
    BY DEF RowsOK, Row
  <2> QED BY <1>1, <1>3, <2>1 DEF AdminRetryPdfExport
<1> QED BY <1>2, <1>3

\* The rows a claim takes, after it has reaped the expired ones.
ClaimStep ==
    /\ UNCHANGED resume
    /\ \E s \in Sessions, S \in SUBSET Jobs, rows \in [Jobs -> Row] :
         /\ \A j \in Jobs : RowStep(jobs[j], rows[j])
         /\ \A j \in Jobs : jobs[j].status = "queued" => rows[j] = jobs[j]
         /\ Oldest(rows, S, limit[s])
         /\ jobs' = [j \in Jobs |-> IF j \in S THEN Taken(rows[j], s) ELSE rows[j]]

\* A claim takes, of the reaped rows, those there is room for.
LEMMA ClaimRows ==
    ASSUME PdfConstants, RowsOK, NEW s \in Sessions, ClaimPdfExportJobs(s)
    PROVE  ClaimStep
<1>1. PICK rows : rows = [j \in Jobs |-> Reaped(jobs[j])]
  OBVIOUS
<1>2. ASSUME NEW j \in Jobs PROVE RowStep(jobs[j], rows[j])
  BY <1>1, ReapedRow DEF RowsOK
<1>3. ASSUME NEW j \in Jobs PROVE rows[j] \in Row
  BY <1>2 DEF RowStep, RowOK
<1>4. rows \in [Jobs -> Row]
  BY <1>1, <1>3
<1>5. PICK S \in SUBSET Jobs :
        /\ Oldest(rows, S, limit[s])
        /\ jobs' = [j \in Jobs |-> IF j \in S THEN Taken(rows[j], s) ELSE rows[j]]
  BY <1>1 DEF ClaimPdfExportJobs
<1>6. UNCHANGED resume
  BY DEF ClaimPdfExportJobs
<1>7. ASSUME NEW j \in Jobs, jobs[j].status = "queued" PROVE rows[j] = jobs[j]
  BY <1>1, <1>7 DEF Reaped
<1> QED BY <1>2, <1>4, <1>5, <1>6, <1>7 DEF ClaimStep

\* Every step is one of the three.
LEMMA NextRows ==
    ASSUME PdfConstants, TypeOK, RowsOK, [Next]_vars
    PROVE  RowsStep \/ InsertStep \/ ClaimStep
<1>0. cancels \subseteq (Jobs \X {"queued", "running"})
  BY DEF TypeOK
<1>1. CASE UNCHANGED vars
  BY <1>1, NoRow DEF vars
<1>2. CASE Web
  BY <1>0, <1>2, WebRows, InsertRows DEF Web
<1>3. CASE Trash
  BY <1>3, TrashRows DEF Trash
<1>4. CASE Worker
  BY <1>4, WorkerRows, ClaimRows DEF Worker
<1>5. CASE \E e \in Executions : Execute(e)
  BY <1>5, ExecuteRows
<1>6. CASE Time
  BY <1>6, TimeRows DEF Time
<1> QED BY <1>1, <1>2, <1>3, <1>4, <1>5, <1>6 DEF Next

-----------------------------------------------------------------------------
(* Type correctness                                                        *)

Execution == [phase : Phases, aborted : BOOLEAN, owner : Sessions \cup {NoSession}]

\* The variables other than the rows.
RestOK ==
    /\ resume \in [Resumes -> {"active", "trashed", "purged"}]
    /\ cancels \subseteq (Jobs \X {"queued", "running"})
    /\ session \in [Sessions -> {"running", "draining", "gone"}]
    /\ limit \in [Sessions -> Limits]
    /\ exec \in [Executions -> Execution]

\* The type invariant in its two parts: the rows and the rest.
LEMMA TypeParts ==
    TypeOK <=> jobs \in [Jobs -> Row] /\ RestOK
BY DEF TypeOK, RestOK, Execution

\* A move to a known phase keeps the type of executions.
LEMMA PhaseType ==
    ASSUME RestOK, NEW e \in Executions, NEW p \in Phases, MoveTo(e, p)
    PROVE  exec' \in [Executions -> Execution]
BY DEF RestOK, Execution, MoveTo

\* So does the end of executions.
LEMMA EndType ==
    ASSUME RestOK, NEW E \in SUBSET Executions, End(E)
    PROVE  exec' \in [Executions -> Execution]
<1>1. ASSUME NEW x \in Execution
      PROVE  [x EXCEPT !.phase = "ended", !.aborted = FALSE] \in Execution
  BY DEF Execution, Phases
<1>2. ASSUME NEW e \in Executions
      PROVE  (IF e \in E THEN [exec[e] EXCEPT !.phase = "ended", !.aborted = FALSE]
                         ELSE exec[e]) \in Execution
  <2>1. exec[e] \in Execution
    BY DEF RestOK
  <2> QED BY <1>1, <2>1
<1> QED BY <1>2 DEF End

\* An execution keeps the types of the rest.
LEMMA ExecuteRest ==
    ASSUME RestOK, NEW e \in Executions, Execute(e)
    PROVE  RestOK'
<1>1. CASE exec' \in [Executions -> Execution]
  <2>1. UNCHANGED <<resume, cancels, session, limit>>
    BY DEF Execute, Heartbeat, LoadDocument, Throw, RenewBeforeSave,
           CompletePdfExport, FailPdfExport, AbandonFailPdfExport
  <2> QED BY <1>1, <2>1 DEF RestOK
<1>2. ASSUME NEW v \in BOOLEAN, exec' = [exec EXCEPT ![e].aborted = v]
      PROVE  exec' \in [Executions -> Execution]
  BY <1>2 DEF RestOK, Execution
<1>3. CASE Heartbeat(e)
  <2>1. PICK v \in BOOLEAN :
          v = (exec[e].aborted \/ ToldToCancel(jobs[e[1]], exec[e].owner))
    OBVIOUS
  <2>2. \/ exec' = [exec EXCEPT ![e].aborted = v]
        \/ exec' = [exec EXCEPT ![e].aborted = TRUE]
    BY <1>3, <2>1 DEF Heartbeat
  <2> QED BY <1>1, <1>2, <2>2
<1>4. CASE LoadDocument(e) \/ Throw(e) \/ RenewBeforeSave(e)
  <2>1. \E p \in Phases : MoveTo(e, p)
    BY <1>4 DEF LoadDocument, Throw, RenewBeforeSave, Phases
  <2> QED BY <1>1, <2>1, PhaseType
<1>5. CASE CompletePdfExport(e) \/ FailPdfExport(e) \/ AbandonFailPdfExport(e)
  <2>1. End({e})
    BY <1>5 DEF CompletePdfExport, FailPdfExport, AbandonFailPdfExport
  <2>2. {e} \in SUBSET Executions
    OBVIOUS
  <2> QED BY <1>1, <2>1, <2>2, EndType
<1> QED BY <1>3, <1>4, <1>5 DEF Execute

\* The worker loop keeps them.
LEMMA WorkerRest ==
    ASSUME PdfConstants, RestOK, NEW s \in Sessions
    PROVE  /\ ClaimPdfExportJobs(s) => RestOK'
           /\ RefreshConfiguration(s) => RestOK'
           /\ DeleteExpiredPdfExportResults(s) => RestOK'
           /\ StopWorker(s) \/ WorkerStopped(s) => RestOK'
           /\ CrashWorker(s) => RestOK'
<1>1. ASSUME ClaimPdfExportJobs(s) PROVE RestOK'
  <2>1. PICK n : n = [phase |-> "claimed", owner |-> s, aborted |-> FALSE]
    OBVIOUS
  <2>2. n \in Execution
    BY <2>1 DEF Execution, Phases
  <2>3. PICK E : exec' = [e \in Executions |-> IF e \in E THEN n ELSE exec[e]]
    <3> DEFINE rows == [j \in Jobs |-> Reaped(jobs[j])]
               Fresh(S, e) == e[1] \in S /\ e[2] = rows[e[1]].attempts + 1
    <3>1. \E S \in SUBSET Jobs : exec' = [e \in Executions |->
            IF Fresh(S, e)
            THEN [phase |-> "claimed", owner |-> s, aborted |-> FALSE]
            ELSE exec[e]]
      BY <1>1, Zenon DEF ClaimPdfExportJobs
    <3> HIDE DEF Fresh
    <3>2. PICK S \in SUBSET Jobs : exec' = [e \in Executions |->
            IF Fresh(S, e) THEN n ELSE exec[e]]
      BY <2>1, <3>1
    <3>3. exec' = [e \in Executions |->
            IF e \in {d \in Executions : Fresh(S, d)} THEN n ELSE exec[e]]
      BY <3>2
    <3> QED BY <3>3
  <2>4. exec' \in [Executions -> Execution]
    BY <2>2, <2>3 DEF RestOK
  <2>5. UNCHANGED <<resume, cancels, session, limit>>
    BY <1>1 DEF ClaimPdfExportJobs
  <2> QED BY <2>4, <2>5 DEF RestOK
<1>2. ASSUME RefreshConfiguration(s) PROVE RestOK'
  BY <1>2 DEF RefreshConfiguration, RestOK
<1>3. ASSUME DeleteExpiredPdfExportResults(s) PROVE RestOK'
  BY <1>3 DEF DeleteExpiredPdfExportResults, RestOK
<1>4. ASSUME StopWorker(s) \/ WorkerStopped(s) PROVE RestOK'
  BY <1>4 DEF StopWorker, WorkerStopped, RestOK
<1>5. ASSUME CrashWorker(s) PROVE RestOK'
  <2>1. OwnedBy(s) \in SUBSET Executions
    BY DEF OwnedBy
  <2>2. exec' \in [Executions -> Execution]
    BY <1>5, <2>1, EndType DEF CrashWorker
  <2>3. session' \in [Sessions -> {"running", "draining", "gone"}]
    BY <1>5 DEF CrashWorker, RestOK
  <2>4. UNCHANGED <<resume, cancels, limit>>
    BY <1>5 DEF CrashWorker
  <2> QED BY <2>2, <2>3, <2>4 DEF RestOK
<1> QED BY <1>1, <1>2, <1>3, <1>4, <1>5

\* Requests, the trash and time keep them.
LEMMA RequestRest ==
    ASSUME PdfConstants, RestOK, jobs \in [Jobs -> Row], Web \/ Trash \/ Time
    PROVE  RestOK'
<1>1. CASE Web
  <2>1. ASSUME NEW j \in Jobs, CancelRead(j) PROVE RestOK'
    BY <2>1 DEF CancelRead, Active, WithStatus, RestOK
  <2>2. ASSUME NEW c \in cancels, CancelUpdate(c) PROVE RestOK'
    BY <2>2 DEF CancelUpdate, RestOK
  <2>3. ASSUME UNCHANGED <<resume, cancels, session, exec, limit>> PROVE RestOK'
    BY <2>3 DEF RestOK
  <2> QED BY <1>1, <2>1, <2>2, <2>3
      DEF Web, EnqueuePdfExport, AdminRetryPdfExport, AdminCancelPdfExport
<1>2. CASE Trash
  BY <1>2 DEF Trash, MoveResumeToTrash, RestoreTrashedResume,
              PurgeTrashedResume, RestOK
<1>3. CASE Time
  BY <1>3 DEF Time, ExpireLease, ElapseRetention, Overdue, RestOK
<1> QED BY <1>1, <1>2, <1>3

\* The rows keep their shape, whichever of the three kinds of step is taken.
LEMMA RowsKept ==
    ASSUME PdfConstants, RowsOK, RowsStep \/ InsertStep \/ ClaimStep
    PROVE  RowsOK'
<1>1. CASE RowsStep
  BY <1>1 DEF RowsStep, RowsOK, RowStep
<1>2. CASE InsertStep
  <2>1. PICK j \in Jobs, b \in Row :
          RowOK(b) /\ jobs' = [jobs EXCEPT ![j] = b]
    BY <1>2, NewRowOK DEF InsertStep, RowOK
  <2> QED BY <2>1 DEF RowsOK, RowOK
<1>3. CASE ClaimStep
  <2>1. PICK s \in Sessions, S \in SUBSET Jobs, rows \in [Jobs -> Row] :
          /\ \A j \in Jobs : RowStep(jobs[j], rows[j])
          /\ Oldest(rows, S, limit[s])
          /\ jobs' = [j \in Jobs |-> IF j \in S THEN Taken(rows[j], s) ELSE rows[j]]
    BY <1>3 DEF ClaimStep
  <2>2. ASSUME NEW j \in Jobs PROVE RowOK(jobs'[j])
    <3>1. RowOK(rows[j])
      BY <2>1 DEF RowStep
    <3>2. j \in S => rows[j].status = "queued"
      BY <2>1 DEF Oldest, Claimable
    <3>3. j \in S => RowOK(Taken(rows[j], s))
      BY <3>1, <3>2, TakenRow
    <3> QED BY <2>1, <3>1, <3>3
  <2>3. jobs' \in [Jobs -> Row]
    BY <2>1, <2>2 DEF RowOK
  <2> QED BY <2>2, <2>3 DEF RowsOK
<1> QED BY <1>1, <1>2, <1>3

\* Types, and the attempt that a queued row has left.
PdfInv == TypeOK /\ RowsOK

\* The invariant holds of the empty queue.
LEMMA PdfInit ==
    ASSUME PdfConstants, Init
    PROVE  PdfInv
<1>1. PICK n : n = NewRow(Anonymous, CHOOSE r \in Resumes : TRUE)
  OBVIOUS
<1>2. n \in Row
  BY <1>1, NewRowOK DEF RowOK, PdfConstants
<1>3. PICK b : b = [n EXCEPT !.status = "unborn"]
  OBVIOUS
<1>4. b \in Row /\ b.status = "unborn"
  BY <1>2, <1>3 DEF Row, Absent
<1>5. jobs = [j \in Jobs |-> b]
  BY <1>1, <1>3 DEF Init
<1>6. RowsOK
  BY <1>4, <1>5 DEF RowsOK, RowOK, IsActive
<1>7. RestOK
  BY DEF Init, RestOK, Execution, Phases
<1> QED BY <1>6, <1>7, TypeParts DEF PdfInv, RowsOK

\* The invariant is inductive, and every step is of one of the three kinds.
LEMMA PdfStep ==
    ASSUME PdfConstants, PdfInv, [Next]_vars
    PROVE  /\ PdfInv'
           /\ RowsStep \/ InsertStep \/ ClaimStep
<1>1. TypeOK /\ RowsOK /\ RestOK /\ jobs \in [Jobs -> Row]
  BY TypeParts DEF PdfInv
<1>2. RowsStep \/ InsertStep \/ ClaimStep
  BY <1>1, NextRows
<1>3. RowsOK'
  BY <1>1, <1>2, RowsKept
<1>4. RestOK'
  <2>1. CASE UNCHANGED vars
    BY <1>1, <2>1 DEF vars, RestOK
  <2>2. CASE Web \/ Trash \/ Time
    BY <1>1, <2>2, RequestRest
  <2>3. CASE Worker
    BY <1>1, <2>3, WorkerRest DEF Worker
  <2>4. CASE \E e \in Executions : Execute(e)
    BY <1>1, <2>4, ExecuteRest
  <2> QED BY <2>1, <2>2, <2>3, <2>4 DEF Next
<1>5. TypeOK'
  BY <1>3, <1>4 DEF TypeOK, RowsOK, RestOK, Execution
<1> QED BY <1>2, <1>3, <1>5 DEF PdfInv

\* The invariant holds in every behaviour.
LEMMA PdfInvariance == Spec => []PdfInv
<1>1. Init => PdfInv
  BY PdfConstants, PdfInit
<1>2. PdfInv /\ [Next]_vars => PdfInv'
  BY PdfConstants, PdfStep
<1> QED BY <1>1, <1>2, PTL DEF Spec

\* In particular the attempts of a row never exceed the retry limit: a row is
\* requeued only while it has an attempt left, and only queued rows are claimed.
THEOREM PdfTypeCorrect == Spec => []TypeOK
<1>1. PdfInv => TypeOK
  BY DEF PdfInv
<1> QED BY <1>1, PdfInvariance, PTL

-----------------------------------------------------------------------------
(* Cancel requests and the trash                                           *)

\* What a claim does to one row, which it takes only if it is not flagged.
LEMMA ClaimedRow ==
    ASSUME PdfConstants, RowsOK, ClaimStep, NEW j \in Jobs
    PROVE  \/ RowStep(jobs[j], jobs'[j])
           \/ /\ jobs'[j].status = "running" /\ IsActive(jobs[j])
              /\ ~jobs[j].cancelRequested /\ ~jobs'[j].cancelRequested
              /\ jobs'[j].resume = jobs[j].resume
              /\ resume[jobs[j].resume] = "active"
<1>1. PICK s \in Sessions, S \in SUBSET Jobs, rows \in [Jobs -> Row] :
        /\ \A i \in Jobs : RowStep(jobs[i], rows[i])
        /\ Oldest(rows, S, limit[s])
        /\ jobs' = [i \in Jobs |-> IF i \in S THEN Taken(rows[i], s) ELSE rows[i]]
  BY DEF ClaimStep
<1>2. CASE j \notin S
  BY <1>1, <1>2
<1>3. CASE j \in S
  <2>1. /\ rows[j].status = "queued" /\ ~rows[j].cancelRequested
        /\ resume[rows[j].resume] = "active"
    BY <1>1, <1>3 DEF Oldest, Claimable
  <2>2. RowOK(rows[j]) /\ jobs'[j] = Taken(rows[j], s)
    BY <1>1, <1>3 DEF RowStep
  <2>3. /\ jobs'[j].status = "running" /\ jobs'[j].resume = rows[j].resume
        /\ jobs'[j].cancelRequested = rows[j].cancelRequested
    BY <2>1, <2>2, TakenRow
  <2>4. /\ IsActive(jobs[j]) /\ rows[j].resume = jobs[j].resume
        /\ ~jobs[j].cancelRequested
    BY <1>1, <2>1 DEF RowStep, IsActive, Statuses
  <2> QED BY <2>1, <2>3, <2>4
<1> QED BY <1>2, <1>3

\* What an insertion does to one row.
LEMMA InsertedRow ==
    ASSUME PdfConstants, RowsOK, InsertStep, NEW j \in Jobs
    PROVE  \/ RowStep(jobs[j], jobs'[j])
           \/ /\ jobs[j].status = "unborn" /\ jobs'[j].status = "queued"
              /\ resume[jobs'[j].resume] = "active" /\ jobs'[j].attempts = 0
<1>1. PICK i \in Jobs, u \in Users \cup {Anonymous}, r \in Resumes :
        /\ jobs[i].status = "unborn" /\ resume[r] = "active"
        /\ jobs' = [jobs EXCEPT ![i] = NewRow(u, r)]
  BY DEF InsertStep
<1>2. CASE i = j
  <2>1. jobs'[j] = NewRow(u, r)
    BY <1>1, <1>2 DEF RowsOK
  <2> QED BY <1>1, <1>2, <2>1 DEF NewRow
<1>3. CASE i # j
  <2>1. jobs'[j] = jobs[j]
    BY <1>1, <1>3 DEF RowsOK
  <2> QED BY <2>1, SameRow DEF RowsOK
<1> QED BY <1>2, <1>3

\* A cancel request, once raised, cannot be outrun: no claim, save or requeue
\* that comes later serves the export.
THEOREM FlaggedExportsAreNeverServed == Spec => FlaggedIsNeverServed
<1> DEFINE Served(j) ==
      Exists(j) /\ jobs[j].cancelRequested =>
         /\ jobs'[j].cancelRequested \/ jobs'[j].status = "deleted"
         /\ jobs[j].status # "running" => jobs'[j].status # "running"
         /\ jobs[j].status # "completed" => jobs'[j].status # "completed"
<1>1. ASSUME PdfInv, [Next]_vars, NEW j \in Jobs PROVE Served(j)
  <2>1. RowsOK /\ RowsOK' /\ (RowsStep \/ InsertStep \/ ClaimStep)
    BY <1>1, PdfConstants, PdfStep DEF PdfInv
  <2>2. CASE RowStep(jobs[j], jobs'[j])
    <3>1. jobs'[j].status \in Statuses \cup Absent
      BY <2>1 DEF RowsOK, Row
    <3> QED BY <2>2, <3>1 DEF RowStep, Exists, Statuses, Absent
  <2>3. CASE RowsStep
    BY <2>2, <2>3 DEF RowsStep
  <2>4. CASE InsertStep
    BY <2>1, <2>2, <2>4, PdfConstants, InsertedRow DEF Exists, Statuses
  <2>5. CASE ClaimStep
    BY <2>1, <2>2, <2>5, PdfConstants, ClaimedRow
  <2> QED BY <2>1, <2>3, <2>4, <2>5
<1>2. PdfInv /\ [Next]_vars => [\A j \in Jobs : Served(j)]_vars
  BY <1>1
<1> QED BY <1>2, PdfInvariance, PTL DEF Spec, FlaggedIsNeverServed

\* Only MoveResumeToTrash takes a resume out of use.
LEMMA ResumeStep ==
    ASSUME RestOK, [Next]_vars, NEW r \in Resumes,
           resume[r] = "active", resume'[r] # "active"
    PROVE  MoveResumeToTrash(r)
<1>1. CASE UNCHANGED resume
  BY <1>1
<1>2. CASE Trash
  BY <1>2 DEF Trash, MoveResumeToTrash, RestoreTrashedResume, PurgeTrashedResume,
              RestOK
<1>3. CASE UNCHANGED vars \/ Web \/ Time
  BY <1>1, <1>3 DEF vars, Web, Time, EnqueuePdfExport, AdminRetryPdfExport,
     CancelRead, AdminCancelPdfExport, CancelUpdate, ExpireLease,
     ElapseRetention, Overdue
<1>4. CASE Worker
  BY <1>1, <1>4 DEF Worker, ClaimPdfExportJobs, DeleteExpiredPdfExportResults,
     RefreshConfiguration, StopWorker, WorkerStopped, CrashWorker
<1>5. CASE \E e \in Executions : Execute(e)
  BY <1>1, <1>5 DEF Execute, Heartbeat, LoadDocument, Throw, RenewBeforeSave,
     CompletePdfExport, FailPdfExport, AbandonFailPdfExport
<1> QED BY <1>2, <1>3, <1>4, <1>5 DEF Next

\* An export of a trashed resume, and its result.
Withheld(j) ==
    /\ jobs[j].cancelRequested /\ jobs[j].retention = "due"
    /\ jobs[j].status # "queued"

TrashInv ==
    \A j \in Jobs : Exists(j) /\ resume[jobs[j].resume] # "active" => Withheld(j)

\* Every step keeps the exports of trashed resumes stopped.
LEMMA TrashStep ==
    ASSUME PdfConstants, PdfInv, TrashInv, [Next]_vars
    PROVE  TrashInv'
<1> SUFFICES ASSUME NEW j \in Jobs, Exists(j)', resume'[jobs'[j].resume] # "active"
             PROVE  Withheld(j)'
  BY DEF TrashInv
<1>1. RowsOK /\ RestOK /\ (RowsStep \/ InsertStep \/ ClaimStep)
  BY PdfStep, TypeParts DEF PdfInv
<1>2. ASSUME NEW r \in Resumes, resume'[r] # "active", resume[r] = "active",
             jobs[j].resume = r, Exists(j)
      PROVE  Withheld(j)'
  <2>1. MoveResumeToTrash(r)
    BY <1>1, <1>2, ResumeStep
  <2>2. jobs'[j] = Stopped(jobs[j])
    BY <1>2, <2>1 DEF MoveResumeToTrash
  <2> QED BY <1>1, <2>2, StoppedRow DEF Withheld, RowsOK
<1>3. CASE RowStep(jobs[j], jobs'[j])
  <2>1. Exists(j) /\ jobs'[j].resume = jobs[j].resume /\ jobs[j].resume \in Resumes
    BY <1>1, <1>3 DEF RowStep, Exists, RowsOK, Row
  <2>2. CASE resume[jobs[j].resume] = "active"
    BY <1>2, <2>1, <2>2
  <2>3. CASE resume[jobs[j].resume] # "active"
    <3>1. Withheld(j)
      BY <2>1, <2>3 DEF TrashInv
    <3> QED BY <1>3, <3>1 DEF RowStep, Withheld, Exists
  <2> QED BY <2>2, <2>3
<1>4. CASE RowsStep
  BY <1>3, <1>4 DEF RowsStep
<1>5. CASE InsertStep
  BY <1>1, <1>3, <1>5, InsertedRow DEF InsertStep
<1>6. CASE ClaimStep
  BY <1>1, <1>3, <1>6, ClaimedRow DEF ClaimStep
<1> QED BY <1>1, <1>4, <1>5, <1>6

\* Whatever the worker that holds it still does, an export of a resume in the
\* trash stays flagged and withdrawn, and nobody can download it.
THEOREM TrashStopsExports == Spec => []TrashedExportsAreStopped
<1>1. ASSUME Init PROVE TrashInv
  <2>1. \A j \in Jobs : jobs[j].resume \in Resumes
    BY <1>1, PdfConstants, PdfInit DEF PdfInv, RowsOK, Row
  <2> QED BY <1>1, <2>1 DEF Init, TrashInv
<1>2. PdfInv /\ TrashInv /\ [Next]_vars => TrashInv'
  BY PdfConstants, TrashStep
<1>3. TrashInv => TrashedExportsAreStopped
  BY DEF TrashInv, Withheld, TrashedExportsAreStopped, Downloadable, Accessible,
         ActivePdfResume
<1> QED BY <1>1, <1>2, <1>3, PdfInvariance, PTL DEF Spec

-----------------------------------------------------------------------------
(* The queue limit and the concurrency limit                               *)

LEMMA JobSetsAreFinite ==
    ASSUME PdfConstants, NEW S \in SUBSET Jobs
    PROVE  IsFiniteSet(S) /\ Cardinality(S) \in Nat
<1>1. IsFiniteSet(Jobs)
  BY FS_Interval DEF Jobs, PdfConstants
<1>2. IsFiniteSet(S)
  BY <1>1, FS_Subset
<1> QED BY <1>2, FS_CardinalityType

\* A subset of a set of jobs has no more members.
LEMMA FewerJobs ==
    ASSUME PdfConstants, NEW S \in SUBSET Jobs, NEW T \in SUBSET S
    PROVE  Cardinality(T) <= Cardinality(S)
BY JobSetsAreFinite, FS_Subset

\* No row becomes active except by an insertion, which looks at the limit.
LEMMA CapacityStep ==
    ASSUME PdfConstants, PdfInv, QueueCapacity, [Next]_vars
    PROVE  QueueCapacity'
<1>1. RowsOK /\ (RowsStep \/ InsertStep \/ ClaimStep)
  BY PdfStep DEF PdfInv
<1>2. Active \in SUBSET Jobs /\ Active' \in SUBSET Jobs
  BY DEF Active, WithStatus
<1>3. Cardinality(Active) \in Nat /\ Cardinality(Active') \in Nat /\ QueueLimit \in Nat
  BY <1>2, JobSetsAreFinite DEF PdfConstants
<1>4. ASSUME NEW j \in Jobs
      PROVE  (j \in Active <=> IsActive(jobs[j])) /\ (j \in Active' <=> IsActive(jobs'[j]))
  BY DEF Active, WithStatus, IsActive
<1>5. CASE Active' \subseteq Active
  <2>1. Cardinality(Active') <= Cardinality(Active)
    BY <1>2, <1>5, FewerJobs
  <2> QED BY <1>3, <2>1 DEF QueueCapacity
<1>6. CASE RowsStep
  <2>1. Active' \subseteq Active
    BY <1>2, <1>4, <1>6 DEF RowsStep, RowStep
  <2> QED BY <1>5, <2>1
<1>7. CASE ClaimStep
  <2>1. ASSUME NEW j \in Jobs, IsActive(jobs'[j]) PROVE IsActive(jobs[j])
    BY <1>1, <1>7, <2>1, ClaimedRow DEF RowStep
  <2>2. Active' \subseteq Active
    BY <1>2, <1>4, <2>1
  <2> QED BY <1>5, <2>2
<1>8. CASE InsertStep
  <2>1. PICK i \in Jobs, b \in Row : jobs' = [jobs EXCEPT ![i] = b]
    BY <1>8, NewRowOK DEF InsertStep, RowOK
  <2>2. ASSUME NEW j \in Jobs, j # i PROVE jobs'[j] = jobs[j]
    BY <1>1, <2>1, <2>2 DEF RowsOK
  <2>3. Active' \subseteq Active \cup {i}
    BY <1>2, <1>4, <2>2
  <2>4. Active \cup {i} \in SUBSET Jobs
    BY <1>2
  <2>5. Cardinality(Active') <= Cardinality(Active \cup {i})
    BY <2>3, <2>4, FewerJobs
  <2>6. IsFiniteSet(Active)
    BY <1>2, JobSetsAreFinite
  <2>7. Cardinality(Active \cup {i}) <= Cardinality(Active) + 1
    <3>1. Cardinality(Active \cup {i}) =
            IF i \in Active THEN Cardinality(Active) ELSE Cardinality(Active) + 1
      BY <2>6, FS_AddElement
    <3> QED BY <1>3, <3>1
  <2>8. Cardinality(Active) < QueueLimit
    BY <1>8 DEF InsertStep, HasCapacity
  <2>9. Cardinality(Active \cup {i}) \in Nat
    BY <2>4, JobSetsAreFinite
  <2> QED BY <1>3, <2>5, <2>7, <2>8, <2>9 DEF QueueCapacity
<1> QED BY <1>1, <1>6, <1>7, <1>8

\* Expired leases put rows back into the queue, and retries insert new ones, but
\* enqueued and running exports together never exceed the queue limit.
THEOREM QueueHoldsItsLimit == Spec => []QueueCapacity
<1>1. ASSUME Init PROVE QueueCapacity
  <2>1. ASSUME NEW j \in Jobs PROVE ~IsActive(jobs[j])
    <3>1. PICK n : n = NewRow(Anonymous, CHOOSE r \in Resumes : TRUE)
      OBVIOUS
    <3>2. jobs[j] = [n EXCEPT !.status = "unborn"]
      BY <1>1, <3>1 DEF Init
    <3>3. n \in Row
      BY <3>1, PdfConstants, NewRowOK DEF RowOK, PdfConstants
    <3> QED BY <3>2, <3>3 DEF IsActive, Row
  <2>2. Active = {}
    BY <2>1 DEF Active, WithStatus, IsActive
  <2>3. Cardinality(Active) = 0
    BY <2>2, FS_EmptySet
  <2> QED BY <2>3, PdfConstants DEF QueueCapacity, PdfConstants
<1>2. PdfInv /\ QueueCapacity /\ [Next]_vars => QueueCapacity'
  BY PdfConstants, CapacityStep
<1> QED BY <1>1, <1>2, PdfInvariance, PTL DEF Spec

\* A claim that takes rows leaves no more of them running than its limit; one that
\* takes none leaves no more running than before.
LEMMA ClaimFits ==
    ASSUME PdfConstants, PdfInv,
           NEW s \in Sessions, NEW S \in SUBSET Jobs, NEW rows \in [Jobs -> Row],
           \A j \in Jobs : RowStep(jobs[j], rows[j]),
           Oldest(rows, S, limit[s]),
           jobs' = [j \in Jobs |-> IF j \in S THEN Taken(rows[j], s) ELSE rows[j]]
    PROVE  \/ Cardinality(RunningIn(jobs')) <= limit[s]
           \/ /\ S = {}
              /\ Cardinality(RunningIn(jobs')) <= Cardinality(RunningIn(jobs))
<1> DEFINE old == RunningIn(jobs)
           kept == RunningIn(rows)
           now == RunningIn(jobs')
           k == Cardinality(kept)
<1>2. /\ old \in SUBSET Jobs /\ kept \in SUBSET old /\ now \in SUBSET Jobs
      /\ kept \in SUBSET Jobs
  BY DEF RunningIn, RowStep
<1>3. now \subseteq kept \cup S
  BY DEF RunningIn
<1>4. limit[s] \in Nat
  BY DEF PdfInv, TypeOK, PdfConstants
<1>5. /\ k \in Nat /\ Cardinality(old) \in Nat /\ Cardinality(S) \in Nat
      /\ Cardinality(now) \in Nat /\ Cardinality(kept \cup S) \in Nat
      /\ IsFiniteSet(kept) /\ IsFiniteSet(S)
  <2>1. kept \cup S \in SUBSET Jobs
    BY <1>2
  <2> QED BY <1>2, <2>1, JobSetsAreFinite
<1>6. k <= Cardinality(old)
  BY <1>2, FewerJobs
<1>7. Cardinality(S) <= IF k >= limit[s] THEN 0 ELSE limit[s] - k
  BY DEF Oldest, Room
<1>8. Cardinality(now) <= k + Cardinality(S)
  <2>1. kept \cup S \in SUBSET Jobs /\ now \in SUBSET (kept \cup S)
    BY <1>2, <1>3
  <2>2. Cardinality(now) <= Cardinality(kept \cup S)
    BY <2>1, FewerJobs
  <2>3. /\ kept \cap S \in SUBSET Jobs
        /\ Cardinality(kept \cup S) = k + Cardinality(S) - Cardinality(kept \cap S)
    BY <1>2, <1>5, FS_Union
  <2>4. Cardinality(kept \cap S) \in Nat
    BY <2>3, JobSetsAreFinite
  <2> QED BY <1>5, <2>2, <2>3, <2>4
<1> HIDE DEF old, kept, now, k
<1>9. CASE k >= limit[s]
  <2>1. Cardinality(now) <= Cardinality(old)
    BY <1>4, <1>5, <1>6, <1>7, <1>8, <1>9
  <2>2. Cardinality(S) = 0
    BY <1>4, <1>5, <1>7, <1>9
  <2>3. S = {}
    BY <1>5, <2>2, FS_EmptySet
  <2> QED BY <2>1, <2>3 DEF now, old
<1>10. CASE ~(k >= limit[s])
  <2>1. Cardinality(now) <= limit[s]
    BY <1>4, <1>5, <1>7, <1>8, <1>10
  <2> QED BY <2>1 DEF now
<1> QED BY <1>9, <1>10

\* Every step keeps the number of running rows under some limit.
LEMMA ConcurrencyStep ==
    ASSUME PdfConstants, PdfInv, GlobalConcurrency, [Next]_vars
    PROVE  GlobalConcurrency'
<1>1. RowsOK /\ (RowsStep \/ InsertStep \/ ClaimStep)
  BY PdfStep DEF PdfInv
<1>2. PICK n \in Limits : Cardinality(RunningIn(jobs)) <= n
  BY DEF GlobalConcurrency
<1>3. /\ RunningIn(jobs) \in SUBSET Jobs /\ RunningIn(jobs') \in SUBSET Jobs
      /\ n \in Nat
  BY DEF RunningIn, PdfConstants
<1>4. Cardinality(RunningIn(jobs)) \in Nat /\ Cardinality(RunningIn(jobs')) \in Nat
  BY <1>3, JobSetsAreFinite
<1>5. CASE Cardinality(RunningIn(jobs')) <= Cardinality(RunningIn(jobs))
  <2>1. Cardinality(RunningIn(jobs')) <= n
    BY <1>2, <1>3, <1>4, <1>5
  <2> QED BY <2>1 DEF GlobalConcurrency
<1>6. CASE RowsStep \/ InsertStep
  <2>1. ASSUME NEW j \in Jobs, jobs'[j].status = "running"
        PROVE  jobs[j].status = "running"
    BY <1>1, <1>6, <2>1, InsertedRow DEF RowsStep, RowStep
  <2>2. RunningIn(jobs') \in SUBSET RunningIn(jobs)
    BY <2>1 DEF RunningIn
  <2>3. Cardinality(RunningIn(jobs')) <= Cardinality(RunningIn(jobs))
    BY <1>3, <2>2, FewerJobs
  <2> QED BY <1>5, <2>3
<1>7. ASSUME NEW s \in Sessions, Cardinality(RunningIn(jobs')) <= limit[s]
      PROVE  GlobalConcurrency'
  <2>1. limit[s] \in Limits
    BY DEF PdfInv, TypeOK
  <2> QED BY <1>7, <2>1 DEF GlobalConcurrency
<1>8. CASE ClaimStep
  <2>1. PICK s \in Sessions, S \in SUBSET Jobs, rows \in [Jobs -> Row] :
          /\ \A j \in Jobs : RowStep(jobs[j], rows[j])
          /\ Oldest(rows, S, limit[s])
          /\ jobs' = [j \in Jobs |-> IF j \in S THEN Taken(rows[j], s) ELSE rows[j]]
    BY <1>8 DEF ClaimStep
  <2>2. \/ Cardinality(RunningIn(jobs')) <= limit[s]
        \/ Cardinality(RunningIn(jobs')) <= Cardinality(RunningIn(jobs))
    BY <2>1, ClaimFits
  <2> QED BY <1>5, <1>7, <2>2
<1> QED BY <1>1, <1>6, <1>8

\* For any number of sessions, each of which may know another limit, and
\* whatever leases expire, no more exports run than some limit allowed.
THEOREM ConcurrencyIsGlobal == Spec => []GlobalConcurrency
<1>1. ASSUME Init PROVE GlobalConcurrency
  <2>1. ASSUME NEW j \in Jobs PROVE jobs[j].status # "running"
    <3>1. PICK n : n = NewRow(Anonymous, CHOOSE r \in Resumes : TRUE)
      OBVIOUS
    <3>2. jobs[j] = [n EXCEPT !.status = "unborn"]
      BY <1>1, <3>1 DEF Init
    <3>3. n \in Row
      BY <3>1, PdfConstants, NewRowOK DEF RowOK, PdfConstants
    <3> QED BY <3>2, <3>3 DEF Row
  <2>2. RunningIn(jobs) = {}
    BY <2>1 DEF RunningIn
  <2>3. Cardinality(RunningIn(jobs)) = 0
    BY <2>2, FS_EmptySet
  <2>4. PICK n \in Limits : n \in Nat
    BY PdfConstants DEF PdfConstants
  <2> QED BY <2>3, <2>4 DEF GlobalConcurrency
<1>2. PdfInv /\ GlobalConcurrency /\ [Next]_vars => GlobalConcurrency'
  BY PdfConstants, ConcurrencyStep
<1> QED BY <1>1, <1>2, PdfInvariance, PTL DEF Spec

-----------------------------------------------------------------------------
(* The result, the order of claims and the holder of a row                 *)

\* What the trash has withdrawn stays so: a row that is finished is not
\* completed again, and one that is not was flagged with it.
THEOREM WithdrawnResultsStayGone == Spec => WithdrawnStaysWithdrawn
<1> DEFINE Gone(j) ==
      Exists(j) /\ jobs[j].retention = "due" => ~Downloadable(j)'
<1>1. ASSUME PdfInv, [Next]_vars, NEW j \in Jobs PROVE Gone(j)
  <2>1. RowsOK /\ (RowsStep \/ InsertStep \/ ClaimStep)
    BY <1>1, PdfConstants, PdfStep DEF PdfInv
  <2>2. Downloadable(j)' => /\ jobs'[j].status = "completed"
                            /\ jobs'[j].retention = "kept"
    BY DEF Downloadable
  <2>3. CASE RowStep(jobs[j], jobs'[j])
    <3>1. ~(jobs[j].status = "running" /\ ~jobs[j].cancelRequested
              /\ jobs[j].retention = "due")
      BY <2>1 DEF RowsOK, RowOK, IsActive
    <3> QED BY <2>2, <2>3, <3>1 DEF RowStep, Statuses
  <2>4. CASE RowsStep
    BY <2>3, <2>4 DEF RowsStep
  <2>5. CASE InsertStep
    BY <2>1, <2>2, <2>3, <2>5, PdfConstants, InsertedRow
  <2>6. CASE ClaimStep
    BY <2>1, <2>2, <2>3, <2>6, PdfConstants, ClaimedRow
  <2> QED BY <2>1, <2>4, <2>5, <2>6
<1>2. PdfInv /\ [Next]_vars => [\A j \in Jobs : Gone(j)]_vars
  BY <1>1
<1> QED BY <1>2, PdfInvariance, PTL DEF Spec, WithdrawnStaysWithdrawn

\* Only a claim counts an attempt.  It takes the oldest of the rows that are
\* claimable once the expired ones are back in the queue, and a row that it does
\* not take is claimable afterwards only if it was so then.
THEOREM OldestIsClaimedFirst == Spec => FirstComeFirstServed
<1> DEFINE Fair(i, j) ==
      i < j /\ jobs'[j].attempts > jobs[j].attempts => i \notin Claimable(jobs)'
<1>1. ASSUME PdfInv, [Next]_vars, NEW i \in Jobs, NEW j \in Jobs PROVE Fair(i, j)
  <2> SUFFICES ASSUME i < j, jobs'[j].attempts > jobs[j].attempts,
                      i \in Claimable(jobs)'
               PROVE  FALSE
    OBVIOUS
  <2>1. /\ RowsOK /\ (RowsStep \/ InsertStep \/ ClaimStep)
        /\ jobs[j].attempts \in Nat
    BY <1>1, PdfConstants, PdfStep DEF PdfInv, RowsOK, Row, PdfConstants
  <2>2. ~RowStep(jobs[j], jobs'[j])
    <3>1. jobs'[j].attempts # jobs[j].attempts
      BY <2>1
    <3> QED BY <3>1 DEF RowStep
  <2>3. ~RowsStep
    BY <2>2 DEF RowsStep
  <2>4. ~InsertStep
    <3>1. jobs'[j].attempts # 0
      BY <2>1
    <3> QED BY <2>1, <2>2, <3>1, PdfConstants, InsertedRow
  <2>5. PICK s \in Sessions, S \in SUBSET Jobs, rows \in [Jobs -> Row] :
          /\ UNCHANGED resume
          /\ \A k \in Jobs : RowStep(jobs[k], rows[k])
          /\ Oldest(rows, S, limit[s])
          /\ jobs' = [k \in Jobs |-> IF k \in S THEN Taken(rows[k], s) ELSE rows[k]]
    BY <2>1, <2>3, <2>4 DEF ClaimStep
  <2>6. j \in S
    BY <2>2, <2>5
  <2>7. jobs'[i].status = "queued" /\ i \notin S
    <3>1. jobs'[i].status = "queued"
      BY DEF Claimable
    <3>2. i \in S => Taken(rows[i], s).status = "running"
      BY <2>5, PdfConstants, TakenRow DEF Oldest, Claimable, RowStep
    <3> QED BY <2>5, <3>1, <3>2
  <2>8. i \in Claimable(rows)
    BY <2>5, <2>7 DEF Claimable
  <2>9. j < i
    BY <2>5, <2>6, <2>7, <2>8 DEF Oldest
  <2>10. i \in Int /\ j \in Int
    BY DEF Jobs, PdfConstants
  <2> QED BY <2>9, <2>10
<1>2. PdfInv /\ [Next]_vars => [\A i, j \in Jobs : Fair(i, j)]_vars
  BY <1>1
<1> QED BY <1>2, PdfInvariance, PTL DEF Spec, FirstComeFirstServed

\* A session becomes the holder of a row only by a claim, which takes none when
\* the rows of all sessions leave no room under the limit it knows.
THEOREM ClaimsRespectTheLimit == Spec => ClaimRespectsLimit
<1> DEFINE Fits(s) ==
      (\E j \in Jobs : jobs[j].worker # s /\ jobs'[j].worker = s)
        => Cardinality(RunningIn(jobs')) <= limit[s]
<1>1. ASSUME PdfInv, [Next]_vars, NEW s \in Sessions PROVE Fits(s)
  <2> SUFFICES ASSUME NEW j \in Jobs, jobs[j].worker # s, jobs'[j].worker = s
               PROVE  Cardinality(RunningIn(jobs')) <= limit[s]
    OBVIOUS
  <2>1. RowsOK /\ (RowsStep \/ InsertStep \/ ClaimStep)
    BY <1>1, PdfConstants, PdfStep DEF PdfInv
  <2>2. s # NoSession
    BY PdfConstants DEF PdfConstants
  <2>3. ~RowStep(jobs[j], jobs'[j])
    BY <2>2 DEF RowStep
  <2>4. ~RowsStep
    BY <2>3 DEF RowsStep
  <2>5. ~InsertStep
    <3>1. ASSUME NEW i \in Jobs, NEW u \in Users \cup {Anonymous}, NEW r \in Resumes,
                 jobs' = [jobs EXCEPT ![i] = NewRow(u, r)]
          PROVE  FALSE
      <4>1. jobs'[j] = jobs[j] \/ jobs'[j] = NewRow(u, r)
        BY <2>1, <3>1 DEF RowsOK
      <4>2. NewRow(u, r).worker = NoSession
        BY DEF NewRow
      <4> QED BY <2>2, <4>1, <4>2
    <3> QED BY <3>1 DEF InsertStep
  <2>6. PICK c \in Sessions, S \in SUBSET Jobs, rows \in [Jobs -> Row] :
          /\ \A k \in Jobs : RowStep(jobs[k], rows[k])
          /\ Oldest(rows, S, limit[c])
          /\ jobs' = [k \in Jobs |-> IF k \in S THEN Taken(rows[k], c) ELSE rows[k]]
    BY <2>1, <2>4, <2>5 DEF ClaimStep
  <2>7. j \in S
    BY <2>3, <2>6
  <2>8. RowOK(rows[j]) /\ rows[j].status = "queued"
    BY <2>6, <2>7 DEF RowStep, Oldest, Claimable
  <2>9. Taken(rows[j], c).worker = c
    BY <2>8, PdfConstants, TakenRow
  <2>10. c = s
    BY <2>6, <2>7, <2>9
  <2> QED BY <1>1, <2>6, <2>7, <2>10, PdfConstants, ClaimFits
<1>2. PdfInv /\ [Next]_vars => [\A s \in Sessions : Fits(s)]_vars
  BY <1>1
<1> QED BY <1>2, PdfInvariance, PTL DEF Spec, ClaimRespectsLimit

\* The status each operator gives a row.
LEMMA RowStatuses ==
    ASSUME PdfConstants, NEW a \in Row
    PROVE  /\ \A st \in Statuses : Settled(a, st).status = st
           /\ Cancelled(a).status = "cancelled"
           /\ [a EXCEPT !.cancelRequested = TRUE].status = a.status
           /\ Stopped(a).status \in {a.status, "cancelled"}
           /\ Deleted(a).status = "deleted"
           /\ \A s : Renewed(a, s).status = a.status
           /\ Reaped(a).status \in {a.status, "cancelled", "failed", "queued"}
           /\ \A s : Taken(a, s).status = "running"
<1>1. ASSUME NEW st \in Statuses PROVE Settled(a, st).status = st
  BY DEF Settled, Row
<1>2. Cancelled(a).status = "cancelled"
  <2>1. PICK t : t = Settled(a, "cancelled")
    OBVIOUS
  <2>2. t \in Row /\ t.status = "cancelled"
    BY <2>1 DEF Settled, Row, Statuses
  <2> QED BY <2>1, <2>2 DEF Cancelled, Row
<1>3. [a EXCEPT !.cancelRequested = TRUE].status = a.status
  BY DEF Row
<1>4. Stopped(a).status \in {a.status, "cancelled"}
  BY DEF Stopped, Row
<1>5. Deleted(a).status = "deleted"
  <2>1. PICK n : n = NewRow(Anonymous, a.resume)
    OBVIOUS
  <2>2. n \in Row
    BY <2>1, NewRowOK DEF RowOK, Row
  <2> QED BY <2>1, <2>2 DEF Deleted, Row
<1>6. ASSUME NEW s PROVE Renewed(a, s).status = a.status
  BY DEF Renewed, Row
<1>7. Reaped(a).status \in {a.status, "cancelled", "failed", "queued"}
  <2>1. [a EXCEPT !.status = "queued", !.worker = NoSession, !.lease = "none"].status
          = "queued"
    BY DEF Row
  <2> QED BY <1>1, <2>1 DEF Reaped, Statuses
<1>8. ASSUME NEW s PROVE Taken(a, s).status = "running"
  BY DEF Taken, Row
<1> QED BY <1>1, <1>2, <1>3, <1>4, <1>5, <1>6, <1>7, <1>8

\* Of all steps, only the save of an execution that holds the row completes it.
LEMMA OnlySavesComplete ==
    ASSUME PdfConstants, PdfInv, [Next]_vars, NEW j \in Jobs,
           jobs[j].status # "completed", jobs'[j].status = "completed"
    PROVE  \E e \in Executions :
             /\ CompletePdfExport(e) /\ e[1] = j
             /\ MaySave(jobs[j], exec[e].owner)
<1> DEFINE a == jobs[j]
<1>1. /\ jobs \in [Jobs -> Row] /\ a \in Row /\ RowsOK
      /\ cancels \subseteq (Jobs \X {"queued", "running"})
  BY DEF PdfInv, RowsOK, TypeOK
<1>2. ~UNCHANGED jobs
  OBVIOUS
<1>3. /\ Cancelled(a).status # "completed"
      /\ [a EXCEPT !.cancelRequested = TRUE].status # "completed"
      /\ Stopped(a).status # "completed" /\ Deleted(a).status # "completed"
      /\ \A s : Renewed(a, s).status # "completed"
      /\ Settled(a, "failed").status # "completed"
      /\ Settled(a, "cancelled").status # "completed"
  BY <1>1, PdfConstants, RowStatuses DEF Statuses
<1>4. ASSUME NEW i \in Jobs, NEW b, jobs' = [jobs EXCEPT ![i] = b]
      PROVE  i = j /\ jobs'[j] = b
  BY <1>1, <1>4
<1>5. ~Web
  <2>1. ASSUME NEW u \in Users \cup {Anonymous}, NEW r \in Resumes, Insert(u, r)
        PROVE  FALSE
    <3>1. PICK i \in Jobs : jobs' = [jobs EXCEPT ![i] = NewRow(u, r)]
      BY <2>1 DEF Insert
    <3> QED BY <1>4, <3>1 DEF NewRow
  <2>2. ASSUME NEW i \in Jobs, AdminRetryPdfExport(i) PROVE FALSE
    <3>1. jobs[i].requester \in Users \cup {Anonymous} /\ jobs[i].resume \in Resumes
      BY <1>1 DEF Row
    <3> QED BY <2>1, <2>2, <3>1 DEF AdminRetryPdfExport
  <2>3. ASSUME NEW i \in Jobs, AdminCancelPdfExport(i) PROVE FALSE
    <3>1. i = j
      BY <1>4, <2>3 DEF AdminCancelPdfExport
    <3>2. \/ jobs'[j] = Cancelled(a)
          \/ jobs'[j] = [a EXCEPT !.cancelRequested = TRUE]
      BY <1>4, <2>3, <3>1 DEF AdminCancelPdfExport
    <3> QED BY <1>3, <3>2
  <2>4. ASSUME NEW c \in cancels, CancelUpdate(c) PROVE FALSE
    <3>1. c[1] \in Jobs
      BY <1>1
    <3>2. c[1] = j
      BY <1>4, <2>4, <3>1 DEF CancelUpdate
    <3>3. \/ jobs'[j] = Cancelled(a) \/ jobs'[j] = a
          \/ jobs'[j] = [a EXCEPT !.cancelRequested = TRUE]
      BY <1>1, <2>4, <3>2 DEF CancelUpdate
    <3> QED BY <1>3, <3>3
  <2> QED BY <1>2, <2>1, <2>2, <2>3, <2>4 DEF Web, EnqueuePdfExport, CancelRead
<1>6. ~Trash
  BY <1>2, <1>3 DEF Trash, MoveResumeToTrash, RestoreTrashedResume, PurgeTrashedResume
<1>7. ~Worker
  <2>1. ASSUME NEW s \in Sessions, ClaimPdfExportJobs(s) PROVE FALSE
    <3>1. PICK b : b = Reaped(a)
      OBVIOUS
    <3>2. b \in Row /\ b.status # "completed"
      <4>1. RowStep(a, b)
        BY <1>1, <3>1, PdfConstants, ReapedRow DEF RowsOK
      <4>2. b.status \in {a.status, "cancelled", "failed", "queued"}
        BY <1>1, <3>1, PdfConstants, RowStatuses
      <4> QED BY <4>1, <4>2 DEF RowStep, RowOK
    <3>3. Taken(b, s).status # "completed"
      BY <3>2, PdfConstants, RowStatuses
    <3>4. jobs'[j] = Taken(b, s) \/ jobs'[j] = b
      BY <2>1, <3>1 DEF ClaimPdfExportJobs
    <3> QED BY <3>2, <3>3, <3>4
  <2>2. ASSUME NEW s \in Sessions, DeleteExpiredPdfExportResults(s) PROVE FALSE
    BY <1>3, <2>2 DEF DeleteExpiredPdfExportResults
  <2> QED BY <1>2, <2>1, <2>2
      DEF Worker, RefreshConfiguration, StopWorker, WorkerStopped, CrashWorker
<1>8. ~Time
  <2>1. ASSUME NEW i \in Jobs, ExpireLease(i) \/ ElapseRetention(i) \/ Overdue(i)
        PROVE  jobs'[j].status = a.status
    BY <1>1, <2>1 DEF ExpireLease, ElapseRetention, Overdue, Row
  <2> QED BY <2>1 DEF Time
<1>9. PICK e \in Executions : Execute(e)
  BY <1>2, <1>5, <1>6, <1>7, <1>8 DEF Next, vars
<1>10. e[1] \in Jobs
  BY DEF Executions
<1>11. ASSUME NEW s, jobs' = [jobs EXCEPT ![e[1]] = Renewed(@, s)] PROVE FALSE
  <2>1. e[1] = j
    BY <1>4, <1>10, <1>11
  <2>2. jobs'[j] = Renewed(a, s)
    BY <1>1, <1>11, <2>1
  <2> QED BY <1>3, <2>2
<1>12. ~Heartbeat(e) /\ ~RenewBeforeSave(e)
  BY <1>2, <1>11 DEF Heartbeat, RenewBeforeSave
<1>13. ~LoadDocument(e) /\ ~Throw(e) /\ ~AbandonFailPdfExport(e)
  BY <1>2 DEF LoadDocument, Throw, AbandonFailPdfExport
<1>14. ~FailPdfExport(e)
  <2>1. ASSUME FailPdfExport(e) PROVE FALSE
    <3>1. e[1] = j
      BY <1>4, <1>10, <2>1 DEF FailPdfExport
    <3>2. \/ jobs'[j] = Settled(a, "failed") \/ jobs'[j] = Settled(a, "cancelled")
          \/ jobs'[j] = a
      BY <1>1, <2>1, <3>1 DEF FailPdfExport
    <3> QED BY <1>3, <3>2
  <2> QED BY <2>1
<1>15. CompletePdfExport(e)
  BY <1>9, <1>12, <1>13, <1>14 DEF Execute
<1>16. e[1] = j
  BY <1>4, <1>10, <1>15 DEF CompletePdfExport
<1>17. MaySave(a, exec[e].owner)
  <2>1. ~MaySave(a, exec[e].owner) => jobs'[j] = a
    BY <1>1, <1>15, <1>16 DEF CompletePdfExport
  <2> QED BY <2>1
<1> QED BY <1>15, <1>16, <1>17

\* A stale attempt, whose row was reaped and claimed again by another session,
\* cannot complete it: the save looks for the row by its holder.
THEOREM HolderCompletes == Spec => CompletedByHolder
<1> DEFINE Own(j) ==
      jobs[j].status # "completed" /\ jobs'[j].status = "completed"
        => \E e \in Executions :
             /\ e[1] = j /\ exec[e].phase = "saving" /\ exec'[e].phase = "ended"
             /\ jobs[j].worker = exec[e].owner
<1>1. ASSUME PdfInv, [Next]_vars, NEW j \in Jobs PROVE Own(j)
  <2> SUFFICES ASSUME jobs[j].status # "completed", jobs'[j].status = "completed"
               PROVE  \E e \in Executions :
                        /\ e[1] = j /\ exec[e].phase = "saving"
                        /\ exec'[e].phase = "ended" /\ jobs[j].worker = exec[e].owner
    OBVIOUS
  <2>1. PICK e \in Executions :
          CompletePdfExport(e) /\ e[1] = j /\ MaySave(jobs[j], exec[e].owner)
    BY <1>1, PdfConstants, OnlySavesComplete
  <2>2. exec[e].phase = "saving" /\ End({e})
    BY <2>1 DEF CompletePdfExport, InPhase
  <2>3. exec[e] \in Execution
    BY <1>1 DEF PdfInv, TypeOK, Execution
  <2>4. exec'[e] = [exec[e] EXCEPT !.phase = "ended", !.aborted = FALSE]
    BY <2>2 DEF End
  <2>5. exec'[e].phase = "ended"
    BY <2>3, <2>4 DEF Execution
  <2> QED BY <2>1, <2>2, <2>5 DEF MaySave, Held
<1>2. PdfInv /\ [Next]_vars => [\A j \in Jobs : Own(j)]_vars
  BY <1>1
<1> QED BY <1>2, PdfInvariance, PTL DEF Spec, CompletedByHolder
=============================================================================

------------------------------ MODULE PdfExport ------------------------------
(***************************************************************************)
(* The PDF export queue of AnonResume (src/lib/pdf/export-queue.ts), the   *)
(* worker processes that drain it (src/lib/pdf/export-worker.ts) and the   *)
(* resume trash, which stops and finally deletes a resume's exports        *)
(* (src/lib/resume/trash).                                                 *)
(*                                                                         *)
(* A job is a row of pdf_export_jobs.  Rows are numbered in the order of   *)
(* their creation (created_at, id).  Each action is one database           *)
(* transaction, or one step of the worker between two of them; every       *)
(* caller that reads a row and updates it later takes two actions.         *)
(*                                                                         *)
(* Time is abstracted to the comparisons the code makes: a lease is "live" *)
(* or "expired", a row is overdue once its created_at is older than        *)
(* forceExpiryMs, and its retention is "due" once result_expires_at (or    *)
(* completed_at + resultTtlMs) has passed.  Documents, file names, access  *)
(* tokens and rendered bytes are abstracted away.                          *)
(***************************************************************************)
EXTENDS Integers, FiniteSets

CONSTANTS
    MaxJobs,           \* bound: rows created in one behaviour
    Resumes,
    Users,             \* signed-in requesters
    Anonymous,         \* requester_user_id = NULL
    Sessions,          \* worker process sessions: the lease owner tokens
    NoSession,         \* worker_id = NULL
    QueueLimit, MaxActivePerUser, MaxAttempts,
    Limits,            \* the values maxConcurrency is given, over time
    Circumstances      \* what happens around the code in this instance

ASSUME PdfConstants ==
    /\ MaxJobs \in Nat
    /\ QueueLimit \in Nat /\ MaxActivePerUser \in Nat
    /\ Limits \subseteq Nat /\ Limits # {} /\ MaxAttempts \in Nat \ {0}
    /\ Resumes # {} /\ Anonymous \notin Users /\ NoSession \notin Sessions
    /\ Circumstances \subseteq
         {"cancel", "trash", "slow", "crash", "database", "overdue"}

VARIABLES
    jobs,       \* the rows of pdf_export_jobs
    resume,     \* the life cycle of each resume row
    cancels,    \* cancel requests between their read and their update
    session,    \* the life cycle of each worker process
    limit,      \* maxConcurrency in the configuration each session last read
    exec        \* what a worker does with the attempt it claimed

vars == <<jobs, resume, cancels, session, limit, exec>>

-----------------------------------------------------------------------------
Jobs == 1..MaxJobs
Executions == Jobs \X (1..MaxAttempts)   \* one per claim of a job
Statuses == {"queued", "running", "completed", "failed", "cancelled"}
Absent == {"unborn", "deleted"}          \* no such row (yet, or any more)
Phases == {"none", "claimed", "rendering", "saving", "discarding", "failing",
           "ended"}

Row == [status : Statuses \cup Absent, cancelRequested : BOOLEAN,
        attempts : 0..MaxAttempts, worker : Sessions \cup {NoSession},
        lease : {"none", "live", "expired"},
        retention : {"open", "kept", "due"}, overdue : BOOLEAN,
        requester : Users \cup {Anonymous}, resume : Resumes]

Exists(j) == jobs[j].status \in Statuses
WithStatus(S) == {j \in Jobs : jobs[j].status \in S}
Active == WithStatus({"queued", "running"})
ActivePdfResume(j) == resume[jobs[j].resume] = "active"

\* The columns the database fills in when a job is inserted.
NewRow(u, r) ==
    [status |-> "queued", cancelRequested |-> FALSE, attempts |-> 0,
     worker |-> NoSession, lease |-> "none", retention |-> "open",
     overdue |-> FALSE, requester |-> u, resume |-> r]

\* What is left of a row that was deleted: nothing reads it any more, but the
\* worker that claimed it still lives in the lease it was given.
Deleted(row) ==
    [NewRow(Anonymous, row.resume) EXCEPT
        !.status = "deleted", !.attempts = row.attempts, !.lease = row.lease]

\* A terminal row: nobody holds it and its retention clock starts.
Settled(row, status) ==
    [row EXCEPT !.status = status, !.worker = NoSession, !.lease = "none",
                !.retention = IF row.retention = "due" THEN "due" ELSE "kept"]

Init ==
    /\ jobs = [j \in Jobs |-> [NewRow(Anonymous, CHOOSE r \in Resumes : TRUE)
                               EXCEPT !.status = "unborn"]]
    /\ resume = [r \in Resumes |-> "active"]
    /\ cancels = {}
    /\ session = [s \in Sessions |-> "running"]
    /\ \E n \in Limits : limit = [s \in Sessions |-> n]
    /\ exec = [e \in Executions |->
                [phase |-> "none", owner |-> NoSession, aborted |-> FALSE]]

-----------------------------------------------------------------------------
(* Requests of the web process                                             *)

\* Mutant: the row that is being inserted is not counted.
HasCapacityUpTo == Cardinality(Active) <= QueueLimit

\* The queue limit counts queued and running rows of everyone.
HasCapacity == Cardinality(Active) < QueueLimit

\* The INSERT shared by enqueue and retry, under PDF_QUEUE_LOCK.
Insert(u, r) ==
    \E j \in Jobs :
        /\ jobs[j].status = "unborn"
        /\ \A i \in 1..(j - 1) : jobs[i].status # "unborn"
        /\ HasCapacity
        /\ jobs' = [jobs EXCEPT ![j] = NewRow(u, r)]

\* Mutant: the resume is locked without looking at deleted_at.
LockAnyResume(r) == resume[r] # "purged"

\* lockPdfResume: FOR SHARE, and not in the trash.
LockPdfResume(r) == resume[r] = "active"

\* A signed-in requester may hold only so many unfinished exports.
EnqueuePdfExport(u, r) ==
    /\ LockPdfResume(r)
    /\ u \in Users =>
         Cardinality({j \in Active : jobs[j].requester = u}) < MaxActivePerUser
    /\ Insert(u, r)
    /\ UNCHANGED <<resume, cancels, session, exec, limit>>

\* An administrator's retry inserts a new row for the requester of a failed or
\* cancelled one.  It checks the queue limit but not the requester's own.
AdminRetryPdfExport(i) ==
    /\ jobs[i].status \in {"failed", "cancelled"}
    /\ LockPdfResume(jobs[i].resume)
    /\ Insert(jobs[i].requester, jobs[i].resume)
    /\ UNCHANGED <<resume, cancels, session, exec, limit>>

\* requireAccessibleJob: what a requester may still see.
Accessible(j) == Exists(j) /\ ActivePdfResume(j) /\ ~jobs[j].overdue

\* cancelPdfExport, first half: the row is read outside any transaction, and
\* only a queued or running one leads to an update.
CancelRead(j) ==
    /\ "cancel" \in Circumstances
    /\ Accessible(j) /\ j \in Active
    /\ cancels' = cancels \cup {<<j, jobs[j].status>>}
    /\ UNCHANGED <<jobs, resume, session, exec, limit>>

Cancelled(row) == [Settled(row, "cancelled") EXCEPT !.cancelRequested = TRUE]

\* cancelPdfExport, second half, on the row as it is by now.  After reading
\* "queued" the update is conditional on the row still being queued; after
\* reading "running" it only raises the flag, whatever the status has become.
CancelUpdate(c) ==
    LET j == c[1] IN
    /\ cancels' = cancels \ {c}
    /\ jobs' = [jobs EXCEPT ![j] =
         IF c[2] = "queued"
         THEN IF @.status = "queued" THEN Cancelled(@) ELSE @
         ELSE IF Exists(j) THEN [@ EXCEPT !.cancelRequested = TRUE] ELSE @]
    /\ UNCHANGED <<resume, session, exec, limit>>

\* adminCancelPdfExport reads and updates under FOR UPDATE.
AdminCancelPdfExport(j) ==
    /\ "cancel" \in Circumstances /\ j \in Active
    /\ jobs' = [jobs EXCEPT ![j] =
         IF @.status = "queued" THEN Cancelled(@)
                                ELSE [@ EXCEPT !.cancelRequested = TRUE]]
    /\ UNCHANGED <<resume, cancels, session, exec, limit>>

\* getPdfExportDownload serves the bytes of a completed job until they expire.
\* requestResumeTaskStops nulls the result and makes it expire at once.
Downloadable(j) ==
    Accessible(j) /\ jobs[j].status = "completed" /\ jobs[j].retention = "kept"

-----------------------------------------------------------------------------
(* The resume trash                                                        *)

\* requestResumeTaskStops, on one row: a queued export is cancelled on the spot,
\* any other is flagged, and the result is withdrawn (result_expires_at = now).
Stopped(row) ==
    [row EXCEPT !.cancelRequested = TRUE, !.retention = "due",
                !.status = IF @ = "queued" THEN "cancelled" ELSE @]

\* deleteResumeRecord with requestResumeTaskStops, one transaction.
MoveResumeToTrash(r) ==
    /\ "trash" \in Circumstances /\ resume[r] = "active"
    /\ resume' = [resume EXCEPT ![r] = "trashed"]
    /\ jobs' = [j \in Jobs |-> IF Exists(j) /\ jobs[j].resume = r
                              THEN Stopped(jobs[j]) ELSE jobs[j]]
    /\ UNCHANGED <<cancels, session, exec, limit>>

RestoreTrashedResume(r) ==
    /\ resume[r] = "trashed"
    /\ resume' = [resume EXCEPT ![r] = "active"]
    /\ UNCHANGED <<jobs, cancels, session, exec, limit>>

HasUnfinishedPdfTasks(r) == \E j \in Active : jobs[j].resume = r

\* purgeTrashedResume by the owner or runResumeTrashMaintenance on schedule:
\* the rows of the resume are deleted with it (ON DELETE CASCADE).  That AI
\* runs defer it as well is left open here: a purge need not happen.
PurgeTrashedResume(r) ==
    /\ resume[r] = "trashed"
    /\ ~HasUnfinishedPdfTasks(r)
    /\ resume' = [resume EXCEPT ![r] = "purged"]
    /\ jobs' = [j \in Jobs |-> IF Exists(j) /\ jobs[j].resume = r
                              THEN Deleted(jobs[j]) ELSE jobs[j]]
    /\ UNCHANGED <<cancels, session, exec, limit>>

-----------------------------------------------------------------------------
(* The loop of a worker process                                            *)

Looping(s) == session[s] = "running"

\* runtime.refreshIfDue: sessions pick up a published limit one by one.
RefreshConfiguration(s) ==
    /\ Looping(s)
    /\ \E n \in Limits : limit' = [limit EXCEPT ![s] = n]
    /\ UNCHANGED <<jobs, resume, cancels, session, exec>>

\* Mutant: the retry limit is compared with >.
ReapedOnceMore(row) ==
    IF row.status # "running" \/ row.lease # "expired" THEN row
    ELSE IF row.cancelRequested THEN Settled(row, "cancelled")
    ELSE IF row.attempts > MaxAttempts THEN Settled(row, "failed")
    ELSE [row EXCEPT !.status = "queued", !.worker = NoSession, !.lease = "none"]

\* Mutant: expired rows with a cancel request are left for their worker.
ReapedUnlessFlagged(row) ==
    IF row.status # "running" \/ row.lease # "expired" THEN row
    ELSE IF row.cancelRequested THEN row
    ELSE IF row.attempts >= MaxAttempts THEN Settled(row, "failed")
    ELSE [row EXCEPT !.status = "queued", !.worker = NoSession, !.lease = "none"]

\* The first three updates of claimPdfExportJobs, on one row.
Reaped(row) ==
    IF row.status # "running" \/ row.lease # "expired" THEN row
    ELSE IF row.cancelRequested THEN Settled(row, "cancelled")
    ELSE IF row.attempts >= MaxAttempts THEN Settled(row, "failed")
    ELSE [row EXCEPT !.status = "queued", !.worker = NoSession, !.lease = "none"]

\* Claimed by session s.
Taken(row, s) ==
    [row EXCEPT !.status = "running", !.worker = s, !.lease = "live",
                !.attempts = @ + 1]

RunningIn(rows) == {j \in Jobs : rows[j].status = "running"}
Claimable(rows) ==
    {j \in Jobs : /\ rows[j].status = "queued" /\ ~rows[j].cancelRequested
                  /\ resume[rows[j].resume] = "active"}

\* Mutant: rows already running do not take up room.
RoomForAll(rows, max) == max

Room(rows, max) ==
    LET running == Cardinality(RunningIn(rows)) IN
    IF running >= max THEN 0 ELSE max - running

\* Mutant: any claimable rows, in no particular order.
AnyOf(rows, S, max) ==
    /\ S \subseteq Claimable(rows)
    /\ Cardinality(S) <= Room(rows, max)
    /\ Cardinality(S) = Room(rows, max) \/ S = Claimable(rows)

\* The oldest claimable rows, as many as there is room for.
Oldest(rows, S, max) ==
    /\ S \subseteq Claimable(rows)
    /\ \A j \in S, i \in Claimable(rows) \ S : j < i
    /\ Cardinality(S) <= Room(rows, max)
    /\ Cardinality(S) = Room(rows, max) \/ S = Claimable(rows)

\* claimPdfExportJobs under PDF_QUEUE_LOCK, and the executions it starts.
\* SKIP LOCKED only skips rows a concurrent transaction is about to cancel, so
\* the claim reads as if that transaction came first.
ClaimPdfExportJobs(s) ==
    LET rows == [j \in Jobs |-> Reaped(jobs[j])] IN
    /\ Looping(s)
    /\ \E S \in SUBSET Jobs :
        /\ Oldest(rows, S, limit[s])
        /\ jobs' = [j \in Jobs |-> IF j \in S THEN Taken(rows[j], s) ELSE rows[j]]
        /\ exec' = [e \in Executions |->
             IF e[1] \in S /\ e[2] = rows[e[1]].attempts + 1
             THEN [phase |-> "claimed", owner |-> s, aborted |-> FALSE]
             ELSE exec[e]]
    /\ UNCHANGED <<resume, cancels, session, limit>>

\* deleteExpiredPdfExportResults: a row of any status goes once it is overdue
\* or its result_expires_at has passed.
DeleteExpiredPdfExportResults(s) ==
    /\ Looping(s)
    /\ jobs' = [j \in Jobs |->
         IF Exists(j) /\ (jobs[j].overdue \/ jobs[j].retention = "due")
         THEN Deleted(jobs[j]) ELSE jobs[j]]
    /\ UNCHANGED <<resume, cancels, session, exec, limit>>

-----------------------------------------------------------------------------
(* One execution: executePdfExportJob for the attempt e[2] of job e[1]     *)

InPhase(e, S) == exec[e].phase \in S
\* Mutant: the update names the job but not its worker.
HeldByAnyone(row, s) == row.status = "running"

Held(row, s) == row.status = "running" /\ row.worker = s
MoveTo(e, phase) == exec' = [exec EXCEPT ![e].phase = phase]
End(E) == exec' = [e \in Executions |-> IF e \in E
            THEN [exec[e] EXCEPT !.phase = "ended", !.aborted = FALSE] ELSE exec[e]]
Ongoing(e) == InPhase(e, Phases \ {"none", "ended"})

\* renewPdfExportLease: prolongs the lease even when it has expired, and tells
\* the caller to cancel when the job is flagged or no longer its own.
Renewed(row, s) == IF Held(row, s) THEN [row EXCEPT !.lease = "live"] ELSE row
ToldToCancel(row, s) == Held(row, s) => row.cancelRequested

\* The interval timer, running until the execution ends.  A database error
\* aborts the execution as well and leaves the lease alone.
Heartbeat(e) ==
    /\ Ongoing(e)
    /\ \/ /\ jobs' = [jobs EXCEPT ![e[1]] = Renewed(@, exec[e].owner)]
          /\ exec' = [exec EXCEPT ![e].aborted =
                       @ \/ ToldToCancel(jobs[e[1]], exec[e].owner)]
       \/ /\ "database" \in Circumstances
          /\ exec' = [exec EXCEPT ![e].aborted = TRUE]
          /\ UNCHANGED jobs
    /\ UNCHANGED <<resume, cancels, session, limit>>

\* The print page asks the web process for the document: only for a running,
\* unflagged, young job of an active resume (getPdfExportDocumentForWorker).
LoadDocument(e) ==
    LET j == e[1] IN
    /\ InPhase(e, {"claimed"}) /\ ~exec[e].aborted
    /\ Accessible(j) /\ jobs[j].status = "running" /\ ~jobs[j].cancelRequested
    /\ MoveTo(e, "rendering")
    /\ UNCHANGED <<jobs, resume, cancels, session, limit>>

\* Anything in the try block may throw: the page is refused its document, the
\* abort signal closes the browser, the renderer or the database fails.  The
\* catch block reports a cancellation exactly if the signal was aborted.
Throw(e) ==
    /\ InPhase(e, {"claimed", "rendering", "saving", "discarding"})
    /\ MoveTo(e, IF exec[e].aborted THEN "discarding" ELSE "failing")
    /\ UNCHANGED <<jobs, resume, cancels, session, limit>>

\* The renderer returns the bytes, and the renewal that follows decides whether
\* they are saved.  (An abort between the two changes nothing: it counts as
\* coming after the renewal.)
RenewBeforeSave(e) ==
    LET s == exec[e].owner IN
    /\ InPhase(e, {"rendering"}) /\ ~exec[e].aborted
    /\ jobs' = [jobs EXCEPT ![e[1]] = Renewed(@, s)]
    /\ MoveTo(e, IF ToldToCancel(jobs[e[1]], s) THEN "discarding" ELSE "saving")
    /\ UNCHANGED <<resume, cancels, session, limit>>

Completed(row) == [Settled(row, "completed") EXCEPT !.retention = "kept"]

\* Mutant: the save does not look at cancel_requested.
MaySaveFlagged(row, s) == Held(row, s)

MaySave(row, s) == Held(row, s) /\ ~row.cancelRequested

\* completePdfExport: its return value is ignored.
CompletePdfExport(e) ==
    /\ InPhase(e, {"saving"})
    /\ jobs' = [jobs EXCEPT ![e[1]] =
         IF MaySave(@, exec[e].owner) THEN Completed(@) ELSE @]
    /\ End({e})
    /\ UNCHANGED <<resume, cancels, session, limit>>

FailPdfExport(e) ==
    /\ InPhase(e, {"discarding", "failing"})
    /\ jobs' = [jobs EXCEPT ![e[1]] =
         IF Held(@, exec[e].owner)
         THEN Settled(@, IF InPhase(e, {"failing"}) THEN "failed" ELSE "cancelled")
         ELSE @]
    /\ End({e})
    /\ UNCHANGED <<resume, cancels, session, limit>>

\* failPdfExport throws inside the catch block: nothing is written and the job
\* is left to the expiry of its lease.
AbandonFailPdfExport(e) ==
    /\ "database" \in Circumstances
    /\ InPhase(e, {"failing"}) \/ (InPhase(e, {"discarding"}) /\ exec[e].aborted)
    /\ End({e})
    /\ UNCHANGED <<jobs, resume, cancels, session, limit>>

-----------------------------------------------------------------------------
(* The end of a worker, and time                                           *)

OwnedBy(s) == {e \in Executions : Ongoing(e) /\ exec[e].owner = s}

\* The signal ends the loop: no more claims; the executions run to their end.
StopWorker(s) ==
    /\ "crash" \in Circumstances /\ Looping(s)
    /\ session' = [session EXCEPT ![s] = "draining"]
    /\ UNCHANGED <<jobs, resume, cancels, exec, limit>>

WorkerStopped(s) ==
    /\ session[s] = "draining"
    /\ OwnedBy(s) = {}
    /\ session' = [session EXCEPT ![s] = "gone"]
    /\ UNCHANGED <<jobs, resume, cancels, exec, limit>>

\* The process dies, and every execution in it; a replacement process has a
\* session of its own.
CrashWorker(s) ==
    /\ "crash" \in Circumstances /\ session[s] \in {"running", "draining"}
    /\ session' = [session EXCEPT ![s] = "gone"]
    /\ End(OwnedBy(s))
    /\ UNCHANGED <<jobs, resume, cancels, limit>>

\* Some execution may still renew the lease of job j.
Attended(j) == \E e \in Executions : e[1] = j /\ Ongoing(e)

\* lease_expires_at passes, under a worker that died or is merely slow.
ExpireLease(j) ==
    /\ jobs[j].lease = "live"
    /\ "slow" \in Circumstances \/ ~Attended(j)
    /\ jobs' = [jobs EXCEPT ![j].lease = "expired"]
    /\ UNCHANGED <<resume, cancels, session, exec, limit>>

\* result_expires_at, or completed_at + resultTtlMs of a failed or cancelled
\* row, passes.
ElapseRetention(j) ==
    /\ jobs[j].retention = "kept"
    /\ jobs' = [jobs EXCEPT ![j].retention = "due"]
    /\ UNCHANGED <<resume, cancels, session, exec, limit>>

\* created_at + forceExpiryMs passes, for older rows first.
Overdue(j) ==
    /\ "overdue" \in Circumstances /\ Exists(j) /\ ~jobs[j].overdue
    /\ \A i \in 1..(j - 1) : Exists(i) => jobs[i].overdue
    /\ jobs' = [jobs EXCEPT ![j].overdue = TRUE]
    /\ UNCHANGED <<resume, cancels, session, exec, limit>>

-----------------------------------------------------------------------------
Web ==
    \/ \E u \in Users \cup {Anonymous}, r \in Resumes : EnqueuePdfExport(u, r)
    \/ \E j \in Jobs : \/ AdminRetryPdfExport(j)
                      \/ CancelRead(j)
                      \/ AdminCancelPdfExport(j)
    \/ \E c \in cancels : CancelUpdate(c)

Trash ==
    \E r \in Resumes : \/ MoveResumeToTrash(r)
                      \/ RestoreTrashedResume(r)
                      \/ PurgeTrashedResume(r)

Worker ==
    \E s \in Sessions : \/ ClaimPdfExportJobs(s)
                       \/ DeleteExpiredPdfExportResults(s)
                       \/ RefreshConfiguration(s)
                       \/ StopWorker(s)
                       \/ WorkerStopped(s)
                       \/ CrashWorker(s)

Execute(e) ==
    \/ Heartbeat(e) \/ LoadDocument(e) \/ Throw(e)
    \/ RenewBeforeSave(e) \/ CompletePdfExport(e) \/ FailPdfExport(e)
    \/ AbandonFailPdfExport(e)

Time == \E j \in Jobs : ExpireLease(j) \/ ElapseRetention(j) \/ Overdue(j)

Next == Web \/ Trash \/ Worker \/ (\E e \in Executions : Execute(e)) \/ Time

Spec == Init /\ [][Next]_vars

\* What the worker loop and the clock guarantee: a running session polls for
\* work, an execution takes its next step, a started cancel request finishes,
\* and a lease that nobody renews runs out.
Proceed(e) ==
    \/ LoadDocument(e) \/ Throw(e) \/ RenewBeforeSave(e)
    \/ CompletePdfExport(e) \/ FailPdfExport(e) \/ AbandonFailPdfExport(e)

FairSpec ==
    /\ Spec
    /\ \A s \in Sessions : WF_vars(ClaimPdfExportJobs(s))
    /\ \A e \in Executions : WF_vars(Proceed(e))
    /\ \A j \in Jobs : WF_vars(~Attended(j) /\ ExpireLease(j))
    /\ \A c \in Jobs \X {"queued", "running"} : WF_vars(c \in cancels /\ CancelUpdate(c))

-----------------------------------------------------------------------------
(* Properties                                                              *)

TypeOK ==
    /\ jobs \in [Jobs -> Row]
    /\ resume \in [Resumes -> {"active", "trashed", "purged"}]
    /\ cancels \subseteq (Jobs \X {"queued", "running"})
    /\ session \in [Sessions -> {"running", "draining", "gone"}]
    /\ limit \in [Sessions -> Limits]
    /\ exec \in [Executions -> [phase : Phases, aborted : BOOLEAN,
                                owner : Sessions \cup {NoSession}]]

\* "The PDF concurrency limit is enforced globally through PostgreSQL rather
\* than independently by each worker" (README.en.md): however many sessions
\* claim, whatever leases expire, and though sessions may read a new limit at
\* different times, no more rows run than some limit allowed.
GlobalConcurrency == \E n \in Limits : Cardinality(RunningIn(jobs)) <= n

\* A claim counts the rows of every session: what it adds fits under the limit
\* its own session knows.
ClaimRespectsLimit ==
    [][\A s \in Sessions :
         (\E j \in Jobs : jobs[j].worker # s /\ jobs'[j].worker = s)
           => Cardinality(RunningIn(jobs')) <= limit[s]]_vars

\* Enqueues, retries and requeued leases together never exceed queueLimit.
QueueCapacity == Cardinality(Active) <= QueueLimit

\* An export of a resume in the trash is flagged or over, so that a claim, a
\* requeue or a save cannot bring it back, and its result is withdrawn.
TrashedExportsAreStopped ==
    \A j \in Jobs : Exists(j) /\ resume[jobs[j].resume] # "active" =>
        /\ jobs[j].cancelRequested /\ jobs[j].retention = "due"
        /\ jobs[j].status # "queued"
        /\ ~Downloadable(j)

\* Once a row is flagged (by its requester, an administrator or the trash) it
\* is never claimed and never completed, whichever step comes next.
FlaggedIsNeverServed ==
    [][\A j \in Jobs : Exists(j) /\ jobs[j].cancelRequested =>
         /\ jobs'[j].cancelRequested \/ jobs'[j].status = "deleted"
         /\ jobs[j].status # "running" => jobs'[j].status # "running"
         /\ jobs[j].status # "completed" => jobs'[j].status # "completed"]_vars

\* Trashing a resume withdraws its results for good: restoring it, or an
\* execution that was under way, never makes one downloadable again.
WithdrawnStaysWithdrawn ==
    [][\A j \in Jobs : Exists(j) /\ jobs[j].retention = "due" =>
         ~Downloadable(j)']_vars

\* A claim never passes over an older claimable export for a younger one, nor do
\* the exports that the same claim has requeued: whenever it takes one for a
\* further attempt, no older one is left that it could have taken.
FirstComeFirstServed ==
    [][\A i, j \in Jobs : i < j /\ jobs'[j].attempts > jobs[j].attempts
         => i \notin Claimable(jobs)']_vars

\* Only an execution of the session that holds the row, which rendered the
\* document and was told to go on, turns a running row into a completed one.
CompletedByHolder ==
    [][\A j \in Jobs : jobs[j].status # "completed" /\ jobs'[j].status = "completed"
         => \E e \in Executions :
              /\ e[1] = j /\ exec[e].phase = "saving" /\ exec'[e].phase = "ended"
              /\ jobs[j].worker = exec[e].owner]_vars

\* As long as one worker process stays up, an unfinished export does not stay
\* so: whatever crashes, expires or is abandoned, the retry limit ends it.  The
\* one exception is a job left queued and flagged (see NoFlaggedJobWaits).
UnfinishedExportEnds ==
    ([]<>\E s \in Sessions : Looping(s)) =>
        \A j \in Jobs : (j \in Active) ~>
            (j \notin Active \/ (jobs[j].status = "queued" /\ jobs[j].cancelRequested))

(* What the repository's tests say of the program and the code does not do *)

\* "cancels queued jobs immediately and marks running jobs for cancellation":
\* when a cancel request returns, the job is over or at least flagged.
CancelTakesEffect ==
    [][\A c \in cancels \ cancels' :
         jobs'[c[1]].status \in {"queued", "running"} => jobs'[c[1]].cancelRequested]_vars

\* "cancels queued jobs immediately": no queued job carries a cancel request,
\* where no claim would ever pick it up.
NoFlaggedJobWaits ==
    \A j \in Jobs : jobs[j].status = "queued" => ~jobs[j].cancelRequested

\* "enforces an active export limit per authenticated requester".
RequesterLimit ==
    \A u \in Users :
        Cardinality({j \in Active : jobs[j].requester = u}) <= MaxActivePerUser

\* "defers physical deletion while a cancelled worker still holds its job": a
\* resume is not purged under an execution whose lease is good.
PurgeWaitsForHolder ==
    [][\A r \in Resumes : resume[r] = "trashed" /\ resume'[r] = "purged" =>
         \A e \in Executions : jobs[e[1]].resume = r /\ Ongoing(e) =>
            jobs[e[1]].attempts # e[2] \/ jobs[e[1]].lease # "live"]_vars
=============================================================================

------------------------------- MODULE AiRuns -------------------------------
(***************************************************************************)
(* The life of an AI conversation run (src/lib/ai/runs): admission and      *)
(* preparation in the web process, the queue, execution by an AI worker     *)
(* under a lease, stopping, the recovery of expired leases, the settlement  *)
(* an administrator decides, and the resume trash, around the points        *)
(* account of AiQuota.                                                     *)
(*                                                                         *)
(* A run is a row of ai_runs; rows are numbered in the order of creation.  *)
(* Every action is one database transaction, or a step between two of them. *)
(* A procedure that needs several (preparing, executing, stopping and        *)
(* resolving a run) is a phase that others may interleave with and that a    *)
(* crash or a failing database may cut short.                               *)
(*                                                                         *)
(* Messages, prompts, proposals, audit evidence and the retraction of turns *)
(* are abstracted away: no step of a run's life reads them.  So is the rate *)
(* limit of admission, which depends on the clock: any admission may be     *)
(* refused here.                                                            *)
(***************************************************************************)
EXTENDS AiQuota

CONSTANTS
    Resumes,
    OwnerOf,           \* the user a resume belongs to
    Workers,           \* lease owner tokens, one per AI worker process
    NoWorker,          \* lease_owner = NULL
    MaxConcurrentRuns,
    MaxResolutions,    \* bound: administrators resolving at the same time
    Circumstances      \* what happens around the code in this instance

ASSUME RunConstants ==
    /\ OwnerOf \in [Resumes -> Users] /\ Resumes # {}
    /\ NoWorker \notin Workers
    /\ MaxConcurrentRuns \in Nat /\ MaxResolutions \in Nat
    /\ Circumstances \subseteq {"slow", "crash", "database", "trash", "quota"}

VARIABLES
    run,        \* the rows of ai_runs
    resume,     \* the life cycle of each resume row
    prep,       \* prepareAiRun of each run
    exec,       \* the execution of each run by the worker that claimed it
    stopper,    \* stopAiRun of each run, after its first update
    resolving   \* resolveAiAdminSettlement calls under way

runVars == <<run, resume, prep, exec, stopper, resolving>>
vars == <<run, resume, prep, exec, stopper, resolving, account, ledger>>

-----------------------------------------------------------------------------
ActiveStatuses == {"queued", "preparing", "streaming"}
Statuses == ActiveStatuses \cup
    {"settlement_pending", "complete", "stopped", "failed", "interrupted"}
Preparing == {"admitted", "reserved", "undoing", "failing"}
Executing == {"claimed", "calling", "unbilled", "released", "recording"}
Decisions == {"charge_reserved", "release"}
Failures == {"none", "preflight_failed", "stopped", "lease_expired", "failed"}

Run == [status : Statuses \cup {"unborn", "deleted"}, resume : Resumes,
        points : Reservations \cup {0}, started : BOOLEAN, stop : BOOLEAN,
        failure : Failures, owner : Workers \cup {NoWorker},
        lease : {"none", "live", "expired"}]

Execution == [phase : Executing \cup {"none", "ended"}, used : BOOLEAN,
              owner : Workers \cup {NoWorker}, code : Failures]

Resolution == [run : Runs, decision : Decisions, closing : BOOLEAN,
               target : {"complete", "stopped", "failed"}]

Exists(n) == run[n].status \in Statuses
Active(n) == run[n].status \in ActiveStatuses
UserOf(n) == OwnerOf[run[n].resume]
Busy(w) == \E n \in Runs : exec[n].owner = w /\ exec[n].phase \in Executing

\* Mutant: the run is inserted without a lease.
NewRunUnleased(r, p) ==
    [status |-> "preparing", resume |-> r, points |-> p, started |-> FALSE,
     stop |-> FALSE, failure |-> "none", owner |-> NoWorker, lease |-> "none"]

NewRun(r, p) ==
    [status |-> "preparing", resume |-> r, points |-> p, started |-> FALSE,
     stop |-> FALSE, failure |-> "none", owner |-> NoWorker, lease |-> "live"]

\* Every update that ends a run clears its lease.
Ended(row, status, failure) ==
    [row EXCEPT !.status = status, !.failure = failure,
                !.owner = NoWorker, !.lease = "none"]

Init ==
    /\ QuotaInit
    /\ run = [n \in Runs |-> [NewRun(CHOOSE r \in Resumes : TRUE, 0)
                              EXCEPT !.status = "unborn", !.lease = "none"]]
    /\ resume = [r \in Resumes |-> "active"]
    /\ prep = [n \in Runs |-> "none"]
    /\ exec = [n \in Runs |-> [phase |-> "none", used |-> FALSE,
                               owner |-> NoWorker, code |-> "none"]]
    /\ stopper = [n \in Runs |-> "none"]
    /\ resolving = {}

Update(n, row) == run' = [run EXCEPT ![n] = row]
PrepareTo(n, phase) == prep' = [prep EXCEPT ![n] = phase]
ExecuteTo(n, phase) == exec' = [exec EXCEPT ![n].phase = phase]
StopTo(n, phase) == stopper' = [stopper EXCEPT ![n] = phase]

-----------------------------------------------------------------------------
(* The ledger, as the run's procedures call it.  A ledger entry refers to   *)
(* its run, so that a new entry for a deleted run is refused.               *)

ReleaseRun(n) ==
    /\ Exists(n) \/ ledger[UserOf(n)][n].releases > 0
    /\ Release(UserOf(n), n)

\* Mutant: the charge is booked to the account past the ledger.
SettleBesideLedger(n, actual) ==
    /\ Settleable(UserOf(n), n, actual)
    /\ account' = [account EXCEPT ![UserOf(n)].used = @ + actual]
    /\ UNCHANGED ledger

SettleRun(n, actual) ==
    /\ Exists(n) \/ ledger[UserOf(n)][n].settlements > 0
    /\ Settle(UserOf(n), n, actual)

\* The call throws: the database fails, or the ledger refuses.
ReleaseThrows(n) ==
    /\ \/ "database" \in Circumstances
       \/ ~Releasable(UserOf(n), n)
       \/ ~Exists(n) /\ ledger[UserOf(n)][n].releases = 0
    /\ UNCHANGED quotaVars

SettleThrows(n, actual) ==
    /\ \/ "database" \in Circumstances
       \/ ~Settleable(UserOf(n), n, actual)
       \/ ~Exists(n) /\ ledger[UserOf(n)][n].settlements = 0
    /\ UNCHANGED quotaVars

-----------------------------------------------------------------------------
(* prepareAiRun, in the web process                                        *)

\* Mutant: runs that are still being prepared do not count.
VacantForQueued(r) ==
    LET taken == {n \in Runs : run[n].status \in {"queued", "streaming"}} IN
    /\ Cardinality({n \in taken : UserOf(n) = OwnerOf[r]}) < MaxConcurrentRuns
    /\ ~\E n \in taken : run[n].resume = r

\* The admission check, under an advisory lock per user.
Vacant(r) ==
    LET taken == {n \in Runs : Active(n)} IN
    /\ Cardinality({n \in taken : UserOf(n) = OwnerOf[r]}) < MaxConcurrentRuns
    /\ ~\E n \in taken : run[n].resume = r

\* admitAiRun and the INSERT.
AdmitAiRun(r, p) ==
    /\ resume[r] = "active"
    /\ Vacant(r)
    /\ \E n \in Runs :
        /\ run[n].status = "unborn"
        /\ \A i \in 1..(n - 1) : run[i].status # "unborn"
        /\ Update(n, NewRun(r, p))
        /\ PrepareTo(n, "admitted")
    /\ UNCHANGED <<resume, exec, stopper, resolving, quotaVars>>

ReserveQuota(n) ==
    /\ prep[n] = "admitted"
    /\ Exists(n)
    /\ Reserve(UserOf(n), n, run[n].points)
    /\ PrepareTo(n, "reserved")
    /\ UNCHANGED <<run, resume, exec, stopper, resolving>>

\* The quota is exceeded, or the database fails: nothing was reserved.
RefuseQuota(n) ==
    /\ prep[n] = "admitted"
    /\ \/ "database" \in Circumstances
       \/ ~Exists(n)
       \/ ~Reservable(UserOf(n), n, run[n].points)
    /\ PrepareTo(n, "failing")
    /\ UNCHANGED <<run, resume, exec, stopper, resolving, quotaVars>>

\* Mutant: the status is not looked at again.
NotStopped(row) == ~row.stop /\ row.owner = NoWorker

\* Still the web process's to prepare: the WHERE clause of its updates.
InPreparation(row) ==
    row.status = "preparing" /\ ~row.stop /\ row.owner = NoWorker

\* The update to "queued": without a row, the preparation was cancelled.
EnqueueRun(n) ==
    /\ prep[n] = "reserved"
    /\ IF InPreparation(run[n])
       THEN /\ Update(n, [run[n] EXCEPT !.status = "queued", !.lease = "none"])
            /\ PrepareTo(n, "done")
       ELSE /\ UNCHANGED run
            /\ PrepareTo(n, "undoing")
    /\ UNCHANGED <<resume, exec, stopper, resolving, quotaVars>>

\* Storing the audit evidence or the update throws.
FailPreparation(n) ==
    /\ "database" \in Circumstances
    /\ prep[n] = "reserved"
    /\ PrepareTo(n, "undoing")
    /\ UNCHANGED <<run, resume, exec, stopper, resolving, quotaVars>>

\* The catch block releases the reservation and ignores a failure to do so.
UndoReservation(n) ==
    /\ prep[n] = "undoing"
    /\ ReleaseRun(n) \/ ReleaseThrows(n)
    /\ PrepareTo(n, "failing")
    /\ UNCHANGED <<run, resume, exec, stopper, resolving>>

RecordPreflightFailure(n) ==
    /\ prep[n] = "failing"
    /\ Update(n, IF InPreparation(run[n])
                 THEN Ended(run[n], "failed", "preflight_failed") ELSE run[n])
    /\ PrepareTo(n, "done")
    /\ UNCHANGED <<resume, exec, stopper, resolving, quotaVars>>

\* The web process dies, or the last update fails.
AbandonPreparation(n) ==
    /\ \/ "crash" \in Circumstances /\ prep[n] \in Preparing
       \/ "database" \in Circumstances /\ prep[n] = "failing"
    /\ PrepareTo(n, "done")
    /\ UNCHANGED <<run, resume, exec, stopper, resolving, quotaVars>>

-----------------------------------------------------------------------------
(* The queue and the execution, in an AI worker                            *)

Claimable(n) ==
    /\ run[n].status = "queued" /\ ~run[n].stop
    /\ resume[run[n].resume] = "active"

\* claimQueuedAiRuns: a worker without an execution takes the oldest run.
ClaimQueuedAiRun(w) ==
    /\ ~Busy(w)
    /\ \E n \in Runs :
        /\ Claimable(n)
        /\ \A i \in 1..(n - 1) : ~Claimable(i)
        /\ Update(n, [run[n] EXCEPT !.status = "preparing", !.owner = w,
                                    !.lease = "live"])
        /\ exec' = [exec EXCEPT ![n] = [phase |-> "claimed", used |-> FALSE,
                                        owner |-> w, code |-> "none"]]
    /\ UNCHANGED <<resume, prep, stopper, resolving, quotaVars>>

Holds(n, status) == run[n].status = status /\ run[n].owner = exec[n].owner

\* Mutant: an expired lease is still good enough.
OwnsWhileHeld(n, status) == Holds(n, status)

\* The row is the execution's own and its lease has not run out.
Owns(n, status) == Holds(n, status) /\ run[n].lease = "live"

\* The first update of executePreparedAiRun.
StartRun(n) ==
    /\ exec[n].phase = "claimed"
    /\ IF Owns(n, "preparing") /\ ~run[n].stop
       THEN /\ Update(n, [run[n] EXCEPT !.status = "streaming", !.started = TRUE])
            /\ ExecuteTo(n, "calling")
       ELSE /\ UNCHANGED run
            /\ ExecuteTo(n, "ended")
    /\ UNCHANGED <<resume, prep, stopper, resolving, quotaVars>>

\* A provider call reports the tokens it used.  Others may follow.
ReportUsage(n) ==
    /\ exec[n].phase = "calling" /\ ~exec[n].used
    /\ exec' = [exec EXCEPT ![n].used = TRUE]
    /\ UNCHANGED <<run, resume, prep, stopper, resolving, quotaVars>>

\* A call fails in any round, or the monitor or a checkpoint notices the stop
\* request.  A call refused for its key or its rate counts as unbilled,
\* whatever earlier rounds used.
FailExecution(n, code) ==
    /\ exec[n].phase = "calling"
    /\ code = "stopped" => run[n].stop
    /\ \E phase \in {"unbilled", "recording"} :
         exec' = [exec EXCEPT ![n] = [exec[n] EXCEPT !.phase = phase, !.code = code]]
    /\ UNCHANGED <<run, resume, prep, stopper, resolving, quotaVars>>

\* Mutant: a stop request is not looked at.
MayFinalizeStopped(n) == Owns(n, "streaming")

\* finalizeOwnedAiRun locks the row while it is owned, live and not stopped.
MayFinalize(n) == Owns(n, "streaming") /\ ~run[n].stop

\* The settlement and the end of the run are one transaction; without reported
\* usage the run is left to an administrator.
FinalizeOwnedAiRun(n) ==
    /\ exec[n].phase = "calling"
    /\ MayFinalize(n)
    /\ IF exec[n].used
       THEN /\ \E actual \in Charges : SettleRun(n, actual)
            /\ Update(n, Ended(run[n], "complete", "none"))
       ELSE /\ Update(n, Ended(run[n], "settlement_pending", "none"))
            /\ UNCHANGED quotaVars
    /\ ExecuteTo(n, "ended")
    /\ UNCHANGED <<resume, prep, stopper, resolving>>

\* The lease monitor, a checkpoint or the finalization finds the row stopped or
\* no longer its own: the error is passed on and nothing is written.
LoseRun(n) ==
    /\ exec[n].phase = "calling"
    /\ ~MayFinalize(n)
    /\ ExecuteTo(n, "ended")
    /\ UNCHANGED <<run, resume, prep, stopper, resolving, quotaVars>>

\* The catch block releases an unbilled run's reservation; if that throws, the
\* execution ends and the run waits for its lease to expire.
ReleaseUnbilled(n) ==
    /\ exec[n].phase = "unbilled"
    /\ \/ ReleaseRun(n) /\ ExecuteTo(n, "released")
       \/ ReleaseThrows(n) /\ ExecuteTo(n, "ended")
    /\ UNCHANGED <<run, resume, prep, stopper, resolving>>

\* The catch block's update, which asks for the owner but not for the lease.
RecordFailure(n) ==
    /\ exec[n].phase \in {"released", "recording"}
    /\ Update(n, IF Holds(n, "streaming")
                 THEN Ended(run[n], IF exec[n].phase = "released"
                                    THEN "failed" ELSE "settlement_pending",
                            exec[n].code)
                 ELSE run[n])
    /\ ExecuteTo(n, "ended")
    /\ UNCHANGED <<resume, prep, stopper, resolving, quotaVars>>

\* The worker dies or is shut down, or the last update fails.
AbandonExecution(n) ==
    /\ \/ "crash" \in Circumstances /\ exec[n].phase \in Executing
       \/ "database" \in Circumstances /\ exec[n].phase \in {"released", "recording"}
    /\ ExecuteTo(n, "ended")
    /\ UNCHANGED <<run, resume, prep, stopper, resolving, quotaVars>>

-----------------------------------------------------------------------------
(* Lease recovery                                                          *)

\* Somebody may still be at work on the run.
Attended(n) == prep[n] \in Preparing \/ exec[n].phase \in Executing

ExpireLease(n) ==
    /\ run[n].lease = "live"
    /\ "slow" \in Circumstances \/ ~Attended(n)
    /\ Update(n, [run[n] EXCEPT !.lease = "expired"])
    /\ UNCHANGED <<resume, prep, exec, stopper, resolving, quotaVars>>

\* Mutant: every run whose lease expired counts as unused.
UnusedOnceExpired(row) == row.lease = "expired"

\* Nothing can have been billed before the run was started.
ProvablyUnused(row) == ~row.started

\* recoverExpiredAiRuns, on one row of its batch: the reservation of a run that
\* was never started is released, any other is left to an administrator.
RecoverExpiredAiRun(n) ==
    /\ run[n].status \in {"preparing", "streaming"} /\ run[n].lease = "expired"
    /\ \/ /\ ProvablyUnused(run[n])
          /\ ReleaseUnused(UserOf(n), n)
          /\ Update(n, Ended(run[n], "interrupted", "lease_expired"))
       \/ /\ ~(ProvablyUnused(run[n]) /\ Reserved(UserOf(n), n))
          /\ Update(n, Ended(run[n], "settlement_pending", "lease_expired"))
          /\ UNCHANGED quotaVars
    /\ UNCHANGED <<resume, prep, exec, stopper, resolving>>

-----------------------------------------------------------------------------
(* stopAiRun                                                               *)

StopAiRun(n) ==
    /\ Active(n)
    /\ Update(n, [Ended(run[n], "settlement_pending", "stopped")
                  EXCEPT !.stop = TRUE])
    /\ IF run[n].started THEN UNCHANGED stopper ELSE StopTo(n, "releasing")
    /\ UNCHANGED <<resume, prep, exec, resolving, quotaVars>>

\* The run was not started, so that its reservation is released; if that
\* throws, the run stays pending.
ReleaseStopped(n) ==
    /\ stopper[n] = "releasing"
    /\ \/ ReleaseRun(n) /\ StopTo(n, "closing")
       \/ ReleaseThrows(n) /\ StopTo(n, "none")
    /\ UNCHANGED <<run, resume, prep, exec, resolving>>

CloseStopped(n) ==
    /\ stopper[n] = "closing"
    /\ Update(n, IF run[n].status = "settlement_pending" /\ run[n].failure = "stopped"
                 THEN [run[n] EXCEPT !.status = "stopped"] ELSE run[n])
    /\ StopTo(n, "none")
    /\ UNCHANGED <<resume, prep, exec, resolving, quotaVars>>

AbandonStop(n) ==
    /\ "crash" \in Circumstances /\ stopper[n] # "none"
    /\ StopTo(n, "none")
    /\ UNCHANGED <<run, resume, prep, exec, resolving, quotaVars>>

-----------------------------------------------------------------------------
(* resolveAiAdminSettlement                                                *)

\* The first read finds a failure code only on a pending run.
Target(n, decision) ==
    LET failure == IF run[n].status = "settlement_pending"
                   THEN run[n].failure ELSE "none" IN
    IF decision = "charge_reserved" /\ failure = "none" THEN "complete"
    ELSE IF failure = "stopped" THEN "stopped" ELSE "failed"

ReadSettlement(n, decision) ==
    /\ Exists(n)
    /\ Cardinality(resolving) < MaxResolutions
    /\ resolving' = resolving \cup {[run |-> n, decision |-> decision,
                                     closing |-> FALSE,
                                     target |-> Target(n, decision)]}
    /\ UNCHANGED <<run, resume, prep, exec, stopper, quotaVars>>

Replace(c, d) == resolving' = (resolving \ {c}) \cup {d}
Drop(c) == resolving' = resolving \ {c}

\* The conditional update to the target read before, or a state conflict.
ClaimSettlement(c) ==
    /\ ~c.closing
    /\ IF run[c.run].status = "settlement_pending"
       THEN /\ Update(c.run, [run[c.run] EXCEPT !.status = c.target])
            /\ Replace(c, [c EXCEPT !.closing = TRUE])
       ELSE /\ UNCHANGED run
            /\ Drop(c)
    /\ UNCHANGED <<resume, prep, exec, stopper, quotaVars>>

CloseSettlement(c) ==
    /\ c.closing
    /\ IF c.decision = "release" THEN ReleaseRun(c.run)
                                 ELSE SettleRun(c.run, run[c.run].points)
    /\ Drop(c)
    /\ UNCHANGED <<run, resume, prep, exec, stopper>>

\* The ledger throws: the run becomes pending again.
RevertSettlement(c) ==
    /\ c.closing
    /\ IF c.decision = "release" THEN ReleaseThrows(c.run)
                                 ELSE SettleThrows(c.run, run[c.run].points)
    /\ Update(c.run, IF run[c.run].status = c.target
                     THEN [run[c.run] EXCEPT !.status = "settlement_pending"]
                     ELSE run[c.run])
    /\ Drop(c)
    /\ UNCHANGED <<resume, prep, exec, stopper>>

AbandonSettlement(c) ==
    /\ "crash" \in Circumstances
    /\ Drop(c)
    /\ UNCHANGED <<run, resume, prep, exec, stopper, quotaVars>>

-----------------------------------------------------------------------------
(* The resume trash, and the account                                       *)

\* requestResumeTaskStops raises the stop request of active runs, and leaves
\* their status to whoever runs them.
MoveResumeToTrash(r) ==
    /\ "trash" \in Circumstances /\ resume[r] = "active"
    /\ resume' = [resume EXCEPT ![r] = "trashed"]
    /\ run' = [n \in Runs |-> IF Active(n) /\ run[n].resume = r
                              THEN [run[n] EXCEPT !.stop = TRUE] ELSE run[n]]
    /\ UNCHANGED <<prep, exec, stopper, resolving, quotaVars>>

RestoreTrashedResume(r) ==
    /\ resume[r] = "trashed"
    /\ resume' = [resume EXCEPT ![r] = "active"]
    /\ UNCHANGED <<run, prep, exec, stopper, resolving, quotaVars>>

\* processTrashedResumeStops, a maintenance loop of the web process: stopAiRun
\* for the runs whose stop request is still open, restored resumes included.
ProcessTrashedResumeStops(n) == run[n].stop /\ StopAiRun(n)

HasUnfinishedAiTasks(r) ==
    \E n \in Runs : /\ run[n].resume = r
                    /\ Active(n) \/ run[n].status = "settlement_pending"

\* The runs of the resume are deleted with it (ON DELETE CASCADE).
PurgeTrashedResume(r) ==
    /\ resume[r] = "trashed"
    /\ ~HasUnfinishedAiTasks(r)
    /\ resume' = [resume EXCEPT ![r] = "purged"]
    /\ run' = [n \in Runs |-> IF Exists(n) /\ run[n].resume = r
                 THEN [NewRun(r, run[n].points)
                       EXCEPT !.status = "deleted", !.lease = "none"]
                 ELSE run[n]]
    /\ UNCHANGED <<prep, exec, stopper, resolving, quotaVars>>

ChangeQuota(u) ==
    /\ "quota" \in Circumstances
    /\ \/ \E l \in MonthlyLimits, over \in BOOLEAN : UpdateQuota(u, l, over)
       \/ EndPeriod(u)
    /\ UNCHANGED runVars

-----------------------------------------------------------------------------
Prepare(n) ==
    \/ ReserveQuota(n) \/ RefuseQuota(n) \/ EnqueueRun(n) \/ FailPreparation(n)
    \/ UndoReservation(n) \/ RecordPreflightFailure(n) \/ AbandonPreparation(n)

Execute(n) ==
    \/ StartRun(n) \/ FinalizeOwnedAiRun(n) \/ LoseRun(n)
    \/ \E code \in {"stopped", "failed"} : FailExecution(n, code)
    \/ ReleaseUnbilled(n) \/ RecordFailure(n) \/ AbandonExecution(n)

Stop(n) == ReleaseStopped(n) \/ CloseStopped(n) \/ AbandonStop(n)

Resolve(c) ==
    \/ ClaimSettlement(c) \/ CloseSettlement(c)
    \/ RevertSettlement(c) \/ AbandonSettlement(c)

Next ==
    \/ \E r \in Resumes : \/ \E p \in Reservations : AdmitAiRun(r, p)
                          \/ MoveResumeToTrash(r)
                          \/ RestoreTrashedResume(r)
                          \/ PurgeTrashedResume(r)
    \/ \E n \in Runs : \/ Prepare(n) \/ Execute(n) \/ Stop(n)
                       \/ ReportUsage(n) \/ ExpireLease(n)
                       \/ RecoverExpiredAiRun(n)
                       \/ StopAiRun(n) \/ ProcessTrashedResumeStops(n)
                       \/ \E d \in Decisions : ReadSettlement(n, d)
    \/ \E w \in Workers : ClaimQueuedAiRun(w)
    \/ \E c \in resolving : Resolve(c)
    \/ \E u \in Users : ChangeQuota(u)

Spec == Init /\ [][Next]_vars

\* The web process goes on with a request, the worker loop polls and its calls
\* time out, a lease that nobody renews runs out, and recovery and the trash's
\* maintenance are run every so often.  Nobody has to stop, trash or settle
\* anything.
FairSpec ==
    /\ Spec
    /\ \A n \in Runs : /\ WF_vars(Prepare(n)) /\ WF_vars(Execute(n))
                       /\ WF_vars(~Attended(n) /\ ExpireLease(n))
                       /\ WF_vars(RecoverExpiredAiRun(n))
                       /\ WF_vars(ProcessTrashedResumeStops(n))
    /\ \A w \in Workers : WF_vars(ClaimQueuedAiRun(w))

-----------------------------------------------------------------------------
(* Properties                                                              *)

TypeOK ==
    /\ QuotaTypeOK
    /\ run \in [Runs -> Run]
    /\ resume \in [Resumes -> {"active", "trashed", "purged"}]
    /\ prep \in [Runs -> Preparing \cup {"none", "done"}]
    /\ exec \in [Runs -> Execution]
    /\ stopper \in [Runs -> {"none", "releasing", "closing"}]
    /\ resolving \subseteq Resolution

\* Whatever the procedures of a run do to its user's points, they do through the
\* ledger: every step is an operation of AiQuota or leaves the account alone.
ImplementsQuota == QuotaSpec

\* Whatever is prepared, claimed, trashed and restored meanwhile, a resume has
\* at most one active run and a user no more than maxConcurrentRuns.
AdmissionLimits ==
    /\ \A i, n \in Runs : Active(i) /\ Active(n) /\ run[i].resume = run[n].resume
                           => i = n
    /\ \A u \in Users :
         Cardinality({n \in Runs : Active(n) /\ UserOf(n) = u}) <= MaxConcurrentRuns

\* A worker never holds or streams a run whose reservation is missing or was
\* closed, except to record that it has just released it itself.
RunsOnOpenReservation ==
    \A n \in Runs :
        run[n].status \in {"queued", "streaming"} \/ run[n].owner # NoWorker =>
        LET e == ledger[UserOf(n)][n] IN
        /\ e.reserve /\ e.settlements = 0
        /\ e.releases > 0 => run[n].started /\ exec[n].phase \in {"released", "ended"}

\* A run that has left the active statuses never returns to them, and no
\* second execution of a run begins: the provider is not called twice for it,
\* whichever of stop, recovery and preparation comes late.
NeverRunTwice ==
    [][\A n \in Runs :
         /\ Exists(n) /\ ~Active(n) => run'[n].status \notin ActiveStatuses
         /\ exec[n].phase # "none" /\ exec'[n].phase = "claimed"
              => exec[n].phase = "claimed"]_vars

\* After a stop request, of the user or of the trash, only an administrator's
\* decision charges for the run: a late result of its worker never does.
StoppedIsNotCharged ==
    [][\A n \in Runs : run[n].stop
         /\ ledger'[UserOf(n)][n].settlements > ledger[UserOf(n)][n].settlements
         => \E c \in resolving \ resolving' :
              c.run = n /\ c.closing /\ c.decision = "charge_reserved"]_vars

\* A worker whose lease has run out, or whose run was recovered, publishes
\* nothing: a run completes under a live lease of its worker, or by an
\* administrator.
ExpiredIsNotCompleted ==
    [][\A n \in Runs : run[n].status # "complete" /\ run'[n].status = "complete"
         => \/ run[n].lease = "live" /\ exec'[n].phase = "ended"
            \/ run[n].status = "settlement_pending"]_vars

\* Recovery declares a run free of charge only if no call was ever made for it.
InterruptedIsUnused ==
    \A n \in Runs : run[n].status = "interrupted" =>
        ~exec[n].used /\ exec[n].phase \in {"none", "claimed", "ended"}

\* Every run that is admitted ends (is settled, failed, or left to an
\* administrator), although workers and web processes die, leases expire and
\* resumes go to the trash, where no worker claims their runs any more.
EveryRunEnds == \A n \in Runs : Active(n) ~> ~Active(n)

(* What the repository says of the program and the code does not do        *)

\* "releases an unused reservation once".
ReleasedOnce ==
    \A u \in Users, n \in Runs : ledger[u][n].releases <= 1

\* "releases only provably unused leases and leaves uncertain usage for
\* settlement": a run whose provider reported usage is not released, unless an
\* administrator decides so.
UsedIsNotReleased ==
    [][\A n \in Runs : exec[n].used
         /\ ledger'[UserOf(n)][n].releases > ledger[UserOf(n)][n].releases
         => \E c \in resolving \ resolving' : c.run = n]_vars

\* "releases only provably unused leases and leaves uncertain usage for
\* settlement": of the expired runs, only those that were started are left to an
\* administrator.
OnlyUncertainIsPending ==
    \A n \in Runs : run[n].status = "settlement_pending"
        /\ run[n].failure = "lease_expired" => run[n].started

\* "preserves a failed generation status when an administrator settles its
\* charge".
FailureIsPreserved ==
    \A n \in Runs : run[n].status = "complete" => run[n].failure = "none"

\* "unfinished tasks or unsettled usage defer physical cleanup": no resume is
\* purged while the reservation of one of its runs is neither settled nor
\* released.
PurgeWaitsForSettlement ==
    \A n \in Runs : run[n].status = "deleted" =>
        LET e == ledger[UserOf(n)][n] IN
        e.reserve /\ e.points > 0 => e.settlements + e.releases > 0
=============================================================================

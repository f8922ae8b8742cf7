# Formal models of AnonResume

TLA+ specifications of AnonResume, an online resume editor (Next.js, TypeScript,
PostgreSQL), the TLC configurations that model-check them, and theorems about
them that TLAPS checks. Paths below are relative to the repository; most code is
under `src/src/` (`src/` is the repository, `src/src/` its application source).

1. [The system](#1-the-system)
2. [The modules](#2-the-modules)
3. [How the models correspond to the code](#3-how-the-models-correspond-to-the-code)
4. [The runs](#4-the-runs)
5. [Fairness](#5-fairness)
6. [The proofs](#6-the-proofs)
7. [Disagreements between code and documents](#7-disagreements-between-code-and-documents)
8. [What is not modelled](#8-what-is-not-modelled)
9. [Plan](#9-plan)

## 1. The system

Three kinds of processes share one PostgreSQL database, and nothing else:

- the **web process** (Next.js routes and server actions) serves users and
  administrators, prepares AI runs, and runs the maintenance of the trash and of
  accounts on timers;
- **PDF workers** claim export jobs, render them in a browser against the web
  process' print page, and store the bytes in the job's row;
- **AI workers** claim AI runs, call a provider, settle points, and recover runs
  whose lease ran out.

The fourth party is the **browser**: the editor keeps a document, a draft of its own
and requests whose answers come late.

Any number of each may run; any of them may die or be restarted. All coordination
is by rows with a status, a *lease* (an owner token and an expiry time),
conditional updates (`UPDATE ... WHERE status = ...`), `FOR UPDATE` and advisory
locks. So the hard behaviours are the same everywhere: two transactions of one
procedure with somebody else's in between, leases that run out under a worker
that still lives, requests to stop that race with completion, and processes that
die between two writes.

### Inventory

| Component | State | Operations | Interacts with | Hard parts | What makes it correct |
|---|---|---|---|---|---|
| **PDF export queue and worker** `lib/pdf/export-queue.ts`, `export-worker.ts` | job rows (status, attempts, cancel flag, lease, retention); executions in worker memory | enqueue, cancel, admin cancel and retry, claim (reaps expired leases first), renew, load document, complete, fail, clean up | trash flags and withdraws jobs; configuration gives the limits | cancel against claim, expired leases against late completion, several sessions with differing limits, a failing catch block | global concurrency, queue limit, oldest first, a flagged job is never served, a result is saved only by its holder, an export ends |
| **Resume trash** `lib/resume/trash` | `deleted_at` of a resume | move, restore, purge, stop loop | PDF jobs, AI runs, images | purging under unfinished work | stopped tasks stay stopped; no purge under work or open points |
| **AI points ledger** `lib/ai/usage/ledger.ts` | account (limit, used, reserved, period), ledger entries | reserve, settle, release, renew the period, set the quota | runs, recovery, administrators | repeated and late calls, period end under open reservations, charges above the estimate | the account is the sum of its ledger; never overdrawn |
| **AI runs** `lib/ai/runs`, `lib/ai/worker.ts` | run rows (status, started, stop request, lease), phases in memory | admit, reserve, enqueue, claim, start, finalize, fail, stop, recover | ledger, trash, administrators | crash in each phase; stop, recovery and finalization racing | one active run per resume, no second execution, no charge after a stop, every run ends |
| **AI settlement administration** `lib/ai/admin/service.ts` | `resolveAiAdminSettlement` calls under way | charge or release a pending run, set a quota | runs, ledger, purge | read, update, ledger and revert are separate transactions | a decision is carried out once, on what was decided |
| AI resume review `lib/ai/review` | review rows, checkpoints, budget | execute rounds with retries, finalize | runs, ledger | three transactions in the catch block | as AI runs |
| AI proposals, conversations `lib/ai/proposals`, `lib/ai/conversations` | revisions, target hashes, messages | propose, apply, retract | documents, runs | proposal against a newer document | nothing is applied to a document it was not made for |
| AI providers, settings, tools | encrypted keys, adapters | configure, call | AI workers | data formats | |
| **Resume repository, history** `lib/resume/repository.ts`, `lib/resume/history` | version, document, snapshots | save, rename, restore | editor, AI proposals | optimistic versions | no lost update; history within its bound |
| **Editor store and autosave** `stores/resume-editor.ts`, `components/editor` | document, undo history, dirty flag, base version, conflict, recovery draft, save under way | edit, undo, save, wait for a save, resolve a conflict, restore or discard a draft, restore a version | repository by requests, browser storage | a save that returns after further edits, answers out of order, a tab that dies | clean means saved; unsaved edits are in the draft; what is edited gets saved |
| Resume assets `lib/resume/assets` | image rows and files | upload, reference, delete late | documents, trash | file and row are two systems | a referenced image exists |
| **Configuration store, runtime** `lib/config` | revisions, values, per-process snapshots | draft, publish, roll back, refresh | every process | publication against refresh, restart-only values | a publication undoes no other unseen; reported health is true; every process ends at the published revision |
| Secret migration, bootstrap, doctor `lib/config` | encrypted secrets | re-encrypt | configuration | interrupted migration | nothing becomes unreadable |
| **System restart** `lib/runtime/restart` | operation, sequence of targets | request, claim, drain, exit, reconcile, expire | all processes | a target that dies in each state | one process at a time; healthy means replaced; an operation ends |
| Worker lock, heartbeats `lib/runtime` | advisory lock, heartbeat row | run exclusively | workers | lost connection | one worker per instance name |
| Administrators: setup, activation, management, MFA reset `lib/admin` | setup session, roles, requests | set up, activate, approve | accounts | one-time steps, two-party approval | one first administrator, never none |
| **Account merge** `lib/auth/account/merge` | link attempts, merge operations, locks, executor leases | capture, verify, confirm, advance, transfer, retry, terminate | PDF jobs, AI runs, all user data | work requested during a transfer, stalled executors, merges that overlap | one merge per account at a time; an account remains; nothing at work is moved; a merge ends |
| Accounts, social registration `lib/auth` | challenges, pending registrations | confirm, delete, register | all user data | one-time steps | used once |
| Invitations `lib/invitations` | invitation rows | invite, resend, revoke, accept | registration | accept against revoke and registration | accepted once |
| Announcements, onboarding, job search | versioned rows | edit, publish, complete | resumes | optimistic versions | no lost update |
| Domain, i18n, UI, routes, observability, tooling | – | – | – | – | data transformation, presentation |

Components in bold have a module. `PROJECT.json` lists the same components with their sources, and the hazards of
the code line by line.

## 2. The modules

| Module | Models | Kind |
|---|---|---|
| `PdfExport` | the PDF export queue, its workers, and the trash as far as exports are concerned | component |
| `AiQuota` | the points account and usage ledger | component; the abstract specification `AiRuns` implements |
| `AiRuns` | AI runs: preparation, queue, execution, stop, recovery, settlement by an administrator, the trash as far as runs are concerned | component, EXTENDS `AiQuota` |
| `PlatformConfig` | revisions of the platform configuration, and the copy each process keeps | component |
| `SystemRestart` | rolling restarts of the processes, over their configuration | component, EXTENDS `PlatformConfig` |
| `AccountMerge` | linking an identity, and merging the two accounts it may lead to | component |
| `ResumeEditor` | one browser tab, its draft and its requests, and the resume on the server with its other writers | component |
| `VersionedRegister` | a value that is replaced only by one written over it | abstract specification, implemented by `PlatformConfig` and `ResumeEditor` |
| `MCPdfExport`, `MCAiQuota`, `MCAiRuns`, `MCSystemRestart`, `MCAccountMerge`, `MCResumeEditor` | symmetry sets, a constraint and constant values for TLC | instances |
| `PdfExport_proofs`, `AiQuota_proofs`, `AiRuns_proofs`, `AiRunsSafety_proofs`, `SystemRestart_proofs`, `AccountMerge_proofs`, `ResumeEditor_proofs` | theorems and proofs | proofs |

There are three refinements.

- `AiRuns` calls the operators of `AiQuota` (`Reserve`, `Settle`, `Release`,
  `ReleaseUnused`, `UpdateQuota`, `EndPeriod`) where the code calls
  `lib/ai/usage/ledger.ts`, and adds when they are called, and what becomes of the
  run when one throws. `ImplementsQuota` says that every behaviour of `AiRuns`, seen
  through `account` and `ledger`, is one of `QuotaSpec`. It would fail if a procedure
  touched the account past the ledger, or in two steps that are one in `AiQuota`. The
  two modules share these variables, so the mapping is the identity and is written
  as the property `QuotaSpec` itself.
- `PublicationsAreLinear`: the configuration implements `VersionedRegister` with the
  active revision as the version and that revision's base as the base. It would
  fail if a draft could be published over a revision its author has not seen.
- `WritesAreLinear`: a stored resume implements it with the length of its log as the
  version. The base is what the *user* has been shown, not what the request says;
  so it would fail if the editor rebased its document on a version it had only heard
  of, although the server's own check would be satisfied.

Each operator a mutant replaces stands next to that mutant (`\* Mutant: ...`):
a version of the operator with a plausible bug, used by no specification, which
makes the property named in `PROJECT.json` fail.

## 3. How the models correspond to the code

**A step is a transaction.** Each action is one database transaction, or one step
of a process between two of them. A procedure that takes several transactions is
a *phase* (`exec`, `prep`, `stopper`, `resolving`, `cancels`), between whose steps
everything else may happen. A transaction that throws writes nothing: it is no
step where its caller merely reports the error, and a step of the caller where
there is a catch block (`ReleaseThrows`, `Throw`, `RevertSettlement`).

**Time** is reduced to the comparisons the code makes. A lease is `"live"` or
`"expired"` (`lease_expires_at <= now`), a period is `over`, a row is `overdue`
(`created_at + forceExpiryMs`), its retention is `"kept"` or `"due"`. Time actions
(`ExpireLease`, `ElapseRetention`, `Overdue`, `EndPeriod`) may happen whenever the
clock could reach that point; `"slow"` in the instance's `Circumstances` lets a
lease run out although its holder lives. That constant says what happens around
the code in an instance: `"crash"` of processes, failing `"database"` calls, users
who `"cancel"` or `"trash"`, and so on; the theorems hold for every choice.

### PdfExport

`jobs[j]` is the row number `j` in order of creation; `"unborn"` and `"deleted"`
stand for no row. `exec[<<j, n>>]` is `executePdfExportJob` for the n-th attempt of
job `j`, with the session that owns it and whether its `AbortController` was
aborted. Important details taken from the code:

- `claimPdfExportJobs` first settles or requeues every expired row, then counts
  running rows of *all* sessions, then takes the oldest (`ClaimPdfExportJobs` is one
  action, as it is one transaction under `PDF_QUEUE_LOCK`).
- Its `SKIP LOCKED` passes over a row somebody else has locked. A locked row is
  either being cancelled or trashed, and then the claim reads as if that
  transaction had come first, or locked for share by a reader, which delays that
  row to the next poll.
- `cancelPdfExport` is `CancelRead` and `CancelUpdate`: it reads outside of any
  transaction. `adminCancelPdfExport` is one action: it locks the row.
- `renewPdfExportLease` prolongs a lease that has expired already, as long as the
  row still names the session.
- The catch block decides between *cancelled* and *failed* by the abort signal
  (`Throw`), and may throw itself (`AbandonFailPdfExport`).
- A session is the lease owner token of one process life. A restarted process has
  a new session; so does the model.

### AiQuota

One action per function of `lib/ai/usage/ledger.ts`, each a transaction that locks
the account. `ledger[u][n]` abstracts the entries of run `n` to what the
functions look up: whether there is a reserve entry and for how much, and how many
settle and release entries. `ReleaseUnused` is the copy of the release in
`lib/ai/runs/recovery.ts`, which does not look for an earlier one; the table's
unique key does not stop it, as its entry has an operation id of its own. That
`reserved_points >= 0` is a CHECK of the schema: `Reserved` makes an operation
that would violate it impossible.

### AiRuns

`run[n]` is the row; `prep[n]` the phase of `prepareAiRun` in the web process,
`exec[n]` that of `executePreparedAiRun` in the worker, `stopper[n]` that of
`stopAiRun`, and `resolving` the set of `resolveAiAdminSettlement` calls:

    admit -> admitted -> reserved -> (queued) done
                  \          \-> undoing -> failing -> done
                   \-> failing
    claim -> claimed -> calling -> finalize, or lose the run
                              \-> unbilled -> released -> recorded as failed
                               \-> recording -> recorded as settlement_pending

`ReportUsage` is any provider call that reports tokens; `FailExecution` may take a
run that has reported usage to `"unbilled"`, because the code decides by the last
error alone. The phase `"released"` is between the two transactions of the catch
block. `exec[n].used` is a fact about the world (tokens have been used) and read
only where the code has the same knowledge in `usage`.

### PlatformConfig and SystemRestart

`revisions[v]` is the revision number `v` with its status, the revision its draft was
made from, the restart-only values (one value), and the instances that cannot
decode it. Administrators act in transactions under `CONFIG_PUBLISH_LOCK` with the
active version and the draft they have seen (`Current`). `proc[i]` is the
`ConfigurationManager` in the memory of instance `i`, in its `session`-th life: the
revision it was told of (`desired`), the one it has loaded (`hot`), the one it was
started with (`restart`), and its health. A refresh has three steps (`RefreshRead`,
`RefreshInstall`, `RefreshPersist`), because the database is read, the memory replaced
and the row written with others in between; a notification during a refresh joins it
(`DropNotification`). `performStart` reads before it listens, in two steps.

`SystemRestart` adds the operations with one target per process, in `TARGET_ORDER`
(the numbers of the instances). A target goes

    queued -> draining -> exiting -> awaiting_startup
    any of these     -> healthy or failed   when a successor reports
    any but queued   -> timed_out           when it is late

and is written by three parties: the process that is to go (`ClaimNextTarget`,
`MarkExiting`, `MarkAwaitingStartup`), its successor (`ReconcileStartup`, which also
accepts a target whose process died before it was asked, `Replaced`), and any process
whose poll finds the target late (`ExpireTargets`). `request[i]` is what the process does
about a request: a worker ends in any case, a web process whose transition failed
goes on and is `"deaf"`, as its `drainRequests` promise has been consumed. Each life of
a process is a new session; `Crash` may happen at every step.

### AccountMerge

One external identity is enough, as attempts to link it are what leads to a merge; attempt
`a` leads to at most one operation, which has the same number. `attempt[a]` and
`operation[a]` are the rows, `lock[u]` the row of `account_merge_locks`. Details taken from
the code:

- A confirmation evaluates the policy in `confirmVerifiedAccountMerge` and takes the
  locks in another transaction, which checks the state and the locks but not the
  policy (`EvaluateConfirmation`, `ConfirmMergeOperation`).
- `exec[e]` is one call of `advanceAccountMergeOperation`: *picked*, *decided* in the
  transaction that takes the lease, then the transfer, or `"retry"`, `"failed"`, `"expired"`.
  Its clock is read once, when the round begins: `late` and `leased` are what it believed
  then, and may be wrong by the time it decides.
- The transfer checks state, eligibility of both accounts and the owner of the
  identity, but neither the lease nor the deadline.
- A database error ends a transfer at once as failed, unless it is a transient one, which is
  retried as often as the limit allows (`TransferFails`).
- A request for an export or a run first asks whether its user is being merged, and inserts in another
  transaction (`CheckRequest`, `InsertWork`). Two history fields belong to each request:
  `barred` are the merges that had its account locked, with time left, when it asked, and
  `past` those whose executor had already looked for work when it inserted.
- Giving up the identity has two steps as well: the route asks whether a merge forbids it
  (`AskUnlink`), and the library then deletes the row (`Unlink`), possibly after the account was
  locked.

### ResumeEditor

`log` holds the document of every version; the server keeps the last one. `tab` is the
zustand store together with the refs of the component: `timer` (the debounce runs),
`drafting` (its callback is writing the draft), `current` (`saveInFlightRef`). Each
`requests[s]` is one call of a server action, handled by the server in one step
(`Handle`) and answered in another (`SaveEnds`, `ChangeEnds`), so that answers may arrive
in any order, or never (`Fail`). A tab that closes leaves its requests as orphans, which
the server may still handle. Callers of `flushSave` that wait for a save start another when
it ends, each on its own (`Settle`). Three fields of the tab are history that only the
properties read: `seen`, the latest version whose content the user has been shown or has made
(drafts and requests carry it along); `renumbered`, that the answer to a summary change has given
an older document the number of a later version; `discarded`, that the user has discarded a
recovery draft which their own edits had replaced.

## 4. The runs

Every run ends by itself within three minutes on two cores. `CHECK_DEADLOCK FALSE`
is set everywhere because the instances bound the number of rows: when all are
used up and have ended, there may be nothing left to do.

| Run | Question | Bounds and why they are enough |
|---|---|---|
| `pdf_export` | Can any interleaving serve a flagged or withdrawn export, complete one behind its holder's back, or leave one unfinished? | one job, two sessions, two attempts, cancels, the trash, and all of `slow`, `crash`, `database`. The properties speak of one row and the executions that hold it; two sessions and two attempts give a stale and a current holder, an exhausted and a remaining attempt. |
| `pdf_queue` | Does a claim fit under its session's limit, do older exports go first, can the queue overflow? | three jobs for a queue of two places, two sessions, two attempts, crashes (which requeue), limits 1 and 2 published at any time: one job more than the highest limit, so that a claim has to count another session's job and to choose. |
| `ai_quota` | Is the account the sum of its ledger and within its limit? | one user (accounts are independent), three runs, limits 2 and 4, reservations 0–2, charges 0–3, so that charges are below, at and above the estimate. `BoundedReleases` cuts behaviours where recovery releases one run more than twice. |
| `ai_runs` | One run through everything: can it run twice, be charged after a stop, be completed on an expired lease, or be called free after it was used? Does it end? | one run, one worker, two calls of administrators, all circumstances. The properties speak of one run and the procedures working on it. |
| `ai_pair` | Do two runs that share an account keep to the ledger, does a worker only run on an open reservation, is there one active run per resume? | two runs on two resumes, both active at once, slow processes and failing database calls, an administrator, charges 1 and 2 against an estimate of 1 and a limit of 2, so that one run's charge competes with the other's reservation. |
| `platform_config` | Is reported health true, does a process converge, does a publication undo another? | one worker in up to three lives, two publications with drafts, edits and rollbacks among them (four revisions, two values: a value can come back), an operation that restarts it, and every failure of reading, decoding, listening. Health and convergence are of one process; publications of none. |
| `system_restart` | Does an operation restart one process at a time, and does it end? | a worker and a web process: the two kinds, and a first and a last target. Two revisions, so that a restart is pending, crashes, failing writes and late targets at every step; each process has a life left for each restart still to come. |
| `account_merge` | Can an account be in two merges, can merges swallow each other, is work moved that the executor could have seen or the lock should have kept out? | three accounts and two attempts: two merges that share an account, in each direction, confirmed in either order; two executors, one that stalls and one that takes over; two tries of a transfer; one piece of work, asked for and inserted at any time before, during and after a lock. |
| `merge_liveness` | Does a confirmed merge end? | two accounts, one attempt, with crashes at every step, a failing database, an identity that is given up, and work that never ends. |
| `resume_editor` | Is a document that is called saved on the server, is a version ever overwritten unseen? | two documents (an edit, and one that undoes it), two requests at once (two waiters that both save), another device. Restores, proposals and other devices may change the resume until it has `MaxVersions` = 2, the user edits and saves it while it has at most `MaxEdited` = 2, and summaries are changed while it has at most `MaxSummarized` = 3; requests under way and keeping local edits add to these. So edits, undos and summary changes go on after a save was accepted, with the answer to a restore still to come, and the order of answers in section 7 that renumbers an old document is reached. |
| `editor_liveness` | Are unsaved edits in the draft, and does what is edited get saved? | the same without summaries, restores and proposals, with tabs that die (at any moment before version `MaxVersions`), leave requests behind that the server handles later, and open again with a draft. Edits go on after a save was accepted, and a recovery draft is discarded after edits that had replaced it. |
| `ai_purge` | a violation, see section 7 | the smallest instance that shows it |

What the properties say is in the comment above each definition. Bounds that are
not in the code are named: `MaxJobs`, `MaxRuns` (rows per behaviour),
`MaxResolutions` (administrators at work), `MaxReleases` (in `MCAiQuota`), `MaxRevisions`,
`MaxSessions`, `MaxOperations`, `MaxAttempts` of `AccountMerge`, `MaxVersions`, `MaxEdited`,
`MaxSummarized`, `Slots` and `MaxWaiters` of `ResumeEditor`. The limits that administrators may
change while the system runs are constants, except the concurrency limit of the PDF workers
(`limit`, per session) and a user's points: queue limits, retry counts and the number of active runs
do not change in a behaviour.

Symmetry is used where a run checks no liveness: sessions, users, workers,
executors, documents, request slots and resumes are compared for equality only. The `CHOOSE` in `Init` gives unborn rows
an arbitrary resume, which nothing reads before admission overwrites it.

`ai_pair` has no crashes: two runs with crashes at every step are too many states. What a crash does
to one run is in `ai_runs` (`EveryRunEnds` and the safety properties), and that no crash leaves
a run without its reservation is the theorem `RunsAreBacked`, which holds with them.

`UnfinishedExportEnds` excepts a job that is queued *and* flagged: section 7
explains how that arises. It takes two jobs, so the one-job instance never uses
the exception; the liveness check of two jobs with two sessions is beyond what TLC
does in minutes, and whether queue order could starve a job is left to
`FirstComeFirstServed`.

## 5. Fairness

`FairSpec` of `PdfExport`: weak fairness of

- each session's claim: the loop polls (`runPdfExportWorker`), and a poll that
  finds nothing is followed by another after `idlePollMs`;
- each execution's next step: rendering has a time limit, and every branch of
  `executePdfExportJob` leads on;
- the expiry of a lease *nobody renews*: only the clock is needed;
- a started `cancelPdfExport`: a request runs to its end.

Nothing is assumed of heartbeats, cleanup, the trash or users. That some session
stays up is a premise of the property, as process managers are outside the code.

`FairSpec` of `AiRuns`: weak fairness of each preparation and each execution
(provider calls and whole runs have time-outs), of each worker's claim loop, of
the expiry of an unattended lease, of recovery (`lib/ai/worker.ts` runs it on a
timer) and of the trash's stop loop (`lib/resume/trash/runtime.ts`, every minute).
Crashes and failing transactions remain possible at any time and are never fair.
A worker that crashed is the same worker after its restart: its executions are
gone and it polls again. Stop requests, the trash and administrators are never
assumed to act.

`FairSpec` of `SystemRestart`: weak fairness of starting a process again (its supervisor,
outside the code, is a premise: `restart: unless-stopped` in the deployment), of each step
of a refresh, of each process' restart poll (snapshot, reconciliation, claim, expiry, all on
timers), of the clock of a target, and of each step of a drain. `RefreshRead` is strongly fair: a
poll may find a refresh under way or fail, but not each time. Crashes, failing
writes and publications are never assumed. `EveryOperationEnds` therefore excepts the
one dead end of the code (section 7), and `EveryProcessConverges` speaks of processes that
stay up.

`FairSpec` of `AccountMerge`: weak fairness of the two clocks (deadline, lease); strong
fairness of picking an operation and of each transaction of an executor. Strong, because an
executor may crash before any of them, and what is assumed is that it does not
crash each time at the same statement; the maintenance timer starts another. Work is not
assumed to end: the deadline is what ends the merge.

`FairSpec` of `ResumeEditor`: weak fairness of the debounce and its callback, of the server's
handling of each request, and of the arrival of each answer, which may be a refusal. The user
owes nothing: neither edits nor answers to prompts.

## 6. The proofs

The runs check small instances; these theorems hold for every number of rows,
users, sessions, workers, administrators, processes, revisions, accounts, executors,
documents and requests, every limit, charge and retry count, and every choice of
mishaps. They use no assumption but `PdfConstants`, `QuotaConstants`, `RunConstants`,
`ConfigConstants`, `RestartConstants`, `MergeConstants` and `EditorConstants`, which TLC
evaluates in every run of the module concerned.

**PdfExport_proofs.** `PdfTypeCorrect`, `FlaggedExportsAreNeverServed`,
`TrashStopsExports`, `QueueHoldsItsLimit`, `ConcurrencyIsGlobal`; of steps,
`WithdrawnResultsStayGone`, `OldestIsClaimedFirst`, `ClaimsRespectTheLimit`,
`HolderCompletes`. That claims are first come, first served covers exports that the same claim has
put back into the queue: it speaks of what is claimable when the claim is done. The type invariant alone is not inductive: a claim increments
`attempts`, so that a queued row must have an attempt left, and a withdrawn row that is
not over must be flagged, or its save would bring the result back; `PdfInv` adds just
these (`RowsOK`). The argument has two layers. First, every action changes each row by one of a few row operators,
and `RowStep` collects what all of them keep (a flag stays, a flagged row is not
completed or claimed, a row becomes active or running and uses an attempt in no other way); the
lemmas `...Rows` show that each action of `Next` is a `RowsStep`, an `InsertStep` or a
`ClaimStep`. Then each theorem follows from these three cases without looking at the
actions again, but for `HolderCompletes`, which needs to know that only a save
completes a row (`OnlySavesComplete`). `TrashStopsExports` needs the step where a resume leaves the active
state (`ResumeStep`); the two counting theorems rest on the cardinality of the
sets involved (`FewerJobs`, `ClaimFits`): a claim that takes anything fits under the
limit its session read, everything else leaves fewer rows running.

**AiQuota_proofs.** `QuotaTypeCorrect`, `QuotaIsNeverOverdrawn`, `SpendingStops`,
`LedgerAlwaysBalances`.
Every operation is `Safe`: it changes one account within its limit
(`WithinLimit`), or changes a limit and leaves what was spent. Type correctness includes that no
column becomes negative, which is where the schema's check matters.

`LedgerBalances` compares the account with a sum over all runs, which `MapThenSumSet` folds
with a recursive function. The library's induction theorems cannot be used here, so the
induction is carried out by hand: `SmallestSet` says that among the sets of which a claim is
wrong there is one from which the fold's next run cannot be taken (by `WFMin` on the
sizes), `SumsExist` extends the function from sets of *n* runs to sets of *n* + 1, and
`SumsChange` says that a sum grows by what one run is given. From there the proof is one
lemma per operation: what its entry changes in the ledger (`RemainingClosed`,
`RemainingReserved`) is what it changes in the row. The invariant (`BalanceInv`) adds that no
entry closes what was not reserved (`ClosesAReserve`), or a reserve entry that comes late
would count for less than its points.

**AiRuns_proofs.** `AiTypeCorrect`, `RunsImplementQuota`, `RunsNeverOverdraw`,
`RunsKeepTheLedger`. The
refinement needs to know that an administrator who charges what was reserved
charges the points of the reserve entry, although the code reads them from the
run's row: `PointsLinked` says that a reserve entry has its run's points and that
an unborn run has none. `AiInv` is the type invariant with `PointsLinked`. Each
procedure is shown to keep rows (`RunsStep`) and entries (`Keeping`), so that only
admission and reservation can affect the link. `RunsNeverOverdraw` and
`RunsKeepTheLedger` then transfer the theorems about the account to the whole system.

`ConcurrencyIsGlobal` states `GlobalConcurrency`, which no run checks: it follows from
`ClaimRespectsLimit`, which one does.

**AiRunsSafety_proofs.** `RunsAreBacked`, `InterruptedRunsAreUnused`,
`RunsAreNotRunTwice`, `ExpiredRunsAreNotCompleted`, `StoppedRunsAreNotCharged`,
`AdmissionIsLimited`. None of these is inductive, because what a procedure does next
depends on its phase and what is true of the run is in its row. `SafeInv` says how they
fit together: `Life` relates a run's row to its preparation, execution and stop (an
execution begins only when the preparation is done; as long as the run is active its
owner is the execution's; whoever has called a provider has recorded that the run was
started, unless the row was deleted), `Backed` relates them to the ledger entries
(what a worker holds is reserved, and nothing but itself has closed the
reservation), `ClosedAfterReserve` and `DecisionsOnEnded` speak of the ledger and of
administrators. Every action works on one run, or on the clock; `SafeStep` collects what an
action does to the one, and the others do not change. `StoppedRunsAreNotCharged` goes
through the actions that settle a run; `AdmissionIsLimited` follows from the count that
admission makes under the user's lock, and from no other action making a run active.

**SystemRestart_proofs.** `RestartTypeCorrect`, `PublicationsImplementRegister`,
`RestartsAreOrdered`, `HealthyMeansReplaced`, `ExitsAreAwaited`, `HealthCanBeBelieved`. The inductive invariant
conjoins the type invariant with four facts that the properties rest on but do not
say: the draft is always the last revision (`DraftIsLast`, without which a publication could
append to something else); a process that does something about a request is up and knows
its operation, and a web process that leaves has written that itself in its present
session (`RequestsOK`); and no row and no target knows a session that has not begun
(`SessionsOK`). The proof goes by what an action may make of the *target at work*
(`AtWork`): every action that writes an operation touches only the first target that is not
healthy, keeps its session, and makes it healthy only as its successor; `OneTargetAtATime` and
`HealthyTargetsRunDesired` follow from this without looking at the actions again.
`MaxIsMember` shows from well-foundedness that the newest readable revision exists.
`HealthCanBeBelieved` needs to know that the revisions a process has loaded, or is
loading, are published (`HealthInv`), and that a published revision keeps its value
(`PublishedIsFinal`): a draft may change after a process has read it, so that a
process that could load one would be wrong about itself without taking a step.

**AccountMerge_proofs.** `MergeTypeCorrect`, `LocksAreExclusive`, `AccountsRemain`,
`TransferMovesLateWork`. The inductive invariant adds what an operation's row says in each
state (`OperationsOK`: its participants are its primary and its secondary account, and
differ), what an executor at work knows of its operation (`ExecutorsOK`), and
`LateWorkOK`: while an executor has decided, the active work of its accounts has this merge among
its `past`. That no such work was `barred` (`RequestsOK`) is what a request's check is for: it
finds the locks of every merge in force, as these hold both accounts until the merge ends
(`NothingInForce`), and it would be false without the check. That `SomeAccountRemains` is inductive needs the transfer's own check that both accounts are
still available: the new edge leads from an account that is merged nowhere to another
that is merged nowhere, so that no set that was left by an edge is closed by it.
`LocksAreExclusive` needs the locks' primary key at the confirmation and that every way
out of `InProgress` unlocks.

**ResumeEditor_proofs.** `EditorTypeCorrect`, `EditorImplementsRegister`, `CleanIsSaved`,
`UnsavedIsDrafted`, `NothingSavedIsLost`. The refinement has
to show that whoever replaces version *n* has seen version *n*. The server only checks
the number in the request, so the invariant has to follow `seen` through the tab, the
draft and every request: the version a tab, a draft or a request names is never later than
what its user has seen (`TabOK`, `DraftOK`, `RequestOK`), and the version the prompt has loaded
exists. An accepted request then names the current version, has seen at least that, and
cannot have seen more than exists.

`CleanIsSaved` and `UnsavedIsDrafted` have no hypothesis: they hold for any number of versions and
every order of answers. The two things the code does that break the plain sentences are named in
the properties themselves, as exceptions that the model records when they happen
(`renumbered`, `discarded`), and both are reached in the runs: TLC refutes either property without
its exception. The first ends when the document is edited or
replaced, the second when the draft is written again or the document is saved or replaced;
nothing else excuses a tab. `NothingSavedIsLost` is what remains of the first without an exception: what the editor
calls saved is in the version history, if not its last entry. The invariant (`EditorInv`) adds to `IInv`
that what a clean tab shows is stored at its version or a later one (`CleanOK`, in which a
renumbered tab loses only the version), what an answer under way says of the log (`AnswersOK`),
and that a tab whose debounce is not running has its draft, has discarded it, or shows a stored
version (`KeptOK`), the last because keeping local edits marks a clean tab dirty without
starting the debounce. `Carries` collects what an operation of the store that leaves the document
alone must keep for that.

**Only model-checked:** liveness (`UnfinishedExportEnds`, `EveryRunEnds`,
`EveryProcessConverges`, `EveryOperationEnds`, `EveryMergeEnds`, `EveryEditIsSaved`) and
anything with ENABLED, which the prover does not do. Every other property of a passing run is
stated by a theorem. The invariants
`SafeInv`, `PdfInv`, `HealthInv` and `EditorInv`, and `ClosesAReserve`, were checked by TLC on the runs' instances
before they were proved.

## 7. Disagreements between code and documents

One run ends in a counterexample to what the README of the repository says.

- `ai_purge` – `resolveAiAdminSettlement` first takes the run out of
  `settlement_pending` and then writes the ledger; a purge of the trashed resume
  in between deletes the run, and the ledger entry fails on its foreign key. The
  points stay reserved.

### Further disagreements

The following definitions are in the modules too, and TLC refutes each in a few steps
on an instance of one to three rows when it is made the property of a run. They are
not among the runs, which are kept for what holds.

- `CancelTakesEffect` (PdfExport): `cancelPdfExport` reads "queued"; a worker claims the
  job; the conditional update matches nothing; the request has no effect and reports
  none.
- `NoFlaggedJobWaits` (PdfExport): `cancelPdfExport` reads "running"; the lease
  expires, and a session that has read a lower limit requeues the job without
  having room for it; the update flags a *queued* job, which no claim selects. It
  occupies the queue until it is cancelled again or is force-expired.
  `UnfinishedExportEnds` excepts such a job.
- `RequesterLimit` (PdfExport): an administrator's retry inserts for the original
  requester without looking at their own limit.
- `PurgeWaitsForHolder` (PdfExport): moving a resume to the trash makes the result of
  *running* jobs expire too; cleanup then deletes the row under its worker; the purge no
  longer sees the job and deletes the resume while it is being rendered.
- `ReleasedOnce` (AiRuns): preparation releases the reservation and dies before it
  records the failure; recovery finds an expired run that was never started and
  releases the reservation again, at the expense of another run's (alone, the
  second release fails on `reserved_points >= 0`).
- `UsedIsNotReleased` (AiRuns): a run whose first rounds reported usage and whose next
  call is refused for its rate is released and costs nothing.
- `FailureIsPreserved` (AiRuns): the target status of a settlement comes from a read
  before the update; a run that failed in between is charged to "complete".
- `OnlyUncertainIsPending` (AiRuns): a run whose web process died before it reserved
  becomes `settlement_pending`; both decisions then throw, and its resume can never
  be purged.

The next ones are behaviours the models show and their properties are stated around.

- *Restart.* A web process whose transition throws waits for no further request, and a
  draining web target has no time-out: such an operation never ends, and no other can be
  created (the exception in `EveryOperationEnds`).
- *Merge.* A transfer checks neither its lease nor the deadline: a stalled executor may
  complete an operation that another has taken over or found late. A stalled executor
  whose transfer is refused terminates as *failed* an operation the other one has
  put back to *waiting*. The check that a user may request work and the insertion are
  separate transactions, so work can appear in an account while it is moved:
  `OnlyLateWorkMoves` says which, namely work that was inserted after the executor had
  looked, by a request that had asked before the accounts were locked or after the deadline. An operation that is created and never
  confirmed does not expire. Read alongside, not modelled: `deliverAccountMergeNotices`
  marks a notice as failed in the same transaction that claims it for its fifth
  attempt.
- *Editor.* Discarding a recovery draft after further edits deletes the draft of those
  edits too, although the conflict prompt says "Local edits remain in your browser draft."
  (`src/i18n/messages.ts:3266`): `UnsavedEditsAreDrafted` names this exception, and
  `editor_liveness` reaches it. Two callers that waited for one save start two saves of one
  version, of which the second is refused as a conflict with the first. A lost
  answer leads to a conflict with one's own save. A failed save is not repeated
  before the next edit, and keeping local edits over a version the editor already has
  starts no debounce. A draft older than the server's row is never offered, even if the
  row is newer only because it was published or trashed and restored. Edits made while a
  restore or a proposal is awaited are replaced by its answer, and a late answer to a
  summary change moves the editor's version back. It may also move it too far forward:
  while a restore that made version 2 is awaited, the user keeps local edits over it,
  saves them as version 3 and asks for a new summary; the restore's answer then puts
  version 2 back on the screen, and the answer to the summary makes the editor call it
  version 4 (`syncMetadataVersion` sets the number without a document). The editor says
  "saved", shows version 2, and the next save overwrites version 4 without a conflict.
  `CleanMeansSaved` names this exception, and `resume_editor` reaches it.

## 8. What is not modelled

Components without a module are listed in `PROJECT.json` with the reason: left for later
(section 9), I/O and data formats (rendering, providers, email), data
transformations (documents, templates, i18n), presentation. Within the modelled
components:

- in `PdfExport`: access tokens, bytes, the browser's memory and recycling, the
  heartbeat rows of processes, and that AI runs too defer a purge (there, a purge
  merely *may* happen);
- in `AiRuns`: messages and streaming checkpoints, tools and proposals, prompts
  and payload encryption, audit evidence, retraction of turns, the admission rate
  limit (any admission may be refused), keys of the user's own except that they
  reserve 0 points, the review executor, and that PDF jobs too defer a purge;
- lease recovery handles its batch row by row: the batch is one transaction, so
  the model allows more interleavings than the code, never fewer;
- in `PlatformConfig` and `SystemRestart`: field contents and validation, encryption (a
  revision is readable or not), audit entries, the administrator's preview, the health
  report, and the supervisor, which is the step that starts a process again;
- in `AccountMerge`: challenges and mails, the tables that are moved except for unfinished
  work and the identity, administrators (whom the policy refuses), and notices;
- in `ResumeEditor`: failures of the browser's storage, markdown drafts, validation errors,
  the server's normalisation of a document, equal contents in different objects, and a
  second tab, which would share the draft;
- database isolation is taken as it is: single statements see a consistent state,
  conditional updates re-evaluate their condition on the locked row.

## 9. Plan

In order of importance; each step ends with runs, mutants and, where it says so,
proofs.

1. *(done)* `PdfExport`, `AiQuota`, `AiRuns` with their runs; type correctness, the main
   safety invariants of the queue and the account, and the refinement, proved.
2. *(done)* `AccountMerge`: operations, executor leases, the locks of both accounts, and
   requests for new work meanwhile; its safety proved.
3. *(done)* `ResumeEditor`: editor store, autosave and the repository's versions, with
   `VersionedRegister` as the abstract specification; the refinement proved.
4. *(done)* `PlatformConfig` and `SystemRestart`: publication and rollback of revisions,
   notification, polling and restart-only values; the sequence of targets over them, with
   processes that die in each state; their safety proved.
5. `AiReview`: the second kind of run, implementing `AiQuota` like the first, and
   proposals with their hashes.
6. `Invitations` with registration, `AdminSetup`, `MfaReset`, `ResumeAssets`; the worker's
   instance lock with the database session behind it.
7. PDF jobs, AI runs and images under one purge of a resume.
8. *(done)* Proofs of every action property and of every invariant.
9. *(done)* Runs of `ResumeEditor` in which edits and changes go on after a save was accepted, and
   the properties of its tab without hypotheses.

------------------------- MODULE AiRunsSafety_proofs -------------------------
(* Theorems about the life of a run, for every value of the constants: how   *)
(* its row, the phases of its procedures and its ledger entries fit together *)
(* whatever is interleaved, crashes or expires, and what follows from that   *)
(* for admission, execution, stopping and recovery.                          *)
EXTENDS AiRuns_proofs, FiniteSetTheorems

-----------------------------------------------------------------------------
(* The inductive invariant                                                 *)

\* The worker has begun to call providers.
Called == {"calling", "unbilled", "released", "recording"}

\* A worker may come to hold the row, or holds it.
Held(a) == a.status \in {"queued", "streaming"} \/ a.owner # NoWorker

Unclosed(e) == e.settlements = 0 /\ e.releases = 0

\* The row of a run, its preparation p, its execution x and its stop s.
Life(a, p, x, s) ==
    /\ a.status = "unborn" => p = "none" /\ x.phase = "none" /\ s = "none"
    /\ s # "none" => a.status \notin ActiveStatuses
    \* before the run is claimed
    /\ p \in Preparing \cup {"none"} => x.phase = "none"
    /\ a.status = "queued" => p = "done" /\ x.phase = "none"
    /\ x.phase = "none" => a.owner = NoWorker /\ a.status # "streaming" /\ ~x.used
    \* and after
    /\ x.phase # "none" => x.owner # NoWorker
    /\ x.phase # "none" /\ a.status \in ActiveStatuses => a.owner = x.owner
    /\ a.owner # NoWorker => a.status \in {"preparing", "streaming"}
    \* what has been used
    /\ a.status = "streaming" => a.started
    /\ a.started => x.phase \notin {"none", "claimed"}
    /\ x.used \/ x.phase \in Called => a.started \/ a.status = "deleted"
    /\ a.status = "interrupted" => ~x.used /\ x.phase \notin Called

\* The row, its preparation, its execution and its ledger entries e.
Backed(a, p, x, e) ==
    /\ p \in {"none", "admitted"} => ~e.reserve
    /\ p = "reserved" /\ InPreparation(a) => e.reserve /\ Unclosed(e)
    /\ Held(a) =>
         /\ e.reserve /\ e.settlements = 0
         /\ e.releases > 0 => a.started /\ x.phase \in {"released", "ended"}

Sound(n) ==
    /\ Life(run[n], prep[n], exec[n], stopper[n])
    /\ Backed(run[n], prep[n], exec[n], ledger[UserOf(n)][n])

\* No entry closes what was not reserved.
ClosedAfterReserve ==
    \A u \in Users, n \in Runs : ledger[u][n].reserve \/ Unclosed(ledger[u][n])

\* A decision is about a run that exists or existed; once it has claimed the
\* run, the run is no longer active.
DecisionsOnEnded ==
    \A c \in resolving :
        /\ run[c.run].status # "unborn"
        /\ c.closing => run[c.run].status \notin ActiveStatuses

SafeInv ==
    /\ AiInv /\ ClosedAfterReserve /\ DecisionsOnEnded
    /\ \A n \in Runs : Sound(n)

-----------------------------------------------------------------------------
(* A step at one run                                                       *)

\* What no step does to a row a, its execution x and their next values b and y:
\* bring back a run that has ended, begin a second execution, or complete a run
\* that is neither the live lease's nor waiting for an administrator.
Onward(a, b, x, y) ==
    /\ a.status \notin ActiveStatuses \cup {"unborn"} => b.status \notin ActiveStatuses
    /\ x.phase # "none" /\ y.phase = "claimed" => x.phase = "claimed"
    /\ a.status # "complete" /\ b.status = "complete" =>
         \/ a.lease = "live" /\ y.phase = "ended"
         \/ a.status = "settlement_pending"

SafeStep ==
    \A n \in Runs : Sound(n)' /\ Onward(run[n], run'[n], exec[n], exec'[n])

\* Only run n takes a step.
Becomes(n, b, q, y, t) ==
    \A m \in Runs :
      /\ run'[m] = IF m = n THEN b ELSE run[m]
      /\ prep'[m] = IF m = n THEN q ELSE prep[m]
      /\ exec'[m] = IF m = n THEN y ELSE exec[m]
      /\ stopper'[m] = IF m = n THEN t ELSE stopper[m]

OnlyEntriesOf(n) ==
    \A u \in Users, m \in Runs : m # n => ledger'[u][m] = ledger[u][m]

\* The parts of the invariant that the steps of run n need.
LEMMA SafeParts ==
    ASSUME RunConstants, SafeInv, NEW n \in Runs
    PROVE  /\ QuotaTypeOK /\ PointsLinked /\ run \in [Runs -> Run]
           /\ prep \in [Runs -> Preparing \cup {"none", "done"}]
           /\ exec \in [Runs -> Execution]
           /\ stopper \in [Runs -> {"none", "releasing", "closing"}]
           /\ resolving \subseteq Resolution
           /\ UserOf(n) \in Users /\ ledger[UserOf(n)][n] \in Entries
           /\ Life(run[n], prep[n], exec[n], stopper[n])
           /\ Backed(run[n], prep[n], exec[n], ledger[UserOf(n)][n])
<1>1. /\ QuotaTypeOK /\ PointsLinked /\ run \in [Runs -> Run]
      /\ prep \in [Runs -> Preparing \cup {"none", "done"}]
      /\ exec \in [Runs -> Execution]
      /\ stopper \in [Runs -> {"none", "releasing", "closing"}]
      /\ resolving \subseteq Resolution
  BY DEF SafeInv, AiInv, TypeOK
<1>2. UserOf(n) \in Users
  BY <1>1, OwnerIsUser
<1>3. ledger[UserOf(n)][n] \in Entries
  BY <1>1, <1>2 DEF QuotaTypeOK
<1>4. Sound(n)
  BY DEF SafeInv
<1> QED BY <1>1, <1>2, <1>3, <1>4 DEF Sound

\* A step of a run that keeps its resume, its life and its backing is safe.
LEMMA RunSafe ==
    ASSUME RunConstants, SafeInv, NEW n \in Runs,
           NEW b, NEW q, NEW y, NEW t, Becomes(n, b, q, y, t), OnlyEntriesOf(n),
           b.resume = run[n].resume, Life(b, q, y, t),
           Backed(b, q, y, ledger'[UserOf(n)][n]), Onward(run[n], b, exec[n], y)
    PROVE  SafeStep
<1>1. ASSUME NEW m \in Runs
      PROVE  Sound(m)' /\ Onward(run[m], run'[m], exec[m], exec'[m])
  <2>1. CASE m = n
    <3>1. /\ run'[m] = b /\ prep'[m] = q /\ exec'[m] = y /\ stopper'[m] = t
      BY <2>1 DEF Becomes
    <3>2. UserOf(m)' = UserOf(n)
      BY <2>1, <3>1 DEF UserOf
    <3> QED BY <2>1, <3>1, <3>2 DEF Sound
  <2>2. CASE m # n
    <3>1. /\ run'[m] = run[m] /\ prep'[m] = prep[m] /\ exec'[m] = exec[m]
          /\ stopper'[m] = stopper[m]
      BY <2>2 DEF Becomes
    <3>2. UserOf(m)' = UserOf(m) /\ UserOf(m) \in Users
      BY <3>1, SafeParts DEF UserOf
    <3>3. ledger'[UserOf(m)][m] = ledger[UserOf(m)][m]
      BY <2>2, <3>2 DEF OnlyEntriesOf
    <3>4. Sound(m)
      BY DEF SafeInv
    <3>5. Onward(run[m], run[m], exec[m], exec[m])
      BY DEF Onward
    <3> QED BY <3>1, <3>2, <3>3, <3>4, <3>5 DEF Sound
  <2> QED BY <2>1, <2>2
<1> QED BY <1>1 DEF SafeStep

\* So is one that leaves the ledger alone.
LEMMA RunSafeNoLedger ==
    ASSUME RunConstants, SafeInv, NEW n \in Runs,
           NEW b, NEW q, NEW y, NEW t, Becomes(n, b, q, y, t), UNCHANGED ledger,
           b.resume = run[n].resume, Life(b, q, y, t),
           Backed(b, q, y, ledger[UserOf(n)][n]), Onward(run[n], b, exec[n], y)
    PROVE  SafeStep
<1>1. OnlyEntriesOf(n)
  BY DEF OnlyEntriesOf
<1> QED BY <1>1, RunSafe

\* The fields of an ended row.
LEMMA EndedFields ==
    ASSUME NEW a \in Run, NEW st, NEW f, NEW b, b = Ended(a, st, f)
    PROVE  /\ b.status = st /\ b.failure = f /\ b.owner = NoWorker /\ b.lease = "none"
           /\ b.resume = a.resume /\ b.started = a.started /\ b.stop = a.stop
BY DEF Ended, Run

-----------------------------------------------------------------------------
(* Preparation                                                             *)

\* A step of the preparation that changes only its phase.
LEMMA PrepareOnly ==
    ASSUME RunConstants, SafeInv, NEW n \in Runs, NEW q, PrepareTo(n, q),
           UNCHANGED <<run, exec, stopper>>
    PROVE  Becomes(n, run[n], q, exec[n], stopper[n])
BY SafeParts DEF PrepareTo, Becomes

\* A release leaves the other runs' entries alone and keeps the settlements.
LEMMA ReleaseEntries ==
    ASSUME QuotaTypeOK, NEW u \in Users, NEW n \in Runs,
           Release(u, n) \/ ReleaseUnused(u, n) \/ UNCHANGED quotaVars
    PROVE  /\ OnlyEntriesOf(n)
           /\ ledger'[u][n].reserve = ledger[u][n].reserve
           /\ ledger'[u][n].settlements = ledger[u][n].settlements
<1>1. CASE UNCHANGED quotaVars
  BY <1>1 DEF quotaVars, OnlyEntriesOf
<1>2. CASE AddRelease(u, n)
  <2>1. PICK d : d = [ledger[u][n] EXCEPT !.releases = @ + 1]
    OBVIOUS
  <2>2. d.reserve = ledger[u][n].reserve /\ d.settlements = ledger[u][n].settlements
    BY <2>1 DEF QuotaTypeOK, Entries
  <2>3. ledger' = [ledger EXCEPT ![u][n] = d]
    BY <1>2, <2>1 DEF AddRelease, Write
  <2> QED BY <2>2, <2>3 DEF QuotaTypeOK, OnlyEntriesOf
<1> QED BY <1>1, <1>2 DEF Release, ReleaseUnused

\* A settlement leaves the other runs' entries alone and keeps the reservation.
LEMMA SettleEntries ==
    ASSUME QuotaTypeOK, NEW u \in Users, NEW n \in Runs, NEW c, Settle(u, n, c)
    PROVE  OnlyEntriesOf(n) /\ ledger'[u][n].reserve = ledger[u][n].reserve
<1>1. CASE ledger[u][n].settlements > 0
  BY <1>1 DEF Settle, quotaVars, OnlyEntriesOf
<1>2. CASE ~(ledger[u][n].settlements > 0)
  <2>1. PICK d : d = [ledger[u][n] EXCEPT !.settlements = @ + 1]
    OBVIOUS
  <2>2. d.reserve = ledger[u][n].reserve
    BY <2>1 DEF QuotaTypeOK, Entries
  <2>3. ledger' = [ledger EXCEPT ![u][n] = d]
    BY <1>2, <2>1 DEF Settle, Write
  <2> QED BY <2>2, <2>3 DEF QuotaTypeOK, OnlyEntriesOf
<1> QED BY <1>1, <1>2

\* Backing is kept where nobody holds or may enqueue the row.
LEMMA BackedIdle ==
    ASSUME NEW a, NEW p, NEW x, NEW e, NEW b, NEW q, NEW y, NEW d,
           Backed(a, p, x, e), d.reserve = e.reserve, ~Held(b),
           q \in {"none", "admitted"} => q = p,
           q = "reserved" => ~InPreparation(b)
    PROVE  Backed(b, q, y, d)
BY DEF Backed

\* While a run is being prepared, no worker holds it.
LEMMA PreparingIsNotHeld ==
    ASSUME NEW a, NEW p, NEW x, NEW s, Life(a, p, x, s), p \in Preparing \cup {"none"}
    PROVE  ~Held(a) /\ x.phase = "none"
BY DEF Life, Held, Preparing

\* The steps of a preparation that change nothing but its phase.
LEMMA PreparePhaseSafe ==
    ASSUME RunConstants, SafeInv, NEW n \in Runs, prep[n] \in Preparing,
           NEW q \in {"undoing", "failing", "done"}, PrepareTo(n, q),
           UNCHANGED <<run, exec, stopper>>, OnlyEntriesOf(n),
           ledger'[UserOf(n)][n].reserve = ledger[UserOf(n)][n].reserve
    PROVE  SafeStep
<1>1. /\ Life(run[n], prep[n], exec[n], stopper[n])
      /\ Backed(run[n], prep[n], exec[n], ledger[UserOf(n)][n])
  BY SafeParts
<1>2. ~Held(run[n]) /\ exec[n].phase = "none"
  BY <1>1, PreparingIsNotHeld
<1>3. Backed(run[n], q, exec[n], ledger'[UserOf(n)][n])
  BY <1>1, <1>2, BackedIdle
<1>4. Life(run[n], q, exec[n], stopper[n])
  BY <1>1, <1>2 DEF Life, Preparing, Held
<1>5. Onward(run[n], run[n], exec[n], exec[n])
  BY DEF Onward
<1>6. Becomes(n, run[n], q, exec[n], stopper[n])
  BY PrepareOnly
<1> QED BY <1>3, <1>4, <1>5, <1>6, RunSafe

\* A reservation opens the entry of the run.
LEMMA ReserveSafeStep ==
    ASSUME RunConstants, SafeInv, NEW n \in Runs, ReserveQuota(n)
    PROVE  SafeStep
<1> DEFINE u == UserOf(n)
           e == ledger[u][n]
<1>1. /\ QuotaTypeOK /\ u \in Users /\ e \in Entries
      /\ Life(run[n], prep[n], exec[n], stopper[n])
      /\ Backed(run[n], prep[n], exec[n], e)
  BY SafeParts
<1>2. /\ prep[n] = "admitted" /\ Reserve(u, n, run[n].points)
      /\ PrepareTo(n, "reserved") /\ UNCHANGED <<run, exec, stopper>>
  BY DEF ReserveQuota
<1>3. ~e.reserve
  BY <1>1, <1>2 DEF Backed
<1>4. Unclosed(e)
  BY <1>1, <1>3 DEF SafeInv, ClosedAfterReserve
<1>5. ~Held(run[n]) /\ exec[n].phase = "none"
  BY <1>1, <1>2, PreparingIsNotHeld DEF Preparing
<1>6. PICK d : d = [e EXCEPT !.reserve = TRUE, !.points = run[n].points]
  OBVIOUS
<1>7. d.reserve /\ Unclosed(d)
  BY <1>1, <1>4, <1>6 DEF Entries, Unclosed
<1>8. ledger' = [ledger EXCEPT ![u][n] = d]
  BY <1>2, <1>3, <1>6 DEF Reserve, Write
<1>9. OnlyEntriesOf(n) /\ ledger'[u][n] = d
  BY <1>1, <1>8 DEF OnlyEntriesOf, QuotaTypeOK
<1>10. Backed(run[n], "reserved", exec[n], ledger'[u][n])
  BY <1>5, <1>7, <1>9 DEF Backed
<1>11. Life(run[n], "reserved", exec[n], stopper[n])
  BY <1>1, <1>2, <1>5 DEF Life, Preparing, Held
<1>12. Onward(run[n], run[n], exec[n], exec[n])
  BY DEF Onward
<1>13. Becomes(n, run[n], "reserved", exec[n], stopper[n])
  BY <1>2, PrepareOnly
<1> QED BY <1>9, <1>10, <1>11, <1>12, <1>13, RunSafe

\* Only a run whose entry is open is enqueued.
LEMMA EnqueueSafe ==
    ASSUME RunConstants, SafeInv, NEW n \in Runs, EnqueueRun(n)
    PROVE  SafeStep
<1>1. /\ run \in [Runs -> Run] /\ prep \in [Runs -> Preparing \cup {"none", "done"}]
      /\ Life(run[n], prep[n], exec[n], stopper[n])
      /\ Backed(run[n], prep[n], exec[n], ledger[UserOf(n)][n])
  BY SafeParts
<1>2. prep[n] = "reserved" /\ UNCHANGED <<exec, stopper, quotaVars>>
  BY DEF EnqueueRun
<1>3. UNCHANGED ledger
  BY <1>2 DEF quotaVars
<1>4. CASE InPreparation(run[n])
  <2>1. PICK b : b = [run[n] EXCEPT !.status = "queued", !.lease = "none"]
    OBVIOUS
  <2>2. /\ b.status = "queued" /\ b.owner = run[n].owner
        /\ b.resume = run[n].resume /\ b.started = run[n].started
    BY <1>1, <2>1 DEF Run
  <2>3. /\ run[n].status = "preparing" /\ exec[n].phase = "none"
        /\ ledger[UserOf(n)][n].reserve /\ Unclosed(ledger[UserOf(n)][n])
    BY <1>1, <1>2, <1>4, PreparingIsNotHeld DEF Backed, InPreparation, Preparing
  <2>4. Life(b, "done", exec[n], stopper[n])
    BY <1>1, <2>2, <2>3 DEF Life, Preparing, ActiveStatuses, Called
  <2>5. Backed(b, "done", exec[n], ledger[UserOf(n)][n])
    BY <2>2, <2>3 DEF Backed, Unclosed
  <2>6. Onward(run[n], b, exec[n], exec[n])
    BY <2>2, <2>3 DEF Onward, ActiveStatuses
  <2>7. run' = [run EXCEPT ![n] = b] /\ prep' = [prep EXCEPT ![n] = "done"]
    BY <1>4, <2>1 DEF EnqueueRun, Update, PrepareTo
  <2>8. Becomes(n, b, "done", exec[n], stopper[n])
    BY <1>1, <1>2, <2>7 DEF Becomes
  <2> QED BY <1>3, <2>2, <2>4, <2>5, <2>6, <2>8, RunSafeNoLedger
<1>5. CASE ~InPreparation(run[n])
  <2>1. UNCHANGED run /\ PrepareTo(n, "undoing")
    BY <1>5 DEF EnqueueRun
  <2>2. OnlyEntriesOf(n)
    BY <1>3 DEF OnlyEntriesOf
  <2> QED BY <1>2, <1>3, <2>1, <2>2, PreparePhaseSafe DEF Preparing
<1> QED BY <1>4, <1>5

\* A run whose preparation failed ends before any worker saw it.
LEMMA PreflightFailureSafe ==
    ASSUME RunConstants, SafeInv, NEW n \in Runs, RecordPreflightFailure(n)
    PROVE  SafeStep
<1>1. /\ run \in [Runs -> Run] /\ prep \in [Runs -> Preparing \cup {"none", "done"}]
      /\ Life(run[n], prep[n], exec[n], stopper[n])
      /\ Backed(run[n], prep[n], exec[n], ledger[UserOf(n)][n])
  BY SafeParts
<1>2. prep[n] = "failing" /\ UNCHANGED <<exec, stopper, quotaVars>>
  BY DEF RecordPreflightFailure
<1>3. UNCHANGED ledger
  BY <1>2 DEF quotaVars
<1>4. CASE InPreparation(run[n])
  <2>1. PICK b : b = Ended(run[n], "failed", "preflight_failed")
    OBVIOUS
  <2>2. /\ b.status = "failed" /\ b.owner = NoWorker
        /\ b.resume = run[n].resume /\ b.started = run[n].started
    BY <1>1, <2>1, EndedFields
  <2>3. run[n].status = "preparing" /\ exec[n].phase = "none"
    BY <1>1, <1>2, <1>4, PreparingIsNotHeld DEF InPreparation, Preparing
  <2>4. Life(b, "done", exec[n], stopper[n])
    BY <1>1, <2>2, <2>3 DEF Life, Preparing, ActiveStatuses, Called
  <2>5. Backed(b, "done", exec[n], ledger[UserOf(n)][n])
    BY <1>1, <2>2, BackedIdle DEF Held
  <2>6. Onward(run[n], b, exec[n], exec[n])
    BY <2>2, <2>3 DEF Onward, ActiveStatuses
  <2>7. run' = [run EXCEPT ![n] = b] /\ prep' = [prep EXCEPT ![n] = "done"]
    BY <1>4, <2>1 DEF RecordPreflightFailure, Update, PrepareTo
  <2>8. Becomes(n, b, "done", exec[n], stopper[n])
    BY <1>1, <1>2, <2>7 DEF Becomes
  <2> QED BY <1>3, <2>2, <2>4, <2>5, <2>6, <2>8, RunSafeNoLedger
<1>5. CASE ~InPreparation(run[n])
  <2>1. UNCHANGED run /\ PrepareTo(n, "done")
    BY <1>1, <1>5 DEF RecordPreflightFailure, Update
  <2>2. OnlyEntriesOf(n)
    BY <1>3 DEF OnlyEntriesOf
  <2> QED BY <1>2, <1>3, <2>1, <2>2, PreparePhaseSafe DEF Preparing
<1> QED BY <1>4, <1>5

\* Every step of a preparation is safe.
LEMMA PrepareSafe ==
    ASSUME RunConstants, SafeInv, NEW n \in Runs, Prepare(n)
    PROVE  SafeStep
<1>1. ASSUME RefuseQuota(n) \/ FailPreparation(n) \/ AbandonPreparation(n)
      PROVE  SafeStep
  <2>1. UNCHANGED <<run, exec, stopper>> /\ UNCHANGED ledger
    BY <1>1 DEF RefuseQuota, FailPreparation, AbandonPreparation, quotaVars
  <2>2. prep[n] \in Preparing
    BY <1>1 DEF RefuseQuota, FailPreparation, AbandonPreparation, Preparing
  <2>3. \E q \in {"undoing", "failing", "done"} : PrepareTo(n, q)
    BY <1>1 DEF RefuseQuota, FailPreparation, AbandonPreparation
  <2>4. OnlyEntriesOf(n)
    BY <2>1 DEF OnlyEntriesOf
  <2> QED BY <2>1, <2>2, <2>3, <2>4, PreparePhaseSafe
<1>2. ASSUME UndoReservation(n) PROVE SafeStep
  <2>1. /\ Release(UserOf(n), n) \/ UNCHANGED quotaVars
        /\ prep[n] \in Preparing /\ PrepareTo(n, "failing")
        /\ UNCHANGED <<run, exec, stopper>>
    BY <1>2 DEF UndoReservation, ReleaseRun, ReleaseThrows, Preparing
  <2>2. /\ OnlyEntriesOf(n)
        /\ ledger'[UserOf(n)][n].reserve = ledger[UserOf(n)][n].reserve
    BY <2>1, SafeParts, ReleaseEntries
  <2> QED BY <2>1, <2>2, PreparePhaseSafe
<1> QED BY <1>1, <1>2, ReserveSafeStep, EnqueueSafe, PreflightFailureSafe DEF Prepare

-----------------------------------------------------------------------------
(* Execution                                                               *)

\* The fields of an execution that moves to another phase.
LEMMA ExecutionAt ==
    ASSUME NEW x \in Execution, NEW p, NEW y, y = [x EXCEPT !.phase = p]
    PROVE  y.phase = p /\ y.used = x.used /\ y.owner = x.owner /\ y.code = x.code
BY DEF Execution

\* A step of an execution that changes at most the row and the execution.
LEMMA ExecuteOnly ==
    ASSUME RunConstants, SafeInv, NEW n \in Runs, NEW b, Update(n, b),
           NEW y, exec' = [exec EXCEPT ![n] = y], UNCHANGED <<prep, stopper>>
    PROVE  Becomes(n, b, prep[n], y, stopper[n])
BY SafeParts DEF Update, Becomes

\* A row that is not touched is updated to itself.
LEMMA SameRow ==
    ASSUME run \in [Runs -> Run], NEW n \in Runs, UNCHANGED run
    PROVE  Update(n, run[n])
BY DEF Update

\* An execution that has begun may take any later phase, if what it called for
\* was started, and must be over if it is not to be called for.
LEMMA ExecutePhaseSafe ==
    ASSUME RunConstants, SafeInv, NEW n \in Runs, exec[n].phase \in Executing,
           UNCHANGED <<run, prep, stopper>>, NEW y, exec' = [exec EXCEPT ![n] = y],
           y.phase \in Called \cup {"ended"}, y.owner = exec[n].owner,
           y.used \/ y.phase \in Called => exec[n].phase \in Called \/ exec[n].used,
           OnlyEntriesOf(n),
           ledger'[UserOf(n)][n].reserve = ledger[UserOf(n)][n].reserve,
           ledger'[UserOf(n)][n].settlements = ledger[UserOf(n)][n].settlements,
           \/ ledger'[UserOf(n)][n].releases > 0 =>
                exec[n].phase \in Called /\ y.phase \in {"released", "ended"}
           \/ /\ ledger'[UserOf(n)][n].releases = ledger[UserOf(n)][n].releases
              /\ exec[n].phase = "released" => y.phase = "ended"
    PROVE  SafeStep
<1>1. /\ run \in [Runs -> Run] /\ exec[n] \in Execution
      /\ Life(run[n], prep[n], exec[n], stopper[n])
      /\ Backed(run[n], prep[n], exec[n], ledger[UserOf(n)][n])
  BY SafeParts
<1>2. exec[n].phase \notin {"none", "ended"} /\ y.phase \notin {"none", "claimed"}
  BY DEF Executing, Called
<1>3. Life(run[n], prep[n], y, stopper[n])
  BY <1>1, <1>2 DEF Life
<1>4. prep[n] \notin Preparing \cup {"none"}
  BY <1>1, <1>2 DEF Life
<1>5. ASSUME Held(run[n]), exec[n].phase \in Called PROVE run[n].started
  BY <1>1, <1>5 DEF Life, Held
<1>6. ASSUME Held(run[n]) PROVE ledger[UserOf(n)][n].releases > 0 =>
        run[n].started /\ exec[n].phase = "released"
  BY <1>1, <1>2, <1>6 DEF Backed
<1>7. Backed(run[n], prep[n], y, ledger'[UserOf(n)][n])
  BY <1>1, <1>4, <1>5, <1>6 DEF Backed, Preparing
<1>8. Onward(run[n], run[n], exec[n], y)
  BY <1>2 DEF Onward
<1>9. Becomes(n, run[n], prep[n], y, stopper[n])
  BY <1>1, SameRow, ExecuteOnly
<1> QED BY <1>3, <1>7, <1>8, <1>9, RunSafe

\* So may one that leaves the ledger alone.
LEMMA ExecuteNoLedger ==
    ASSUME RunConstants, SafeInv, NEW n \in Runs, exec[n].phase \in Executing,
           UNCHANGED <<run, prep, stopper, quotaVars>>,
           NEW y, exec' = [exec EXCEPT ![n] = y],
           y.phase \in Called \cup {"ended"}, y.owner = exec[n].owner,
           y.used \/ y.phase \in Called => exec[n].phase \in Called \/ exec[n].used,
           exec[n].phase = "released" => y.phase = "ended"
    PROVE  SafeStep
<1>1. UNCHANGED ledger /\ OnlyEntriesOf(n)
  BY DEF quotaVars, OnlyEntriesOf
<1> QED BY <1>1, ExecutePhaseSafe

\* Ending an execution is safe.
LEMMA EndExecutionSafe ==
    ASSUME RunConstants, SafeInv, NEW n \in Runs, exec[n].phase \in Executing,
           UNCHANGED <<run, prep, stopper, quotaVars>>, ExecuteTo(n, "ended")
    PROVE  SafeStep
<1>1. exec[n] \in Execution
  BY SafeParts
<1>2. PICK y : y = [exec[n] EXCEPT !.phase = "ended"]
  OBVIOUS
<1>3. y.phase = "ended" /\ y.used = exec[n].used /\ y.owner = exec[n].owner
  BY <1>1, <1>2, ExecutionAt
<1>4. exec' = [exec EXCEPT ![n] = y]
  BY <1>2 DEF ExecuteTo
<1> QED BY <1>3, <1>4, ExecuteNoLedger DEF Called

\* The claim of a queued run, which was not executed before.
LEMMA ClaimSafe ==
    ASSUME RunConstants, SafeInv, NEW w \in Workers, ClaimQueuedAiRun(w)
    PROVE  SafeStep
<1>1. PICK n \in Runs :
        /\ Claimable(n)
        /\ Update(n, [run[n] EXCEPT !.status = "preparing", !.owner = w,
                                    !.lease = "live"])
        /\ exec' = [exec EXCEPT ![n] = [phase |-> "claimed", used |-> FALSE,
                                        owner |-> w, code |-> "none"]]
  BY DEF ClaimQueuedAiRun
<1>2. UNCHANGED <<prep, stopper>> /\ UNCHANGED ledger
  BY DEF ClaimQueuedAiRun, quotaVars
<1>3. /\ run \in [Runs -> Run] /\ ledger[UserOf(n)][n] \in Entries
      /\ Life(run[n], prep[n], exec[n], stopper[n])
      /\ Backed(run[n], prep[n], exec[n], ledger[UserOf(n)][n])
  BY SafeParts
<1>4. PICK b : b = [run[n] EXCEPT !.status = "preparing", !.owner = w,
                                  !.lease = "live"]
  OBVIOUS
<1>5. PICK y : y = [phase |-> "claimed", used |-> FALSE, owner |-> w, code |-> "none"]
  OBVIOUS
<1>6. /\ b.status = "preparing" /\ b.owner = w /\ b.resume = run[n].resume
      /\ b.started = run[n].started
  BY <1>3, <1>4 DEF Run
<1>7. y.phase = "claimed" /\ ~y.used /\ y.owner = w /\ w # NoWorker
  BY <1>5 DEF RunConstants
<1>8. run[n].status = "queued"
  BY <1>1 DEF Claimable
<1>9. prep[n] = "done" /\ exec[n].phase = "none" /\ ~run[n].started
      /\ stopper[n] = "none"
  BY <1>3, <1>8 DEF Life, ActiveStatuses
<1>10. Life(b, prep[n], y, stopper[n])
  BY <1>6, <1>7, <1>9 DEF Life, ActiveStatuses, Called, Preparing
<1>11. /\ ledger[UserOf(n)][n].reserve /\ ledger[UserOf(n)][n].settlements = 0
       /\ ~(ledger[UserOf(n)][n].releases > 0)
  BY <1>3, <1>8, <1>9 DEF Backed, Held
<1>12. Backed(b, prep[n], y, ledger[UserOf(n)][n])
  BY <1>9, <1>11 DEF Backed
<1>13. Onward(run[n], b, exec[n], y)
  BY <1>6, <1>8, <1>9 DEF Onward, ActiveStatuses
<1>14. Becomes(n, b, prep[n], y, stopper[n])
  BY <1>1, <1>2, <1>4, <1>5, ExecuteOnly
<1> QED BY <1>2, <1>6, <1>10, <1>12, <1>13, <1>14, RunSafeNoLedger

\* A run that its worker starts is held by it on an open entry.
LEMMA StartSafe ==
    ASSUME RunConstants, SafeInv, NEW n \in Runs, StartRun(n)
    PROVE  SafeStep
<1>1. /\ run \in [Runs -> Run] /\ exec[n] \in Execution
      /\ Life(run[n], prep[n], exec[n], stopper[n])
      /\ Backed(run[n], prep[n], exec[n], ledger[UserOf(n)][n])
  BY SafeParts
<1>2. exec[n].phase = "claimed" /\ UNCHANGED <<prep, stopper, quotaVars>>
  BY DEF StartRun
<1>3. CASE Owns(n, "preparing") /\ ~run[n].stop
  <2>1. PICK b : b = [run[n] EXCEPT !.status = "streaming", !.started = TRUE]
    OBVIOUS
  <2>2. /\ b.status = "streaming" /\ b.owner = run[n].owner
        /\ b.resume = run[n].resume /\ b.started
    BY <1>1, <2>1 DEF Run
  <2>3. PICK y : y = [exec[n] EXCEPT !.phase = "calling"]
    OBVIOUS
  <2>4. y.phase = "calling" /\ y.used = exec[n].used /\ y.owner = exec[n].owner
    BY <1>1, <2>3, ExecutionAt
  <2>5. run[n].status = "preparing" /\ run[n].owner = exec[n].owner
    BY <1>3 DEF Owns, Holds
  <2>6. exec[n].owner # NoWorker /\ stopper[n] = "none"
        /\ prep[n] \notin Preparing \cup {"none"}
    BY <1>1, <1>2, <2>5 DEF Life, ActiveStatuses
  <2>7. Life(b, prep[n], y, stopper[n])
    BY <1>1, <2>2, <2>4, <2>5, <2>6 DEF Life, ActiveStatuses, Called
  <2>8. Backed(b, prep[n], y, ledger[UserOf(n)][n])
    BY <1>1, <1>2, <2>5, <2>6 DEF Backed, Held, Preparing
  <2>9. Onward(run[n], b, exec[n], y)
    BY <2>2, <2>4, <2>5 DEF Onward, ActiveStatuses
  <2>10. Update(n, b) /\ exec' = [exec EXCEPT ![n] = y]
    BY <1>3, <2>1, <2>3 DEF StartRun, ExecuteTo
  <2>11. Becomes(n, b, prep[n], y, stopper[n])
    BY <1>2, <2>10, ExecuteOnly
  <2>12. UNCHANGED ledger
    BY <1>2 DEF quotaVars
  <2> QED BY <2>2, <2>7, <2>8, <2>9, <2>11, <2>12, RunSafeNoLedger
<1>4. CASE ~(Owns(n, "preparing") /\ ~run[n].stop)
  <2>1. UNCHANGED run /\ ExecuteTo(n, "ended")
    BY <1>4 DEF StartRun
  <2> QED BY <1>2, <2>1, EndExecutionSafe DEF Executing
<1> QED BY <1>3, <1>4

\* Reported usage and failed calls belong to a run that was started.
LEMMA CallingSafe ==
    ASSUME RunConstants, SafeInv, NEW n \in Runs
    PROVE  /\ ReportUsage(n) => SafeStep
           /\ \A code \in {"stopped", "failed"} : FailExecution(n, code) => SafeStep
<1>1. exec \in [Runs -> Execution] /\ exec[n] \in Execution
  BY SafeParts
<1>2. ASSUME ReportUsage(n) PROVE SafeStep
  <2>1. PICK y : y = [exec[n] EXCEPT !.used = TRUE]
    OBVIOUS
  <2>2. y.phase = exec[n].phase /\ y.owner = exec[n].owner
    BY <1>1, <2>1 DEF Execution
  <2>3. /\ exec[n].phase = "calling" /\ exec' = [exec EXCEPT ![n] = y]
        /\ UNCHANGED <<run, prep, stopper, quotaVars>>
    BY <1>2, <2>1 DEF ReportUsage
  <2> QED BY <2>2, <2>3, ExecuteNoLedger DEF Called, Executing
<1>3. ASSUME NEW code \in {"stopped", "failed"}, FailExecution(n, code)
      PROVE  SafeStep
  <2>1. PICK p \in {"unbilled", "recording"} :
          exec' = [exec EXCEPT ![n] = [exec[n] EXCEPT !.phase = p, !.code = code]]
    BY <1>3 DEF FailExecution
  <2>2. PICK y : y = [exec[n] EXCEPT !.phase = p, !.code = code]
    OBVIOUS
  <2>3. y.phase = p /\ y.owner = exec[n].owner
    BY <1>1, <2>2 DEF Execution
  <2>4. exec[n].phase = "calling" /\ UNCHANGED <<run, prep, stopper, quotaVars>>
    BY <1>3 DEF FailExecution
  <2>5. exec' = [exec EXCEPT ![n] = y]
    BY <2>1, <2>2
  <2> QED BY <2>3, <2>4, <2>5, ExecuteNoLedger DEF Called, Executing
<1> QED BY <1>2, <1>3

\* A step that ends an active run and frees its row is safe, if a run that
\* counts as unused was not started and a run that completes is the live lease's.
LEMMA EndRunSafe ==
    ASSUME RunConstants, SafeInv, NEW n \in Runs, run[n].status \in ActiveStatuses,
           NEW b, Update(n, b), b.status \in Statuses \ ActiveStatuses,
           b.owner = NoWorker, b.resume = run[n].resume, b.started = run[n].started,
           NEW y, exec' = [exec EXCEPT ![n] = y],
           y.used = exec[n].used, y.owner = exec[n].owner,
           y.phase = exec[n].phase \/ (y.phase = "ended" /\ exec[n].phase # "none"),
           NEW t, stopper' = [stopper EXCEPT ![n] = t], UNCHANGED prep,
           OnlyEntriesOf(n),
           ledger'[UserOf(n)][n].reserve = ledger[UserOf(n)][n].reserve,
           b.status = "interrupted" => ~run[n].started,
           b.status = "complete" => run[n].lease = "live" /\ y.phase = "ended"
    PROVE  SafeStep
<1>1. /\ run \in [Runs -> Run] /\ exec \in [Runs -> Execution]
      /\ stopper \in [Runs -> {"none", "releasing", "closing"}]
      /\ prep \in [Runs -> Preparing \cup {"none", "done"}]
      /\ Life(run[n], prep[n], exec[n], stopper[n])
      /\ Backed(run[n], prep[n], exec[n], ledger[UserOf(n)][n])
  BY SafeParts
<1>2. b.status \notin {"unborn", "deleted", "queued", "preparing", "streaming"}
      /\ b.status \notin ActiveStatuses
  BY DEF Statuses, ActiveStatuses
<1>3. Life(b, prep[n], y, t)
  BY <1>1, <1>2 DEF Life, ActiveStatuses, Called
<1>4. ~Held(b) /\ ~InPreparation(b)
  BY <1>2 DEF Held, InPreparation
<1>5. Backed(b, prep[n], y, ledger'[UserOf(n)][n])
  BY <1>1, <1>4, BackedIdle
<1>6. Onward(run[n], b, exec[n], y)
  BY <1>2 DEF Onward
<1>7. Becomes(n, b, prep[n], y, t)
  BY <1>1 DEF Becomes, Update
<1> QED BY <1>3, <1>5, <1>6, <1>7, RunSafe

\* A run is finalized under the lease of its worker only.
LEMMA FinalizeSafe ==
    ASSUME RunConstants, SafeInv, NEW n \in Runs, FinalizeOwnedAiRun(n)
    PROVE  SafeStep
<1>1. /\ QuotaTypeOK /\ UserOf(n) \in Users /\ run \in [Runs -> Run]
      /\ exec[n] \in Execution /\ stopper \in [Runs -> {"none", "releasing", "closing"}]
  BY SafeParts
<1>2. /\ exec[n].phase = "calling" /\ run[n].status = "streaming"
      /\ run[n].lease = "live"
  BY DEF FinalizeOwnedAiRun, MayFinalize, Owns, Holds
<1>3. PICK st \in {"complete", "settlement_pending"} : Update(n, Ended(run[n], st, "none"))
  BY DEF FinalizeOwnedAiRun
<1>4. PICK b : b = Ended(run[n], st, "none")
  OBVIOUS
<1>5. /\ b.status = st /\ b.owner = NoWorker
      /\ b.resume = run[n].resume /\ b.started = run[n].started
  BY <1>1, <1>4, EndedFields
<1>6. PICK y : y = [exec[n] EXCEPT !.phase = "ended"]
  OBVIOUS
<1>7. y.phase = "ended" /\ y.used = exec[n].used /\ y.owner = exec[n].owner
  BY <1>1, <1>6, ExecutionAt
<1>8. /\ exec' = [exec EXCEPT ![n] = y] /\ UNCHANGED <<prep, stopper>>
  BY <1>6 DEF FinalizeOwnedAiRun, ExecuteTo
<1>9. stopper' = [stopper EXCEPT ![n] = stopper[n]]
  BY <1>1, <1>8
<1>10. UNCHANGED quotaVars \/ \E actual \in Charges : Settle(UserOf(n), n, actual)
  BY DEF FinalizeOwnedAiRun, SettleRun
<1>11. /\ OnlyEntriesOf(n)
       /\ ledger'[UserOf(n)][n].reserve = ledger[UserOf(n)][n].reserve
  BY <1>1, <1>10, SettleEntries, ReleaseEntries
<1>12. b.status \in Statuses \ ActiveStatuses /\ run[n].status \in ActiveStatuses
  BY <1>2, <1>5 DEF Statuses, ActiveStatuses
<1>13. Update(n, b) /\ b.status # "interrupted" /\ exec[n].phase # "none"
  BY <1>2, <1>3, <1>4, <1>5
<1>14. /\ b.status = "interrupted" => ~run[n].started
       /\ b.status = "complete" => run[n].lease = "live" /\ y.phase = "ended"
       /\ y.phase = exec[n].phase \/ (y.phase = "ended" /\ exec[n].phase # "none")
  BY <1>2, <1>7, <1>13
<1>15. b.owner = NoWorker /\ b.resume = run[n].resume /\ b.started = run[n].started
  BY <1>5
<1>16. y.used = exec[n].used /\ y.owner = exec[n].owner
  BY <1>7
<1>17. exec' = [exec EXCEPT ![n] = y] /\ UNCHANGED prep
  BY <1>8
<1>18. Update(n, b)
  BY <1>13
<1> QED BY <1>9, <1>11, <1>12, <1>14, <1>15, <1>16, <1>17, <1>18, EndRunSafe

\* Releasing an unbilled run's reservation, or failing to, is safe.
LEMMA ReleaseUnbilledSafe ==
    ASSUME RunConstants, SafeInv, NEW n \in Runs, ReleaseUnbilled(n)
    PROVE  SafeStep
<1>1. QuotaTypeOK /\ UserOf(n) \in Users /\ exec[n] \in Execution
  BY SafeParts
<1>2. /\ exec[n].phase = "unbilled" /\ UNCHANGED <<run, prep, stopper>>
      /\ Release(UserOf(n), n) \/ UNCHANGED quotaVars
  BY DEF ReleaseUnbilled, ReleaseRun, ReleaseThrows
<1>3. PICK p \in {"released", "ended"} : ExecuteTo(n, p)
  BY DEF ReleaseUnbilled
<1>4. PICK y : y = [exec[n] EXCEPT !.phase = p]
  OBVIOUS
<1>5. y.phase = p /\ y.used = exec[n].used /\ y.owner = exec[n].owner
  BY <1>1, <1>4, ExecutionAt
<1>6. exec' = [exec EXCEPT ![n] = y]
  BY <1>3, <1>4 DEF ExecuteTo
<1>7. /\ OnlyEntriesOf(n)
      /\ ledger'[UserOf(n)][n].reserve = ledger[UserOf(n)][n].reserve
      /\ ledger'[UserOf(n)][n].settlements = ledger[UserOf(n)][n].settlements
  BY <1>1, <1>2, ReleaseEntries
<1> QED BY <1>2, <1>5, <1>6, <1>7, ExecutePhaseSafe DEF Executing, Called

\* The failure of a call is recorded in a row that is still the worker's.
LEMMA RecordFailureSafe ==
    ASSUME RunConstants, SafeInv, NEW n \in Runs, RecordFailure(n)
    PROVE  SafeStep
<1>1. /\ run \in [Runs -> Run] /\ exec[n] \in Execution
      /\ stopper \in [Runs -> {"none", "releasing", "closing"}]
  BY SafeParts
<1>2. /\ exec[n].phase \in {"released", "recording"} /\ ExecuteTo(n, "ended")
      /\ UNCHANGED <<prep, stopper, quotaVars>>
  BY DEF RecordFailure
<1>3. CASE Holds(n, "streaming")
  <2>1. PICK st \in {"failed", "settlement_pending"} : Update(n, Ended(run[n], st, exec[n].code))
    BY <1>3 DEF RecordFailure
  <2>2. PICK b : b = Ended(run[n], st, exec[n].code)
    OBVIOUS
  <2>3. /\ b.status = st /\ b.owner = NoWorker
        /\ b.resume = run[n].resume /\ b.started = run[n].started
    BY <1>1, <2>2, EndedFields
  <2>4. PICK y : y = [exec[n] EXCEPT !.phase = "ended"]
    OBVIOUS
  <2>5. y.phase = "ended" /\ y.used = exec[n].used /\ y.owner = exec[n].owner
    BY <1>1, <2>4, ExecutionAt
  <2>6. exec' = [exec EXCEPT ![n] = y] /\ stopper' = [stopper EXCEPT ![n] = stopper[n]]
    BY <1>1, <1>2, <2>4 DEF ExecuteTo
  <2>7. UNCHANGED ledger /\ OnlyEntriesOf(n)
    BY <1>2 DEF quotaVars, OnlyEntriesOf
  <2>8. b.status \in Statuses \ ActiveStatuses /\ run[n].status \in ActiveStatuses
    BY <1>3, <2>3 DEF Holds, Statuses, ActiveStatuses
  <2>9. Update(n, b)
    BY <2>1, <2>2
  <2> QED BY <1>2, <2>3, <2>5, <2>6, <2>7, <2>8, <2>9, EndRunSafe
<1>4. CASE ~Holds(n, "streaming")
  <2>1. UNCHANGED run
    BY <1>1, <1>4 DEF RecordFailure, Update
  <2> QED BY <1>2, <2>1, EndExecutionSafe DEF Executing
<1> QED BY <1>3, <1>4

\* Every step of an execution is safe.
LEMMA ExecuteSafe ==
    ASSUME RunConstants, SafeInv, NEW n \in Runs, Execute(n)
    PROVE  SafeStep
<1>1. ASSUME LoseRun(n) \/ AbandonExecution(n) PROVE SafeStep
  BY <1>1, EndExecutionSafe DEF LoseRun, AbandonExecution, Executing
<1> QED BY <1>1, StartSafe, FinalizeSafe, CallingSafe, ReleaseUnbilledSafe,
           RecordFailureSafe DEF Execute

-----------------------------------------------------------------------------
(* Recovery and stop                                                       *)

\* A lease that runs out changes nothing else.
LEMMA ExpireSafe ==
    ASSUME RunConstants, SafeInv, NEW n \in Runs, ExpireLease(n)
    PROVE  SafeStep
<1>1. /\ run \in [Runs -> Run] /\ exec \in [Runs -> Execution]
      /\ Life(run[n], prep[n], exec[n], stopper[n])
      /\ Backed(run[n], prep[n], exec[n], ledger[UserOf(n)][n])
  BY SafeParts
<1>2. PICK b : b = [run[n] EXCEPT !.lease = "expired"]
  OBVIOUS
<1>3. /\ b.status = run[n].status /\ b.owner = run[n].owner /\ b.stop = run[n].stop
      /\ b.resume = run[n].resume /\ b.started = run[n].started
  BY <1>1, <1>2 DEF Run
<1>4. Update(n, b) /\ UNCHANGED <<prep, exec, stopper>> /\ UNCHANGED ledger
  BY <1>2 DEF ExpireLease, quotaVars
<1>5. Life(b, prep[n], exec[n], stopper[n])
  BY <1>1, <1>3 DEF Life
<1>6. Backed(b, prep[n], exec[n], ledger[UserOf(n)][n])
  BY <1>1, <1>3 DEF Backed, Held, InPreparation
<1>7. Onward(run[n], b, exec[n], exec[n])
  BY <1>3 DEF Onward
<1>8. Becomes(n, b, prep[n], exec[n], stopper[n])
  BY <1>1, <1>4, ExecuteOnly
<1> QED BY <1>3, <1>4, <1>5, <1>6, <1>7, <1>8, RunSafeNoLedger

\* Recovery ends the run, and as unused only one that was never started.
LEMMA RecoverSafe ==
    ASSUME RunConstants, SafeInv, NEW n \in Runs, RecoverExpiredAiRun(n)
    PROVE  SafeStep
<1>1. /\ QuotaTypeOK /\ UserOf(n) \in Users /\ run \in [Runs -> Run]
      /\ exec \in [Runs -> Execution] /\ stopper \in [Runs -> {"none", "releasing", "closing"}]
  BY SafeParts
<1>2. PICK st \in {"interrupted", "settlement_pending"} :
        /\ Update(n, Ended(run[n], st, "lease_expired"))
        /\ st = "interrupted" => ~run[n].started
  BY DEF RecoverExpiredAiRun, ProvablyUnused
<1>3. PICK b : b = Ended(run[n], st, "lease_expired")
  OBVIOUS
<1>4. /\ b.status = st /\ b.owner = NoWorker
      /\ b.resume = run[n].resume /\ b.started = run[n].started
  BY <1>1, <1>3, EndedFields
<1>5. /\ UNCHANGED <<prep, exec, stopper>> /\ run[n].status \in ActiveStatuses
      /\ ReleaseUnused(UserOf(n), n) \/ UNCHANGED quotaVars
  BY DEF RecoverExpiredAiRun, ActiveStatuses
<1>6. /\ OnlyEntriesOf(n)
      /\ ledger'[UserOf(n)][n].reserve = ledger[UserOf(n)][n].reserve
  BY <1>1, <1>5, ReleaseEntries
<1>7. exec' = [exec EXCEPT ![n] = exec[n]] /\ stopper' = [stopper EXCEPT ![n] = stopper[n]]
  BY <1>1, <1>5
<1>8. b.status \in Statuses \ ActiveStatuses
  BY <1>4 DEF Statuses, ActiveStatuses
<1>9. Update(n, b)
  BY <1>2, <1>3
<1> QED BY <1>2, <1>4, <1>5, <1>6, <1>7, <1>8, <1>9, EndRunSafe

\* A stop ends the run.
LEMMA StopSafe ==
    ASSUME RunConstants, SafeInv, NEW n \in Runs, StopAiRun(n)
    PROVE  SafeStep
<1>1. /\ run \in [Runs -> Run] /\ exec \in [Runs -> Execution]
      /\ stopper \in [Runs -> {"none", "releasing", "closing"}]
  BY SafeParts
<1>2. PICK a : a = Ended(run[n], "settlement_pending", "stopped")
  OBVIOUS
<1>3. /\ UNCHANGED <<prep, exec>> /\ UNCHANGED ledger
      /\ run[n].status \in ActiveStatuses
  BY DEF StopAiRun, Active, quotaVars
<1>4. /\ a.status = "settlement_pending" /\ a.owner = NoWorker
      /\ a.resume = run[n].resume /\ a.started = run[n].started
  BY <1>1, <1>2, EndedFields
<1>5. a \in Run
  BY <1>1, <1>2, <1>3, EndedRun DEF Statuses, ActiveStatuses, Failures
<1>6. PICK b : b = [a EXCEPT !.stop = TRUE]
  OBVIOUS
<1>7. /\ b.status = "settlement_pending" /\ b.owner = NoWorker
      /\ b.resume = run[n].resume /\ b.started = run[n].started
  BY <1>4, <1>5, <1>6 DEF Run
<1>8. \E t : stopper' = [stopper EXCEPT ![n] = t]
  <2>1. CASE run[n].started
    BY <1>1, <2>1 DEF StopAiRun
  <2>2. CASE ~run[n].started
    BY <2>2 DEF StopAiRun, StopTo
  <2> QED BY <2>1, <2>2
<1>9. OnlyEntriesOf(n) /\ exec' = [exec EXCEPT ![n] = exec[n]]
  BY <1>1, <1>3 DEF OnlyEntriesOf
<1>10. b.status \in Statuses \ ActiveStatuses
  BY <1>7 DEF Statuses, ActiveStatuses
<1>11. Update(n, b)
  BY <1>2, <1>6 DEF StopAiRun
<1> QED BY <1>3, <1>7, <1>8, <1>9, <1>10, <1>11, EndRunSafe

\* A step of a procedure that closes a run no longer active is safe: nobody
\* holds the row, whatever it does to the entries that close the reservation.
LEMMA EndedRunSafe ==
    ASSUME RunConstants, SafeInv, NEW n \in Runs,
           run[n].status \notin ActiveStatuses, run[n].status # "unborn",
           NEW b, Update(n, b), b.status \notin ActiveStatuses, b.status # "unborn",
           b.owner = run[n].owner, b.resume = run[n].resume, b.started = run[n].started,
           run[n].status = "deleted" => b.status = "deleted",
           b.status = "interrupted" => run[n].status = "interrupted",
           b.status = "complete" => run[n].status \in {"complete", "settlement_pending"},
           NEW t, stopper' = [stopper EXCEPT ![n] = t], UNCHANGED <<prep, exec>>,
           OnlyEntriesOf(n),
           ledger'[UserOf(n)][n].reserve = ledger[UserOf(n)][n].reserve
    PROVE  SafeStep
<1>1. /\ run \in [Runs -> Run] /\ stopper \in [Runs -> {"none", "releasing", "closing"}]
      /\ Life(run[n], prep[n], exec[n], stopper[n])
      /\ Backed(run[n], prep[n], exec[n], ledger[UserOf(n)][n])
  BY SafeParts
<1>2. run[n].owner = NoWorker
  BY <1>1 DEF Life, ActiveStatuses
<1>3. Life(b, prep[n], exec[n], t)
  BY <1>1, <1>2 DEF Life, ActiveStatuses
<1>4. ~Held(b) /\ ~InPreparation(b)
  BY <1>2 DEF Held, InPreparation, ActiveStatuses
<1>5. Backed(b, prep[n], exec[n], ledger'[UserOf(n)][n])
  BY <1>1, <1>4, BackedIdle
<1>6. Onward(run[n], b, exec[n], exec[n])
  BY DEF Onward
<1>7. Becomes(n, b, prep[n], exec[n], t)
  BY <1>1 DEF Becomes, Update
<1> QED BY <1>3, <1>5, <1>6, <1>7, RunSafe

\* So is one that only closes the reservation.
LEMMA EndedEntrySafe ==
    ASSUME RunConstants, SafeInv, NEW n \in Runs,
           run[n].status \notin ActiveStatuses, run[n].status # "unborn", UNCHANGED run,
           NEW t, stopper' = [stopper EXCEPT ![n] = t], UNCHANGED <<prep, exec>>,
           OnlyEntriesOf(n),
           ledger'[UserOf(n)][n].reserve = ledger[UserOf(n)][n].reserve
    PROVE  SafeStep
<1>1. Update(n, run[n])
  BY SafeParts, SameRow
<1> QED BY <1>1, EndedRunSafe

\* The steps that follow a stop concern a run that is no longer active.
LEMMA FollowStopSafe ==
    ASSUME RunConstants, SafeInv, NEW n \in Runs, Stop(n)
    PROVE  SafeStep
<1>1. /\ QuotaTypeOK /\ UserOf(n) \in Users /\ run \in [Runs -> Run]
      /\ Life(run[n], prep[n], exec[n], stopper[n])
  BY SafeParts
<1>2. stopper[n] # "none" /\ UNCHANGED <<prep, exec>>
  BY DEF Stop, ReleaseStopped, CloseStopped, AbandonStop
<1>3. run[n].status \notin ActiveStatuses /\ run[n].status # "unborn"
  BY <1>1, <1>2 DEF Life
<1>4. \E t : stopper' = [stopper EXCEPT ![n] = t]
  BY DEF Stop, ReleaseStopped, CloseStopped, AbandonStop, StopTo
<1>5. Release(UserOf(n), n) \/ UNCHANGED quotaVars
  BY DEF Stop, ReleaseStopped, CloseStopped, AbandonStop, ReleaseRun, ReleaseThrows
<1>6. /\ OnlyEntriesOf(n)
      /\ ledger'[UserOf(n)][n].reserve = ledger[UserOf(n)][n].reserve
  BY <1>1, <1>5, ReleaseEntries
<1>7. CASE UNCHANGED run
  BY <1>2, <1>3, <1>4, <1>6, <1>7, EndedEntrySafe
<1>8. CASE ~UNCHANGED run
  <2>1. CloseStopped(n) /\ run[n].status = "settlement_pending"
    BY <1>1, <1>8 DEF Stop, ReleaseStopped, CloseStopped, AbandonStop, Update
  <2>2. PICK b : b = [run[n] EXCEPT !.status = "stopped"]
    OBVIOUS
  <2>3. /\ b.status = "stopped" /\ b.owner = run[n].owner
        /\ b.resume = run[n].resume /\ b.started = run[n].started
    BY <1>1, <2>2 DEF Run
  <2>4. Update(n, b)
    BY <1>1, <1>8, <2>1, <2>2 DEF CloseStopped, Update
  <2>5. b.status \notin ActiveStatuses /\ b.status # "unborn"
    BY <2>3 DEF ActiveStatuses
  <2> QED BY <1>2, <1>3, <1>4, <1>6, <2>1, <2>3, <2>4, <2>5, EndedRunSafe
<1> QED BY <1>7, <1>8

-----------------------------------------------------------------------------
(* Settlement                                                              *)

\* A decision concerns a run that is pending, or one it has claimed before.
LEMMA ResolveSafe ==
    ASSUME RunConstants, SafeInv, NEW c \in resolving, Resolve(c)
    PROVE  SafeStep
<1> DEFINE n == c.run
<1>0. resolving \subseteq Resolution
  BY DEF SafeInv, AiInv, TypeOK
<1>1. /\ n \in Runs /\ c.target \in {"complete", "stopped", "failed"}
      /\ run[n].status # "unborn"
      /\ c.closing => run[n].status \notin ActiveStatuses
  BY <1>0 DEF Resolution, SafeInv, DecisionsOnEnded
<1> HIDE DEF n
<1>2. /\ QuotaTypeOK /\ UserOf(n) \in Users /\ run \in [Runs -> Run]
      /\ stopper \in [Runs -> {"none", "releasing", "closing"}]
      /\ exec \in [Runs -> Execution] /\ prep \in [Runs -> Preparing \cup {"none", "done"}]
  BY <1>1, SafeParts
<1>3. UNCHANGED <<prep, exec, stopper>>
  BY DEF Resolve, ClaimSettlement, CloseSettlement, RevertSettlement, AbandonSettlement
<1>4. stopper' = [stopper EXCEPT ![n] = stopper[n]]
  BY <1>2, <1>3
<1>5. \/ Release(UserOf(n), n) \/ UNCHANGED quotaVars
      \/ \E p : Settle(UserOf(n), n, p)
  BY DEF Resolve, ClaimSettlement, CloseSettlement, RevertSettlement, AbandonSettlement,
         ReleaseRun, ReleaseThrows, SettleRun, SettleThrows, n
<1>6. /\ OnlyEntriesOf(n)
      /\ ledger'[UserOf(n)][n].reserve = ledger[UserOf(n)][n].reserve
  BY <1>1, <1>2, <1>5, ReleaseEntries, SettleEntries
<1>7. CASE run[n].status \in ActiveStatuses
  <2>1. UNCHANGED run /\ UNCHANGED quotaVars
    BY <1>1, <1>7 DEF Resolve, ClaimSettlement, CloseSettlement, RevertSettlement,
                      AbandonSettlement, n, ActiveStatuses
  <2>2. Becomes(n, run[n], prep[n], exec[n], stopper[n])
    BY <1>2, <1>3, <2>1 DEF Becomes
  <2>3. Onward(run[n], run[n], exec[n], exec[n])
    BY DEF Onward
  <2>4. UNCHANGED ledger
    BY <2>1 DEF quotaVars
  <2> QED BY <1>1, <2>2, <2>3, <2>4, SafeParts, RunSafeNoLedger
<1>8. CASE run[n].status \notin ActiveStatuses /\ UNCHANGED run
  BY <1>1, <1>3, <1>4, <1>6, <1>8, EndedEntrySafe
<1>9. CASE run[n].status \notin ActiveStatuses /\ ~UNCHANGED run
  <2>1. \/ /\ run[n].status = "settlement_pending"
           /\ Update(n, [run[n] EXCEPT !.status = c.target])
        \/ /\ run[n].status = c.target
           /\ Update(n, [run[n] EXCEPT !.status = "settlement_pending"])
    BY <1>2, <1>9 DEF Resolve, ClaimSettlement, CloseSettlement, RevertSettlement,
                      AbandonSettlement, n, Update
  <2>2. PICK st \in {"complete", "stopped", "failed", "settlement_pending"} :
          /\ Update(n, [run[n] EXCEPT !.status = st])
          /\ st = "complete" => run[n].status \in {"complete", "settlement_pending"}
          /\ run[n].status # "deleted"
    BY <1>1, <2>1
  <2>3. PICK b : b = [run[n] EXCEPT !.status = st]
    OBVIOUS
  <2>4. /\ b.status = st /\ b.owner = run[n].owner
        /\ b.resume = run[n].resume /\ b.started = run[n].started
    BY <1>1, <1>2, <2>3 DEF Run
  <2>5. Update(n, b)
    BY <2>2, <2>3
  <2>6. /\ b.status \notin ActiveStatuses /\ b.status # "unborn"
        /\ b.status # "interrupted"
        /\ b.status = "complete" => run[n].status \in {"complete", "settlement_pending"}
    BY <2>2, <2>4 DEF ActiveStatuses
  <2>7. b.owner = run[n].owner /\ b.resume = run[n].resume /\ b.started = run[n].started
    BY <2>4
  <2>8. UNCHANGED <<prep, exec>> /\ run[n].status # "deleted"
    BY <1>3, <2>2
  <2> QED BY <1>1, <1>4, <1>6, <1>9, <2>5, <2>6, <2>7, <2>8, EndedRunSafe
<1> QED BY <1>7, <1>8, <1>9

-----------------------------------------------------------------------------
(* The trash, admission and the rest                                       *)

\* A step that touches neither rows, phases nor entries is safe.
LEMMA NothingMoved ==
    ASSUME RunConstants, SafeInv, UNCHANGED <<run, prep, exec, stopper, ledger>>
    PROVE  SafeStep
<1>1. ASSUME NEW n \in Runs
      PROVE  Sound(n)' /\ Onward(run[n], run'[n], exec[n], exec'[n])
  <2>1. Sound(n)
    BY DEF SafeInv
  <2>2. Onward(run[n], run[n], exec[n], exec[n])
    BY DEF Onward
  <2>3. UserOf(n)' = UserOf(n)
    BY DEF UserOf
  <2> QED BY <2>1, <2>2, <2>3 DEF Sound
<1> QED BY <1>1 DEF SafeStep

\* A step of several rows is safe if it is for each of them.
LEMMA RowsSafe ==
    ASSUME RunConstants, SafeInv, UNCHANGED <<prep, exec, stopper, ledger>>,
           ASSUME NEW n \in Runs
           PROVE  /\ run'[n].resume = run[n].resume
                  /\ Life(run'[n], prep[n], exec[n], stopper[n])
                  /\ Backed(run'[n], prep[n], exec[n], ledger[UserOf(n)][n])
                  /\ Onward(run[n], run'[n], exec[n], exec[n])
    PROVE  SafeStep
<1>1. ASSUME NEW n \in Runs
      PROVE  Sound(n)' /\ Onward(run[n], run'[n], exec[n], exec'[n])
  <2>1. UserOf(n)' = UserOf(n)
    BY DEF UserOf
  <2> QED BY <2>1 DEF Sound
<1> QED BY <1>1 DEF SafeStep

\* A stop request takes no row from its worker.
LEMMA TrashSafe ==
    ASSUME RunConstants, SafeInv, NEW r \in Resumes, MoveResumeToTrash(r)
    PROVE  SafeStep
<1>1. UNCHANGED <<prep, exec, stopper, ledger>>
  BY DEF MoveResumeToTrash, quotaVars
<1>2. ASSUME NEW n \in Runs
      PROVE  /\ run'[n].resume = run[n].resume
             /\ Life(run'[n], prep[n], exec[n], stopper[n])
             /\ Backed(run'[n], prep[n], exec[n], ledger[UserOf(n)][n])
             /\ Onward(run[n], run'[n], exec[n], exec[n])
  <2>1. /\ run \in [Runs -> Run]
        /\ Life(run[n], prep[n], exec[n], stopper[n])
        /\ Backed(run[n], prep[n], exec[n], ledger[UserOf(n)][n])
    BY SafeParts
  <2>2. PICK b : b = [run[n] EXCEPT !.stop = TRUE]
    OBVIOUS
  <2>3. PICK a : a = run'[n]
    OBVIOUS
  <2>4. a = b \/ a = run[n]
    BY <2>2, <2>3 DEF MoveResumeToTrash
  <2>5. /\ a.status = run[n].status /\ a.owner = run[n].owner
        /\ a.resume = run[n].resume /\ a.started = run[n].started
        /\ a.stop = run[n].stop \/ a.stop
    BY <2>1, <2>2, <2>4 DEF Run
  <2>6. Life(a, prep[n], exec[n], stopper[n])
    BY <2>1, <2>5 DEF Life
  <2>7. Backed(a, prep[n], exec[n], ledger[UserOf(n)][n])
    BY <2>1, <2>5 DEF Backed, Held, InPreparation
  <2>8. Onward(run[n], a, exec[n], exec[n])
    BY <2>5 DEF Onward
  <2> QED BY <2>3, <2>5, <2>6, <2>7, <2>8
<1> QED BY <1>1, <1>2, RowsSafe

\* A purge deletes only rows that are no longer active.
LEMMA PurgeSafe ==
    ASSUME RunConstants, SafeInv, NEW r \in Resumes, PurgeTrashedResume(r)
    PROVE  SafeStep
<1>1. UNCHANGED <<prep, exec, stopper, ledger>>
  BY DEF PurgeTrashedResume, quotaVars
<1>2. ASSUME NEW n \in Runs
      PROVE  /\ run'[n].resume = run[n].resume
             /\ Life(run'[n], prep[n], exec[n], stopper[n])
             /\ Backed(run'[n], prep[n], exec[n], ledger[UserOf(n)][n])
             /\ Onward(run[n], run'[n], exec[n], exec[n])
  <2>1. /\ run \in [Runs -> Run]
        /\ Life(run[n], prep[n], exec[n], stopper[n])
        /\ Backed(run[n], prep[n], exec[n], ledger[UserOf(n)][n])
    BY SafeParts
  <2>2. CASE Exists(n) /\ run[n].resume = r
    <3>1. PICK a : a = NewRun(r, run[n].points)
      OBVIOUS
    <3>2. a \in Run /\ a.resume = r /\ ~a.started /\ a.owner = NoWorker
      <4>1. run[n].points \in Reservations \cup {0}
        BY <2>1 DEF Run
      <4> QED BY <3>1, <4>1, NewRunType DEF NewRun
    <3>3. PICK b : b = [a EXCEPT !.status = "deleted", !.lease = "none"]
      OBVIOUS
    <3>4. run'[n] = b
      BY <2>2, <3>1, <3>3 DEF PurgeTrashedResume
    <3>5. /\ b.status = "deleted" /\ b.resume = run[n].resume
          /\ ~b.started /\ b.owner = NoWorker
      BY <2>2, <3>2, <3>3 DEF Run
    <3>6. run[n].status \notin ActiveStatuses /\ run[n].status # "unborn"
      BY <2>2 DEF PurgeTrashedResume, HasUnfinishedAiTasks, Active, Exists, Statuses,
                  ActiveStatuses
    <3>7. Life(b, prep[n], exec[n], stopper[n])
      BY <2>1, <3>5, <3>6 DEF Life, ActiveStatuses
    <3>8. ~Held(b) /\ ~InPreparation(b)
      BY <3>5 DEF Held, InPreparation
    <3>9. Backed(b, prep[n], exec[n], ledger[UserOf(n)][n])
      BY <2>1, <3>8, BackedIdle
    <3>10. Onward(run[n], b, exec[n], exec[n])
      BY <3>5 DEF Onward, ActiveStatuses
    <3> QED BY <3>4, <3>5, <3>7, <3>9, <3>10
  <2>3. CASE ~(Exists(n) /\ run[n].resume = r)
    <3>1. run'[n] = run[n]
      BY <2>3 DEF PurgeTrashedResume
    <3>2. Onward(run[n], run[n], exec[n], exec[n])
      BY DEF Onward
    <3> QED BY <2>1, <3>1, <3>2
  <2> QED BY <2>2, <2>3
<1> QED BY <1>1, <1>2, RowsSafe

\* A new run has neither phases nor entries of an earlier one.
LEMMA AdmitSafe ==
    ASSUME RunConstants, SafeInv, NEW r \in Resumes, NEW p \in Reservations,
           AdmitAiRun(r, p)
    PROVE  SafeStep
<1>1. PICK i \in Runs : /\ run[i].status = "unborn" /\ Update(i, NewRun(r, p))
                        /\ PrepareTo(i, "admitted")
  BY DEF AdmitAiRun
<1>2. UNCHANGED <<exec, stopper, ledger>>
  BY DEF AdmitAiRun, quotaVars
<1>3. ASSUME NEW n \in Runs
      PROVE  Sound(n)' /\ Onward(run[n], run'[n], exec[n], exec'[n])
  <2>1. /\ run \in [Runs -> Run] /\ prep \in [Runs -> Preparing \cup {"none", "done"}]
        /\ Life(run[n], prep[n], exec[n], stopper[n]) /\ PointsLinked
    BY SafeParts
  <2>2. CASE n = i
    <3>1. PICK b : b = NewRun(r, p)
      OBVIOUS
    <3>2. /\ b.status = "preparing" /\ b.owner = NoWorker /\ ~b.started
          /\ b.resume = r
      BY <3>1 DEF NewRun
    <3>3. run'[n] = b /\ prep'[n] = "admitted"
      BY <1>1, <2>1, <2>2, <3>1 DEF Update, PrepareTo
    <3>4. UserOf(n)' \in Users
      BY <3>2, <3>3 DEF UserOf, RunConstants
    <3>5. ~ledger'[UserOf(n)'][n].reserve
      BY <1>1, <1>2, <2>1, <2>2, <3>4 DEF PointsLinked
    <3>6. exec[n].phase = "none" /\ stopper[n] = "none"
      BY <1>1, <2>1, <2>2 DEF Life
    <3>7. Life(b, "admitted", exec[n], stopper[n])
      BY <1>1, <2>1, <2>2, <3>2, <3>6 DEF Life, Called
    <3>8. ~Held(b)
      BY <3>2 DEF Held
    <3>9. Backed(b, "admitted", exec[n], ledger'[UserOf(n)'][n])
      BY <3>5, <3>8 DEF Backed
    <3>10. Onward(run[n], b, exec[n], exec[n])
      BY <1>1, <2>2, <3>2 DEF Onward
    <3> QED BY <1>2, <3>3, <3>7, <3>9, <3>10 DEF Sound
  <2>3. CASE n # i
    <3>1. run'[n] = run[n] /\ prep'[n] = prep[n] /\ UserOf(n)' = UserOf(n)
      BY <1>1, <2>1, <2>3 DEF Update, PrepareTo, UserOf
    <3>2. Onward(run[n], run[n], exec[n], exec[n])
      BY DEF Onward
    <3>3. Sound(n)
      BY DEF SafeInv
    <3> QED BY <1>2, <3>1, <3>2, <3>3 DEF Sound
  <2> QED BY <2>2, <2>3
<1> QED BY <1>3 DEF SafeStep

\* Every step is safe.
LEMMA NextSafe ==
    ASSUME RunConstants, SafeInv, [Next]_vars
    PROVE  SafeStep
<1>1. ASSUME NEW r \in Resumes, RestoreTrashedResume(r) PROVE SafeStep
  BY <1>1, NothingMoved DEF RestoreTrashedResume, quotaVars
<1>2. ASSUME NEW n \in Runs, NEW d \in Decisions, ReadSettlement(n, d) PROVE SafeStep
  BY <1>2, NothingMoved DEF ReadSettlement, quotaVars
<1>3. ASSUME NEW u \in Users, ChangeQuota(u) PROVE SafeStep
  <2>1. UNCHANGED <<run, prep, exec, stopper>> /\ UNCHANGED ledger
    BY <1>3 DEF ChangeQuota, runVars, UpdateQuota, EndPeriod
  <2> QED BY <2>1, NothingMoved
<1>4. CASE UNCHANGED vars
  BY <1>4, NothingMoved DEF vars
<1>5. CASE Next
  BY <1>1, <1>2, <1>3, <1>5, AdmitSafe, TrashSafe, PurgeSafe, PrepareSafe, ExecuteSafe,
     FollowStopSafe, CallingSafe, ExpireSafe, RecoverSafe, StopSafe, ClaimSafe,
     ResolveSafe DEF Next, ProcessTrashedResumeStops
<1> QED BY <1>4, <1>5

-----------------------------------------------------------------------------
(* The rest of the invariant                                               *)

\* Writing an entry that is reserved keeps every closed entry a reserved one.
LEMMA WriteKeepsClosed ==
    ASSUME QuotaTypeOK, ClosedAfterReserve, NEW u \in Users, NEW n \in Runs,
           NEW a, NEW d, Write(u, n, a, d), d.reserve \/ d = ledger[u][n]
    PROVE  ClosedAfterReserve'
<1>1. ledger' = [ledger EXCEPT ![u][n] = d]
  BY DEF Write
<1>2. ASSUME NEW v \in Users, NEW m \in Runs
      PROVE  ledger'[v][m] = IF v = u /\ m = n THEN d ELSE ledger[v][m]
  BY <1>1 DEF QuotaTypeOK
<1>3. ASSUME NEW v \in Users, NEW m \in Runs
      PROVE  ledger'[v][m].reserve \/ Unclosed(ledger'[v][m])
  <2>1. CASE v = u /\ m = n
    BY <1>2, <2>1 DEF ClosedAfterReserve
  <2>2. CASE ~(v = u /\ m = n)
    BY <1>2, <2>2 DEF ClosedAfterReserve
  <2> QED BY <2>1, <2>2
<1> QED BY <1>3 DEF ClosedAfterReserve

\* A release is only written for a reservation.
LEMMA AddReleaseKeepsClosed ==
    ASSUME QuotaTypeOK, ClosedAfterReserve, NEW u \in Users, NEW n \in Runs,
           Reserved(u, n), AddRelease(u, n)
    PROVE  ClosedAfterReserve'
<1>1. PICK d : d = [ledger[u][n] EXCEPT !.releases = @ + 1]
  OBVIOUS
<1>2. d.reserve
  BY <1>1 DEF QuotaTypeOK, Entries, Reserved
<1>3. PICK a : Write(u, n, a, d)
  BY <1>1 DEF AddRelease
<1> QED BY <1>2, <1>3, WriteKeepsClosed

\* No operation of the account closes what was not reserved.
LEMMA ClosedStep ==
    ASSUME QuotaTypeOK, ClosedAfterReserve, [QuotaNext]_quotaVars
    PROVE  ClosedAfterReserve'
<1>1. CASE UNCHANGED ledger
  BY <1>1 DEF ClosedAfterReserve
<1>2. ASSUME NEW u \in Users, NEW n \in Runs, NEW p \in Reservations, Reserve(u, n, p)
      PROVE  ClosedAfterReserve'
  <2>1. CASE ledger[u][n].reserve
    <3>1. PICK a : Write(u, n, a, ledger[u][n])
      BY <1>2, <2>1 DEF Reserve
    <3> QED BY <3>1, WriteKeepsClosed
  <2>2. CASE ~ledger[u][n].reserve
    <3>1. PICK d : d = [ledger[u][n] EXCEPT !.reserve = TRUE, !.points = p]
      OBVIOUS
    <3>2. d.reserve
      BY <3>1 DEF QuotaTypeOK, Entries
    <3>3. PICK a : Write(u, n, a, d)
      BY <1>2, <2>2, <3>1 DEF Reserve
    <3> QED BY <3>2, <3>3, WriteKeepsClosed
  <2> QED BY <2>1, <2>2
<1>3. ASSUME NEW u \in Users, NEW n \in Runs, NEW c, Settle(u, n, c)
      PROVE  ClosedAfterReserve'
  <2>1. CASE ledger[u][n].settlements > 0
    BY <1>1, <1>3, <2>1 DEF Settle, quotaVars
  <2>2. CASE ~(ledger[u][n].settlements > 0)
    <3>1. PICK d : d = [ledger[u][n] EXCEPT !.settlements = @ + 1]
      OBVIOUS
    <3>2. d.reserve
      BY <1>3, <2>2, <3>1 DEF Settle, Settleable, Reserved, QuotaTypeOK, Entries
    <3>3. PICK a : Write(u, n, a, d)
      BY <1>3, <2>2, <3>1 DEF Settle
    <3> QED BY <3>2, <3>3, WriteKeepsClosed
  <2> QED BY <2>1, <2>2
<1>4. ASSUME NEW u \in Users, NEW n \in Runs, Release(u, n) \/ ReleaseUnused(u, n)
      PROVE  ClosedAfterReserve'
  <2>1. UNCHANGED ledger \/ (Reserved(u, n) /\ AddRelease(u, n))
    BY <1>4 DEF Release, ReleaseUnused, Releasable, quotaVars
  <2> QED BY <1>1, <2>1, AddReleaseKeepsClosed
<1>5. ASSUME NEW u \in Users,
             (\E l \in MonthlyLimits, over \in BOOLEAN : UpdateQuota(u, l, over))
               \/ EndPeriod(u)
      PROVE  ClosedAfterReserve'
  BY <1>1, <1>5 DEF UpdateQuota, EndPeriod
<1>6. CASE UNCHANGED quotaVars
  BY <1>1, <1>6 DEF quotaVars
<1> QED BY <1>2, <1>3, <1>4, <1>5, <1>6 DEF QuotaNext

\* Every step but an admission is a step of each row.
LEMMA NextRows ==
    ASSUME RunConstants, SafeInv, [Next]_vars
    PROVE  \/ RunsStep
           \/ \E r \in Resumes, p \in Reservations : AdmitAiRun(r, p)
<1>1. /\ run \in [Runs -> Run] /\ exec \in [Runs -> Execution]
      /\ resolving \subseteq Resolution
  BY DEF SafeInv, AiInv, TypeOK
<1>2. \A n \in Runs : run[n].points \in Reservations \cup {0}
  BY <1>1 DEF Run
<1>3. ASSUME NEW u \in Users, ChangeQuota(u) PROVE RunsStep
  BY <1>1, <1>3, NoRun DEF ChangeQuota, runVars
<1>4. ASSUME NEW n \in Runs, NEW d \in Decisions, ReadSettlement(n, d) PROVE RunsStep
  BY <1>1, <1>4, NoRun DEF ReadSettlement
<1>5. CASE UNCHANGED vars
  BY <1>1, <1>5, NoRun DEF vars
<1>6. ASSUME NEW c \in resolving, Resolve(c) PROVE RunsStep
  BY <1>1, <1>6, ResolveRows
<1>7. CASE Next
  BY <1>1, <1>2, <1>3, <1>4, <1>6, <1>7, PrepareRows, ExecuteRows, ClaimRow,
     RecoveryRows, StopRows, ResumeRows DEF Next, ProcessTrashedResumeStops
<1> QED BY <1>5, <1>7

\* A run once inserted is never forgotten.
LEMMA BornStays ==
    ASSUME RunConstants, SafeInv, [Next]_vars, NEW n \in Runs,
           run[n].status # "unborn"
    PROVE  run'[n].status # "unborn"
<1>1. CASE RunsStep
  BY <1>1 DEF RunsStep, RunStep
<1>2. ASSUME NEW r \in Resumes, NEW p \in Reservations, AdmitAiRun(r, p)
      PROVE  run'[n].status # "unborn"
  <2>1. PICK i \in Runs : run[i].status = "unborn" /\ Update(i, NewRun(r, p))
    BY <1>2 DEF AdmitAiRun
  <2>2. run \in [Runs -> Run]
    BY SafeParts
  <2>3. run'[n] = run[n]
    BY <2>1, <2>2 DEF Update
  <2> QED BY <2>3
<1> QED BY <1>1, <1>2, NextRows

\* Where the decisions under way come from.
LEMMA DecisionsStep ==
    ASSUME RunConstants, SafeInv, [Next]_vars, SafeStep
    PROVE  DecisionsOnEnded'
<1>1. resolving \subseteq Resolution /\ DecisionsOnEnded
  BY DEF SafeInv, AiInv, TypeOK
<1>2. ASSUME NEW c \in resolving
      PROVE  /\ c.run \in Runs
             /\ run'[c.run].status # "unborn"
             /\ c.closing => run'[c.run].status \notin ActiveStatuses
  <2>1. c.run \in Runs /\ run[c.run].status # "unborn"
    BY <1>1 DEF Resolution, DecisionsOnEnded
  <2>2. run'[c.run].status # "unborn"
    BY <2>1, BornStays
  <2>3. ASSUME c.closing PROVE run'[c.run].status \notin ActiveStatuses
    BY <1>1, <2>1, <2>3 DEF DecisionsOnEnded, SafeStep, Onward
  <2> QED BY <2>1, <2>2, <2>3
<1>3. CASE resolving' \subseteq resolving
  BY <1>2, <1>3 DEF DecisionsOnEnded
<1>4. ASSUME NEW n \in Runs, NEW d \in Decisions, ReadSettlement(n, d)
      PROVE  DecisionsOnEnded'
  <2>1. PICK c : c = [run |-> n, decision |-> d, closing |-> FALSE, target |-> Target(n, d)]
    OBVIOUS
  <2>2. /\ resolving' = resolving \cup {c} /\ UNCHANGED run
        /\ run[n].status # "unborn"
    BY <1>4, <2>1 DEF ReadSettlement, Exists, Statuses, ActiveStatuses
  <2>3. c.run = n /\ ~c.closing
    BY <2>1
  <2> QED BY <1>2, <2>2, <2>3 DEF DecisionsOnEnded
<1>5. ASSUME NEW c \in resolving, Resolve(c) PROVE DecisionsOnEnded'
  <2>1. CASE Drop(c)
    BY <1>3, <2>1 DEF Drop
  <2>2. CASE ~Drop(c)
    <3>1. /\ run[c.run].status = "settlement_pending"
          /\ Update(c.run, [run[c.run] EXCEPT !.status = c.target])
          /\ Replace(c, [c EXCEPT !.closing = TRUE])
      BY <1>5, <2>2 DEF Resolve, ClaimSettlement, CloseSettlement, RevertSettlement,
                        AbandonSettlement
    <3>2. PICK d : d = [c EXCEPT !.closing = TRUE]
      OBVIOUS
    <3>3. d.run = c.run /\ c.run \in Runs
          /\ c.target \in {"complete", "stopped", "failed"}
      BY <1>1, <3>2 DEF Resolution
    <3>4. run \in [Runs -> Run]
      BY <3>3, SafeParts
    <3>5. run'[c.run].status = c.target
      BY <3>1, <3>3, <3>4 DEF Update, Run
    <3>6. resolving' \subseteq resolving \cup {d}
      BY <3>1, <3>2 DEF Replace
    <3>7. run'[d.run].status \notin ActiveStatuses \cup {"unborn"}
      BY <3>3, <3>5 DEF ActiveStatuses
    <3> QED BY <1>2, <3>6, <3>7 DEF DecisionsOnEnded
  <2> QED BY <2>1, <2>2
<1>6. CASE UNCHANGED resolving
  BY <1>3, <1>6
<1>7. CASE Next /\ ~UNCHANGED resolving
  <2>1. \/ \E n \in Runs, d \in Decisions : ReadSettlement(n, d)
        \/ \E c \in resolving : Resolve(c)
    BY <1>7, ZenonT(60)
       DEF Next, AdmitAiRun, MoveResumeToTrash, RestoreTrashedResume, PurgeTrashedResume,
           Prepare, ReserveQuota, RefuseQuota, EnqueueRun, FailPreparation,
           UndoReservation, RecordPreflightFailure, AbandonPreparation,
           Execute, StartRun, FinalizeOwnedAiRun, LoseRun, FailExecution, ReleaseUnbilled,
           RecordFailure, AbandonExecution, ReportUsage, ClaimQueuedAiRun,
           Stop, ReleaseStopped, CloseStopped, AbandonStop, ExpireLease,
           RecoverExpiredAiRun, StopAiRun, ProcessTrashedResumeStops,
           ChangeQuota, runVars
  <2> QED BY <1>4, <1>5, <2>1
<1> QED BY <1>6, <1>7 DEF vars

-----------------------------------------------------------------------------
(* The invariant                                                           *)

\* The invariant holds before the first run is admitted.
LEMMA SafeInit ==
    ASSUME QuotaConstants, RunConstants, Init
    PROVE  SafeInv
<1>1. AiInv
  BY AiInit
<1>2. PICK a : a = NewRun(CHOOSE r \in Resumes : TRUE, 0)
  OBVIOUS
<1>3. a \in Run /\ a.owner = NoWorker /\ ~a.started
  BY <1>2, NewRunType DEF RunConstants, NewRun
<1>4. PICK b : b = [a EXCEPT !.status = "unborn", !.lease = "none"]
  OBVIOUS
<1>5. b.status = "unborn" /\ b.owner = NoWorker /\ ~b.started
  BY <1>3, <1>4 DEF Run
<1>6. PICK x : x = [phase |-> "none", used |-> FALSE, owner |-> NoWorker, code |-> "none"]
  OBVIOUS
<1>7. x.phase = "none" /\ ~x.used
  BY <1>6
<1>8. ASSUME NEW n \in Runs
      PROVE  run[n] = b /\ prep[n] = "none" /\ exec[n] = x /\ stopper[n] = "none"
  BY <1>2, <1>4, <1>6 DEF Init
<1>9. ASSUME NEW u \in Users, NEW n \in Runs
      PROVE  ~ledger[u][n].reserve /\ Unclosed(ledger[u][n])
  BY DEF Init, QuotaInit, NoEntries, Unclosed
<1>10. ASSUME NEW n \in Runs PROVE Sound(n)
  <2>1. UserOf(n) \in Users
    BY <1>1, OwnerIsUser DEF AiInv, TypeOK
  <2>2. ~ledger[UserOf(n)][n].reserve
    BY <1>9, <2>1
  <2>3. Life(b, "none", x, "none")
    BY <1>5, <1>7 DEF Life, Called
  <2>4. Backed(b, "none", x, ledger[UserOf(n)][n])
    BY <1>5, <2>2 DEF Backed, Held
  <2> QED BY <1>8, <2>3, <2>4 DEF Sound
<1>11. ClosedAfterReserve
  BY <1>9 DEF ClosedAfterReserve
<1>12. DecisionsOnEnded
  BY DEF Init, DecisionsOnEnded
<1> QED BY <1>1, <1>10, <1>11, <1>12 DEF SafeInv

\* The invariant is inductive.
LEMMA SafeInductive ==
    ASSUME QuotaConstants, RunConstants, SafeInv, [Next]_vars
    PROVE  SafeInv' /\ SafeStep
<1>1. AiInv' /\ [QuotaNext]_quotaVars
  BY AiStep DEF SafeInv
<1>2. SafeStep
  BY NextSafe
<1>3. QuotaTypeOK
  BY DEF SafeInv, AiInv, TypeOK
<1>4. ClosedAfterReserve'
  BY <1>1, <1>3, ClosedStep DEF SafeInv
<1>5. DecisionsOnEnded'
  BY <1>2, DecisionsStep
<1>6. \A n \in Runs : Sound(n)'
  BY <1>2 DEF SafeStep
<1> QED BY <1>1, <1>2, <1>4, <1>5, <1>6 DEF SafeInv

\* The invariant holds in every behaviour of the system.
LEMMA SafeInvariance == Spec => []SafeInv
<1>1. Init => SafeInv
  BY QuotaConstants, RunConstants, SafeInit
<1>2. SafeInv /\ [Next]_vars => SafeInv'
  BY QuotaConstants, RunConstants, SafeInductive
<1> QED BY <1>1, <1>2, PTL DEF Spec

-----------------------------------------------------------------------------
(* The theorems                                                            *)

\* A worker holds or streams a run on an open reservation only, and queued runs
\* have one: whatever stops, recoveries, failures and administrators close.
THEOREM RunsAreBacked == Spec => []RunsOnOpenReservation
<1>1. SafeInv => RunsOnOpenReservation
  BY DEF SafeInv, Sound, Backed, Held, RunsOnOpenReservation
<1> QED BY <1>1, SafeInvariance, PTL

\* A run that recovery declares free of charge was never called for, although
\* its worker may still be at work on it.
THEOREM InterruptedRunsAreUnused == Spec => []InterruptedIsUnused
<1>1. ASSUME SafeInv PROVE InterruptedIsUnused
  <2>1. ASSUME NEW n \in Runs, run[n].status = "interrupted"
        PROVE  ~exec[n].used /\ exec[n].phase \in {"none", "claimed", "ended"}
    <3>1. Life(run[n], prep[n], exec[n], stopper[n]) /\ exec[n] \in Execution
      BY <1>1, SafeParts, RunConstants
    <3> QED BY <2>1, <3>1 DEF Life, Called, Execution, Executing
  <2> QED BY <2>1 DEF InterruptedIsUnused
<1> QED BY <1>1, SafeInvariance, PTL

\* No run that has left the active statuses returns to them, and none is
\* executed twice, in whatever order stops, recoveries and failures arrive.
THEOREM RunsAreNotRunTwice == Spec => NeverRunTwice
<1>1. ASSUME SafeInv, [Next]_vars
      PROVE  \A n \in Runs :
               /\ Exists(n) /\ ~Active(n) => run'[n].status \notin ActiveStatuses
               /\ exec[n].phase # "none" /\ exec'[n].phase = "claimed"
                    => exec[n].phase = "claimed"
  <2>1. SafeStep
    BY <1>1, QuotaConstants, RunConstants, SafeInductive
  <2> QED BY <2>1 DEF SafeStep, Onward, Exists, Active, Statuses, ActiveStatuses
<1> QED BY <1>1, SafeInvariance, PTL DEF Spec, NeverRunTwice

\* A worker that has lost its lease completes nothing: only a live lease, or an
\* administrator who settles a pending run, does.
THEOREM ExpiredRunsAreNotCompleted == Spec => ExpiredIsNotCompleted
<1>1. ASSUME SafeInv, [Next]_vars
      PROVE  \A n \in Runs : run[n].status # "complete" /\ run'[n].status = "complete"
               => \/ run[n].lease = "live" /\ exec'[n].phase = "ended"
                  \/ run[n].status = "settlement_pending"
  <2>1. SafeStep
    BY <1>1, QuotaConstants, RunConstants, SafeInductive
  <2> QED BY <2>1 DEF SafeStep, Onward
<1> QED BY <1>1, SafeInvariance, PTL DEF Spec, ExpiredIsNotCompleted

-----------------------------------------------------------------------------
(* Charges                                                                 *)

\* No settlement is written.
Uncharged ==
    \A u \in Users, n \in Runs :
        ledger'[u][n].settlements = ledger[u][n].settlements

\* A reservation writes no settlement.
LEMMA ReserveUncharged ==
    ASSUME RunConstants, SafeInv, NEW n \in Runs, ReserveQuota(n)
    PROVE  Uncharged
<1> DEFINE u == UserOf(n)
<1>1. QuotaTypeOK /\ u \in Users /\ ledger[u][n] \in Entries
  BY SafeParts
<1>2. Reserve(u, n, run[n].points)
  BY DEF ReserveQuota
<1>3. PICK d : /\ ledger' = [ledger EXCEPT ![u][n] = d]
               /\ d.settlements = ledger[u][n].settlements
  <2>1. CASE ledger[u][n].reserve
    BY <1>2, <2>1 DEF Reserve, Write
  <2>2. CASE ~ledger[u][n].reserve
    <3>1. PICK d : d = [ledger[u][n] EXCEPT !.reserve = TRUE, !.points = run[n].points]
      OBVIOUS
    <3>2. d.settlements = ledger[u][n].settlements
      BY <1>1, <3>1 DEF Entries
    <3>3. ledger' = [ledger EXCEPT ![u][n] = d]
      BY <1>2, <2>2, <3>1 DEF Reserve, Write
    <3> QED BY <3>2, <3>3
  <2> QED BY <2>1, <2>2
<1> QED BY <1>1, <1>3 DEF Uncharged, QuotaTypeOK

\* Neither does a release.
LEMMA ReleaseUncharged ==
    ASSUME RunConstants, SafeInv, NEW n \in Runs,
           \/ Release(UserOf(n), n) \/ ReleaseUnused(UserOf(n), n)
           \/ UNCHANGED quotaVars
    PROVE  Uncharged
<1>1. QuotaTypeOK /\ UserOf(n) \in Users
  BY SafeParts
<1>2. /\ OnlyEntriesOf(n)
      /\ ledger'[UserOf(n)][n].settlements = ledger[UserOf(n)][n].settlements
  BY <1>1, ReleaseEntries
<1>3. CASE UNCHANGED quotaVars
  BY <1>3 DEF quotaVars, Uncharged
<1>4. CASE Release(UserOf(n), n) \/ ReleaseUnused(UserOf(n), n)
  <2>1. UNCHANGED quotaVars \/ AddRelease(UserOf(n), n)
    BY <1>4 DEF Release, ReleaseUnused
  <2>2. CASE AddRelease(UserOf(n), n)
    <3>1. PICK d : ledger' = [ledger EXCEPT ![UserOf(n)][n] = d]
      BY <2>2 DEF AddRelease, Write
    <3> QED BY <1>1, <1>2, <3>1 DEF QuotaTypeOK, Uncharged
  <2> QED BY <1>3, <2>1, <2>2
<1> QED BY <1>3, <1>4

\* A settlement is written by a worker that finalizes its run, or by an
\* administrator's decision.
LEMMA ChargedBy ==
    ASSUME RunConstants, SafeInv, [Next]_vars
    PROVE  \/ Uncharged
           \/ \E n \in Runs : FinalizeOwnedAiRun(n)
           \/ \E c \in resolving : CloseSettlement(c)
<1>1. CASE UNCHANGED quotaVars
  BY <1>1 DEF quotaVars, Uncharged
<1>2. ASSUME NEW u \in Users, ChangeQuota(u) PROVE Uncharged
  BY <1>2 DEF ChangeQuota, UpdateQuota, EndPeriod, Uncharged
<1>3. ASSUME NEW n \in Runs, UndoReservation(n) \/ ReleaseUnbilled(n)
                             \/ ReleaseStopped(n) \/ RecoverExpiredAiRun(n)
      PROVE  Uncharged
  <2>1. \/ Release(UserOf(n), n) \/ ReleaseUnused(UserOf(n), n)
        \/ UNCHANGED quotaVars
    BY <1>3 DEF UndoReservation, ReleaseUnbilled, ReleaseStopped, RecoverExpiredAiRun,
                ReleaseRun, ReleaseThrows
  <2> QED BY <2>1, ReleaseUncharged
<1>4. ASSUME Next, ~UNCHANGED quotaVars
      PROVE  \/ \E u \in Users : ChangeQuota(u)
             \/ \E n \in Runs : UndoReservation(n) \/ ReleaseUnbilled(n)
                                \/ ReleaseStopped(n) \/ RecoverExpiredAiRun(n)
             \/ \E n \in Runs : ReserveQuota(n)
             \/ \E n \in Runs : FinalizeOwnedAiRun(n)
             \/ \E c \in resolving : CloseSettlement(c)
  <2>1. ASSUME NEW n \in Runs, Prepare(n)
        PROVE  UndoReservation(n) \/ ReserveQuota(n)
    BY <1>4, <2>1 DEF Prepare, RefuseQuota, EnqueueRun, FailPreparation,
                      RecordPreflightFailure, AbandonPreparation
  <2>2. ASSUME NEW n \in Runs, Execute(n)
        PROVE  ReleaseUnbilled(n) \/ FinalizeOwnedAiRun(n)
    BY <1>4, <2>2 DEF Execute, StartRun, LoseRun, FailExecution, RecordFailure,
                      AbandonExecution
  <2>3. ASSUME NEW n \in Runs, Stop(n) PROVE ReleaseStopped(n)
    BY <1>4, <2>3 DEF Stop, CloseStopped, AbandonStop
  <2>4. ASSUME NEW c \in resolving, Resolve(c) PROVE CloseSettlement(c)
    BY <1>4, <2>4 DEF Resolve, ClaimSettlement, RevertSettlement, AbandonSettlement,
                      ReleaseThrows, SettleThrows
  <2> QED BY <1>4, <2>1, <2>2, <2>3, <2>4, ZenonT(60)
          DEF Next, AdmitAiRun, MoveResumeToTrash, RestoreTrashedResume,
              PurgeTrashedResume, ReportUsage, ExpireLease, StopAiRun,
              ProcessTrashedResumeStops, ReadSettlement, ClaimQueuedAiRun
<1>5. CASE UNCHANGED vars
  BY <1>1, <1>5 DEF vars, quotaVars
<1> QED BY <1>1, <1>2, <1>3, <1>4, <1>5, ReserveUncharged

\* After a stop request only an administrator's decision charges for a run: a
\* worker that finishes late, having seen nothing of the request, does not.
THEOREM StoppedRunsAreNotCharged == Spec => StoppedIsNotCharged
<1>1. ASSUME SafeInv, [Next]_vars, NEW n \in Runs, run[n].stop,
             ledger'[UserOf(n)][n].settlements > ledger[UserOf(n)][n].settlements
      PROVE  \E c \in resolving \ resolving' :
               c.run = n /\ c.closing /\ c.decision = "charge_reserved"
  <2>1. /\ QuotaTypeOK /\ UserOf(n) \in Users /\ ledger[UserOf(n)][n] \in Entries
        /\ resolving \subseteq Resolution
    BY <1>1, SafeParts, RunConstants
  <2>2. ledger'[UserOf(n)][n].settlements # ledger[UserOf(n)][n].settlements
    BY <1>1, <2>1 DEF Entries
  <2>3. ~Uncharged
    BY <2>1, <2>2 DEF Uncharged
  <2>4. ASSUME NEW m \in Runs, OnlyEntriesOf(m) PROVE m = n
    BY <2>1, <2>2, <2>4 DEF OnlyEntriesOf
  <2>5. ASSUME NEW m \in Runs, FinalizeOwnedAiRun(m) PROVE FALSE
    <3>1. QuotaTypeOK /\ UserOf(m) \in Users
      BY <1>1, SafeParts, RunConstants
    <3>2. UNCHANGED quotaVars \/ \E actual \in Charges : Settle(UserOf(m), m, actual)
      BY <2>5 DEF FinalizeOwnedAiRun, SettleRun
    <3>3. OnlyEntriesOf(m)
      BY <3>1, <3>2, SettleEntries, ReleaseEntries
    <3>4. ~run[m].stop
      BY <2>5 DEF FinalizeOwnedAiRun, MayFinalize
    <3> QED BY <1>1, <2>4, <3>3, <3>4
  <2>6. ASSUME NEW c \in resolving, CloseSettlement(c)
        PROVE  /\ c \in resolving \ resolving'
               /\ c.run = n /\ c.closing /\ c.decision = "charge_reserved"
    <3>1. c.run \in Runs /\ c.decision \in Decisions
      BY <2>1 DEF Resolution
    <3>2. QuotaTypeOK /\ UserOf(c.run) \in Users
      BY <1>1, <3>1, SafeParts, RunConstants
    <3>3. c.closing /\ c \notin resolving'
      BY <2>6 DEF CloseSettlement, Drop
    <3>4. c.decision # "release"
      <4>1. CASE c.decision = "release"
        <5>1. Release(UserOf(c.run), c.run)
          BY <2>6, <4>1 DEF CloseSettlement, ReleaseRun
        <5> QED BY <1>1, <2>3, <3>1, <5>1, ReleaseUncharged, RunConstants
      <4> QED BY <4>1
    <3>5. Settle(UserOf(c.run), c.run, run[c.run].points)
      BY <2>6, <3>4 DEF CloseSettlement, SettleRun
    <3>6. c.run = n
      BY <2>4, <3>1, <3>2, <3>5, SettleEntries
    <3> QED BY <3>1, <3>3, <3>4, <3>6 DEF Decisions
  <2> QED BY <1>1, <2>3, <2>5, <2>6, ChargedBy, RunConstants
<1>2. ASSUME SafeInv, [Next]_vars
      PROVE  \A n \in Runs : run[n].stop
               /\ ledger'[UserOf(n)][n].settlements > ledger[UserOf(n)][n].settlements
               => \E c \in resolving \ resolving' :
                    c.run = n /\ c.closing /\ c.decision = "charge_reserved"
  BY <1>1, <1>2
<1> QED BY <1>2, SafeInvariance, PTL DEF Spec, StoppedIsNotCharged

-----------------------------------------------------------------------------
(* Admission                                                               *)

ActiveOf(u) == {n \in Runs : Active(n) /\ UserOf(n) = u}

\* The runs are finitely many, and so are those of a user.
LEMMA ActiveFinite ==
    ASSUME QuotaConstants, NEW S, S \subseteq Runs
    PROVE  IsFiniteSet(S) /\ Cardinality(S) \in Nat
<1>1. 1 \in Int /\ MaxRuns \in Int
  BY DEF QuotaConstants
<1>2. IsFiniteSet(Runs)
  BY <1>1, FS_Interval DEF Runs
<1>3. IsFiniteSet(S)
  BY <1>2, FS_Subset
<1> QED BY <1>3, FS_CardinalityType

\* A step that admits nobody only takes runs out of the active ones.
LEMMA ActiveShrinks ==
    ASSUME RunsStep, SafeStep, NEW n \in Runs, Active(n)'
    PROVE  Active(n) /\ run'[n].resume = run[n].resume /\ UserOf(n)' = UserOf(n)
<1>1. run'[n].status \in ActiveStatuses
  BY DEF Active
<1>2. RunStep(run[n], run'[n]) /\ Onward(run[n], run'[n], exec[n], exec'[n])
  BY DEF RunsStep, SafeStep
<1>3. run'[n].status # "unborn"
  BY <1>1 DEF ActiveStatuses
<1>4. run[n].status \in ActiveStatuses
  BY <1>1, <1>2, <1>3 DEF RunStep, Onward
<1>5. run'[n].resume = run[n].resume
  BY <1>2 DEF RunStep
<1> QED BY <1>4, <1>5 DEF Active, UserOf

\* Such a step keeps the limits.
LEMMA LimitsKept ==
    ASSUME QuotaConstants, RunConstants, AdmissionLimits, RunsStep, SafeStep
    PROVE  AdmissionLimits'
<1>1. ASSUME NEW i \in Runs, NEW n \in Runs, Active(i)', Active(n)',
             run'[i].resume = run'[n].resume
      PROVE  i = n
  <2>1. /\ Active(i) /\ run'[i].resume = run[i].resume
        /\ Active(n) /\ run'[n].resume = run[n].resume
    BY <1>1, ActiveShrinks
  <2> QED BY <1>1, <2>1 DEF AdmissionLimits
<1>2. ASSUME NEW u \in Users PROVE Cardinality(ActiveOf(u)') <= MaxConcurrentRuns
  <2>1. ActiveOf(u)' \subseteq ActiveOf(u) /\ ActiveOf(u) \subseteq Runs
    BY ActiveShrinks DEF ActiveOf
  <2>2. /\ Cardinality(ActiveOf(u)) \in Nat /\ Cardinality(ActiveOf(u)') \in Nat
        /\ Cardinality(ActiveOf(u)') <= Cardinality(ActiveOf(u))
    BY <2>1, ActiveFinite, FS_Subset
  <2>3. Cardinality(ActiveOf(u)) <= MaxConcurrentRuns
    BY DEF AdmissionLimits, ActiveOf
  <2> QED BY <2>2, <2>3 DEF RunConstants
<1> QED BY <1>1, <1>2 DEF AdmissionLimits, ActiveOf

\* An admission adds one run to a user who has room for it, on a free resume.
LEMMA LimitsAdmitted ==
    ASSUME QuotaConstants, RunConstants, SafeInv, AdmissionLimits,
           NEW r \in Resumes, NEW p \in Reservations, AdmitAiRun(r, p)
    PROVE  AdmissionLimits'
<1>1. PICK k \in Runs : run[k].status = "unborn" /\ Update(k, NewRun(r, p))
  BY DEF AdmitAiRun
<1>2. Vacant(r)
  BY DEF AdmitAiRun
<1>3. run \in [Runs -> Run]
  BY DEF SafeInv, AiInv, TypeOK
<1>4. PICK b : b = NewRun(r, p)
  OBVIOUS
<1>5. b.resume = r
  BY <1>4 DEF NewRun
<1>6. run' = [run EXCEPT ![k] = b]
  BY <1>1, <1>4 DEF Update
<1>7. ASSUME NEW n \in Runs
      PROVE  /\ n = k => run'[n].resume = r /\ UserOf(n)' = OwnerOf[r]
             /\ n # k => run'[n] = run[n] /\ UserOf(n)' = UserOf(n)
  <2>1. run'[n] = IF n = k THEN b ELSE run[n]
    BY <1>3, <1>6
  <2> QED BY <1>5, <2>1 DEF UserOf
<1>8. ASSUME NEW n \in Runs, n # k, Active(n)' PROVE Active(n)
  BY <1>7, <1>8 DEF Active
<1>9. ASSUME NEW n \in Runs, Active(n) PROVE run[n].resume # r
  BY <1>2, <1>9 DEF Vacant
<1>10. ASSUME NEW i \in Runs, NEW n \in Runs, Active(i)', Active(n)',
              run'[i].resume = run'[n].resume
       PROVE  i = n
  <2>1. CASE i = k /\ n # k
    BY <1>7, <1>8, <1>9, <1>10, <2>1
  <2>2. CASE i # k /\ n = k
    BY <1>7, <1>8, <1>9, <1>10, <2>2
  <2>3. CASE i # k /\ n # k
    <3>1. /\ Active(i) /\ Active(n) /\ run[i].resume = run[n].resume
      BY <1>7, <1>8, <1>10, <2>3
    <3> QED BY <3>1 DEF AdmissionLimits
  <2>4. CASE i = k /\ n = k
    BY <2>4
  <2> QED BY <2>1, <2>2, <2>3, <2>4
<1>11. ASSUME NEW u \in Users PROVE Cardinality(ActiveOf(u)') <= MaxConcurrentRuns
  <2>1. ActiveOf(u) \subseteq Runs /\ ActiveOf(u)' \subseteq Runs
    BY DEF ActiveOf
  <2>2. IsFiniteSet(ActiveOf(u)) /\ Cardinality(ActiveOf(u)) \in Nat
        /\ Cardinality(ActiveOf(u)') \in Nat
    BY <2>1, ActiveFinite
  <2>3. CASE u = OwnerOf[r]
    <3>1. Cardinality(ActiveOf(u)) < MaxConcurrentRuns
      <4>1. {n \in {m \in Runs : Active(m)} : UserOf(n) = OwnerOf[r]} = ActiveOf(u)
        BY <2>3 DEF ActiveOf
      <4> QED BY <1>2, <4>1 DEF Vacant
    <3>2. ActiveOf(u)' \subseteq ActiveOf(u) \cup {k}
      BY <1>7, <1>8 DEF ActiveOf
    <3>3. /\ IsFiniteSet(ActiveOf(u) \cup {k})
          /\ Cardinality(ActiveOf(u) \cup {k}) <= Cardinality(ActiveOf(u)) + 1
      BY <2>2, FS_AddElement
    <3>4. Cardinality(ActiveOf(u)') <= Cardinality(ActiveOf(u) \cup {k})
      BY <3>2, <3>3, FS_Subset
    <3>5. Cardinality(ActiveOf(u) \cup {k}) \in Nat /\ MaxConcurrentRuns \in Nat
      BY <3>3, FS_CardinalityType DEF RunConstants
    <3> QED BY <2>2, <3>1, <3>3, <3>4, <3>5
  <2>4. CASE u # OwnerOf[r]
    <3>1. ActiveOf(u)' \subseteq ActiveOf(u)
      BY <1>7, <1>8, <2>4 DEF ActiveOf
    <3>2. Cardinality(ActiveOf(u)') <= Cardinality(ActiveOf(u))
      BY <2>2, <3>1, FS_Subset
    <3>3. Cardinality(ActiveOf(u)) <= MaxConcurrentRuns
      BY DEF AdmissionLimits, ActiveOf
    <3> QED BY <2>2, <3>2, <3>3 DEF RunConstants
  <2> QED BY <2>3, <2>4
<1> QED BY <1>10, <1>11 DEF AdmissionLimits, ActiveOf

\* However admissions, claims, stops, recoveries and the trash follow each
\* other, a resume has one active run at most and a user no more than allowed.
THEOREM AdmissionIsLimited == Spec => []AdmissionLimits
<1>1. ASSUME Init PROVE AdmissionLimits
  <2>1. PICK a : a = NewRun(CHOOSE r \in Resumes : TRUE, 0)
    OBVIOUS
  <2>2. a \in Run
    BY <2>1, RunConstants, NewRunType DEF RunConstants
  <2>3. PICK b : b = [a EXCEPT !.status = "unborn", !.lease = "none"]
    OBVIOUS
  <2>4. b.status = "unborn"
    BY <2>2, <2>3 DEF Run
  <2>5. ASSUME NEW n \in Runs PROVE ~Active(n)
    BY <1>1, <2>1, <2>3, <2>4 DEF Init, Active, ActiveStatuses
  <2>6. ASSUME NEW u \in Users PROVE Cardinality(ActiveOf(u)) <= MaxConcurrentRuns
    <3>1. ActiveOf(u) = {}
      BY <2>5 DEF ActiveOf
    <3> QED BY <3>1, RunConstants, FS_EmptySet DEF RunConstants
  <2> QED BY <2>5, <2>6 DEF AdmissionLimits, ActiveOf
<1>2. ASSUME SafeInv, AdmissionLimits, [Next]_vars PROVE AdmissionLimits'
  <2>1. SafeStep
    BY <1>2, QuotaConstants, RunConstants, SafeInductive
  <2> QED BY <1>2, <2>1, QuotaConstants, RunConstants, NextRows, LimitsKept, LimitsAdmitted
<1> QED BY <1>1, <1>2, SafeInvariance, PTL DEF Spec
=============================================================================

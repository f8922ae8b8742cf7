---------------------------- MODULE SystemRestart ----------------------------
(***************************************************************************)
(* Rolling restart of the processes of a deployment, so that restart-only  *)
(* settings apply (src/lib/runtime/restart, src/lib/admin/system-restart):  *)
(* an operation has one target per process that needs the restart; the     *)
(* processes find in the database when it is their turn, drain, exit, are  *)
(* started again by their supervisor and report back in a new session.     *)
(***************************************************************************)
EXTENDS PlatformConfig

CONSTANT
    MaxOperations    \* bound: operations created in one behaviour

ASSUME RestartConstants == MaxOperations \in Nat

VARIABLES
    operations,    \* system_restart_operations and _targets, in order of creation
    request,       \* what each process does about a request to restart
    poll           \* the health its coordinator's poll has read, if any

vars == <<revisions, notified, proc, refresh, row, operations, request, poll>>
restartVars == <<operations, request, poll>>

-----------------------------------------------------------------------------
\* "late": the timeout of the target's present status has passed.  "none": the
\* instance is no target of the operation.
Target ==
    [status : {"none", "queued", "draining", "exiting", "awaiting_startup",
               "healthy", "failed", "timed_out"},
     session : 0..MaxSessions, late : BOOLEAN]

Operation ==
    [status : {"running", "succeeded", "failed", "timed_out"},
     desired : Versions, target : [Instances -> Target]]

\* "waiting" for a request; "claimed" one; "exiting"; "leaving"; or "deaf": a web
\* process whose request came to nothing, which never waits for another.
Request ==
    [step : {"waiting", "claimed", "exiting", "leaving", "deaf"},
     op : 0..MaxOperations]

Waiting == [step |-> "waiting", op |-> 0]

Init ==
    /\ ConfigInit
    /\ operations = <<>>
    /\ request = [i \in Instances |-> Waiting]
    /\ poll = [i \in Instances |-> "none"]

\* Queued and running operations are treated alike.
InProgress(o) == operations[o].status = "running"

NoTarget == [status |-> "none", session |-> 0, late |-> FALSE]
NewTarget(i) == [status |-> "queued", session |-> row[i].session, late |-> FALSE]

Unfinished(o) ==
    {i \in Instances : operations[o].target[i].status \notin {"none", "healthy"}}

\* targets.find: the first target that is not healthy.
IsNext(o, i) == i \in Unfinished(o) /\ \A j \in Unfinished(o) : i <= j

-----------------------------------------------------------------------------
\* createSystemRestartOperation, where it does not throw.
CreateSystemRestartOperation ==
    LET running == {i \in Instances : row[i].status = "running"}
        pending == {i \in running : row[i].health = "restart_required"}
    IN
    /\ Len(operations) < MaxOperations
    /\ \A o \in DOMAIN operations : ~InProgress(o)
    /\ \A i \in running :
         row[i].fresh /\ row[i].health \notin {"degraded", "recovery_required"}
    /\ pending # {}
    /\ \A i \in pending : row[i].desired = Active
    /\ operations' = Append(operations,
         [status |-> "running", desired |-> Active,
          target |-> [i \in Instances |-> IF i \in pending THEN NewTarget(i) ELSE NoTarget]])
    /\ UNCHANGED <<configVars, request, poll>>

\* A target's row moves on, and the operation with it.
SetTarget(o, i, target, status) ==
    operations' = [operations EXCEPT ![o].target[i] = target, ![o].status = status]

\* Time passes for a target: always while its process is away, and for a process
\* that is up only if it is slow.
TargetLate(o, i) ==
    /\ InProgress(o)
    /\ operations[o].target[i].status \in {"draining", "exiting", "awaiting_startup"}
    /\ ~operations[o].target[i].late
    /\ proc[i].phase = "down" \/ "late" \in Circumstances
    /\ operations' = [operations EXCEPT ![o].target[i].late = TRUE]
    /\ UNCHANGED <<configVars, request, poll>>

\* A draining web process has no timeout.
Expired(i, target) ==
    target.late /\ (target.status = "draining" => i \notin Web)

\* expireSystemRestartTargets, which every process' poll begins with.
ExpireTargets(o, i) ==
    LET target == operations[o].target[i] IN
    /\ \E j \in Instances : proc[j].phase = "up"
    /\ InProgress(o) /\ IsNext(o, i) /\ Expired(i, target)
    /\ SetTarget(o, i, [target EXCEPT !.status = "timed_out"], "timed_out")
    /\ UNCHANGED <<configVars, request, poll>>

\* The poll reads the health of its own process ...
PollSnapshot(i) ==
    /\ proc[i].phase = "up" /\ poll[i] = "none"
    /\ poll' = [poll EXCEPT ![i] = proc[i].health]
    /\ UNCHANGED <<configVars, operations, request>>

\* The process is the replacement of the one that was asked to restart.
Replaces(i, target) == target.session # proc[i].session

\* Mutant: a process that crashed before it was claimed is not recognized.
ReplacedOnceClaimed(o, i) ==
    /\ InProgress(o) /\ IsNext(o, i)
    /\ LET target == operations[o].target[i] IN
         /\ Replaces(i, target)
         /\ target.status \in {"draining", "exiting", "awaiting_startup"}

Replaced(o, i) ==
    /\ InProgress(o) /\ IsNext(o, i)
    /\ LET target == operations[o].target[i] IN
         /\ Replaces(i, target)
         /\ target.status \in {"queued", "draining", "exiting", "awaiting_startup"}

\* Mutant: a replacement that reports is taken to be healthy.
NeverFailed(o, i) == FALSE

StartupFailed(o, i) == poll[i] # "healthy" \/ proc[i].restart # operations[o].desired

\* ... and reports it: reconcileSystemRestartTargetStartup.
ReconcileStartup(i) ==
    /\ proc[i].phase = "up" /\ poll[i] # "none"
    /\ poll' = [poll EXCEPT ![i] = "none"]
    /\ \/ /\ \A o \in DOMAIN operations : ~Replaced(o, i)
          /\ UNCHANGED operations
       \/ \E o \in DOMAIN operations :
            LET target == operations[o].target[i] IN
            /\ Replaced(o, i)
            /\ IF StartupFailed(o, i)
               THEN SetTarget(o, i, [target EXCEPT !.status = "failed"], "failed")
               ELSE SetTarget(o, i, [target EXCEPT !.status = "healthy"],
                      IF Unfinished(o) = {i} THEN "succeeded" ELSE "running")
    /\ UNCHANGED <<configVars, request>>

\* Mutant: a process takes its target whoever's turn it is.
AnyTurn(o, i) == i \in Unfinished(o)

\* Whose turn it is to be claimed.
Turn(o, i) == IsNext(o, i)

\* claimNextSystemRestartTarget; the request reaches the process if it waits for
\* one, and is left in drainRequests for ever if not.
ClaimNextTarget(o, i) ==
    LET target == operations[o].target[i] IN
    /\ proc[i].phase = "up"
    /\ InProgress(o) /\ Turn(o, i)
    /\ target.status = "queued" /\ target.session = proc[i].session
    /\ SetTarget(o, i, [target EXCEPT !.status = "draining", !.late = FALSE], "running")
    /\ request' = [request EXCEPT ![i] =
         IF @.step = "waiting" THEN [step |-> "claimed", op |-> o] ELSE @]
    /\ UNCHANGED <<configVars, poll>>

\* Mutant: the web process exits as a worker does.
AllLeave(i) == [request EXCEPT ![i].step = "leaving"]

\* What becomes of a process whose transition was refused, or threw: a worker
\* ends all the same, the web process goes on.
Unheeded(i) == [request EXCEPT ![i].step = IF i \in Web THEN "deaf" ELSE "leaving"]

\* The conditional update of a transition.
Matches(i, status) ==
    LET target == operations[request[i].op].target[i] IN
    target.status = status /\ target.session = proc[i].session

\* markSystemRestartTargetExiting: the web process at once, a worker when its work has
\* ended.
MarkExiting(i) ==
    LET o == request[i].op IN
    /\ request[i].step = "claimed"
    /\ IF Matches(i, "draining")
       THEN /\ SetTarget(o, i, [operations[o].target[i] EXCEPT
                                  !.status = "exiting", !.late = FALSE],
                         operations[o].status)
            /\ request' = [request EXCEPT ![i].step = "exiting"]
       ELSE request' = Unheeded(i) /\ UNCHANGED operations
    /\ UNCHANGED <<configVars, poll>>

\* markSystemRestartTargetAwaitingStartup, the last thing before the process ends.
MarkAwaitingStartup(i) ==
    LET o == request[i].op IN
    /\ request[i].step = "exiting"
    /\ IF Matches(i, "exiting")
       THEN /\ SetTarget(o, i, [operations[o].target[i] EXCEPT !.status = "awaiting_startup"],
                         operations[o].status)
            /\ request' = [request EXCEPT ![i].step = "leaving"]
       ELSE request' = Unheeded(i) /\ UNCHANGED operations
    /\ UNCHANGED <<configVars, poll>>

TransitionThrows(i) ==
    /\ "failed writes" \in Circumstances
    /\ request[i].step \in {"claimed", "exiting"}
    /\ request' = Unheeded(i)
    /\ UNCHANGED <<configVars, operations, poll>>

-----------------------------------------------------------------------------
Ended(i) ==
    /\ Gone(i)
    /\ request' = [request EXCEPT ![i] = Waiting]
    /\ poll' = [poll EXCEPT ![i] = "none"]
    /\ UNCHANGED <<revisions, operations>>

\* The process ends as asked.  A worker marks its row as stopped, unless a refresh
\* writes it later; the web process, which ends by a signal, does not.
Leave(i) ==
    /\ request[i].step = "leaving"
    /\ Ended(i)
    /\ \/ i \in Web /\ UNCHANGED row
       \/ i \notin Web /\ row' = [row EXCEPT ![i] = [StateOf(proc[i]) EXCEPT !.status = "stopped"]]
       \/ /\ i \notin Web /\ refresh[i].step = "persist"
          /\ row' = [row EXCEPT ![i] = StateOf(proc[i])]

\* Bound: lives that are kept for the restarts still to come.
Reserve == MaxOperations - Cardinality({o \in DOMAIN operations : ~InProgress(o)})

Crash(i) ==
    /\ "crash" \in Circumstances
    /\ proc[i].phase # "down"
    /\ proc[i].session + Reserve < MaxSessions
    /\ Ended(i)
    /\ UNCHANGED row

Next ==
    \/ ConfigNext /\ UNCHANGED restartVars
    \/ CreateSystemRestartOperation
    \/ \E o \in DOMAIN operations, i \in Instances :
         TargetLate(o, i) \/ ExpireTargets(o, i) \/ ClaimNextTarget(o, i)
    \/ \E i \in Instances :
         \/ PollSnapshot(i) \/ ReconcileStartup(i)
         \/ MarkExiting(i) \/ MarkAwaitingStartup(i) \/ TransitionThrows(i)
         \/ Leave(i) \/ Crash(i)

Spec == Init /\ [][Next]_vars

\* Supervisors start processes again; polls, refreshes and requests go on; time
\* passes; a database that fails does not fail for ever.
Fairness ==
    \A i \in Instances :
      /\ WF_vars((StartRead(i) \/ StartListen(i)) /\ UNCHANGED restartVars)
      /\ SF_vars(RefreshRead(i) /\ UNCHANGED restartVars)
      /\ WF_vars((RefreshInstall(i) \/ RefreshPersist(i)) /\ UNCHANGED restartVars)
      /\ WF_vars(PollSnapshot(i) \/ ReconcileStartup(i))
      /\ WF_vars(\E o \in DOMAIN operations : ClaimNextTarget(o, i))
      /\ WF_vars(\E o \in DOMAIN operations : TargetLate(o, i))
      /\ WF_vars(\E o \in DOMAIN operations : ExpireTargets(o, i))
      /\ WF_vars(MarkExiting(i) \/ MarkAwaitingStartup(i) \/ Leave(i))

FairSpec == Spec /\ Fairness

-----------------------------------------------------------------------------
TypeOK ==
    /\ ConfigTypeOK
    /\ operations \in Seq(Operation) /\ Len(operations) <= MaxOperations
    /\ request \in [Instances -> Request]
    /\ poll \in [Instances -> Health \cup {"none"}]

\* An operation restarts one process after the other, workers before web
\* processes: whatever crashes, expires or answers late, the targets before the
\* one at work are healthy and those after it have not been touched.
OneTargetAtATime ==
    \A o \in DOMAIN operations, i, j \in Instances :
      LET target == operations[o].target IN
      i < j /\ target[j].status \notin {"none", "queued"} => target[i].status \in {"none", "healthy"}

\* What an operator is told a healthy target means ("the runtime session changed
\* and the desired restart revision loaded"): the process that was to be restarted
\* has ended, and its successor, even after a later publication and unless it has
\* itself been replaced since, runs with the revision the operation was created for.
HealthyTargetsRunDesired ==
    \A o \in DOMAIN operations, i \in Instances :
      LET target == operations[o].target[i] IN
      target.status = "healthy" =>
        /\ proc[i].session > target.session
        /\ proc[i].session = target.session + 1 => proc[i].restart = operations[o].desired

\* A web process is only ever told to exit by the operation that waits for it:
\* its signal finds the target in the state it has itself written, unless the
\* operation gave up on it in between.
ExitsWhenAwaited ==
    [][\A i \in Web : request[i].step = "leaving" /\ request'[i].step # "leaving" =>
         operations[request[i].op].target[i].status \in {"awaiting_startup", "timed_out"}]_vars

\* An operation ends, whichever processes crash, stall or lose their database,
\* as long as supervisors start them again.  The exception is a web process that
\* waits for no request any more: its target is left "draining", without timeout.
EveryOperationEnds ==
    \A o \in 1..MaxOperations :
      (o \in DOMAIN operations /\ InProgress(o)) ~>
        (o \in DOMAIN operations /\
          (InProgress(o) => \E i \in Web :
             request[i].step = "deaf" /\ operations[o].target[i].status = "draining"))

\* A process that stays up ends with the active revision, whatever notifications
\* it missed, or knows that it cannot read it.
EveryProcessConverges ==
    \A i \in Instances :
      <>[](proc[i].phase = "up") =>
        <>[](IF Active \in Readable(i) THEN proc[i].hot = Active
             ELSE proc[i].health = "recovery_required" \/ proc[i].health = "degraded")
=============================================================================

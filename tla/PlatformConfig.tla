---------------------------- MODULE PlatformConfig ----------------------------
(***************************************************************************)
(* The platform configuration: its revisions in the database               *)
(* (src/lib/config/store.ts) and the copy each running process keeps        *)
(* (src/lib/config/runtime.ts), refreshed by notifications and polls.       *)
(*                                                                         *)
(* A revision is known by its version.  Of its values only the restart-only *)
(* ones are kept, as one value; its other values are the version itself.   *)
(***************************************************************************)
EXTENDS Integers, Sequences, FiniteSetsExt

CONSTANTS
    MaxInstances,    \* process instances, numbered in TARGET_ORDER
    Web,             \* those that are web processes
    Values,          \* of the restart-only settings
    DefaultValue,    \* getManagedConfigDefaults
    MaxRevisions,    \* bound: revisions created in one behaviour
    MaxSessions,     \* bound: lives of one process instance
    Circumstances    \* what may happen around the code

\* TARGET_ORDER: workers come before web processes.
ASSUME ConfigConstants ==
    /\ MaxInstances \in Nat /\ MaxRevisions \in Nat /\ MaxSessions \in Nat
    /\ MaxRevisions >= 2
    /\ Web \subseteq 1..MaxInstances
    /\ \A i \in Web, j \in (1..MaxInstances) \ Web : j < i
    /\ DefaultValue \in Values

VARIABLES
    revisions,    \* system_config_revisions and _values, by version
    notified,     \* instances a notification is on its way to
    proc,         \* each instance's process and the configuration in its memory
    refresh,      \* its refreshPromise
    row           \* system_config_runtime_states

configVars == <<revisions, notified, proc, refresh, row>>

-----------------------------------------------------------------------------
Instances == 1..MaxInstances
Versions == 1..MaxRevisions

\* No revision: a null id.
None == 0

Health == {"healthy", "restart_required", "degraded", "recovery_required"}

\* "deleted": a draft another one has taken the place of.
Revision ==
    [status : {"draft", "active", "superseded", "deleted"},
     base : Versions \cup {None}, value : Values, opaque : SUBSET Instances]

Process ==
    [phase : {"down", "starting", "up"}, session : 0..MaxSessions,
     listening : BOOLEAN, desired : Versions \cup {None},
     hot : Versions \cup {None}, restart : Versions \cup {None}, health : Health]

Refresh ==
    [step : {"idle", "read", "persist"}, id : Versions \cup {None},
     outcome : {"read", "unreadable", "failed"}]

\* "none": the instance has never run.
StateRow ==
    [status : {"none", "running", "stopped"}, session : 0..MaxSessions,
     desired : Versions \cup {None}, health : Health, fresh : BOOLEAN]

Idle == [step |-> "idle", id |-> None, outcome |-> "read"]

Published == {v \in DOMAIN revisions : revisions[v].status \in {"active", "superseded"}}
Active == CHOOSE v \in DOMAIN revisions : revisions[v].status = "active"
Draft == CHOOSE v \in DOMAIN revisions : revisions[v].status = "draft"

ValueOf(v) == IF v = None THEN DefaultValue ELSE revisions[v].value

\* ensureConfigurationState has run: revision 1 is active, revision 2 its draft.
ConfigInit ==
    /\ revisions = <<[status |-> "active", base |-> None,
                      value |-> DefaultValue, opaque |-> {}],
                     [status |-> "draft", base |-> 1,
                      value |-> DefaultValue, opaque |-> {}]>>
    /\ notified = {}
    /\ proc = [i \in Instances |->
         [phase |-> "down", session |-> 0, listening |-> FALSE, desired |-> None,
          hot |-> None, restart |-> None, health |-> "healthy"]]
    /\ refresh = [i \in Instances |-> Idle]
    /\ row = [i \in Instances |->
         [status |-> "none", session |-> 0, desired |-> None,
          health |-> "healthy", fresh |-> FALSE]]

-----------------------------------------------------------------------------
(* Administrators.  Each transaction holds CONFIG_PUBLISH_LOCK.  A call     *)
(* names the active version b and the draft d its caller has seen.         *)

\* Mutant: a revision is found by its id alone, draft or not.
AnyRevision(b, d) == Active = b /\ d # b

\* The check of updateConfigurationDraft and publishConfigurationDraft.
Current(b, d) == Active = b /\ Draft = d /\ revisions[d].base = b

\* Workers with another key, or of another release, may be unable to decode
\* what the web process has written.
Opacity == IF "unreadable" \in Circumstances THEN {{}, Instances \ Web} ELSE {{}}

\* The bound: a draft that can no longer be published is no longer edited.
UpdateConfigurationDraft(b, d) ==
    /\ Current(b, d)
    /\ Len(revisions) < MaxRevisions
    /\ \E x \in Values, opaque \in Opacity :
         revisions' = [revisions EXCEPT ![d].value = x, ![d].opaque = opaque]
    /\ UNCHANGED <<notified, proc, refresh, row>>

NewDraft(b, source) ==
    [status |-> "draft", base |-> b, value |-> source.value, opaque |-> source.opaque]

\* Publication also notifies every process that listens.
PublishConfigurationDraft(b, d) ==
    /\ Current(b, d)
    /\ Len(revisions) < MaxRevisions
    /\ revisions' = Append([revisions EXCEPT ![Active].status = "superseded",
                                             ![d].status = "active"],
                           NewDraft(d, revisions[d]))
    /\ notified' = notified \cup {i \in Instances : proc[i].listening}
    /\ UNCHANGED <<proc, refresh, row>>

\* Mutant: a rollback leaves the present draft beside its own.
KeepingDraft == revisions

GivingUpDraft == [revisions EXCEPT ![Draft].status = "deleted"]

\* createRollbackDraft: the present draft is given up for a copy of revision s.
CreateRollbackDraft(s) ==
    /\ s \in Published
    /\ Len(revisions) < MaxRevisions
    /\ revisions' = Append(GivingUpDraft, NewDraft(Active, revisions[s]))
    /\ UNCHANGED <<notified, proc, refresh, row>>

-----------------------------------------------------------------------------
(* The configuration manager of a process                                  *)

\* readActiveConfigSnapshot: the active revision or, if that cannot be decoded,
\* the newest readable one before it.
Readable(i) == {v \in Published : i \notin revisions[v].opaque}

Resolved(i) ==
    IF Active \in Readable(i) THEN Active
    ELSE IF Readable(i) = {} THEN None ELSE Max(Readable(i))

\* performStart reads the configuration before it listens for notifications.
StartRead(i) ==
    /\ proc[i].phase = "down"
    /\ proc[i].session < MaxSessions
    /\ proc' = [proc EXCEPT ![i] =
         [phase |-> "starting", session |-> @.session + 1, listening |-> FALSE,
          desired |-> Active, hot |-> Resolved(i), restart |-> Resolved(i),
          health |-> IF Resolved(i) = Active THEN "healthy" ELSE "recovery_required"]]
    /\ UNCHANGED <<revisions, notified, refresh, row>>

\* persistState, as instance i writes its row.
StateOf(p) ==
    [status |-> "running", session |-> p.session, desired |-> p.desired,
     health |-> p.health, fresh |-> TRUE]

\* LISTEN may fail, which leaves the process without notifications.
StartListen(i) ==
    /\ proc[i].phase = "starting"
    /\ \E listening \in IF "deafness" \in Circumstances THEN BOOLEAN ELSE {TRUE} :
         LET p == [proc[i] EXCEPT
                     !.phase = "up", !.listening = listening,
                     !.health = IF listening THEN @ ELSE "degraded"]
         IN /\ proc' = [proc EXCEPT ![i] = p]
            /\ row' = [row EXCEPT ![i] = StateOf(p)]
    /\ UNCHANGED <<revisions, notified, refresh>>

\* Mutant: a notification is dropped and no poll ever makes up for it.
OnlyWhenNotified(i) == i \in notified

\* A refresh starts when a notification arrives or a poll is due.
MayRefresh(i) == TRUE

\* refreshNow, performRefresh up to its read of the database.
RefreshRead(i) ==
    /\ proc[i].phase = "up" /\ refresh[i].step = "idle"
    /\ MayRefresh(i)
    /\ refresh' = [refresh EXCEPT ![i] =
         [step |-> "read", id |-> Active,
          outcome |-> IF Resolved(i) = Active THEN "read" ELSE "unreadable"]]
    /\ notified' = notified \ {i}
    /\ UNCHANGED <<revisions, proc, row>>

RefreshFails(i) ==
    /\ "failed reads" \in Circumstances
    /\ proc[i].phase = "up" /\ refresh[i].step = "idle"
    /\ refresh' = [refresh EXCEPT ![i] = [step |-> "read", id |-> None, outcome |-> "failed"]]
    /\ notified' = notified \ {i}
    /\ UNCHANGED <<revisions, proc, row>>

\* A notification during a refresh joins it; one may be lost with its connection.
DropNotification(i) ==
    /\ i \in notified
    /\ refresh[i].step # "idle" \/ "deafness" \in Circumstances
    /\ notified' = notified \ {i}
    /\ UNCHANGED <<revisions, proc, refresh, row>>

\* Mutant: what is compared is the revision that was loaded hot before.
RestartRequiredSinceHot(p, id) == ValueOf(id) # ValueOf(p.hot)

\* restartRequired: compared with the values the process was started with.
RestartRequired(p, id) == ValueOf(id) # ValueOf(p.restart)

\* The snapshot performRefresh installs.
Refreshed(p, r) ==
    CASE r.outcome = "read" ->
           [p EXCEPT !.desired = r.id, !.hot = r.id,
              !.health = IF RestartRequired(p, r.id) THEN "restart_required" ELSE "healthy"]
      [] r.outcome = "unreadable" ->
           [p EXCEPT !.desired = r.id, !.health = "recovery_required"]
      [] r.outcome = "failed" ->
           [p EXCEPT !.health = "recovery_required"]

RefreshInstall(i) ==
    /\ proc[i].phase = "up" /\ refresh[i].step = "read"
    /\ proc' = [proc EXCEPT ![i] = Refreshed(@, refresh[i])]
    /\ refresh' = [refresh EXCEPT ![i].step = "persist"]
    /\ UNCHANGED <<revisions, notified, row>>

RefreshPersist(i) ==
    /\ proc[i].phase = "up" /\ refresh[i].step = "persist"
    /\ row' = [row EXCEPT ![i] = StateOf(proc[i])]
    /\ refresh' = [refresh EXCEPT ![i] = Idle]
    /\ UNCHANGED <<revisions, notified, proc>>

\* More than three heartbeat intervals since the row was written.
GoStale(i) ==
    /\ row[i].status = "running" /\ row[i].fresh
    /\ proc[i].phase # "up" \/ "slow" \in Circumstances
    /\ row' = [row EXCEPT ![i].fresh = FALSE]
    /\ UNCHANGED <<revisions, notified, proc, refresh>>

-----------------------------------------------------------------------------
(* What happens to the memory of a process that ends                       *)

Gone(i) ==
    /\ proc' = [proc EXCEPT ![i].phase = "down", ![i].listening = FALSE]
    /\ refresh' = [refresh EXCEPT ![i] = Idle]
    /\ notified' = notified \ {i}

ConfigNext ==
    \/ \E b, d \in DOMAIN revisions :
         UpdateConfigurationDraft(b, d) \/ PublishConfigurationDraft(b, d)
    \/ \E s \in DOMAIN revisions : CreateRollbackDraft(s)
    \/ \E i \in Instances :
         \/ StartRead(i) \/ StartListen(i)
         \/ RefreshRead(i) \/ RefreshFails(i) \/ DropNotification(i)
         \/ RefreshInstall(i) \/ RefreshPersist(i)
         \/ GoStale(i)

-----------------------------------------------------------------------------
Unique(status) ==
    \E v \in DOMAIN revisions :
      \A w \in DOMAIN revisions : revisions[w].status = status <=> w = v

\* The partial unique indexes: at any time one revision is active and one a draft.
ConfigTypeOK ==
    /\ revisions \in Seq(Revision) /\ Len(revisions) \in 2..MaxRevisions
    /\ Unique("active")
    /\ Unique("draft")
    /\ notified \subseteq Instances
    /\ proc \in [Instances -> Process]
    /\ refresh \in [Instances -> Refresh]
    /\ row \in [Instances -> StateRow]

\* A publication replaces exactly the revision its draft was made from: two
\* administrators, or an administrator and a rollback, never undo each other's
\* publication unseen (the checks of publishConfigurationDraft, and the base
\* each new draft is given).
Publications == INSTANCE VersionedRegister WITH
    version <- Active, base <- revisions[Active].base
PublicationsAreLinear == Publications!Spec

\* A process that believes it is healthy runs the restart-only values of the
\* revision it has loaded, and one that reports restart_required does not,
\* through publications, rollbacks to earlier values, fallbacks and failures
\* (restartRequired, installInitialSnapshot).
HealthIsTruthful ==
    \A i \in Instances : proc[i].phase # "down" =>
      /\ proc[i].health = "healthy" => ValueOf(proc[i].hot) = ValueOf(proc[i].restart)
      /\ proc[i].health = "restart_required" => ValueOf(proc[i].hot) # ValueOf(proc[i].restart)
=============================================================================

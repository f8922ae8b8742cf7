------------------------- MODULE SystemRestart_proofs -------------------------
(* Theorems about SystemRestart, and the configuration it is made of, for   *)
(* every value of their constants.                                          *)
EXTENDS SystemRestart, WellFoundedInduction, TLAPS

-----------------------------------------------------------------------------
(* Revisions                                                               *)

LEMMA MaxIsMember ==
    ASSUME NEW N \in Nat, NEW S \in SUBSET (1..N), S # {}
    PROVE  Max(S) \in S
<1> DEFINE T == {N - x : x \in S}
<1>1. T \subseteq Nat /\ T # {}
  <2>1. \A x \in S : x \in Int /\ N - x \in Nat
    OBVIOUS
  <2>2. PICK x : x \in S
    OBVIOUS
  <2> QED BY <2>1, <2>2, Zenon
<1>2. PICK t \in T : \A u \in T : ~(<<u, t>> \in OpToRel(<, Nat))
  BY <1>1, WFMin, NatLessThanWellFounded, Zenon
<1>3. \A u \in T : t <= u
  <2> SUFFICES ASSUME NEW u \in T PROVE t <= u
    OBVIOUS
  <2>1. t \in Nat /\ u \in Nat
    BY <1>1
  <2>2. <<u, t>> \in Nat \X Nat /\ <<u, t>>[1] = u /\ <<u, t>>[2] = t
    BY <2>1
  <2>3. ~(u < t)
    BY <1>2, <2>2, Zenon DEF OpToRel
  <2> QED BY <2>1, <2>3
<1>4. PICK x \in S : t = N - x
  BY Zenon
<1>5. \A y \in S : x >= y
  <2> SUFFICES ASSUME NEW y \in S PROVE x >= y
    OBVIOUS
  <2>1. N - y \in T
    BY Zenon
  <2>2. t <= N - y /\ x \in Int /\ y \in Int
    BY <1>3, <2>1
  <2> HIDE DEF T
  <2> QED BY <1>4, <2>2
<1> QED BY <1>5 DEF Max

\* A draft is always the last revision.
DraftIsLast == Draft = Len(revisions)

RevisionsOK ==
    /\ revisions \in Seq(Revision) /\ Len(revisions) \in 2..MaxRevisions
    /\ Unique("active") /\ Unique("draft")
    /\ DraftIsLast

\* The revision that is active and the one that is a draft are the only ones.
LEMMA ActiveAndDraft ==
    ASSUME ConfigConstants, RevisionsOK
    PROVE  /\ Active \in DOMAIN revisions /\ Active \in Versions
           /\ \A v \in DOMAIN revisions : revisions[v].status = "active" <=> v = Active
           /\ Draft \in DOMAIN revisions /\ Draft = Len(revisions)
           /\ \A v \in DOMAIN revisions : revisions[v].status = "draft" <=> v = Draft
           /\ Active < Draft
<1>1. PICK a \in DOMAIN revisions : \A w \in DOMAIN revisions : revisions[w].status = "active" <=> w = a
  BY DEF RevisionsOK, Unique
<1>2. PICK d \in DOMAIN revisions : \A w \in DOMAIN revisions : revisions[w].status = "draft" <=> w = d
  BY DEF RevisionsOK, Unique
<1>3. Active = a
  BY <1>1 DEF Active
<1>4. Draft = d
  BY <1>2 DEF Draft
<1>5. Draft = Len(revisions) /\ DOMAIN revisions = 1..Len(revisions) /\ Len(revisions) \in 2..MaxRevisions
  BY DEF RevisionsOK, DraftIsLast
<1>6. a # d
  BY <1>1, <1>2
<1> QED BY <1>1, <1>2, <1>3, <1>4, <1>5, <1>6 DEF Versions, ConfigConstants

LEMMA InitRevisions ==
    ASSUME ConfigConstants, ConfigInit
    PROVE  RevisionsOK /\ Active = 1
<1>1. PICK a, d : /\ revisions = <<a, d>> /\ a.status = "active" /\ d.status = "draft"
                  /\ a \in Revision /\ d \in Revision
  <2>1. PICK a : a = [status |-> "active", base |-> None, value |-> DefaultValue, opaque |-> {}]
    OBVIOUS
  <2>2. PICK d : d = [status |-> "draft", base |-> 1, value |-> DefaultValue, opaque |-> {}]
    OBVIOUS
  <2>3. a \in Revision /\ d \in Revision
    BY <2>1, <2>2 DEF Revision, Versions, None, ConfigConstants
  <2> QED BY <2>1, <2>2, <2>3 DEF ConfigInit
<1>2. revisions \in Seq(Revision) /\ Len(revisions) = 2 /\ DOMAIN revisions = {1, 2}
  BY <1>1
<1>3. \A v \in DOMAIN revisions : /\ revisions[v].status = "active" <=> v = 1
                                  /\ revisions[v].status = "draft" <=> v = 2
  BY <1>1, <1>2
<1>4. Active = 1 /\ Draft = 2
  BY <1>2, <1>3 DEF Active, Draft
<1>5. Unique("active") /\ Unique("draft")
  BY <1>2, <1>3 DEF Unique
<1> QED BY <1>2, <1>4, <1>5 DEF RevisionsOK, DraftIsLast, ConfigConstants

\* A new draft takes the place of the last one.
LEMMA AppendedDraft ==
    ASSUME ConfigConstants, RevisionsOK, Len(revisions) < MaxRevisions,
           NEW a \in DOMAIN revisions, NEW R \in Seq(Revision), NEW r \in Revision,
           Len(R) = Len(revisions), r.status = "draft", revisions' = Append(R, r),
           \A v \in DOMAIN revisions : /\ R[v].status = "active" <=> v = a
                                       /\ R[v].status # "draft"
    PROVE  RevisionsOK' /\ Active' = a
<1> DEFINE n == Len(revisions)
<1>1. n \in Nat /\ DOMAIN revisions = 1..n /\ n \in 2..MaxRevisions
  BY DEF RevisionsOK
<1>2. /\ revisions' \in Seq(Revision) /\ Len(revisions') = n + 1
      /\ DOMAIN revisions' = 1..(n + 1)
      /\ \A v \in 1..n : revisions'[v] = R[v]
      /\ revisions'[n + 1] = r
  BY <1>1
<1>3. \A v \in DOMAIN revisions' : /\ revisions'[v].status = "active" <=> v = a
                                   /\ revisions'[v].status = "draft" <=> v = n + 1
  <2> SUFFICES ASSUME NEW v \in 1..(n + 1)
               PROVE  /\ revisions'[v].status = "active" <=> v = a
                      /\ revisions'[v].status = "draft" <=> v = n + 1
    BY <1>2
  <2>1. CASE v \in 1..n
    BY <1>1, <1>2, <2>1
  <2>2. CASE v = n + 1
    BY <1>1, <1>2, <2>2
  <2> QED BY <1>1, <2>1, <2>2
<1>4. a \in DOMAIN revisions' /\ n + 1 \in DOMAIN revisions'
  BY <1>1, <1>2
<1>5. Unique("active")' /\ Unique("draft")'
  BY <1>3, <1>4 DEF Unique
<1>6. Active' = a /\ Draft' = n + 1
  BY <1>3, <1>4 DEF Active, Draft
<1>7. n + 1 \in 2..MaxRevisions
  BY <1>1 DEF ConfigConstants
<1> QED BY <1>2, <1>5, <1>6, <1>7 DEF RevisionsOK, DraftIsLast

LEMMA NewDraftType ==
    ASSUME ConfigConstants, NEW b \in Versions, NEW r \in Revision
    PROVE  NewDraft(b, r) \in Revision /\ NewDraft(b, r).status = "draft"
BY DEF NewDraft, Revision

\* What the administrators do to the active revision.
ActiveStep ==
    \/ Active' = Active /\ revisions'[Active].base = revisions[Active].base
    \/ Active' \in Nat /\ Active' > Active /\ revisions'[Active'].base = Active

LEMMA SameUnique ==
    ASSUME NEW status, Unique(status), DOMAIN revisions' = DOMAIN revisions,
           \A v \in DOMAIN revisions : revisions'[v].status = revisions[v].status
    PROVE  Unique(status)'
<1>1. PICK a \in DOMAIN revisions : \A w \in DOMAIN revisions : revisions[w].status = status <=> w = a
  BY DEF Unique
<1>2. /\ a \in DOMAIN revisions'
      /\ \A w \in DOMAIN revisions' : revisions'[w].status = status <=> w = a
  BY <1>1
<1> QED BY <1>2 DEF Unique

LEMMA UpdateStep ==
    ASSUME ConfigConstants, RevisionsOK, NEW b, NEW d, UpdateConfigurationDraft(b, d)
    PROVE  RevisionsOK' /\ ActiveStep
<1>1. d = Draft /\ d \in DOMAIN revisions
  BY ActiveAndDraft DEF UpdateConfigurationDraft, Current
<1>2. PICK x \in Values, o \in SUBSET Instances :
         revisions' = [revisions EXCEPT ![d].value = x, ![d].opaque = o]
  <2>1. Opacity \subseteq SUBSET Instances
    BY DEF Opacity
  <2> QED BY <2>1 DEF UpdateConfigurationDraft
<1>3. PICK q \in Revision : q = revisions[d]
  BY <1>1 DEF RevisionsOK
<1>4. PICK r : r = [q EXCEPT !.value = x, !.opaque = o]
  OBVIOUS
<1>5. r \in Revision /\ r.status = q.status /\ r.base = q.base
  BY <1>4 DEF Revision
<1>6. revisions' = [revisions EXCEPT ![d] = r]
  BY <1>1, <1>2, <1>3, <1>4 DEF RevisionsOK
<1>7. /\ revisions' \in Seq(Revision) /\ Len(revisions') = Len(revisions)
      /\ DOMAIN revisions' = DOMAIN revisions
      /\ \A v \in DOMAIN revisions : /\ revisions'[v].status = revisions[v].status
                                     /\ revisions'[v].base = revisions[v].base
  BY <1>1, <1>3, <1>5, <1>6 DEF RevisionsOK
<1>8. Active' = Active /\ Draft' = Draft
  BY <1>7 DEF Active, Draft
<1>9. Unique("active")' /\ Unique("draft")'
  BY <1>7, SameUnique DEF RevisionsOK
<1>10. revisions'[Active].base = revisions[Active].base
  BY <1>7, ActiveAndDraft
<1> QED BY <1>7, <1>8, <1>9, <1>10 DEF RevisionsOK, DraftIsLast, ActiveStep

LEMMA PublishStep ==
    ASSUME ConfigConstants, RevisionsOK, NEW b, NEW d, PublishConfigurationDraft(b, d)
    PROVE  RevisionsOK' /\ ActiveStep
<1>1. /\ d = Draft /\ d \in DOMAIN revisions /\ Active \in DOMAIN revisions /\ Active < d
      /\ revisions[d].base = Active /\ Len(revisions) < MaxRevisions
  BY ActiveAndDraft DEF PublishConfigurationDraft, Current
<1>2. PICK p \in Revision, q \in Revision : p = revisions[Active] /\ q = revisions[d]
  BY <1>1 DEF RevisionsOK
<1>3. PICK p2, q2 : p2 = [p EXCEPT !.status = "superseded"] /\ q2 = [q EXCEPT !.status = "active"]
  OBVIOUS
<1>4. /\ p2 \in Revision /\ p2.status = "superseded"
      /\ q2 \in Revision /\ q2.status = "active" /\ q2.base = q.base
  BY <1>3 DEF Revision
<1>5. PICK R : R = [revisions EXCEPT ![Active] = p2, ![d] = q2]
  OBVIOUS
<1>6. /\ R \in Seq(Revision) /\ Len(R) = Len(revisions)
      /\ R[d] = q2 /\ R[Active] = p2
      /\ \A v \in DOMAIN revisions \ {Active, d} : R[v] = revisions[v]
  BY <1>1, <1>4, <1>5 DEF RevisionsOK
<1>7. R = [revisions EXCEPT ![Active].status = "superseded", ![d].status = "active"]
  BY <1>1, <1>2, <1>3, <1>5 DEF RevisionsOK
<1>8. PICK r : r = NewDraft(d, revisions[d])
  OBVIOUS
<1>9. r \in Revision /\ r.status = "draft"
  BY <1>1, <1>2, <1>8, NewDraftType DEF RevisionsOK, Versions
<1>10. revisions' = Append(R, r)
  BY <1>7, <1>8 DEF PublishConfigurationDraft
<1>11. \A v \in DOMAIN revisions : /\ R[v].status = "active" <=> v = d
                                   /\ R[v].status # "draft"
  BY <1>1, <1>4, <1>6, ActiveAndDraft
<1>12. RevisionsOK' /\ Active' = d
  BY <1>1, <1>6, <1>9, <1>10, <1>11, AppendedDraft
<1>13. revisions'[d].base = Active
  BY <1>1, <1>2, <1>4, <1>6, <1>10 DEF RevisionsOK
<1> QED BY <1>1, <1>12, <1>13 DEF ActiveStep

LEMMA RollbackStep ==
    ASSUME ConfigConstants, RevisionsOK, NEW s \in DOMAIN revisions, CreateRollbackDraft(s)
    PROVE  RevisionsOK' /\ ActiveStep
<1>1. /\ Draft \in DOMAIN revisions /\ Active \in DOMAIN revisions /\ Active < Draft
      /\ Active \in Versions /\ Len(revisions) < MaxRevisions
  BY ActiveAndDraft DEF CreateRollbackDraft
<1>2. PICK q \in Revision : q = revisions[Draft]
  BY <1>1 DEF RevisionsOK
<1>3. PICK q2 : q2 = [q EXCEPT !.status = "deleted"]
  OBVIOUS
<1>4. q2 \in Revision /\ q2.status = "deleted"
  BY <1>3 DEF Revision
<1>5. PICK R : R = [revisions EXCEPT ![Draft] = q2]
  OBVIOUS
<1>6. /\ R \in Seq(Revision) /\ Len(R) = Len(revisions)
      /\ R[Draft] = q2 /\ \A v \in DOMAIN revisions \ {Draft} : R[v] = revisions[v]
  BY <1>1, <1>4, <1>5 DEF RevisionsOK
<1>7. R = GivingUpDraft
  BY <1>1, <1>2, <1>3, <1>5 DEF RevisionsOK, GivingUpDraft
<1>8. PICK r : r = NewDraft(Active, revisions[s])
  OBVIOUS
<1>9. r \in Revision /\ r.status = "draft"
  BY <1>1, <1>8, NewDraftType DEF RevisionsOK
<1>10. revisions' = Append(R, r)
  BY <1>7, <1>8 DEF CreateRollbackDraft
<1>11. \A v \in DOMAIN revisions : /\ R[v].status = "active" <=> v = Active
                                   /\ R[v].status # "draft"
  BY <1>1, <1>4, <1>6, ActiveAndDraft
<1>12. RevisionsOK' /\ Active' = Active
  BY <1>1, <1>6, <1>9, <1>10, <1>11, AppendedDraft
<1>13. revisions'[Active].base = revisions[Active].base
  BY <1>1, <1>6, <1>10 DEF RevisionsOK
<1> QED BY <1>12, <1>13 DEF ActiveStep

LEMMA SameRevisions ==
    ASSUME RevisionsOK, revisions' = revisions
    PROVE  RevisionsOK' /\ ActiveStep
<1>1. Active' = Active /\ Draft' = Draft
  BY DEF Active, Draft
<1>2. Unique("active")' /\ Unique("draft")'
  BY SameUnique DEF RevisionsOK
<1> QED BY <1>1, <1>2 DEF RevisionsOK, DraftIsLast, ActiveStep

\* Revisions change by the transactions of administrators only.
LEMMA RevisionsChange ==
    ASSUME [Next]_vars
    PROVE  \/ revisions' = revisions
           \/ \E b, d \in DOMAIN revisions :
                UpdateConfigurationDraft(b, d) \/ PublishConfigurationDraft(b, d)
           \/ \E s \in DOMAIN revisions : CreateRollbackDraft(s)
BY Zenon DEF Next, ConfigNext, vars, configVars, StartRead, StartListen, RefreshRead, RefreshFails,
   DropNotification, RefreshInstall, RefreshPersist, GoStale, CreateSystemRestartOperation,
   TargetLate, ExpireTargets, ClaimNextTarget, PollSnapshot, ReconcileStartup, MarkExiting,
   MarkAwaitingStartup, TransitionThrows, Leave, Crash, Ended

LEMMA RevisionsStep ==
    ASSUME ConfigConstants, RevisionsOK, [Next]_vars
    PROVE  RevisionsOK' /\ ActiveStep
BY RevisionsChange, SameRevisions, UpdateStep, PublishStep, RollbackStep

\* A publication, of whoever's draft, replaces the revision that draft was made from.
THEOREM PublicationsImplementRegister == Spec => PublicationsAreLinear
<1> USE ConfigConstants
<1>1. Init => RevisionsOK /\ Publications!Init
  <2> SUFFICES ASSUME Init PROVE RevisionsOK /\ Publications!Init
    OBVIOUS
  <2>1. RevisionsOK /\ Active = 1
    BY InitRevisions DEF Init
  <2>2. revisions[1].base = None
    BY DEF Init, ConfigInit
  <2> QED BY <2>1, <2>2 DEF Publications!Init, None
<1>2. RevisionsOK /\ [Next]_vars => RevisionsOK'
  BY RevisionsStep
<1>3. RevisionsOK /\ [Next]_vars => [Publications!Write]_Publications!registerVars
  <2> SUFFICES ASSUME RevisionsOK, [Next]_vars PROVE [Publications!Write]_Publications!registerVars
    OBVIOUS
  <2>1. RevisionsOK' /\ ActiveStep
    BY RevisionsStep
  <2> QED BY <2>1 DEF ActiveStep, Publications!Write, Publications!registerVars
<1> QED BY <1>1, <1>2, <1>3, PTL DEF Spec, PublicationsAreLinear, Publications!Spec

-----------------------------------------------------------------------------
(* Type correctness                                                        *)

\* The types of what processes remember and of their rows.
ProcessesOK ==
    /\ notified \subseteq Instances
    /\ proc \in [Instances -> Process]
    /\ refresh \in [Instances -> Refresh]
    /\ row \in [Instances -> StateRow]

LEMMA StateOfType == ASSUME NEW p \in Process PROVE StateOf(p) \in StateRow
BY DEF StateOf, Process, StateRow

LEMMA ResolvedType ==
    ASSUME ConfigConstants, RevisionsOK, NEW i
    PROVE  Resolved(i) \in Versions \cup {None}
<1>1. Active \in Versions
  BY ActiveAndDraft
<1>2. Readable(i) \subseteq 1..MaxRevisions
  BY DEF Readable, Published, RevisionsOK, ConfigConstants
<1>3. Readable(i) # {} => Max(Readable(i)) \in Readable(i)
  BY <1>2, MaxIsMember DEF ConfigConstants
<1> QED BY <1>1, <1>2, <1>3 DEF Resolved, Versions

LEMMA RefreshedType ==
    ASSUME NEW p \in Process, NEW r \in Refresh
    PROVE  Refreshed(p, r) \in Process
<1>1. CASE r.outcome = "read"
  <2>1. PICK h : h = IF RestartRequired(p, r.id) THEN "restart_required" ELSE "healthy"
    OBVIOUS
  <2>2. PICK d : d = r.id
    OBVIOUS
  <2>3. h \in Health /\ d \in Versions \cup {None}
    BY <2>1, <2>2 DEF Health, Refresh
  <2>4. PICK q : q = [p EXCEPT !.desired = d, !.hot = d, !.health = h]
    OBVIOUS
  <2>5. q \in Process
    BY <2>3, <2>4 DEF Process
  <2>6. Refreshed(p, r) = q
    BY <1>1, <2>1, <2>2, <2>4 DEF Refreshed
  <2> QED BY <2>5, <2>6
<1>2. CASE r.outcome = "unreadable"
  <2>1. PICK d : d = r.id
    OBVIOUS
  <2>2. d \in Versions \cup {None}
    BY <2>1 DEF Refresh
  <2>3. PICK q : q = [p EXCEPT !.desired = d, !.health = "recovery_required"]
    OBVIOUS
  <2>4. q \in Process
    BY <2>2, <2>3 DEF Process, Health
  <2>5. Refreshed(p, r) = q
    BY <1>2, <2>1, <2>3 DEF Refreshed
  <2> QED BY <2>4, <2>5
<1>3. CASE r.outcome = "failed"
  <2>1. PICK q : q = [p EXCEPT !.health = "recovery_required"]
    OBVIOUS
  <2>2. q \in Process
    BY <2>1 DEF Process, Health
  <2>3. Refreshed(p, r) = q
    BY <1>3, <2>1 DEF Refreshed
  <2> QED BY <2>2, <2>3
<1> QED BY <1>1, <1>2, <1>3 DEF Refresh

LEMMA GoneType ==
    ASSUME ConfigConstants, ProcessesOK, NEW i \in Instances, Gone(i)
    PROVE  /\ notified' \subseteq Instances
           /\ proc' \in [Instances -> Process]
           /\ refresh' \in [Instances -> Refresh]
<1>1. notified' \subseteq Instances /\ refresh' \in [Instances -> Refresh]
  BY DEF Gone, ProcessesOK, Idle, Refresh, None
<1>2. PICK p \in Process : p = proc[i]
  BY DEF ProcessesOK
<1>3. PICK q : q = [p EXCEPT !.phase = "down", !.listening = FALSE]
  OBVIOUS
<1>4. q \in Process
  BY <1>3 DEF Process
<1>5. proc' = [proc EXCEPT ![i] = q]
  BY <1>2, <1>3 DEF Gone, ProcessesOK
<1> QED BY <1>1, <1>4, <1>5 DEF ProcessesOK

LEMMA ConfigProcesses ==
    ASSUME ConfigConstants, RevisionsOK, ProcessesOK, ConfigNext
    PROVE  ProcessesOK'
<1> USE DEF ConfigConstants
<1>1. ASSUME NEW b, NEW d, UpdateConfigurationDraft(b, d) \/ PublishConfigurationDraft(b, d)
      PROVE  ProcessesOK'
  BY <1>1 DEF UpdateConfigurationDraft, PublishConfigurationDraft, ProcessesOK
<1>2. ASSUME NEW s, CreateRollbackDraft(s) PROVE ProcessesOK'
  BY <1>2 DEF CreateRollbackDraft, ProcessesOK
<1>3. ASSUME NEW i \in Instances, StartRead(i) PROVE ProcessesOK'
  <2>1. PICK a, v : a = Active /\ v = Resolved(i)
    OBVIOUS
  <2>2. a \in Versions /\ v \in Versions \cup {None}
    BY <2>1, ActiveAndDraft, ResolvedType
  <2>3. PICK h : h = IF v = a THEN "healthy" ELSE "recovery_required"
    OBVIOUS
  <2>4. PICK p \in Process : p = proc[i]
    BY DEF ProcessesOK
  <2>5. PICK q : q = [phase |-> "starting", session |-> p.session + 1, listening |-> FALSE,
                      desired |-> a, hot |-> v, restart |-> v, health |-> h]
    OBVIOUS
  <2>6. p.session + 1 \in 0..MaxSessions
    BY <1>3, <2>4 DEF StartRead, Process
  <2>7. q \in Process
    BY <2>2, <2>3, <2>5, <2>6 DEF Process, Health
  <2>8. proc' = [proc EXCEPT ![i] = q]
    BY <1>3, <2>1, <2>3, <2>4, <2>5 DEF StartRead, ProcessesOK
  <2> QED BY <1>3, <2>7, <2>8 DEF StartRead, ProcessesOK
<1>4. ASSUME NEW i \in Instances, StartListen(i) PROVE ProcessesOK'
  <2>0. PICK l \in BOOLEAN :
          LET q == [proc[i] EXCEPT !.phase = "up", !.listening = l,
                                   !.health = IF l THEN @ ELSE "degraded"]
          IN  proc' = [proc EXCEPT ![i] = q] /\ row' = [row EXCEPT ![i] = StateOf(q)]
    BY <1>4 DEF StartListen
  <2>1. PICK q :
           /\ q = [proc[i] EXCEPT !.phase = "up", !.listening = l,
                                  !.health = IF l THEN @ ELSE "degraded"]
           /\ proc' = [proc EXCEPT ![i] = q] /\ row' = [row EXCEPT ![i] = StateOf(q)]
    BY <2>0
  <2>2. PICK p \in Process : p = proc[i]
    BY DEF ProcessesOK
  <2>3. PICK h : h = IF l THEN p.health ELSE "degraded"
    OBVIOUS
  <2>4. h \in Health
    BY <2>3 DEF Process, Health
  <2>5. q = [p EXCEPT !.phase = "up", !.listening = l, !.health = h]
    BY <2>1, <2>2, <2>3
  <2>6. q \in Process
    BY <2>4, <2>5 DEF Process
  <2> QED BY <1>4, <2>1, <2>6, StateOfType DEF StartListen, ProcessesOK
<1>5. ASSUME NEW i \in Instances, RefreshRead(i) PROVE ProcessesOK'
  <2>1. PICK r : r = [step |-> "read", id |-> Active,
                      outcome |-> IF Resolved(i) = Active THEN "read" ELSE "unreadable"]
    OBVIOUS
  <2>2. r \in Refresh
    BY <2>1, ActiveAndDraft DEF Refresh
  <2> QED BY <1>5, <2>1, <2>2 DEF RefreshRead, ProcessesOK
<1>6. ASSUME NEW i \in Instances, RefreshFails(i) PROVE ProcessesOK'
  BY <1>6 DEF RefreshFails, ProcessesOK, Refresh
<1>7. ASSUME NEW i \in Instances, DropNotification(i) PROVE ProcessesOK'
  BY <1>7 DEF DropNotification, ProcessesOK
<1>8. ASSUME NEW i \in Instances, RefreshInstall(i) PROVE ProcessesOK'
  <2>1. Refreshed(proc[i], refresh[i]) \in Process
    BY RefreshedType DEF ProcessesOK
  <2>2. proc' \in [Instances -> Process]
    BY <1>8, <2>1 DEF RefreshInstall, ProcessesOK
  <2>3. refresh' \in [Instances -> Refresh]
    <3>1. [refresh[i] EXCEPT !.step = "persist"] \in Refresh
      BY DEF ProcessesOK, Refresh
    <3> QED BY <1>8, <3>1 DEF RefreshInstall, ProcessesOK
  <2> QED BY <1>8, <2>2, <2>3 DEF RefreshInstall, ProcessesOK
<1>9. ASSUME NEW i \in Instances, RefreshPersist(i) PROVE ProcessesOK'
  <2>1. StateOf(proc[i]) \in StateRow
    BY StateOfType DEF ProcessesOK
  <2>2. Idle \in Refresh
    BY DEF Idle, Refresh
  <2> QED BY <1>9, <2>1, <2>2 DEF RefreshPersist, ProcessesOK
<1>10. ASSUME NEW i \in Instances, GoStale(i) PROVE ProcessesOK'
  BY <1>10 DEF GoStale, ProcessesOK, StateRow
<1> QED BY <1>1, <1>2, <1>3, <1>4, <1>5, <1>6, <1>7, <1>8, <1>9, <1>10 DEF ConfigNext

LEMMA EndedProcesses ==
    ASSUME ConfigConstants, ProcessesOK, NEW i \in Instances, Leave(i) \/ Crash(i)
    PROVE  ProcessesOK'
<1>1. Gone(i)
  BY DEF Leave, Crash, Ended
<1>2. row' \in [Instances -> StateRow]
  <2>1. StateOf(proc[i]) \in StateRow
    BY StateOfType DEF ProcessesOK
  <2>2. [StateOf(proc[i]) EXCEPT !.status = "stopped"] \in StateRow
    BY <2>1 DEF StateRow
  <2> QED BY <2>1, <2>2 DEF Leave, Crash, ProcessesOK
<1> QED BY <1>1, <1>2, GoneType DEF ProcessesOK

LEMMA ProcessesStep ==
    ASSUME ConfigConstants, RevisionsOK, ProcessesOK, [Next]_vars
    PROVE  ProcessesOK'
<1>1. CASE UNCHANGED configVars
  BY <1>1 DEF configVars, ProcessesOK
<1>2. \/ ConfigNext \/ \E i \in Instances : Leave(i) \/ Crash(i)
      \/ UNCHANGED configVars
  BY ZenonT(60) DEF Next, vars, configVars, CreateSystemRestartOperation,
     TargetLate, ExpireTargets, ClaimNextTarget, PollSnapshot, ReconcileStartup, MarkExiting,
     MarkAwaitingStartup, TransitionThrows
<1> QED BY <1>1, <1>2, ConfigProcesses, EndedProcesses

-----------------------------------------------------------------------------
(* Operations and their targets                                            *)

OperationsOK ==
    /\ operations \in Seq(Operation) /\ Len(operations) <= MaxOperations
    /\ request \in [Instances -> Request]
    /\ poll \in [Instances -> Health \cup {"none"}]

\* A process that does something about a request is up and knows an operation; a web
\* process that leaves has told it so in its present session.
RequestsOK ==
    \A i \in Instances : request[i].step # "waiting" =>
        /\ proc[i].phase = "up" /\ request[i].op \in DOMAIN operations
        /\ i \in Web /\ request[i].step = "leaving" =>
             /\ operations[request[i].op].target[i].session = proc[i].session
             /\ operations[request[i].op].target[i].status \in {"awaiting_startup", "timed_out"}

\* No row and no target knows a session that has not begun.
SessionsOK ==
    \A i \in Instances :
        /\ row[i].session <= proc[i].session
        /\ \A o \in DOMAIN operations : operations[o].target[i].session <= proc[i].session

IInv ==
    /\ RevisionsOK /\ ProcessesOK /\ OperationsOK
    /\ RequestsOK /\ SessionsOK
    /\ OneTargetAtATime /\ HealthyTargetsRunDesired

\* It is the target's turn.
AtWork(o, i) ==
    /\ operations[o].target[i].status \notin {"none", "healthy"}
    /\ \A j \in Instances : j < i => operations[o].target[j].status \in {"none", "healthy"}

OperationStatuses == {"running", "succeeded", "failed", "timed_out"}

\* What an action may make of the target at work: it keeps the session; only a
\* replacement with the desired values makes it healthy; a process that is awaited
\* does not settle its own target.
Moves(o, i, target) ==
    LET old == operations[o].target[i] IN
    /\ AtWork(o, i)
    /\ target \in Target /\ target.session = old.session
    /\ target.status = "healthy" =>
         proc[i].session # old.session /\ proc[i].restart = operations[o].desired
    /\ old.session = proc[i].session /\ old.status \in {"awaiting_startup", "timed_out"} =>
         target.status \in {"awaiting_startup", "timed_out"}

NewOperation(op) ==
    /\ op \in Operation
    /\ \A i \in Instances : /\ op.target[i].status \in {"none", "queued"}
                            /\ op.target[i].session <= proc[i].session

TargetsStep ==
    \/ operations' = operations
    \/ /\ Len(operations) < MaxOperations
       /\ \E op : NewOperation(op) /\ operations' = Append(operations, op)
    \/ \E o \in DOMAIN operations, i \in Instances, target \in Target, status \in OperationStatuses :
         Moves(o, i, target) /\ SetTarget(o, i, target, status)

\* A target whose turn it is, by its place or because it has been claimed.
LEMMA NextIsAtWork ==
    ASSUME OperationsOK, NEW o \in DOMAIN operations, NEW i \in Instances, IsNext(o, i)
    PROVE  AtWork(o, i)
BY DEF IsNext, Unfinished, AtWork, Instances

LEMMA ClaimedIsAtWork ==
    ASSUME OneTargetAtATime, NEW o \in DOMAIN operations, NEW i \in Instances,
           operations[o].target[i].status \in {"draining", "exiting", "awaiting_startup"}
    PROVE  AtWork(o, i)
BY DEF OneTargetAtATime, AtWork

LEMMA SetTargetType ==
    ASSUME OperationsOK, NEW o \in DOMAIN operations, NEW i \in Instances, NEW target \in Target,
           NEW status \in OperationStatuses, SetTarget(o, i, target, status)
    PROVE  /\ operations' \in Seq(Operation) /\ Len(operations') = Len(operations)
           /\ DOMAIN operations' = DOMAIN operations
           /\ operations'[o].target = [operations[o].target EXCEPT ![i] = target]
           /\ operations'[o].status = status /\ operations'[o].desired = operations[o].desired
           /\ \A p \in DOMAIN operations \ {o} : operations'[p] = operations[p]
<1>1. PICK q \in Operation : q = operations[o]
  BY DEF OperationsOK
<1>2. PICK f : f = [q.target EXCEPT ![i] = target]
  OBVIOUS
<1>3. f \in [Instances -> Target]
  BY <1>2 DEF Operation
<1>4. PICK r : r = [q EXCEPT !.target = f, !.status = status]
  OBVIOUS
<1>5. r \in Operation /\ r.target = f /\ r.status = status /\ r.desired = q.desired
  BY <1>3, <1>4 DEF Operation, OperationStatuses
<1>6. operations' = [operations EXCEPT ![o] = r]
  BY <1>1, <1>2, <1>4 DEF SetTarget, OperationsOK
<1> QED BY <1>1, <1>2, <1>5, <1>6 DEF OperationsOK

LEMMA TargetType ==
    ASSUME OperationsOK, NEW o \in DOMAIN operations, NEW i \in Instances
    PROVE  operations[o].target[i] \in Target /\ operations[o].status \in OperationStatuses
<1>1. PICK q \in Operation : q = operations[o]
  BY DEF OperationsOK
<1> QED BY <1>1 DEF Operation, OperationStatuses

\* The rows the actions write.
LEMMA StatusTarget ==
    ASSUME NEW t \in Target, NEW s \in {"exiting", "awaiting_startup", "healthy", "failed", "timed_out"},
           NEW b, b = [t EXCEPT !.status = s]
    PROVE  b \in Target /\ b.status = s /\ b.session = t.session
BY DEF Target

LEMMA FreshTarget ==
    ASSUME NEW t \in Target, NEW s \in {"draining", "exiting"},
           NEW b, b = [t EXCEPT !.status = s, !.late = FALSE]
    PROVE  b \in Target /\ b.status = s /\ b.session = t.session
BY DEF Target

LEMMA LateTarget ==
    ASSUME NEW t \in Target, NEW b, b = [t EXCEPT !.late = TRUE]
    PROVE  b \in Target /\ b.status = t.status /\ b.session = t.session
BY DEF Target

LEMMA CreateStep ==
    ASSUME ConfigConstants, IInv, CreateSystemRestartOperation
    PROVE  TargetsStep
<1> DEFINE running == {i \in Instances : row[i].status = "running"}
           pending == {i \in running : row[i].health = "restart_required"}
<1>1. PICK f : f = [i \in Instances |-> IF i \in pending THEN NewTarget(i) ELSE NoTarget]
  OBVIOUS
<1>2. ASSUME NEW i \in Instances
      PROVE  f[i] \in Target /\ f[i].status \in {"none", "queued"} /\ f[i].session <= proc[i].session
  <2>1. row[i].session \in 0..MaxSessions /\ proc[i].session \in 0..MaxSessions
    BY DEF IInv, ProcessesOK, StateRow, Process
  <2>2. row[i].session <= proc[i].session
    BY DEF IInv, SessionsOK
  <2>3. NewTarget(i) \in Target /\ NoTarget \in Target
    BY <2>1 DEF NewTarget, NoTarget, Target, ConfigConstants
  <2>4. f[i] = NewTarget(i) \/ f[i] = NoTarget
    BY <1>1
  <2> QED BY <2>1, <2>2, <2>3, <2>4 DEF NewTarget, NoTarget
<1>3. f \in [Instances -> Target]
  BY <1>1, <1>2
<1>4. PICK a : a = Active
  OBVIOUS
<1>5. a \in Versions
  BY <1>4, ActiveAndDraft DEF IInv
<1>6. PICK op : op = [status |-> "running", desired |-> a, target |-> f]
  OBVIOUS
<1>7. op \in Operation /\ op.target = f
  BY <1>3, <1>5, <1>6 DEF Operation
<1>8. Len(operations) < MaxOperations /\ operations' = Append(operations, op)
  BY <1>1, <1>4, <1>6 DEF CreateSystemRestartOperation
<1>9. NewOperation(op)
  BY <1>2, <1>7 DEF NewOperation
<1> QED BY <1>8, <1>9 DEF TargetsStep

LEMMA LateStep ==
    ASSUME ConfigConstants, IInv, NEW o \in DOMAIN operations, NEW i \in Instances, TargetLate(o, i)
    PROVE  TargetsStep
<1>1. PICK t \in Target : t = operations[o].target[i]
  BY TargetType DEF IInv
<1>2. PICK b : b = [t EXCEPT !.late = TRUE]
  OBVIOUS
<1>3. b \in Target /\ b.status = t.status /\ b.session = t.session
  BY <1>2, LateTarget
<1>4. AtWork(o, i)
  BY ClaimedIsAtWork DEF TargetLate, IInv
<1>5. Moves(o, i, b)
  BY <1>1, <1>3, <1>4 DEF Moves, AtWork
<1>6. SetTarget(o, i, b, operations[o].status)
  <2>1. PICK q \in Operation : q = operations[o]
    BY DEF IInv, OperationsOK
  <2>2. operations' = [operations EXCEPT ![o] = [q EXCEPT !.target = [q.target EXCEPT ![i] = b]]]
    BY <1>1, <1>2, <2>1 DEF TargetLate
  <2>3. [q EXCEPT !.target = [q.target EXCEPT ![i] = b]]
          = [q EXCEPT !.target = [q.target EXCEPT ![i] = b], !.status = q.status]
    BY DEF Operation
  <2> QED BY <2>1, <2>2, <2>3 DEF SetTarget, IInv, OperationsOK
<1>7. operations[o].status \in OperationStatuses
  BY TargetType DEF IInv
<1> QED BY <1>3, <1>5, <1>6, <1>7 DEF TargetsStep

\* An action that gives the target at work another status.
LEMMA StatusStep ==
    ASSUME ConfigConstants, IInv, NEW o \in DOMAIN operations, NEW i \in Instances, AtWork(o, i),
           NEW s \in {"exiting", "awaiting_startup", "healthy", "failed", "timed_out"},
           NEW status \in OperationStatuses,
           SetTarget(o, i, [operations[o].target[i] EXCEPT !.status = s], status),
           s = "healthy" => /\ proc[i].session # operations[o].target[i].session
                            /\ proc[i].restart = operations[o].desired,
           operations[o].target[i].session = proc[i].session
             /\ operations[o].target[i].status \in {"awaiting_startup", "timed_out"}
           => s \in {"awaiting_startup", "timed_out"}
    PROVE  TargetsStep
<1>1. PICK t \in Target : t = operations[o].target[i]
  BY TargetType DEF IInv
<1>2. PICK b : b = [t EXCEPT !.status = s]
  OBVIOUS
<1>3. b \in Target /\ b.status = s /\ b.session = t.session
  BY <1>2, StatusTarget
<1>4. Moves(o, i, b)
  BY <1>1, <1>3 DEF Moves
<1>5. SetTarget(o, i, b, status)
  BY <1>1, <1>2
<1> QED BY <1>3, <1>4, <1>5 DEF TargetsStep

LEMMA FreshStep ==
    ASSUME ConfigConstants, IInv, NEW o \in DOMAIN operations, NEW i \in Instances, AtWork(o, i),
           NEW s \in {"draining", "exiting"}, NEW status \in OperationStatuses,
           SetTarget(o, i, [operations[o].target[i] EXCEPT !.status = s, !.late = FALSE], status),
           operations[o].target[i].status \in {"queued", "draining"}
    PROVE  TargetsStep
<1>1. PICK t \in Target : t = operations[o].target[i]
  BY TargetType DEF IInv
<1>2. PICK b : b = [t EXCEPT !.status = s, !.late = FALSE]
  OBVIOUS
<1>3. b \in Target /\ b.status = s /\ b.session = t.session
  BY <1>2, FreshTarget
<1>4. Moves(o, i, b)
  BY <1>1, <1>3 DEF Moves
<1>5. SetTarget(o, i, b, status)
  BY <1>1, <1>2
<1> QED BY <1>3, <1>4, <1>5 DEF TargetsStep

LEMMA OperationsStep ==
    ASSUME ConfigConstants, IInv, [Next]_vars
    PROVE  TargetsStep
<1>1. CASE operations' = operations
  BY <1>1 DEF TargetsStep
<1>2. ASSUME NEW o \in DOMAIN operations, NEW i \in Instances, ExpireTargets(o, i) PROVE TargetsStep
  BY <1>2, NextIsAtWork, StatusStep DEF ExpireTargets, OperationStatuses, IInv
<1>3. ASSUME NEW o \in DOMAIN operations, NEW i \in Instances, ClaimNextTarget(o, i) PROVE TargetsStep
  BY <1>3, NextIsAtWork, FreshStep DEF ClaimNextTarget, Turn, OperationStatuses, IInv
<1>4. ASSUME NEW i \in Instances, ReconcileStartup(i), operations' # operations PROVE TargetsStep
  <2>1. PICK o \in DOMAIN operations :
           /\ Replaced(o, i)
           /\ IF StartupFailed(o, i)
              THEN SetTarget(o, i, [operations[o].target[i] EXCEPT !.status = "failed"], "failed")
              ELSE SetTarget(o, i, [operations[o].target[i] EXCEPT !.status = "healthy"],
                     IF Unfinished(o) = {i} THEN "succeeded" ELSE "running")
    BY <1>4 DEF ReconcileStartup
  <2>2. AtWork(o, i) /\ proc[i].session # operations[o].target[i].session
    BY <2>1, NextIsAtWork DEF Replaced, Replaces, IInv
  <2>3. CASE StartupFailed(o, i)
    BY <2>1, <2>2, <2>3, StatusStep DEF OperationStatuses
  <2>4. CASE ~StartupFailed(o, i)
    <3>1. proc[i].restart = operations[o].desired
      BY <2>4 DEF StartupFailed
    <3>2. PICK status \in OperationStatuses :
             SetTarget(o, i, [operations[o].target[i] EXCEPT !.status = "healthy"], status)
      BY <2>1, <2>4 DEF OperationStatuses
    <3> QED BY <2>2, <3>1, <3>2, StatusStep
  <2> QED BY <2>3, <2>4
<1>5. ASSUME NEW i \in Instances, MarkExiting(i), operations' # operations PROVE TargetsStep
  <2>1. PICK o \in DOMAIN operations : o = request[i].op
    BY <1>5 DEF MarkExiting, IInv, RequestsOK
  <2>2. operations[o].target[i].status = "draining"
    BY <1>5, <2>1 DEF MarkExiting, Matches
  <2>3. SetTarget(o, i, [operations[o].target[i] EXCEPT !.status = "exiting", !.late = FALSE],
                  operations[o].status)
    BY <1>5, <2>1 DEF MarkExiting
  <2>4. operations[o].status \in OperationStatuses /\ AtWork(o, i)
    BY <2>2, TargetType, ClaimedIsAtWork DEF IInv
  <2> QED BY <2>2, <2>3, <2>4, FreshStep
<1>6. ASSUME NEW i \in Instances, MarkAwaitingStartup(i), operations' # operations PROVE TargetsStep
  <2>1. PICK o \in DOMAIN operations : o = request[i].op
    BY <1>6 DEF MarkAwaitingStartup, IInv, RequestsOK
  <2>2. operations[o].target[i].status = "exiting"
    BY <1>6, <2>1 DEF MarkAwaitingStartup, Matches
  <2>3. SetTarget(o, i, [operations[o].target[i] EXCEPT !.status = "awaiting_startup"],
                  operations[o].status)
    BY <1>6, <2>1 DEF MarkAwaitingStartup
  <2>4. operations[o].status \in OperationStatuses /\ AtWork(o, i)
    BY <2>2, TargetType, ClaimedIsAtWork DEF IInv
  <2> QED BY <2>2, <2>3, <2>4, StatusStep
<1>7. \/ operations' = operations
      \/ CreateSystemRestartOperation
      \/ \E o \in DOMAIN operations, i \in Instances :
           TargetLate(o, i) \/ ExpireTargets(o, i) \/ ClaimNextTarget(o, i)
      \/ \E i \in Instances : ReconcileStartup(i) \/ MarkExiting(i) \/ MarkAwaitingStartup(i)
  BY Zenon DEF Next, vars, restartVars, PollSnapshot, TransitionThrows, Leave, Crash, Ended
<1> QED BY <1>1, <1>2, <1>3, <1>4, <1>5, <1>6, <1>7, CreateStep, LateStep

-----------------------------------------------------------------------------
(* Processes and their sessions                                            *)

\* What a step does to a process: a session begins only after the last has ended, and
\* keeps the restart-only values it began with; a row is written by its process.
ProcessStep(i) ==
    /\ proc'[i].session >= proc[i].session
    /\ proc'[i].session = proc[i].session => proc'[i].restart = proc[i].restart
    /\ proc'[i].session # proc[i].session =>
         proc[i].phase = "down" /\ request' = request /\ operations' = operations
    /\ proc[i].phase = "up" => proc'[i].phase = "up" \/ request'[i].step = "waiting"
    /\ row'[i].session \in {row[i].session, proc[i].session}

LEMMA ProcRow ==
    ASSUME ProcessesOK, NEW i \in Instances
    PROVE  /\ proc[i] \in Process /\ row[i] \in StateRow
           /\ proc[i].session \in Int /\ row[i].session \in Int
           /\ StateOf(proc[i]).session = proc[i].session
BY DEF ProcessesOK, Process, StateRow, StateOf

LEMMA SameProcess ==
    ASSUME ProcessesOK, NEW i \in Instances, proc'[i] = proc[i], row'[i] = row[i]
    PROVE  ProcessStep(i)
BY ProcRow DEF ProcessStep

LEMMA RefreshedSession ==
    ASSUME NEW p \in Process, NEW r \in Refresh
    PROVE  /\ Refreshed(p, r).session = p.session /\ Refreshed(p, r).restart = p.restart
           /\ Refreshed(p, r).phase = p.phase
<1>1. CASE r.outcome = "read"
  BY <1>1 DEF Refreshed, Process
<1>2. CASE r.outcome = "unreadable"
  BY <1>2 DEF Refreshed, Process
<1>3. CASE r.outcome = "failed"
  BY <1>3 DEF Refreshed, Process
<1> QED BY <1>1, <1>2, <1>3 DEF Refresh

LEMMA ConfigProcessStep ==
    ASSUME ConfigConstants, ProcessesOK, ConfigNext, UNCHANGED restartVars, NEW i \in Instances
    PROVE  ProcessStep(i)
<1> USE DEF ProcessesOK
<1>1. CASE UNCHANGED <<proc, row>>
  BY <1>1, SameProcess
<1>2. ASSUME NEW j \in Instances, StartRead(j) PROVE ProcessStep(i)
  <2>1. CASE i = j
    <3>1. proc'[i].session = proc[i].session + 1 /\ row' = row /\ proc[i].phase = "down"
      BY <1>2, <2>1 DEF StartRead
    <3> QED BY <3>1, ProcRow DEF ProcessStep, restartVars
  <2>2. CASE i # j
    BY <1>2, <2>2, SameProcess DEF StartRead
  <2> QED BY <2>1, <2>2
<1>3. ASSUME NEW j \in Instances, StartListen(j) PROVE ProcessStep(i)
  <2>1. CASE i = j
    <3>1. PICK p \in Process : p = proc[i]
      OBVIOUS
    <3>2. PICK l, h, q : /\ q = [p EXCEPT !.phase = "up", !.listening = l, !.health = h]
                         /\ proc' = [proc EXCEPT ![j] = q] /\ row' = [row EXCEPT ![j] = StateOf(q)]
      <4>1. PICK l \in BOOLEAN :
              LET q == [proc[j] EXCEPT !.phase = "up", !.listening = l,
                                       !.health = IF l THEN @ ELSE "degraded"]
              IN  proc' = [proc EXCEPT ![j] = q] /\ row' = [row EXCEPT ![j] = StateOf(q)]
        BY <1>3 DEF StartListen
      <4>2. PICK h, q :
              /\ h = IF l THEN p.health ELSE "degraded"
              /\ q = [p EXCEPT !.phase = "up", !.listening = l, !.health = h]
        OBVIOUS
      <4> QED BY <2>1, <3>1, <4>1, <4>2
    <3>3. q.session = p.session /\ q.restart = p.restart /\ q.phase = "up"
      BY <3>2 DEF Process
    <3>4. proc'[i] = q /\ row'[i] = StateOf(q)
      BY <2>1, <3>2
    <3>5. row'[i].session = p.session
      BY <3>3, <3>4 DEF StateOf
    <3> QED BY <3>1, <3>3, <3>4, <3>5, ProcRow DEF ProcessStep
  <2>2. CASE i # j
    BY <1>3, <2>2, SameProcess DEF StartListen
  <2> QED BY <2>1, <2>2
<1>4. ASSUME NEW j \in Instances, RefreshInstall(j) PROVE ProcessStep(i)
  <2>1. CASE i = j
    <3>1. PICK p \in Process, r \in Refresh : p = proc[i] /\ r = refresh[i]
      OBVIOUS
    <3>2. proc'[i] = Refreshed(p, r) /\ row' = row
      BY <1>4, <2>1, <3>1 DEF RefreshInstall
    <3> QED BY <3>1, <3>2, RefreshedSession, ProcRow DEF ProcessStep
  <2>2. CASE i # j
    BY <1>4, <2>2, SameProcess DEF RefreshInstall
  <2> QED BY <2>1, <2>2
<1>5. ASSUME NEW j \in Instances, RefreshPersist(j) PROVE ProcessStep(i)
  <2>1. proc'[i] = proc[i] /\ row'[i] \in {row[i], StateOf(proc[i])}
    BY <1>5 DEF RefreshPersist
  <2> QED BY <2>1, ProcRow DEF ProcessStep
<1>6. ASSUME NEW j \in Instances, GoStale(j) PROVE ProcessStep(i)
  <2>1. proc'[i] = proc[i] /\ row'[i].session = row[i].session
    BY <1>6 DEF GoStale, StateRow
  <2> QED BY <2>1, ProcRow DEF ProcessStep
<1>7. \/ UNCHANGED <<proc, row>>
      \/ \E j \in Instances : \/ StartRead(j) \/ StartListen(j) \/ RefreshInstall(j)
                              \/ RefreshPersist(j) \/ GoStale(j)
  BY Zenon DEF ConfigNext, UpdateConfigurationDraft, PublishConfigurationDraft,
     CreateRollbackDraft, RefreshRead, RefreshFails, DropNotification
<1> QED BY <1>1, <1>2, <1>3, <1>4, <1>5, <1>6, <1>7

LEMMA EndedProcessStep ==
    ASSUME ConfigConstants, IInv, NEW j \in Instances, Leave(j) \/ Crash(j), NEW i \in Instances
    PROVE  ProcessStep(i)
<1> USE DEF IInv
<1>1. PICK p \in Process : p = proc[j]
  BY DEF ProcessesOK
<1>2. PICK q : q = [p EXCEPT !.phase = "down", !.listening = FALSE]
  OBVIOUS
<1>3. q.session = p.session /\ q.restart = p.restart
  BY <1>2 DEF Process
<1>4. proc' = [proc EXCEPT ![j] = q]
  BY <1>1, <1>2 DEF Leave, Crash, Ended, Gone, ProcessesOK
<1>5. request'[j].step = "waiting"
  BY DEF Leave, Crash, Ended, Waiting, OperationsOK
<1>6. row'[i].session \in {row[i].session, proc[i].session}
  <2>1. PICK b : b = [StateOf(p) EXCEPT !.status = "stopped"]
    OBVIOUS
  <2>2. b.session = p.session
    BY <2>1 DEF StateOf
  <2>3. row'[i] = row[i] \/ (i = j /\ row'[i] \in {b, StateOf(p)})
    BY <1>1, <2>1 DEF Leave, Crash, ProcessesOK
  <2> QED BY <1>1, <2>2, <2>3, ProcRow
<1>7. CASE i = j
  BY <1>1, <1>3, <1>4, <1>5, <1>6, <1>7, ProcRow DEF ProcessStep, ProcessesOK
<1>8. CASE i # j
  BY <1>4, <1>6, <1>8, ProcRow DEF ProcessStep, ProcessesOK
<1> QED BY <1>7, <1>8

LEMMA ProcessesSessions ==
    ASSUME ConfigConstants, IInv, [Next]_vars, NEW i \in Instances
    PROVE  ProcessStep(i)
<1>1. CASE UNCHANGED <<proc, row>>
  BY <1>1, SameProcess DEF IInv
<1>2. \/ ConfigNext /\ UNCHANGED restartVars
      \/ \E j \in Instances : Leave(j) \/ Crash(j)
      \/ UNCHANGED <<proc, row>>
  BY ZenonT(60) DEF Next, vars, configVars, CreateSystemRestartOperation,
     TargetLate, ExpireTargets, ClaimNextTarget, PollSnapshot, ReconcileStartup, MarkExiting,
     MarkAwaitingStartup, TransitionThrows
<1> QED BY <1>1, <1>2, ConfigProcessStep, EndedProcessStep DEF IInv

-----------------------------------------------------------------------------
(* What processes do about requests                                        *)

LEMMA RequestTypes ==
    ASSUME ConfigConstants, RestartConstants, IInv, [Next]_vars
    PROVE  request' \in [Instances -> Request] /\ poll' \in [Instances -> Health \cup {"none"}]
<1> USE DEF IInv
<1>1. ASSUME NEW i \in Instances, Unheeded(i) = request' PROVE request' \in [Instances -> Request]
  BY <1>1 DEF Unheeded, OperationsOK, Request
<1>2. ASSUME NEW i \in Instances, NEW x \in {"exiting", "leaving"},
             request' = [request EXCEPT ![i].step = x]
      PROVE  request' \in [Instances -> Request]
  BY <1>2 DEF OperationsOK, Request
<1>3. ASSUME NEW o \in DOMAIN operations, NEW i \in Instances, ClaimNextTarget(o, i)
      PROVE  request' \in [Instances -> Request]
  <2>1. [step |-> "claimed", op |-> o] \in Request
    BY DEF Request, OperationsOK, RestartConstants
  <2> QED BY <1>3, <2>1 DEF ClaimNextTarget, OperationsOK
<1>4. ASSUME NEW i \in Instances, Ended(i) PROVE request' \in [Instances -> Request] /\ poll' \in [Instances -> Health \cup {"none"}]
  <2>1. Waiting \in Request
    BY DEF Waiting, Request, RestartConstants
  <2> QED BY <1>4, <2>1 DEF Ended, OperationsOK
<1>5. ASSUME NEW i \in Instances, PollSnapshot(i) \/ ReconcileStartup(i)
      PROVE  poll' \in [Instances -> Health \cup {"none"}]
  BY <1>5 DEF PollSnapshot, ReconcileStartup, OperationsOK, ProcessesOK, Process
<1>6. request' \in [Instances -> Request]
  <2>1. CASE request' = request
    BY <2>1 DEF OperationsOK
  <2>2. \/ request' = request
        \/ \E o \in DOMAIN operations, i \in Instances : ClaimNextTarget(o, i)
        \/ \E i \in Instances : \/ Unheeded(i) = request' \/ Ended(i)
                                \/ request' = [request EXCEPT ![i].step = "exiting"]
                                \/ request' = [request EXCEPT ![i].step = "leaving"]
    BY DEF Next, vars, restartVars, CreateSystemRestartOperation, TargetLate, ExpireTargets,
       PollSnapshot, ReconcileStartup, MarkExiting, MarkAwaitingStartup, TransitionThrows, Leave, Crash
  <2> QED BY <1>1, <1>2, <1>3, <1>4, <2>1, <2>2
<1>7. poll' \in [Instances -> Health \cup {"none"}]
  <2>1. CASE poll' = poll
    BY <2>1 DEF OperationsOK
  <2>2. poll' = poll \/ \E i \in Instances : PollSnapshot(i) \/ ReconcileStartup(i) \/ Ended(i)
    BY DEF Next, vars, restartVars, CreateSystemRestartOperation, TargetLate, ExpireTargets,
       ClaimNextTarget, MarkExiting, MarkAwaitingStartup, TransitionThrows, Leave, Crash
  <2> QED BY <1>4, <1>5, <2>1, <2>2
<1> QED BY <1>6, <1>7

LEMMA OperationsTypes ==
    ASSUME ConfigConstants, RestartConstants, IInv, [Next]_vars
    PROVE  OperationsOK' /\ DOMAIN operations \subseteq DOMAIN operations'
<1>1. CASE operations' = operations
  BY <1>1, RequestTypes DEF OperationsOK, IInv
<1>2. CASE Len(operations) < MaxOperations /\ \E op : NewOperation(op) /\ operations' = Append(operations, op)
  <2>1. operations' \in Seq(Operation) /\ Len(operations') <= MaxOperations
        /\ DOMAIN operations \subseteq DOMAIN operations'
    BY <1>2 DEF NewOperation, OperationsOK, IInv, RestartConstants
  <2> QED BY <2>1, RequestTypes DEF OperationsOK
<1>3. ASSUME NEW o \in DOMAIN operations, NEW i \in Instances, NEW target \in Target,
             NEW status \in OperationStatuses, SetTarget(o, i, target, status)
      PROVE  OperationsOK' /\ DOMAIN operations \subseteq DOMAIN operations'
  BY <1>3, SetTargetType, RequestTypes DEF OperationsOK, IInv
<1> QED BY <1>1, <1>2, <1>3, OperationsStep DEF TargetsStep

\* What a step does to a process' request.
RequestStep(i) ==
    request'[i].step # "waiting" =>
        \/ request'[i] = request[i]
        \/ proc[i].phase = "up" /\ proc' = proc /\ request'[i].op \in DOMAIN operations
           /\ (i \in Web /\ request'[i].step = "leaving" =>
                 /\ operations'[request'[i].op].target[i].session = proc[i].session
                 /\ operations'[request'[i].op].target[i].status = "awaiting_startup")

LEMMA SteppedRequest ==
    ASSUME OperationsOK, NEW i \in Instances, NEW j \in Instances, NEW x,
           request' = [request EXCEPT ![j].step = x]
    PROVE  IF i = j THEN request'[i].step = x /\ request'[i].op = request[i].op
           ELSE request'[i] = request[i]
BY DEF OperationsOK, Request

LEMMA RequestsStep ==
    ASSUME ConfigConstants, RestartConstants, IInv, [Next]_vars, NEW i \in Instances
    PROVE  RequestStep(i)
<1> USE DEF IInv
<1>1. CASE request' = request
  BY <1>1 DEF RequestStep
<1>2. ASSUME NEW o \in DOMAIN operations, NEW j \in Instances, ClaimNextTarget(o, j)
      PROVE  RequestStep(i)
  BY <1>2 DEF ClaimNextTarget, RequestStep, OperationsOK, configVars
<1>3. ASSUME NEW j \in Instances, Ended(j) PROVE RequestStep(i)
  BY <1>3 DEF Ended, RequestStep, OperationsOK, Waiting
<1>4. ASSUME NEW j \in Instances, request' = Unheeded(j), request[j].step # "waiting", proc' = proc
      PROVE  RequestStep(i)
  <2>1. PICK x : x = IF j \in Web THEN "deaf" ELSE "leaving"
    OBVIOUS
  <2>2. request' = [request EXCEPT ![j].step = x]
    BY <1>4, <2>1 DEF Unheeded
  <2>3. CASE i = j
    BY <1>4, <2>1, <2>2, <2>3, SteppedRequest DEF RequestStep, RequestsOK
  <2>4. CASE i # j
    BY <2>2, <2>4, SteppedRequest DEF RequestStep
  <2> QED BY <2>3, <2>4
<1>5. ASSUME NEW j \in Instances, request' = [request EXCEPT ![j].step = "exiting"],
             request[j].step # "waiting", proc' = proc
      PROVE  RequestStep(i)
  <2>1. CASE i = j
    BY <1>5, <2>1, SteppedRequest DEF RequestStep, RequestsOK
  <2>2. CASE i # j
    BY <1>5, <2>2, SteppedRequest DEF RequestStep
  <2> QED BY <2>1, <2>2
<1>6. ASSUME NEW j \in Instances, MarkAwaitingStartup(j), Matches(j, "exiting")
      PROVE  RequestStep(i)
  <2>1. PICK o \in DOMAIN operations : o = request[j].op
    BY <1>6 DEF MarkAwaitingStartup, RequestsOK
  <2>2. PICK t \in Target : t = operations[o].target[j]
    BY TargetType
  <2>3. PICK b : b = [t EXCEPT !.status = "awaiting_startup"]
    OBVIOUS
  <2>4. b \in Target /\ b.status = "awaiting_startup" /\ b.session = t.session
    BY <2>3, StatusTarget
  <2>5. SetTarget(o, j, b, operations[o].status) /\ operations[o].status \in OperationStatuses
    BY <1>6, <2>1, <2>2, <2>3, TargetType DEF MarkAwaitingStartup
  <2>6. operations'[o].target = [operations[o].target EXCEPT ![j] = b]
    BY <2>4, <2>5, SetTargetType
  <2>7. operations'[o].target[j] = b
    <3>1. PICK q \in Operation : q = operations[o]
      BY DEF OperationsOK
    <3>2. q.target \in [Instances -> Target]
      BY DEF Operation
    <3> QED BY <2>6, <3>1, <3>2
  <2>8. b.session = proc[j].session
    BY <1>6, <2>1, <2>2, <2>4 DEF Matches
  <2>9. request' = [request EXCEPT ![j].step = "leaving"] /\ proc' = proc /\ proc[j].phase = "up"
    BY <1>6 DEF MarkAwaitingStartup, configVars, RequestsOK
  <2>10. CASE i = j
    BY <2>1, <2>4, <2>7, <2>8, <2>9, <2>10, SteppedRequest DEF RequestStep
  <2>11. CASE i # j
    BY <2>9, <2>11, SteppedRequest DEF RequestStep
  <2> QED BY <2>10, <2>11
<1>7. ASSUME NEW j \in Instances, MarkExiting(j) \/ MarkAwaitingStartup(j) \/ TransitionThrows(j)
      PROVE  RequestStep(i)
  <2>1. request[j].step # "waiting" /\ proc' = proc
    BY <1>7 DEF MarkExiting, MarkAwaitingStartup, TransitionThrows, configVars
  <2>2. \/ request' = Unheeded(j) \/ request' = [request EXCEPT ![j].step = "exiting"]
        \/ MarkAwaitingStartup(j) /\ Matches(j, "exiting")
    BY <1>7 DEF MarkExiting, MarkAwaitingStartup, TransitionThrows
  <2> QED BY <2>1, <2>2, <1>4, <1>5, <1>6
<1>8. \/ request' = request
      \/ \E o \in DOMAIN operations, j \in Instances : ClaimNextTarget(o, j)
      \/ \E j \in Instances : \/ MarkExiting(j) \/ MarkAwaitingStartup(j) \/ TransitionThrows(j)
                              \/ Ended(j)
  BY Zenon DEF Next, vars, restartVars, CreateSystemRestartOperation, TargetLate, ExpireTargets,
     PollSnapshot, ReconcileStartup, Leave, Crash
<1> QED BY <1>1, <1>2, <1>3, <1>7, <1>8

-----------------------------------------------------------------------------
(* The invariant                                                           *)

\* What a step does to one target of an operation that exists.
LEMMA TargetEffect ==
    ASSUME ConfigConstants, IInv, [Next]_vars, NEW o \in DOMAIN operations, NEW i \in Instances
    PROVE  /\ operations'[o].desired = operations[o].desired
           /\ \/ operations'[o].target[i] = operations[o].target[i]
              \/ Moves(o, i, operations'[o].target[i])
                 /\ \A j \in Instances \ {i} : operations'[o].target[j] = operations[o].target[j]
<1> USE DEF IInv
<1>1. CASE operations' = operations
  BY <1>1
<1>2. CASE \E op : operations' = Append(operations, op) /\ NewOperation(op)
  BY <1>2 DEF OperationsOK, NewOperation
<1>3. ASSUME NEW p \in DOMAIN operations, NEW k \in Instances, NEW target \in Target,
             NEW status \in OperationStatuses, Moves(p, k, target), SetTarget(p, k, target, status)
      PROVE  /\ operations'[o].desired = operations[o].desired
             /\ \/ operations'[o].target[i] = operations[o].target[i]
                \/ Moves(o, i, operations'[o].target[i])
                   /\ \A j \in Instances \ {i} : operations'[o].target[j] = operations[o].target[j]
  <2>1. CASE o = p
    <3>1. operations'[o].target = [operations[o].target EXCEPT ![k] = target]
          /\ operations'[o].desired = operations[o].desired
      BY <1>3, <2>1, SetTargetType
    <3>2. PICK q \in Operation : q = operations[o]
      BY DEF OperationsOK
    <3>3. q.target \in [Instances -> Target]
      BY DEF Operation
    <3>4. CASE k = i
      <4>1. /\ operations'[o].target[i] = target
            /\ \A j \in Instances \ {i} : operations'[o].target[j] = operations[o].target[j]
        BY <3>1, <3>2, <3>3, <3>4
      <4> QED BY <1>3, <2>1, <3>1, <3>4, <4>1
    <3>5. CASE k # i
      BY <3>1, <3>2, <3>3, <3>5
    <3> QED BY <3>4, <3>5
  <2>2. CASE o # p
    <3>1. operations'[o] = operations[o]
      BY <1>3, <2>2, SetTargetType
    <3> QED BY <3>1
  <2> QED BY <2>1, <2>2
<1> QED BY <1>1, <1>2, <1>3, OperationsStep DEF TargetsStep

\* A new operation, if there is one.
LEMMA NewTargets ==
    ASSUME ConfigConstants, IInv, [Next]_vars, NEW o \in DOMAIN operations' \ DOMAIN operations,
           NEW i \in Instances
    PROVE  /\ operations'[o].target[i].status \in {"none", "queued"}
           /\ operations'[o].target[i].session <= proc[i].session
<1> USE DEF IInv
<1>1. CASE \E op : operations' = Append(operations, op) /\ NewOperation(op)
  BY <1>1 DEF OperationsOK, NewOperation
<1>2. ASSUME NEW p \in DOMAIN operations, NEW k \in Instances, NEW target \in Target,
             NEW status \in OperationStatuses, SetTarget(p, k, target, status)
      PROVE  FALSE
  BY <1>2, SetTargetType
<1> QED BY <1>1, <1>2, OperationsStep DEF TargetsStep

LEMMA RequestsInvariant ==
    ASSUME ConfigConstants, RestartConstants, IInv, [Next]_vars
    PROVE  RequestsOK'
<1> SUFFICES ASSUME NEW i \in Instances, request'[i].step # "waiting"
             PROVE  /\ proc'[i].phase = "up" /\ request'[i].op \in DOMAIN operations'
                    /\ i \in Web /\ request'[i].step = "leaving" =>
                         /\ operations'[request'[i].op].target[i].session = proc'[i].session
                         /\ operations'[request'[i].op].target[i].status \in {"awaiting_startup", "timed_out"}
  BY DEF RequestsOK
<1>1. RequestStep(i) /\ ProcessStep(i) /\ DOMAIN operations \subseteq DOMAIN operations'
  BY RequestsStep, ProcessesSessions, OperationsTypes
<1>2. CASE request'[i] = request[i]
  <2>1. /\ proc[i].phase = "up" /\ request[i].op \in DOMAIN operations
        /\ i \in Web /\ request[i].step = "leaving" =>
             /\ operations[request[i].op].target[i].session = proc[i].session
             /\ operations[request[i].op].target[i].status \in {"awaiting_startup", "timed_out"}
    BY <1>2 DEF IInv, RequestsOK
  <2>2. proc'[i].phase = "up" /\ proc'[i].session = proc[i].session
    BY <1>1, <2>1 DEF ProcessStep
  <2>3. i \in Web /\ request[i].step = "leaving" =>
          /\ operations'[request[i].op].target[i].session = proc[i].session
          /\ operations'[request[i].op].target[i].status \in {"awaiting_startup", "timed_out"}
    BY <2>1, TargetEffect DEF Moves
  <2> QED BY <1>1, <1>2, <2>1, <2>2, <2>3
<1>3. CASE request'[i] # request[i]
  BY <1>1, <1>3 DEF RequestStep
<1> QED BY <1>2, <1>3

LEMMA SessionsInvariant ==
    ASSUME ConfigConstants, RestartConstants, IInv, [Next]_vars
    PROVE  SessionsOK'
<1>1. ASSUME NEW i \in Instances PROVE row'[i].session <= proc'[i].session
  <2>1. /\ proc[i].session \in Int /\ proc'[i].session \in Int /\ row'[i].session \in Int
    BY ProcessesStep, ProcRow DEF IInv, ProcessesOK, Process, StateRow
  <2>2. row[i].session <= proc[i].session /\ row[i].session \in Int
    BY ProcRow DEF IInv, SessionsOK
  <2> QED BY <2>1, <2>2, ProcessesSessions DEF ProcessStep
<1>2. ASSUME NEW i \in Instances, NEW o \in DOMAIN operations'
      PROVE  operations'[o].target[i].session <= proc'[i].session
  <2>1. PICK q \in Operation : q = operations'[o]
    BY <1>2, OperationsTypes DEF OperationsOK
  <2>2. operations'[o].target[i].session \in Int
    BY <2>1 DEF Operation, Target
  <2>3. proc[i].session \in Int /\ proc'[i].session \in Int /\ proc'[i].session >= proc[i].session
    BY ProcessesStep, ProcessesSessions DEF IInv, ProcessesOK, Process, ProcessStep
  <2>4. operations'[o].target[i].session <= proc[i].session
    <3>1. CASE o \in DOMAIN operations
      BY <3>1, TargetEffect DEF Moves, IInv, SessionsOK
    <3>2. CASE o \notin DOMAIN operations
      BY <3>2, NewTargets
    <3> QED BY <3>1, <3>2
  <2> QED BY <2>2, <2>3, <2>4
<1> QED BY <1>1, <1>2 DEF SessionsOK

LEMMA OrderInvariant ==
    ASSUME ConfigConstants, RestartConstants, IInv, [Next]_vars
    PROVE  OneTargetAtATime'
<1> SUFFICES ASSUME NEW o \in DOMAIN operations', NEW i \in Instances, NEW j \in Instances,
                    i < j, operations'[o].target[j].status \notin {"none", "queued"}
             PROVE  operations'[o].target[i].status \in {"none", "healthy"}
  BY DEF OneTargetAtATime
<1>1. o \in DOMAIN operations
  BY NewTargets
<1>2. /\ operations[o].target[j].status \notin {"none", "queued"}
           => operations[o].target[i].status \in {"none", "healthy"}
  BY <1>1 DEF IInv, OneTargetAtATime
<1>3. i # j
  BY DEF Instances
<1>4. CASE operations'[o].target[j] # operations[o].target[j]
  <2>1. /\ AtWork(o, j) /\ \A k \in Instances \ {j} : operations'[o].target[k] = operations[o].target[k]
    BY <1>1, <1>4, TargetEffect DEF Moves
  <2> QED BY <1>3, <2>1 DEF AtWork
<1>5. CASE operations'[o].target[j] = operations[o].target[j]
  <2>1. operations[o].target[i].status \in {"none", "healthy"}
    BY <1>2, <1>5
  <2>2. operations'[o].target[i] = operations[o].target[i]
    BY <1>1, <2>1, TargetEffect DEF Moves, AtWork
  <2> QED BY <2>1, <2>2
<1> QED BY <1>4, <1>5

LEMMA HealthyInvariant ==
    ASSUME ConfigConstants, RestartConstants, IInv, [Next]_vars
    PROVE  HealthyTargetsRunDesired'
<1> SUFFICES ASSUME NEW o \in DOMAIN operations', NEW i \in Instances,
                    operations'[o].target[i].status = "healthy"
             PROVE  /\ proc'[i].session > operations'[o].target[i].session
                    /\ proc'[i].session = operations'[o].target[i].session + 1 =>
                         proc'[i].restart = operations'[o].desired
  BY DEF HealthyTargetsRunDesired
<1>1. o \in DOMAIN operations
  BY NewTargets
<1>2. PICK t \in Target : t = operations[o].target[i]
  BY <1>1, TargetType DEF IInv
<1>3. /\ t.session \in Int /\ t.session <= proc[i].session
      /\ proc[i].session \in Int /\ proc'[i].session \in Int
  BY <1>1, <1>2, ProcRow, ProcessesStep DEF IInv, SessionsOK, Target, ProcessesOK, Process
<1>4. ProcessStep(i) /\ operations'[o].desired = operations[o].desired
  BY <1>1, ProcessesSessions, TargetEffect
<1>5. /\ operations'[o].target[i].session = t.session
      /\ proc[i].session > t.session
      /\ proc[i].session = t.session + 1 => proc[i].restart = operations[o].desired
  <2>1. CASE operations'[o].target[i] = t
    BY <1>1, <1>2, <2>1 DEF IInv, HealthyTargetsRunDesired
  <2>2. CASE operations'[o].target[i] # t
    <3>1. Moves(o, i, operations'[o].target[i])
      BY <1>1, <1>2, <2>2, TargetEffect
    <3> QED BY <1>2, <1>3, <3>1 DEF Moves
  <2> QED BY <2>1, <2>2
<1>6. CASE proc'[i].session = proc[i].session
  BY <1>4, <1>5, <1>6 DEF ProcessStep
<1>7. CASE proc'[i].session # proc[i].session
  BY <1>3, <1>4, <1>5, <1>7 DEF ProcessStep
<1> QED BY <1>6, <1>7

LEMMA InitInvariant ==
    ASSUME ConfigConstants, RestartConstants, Init
    PROVE  IInv
<1>1. RevisionsOK
  BY InitRevisions DEF Init
<1>2. ProcessesOK
  <2>1. Idle \in Refresh
    BY DEF Idle, Refresh
  <2>2. /\ [phase |-> "down", session |-> 0, listening |-> FALSE, desired |-> None,
            hot |-> None, restart |-> None, health |-> "healthy"] \in Process
        /\ [status |-> "none", session |-> 0, desired |-> None, health |-> "healthy",
            fresh |-> FALSE] \in StateRow
    BY DEF Process, StateRow, Health, ConfigConstants
  <2> QED BY <2>1, <2>2 DEF Init, ConfigInit, ProcessesOK
<1>3. OperationsOK /\ RequestsOK
  BY DEF Init, OperationsOK, RequestsOK, Waiting, Request, RestartConstants
<1>4. SessionsOK
  BY DEF Init, ConfigInit, SessionsOK
<1>5. OneTargetAtATime /\ HealthyTargetsRunDesired
  BY DEF Init, OneTargetAtATime, HealthyTargetsRunDesired
<1> QED BY <1>1, <1>2, <1>3, <1>4, <1>5 DEF IInv

\* The inductive invariant.
THEOREM Invariant == Spec => []IInv
<1> USE ConfigConstants, RestartConstants
<1>1. Init => IInv
  BY InitInvariant
<1>2. IInv /\ [Next]_vars => IInv'
  <2> SUFFICES ASSUME IInv, [Next]_vars PROVE IInv'
    OBVIOUS
  <2>1. RevisionsOK' /\ ProcessesOK' /\ OperationsOK'
    BY RevisionsStep, ProcessesStep, OperationsTypes DEF IInv
  <2>2. RequestsOK' /\ SessionsOK' /\ OneTargetAtATime' /\ HealthyTargetsRunDesired'
    BY RequestsInvariant, SessionsInvariant, OrderInvariant, HealthyInvariant
  <2> QED BY <2>1, <2>2 DEF IInv
<1> QED BY <1>1, <1>2, PTL DEF Spec

-----------------------------------------------------------------------------
(* Theorems                                                                *)

\* Revisions, processes, rows, operations and requests keep their types; there is one
\* active revision and one draft at any time.
THEOREM RestartTypeCorrect == Spec => []TypeOK
<1>1. IInv => TypeOK
  BY DEF IInv, RevisionsOK, ProcessesOK, OperationsOK, TypeOK, ConfigTypeOK
<1> QED BY <1>1, Invariant, PTL

\* Processes are restarted one after the other, whatever crashes, expires or comes late.
THEOREM RestartsAreOrdered == Spec => []OneTargetAtATime
BY Invariant, PTL DEF IInv

\* A target that is healthy has been replaced, and its successor runs what was desired.
THEOREM HealthyMeansReplaced == Spec => []HealthyTargetsRunDesired
BY Invariant, PTL DEF IInv

\* A web process ends, as asked, only while its target waits for that or has given up.
THEOREM ExitsAreAwaited == Spec => ExitsWhenAwaited
<1>1. IInv => \A i \in Web : request[i].step = "leaving" =>
        operations[request[i].op].target[i].status \in {"awaiting_startup", "timed_out"}
  BY ConfigConstants DEF IInv, RequestsOK, ConfigConstants, Instances
<1>2. IInv /\ [Next]_vars =>
        [\A i \in Web : request[i].step = "leaving" /\ request'[i].step # "leaving" =>
           operations[request[i].op].target[i].status \in {"awaiting_startup", "timed_out"}]_vars
  BY <1>1
<1> QED BY <1>2, Invariant, PTL DEF Spec, ExitsWhenAwaited

-----------------------------------------------------------------------------
(* The health a process reports                                            *)

\* A revision that was published, or none at all.
Known(v) == v = None \/ v \in Published

\* What a process has loaded was published, and so was what it is about to load.
Loaded(i) ==
    /\ Known(proc[i].hot) /\ Known(proc[i].restart)
    /\ refresh[i].step = "read" => Known(refresh[i].id)

Truthful(i) ==
    /\ proc[i].health = "healthy" => ValueOf(proc[i].hot) = ValueOf(proc[i].restart)
    /\ proc[i].health = "restart_required" => ValueOf(proc[i].hot) # ValueOf(proc[i].restart)

\* A draft may still change; the values a process compares are those of revisions that
\* cannot.
HealthInv == \A i \in Instances : Loaded(i) /\ Truthful(i)

\* The draft is the only revision that is edited, or given up.
LEMMA PublishedIsFinal ==
    ASSUME ConfigConstants, RevisionsOK, [Next]_vars, NEW v \in Published
    PROVE  v \in Published' /\ revisions'[v].value = revisions[v].value
<1> DEFINE Final == /\ v \in DOMAIN revisions'
                    /\ revisions'[v].status \in {"active", "superseded"}
                    /\ revisions'[v].value = revisions[v].value
<1>1. /\ v \in DOMAIN revisions /\ revisions[v].status \in {"active", "superseded"}
      /\ revisions[v] \in Revision
  BY DEF Published, RevisionsOK
<1>2. /\ Draft \in DOMAIN revisions /\ Active \in DOMAIN revisions
      /\ v # Draft
      /\ revisions[Draft] \in Revision /\ revisions[Active] \in Revision
  <2>1. /\ Draft \in DOMAIN revisions /\ Active \in DOMAIN revisions
        /\ revisions[Draft].status = "draft"
    BY ActiveAndDraft
  <2> QED BY <1>1, <2>1 DEF RevisionsOK
<1>3. ASSUME revisions' = revisions PROVE Final
  BY <1>1, <1>3, Zenon
<1>4. ASSUME NEW b, NEW d, UpdateConfigurationDraft(b, d) PROVE Final
  <2>1. d = Draft
    BY <1>4 DEF UpdateConfigurationDraft, Current
  <2>2. PICK x, o : revisions' = [revisions EXCEPT ![d].value = x, ![d].opaque = o]
    BY <1>4 DEF UpdateConfigurationDraft
  <2>3. v \in DOMAIN revisions' /\ revisions'[v] = revisions[v]
    BY <1>1, <1>2, <2>1, <2>2 DEF RevisionsOK
  <2> QED BY <1>1, <2>3
<1>5. ASSUME NEW b, NEW d, PublishConfigurationDraft(b, d) PROVE Final
  <2>1. d = Draft
    BY <1>5 DEF PublishConfigurationDraft, Current
  <2>2. PICK R : R = [revisions EXCEPT ![Active].status = "superseded",
                                       ![d].status = "active"]
    OBVIOUS
  <2>3. PICK q : q = [revisions[v] EXCEPT !.status = "superseded"]
    OBVIOUS
  <2>4. q.status = "superseded" /\ q.value = revisions[v].value
    BY <1>1, <2>3 DEF Revision
  <2>5. R[v] = revisions[v] \/ R[v] = q
    BY <1>1, <1>2, <2>1, <2>2, <2>3 DEF RevisionsOK
  <2>6. DOMAIN R = DOMAIN revisions
    BY <2>2
  <2>7. R \in Seq(Revision)
    <3>1. PICK p, a : /\ p = [revisions[Active] EXCEPT !.status = "superseded"]
                      /\ a = [revisions[d] EXCEPT !.status = "active"]
      OBVIOUS
    <3>2. p \in Revision /\ a \in Revision
      BY <1>2, <2>1, <3>1 DEF Revision
    <3>3. R = [revisions EXCEPT ![Active] = p, ![d] = a]
      BY <1>2, <1>1, <2>1, <2>2, <3>1, ActiveAndDraft DEF RevisionsOK
    <3> QED BY <1>2, <2>1, <3>2, <3>3 DEF RevisionsOK
  <2>8. revisions' = Append(R, NewDraft(d, revisions[d]))
    BY <1>5, <2>2 DEF PublishConfigurationDraft
  <2>9. v \in DOMAIN revisions' /\ revisions'[v] = R[v]
    BY <1>1, <2>6, <2>7, <2>8
  <2> QED BY <1>1, <2>4, <2>5, <2>9
<1>6. ASSUME NEW s, CreateRollbackDraft(s) PROVE Final
  <2>1. PICK q : q = [revisions[Draft] EXCEPT !.status = "deleted"]
    OBVIOUS
  <2>2. q \in Revision
    BY <1>2, <2>1 DEF Revision
  <2>3. PICK R : R = [revisions EXCEPT ![Draft] = q]
    OBVIOUS
  <2>4. R \in Seq(Revision) /\ DOMAIN R = DOMAIN revisions /\ R[v] = revisions[v]
    BY <1>1, <1>2, <2>2, <2>3 DEF RevisionsOK
  <2>5. revisions' = Append(R, NewDraft(Active, revisions[s]))
    BY <1>6, <2>1, <2>3 DEF CreateRollbackDraft, GivingUpDraft
  <2>6. v \in DOMAIN revisions' /\ revisions'[v] = R[v]
    BY <1>1, <2>4, <2>5
  <2> QED BY <1>1, <2>4, <2>6
<1>7. \/ revisions' = revisions
      \/ \E b, d \in DOMAIN revisions :
           UpdateConfigurationDraft(b, d) \/ PublishConfigurationDraft(b, d)
      \/ \E s \in DOMAIN revisions : CreateRollbackDraft(s)
  BY RevisionsChange
<1>8. Final
  <2> HIDE DEF Final
  <2> QED BY <1>3, <1>4, <1>5, <1>6, <1>7, Zenon
<1> QED BY <1>8 DEF Published

\* So the values a process compares stay what they were.
LEMMA KnownIsFinal ==
    ASSUME ConfigConstants, RevisionsOK, [Next]_vars, NEW v, Known(v)
    PROVE  Known(v)' /\ ValueOf(v)' = ValueOf(v)
BY PublishedIsFinal DEF Known, ValueOf

\* Whatever a process reads, decoded or fallen back on, has been published.
LEMMA ReadsArePublished ==
    ASSUME ConfigConstants, RevisionsOK
    PROVE  Known(Active) /\ \A i : Known(Resolved(i))
<1>1. Active \in Published
  BY ActiveAndDraft DEF Published
<1>2. ASSUME NEW i PROVE Known(Resolved(i))
  <2>1. Readable(i) \subseteq 1..MaxRevisions /\ Readable(i) \subseteq Published
    BY DEF Readable, Published, RevisionsOK, ConfigConstants
  <2>2. Readable(i) # {} => Max(Readable(i)) \in Readable(i)
    BY <2>1, MaxIsMember DEF ConfigConstants
  <2> QED BY <1>1, <2>1, <2>2 DEF Resolved, Known
<1> QED BY <1>1, <1>2 DEF Known

\* A step that leaves what a process has loaded alone, and at most makes it report
\* trouble, keeps its report true.
LEMMA HealthKept ==
    ASSUME ConfigConstants, RevisionsOK, [Next]_vars, NEW i \in Instances,
           Loaded(i), Truthful(i),
           proc'[i].hot = proc[i].hot, proc'[i].restart = proc[i].restart,
           proc'[i].health \in {proc[i].health, "degraded", "recovery_required"},
           refresh'[i].step = "read" => Known(refresh'[i].id)
    PROVE  Loaded(i)' /\ Truthful(i)'
<1>1. /\ Known(proc[i].hot)' /\ ValueOf(proc[i].hot)' = ValueOf(proc[i].hot)
      /\ Known(proc[i].restart)' /\ ValueOf(proc[i].restart)' = ValueOf(proc[i].restart)
  <2>1. PICK h, r : h = proc[i].hot /\ r = proc[i].restart
    OBVIOUS
  <2>2. Known(h)' /\ ValueOf(h)' = ValueOf(h) /\ Known(r)' /\ ValueOf(r)' = ValueOf(r)
    BY <2>1, KnownIsFinal DEF Loaded
  <2> QED BY <2>1, <2>2
<1>2. refresh'[i].step = "read" => Known(refresh[i].id)'
  BY KnownIsFinal
<1> QED BY <1>1, <1>2 DEF Loaded, Truthful

\* A process that starts is healthy exactly when it has loaded the active revision.
LEMMA StartHealth ==
    ASSUME ConfigConstants, RevisionsOK, ProcessesOK, [Next]_vars, NEW i \in Instances,
           Loaded(i), StartRead(i)
    PROVE  Loaded(i)' /\ Truthful(i)'
<1>1. PICK v : v = Resolved(i)
  OBVIOUS
<1>2. /\ proc'[i].hot = v /\ proc'[i].restart = v
      /\ proc'[i].health \in {"healthy", "recovery_required"}
      /\ refresh'[i] = refresh[i]
  BY <1>1 DEF StartRead, ProcessesOK
<1>3. Known(v)'
  BY <1>1, ReadsArePublished, KnownIsFinal
<1>4. refresh[i].step = "read" => Known(refresh[i].id)'
  <2>1. PICK r : r = refresh[i].id
    OBVIOUS
  <2>2. Known(r) => Known(r)'
    BY KnownIsFinal
  <2> QED BY <1>2, <2>1, <2>2 DEF Loaded
<1> QED BY <1>2, <1>3, <1>4 DEF Loaded, Truthful

\* A refresh that installs what it has read compares it with what the process was
\* started with; the revisions stay as they are.
LEMMA InstallHealth ==
    ASSUME ConfigConstants, RevisionsOK, ProcessesOK, [Next]_vars, NEW i \in Instances,
           Loaded(i), Truthful(i), RefreshInstall(i)
    PROVE  Loaded(i)' /\ Truthful(i)'
<1>1. PICK p \in Process, r \in Refresh : p = proc[i] /\ r = refresh[i]
  BY DEF ProcessesOK
<1>2. /\ proc'[i] = Refreshed(p, r) /\ r.step = "read" /\ revisions' = revisions
      /\ refresh'[i].step = "persist"
  BY <1>1 DEF RefreshInstall, ProcessesOK, Refresh
<1>3. CASE r.outcome = "read"
  <2>1. PICK h : h = IF RestartRequired(p, r.id) THEN "restart_required" ELSE "healthy"
    OBVIOUS
  <2>2. PICK d : d = r.id
    OBVIOUS
  <2>3. proc'[i] = [p EXCEPT !.desired = d, !.hot = d, !.health = h]
    BY <1>2, <1>3, <2>1, <2>2 DEF Refreshed
  <2>4. proc'[i].hot = d /\ proc'[i].restart = p.restart /\ proc'[i].health = h
    BY <2>3 DEF Process
  <2>5. \A v : ValueOf(v)' = ValueOf(v)
    BY <1>2 DEF ValueOf
  <2>6. h = IF ValueOf(d) # ValueOf(p.restart) THEN "restart_required" ELSE "healthy"
    BY <2>1, <2>2 DEF RestartRequired
  <2>7. Truthful(i)'
    <3>1. /\ ValueOf(proc[i].hot)' = ValueOf(d)
          /\ ValueOf(proc[i].restart)' = ValueOf(p.restart)
      BY <2>4, <2>5
    <3> QED BY <2>4, <2>6, <3>1 DEF Truthful
  <2>8. Known(d) /\ Known(p.restart)
    BY <1>1, <1>2, <2>2 DEF Loaded
  <2>9. Known(d)' /\ Known(p.restart)'
    BY <1>2, <2>8 DEF Known, Published
  <2> QED BY <1>2, <2>4, <2>7, <2>9 DEF Loaded
<1>4. CASE r.outcome # "read"
  <2>1. /\ proc'[i].hot = p.hot /\ proc'[i].restart = p.restart
        /\ proc'[i].health = "recovery_required"
    <3>1. PICK d : d = r.id
      OBVIOUS
    <3>2. \/ proc'[i] = [p EXCEPT !.desired = d, !.health = "recovery_required"]
          \/ proc'[i] = [p EXCEPT !.health = "recovery_required"]
      BY <1>2, <1>4, <3>1 DEF Refreshed, Refresh
    <3> QED BY <3>2 DEF Process
  <2> QED BY <1>1, <1>2, <2>1, HealthKept
<1> QED BY <1>3, <1>4

\* No other step of a process changes what it has loaded.
LEMMA ConfigHealth ==
    ASSUME ConfigConstants, RevisionsOK, ProcessesOK, [Next]_vars, ConfigNext,
           NEW i \in Instances, Loaded(i), Truthful(i)
    PROVE  Loaded(i)' /\ Truthful(i)'
<1> DEFINE Kept ==
      /\ proc'[i].hot = proc[i].hot /\ proc'[i].restart = proc[i].restart
      /\ proc'[i].health \in {proc[i].health, "degraded", "recovery_required"}
      /\ refresh'[i].step = "read" => Known(refresh'[i].id)
<1>1. ASSUME Kept PROVE Loaded(i)' /\ Truthful(i)'
  BY <1>1, HealthKept
<1>2. ASSUME UNCHANGED <<proc, refresh>> PROVE Kept
  BY <1>2 DEF Loaded
<1>3. ASSUME NEW j \in Instances, j # i, StartRead(j) \/ RefreshInstall(j) PROVE Kept
  BY <1>3 DEF StartRead, RefreshInstall, ProcessesOK, Loaded
<1>4. ASSUME NEW j \in Instances, StartListen(j) PROVE Kept
  <2>1. PICK l \in BOOLEAN :
          LET q == [proc[j] EXCEPT !.phase = "up", !.listening = l,
                                   !.health = IF l THEN @ ELSE "degraded"]
          IN  proc' = [proc EXCEPT ![j] = q]
    BY <1>4 DEF StartListen
  <2>2. PICK p, h : /\ p \in Process /\ p = proc[j]
                    /\ h = IF l THEN p.health ELSE "degraded"
    BY DEF ProcessesOK
  <2>3. PICK q : q = [p EXCEPT !.phase = "up", !.listening = l, !.health = h]
    OBVIOUS
  <2>4. proc' = [proc EXCEPT ![j] = q]
    BY <2>1, <2>2, <2>3
  <2>5. q.hot = p.hot /\ q.restart = p.restart /\ q.health = h
    BY <2>3 DEF Process
  <2>6. proc'[i] = proc[i] \/ (i = j /\ proc'[i] = q)
    BY <2>4 DEF ProcessesOK
  <2>7. refresh' = refresh
    BY <1>4 DEF StartListen
  <2> QED BY <2>2, <2>5, <2>6, <2>7 DEF Loaded
<1>5. ASSUME NEW j \in Instances, RefreshRead(j) \/ RefreshFails(j) PROVE Kept
  <2>1. proc' = proc
    BY <1>5 DEF RefreshRead, RefreshFails
  <2>2. PICK r : refresh' = [refresh EXCEPT ![j] = r] /\ r.id \in {Active, None}
    <3>1. PICK a, f :
            /\ a = [step |-> "read", id |-> Active,
                    outcome |-> IF Resolved(j) = Active THEN "read" ELSE "unreadable"]
            /\ f = [step |-> "read", id |-> None, outcome |-> "failed"]
      OBVIOUS
    <3>2. refresh' = [refresh EXCEPT ![j] = a] \/ refresh' = [refresh EXCEPT ![j] = f]
      BY <1>5, <3>1 DEF RefreshRead, RefreshFails
    <3>3. a.id = Active /\ f.id = None
      BY <3>1
    <3> QED BY <3>2, <3>3
  <2>3. refresh'[i] = refresh[i] \/ refresh'[i] = r
    BY <2>2 DEF ProcessesOK
  <2>4. Known(Active) /\ Known(None)
    BY ReadsArePublished DEF Known
  <2> QED BY <2>1, <2>2, <2>3, <2>4 DEF Loaded
<1>6. ASSUME NEW j \in Instances, RefreshPersist(j) PROVE Kept
  <2>1. refresh'[i] = refresh[i] \/ refresh'[i].step = "idle"
    BY <1>6 DEF RefreshPersist, ProcessesOK, Idle
  <2> QED BY <1>6, <2>1 DEF RefreshPersist, Loaded
<1>7. \/ UNCHANGED <<proc, refresh>>
      \/ \E j \in Instances : \/ StartRead(j) \/ StartListen(j) \/ RefreshRead(j)
                              \/ RefreshFails(j) \/ RefreshInstall(j) \/ RefreshPersist(j)
  BY Zenon DEF ConfigNext, UpdateConfigurationDraft, PublishConfigurationDraft,
     CreateRollbackDraft, DropNotification, GoStale
<1> HIDE DEF Kept
<1>8. ASSUME NEW j \in Instances, StartRead(j) \/ RefreshInstall(j)
      PROVE  Loaded(i)' /\ Truthful(i)'
  BY <1>1, <1>3, <1>8, StartHealth, InstallHealth
<1> QED BY <1>1, <1>2, <1>4, <1>5, <1>6, <1>7, <1>8

\* A process that ends forgets nothing before the next one starts in its place.
LEMMA HealthStep ==
    ASSUME ConfigConstants, RevisionsOK, ProcessesOK, HealthInv, [Next]_vars
    PROVE  HealthInv'
<1> SUFFICES ASSUME NEW i \in Instances PROVE Loaded(i)' /\ Truthful(i)'
  BY DEF HealthInv
<1>0. Loaded(i) /\ Truthful(i)
  BY DEF HealthInv
<1>1. CASE UNCHANGED <<proc, refresh>>
  BY <1>0, <1>1, HealthKept DEF Loaded
<1>2. CASE ConfigNext
  BY <1>0, <1>2, ConfigHealth
<1>3. ASSUME NEW j \in Instances, Gone(j) PROVE Loaded(i)' /\ Truthful(i)'
  <2>1. PICK p \in Process : p = proc[j]
    BY DEF ProcessesOK
  <2>2. PICK q : q = [p EXCEPT !.phase = "down", !.listening = FALSE]
    OBVIOUS
  <2>3. q.hot = p.hot /\ q.restart = p.restart /\ q.health = p.health
    BY <2>2 DEF Process
  <2>4. proc' = [proc EXCEPT ![j] = q]
    BY <1>3, <2>1, <2>2 DEF Gone, ProcessesOK
  <2>5. proc'[i] = proc[i] \/ (i = j /\ proc'[i] = q)
    BY <2>4 DEF ProcessesOK
  <2>6. refresh'[i] = refresh[i] \/ refresh'[i].step = "idle"
    BY <1>3 DEF Gone, Idle, ProcessesOK
  <2>7. refresh'[i].step = "read" => Known(refresh'[i].id)
    BY <1>0, <2>6 DEF Loaded
  <2> QED BY <1>0, <2>1, <2>3, <2>5, <2>7, HealthKept
<1>4. \/ ConfigNext
      \/ \E j \in Instances : Gone(j)
      \/ UNCHANGED <<proc, refresh>>
  BY ZenonT(60) DEF Next, vars, configVars, CreateSystemRestartOperation,
     TargetLate, ExpireTargets, ClaimNextTarget, PollSnapshot, ReconcileStartup, MarkExiting,
     MarkAwaitingStartup, TransitionThrows, Leave, Crash, Ended
<1> QED BY <1>1, <1>2, <1>3, <1>4

\* Through publications, rollbacks to earlier values, fallbacks, failures and restarts, a
\* process that reports itself healthy runs the restart-only values of the revision it has
\* loaded, and one that reports that it must be restarted does not.
THEOREM HealthCanBeBelieved == Spec => []HealthIsTruthful
<1> USE ConfigConstants
<1>1. Init => HealthInv
  BY DEF Init, ConfigInit, HealthInv, Loaded, Truthful, Known, Idle
<1>2. IInv /\ HealthInv /\ [Next]_vars => HealthInv'
  BY HealthStep DEF IInv
<1>3. HealthInv => HealthIsTruthful
  BY DEF HealthInv, Truthful, HealthIsTruthful
<1> QED BY <1>1, <1>2, <1>3, Invariant, PTL DEF Spec
=============================================================================

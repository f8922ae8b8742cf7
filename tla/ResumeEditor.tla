----------------------------- MODULE ResumeEditor -----------------------------
(***************************************************************************)
(* One browser tab that edits a resume (src/stores/resume-editor.ts, and   *)
(* the autosave of components/editor), the local draft of that browser,    *)
(* and the resume the server keeps (src/lib/resume/repository.ts), which   *)
(* other devices change too.                                               *)
(*                                                                         *)
(* Saves are requests whose answers come late: meanwhile the user edits,   *)
(* undoes, asks to save again, restores a version or answers a prompt.     *)
(***************************************************************************)
EXTENDS Integers, Sequences

CONSTANTS
    Docs,             \* what a resume may contain; one object for each content
    NoDoc,
    MaxVersions,      \* bound: from it on no one else changes the resume, and the tab asks
                      \* for no restore or proposal and is not closed; after it no request
                      \* fails and the user keeps no edit over another version
    MaxEdited,        \* bound: after it the user does not edit
    MaxSummarized,    \* bound: after it no summary is changed
    Slots,            \* bound: requests of the tab that are under way at once
    MaxWaiters,       \* bound: callers of flushSave that wait for one save
    Circumstances     \* what may happen to the tab and its requests

ASSUME EditorConstants ==
    /\ Docs # {} /\ NoDoc \notin Docs /\ 0 \notin Slots
    /\ {MaxVersions, MaxEdited, MaxSummarized, MaxWaiters} \subseteq Nat

VARIABLES
    log,       \* the document of every version so far: the server keeps the last
    base,      \* the version that the writer of the last one had seen
    trashed,   \* resumes.deleted_at
    draft,     \* of this browser, in its own database
    tab,       \* the editor store and what its component remembers
    requests   \* of the tab to the server

vars == <<log, base, trashed, draft, tab, requests>>

-----------------------------------------------------------------------------
Versions == Nat
Version == Len(log)
Document == log[Version]

\* fresh: its updatedAt is later than that of the stored resume.  The browser runs the
\* page's operations on it in order: a deletion counts from when it is asked for.
Draft == [some : BOOLEAN, doc : Docs \cup {NoDoc}, version : Versions, fresh : BOOLEAN]

\* version, doc, dirty, conflict (0: none), recovery and blocked are the store's.
\* timer: the debounce runs; drafting: its callback is writing the draft; current:
\* saveInFlightRef; cloud: the version the conflict prompt has loaded for cloudFor;
\* failed: the last save has ended in an error.
\* What only the properties use -- seen: the latest version that the user has been shown
\* or has made; renumbered: the document was given the number of a later version than
\* the next; discarded: its draft was, with the recovery draft that it had replaced.
Tab ==
    [open : BOOLEAN, doc : Docs, version : Versions, dirty : BOOLEAN, blocked : BOOLEAN,
     conflict : Versions, cloud : Versions, cloudFor : Versions,
     recovery : Draft, timer : BOOLEAN, drafting : BOOLEAN,
     failed : BOOLEAN, current : Slots \cup {0}, seen : Versions,
     renumbered : BOOLEAN, discarded : BOOLEAN]

\* "orphan": the tab has gone; "cleaning": saved, and the draft is being deleted.
Request ==
    [stage : {"none", "sent", "orphan", "accepted", "conflict", "trashed", "failed",
              "cleaning"},
     kind : {"save", "summary", "restore", "proposal"},
     version : Versions, doc : Docs \cup {NoDoc}, seen : Versions, waiters : 0..MaxWaiters]

NoDraft == [some |-> FALSE, doc |-> NoDoc, version |-> 0, fresh |-> FALSE]
NoRequest ==
    [stage |-> "none", kind |-> "save", version |-> 0, doc |-> NoDoc, seen |-> 0,
     waiters |-> 0]

\* The page renders the stored resume, and offers a draft that is newer.
Opened ==
    [open |-> TRUE, doc |-> Document, version |-> Version, dirty |-> FALSE,
     blocked |-> FALSE, conflict |-> 0, cloud |-> 0, cloudFor |-> 0,
     recovery |-> IF draft.some /\ draft.fresh THEN draft ELSE NoDraft,
     timer |-> FALSE, drafting |-> FALSE, failed |-> FALSE, current |-> 0,
     seen |-> Version, renumbered |-> FALSE, discarded |-> FALSE]

Init ==
    /\ \E d \in Docs : log = <<d>>
    /\ base = 0
    /\ trashed = FALSE
    /\ draft = NoDraft
    /\ tab = Opened
    /\ requests = [s \in Slots |-> NoRequest]

MayChange == Version < MaxVersions
MayGoWrong == Version <= MaxVersions
MayEdit == Version <= MaxEdited
MaySummarize == Version <= MaxSummarized
Active == tab.open /\ ~tab.blocked
Free(s) == requests[s].stage = "none"

-----------------------------------------------------------------------------
(* The server: lib/resume/repository.ts                                    *)

\* The row's updated_at moves on.
Aged == [draft EXCEPT !.fresh = FALSE]

\* A transaction that holds the row's lock stores d over what its caller has seen.
Store(d, seen) ==
    /\ log' = Append(log, d)
    /\ base' = seen
    /\ draft' = Aged

\* The version check of saveResumeRecordWithExecutor and restoreResumeVersion.  A
\* proposal is applied to whatever the row holds.
Matches(r) == r.kind = "proposal" \/ r.version = Version

Answer(s, answer) == requests' = [requests EXCEPT ![s] = answer]

Answered(r, stage, version, doc) ==
    [r EXCEPT !.stage = stage, !.version = version, !.doc = doc, !.seen = 0]

\* The server handles a request.  What it restores, and what a proposal makes of the
\* document, may be anything; changes of a proposal that were applied before are not
\* applied again.
Handle(s) ==
    LET r == requests[s]
        Reply(stage, version, doc) ==
            IF r.stage = "orphan" THEN Answer(s, NoRequest)
            ELSE Answer(s, Answered(r, stage, version, doc))
    IN
    /\ r.stage \in {"sent", "orphan"}
    /\ \/ /\ trashed
          /\ Reply("trashed", 0, NoDoc)
          /\ UNCHANGED <<log, base, draft>>
       \/ /\ ~trashed /\ ~Matches(r)
          /\ Reply("conflict", Version, NoDoc)
          /\ UNCHANGED <<log, base, draft>>
       \/ /\ ~trashed /\ Matches(r)
          /\ \E d \in Docs :
               /\ r.kind = "save" => d = r.doc
               /\ r.kind = "summary" => d = Document
               /\ Store(d, IF r.kind = "proposal" THEN Version ELSE r.seen)
               /\ Reply("accepted", Version + 1, d)
       \/ /\ ~trashed /\ r.kind = "proposal"
          /\ Reply("accepted", Version, Document)
          /\ UNCHANGED <<log, base, draft>>
    /\ UNCHANGED <<trashed, tab>>

\* A request, or the answer to it, is lost, the snapshot to restore has gone, or the
\* proposal no longer fits the document.
Fail(s) ==
    /\ requests[s].stage \in {"sent", "orphan", "accepted", "conflict"}
    /\ "failures" \in Circumstances /\ MayGoWrong
    /\ IF requests[s].stage = "orphan" THEN Answer(s, NoRequest)
       ELSE Answer(s, Answered(requests[s], "failed", 0, NoDoc))
    /\ UNCHANGED <<log, base, trashed, draft, tab>>

\* Another device saves, having read the current version.
SaveElsewhere(d) ==
    /\ "elsewhere" \in Circumstances
    /\ MayChange /\ ~trashed
    /\ Store(d, Version)
    /\ UNCHANGED <<trashed, tab, requests>>

PublishElsewhere ==
    /\ "publish" \in Circumstances
    /\ ~trashed /\ draft.fresh
    /\ draft' = Aged
    /\ UNCHANGED <<log, base, trashed, tab, requests>>

\* deleteResumeRecord and restoreTrashedResume.
MoveElsewhere ==
    /\ "trash" \in Circumstances
    /\ MayChange
    /\ trashed' = ~trashed
    /\ Store(Document, Version)
    /\ UNCHANGED <<tab, requests>>

-----------------------------------------------------------------------------
(* The editor store                                                        *)

\* The subscription of useResumePersistence (re)starts the debounce.
Rearms(t) == t.dirty /\ ~t.blocked /\ (t.doc # tab.doc \/ t.version # tab.version)

Set(t) == tab' = IF Rearms(t) THEN [t EXCEPT !.timer = TRUE] ELSE t

Shown(t, v) == [t EXCEPT !.version = v, !.seen = IF v > @ THEN v ELSE @]

\* Mutant: what was saved is what is on the screen.
NothingNewer(d) == FALSE

HasNewerEdits(d) == tab.doc # d

MarkSaved(v, d) ==
    [Shown(tab, v) EXCEPT !.dirty = HasNewerEdits(d), !.conflict = 0, !.failed = FALSE,
                          !.renumbered = HasNewerEdits(d) /\ @,
                          !.discarded = HasNewerEdits(d) /\ @]

RestoreServerVersion(v, d) ==
    [Shown(tab, v) EXCEPT !.doc = d, !.dirty = FALSE, !.conflict = 0, !.failed = FALSE,
                          !.recovery = NoDraft, !.renumbered = FALSE,
                          !.discarded = FALSE]

\* The version that updateSummary's answer names, whatever the editor shows.
SetVersion(v) == [Shown(tab, v) EXCEPT !.renumbered = @ \/ tab.version < v - 1]

\* Mutant: the editor takes over the version it has not seen.
Rebased(v) == [tab EXCEPT !.conflict = v, !.version = v, !.failed = TRUE]

SetSaveConflict(v) == [tab EXCEPT !.conflict = v, !.failed = TRUE]

SetResumeTrashed == [tab EXCEPT !.blocked = TRUE, !.conflict = 0, !.failed = TRUE]

\* updateDocument, replaceDocument, undo and redo: all that the user does to the
\* document, which may bring an earlier one back.
Edit(d) ==
    /\ tab.open /\ MayEdit
    /\ d # tab.doc
    /\ \E conflict \in {tab.conflict, 0} :
         Set([tab EXCEPT !.doc = d, !.dirty = TRUE, !.conflict = conflict, !.failed = FALSE,
                         !.renumbered = FALSE])
    /\ UNCHANGED <<log, base, trashed, draft, requests>>

\* The effect that loads the stored resume for the conflict prompt.
LoadCurrentResume ==
    /\ tab.open /\ tab.conflict # 0
    /\ <<tab.cloudFor, tab.cloud>> # <<tab.conflict, Version>>
    /\ tab' = [tab EXCEPT !.cloudFor = tab.conflict, !.cloud = Version]
    /\ UNCHANGED <<log, base, trashed, draft, requests>>

Prompted == tab.open /\ tab.conflict # 0 /\ tab.cloudFor = tab.conflict

UseCloudVersion ==
    /\ Prompted
    /\ Set(RestoreServerVersion(tab.cloud, log[tab.cloud]))
    /\ draft' = NoDraft
    /\ UNCHANGED <<log, base, trashed, requests>>

KeepLocalAfterConflict ==
    /\ Prompted /\ MayGoWrong
    /\ Set([Shown(tab, tab.cloud) EXCEPT !.dirty = TRUE, !.conflict = 0, !.failed = FALSE])
    /\ UNCHANGED <<log, base, trashed, draft, requests>>

\* The draft is an object of its own, whatever it contains: the debounce starts.
RestoreRecoveryDraft ==
    /\ tab.open /\ tab.recovery.some
    /\ tab' = [tab EXCEPT !.doc = tab.recovery.doc, !.version = tab.recovery.version,
                          !.dirty = TRUE, !.recovery = NoDraft, !.failed = FALSE,
                          !.timer = @ \/ ~tab.blocked, !.renumbered = FALSE]
    /\ UNCHANGED <<log, base, trashed, draft, requests>>

DiscardRecoveryDraft ==
    /\ tab.open /\ tab.recovery.some
    /\ tab' = [tab EXCEPT !.recovery = NoDraft, !.discarded = tab.dirty]
    /\ draft' = NoDraft
    /\ UNCHANGED <<log, base, trashed, requests>>

-----------------------------------------------------------------------------
(* Saving                                                                  *)

\* A request of this tab, as t knows the resume.
Sent(kind, t) ==
    [stage |-> "sent", kind |-> kind, version |-> t.version,
     doc |-> IF kind = "save" THEN t.doc ELSE NoDoc, seen |-> t.seen, waiters |-> 0]

\* flushSave is called: it waits for the save that is under way, or starts one.
FlushSave(t) ==
    \/ /\ t.blocked \/ (t.current = 0 /\ ~t.dirty)
       /\ tab' = t /\ UNCHANGED requests
    \/ /\ ~t.blocked /\ t.current # 0
       /\ requests[t.current].waiters < MaxWaiters
       /\ tab' = t
       /\ requests' = [requests EXCEPT ![t.current].waiters = @ + 1]
    \/ /\ ~t.blocked /\ t.current = 0 /\ t.dirty
       /\ \E s \in Slots :
            /\ Free(s)
            /\ tab' = [t EXCEPT !.current = s, !.failed = FALSE]
            /\ Answer(s, Sent("save", t))

\* Mutant: a save that is under way is waited for instead.
UnsavedAndIdle == tab.dirty /\ ~tab.blocked /\ tab.current = 0

Unsaved == tab.dirty /\ ~tab.blocked

\* The callback of the debounce: it writes the draft ...
WriteDraft ==
    /\ tab.open /\ tab.timer /\ ~tab.drafting
    /\ IF Unsaved
       THEN /\ tab' = [tab EXCEPT !.timer = FALSE, !.drafting = TRUE, !.discarded = FALSE]
            /\ draft' = [some |-> TRUE, doc |-> tab.doc, version |-> tab.version, fresh |-> TRUE]
       ELSE /\ tab' = [tab EXCEPT !.timer = FALSE]
            /\ UNCHANGED draft
    /\ UNCHANGED <<log, base, trashed, requests>>

\* ... and then saves.  If there is nothing left to save, the draft is deleted.
Autosave ==
    /\ tab.open /\ tab.drafting
    /\ FlushSave([tab EXCEPT !.drafting = FALSE])
    /\ draft' = IF tab.blocked \/ tab.dirty \/ tab.current # 0 THEN draft ELSE NoDraft
    /\ UNCHANGED <<log, base, trashed>>

\* Ctrl+S, and before the resume is published, previewed or exported.
ManualSave ==
    /\ Active /\ (tab.dirty \/ tab.current # 0)
    /\ FlushSave(tab)
    /\ UNCHANGED <<log, base, trashed, draft>>

\* The other changes wait for flushSave first, a restore only if there is something to
\* save; the document may have been edited since.
ChangeOtherwise(kind, s) ==
    /\ Active /\ kind \in Circumstances
    /\ IF kind = "summary" THEN MaySummarize ELSE MayChange
    /\ tab.current = 0 \/ (kind = "restore" /\ ~tab.dirty)
    /\ Free(s)
    /\ \A u \in Slots : requests[u].kind # kind \/ Free(u)
    /\ Answer(s, Sent(kind, tab))
    /\ UNCHANGED <<log, base, trashed, draft, tab>>

\* Mutant: the reference to a save outlives it.
StillInFlight(t, s) == t

\* The finally of flushSave.
NotInFlight(t, s) == [t EXCEPT !.current = IF @ = s THEN 0 ELSE @]

\* The save in slot s is over: callers that waited for it save again if there is
\* something left to save.  Each of them finds no save but the first one's.
Settle(s, t, ok) ==
    LET over == NotInFlight(t, s)
        left == IF ok /\ t.dirty THEN requests[s].waiters ELSE 0
        done == [requests EXCEPT ![s] = NoRequest]
        also == {u \in Slots \ {s} : Free(u)}
    IN
    IF left = 0 THEN Set(over) /\ requests' = done
    ELSE IF left = 1 \/ also = {}
    THEN /\ Set([over EXCEPT !.current = s])
         /\ requests' = [requests EXCEPT ![s] = Sent("save", t)]
    ELSE \E u \in also :
         /\ Set([over EXCEPT !.current = u])
         /\ requests' = [requests EXCEPT ![s] = Sent("save", t), ![u] = Sent("save", t)]

\* The tab receives the answer to a save.
SaveEnds(s) ==
    LET r == requests[s]
        saved == MarkSaved(r.version, r.doc)
    IN
    /\ tab.open /\ r.kind = "save"
    /\ \/ /\ r.stage = "accepted"
          /\ IF ~saved.dirty
             THEN /\ Set(saved) /\ Answer(s, Answered(r, "cleaning", 0, NoDoc))
                  /\ draft' = NoDraft
             ELSE Settle(s, saved, TRUE) /\ UNCHANGED draft
       \/ r.stage = "cleaning" /\ Settle(s, tab, TRUE) /\ UNCHANGED draft
       \/ /\ r.stage = "conflict"
          /\ Settle(s, SetSaveConflict(r.version), FALSE)
          /\ UNCHANGED draft
       \/ /\ r.stage = "trashed"
          /\ Settle(s, SetResumeTrashed, FALSE)
          /\ UNCHANGED draft
       \/ /\ r.stage = "failed"
          /\ Settle(s, [tab EXCEPT !.failed = TRUE], FALSE)
          /\ UNCHANGED draft
    /\ UNCHANGED <<log, base, trashed>>

\* The tab receives the answer to another change.
ChangeEnds(s) ==
    LET r == requests[s] IN
    /\ tab.open /\ r.kind # "save"
    /\ r.stage \in {"accepted", "conflict", "trashed", "failed"}
    /\ \/ r.stage = "accepted" /\ r.kind = "summary" /\ Set(SetVersion(r.version))
       \/ /\ r.stage = "accepted" /\ r.kind = "restore"
          /\ Set(RestoreServerVersion(r.version, r.doc))
       \/ /\ r.stage = "accepted" /\ r.kind = "proposal"
          /\ Set([Shown(tab, r.version) EXCEPT
                    !.doc = r.doc, !.dirty = FALSE, !.conflict = 0, !.failed = FALSE,
                    !.renumbered = FALSE, !.discarded = FALSE])
       \/ r.stage = "conflict" /\ r.kind = "restore" /\ Set(SetSaveConflict(r.version))
       \/ r.stage = "trashed" /\ r.kind = "restore" /\ Set(SetResumeTrashed)
       \/ /\ r.stage # "accepted"
          /\ r.kind # "restore" \/ r.stage = "failed"
          /\ UNCHANGED tab
    /\ draft' = IF r.stage = "accepted" /\ r.kind = "restore" THEN NoDraft ELSE draft
    /\ Answer(s, NoRequest)
    /\ UNCHANGED <<log, base, trashed>>

-----------------------------------------------------------------------------
(* The tab goes and comes back                                             *)

Close ==
    /\ "crash" \in Circumstances
    /\ tab.open /\ MayChange
    /\ tab' = [Opened EXCEPT !.open = FALSE, !.recovery = NoDraft]
    /\ requests' = [s \in Slots |->
         IF requests[s].stage = "sent" THEN [requests[s] EXCEPT !.stage = "orphan", !.waiters = 0]
         ELSE IF requests[s].stage = "orphan" THEN requests[s] ELSE NoRequest]
    /\ UNCHANGED <<log, base, trashed, draft>>

Open ==
    /\ ~tab.open /\ ~trashed
    /\ tab' = Opened
    /\ UNCHANGED <<log, base, trashed, draft, requests>>

Next ==
    \/ \E d \in Docs : Edit(d) \/ SaveElsewhere(d)
    \/ PublishElsewhere \/ MoveElsewhere
    \/ LoadCurrentResume \/ UseCloudVersion \/ KeepLocalAfterConflict
    \/ RestoreRecoveryDraft \/ DiscardRecoveryDraft
    \/ WriteDraft \/ Autosave \/ ManualSave
    \/ \E s \in Slots :
         \/ Handle(s) \/ Fail(s) \/ SaveEnds(s) \/ ChangeEnds(s)
         \/ \E kind \in {"summary", "restore", "proposal"} : ChangeOtherwise(kind, s)
    \/ Close \/ Open

Spec == Init /\ [][Next]_vars

\* Timers fire and requests are answered, or fail; the user owes the editor nothing.
Fairness ==
    /\ WF_vars(WriteDraft) /\ WF_vars(Autosave)
    /\ \A s \in Slots : WF_vars(Handle(s)) /\ WF_vars(SaveEnds(s)) /\ WF_vars(ChangeEnds(s))

FairSpec == Spec /\ Fairness

-----------------------------------------------------------------------------
TypeOK ==
    /\ log \in Seq(Docs) /\ log # <<>>
    /\ base \in Nat
    /\ trashed \in BOOLEAN
    /\ draft \in Draft
    /\ tab \in Tab
    /\ requests \in [Slots -> Request]
    /\ tab.version <= Version /\ tab.seen <= Version
    /\ tab.current # 0 =>
          requests[tab.current].stage # "none" /\ requests[tab.current].kind = "save"

\* A resume, its saves, restores, proposals and trips to the trash implement the
\* versioned register: a version is replaced only by someone who has seen it.  The
\* editor may believe in an old version, never in one its user was not shown.
Register == INSTANCE VersionedRegister WITH version <- Version
WritesAreLinear == Register!Spec

Saved == \E v \in tab.version..Version : log[v] = tab.doc

\* It was saved once, but a summary's answer, which names the version it has made and
\* not the document in it, has given it the number of a later one.
Renumbered == tab.renumbered /\ \E v \in 1..Version : log[v] = tab.doc

\* When the editor says that everything is saved, the document on the screen is the
\* server's, at the version the editor knows or a later one, whatever was edited,
\* undone, restored or chosen while requests were under way -- except in one order of
\* answers: that of a restore, late, which takes the editor back behind its last save,
\* and then that of a summary which was changed over that save.
CleanMeansSaved == tab.open /\ ~tab.dirty => Saved \/ Renumbered

Drafted == draft.some /\ draft.doc = tab.doc

\* Unsaved edits are in the browser's draft once the debounce has passed, and stay
\* there whatever is answered to the saves -- except when the user discards the
\* recovery draft of an earlier visit after these edits have replaced it: until the
\* next edit they are then nowhere but on the screen.
UnsavedEditsAreDrafted ==
    tab.open /\ tab.dirty /\ ~tab.blocked /\ ~tab.timer =>
        Drafted \/ Saved \/ Renumbered \/ tab.discarded

\* Once the debounce of an edit, a recovered draft or a kept version has started,
\* what is on the screen gets saved without a further edit, unless it is replaced,
\* the user has to be asked, or a request fails.
EveryEditIsSaved ==
    \A d \in Docs :
        (tab.open /\ tab.timer /\ tab.doc = d) ~>
            \/ ~tab.open \/ tab.doc # d \/ Saved
            \/ tab.blocked \/ tab.conflict # 0 \/ tab.failed
=============================================================================

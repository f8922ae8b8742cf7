-------------------------- MODULE ResumeEditor_proofs --------------------------
(* Theorems about ResumeEditor for every value of its constants.            *)
EXTENDS ResumeEditor, TLAPS

\* What drafts, the tab and its requests know of a resume with n versions.
DraftOK(d, n) == d \in Draft /\ d.version <= n /\ (d.some => d.doc \in Docs)

TabOK(t, n) ==
    /\ t \in Tab
    /\ t.version <= t.seen /\ t.seen <= n
    /\ t.cloudFor # 0 => t.cloud \in 1..n
    /\ DraftOK(t.recovery, t.seen)

\* Whoever asks for a change has seen at least the version the request names.
RequestOK(r, n) ==
    /\ r \in Request
    /\ r.stage \in {"sent", "orphan"} => r.version <= r.seen /\ r.seen <= n
    /\ r.stage = "accepted" => r.version \in 1..n /\ r.doc \in Docs

\* The save under way is one of the tab's requests.
CurrentOK(t, rs) ==
    t.current # 0 => rs[t.current].stage \notin {"none", "orphan"} /\ rs[t.current].kind = "save"

RequestsOK(rs, n) == rs \in [Slots -> Request] /\ \A s \in Slots : RequestOK(rs[s], n)

IInv ==
    /\ log \in Seq(Docs) /\ log # <<>>
    /\ base \in Nat /\ trashed \in BOOLEAN
    /\ DraftOK(draft, Version)
    /\ TabOK(tab, Version)
    /\ RequestsOK(requests, Version)
    /\ CurrentOK(tab, requests)

-----------------------------------------------------------------------------
(* Records                                                                 *)

LEMMA NoDraftOK == ASSUME NEW n \in Nat PROVE DraftOK(NoDraft, n)
BY DEF DraftOK, NoDraft, Draft, Versions

LEMMA AgedOK == ASSUME NEW n \in Nat, DraftOK(draft, n) PROVE DraftOK(Aged, n)
BY DEF DraftOK, Aged, Draft

\* What was right remains so when the resume gets another version.
LEMMA DraftLater ==
    ASSUME NEW n \in Nat, NEW m \in Nat, n <= m, NEW d, DraftOK(d, n)
    PROVE  DraftOK(d, m)
BY DEF DraftOK, Draft, Versions

LEMMA TabLater ==
    ASSUME NEW n \in Nat, NEW m \in Nat, n <= m, NEW t, TabOK(t, n)
    PROVE  TabOK(t, m)
BY DEF TabOK, Tab, Versions

LEMMA RequestLater ==
    ASSUME NEW n \in Nat, NEW m \in Nat, n <= m, NEW r, RequestOK(r, n)
    PROVE  RequestOK(r, m)
BY DEF RequestOK, Request, Versions

LEMMA NoRequestOK == ASSUME EditorConstants, NEW n \in Nat PROVE RequestOK(NoRequest, n)
BY DEF RequestOK, NoRequest, Request, EditorConstants, Versions

LEMMA SentOK ==
    ASSUME EditorConstants, NEW n \in Nat, NEW t, TabOK(t, n),
           NEW kind \in {"save", "summary", "restore", "proposal"}
    PROVE  /\ RequestOK(Sent(kind, t), n)
           /\ Sent(kind, t).stage = "sent" /\ Sent(kind, t).kind = kind
BY DEF RequestOK, Sent, Request, TabOK, Tab, EditorConstants

\* An answer that is no version, or one that the resume has.
LEMMA AnsweredOK ==
    ASSUME NEW n \in Nat, NEW r \in Request,
           NEW stage \in {"accepted", "conflict", "trashed", "failed", "cleaning"},
           NEW v \in Nat, NEW d \in Docs \cup {NoDoc},
           stage = "accepted" => v \in 1..n /\ d \in Docs
    PROVE  /\ RequestOK(Answered(r, stage, v, d), n)
           /\ Answered(r, stage, v, d).kind = r.kind /\ Answered(r, stage, v, d).stage = stage
<1>1. PICK b : b = [r EXCEPT !.stage = stage, !.version = v, !.doc = d, !.seen = 0]
  OBVIOUS
<1>2. /\ b \in Request /\ b.stage = stage /\ b.version = v /\ b.doc = d /\ b.kind = r.kind
  BY <1>1 DEF Request, Versions
<1> QED BY <1>1, <1>2 DEF Answered, RequestOK

LEMMA ShownOK ==
    ASSUME NEW n \in Nat, NEW t, TabOK(t, n), NEW v \in 0..n
    PROVE  /\ TabOK(Shown(t, v), n)
           /\ Shown(t, v).current = t.current /\ Shown(t, v).doc = t.doc
<1>1. t \in Tab /\ t.seen \in Nat
  BY DEF TabOK, Tab, Versions
<1>2. PICK w : w = IF v > t.seen THEN v ELSE t.seen
  OBVIOUS
<1>3. w \in Nat /\ v <= w /\ w <= n /\ t.seen <= w
  BY <1>1, <1>2 DEF TabOK
<1>4. PICK b : b = [t EXCEPT !.version = v, !.seen = w]
  OBVIOUS
<1>5. /\ b \in Tab /\ b.version = v /\ b.seen = w /\ b.current = t.current /\ b.doc = t.doc
      /\ b.cloudFor = t.cloudFor /\ b.cloud = t.cloud /\ b.recovery = t.recovery
  <2>1. v \in Nat
    OBVIOUS
  <2>2. PICK x \in Tab : x = t
    BY <1>1
  <2>3. b = [x EXCEPT !.version = v, !.seen = w]
    BY <1>4, <2>2
  <2> QED BY <1>3, <2>1, <2>2, <2>3 DEF Tab, Versions
<1>6. Shown(t, v) = b
  BY <1>1, <1>2, <1>4 DEF Shown
<1>7. DraftOK(b.recovery, w)
  BY <1>1, <1>3, <1>5, DraftLater DEF TabOK
<1> QED BY <1>3, <1>5, <1>6, <1>7 DEF TabOK

\* A tab that differs from one that is right in other fields.
LEMMA SameVersions ==
    ASSUME NEW n \in Nat, NEW t, TabOK(t, n), NEW b \in Tab,
           b.version = t.version, b.seen = t.seen, b.cloudFor = t.cloudFor, b.cloud = t.cloud,
           b.recovery \in {t.recovery, NoDraft}
    PROVE  TabOK(b, n)
<1>1. t.seen \in Nat
  BY DEF TabOK, Tab, Versions
<1> QED BY <1>1, NoDraftOK DEF TabOK

LEMMA SetOK ==
    ASSUME NEW n \in Nat, NEW t, TabOK(t, n), Set(t)
    PROVE  TabOK(tab', n) /\ tab'.current = t.current
<1>1. CASE tab' = t
  BY <1>1
<1>2. CASE tab' = [t EXCEPT !.timer = TRUE]
  <2>1. PICK b : b = [t EXCEPT !.timer = TRUE]
    OBVIOUS
  <2>2. /\ b \in Tab /\ b.version = t.version /\ b.seen = t.seen /\ b.cloudFor = t.cloudFor
        /\ b.cloud = t.cloud /\ b.recovery = t.recovery /\ b.current = t.current
    BY <2>1 DEF TabOK, Tab
  <2> QED BY <1>2, <2>1, <2>2, SameVersions
<1> QED BY <1>1, <1>2 DEF Set

LEMMA MarkSavedOK ==
    ASSUME NEW n \in Nat, TabOK(tab, n), NEW v \in 1..n, NEW d
    PROVE  TabOK(MarkSaved(v, d), n) /\ MarkSaved(v, d).current = tab.current
<1>1. PICK t : t = Shown(tab, v)
  OBVIOUS
<1>2. TabOK(t, n) /\ t.current = tab.current
  BY <1>1, ShownOK
<1>3. PICK x \in BOOLEAN : x = HasNewerEdits(d)
  BY DEF HasNewerEdits
<1>4. PICK y \in BOOLEAN, z \in BOOLEAN :
         y = (HasNewerEdits(d) /\ t.renumbered) /\ z = (HasNewerEdits(d) /\ t.discarded)
  OBVIOUS
<1>5. PICK b : b = [t EXCEPT !.dirty = x, !.conflict = 0, !.failed = FALSE,
                             !.renumbered = y, !.discarded = z]
  OBVIOUS
<1>6. /\ b \in Tab /\ b.version = t.version /\ b.seen = t.seen /\ b.cloudFor = t.cloudFor
      /\ b.cloud = t.cloud /\ b.recovery = t.recovery /\ b.current = t.current
  <2>1. t \in Tab
    BY <1>2 DEF TabOK
  <2> QED BY ONLY <1>5, <2>1, x \in BOOLEAN, y \in BOOLEAN, z \in BOOLEAN DEF Tab, Versions
<1>7. MarkSaved(v, d) = b
  BY <1>1, <1>3, <1>4, <1>5 DEF MarkSaved
<1> QED BY <1>2, <1>6, <1>7, SameVersions

LEMMA RestoreServerVersionOK ==
    ASSUME NEW n \in Nat, TabOK(tab, n), NEW v \in 1..n, NEW d \in Docs
    PROVE  TabOK(RestoreServerVersion(v, d), n) /\ RestoreServerVersion(v, d).current = tab.current
<1>1. PICK t : t = Shown(tab, v)
  OBVIOUS
<1>2. TabOK(t, n) /\ t.current = tab.current
  BY <1>1, ShownOK
<1>3. PICK e : e = NoDraft
  OBVIOUS
<1>4. e \in Draft
  BY <1>3, NoDraftOK DEF DraftOK
<1>5. PICK b : b = [t EXCEPT !.doc = d, !.dirty = FALSE, !.conflict = 0, !.failed = FALSE, !.recovery = e,
                             !.renumbered = FALSE, !.discarded = FALSE]
  OBVIOUS
<1>6. /\ b \in Tab /\ b.version = t.version /\ b.seen = t.seen /\ b.cloudFor = t.cloudFor
      /\ b.cloud = t.cloud /\ b.recovery = e /\ b.current = t.current
  BY <1>2, <1>4, <1>5 DEF TabOK, Tab, Versions
<1>7. RestoreServerVersion(v, d) = b
  BY <1>1, <1>3, <1>5 DEF RestoreServerVersion
<1> QED BY <1>2, <1>3, <1>6, <1>7, SameVersions

LEMMA SetVersionOK ==
    ASSUME NEW n \in Nat, TabOK(tab, n), NEW v \in 0..n
    PROVE  TabOK(SetVersion(v), n) /\ SetVersion(v).current = tab.current
<1>1. PICK t : t = Shown(tab, v)
  OBVIOUS
<1>2. TabOK(t, n) /\ t.current = tab.current
  BY <1>1, ShownOK
<1>3. PICK y \in BOOLEAN : y = (t.renumbered \/ tab.version < v - 1)
  OBVIOUS
<1>4. PICK b : b = [t EXCEPT !.renumbered = y]
  OBVIOUS
<1>5. /\ b \in Tab /\ b.version = t.version /\ b.seen = t.seen /\ b.cloudFor = t.cloudFor
      /\ b.cloud = t.cloud /\ b.recovery = t.recovery /\ b.current = t.current
  BY <1>2, <1>4 DEF TabOK, Tab, Versions
<1>6. SetVersion(v) = b
  BY <1>1, <1>3, <1>4 DEF SetVersion
<1> QED BY <1>2, <1>5, <1>6, SameVersions

LEMMA SetSaveConflictOK ==
    ASSUME NEW n \in Nat, TabOK(tab, n), NEW v \in Nat
    PROVE  TabOK(SetSaveConflict(v), n) /\ SetSaveConflict(v).current = tab.current
<1>1. PICK b : b = [tab EXCEPT !.conflict = v, !.failed = TRUE]
  OBVIOUS
<1>2. /\ b \in Tab /\ b.version = tab.version /\ b.seen = tab.seen /\ b.cloudFor = tab.cloudFor
      /\ b.cloud = tab.cloud /\ b.recovery = tab.recovery /\ b.current = tab.current
  BY <1>1 DEF TabOK, Tab, Versions
<1> QED BY <1>1, <1>2, SameVersions DEF SetSaveConflict

LEMMA SetResumeTrashedOK ==
    ASSUME NEW n \in Nat, TabOK(tab, n)
    PROVE  TabOK(SetResumeTrashed, n) /\ SetResumeTrashed.current = tab.current
<1>1. PICK b : b = [tab EXCEPT !.blocked = TRUE, !.conflict = 0, !.failed = TRUE]
  OBVIOUS
<1>2. /\ b \in Tab /\ b.version = tab.version /\ b.seen = tab.seen /\ b.cloudFor = tab.cloudFor
      /\ b.cloud = tab.cloud /\ b.recovery = tab.recovery /\ b.current = tab.current
  BY <1>1 DEF TabOK, Tab, Versions
<1> QED BY <1>1, <1>2, SameVersions DEF SetResumeTrashed

LEMMA CurrentField ==
    ASSUME NEW n \in Nat, NEW t, TabOK(t, n), NEW c \in Slots \cup {0}
    PROVE  TabOK([t EXCEPT !.current = c], n) /\ [t EXCEPT !.current = c].current = c
<1>1. PICK a : a = [t EXCEPT !.current = c]
  OBVIOUS
<1>2. /\ a \in Tab /\ a.version = t.version /\ a.seen = t.seen /\ a.cloudFor = t.cloudFor
      /\ a.cloud = t.cloud /\ a.recovery = t.recovery /\ a.current = c
  BY <1>1 DEF TabOK, Tab
<1> QED BY <1>1, <1>2, SameVersions

LEMMA FlagField ==
    ASSUME NEW n \in Nat, NEW t, TabOK(t, n), NEW x \in BOOLEAN
    PROVE  /\ TabOK([t EXCEPT !.failed = x], n) /\ [t EXCEPT !.failed = x].current = t.current
           /\ TabOK([t EXCEPT !.drafting = x], n) /\ [t EXCEPT !.drafting = x].current = t.current
<1>1. PICK b, d : b = [t EXCEPT !.failed = x] /\ d = [t EXCEPT !.drafting = x]
  OBVIOUS
<1>2. /\ b \in Tab /\ b.version = t.version /\ b.seen = t.seen /\ b.cloudFor = t.cloudFor
      /\ b.cloud = t.cloud /\ b.recovery = t.recovery /\ b.current = t.current
  BY <1>1 DEF TabOK, Tab
<1>3. /\ d \in Tab /\ d.version = t.version /\ d.seen = t.seen /\ d.cloudFor = t.cloudFor
      /\ d.cloud = t.cloud /\ d.recovery = t.recovery /\ d.current = t.current
  BY <1>1 DEF TabOK, Tab
<1> QED BY <1>1, <1>2, <1>3, SameVersions

LEMMA OpenedOK ==
    ASSUME EditorConstants, log \in Seq(Docs), log # <<>>, DraftOK(draft, Version)
    PROVE  TabOK(Opened, Version) /\ Opened.current = 0
<1>1. Version \in Nat /\ Version >= 1 /\ Document \in Docs
  BY DEF Version, Document
<1>2. PICK d, n, r : d = Document /\ n = Version
                     /\ r = IF draft.some /\ draft.fresh THEN draft ELSE NoDraft
  OBVIOUS
<1>3. DraftOK(r, n)
  BY <1>1, <1>2, NoDraftOK
<1>4. PICK b : b = [open |-> TRUE, doc |-> d, version |-> n, dirty |-> FALSE,
                    blocked |-> FALSE, conflict |-> 0, cloud |-> 0, cloudFor |-> 0, recovery |-> r,
                    timer |-> FALSE, drafting |-> FALSE, failed |-> FALSE, current |-> 0, seen |-> n,
                    renumbered |-> FALSE, discarded |-> FALSE]
  OBVIOUS
<1>5. b \in Tab
  BY <1>1, <1>2, <1>3, <1>4 DEF Tab, Versions, DraftOK
<1>6. TabOK(b, n)
  BY <1>1, <1>2, <1>3, <1>4, <1>5 DEF TabOK
<1>7. Opened = b
  BY <1>2, <1>4 DEF Opened
<1> QED BY <1>2, <1>4, <1>6, <1>7

-----------------------------------------------------------------------------
(* Steps                                                                   *)

LEMMA VersionType ==
    ASSUME log \in Seq(Docs), log # <<>>
    PROVE  Version \in Nat /\ Version >= 1 /\ Document \in Docs
BY DEF Version, Document

LEMMA StoreStep ==
    ASSUME IInv, NEW d \in Docs, NEW seen \in Nat, Store(d, seen)
    PROVE  /\ log' \in Seq(Docs) /\ log' # <<>> /\ Version' = Version + 1
           /\ base' = seen
           /\ DraftOK(draft', Version') /\ TabOK(tab, Version') /\ RequestsOK(requests, Version')
<1>1. log' \in Seq(Docs) /\ log' # <<>> /\ Version' = Version + 1
  BY DEF IInv, Store, Version
<1>2. Version \in Nat /\ Version + 1 \in Nat /\ Version <= Version + 1
  BY VersionType DEF IInv
<1>3. DraftOK(draft', Version')
  BY <1>1, <1>2, AgedOK, DraftLater DEF IInv, Store
<1>4. TabOK(tab, Version')
  BY <1>1, <1>2, TabLater DEF IInv
<1>5. RequestsOK(requests, Version')
  BY <1>1, <1>2, RequestLater DEF IInv, RequestsOK
<1> QED BY <1>1, <1>3, <1>4, <1>5 DEF Store

LEMMA PutRequest ==
    ASSUME NEW n \in Nat, RequestsOK(requests, n), NEW s \in Slots, NEW r, RequestOK(r, n),
           requests' = [requests EXCEPT ![s] = r]
    PROVE  /\ RequestsOK(requests', n)
           /\ requests'[s] = r /\ \A u \in Slots \ {s} : requests'[u] = requests[u]
BY DEF RequestsOK, RequestOK

\* What is left to show of a step that does not touch the log.
LEMMA SameLog ==
    ASSUME IInv, UNCHANGED <<log, base>>, trashed' \in BOOLEAN,
           DraftOK(draft', Version), TabOK(tab', Version), RequestsOK(requests', Version),
           CurrentOK(tab', requests')
    PROVE  IInv'
BY DEF IInv, Version

\* An answer to a request that the tab still waits for, or that has lost its tab.
LEMMA ReplyStep ==
    ASSUME EditorConstants, IInv, NEW s \in Slots, NEW n \in Nat, RequestsOK(requests, n),
           NEW stage \in {"accepted", "conflict", "trashed", "failed"}, NEW v \in Nat,
           NEW d \in Docs \cup {NoDoc}, stage = "accepted" => v \in 1..n /\ d \in Docs,
           requests' = [requests EXCEPT ![s] =
             IF requests[s].stage = "orphan" THEN NoRequest
             ELSE Answered(requests[s], stage, v, d)]
    PROVE  RequestsOK(requests', n) /\ CurrentOK(tab, requests')
<1>1. requests[s] \in Request
  BY DEF RequestsOK
<1>2. CASE requests[s].stage = "orphan"
  <2>1. RequestsOK(requests', n) /\ \A u \in Slots \ {s} : requests'[u] = requests[u]
    BY <1>2, NoRequestOK, PutRequest
  <2>2. tab.current # s /\ tab.current \in Slots \cup {0}
    BY <1>2, EditorConstants DEF IInv, CurrentOK, TabOK, Tab, EditorConstants
  <2> QED BY <2>1, <2>2 DEF IInv, CurrentOK
<1>3. CASE requests[s].stage # "orphan"
  <2>1. PICK r : r = Answered(requests[s], stage, v, d)
    OBVIOUS
  <2>2. RequestOK(r, n) /\ r.kind = requests[s].kind /\ r.stage = stage
    BY <1>1, <2>1, AnsweredOK
  <2>3. /\ RequestsOK(requests', n) /\ requests'[s] = r
        /\ \A u \in Slots \ {s} : requests'[u] = requests[u]
    <3>1. requests' = [requests EXCEPT ![s] = r]
      BY <1>3, <2>1
    <3> QED BY ONLY RequestsOK(requests, n), n \in Nat, s \in Slots, <2>2, <3>1, PutRequest
  <2>4. tab.current \in Slots \cup {0}
    BY DEF IInv, TabOK, Tab
  <2> QED BY <2>2, <2>3, <2>4 DEF IInv, CurrentOK
<1> QED BY <1>2, <1>3

\* The server replaces a version only for a request whose sender has seen it.
LEMMA HandleStep ==
    ASSUME EditorConstants, IInv, NEW s \in Slots, Handle(s)
    PROVE  /\ IInv'
           /\ \/ UNCHANGED <<log, base>>
              \/ Version' = Version + 1 /\ base' = Version
<1> DEFINE r == requests[s]
<1>1. Version \in Nat /\ Version >= 1 /\ Document \in Docs /\ RequestOK(r, Version)
  BY VersionType DEF IInv, RequestsOK
<1>2. CASE /\ UNCHANGED <<log, base, draft>>
           /\ \E stage \in {"accepted", "conflict", "trashed"}, v \in 0..Version, d \in Docs \cup {NoDoc} :
                /\ stage = "accepted" => v \in 1..Version /\ d \in Docs
                /\ requests' = [requests EXCEPT ![s] =
                     IF r.stage = "orphan" THEN NoRequest ELSE Answered(r, stage, v, d)]
  <2>1. RequestsOK(requests', Version) /\ CurrentOK(tab, requests')
    <3>1. PICK stage \in {"accepted", "conflict", "trashed"}, v \in 0..Version, d \in Docs \cup {NoDoc} :
            /\ stage = "accepted" => v \in 1..Version /\ d \in Docs
            /\ requests' = [requests EXCEPT ![s] =
                 IF r.stage = "orphan" THEN NoRequest ELSE Answered(r, stage, v, d)]
      BY <1>2
    <3>2. v \in Nat /\ RequestsOK(requests, Version)
      BY <1>1 DEF IInv
    <3> QED BY <1>1, <3>1, <3>2, ReplyStep
  <2>2. tab' = tab /\ trashed' = trashed
    BY DEF Handle
  <2> QED BY <1>2, <2>1, <2>2, SameLog DEF IInv
<1>3. ASSUME NEW d \in Docs, ~trashed, Matches(r), Store(d, IF r.kind = "proposal" THEN Version ELSE r.seen),
             requests' = [requests EXCEPT ![s] =
               IF r.stage = "orphan" THEN NoRequest ELSE Answered(r, "accepted", Version + 1, d)]
      PROVE  IInv' /\ Version' = Version + 1 /\ base' = Version
  <2>1. r.stage \in {"sent", "orphan"}
    BY DEF Handle
  <2>2. (IF r.kind = "proposal" THEN Version ELSE r.seen) = Version
    BY <1>1, <1>3, <2>1 DEF Matches, RequestOK, Request, Versions
  <2>3. /\ log' \in Seq(Docs) /\ log' # <<>> /\ Version' = Version + 1 /\ base' = Version
        /\ DraftOK(draft', Version') /\ TabOK(tab, Version') /\ RequestsOK(requests, Version')
    BY <1>1, <1>3, <2>2, StoreStep
  <2>4. Version' \in Nat /\ Version + 1 \in 1..Version'
    BY <1>1, <2>3
  <2>5. RequestsOK(requests', Version') /\ CurrentOK(tab, requests')
    BY <1>1, <1>3, <2>3, <2>4, ReplyStep
  <2>6. tab' = tab /\ trashed' = trashed
    BY DEF Handle
  <2> QED BY <1>1, <2>3, <2>5, <2>6 DEF IInv
<1>4. \/ /\ UNCHANGED <<log, base, draft>>
         /\ \E stage \in {"accepted", "conflict", "trashed"}, v \in 0..Version, d \in Docs \cup {NoDoc} :
                /\ stage = "accepted" => v \in 1..Version /\ d \in Docs
                /\ requests' = [requests EXCEPT ![s] =
                     IF r.stage = "orphan" THEN NoRequest ELSE Answered(r, stage, v, d)]
      \/ \E d \in Docs :
           /\ ~trashed /\ Matches(r)
           /\ Store(d, IF r.kind = "proposal" THEN Version ELSE r.seen)
           /\ requests' = [requests EXCEPT ![s] =
                IF r.stage = "orphan" THEN NoRequest ELSE Answered(r, "accepted", Version + 1, d)]
  <2>1. 0 \in 0..Version /\ Version \in 0..Version /\ Version \in 1..Version
    BY <1>1
  <2> QED BY <1>1, <2>1 DEF Handle, Answer
<1> QED BY <1>2, <1>3, <1>4

LEMMA FailStep == ASSUME EditorConstants, IInv, NEW s \in Slots, Fail(s) PROVE IInv'
<1>1. Version \in Nat
  BY VersionType DEF IInv
<1>2. RequestsOK(requests', Version) /\ CurrentOK(tab, requests')
  <2>1. requests' = [requests EXCEPT ![s] =
          IF requests[s].stage = "orphan" THEN NoRequest ELSE Answered(requests[s], "failed", 0, NoDoc)]
    BY DEF Fail, Answer
  <2> QED BY <1>1, <2>1, ReplyStep DEF IInv
<1> QED BY <1>1, <1>2, SameLog DEF Fail, IInv

\* Other devices have read what they replace.
LEMMA ElsewhereStep ==
    ASSUME EditorConstants, IInv, (\E d \in Docs : SaveElsewhere(d)) \/ MoveElsewhere
    PROVE  IInv' /\ Version' = Version + 1 /\ base' = Version
<1>1. Version \in Nat /\ Document \in Docs
  BY VersionType DEF IInv
<1>2. PICK d \in Docs : Store(d, Version)
  BY <1>1 DEF SaveElsewhere, MoveElsewhere
<1>3. UNCHANGED <<tab, requests>> /\ trashed' \in BOOLEAN
  BY DEF SaveElsewhere, MoveElsewhere, IInv
<1> QED BY <1>1, <1>2, <1>3, StoreStep DEF IInv

LEMMA PublishStep == ASSUME EditorConstants, IInv, PublishElsewhere PROVE IInv'
<1>1. Version \in Nat
  BY VersionType DEF IInv
<1> QED BY <1>1, AgedOK, SameLog DEF PublishElsewhere, IInv

\* What is left to show of a step of the user.
LEMMA TabStep ==
    ASSUME EditorConstants, IInv, UNCHANGED <<log, base, trashed, requests>>,
           draft' \in {draft, NoDraft}, TabOK(tab', Version), tab'.current = tab.current
    PROVE  IInv'
<1>1. DraftOK(draft', Version)
  BY VersionType, NoDraftOK DEF IInv
<1> QED BY <1>1, SameLog DEF IInv, CurrentOK

LEMMA EditStep == ASSUME EditorConstants, IInv, NEW d \in Docs, Edit(d) PROVE IInv'
<1>1. Version \in Nat /\ TabOK(tab, Version)
  BY VersionType DEF IInv
<1>2. PICK c \in {tab.conflict, 0} :
         Set([tab EXCEPT !.doc = d, !.dirty = TRUE, !.conflict = c, !.failed = FALSE,
                    !.renumbered = FALSE])
  BY DEF Edit
<1>3. PICK b : b = [tab EXCEPT !.doc = d, !.dirty = TRUE, !.conflict = c, !.failed = FALSE,
                    !.renumbered = FALSE]
  OBVIOUS
<1>4. c \in Nat /\ tab \in Tab
  BY <1>1 DEF TabOK, Tab, Versions
<1>5. /\ b \in Tab /\ b.version = tab.version /\ b.seen = tab.seen /\ b.cloudFor = tab.cloudFor
      /\ b.cloud = tab.cloud /\ b.recovery = tab.recovery /\ b.current = tab.current
  <2> HIDE DEF IInv
  <2>1. PICK x \in Tab : x = tab
    BY <1>4
  <2>2. b = [x EXCEPT !.doc = d, !.dirty = TRUE, !.conflict = c, !.failed = FALSE,
                    !.renumbered = FALSE]
    BY <1>3, <2>1
  <2> QED BY <1>4, <2>1, <2>2 DEF Tab, Versions
<1>6. TabOK(b, Version)
  BY <1>1, <1>5, SameVersions
<1> QED BY <1>1, <1>2, <1>3, <1>5, <1>6, SetOK, TabStep DEF Edit

LEMMA LoadStep == ASSUME EditorConstants, IInv, LoadCurrentResume PROVE IInv'
<1>1. Version \in Nat /\ Version >= 1 /\ TabOK(tab, Version)
  BY VersionType DEF IInv
<1>2. PICK c, n : c = tab.conflict /\ n = Version
  OBVIOUS
<1>3. PICK x \in Tab : x = tab
  BY <1>1 DEF TabOK
<1>4. PICK b : b = [x EXCEPT !.cloudFor = c, !.cloud = n]
  OBVIOUS
<1>5. c \in Nat /\ n \in Nat
  BY <1>1, <1>2, <1>3 DEF Tab, Versions
<1>6. /\ b \in Tab /\ b.version = x.version /\ b.seen = x.seen /\ b.cloud = n
      /\ b.recovery = x.recovery /\ b.current = x.current
  BY <1>4, <1>5 DEF Tab, Versions
<1>7. TabOK(b, n)
  BY <1>1, <1>2, <1>3, <1>6 DEF TabOK
<1>8. tab' = b
  BY <1>2, <1>3, <1>4 DEF LoadCurrentResume
<1> QED BY <1>2, <1>3, <1>6, <1>7, <1>8, TabStep DEF LoadCurrentResume

LEMMA UseCloudStep == ASSUME EditorConstants, IInv, UseCloudVersion PROVE IInv'
<1>1. Version \in Nat /\ TabOK(tab, Version)
  BY VersionType DEF IInv
<1>2. tab.cloud \in 1..Version
  BY <1>1 DEF UseCloudVersion, Prompted, TabOK
<1>3. log[tab.cloud] \in Docs
  BY <1>2 DEF IInv, Version
<1>4. PICK b : b = RestoreServerVersion(tab.cloud, log[tab.cloud])
  OBVIOUS
<1>5. TabOK(b, Version) /\ b.current = tab.current
  BY <1>1, <1>2, <1>3, <1>4, RestoreServerVersionOK
<1>6. Set(b)
  BY <1>4 DEF UseCloudVersion
<1> QED BY <1>1, <1>5, <1>6, SetOK, TabStep DEF UseCloudVersion

LEMMA KeepLocalStep == ASSUME EditorConstants, IInv, KeepLocalAfterConflict PROVE IInv'
<1>1. Version \in Nat /\ TabOK(tab, Version)
  BY VersionType DEF IInv
<1>2. tab.cloud \in 1..Version /\ tab.cloud \in 0..Version
  <2>1. tab.cloud \in 1..Version
    BY <1>1 DEF KeepLocalAfterConflict, Prompted, TabOK
  <2> QED BY <1>1, <2>1
<1>3. PICK t : t = Shown(tab, tab.cloud)
  OBVIOUS
<1>4. TabOK(t, Version) /\ t.current = tab.current
  BY <1>1, <1>2, <1>3, ShownOK
<1>5. PICK b : b = [t EXCEPT !.dirty = TRUE, !.conflict = 0, !.failed = FALSE]
  OBVIOUS
<1>6. PICK x \in Tab : x = t
  BY <1>4 DEF TabOK
<1>7. /\ b \in Tab /\ b.version = x.version /\ b.seen = x.seen /\ b.cloudFor = x.cloudFor
      /\ b.cloud = x.cloud /\ b.recovery = x.recovery /\ b.current = x.current
  BY <1>5, <1>6 DEF Tab, Versions
<1>8. TabOK(b, Version)
  BY <1>1, <1>4, <1>6, <1>7, SameVersions
<1>9. Set(b)
  BY <1>3, <1>5 DEF KeepLocalAfterConflict
<1> QED BY <1>1, <1>4, <1>6, <1>7, <1>8, <1>9, SetOK, TabStep DEF KeepLocalAfterConflict

LEMMA RestoreDraftStep == ASSUME EditorConstants, IInv, RestoreRecoveryDraft PROVE IInv'
<1>1. Version \in Nat /\ TabOK(tab, Version)
  BY VersionType DEF IInv
<1>2. PICK x \in Tab, r \in Draft : x = tab /\ r = x.recovery
  BY <1>1 DEF TabOK, DraftOK
<1>3. PICK d, v, e, m : d = r.doc /\ v = r.version /\ e = NoDraft /\ m = (x.timer \/ ~x.blocked)
  OBVIOUS
<1>4. d \in Docs /\ v \in Nat /\ e \in Draft /\ m \in BOOLEAN /\ v <= x.seen /\ x.seen \in Nat
  BY <1>1, <1>2, <1>3, NoDraftOK DEF RestoreRecoveryDraft, TabOK, DraftOK, Draft, Tab, Versions
<1>5. PICK b : b = [x EXCEPT !.doc = d, !.version = v, !.dirty = TRUE, !.recovery = e,
                             !.failed = FALSE, !.timer = m, !.renumbered = FALSE]
  OBVIOUS
<1>6. /\ b \in Tab /\ b.version = v /\ b.seen = x.seen /\ b.cloudFor = x.cloudFor
      /\ b.cloud = x.cloud /\ b.recovery = e /\ b.current = x.current
  BY <1>4, <1>5 DEF Tab, Versions
<1>7. TabOK(b, Version)
  BY <1>1, <1>2, <1>3, <1>4, <1>6, NoDraftOK DEF TabOK
<1>8. tab' = b
  BY <1>2, <1>3, <1>5 DEF RestoreRecoveryDraft
<1> QED BY <1>2, <1>6, <1>7, <1>8, TabStep DEF RestoreRecoveryDraft

LEMMA DiscardDraftStep == ASSUME EditorConstants, IInv, DiscardRecoveryDraft PROVE IInv'
<1>1. Version \in Nat /\ TabOK(tab, Version)
  BY VersionType DEF IInv
<1>2. PICK x \in Tab, e \in Draft : x = tab /\ e = NoDraft
  BY <1>1, NoDraftOK DEF TabOK, DraftOK
<1>3. PICK b : b = [x EXCEPT !.recovery = e, !.discarded = x.dirty]
  OBVIOUS
<1>4. /\ b \in Tab /\ b.version = x.version /\ b.seen = x.seen /\ b.cloudFor = x.cloudFor
      /\ b.cloud = x.cloud /\ b.recovery = e /\ b.current = x.current
  BY <1>3 DEF Tab
<1>5. TabOK(b, Version)
  BY <1>1, <1>2, <1>4, SameVersions
<1>6. tab' = b
  BY <1>2, <1>3 DEF DiscardRecoveryDraft
<1> QED BY <1>2, <1>4, <1>5, <1>6, TabStep DEF DiscardRecoveryDraft

-----------------------------------------------------------------------------
(* Saves                                                                   *)

\* flushSave joins the save that is under way or starts one.
LEMMA FlushStep ==
    ASSUME EditorConstants, IInv, NEW t, TabOK(t, Version), t.current = tab.current, FlushSave(t)
    PROVE  /\ TabOK(tab', Version) /\ RequestsOK(requests', Version) /\ CurrentOK(tab', requests')
<1>1. Version \in Nat /\ RequestsOK(requests, Version) /\ CurrentOK(t, requests)
      /\ t.current \in Slots \cup {0}
  BY VersionType DEF IInv, CurrentOK, TabOK, Tab
<1>2. CASE tab' = t /\ UNCHANGED requests
  BY <1>1, <1>2
<1>3. CASE /\ t.current # 0 /\ requests[t.current].waiters < MaxWaiters /\ tab' = t
           /\ requests' = [requests EXCEPT ![t.current].waiters = @ + 1]
  <2>1. PICK s \in Slots, q \in Request : s = t.current /\ q = requests[s]
    BY <1>1, <1>3 DEF RequestsOK
  <2>2. PICK w : w = q.waiters + 1
    OBVIOUS
  <2>3. w \in 0..MaxWaiters
    BY <1>3, <2>1, <2>2 DEF Request, EditorConstants
  <2>4. PICK r : r = [q EXCEPT !.waiters = w]
    OBVIOUS
  <2>5. /\ r \in Request /\ r.stage = q.stage /\ r.version = q.version /\ r.seen = q.seen
        /\ r.doc = q.doc /\ r.kind = q.kind
    BY <2>3, <2>4 DEF Request
  <2>6. RequestOK(q, Version)
    BY <1>1, <2>1 DEF RequestsOK
  <2>7. RequestOK(r, Version)
    BY <2>5, <2>6 DEF RequestOK
  <2>8. requests' = [requests EXCEPT ![s] = r]
    BY <1>1, <1>3, <2>1, <2>2, <2>4 DEF RequestsOK
  <2>9. RequestsOK(requests', Version) /\ requests'[s] = r
    BY ONLY <1>1, <2>7, <2>8, s \in Slots, PutRequest
  <2> QED BY <1>1, <1>3, <2>1, <2>5, <2>9 DEF CurrentOK
<1>4. ASSUME NEW s \in Slots, Free(s), requests' = [requests EXCEPT ![s] = Sent("save", t)],
             tab' = [t EXCEPT !.current = s, !.failed = FALSE]
      PROVE  TabOK(tab', Version) /\ RequestsOK(requests', Version) /\ CurrentOK(tab', requests')
  <2>1. PICK x : x = [t EXCEPT !.current = s]
    OBVIOUS
  <2>2. TabOK(x, Version) /\ x.current = s
    <3>1. s \in Slots \cup {0}
      BY <1>4
    <3> QED BY ONLY <1>1, <2>1, <3>1, TabOK(t, Version), CurrentField
  <2>3. tab' = [x EXCEPT !.failed = FALSE]
    BY <1>4, <2>1
  <2>4. TabOK(tab', Version) /\ tab'.current = s
    BY ONLY <1>1, <2>2, <2>3, FALSE \in BOOLEAN, FlagField
  <2>5. RequestOK(Sent("save", t), Version) /\ Sent("save", t).stage = "sent" /\ Sent("save", t).kind = "save"
    BY <1>1, SentOK
  <2>6. RequestsOK(requests', Version) /\ requests'[s] = Sent("save", t)
    BY ONLY <1>1, <1>4, <2>5, s \in Slots, PutRequest
  <2> QED BY <2>4, <2>5, <2>6 DEF CurrentOK
<1> QED BY <1>2, <1>3, <1>4 DEF FlushSave, Answer

LEMMA WriteDraftStep == ASSUME EditorConstants, IInv, WriteDraft PROVE IInv'
<1>1. Version \in Nat /\ TabOK(tab, Version)
  BY VersionType DEF IInv
<1>2. PICK x \in Tab, m \in BOOLEAN : x = tab /\ m = Unsaved
  BY <1>1 DEF TabOK, Unsaved, Tab
<1>3. PICK b, e : /\ b = [x EXCEPT !.timer = FALSE, !.drafting = TRUE, !.discarded = FALSE]
                  /\ e = [x EXCEPT !.timer = FALSE]
  OBVIOUS
<1>4. /\ b \in Tab /\ b.version = x.version /\ b.seen = x.seen /\ b.cloudFor = x.cloudFor
      /\ b.cloud = x.cloud /\ b.recovery = x.recovery /\ b.current = x.current
  BY ONLY <1>3, x \in Tab DEF Tab
<1>5. /\ e \in Tab /\ e.version = x.version /\ e.seen = x.seen /\ e.cloudFor = x.cloudFor
      /\ e.cloud = x.cloud /\ e.recovery = x.recovery /\ e.current = x.current
  BY ONLY <1>3, x \in Tab DEF Tab
<1>6. TabOK(tab', Version) /\ tab'.current = tab.current
  <2>1. TabOK(b, Version) /\ TabOK(e, Version)
    BY <1>1, <1>2, <1>4, <1>5, SameVersions
  <2>2. tab' \in {b, e}
    BY <1>2, <1>3 DEF WriteDraft
  <2> QED BY <1>2, <1>4, <1>5, <2>1, <2>2
<1>7. DraftOK(draft', Version)
  <2>1. PICK d, v : d = x.doc /\ v = x.version
    OBVIOUS
  <2>2. d \in Docs /\ v \in Nat /\ v <= Version
    BY <1>1, <1>2, <2>1 DEF TabOK, Tab, Versions
  <2>3. DraftOK([some |-> TRUE, doc |-> d, version |-> v, fresh |-> TRUE], Version)
    BY <2>2 DEF DraftOK, Draft, Versions
  <2> QED BY <1>2, <2>1, <2>3 DEF WriteDraft, IInv
<1>8. RequestsOK(requests', Version) /\ CurrentOK(tab', requests')
  BY <1>6 DEF WriteDraft, IInv, CurrentOK
<1> QED BY <1>6, <1>7, <1>8, SameLog DEF WriteDraft, IInv

LEMMA AutosaveStep == ASSUME EditorConstants, IInv, Autosave PROVE IInv'
<1>1. Version \in Nat /\ TabOK(tab, Version)
  BY VersionType DEF IInv
<1>2. PICK t : t = [tab EXCEPT !.drafting = FALSE]
  OBVIOUS
<1>3. TabOK(t, Version) /\ t.current = tab.current
  <2>1. FALSE \in BOOLEAN
    OBVIOUS
  <2> QED BY <1>1, <1>2, <2>1, FlagField
<1>4. FlushSave(t)
  BY <1>2 DEF Autosave
<1>5. DraftOK(draft', Version)
  BY <1>1, NoDraftOK DEF Autosave, IInv
<1>6. TabOK(tab', Version) /\ RequestsOK(requests', Version) /\ CurrentOK(tab', requests')
  BY <1>3, <1>4, FlushStep
<1> QED BY <1>5, <1>6, SameLog DEF Autosave, IInv

LEMMA ManualSaveStep == ASSUME EditorConstants, IInv, ManualSave PROVE IInv'
<1>1. TabOK(tab', Version) /\ RequestsOK(requests', Version) /\ CurrentOK(tab', requests')
  BY FlushStep DEF ManualSave, IInv
<1> QED BY <1>1, SameLog DEF ManualSave, IInv

LEMMA ChangeStep ==
    ASSUME EditorConstants, IInv, NEW kind \in {"summary", "restore", "proposal"}, NEW s \in Slots,
           ChangeOtherwise(kind, s)
    PROVE  IInv'
<1>1. Version \in Nat /\ RequestsOK(requests, Version) /\ TabOK(tab, Version) /\ CurrentOK(tab, requests)
      /\ tab.current \in Slots \cup {0}
  BY VersionType DEF IInv, TabOK, Tab
<1>2. RequestOK(Sent(kind, tab), Version)
  BY <1>1, SentOK
<1>3. requests' = [requests EXCEPT ![s] = Sent(kind, tab)]
  BY DEF ChangeOtherwise, Answer
<1>4. RequestsOK(requests', Version) /\ \A u \in Slots \ {s} : requests'[u] = requests[u]
  BY ONLY <1>1, <1>2, <1>3, s \in Slots, PutRequest
<1>5. tab.current # s
  BY <1>1, EditorConstants DEF ChangeOtherwise, Free, CurrentOK, EditorConstants
<1>6. CurrentOK(tab, requests')
  BY <1>1, <1>4, <1>5 DEF CurrentOK
<1> QED BY <1>4, <1>6, SameLog DEF ChangeOtherwise, IInv

\* A save is over, and callers that waited for it may start others.
LEMMA SettleStep ==
    ASSUME EditorConstants, IInv, NEW s \in Slots, NEW t, TabOK(t, Version), t.current = tab.current,
           NEW ok \in BOOLEAN, Settle(s, t, ok)
    PROVE  TabOK(tab', Version) /\ RequestsOK(requests', Version) /\ CurrentOK(tab', requests')
<1>1. Version \in Nat /\ RequestsOK(requests, Version) /\ CurrentOK(t, requests)
      /\ t.current \in Slots \cup {0} /\ 0 \notin Slots
  BY VersionType DEF IInv, CurrentOK, TabOK, Tab, EditorConstants
<1>2. PICK over, c : over = NotInFlight(t, s) /\ c = IF t.current = s THEN 0 ELSE t.current
  OBVIOUS
<1>3. over = [t EXCEPT !.current = c]
  BY <1>2 DEF NotInFlight
<1>4. TabOK(over, Version) /\ over.current = c
  <2>1. c \in Slots \cup {0}
    BY <1>1, <1>2
  <2> QED BY ONLY <1>1, <1>2, <1>3, <2>1, TabOK(t, Version), CurrentField
<1>5. PICK sent : sent = Sent("save", t)
  OBVIOUS
<1>6. RequestOK(sent, Version) /\ sent.stage = "sent" /\ sent.kind = "save"
  BY <1>1, <1>5, SentOK
<1>7. CASE Set(over) /\ requests' = [requests EXCEPT ![s] = NoRequest]
  <2>1. RequestOK(NoRequest, Version)
    BY <1>1, NoRequestOK
  <2>2. RequestsOK(requests', Version) /\ \A u \in Slots \ {s} : requests'[u] = requests[u]
    BY ONLY <1>1, <1>7, <2>1, s \in Slots, PutRequest
  <2>3. TabOK(tab', Version) /\ tab'.current = c
    BY <1>1, <1>4, <1>7, SetOK
  <2> QED BY <1>1, <1>2, <2>2, <2>3 DEF CurrentOK
<1>8. CASE Set([over EXCEPT !.current = s]) /\ requests' = [requests EXCEPT ![s] = sent]
  <2>1. RequestsOK(requests', Version) /\ requests'[s] = sent
    <3>1. requests' = [requests EXCEPT ![s] = sent]
      BY <1>8
    <3>2. Version \in Nat /\ RequestsOK(requests, Version) /\ RequestOK(sent, Version)
      BY <1>1, <1>6
    <3> QED BY ONLY <3>1, <3>2, s \in Slots, PutRequest
  <2>2. PICK b : b = [over EXCEPT !.current = s]
    OBVIOUS
  <2>3. TabOK(b, Version) /\ b.current = s
    BY ONLY <1>1, <1>4, <2>2, s \in Slots, CurrentField
  <2>4. TabOK(tab', Version) /\ tab'.current = s
    BY <1>1, <1>8, <2>2, <2>3, SetOK
  <2> QED BY <1>6, <2>1, <2>4 DEF CurrentOK
<1>9. ASSUME NEW u \in Slots \ {s}, Set([over EXCEPT !.current = u]),
             requests' = [requests EXCEPT ![s] = sent, ![u] = sent]
      PROVE  TabOK(tab', Version) /\ RequestsOK(requests', Version) /\ CurrentOK(tab', requests')
  <2>1. RequestsOK(requests', Version) /\ requests'[u] = sent
    <3>1. sent \in Request
      BY <1>6 DEF RequestOK
    <3>2. requests' \in [Slots -> Request] /\ requests'[u] = sent /\ requests'[s] = sent
      BY <1>1, <1>9, <3>1 DEF RequestsOK
    <3>3. \A w \in Slots \ {s, u} : requests'[w] = requests[w]
      BY <1>1, <1>9 DEF RequestsOK
    <3> QED BY <1>1, <1>6, <3>2, <3>3 DEF RequestsOK
  <2>2. PICK b : b = [over EXCEPT !.current = u]
    OBVIOUS
  <2>3. TabOK(b, Version) /\ b.current = u
    BY ONLY <1>1, <1>4, <2>2, u \in Slots \ {s}, CurrentField
  <2>4. TabOK(tab', Version) /\ tab'.current = u
    BY <1>1, <1>9, <2>2, <2>3, SetOK
  <2> QED BY <1>6, <2>1, <2>4 DEF CurrentOK
<1> QED BY <1>2, <1>5, <1>7, <1>8, <1>9 DEF Settle

LEMMA SaveEndsStep == ASSUME EditorConstants, IInv, NEW s \in Slots, SaveEnds(s) PROVE IInv'
<1> DEFINE r == requests[s]
           saved == MarkSaved(r.version, r.doc)
<1>1. Version \in Nat /\ TabOK(tab, Version) /\ RequestsOK(requests, Version) /\ RequestOK(r, Version)
      /\ CurrentOK(tab, requests) /\ r \in Request /\ r.version \in Nat
      /\ tab.current \in Slots \cup {0}
  BY VersionType DEF IInv, RequestsOK, RequestOK, Request, Versions, TabOK, Tab
<1>2. draft' \in {draft, NoDraft}
  BY DEF SaveEnds
<1>3. DraftOK(draft', Version)
  BY <1>1, <1>2, NoDraftOK DEF IInv
<1>4. ASSUME NEW t, TabOK(t, Version), t.current = tab.current, NEW ok \in BOOLEAN, Settle(s, t, ok)
      PROVE  TabOK(tab', Version) /\ RequestsOK(requests', Version) /\ CurrentOK(tab', requests')
  BY <1>4, SettleStep
<1>5. r.stage = "accepted" => TabOK(saved, Version) /\ saved.current = tab.current
  BY <1>1, MarkSavedOK DEF RequestOK
<1>6. CASE /\ r.stage = "accepted" /\ Set(saved)
           /\ requests' = [requests EXCEPT ![s] = Answered(r, "cleaning", 0, NoDoc)]
  <2>1. PICK a : a = Answered(r, "cleaning", 0, NoDoc)
    OBVIOUS
  <2>2. RequestOK(a, Version) /\ a.kind = r.kind /\ a.stage = "cleaning"
    BY <1>1, <2>1, AnsweredOK
  <2>3. requests' = [requests EXCEPT ![s] = a]
    BY <1>6, <2>1
  <2>4. /\ RequestsOK(requests', Version) /\ requests'[s] = a
        /\ \A u \in Slots \ {s} : requests'[u] = requests[u]
    BY ONLY <1>1, <2>2, <2>3, s \in Slots, PutRequest
  <2>5. TabOK(tab', Version) /\ tab'.current = tab.current
    BY <1>1, <1>5, <1>6, SetOK
  <2>6. CurrentOK(tab', requests')
    BY <1>1, <2>2, <2>4, <2>5 DEF CurrentOK
  <2> QED BY <1>3, <2>4, <2>5, <2>6, SameLog DEF SaveEnds, IInv
<1>7. CASE r.stage = "accepted" /\ Settle(s, saved, TRUE)
  BY <1>3, <1>4, <1>5, <1>7, SameLog DEF SaveEnds, IInv
<1>8. CASE r.stage = "cleaning" /\ Settle(s, tab, TRUE)
  BY <1>1, <1>3, <1>4, <1>8, SameLog DEF SaveEnds, IInv
<1>9. CASE r.stage = "conflict" /\ Settle(s, SetSaveConflict(r.version), FALSE)
  <2>1. TabOK(SetSaveConflict(r.version), Version) /\ SetSaveConflict(r.version).current = tab.current
    BY <1>1, SetSaveConflictOK
  <2> QED BY <1>3, <1>4, <1>9, <2>1, SameLog DEF SaveEnds, IInv
<1>10. CASE r.stage = "trashed" /\ Settle(s, SetResumeTrashed, FALSE)
  <2>1. TabOK(SetResumeTrashed, Version) /\ SetResumeTrashed.current = tab.current
    BY <1>1, SetResumeTrashedOK
  <2> QED BY <1>3, <1>4, <1>10, <2>1, SameLog DEF SaveEnds, IInv
<1>11. CASE r.stage = "failed" /\ Settle(s, [tab EXCEPT !.failed = TRUE], FALSE)
  <2>1. TabOK([tab EXCEPT !.failed = TRUE], Version) /\ [tab EXCEPT !.failed = TRUE].current = tab.current
    <3>1. TRUE \in BOOLEAN
      OBVIOUS
    <3> QED BY <1>1, <3>1, FlagField
  <2> QED BY <1>3, <1>4, <1>11, <2>1, SameLog DEF SaveEnds, IInv
<1> QED BY <1>6, <1>7, <1>8, <1>9, <1>10, <1>11 DEF SaveEnds, Answer

LEMMA ChangeEndsStep == ASSUME EditorConstants, IInv, NEW s \in Slots, ChangeEnds(s) PROVE IInv'
<1> DEFINE r == requests[s]
<1>1. Version \in Nat /\ TabOK(tab, Version) /\ RequestsOK(requests, Version) /\ RequestOK(r, Version)
      /\ CurrentOK(tab, requests) /\ r \in Request /\ r.version \in Nat
      /\ tab.current \in Slots \cup {0} /\ 0 \notin Slots
  BY VersionType DEF IInv, RequestsOK, RequestOK, Request, Versions, TabOK, Tab, EditorConstants
<1>2. DraftOK(draft', Version)
  BY <1>1, NoDraftOK DEF IInv, ChangeEnds
<1>3. RequestsOK(requests', Version) /\ \A u \in Slots \ {s} : requests'[u] = requests[u]
  <2>1. RequestOK(NoRequest, Version)
    BY <1>1, NoRequestOK
  <2>2. requests' = [requests EXCEPT ![s] = NoRequest]
    BY DEF ChangeEnds, Answer
  <2> QED BY ONLY <1>1, <2>1, <2>2, s \in Slots, PutRequest
<1>4. tab.current # s
  BY <1>1 DEF ChangeEnds, CurrentOK
<1>5. ASSUME NEW t, TabOK(t, Version), t.current = tab.current, tab' = t \/ Set(t)
      PROVE  IInv'
  <2>1. TabOK(tab', Version) /\ tab'.current = tab.current
    BY <1>1, <1>5, SetOK
  <2>2. CurrentOK(tab', requests')
    BY <1>1, <1>3, <1>4, <2>1 DEF CurrentOK
  <2> QED BY <1>2, <1>3, <2>1, <2>2, SameLog DEF ChangeEnds, IInv
<1>6. CASE r.stage = "accepted" /\ r.kind = "summary" /\ Set(SetVersion(r.version))
  <2>1. r.version \in 0..Version
    BY <1>1, <1>6 DEF RequestOK
  <2>2. TabOK(SetVersion(r.version), Version) /\ SetVersion(r.version).current = tab.current
    BY <1>1, <2>1, SetVersionOK
  <2> QED BY <1>5, <1>6, <2>2
<1>7. CASE r.stage = "accepted" /\ Set(RestoreServerVersion(r.version, r.doc))
  <2>1. r.version \in 1..Version /\ r.doc \in Docs
    BY <1>1, <1>7 DEF RequestOK
  <2>2. /\ TabOK(RestoreServerVersion(r.version, r.doc), Version)
        /\ RestoreServerVersion(r.version, r.doc).current = tab.current
    BY <1>1, <2>1, RestoreServerVersionOK
  <2> QED BY <1>5, <1>7, <2>2
<1>8. CASE /\ r.stage = "accepted"
           /\ Set([Shown(tab, r.version) EXCEPT
                    !.doc = r.doc, !.dirty = FALSE, !.conflict = 0, !.failed = FALSE,
                    !.renumbered = FALSE, !.discarded = FALSE])
  <2>1. r.version \in 0..Version /\ r.doc \in Docs
    BY <1>1, <1>8 DEF RequestOK
  <2>2. PICK t, d : t = Shown(tab, r.version) /\ d = r.doc
    OBVIOUS
  <2>3. TabOK(t, Version) /\ t.current = tab.current
    BY <1>1, <2>1, <2>2, ShownOK
  <2>4. PICK x \in Tab : x = t
    BY <2>3 DEF TabOK
  <2>5. PICK b : b = [x EXCEPT !.doc = d, !.dirty = FALSE, !.conflict = 0, !.failed = FALSE,
                             !.renumbered = FALSE, !.discarded = FALSE]
    OBVIOUS
  <2>6. d \in Docs
    BY <2>1, <2>2
  <2>7. /\ b \in Tab /\ b.version = x.version /\ b.seen = x.seen /\ b.cloudFor = x.cloudFor
        /\ b.cloud = x.cloud /\ b.recovery = x.recovery /\ b.current = x.current
    BY ONLY <2>5, <2>6, x \in Tab DEF Tab, Versions
  <2>8. TabOK(b, Version) /\ b.current = tab.current
    BY <1>1, <2>3, <2>4, <2>7, SameVersions
  <2>9. Set(b)
    BY <1>8, <2>2, <2>4, <2>5
  <2> QED BY <1>5, <2>8, <2>9
<1>9. CASE Set(SetSaveConflict(r.version))
  <2>1. TabOK(SetSaveConflict(r.version), Version) /\ SetSaveConflict(r.version).current = tab.current
    BY <1>1, SetSaveConflictOK
  <2> QED BY <1>5, <1>9, <2>1
<1>10. CASE Set(SetResumeTrashed)
  <2>1. TabOK(SetResumeTrashed, Version) /\ SetResumeTrashed.current = tab.current
    BY <1>1, SetResumeTrashedOK
  <2> QED BY <1>5, <1>10, <2>1
<1>11. CASE UNCHANGED tab
  BY <1>1, <1>5, <1>11
<1> QED BY <1>6, <1>7, <1>8, <1>9, <1>10, <1>11 DEF ChangeEnds

-----------------------------------------------------------------------------
(* The tab goes and comes back                                             *)

LEMMA CloseStep == ASSUME EditorConstants, IInv, Close PROVE IInv'
<1>1. Version \in Nat /\ RequestsOK(requests, Version) /\ TabOK(Opened, Version) /\ Opened.current = 0
  BY VersionType, OpenedOK DEF IInv
<1>2. TabOK(tab', Version) /\ tab'.current = 0
  <2>1. PICK x \in Tab, e \in Draft : x = Opened /\ e = NoDraft
    BY <1>1, NoDraftOK DEF TabOK, DraftOK
  <2>2. PICK b : b = [x EXCEPT !.open = FALSE, !.recovery = e]
    OBVIOUS
  <2>3. /\ b \in Tab /\ b.version = x.version /\ b.seen = x.seen /\ b.cloudFor = x.cloudFor
        /\ b.cloud = x.cloud /\ b.recovery = e /\ b.current = x.current
    BY ONLY <2>2, x \in Tab, e \in Draft DEF Tab
  <2>4. TabOK(b, Version)
    BY <1>1, <2>1, <2>3, SameVersions
  <2>5. tab' = b
    BY <2>1, <2>2 DEF Close
  <2> QED BY <1>1, <2>1, <2>3, <2>4, <2>5
<1>3. RequestsOK(requests', Version)
  <2>1. ASSUME NEW s \in Slots PROVE RequestOK(requests'[s], Version)
    <3>1. PICK q \in Request : q = requests[s] /\ RequestOK(q, Version)
      BY <1>1 DEF RequestsOK
    <3>2. CASE q.stage = "sent"
      <4>1. PICK r : r = [q EXCEPT !.stage = "orphan", !.waiters = 0]
        OBVIOUS
      <4>2. /\ r \in Request /\ r.stage = "orphan" /\ r.version = q.version /\ r.seen = q.seen
            /\ r.doc = q.doc
        <5>1. 0 \in 0..MaxWaiters
          BY EditorConstants DEF EditorConstants
        <5> QED BY ONLY <4>1, <5>1, q \in Request DEF Request
      <4>3. requests'[s] = r
        BY <3>1, <3>2, <4>1 DEF Close
      <4> QED BY <3>1, <3>2, <4>2, <4>3 DEF RequestOK
    <3>3. CASE q.stage # "sent"
      BY <1>1, <3>1, <3>3, NoRequestOK DEF Close
    <3> QED BY <3>2, <3>3
  <2>2. DOMAIN requests' = Slots
    BY DEF Close
  <2>3. requests' = [s \in Slots |-> requests'[s]]
    BY DEF Close
  <2>4. requests' \in [Slots -> Request]
    BY <2>1, <2>3 DEF RequestOK
  <2> QED BY <2>1, <2>4 DEF RequestsOK
<1> QED BY <1>2, <1>3, SameLog DEF Close, IInv, CurrentOK

LEMMA OpenStep == ASSUME EditorConstants, IInv, Open PROVE IInv'
<1>1. TabOK(tab', Version) /\ tab'.current = 0
  BY OpenedOK DEF Open, IInv
<1> QED BY <1>1, SameLog DEF Open, IInv, CurrentOK

LEMMA InitInvariant == ASSUME EditorConstants, Init PROVE IInv /\ Version = 1
<1>1. log \in Seq(Docs) /\ log # <<>> /\ Version = 1
  BY DEF Init, Version
<1>2. DraftOK(draft, Version)
  BY <1>1, NoDraftOK DEF Init
<1>3. TabOK(tab, Version) /\ tab.current = 0
  BY <1>1, <1>2, OpenedOK DEF Init
<1>4. RequestsOK(requests, Version)
  <2>1. RequestOK(NoRequest, Version)
    BY <1>1, NoRequestOK
  <2> QED BY <2>1 DEF Init, RequestsOK, RequestOK
<1> QED BY <1>1, <1>2, <1>3, <1>4 DEF Init, IInv, CurrentOK

LEMMA StutterStep == ASSUME EditorConstants, IInv, UNCHANGED vars PROVE IInv'
BY SameLog DEF vars, IInv

\* Every step keeps the invariant and writes the register or leaves it alone.
LEMMA Step ==
    ASSUME EditorConstants, IInv, [Next]_vars
    PROVE  /\ IInv'
           /\ UNCHANGED <<Version, base>> \/ (Version' = Version + 1 /\ base' = Version)
<1>1. CASE \E s \in Slots : Handle(s)
  BY <1>1, HandleStep DEF Version
<1>2. CASE (\E d \in Docs : SaveElsewhere(d)) \/ MoveElsewhere
  BY <1>2, ElsewhereStep
<1>3. CASE /\ IInv' /\ UNCHANGED <<log, base>>
  BY <1>3 DEF Version
<1>4. CASE \/ \E d \in Docs : Edit(d)
           \/ LoadCurrentResume \/ UseCloudVersion \/ KeepLocalAfterConflict
           \/ RestoreRecoveryDraft \/ DiscardRecoveryDraft
  <2>1. IInv'
    BY <1>4, EditStep, LoadStep, UseCloudStep, KeepLocalStep, RestoreDraftStep, DiscardDraftStep
  <2>2. UNCHANGED <<log, base>>
    BY <1>4 DEF Edit, LoadCurrentResume, UseCloudVersion, KeepLocalAfterConflict,
       RestoreRecoveryDraft, DiscardRecoveryDraft
  <2> QED BY <1>3, <2>1, <2>2
<1>5. CASE WriteDraft \/ Autosave \/ ManualSave \/ PublishElsewhere \/ Close \/ Open \/ UNCHANGED vars
  <2>1. IInv'
    BY <1>5, WriteDraftStep, AutosaveStep, ManualSaveStep, PublishStep, CloseStep, OpenStep, StutterStep
  <2>2. UNCHANGED <<log, base>>
    BY <1>5 DEF WriteDraft, Autosave, ManualSave, PublishElsewhere, Close, Open, vars
  <2> QED BY <1>3, <2>1, <2>2
<1>6. CASE \E s \in Slots :
             \/ Fail(s) \/ SaveEnds(s) \/ ChangeEnds(s)
             \/ \E kind \in {"summary", "restore", "proposal"} : ChangeOtherwise(kind, s)
  <2>1. IInv'
    BY <1>6, FailStep, SaveEndsStep, ChangeEndsStep, ChangeStep
  <2>2. UNCHANGED <<log, base>>
    BY <1>6 DEF Fail, SaveEnds, ChangeEnds, ChangeOtherwise
  <2> QED BY <1>3, <2>1, <2>2
<1> QED BY <1>1, <1>2, <1>4, <1>5, <1>6 DEF Next

-----------------------------------------------------------------------------
(* Theorems                                                                *)

\* The inductive invariant.
THEOREM Invariant == Spec => []IInv
<1> USE EditorConstants
<1>1. Init => IInv
  BY InitInvariant
<1>2. IInv /\ [Next]_vars => IInv'
  BY Step
<1> QED BY <1>1, <1>2, PTL DEF Spec

\* The log, drafts, the tab and its requests keep their types; the tab knows no version
\* that does not exist, and the save under way is one of its requests.
THEOREM EditorTypeCorrect == Spec => []TypeOK
<1>1. IInv => TypeOK
  BY VersionType DEF IInv, TypeOK, TabOK, DraftOK, RequestsOK, CurrentOK, Tab, Versions
<1> QED BY <1>1, Invariant, PTL

\* No version is replaced by someone who has not seen it, for any documents, number of
\* requests and circumstances: the system implements the versioned register.
THEOREM EditorImplementsRegister == Spec => WritesAreLinear
<1> USE EditorConstants
<1>1. Init => Register!Init
  <2> SUFFICES ASSUME Init PROVE Register!Init
    OBVIOUS
  <2>1. Version = 1 /\ base = 0
    BY InitInvariant DEF Init
  <2> QED BY <2>1 DEF Register!Init
<1>2. IInv /\ [Next]_vars => [Register!Write]_Register!registerVars
  <2> SUFFICES ASSUME IInv, [Next]_vars PROVE [Register!Write]_Register!registerVars
    OBVIOUS
  <2>1. UNCHANGED <<Version, base>> \/ (Version' = Version + 1 /\ base' = Version)
    BY Step
  <2>2. Version \in Nat
    BY VersionType DEF IInv
  <2> QED BY <2>1, <2>2 DEF Register!Write, Register!registerVars
<1> QED BY <1>1, <1>2, Invariant, PTL DEF Spec, WritesAreLinear, Register!Spec

-----------------------------------------------------------------------------
(* What the editor calls saved, and what its draft holds                   *)

\* The document on the screen is a version of the resume: the one the editor knows or a
\* later one, but for a document that the answer to a summary change has renumbered.
SavedIn(t, l) == \E v \in 1..Len(l) : (t.renumbered \/ t.version <= v) /\ l[v] = t.doc

CleanOK(t, l) == t.open /\ ~t.dirty => SavedIn(t, l)

KeptOK(t, d, l) ==
    t.open /\ t.dirty /\ ~t.blocked /\ ~t.timer =>
        (d.some /\ d.doc = t.doc) \/ SavedIn(t, l) \/ t.discarded

\* An answer carries the document of its version; a summary change kept the document.
AnswerOK(r, l) ==
    r.stage = "accepted" =>
        IF r.kind = "summary"
        THEN r.version - 1 \in 1..Len(l) /\ l[r.version] = l[r.version - 1]
        ELSE l[r.version] = r.doc

AnswersOK(rs, l) == \A s \in Slots : AnswerOK(rs[s], l)

EditorInv ==
    /\ IInv /\ AnswersOK(requests, log)
    /\ CleanOK(tab, log) /\ KeptOK(tab, draft, log)

-----------------------------------------------------------------------------
(* The log                                                                 *)

\* The log gets longer, if it changes at all.
Grows(l, m) == m = l \/ \E d \in Docs : m = Append(l, d)

LEMMA GrownLog ==
    ASSUME NEW l \in Seq(Docs), NEW m, Grows(l, m)
    PROVE  m \in Seq(Docs) /\ Len(l) <= Len(m) /\ \A v \in 1..Len(l) : m[v] = l[v]
BY DEF Grows

LEMMA SavedLater ==
    ASSUME NEW l \in Seq(Docs), NEW m, Grows(l, m), NEW t, SavedIn(t, l)
    PROVE  SavedIn(t, m)
<1>1. Len(l) \in Nat /\ Len(m) \in Nat /\ Len(l) <= Len(m) /\ \A v \in 1..Len(l) : m[v] = l[v]
  BY GrownLog
<1> QED BY <1>1 DEF SavedIn

LEMMA AnswerLater ==
    ASSUME NEW l \in Seq(Docs), NEW m, Grows(l, m), NEW r, RequestOK(r, Len(l)), AnswerOK(r, l)
    PROVE  AnswerOK(r, m)
<1>1. Len(l) \in Nat /\ Len(m) \in Nat /\ Len(l) <= Len(m) /\ \A v \in 1..Len(l) : m[v] = l[v]
  BY GrownLog
<1>2. r.stage = "accepted" => r.version \in 1..Len(l)
  BY DEF RequestOK
<1> QED BY <1>1, <1>2 DEF AnswerOK

-----------------------------------------------------------------------------
(* The tab                                                                 *)

\* All that the properties tell apart in a tab.
SameDocument(t, u) ==
    /\ t.open = u.open /\ t.doc = u.doc /\ t.version = u.version /\ t.dirty = u.dirty
    /\ t.blocked = u.blocked /\ t.timer = u.timer
    /\ t.renumbered = u.renumbered /\ t.discarded = u.discarded

\* What was said of the tab's document holds of t, which shows the same and is not saved.
Carries(t) ==
    t.dirty /\ t.doc = tab.doc =>
        (tab.renumbered => t.renumbered) /\ (tab.discarded => t.discarded)

LEMMA SetFields ==
    ASSUME NEW t \in Tab, Set(t)
    PROVE  /\ tab'.open = t.open /\ tab'.doc = t.doc /\ tab'.version = t.version
           /\ tab'.dirty = t.dirty /\ tab'.blocked = t.blocked
           /\ tab'.renumbered = t.renumbered /\ tab'.discarded = t.discarded
           /\ Rearms(t) => tab'.timer
           /\ ~Rearms(t) => tab' = t
BY DEF Set, Tab

\* A tab that is set keeps its draft, or has its debounce started.
LEMMA SetKept ==
    ASSUME NEW l, tab \in Tab, NEW t \in Tab, Set(t), 
           CleanOK(tab, l), KeptOK(tab, draft, l),
           t.open => tab.open, tab.timer => t.timer, tab.blocked => t.blocked,
           t.dirty => draft' = draft, Carries(t)
    PROVE  KeptOK(tab', draft', l)
<1>1. SUFFICES ASSUME t.open, t.dirty, ~t.blocked, ~tab'.timer
               PROVE  (draft'.some /\ draft'.doc = t.doc) \/ SavedIn(t, l) \/ t.discarded
  <2>1. tab'.open = t.open /\ tab'.doc = t.doc /\ tab'.version = t.version
        /\ tab'.dirty = t.dirty /\ tab'.blocked = t.blocked
        /\ tab'.renumbered = t.renumbered /\ tab'.discarded = t.discarded
    BY SetFields
  <2> QED BY <2>1 DEF KeptOK, SavedIn
<1>2. ~Rearms(t) /\ tab' = t
  BY <1>1, SetFields
<1>3. t.doc = tab.doc /\ t.version = tab.version /\ ~tab.timer /\ tab.open /\ ~tab.blocked
  BY <1>1, <1>2 DEF Rearms
<1>4. /\ SavedIn(tab, l) => SavedIn(t, l)
      /\ tab.discarded => t.discarded
  BY <1>1, <1>3 DEF SavedIn, Carries
<1>5. draft' = draft
  BY <1>1
<1> QED BY <1>3, <1>4, <1>5 DEF CleanOK, KeptOK

LEMMA SetClean ==
    ASSUME NEW l, NEW t \in Tab, Set(t), CleanOK(t, l)
    PROVE  CleanOK(tab', l)
<1>1. /\ tab'.open = t.open /\ tab'.doc = t.doc /\ tab'.version = t.version
      /\ tab'.dirty = t.dirty /\ tab'.renumbered = t.renumbered
  BY SetFields
<1> QED BY <1>1 DEF CleanOK, SavedIn

\* A tab with the same document and flags.
LEMMA SameOK ==
    ASSUME NEW t, NEW u, SameDocument(t, u), NEW d, NEW l
    PROVE  /\ CleanOK(t, l) => CleanOK(u, l)
           /\ KeptOK(t, d, l) => KeptOK(u, d, l)
BY DEF SameDocument, CleanOK, KeptOK, SavedIn

LEMMA ShownFields ==
    ASSUME NEW t \in Tab, NEW v \in Nat
    PROVE  /\ Shown(t, v).open = t.open /\ Shown(t, v).doc = t.doc /\ Shown(t, v).version = v
           /\ Shown(t, v).dirty = t.dirty /\ Shown(t, v).blocked = t.blocked
           /\ Shown(t, v).timer = t.timer /\ Shown(t, v).renumbered = t.renumbered
           /\ Shown(t, v).discarded = t.discarded
BY DEF Shown, Tab

LEMMA SetVersionFields ==
    ASSUME tab \in Tab, NEW v \in Nat
    PROVE  /\ SetVersion(v).open = tab.open /\ SetVersion(v).doc = tab.doc
           /\ SetVersion(v).version = v /\ SetVersion(v).dirty = tab.dirty
           /\ SetVersion(v).blocked = tab.blocked /\ SetVersion(v).timer = tab.timer
           /\ SetVersion(v).renumbered = (tab.renumbered \/ tab.version < v - 1)
           /\ SetVersion(v).discarded = tab.discarded
BY DEF SetVersion, Shown, Tab

LEMMA MarkSavedFields ==
    ASSUME tab \in Tab, NEW v \in Nat, NEW d
    PROVE  /\ MarkSaved(v, d).open = tab.open /\ MarkSaved(v, d).doc = tab.doc
           /\ MarkSaved(v, d).version = v /\ MarkSaved(v, d).dirty = (tab.doc # d)
           /\ MarkSaved(v, d).blocked = tab.blocked /\ MarkSaved(v, d).timer = tab.timer
           /\ MarkSaved(v, d).renumbered = (tab.doc # d /\ tab.renumbered)
           /\ MarkSaved(v, d).discarded = (tab.doc # d /\ tab.discarded)
BY DEF MarkSaved, Shown, HasNewerEdits, Tab

LEMMA RestoreFields ==
    ASSUME tab \in Tab, NEW v \in Nat, NEW d
    PROVE  /\ RestoreServerVersion(v, d).open = tab.open /\ RestoreServerVersion(v, d).doc = d
           /\ RestoreServerVersion(v, d).version = v /\ ~RestoreServerVersion(v, d).dirty
           /\ RestoreServerVersion(v, d).blocked = tab.blocked
           /\ RestoreServerVersion(v, d).timer = tab.timer
BY DEF RestoreServerVersion, Shown, Tab

LEMMA ConflictFields ==
    ASSUME tab \in Tab, NEW v
    PROVE  SameDocument(tab, SetSaveConflict(v))
BY DEF SetSaveConflict, SameDocument, Tab

LEMMA TrashedFields ==
    ASSUME tab \in Tab
    PROVE  /\ SetResumeTrashed.open = tab.open /\ SetResumeTrashed.doc = tab.doc
           /\ SetResumeTrashed.version = tab.version /\ SetResumeTrashed.dirty = tab.dirty
           /\ SetResumeTrashed.blocked /\ SetResumeTrashed.timer = tab.timer
           /\ SetResumeTrashed.renumbered = tab.renumbered
           /\ SetResumeTrashed.discarded = tab.discarded
BY DEF SetResumeTrashed, Tab

-----------------------------------------------------------------------------
(* Steps of the server                                                     *)

LEMMA AnsweredFields ==
    ASSUME NEW r \in Request, NEW stage, NEW v, NEW d
    PROVE  /\ Answered(r, stage, v, d).kind = r.kind /\ Answered(r, stage, v, d).stage = stage
           /\ Answered(r, stage, v, d).version = v /\ Answered(r, stage, v, d).doc = d
BY DEF Answered, Request

LEMMA NotAccepted == ASSUME NEW r, NEW l, r.stage # "accepted" PROVE AnswerOK(r, l)
BY DEF AnswerOK

LEMMA AgedFields ==
    ASSUME NEW n, DraftOK(draft, n)
    PROVE  Aged.some = draft.some /\ Aged.doc = draft.doc
BY DEF Aged, DraftOK, Draft

\* What is left to show of a step that the tab takes no part in.
LEMMA ServerStep ==
    ASSUME EditorInv, UNCHANGED tab, Grows(log, log'), draft' \in {draft, Aged},
           \A s \in Slots : AnswerOK(requests'[s], log') \/ requests'[s] = requests[s]
    PROVE  AnswersOK(requests', log') /\ CleanOK(tab', log') /\ KeptOK(tab', draft', log')
<1>1. log \in Seq(Docs) /\ DraftOK(draft, Version) /\ Version = Len(log)
  BY DEF EditorInv, IInv, Version
<1>2. AnswersOK(requests', log')
  <2> SUFFICES ASSUME NEW s \in Slots, requests'[s] = requests[s] PROVE AnswerOK(requests[s], log')
    BY DEF AnswersOK
  <2>1. RequestOK(requests[s], Len(log)) /\ AnswerOK(requests[s], log)
    BY <1>1 DEF EditorInv, IInv, RequestsOK, AnswersOK
  <2> QED BY <1>1, <2>1, AnswerLater
<1>3. SavedIn(tab, log) => SavedIn(tab, log')
  BY <1>1, SavedLater
<1>4. CleanOK(tab', log')
  BY <1>3 DEF EditorInv, CleanOK
<1>5. KeptOK(tab', draft', log')
  BY <1>1, <1>3, AgedFields DEF EditorInv, KeptOK
<1> QED BY <1>2, <1>4, <1>5

LEMMA HandleClean ==
    ASSUME EditorConstants, EditorInv, NEW s \in Slots, Handle(s)
    PROVE  AnswersOK(requests', log') /\ CleanOK(tab', log') /\ KeptOK(tab', draft', log')
<1>1. /\ log \in Seq(Docs) /\ Version = Len(log) /\ Version \in Nat /\ Version >= 1
      /\ Document = log[Version] /\ Document \in Docs
      /\ requests[s] \in Request /\ DOMAIN requests = Slots
  BY VersionType DEF EditorInv, IInv, Version, Document, RequestsOK
<1>2. UNCHANGED tab
  BY DEF Handle
<1>3. Grows(log, log') /\ draft' \in {draft, Aged}
  BY DEF Handle, Store, Grows
<1>4. \A u \in Slots \ {s} : requests'[u] = requests[u]
  BY <1>1 DEF Handle, Answer
<1>5. AnswerOK(requests'[s], log')
  <2> DEFINE r == requests[s]
  <2>1. ASSUME NEW stage \in {"trashed", "conflict"}, NEW v,
               requests' = [requests EXCEPT ![s] =
                 IF r.stage = "orphan" THEN NoRequest ELSE Answered(r, stage, v, NoDoc)]
        PROVE  AnswerOK(requests'[s], log')
    <3>1. requests'[s] \in {NoRequest, Answered(r, stage, v, NoDoc)}
      BY <1>1, <2>1
    <3>2. NoRequest.stage = "none" /\ Answered(r, stage, v, NoDoc).stage = stage
      BY <1>1, AnsweredFields DEF NoRequest
    <3> QED BY <3>1, <3>2, NotAccepted
  <2>2. ASSUME NEW v, NEW d,
               requests' = [requests EXCEPT ![s] =
                 IF r.stage = "orphan" THEN NoRequest ELSE Answered(r, "accepted", v, d)],
               r.kind = "summary" => v - 1 \in 1..Len(log') /\ log'[v] = log'[v - 1],
               log'[v] = d
        PROVE  AnswerOK(requests'[s], log')
    <3>1. requests'[s] \in {NoRequest, Answered(r, "accepted", v, d)}
      BY <1>1, <2>2
    <3>2. PICK a : a = Answered(r, "accepted", v, d)
      OBVIOUS
    <3>3. a.kind = r.kind /\ a.version = v /\ a.doc = d
      BY <1>1, <3>2, AnsweredFields
    <3>4. AnswerOK(a, log')
      BY <2>2, <3>3 DEF AnswerOK
    <3>5. AnswerOK(NoRequest, log')
      BY NotAccepted DEF NoRequest
    <3> QED BY <3>1, <3>2, <3>4, <3>5
  <2>3. ASSUME NEW d \in Docs, r.kind = "summary" => d = Document, log' = Append(log, d)
        PROVE  /\ log'[Version + 1] = d
               /\ r.kind = "summary" =>
                    Version + 1 - 1 \in 1..Len(log') /\ log'[Version + 1] = log'[Version + 1 - 1]
    <3>1. Len(log') = Version + 1 /\ log'[Version + 1] = d /\ log'[Version] = log[Version]
      BY <1>1, <2>3
    <3>2. Version + 1 - 1 = Version /\ Version \in 1..Len(log')
      BY <1>1, <3>1
    <3> QED BY <1>1, <2>3, <3>1, <3>2
  <2>4. CASE /\ r.kind = "proposal" /\ log' = log
             /\ requests' = [requests EXCEPT ![s] =
                 IF r.stage = "orphan" THEN NoRequest ELSE Answered(r, "accepted", Version, Document)]
    BY <1>1, <2>2, <2>4
  <2>5. CASE \E d \in Docs :
               /\ r.kind = "summary" => d = Document
               /\ log' = Append(log, d)
               /\ requests' = [requests EXCEPT ![s] =
                    IF r.stage = "orphan" THEN NoRequest ELSE Answered(r, "accepted", Version + 1, d)]
    <3>1. PICK d \in Docs :
            /\ r.kind = "summary" => d = Document
            /\ log' = Append(log, d)
            /\ requests' = [requests EXCEPT ![s] =
                 IF r.stage = "orphan" THEN NoRequest ELSE Answered(r, "accepted", Version + 1, d)]
      BY <2>5
    <3>2. PICK v : v = Version + 1
      OBVIOUS
    <3>3. log'[v] = d /\ (r.kind = "summary" => v - 1 \in 1..Len(log') /\ log'[v] = log'[v - 1])
      <4>1. /\ log'[Version + 1] = d
            /\ r.kind = "summary" =>
                 Version + 1 - 1 \in 1..Len(log') /\ log'[Version + 1] = log'[Version + 1 - 1]
        BY <2>3, <3>1
      <4> QED BY ONLY <1>1, <3>2, <4>1
    <3>4. requests' = [requests EXCEPT ![s] =
            IF r.stage = "orphan" THEN NoRequest ELSE Answered(r, "accepted", v, d)]
      BY <3>1, <3>2
    <3> QED BY <2>2, <3>3, <3>4
  <2> QED BY <2>1, <2>4, <2>5 DEF Handle, Answer, Store
<1> QED BY <1>2, <1>3, <1>4, <1>5, ServerStep

LEMMA OtherServerSteps ==
    ASSUME EditorConstants, EditorInv,
           \/ \E s \in Slots : Fail(s)
           \/ \E d \in Docs : SaveElsewhere(d)
           \/ MoveElsewhere \/ PublishElsewhere
    PROVE  AnswersOK(requests', log') /\ CleanOK(tab', log') /\ KeptOK(tab', draft', log')
<1>1. Document \in Docs /\ requests \in [Slots -> Request]
  BY VersionType DEF EditorInv, IInv, RequestsOK
<1>2. Grows(log, log') /\ draft' \in {draft, Aged} /\ UNCHANGED tab
  BY <1>1 DEF Fail, SaveElsewhere, MoveElsewhere, PublishElsewhere, Store, Grows
<1>3. \A s \in Slots : AnswerOK(requests'[s], log') \/ requests'[s] = requests[s]
  <2>1. CASE UNCHANGED requests
    BY <2>1
  <2>2. ASSUME NEW s \in Slots, Fail(s), NEW u \in Slots
        PROVE  AnswerOK(requests'[u], log') \/ requests'[u] = requests[u]
    <3>1. \/ requests'[u] = requests[u] \/ requests'[u] = NoRequest
          \/ requests'[u] = Answered(requests[s], "failed", 0, NoDoc)
      BY <1>1, <2>2 DEF Fail, Answer
    <3>2. NoRequest.stage = "none" /\ Answered(requests[s], "failed", 0, NoDoc).stage = "failed"
      BY <1>1, AnsweredFields DEF NoRequest
    <3> QED BY <3>1, <3>2, NotAccepted
  <2> QED BY <2>1, <2>2 DEF SaveElsewhere, MoveElsewhere, PublishElsewhere
<1> QED BY <1>2, <1>3, ServerStep

-----------------------------------------------------------------------------
(* Steps of the user                                                       *)

\* What is left to show of a step that sets the tab and handles no request.
LEMMA SetStep ==
    ASSUME EditorInv, UNCHANGED log, AnswersOK(requests', log),
           NEW t \in Tab, Set(t), CleanOK(t, log),
           t.open => tab.open, tab.timer => t.timer, tab.blocked => t.blocked,
           t.dirty => draft' = draft, Carries(t)
    PROVE  AnswersOK(requests', log') /\ CleanOK(tab', log') /\ KeptOK(tab', draft', log')
<1>1. tab \in Tab /\ CleanOK(tab, log) /\ KeptOK(tab, draft, log)
  BY DEF EditorInv, IInv, TabOK
<1>2. CleanOK(tab', log)
  BY SetClean
<1>3. KeptOK(tab', draft', log)
  BY <1>1, SetKept
<1> QED BY <1>2, <1>3

\* The same of a step that leaves alone what the tab shows.
LEMMA SameStep ==
    ASSUME EditorInv, UNCHANGED log, AnswersOK(requests', log), SameDocument(tab, tab'),
           tab.open /\ tab.dirty => draft' = draft
    PROVE  AnswersOK(requests', log') /\ CleanOK(tab', log') /\ KeptOK(tab', draft', log')
<1>1. CleanOK(tab', log)
  BY SameOK DEF EditorInv
<1>2. KeptOK(tab, draft', log)
  BY DEF EditorInv, KeptOK
<1>3. KeptOK(tab', draft', log)
  BY <1>2, SameOK
<1> QED BY <1>1, <1>2, <1>3

LEMMA UserSteps ==
    ASSUME EditorConstants, EditorInv,
           \/ \E d \in Docs : Edit(d)
           \/ LoadCurrentResume \/ UseCloudVersion \/ KeepLocalAfterConflict \/ RestoreRecoveryDraft
    PROVE  AnswersOK(requests', log') /\ CleanOK(tab', log') /\ KeptOK(tab', draft', log')
<1>1. /\ tab \in Tab /\ TabOK(tab, Version) /\ Version = Len(log) /\ Version \in Nat
      /\ AnswersOK(requests, log) /\ \A v \in 1..Version : log[v] \in Docs
  BY VersionType DEF EditorInv, IInv, TabOK, Version
<1>2. UNCHANGED <<log, requests>>
  BY DEF Edit, LoadCurrentResume, UseCloudVersion, KeepLocalAfterConflict, RestoreRecoveryDraft
<1>3. AnswersOK(requests', log)
  BY <1>1, <1>2
<1>4. ASSUME NEW d \in Docs, Edit(d)
      PROVE  AnswersOK(requests', log') /\ CleanOK(tab', log') /\ KeptOK(tab', draft', log')
  <2>1. PICK c \in {tab.conflict, 0} :
           Set([tab EXCEPT !.doc = d, !.dirty = TRUE, !.conflict = c, !.failed = FALSE,
                    !.renumbered = FALSE])
    BY <1>4 DEF Edit
  <2>2. PICK b : b = [tab EXCEPT !.doc = d, !.dirty = TRUE, !.conflict = c, !.failed = FALSE,
                    !.renumbered = FALSE]
    OBVIOUS
  <2>3. c \in Nat
    BY <1>1, <2>1 DEF Tab, Versions
  <2>4. /\ b \in Tab /\ b.dirty /\ b.open = tab.open /\ b.timer = tab.timer /\ b.blocked = tab.blocked
        /\ b.doc = d
    BY ONLY <1>1, <2>2, <2>3, d \in Docs DEF Tab, Versions
  <2>5. Set(b) /\ draft' = draft /\ CleanOK(b, log) /\ Carries(b)
    BY <1>4, <2>1, <2>2, <2>4 DEF Edit, CleanOK, Carries
  <2> QED BY <1>2, <1>3, <2>4, <2>5, SetStep
<1>5. CASE LoadCurrentResume
  <2>1. SameDocument(tab, tab') /\ draft' = draft
    BY <1>1, <1>5 DEF LoadCurrentResume, SameDocument, Tab
  <2> QED BY <1>2, <1>3, <2>1, SameStep
<1>6. CASE UseCloudVersion
  <2>1. tab.cloud \in 1..Version /\ tab.cloud \in Nat /\ log[tab.cloud] \in Docs
    BY <1>1, <1>6 DEF UseCloudVersion, Prompted, TabOK
  <2>2. PICK b : b = RestoreServerVersion(tab.cloud, log[tab.cloud])
    OBVIOUS
  <2>3. b \in Tab
    BY <1>1, <2>1, <2>2, RestoreServerVersionOK DEF TabOK
  <2>4. /\ b.open = tab.open /\ b.doc = log[tab.cloud] /\ b.version = tab.cloud /\ ~b.dirty
        /\ b.blocked = tab.blocked /\ b.timer = tab.timer
    BY <1>1, <2>1, <2>2, RestoreFields
  <2>5. CleanOK(b, log) /\ Carries(b)
    BY <1>1, <2>1, <2>4 DEF CleanOK, SavedIn, Carries
  <2>6. Set(b)
    BY <1>6, <2>2 DEF UseCloudVersion
  <2> QED BY <1>2, <1>3, <2>3, <2>4, <2>5, <2>6, SetStep
<1>7. CASE KeepLocalAfterConflict
  <2>1. tab.cloud \in 1..Version /\ tab.cloud \in 0..Version /\ tab.cloud \in Nat
    <3>1. tab.cloud \in 1..Version
      BY <1>1, <1>7 DEF KeepLocalAfterConflict, Prompted, TabOK
    <3> QED BY <1>1, <3>1
  <2>2. PICK t : t = Shown(tab, tab.cloud)
    OBVIOUS
  <2>3. t \in Tab
    BY <1>1, <2>1, <2>2, ShownOK DEF TabOK
  <2>4. /\ t.open = tab.open /\ t.timer = tab.timer /\ t.blocked = tab.blocked
        /\ t.renumbered = tab.renumbered /\ t.discarded = tab.discarded
    BY <1>1, <2>1, <2>2, ShownFields
  <2>5. PICK b : b = [t EXCEPT !.dirty = TRUE, !.conflict = 0, !.failed = FALSE]
    OBVIOUS
  <2>6. /\ b \in Tab /\ b.dirty /\ b.open = t.open /\ b.timer = t.timer /\ b.blocked = t.blocked
        /\ b.renumbered = t.renumbered /\ b.discarded = t.discarded
    BY ONLY <2>3, <2>5 DEF Tab, Versions
  <2>7. Set(b) /\ draft' = draft /\ CleanOK(b, log) /\ Carries(b)
    BY <1>7, <2>2, <2>4, <2>5, <2>6 DEF KeepLocalAfterConflict, CleanOK, Carries
  <2> QED BY <1>2, <1>3, <2>4, <2>6, <2>7, SetStep
<1>8. CASE RestoreRecoveryDraft
  <2>1. tab'.dirty /\ (tab'.timer \/ tab'.blocked)
    BY <1>1, <1>8 DEF RestoreRecoveryDraft, Tab
  <2> QED BY <1>2, <1>3, <2>1 DEF CleanOK, KeptOK
<1> QED BY <1>4, <1>5, <1>6, <1>7, <1>8

\* A draft that is deleted with the recovery draft is the exception that is named.
LEMMA DiscardClean ==
    ASSUME EditorConstants, EditorInv, DiscardRecoveryDraft
    PROVE  AnswersOK(requests', log') /\ CleanOK(tab', log') /\ KeptOK(tab', draft', log')
<1>1. tab \in Tab /\ AnswersOK(requests', log) /\ log' = log
  BY DEF EditorInv, IInv, TabOK, DiscardRecoveryDraft
<1>2. /\ tab'.open = tab.open /\ tab'.doc = tab.doc /\ tab'.version = tab.version
      /\ tab'.dirty = tab.dirty /\ tab'.renumbered = tab.renumbered
      /\ tab'.discarded = tab.dirty
  BY <1>1 DEF DiscardRecoveryDraft, Tab
<1>3. CleanOK(tab', log)
  BY <1>2 DEF EditorInv, CleanOK, SavedIn
<1> QED BY <1>1, <1>2, <1>3 DEF KeptOK

-----------------------------------------------------------------------------
(* Saves and other changes                                                 *)

LEMMA Unanswered ==
    ASSUME NEW kind, NEW t, NEW l
    PROVE  AnswerOK(Sent(kind, t), l) /\ AnswerOK(NoRequest, l)
BY NotAccepted DEF Sent, NoRequest

\* Requests that are not answered yet say nothing of the log.
LEMMA FlushClean ==
    ASSUME EditorConstants, EditorInv, NEW t \in Tab, t.current = tab.current, SameDocument(tab, t),
           FlushSave(t)
    PROVE  AnswersOK(requests', log) /\ SameDocument(tab, tab')
<1>1. /\ requests \in [Slots -> Request] /\ AnswersOK(requests, log) /\ 0 \notin Slots
      /\ t.current \in Slots \cup {0}
  BY EditorConstants DEF EditorInv, IInv, RequestsOK, Tab, EditorConstants
<1>2. CASE tab' = t /\ UNCHANGED requests
  BY <1>1, <1>2
<1>3. CASE /\ t.current # 0 /\ tab' = t
           /\ requests' = [requests EXCEPT ![t.current].waiters = @ + 1]
  <2>1. ASSUME NEW s \in Slots
        PROVE  /\ requests'[s].stage = requests[s].stage /\ requests'[s].kind = requests[s].kind
               /\ requests'[s].version = requests[s].version /\ requests'[s].doc = requests[s].doc
    BY <1>1, <1>3 DEF Request
  <2> QED BY <1>1, <1>3, <2>1 DEF AnswersOK, AnswerOK
<1>4. ASSUME NEW s \in Slots, requests' = [requests EXCEPT ![s] = Sent("save", t)],
             tab' = [t EXCEPT !.current = s, !.failed = FALSE]
      PROVE  AnswersOK(requests', log) /\ SameDocument(tab, tab')
  <2>1. SameDocument(tab, tab')
    BY <1>4 DEF SameDocument, Tab
  <2>2. \A u \in Slots : requests'[u] \in {requests[u], Sent("save", t)}
    BY <1>1, <1>4
  <2> QED BY <1>1, <2>1, <2>2, Unanswered DEF AnswersOK
<1> QED BY <1>2, <1>3, <1>4 DEF FlushSave, Answer

LEMMA SavingSteps ==
    ASSUME EditorConstants, EditorInv,
           \/ WriteDraft \/ Autosave \/ ManualSave
           \/ \E s \in Slots, kind \in {"summary", "restore", "proposal"} : ChangeOtherwise(kind, s)
    PROVE  AnswersOK(requests', log') /\ CleanOK(tab', log') /\ KeptOK(tab', draft', log')
<1>1. /\ tab \in Tab /\ requests \in [Slots -> Request] /\ AnswersOK(requests, log)
  BY DEF EditorInv, IInv, TabOK, RequestsOK
<1>2. UNCHANGED log
  BY DEF WriteDraft, Autosave, ManualSave, ChangeOtherwise
<1>3. CASE WriteDraft
  <2>1. /\ tab'.open = tab.open /\ tab'.doc = tab.doc /\ tab'.version = tab.version
        /\ tab'.dirty = tab.dirty /\ tab'.blocked = tab.blocked
        /\ tab'.renumbered = tab.renumbered
    BY <1>1, <1>3 DEF WriteDraft, Tab
  <2>2. CleanOK(tab', log')
    BY <1>2, <2>1 DEF EditorInv, CleanOK, SavedIn
  <2>3. tab.dirty /\ ~tab.blocked => draft'.some /\ draft'.doc = tab.doc
    BY <1>3 DEF WriteDraft, Unsaved
  <2>4. KeptOK(tab', draft', log')
    BY <2>1, <2>3 DEF KeptOK
  <2> QED BY <1>1, <1>2, <1>3, <2>2, <2>4 DEF WriteDraft
<1>4. CASE Autosave
  <2>1. PICK t : t = [tab EXCEPT !.drafting = FALSE]
    OBVIOUS
  <2>2. t \in Tab /\ t.current = tab.current /\ SameDocument(tab, t)
    BY <1>1, <2>1 DEF Tab, SameDocument
  <2>3. FlushSave(t) /\ (tab.dirty => draft' = draft)
    BY <1>4, <2>1 DEF Autosave
  <2>4. AnswersOK(requests', log) /\ SameDocument(tab, tab')
    BY <2>2, <2>3, FlushClean
  <2> QED BY <1>2, <2>3, <2>4, SameStep
<1>5. CASE ManualSave
  <2>1. FlushSave(tab) /\ draft' = draft /\ SameDocument(tab, tab)
    BY <1>5 DEF ManualSave, SameDocument
  <2>2. AnswersOK(requests', log) /\ SameDocument(tab, tab')
    BY <1>1, <2>1, FlushClean
  <2> QED BY <1>2, <2>1, <2>2, SameStep
<1>6. ASSUME NEW s \in Slots, NEW kind \in {"summary", "restore", "proposal"}, ChangeOtherwise(kind, s)
      PROVE  AnswersOK(requests', log') /\ CleanOK(tab', log') /\ KeptOK(tab', draft', log')
  <2>1. tab' = tab /\ draft' = draft /\ requests' = [requests EXCEPT ![s] = Sent(kind, tab)]
    BY <1>6 DEF ChangeOtherwise, Answer
  <2>2. \A u \in Slots : requests'[u] \in {requests[u], Sent(kind, tab)}
    BY <1>1, <2>1
  <2>3. AnswersOK(requests', log)
    BY <1>1, <2>2, Unanswered DEF AnswersOK
  <2>4. SameDocument(tab, tab')
    BY <2>1 DEF SameDocument
  <2> QED BY <1>2, <2>1, <2>3, <2>4, SameStep
<1> QED BY <1>3, <1>4, <1>5, <1>6

\* A save is over: whatever it has set in the tab, and whoever saves again.
LEMMA SettleClean ==
    ASSUME EditorInv, UNCHANGED log, NEW s \in Slots, NEW t \in Tab, NEW ok, Settle(s, t, ok),
           CleanOK(t, log), t.open => tab.open, tab.timer => t.timer, tab.blocked => t.blocked,
           t.dirty => draft' = draft, Carries(t)
    PROVE  AnswersOK(requests', log') /\ CleanOK(tab', log') /\ KeptOK(tab', draft', log')
<1>1. requests \in [Slots -> Request] /\ AnswersOK(requests, log)
  BY DEF EditorInv, IInv, RequestsOK
<1>2. PICK over, c : over = NotInFlight(t, s) /\ c = IF t.current = s THEN 0 ELSE t.current
  OBVIOUS
<1>3. over \in Tab /\ SameDocument(t, over)
  <2>1. over = [t EXCEPT !.current = c]
    BY <1>2 DEF NotInFlight
  <2>2. c \in Slots \cup {0}
    BY <1>2 DEF Tab
  <2> QED BY ONLY <2>1, <2>2, t \in Tab DEF Tab, SameDocument
<1>4. ASSUME NEW b \in Tab, SameDocument(t, b), Set(b),
             \A u \in Slots : requests'[u] \in {requests[u], NoRequest, Sent("save", t)}
      PROVE  AnswersOK(requests', log') /\ CleanOK(tab', log') /\ KeptOK(tab', draft', log')
  <2>1. AnswersOK(requests', log)
    BY <1>1, <1>4, Unanswered DEF AnswersOK
  <2>2. CleanOK(b, log)
    BY <1>4, SameOK
  <2>3. /\ b.open => tab.open
        /\ tab.timer => b.timer
        /\ tab.blocked => b.blocked
        /\ b.dirty => draft' = draft
        /\ Carries(b)
    BY <1>4 DEF SameDocument, Carries
  <2> QED BY <1>4, <2>1, <2>2, <2>3, SetStep
<1>5. CASE Set(over) /\ requests' = [requests EXCEPT ![s] = NoRequest]
  BY <1>1, <1>3, <1>4, <1>5
<1>6. ASSUME NEW u \in Slots, Set([over EXCEPT !.current = u]),
             \A w \in Slots : requests'[w] \in {requests[w], Sent("save", t)}
      PROVE  AnswersOK(requests', log') /\ CleanOK(tab', log') /\ KeptOK(tab', draft', log')
  <2>1. PICK b : b = [over EXCEPT !.current = u]
    OBVIOUS
  <2>2. b \in Tab /\ SameDocument(t, b)
    BY <1>3, <2>1 DEF Tab, SameDocument
  <2> QED BY <1>4, <1>6, <2>1, <2>2
<1>7. CASE Set([over EXCEPT !.current = s]) /\ requests' = [requests EXCEPT ![s] = Sent("save", t)]
  BY <1>1, <1>6, <1>7
<1>8. ASSUME NEW u \in Slots, Set([over EXCEPT !.current = u]),
             requests' = [requests EXCEPT ![s] = Sent("save", t), ![u] = Sent("save", t)]
      PROVE  AnswersOK(requests', log') /\ CleanOK(tab', log') /\ KeptOK(tab', draft', log')
  BY <1>1, <1>6, <1>8
<1> QED BY <1>2, <1>5, <1>7, <1>8 DEF Settle

LEMMA SaveEndsClean ==
    ASSUME EditorConstants, EditorInv, NEW s \in Slots, SaveEnds(s)
    PROVE  AnswersOK(requests', log') /\ CleanOK(tab', log') /\ KeptOK(tab', draft', log')
<1> DEFINE r == requests[s]
           saved == MarkSaved(r.version, r.doc)
<1>1. /\ tab \in Tab /\ TabOK(tab, Version) /\ Version = Len(log) /\ Version \in Nat
      /\ requests \in [Slots -> Request] /\ r \in Request /\ r.version \in Nat
      /\ RequestOK(r, Version) /\ AnswersOK(requests, log) /\ AnswerOK(r, log)
      /\ CleanOK(tab, log)
  BY VersionType DEF EditorInv, IInv, TabOK, Version, RequestsOK, AnswersOK, Request, Versions
<1>2. UNCHANGED log /\ r.kind = "save"
  BY DEF SaveEnds
<1>3. CASE r.stage = "accepted"
  <2>1. r.version \in 1..Version /\ log[r.version] = r.doc
    BY <1>1, <1>2, <1>3 DEF RequestOK, AnswerOK
  <2>2. PICK b : b = saved
    OBVIOUS
  <2>3. b \in Tab
    BY <1>1, <2>1, <2>2, MarkSavedOK DEF TabOK
  <2>4. /\ b.open = tab.open /\ b.doc = tab.doc /\ b.version = r.version
        /\ b.dirty = (tab.doc # r.doc) /\ b.blocked = tab.blocked /\ b.timer = tab.timer
        /\ b.renumbered = (tab.doc # r.doc /\ tab.renumbered)
        /\ b.discarded = (tab.doc # r.doc /\ tab.discarded)
    BY <1>1, <2>2, MarkSavedFields
  <2>5. CleanOK(b, log)
    <3>1. SUFFICES ASSUME ~b.dirty PROVE SavedIn(b, log)
      BY DEF CleanOK
    <3>2. tab.doc = r.doc
      BY <2>4, <3>1, Zenon
    <3>3. b.doc = r.doc /\ b.version = r.version
      BY <2>4, <3>2
    <3> QED BY <1>1, <2>1, <3>3 DEF SavedIn
  <2>6. Carries(b)
    BY <2>4 DEF Carries
  <2>7. CASE /\ ~saved.dirty /\ Set(saved)
             /\ requests' = [requests EXCEPT ![s] = Answered(r, "cleaning", 0, NoDoc)]
    <3>1. Set(b) /\ ~b.dirty
      BY <2>2, <2>7
    <3>2. AnswersOK(requests', log)
      <4>1. \A u \in Slots : requests'[u] \in {requests[u], Answered(r, "cleaning", 0, NoDoc)}
        BY <1>1, <2>7
      <4>2. AnswerOK(Answered(r, "cleaning", 0, NoDoc), log)
        BY <1>1, AnsweredFields, NotAccepted
      <4> QED BY <1>1, <4>1, <4>2 DEF AnswersOK
    <3> QED BY <1>2, <2>3, <2>4, <2>5, <2>6, <3>1, <3>2, SetStep
  <2>8. CASE Settle(s, saved, TRUE) /\ UNCHANGED draft
    <3>1. Settle(s, b, TRUE) /\ draft' = draft
      BY <2>2, <2>8
    <3> QED BY <1>2, <2>3, <2>4, <2>5, <2>6, <3>1, SettleClean
  <2>9. \/ /\ ~saved.dirty /\ Set(saved)
           /\ requests' = [requests EXCEPT ![s] = Answered(r, "cleaning", 0, NoDoc)]
        \/ Settle(s, saved, TRUE) /\ UNCHANGED draft
    BY <1>3 DEF SaveEnds, Answer
  <2> QED BY <2>7, <2>8, <2>9
<1>4. ASSUME NEW t \in Tab, NEW ok, Settle(s, t, ok), draft' = draft, t.open = tab.open,
             t.doc = tab.doc, t.version = tab.version, t.dirty = tab.dirty, t.timer = tab.timer,
             t.renumbered = tab.renumbered, t.discarded = tab.discarded, tab.blocked => t.blocked
      PROVE  AnswersOK(requests', log') /\ CleanOK(tab', log') /\ KeptOK(tab', draft', log')
  <2>1. CleanOK(t, log) /\ Carries(t)
    BY <1>1, <1>4 DEF CleanOK, SavedIn, Carries
  <2> QED BY <1>2, <1>4, <2>1, SettleClean
<1>5. CASE r.stage = "cleaning"
  <2>1. Settle(s, tab, TRUE) /\ draft' = draft
    BY <1>5 DEF SaveEnds
  <2> QED BY <1>1, <1>4, <2>1
<1>6. CASE r.stage = "conflict"
  <2>1. PICK t : t = SetSaveConflict(r.version)
    OBVIOUS
  <2>2. Settle(s, t, FALSE) /\ draft' = draft
    BY <1>6, <2>1 DEF SaveEnds
  <2>3. t \in Tab /\ SameDocument(tab, t)
    BY <1>1, <2>1, SetSaveConflictOK, ConflictFields DEF TabOK
  <2> QED BY <1>4, <2>2, <2>3 DEF SameDocument
<1>7. CASE r.stage = "trashed"
  <2>1. PICK t : t = SetResumeTrashed
    OBVIOUS
  <2>2. Settle(s, t, FALSE) /\ draft' = draft
    BY <1>7, <2>1 DEF SaveEnds
  <2>3. t \in Tab
    BY <1>1, <2>1, SetResumeTrashedOK DEF TabOK
  <2>4. /\ t.open = tab.open /\ t.doc = tab.doc /\ t.version = tab.version /\ t.dirty = tab.dirty
        /\ t.blocked /\ t.timer = tab.timer
        /\ t.renumbered = tab.renumbered /\ t.discarded = tab.discarded
    BY <1>1, <2>1, TrashedFields
  <2> QED BY <1>4, <2>2, <2>3, <2>4
<1>8. CASE r.stage = "failed"
  <2>1. PICK t : t = [tab EXCEPT !.failed = TRUE]
    OBVIOUS
  <2>2. Settle(s, t, FALSE) /\ draft' = draft
    BY <1>8, <2>1 DEF SaveEnds
  <2>3. t \in Tab /\ SameDocument(tab, t)
    BY <1>1, <2>1 DEF Tab, SameDocument
  <2> QED BY <1>4, <2>2, <2>3 DEF SameDocument
<1> QED BY <1>3, <1>5, <1>6, <1>7, <1>8 DEF SaveEnds

LEMMA ChangeEndsClean ==
    ASSUME EditorConstants, EditorInv, NEW s \in Slots, ChangeEnds(s)
    PROVE  AnswersOK(requests', log') /\ CleanOK(tab', log') /\ KeptOK(tab', draft', log')
<1> DEFINE r == requests[s]
<1>1. /\ tab \in Tab /\ TabOK(tab, Version) /\ Version = Len(log) /\ Version \in Nat
      /\ requests \in [Slots -> Request] /\ r \in Request /\ r.version \in Nat
      /\ RequestOK(r, Version) /\ AnswersOK(requests, log) /\ AnswerOK(r, log)
      /\ CleanOK(tab, log)
  BY VersionType DEF EditorInv, IInv, TabOK, Version, RequestsOK, AnswersOK, Request, Versions
<1>2. UNCHANGED log /\ AnswersOK(requests', log)
  <2>1. requests' = [requests EXCEPT ![s] = NoRequest] /\ UNCHANGED log
    BY DEF ChangeEnds, Answer
  <2>2. \A u \in Slots : requests'[u] \in {requests[u], NoRequest}
    BY <1>1, <2>1
  <2> QED BY <1>1, <2>1, <2>2, Unanswered DEF AnswersOK
<1>3. ASSUME NEW t \in Tab, Set(t), t.open = tab.open, t.timer = tab.timer,
             tab.blocked => t.blocked, t.dirty => draft' = draft, CleanOK(t, log),
             Carries(t)
      PROVE  AnswersOK(requests', log') /\ CleanOK(tab', log') /\ KeptOK(tab', draft', log')
  BY <1>2, <1>3, SetStep
<1>4. CASE r.stage = "accepted" /\ r.kind = "summary" /\ Set(SetVersion(r.version))
  <2>1. PICK t : t = SetVersion(r.version)
    OBVIOUS
  <2>2. t \in Tab
    <3>1. r.version \in 0..Version
      BY <1>1, <1>4 DEF RequestOK
    <3> QED BY <1>1, <2>1, <3>1, SetVersionOK DEF TabOK
  <2>3. /\ t.open = tab.open /\ t.doc = tab.doc /\ t.version = r.version /\ t.dirty = tab.dirty
        /\ t.blocked = tab.blocked /\ t.timer = tab.timer
        /\ t.renumbered = (tab.renumbered \/ tab.version < r.version - 1)
        /\ t.discarded = tab.discarded
    BY <1>1, <2>1, SetVersionFields
  <2>4. CleanOK(t, log)
    <3>1. SUFFICES ASSUME tab.open, ~tab.dirty PROVE SavedIn(t, log)
      BY <2>3 DEF CleanOK
    <3>2. PICK v \in 1..Version : (tab.renumbered \/ tab.version <= v) /\ log[v] = tab.doc
      BY <1>1, <3>1 DEF CleanOK, SavedIn
    <3>3. r.version \in 1..Version /\ r.version - 1 \in 1..Version
          /\ log[r.version] = log[r.version - 1]
      BY <1>1, <1>4 DEF RequestOK, AnswerOK
    <3>4. tab.version \in Nat
      BY <1>1 DEF Tab, Versions
    <3>5. CASE t.renumbered \/ r.version <= v
      BY <1>1, <2>3, <3>2, <3>5 DEF SavedIn
    <3>6. CASE ~t.renumbered /\ v < r.version
      <4>1. ~(tab.version < r.version - 1) /\ tab.version <= v
        BY <2>3, <3>2, <3>6
      <4>2. v = r.version - 1
        BY ONLY <1>1, <3>3, <3>4, <3>6, <4>1, v \in 1..Version
      <4> QED BY <1>1, <2>3, <3>2, <3>3, <4>2 DEF SavedIn
    <3> QED BY <1>1, <3>2, <3>3, <3>5, <3>6
  <2>5. draft' = draft /\ Carries(t)
    BY <1>4, <2>3 DEF ChangeEnds, Carries
  <2> QED BY <1>3, <1>4, <2>1, <2>2, <2>3, <2>4, <2>5
<1>5. CASE r.stage = "accepted" /\ r.kind = "restore" /\ Set(RestoreServerVersion(r.version, r.doc))
  <2>1. r.version \in 1..Version /\ r.doc \in Docs /\ log[r.version] = r.doc
    BY <1>1, <1>5 DEF RequestOK, AnswerOK
  <2>2. PICK t : t = RestoreServerVersion(r.version, r.doc)
    OBVIOUS
  <2>3. t \in Tab
    BY <1>1, <2>1, <2>2, RestoreServerVersionOK DEF TabOK
  <2>4. /\ t.open = tab.open /\ t.doc = r.doc /\ t.version = r.version /\ ~t.dirty
        /\ t.blocked = tab.blocked /\ t.timer = tab.timer
    BY <1>1, <2>2, RestoreFields
  <2>5. CleanOK(t, log) /\ Carries(t)
    BY <1>1, <2>1, <2>4 DEF CleanOK, SavedIn, Carries
  <2> QED BY <1>3, <1>5, <2>2, <2>3, <2>4, <2>5
<1>6. CASE /\ r.stage = "accepted" /\ r.kind = "proposal"
           /\ Set([Shown(tab, r.version) EXCEPT
                    !.doc = r.doc, !.dirty = FALSE, !.conflict = 0, !.failed = FALSE,
                    !.renumbered = FALSE, !.discarded = FALSE])
  <2>1. r.version \in 1..Version /\ r.version \in 0..Version /\ r.doc \in Docs
        /\ log[r.version] = r.doc
    BY <1>1, <1>6 DEF RequestOK, AnswerOK
  <2>2. PICK t, d : t = Shown(tab, r.version) /\ d = r.doc
    OBVIOUS
  <2>3. t \in Tab
    BY <1>1, <2>1, <2>2, ShownOK DEF TabOK
  <2>4. /\ t.open = tab.open /\ t.version = r.version /\ t.blocked = tab.blocked
        /\ t.timer = tab.timer
    BY <1>1, <2>2, ShownFields
  <2>5. PICK b : b = [t EXCEPT !.doc = d, !.dirty = FALSE, !.conflict = 0, !.failed = FALSE,
                             !.renumbered = FALSE, !.discarded = FALSE]
    OBVIOUS
  <2>6. /\ b \in Tab /\ b.open = t.open /\ b.doc = d /\ b.version = t.version /\ ~b.dirty
        /\ b.blocked = t.blocked /\ b.timer = t.timer
    <3>1. d \in Docs
      BY <2>1, <2>2
    <3> QED BY ONLY <2>3, <2>5, <3>1 DEF Tab, Versions
  <2>7. CleanOK(b, log) /\ Carries(b)
    BY <1>1, <2>1, <2>2, <2>4, <2>6 DEF CleanOK, SavedIn, Carries
  <2>8. Set(b)
    BY <1>6, <2>2, <2>5
  <2> QED BY <1>3, <2>4, <2>6, <2>7, <2>8
<1>7. CASE r.stage # "accepted" /\ Set(SetSaveConflict(r.version))
  <2>1. PICK t : t = SetSaveConflict(r.version)
    OBVIOUS
  <2>2. t \in Tab /\ SameDocument(tab, t)
    BY <1>1, <2>1, SetSaveConflictOK, ConflictFields DEF TabOK
  <2>3. CleanOK(t, log) /\ draft' = draft /\ Carries(t)
    BY <1>1, <1>7, <2>2, SameOK DEF ChangeEnds, SameDocument, Carries
  <2> QED BY <1>3, <1>7, <2>1, <2>2, <2>3 DEF SameDocument
<1>8. CASE r.stage # "accepted" /\ Set(SetResumeTrashed)
  <2>1. PICK t : t = SetResumeTrashed
    OBVIOUS
  <2>2. t \in Tab
    BY <1>1, <2>1, SetResumeTrashedOK DEF TabOK
  <2>3. /\ t.open = tab.open /\ t.doc = tab.doc /\ t.version = tab.version /\ t.dirty = tab.dirty
        /\ t.blocked /\ t.timer = tab.timer
        /\ t.renumbered = tab.renumbered /\ t.discarded = tab.discarded
    BY <1>1, <2>1, TrashedFields
  <2>4. CleanOK(t, log) /\ draft' = draft /\ Carries(t)
    BY <1>1, <1>8, <2>3 DEF ChangeEnds, CleanOK, SavedIn, Carries
  <2> QED BY <1>3, <1>8, <2>1, <2>2, <2>3, <2>4
<1>9. CASE r.stage # "accepted" /\ UNCHANGED tab
  <2>1. SameDocument(tab, tab') /\ draft' = draft
    BY <1>9 DEF SameDocument, ChangeEnds
  <2> QED BY <1>2, <2>1, SameStep
<1> QED BY <1>4, <1>5, <1>6, <1>7, <1>8, <1>9 DEF ChangeEnds

-----------------------------------------------------------------------------
(* The tab comes and goes                                                  *)

LEMMA TabSteps ==
    ASSUME EditorConstants, EditorInv, Close \/ Open \/ UNCHANGED vars
    PROVE  AnswersOK(requests', log') /\ CleanOK(tab', log') /\ KeptOK(tab', draft', log')
<1>1. /\ log \in Seq(Docs) /\ Version = Len(log) /\ Version \in Nat /\ Version >= 1
      /\ Document = log[Version] /\ requests \in [Slots -> Request] /\ AnswersOK(requests, log)
  BY VersionType DEF EditorInv, IInv, Version, Document, RequestsOK
<1>2. CASE Close
  <2>1. ~tab'.open /\ UNCHANGED log
    BY <1>2 DEF Close, Opened
  <2>2. ASSUME NEW s \in Slots PROVE AnswerOK(requests'[s], log)
    <3>1. CASE requests[s].stage = "sent"
      <4>1. requests'[s] = [requests[s] EXCEPT !.stage = "orphan", !.waiters = 0]
        BY <1>2, <3>1 DEF Close
      <4>2. requests'[s].stage = "orphan"
        BY <1>1, <4>1 DEF Request
      <4> QED BY <4>2, NotAccepted
    <3>2. CASE requests[s].stage # "sent"
      <4>1. requests'[s] \in {requests[s], NoRequest}
        BY <1>2, <3>2 DEF Close
      <4> QED BY <1>1, <4>1, Unanswered DEF AnswersOK
    <3> QED BY <3>1, <3>2
  <2> QED BY <2>1, <2>2 DEF AnswersOK, CleanOK, KeptOK
<1>3. CASE Open
  <2>1. ~tab'.dirty /\ tab'.doc = log[Version] /\ tab'.version = Version
        /\ UNCHANGED <<log, requests>>
    BY <1>1, <1>3 DEF Open, Opened
  <2> QED BY <1>1, <2>1 DEF CleanOK, KeptOK, SavedIn
<1>4. CASE UNCHANGED vars
  BY <1>1, <1>4 DEF vars, EditorInv
<1> QED BY <1>2, <1>3, <1>4

LEMMA InitClean == ASSUME EditorConstants, Init PROVE EditorInv
<1>1. IInv /\ Version = 1 /\ Version = Len(log)
  BY InitInvariant DEF Version
<1>2. AnswersOK(requests, log)
  BY Unanswered DEF Init, AnswersOK
<1>3. ~tab.dirty /\ tab.doc = log[1] /\ tab.version = 1
  BY <1>1 DEF Init, Opened, Document
<1>4. CleanOK(tab, log) /\ KeptOK(tab, draft, log)
  <2>1. 1 \in 1..Len(log) /\ tab.version <= 1 /\ log[1] = tab.doc
    <3>1. 1 \in 1..Len(log)
      BY <1>1
    <3>2. tab.version <= 1
      BY <1>3
    <3>3. log[1] = tab.doc
      BY <1>3
    <3> QED BY <3>1, <3>2, <3>3
  <2>2. SavedIn(tab, log)
    BY ONLY <2>1, Zenon DEF SavedIn
  <2> QED BY <2>2 DEF CleanOK, KeptOK
<1> QED BY <1>1, <1>2, <1>4 DEF EditorInv

\* Every step keeps what clean means, and the draft of what is not.
LEMMA CleanStep == ASSUME EditorConstants, EditorInv, [Next]_vars PROVE EditorInv'
<1>1. IInv'
  BY Step DEF EditorInv
<1>2. ASSUME AnswersOK(requests', log') /\ CleanOK(tab', log') /\ KeptOK(tab', draft', log')
      PROVE  EditorInv'
  BY <1>1, <1>2 DEF EditorInv
<1>3. CASE \E s \in Slots : Handle(s)
  BY <1>2, <1>3, HandleClean
<1>4. CASE \/ \E s \in Slots : Fail(s)
           \/ \E d \in Docs : SaveElsewhere(d)
           \/ MoveElsewhere \/ PublishElsewhere
  BY <1>2, <1>4, OtherServerSteps
<1>5. CASE \/ \E d \in Docs : Edit(d)
           \/ LoadCurrentResume \/ UseCloudVersion \/ KeepLocalAfterConflict \/ RestoreRecoveryDraft
  BY <1>2, <1>5, UserSteps
<1>6. CASE DiscardRecoveryDraft
  BY <1>2, <1>6, DiscardClean
<1>7. CASE \/ WriteDraft \/ Autosave \/ ManualSave
           \/ \E s \in Slots, kind \in {"summary", "restore", "proposal"} : ChangeOtherwise(kind, s)
  BY <1>2, <1>7, SavingSteps
<1>8. CASE \E s \in Slots : SaveEnds(s) \/ ChangeEnds(s)
  BY <1>2, <1>8, SaveEndsClean, ChangeEndsClean
<1>9. CASE Close \/ Open \/ UNCHANGED vars
  BY <1>2, <1>9, TabSteps
<1> QED BY <1>3, <1>4, <1>5, <1>6, <1>7, <1>8, <1>9 DEF Next

-----------------------------------------------------------------------------
(* Theorems                                                                *)

LEMMA SavedInLog == ASSUME IInv, SavedIn(tab, log) PROVE Saved \/ Renumbered
<1>1. tab.version \in Nat
  BY DEF IInv, TabOK, Tab, Versions
<1> QED BY <1>1 DEF SavedIn, Saved, Renumbered, Version

\* What the editor calls saved is a version of the resume, and what is not is in the draft.
THEOREM EditorInvariant == Spec => []EditorInv
<1> USE EditorConstants
<1>1. Init => EditorInv
  BY InitClean
<1>2. EditorInv /\ [Next]_vars => EditorInv'
  BY CleanStep
<1> QED BY <1>1, <1>2, PTL DEF Spec

\* A document that the editor calls saved is a version of the resume, no older than the one
\* the editor knows, for any documents, requests, circumstances and number of versions, in
\* whatever order the answers come -- but for a document that a summary's answer has given
\* the number of a later version, which is an older one.
THEOREM CleanIsSaved == Spec => []CleanMeansSaved
<1>1. EditorInv => CleanMeansSaved
  BY SavedInLog DEF EditorInv, CleanOK, CleanMeansSaved
<1> QED BY <1>1, EditorInvariant, PTL

\* Unsaved edits are in the draft once the debounce has passed, unless the server has them
\* or the user has discarded a recovery draft that they had replaced.
THEOREM UnsavedIsDrafted == Spec => []UnsavedEditsAreDrafted
<1>1. EditorInv => UnsavedEditsAreDrafted
  BY SavedInLog DEF EditorInv, KeptOK, UnsavedEditsAreDrafted, Drafted
<1> QED BY <1>1, EditorInvariant, PTL

\* The document of an editor that says everything is saved is in the version history.
CleanWasSaved == tab.open /\ ~tab.dirty => \E v \in 1..Version : log[v] = tab.doc

\* No edit is lost that the user was told is saved: without exception it can be found
\* among the versions of the resume.
THEOREM NothingSavedIsLost == Spec => []CleanWasSaved
<1>1. EditorInv => CleanWasSaved
  BY DEF EditorInv, CleanOK, SavedIn, CleanWasSaved, Version
<1> QED BY <1>1, EditorInvariant, PTL
================================================================================

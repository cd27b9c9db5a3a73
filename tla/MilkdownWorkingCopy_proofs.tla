-------------------- MODULE MilkdownWorkingCopy_proofs ---------------------
(***************************************************************************)
(* Proofs about MilkdownWorkingCopy for every set of blocks and texts and   *)
(* every bound: type correctness, the honesty of the dirty flag, that       *)
(* unsaved text keeps its timer, that memory and file agree, that a report  *)
(* is one of its session, and what a save writes. Each theorem names the    *)
(* environments it holds in.                                                *)
(***************************************************************************)
EXTENDS MilkdownWorkingCopy, TLAPS

----------------------------------------------------------------------------
(* The operators of RoundtripSave *)

\* Every document is a possible content of a file.
LEMMA DocIsBytes == Doc \subseteq Bytes
  BY DEF Doc, Bytes

LEMMA BlankIsBytes == Blank \in Bytes
  BY DEF Blank, Bytes

\* An incremental assembly yields bytes.
LEMMA AssembleType ==
  ASSUME NEW s \in Session, NEW r \in Report
  PROVE  AssembleIncremental(s, r) \in Bytes
  <1>1. s.source \in Bytes
    BY DEF Session
  <1>2. r.contents \in Bytes
    BY DEF Report
  <1>3. ASSUME NEW b \in Block
        PROVE  Slice(s, b) \in Text \union {Absent, Torn}
    BY <1>1 DEF Slice, Bytes
  <1> QED
    BY <1>2, <1>3 DEF AssembleIncremental, Bytes

\* The decision tree ends in a path, path A is taken only with opened bytes and
\* path B only with a session and a report.
LEMMA PathType ==
  ASSUME NEW s, NEW r, NEW o, NEW f
  PROVE  LET path == PickSavePath(s, r, o, f) IN
         /\ path \in {"A", "B", "C"}
         /\ path = "A" => o # None
         /\ path = "B" => s # None /\ r # None
  BY DEF PickSavePath

\* Whatever path is taken, there are bytes to write.
LEMMA BytesForType ==
  ASSUME NEW s \in Session \union {None}, NEW r \in Report \union {None},
         NEW o \in Bytes \union {None}, NEW f, NEW d \in Bytes
  PROVE  BytesFor(PickSavePath(s, r, o, f), s, r, o, d) \in Bytes
  <1> DEFINE path == PickSavePath(s, r, o, f)
  <1>1. /\ path \in {"A", "B", "C"}
        /\ path = "A" => o # None
        /\ path = "B" => s # None /\ r # None
    BY PathType
  <1> SUFFICES BytesFor(path, s, r, o, d) \in Bytes
    OBVIOUS
  <1> HIDE DEF path
  <1>2. CASE path = "A"
    BY <1>1, <1>2 DEF BytesFor
  <1>3. CASE path = "B"
    <2>1. s \in Session /\ r \in Report
      BY <1>1, <1>3
    <2> QED
      BY <1>3, <2>1, AssembleType DEF BytesFor
  <1>4. CASE path = "C"
    BY <1>4 DEF BytesFor
  <1> QED
    BY <1>1, <1>2, <1>3, <1>4

----------------------------------------------------------------------------
(* Type correctness *)

\* What the tracker reports for a document is a report.
LEMMA TrackerReportsType ==
  ASSUME NEW d \in Doc, NEW r \in TrackerReports(d)
  PROVE  r \in Report \union {None}
  <1>1. CASE "tracker" \notin Env \/ base = None
    BY <1>1 DEF TrackerReports
  <1>2. CASE ~("tracker" \notin Env \/ base = None)
    <2>1. PICK I \in SUBSET Block :
            r = [ids |-> I, contents |-> [b \in Block |-> IF b \in I THEN d[b] ELSE Absent]]
      BY <1>2 DEF TrackerReports, Present
    <2>2. [b \in Block |-> IF b \in I THEN d[b] ELSE Absent] \in Bytes
      BY DEF Doc, Bytes
    <2> QED
      BY <2>1, <2>2 DEF Report
  <1> QED
    BY <1>1, <1>2

LEMMA EpochZero == 0 \in 0..MaxEpoch
  BY MaxEpochAssumption

LEMMA IdleType == Idle \in Load
  BY DEF Idle, Load, How

\* Issuing, finishing and reading keep the table of loads a table of loads.
LEMMA IssueType ==
  ASSUME loads \in [Reader -> Load], NEW r \in Reader,
         NEW how \in How, Issue(r, how)
  PROVE  loads' \in [Reader -> Load]
  BY DEF Issue, Load, How

LEMMA FinishType ==
  ASSUME loads \in [Reader -> Load], NEW r \in Reader, Finish(r)
  PROVE  loads' \in [Reader -> Load]
  BY IdleType DEF Finish

\* The look at the file that ends in a load does, too.
LEMMA FollowType ==
  ASSUME loads \in [Reader -> Load]
  PROVE  [loads EXCEPT !["check"] = Idle,
                       !["externalChange"] = [Idle EXCEPT !.phase = "issued"]]
           \in [Reader -> Load]
  <1>1. [Idle EXCEPT !.phase = "issued"] \in Load
    BY DEF Idle, Load, How
  <1> QED
    BY <1>1, IdleType

\* A save that starts has a write of bytes to wait for.
LEMMA SaveIssuesWrite ==
  ASSUME TypeOK, NEW force \in BOOLEAN, Save(force),
         ~(NothingToSave(force) \/ saving)
  PROVE  write' \in Write /\ pendingForce' = None
  <1> DEFINE path == PickSavePath(session, report, openedBytes, pendingForce)
             bytes == BytesFor(path, session, report, openedBytes, current)
  <1>1. path \in {"A", "B", "C"}
    BY PathType
  <1>2. bytes \in Bytes
    BY BytesForType DEF TypeOK, CopyType
  <1>3. /\ write' = [snapshot |-> current, path |-> path, applied |-> FALSE,
                     bytes |-> bytes]
        /\ pendingForce' = None
    BY DEF Save
  <1>4. current \in Bytes
    BY DEF TypeOK, CopyType
  <1> HIDE DEF path, bytes
  <1> QED
    BY <1>1, <1>2, <1>3, <1>4 DEF Write

\* save() up to its await keeps the types.
LEMMA SaveType ==
  ASSUME TypeOK, NEW force \in BOOLEAN, Save(force)
  PROVE  TypeOK'
  <1>1. /\ write' \in Write \union {None}
        /\ pendingForce' \in {"B", "C"} \union {None}
    <2>1. CASE NothingToSave(force) \/ saving
      BY <2>1 DEF Save, TypeOK, CopyType, CallType
    <2>2. CASE ~(NothingToSave(force) \/ saving)
      BY <2>2, SaveIssuesWrite
    <2> QED
      BY <2>1, <2>2
  <1>2. CopyType'
    BY <1>1 DEF Save, TypeOK, CopyType, file, content, gates, tracked
  <1>3. CallType' /\ PageType'
    BY <1>1 DEF Save, TypeOK, CallType, PageType, page
  <1> QED
    BY <1>2, <1>3 DEF TypeOK

\* A write under way stays one when its bytes land or when it starts again.
LEMMA WriteGoesOn ==
  ASSUME TypeOK, saving
  PROVE  /\ [write EXCEPT !.applied = TRUE] \in Write
         /\ [write EXCEPT !.path = "C", !.bytes = write.snapshot,
                          !.applied = FALSE] \in Write
  BY DEF saving, Write, TypeOK, CallType

\* The steps of the webview and of the workbench that start something.
LEMMA ForegroundType ==
  ASSUME TypeOK, Foreground
  PROVE  TypeOK'
  <1> USE DEF file, content, gates, tracked, page
  <1>1. ASSUME NEW d \in Doc, NEW r \in TrackerReports(d), UpdateContent(d, r)
       PROVE  TypeOK'
    <2>1. r \in Report \union {None} /\ d \in Bytes
      BY <1>1, TrackerReportsType, DocIsBytes
    <2>2. CopyType'
      BY <1>1, <2>1 DEF UpdateContent, ScheduleAutoSave, TypeOK, CopyType
    <2>3. CallType'
      BY <1>1, <2>1 DEF UpdateContent, ScheduleAutoSave, TypeOK, CallType
    <2>4. PageType'
      BY <1>1, <2>1 DEF UpdateContent, ScheduleAutoSave, TypeOK, PageType
    <2> QED
      BY <2>2, <2>3, <2>4 DEF TypeOK
  <1>2. ASSUME NEW safe \in BOOLEAN, BuildEditor(safe)
       PROVE  TypeOK'
    <2>1. pushed \in Bytes /\ epoch + 1 \in 0..MaxEpoch
      BY <1>2, MaxEpochAssumption DEF BuildEditor, TypeOK, PageType
    <2>2. message' \in Parse
      BY <1>2, <2>1, MaxEpochAssumption DEF BuildEditor, Parse
    <2>3. CopyType'
      BY <1>2, <2>1, <2>2 DEF BuildEditor, TypeOK, CopyType
    <2>4. CallType'
      BY <1>2, <2>1, <2>2 DEF BuildEditor, TypeOK, CallType
    <2>5. PageType'
      BY <1>2, <2>1, <2>2 DEF BuildEditor, TypeOK, PageType
    <2> QED
      BY <2>3, <2>4, <2>5 DEF TypeOK
  <1>3. ASSUME NEW c \in BOOLEAN, UpdateWebviewComposing(c)
       PROVE  TypeOK'
    <2>1. timer' \in BOOLEAN
      BY <1>3 DEF UpdateWebviewComposing, FlushAfterComposing, ScheduleAutoSave, TypeOK, CopyType
    <2>2. CopyType'
      BY <1>3, <2>1 DEF UpdateWebviewComposing, TypeOK, CopyType
    <2>3. CallType'
      BY <1>3, <2>1 DEF UpdateWebviewComposing, TypeOK, CallType
    <2>4. PageType'
      BY <1>3, <2>1 DEF UpdateWebviewComposing, TypeOK, PageType
    <2> QED
      BY <2>2, <2>3, <2>4 DEF TypeOK
  <1>4. ASSUME PostInit
       PROVE  TypeOK'
    <2>1. loads' \in [Reader -> Load]
      BY <1>4, IssueType DEF PostInit, TypeOK, CallType, LoadReason, Reader, How
    <2>2. CopyType'
      BY <1>4, EpochZero, <2>1 DEF PostInit, Push, TypeOK, CopyType
    <2>3. CallType'
      BY <1>4, EpochZero, <2>1 DEF PostInit, Push, TypeOK, CallType
    <2>4. PageType'
      BY <1>4, EpochZero, <2>1 DEF PostInit, Push, TypeOK, CopyType, PageType
    <2> QED
      BY <2>2, <2>3, <2>4 DEF TypeOK
  <1>5. ASSUME NEW path \in {"B", "C"}, SetPendingFormatPath(path)
       PROVE  TypeOK'
    <2>1. CopyType'
      BY <1>5 DEF SetPendingFormatPath, TypeOK, CopyType
    <2>2. CallType'
      BY <1>5 DEF SetPendingFormatPath, TypeOK, CallType
    <2>3. PageType'
      BY <1>5 DEF SetPendingFormatPath, TypeOK, PageType
    <2> QED
      BY <2>1, <2>2, <2>3 DEF TypeOK
  <1>6. ASSUME NEW force \in BOOLEAN, RequestSave(force)
        PROVE  TypeOK'
    BY <1>6, SaveType DEF RequestSave
  <1>7. ASSUME Revert
       PROVE  TypeOK'
    <2>1. loads' \in [Reader -> Load]
      BY <1>7, IssueType DEF Revert, TypeOK, CallType, LoadReason, Reader, How
    <2>2. CopyType'
      BY <1>7, <2>1 DEF Revert, TypeOK, CopyType
    <2>3. CallType'
      BY <1>7, <2>1 DEF Revert, TypeOK, CallType
    <2>4. PageType'
      BY <1>7, <2>1 DEF Revert, TypeOK, PageType
    <2> QED
      BY <2>2, <2>3, <2>4 DEF TypeOK
  <1>8. ASSUME NEW d \in Doc, ExternalWrite(d)
       PROVE  TypeOK'
    <2>1. CopyType'
      BY <1>8, DocIsBytes DEF ExternalWrite, Reported, TypeOK, CopyType
    <2>2. CallType'
      BY <1>8, DocIsBytes DEF ExternalWrite, TypeOK, CallType
    <2>3. PageType'
      BY <1>8, DocIsBytes DEF ExternalWrite, TypeOK, PageType, Cause
    <2> QED
      BY <2>1, <2>2, <2>3 DEF TypeOK
  <1>9. ASSUME NEW reload \in BOOLEAN, AnswerPrompt(reload)
       PROVE  TypeOK'
    <2>1. loads' \in [Reader -> Load]
      BY <1>9, IssueType DEF AnswerPrompt, TypeOK, CallType, LoadReason, Reader, How
    <2>2. CopyType'
      BY <1>9, <2>1 DEF AnswerPrompt, TypeOK, CopyType
    <2>3. CallType'
      BY <1>9, <2>1 DEF AnswerPrompt, TypeOK, CallType
    <2>4. PageType'
      BY <1>9, <2>1 DEF AnswerPrompt, TypeOK, PageType
    <2> QED
      BY <2>2, <2>3, <2>4 DEF TypeOK
  <1>10. ASSUME StoreBackup
        PROVE  TypeOK'
    <2>1. CopyType'
      BY <1>10 DEF StoreBackup, TypeOK, CopyType
    <2>2. CallType'
      BY <1>10 DEF StoreBackup, TypeOK, CallType
    <2>3. PageType'
      BY <1>10 DEF StoreBackup, TypeOK, CopyType, PageType
    <2> QED
      BY <2>1, <2>2, <2>3 DEF TypeOK
  <1>11. ASSUME Dispose
        PROVE  TypeOK'
    <2>1. CopyType'
      BY <1>11 DEF Dispose, TypeOK, CopyType
    <2>2. CallType'
      BY <1>11 DEF Dispose, TypeOK, CallType
    <2>3. PageType'
      BY <1>11 DEF Dispose, TypeOK, PageType
    <2> QED
      BY <2>1, <2>2, <2>3 DEF TypeOK
  <1>12. ASSUME Restart
        PROVE  TypeOK'
    <2>1. CopyType'
      BY <1>12, BlankIsBytes, IdleType, EpochZero DEF Restart, TypeOK, CopyType
    <2>2. CallType'
      BY <1>12, BlankIsBytes, IdleType, EpochZero DEF Restart, TypeOK, CallType
    <2>3. PageType'
      BY <1>12, BlankIsBytes, IdleType, EpochZero DEF Restart, TypeOK, PageType, Cause
    <2> QED
      BY <2>1, <2>2, <2>3 DEF TypeOK
  <1> QED
    BY <1>1, <1>2, <1>3, <1>4, <1>5, <1>6, <1>7, <1>8, <1>9, <1>10, <1>11, <1>12
    DEF Foreground

\* The steps that end something: timers, settled promises, delivered events.
LEMMA BackgroundType ==
  ASSUME TypeOK, Background
  PROVE  TypeOK'
  <1> USE DEF file, content, gates, tracked, page
  <1>1. ASSUME TimerFires
        PROVE  TypeOK'
    <2>1. CASE composing
      <3>1. CopyType'
        BY <1>1, <2>1 DEF TimerFires, TypeOK, CopyType
      <3>2. CallType' /\ PageType'
        BY <1>1, <2>1 DEF TimerFires, TypeOK, CallType, PageType
      <3> QED
        BY <3>1, <3>2 DEF TypeOK
    <2>2. CASE ~composing
      BY <1>1, <2>2, SaveType DEF TimerFires
    <2> QED
      BY <2>1, <2>2
  <1>2. ASSUME WriteLands
       PROVE  TypeOK'
    <2>1. write \in Write /\ write' \in Write
      BY <1>2 DEF WriteLands, saving, Write, TypeOK, CallType
    <2>2. CopyType'
      BY <1>2, <2>1 DEF WriteLands, Reported, Write, TypeOK, CopyType
    <2>3. CallType'
      BY <1>2, <2>1 DEF WriteLands, TypeOK, CallType
    <2>4. PageType'
      BY <1>2, <2>1 DEF WriteLands, TypeOK, PageType, Cause
    <2> QED
      BY <2>2, <2>3, <2>4 DEF TypeOK
  <1>3. ASSUME SaveSucceeds
       PROVE  TypeOK'
    <2>1. write.snapshot \in Bytes /\ write.bytes \in Bytes
      BY <1>3 DEF SaveSucceeds, saving, Write, TypeOK, CallType
    <2>2. CopyType'
      BY <1>3, <2>1 DEF SaveSucceeds, RefreshBaseline, Confirmed, StillDirty, Rearm, TypeOK, CopyType
    <2>3. CallType'
      BY <1>3, <2>1 DEF SaveSucceeds, RefreshBaseline, Confirmed, StillDirty, Rearm, TypeOK, CallType
    <2>4. PageType'
      BY <1>3, <2>1 DEF SaveSucceeds, RefreshBaseline, Confirmed, StillDirty, Rearm, TypeOK, PageType
    <2> QED
      BY <2>2, <2>3, <2>4 DEF TypeOK
  <1>4. ASSUME SaveFails
       PROVE  TypeOK'
    <2>1. CopyType'
      BY <1>4 DEF SaveFails, Rearm, TypeOK, CopyType
    <2>2. CallType'
      BY <1>4 DEF SaveFails, Rearm, TypeOK, CallType
    <2>3. PageType'
      BY <1>4 DEF SaveFails, TypeOK, PageType, Cause
    <2> QED
      BY <2>1, <2>2, <2>3 DEF TypeOK
  <1>5. ASSUME FallBackToFull
       PROVE  TypeOK'
    <2>1. write' \in Write
      BY <1>5 DEF FallBackToFull, saving, Write, TypeOK, CallType
    <2>2. CopyType'
      BY <1>5, <2>1 DEF FallBackToFull, TypeOK, CopyType
    <2>3. CallType'
      BY <1>5, <2>1 DEF FallBackToFull, TypeOK, CallType
    <2>4. PageType'
      BY <1>5, <2>1 DEF FallBackToFull, TypeOK, PageType, Cause
    <2> QED
      BY <2>2, <2>3, <2>4 DEF TypeOK
  <1>6. ASSUME NEW r \in Reader, ReadLeaves(r)
       PROVE  TypeOK'
    <2>1. loads' \in [Reader -> Load]
      BY <1>6 DEF ReadLeaves, Load, TypeOK, CopyType, CallType
    <2>2. CopyType'
      BY <1>6, <2>1 DEF ReadLeaves, TypeOK, CopyType
    <2>3. CallType'
      BY <1>6, <2>1 DEF ReadLeaves, TypeOK, CallType
    <2>4. PageType'
      BY <1>6, <2>1 DEF ReadLeaves, TypeOK, PageType
    <2> QED
      BY <2>2, <2>3, <2>4 DEF TypeOK
  <1>7. ASSUME NEW r \in LoadReason, LoadSucceeds(r)
       PROVE  TypeOK'
    <2>1. loads[r].bytes \in Bytes
      BY <1>7 DEF LoadSucceeds, Load, TypeOK, CallType, Reader
    <2>2. loads' \in [Reader -> Load]
      BY <1>7, FinishType DEF LoadSucceeds, TypeOK, CallType, Reader
    <2>3. CopyType'
      BY <1>7, <2>1, <2>2 DEF LoadSucceeds, Push, TypeOK, CopyType
    <2>4. CallType'
      BY <1>7, <2>1, <2>2 DEF LoadSucceeds, Push, TypeOK, CallType
    <2>5. PageType'
      BY <1>7, <2>1, <2>2 DEF LoadSucceeds, Push, TypeOK, PageType
    <2> QED
      BY <2>3, <2>4, <2>5 DEF TypeOK
  <1>8. ASSUME NEW r \in LoadReason, LoadFails(r)
       PROVE  TypeOK'
    <2>1. loads' \in [Reader -> Load]
      BY <1>8, FinishType DEF LoadFails, TypeOK, CallType, Reader
    <2>2. current \in Bytes
      BY <1>8 DEF TypeOK, CopyType
    <2>3. CopyType'
      BY <1>8, BlankIsBytes, <2>1, <2>2 DEF LoadFails, Push, TypeOK, CopyType
    <2>4. CallType'
      BY <1>8, BlankIsBytes, <2>1, <2>2 DEF LoadFails, Push, TypeOK, CallType
    <2>5. PageType'
      BY <1>8, BlankIsBytes, <2>1, <2>2 DEF LoadFails, Push, TypeOK, PageType
    <2> QED
      BY <2>3, <2>4, <2>5 DEF TypeOK
  <1>9. ASSUME DropEvent
       PROVE  TypeOK'
    <2>1. CopyType'
      BY <1>9 DEF DropEvent, TypeOK, CopyType
    <2>2. CallType'
      BY <1>9 DEF DropEvent, TypeOK, CallType
    <2>3. PageType'
      BY <1>9 DEF DropEvent, TypeOK, PageType
    <2> QED
      BY <2>1, <2>2, <2>3 DEF TypeOK
  <1>10. ASSUME RaiseEvent
        PROVE  TypeOK'
    <2>1. loads' \in [Reader -> Load]
      BY <1>10, IssueType DEF RaiseEvent, TypeOK, CallType, Reader, How
    <2>2. CopyType'
      BY <1>10 DEF RaiseEvent, TypeOK, CopyType
    <2>3. CallType'
      BY <1>10, <2>1 DEF RaiseEvent, TypeOK, CallType
    <2>4. PageType'
      BY <1>10 DEF RaiseEvent, TypeOK, PageType, Cause
    <2> QED
      BY <2>2, <2>3, <2>4 DEF TypeOK
  <1>11. ASSUME CheckDisk
        PROVE  TypeOK'
    <2>1. loads' \in [Reader -> Load]
      BY <1>11, FinishType, FollowType DEF CheckDisk, TypeOK, CallType, Reader
    <2>2. CopyType'
      BY <1>11, <2>1 DEF CheckDisk, TypeOK, CopyType
    <2>3. CallType'
      BY <1>11, <2>1 DEF CheckDisk, TypeOK, CallType
    <2>4. PageType'
      BY <1>11, <2>1 DEF CheckDisk, TypeOK, PageType
    <2> QED
      BY <2>2, <2>3, <2>4 DEF TypeOK
  <1>12. ASSUME SuppressEnds
        PROVE  TypeOK'
    <2>1. CopyType'
      BY <1>12 DEF SuppressEnds, TypeOK, CopyType
    <2>2. CallType'
      BY <1>12 DEF SuppressEnds, TypeOK, CallType
    <2>3. PageType'
      BY <1>12 DEF SuppressEnds, TypeOK, PageType
    <2> QED
      BY <2>1, <2>2, <2>3 DEF TypeOK
  <1>13. ASSUME UpdateSession
        PROVE  TypeOK'
    <2>1. session' \in Session \union {None}
      BY <1>13 DEF UpdateSession, Session, Parse, TypeOK, CopyType, PageType
    <2>2. CopyType'
      BY <1>13, <2>1 DEF UpdateSession, TypeOK, CopyType
    <2>3. CallType'
      BY <1>13, <2>1 DEF UpdateSession, TypeOK, CallType
    <2>4. PageType'
      BY <1>13, <2>1 DEF UpdateSession, TypeOK, PageType
    <2> QED
      BY <2>2, <2>3, <2>4 DEF TypeOK
  <1>14. ASSUME DiscardBackup
        PROVE  TypeOK'
    <2>1. CopyType'
      BY <1>14 DEF DiscardBackup, TypeOK, CopyType
    <2>2. CallType'
      BY <1>14 DEF DiscardBackup, TypeOK, CallType
    <2>3. PageType'
      BY <1>14 DEF DiscardBackup, TypeOK, PageType
    <2> QED
      BY <2>1, <2>2, <2>3 DEF TypeOK
  <1>15. ASSUME CheckFails
         PROVE  TypeOK'
    <2>1. loads' \in [Reader -> Load]
      BY <1>15, FinishType DEF CheckFails, TypeOK, CallType, Reader
    <2>2. CopyType'
      BY <1>15 DEF CheckFails, TypeOK, CopyType
    <2>3. CallType'
      BY <1>15, <2>1 DEF CheckFails, TypeOK, CallType
    <2>4. PageType'
      BY <1>15 DEF CheckFails, TypeOK, PageType
    <2> QED
      BY <2>2, <2>3, <2>4 DEF TypeOK
  <1> QED
    BY <1>1, <1>2, <1>3, <1>4, <1>5, <1>6, <1>7, <1>8, <1>9, <1>10, <1>11, <1>12,
       <1>13, <1>14, <1>15
    DEF Background

LEMMA StutterType ==
  ASSUME TypeOK, UNCHANGED vars
  PROVE  TypeOK'
  <1> USE DEF vars, file, content, gates, tracked, page
  <1>1. CopyType'
    BY DEF TypeOK, CopyType
  <1>2. CallType' /\ PageType'
    BY DEF TypeOK, CallType, PageType
  <1> QED
    BY <1>1, <1>2 DEF TypeOK

LEMMA InitType == Init => TypeOK
  <1> SUFFICES ASSUME Init
               PROVE  TypeOK
    OBVIOUS
  <1>1. CopyType
    BY DocIsBytes, BlankIsBytes DEF Init, CopyType
  <1>2. CallType
    BY IdleType DEF Init, CallType
  <1>3. PageType
    BY EpochZero DEF Init, PageType, Cause
  <1> QED
    BY <1>1, <1>2, <1>3 DEF TypeOK

\* No step of any handler leaves the types: no load or save stores something
\* that is not a document's bytes, whatever path it takes.
THEOREM TypeCorrect == Spec => []TypeOK
  <1>1. TypeOK /\ [Next]_vars => TypeOK'
    BY ForegroundType, BackgroundType, StutterType DEF Next
  <1> QED
    BY InitType, <1>1, PTL DEF Spec

----------------------------------------------------------------------------
(* The dirty flag *)

\* Every handler that moves the text in memory or the text believed saved
\* brings the flag along.
LEMMA HonestStep ==
  ASSUME DirtyIsHonest, [Next]_vars
  PROVE  DirtyIsHonest'
  <1> USE DEF DirtyIsHonest, file, content, page
  <1>1. ASSUME NEW d \in Doc, NEW r \in TrackerReports(d), UpdateContent(d, r)
       PROVE  DirtyIsHonest'
    BY <1>1 DEF UpdateContent
  <1>2. ASSUME NEW safe \in BOOLEAN, BuildEditor(safe)
       PROVE  DirtyIsHonest'
    BY <1>2 DEF BuildEditor
  <1>3. ASSUME NEW c \in BOOLEAN, UpdateWebviewComposing(c)
       PROVE  DirtyIsHonest'
    BY <1>3 DEF UpdateWebviewComposing
  <1>4. ASSUME PostInit
       PROVE  DirtyIsHonest'
    BY <1>4 DEF PostInit
  <1>5. ASSUME NEW path \in {"B", "C"}, SetPendingFormatPath(path)
       PROVE  DirtyIsHonest'
    BY <1>5 DEF SetPendingFormatPath
  <1>6. ASSUME NEW force \in BOOLEAN, RequestSave(force)
       PROVE  DirtyIsHonest'
    BY <1>6 DEF RequestSave, Save
  <1>7. ASSUME Revert
       PROVE  DirtyIsHonest'
    BY <1>7 DEF Revert
  <1>8. ASSUME NEW d \in Doc, ExternalWrite(d)
       PROVE  DirtyIsHonest'
    BY <1>8 DEF ExternalWrite
  <1>9. ASSUME NEW reload \in BOOLEAN, AnswerPrompt(reload)
       PROVE  DirtyIsHonest'
    BY <1>9 DEF AnswerPrompt
  <1>10. ASSUME StoreBackup
        PROVE  DirtyIsHonest'
    BY <1>10 DEF StoreBackup
  <1>11. ASSUME Dispose
        PROVE  DirtyIsHonest'
    BY <1>11 DEF Dispose
  <1>12. ASSUME Restart
        PROVE  DirtyIsHonest'
    BY <1>12 DEF Restart
  <1>13. ASSUME TimerFires
        PROVE  DirtyIsHonest'
    BY <1>13 DEF TimerFires, Save
  <1>14. ASSUME WriteLands
        PROVE  DirtyIsHonest'
    BY <1>14 DEF WriteLands
  <1>15. ASSUME SaveSucceeds
        PROVE  DirtyIsHonest'
    BY <1>15 DEF SaveSucceeds, Confirmed, StillDirty
  <1>16. ASSUME SaveFails
        PROVE  DirtyIsHonest'
    BY <1>16 DEF SaveFails
  <1>17. ASSUME FallBackToFull
        PROVE  DirtyIsHonest'
    BY <1>17 DEF FallBackToFull
  <1>18. ASSUME NEW r \in Reader, ReadLeaves(r)
        PROVE  DirtyIsHonest'
    BY <1>18 DEF ReadLeaves
  <1>19. ASSUME NEW r \in LoadReason, LoadSucceeds(r)
        PROVE  DirtyIsHonest'
    BY <1>19 DEF LoadSucceeds
  <1>20. ASSUME NEW r \in LoadReason, LoadFails(r)
        PROVE  DirtyIsHonest'
    BY <1>20 DEF LoadFails
  <1>21. ASSUME DropEvent
        PROVE  DirtyIsHonest'
    BY <1>21 DEF DropEvent
  <1>22. ASSUME RaiseEvent
        PROVE  DirtyIsHonest'
    BY <1>22 DEF RaiseEvent
  <1>23. ASSUME CheckDisk
        PROVE  DirtyIsHonest'
    BY <1>23 DEF CheckDisk
  <1>24. ASSUME SuppressEnds
        PROVE  DirtyIsHonest'
    BY <1>24 DEF SuppressEnds
  <1>25. ASSUME UpdateSession
        PROVE  DirtyIsHonest'
    BY <1>25 DEF UpdateSession
  <1>26. ASSUME DiscardBackup
        PROVE  DirtyIsHonest'
    BY <1>26 DEF DiscardBackup
  <1>27. ASSUME UNCHANGED vars
        PROVE  DirtyIsHonest'
    BY <1>27 DEF vars
  <1>28. ASSUME CheckFails
        PROVE  DirtyIsHonest'
    BY <1>28 DEF CheckFails
  <1> QED
    BY <1>1, <1>2, <1>3, <1>4, <1>5, <1>6, <1>7, <1>8, <1>9, <1>10, <1>11,
       <1>12, <1>13, <1>14, <1>15, <1>16, <1>17, <1>18, <1>19, <1>20, <1>21,
       <1>22, <1>23, <1>24, <1>25, <1>26, <1>27, <1>28
    DEF Next, Foreground, Background

\* No interleaving of edits, saves, loads and closing makes the dirty flag lie, for
\* any documents and any environment. An edit typed while a save waits for the
\* file service stays dirty.
THEOREM DirtyAlwaysHonest == Spec => []DirtyIsHonest
  <1>1. Init => DirtyIsHonest
    BY DEF Init, DirtyIsHonest
  <1>2. DirtyIsHonest /\ [Next]_vars => DirtyIsHonest'
    BY HonestStep
  <1> QED
    BY <1>1, <1>2, PTL DEF Spec

----------------------------------------------------------------------------
(* The timer of unsaved text *)

\* A revert that is under way was asked for by the user.
RevertsAreAsked == loads["revert"].phase # "idle" => "revert" \in Env

ArmedInv == AutosaveArmed /\ RevertsAreAsked

\* A call that is issued or finished leaves the calls of other reasons alone.
LEMMA IssueElsewhere ==
  ASSUME TypeOK, NEW r \in Reader, NEW how, Issue(r, how)
  PROVE  /\ \A q \in Reader \ {r} : loads'[q] = loads[q]
         /\ loads'[r].phase = "issued"
  BY DEF Issue, TypeOK, CallType, Load

LEMMA FinishElsewhere ==
  ASSUME TypeOK, NEW r \in Reader, Finish(r)
  PROVE  /\ \A q \in Reader \ {r} : loads'[q] = loads[q]
         /\ loads'[r].phase = "idle"
  BY DEF Finish, Idle, TypeOK, CallType

\* save() cancels the timer, and either has nothing to save or leaves a save under
\* way.
LEMMA SaveKeepsArmedInv ==
  ASSUME TypeOK, ArmedInv, NEW force \in BOOLEAN, Save(force)
  PROVE  ArmedInv'
  <1> USE DEF ArmedInv, AutosaveArmed, RevertsAreAsked, file, content, gates
  <1>1. CASE NothingToSave(force) \/ saving
    BY <1>1 DEF Save, NothingToSave, saving
  <1>2. CASE ~(NothingToSave(force) \/ saving)
    <2>1. saving'
      BY <1>2, SaveIssuesWrite, NoCallAssumption DEF saving
    <2> QED
      BY <1>2, <2>1 DEF Save
  <1> QED
    BY <1>1, <1>2

\* Whoever disarms the timer of a dirty copy has a save or a revert under way, and
\* a save that ends arms it again. Only a revert that fails would not.
LEMMA ArmedStep ==
  ASSUME ~({"failure", "revert"} \subseteq Env), TypeOK, ArmedInv, [Next]_vars
  PROVE  ArmedInv'
  <1> USE DEF ArmedInv, AutosaveArmed, RevertsAreAsked, saving
  <1> USE DEF file, content, gates, tracked, page
  <1>1. ASSUME NEW d \in Doc, NEW r \in TrackerReports(d), UpdateContent(d, r)
       PROVE  ArmedInv'
    BY <1>1 DEF UpdateContent, ScheduleAutoSave
  <1>2. ASSUME NEW safe \in BOOLEAN, BuildEditor(safe)
       PROVE  ArmedInv'
    BY <1>2 DEF BuildEditor
  <1>3. ASSUME NEW c \in BOOLEAN, UpdateWebviewComposing(c)
       PROVE  ArmedInv'
    BY <1>3 DEF UpdateWebviewComposing, FlushAfterComposing, ScheduleAutoSave
  <1>4. ASSUME PostInit
       PROVE  ArmedInv'
    <2>1. loads'["revert"] = loads["revert"]
      BY <1>4, IssueElsewhere DEF PostInit, LoadReason, Reader
    <2> QED
      BY <1>4, <2>1 DEF PostInit
  <1>5. ASSUME NEW path \in {"B", "C"}, SetPendingFormatPath(path)
       PROVE  ArmedInv'
    BY <1>5 DEF SetPendingFormatPath
  <1>6. ASSUME NEW force \in BOOLEAN, RequestSave(force)
       PROVE  ArmedInv'
    BY <1>6, SaveKeepsArmedInv DEF RequestSave
  <1>7. ASSUME Revert
       PROVE  ArmedInv'
    <2>1. loads'["revert"].phase = "issued"
      BY <1>7, IssueElsewhere DEF Revert, LoadReason, Reader
    <2> QED
      BY <1>7, <2>1 DEF Revert
  <1>8. ASSUME NEW d \in Doc, ExternalWrite(d)
       PROVE  ArmedInv'
    BY <1>8 DEF ExternalWrite
  <1>9. ASSUME NEW reload \in BOOLEAN, AnswerPrompt(reload)
       PROVE  ArmedInv'
    <2>1. loads'["revert"] = loads["revert"]
      BY <1>9, IssueElsewhere DEF AnswerPrompt, LoadReason, Reader
    <2> QED
      BY <1>9, <2>1 DEF AnswerPrompt
  <1>10. ASSUME StoreBackup
        PROVE  ArmedInv'
    BY <1>10 DEF StoreBackup
  <1>11. ASSUME Dispose
        PROVE  ArmedInv'
    BY <1>11 DEF Dispose
  <1>12. ASSUME Restart
        PROVE  ArmedInv'
    BY <1>12 DEF Restart, Idle, LoadReason, Reader
  <1>13. ASSUME TimerFires
        PROVE  ArmedInv'
    <2>1. CASE composing
      BY <1>13, <2>1 DEF TimerFires
    <2>2. CASE ~composing
      BY <1>13, <2>2, SaveKeepsArmedInv DEF TimerFires
    <2> QED
      BY <2>1, <2>2
  <1>14. ASSUME WriteLands
        PROVE  ArmedInv'
    BY <1>14, WriteGoesOn, NoCallAssumption DEF WriteLands
  <1>15. ASSUME SaveSucceeds
        PROVE  ArmedInv'
    BY <1>15 DEF SaveSucceeds, StillDirty, Rearm
  <1>16. ASSUME SaveFails
        PROVE  ArmedInv'
    BY <1>16 DEF SaveFails, Rearm
  <1>17. ASSUME FallBackToFull
        PROVE  ArmedInv'
    BY <1>17, WriteGoesOn, NoCallAssumption DEF FallBackToFull
  <1>18. ASSUME NEW r \in Reader, ReadLeaves(r)
        PROVE  ArmedInv'
    <2>1. loads'["revert"].phase = "idle" <=> loads["revert"].phase = "idle"
      BY <1>18 DEF ReadLeaves, TypeOK, CallType, Load, LoadReason, Reader
    <2> QED
      BY <1>18, <2>1 DEF ReadLeaves
  <1>19. ASSUME NEW r \in LoadReason, LoadSucceeds(r)
        PROVE  ArmedInv'
    <2>1. loads'["revert"] = loads["revert"] \/ loads'["revert"].phase = "idle"
      BY <1>19, FinishElsewhere DEF LoadSucceeds, LoadReason, Reader
    <2> QED
      BY <1>19, <2>1 DEF LoadSucceeds
  <1>20. ASSUME NEW r \in LoadReason, LoadFails(r)
        PROVE  ArmedInv'
    <2>1. loads["revert"].phase = "idle"
      BY <1>20 DEF LoadFails
    <2>2. "revert" # r
      BY <1>20, <2>1 DEF LoadFails
    <2>3. loads'["revert"] = loads["revert"]
      BY <1>20, <2>2, FinishElsewhere DEF LoadFails, LoadReason, Reader
    <2> QED
      BY <1>20, <2>3 DEF LoadFails
  <1>21. ASSUME DropEvent
        PROVE  ArmedInv'
    BY <1>21 DEF DropEvent
  <1>22. ASSUME RaiseEvent
        PROVE  ArmedInv'
    <2>1. loads'["revert"] = loads["revert"]
      BY <1>22, IssueElsewhere DEF RaiseEvent, LoadReason, Reader
    <2> QED
      BY <1>22, <2>1 DEF RaiseEvent
  <1>23. ASSUME CheckDisk
        PROVE  ArmedInv'
    <2>1. loads'["revert"] = loads["revert"]
      BY <1>23, FinishElsewhere DEF CheckDisk, TypeOK, CallType, LoadReason, Reader
    <2> QED
      BY <1>23, <2>1 DEF CheckDisk
  <1>24. ASSUME SuppressEnds
        PROVE  ArmedInv'
    BY <1>24 DEF SuppressEnds
  <1>25. ASSUME UpdateSession
        PROVE  ArmedInv'
    BY <1>25 DEF UpdateSession
  <1>26. ASSUME DiscardBackup
        PROVE  ArmedInv'
    BY <1>26 DEF DiscardBackup
  <1>27. ASSUME UNCHANGED vars
        PROVE  ArmedInv'
    BY <1>27 DEF vars
  <1>28. ASSUME CheckFails
        PROVE  ArmedInv'
    <2>1. loads'["revert"] = loads["revert"]
      BY <1>28, FinishElsewhere DEF CheckFails, LoadReason, Reader
    <2> QED
      BY <1>28, <2>1 DEF CheckFails
  <1> QED
    BY <1>1, <1>2, <1>3, <1>4, <1>5, <1>6, <1>7, <1>8, <1>9, <1>10, <1>11,
       <1>12, <1>13, <1>14, <1>15, <1>16, <1>17, <1>18, <1>19, <1>20, <1>21,
       <1>22, <1>23, <1>24, <1>25, <1>26, <1>27, <1>28
    DEF Next, Foreground, Background

\* Unsaved text always has a timer, a save, a revert or an open composition that
\* will come back to it, unless a revert of the user can be rejected by the file
\* service: revert() cancels the timer and nothing arms it when load() throws.
THEOREM AutosaveAlwaysArmed ==
  ASSUME ~({"failure", "revert"} \subseteq Env)
  PROVE  Spec => []AutosaveArmed
  <1>1. Init => ArmedInv
    BY DEF Init, ArmedInv, AutosaveArmed, RevertsAreAsked, Idle, LoadReason, Reader
  <1>2. TypeOK /\ ArmedInv /\ [Next]_vars => ArmedInv'
    BY ArmedStep
  <1>3. ArmedInv => AutosaveArmed
    BY DEF ArmedInv
  <1> QED
    BY TypeCorrect, <1>1, <1>2, <1>3, PTL DEF Spec

----------------------------------------------------------------------------
(* Memory and file *)

\* Without the tracker no session ever reaches the copy, so that every save
\* writes the document it will declare saved.
FullSavesOnly ==
  /\ session = None /\ message = None
  /\ saving => write.path = "C" /\ write.bytes = write.snapshot

\* The handler of watcher events has one call at a time.
HandlerInv ==
  /\ loads["check"].phase # "idle" => ext = "checking"
  /\ loads["externalChange"].phase # "idle" => ext = "loading"

\* While nothing is booked in drift, the file is what a load has read, what a save
\* has written, and what the copy believes when neither is under way.
DiskIsKnown ==
  drift = {} =>
    /\ \A r \in LoadReason : loads[r].phase = "read" => loads[r].bytes = disk
    /\ Landed => write.bytes = disk
    /\ loaded /\ ~Held(LoadReason) /\ ~Landed => saved = disk

SavedInv == FullSavesOnly /\ HandlerInv /\ DiskIsKnown

\* Without a session the decision tree can only end in path C.
LEMMA NoSessionFullSave ==
  ASSUME NEW r, NEW o, NEW f, NEW d
  PROVE  /\ PickSavePath(None, r, o, f) = "C"
         /\ BytesFor("C", None, r, o, d) = d
  BY DEF PickSavePath, BytesFor

\* save() up to its await.
LEMMA SaveKeepsSavedInv ==
  ASSUME SavedInv, NEW force \in BOOLEAN, Save(force)
  PROVE  SavedInv'
  <1> USE DEF file, content, gates, tracked, page, SavedInv, FullSavesOnly
  <1> USE DEF HandlerInv, DiskIsKnown, Landed, Held, saving
  <1>1. session = None /\ message = None
    OBVIOUS
  <1>2. session' = None /\ message' = None
    BY <1>1 DEF Save
  <1>3. CASE NothingToSave(force) \/ saving
    BY <1>2, <1>3 DEF Save
  <1>4. CASE ~(NothingToSave(force) \/ saving)
    <2>1. write' = [snapshot |-> current, path |-> "C", applied |-> FALSE,
                    bytes |-> current]
      BY <1>1, <1>4, NoSessionFullSave DEF Save
    <2>2. ~saving
      BY <1>4
    <2> QED
      BY <1>2, <2>1, <2>2 DEF Save
  <1> QED
    BY <1>3, <1>4

\* A call that is issued or finished takes no bytes of another away.
LEMMA IssueHolds ==
  ASSUME TypeOK, NEW r \in Reader, NEW how, Issue(r, how), loads[r].phase = "idle"
  PROVE  /\ Held(LoadReason)' = Held(LoadReason)
         /\ \A q \in LoadReason : loads'[q].phase = "read" => loads'[q] = loads[q]
  <1>1. \A q \in Reader \ {r} : loads'[q] = loads[q]
    BY IssueElsewhere
  <1>2. loads'[r].phase = "issued"
    BY IssueElsewhere
  <1> QED
    BY <1>1, <1>2 DEF Held, Reader

LEMMA FinishHolds ==
  ASSUME TypeOK, NEW r \in Reader, Finish(r),
         r = "check" \/ loads[r].phase # "read"
  PROVE  /\ Held(LoadReason)' = Held(LoadReason)
         /\ \A q \in LoadReason : loads'[q].phase = "read" => loads'[q] = loads[q]
  <1>1. \A q \in Reader \ {r} : loads'[q] = loads[q]
    BY FinishElsewhere
  <1>2. loads'[r].phase = "idle"
    BY FinishElsewhere
  <1>3. "check" \notin LoadReason
    BY DEF LoadReason
  <1> QED
    BY <1>1, <1>2, <1>3 DEF Held, Reader

\* A step that moves neither file, copy nor save, and at most issues or gives up
\* calls, keeps what is known of the disk.
LEMMA HoldingKeepsKnown ==
  ASSUME DiskIsKnown, drift' = {} => drift = {},
         UNCHANGED <<disk, saved, loaded, write>>,
         Held(LoadReason)' = Held(LoadReason),
         \A q \in LoadReason : loads'[q].phase = "read" => loads'[q] = loads[q]
  PROVE  DiskIsKnown'
  BY DEF DiskIsKnown, Landed, saving

\* The file gives its bytes to a call.
LEMMA ReadKeepsKnown ==
  ASSUME TypeOK, DiskIsKnown, NEW r \in Reader, ReadLeaves(r)
  PROVE  DiskIsKnown'
  <1> USE DEF file, content
  <1>1. /\ UNCHANGED <<disk, saved, loaded, write>>
        /\ loads[r].phase = "issued"
        /\ \A q \in Reader \ {r} : loads'[q] = loads[q]
        /\ loads'[r].phase = "read" /\ loads'[r].bytes = disk
        /\ drift' = IF r = "check" \/ Held(LoadReason \ {r}) \/ Landed
                    THEN drift ELSE {}
    BY DEF ReadLeaves, TypeOK, CallType, Load
  <1>2. CASE r = "check"
    <2>1. \A q \in LoadReason : loads'[q] = loads[q]
      BY <1>1, <1>2 DEF LoadReason, Reader
    <2>2. Held(LoadReason)' = Held(LoadReason)
      BY <2>1 DEF Held
    <2> QED
      BY <1>1, <1>2, <2>1, <2>2, HoldingKeepsKnown
  <1>3. CASE r # "check"
    <2>1. r \in LoadReason
      BY <1>3 DEF Reader
    <2>2. Held(LoadReason)'
      BY <1>1, <2>1 DEF Held
    <2>3. Landed' = Landed
      BY <1>1 DEF Landed, saving
    <2>4. CASE Held(LoadReason \ {r}) \/ Landed
      <3>1. drift' = drift
        BY <1>1, <2>4
      <3> QED
        BY <1>1, <2>1, <2>2, <2>3, <3>1 DEF DiskIsKnown, Reader
    <2>5. CASE ~(Held(LoadReason \ {r}) \/ Landed)
      BY <1>1, <2>1, <2>2, <2>3, <2>5 DEF DiskIsKnown, Reader, Held
    <2> QED
      BY <2>4, <2>5
  <1> QED
    BY <1>2, <1>3

\* A load brings the copy to the file.
LEMMA LoadKeepsKnown ==
  ASSUME TypeOK, DiskIsKnown, NEW r \in LoadReason, LoadSucceeds(r)
  PROVE  DiskIsKnown'
  <1> USE DEF file, content
  <1>1. /\ UNCHANGED <<disk, write, drift>>
        /\ loads[r].phase = "read" /\ saved' = loads[r].bytes
        /\ Finish(r)
    BY DEF LoadSucceeds
  <1>2. /\ \A q \in Reader \ {r} : loads'[q] = loads[q]
        /\ loads'[r].phase = "idle"
    BY <1>1, FinishElsewhere DEF Reader
  <1> QED
    BY <1>1, <1>2 DEF DiskIsKnown, Landed, saving, Reader

\* The bytes of a save reach the file, over what loads have read or over nothing.
LEMMA LandingKeepsSavedInv ==
  ASSUME TypeOK, SavedInv, WriteLands
  PROVE  SavedInv'
  <1> USE DEF file, content, gates, tracked, page
  <1>1. write \in Write /\ write' \in Write
    BY WriteGoesOn DEF WriteLands, saving, TypeOK, CallType
  <1>2. /\ write'.applied /\ disk' = write.bytes
        /\ write'.path = write.path /\ write'.bytes = write.bytes
        /\ write'.snapshot = write.snapshot
        /\ UNCHANGED <<loads, ext, session, message, saved, loaded>>
    BY <1>1 DEF WriteLands, Write
  <1>3. saving /\ saving' /\ Landed'
    BY <1>1, <1>2, NoCallAssumption DEF WriteLands, saving, Landed
  <1>4. drift' = IF Held(LoadReason) THEN drift \union {"overlap"} ELSE {}
    BY DEF WriteLands
  <1>5. FullSavesOnly' /\ HandlerInv'
    BY <1>2, <1>3 DEF SavedInv, FullSavesOnly, HandlerInv
  <1>6. DiskIsKnown'
    <2>1. CASE Held(LoadReason)
      BY <1>4, <2>1 DEF DiskIsKnown
    <2>2. CASE ~Held(LoadReason)
      BY <1>2, <1>3, <2>2 DEF DiskIsKnown, Held
    <2> QED
      BY <2>1, <2>2
  <1> QED
    BY <1>5, <1>6 DEF SavedInv

\* A step of the handlers of the copy and of the page that only starts or gives up
\* calls of its own.
LEMMA CallsKeepSavedInv ==
  ASSUME TypeOK, SavedInv,
         \/ PostInit
         \/ Revert
         \/ \E reload \in BOOLEAN : AnswerPrompt(reload)
         \/ RaiseEvent \/ CheckDisk \/ CheckFails
         \/ \E r \in LoadReason : LoadFails(r)
  PROVE  SavedInv'
  <1> USE DEF file, content, gates, tracked, page
  <1>1. drift' = {} => drift = {}
    BY DEF PostInit, Revert, AnswerPrompt, RaiseEvent, CheckDisk, CheckFails,
           LoadFails
  <1>2. FullSavesOnly'
    BY DEF PostInit, Revert, AnswerPrompt, RaiseEvent, CheckDisk, CheckFails,
           LoadFails, SavedInv, FullSavesOnly, saving
  <1>3. UNCHANGED <<disk, saved, loaded, write>>
    BY DEF PostInit, Revert, AnswerPrompt, RaiseEvent, CheckDisk, CheckFails,
           LoadFails
  <1> DEFINE Quiet == /\ Held(LoadReason)' = Held(LoadReason)
                      /\ \A q \in LoadReason :
                           loads'[q].phase = "read" => loads'[q] = loads[q]
  <1>4. SUFFICES HandlerInv' /\ Quiet
    BY <1>1, <1>2, <1>3, HoldingKeepsKnown DEF SavedInv
  <1>5. HandlerInv
    BY DEF SavedInv
  <1>6. ASSUME UNCHANGED loads
        PROVE  Quiet
    BY <1>6 DEF Held
  <1> HIDE DEF Quiet
  <1>7. CASE PostInit
    <2>1. CASE UNCHANGED loads
      BY <1>5, <1>6, <1>7, <2>1 DEF PostInit, HandlerInv
    <2>2. CASE Issue("initial", "plain")
      <3>1. Quiet
        BY <1>7, <2>2, IssueHolds DEF PostInit, Quiet, Reader, LoadReason
      <3>2. /\ loads'["check"] = loads["check"]
            /\ loads'["externalChange"] = loads["externalChange"]
        BY <2>2, IssueElsewhere DEF Reader, LoadReason
      <3> QED
        BY <1>5, <1>7, <3>1, <3>2 DEF PostInit, HandlerInv
    <2> QED
      BY <1>7, <2>1, <2>2 DEF PostInit
  <1>8. CASE Revert
    <2>1. Quiet
      BY <1>8, IssueHolds DEF Revert, Quiet, Reader, LoadReason
    <2>2. /\ loads'["check"] = loads["check"]
          /\ loads'["externalChange"] = loads["externalChange"]
      BY <1>8, IssueElsewhere DEF Revert, Reader, LoadReason
    <2> QED
      BY <1>5, <1>8, <2>1, <2>2 DEF Revert, HandlerInv
  <1>9. ASSUME NEW reload \in BOOLEAN, AnswerPrompt(reload)
        PROVE  HandlerInv' /\ Quiet
    <2>1. loads["check"].phase = "idle" /\ loads["externalChange"].phase = "idle"
      BY <1>5, <1>9 DEF AnswerPrompt, HandlerInv
    <2>2. CASE reload
      <3>1. Issue("externalChange", "agreed") /\ ext' = "loading"
        BY <1>9, <2>2 DEF AnswerPrompt
      <3>2. Quiet
        BY <2>1, <3>1, IssueHolds DEF Quiet, Reader, LoadReason
      <3>3. loads'["check"] = loads["check"]
        BY <3>1, IssueElsewhere DEF Reader, LoadReason
      <3> QED
        BY <2>1, <3>1, <3>2, <3>3 DEF HandlerInv
    <2>3. CASE ~reload
      BY <1>6, <1>9, <2>1, <2>3 DEF AnswerPrompt, HandlerInv
    <2> QED
      BY <2>2, <2>3
  <1>10. CASE RaiseEvent
    <2>1. loads["check"].phase = "idle" /\ loads["externalChange"].phase = "idle"
      BY <1>5, <1>10 DEF RaiseEvent, HandlerInv
    <2>2. CASE dirty
      BY <1>6, <1>10, <2>1, <2>2 DEF RaiseEvent, HandlerInv
    <2>3. CASE ~dirty
      <3>1. Issue("check", "plain") /\ ext' = "checking"
        BY <1>10, <2>3 DEF RaiseEvent
      <3>2. Quiet
        BY <2>1, <3>1, IssueHolds DEF Quiet, Reader
      <3>3. loads'["externalChange"] = loads["externalChange"]
        BY <3>1, IssueElsewhere DEF Reader, LoadReason
      <3> QED
        BY <2>1, <3>1, <3>2, <3>3 DEF HandlerInv
    <2> QED
      BY <2>2, <2>3
  <1>11. CASE CheckDisk
    <2>1. loads["check"].phase = "read" /\ ext = "checking"
      BY <1>5, <1>11 DEF CheckDisk, HandlerInv
    <2>2. loads["externalChange"].phase = "idle"
      BY <1>5, <2>1 DEF HandlerInv
    <2>3. CASE Finish("check") /\ ext' = "idle"
      <3>1. Quiet
        BY <2>3, FinishHolds DEF Quiet, Reader
      <3>2. /\ loads'["check"].phase = "idle"
            /\ loads'["externalChange"] = loads["externalChange"]
        BY <2>3, FinishElsewhere DEF Reader, LoadReason
      <3> QED
        BY <2>2, <3>1, <3>2 DEF HandlerInv
    <2>4. CASE /\ ext' = "loading"
               /\ loads' = [loads EXCEPT !["check"] = Idle,
                              !["externalChange"] = [Idle EXCEPT !.phase = "issued"]]
      <3>1. /\ loads'["check"].phase = "idle"
            /\ loads'["externalChange"].phase = "issued"
            /\ loads'["initial"] = loads["initial"]
            /\ loads'["revert"] = loads["revert"]
        BY <2>4 DEF TypeOK, CallType, Reader, LoadReason, Idle
      <3>2. Quiet
        BY <2>2, <3>1 DEF Quiet, Held, LoadReason
      <3> QED
        BY <2>4, <3>1, <3>2 DEF HandlerInv
    <2> QED
      BY <1>11, <2>3, <2>4 DEF CheckDisk
  <1>12. CASE CheckFails
    <2>1. loads["check"].phase = "issued" /\ ext = "checking" /\ ext' = "idle"
      BY <1>5, <1>12 DEF CheckFails, HandlerInv
    <2>2. Quiet
      BY <1>12, FinishHolds DEF CheckFails, Quiet, Reader
    <2>3. /\ loads'["check"].phase = "idle"
          /\ loads'["externalChange"] = loads["externalChange"]
      BY <1>12, FinishElsewhere DEF CheckFails, Reader, LoadReason
    <2> QED
      BY <1>5, <2>1, <2>2, <2>3 DEF HandlerInv
  <1>13. ASSUME NEW r \in LoadReason, LoadFails(r)
         PROVE  HandlerInv' /\ Quiet
    <2>1. Finish(r) /\ loads[r].phase = "issued"
      BY <1>13 DEF LoadFails
    <2>2. Quiet
      BY <2>1, FinishHolds DEF Quiet, Reader
    <2>3. /\ \A q \in Reader \ {r} : loads'[q] = loads[q]
          /\ loads'[r].phase = "idle"
      BY <2>1, FinishElsewhere DEF Reader
    <2>4. HandlerInv'
      BY <1>5, <1>13, <2>1, <2>3 DEF LoadFails, HandlerInv, Reader, LoadReason
    <2> QED
      BY <2>2, <2>4
  <1> QED
    BY <1>7, <1>8, <1>9, <1>10, <1>11, <1>12, <1>13

\* The steps that move nothing a reader or a save holds.
LEMMA SavedStep ==
  ASSUME "tracker" \notin Env, TypeOK, SavedInv, [Next]_vars
  PROVE  SavedInv'
  <1> USE DEF SavedInv, FullSavesOnly, HandlerInv, DiskIsKnown, Landed, Held, saving
  <1> USE DEF file, content, gates, tracked, page
  <1>1. ASSUME NEW d \in Doc, NEW r \in TrackerReports(d), UpdateContent(d, r)
        PROVE  SavedInv'
    BY <1>1 DEF UpdateContent
  <1>2. ASSUME NEW safe \in BOOLEAN, BuildEditor(safe)
        PROVE  SavedInv'
    BY <1>2 DEF BuildEditor
  <1>3. ASSUME NEW c \in BOOLEAN, UpdateWebviewComposing(c)
        PROVE  SavedInv'
    BY <1>3 DEF UpdateWebviewComposing
  <1>4. ASSUME PostInit
        PROVE  SavedInv'
    BY <1>4, CallsKeepSavedInv
  <1>5. ASSUME NEW path \in {"B", "C"}, SetPendingFormatPath(path)
        PROVE  SavedInv'
    BY <1>5 DEF SetPendingFormatPath
  <1>6. ASSUME NEW force \in BOOLEAN, RequestSave(force)
        PROVE  SavedInv'
    BY <1>6, SaveKeepsSavedInv DEF RequestSave
  <1>7. ASSUME Revert
        PROVE  SavedInv'
    BY <1>7, CallsKeepSavedInv
  <1>8. ASSUME NEW d \in Doc, ExternalWrite(d)
        PROVE  SavedInv'
    BY <1>8 DEF ExternalWrite
  <1>9. ASSUME NEW reload \in BOOLEAN, AnswerPrompt(reload)
        PROVE  SavedInv'
    BY <1>9, CallsKeepSavedInv
  <1>10. ASSUME StoreBackup
        PROVE  SavedInv'
    BY <1>10 DEF StoreBackup
  <1>11. ASSUME Dispose
        PROVE  SavedInv'
    BY <1>11 DEF Dispose
  <1>12. ASSUME Restart
        PROVE  SavedInv'
    BY <1>12 DEF Restart, Idle, LoadReason, Reader
  <1>13. ASSUME TimerFires
        PROVE  SavedInv'
    <2>1. CASE composing
      BY <1>13, <2>1 DEF TimerFires
    <2>2. CASE ~composing
      BY <1>13, <2>2, SaveKeepsSavedInv DEF TimerFires
    <2> QED
      BY <2>1, <2>2
  <1>14. ASSUME WriteLands
        PROVE  SavedInv'
    BY <1>14, LandingKeepsSavedInv
  <1>15. ASSUME SaveSucceeds
        PROVE  SavedInv'
    BY <1>15 DEF SaveSucceeds, RefreshBaseline, Confirmed
  <1>16. ASSUME SaveFails
        PROVE  SavedInv'
    BY <1>16 DEF SaveFails
  <1>17. ASSUME FallBackToFull
        PROVE  SavedInv'
    BY <1>17 DEF FallBackToFull
  <1>18. ASSUME NEW r \in Reader, ReadLeaves(r)
        PROVE  SavedInv'
    <2>1. DiskIsKnown'
      BY <1>18, ReadKeepsKnown
    <2>2. loads'["check"].phase # "idle" <=> loads["check"].phase # "idle"
      BY <1>18 DEF ReadLeaves, TypeOK, CallType, Load, Reader
    <2>3. loads'["externalChange"].phase # "idle"
            <=> loads["externalChange"].phase # "idle"
      BY <1>18 DEF ReadLeaves, TypeOK, CallType, Load, Reader, LoadReason
    <2>4. FullSavesOnly' /\ HandlerInv'
      BY <1>18, <2>2, <2>3 DEF ReadLeaves
    <2> QED
      BY <2>1, <2>4
  <1>19. ASSUME NEW r \in LoadReason, LoadSucceeds(r)
        PROVE  SavedInv'
    <2>1. DiskIsKnown'
      BY <1>19, LoadKeepsKnown
    <2>2. /\ \A q \in Reader \ {r} : loads'[q] = loads[q]
          /\ loads'[r].phase = "idle"
      BY <1>19, FinishElsewhere DEF LoadSucceeds, Reader
    <2>3. HandlerInv'
      BY <1>19, <2>2 DEF LoadSucceeds, Reader, LoadReason
    <2>4. FullSavesOnly'
      BY <1>19 DEF LoadSucceeds
    <2> QED
      BY <2>1, <2>3, <2>4
  <1>20. ASSUME NEW r \in LoadReason, LoadFails(r)
        PROVE  SavedInv'
    BY <1>20, CallsKeepSavedInv
  <1>21. ASSUME DropEvent
        PROVE  SavedInv'
    BY <1>21 DEF DropEvent
  <1>22. ASSUME RaiseEvent
        PROVE  SavedInv'
    BY <1>22, CallsKeepSavedInv
  <1>23. ASSUME CheckDisk
        PROVE  SavedInv'
    BY <1>23, CallsKeepSavedInv
  <1>24. ASSUME SuppressEnds
        PROVE  SavedInv'
    BY <1>24 DEF SuppressEnds
  <1>25. ASSUME UpdateSession
        PROVE  SavedInv'
    BY <1>25 DEF UpdateSession
  <1>26. ASSUME DiscardBackup
        PROVE  SavedInv'
    BY <1>26 DEF DiscardBackup
  <1>27. ASSUME UNCHANGED vars
        PROVE  SavedInv'
    BY <1>27 DEF vars
  <1>28. ASSUME CheckFails
        PROVE  SavedInv'
    BY <1>28, CallsKeepSavedInv
  <1> QED
    BY <1>1, <1>2, <1>3, <1>4, <1>5, <1>6, <1>7, <1>8, <1>9, <1>10, <1>11,
       <1>12, <1>13, <1>14, <1>15, <1>16, <1>17, <1>18, <1>19, <1>20, <1>21,
       <1>22, <1>23, <1>24, <1>25, <1>26, <1>27, <1>28
    DEF Next, Foreground, Background

\* As shipped, without the tracker: between its calls, what a loaded copy believes
\* saved is what the file holds, after any number of edits, saves, loads and
\* failures, unless one of the three named causes is booked and the file has not
\* been read or written alone since.
THEOREM SavedIsAlwaysOnDisk ==
  ASSUME "tracker" \notin Env
  PROVE  Spec => []SavedIsOnDisk
  <1>1. Init => SavedInv
    BY DEF Init, SavedInv, FullSavesOnly, HandlerInv, DiskIsKnown, Landed, Idle,
           LoadReason, Reader, saving
  <1>2. TypeOK /\ SavedInv /\ [Next]_vars => SavedInv'
    BY SavedStep
  <1>3. SavedInv => SavedIsOnDisk
    BY DEF SavedInv, DiskIsKnown, SavedIsOnDisk, Landed
  <1> QED
    BY TypeCorrect, <1>1, <1>2, <1>3, PTL DEF Spec

----------------------------------------------------------------------------
(* The report of the tracker *)

\* No session without the tracker.
SessionsAreTracked == "tracker" \notin Env => session = None /\ message = None

\* The newest parse of the page is the one under way to the host, or the one the
\* host has.
ParseIsCurrent ==
  /\ message # None => message.parsed = base /\ message.epoch = epoch
  /\ session # None => session.epoch \in Nat /\ session.epoch <= epoch
  /\ session # None /\ message = None => base = session.parsed

\* The report names every block of the document that differs from the parse.
Describes(r, parsed) ==
  /\ r.ids \subseteq Present(current)
  /\ \A b \in Block :
       /\ r.contents[b] = IF b \in r.ids THEN current[b] ELSE Absent
       /\ b \in Present(current) /\ current[b] # parsed[b] => b \in r.ids

ReportIsCurrent ==
  session # None /\ report # None => Describes(report, session.parsed)

ReportInv == SessionsAreTracked /\ ParseIsCurrent /\ ReportIsCurrent

\* What the tracker reports describes the document against what it parsed.
LEMMA TrackerDescribes ==
  ASSUME "tracker" \in Env, base # None,
         NEW d \in Doc, NEW r \in TrackerReports(d), current' = d
  PROVE  /\ r.ids \subseteq Present(current')
         /\ \A b \in Block :
              /\ r.contents[b] = IF b \in r.ids THEN current'[b] ELSE Absent
              /\ b \in Present(current') /\ current'[b] # base[b] => b \in r.ids
  <1>1. PICK I \in SUBSET Present(d) :
          /\ Changed(d) \subseteq I
          /\ r = [ids |-> I, contents |-> [b \in Block |-> IF b \in I THEN d[b] ELSE Absent]]
    BY DEF TrackerReports
  <1> QED
    BY <1>1 DEF Changed, Present

LEMMA TrackerReportsSome ==
  ASSUME "tracker" \in Env, base # None,
         NEW d \in Doc, NEW r \in TrackerReports(d)
  PROVE  r # None
  <1>1. PICK I \in SUBSET Present(d) :
          r = [ids |-> I, contents |-> [b \in Block |-> IF b \in I THEN d[b] ELSE Absent]]
    BY DEF TrackerReports
  <1>2. I \subseteq Block
    BY DEF Present
  <1>3. [b \in Block |-> IF b \in I THEN d[b] ELSE Absent] \in Bytes
    BY DEF Doc, Bytes
  <1>4. r \in Report
    BY <1>1, <1>2, <1>3 DEF Report
  <1> QED
    BY <1>4, NoneAssumption

\* A new parse takes the report of the old one away, and until it has reached the
\* host the page reports nothing.
LEMMA ReportStep ==
  ASSUME "remount" \notin Env, TypeOK, ReportInv, [Next]_vars
  PROVE  ReportInv'
  <1> USE DEF ReportInv, SessionsAreTracked, ParseIsCurrent, ReportIsCurrent
  <1> USE DEF file, content, gates, tracked, page
  <1>1. ASSUME NEW d \in Doc, NEW r \in TrackerReports(d), UpdateContent(d, r)
       PROVE  ReportInv'
    <2>1. CASE session = None
      BY <1>1, <2>1 DEF UpdateContent
    <2>2. CASE session # None
      <3>1. /\ "tracker" \in Env /\ message = None /\ base # None
            /\ base = session.parsed
        BY <1>1, <2>2 DEF UpdateContent
      <3>2. r # None
        BY <3>1, TrackerReportsSome
      <3>3. report' = r /\ current' = d /\ UNCHANGED <<session, message, base, epoch>>
        BY <1>1, <3>2 DEF UpdateContent
      <3>4. Describes(report, session.parsed)'
        BY <3>1, <3>3, TrackerDescribes DEF Describes
      <3> QED
        BY <3>3, <3>4
    <2> QED
      BY <2>1, <2>2
  <1>2. ASSUME NEW safe \in BOOLEAN, BuildEditor(safe)
       PROVE  ReportInv'
    <2>1. message' # None
      BY <1>2, NoCallAssumption, MaxEpochAssumption
      DEF BuildEditor, Parse, TypeOK, PageType
    <2>2. message'.parsed = base' /\ message'.epoch = epoch'
      BY <1>2 DEF BuildEditor, Describes
    <2>3. session # None => session.epoch <= epoch'
      BY <1>2, MaxEpochAssumption DEF BuildEditor, TypeOK, PageType
    <2> QED
      BY <1>2, <2>1, <2>2, <2>3 DEF BuildEditor, Describes
  <1>3. ASSUME NEW c \in BOOLEAN, UpdateWebviewComposing(c)
       PROVE  ReportInv'
    BY <1>3 DEF UpdateWebviewComposing, Describes
  <1>4. ASSUME PostInit
       PROVE  ReportInv'
    BY <1>4 DEF PostInit, Describes
  <1>5. ASSUME NEW path \in {"B", "C"}, SetPendingFormatPath(path)
       PROVE  ReportInv'
    BY <1>5 DEF SetPendingFormatPath, Describes
  <1>6. ASSUME NEW force \in BOOLEAN, RequestSave(force)
       PROVE  ReportInv'
    BY <1>6 DEF RequestSave, Save, Describes
  <1>7. ASSUME Revert
       PROVE  ReportInv'
    BY <1>7 DEF Revert, Describes
  <1>8. ASSUME NEW d \in Doc, ExternalWrite(d)
       PROVE  ReportInv'
    BY <1>8 DEF ExternalWrite, Describes
  <1>9. ASSUME NEW reload \in BOOLEAN, AnswerPrompt(reload)
       PROVE  ReportInv'
    BY <1>9 DEF AnswerPrompt, Describes
  <1>10. ASSUME StoreBackup
        PROVE  ReportInv'
    BY <1>10 DEF StoreBackup, Describes
  <1>11. ASSUME Dispose
        PROVE  ReportInv'
    BY <1>11 DEF Dispose, Describes
  <1>12. ASSUME Restart
        PROVE  ReportInv'
    BY <1>12 DEF Restart, Describes
  <1>13. ASSUME TimerFires
        PROVE  ReportInv'
    BY <1>13 DEF TimerFires, Save, Describes
  <1>14. ASSUME WriteLands
        PROVE  ReportInv'
    BY <1>14 DEF WriteLands, Describes
  <1>15. ASSUME SaveSucceeds
        PROVE  ReportInv'
    <2>1. session' \in {session, None} /\ report' = None
      BY <1>15 DEF SaveSucceeds, RefreshBaseline
    <2> QED
      BY <1>15, <2>1 DEF SaveSucceeds
  <1>16. ASSUME SaveFails
        PROVE  ReportInv'
    BY <1>16 DEF SaveFails, Describes
  <1>17. ASSUME FallBackToFull
        PROVE  ReportInv'
    BY <1>17 DEF FallBackToFull, Describes
  <1>18. ASSUME NEW r \in Reader, ReadLeaves(r)
        PROVE  ReportInv'
    BY <1>18 DEF ReadLeaves, Describes
  <1>19. ASSUME NEW r \in LoadReason, LoadSucceeds(r)
        PROVE  ReportInv'
    BY <1>19 DEF LoadSucceeds, Describes
  <1>20. ASSUME NEW r \in LoadReason, LoadFails(r)
        PROVE  ReportInv'
    BY <1>20 DEF LoadFails, Describes
  <1>21. ASSUME DropEvent
        PROVE  ReportInv'
    BY <1>21 DEF DropEvent, Describes
  <1>22. ASSUME RaiseEvent
        PROVE  ReportInv'
    BY <1>22 DEF RaiseEvent, Describes
  <1>23. ASSUME CheckDisk
        PROVE  ReportInv'
    BY <1>23 DEF CheckDisk, Describes
  <1>24. ASSUME CheckFails
        PROVE  ReportInv'
    BY <1>24 DEF CheckFails, Describes
  <1>25. ASSUME SuppressEnds
        PROVE  ReportInv'
    BY <1>25 DEF SuppressEnds, Describes
  <1>26. ASSUME UpdateSession
        PROVE  ReportInv'
    <2>1. message.parsed = base /\ message.epoch = epoch /\ message \in Parse
      BY <1>26 DEF UpdateSession, TypeOK, PageType
    <2>2. ~(session # None /\ message.epoch < session.epoch)
      BY <1>26, <2>1, MaxEpochAssumption DEF TypeOK, PageType
    <2>3. /\ session' = [epoch |-> message.epoch, source |-> saved,
                         parsed |-> message.parsed, safe |-> message.safe]
          /\ report' = None /\ message' = None /\ UNCHANGED <<base, epoch>>
      BY <1>26, <2>2 DEF UpdateSession
    <2>4. session'.epoch = epoch' /\ session'.parsed = base' /\ epoch' \in Nat
      BY <2>1, <2>3, MaxEpochAssumption DEF Parse, TypeOK, PageType
    <2>5. "tracker" \in Env
      BY <1>26 DEF UpdateSession, Describes
    <2> QED
      BY <2>3, <2>4, <2>5
  <1>27. ASSUME DiscardBackup
        PROVE  ReportInv'
    BY <1>27 DEF DiscardBackup, Describes
  <1>28. ASSUME UNCHANGED vars
        PROVE  ReportInv'
    BY <1>28 DEF vars, Describes
  <1> QED
    BY <1>1, <1>2, <1>3, <1>4, <1>5, <1>6, <1>7, <1>8, <1>9, <1>10, <1>11,
       <1>12, <1>13, <1>14, <1>15, <1>16, <1>17, <1>18, <1>19, <1>20, <1>21,
       <1>22, <1>23, <1>24, <1>25, <1>26, <1>27, <1>28
    DEF Next, Foreground, Background

LEMMA ReportFits ==
  ASSUME ReportInv
  PROVE  ReportFitsSession
  <1> SUFFICES ASSUME session # None, report # None, NEW b \in Present(current)
               PROVE  current[b] = IF b \in report.ids THEN report.contents[b]
                                   ELSE session.parsed[b]
    BY DEF ReportFitsSession
  <1>1. Describes(report, session.parsed)
    BY DEF ReportInv, ReportIsCurrent
  <1>2. b \in Block
    BY DEF Present
  <1> QED
    BY <1>1, <1>2 DEF Describes

\* As long as the page is not loaded a second time: a report held beside a session
\* is the one of this session's parse, after any number of loads, saves, editors and
\* closing. updateSession() drops the report of the editor before.
THEOREM ReportAlwaysFits ==
  ASSUME "remount" \notin Env
  PROVE  Spec => []ReportFitsSession
  <1>1. Init => ReportInv
    BY DEF Init, ReportInv, SessionsAreTracked, ParseIsCurrent, ReportIsCurrent
  <1>2. TypeOK /\ ReportInv /\ [Next]_vars => ReportInv'
    BY ReportStep
  <1>3. ReportInv => ReportFitsSession
    BY ReportFits
  <1> QED
    BY TypeCorrect, <1>1, <1>2, <1>3, PTL DEF Spec

----------------------------------------------------------------------------
(* What a save writes, where the file is loaded once *)

\* No revert, no watcher that could make the copy load again, no second page, and no
\* save before the load.
LoadsOnce == Env \intersect {"revert", "watcher", "remount", "early"} = {}

\* The one load is the page's first question; before it is answered the copy is blank.
NoMoreLoads ==
  /\ ~watch /\ ext = "idle"
  /\ \A r \in Reader : loads[r].phase # "idle" => r = "initial" /\ ~ready

BeforeReady ==
  ~ready => /\ ~loaded /\ ~timer /\ ~saving
            /\ base = None /\ pushed = None /\ message = None
            /\ saved = Blank

\* Nothing was typed, and whatever is saved is the text that was loaded.
Unedited ==
  /\ current = saved /\ openedBytes \in {saved, None} /\ session = None
  /\ saving => write.path = "C" /\ write.bytes = saved /\ write.snapshot = saved

\* Until the host has the parse of the page's editor the copy is unedited, so the
\* text the host will give the session is the one the page has parsed.
ParseIsAwaited ==
  /\ base = None \/ message # None => Unedited
  /\ pushed # None => base = None /\ pushed = saved
  /\ message # None => message.parsed = saved

OnceInv ==
  /\ "tracker" \in Env => NoMoreLoads /\ BeforeReady /\ ParseIsAwaited
  /\ BaselineFits
  /\ SaveWritesSnapshot

\* Whatever path is taken, the bytes have every block of the document as it is.
LEMMA BytesAreSnapshot ==
  ASSUME BaselineFits, ReportIsCurrent, NEW f, NEW b \in Present(current)
  PROVE  BytesFor(PickSavePath(session, report, openedBytes, f),
                  session, report, openedBytes, current)[b] = current[b]
  <1> DEFINE path == PickSavePath(session, report, openedBytes, f)
  <1>1. b \in Block /\ current[b] # Absent
    BY DEF Present
  <1>2. CASE path = "C"
    BY <1>2 DEF BytesFor
  <1>3. CASE path = "A"
    <2>1. /\ session # None /\ report # None /\ report.ids = {}
          /\ openedBytes # None
      BY <1>3 DEF PickSavePath
    <2>2. openedBytes = session.parsed
      BY <2>1 DEF BaselineFits
    <2>3. current[b] = session.parsed[b]
      BY <1>1, <2>1 DEF ReportIsCurrent, Describes
    <2> QED
      BY <1>3, <2>2, <2>3 DEF BytesFor
  <1>4. CASE path = "B"
    <2>1. session # None /\ report # None /\ CanAssemble(session, report)
      BY <1>4 DEF PickSavePath
    <2>2. Describes(report, session.parsed)
      BY <2>1 DEF ReportIsCurrent
    <2>3. Slice(session, b) = session.parsed[b]
      BY <2>1 DEF BaselineFits, Slice
    <2>4. b \in Present(session.parsed)
      <3>1. CASE b \in report.ids
        BY <2>1, <3>1 DEF CanAssemble, AllDirtyKnown
      <3>2. CASE b \notin report.ids
        BY <1>1, <2>2, <3>2 DEF Describes, Present
      <3> QED
        BY <3>1, <3>2
    <2>5. AssembleIncremental(session, report)[b]
            = IF report.contents[b] # Absent THEN report.contents[b]
              ELSE session.parsed[b]
      BY <1>1, <2>3, <2>4 DEF AssembleIncremental
    <2>6. CASE b \in report.ids
      BY <1>1, <1>4, <2>2, <2>5, <2>6 DEF Describes, BytesFor
    <2>7. CASE b \notin report.ids
      BY <1>1, <1>4, <2>2, <2>5, <2>7 DEF Describes, BytesFor
    <2> QED
      BY <2>6, <2>7
  <1>5. path \in {"A", "B", "C"}
    BY DEF PickSavePath
  <1> QED
    BY <1>2, <1>3, <1>4, <1>5

\* save() up to its await, of a copy that was loaded or has a timer.
LEMMA SaveKeepsOnceInv ==
  ASSUME TypeOK, OnceInv, ReportInv, NEW force \in BOOLEAN, Save(force),
         "tracker" \in Env => ready
  PROVE  OnceInv'
  <1> USE DEF file, content, gates, tracked, page, OnceInv
  <1>1. /\ UNCHANGED <<session, openedBytes, current, saved, loads, watch, ext,
                       ready, base, pushed, message, loaded>>
        /\ ~timer'
    BY DEF Save
  <1>2. BaselineFits'
    BY <1>1 DEF BaselineFits
  <1>3. CASE NothingToSave(force) \/ saving
    <2>1. write' = write
      BY <1>3 DEF Save
    <2> QED
      BY <1>1, <1>2, <2>1
      DEF NoMoreLoads, BeforeReady, ParseIsAwaited, Unedited, SaveWritesSnapshot, saving
  <1>4. CASE ~(NothingToSave(force) \/ saving)
    <2> DEFINE path == PickSavePath(session, report, openedBytes, pendingForce)
               bytes == BytesFor(path, session, report, openedBytes, current)
    <2>1. /\ write'.snapshot = current /\ write'.path = path
          /\ write'.bytes = bytes
      BY <1>4 DEF Save
    <2>2. session = None => path = "C" /\ bytes = current
      BY NoSessionFullSave
    <2>3. \A b \in Present(current) : bytes[b] = current[b]
      BY BytesAreSnapshot DEF ReportInv
    <2> HIDE DEF path, bytes
    <2>4. SaveWritesSnapshot'
      BY <2>1, <2>3 DEF SaveWritesSnapshot
    <2>5. Unedited => Unedited'
      BY <1>1, <2>1, <2>2 DEF Unedited
    <2> QED
      BY <1>1, <1>2, <2>4, <2>5 DEF NoMoreLoads, BeforeReady, ParseIsAwaited
  <1> QED
    BY <1>3, <1>4

\* The first load fills a blank copy and shows it in the page.
LEMMA LoadKeepsOnceInv ==
  ASSUME TypeOK, OnceInv, SessionsAreTracked, "tracker" \in Env,
         NEW r \in LoadReason, LoadSucceeds(r) \/ LoadFails(r)
  PROVE  OnceInv'
  <1> USE DEF file, content, gates, tracked, page, OnceInv
  <1>1. loads[r].phase # "idle" /\ Finish(r)
    BY DEF LoadSucceeds, LoadFails
  <1>2. r = "initial" /\ ~ready
    BY <1>1 DEF NoMoreLoads, Reader
  <1>3. /\ \A q \in Reader \ {r} : loads'[q] = loads[q]
        /\ loads'[r].phase = "idle"
    BY <1>1, FinishElsewhere DEF Reader
  <1>4. /\ ~saving /\ ~loaded /\ base = None /\ saved = Blank
        /\ Unedited /\ message = None
    BY <1>2 DEF BeforeReady, ParseIsAwaited
  <1>5. ready' /\ UNCHANGED <<write, base, message, watch>> /\ ext' = "idle"
    BY <1>2 DEF LoadSucceeds, LoadFails, NoMoreLoads
  <1>6. NoMoreLoads'
    BY <1>2, <1>3, <1>5 DEF NoMoreLoads
  <1>7. BeforeReady' /\ SaveWritesSnapshot'
    BY <1>4, <1>5 DEF BeforeReady, SaveWritesSnapshot, saving
  <1>8. session' = None
    BY <1>4 DEF LoadSucceeds, LoadFails, Unedited
  <1>9. Unedited' /\ pushed' = saved'
    BY <1>2, <1>4, <1>5, <1>8
    DEF LoadSucceeds, LoadFails, Unedited, Push, saving
  <1> QED
    BY <1>4, <1>5, <1>6, <1>7, <1>8, <1>9 DEF ParseIsAwaited, BaselineFits

\* A save that ends leaves an unedited copy as it is, and otherwise keeps the session
\* only with the bytes it was made of.
LEMMA SaveEndKeepsOnceInv ==
  ASSUME TypeOK, OnceInv, SaveSucceeds
  PROVE  OnceInv'
  <1> USE DEF file, content, gates, tracked, page, OnceInv
  <1>1. /\ saving /\ saved' = write.snapshot /\ ~saving'
        /\ UNCHANGED <<current, loaded, loads, watch, ext, ready, base, pushed,
                       message>>
    BY DEF SaveSucceeds, Confirmed, saving
  <1>2. \/ UNCHANGED <<openedBytes, session>>
        \/ openedBytes' = write.bytes /\ session' = None
    BY DEF SaveSucceeds, RefreshBaseline
  <1>3. BaselineFits' /\ SaveWritesSnapshot'
    BY <1>1, <1>2 DEF BaselineFits, SaveWritesSnapshot
  <1>4. Unedited => Unedited' /\ saved' = saved
    BY <1>1, <1>2 DEF Unedited
  <1> QED
    BY <1>1, <1>3, <1>4 DEF NoMoreLoads, BeforeReady, ParseIsAwaited

\* The save writes a document in the end, or again.
LEMMA WritingKeepsOnceInv ==
  ASSUME LoadsOnce, TypeOK, OnceInv, WriteLands \/ SaveFails \/ FallBackToFull
  PROVE  OnceInv'
  <1> USE DEF file, content, gates, tracked, page, OnceInv
  <1>1. /\ UNCHANGED <<session, openedBytes, current, saved, loaded, loads, ext,
                       ready, base, pushed, message>>
        /\ saving
    BY DEF WriteLands, SaveFails, FallBackToFull
  <1>2. write \in Write
    BY <1>1 DEF saving, TypeOK, CallType
  <1>3. BaselineFits'
    BY <1>1 DEF BaselineFits
  <1>4. "tracker" \in Env => ready
    BY <1>1 DEF BeforeReady
  <1>5. BeforeReady' \/ "tracker" \notin Env
    BY <1>1, <1>4 DEF BeforeReady
  <1>6. \/ write' = None
        \/ /\ write'.snapshot = write.snapshot
           /\ \/ write'.path = write.path /\ write'.bytes = write.bytes
              \/ write'.path = "C" /\ write'.bytes = write.snapshot
    BY <1>2 DEF WriteLands, SaveFails, FallBackToFull, Write
  <1>9. watch' => watch
    BY DEF WriteLands, SaveFails, FallBackToFull, Reported, LoadsOnce
  <1>7. SaveWritesSnapshot'
    BY <1>1, <1>6 DEF SaveWritesSnapshot, saving
  <1>8. Unedited => Unedited'
    BY <1>1, <1>6 DEF Unedited, saving
  <1> QED
    BY <1>1, <1>3, <1>5, <1>7, <1>8, <1>9 DEF NoMoreLoads, ParseIsAwaited

\* With one load, every step of the page, of the user and of the file service.
LEMMA OnceStep ==
  ASSUME LoadsOnce, TypeOK, OnceInv, ReportInv, [Next]_vars
  PROVE  OnceInv'
  <1> USE DEF OnceInv, NoMoreLoads, BeforeReady, ParseIsAwaited, Unedited
  <1> USE DEF BaselineFits, SaveWritesSnapshot, saving, LoadsOnce
  <1> USE DEF file, content, gates, tracked, page
  <1>1. ASSUME NEW d \in Doc, NEW r \in TrackerReports(d), UpdateContent(d, r)
        PROVE  OnceInv'
    BY <1>1 DEF UpdateContent
  <1>2. ASSUME NEW safe \in BOOLEAN, BuildEditor(safe)
        PROVE  OnceInv'
    BY <1>2 DEF BuildEditor
  <1>3. ASSUME NEW c \in BOOLEAN, UpdateWebviewComposing(c)
        PROVE  OnceInv'
    BY <1>3 DEF UpdateWebviewComposing
  <1>4. ASSUME PostInit
        PROVE  OnceInv'
    <2>1. ~ready /\ UNCHANGED <<session, openedBytes, current, saved, write, timer>>
      BY <1>4 DEF PostInit
    <2>2. CASE "tracker" \notin Env
      BY <2>1, <2>2
    <2>3. CASE "tracker" \in Env
      <3>1. Issue("initial", "plain") /\ ~ready' /\ pushed' = pushed
        BY <1>4, <2>1, <2>3 DEF PostInit
      <3>2. \A q \in Reader \ {"initial"} : loads'[q] = loads[q]
        BY <3>1, IssueElsewhere DEF Reader, LoadReason
      <3> QED
        BY <1>4, <2>1, <2>3, <3>1, <3>2 DEF PostInit
    <2> QED
      BY <2>2, <2>3
  <1>5. ASSUME NEW path \in {"B", "C"}, SetPendingFormatPath(path)
        PROVE  OnceInv'
    BY <1>5 DEF SetPendingFormatPath
  <1>6. ASSUME NEW force \in BOOLEAN, RequestSave(force)
        PROVE  OnceInv'
    BY <1>6, SaveKeepsOnceInv DEF RequestSave
  <1>7. ASSUME Revert
        PROVE  OnceInv'
    BY <1>7 DEF Revert
  <1>8. ASSUME NEW d \in Doc, ExternalWrite(d)
        PROVE  OnceInv'
    BY <1>8 DEF ExternalWrite, Reported
  <1>9. ASSUME NEW reload \in BOOLEAN, AnswerPrompt(reload)
        PROVE  OnceInv'
    BY <1>9 DEF AnswerPrompt
  <1>10. ASSUME StoreBackup
        PROVE  OnceInv'
    BY <1>10 DEF StoreBackup
  <1>11. ASSUME Dispose
        PROVE  OnceInv'
    BY <1>11 DEF Dispose
  <1>12. ASSUME Restart
        PROVE  OnceInv'
    BY <1>12 DEF Restart, Idle, Reader
  <1>13. ASSUME TimerFires
        PROVE  OnceInv'
    <2>1. CASE composing
      BY <1>13, <2>1 DEF TimerFires
    <2>2. CASE ~composing
      BY <1>13, <2>2, SaveKeepsOnceInv DEF TimerFires
    <2> QED
      BY <2>1, <2>2
  <1>14. ASSUME WriteLands
        PROVE  OnceInv'
    BY <1>14, WritingKeepsOnceInv
  <1>15. ASSUME SaveSucceeds
        PROVE  OnceInv'
    BY <1>15, SaveEndKeepsOnceInv
  <1>16. ASSUME SaveFails
        PROVE  OnceInv'
    BY <1>16, WritingKeepsOnceInv DEF SaveFails
  <1>17. ASSUME FallBackToFull
        PROVE  OnceInv'
    BY <1>17, WritingKeepsOnceInv DEF FallBackToFull
  <1>18. ASSUME NEW r \in Reader, ReadLeaves(r)
        PROVE  OnceInv'
    <2>1. \A q \in Reader : loads'[q].phase # "idle" => loads[q].phase # "idle"
      BY <1>18 DEF ReadLeaves, TypeOK, CallType, Load
    <2> QED
      BY <1>18, <2>1 DEF ReadLeaves
  <1>19. ASSUME NEW r \in LoadReason, LoadSucceeds(r)
        PROVE  OnceInv'
    <2>1. CASE "tracker" \in Env
      BY <1>19, <2>1, LoadKeepsOnceInv DEF ReportInv
    <2>2. CASE "tracker" \notin Env
      <3>1. session = None /\ session' = None /\ write' = write
        BY <1>19, <2>2 DEF LoadSucceeds, ReportInv, SessionsAreTracked
      <3> QED
        BY <2>2, <3>1
    <2> QED
      BY <2>1, <2>2
  <1>20. ASSUME NEW r \in LoadReason, LoadFails(r)
        PROVE  OnceInv'
    <2>1. CASE "tracker" \in Env
      BY <1>20, <2>1, LoadKeepsOnceInv DEF ReportInv
    <2>2. CASE "tracker" \notin Env
      <3>1. session = None /\ session' = None /\ write' = write
        BY <1>20, <2>2 DEF LoadFails, ReportInv, SessionsAreTracked
      <3> QED
        BY <2>2, <3>1
    <2> QED
      BY <2>1, <2>2
  <1>21. ASSUME DropEvent
        PROVE  OnceInv'
    BY <1>21 DEF DropEvent
  <1>22. ASSUME RaiseEvent
        PROVE  OnceInv'
    BY <1>22 DEF RaiseEvent
  <1>23. ASSUME CheckDisk
        PROVE  OnceInv'
    <2>1. "tracker" \notin Env
      BY <1>23 DEF CheckDisk, Reader
    <2> QED
      BY <1>23, <2>1 DEF CheckDisk
  <1>24. ASSUME SuppressEnds
        PROVE  OnceInv'
    BY <1>24 DEF SuppressEnds
  <1>25. ASSUME UpdateSession
        PROVE  OnceInv'
    <2>1. "tracker" \in Env
      BY <1>25 DEF UpdateSession, ReportInv, SessionsAreTracked
    <2>2. Unedited /\ message.parsed = saved /\ session = None
      BY <1>25, <2>1 DEF UpdateSession
    <2>3. session'.source = saved /\ session'.parsed = saved
      BY <1>25, <2>2 DEF UpdateSession
    <2>4. base # None
      BY <1>25, NoneAssumption
      DEF UpdateSession, ReportInv, ParseIsCurrent, TypeOK, PageType, Parse
    <2> QED
      BY <1>25, <2>1, <2>2, <2>3, <2>4 DEF UpdateSession
  <1>26. ASSUME DiscardBackup
        PROVE  OnceInv'
    BY <1>26 DEF DiscardBackup
  <1>27. ASSUME UNCHANGED vars
        PROVE  OnceInv'
    BY <1>27 DEF vars
  <1>28. ASSUME CheckFails
        PROVE  OnceInv'
    <2>1. "tracker" \notin Env
      BY <1>28 DEF CheckFails, Reader
    <2> QED
      BY <1>28, <2>1 DEF CheckFails
  <1> QED
    BY <1>1, <1>2, <1>3, <1>4, <1>5, <1>6, <1>7, <1>8, <1>9, <1>10, <1>11,
       <1>12, <1>13, <1>14, <1>15, <1>16, <1>17, <1>18, <1>19, <1>20, <1>21,
       <1>22, <1>23, <1>24, <1>25, <1>26, <1>27, <1>28
    DEF Next, Foreground, Background

LEMMA OnceHolds ==
  ASSUME LoadsOnce
  PROVE  Spec => [](BaselineFits /\ SaveWritesSnapshot)
  <1>1. Init => ReportInv
    BY DEF Init, ReportInv, SessionsAreTracked, ParseIsCurrent, ReportIsCurrent
  <1>2. TypeOK /\ ReportInv /\ [Next]_vars => ReportInv'
    BY ReportStep DEF LoadsOnce
  <1>3. Init => OnceInv
    BY DEF Init, OnceInv, NoMoreLoads, BeforeReady, ParseIsAwaited, Unedited,
           BaselineFits, SaveWritesSnapshot, Idle, Reader, saving
  <1>4. TypeOK /\ ReportInv /\ OnceInv /\ [Next]_vars => OnceInv'
    BY OnceStep
  <1>5. OnceInv => BaselineFits /\ SaveWritesSnapshot
    BY DEF OnceInv
  <1> QED
    BY TypeCorrect, <1>1, <1>2, <1>3, <1>4, <1>5, PTL DEF Spec

\* Where the file is loaded once, and through edits, failed and overlapping saves,
\* restarts and closing: the session, the source its ranges are applied to and the
\* opened bytes are of one text. A save that changes the file drops the session.
THEOREM BaselineAlwaysFits ==
  ASSUME LoadsOnce
  PROVE  Spec => []BaselineFits
  BY OnceHolds, PTL

\* Where the file is loaded once: whichever of the three paths a save takes, every
\* block of its snapshot is in its bytes as it was in memory, whatever mix of blocks
\* the report names and also when the write of path B was rejected.
THEOREM SavesWriteSnapshot ==
  ASSUME LoadsOnce
  PROVE  Spec => []SaveWritesSnapshot
  BY OnceHolds, PTL

=============================================================================

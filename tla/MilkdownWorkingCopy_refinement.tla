------------------- MODULE MilkdownWorkingCopy_refinement -------------------
(***************************************************************************)
(* The working copy without the tracker implements Document, for any set   *)
(* of blocks and texts and whatever happens around it.                     *)
(*                                                                         *)
(* Every step of the copy is a step of the document or one it does not     *)
(* see. Two facts of the copy are needed: a save writes one text as a      *)
(* whole, and the handler of watcher events has one call at a time.        *)
(***************************************************************************)
EXTENDS MilkdownWorkingCopy_proofs

----------------------------------------------------------------------------
(* What loads have read *)

\* A call that begins has read nothing.
LEMMA IssueFetches ==
  ASSUME TypeOK, NEW r \in Reader, NEW how, Issue(r, how),
         loads[r].phase = "idle"
  PROVE  Fetched' = Fetched
<1>1. /\ loads'[r].phase = "issued"
      /\ \A q \in Reader \ {r} : loads'[q] = loads[q]
  BY IssueElsewhere
<1> QED BY <1>1 DEF Fetched, Reader

\* A call that ends has nothing left to give.
LEMMA FinishFetches ==
  ASSUME TypeOK, NEW r \in Reader, Finish(r)
  PROVE  /\ Fetched' \subseteq Fetched
         /\ r = "check" \/ loads[r].phase # "read" => Fetched' = Fetched
<1>1. /\ loads'[r].phase = "idle"
      /\ \A q \in Reader \ {r} : loads'[q] = loads[q]
  BY FinishElsewhere
<1>2. "check" \notin LoadReason
  BY DEF LoadReason
<1> QED BY <1>1, <1>2 DEF Fetched, Reader

\* A read finds what the file holds; a look at the file keeps it for itself.
LEMMA ReadFetches ==
  ASSUME TypeOK, NEW r \in Reader, ReadLeaves(r)
  PROVE  Fetched' = IF r = "check" THEN Fetched ELSE Fetched \union {disk}
<1>1. /\ loads'[r].phase = "read" /\ loads'[r].bytes = disk
      /\ \A q \in Reader \ {r} : loads'[q] = loads[q]
      /\ loads[r].phase # "read"
  BY DEF ReadLeaves, TypeOK, CallType, Load
<1>2. "check" \notin LoadReason
  BY DEF LoadReason
<1>3. CASE r = "check"
  BY <1>1, <1>2, <1>3 DEF Fetched, Reader
<1>4. CASE r # "check"
  <2>1. r \in LoadReason /\ Fetched' = Fetched \union {loads'[r].bytes}
    BY <1>1, <1>4 DEF Fetched, Reader
  <2> QED BY <1>1, <1>4, <2>1
<1> QED BY <1>3, <1>4

----------------------------------------------------------------------------
(* The steps *)

\* What the document sees of the save in flight.
LEMMA WritingSeen ==
  ASSUME TypeOK
  PROVE  /\ saving => /\ Writing = [text |-> write.snapshot, landed |-> write.applied]
                      /\ Writing # None
         /\ ~saving => Writing = None
<1>1. saving => write \in Write
  BY DEF TypeOK, CallType, saving
<1>2. write \in Write
        => [text |-> write.snapshot, landed |-> write.applied] \in Document!Save
  BY DEF Write, Document!Save
<1> QED BY <1>1, <1>2, NothingAssumption DEF Writing

\* Steps that move nothing the document has.
LEMMA Unseen ==
  ASSUME UNCHANGED <<disk, current, saved, dirty, write, loads>>
  PROVE  UNCHANGED Document!vars
BY DEF Document!vars, Fetched, Writing, saving

\* A load that begins is not seen before it has read.
LEMMA IssueRefines ==
  ASSUME TypeOK, NEW r \in Reader, NEW how, Issue(r, how),
         loads[r].phase = "idle", UNCHANGED <<disk, current, saved, dirty, write>>
  PROVE  UNCHANGED Document!vars
BY IssueFetches DEF Document!vars, Writing, saving

LEMMA EditRefines ==
  ASSUME NEW d \in Doc, NEW r \in TrackerReports(d), UpdateContent(d, r)
  PROVE  Document!Edit
<1> USE DEF file, content, gates, tracked, page
<1>1. d \in Bytes
  BY DocIsBytes
<1> QED BY <1>1 DEF UpdateContent, Document!Edit, Fetched, Writing, saving

\* save() up to its await begins a save of the text, or nothing at all.
LEMMA SaveRefines ==
  ASSUME TypeOK, TypeOK', FullSavesOnly, NEW force \in BOOLEAN, Save(force)
  PROVE  Document!Begin \/ UNCHANGED Document!vars
<1> USE DEF file, content, gates, tracked, page
<1>1. CASE NothingToSave(force) \/ saving
  BY <1>1, Unseen DEF Save
<1>2. CASE ~(NothingToSave(force) \/ saving)
  <2>1. write' = [snapshot |-> current, path |-> "C", applied |-> FALSE,
                  bytes |-> current]
    BY <1>2, NoSessionFullSave DEF Save, FullSavesOnly
  <2>2. write' # None
    <3>1. current \in Bytes
      BY DEF TypeOK, CopyType
    <3>2. write' \in Write
      BY <2>1, <3>1 DEF Write
    <3> QED BY <3>2, NoCallAssumption
  <2>3. Writing = None /\ Writing' = [text |-> current, landed |-> FALSE]
    BY <1>2, <2>1, <2>2 DEF Writing, saving
  <2>4. UNCHANGED <<disk, current, saved, dirty, Fetched>>
    BY DEF Save, Fetched
  <2> QED BY <2>3, <2>4 DEF Document!Begin
<1> QED BY <1>1, <1>2

LEMMA LandRefines ==
  ASSUME TypeOK, TypeOK', FullSavesOnly, WriteLands
  PROVE  Document!Land
<1> USE DEF file, content, gates, tracked, page
<1>1. saving /\ write \in Write /\ write' \in Write
  BY WriteGoesOn DEF WriteLands, TypeOK, CallType, saving
<1>2. write'.snapshot = write.snapshot /\ write'.applied = TRUE
  BY <1>1 DEF WriteLands, Write
<1>3. write' # None
  BY <1>1, NoCallAssumption
<1>4. /\ Writing = [text |-> write.snapshot, landed |-> write.applied] /\ Writing # None
      /\ Writing' = [text |-> write.snapshot, landed |-> TRUE]
  BY <1>1, <1>2, <1>3, WritingSeen DEF Writing, saving
<1>5. disk' = write.snapshot
  BY <1>1 DEF WriteLands, FullSavesOnly
<1>6. UNCHANGED <<current, saved, dirty, Fetched>>
  BY DEF WriteLands, Fetched
<1>7. disk' = Writing.text /\ Writing' = [text |-> Writing.text, landed |-> TRUE]
  BY <1>4, <1>5
<1> QED BY <1>4, <1>6, <1>7 DEF Document!Land

LEMMA ConfirmRefines ==
  ASSUME TypeOK, SaveSucceeds
  PROVE  Document!Confirm
<1> USE DEF file, content, gates, tracked, page
<1>1. saving /\ write.applied
  BY DEF SaveSucceeds
<1>2. /\ Writing = [text |-> write.snapshot, landed |-> write.applied] /\ Writing # None
      /\ Writing' = None
  BY <1>1, WritingSeen DEF SaveSucceeds, Writing, saving
<1>3. saved' = write.snapshot /\ dirty' = (current # write.snapshot)
  BY DEF SaveSucceeds, Confirmed, StillDirty
<1>4. UNCHANGED <<disk, current, Fetched>>
  BY DEF SaveSucceeds, Fetched
<1> QED BY <1>1, <1>2, <1>3, <1>4 DEF Document!Confirm

LEMMA GiveUpRefines ==
  ASSUME TypeOK, SaveFails
  PROVE  Document!GiveUp
<1> USE DEF file, content, gates, tracked, page
<1>1. Writing # None /\ Writing' = None
  BY WritingSeen DEF SaveFails, Writing, saving
<1>2. UNCHANGED <<disk, current, saved, dirty, Fetched>>
  BY DEF SaveFails, Fetched
<1> QED BY <1>1, <1>2 DEF Document!GiveUp

LEMMA ReadRefines ==
  ASSUME TypeOK, NEW r \in Reader, ReadLeaves(r)
  PROVE  Document!Read \/ UNCHANGED Document!vars
<1> USE DEF file, content, gates, tracked, page
<1>1. UNCHANGED <<disk, current, saved, dirty, Writing>>
  BY DEF ReadLeaves, Writing, saving
<1> QED BY <1>1, ReadFetches DEF Document!Read, Document!vars

\* What a load brings was read from the file.
LEMMA FollowRefines ==
  ASSUME TypeOK, NEW r \in LoadReason, LoadSucceeds(r)
  PROVE  Document!Follow
<1> USE DEF file, content, gates, tracked, page
<1>1. loads[r].bytes \in Fetched
  BY DEF LoadSucceeds, Fetched
<1>2. Fetched' \subseteq Fetched
  BY FinishFetches DEF LoadSucceeds, Reader
<1>3. UNCHANGED <<disk, Writing>>
  BY DEF LoadSucceeds, Writing, saving
<1>4. current' = loads[r].bytes /\ saved' = loads[r].bytes /\ dirty' = FALSE
  BY DEF LoadSucceeds
<1> QED BY <1>1, <1>2, <1>3, <1>4 DEF Document!Follow

LEMMA LoadFailsRefines ==
  ASSUME TypeOK, NEW r \in LoadReason, LoadFails(r)
  PROVE  UNCHANGED Document!vars
<1> USE DEF file, content, gates, tracked, page
<1>1. Fetched' = Fetched
  BY FinishFetches DEF LoadFails, Reader
<1>2. UNCHANGED <<disk, current, saved, dirty, Writing>>
  BY DEF LoadFails, Writing, saving
<1> QED BY <1>1, <1>2 DEF Document!vars

LEMMA ForeignRefines ==
  ASSUME NEW d \in Doc, ExternalWrite(d)
  PROVE  Document!Foreign
<1> USE DEF file, content, gates, tracked, page
<1>1. d \in Bytes
  BY DocIsBytes
<1> QED BY <1>1 DEF ExternalWrite, Document!Foreign, Fetched, Writing, saving

LEMMA RestartRefines ==
  ASSUME Restart
  PROVE  Document!Restart
<1>1. Writing' = None
  BY DEF Restart, Writing, saving
<1>2. Fetched' = {}
  BY DEF Restart, Fetched, Idle, Reader
<1> QED BY <1>1, <1>2 DEF Restart, Document!Restart, Document!Started

----------------------------------------------------------------------------
(* The theorem *)

\* Every step of the copy is one of the document, or none.
LEMMA StepRefines ==
  ASSUME "tracker" \notin Env, TypeOK, TypeOK', SavedInv, [Next]_vars
  PROVE  [Document!Next]_(Document!vars)
<1> USE DEF SavedInv, file, content, gates, tracked, page
<1>1. ASSUME NEW d \in Doc, NEW r \in TrackerReports(d), UpdateContent(d, r)
      PROVE  Document!Next
  BY <1>1, EditRefines DEF Document!Next
<1>2. ASSUME NEW force \in BOOLEAN, RequestSave(force)
      PROVE  [Document!Next]_(Document!vars)
  BY <1>2, SaveRefines DEF RequestSave, Document!Next
<1>3. ASSUME TimerFires
      PROVE  [Document!Next]_(Document!vars)
  <2>1. CASE composing
    BY <1>3, <2>1, Unseen DEF TimerFires
  <2>2. CASE ~composing
    BY <1>3, <2>2, SaveRefines DEF TimerFires, Document!Next
  <2> QED BY <2>1, <2>2
<1>4. CASE WriteLands
  BY <1>4, LandRefines DEF Document!Next
<1>5. CASE SaveSucceeds
  BY <1>5, ConfirmRefines DEF Document!Next
<1>6. CASE SaveFails
  BY <1>6, GiveUpRefines DEF Document!Next
<1>7. CASE FallBackToFull
  BY <1>7 DEF FallBackToFull, FullSavesOnly
<1>8. ASSUME NEW r \in Reader, ReadLeaves(r)
      PROVE  [Document!Next]_(Document!vars)
  BY <1>8, ReadRefines DEF Document!Next
<1>9. ASSUME NEW r \in LoadReason, LoadSucceeds(r)
      PROVE  Document!Next
  BY <1>9, FollowRefines DEF Document!Next
<1>10. ASSUME NEW r \in LoadReason, LoadFails(r)
       PROVE  UNCHANGED Document!vars
  BY <1>10, LoadFailsRefines
<1>11. ASSUME NEW d \in Doc, ExternalWrite(d)
       PROVE  Document!Next
  BY <1>11, ForeignRefines DEF Document!Next
<1>12. CASE Restart
  BY <1>12, RestartRefines DEF Document!Next
<1>13. ASSUME PostInit
       PROVE  UNCHANGED Document!vars
  <2>1. CASE loaded /\ dirty
    BY <1>13, <2>1, Unseen DEF PostInit
  <2>2. CASE ~(loaded /\ dirty)
    BY <1>13, <2>2, IssueRefines DEF PostInit, LoadReason, Reader
  <2> QED BY <2>1, <2>2
<1>14. ASSUME Revert
       PROVE  UNCHANGED Document!vars
  BY <1>14, IssueRefines DEF Revert, LoadReason, Reader
<1>15. ASSUME CheckDisk
       PROVE  UNCHANGED Document!vars
  <2>1. UNCHANGED <<disk, current, saved, dirty, write>>
    BY <1>15 DEF CheckDisk
  <2>2. CASE Finish("check")
    <3>1. Fetched' = Fetched
      BY <2>2, FinishFetches DEF Reader
    <3> QED BY <2>1, <3>1 DEF Document!vars, Writing, saving
  <2>3. CASE loads' = [loads EXCEPT !["check"] = Idle,
                         !["externalChange"] = [Idle EXCEPT !.phase = "issued"]]
    <3>1. loads["externalChange"].phase = "idle"
      BY <1>15 DEF CheckDisk, HandlerInv
    <3>2. /\ loads'["initial"] = loads["initial"]
          /\ loads'["revert"] = loads["revert"]
          /\ loads'["externalChange"].phase = "issued"
      BY <2>3 DEF TypeOK, CallType, Idle, Reader, LoadReason
    <3>3. Fetched' = Fetched
      BY <3>1, <3>2 DEF Fetched, LoadReason
    <3> QED BY <2>1, <3>3 DEF Document!vars, Writing, saving
  <2> QED BY <1>15, <2>2, <2>3 DEF CheckDisk
<1>16. ASSUME NEW reload \in BOOLEAN, AnswerPrompt(reload)
       PROVE  UNCHANGED Document!vars
  <2>1. CASE ~reload
    BY <1>16, <2>1, Unseen DEF AnswerPrompt
  <2>2. CASE reload
    <3>1. loads["externalChange"].phase = "idle"
      BY <1>16 DEF AnswerPrompt, HandlerInv
    <3> QED BY <1>16, <2>2, <3>1, IssueRefines DEF AnswerPrompt, LoadReason, Reader
  <2> QED BY <2>1, <2>2
<1>17. ASSUME NEW safe \in BOOLEAN, BuildEditor(safe)
       PROVE  UNCHANGED Document!vars
  BY <1>17, Unseen DEF BuildEditor
<1>18. ASSUME NEW c \in BOOLEAN, UpdateWebviewComposing(c)
       PROVE  UNCHANGED Document!vars
  <2>1. UNCHANGED <<disk, current, saved, dirty, write, loads>>
    BY <1>18 DEF UpdateWebviewComposing
  <2> QED BY <2>1, Unseen
<1>19. ASSUME NEW path \in {"B", "C"}, SetPendingFormatPath(path)
       PROVE  UNCHANGED Document!vars
  <2>1. UNCHANGED <<disk, current, saved, dirty, write, loads>>
    BY <1>19 DEF SetPendingFormatPath
  <2> QED BY <2>1, Unseen
<1>20. ASSUME StoreBackup \/ DiscardBackup \/ Dispose \/ UpdateSession
       PROVE  UNCHANGED Document!vars
  BY <1>20, Unseen DEF StoreBackup, DiscardBackup, Dispose, UpdateSession
<1>21. ASSUME RaiseEvent
       PROVE  UNCHANGED Document!vars
  <2>1. CASE dirty
    BY <1>21, <2>1, Unseen DEF RaiseEvent
  <2>2. CASE ~dirty
    <3>1. loads["check"].phase = "idle"
      BY <1>21 DEF RaiseEvent, HandlerInv
    <3> QED BY <1>21, <2>2, <3>1, IssueRefines DEF RaiseEvent, Reader
  <2> QED BY <2>1, <2>2
<1>22. ASSUME CheckFails
       PROVE  UNCHANGED Document!vars
  <2>1. Fetched' = Fetched
    BY <1>22, FinishFetches DEF CheckFails, Reader
  <2> QED BY <1>22, <2>1 DEF CheckFails, Document!vars, Writing, saving
<1>23. ASSUME DropEvent \/ SuppressEnds \/ UNCHANGED vars
       PROVE  UNCHANGED Document!vars
  BY <1>23, Unseen DEF DropEvent, SuppressEnds, vars
<1> QED
  BY <1>1, <1>2, <1>3, <1>4, <1>5, <1>6, <1>7, <1>8, <1>9, <1>10, <1>11, <1>12,
     <1>13, <1>14, <1>15, <1>16, <1>17, <1>18, <1>19, <1>20, <1>21, <1>22, <1>23
  DEF Next, Foreground, Background

\* MilkdownWorkingCopy as shipped, without the tracker, is an editor of one file as
\* Document describes it, through overlapping saves and loads, rejected calls, other
\* programs, a closed editor, and a page or a window that dies.
THEOREM CopyIsDocument ==
  ASSUME "tracker" \notin Env
  PROVE  Spec => IsDocument
<1>1. Init => Document!Init
  <2> SUFFICES ASSUME Init PROVE Document!Init
    OBVIOUS
  <2>1. Writing = None /\ Fetched = {}
    BY DEF Init, Writing, saving, Fetched, Idle, Reader
  <2>2. disk \in Bytes
    BY DocIsBytes DEF Init
  <2> QED BY <2>1, <2>2 DEF Init, Document!Init, Document!Started
<1>2. Init => SavedInv
  BY DEF Init, SavedInv, FullSavesOnly, HandlerInv, DiskIsKnown, Landed, Idle,
         LoadReason, Reader, saving
<1>3. TypeOK /\ SavedInv /\ [Next]_vars => SavedInv'
  BY SavedStep
<1>4. TypeOK /\ TypeOK' /\ SavedInv /\ [Next]_vars => [Document!Next]_(Document!vars)
  BY StepRefines
<1>5. Spec => []TypeOK
  BY TypeCorrect
<1> QED BY <1>1, <1>2, <1>3, <1>4, <1>5, PTL DEF Spec, IsDocument, Document!Spec

=============================================================================

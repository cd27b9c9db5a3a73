------------------------ MODULE MilkdownWorkingCopy ------------------------
(***************************************************************************)
(* One Markdown file, the working copy the host keeps of it and the host   *)
(* handlers that drive the copy: edits reported by the webview, explicit   *)
(* and automatic saves, reverts, loads, file watcher events, the IME gate, *)
(* the round-trip session, hot-exit backups, and closing the editor.       *)
(*                                                                         *)
(* Every await of the code ends one action and starts another, so a step   *)
(* of another handler may come between. The file service is external: a    *)
(* write has a moment at which the bytes reach the disk and a later one at *)
(* which the promise settles; a read has a moment at which the bytes leave *)
(* the disk and a later one at which the caller goes on.                   *)
(***************************************************************************)
EXTENDS RoundtripSave

CONSTANTS
  MaxEpoch, \* bound: how often the webview may build its editor
  Env       \* what the surroundings do in this instance, see Events

\* watcher   the file watcher reports changes, those of our own saves too
\* external  another program writes the file
\* ime       the user types with an input method editor
\* revert    the user reverts the file
\* failure   a read or a write of the file service is rejected
\* remount   the page of the webview is loaded a second time
\* restart   the window dies and is opened again
\* close     the editor is closed
\* tracker   the webview runs the round-trip tracker of webview/roundtrip-*;
\*           entry.template.js does not start it, the host understands it
\* early     somebody saves before the file was ever loaded
Events == {"watcher", "external", "ime", "revert", "failure", "remount",
           "restart", "close", "tracker", "early"}

ASSUME EnvAssumption == Env \subseteq Events
ASSUME MaxEpochAssumption == MaxEpoch \in Nat

VARIABLES
  \* the file
  disk,         \* its content
  watch,        \* a change event is on its way from the watcher
  \* MilkdownWorkingCopy
  current,      \* _current
  saved,        \* _saved
  dirty,        \* _dirty
  loaded,       \* _loaded
  openedBytes,  \* _openedBytes
  pendingForce, \* _pendingForcePath
  composing,    \* _webviewComposing
  timer,        \* _autoSaveTimer is armed
  suppress,     \* Date.now() < _suppressExternalUntil
  disposed,     \* dispose() has run
  session,      \* _session
  report,       \* _dirtyBlockIds with _dirtyBlockContents
  \* calls under way
  write,        \* the save in flight, None when _saving is false
  loads,        \* for each reason, the load in flight
  ext,          \* where the onExternalChange handler waits
  \* the webview, as far as the host can tell it apart
  ready,        \* the page has its init message and can report edits
  typing,       \* an IME composition is open in the page
  pushed,       \* content on its way to the page in a reload message
  base,         \* what the tracker of the page parsed
  message,      \* sessionReady on its way to the host
  epoch,        \* number of editors the page has built
  \* the workbench
  backup,       \* the stored hot-exit backup
  \* history
  drift         \* why the file may differ from what the copy believes, see Cause

file    == <<disk, watch>>
content == <<current, saved, dirty, loaded, openedBytes>>
gates   == <<composing, suppress, disposed>>
tracked == <<session, report>>
page    == <<ready, typing, pushed, base, message, epoch>>
vars    == <<file, content, pendingForce, gates, timer, tracked, write, loads,
             ext, page, backup, drift>>

LoadReason == {"initial", "revert", "externalChange"}

\* Who reads the file: load() for one of its reasons, and onExternalChange() on its
\* own account, to look whether there is anything to load.
Reader == LoadReason \union {"check"}

\* What can part the file from the text the copy believes saved, booked by the step
\* that does it and struck off when the file is read or written with nothing else
\* under way.
\* foreign   another program has written the file
\* told      it has, and the user was asked what to do
\* rejected  a write was rejected though its bytes had landed
\* overlap   a save has landed while a load held older bytes
Cause == {"foreign", "told", "rejected", "overlap"}

\* agreed: an external reload the user agreed to in the dialog.
How == {"plain", "agreed"}
Idle == [phase |-> "idle", bytes |-> None, how |-> "plain"]
Load == [phase : {"idle", "issued"}, bytes : {None}, how : How]
          \union [phase : {"read"}, bytes : Bytes, how : How]

\* applied: the bytes have reached the disk.
Write == [snapshot : Bytes, bytes : Bytes, path : {"A", "B", "C"},
          applied : BOOLEAN]

\* A parse of the page, as its sessionReady message describes it.
Parse == [epoch : Nat, parsed : Bytes, safe : BOOLEAN]

ASSUME NoCallAssumption == None \notin Write \union Parse

saving == write # None

CopyType ==
  /\ disk \in Bytes /\ watch \in BOOLEAN
  /\ current \in Bytes /\ saved \in Bytes
  /\ dirty \in BOOLEAN /\ loaded \in BOOLEAN
  /\ openedBytes \in Bytes \union {None}
  /\ pendingForce \in {"B", "C"} \union {None}
  /\ composing \in BOOLEAN /\ timer \in BOOLEAN
  /\ suppress \in BOOLEAN /\ disposed \in BOOLEAN
  /\ session \in Session \union {None}
  /\ report \in Report \union {None}

CallType ==
  /\ write \in Write \union {None}
  /\ loads \in [Reader -> Load]
  /\ ext \in {"idle", "checking", "loading", "prompt"}

PageType ==
  /\ ready \in BOOLEAN /\ typing \in BOOLEAN
  /\ pushed \in Bytes \union {None} /\ base \in Bytes \union {None}
  /\ message \in Parse \union {None}
  /\ epoch \in 0..MaxEpoch
  /\ backup \in Bytes \union {None}
  /\ drift \subseteq Cause

\* Every variable has its type, the calls under way and the messages included.
TypeOK == CopyType /\ CallType /\ PageType

\* A copy that was just constructed, and a page that has not said ready.
Init ==
  /\ disk \in Doc
  /\ backup = None
  /\ watch = FALSE
  /\ current = Blank /\ saved = Blank /\ dirty = FALSE /\ loaded = FALSE
  /\ openedBytes = None /\ pendingForce = None
  /\ composing = FALSE /\ timer = FALSE /\ suppress = FALSE /\ disposed = FALSE
  /\ session = None /\ report = None
  /\ write = None /\ loads = [r \in Reader |-> Idle] /\ ext = "idle"
  /\ ready = FALSE /\ typing = FALSE /\ pushed = None /\ base = None
  /\ message = None /\ epoch = 0
  /\ drift = {}

----------------------------------------------------------------------------
(* Helpers shared by several handlers *)

\* scheduleAutoSave(): cancel the timer, arm it again if there is something
\* to save. Dirty is the value after the step.
ScheduleAutoSave(isDirty) == timer' = isDirty

\* A reload message to the page. Only the tracker makes the page's reaction
\* visible to the host.
Push(d) == pushed' = IF "tracker" \in Env THEN d ELSE pushed

Issue(r, how) ==
  loads' = [loads EXCEPT ![r] = [phase |-> "issued", bytes |-> None, how |-> how]]

Finish(r) == loads' = [loads EXCEPT ![r] = Idle]

\* Bytes that reach the disk are reported by the watcher some time later.
Reported == watch' = ("watcher" \in Env)

\* A load for one of the reasons has its bytes and has not used them.
Held(reasons) == \E r \in reasons : loads[r].phase = "read"

\* The bytes of the save in flight have reached the disk.
Landed == saving /\ write.applied

----------------------------------------------------------------------------
(* The page *)

Changed(d) == {b \in Present(d) : d[b] # base[b]}

\* What the tracker may report for d. It keeps an id dirty when the block is
\* typed back to what it was, and drops the id of a block that is gone.
TrackerReports(d) ==
  IF "tracker" \notin Env \/ base = None THEN {None}
  ELSE {[ids |-> I, contents |-> [b \in Block |-> IF b \in I THEN d[b] ELSE Absent]] :
          I \in {J \in SUBSET Present(d) : Changed(d) \subseteq J}}

\* markdownUpdated -> updateContent(). r is None when the message carries no
\* dirty blocks. Messages of a page arrive in order, so its sessionReady was
\* delivered before. The model follows the page's editor only with the tracker.
UpdateContent(d, r) ==
  /\ ready /\ ~disposed /\ message = None
  /\ "tracker" \in Env => base # None
  /\ ~(d = current /\ r = None)
  /\ current' = d
  /\ report' = IF r = None THEN report ELSE r
  /\ dirty' = (d # saved)
  /\ ScheduleAutoSave(d # saved)
  /\ UNCHANGED <<file, saved, loaded, openedBytes, pendingForce, gates, session,
                 write, loads, ext, page, backup, drift>>

\* The page builds an editor for the pushed content and its parser hook posts
\* a session. Whether the parse is safe depends on its coverage.
BuildEditor(safe) ==
  /\ "tracker" \in Env /\ ~disposed
  /\ pushed # None /\ message = None /\ epoch < MaxEpoch
  /\ base' = pushed
  /\ pushed' = None
  /\ epoch' = epoch + 1
  /\ message' = [epoch |-> epoch + 1, parsed |-> pushed, safe |-> safe]
  /\ UNCHANGED <<file, content, pendingForce, gates, timer, tracked, write,
                 loads, ext, ready, typing, backup, drift>>

\* Mutant: the report of the older parse is kept.
UpdateSessionAlone ==
  /\ message # None /\ ~disposed
  /\ message' = None
  /\ session' = [epoch |-> message.epoch, source |-> saved,
                 parsed |-> message.parsed, safe |-> message.safe]
  /\ UNCHANGED <<file, content, pendingForce, gates, timer, report, write, loads,
                 ext, ready, typing, pushed, base, epoch, backup, drift>>

\* sessionReady -> updateSession(): an older epoch is ignored, and the text the
\* ranges are applied to is _saved.
UpdateSession ==
  /\ message # None /\ ~disposed
  /\ message' = None
  /\ IF session # None /\ message.epoch < session.epoch
     THEN UNCHANGED tracked
     ELSE /\ session' = [epoch |-> message.epoch, source |-> saved,
                         parsed |-> message.parsed, safe |-> message.safe]
          /\ report' = None
  /\ UNCHANGED <<file, content, pendingForce, gates, timer, write, loads, ext,
                 ready, typing, pushed, base, epoch, backup, drift>>

\* Mutant: edits of a composition wait for the next edit.
FlushNothing(c) == UNCHANGED timer

\* The end of a composition arms the timer the gate has put off.
FlushAfterComposing(c) ==
  IF composing /\ ~c /\ dirty THEN ScheduleAutoSave(TRUE) ELSE UNCHANGED timer

\* imeCompositionChanged -> updateWebviewComposing().
UpdateWebviewComposing(c) ==
  /\ "ime" \in Env
  /\ ready /\ ~disposed /\ typing # c
  /\ typing' = c
  /\ composing' = c
  /\ FlushAfterComposing(c)
  /\ UNCHANGED <<file, content, pendingForce, suppress, disposed, tracked, write,
                 loads, ext, ready, pushed, base, message, epoch, backup, drift>>

\* ready -> postInit(): unsaved edits are pushed to the page, anything else is
\* read from the disk. A second ready comes from a page that was loaded anew; the
\* host's mirror of the old page's IME state and its session stay as they are.
PostInit ==
  /\ ~disposed /\ message = None
  /\ loads["initial"].phase = "idle"
  /\ ready => "remount" \in Env
  /\ typing' = FALSE
  /\ IF ready THEN base' = None /\ epoch' = 0 ELSE UNCHANGED <<base, epoch>>
  /\ IF loaded /\ dirty
     THEN /\ ready' = TRUE
          /\ Push(current)
          /\ UNCHANGED loads
     ELSE /\ ready' = FALSE
          /\ pushed' = IF ready THEN None ELSE pushed
          /\ Issue("initial", "plain")
  /\ UNCHANGED <<file, content, pendingForce, gates, timer, tracked, write, ext,
                 message, backup, drift>>

----------------------------------------------------------------------------
(* Saving *)

\* Mutant: the scope of the format command is stored instead of its path.
SetPendingFormatScope(path) ==
  /\ ready /\ ~disposed
  /\ pendingForce' = IF path = "C" THEN "document" ELSE path
  /\ UNCHANGED <<file, content, gates, timer, tracked, write, loads, ext, page,
                 backup, drift>>

\* setPendingFormatPath()
SetPendingFormatPath(path) ==
  /\ ready /\ ~disposed
  /\ pendingForce' = path
  /\ UNCHANGED <<file, content, gates, timer, tracked, write, loads, ext, page,
                 backup, drift>>

NothingToSave(force) == ~dirty /\ loaded /\ ~force /\ pendingForce = None

\* save() up to the await of writeFile.
Save(force) ==
  /\ timer' = FALSE
  /\ IF NothingToSave(force) \/ saving
     THEN UNCHANGED <<write, pendingForce>>
     ELSE LET path == PickSavePath(session, report, openedBytes, pendingForce) IN
          /\ write' = [snapshot |-> current, path |-> path, applied |-> FALSE,
                       bytes |-> BytesFor(path, session, report, openedBytes, current)]
          /\ pendingForce' = None
  /\ UNCHANGED <<file, content, gates, tracked, loads, ext, page, backup, drift>>

\* Save of the page or of the workbench. The Save command forces, the page and
\* the workbench's own auto save do not. Neither asks the IME gate.
RequestSave(force) ==
  /\ ~disposed
  /\ loaded \/ "early" \in Env
  /\ Save(force)

\* The debounce timer of scheduleAutoSave(). It is not cleared with the copy when
\* a save that was in flight armed it after dispose().
TimerFires ==
  /\ timer
  /\ IF composing
     THEN /\ timer' = FALSE
          /\ UNCHANGED <<file, content, pendingForce, gates, tracked, write, loads,
                         ext, page, backup, drift>>
     ELSE Save(FALSE)

\* The bytes of the save reach the disk; the watcher will report it.
WriteLands ==
  /\ saving /\ ~write.applied
  /\ disk' = write.bytes
  /\ Reported
  /\ write' = [write EXCEPT !.applied = TRUE]
  /\ drift' = IF Held(LoadReason) THEN drift \union {"overlap"} ELSE {}
  /\ UNCHANGED <<content, pendingForce, gates, timer, tracked, loads, ext, page,
                 backup>>

\* Mutant: the finally block only clears the saving flag.
RearmNever(isDirty) == UNCHANGED timer

\* The finally block of save(): arm the timer again if the copy is dirty.
Rearm(isDirty) == timer' = (timer \/ (isDirty /\ ~composing))

\* Mutant: the text at the end of the save is taken for the one it wrote.
ConfirmedLatest == current

\* The text the save declares saved: the one it started with.
Confirmed == write.snapshot

\* Mutant: a save that succeeded leaves a clean copy.
StillDirtyNever == FALSE

\* Edits typed while the save was under way.
StillDirty == current # Confirmed

\* Mutant: the session survives a save that changed the file.
RefreshOpenedAlone ==
  /\ openedBytes' = write.bytes
  /\ UNCHANGED session

\* Path A wrote the opened bytes. The other paths make new ones, and the ranges
\* of the session are void.
RefreshBaseline ==
  IF write.path = "A"
  THEN UNCHANGED <<openedBytes, session>>
  ELSE openedBytes' = write.bytes /\ session' = None

\* save() after writeFile resolved.
SaveSucceeds ==
  /\ saving /\ write.applied
  /\ saved' = Confirmed
  /\ suppress' = TRUE
  /\ RefreshBaseline
  /\ report' = None
  /\ dirty' = StillDirty
  /\ write' = None
  /\ Rearm(StillDirty)
  /\ UNCHANGED <<file, current, loaded, pendingForce, composing, disposed, loads,
                 ext, page, backup, drift>>

\* save() after writeFile was rejected, before or after the bytes landed. A
\* rejected write of path B goes to FallBackToFull.
SaveFails ==
  /\ "failure" \in Env
  /\ saving /\ write.path # "B"
  /\ write' = None
  /\ Rearm(dirty)
  /\ drift' = IF write.applied THEN drift \union {"rejected"} ELSE drift
  /\ UNCHANGED <<file, content, pendingForce, gates, tracked, loads, ext, page,
                 backup>>

\* The inner catch of path B: write the whole snapshot instead.
FallBackToFull ==
  /\ "failure" \in Env
  /\ saving /\ write.path = "B"
  /\ write' = [write EXCEPT !.path = "C", !.bytes = write.snapshot,
                            !.applied = FALSE]
  /\ drift' = IF write.applied THEN drift \union {"rejected"} ELSE drift
  /\ UNCHANGED <<file, content, pendingForce, gates, timer, tracked, loads, ext,
                 page, backup>>

----------------------------------------------------------------------------
(* Loading *)

\* Revert of the workbench. The soft option is not looked at.
Revert ==
  /\ "revert" \in Env /\ ~disposed
  /\ loads["revert"].phase = "idle"
  /\ timer' = FALSE
  /\ Issue("revert", "plain")
  /\ UNCHANGED <<file, content, pendingForce, gates, tracked, write, ext, page,
                 backup, drift>>

\* The file service reads the bytes for a load, or for a look at the file.
ReadLeaves(r) ==
  /\ loads[r].phase = "issued"
  /\ loads' = [loads EXCEPT ![r].phase = "read", ![r].bytes = disk]
  /\ drift' = IF r = "check" \/ Held(LoadReason \ {r}) \/ Landed THEN drift ELSE {}
  /\ UNCHANGED <<file, content, pendingForce, gates, timer, tracked, write, ext,
                 page, backup>>

\* load() after its await, and what its caller does with the result.
LoadSucceeds(r) ==
  /\ loads[r].phase = "read"
  /\ LET d == loads[r].bytes IN
     /\ current' = d /\ saved' = d /\ openedBytes' = d
     /\ Push(d)
  /\ loaded' = TRUE
  /\ dirty' = FALSE
  /\ session' = None /\ report' = None
  /\ pendingForce' = None
  /\ Finish(r)
  /\ ready' = (ready \/ r = "initial")
  /\ ext' = IF r = "externalChange" THEN "idle" ELSE ext
  /\ UNCHANGED <<file, gates, timer, write, typing, base, message, epoch, backup,
                 drift>>

\* readFile is rejected. postInit() then shows the memory of the copy.
LoadFails(r) ==
  /\ "failure" \in Env
  /\ loads[r].phase = "issued"
  /\ Finish(r)
  /\ IF r = "initial"
     THEN ready' = TRUE /\ Push(IF loaded THEN current ELSE Blank)
     ELSE UNCHANGED <<ready, pushed>>
  /\ ext' = IF r = "externalChange" THEN "idle" ELSE ext
  /\ UNCHANGED <<file, content, pendingForce, gates, timer, tracked, write, typing,
                 base, message, epoch, backup, drift>>

----------------------------------------------------------------------------
(* The file watcher and onExternalChange() *)

\* Another program writes the file.
ExternalWrite(d) ==
  /\ "external" \in Env
  /\ d # disk
  /\ disk' = d
  /\ Reported
  /\ drift' = (drift \ {"told"}) \union {"foreign"}
  /\ UNCHANGED <<content, pendingForce, gates, timer, tracked, write, loads, ext,
                 page, backup>>

\* onDidFilesChange(): dropped during a save and in the two seconds after it.
\* bound: one onExternalChange handler at a time.
DropEvent ==
  /\ watch /\ ~disposed /\ (saving \/ suppress)
  /\ watch' = FALSE
  /\ UNCHANGED <<disk, content, pendingForce, gates, timer, tracked, write, loads,
                 ext, page, backup, drift>>

RaiseEvent ==
  /\ watch /\ ~disposed /\ ~saving /\ ~suppress /\ ext = "idle"
  /\ watch' = FALSE
  /\ IF dirty
     THEN /\ ext' = "prompt"
          /\ drift' = IF "foreign" \in drift
                      THEN (drift \ {"foreign"}) \union {"told"} ELSE drift
          /\ UNCHANGED loads
     ELSE /\ ext' = "checking"
          /\ Issue("check", "plain")
          /\ UNCHANGED drift
  /\ UNCHANGED <<disk, content, pendingForce, gates, timer, tracked, write, page,
                 backup>>

\* The silent branch after its own readFile: nothing to do when the text is the
\* one in memory, else load. Whether the copy is dirty is not asked again.
CheckDisk ==
  /\ loads["check"].phase = "read"
  /\ IF loads["check"].bytes = current
     THEN ext' = "idle" /\ Finish("check")
     ELSE /\ ext' = "loading"
          /\ loads' = [loads EXCEPT !["check"] = Idle,
                        !["externalChange"] = [Idle EXCEPT !.phase = "issued"]]
  /\ UNCHANGED <<file, content, pendingForce, gates, timer, tracked, write, page,
                 backup, drift>>

\* The silent branch when its own readFile is rejected.
CheckFails ==
  /\ "failure" \in Env
  /\ loads["check"].phase = "issued"
  /\ ext' = "idle"
  /\ Finish("check")
  /\ UNCHANGED <<file, content, pendingForce, gates, timer, tracked, write, page,
                 backup, drift>>

\* The user's answer to the dialog.
AnswerPrompt(reload) ==
  /\ ext = "prompt"
  /\ IF reload
     THEN ext' = "loading" /\ Issue("externalChange", "agreed")
     ELSE ext' = "idle" /\ UNCHANGED loads
  /\ UNCHANGED <<file, content, pendingForce, gates, timer, tracked, write, page,
                 backup, drift>>

\* The two seconds are over; only the watcher asks.
SuppressEnds ==
  /\ "watcher" \in Env /\ suppress
  /\ suppress' = FALSE
  /\ UNCHANGED <<file, content, pendingForce, composing, disposed, timer, tracked,
                 write, loads, ext, page, backup, drift>>

----------------------------------------------------------------------------
(* Backups, closing, and a window that dies *)

\* The workbench's backup tracker stores backup() of a dirty copy and drops the
\* stored one when the copy is clean.
StoreBackup ==
  /\ "restart" \in Env /\ ~disposed
  /\ dirty /\ backup' = current
  /\ UNCHANGED <<file, content, pendingForce, gates, timer, tracked, write, loads,
                 ext, page, drift>>

DiscardBackup ==
  /\ loaded /\ ~dirty /\ backup # None
  /\ backup' = None
  /\ UNCHANGED <<file, content, pendingForce, gates, timer, tracked, write, loads,
                 ext, page, drift>>

\* dispose(). The workbench closes a dirty editor only after a save or a revert
\* that left it clean. Calls in flight go on.
Dispose ==
  /\ "close" \in Env /\ ~disposed /\ ~dirty
  /\ disposed' = TRUE
  /\ timer' = FALSE
  /\ openedBytes' = None /\ session' = None /\ report' = None
  /\ UNCHANGED <<file, current, saved, dirty, loaded, pendingForce, composing,
                 suppress, write, loads, ext, page, backup, drift>>

\* The window dies and the editor is opened again: createEditor() of the working
\* copy handler builds a fresh input, and the stored backup is never read.
Restart ==
  /\ "restart" \in Env
  /\ watch' = FALSE
  /\ current' = Blank /\ saved' = Blank /\ dirty' = FALSE /\ loaded' = FALSE
  /\ openedBytes' = None /\ pendingForce' = None
  /\ composing' = FALSE /\ timer' = FALSE
  /\ suppress' = FALSE /\ disposed' = FALSE
  /\ session' = None /\ report' = None
  /\ write' = None /\ loads' = [r \in Reader |-> Idle] /\ ext' = "idle"
  /\ ready' = FALSE /\ typing' = FALSE /\ pushed' = None /\ base' = None
  /\ message' = None /\ epoch' = 0
  /\ drift' = {}
  /\ UNCHANGED <<disk, backup>>

----------------------------------------------------------------------------

\* What the program does by itself once everybody is quiet.
Background ==
  \/ TimerFires
  \/ WriteLands \/ SaveSucceeds \/ SaveFails \/ FallBackToFull
  \/ \E r \in Reader : ReadLeaves(r)
  \/ \E r \in LoadReason : LoadSucceeds(r) \/ LoadFails(r)
  \/ DropEvent \/ RaiseEvent \/ CheckDisk \/ CheckFails \/ SuppressEnds
  \/ UpdateSession \/ DiscardBackup

\* What users, other programs, the page and the workbench start.
Foreground ==
  \/ \E d \in Doc : \E r \in TrackerReports(d) : UpdateContent(d, r)
  \/ \E safe \in BOOLEAN : BuildEditor(safe)
  \/ \E c \in BOOLEAN : UpdateWebviewComposing(c)
  \/ PostInit
  \/ \E path \in {"B", "C"} : SetPendingFormatPath(path)
  \/ \E force \in BOOLEAN : RequestSave(force)
  \/ Revert
  \/ \E d \in Doc : ExternalWrite(d)
  \/ \E reload \in BOOLEAN : AnswerPrompt(reload)
  \/ StoreBackup \/ Dispose \/ Restart

Next == Background \/ Foreground

\* Timers fire, promises settle and events are delivered; a rejection may come
\* again and again but not every time. Nobody has to type, save, answer or close.
Fairness ==
  /\ WF_vars(TimerFires)
  /\ SF_vars(WriteLands) /\ SF_vars(SaveSucceeds)
  /\ \A r \in Reader : WF_vars(ReadLeaves(r))
  /\ \A r \in LoadReason : WF_vars(LoadSucceeds(r))
  /\ WF_vars(CheckDisk) /\ WF_vars(DropEvent \/ RaiseEvent) /\ WF_vars(SuppressEnds)

Spec == Init /\ [][Next]_vars

FairSpec == Spec /\ Fairness

----------------------------------------------------------------------------
(* Properties *)

\* The dirty flag tells the truth in every interleaving: the copy is dirty
\* exactly when the text in memory is not the text it believes saved. An edit
\* typed while a save or a load is under way must not be taken for saved.
DirtyIsHonest == dirty <=> current # saved

\* What a loaded copy believes saved is what the file holds, between its calls, and
\* after any number of edits, saves, loads and rejected calls. Three things part the
\* two, each until the file is read or written again: another program, a write that
\* is rejected after its bytes landed, and a save that lands while a load holds
\* older bytes, which the copy then takes for the file's.
SavedIsOnDisk ==
  loaded /\ ~saving /\ ~Held(LoadReason) /\ drift = {} => saved = disk

\* Unsaved text is never left without something that will save it: while the
\* gate is open and no save or revert is under way, the timer is armed.
AutosaveArmed ==
  dirty /\ ~composing /\ ~saving /\ loads["revert"].phase = "idle" => timer

\* Whatever path a save takes, the bytes it has handed to the file service are the
\* text it will declare saved, also those of the second write of a path B that was
\* rejected. A block the user has deleted is another matter: the tracker says nothing
\* of it, and paths A and B write it again.
SaveWritesSnapshot ==
  saving => \A b \in Present(write.snapshot) : write.bytes[b] = write.snapshot[b]

\* What paths A and B combine is of one text: the ranges of the session, the source
\* they are applied to, and the opened bytes. No session survives the save that
\* changed the file under it.
BaselineFits ==
  session # None => /\ session.parsed = session.source
                    /\ openedBytes \in {session.source, None}

\* A report held beside a session is about this session's parse and this text: what
\* it names has the text it gives, any other block is still as the page parsed it.
\* No report of an editor that is gone stays beside the session of the next one.
ReportFitsSession ==
  session # None /\ report # None =>
    \A b \in Present(current) :
      current[b] = IF b \in report.ids THEN report.contents[b] ELSE session.parsed[b]

\* When everybody leaves the copy alone, its text is saved in the end, also after
\* rejected writes and after the editor was closed in the middle of a save; and
\* memory and file then agree, but for the causes that SavedIsOnDisk names.
Settles ==
  <>[][Background]_vars /\ <>[]~composing
    => <>[](~dirty /\ (loaded /\ drift = {} => disk = current))

----------------------------------------------------------------------------
(* The abstract document this implements, see Document. *)

\* What loads in flight have read.
Fetched == {loads[r].bytes : r \in {q \in LoadReason : loads[q].phase = "read"}}

\* The save in flight, whatever its path and the bytes it has made.
Writing ==
  IF saving THEN [text |-> write.snapshot, landed |-> write.applied] ELSE None

Document ==
  INSTANCE Document WITH
    Content <- Bytes, Fresh <- Blank, Nothing <- None,
    file <- disk, text <- current, agreed <- saved, writing <- Writing,
    reads <- Fetched

ASSUME NothingAssumption == None \notin Document!Save

\* Without the tracker the copy is a document, in every interleaving: the bytes of
\* a save are one text the copy had as a whole, it is confirmed only once the file
\* has had it, and a load brings back only what a read has found in the file.
IsDocument == Document!Spec

----------------------------------------------------------------------------
(* What documents and comments say, where the code does otherwise: each has a    *)
(* configuration of its own under which it is violated.                         *)

\* FR-01: a file another program changed is never overwritten without asking.
NoSilentOverwrite ==
  [][saving /\ ~write.applied /\ write' # None /\ write'.applied
       => "foreign" \notin drift]_vars

\* onExternalChange(): only a copy that is not dirty follows the disk by itself.
OnlyCleanFollows ==
  [][loads["externalChange"].phase = "read" /\ loads["externalChange"].how = "plain"
       /\ loads'["externalChange"] = Idle => ~dirty]_vars

\* updateSession(): the text the ranges are applied to is the one they were made of.
SessionIsOfOneText == session # None => session.parsed = session.source

=============================================================================

----------------------------- MODULE EntryPage -----------------------------
(***************************************************************************)
(* The page of the Markdown editor and the messages between it and its     *)
(* host: an editor that holds the first chunk of a large document while    *)
(* the rest is fetched as the user scrolls, a listener that hears changes  *)
(* some time after they are made, the source mode with a timer of its own, *)
(* and the commands that serialize the document and post it.               *)
(*                                                                         *)
(* A text is a function from chunks to versions. The editor library is     *)
(* external: it builds an editor before the next message or key is handled *)
(* and it calls the listener 200 ms after the last change, so the flag     *)
(* progressiveAppending is always down again by then. Whether it still     *)
(* calls the listener of an editor that was destroyed meanwhile is left    *)
(* open; of such calls at most one is kept. A value that no step can read  *)
(* any more is forgotten: the text as opened once no chunk is pending, the *)
(* source once the user has left it and its timer is not armed, and the    *)
(* text that comes with a save.                                            *)
(***************************************************************************)
EXTENDS Naturals, Sequences

CONSTANTS
  Chunks,   \* number of chunks splitMarkdownProgressive() makes
  Raw,      \* a chunk as it is on the disk
  Norm,     \* the same chunk parsed and serialized
  Gone,     \* the chunk is not in the text
  MaxEdits, \* bound: edits of the user and reloads, together
  MaxQueue, \* bound: messages under way to the host
  MaxFetches, \* bound: calls of loadNextProgressiveChunk() that wait
  Env       \* what the user does in this instance

\* source   the user works in the source mode too
\* reload   the host loads the file again
\* eager    the document is formatted, or a table of contents inserted, while chunks
\*          are pending
ASSUME EnvAssumption == Env \subseteq {"source", "reload", "eager"}
ASSUME BoundAssumption ==
  /\ MaxEdits \in Nat /\ MaxQueue \in Nat /\ MaxFetches \in Nat
  /\ Chunks \in Nat \ {0}
ASSUME VersionAssumption ==
  /\ Raw \notin Nat /\ Norm \notin Nat /\ Gone \notin Nat
  /\ Raw # Norm /\ Raw # Gone /\ Norm # Gone

VARIABLES
  \* the editor
  doc,        \* what the ProseMirror document has
  loaded,     \* chunks the editor has; the others are in pendingChunks
  original,   \* progressiveOriginalMarkdown
  userEdited, \* progressiveUserEdited
  current,    \* currentMarkdown
  heard,      \* a change the listener has not been called for
  late,       \* what the listener of a destroyed editor is yet to be called with
  busy,       \* progressiveLoadMoreBusy
  fetches,    \* calls of loadNextProgressiveChunk() that wait
  stale,      \* those of an epoch that is over
  loop,       \* what fetches one chunk after the other, if anything does
  offered,    \* its button is enabled
  \* the source mode
  source,     \* isSourceMode()
  textarea,   \* the value of the textarea
  typed,      \* sourceDebounce is armed
  \* the host and the messages between the two
  toHost,     \* markdownUpdated and save, in order
  toPage,     \* reload
  host,       \* _current of the working copy
  stored,     \* what it has saved
  \* history
  edits,      \* edits and reloads so far
  due,        \* the last edit of each chunk that nothing has replaced
  lapse       \* what has happened that an edit may be lost by

chunking == <<busy, fetches, stale, loop, offered>>
editor   == <<doc, loaded, original, userEdited, heard, late>>
mode     == <<source, textarea, typed>>
copy     == <<host, stored>>
history  == <<edits, due, lapse>>
vars == <<editor, current, chunking, mode, toHost, toPage, copy, history>>

Chunk == 1..Chunks
Nobody == [c \in Chunk |-> Gone]

\* pendingChunks
tail == {c \in Chunk : c > loaded}

Version == {Raw, Norm, Gone} \union 1..MaxEdits
Markdown == [Chunk -> Version]

\* hasty    the mode was changed before the listener or the timer had told the host
\* crossed  the editor's own text was posted while the user worked in the source
\* late     the listener of a destroyed editor was called
Lapse == {"hasty", "crossed", "late"}

\* Every variable has its type, the messages under way included.
TypeOK ==
  /\ doc \in Markdown /\ original \in Markdown /\ current \in Markdown
  /\ textarea \in Markdown /\ host \in Markdown /\ stored \in Markdown
  /\ late \in Markdown
  /\ loaded \in Chunk
  /\ userEdited \in BOOLEAN /\ heard \in BOOLEAN /\ busy \in BOOLEAN
  /\ offered \in BOOLEAN /\ source \in BOOLEAN /\ typed \in BOOLEAN
  /\ loop \in {"none", "viewport", "all"}
  /\ fetches \in Nat /\ stale \in Nat
  /\ toHost \in Seq([type : {"markdownUpdated", "save"}, text : Markdown])
  /\ toPage \in Seq(Markdown)
  /\ edits \in 0..MaxEdits
  /\ due \in [Chunk -> {Gone} \union 1..MaxEdits]
  /\ lapse \subseteq Lapse

----------------------------------------------------------------------------
(* Texts *)

\* What the parser and the serializer make of a text.
Parsed(text) == [c \in Chunk |-> IF text[c] = Raw THEN Norm ELSE text[c]]

\* Mutant: an edited document is serialized without the chunks still pending.
SerializeLoaded(d, t, edited) ==
  CASE source     -> textarea
    [] ~source /\ edited  -> d
    [] ~source /\ ~edited -> original

\* serialize(): the source if the user sees it, else the document with the
\* chunks still pending behind it, or the text as opened if nobody edited it.
SerializeWith(d, t, edited) ==
  CASE source                          -> textarea
    [] ~source /\ t = {}               -> d
    [] ~source /\ t # {} /\ ~edited    -> original
    [] ~source /\ t # {} /\ edited     ->
         [c \in Chunk |-> IF c \in t THEN original[c] ELSE d[c]]

Serialize == SerializeWith(doc, tail, userEdited)

----------------------------------------------------------------------------
(* Building the editor *)

\* What an editor may be given of a text: all of it, or, of a large one, the first
\* chunk; then fillViewport() fetches more unless the first chunk fills the window.
Opening == [whole : BOOLEAN, fills : BOOLEAN]
Loaded(how) == IF how.whole THEN Chunks ELSE 1
Fills(how) == Loaded(how) < Chunks /\ how.fills

\* createEditor(): a new editor. The listener of the old one asks only whether an
\* editor is initialized, so a change it has not been called for may yet reach it.
CreateEditor(text, how) ==
  /\ late' \in {Nobody, IF heard THEN doc ELSE late}
  /\ loaded' = Loaded(how)
  /\ doc' = [c \in Chunk |-> IF c \in tail' THEN Gone ELSE Parsed(text)[c]]
  /\ original' = IF tail' = {} THEN Nobody ELSE text
  /\ userEdited' = FALSE
  /\ heard' = FALSE
  /\ current' = IF tail' = {} THEN doc' ELSE text
  /\ busy' = Fills(how)
  /\ loop' = IF Fills(how) THEN "viewport" ELSE "none"
  /\ stale' = stale + fetches
  /\ fetches' = IF Fills(how) THEN 1 ELSE 0
  /\ stale' + fetches' <= MaxFetches
  /\ offered' = (tail' # {} /\ ~busy')

\* A page that shows the file for the first time.
Init ==
  /\ host = [c \in Chunk |-> Raw] /\ stored = host
  /\ \E how \in Opening :
       /\ loaded = Loaded(how)
       /\ busy = Fills(how)
  /\ doc = [c \in Chunk |-> IF c \in tail THEN Gone ELSE Norm]
  /\ original = (IF tail = {} THEN Nobody ELSE host)
  /\ current = (IF tail = {} THEN doc ELSE host)
  /\ userEdited = FALSE /\ heard = FALSE /\ late = Nobody
  /\ fetches = (IF busy THEN 1 ELSE 0) /\ stale = 0
  /\ loop = (IF busy THEN "viewport" ELSE "none")
  /\ offered = (tail # {} /\ ~busy)
  /\ source = FALSE /\ textarea = Nobody /\ typed = FALSE
  /\ toHost = <<>> /\ toPage = <<>>
  /\ edits = 0 /\ due = Nobody /\ lapse = {}

Updated(text) == [type |-> "markdownUpdated", text |-> text]
Save == [type |-> "save", text |-> Nobody]

HasRoom(n) == Len(toHost) + n <= MaxQueue

Post(m) == HasRoom(1) /\ toHost' = Append(toHost, m)

\* Note(what, happens) books a lapse in the step it happens in.
Note(what, happens) == lapse' = IF happens THEN lapse \union {what} ELSE lapse

----------------------------------------------------------------------------
(* The user *)

\* The next edit changes chunk c of a text.
Edited(text, c) == [text EXCEPT ![c] = edits + 1]

CountEdit(c) ==
  /\ edits < MaxEdits
  /\ edits' = edits + 1
  /\ due' = [due EXCEPT ![c] = edits + 1]
  /\ UNCHANGED lapse

\* The user types into a chunk the editor has.
UserEdit(c) ==
  /\ ~source /\ doc[c] # Gone
  /\ CountEdit(c)
  /\ doc' = Edited(doc, c)
  /\ heard' = TRUE
  /\ UNCHANGED <<loaded, original, userEdited, late, current, chunking, mode, toHost,
                 toPage, copy>>

\* Mutant: every change heard while chunks are pending is taken for a chunk.
ListenerHearsChunks ==
  /\ heard
  /\ heard' = FALSE
  /\ current' = IF tail # {} THEN SerializeWith(doc, tail, userEdited) ELSE doc
  /\ IF tail # {} THEN UNCHANGED toHost ELSE Post(Updated(current'))
  /\ Note("crossed", source /\ tail = {})
  /\ UNCHANGED <<doc, loaded, original, userEdited, late, chunking, mode, toPage, copy,
                 edits, due>>

\* Mutant: the listener waits until no chunk is pending.
ListenerWaits ==
  /\ heard /\ tail = {}
  /\ heard' = FALSE
  /\ current' = doc
  /\ Post(Updated(current'))
  /\ Note("crossed", source)
  /\ UNCHANGED <<doc, loaded, original, userEdited, late, chunking, mode, toPage, copy,
                 edits, due>>

\* markdownUpdated listener, called with a text: while chunks are pending it takes
\* every change it hears for one of the user and serializes the present editor.
Listen(text) ==
  /\ userEdited' = (tail # {})
  /\ current' = IF tail # {} THEN SerializeWith(doc, tail, TRUE) ELSE text
  /\ Post(Updated(current'))
  /\ UNCHANGED <<doc, loaded, original, chunking, mode, toPage, copy, edits, due>>

\* It does not ask whether the user is in the source.
ListenerFires ==
  /\ heard
  /\ heard' = FALSE
  /\ Listen(doc)
  /\ Note("crossed", source /\ tail = {})
  /\ UNCHANGED late

\* It is called with the text of a destroyed editor.
LateListenerFires ==
  /\ late # Nobody
  /\ late' = Nobody
  /\ Listen(late)
  /\ Note("late", TRUE)
  /\ UNCHANGED heard

\* A change the listener or the timer of the source is yet to tell the host.
Untold == heard \/ typed

\* switchTo("source")
EnterSource ==
  /\ "source" \in Env /\ ~source
  /\ textarea' = Serialize
  /\ source' = TRUE
  /\ Note("hasty", Untold)
  /\ UNCHANGED <<typed, editor, current, chunking, toHost, toPage, copy, edits, due>>

\* The user types into the source; the timer starts anew.
SourceEdit(c) ==
  /\ source
  /\ CountEdit(c)
  /\ textarea' = Edited(textarea, c)
  /\ typed' = TRUE
  /\ UNCHANGED <<source, editor, current, chunking, toHost, toPage, copy>>

\* The timer of the source fires in whatever mode the page is by then.
SourceTimerFires ==
  /\ typed
  /\ typed' = FALSE
  /\ current' = textarea
  /\ Post(Updated(textarea))
  /\ textarea' = IF source THEN textarea ELSE Nobody
  /\ UNCHANGED <<source, editor, chunking, toPage, copy, history>>

\* switchTo() away from the source: a new editor for its text, posted if it is
\* not what the editor makes of it.
LeaveSource(how) ==
  /\ source
  /\ source' = FALSE
  /\ CreateEditor(textarea, how)
  /\ IF textarea # current'
     THEN Post(Updated(textarea))
     ELSE UNCHANGED toHost
  /\ textarea' = IF typed THEN textarea ELSE Nobody
  /\ Note("hasty", Untold)
  /\ UNCHANGED <<typed, toPage, copy, edits, due>>

\* requestSave()
RequestSave ==
  /\ current' = Serialize
  /\ Post(Save)
  /\ UNCHANGED <<editor, chunking, mode, toPage, copy, history>>

\* formatDocumentInPlace(): serializes what the editor has.
FormatDocument ==
  /\ "eager" \in Env \/ tail = {}
  /\ LET text == IF source THEN textarea ELSE doc IN
     /\ current' = text
     /\ IF source \/ text # current
        THEN HasRoom(2) /\ toHost' = Append(Append(toHost, Updated(text)), Save)
        ELSE Post(Save)
  /\ UNCHANGED <<editor, chunking, mode, toPage, copy, history>>

\* insertTocAtCursor(): an edit of its own, posted at once, of what the editor has.
InsertToc(c) ==
  /\ ~source /\ doc[c] # Gone
  /\ "eager" \in Env \/ tail = {}
  /\ CountEdit(c)
  /\ doc' = Edited(doc, c)
  /\ heard' = TRUE
  /\ current' = Edited(doc, c)
  /\ Post(Updated(current'))
  /\ UNCHANGED <<loaded, original, userEdited, late, chunking, mode, toPage, copy>>

----------------------------------------------------------------------------
(* Chunks *)

\* loadNextProgressiveChunk() up to its await.
Fetch ==
  /\ tail # {} /\ ~busy /\ stale + fetches < MaxFetches
  /\ busy' = TRUE /\ fetches' = fetches + 1

\* The user scrolls near the end.
Scroll ==
  /\ ~source
  /\ Fetch
  /\ UNCHANGED <<editor, current, stale, loop, offered, mode, toHost, toPage, copy,
                 history>>

\* loadAllRemainingProgressiveChunks(). While another call is busy it spins for
\* as many rounds as there are chunks, and ends.
LoadAll ==
  /\ offered /\ tail # {}
  /\ offered' = FALSE
  /\ IF busy
     THEN UNCHANGED <<busy, fetches, loop>>
     ELSE Fetch /\ loop' = "all"
  /\ UNCHANGED <<editor, current, stale, mode, toHost, toPage, copy, history>>

\* The button's loop goes on while chunks are pending, that of the window until it
\* is full.
Continuing(pending) ==
  CASE pending = {}                   -> {"none"}
    [] pending # {} /\ loop = "all"   -> {"all"}
    [] pending # {} /\ loop # "all"   -> {loop, "none"}

\* loadNextProgressiveChunk() after its await: append the next chunk. With the
\* last one the document is posted if the user has edited it. The button is drawn
\* before the finally block says that nothing is busy any more.
AppendNext ==
  /\ loaded' = loaded + 1
  /\ doc' = [c \in Chunk |-> IF c = loaded' THEN Parsed(original)[c] ELSE doc[c]]
  /\ heard' = TRUE
  /\ current' = IF tail' = {} THEN doc' ELSE SerializeWith(doc', tail', userEdited)
  /\ IF tail' = {} /\ userEdited
     THEN Post(Updated(doc'))
     ELSE UNCHANGED toHost
  /\ Note("crossed", source /\ tail' = {} /\ userEdited)
  /\ userEdited' = (userEdited /\ tail' # {})
  /\ original' = IF tail' = {} THEN Nobody ELSE original
  /\ offered' = FALSE
  /\ loop' \in Continuing(tail')
  /\ fetches' = IF loop' = "none" THEN fetches - 1 ELSE fetches
  /\ busy' = (loop' # "none")
  /\ UNCHANGED late

\* Mutant: a call does not ask whether another has taken the last chunk meanwhile.
FetchEndsUnasked ==
  /\ fetches > 0
  /\ AppendNext
  /\ UNCHANGED <<stale, mode, toPage, copy, edits, due>>

\* Another call may have taken the last chunk meanwhile.
FetchEnds ==
  /\ fetches > 0
  /\ IF tail # {}
     THEN AppendNext
     ELSE /\ fetches' = fetches - 1 /\ busy' = FALSE /\ loop' = "none"
          /\ UNCHANGED <<editor, current, offered, toHost, lapse>>
  /\ UNCHANGED <<stale, mode, toPage, copy, edits, due>>

\* A call of a former editor sees the new epoch, and its finally block runs.
StaleFetchEnds ==
  /\ stale > 0
  /\ stale' = stale - 1
  /\ busy' = FALSE
  /\ UNCHANGED <<editor, current, fetches, loop, offered, mode, toHost, toPage, copy,
                 history>>

----------------------------------------------------------------------------
(* The host, see MilkdownWorkingCopy *)

\* handleWebviewMessage(): a save stores the text the host has, not the one that
\* comes with the message.
HostReceives ==
  /\ toHost # <<>>
  /\ toHost' = Tail(toHost)
  /\ IF Head(toHost).type = "save"
     THEN stored' = host /\ UNCHANGED host
     ELSE host' = Head(toHost).text /\ UNCHANGED stored
  /\ UNCHANGED <<editor, current, chunking, mode, toPage, history>>

\* The timer of the host.
AutoSave ==
  /\ host # stored
  /\ stored' = host
  /\ UNCHANGED <<host, editor, current, chunking, mode, toHost, toPage, history>>

\* load() for a revert or after another program wrote the file.
HostReloads ==
  /\ "reload" \in Env /\ toPage = <<>>
  /\ edits < MaxEdits
  /\ edits' = edits + 1
  /\ \E text \in {stored, [c \in Chunk |-> Raw]} :
       /\ host' = text /\ stored' = text
       /\ toPage' = <<text>>
  /\ due' = Nobody
  /\ UNCHANGED <<editor, current, chunking, mode, toHost, lapse>>

\* reload: a new editor, and the source too if the user sees it.
PageReloads(how) ==
  /\ toPage # <<>>
  /\ toPage' = Tail(toPage)
  /\ CreateEditor(Head(toPage), how)
  /\ textarea' = IF source THEN Head(toPage) ELSE textarea
  /\ due' = Nobody
  /\ UNCHANGED <<source, typed, toHost, copy, edits, lapse>>

----------------------------------------------------------------------------

Background ==
  \/ ListenerFires \/ LateListenerFires \/ SourceTimerFires
  \/ FetchEnds \/ StaleFetchEnds
  \/ HostReceives \/ AutoSave
  \/ \E how \in Opening : PageReloads(how)

Foreground ==
  \/ \E c \in Chunk : UserEdit(c) \/ SourceEdit(c) \/ InsertToc(c)
  \/ EnterSource
  \/ \E how \in Opening : LeaveSource(how)
  \/ RequestSave \/ FormatDocument \/ Scroll \/ LoadAll \/ HostReloads

Next == Background \/ Foreground

Spec == Init /\ [][Next]_vars

\* Timers fire, chunks come and messages are delivered. The user need not do
\* anything, nor need a destroyed editor call its listener. What posts a message is
\* strongly fair because the bound on the messages, which the code has not, may
\* disable it for a while.
Fairness ==
  /\ SF_vars(ListenerFires) /\ SF_vars(SourceTimerFires) /\ SF_vars(FetchEnds)
  /\ WF_vars(StaleFetchEnds)
  /\ WF_vars(HostReceives) /\ WF_vars(AutoSave)
  /\ WF_vars(\E how \in Opening : PageReloads(how))

FairSpec == Spec /\ Fairness

----------------------------------------------------------------------------
(* Properties *)

Whole(text) == \A c \in Chunk : text[c] # Gone

\* The host never has, and never saves, a text that lacks a chunk of the document,
\* whatever the page has fetched when it serializes, unless a destroyed editor has
\* had the last word.
WholeDocument == "late" \in lapse \/ (Whole(host) /\ Whole(stored))

\* Nothing the page still has to tell the host.
Settled == ~Untold /\ toHost = <<>>

HostHasEdits == \A c \in Chunk : due[c] # Gone => host[c] = due[c]

\* Once the page has told the host everything, the last edit of every chunk is in
\* the host's text, in whichever mode it was made and whatever was fetched,
\* rebuilt or posted since, unless one of the three lapses has happened. A reload
\* takes edits back.
EditsReachHost == Settled /\ lapse = {} => HostHasEdits

\* What ADR 0003 asks for, of users who change the mode only when the page is still:
\* an edit made while chunks are coming is not lost.
NoEditLost == Settled /\ lapse \subseteq {"crossed"} => HostHasEdits

\* Every edit that nothing replaces is saved in the end, or there has been a lapse.
EditsAreStored ==
  \A c \in Chunk : \A e \in 1..MaxEdits :
    due[c] = e ~> (due[c] # e \/ stored[c] = e \/ lapse # {})

=============================================================================

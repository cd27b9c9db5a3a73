# VSWord in TLA+

VSWord is Code OSS with a Notion-like Markdown editor and a folder canvas on top. Its
own code lives in `src/code-oss/src/vs/workbench/contrib/vsword` (below: `V`); the rest
of the tree is the Code OSS baseline, documents, and assets. This directory holds TLA+
specifications of the parts of `V` whose state is shared between callbacks, TLC
instances that check them, and TLAPS proofs about them.

## 1. Inventory

Each part: its state, its operations, whom it talks to, what is hard about it, and what
makes it correct. Parts marked * are modelled.

**Markdown working copy*** (`V/browser/milkdownEditor/milkdownWorkingCopy.ts`). State:
`_current`, `_saved`, `_dirty`, `_loaded`, `_openedBytes`, `_session`, `_dirtyBlockIds`
with their contents, `_pendingForcePath`, `_saving`, `_autoSaveTimer`,
`_webviewComposing`, `_suppressExternalUntil`. Operations: `load`, `save`, `revert`,
`backup`, `updateContent`, `updateSession`, `updateWebviewComposing`,
`setPendingFormatPath`, `onDidFilesChange`, `dispose`. It is called by the workbench
(Save, Revert, backups, closing), by the messages of the webview and by its own timer,
and it awaits the file service in the middle of `load` and `save`. Hard: every await is
a point at which edits, a second save, a load or the watcher come in between; failed
calls are retried by the timer only. Correct when the dirty flag is honest, what it
calls saved is on disk, unsaved text is always about to be saved, and no write loses
text nobody was asked about.

**Save path decision and round-trip session*** (`roundtrip/roundtripSerializer.ts`,
`roundtrip/roundtripSession.ts`). Pure functions of the session, the report of the page
and the opened bytes; the session is kept by the working copy. Hard: the three texts
they combine come from three different moments. Correct when the bytes produced are the
text in memory.

**Tracker and parser hook of the page** (`webview/roundtrip-tracker.template.js`,
`webview/roundtrip-parser-hook.template.js`; partly*). Which blocks are dirty, and the
`sessionReady` message. `entry.template.js` does not start them; the host understands
their messages.

**Editor contribution** (`milkdownEditorContribution.ts`; partly*). Routes the messages
of the webview, `postInit`, `onExternalChange`, and keeps the wikilink caches*; also the
list of external themes, and it stores images. Hard: state read before an await and used
after it.

**Working copy editor handler*** (`milkdownWorkingCopyEditorHandler.ts`). Opens an editor
for a backup after a restart.

**Folder canvas*** (`V/common/canvasService.ts`, `canvasDiscovery.ts`, `canvasTypes.ts`,
`V/browser/spikes/reactflow/reactFlowCanvasAction.ts`, and the page in
`build-reactflow-spike.cjs`). State: `canvas.json`, the children of the folder, the
board and the tray of the page. Every message starts a handler that loads the whole
canvas, changes it and writes it back. Hard: handlers overlap; the canvas of a folder
without `canvas.json` is made up anew, with new ids, at every load. Correct when no
child is shown twice or hidden, and what the user puts on the board or takes off it
stays so.

**Webview entry page*** (`webview/entry.template.js`, with
`webview/markdown-chunk.template.js` and `switchTo()` of
`webview/mode-controller.template.js`). State: the editor, `currentMarkdown`, the chunks
of a large document still pending and the flags that go with them, the source mode and
its timer. Operations: `createEditor`, `loadNextProgressiveChunk`,
`loadAllRemainingProgressiveChunks`, the `markdownUpdated` listener, `requestSave`,
`formatDocumentInPlace`, `insertTocAtCursor`, entering and leaving the source mode. It
posts texts and saves to the host, and the host posts reloads. Hard: the editor holds a
part of the document while the user works on it; the listener is called 200 ms after a
change, the timer of the source after 300 ms, chunks come in between, and calls of a
former editor wake in a new one. Correct when no text with a chunk missing is ever
posted or saved and every edit reaches the host.

**Wikilinks*** (`milkdownEditorContribution.ts` from line 876, `milkdownWikilinkResolver.ts`,
`webview/wikilink*.template.js`; partly*). State: the host's index of notes and the
promise of the one being built; the page's cache of what each link leads to. The index
is built when it is needed and dropped when a note changes. Hard: a build that is under
way is not stopped, it stores its result later, beside another build. Correct when what
is shown is never older than what the watcher has told, nobody is asked to create a note
that exists, and every click is answered.

**Mindmap*** (`V/browser/vswordMindmapAction.ts`, `V/browser/mindmapHtml.ts`,
`V/common/mindmapXml.ts`; partly*). State: the `.mm` file and the page drawn from it.
Every edit of the page starts a handler that reads the file, edits its text at offsets
found by counting tags, writes it back and draws the page anew. Hard: the counting, with
subtrees moved into and past one another; handlers that overlap. Correct when the file
stays one well-formed tree and each edit does to its outline what was asked.

**Reading, focus and typewriter modes, the page's IME state machine**
(`viewMode/`, `webview/ime-composition-state.template.js`). Flags of the page and the
preferences the host keeps; no text depends on them.

**Themes, typography, images, exports** - each an asynchronous job whose result may come
late or twice.

**HTML preview** (`V/browser/htmlPreview/`). A debounced push to a page.

**Outline, find and replace, diagrams, other node views, home view, word count, the
former canvas (`vswordCanvasAction.ts`, no longer imported), build scripts, Code OSS** -
rendering, sequential commands, unused or vendored code; not modelled.

`PROJECT.json` lists all of them with their files, and the hazards of the code, each at
its line.

## 2. Modules

| module | what it is |
| --- | --- |
| `Document` | abstract: what an editor of one file promises |
| `RoundtripSave` | documents, sessions and reports; `PickSavePath`, `AssembleIncremental`, `BytesFor` |
| `MilkdownWorkingCopy` | one file, its working copy, the host handlers around it, the page as the host sees it |
| `MilkdownWorkingCopy_proofs` | its theorems |
| `MilkdownWorkingCopy_refinement` | the proof that it implements `Document` |
| `EntryPage` | the page, the queue of messages to the host, and the text the host has and has stored |
| `EntryPage_proofs`, `EntryPage_edits` | its theorems |
| `CanvasBoard` | one folder, its canvas, the handlers of the host and the page |
| `CanvasBoard_proofs` | its theorems |
| `Outline` | abstract: a tree of topics and what each edit of a mindmap asks of it |
| `MindmapXml` | the operations of `mindmapXml.ts` on the tags of a file |
| `MindmapFile` | a `.mm` file, its page and the handlers, with `MindmapXml` as the edits |
| `MindmapXml_proofs` | lemmas on places, depths and edits of a sequence of tags, and on the tree it stands for |
| `MindmapFile_proofs` | the theorems of the two |
| `WikilinkIndex` | the notes, the host's index and its builds, the page's links |
| `WikilinkIndex_proofs` | its theorems |
| `MCMilkdownWorkingCopy`, `MCCanvasBoard`, `MCMindmapFile` | symmetry sets and maps for TLC |

### 2.1 MilkdownWorkingCopy

A document is a function from block ids to texts, `Absent` for a block it does not
have. Without the tracker one block is enough: only equality of texts matters.

An await ends an action. A `load` is issued, its bytes leave the disk (`ReadLeaves`), and
it ends (`LoadSucceeds`, `LoadFails`); a `save` starts (`Save`, from `RequestSave` or
`TimerFires`), its bytes reach the disk (`WriteLands`), and it ends (`SaveSucceeds`,
`SaveFails`, or `FallBackToFull` when path B is rejected). `save()` writes three
variables in its body, more after its await, and some in `finally`: the two actions have
all of it, including the timer `finally` arms again. There is one save in flight
because of `_saving`, and one load for each reason a load is called for.
`onExternalChange()` reads the file on its own account first, to look whether there is
anything to load: that read is a call of its own (`Reader` has `"check"` besides the
reasons of `load()`), and the load after it reads again.

| code | model |
| --- | --- |
| `_current`, `_saved`, `_dirty`, `_loaded`, `_openedBytes` | `current`, `saved`, `dirty`, `loaded`, `openedBytes` |
| `_saving` and the locals of `save()` | `write` |
| calls of `load()` in flight | `loads` |
| `_dirtyBlockIds`, `_dirtyBlockContents` | `report` |
| `Date.now() < _suppressExternalUntil` | `suppress` |
| where `onExternalChange()` waits | `ext` |
| the file, a watcher event under way, the stored backup | `disk`, `watch`, `backup` |
| the page | `ready`, `typing`, `pushed`, `base`, `message`, `epoch` |

`drift` is history: a set of reasons for which the file may differ from what the copy
believes saved. Each is booked by the step that brings it about, from what happens in that
step and never from comparing the two texts: `"foreign"` when another program writes,
`"told"` when the user was asked about it, `"rejected"` when a write ends in a rejection though
its bytes had landed, `"overlap"` when a save lands while a load holds bytes it has read
before. They are struck off when the file is read or written with nothing else under way.
`Env` says which of the surroundings an instance has: the watcher, other programs,
compositions, reverts, rejected calls, a page loaded anew, a window that dies, closing, the
tracker, a save before the first load (`"early"`).

Left out: deletion of the file (the code shows a message and does nothing else), the
text of messages, the save reply to the page, and everything of the contribution that
is not about the copy.

`Document` is the abstract specification. Its steps are `Edit`, the four steps of a save
(`Begin`, `Land`, `Confirm`, `GiveUp`), `Read` and `Follow` of a load, `Foreign` and
`Restart`. The refinement mapping takes `file` for `disk`, `text` for `current`, `agreed`
for `saved`; `writing` is the snapshot of the save in flight with a flag that its bytes
have landed, and `reads` is the set of bytes that loads in flight have read. What it
adds to the invariants is about steps: the file gets the text the save began with, as a
whole and once; a save is confirmed only after that; the text is replaced only by
something the file held when a read left it. With the tracker the copy is no `Document`:
path B may fail after its bytes landed and write another text.

### 2.2 CanvasBoard

A card is an id with a path, or with `NoPath` for a text card. `call` has what each
handler is doing: `load`, then `work` (the stat of a restore, the trash of a deletion,
the name of an import), `create`, `save`, and for messages that refresh the page
`reload`, `list`, `post`. A read happens when its promise settles; what a handler
computes after it is its own until it writes. `saveCanvas()` is one step. Messages that
change places, sizes or the viewport only are `rewrite`: they write back what they
loaded. React Flow (external) reports the edges that go with a deleted card in a
message of their own before the card's, so `DeleteCard` starts two handlers. A deletion keeps
the edges that have both ends among the cards left (`Remaining`), whatever the board had.

A read of `canvas.json` that is rejected gives a discovered canvas, as in the `catch` of
`loadCanvas()`; a scan that is rejected gives an empty one.

Left out: places and sizes, messages with several items at a time (one of each is sent),
images, which go to an `assets` folder, what imported files contain, and a second window
on the same folder (within one window `open()` shows the tab that exists). `Ready` and `Reopen` wait until no handler is under way, a bound.

### 2.3 EntryPage

A text is a function from chunks to versions: as on the disk (`Raw`), parsed and
serialized (`Norm`), the number of the edit that changed it last, or `Gone`. `tail` is
`pendingChunks`: the chunks after `loaded`. The await of `loadNextProgressiveChunk()`
splits it in `Fetch` (called by `Scroll`, `LoadAll` or the loop of `CreateEditor`) and
`FetchEnds`; a call of an editor that is gone ends in `StaleFetchEnds`, which releases the
busy flag of the new one, as the `finally` block does. `heard` stands for the 200 ms of
the listener: it is set by edits and by chunks, and `ListenerFires` handles all of them
at once, in whatever mode the page is by then. `typed` is the armed timer of the source mode,
which fires at any time, also after the mode was left. Whether the library still calls the
listener of an editor that was destroyed is not known; the code only asks whether some editor
is initialized, so `late` keeps such a call and `LateListenerFires` may make it at any time, or
never. `toHost` is the queue of messages to the host; a save stores what the host has when the
message is handled, not the text that comes with it.

Two variables are history. `due` has for each chunk its last edit, unless a reload replaced the
text. `lapse` has what has happened by which this page may lose an edit, each booked in its
step: `"hasty"`, the mode was changed while an edit had not been told yet (the listener not
called, or the timer of the source armed); `"crossed"`, the listener or the last chunk posted
the editor's own text while the user was in the source; `"late"`, the listener of a destroyed
editor was called. Each does lose edits in the code (section 5); the properties show that
nothing else does.

`Env` separates what the surroundings do: `"source"`, the user uses the source mode;
`"reload"`, the host loads the file again; `"eager"`, format and table of contents commands are
given while chunks are pending.

Left out: rendering, menus and the status line, Markdown the parser rejects, and a
`createEditor()` that starts while another has not mounted its editor yet.

### 2.4 Outline, MindmapXml, MindmapFile

A file is the sequence of its tags. `MindmapXml` has one operator per operation of
`mindmapXml.ts`, each finding its place by counting tags as the code does. `Outline` has
the same operations on a tree, written without tags, from what the page asks for.
`MindmapFile` has the page, which posts a message for each edit, and handlers that read,
mutate, write and answer. The drawing library of the page (external) draws an edit before the
host answers, and it undoes, pastes and inserts parents without telling the host
(`mindmapHtml.ts:508-581`): `page` is therefore what the host last drew, not what the user sees, and
a move may name any topic for the parent the page shows. No property says that page and file
agree, since they need not. An icon, a font or a relation line is one tag that closes itself or,
written by another program, an opening and an `"end"` tag; the code changes and removes the one
tag it finds in either case. `Parents` reads the shape of the tree from the tags by the code's
own count, without folding them. One `retext` stands for `updateNodeText`, folding and colours,
one kind of mark for icons, fonts and edges: they go through the same code but for the
attribute. `Opened` is a constant: the maps a user may open, any that are well formed and
have a name for each topic (`OpenedAssumption`); `ClosingThemselves` says of them that icons,
fonts and lines are single tags, as FreeMind and VSWord write them. What the code names by the time and a
random number gets the next number here.

Left out: blanks, quoting and unknown XML between the tags, the conversion for the drawing
library, `updateMindmapSummary` and `removeMindmapSummary`. The last two look for the
`<hook>` inside the opening tag of its node, find none, and change nothing; the page posts
the first topic only of a selection that is moved or removed.

### 2.5 WikilinkIndex

`index` is `wikilinkIndex`, `promise` the build that is waited for, `build` what each build
has listed and which requests wait for it. A build that was dropped by `Invalidate` goes
on, stores its listing and clears whatever promise is there. A note is created or
deleted by anybody (`Change`) and the watcher reports it later (`WatcherReports`), to
nobody if there is neither index nor promise. `overtaken` is history: a note changed after
a build listed the folder and before it stored the listing; the code has no defence
against that, and the properties make no claim until the index is dropped again.
A note made from a click (`Created`) drops the index and answers; when its editor cannot be
opened it does neither, though the note is there.

Left out: links that match several notes, the graph of backlinks, autocompletion and
previews, folders added to the workspace. `buildWikilinkIndex()` asks `resolve()` for one level, so only notes
directly in the root folders are ever listed; `notes` are those.

## 3. Runs

| run | instance | shows | states |
| --- | --- | --- | --- |
| `core` | the editor as it ships: one block, two texts; watcher, other programs, rejected calls, a page loaded anew | `TypeOK`, `DirtyIsHonest`, `SavedIsOnDisk`, and `IsDocument`: it implements `Document` | 900 000 |
| `settles` | the watcher, closing, early saves, rejected calls, compositions | `AutosaveArmed`, `Settles` (liveness) | 360 000 |
| `blocks` | the tracker, two blocks, one editor, rejected calls | `SaveWritesSnapshot`, `BaselineFits` when a save mixes reported and untouched blocks | 420 000 |
| `editors` | the tracker, one block, two editors, reverts, a window that dies | `ReportFitsSession` when sessions and reports are of different editors | 3.3 million |
| `page` | two chunks, an edit or reload, two fetches, two messages in the queue, source mode | `TypeOK`, `WholeDocument`, `EditsReachHost` | 2.4 million |
| `stored` | the same with one fetch and one message | `EditsAreStored` (liveness) | 210 000 |
| `links` | one note, two builds, three changes, four messages of the page, rejected calls | `TypeOK`, `IndexIsFresh`, `LinksAreFresh`, `DialogIsHonest`, `ClicksAreAnswered` (liveness) | 310 000 |
| `mindmap` | three files of up to four topics, two handlers, all edits but summaries, rejected calls | `FileIsSound`, `EditsAreAsked` | 200 000 |
| `overlap` | canvas: two handlers, two children, four messages or changes of others, all surroundings | `TypeOK`, `OneCardPerPath` | 1.6 million |
| `serial` | canvas: one handler, seven messages | `BoardReflects` | 400 000 |
| `overwrite`, `format` | the smallest surroundings that show it | that the code does otherwise than its documents say, section 5 | |

`SavedIsOnDisk` and the last part of `Settles` excuse three things only, each booked where it happens:
the text believed saved and the file differ between calls because another program wrote, a
rejected write had landed, or a save landed under a load that held older bytes. The last
two are faults of the program, and section 5 lists them: the property does not say they
cannot happen, it says that nothing else parts the two. The same holds of `EditsReachHost`
and the three lapses.

Bounds, and why they are enough. *Working copy*: two texts, since all comparisons are
between two texts at a time, and the interesting case is that an edit goes back to what
is saved. Two blocks: one a report names, one it does not. `MaxEpoch` 2: a session and the
one before it. *Page*: two chunks make a first and a pending one. One edit is enough
to be lost; two fetches make one of the editor and a stale one; two messages make an edit and a
save that overtakes it or is overtaken. Two edits, or an edit and a reload, with all of that are
more than TLC gets through in minutes: `EP_edits.cfg`, beside the runs, has them with one fetch and
one message (3.6 million states), and beyond that there are the theorems. Liveness costs TLC
more than safety, hence the smaller `stored`. *Links*: with one note every request is about the note that changes; two
builds are the dropped one and the one after it; three changes take a note away, back and
away again. *Mindmap*: the files have a self-closing root, a chain of three and a fork
with a mark and a line, so that every operation meets self-closing and open nodes,
subtrees before, after and inside one another; two handlers, since the hazards are between
two reads and two writes. *Canvas*: likewise two handlers; two children, one of which the
first scan skips: one is on the board without being put there; four messages are `ready`, an
edge, a card deleted with its edge's message, or three handlers after `ready`. `MaxId` only
has to be large enough for these. Deadlock is not checked where messages or edits run
out or a closed copy may stop.

Fairness. `settles`: timers fire, reads settle, the watcher's events are delivered, the
two seconds after a save pass: weak fairness, since nothing disables them for good.
Writes are retried by the timer after a rejection and may be rejected again and again,
but not every time: strong fairness of `WriteLands` and `SaveSucceeds`. Nobody has to
type, save, answer a dialog, end a composition or close the editor; `Settles` speaks of
behaviours in which they eventually leave the copy alone and no composition is open.
`stored`: timers fire, awaits settle and messages are delivered. The actions that post a
message are strongly fair, because the bound on the queue, which the code has not, may
disable them for a while. The user need not do anything, nor need the listener of a
destroyed editor be called. `links`: builds end, messages
are delivered, and the user answers a question sooner or later (a modal dialog of the
window); nobody has to click or to change a note.

Every property of a passing run has a mutant in its module, a definition changed the way
a bug would change it (`RearmNever`, `MissingAlways`, ...), under which TLC finds the
property violated.

## 4. Theorems

All are proved by TLAPS for every value of the constants, from the named assumptions of
the modules (`Absent`, `Torn` and `None` are no texts, `Env` is a set of known events).

`MilkdownWorkingCopy_proofs`:

- `TypeCorrect`: `Spec => []TypeOK`.
- `DirtyAlwaysHonest`: `DirtyIsHonest` is inductive by itself, once the types are known:
  each action that changes `current` or `saved` sets `dirty` from the two.
- `AutosaveAlwaysArmed`: from the honest dirty flag, for surroundings without reverts
  that are rejected (`~({"failure", "revert"} \subseteq Env)`). A revert cancels the timer
  before it reads; when the read is rejected the copy stays dirty and nothing is armed.
- `SavedIsAlwaysOnDisk`: for the editor as it ships (`"tracker" \notin Env`), so that every
  save takes path C. `SavedInv` says more than the property: a save writes its
  snapshot (`FullSavesOnly`), `onExternalChange()` waits where its calls are (`HandlerInv`), and
  `DiskIsKnown`: while no cause is booked, the file is what any load has read, what a save has
  landed, and what the copy believes when neither is under way. The steps that would break
  it are those that book a cause, and they do so without looking at the texts.
- `ReportAlwaysFits`: for a page that is not loaded a second time while the copy lives
  (`"remount" \notin Env`), with any number of editors, loads and reverts. `ReportInv` relates the
  report to the text in memory and to the parse of the current editor, and the epochs of
  parses under way to that of the page.
- `BaselineAlwaysFits`, `SavesWriteSnapshot`: for files that are loaded once (`LoadsOnce`: no
  reverts, watcher, second page or save before the load), with the tracker, rejected calls,
  fallbacks, restarts and closing. `OnceInv` says that until the host has the parse of the page's
  editor the copy is unedited, so that the source the host gives the session is the text
  the page has parsed; with that the session, the source and the opened bytes are of one text
  until a save clears them. From this and `ReportInv` the bytes of any path are the snapshot on every block
  the text has. That sessions are not stale is a conclusion here, not an assumption. Where a
  file is loaded twice it is false (`SessionIsOfOneText`, section 5).

`MilkdownWorkingCopy_refinement`: `CopyIsDocument`, `Spec => Document!Spec` for the editor
without the tracker. The steps of the copy are mapped action by action under an invariant
that joins the types, the honest dirty flag and two facts about calls in flight: a save
writes the bytes of its snapshot (path C), and bytes a load has read are in `reads`.

`EntryPage_proofs`: `TypeCorrect`, whatever the user does, and `HostIsWhole`, without `"eager"`,
for any number of chunks, edits, fetches and messages. The invariant says that everything a text
can be made of is whole: the document up to `loaded`, the text as opened wherever a chunk is
pending, the source while it is shown or its timer armed, and every message under way. Haste
and crossing lose edits, never chunks; a destroyed editor may post one without them, so
`WholeDocument` excuses `"late"`.

`EntryPage_edits`: `EditsAlwaysReachHost`, without `"eager"`. All timers fire when they like. The mode the user
works in has the last edits: the source's text, or the editor with its pending chunks
behind it; and the text as opened alone, where `serialize()` would return it. Whenever
nothing is left to be heard and no timer is armed, the last text under way has them too.
`LapseInv` says this as long as `lapse` is empty, and `lapse` never shrinks.

`WikilinkIndex_proofs`: `TypeCorrect`, `IndexAlwaysFresh`, `LinksAlwaysFresh`,
`DialogAlwaysHonest`, for any notes, builds and messages. The invariant follows a listing
from `List` to the paint of a link: unless overtaken, a listing not yet stored, the index,
and every answer under way with no `workspaceIndexChanged` behind it are those of the notes
there are, or the watcher still has a report to make.

`MindmapFile_proofs`: `FileAlwaysSound`: `FileIsSound` for any maps that are well formed when
opened and have single tags for icons, fonts and lines (`ClosingThemselves`), any number
of handlers and messages, overlaps and rejected calls; without `"summary"`, since
`addMindmapSummary()` tears a tag. Section 5 has what happens without either.
`FInv` adds to the file what is about to be written: it is well formed, and no name in it is
one that a new topic may get, whatever the file has become since it was read. Two handlers
that overlap lose an edit; they do not break the tree, as each writes a whole text made from
a whole text.

The weight is in `MindmapXml_proofs`, which shows of each operation of `mindmapXml.ts` that it
takes sound tags to sound tags, on maps of any size. It reads the counters of the code as
depths: `DepthAt(x, k)` is what is opened and not yet closed after `k` tags, and the loops
that look for a closing tag or for the node around a tag stop where the depth is again what
it was. `SpliceDepth` says what happens to all depths when tags are replaced. From it come
the three ways a text may be changed (`SpliceSound`, `InsertSound` with `CutSound`,
`ExpandedSound`), then one lemma for each operation. `MoveSound` is the hard one: the place a
subtree goes to is found in the text it is still in, and `applyXmlEdits()` applies the later
of the two edits first; `LaterFirst` shows that this comes to the same as the earlier
first with the place moved, `EndsOutside` that the place is not within the subtree that is
cut. Facts about the first place of a kind are got from the well-foundedness of `<`, since
no induction theorem can be used.

`TopicsAlwaysStay`: `TopicsStay` on the same terms. It is the shape part of `EditsAreAsked`, stated
for the proof: the run checks the whole on small maps, the theorem this part on all. `Parents(x)` is the tree the tags stand
for, as each topic's name with that of the topic it is in; the theorem says what an edit does
to this function, and that is one changed, one added, or a pruned subtree's entries, for
maps of any size. The argument is about single places first. `Around(x, j, k)` says that the
element opened at `j` is the one the place before `k` is in; `findParentNodeId()` finds it
(`AroundEncloses`), and in a well-formed map there is one (`SoundAround`). When something
balanced takes the place of something balanced, every other tag stays in the element it was
in and what is new at its top comes into that of the place (`SwapEnclosing`). So `Parents`
of the new text is what is kept of the old with what comes grafted on (`SwapParents`), and
the operations are cases of it: something put in (`InsertParents`, `ExpandedParents`), cut
out (`CutParents`), or both (`RegraftIs`, `CutAndPasteParents`, `MoveIntoParents`). For a
move the guard counts by which the page's parent has to be the file's; without it the
subtree would end next to the target, under a topic the page does not show there. The order
among siblings, marks, lines and texts are not in `Parents`; `EditsAreAsked` has them.

`CanvasBoard_proofs`: `Invariant` says that every whole canvas around - on disk, on the
page, in a handler - has one card for each path, and that a handler about to add a card
has looked for one in the canvas it holds. `TypeCorrect` and `OneCardAlways` follow, for
any number of handlers, children and messages. `BoardAlwaysReflects` is for one handler at
a time, no rejected call and no other program (`Undisturbed`). Its invariant speaks of the
children a load would give a card now, since canvas.json may not exist yet: a board at rest
shows those, a handler that posts no view leaves such a board and saves those, and one that
posts a view has read those. The cards the page takes off before its message arrives need
no clause: that handler posts a view in the end.

Only model-checked: the liveness properties `Settles`, `EditsAreStored`,
`ClicksAreAnswered` (out of reach of the prover); `EditsAreAsked`, which compares what
`parseMindmapXml()` folds from the tags before and after an edit, so that its proof is an
induction over sequences of tags (`TopicsStay` is the part of it that needs none); and the
violations.

## 5. Where code and documents differ

Two are runs that find a property violated; `PROJECT.json` quotes the documents.

1. `NoSilentOverwrite` (`overwrite`): a save never looks at the disk; another program's
   write is lost when the timer is faster than the watcher.
2. `WholeDocument` (`format`): formatting a large document posts and saves what is loaded;
   the chunks still pending are gone. The table of contents does the same.

Five more have a configuration beside those of the runs, under which TLC finds them violated in a
few steps (`tlc -config <cfg> <module>`):

| property, configuration | what happens, against what is said |
| --- | --- |
| `OnlyCleanFollows`, `WC_OnlyCleanFollows.cfg` | `onExternalChange()` asks for the dirty flag before two awaits; text typed meanwhile is replaced and the flag cleared. Comment at `milkdownEditorContribution.ts:578` |
| `SessionIsOfOneText`, `WC_SessionIsOfOneText.cfg` | A revert between the page's parse and its `sessionReady`: the ranges of the old text are kept with the source of the new, and path A or B may write a mixture. Comment at `milkdownWorkingCopy.ts:240`. Needs the tracker |
| `NoEditLost`, `EP_NoEditLost.cfg` | The source mode is entered while a chunk is under way, the user types, the source's timer posts it; the listener hears the chunk 200 ms later and posts the editor's text over it (`entry.template.js:834`, and 610 after the last chunk). ADR 0003, line 95 |
| `FileIsSound`, `MM_FileIsSound.cfg` | A summary over a topic with children is written into the middle of its tag (`mindmapXml.ts:1369`), and the file is no longer XML. FR-02, line 230 |
| `FileIsSound`, `MM_paired.cfg` | An icon written as `<icon ...></icon>` is removed, a font or line so written is changed or removed: the closing tag stays (`mindmapXml.ts:571`, 722, 918, 935). FR-02, line 230 |

Others are behaviours of the models that nothing checks, because the property is false:

- `SaveSucceeds` under a load (`"overlap"` in `drift`): a load reads the file, a save lands, the load
  ends with the older bytes. The copy is clean over a file with other bytes, until one of
  them is read or written again; the watcher's event is dropped by the two seconds after
  the save.
- A write that landed and was rejected, followed by an edit back to the text believed saved
  (`"rejected"`): likewise clean over another file.
- A block that was deleted is in no report of the tracker, and paths A and B write it again.
  `SaveWritesSnapshot` is about the blocks the text has.
- A page that is loaded a second time while its copy lives counts its editors from one again,
  so a report of the first page may pass for one of the second (`ReportFitsSession` with
  `"remount"`).
- `Save` before the first load writes the empty text of a fresh copy over the file.
- `Restart`: backups are stored and never read.
- `Loaded` of `CanvasBoard`: on a folder without `canvas.json` the ids of the page are unknown
  to the host, and the first deletion comes back.
- A drag or a pan that loaded the canvas before a restore was saved takes the restored
  card off again. Two edits of a mindmap that overlap lose one in the same way.
- `"hasty"` in `lapse` of `EntryPage`: a large document is edited and switched to the source mode
  within 200 ms; `serialize()` returns the text as opened, and the edit is gone. Or the source
  is left within 300 ms of typing: its timer posts the older text after the new editor's.
- `"late"`: if the library calls the listener of an editor that was destroyed, a reload is
  followed by the text from before it.
- A map edited by the page's own undo, paste or insertion of a parent is not saved: the host is
  told of none of them.
- `Confirm` of `WikilinkIndex`: a note that came to be while the question stood is overwritten
  with the seed text.
- `invalidateWikilinkCache()` "re-requests all live links", says its comment
  (`webview/wikilink.template.js:69`); it repaints them as pending and asks for none, so a link
  stays pending until its node is built anew. For that reason there is no property that
  every link is resolved in the end.

## 6. Not modelled, and what could come next

The directory models the parts of `V` in which callbacks, timers or handlers share state
and text may get lost. Most of the repository is Code OSS, on which VSWord is built, with
its extensions: it is the environment here (file service, watcher, webviews), not the
subject. Of `V` itself there remain:

- rendering, menus, input rules, diagrams, outline, find and replace: sequential, derived
  from the document on each change;
- themes, typography, image upload, exports, HTML preview: single asynchronous requests
  that change no document;
- the plugin of the tracker, which the page does not start: what it may report is the
  input `TrackerReports`;
- ambiguous wikilinks, backlinks and previews.

What would add most: the composition of `EntryPage` with
`MilkdownWorkingCopy` in place of the two variables `host` and `stored`.

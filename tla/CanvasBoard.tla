---------------------------- MODULE CanvasBoard ----------------------------
(***************************************************************************)
(* The canvas of one folder: canvas.json, the children of the folder, the   *)
(* handlers of the host and the board the page shows.                       *)
(*                                                                         *)
(* Every message of the page starts a handler of its own, and a handler     *)
(* awaits: it loads the whole canvas, changes it, writes the whole canvas   *)
(* back and may send the page a fresh view. Nothing orders two handlers.    *)
(* Places, sizes and the viewport are left out, so the three messages that  *)
(* only change those write back what they loaded.                           *)
(***************************************************************************)
EXTENDS Naturals

CONSTANTS
  Path,         \* what can be a direct child of the folder
  Discoverable, \* those the first scan of the folder makes cards of
  Call,         \* bound: handlers under way at a time
  MaxId,        \* bound: how often fresh ids are made
  MaxInputs,     \* bound: messages of the page, changes of others
  NoPath,       \* the path of a text card
  None,         \* a file, page or canvas that is not there
  Env           \* what the surroundings do in this instance

\* external  other programs create and delete children of the folder
\* failure   the file service rejects
\* reopen    the tab is closed and opened again
\* edges     the user draws edges
ASSUME EnvAssumption == Env \subseteq {"external", "failure", "reopen", "edges"}
ASSUME PathAssumption == NoPath \notin Path /\ Discoverable \subseteq Path
ASSUME BoundAssumption == MaxId \in Nat /\ MaxInputs \in Nat

VARIABLES
  folder,  \* the direct children that exist
  file,    \* canvas.json, None before the first save
  nextId,  \* the ids made so far
  page,    \* the board of the page, None before the first folderData
  call,    \* what each handler is doing
  inputs    \* the messages and changes of others so far

vars == <<folder, file, nextId, page, call, inputs>>

\* A node with its id; the path of a node never changes, so two nodes with one id
\* are one node.
Card == [id : 0..MaxId, path : Path \union {NoPath}]
Edge == [from : Card, to : Card]
Canvas == [cards : SUBSET Card, edges : SUBSET Edge]

ASSUME NoneAssumption == None \notin Canvas

Paths(canvas) == {card.path : card \in canvas.cards} \ {NoPath}

\* Mutant: an import leaves the page as it is.
RefreshingAllButImport == {"nodesDeleted", "restore", "deleteItems", "text"}

\* Messages by what their handlers do: rewrite stands for nodesMoved,
\* viewportChanged and, when the node exists, nodeResized.
Refreshing == {"nodesDeleted", "restore", "deleteItems", "import", "text"}

Message ==
       [op : {"ready", "rewrite", "text"}]
  \union [op : {"nodesDeleted"}, cards : SUBSET Card]
  \union [op : {"edgeCreated", "edgesDeleted"}, edges : SUBSET Edge]
  \union [op : {"restore", "deleteItems", "import"}, path : Path]

\* reload: postFolderData() has asked for the canvas again.
Phase == {"load", "work", "create", "save", "reload", "list", "post"}

Idle == [phase |-> "idle"]

\* paths: the name picked for an import, then the staged items to be posted.
Handler == [phase : Phase, message : Message, doc : Canvas \union {None},
            paths : SUBSET Path]

\* Every variable has its type, the handlers under way included.
TypeOK ==
  /\ folder \in SUBSET Path
  /\ file \in Canvas \union {None}
  /\ nextId \in 0..MaxId /\ inputs \in 0..MaxInputs
  /\ page \in [canvas : Canvas, tray : SUBSET Path] \union {None}
  /\ call \in [Call -> Handler \union {Idle}]

\* A folder never opened as a canvas, or one whose canvas was saved empty.
Init ==
  /\ folder \in SUBSET Path
  /\ file \in {None, [cards |-> {}, edges |-> {}]}
  /\ nextId = 0 /\ page = None /\ inputs = 0
  /\ call = [c \in Call |-> Idle]

----------------------------------------------------------------------------
(* The service *)

\* Mutant: the scan gives the children as they were listed.
DiscoveredPaths == [cards |-> folder \intersect Discoverable, edges |-> {}]

\* loadCanvas() when the file cannot be read: one card for each child, with fresh
\* ids. Nothing is written.
Discovered ==
  [cards |-> {[id |-> nextId, path |-> p] : p \in folder \intersect Discoverable},
   edges |-> {}]

\* What loadCanvas() may give. A read that is rejected is taken for a file that is
\* not there, a scan that is rejected for an empty folder.
Loaded ==
  (IF file # None THEN {file} ELSE {Discovered})
    \union (IF "failure" \in Env THEN {Discovered, [cards |-> {}, edges |-> {}]} ELSE {})

\* A handler that makes cards, or whose load does, takes an id.
TakesId(makesCard, canvas) ==
  IF makesCard \/ (canvas # file /\ canvas.cards # {})
  THEN nextId < MaxId /\ nextId' = nextId + 1
  ELSE UNCHANGED nextId

Touching(canvas, gone) == {e \in canvas.edges : e.from \in gone \/ e.to \in gone}

Without(canvas, gone) ==
  [cards |-> canvas.cards \ gone, edges |-> canvas.edges \ Touching(canvas, gone)]

\* Of deleted items the edges that are kept are those between cards that remain, where
\* a canvas has edges of cards it has lost before.
Remaining(canvas, gone) ==
  LET left == canvas.cards \ gone
  IN  [cards |-> left, edges |-> {e \in canvas.edges : {e.from, e.to} \subseteq left}]

WithCard(canvas, path) ==
  [canvas EXCEPT !.cards = @ \union {[id |-> nextId, path |-> path]}]

\* Mutant: a staged item is put back whatever the canvas has.
MissingAlways(canvas, path) == TRUE

\* restoreStagedItems() and importFiles() leave a path alone that has a card.
Missing(canvas, path) == path \notin Paths(canvas)

\* listStagedItems(): children of the folder without a card.
Staged(canvas) == folder \ Paths(canvas)

----------------------------------------------------------------------------
(* The page *)

Begins(m) ==
  [phase |-> IF m.op = "ready" THEN "reload" ELSE "load",
   message |-> m, doc |-> None, paths |-> {}]

\* A message of the page starts a handler.
Start(c, m) ==
  /\ call[c] = Idle /\ inputs < MaxInputs
  /\ inputs' = inputs + 1
  /\ call' = [call EXCEPT ![c] = Begins(m)]

\* The page tells its host that it is there.
Ready(c) ==
  /\ page = None
  /\ \A d \in Call : call[d] = Idle
  /\ Start(c, [op |-> "ready"])
  /\ UNCHANGED <<folder, file, nextId, page>>

\* Moving and resizing cards, panning and zooming; a text card; staged items put
\* back or deleted for good; files dropped or pasted.
Request(c) ==
  /\ page # None
  /\ \/ Start(c, [op |-> "rewrite"])
     \/ Start(c, [op |-> "text"])
     \/ \E p \in page.tray :
          \E op \in {"restore", "deleteItems"} : Start(c, [op |-> op, path |-> p])
     \/ \E p \in Path : Start(c, [op |-> "import", path |-> p])
  /\ UNCHANGED <<folder, file, nextId, page>>

\* The user deletes a card; the page takes it off its board at once. React Flow
\* reports the edges that go with it first, in a message of their own.
DeleteCard(c) ==
  /\ page # None
  /\ \E card \in page.canvas.cards :
       /\ LET m == [op |-> "nodesDeleted", cards |-> {card}]
              edges == Touching(page.canvas, {card})
          IN  IF edges = {}
              THEN Start(c, m)
              ELSE \E d \in Call \ {c} :
                     /\ call[c] = Idle /\ call[d] = Idle /\ inputs + 1 < MaxInputs
                     /\ inputs' = inputs + 2
                     /\ call' = [call EXCEPT ![c] = Begins(m), ![d] =
                          Begins([op |-> "edgesDeleted", edges |-> edges])]
       /\ page' = [page EXCEPT !.canvas = Without(page.canvas, {card})]
  /\ UNCHANGED <<folder, file, nextId>>

\* The user draws or deletes an edge.
DrawEdge(c) ==
  /\ "edges" \in Env /\ page # None
  /\ \E e \in [from : page.canvas.cards, to : page.canvas.cards] :
       \/ /\ e \notin page.canvas.edges
          /\ Start(c, [op |-> "edgeCreated", edges |-> {e}])
          /\ page' = [page EXCEPT !.canvas.edges = @ \union {e}]
       \/ /\ e \in page.canvas.edges
          /\ Start(c, [op |-> "edgesDeleted", edges |-> {e}])
          /\ page' = [page EXCEPT !.canvas.edges = @ \ {e}]
  /\ UNCHANGED <<folder, file, nextId>>

\* The tab is closed and opened again; bound: when no handler is under way.
Reopen ==
  /\ "reopen" \in Env /\ page # None
  /\ \A c \in Call : call[c] = Idle
  /\ page' = None
  /\ UNCHANGED <<folder, file, nextId, call, inputs>>

----------------------------------------------------------------------------
(* The handlers *)

In(c, phase) == call[c] # Idle /\ call[c].phase = phase

\* The handler goes on to its next await.
Steps(c, phase, doc, paths) ==
  call' = [call EXCEPT ![c] = [phase |-> phase, message |-> call[c].message,
                               doc |-> doc, paths |-> paths]]

Goes(c, phase, doc) == Steps(c, phase, doc, {})

Ends(c) == call' = [call EXCEPT ![c] = Idle]

\* loadCanvas() resolves; what the handler does up to its next await.
LoadLands(c) ==
  /\ In(c, "load")
  /\ \E d \in Loaded :
       /\ LET m == call[c].message IN
          CASE m.op = "rewrite"      -> Goes(c, "save", d)
            [] m.op = "nodesDeleted" -> Goes(c, "save", Without(d, m.cards))
            [] m.op = "text"         -> Goes(c, "save", WithCard(d, NoPath))
            [] m.op = "edgesDeleted" ->
                 Goes(c, "save", [d EXCEPT !.edges = @ \ m.edges])
            [] m.op = "edgeCreated"  ->
                 IF m.edges \subseteq d.edges
                 THEN Ends(c)
                 ELSE Goes(c, "save", [d EXCEPT !.edges = @ \union m.edges])
            [] m.op = "restore"      ->
                 IF Missing(d, m.path)
                 THEN Goes(c, "work", d)
                 ELSE Goes(c, "reload", None)
            [] m.op \in {"import", "deleteItems"} -> Goes(c, "work", d)
       /\ TakesId(call[c].message.op = "text", d)
  /\ UNCHANGED <<folder, file, page, inputs>>

\* nodeResized ends when the canvas has no such node.
ResizeNothing(c) ==
  /\ In(c, "load") /\ call[c].message.op = "rewrite"
  /\ \E d \in Loaded : TakesId(FALSE, d)
  /\ Ends(c)
  /\ UNCHANGED <<folder, file, page, inputs>>

\* restoreStagedItems(): the child is there and gets a card.
RestoreItem(c) ==
  /\ In(c, "work") /\ call[c].message.op = "restore"
  /\ call[c].message.path \in folder
  /\ Goes(c, "save", WithCard(call[c].doc, call[c].message.path))
  /\ nextId < MaxId /\ nextId' = nextId + 1
  /\ UNCHANGED <<folder, file, page, inputs>>

\* deleteWorkspaceItems(): the child goes to the trash, its cards and their edges
\* leave the canvas.
DeleteItem(c) ==
  /\ In(c, "work") /\ call[c].message.op = "deleteItems"
  /\ call[c].message.path \in folder
  /\ folder' = folder \ {call[c].message.path}
  /\ Goes(c, "save", Remaining(call[c].doc,
       {card \in call[c].doc.cards : card.path = call[c].message.path}))
  /\ UNCHANGED <<file, nextId, page, inputs>>

\* The child is gone, the name was taken in the meantime, or the file service
\* rejects: counted as failed, nothing is saved.
WorkFails(c) ==
  /\ \/ /\ In(c, "work")
        /\ \/ "failure" \in Env
           \/ /\ call[c].message.op # "import"
              /\ call[c].message.path \notin folder
     \/ /\ In(c, "create")
        /\ "failure" \in Env \/ call[c].paths \subseteq folder
  /\ Goes(c, "reload", None)
  /\ UNCHANGED <<folder, file, nextId, page, inputs>>

\* getUniqueChildUri(): the name itself, or one with a number that is free now.
PickName(c) ==
  /\ In(c, "work") /\ call[c].message.op = "import"
  /\ LET p == call[c].message.path IN
     \E target \in IF p \in folder THEN Path \ folder ELSE {p} :
       Steps(c, "create", call[c].doc, {target})
  /\ UNCHANGED <<folder, file, nextId, page, inputs>>

\* createFile() asks once more whether the file exists, then writes it: another
\* handler may have created the file before either. The stat after it may fail.
CreateFile(c) ==
  /\ In(c, "create")
  /\ \E target \in call[c].paths :
       /\ folder' = folder \union {target}
       /\ \/ /\ Missing(call[c].doc, target) /\ nextId < MaxId
             /\ Goes(c, "save", WithCard(call[c].doc, target))
             /\ nextId' = nextId + 1
          \/ /\ ~Missing(call[c].doc, target) \/ "failure" \in Env
             /\ Goes(c, "reload", None)
             /\ UNCHANGED nextId
  /\ UNCHANGED <<file, page, inputs>>

\* saveCanvas() replaces the whole file.
SaveLands(c) ==
  /\ In(c, "save")
  /\ file' = call[c].doc
  /\ IF call[c].message.op \in Refreshing
     THEN Goes(c, "reload", None)
     ELSE Ends(c)
  /\ UNCHANGED <<folder, nextId, page, inputs>>

\* saveCanvas() is rejected: the handler throws and posts an error only.
SaveFails(c) ==
  /\ "failure" \in Env
  /\ In(c, "save")
  /\ Ends(c)
  /\ UNCHANGED <<folder, file, nextId, page, inputs>>

\* postFolderData(): load the canvas again, list the folder, post both.
ReloadLands(c) ==
  /\ In(c, "reload")
  /\ \E d \in Loaded : Goes(c, "list", d) /\ TakesId(FALSE, d)
  /\ UNCHANGED <<folder, file, page, inputs>>

ListLands(c) ==
  /\ In(c, "list")
  /\ \E staged \in {Staged(call[c].doc)} \union (IF "failure" \in Env THEN {{}} ELSE {}) :
       Steps(c, "post", call[c].doc, staged)
  /\ UNCHANGED <<folder, file, nextId, page, inputs>>

PostFolderData(c) ==
  /\ In(c, "post")
  /\ page' = [canvas |-> call[c].doc, tray |-> call[c].paths]
  /\ Ends(c)
  /\ UNCHANGED <<folder, file, nextId, inputs>>

\* Another program creates or deletes a child of the folder.
ExternalChange ==
  /\ "external" \in Env /\ inputs < MaxInputs
  /\ inputs' = inputs + 1
  /\ \E p \in Path :
       folder' = IF p \in folder THEN folder \ {p} ELSE folder \union {p}
  /\ UNCHANGED <<file, nextId, page, call>>

Next ==
  \/ \E c \in Call :
       \/ Ready(c) \/ Request(c) \/ DeleteCard(c) \/ DrawEdge(c)
       \/ LoadLands(c) \/ ResizeNothing(c) \/ RestoreItem(c) \/ DeleteItem(c)
       \/ WorkFails(c) \/ PickName(c) \/ CreateFile(c)
       \/ SaveLands(c) \/ SaveFails(c)
       \/ ReloadLands(c) \/ ListLands(c) \/ PostFolderData(c)
  \/ Reopen \/ ExternalChange

Spec == Init /\ [][Next]_vars

----------------------------------------------------------------------------
(* Properties *)

OneCardEach(canvas) ==
  \A a, b \in canvas.cards : a.path = b.path /\ a.path # NoPath => a = b

\* However the handlers overlap, no child of the folder has two cards: neither in
\* canvas.json nor on the board.
OneCardPerPath ==
  /\ file # None => OneCardEach(file)
  /\ page # None => OneCardEach(page.canvas)

\* Whenever no handler is under way, the board shows the children canvas.json has
\* and every other child is in the tray: nothing is hidden and nothing is shown
\* that is not saved. Handlers that overlap, rejected calls and other programs
\* can break this until the page is refreshed.
BoardReflects ==
  page # None /\ (\A c \in Call : call[c] = Idle) =>
    /\ file # None => Paths(page.canvas) = Paths(file)
    /\ folder \ Paths(page.canvas) \subseteq page.tray

=============================================================================

------------------------- MODULE CanvasBoard_proofs -------------------------
(***************************************************************************)
(* The types of CanvasBoard, that no child of the folder gets two cards, for *)
(* any number of handlers, messages and children, and what the board shows   *)
(* once a single handler has ended.                                         *)
(*                                                                         *)
(* Every whole canvas that is around - in the file, on the page, in a        *)
(* handler - has one card for each path. A handler that adds a card has      *)
(* looked for one in the same canvas it will save, and that canvas is its    *)
(* own, so a handler in between cannot spoil it.                             *)
(***************************************************************************)
EXTENDS CanvasBoard, TLAPS

\* A canvas of the right type with one card for each path.
Neat == {d \in Canvas : OneCardEach(d)}

\* Phases in which the handler holds the canvas it has loaded.
Holding == {"work", "create", "save", "list", "post"}

\* A handler whose canvas is neat, and which has looked before it adds a card. The
\* one that answers "ready" begins with the view it posts.
Good == {h \in Handler :
          /\ h.doc \in Neat \union {None}
          /\ h.phase \in Holding => h.doc \in Neat
          /\ h.phase = "work" /\ h.message.op = "restore"
               => Missing(h.doc, h.message.path)
          /\ h.phase = "load" => h.message.op # "ready"}

\* The inductive invariant.
IInv ==
  /\ folder \in SUBSET Path
  /\ file \in Neat \union {None}
  /\ nextId \in 0..MaxId /\ inputs \in 0..MaxInputs
  /\ page \in [canvas : Neat, tray : SUBSET Path] \union {None}
  /\ call \in [Call -> Good \union {Idle}]

----------------------------------------------------------------------------
(* What the helpers return *)

\* Idle is not a handler: it has no message.
LEMMA HandlerFields ==
  ASSUME NEW h \in Handler
  PROVE  /\ h = [phase |-> h.phase, message |-> h.message, doc |-> h.doc,
                 paths |-> h.paths]
         /\ h.phase \in Phase /\ h.message \in Message
         /\ h.doc \in Canvas \union {None} /\ h.paths \in SUBSET Path
         /\ h # Idle
BY DEF Handler, Idle, Phase

\* A message has the fields of its kind.
LEMMA MessageFields ==
  ASSUME NEW m \in Message
  PROVE  /\ m.op \in {"ready", "rewrite", "text", "nodesDeleted", "edgeCreated",
                      "edgesDeleted", "restore", "deleteItems", "import"}
         /\ m.op = "nodesDeleted" => m.cards \in SUBSET Card
         /\ m.op \in {"edgeCreated", "edgesDeleted"} => m.edges \in SUBSET Edge
         /\ m.op \in {"restore", "deleteItems", "import"} => m.path \in Path
BY DEF Message

\* The first scan makes one card for each child, all with one id.
LEMMA DiscoveredNeat ==
  ASSUME folder \in SUBSET Path, nextId \in 0..MaxId
  PROVE  Discovered \in Neat
BY DEF Discovered, Neat, Canvas, Card, OneCardEach

\* Whatever a load gives is neat when the file is.
LEMMA LoadedNeat ==
  ASSUME IInv, NEW d \in Loaded
  PROVE  d \in Neat
<1>1. Discovered \in Neat
  BY DiscoveredNeat DEF IInv
<1>2. [cards |-> {}, edges |-> {}] \in Neat
  BY DEF Neat, Canvas, OneCardEach
<1> QED BY <1>1, <1>2 DEF Loaded, IInv

\* Taking cards away, or changing edges, keeps a canvas neat.
LEMMA WithoutNeat ==
  ASSUME NEW d \in Neat, NEW gone
  PROVE  Without(d, gone) \in Neat
BY DEF Without, Touching, Neat, Canvas, OneCardEach

LEMMA RemainingNeat ==
  ASSUME NEW d \in Neat, NEW gone
  PROVE  Remaining(d, gone) \in Neat
BY DEF Remaining, Neat, Canvas, OneCardEach

LEMMA EdgesNeat ==
  ASSUME NEW d \in Neat, NEW E \in SUBSET Edge
  PROVE  [d EXCEPT !.edges = E] \in Neat
BY DEF Neat, Canvas, OneCardEach

\* A card for a path that has none keeps a canvas neat, and so does a text card.
LEMMA WithCardNeat ==
  ASSUME NEW d \in Neat, NEW path \in Path \union {NoPath}, nextId \in 0..MaxId,
         path # NoPath => Missing(d, path)
  PROVE  WithCard(d, path) \in Neat
<1> DEFINE new == [id |-> nextId, path |-> path]
           e == WithCard(d, path)
<1>1. e = [cards |-> d.cards \union {new}, edges |-> d.edges]
  BY DEF WithCard, Neat, Canvas
<1>2. new \in Card
  BY DEF Card
<1>3. e \in Canvas
  BY <1>1, <1>2 DEF Neat, Canvas
<1>4. ASSUME NEW a \in e.cards, NEW b \in e.cards, a.path = b.path, a.path # NoPath
      PROVE  a = b
  <2>1. \A card \in d.cards : card.path # NoPath => card.path \in Paths(d)
    BY DEF Paths
  <2>2. \A card \in d.cards : card.path # NoPath => card.path # path
    BY <2>1 DEF Missing
  <2>3. \A x, y \in d.cards : x.path = y.path /\ x.path # NoPath => x = y
    BY DEF Neat, OneCardEach
  <2> QED BY <1>1, <1>4, <2>2, <2>3
<1> QED BY <1>3, <1>4 DEF Neat, OneCardEach

----------------------------------------------------------------------------
(* The invariant *)

\* A handler that goes on with a neat canvas, or without one, stays good. What it
\* has looked for is only needed in the phase "work".
LEMMA StepsGood ==
  ASSUME IInv, NEW c \in Call, call[c] # Idle, NEW phase \in Phase \ {"load"},
         NEW d \in Neat \union {None}, NEW paths \in SUBSET Path,
         Steps(c, phase, d, paths),
         phase \in Holding => d \in Neat,
         phase = "work" /\ call[c].message.op = "restore"
           => Missing(d, call[c].message.path)
  PROVE  call' \in [Call -> Good \union {Idle}]
<1> DEFINE h == [phase |-> phase, message |-> call[c].message, doc |-> d,
                 paths |-> paths]
<1>1. call[c].message \in Message
  BY HandlerFields DEF IInv, Good
<1>2. h \in Handler
  BY <1>1 DEF Handler, Neat
<1>3. h \in Good
  BY <1>2 DEF Good
<1>4. call' = [call EXCEPT ![c] = h]
  BY DEF Steps
<1>5. call \in [Call -> Good \union {Idle}]
  BY DEF IInv
<1> HIDE DEF h
<1> QED BY <1>3, <1>4, <1>5

LEMMA ReloadGood ==
  ASSUME IInv, NEW c \in Call, call[c] # Idle, Goes(c, "reload", None)
  PROVE  call' \in [Call -> Good \union {Idle}]
<1>1. "reload" \in Phase \ {"load"} /\ "reload" \notin Holding
  BY DEF Phase, Holding
<1> QED BY <1>1, StepsGood DEF Goes

LEMMA SaveGood ==
  ASSUME IInv, NEW c \in Call, call[c] # Idle, NEW d \in Neat, Goes(c, "save", d)
  PROVE  call' \in [Call -> Good \union {Idle}]
<1>1. "save" \in Phase \ {"load"}
  BY DEF Phase
<1> QED BY <1>1, StepsGood DEF Goes

LEMMA WorkGood ==
  ASSUME IInv, NEW c \in Call, call[c] # Idle, NEW d \in Neat, Goes(c, "work", d),
         call[c].message.op = "restore" => Missing(d, call[c].message.path)
  PROVE  call' \in [Call -> Good \union {Idle}]
<1>1. "work" \in Phase \ {"load"}
  BY DEF Phase
<1> QED BY <1>1, StepsGood DEF Goes

LEMMA EndsGood ==
  ASSUME IInv, NEW c \in Call, Ends(c)
  PROVE  call' \in [Call -> Good \union {Idle}]
BY DEF IInv, Ends

\* A handler that begins holds no canvas.
LEMMA BeginsGood ==
  ASSUME NEW m \in Message
  PROVE  Begins(m) \in Good
BY DEF Begins, Good, Handler, Phase, Holding

LEMMA StartGood ==
  ASSUME IInv, NEW c \in Call, NEW m \in Message, Start(c, m)
  PROVE  call' \in [Call -> Good \union {Idle}] /\ inputs' \in 0..MaxInputs
BY BeginsGood, BoundAssumption DEF IInv, Start

LEMMA TakesIdType ==
  ASSUME IInv, NEW makes \in BOOLEAN, NEW d, TakesId(makes, d)
  PROVE  nextId' \in 0..MaxId
BY BoundAssumption DEF IInv, TakesId

\* What is known of a handler in a phase in which it holds a canvas.
LEMMA HolderFields ==
  ASSUME IInv, NEW c \in Call, NEW phase \in Holding, In(c, phase)
  PROVE  /\ call[c] # Idle /\ call[c] \in Good /\ call[c] \in Handler
         /\ call[c].doc \in Neat
         /\ call[c].message \in Message /\ call[c].paths \in SUBSET Path
BY HandlerFields DEF IInv, In, Good

----------------------------------------------------------------------------
(* Every step preserves it *)

\* What does not need a handler.
LEMMA OutsideStep ==
  ASSUME IInv, Reopen \/ ExternalChange
  PROVE  IInv'
<1>1. CASE Reopen
  BY <1>1 DEF Reopen, IInv
<1>2. CASE ExternalChange
  BY <1>2, BoundAssumption DEF ExternalChange, IInv
<1> QED BY <1>1, <1>2

\* What the user starts.
LEMMA InputStep ==
  ASSUME IInv, NEW c \in Call,
         Ready(c) \/ Request(c) \/ DeleteCard(c) \/ DrawEdge(c)
  PROVE  IInv'
<1>1. CASE Ready(c)
  <2>1. [op |-> "ready"] \in Message
    BY DEF Message
  <2> QED BY <1>1, <2>1, StartGood DEF Ready, IInv
<1>2. CASE Request(c)
  <2>1. PICK m \in Message : Start(c, m)
    <3>1. \A op \in {"rewrite", "text"} : [op |-> op] \in Message
      BY DEF Message
    <3>2. \A op \in {"restore", "deleteItems", "import"}, p \in Path :
            [op |-> op, path |-> p] \in Message
      BY DEF Message
    <3>3. page.tray \subseteq Path
      BY <1>2 DEF Request, IInv
    <3> QED BY <1>2, <3>1, <3>2, <3>3 DEF Request
  <2> QED BY <1>2, <2>1, StartGood DEF Request, IInv
<1>3. CASE DeleteCard(c)
  <2>1. page \in [canvas : Neat, tray : SUBSET Path]
    BY <1>3 DEF DeleteCard, IInv
  <2>2. PICK card \in page.canvas.cards :
          /\ page' = [page EXCEPT !.canvas = Without(page.canvas, {card})]
          /\ \/ Start(c, [op |-> "nodesDeleted", cards |-> {card}])
             \/ \E d \in Call \ {c} :
                  /\ inputs + 1 < MaxInputs /\ inputs' = inputs + 2
                  /\ call' = [call EXCEPT
                       ![c] = Begins([op |-> "nodesDeleted", cards |-> {card}]),
                       ![d] = Begins([op |-> "edgesDeleted",
                                      edges |-> Touching(page.canvas, {card})])]
    BY <1>3 DEF DeleteCard
  <2>3. Without(page.canvas, {card}) \in Neat
    BY <2>1, WithoutNeat
  <2>4. page' \in [canvas : Neat, tray : SUBSET Path]
    BY <2>1, <2>2, <2>3
  <2>5. [op |-> "nodesDeleted", cards |-> {card}] \in Message
    BY <2>1 DEF Message, Neat, Canvas
  <2>6. [op |-> "edgesDeleted", edges |-> Touching(page.canvas, {card})] \in Message
    BY <2>1 DEF Message, Neat, Canvas, Touching
  <2>7. call' \in [Call -> Good \union {Idle}] /\ inputs' \in 0..MaxInputs
    <3>1. CASE Start(c, [op |-> "nodesDeleted", cards |-> {card}])
      BY <2>5, <3>1, StartGood
    <3>2. CASE \E d \in Call \ {c} :
                  /\ inputs + 1 < MaxInputs /\ inputs' = inputs + 2
                  /\ call' = [call EXCEPT
                       ![c] = Begins([op |-> "nodesDeleted", cards |-> {card}]),
                       ![d] = Begins([op |-> "edgesDeleted",
                                      edges |-> Touching(page.canvas, {card})])]
      <4>1. inputs' \in 0..MaxInputs
        BY <3>2, BoundAssumption DEF IInv
      <4>2. /\ Begins([op |-> "nodesDeleted", cards |-> {card}]) \in Good
            /\ Begins([op |-> "edgesDeleted",
                       edges |-> Touching(page.canvas, {card})]) \in Good
        BY <2>5, <2>6, BeginsGood
      <4> QED BY <3>2, <4>1, <4>2 DEF IInv
    <3> QED BY <2>2, <3>1, <3>2
  <2> QED BY <1>3, <2>4, <2>7 DEF DeleteCard, IInv
<1>4. CASE DrawEdge(c)
  <2>1. page \in [canvas : Neat, tray : SUBSET Path]
    BY <1>4 DEF DrawEdge, IInv
  <2>2. PICK e \in [from : page.canvas.cards, to : page.canvas.cards] :
          \/ /\ Start(c, [op |-> "edgeCreated", edges |-> {e}])
             /\ page' = [page EXCEPT !.canvas.edges = @ \union {e}]
          \/ /\ Start(c, [op |-> "edgesDeleted", edges |-> {e}])
             /\ page' = [page EXCEPT !.canvas.edges = @ \ {e}]
    BY <1>4 DEF DrawEdge
  <2>3. e \in Edge /\ page.canvas.edges \in SUBSET Edge
    BY <2>1 DEF Edge, Neat, Canvas
  <2>4. /\ [page.canvas EXCEPT !.edges = page.canvas.edges \union {e}] \in Neat
        /\ [page.canvas EXCEPT !.edges = page.canvas.edges \ {e}] \in Neat
    BY <2>1, <2>3, EdgesNeat
  <2>5. page' \in [canvas : Neat, tray : SUBSET Path]
    BY <2>1, <2>2, <2>4
  <2>6. /\ [op |-> "edgeCreated", edges |-> {e}] \in Message
        /\ [op |-> "edgesDeleted", edges |-> {e}] \in Message
    BY <2>3 DEF Message
  <2>7. call' \in [Call -> Good \union {Idle}] /\ inputs' \in 0..MaxInputs
    BY <2>2, <2>6, StartGood
  <2> QED BY <1>4, <2>5, <2>7 DEF DrawEdge, IInv
<1> QED BY <1>1, <1>2, <1>3, <1>4

\* loadCanvas() resolves in a handler.
LEMMA LoadStep ==
  ASSUME IInv, NEW c \in Call, LoadLands(c)
  PROVE  IInv'
<1>1. call[c] # Idle /\ call[c].message \in Message
  BY HandlerFields DEF LoadLands, In, IInv, Good
<1> DEFINE m == call[c].message
<1>2. PICK d \in Loaded :
        /\ CASE m.op = "rewrite"      -> Goes(c, "save", d)
             [] m.op = "nodesDeleted" -> Goes(c, "save", Without(d, m.cards))
             [] m.op = "text"         -> Goes(c, "save", WithCard(d, NoPath))
             [] m.op = "edgesDeleted" ->
                  Goes(c, "save", [d EXCEPT !.edges = @ \ m.edges])
             [] m.op = "edgeCreated"  ->
                  IF m.edges \subseteq d.edges
                  THEN Ends(c)
                  ELSE Goes(c, "save", [d EXCEPT !.edges = @ \union m.edges])
             [] m.op = "restore"      ->
                  IF Missing(d, m.path)
                  THEN Goes(c, "work", d)
                  ELSE Goes(c, "reload", None)
             [] m.op \in {"import", "deleteItems"} -> Goes(c, "work", d)
        /\ TakesId(m.op = "text", d)
  BY DEF LoadLands
<1>3. d \in Neat
  BY LoadedNeat
<1>4. m.op # "ready"
  BY DEF LoadLands, In, IInv, Good
<1>5. call' \in [Call -> Good \union {Idle}]
  <2>1. ASSUME NEW e \in Neat, Goes(c, "save", e)
        PROVE  call' \in [Call -> Good \union {Idle}]
    BY <1>1, <2>1, SaveGood
  <2>2. CASE m.op = "rewrite"
    BY <1>2, <1>3, <2>1, <2>2
  <2>3. CASE m.op = "nodesDeleted"
    BY <1>2, <1>3, <2>1, <2>3, WithoutNeat
  <2>4. CASE m.op = "text"
    BY <1>2, <1>3, <2>1, <2>4, WithCardNeat DEF IInv
  <2>5. CASE m.op = "edgesDeleted"
    <3>1. d.edges \ m.edges \in SUBSET Edge
      BY <1>3 DEF Neat, Canvas
    <3> QED BY <1>2, <1>3, <2>1, <2>5, <3>1, EdgesNeat
  <2>6. CASE m.op = "edgeCreated"
    <3>1. d.edges \union m.edges \in SUBSET Edge
      BY <1>1, <1>3, <2>6, MessageFields DEF Neat, Canvas
    <3> QED BY <1>2, <1>3, <2>1, <2>6, <3>1, EdgesNeat, EndsGood
  <2>7. CASE m.op = "restore"
    <3>1. CASE Missing(d, m.path)
      BY <1>1, <1>2, <1>3, <2>7, <3>1, WorkGood
    <3>2. CASE ~Missing(d, m.path)
      BY <1>1, <1>2, <2>7, <3>2, ReloadGood
    <3> QED BY <3>1, <3>2
  <2>8. CASE m.op \in {"import", "deleteItems"}
    <3>1. Goes(c, "work", d) /\ m.op # "restore"
      BY <1>2, <2>8
    <3> QED BY <1>1, <1>3, <3>1, WorkGood
  <2> QED BY <1>1, <1>4, <2>2, <2>3, <2>4, <2>5, <2>6, <2>7, <2>8, MessageFields
<1>6. nextId' \in 0..MaxId
  BY <1>2, TakesIdType
<1> QED BY <1>5, <1>6 DEF LoadLands, IInv

\* The other steps of the handlers.
LEMMA HandlerStep ==
  ASSUME IInv, NEW c \in Call,
         \/ ResizeNothing(c) \/ RestoreItem(c) \/ DeleteItem(c) \/ WorkFails(c)
         \/ PickName(c) \/ CreateFile(c) \/ SaveLands(c) \/ SaveFails(c)
         \/ ReloadLands(c) \/ ListLands(c) \/ PostFolderData(c)
  PROVE  IInv'
<1>1. CASE ResizeNothing(c)
  BY <1>1, EndsGood, TakesIdType DEF ResizeNothing, IInv
<1>2. CASE RestoreItem(c)
  <2>1. /\ call[c].message.path \in Path
        /\ Missing(call[c].doc, call[c].message.path)
    BY <1>2, HolderFields, MessageFields DEF RestoreItem, In, Good, Holding
  <2>2. WithCard(call[c].doc, call[c].message.path) \in Neat
    BY <1>2, <2>1, HolderFields, WithCardNeat DEF RestoreItem, Holding, IInv
  <2>3. call' \in [Call -> Good \union {Idle}]
    BY <1>2, <2>2, HolderFields, SaveGood DEF RestoreItem, Holding
  <2> QED BY <1>2, <2>3, BoundAssumption DEF RestoreItem, IInv
<1>3. CASE DeleteItem(c)
  <2>1. call' \in [Call -> Good \union {Idle}]
    BY <1>3, HolderFields, RemainingNeat, SaveGood DEF DeleteItem, Holding
  <2> QED BY <1>3, <2>1 DEF DeleteItem, IInv
<1>4. CASE WorkFails(c)
  <2>1. call' \in [Call -> Good \union {Idle}]
    BY <1>4, ReloadGood DEF WorkFails, In
  <2> QED BY <1>4, <2>1 DEF WorkFails, IInv
<1>5. CASE PickName(c)
  <2>1. PICK target \in Path : Steps(c, "create", call[c].doc, {target})
    BY <1>5, HolderFields, MessageFields DEF PickName, Holding
  <2>2. call' \in [Call -> Good \union {Idle}]
    BY <1>5, <2>1, HolderFields, StepsGood DEF PickName, Phase, Holding
  <2> QED BY <1>5, <2>2 DEF PickName, IInv
<1>6. CASE CreateFile(c)
  <2>1. PICK target \in call[c].paths :
          /\ folder' = folder \union {target}
          /\ \/ /\ Missing(call[c].doc, target) /\ nextId < MaxId
                /\ Goes(c, "save", WithCard(call[c].doc, target))
                /\ nextId' = nextId + 1
             \/ /\ Goes(c, "reload", None)
                /\ UNCHANGED nextId
    BY <1>6 DEF CreateFile
  <2>2. call[c].doc \in Neat /\ target \in Path /\ call[c] # Idle
    BY <1>6, HolderFields DEF CreateFile, Holding
  <2>3. call' \in [Call -> Good \union {Idle}]
    <3>1. CASE /\ Missing(call[c].doc, target)
               /\ Goes(c, "save", WithCard(call[c].doc, target))
      BY <2>2, <3>1, WithCardNeat, SaveGood DEF IInv
    <3>2. CASE Goes(c, "reload", None)
      BY <2>2, <3>2, ReloadGood
    <3> QED BY <2>1, <3>1, <3>2
  <2> QED BY <1>6, <2>1, <2>2, <2>3, BoundAssumption DEF CreateFile, IInv
<1>7. CASE SaveLands(c)
  <2>1. call[c].doc \in Neat /\ call[c] # Idle
    BY <1>7, HolderFields DEF SaveLands, Holding
  <2>2. CASE Goes(c, "reload", None)
    BY <1>7, <2>1, <2>2, ReloadGood DEF SaveLands, IInv
  <2>3. CASE Ends(c)
    BY <1>7, <2>1, <2>3, EndsGood DEF SaveLands, IInv
  <2> QED BY <1>7, <2>2, <2>3 DEF SaveLands
<1>8. CASE SaveFails(c)
  BY <1>8, EndsGood DEF SaveFails, IInv
<1>9. CASE ReloadLands(c)
  <2>1. PICK d \in Loaded : Goes(c, "list", d) /\ TakesId(FALSE, d)
    BY <1>9 DEF ReloadLands
  <2>2. call' \in [Call -> Good \union {Idle}]
    BY <1>9, <2>1, LoadedNeat, StepsGood DEF ReloadLands, In, Goes, Phase
  <2>3. nextId' \in 0..MaxId
    BY <2>1, TakesIdType
  <2> QED BY <1>9, <2>2, <2>3 DEF ReloadLands, IInv
<1>10. CASE ListLands(c)
  <2>1. PICK staged \in SUBSET Path : Steps(c, "post", call[c].doc, staged)
    BY <1>10 DEF ListLands, Staged, IInv
  <2>2. call' \in [Call -> Good \union {Idle}]
    BY <1>10, <2>1, HolderFields, StepsGood DEF ListLands, Phase, Holding
  <2> QED BY <1>10, <2>2 DEF ListLands, IInv
<1>11. CASE PostFolderData(c)
  BY <1>11, HolderFields, EndsGood DEF PostFolderData, Holding, IInv
<1> QED BY <1>1, <1>2, <1>3, <1>4, <1>5, <1>6, <1>7, <1>8, <1>9, <1>10, <1>11

----------------------------------------------------------------------------
(* The theorems *)

\* The invariant holds all along.
THEOREM Invariant == Spec => []IInv
<1>1. Init => IInv
  BY BoundAssumption DEF Init, IInv, Neat, Canvas, OneCardEach, Good, Idle
<1>2. IInv /\ [Next]_vars => IInv'
  <2> SUFFICES ASSUME IInv, [Next]_vars PROVE IInv'
    OBVIOUS
  <2>1. CASE UNCHANGED vars
    BY <2>1 DEF vars, IInv
  <2>2. CASE Next
    BY <2>2, OutsideStep, InputStep, LoadStep, HandlerStep DEF Next
  <2> QED BY <2>1, <2>2
<1> QED BY <1>1, <1>2, PTL DEF Spec

\* Every variable has its type, whatever the handlers do to each other.
THEOREM TypeCorrect == Spec => []TypeOK
<1>1. IInv => TypeOK
  BY DEF IInv, TypeOK, Neat, Good
<1> QED BY <1>1, Invariant, PTL

\* No child of the folder has two cards, in canvas.json or on the board, however
\* the handlers of restores, imports and whole-file writes overlap.
THEOREM OneCardAlways == Spec => []OneCardPerPath
<1>1. IInv => OneCardPerPath
  BY DEF IInv, OneCardPerPath, Neat
<1> QED BY <1>1, Invariant, PTL

----------------------------------------------------------------------------
(* The board at rest, with one handler at a time *)

\* The surroundings in which nothing is rejected and nobody else changes the folder,
\* and a host that answers one message before the page sends the next.
Undisturbed ==
  /\ "failure" \notin Env /\ "external" \notin Env
  /\ \E c \in Call : Call = {c}

\* The children any load of the canvas gives a card at the moment.
Carded == IF file # None THEN Paths(file) ELSE folder \intersect Discoverable

\* The board shows what a load would, and the tray the rest.
Shows == page # None => /\ Paths(page.canvas) = Carded
                        /\ folder \ Carded \subseteq page.tray

\* A handler that will post a fresh view when it has saved, or the answer to "ready".
PostsView == Refreshing \union {"ready"}

\* What one handler knows. One that posts no view only saves the children it has
\* loaded and leaves a board that shows them; one that has read the canvas to post it
\* has read the one there is.
Knows(h) ==
  /\ h.message.op \notin PostsView =>
       /\ h.phase \in {"load", "save"} /\ Shows
       /\ h.phase = "save" => Paths(h.doc) = Carded
  /\ h.message.op = "ready" => h.phase \in {"reload", "list", "post"}
  /\ h.phase \in {"list", "post"} => Paths(h.doc) = Carded
  /\ h.phase = "post" => folder \ Carded \subseteq h.paths

\* The inductive invariant of BoardReflects.
SerialInv ==
  \A c \in Call : IF call[c] = Idle THEN Shows ELSE Knows(call[c])

\* A load gives the children it would give now.
LEMMA LoadedPaths ==
  ASSUME IInv, Undisturbed, NEW d \in Loaded
  PROVE  Paths(d) = Carded
<1>1. CASE file # None
  BY <1>1 DEF Loaded, Carded, Undisturbed
<1>2. CASE file = None
  <2>1. d.cards = {[id |-> nextId, path |-> p] : p \in folder \intersect Discoverable}
    BY <1>2 DEF Loaded, Undisturbed, Discovered
  <2>2. NoPath \notin folder
    BY PathAssumption DEF IInv
  <2>3. {card.path : card \in d.cards} = folder \intersect Discoverable
    <3>1. \A card \in d.cards : card.path \in folder \intersect Discoverable
      BY <2>1
    <3>2. \A p \in folder \intersect Discoverable :
            \E card \in d.cards : card.path = p
      <4> TAKE p \in folder \intersect Discoverable
      <4>1. [id |-> nextId, path |-> p] \in d.cards
        BY <2>1
      <4> QED BY <4>1
    <3> QED BY <3>1, <3>2
  <2> QED BY <1>2, <2>2, <2>3 DEF Paths, Carded
<1> QED BY <1>1, <1>2

\* Edges have no part in the children a canvas shows.
LEMMA EdgesPaths ==
  ASSUME NEW d \in Canvas, NEW E
  PROVE  Paths([d EXCEPT !.edges = E]) = Paths(d)
BY DEF Paths, Canvas

\* The handler goes on and the board is not touched.
LEMMA OnlyHandler ==
  ASSUME IInv, Undisturbed, NEW c \in Call,
         IF call'[c] = Idle THEN Shows' ELSE Knows(call[c])'
  PROVE  SerialInv'
BY DEF Undisturbed, SerialInv

\* A handler that goes on keeps its message.
LEMMA StepsFields ==
  ASSUME IInv, NEW c \in Call, NEW phase, NEW d, NEW paths, Steps(c, phase, d, paths)
  PROVE  /\ call'[c] # Idle
         /\ call'[c].phase = phase /\ call'[c].message = call[c].message
         /\ call'[c].doc = d /\ call'[c].paths = paths
BY DEF Steps, IInv, Idle

\* A handler that goes on to save or to read the canvas again, and posts a view in
\* the end, need know nothing.
LEMMA PosterGoes ==
  ASSUME IInv, Undisturbed, NEW c \in Call, call[c] # Idle,
         NEW phase \in {"work", "create", "save", "reload"}, NEW d, NEW paths,
         call[c].message.op \in PostsView, Steps(c, phase, d, paths),
         phase # "reload" => call[c].message.op # "ready"
  PROVE  SerialInv'
<1>1. /\ call'[c] # Idle
      /\ call'[c].phase = phase /\ call'[c].message = call[c].message
  BY StepsFields
<1>2. Knows(call[c])'
  BY <1>1 DEF Knows
<1> QED BY <1>1, <1>2, OnlyHandler

\* Messages that post no view.
LEMMA SilentMessages ==
  ASSUME NEW m \in Message, m.op \notin PostsView
  PROVE  m.op \in {"rewrite", "edgeCreated", "edgesDeleted"}
BY MessageFields DEF PostsView, Refreshing

\* The user's steps: only DeleteCard takes a card off the board, and its handler
\* posts a view.
LEMMA SerialInput ==
  ASSUME IInv, Undisturbed, SerialInv, NEW c \in Call,
         Ready(c) \/ Request(c) \/ DeleteCard(c) \/ DrawEdge(c)
  PROVE  SerialInv'
<1>1. ASSUME NEW m, Start(c, m), m.op \notin PostsView => Shows'
      PROVE  SerialInv'
  <2>1. call'[c] = Begins(m) /\ Begins(m) # Idle
    BY <1>1 DEF Start, Begins, Idle, IInv
  <2>2. Knows(Begins(m))'
    BY <1>1 DEF Begins, Knows, PostsView
  <2> QED BY <2>1, <2>2, OnlyHandler
<1>2. call[c] = Idle => Shows
  BY DEF SerialInv
<1>3. CASE Ready(c)
  BY <1>1, <1>3 DEF Ready, PostsView
<1>4. CASE Request(c)
  <2>1. PICK m : Start(c, m)
    BY <1>4 DEF Request
  <2>2. Shows'
    BY <1>2, <1>4, <2>1 DEF Request, Start, Shows, Carded
  <2> QED BY <1>1, <2>1, <2>2
<1>5. CASE DeleteCard(c)
  <2>1. PICK m : Start(c, m) /\ m.op = "nodesDeleted"
    BY <1>5 DEF DeleteCard, Undisturbed
  <2> QED BY <1>1, <2>1 DEF PostsView, Refreshing
<1>6. CASE DrawEdge(c)
  <2>1. PICK m, E : Start(c, m) /\ page' = [page EXCEPT !.canvas.edges = E]
    BY <1>6 DEF DrawEdge
  <2>2. page # None /\ page \in [canvas : Neat, tray : SUBSET Path] /\ Shows
    BY <1>2, <1>6, <2>1 DEF DrawEdge, Start, IInv
  <2>3. page'.canvas = [page.canvas EXCEPT !.edges = E] /\ page'.tray = page.tray
    BY <2>1, <2>2
  <2>4. Paths(page'.canvas) = Paths(page.canvas)
    BY <2>2, <2>3, EdgesPaths DEF Neat
  <2>5. Shows'
    BY <1>6, <2>2, <2>3, <2>4 DEF DrawEdge, Shows, Carded
  <2> QED BY <1>1, <2>1, <2>5
<1> QED BY <1>3, <1>4, <1>5, <1>6

\* A load: a handler that posts no view saves the children it has loaded, and there
\* are as many of those as before.
LEMMA SerialLoad ==
  ASSUME IInv, Undisturbed, SerialInv, NEW c \in Call, LoadLands(c)
  PROVE  SerialInv'
<1>1. call[c] # Idle /\ call[c].message \in Message /\ Knows(call[c])
  BY HandlerFields DEF LoadLands, In, IInv, Good, SerialInv
<1> DEFINE m == call[c].message
<1>2. CASE m.op \in PostsView
  <2>1. m.op # "ready"
    BY DEF LoadLands, In, IInv, Good
  <2>2. PICK phase, d : phase \in {"save", "work", "reload"} /\ Goes(c, phase, d)
    <3>1. m.op \in {"nodesDeleted", "restore", "deleteItems", "import", "text"}
      BY <1>2, <2>1 DEF PostsView, Refreshing
    <3>2. CASE m.op = "nodesDeleted"
      BY <3>2 DEF LoadLands
    <3>3. CASE m.op = "text"
      BY <3>3 DEF LoadLands
    <3>4. CASE m.op = "restore"
      BY <3>4 DEF LoadLands
    <3>5. CASE m.op = "deleteItems"
      BY <3>5 DEF LoadLands
    <3>6. CASE m.op = "import"
      BY <3>6 DEF LoadLands
    <3> QED BY <3>1, <3>2, <3>3, <3>4, <3>5, <3>6
  <2> QED BY <1>1, <1>2, <2>1, <2>2, PosterGoes DEF Goes
<1>3. CASE m.op \notin PostsView
  <2>1. m.op \in {"rewrite", "edgeCreated", "edgesDeleted"}
    BY <1>1, <1>3, SilentMessages
  <2>2. Shows
    BY <1>1, <1>3 DEF Knows
  <2>3. Shows' /\ Carded' = Carded
    BY <2>2 DEF LoadLands, Shows, Carded
  <2>4. ASSUME Ends(c) PROVE SerialInv'
    BY <2>3, <2>4, OnlyHandler DEF Ends, IInv
  <2>5. ASSUME NEW d, Paths(d) = Carded, Goes(c, "save", d) PROVE SerialInv'
    <3>1. /\ call'[c] # Idle /\ call'[c].phase = "save"
          /\ call'[c].message = m /\ call'[c].doc = d
      BY <2>5, StepsFields DEF Goes
    <3>2. Knows(call[c])'
      BY <2>1, <2>3, <2>5, <3>1 DEF Knows
    <3> QED BY <3>1, <3>2, OnlyHandler
  <2>6. PICK d \in Loaded :
          \/ Ends(c)
          \/ Goes(c, "save", d)
          \/ \E E : Goes(c, "save", [d EXCEPT !.edges = E])
    BY <2>1 DEF LoadLands
  <2>7. Paths(d) = Carded /\ d \in Canvas
    BY LoadedPaths, LoadedNeat DEF Neat
  <2> QED BY <2>4, <2>5, <2>6, <2>7, EdgesPaths
<1> QED BY <1>2, <1>3

\* The other steps: only a handler that posts a view is in one of the phases that
\* change the folder.
LEMMA SerialHandler ==
  ASSUME IInv, Undisturbed, SerialInv, NEW c \in Call,
         \/ ResizeNothing(c) \/ RestoreItem(c) \/ DeleteItem(c) \/ WorkFails(c)
         \/ PickName(c) \/ CreateFile(c) \/ SaveLands(c) \/ SaveFails(c)
         \/ ReloadLands(c) \/ ListLands(c) \/ PostFolderData(c)
  PROVE  SerialInv'
<1>1. call[c] # Idle /\ Knows(call[c])
  BY DEF SerialInv, ResizeNothing, RestoreItem, DeleteItem, WorkFails, PickName,
         CreateFile, SaveLands, SaveFails, ReloadLands, ListLands, PostFolderData, In
<1>2. /\ call[c].phase \in {"work", "create", "reload", "list", "post"}
           => call[c].message.op \in PostsView
      /\ call[c].phase \in {"work", "create", "save"} => call[c].message.op # "ready"
  BY <1>1 DEF Knows
<1>3. CASE ResizeNothing(c)
  <2>1. Shows
    BY <1>1, <1>3 DEF ResizeNothing, Knows, PostsView, Refreshing
  <2> QED BY <1>3, <2>1, OnlyHandler DEF ResizeNothing, Ends, Shows, Carded, IInv
<1>4. CASE RestoreItem(c)
  BY <1>1, <1>2, <1>4, PosterGoes DEF RestoreItem, In, Goes
<1>5. CASE DeleteItem(c)
  BY <1>1, <1>2, <1>5, PosterGoes DEF DeleteItem, In, Goes
<1>6. CASE WorkFails(c)
  BY <1>1, <1>2, <1>6, PosterGoes DEF WorkFails, In, Goes
<1>7. CASE PickName(c)
  BY <1>1, <1>2, <1>7, PosterGoes DEF PickName, In
<1>8. CASE CreateFile(c)
  BY <1>1, <1>2, <1>8, PosterGoes DEF CreateFile, In, Goes
<1>9. CASE SaveLands(c)
  <2>1. CASE call[c].message.op \in Refreshing
    BY <1>1, <1>9, <2>1, PosterGoes DEF SaveLands, Goes, PostsView
  <2>2. CASE call[c].message.op \notin Refreshing
    <3>1. call[c].message.op # "ready"
      BY <1>1, <1>9 DEF SaveLands, In, Knows
    <3>2. Shows /\ Paths(call[c].doc) = Carded
      BY <1>1, <1>9, <2>2, <3>1 DEF SaveLands, In, Knows, PostsView
    <3>3. file' = call[c].doc /\ file' # None
      BY <1>9, HolderFields, NoneAssumption DEF SaveLands, Holding, Neat
    <3>4. Shows'
      BY <1>9, <3>2, <3>3 DEF SaveLands, Shows, Carded
    <3> QED BY <1>9, <2>2, <3>4, OnlyHandler DEF SaveLands, Ends, IInv
  <2> QED BY <2>1, <2>2
<1>10. CASE SaveFails(c)
  BY <1>10 DEF SaveFails, Undisturbed
<1>11. CASE ReloadLands(c)
  <2>1. PICK d \in Loaded : Goes(c, "list", d)
    BY <1>11 DEF ReloadLands
  <2>2. Paths(d) = Carded /\ Carded' = Carded
    BY <1>11, LoadedPaths DEF ReloadLands, Carded
  <2>3. /\ call'[c] # Idle /\ call'[c].phase = "list"
        /\ call'[c].message = call[c].message /\ call'[c].doc = d
    BY <2>1, StepsFields DEF Goes
  <2>4. Knows(call[c])'
    BY <1>2, <1>11, <2>2, <2>3 DEF Knows, ReloadLands, In
  <2> QED BY <2>3, <2>4, OnlyHandler
<1>12. CASE ListLands(c)
  <2>1. Steps(c, "post", call[c].doc, Staged(call[c].doc))
    BY <1>12 DEF ListLands, Undisturbed
  <2>2. Paths(call[c].doc) = Carded /\ Carded' = Carded /\ folder' = folder
    BY <1>1, <1>12 DEF ListLands, In, Knows, Carded
  <2>3. /\ call'[c] # Idle /\ call'[c].phase = "post"
        /\ call'[c].message = call[c].message /\ call'[c].doc = call[c].doc
        /\ call'[c].paths = Staged(call[c].doc)
    BY <2>1, StepsFields
  <2>4. call'[c].paths = folder \ Carded
    BY <2>2, <2>3 DEF Staged
  <2>5. Knows(call[c])'
    BY <1>2, <1>12, <2>2, <2>3, <2>4 DEF Knows, ListLands, In
  <2> QED BY <2>3, <2>5, OnlyHandler
<1>13. CASE PostFolderData(c)
  <2>1. Paths(call[c].doc) = Carded /\ folder \ Carded \subseteq call[c].paths
    BY <1>1, <1>13 DEF PostFolderData, In, Knows
  <2>2. Shows'
    BY <1>13, <2>1 DEF PostFolderData, Shows, Carded
  <2> QED BY <1>13, <2>2, OnlyHandler DEF PostFolderData, Ends, IInv
<1> QED BY <1>3, <1>4, <1>5, <1>6, <1>7, <1>8, <1>9, <1>10, <1>11, <1>12, <1>13

\* With one handler at a time, nothing rejected and nobody else at the folder, the
\* board at rest shows the children canvas.json has and the tray every other one.
THEOREM BoardAlwaysReflects ==
  ASSUME Undisturbed
  PROVE  Spec => []BoardReflects
<1>1. Init => SerialInv
  BY DEF Init, SerialInv, Shows
<1>2. IInv /\ SerialInv /\ [Next]_vars => SerialInv'
  <2> SUFFICES ASSUME IInv, SerialInv, [Next]_vars PROVE SerialInv'
    OBVIOUS
  <2>1. CASE UNCHANGED vars
    BY <2>1 DEF vars, SerialInv, Shows, Knows, Carded
  <2>2. CASE Reopen
    BY <2>2 DEF Reopen, SerialInv, Shows
  <2>3. CASE ExternalChange
    BY <2>3 DEF ExternalChange, Undisturbed
  <2>4. CASE Next /\ ~Reopen /\ ~ExternalChange
    BY <2>4, SerialInput, SerialLoad, SerialHandler DEF Next
  <2> QED BY <2>1, <2>2, <2>3, <2>4
<1>3. SerialInv => BoardReflects
  BY DEF Undisturbed, SerialInv, BoardReflects, Shows, Carded
<1> QED BY <1>1, <1>2, <1>3, Invariant, PTL DEF Spec

=============================================================================

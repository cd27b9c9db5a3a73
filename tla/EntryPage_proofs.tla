-------------------------- MODULE EntryPage_proofs --------------------------
(***************************************************************************)
(* The types of EntryPage, and that the host never has or saves a text     *)
(* that lacks a chunk, for any number of chunks, edits, messages and calls *)
(* that wait, as long as no command is given while a chunk is pending.     *)
(*                                                                         *)
(* The editor lacks the chunks it has not loaded and no others, and while  *)
(* it lacks one the text as opened is at hand. So whatever serialize()     *)
(* makes of the two is whole, and so is every text that is under way. The  *)
(* listener of a destroyed editor brings a text nothing completes.         *)
(***************************************************************************)
EXTENDS EntryPage, TLAPS

Message == [type : {"markdownUpdated", "save"}, text : Markdown]

\* An editor that lacks what it has not loaded, and the text to complete it.
Completable(d, n, opened) ==
  /\ \A c \in Chunk : d[c] = Gone <=> c > n
  /\ n < Chunks => Whole(opened)

PageInv ==
  /\ Completable(doc, loaded, original)
  /\ source \/ typed => Whole(textarea)

MessagesInv ==
  /\ \A i \in 1..Len(toHost) : toHost[i].type = "markdownUpdated" => Whole(toHost[i].text)
  /\ \A i \in 1..Len(toPage) : Whole(toPage[i])

\* Every text but that of the editor is whole.
WholeInv == PageInv /\ MessagesInv /\ Whole(host) /\ Whole(stored)

\* The inductive invariant.
IInv == TypeOK /\ ("late" \notin lapse => WholeInv)

----------------------------------------------------------------------------
(* Texts *)

\* The versions differ from the numbers of edits.
LEMMA Versions ==
  /\ \A e \in 1..MaxEdits : e # Gone /\ e # Raw
  /\ Raw # Gone /\ Norm # Gone
BY VersionAssumption, BoundAssumption

LEMMA NobodyType == Nobody \in Markdown
BY DEF Nobody, Markdown, Version

\* Parsing and serializing neither adds nor removes a chunk.
LEMMA ParsedKeeps ==
  ASSUME NEW text \in Markdown
  PROVE  /\ Parsed(text) \in Markdown
         /\ \A c \in Chunk : Parsed(text)[c] = Gone <=> text[c] = Gone
BY Versions DEF Parsed, Markdown, Version

\* An edit gives a chunk a version of its own.
LEMMA EditedKeeps ==
  ASSUME NEW text \in Markdown, NEW c \in Chunk, edits \in 0..MaxEdits, CountEdit(c)
  PROVE  /\ Edited(text, c) \in Markdown
         /\ \A d \in Chunk : d # c => Edited(text, c)[d] = text[d]
         /\ Edited(text, c)[c] # Gone
<1>1. edits + 1 \in 1..MaxEdits
  BY BoundAssumption DEF CountEdit
<1>2. edits + 1 # Gone
  BY <1>1, Versions
<1> QED BY <1>1, <1>2 DEF Edited, Markdown, Version

LEMMA CountEditTypes ==
  ASSUME TypeOK, NEW c \in Chunk, CountEdit(c)
  PROVE  /\ edits' \in 0..MaxEdits /\ lapse' = lapse
         /\ due' \in [Chunk -> {Gone} \union 1..MaxEdits]
BY BoundAssumption DEF CountEdit, TypeOK

\* What serialize() makes of an editor and of the text it can be completed from.
LEMMA SerializeWithType ==
  ASSUME NEW d \in Markdown, NEW t, NEW e \in BOOLEAN,
         textarea \in Markdown, original \in Markdown, source \in BOOLEAN
  PROVE  SerializeWith(d, t, e) \in Markdown
BY DEF SerializeWith, Markdown

LEMMA SerializeWithWhole ==
  ASSUME NEW d \in Markdown, NEW n \in Chunk, NEW e \in BOOLEAN,
         Completable(d, n, original), source => Whole(textarea), source \in BOOLEAN
  PROVE  Whole(SerializeWith(d, {c \in Chunk : c > n}, e))
<1> DEFINE t == {c \in Chunk : c > n}
<1>1. CASE source
  BY <1>1 DEF SerializeWith, Whole
<1>2. CASE ~source /\ t = {}
  BY <1>2 DEF SerializeWith, Whole, Completable
<1>3. CASE ~source /\ t # {}
  <2>1. Whole(original)
    BY <1>3, BoundAssumption DEF Completable, Chunk
  <2> QED BY <1>3, <2>1 DEF SerializeWith, Whole, Completable
<1> QED BY <1>1, <1>2, <1>3

----------------------------------------------------------------------------
(* Messages *)

LEMMA UpdatedType == \A text \in Markdown : Updated(text) \in Message
BY DEF Updated, Message

LEMMA SaveType == Save \in Message
BY NobodyType DEF Save, Message

\* What a post does to the messages under way.
LEMMA PostKeeps ==
  ASSUME toHost \in Seq(Message), NEW m \in Message, toHost' = Append(toHost, m),
         m.type = "markdownUpdated" => Whole(m.text),
         MessagesInv, UNCHANGED toPage
  PROVE  toHost' \in Seq(Message) /\ MessagesInv'
<1>1. /\ toHost' \in Seq(Message)
      /\ Len(toHost') = Len(toHost) + 1
      /\ \A i \in 1..Len(toHost) : toHost'[i] = toHost[i]
      /\ toHost'[Len(toHost) + 1] = m
  OBVIOUS
<1>2. ASSUME NEW i \in 1..Len(toHost'), toHost'[i].type = "markdownUpdated"
      PROVE  Whole(toHost'[i].text)
  BY <1>1, <1>2 DEF MessagesInv
<1> QED BY <1>1, <1>2 DEF MessagesInv, Whole

LEMMA PostTypes ==
  ASSUME TypeOK, NEW m \in Message, Post(m)
  PROVE  toHost' \in Seq(Message)
BY DEF Post, TypeOK, Message

\* A text is posted.
LEMMA PostsWhole ==
  ASSUME TypeOK, MessagesInv, NEW text \in Markdown, Whole(text), Post(Updated(text)),
         UNCHANGED toPage
  PROVE  MessagesInv'
BY PostKeeps, UpdatedType DEF Post, TypeOK, Message, Updated

LEMMA MessagesStay ==
  ASSUME MessagesInv, UNCHANGED <<toHost, toPage>>
  PROVE  MessagesInv'
BY DEF MessagesInv, Whole

----------------------------------------------------------------------------
(* Types *)

\* Neither the editor nor the fetches depend on which text it is.
LEMMA CreateEditorTypes ==
  ASSUME TypeOK, NEW text \in Markdown, NEW how \in Opening, CreateEditor(text, how)
  PROVE  /\ doc' \in Markdown /\ original' \in Markdown /\ current' \in Markdown
         /\ late' \in Markdown
         /\ loaded' \in Chunk
         /\ userEdited' \in BOOLEAN /\ heard' \in BOOLEAN /\ busy' \in BOOLEAN
         /\ offered' \in BOOLEAN
         /\ loop' \in {"none", "viewport", "all"}
         /\ fetches' \in Nat /\ stale' \in Nat
<1>1. loaded' \in Chunk
  BY BoundAssumption DEF CreateEditor, Loaded, Opening, Chunk
<1>2. doc' \in Markdown
  BY ParsedKeeps DEF CreateEditor, Markdown, Version
<1>3. original' \in Markdown /\ current' \in Markdown /\ late' \in Markdown
  BY <1>2, NobodyType DEF CreateEditor, TypeOK
<1>4. /\ userEdited' \in BOOLEAN /\ heard' \in BOOLEAN /\ busy' \in BOOLEAN
      /\ offered' \in BOOLEAN
      /\ loop' \in {"none", "viewport", "all"}
  BY DEF CreateEditor, Fills
<1>5. fetches' \in Nat /\ stale' \in Nat
  BY DEF CreateEditor, TypeOK
<1> QED BY <1>1, <1>2, <1>3, <1>4, <1>5

LEMMA UserTypes ==
  ASSUME TypeOK, NEW c \in Chunk, UserEdit(c) \/ SourceEdit(c) \/ InsertToc(c)
  PROVE  TypeOK'
<1>1. CountEdit(c)
  BY DEF UserEdit, SourceEdit, InsertToc
<1>2. /\ edits' \in 0..MaxEdits /\ lapse' = lapse
      /\ due' \in [Chunk -> {Gone} \union 1..MaxEdits]
  BY <1>1, CountEditTypes
<1>3. Edited(doc, c) \in Markdown /\ Edited(textarea, c) \in Markdown
  BY <1>1, EditedKeeps DEF TypeOK
<1>4. CASE UserEdit(c)
  BY <1>2, <1>3, <1>4 DEF UserEdit, TypeOK, copy, mode, chunking
<1>5. CASE SourceEdit(c)
  BY <1>2, <1>3, <1>5 DEF SourceEdit, TypeOK, copy, editor, chunking
<1>6. CASE InsertToc(c)
  <2>1. toHost' \in Seq(Message)
    BY <1>3, <1>6, UpdatedType, PostTypes DEF InsertToc
  <2> QED BY <1>2, <1>3, <1>6, <2>1 DEF InsertToc, TypeOK, Message, chunking, mode, copy
<1> QED BY <1>4, <1>5, <1>6

\* The listener, whatever text it is called with.
LEMMA ListenTypes ==
  ASSUME TypeOK, NEW text \in Markdown, Listen(text), heard' \in BOOLEAN,
         late' \in Markdown, lapse' \subseteq Lapse
  PROVE  TypeOK'
<1>1. current' \in Markdown
  BY SerializeWithType DEF Listen, TypeOK
<1>2. toHost' \in Seq(Message)
  BY <1>1, UpdatedType, PostTypes DEF Listen
<1>3. userEdited' \in BOOLEAN
  BY DEF Listen
<1> QED BY <1>1, <1>2, <1>3 DEF Listen, TypeOK, Message, chunking, mode, copy

LEMMA ListenersTypes ==
  ASSUME TypeOK, ListenerFires \/ LateListenerFires
  PROVE  TypeOK'
<1>1. CASE ListenerFires
  <2>1. heard' \in BOOLEAN /\ late' \in Markdown /\ lapse' \subseteq Lapse
    BY <1>1 DEF ListenerFires, Note, Lapse, TypeOK
  <2> QED BY <1>1, <2>1, ListenTypes DEF ListenerFires, TypeOK
<1>2. CASE LateListenerFires
  <2>1. heard' \in BOOLEAN /\ late' \in Markdown /\ lapse' \subseteq Lapse
    BY <1>2, NobodyType DEF LateListenerFires, Note, Lapse, TypeOK
  <2> QED BY <1>2, <2>1, ListenTypes DEF LateListenerFires, TypeOK
<1> QED BY <1>1, <1>2

LEMMA EnterSourceTypes ==
  ASSUME TypeOK, EnterSource
  PROVE  TypeOK'
<1>1. Serialize \in Markdown
  BY SerializeWithType DEF Serialize, TypeOK
<1>2. lapse' \subseteq Lapse
  BY DEF EnterSource, Note, Lapse, TypeOK
<1> QED BY <1>1, <1>2 DEF EnterSource, TypeOK, editor, chunking, copy

LEMMA SourceTimerFiresTypes ==
  ASSUME TypeOK, SourceTimerFires
  PROVE  TypeOK'
<1>1. toHost' \in Seq(Message)
  BY UpdatedType, PostTypes DEF SourceTimerFires, TypeOK
<1> QED BY <1>1, NobodyType DEF SourceTimerFires, TypeOK, Message, chunking, editor, copy,
      history

LEMMA LeaveSourceTypes ==
  ASSUME TypeOK, NEW how \in Opening, LeaveSource(how)
  PROVE  TypeOK'
<1>1. textarea \in Markdown /\ CreateEditor(textarea, how)
  BY DEF LeaveSource, TypeOK
<1>2. toHost' \in Seq(Message)
  BY <1>1, UpdatedType, PostTypes DEF LeaveSource, TypeOK, Message
<1>3. textarea' \in Markdown /\ source' \in BOOLEAN /\ lapse' \subseteq Lapse
  BY <1>1, NobodyType DEF LeaveSource, Note, Lapse, TypeOK
<1> QED BY <1>1, <1>2, <1>3, CreateEditorTypes DEF LeaveSource, TypeOK, Message, copy

LEMMA CommandsTypes ==
  ASSUME TypeOK, RequestSave \/ FormatDocument
  PROVE  TypeOK'
<1>1. CASE RequestSave
  <2>1. Serialize \in Markdown
    BY SerializeWithType DEF Serialize, TypeOK
  <2>2. toHost' \in Seq(Message)
    BY <1>1, SaveType, PostTypes DEF RequestSave
  <2> QED BY <1>1, <2>1, <2>2 DEF RequestSave, TypeOK, Message, chunking, editor, mode,
        copy, history
<1>2. CASE FormatDocument
  <2> DEFINE text == IF source THEN textarea ELSE doc
  <2>1. text \in Markdown /\ current' = text
    BY <1>2 DEF FormatDocument, TypeOK
  <2>2. toHost' \in {Append(Append(toHost, Updated(text)), Save), Append(toHost, Save)}
    BY <1>2 DEF FormatDocument, Post
  <2>3. toHost' \in Seq(Message)
    <3>1. Updated(text) \in Message /\ Save \in Message
      BY <2>1, UpdatedType, SaveType
    <3>2. toHost \in Seq(Message)
      BY DEF TypeOK, Message
    <3> HIDE DEF text
    <3>3. Append(toHost, Updated(text)) \in Seq(Message)
      BY <3>1, <3>2
    <3>4. Append(toHost, Save) \in Seq(Message)
      BY <3>1, <3>2
    <3>5. Append(Append(toHost, Updated(text)), Save) \in Seq(Message)
      BY <3>1, <3>3
    <3> QED BY <2>2, <3>4, <3>5
  <2> QED BY <1>2, <2>1, <2>3 DEF FormatDocument, TypeOK, Message, chunking, editor, mode,
        copy, history
<1> QED BY <1>1, <1>2

LEMMA AppendNextTypes ==
  ASSUME TypeOK, FetchEnds, tail # {}
  PROVE  TypeOK'
<1>1. AppendNext /\ fetches > 0
  BY DEF FetchEnds
<1>2. loaded' = loaded + 1 /\ loaded' \in Chunk
  BY <1>1, BoundAssumption DEF AppendNext, TypeOK, tail, Chunk
<1>3. doc' \in Markdown
  <2>1. Parsed(original) \in Markdown
    BY ParsedKeeps DEF TypeOK
  <2> QED BY <1>1, <2>1 DEF AppendNext, TypeOK, Markdown
<1>4. original' \in Markdown
  BY <1>1, NobodyType DEF AppendNext, TypeOK
<1>5. current' \in Markdown
  <2>1. current' \in {doc', SerializeWith(doc', tail', userEdited)}
    BY <1>1 DEF AppendNext
  <2> QED BY <1>3, <2>1, SerializeWithType DEF TypeOK
<1>6. toHost' \in Seq(Message)
  BY <1>1, <1>3, UpdatedType, PostTypes DEF AppendNext, TypeOK, Message
<1>7. loop' \in {"none", "viewport", "all"}
  <2>1. loop' \in Continuing(tail')
    BY <1>1 DEF AppendNext
  <2> QED BY <2>1 DEF Continuing, TypeOK
<1>8. fetches' \in Nat
  BY <1>1 DEF AppendNext, TypeOK
<1>9. /\ busy' = (loop' # "none") /\ heard' = TRUE /\ offered' = FALSE
      /\ userEdited' = (userEdited /\ tail' # {})
  BY <1>1 DEF AppendNext
<1>10. lapse' \subseteq Lapse /\ late' = late
  BY <1>1 DEF AppendNext, Note, Lapse, TypeOK
<1> QED BY <1>2, <1>3, <1>4, <1>5, <1>6, <1>7, <1>8, <1>9, <1>10
      DEF FetchEnds, TypeOK, Message, mode, copy

LEMMA FetchesTypes ==
  ASSUME TypeOK, Scroll \/ LoadAll \/ FetchEnds \/ StaleFetchEnds
  PROVE  TypeOK'
<1>1. CASE Scroll
  BY <1>1 DEF Scroll, Fetch, TypeOK, editor, mode, copy, history
<1>2. CASE LoadAll
  <2>1. fetches' \in Nat
    BY <1>2 DEF LoadAll, Fetch, TypeOK
  <2>2. offered' \in BOOLEAN
    BY <1>2 DEF LoadAll
  <2>3. busy' \in BOOLEAN /\ loop' \in {"none", "viewport", "all"}
    <3>1. CASE busy
      BY <1>2, <3>1 DEF LoadAll, TypeOK
    <3>2. CASE ~busy
      BY <1>2, <3>2 DEF LoadAll, Fetch
    <3> QED BY <3>1, <3>2
  <2> QED BY <1>2, <2>1, <2>2, <2>3 DEF LoadAll, TypeOK, editor, mode, copy, history
<1>3. CASE FetchEnds /\ tail = {}
  <2>1. fetches' \in Nat
    BY <1>3 DEF FetchEnds, TypeOK
  <2>2. busy' \in BOOLEAN /\ loop' \in {"none", "viewport", "all"}
    BY <1>3, Zenon DEF FetchEnds
  <2> QED BY <1>3, <2>1, <2>2 DEF FetchEnds, TypeOK, editor, mode, copy
<1>4. CASE FetchEnds /\ tail # {}
  BY <1>4, AppendNextTypes
<1>5. CASE StaleFetchEnds
  <2>1. stale' \in Nat
    BY <1>5 DEF StaleFetchEnds, TypeOK
  <2>2. busy' \in BOOLEAN
    BY <1>5 DEF StaleFetchEnds
  <2> QED BY <1>5, <2>1, <2>2 DEF StaleFetchEnds, TypeOK, editor, mode, copy, history
<1> QED BY <1>1, <1>2, <1>3, <1>4, <1>5

LEMMA HostTypes ==
  ASSUME TypeOK, HostReceives \/ AutoSave \/ HostReloads
  PROVE  TypeOK'
<1>1. CASE HostReceives
  <2>1. toHost' \in Seq(Message) /\ Head(toHost) \in Message
    <3>1. toHost \in Seq(Message) /\ toHost # <<>> /\ toHost' = Tail(toHost)
      BY <1>1 DEF HostReceives, TypeOK, Message
    <3>2. toHost' \in Seq(Message) /\ Head(toHost) = toHost[1] /\ 1 \in 1..Len(toHost)
      BY <3>1
    <3> QED BY <3>1, <3>2
  <2>2. host' \in Markdown /\ stored' \in Markdown
    BY <1>1, <2>1 DEF HostReceives, TypeOK, Message
  <2> QED BY <1>1, <2>1, <2>2 DEF HostReceives, TypeOK, Message, editor, chunking, mode,
        history
<1>2. CASE AutoSave
  BY <1>2 DEF AutoSave, TypeOK, editor, chunking, mode, history
<1>3. CASE HostReloads
  <2>1. PICK text \in {stored, [c \in Chunk |-> Raw]} :
          host' = text /\ stored' = text /\ toPage' = <<text>>
    BY <1>3 DEF HostReloads
  <2>2. text \in Markdown
    BY DEF TypeOK, Markdown, Version
  <2>3. edits' \in 0..MaxEdits /\ due' \in [Chunk -> {Gone} \union 1..MaxEdits]
    BY <1>3, BoundAssumption DEF HostReloads, TypeOK, Nobody
  <2> QED BY <1>3, <2>1, <2>2, <2>3 DEF HostReloads, TypeOK, editor, chunking, mode
<1> QED BY <1>1, <1>2, <1>3

LEMMA PageReloadsTypes ==
  ASSUME TypeOK, NEW how \in Opening, PageReloads(how)
  PROVE  TypeOK'
<1>1. /\ toPage' \in Seq(Markdown) /\ Head(toPage) \in Markdown
      /\ CreateEditor(Head(toPage), how)
  BY DEF PageReloads, TypeOK
<1>2. textarea' \in Markdown /\ due' \in [Chunk -> {Gone} \union 1..MaxEdits]
  BY <1>1 DEF PageReloads, TypeOK, Nobody
<1> QED BY <1>1, <1>2, CreateEditorTypes DEF PageReloads, TypeOK, copy

\* Every step keeps the types.
LEMMA TypeStep ==
  ASSUME TypeOK, [Next]_vars
  PROVE  TypeOK'
<1>1. CASE UNCHANGED vars
  BY <1>1 DEF TypeOK, vars, editor, chunking, mode, copy, history
<1>2. CASE Background
  BY <1>2, ListenersTypes, SourceTimerFiresTypes, FetchesTypes, HostTypes,
     PageReloadsTypes DEF Background
<1>3. CASE Foreground
  BY <1>3, UserTypes, EnterSourceTypes, LeaveSourceTypes, CommandsTypes, FetchesTypes,
     HostTypes DEF Foreground
<1> QED BY <1>1, <1>2, <1>3 DEF Next

LEMMA InitInv == Init => IInv
<1> SUFFICES ASSUME Init PROVE IInv
  OBVIOUS
<1> USE BoundAssumption
<1>1. loaded \in Chunk /\ busy \in BOOLEAN
  BY DEF Init, Opening, Loaded, Fills, Chunk
<1>2. /\ host \in Markdown /\ Whole(host)
      /\ stored = host
  BY Versions DEF Init, Markdown, Version, Whole
<1>3. doc \in Markdown /\ \A c \in Chunk : doc[c] = Gone <=> c > loaded
  BY Versions DEF Init, tail, Markdown, Version
<1>4. /\ original \in Markdown
      /\ loaded < Chunks => original = host
  <2>1. loaded < Chunks => Chunks \in tail
    BY <1>1 DEF tail, Chunk
  <2> QED BY <1>2, <2>1, NobodyType DEF Init
<1>5. current \in Markdown
  BY <1>2, <1>3 DEF Init
<1>6. TypeOK
  <2>1. /\ toHost \in Seq([type : {"markdownUpdated", "save"}, text : Markdown])
        /\ toPage \in Seq(Markdown)
    BY DEF Init
  <2>2. due \in [Chunk -> {Gone} \union 1..MaxEdits]
    BY DEF Init, Nobody
  <2>3. fetches \in Nat /\ loop \in {"none", "viewport", "all"} /\ offered \in BOOLEAN
    BY <1>1 DEF Init
  <2>4. textarea \in Markdown
    BY NobodyType DEF Init
  <2>5. edits \in 0..MaxEdits /\ stale \in Nat
    BY DEF Init
  <2>6. /\ userEdited \in BOOLEAN /\ heard \in BOOLEAN
        /\ source \in BOOLEAN /\ typed \in BOOLEAN
    BY Zenon DEF Init
  <2>7. late \in Markdown /\ lapse \subseteq Lapse
    BY NobodyType DEF Init
  <2> QED BY <1>1, <1>2, <1>3, <1>4, <1>5, <2>1, <2>2, <2>3, <2>4, <2>5, <2>6, <2>7
        DEF TypeOK
<1>7. WholeInv
  BY <1>2, <1>3, <1>4 DEF Init, WholeInv, PageInv, MessagesInv, Completable, Whole
<1> QED BY <1>6, <1>7 DEF IInv

----------------------------------------------------------------------------
(* Whole texts *)

\* A new editor for a whole text.
LEMMA CreateEditorKeeps ==
  ASSUME TypeOK, NEW text \in Markdown, Whole(text), NEW how \in Opening,
         CreateEditor(text, how)
  PROVE  Completable(doc, loaded, original)'
<1>1. loaded' \in Chunk
  BY CreateEditorTypes
<1>2. tail' = {c \in Chunk : c > loaded'}
  BY DEF tail
<1>3. doc' = [c \in Chunk |-> IF c > loaded' THEN Gone ELSE Parsed(text)[c]]
  BY <1>2 DEF CreateEditor
<1>4. \A c \in Chunk : doc'[c] = Gone <=> c > loaded'
  BY <1>3, ParsedKeeps DEF Whole
<1>5. loaded' < Chunks => original' = text
  <2>1. loaded' < Chunks => Chunks \in tail'
    BY <1>1, <1>2, BoundAssumption DEF Chunk
  <2> QED BY <2>1 DEF CreateEditor
<1> QED BY <1>4, <1>5 DEF Completable, Whole

LEMMA UserEditKeeps ==
  ASSUME TypeOK, WholeInv, NEW c \in Chunk, UserEdit(c)
  PROVE  WholeInv'
<1>1. \A d \in Chunk : doc'[d] = Gone <=> d > loaded
  BY EditedKeeps DEF UserEdit, TypeOK, WholeInv, PageInv, Completable
<1> QED BY <1>1 DEF UserEdit, WholeInv, PageInv, MessagesInv, Completable, Whole, copy, mode

LEMMA SourceEditKeeps ==
  ASSUME TypeOK, WholeInv, NEW c \in Chunk, SourceEdit(c)
  PROVE  WholeInv'
<1>1. Whole(textarea')
  BY EditedKeeps DEF SourceEdit, TypeOK, WholeInv, PageInv, Whole
<1> QED BY <1>1 DEF SourceEdit, WholeInv, PageInv, MessagesInv, Completable, Whole, copy,
      editor

\* The table of contents is inserted when no chunk is pending.
LEMMA InsertTocKeeps ==
  ASSUME TypeOK, WholeInv, NEW c \in Chunk, InsertToc(c), "eager" \notin Env
  PROVE  WholeInv'
<1> DEFINE text == Edited(doc, c)
<1>1. text \in Markdown /\ \A d \in Chunk : text[d] = Gone <=> d > loaded
  BY EditedKeeps DEF InsertToc, TypeOK, WholeInv, PageInv, Completable
<1>2. Whole(text)
  BY <1>1 DEF InsertToc, TypeOK, Whole, tail
<1>3. MessagesInv'
  BY <1>1, <1>2, PostsWhole DEF InsertToc, WholeInv
<1>4. PageInv' /\ Whole(host)' /\ Whole(stored)'
  BY <1>1 DEF InsertToc, WholeInv, PageInv, Completable, Whole, mode, copy
<1> QED BY <1>3, <1>4 DEF WholeInv

\* The listener posts what serialize() makes of the editor.
LEMMA ListenerFiresKeeps ==
  ASSUME TypeOK, WholeInv, ListenerFires
  PROVE  WholeInv'
<1>1. current' \in Markdown
  BY SerializeWithType DEF ListenerFires, Listen, TypeOK
<1>2. Whole(current')
  <2>1. CASE tail # {}
    BY <2>1, SerializeWithWhole DEF ListenerFires, Listen, TypeOK, WholeInv, PageInv, tail
  <2>2. CASE tail = {}
    BY <2>2 DEF ListenerFires, Listen, WholeInv, PageInv, Completable, Whole, tail
  <2> QED BY <2>1, <2>2
<1>3. MessagesInv'
  BY <1>1, <1>2, PostsWhole DEF ListenerFires, Listen, WholeInv
<1>4. PageInv' /\ Whole(host)' /\ Whole(stored)'
  BY DEF ListenerFires, Listen, WholeInv, PageInv, Completable, Whole, mode, copy
<1> QED BY <1>3, <1>4 DEF WholeInv

\* The source begins with what serialize() makes of the editor.
LEMMA EnterSourceKeeps ==
  ASSUME TypeOK, WholeInv, EnterSource
  PROVE  WholeInv'
<1>1. Whole(Serialize)
  BY SerializeWithWhole DEF Serialize, TypeOK, WholeInv, PageInv, tail
<1> QED BY <1>1 DEF EnterSource, WholeInv, PageInv, MessagesInv, Completable, Whole, editor,
      copy

LEMMA SourceTimerFiresKeeps ==
  ASSUME TypeOK, WholeInv, SourceTimerFires
  PROVE  WholeInv'
<1>1. Whole(textarea) /\ textarea \in Markdown
  BY DEF SourceTimerFires, TypeOK, WholeInv, PageInv
<1>2. MessagesInv'
  BY <1>1, PostsWhole DEF SourceTimerFires, WholeInv
<1>3. PageInv' /\ Whole(host)' /\ Whole(stored)'
  BY <1>1 DEF SourceTimerFires, WholeInv, PageInv, Completable, Whole, editor, copy
<1> QED BY <1>2, <1>3 DEF WholeInv

\* Leaving the source builds an editor for a whole text, and may post that text.
LEMMA LeaveSourceKeeps ==
  ASSUME TypeOK, WholeInv, NEW how \in Opening, LeaveSource(how)
  PROVE  WholeInv'
<1>1. Whole(textarea) /\ textarea \in Markdown /\ CreateEditor(textarea, how)
  BY DEF LeaveSource, TypeOK, WholeInv, PageInv
<1>2. MessagesInv'
  <2>1. Post(Updated(textarea)) \/ UNCHANGED toHost
    BY DEF LeaveSource
  <2>2. UNCHANGED toPage /\ MessagesInv
    BY DEF LeaveSource, WholeInv
  <2> QED BY <1>1, <2>1, <2>2, PostsWhole, MessagesStay
<1>3. PageInv'
  <2>1. Completable(doc, loaded, original)'
    BY <1>1, CreateEditorKeeps
  <2>2. source' = FALSE /\ typed' = typed /\ (typed => textarea' = textarea)
    BY DEF LeaveSource
  <2> QED BY <1>1, <2>1, <2>2 DEF PageInv, Whole
<1>4. Whole(host)' /\ Whole(stored)'
  BY DEF LeaveSource, WholeInv, Whole, copy
<1> QED BY <1>2, <1>3, <1>4 DEF WholeInv

LEMMA SavePosted ==
  ASSUME TypeOK, MessagesInv, Post(Save), UNCHANGED toPage
  PROVE  MessagesInv'
BY PostKeeps, SaveType DEF Post, TypeOK, Message, Save

LEMMA RequestSaveKeeps ==
  ASSUME TypeOK, WholeInv, RequestSave
  PROVE  WholeInv'
<1>1. MessagesInv'
  BY SavePosted DEF RequestSave, WholeInv
<1>2. PageInv' /\ Whole(host)' /\ Whole(stored)'
  BY DEF RequestSave, WholeInv, PageInv, Completable, Whole, editor, mode, copy
<1> QED BY <1>1, <1>2 DEF WholeInv

\* The document is formatted when no chunk is pending, so what the editor has is all
\* of it.
LEMMA FormatDocumentKeeps ==
  ASSUME TypeOK, WholeInv, FormatDocument, "eager" \notin Env
  PROVE  WholeInv'
<1> DEFINE text == IF source THEN textarea ELSE doc
<1>1. text \in Markdown /\ Whole(text)
  BY DEF FormatDocument, TypeOK, WholeInv, PageInv, Completable, Whole, tail
<1>2. toHost \in Seq(Message) /\ MessagesInv /\ UNCHANGED toPage
  BY DEF FormatDocument, TypeOK, Message, WholeInv
<1>3. Updated(text) \in Message /\ Save \in Message
  BY <1>1, UpdatedType, SaveType
<1>4. \/ Post(Save)
      \/ toHost' = Append(Append(toHost, Updated(text)), Save)
  BY DEF FormatDocument
<1>5. MessagesInv'
  <2> HIDE DEF text
  <2>1. CASE Post(Save)
    BY <1>2, <2>1, SavePosted
  <2>2. CASE toHost' = Append(Append(toHost, Updated(text)), Save)
    <3>1. /\ Len(toHost') = Len(toHost) + 2
          /\ \A i \in 1..Len(toHost) : toHost'[i] = toHost[i]
          /\ toHost'[Len(toHost) + 1] = Updated(text)
          /\ toHost'[Len(toHost) + 2] = Save
      BY <1>2, <1>3, <2>2
    <3>2. ASSUME NEW i \in 1..Len(toHost'), toHost'[i].type = "markdownUpdated"
          PROVE  Whole(toHost'[i].text)
      <4>1. CASE i \in 1..Len(toHost)
        BY <1>2, <3>1, <3>2, <4>1 DEF MessagesInv
      <4>2. CASE i = Len(toHost) + 1
        BY <1>1, <3>1, <4>2 DEF Updated
      <4>3. CASE i = Len(toHost) + 2
        BY <3>1, <3>2, <4>3 DEF Save
      <4>4. Len(toHost) \in Nat
        BY <1>2
      <4> QED BY <3>1, <4>1, <4>2, <4>3, <4>4
    <3> QED BY <1>2, <3>2 DEF MessagesInv, Whole
  <2> QED BY <1>4, <2>1, <2>2
<1>6. PageInv' /\ Whole(host)' /\ Whole(stored)'
  BY DEF FormatDocument, WholeInv, PageInv, Completable, Whole, editor, mode, copy
<1> QED BY <1>5, <1>6 DEF WholeInv

\* A chunk that arrives is one the editor lacked, and the next one.
LEMMA FetchEndsKeeps ==
  ASSUME TypeOK, WholeInv, FetchEnds
  PROVE  WholeInv'
<1>1. CASE tail = {}
  BY <1>1 DEF FetchEnds, WholeInv, PageInv, MessagesInv, Completable, Whole, editor, mode,
     copy
<1>2. CASE tail # {}
  <2> USE BoundAssumption
  <2>1. AppendNext
    BY <1>2 DEF FetchEnds
  <2>2. loaded < Chunks /\ loaded' = loaded + 1 /\ loaded' \in Chunk
    BY <1>2, <2>1 DEF AppendNext, TypeOK, tail, Chunk
  <2>3. tail' = {c \in Chunk : c > loaded'}
    BY DEF tail
  <2>4. doc' \in Markdown
    BY <1>2, AppendNextTypes DEF TypeOK
  <2>5. \A c \in Chunk : doc'[c] = Gone <=> c > loaded'
    <3>1. doc' = [c \in Chunk |-> IF c = loaded' THEN Parsed(original)[c] ELSE doc[c]]
      BY <2>1 DEF AppendNext
    <3>2. Parsed(original)[loaded'] # Gone
      BY <2>2, ParsedKeeps DEF TypeOK, WholeInv, PageInv, Completable, Whole
    <3>3. \A c \in Chunk : c # loaded' => (c > loaded <=> c > loaded')
      BY <2>2 DEF Chunk, TypeOK
    <3>4. \A c \in Chunk : doc[c] = Gone <=> c > loaded
      BY DEF WholeInv, PageInv, Completable
    <3>5. ~(loaded' > loaded')
      BY <2>2 DEF Chunk
    <3> QED BY <3>1, <3>2, <3>3, <3>4, <3>5
  <2>6. Completable(doc, loaded, original)'
    <3>1. loaded' < Chunks => Chunks \in tail'
      BY <2>2, <2>3 DEF Chunk
    <3>2. loaded' < Chunks => original' = original
      BY <2>1, <3>1 DEF AppendNext
    <3> QED BY <2>2, <2>5, <3>2 DEF WholeInv, PageInv, Completable, Whole
  <2>7. MessagesInv'
    <3>1. MessagesInv /\ UNCHANGED toPage
      BY DEF FetchEnds, WholeInv
    <3>2. toHost' = toHost \/ (tail' = {} /\ Post(Updated(doc')))
      BY <2>1 DEF AppendNext
    <3>3. CASE tail' = {} /\ Post(Updated(doc'))
      <4>1. Whole(doc')
        BY <2>3, <2>5, <3>3 DEF Whole
      <4> QED BY <2>4, <3>1, <3>3, <4>1, PostsWhole
    <3> QED BY <3>1, <3>2, <3>3, MessagesStay
  <2>8. (source \/ typed => Whole(textarea))' /\ Whole(host)' /\ Whole(stored)'
    BY DEF FetchEnds, WholeInv, PageInv, Whole, mode, copy
  <2> QED BY <2>6, <2>7, <2>8 DEF WholeInv, PageInv
<1> QED BY <1>1, <1>2

\* What only moves the fetches.
LEMMA FetchesKeep ==
  ASSUME WholeInv, Scroll \/ LoadAll \/ StaleFetchEnds
  PROVE  WholeInv'
BY DEF Scroll, LoadAll, StaleFetchEnds, WholeInv, PageInv, MessagesInv, Completable, Whole,
   editor, mode, copy

\* The host.
LEMMA HostReceivesKeeps ==
  ASSUME TypeOK, WholeInv, HostReceives
  PROVE  WholeInv'
<1>1. /\ toHost \in Seq(Message) /\ toHost # <<>> /\ toHost' = Tail(toHost)
      /\ MessagesInv
  BY DEF HostReceives, TypeOK, Message, WholeInv
<1>2. /\ Len(toHost') = Len(toHost) - 1
      /\ \A i \in 1..Len(toHost') : toHost'[i] = toHost[i + 1]
      /\ Head(toHost) = toHost[1] /\ 1 \in 1..Len(toHost) /\ Head(toHost) \in Message
      /\ Len(toHost) \in Nat
  BY <1>1
<1>3. MessagesInv'
  <2>1. \A i \in 1..Len(toHost') : i + 1 \in 1..Len(toHost)
    BY <1>2
  <2>2. UNCHANGED toPage
    BY DEF HostReceives
  <2> QED BY <1>1, <1>2, <2>1, <2>2 DEF MessagesInv, Whole
<1>4. Head(toHost).type # "save" => Whole(Head(toHost).text)
  BY <1>1, <1>2 DEF Message, MessagesInv
<1>5. Whole(host') /\ Whole(stored')
  BY <1>4 DEF HostReceives, WholeInv
<1>6. PageInv'
  BY DEF HostReceives, WholeInv, PageInv, Completable, Whole, editor, mode
<1> QED BY <1>3, <1>5, <1>6 DEF WholeInv, Whole

LEMMA AutoSaveKeeps ==
  ASSUME WholeInv, AutoSave
  PROVE  WholeInv'
BY DEF AutoSave, WholeInv, PageInv, MessagesInv, Completable, Whole, editor, mode

LEMMA HostReloadsKeeps ==
  ASSUME TypeOK, WholeInv, HostReloads
  PROVE  WholeInv'
<1>1. PICK text \in {stored, [c \in Chunk |-> Raw]} :
        host' = text /\ stored' = text /\ toPage' = <<text>>
  BY DEF HostReloads
<1>2. text \in Markdown /\ Whole(text)
  BY Versions DEF TypeOK, WholeInv, Whole, Markdown, Version
<1>3. Len(toPage') = 1 /\ toPage'[1] = text
  BY <1>1, <1>2
<1>4. MessagesInv'
  BY <1>2, <1>3 DEF HostReloads, WholeInv, MessagesInv, Whole
<1>5. PageInv' /\ Whole(host)' /\ Whole(stored)'
  BY <1>1, <1>2 DEF HostReloads, WholeInv, PageInv, Completable, Whole, editor, mode
<1> QED BY <1>4, <1>5 DEF WholeInv

LEMMA PageReloadsKeeps ==
  ASSUME TypeOK, WholeInv, NEW how \in Opening, PageReloads(how)
  PROVE  WholeInv'
<1>1. toPage \in Seq(Markdown) /\ toPage # <<>> /\ toPage' = Tail(toPage)
  BY DEF PageReloads, TypeOK
<1>2. /\ Len(toPage') = Len(toPage) - 1
      /\ \A i \in 1..Len(toPage') : toPage'[i] = toPage[i + 1]
      /\ Head(toPage) = toPage[1] /\ 1 \in 1..Len(toPage) /\ Head(toPage) \in Markdown
      /\ Len(toPage) \in Nat
  BY <1>1
<1>3. Whole(Head(toPage))
  BY <1>2 DEF WholeInv, MessagesInv
<1>4. MessagesInv'
  <2>1. \A i \in 1..Len(toPage') : i + 1 \in 1..Len(toPage)
    BY <1>2
  <2>2. UNCHANGED toHost
    BY DEF PageReloads
  <2> QED BY <1>2, <2>1, <2>2 DEF WholeInv, MessagesInv, Whole
<1>5. source \/ typed => Whole(textarea')
  BY <1>3 DEF PageReloads, WholeInv, PageInv
<1>6. Completable(doc, loaded, original)'
  BY <1>2, <1>3, CreateEditorKeeps DEF PageReloads
<1>7. PageInv'
  BY <1>5, <1>6 DEF PageReloads, PageInv, Whole
<1>8. Whole(host)' /\ Whole(stored)'
  BY DEF PageReloads, WholeInv, Whole, copy
<1> QED BY <1>4, <1>7, <1>8 DEF WholeInv

\* While no command is given to a document that is not all there, every step but the
\* last word of a destroyed editor keeps the texts whole.
LEMMA WholeStep ==
  ASSUME TypeOK, WholeInv, [Next]_vars, ~LateListenerFires, "eager" \notin Env
  PROVE  WholeInv'
<1>1. CASE UNCHANGED vars
  BY <1>1 DEF WholeInv, PageInv, MessagesInv, Completable, Whole, vars, editor, mode, copy
<1>2. CASE Background
  BY <1>2, ListenerFiresKeeps, SourceTimerFiresKeeps, FetchEndsKeeps, FetchesKeep,
     HostReceivesKeeps, AutoSaveKeeps, PageReloadsKeeps DEF Background
<1>3. CASE Foreground
  <2>1. ASSUME NEW c \in Chunk, UserEdit(c) \/ SourceEdit(c) \/ InsertToc(c)
        PROVE  WholeInv'
    BY <2>1, UserEditKeeps, SourceEditKeeps, InsertTocKeeps
  <2>2. ASSUME NEW how \in Opening, LeaveSource(how)
        PROVE  WholeInv'
    BY <2>2, LeaveSourceKeeps
  <2>3. CASE EnterSource \/ RequestSave \/ FormatDocument
    BY <2>3, EnterSourceKeeps, RequestSaveKeeps, FormatDocumentKeeps
  <2>4. CASE Scroll \/ LoadAll \/ HostReloads
    BY <2>4, FetchesKeep, HostReloadsKeeps
  <2> QED BY <1>3, <2>1, <2>2, <2>3, <2>4 DEF Foreground
<1> QED BY <1>1, <1>2, <1>3 DEF Next

----------------------------------------------------------------------------
(* The theorems *)

\* A lapse is not forgotten.
LEMMA LapseStays ==
  ASSUME [Next]_vars
  PROVE  lapse \subseteq lapse'
<1>1. CASE UNCHANGED vars
  BY <1>1 DEF vars, history
<1>2. CASE Background
  BY <1>2 DEF Background, ListenerFires, LateListenerFires, SourceTimerFires, FetchEnds,
     AppendNext, StaleFetchEnds, HostReceives, AutoSave, PageReloads, Note, history
<1>3. CASE Foreground
  BY <1>3 DEF Foreground, UserEdit, SourceEdit, InsertToc, CountEdit, EnterSource,
     LeaveSource, RequestSave, FormatDocument, Scroll, LoadAll, HostReloads, Note, history
<1> QED BY <1>1, <1>2, <1>3 DEF Next

LEMMA NextKeeps ==
  ASSUME IInv, [Next]_vars, "eager" \notin Env
  PROVE  IInv'
<1>1. TypeOK'
  BY TypeStep DEF IInv
<1>2. ASSUME "late" \notin lapse'
      PROVE  WholeInv'
  <2>1. ~LateListenerFires
    BY <1>2 DEF LateListenerFires, Note
  <2>2. WholeInv /\ TypeOK
    BY <1>2, LapseStays DEF IInv
  <2> QED BY <2>1, <2>2, WholeStep
<1> QED BY <1>1, <1>2 DEF IInv

\* Every variable has its type, whatever the user does.
THEOREM TypeCorrect == Spec => []TypeOK
<1>1. Init => TypeOK
  BY InitInv DEF IInv
<1>2. TypeOK /\ [Next]_vars => TypeOK'
  BY TypeStep
<1> QED BY <1>1, <1>2, PTL DEF Spec

\* serialize(), and everything that posts: no text that lacks a chunk ever gets to the
\* host or to the file, whatever is fetched, rebuilt or reloaded in between.
THEOREM HostIsWhole == "eager" \notin Env => (Spec => []WholeDocument)
<1> SUFFICES ASSUME "eager" \notin Env PROVE Spec => []WholeDocument
  OBVIOUS
<1>1. IInv /\ [Next]_vars => IInv'
  BY NextKeeps
<1>2. IInv => WholeDocument
  BY DEF IInv, WholeInv, WholeDocument
<1> QED BY <1>1, <1>2, InitInv, PTL DEF Spec

=============================================================================

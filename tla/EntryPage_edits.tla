-------------------------- MODULE EntryPage_edits --------------------------
(***************************************************************************)
(* The last edit of every chunk is in the host's text once the page has    *)
(* told the host everything, for any number of chunks, edits and messages. *)
(*                                                                         *)
(* As long as there is no lapse the mode the user works in always has the  *)
(* last edits, and whenever no change is left to be heard and no timer is  *)
(* armed, the last text under way to the host has them too. Commands wait  *)
(* for the whole document.                                                 *)
(***************************************************************************)
EXTENDS EntryPage_proofs

\* The text has the last edit of every chunk.
UpToDate(text) == \A c \in Chunk : due[c] # Gone => text[c] = due[c]

\* So has the editor, with the chunks still pending.
EditorUpToDate == \A c \in Chunk :
  due[c] # Gone => due[c] = IF c > loaded THEN original[c] ELSE doc[c]

NothingDue == \A c \in Chunk : due[c] = Gone

\* What the host will have when it has received everything: the last text posted,
\* or its own if only saves are under way.
HostWillBe ==
  /\ (\A i \in 1..Len(toHost) : toHost[i].type = "save") => UpToDate(host)
  /\ \A i \in 1..Len(toHost) :
       /\ toHost[i].type = "markdownUpdated"
       /\ \A j \in 1..Len(toHost) : j > i => toHost[j].type = "save"
       => UpToDate(toHost[i].text)

ModeInv ==
  /\ typed => source
  /\ source => UpToDate(textarea)
  /\ ~source => EditorUpToDate
  /\ ~source /\ tail # {} /\ ~userEdited /\ ~heard => UpToDate(original)

\* What holds without a lapse, with the types and whole texts.
EditsInv ==
  /\ ModeInv
  /\ ~Untold => HostWillBe

Sound == TypeOK /\ WholeInv

\* The inductive invariant.
LapseInv == IInv /\ (lapse = {} => EditsInv)

----------------------------------------------------------------------------
(* Texts *)

\* An edit is a number, which parsing keeps.
LEMMA DueIsEdit ==
  ASSUME TypeOK, NEW c \in Chunk, due[c] # Gone
  PROVE  due[c] \in 1..MaxEdits /\ due[c] # Raw
BY Versions DEF TypeOK

LEMMA ParsedKeepsEdits ==
  ASSUME TypeOK, NEW text \in Markdown, NEW c \in Chunk, due[c] # Gone,
         text[c] = due[c]
  PROVE  Parsed(text)[c] = due[c]
BY DueIsEdit DEF Parsed

\* An edit brings a text that was up to date up to date.
LEMMA EditedUpToDate ==
  ASSUME TypeOK, NEW text \in Markdown, NEW c \in Chunk, CountEdit(c),
         NEW d \in Chunk, due[d] # Gone => text[d] = due[d], due'[d] # Gone
  PROVE  Edited(text, c)[d] = due'[d]
BY DEF Edited, CountEdit, TypeOK, Markdown

\* What serialize() makes of an editor that is up to date.
LEMMA SerializeUpToDate ==
  ASSUME EditorUpToDate, ~source, doc \in Markdown, NEW e \in BOOLEAN,
         tail # {} /\ ~e => UpToDate(original)
  PROVE  UpToDate(SerializeWith(doc, tail, e))
<1>1. CASE tail = {}
  <2>1. \A c \in Chunk : ~(c > loaded)
    BY <1>1 DEF tail
  <2> QED BY <1>1, <2>1 DEF SerializeWith, UpToDate, EditorUpToDate
<1>2. CASE tail # {} /\ ~e
  BY <1>2 DEF SerializeWith, UpToDate
<1>3. CASE tail # {} /\ e
  BY <1>3 DEF SerializeWith, UpToDate, EditorUpToDate, tail
<1> QED BY <1>1, <1>2, <1>3

\* A new editor for a text that is up to date.
LEMMA CreateEditorUpToDate ==
  ASSUME TypeOK, NEW text \in Markdown, NEW how \in Opening, CreateEditor(text, how),
         UpToDate(text), UNCHANGED due
  PROVE  /\ EditorUpToDate'
         /\ tail' # {} => UpToDate(original)'
<1>1. \A c \in Chunk : c \in tail' <=> c > loaded'
  BY DEF tail
<1>2. tail' # {} => original' = text
  BY DEF CreateEditor
<1>3. ASSUME NEW c \in Chunk, due'[c] # Gone
      PROVE  due'[c] = IF c > loaded' THEN original'[c] ELSE doc'[c]
  <2>1. text[c] = due[c] /\ Parsed(text)[c] = due[c]
    BY <1>3, ParsedKeepsEdits DEF UpToDate
  <2>2. CASE c > loaded'
    BY <1>1, <1>2, <2>1, <2>2
  <2>3. CASE ~(c > loaded')
    BY <1>1, <2>1, <2>3 DEF CreateEditor
  <2> QED BY <2>2, <2>3
<1> QED BY <1>2, <1>3 DEF EditorUpToDate, UpToDate

----------------------------------------------------------------------------
(* Messages *)

LEMMA PostUpdate ==
  ASSUME toHost \in Seq(Message), NEW text \in Markdown,
         toHost' = Append(toHost, Updated(text)),
         \A c \in Chunk : due'[c] # Gone => text[c] = due'[c]
  PROVE  HostWillBe'
<1>1. Updated(text) \in Message
  BY UpdatedType
<1>2. /\ Len(toHost') = Len(toHost) + 1 /\ Len(toHost) \in Nat
      /\ toHost'[Len(toHost) + 1] = Updated(text)
  BY <1>1
<1>3. Updated(text).type = "markdownUpdated" /\ Updated(text).text = text
  BY DEF Updated
<1>4. Len(toHost) + 1 \in 1..Len(toHost')
  BY <1>2
<1>5. ASSUME NEW i \in 1..Len(toHost'),
             \A j \in 1..Len(toHost') : j > i => toHost'[j].type = "save"
      PROVE  i = Len(toHost) + 1
  BY <1>2, <1>3, <1>4, <1>5
<1> QED BY <1>2, <1>3, <1>4, <1>5 DEF HostWillBe, UpToDate

LEMMA PostSave ==
  ASSUME toHost \in Seq(Message), toHost' = Append(toHost, Save), HostWillBe,
         UNCHANGED <<host, due>>
  PROVE  HostWillBe'
<1>1. Save \in Message /\ Save.type = "save"
  BY SaveType DEF Save
<1>2. /\ Len(toHost') = Len(toHost) + 1 /\ Len(toHost) \in Nat
      /\ toHost'[Len(toHost) + 1] = Save
      /\ \A i \in 1..Len(toHost) : toHost'[i] = toHost[i]
  BY <1>1
<1>3. \A i \in 1..Len(toHost) : i \in 1..Len(toHost')
  BY <1>2
<1>4. ASSUME \A i \in 1..Len(toHost') : toHost'[i].type = "save"
      PROVE  UpToDate(host)'
  BY <1>2, <1>3, <1>4 DEF HostWillBe, UpToDate
<1>5. ASSUME NEW i \in 1..Len(toHost'), toHost'[i].type = "markdownUpdated",
             \A j \in 1..Len(toHost') : j > i => toHost'[j].type = "save"
      PROVE  UpToDate(toHost[i].text)'
  <2>1. i \in 1..Len(toHost)
    BY <1>1, <1>2, <1>5
  <2>2. toHost'[i] = toHost[i]
    BY <1>2, <2>1
  <2>3. \A j \in 1..Len(toHost) : j > i => toHost[j].type = "save"
    BY <1>2, <1>3, <1>5
  <2>4. UpToDate(toHost[i].text)
    BY <1>5, <2>1, <2>2, <2>3 DEF HostWillBe
  <2> QED BY <2>2, <2>4 DEF UpToDate
<1> QED BY <1>4, <1>5 DEF HostWillBe

\* A text and a save after it.
LEMMA PostBoth ==
  ASSUME toHost \in Seq(Message), NEW text \in Markdown,
         toHost' = Append(Append(toHost, Updated(text)), Save),
         \A c \in Chunk : due'[c] # Gone => text[c] = due'[c]
  PROVE  HostWillBe'
<1>1. Updated(text) \in Message /\ Save \in Message
  BY UpdatedType, SaveType
<1>2. Updated(text).type = "markdownUpdated" /\ Updated(text).text = text
  BY DEF Updated
<1> DEFINE n == Len(toHost)
<1>3. /\ Len(toHost') = n + 2 /\ n \in Nat
      /\ toHost'[n + 1] = Updated(text) /\ toHost'[n + 2] = Save
  BY <1>1
<1>4. n + 1 \in 1..Len(toHost')
  BY <1>3
<1>5. ASSUME NEW i \in 1..Len(toHost'), toHost'[i].type = "markdownUpdated",
             \A j \in 1..Len(toHost') : j > i => toHost'[j].type = "save"
      PROVE  toHost'[i].text = text
  <2>1. i # n + 2
    BY <1>3, <1>5 DEF Save
  <2>2. ~(n + 1 > i)
    BY <1>2, <1>3, <1>4, <1>5
  <2>3. i = n + 1
    BY <1>3, <2>1, <2>2
  <2> QED BY <1>2, <1>3, <2>3
<1>6. ~\A i \in 1..Len(toHost') : toHost'[i].type = "save"
  BY <1>2, <1>3, <1>4
<1> HIDE DEF n
<1> QED BY <1>5, <1>6 DEF HostWillBe, UpToDate

LEMMA HostWillBeStays ==
  ASSUME HostWillBe, UNCHANGED <<toHost, host, due>>
  PROVE  HostWillBe'
BY DEF HostWillBe, UpToDate

LEMMA NothingDueIsFine ==
  ASSUME NothingDue'
  PROVE  HostWillBe' /\ EditorUpToDate' /\ UpToDate(textarea)' /\ UpToDate(original)'
BY DEF NothingDue, HostWillBe, EditorUpToDate, UpToDate

----------------------------------------------------------------------------
(* The steps *)

\* Steps that leave the texts and the modes alone.
LEMMA ModeStays ==
  ASSUME ModeInv, UNCHANGED <<doc, loaded, original, userEdited, heard, mode, due>>
  PROVE  ModeInv'
BY DEF ModeInv, EditorUpToDate, UpToDate, tail, mode

LEMMA UserEditReaches ==
  ASSUME Sound, EditsInv, NEW c \in Chunk, UserEdit(c)
  PROVE  EditsInv'
<1>1. ~(c > loaded)
  BY DEF UserEdit, Sound, WholeInv, PageInv, Completable
<1>2. ASSUME NEW d \in Chunk, due'[d] # Gone
      PROVE  due'[d] = IF d > loaded THEN original[d] ELSE Edited(doc, c)[d]
  <2>1. CASE d = c
    BY <1>1, <2>1 DEF UserEdit, CountEdit, Edited, Sound, TypeOK, Markdown
  <2>2. CASE d # c
    BY <1>2, <2>2 DEF UserEdit, CountEdit, Edited, Sound, TypeOK, Markdown, EditsInv,
       ModeInv, EditorUpToDate
  <2> QED BY <2>1, <2>2
<1>3. EditorUpToDate'
  BY <1>2 DEF UserEdit, EditorUpToDate
<1> QED BY <1>3 DEF UserEdit, EditsInv, ModeInv, Untold, mode

\* Without a lapse the user is not in the source when the listener posts the editor's
\* own text.
LEMMA ListenerFiresReaches ==
  ASSUME Sound, EditsInv, ListenerFires, lapse' = {}
  PROVE  EditsInv'
<1>1. Post(Updated(current')) /\ toHost \in Seq(Message)
  BY DEF ListenerFires, Listen, Sound, TypeOK, Message
<1>2. current' \in Markdown
  BY SerializeWithType DEF ListenerFires, Listen, Sound, TypeOK
<1>3. source => tail # {}
  BY DEF ListenerFires, Note
<1>4. UpToDate(current')
  <2>1. CASE source
    BY <1>3, <2>1 DEF ListenerFires, Listen, EditsInv, ModeInv, SerializeWith
  <2>2. CASE ~source /\ tail # {}
    BY <2>2, SerializeUpToDate DEF ListenerFires, Listen, EditsInv, ModeInv, Sound, TypeOK
  <2>3. CASE ~source /\ tail = {}
    BY <2>3 DEF ListenerFires, Listen, EditsInv, ModeInv, EditorUpToDate, UpToDate, tail
  <2> QED BY <2>1, <2>2, <2>3
<1>5. HostWillBe'
  BY <1>1, <1>2, <1>4, PostUpdate DEF ListenerFires, Listen, UpToDate, Post
<1>6. ModeInv'
  BY DEF ListenerFires, Listen, EditsInv, ModeInv, EditorUpToDate, UpToDate, tail, mode
<1> QED BY <1>5, <1>6 DEF EditsInv

LEMMA EnterSourceReaches ==
  ASSUME Sound, EditsInv, EnterSource, lapse' = {}
  PROVE  EditsInv'
<1>1. ~heard /\ ~typed /\ ~source
  BY DEF EnterSource, Note, Untold
<1>2. UpToDate(Serialize)
  BY <1>1, SerializeUpToDate DEF Serialize, EditsInv, ModeInv, Sound, TypeOK
<1>3. ModeInv'
  BY <1>1, <1>2 DEF EnterSource, ModeInv, UpToDate, editor
<1> QED BY <1>1, <1>3, HostWillBeStays DEF EnterSource, EditsInv, Untold, copy, editor

LEMMA SourceEditReaches ==
  ASSUME Sound, EditsInv, NEW c \in Chunk, SourceEdit(c)
  PROVE  EditsInv'
<1>1. \A d \in Chunk : due'[d] # Gone => Edited(textarea, c)[d] = due'[d]
  BY EditedUpToDate DEF SourceEdit, EditsInv, ModeInv, UpToDate, Sound, TypeOK
<1> QED BY <1>1 DEF SourceEdit, EditsInv, ModeInv, Untold, UpToDate

LEMMA SourceTimerFiresReaches ==
  ASSUME Sound, EditsInv, SourceTimerFires
  PROVE  EditsInv'
<1>1. typed /\ source /\ UpToDate(textarea)
  BY DEF SourceTimerFires, EditsInv, ModeInv
<1>2. HostWillBe'
  <2>1. /\ toHost' = Append(toHost, Updated(textarea)) /\ UNCHANGED due
        /\ toHost \in Seq(Message) /\ textarea \in Markdown
    BY DEF SourceTimerFires, Post, history, Sound, TypeOK, Message
  <2> QED BY <1>1, <2>1, PostUpdate DEF UpToDate
<1>3. ModeInv'
  BY <1>1 DEF SourceTimerFires, ModeInv, UpToDate, editor, history
<1> QED BY <1>2, <1>3 DEF EditsInv

\* The mode is left when the host will have the source; a new editor is made of it.
LEMMA LeaveSourceReaches ==
  ASSUME Sound, EditsInv, NEW how \in Opening, LeaveSource(how), lapse' = {}
  PROVE  EditsInv'
<1>1. ~heard /\ ~typed /\ source /\ UpToDate(textarea) /\ HostWillBe
  BY DEF LeaveSource, Note, Untold, EditsInv, ModeInv
<1>2. UNCHANGED <<due, host>> /\ textarea \in Markdown /\ toHost \in Seq(Message)
  BY DEF LeaveSource, copy, Sound, TypeOK, Message
<1>3. HostWillBe'
  <2>1. CASE toHost' = Append(toHost, Updated(textarea))
    BY <1>1, <1>2, <2>1, PostUpdate DEF UpToDate
  <2>2. CASE toHost' = toHost
    BY <1>1, <1>2, <2>2, HostWillBeStays
  <2> QED BY <2>1, <2>2 DEF LeaveSource, Post
<1>4. EditorUpToDate' /\ (tail' # {} => UpToDate(original)')
  BY <1>1, <1>2, CreateEditorUpToDate DEF LeaveSource, Sound
<1>5. source' = FALSE /\ typed' = FALSE
  BY <1>1 DEF LeaveSource
<1> QED BY <1>3, <1>4, <1>5 DEF EditsInv, ModeInv, Untold

LEMMA RequestSaveReaches ==
  ASSUME Sound, EditsInv, RequestSave
  PROVE  EditsInv'
<1>1. ModeInv'
  BY ModeStays DEF RequestSave, EditsInv, editor, mode, chunking, history
<1>2. HostWillBe => HostWillBe'
  BY PostSave DEF RequestSave, Post, Sound, TypeOK, Message, copy, history
<1> QED BY <1>1, <1>2 DEF RequestSave, EditsInv, Untold, editor, mode

LEMMA FormatDocumentReaches ==
  ASSUME Sound, EditsInv, FormatDocument, "eager" \notin Env
  PROVE  EditsInv'
<1> DEFINE text == IF source THEN textarea ELSE doc
<1>1. text \in Markdown /\ UpToDate(text)
  <2>1. ~source => \A c \in Chunk : ~(c > loaded)
    BY DEF FormatDocument, tail
  <2> QED BY <2>1 DEF Sound, TypeOK, EditsInv, ModeInv, EditorUpToDate, UpToDate
<1>2. UNCHANGED <<host, due>> /\ toHost \in Seq(Message)
  BY DEF FormatDocument, copy, history, Sound, TypeOK, Message
<1>3. ModeInv'
  BY ModeStays DEF FormatDocument, EditsInv, editor, mode, chunking, history
<1>4. \/ toHost' = Append(toHost, Save)
      \/ toHost' = Append(Append(toHost, Updated(text)), Save)
  BY DEF FormatDocument, Post
<1>5. HostWillBe => HostWillBe'
  <2> HIDE DEF text
  <2>1. CASE toHost' = Append(toHost, Save)
    BY <1>2, <2>1, PostSave
  <2>2. CASE toHost' = Append(Append(toHost, Updated(text)), Save)
    BY <1>1, <1>2, <2>2, PostBoth DEF UpToDate
  <2> QED BY <1>4, <2>1, <2>2
<1> QED BY <1>3, <1>5 DEF FormatDocument, EditsInv, Untold, editor, mode

LEMMA InsertTocReaches ==
  ASSUME Sound, EditsInv, NEW c \in Chunk, InsertToc(c), "eager" \notin Env
  PROVE  EditsInv'
<1>1. \A d \in Chunk : ~(d > loaded)
  BY DEF InsertToc, tail
<1>2. \A d \in Chunk : due'[d] # Gone => Edited(doc, c)[d] = due'[d]
  BY <1>1, EditedUpToDate DEF InsertToc, EditsInv, ModeInv, EditorUpToDate, Sound, TypeOK
<1>3. EditorUpToDate'
  BY <1>1, <1>2 DEF InsertToc, EditorUpToDate
<1> QED BY <1>3 DEF InsertToc, EditsInv, ModeInv, Untold, mode

LEMMA FetchesReach ==
  ASSUME EditsInv, Scroll \/ LoadAll \/ StaleFetchEnds
  PROVE  EditsInv'
<1>1. /\ UNCHANGED <<doc, loaded, original, userEdited, heard, mode, due, toHost, host>>
      /\ UNCHANGED typed
  BY DEF Scroll, LoadAll, StaleFetchEnds, editor, mode, copy, history
<1>2. ModeInv'
  BY <1>1, ModeStays DEF EditsInv
<1> QED BY <1>1, <1>2, HostWillBeStays DEF EditsInv, Untold

\* A chunk that arrives has the edits the text had when the editor was made, and the
\* listener has yet to hear of it.
LEMMA FetchEndsReaches ==
  ASSUME Sound, EditsInv, FetchEnds
  PROVE  EditsInv'
<1>1. UNCHANGED <<mode, due, host>> /\ UNCHANGED <<source, typed, textarea>>
  BY DEF FetchEnds, copy, mode
<1>2. CASE tail = {}
  <2>1. UNCHANGED <<doc, loaded, original, userEdited, heard, toHost>>
    BY <1>2 DEF FetchEnds, editor
  <2>2. ModeInv'
    BY <1>1, <2>1, ModeStays DEF EditsInv
  <2> QED BY <1>1, <2>1, <2>2, HostWillBeStays DEF EditsInv, Untold
<1>3. CASE tail # {}
  <2>1. /\ loaded' = loaded + 1 /\ heard' = TRUE
        /\ doc' = [c \in Chunk |-> IF c = loaded' THEN Parsed(original)[c] ELSE doc[c]]
        /\ original' = IF tail' = {} THEN Nobody ELSE original
    BY <1>3 DEF FetchEnds, AppendNext
  <2>2. ~source => EditorUpToDate'
    <3> SUFFICES ASSUME ~source, NEW c \in Chunk, due'[c] # Gone
                 PROVE  due'[c] = IF c > loaded' THEN original'[c] ELSE doc'[c]
      BY DEF EditorUpToDate
    <3>1. due[c] = IF c > loaded THEN original[c] ELSE doc[c]
      BY <1>1 DEF EditsInv, ModeInv, EditorUpToDate
    <3>2. loaded \in Nat /\ c \in Nat /\ doc \in Markdown /\ original \in Markdown
      BY BoundAssumption DEF Sound, TypeOK, Chunk
    <3>3. CASE c > loaded + 1
      <4>1. c \in tail'
        BY <2>1, <3>3 DEF tail
      <4> QED BY <1>1, <2>1, <3>1, <3>2, <3>3, <4>1
    <3>4. CASE c = loaded + 1
      <4>1. Parsed(original)[c] = due[c]
        BY <1>1, <3>1, <3>2, <3>4, ParsedKeepsEdits DEF Sound
      <4> QED BY <1>1, <2>1, <3>2, <3>4, <4>1
    <3>5. CASE c < loaded + 1
      BY <1>1, <2>1, <3>1, <3>2, <3>5
    <3> QED BY <3>2, <3>3, <3>4, <3>5
  <2> QED BY <1>1, <2>1, <2>2 DEF EditsInv, ModeInv, Untold, UpToDate
<1> QED BY <1>2, <1>3

LEMMA HostReceivesReaches ==
  ASSUME Sound, EditsInv, HostReceives
  PROVE  EditsInv'
<1>1. ModeInv'
  BY ModeStays DEF HostReceives, EditsInv, editor, mode, chunking, history
<1>2. /\ toHost \in Seq(Message) /\ toHost # <<>> /\ toHost' = Tail(toHost)
      /\ UNCHANGED <<heard, typed, due>>
  BY DEF HostReceives, Sound, TypeOK, Message, editor, mode, history
<1>3. /\ Len(toHost) \in Nat /\ Len(toHost') = Len(toHost) - 1
      /\ \A i \in 1..Len(toHost') : toHost'[i] = toHost[i + 1]
      /\ Head(toHost) = toHost[1] /\ 1 \in 1..Len(toHost) /\ toHost[1] \in Message
  BY <1>2
<1>4. \A i \in 1..Len(toHost) : i # 1 => i - 1 \in 1..Len(toHost') /\ toHost[i] = toHost'[i - 1]
  BY <1>3
<1>5. ASSUME HostWillBe, \A i \in 1..Len(toHost') : toHost'[i].type = "save"
      PROVE  UpToDate(host)'
  <2>1. \A i \in 1..Len(toHost) : i # 1 => toHost[i].type = "save"
    BY <1>4, <1>5
  <2>2. CASE toHost[1].type = "save"
    <3>1. UpToDate(host)
      BY <1>5, <2>1, <2>2 DEF HostWillBe
    <3> QED BY <1>2, <1>3, <2>2, <3>1 DEF HostReceives, UpToDate
  <2>3. CASE toHost[1].type # "save"
    <3>1. toHost[1].type = "markdownUpdated"
      BY <1>3, <2>3 DEF Message
    <3>2. UpToDate(toHost[1].text)
      BY <1>3, <1>5, <2>1, <3>1 DEF HostWillBe
    <3> QED BY <1>2, <1>3, <2>3, <3>2 DEF HostReceives, UpToDate
  <2> QED BY <2>2, <2>3
<1>6. ASSUME HostWillBe, NEW i \in 1..Len(toHost'), toHost'[i].type = "markdownUpdated",
             \A j \in 1..Len(toHost') : j > i => toHost'[j].type = "save"
      PROVE  UpToDate(toHost[i].text)'
  <2>1. toHost'[i] = toHost[i + 1] /\ i + 1 \in 1..Len(toHost)
    BY <1>3
  <2>2. ASSUME NEW j \in 1..Len(toHost), j > i + 1
        PROVE  toHost[j].type = "save"
    <3>1. j - 1 \in 1..Len(toHost') /\ j - 1 > i /\ toHost[j] = toHost'[j - 1]
      BY <1>3, <1>4, <2>2
    <3> QED BY <1>6, <3>1
  <2>3. UpToDate(toHost[i + 1].text)
    BY <1>6, <2>1, <2>2 DEF HostWillBe
  <2> QED BY <1>2, <2>1, <2>3 DEF UpToDate
<1>7. HostWillBe => HostWillBe'
  BY <1>5, <1>6 DEF HostWillBe
<1> QED BY <1>1, <1>2, <1>7 DEF EditsInv, Untold

LEMMA AutoSaveReaches ==
  ASSUME EditsInv, AutoSave
  PROVE  EditsInv'
<1>1. ModeInv'
  BY ModeStays DEF AutoSave, EditsInv, editor, mode, chunking, history
<1> QED BY <1>1, HostWillBeStays DEF AutoSave, EditsInv, Untold, editor, mode, history

\* A reload takes back what was due.
LEMMA ReloadsReach ==
  ASSUME EditsInv, HostReloads \/ \E how \in Opening : PageReloads(how)
  PROVE  EditsInv'
<1>1. NothingDue'
  BY DEF HostReloads, PageReloads, NothingDue, Nobody
<1>2. typed' => source'
  BY DEF HostReloads, PageReloads, EditsInv, ModeInv, mode
<1> QED BY <1>1, <1>2, NothingDueIsFine DEF EditsInv, ModeInv

----------------------------------------------------------------------------
(* The theorem *)

LEMMA EditsStep ==
  ASSUME Sound, EditsInv, [Next]_vars, lapse' = {}, "eager" \notin Env
  PROVE  EditsInv'
<1>1. CASE UNCHANGED vars
  <2>1. ModeInv'
    BY <1>1, ModeStays DEF EditsInv, vars, editor, chunking, history
  <2> QED BY <1>1, <2>1, HostWillBeStays DEF EditsInv, Untold, vars, editor, mode, copy,
        history
<1>2. CASE Background
  <2>1. ~LateListenerFires
    BY DEF LateListenerFires, Note
  <2> QED BY <1>2, <2>1, ListenerFiresReaches, SourceTimerFiresReaches, FetchEndsReaches,
        FetchesReach, HostReceivesReaches, AutoSaveReaches, ReloadsReach DEF Background
<1>3. CASE Foreground
  <2>1. ASSUME NEW c \in Chunk, UserEdit(c) \/ SourceEdit(c) \/ InsertToc(c)
        PROVE  EditsInv'
    BY <2>1, UserEditReaches, SourceEditReaches, InsertTocReaches
  <2>2. ASSUME NEW how \in Opening, LeaveSource(how)
        PROVE  EditsInv'
    BY <2>2, LeaveSourceReaches
  <2>3. CASE EnterSource \/ RequestSave \/ FormatDocument
    BY <2>3, EnterSourceReaches, RequestSaveReaches, FormatDocumentReaches
  <2>4. CASE Scroll \/ LoadAll \/ HostReloads
    BY <2>4, FetchesReach, ReloadsReach
  <2> QED BY <1>3, <2>1, <2>2, <2>3, <2>4 DEF Foreground
<1> QED BY <1>1, <1>2, <1>3 DEF Next

LEMMA LapseStep ==
  ASSUME LapseInv, [Next]_vars, "eager" \notin Env
  PROVE  LapseInv'
<1>1. IInv'
  BY NextKeeps DEF LapseInv
<1>2. ASSUME lapse' = {}
      PROVE  EditsInv'
  <2>1. lapse = {}
    BY <1>2, LapseStays
  <2>2. Sound /\ EditsInv
    BY <2>1 DEF LapseInv, IInv, Sound
  <2> QED BY <1>2, <2>2, EditsStep
<1> QED BY <1>1, <1>2 DEF LapseInv

\* The listener, the timer of the source, the mode changes and the chunks: once the
\* page has told the host everything, the host has the last edit of every chunk unless
\* there has been a lapse.
THEOREM EditsAlwaysReachHost == "eager" \notin Env => (Spec => []EditsReachHost)
<1> SUFFICES ASSUME "eager" \notin Env PROVE Spec => []EditsReachHost
  OBVIOUS
<1>1. Init => LapseInv
  <2>1. Init => EditsInv
    BY DEF Init, EditsInv, ModeInv, HostWillBe, EditorUpToDate, UpToDate, Nobody
  <2> QED BY <2>1, InitInv DEF LapseInv
<1>2. LapseInv /\ [Next]_vars => LapseInv'
  BY LapseStep
<1>3. LapseInv => EditsReachHost
  BY DEF LapseInv, EditsInv, HostWillBe, EditsReachHost, HostHasEdits, Settled, Untold,
     UpToDate
<1> QED BY <1>1, <1>2, <1>3, PTL DEF Spec

=============================================================================

--------------------------- MODULE RoundtripSave ---------------------------
(***************************************************************************)
(* The save-path decision of the Milkdown editor: which of three ways of   *)
(* producing bytes a save takes, and what the incremental way assembles.   *)
(* Constant-level operators only; MilkdownWorkingCopy applies them to the  *)
(* state of one working copy.                                              *)
(*                                                                         *)
(* A document is a function from top-level block ids to block texts.       *)
(* Absent is the text of a block the document does not have, so a function *)
(* that is Absent everywhere is the empty document.                        *)
(***************************************************************************)

EXTENDS Naturals

CONSTANTS
  Block,   \* ids of top-level Markdown blocks
  Text,    \* what a block may read
  Absent,  \* the block is not in the document
  Torn,    \* bytes cut out of a text with the ranges of another text
  None     \* a JavaScript null

ASSUME BlockAssumption == Block # {}
ASSUME TextAssumption ==
  /\ Text # {}
  /\ Absent \notin Text /\ Torn \notin Text /\ Absent # Torn

Doc == [Block -> Text \union {Absent}]

Blank == [b \in Block |-> Absent]

\* What a file may hold: a document, or one that was cut at wrong places.
Bytes == [Block -> Text \union {Absent, Torn}]

Present(d) == {b \in Block : d[b] # Absent}

\* What the tracker in the webview sends beside the Markdown: the ids it holds
\* for dirty and the fresh text of each of them.
Report == [ids : SUBSET Block, contents : Bytes]

\* The host's snapshot of a webview parse. The block ranges are offsets into
\* the text the webview parsed; source is the text they are applied to.
Session == [epoch : Nat, source : Bytes, parsed : Bytes, safe : BOOLEAN]

ASSUME NoneAssumption == None \notin Bytes \union Report \union Session

----------------------------------------------------------------------------

\* blockRanges of the session has every dirty id.
AllDirtyKnown(session, report) == report.ids \subseteq Present(session.parsed)

\* Every dirty id comes with its text.
AllContentsPresent(report) == \A b \in report.ids : report.contents[b] # Absent

\* Mutant: ids the parse does not know are not looked for.
CanAssembleUnknown(session, report) == AllContentsPresent(report)

CanAssemble(session, report) ==
  /\ AllDirtyKnown(session, report)
  /\ AllContentsPresent(report)

\* The decision tree. "A" writes the opened bytes back, "B" assembles the
\* source with the dirty blocks replaced, "C" writes the serialized document.
PickSavePath(session, report, openedBytes, force) ==
  IF \/ force = "C"
     \/ session = None
     \/ report = None
  THEN "C"
  ELSE IF ~session.safe THEN "C"
  ELSE IF force # "B" /\ report.ids = {}
       THEN IF openedBytes # None THEN "A" ELSE "C"
  ELSE IF CanAssemble(session, report) THEN "B" ELSE "C"

\* The bytes of block b in the source, cut with the ranges of the parse.
Slice(session, b) ==
  IF session.parsed = session.source THEN session.source[b] ELSE Torn

\* Walks the block order of the session: a dirty block gives its fresh text, any
\* other block the bytes it had. A block outside the order is never visited.
AssembleIncremental(session, report) ==
  [b \in Block |->
    IF b \notin Present(session.parsed) THEN Absent
    ELSE IF report.contents[b] # Absent THEN report.contents[b]
    ELSE Slice(session, b)]

\* Mutant: the opened bytes are written back whatever the path.
BytesForOpened(path, session, report, openedBytes, snapshot) ==
  IF openedBytes = None THEN snapshot ELSE openedBytes

\* What a save that took the given path hands to the file service.
BytesFor(path, session, report, openedBytes, snapshot) ==
  CASE path = "A" -> openedBytes
    [] path = "B" -> AssembleIncremental(session, report)
    [] path = "C" -> snapshot

=============================================================================

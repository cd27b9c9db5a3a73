------------------------------ MODULE Document ------------------------------
(***************************************************************************)
(* What an editor of one file promises, whatever goes on inside it: the    *)
(* file changes when a text somebody saw is written as a whole or when     *)
(* another program writes it, the text changes when the user edits it or   *)
(* when something the file held replaces it, and the dirty flag compares   *)
(* the text with the last one the two agreed on.                           *)
(***************************************************************************)
CONSTANTS
  Content,  \* what the file may hold
  Fresh,    \* the text before the first read
  Nothing   \* no save under way

VARIABLES
  file,     \* the file
  text,     \* the text of the editor
  agreed,   \* the text the editor believes the file has
  dirty,    \* the flag shown to the user
  writing,  \* the save under way: its text, and whether the file has it
  reads     \* what reads of the file have found and nobody used yet

vars == <<file, text, agreed, dirty, writing, reads>>

Save == [text : Content, landed : BOOLEAN]

\* An editor that has not read its file.
Started ==
  /\ text = Fresh /\ agreed = Fresh /\ dirty = FALSE
  /\ writing = Nothing /\ reads = {}

Init == file \in Content /\ Started

\* The user changes the text.
Edit ==
  /\ text' \in Content
  /\ dirty' = (text' # agreed)
  /\ UNCHANGED <<file, agreed, writing, reads>>

\* A save takes the text as it is now, and no other save is under way.
Begin ==
  /\ writing = Nothing
  /\ writing' = [text |-> text, landed |-> FALSE]
  /\ UNCHANGED <<file, text, agreed, dirty, reads>>

\* The whole text of the save is the file.
Land ==
  /\ writing # Nothing
  /\ file' = writing.text
  /\ writing' = [text |-> writing.text, landed |-> TRUE]
  /\ UNCHANGED <<text, agreed, dirty, reads>>

\* The save succeeds, only after its text was the file. Edits since it began
\* stay unsaved.
Confirm ==
  /\ writing # Nothing /\ writing.landed
  /\ agreed' = writing.text
  /\ dirty' = (text # writing.text)
  /\ writing' = Nothing
  /\ UNCHANGED <<file, text, reads>>

\* The save fails; nothing is said of the text.
GiveUp ==
  /\ writing # Nothing
  /\ writing' = Nothing
  /\ UNCHANGED <<file, text, agreed, dirty, reads>>

\* A read finds what the file holds.
Read ==
  /\ reads' = reads \union {file}
  /\ UNCHANGED <<file, text, agreed, dirty, writing>>

\* The text is replaced by what a read has found.
Follow ==
  /\ text' \in reads
  /\ agreed' = text' /\ dirty' = FALSE
  /\ reads' \subseteq reads
  /\ UNCHANGED <<file, writing>>

\* Another program writes the file.
Foreign ==
  /\ file' \in Content
  /\ UNCHANGED <<text, agreed, dirty, writing, reads>>

\* The editor dies and starts again; the file stays.
Restart ==
  /\ Started'
  /\ UNCHANGED file

Next ==
  Edit \/ Begin \/ Land \/ Confirm \/ GiveUp \/ Read \/ Follow \/ Foreign \/ Restart

Spec == Init /\ [][Next]_vars

=============================================================================

------------------------------ MODULE MindmapFile ------------------------------
(***************************************************************************)
(* A .mm file, the page that draws it and the handlers of the host. Every  *)
(* message of the page starts a handler that reads the whole file, edits   *)
(* its text, writes the whole file back and answers; nothing orders two    *)
(* handlers. The page is drawn anew from what a handler that changes the   *)
(* structure has written.                                                  *)
(***************************************************************************)
EXTENDS MindmapXml

CONSTANTS
  Opened,    \* the maps a user may open
  FirstId,   \* the first name that none of them has
  Handler,   \* bound: handlers under way at a time
  MaxId,     \* bound: topics and relation lines made
  MaxInputs, \* bound: messages of the page
  Env        \* what the surroundings do in this instance

\* failure   the file service rejects
\* summary   the user draws a summary over topics

\* Tags by themselves; which of them a topic may have is up to WellFormed().
Tags == [kind : {"open", "self", "close", "mark", "arrow", "hook", "broken", "end"}
                  \union Begun,
         id : Nat, value : Nat]

\* What a user opens is a map that another program would open too, with a name for each
\* topic. A new topic is named by the time and a random number.
ASSUME OpenedAssumption ==
  /\ FirstId \in Nat
  /\ \A x \in Opened : /\ x \in Seq(Tags) /\ WellFormed(x)
                       /\ \A i \in DOMAIN x : x[i].id < FirstId
                       /\ \A i \in Named(x) : x[i].id # 0

VARIABLES
  file,    \* the tags of the file
  page,    \* the tags the host last drew the page from, with the texts typed since
  handler, \* what each handler is doing
  nextId,  \* the topics and lines made so far
  inputs   \* the messages so far

vars == <<file, page, handler, nextId, inputs>>

Idle == [phase |-> "idle"]

Init ==
  /\ file \in Opened /\ page = file
  /\ handler = [h \in Handler |-> Idle]
  /\ nextId = FirstId /\ inputs = 0

----------------------------------------------------------------------------
(* The page *)

\* Messages by what their handlers do to the file, about topics and lines the page was
\* drawn with. The library of the page draws each edit by itself before the host
\* answers, and undoes or pastes without a message: the parent that a move names is
\* that of the page's own tree, which may be any. retext stands for the folding and
\* the colours of a topic too, mark and unmark for icons, fonts and edges.
Messages(tree) ==
       [op : {"retext"}, id : Topics(tree), text : {0, 1}]
  \union [op : {"child", "remove", "mark", "unmark"}, id : Topics(tree)]
  \union [op : {"sibling"}, id : Topics(tree), place : {"before", "after"}]
  \union [op : {"inside"}, id : Topics(tree), target : Topics(tree)]
  \union [op : {"before", "after"}, id : Topics(tree), target : Topics(tree),
          parent : Topics(tree)]
  \union {m \in [op : {"arrow"}, id : Topics(tree), to : Topics(tree)] : m.id # m.to}
  \union [op : {"retarget"}, id : {a.id : a \in tree.arrows}, to : Topics(tree)]
  \union [op : {"unarrow"}, id : {a.id : a \in tree.arrows}]
  \union (IF "summary" \in Env THEN [op : {"summary"}, id : Topics(tree)] ELSE {})

\* The user edits; the page tells its host and goes on.
Edit(h) ==
  /\ handler[h] = Idle /\ inputs < MaxInputs
  /\ \E m \in Messages(parseMindmapXml(page)) :
       /\ handler' = [handler EXCEPT ![h] = [phase |-> "read", message |-> m]]
       /\ page' = IF m.op = "retext" THEN updateMindmapNodeText(page, m.id, m.text)
                  ELSE page
  /\ inputs' = inputs + 1
  /\ UNCHANGED <<file, nextId>>

----------------------------------------------------------------------------
(* The handlers *)

In(h, phase) == handler[h] # Idle /\ handler[h].phase = phase

\* What the handler of m makes of the tags x; n is the id it makes.
Mutated(x, m, n) ==
  CASE m.op = "retext"   -> updateMindmapNodeText(x, m.id, m.text)
    [] m.op = "child"    -> appendMindmapChild(x, m.id, n)
    [] m.op = "sibling"  -> appendMindmapSibling(x, m.id, m.place, n)
    [] m.op = "remove"   -> removeMindmapNode(x, m.id)
    [] m.op = "mark"     -> addMindmapNodeIcon(x, m.id)
    [] m.op = "unmark"   -> removeMindmapNodeIcon(x, m.id)
    [] m.op = "inside"   -> moveMindmapNode(x, m.id, m.target, m.target, m.op)
    [] m.op \in {"before", "after"} ->
         moveMindmapNode(x, m.id, m.parent, m.target, m.op)
    [] m.op = "arrow"    -> appendMindmapArrowlink(x, m.id, n, m.to)
    [] m.op = "retarget" -> updateMindmapArrowlink(x, m.id, m.to)
    [] m.op = "unarrow"  -> removeMindmapArrowlink(x, m.id)
    [] m.op = "summary"  -> addMindmapSummary(x, m.id, n)

MakesId(m) == m.op \in {"child", "sibling", "arrow", "summary"}

Ends(h) == handler' = [handler EXCEPT ![h] = Idle]

\* readFile() resolves and the edit is made. One that changes nothing is answered
\* with "not ok" and not written.
ReadLands(h) ==
  /\ In(h, "read")
  /\ LET m == handler[h].message
         x == Mutated(file, m, nextId)
     IN  /\ IF x = file
            THEN Ends(h)
            ELSE handler' = [handler EXCEPT ![h] =
                   [phase |-> "write", message |-> m, xml |-> x]]
         /\ IF MakesId(m)
            THEN nextId < MaxId /\ nextId' = nextId + 1
            ELSE UNCHANGED nextId
  /\ UNCHANGED <<file, page, inputs>>

\* writeFile() replaces the whole file.
WriteLands(h) ==
  /\ In(h, "write")
  /\ file' = handler[h].xml
  /\ handler' = [handler EXCEPT ![h].phase = "answer"]
  /\ UNCHANGED <<page, nextId, inputs>>

\* setHtml() draws the page anew; after a new text there is only an answer, the page
\* has the text already.
Answer(h) ==
  /\ In(h, "answer")
  /\ page' = IF handler[h].message.op = "retext" THEN page ELSE handler[h].xml
  /\ Ends(h)
  /\ UNCHANGED <<file, nextId, inputs>>

\* A read or a write is rejected: the answer is "not ok".
Fails(h) ==
  /\ "failure" \in Env
  /\ In(h, "read") \/ In(h, "write")
  /\ Ends(h)
  /\ UNCHANGED <<file, page, nextId, inputs>>

Next ==
  \E h \in Handler : Edit(h) \/ ReadLands(h) \/ WriteLands(h) \/ Answer(h) \/ Fails(h)

Spec == Init /\ [][Next]_vars

----------------------------------------------------------------------------
(* Properties *)

\* The maps that are opened have icons, fonts and relation lines that close themselves,
\* the way FreeMind and VSWord write them.
ClosingThemselves ==
  \A x \in Opened : \A i \in DOMAIN x : x[i].kind \notin Begun \union {"end"}

\* FR-02: FreeMind and Freeplane open what VSWord has saved. Whatever handlers
\* overlap and whatever is rejected, the file is one element in which every other is
\* closed where it ends, and no two topics have one name.
FileIsSound == WellFormed(file)

\* What m asks of the tree t; n is the id it makes.
Asked(t, m, n) ==
  CASE m.op = "retext"   -> Retexted(t, m.id, m.text)
    [] m.op = "child"    -> Child(t, m.id, n)
    [] m.op = "sibling"  -> Sibling(t, m.id, m.place, n)
    [] m.op = "remove"   -> Pruned(t, m.id)
    [] m.op = "mark"     -> Marked(t, m.id, TRUE)
    [] m.op = "unmark"   -> Marked(t, m.id, FALSE)
    [] m.op = "inside"   -> Moved(t, m.id, m.target, m.op)
    [] m.op \in {"before", "after"} ->
         IF Movable(t, m.target) /\ ParentOf(t, m.target) = m.parent
         THEN Moved(t, m.id, m.target, m.op) ELSE t
    [] m.op = "arrow"    -> Joined(t, m.id, m.to, n)
    [] m.op = "retarget" -> Retargeted(t, m.id, m.to)
    [] m.op = "unarrow"  -> Parted(t, m.id)
    [] m.op = "summary"  -> Summarised(t, m.id, n)

\* Counting tags comes to the tree the user meant: what a handler is about to write
\* reads as the outline of the file with the one thing done that was asked, and
\* nothing is written when that is no change. The subtree that moves takes its
\* topics, marks and lines with it and no other topic is touched.
EditsAreAsked ==
  [][\A h \in Handler :
       ReadLands(h) =>
         Asked(parseMindmapXml(file), handler[h].message, nextId)
           = parseMindmapXml(IF handler'[h] = Idle THEN file ELSE handler'[h].xml)]_vars

\* What m makes of the parents of all topics; n is the id it makes. After a removal
\* those are left that are not the topic and not in one that is gone.
Hung(up, m, n, new) ==
  LET With(p) == [id \in DOMAIN up \union {n} |-> IF id = n THEN p ELSE up[id]]
      left == DOMAIN new
  IN  CASE m.op = "child"   -> new = With(m.id)
        [] m.op = "sibling" -> new = With(up[m.id])
        [] m.op = "inside"  -> new = [up EXCEPT ![m.id] = m.target]
        [] m.op \in {"before", "after"} -> new = [up EXCEPT ![m.id] = m.parent]
        [] m.op = "remove"  ->
             /\ new = [id \in left |-> up[id]]
             /\ left = {id \in DOMAIN up : id # m.id /\ up[id] \in left \union {0}}
        [] OTHER -> new = up

\* The shape alone, which is proved for maps of any size: no edit loses a topic or
\* takes one to another place than it was asked to, whatever is in the topics it cuts
\* out, moves or opens. EditsAreAsked implies it on the maps that TLC reaches.
TopicsStay ==
  [][\A h \in Handler :
       In(h, "read") /\ In(h, "write")'
         => Hung(Parents(file), handler[h].message, nextId,
                 Parents(handler'[h].xml))]_vars

=============================================================================

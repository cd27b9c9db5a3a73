------------------------------ MODULE MindmapXml ------------------------------
(***************************************************************************)
(* The operations of common/mindmapXml.ts. A .mm file is edited as text:   *)
(* the tags are scanned, a place among them is found by counting, and text *)
(* is cut out or put in there, so everything else stays as it is. Here the *)
(* text is the sequence of its tags; unknown XML, blanks and quoting are   *)
(* left out.                                                               *)
(*                                                                         *)
(*   open, self, close  <node>, <node/> and </node>, value is the TEXT     *)
(*   mark               an <icon/>, <font/> or <edge/> child of a node     *)
(*   arrow              an <arrowlink/>, value is its destination          *)
(*   openmark openarrow the same as <icon> or <arrowlink>, ended by the    *)
(*   end                next tag, </icon> or </arrowlink>                  *)
(*   hook               a summary, <hook> with its <Parameters/>           *)
(*   broken             a <node> torn in two, which no scan finds          *)
(***************************************************************************)
EXTENDS Integers, FiniteSets, SequencesExt, FiniteSetsExt, Outline

Tag(kind, id, value) == [kind |-> kind, id |-> id, value |-> value]
Open(id, text) == Tag("open", id, text)
Self(id, text) == Tag("self", id, text)
Close == Tag("close", 0, 0)
Mark == Tag("mark", 0, 0)

\* Tags that have to be closed by the next one, which VSWord reads but never writes.
Begun == {"openmark", "openarrow"}

\* x with the tags i to j replaced by s; an empty range puts s before i.
Splice(x, i, j, s) == SubSeq(x, 1, i - 1) \o s \o SubSeq(x, j + 1, Len(x))

Count(x, kind, i, j) == Cardinality({k \in i..j : x[k].kind = kind})
Level(x, i, j) == Count(x, "open", i, j) = Count(x, "close", i, j)

First(S) == IF S = {} THEN 0 ELSE Min(S)
LastOf(S) == IF S = {} THEN 0 ELSE Max(S)

\* findNodeOpenIndexById(), and the loops that do the same.
IndexOf(x, id) == First({i \in DOMAIN x : x[i].kind \in {"open", "self"} /\ x[i].id = id})

\* Mutant: the first closing tag, whatever was opened in between.
MatchingCloseFirst(x, i) == First({j \in i + 1..Len(x) : x[j].kind = "close"})

\* findMatchingCloseIndex()
MatchingClose(x, i) ==
  First({j \in i + 1..Len(x) : x[j].kind = "close" /\ Level(x, i + 1, j - 1)})

\* Where the subtree that starts at i ends, 0 when it does not.
EndOf(x, i) == IF x[i].kind = "self" THEN i ELSE MatchingClose(x, i)

\* hasParentNode() and findParentNodeId(): the node the tag i is in, or 0.
EnclosingIndex(x, i) ==
  LastOf({j \in 1..i - 1 : x[j].kind = "open" /\ Level(x, j + 1, i - 1)})
HasParent(x, i) == EnclosingIndex(x, i) # 0
Enclosing(x, i) == IF HasParent(x, i) THEN x[EnclosingIndex(x, i)].id ELSE 0

\* A self-closing node opened around s.
Expanded(x, i, s) == Splice(x, i, i, <<[x[i] EXCEPT !.kind = "open"]>> \o s \o <<Close>>)

\* s as the last or as the first of what is in the node i.
InsertLast(x, i, s) ==
  IF x[i].kind = "self" THEN Expanded(x, i, s)
  ELSE IF MatchingClose(x, i) = 0 THEN x
       ELSE Splice(x, MatchingClose(x, i), MatchingClose(x, i) - 1, s)

InsertFirst(x, i, s) ==
  IF x[i].kind = "self" THEN Expanded(x, i, s) ELSE Splice(x, i + 1, i, s)

appendMindmapChild(x, parent, id) ==
  LET i == IndexOf(x, parent) IN
  IF i = 0 THEN x ELSE InsertLast(x, i, <<Self(id, 0)>>)

appendMindmapSibling(x, sibling, place, id) ==
  LET i == IndexOf(x, sibling) IN
  IF i = 0 \/ ~HasParent(x, i) \/ EndOf(x, i) = 0 THEN x
  ELSE LET k == IF place = "before" THEN i ELSE EndOf(x, i) + 1
       IN  Splice(x, k, k - 1, <<Self(id, 0)>>)

removeMindmapNode(x, id) ==
  LET i == IndexOf(x, id) IN
  IF i = 0 \/ ~HasParent(x, i) \/ EndOf(x, i) = 0 THEN x
  ELSE Splice(x, i, EndOf(x, i), <<>>)

\* applyXmlEdits(): of a cut of i to e and text put in before k, the later edit is
\* applied first so the places of the other stay right.
CutAndPaste(x, i, e, k, s) ==
  IF k > i THEN Splice(Splice(x, k, k - 1, s), i, e, <<>>)
  ELSE Splice(Splice(x, i, e, <<>>), k, k - 1, s)

\* The target is the new parent, or the sibling to be next to: of those the page
\* names the parent too, which has to be the one the file has.
moveMindmapNode(x, id, parent, target, place) ==
  LET i == IndexOf(x, id)
      t == IndexOf(x, target)
      e == EndOf(x, i)
      moved == SubSeq(x, i, e)
  IN
  IF i = 0 \/ t = 0 THEN x
  ELSE IF ~HasParent(x, i) \/ e = 0 \/ t \in i..e THEN x
  ELSE IF place = "inside"
       THEN IF x[t].kind = "self"
            THEN IF t > i
                 THEN Splice(Expanded(x, t, moved), i, e, <<>>)
                 ELSE Expanded(Splice(x, i, e, <<>>), t, moved)
            ELSE IF MatchingClose(x, t) = 0 THEN x
                 ELSE CutAndPaste(x, i, e, MatchingClose(x, t), moved)
       ELSE IF ~HasParent(x, t) \/ EndOf(x, t) = 0 THEN x
            ELSE IF Enclosing(x, t) # parent THEN x
            ELSE CutAndPaste(x, i, e,
                   IF place = "before" THEN t ELSE EndOf(x, t) + 1, moved)

\* updateMindmapNodeText(); setMindmapNodeFolded() and setMindmapNodeAttribute() do
\* the same to other attributes.
updateMindmapNodeText(x, id, text) ==
  LET i == IndexOf(x, id) IN IF i = 0 THEN x ELSE [x EXCEPT ![i].value = text]

\* Mutant: a mark anywhere below counts.
MarksOfAnywhere(x, i) ==
  {j \in i + 1..EndOf(x, i) - 1 : x[j].kind \in {"mark", "openmark"}}

\* nodeAlreadyHasIcon(), findDirectChildFont(), findDirectChildEdge(): what is right
\* under the node, and not under a node in it.
MarksOf(x, i) ==
  {j \in i + 1..EndOf(x, i) - 1 :
     x[j].kind \in {"mark", "openmark"} /\ Level(x, i + 1, j - 1)}

addMindmapNodeIcon(x, id) ==
  LET i == IndexOf(x, id) IN
  IF i = 0 THEN x
  ELSE IF MarksOf(x, i) # {} THEN x ELSE InsertFirst(x, i, <<Mark>>)

\* What is cut out is one tag: </icon> stays where it is.
removeMindmapNodeIcon(x, id) ==
  LET i == IndexOf(x, id) IN
  IF i = 0 THEN x
  ELSE LET j == First(MarksOf(x, i)) IN IF j = 0 THEN x ELSE Splice(x, j, j, <<>>)

\* Without a closing tag the arrow goes right after the opening one.
appendMindmapArrowlink(x, source, id, to) ==
  LET i == IndexOf(x, source)
      arrow == <<Tag("arrow", id, to)>>
  IN  IF i = 0 THEN x
      ELSE IF EndOf(x, i) = 0 THEN InsertFirst(x, i, arrow) ELSE InsertLast(x, i, arrow)

ArrowIndex(x, id) ==
  First({i \in DOMAIN x : x[i].kind \in {"arrow", "openarrow"} /\ x[i].id = id})

\* Written anew, an arrow closes itself; here too </arrowlink> stays.
updateMindmapArrowlink(x, id, to) ==
  LET i == ArrowIndex(x, id) IN
  IF i = 0 THEN x ELSE [x EXCEPT ![i] = Tag("arrow", @.id, to)]

removeMindmapArrowlink(x, id) ==
  LET i == ArrowIndex(x, id) IN IF i = 0 THEN x ELSE Splice(x, i, i, <<>>)

\* A self-closing node is opened around the hook. Of any other the hook is put seven
\* characters, the length of </node>, before the end of the tag that opens it: into
\* the middle of that tag.
addMindmapSummary(x, parent, id) ==
  LET i == IndexOf(x, parent)
      hook == <<Tag("hook", id, 0)>>
  IN  IF i = 0 THEN x
      ELSE IF x[i].kind = "self" THEN Expanded(x, i, hook)
      ELSE Splice(x, i, i, <<[x[i] EXCEPT !.kind = "broken"]>> \o hook)

\* parseMindmapXml(): what the page, and the next program, make of the tags. A topic
\* outside the first tree is dropped; a closing tag too many is passed over.
parseMindmapXml(x) ==
  LET Top(t) == IF t.stack = <<>> THEN 0 ELSE Last(t.stack)
      Kept(t) == IF Top(t) = 0 THEN t.tree.root = 0 ELSE Top(t) \in Topics(t.tree)
      Grow(t, tag) ==
        [t.tree EXCEPT
          !.root = IF @ = 0 THEN tag.id ELSE @,
          !.kids = (IF Top(t) = 0 THEN @ ELSE Under(@, Top(t), tag.id)) @@ (tag.id :> <<>>),
          !.text = @ @@ (tag.id :> tag.value)]
      Fill(t, tag) ==
        CASE tag.kind \in {"mark", "openmark"} -> [t.tree EXCEPT !.marks = @ \union {Top(t)}]
          [] tag.kind = "hook" -> [t.tree EXCEPT !.summaries =
               @ \union {[id |-> tag.id, on |-> Top(t)]}]
          [] tag.kind \in {"arrow", "openarrow"} -> [t.tree EXCEPT !.arrows =
               @ \union {[id |-> tag.id, from |-> Top(t), to |-> tag.value]}]
      Read(t, tag) ==
        CASE tag.kind \in {"open", "self"} ->
               [tree |-> IF Kept(t) THEN Grow(t, tag) ELSE t.tree,
                stack |-> IF tag.kind = "open" THEN Append(t.stack, tag.id) ELSE t.stack]
          [] tag.kind = "close"  -> [t EXCEPT !.stack = IF @ = <<>> THEN @ ELSE Front(@)]
          [] tag.kind \in {"broken", "end"} -> t
          [] OTHER -> IF Top(t) \in Topics(t.tree) THEN [t EXCEPT !.tree = Fill(t, tag)] ELSE t
  IN  FoldLeft(Read, [tree |-> Empty, stack |-> <<>>], x).tree

Named(x) == {i \in DOMAIN x : x[i].kind \in {"open", "self"}}

\* Each topic with the one it is in, 0 for the root: what the edits do to the shape of
\* the tree.
Parents(x) ==
  [id \in {x[i].id : i \in Named(x)} |-> Enclosing(x, IndexOf(x, id))]

\* One element that holds all others, each closed where it ends, and no two topics of
\* one name.
WellFormed(x) ==
  LET Depth(i) == Count(x, "open", 1, i) - Count(x, "close", 1, i)
  IN  /\ \A i \in DOMAIN x :
           /\ x[i].kind # "broken"
           /\ x[i].kind = "end" <=> i > 1 /\ x[i - 1].kind \in Begun
      /\ \A i, j \in Named(x) : x[i].id = x[j].id => i = j
      /\ 1 \in Named(x) /\ Depth(Len(x)) = 0
      /\ \A i \in 1..Len(x) - 1 : Depth(i) > 0

=============================================================================

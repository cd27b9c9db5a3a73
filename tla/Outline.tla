------------------------------- MODULE Outline -------------------------------
(***************************************************************************)
(* A mindmap as its user thinks of it: a tree of topics with their texts,  *)
(* marks, relation lines and summaries, and what each edit asks of it.     *)
(* MindmapXml does the same to the tags of a file.                         *)
(***************************************************************************)
EXTENDS Naturals, SequencesExt

\* kids gives the topics under a topic, in order; topics are numbers and 0 is
\* none of them.
Empty == [root |-> 0, kids |-> <<>>, text |-> <<>>, marks |-> {}, arrows |-> {},
          summaries |-> {}]

Topics(t) == DOMAIN t.kids

\* The topic n and all those under it.
Subtree(t, n) ==
  LET Reached[k \in 0..Cardinality(Topics(t))] ==
        IF k = 0 THEN {n}
        ELSE Reached[k - 1] \union UNION {ToSet(t.kids[p]) : p \in Reached[k - 1]}
  IN  Reached[Cardinality(Topics(t))]

\* The topic n is under, for every topic but the root.
ParentOf(t, n) == CHOOSE p \in Topics(t) : n \in ToSet(t.kids[p])

Movable(t, n) == n \in Topics(t) \ {t.root}

Unhooked(t, n) == [p \in Topics(t) |-> SelectSeq(t.kids[p], LAMBDA k : k # n)]

\* n next to s, wherever s is.
Beside(kids, s, n, place) ==
  [p \in DOMAIN kids |->
    IF s \notin ToSet(kids[p]) THEN kids[p]
    ELSE LET i == CHOOSE k \in DOMAIN kids[p] : kids[p][k] = s
         IN  InsertAt(kids[p], IF place = "before" THEN i ELSE i + 1, n)]

Under(kids, p, n) == [kids EXCEPT ![p] = Append(@, n)]

\* A new topic has no text of its own yet and nothing under it.
Grown(t, n, kids) == [t EXCEPT !.kids = kids @@ (n :> <<>>),
                               !.text = t.text @@ (n :> 0)]

\* What a message asks for. What cannot be done leaves the tree as it is.
Child(t, p, n) == IF p \in Topics(t) THEN Grown(t, n, Under(t.kids, p, n)) ELSE t

Sibling(t, s, place, n) ==
  IF Movable(t, s) THEN Grown(t, n, Beside(t.kids, s, n, place)) ELSE t

Pruned(t, n) ==
  IF ~Movable(t, n) THEN t
  ELSE LET rest == Topics(t) \ Subtree(t, n)
           kids == Unhooked(t, n)
       IN  [root |-> t.root,
            kids |-> [p \in rest |-> kids[p]],
            text |-> [p \in rest |-> t.text[p]],
            marks |-> t.marks \intersect rest,
            arrows |-> {a \in t.arrows : a.from \in rest},
            summaries |-> {s \in t.summaries : s.on \in rest}]

Moved(t, n, target, place) ==
  IF ~Movable(t, n) \/ target \notin Topics(t) \ Subtree(t, n) THEN t
  ELSE IF place = "inside"
       THEN [t EXCEPT !.kids = Under(Unhooked(t, n), target, n)]
       ELSE IF target = t.root THEN t
            ELSE [t EXCEPT !.kids = Beside(Unhooked(t, n), target, n, place)]

Retexted(t, n, text) ==
  IF n \in Topics(t) THEN [t EXCEPT !.text[n] = text] ELSE t

Marked(t, n, on) ==
  IF n \notin Topics(t) THEN t
  ELSE [t EXCEPT !.marks = IF on THEN @ \union {n} ELSE @ \ {n}]

Joined(t, from, to, id) ==
  IF from \in Topics(t)
  THEN [t EXCEPT !.arrows = @ \union {[id |-> id, from |-> from, to |-> to]}] ELSE t

Retargeted(t, id, to) ==
  [t EXCEPT !.arrows =
    {IF a.id = id THEN [a EXCEPT !.to = to] ELSE a : a \in t.arrows}]

Parted(t, id) == [t EXCEPT !.arrows = {a \in t.arrows : a.id # id}]

Summarised(t, n, id) ==
  IF n \in Topics(t)
  THEN [t EXCEPT !.summaries = @ \union {[id |-> id, on |-> n]}] ELSE t

=============================================================================

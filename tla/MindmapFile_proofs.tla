-------------------------- MODULE MindmapFile_proofs --------------------------
(***************************************************************************)
(* The file stays a well-formed tree whatever overlaps or is rejected,     *)
(* because each handler writes a sound text made from one that was sound   *)
(* when it was read, and a name is given to one topic only, for good. And  *)
(* each edit leaves every topic where it is but for what it was asked.     *)
(***************************************************************************)
EXTENDS MindmapFile, MindmapXml_proofs, TLAPS

\* What is known of the handler h.
Shape(h) ==
  \/ handler[h] = Idle
  \/ handler[h] = [phase |-> "read", message |-> handler[h].message]
  \/ \E p \in {"write", "answer"} :
       handler[h] = [phase |-> p, message |-> handler[h].message, xml |-> handler[h].xml]

\* The inductive invariant of the handlers alone.
IInv ==
  /\ handler = [h \in Handler |-> handler[h]]
  /\ \A h \in Handler : Shape(h)

LEMMA InitInv == Init => IInv
BY DEF Init, IInv, Shape

LEMMA EndsKeeps == ASSUME IInv, NEW h \in Handler, Ends(h) PROVE IInv'
BY DEF IInv, Ends, Shape

LEMMA EditKeeps == ASSUME IInv, NEW h \in Handler, Edit(h) PROVE IInv'
<1>1. PICK m \in Messages(parseMindmapXml(page)) :
        handler' = [handler EXCEPT ![h] = [phase |-> "read", message |-> m]]
  BY DEF Edit
<1>2. /\ handler' = [g \in Handler |-> handler'[g]]
      /\ \A g \in Handler : handler'[g] =
           IF g = h THEN [phase |-> "read", message |-> m] ELSE handler[g]
  BY <1>1 DEF IInv
<1> QED BY <1>2 DEF IInv, Shape

LEMMA ReadLandsKeeps == ASSUME IInv, NEW h \in Handler, ReadLands(h) PROVE IInv'
<1> DEFINE m == handler[h].message
           x == Mutated(file, m, nextId)
<1>1. IF x = file THEN Ends(h)
      ELSE handler' = [handler EXCEPT ![h] = [phase |-> "write", message |-> m, xml |-> x]]
  BY DEF ReadLands
<1> HIDE DEF m, x
<1>2. CASE x = file
  BY <1>1, <1>2, EndsKeeps
<1>3. CASE x # file
  <2>1. /\ handler' = [g \in Handler |-> handler'[g]]
        /\ \A g \in Handler : handler'[g] =
             IF g = h THEN [phase |-> "write", message |-> m, xml |-> x] ELSE handler[g]
    BY <1>1, <1>3 DEF IInv
  <2> QED BY <2>1 DEF IInv, Shape
<1> QED BY <1>2, <1>3

LEMMA WriteLandsKeeps == ASSUME IInv, NEW h \in Handler, WriteLands(h) PROVE IInv'
<1>1. /\ handler[h] # Idle /\ handler[h].phase = "write"
      /\ handler' = [handler EXCEPT ![h] = [handler[h] EXCEPT !.phase = "answer"]]
  BY DEF WriteLands, In
<1>2. /\ handler' = [g \in Handler |-> handler'[g]]
      /\ handler'[h] = [handler[h] EXCEPT !.phase = "answer"]
      /\ \A g \in Handler : g # h => handler'[g] = handler[g]
  BY <1>1 DEF IInv
<1>3. handler[h] = [phase |-> "write", message |-> handler[h].message, xml |-> handler[h].xml]
  BY <1>1 DEF IInv, Shape
<1>4. handler'[h] =
        [phase |-> "answer", message |-> handler[h].message, xml |-> handler[h].xml]
  BY <1>2, <1>3
<1>5. handler'[h].message = handler[h].message /\ handler'[h].xml = handler[h].xml
  BY <1>4
<1> QED BY <1>2, <1>4, <1>5 DEF IInv, Shape

LEMMA NextKeeps == ASSUME IInv, [Next]_vars PROVE IInv'
<1>1. CASE UNCHANGED vars
  BY <1>1 DEF vars, IInv, Shape
<1>2. ASSUME NEW h \in Handler,
             Edit(h) \/ ReadLands(h) \/ WriteLands(h) \/ Answer(h) \/ Fails(h)
      PROVE  IInv'
  BY <1>2, EditKeeps, ReadLandsKeeps, WriteLandsKeeps, EndsKeeps DEF Answer, Fails
<1> QED BY <1>1, <1>2 DEF Next

----------------------------------------------------------------------------
(* The file stays sound *)

\* What the page asks of its host, without summaries.
Edits == {"retext", "child", "remove", "mark", "unmark", "sibling",
          "inside", "before", "after", "arrow", "retarget", "unarrow"}

\* What is about to be written is sound too, whatever the file has become since it was
\* read; no name in it is made again.
FInv ==
  /\ nextId \in Nat
  /\ Sound(file, nextId)
  /\ \A h \in Handler : /\ In(h, "read") => handler[h].message.op \in Edits
                        /\ In(h, "write") => Sound(handler[h].xml, nextId)

LEMMA MessagesAreEdits ==
  ASSUME "summary" \notin Env, NEW tree, NEW m \in Messages(tree)
  PROVE  m.op \in Edits
BY DEF Messages, Edits

LEMMA MutatedSound ==
  ASSUME NEW x, NEW n \in Nat, Sound(x, n), NEW m, m.op \in Edits
  PROVE  Sound(Mutated(x, m, n), IF MakesId(m) THEN n + 1 ELSE n)
<1>1. CASE m.op = "retext"
  BY <1>1, TextSound DEF Mutated, MakesId
<1>2. CASE m.op = "child"
  BY <1>2, ChildSound DEF Mutated, MakesId
<1>3. CASE m.op = "sibling"
  BY <1>3, SiblingSound DEF Mutated, MakesId
<1>4. CASE m.op = "remove"
  BY <1>4, RemoveSound DEF Mutated, MakesId
<1>5. CASE m.op = "mark"
  BY <1>5, MarkSound DEF Mutated, MakesId
<1>6. CASE m.op = "unmark"
  BY <1>6, UnmarkSound DEF Mutated, MakesId
<1>7. CASE m.op = "inside"
  BY <1>7, MoveSound DEF Mutated, MakesId
<1>8. CASE m.op \in {"before", "after"}
  BY <1>8, MoveSound DEF Mutated, MakesId
<1>9. CASE m.op = "arrow"
  BY <1>9, ArrowSound, SoundMore DEF Mutated, MakesId
<1>10. CASE m.op = "retarget"
  BY <1>10, RetargetSound DEF Mutated, MakesId
<1>11. CASE m.op = "unarrow"
  BY <1>11, UnarrowSound DEF Mutated, MakesId
<1> QED BY <1>1, <1>2, <1>3, <1>4, <1>5, <1>6, <1>7, <1>8, <1>9, <1>10, <1>11 DEF Edits

\* A map that is opened is sound, with the names of what is made still to come.
LEMMA OpenedSound == ASSUME ClosingThemselves, NEW x \in Opened PROVE Sound(x, FirstId)
<1>1. /\ x \in Seq(Tags) /\ WellFormed(x)
      /\ \A k \in DOMAIN x : x[k].kind \notin Begun \union {"end"}
      /\ \A k \in DOMAIN x : x[k].id < FirstId
      /\ \A k \in Named(x) : x[k].id # 0
  BY OpenedAssumption DEF ClosingThemselves
<1>2. \A k \in 1..Len(x) : x[k] \in Tags
  BY <1>1, ElementOfSeq
<1>3. \A t \in Tags : t = Tag(t.kind, t.id, t.value) /\ t.id \in Nat
  BY DEF Tags, Tag
<1>4. \A k \in 1..Len(x) : IsTag(x[k])
  BY <1>1, <1>2, <1>3 DEF IsTag
<1>5. Xml(x)
  BY <1>1, <1>4, XmlIs
<1>6. NamesWithin(x, FirstId)
  BY <1>1, <1>2, <1>3, <1>5, XmlShape DEF NamesWithin, Named
<1> QED BY <1>1, <1>5, <1>6 DEF Sound

LEMMA InitSound == ASSUME ClosingThemselves, Init PROVE FInv
<1>1. Sound(file, FirstId) /\ nextId = FirstId /\ FirstId \in Nat
  BY OpenedSound, OpenedAssumption DEF Init
<1>2. \A h \in Handler : handler[h] = Idle
  BY DEF Init
<1> QED BY <1>1, <1>2 DEF FInv, In

LEMMA NextSound ==
  ASSUME "summary" \notin Env, IInv, FInv, [Next]_vars
  PROVE  FInv'
<1>1. nextId \in Nat /\ Sound(file, nextId)
  BY DEF FInv
<1>2. CASE UNCHANGED vars
  BY <1>2 DEF FInv, In, vars
<1>3. ASSUME NEW h \in Handler, Edit(h) PROVE FInv'
  <2>1. PICK m \in Messages(parseMindmapXml(page)) :
          handler' = [handler EXCEPT ![h] = [phase |-> "read", message |-> m]]
    BY <1>3 DEF Edit
  <2>2. m.op \in Edits
    BY MessagesAreEdits
  <2>3. UNCHANGED <<file, nextId>>
    BY <1>3 DEF Edit
  <2>4. \A g \in Handler :
          handler'[g] = IF g = h THEN [phase |-> "read", message |-> m] ELSE handler[g]
    BY <2>1 DEF IInv
  <2> QED BY <2>2, <2>3, <2>4 DEF FInv, In
<1>4. ASSUME NEW h \in Handler, ReadLands(h) PROVE FInv'
  <2> DEFINE m == handler[h].message
             x == Mutated(file, m, nextId)
  <2>1. m.op \in Edits
    BY <1>4 DEF ReadLands, FInv
  <2>2. file' = file /\ nextId' = IF MakesId(m) THEN nextId + 1 ELSE nextId
    BY <1>4 DEF ReadLands
  <2>3. nextId' \in Nat /\ Sound(x, nextId')
    <3> HIDE DEF m
    <3> QED BY <1>1, <2>1, <2>2, MutatedSound
  <2>4. \A y : Sound(y, nextId) => Sound(y, nextId')
    <3> HIDE DEF m
    <3> QED BY <1>1, <2>2, SoundMore
  <2>5. \A g \in Handler :
          \/ handler'[g] = Idle
          \/ handler'[g] = handler[g]
          \/ handler'[g] = [phase |-> "write", message |-> m, xml |-> x]
    BY <1>4 DEF ReadLands, Ends, IInv
  <2> HIDE DEF m, x
  <2>6. ASSUME NEW g \in Handler
        PROVE  /\ In(g, "read")' => handler'[g].message.op \in Edits
               /\ In(g, "write")' => Sound(handler'[g].xml, nextId')
    <3>1. CASE handler'[g] = Idle
      BY <3>1 DEF In
    <3>2. CASE handler'[g] = handler[g]
      BY <2>4, <3>2 DEF FInv, In
    <3>3. CASE handler'[g] = [phase |-> "write", message |-> m, xml |-> x]
      BY <2>3, <3>3 DEF In
    <3> QED BY <2>5, <3>1, <3>2, <3>3
  <2> QED BY <1>1, <2>2, <2>3, <2>4, <2>6 DEF FInv
<1>5. ASSUME NEW h \in Handler, WriteLands(h) PROVE FInv'
  <2>1. file' = handler[h].xml /\ nextId' = nextId /\ In(h, "write")
    BY <1>5 DEF WriteLands
  <2>2. Sound(file', nextId')
    BY <2>1 DEF FInv
  <2>3. handler[h].phase = "write" /\ Shape(h) /\ handler[h] # Idle
    BY <2>1 DEF In, IInv
  <2>4. handler'[h].phase = "answer"
    <3>1. handler'[h] = [handler[h] EXCEPT !.phase = "answer"]
      BY <1>5 DEF WriteLands, IInv
    <3>2. handler[h] =
            [phase |-> "write", message |-> handler[h].message, xml |-> handler[h].xml]
      BY <2>3 DEF Shape
    <3> QED BY <3>1, <3>2
  <2>5. \A g \in Handler : g # h => handler'[g] = handler[g]
    BY <1>5 DEF WriteLands, IInv
  <2> QED BY <1>1, <2>1, <2>2, <2>4, <2>5 DEF FInv, In
<1>6. ASSUME NEW h \in Handler, Answer(h) \/ Fails(h) PROVE FInv'
  <2>1. Ends(h) /\ UNCHANGED <<file, nextId>>
    BY <1>6 DEF Answer, Fails
  <2>2. \A g \in Handler : handler'[g] = Idle \/ handler'[g] = handler[g]
    BY <2>1 DEF Ends, IInv
  <2> QED BY <2>1, <2>2 DEF FInv, In
<1> QED BY <1>2, <1>3, <1>4, <1>5, <1>6 DEF Next

\* FR-02, mutateAndRender() and the functions of mindmapXml.ts: whatever map is opened
\* and whatever the page asks for but a summary, however often, and whatever handlers
\* overlap and calls are rejected, the file is well formed.
THEOREM FileAlwaysSound ==
  ASSUME "summary" \notin Env, ClosingThemselves
  PROVE  Spec => []FileIsSound
<1>1. Init => IInv /\ FInv
  BY InitInv, InitSound
<1>2. (IInv /\ FInv) /\ [Next]_vars => (IInv /\ FInv)'
  BY NextKeeps, NextSound
<1>3. IInv /\ FInv => FileIsSound
  BY DEF FInv, Sound, FileIsSound
<1> QED BY <1>1, <1>2, <1>3, PTL DEF Spec

----------------------------------------------------------------------------
(* Topics stay where they are *)

\* What each edit makes of the parents is what it was asked for.
LEMMA MutatedHung ==
  ASSUME NEW x, NEW n \in Nat, Sound(x, n), NEW m, m.op \in Edits, Mutated(x, m, n) # x
  PROVE  Hung(Parents(x), m, n, Parents(Mutated(x, m, n)))
<1> DEFINE y == Mutated(x, m, n)
<1>1. CASE m.op = "child"
  <2>1. y = appendMindmapChild(x, m.id, n)
    BY <1>1 DEF Mutated
  <2>2. Parents(y) = Planted(Parents(x), n, m.id)
    BY <2>1, ChildParents
  <2> HIDE DEF y
  <2> QED BY <1>1, <2>2 DEF Hung, Planted, y
<1>2. CASE m.op = "sibling"
  <2>1. y = appendMindmapSibling(x, m.id, m.place, n)
    BY <1>2 DEF Mutated
  <2>2. Parents(y) = Planted(Parents(x), n, Parents(x)[m.id])
    BY <2>1, SiblingParents
  <2> HIDE DEF y
  <2> QED BY <1>2, <2>2 DEF Hung, Planted, y
<1>3. CASE m.op = "inside"
  <2>1. y = moveMindmapNode(x, m.id, m.target, m.target, m.op)
    BY <1>3 DEF Mutated
  <2>2. Parents(y) = Rehung(Parents(x), m.id, m.target)
    BY <1>3, <2>1, MoveParents
  <2> HIDE DEF y
  <2> QED BY <1>3, <2>2 DEF Hung, Rehung, y
<1>4. CASE m.op \in {"before", "after"}
  <2>1. y = moveMindmapNode(x, m.id, m.parent, m.target, m.op)
    BY <1>4 DEF Mutated
  <2>2. m.op # "inside"
    BY <1>4
  <2>3. Parents(y) = Rehung(Parents(x), m.id, m.parent)
    BY <2>1, <2>2, MoveParents
  <2> HIDE DEF y
  <2> QED BY <1>4, <2>3 DEF Hung, Rehung, y
<1>5. CASE m.op = "remove"
  <2>1. y = removeMindmapNode(x, m.id)
    BY <1>5 DEF Mutated
  <2>2. PICK left : Parents(y) = Kept(Parents(x), left) /\ Pruning(Parents(x), m.id, left)
    BY <2>1, RemoveParents
  <2> HIDE DEF y
  <2>3. DOMAIN Parents(y) = left /\ Parents(y) = [id \in left |-> Parents(x)[id]]
    BY <2>2 DEF Kept
  <2>4. left = {id \in DOMAIN Parents(x) : id # m.id /\ Parents(x)[id] \in left \union {0}}
    BY <2>2 DEF Pruning
  <2> QED BY <1>5, <2>3, <2>4 DEF Hung, y
<1>6. CASE m.op \in {"retext", "mark", "unmark", "arrow", "retarget", "unarrow"}
  <2>1. Parents(y) = Parents(x)
    <3>1. CASE m.op = "retext"
      BY <3>1, TextParents DEF Mutated
    <3>2. CASE m.op = "mark"
      BY <3>2, MarkParents DEF Mutated
    <3>3. CASE m.op = "unmark"
      BY <3>3, UnmarkParents DEF Mutated
    <3>4. CASE m.op = "arrow"
      BY <3>4, ArrowParents DEF Mutated
    <3>5. CASE m.op = "retarget"
      BY <3>5, RetargetParents DEF Mutated
    <3>6. CASE m.op = "unarrow"
      BY <3>6, UnarrowParents DEF Mutated
    <3> QED BY <1>6, <3>1, <3>2, <3>3, <3>4, <3>5, <3>6
  <2> HIDE DEF y
  <2> QED BY <1>6, <2>1 DEF Hung, y
<1> QED BY <1>1, <1>2, <1>3, <1>4, <1>5, <1>6 DEF Edits

\* Only a handler whose file has been read comes from reading to writing.
LEMMA StepHangs ==
  ASSUME IInv, FInv, [Next]_vars, NEW h \in Handler, In(h, "read"), In(h, "write")'
  PROVE  Hung(Parents(file), handler[h].message, nextId, Parents(handler'[h].xml))
<1> DEFINE m == handler[h].message
           x == Mutated(file, m, nextId)
<1>1. handler[h].phase = "read" /\ handler'[h] # Idle /\ handler'[h].phase = "write"
  BY DEF In
<1>2. "read" # "write" /\ "answer" # "write"
  OBVIOUS
<1>3. handler'[h] # handler[h]
  BY <1>1, <1>2
<1>4. PICK g \in Handler :
        Edit(g) \/ ReadLands(g) \/ WriteLands(g) \/ Answer(g) \/ Fails(g)
  BY <1>3 DEF Next, vars
<1>5. handler = [k \in Handler |-> handler[k]]
  BY DEF IInv
<1>6. ASSUME Edit(g) PROVE FALSE
  <2>1. PICK a : handler' = [handler EXCEPT ![g] = [phase |-> "read", message |-> a]]
    BY <1>6 DEF Edit
  <2>2. handler'[h] = handler[h] \/ handler'[h] = [phase |-> "read", message |-> a]
    BY <1>5, <2>1
  <2> QED BY <1>1, <1>2, <1>3, <2>2
<1>7. ASSUME Answer(g) \/ Fails(g) PROVE FALSE
  <2>1. handler' = [handler EXCEPT ![g] = Idle]
    BY <1>7 DEF Answer, Fails, Ends
  <2> QED BY <1>1, <1>3, <1>5, <2>1
<1>8. ASSUME WriteLands(g) PROVE FALSE
  <2>1. g # h
    BY <1>1, <1>2, <1>8 DEF WriteLands, In
  <2>2. handler'[h] = handler[h]
    BY <1>5, <1>8, <2>1 DEF WriteLands
  <2> QED BY <1>3, <2>2
<1>9. CASE ReadLands(g)
  <2>1. g = h
    <3>1. ASSUME g # h PROVE handler'[h] = handler[h]
      BY <1>5, <1>9, <3>1 DEF ReadLands, Ends
    <3> QED BY <1>3, <3>1
  <2>2. x # file /\ handler' = [handler EXCEPT ![h] =
          [phase |-> "write", message |-> m, xml |-> x]]
    <3>1. IF x = file THEN Ends(h)
          ELSE handler' = [handler EXCEPT ![h] =
                 [phase |-> "write", message |-> m, xml |-> x]]
      BY <1>9, <2>1 DEF ReadLands
    <3>2. Ends(h) => handler'[h] = Idle
      BY <1>5 DEF Ends
    <3> HIDE DEF x, m
    <3> QED BY <1>1, <3>1, <3>2
  <2>3. handler'[h].xml = x
    <3> HIDE DEF x, m
    <3>1. handler'[h] = [phase |-> "write", message |-> m, xml |-> x]
      BY <1>5, <2>2
    <3> QED BY <3>1
  <2>4. nextId \in Nat /\ Sound(file, nextId) /\ m.op \in Edits
    BY DEF FInv
  <2> HIDE DEF m
  <2>5. Hung(Parents(file), m, nextId, Parents(x))
    BY <2>2, <2>4, MutatedHung
  <2> HIDE DEF x
  <2> QED BY <2>3, <2>5 DEF m
<1> QED BY <1>4, <1>6, <1>7, <1>8, <1>9

\* moveMindmapNode(), removeMindmapNode() and the other edits of mindmapXml.ts: of any
\* map, of any number of topics nested in any way, the text that is written has every
\* topic where it was but for the one change the page asked for.
THEOREM TopicsAlwaysStay ==
  ASSUME "summary" \notin Env, ClosingThemselves
  PROVE  Spec => TopicsStay
<1>1. Init => IInv /\ FInv
  BY InitInv, InitSound
<1>2. (IInv /\ FInv) /\ [Next]_vars => (IInv /\ FInv)'
  BY NextKeeps, NextSound
<1>3. IInv /\ FInv /\ [Next]_vars =>
        \A h \in Handler :
          In(h, "read") /\ In(h, "write")'
            => Hung(Parents(file), handler[h].message, nextId, Parents(handler'[h].xml))
  BY StepHangs
<1> QED BY <1>1, <1>2, <1>3, PTL DEF Spec, TopicsStay
==============================================================================

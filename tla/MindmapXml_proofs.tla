-------------------------- MODULE MindmapXml_proofs ---------------------------
(***************************************************************************)
(* The edits of mindmapXml.ts keep the text of a mindmap well formed.      *)
(*                                                                         *)
(* The code finds its places by counting tags. Here the count is the depth *)
(* of each place, opening tags less closing ones, and a text is well       *)
(* formed when its depth comes back to 0 at the last tag and not before.   *)
(* Three lemmas say when a change keeps it so: a tag is rewritten in its   *)
(* place, something balanced is put in or cut out (SpliceSound), or a      *)
(* self-closing node is opened around it (ExpandedSound). The rest shows   *)
(* of each edit that the places it finds are such places, and that what it *)
(* puts there is balanced and brings no name twice.                        *)
(*                                                                         *)
(* The second part is about the tree the text stands for, as the parents   *)
(* of all topics. A place is in the element opened last before it of those *)
(* it has not come out of (Around). A change of something balanced leaves  *)
(* every other place in the element it was in (SwapEnclosing), so the      *)
(* parents of what stays are kept and those of what comes are grafted on   *)
(* (SwapParents); a move is a subtree cut out and grafted on elsewhere.    *)
(***************************************************************************)
EXTENDS MindmapXml, FiniteSetTheorems, SequenceTheorems, TLAPS

----------------------------------------------------------------------------
(* Least and greatest places *)

LEMMA Least ==
  ASSUME NEW S \in SUBSET Nat, S # {}
  PROVE  \E m \in S : \A k \in S : m <= k
<1>1. PICK m \in S : \A k \in S : ~(<<k, m>> \in OpToRel(<, Nat))
  BY NatLessThanWellFounded, WFMin, Zenon
<1>2. ASSUME NEW k \in S PROVE m <= k
  <2>1. <<k, m>> \in Nat \X Nat /\ <<k, m>>[1] = k /\ <<k, m>>[2] = m
    OBVIOUS
  <2> QED BY <1>1, <2>1 DEF OpToRel
<1> QED BY <1>2

\* A bounded set of places has a greatest one, a set of places a least one: no
\* induction is needed, < is well founded.
LEMMA Greatest ==
  ASSUME NEW S \in SUBSET Nat, NEW n \in Nat, \A k \in S : k <= n, S # {}
  PROVE  \E m \in S : \A k \in S : m >= k
<1> DEFINE T == {n - k : k \in S}
<1>1. T \in SUBSET Nat /\ T # {}
  <2>1. PICK k \in S : TRUE
    OBVIOUS
  <2>2. \A l \in S : l \in Nat /\ l <= n
    OBVIOUS
  <2>3. n - k \in T
    BY <2>1
  <2>4. ASSUME NEW t \in T PROVE t \in Nat
    <3>1. PICK l \in S : t = n - l
      OBVIOUS
    <3> QED BY <2>2, <3>1
  <2> QED BY <2>3, <2>4
<1>2. PICK m \in T : \A k \in T : m <= k
  BY <1>1, Least
<1>3. PICK k \in S : m = n - k
  OBVIOUS
<1>4. ASSUME NEW l \in S PROVE k >= l
  <2>1. n - l \in T
    OBVIOUS
  <2> QED BY <1>2, <1>3, <2>1
<1> QED BY <1>4

\* First() and LastOf() find what they look for, when they find anything.
LEMMA FirstOf ==
  ASSUME NEW S \in SUBSET (Nat \ {0}), First(S) # 0
  PROVE  First(S) \in S /\ \A k \in S : First(S) <= k
<1>1. S # {} /\ First(S) = Min(S)
  BY DEF First
<1>2. \E m \in S : \A k \in S : m <= k
  BY <1>1, Least
<1> QED BY <1>1, <1>2 DEF Min

LEMMA LastAmong ==
  ASSUME NEW n \in Nat, NEW S \in SUBSET (1..n), LastOf(S) # 0
  PROVE  LastOf(S) \in S /\ \A k \in S : LastOf(S) >= k
<1>1. S # {} /\ LastOf(S) = Max(S)
  BY DEF LastOf
<1>2. S \in SUBSET Nat /\ \A k \in S : k <= n
  OBVIOUS
<1>3. \E m \in S : \A k \in S : m >= k
  BY <1>1, <1>2, Greatest
<1> QED BY <1>1, <1>3 DEF Max

----------------------------------------------------------------------------
(* Counting tags *)

LEMMA PlacesFinite ==
  ASSUME NEW i \in Int, NEW j \in Int, NEW S \in SUBSET (i..j)
  PROVE  IsFiniteSet(S)
BY FS_Interval, FS_Subset

LEMMA CountType ==
  ASSUME NEW x, NEW kind, NEW i \in Int, NEW j \in Int
  PROVE  Count(x, kind, i, j) \in Nat
<1>1. {k \in i..j : x[k].kind = kind} \in SUBSET (i..j)
  OBVIOUS
<1>2. IsFiniteSet({k \in i..j : x[k].kind = kind})
  BY <1>1, PlacesFinite
<1> QED BY <1>2, FS_CardinalityType DEF Count

\* What is counted up to j and after it is what is counted up to k.
LEMMA CountAdds ==
  ASSUME NEW x, NEW kind, NEW i \in Int, NEW j \in Int, NEW k \in Int,
         i <= j + 1, j <= k
  PROVE  Count(x, kind, i, k) = Count(x, kind, i, j) + Count(x, kind, j + 1, k)
<1> DEFINE S == {l \in i..j : x[l].kind = kind}
           T == {l \in j + 1..k : x[l].kind = kind}
<1>1. {l \in i..k : x[l].kind = kind} = S \union T
  OBVIOUS
<1>2. S \intersect T = {}
  OBVIOUS
<1>3. IsFiniteSet(S) /\ IsFiniteSet(T)
  <2>1. j + 1 \in Int /\ S \in SUBSET (i..j) /\ T \in SUBSET (j + 1..k)
    OBVIOUS
  <2> QED BY <2>1, PlacesFinite
<1>4. Cardinality(S \union T) = Cardinality(S) + Cardinality(T) - Cardinality({})
  BY <1>2, <1>3, FS_Union
<1>5. Cardinality(S) \in Nat /\ Cardinality(T) \in Nat /\ Cardinality({}) = 0
  BY <1>3, FS_CardinalityType, FS_EmptySet
<1> QED
  <2>1. /\ Count(x, kind, i, k) = Cardinality(S \union T)
        /\ Count(x, kind, i, j) = Cardinality(S)
        /\ Count(x, kind, j + 1, k) = Cardinality(T)
    BY <1>1 DEF Count
  <2> HIDE DEF S, T
  <2> QED BY <1>4, <1>5, <2>1

LEMMA CountNone ==
  ASSUME NEW x, NEW kind, NEW i \in Int, NEW j \in Int, j < i
  PROVE  Count(x, kind, i, j) = 0
<1>1. {k \in i..j : x[k].kind = kind} = {}
  OBVIOUS
<1> QED BY <1>1, FS_EmptySet DEF Count

\* One place counts as one or as nothing.
LEMMA CountOne ==
  ASSUME NEW x, NEW kind, NEW i \in Int
  PROVE  Count(x, kind, i, i) = IF x[i].kind = kind THEN 1 ELSE 0
<1>1. {k \in i..i : x[k].kind = kind} = IF x[i].kind = kind THEN {i} ELSE {}
  OBVIOUS
<1> QED BY <1>1, FS_EmptySet, FS_Singleton DEF Count

\* The tags i to j of x are of the kinds of those d places further on in y.
Alike(x, y, i, j, d) == \A k \in i..j : y[k + d].kind = x[k].kind

\* Tags of the same kinds count the same wherever they are.
LEMMA CountShifted ==
  ASSUME NEW x, NEW y, NEW kind, NEW i \in Int, NEW j \in Int, NEW d \in Int,
         Alike(x, y, i, j, d)
  PROVE  Count(y, kind, i + d, j + d) = Count(x, kind, i, j)
<1> DEFINE S == {k \in i..j : x[k].kind = kind}
           T == {k \in i + d..j + d : y[k].kind = kind}
           f == [k \in S |-> k + d]
<1>1. ASSUME NEW k \in S PROVE k + d \in T
  BY DEF Alike
<1>2. ASSUME NEW l \in T PROVE l - d \in S /\ f[l - d] = l
  <2>1. l - d \in i..j /\ (l - d) + d = l
    OBVIOUS
  <2>2. x[l - d].kind = kind
    BY <2>1 DEF Alike
  <2> QED BY <2>1, <2>2
<1>3. f \in [S -> T] /\ IsInjective(f)
  BY <1>1 DEF IsInjective
<1>4. \A l \in T : \E k \in S : f[k] = l
  BY <1>2
<1>5. f \in Bijection(S, T)
  BY <1>3, <1>4 DEF Bijection, Injection, Surjection
<1>6. IsFiniteSet(S)
  <2>1. S \in SUBSET (i..j)
    OBVIOUS
  <2> QED BY <2>1, PlacesFinite
<1>7. Cardinality(T) = Cardinality(S)
  BY <1>5, <1>6, FS_Bijection DEF ExistsBijection
<1> QED BY <1>7 DEF Count

----------------------------------------------------------------------------
(* How deep the text is after a tag *)

DepthAt(x, k) == Count(x, "open", 1, k) - Count(x, "close", 1, k)

LEMMA DepthType ==
  ASSUME NEW x, NEW k \in Int
  PROVE  DepthAt(x, k) \in Int
BY CountType DEF DepthAt

\* Before the first tag nothing is open.
LEMMA DepthStarts == ASSUME NEW x PROVE DepthAt(x, 0) = 0
BY CountNone DEF DepthAt

\* A tag that opens goes one deeper, one that closes comes one out.
LEMMA DepthSteps ==
  ASSUME NEW x, NEW k \in Nat \ {0}
  PROVE  /\ DepthAt(x, k) \in Int /\ DepthAt(x, k - 1) \in Int
         /\ x[k].kind = "open" => DepthAt(x, k) = DepthAt(x, k - 1) + 1
         /\ x[k].kind = "close" => DepthAt(x, k) = DepthAt(x, k - 1) - 1
         /\ x[k].kind \notin {"open", "close"} => DepthAt(x, k) = DepthAt(x, k - 1)
<1>1. \A kind \in {"open", "close"} :
        Count(x, kind, 1, k) = Count(x, kind, 1, k - 1) + Count(x, kind, k, k)
  <2>1. k - 1 \in Int /\ 1 <= (k - 1) + 1 /\ k - 1 <= k /\ (k - 1) + 1 = k
    OBVIOUS
  <2> QED BY <2>1, CountAdds
<1>2. \A kind \in {"open", "close"} :
        Count(x, kind, k, k) = IF x[k].kind = kind THEN 1 ELSE 0
  BY CountOne
<1>3. \A kind \in {"open", "close"} :
        Count(x, kind, 1, k) \in Nat /\ Count(x, kind, 1, k - 1) \in Nat
  BY CountType
<1> QED BY <1>1, <1>2, <1>3 DEF DepthAt

\* Between two places the depth changes by what is opened and not closed there.
LEMMA DepthBetween ==
  ASSUME NEW x, NEW i \in Int, NEW j \in Int, 1 <= i, i <= j + 1
  PROVE  DepthAt(x, j) - DepthAt(x, i - 1) =
           Count(x, "open", i, j) - Count(x, "close", i, j)
<1>1. \A kind \in {"open", "close"} :
        Count(x, kind, 1, j) = Count(x, kind, 1, i - 1) + Count(x, kind, i, j)
  <2>1. i - 1 \in Int /\ 1 <= (i - 1) + 1 /\ i - 1 <= j /\ (i - 1) + 1 = i
    OBVIOUS
  <2> QED BY <2>1, CountAdds
<1>2. \A kind \in {"open", "close"} :
        /\ Count(x, kind, 1, j) \in Nat /\ Count(x, kind, 1, i - 1) \in Nat
        /\ Count(x, kind, i, j) \in Nat
  BY CountType
<1> QED BY <1>1, <1>2 DEF DepthAt

\* The counter of the code, which starts at 1 at the tag it is called with, is the
\* depth in the text.
LEMMA LevelIsDepth ==
  ASSUME NEW x, NEW i \in Int, NEW j \in Int, 1 <= i, i <= j + 1
  PROVE  Level(x, i, j) <=> DepthAt(x, j) = DepthAt(x, i - 1)
<1>1. Count(x, "open", i, j) \in Nat /\ Count(x, "close", i, j) \in Nat
  BY CountType
<1>2. DepthAt(x, j) \in Int /\ DepthAt(x, i - 1) \in Int
  BY DepthType
<1> QED BY <1>1, <1>2, DepthBetween DEF Level

\* The depth changes by the same along the same tags.
LEMMA DepthShifted ==
  ASSUME NEW x, NEW y, NEW i \in Int, NEW j \in Int, NEW d \in Int,
         1 <= i, i <= j + 1, 1 <= i + d,
         Alike(x, y, i, j, d)
  PROVE  DepthAt(y, j + d) - DepthAt(y, i + d - 1) = DepthAt(x, j) - DepthAt(x, i - 1)
<1>1. ASSUME NEW kind PROVE Count(y, kind, i + d, j + d) = Count(x, kind, i, j)
  BY CountShifted
<1>2. i + d \in Int /\ j + d \in Int /\ i + d <= (j + d) + 1
  OBVIOUS
<1>3. DepthAt(y, j + d) - DepthAt(y, (i + d) - 1) =
        Count(y, "open", i + d, j + d) - Count(y, "close", i + d, j + d)
  BY <1>2, DepthBetween
<1> QED BY <1>1, <1>3, DepthBetween

----------------------------------------------------------------------------
(* Texts and what is cut out and put in *)

IsTag(t) ==
  /\ t = Tag(t.kind, t.id, t.value)
  /\ t.kind \notin Begun \union {"end"}

\* A text: a sequence of tags.
Xml(x) == x \in Seq(ToSet(x)) /\ \A k \in 1..Len(x) : IsTag(x[k])

\* A sequence of tags of any set is a text.
LEMMA XmlIs ==
  ASSUME NEW S, NEW x \in Seq(S), \A k \in 1..Len(x) : IsTag(x[k])
  PROVE  Xml(x)
<1>1. Len(x) \in Nat /\ x \in [1..Len(x) -> S]
  BY LenProperties
<1>2. DOMAIN x = 1..Len(x)
  BY <1>1
<1>3. x \in [1..Len(x) -> ToSet(x)]
  BY <1>1, <1>2 DEF ToSet
<1>4. x \in Seq(ToSet(x))
  BY <1>1, <1>3, SeqDef
<1> QED BY <1>4 DEF Xml

LEMMA XmlShape ==
  ASSUME NEW x, Xml(x)
  PROVE  Len(x) \in Nat /\ DOMAIN x = 1..Len(x) /\ x = [k \in 1..Len(x) |-> x[k]]
<1>1. Len(x) \in Nat /\ x \in [1..Len(x) -> ToSet(x)]
  BY LenProperties DEF Xml
<1> QED BY <1>1

LEMMA XmlEqual ==
  ASSUME NEW x, NEW y, Xml(x), Xml(y), Len(x) = Len(y), \A k \in 1..Len(x) : x[k] = y[k]
  PROVE  x = y
BY XmlShape

LEMMA XmlOne == ASSUME NEW t, IsTag(t) PROVE Xml(<<t>>) /\ Len(<<t>>) = 1 /\ <<t>>[1] = t
<1>1. <<t>> \in Seq({t}) /\ Len(<<t>>) = 1 /\ <<t>>[1] = t
  OBVIOUS
<1>2. \A k \in 1..Len(<<t>>) : <<t>>[k] = t
  BY <1>1
<1> QED BY <1>1, <1>2, XmlIs

LEMMA XmlConcat ==
  ASSUME NEW x, NEW y, Xml(x), Xml(y)
  PROVE  /\ Xml(x \o y) /\ Len(x \o y) = Len(x) + Len(y)
         /\ \A k \in 1..Len(x) + Len(y) :
              (x \o y)[k] = IF k <= Len(x) THEN x[k] ELSE y[k - Len(x)]
<1> DEFINE S == ToSet(x) \union ToSet(y)
<1>1. x \in Seq(S) /\ y \in Seq(S)
  <2>1. ToSet(x) \subseteq S /\ ToSet(y) \subseteq S
    OBVIOUS
  <2> HIDE DEF S
  <2> QED BY <2>1, SeqMonotonic DEF Xml
<1> HIDE DEF S
<1>2. Len(x) \in Nat /\ Len(y) \in Nat
  BY XmlShape
<1>3. /\ x \o y \in Seq(S) /\ Len(x \o y) = Len(x) + Len(y)
      /\ \A k \in 1..Len(x) + Len(y) :
           (x \o y)[k] = IF k <= Len(x) THEN x[k] ELSE y[k - Len(x)]
  BY <1>1, ConcatProperties
<1>4. \A k \in 1..Len(x \o y) : IsTag((x \o y)[k])
  <2>1. ASSUME NEW k \in 1..Len(x \o y) PROVE IsTag((x \o y)[k])
    <3>1. CASE k <= Len(x)
      <4>1. k \in 1..Len(x) /\ (x \o y)[k] = x[k]
        BY <1>2, <1>3, <2>1, <3>1
      <4> QED BY <4>1 DEF Xml
    <3>2. CASE ~(k <= Len(x))
      <4>1. k - Len(x) \in 1..Len(y) /\ (x \o y)[k] = y[k - Len(x)]
        BY <1>2, <1>3, <2>1, <3>2
      <4> QED BY <4>1 DEF Xml
    <3> QED BY <3>1, <3>2
  <2> QED BY <2>1
<1> QED BY <1>3, <1>4, XmlIs

LEMMA XmlSubSeq ==
  ASSUME NEW x, Xml(x), NEW i \in Int, NEW j \in Int, 1 <= i, j <= Len(x)
  PROVE  /\ Xml(SubSeq(x, i, j))
         /\ Len(SubSeq(x, i, j)) = IF i <= j THEN j - i + 1 ELSE 0
         /\ \A k \in 1..j - i + 1 : SubSeq(x, i, j)[k] = x[i + k - 1]
<1>1. Len(x) \in Nat /\ DOMAIN x = 1..Len(x)
  BY XmlShape
<1>2. \A k \in i..j : x[k] \in ToSet(x) /\ k \in 1..Len(x)
  BY <1>1 DEF ToSet
<1>3. /\ SubSeq(x, i, j) \in Seq(ToSet(x))
      /\ Len(SubSeq(x, i, j)) = IF i <= j THEN j - i + 1 ELSE 0
      /\ \A k \in 1..j - i + 1 : SubSeq(x, i, j)[k] = x[i + k - 1]
  BY <1>2, SubSeqProperties
<1>4. ASSUME NEW k \in 1..Len(SubSeq(x, i, j)) PROVE IsTag(SubSeq(x, i, j)[k])
  <2>1. k \in 1..j - i + 1 /\ i + k - 1 \in 1..Len(x)
    BY <1>1, <1>3, <1>4
  <2>2. SubSeq(x, i, j)[k] = x[i + k - 1]
    BY <1>3, <2>1
  <2> QED BY <2>1, <2>2 DEF Xml
<1> QED BY <1>3, <1>4, XmlIs

\* The tags of x with those from i to j replaced by s.
LEMMA SpliceAt ==
  ASSUME NEW x, NEW s, Xml(x), Xml(s), NEW i \in Int, NEW j \in Int,
         1 <= i, i <= j + 1, j <= Len(x)
  PROVE  /\ Xml(Splice(x, i, j, s))
         /\ Len(Splice(x, i, j, s)) = Len(x) - (j - i + 1) + Len(s)
         /\ \A k \in 1..Len(Splice(x, i, j, s)) :
              Splice(x, i, j, s)[k] =
                IF k < i THEN x[k]
                ELSE IF k < i + Len(s) THEN s[k - i + 1]
                ELSE x[k - Len(s) + (j - i + 1)]
<1> DEFINE a == SubSeq(x, 1, i - 1)
           b == SubSeq(x, j + 1, Len(x))
<1>1. Len(x) \in Nat /\ Len(s) \in Nat
  BY XmlShape
<1>2. Xml(a) /\ Len(a) = i - 1 /\ \A k \in 1..i - 1 : a[k] = x[k]
  <2>1. i - 1 \in Int /\ i - 1 <= Len(x) /\ 1 \in Int /\ 1 <= 1
    BY <1>1
  <2>2. /\ Xml(a)
        /\ Len(a) = IF 1 <= i - 1 THEN (i - 1) - 1 + 1 ELSE 0
        /\ \A k \in 1..(i - 1) - 1 + 1 : a[k] = x[1 + k - 1]
    BY <2>1, XmlSubSeq
  <2> HIDE DEF a
  <2> QED BY <2>2
<1>3. Xml(b) /\ Len(b) = Len(x) - j /\ \A k \in 1..Len(x) - j : b[k] = x[j + k]
  <2>1. j + 1 \in Int /\ 1 <= j + 1 /\ Len(x) \in Int /\ Len(x) <= Len(x)
    BY <1>1
  <2>2. /\ Xml(b)
        /\ Len(b) = IF j + 1 <= Len(x) THEN Len(x) - (j + 1) + 1 ELSE 0
        /\ \A k \in 1..Len(x) - (j + 1) + 1 : b[k] = x[(j + 1) + k - 1]
    BY <2>1, XmlSubSeq
  <2> HIDE DEF b
  <2>3. Len(b) = Len(x) - j
    BY <1>1, <2>2
  <2>4. ASSUME NEW k \in 1..Len(x) - j PROVE b[k] = x[j + k]
    <3>1. k \in 1..Len(x) - (j + 1) + 1 /\ (j + 1) + k - 1 = j + k
      BY <1>1
    <3> QED BY <2>2, <3>1
  <2> QED BY <2>2, <2>3, <2>4
<1>4. Splice(x, i, j, s) = (a \o s) \o b
  BY DEF Splice
<1> HIDE DEF a, b
<1>5. /\ Xml(a \o s) /\ Len(a \o s) = i - 1 + Len(s)
      /\ \A k \in 1..i - 1 + Len(s) :
           (a \o s)[k] = IF k <= i - 1 THEN x[k] ELSE s[k - (i - 1)]
  BY <1>1, <1>2, XmlConcat
<1>6. /\ Xml((a \o s) \o b) /\ Len((a \o s) \o b) = i - 1 + Len(s) + (Len(x) - j)
      /\ \A k \in 1..i - 1 + Len(s) + (Len(x) - j) :
           ((a \o s) \o b)[k] = IF k <= i - 1 + Len(s) THEN (a \o s)[k]
                                ELSE b[k - (i - 1 + Len(s))]
  <2> DEFINE c == a \o s
  <2>1. Xml(c) /\ Len(c) = i - 1 + Len(s)
    BY <1>5
  <2> HIDE DEF c
  <2>2. /\ Xml(c \o b) /\ Len(c \o b) = Len(c) + Len(b)
        /\ \A k \in 1..Len(c) + Len(b) :
             (c \o b)[k] = IF k <= Len(c) THEN c[k] ELSE b[k - Len(c)]
    BY <1>3, <2>1, XmlConcat
  <2>3. /\ Xml(c \o b) /\ Len(c \o b) = i - 1 + Len(s) + (Len(x) - j)
        /\ \A k \in 1..i - 1 + Len(s) + (Len(x) - j) :
             (c \o b)[k] = IF k <= i - 1 + Len(s) THEN c[k] ELSE b[k - (i - 1 + Len(s))]
    BY <1>3, <2>1, <2>2
  <2> QED BY <2>3 DEF c
<1>7. ASSUME NEW k \in 1..Len(Splice(x, i, j, s))
      PROVE  Splice(x, i, j, s)[k] = IF k < i THEN x[k]
                                     ELSE IF k < i + Len(s) THEN s[k - i + 1]
                                     ELSE x[k - Len(s) + (j - i + 1)]
  <2>1. k \in 1..i - 1 + Len(s) + (Len(x) - j)
    BY <1>4, <1>6, <1>7
  <2>2. CASE k < i + Len(s)
    <3>1. k \in 1..i - 1 + Len(s) /\ k <= i - 1 + Len(s) /\ k - (i - 1) = k - i + 1
      BY <1>1, <2>1, <2>2
    <3> QED BY <1>4, <1>5, <1>6, <2>1, <2>2, <3>1
  <2>3. CASE ~(k < i + Len(s))
    <3>1. k - (i - 1 + Len(s)) \in 1..Len(x) - j /\ ~(k <= i - 1 + Len(s)) /\ ~(k < i)
      BY <1>1, <2>1, <2>3
    <3>2. j + (k - (i - 1 + Len(s))) = k - Len(s) + (j - i + 1)
      BY <1>1, <2>1
    <3> QED BY <1>3, <1>4, <1>6, <2>1, <2>3, <3>1, <3>2
  <2> QED BY <2>2, <2>3
<1> QED BY <1>1, <1>4, <1>6, <1>7

\* The depth is as before up to the place of a change, follows s in it, and is shifted
\* after it by what s opens more than what it stands for.
LEMMA SpliceDepth ==
  ASSUME NEW x, NEW s, Xml(x), Xml(s), NEW i \in Int, NEW j \in Int,
         1 <= i, i <= j + 1, j <= Len(x)
  PROVE  LET y == Splice(x, i, j, s) IN
         /\ \A k \in 0..i - 1 : DepthAt(y, k) = DepthAt(x, k)
         /\ \A k \in 0..Len(s) : DepthAt(y, i - 1 + k) = DepthAt(x, i - 1) + DepthAt(s, k)
         /\ \A k \in j..Len(x) :
              DepthAt(y, k + Len(s) - (j - i + 1)) =
                DepthAt(x, k) + DepthAt(s, Len(s)) - (DepthAt(x, j) - DepthAt(x, i - 1))
<1> DEFINE y == Splice(x, i, j, s)
           d == Len(s) - (j - i + 1)
<1>1. /\ Xml(y) /\ Len(y) = Len(x) + d
      /\ \A k \in 1..Len(y) : y[k] = IF k < i THEN x[k]
                                    ELSE IF k < i + Len(s) THEN s[k - i + 1]
                                    ELSE x[k - Len(s) + (j - i + 1)]
  <2>1. Len(x) \in Nat /\ Len(s) \in Nat
    BY XmlShape
  <2> QED BY <2>1, SpliceAt
<1> HIDE DEF y
<1>2. Len(x) \in Nat /\ Len(s) \in Nat /\ d \in Int
  BY XmlShape
<1>3. \A k \in Int : DepthAt(x, k) \in Int /\ DepthAt(y, k) \in Int /\ DepthAt(s, k) \in Int
  BY DepthType
<1>4. ASSUME NEW k \in 0..i - 1 PROVE DepthAt(y, k) = DepthAt(x, k)
  <2>1. Alike(x, y, 1, k, 0)
    <3>1. ASSUME NEW l \in 1..k PROVE y[l + 0].kind = x[l].kind
      <4>1. l \in 1..Len(y) /\ l < i /\ l + 0 = l
        BY <1>1, <1>2
      <4> QED BY <1>1, <4>1
    <3> QED BY <3>1 DEF Alike
  <2>2. DepthAt(y, k + 0) - DepthAt(y, 1 + 0 - 1) = DepthAt(x, k) - DepthAt(x, 1 - 1)
    BY <2>1, DepthShifted
  <2>3. k + 0 = k /\ 1 + 0 - 1 = 0 /\ 1 - 1 = 0
    OBVIOUS
  <2> QED BY <1>3, <2>2, <2>3, DepthStarts
<1>5. ASSUME NEW k \in 0..Len(s)
      PROVE  DepthAt(y, i - 1 + k) = DepthAt(x, i - 1) + DepthAt(s, k)
  <2>1. Alike(s, y, 1, k, i - 1)
    <3>1. ASSUME NEW l \in 1..k PROVE y[l + (i - 1)].kind = s[l].kind
      <4>1. /\ l + (i - 1) \in 1..Len(y) /\ ~(l + (i - 1) < i) /\ l + (i - 1) < i + Len(s)
            /\ (l + (i - 1)) - i + 1 = l
        BY <1>1, <1>2
      <4> QED BY <1>1, <4>1
    <3> QED BY <3>1 DEF Alike
  <2>2. i - 1 \in Int /\ k \in Int /\ 1 <= 1 + (i - 1) /\ 1 <= k + 1
    BY <1>2
  <2>3. DepthAt(y, k + (i - 1)) - DepthAt(y, 1 + (i - 1) - 1) =
          DepthAt(s, k) - DepthAt(s, 1 - 1)
    BY <2>1, <2>2, DepthShifted
  <2>4. k + (i - 1) = i - 1 + k /\ 1 + (i - 1) - 1 = i - 1 /\ 1 - 1 = 0 /\ i - 1 \in 0..i - 1
    BY <2>2
  <2>5. DepthAt(y, i - 1) = DepthAt(x, i - 1)
    BY <1>4, <2>4
  <2>6. i - 1 + k \in Int
    BY <2>2
  <2>7. DepthAt(y, i - 1 + k) - DepthAt(x, i - 1) = DepthAt(s, k)
    <3>1. DepthAt(y, i - 1 + k) - DepthAt(x, i - 1) = DepthAt(s, k) - DepthAt(s, 0)
      BY <2>3, <2>4, <2>5
    <3> QED BY <1>3, <2>2, <3>1, DepthStarts
  <2>8. DepthAt(y, i - 1 + k) \in Int /\ DepthAt(x, i - 1) \in Int /\ DepthAt(s, k) \in Int
    BY <1>3, <2>2, <2>6
  <2> QED BY <2>7, <2>8
<1>6. ASSUME NEW k \in j..Len(x)
      PROVE  DepthAt(y, k + d) =
               DepthAt(x, k) + DepthAt(s, Len(s)) - (DepthAt(x, j) - DepthAt(x, i - 1))
  <2>1. Alike(x, y, j + 1, k, d)
    <3>1. ASSUME NEW l \in j + 1..k PROVE y[l + d].kind = x[l].kind
      <4>1. /\ l + d \in 1..Len(y) /\ ~(l + d < i) /\ ~(l + d < i + Len(s))
            /\ (l + d) - Len(s) + (j - i + 1) = l
        BY <1>1, <1>2
      <4> QED BY <1>1, <4>1
    <3> QED BY <3>1 DEF Alike
  <2>2. j + 1 \in Int /\ k \in Int /\ 1 <= j + 1 /\ j + 1 <= k + 1 /\ 1 <= j + 1 + d
    BY <1>2
  <2>3. DepthAt(y, k + d) - DepthAt(y, j + 1 + d - 1) = DepthAt(x, k) - DepthAt(x, j + 1 - 1)
    BY <1>2, <2>1, <2>2, DepthShifted
  <2>4. j + 1 + d - 1 = i - 1 + Len(s) /\ j + 1 - 1 = j /\ Len(s) \in 0..Len(s)
    BY <1>2
  <2>5. DepthAt(y, i - 1 + Len(s)) = DepthAt(x, i - 1) + DepthAt(s, Len(s))
    BY <1>5, <2>4
  <2>6. k + d \in Int /\ i - 1 \in Int /\ i - 1 + Len(s) \in Int
    BY <1>2, <2>2
  <2> HIDE DEF d
  <2>7. DepthAt(y, k + d) - (DepthAt(x, i - 1) + DepthAt(s, Len(s))) =
          DepthAt(x, k) - DepthAt(x, j)
    BY <2>3, <2>4, <2>5
  <2>8. DepthAt(y, k + d) \in Int /\ DepthAt(x, i - 1) \in Int
    BY <2>6, DepthType
  <2>9. DepthAt(s, Len(s)) \in Int /\ DepthAt(x, k) \in Int /\ DepthAt(x, j) \in Int
    BY <1>2, <2>2, DepthType
  <2>10. ASSUME NEW a \in Int, NEW b \in Int, NEW c \in Int, NEW e \in Int, NEW f \in Int,
                a - (b + c) = e - f
         PROVE  a = e + c - (f - b)
    BY <2>10
  <2> QED BY <2>7, <2>8, <2>9, <2>10, SMTT(30)
<1>7. \A k \in j..Len(x) : k + d = k + Len(s) - (j - i + 1)
  BY <1>2
<1> QED BY <1>4, <1>5, <1>6, <1>7 DEF y

----------------------------------------------------------------------------
(* Sound texts *)

\* The topics of s have some of the names before n.
NamesWithin(s, n) == \A k \in Named(s) : s[k].id \in Nat \ {0} /\ s[k].id < n

\* A well-formed text in which every topic has one of the names before n.
Sound(x, n) ==
  Xml(x) /\ WellFormed(x) /\ NamesWithin(x, n)

\* WellFormed() in terms of the depth.
LEMMA WellFormedIs ==
  ASSUME NEW x, Xml(x)
  PROVE  WellFormed(x) <=>
           /\ \A k \in 1..Len(x) : x[k].kind # "broken"
           /\ \A k, l \in Named(x) : x[k].id = x[l].id => k = l
           /\ 1 \in Named(x)
           /\ DepthAt(x, Len(x)) = 0
           /\ \A k \in 1..Len(x) - 1 : DepthAt(x, k) > 0
<1>1. DOMAIN x = 1..Len(x)
  BY XmlShape
<1>2. \A k \in 1..Len(x) : x[k].kind \notin {"openmark", "openarrow", "end"}
  BY DEF Xml, IsTag, Begun
<1>3. \A k \in 1..Len(x) : k > 1 => k - 1 \in 1..Len(x)
  BY XmlShape
<1>4. \A k \in 1..Len(x) : x[k].kind = "end" <=> k > 1 /\ x[k - 1].kind \in Begun
  BY <1>2, <1>3 DEF Begun
<1> QED BY <1>1, <1>4 DEF WellFormed, DepthAt, Named

\* No topic in s is torn, and none has the name of another in s or of one that is left
\* when s replaces the tags i to j of x.
Fits(s, x, i, j) ==
  /\ \A k \in 1..Len(s) : s[k].kind # "broken"
  /\ \A k, l \in Named(s) : s[k].id = s[l].id => k = l
  /\ \A k \in Named(s) : \A l \in Named(x) : s[k].id = x[l].id => l \in i..j

\* With s for the tags i to j, s closes what they did, and x does not end in s.
Holds(s, x, i, j) ==
  /\ DepthAt(s, Len(s)) = DepthAt(x, j) - DepthAt(x, i - 1)
  /\ \A k \in 1..Len(s) :
       (k = Len(s) /\ j = Len(x)) \/ DepthAt(x, i - 1) + DepthAt(s, k) > 0
  /\ i = 1 => 1 \in Named(s)

\* What fits keeps the text sound when it closes what it opens, as far as what it
\* replaces did, and the text does not end in the middle of it.
LEMMA SpliceSound ==
  ASSUME NEW x, NEW n, Sound(x, n), NEW s, Xml(s),
         NEW i \in Int, NEW j \in Int, 1 <= i, i <= j + 1, j <= Len(x), i <= Len(x),
         Fits(s, x, i, j), NamesWithin(s, n), Holds(s, x, i, j)
  PROVE  Sound(Splice(x, i, j, s), n)
<1> DEFINE y == Splice(x, i, j, s)
           d == Len(s) - (j - i + 1)
<1>1. Xml(x) /\ Len(x) \in Nat /\ Len(s) \in Nat /\ d \in Int
  BY XmlShape DEF Sound
<1>0. DOMAIN x = 1..Len(x) /\ DOMAIN s = 1..Len(s)
  BY <1>1, XmlShape
<1>2. /\ Xml(y) /\ Len(y) = Len(x) + d
      /\ \A k \in 1..Len(y) : y[k] = IF k < i THEN x[k]
                                    ELSE IF k < i + Len(s) THEN s[k - i + 1]
                                    ELSE x[k - Len(s) + (j - i + 1)]
  BY <1>1, SpliceAt
<1>3. /\ \A k \in 0..i - 1 : DepthAt(y, k) = DepthAt(x, k)
      /\ \A k \in 0..Len(s) : DepthAt(y, i - 1 + k) = DepthAt(x, i - 1) + DepthAt(s, k)
      /\ \A k \in j..Len(x) : DepthAt(y, k + d) = DepthAt(x, k)
  <2>1. /\ \A k \in 0..i - 1 : DepthAt(y, k) = DepthAt(x, k)
        /\ \A k \in 0..Len(s) : DepthAt(y, i - 1 + k) = DepthAt(x, i - 1) + DepthAt(s, k)
        /\ \A k \in j..Len(x) :
             DepthAt(y, k + Len(s) - (j - i + 1)) =
               DepthAt(x, k) + DepthAt(s, Len(s)) - (DepthAt(x, j) - DepthAt(x, i - 1))
    BY <1>1, SpliceDepth
  <2>5. DepthAt(s, Len(s)) = DepthAt(x, j) - DepthAt(x, i - 1)
    BY DEF Holds
  <2>2. \A k \in j..Len(x) : k + d = k + Len(s) - (j - i + 1)
    BY <1>1
  <2>3. \A k \in Int : DepthAt(x, k) \in Int
    BY DepthType
  <2>4. i - 1 \in Int
    OBVIOUS
  <2> HIDE DEF y, d
  <2>6. ASSUME NEW k \in j..Len(x) PROVE DepthAt(y, k + d) = DepthAt(x, k)
    <3>1. DepthAt(x, k) \in Int /\ DepthAt(s, Len(s)) \in Int
      BY <1>1, <2>3, DepthType
    <3> QED BY <2>1, <2>2, <2>5, <3>1
  <2> QED BY <2>1, <2>6
<1>4. Len(y) \in Nat /\ DOMAIN y = 1..Len(y)
  BY <1>2, XmlShape
<1> HIDE DEF y, d
<1>5. d = Len(s) - (j - i + 1)
  BY DEF d
<1>6. ASSUME NEW k \in 1..Len(y)
      PROVE  \/ /\ k \in i..i + Len(s) - 1 /\ k - i + 1 \in 1..Len(s) /\ y[k] = s[k - i + 1]
             \/ \E l \in 1..Len(x) : /\ y[k] = x[l] /\ l \notin i..j
                                     /\ (k < i /\ l = k) \/ (k >= i + Len(s) /\ k = l + d)
  <2>1. CASE k < i
    <3>1. k \in 1..Len(x) /\ k \notin i..j /\ y[k] = x[k]
      BY <1>1, <1>2, <2>1
    <3> QED BY <2>1, <3>1
  <2>2. CASE ~(k < i) /\ k < i + Len(s)
    BY <1>1, <1>2, <2>2
  <2>3. CASE ~(k < i + Len(s))
    <3>4. k \in Int /\ k <= Len(x) + d /\ k >= i + Len(s)
      BY <1>1, <1>2, <2>3
    <3>1. /\ k - d \in Int /\ k - d >= j + 1 /\ k - d <= Len(x)
          /\ k = (k - d) + d /\ k >= i + Len(s)
          /\ k - Len(s) + (j - i + 1) = k - d /\ ~(k < i)
      BY <1>1, <1>5, <3>4
    <3>3. k - d \in 1..Len(x) /\ k - d \notin i..j
      BY <1>1, <3>1
    <3>2. y[k] = x[k - d]
      BY <1>2, <2>3, <3>1
    <3> QED BY <3>1, <3>2, <3>3
  <2> QED BY <2>1, <2>2, <2>3
<1>7. /\ \A k \in 1..Len(x) : x[k].kind # "broken"
      /\ \A k, l \in Named(x) : x[k].id = x[l].id => k = l
      /\ 1 \in Named(x)
      /\ DepthAt(x, Len(x)) = 0
      /\ \A k \in 1..Len(x) - 1 : DepthAt(x, k) > 0
  BY <1>1, WellFormedIs DEF Sound
<1>8. \A k \in 1..Len(y) : y[k].kind # "broken"
  <2>1. \A k \in 1..Len(s) : s[k].kind # "broken"
    BY DEF Fits
  <2> QED BY <1>6, <1>7, <2>1
<1>9. ASSUME NEW k \in Named(y) PROVE y[k].id \in Nat \ {0} /\ y[k].id < n
  <2>1. k \in 1..Len(y) /\ y[k].kind \in {"open", "self"}
    BY <1>4 DEF Named
  <2>2. CASE k - i + 1 \in 1..Len(s) /\ y[k] = s[k - i + 1]
    <3>1. k - i + 1 \in Named(s)
      BY <1>0, <2>1, <2>2 DEF Named
    <3> QED BY <2>2, <3>1 DEF NamesWithin
  <2>3. ASSUME NEW l \in 1..Len(x), y[k] = x[l] PROVE x[l].id \in Nat \ {0} /\ x[l].id < n
    <3>1. l \in Named(x)
      BY <1>0, <2>1, <2>3 DEF Named
    <3> QED BY <3>1 DEF NamesWithin, Sound
  <2> QED BY <1>6, <2>1, <2>2, <2>3
<1>10. ASSUME NEW k \in Named(y), NEW l \in Named(y), y[k].id = y[l].id PROVE k = l
  <2>1. /\ k \in 1..Len(y) /\ y[k].kind \in {"open", "self"}
        /\ l \in 1..Len(y) /\ y[l].kind \in {"open", "self"}
    BY <1>4 DEF Named
  <2>2. CASE k \in i..i + Len(s) - 1 /\ k - i + 1 \in 1..Len(s) /\ y[k] = s[k - i + 1]
    <3>1. k - i + 1 \in Named(s)
      BY <1>0, <2>1, <2>2 DEF Named
    <3>2. CASE l \in i..i + Len(s) - 1 /\ l - i + 1 \in 1..Len(s) /\ y[l] = s[l - i + 1]
      <4>1. l - i + 1 \in Named(s)
        BY <1>0, <2>1, <3>2 DEF Named
      <4>2. k - i + 1 = l - i + 1
        BY <1>10, <2>2, <3>1, <3>2, <4>1 DEF Fits
      <4> QED BY <2>1, <4>2
    <3>3. ASSUME NEW m \in 1..Len(x), y[l] = x[m], m \notin i..j PROVE FALSE
      <4>1. m \in Named(x)
        BY <1>0, <2>1, <3>3 DEF Named
      <4> QED BY <1>10, <2>2, <3>1, <3>3, <4>1 DEF Fits
    <3> QED BY <1>6, <2>1, <3>2, <3>3
  <2>3. ASSUME NEW m \in 1..Len(x), y[k] = x[m], m \notin i..j,
               (k < i /\ m = k) \/ (k >= i + Len(s) /\ k = m + d)
        PROVE  k = l
    <3>1. m \in Named(x)
      BY <1>0, <2>1, <2>3 DEF Named
    <3>2. CASE l \in i..i + Len(s) - 1 /\ l - i + 1 \in 1..Len(s) /\ y[l] = s[l - i + 1]
      <4>1. l - i + 1 \in Named(s)
        BY <1>0, <2>1, <3>2 DEF Named
      <4> QED BY <1>10, <2>3, <3>1, <3>2, <4>1 DEF Fits
    <3>3. ASSUME NEW o \in 1..Len(x), y[l] = x[o], o \notin i..j,
                 (l < i /\ o = l) \/ (l >= i + Len(s) /\ l = o + d)
          PROVE  k = l
      <4>1. o \in Named(x)
        BY <1>0, <2>1, <3>3 DEF Named
      <4>2. m = o
        BY <1>7, <1>10, <2>3, <3>1, <3>3, <4>1
      <4> QED BY <1>1, <1>5, <2>1, <2>3, <3>3, <4>2, SMTT(30)
    <3> QED BY <1>6, <2>1, <3>2, <3>3
  <2> QED BY <1>6, <2>1, <2>2, <2>3
<1>11. 1 \in Named(y)
  <2>1. CASE i = 1
    <3>1. 1 \in 1..Len(s) /\ 1 \in 1..Len(y) /\ y[1] = s[1] /\ s[1].kind \in {"open", "self"}
      <4>3. 1 \in Named(s)
        BY <2>1 DEF Holds
      <4>1. 1 \in 1..Len(s) /\ s[1].kind \in {"open", "self"}
        BY <1>0, <4>3 DEF Named
      <4>2. 1 \in 1..Len(y) /\ ~(1 < i) /\ 1 < i + Len(s) /\ 1 - i + 1 = 1
        BY <1>1, <1>2, <1>5, <2>1, <4>1
      <4> QED BY <1>2, <4>1, <4>2
    <3> QED BY <1>4, <3>1 DEF Named
  <2>2. CASE i # 1
    <3>1. 1 \in 1..Len(y) /\ 1 < i
      BY <1>1, <1>2, <1>5, <2>2
    <3>2. y[1] = x[1]
      BY <1>2, <3>1
    <3> QED BY <1>4, <1>7, <3>1, <3>2 DEF Named
  <2> QED BY <2>1, <2>2
<1>12. DepthAt(y, Len(y)) = 0
  <2>1. Len(x) \in j..Len(x)
    BY <1>1
  <2> QED BY <1>2, <1>3, <1>7, <2>1
<1>13. ASSUME NEW k \in 1..Len(y) - 1 PROVE DepthAt(y, k) > 0
  <2>1. CASE k < i
    <3>1. k \in 0..i - 1 /\ k \in 1..Len(x) - 1
      BY <1>1, <2>1
    <3> QED BY <1>3, <1>7, <3>1
  <2>2. CASE ~(k < i) /\ k < i + Len(s)
    <3>1. /\ k - (i - 1) \in 1..Len(s) /\ k - (i - 1) \in 0..Len(s)
          /\ i - 1 + (k - (i - 1)) = k
      BY <1>1, <1>2, <1>5, <2>2
    <3>3. ~(k - (i - 1) = Len(s) /\ j = Len(x))
      <4>1. k <= Len(x) + d - 1 /\ k \in Int
        BY <1>1, <1>2
      <4> QED BY <1>1, <1>5, <4>1
    <3>2. DepthAt(x, i - 1) + DepthAt(s, k - (i - 1)) > 0
      BY <3>1, <3>3 DEF Holds
    <3> QED BY <1>3, <3>1, <3>2
  <2>3. CASE ~(k < i + Len(s)) /\ ~(k < i)
    <3>1. k - d \in j..Len(x) /\ k - d \in 1..Len(x) - 1 /\ (k - d) + d = k
      BY <1>1, <1>2, <1>5, <2>3
    <3> QED BY <1>3, <1>7, <3>1
  <2> QED BY <1>1, <2>1, <2>2, <2>3
<1>14. WellFormed(y)
  BY <1>2, <1>8, <1>10, <1>11, <1>12, <1>13, WellFormedIs
<1> QED BY <1>2, <1>9, <1>14 DEF Sound, NamesWithin, y

----------------------------------------------------------------------------
(* Where things are *)

\* IndexOf() finds the topic of that name.
LEMMA IndexIs ==
  ASSUME NEW x, Xml(x), NEW id, IndexOf(x, id) # 0
  PROVE  /\ IndexOf(x, id) \in 1..Len(x) /\ IndexOf(x, id) \in Named(x)
         /\ x[IndexOf(x, id)].kind \in {"open", "self"}
         /\ x[IndexOf(x, id)].id = id
<1> DEFINE S == {i \in DOMAIN x : x[i].kind \in {"open", "self"} /\ x[i].id = id}
<1>1. Len(x) \in Nat /\ DOMAIN x = 1..Len(x)
  BY XmlShape
<1>2. S \in SUBSET (Nat \ {0}) /\ IndexOf(x, id) = First(S)
  BY <1>1 DEF IndexOf
<1>3. IndexOf(x, id) \in S
  <2> HIDE DEF S
  <2> QED BY <1>2, FirstOf
<1> QED BY <1>1, <1>3 DEF Named

\* A line is found at a tag that opens and closes itself.
LEMMA ArrowIs ==
  ASSUME NEW x, Xml(x), NEW id, ArrowIndex(x, id) # 0
  PROVE  ArrowIndex(x, id) \in 1..Len(x) /\ x[ArrowIndex(x, id)].kind = "arrow"
<1> DEFINE S == {i \in DOMAIN x : x[i].kind \in {"arrow", "openarrow"} /\ x[i].id = id}
<1>1. Len(x) \in Nat /\ DOMAIN x = 1..Len(x)
  BY XmlShape
<1>2. S \in SUBSET (Nat \ {0}) /\ ArrowIndex(x, id) = First(S)
  BY <1>1 DEF ArrowIndex
<1>3. ArrowIndex(x, id) \in S
  <2> HIDE DEF S
  <2> QED BY <1>2, FirstOf
<1>4. \A i \in 1..Len(x) : x[i].kind # "openarrow"
  BY DEF Xml, IsTag, Begun
<1> QED BY <1>1, <1>3, <1>4

\* Written anew, such a line differs in its value alone.
LEMMA RetargetIs ==
  ASSUME NEW x, Xml(x), NEW id, ArrowIndex(x, id) # 0, NEW to
  PROVE  updateMindmapArrowlink(x, id, to) = [x EXCEPT ![ArrowIndex(x, id)].value = to]
<1> DEFINE i == ArrowIndex(x, id)
<1>1. i \in 1..Len(x) /\ x[i].kind = "arrow"
  BY ArrowIs
<1>2. updateMindmapArrowlink(x, id, to) = [x EXCEPT ![i] = Tag("arrow", x[i].id, to)]
  BY DEF updateMindmapArrowlink
<1> HIDE DEF i
<1>3. x[i] = Tag("arrow", x[i].id, x[i].value)
  BY <1>1 DEF Xml, IsTag
<1>4. Tag("arrow", x[i].id, to) = [x[i] EXCEPT !.value = to]
  BY <1>3 DEF Tag
<1> QED BY <1>2, <1>4 DEF i

\* A tag that is in another is not the first.
LEMMA ParentIs ==
  ASSUME NEW x, NEW i \in Nat \ {0}, HasParent(x, i)
  PROVE  i >= 2
<1> DEFINE S == {j \in 1..i - 1 : x[j].kind = "open" /\ Level(x, j + 1, i - 1)}
<1>1. i - 1 \in Nat /\ S \in SUBSET (1..i - 1) /\ LastOf(S) # 0
  BY DEF HasParent, EnclosingIndex
<1>2. LastOf(S) \in S
  <2> HIDE DEF S
  <2> QED BY <1>1, LastAmong
<1> QED BY <1>2

\* Up to the tag that closes the one at i, the text never comes out of it.
LEMMA MatchingCloseIs ==
  ASSUME NEW x, Xml(x), NEW i \in 1..Len(x), MatchingClose(x, i) # 0
  PROVE  /\ MatchingClose(x, i) \in i + 1..Len(x)
         /\ x[MatchingClose(x, i)].kind = "close"
         /\ DepthAt(x, MatchingClose(x, i) - 1) = DepthAt(x, i)
         /\ \A k \in i..MatchingClose(x, i) - 1 : DepthAt(x, k) >= DepthAt(x, i)
<1> DEFINE S == {j \in i + 1..Len(x) : x[j].kind = "close" /\ Level(x, i + 1, j - 1)}
           c == MatchingClose(x, i)
<1>1. Len(x) \in Nat
  BY XmlShape
<1>2. S \in SUBSET (Nat \ {0}) /\ c = First(S)
  BY <1>1 DEF MatchingClose
<1>3. c \in S /\ \A j \in S : c <= j
  <2> HIDE DEF S, c
  <2> QED BY <1>2, FirstOf DEF c
<1>4. ASSUME NEW j \in i + 1..Len(x)
      PROVE  Level(x, i + 1, j - 1) <=> DepthAt(x, j - 1) = DepthAt(x, i)
  <2>1. /\ i + 1 \in Int /\ j - 1 \in Int /\ 1 <= i + 1 /\ i + 1 <= (j - 1) + 1
        /\ (i + 1) - 1 = i
    BY <1>1
  <2> QED BY <2>1, LevelIsDepth
<1>5. c \in i + 1..Len(x) /\ x[c].kind = "close" /\ DepthAt(x, c - 1) = DepthAt(x, i)
  BY <1>3, <1>4
<1> HIDE DEF c
<1>6. \A k \in Int : DepthAt(x, k) \in Int
  BY DepthType
<1>7. ASSUME NEW k \in i..c - 1, ~(DepthAt(x, k) >= DepthAt(x, i)) PROVE FALSE
  <2> DEFINE T == {l \in i..c - 1 : DepthAt(x, l) < DepthAt(x, i)}
  <2>1. T \in SUBSET Nat /\ k \in T
    <3>1. c \in Int /\ i \in Nat
      BY <1>1, <1>5
    <3>2. \A l \in i..c - 1 : l \in Nat
      BY <3>1
    <3>3. DepthAt(x, k) \in Int /\ DepthAt(x, i) \in Int
      BY <1>6, <3>1
    <3>4. DepthAt(x, k) < DepthAt(x, i)
      BY <1>7, <3>3
    <3> QED BY <3>2, <3>4
  <2>2. PICK m \in T : \A l \in T : m <= l
    <3> HIDE DEF T
    <3> QED BY <2>1, Least
  <2>0. m \in i..c - 1 /\ DepthAt(x, m) < DepthAt(x, i)
    OBVIOUS
  <2>9. m # i
    <3>1. DepthAt(x, i) \in Int
      BY <1>6
    <3> QED BY <2>0, <3>1
  <2>3. /\ m \in Nat \ {0} /\ m \in i + 1..Len(x) /\ m <= c - 1
        /\ DepthAt(x, m) < DepthAt(x, i) /\ m - 1 \in i..c - 1 /\ m - 1 < m
    <3>1. c \in Int /\ c <= Len(x) /\ i \in Nat
      BY <1>1, <1>5
    <3> QED BY <1>1, <2>0, <2>9, <3>1
  <2>4. DepthAt(x, m - 1) >= DepthAt(x, i)
    <3>1. m - 1 \notin T
      BY <2>2, <2>3
    <3>2. ~(DepthAt(x, m - 1) < DepthAt(x, i))
      BY <2>3, <3>1
    <3>3. DepthAt(x, m - 1) \in Int /\ DepthAt(x, i) \in Int
      BY <2>3, DepthType
    <3> QED BY <3>2, <3>3
  <2>5. x[m].kind = "close" /\ DepthAt(x, m - 1) = DepthAt(x, i)
    <3>1. /\ DepthAt(x, m) \in Int /\ DepthAt(x, m - 1) \in Int /\ DepthAt(x, i) \in Int
          /\ x[m].kind = "open" => DepthAt(x, m) = DepthAt(x, m - 1) + 1
          /\ x[m].kind = "close" => DepthAt(x, m) = DepthAt(x, m - 1) - 1
          /\ x[m].kind \notin {"open", "close"} => DepthAt(x, m) = DepthAt(x, m - 1)
      <4>1. DepthAt(x, i) \in Int
        BY DepthType
      <4> QED BY <2>3, <4>1, DepthSteps
    <3> QED BY <2>3, <2>4, <3>1, SMTT(30)
  <2>6. m \in S
    BY <1>4, <2>3, <2>5
  <2>7. c <= m
    BY <1>3, <2>6
  <2> QED BY <1>5, <2>3, <2>7
<1>8. \A k \in i..c - 1 : DepthAt(x, k) >= DepthAt(x, i)
  BY <1>7
<1> QED BY <1>5, <1>8 DEF c

\* A subtree, from where it starts to its end.
Subtext(x, i, e) ==
  /\ e \in i..Len(x)
  /\ DepthAt(x, e) = DepthAt(x, i - 1)
  /\ \A k \in i..e - 1 : DepthAt(x, k) > DepthAt(x, i - 1)

\* The end of a subtree: where the depth is again what it was before the subtree.
LEMMA EndIs ==
  ASSUME NEW x, Xml(x), NEW i \in 1..Len(x), x[i].kind \in {"open", "self"}, EndOf(x, i) # 0
  PROVE  Subtext(x, i, EndOf(x, i))
<1>1. Len(x) \in Nat /\ i \in Nat \ {0}
  BY XmlShape
<1>2. \A k \in Int : DepthAt(x, k) \in Int
  BY DepthType
<1>3. CASE x[i].kind = "self"
  <2>1. EndOf(x, i) = i
    BY <1>3 DEF EndOf
  <2>2. DepthAt(x, i) = DepthAt(x, i - 1)
    BY <1>1, <1>3, DepthSteps
  <2> QED BY <1>1, <2>1, <2>2 DEF Subtext
<1>4. CASE x[i].kind = "open"
  <2> DEFINE c == MatchingClose(x, i)
  <2>1. EndOf(x, i) = c /\ c # 0
    BY <1>4 DEF EndOf
  <2>2. /\ c \in i + 1..Len(x) /\ x[c].kind = "close"
        /\ DepthAt(x, c - 1) = DepthAt(x, i)
        /\ \A k \in i..c - 1 : DepthAt(x, k) >= DepthAt(x, i)
    BY <2>1, MatchingCloseIs
  <2> HIDE DEF c
  <2>3. c \in Nat \ {0} /\ c \in i..Len(x)
    BY <1>1, <2>2
  <2>4. DepthAt(x, i) = DepthAt(x, i - 1) + 1 /\ DepthAt(x, i - 1) \in Int
    BY <1>1, <1>4, DepthSteps
  <2>5. DepthAt(x, c) = DepthAt(x, c - 1) - 1
    BY <2>2, <2>3, DepthSteps
  <2>6. DepthAt(x, c) = DepthAt(x, i - 1)
    BY <2>2, <2>4, <2>5
  <2>7. ASSUME NEW k \in i..c - 1 PROVE DepthAt(x, k) > DepthAt(x, i - 1)
    <3>1. DepthAt(x, k) >= DepthAt(x, i)
      BY <2>2
    <3>2. DepthAt(x, k) \in Int
      BY <2>3, DepthType
    <3> QED BY <2>4, <3>1, <3>2
  <2> QED BY <2>1, <2>3, <2>6, <2>7 DEF Subtext
<1> QED BY <1>3, <1>4

\* A subtree that starts in the node t ends in it.
LEMMA EndsInside ==
  ASSUME NEW x, Xml(x), NEW t \in 1..Len(x), x[t].kind = "open",
         NEW c \in t + 1..Len(x), x[c].kind = "close",
         DepthAt(x, c - 1) = DepthAt(x, t),
         \A k \in t..c - 1 : DepthAt(x, k) >= DepthAt(x, t),
         NEW i \in t + 1..c, x[i].kind \in {"open", "self"}, NEW e, Subtext(x, i, e)
  PROVE  i < c /\ e < c
<1>1. Len(x) \in Nat /\ e \in i..Len(x)
  BY XmlShape DEF Subtext
<1>2. \A k \in Int : DepthAt(x, k) \in Int
  BY DepthType
<1>3. i < c
  BY <1>1
<1>4. DepthAt(x, i - 1) >= DepthAt(x, t)
  BY <1>1, <1>3
<1>5. ASSUME c <= e PROVE FALSE
  <2>1. c - 1 \in i..e - 1
    BY <1>1, <1>3, <1>5
  <2>2. DepthAt(x, c - 1) > DepthAt(x, i - 1)
    BY <2>1 DEF Subtext
  <2>3. DepthAt(x, t) \in Int /\ DepthAt(x, i - 1) \in Int
    BY <1>1, <1>2
  <2> QED BY <1>4, <2>2, <2>3
<1> QED BY <1>1, <1>3, <1>5

----------------------------------------------------------------------------
(* The three ways the text is changed *)

\* What is closed in s was opened in it, and nothing stays open.
Balanced(s) == DepthAt(s, Len(s)) = 0 /\ \A k \in 1..Len(s) : DepthAt(s, k) >= 0

\* No topic in s is torn or has the name of another in s or in x.
Fresh(s, x) == Fits(s, x, 1, 0)

\* What a handler puts into x.
Piece(s, x, n) == Xml(s) /\ Balanced(s) /\ Fresh(s, x) /\ NamesWithin(s, n)

LEMMA SoundIs ==
  ASSUME NEW x, NEW n, Sound(x, n)
  PROVE  /\ Xml(x) /\ Len(x) \in Nat /\ 1 <= Len(x) /\ DOMAIN x = 1..Len(x)
         /\ NamesWithin(x, n)
         /\ \A k \in 1..Len(x) : x[k].kind # "broken"
         /\ \A k, l \in Named(x) : x[k].id = x[l].id => k = l
         /\ 1 \in Named(x)
         /\ DepthAt(x, Len(x)) = 0
         /\ \A k \in 1..Len(x) - 1 : DepthAt(x, k) > 0
<1>1. Xml(x) /\ NamesWithin(x, n) /\ WellFormed(x)
  BY DEF Sound
<1>2. Len(x) \in Nat /\ DOMAIN x = 1..Len(x)
  BY <1>1, XmlShape
<1>3. /\ \A k \in 1..Len(x) : x[k].kind # "broken"
      /\ \A k, l \in Named(x) : x[k].id = x[l].id => k = l
      /\ 1 \in Named(x)
      /\ DepthAt(x, Len(x)) = 0
      /\ \A k \in 1..Len(x) - 1 : DepthAt(x, k) > 0
  BY <1>1, WellFormedIs
<1>4. 1 \in 1..Len(x)
  BY <1>2, <1>3 DEF Named
<1> QED BY <1>1, <1>2, <1>3, <1>4

LEMMA FreshFits ==
  ASSUME NEW s, NEW x, Fresh(s, x), NEW i \in Int, NEW j \in Int
  PROVE  Fits(s, x, i, j)
BY DEF Fresh, Fits

\* What is balanced can be put in anywhere inside the root.
LEMMA InsertSound ==
  ASSUME NEW x, NEW n, Sound(x, n), NEW s, Piece(s, x, n), NEW k \in 2..Len(x)
  PROVE  Sound(Splice(x, k, k - 1, s), n)
<1>1. /\ Len(x) \in Nat /\ k \in Int /\ k - 1 \in Int
      /\ k - 1 \in 1..Len(x) - 1
  BY SoundIs
<1>2. Len(s) \in Nat /\ DepthAt(x, k - 1) \in Int /\ \A l \in Int : DepthAt(s, l) \in Int
  BY <1>1, XmlShape, DepthType DEF Piece
<1>3. DepthAt(x, k - 1) > 0
  BY <1>1, SoundIs
<1>4. \A l \in 1..Len(s) : DepthAt(x, k - 1) + DepthAt(s, l) > 0
  BY <1>2, <1>3 DEF Piece, Balanced
<1>5. Holds(s, x, k, k - 1)
  <2>1. DepthAt(s, Len(s)) = DepthAt(x, k - 1) - DepthAt(x, k - 1)
    BY <1>2 DEF Piece, Balanced
  <2>2. k # 1
    BY <1>1
  <2> QED BY <1>4, <2>1, <2>2 DEF Holds
<1>6. Fits(s, x, k, k - 1)
  BY <1>1, FreshFits DEF Piece
<1>7. 1 <= k /\ k <= (k - 1) + 1 /\ k - 1 <= Len(x) /\ k <= Len(x)
  BY <1>1
<1> QED BY <1>1, <1>5, <1>6, <1>7, SpliceSound DEF Piece

LEMMA XmlNone == Xml(<<>>) /\ Len(<<>>) = 0 /\ Named(<<>>) = {}
<1>1. <<>> \in Seq({}) /\ Len(<<>>) = 0
  OBVIOUS
<1>2. Xml(<<>>)
  <2>1. \A k \in 1..Len(<<>>) : IsTag(<<>>[k])
    BY <1>1
  <2> QED BY <1>1, <2>1, XmlIs
<1>3. DOMAIN <<>> = {}
  BY <1>2, <1>1, XmlShape
<1> QED BY <1>1, <1>2, <1>3 DEF Named

\* What is balanced can be cut out, but for the root.
LEMMA CutSound ==
  ASSUME NEW x, NEW n, Sound(x, n), NEW i \in 2..Len(x), NEW e \in i..Len(x),
         DepthAt(x, e) = DepthAt(x, i - 1)
  PROVE  e < Len(x) /\ Sound(Splice(x, i, e, <<>>), n)
<1>1. /\ Len(x) \in Nat /\ DepthAt(x, Len(x)) = 0
      /\ \A k \in 1..Len(x) - 1 : DepthAt(x, k) > 0
  BY SoundIs
<1>2. /\ i \in Int /\ e \in Int /\ 1 <= i /\ i <= e + 1 /\ e <= Len(x) /\ i <= Len(x)
      /\ i # 1 /\ i - 1 \in 1..Len(x) - 1
  BY <1>1
<1>3. e # Len(x)
  BY <1>1, <1>2
<1>4. DepthAt(x, e) \in Int /\ DepthAt(x, i - 1) \in Int
  BY <1>2, DepthType
<1>5. Holds(<<>>, x, i, e)
  BY <1>2, <1>4, XmlNone, DepthStarts DEF Holds
<1>6. Fits(<<>>, x, i, e) /\ NamesWithin(<<>>, n)
  BY XmlNone DEF Fits, NamesWithin
<1>7. Sound(Splice(x, i, e, <<>>), n)
  BY <1>2, <1>5, <1>6, XmlNone, SpliceSound
<1> QED BY <1>1, <1>2, <1>3, <1>7

\* s between the tags a and b.
Wrapped(a, s, b) == <<a>> \o s \o <<b>>

LEMMA WrappedAt ==
  ASSUME NEW s, Xml(s), NEW a, IsTag(a), NEW b, IsTag(b)
  PROVE  LET w == Wrapped(a, s, b) IN
         /\ Xml(w) /\ Len(w) = Len(s) + 2 /\ DOMAIN w = 1..Len(s) + 2
         /\ w[1] = a /\ w[Len(s) + 2] = b
         /\ \A k \in 1..Len(s) : w[k + 1] = s[k]
<1> DEFINE v == <<a>> \o s
           w == v \o <<b>>
<1>1. Len(s) \in Nat
  BY XmlShape
<1>2. /\ Xml(<<a>>) /\ Len(<<a>>) = 1 /\ <<a>>[1] = a
      /\ Xml(<<b>>) /\ Len(<<b>>) = 1 /\ <<b>>[1] = b
  BY XmlOne
<1>3. /\ Xml(v) /\ Len(v) = 1 + Len(s)
      /\ \A k \in 1..1 + Len(s) : v[k] = IF k <= 1 THEN <<a>>[k] ELSE s[k - 1]
  BY <1>2, XmlConcat
<1> HIDE DEF v
<1>4. /\ Xml(w) /\ Len(w) = 1 + Len(s) + 1
      /\ \A k \in 1..1 + Len(s) + 1 :
           w[k] = IF k <= 1 + Len(s) THEN v[k] ELSE <<b>>[k - (1 + Len(s))]
  BY <1>2, <1>3, XmlConcat
<1> HIDE DEF w
<1>5. Len(w) = Len(s) + 2
  BY <1>1, <1>4
<1>6. DOMAIN w = 1..Len(s) + 2
  BY <1>4, <1>5, XmlShape
<1>7. w[1] = a
  <2>1. 1 \in 1..1 + Len(s) + 1 /\ 1 <= 1 + Len(s) /\ 1 \in 1..1 + Len(s)
    BY <1>1
  <2> QED BY <1>2, <1>3, <1>4, <2>1
<1>8. w[Len(s) + 2] = b
  <2>1. /\ Len(s) + 2 \in 1..1 + Len(s) + 1 /\ ~(Len(s) + 2 <= 1 + Len(s))
        /\ Len(s) + 2 - (1 + Len(s)) = 1
    BY <1>1
  <2> QED BY <1>2, <1>4, <2>1
<1>9. ASSUME NEW k \in 1..Len(s) PROVE w[k + 1] = s[k]
  <2>1. /\ k + 1 \in 1..1 + Len(s) + 1 /\ k + 1 <= 1 + Len(s) /\ k + 1 \in 1..1 + Len(s)
        /\ ~(k + 1 <= 1) /\ k + 1 - 1 = k
    BY <1>1
  <2> QED BY <1>3, <1>4, <2>1
<1> QED BY <1>4, <1>5, <1>6, <1>7, <1>8, <1>9 DEF v, w, Wrapped

\* An element around s is as deep as s, and one deeper inside.
LEMMA WrappedDepth ==
  ASSUME NEW s, Xml(s), NEW a, IsTag(a), a.kind = "open"
  PROVE  LET w == Wrapped(a, s, Close) IN
         /\ \A k \in 0..Len(s) : DepthAt(w, k + 1) = DepthAt(s, k) + 1
         /\ DepthAt(w, Len(s) + 2) = DepthAt(s, Len(s))
<1> DEFINE w == Wrapped(a, s, Close)
<1>1. IsTag(Close) /\ Close.kind = "close"
  BY DEF IsTag, Begun, Close, Tag
<1>2. /\ Len(s) \in Nat
      /\ w[1] = a /\ w[Len(s) + 2] = Close
      /\ \A k \in 1..Len(s) : w[k + 1] = s[k]
  BY <1>1, XmlShape, WrappedAt
<1> HIDE DEF w
<1>3. DepthAt(w, 1) = 1
  <2>1. DepthAt(w, 1) = DepthAt(w, 1 - 1) + 1
    BY <1>2, DepthSteps
  <2> QED BY <2>1, DepthStarts
<1>4. ASSUME NEW k \in 0..Len(s) PROVE DepthAt(w, k + 1) = DepthAt(s, k) + 1
  <2>1. Alike(s, w, 1, k, 1)
    <3>1. \A l \in 1..k : l \in 1..Len(s)
      BY <1>2
    <3> QED BY <1>2, <3>1 DEF Alike
  <2>2. DepthAt(w, k + 1) - DepthAt(w, 1 + 1 - 1) = DepthAt(s, k) - DepthAt(s, 1 - 1)
    BY <1>2, <2>1, DepthShifted
  <2>3. 1 + 1 - 1 = 1 /\ 1 - 1 = 0
    OBVIOUS
  <2>4. DepthAt(w, k + 1) - 1 = DepthAt(s, k) - 0
    BY <1>3, <2>2, <2>3, DepthStarts
  <2>5. DepthAt(w, k + 1) \in Int /\ DepthAt(s, k) \in Int
    BY <1>2, DepthType
  <2> QED BY <2>4, <2>5
<1>5. DepthAt(w, Len(s) + 2) = DepthAt(s, Len(s))
  <2>1. Len(s) + 2 \in Nat \ {0} /\ (Len(s) + 2) - 1 = Len(s) + 1 /\ Len(s) \in 0..Len(s)
    BY <1>2
  <2>2. DepthAt(w, Len(s) + 2) = DepthAt(w, Len(s) + 1) - 1
    BY <1>1, <1>2, <2>1, DepthSteps
  <2>3. DepthAt(s, Len(s)) \in Int
    BY <1>2, DepthType
  <2> QED BY <1>4, <2>1, <2>2, <2>3
<1> QED BY <1>4, <1>5 DEF w

\* w is the element that the self-closing node i of x becomes, with s in it.
Unfolds(w, s, x, n, i) ==
  /\ Len(s) \in Nat /\ Xml(w) /\ Len(w) = Len(s) + 2
  /\ w[1].kind = "open" /\ w[1].id = x[i].id
  /\ \A k \in 1..Len(s) : w[k + 1] = s[k]
  /\ 1 \in Named(w)
  /\ \A k \in Named(w) : k = 1 \/ (k - 1 \in Named(s) /\ w[k] = s[k - 1])
  /\ \A k \in 0..Len(s) : DepthAt(w, k + 1) = DepthAt(s, k) + 1
  /\ DepthAt(w, Len(w)) = 0 /\ \A k \in 1..Len(s) + 1 : DepthAt(w, k) >= 1
  /\ Fits(w, x, i, i) /\ NamesWithin(w, n)

LEMMA WrappedIs ==
  ASSUME NEW x, NEW n, Sound(x, n), NEW s, Piece(s, x, n),
         NEW i \in 1..Len(x), x[i].kind = "self"
  PROVE  Unfolds(Wrapped([x[i] EXCEPT !.kind = "open"], s, Close), s, x, n, i)
<1> DEFINE a == [x[i] EXCEPT !.kind = "open"]
           w == Wrapped(a, s, Close)
<1>1. /\ Len(x) \in Nat /\ DOMAIN x = 1..Len(x) /\ NamesWithin(x, n)
      /\ \A k, l \in Named(x) : x[k].id = x[l].id => k = l
      /\ \A k \in 1..Len(x) - 1 : DepthAt(x, k) > 0
  BY SoundIs
<1>2. i \in Named(x) /\ x[i].id \in Nat \ {0} /\ x[i].id < n
  BY <1>1 DEF Named, NamesWithin
<1>3. IsTag(x[i])
  BY DEF Sound, Xml
<1>4. IsTag(a) /\ a.kind = "open" /\ a.id = x[i].id
  BY <1>3 DEF IsTag, Begun, Tag
<1>5. IsTag(Close) /\ Close.kind = "close"
  BY DEF IsTag, Begun, Close, Tag
<1>6. Xml(s) /\ Len(s) \in Nat /\ DOMAIN s = 1..Len(s)
  BY XmlShape DEF Piece
<1> HIDE DEF a
<1>7. /\ Xml(w) /\ Len(w) = Len(s) + 2 /\ DOMAIN w = 1..Len(s) + 2
      /\ w[1] = a /\ w[Len(s) + 2] = Close
      /\ \A k \in 1..Len(s) : w[k + 1] = s[k]
  <2>1. Xml(s) /\ IsTag(a) /\ IsTag(Close)
    BY <1>4, <1>5, <1>6
  <2> QED BY <2>1, WrappedAt
<1>8. /\ \A k \in 0..Len(s) : DepthAt(w, k + 1) = DepthAt(s, k) + 1
      /\ DepthAt(w, Len(s) + 2) = DepthAt(s, Len(s))
  BY <1>4, <1>6, WrappedDepth
<1> HIDE DEF w
<1>9. ASSUME NEW k \in 1..Len(w), w[k].kind # "close"
      PROVE  k = 1 \/ (k - 1 \in 1..Len(s) /\ w[k] = s[k - 1])
  <2>1. k = 1 \/ k = Len(s) + 2 \/ k - 1 \in 1..Len(s)
    BY <1>6, <1>7
  <2>2. ASSUME k - 1 \in 1..Len(s) PROVE w[k] = s[k - 1]
    <3>1. (k - 1) + 1 = k
      BY <1>6
    <3> QED BY <1>7, <2>2, <3>1
  <2> QED BY <1>5, <1>7, <1>9, <2>1, <2>2
<1>10. ASSUME NEW k \in Named(w) PROVE k = 1 \/ (k - 1 \in Named(s) /\ w[k] = s[k - 1])
  <2>1. k \in 1..Len(w) /\ w[k].kind \in {"open", "self"}
    BY <1>7 DEF Named
  <2>2. w[k].kind # "close"
    BY <2>1
  <2>3. k = 1 \/ (k - 1 \in 1..Len(s) /\ w[k] = s[k - 1])
    BY <1>9, <2>1, <2>2
  <2> QED BY <1>6, <2>1, <2>3 DEF Named
<1>11. Fits(w, x, i, i)
  <2>1. ASSUME NEW k \in 1..Len(w) PROVE w[k].kind # "broken"
    <3>1. \A l \in 1..Len(s) : s[l].kind # "broken"
      BY DEF Piece, Fresh, Fits
    <3> QED BY <1>4, <1>7, <1>9, <3>1
  <2>2. ASSUME NEW k \in Named(w), NEW l \in Named(x), w[k].id = x[l].id PROVE l = i
    <3>1. CASE k = 1
      BY <1>1, <1>2, <1>4, <1>7, <2>2, <3>1
    <3>2. CASE k - 1 \in Named(s) /\ w[k] = s[k - 1]
      <4>1. l \in 1..0
        BY <2>2, <3>2 DEF Piece, Fresh, Fits
      <4> QED BY <4>1
    <3> QED BY <1>10, <3>1, <3>2
  <2>3. ASSUME NEW k \in Named(w), NEW l \in Named(w), w[k].id = w[l].id PROVE k = l
    <3>1. k \in Int /\ l \in Int
      BY <1>6, <1>7 DEF Named
    <3>2. \A m \in Named(s) : s[m].id # x[i].id
      <4>1. i \in Named(x) /\ i \notin 1..0
        BY <1>1, <1>2
      <4> QED BY <4>1 DEF Piece, Fresh, Fits
    <3>3. \A p, q \in Named(s) : s[p].id = s[q].id => p = q
      BY DEF Piece, Fresh, Fits
    <3>4. w[1].id = x[i].id
      BY <1>4, <1>7
    <3> QED BY <1>10, <2>3, <3>1, <3>2, <3>3, <3>4
  <2>4. i \in i..i
    OBVIOUS
  <2> QED BY <2>1, <2>2, <2>3, <2>4 DEF Fits
<1>12. NamesWithin(w, n)
  BY <1>2, <1>4, <1>7, <1>10 DEF NamesWithin, Piece
<1>13. DepthAt(w, Len(w)) = 0 /\ \A k \in 1..Len(s) + 1 : DepthAt(w, k) >= 1
  <2>1. ASSUME NEW k \in 1..Len(s) + 1 PROVE DepthAt(w, k) >= 1
    <3>1. k - 1 \in 0..Len(s) /\ (k - 1) + 1 = k /\ k - 1 \in Int
      BY <1>6
    <3>2. DepthAt(w, k) = DepthAt(s, k - 1) + 1
      BY <1>8, <3>1
    <3>3. DepthAt(s, k - 1) \in Int
      BY <3>1, DepthType
    <3>4. DepthAt(s, k - 1) >= 0
      <4>1. CASE k - 1 = 0
        BY <4>1, DepthStarts
      <4>2. CASE k - 1 # 0
        <5>1. k - 1 \in 1..Len(s)
          BY <1>6, <3>1, <4>2
        <5> QED BY <5>1 DEF Piece, Balanced
      <4> QED BY <4>1, <4>2
    <3> QED BY <3>2, <3>3, <3>4
  <2> QED BY <1>7, <1>8, <2>1 DEF Piece, Balanced
<1>14. 1 \in Named(w)
  BY <1>4, <1>6, <1>7 DEF Named
<1> QED BY <1>4, <1>6, <1>7, <1>8, <1>10, <1>11, <1>12, <1>13, <1>14 DEF Unfolds, a, w

\* A self-closing node can be opened around something that is balanced.
LEMMA ExpandedSound ==
  ASSUME NEW x, NEW n, Sound(x, n), NEW s, Piece(s, x, n),
         NEW i \in 1..Len(x), x[i].kind = "self"
  PROVE  Sound(Expanded(x, i, s), n)
<1> DEFINE a == [x[i] EXCEPT !.kind = "open"]
           w == Wrapped(a, s, Close)
<1>1. Len(x) \in Nat /\ \A k \in 1..Len(x) - 1 : DepthAt(x, k) > 0
  BY SoundIs
<1>0. Unfolds(w, s, x, n, i)
  BY WrappedIs
<1> HIDE DEF a, w
<1>2. /\ Len(s) \in Nat /\ Xml(w) /\ Len(w) = Len(s) + 2 /\ 1 \in Named(w)
      /\ DepthAt(w, Len(w)) = 0 /\ \A k \in 1..Len(s) + 1 : DepthAt(w, k) >= 1
      /\ Fits(w, x, i, i) /\ NamesWithin(w, n)
  BY <1>0 DEF Unfolds
<1>3. /\ DepthAt(x, i) = DepthAt(x, i - 1)
      /\ DepthAt(x, i) \in Int /\ DepthAt(x, i - 1) \in Int
  BY <1>1, DepthSteps
<1>4. Holds(w, x, i, i)
  <2>1. DepthAt(x, i - 1) >= 0
    <3>1. CASE i = 1
      BY <3>1, DepthStarts
    <3>2. CASE i # 1
      <4>1. i - 1 \in 1..Len(x) - 1
        BY <1>1, <3>2
      <4> QED BY <1>1, <1>3, <4>1
    <3> QED BY <3>1, <3>2
  <2>2. ASSUME NEW k \in 1..Len(w)
        PROVE  (k = Len(w) /\ i = Len(x)) \/ DepthAt(x, i - 1) + DepthAt(w, k) > 0
    <3>1. CASE k # Len(w)
      <4>1. k \in 1..Len(s) + 1
        BY <1>2, <3>1
      <4>2. DepthAt(w, k) >= 1 /\ DepthAt(w, k) \in Int
        BY <1>2, <4>1, DepthType
      <4> QED BY <1>3, <2>1, <4>2
    <3>2. CASE k = Len(w) /\ i # Len(x)
      <4>1. i \in 1..Len(x) - 1
        <5>1. Len(x) \in Nat
          BY <1>1
        <5> QED BY <3>2, <5>1
      <4>2. DepthAt(x, i - 1) > 0
        BY <1>1, <1>3, <4>1
      <4> QED BY <1>2, <1>3, <3>2, <4>2
    <3> QED BY <3>1, <3>2
  <2>3. 1 \in Named(w)
    BY <1>2
  <2>4. DepthAt(w, Len(w)) = DepthAt(x, i) - DepthAt(x, i - 1)
    BY <1>2, <1>3
  <2> QED BY <2>2, <2>3, <2>4, Zenon DEF Holds
<1>5. i \in Int /\ 1 <= i /\ i <= i + 1 /\ i <= Len(x)
  BY <1>1
<1>6. Sound(Splice(x, i, i, w), n)
  BY <1>2, <1>4, <1>5, SpliceSound
<1> QED BY <1>6 DEF Expanded, Wrapped, w, a

----------------------------------------------------------------------------
(* What is put in *)

\* More names are as good.
LEMMA SoundMore ==
  ASSUME NEW x, NEW n \in Nat, Sound(x, n)
  PROVE  Sound(x, n + 1)
BY DEF Sound, NamesWithin

LEMMA OneDepth ==
  ASSUME NEW t, IsTag(t)
  PROVE  /\ t.kind \notin {"open", "close"} => Balanced(<<t>>)
         /\ Named(<<t>>) \subseteq {1}
         /\ t.kind \notin {"open", "self"} => Named(<<t>>) = {}
<1>1. Xml(<<t>>) /\ Len(<<t>>) = 1 /\ <<t>>[1] = t
  BY XmlOne
<1>2. DOMAIN <<t>> = 1..1
  BY <1>1, XmlShape
<1>3. ASSUME t.kind \notin {"open", "close"} PROVE Balanced(<<t>>)
  <2>1. DepthAt(<<t>>, 1) = DepthAt(<<t>>, 1 - 1)
    BY <1>1, <1>3, DepthSteps
  <2>2. DepthAt(<<t>>, 1) = 0
    BY <2>1, DepthStarts
  <2> QED BY <1>1, <2>2 DEF Balanced
<1> QED BY <1>1, <1>2, <1>3 DEF Named

\* A new topic has a name that no topic has yet.
LEMMA TopicPiece ==
  ASSUME NEW x, NEW n \in Nat, Sound(x, n)
  PROVE  Piece(<<Self(n, 0)>>, x, n + 1)
<1> DEFINE t == Self(n, 0)
<1>1. IsTag(t) /\ t.kind = "self" /\ t.id = n
  BY DEF IsTag, Begun, Self, Tag
<1> HIDE DEF t
<1>2. Xml(<<t>>) /\ Len(<<t>>) = 1 /\ <<t>>[1] = t
  BY <1>1, XmlOne
<1>3. Balanced(<<t>>) /\ Named(<<t>>) \subseteq {1}
  BY <1>1, OneDepth
<1>4. \A l \in Named(x) : x[l].id # n
  <2>1. \A l \in Named(x) : x[l].id \in Nat /\ x[l].id < n
    BY DEF Sound, NamesWithin
  <2> QED BY <2>1
<1>5. Fresh(<<t>>, x)
  <2>1. \A k \in 1..Len(<<t>>) : <<t>>[k].kind # "broken"
    BY <1>1, <1>2
  <2>2. \A k, l \in Named(<<t>>) : <<t>>[k].id = <<t>>[l].id => k = l
    BY <1>3
  <2>3. \A k \in Named(<<t>>) : \A l \in Named(x) : <<t>>[k].id # x[l].id
    BY <1>1, <1>2, <1>3, <1>4
  <2> QED BY <2>1, <2>2, <2>3 DEF Fresh, Fits
<1>6. NamesWithin(<<t>>, n + 1)
  <2>1. 1 \in Named(x) /\ NamesWithin(x, n)
    BY SoundIs
  <2>2. n # 0
    BY <2>1 DEF NamesWithin
  <2> QED BY <1>1, <1>2, <1>3, <2>2 DEF NamesWithin
<1> QED BY <1>2, <1>3, <1>5, <1>6 DEF Piece, t

\* Marks and lines are no topics.
LEMMA LeafPiece ==
  ASSUME NEW x, NEW n, NEW t, IsTag(t), t.kind \in {"mark", "arrow"}
  PROVE  Piece(<<t>>, x, n)
<1>1. Xml(<<t>>) /\ Len(<<t>>) = 1 /\ <<t>>[1] = t
  BY XmlOne
<1>2. Balanced(<<t>>) /\ Named(<<t>>) = {}
  BY OneDepth
<1>3. Fresh(<<t>>, x)
  BY <1>1, <1>2 DEF Fresh, Fits
<1> QED BY <1>1, <1>2, <1>3 DEF Piece, NamesWithin

\* The tags of x without those from i to e.
LEMMA CutAt ==
  ASSUME NEW x, Xml(x), NEW i \in Int, NEW e \in Int, 1 <= i, i <= e, e <= Len(x)
  PROVE  /\ Xml(Splice(x, i, e, <<>>)) /\ Len(Splice(x, i, e, <<>>)) = Len(x) - (e - i + 1)
         /\ \A k \in 1..Len(x) - (e - i + 1) :
              Splice(x, i, e, <<>>)[k] = IF k < i THEN x[k] ELSE x[k + (e - i + 1)]
<1>1. ASSUME NEW s, Xml(s), Len(s) = 0
      PROVE  /\ Xml(Splice(x, i, e, s)) /\ Len(Splice(x, i, e, s)) = Len(x) - (e - i + 1)
             /\ \A k \in 1..Len(x) - (e - i + 1) :
                  Splice(x, i, e, s)[k] = IF k < i THEN x[k] ELSE x[k + (e - i + 1)]
  <2> DEFINE y == Splice(x, i, e, s)
  <2>1. Len(x) \in Nat /\ i <= e + 1
    BY XmlShape
  <2>5. Xml(s)
    BY <1>1
  <2>2. /\ Xml(y) /\ Len(y) = Len(x) - (e - i + 1) + Len(s)
        /\ \A k \in 1..Len(y) : y[k] = IF k < i THEN x[k]
                                      ELSE IF k < i + Len(s) THEN s[k - i + 1]
                                      ELSE x[k - Len(s) + (e - i + 1)]
    BY <2>1, <2>5, SpliceAt
  <2> HIDE DEF y
  <2>3. Len(y) = Len(x) - (e - i + 1)
    BY <1>1, <2>1, <2>2
  <2>4. ASSUME NEW k \in 1..Len(x) - (e - i + 1)
        PROVE  y[k] = IF k < i THEN x[k] ELSE x[k + (e - i + 1)]
    <3>1. k - Len(s) + (e - i + 1) = k + (e - i + 1) /\ k < i + Len(s) <=> k < i
      BY <1>1, <2>1
    <3> QED BY <2>2, <2>3, <3>1
  <2> QED BY <2>2, <2>3, <2>4 DEF y
<1> QED BY <1>1, XmlNone

\* In a subtree by itself the depth starts at 0.
LEMMA SubtextDepth ==
  ASSUME NEW x, Xml(x), NEW i \in 1..Len(x), NEW e, Subtext(x, i, e), NEW k \in 0..e - i + 1
  PROVE  DepthAt(SubSeq(x, i, e), k) = DepthAt(x, i + k - 1) - DepthAt(x, i - 1)
<1> DEFINE s == SubSeq(x, i, e)
<1>1. Len(x) \in Nat /\ e \in i..Len(x) /\ i \in Int /\ e \in Int /\ k \in Int
  BY XmlShape DEF Subtext
<1>2. \A l \in 1..e - i + 1 : s[l] = x[i + l - 1]
  <2>1. 1 <= i /\ e <= Len(x)
    BY <1>1
  <2> QED BY <1>1, <2>1, XmlSubSeq
<1> HIDE DEF s
<1>3. Alike(s, x, 1, k, i - 1)
  <2>1. ASSUME NEW l \in 1..k PROVE x[l + (i - 1)].kind = s[l].kind
    <3>1. l \in 1..e - i + 1 /\ l + (i - 1) = i + l - 1
      BY <1>1
    <3> QED BY <1>2, <3>1
  <2> QED BY <2>1 DEF Alike
<1>4. DepthAt(x, k + (i - 1)) - DepthAt(x, 1 + (i - 1) - 1) =
        DepthAt(s, k) - DepthAt(s, 1 - 1)
  BY <1>1, <1>3, DepthShifted
<1>5. k + (i - 1) = i + k - 1 /\ 1 + (i - 1) - 1 = i - 1 /\ 1 - 1 = 0
  BY <1>1
<1>6. DepthAt(x, i + k - 1) - DepthAt(x, i - 1) = DepthAt(s, k) - 0
  BY <1>4, <1>5, DepthStarts
<1>7. DepthAt(s, k) \in Int
  BY <1>1, DepthType
<1> QED BY <1>6, <1>7 DEF s

\* A subtree fits the text it was cut out of.
LEMMA SubtreePiece ==
  ASSUME NEW x, NEW n, Sound(x, n), NEW i \in 2..Len(x), NEW e, Subtext(x, i, e)
  PROVE  Piece(SubSeq(x, i, e), Splice(x, i, e, <<>>), n)
<1> DEFINE s == SubSeq(x, i, e)
           y == Splice(x, i, e, <<>>)
           m == e - i + 1
<1>1. /\ Xml(x) /\ Len(x) \in Nat /\ i \in Int /\ e \in Int /\ 1 <= i /\ 2 <= i /\ i <= e
      /\ i <= e + 1 /\ e <= Len(x) /\ i <= Len(x) /\ m \in Nat
  BY SoundIs DEF Subtext
<1>2. /\ DOMAIN x = 1..Len(x) /\ NamesWithin(x, n)
      /\ \A k \in 1..Len(x) : x[k].kind # "broken"
      /\ \A k, l \in Named(x) : x[k].id = x[l].id => k = l
  BY SoundIs
<1>3. /\ Xml(s) /\ Len(s) = m
      /\ \A k \in 1..m : s[k] = x[i + k - 1]
  BY <1>1, XmlSubSeq
<1>4. /\ Xml(y) /\ Len(y) = Len(x) - m
      /\ \A k \in 1..Len(x) - m : y[k] = IF k < i THEN x[k] ELSE x[k + m]
  BY <1>1, CutAt
<1>5. DOMAIN s = 1..m /\ DOMAIN y = 1..Len(y)
  BY <1>3, <1>4, XmlShape
<1>6. m = e - i + 1
  OBVIOUS
<1> HIDE DEF s, y, m
<1>7. ASSUME NEW k \in Named(s)
      PROVE  i + k - 1 \in Named(x) /\ s[k] = x[i + k - 1] /\ k \in 1..m
  <2>1. k \in 1..m /\ s[k].kind \in {"open", "self"}
    BY <1>5 DEF Named
  <2>2. i + k - 1 \in 1..Len(x)
    BY <1>1, <1>6, <2>1, SMTT(30)
  <2> QED BY <1>2, <1>3, <2>1, <2>2 DEF Named
<1>8. ASSUME NEW k \in Named(y)
      PROVE  \E l \in Named(x) : l \notin i..e /\ y[k] = x[l]
  <2>1. k \in 1..Len(y) /\ y[k].kind \in {"open", "self"}
    BY <1>5 DEF Named
  <2>2. CASE k < i
    <3>1. k \in 1..Len(x) /\ k \notin i..e /\ y[k] = x[k]
      BY <1>1, <1>4, <2>1, <2>2, SMTT(30)
    <3> QED BY <1>2, <2>1, <3>1 DEF Named
  <2>3. CASE ~(k < i)
    <3>1. k + m \in 1..Len(x) /\ k + m \notin i..e
      BY <1>1, <1>4, <1>6, <2>1, <2>3
    <3>2. y[k] = x[k + m]
      BY <1>4, <2>1, <2>3, <3>1
    <3> QED BY <1>2, <2>1, <3>1, <3>2 DEF Named
  <2> QED BY <2>2, <2>3
<1>9. Fresh(s, y)
  <2>1. ASSUME NEW k \in 1..Len(s) PROVE s[k].kind # "broken"
    <3>1. i + k - 1 \in 1..Len(x) /\ k \in 1..m
      BY <1>1, <1>3, <1>6
    <3> QED BY <1>2, <1>3, <3>1
  <2>2. ASSUME NEW k \in Named(s), NEW l \in Named(s), s[k].id = s[l].id PROVE k = l
    <3>1. i + k - 1 = i + l - 1
      BY <1>2, <1>7, <2>2
    <3> QED BY <1>1, <1>7, <3>1
  <2>3. ASSUME NEW k \in Named(s), NEW l \in Named(y), s[k].id = y[l].id PROVE FALSE
    <3>1. PICK p \in Named(x) : p \notin i..e /\ y[l] = x[p]
      BY <1>8
    <3>2. i + k - 1 \in Named(x) /\ s[k] = x[i + k - 1] /\ k \in 1..m
      BY <1>7
    <3>3. p = i + k - 1
      BY <1>2, <2>3, <3>1, <3>2
    <3> QED BY <1>1, <1>6, <3>1, <3>2, <3>3
  <2> QED BY <2>1, <2>2, <2>3 DEF Fresh, Fits
<1>10. NamesWithin(s, n)
  BY <1>2, <1>7 DEF NamesWithin
<1>11. \A k \in 1..m : DepthAt(s, k) = DepthAt(x, i + k - 1) - DepthAt(x, i - 1)
  <2>1. ASSUME NEW k \in 1..m
        PROVE  DepthAt(s, k) = DepthAt(x, i + k - 1) - DepthAt(x, i - 1)
    <3>1. k \in 0..e - i + 1 /\ i \in 1..Len(x)
      BY <1>1, <1>6
    <3> QED BY <1>1, <3>1, SubtextDepth DEF s
  <2> QED BY <2>1
<1>12. Balanced(s)
  <2>1. m \in 1..m /\ i + m - 1 = e
    BY <1>1, <1>6
  <2>2. DepthAt(s, m) = 0
    <3>1. /\ DepthAt(s, m) = DepthAt(x, e) - DepthAt(x, i - 1)
          /\ DepthAt(x, e) = DepthAt(x, i - 1)
      BY <1>11, <2>1 DEF Subtext
    <3>2. DepthAt(x, i - 1) \in Int
      BY <1>1, DepthType
    <3> QED BY <3>1, <3>2
  <2>3. ASSUME NEW k \in 1..m PROVE DepthAt(s, k) >= 0
    <3>1. CASE k = m
      BY <2>2, <3>1
    <3>2. CASE k # m
      <4>1. i + k - 1 \in i..e - 1 /\ i + k - 1 \in Int /\ i - 1 \in Int
        BY <1>1, <1>6, <3>2
      <4>2. DepthAt(x, i + k - 1) > DepthAt(x, i - 1)
        BY <4>1 DEF Subtext
      <4>3. DepthAt(x, i + k - 1) \in Int /\ DepthAt(x, i - 1) \in Int
        BY <4>1, DepthType
      <4> QED BY <1>11, <4>2, <4>3
    <3> QED BY <3>1, <3>2
  <2> QED BY <1>3, <2>2, <2>3 DEF Balanced
<1> QED BY <1>3, <1>9, <1>10, <1>12 DEF Piece, s, y

\* applyXmlEdits(): the later edit is applied first; the text is the same as if the
\* earlier one had been, and the place of the later moved up.
LEMMA LaterFirst ==
  ASSUME NEW x, Xml(x), NEW s, Xml(s),
         NEW i \in Int, NEW e \in Int, NEW a \in Int, NEW b \in Int,
         1 <= i, i <= e, e < a, a <= b + 1, b <= Len(x)
  PROVE  Splice(Splice(x, a, b, s), i, e, <<>>) =
           Splice(Splice(x, i, e, <<>>), a - (e - i + 1), b - (e - i + 1), s)
<1> DEFINE m == e - i + 1
           later == Splice(x, a, b, s)
           cut == Splice(x, i, e, <<>>)
           y == Splice(later, i, e, <<>>)
           z == Splice(cut, a - m, b - m, s)
<1>1. Len(x) \in Nat /\ Len(s) \in Nat /\ m \in Nat /\ m = e - i + 1
  BY XmlShape
<1>3. /\ Xml(later) /\ Len(later) = Len(x) - (b - a + 1) + Len(s)
      /\ \A k \in 1..Len(later) : later[k] = IF k < a THEN x[k]
                                            ELSE IF k < a + Len(s) THEN s[k - a + 1]
                                            ELSE x[k - Len(s) + (b - a + 1)]
  <2>1. 1 <= a
    OBVIOUS
  <2> QED BY <2>1, SpliceAt
<1>4. /\ Xml(cut) /\ Len(cut) = Len(x) - m
      /\ \A k \in 1..Len(x) - m : cut[k] = IF k < i THEN x[k] ELSE x[k + m]
  <2>1. 1 <= i /\ e <= Len(x)
    BY <1>1
  <2> QED BY <2>1, CutAt
<1> HIDE DEF later, cut, m
<1>5. /\ Xml(y) /\ Len(y) = Len(later) - m
      /\ \A k \in 1..Len(later) - m : y[k] = IF k < i THEN later[k] ELSE later[k + m]
  <2>1. Xml(later) /\ e <= Len(later)
    BY <1>1, <1>3
  <2>2. /\ Xml(y) /\ Len(y) = Len(later) - (e - i + 1)
        /\ \A k \in 1..Len(later) - (e - i + 1) :
             y[k] = IF k < i THEN later[k] ELSE later[k + (e - i + 1)]
    BY <2>1, CutAt
  <2> QED BY <2>2 DEF m
<1>6. /\ Xml(z) /\ Len(z) = Len(cut) - ((b - m) - (a - m) + 1) + Len(s)
      /\ \A k \in 1..Len(z) :
           z[k] = IF k < a - m THEN cut[k]
                  ELSE IF k < (a - m) + Len(s) THEN s[k - (a - m) + 1]
                  ELSE cut[k - Len(s) + ((b - m) - (a - m) + 1)]
  <2> DEFINE p == a - m
             q == b - m
  <2>1. p \in Int /\ q \in Int /\ 1 <= p /\ p <= q + 1 /\ q <= Len(cut)
    BY <1>1, <1>4
  <2> HIDE DEF p, q
  <2>2. /\ Xml(Splice(cut, p, q, s))
        /\ Len(Splice(cut, p, q, s)) = Len(cut) - (q - p + 1) + Len(s)
        /\ \A k \in 1..Len(Splice(cut, p, q, s)) :
             Splice(cut, p, q, s)[k] = IF k < p THEN cut[k]
                                       ELSE IF k < p + Len(s) THEN s[k - p + 1]
                                       ELSE cut[k - Len(s) + (q - p + 1)]
    BY <1>4, <2>1, SpliceAt, SMTT(30)
  <2> QED BY <2>2 DEF p, q
<1> HIDE DEF y, z
<1>7. Len(y) = Len(z) /\ Len(y) = Len(x) - m - (b - a + 1) + Len(s)
  BY <1>1, <1>3, <1>4, <1>5, <1>6
<1>8. ASSUME NEW k \in 1..Len(y) PROVE y[k] = z[k]
  <2>1. k \in Int /\ 1 <= k /\ k <= Len(x) - m - (b - a + 1) + Len(s) /\ k \in 1..Len(z)
    BY <1>1, <1>7
  <2>2. CASE k < i
    <3>1. k < a - m /\ k < a /\ k \in 1..Len(later) /\ k \in 1..Len(x) - m
      BY <1>1, <1>3, <2>1, <2>2
    <3>2. k \in 1..Len(later) - m
      BY <1>5
    <3> QED BY <1>3, <1>4, <1>5, <1>6, <2>1, <2>2, <3>1, <3>2
  <2>3. CASE ~(k < i) /\ k < a - m
    <3>1. k + m < a /\ k + m \in 1..Len(later) /\ k \in 1..Len(x) - m
      BY <1>1, <1>3, <2>1, <2>3
    <3>2. y[k] = x[k + m]
      BY <1>3, <1>5, <2>3, <3>1
    <3>3. z[k] = x[k + m]
      BY <1>4, <1>6, <2>1, <2>3, <3>1
    <3> QED BY <3>2, <3>3
  <2>4. CASE ~(k < a - m) /\ k < (a - m) + Len(s)
    <3>1. /\ ~(k < i) /\ ~(k + m < a)
          /\ k + m < a + Len(s) /\ k + m \in 1..Len(later)
          /\ (k + m) - a + 1 = k - (a - m) + 1
      BY <1>1, <1>3, <2>1, <2>4
    <3>2. y[k] = s[k - (a - m) + 1]
      BY <1>3, <1>5, <3>1
    <3>3. z[k] = s[k - (a - m) + 1]
      BY <1>6, <2>1, <2>4
    <3> QED BY <3>2, <3>3
  <2>5. CASE ~(k < a - m) /\ ~(k < (a - m) + Len(s))
    <3> DEFINE l == k - Len(s) + (b - a + 1)
    <3>1. /\ ~(k < i) /\ ~(k + m < a)
          /\ ~(k + m < a + Len(s)) /\ k + m \in 1..Len(later)
          /\ (k + m) - Len(s) + (b - a + 1) = l + m
      BY <1>1, <1>3, <2>1, <2>5
    <3>2. k - Len(s) + ((b - m) - (a - m) + 1) = l /\ l \in 1..Len(x) - m /\ ~(l < i)
      BY <1>1, <2>1, <2>5
    <3> HIDE DEF l
    <3>3. y[k] = x[l + m]
      BY <1>3, <1>5, <3>1
    <3>4. z[k] = x[l + m]
      BY <1>4, <1>6, <2>1, <2>5, <3>2
    <3> QED BY <3>3, <3>4
  <2> QED BY <2>2, <2>3, <2>4, <2>5
<1>9. y = z
  BY <1>5, <1>6, <1>7, <1>8, XmlEqual
<1> QED BY <1>9 DEF y, z, later, cut, m

----------------------------------------------------------------------------
(* The edits *)

\* y has the tags of x with other values.
Revalued(x, y) ==
  /\ Xml(y) /\ Len(y) = Len(x)
  /\ \A k \in 1..Len(x) : y[k].kind = x[k].kind /\ y[k].id = x[k].id

\* updateMindmapNodeText() changes a tag in its place.
LEMMA RetextAt ==
  ASSUME NEW x, Xml(x), NEW i \in 1..Len(x), NEW v
  PROVE  Revalued(x, [x EXCEPT ![i].value = v])
<1> DEFINE t == [x[i] EXCEPT !.value = v]
           S == ToSet(x) \union {t}
           y == [x EXCEPT ![i] = t]
<1>1. Len(x) \in Nat /\ DOMAIN x = 1..Len(x)
  BY XmlShape
<1>2. IsTag(t) /\ t.kind = x[i].kind /\ t.id = x[i].id
  <2>1. IsTag(x[i])
    BY DEF Xml
  <2> QED BY <2>1 DEF IsTag, Begun, Tag
<1>3. y \in Seq(S) /\ Len(y) = Len(x) /\ \A k \in 1..Len(x) : y[k] = IF k = i THEN t ELSE x[k]
  <2>1. ToSet(x) \subseteq S /\ t \in S /\ x \in Seq(ToSet(x))
    BY DEF Xml
  <2> HIDE DEF S, t
  <2>2. x \in Seq(S)
    BY <2>1, SeqMonotonic
  <2> QED BY <2>1, <2>2, ExceptSeq
<1> HIDE DEF t, S, y
<1>4. Xml(y)
  <2>1. \A k \in 1..Len(y) : IsTag(y[k])
    BY <1>1, <1>2, <1>3 DEF Xml
  <2> QED BY <1>3, <2>1, XmlIs
<1>5. DOMAIN y = 1..Len(x) /\ \A k \in 1..Len(x) : y[k].kind = x[k].kind /\ y[k].id = x[k].id
  BY <1>2, <1>3, <1>4, XmlShape
<1> QED BY <1>3, <1>4, <1>5 DEF Revalued, y, t

LEMMA RevaluedDepth ==
  ASSUME NEW x, Xml(x), NEW y, Revalued(x, y), NEW k \in 0..Len(x)
  PROVE  DepthAt(y, k) = DepthAt(x, k)
<1>1. Len(x) \in Nat /\ k \in Int
  BY XmlShape
<1>2. Alike(x, y, 1, k, 0)
  <2>1. ASSUME NEW l \in 1..k PROVE y[l + 0].kind = x[l].kind
    <3>1. l + 0 = l /\ l \in 1..Len(x)
      BY <1>1
    <3> QED BY <3>1 DEF Revalued
  <2> QED BY <2>1 DEF Alike
<1>3. DepthAt(y, k + 0) - DepthAt(y, 1 + 0 - 1) = DepthAt(x, k) - DepthAt(x, 1 - 1)
  BY <1>1, <1>2, DepthShifted
<1>4. k + 0 = k /\ 1 + 0 - 1 = 0 /\ 1 - 1 = 0
  BY <1>1
<1>5. DepthAt(y, k) - 0 = DepthAt(x, k) - 0
  BY <1>3, <1>4, DepthStarts
<1>6. DepthAt(y, k) \in Int /\ DepthAt(x, k) \in Int
  BY <1>1, DepthType
<1> QED BY <1>5, <1>6

LEMMA RevaluedSound ==
  ASSUME NEW x, NEW n, Sound(x, n), NEW y, Revalued(x, y)
  PROVE  Sound(y, n)
<1>1. /\ Xml(x) /\ Len(x) \in Nat /\ 1 <= Len(x) /\ DOMAIN x = 1..Len(x)
      /\ NamesWithin(x, n) /\ 1 \in Named(x) /\ DepthAt(x, Len(x)) = 0
      /\ \A k \in 1..Len(x) : x[k].kind # "broken"
      /\ \A k, l \in Named(x) : x[k].id = x[l].id => k = l
      /\ \A k \in 1..Len(x) - 1 : DepthAt(x, k) > 0
  BY SoundIs
<1>2. /\ Xml(y) /\ Len(y) = Len(x)
      /\ \A k \in 1..Len(x) : y[k].kind = x[k].kind /\ y[k].id = x[k].id
  BY DEF Revalued
<1>3. DOMAIN y = 1..Len(x)
  BY <1>2, XmlShape
<1>4. Named(y) = Named(x)
  BY <1>1, <1>2, <1>3 DEF Named
<1>5. \A k \in 0..Len(x) : DepthAt(y, k) = DepthAt(x, k)
  BY <1>1, RevaluedDepth
<1>6. \A k \in Named(x) : k \in 1..Len(x)
  BY <1>1 DEF Named
<1>7. WellFormed(y)
  <2>1. \A k \in 1..Len(y) : y[k].kind # "broken"
    BY <1>1, <1>2
  <2>2. \A k, l \in Named(y) : y[k].id = y[l].id => k = l
    BY <1>1, <1>2, <1>4, <1>6
  <2>3. 1 \in Named(y)
    BY <1>1, <1>4
  <2>4. Len(y) \in 0..Len(x)
    BY <1>1, <1>2
  <2>5. DepthAt(y, Len(y)) = 0
    BY <1>1, <1>2, <1>5, <2>4
  <2>6. ASSUME NEW k \in 1..Len(y) - 1 PROVE DepthAt(y, k) > 0
    <3>1. k \in 0..Len(x) /\ k \in 1..Len(x) - 1
      BY <1>1, <1>2
    <3> QED BY <1>1, <1>5, <3>1
  <2> QED BY <1>2, <2>1, <2>2, <2>3, <2>5, <2>6, WellFormedIs
<1>8. NamesWithin(y, n)
  BY <1>1, <1>2, <1>4, <1>6 DEF NamesWithin
<1> QED BY <1>2, <1>7, <1>8 DEF Sound

LEMMA RetextSound ==
  ASSUME NEW x, NEW n, Sound(x, n), NEW i \in 1..Len(x), NEW v
  PROVE  Sound([x EXCEPT ![i].value = v], n)
BY SoundIs, RetextAt, RevaluedSound

\* At the end of a node, whether it is self-closing or not.
LEMMA InsertLastSound ==
  ASSUME NEW x, NEW n, Sound(x, n), NEW s, Piece(s, x, n), NEW i \in 1..Len(x)
  PROVE  Sound(InsertLast(x, i, s), n)
<1>1. CASE x[i].kind = "self"
  BY <1>1, ExpandedSound DEF InsertLast
<1>2. CASE x[i].kind # "self" /\ MatchingClose(x, i) = 0
  BY <1>2 DEF InsertLast
<1>3. CASE x[i].kind # "self" /\ MatchingClose(x, i) # 0
  <2> DEFINE c == MatchingClose(x, i)
  <2>1. c \in i + 1..Len(x) /\ Len(x) \in Nat
    BY <1>3, SoundIs, MatchingCloseIs
  <2> HIDE DEF c
  <2>2. c \in 2..Len(x)
    BY <2>1
  <2>3. Sound(Splice(x, c, c - 1, s), n)
    BY <2>2, InsertSound
  <2> QED BY <1>3, <2>3 DEF InsertLast, c
<1> QED BY <1>1, <1>2, <1>3

\* Behind the tag that opens an element comes another.
LEMMA OpensInside ==
  ASSUME NEW x, NEW n, Sound(x, n), NEW i \in 1..Len(x), x[i].kind = "open"
  PROVE  i + 1 \in 2..Len(x)
<1>1. /\ Len(x) \in Nat /\ DepthAt(x, Len(x)) = 0
      /\ \A k \in 1..Len(x) - 1 : DepthAt(x, k) > 0
  BY SoundIs
<1>2. DepthAt(x, i) = DepthAt(x, i - 1) + 1 /\ DepthAt(x, i - 1) \in Int
  BY <1>1, DepthSteps
<1>3. DepthAt(x, i - 1) >= 0
  <2>1. CASE i = 1
    BY <2>1, DepthStarts
  <2>2. CASE i # 1
    <3>1. i - 1 \in 1..Len(x) - 1
      BY <1>1, <2>2
    <3> QED BY <1>1, <1>2, <3>1
  <2> QED BY <2>1, <2>2
<1>4. i # Len(x)
  BY <1>1, <1>2, <1>3
<1> QED BY <1>1, <1>4

\* Behind the opening tag of a node.
LEMMA InsertFirstSound ==
  ASSUME NEW x, NEW n, Sound(x, n), NEW s, Piece(s, x, n),
         NEW i \in 1..Len(x), x[i].kind \in {"open", "self"}
  PROVE  Sound(InsertFirst(x, i, s), n)
<1>1. CASE x[i].kind = "self"
  BY <1>1, ExpandedSound DEF InsertFirst
<1>2. CASE x[i].kind = "open"
  <2>1. i + 1 \in 2..Len(x) /\ (i + 1) - 1 = i
    BY <1>2, SoundIs, OpensInside
  <2>2. Sound(Splice(x, i + 1, (i + 1) - 1, s), n)
    BY <2>1, InsertSound
  <2> QED BY <1>2, <2>1, <2>2 DEF InsertFirst
<1> QED BY <1>1, <1>2

\* A topic under another: its place, and where its subtree ends.
LEMMA TopicIs ==
  ASSUME NEW x, NEW n, Sound(x, n), NEW id, IndexOf(x, id) # 0,
         HasParent(x, IndexOf(x, id)), EndOf(x, IndexOf(x, id)) # 0
  PROVE  LET i == IndexOf(x, id)
             e == EndOf(x, i)
         IN  /\ i \in 2..Len(x) /\ e \in i..Len(x) /\ e + 1 \in 2..Len(x)
             /\ Subtext(x, i, e)
             /\ Sound(Splice(x, i, e, <<>>), n)
<1> DEFINE i == IndexOf(x, id)
           e == EndOf(x, i)
<1>1. Xml(x) /\ Len(x) \in Nat
  BY SoundIs
<1>2. i \in 1..Len(x) /\ x[i].kind \in {"open", "self"}
  BY <1>1, IndexIs
<1>3. Subtext(x, i, e)
  BY <1>1, <1>2, EndIs
<1>4. i >= 2
  <2> HIDE DEF e
  <2>1. HasParent(x, i)
    OBVIOUS
  <2> HIDE DEF i
  <2>2. i \in Nat \ {0}
    BY <1>1, <1>2
  <2> QED BY <2>1, <2>2, ParentIs
<1> HIDE DEF i, e
<1>5. i \in 2..Len(x) /\ e \in i..Len(x) /\ DepthAt(x, e) = DepthAt(x, i - 1)
  BY <1>1, <1>2, <1>3, <1>4 DEF Subtext
<1>6. e < Len(x) /\ Sound(Splice(x, i, e, <<>>), n)
  BY <1>5, CutSound
<1>7. e + 1 \in 2..Len(x)
  BY <1>1, <1>5, <1>6
<1> QED BY <1>3, <1>5, <1>6, <1>7 DEF i, e

LEMMA ChildSound ==
  ASSUME NEW x, NEW n \in Nat, Sound(x, n), NEW parent
  PROVE  Sound(appendMindmapChild(x, parent, n), n + 1)
<1> DEFINE i == IndexOf(x, parent)
<1>1. Sound(x, n + 1) /\ Xml(x) /\ Piece(<<Self(n, 0)>>, x, n + 1)
  BY SoundMore, SoundIs, TopicPiece
<1>2. CASE i = 0
  BY <1>1, <1>2 DEF appendMindmapChild
<1>3. CASE i # 0
  <2>1. i \in 1..Len(x)
    BY <1>1, <1>3, IndexIs
  <2> HIDE DEF i
  <2>2. Sound(InsertLast(x, i, <<Self(n, 0)>>), n + 1)
    BY <1>1, <2>1, InsertLastSound
  <2> QED BY <1>3, <2>2 DEF appendMindmapChild, i
<1> QED BY <1>2, <1>3

LEMMA SiblingSound ==
  ASSUME NEW x, NEW n \in Nat, Sound(x, n), NEW sibling, NEW place
  PROVE  Sound(appendMindmapSibling(x, sibling, place, n), n + 1)
<1> DEFINE i == IndexOf(x, sibling)
           e == EndOf(x, i)
           k == IF place = "before" THEN i ELSE e + 1
<1>1. Sound(x, n + 1) /\ Piece(<<Self(n, 0)>>, x, n + 1) /\ Len(x) \in Nat
  BY SoundMore, SoundIs, TopicPiece
<1>2. CASE i = 0 \/ ~HasParent(x, i) \/ e = 0
  BY <1>1, <1>2 DEF appendMindmapSibling
<1>3. CASE i # 0 /\ HasParent(x, i) /\ e # 0
  <2>1. i \in 2..Len(x) /\ e + 1 \in 2..Len(x)
    BY <1>1, <1>3, TopicIs
  <2>2. k \in 2..Len(x)
    <3> HIDE DEF i, e
    <3> QED BY <2>1
  <2>3. Sound(Splice(x, k, k - 1, <<Self(n, 0)>>), n + 1)
    <3> HIDE DEF k
    <3> QED BY <1>1, <2>2, InsertSound
  <2>4. appendMindmapSibling(x, sibling, place, n) = Splice(x, k, k - 1, <<Self(n, 0)>>)
    BY <1>3 DEF appendMindmapSibling
  <2> QED BY <2>3, <2>4
<1> QED BY <1>2, <1>3

LEMMA RemoveSound ==
  ASSUME NEW x, NEW n, Sound(x, n), NEW id
  PROVE  Sound(removeMindmapNode(x, id), n)
<1> DEFINE i == IndexOf(x, id)
           e == EndOf(x, i)
<1>1. CASE i = 0 \/ ~HasParent(x, i) \/ e = 0
  BY <1>1 DEF removeMindmapNode
<1>2. CASE i # 0 /\ HasParent(x, i) /\ e # 0
  <2>1. Sound(Splice(x, i, e, <<>>), n)
    BY <1>2, TopicIs
  <2> QED BY <1>2, <2>1 DEF removeMindmapNode
<1> QED BY <1>1, <1>2

LEMMA TextSound ==
  ASSUME NEW x, NEW n, Sound(x, n), NEW id, NEW text
  PROVE  Sound(updateMindmapNodeText(x, id, text), n)
<1> DEFINE i == IndexOf(x, id)
<1>1. CASE i = 0
  BY <1>1 DEF updateMindmapNodeText
<1>2. CASE i # 0
  <2>1. i \in 1..Len(x)
    BY <1>2, SoundIs, IndexIs
  <2> HIDE DEF i
  <2>2. Sound([x EXCEPT ![i].value = text], n)
    BY <2>1, RetextSound
  <2> QED BY <1>2, <2>2 DEF updateMindmapNodeText, i
<1> QED BY <1>1, <1>2

LEMMA MarkSound ==
  ASSUME NEW x, NEW n, Sound(x, n), NEW id
  PROVE  Sound(addMindmapNodeIcon(x, id), n)
<1> DEFINE i == IndexOf(x, id)
<1>1. IsTag(Mark) /\ Mark.kind = "mark"
  BY DEF Mark, IsTag, Begun, Tag
<1>2. Piece(<<Mark>>, x, n)
  BY <1>1, LeafPiece
<1>3. CASE i = 0 \/ MarksOf(x, i) # {}
  BY <1>3 DEF addMindmapNodeIcon
<1>4. CASE i # 0 /\ MarksOf(x, i) = {}
  <2>1. i \in 1..Len(x) /\ x[i].kind \in {"open", "self"}
    BY <1>4, SoundIs, IndexIs
  <2> HIDE DEF i
  <2>2. Sound(InsertFirst(x, i, <<Mark>>), n)
    BY <1>2, <2>1, InsertFirstSound
  <2> QED BY <1>4, <2>2 DEF addMindmapNodeIcon, i
<1> QED BY <1>3, <1>4

\* A tag that neither opens nor closes can be taken out.
LEMMA LeafCutSound ==
  ASSUME NEW x, NEW n, Sound(x, n), NEW i \in 1..Len(x), x[i].kind \in {"mark", "arrow"}
  PROVE  Sound(Splice(x, i, i, <<>>), n)
<1>1. Len(x) \in Nat /\ 1 \in Named(x)
  BY SoundIs
<1>2. i # 1
  BY <1>1 DEF Named
<1>3. i \in 2..Len(x) /\ i \in i..Len(x)
  BY <1>1, <1>2
<1>4. DepthAt(x, i) = DepthAt(x, i - 1)
  BY <1>1, DepthSteps
<1> QED BY <1>3, <1>4, CutSound

\* The mark that is found is one.
LEMMA MarkIs ==
  ASSUME NEW x, NEW n, Sound(x, n), NEW i \in 1..Len(x), x[i].kind \in {"open", "self"},
         First(MarksOf(x, i)) # 0
  PROVE  First(MarksOf(x, i)) \in 1..Len(x) /\ x[First(MarksOf(x, i))].kind = "mark"
<1>1. Xml(x) /\ Len(x) \in Nat
  BY SoundIs
<1>2. EndOf(x, i) \in 0..Len(x)
  <2>1. CASE EndOf(x, i) = 0
    BY <1>1, <2>1
  <2>2. CASE EndOf(x, i) # 0
    BY <1>1, <2>2, EndIs DEF Subtext
  <2> QED BY <2>1, <2>2
<1>3. \A k \in MarksOf(x, i) : k \in 1..Len(x) /\ x[k].kind = "mark"
  <2>1. \A k \in 1..Len(x) : x[k].kind # "openmark"
    BY <1>1 DEF Xml, IsTag, Begun
  <2> QED BY <1>1, <1>2, <2>1 DEF MarksOf
<1>4. MarksOf(x, i) \in SUBSET (Nat \ {0})
  BY <1>1, <1>3
<1>5. First(MarksOf(x, i)) \in MarksOf(x, i)
  BY <1>4, FirstOf
<1> QED BY <1>3, <1>5

LEMMA UnmarkSound ==
  ASSUME NEW x, NEW n, Sound(x, n), NEW id
  PROVE  Sound(removeMindmapNodeIcon(x, id), n)
<1> DEFINE i == IndexOf(x, id)
           j == First(MarksOf(x, i))
<1>1. CASE i = 0 \/ j = 0
  BY <1>1 DEF removeMindmapNodeIcon
<1>2. CASE i # 0 /\ j # 0
  <2>1. i \in 1..Len(x) /\ x[i].kind \in {"open", "self"}
    BY <1>2, SoundIs, IndexIs
  <2> HIDE DEF i
  <2>2. j \in 1..Len(x) /\ x[j].kind = "mark"
    BY <1>2, <2>1, MarkIs
  <2> HIDE DEF j
  <2>3. Sound(Splice(x, j, j, <<>>), n)
    BY <2>2, LeafCutSound
  <2> QED BY <1>2, <2>3 DEF removeMindmapNodeIcon, i, j
<1> QED BY <1>1, <1>2

LEMMA ArrowSound ==
  ASSUME NEW x, NEW n, Sound(x, n), NEW source, NEW id, NEW to
  PROVE  Sound(appendMindmapArrowlink(x, source, id, to), n)
<1> DEFINE i == IndexOf(x, source)
           t == Tag("arrow", id, to)
<1>1. IsTag(t) /\ t.kind = "arrow"
  BY DEF IsTag, Begun, Tag
<1> HIDE DEF t
<1>2. Piece(<<t>>, x, n)
  BY <1>1, LeafPiece
<1>3. CASE i = 0
  BY <1>3 DEF appendMindmapArrowlink
<1>4. CASE i # 0
  <2>1. i \in 1..Len(x) /\ x[i].kind \in {"open", "self"}
    BY <1>4, SoundIs, IndexIs
  <2> HIDE DEF i
  <2>2. Sound(InsertFirst(x, i, <<t>>), n) /\ Sound(InsertLast(x, i, <<t>>), n)
    BY <1>2, <2>1, InsertFirstSound, InsertLastSound
  <2> QED BY <1>4, <2>2 DEF appendMindmapArrowlink, i, t
<1> QED BY <1>3, <1>4

LEMMA RetargetSound ==
  ASSUME NEW x, NEW n, Sound(x, n), NEW id, NEW to
  PROVE  Sound(updateMindmapArrowlink(x, id, to), n)
<1> DEFINE i == ArrowIndex(x, id)
<1>1. CASE i = 0
  BY <1>1 DEF updateMindmapArrowlink
<1>2. CASE i # 0
  <2>1. i \in 1..Len(x)
    BY <1>2, SoundIs, ArrowIs
  <2>2. Sound([x EXCEPT ![i].value = to], n)
    <3> HIDE DEF i
    <3> QED BY <2>1, RetextSound
  <2> QED BY <1>2, <2>2, SoundIs, RetargetIs
<1> QED BY <1>1, <1>2

LEMMA UnarrowSound ==
  ASSUME NEW x, NEW n, Sound(x, n), NEW id
  PROVE  Sound(removeMindmapArrowlink(x, id), n)
<1> DEFINE i == ArrowIndex(x, id)
<1>1. CASE i = 0
  BY <1>1 DEF removeMindmapArrowlink
<1>2. CASE i # 0
  <2>1. i \in 1..Len(x) /\ x[i].kind = "arrow"
    BY <1>2, SoundIs, ArrowIs
  <2> HIDE DEF i
  <2>2. Sound(Splice(x, i, i, <<>>), n)
    BY <2>1, LeafCutSound
  <2> QED BY <1>2, <2>2 DEF removeMindmapArrowlink, i
<1> QED BY <1>1, <1>2

----------------------------------------------------------------------------
(* Moving a subtree *)

\* A text without one of its subtrees.
LEMMA CutLength ==
  ASSUME NEW x, NEW n, Sound(x, n), NEW i \in 2..Len(x), NEW e, Subtext(x, i, e)
  PROVE  LET y == Splice(x, i, e, <<>>) IN
         /\ Sound(y, n) /\ Len(y) = Len(x) - (e - i + 1) /\ i <= Len(y)
         /\ \A k \in 1..Len(y) : y[k] = IF k < i THEN x[k] ELSE x[k + (e - i + 1)]
<1> DEFINE y == Splice(x, i, e, <<>>)
<1>1. Xml(x) /\ Len(x) \in Nat /\ e \in i..Len(x) /\ DepthAt(x, e) = DepthAt(x, i - 1)
  BY SoundIs DEF Subtext
<1>2. Sound(y, n) /\ e < Len(x)
  BY <1>1, CutSound
<1>3. i \in Int /\ e \in Int /\ 1 <= i /\ i <= e /\ e <= Len(x)
  BY <1>1
<1>4. /\ Len(y) = Len(x) - (e - i + 1)
      /\ \A k \in 1..Len(x) - (e - i + 1) : y[k] = IF k < i THEN x[k] ELSE x[k + (e - i + 1)]
  BY <1>1, <1>3, CutAt
<1> HIDE DEF y
<1>5. i <= Len(y)
  BY <1>1, <1>2, <1>3, <1>4
<1> QED BY <1>2, <1>4, <1>5 DEF y

\* A subtree that goes between two tags outside of it: cut out, then inserted into
\* what is left, at the place as it is there.
LEMMA CutAndPasteIs ==
  ASSUME NEW x, NEW n, Sound(x, n), NEW i \in 2..Len(x), NEW e, Subtext(x, i, e),
         NEW k \in 2..Len(x), k \notin i + 1..e
  PROVE  LET y == Splice(x, i, e, <<>>)
             a == IF k > i THEN k - (e - i + 1) ELSE k
         IN  /\ a \in 2..Len(y)
             /\ CutAndPaste(x, i, e, k, SubSeq(x, i, e)) = Splice(y, a, a - 1, SubSeq(x, i, e))
<1> DEFINE s == SubSeq(x, i, e)
           y == Splice(x, i, e, <<>>)
           m == e - i + 1
<1>1. /\ Xml(x) /\ Len(x) \in Nat /\ e \in i..Len(x) /\ i \in Int /\ e \in Int /\ k \in Int
      /\ m \in Int /\ m = e - i + 1
  BY SoundIs DEF Subtext
<1>2. Len(y) = Len(x) - m /\ i <= Len(y)
  BY CutLength
<1>3. Xml(s)
  BY SubtreePiece DEF Piece
<1> HIDE DEF s, y, m
<1>4. CASE k > i
  <2>1. e < k /\ k - m \in 2..Len(y) /\ (k - m) - 1 = (k - 1) - m
    BY <1>1, <1>2, <1>4
  <2>2. Splice(Splice(x, k, k - 1, s), i, e, <<>>) = Splice(y, k - m, (k - 1) - m, s)
    <3>1. k - 1 \in Int /\ 1 <= i /\ i <= e /\ k <= (k - 1) + 1 /\ k - 1 <= Len(x)
      BY <1>1
    <3> QED BY <1>1, <1>3, <2>1, <3>1, LaterFirst DEF y, m
  <2> QED BY <1>1, <1>4, <2>1, <2>2 DEF CutAndPaste, s, y
<1>5. CASE ~(k > i)
  <2>1. k \in 2..Len(y)
    BY <1>1, <1>2, <1>5
  <2> QED BY <1>5, <2>1 DEF CutAndPaste, s, y
<1> QED BY <1>4, <1>5

LEMMA CutAndPasteSound ==
  ASSUME NEW x, NEW n, Sound(x, n), NEW i \in 2..Len(x), NEW e, Subtext(x, i, e),
         NEW k \in 2..Len(x), k \notin i + 1..e
  PROVE  Sound(CutAndPaste(x, i, e, k, SubSeq(x, i, e)), n)
<1> DEFINE s == SubSeq(x, i, e)
           y == Splice(x, i, e, <<>>)
           a == IF k > i THEN k - (e - i + 1) ELSE k
<1>1. Sound(y, n)
  BY CutLength
<1>2. Piece(s, y, n)
  BY SubtreePiece
<1>3. a \in 2..Len(y) /\ CutAndPaste(x, i, e, k, s) = Splice(y, a, a - 1, s)
  BY CutAndPasteIs
<1> HIDE DEF s, y, a
<1>4. Sound(Splice(y, a, a - 1, s), n)
  BY <1>1, <1>2, <1>3, InsertSound
<1> QED BY <1>3, <1>4 DEF s

\* Into a node that is still self-closing, which is before or after the subtree.
MoveInto(x, i, e, t, s) ==
  IF t > i THEN Splice(Expanded(x, t, s), i, e, <<>>)
  ELSE Expanded(Splice(x, i, e, <<>>), t, s)

LEMMA MoveIntoIs ==
  ASSUME NEW x, NEW n, Sound(x, n), NEW i \in 2..Len(x), NEW e, Subtext(x, i, e),
         NEW t \in 1..Len(x), t \notin i..e
  PROVE  LET y == Splice(x, i, e, <<>>)
             a == IF t > i THEN t - (e - i + 1) ELSE t
         IN  /\ a \in 1..Len(y) /\ y[a] = x[t]
             /\ MoveInto(x, i, e, t, SubSeq(x, i, e)) = Expanded(y, a, SubSeq(x, i, e))
<1> DEFINE s == SubSeq(x, i, e)
           y == Splice(x, i, e, <<>>)
           m == e - i + 1
<1>1. /\ Xml(x) /\ Len(x) \in Nat /\ e \in i..Len(x) /\ i \in Int /\ e \in Int /\ t \in Int
      /\ m \in Int /\ m = e - i + 1
  BY SoundIs DEF Subtext
<1>2. /\ Len(y) = Len(x) - m /\ i <= Len(y)
      /\ \A k \in 1..Len(y) : y[k] = IF k < i THEN x[k] ELSE x[k + m]
  BY CutLength
<1>3. Xml(s)
  BY SubtreePiece DEF Piece
<1> HIDE DEF s, y, m
<1>4. CASE t > i
  <2> DEFINE o == [x[t] EXCEPT !.kind = "open"]
             w == Wrapped(o, s, Close)
             a == t - m
  <2>1. e < t /\ a \in 1..Len(y) /\ ~(a < i) /\ a + m = t
    BY <1>1, <1>2, <1>4
  <2>2. y[a] = x[t]
    <3> HIDE DEF a
    <3> QED BY <1>2, <2>1
  <2>3. Xml(w)
    <3>1. IsTag(x[t])
      BY <1>1 DEF Xml
    <3>2. IsTag(o)
      BY <3>1 DEF IsTag, Begun, Tag
    <3>3. IsTag(Close)
      BY DEF IsTag, Begun, Close, Tag
    <3> HIDE DEF o
    <3> QED BY <1>3, <3>2, <3>3, WrappedAt
  <2>4. Splice(Splice(x, t, t, w), i, e, <<>>) = Splice(y, a, a, w)
    <3> HIDE DEF w
    <3>1. 1 <= i /\ i <= e /\ t <= t + 1 /\ t <= Len(x)
      BY <1>1
    <3> QED BY <1>1, <2>1, <2>3, <3>1, LaterFirst DEF y, m
  <2>5. Expanded(y, a, s) = Splice(y, a, a, w)
    <3> HIDE DEF a
    <3> QED BY <2>2 DEF Expanded, Wrapped
  <2>6. Expanded(x, t, s) = Splice(x, t, t, w)
    BY DEF Expanded, Wrapped
  <2> HIDE DEF w, o
  <2> QED BY <1>4, <2>1, <2>2, <2>4, <2>5, <2>6 DEF MoveInto, s, y, m
<1>5. CASE ~(t > i)
  <2>1. t < i /\ t \in 1..Len(y)
    BY <1>1, <1>2, <1>5
  <2>2. y[t] = x[t]
    BY <1>2, <2>1
  <2> QED BY <1>5, <2>1, <2>2 DEF MoveInto, s, y
<1> QED BY <1>4, <1>5

LEMMA MoveIntoSound ==
  ASSUME NEW x, NEW n, Sound(x, n), NEW i \in 2..Len(x), NEW e, Subtext(x, i, e),
         NEW t \in 1..Len(x), t \notin i..e, x[t].kind = "self"
  PROVE  Sound(MoveInto(x, i, e, t, SubSeq(x, i, e)), n)
<1> DEFINE s == SubSeq(x, i, e)
           y == Splice(x, i, e, <<>>)
           a == IF t > i THEN t - (e - i + 1) ELSE t
<1>1. Sound(y, n)
  BY CutLength
<1>2. Piece(s, y, n)
  BY SubtreePiece
<1>3. a \in 1..Len(y) /\ y[a] = x[t] /\ MoveInto(x, i, e, t, s) = Expanded(y, a, s)
  BY MoveIntoIs
<1> HIDE DEF s, y, a
<1>4. Sound(Expanded(y, a, s), n)
  BY <1>1, <1>2, <1>3, ExpandedSound
<1> QED BY <1>3, <1>4 DEF s

\* The end of another subtree is not in this one, unless it is all in it.
LEMMA EndsOutside ==
  ASSUME NEW x, NEW n, Sound(x, n), NEW i \in 2..Len(x), x[i].kind \in {"open", "self"},
         NEW e, Subtext(x, i, e),
         NEW t \in 1..Len(x), t \notin i..e, x[t].kind = "open", MatchingClose(x, t) # 0
  PROVE  MatchingClose(x, t) \notin i..e /\ MatchingClose(x, t) \in t + 1..Len(x)
<1> DEFINE c == MatchingClose(x, t)
<1>1. Xml(x) /\ Len(x) \in Nat /\ e \in i..Len(x)
  BY SoundIs DEF Subtext
<1>2. /\ c \in t + 1..Len(x) /\ x[c].kind = "close" /\ DepthAt(x, c - 1) = DepthAt(x, t)
      /\ \A k \in t..c - 1 : DepthAt(x, k) >= DepthAt(x, t)
  BY <1>1, MatchingCloseIs
<1> HIDE DEF c
<1>3. ASSUME c \in i..e PROVE FALSE
  <2>1. i \in t + 1..c
    BY <1>1, <1>2, <1>3
  <2>2. e < c
    BY <1>1, <1>2, <2>1, EndsInside
  <2> QED BY <1>1, <1>3, <2>2
<1> QED BY <1>2, <1>3 DEF c

\* moveMindmapNode(): in, before or after another topic. A topic that is not there, or
\* is moved into itself, is left where it is.
LEMMA MoveSound ==
  ASSUME NEW x, NEW n, Sound(x, n), NEW id, NEW parent, NEW target, NEW place
  PROVE  Sound(moveMindmapNode(x, id, parent, target, place), n)
<1> DEFINE i == IndexOf(x, id)
           t == IndexOf(x, target)
           e == EndOf(x, i)
           s == SubSeq(x, i, e)
           y == moveMindmapNode(x, id, parent, target, place)
<1>1. CASE i = 0 \/ t = 0 \/ ~HasParent(x, i) \/ e = 0 \/ t \in i..e
  <2>1. y = x
    BY <1>1 DEF moveMindmapNode
  <2> QED BY <2>1
<1>2. CASE i # 0 /\ t # 0 /\ HasParent(x, i) /\ e # 0 /\ t \notin i..e
  <2>1. i \in 2..Len(x) /\ Subtext(x, i, e)
    BY <1>2, TopicIs
  <2>2. /\ Xml(x) /\ Len(x) \in Nat
        /\ x[i].kind \in {"open", "self"}
        /\ t \in 1..Len(x) /\ x[t].kind \in {"open", "self"}
    BY <1>2, SoundIs, IndexIs
  <2>3. CASE place = "inside" /\ x[t].kind = "self"
    <3>1. y = MoveInto(x, i, e, t, s)
      BY <1>2, <2>3 DEF moveMindmapNode, MoveInto
    <3> HIDE DEF i, e, t, y
    <3>2. t \notin i..e
      BY <1>2
    <3>3. Sound(MoveInto(x, i, e, t, s), n)
      BY <2>1, <2>2, <2>3, <3>2, MoveIntoSound
    <3> HIDE DEF s
    <3>4. Sound(y, n)
      BY <3>1, <3>3
    <3> QED BY <3>4 DEF y
  <2>4. CASE place = "inside" /\ x[t].kind # "self"
    <3> DEFINE c == MatchingClose(x, t)
    <3>1. y = IF c = 0 THEN x ELSE CutAndPaste(x, i, e, c, s)
      BY <1>2, <2>4 DEF moveMindmapNode
    <3> HIDE DEF i, e, t, y
    <3>2. ASSUME c # 0 PROVE Sound(CutAndPaste(x, i, e, c, s), n)
      <4>1. c \notin i..e /\ c \in t + 1..Len(x)
        BY <1>2, <2>1, <2>2, <2>4, <3>2, EndsOutside
      <4> HIDE DEF c
      <4>2. c \in 2..Len(x) /\ c \notin i + 1..e
        BY <2>1, <2>2, <4>1
      <4> QED BY <2>1, <4>2, CutAndPasteSound
    <3> HIDE DEF c, s
    <3>3. Sound(y, n)
      <4>1. c = 0 => y = x
        BY <3>1
      <4>2. c # 0 => y = CutAndPaste(x, i, e, c, s)
        BY <3>1
      <4> QED BY <3>2, <4>1, <4>2
    <3> QED BY <3>3 DEF y
  <2>5. CASE place # "inside"
    <3> DEFINE f == EndOf(x, t)
               k == IF place = "before" THEN t ELSE f + 1
    <3>1. CASE ~HasParent(x, t) \/ f = 0 \/ Enclosing(x, t) # parent
      <4>1. y = x
        BY <1>2, <2>5, <3>1 DEF moveMindmapNode
      <4> QED BY <4>1
    <3>2. CASE HasParent(x, t) /\ f # 0 /\ Enclosing(x, t) = parent
      <4>1. y = CutAndPaste(x, i, e, k, s)
        BY <1>2, <2>5, <3>2 DEF moveMindmapNode
      <4>2. t \in 2..Len(x) /\ f \in t..Len(x) /\ f + 1 \in 2..Len(x) /\ Subtext(x, t, f)
        BY <1>2, <3>2, TopicIs
      <4>3. e \in i..Len(x)
        BY <2>1 DEF Subtext
      <4>4. f \notin i..e
        <5>1. CASE x[t].kind = "self"
          BY <1>2, <5>1 DEF EndOf
        <5>2. CASE x[t].kind = "open"
          <6>1. f = MatchingClose(x, t)
            BY <5>2 DEF EndOf
          <6> HIDE DEF i, e, t, f
          <6> QED BY <1>2, <2>1, <2>2, <3>2, <5>2, <6>1, EndsOutside
        <5> QED BY <2>2, <5>1, <5>2
      <4>5. k \in 2..Len(x) /\ k \notin i + 1..e
        <5> HIDE DEF i, e, t, f
        <5> QED BY <1>2, <2>1, <2>2, <4>2, <4>3, <4>4
      <4> HIDE DEF i, e, t, k, y
      <4>6. Sound(CutAndPaste(x, i, e, k, s), n)
        BY <2>1, <4>5, CutAndPasteSound
      <4> HIDE DEF s
      <4>7. Sound(y, n)
        BY <4>1, <4>6
      <4> QED BY <4>7 DEF y
    <3> QED BY <3>1, <3>2
  <2> QED BY <2>3, <2>4, <2>5
<1> QED BY <1>1, <1>2
----------------------------------------------------------------------------
(* The topic a place is in *)

\* The element opened at j is the one the place before the tag k is in.
Around(x, j, k) ==
  /\ j \in 1..k - 1 /\ x[j].kind = "open" /\ DepthAt(x, k - 1) = DepthAt(x, j)
  /\ \A l \in j..k - 1 : DepthAt(x, l) >= DepthAt(x, j)

\* The places findParentNodeId() looks at.
LEMMA OpenersAre ==
  ASSUME NEW x, NEW k \in Nat \ {0}
  PROVE  EnclosingIndex(x, k) =
           LastOf({j \in 1..k - 1 : x[j].kind = "open" /\ DepthAt(x, k - 1) = DepthAt(x, j)})
<1>1. ASSUME NEW j \in 1..k - 1
      PROVE  Level(x, j + 1, k - 1) <=> DepthAt(x, k - 1) = DepthAt(x, j)
  <2>1. /\ j + 1 \in Int /\ k - 1 \in Int /\ 1 <= j + 1 /\ j + 1 <= (k - 1) + 1
        /\ (j + 1) - 1 = j
    OBVIOUS
  <2> QED BY <2>1, LevelIsDepth
<1>2. {j \in 1..k - 1 : x[j].kind = "open" /\ Level(x, j + 1, k - 1)} =
        {j \in 1..k - 1 : x[j].kind = "open" /\ DepthAt(x, k - 1) = DepthAt(x, j)}
  BY <1>1
<1> QED BY <1>2 DEF EnclosingIndex

\* Counting finds it: of the elements opened before the place and as deep as it, the
\* last.
LEMMA AroundEncloses ==
  ASSUME NEW x, NEW k \in Nat \ {0}, NEW j, Around(x, j, k)
  PROVE  HasParent(x, k) /\ Enclosing(x, k) = x[j].id
<1> DEFINE S == {l \in 1..k - 1 : x[l].kind = "open" /\ DepthAt(x, k - 1) = DepthAt(x, l)}
           m == LastOf(S)
<1>1. j \in 1..k - 1 /\ j \in S /\ \A l \in j..k - 1 : DepthAt(x, l) >= DepthAt(x, j)
  BY DEF Around
<1>2. S \in SUBSET (1..k - 1) /\ k - 1 \in Nat
  OBVIOUS
<1>3. m \in S /\ m >= j
  <2>1. \E l \in S : \A p \in S : l >= p
    <3>1. S \in SUBSET Nat /\ S # {} /\ \A l \in S : l <= k - 1
      BY <1>1
    <3> HIDE DEF S
    <3> QED BY <1>2, <3>1, Greatest
  <2>2. m = CHOOSE l \in S : \A p \in S : l >= p
    <3>1. S # {}
      BY <1>1
    <3> HIDE DEF S
    <3> QED BY <3>1 DEF LastOf, Max
  <2> HIDE DEF S, m
  <2> QED BY <1>1, <2>1, <2>2
<1>4. m \in 1..k - 1 /\ x[m].kind = "open" /\ DepthAt(x, k - 1) = DepthAt(x, m)
  BY <1>3
<1>5. EnclosingIndex(x, k) = m
  BY OpenersAre
<1> HIDE DEF m, S
<1>6. m = j
  <2>1. ASSUME m > j PROVE FALSE
    <3>1. m \in Nat \ {0} /\ m - 1 \in j..k - 1 /\ m \in Int /\ m - 1 \in Int /\ j \in Int
      BY <1>1, <1>4, <2>1
    <3>2. DepthAt(x, m) = DepthAt(x, m - 1) + 1
      BY <1>4, <3>1, DepthSteps
    <3>3. DepthAt(x, m - 1) >= DepthAt(x, j) /\ DepthAt(x, m) = DepthAt(x, j)
      BY <1>1, <1>4, <3>1 DEF Around
    <3>4. DepthAt(x, m - 1) \in Int /\ DepthAt(x, j) \in Int
      BY <3>1, DepthType
    <3> QED BY <3>2, <3>3, <3>4
  <2> QED BY <1>1, <1>3, <1>4, <2>1
<1>7. m # 0
  BY <1>4
<1> QED BY <1>5, <1>6, <1>7 DEF HasParent, Enclosing

\* Wherever something is open there is such an element.
LEMMA AroundExists ==
  ASSUME NEW x, NEW k \in Nat \ {0}, DepthAt(x, k - 1) > 0
  PROVE  \E j \in 1..k - 1 : Around(x, j, k)
<1> DEFINE T == {l \in 0..k - 1 : DepthAt(x, l) < DepthAt(x, k - 1)}
<1>1. T \in SUBSET Nat /\ 0 \in T /\ \A l \in T : l <= k - 1
  BY DepthStarts
<1>2. PICK m \in T : \A l \in T : m >= l
  <2>1. T # {} /\ k - 1 \in Nat
    BY <1>1
  <2> HIDE DEF T
  <2> QED BY <1>1, <2>1, Greatest
<1>3. m \in 0..k - 1 /\ DepthAt(x, m) < DepthAt(x, k - 1)
  OBVIOUS
<1>4. \A l \in Int : DepthAt(x, l) \in Int
  BY DepthType
<1>5. m # k - 1
  <2>1. DepthAt(x, k - 1) \in Int
    BY <1>4
  <2> QED BY <1>3, <2>1
<1>6. ASSUME NEW l \in m + 1..k - 1 PROVE DepthAt(x, l) >= DepthAt(x, k - 1)
  <2>1. l \notin T /\ l \in 0..k - 1 /\ l \in Int /\ k - 1 \in Int
    BY <1>2, <1>3
  <2>2. ~(DepthAt(x, l) < DepthAt(x, k - 1))
    BY <2>1
  <2>3. DepthAt(x, l) \in Int /\ DepthAt(x, k - 1) \in Int
    BY <1>4, <2>1
  <2> QED BY <2>2, <2>3
<1>7. m + 1 \in 1..k - 1 /\ m + 1 \in m + 1..k - 1 /\ m + 1 \in Nat \ {0} /\ (m + 1) - 1 = m
  BY <1>3, <1>5
<1> HIDE DEF T
<1>8. x[m + 1].kind = "open" /\ DepthAt(x, m + 1) = DepthAt(x, k - 1)
  <2>1. DepthAt(x, m + 1) >= DepthAt(x, k - 1)
    BY <1>6, <1>7
  <2>2. /\ DepthAt(x, m + 1) \in Int /\ DepthAt(x, m) \in Int
        /\ x[m + 1].kind = "open" => DepthAt(x, m + 1) = DepthAt(x, m) + 1
        /\ x[m + 1].kind = "close" => DepthAt(x, m + 1) = DepthAt(x, m) - 1
        /\ x[m + 1].kind \notin {"open", "close"} => DepthAt(x, m + 1) = DepthAt(x, m)
    BY <1>7, DepthSteps
  <2>3. DepthAt(x, k - 1) \in Int
    BY <1>4
  <2> QED BY <1>3, <2>1, <2>2, <2>3
<1>9. Around(x, m + 1, k)
  BY <1>6, <1>7, <1>8 DEF Around
<1> QED BY <1>7, <1>9

\* Where nothing is open there is none.
LEMMA NothingAround ==
  ASSUME NEW x, NEW k \in Nat \ {0}, DepthAt(x, k - 1) = 0,
         \A l \in 0..k - 1 : DepthAt(x, l) >= 0
  PROVE  ~HasParent(x, k) /\ Enclosing(x, k) = 0
<1> DEFINE S == {l \in 1..k - 1 : x[l].kind = "open" /\ DepthAt(x, k - 1) = DepthAt(x, l)}
<1>1. ASSUME NEW j \in S PROVE FALSE
  <2>1. j \in Nat \ {0} /\ j - 1 \in 0..k - 1 /\ j - 1 \in Int
    OBVIOUS
  <2>2. DepthAt(x, j) = DepthAt(x, j - 1) + 1 /\ DepthAt(x, j) = 0
    BY <2>1, DepthSteps
  <2>3. DepthAt(x, j - 1) >= 0 /\ DepthAt(x, j - 1) \in Int
    BY <2>1, DepthType
  <2> QED BY <2>2, <2>3
<1>2. S = {}
  BY <1>1
<1>3. EnclosingIndex(x, k) = 0
  BY <1>2, OpenersAre DEF LastOf
<1> QED BY <1>3 DEF HasParent, Enclosing

----------------------------------------------------------------------------
(* What a change leaves where it is *)

\* The tags i to e close what they open, and nothing else.
Even(x, i, e) ==
  DepthAt(x, e) = DepthAt(x, i - 1) /\ \A l \in i..e : DepthAt(x, l) >= DepthAt(x, i - 1)

\* Where the tag l is when d tags more take the place of those from i on.
Shifted(l, i, d) == IF l < i THEN l ELSE l + d

\* Something balanced takes the place of something balanced: the depth of all else is
\* what it was, and within it no less than around it.
LEMMA SwapDepth ==
  ASSUME NEW x, NEW s, Xml(x), Xml(s), Balanced(s), NEW i \in Int, NEW e \in Int,
         1 <= i, i <= e + 1, e <= Len(x), Even(x, i, e)
  PROVE  LET y == Splice(x, i, e, s)
             d == Len(s) - (e - i + 1)
         IN  /\ Len(x) \in Nat /\ Len(s) \in Nat /\ d \in Int /\ Len(y) = Len(x) + d
             /\ Xml(y)
             /\ \A k \in 1..i - 1 : y[k] = x[k]
             /\ \A k \in 1..Len(s) : y[i - 1 + k] = s[k]
             /\ \A k \in e + 1..Len(x) : y[k + d] = x[k]
             /\ \A k \in 0..i - 1 : DepthAt(y, k) = DepthAt(x, k)
             /\ \A k \in 0..Len(s) : /\ DepthAt(y, i - 1 + k) = DepthAt(x, i - 1) + DepthAt(s, k)
                                     /\ DepthAt(s, k) >= 0 /\ DepthAt(s, k) \in Int
             /\ \A k \in e..Len(x) : DepthAt(y, k + d) = DepthAt(x, k)
<1> DEFINE y == Splice(x, i, e, s)
           d == Len(s) - (e - i + 1)
<1>1. Len(x) \in Nat /\ Len(s) \in Nat /\ d \in Int /\ d = Len(s) - (e - i + 1)
  BY XmlShape
<1>2. /\ Xml(y) /\ Len(y) = Len(x) - (e - i + 1) + Len(s)
      /\ \A k \in 1..Len(y) : y[k] = IF k < i THEN x[k]
                                    ELSE IF k < i + Len(s) THEN s[k - i + 1]
                                    ELSE x[k - Len(s) + (e - i + 1)]
  BY SpliceAt
<1>3. /\ \A k \in 0..i - 1 : DepthAt(y, k) = DepthAt(x, k)
      /\ \A k \in 0..Len(s) : DepthAt(y, i - 1 + k) = DepthAt(x, i - 1) + DepthAt(s, k)
      /\ \A k \in e..Len(x) :
           DepthAt(y, k + Len(s) - (e - i + 1)) =
             DepthAt(x, k) + DepthAt(s, Len(s)) - (DepthAt(x, e) - DepthAt(x, i - 1))
  BY SpliceDepth
<1> HIDE DEF y, d
<1>4. \A k \in Int : DepthAt(x, k) \in Int /\ DepthAt(s, k) \in Int
  BY DepthType
<1>5. ASSUME NEW k \in e..Len(x) PROVE DepthAt(y, k + d) = DepthAt(x, k)
  <2>1. k + d = k + Len(s) - (e - i + 1) /\ i - 1 \in Int
    BY <1>1
  <2>2. DepthAt(s, Len(s)) = 0 /\ DepthAt(x, e) = DepthAt(x, i - 1)
    BY DEF Balanced, Even
  <2>3. DepthAt(x, k) \in Int /\ DepthAt(x, i - 1) \in Int
    BY <1>4, <2>1
  <2> QED BY <1>3, <2>1, <2>2, <2>3
<1>6. ASSUME NEW k \in 0..Len(s) PROVE DepthAt(s, k) >= 0 /\ DepthAt(s, k) \in Int
  <2>1. CASE k = 0
    BY <2>1, DepthStarts
  <2>2. CASE k # 0
    <3>1. k \in 1..Len(s)
      BY <1>1, <2>2
    <3> QED BY <1>4, <3>1 DEF Balanced
  <2> QED BY <2>1, <2>2
<1>7. ASSUME NEW k \in 1..i - 1 PROVE y[k] = x[k]
  <2>1. k \in 1..Len(y) /\ k < i
    BY <1>1, <1>2
  <2> QED BY <1>2, <2>1
<1>8. ASSUME NEW k \in 1..Len(s) PROVE y[i - 1 + k] = s[k]
  <2>1. /\ i - 1 + k \in 1..Len(y) /\ ~(i - 1 + k < i) /\ i - 1 + k < i + Len(s)
        /\ (i - 1 + k) - i + 1 = k
    BY <1>1, <1>2
  <2> QED BY <1>2, <2>1
<1>9. ASSUME NEW k \in e + 1..Len(x) PROVE y[k + d] = x[k]
  <2>1. /\ k + d \in 1..Len(y) /\ ~(k + d < i) /\ ~(k + d < i + Len(s))
        /\ (k + d) - Len(s) + (e - i + 1) = k
    BY <1>1, <1>2
  <2> QED BY <1>2, <2>1
<1>10. Len(y) = Len(x) + d
  BY <1>1, <1>2
<1> QED BY <1>1, <1>2, <1>3, <1>5, <1>6, <1>7, <1>8, <1>9, <1>10 DEF y, d

\* An element that is around a place is not in what is even and does not hold the place.
LEMMA EvenApart ==
  ASSUME NEW x, NEW i \in Int, NEW e \in Int, 1 <= i, Even(x, i, e),
         NEW j, NEW p \in Nat \ {0}, Around(x, j, p), p \notin i..e
  PROVE  j \notin i..e
<1> SUFFICES ASSUME j \in i..e PROVE FALSE
  OBVIOUS
<1>1. j \in 1..p - 1 /\ e \in j..p - 1 /\ j \in Nat \ {0} /\ i - 1 \in Int /\ j - 1 \in Int
  BY DEF Around
<1>2. DepthAt(x, e) >= DepthAt(x, j) /\ DepthAt(x, e) = DepthAt(x, i - 1)
  BY <1>1 DEF Around, Even
<1>3. DepthAt(x, j) = DepthAt(x, j - 1) + 1
  BY <1>1, DepthSteps DEF Around
<1>4. DepthAt(x, j - 1) >= DepthAt(x, i - 1)
  <2>1. CASE j = i
    <3>1. DepthAt(x, i - 1) \in Int
      BY <1>1, DepthType
    <3> QED BY <2>1, <3>1
  <2>2. CASE j # i
    <3>1. j - 1 \in i..e
      BY <2>2
    <3> QED BY <3>1 DEF Even
  <2> QED BY <2>1, <2>2
<1>5. DepthAt(x, j - 1) \in Int /\ DepthAt(x, i - 1) \in Int
  BY <1>1, DepthType
<1> QED BY <1>2, <1>3, <1>4, <1>5

\* What is around a tag that stays, stays around it.
LEMMA SwapAround ==
  ASSUME NEW x, NEW s, Xml(x), Xml(s), Balanced(s), NEW i \in Int, NEW e \in Int,
         1 <= i, i <= e + 1, e <= Len(x), Even(x, i, e),
         NEW p \in 1..Len(x), p \notin i..e, NEW j, Around(x, j, p)
  PROVE  LET y == Splice(x, i, e, s)
             d == Len(s) - (e - i + 1)
         IN  /\ Around(y, Shifted(j, i, d), Shifted(p, i, d))
             /\ y[Shifted(j, i, d)] = x[j]
<1> DEFINE y == Splice(x, i, e, s)
           d == Len(s) - (e - i + 1)
<1>1. /\ Len(x) \in Nat /\ Len(s) \in Nat /\ d \in Int /\ Len(y) = Len(x) + d
      /\ \A k \in 1..i - 1 : y[k] = x[k]
      /\ \A k \in e + 1..Len(x) : y[k + d] = x[k]
      /\ \A k \in 0..i - 1 : DepthAt(y, k) = DepthAt(x, k)
      /\ \A k \in 0..Len(s) : /\ DepthAt(y, i - 1 + k) = DepthAt(x, i - 1) + DepthAt(s, k)
                              /\ DepthAt(s, k) >= 0 /\ DepthAt(s, k) \in Int
      /\ \A k \in e..Len(x) : DepthAt(y, k + d) = DepthAt(x, k)
  BY SwapDepth
<1>2. /\ j \in 1..p - 1 /\ x[j].kind = "open" /\ DepthAt(x, p - 1) = DepthAt(x, j)
      /\ \A l \in j..p - 1 : DepthAt(x, l) >= DepthAt(x, j)
      /\ p - 1 \in Int
  BY <1>1 DEF Around
<1>3. j \notin i..e
  BY <1>1, EvenApart
<1>4. d = Len(s) - (e - i + 1)
  OBVIOUS
<1> HIDE DEF y, d
<1>5. CASE p < i
  <2>1. j < i /\ j \in 1..i - 1 /\ j \in 0..i - 1 /\ p - 1 \in 0..i - 1
    BY <1>1, <1>2, <1>5
  <2>2. \A l \in j..p - 1 : l \in 0..i - 1
    BY <1>2, <1>5
  <2>3. Around(y, j, p) /\ y[j] = x[j]
    BY <1>1, <1>2, <2>1, <2>2 DEF Around
  <2> QED BY <1>5, <2>1, <2>3 DEF Shifted, y, d
<1>6. CASE p > e /\ ~(p < i) /\ j < i
  <2>1. /\ j \in 1..i - 1 /\ j \in 0..i - 1 /\ p - 1 \in e..Len(x) /\ (p - 1) + d = (p + d) - 1
        /\ i - 1 \in j..p - 1 /\ j \in 1..(p + d) - 1 /\ i - 1 \in Int
    BY <1>1, <1>2, <1>4, <1>6
  <2>2. DepthAt(y, (p + d) - 1) = DepthAt(y, j) /\ DepthAt(y, j) = DepthAt(x, j)
    BY <1>1, <1>2, <2>1
  <2>3. ASSUME NEW l \in j..(p + d) - 1 PROVE DepthAt(y, l) >= DepthAt(x, j)
    <3>1. CASE l <= i - 1
      <4>1. l \in 0..i - 1 /\ l \in j..p - 1
        BY <1>2, <2>1, <3>1
      <4> QED BY <1>1, <1>2, <4>1
    <3>2. CASE ~(l <= i - 1) /\ l <= i - 1 + Len(s)
      <4>1. l - (i - 1) \in 0..Len(s) /\ i - 1 + (l - (i - 1)) = l
        BY <1>1, <1>2, <3>2
      <4>2. DepthAt(x, i - 1) >= DepthAt(x, j)
        BY <1>2, <2>1
      <4>3. DepthAt(x, i - 1) \in Int /\ DepthAt(x, j) \in Int
        BY <2>1, DepthType
      <4>4. /\ DepthAt(y, l) = DepthAt(x, i - 1) + DepthAt(s, l - (i - 1))
            /\ DepthAt(s, l - (i - 1)) >= 0 /\ DepthAt(s, l - (i - 1)) \in Int
        BY <1>1, <4>1
      <4> QED BY <4>2, <4>3, <4>4, SMTT(30)
    <3>3. CASE ~(l <= i - 1 + Len(s))
      <4>1. l - d \in e..Len(x) /\ l - d \in j..p - 1 /\ (l - d) + d = l
        BY <1>1, <1>2, <1>4, <1>6, <3>3, SMTT(30)
      <4> QED BY <1>1, <1>2, <4>1
    <3> QED BY <3>1, <3>2, <3>3
  <2>4. Around(y, j, p + d) /\ y[j] = x[j]
    BY <1>1, <1>2, <2>1, <2>2, <2>3 DEF Around
  <2> QED BY <1>6, <2>4 DEF Shifted, y, d
<1>7. CASE p > e /\ ~(p < i) /\ ~(j < i)
  <2>1. j > e /\ j \in e + 1..Len(x)
    BY <1>1, <1>2, <1>3, <1>7
  <2>2. /\ j \in e..Len(x) /\ p - 1 \in e..Len(x) /\ (p - 1) + d = (p + d) - 1
        /\ j + d \in 1..(p + d) - 1
    BY <1>1, <1>2, <1>4, <2>1, SMTT(30)
  <2>3. ASSUME NEW l \in j + d..(p + d) - 1 PROVE DepthAt(y, l) >= DepthAt(x, j)
    <3>1. l - d \in e..Len(x) /\ l - d \in j..p - 1 /\ (l - d) + d = l
      BY <1>1, <1>2, <2>1
    <3> QED BY <1>1, <1>2, <3>1
  <2>4. DepthAt(y, (p + d) - 1) = DepthAt(y, j + d) /\ DepthAt(y, j + d) = DepthAt(x, j)
    BY <1>1, <1>2, <2>2
  <2>5. y[j + d] = x[j]
    BY <1>1, <2>1
  <2>6. Around(y, j + d, p + d)
    BY <1>2, <2>2, <2>3, <2>4, <2>5 DEF Around
  <2> QED BY <1>7, <2>5, <2>6 DEF Shifted, y, d
<1> QED BY <1>1, <1>5, <1>6, <1>7
\* What s has at its top is in what the place was in, the rest in what it is in in s.
LEMMA SwapInside ==
  ASSUME NEW x, NEW s, Xml(x), Xml(s), Balanced(s), NEW i \in Int, NEW e \in Int,
         1 <= i, i <= e + 1, e <= Len(x), Even(x, i, e),
         NEW q \in 1..Len(s) + 1
  PROVE  LET y == Splice(x, i, e, s) IN
         /\ \A j : Around(x, j, i) /\ DepthAt(s, q - 1) = 0
                     => Around(y, j, i - 1 + q) /\ y[j] = x[j]
         /\ \A a : Around(s, a, q) => /\ Around(y, i - 1 + a, i - 1 + q)
                                      /\ y[i - 1 + a] = s[a]
<1> DEFINE y == Splice(x, i, e, s)
           p == i - 1 + q
<1>1. /\ Len(x) \in Nat /\ Len(s) \in Nat
      /\ \A k \in 1..i - 1 : y[k] = x[k]
      /\ \A k \in 1..Len(s) : y[i - 1 + k] = s[k]
      /\ \A k \in 0..i - 1 : DepthAt(y, k) = DepthAt(x, k)
      /\ \A k \in 0..Len(s) : /\ DepthAt(y, i - 1 + k) = DepthAt(x, i - 1) + DepthAt(s, k)
                              /\ DepthAt(s, k) >= 0 /\ DepthAt(s, k) \in Int
  BY SwapDepth
<1>2. /\ q - 1 \in 0..Len(s) /\ i - 1 \in Int /\ p - 1 = i - 1 + (q - 1) /\ p \in Int
      /\ p = i - 1 + q
  BY <1>1
<1> HIDE DEF y, p
<1>3. DepthAt(x, i - 1) \in Int
  BY <1>2, DepthType
<1>4. ASSUME NEW j, Around(x, j, i), DepthAt(s, q - 1) = 0
      PROVE  Around(y, j, p) /\ y[j] = x[j]
  <2>1. /\ j \in 1..i - 1 /\ x[j].kind = "open" /\ DepthAt(x, i - 1) = DepthAt(x, j)
        /\ \A l \in j..i - 1 : DepthAt(x, l) >= DepthAt(x, j)
    BY <1>4 DEF Around
  <2>2. j \in 1..p - 1 /\ j \in 0..i - 1 /\ j \in Int
    BY <1>1, <1>2, <2>1
  <2>3. DepthAt(y, p - 1) = DepthAt(x, i - 1) /\ DepthAt(y, j) = DepthAt(x, j) /\ y[j] = x[j]
    BY <1>1, <1>2, <1>3, <1>4, <2>1, <2>2
  <2>4. ASSUME NEW l \in j..p - 1 PROVE DepthAt(y, l) >= DepthAt(x, j)
    <3>1. CASE l <= i - 1
      <4>1. l \in 0..i - 1 /\ l \in j..i - 1
        BY <1>2, <2>2, <3>1
      <4> QED BY <1>1, <2>1, <4>1
    <3>2. CASE ~(l <= i - 1)
      <4>1. l - (i - 1) \in 0..Len(s) /\ i - 1 + (l - (i - 1)) = l
        BY <1>1, <1>2, <2>2, <3>2
      <4>2. /\ DepthAt(y, l) = DepthAt(x, i - 1) + DepthAt(s, l - (i - 1))
            /\ DepthAt(s, l - (i - 1)) >= 0 /\ DepthAt(s, l - (i - 1)) \in Int
        BY <1>1, <4>1
      <4> QED BY <1>3, <2>1, <4>2
    <3> QED BY <3>1, <3>2
  <2> QED BY <2>1, <2>2, <2>3, <2>4 DEF Around
<1>5. ASSUME NEW a, Around(s, a, q)
      PROVE  Around(y, i - 1 + a, p) /\ y[i - 1 + a] = s[a]
  <2>1. /\ a \in 1..q - 1 /\ s[a].kind = "open" /\ DepthAt(s, q - 1) = DepthAt(s, a)
        /\ \A l \in a..q - 1 : DepthAt(s, l) >= DepthAt(s, a)
    BY <1>5 DEF Around
  <2>2. a \in 1..Len(s) /\ a \in 0..Len(s) /\ i - 1 + a \in 1..p - 1
    BY <1>1, <1>2, <2>1
  <2>3. /\ DepthAt(y, p - 1) = DepthAt(y, i - 1 + a) /\ y[i - 1 + a] = s[a]
        /\ DepthAt(y, i - 1 + a) = DepthAt(x, i - 1) + DepthAt(s, a) /\ DepthAt(s, a) \in Int
    BY <1>1, <1>2, <2>1, <2>2
  <2>4. ASSUME NEW l \in i - 1 + a..p - 1 PROVE DepthAt(y, l) >= DepthAt(y, i - 1 + a)
    <3>1. /\ l - (i - 1) \in 0..Len(s) /\ l - (i - 1) \in a..q - 1
          /\ i - 1 + (l - (i - 1)) = l
      BY <1>1, <1>2, <2>1
    <3>2. /\ DepthAt(y, l) = DepthAt(x, i - 1) + DepthAt(s, l - (i - 1))
          /\ DepthAt(s, l - (i - 1)) >= DepthAt(s, a) /\ DepthAt(s, l - (i - 1)) \in Int
      BY <1>1, <2>1, <3>1
    <3> QED BY <1>3, <2>3, <3>2
  <2> QED BY <2>1, <2>2, <2>3, <2>4 DEF Around
<1> QED BY <1>4, <1>5 DEF y, p

\* In a sound text every tag but the first is in an element.
LEMMA SoundAround ==
  ASSUME NEW x, NEW n, Sound(x, n), NEW k \in 1..Len(x)
  PROVE  /\ k = 1 => ~HasParent(x, k) /\ Enclosing(x, k) = 0
         /\ k # 1 => \E j \in 1..k - 1 : Around(x, j, k)
<1>1. Len(x) \in Nat /\ \A l \in 1..Len(x) - 1 : DepthAt(x, l) > 0
  BY SoundIs
<1>2. ASSUME k = 1 PROVE ~HasParent(x, k) /\ Enclosing(x, k) = 0
  <2>1. k \in Nat \ {0} /\ k - 1 = 0 /\ \A l \in 0..k - 1 : l = 0
    BY <1>2
  <2>2. DepthAt(x, k - 1) = 0 /\ \A l \in 0..k - 1 : DepthAt(x, l) >= 0
    BY <2>1, DepthStarts
  <2> QED BY <2>1, <2>2, NothingAround
<1>3. ASSUME k # 1 PROVE \E j \in 1..k - 1 : Around(x, j, k)
  <2>1. k \in Nat \ {0} /\ k - 1 \in 1..Len(x) - 1
    BY <1>1, <1>3
  <2> QED BY <1>1, <2>1, AroundExists
<1> QED BY <1>2, <1>3

\* In a balanced text the tags at its top are in nothing.
LEMMA BalancedAround ==
  ASSUME NEW s, Xml(s), Balanced(s), NEW q \in 1..Len(s)
  PROVE  IF DepthAt(s, q - 1) = 0 THEN Enclosing(s, q) = 0
         ELSE \E a \in 1..q - 1 : Around(s, a, q)
<1>1. Len(s) \in Nat /\ q \in Nat \ {0} /\ q - 1 \in Int /\ \A l \in 0..q - 1 : l \in Int
  BY XmlShape
<1>2. \A l \in 0..q - 1 : DepthAt(s, l) >= 0
  <2>1. ASSUME NEW l \in 0..q - 1 PROVE DepthAt(s, l) >= 0
    <3>1. CASE l = 0
      BY <3>1, DepthStarts
    <3>2. CASE l # 0
      <4>1. l \in 1..Len(s)
        BY <1>1, <3>2
      <4> QED BY <4>1 DEF Balanced
    <3> QED BY <3>1, <3>2
  <2> QED BY <2>1
<1>3. CASE DepthAt(s, q - 1) = 0
  BY <1>1, <1>2, <1>3, NothingAround
<1>4. CASE DepthAt(s, q - 1) # 0
  <2>1. DepthAt(s, q - 1) \in Int /\ q - 1 \in 0..q - 1
    BY <1>1, DepthType
  <2>2. DepthAt(s, q - 1) > 0
    BY <1>2, <1>4, <2>1
  <2> QED BY <1>1, <1>4, <2>2, AroundExists
<1> QED BY <1>3, <1>4

\* The topic each tag is in after a change.
LEMMA SwapEnclosing ==
  ASSUME NEW x, NEW n, Sound(x, n), NEW s, Xml(s), Balanced(s), NEW i \in Int, NEW e \in Int,
         1 <= i, i <= e + 1, e <= Len(x), i <= Len(x), Even(x, i, e), i # 1 \/ e # 0
  PROVE  LET y == Splice(x, i, e, s)
             d == Len(s) - (e - i + 1)
         IN  /\ \A p \in 1..Len(x) : p \notin i..e =>
                  /\ Shifted(p, i, d) \in 1..Len(y) /\ y[Shifted(p, i, d)] = x[p]
                  /\ Enclosing(y, Shifted(p, i, d)) = Enclosing(x, p)
             /\ \A q \in 1..Len(s) :
                  /\ i - 1 + q \in 1..Len(y) /\ y[i - 1 + q] = s[q]
                  /\ Enclosing(y, i - 1 + q) = IF DepthAt(s, q - 1) = 0 THEN Enclosing(x, i)
                                               ELSE Enclosing(s, q)
             /\ \A k \in 1..Len(y) :
                  \/ \E q \in 1..Len(s) : k = i - 1 + q
                  \/ \E p \in 1..Len(x) : p \notin i..e /\ k = Shifted(p, i, d)
<1> DEFINE y == Splice(x, i, e, s)
           d == Len(s) - (e - i + 1)
<1>0. Xml(x)
  BY SoundIs
<1>1. /\ Len(x) \in Nat /\ Len(s) \in Nat /\ d \in Int /\ Len(y) = Len(x) + d
      /\ \A k \in 1..i - 1 : y[k] = x[k]
      /\ \A k \in 1..Len(s) : y[i - 1 + k] = s[k]
      /\ \A k \in e + 1..Len(x) : y[k + d] = x[k]
      /\ \A k \in 0..Len(s) : /\ DepthAt(y, i - 1 + k) = DepthAt(x, i - 1) + DepthAt(s, k)
                              /\ DepthAt(s, k) >= 0 /\ DepthAt(s, k) \in Int
  BY <1>0, SwapDepth
<1>2. ASSUME NEW p \in 1..Len(x), p \notin i..e, NEW j, Around(x, j, p)
      PROVE  Around(y, Shifted(j, i, d), Shifted(p, i, d)) /\ y[Shifted(j, i, d)] = x[j]
  BY <1>0, <1>2, SwapAround
<1>3. ASSUME NEW q \in 1..Len(s)
      PROVE  /\ \A j : Around(x, j, i) /\ DepthAt(s, q - 1) = 0
                         => Around(y, j, i - 1 + q) /\ y[j] = x[j]
             /\ \A a : Around(s, a, q) => /\ Around(y, i - 1 + a, i - 1 + q)
                                          /\ y[i - 1 + a] = s[a]
  <2>1. q \in 1..Len(s) + 1
    BY <1>1
  <2> QED BY <1>0, <2>1, SwapInside
<1>4. d = Len(s) - (e - i + 1)
  OBVIOUS
<1> HIDE DEF y, d
<1>5. ASSUME NEW p \in 1..Len(x), p \notin i..e
      PROVE  /\ Shifted(p, i, d) \in 1..Len(y) /\ y[Shifted(p, i, d)] = x[p]
             /\ Enclosing(y, Shifted(p, i, d)) = Enclosing(x, p)
  <2>1. Shifted(p, i, d) \in 1..Len(y) /\ y[Shifted(p, i, d)] = x[p]
    <3>1. CASE p < i
      BY <1>1, <1>4, <3>1 DEF Shifted
    <3>2. CASE ~(p < i)
      <4>1. p \in e + 1..Len(x) /\ p + d \in 1..Len(y)
        BY <1>1, <1>4, <1>5, <3>2
      <4> QED BY <1>1, <3>2, <4>1 DEF Shifted
    <3> QED BY <3>1, <3>2
  <2>2. CASE p = 1
    <3>1. 1 < i
      BY <1>5, <2>2
    <3>2. Shifted(p, i, d) = 1 /\ 1 \in Nat \ {0} /\ 1 - 1 = 0 /\ \A l \in 0..0 : l = 0
      BY <2>2, <3>1 DEF Shifted
    <3>3. DepthAt(y, 1 - 1) = 0 /\ \A l \in 0..1 - 1 : DepthAt(y, l) >= 0
      BY <3>2, DepthStarts
    <3>4. Enclosing(y, 1) = 0
      BY <3>2, <3>3, NothingAround
    <3> QED BY <2>1, <2>2, <3>2, <3>4, SoundAround
  <2>3. CASE p # 1
    <3>1. PICK j \in 1..p - 1 : Around(x, j, p)
      BY <2>3, SoundAround
    <3>2. Around(y, Shifted(j, i, d), Shifted(p, i, d)) /\ y[Shifted(j, i, d)] = x[j]
      BY <1>2, <1>5, <3>1
    <3>3. Shifted(p, i, d) \in Nat \ {0} /\ p \in Nat \ {0}
      <4>1. Len(x) \in Nat /\ Len(y) \in Int /\ Shifted(p, i, d) \in 1..Len(y)
        BY <1>1, <2>1
      <4> QED BY <4>1
    <3>4. Enclosing(y, Shifted(p, i, d)) = y[Shifted(j, i, d)].id /\ Enclosing(x, p) = x[j].id
      BY <3>1, <3>2, <3>3, AroundEncloses
    <3> QED BY <2>1, <3>2, <3>4
  <2> QED BY <2>2, <2>3
<1>6. ASSUME NEW q \in 1..Len(s)
      PROVE  /\ i - 1 + q \in 1..Len(y) /\ y[i - 1 + q] = s[q]
             /\ Enclosing(y, i - 1 + q) = IF DepthAt(s, q - 1) = 0 THEN Enclosing(x, i)
                                          ELSE Enclosing(s, q)
  <2>1. /\ i - 1 + q \in 1..Len(y) /\ i - 1 + q \in Nat \ {0} /\ i \in 1..Len(x)
        /\ q \in Nat \ {0} /\ i \in Nat \ {0} /\ q - 1 \in 0..Len(s)
    BY <1>1, <1>4
  <2>2. CASE DepthAt(s, q - 1) = 0 /\ i = 1
    <3>1. ASSUME NEW l \in 0..q - 1 PROVE DepthAt(y, l) = DepthAt(s, l) /\ DepthAt(s, l) >= 0
      <4>1. l \in 0..Len(s) /\ i - 1 + l = l /\ i - 1 = 0
        BY <1>1, <2>2
      <4>2. /\ DepthAt(y, l) = 0 + DepthAt(s, l)
            /\ DepthAt(s, l) >= 0 /\ DepthAt(s, l) \in Int
        BY <1>1, <4>1, DepthStarts
      <4> QED BY <4>2
    <3>2. i - 1 + q = q /\ q - 1 \in 0..q - 1
      BY <2>1, <2>2
    <3>3. Enclosing(y, q) = 0
      BY <2>1, <2>2, <3>1, <3>2, NothingAround
    <3> QED BY <1>1, <2>1, <2>2, <3>2, <3>3, SoundAround
  <2>3. CASE DepthAt(s, q - 1) = 0 /\ i # 1
    <3>1. PICK j \in 1..i - 1 : Around(x, j, i)
      BY <2>1, <2>3, SoundAround
    <3>2. Around(y, j, i - 1 + q) /\ y[j] = x[j]
      BY <1>3, <2>3, <3>1
    <3>3. Enclosing(y, i - 1 + q) = y[j].id /\ Enclosing(x, i) = x[j].id
      BY <2>1, <3>1, <3>2, AroundEncloses
    <3> QED BY <1>1, <2>1, <2>3, <3>2, <3>3
  <2>4. CASE DepthAt(s, q - 1) # 0
    <3>1. PICK a \in 1..q - 1 : Around(s, a, q)
      BY <2>4, BalancedAround
    <3>2. Around(y, i - 1 + a, i - 1 + q) /\ y[i - 1 + a] = s[a]
      BY <1>3, <3>1
    <3>3. Enclosing(y, i - 1 + q) = y[i - 1 + a].id /\ Enclosing(s, q) = s[a].id
      BY <2>1, <3>1, <3>2, AroundEncloses
    <3> QED BY <1>1, <2>1, <2>4, <3>2, <3>3
  <2> QED BY <2>2, <2>3, <2>4
<1>7. ASSUME NEW k \in 1..Len(y)
      PROVE  \/ \E q \in 1..Len(s) : k = i - 1 + q
             \/ \E p \in 1..Len(x) : p \notin i..e /\ k = Shifted(p, i, d)
  <2>1. CASE k < i
    <3>1. k \in 1..Len(x) /\ k \notin i..e /\ k = Shifted(k, i, d)
      BY <1>1, <2>1 DEF Shifted
    <3> QED BY <3>1
  <2>2. CASE ~(k < i) /\ k < i + Len(s)
    <3>1. k - (i - 1) \in 1..Len(s) /\ k = i - 1 + (k - (i - 1))
      BY <1>1, <2>2
    <3> QED BY <3>1
  <2>3. CASE ~(k < i + Len(s))
    <3>3. k \in Int /\ k <= Len(x) + d /\ k >= i + Len(s) /\ Len(x) \in Nat /\ Len(s) \in Nat
      BY <1>1, <2>3
    <3>1. /\ k - d \in 1..Len(x) /\ k - d \notin i..e /\ ~(k - d < i)
          /\ k = (k - d) + d
      BY <1>4, <3>3
    <3>2. k = Shifted(k - d, i, d)
      BY <3>1 DEF Shifted
    <3> QED BY <3>1, <3>2
  <2> QED BY <1>1, <2>1, <2>2, <2>3
<1> QED BY <1>5, <1>6, <1>7 DEF y, d

----------------------------------------------------------------------------
(* The parents of all topics *)

\* No two topics of x have one name.
Unique(x) == \A k, l \in Named(x) : x[k].id = x[l].id => k = l

\* The names of the topics in S.
NamesIn(x, S) == {x[k].id : k \in Named(x) \intersect S}

\* Parents() is what it says: a name is found at its only topic.
LEMMA ParentsAre ==
  ASSUME NEW x, Xml(x), Unique(x)
  PROVE  /\ DOMAIN Parents(x) = {x[k].id : k \in Named(x)}
         /\ Parents(x) = [id \in DOMAIN Parents(x) |-> Parents(x)[id]]
         /\ \A k \in Named(x) : IndexOf(x, x[k].id) = k /\ Parents(x)[x[k].id] = Enclosing(x, k)
<1>1. /\ Parents(x) = [id \in {x[k].id : k \in Named(x)} |-> Enclosing(x, IndexOf(x, id))]
      /\ DOMAIN Parents(x) = {x[k].id : k \in Named(x)}
  BY DEF Parents
<1>2. ASSUME NEW k \in Named(x) PROVE IndexOf(x, x[k].id) = k
  <2> DEFINE S == {i \in DOMAIN x : x[i].kind \in {"open", "self"} /\ x[i].id = x[k].id}
  <2>1. S = {k} /\ k \in Nat
    <3>1. DOMAIN x = 1..Len(x) /\ Len(x) \in Nat
      BY XmlShape
    <3> QED BY <3>1 DEF Unique, Named
  <2>2. First({k}) = k
    BY <2>1 DEF First, Min
  <2> QED BY <2>1, <2>2 DEF IndexOf
<1>3. ASSUME NEW k \in Named(x) PROVE Parents(x)[x[k].id] = Enclosing(x, k)
  BY <1>1, <1>2
<1>4. Parents(x) = [id \in DOMAIN Parents(x) |-> Parents(x)[id]]
  BY <1>1
<1> QED BY <1>1, <1>2, <1>3, <1>4

\* The parents of the topics when own, the parents of others, come under p.
Grafted(up, own, p) ==
  [id \in DOMAIN up \union DOMAIN own |->
     IF id \in DOMAIN up THEN up[id] ELSE IF own[id] = 0 THEN p ELSE own[id]]

\* A function without the names outside D.
Kept(up, D) == [id \in D |-> up[id]]

\* At the top of s are the topics that are in no topic of s.
LEMMA TopIs ==
  ASSUME NEW s, Xml(s), Balanced(s), NEW n, NamesWithin(s, n), NEW q \in Named(s)
  PROVE  DepthAt(s, q - 1) = 0 <=> Enclosing(s, q) = 0
<1>1. Len(s) \in Nat /\ DOMAIN s = 1..Len(s) /\ q \in 1..Len(s)
  BY XmlShape DEF Named
<1>2. CASE DepthAt(s, q - 1) = 0
  BY <1>1, <1>2, BalancedAround
<1>3. CASE DepthAt(s, q - 1) # 0
  <2>1. PICK a \in 1..q - 1 : Around(s, a, q)
    BY <1>1, <1>3, BalancedAround
  <2>2. a \in 1..Len(s) /\ a \in Named(s) /\ q \in Nat \ {0}
    BY <1>1, <2>1 DEF Around, Named
  <2>3. Enclosing(s, q) = s[a].id
    BY <2>1, <2>2, AroundEncloses
  <2>4. s[a].id # 0
    BY <2>2 DEF NamesWithin
  <2> QED BY <1>3, <2>3, <2>4
<1> QED BY <1>2, <1>3

\* What a change does to the parents: the topics that stay keep theirs.
LEMMA SwapParents ==
  ASSUME NEW x, NEW n, Sound(x, n), NEW s, Xml(s), Balanced(s), Unique(s), NamesWithin(s, n),
         NEW i \in Int, NEW e \in Int,
         1 <= i, i <= e + 1, e <= Len(x), i <= Len(x), Even(x, i, e), i # 1 \/ e # 0,
         Sound(Splice(x, i, e, s), n)
  PROVE  Parents(Splice(x, i, e, s)) =
           Grafted(Kept(Parents(x), NamesIn(x, 1..Len(x) \ (i..e))), Parents(s),
                   Enclosing(x, i))
<1> DEFINE y == Splice(x, i, e, s)
           d == Len(s) - (e - i + 1)
           D == NamesIn(x, 1..Len(x) \ (i..e))
           own == Parents(s)
           F == Grafted(Kept(Parents(x), D), own, Enclosing(x, i))
<1>1. /\ \A p \in 1..Len(x) : p \notin i..e =>
           /\ Shifted(p, i, d) \in 1..Len(y) /\ y[Shifted(p, i, d)] = x[p]
           /\ Enclosing(y, Shifted(p, i, d)) = Enclosing(x, p)
      /\ \A q \in 1..Len(s) :
           /\ i - 1 + q \in 1..Len(y) /\ y[i - 1 + q] = s[q]
           /\ Enclosing(y, i - 1 + q) = IF DepthAt(s, q - 1) = 0 THEN Enclosing(x, i)
                                        ELSE Enclosing(s, q)
      /\ \A k \in 1..Len(y) :
           \/ \E q \in 1..Len(s) : k = i - 1 + q
           \/ \E p \in 1..Len(x) : p \notin i..e /\ k = Shifted(p, i, d)
  BY SwapEnclosing
<1>2. /\ Xml(x) /\ Unique(x) /\ DOMAIN x = 1..Len(x) /\ Len(x) \in Nat
      /\ Xml(y) /\ Unique(y) /\ DOMAIN y = 1..Len(y)
      /\ DOMAIN s = 1..Len(s) /\ Len(s) \in Nat
  BY SoundIs, XmlShape DEF Unique
<1>3. d = Len(s) - (e - i + 1)
  OBVIOUS
<1> HIDE DEF y, d
<1>4. /\ DOMAIN Parents(x) = {x[k].id : k \in Named(x)}
      /\ \A k \in Named(x) : Parents(x)[x[k].id] = Enclosing(x, k)
  BY <1>2, ParentsAre
<1>5. /\ DOMAIN own = {s[k].id : k \in Named(s)}
      /\ \A k \in Named(s) : own[s[k].id] = Enclosing(s, k)
  BY <1>2, ParentsAre
<1>6. /\ DOMAIN Parents(y) = {y[k].id : k \in Named(y)}
      /\ Parents(y) = [id \in DOMAIN Parents(y) |-> Parents(y)[id]]
      /\ \A k \in Named(y) : Parents(y)[y[k].id] = Enclosing(y, k)
  BY <1>2, ParentsAre
<1> HIDE DEF own
<1>7. ASSUME NEW p \in Named(x), p \notin i..e
      PROVE  /\ Shifted(p, i, d) \in Named(y) /\ y[Shifted(p, i, d)].id = x[p].id
             /\ Enclosing(y, Shifted(p, i, d)) = Enclosing(x, p)
             /\ x[p].id \in D /\ Parents(x)[x[p].id] = Enclosing(x, p)
  <2>1. p \in 1..Len(x) /\ x[p].kind \in {"open", "self"}
    BY <1>2 DEF Named
  <2> QED BY <1>1, <1>2, <1>4, <1>7, <2>1 DEF Named, NamesIn
<1>8. ASSUME NEW q \in Named(s)
      PROVE  /\ i - 1 + q \in Named(y) /\ y[i - 1 + q].id = s[q].id
             /\ Enclosing(y, i - 1 + q) = IF own[s[q].id] = 0 THEN Enclosing(x, i)
                                          ELSE own[s[q].id]
             /\ s[q].id \in DOMAIN own /\ s[q].id \notin D
  <2>1. q \in 1..Len(s) /\ s[q].kind \in {"open", "self"}
    BY <1>2 DEF Named
  <2>2. i - 1 + q \in Named(y) /\ y[i - 1 + q].id = s[q].id
    BY <1>1, <1>2, <2>1 DEF Named
  <2>3. DepthAt(s, q - 1) = 0 <=> own[s[q].id] = 0
    BY <1>5, TopIs
  <2>4. ASSUME s[q].id \in D PROVE FALSE
    <3>1. PICK p \in Named(x) : p \in 1..Len(x) \ (i..e) /\ s[q].id = x[p].id
      BY <2>4 DEF NamesIn
    <3>2. Shifted(p, i, d) \in Named(y) /\ y[Shifted(p, i, d)].id = x[p].id
      BY <1>7, <3>1
    <3>3. Shifted(p, i, d) = i - 1 + q
      BY <1>2, <2>2, <3>1, <3>2 DEF Unique
    <3> QED BY <1>2, <1>3, <2>1, <3>1, <3>3 DEF Shifted
  <2> QED BY <1>1, <1>5, <2>1, <2>2, <2>3, <2>4
<1>9. ASSUME NEW k \in Named(y)
      PROVE  \/ \E q \in Named(s) : k = i - 1 + q
             \/ \E p \in Named(x) : p \notin i..e /\ k = Shifted(p, i, d)
  <2>1. k \in 1..Len(y) /\ y[k].kind \in {"open", "self"}
    BY <1>2 DEF Named
  <2> QED BY <1>1, <1>2, <2>1 DEF Named
<1>10. /\ DOMAIN F = D \union DOMAIN own
       /\ F = [id \in DOMAIN F |-> F[id]]
       /\ \A id \in D : F[id] = Parents(x)[id]
       /\ \A id \in DOMAIN own : id \notin D =>
            F[id] = IF own[id] = 0 THEN Enclosing(x, i) ELSE own[id]
  BY DEF Grafted, Kept
<1> HIDE DEF F
<1>11. DOMAIN Parents(y) = DOMAIN F
  <2>1. ASSUME NEW id \in DOMAIN Parents(y) PROVE id \in D \union DOMAIN own
    <3> HIDE DEF D
    <3>1. PICK k \in Named(y) : id = y[k].id
      BY <1>6
    <3>2. ASSUME NEW q \in Named(s), k = i - 1 + q PROVE id \in DOMAIN own
      BY <1>8, <3>1, <3>2
    <3>3. ASSUME NEW p \in Named(x), p \notin i..e, k = Shifted(p, i, d) PROVE id \in D
      BY <1>7, <3>1, <3>3
    <3> QED BY <1>9, <3>2, <3>3
  <2>2. \A id \in D : \E p \in Named(x) : p \notin i..e /\ id = x[p].id
    BY DEF NamesIn
  <2>3. ASSUME NEW id \in D PROVE id \in DOMAIN Parents(y)
    BY <1>6, <1>7, <2>2
  <2>4. ASSUME NEW id \in DOMAIN own PROVE id \in DOMAIN Parents(y)
    <3>1. PICK q \in Named(s) : id = s[q].id
      BY <1>5
    <3> QED BY <1>6, <1>8, <3>1
  <2> HIDE DEF D
  <2> QED BY <1>10, <2>1, <2>3, <2>4
<1>12. ASSUME NEW id \in DOMAIN Parents(y) PROVE Parents(y)[id] = F[id]
  <2>1. PICK k \in Named(y) : id = y[k].id
    BY <1>6
  <2>2. Parents(y)[id] = Enclosing(y, k)
    BY <1>6, <2>1
  <2>3. CASE \E q \in Named(s) : k = i - 1 + q
    <3>1. PICK q \in Named(s) : k = i - 1 + q
      BY <2>3
    <3> HIDE DEF D
    <3> QED BY <1>8, <1>10, <2>1, <2>2, <3>1
  <2>4. CASE \E p \in Named(x) : p \notin i..e /\ k = Shifted(p, i, d)
    <3>1. PICK p \in Named(x) : p \notin i..e /\ k = Shifted(p, i, d)
      BY <2>4
    <3> HIDE DEF D
    <3> QED BY <1>7, <1>10, <2>1, <2>2, <3>1
  <2> QED BY <1>9, <2>3, <2>4
<1>13. Parents(y) = F
  <2> HIDE DEF D
  <2> QED BY <1>6, <1>10, <1>11, <1>12
<1> QED BY <1>13 DEF y, F, D, own

\* Nothing put in, or nothing taken out, leaves the parents as they are.
LEMMA GraftNothing ==
  ASSUME NEW up, up = [id \in DOMAIN up |-> up[id]], NEW own, DOMAIN own = {}, NEW p
  PROVE  Grafted(up, own, p) = up
BY DEF Grafted

LEMMA KeptAll ==
  ASSUME NEW x, Xml(x), Unique(x)
  PROVE  Kept(Parents(x), NamesIn(x, 1..Len(x))) = Parents(x)
<1>1. /\ DOMAIN Parents(x) = {x[k].id : k \in Named(x)}
      /\ Parents(x) = [id \in DOMAIN Parents(x) |-> Parents(x)[id]]
  BY ParentsAre
<1>2. Named(x) \intersect (1..Len(x)) = Named(x)
  BY XmlShape DEF Named
<1> QED BY <1>1, <1>2 DEF Kept, NamesIn

\* What is put in before the tag k comes under the topic that tag is in.
LEMMA InsertParents ==
  ASSUME NEW x, NEW n, Sound(x, n), NEW s, Piece(s, x, n), NEW k \in 2..Len(x)
  PROVE  Parents(Splice(x, k, k - 1, s)) = Grafted(Parents(x), Parents(s), Enclosing(x, k))
<1>1. /\ Xml(x) /\ Unique(x) /\ Len(x) \in Nat /\ k \in Int /\ k - 1 \in Int
      /\ 1 <= k /\ k <= (k - 1) + 1 /\ k - 1 <= Len(x) /\ k <= Len(x) /\ k # 1
  BY SoundIs DEF Unique
<1>2. Xml(s) /\ Balanced(s) /\ Unique(s) /\ NamesWithin(s, n)
  BY DEF Piece, Fresh, Fits, Unique
<1>3. Even(x, k, k - 1)
  BY <1>1 DEF Even
<1>4. Sound(Splice(x, k, k - 1, s), n)
  BY InsertSound
<1>5. 1..Len(x) \ (k..k - 1) = 1..Len(x)
  BY <1>1
<1>6. Parents(Splice(x, k, k - 1, s)) =
        Grafted(Kept(Parents(x), NamesIn(x, 1..Len(x) \ (k..k - 1))), Parents(s),
                Enclosing(x, k))
  BY <1>1, <1>2, <1>3, <1>4, SwapParents
<1> QED BY <1>1, <1>5, <1>6, KeptAll

\* A subtree closes what it opens.
LEMMA SubtextEven ==
  ASSUME NEW x, NEW i \in Nat \ {0}, NEW e, Subtext(x, i, e)
  PROVE  Even(x, i, e)
<1>1. e \in Int /\ i - 1 \in Int
  BY DEF Subtext
<1>2. DepthAt(x, e) = DepthAt(x, i - 1) /\ DepthAt(x, i - 1) \in Int
  BY <1>1, DepthType DEF Subtext
<1>3. ASSUME NEW l \in i..e PROVE DepthAt(x, l) >= DepthAt(x, i - 1)
  <2>1. CASE l = e
    BY <1>2, <2>1
  <2>2. CASE l # e
    <3>1. l \in i..e - 1 /\ l \in Int
      BY <1>1, <2>2
    <3>2. DepthAt(x, l) > DepthAt(x, i - 1) /\ DepthAt(x, l) \in Int
      BY <3>1, DepthType DEF Subtext
    <3> QED BY <1>2, <3>2
  <2> QED BY <2>1, <2>2
<1> QED BY <1>2, <1>3 DEF Even

\* A subtree that is cut out takes its topics with it and no other.
LEMMA CutParents ==
  ASSUME NEW x, NEW n, Sound(x, n), NEW i \in 2..Len(x), NEW e, Subtext(x, i, e)
  PROVE  Parents(Splice(x, i, e, <<>>)) =
           Kept(Parents(x), NamesIn(x, 1..Len(x) \ (i..e)))
<1>1. /\ Len(x) \in Nat /\ i \in Int /\ e \in Int /\ 1 <= i /\ i <= e + 1 /\ e <= Len(x)
      /\ i <= Len(x) /\ i # 1
  BY SoundIs DEF Subtext
<1>2. Even(x, i, e)
  <2>1. i \in Nat \ {0}
    BY <1>1
  <2> QED BY <2>1, SubtextEven
<1>3. Xml(<<>>) /\ Named(<<>>) = {} /\ Len(<<>>) = 0
  BY XmlNone
<1>4. Balanced(<<>>) /\ Unique(<<>>) /\ NamesWithin(<<>>, n)
  BY <1>3, DepthStarts DEF Balanced, Unique, NamesWithin
<1>5. Sound(Splice(x, i, e, <<>>), n)
  BY CutLength
<1>6. Parents(Splice(x, i, e, <<>>)) =
        Grafted(Kept(Parents(x), NamesIn(x, 1..Len(x) \ (i..e))), Parents(<<>>),
                Enclosing(x, i))
  BY <1>1, <1>2, <1>3, <1>4, <1>5, SwapParents
<1>7. DOMAIN Parents(<<>>) = {}
  BY <1>3, <1>4, ParentsAre
<1> DEFINE up == Kept(Parents(x), NamesIn(x, 1..Len(x) \ (i..e)))
<1>8. up = [id \in DOMAIN up |-> up[id]]
  BY DEF Kept
<1> HIDE DEF up
<1>9. Grafted(up, Parents(<<>>), Enclosing(x, i)) = up
  BY <1>7, <1>8, GraftNothing
<1> QED BY <1>6, <1>9 DEF up

\* What a self-closing topic is opened around comes under it.
LEMMA ExpandedParents ==
  ASSUME NEW x, NEW n, Sound(x, n), NEW s, Piece(s, x, n),
         NEW i \in 1..Len(x), x[i].kind = "self"
  PROVE  Parents(Expanded(x, i, s)) = Grafted(Parents(x), Parents(s), x[i].id)
<1> DEFINE w == Wrapped([x[i] EXCEPT !.kind = "open"], s, Close)
           D == NamesIn(x, 1..Len(x) \ (i..i))
           F == Grafted(Kept(Parents(x), D), Parents(w), Enclosing(x, i))
           G == Grafted(Parents(x), Parents(s), x[i].id)
<1>1. Unfolds(w, s, x, n, i)
  BY WrappedIs
<1>2. Expanded(x, i, s) = Splice(x, i, i, w)
  BY DEF Expanded, Wrapped
<1>3. Sound(Splice(x, i, i, w), n)
  BY <1>2, ExpandedSound
<1> HIDE DEF w
<1>4. /\ Xml(x) /\ Unique(x) /\ DOMAIN x = 1..Len(x) /\ Len(x) \in Nat /\ NamesWithin(x, n)
      /\ Xml(s) /\ Balanced(s) /\ Unique(s) /\ NamesWithin(s, n) /\ DOMAIN s = 1..Len(s)
  BY SoundIs, XmlShape DEF Unique, Piece, Fresh, Fits
<1>5. /\ Len(s) \in Nat /\ Xml(w) /\ Len(w) = Len(s) + 2
      /\ w[1].kind = "open" /\ w[1].id = x[i].id
      /\ \A k \in 1..Len(s) : w[k + 1] = s[k]
      /\ 1 \in Named(w)
      /\ \A k \in Named(w) : k = 1 \/ (k - 1 \in Named(s) /\ w[k] = s[k - 1])
      /\ \A k \in 0..Len(s) : DepthAt(w, k + 1) = DepthAt(s, k) + 1
      /\ DepthAt(w, Len(w)) = 0 /\ \A k \in 1..Len(s) + 1 : DepthAt(w, k) >= 1
      /\ Unique(w) /\ NamesWithin(w, n)
  BY <1>1 DEF Unfolds, Fits, Unique
<1>6. Balanced(w)
  <2>1. ASSUME NEW k \in 1..Len(w) PROVE DepthAt(w, k) >= 0
    <3>1. k = Len(w) \/ k \in 1..Len(s) + 1
      BY <1>5
    <3>2. DepthAt(w, k) \in Int
      BY <1>5, DepthType
    <3> QED BY <1>5, <3>1, <3>2
  <2> QED BY <1>5, <2>1 DEF Balanced
<1>7. Even(x, i, i)
  <2>1. DepthAt(x, i) = DepthAt(x, i - 1) /\ DepthAt(x, i - 1) \in Int
    BY <1>4, DepthSteps
  <2> QED BY <2>1 DEF Even
<1>8. Parents(Splice(x, i, i, w)) = F
  <2>1. i \in Int /\ 1 <= i /\ i <= i + 1 /\ i <= Len(x) /\ i # 0
    BY <1>4
  <2> QED BY <1>3, <1>4, <1>5, <1>6, <1>7, <2>1, SwapParents
<1>9. i \in Named(x) /\ x[i].id # 0
  BY <1>4 DEF Named, NamesWithin
<1>10. Enclosing(w, 1) = 0
  <2>1. 1 \in Nat \ {0} /\ 1 - 1 = 0 /\ \A l \in 0..1 - 1 : l = 0
    OBVIOUS
  <2>2. DepthAt(w, 1 - 1) = 0 /\ \A l \in 0..1 - 1 : DepthAt(w, l) >= 0
    BY <2>1, DepthStarts
  <2> QED BY <2>1, <2>2, NothingAround
<1>11. ASSUME NEW q \in Named(s)
       PROVE  /\ q + 1 \in Named(w) /\ w[q + 1] = s[q]
              /\ Enclosing(w, q + 1) = IF Enclosing(s, q) = 0 THEN x[i].id ELSE Enclosing(s, q)
  <2>1. /\ q \in 1..Len(s) /\ s[q].kind \in {"open", "self"} /\ q + 1 \in Nat \ {0}
        /\ q \in Nat \ {0} /\ (q + 1) - 1 = q /\ q - 1 \in 0..Len(s) /\ (q - 1) + 1 = q
    BY <1>4, <1>5 DEF Named
  <2>2. q + 1 \in Named(w) /\ w[q + 1] = s[q]
    <3>1. DOMAIN w = 1..Len(s) + 2 /\ q + 1 \in 1..Len(s) + 2
      BY <1>5, <2>1, XmlShape
    <3> QED BY <1>5, <2>1, <3>1 DEF Named
  <2>3. DepthAt(s, q - 1) = 0 <=> Enclosing(s, q) = 0
    BY <1>4, TopIs
  <2>4. /\ DepthAt(w, q) = DepthAt(s, q - 1) + 1 /\ DepthAt(s, q - 1) \in Int
        /\ DepthAt(w, 1) = 1
    <3>1. 0 \in 0..Len(s) /\ 0 + 1 = 1 /\ q - 1 \in Int
      BY <1>5, <2>1
    <3>2. DepthAt(w, 0 + 1) = DepthAt(s, 0) + 1
      BY <1>5, <3>1
    <3>3. DepthAt(s, q - 1) \in Int
      BY <3>1, DepthType
    <3>4. DepthAt(w, 1) = 1
      BY <3>1, <3>2, DepthStarts
    <3> QED BY <1>5, <2>1, <3>3, <3>4
  <2>5. CASE DepthAt(s, q - 1) = 0
    <3>1. 1 \in 1..(q + 1) - 1 /\ \A l \in 1..(q + 1) - 1 : l \in 1..Len(s) + 1
      BY <1>5, <2>1
    <3>2. Around(w, 1, q + 1)
      BY <1>5, <2>1, <2>4, <2>5, <3>1 DEF Around
    <3>3. Enclosing(w, q + 1) = w[1].id
      BY <2>1, <3>2, AroundEncloses
    <3> QED BY <1>5, <2>2, <2>3, <2>5, <3>3
  <2>6. CASE DepthAt(s, q - 1) # 0
    <3>1. PICK a \in 1..q - 1 : Around(s, a, q)
      BY <1>4, <2>1, <2>6, BalancedAround
    <3>2. /\ s[a].kind = "open" /\ DepthAt(s, q - 1) = DepthAt(s, a)
          /\ \A l \in a..q - 1 : DepthAt(s, l) >= DepthAt(s, a)
      BY <3>1 DEF Around
    <3>3. /\ a \in 1..Len(s) /\ a \in 0..Len(s) /\ a + 1 \in 1..(q + 1) - 1 /\ a \in Int
          /\ w[a + 1] = s[a] /\ DepthAt(w, a + 1) = DepthAt(s, a) + 1
      <4>1. Len(s) \in Nat /\ q \in 1..Len(s)
        BY <1>5, <2>1
      <4>2. a \in 1..Len(s) /\ a \in 0..Len(s) /\ a + 1 \in 1..(q + 1) - 1 /\ a \in Int
        BY <4>1
      <4> QED BY <1>5, <4>2
    <3>4. ASSUME NEW l \in a + 1..(q + 1) - 1 PROVE DepthAt(w, l) >= DepthAt(w, a + 1)
      <4>1. l - 1 \in a..q - 1 /\ l - 1 \in 0..Len(s) /\ (l - 1) + 1 = l /\ l - 1 \in Int
        BY <1>5, <2>1, <3>3
      <4>2. DepthAt(w, l) = DepthAt(s, l - 1) + 1
        BY <1>5, <4>1
      <4>3. /\ DepthAt(s, l - 1) >= DepthAt(s, a)
            /\ DepthAt(s, l - 1) \in Int /\ DepthAt(s, a) \in Int
        BY <3>2, <3>3, <4>1, DepthType
      <4> QED BY <3>3, <4>2, <4>3
    <3>5. Around(w, a + 1, q + 1)
      BY <2>1, <2>4, <3>2, <3>3, <3>4 DEF Around
    <3>6. Enclosing(w, q + 1) = w[a + 1].id /\ Enclosing(s, q) = s[a].id
      BY <2>1, <3>1, <3>5, AroundEncloses
    <3> QED BY <2>2, <2>3, <2>6, <3>3, <3>6
  <2> QED BY <2>5, <2>6
<1>12. /\ DOMAIN Parents(x) = {x[k].id : k \in Named(x)}
       /\ \A k \in Named(x) : Parents(x)[x[k].id] = Enclosing(x, k)
  BY <1>4, ParentsAre
<1>13. /\ DOMAIN Parents(s) = {s[k].id : k \in Named(s)}
       /\ \A k \in Named(s) : Parents(s)[s[k].id] = Enclosing(s, k)
  BY <1>4, ParentsAre
<1>14. /\ DOMAIN Parents(w) = {w[k].id : k \in Named(w)}
       /\ \A k \in Named(w) : Parents(w)[w[k].id] = Enclosing(w, k)
  <2>1. Xml(w) /\ Unique(w)
    BY <1>5
  <2> QED BY <2>1, ParentsAre
<1>15. /\ DOMAIN Parents(w) = DOMAIN Parents(s) \union {x[i].id}
       /\ Parents(w)[x[i].id] = 0
       /\ \A id \in DOMAIN Parents(s) :
            Parents(w)[id] = IF Parents(s)[id] = 0 THEN x[i].id ELSE Parents(s)[id]
  <2>1. Parents(w)[x[i].id] = 0 /\ x[i].id \in DOMAIN Parents(w)
    BY <1>5, <1>10, <1>14
  <2>2. ASSUME NEW id \in DOMAIN Parents(s)
        PROVE  /\ id \in DOMAIN Parents(w)
               /\ Parents(w)[id] = IF Parents(s)[id] = 0 THEN x[i].id ELSE Parents(s)[id]
    <3>1. PICK q \in Named(s) : id = s[q].id
      BY <1>13
    <3> QED BY <1>11, <1>13, <1>14, <3>1
  <2>3. ASSUME NEW id \in DOMAIN Parents(w), id # x[i].id PROVE id \in DOMAIN Parents(s)
    <3>1. PICK k \in Named(w) : id = w[k].id
      BY <1>14
    <3>2. k # 1
      BY <1>5, <2>3, <3>1
    <3> QED BY <1>5, <1>13, <3>1, <3>2
  <2> QED BY <2>1, <2>2, <2>3
<1>16. /\ DOMAIN Parents(x) = D \union {x[i].id} /\ x[i].id \notin D
       /\ Parents(x)[x[i].id] = Enclosing(x, i)
  <2>1. ASSUME NEW k \in Named(x), k # i PROVE x[k].id \in D
    <3>1. k \in 1..Len(x) /\ k \notin i..i
      BY <1>4, <2>1 DEF Named
    <3> QED BY <3>1 DEF NamesIn
  <2>2. D \subseteq DOMAIN Parents(x)
    BY <1>12 DEF NamesIn
  <2>3. ASSUME x[i].id \in D PROVE FALSE
    <3>1. PICK k \in Named(x) : k \in 1..Len(x) \ (i..i) /\ x[k].id = x[i].id
      BY <2>3 DEF NamesIn
    <3>2. k = i
      BY <1>4, <1>9, <3>1 DEF Unique
    <3> QED BY <3>1, <3>2
  <2>4. \A id \in DOMAIN Parents(x) : id \in D \union {x[i].id}
    <3> HIDE DEF D
    <3> QED BY <1>12, <2>1
  <2> HIDE DEF D
  <2> QED BY <1>9, <1>12, <2>2, <2>3, <2>4
<1>17. \A id \in DOMAIN Parents(s) : id \notin DOMAIN Parents(x)
  BY <1>12, <1>13, <1>4 DEF Piece, Fresh, Fits
<1> HIDE DEF D
<1>18. F = G
  <2>1. /\ DOMAIN F = D \union DOMAIN Parents(w)
        /\ DOMAIN G = DOMAIN Parents(x) \union DOMAIN Parents(s)
        /\ F = [id \in DOMAIN F |-> F[id]] /\ G = [id \in DOMAIN G |-> G[id]]
        /\ \A id \in DOMAIN F : F[id] = IF id \in D THEN Parents(x)[id]
                                        ELSE IF Parents(w)[id] = 0 THEN Enclosing(x, i)
                                        ELSE Parents(w)[id]
        /\ \A id \in DOMAIN G : G[id] = IF id \in DOMAIN Parents(x) THEN Parents(x)[id]
                                        ELSE IF Parents(s)[id] = 0 THEN x[i].id
                                        ELSE Parents(s)[id]
    BY DEF Grafted, Kept
  <2> HIDE DEF F, G
  <2>2. DOMAIN F = DOMAIN G
    BY <1>15, <1>16, <2>1
  <2>3. ASSUME NEW id \in DOMAIN F PROVE F[id] = G[id]
    <3>1. CASE id \in D
      BY <1>16, <2>1, <2>2, <3>1
    <3>2. CASE id = x[i].id
      BY <1>15, <1>16, <2>1, <2>2, <3>2
    <3>3. CASE id \in DOMAIN Parents(s)
      <4>1. id \notin DOMAIN Parents(x) /\ id \notin D
        BY <1>16, <1>17, <3>3
      <4>2. G[id] = IF Parents(s)[id] = 0 THEN x[i].id ELSE Parents(s)[id]
        BY <2>1, <2>2, <4>1
      <4>3. F[id] = IF Parents(w)[id] = 0 THEN Enclosing(x, i) ELSE Parents(w)[id]
        BY <2>1, <4>1
      <4> QED BY <1>9, <1>15, <3>3, <4>2, <4>3
    <3> QED BY <1>15, <1>16, <2>1, <3>1, <3>2, <3>3
  <2> QED BY <2>1, <2>2, <2>3
<1> QED BY <1>2, <1>8, <1>18
----------------------------------------------------------------------------
(* What each edit makes of the parents *)

\* New values change no topic's place.
LEMMA RevaluedParents ==
  ASSUME NEW x, NEW n, Sound(x, n), NEW y, Revalued(x, y)
  PROVE  Parents(y) = Parents(x)
<1>1. /\ Xml(x) /\ Unique(x) /\ Len(x) \in Nat /\ DOMAIN x = 1..Len(x)
      /\ Xml(y) /\ Len(y) = Len(x) /\ DOMAIN y = 1..Len(y)
      /\ \A k \in 1..Len(x) : y[k].kind = x[k].kind /\ y[k].id = x[k].id
  BY SoundIs, XmlShape DEF Unique, Revalued
<1>2. Named(y) = Named(x) /\ \A k \in Named(x) : k \in 1..Len(x) /\ y[k].id = x[k].id
  BY <1>1 DEF Named
<1>3. Unique(y)
  BY <1>1, <1>2 DEF Unique
<1>4. ASSUME NEW k \in Named(x) PROVE Enclosing(y, k) = Enclosing(x, k)
  <2> DEFINE X == {j \in 1..k - 1 : x[j].kind = "open" /\ DepthAt(x, k - 1) = DepthAt(x, j)}
             Y == {j \in 1..k - 1 : y[j].kind = "open" /\ DepthAt(y, k - 1) = DepthAt(y, j)}
  <2>1. k \in 1..Len(x) /\ k \in Nat \ {0} /\ k - 1 \in Nat /\ k - 1 \in 0..Len(x)
    BY <1>1, <1>2
  <2>2. \A j \in 1..k - 1 : j \in 1..Len(x) /\ j \in 0..Len(x)
    BY <1>1, <2>1
  <2>3. \A j \in 0..Len(x) : DepthAt(y, j) = DepthAt(x, j)
    BY <1>1, RevaluedDepth
  <2>4. X = Y
    BY <1>1, <2>1, <2>2, <2>3
  <2>5. EnclosingIndex(x, k) = LastOf(X) /\ EnclosingIndex(y, k) = LastOf(Y)
    BY <2>1, OpenersAre
  <2>6. LastOf(X) # 0 => LastOf(X) \in 1..Len(x)
    <3>1. X \in SUBSET (1..k - 1)
      OBVIOUS
    <3> HIDE DEF X
    <3>2. LastOf(X) # 0 => LastOf(X) \in X
      BY <2>1, <3>1, LastAmong
    <3> QED BY <2>2, <3>1, <3>2
  <2> HIDE DEF X, Y
  <2> QED BY <1>1, <2>4, <2>5, <2>6 DEF Enclosing, HasParent
<1>5. /\ DOMAIN Parents(x) = {x[k].id : k \in Named(x)}
      /\ Parents(x) = [id \in DOMAIN Parents(x) |-> Parents(x)[id]]
      /\ \A k \in Named(x) : Parents(x)[x[k].id] = Enclosing(x, k)
  BY <1>1, ParentsAre
<1>6. /\ DOMAIN Parents(y) = {y[k].id : k \in Named(y)}
      /\ Parents(y) = [id \in DOMAIN Parents(y) |-> Parents(y)[id]]
      /\ \A k \in Named(y) : Parents(y)[y[k].id] = Enclosing(y, k)
  BY <1>1, <1>3, ParentsAre
<1>7. DOMAIN Parents(y) = DOMAIN Parents(x)
  BY <1>2, <1>5, <1>6
<1>8. ASSUME NEW id \in DOMAIN Parents(x) PROVE Parents(y)[id] = Parents(x)[id]
  <2>1. PICK k \in Named(x) : id = x[k].id
    BY <1>5
  <2> QED BY <1>2, <1>4, <1>5, <1>6, <2>1
<1> QED BY <1>5, <1>6, <1>7, <1>8

\* A piece without topics brings no parents.
LEMMA LeafParents ==
  ASSUME NEW t, IsTag(t), t.kind \in {"mark", "arrow"}
  PROVE  DOMAIN Parents(<<t>>) = {}
<1>1. Xml(<<t>>) /\ Named(<<t>>) = {}
  BY XmlOne, OneDepth
<1>2. Unique(<<t>>)
  BY <1>1 DEF Unique
<1> QED BY <1>1, <1>2, ParentsAre

\* A tag that is no topic leaves the others where they are.
LEMMA LeafCutParents ==
  ASSUME NEW x, NEW n, Sound(x, n), NEW i \in 1..Len(x), x[i].kind \in {"mark", "arrow"}
  PROVE  Parents(Splice(x, i, i, <<>>)) = Parents(x)
<1>1. Xml(x) /\ Unique(x) /\ Len(x) \in Nat /\ DOMAIN x = 1..Len(x) /\ 1 \in Named(x)
  BY SoundIs DEF Unique
<1>2. i \in 2..Len(x) /\ i \notin Named(x)
  BY <1>1 DEF Named
<1>3. Subtext(x, i, i)
  <2>1. DepthAt(x, i) = DepthAt(x, i - 1) /\ DepthAt(x, i) \in Int
    BY <1>1, DepthSteps
  <2>2. i \in i..Len(x) /\ i..i - 1 = {}
    BY <1>1
  <2> QED BY <2>1, <2>2 DEF Subtext
<1>4. Parents(Splice(x, i, i, <<>>)) = Kept(Parents(x), NamesIn(x, 1..Len(x) \ (i..i)))
  BY <1>2, <1>3, CutParents
<1>5. NamesIn(x, 1..Len(x) \ (i..i)) = NamesIn(x, 1..Len(x))
  <2>1. Named(x) \intersect (1..Len(x) \ (i..i)) = Named(x) \intersect (1..Len(x))
    BY <1>2
  <2> QED BY <2>1 DEF NamesIn
<1> QED BY <1>1, <1>4, <1>5, KeptAll
\* What comes in a topic, first or last, comes under it.
LEMMA InsertFirstParents ==
  ASSUME NEW x, NEW n, Sound(x, n), NEW s, Piece(s, x, n),
         NEW i \in 1..Len(x), x[i].kind \in {"open", "self"}
  PROVE  Parents(InsertFirst(x, i, s)) = Grafted(Parents(x), Parents(s), x[i].id)
<1>1. CASE x[i].kind = "self"
  BY <1>1, ExpandedParents DEF InsertFirst
<1>2. CASE x[i].kind = "open"
  <2>1. i + 1 \in 2..Len(x)
    BY <1>2, OpensInside
  <2>2. Len(x) \in Nat /\ DepthAt(x, i) \in Int
    BY SoundIs, DepthType
  <2>3. i + 1 \in Nat \ {0} /\ (i + 1) - 1 = i /\ i \in 1..i /\ \A l \in i..i : l = i
    BY <2>2
  <2>4. Enclosing(x, i + 1) = x[i].id
    <3>1. Around(x, i, i + 1)
      BY <1>2, <2>2, <2>3 DEF Around
    <3> QED BY <2>3, <3>1, AroundEncloses
  <2>5. Parents(Splice(x, i + 1, (i + 1) - 1, s)) =
          Grafted(Parents(x), Parents(s), Enclosing(x, i + 1))
    BY <2>1, InsertParents
  <2> QED BY <1>2, <2>3, <2>4, <2>5 DEF InsertFirst
<1> QED BY <1>1, <1>2

LEMMA InsertLastParents ==
  ASSUME NEW x, NEW n, Sound(x, n), NEW s, Piece(s, x, n),
         NEW i \in 1..Len(x), x[i].kind \in {"open", "self"},
         x[i].kind = "self" \/ MatchingClose(x, i) # 0
  PROVE  Parents(InsertLast(x, i, s)) = Grafted(Parents(x), Parents(s), x[i].id)
<1>1. CASE x[i].kind = "self"
  BY <1>1, ExpandedParents DEF InsertLast
<1>2. CASE x[i].kind # "self"
  <2> DEFINE c == MatchingClose(x, i)
  <2>1. InsertLast(x, i, s) = Splice(x, c, c - 1, s)
    BY <1>2 DEF InsertLast
  <2>2. Xml(x) /\ Len(x) \in Nat /\ x[i].kind = "open"
    BY <1>2, SoundIs
  <2>3. /\ c \in i + 1..Len(x) /\ DepthAt(x, c - 1) = DepthAt(x, i)
        /\ \A k \in i..c - 1 : DepthAt(x, k) >= DepthAt(x, i)
    BY <1>2, <2>2, MatchingCloseIs
  <2> HIDE DEF c
  <2>4. c \in 2..Len(x) /\ c \in Nat \ {0} /\ i \in 1..c - 1
    BY <2>2, <2>3
  <2>5. Around(x, i, c)
    BY <2>2, <2>3, <2>4 DEF Around
  <2>6. Enclosing(x, c) = x[i].id
    BY <2>4, <2>5, AroundEncloses
  <2>7. Parents(Splice(x, c, c - 1, s)) = Grafted(Parents(x), Parents(s), Enclosing(x, c))
    BY <2>4, InsertParents
  <2> QED BY <2>1, <2>6, <2>7
<1> QED BY <1>1, <1>2

\* Behind a subtree is the topic that it is in.
LEMMA BehindSubtext ==
  ASSUME NEW x, NEW n, Sound(x, n), NEW i \in 2..Len(x), NEW e, Subtext(x, i, e)
  PROVE  Enclosing(x, e + 1) = Enclosing(x, i)
<1>1. /\ Len(x) \in Nat /\ e \in i..Len(x) /\ DepthAt(x, e) = DepthAt(x, i - 1)
      /\ \A k \in i..e - 1 : DepthAt(x, k) > DepthAt(x, i - 1)
  BY SoundIs DEF Subtext
<1>2. i \in 1..Len(x) /\ i # 1 /\ i \in Nat \ {0} /\ e + 1 \in Nat \ {0} /\ (e + 1) - 1 = e
  BY <1>1
<1>3. PICK j \in 1..i - 1 : Around(x, j, i)
  BY <1>2, SoundAround
<1>4. /\ x[j].kind = "open" /\ DepthAt(x, i - 1) = DepthAt(x, j)
      /\ \A l \in j..i - 1 : DepthAt(x, l) >= DepthAt(x, j)
  BY <1>3 DEF Around
<1>5. ASSUME NEW l \in j..e PROVE DepthAt(x, l) >= DepthAt(x, j)
  <2>1. l \in Int /\ j \in Int /\ (l \in j..i - 1 \/ l \in i..e - 1 \/ l = e)
    BY <1>1, <1>2
  <2>2. DepthAt(x, l) \in Int /\ DepthAt(x, j) \in Int
    BY <2>1, DepthType
  <2> QED BY <1>1, <1>4, <2>1, <2>2
<1>6. j \in 1..e
  BY <1>1, <1>2
<1>7. Around(x, j, e + 1)
  BY <1>1, <1>2, <1>4, <1>5, <1>6 DEF Around
<1>8. Enclosing(x, i) = x[j].id /\ Enclosing(x, e + 1) = x[j].id
  BY <1>2, <1>3, <1>7, AroundEncloses
<1> QED BY <1>8

\* The parents with one topic more, n under p.
Planted(up, n, p) == [id \in DOMAIN up \union {n} |-> IF id = n THEN p ELSE up[id]]

LEMMA PlantedIs ==
  ASSUME NEW up, NEW own, NEW n, n \notin DOMAIN up, DOMAIN own = {n}, own[n] = 0, NEW p
  PROVE  Grafted(up, own, p) = Planted(up, n, p)
BY DEF Grafted, Planted

\* A new topic brings itself, and its name is new.
LEMMA TopicParents ==
  ASSUME NEW x, NEW n \in Nat, Sound(x, n), NEW p
  PROVE  Grafted(Parents(x), Parents(<<Self(n, 0)>>), p) = Planted(Parents(x), n, p)
<1> DEFINE t == Self(n, 0)
<1>1. IsTag(t) /\ t.kind = "self" /\ t.id = n
  BY DEF IsTag, Begun, Self, Tag
<1> HIDE DEF t
<1>2. Xml(<<t>>) /\ Len(<<t>>) = 1 /\ <<t>>[1] = t
  BY <1>1, XmlOne
<1>3. Balanced(<<t>>) /\ Named(<<t>>) = {1}
  <2>1. 1 \in Named(<<t>>)
    BY <1>1, <1>2, XmlShape DEF Named
  <2> QED BY <1>1, <2>1, OneDepth
<1>4. Unique(<<t>>)
  BY <1>3 DEF Unique
<1>5. Enclosing(<<t>>, 1) = 0
  <2>1. 1 \in 1..Len(<<t>>) /\ 1 - 1 = 0
    BY <1>2
  <2> QED BY <1>2, <1>3, <2>1, BalancedAround, DepthStarts
<1>6. DOMAIN Parents(<<t>>) = {n} /\ Parents(<<t>>)[n] = 0
  <2>1. /\ DOMAIN Parents(<<t>>) = {<<t>>[k].id : k \in Named(<<t>>)}
        /\ \A k \in Named(<<t>>) : Parents(<<t>>)[<<t>>[k].id] = Enclosing(<<t>>, k)
    BY <1>2, <1>4, ParentsAre
  <2>2. <<t>>[1].id = n /\ 1 \in Named(<<t>>)
    BY <1>1, <1>2, <1>3
  <2>3. Parents(<<t>>)[n] = 0
    BY <1>5, <2>1, <2>2
  <2>4. {<<t>>[k].id : k \in Named(<<t>>)} = {n}
    BY <1>3, <2>2
  <2> QED BY <2>1, <2>3, <2>4
<1>7. n \notin DOMAIN Parents(x)
  <2>1. DOMAIN Parents(x) = {x[k].id : k \in Named(x)}
    <3>1. Xml(x) /\ Unique(x)
      BY SoundIs DEF Unique
    <3> QED BY <3>1, ParentsAre
  <2>2. \A k \in Named(x) : x[k].id \in Nat /\ x[k].id < n
    BY DEF Sound, NamesWithin
  <2>3. \A k \in Named(x) : x[k].id # n
    BY <2>2
  <2> QED BY <2>1, <2>3
<1> QED BY <1>6, <1>7, PlantedIs DEF t
\* Parents() of a sound text, as a function of its topics' names.
LEMMA ParentsOf ==
  ASSUME NEW x, NEW n, Sound(x, n)
  PROVE  /\ Xml(x) /\ Unique(x) /\ Len(x) \in Nat /\ DOMAIN x = 1..Len(x)
         /\ DOMAIN Parents(x) = {x[k].id : k \in Named(x)}
         /\ Parents(x) = [id \in DOMAIN Parents(x) |-> Parents(x)[id]]
         /\ \A k \in Named(x) : Parents(x)[x[k].id] = Enclosing(x, k)
<1>1. Xml(x) /\ Unique(x) /\ Len(x) \in Nat /\ DOMAIN x = 1..Len(x)
  BY SoundIs DEF Unique
<1> QED BY <1>1, ParentsAre

\* appendMindmapChild()
LEMMA ChildParents ==
  ASSUME NEW x, NEW n \in Nat, Sound(x, n), NEW parent,
         appendMindmapChild(x, parent, n) # x
  PROVE  Parents(appendMindmapChild(x, parent, n)) = Planted(Parents(x), n, parent)
<1> DEFINE i == IndexOf(x, parent)
           s == <<Self(n, 0)>>
<1>1. Sound(x, n + 1) /\ Xml(x) /\ Piece(s, x, n + 1)
  BY SoundMore, SoundIs, TopicPiece
<1>2. i # 0 /\ appendMindmapChild(x, parent, n) = InsertLast(x, i, s)
  BY DEF appendMindmapChild
<1>3. i \in 1..Len(x) /\ x[i].kind \in {"open", "self"} /\ x[i].id = parent
  BY <1>1, <1>2, IndexIs
<1> HIDE DEF i
<1>4. x[i].kind = "self" \/ MatchingClose(x, i) # 0
  BY <1>2 DEF InsertLast
<1>5. Grafted(Parents(x), Parents(s), x[i].id) = Planted(Parents(x), n, x[i].id)
  BY TopicParents
<1> HIDE DEF s
<1>6. Parents(InsertLast(x, i, s)) = Grafted(Parents(x), Parents(s), x[i].id)
  BY <1>1, <1>3, <1>4, InsertLastParents
<1> QED BY <1>2, <1>3, <1>5, <1>6

\* appendMindmapSibling()
LEMMA SiblingParents ==
  ASSUME NEW x, NEW n \in Nat, Sound(x, n), NEW sibling, NEW place,
         appendMindmapSibling(x, sibling, place, n) # x
  PROVE  Parents(appendMindmapSibling(x, sibling, place, n)) =
           Planted(Parents(x), n, Parents(x)[sibling])
<1> DEFINE i == IndexOf(x, sibling)
           e == EndOf(x, i)
           k == IF place = "before" THEN i ELSE e + 1
           s == <<Self(n, 0)>>
<1>1. Sound(x, n + 1) /\ Piece(s, x, n + 1) /\ Xml(x)
  BY SoundMore, SoundIs, TopicPiece
<1>2. /\ i # 0 /\ HasParent(x, i) /\ e # 0
      /\ appendMindmapSibling(x, sibling, place, n) = Splice(x, k, k - 1, s)
  BY DEF appendMindmapSibling
<1>3. /\ i \in 2..Len(x) /\ e + 1 \in 2..Len(x) /\ Subtext(x, i, e)
      /\ i \in Named(x) /\ x[i].id = sibling
  BY <1>1, <1>2, IndexIs, TopicIs
<1>4. Grafted(Parents(x), Parents(s), Enclosing(x, i)) = Planted(Parents(x), n, Enclosing(x, i))
  BY TopicParents
<1> HIDE DEF i, e, s
<1>5. k \in 2..Len(x) /\ (k = i \/ k = e + 1)
  BY <1>3
<1>6. Enclosing(x, k) = Enclosing(x, i)
  BY <1>3, <1>5, BehindSubtext
<1>7. Enclosing(x, i) = Parents(x)[sibling]
  BY <1>3, ParentsOf
<1> HIDE DEF k
<1>8. Parents(Splice(x, k, k - 1, s)) = Grafted(Parents(x), Parents(s), Enclosing(x, k))
  BY <1>1, <1>5, InsertParents
<1> QED BY <1>2, <1>4, <1>6, <1>7, <1>8

\* updateMindmapNodeText() and updateMindmapArrowlink() take a new value.
LEMMA TextParents ==
  ASSUME NEW x, NEW n, Sound(x, n), NEW id, NEW text
  PROVE  Parents(updateMindmapNodeText(x, id, text)) = Parents(x)
<1> DEFINE i == IndexOf(x, id)
<1>1. CASE i = 0
  BY <1>1 DEF updateMindmapNodeText
<1>2. CASE i # 0
  <2>1. i \in 1..Len(x) /\ Xml(x)
    BY <1>2, SoundIs, IndexIs
  <2> HIDE DEF i
  <2>2. Revalued(x, [x EXCEPT ![i].value = text])
    BY <2>1, RetextAt
  <2>3. Parents([x EXCEPT ![i].value = text]) = Parents(x)
    BY <2>2, RevaluedParents
  <2> QED BY <1>2, <2>3 DEF updateMindmapNodeText, i
<1> QED BY <1>1, <1>2

LEMMA RetargetParents ==
  ASSUME NEW x, NEW n, Sound(x, n), NEW id, NEW to
  PROVE  Parents(updateMindmapArrowlink(x, id, to)) = Parents(x)
<1> DEFINE i == ArrowIndex(x, id)
<1>1. CASE i = 0
  BY <1>1 DEF updateMindmapArrowlink
<1>2. CASE i # 0
  <2>1. i \in 1..Len(x) /\ Xml(x)
    BY <1>2, SoundIs, ArrowIs
  <2>2. Parents([x EXCEPT ![i].value = to]) = Parents(x)
    <3> HIDE DEF i
    <3>1. Revalued(x, [x EXCEPT ![i].value = to])
      BY <2>1, RetextAt
    <3> QED BY <2>1, <3>1, RevaluedParents
  <2> QED BY <1>2, <2>1, <2>2, RetargetIs
<1> QED BY <1>1, <1>2

\* addMindmapNodeIcon()
LEMMA MarkParents ==
  ASSUME NEW x, NEW n, Sound(x, n), NEW id
  PROVE  Parents(addMindmapNodeIcon(x, id)) = Parents(x)
<1> DEFINE i == IndexOf(x, id)
<1>1. IsTag(Mark) /\ Mark.kind = "mark"
  BY DEF Mark, IsTag, Begun, Tag
<1>2. Piece(<<Mark>>, x, n) /\ DOMAIN Parents(<<Mark>>) = {}
  BY <1>1, LeafPiece, LeafParents
<1>3. CASE i = 0 \/ MarksOf(x, i) # {}
  BY <1>3 DEF addMindmapNodeIcon
<1>4. CASE i # 0 /\ MarksOf(x, i) = {}
  <2>1. i \in 1..Len(x) /\ x[i].kind \in {"open", "self"}
    BY <1>4, SoundIs, IndexIs
  <2> HIDE DEF i
  <2>2. Parents(InsertFirst(x, i, <<Mark>>)) = Grafted(Parents(x), Parents(<<Mark>>), x[i].id)
    BY <1>2, <2>1, InsertFirstParents
  <2>3. Grafted(Parents(x), Parents(<<Mark>>), x[i].id) = Parents(x)
    BY <1>2, ParentsOf, GraftNothing
  <2> QED BY <1>4, <2>2, <2>3 DEF addMindmapNodeIcon, i
<1> QED BY <1>3, <1>4

\* removeMindmapNodeIcon()
LEMMA UnmarkParents ==
  ASSUME NEW x, NEW n, Sound(x, n), NEW id
  PROVE  Parents(removeMindmapNodeIcon(x, id)) = Parents(x)
<1> DEFINE i == IndexOf(x, id)
           j == First(MarksOf(x, i))
<1>1. CASE i = 0 \/ j = 0
  BY <1>1 DEF removeMindmapNodeIcon
<1>2. CASE i # 0 /\ j # 0
  <2>1. i \in 1..Len(x) /\ x[i].kind \in {"open", "self"}
    BY <1>2, SoundIs, IndexIs
  <2> HIDE DEF i
  <2>2. j \in 1..Len(x) /\ x[j].kind = "mark"
    BY <1>2, <2>1, MarkIs
  <2> HIDE DEF j
  <2>3. Parents(Splice(x, j, j, <<>>)) = Parents(x)
    BY <2>2, LeafCutParents
  <2> QED BY <1>2, <2>3 DEF removeMindmapNodeIcon, i, j
<1> QED BY <1>1, <1>2

\* appendMindmapArrowlink()
LEMMA ArrowParents ==
  ASSUME NEW x, NEW n, Sound(x, n), NEW source, NEW id, NEW to
  PROVE  Parents(appendMindmapArrowlink(x, source, id, to)) = Parents(x)
<1> DEFINE i == IndexOf(x, source)
           t == Tag("arrow", id, to)
<1>1. IsTag(t) /\ t.kind = "arrow"
  BY DEF IsTag, Begun, Tag
<1> HIDE DEF t
<1>2. Piece(<<t>>, x, n) /\ DOMAIN Parents(<<t>>) = {}
  BY <1>1, LeafPiece, LeafParents
<1>3. CASE i = 0
  BY <1>3 DEF appendMindmapArrowlink
<1>4. CASE i # 0
  <2>1. i \in 1..Len(x) /\ x[i].kind \in {"open", "self"}
    BY <1>4, SoundIs, IndexIs
  <2> HIDE DEF i
  <2>2. Grafted(Parents(x), Parents(<<t>>), x[i].id) = Parents(x)
    BY <1>2, ParentsOf, GraftNothing
  <2>3. Parents(InsertFirst(x, i, <<t>>)) = Parents(x)
    BY <1>2, <2>1, <2>2, InsertFirstParents
  <2>4. CASE EndOf(x, i) = 0
    BY <1>4, <2>3, <2>4 DEF appendMindmapArrowlink, i, t
  <2>5. CASE EndOf(x, i) # 0
    <3>1. x[i].kind = "self" \/ MatchingClose(x, i) # 0
      BY <2>5 DEF EndOf
    <3>2. Parents(InsertLast(x, i, <<t>>)) = Parents(x)
      BY <1>2, <2>1, <2>2, <3>1, InsertLastParents
    <3> QED BY <1>4, <2>5, <3>2 DEF appendMindmapArrowlink, i, t
  <2> QED BY <2>4, <2>5
<1> QED BY <1>3, <1>4

\* removeMindmapArrowlink()
LEMMA UnarrowParents ==
  ASSUME NEW x, NEW n, Sound(x, n), NEW id
  PROVE  Parents(removeMindmapArrowlink(x, id)) = Parents(x)
<1> DEFINE i == ArrowIndex(x, id)
<1>1. CASE i = 0
  BY <1>1 DEF removeMindmapArrowlink
<1>2. CASE i # 0
  <2>1. i \in 1..Len(x) /\ x[i].kind = "arrow"
    BY <1>2, SoundIs, ArrowIs
  <2> HIDE DEF i
  <2>2. Parents(Splice(x, i, i, <<>>)) = Parents(x)
    BY <2>1, LeafCutParents
  <2> QED BY <1>2, <2>2 DEF removeMindmapArrowlink, i
<1> QED BY <1>1, <1>2
----------------------------------------------------------------------------
(* What removing and moving make of the parents *)

\* What is below the top of a subtree is in one of its topics.
LEMMA InsideSubtext ==
  ASSUME NEW x, NEW n, Sound(x, n), NEW i \in 2..Len(x), NEW e, Subtext(x, i, e),
         NEW k \in i + 1..e
  PROVE  \E j \in i..k - 1 : Around(x, j, k)
<1>1. /\ Len(x) \in Nat /\ e \in i..Len(x)
      /\ \A l \in i..e - 1 : DepthAt(x, l) > DepthAt(x, i - 1)
  BY SoundIs DEF Subtext
<1>2. /\ i \in Nat \ {0} /\ k \in 1..Len(x) /\ k # 1 /\ k - 1 \in i..e - 1
      /\ i - 1 \in Int /\ k - 1 \in Int
  BY <1>1
<1>3. PICK j \in 1..k - 1 : Around(x, j, k)
  BY <1>2, SoundAround
<1>4. ASSUME j < i PROVE FALSE
  <2>1. i - 1 \in j..k - 1 /\ j \in Int
    BY <1>1, <1>2, <1>4
  <2>2. DepthAt(x, i - 1) >= DepthAt(x, j) /\ DepthAt(x, k - 1) = DepthAt(x, j)
    BY <1>3, <2>1 DEF Around
  <2>3. DepthAt(x, k - 1) > DepthAt(x, i - 1)
    BY <1>1, <1>2
  <2>4. DepthAt(x, i - 1) \in Int /\ DepthAt(x, j) \in Int
    BY <1>2, <2>1, DepthType
  <2> QED BY <2>2, <2>3, <2>4
<1>5. j \in i..k - 1
  BY <1>2, <1>4
<1> QED BY <1>3, <1>5

\* The topics of a subtree by itself: its top is in none, any other where it was.
LEMMA SubtextEnclosing ==
  ASSUME NEW x, NEW n, Sound(x, n), NEW i \in 2..Len(x), NEW e, Subtext(x, i, e),
         NEW k \in i..e
  PROVE  Enclosing(SubSeq(x, i, e), k - i + 1) = IF k = i THEN 0 ELSE Enclosing(x, k)
<1> DEFINE s == SubSeq(x, i, e)
<1>1. Xml(x) /\ Len(x) \in Nat /\ e \in i..Len(x) /\ i \in 1..Len(x) /\ i \in Int /\ e \in Int
  BY SoundIs DEF Subtext
<1>2. /\ Len(s) = e - i + 1 /\ \A q \in 1..e - i + 1 : s[q] = x[i + q - 1]
  <2>1. 1 <= i /\ e <= Len(x) /\ i <= e
    BY <1>1
  <2> QED BY <1>1, <2>1, XmlSubSeq
<1>3. Xml(s) /\ Balanced(s)
  BY SubtreePiece DEF Piece
<1>4. \A q \in 0..e - i + 1 : DepthAt(s, q) = DepthAt(x, i + q - 1) - DepthAt(x, i - 1)
  BY <1>1, SubtextDepth
<1> HIDE DEF s
<1>5. CASE k = i
  <2>1. k - i + 1 = 1 /\ 1 \in 1..Len(s) /\ 1 - 1 = 0
    BY <1>1, <1>2, <1>5
  <2>2. Enclosing(s, 1) = 0
    BY <1>3, <2>1, BalancedAround, DepthStarts
  <2> QED BY <1>5, <2>1, <2>2 DEF s
<1>6. CASE k # i
  <2>1. k \in i + 1..e /\ k \in Int
    BY <1>1, <1>6
  <2>2. PICK j \in i..k - 1 : Around(x, j, k)
    BY <2>1, InsideSubtext
  <2>3. /\ x[j].kind = "open" /\ DepthAt(x, k - 1) = DepthAt(x, j)
        /\ \A l \in j..k - 1 : DepthAt(x, l) >= DepthAt(x, j)
    BY <2>2 DEF Around
  <2> DEFINE a == j - i + 1
             q == k - i + 1
  <2>4. /\ j \in Int /\ a \in 1..e - i + 1 /\ a \in 1..q - 1 /\ a \in 0..e - i + 1
        /\ q - 1 \in 0..e - i + 1
        /\ i + a - 1 = j /\ i + (q - 1) - 1 = k - 1 /\ q \in Nat \ {0} /\ k \in Nat \ {0}
    BY <1>1, <2>1
  <2> HIDE DEF a, q
  <2>5. s[a] = x[j]
    BY <1>2, <2>4
  <2>6. /\ DepthAt(s, a) = DepthAt(x, j) - DepthAt(x, i - 1)
        /\ DepthAt(s, q - 1) = DepthAt(x, k - 1) - DepthAt(x, i - 1)
    BY <1>4, <2>4
  <2>7. ASSUME NEW l \in a..q - 1 PROVE DepthAt(s, l) >= DepthAt(s, a)
    <3>1. l \in 0..e - i + 1 /\ i + l - 1 \in j..k - 1 /\ i + l - 1 \in Int
      BY <1>1, <2>1, <2>4 DEF a, q
    <3>2. DepthAt(s, l) = DepthAt(x, i + l - 1) - DepthAt(x, i - 1)
      BY <1>4, <3>1
    <3>3. DepthAt(x, i + l - 1) >= DepthAt(x, j)
      BY <2>3, <3>1
    <3>4. /\ DepthAt(x, i + l - 1) \in Int /\ DepthAt(x, j) \in Int
          /\ DepthAt(x, i - 1) \in Int
      BY <1>1, <2>4, <3>1, DepthType
    <3> QED BY <2>6, <3>2, <3>3, <3>4
  <2>8. Around(s, a, q)
    BY <2>3, <2>4, <2>5, <2>6, <2>7 DEF Around
  <2>9. Enclosing(s, q) = s[a].id /\ Enclosing(x, k) = x[j].id
    BY <2>2, <2>4, <2>8, AroundEncloses
  <2> QED BY <1>6, <2>5, <2>9 DEF q, s
<1> QED BY <1>5, <1>6

\* Topic id under p, and what is below it with it.
Rehung(up, id, p) == [up EXCEPT ![id] = p]

\* A subtree cut out and put under p takes its topics along as they are.
LEMMA RegraftIs ==
  ASSUME NEW x, NEW n, Sound(x, n), NEW i \in 2..Len(x), i \in Named(x), NEW e,
         Subtext(x, i, e), NEW p
  PROVE  Grafted(Kept(Parents(x), NamesIn(x, 1..Len(x) \ (i..e))),
                 Parents(SubSeq(x, i, e)), p) =
           Rehung(Parents(x), x[i].id, p)
<1> DEFINE s == SubSeq(x, i, e)
           L == NamesIn(x, 1..Len(x) \ (i..e))
           up == Parents(x)
           own == Parents(s)
           F == Grafted(Kept(up, L), own, p)
<1>1. /\ Xml(x) /\ Unique(x) /\ Len(x) \in Nat /\ DOMAIN x = 1..Len(x)
      /\ DOMAIN up = {x[k].id : k \in Named(x)}
      /\ up = [id \in DOMAIN up |-> up[id]]
      /\ \A k \in Named(x) : up[x[k].id] = Enclosing(x, k)
  BY ParentsOf
<1>2. e \in i..Len(x) /\ i \in Int /\ e \in Int
  BY <1>1 DEF Subtext
<1>3. /\ Len(s) = e - i + 1 /\ \A q \in 1..e - i + 1 : s[q] = x[i + q - 1]
  <2>1. 1 <= i /\ e <= Len(x) /\ i <= e
    BY <1>1, <1>2
  <2> QED BY <1>1, <1>2, <2>1, XmlSubSeq
<1>4. Xml(s) /\ Unique(s) /\ DOMAIN s = 1..Len(s)
  <2>1. Piece(s, Splice(x, i, e, <<>>), n)
    BY SubtreePiece
  <2> QED BY <2>1, XmlShape DEF Piece, Fresh, Fits, Unique
<1>5. /\ DOMAIN own = {s[q].id : q \in Named(s)}
      /\ \A q \in Named(s) : own[s[q].id] = Enclosing(s, q)
  BY <1>4, ParentsAre
<1>6. \A k \in i..e : Enclosing(s, k - i + 1) = IF k = i THEN 0 ELSE Enclosing(x, k)
  BY SubtextEnclosing
<1> HIDE DEF s, own, up
<1>7. ASSUME NEW k \in Named(x), k \in i..e
      PROVE  /\ x[k].id \in DOMAIN own /\ x[k].id \notin L
             /\ own[x[k].id] = IF k = i THEN 0 ELSE up[x[k].id]
  <2>1. k - i + 1 \in 1..e - i + 1 /\ i + (k - i + 1) - 1 = k /\ k \in Int
    BY <1>2, <1>7
  <2>2. s[k - i + 1] = x[k]
    BY <1>3, <2>1
  <2>3. k - i + 1 \in Named(s)
    BY <1>3, <1>4, <2>1, <2>2 DEF Named
  <2>4. own[x[k].id] = Enclosing(s, k - i + 1)
    BY <1>5, <2>2, <2>3
  <2>5. ASSUME x[k].id \in L PROVE FALSE
    <3>1. PICK l \in Named(x) : l \in 1..Len(x) \ (i..e) /\ x[k].id = x[l].id
      BY <2>5 DEF NamesIn
    <3> QED BY <1>1, <1>7, <3>1 DEF Unique
  <2> QED BY <1>1, <1>5, <1>6, <1>7, <2>2, <2>3, <2>4, <2>5
<1>8. ASSUME NEW q \in Named(s)
      PROVE  \E k \in Named(x) : k \in i..e /\ s[q].id = x[k].id
  <2>1. q \in 1..e - i + 1 /\ s[q].kind \in {"open", "self"}
    BY <1>3, <1>4 DEF Named
  <2>2. i + q - 1 \in i..e /\ i + q - 1 \in 1..Len(x) /\ s[q] = x[i + q - 1]
    BY <1>1, <1>2, <1>3, <2>1
  <2>3. i + q - 1 \in Named(x)
    BY <1>1, <2>1, <2>2 DEF Named
  <2> QED BY <2>2, <2>3
<1>9. ASSUME NEW k \in Named(x), k \notin i..e PROVE x[k].id \in L
  <2>1. k \in 1..Len(x) \ (i..e)
    BY <1>1, <1>9 DEF Named
  <2> QED BY <2>1 DEF NamesIn
<1>10. /\ L \subseteq DOMAIN up
  BY <1>1 DEF NamesIn
<1>11. /\ DOMAIN F = L \union DOMAIN own
       /\ F = [id \in DOMAIN F |-> F[id]]
       /\ \A id \in L : F[id] = up[id]
       /\ \A id \in DOMAIN own : id \notin L => F[id] = IF own[id] = 0 THEN p ELSE own[id]
  BY DEF Grafted, Kept
<1> HIDE DEF F, L
<1>12. DOMAIN F = DOMAIN up
  <2>1. ASSUME NEW id \in DOMAIN up PROVE id \in L \union DOMAIN own
    <3>1. PICK k \in Named(x) : id = x[k].id
      BY <1>1
    <3> QED BY <1>7, <1>9, <3>1
  <2>2. ASSUME NEW id \in DOMAIN own PROVE id \in DOMAIN up
    <3>1. PICK q \in Named(s) : id = s[q].id
      BY <1>5
    <3> QED BY <1>1, <1>8, <3>1
  <2> QED BY <1>10, <1>11, <2>1, <2>2
<1>13. ASSUME NEW id \in DOMAIN up PROVE F[id] = IF id = x[i].id THEN p ELSE up[id]
  <2>1. PICK k \in Named(x) : id = x[k].id
    BY <1>1
  <2>2. k = i <=> id = x[i].id
    BY <1>1, <2>1 DEF Unique
  <2>3. CASE k \notin i..e
    <3>1. k # i
      BY <1>2, <2>3
    <3> QED BY <1>9, <1>11, <2>1, <2>2, <2>3, <3>1
  <2>4. CASE k \in i..e
    <3>1. F[id] = IF own[id] = 0 THEN p ELSE own[id]
      BY <1>7, <1>11, <2>1, <2>4
    <3>2. own[id] = IF k = i THEN 0 ELSE up[id]
      BY <1>7, <2>1, <2>4
    <3>3. k # i => up[id] # 0
      <4>1. ASSUME k # i PROVE up[id] # 0
        <5>1. k \in i + 1..e
          BY <1>2, <2>4, <4>1
        <5>2. PICK j \in i..k - 1 : Around(x, j, k)
          BY <5>1, InsideSubtext
        <5>3. k \in Nat \ {0} /\ j \in 1..Len(x)
          BY <1>1, <1>2, <5>1
        <5>4. up[id] = x[j].id
          BY <1>1, <2>1, <5>2, <5>3, AroundEncloses
        <5>5. j \in Named(x)
          BY <1>1, <5>2, <5>3 DEF Around, Named
        <5> QED BY <5>4, <5>5 DEF Sound, NamesWithin
      <4> QED BY <4>1
    <3> QED BY <2>2, <3>1, <3>2, <3>3
  <2> QED BY <2>3, <2>4
<1>14. F = [id \in DOMAIN up |-> IF id = x[i].id THEN p ELSE up[id]]
  BY <1>11, <1>12, <1>13
<1>15. Rehung(up, x[i].id, p) = [id \in DOMAIN up |-> IF id = x[i].id THEN p ELSE up[id]]
  BY DEF Rehung
<1> QED BY <1>14, <1>15 DEF F, L, up, own, s
\* With a subtree cut out, a place that stays is in the topic it was in.
LEMMA CutEnclosing ==
  ASSUME NEW x, NEW n, Sound(x, n), NEW i \in 2..Len(x), NEW e, Subtext(x, i, e),
         NEW k \in 2..Len(x), k \notin i + 1..e
  PROVE  Enclosing(Splice(x, i, e, <<>>), IF k > i THEN k - (e - i + 1) ELSE k) =
           Enclosing(x, k)
<1>1. /\ Xml(x) /\ Len(x) \in Nat /\ e \in i..Len(x) /\ i \in Int /\ e \in Int /\ k \in Int
      /\ 1 <= i /\ i <= e + 1 /\ e <= Len(x) /\ i <= Len(x) /\ i # 1 /\ i \in 1..Len(x)
      /\ i \in Nat \ {0} /\ k \in 1..Len(x)
  BY SoundIs DEF Subtext
<1>2. Even(x, i, e)
  BY <1>1, SubtextEven
<1>3. Xml(<<>>) /\ Len(<<>>) = 0 /\ Balanced(<<>>)
  BY XmlNone, DepthStarts DEF Balanced
<1>4. CASE k = i
  <2>1. PICK j \in 1..i - 1 : Around(x, j, i)
    BY <1>1, SoundAround
  <2>2. 1 \in 1..Len(<<>>) + 1 /\ DepthAt(<<>>, 1 - 1) = 0 /\ i - 1 + 1 = i
    BY <1>1, <1>3, DepthStarts
  <2>3. Around(Splice(x, i, e, <<>>), j, i) /\ Splice(x, i, e, <<>>)[j] = x[j]
    BY <1>1, <1>2, <1>3, <2>1, <2>2, SwapInside
  <2>4. Enclosing(Splice(x, i, e, <<>>), i) = Enclosing(x, i)
    BY <1>1, <2>1, <2>3, AroundEncloses
  <2> QED BY <1>1, <1>4, <2>4
<1>5. CASE k # i
  <2>1. k \notin i..e
    BY <1>1, <1>5
  <2>2. Enclosing(Splice(x, i, e, <<>>), Shifted(k, i, Len(<<>>) - (e - i + 1))) =
          Enclosing(x, k)
    BY <1>1, <1>2, <1>3, <2>1, SwapEnclosing
  <2>3. Shifted(k, i, Len(<<>>) - (e - i + 1)) = IF k > i THEN k - (e - i + 1) ELSE k
    BY <1>1, <1>3, <1>5 DEF Shifted
  <2> QED BY <2>2, <2>3
<1> QED BY <1>4, <1>5

\* A subtree put between two tags comes under the topic they are in.
LEMMA CutAndPasteParents ==
  ASSUME NEW x, NEW n, Sound(x, n), NEW i \in 2..Len(x), i \in Named(x), NEW e,
         Subtext(x, i, e), NEW k \in 2..Len(x), k \notin i + 1..e
  PROVE  Parents(CutAndPaste(x, i, e, k, SubSeq(x, i, e))) =
           Rehung(Parents(x), x[i].id, Enclosing(x, k))
<1> DEFINE s == SubSeq(x, i, e)
           y == Splice(x, i, e, <<>>)
           a == IF k > i THEN k - (e - i + 1) ELSE k
<1>1. Sound(y, n)
  BY CutLength
<1>2. Piece(s, y, n)
  BY SubtreePiece
<1>3. a \in 2..Len(y) /\ CutAndPaste(x, i, e, k, s) = Splice(y, a, a - 1, s)
  BY CutAndPasteIs
<1>4. Enclosing(y, a) = Enclosing(x, k)
  BY CutEnclosing
<1>5. Parents(y) = Kept(Parents(x), NamesIn(x, 1..Len(x) \ (i..e)))
  BY CutParents
<1>6. Grafted(Parents(y), Parents(s), Enclosing(x, k)) =
        Rehung(Parents(x), x[i].id, Enclosing(x, k))
  BY <1>5, RegraftIs
<1> HIDE DEF s, y, a
<1>7. Parents(Splice(y, a, a - 1, s)) = Grafted(Parents(y), Parents(s), Enclosing(y, a))
  BY <1>1, <1>2, <1>3, InsertParents
<1>8. Parents(CutAndPaste(x, i, e, k, s)) = Rehung(Parents(x), x[i].id, Enclosing(x, k))
  BY <1>3, <1>4, <1>6, <1>7
<1> QED BY <1>8 DEF s

\* A subtree that a self-closing topic is opened around comes under that topic.
LEMMA MoveIntoParents ==
  ASSUME NEW x, NEW n, Sound(x, n), NEW i \in 2..Len(x), i \in Named(x), NEW e,
         Subtext(x, i, e), NEW t \in 1..Len(x), t \notin i..e, x[t].kind = "self"
  PROVE  Parents(MoveInto(x, i, e, t, SubSeq(x, i, e))) =
           Rehung(Parents(x), x[i].id, x[t].id)
<1> DEFINE s == SubSeq(x, i, e)
           y == Splice(x, i, e, <<>>)
           a == IF t > i THEN t - (e - i + 1) ELSE t
<1>1. Sound(y, n)
  BY CutLength
<1>2. Piece(s, y, n)
  BY SubtreePiece
<1>3. a \in 1..Len(y) /\ y[a] = x[t] /\ MoveInto(x, i, e, t, s) = Expanded(y, a, s)
  BY MoveIntoIs
<1>4. Parents(y) = Kept(Parents(x), NamesIn(x, 1..Len(x) \ (i..e)))
  BY CutParents
<1>5. Grafted(Parents(y), Parents(s), x[t].id) = Rehung(Parents(x), x[i].id, x[t].id)
  BY <1>4, RegraftIs
<1> HIDE DEF s, y, a
<1>6. Parents(Expanded(y, a, s)) = Grafted(Parents(y), Parents(s), y[a].id)
  BY <1>1, <1>2, <1>3, ExpandedParents
<1>7. Parents(MoveInto(x, i, e, t, s)) = Rehung(Parents(x), x[i].id, x[t].id)
  BY <1>3, <1>5, <1>6
<1> QED BY <1>7 DEF s

\* moveMindmapNode(): under the target, or, next to it, under the parent the page named.
LEMMA MoveParents ==
  ASSUME NEW x, NEW n, Sound(x, n), NEW id, NEW parent, NEW target, NEW place,
         moveMindmapNode(x, id, parent, target, place) # x
  PROVE  Parents(moveMindmapNode(x, id, parent, target, place)) =
           Rehung(Parents(x), id, IF place = "inside" THEN target ELSE parent)
<1> DEFINE i == IndexOf(x, id)
           t == IndexOf(x, target)
           e == EndOf(x, i)
           s == SubSeq(x, i, e)
           y == moveMindmapNode(x, id, parent, target, place)
<1>1. i # 0 /\ t # 0 /\ HasParent(x, i) /\ e # 0 /\ t \notin i..e
  BY DEF moveMindmapNode
<1>2. i \in 2..Len(x) /\ Subtext(x, i, e)
  BY <1>1, TopicIs
<1>3. /\ Xml(x) /\ Len(x) \in Nat
      /\ i \in Named(x) /\ x[i].kind \in {"open", "self"} /\ x[i].id = id
      /\ t \in 1..Len(x) /\ x[t].kind \in {"open", "self"} /\ x[t].id = target
  BY <1>1, SoundIs, IndexIs
<1>4. CASE place = "inside" /\ x[t].kind = "self"
  <2>1. y = MoveInto(x, i, e, t, s)
    BY <1>1, <1>4 DEF moveMindmapNode, MoveInto
  <2> HIDE DEF i, e, t, y
  <2>2. t \notin i..e
    BY <1>1
  <2>3. Parents(MoveInto(x, i, e, t, s)) = Rehung(Parents(x), x[i].id, x[t].id)
    BY <1>2, <1>3, <1>4, <2>2, MoveIntoParents
  <2> HIDE DEF s
  <2>4. Parents(y) = Rehung(Parents(x), id, IF place = "inside" THEN target ELSE parent)
    BY <1>3, <1>4, <2>1, <2>3
  <2> QED BY <2>4 DEF y
<1>5. CASE place = "inside" /\ x[t].kind # "self"
  <2> DEFINE c == MatchingClose(x, t)
  <2>1. y = IF c = 0 THEN x ELSE CutAndPaste(x, i, e, c, s)
    BY <1>1, <1>5 DEF moveMindmapNode
  <2>2. y # x
    OBVIOUS
  <2> HIDE DEF i, e, t, y
  <2>3. c # 0 /\ y = CutAndPaste(x, i, e, c, s)
    BY <2>1, <2>2
  <2>4. c \notin i..e /\ c \in t + 1..Len(x) /\ x[t].kind = "open"
    BY <1>1, <1>2, <1>3, <1>5, <2>3, EndsOutside
  <2>5. Around(x, t, c)
    <3>1. /\ DepthAt(x, c - 1) = DepthAt(x, t)
          /\ \A k \in t..c - 1 : DepthAt(x, k) >= DepthAt(x, t)
      BY <1>3, <2>3, MatchingCloseIs
    <3> HIDE DEF c
    <3>2. t \in 1..c - 1
      BY <1>3, <2>4
    <3> QED BY <2>4, <3>1, <3>2 DEF Around
  <2> HIDE DEF c
  <2>6. c \in 2..Len(x) /\ c \notin i + 1..e /\ c \in Nat \ {0}
    BY <1>2, <1>3, <2>4
  <2>7. Enclosing(x, c) = target
    BY <1>3, <2>5, <2>6, AroundEncloses
  <2>8. Parents(CutAndPaste(x, i, e, c, s)) = Rehung(Parents(x), x[i].id, Enclosing(x, c))
    BY <1>2, <1>3, <2>6, CutAndPasteParents
  <2> HIDE DEF s
  <2>9. Parents(y) = Rehung(Parents(x), id, IF place = "inside" THEN target ELSE parent)
    BY <1>3, <1>5, <2>3, <2>7, <2>8
  <2> QED BY <2>9 DEF y
<1>6. CASE place # "inside"
  <2> DEFINE f == EndOf(x, t)
             k == IF place = "before" THEN t ELSE f + 1
  <2>1. HasParent(x, t) /\ f # 0 /\ Enclosing(x, t) = parent
    BY <1>1, <1>6 DEF moveMindmapNode
  <2>2. y = CutAndPaste(x, i, e, k, s)
    BY <1>1, <1>6, <2>1 DEF moveMindmapNode
  <2>3. t \in 2..Len(x) /\ f \in t..Len(x) /\ f + 1 \in 2..Len(x) /\ Subtext(x, t, f)
    BY <1>1, <2>1, TopicIs
  <2>4. e \in i..Len(x)
    BY <1>2 DEF Subtext
  <2>5. f \notin i..e
    <3>1. CASE x[t].kind = "self"
      BY <1>1, <3>1 DEF EndOf
    <3>2. CASE x[t].kind = "open"
      <4>1. f = MatchingClose(x, t)
        BY <3>2 DEF EndOf
      <4> HIDE DEF i, e, t, f
      <4> QED BY <1>1, <1>2, <1>3, <2>1, <3>2, <4>1, EndsOutside
    <3> QED BY <1>3, <3>1, <3>2
  <2> HIDE DEF i, e, t, f
  <2>6. k \in 2..Len(x) /\ k \notin i + 1..e /\ (k = t \/ k = f + 1)
    BY <1>1, <1>2, <1>3, <2>3, <2>4, <2>5
  <2>7. Enclosing(x, k) = parent
    <3>1. Enclosing(x, f + 1) = Enclosing(x, t)
      BY <2>3, BehindSubtext
    <3> HIDE DEF k
    <3> QED BY <2>1, <2>6, <3>1
  <2> HIDE DEF k, y
  <2>8. Parents(CutAndPaste(x, i, e, k, s)) = Rehung(Parents(x), x[i].id, Enclosing(x, k))
    BY <1>2, <1>3, <2>6, CutAndPasteParents
  <2> HIDE DEF s
  <2>9. Parents(y) = Rehung(Parents(x), id, IF place = "inside" THEN target ELSE parent)
    BY <1>3, <1>6, <2>2, <2>7, <2>8
  <2> QED BY <2>9 DEF y
<1> QED BY <1>3, <1>4, <1>5, <1>6

\* Of the topics those in left are left: not id, and not those in one that is gone.
Pruning(up, id, left) ==
  left = {k \in DOMAIN up : k # id /\ up[k] \in left \union {0}}

\* removeMindmapNode(): the topic goes with all that is in it, the others stay.
LEMMA RemoveParents ==
  ASSUME NEW x, NEW n, Sound(x, n), NEW id, removeMindmapNode(x, id) # x
  PROVE  \E left : /\ Parents(removeMindmapNode(x, id)) = Kept(Parents(x), left)
                   /\ Pruning(Parents(x), id, left)
<1> DEFINE i == IndexOf(x, id)
           e == EndOf(x, i)
           up == Parents(x)
           L == NamesIn(x, 1..Len(x) \ (i..e))
<1>1. /\ i # 0 /\ HasParent(x, i) /\ e # 0
      /\ removeMindmapNode(x, id) = Splice(x, i, e, <<>>)
  BY DEF removeMindmapNode
<1>2. i \in 2..Len(x) /\ Subtext(x, i, e)
  BY <1>1, TopicIs
<1>3. /\ Xml(x) /\ Unique(x) /\ Len(x) \in Nat /\ DOMAIN x = 1..Len(x)
      /\ DOMAIN up = {x[k].id : k \in Named(x)}
      /\ \A k \in Named(x) : up[x[k].id] = Enclosing(x, k)
  BY ParentsOf
<1>4. i \in Named(x) /\ x[i].id = id
  BY <1>1, <1>3, IndexIs
<1> HIDE DEF i, e, up
<1>5. e \in i..Len(x) /\ i \in Int /\ e \in Int /\ i \in Nat \ {0}
  BY <1>2, <1>3 DEF Subtext
<1>6. Parents(Splice(x, i, e, <<>>)) = Kept(up, L)
  BY <1>2, CutParents DEF up
<1>7. ASSUME NEW k \in Named(x), k \notin i..e
      PROVE  x[k].id \in L /\ x[k].id # id /\ up[x[k].id] \in L \union {0}
  <2>1. k \in 1..Len(x) \ (i..e) /\ k \in Nat \ {0}
    BY <1>3, <1>7 DEF Named
  <2>2. x[k].id \in L
    BY <2>1 DEF NamesIn
  <2>3. x[k].id # id
    <3>1. k # i
      BY <1>5, <1>7
    <3> QED BY <1>3, <1>4, <3>1 DEF Unique
  <2>4. up[x[k].id] = Enclosing(x, k)
    BY <1>3
  <2>5. CASE k = 1
    BY <2>1, <2>2, <2>3, <2>4, <2>5, SoundAround
  <2>6. CASE k # 1
    <3>1. PICK j \in 1..k - 1 : Around(x, j, k)
      BY <2>1, <2>6, SoundAround
    <3>2. j \notin i..e
      <4>1. Even(x, i, e) /\ 1 <= i
        BY <1>2, <1>5, SubtextEven
      <4> QED BY <1>5, <1>7, <2>1, <3>1, <4>1, EvenApart
    <3>3. j \in 1..Len(x) \ (i..e)
      BY <1>3, <2>1, <3>1, <3>2
    <3>4. j \in Named(x)
      BY <1>3, <3>1, <3>3 DEF Around, Named
    <3>5. x[j].id \in L
      BY <3>3, <3>4 DEF NamesIn
    <3>6. Enclosing(x, k) = x[j].id
      BY <2>1, <3>1, AroundEncloses
    <3> HIDE DEF L
    <3> QED BY <2>2, <2>3, <2>4, <3>5, <3>6
  <2> QED BY <2>5, <2>6
<1>8. ASSUME NEW k \in Named(x), k \in i..e, x[k].id # id
      PROVE  up[x[k].id] \notin L \union {0}
  <2>1. k # i
    BY <1>4, <1>8
  <2>2. k \in i + 1..e /\ k \in Nat \ {0}
    BY <1>5, <1>8, <2>1
  <2>3. PICK j \in i..k - 1 : Around(x, j, k)
    BY <1>2, <2>2, InsideSubtext
  <2>4. j \in 1..Len(x) /\ j \in i..e
    BY <1>3, <1>5, <2>2
  <2>5. up[x[k].id] = x[j].id
    BY <1>3, <2>2, <2>3, AroundEncloses
  <2>6. j \in Named(x)
    BY <1>3, <2>3, <2>4 DEF Around, Named
  <2>7. x[j].id # 0
    BY <2>6 DEF Sound, NamesWithin
  <2>8. ASSUME x[j].id \in L PROVE FALSE
    <3>1. PICK l \in Named(x) : l \in 1..Len(x) \ (i..e) /\ x[j].id = x[l].id
      BY <2>8 DEF NamesIn
    <3> QED BY <1>3, <2>4, <2>6, <3>1 DEF Unique
  <2> QED BY <2>5, <2>7, <2>8
<1>9. \A l \in L : \E k \in Named(x) : k \notin i..e /\ l = x[k].id
  BY DEF NamesIn
<1> HIDE DEF L
<1>10. Pruning(up, id, L)
  <2> DEFINE R == {k \in DOMAIN up : k # id /\ up[k] \in L \union {0}}
  <2>1. ASSUME NEW l \in L PROVE l \in R
    <3>1. PICK k \in Named(x) : k \notin i..e /\ l = x[k].id
      BY <1>9
    <3> QED BY <1>3, <1>7, <3>1
  <2>2. ASSUME NEW l \in R PROVE l \in L
    <3>1. PICK k \in Named(x) : l = x[k].id
      BY <1>3
    <3> QED BY <1>7, <1>8, <3>1
  <2>3. L = R
    BY <2>1, <2>2
  <2> QED BY <2>3 DEF Pruning
<1> QED BY <1>1, <1>6, <1>10 DEF up
==============================================================================

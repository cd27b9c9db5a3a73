------------------------ MODULE WikilinkIndex_proofs ------------------------
(***************************************************************************)
(* The index of the notes, the links painted from it and the question      *)
(* whether to create a note are true to the folder, for any notes, any     *)
(* number of builds under way and any order they end in, unless a change   *)
(* has not been reported or overtook a listing that is still in use.       *)
(*                                                                         *)
(* A listing that no change overtook is the folder's, so what is stored    *)
(* from it is. What the page has not forgotten came from such an index,    *)
(* and while there is no index the page has forgotten everything, or will  *)
(* have when it has read its messages.                                     *)
(***************************************************************************)
EXTENDS WikilinkIndex, TLAPS

Waiting == SUBSET (Note \X {"resolve", "open"})

\* The build that is waited for is under way.
PromiseKept == promise # None => build[promise] # Idle

\* Nothing a build has listed is older than the folder.
ListingsFresh == ~overtaken => \A b \in Listings : build[b].listed = notes

\* The messages after the i-th leave standing what the page knows by then.
Stands(i) == \A j \in (i + 1)..Len(toPage) : toPage[j].type # "workspaceIndexChanged"

True(r) == r = Result(notes, r[1])

\* What the page knows, or will have read, is true.
KnownIsTrue ==
  ~watch /\ ~overtaken =>
    /\ Stands(0) => \A n \in Note : cache[n] # "pending" => True(<<n, cache[n]>>)
    /\ \A i \in 1..Len(toPage) :
         Stands(i) /\ toPage[i].type = "resolved" => \A r \in toPage[i].results : True(r)

\* Without an index the page knows nothing, or will forget it.
NothingKnown ==
  index = None =>
    /\ Stands(0) => \A n \in Note : cache[n] = "pending"
    /\ \A i \in 1..Len(toPage) : Stands(i) => toPage[i].type = "workspaceIndexChanged"

\* The inductive invariant.
IInv ==
  /\ TypeOK
  /\ PromiseKept /\ ListingsFresh /\ IndexIsFresh
  /\ KnownIsTrue /\ NothingKnown

LEMMA InitInv == Init => IInv
<1> SUFFICES ASSUME Init PROVE IInv
  OBVIOUS
<1> USE DEF Init
<1>1. toHost \in Seq(Request) /\ toPage \in Seq(Reply) /\ 1..Len(toPage) = {}
  OBVIOUS
<1>2. TypeOK
  <2>1. changes \in 0..MaxChanges /\ requests \in 0..MaxAsked
    BY BoundAssumption
  <2>2. build \in [Build -> Working \union {Idle}] /\ cache \in [Note -> Status]
    BY DEF Status
  <2> QED BY <1>1, <2>1, <2>2 DEF TypeOK
<1>3. PromiseKept /\ ListingsFresh /\ IndexIsFresh
  <2>1. \A b \in Build : build[b].phase = "idle"
    BY DEF Idle
  <2> QED BY <2>1 DEF PromiseKept, ListingsFresh, Listings, IndexIsFresh
<1>4. \A n \in Note : cache[n] = "pending"
  OBVIOUS
<1>5. KnownIsTrue /\ NothingKnown
  BY <1>1, <1>4 DEF KnownIsTrue, NothingKnown
<1> QED BY <1>2, <1>3, <1>5 DEF IInv

----------------------------------------------------------------------------
(* Messages and replies *)

LEMMA Append1 ==
  ASSUME NEW S, NEW s \in Seq(S), NEW m \in S
  PROVE  /\ Append(s, m) \in Seq(S)
         /\ Len(Append(s, m)) = Len(s) + 1 /\ Len(s) \in Nat
         /\ \A i \in 1..Len(s) : Append(s, m)[i] = s[i]
         /\ Append(s, m)[Len(s) + 1] = m
OBVIOUS

LEMMA Tail1 ==
  ASSUME NEW S, NEW s \in Seq(S), s # <<>>
  PROVE  /\ Tail(s) \in Seq(S) /\ Head(s) \in S /\ Head(s) = s[1]
         /\ Len(Tail(s)) = Len(s) - 1 /\ Len(s) \in Nat /\ Len(s) > 0
         /\ \A i \in 1..Len(Tail(s)) : Tail(s)[i] = s[i + 1]
OBVIOUS

\* The page's messages before a new one stand when it is no change.
LEMMA StandsAppend ==
  ASSUME toPage \in Seq(Reply), NEW m \in Reply, toPage' = Append(toPage, m)
  PROVE  /\ toPage' \in Seq(Reply)
         /\ Len(toPage') = Len(toPage) + 1 /\ Len(toPage) \in Nat
         /\ \A i \in 1..Len(toPage) : toPage'[i] = toPage[i]
         /\ toPage'[Len(toPage) + 1] = m
         /\ \A i \in 0..Len(toPage) :
              Stands(i)' <=> Stands(i) /\ m.type # "workspaceIndexChanged"
<1>1. /\ toPage' \in Seq(Reply)
      /\ Len(toPage') = Len(toPage) + 1 /\ Len(toPage) \in Nat
      /\ \A i \in 1..Len(toPage) : toPage'[i] = toPage[i]
      /\ toPage'[Len(toPage) + 1] = m
  BY Append1
<1>2. ASSUME NEW i \in 0..Len(toPage)
      PROVE  Stands(i)' <=> Stands(i) /\ m.type # "workspaceIndexChanged"
  <2>1. (i + 1)..Len(toPage') = ((i + 1)..Len(toPage)) \union {Len(toPage) + 1}
    BY <1>1
  <2>2. \A j \in (i + 1)..Len(toPage) : j \in 1..Len(toPage)
    BY <1>1
  <2> QED BY <1>1, <2>1, <2>2 DEF Stands
<1> QED BY <1>1, <1>2

\* What the answer to requests is made of, given the notes that are known.
LEMMA ServeType ==
  ASSUME toPage \in Seq(Reply), dialog \in SUBSET Note, clicked \in SUBSET Note,
         NEW known \in SUBSET Note, NEW waiting \in Waiting, Serve(known, waiting)
  PROVE  /\ toPage' \in Seq(Reply) /\ dialog' \in SUBSET Note /\ clicked' \in SUBSET Note
         /\ dialog' \intersect known \subseteq dialog
         /\ \/ toPage' = toPage
            \/ \E m \in Reply :
                 /\ toPage' = Append(toPage, m) /\ m.type = "resolved"
                 /\ \A r \in m.results : r = Result(known, r[1])
<1> DEFINE resolves == {w[1] : w \in {v \in waiting : v[2] = "resolve"}}
           opens == {w[1] : w \in {v \in waiting : v[2] = "open"}}
           m == [type |-> "resolved", results |-> {Result(known, n) : n \in resolves}]
<1>1. resolves \subseteq Note /\ opens \subseteq Note
  BY DEF Waiting
<1>2. m \in Reply
  BY <1>1 DEF Reply, Result
<1>3. \A r \in m.results : r = Result(known, r[1])
  BY DEF Result
<1>4. /\ toPage' = IF resolves = {} THEN toPage ELSE Append(toPage, m)
      /\ dialog' = dialog \union (opens \ known)
      /\ clicked' = clicked \ (opens \intersect known)
  BY DEF Serve
<1>5. m.type = "resolved"
  OBVIOUS
<1> HIDE DEF resolves, opens, m
<1>6. toPage' = toPage \/ toPage' = Append(toPage, m)
  BY <1>4
<1>7. toPage' \in Seq(Reply)
  BY <1>2, <1>6, Append1
<1> QED BY <1>1, <1>2, <1>3, <1>4, <1>5, <1>6, <1>7

\* Answers from the notes there are keep what the page knows true.
LEMMA ServeKnows ==
  ASSUME TypeOK, KnownIsTrue, NEW known \in SUBSET Note, NEW waiting \in Waiting,
         Serve(known, waiting), ~watch /\ ~overtaken => known = notes,
         UNCHANGED <<notes, watch, cache, overtaken>>
  PROVE  KnownIsTrue'
<1> USE DEF TypeOK
<1>1. CASE toPage' = toPage
  BY <1>1 DEF KnownIsTrue, Stands, True, Result
<1>2. CASE toPage' # toPage
  <2>1. PICK m \in Reply :
          /\ toPage' = Append(toPage, m) /\ m.type = "resolved"
          /\ \A r \in m.results : r = Result(known, r[1])
    BY <1>2, ServeType
  <2>2. /\ Len(toPage') = Len(toPage) + 1 /\ Len(toPage) \in Nat
        /\ \A i \in 1..Len(toPage) : toPage'[i] = toPage[i]
        /\ toPage'[Len(toPage) + 1] = m
        /\ \A i \in 0..Len(toPage) : Stands(i)' <=> Stands(i)
    BY <2>1, StandsAppend
  <2> SUFFICES ASSUME ~watch, ~overtaken
               PROVE  KnownIsTrue'
    BY DEF KnownIsTrue
  <2>3. \A r \in m.results : True(r)'
    BY <2>1 DEF True, Result
  <2>4. (Stands(0) => \A n \in Note : cache[n] # "pending" => True(<<n, cache[n]>>))'
    BY <2>2 DEF KnownIsTrue, True, Result
  <2>5. ASSUME NEW i \in 1..Len(toPage'), Stands(i)', toPage'[i].type = "resolved"
        PROVE  \A r \in toPage'[i].results : True(r)'
    <3>1. CASE i = Len(toPage) + 1
      BY <2>2, <2>3, <3>1
    <3>2. CASE i \in 1..Len(toPage)
      <4>1. Stands(i) /\ toPage[i].type = "resolved"
        BY <2>2, <2>5, <3>2
      <4>2. \A r \in toPage[i].results : True(r)
        BY <3>2, <4>1 DEF KnownIsTrue
      <4> QED BY <2>2, <3>2, <4>2 DEF True, Result
    <3> QED BY <2>2, <3>1, <3>2
  <2> QED BY <2>4, <2>5 DEF KnownIsTrue
<1> QED BY <1>1, <1>2

\* A page that is told of a change will have forgotten everything.
LEMMA ChangeForgets ==
  ASSUME TypeOK, toPage' = Append(toPage, [type |-> "workspaceIndexChanged"])
  PROVE  toPage' \in Seq(Reply) /\ KnownIsTrue' /\ NothingKnown'
<1> DEFINE m == [type |-> "workspaceIndexChanged"]
<1>1. m \in Reply /\ m.type = "workspaceIndexChanged"
  BY DEF Reply
<1> HIDE DEF m
<1>2. toPage \in Seq(Reply) /\ toPage' = Append(toPage, m)
  BY DEF TypeOK, m
<1>3. /\ toPage' \in Seq(Reply)
      /\ Len(toPage') = Len(toPage) + 1 /\ Len(toPage) \in Nat
      /\ toPage'[Len(toPage) + 1] = m
      /\ \A i \in 0..Len(toPage) : ~Stands(i)'
  BY <1>1, <1>2, StandsAppend
<1>4. KnownIsTrue'
  <2>1. ~Stands(0)'
    BY <1>3
  <2>2. \A i \in 1..Len(toPage') : ~Stands(i)' \/ toPage'[i].type = "workspaceIndexChanged"
    BY <1>1, <1>3
  <2> QED BY <2>1, <2>2 DEF KnownIsTrue
<1>5. NothingKnown'
  <2>1. ~Stands(0)'
    BY <1>3
  <2>2. \A i \in 1..Len(toPage') : Stands(i)' => toPage'[i].type = "workspaceIndexChanged"
    BY <1>1, <1>3
  <2> QED BY <2>1, <2>2 DEF NothingKnown
<1> QED BY <1>3, <1>4, <1>5

\* What the page knows is untouched.
LEMMA PageKeeps ==
  ASSUME UNCHANGED <<notes, watch, overtaken, toPage, cache>>
  PROVE  /\ KnownIsTrue => KnownIsTrue'
         /\ index' = index /\ NothingKnown => NothingKnown'
BY DEF KnownIsTrue, NothingKnown, Stands, True, Result

----------------------------------------------------------------------------
(* The folder *)

\* While a change waits to be reported nothing is promised of index and page.
LEMMA WatchExcuses == watch' => IndexIsFresh' /\ KnownIsTrue'
BY DEF IndexIsFresh, KnownIsTrue

LEMMA ChangeKeeps == ASSUME IInv, NEW n \in Note, Change(n) PROVE IInv'
<1> USE DEF IInv, Change, host, page
<1>1. TypeOK'
  <2>1. changes' \in 0..MaxChanges
    BY BoundAssumption DEF TypeOK
  <2> QED BY <2>1 DEF TypeOK, Overtakes, Listings
<1>2. PromiseKept' /\ NothingKnown'
  BY DEF PromiseKept, NothingKnown, Stands
<1>3. ListingsFresh'
  BY DEF ListingsFresh, Listings, Overtakes
<1> QED BY <1>1, <1>2, <1>3, WatchExcuses

----------------------------------------------------------------------------
(* The host *)

\* An index that is dropped, with the page told of it.
LEMMA DroppedKeeps ==
  ASSUME IInv, Invalidate, Forgets,
         toPage' = Append(toPage, [type |-> "workspaceIndexChanged"]),
         UNCHANGED <<notes, build>>
  PROVE  /\ toPage' \in Seq(Reply) /\ overtaken' \in BOOLEAN
         /\ index' \in (SUBSET Note) \union {None} /\ promise' \in Build \union {None}
         /\ PromiseKept' /\ ListingsFresh' /\ IndexIsFresh'
         /\ KnownIsTrue' /\ NothingKnown'
<1>1. ListingsFresh'
  BY DEF IInv, ListingsFresh, Listings, Forgets, TypeOK
<1>2. overtaken' \in BOOLEAN
  BY DEF Forgets, IInv, TypeOK
<1> QED BY <1>1, <1>2, ChangeForgets DEF IInv, Invalidate, PromiseKept, IndexIsFresh

LEMMA WatcherReportsKeeps == ASSUME IInv, WatcherReports PROVE IInv'
<1> USE DEF WatcherReports, page
<1>1. CASE index = None /\ promise = None
  <2>1. TypeOK'
    BY <1>1 DEF IInv, TypeOK
  <2>2. PromiseKept' /\ ListingsFresh' /\ IndexIsFresh'
    BY <1>1 DEF IInv, PromiseKept, ListingsFresh, Listings, IndexIsFresh
  <2>3. NothingKnown'
    BY <1>1 DEF IInv, NothingKnown, Stands
  <2>4. KnownIsTrue'
    BY <1>1, <2>3 DEF KnownIsTrue, NothingKnown
  <2> QED BY <2>1, <2>2, <2>3, <2>4 DEF IInv
<1>2. CASE ~(index = None /\ promise = None)
  <2>1. /\ toPage' \in Seq(Reply) /\ overtaken' \in BOOLEAN
        /\ index' \in (SUBSET Note) \union {None} /\ promise' \in Build \union {None}
        /\ PromiseKept' /\ ListingsFresh' /\ IndexIsFresh'
        /\ KnownIsTrue' /\ NothingKnown'
    BY <1>2, DroppedKeeps
  <2>2. TypeOK'
    BY <2>1 DEF IInv, TypeOK
  <2> QED BY <2>1, <2>2 DEF IInv
<1> QED BY <1>1, <1>2

LEMMA ListKeeps == ASSUME IInv, NEW b \in Build, List(b) PROVE IInv'
<1> USE DEF page
<1>1. PICK listed \in SUBSET Note :
        /\ build' = [build EXCEPT ![b] =
             [phase |-> "store", listed |-> listed, waiting |-> build[b].waiting]]
        /\ overtaken' = (overtaken \/ listed # notes)
  BY DEF List, IInv, TypeOK
<1>2. build[b].waiting \in Waiting
  BY DEF List, IInv, TypeOK, Working, Idle, Waiting
<1>3. [phase |-> "store", listed |-> listed, waiting |-> build[b].waiting] \in Working
  BY <1>2 DEF Working, Waiting
<1>4. build' \in [Build -> Working \union {Idle}]
  BY <1>1, <1>3 DEF IInv, TypeOK
<1>5. TypeOK'
  BY <1>1, <1>4 DEF List, IInv, TypeOK
<1>6. PromiseKept'
  BY <1>1 DEF List, IInv, TypeOK, PromiseKept, Idle
<1>7. ListingsFresh'
  <2>1. \A c \in Build : build'[c] =
          IF c = b THEN [phase |-> "store", listed |-> listed, waiting |-> build[b].waiting]
          ELSE build[c]
    BY <1>1 DEF IInv, TypeOK
  <2>2. ASSUME ~overtaken', NEW c \in Build, build'[c].phase = "store"
        PROVE  build'[c].listed = notes'
    <3>1. ~overtaken /\ listed = notes /\ notes' = notes
      BY <1>1, <2>2 DEF List, IInv, TypeOK
    <3>2. CASE c = b
      BY <2>1, <3>1, <3>2
    <3>3. CASE c # b
      BY <2>1, <2>2, <3>1, <3>3 DEF IInv, ListingsFresh, Listings
    <3> QED BY <3>2, <3>3
  <2> QED BY <2>2 DEF ListingsFresh, Listings
<1>8. IndexIsFresh'
  BY <1>1 DEF List, IInv, TypeOK, IndexIsFresh
<1>9. KnownIsTrue' /\ NothingKnown'
  BY <1>1 DEF List, IInv, TypeOK, KnownIsTrue, NothingKnown, Stands, True, Result
<1> QED BY <1>5, <1>6, <1>7, <1>8, <1>9 DEF IInv

LEMMA StoreKeeps == ASSUME IInv, NEW b \in Build, Store(b) PROVE IInv'
<1> USE DEF page
<1>1. /\ build[b].listed \in SUBSET Note /\ build[b].waiting \in Waiting
      /\ b \in Listings
  BY DEF Store, IInv, TypeOK, Working, Idle, Waiting, Listings
<1>2. ~overtaken => build[b].listed = notes
  BY <1>1 DEF IInv, ListingsFresh
<1>3. TypeOK'
  BY <1>1, ServeType DEF Store, IInv, TypeOK
<1>4. PromiseKept' /\ IndexIsFresh'
  BY <1>2 DEF Store, PromiseKept, IndexIsFresh
<1>5. ListingsFresh'
  <2>1. \A c \in Build : build'[c] = IF c = b THEN Idle ELSE build[c]
    BY DEF Store, IInv, TypeOK
  <2> QED BY <2>1 DEF Store, IInv, ListingsFresh, Listings, Idle
<1>6. KnownIsTrue'
  <2>1. Serve(build[b].listed, build[b].waiting) /\ UNCHANGED <<notes, watch, cache, overtaken>>
    BY DEF Store
  <2> QED BY <1>1, <1>2, <2>1, ServeKnows DEF IInv
<1>7. NothingKnown'
  BY <1>1, NoneAssumption DEF Store, NothingKnown
<1> QED BY <1>3, <1>4, <1>5, <1>6, <1>7 DEF IInv

LEMMA RequestType ==
  ASSUME IInv, HostReceives
  PROVE  /\ toHost' \in Seq(Request)
         /\ {<<Head(toHost).note, Head(toHost).type>>} \in Waiting
<1>1. toHost \in Seq(Request) /\ toHost # <<>> /\ toHost' = Tail(toHost)
  BY DEF HostReceives, IInv, TypeOK
<1>2. toHost' \in Seq(Request) /\ Head(toHost) \in Request
  BY <1>1, Tail1
<1> QED BY <1>2 DEF Request, Waiting

LEMMA HostReceivesKeeps == ASSUME IInv, HostReceives PROVE IInv'
<1> DEFINE request == <<Head(toHost).note, Head(toHost).type>>
<1>1. /\ toHost' \in Seq(Request) /\ {request} \in Waiting
      /\ UNCHANGED <<notes, watch, index, creating, cache, asked, changes, requests, overtaken>>
  BY RequestType DEF HostReceives, page
<1> HIDE DEF request
<1>2. CASE index # None /\ Serve(index, {request}) /\ UNCHANGED <<build, promise>>
  <2>1. index \in SUBSET Note
    BY <1>2 DEF IInv, TypeOK
  <2>2. TypeOK'
    BY <1>1, <1>2, <2>1, ServeType DEF IInv, TypeOK
  <2>3. PromiseKept' /\ IndexIsFresh' /\ ListingsFresh' /\ NothingKnown'
    BY <1>1, <1>2
       DEF IInv, PromiseKept, IndexIsFresh, ListingsFresh, Listings, NothingKnown
  <2>4. KnownIsTrue'
    <3>1. ~watch /\ ~overtaken => index = notes
      BY <1>2 DEF IInv, IndexIsFresh
    <3> QED BY <1>1, <1>2, <2>1, <3>1, ServeKnows DEF IInv
  <2> QED BY <2>2, <2>3, <2>4 DEF IInv
<1>3. CASE /\ index = None /\ promise # None
           /\ build' = [build EXCEPT ![promise].waiting = @ \union {request}]
           /\ UNCHANGED <<promise, toPage, dialog, clicked>>
  <2>1. promise \in Build /\ build[promise] \in Working
    BY <1>3 DEF IInv, TypeOK, PromiseKept
  <2>2. /\ [build[promise] EXCEPT !.waiting = @ \union {request}] \in Working
        /\ [build[promise] EXCEPT !.waiting = @ \union {request}].phase = build[promise].phase
        /\ build[promise].phase = "store" =>
             [build[promise] EXCEPT !.waiting = @ \union {request}].listed
               = build[promise].listed
    BY <1>1, <2>1 DEF Working, Waiting
  <2>3. /\ build' \in [Build -> Working \union {Idle}]
        /\ build'[promise] # Idle
        /\ \A b \in Build : /\ build'[b].phase = build[b].phase
                            /\ build[b].phase = "store" => build'[b].listed = build[b].listed
    BY <1>3, <2>1, <2>2 DEF IInv, TypeOK, Working, Idle
  <2>4. TypeOK'
    BY <1>1, <1>3, <2>3 DEF IInv, TypeOK
  <2>5. PromiseKept' /\ IndexIsFresh' /\ ListingsFresh'
    BY <1>1, <1>3, <2>3 DEF IInv, PromiseKept, IndexIsFresh, ListingsFresh, Listings
  <2> QED BY <1>1, <1>3, <2>4, <2>5, PageKeeps DEF IInv
<1>4. CASE /\ index = None /\ promise = None
           /\ \E b \in Build :
                /\ build[b] = Idle
                /\ build' = [build EXCEPT ![b] = [phase |-> "list", waiting |-> {request}]]
                /\ promise' = b
           /\ UNCHANGED <<toPage, dialog, clicked>>
  <2>1. PICK b \in Build :
          /\ build' = [build EXCEPT ![b] = [phase |-> "list", waiting |-> {request}]]
          /\ promise' = b
    BY <1>4
  <2>2. [phase |-> "list", waiting |-> {request}] \in Working
    BY <1>1 DEF Working, Waiting
  <2>3. /\ build' \in [Build -> Working \union {Idle}]
        /\ \A c \in Build : build'[c] =
             IF c = b THEN [phase |-> "list", waiting |-> {request}] ELSE build[c]
    BY <2>1, <2>2 DEF IInv, TypeOK
  <2>4. TypeOK'
    BY <1>1, <1>4, <2>1, <2>3 DEF IInv, TypeOK
  <2>5. PromiseKept'
    BY <2>1, <2>3 DEF PromiseKept, Idle
  <2>6. ListingsFresh'
    BY <1>1, <2>3 DEF IInv, ListingsFresh, Listings
  <2>7. IndexIsFresh'
    BY <1>1 DEF IInv, IndexIsFresh
  <2> QED BY <1>1, <1>4, <2>4, <2>5, <2>6, <2>7, PageKeeps DEF IInv
<1> QED BY <1>2, <1>3, <1>4 DEF HostReceives, request

----------------------------------------------------------------------------
(* A note that is not there *)

LEMMA CancelKeeps == ASSUME IInv, NEW n \in Note, Cancel(n) PROVE IInv'
<1> USE DEF Cancel, page
<1>1. TypeOK'
  BY DEF IInv, TypeOK
<1>2. PromiseKept' /\ IndexIsFresh' /\ ListingsFresh'
  BY DEF IInv, PromiseKept, IndexIsFresh, ListingsFresh, Listings
<1> QED BY <1>1, <1>2, PageKeeps DEF IInv

LEMMA ConfirmKeeps == ASSUME IInv, NEW n \in Note, Confirm(n) PROVE IInv'
<1> USE DEF page
<1>1. CASE /\ notes' = notes \union {n} /\ watch' = TRUE
           /\ creating' = creating \union {n}
           /\ overtaken' = IF n \in notes THEN overtaken ELSE Overtakes
           /\ UNCHANGED clicked
  <2>1. overtaken' \in BOOLEAN
    BY <1>1 DEF IInv, TypeOK, Overtakes
  <2>2. TypeOK'
    BY <1>1, <2>1 DEF Confirm, IInv, TypeOK
  <2>3. PromiseKept' /\ NothingKnown'
    BY <1>1 DEF Confirm, IInv, PromiseKept, NothingKnown, Stands
  <2>4. ListingsFresh'
    <3>1. CASE n \in notes
      <4>1. notes' = notes /\ overtaken' = overtaken /\ build' = build
        BY <1>1, <3>1 DEF Confirm, IInv, TypeOK
      <4> QED BY <4>1 DEF IInv, ListingsFresh, Listings
    <3>2. CASE n \notin notes
      BY <1>1, <3>2 DEF Confirm, ListingsFresh, Listings, Overtakes
    <3> QED BY <3>1, <3>2
  <2> QED BY <1>1, <2>2, <2>3, <2>4, WatchExcuses DEF IInv
<1>2. CASE clicked' = clicked \ {n} /\ UNCHANGED <<notes, watch, creating, overtaken>>
  <2>1. TypeOK'
    BY <1>2 DEF Confirm, IInv, TypeOK
  <2>2. PromiseKept' /\ IndexIsFresh' /\ ListingsFresh'
    BY <1>2 DEF Confirm, IInv, PromiseKept, IndexIsFresh, ListingsFresh, Listings
  <2>3. UNCHANGED <<notes, watch, overtaken, toPage, cache, index>>
    BY <1>2 DEF Confirm
  <2> QED BY <2>1, <2>2, <2>3, PageKeeps DEF IInv
<1> QED BY <1>1, <1>2 DEF Confirm

LEMMA CreatedKeeps == ASSUME IInv, NEW n \in Note, Created(n) PROVE IInv'
<1> USE DEF Created, page
<1>1. CASE Invalidate /\ Forgets /\ toPage' = Append(toPage, [type |-> "workspaceIndexChanged"])
  <2>1. /\ toPage' \in Seq(Reply) /\ overtaken' \in BOOLEAN
        /\ index' \in (SUBSET Note) \union {None} /\ promise' \in Build \union {None}
        /\ PromiseKept' /\ ListingsFresh' /\ IndexIsFresh'
        /\ KnownIsTrue' /\ NothingKnown'
    BY <1>1, DroppedKeeps
  <2>2. TypeOK'
    BY <2>1 DEF IInv, TypeOK
  <2> QED BY <2>1, <2>2 DEF IInv
<1>2. CASE UNCHANGED <<index, promise, toPage, overtaken>>
  <2>1. TypeOK'
    BY <1>2 DEF IInv, TypeOK
  <2>2. PromiseKept' /\ IndexIsFresh' /\ ListingsFresh'
    BY <1>2 DEF IInv, PromiseKept, IndexIsFresh, ListingsFresh, Listings
  <2> QED BY <1>2, <2>1, <2>2, PageKeeps DEF IInv
<1> QED BY <1>1, <1>2

----------------------------------------------------------------------------
(* The page *)

LEMMA AsksKeeps ==
  ASSUME IInv, NEW n \in Note, Draw(n) \/ Click(n)
  PROVE  IInv'
<1> USE DEF Draw, Click, Send, host, page
<1>1. PICK m \in Request : toHost' = Append(toHost, m)
  BY DEF Request
<1>2. toHost' \in Seq(Request)
  BY <1>1, Append1 DEF IInv, TypeOK
<1>3. requests' \in 0..MaxAsked
  BY BoundAssumption DEF IInv, TypeOK
<1>4. asked' \in SUBSET Note /\ clicked' \in SUBSET Note
  BY DEF IInv, TypeOK
<1>5. UNCHANGED <<notes, watch, index, promise, build, dialog, creating, toPage, cache,
                  changes, overtaken>>
  OBVIOUS
<1>6. TypeOK'
  BY <1>2, <1>3, <1>4, <1>5 DEF IInv, TypeOK
<1>7. PromiseKept' /\ IndexIsFresh' /\ ListingsFresh'
  BY <1>5 DEF IInv, PromiseKept, IndexIsFresh, ListingsFresh, Listings
<1> QED BY <1>5, <1>6, <1>7, PageKeeps DEF IInv

LEMMA PageReceivesKeeps == ASSUME IInv, PageReceives PROVE IInv'
<1> DEFINE head == Head(toPage)
<1>1. UNCHANGED <<notes, watch, index, promise, build, dialog, creating, toHost, clicked,
                  changes, requests, overtaken>>
  BY DEF PageReceives, host
<1>2. /\ toPage' \in Seq(Reply) /\ head \in Reply /\ head = toPage[1]
      /\ Len(toPage') = Len(toPage) - 1 /\ Len(toPage) \in Nat /\ Len(toPage) > 0
      /\ \A i \in 1..Len(toPage') : toPage'[i] = toPage[i + 1]
  BY Tail1 DEF PageReceives, IInv, TypeOK
<1>3. \A i \in 0..Len(toPage') : Stands(i)' <=> Stands(i + 1)
  <2> SUFFICES ASSUME NEW i \in 0..Len(toPage')
               PROVE  Stands(i)' <=> Stands(i + 1)
    OBVIOUS
  <2>1. ASSUME Stands(i + 1), NEW j \in (i + 1)..Len(toPage')
        PROVE  toPage'[j].type # "workspaceIndexChanged"
    <3>1. j + 1 \in ((i + 1) + 1)..Len(toPage) /\ toPage'[j] = toPage[j + 1]
      BY <1>2
    <3> QED BY <2>1, <3>1 DEF Stands
  <2>2. ASSUME Stands(i)', NEW j \in ((i + 1) + 1)..Len(toPage)
        PROVE  toPage[j].type # "workspaceIndexChanged"
    <3>1. j - 1 \in (i + 1)..Len(toPage') /\ toPage'[j - 1] = toPage[j]
      BY <1>2
    <3> QED BY <2>2, <3>1 DEF Stands
  <2> QED BY <2>1, <2>2 DEF Stands
<1>4. ASSUME NEW n \in Note, head.type = "resolved",
             \E r \in head.results : r[1] = n
      PROVE  /\ cache'[n] \in {"found", "missing"}
             /\ <<n, cache'[n]>> \in head.results
  <2> DEFINE r == CHOOSE r \in head.results : r[1] = n
  <2>1. r \in head.results /\ r[1] = n
    BY <1>4
  <2>2. cache'[n] = r[2]
    BY <1>4 DEF PageReceives
  <2>3. head.results \in SUBSET (Note \X {"found", "missing"})
    BY <1>2, <1>4 DEF Reply
  <2>4. r = <<n, r[2]>> /\ r[2] \in {"found", "missing"}
    BY <2>1, <2>3
  <2> QED BY <2>1, <2>2, <2>4
<1>5. ASSUME NEW n \in Note, head.type = "resolved",
             ~\E r \in head.results : r[1] = n
      PROVE  cache'[n] = cache[n]
  BY <1>5 DEF PageReceives
<1>6. head.type # "resolved" => \A n \in Note : cache'[n] = "pending"
  BY DEF PageReceives
<1>7. \A n \in Note : cache'[n] \in Status
  BY <1>4, <1>5, <1>6 DEF IInv, TypeOK, Status
<1>8. TypeOK'
  <2>1. cache' = [n \in Note |-> cache'[n]]
    BY DEF PageReceives
  <2>2. asked' \in SUBSET Note
    BY DEF PageReceives, IInv, TypeOK
  <2> QED BY <1>1, <1>2, <1>7, <2>1, <2>2 DEF IInv, TypeOK
<1>9. PromiseKept' /\ ListingsFresh' /\ IndexIsFresh'
  BY <1>1 DEF IInv, PromiseKept, ListingsFresh, Listings, IndexIsFresh
<1>10. head.type = "resolved" /\ Stands(1) => Stands(0)
  <2>1. 1..Len(toPage) = {1} \union (2..Len(toPage)) /\ 0 + 1 = 1 /\ 1 + 1 = 2
    BY <1>2
  <2> QED BY <1>2, <2>1 DEF Stands
<1>11. KnownIsTrue'
  <2> SUFFICES ASSUME ~watch, ~overtaken PROVE KnownIsTrue'
    BY <1>1 DEF KnownIsTrue
  <2>1. ASSUME NEW n \in Note, Stands(0)', cache'[n] # "pending"
        PROVE  True(<<n, cache'[n]>>)
    <3>1. Stands(1) /\ 1 \in 1..Len(toPage)
      BY <1>2, <1>3, <2>1
    <3>2. head.type = "resolved"
      BY <1>6, <2>1
    <3>3. CASE \E r \in head.results : r[1] = n
      BY <1>2, <1>4, <3>1, <3>2, <3>3 DEF IInv, KnownIsTrue
    <3>4. CASE ~\E r \in head.results : r[1] = n
      BY <1>5, <1>10, <2>1, <3>1, <3>2, <3>4 DEF IInv, KnownIsTrue
    <3> QED BY <3>3, <3>4
  <2>2. ASSUME NEW i \in 1..Len(toPage'), Stands(i)', toPage'[i].type = "resolved"
        PROVE  \A r \in toPage'[i].results : True(r)
    <3>1. Stands(i + 1) /\ toPage'[i] = toPage[i + 1] /\ i + 1 \in 1..Len(toPage)
      BY <1>2, <1>3, <2>2
    <3> QED BY <2>2, <3>1 DEF IInv, KnownIsTrue
  <2>3. \A r : True(r)' <=> True(r)
    BY <1>1 DEF True, Result
  <2> QED BY <2>1, <2>2, <2>3 DEF KnownIsTrue
<1>12. NothingKnown'
  <2> SUFFICES ASSUME index = None PROVE NothingKnown'
    BY <1>1 DEF NothingKnown
  <2>1. ASSUME Stands(0)' PROVE \A n \in Note : cache'[n] = "pending"
    <3>1. Stands(1) /\ 1 \in 1..Len(toPage)
      BY <1>2, <1>3, <2>1
    <3>2. head.type = "workspaceIndexChanged"
      BY <1>2, <3>1 DEF IInv, NothingKnown
    <3> QED BY <1>6, <3>2
  <2>2. ASSUME NEW i \in 1..Len(toPage'), Stands(i)'
        PROVE  toPage'[i].type = "workspaceIndexChanged"
    <3>1. Stands(i + 1) /\ toPage'[i] = toPage[i + 1] /\ i + 1 \in 1..Len(toPage)
      BY <1>2, <1>3, <2>2
    <3> QED BY <3>1 DEF IInv, NothingKnown
  <2> QED BY <2>1, <2>2 DEF NothingKnown
<1> QED BY <1>8, <1>9, <1>11, <1>12 DEF IInv

----------------------------------------------------------------------------
(* The theorems *)

LEMMA NextKeeps == ASSUME IInv, [Next]_vars PROVE IInv'
<1>1. CASE UNCHANGED vars
  <2>1. UNCHANGED <<notes, watch, index, promise, build, dialog, creating, toHost, toPage,
                    cache, asked, clicked, changes, requests, overtaken>>
    BY <1>1 DEF vars, host, page
  <2>2. TypeOK'
    BY <2>1 DEF IInv, TypeOK
  <2>3. PromiseKept' /\ ListingsFresh' /\ IndexIsFresh'
    BY <2>1 DEF IInv, PromiseKept, ListingsFresh, Listings, IndexIsFresh
  <2> QED BY <2>1, <2>2, <2>3, PageKeeps DEF IInv
<1>2. ASSUME NEW n \in Note,
             Change(n) \/ Draw(n) \/ Click(n) \/ Cancel(n) \/ Confirm(n) \/ Created(n)
      PROVE  IInv'
  BY <1>2, ChangeKeeps, AsksKeeps, CancelKeeps, ConfirmKeeps, CreatedKeeps
<1>3. ASSUME NEW b \in Build, List(b) \/ Store(b) PROVE IInv'
  BY <1>3, ListKeeps, StoreKeeps
<1>4. CASE WatcherReports \/ HostReceives \/ PageReceives
  BY <1>4, WatcherReportsKeeps, HostReceivesKeeps, PageReceivesKeeps
<1> QED BY <1>1, <1>2, <1>3, <1>4 DEF Next

LEMMA Invariance == Spec => []IInv
<1>1. IInv /\ [Next]_vars => IInv'
  BY NextKeeps
<1> QED BY <1>1, InitInv, PTL DEF Spec

\* Every variable has its type, the builds under way and the messages included.
THEOREM TypeCorrect == Spec => []TypeOK
<1>1. IInv => TypeOK
  BY DEF IInv
<1> QED BY <1>1, Invariance, PTL

\* ensureWikilinkIndex() and invalidateWikilinkCaches(): whichever builds are dropped,
\* go on and store, the index is the folder's unless a change overtook a listing.
THEOREM IndexAlwaysFresh == Spec => []IndexIsFresh
<1>1. IInv => IndexIsFresh
  BY DEF IInv
<1> QED BY <1>1, Invariance, PTL

\* The page: no answer outlives the change it is older than, in any order of answers
\* and changes.
THEOREM LinksAlwaysFresh == Spec => []LinksAreFresh
<1>1. IInv => LinksAreFresh
  <2> SUFFICES ASSUME IInv, ~watch, ~overtaken, toPage = <<>>,
                      NEW n \in Note, cache[n] # "pending"
               PROVE  cache[n] = Result(notes, n)[2]
    BY DEF LinksAreFresh
  <2>1. Stands(0)
    BY DEF Stands
  <2>2. True(<<n, cache[n]>>)
    BY <2>1 DEF IInv, KnownIsTrue
  <2> QED BY <2>2 DEF True, Result
<1> QED BY <1>1, Invariance, PTL

\* handleOpenWikilink(): nobody is asked to create a note that is there, unless a
\* change has not been reported or overtook a listing.
THEOREM DialogAlwaysHonest == Spec => DialogIsHonest
<1> DEFINE Honest == \A n \in dialog' \ dialog : n \in notes => watch \/ overtaken
<1>1. IInv /\ [Next]_vars => [Honest]_vars
  <2> SUFFICES ASSUME IInv, Next PROVE Honest
    OBVIOUS
  <2>1. ASSUME NEW n \in Note,
               Change(n) \/ Draw(n) \/ Click(n) \/ Cancel(n) \/ Confirm(n) \/ Created(n)
        PROVE  dialog' \subseteq dialog
    BY <2>1 DEF Change, Draw, Click, Cancel, Confirm, Created, host
  <2>2. WatcherReports \/ PageReceives => dialog' = dialog
    BY DEF WatcherReports, PageReceives, host
  <2>3. \A b \in Build : List(b) => dialog' = dialog
    BY DEF List
  <2>4. ASSUME NEW b \in Build, Store(b) PROVE Honest
    <3>1. /\ build[b].listed \in SUBSET Note /\ build[b].waiting \in Waiting
          /\ b \in Listings
      BY <2>4 DEF Store, IInv, TypeOK, Working, Idle, Waiting, Listings
    <3>2. dialog' \intersect build[b].listed \subseteq dialog
      BY <2>4, <3>1, ServeType DEF Store, IInv, TypeOK
    <3> QED BY <3>1, <3>2 DEF IInv, ListingsFresh
  <2>5. ASSUME HostReceives PROVE Honest
    <3> DEFINE request == <<Head(toHost).note, Head(toHost).type>>
    <3>1. {request} \in Waiting
      BY <2>5, RequestType
    <3>2. \/ dialog' = dialog
          \/ index # None /\ Serve(index, {request})
      BY <2>5 DEF HostReceives
    <3> HIDE DEF request
    <3>3. CASE index # None /\ Serve(index, {request})
      <4>1. dialog' \intersect index \subseteq dialog
        BY <3>1, <3>3, ServeType DEF IInv, TypeOK
      <4> QED BY <3>3, <4>1 DEF IInv, IndexIsFresh
    <3> QED BY <3>2, <3>3
  <2> QED BY <2>1, <2>2, <2>3, <2>4, <2>5 DEF Next
<1> QED BY <1>1, Invariance, PTL DEF Spec, DialogIsHonest

=============================================================================

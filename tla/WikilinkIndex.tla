---------------------------- MODULE WikilinkIndex ----------------------------
(***************************************************************************)
(* Wiki links: the notes of the workspace, the host's index of them, and a *)
(* page that asks the host which of its links lead anywhere.               *)
(*                                                                         *)
(* The index is built when it is first needed and dropped when a note      *)
(* changes. A build that is under way when the index is dropped is not     *)
(* stopped: it goes on and stores what it has found.                       *)
(***************************************************************************)
EXTENDS Naturals, Sequences, FiniteSets

CONSTANTS
  Note,       \* the notes a link may name
  Build,      \* bound: builds of the index under way at a time
  MaxChanges, \* bound: notes created and deleted
  MaxAsked,   \* bound: messages of the page
  None,       \* an index that is not there
  Env         \* what the surroundings do in this instance

\* failure   the folder cannot be listed, a note cannot be written
ASSUME EnvAssumption == Env \subseteq {"failure"}
ASSUME NoneAssumption == None \notin Build /\ \A known \in SUBSET Note : None # known
ASSUME BoundAssumption == MaxChanges \in Nat /\ MaxAsked \in Nat

VARIABLES
  notes,     \* the notes that exist
  watch,     \* a change the file watcher has not reported yet
  index,     \* wikilinkIndex with wikilinkResolveIndex
  promise,   \* wikilinkIndexPromise: the build that is waited for
  build,     \* each build: what it has listed, and the requests that wait for it
  dialog,    \* targets the user is asked about: create this note?
  creating,  \* notes being created
  toHost,    \* messages of the page
  toPage,    \* messages of the host
  cache,     \* _cache: what the page shows of each link
  asked,     \* _pending: links the page waits for
  clicked,   \* links the user has clicked, until the click is answered
  changes, requests, \* the changes and messages so far
  overtaken  \* history: a note changed when a listing made before was in use

host == <<index, promise, build, dialog, creating>>
page == <<cache, asked>>
vars == <<notes, watch, host, toHost, toPage, page, clicked, changes, requests, overtaken>>

Status == {"pending", "found", "missing"}
Idle == [phase |-> "idle"]

\* A build lists the folder, then stores what it has listed.
Working == [phase : {"list"}, waiting : SUBSET (Note \X {"resolve", "open"})]
      \union [phase : {"store"}, listed : SUBSET Note,
              waiting : SUBSET (Note \X {"resolve", "open"})]

Request == [type : {"resolve", "open"}, note : Note]
Reply == [type : {"workspaceIndexChanged"}]
      \union [type : {"resolved"}, results : SUBSET (Note \X {"found", "missing"})]

\* Every variable has its type, the builds under way and the messages included.
TypeOK ==
  /\ notes \in SUBSET Note /\ watch \in BOOLEAN
  /\ index \in (SUBSET Note) \union {None} /\ promise \in Build \union {None}
  /\ build \in [Build -> Working \union {Idle}]
  /\ dialog \in SUBSET Note /\ creating \in SUBSET Note
  /\ toHost \in Seq(Request) /\ toPage \in Seq(Reply)
  /\ cache \in [Note -> Status] /\ asked \in SUBSET Note /\ clicked \in SUBSET Note
  /\ changes \in 0..MaxChanges /\ requests \in 0..MaxAsked
  /\ overtaken \in BOOLEAN

Init ==
  /\ notes \in SUBSET Note /\ watch = FALSE
  /\ index = None /\ promise = None /\ build = [b \in Build |-> Idle]
  /\ dialog = {} /\ creating = {}
  /\ toHost = <<>> /\ toPage = <<>>
  /\ cache = [n \in Note |-> "pending"] /\ asked = {} /\ clicked = {}
  /\ changes = 0 /\ requests = 0 /\ overtaken = FALSE

----------------------------------------------------------------------------
(* The folder *)

Listings == {b \in Build : build[b].phase = "store"}

\* A change overtakes the listings builds have made and not stored.
Overtakes == overtaken \/ Listings # {}

\* Somebody creates or deletes a note: another program, or an editor that saves.
Change(n) ==
  /\ changes < MaxChanges /\ changes' = changes + 1
  /\ notes' = IF n \in notes THEN notes \ {n} ELSE notes \union {n}
  /\ watch' = TRUE
  /\ overtaken' = Overtakes
  /\ UNCHANGED <<host, toHost, toPage, page, clicked, requests>>

----------------------------------------------------------------------------
(* The host's caches *)

\* Mutant: the build that is under way is forgotten and the index kept.
InvalidatePromiseOnly == promise' = None /\ UNCHANGED index

\* invalidateWikilinkCaches()
Invalidate == index' = None /\ promise' = None

\* Nothing that was listed before is in use once the index is dropped and no build is
\* about to store.
Forgets == overtaken' = (overtaken /\ Listings # {})

\* Mutant: the event is passed over unless there are an index and a build.
WatcherReportsToBoth ==
  /\ watch /\ watch' = FALSE
  /\ IF index = None \/ promise = None
     THEN UNCHANGED <<index, promise, toPage, overtaken>>
     ELSE /\ Invalidate /\ Forgets
          /\ toPage' = Append(toPage, [type |-> "workspaceIndexChanged"])
  /\ UNCHANGED <<notes, build, dialog, creating, toHost, page, clicked, changes, requests>>

\* onDidFilesChange: nothing to drop when there is neither an index nor a build that
\* is waited for.
WatcherReports ==
  /\ watch /\ watch' = FALSE
  /\ IF index = None /\ promise = None
     THEN UNCHANGED <<index, promise, toPage, overtaken>>
     ELSE /\ Invalidate /\ Forgets
          /\ toPage' = Append(toPage, [type |-> "workspaceIndexChanged"])
  /\ UNCHANGED <<notes, build, dialog, creating, toHost, page, clicked, changes, requests>>

\* buildWikilinkIndex(): the folder is listed. A folder that cannot be listed is
\* passed over.
List(b) ==
  /\ build[b].phase = "list"
  /\ \E listed \in {notes} \union (IF "failure" \in Env THEN {{}} ELSE {}) :
       /\ build' = [build EXCEPT ![b] =
            [phase |-> "store", listed |-> listed, waiting |-> @.waiting]]
       /\ overtaken' = (overtaken \/ listed # notes)
  /\ UNCHANGED <<notes, watch, index, promise, dialog, creating, toHost, toPage, page,
                 clicked, changes, requests>>

\* Mutant: a link that leads nowhere is left as it is drawn first.
ResultIfThere(known, n) == <<n, IF n \in known THEN "found" ELSE "pending">>

Result(known, n) == <<n, IF n \in known THEN "found" ELSE "missing">>

\* The index is there: what the handlers of the requests in waiting do with it. A
\* click on a link that leads somewhere opens the note; else the user is asked.
Serve(known, waiting) ==
  LET resolves == {w[1] : w \in {v \in waiting : v[2] = "resolve"}}
      opens    == {w[1] : w \in {v \in waiting : v[2] = "open"}}
  IN  /\ toPage' = IF resolves = {} THEN toPage
                   ELSE Append(toPage, [type |-> "resolved",
                                        results |-> {Result(known, n) : n \in resolves}])
      /\ dialog' = dialog \union (opens \ known)
      /\ clicked' = clicked \ (opens \intersect known)

\* Mutant: a build whose promise was dropped answers nobody.
StoreIfWaitedFor(b) ==
  /\ build[b].phase = "store"
  /\ index' = build[b].listed /\ promise' = None
  /\ build' = [build EXCEPT ![b] = Idle]
  /\ IF promise = b THEN Serve(build[b].listed, build[b].waiting)
     ELSE UNCHANGED <<toPage, dialog, clicked>>
  /\ UNCHANGED <<notes, watch, creating, toHost, page, changes, requests, overtaken>>

\* The build has finished: it stores the index, drops the promise that is there, its
\* own or that of a later build, and the requests that waited for it go on.
Store(b) ==
  /\ build[b].phase = "store"
  /\ index' = build[b].listed /\ promise' = None
  /\ build' = [build EXCEPT ![b] = Idle]
  /\ Serve(build[b].listed, build[b].waiting)
  /\ UNCHANGED <<notes, watch, creating, toHost, page, changes, requests, overtaken>>

\* A message of the page: answered from the index, or left to wait for the build that
\* is under way, or for a new one.
HostReceives ==
  /\ toHost # <<>> /\ toHost' = Tail(toHost)
  /\ LET request == <<Head(toHost).note, Head(toHost).type>> IN
     \/ /\ index # None
        /\ Serve(index, {request})
        /\ UNCHANGED <<build, promise>>
     \/ /\ index = None /\ promise # None
        /\ build' = [build EXCEPT ![promise].waiting = @ \union {request}]
        /\ UNCHANGED <<promise, toPage, dialog, clicked>>
     \/ /\ index = None /\ promise = None
        /\ \E b \in Build :
             /\ build[b] = Idle
             /\ build' = [build EXCEPT ![b] = [phase |-> "list", waiting |-> {request}]]
             /\ promise' = b
        /\ UNCHANGED <<toPage, dialog, clicked>>
  /\ UNCHANGED <<notes, watch, index, creating, page, changes, requests, overtaken>>

----------------------------------------------------------------------------
(* A note that is not there *)

\* "'...' doesn't exist yet. Create a new note?" The user says no.
Cancel(n) ==
  /\ n \in dialog /\ dialog' = dialog \ {n} /\ clicked' = clicked \ {n}
  /\ UNCHANGED <<notes, watch, index, promise, build, creating, toHost, toPage, page,
                 changes, requests, overtaken>>

\* The user says yes: writeFile() writes the note, whether or not it is there by now.
Confirm(n) ==
  /\ n \in dialog /\ dialog' = dialog \ {n}
  /\ \/ /\ notes' = notes \union {n} /\ watch' = TRUE
        /\ creating' = creating \union {n}
        /\ overtaken' = IF n \in notes THEN overtaken ELSE Overtakes
        /\ UNCHANGED clicked
     \/ /\ "failure" \in Env
        /\ clicked' = clicked \ {n}
        /\ UNCHANGED <<notes, watch, creating, overtaken>>
  /\ UNCHANGED <<index, promise, build, toHost, toPage, page, changes, requests>>

\* The new note is open: the caches are dropped and the page is told. When the editor
\* cannot be opened that is left to the watcher.
Created(n) ==
  /\ n \in creating /\ creating' = creating \ {n} /\ clicked' = clicked \ {n}
  /\ \/ /\ Invalidate /\ Forgets
        /\ toPage' = Append(toPage, [type |-> "workspaceIndexChanged"])
     \/ /\ "failure" \in Env
        /\ UNCHANGED <<index, promise, toPage, overtaken>>
  /\ UNCHANGED <<notes, watch, build, dialog, toHost, page, changes, requests>>

----------------------------------------------------------------------------
(* The page *)

Send(message) ==
  requests < MaxAsked /\ requests' = requests + 1 /\ toHost' = Append(toHost, message)

\* A link is drawn for the first time, or its node is built anew: requestResolution()
\* asks for what is neither known nor asked for.
Draw(n) ==
  /\ cache[n] = "pending" /\ n \notin asked
  /\ asked' = asked \union {n}
  /\ Send([type |-> "resolve", note |-> n])
  /\ UNCHANGED <<notes, watch, host, toPage, cache, clicked, changes, overtaken>>

Click(n) ==
  /\ n \notin clicked /\ clicked' = clicked \union {n}
  /\ Send([type |-> "open", note |-> n])
  /\ UNCHANGED <<notes, watch, host, toPage, page, changes, overtaken>>

\* Mutant: what is known is kept when a note has changed.
PageReceivesKeeping ==
  /\ toPage # <<>> /\ toPage' = Tail(toPage)
  /\ IF Head(toPage).type = "resolved"
     THEN /\ cache' = [n \in Note |->
               IF \E r \in Head(toPage).results : r[1] = n
               THEN (CHOOSE r \in Head(toPage).results : r[1] = n)[2] ELSE cache[n]]
          /\ asked' = asked \ {r[1] : r \in Head(toPage).results}
     ELSE cache' = cache /\ asked' = {}
  /\ UNCHANGED <<notes, watch, host, toHost, clicked, changes, requests, overtaken>>

\* ingestResolutions(), and invalidateWikilinkCache(), which paints every link anew as
\* pending and asks for none.
PageReceives ==
  /\ toPage # <<>> /\ toPage' = Tail(toPage)
  /\ IF Head(toPage).type = "resolved"
     THEN /\ cache' = [n \in Note |->
               IF \E r \in Head(toPage).results : r[1] = n
               THEN (CHOOSE r \in Head(toPage).results : r[1] = n)[2] ELSE cache[n]]
          /\ asked' = asked \ {r[1] : r \in Head(toPage).results}
     ELSE cache' = [n \in Note |-> "pending"] /\ asked' = {}
  /\ UNCHANGED <<notes, watch, host, toHost, clicked, changes, requests, overtaken>>

----------------------------------------------------------------------------

Next ==
  \/ \E n \in Note : Change(n) \/ Draw(n) \/ Click(n)
                     \/ Cancel(n) \/ Confirm(n) \/ Created(n)
  \/ \E b \in Build : List(b) \/ Store(b)
  \/ WatcherReports \/ HostReceives \/ PageReceives

Spec == Init /\ [][Next]_vars

\* The host and the page do what they have begun; the user answers a question.
Fairness ==
  /\ WF_vars(HostReceives) /\ WF_vars(PageReceives)
  /\ \A b \in Build : WF_vars(List(b)) /\ WF_vars(Store(b))
  /\ \A n \in Note : WF_vars(Created(n)) /\ WF_vars(Cancel(n) \/ Confirm(n))

FairSpec == Spec /\ Fairness

----------------------------------------------------------------------------
(* Properties *)

\* Whenever the watcher has nothing to report, the index is that of the notes there
\* are, unless a change overtook a listing. Builds that were dropped and go on, or
\* that end in another order than they began, do no harm otherwise.
IndexIsFresh == ~watch /\ ~overtaken /\ index # None => index = notes

\* Then a link is painted as leading somewhere, or nowhere, only if it does, once the
\* page has read its messages: no late answer outlives the change it is older than.
LinksAreFresh ==
  ~watch /\ ~overtaken /\ toPage = <<>> =>
    \A n \in Note : cache[n] # "pending" => cache[n] = Result(notes, n)[2]

\* The user is told that a note does not exist, and asked to have it written, only when
\* it does not, or a change has not been reported or overtook a listing.
DialogIsHonest ==
  [][\A n \in dialog' \ dialog : n \in notes => watch \/ overtaken]_vars

\* Every click on a link is answered: a note opens, or the user is asked. Builds that
\* were dropped serve the clicks that wait for them.
ClicksAreAnswered == \A n \in Note : n \in clicked ~> n \notin clicked

=============================================================================

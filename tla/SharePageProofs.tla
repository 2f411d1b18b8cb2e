-------------------------- MODULE SharePageProofs --------------------------
(***************************************************************************)
(* Proofs about the page of a share, for any number of shares, folders,    *)
(* files, answers under way, selections and reloads.                       *)
(***************************************************************************)
EXTENDS SharePage, FiniteSetTheorems, TLAPS

-----------------------------------------------------------------------------
(* The inductive invariant *)

\* The folder shown, its entries and the popup of a page go together.
Together(v) ==
    /\ v.entries # None => v.entries.path = v.folderPath
    /\ v.popup # None => FolderOf[v.popup] = v.folderPath

\* Runs that may still change the page ask for what the URL names.
Aimed ==
    \A f \in fetches : f.active => /\ route # Home
                                   /\ f.share = route.share
                                   /\ f.path = route.path

\* The part of the invariant that a run of the effect can disturb.
Following ==
    /\ route \in Route \cup {Home} /\ listed \in BOOLEAN
    /\ view \in View /\ Together(view)
    /\ runs \in 0 .. MaxRuns /\ fetches \subseteq Fetch
    /\ Aimed /\ ShowsUrl

\* Selections are numbered in the order they were made.
Numbered == \E n \in 0 .. MaxUploads : DOMAIN uploads = 1 .. n

\* What a selection is aimed at, if the page had loaded what its URL named, and
\* where the files of a selection went.
Placed ==
    /\ \A u \in DOMAIN uploads : uploads[u].settled =>
          Target(u) = [share |-> uploads[u].at.share, path |-> FolderOf[uploads[u].at.path]]
    /\ \A t \in stored : t[1] \in DOMAIN uploads /\ t[2] = Target(t[1])

\* The part of the invariant about uploads.
Sending ==
    /\ Numbered
    /\ \A u \in DOMAIN uploads : uploads[u] \in Upload
    /\ stored \subseteq (1 .. MaxUploads) \X Route
    /\ Placed

PageInv ==
    /\ reloads \in 0 .. MaxReloads /\ asking \in Nat
    /\ Following /\ Sending

-----------------------------------------------------------------------------
(* The effect and its runs *)

\* How many selections are numbered 1 to m.
LEMMA SelectionsCounted ==
    ASSUME NEW m \in Nat
    PROVE  Cardinality(1 .. m) = m
<1>1. m \in Int /\ 1 \in Int
  OBVIOUS
<1>2. Cardinality(1 .. m) = IF 1 > m THEN 0 ELSE m - 1 + 1
  BY <1>1, FS_Interval
<1> QED BY <1>2

\* The bounds are numbers.
LEMMA PageBounds ==
    ASSUME PageConfig
    PROVE  MaxRuns \in Nat /\ MaxUploads \in Nat /\ MaxFiles \in Nat /\ MaxReloads \in Nat
BY DEF PageConfig

\* A run of the effect, on whatever page and with whatever state, leaves the page
\* following its URL: earlier runs are called off, and a new one asks for what the
\* URL names, or there is nothing to be shown.
LEMMA PageEffect ==
    ASSUME PageConfig, Following, NEW r \in Route \cup {Home}, NEW known \in BOOLEAN,
           NEW v \in View, Together(v), Effect(r, known, v), route' = r, listed' = known
    PROVE  Following'
<1>1. Inactive \subseteq Fetch /\ \A f \in Inactive : ~f.active
  <2>1. ASSUME NEW g \in Inactive
        PROVE  g \in Fetch /\ ~g.active
    <3>1. PICK f \in fetches : g = [f EXCEPT !.active = FALSE]
      BY <2>1 DEF Inactive
    <3>2. f \in Fetch
      BY DEF Following
    <3> QED BY <3>1, <3>2 DEF Fetch
  <2> QED BY <2>1
<1>2. CASE r # Home /\ known /\ r.share \in Browsable
  <2> DEFINE g == [id |-> runs + 1, share |-> r.share, path |-> r.path,
                   step |-> "listing", active |-> TRUE]
  <2>1. /\ runs < MaxRuns /\ runs' = runs + 1
        /\ fetches' = Inactive \cup {g}
        /\ view' = [v EXCEPT !.error = FALSE]
    BY <1>2 DEF Effect
  <2>2. r \in Route /\ r.share \in Share /\ r.path \in Path
    BY <1>2 DEF Route
  <2>3. runs' \in 0 .. MaxRuns /\ g \in Fetch
    BY <2>1, <2>2, PageConfig DEF Following, PageConfig, Fetch
  <2>4. view' \in View /\ Together(view')
    BY <2>1 DEF View, Together
  <2>5. Aimed'
    BY <1>1, <1>2, <2>1 DEF Aimed
  <2>6. g \in fetches' /\ g.active
    BY <2>1
  <2>7. ShowsUrl'
    BY <2>6 DEF ShowsUrl, Settled
  <2> QED BY <1>1, <2>1, <2>2, <2>3, <2>4, <2>5, <2>7 DEF Following
<1>3. CASE ~(r # Home /\ known /\ r.share \in Browsable)
  <2>1. fetches' = Inactive /\ view' = v /\ runs' = runs
    BY <1>3 DEF Effect
  <2>2. Aimed' /\ ShowsUrl'
    BY <1>1, <1>3, <2>1 DEF Aimed, ShowsUrl, Settled, Browsing
  <2> QED BY <1>1, <2>1, <2>2 DEF Following
<1> QED BY <1>2, <1>3

\* An answer changes the page only on behalf of a run that asks for what the URL
\* names, so what it shows is what the URL names.
LEMMA PageAnswer ==
    ASSUME PageConfig, PageInv, NEW f \in fetches, Answer(f)
    PROVE  PageInv'
<1>1. f \in Fetch /\ route' = route /\ listed' = listed /\ runs' = runs
  BY DEF Answer, PageInv, Following
<1>2. f.path \in Path /\ f.share \in Share /\ FolderOf[f.path] \in Folder
  BY <1>1, PageConfig DEF Fetch, PageConfig
<1>3. CASE f.active /\ Resolves(f)
  <2>1. CASE f.step = "listing" /\ f.path \in File
    <3> DEFINE g == [f EXCEPT !.step = "parent"]
    <3>1. fetches' = (fetches \ {f}) \cup {g} /\ view' = view
      BY <1>3, <2>1 DEF Resolves
    <3>2. g \in Fetch /\ g.active /\ g.share = f.share /\ g.path = f.path
      BY <1>1, <1>3 DEF Fetch
    <3>3. Aimed'
      BY <1>1, <1>3, <3>1, <3>2 DEF Aimed, PageInv, Following
    <3>4. ShowsUrl'
      BY <3>1, <3>2 DEF ShowsUrl, Settled
    <3>5. Following'
      BY <1>1, <3>1, <3>2, <3>3, <3>4 DEF PageInv, Following
    <3> QED BY <3>5 DEF PageInv, Sending, Numbered, Placed, Target, Answer
  <2>2. CASE ~(f.step = "listing" /\ f.path \in File)
    <3> DEFINE s == [share |-> f.share, path |-> FolderOf[f.path]]
    <3>1. fetches' = fetches \ {f} /\ view' = Shown(s, f.path)
      BY <1>3, <2>2 DEF Resolves
    <3>2. s \in Route /\ s # None
      BY <1>2, PageConfig DEF Route, Path, PageConfig
    <3>3. Shown(s, f.path) \in View /\ Together(Shown(s, f.path))
      BY <1>2, <3>2 DEF Shown, View, Together, PageInv, Following
    <3>4. route # Home /\ f.share = route.share /\ f.path = route.path
      BY <1>3 DEF Aimed, PageInv, Following
    <3>5. ShowsUrl'
      BY <1>1, <3>1, <3>4 DEF ShowsUrl, Shown
    <3>6. Aimed'
      BY <1>1, <3>1 DEF Aimed, PageInv, Following
    <3>7. Following'
      BY <1>1, <3>1, <3>3, <3>5, <3>6 DEF PageInv, Following
    <3> QED BY <3>7 DEF PageInv, Sending, Numbered, Placed, Target, Answer
  <2> QED BY <2>1, <2>2
<1>4. CASE fetches' = fetches \ {f} /\ view' = [view EXCEPT !.error = TRUE]
  <2>1. view' \in View /\ Together(view') /\ view'.error
    BY <1>4 DEF PageInv, Following, View, Together
  <2>2. Aimed' /\ ShowsUrl'
    BY <1>1, <1>4, <2>1 DEF Aimed, ShowsUrl, Settled, PageInv, Following
  <2>3. Following'
    BY <1>1, <1>4, <2>1, <2>2 DEF PageInv, Following
  <2> QED BY <2>3 DEF PageInv, Sending, Numbered, Placed, Target, Answer
<1>5. CASE ~f.active /\ fetches' = fetches \ {f} /\ view' = view
  <2>1. Aimed' /\ ShowsUrl'
    BY <1>1, <1>5 DEF Aimed, ShowsUrl, Settled, Browsing, PageInv, Following
  <2>2. Following'
    BY <1>1, <1>5, <2>1 DEF PageInv, Following
  <2> QED BY <2>2 DEF PageInv, Sending, Numbered, Placed, Target, Answer
<1> QED BY <1>3, <1>4, <1>5 DEF Answer

-----------------------------------------------------------------------------
(* Going elsewhere, and the shares *)

\* Selections that are only let go of stay aimed where they were.
LEMMA PageLetGo ==
    ASSUME Sending, DOMAIN uploads' = DOMAIN uploads, stored' = stored,
           \A u \in DOMAIN uploads :
               /\ uploads'[u] \in Upload
               /\ uploads'[u].share = uploads[u].share /\ uploads'[u].path = uploads[u].path
               /\ uploads'[u].at = uploads[u].at
               /\ uploads'[u].settled = uploads[u].settled
    PROVE  Sending'
<1>1. Numbered'
  BY DEF Sending, Numbered
<1>2. \A u \in DOMAIN uploads' : uploads'[u].settled =>
          Target(u)' = [share |-> uploads'[u].at.share, path |-> FolderOf[uploads'[u].at.path]]
  BY DEF Sending, Placed, Target
<1>3. \A t \in stored' : t[1] \in DOMAIN uploads' /\ t[2] = Target(t[1])'
  BY DEF Sending, Placed, Target
<1>4. Placed'
  BY <1>2, <1>3 DEF Placed, Target
<1> QED BY <1>1, <1>4 DEF Sending

\* Leaving the page of a share takes its answers along, and leaves its uploads alone.
LEMMA PageLeave ==
    ASSUME PageConfig, PageInv, Leave
    PROVE  PageInv'
<1>1. Mounted \in View /\ Together(Mounted)
  BY PageConfig DEF Mounted, View, Together, PageConfig
<1>2. Following'
  BY <1>1 DEF Leave, PageInv, Following, Aimed, ShowsUrl, Settled, Browsing
<1>3. ASSUME NEW u \in DOMAIN uploads
      PROVE  /\ uploads'[u] \in Upload
             /\ uploads'[u].share = uploads[u].share /\ uploads'[u].path = uploads[u].path
             /\ uploads'[u].at = uploads[u].at
             /\ uploads'[u].settled = uploads[u].settled
  <2>1. uploads'[u] = [uploads[u] EXCEPT !.attached = FALSE, !.held = FALSE]
    BY DEF Leave
  <2>2. uploads[u] \in Upload
    BY DEF PageInv, Sending
  <2> QED BY <2>1, <2>2 DEF Upload
<1>4. Sending'
  BY <1>3, PageLetGo DEF PageInv, Leave
<1> QED BY <1>2, <1>4 DEF PageInv, Leave

\* Another URL of a share, and the effect with it.
LEMMA PageNavigate ==
    ASSUME PageConfig, PageInv, NEW r \in Route, Navigate(r)
    PROVE  PageInv'
<1>1. Following'
  BY PageEffect DEF PageInv, Following, Navigate
<1>2. ASSUME NEW u \in DOMAIN uploads
      PROVE  /\ uploads'[u] \in Upload
             /\ uploads'[u].share = uploads[u].share /\ uploads'[u].path = uploads[u].path
             /\ uploads'[u].at = uploads[u].at
             /\ uploads'[u].settled = uploads[u].settled
  <2> DEFINE h == uploads[u].held /\ r.share \in Uploadable
  <2>1. uploads'[u] = [uploads[u] EXCEPT !.held = h]
    BY DEF Navigate
  <2>2. uploads[u] \in Upload
    BY DEF PageInv, Sending
  <2>3. h \in BOOLEAN
    OBVIOUS
  <2> HIDE DEF h
  <2> QED BY <2>1, <2>2, <2>3 DEF Upload
<1>3. Sending'
  BY <1>2, PageLetGo DEF PageInv, Navigate
<1> QED BY <1>1, <1>3 DEF PageInv, Navigate

\* The shares are asked for, arrive, or do not.
LEMMA PageShares ==
    ASSUME PageConfig, PageInv, Reload \/ ReceiveShares \/ FailShares
    PROVE  PageInv'
<1>1. reloads' \in 0 .. MaxReloads /\ asking' \in Nat
  <2>1. MaxReloads \in Nat /\ reloads \in 0 .. MaxReloads /\ asking \in Nat
    BY PageBounds DEF PageInv
  <2>2. \/ reloads < MaxReloads /\ reloads' = reloads + 1 /\ asking' = asking + 1
        \/ asking > 0 /\ asking' = asking - 1 /\ reloads' = reloads
    BY Zenon DEF Reload, ReceiveShares, FailShares
  <2> QED BY <2>1, <2>2
<1>2. Sending'
  BY DEF PageInv, Reload, ReceiveShares, FailShares, Sending, Numbered, Placed, Target
<1>3. CASE Reload \/ FailShares
  <2>1. UNCHANGED <<route, listed, view, runs, fetches>>
    BY <1>3 DEF Reload, FailShares
  <2>2. Following'
    BY <2>1 DEF PageInv, Following, Aimed, ShowsUrl, Settled, Browsing
  <2> QED BY <1>1, <1>2, <2>2 DEF PageInv
<1>4. CASE ReceiveShares
  <2>1. Effect(route, TRUE, view) /\ listed' = TRUE /\ route' = route
    BY <1>4 DEF ReceiveShares
  <2>2. Following'
    BY <2>1, PageEffect DEF PageInv, Following
  <2> QED BY <1>1, <1>2, <2>2 DEF PageInv
<1> QED BY <1>3, <1>4

-----------------------------------------------------------------------------
(* Uploads *)

\* A selection made on a page that has loaded what its URL names is aimed there.
LEMMA PageHandleFiles ==
    ASSUME PageConfig, PageInv, NEW n \in 1 .. MaxFiles, HandleFiles(n)
    PROVE  PageInv'
<1> DEFINE u == Cardinality(DOMAIN uploads) + 1
           new == [share |-> route.share, path |-> view.folderPath, left |-> n,
                   attached |-> TRUE, held |-> TRUE, at |-> route, settled |-> Settled]
<1>1. PICK m \in 0 .. MaxUploads : DOMAIN uploads = 1 .. m
  BY DEF PageInv, Sending, Numbered
<1>2. m \in Nat /\ u = m + 1 /\ MaxUploads \in Nat
  <2>1. m \in Nat /\ MaxUploads \in Nat
    BY PageBounds
  <2>2. Cardinality(1 .. m) = m
    BY <2>1, SelectionsCounted
  <2> QED BY <1>1, <2>1, <2>2
<1>3. u <= MaxUploads /\ route # Home
  BY DEF HandleFiles
<1>4. uploads' = [v \in 1 .. u |-> IF v = u THEN new ELSE uploads[v]]
  BY DEF HandleFiles
<1>5. stored' = stored /\ UNCHANGED <<route, listed, reloads, asking, view, runs, fetches>>
  BY DEF HandleFiles
<1>6. Settled => [share |-> route.share, path |-> view.folderPath]
                     = [share |-> route.share, path |-> FolderOf[route.path]]
  <2>1. route \in Route /\ route.share \in Share /\ FolderOf[route.path] \in Folder
    BY <1>3, PageConfig DEF PageInv, Following, Route, PageConfig
  <2>2. SUFFICES ASSUME Settled PROVE view.folderPath = FolderOf[route.path]
    OBVIOUS
  <2>3. view.entries = [share |-> route.share, path |-> FolderOf[route.path]]
    BY <2>2 DEF PageInv, Following, ShowsUrl
  <2>4. view.entries # None
    BY <2>1, <2>3, PageConfig DEF PageConfig, Path, Route
  <2> QED BY <2>3, <2>4 DEF PageInv, Following, Together
<1>7. /\ new \in Upload /\ new.share = route.share /\ new.path = view.folderPath
      /\ new.at = route /\ new.settled = Settled
  <2> DEFINE b == Settled
  <2>1. b \in BOOLEAN
    BY DEF Settled
  <2>2. new = [share |-> route.share, path |-> view.folderPath, left |-> n,
               attached |-> TRUE, held |-> TRUE, at |-> route, settled |-> b]
    OBVIOUS
  <2>3. /\ route \in Route /\ route.share \in Share /\ view.folderPath \in Folder
        /\ n \in 0 .. MaxFiles
    BY <1>3, PageConfig DEF PageInv, Following, Route, View, PageConfig
  <2> HIDE DEF b, new
  <2>4. /\ new \in Upload /\ new.share = route.share /\ new.path = view.folderPath
        /\ new.at = route /\ new.settled = b
    BY <2>1, <2>2, <2>3 DEF Upload
  <2> QED BY <2>4 DEF b
<1> HIDE DEF new, u
<1>8. DOMAIN uploads' = 1 .. u /\ uploads'[u] = new
  BY <1>2, <1>4
<1>9. \A v \in DOMAIN uploads : v \in DOMAIN uploads' /\ uploads'[v] = uploads[v]
  BY <1>1, <1>2, <1>4
<1>10. \A v \in DOMAIN uploads' : v = u \/ v \in DOMAIN uploads
  BY <1>1, <1>2, <1>8
<1>11. Numbered'
  BY <1>2, <1>3, <1>8 DEF Numbered
<1>12. \A v \in DOMAIN uploads' : uploads'[v] \in Upload
  BY <1>7, <1>8, <1>9, <1>10 DEF PageInv, Sending
<1>13. \A v \in DOMAIN uploads' : uploads'[v].settled =>
          [share |-> uploads'[v].share, path |-> uploads'[v].path]
              = [share |-> uploads'[v].at.share, path |-> FolderOf[uploads'[v].at.path]]
  <2>1. SUFFICES ASSUME NEW v \in DOMAIN uploads', uploads'[v].settled
                 PROVE  [share |-> uploads'[v].share, path |-> uploads'[v].path]
                            = [share |-> uploads'[v].at.share,
                               path |-> FolderOf[uploads'[v].at.path]]
    OBVIOUS
  <2>2. CASE v = u
    BY <1>6, <1>7, <1>8, <2>1, <2>2
  <2>3. CASE v \in DOMAIN uploads
    BY <1>9, <2>1, <2>3 DEF PageInv, Sending, Placed, Target
  <2> QED BY <1>10, <2>2, <2>3
<1>14. \A t \in stored' : t[1] \in DOMAIN uploads'
                          /\ t[2] = [share |-> uploads'[t[1]].share, path |-> uploads'[t[1]].path]
  BY <1>5, <1>9 DEF PageInv, Sending, Placed, Target
<1>15. Sending'
  BY <1>5, <1>11, <1>12, <1>13, <1>14 DEF Sending, Placed, Target, PageInv
<1>16. Following'
  BY <1>5 DEF PageInv, Following, Aimed, ShowsUrl, Settled, Browsing
<1> QED BY <1>5, <1>15, <1>16 DEF PageInv

\* A file goes where its selection is aimed, whatever the page shows by then.
LEMMA PageUploadNext ==
    ASSUME PageConfig, PageInv, NEW u \in DOMAIN uploads, UploadNext(u)
    PROVE  PageInv'
<1>1. uploads[u] \in Upload /\ u \in 1 .. MaxUploads
  BY PageConfig DEF PageInv, Sending, Numbered, PageConfig
<1>2. /\ DOMAIN uploads' = DOMAIN uploads
      /\ \A v \in DOMAIN uploads :
            /\ uploads'[v] \in Upload
            /\ uploads'[v].share = uploads[v].share /\ uploads'[v].path = uploads[v].path
            /\ uploads'[v].at = uploads[v].at
            /\ uploads'[v].settled = uploads[v].settled
  <2>1. uploads' = [uploads EXCEPT ![u] = [uploads[u] EXCEPT !.left = uploads[u].left - 1]]
    BY DEF UploadNext
  <2>2. uploads[u].left > 0
    BY DEF UploadNext
  <2>3. uploads[u].left - 1 \in 0 .. MaxFiles
    BY <1>1, <2>2, PageConfig DEF Upload, PageConfig
  <2>4. DOMAIN uploads' = DOMAIN uploads
    BY <2>1
  <2>5. ASSUME NEW v \in DOMAIN uploads
        PROVE  /\ uploads'[v] \in Upload
               /\ uploads'[v].share = uploads[v].share /\ uploads'[v].path = uploads[v].path
               /\ uploads'[v].at = uploads[v].at
               /\ uploads'[v].settled = uploads[v].settled
    <3>1. uploads[v] \in Upload
      BY DEF PageInv, Sending
    <3>2. CASE v # u
      BY <2>1, <3>1, <3>2
    <3>3. CASE v = u
      <4>1. uploads'[v] = [uploads[v] EXCEPT !.left = uploads[v].left - 1]
        BY <2>1, <3>3
      <4> QED BY <2>3, <3>1, <3>3, <4>1 DEF Upload
    <3> QED BY <3>2, <3>3
  <2> QED BY <2>4, <2>5
<1>3. Target(u) \in Route
  BY <1>1, PageConfig DEF Target, Route, Path, Upload, PageConfig
<1>4. \A t \in stored' : t \in stored \/ t = <<u, Target(u)>>
  BY DEF UploadNext
<1>5. stored' \subseteq (1 .. MaxUploads) \X Route
  BY <1>1, <1>3, <1>4 DEF PageInv, Sending
<1>6. Numbered'
  BY <1>2 DEF PageInv, Sending, Numbered
<1>7. \A v \in DOMAIN uploads' : Target(v)' = Target(v)
  BY <1>2 DEF Target
<1>8. \A t \in stored' : t[1] \in DOMAIN uploads' /\ t[2] = Target(t[1])
  BY <1>2, <1>4 DEF PageInv, Sending, Placed
<1>9. \A v \in DOMAIN uploads' : uploads'[v].settled =>
          Target(v) = [share |-> uploads'[v].at.share, path |-> FolderOf[uploads'[v].at.path]]
  BY <1>2 DEF PageInv, Sending, Placed
<1>10. Placed'
  BY <1>7, <1>8, <1>9 DEF Placed, Target
<1>11. Sending'
  BY <1>2, <1>5, <1>6, <1>10 DEF Sending
<1>12. /\ route' = route /\ listed' = listed /\ reloads' = reloads /\ asking' = asking
       /\ Effect(route, listed, view) \/ UNCHANGED <<view, runs, fetches>>
  BY DEF UploadNext
<1>13. CASE Effect(route, listed, view)
  <2>1. Following'
    BY <1>12, <1>13, PageEffect DEF PageInv, Following
  <2> QED BY <1>11, <1>12, <2>1 DEF PageInv
<1>14. CASE UNCHANGED <<view, runs, fetches>>
  <2>1. Following'
    BY <1>12, <1>14 DEF PageInv, Following, Aimed, ShowsUrl, Settled, Browsing
  <2> QED BY <1>11, <1>12, <2>1 DEF PageInv
<1> QED BY <1>12, <1>13, <1>14

-----------------------------------------------------------------------------
(* The theorems *)

\* The invariant holds when the frontend is loaded.
LEMMA PageInit ==
    ASSUME PageConfig, Init
    PROVE  PageInv
<1>1. Mounted \in View /\ Together(Mounted)
  BY PageConfig DEF Mounted, View, Together, PageConfig
<1>2. Following
  <2>1. listed = FALSE /\ fetches = {} /\ route \in Route \cup {Home}
    BY DEF Init
  <2>2. view = Mounted /\ runs \in 0 .. MaxRuns
    BY PageBounds DEF Init
  <2>3. Aimed /\ ShowsUrl
    BY <2>1 DEF Aimed, ShowsUrl, Settled, Browsing
  <2> QED BY <1>1, <2>1, <2>2, <2>3 DEF Following
<1>3. DOMAIN uploads = 1 .. 0 /\ DOMAIN uploads = {}
  BY DEF Init
<1>4. Sending
  BY <1>3, PageBounds DEF Init, Sending, Numbered, Placed
<1> QED BY <1>2, <1>4, PageBounds DEF Init, PageInv

\* Every step keeps it.
LEMMA PageStep ==
    ASSUME PageConfig, PageInv, [Next]_vars
    PROVE  PageInv'
<1>1. CASE Next
  BY <1>1, PageLeave, PageNavigate, PageAnswer, PageShares, PageHandleFiles, PageUploadNext
  DEF Next, AnswerAny, UploadAny
<1>2. CASE UNCHANGED vars
  BY <1>2 DEF vars, PageInv, Following, Sending, Aimed, ShowsUrl, Settled, Browsing, Numbered,
              Placed, Target
<1> QED BY <1>1, <1>2

\* What is true of the page of a share in every state: the runs that may still change
\* it ask for what the URL names, and every file went where its selection was aimed.
THEOREM PageInvariant == Spec => []PageInv
<1>1. Init => PageInv
  BY PageInit, PageConfig
<1>2. PageInv /\ [Next]_vars => PageInv'
  BY PageStep, PageConfig
<1> QED BY <1>1, <1>2, PTL DEF Spec

\* The type of the state; the folder shown, its entries and the popup go together.
THEOREM PageTyped == Spec => []TypeOK
<1>1. PageInv => TypeOK
  BY PageConfig DEF PageInv, Following, Sending, Numbered, Together, TypeOK, PageConfig
<1> QED BY <1>1, PageInvariant, PTL

\* However URLs, reloads and answers follow one another, a page with no answer
\* outstanding and none failed shows what its URL names (ShareView.tsx).
THEOREM PageShowsUrl == Spec => []ShowsUrl
<1>1. PageInv => ShowsUrl
  BY DEF PageInv, Following
<1> QED BY <1>1, PageInvariant, PTL

\* The files of a selection made on such a page all go to the folder of its URL
\* (UploadDropzone.tsx), wherever the recipient goes meanwhile.
THEOREM PageUploadsStay == Spec => []UploadsStay
<1>1. PageInv => UploadsStay
  BY DEF PageInv, Sending, Placed, UploadsStay
<1> QED BY <1>1, PageInvariant, PTL
=============================================================================

----------------------------- MODULE SharePage -----------------------------
(***************************************************************************)
(* The page of one share in the recipient frontend: the folder browser     *)
(* that follows the URL (ShareView.tsx), the listing of the shares it      *)
(* depends on (useShares.ts) and the uploads started from it               *)
(* (UploadDropzone.tsx).                                                   *)
(*                                                                         *)
(* The page is one component as long as the URL stays below /share/: its   *)
(* state outlives the URL it was loaded for.  Each run of its effect asks  *)
(* the gateway for what the URL names and, when that is a file, for the    *)
(* folder around it; answers arrive in any order, or not at all.           *)
(***************************************************************************)
EXTENDS Naturals, FiniteSets

CONSTANTS
    Share,        \* share ids
    Browsable,    \* those whose mode allows to list their content
    Uploadable,   \* those whose mode allows to upload
    Folder, File, \* paths in a share
    Root,         \* the folder a share starts at
    FolderOf,     \* path -> the folder shown for it: itself, or a file's parent
    MaxRuns,      \* bound: runs of the effect
    MaxUploads,   \* bound: selections of files
    MaxFiles,     \* bound: files in a selection
    MaxReloads,   \* bound: reloads of the shares
    Home, None    \* the page of all shares; nothing

Path == Folder \cup File

ASSUME PageConfig ==
    /\ Browsable \subseteq Share /\ Uploadable \subseteq Share
    /\ Root \in Folder /\ Folder \cap File = {}
    /\ FolderOf \in [Path -> Folder] /\ \A p \in Folder : FolderOf[p] = p
    /\ {MaxRuns, MaxUploads, MaxFiles, MaxReloads} \subseteq Nat
    /\ Home \notin [share : Share, path : Path]
    /\ None \notin Path \cup [share : Share, path : Path]

VARIABLES
    route,    \* the URL
    listed,   \* are the shares known?
    reloads,  \* reloads of the shares so far
    asking,   \* requests for the shares under way
    view,     \* state of the mounted ShareView
    runs,     \* runs of the effect so far; numbers them
    fetches,  \* runs of the effect that wait for an answer
    uploads,  \* selection -> what its loop was given and has still to do
    stored    \* history: where the files of a selection went

vars == <<route, listed, reloads, asking, view, runs, fetches, uploads, stored>>

Route == [share : Share, path : Path]

\* entries is the folder they are the entries of.
View == [folderPath : Folder, entries : Route \cup {None}, popup : File \cup {None},
         error : BOOLEAN]
Mounted == [folderPath |-> Root, entries |-> None, popup |-> None, error |-> FALSE]

Fetch == [id : 1 .. MaxRuns, share : Share, path : Path,
          step : {"listing", "parent"}, active : BOOLEAN]

\* share and path are captured when the files are chosen; attached and held: do the
\* page and the dropzone they were chosen in still exist?  at and settled are
\* history: the URL then, and whether the page showed what the URL named.
Upload == [share : Share, path : Folder, left : 0 .. MaxFiles, attached : BOOLEAN,
           held : BOOLEAN, at : Route, settled : BOOLEAN]

-----------------------------------------------------------------------------
(* ShareView *)

Browsing == route # Home /\ listed /\ route.share \in Browsable

\* Has the page loaded what the URL names?
Settled ==
    /\ Browsing /\ ~view.error
    /\ \A f \in fetches : ~f.active

\* Mutant: no run is ever called off.
KeepRuns == fetches

\* The cleanup of the effect: earlier runs no longer change the page.
Inactive == {[f EXCEPT !.active = FALSE] : f \in fetches}

\* The effect, run after a change of what it depends on: the page is on r, with
\* the state v, and knows the shares if known.
Effect(r, known, v) ==
    IF r # Home /\ known /\ r.share \in Browsable
    THEN /\ runs < MaxRuns
         /\ runs' = runs + 1
         /\ fetches' = Inactive \cup {[id |-> runs + 1, share |-> r.share, path |-> r.path,
                                       step |-> "listing", active |-> TRUE]}
         /\ view' = [v EXCEPT !.error = FALSE]
    ELSE /\ fetches' = Inactive
         /\ view' = v
         /\ UNCHANGED runs

\* The page is left for the one of all shares, and with it its state; an upload
\* goes on without it.
Leave ==
    /\ route # Home
    /\ route' = Home
    /\ view' = Mounted
    /\ fetches' = {}
    /\ uploads' = [u \in DOMAIN uploads |->
                      [uploads[u] EXCEPT !.attached = FALSE, !.held = FALSE]]
    /\ UNCHANGED <<listed, reloads, asking, runs, stored>>

\* Another URL of a share: a link, the history of the browser, an entry's row or
\* the closing of the popup.  A share without a dropzone takes the one there was away.
Navigate(r) ==
    /\ r # route
    /\ route' = r
    /\ uploads' = [u \in DOMAIN uploads |->
                      [uploads[u] EXCEPT !.held = @ /\ r.share \in Uploadable]]
    /\ Effect(r, listed, view)
    /\ UNCHANGED <<listed, reloads, asking, stored>>

\* Mutant: the folder shown is the path of the URL, also when that is a file.
ShownUnparented(r, asked) ==
    [folderPath |-> asked, entries |-> r,
     popup |-> IF asked \in File THEN asked ELSE None, error |-> view.error]

\* The page once it got the listing of the folder r, for the path asked.
Shown(r, asked) ==
    [folderPath |-> r.path, entries |-> r,
     popup |-> IF asked \in File THEN asked ELSE None, error |-> view.error]

\* The listing arrived; of a file, its folder has to be asked for as well.
Resolves(f) ==
    IF f.step = "listing" /\ f.path \in File
    THEN /\ fetches' = (fetches \ {f}) \cup {[f EXCEPT !.step = "parent"]}
         /\ UNCHANGED view
    ELSE /\ fetches' = fetches \ {f}
         /\ view' = Shown([share |-> f.share, path |-> FolderOf[f.path]], f.path)

\* Mutant: a run that failed half-way starts over.
AnswerRetried(f) ==
    /\ \/ f.active /\ Resolves(f)
       \/ /\ f.active /\ f.step = "parent"
          /\ fetches' = (fetches \ {f}) \cup {[f EXCEPT !.step = "listing"]}
          /\ UNCHANGED view
       \/ ~f.active /\ fetches' = fetches \ {f} /\ UNCHANGED view
    /\ UNCHANGED <<route, listed, reloads, asking, runs, uploads, stored>>

\* An answer, or a failure; the page ignores it once the run was called off.
Answer(f) ==
    /\ \/ f.active /\ Resolves(f)
       \/ f.active /\ fetches' = fetches \ {f} /\ view' = [view EXCEPT !.error = TRUE]
       \/ ~f.active /\ fetches' = fetches \ {f} /\ UNCHANGED view
    /\ UNCHANGED <<route, listed, reloads, asking, runs, uploads, stored>>

-----------------------------------------------------------------------------
(* useShares *)

\* A download was started: the shares are asked for again a moment later.
Reload ==
    /\ reloads < MaxReloads
    /\ reloads' = reloads + 1
    /\ asking' = asking + 1
    /\ UNCHANGED <<route, listed, view, runs, fetches, uploads, stored>>

\* The shares arrive: the share of the page is another object than before, so its
\* effect runs again.
ReceiveShares ==
    /\ asking > 0
    /\ asking' = asking - 1
    /\ listed' = TRUE
    /\ Effect(route, TRUE, view)
    /\ UNCHANGED <<route, reloads, uploads, stored>>

\* They do not: what is known stays.
FailShares ==
    /\ asking > 0
    /\ asking' = asking - 1
    /\ UNCHANGED <<route, listed, reloads, view, runs, fetches, uploads, stored>>

-----------------------------------------------------------------------------
(* UploadDropzone *)

Busy == \E u \in DOMAIN uploads : uploads[u].held /\ uploads[u].left > 0

\* Files are chosen; their loop keeps the share and the path of this moment.
HandleFiles(n) ==
    LET u == Cardinality(DOMAIN uploads) + 1 IN
    /\ route # Home /\ listed /\ route.share \in Uploadable
    /\ ~Busy
    /\ u <= MaxUploads
    /\ uploads' = [v \in 1 .. u |->
          IF v = u THEN [share |-> route.share, path |-> view.folderPath, left |-> n,
                         attached |-> TRUE, held |-> TRUE, at |-> route, settled |-> Settled]
          ELSE uploads[v]]
    /\ UNCHANGED <<route, listed, reloads, asking, view, runs, fetches, stored>>

\* Mutant: each file goes to the folder shown when its turn comes.
TargetNow(u) == [share |-> uploads[u].share, path |-> view.folderPath]

\* Where the next file of a selection goes.
Target(u) == [share |-> uploads[u].share, path |-> uploads[u].path]

\* One file is done, stored or not; after the last one the page loads anew.
UploadNext(u) ==
    /\ uploads[u].left > 0
    /\ uploads' = [uploads EXCEPT ![u].left = @ - 1]
    /\ \/ stored' = stored \cup {<<u, Target(u)>>}
       \/ UNCHANGED stored
    /\ IF uploads[u].left = 1 /\ uploads[u].attached
       THEN Effect(route, listed, view)
       ELSE UNCHANGED <<view, runs, fetches>>
    /\ UNCHANGED <<route, listed, reloads, asking>>

-----------------------------------------------------------------------------

\* The frontend is loaded on any URL and asks for the shares.
Init ==
    /\ route \in Route \cup {Home}
    /\ listed = FALSE /\ reloads = 0 /\ asking = 1
    /\ view = Mounted
    /\ runs = 0 /\ fetches = {}
    /\ uploads = <<>> /\ stored = {}

AnswerAny == \E f \in fetches : Answer(f)
UploadAny == \E u \in DOMAIN uploads : UploadNext(u)

Next ==
    \/ Leave \/ (\E r \in Route : Navigate(r))
    \/ AnswerAny
    \/ Reload \/ ReceiveShares \/ FailShares
    \/ (\E n \in 1 .. MaxFiles : HandleFiles(n))
    \/ UploadAny

Spec == Init /\ [][Next]_vars

\* The gateway answers what it is asked.
FairSpec == Spec /\ WF_vars(AnswerAny)

-----------------------------------------------------------------------------
(* Properties *)

\* The type of the state; the folder, its entries and the popup go together.
TypeOK ==
    /\ route \in Route \cup {Home}
    /\ listed \in BOOLEAN /\ reloads \in 0 .. MaxReloads /\ asking \in Nat
    /\ view \in View
    /\ view.entries # None => view.entries.path = view.folderPath
    /\ view.popup # None => FolderOf[view.popup] = view.folderPath
    /\ runs \in 0 .. MaxRuns
    /\ fetches \subseteq Fetch
    /\ DOMAIN uploads \subseteq 1 .. MaxUploads
    /\ \A u \in DOMAIN uploads : uploads[u] \in Upload
    /\ stored \subseteq (1 .. MaxUploads) \X Route

\* ShareView is "driven entirely by the URL": whatever was navigated, reloaded and
\* answered in whichever order, once no answer is outstanding and none failed, the
\* page shows the folder of the share and path the URL names, and the popup of the
\* file it names, if it does.
ShowsUrl ==
    Settled =>
        /\ view.entries = [share |-> route.share, path |-> FolderOf[route.path]]
        /\ view.popup = IF route.path \in File THEN route.path ELSE None

\* Files chosen on a page that had loaded what its URL names all go to the folder of
\* that URL, wherever the recipient has gone by the time it is their turn.
UploadsStay ==
    \A u \in DOMAIN uploads : uploads[u].settled =>
        \A r \in Route : <<u, r>> \in stored =>
            r = [share |-> uploads[u].at.share, path |-> FolderOf[uploads[u].at.path]]

\* A page that is loading has loaded some time, or says that it could not.
Loads == (\E f \in fetches : f.active) ~> (\A f \in fetches : ~f.active)

\* UploadDropzone.tsx: files go "into the currently-browsed sub-folder (path)", and
\* what is browsed is what the URL names.
UploadsWhereBrowsed ==
    \A u \in DOMAIN uploads : \A r \in Route : <<u, r>> \in stored =>
        r = [share |-> uploads[u].at.share, path |-> FolderOf[uploads[u].at.path]]
=============================================================================

---------------------------- MODULE StubProvider ----------------------------
(***************************************************************************)
(* The storage provider of the end-to-end harness                          *)
(* (cmd/atrium-e2e/stubprovider.go, fixtures.go): the provider contract    *)
(* over a dataset in memory, which the tests reset while requests of an    *)
(* earlier test may still be running.                                      *)
(*                                                                         *)
(* Every lookup takes the lock once.  A handler looks its share up, lets   *)
(* go of the lock, and takes it again to read or change what it found:     *)
(* between the two steps the dataset can be replaced, and then the handler *)
(* goes on with the share of the dataset it was authorised in, which is    *)
(* why the datasets are numbered here and old ones are kept.               *)
(***************************************************************************)
EXTENDS Integers, Sequences, FiniteSetsExt, Functions

CONSTANTS
    Request,     \* requests under way at a time
    Token,       \* bearer tokens: the email one asserts, or Junk
    Junk,        \* a token that cannot be decoded, or none
    Share,       \* the shares of the fixture that are asked for
    Name,        \* names a file may be uploaded under
    MaxDatasets, \* bound: the dataset is reset MaxDatasets - 1 times
    MaxCount,    \* bound: downloads counted before a share is asked for again
    MaxEntries,  \* bound: entries of one folder
    None

FileShare   == {"file-basic", "file-limited", "file-other"}
FolderShare == {"folder-readall", "folder-readonly", "folder-readown", "folder-dropzone"}

\* The only folders there are: uploads add files, never folders.
Dir == {"root", "Unterlagen"}

\* The largest folder of the fixture holds two entries.
ASSUME StubConfig ==
    /\ Share \subseteq FileShare \cup FolderShare
    /\ MaxDatasets \in Nat \ {0} /\ MaxCount \in Nat /\ MaxEntries \in Nat \ {0, 1}
    /\ None \notin Int \cup Dir

VARIABLES
    dataset, \* which dataset is the current one
    count,   \* dataset -> share -> DownloadCount
    tree,    \* dataset -> folder share -> folder -> its entries
    conn,    \* request -> the handler's state
    served   \* history: dataset -> share -> contents sent with 200

vars == <<dataset, count, tree, conn, served>>

Dataset == 1 .. MaxDatasets
Folders == Share \cap FolderShare

-----------------------------------------------------------------------------
(* The fixture *)

Recipient(s) == IF s = "file-other" THEN "other" ELSE "recipient"

\* The sharing mode: 0 read only, 1 write and read own, 2 read all, 3 drop zone.
Mode(s) ==
    CASE s = "folder-readown"  -> 1
      [] s = "folder-readall"  -> 2
      [] s = "folder-dropzone" -> 3
      [] OTHER -> 0

MaxDownloads(s) == IF s = "file-limited" THEN 1 ELSE None

\* An entry of a folder.  dir is the folder it is, None for a file; home is the
\* dataset and the share that its content was meant for.
Entry(id, n, name, dir, own, home) ==
    [id |-> <<id, n>>, name |-> name, dir |-> dir, isOwn |-> own, home |-> home]

FileName == {"Plan.pdf", "Unterlagen", "Detail.txt", "Liste.csv"} \cup Name

Nodes == [id : {"plan", "unterlagen", "detail", "liste", "up"} \X Nat, name : FileName,
          dir : Dir \cup {None}, isOwn : BOOLEAN, home : Dataset \X Folders]

Fixture(d, s) ==
    LET file(id, name) == Entry(id, 0, name, None, FALSE, <<d, s>>) IN
    [dir \in Dir |->
        CASE dir = "root" /\ s = "folder-readall" ->
               <<file("plan", "Plan.pdf"),
                 Entry("unterlagen", 0, "Unterlagen", "Unterlagen", FALSE, <<d, s>>)>>
          [] dir = "Unterlagen" /\ s = "folder-readall" -> <<file("detail", "Detail.txt")>>
          [] dir = "root" /\ s = "folder-readonly" -> <<file("liste", "Liste.csv")>>
          [] OTHER -> <<>>]

-----------------------------------------------------------------------------
(* Walking a share *)

Root == Entry("", 0, "", "root", FALSE, None)

\* The first of the entries at the positions found, None if there is none.
FirstOf(entries, found) == IF found = {} THEN None ELSE entries[Min(found)]

Named(entries, name) == {i \in DOMAIN entries : entries[i].name = name}

Children(t, node) == IF node.dir = None THEN <<>> ELSE t[node.dir]

\* One step down a path, from the node reached so far.
ChildNamed(t, node, name) ==
    IF node = None THEN None
    ELSE FirstOf(Children(t, node), Named(Children(t, node), name))

\* The node at a path, None if there is none.  A share that is a file has no root.
resolve(d, s, path) ==
    LET cur[n \in 0 .. Len(path)] ==
            IF n = 0 THEN Root ELSE ChildNamed(tree[d][s], cur[n - 1], path[n]) IN
    IF s \notin Folders THEN None ELSE cur[Len(path)]

WithID(entries, id) == {i \in DOMAIN entries : entries[i].id = id}

\* Depth first: what a folder holds comes before what follows it.
findByID(d, s, id) ==
    IF s \notin Folders THEN None ELSE
    LET t == tree[d][s]
        top == t["root"]
        found(i) == WithID(Children(t, top[i]), id)
        hit == FirstOf(top, {i \in DOMAIN top : top[i].id = id \/ found(i) # {}}) IN
    IF hit = None \/ hit.id = id THEN hit
    ELSE FirstOf(Children(t, hit), WithID(Children(t, hit), id))

\* The entries that are shown; their order is left out.
filterByMode(entries, mode) ==
    {c \in Range(entries) : mode # 3 /\ (mode = 1 => c.isOwn)}

-----------------------------------------------------------------------------
(* Authorization *)

\* The claim is read without a verification; nobody has the email "".
claimsFromRequest(token) == IF token = Junk THEN "" ELSE token

\* What a request can point at: a file by its id, or a folder by its path.
Ids == {<<"plan", 0>>, <<"detail", 0>>, <<"up", 2>>}
Paths == {<<>>, <<"Unterlagen">>, <<"Unterlagen", "Detail.txt">>}
Pointer == Ids \cup Paths
Target(op) ==
    CASE op = "content" -> {<<>>}
      [] op = "file"    -> Ids
      [] op \in {"folder", "upload"} -> Paths

Ops == {"content", "folder", "file", "upload"}

Fresh == [phase |-> "idle", email |-> "", op |-> "", share |-> None, at |-> <<>>, in |-> 0,
          status |-> 0, shown |-> {}]

Email == {claimsFromRequest(token) : token \in Token} \cup {""}
Status == {0, 200, 201, 400, 403, 404, 410}

Handler ==
    [phase : {"idle", "authorized", "answered"}, email : Email, op : Ops \cup {"", "shares"},
     share : Share \cup {None}, at : Pointer, in : Dataset \cup {0},
     status : Status, shown : SUBSET (Dataset \X Share)]

Waiting(r) == conn[r].phase \in {"idle", "answered"}

\* The answer; what was asked is kept only beside what was shown for it.
Answered(r, status, shown) ==
    LET asked == IF shown = {} THEN Fresh ELSE conn[r] IN
    conn' = [conn EXCEPT ![r] = [asked EXCEPT !.phase = "answered", !.status = status,
                                              !.shown = shown, !.at = <<>>]]

listFor(email) == {s \in Share : Recipient(s) = email}

\* The listing of one's shares, under one lock.
handleShares(r, email) ==
    /\ Waiting(r)
    /\ conn' = [conn EXCEPT ![r] =
            [Fresh EXCEPT !.phase = "answered", !.email = email, !.op = "shares", !.status = 200,
                          !.in = dataset, !.shown = {<<dataset, s>> : s \in listFor(email)}]]
    /\ UNCHANGED <<dataset, count, tree, served>>

\* Anything may be asked of any share.  One path and one id stand for all in a share that
\* is a file, which has no root to walk from; the bound is here so that whoever is let in
\* is answered.
Asked(op, s, at) ==
    /\ s \in FileShare => at \in {<<>>, <<"plan", 0>>}
    /\ op = "content" => count[dataset][s] < MaxCount

\* Mutant: after the 404 the handler goes on, without a share.
AuthorizeNil(r, op, email, s, at) ==
    /\ Waiting(r) /\ Asked(op, s, at)
    /\ conn' = [conn EXCEPT ![r] =
            [Fresh EXCEPT !.phase = "authorized", !.email = email, !.op = op,
                          !.at = at, !.in = dataset,
                          !.share = IF Recipient(s) = email THEN s ELSE None]]
    /\ UNCHANGED <<dataset, count, tree, served>>

\* A request arrives and its share is looked up in the dataset of this moment; a
\* share of somebody else is answered like one that does not exist.
authorize(r, op, email, s, at) ==
    /\ Waiting(r) /\ Asked(op, s, at)
    /\ conn' = [conn EXCEPT ![r] =
            IF Recipient(s) # email
            THEN [Fresh EXCEPT !.phase = "answered", !.status = 404]
            ELSE [Fresh EXCEPT !.phase = "authorized", !.email = email, !.op = op,
                               !.share = s, !.at = at, !.in = dataset]]
    /\ UNCHANGED <<dataset, count, tree, served>>

Working(r, op) == conn[r].phase = "authorized" /\ conn[r].op = op

-----------------------------------------------------------------------------
(* The handlers, once authorised *)

\* Mutant: the limit is compared one too late.
ExhaustedLate(d, s) == MaxDownloads(s) # None /\ count[d][s] > MaxDownloads(s)

Exhausted(d, s) == MaxDownloads(s) # None /\ count[d][s] >= MaxDownloads(s)

handleContent(r) ==
    LET d == conn[r].in
        s == conn[r].share IN
    /\ Working(r, "content")
    /\ IF Exhausted(d, s)
       THEN Answered(r, 410, {}) /\ UNCHANGED <<count, served>>
       ELSE /\ count' = [count EXCEPT ![d][s] = @ + 1]
            /\ served' = [served EXCEPT ![d][s] = @ + 1]
            /\ Answered(r, 200, {<<d, s>>})
    /\ UNCHANGED <<dataset, tree>>

\* A path to a file shows its entry whatever the mode of the share.
handleFolder(r) ==
    LET d == conn[r].in
        s == conn[r].share
        target == resolve(d, s, conn[r].at) IN
    /\ Working(r, "folder")
    /\ \/ target = None /\ Answered(r, 404, {})
       \/ /\ target # None /\ target.dir = None
          /\ Answered(r, 200, {target.home})
       \/ /\ target # None /\ target.dir # None
          /\ LET listed == filterByMode(tree[d][s][target.dir], Mode(s)) IN
             Answered(r, 200, {c.home : c \in listed})
    /\ UNCHANGED <<dataset, count, tree, served>>

handleFolderFile(r) ==
    LET n == findByID(conn[r].in, conn[r].share, conn[r].at) IN
    /\ Working(r, "file")
    /\ IF n = None THEN Answered(r, 404, {}) ELSE Answered(r, 200, {n.home})
    /\ UNCHANGED <<dataset, count, tree, served>>

\* Refused by the mode, or cut off while the body was read.
UploadFails(r) ==
    /\ Working(r, "upload")
    /\ Answered(r, IF Mode(conn[r].share) = 0 THEN 403 ELSE 400, {})
    /\ UNCHANGED <<dataset, count, tree, served>>

\* Mutant: the share is looked up again after the body was read.
StoreInCurrent(r, name) ==
    LET d == dataset
        s == conn[r].share
        folder == resolve(d, s, conn[r].at) IN
    /\ Working(r, "upload") /\ Mode(s) # 0
    /\ IF folder = None \/ folder.dir = None
       THEN Answered(r, 404, {}) /\ UNCHANGED tree
       ELSE /\ Len(tree[d][s][folder.dir]) < MaxEntries
            /\ tree' = [tree EXCEPT ![d][s][folder.dir] =
                   Append(@, Entry("up", Len(@) + 1, name, None, TRUE, <<conn[r].in, s>>))]
            /\ Answered(r, 201, {})
    /\ UNCHANGED <<dataset, count, served>>

\* The body has been read without the lock, however long that took.
Store(r, name) ==
    LET d == conn[r].in
        s == conn[r].share
        folder == resolve(d, s, conn[r].at) IN
    /\ Working(r, "upload") /\ Mode(s) # 0
    /\ IF folder = None \/ folder.dir = None
       THEN Answered(r, 404, {}) /\ UNCHANGED tree
       ELSE /\ Len(tree[d][s][folder.dir]) < MaxEntries
            /\ tree' = [tree EXCEPT ![d][s][folder.dir] =
                   Append(@, Entry("up", Len(@) + 1, name, None, TRUE, <<d, s>>))]
            /\ Answered(r, 201, {})
    /\ UNCHANGED <<dataset, count, served>>

\* The tests reset the dataset at any time.
seed ==
    /\ dataset < MaxDatasets
    /\ dataset' = dataset + 1
    /\ UNCHANGED <<count, tree, conn, served>>

-----------------------------------------------------------------------------

Init ==
    /\ dataset = 1
    /\ count = [d \in Dataset |-> [s \in Share |-> 0]]
    /\ tree = [d \in Dataset |-> [s \in Folders |-> Fixture(d, s)]]
    /\ conn = [r \in Request |-> Fresh]
    /\ served = [d \in Dataset |-> [s \in Share |-> 0]]

Next ==
    \/ seed
    \/ \E r \in Request :
          \/ \E token \in Token : LET email == claimsFromRequest(token) IN
                \/ handleShares(r, email)
                \/ \E op \in Ops :
                      \E s \in Share, at \in Target(op) : authorize(r, op, email, s, at)
          \/ handleContent(r) \/ handleFolder(r) \/ handleFolderFile(r)
          \/ UploadFails(r)
          \/ \E name \in Name : Store(r, name)

Spec == Init /\ [][Next]_vars

-----------------------------------------------------------------------------
(* Properties *)

\* The type of the state.
TypeOK ==
    /\ dataset \in Dataset
    /\ count \in [Dataset -> [Share -> Nat]]
    /\ tree \in [Dataset -> [Folders -> [Dir -> Seq(Nodes)]]]
    /\ \A d \in Dataset, s \in Folders, dir \in Dir : Len(tree[d][s][dir]) <= MaxEntries
    /\ conn \in [Request -> Handler]
    /\ \A r \in Request : conn[r].phase = "authorized" =>
          /\ conn[r].share \in Share /\ conn[r].in \in Dataset
          /\ conn[r].op \in Ops /\ conn[r].at \in Target(conn[r].op)
    /\ served \in [Dataset -> [Share -> Nat]]

\* However the requests for a limited share interleave with one another and with
\* resets, the contents sent from one dataset never exceed its limit, and the counter
\* that the next listing shows is the number of them.
LimitHeld ==
    \A d \in Dataset, s \in Share :
        /\ served[d][s] = count[d][s]
        /\ MaxDownloads(s) # None => served[d][s] <= MaxDownloads(s)

\* fixtures.go: every test starts from a known state "despite in-test mutations".
\* What a request shows or stores belongs to the dataset it was authorised in, so a
\* straggler of an earlier test neither reads nor changes the data of the next; and
\* what is shown belongs to the share asked for and to a recipient's own shares.
Apart ==
    /\ \A d \in Dataset, s \in Folders, dir \in Dir :
          \A i \in DOMAIN tree[d][s][dir] : tree[d][s][dir][i].home = <<d, s>>
    /\ \A r \in Request : \A home \in conn[r].shown :
          /\ home[1] = conn[r].in
          /\ conn[r].op # "shares" => home[2] = conn[r].share
          /\ Recipient(home[2]) = conn[r].email
=============================================================================

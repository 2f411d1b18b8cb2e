------------------------- MODULE StubProviderProofs -------------------------
(***************************************************************************)
(* TLAPS proofs about StubProvider, for every set of requests, tokens and  *)
(* names, and for every number of resets.                                  *)
(***************************************************************************)
EXTENDS StubProvider, WellFoundedInduction, SequenceTheorems, TLAPS

-----------------------------------------------------------------------------
(* Lemmas about the operators *)

\* A nonempty set of natural numbers has a least element.
LEMMA Least ==
    ASSUME NEW S \in SUBSET Nat, S # {}
    PROVE  \E x \in S : \A y \in S : x <= y
<1> DEFINE R == OpToRel(<, Nat)
<1>1. \A y, x \in Nat : y < x => <<y, x>> \in R
  <2> SUFFICES ASSUME NEW y \in Nat, NEW x \in Nat, y < x PROVE <<y, x>> \in R
    OBVIOUS
  <2>1. <<y, x>> \in Nat \X Nat /\ <<y, x>>[1] = y /\ <<y, x>>[2] = x
    OBVIOUS
  <2> QED
    BY <2>1 DEF OpToRel
<1>2. IsWellFoundedOn(R, Nat)
  BY NatLessThanWellFounded, Zenon
<1> HIDE DEF R
<1>3. PICK x \in S : \A y \in S : ~ (<<y, x>> \in R)
  BY <1>2, WFMin, Zenon
<1>4. ASSUME NEW y \in S PROVE x <= y
  <2>1. x \in Nat /\ y \in Nat
    OBVIOUS
  <2>2. ~ (y < x)
    BY <1>1, <1>3, <2>1, Zenon
  <2> QED
    BY <2>1, <2>2
<1> QED
  BY <1>4

\* Min of a nonempty set of positions is one of them.
LEMMA MinIn ==
    ASSUME NEW S \in SUBSET Nat, S # {}
    PROVE  Min(S) \in S
BY Least DEF Min

\* A sequence whose elements are all in a set is a sequence over that set.
LEMMA SeqWithin ==
    ASSUME NEW N, NEW M, NEW q \in Seq(N), \A i \in 1 .. Len(q) : q[i] \in M
    PROVE  q \in Seq(M)
<1>1. Len(q) \in Nat /\ q \in [1 .. Len(q) -> N]
  BY LenProperties
<1>2. q \in [1 .. Len(q) -> M]
  BY <1>1
<1> QED
  BY <1>1, <1>2, SeqDef

\* The first entry found is an entry, or None.
LEMMA FirstIn ==
    ASSUME NEW N, NEW entries \in Seq(N), NEW found \in SUBSET (DOMAIN entries)
    PROVE  FirstOf(entries, found) \in N \cup {None}
<1>1. CASE found = {}
  BY <1>1 DEF FirstOf
<1>2. CASE found # {}
  <2>1. found \in SUBSET Nat
    OBVIOUS
  <2> QED
    BY <1>2, <2>1, MinIn DEF FirstOf
<1> QED
  BY <1>1, <1>2

-----------------------------------------------------------------------------
(* Walking a share *)

\* The entries a share holds when nothing of another share or dataset is in it.
OwnNodes(d, s) == {e \in Nodes : e.home = <<d, s>>}

\* A share whose tree is its own.
OwnTree(d, s) == tree[d][s] \in [Dir -> Seq(OwnNodes(d, s))]

\* Everything a walk can arrive at.
Reached(d, s) == OwnNodes(d, s) \cup {Root, None}

\* What a walk arrives at is a folder there is, or an entry of the share.
LEMMA ReachedNode ==
    ASSUME NEW d, NEW s, NEW e \in Reached(d, s), e # None
    PROVE  /\ e.dir \in Dir \cup {None}
           /\ e.dir = None => e.home = <<d, s>>
<1>1. CASE e \in OwnNodes(d, s)
  BY <1>1 DEF OwnNodes, Nodes
<1>2. CASE e = Root
  <2>1. e.dir = "root" /\ "root" \in Dir
    BY <1>2 DEF Root, Entry, Dir
  <2> QED
    BY <2>1, StubConfig
<1> QED
  BY <1>1, <1>2 DEF Reached

\* The children of what a walk arrives at are entries of the share.
LEMMA ChildrenIn ==
    ASSUME NEW d, NEW s, OwnTree(d, s), NEW e \in Reached(d, s), e # None
    PROVE  Children(tree[d][s], e) \in Seq(OwnNodes(d, s))
<1>1. e.dir \in Dir \cup {None}
  BY ReachedNode
<1> QED
  BY <1>1 DEF OwnTree, Children

\* One step down stays in the share.
LEMMA ChildIn ==
    ASSUME NEW d, NEW s, OwnTree(d, s), NEW e \in Reached(d, s), NEW name
    PROVE  ChildNamed(tree[d][s], e, name) \in Reached(d, s)
<1>1. CASE e = None
  BY <1>1 DEF ChildNamed, Reached
<1>2. CASE e # None
  <2> DEFINE below == Children(tree[d][s], e)
  <2>1. below \in Seq(OwnNodes(d, s))
    BY <1>2, ChildrenIn
  <2>2. Named(below, name) \in SUBSET (DOMAIN below)
    BY DEF Named
  <2>3. ChildNamed(tree[d][s], e, name) = FirstOf(below, Named(below, name))
    BY <1>2 DEF ChildNamed
  <2> HIDE DEF below
  <2>4. FirstOf(below, Named(below, name)) \in OwnNodes(d, s) \cup {None}
    BY <2>1, <2>2, FirstIn
  <2> QED
    BY <2>3, <2>4 DEF Reached
<1> QED
  BY <1>1, <1>2

\* f is the walk through t down the first k steps of the path.
Walk(t, path, k, f) ==
    f = [n \in 0 .. k |-> IF n = 0 THEN Root ELSE ChildNamed(t, f[n - 1], path[n])]

\* The recursive definition of the walk down a path defines a function, however long
\* the path: there is one for each shorter path, and so for this one.
LEMMA WalkExists ==
    ASSUME NEW t, NEW N, NEW path \in Seq(N)
    PROVE  \E f : Walk(t, path, Len(path), f)
<1> USE DEF Walk
<1> DEFINE Bad == {k \in Nat : ~ \E f : Walk(t, path, k, f)}
<1>1. Bad = {}
  <2> SUFFICES ASSUME Bad # {} PROVE FALSE
    OBVIOUS
  <2>1. PICK x \in Bad : \A y \in Bad : x <= y
    <3>1. Bad \in SUBSET Nat
      OBVIOUS
    <3> HIDE DEF Bad
    <3> QED
      BY <3>1, Least
  <2>2. x \in Nat
    OBVIOUS
  <2>3. CASE x = 0
    <3>1. Walk(t, path, 0, [n \in 0 .. 0 |-> Root])
      OBVIOUS
    <3> QED
      BY <2>3, <3>1
  <2>4. CASE x > 0
    <3>1. x - 1 \in Nat /\ x - 1 \notin Bad
      <4>1. \A y \in Bad : x <= y /\ y \in Nat
        BY <2>1
      <4> HIDE DEF Bad
      <4> QED
        BY <2>2, <2>4, <4>1
    <3>2. PICK f : Walk(t, path, x - 1, f)
      BY <3>1
    <3> DEFINE g == [n \in 0 .. x |-> IF n = x THEN ChildNamed(t, f[x - 1], path[x]) ELSE f[n]]
    <3>3. ASSUME NEW n \in 0 .. x
          PROVE  g[n] = IF n = 0 THEN Root ELSE ChildNamed(t, g[n - 1], path[n])
      <4>1. CASE n = x
        BY <2>2, <2>4, <4>1
      <4>2. CASE n # x
        <5>1. n \in 0 .. x - 1
          BY <2>2, <4>2
        <5>2. f[n] = IF n = 0 THEN Root ELSE ChildNamed(t, f[n - 1], path[n])
          BY <3>2, <5>1
        <5>3. g[n] = f[n]
          BY <4>2
        <5>4. n # 0 => g[n - 1] = f[n - 1]
          BY <2>2, <5>1
        <5> QED
          BY <5>2, <5>3, <5>4
      <4> QED
        BY <4>1, <4>2
    <3>4. Walk(t, path, x, g)
      BY <3>3
    <3> QED
      BY <3>4
  <2> QED
    BY <2>2, <2>3, <2>4
<1>2. Len(path) \in Nat
  OBVIOUS
<1> QED
  BY <1>1, <1>2

\* A path leads into its own share, or nowhere.
LEMMA ResolveIn ==
    ASSUME NEW d, NEW s, s \in Folders => OwnTree(d, s), NEW N, NEW path \in Seq(N)
    PROVE  resolve(d, s, path) \in Reached(d, s)
<1>1. CASE s \notin Folders
  BY <1>1 DEF resolve, Reached
<1>2. CASE s \in Folders
  <2> DEFINE cur[n \in 0 .. Len(path)] ==
         IF n = 0 THEN Root ELSE ChildNamed(tree[d][s], cur[n - 1], path[n])
             Astray == {n \in 0 .. Len(path) : cur[n] \notin Reached(d, s)}
  <2>1. Walk(tree[d][s], path, Len(path), cur)
    <3>1. \E f : Walk(tree[d][s], path, Len(path), f)
      BY WalkExists
    <3>2. cur = CHOOSE f : Walk(tree[d][s], path, Len(path), f)
      BY DEF Walk
    <3> HIDE DEF cur
    <3> QED
      BY <3>1, <3>2
  <2>2. resolve(d, s, path) = cur[Len(path)]
    BY <1>2 DEF resolve
  <2> HIDE DEF cur
  <2>3. Astray = {}
    <3> SUFFICES ASSUME Astray # {} PROVE FALSE
      OBVIOUS
    <3>1. Astray \in SUBSET Nat
      OBVIOUS
    <3>2. PICK x \in Astray : \A y \in Astray : x <= y
      <4> HIDE DEF Astray
      <4> QED
        BY <3>1, Least
    <3>3. x \in 0 .. Len(path) /\ cur[x] \notin Reached(d, s)
      OBVIOUS
    <3>4. x # 0
      BY <2>1, <3>3 DEF Reached, Walk
    <3>5. x - 1 \in 0 .. Len(path) /\ x - 1 \notin Astray
      <4>1. x \in Nat /\ x - 1 \in 0 .. Len(path) /\ ~ (x <= x - 1)
        BY <3>3, <3>4
      <4> HIDE DEF Astray
      <4> QED
        BY <3>2, <4>1
    <3>6. cur[x - 1] \in Reached(d, s)
      BY <3>5
    <3>7. cur[x] = ChildNamed(tree[d][s], cur[x - 1], path[x])
      BY <2>1, <3>3, <3>4 DEF Walk
    <3> QED
      BY <1>2, <3>3, <3>6, <3>7, ChildIn
  <2>4. Len(path) \in 0 .. Len(path)
    OBVIOUS
  <2> QED
    BY <2>2, <2>3, <2>4
<1> QED
  BY <1>1, <1>2

\* What is found by its id is an entry of the share.
LEMMA FindIn ==
    ASSUME NEW d, NEW s, s \in Folders => OwnTree(d, s), NEW id
    PROVE  findByID(d, s, id) \in OwnNodes(d, s) \cup {None}
<1>1. CASE s \notin Folders
  BY <1>1 DEF findByID
<1>2. CASE s \in Folders
  <2> DEFINE t == tree[d][s]
             top == t["root"]
             found(i) == WithID(Children(t, top[i]), id)
             hits == {i \in DOMAIN top : top[i].id = id \/ found(i) # {}}
             hit == FirstOf(top, hits)
             below == Children(t, hit)
  <2>1. top \in Seq(OwnNodes(d, s))
    BY <1>2 DEF OwnTree, Dir
  <2>2. hits \in SUBSET (DOMAIN top)
    OBVIOUS
  <2>3. hit \in OwnNodes(d, s) \cup {None}
    <3> HIDE DEF top, hits
    <3> QED
      BY <2>1, <2>2, FirstIn
  <2>4. findByID(d, s, id) =
            IF hit = None \/ hit.id = id THEN hit ELSE FirstOf(below, WithID(below, id))
    BY <1>2 DEF findByID
  <2>5. ASSUME hit # None
        PROVE  FirstOf(below, WithID(below, id)) \in OwnNodes(d, s) \cup {None}
    <3> HIDE DEF hit
    <3>1. below \in Seq(OwnNodes(d, s))
      BY <1>2, <2>3, <2>5, ChildrenIn DEF Reached
    <3> HIDE DEF below
    <3>2. WithID(below, id) \in SUBSET (DOMAIN below)
      BY DEF WithID
    <3> QED
      BY <3>1, <3>2, FirstIn
  <2> HIDE DEF hit, below
  <2> QED
    BY <2>3, <2>4, <2>5
<1> QED
  BY <1>1, <1>2

-----------------------------------------------------------------------------
(* The inductive invariant *)

\* Whoever was let in is the recipient of the share.
Own == \A r \in Request :
    conn[r].phase = "authorized" => Recipient(conn[r].share) = conn[r].email

StubInv == TypeOK /\ LimitHeld /\ Apart /\ Own

\* The trees of an invariant state are their own shares'.
LEMMA TreesOwn ==
    ASSUME TypeOK, Apart, NEW d \in Dataset, NEW s \in Folders
    PROVE  OwnTree(d, s)
<1>1. tree[d][s] \in [Dir -> Seq(Nodes)]
  BY DEF TypeOK
<1>2. ASSUME NEW dir \in Dir
      PROVE  tree[d][s][dir] \in Seq(OwnNodes(d, s))
  <2> DEFINE q == tree[d][s][dir]
  <2>1. q \in Seq(Nodes)
    BY <1>1
  <2>2. \A i \in DOMAIN q : q[i].home = <<d, s>>
    BY DEF Apart
  <2> HIDE DEF q
  <2>3. \A i \in 1 .. Len(q) : q[i] \in OwnNodes(d, s)
    <3> SUFFICES ASSUME NEW i \in 1 .. Len(q) PROVE q[i] \in OwnNodes(d, s)
      OBVIOUS
    <3>1. q[i] \in Nodes /\ i \in DOMAIN q
      BY <2>1
    <3> QED
      BY <2>2, <3>1 DEF OwnNodes
  <2> QED
    <3>1. q \in Seq(OwnNodes(d, s))
      BY <2>1, <2>3, SeqWithin
    <3> QED
      BY <3>1 DEF q
<1> QED
  BY <1>1, <1>2 DEF OwnTree

\* A handler that has nothing to do is one.
LEMMA FreshHandler == Fresh \in Handler /\ Fresh.phase = "idle" /\ Fresh.shown = {}
<1>1. PICK at \in Pointer : at = <<>>
  BY DEF Pointer, Paths
<1> QED
  BY <1>1 DEF Fresh, Handler, Status, Email

\* r has been answered, with what is its share's, and no other request has moved.
OnlyAnswered(r) ==
    /\ conn' \in [Request -> Handler]
    /\ \A q \in Request :
          /\ conn'[q].phase = "authorized" => q # r /\ conn'[q] = conn[q]
          /\ \A home \in conn'[q].shown :
                /\ home[1] = conn'[q].in
                /\ conn'[q].op # "shares" => home[2] = conn'[q].share
                /\ Recipient(home[2]) = conn'[q].email

\* A handler that answers with what is its share's leaves the requests in order.
LEMMA StubAnswered ==
    ASSUME StubInv, NEW r \in Request, conn[r].phase = "authorized",
           NEW status \in {200, 201, 400, 403, 404, 410},
           NEW shown \in SUBSET {<<conn[r].in, conn[r].share>>},
           Answered(r, status, shown)
    PROVE  OnlyAnswered(r)
<1>1. conn \in [Request -> Handler] /\ conn[r] \in Handler
  BY DEF StubInv, TypeOK
<1>2. /\ conn[r].share \in Share /\ conn[r].in \in Dataset
      /\ Recipient(conn[r].share) = conn[r].email
  BY DEF StubInv, TypeOK, Own
<1>3. PICK at \in Pointer : at = <<>>
  BY DEF Paths, Pointer
<1> DEFINE asked == IF shown = {} THEN Fresh ELSE conn[r]
<1>4. PICK c \in Handler : c = asked
  BY <1>1, FreshHandler
<1>5. shown # {} => c = conn[r]
  BY <1>4
<1> DEFINE a == [c EXCEPT !.phase = "answered", !.status = status, !.shown = shown,
                        !.at = at]
<1>6. conn' = [conn EXCEPT ![r] = a]
  BY <1>3, <1>4 DEF Answered
<1> HIDE DEF asked
<1>7. /\ a \in Handler /\ a.phase = "answered" /\ a.shown = shown
      /\ a.in = c.in /\ a.share = c.share /\ a.email = c.email
  <2>1. shown \in SUBSET (Dataset \X Share)
    BY <1>2
  <2>2. status \in Status
    BY DEF Status
  <2> QED
    BY <2>1, <2>2 DEF Handler
<1> HIDE DEF a
<1>8. /\ conn' \in [Request -> Handler]
      /\ conn'[r] = a /\ \A q \in Request \ {r} : conn'[q] = conn[q]
  BY <1>1, <1>6, <1>7
<1>9. \A home \in a.shown : home[1] = a.in /\ home[2] = a.share /\ Recipient(home[2]) = a.email
  BY <1>2, <1>5, <1>7
<1>10. ASSUME NEW q \in Request
      PROVE  /\ conn'[q].phase = "authorized" => q # r /\ conn'[q] = conn[q]
             /\ \A home \in conn'[q].shown :
                   /\ home[1] = conn'[q].in
                   /\ conn'[q].op # "shares" => home[2] = conn'[q].share
                   /\ Recipient(home[2]) = conn'[q].email
  <2>1. CASE q = r
    BY <1>7, <1>8, <1>9, <2>1
  <2>2. CASE q # r
    BY <1>8, <2>2 DEF StubInv, Apart
  <2> QED
    BY <2>1, <2>2
<1> QED
  BY <1>8, <1>10 DEF OnlyAnswered

\* So do the answers of handlers that change no share.
LEMMA StubReads ==
    ASSUME StubInv, NEW r \in Request, conn[r].phase = "authorized",
           NEW status \in {200, 201, 400, 403, 404, 410},
           NEW shown \in SUBSET {<<conn[r].in, conn[r].share>>},
           Answered(r, status, shown), UNCHANGED <<dataset, count, tree, served>>
    PROVE  StubInv'
<1>1. OnlyAnswered(r)
  BY StubAnswered
<1>2. TypeOK'
  BY <1>1 DEF OnlyAnswered, StubInv, TypeOK
<1>3. LimitHeld'
  BY DEF StubInv, LimitHeld
<1>4. Apart'
  BY <1>1 DEF OnlyAnswered, StubInv, Apart
<1>5. Own'
  BY <1>1 DEF OnlyAnswered, StubInv, Own
<1> QED
  BY <1>2, <1>3, <1>4, <1>5 DEF StubInv

\* The fixture is a tree of its own share, and small enough.
LEMMA FixtureOwn ==
    ASSUME NEW d \in Dataset, NEW s \in Folders
    PROVE  /\ Fixture(d, s) \in [Dir -> Seq(Nodes)]
           /\ \A dir \in Dir :
                 /\ Len(Fixture(d, s)[dir]) <= MaxEntries
                 /\ \A i \in DOMAIN Fixture(d, s)[dir] : Fixture(d, s)[dir][i].home = <<d, s>>
<1> DEFINE file(id, name) == Entry(id, 0, name, None, FALSE, <<d, s>>)
           folder == Entry("unterlagen", 0, "Unterlagen", "Unterlagen", FALSE, <<d, s>>)
           Small(q) == /\ q \in Seq(Nodes) /\ Len(q) <= MaxEntries
                       /\ \A i \in DOMAIN q : q[i].home = <<d, s>>
<1>1. ASSUME NEW id \in {"plan", "detail", "liste"}, NEW name \in FileName
      PROVE  file(id, name) \in Nodes /\ file(id, name).home = <<d, s>>
  BY DEF Entry, Nodes
<1>2. folder \in Nodes /\ folder.home = <<d, s>>
  <2>1. "Unterlagen" \in Dir \cup {None} /\ "Unterlagen" \in FileName
    BY DEF Dir, FileName
  <2> QED
    BY <2>1 DEF Entry, Nodes
<1> HIDE DEF file, folder
<1>3. Small(<<>>)
  BY StubConfig
<1>4. ASSUME NEW e \in Nodes, e.home = <<d, s>>
      PROVE  Small(<<e>>)
  BY <1>4, StubConfig
<1>5. ASSUME NEW e \in Nodes, NEW f \in Nodes, e.home = <<d, s>>, f.home = <<d, s>>
      PROVE  Small(<<e, f>>)
  BY <1>5, StubConfig
<1> HIDE DEF Small
<1>6. ASSUME NEW dir \in Dir
      PROVE  Small(CASE dir = "root" /\ s = "folder-readall" -> <<file("plan", "Plan.pdf"), folder>>
                     [] dir = "Unterlagen" /\ s = "folder-readall" -> <<file("detail", "Detail.txt")>>
                     [] dir = "root" /\ s = "folder-readonly" -> <<file("liste", "Liste.csv")>>
                     [] OTHER -> <<>>)
  <2>1. {"Plan.pdf", "Detail.txt", "Liste.csv"} \subseteq FileName
    BY DEF FileName
  <2>2. file("plan", "Plan.pdf") \in Nodes /\ file("plan", "Plan.pdf").home = <<d, s>>
    BY <1>1, <2>1
  <2>3. file("detail", "Detail.txt") \in Nodes /\ file("detail", "Detail.txt").home = <<d, s>>
    BY <1>1, <2>1
  <2>4. file("liste", "Liste.csv") \in Nodes /\ file("liste", "Liste.csv").home = <<d, s>>
    BY <1>1, <2>1
  <2>5. Small(<<file("plan", "Plan.pdf"), folder>>)
    BY <1>2, <1>5, <2>2, Zenon
  <2>6. Small(<<file("detail", "Detail.txt")>>) /\ Small(<<file("liste", "Liste.csv")>>)
    BY <1>4, <2>3, <2>4, Zenon
  <2> QED
    BY <1>3, <2>5, <2>6
<1>7. \A dir \in Dir : Small(Fixture(d, s)[dir])
  BY <1>6 DEF Fixture, file, folder
<1>8. Fixture(d, s) = [dir \in Dir |-> Fixture(d, s)[dir]]
  BY DEF Fixture
<1> QED
  BY <1>7, <1>8 DEF Small

\* The invariant holds of the fixture.
LEMMA StubInit == Init => StubInv
<1> SUFFICES ASSUME Init PROVE StubInv
  OBVIOUS
<1>1. 1 \in Dataset
  BY StubConfig DEF Dataset
<1>2. Fresh \in Handler /\ Fresh.phase = "idle" /\ Fresh.shown = {}
  BY FreshHandler
<1>3. TypeOK
  BY <1>1, <1>2, FixtureOwn DEF Init, TypeOK
<1>4. LimitHeld
  BY DEF Init, LimitHeld, MaxDownloads
<1>5. Apart
  BY <1>2, FixtureOwn DEF Init, Apart
<1>6. Own
  BY <1>2 DEF Init, Own
<1> QED
  BY <1>3, <1>4, <1>5, <1>6 DEF StubInv

\* A request that is let in, or sent away, or answered with a listing.
LEMMA StubArrives ==
    ASSUME StubInv, NEW r \in Request, NEW a \in Handler, conn' = [conn EXCEPT ![r] = a],
           a.phase = "authorized" =>
              /\ a.share \in Share /\ a.in \in Dataset /\ a.op \in Ops /\ a.at \in Target(a.op)
              /\ Recipient(a.share) = a.email,
           \A home \in a.shown :
              home[1] = a.in /\ a.op = "shares" /\ Recipient(home[2]) = a.email,
           UNCHANGED <<dataset, count, tree, served>>
    PROVE  StubInv'
<1>1. conn \in [Request -> Handler]
  BY DEF StubInv, TypeOK
<1>2. conn' \in [Request -> Handler] /\ \A q \in Request : conn'[q] = IF q = r THEN a ELSE conn[q]
  BY <1>1
<1>3. TypeOK'
  BY <1>2 DEF StubInv, TypeOK
<1>4. LimitHeld'
  BY DEF StubInv, LimitHeld
<1>5. Apart'
  BY <1>2 DEF StubInv, Apart
<1>6. Own'
  BY <1>2 DEF StubInv, Own
<1> QED
  BY <1>3, <1>4, <1>5, <1>6 DEF StubInv

\* A request that arrives and is answered at once, or let in.
LEMMA StubAuthorize ==
    ASSUME StubInv, NEW r \in Request, NEW email \in Email, NEW op \in Ops, NEW s \in Share,
           NEW at \in Target(op), authorize(r, op, email, s, at)
    PROVE  StubInv'
<1>1. dataset \in Dataset
  BY DEF StubInv, TypeOK
<1>2. Fresh \in Handler /\ Fresh.shown = {}
  BY FreshHandler
<1>3. at \in Pointer
  <2>1. <<>> \in Pointer
    BY DEF Pointer, Paths
  <2> QED
    BY <2>1 DEF Target, Ops, Pointer
<1>4. UNCHANGED <<dataset, count, tree, served>>
  BY DEF authorize
<1>5. CASE Recipient(s) # email
  <2>0. PICK status \in Status : status = 404
    BY DEF Status
  <2> DEFINE a == [Fresh EXCEPT !.phase = "answered", !.status = status]
  <2>1. conn' = [conn EXCEPT ![r] = a]
    BY <1>5, <2>0 DEF authorize
  <2>2. a \in Handler /\ a.phase = "answered" /\ a.shown = {}
    BY <1>2 DEF Handler
  <2> HIDE DEF a
  <2> QED
    BY <1>4, <2>1, <2>2, StubArrives
<1>6. CASE Recipient(s) = email
  <2> DEFINE a == [Fresh EXCEPT !.phase = "authorized", !.email = email, !.op = op,
                                !.share = s, !.at = at, !.in = dataset]
  <2>1. conn' = [conn EXCEPT ![r] = a]
    BY <1>6 DEF authorize
  <2>2. /\ a \in Handler /\ a.shown = {}
        /\ a.share = s /\ a.in = dataset /\ a.op = op /\ a.at = at /\ a.email = email
    BY <1>1, <1>2, <1>3 DEF Handler
  <2> HIDE DEF a
  <2> QED
    BY <1>1, <1>4, <1>6, <2>1, <2>2, StubArrives
<1> QED
  BY <1>5, <1>6

\* A listing shows the shares of the present dataset that are the recipient's.
LEMMA StubShares ==
    ASSUME StubInv, NEW r \in Request, NEW email \in Email, handleShares(r, email)
    PROVE  StubInv'
<1>1. dataset \in Dataset
  BY DEF StubInv, TypeOK
<1>2. Fresh \in Handler
  BY FreshHandler
<1> DEFINE listed == {<<dataset, s>> : s \in listFor(email)}
<1>3. listed \in SUBSET (Dataset \X Share)
  BY <1>1 DEF listFor
<1>4. \A home \in listed : home[1] = dataset /\ Recipient(home[2]) = email
  BY DEF listFor
<1>5. PICK shown : shown = listed
  OBVIOUS
<1> HIDE DEF listed
<1>6. PICK status \in Status : status = 200
  BY DEF Status
<1>7. PICK op \in Ops \cup {"", "shares"} : op = "shares"
  OBVIOUS
<1> DEFINE a == [Fresh EXCEPT !.phase = "answered", !.email = email, !.op = op,
                              !.status = status, !.in = dataset, !.shown = shown]
<1>8. conn' = [conn EXCEPT ![r] = a] /\ UNCHANGED <<dataset, count, tree, served>>
  BY <1>5, <1>6, <1>7 DEF handleShares, listed
<1>9. shown \in SUBSET (Dataset \X Share)
  BY <1>3, <1>5
<1>10. /\ a \in Handler /\ a.phase = "answered" /\ a.shown = shown
       /\ a.in = dataset /\ a.op = op /\ a.email = email
  BY <1>1, <1>2, <1>9 DEF Handler
<1> HIDE DEF a
<1> QED
  BY <1>4, <1>5, <1>7, <1>8, <1>10, StubArrives

\* What is known of a handler at work.
LEMMA StubWorking ==
    ASSUME StubInv, NEW r \in Request, NEW op, Working(r, op)
    PROVE  /\ conn[r].phase = "authorized" /\ conn[r].in \in Dataset /\ conn[r].share \in Share
           /\ conn[r].at \in Target(op)
           /\ conn[r].share \in Folders => OwnTree(conn[r].in, conn[r].share)
<1>1. /\ conn[r].phase = "authorized" /\ conn[r].in \in Dataset /\ conn[r].share \in Share
      /\ conn[r].at \in Target(op)
  BY DEF Working, StubInv, TypeOK
<1> QED
  BY <1>1, TreesOwn DEF StubInv

\* A path that is asked for is a sequence of names.
LEMMA PathSeq == Paths \subseteq Seq({"Unterlagen", "Detail.txt"})
<1> DEFINE N == {"Unterlagen", "Detail.txt"}
<1>1. <<>> \in Seq(N) /\ <<"Unterlagen">> \in Seq(N) /\ <<"Unterlagen", "Detail.txt">> \in Seq(N)
  OBVIOUS
<1> QED
  BY <1>1 DEF Paths

\* A download is counted in the dataset it was let into, and only below the limit.
LEMMA StubContent ==
    ASSUME StubInv, NEW r \in Request, handleContent(r)
    PROVE  StubInv'
<1> DEFINE d == conn[r].in
           s == conn[r].share
<1>1. conn[r].phase = "authorized" /\ d \in Dataset /\ s \in Share
  BY StubWorking DEF handleContent
<1>2. UNCHANGED <<dataset, tree>>
  BY DEF handleContent
<1>3. CASE Exhausted(d, s)
  <2>1. Answered(r, 410, {}) /\ UNCHANGED <<count, served>>
    BY <1>3 DEF handleContent
  <2>2. 410 \in {200, 201, 400, 403, 404, 410} /\ {} \in SUBSET {<<d, s>>}
    OBVIOUS
  <2> QED
    BY <1>1, <1>2, <2>1, <2>2, StubReads
<1>4. CASE ~Exhausted(d, s)
  <2>1. /\ count' = [count EXCEPT ![d][s] = @ + 1]
        /\ served' = [served EXCEPT ![d][s] = @ + 1]
        /\ Answered(r, 200, {<<d, s>>})
    BY <1>4 DEF handleContent
  <2>2. 200 \in {200, 201, 400, 403, 404, 410} /\ {<<d, s>>} \in SUBSET {<<d, s>>}
    OBVIOUS
  <2>3. OnlyAnswered(r)
    BY <1>1, <2>1, <2>2, StubAnswered
  <2>4. count \in [Dataset -> [Share -> Nat]] /\ served \in [Dataset -> [Share -> Nat]]
    BY DEF StubInv, TypeOK
  <2> HIDE DEF d, s
  <2>5. /\ count' \in [Dataset -> [Share -> Nat]] /\ served' \in [Dataset -> [Share -> Nat]]
        /\ count'[d][s] = count[d][s] + 1 /\ served'[d][s] = served[d][s] + 1
        /\ \A e \in Dataset, t \in Share :
              <<e, t>> # <<d, s>> => count'[e][t] = count[e][t] /\ served'[e][t] = served[e][t]
    BY <1>1, <2>1, <2>4
  <2>6. TypeOK'
    BY <1>2, <2>3, <2>5 DEF OnlyAnswered, StubInv, TypeOK
  <2>7. ASSUME NEW e \in Dataset, NEW t \in Share
        PROVE  /\ served'[e][t] = count'[e][t]
               /\ MaxDownloads(t) # None => served'[e][t] <= MaxDownloads(t)
    <3>1. /\ served[e][t] = count[e][t] /\ count[e][t] \in Nat
          /\ MaxDownloads(t) # None => served[e][t] <= MaxDownloads(t)
      BY <2>4 DEF StubInv, LimitHeld
    <3>2. CASE <<e, t>> = <<d, s>>
      <4>1. e = d /\ t = s
        BY <3>2
      <4>2. MaxDownloads(s) # None => MaxDownloads(s) = 1 /\ ~ (count[d][s] >= MaxDownloads(s))
        BY <1>4 DEF Exhausted, MaxDownloads
      <4> QED
        BY <2>5, <3>1, <4>1, <4>2
    <3>3. CASE <<e, t>> # <<d, s>>
      BY <2>5, <3>1, <3>3
    <3> QED
      BY <3>2, <3>3
  <2>8. LimitHeld'
    BY <2>7 DEF LimitHeld
  <2>9. Apart'
    BY <1>2, <2>3 DEF OnlyAnswered, StubInv, Apart
  <2>10. Own'
    BY <2>3 DEF OnlyAnswered, StubInv, Own
  <2> QED
    BY <2>6, <2>8, <2>9, <2>10 DEF StubInv
<1> QED
  BY <1>3, <1>4

\* A folder listing, or the entry a path names, is the share's own.
LEMMA StubFolder ==
    ASSUME StubInv, NEW r \in Request, handleFolder(r)
    PROVE  StubInv'
<1> DEFINE d == conn[r].in
           s == conn[r].share
           target == resolve(d, s, conn[r].at)
           St == {200, 201, 400, 403, 404, 410}
<1>1. /\ conn[r].phase = "authorized" /\ conn[r].at \in Paths
      /\ s \in Folders => OwnTree(d, s)
  BY StubWorking DEF handleFolder, Target
<1>2. UNCHANGED <<dataset, count, tree, served>>
  BY DEF handleFolder
<1>3. target \in Reached(d, s)
  BY <1>1, PathSeq, ResolveIn
<1>4. \E status \in St, shown \in SUBSET {<<d, s>>} : Answered(r, status, shown)
  <2>1. CASE target = None
    <3>1. Answered(r, 404, {})
      BY <2>1 DEF handleFolder
    <3> QED
      BY <3>1
  <2>2. CASE target # None /\ target.dir = None
    <3>1. target.home = <<d, s>>
      <4> HIDE DEF target
      <4> QED
        BY <1>3, <2>2, ReachedNode
    <3>2. Answered(r, 200, {target.home})
      BY <2>2 DEF handleFolder
    <3> QED
      BY <3>1, <3>2
  <2>3. CASE target # None /\ target.dir # None
    <3> DEFINE listed == filterByMode(tree[d][s][target.dir], Mode(s))
               shown == {c.home : c \in listed}
    <3>1. s \in Folders
      BY <2>3 DEF resolve
    <3>2. target.dir \in Dir
      <4> HIDE DEF target
      <4> QED
        BY <1>3, <2>3, ReachedNode
    <3>3. tree[d][s][target.dir] \in Seq(OwnNodes(d, s))
      BY <1>1, <3>1, <3>2 DEF OwnTree
    <3>4. listed \subseteq OwnNodes(d, s)
      <4> DEFINE q == tree[d][s][target.dir]
      <4>1. q \in Seq(OwnNodes(d, s)) /\ listed = filterByMode(q, Mode(s))
        BY <3>3
      <4> HIDE DEF q, listed
      <4>2. \A i \in DOMAIN q : q[i] \in OwnNodes(d, s)
        BY <4>1
      <4> QED
        BY <4>1, <4>2 DEF filterByMode, Range
    <3>5. Answered(r, 200, shown)
      BY <2>3 DEF handleFolder
    <3> HIDE DEF listed
    <3>6. shown \in SUBSET {<<d, s>>}
      BY <3>4 DEF OwnNodes
    <3> HIDE DEF shown
    <3> QED
      BY <3>5, <3>6
  <2> QED
    BY <2>1, <2>2, <2>3
<1> QED
  BY <1>1, <1>2, <1>4, StubReads

\* The content of a file of a folder share is the share's own.
LEMMA StubFile ==
    ASSUME StubInv, NEW r \in Request, handleFolderFile(r)
    PROVE  StubInv'
<1> DEFINE d == conn[r].in
           s == conn[r].share
           n == findByID(d, s, conn[r].at)
<1>1. conn[r].phase = "authorized" /\ (s \in Folders => OwnTree(d, s))
  BY StubWorking DEF handleFolderFile
<1>2. UNCHANGED <<dataset, count, tree, served>>
  BY DEF handleFolderFile
<1>3. n \in OwnNodes(d, s) \cup {None}
  BY <1>1, FindIn
<1>4. CASE n = None
  <2>1. Answered(r, 404, {})
    BY <1>4 DEF handleFolderFile
  <2> QED
    BY <1>1, <1>2, <2>1, StubReads
<1>5. CASE n # None
  <2>1. n.home = <<d, s>>
    BY <1>3, <1>5 DEF OwnNodes
  <2>2. Answered(r, 200, {n.home})
    BY <1>5 DEF handleFolderFile
  <2> QED
    BY <1>1, <1>2, <2>1, <2>2, StubReads
<1> QED
  BY <1>4, <1>5

\* An upload that fails changes nothing.
LEMMA StubUploadFails ==
    ASSUME StubInv, NEW r \in Request, UploadFails(r)
    PROVE  StubInv'
<1>1. conn[r].phase = "authorized"
  BY StubWorking DEF UploadFails
<1>2. PICK status \in {200, 201, 400, 403, 404, 410} : Answered(r, status, {})
  BY DEF UploadFails
<1> QED
  BY <1>1, <1>2, StubReads DEF UploadFails

\* A stored file goes to the share it was let into, in the dataset of that moment,
\* whichever dataset is the current one by then.
LEMMA StubStore ==
    ASSUME StubInv, NEW r \in Request, NEW name \in Name, Store(r, name)
    PROVE  StubInv'
<1> DEFINE d == conn[r].in
           s == conn[r].share
           folder == resolve(d, s, conn[r].at)
<1>1. /\ conn[r].phase = "authorized" /\ conn[r].at \in Paths /\ d \in Dataset
      /\ s \in Folders => OwnTree(d, s)
  BY StubWorking DEF Store, Target
<1>2. UNCHANGED <<dataset, count, served>>
  BY DEF Store
<1>3. folder \in Reached(d, s)
  BY <1>1, PathSeq, ResolveIn
<1>4. CASE folder = None \/ folder.dir = None
  <2>1. Answered(r, 404, {}) /\ UNCHANGED tree
    BY <1>4 DEF Store
  <2> QED
    BY <1>1, <1>2, <2>1, StubReads
<1>5. CASE ~ (folder = None \/ folder.dir = None)
  <2> DEFINE dir == folder.dir
             old == tree[d][s][dir]
             new == Append(old, Entry("up", Len(old) + 1, name, None, TRUE, <<d, s>>))
  <2>1. /\ Len(old) < MaxEntries /\ tree' = [tree EXCEPT ![d][s][dir] = new]
        /\ Answered(r, 201, {})
    BY <1>5 DEF Store
  <2>2. s \in Folders
    BY <1>5 DEF resolve
  <2>3. dir \in Dir
    <3> HIDE DEF folder
    <3> QED
      BY <1>3, <1>5, ReachedNode
  <2>4. OnlyAnswered(r)
    <3>1. 201 \in {200, 201, 400, 403, 404, 410} /\ {} \in SUBSET {<<d, s>>}
      OBVIOUS
    <3> HIDE DEF folder, dir, old, new
    <3>2. Answered(r, 201, {}) /\ conn[r].phase = "authorized"
      BY <1>1, <2>1
    <3> QED
      BY <3>1, <3>2, StubAnswered
  <2>5. tree \in [Dataset -> [Folders -> [Dir -> Seq(Nodes)]]]
    BY DEF StubInv, TypeOK
  <2> HIDE DEF d, s, dir
  <2>6. old \in Seq(Nodes) /\ \A i \in DOMAIN old : old[i].home = <<d, s>>
    BY <1>1, <2>2, <2>3, <2>5 DEF StubInv, Apart
  <2>7. /\ new \in Seq(Nodes) /\ Len(new) <= MaxEntries
        /\ \A i \in DOMAIN new : new[i].home = <<d, s>>
    <3> DEFINE e == Entry("up", Len(old) + 1, name, None, TRUE, <<d, s>>)
    <3>1. e \in Nodes /\ e.home = <<d, s>>
      <4> HIDE DEF old
      <4> QED
        BY <1>1, <2>2, <2>6 DEF Entry, Nodes, FileName
    <3> HIDE DEF old, e
    <3>2. Append(old, e) \in Seq(Nodes) /\ Len(Append(old, e)) = Len(old) + 1
      BY <2>6, <3>1
    <3>3. \A i \in 1 .. Len(old) + 1 :
              Append(old, e)[i] = IF i <= Len(old) THEN old[i] ELSE e
      BY <2>6, <3>1
    <3>4. \A i \in DOMAIN Append(old, e) : Append(old, e)[i].home = <<d, s>>
      BY <2>6, <3>1, <3>2, <3>3
    <3>5. Len(old) + 1 <= MaxEntries
      BY <2>1, <2>6, StubConfig
    <3> QED
      BY <3>2, <3>4, <3>5 DEF e
  <2> HIDE DEF new, old
  <2>8. /\ tree' \in [Dataset -> [Folders -> [Dir -> Seq(Nodes)]]]
        /\ tree'[d][s][dir] = new
        /\ \A x \in Dataset, y \in Folders, z \in Dir :
              <<x, y, z>> # <<d, s, dir>> => tree'[x][y][z] = tree[x][y][z]
    BY <1>1, <2>1, <2>2, <2>3, <2>5, <2>7
  <2>9. ASSUME NEW x \in Dataset, NEW y \in Folders, NEW z \in Dir
        PROVE  /\ Len(tree'[x][y][z]) <= MaxEntries
               /\ \A i \in DOMAIN tree'[x][y][z] : tree'[x][y][z][i].home = <<x, y>>
    <3>1. CASE <<x, y, z>> = <<d, s, dir>>
      <4>1. x = d /\ y = s /\ z = dir
        BY <3>1
      <4> QED
        BY <2>7, <2>8, <4>1
    <3>2. CASE <<x, y, z>> # <<d, s, dir>>
      <4>1. tree'[x][y][z] = tree[x][y][z]
        BY <2>8, <3>2
      <4>2. /\ Len(tree[x][y][z]) <= MaxEntries
            /\ \A i \in DOMAIN tree[x][y][z] : tree[x][y][z][i].home = <<x, y>>
        BY DEF StubInv, TypeOK, Apart
      <4> QED
        BY <4>1, <4>2
    <3> QED
      BY <3>1, <3>2
  <2>10. TypeOK'
    BY <1>2, <2>4, <2>8, <2>9 DEF OnlyAnswered, StubInv, TypeOK
  <2>11. LimitHeld'
    BY <1>2 DEF StubInv, LimitHeld
  <2>12. Apart'
    BY <2>4, <2>9 DEF OnlyAnswered, Apart
  <2>13. Own'
    BY <2>4 DEF OnlyAnswered, StubInv, Own
  <2> QED
    BY <2>10, <2>11, <2>12, <2>13 DEF StubInv
<1> QED
  BY <1>4, <1>5

\* A reset changes nothing but which dataset is the current one.
LEMMA StubSeed ==
    ASSUME StubInv, seed
    PROVE  StubInv'
<1>1. dataset' \in Dataset /\ UNCHANGED <<count, tree, conn, served>>
  BY StubConfig DEF seed, StubInv, TypeOK, Dataset
<1>2. TypeOK'
  BY <1>1 DEF StubInv, TypeOK
<1>3. LimitHeld' /\ Apart' /\ Own'
  BY <1>1 DEF StubInv, LimitHeld, Apart, Own
<1> QED
  BY <1>2, <1>3 DEF StubInv

\* Every step keeps the invariant.
LEMMA StubStep == StubInv /\ [Next]_vars => StubInv'
<1> SUFFICES ASSUME StubInv, [Next]_vars PROVE StubInv'
  OBVIOUS
<1>1. CASE UNCHANGED vars
  BY <1>1 DEF vars, StubInv, TypeOK, LimitHeld, Apart, Own
<1>2. CASE seed
  BY <1>2, StubSeed
<1>3. ASSUME NEW r \in Request, NEW token \in Token,
             \/ handleShares(r, claimsFromRequest(token))
             \/ \E op \in Ops : \E s \in Share, at \in Target(op) :
                    authorize(r, op, claimsFromRequest(token), s, at)
      PROVE  StubInv'
  <2>1. claimsFromRequest(token) \in Email
    BY DEF Email
  <2> QED
    BY <1>3, <2>1, StubShares, StubAuthorize
<1>4. ASSUME NEW r \in Request,
             \/ handleContent(r) \/ handleFolder(r) \/ handleFolderFile(r)
             \/ UploadFails(r)
             \/ \E name \in Name : Store(r, name)
      PROVE  StubInv'
  BY <1>4, StubContent, StubFolder, StubFile, StubUploadFails, StubStore
<1> QED
  BY <1>1, <1>2, <1>3, <1>4 DEF Next

\* The invariant, for every set of requests, tokens, names and shares of the fixture.
THEOREM StubInvariant == Spec => []StubInv
BY StubInit, StubStep, PTL DEF Spec

\* The state of the stub has its type; whoever is at work was let in.
THEOREM StubTyped == Spec => []TypeOK
<1>1. StubInv => TypeOK
  BY DEF StubInv
<1> QED
  BY StubInvariant, <1>1, PTL

\* The download limit holds however requests and resets interleave.
THEOREM StubLimitHeld == Spec => []LimitHeld
<1>1. StubInv => LimitHeld
  BY DEF StubInv
<1> QED
  BY StubInvariant, <1>1, PTL

\* A test's answers and data have nothing in them of another test's or recipient's.
THEOREM StubApart == Spec => []Apart
<1>1. StubInv => Apart
  BY DEF StubInv
<1> QED
  BY StubInvariant, <1>1, PTL
=============================================================================

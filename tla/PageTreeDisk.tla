----------------------------- MODULE PageTreeDisk -----------------------------
(***************************************************************************)
(* TreeService and NodeStore (internal/core/tree): the operations of        *)
(* PageTree with every file operation they make, any of which may fail, the *)
(* rollbacks, and the reconstruction of the tree from the files.            *)
(*                                                                          *)
(* A path is the sequence of slugs below root/.  The page at path p is the  *)
(* file p.md; the section at path p is the directory p with its index.md,   *)
(* written here as the file at Append(p, IndexFile), and its .order.json.   *)
(* Slugs are numbers in the order in which a directory lists them.          *)
(***************************************************************************)
EXTENDS PageTree

CONSTANTS
    Failing,     \* kinds of file operation that may fail in this instance
    MaxFaults,   \* bound: failing file operations
    MaxOps,      \* bound: operations
    MaxLoads     \* bound: restarts and resyncs

ASSUME DiskAssumption ==
    /\ Slugs \subseteq Nat \ {0} /\ NoSlug = 0
    /\ IsFiniteSet(Nodes)
    /\ Failing \subseteq {"mkdir", "write", "order", "rename", "remove"}
    /\ MaxFaults \in Nat /\ MaxOps \in Nat /\ MaxLoads \in Nat

IndexFile == 0

VARIABLES
    disk,     \* dirs, md (path -> id, version, body, pinned), ord (path -> ids)
    up,       \* the tree could be loaded at boot
    scan,     \* a resync's walk through the files, and the new tree it reads
    clock,    \* number of operations: the time they stamp
    faults,   \* number of file operations that failed
    missed,   \* history: operations ran beside a scan that was swapped in or wrote to the disk
    unmoved   \* history: the pages, with their files, that have been there since the scan began

vars == <<treeVars, disk, up, scan, clock, faults, missed, unmoved>>

\* An operation works on a world: a tree, a disk, the faults so far, and
\* whether the call it just made returned without an error.
World == [t |-> tree, d |-> disk, f |-> faults, ok |-> TRUE]

-----------------------------------------------------------------------------
(* Files *)

\* GeneratePathFromPageNode, below root/.
PathOf(t, n) ==
    LET path[m \in Live(t)] == IF m = Root THEN <<>> ELSE Append(path[t.parent[m]], t.slug[m])
    IN  path[n]

\* contentPathForNodeRead
ContentPath(t, n) ==
    IF t.kind[n] = "section" THEN Append(PathOf(t, n), IndexFile) ELSE PathOf(t, n)

File(n, v, body, pin) == [id |-> n, ver |-> v, body |-> body, pin |-> pin]

Put(f, x, v) == [y \in DOMAIN f \union {x} |-> IF y = x THEN v ELSE f[y]]

IsDir(d, p) == p = <<>> \/ p \in d.dirs
Exists(d, p) == p \in d.dirs \/ p \in DOMAIN d.md
Under(p, q) == IsStrictPrefix(p, q)

Fails(w, what) ==
    IF what \in Failing /\ w.f < MaxFaults THEN {[w EXCEPT !.f = @ + 1, !.ok = FALSE]} ELSE {}
Refuses(w) == {[w EXCEPT !.ok = FALSE]}

WithDir(w, p) == [w EXCEPT !.d.dirs = @ \union {SubSeq(p, 1, i) : i \in 1 .. Len(p)}]
MkdirAll(w, p) ==
    IF IsDir(w.d, p) THEN {w} ELSE {WithDir(w, p)} \union Fails(w, "mkdir")

WithFile(w, p, file) == [w EXCEPT !.d.md = Put(@, p, file)]
Write(w, p, file) ==
    IF ~IsDir(w.d, Front(p)) THEN Refuses(w)
    ELSE {WithFile(w, p, file)} \union Fails(w, "write")

\* os.Rename of the file or the directory (and all below it) at p.
Shift(x, p, q) == q \o SubSeq(x, Len(p) + 1, Len(x))
Shifted(f, M, p, q) ==
    [x \in (DOMAIN f \ M) \union {Shift(y, p, q) : y \in M} |->
       IF x \in {Shift(y, p, q) : y \in M} THEN f[Shift(x, q, p)] ELSE f[x]]
Rename(w, p, q) ==
    LET inside(X) == {x \in X : Under(p, x)}
        M == IF p \in w.d.dirs THEN inside(DOMAIN w.d.md) ELSE {p}
        D == {x \in w.d.dirs : IsPrefix(p, x)}
        O == {x \in DOMAIN w.d.ord : IsPrefix(p, x)}
        dirs == (w.d.dirs \ D) \union {Shift(x, p, q) : x \in D}
    IN  {[w EXCEPT !.d = IF p \in w.d.dirs
                         THEN [dirs |-> dirs, md |-> Shifted(@.md, M, p, q), ord |-> Shifted(@.ord, O, p, q)]
                         ELSE [@ EXCEPT !.md = Shifted(@, M, p, q)]]}
        \union Fails(w, "rename")

RenameFile(w, p, q) ==
    {[w EXCEPT !.d.md = Put(Restrict(@, DOMAIN @ \ {p}), q, @[p])]} \union Fails(w, "rename")
RemoveFile(w, p) == {[w EXCEPT !.d.md = Restrict(@, DOMAIN @ \ {p})]} \union Fails(w, "remove")
RemoveOrder(w, p) ==
    IF p \notin DOMAIN w.d.ord THEN {w}
    ELSE {[w EXCEPT !.d.ord = Restrict(@, DOMAIN @ \ {p})]} \union Fails(w, "remove")
RemoveDir(w, p) == {[w EXCEPT !.d.dirs = @ \ {p}]} \union Fails(w, "remove")

\* os.RemoveAll; when it fails, any of the files and of the emptied folders below are gone.
RemoveAll(w, p) ==
    LET gone(M, O, D) == [dirs |-> w.d.dirs \ D, md |-> Restrict(w.d.md, DOMAIN w.d.md \ M),
                          ord |-> Restrict(w.d.ord, DOMAIN w.d.ord \ O)]
        M == {x \in DOMAIN w.d.md : Under(p, x)}
        O == {x \in DOMAIN w.d.ord : IsPrefix(p, x)}
        D == {x \in w.d.dirs : IsPrefix(p, x)}
        Emptied(N, P, E) == /\ \A x \in (M \ N) \union (D \ E) : Front(x) \notin E
                            /\ E \intersect O \subseteq P
        Left == {r \in (SUBSET M) \X (SUBSET O) \X (SUBSET (D \ {p})) : Emptied(r[1], r[2], r[3])}
    IN  {[w EXCEPT !.d = gone(M, O, D)]}
        \union UNION {Fails([w EXCEPT !.d = gone(r[1], r[2], r[3])], "remove") : r \in Left}

-----------------------------------------------------------------------------
(* NodeStore *)

\* SaveChildOrder: a page keeps no order of its children.
SaveChildOrder(w, p) ==
    LET path == PathOf(w.t, p) IN
    IF NeedsConvert(w.t, p) THEN Refuses(w)
    ELSE UNION {IF a.ok THEN {[a EXCEPT !.d.ord = Put(@, path, a.t.kids[p])]} \union Fails(a, "order")
                ELSE {a} : a \in MkdirAll(w, path)}

\* What is written for a node into the file at p: the body is kept.
BodyAt(w, p) == IF p \in DOMAIN w.d.md THEN w.d.md[p].body ELSE 0
PinAt(w, p)  == IF p \in DOMAIN w.d.md THEN w.d.md[p].pin ELSE FALSE
SyncedAt(w, p, n) == File(n, w.t.ver[n], BodyAt(w, p), PinAt(w, p))

\* ensureSectionIndex, with the MkdirAll of contentPathForNodeWrite.
EnsureIndex(w, n) ==
    LET p == PathOf(w.t, n)
        x == Append(p, IndexFile)
    IN  UNION {IF a.ok THEN Write(a, x, SyncedAt(a, x, n)) ELSE {a} : a \in MkdirAll(w, p)}

\* ConvertNode, page to section: it sets the kind before it syncs the index.
ConvertToSection(w, n) ==
    LET p == PathOf(w.t, n)
        AsIndex(a) == IF p \in DOMAIN w.d.md THEN RenameFile(a, p, Append(p, IndexFile)) ELSE {a}
        Section(b) == [b EXCEPT !.t = AsSection(@, n)]
    IN  UNION {IF a.ok
               THEN UNION {IF b.ok THEN EnsureIndex(Section(b), n) ELSE {b} : b \in AsIndex(a)}
               ELSE {a} : a \in MkdirAll(w, p)}

Mutant_FolderRemovedFirst(w, n) ==
    LET p == PathOf(w.t, n)
        x == Append(p, IndexFile)
        page == File(n, w.t.ver[n], BodyAt(w, x), PinAt(w, x))
    IN  IF p \notin w.d.dirs THEN {w}
        ELSE IF \E q \in w.d.dirs \union DOMAIN w.d.md : Under(p, q) /\ q # x THEN Refuses(w)
        ELSE UNION {IF a.ok THEN Write(a, p, page) ELSE {a} : a \in RemoveAll(w, p)}

\* ConvertNode, section to page: the caller sets the kind.
ConvertToPage(w, n) ==
    LET p == PathOf(w.t, n)
        x == Append(p, IndexFile)
        AsPage == IF x \in DOMAIN w.d.md THEN RenameFile(w, x, p)
                  ELSE Write(w, p, File(n, w.t.ver[n], 0, FALSE))
    IN  IF p \notin w.d.dirs THEN {w}
        ELSE IF \E q \in w.d.dirs \union DOMAIN w.d.md : Under(p, q) /\ q # x THEN Refuses(w)
        ELSE UNION {IF a.ok
                    THEN UNION {IF b.ok THEN RemoveDir(b, p) ELSE {b} : b \in RemoveOrder(a, p)}
                    ELSE {a} : a \in AsPage}

\* CreatePage and CreateSection, of node n under p.
CreateOnDisk(w, n, p, s, k, v) ==
    LET path == Append(PathOf(w.t, p), s)
        file == File(n, v, 0, FALSE)
        Make(a) == IF k = "page" THEN Write(a, path, file)
                   ELSE UNION {IF b.ok THEN Write(b, Append(path, IndexFile), file) ELSE {b} :
                               b \in MkdirAll(a, path)}
    IN  UNION {IF ~a.ok THEN {a} ELSE IF Exists(a.d, path) THEN Refuses(a) ELSE Make(a) :
               a \in MkdirAll(w, PathOf(w.t, p))}

\* DeletePage and DeleteSection: the tree says which, the disk must agree.
DeleteOnDisk(w, n) ==
    LET p == PathOf(w.t, n) IN
    IF w.t.kind[n] = "section"
    THEN IF p \in w.d.dirs THEN RemoveAll(w, p) ELSE Refuses(w)
    ELSE IF p \in DOMAIN w.d.md THEN RemoveFile(w, p) ELSE Refuses(w)

\* The node's own file or directory is there.
InPlace(w, n) ==
    LET p == PathOf(w.t, n) IN
    IF w.t.kind[n] = "section" THEN p \in w.d.dirs ELSE p \in DOMAIN w.d.md

RenameKind(w, n, q) ==
    IF w.t.kind[n] = "section" THEN Rename(w, PathOf(w.t, n), q)
    ELSE RenameFile(w, PathOf(w.t, n), q)

\* RenameNode and MoveNode refuse a destination that exists as either kind.
RenameNode(w, n, s) ==
    LET q == Append(Front(PathOf(w.t, n)), s) IN
    IF Exists(w.d, q) \/ ~InPlace(w, n) THEN Refuses(w) ELSE RenameKind(w, n, q)

MoveOnDisk(w, n, p) ==
    LET q == Append(PathOf(w.t, p), w.t.slug[n]) IN
    UNION {IF ~a.ok THEN {a} ELSE IF Exists(a.d, q) \/ ~InPlace(a, n) THEN Refuses(a)
           ELSE RenameKind(a, n, q) : a \in MkdirAll(w, PathOf(w.t, p))}

\* UpsertContent
UpsertContent(w, n, body) ==
    LET x == ContentPath(w.t, n) IN
    UNION {IF a.ok THEN Write(a, x, [SyncedAt(a, x, n) EXCEPT !.body = body]) ELSE {a} :
           a \in IF w.t.kind[n] = "section" THEN MkdirAll(w, PathOf(w.t, n)) ELSE {w}}

\* SyncFrontmatterIfExists
SyncFrontmatter(w, n) ==
    LET x == ContentPath(w.t, n) IN
    IF x \in DOMAIN w.d.md THEN Write(w, x, SyncedAt(w, x, n))
    ELSE IF w.t.kind[n] = "page" THEN Refuses(w) ELSE {w}

-----------------------------------------------------------------------------
(* ReconstructTreeFromFS *)

PathBefore(p, q) ==
    \E i \in 1 .. Len(q) :
        /\ i <= Len(p) + 1 /\ \A j \in 1 .. i - 1 : p[j] = q[j]
        /\ i <= Len(p) => p[i] < q[i]
First(E) == CHOOSE p \in E : \A q \in E \ {p} : PathBefore(p, q)

\* What os.ReadDir lists, in the order of the names: a folder before the page
\* of the same slug.
FolderEntry == 0
FileEntry == 1
Listing(d, p) ==
    {<<Last(q), FolderEntry>> : q \in {x \in d.dirs : Front(x) = p}}
    \union {<<Last(q), FileEntry>> : q \in {x \in DOMAIN d.md : Front(x) = p /\ Last(x) # IndexFile}}

Unused(d, t) == {n \in Nodes \ t.nodes : /\ \A p \in DOMAIN d.md : d.md[p].id # n
                                         /\ \A p \in DOMAIN d.ord : ~Contains(d.ord[p], n)}

\* The elements of seq that are in S, each where it occurs first.
Picked(seq, S) ==
    LET picked[i \in 0 .. Len(seq)] ==
          IF i = 0 THEN <<>>
          ELSE IF seq[i] \in S \ ToSet(picked[i - 1]) THEN Append(picked[i - 1], seq[i]) ELSE picked[i - 1]
    IN  picked[Len(seq)]

\* applyChildOrder
Ordered(kids, order) == Picked(order, ToSet(kids)) \o Picked(kids, ToSet(kids) \ ToSet(order))

\* A folder that is being read: the entries left of its listing, and seenSlugs.
Folder(p, n) == [path |-> p, node |-> n, listed |-> FALSE, left |-> {}, seen |-> {}]

\* A walk is a tree so far and the folders that are open, each in the one above
\* it; "short" is a bound: there is no unused id left.
NoDisk == [dirs |-> {}, md |-> <<>>, ord |-> <<>>]
NoScan == [t |-> EmptyTree, open |-> {}, is |-> "idle", now |-> 0, d |-> NoDisk, taken |-> {}]
WalkStart(d, now) ==
    [t |-> EmptyTree, open |-> {Folder(<<>>, Root)}, is |-> "reading", now |-> now, d |-> d, taken |-> {}]
EndedAs(acc, is) == [acc EXCEPT !.open = {}, !.is = is]

\* One entry.  A page that is gone by now is passed over.  A second entry of a
\* slug ends the walk with an error.  A second entry of an id is passed over
\* and, for a folder, everything below it.
Passed(acc, f, e, seen) ==
    [acc EXCEPT !.open = (@ \ {f}) \union {[f EXCEPT !.left = f.left \ {e}, !.seen = f.seen \union seen]}]

\* A folder without index.md gets one with a new id (ensureSectionIndex), and is
\* made again if it is gone by now.
Indexed(d, q, file) ==
    [d EXCEPT !.md = Put(@, Append(q, IndexFile), file),
              !.dirs = @ \union {SubSeq(q, 1, i) : i \in 1 .. Len(q)}]

\* The page or folder at q becomes a child of folder f's node.
Entered(acc, f, e) ==
    LET q     == Append(f.path, e[1])
        isDir == e[2] = FolderEntry
        x     == IF isDir THEN Append(q, IndexFile) ELSE q
        has   == x \in DOMAIN acc.d.md
        new   == Unused(acc.d, [acc.t EXCEPT !.nodes = @ \union acc.taken])
        n     == IF has THEN acc.d.md[x].id ELSE CHOOSE m \in new : TRUE
        file  == IF has THEN acc.d.md[x] ELSE File(n, acc.now, 0, FALSE)
        t     == Created(acc.t, n, f.node, e[1], IF isDir THEN "section" ELSE "page", file.ver)
    IN  IF e[1] \in f.seen THEN EndedAs(acc, "failed")
        ELSE IF ~has /\ new = {} THEN EndedAs(acc, "short")
        ELSE IF n \in acc.t.nodes THEN Passed(acc, f, e, {e[1]})
        ELSE [Passed(acc, f, e, {e[1]}) EXCEPT
                !.t = IF file.pin THEN [t EXCEPT !.pinned = @ \union {n}] ELSE t,
                !.open = IF isDir THEN @ \union {Folder(q, n)} ELSE @,
                !.d = IF has THEN @ ELSE Indexed(@, q, file)]

Gone(acc, f, e) == e[2] = FileEntry /\ Append(f.path, e[1]) \notin DOMAIN acc.d.md
Mutant_GoneEndsFolder(acc, f, e) ==
    IF Gone(acc, f, e) THEN [acc EXCEPT !.open = (@ \ {f}) \union {[f EXCEPT !.left = {}]}]
    ELSE Entered(acc, f, e)
Visit(acc, f, e) == IF Gone(acc, f, e) THEN Passed(acc, f, e, {}) ELSE Entered(acc, f, e)

\* os.ReadDir, which ends the walk when the folder is gone.
List(acc, f) ==
    IF IsDir(acc.d, f.path)
    THEN [acc EXCEPT !.open = (@ \ {f}) \union {[f EXCEPT !.listed = TRUE, !.left = Listing(acc.d, f.path)]}]
    ELSE EndedAs(acc, "failed")

\* The end of a folder: applyChildOrder.
Leave(acc, f) ==
    LET order == IF f.path \in DOMAIN acc.d.ord THEN acc.d.ord[f.path] ELSE <<>> IN
    [acc EXCEPT !.t.kids[f.node] = Ordered(@, order),
                !.open = @ \ {f},
                !.is = IF f.node = Root THEN "read" ELSE @]

Innermost(F) == {f \in F : \A g \in F : Len(g.path) <= Len(f.path)}
WalkOn(acc) ==
    LET f == CHOOSE f \in Innermost(acc.open) : TRUE IN
    IF Innermost(acc.open) = {} THEN acc
    ELSE IF ~f.listed THEN List(acc, f)
    ELSE IF f.left = {} THEN Leave(acc, f)
    ELSE Visit(acc, f, First(f.left))

\* The whole walk, while nothing else happens.
Walk(d, now) ==
    LET steps == 3 * Cardinality(d.dirs) + Cardinality(DOMAIN d.md) + 2
        walk[i \in 0 .. steps] == IF i = 0 THEN WalkStart(d, now) ELSE WalkOn(walk[i - 1])
    IN  walk[steps]

-----------------------------------------------------------------------------
(* TreeService: every operation runs under the lock *)

Now == clock + 1
Ready == up /\ clock < MaxOps

\* The pages that are where the tree has them, with their files.
HasFile(t, d, n) == LET x == ContentPath(t, n) IN x \in DOMAIN d.md /\ d.md[x].id = n
Where(t, d) ==
    {<<n, ContentPath(t, n)>> : n \in {m \in t.nodes : HasFile(t, d, m)}}

Ends(w) ==
    /\ tree' = w.t /\ disk' = w.d /\ faults' = w.f
    /\ clock' = Now
    /\ unmoved' = unmoved \intersect Where(w.t, w.d)
    /\ UNCHANGED <<loads, up, scan, missed>>

Again(w) == [w EXCEPT !.ok = TRUE]
AutoConvert(w, p) == IF NeedsConvert(w.t, p) THEN ConvertToSection(w, p) ELSE {w}

\* The converted parent is folded back into a page: the order file goes first.
FoldBack(w, p) ==
    UNION {IF a.ok
           THEN {IF b.ok THEN [b EXCEPT !.t.kind[p] = "page"] ELSE b : b \in ConvertToPage(a, p)}
           ELSE {a} : a \in RemoveOrder(w, PathOf(w.t, p))}

\* rollbackCreatedNodeLocked
RollbackCreated(w, n, p, converted) ==
    UNION {LET a == [x EXCEPT !.t = Deleted(@, n)] IN
           IF x.ok /\ converted THEN FoldBack(a, p) ELSE {a} : x \in DeleteOnDisk(Again(w), n)}

\* createNodeLocked
Create(w, n, p, s, k) ==
    LET Saved(b) == SaveChildOrder([b EXCEPT !.t = Created(@, n, p, s, k, Now)], p)
        Undone(b) == UNION {Refuses(x) : x \in RollbackCreated(b, n, p, NeedsConvert(w.t, p))}
        Kept(b) == UNION {IF c.ok THEN {c} ELSE Undone(c) : c \in Saved(b)}
    IN  UNION {IF a.ok
               THEN UNION {IF b.ok THEN Kept(b) ELSE {b} : b \in CreateOnDisk(a, n, p, s, k, Now)}
               ELSE {a} : a \in AutoConvert(w, p)}

Fresh == Unused(disk, [tree EXCEPT !.nodes = @ \union scan.t.nodes])

CreateNode(p, s, k) ==
    /\ Ready /\ Fresh # {}
    /\ LET n == CHOOSE m \in Fresh : TRUE IN
       /\ MayCreate(tree, n, p, s)
       /\ \E w \in Create(World, n, p, s, k) : Ends(w)

\* RestoreNode brings back a deleted page with its id, content and version: an
\* old one, 0.
RestoreNode(n, p, s, k) ==
    /\ Ready
    /\ MayCreate(tree, n, p, s)
    /\ \E a \in Create(World, n, p, s, k) :
         IF ~a.ok THEN Ends(a)
         ELSE \E b \in UpsertContent(a, n, Now) :
                IF ~b.ok THEN Ends(b)
                ELSE \E c \in SyncFrontmatter([b EXCEPT !.t = Stamped(@, {n}, 0)], n) : Ends(c)

\* The id is looked for in the tree after the parent was converted.
RestoreExisting(n, p, s) ==
    /\ Ready
    /\ n \in tree.nodes /\ p \in Live(tree) /\ Find(tree, p, s) = {}
    /\ \E w \in AutoConvert(World, p) : Ends(w)

\* Two missing segments below the root; no segment is undone for a later one.
EnsurePagePath(s, z, k) ==
    /\ Ready /\ Cardinality(Fresh) >= 2
    /\ LET m == CHOOSE x \in Fresh : TRUE
           n == CHOOSE x \in Fresh \ {m} : TRUE
       IN  /\ MayCreate(tree, m, Root, s)
           /\ \E a \in Create(World, m, Root, s, "section") :
                IF ~a.ok THEN Ends(a) ELSE \E b \in Create(a, n, m, z, k) : Ends(b)

\* The order file may keep the deleted id: that is only an error to the caller.
DeleteNode(n) ==
    /\ Ready
    /\ n \in tree.nodes
    /\ \E a \in DeleteOnDisk(World, n) :
         IF ~a.ok THEN Ends(a)
         ELSE \E b \in SaveChildOrder([a EXCEPT !.t = Deleted(@, n)], tree.parent[n]) : Ends(b)

\* Content is written before the rename, the version after it.
Mutant_UpdateNotStamped(w, n, s) == [w EXCEPT !.t = Renamed(@, n, s)]
AfterRename(w, n, s) == [w EXCEPT !.t = Stamped(Renamed(@, n, s), {n}, Now)]

UpdateNode(n, s, content) ==
    /\ Ready
    /\ MayRename(tree, n, s)
    /\ \E a \in IF content THEN UpsertContent(World, n, Now) ELSE {World} :
         IF ~a.ok THEN Ends(a)
         ELSE \E b \in IF s = tree.slug[n] THEN {a} ELSE RenameNode(a, n, s) :
                IF ~b.ok THEN Ends(b)
                ELSE \E c \in SyncFrontmatter(AfterRename(b, n, s), n) : Ends(c)

ConvertNode(n, k) ==
    /\ Ready
    /\ MayConvert(tree, n, k)
    /\ \E a \in IF k = "section" THEN ConvertToSection(World, n) ELSE ConvertToPage(World, n) :
         IF ~a.ok THEN Ends(a)
         ELSE \E b \in SyncFrontmatter([a EXCEPT !.t = Stamped([@ EXCEPT !.kind[n] = k], {n}, Now)], n) :
                Ends(b)

\* Every page is stamped, written, and stamped back when its write failed; the
\* writes, each of a file of its own, end in any order.
BulkWrite(w, n) ==
    {IF a.ok THEN a ELSE [Again(a) EXCEPT !.t = w.t] :
       a \in UpsertContent([w EXCEPT !.t = Stamped(@, {n}, Now)], n, Now)}
BulkWrites(seq) ==
    LET after[i \in 0 .. Len(seq)] ==
          IF i = 0 THEN {World} ELSE UNION {BulkWrite(w, seq[i]) : w \in after[i - 1]}
    IN  after
BulkUpdateContent(S) ==
    /\ Ready
    /\ S # {} /\ S \subseteq tree.nodes
    /\ \E seq \in SetToSeqs(S) : \E w \in BulkWrites(seq)[Len(seq)] : Ends(w)

Mutant_SlicesNotRestored(w, n, old, p, before, converted) ==
    UNION {UNION {SaveChildOrder(Again(c), p) : c \in SaveChildOrder(a, old)} :
           a \in MoveOnDisk([Again(w) EXCEPT !.t.parent = before.parent, !.t.ver = before.ver], n, old)}

\* rollbackMovedNodeLocked: each part is attempted whether or not another failed.
RollbackMoved(w, n, old, p, before, converted) ==
    LET Back(a) == [Again(a) EXCEPT !.t = before]
        Folded(a) == IF ~converted \/ before.kids[p] # <<>> THEN {a}
                     ELSE UNION {{IF c.ok THEN [c EXCEPT !.t.kind[p] = "page"] ELSE Again(c) :
                                    c \in ConvertToPage(Again(b), p)} :
                                 b \in RemoveOrder(a, PathOf(a.t, p))}
    IN  UNION {UNION {UNION {SaveChildOrder(Again(c), p) : c \in SaveChildOrder(b, old)} :
                      b \in Folded(Back(a))} :
               a \in MoveOnDisk(Again(w), n, old)}

MoveNodeToPosition(n, p, i) ==
    /\ Ready
    /\ MayMove(tree, n, p)
    /\ i \in 1 .. Len(tree.kids[p]) + 1
    /\ LET old == tree.parent[n]
           Undo(w, before) ==
             \E x \in RollbackMoved(w, n, old, p, before, NeedsConvert(tree, p)) : Ends(x)
       IN  \E a \in AutoConvert(World, p) :
             IF ~a.ok THEN Ends(a)
             ELSE \E b \in MoveOnDisk(a, n, p) :
               IF ~b.ok THEN Ends(b)
               ELSE \E c \in SaveChildOrder([b EXCEPT !.t = Stamped(Moved(@, n, p, i), {n}, Now)], old) :
                 IF ~c.ok THEN Undo(c, a.t)
                 ELSE \E e \in SaveChildOrder(c, p) :
                   IF ~e.ok THEN Undo(e, a.t)
                   ELSE \E g \in SyncFrontmatter(e, n) : IF g.ok THEN Ends(g) ELSE Undo(g, a.t)

SetPinned(n, pin) ==
    /\ Ready
    /\ n \in tree.nodes
    /\ LET x == ContentPath(tree, n) IN
       /\ x \in DOMAIN disk.md
       /\ \E a \in Write(World, x, [disk.md[x] EXCEPT !.pin = pin]) :
            Ends(IF a.ok THEN [a EXCEPT !.t.pinned = IF pin THEN @ \union {n} ELSE @ \ {n}] ELSE a)

Mutant_SortNotUndone(p, seq) ==
    /\ Ready
    /\ MaySort(tree, p, seq)
    /\ \E a \in SaveChildOrder([World EXCEPT !.t.kids[p] = seq], p) : Ends(a)

SortPages(p, seq) ==
    /\ Ready
    /\ MaySort(tree, p, seq)
    /\ \E a \in SaveChildOrder([World EXCEPT !.t.kids[p] = seq], p) :
         Ends(IF a.ok THEN a ELSE [a EXCEPT !.t = tree])

-----------------------------------------------------------------------------
(* Reading the tree back *)

\* LoadTree at boot, after a crash or a stop: an error ends the boot.  Every
\* file operation of an operation above may fail, so a crash in the middle of
\* one leaves a disk that one of its failures leaves too.
Restart ==
    /\ loads < MaxLoads
    /\ LET l == Walk(disk, clock) IN
       /\ l.is \in {"read", "failed"}
       /\ up' = (l.is = "read") /\ disk' = l.d
       /\ tree' = IF l.is = "read" THEN l.t ELSE EmptyTree
    /\ loads' = loads + 1
    /\ scan' = NoScan /\ missed' = FALSE /\ unmoved' = {}
    /\ UNCHANGED <<clock, faults>>

\* ReconstructTreeFromFSContext reads the files without the lock, one after the
\* other while operations go on (a bound: begun while one is still to come) ...
BeginScan ==
    /\ Ready /\ scan = NoScan /\ loads < MaxLoads
    /\ scan' = WalkStart(NoDisk, clock)
    /\ unmoved' = Where(tree, disk)
    /\ UNCHANGED <<treeVars, disk, up, clock, faults, missed>>
ScanOn ==
    /\ up /\ scan.is = "reading"
    /\ LET acc == WalkOn([scan EXCEPT !.d = disk, !.taken = tree.nodes]) IN
       /\ acc.is # "short"
       /\ disk' = acc.d
       /\ scan' = [acc EXCEPT !.d = NoDisk, !.taken = {}]
       /\ missed' = (missed \/ acc.d # disk)
    /\ UNCHANGED <<treeVars, up, clock, faults, unmoved>>

\* ... and takes the lock to swap the new tree in, unless there was an error, it
\* was cancelled or the schema could not be saved.
SwapTree ==
    /\ up /\ scan # NoScan
    /\ \/ /\ scan.is = "read"
          /\ tree' = scan.t /\ loads' = loads + 1
          /\ missed' = (scan.now # clock)
       \/ UNCHANGED <<treeVars, missed>>
    /\ scan' = NoScan /\ unmoved' = {}
    /\ UNCHANGED <<disk, up, clock, faults>>

Init ==
    /\ TreeInit
    /\ disk = NoDisk
    /\ up = TRUE /\ scan = NoScan /\ clock = 0 /\ faults = 0 /\ missed = FALSE /\ unmoved = {}

Next ==
    \/ \E p \in Places, s \in Slugs, k \in Kinds :
         \/ CreateNode(p, s, k)
         \/ \E n \in Nodes : RestoreNode(n, p, s, k)
    \/ \E n \in Nodes, p \in Places, s \in Slugs : RestoreExisting(n, p, s)
    \/ \E s, z \in Slugs, k \in Kinds : EnsurePagePath(s, z, k)
    \/ \E n \in Nodes :
         \/ DeleteNode(n)
         \/ \E s \in Slugs, content \in BOOLEAN : UpdateNode(n, s, content)
         \/ \E k \in Kinds : ConvertNode(n, k)
         \/ \E p \in Places, i \in 1 .. Cardinality(Nodes) : MoveNodeToPosition(n, p, i)
         \/ \E pin \in BOOLEAN : SetPinned(n, pin)
    \/ \E S \in SUBSET Nodes : BulkUpdateContent(S)
    \/ \E p \in Places : \E seq \in SetToSeqs(ToSet(tree.kids[p])) : SortPages(p, seq)
    \/ Restart \/ BeginScan \/ ScanOn \/ SwapTree

Spec == Init /\ [][Next]_vars

(***************************************************************************)
(* Properties                                                              *)
(***************************************************************************)

DiskTypeOK(d) ==
    /\ \A p \in d.dirs : Len(p) > 0 /\ \A i \in 1 .. Len(p) : p[i] \in Slugs /\ SubSeq(p, 1, i) \in d.dirs
    /\ \A p \in DOMAIN d.md : /\ IsDir(d, Front(p)) /\ Last(p) \in Slugs \union {IndexFile}
                              /\ d.md[p] \in [id : Nodes, ver : 0 .. MaxOps, body : 0 .. MaxOps, pin : BOOLEAN]
    /\ \A p \in DOMAIN d.ord : IsDir(d, p) /\ ToSet(d.ord[p]) \subseteq Nodes

TypeOK ==
    /\ TreeType(tree) /\ loads \in 0 .. MaxLoads
    /\ DiskTypeOK(disk) /\ up \in BOOLEAN
    /\ clock \in 0 .. MaxOps /\ faults \in 0 .. MaxFaults /\ missed \in BOOLEAN

\* What a restart would read from the files is the tree in memory: the same
\* pages, in the same places and order, with the same kinds and versions.
MatchesDisk ==
    up /\ ~missed => LET l == Walk(disk, clock) IN l.is = "read" /\ l.t = tree

\* A resync finds every page that stays where it is while it reads, in its place,
\* whatever happens to others meanwhile.
UnmovedAreRead == scan.is = "read" => unmoved \subseteq {<<n, ContentPath(scan.t, n)>> : n \in scan.t.nodes}

IdsOnDisk(d) == {d.md[p].id : p \in DOMAIN d.md}
AtPlace(n) == n \in tree.nodes /\ HasFile(tree, disk, n)
BothKinds(n) == PathOf(tree, n) \in disk.dirs \intersect DOMAIN disk.md
Deleting(n) == \E m \in tree.nodes : n \in Subtree(tree, m) /\ DeleteNode(m)

\* A page whose file is where the tree has it loses the file only when it, or a
\* page above it, is deleted, whatever fails.
FilesKept == [][\A n \in tree.nodes : AtPlace(n) /\ n \notin IdsOnDisk(disk)' => Deleting(n)]_vars

\* And its file leaves that place only with the page, unless a step fails and its
\* undoing does too: because a second file operation fails, or because a folder
\* that an earlier failure left beside the file is in the way.  A deletion that
\* fails part way is not undone, nor is the conversion of a section to a page.
PlacesKept ==
    [][\A n \in tree.nodes :
          AtPlace(n) /\ n \in tree'.nodes /\ ~AtPlace(n)' =>
             \/ faults' > faults + 1
             \/ faults' > faults /\ BothKinds(n)
             \/ Deleting(n) \/ ConvertNode(n, "page")]_vars

\* Tree and disk stay well formed too, and while nothing fails they agree.
PagesKept == [](TypeOK /\ TreeOK /\ (faults = 0 => MatchesDisk)) /\ FilesKept /\ PlacesKept

BodyOf(n) == disk.md[ContentPath(tree, n)].body

\* While a page stays where it is its content changes only with its version, so
\* that a client which holds the version of what it read cannot overwrite what
\* it has not read; but an update that is to rename the page too has written the
\* content when the rename fails, and leaves the old version to it.
RenameFails(n) == tree' = tree /\ \E s \in Slugs \ {tree.slug[n]} : UpdateNode(n, s, TRUE)
VersionTracksContent ==
    [][\A n \in tree.nodes :
          AtPlace(n) /\ AtPlace(n)' /\ BodyOf(n) # BodyOf(n)' /\ tree.ver[n] = tree'.ver[n] => RenameFails(n)]_vars

=============================================================================

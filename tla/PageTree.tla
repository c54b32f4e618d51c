------------------------------- MODULE PageTree -------------------------------
(***************************************************************************)
(* The page tree that TreeService (internal/core/tree) holds in memory: the *)
(* nodes with their parent pointers, child slices, slugs, kinds and         *)
(* versions, and the index of child slugs it keeps beside them.             *)
(*                                                                          *)
(* This is what the service promises whatever the disk does: an operation   *)
(* takes effect as a whole or not at all, except that a page which was to   *)
(* get its first child may have become a section.  PageTreeDisk models the  *)
(* operations with the files they write and implements TreeSpec.            *)
(*                                                                          *)
(* Every operation runs under the service's lock and is one step here.  A   *)
(* caller's version is compared with the node's (checkNodeVersion) before   *)
(* anything is done, so a step stands for a call that passed the check.     *)
(***************************************************************************)
EXTENDS Naturals, SequencesExt

CONSTANTS
    Nodes,    \* page ids
    Root,     \* the id "root"
    Slugs,    \* slugs, up to case
    NoSlug    \* the slug of an id that is not in the tree

ASSUME NodesAssumption == Root \notin Nodes /\ NoSlug \notin Slugs

VARIABLES
    tree,     \* the tree and its indexes
    loads     \* how often it was read from disk

Places == Nodes \union {Root}
Kinds == {"page", "section"}

EmptyTree ==
    [nodes  |-> {},
     parent |-> [n \in Nodes |-> Root],
     kids   |-> [p \in Places |-> <<>>],
     slug   |-> [n \in Nodes |-> NoSlug],
     kind   |-> [n \in Nodes |-> "page"],
     index  |-> [p \in Places |-> {}],
     ver    |-> [n \in Nodes |-> 0],
     pinned |-> {}]

Live(t) == t.nodes \union {Root}

-----------------------------------------------------------------------------
(* Reading the tree *)

\* findChildBySlugInParentLocked
Find(t, p, s) == {m \in t.nodes : <<s, m>> \in t.index[p]}

\* The node and everything below it: what every set that contains the node and
\* the children of its members contains (PageNode.IsChildOf, recursive).
Closed(t, S) == \A m \in t.nodes : t.parent[m] \in S => m \in S
Subtree(t, n) == {m \in t.nodes : \A S \in SUBSET t.nodes : n \in S /\ Closed(t, S) => m \in S}

\* The auto-convert of a page that gets a child.
NeedsConvert(t, p) == p # Root /\ t.kind[p] = "page"

-----------------------------------------------------------------------------
(* Changing it *)

\* rebuildChildSlugIndexForParentLocked, for the places of P.
SlugPairs(t, p) == {<<t.slug[t.kids[p][i]], t.kids[p][i]>> : i \in DOMAIN t.kids[p]}

Reindexed(t, P) ==
    [t EXCEPT !.index = [p \in Places |-> IF p \in P THEN SlugPairs(t, p) ELSE t.index[p]]]

AsSection(t, p) == IF p = Root THEN t ELSE [t EXCEPT !.kind[p] = "section"]

\* createNodeLocked, its memory part.
Created(t, n, p, s, k, v) ==
    Reindexed([t EXCEPT !.nodes = @ \union {n}, !.parent[n] = p, !.kids[p] = Append(@, n),
                        !.slug[n] = s, !.kind[n] = k, !.ver[n] = v],
              {n, p})

Without(seq, n) == RemoveAt(seq, CHOOSE i \in DOMAIN seq : seq[i] = n)

\* DeleteNode and removeNodeIndexLocked.
Deleted(t, n) ==
    LET D == Subtree(t, n)
        p == t.parent[n]
        Cut(f, default) == [m \in DOMAIN f |-> IF m \in D THEN default ELSE f[m]]
    IN  Reindexed([nodes  |-> t.nodes \ D,
                   parent |-> Cut(t.parent, Root),
                   kids   |-> Cut([t.kids EXCEPT ![p] = Without(@, n)], <<>>),
                   slug   |-> Cut(t.slug, NoSlug),
                   kind   |-> Cut(t.kind, "page"),
                   index  |-> Cut(t.index, {}),
                   ver    |-> Cut(t.ver, 0),
                   pinned |-> t.pinned \ D],
                  {p})

Renamed(t, n, s) == Reindexed([t EXCEPT !.slug[n] = s], {t.parent[n]})

\* MoveNodeToPosition: out of the old slice, into the new one at position i.
Moved(t, n, p, i) ==
    LET old == t.parent[n] IN
    Reindexed([t EXCEPT !.parent[n] = p,
                        !.kids = [t.kids EXCEPT ![old] = Without(@, n), ![p] = InsertAt(@, i, n)]],
              {old, p})

Stamped(t, S, v) == [t EXCEPT !.ver = [n \in Nodes |-> IF n \in S THEN v ELSE t.ver[n]]]

-----------------------------------------------------------------------------
(* What every operation requires *)

\* A node may be created under p with slug s.
MayCreate(t, n, p, s) == n \notin t.nodes /\ p \in Live(t) /\ Find(t, p, s) = {}

MayRename(t, n, s) == n \in t.nodes /\ (s = t.slug[n] \/ Find(t, t.parent[n], s) \subseteq {n})

MayConvert(t, n, k) ==
    /\ n \in t.nodes /\ t.kind[n] # k
    /\ k = "page" => t.kids[n] = <<>>

MayMove(t, n, p) ==
    /\ n \in t.nodes /\ p \in Live(t) /\ n # p
    /\ Find(t, p, t.slug[n]) \subseteq {n}
    /\ p \notin Subtree(t, n)

\* validateOrder: the given ids are the children, each once.
MaySort(t, p, seq) ==
    /\ p \in Live(t)
    /\ Len(seq) = Len(t.kids[p])
    /\ \A i \in DOMAIN seq : \E j \in DOMAIN t.kids[p] : seq[i] = t.kids[p][j]
    /\ \A i, j \in DOMAIN seq : seq[i] = seq[j] => i = j
    /\ \A j \in DOMAIN t.kids[p] : \E i \in DOMAIN seq : seq[i] = t.kids[p][j]

-----------------------------------------------------------------------------
(* The operations, as their callers see them *)

TreeInit == tree = EmptyTree /\ loads = 0

\* CreateNode and RestoreNode.
Creates(n, p, s, k) ==
    /\ MayCreate(tree, n, p, s)
    /\ \/ tree' = Created(AsSection(tree, p), n, p, s, k, tree'.ver[n])
       \/ tree' = AsSection(tree, p)

\* RestoreNode of an id that is in the tree fails after the auto-convert.
FailsToRestore(n, p, s) ==
    /\ n \in tree.nodes /\ p \in Live(tree) /\ Find(tree, p, s) = {}
    /\ tree' = AsSection(tree, p)

\* EnsurePagePath with two missing segments; with one it creates one node.
Ensures(m, n, s, z, k) ==
    /\ MayCreate(tree, m, Root, s) /\ n \notin tree.nodes /\ m # n
    /\ LET t == Created(tree, m, Root, s, "section", tree'.ver[m]) IN
       tree' \in {t, Created(t, n, m, z, k, tree'.ver[n])}

Deletes(n) == n \in tree.nodes /\ tree' = Deleted(tree, n)

Updates(n, s) ==
    /\ MayRename(tree, n, s)
    /\ tree' = Stamped(Renamed(tree, n, s), {n}, tree'.ver[n])

Converts(n, k) ==
    /\ MayConvert(tree, n, k)
    /\ tree' = Stamped([tree EXCEPT !.kind[n] = k], {n}, tree'.ver[n])

\* BulkUpdateContent
Rewrites(S) ==
    /\ S \subseteq tree.nodes
    /\ tree' = [tree EXCEPT !.ver = [n \in Nodes |-> IF n \in S THEN tree'.ver[n] ELSE tree.ver[n]]]

Moves(n, p, i) ==
    /\ MayMove(tree, n, p)
    /\ \/ /\ p # tree.parent[n] /\ i \in 1 .. Len(tree.kids[p]) + 1
          /\ tree' = Stamped(Moved(AsSection(tree, p), n, p, i), {n}, tree'.ver[n])
       \/ tree' = AsSection(tree, p)

Sorts(p, seq) ==
    /\ MaySort(tree, p, seq)
    /\ tree' = [tree EXCEPT !.kids[p] = seq]

Pins(n) == n \in tree.nodes /\ tree' \in {[tree EXCEPT !.pinned = P] : P \in {tree.pinned \union {n}, tree.pinned \ {n}}}

(***************************************************************************)
(* The invariant                                                           *)
(***************************************************************************)

TreeType(t) ==
    /\ t = [nodes |-> t.nodes, parent |-> t.parent, kids |-> t.kids, slug |-> t.slug,
            kind |-> t.kind, index |-> t.index, ver |-> t.ver, pinned |-> t.pinned]
    /\ t.nodes \subseteq Nodes
    /\ t.parent \in [Nodes -> Places]
    /\ t.kids \in [Places -> Seq(Nodes)]
    /\ t.slug \in [Nodes -> Slugs \union {NoSlug}]
    /\ t.kind \in [Nodes -> Kinds]
    /\ DOMAIN t.index = Places
    /\ t.ver \in [Nodes -> Nat]
    /\ t.pinned \subseteq t.nodes

\* Parent pointers and child slices say the same: a node is in the slice of
\* its parent, once, and in no other.
Linked(t) ==
    /\ \A n \in t.nodes : t.parent[n] \in Live(t) /\ t.slug[n] \in Slugs
    /\ \A n \in t.nodes : \E i \in DOMAIN t.kids[t.parent[n]] : t.kids[t.parent[n]][i] = n
    /\ \A p \in Places : \A i \in DOMAIN t.kids[p] :
         /\ p \in Live(t) /\ t.kids[p][i] \in t.nodes /\ t.parent[t.kids[p][i]] = p
         /\ \A j \in DOMAIN t.kids[p] : t.kids[p][i] = t.kids[p][j] => i = j

\* Siblings have different slugs, so no two nodes share a path or a file.
SlugsUnique(t) ==
    \A m, n \in t.nodes : t.parent[m] = t.parent[n] /\ t.slug[m] = t.slug[n] => m = n

\* Only sections have children: a page has no folder to keep them in.
PagesAreLeaves(t) ==
    \A n \in t.nodes : t.parent[n] = Root \/ t.kind[t.parent[n]] = "section"

\* No set of nodes is closed under taking parents: every node hangs below the
\* root, and no move has put one below itself.
Rooted(t) ==
    \A S \in SUBSET t.nodes : S # {} => \E n \in S : t.parent[n] \notin S

\* childSlugs is what a rebuild of the whole index would give.
IndexFresh(t) == \A p \in Live(t) : t.index[p] = SlugPairs(t, p)

WellFormed(t) ==
    /\ TreeType(t) /\ Linked(t) /\ SlugsUnique(t) /\ PagesAreLeaves(t)
    /\ Rooted(t) /\ IndexFresh(t)

\* The tree in memory is well formed after every operation, whatever part of
\* the operation failed on disk.
TreeOK == WellFormed(tree)

-----------------------------------------------------------------------------

\* LoadTree at boot, and the swap at the end of ReconstructTreeFromFS.
Reloads == WellFormed(tree') /\ loads' = loads + 1

\* A version is a time: the operation leaves it open which, not that it is one.
Versioned == tree'.ver \in [Nodes -> Nat]

TreeNext ==
    \/ Reloads
    \/ /\ UNCHANGED loads /\ Versioned
       /\ \/ \E n \in Nodes, p \in Places, s \in Slugs :
               \/ \E k \in Kinds : Creates(n, p, s, k)
               \/ FailsToRestore(n, p, s)
          \/ \E m, n \in Nodes, s, z \in Slugs, k \in Kinds : Ensures(m, n, s, z, k)
          \/ \E n \in Nodes :
               \/ Deletes(n)
               \/ Pins(n)
               \/ \E s \in Slugs : Updates(n, s)
               \/ \E k \in Kinds : Converts(n, k)
               \/ \E p \in Places : \E i \in 1 .. Len(tree.kids[p]) + 1 : Moves(n, p, i)
          \/ \E S \in SUBSET Nodes : Rewrites(S)
          \/ \E p \in Places : \E seq \in SetToSeqs(ToSet(tree.kids[p])) : Sorts(p, seq)

treeVars == <<tree, loads>>
TreeSpec == TreeInit /\ [][TreeNext]_treeVars

=============================================================================

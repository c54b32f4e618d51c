----------------------------- MODULE Migration ------------------------------
(***************************************************************************)
(* The boot of the page tree (TreeService.LoadTree) and the migrations of   *)
(* older data directories (internal/core/treemigration): the tree that      *)
(* tree.json described becomes frontmatter and order files, one schema      *)
(* version after the other, and the process may stop between any two        *)
(* writes and start again.                                                  *)
(*                                                                          *)
(* A place is a slug under its parent: it may hold <place>.md, a directory, *)
(* and index.md and .order.json in that directory.  Titles, authors, the    *)
(* pin, .leafwikiignore and invalid slugs are left out; the time of a file  *)
(* or of a page is "old" (before the migration) or "new".                   *)
(***************************************************************************)
EXTENDS Naturals, Sequences, SequencesExt, FiniteSets

CONSTANTS
    Root,
    Listing,     \* the places under each place in the order of their names
    LegacyKids,  \* the children tree.json lists under each place, in its order
    Layouts,     \* what may lie at each place: see Placed
    Versions,    \* the schema versions a data directory may have at first
    Saved,       \* what tree.json may be at first: "kept", "lost", "unreadable"
    Copied,      \* the place of which a hand-made copy has the identifier
    None,
    Torn,        \* a schema.json that is not JSON
    MaxBoots     \* bound: times the program is started

Spots == DOMAIN Listing
Places == Spots \ {Root}
CurrentSchemaVersion == 5
LegacyPlaces == UNION {ToSet(LegacyKids[q]) : q \in Spots}

ASSUME MigrationAssumption ==
    /\ Root \in Spots /\ DOMAIN LegacyKids = Spots /\ DOMAIN Layouts = Places
    /\ \A p \in Places : Cardinality({q \in Spots : Contains(Listing[q], p)}) = 1
    /\ MaxBoots \in Nat

Up(p) == CHOOSE q \in Spots : Contains(Listing[q], p)
Lineage[p \in Spots] == IF p = Root THEN {Root} ELSE {p} \cup Lineage[Up(p)]
Own(p) == <<p, 0>>   \* the identifier tree.json gives to the page at p

VARIABLES
    schema,    \* schema.json: a version (0 when it is missing), or Torn
    json,      \* tree.json: None, Torn, or a tree
    md,        \* <place>.md: None or a file
    idx,       \* <place>/index.md
    dir,       \* the directory: None or the time it was last written in
    ord,       \* .order.json: None or identifiers
    tree,      \* TreeService.tree
    pc, todo,  \* where LoadTree is, and what its walk has still to visit
    boots,     \* the number of this start
    begin,     \* history: the data directory the program was first started on
    first,     \* history: the tree that was served first
    spoiled    \* history: a frontmatter could not be written back

disk == <<schema, json, md, idx, dir, ord>>
files == <<md, idx, dir>>
history == <<begin, first, spoiled>>
vars == <<disk, tree, pc, todo, boots, history>>

-----------------------------------------------------------------------------
(* Files and trees *)

\* BuildMarkdownWithFrontmatter: without an identifier no managed field is written
File(id, stamp, time) == [id |-> id, stamp |-> IF id = None THEN None ELSE stamp, time |-> time, good |-> TRUE]

\* Directories on the way to a file that is created or replaced in p's directory
Entered(p) == [q \in Spots |->
    IF q \in Lineage[p] /\ (q = p \/ \E r \in Lineage[p] \ {Root} : Up(r) = q /\ dir[r] = None) THEN "new" ELSE dir[q]]

WriteMd(p, f) == /\ md' = [md EXCEPT ![p] = f]
                 /\ dir' = Entered(Up(p))
                 /\ UNCHANGED idx
WriteIdx(p, f) == /\ idx' = [idx EXCEPT ![p] = f]
                  /\ dir' = Entered(p)
                  /\ UNCHANGED md

Nodes(t) == DOMAIN t.node \ {Root}
PreorderOf(t) == LET W[p \in DOMAIN t.node] == <<p>> \o FlattenSeq([i \in DOMAIN t.kids[p] |-> W[t.kids[p][i]]]) IN W[Root]

\* contentPathForNodeRead
Content(p) == IF tree.node[p].kind = "section" THEN idx[p] ELSE md[p]

\* resolveNode
Resolved(p) ==
    CASE p # Root /\ md[p] # None -> [kind |-> "page", time |-> md[p].time]
      [] p # Root /\ md[p] = None /\ dir[p] # None -> [kind |-> "section", time |-> IF idx[p] # None THEN idx[p].time ELSE dir[p]]
      [] p = Root -> [kind |-> "section", time |-> dir[Root]]
      [] OTHER -> None

-----------------------------------------------------------------------------
(* A data directory of an older version *)

Placed == {"page", "broken", "folder", "brokenFolder", "bare", "both", "copy", "gone"}
IsDir(l) == l \in {"folder", "brokenFolder", "bare", "both"}
IsMd(l) == l \in {"page", "broken", "both", "copy"}

Possible(v, layout) ==
    \A p \in Places : /\ Up(p) # Root /\ layout[p] # "gone" => IsDir(layout[Up(p)])
                      /\ layout[p] = "bare" /\ p \in LegacyPlaces => v < 4

BeginFile(v, p, l) ==
    [id |-> IF l = "copy" THEN Own(Copied) ELSE IF p \in LegacyPlaces /\ v >= 2 THEN Own(p) ELSE None,
     stamp |-> IF l = "copy" \/ (p \in LegacyPlaces /\ v >= 3) THEN "old" ELSE None,
     time |-> "old", good |-> l \notin {"broken", "brokenFolder"}]

BeginTree(v, layout) ==
    [node |-> [p \in LegacyPlaces \cup {Root} |->
                 [id |-> Own(p), stamp |-> IF v = 0 THEN None ELSE "old",
                  kind |-> CASE p = Root -> "section"
                             [] p # Root /\ v < 2 -> None
                             [] OTHER -> IF IsMd(layout[p]) \/ (~IsDir(layout[p]) /\ LegacyKids[p] = <<>>) THEN "page" ELSE "section"]],
     kids |-> [p \in LegacyPlaces \cup {Root} |-> LegacyKids[p]]]

Init ==
    \E v \in Versions, s \in Saved, layout \in [Places -> Placed] :
       /\ \A p \in Places : layout[p] \in Layouts[p]
       /\ Possible(v, layout)
       /\ begin = [version |-> v, json |-> s, layout |-> layout]
       /\ schema = v
       /\ json = CASE s = "kept" -> BeginTree(v, layout) [] s = "lost" -> None [] s = "unreadable" -> Torn
       /\ md = [p \in Places |-> IF IsMd(layout[p]) THEN BeginFile(v, p, layout[p]) ELSE None]
       /\ idx = [p \in Places |-> IF layout[p] \in {"folder", "brokenFolder"} THEN BeginFile(v, p, layout[p]) ELSE None]
       /\ dir = [q \in Spots |-> IF q = Root \/ (q # Root /\ IsDir(layout[q])) THEN "old" ELSE None]
       /\ ord = [q \in Spots |-> None]
       /\ tree = None /\ pc = "down" /\ todo = <<>> /\ boots = 0 /\ first = None /\ spoiled = FALSE

-----------------------------------------------------------------------------
(* LoadTree *)

Refuse == pc' = "down" /\ tree' = None /\ todo' = <<>> /\ UNCHANGED <<disk, boots, history>>

\* os.ReadDir and sortReconstructionEntries: a directory comes before the file of its name
Entries(q) == FlattenSeq([i \in DOMAIN Listing[q] |->
    LET p == Listing[q][i] IN
    (IF dir[p] # None THEN <<<<p, "dir">>>> ELSE <<>>) \o (IF md[p] # None THEN <<<<p, "md">>>> ELSE <<>>)])

Walks(to) == /\ pc' = to
             /\ todo' = Entries(Root)
             /\ tree' = [node |-> (Root :> [id |-> Own(Root), stamp |-> dir[Root], kind |-> "section"]), kids |-> (Root :> <<>>)]

\* tree.json is read only by an older version; one that cannot be read is as good as none
Boot ==
    /\ pc = "down" /\ boots < MaxBoots
    /\ schema # Torn
    /\ boots' = boots + 1
    /\ IF schema = CurrentSchemaVersion THEN Walks("serve")
       ELSE IF json \in {None, Torn} THEN Walks("source")
       ELSE pc' = "migrate" /\ tree' = json /\ UNCHANGED todo
    /\ UNCHANGED <<disk, history>>

\* backfillMetadata goes down to the first node that has a time or cannot be found
Reached == {p \in DOMAIN tree.node : \A q \in Lineage[p] : tree.node[q].stamp = None /\ Resolved(q) # None}
Backfilled == [tree EXCEPT !.node = [p \in DOMAIN tree.node |->
    IF p \in Reached THEN [tree.node[p] EXCEPT !.stamp = Resolved(p).time] ELSE tree.node[p]]]

Mutant_DefaultsToPage(p) == "page"
KindFromFS(p) == IF Resolved(p) # None THEN Resolved(p).kind ELSE IF tree.kids[p] # <<>> THEN "section" ELSE "page"
WithKinds == [tree EXCEPT !.node = [p \in DOMAIN tree.node |->
    IF tree.node[p].kind = None THEN [tree.node[p] EXCEPT !.kind = KindFromFS(p)] ELSE tree.node[p]]]

\* The part of a migration that is done in memory, and the nodes the rest of it visits
Migrate ==
    /\ pc = "migrate" /\ schema < CurrentSchemaVersion
    /\ pc' = "work"
    /\ tree' = CASE schema = 0 -> Backfilled [] schema = 1 -> WithKinds [] OTHER -> tree
    /\ todo' = CASE schema = 0 -> <<>>
                 [] schema \in {1, 2, 3} -> Tail(PreorderOf(tree))
                 [] schema = 4 -> SelectSeq(PreorderOf(tree), LAMBDA p : tree.kids[p] # <<>>)
    /\ UNCHANGED <<disk, boots, history>>

\* validateDependencies: data of a later version
TooNew == pc = "migrate" /\ schema > CurrentSchemaVersion /\ Refuse

Works(version) == pc = "work" /\ schema = version /\ todo # <<>>
Visited == todo' = Tail(todo) /\ UNCHANGED <<schema, json, pc, boots, history>>

\* migrateToV2: an index that is missing reads as empty, a page that is missing as drift
AddFrontmatter ==
    /\ Works(1)
    /\ LET p == Head(todo)
           f == Content(p)
           id == tree.node[p].id
       IN CASE f = None /\ tree.node[p].kind = "section" -> Visited /\ WriteIdx(p, File(id, None, "new")) /\ UNCHANGED <<ord, tree>>
            [] f = None /\ tree.node[p].kind = "page" -> Refuse
            [] f # None /\ ~f.good -> Refuse
            [] f # None /\ f.good /\ f.id # None -> Visited /\ UNCHANGED <<files, ord, tree>>
            [] OTHER -> /\ Visited /\ UNCHANGED <<ord, tree>>
                        /\ IF tree.node[p].kind = "section" THEN WriteIdx(p, File(id, f.stamp, "new"))
                           ELSE WriteMd(p, File(id, f.stamp, "new"))

\* migrateToV3
WriteMetadata ==
    /\ Works(2)
    /\ LET p == Head(todo)
           f == Content(p)
       IN CASE f = None -> Visited /\ UNCHANGED <<files, ord, tree>>
            [] f # None /\ ~f.good -> Refuse
            [] OTHER -> /\ Visited /\ UNCHANGED <<ord, tree>>
                        /\ IF tree.node[p].kind = "section" THEN WriteIdx(p, File(f.id, tree.node[p].stamp, "new"))
                           ELSE WriteMd(p, File(f.id, tree.node[p].stamp, "new"))

\* migrateToV4: ensureSectionIndex
MaterializeIndex ==
    /\ Works(3)
    /\ LET p == Head(todo)
           n == tree.node[p]
       IN CASE n.kind # "section" -> Visited /\ UNCHANGED <<files, ord, tree>>
            [] n.kind = "section" /\ idx[p] # None /\ ~idx[p].good -> Refuse
            [] OTHER -> Visited /\ WriteIdx(p, File(n.id, n.stamp, "new")) /\ UNCHANGED <<ord, tree>>

\* migrateToV5: SaveChildOrder, after a page with children has been made a section
ChildOrder(p) == [i \in DOMAIN tree.kids[p] |-> tree.node[tree.kids[p][i]].id]
SaveOrder ==
    /\ Works(4)
    /\ LET p == Head(todo) IN
       /\ tree' = [tree EXCEPT !.node[p].kind = "section"]
       /\ ord' = [ord EXCEPT ![p] = ChildOrder(p)]
       /\ dir' = Entered(p)
    /\ Visited /\ UNCHANGED <<md, idx>>

SaveTree ==
    /\ pc = "work" /\ todo = <<>>
    /\ json' = tree
    /\ pc' = "saved"
    /\ UNCHANGED <<schema, files, ord, tree, todo, boots, history>>

\* os.WriteFile: the file is empty before it is whole
SaveSchema ==
    /\ pc = "saved"
    /\ schema' = schema + 1
    /\ pc' = "migrate"
    /\ UNCHANGED <<json, files, ord, tree, todo, boots, history>>

TearSchema ==
    /\ pc = "saved" /\ boots < MaxBoots
    /\ schema' = Torn
    /\ pc' = "down" /\ tree' = None
    /\ UNCHANGED <<json, files, ord, todo, boots, history>>

Rebuild ==
    /\ pc = "migrate" /\ schema = CurrentSchemaVersion
    /\ Walks("serve")
    /\ UNCHANGED <<disk, boots, history>>

-----------------------------------------------------------------------------
(* ReconstructTreeFromFS *)

Walking == pc \in {"source", "serve"} /\ todo # <<>>

\* A new identifier is never one that was given before
IdOf(f, p) == IF f # None /\ f.good /\ f.id # None THEN f.id ELSE <<p, boots>>
StampOf(f, time) == IF f # None /\ f.good THEN (IF f.stamp # None THEN f.stamp ELSE f.time) ELSE time
Partial(f) == f # None /\ f.good /\ None \in {f.id, f.stamp}
Known(id) == \E q \in Nodes(tree) : tree.node[q].id = id

Grown(p, kind, id, stamp) ==
    [node |-> (p :> [id |-> id, stamp |-> stamp, kind |-> kind]) @@ tree.node,
     kids |-> (p :> <<>>) @@ [tree.kids EXCEPT ![Up(p)] = Append(@, p)]]

\* A frontmatter that cannot be written back is only logged
Mutant_InMemory(write) == UNCHANGED <<files, spoiled>>
WrittenBack(write) ==
    \/ write /\ UNCHANGED spoiled
    \/ spoiled' = TRUE /\ UNCHANGED files

VisitDir ==
    /\ Walking /\ Head(todo)[2] = "dir"
    /\ LET p == Head(todo)[1]
           f == idx[p]
           id == IdOf(f, p)
           stamp == StampOf(f, dir[p])
       IN IF Known(id)
          THEN todo' = Tail(todo) /\ UNCHANGED <<files, tree, spoiled>>
          ELSE /\ tree' = Grown(p, "section", id, stamp)
               /\ todo' = Entries(p) \o Tail(todo)
               /\ CASE f = None -> WriteIdx(p, File(id, stamp, "new")) /\ UNCHANGED spoiled
                    [] Partial(f) -> WrittenBack(WriteIdx(p, File(id, stamp, f.time)))
                    [] OTHER -> UNCHANGED <<files, spoiled>>
    /\ UNCHANGED <<schema, json, ord, pc, boots, begin, first>>

VisitFile ==
    /\ Walking /\ Head(todo)[2] = "md"
    /\ LET p == Head(todo)[1]
           f == md[p]
           id == IdOf(f, p)
           stamp == StampOf(f, f.time)
       IN /\ f.good => dir[p] = None
          /\ IF ~f.good \/ Known(id)
             THEN UNCHANGED <<files, tree, spoiled>>
             ELSE /\ tree' = Grown(p, "page", id, stamp)
                  /\ IF Partial(f) THEN WrittenBack(WriteMd(p, File(id, stamp, f.time)))
                     ELSE UNCHANGED <<files, spoiled>>
    /\ todo' = Tail(todo)
    /\ UNCHANGED <<schema, json, ord, pc, boots, begin, first>>

\* ensureUniqueReconstructedSlug
DuplicateSlug ==
    /\ Walking /\ Head(todo)[2] = "md"
    /\ LET p == Head(todo)[1] IN md[p].good /\ dir[p] # None
    /\ Refuse

\* applyChildOrder
Rank(q, i) == LET id == tree.node[tree.kids[q][i]].id
              IN IF ord[q] # None /\ Contains(ord[q], id) THEN IndexFirstSubSeq(<<id>>, ord[q]) ELSE Cardinality(Places) + i
Ordered(q) == LET s == SetToSortSeq(DOMAIN tree.kids[q], LAMBDA i, j : Rank(q, i) < Rank(q, j))
              IN [i \in DOMAIN s |-> tree.kids[q][s[i]]]
InOrder == [tree EXCEPT !.kids = [q \in DOMAIN tree.kids |-> Ordered(q)]]

SourceDone ==
    /\ pc = "source" /\ todo = <<>>
    /\ tree' = InOrder /\ pc' = "migrate"
    /\ UNCHANGED <<disk, todo, boots, history>>

\* What is served; tree.json goes, and a failure of that is only logged
Serve ==
    /\ pc = "serve" /\ todo = <<>>
    /\ tree' = InOrder /\ pc' = "up"
    /\ first' = IF first = None THEN InOrder ELSE first
    /\ json' \in {None, json}
    /\ UNCHANGED <<schema, files, ord, todo, boots, begin, spoiled>>

\* A crash, a failing write (LoadTree returns its error and the program ends) or a shutdown
Stop ==
    /\ pc # "down" /\ boots < MaxBoots
    /\ Refuse

Load == \/ Boot \/ Migrate \/ TooNew \/ AddFrontmatter \/ WriteMetadata \/ MaterializeIndex \/ SaveOrder \/ SaveTree
        \/ SaveSchema \/ Rebuild \/ VisitDir \/ VisitFile \/ DuplicateSlug \/ SourceDone \/ Serve
Next == Load \/ TearSchema \/ Stop

Spec == Init /\ [][Next]_vars
FairSpec == Spec /\ WF_vars(Load)

-----------------------------------------------------------------------------
(* Properties *)

(* A page of the old tree whose file, and the directories above it, were    *)
(* there at first.                                                          *)
Sound(p) == p \in LegacyPlaces /\ \A q \in Lineage[p] \ {Root} : begin.layout[q] \in {"page", "folder", "bare"}

(* However often the migration is cut short and begun again, from whatever  *)
(* version: what it ends with is the old tree, with every page that had its *)
(* file at its place under its identifier, created when it was created, and *)
(* in the old order among its siblings.                                     *)
MigrationKeepsTree ==
    pc = "up" /\ begin.json = "kept" /\ begin.version < CurrentSchemaVersion /\ (\A p \in Places : begin.layout[p] # "copy") =>
      /\ \A p \in LegacyPlaces : Sound(p) => p \in Nodes(tree) /\ tree.node[p].id = Own(p) /\ tree.node[p].stamp = "old"
      /\ \A q \in LegacyPlaces \cup {Root} : (q = Root \/ Sound(q)) =>
            SelectSeq(tree.kids[q], Sound) = SelectSeq(LegacyKids[q], Sound)

(* What was served once is served after every later start: the identifiers, *)
(* times and order that a start made up are on disk (unless a write-back    *)
(* failed, or the frontmatter of an index cannot be parsed).                *)
SameTreeEveryBoot ==
    pc = "up" /\ ~spoiled /\ (\A p \in Places : begin.layout[p] # "brokenFolder") =>
      /\ tree.kids = first.kids
      /\ \A p \in Nodes(tree) : tree.node[p] = first.node[p]

(* Neither a migration nor a later start changes what a page is.            *)
TreeStays == MigrationKeepsTree /\ SameTreeEveryBoot

(* The program ends up serving, whatever it was stopped in, unless the      *)
(* schema file was torn: the data at first had a known version, no place    *)
(* with both a file and a directory, no frontmatter that cannot be parsed   *)
(* and, before version 2, no page without its file.                         *)
ServesInTheEnd ==
    (/\ begin.version <= CurrentSchemaVersion
     /\ \A p \in Places : /\ begin.layout[p] \notin {"both", "broken", "brokenFolder"}
                          /\ p \in LegacyPlaces /\ LegacyKids[p] = <<>> /\ begin.json = "kept" /\ begin.version < 2 => begin.layout[p] # "gone")
    => <>(pc = "up" \/ schema = Torn)
=============================================================================

------------------------------ MODULE Indexing ------------------------------
(***************************************************************************)
(* The indexes derived from the page tree: the link rows (internal/links),  *)
(* the search documents (internal/search) and the tag rows (internal/tags;  *)
(* internal/properties keeps the same).  Page requests change the tree      *)
(* under its lock and, after the lock is released, tell the indexes what    *)
(* they did (internal/wiki/pagesave); a refactoring also rewrites the links *)
(* of other pages; a resync rebuilds all of it from the files.              *)
(*                                                                          *)
(* The body of a page is the one link it holds: None, a title for           *)
(* [[Title]], or an absolute path; how texts of several links of any form    *)
(* are rewritten is in LinkRewrite.  The effects of one request are one     *)
(* step: while requests overlap nothing is claimed of the indexes, except   *)
(* for plain saves of different pages, whose effects touch rows of their    *)
(* own.  A refactoring and a resync are several steps.                      *)
(***************************************************************************)
EXTENDS Naturals, Sequences, SequencesExt, FiniteSets, LinkRewrite

CONSTANTS
    Pages, Slugs, Titles, Tags,
    Root,       \* the id of the tree's root
    None,       \* no link, no row, no page yet
    Gone,       \* a deleted page
    Calls,      \* requests being handled
    FirstTree,  \* the pages at start
    Drafts,     \* the titles, slugs, links and tags a client may submit
    MaxOps,     \* bound: requests made
    MaxFiles,   \* bound: files that appear behind the wiki's back
    MaxResyncs, \* bound: resyncs
    MaxEvents   \* bound: all of these together

ASSUME IndexingAssumption ==
    /\ Root \notin Pages /\ None \notin Titles
    /\ {MaxOps, MaxFiles, MaxResyncs, MaxEvents} \subseteq Nat

VARIABLES
    tree,      \* what the TreeService holds, contents included
    unseen,    \* pages that are on disk only
    links,     \* the row of each page in links.db
    docs,      \* the document of each page in search.db
    tags,      \* the rows of each page in tags.db
    op,        \* what each request is doing
    job,       \* the resync
    ops, resyncs, files,  \* bounded counters
    overlap,   \* history: since the last undisturbed resync, steps overlapped that may not
    untold     \* history: pages changed by a request that does not tell the search index

indexes == <<links, docs, tags>>
counters == <<ops, resyncs, files>>
vars == <<tree, unseen, indexes, op, job, counters, overlap, untold>>

Nodes == [up : Pages \union {Root}, slug : Slugs, title : Titles,
          body : Seq(Slugs) \union Titles \union {None}, tag : Tags]

In(t) == {p \in Pages : t[p] \notin {None, Gone}}
PathOf(t, p) ==
    LET path[q \in Pages] == IF t[q].up = Root THEN <<t[q].slug>> ELSE Append(path[t[q].up], t[q].slug)
    IN  path[p]
Subtree(t, p) ==
    LET within[q \in Pages] == q = p \/ (t[q].up # Root /\ within[t[q].up])
    IN  {q \in In(t) : within[q]}
Titled(t, title) == {p \in In(t) : t[p].title = title}
IsPath(link) == link \notin Titles \union {None}
The(S) == CHOOSE x \in S : TRUE

-----------------------------------------------------------------------------
(* Link rows: resolveTargetLinks, resolveWikiLinkTargets, LinksStore *)

State(matches) == CASE matches = 0 -> "broken" [] matches = 1 -> "resolved" [] OTHER -> "ambiguous"

RowFor(link, targets) ==
    [to |-> link, state |-> State(Cardinality(targets)),
     page |-> IF Cardinality(targets) = 1 THEN The(targets) ELSE None]

Row(t, link) ==
    CASE link = None -> None
      [] link \in Titles -> RowFor(link, Titled(t, link))
      [] IsPath(link) -> RowFor(link, {p \in In(t) : PathOf(t, p) = link})

AddLinks(rows, t, pages, text) == [p \in Pages |-> IF p \in pages THEN Row(t, text[p].body) ELSE rows[p]]

Breaks(rows, P(_)) ==
    [q \in Pages |-> IF rows[q] # None /\ P(rows[q]) THEN [rows[q] EXCEPT !.state = "broken", !.page = None] ELSE rows[q]]
MarkPath(rows, path) == Breaks(rows, LAMBDA r : r.to = path)
MarkPrefix(rows, path) == Breaks(rows, LAMBDA r : IsPath(r.to) /\ IsPrefix(path, r.to))
MarkIncoming(rows, pages) == Breaks(rows, LAMBDA r : r.state = "resolved" /\ r.page \in pages)

\* Broken rows that lead to the path of a page are its links again.
Heal(rows, t, pages) ==
    [q \in Pages |->
        LET there == {p \in pages \intersect In(t) : rows[q] # None /\ IsPath(rows[q].to) /\ PathOf(t, p) = rows[q].to}
        IN  IF there # {} /\ rows[q].state = "broken" THEN RowFor(rows[q].to, there) ELSE rows[q]]

Reconcile(rows, t, titles) ==
    [q \in Pages |-> IF rows[q] # None /\ rows[q].to \in titles THEN Row(t, rows[q].to) ELSE rows[q]]

AddAndHeal(rows, t, pages, text) == Heal(AddLinks(rows, t, pages, text), t, pages)

\* What the link panel of a page shows: GetLinkStatusForPage, GetBrokenLinks.
Ambiguous(title) == {q \in Pages : links[q] # None /\ links[q].to = title /\ links[q].state = "ambiguous"}
Backlinks(p) ==
    {q \in Pages : links[q] # None /\ links[q].state = "resolved" /\ links[q].page = p}
        \union (IF Cardinality(Titled(tree, tree[p].title)) > 1 THEN Ambiguous(tree[p].title) ELSE {})
BrokenLinks == {q \in Pages : links[q] # None /\ links[q].state = "broken"}
BrokenIncoming(path) == {q \in BrokenLinks : links[q].to = path}

\* AffectedPages: a save that keeps the slug changes no path.
Moved(o) == IF o.kind = "save" /\ o.base.slug = o.new.slug THEN {o.page} ELSE o.pages

\* LinkIndexSideEffect.Apply
Mutant_NewTitleOnly(o) == {o.text[o.page].title}
ChangedTitles(o) == IF o.base.title = o.text[o.page].title THEN {} ELSE {o.base.title, o.text[o.page].title}

LinkEffect(o) ==
    CASE o.kind = "create" -> Reconcile(AddAndHeal(links, tree, {o.page}, o.text), tree, {o.text[o.page].title})
      [] o.kind = "save" ->
           LET marked == IF o.base.slug = o.text[o.page].slug THEN links ELSE MarkPrefix(links, o.path)
           IN  Reconcile(AddAndHeal(marked, tree, Moved(o), o.text), tree, ChangedTitles(o))
      [] o.kind = "move" -> AddAndHeal(MarkPrefix(links, o.path), tree, o.pages, o.text)
      [] o.kind = "delete" ->
           LET cut == [q \in Pages |-> IF q \in o.pages THEN None ELSE links[q]]
               marked == IF o.pages = {o.page} THEN MarkPath(cut, o.path) ELSE MarkPrefix(cut, o.path)
           IN  Reconcile(MarkIncoming(marked, o.pages), tree, {o.text[p].title : p \in o.pages})

-----------------------------------------------------------------------------
(* Search documents and tag rows *)

Doc(t, p, text) == [path |-> PathOf(t, p), title |-> t[p].title, body |-> text[p].body]

\* A page that is gone when its effect runs is indexed as it last was.
Live(text, p) == IF p \in In(tree) THEN tree ELSE text

\* SearchIndexSideEffect.Apply: a save tells of the page alone, a move of the subtree.
Told(o) == IF o.kind = "save" THEN {o.page} ELSE o.pages

SearchEffect(o) ==
    [p \in Pages |-> IF p \notin Told(o) THEN docs[p]
                     ELSE IF o.kind = "delete" THEN None ELSE Doc(Live(o.text, p), p, o.text)]

Untagged(o) == IF o.kind = "delete" THEN o.pages ELSE {}
TagEffect(o) ==
    [p \in Pages |-> IF p \in Untagged(o) THEN None
                     ELSE IF o.kind \in {"create", "save"} /\ p = o.page THEN o.text[p].tag ELSE tags[p]]

-----------------------------------------------------------------------------
(* Requests *)

NoOp == [at |-> "idle", kind |-> "none", page |-> None, refactor |-> FALSE, rewrite |-> FALSE, base |-> None,
         new |-> None, path |-> <<>>, newPath |-> <<>>, pages |-> {}, text |-> <<>>, seen |-> <<>>,
         affected |-> {}, touched |-> {}, goal |-> {}]

Busy(c) == op[c].at # "idle"
Plain(o) == o.kind = "save" /\ ~o.refactor /\ o.base.slug = o.new.slug /\ o.base.title = o.new.title
Quiet == job.at = "idle" /\ \A c \in Calls : ~Busy(c)

Room == ops + resyncs + files < MaxEvents

\* A resync is left to repair the indexes after one more event.
Repairable(n) == resyncs + n < MaxResyncs /\ ops + resyncs + files + 1 < MaxEvents

\* The calls that may begin a request within the bounds.
Free == IF ops < MaxOps /\ Room THEN {c \in Calls : ~Busy(c)} ELSE {}

\* Requests may overlap when they are plain saves of different pages.  Other
\* overlaps are followed only while they can be repaired.
Begins(c, o) ==
    LET mixed == job.at # "idle" \/ \E d \in Calls : Busy(d) /\ ~(Plain(o) /\ Plain(op[d]) /\ op[d].page # o.page)
    IN  /\ mixed => Repairable(0)
        /\ ops' = ops + 1
        /\ op' = [op EXCEPT ![c] = o]
        /\ overlap' = (overlap \/ mixed)
        /\ job' = [job EXCEPT !.alone = FALSE]
        /\ UNCHANGED <<tree, unseen, indexes, resyncs, files, untold>>

Sibling(t, p, up, slug) == \E q \in In(t) \ {p} : t[q].up = up /\ t[q].slug = slug

\* Reading the page, its path and its subtree before the tree changes.
Before(kind, p, new) ==
    [NoOp EXCEPT !.at = "write", !.kind = kind, !.page = p, !.base = tree[p], !.new = new,
                 !.path = PathOf(tree, p), !.pages = Subtree(tree, p), !.seen = tree]

Fresh == {p \in Pages : tree[p] = None /\ unseen[p] = None /\ \A c \in Calls : op[c].page # p}

\* A new page is empty, a copy (source) has the body of another.
Create(c, p, up, draft, source) ==
    /\ p \in Fresh
    /\ LET new == [up |-> up, slug |-> draft.slug, title |-> draft.title, tag |-> CHOOSE g \in Tags : TRUE,
                   body |-> IF source = None THEN None ELSE tree[source].body]
       IN  Begins(c, [NoOp EXCEPT !.at = "write", !.kind = "create", !.page = p, !.base = None, !.new = new, !.pages = {p}])

Save(c, p, draft) ==
    /\ p \in In(tree)
    /\ LET new == [tree[p] EXCEPT !.title = draft.title, !.slug = draft.slug, !.body = draft.body, !.tag = draft.tag]
       IN  new # tree[p] /\ Begins(c, Before("save", p, new))

Move(c, p, up) ==
    /\ p \in In(tree) /\ up \in (In(tree) \union {Root}) \ Subtree(tree, p) /\ up # tree[p].up
    /\ Begins(c, Before("move", p, [tree[p] EXCEPT !.up = up]))

Delete(c, p) == p \in In(tree) /\ Begins(c, Before("delete", p, None))

-----------------------------------------------------------------------------
(* Refactorings: buildApplyPlan, captureSnapshots *)

TitleRule(o) == o.kind = "save" /\ o.base.title # o.new.title

\* The pages outside the subtree whose rows lead into it, by path or by title.
Mutant_ByPathOnly(o) == {q \in Pages \ o.pages : links[q] # None /\ IsPath(links[q].to) /\ IsPrefix(o.path, links[q].to)}
Affected(o) ==
    {q \in Pages \ o.pages : links[q] # None /\
        \/ IsPath(links[q].to) /\ IsPrefix(o.path, links[q].to)
        \/ TitleRule(o) /\ links[q].to = o.base.title /\ Cardinality(Titled(tree, o.base.title)) <= 1}

\* What the links into the subtree lead to now, except where the new title is
\* not unique, and [[Title]] links inside the subtree, which nothing rewrites.
Goal(o) ==
    {g \in In(tree) \X o.pages :
        LET body == o.seen[g[1]].body IN
        /\ body # None /\ Row(tree, body).page = g[2]
        /\ \/ IsPath(body)
           \/ g[1] \notin o.pages /\ (TitleRule(o) => Titled(tree, o.new.title) = {})}

Refactor(c, o, rewrite) ==
    Begins(c, [o EXCEPT !.refactor = TRUE, !.rewrite = rewrite,
                        !.newPath = IF o.new.up = Root THEN <<o.new.slug>> ELSE Append(PathOf(tree, o.new.up), o.new.slug),
                        !.affected = IF rewrite THEN Affected(o) ELSE {},
                        !.goal = IF rewrite THEN Goal(o) ELSE {}])

\* A rename may bring a new text, which is then the one captured for the page.
Rename(c, p, draft, content, rewrite) ==
    /\ p \in In(tree) /\ <<draft.title, draft.slug>> # <<tree[p].title, tree[p].slug>>
    /\ LET body == IF content THEN draft.body ELSE tree[p].body
           new == [tree[p] EXCEPT !.title = draft.title, !.slug = draft.slug, !.body = body]
       IN  Refactor(c, [Before("save", p, new) EXCEPT !.seen[p].body = body], rewrite)

MoveRefactored(c, p, up, rewrite) ==
    /\ p \in In(tree) /\ up \in (In(tree) \union {Root}) \ Subtree(tree, p) /\ up # tree[p].up
    /\ Refactor(c, Before("move", p, [tree[p] EXCEPT !.up = up]), rewrite)

-----------------------------------------------------------------------------
(* The tree changes, then the indexes are told *)

Ends(c) == op' = [op EXCEPT ![c] = NoOp]
Touch(c, o, pages) ==
    op' = [d \in Calls |-> IF d = c THEN o ELSE IF Busy(d) THEN [op[d] EXCEPT !.touched = @ \union pages] ELSE op[d]]

\* checkNodeVersion, the parent and the siblings, looked at under the lock.
Allowed(o) ==
    /\ o.kind # "create" => tree[o.page] = o.base
    /\ o.kind # "delete" =>
         /\ o.new.up \in In(tree) \union {Root} /\ ~Sibling(tree, o.page, o.new.up, o.new.slug)
         /\ o.kind = "move" => o.new.up \notin Subtree(tree, o.page)

Written(o) ==
    IF o.kind = "delete" THEN [p \in Pages |-> IF p \in Subtree(tree, o.page) THEN Gone ELSE tree[p]]
    ELSE [tree EXCEPT ![o.page] = o.new]

\* The pages read back under a new lock are what the effects see.
Write(c) ==
    LET o == op[c]
        after == [o EXCEPT !.at = "index", !.text = IF o.kind = "delete" THEN o.seen ELSE Written(o),
                           !.seen = IF o.refactor THEN @ ELSE <<>>,
                           !.pages = IF o.kind = "delete" THEN @ ELSE @ \intersect In(Written(o))]
    IN  /\ o.at = "write"
        /\ IF Allowed(o)
           THEN /\ tree' = Written(o) /\ Touch(c, after, {o.page})
                /\ untold' = untold \union (IF o.refactor THEN Moved(o) ELSE IF o.kind = "save" THEN Moved(o) \ {o.page} ELSE {})
           ELSE Ends(c) /\ UNCHANGED <<tree, untold>>
        /\ UNCHANGED <<unseen, indexes, job, counters, overlap>>

Index(c) ==
    LET o == op[c]
    IN  /\ o.at = "index"
        /\ links' = LinkEffect(o)
        /\ IF o.refactor
           THEN op' = [op EXCEPT ![c].at = IF o.rewrite THEN "load" ELSE "subtree", ![c].text = <<>>] /\ UNCHANGED <<docs, tags, untold>>
           ELSE Ends(c) /\ docs' = SearchEffect(o) /\ tags' = TagEffect(o) /\ untold' = untold \ Told(o)
        /\ UNCHANGED <<tree, unseen, job, counters, overlap>>

-----------------------------------------------------------------------------
(* Rewriting links: rewriteAffectedPages, rewritePathChangedSubtree *)

Rule(o) == [old |-> o.path, new |-> o.newPath, oldTitle |-> o.base.title, newTitle |-> o.new.title]

Rewritten(o, link, byTitle) ==
    IF IsPath(link) THEN ApplyRule(link, Rule(o))
    ELSE IF byTitle /\ TitleRule(o) /\ link = o.base.title THEN o.new.title ELSE link

\* loadPagesByID: the pages as they are now.
Load(c) ==
    /\ op[c].at = "load"
    /\ op' = [op EXCEPT ![c].at = "store", ![c].text = [p \in op[c].affected \intersect In(tree) |-> tree[p]],
                        ![c].touched = @ \intersect op[c].pages]
    /\ UNCHANGED <<tree, unseen, indexes, job, counters, overlap, untold>>

\* BulkUpdateContent has no version to check: what was loaded is written over
\* what is there, in the pages that the rules change.
Mutant_FromPlan(o) == o.seen
Base(o) == o.text

BulkUpdate(c, next, pages, body) ==
    /\ tree' = [p \in Pages |-> IF p \in pages THEN [tree[p] EXCEPT !.body = body[p]] ELSE tree[p]]
    /\ Touch(c, next, pages)
    /\ untold' = untold \union pages

\* The rows follow the rules, not the contents, and are resolved again.
Store(c) ==
    LET o == op[c]
        body == [p \in DOMAIN o.text |-> Rewritten(o, Base(o)[p].body, TRUE)]
        pages == {p \in DOMAIN o.text \intersect In(tree) : body[p] # Base(o)[p].body}
        row == [p \in Pages |-> IF links[p] = None THEN None ELSE Row(tree', Rewritten(o, links[p].to, TRUE))]
    IN  /\ o.at = "store"
        /\ BulkUpdate(c, [o EXCEPT !.at = "subtree", !.text = <<>>], pages, body)
        /\ links' = Heal([p \in Pages |-> IF p \in pages THEN row[p] ELSE links[p]], tree', pages)
        /\ UNCHANGED <<unseen, docs, tags, job, counters, overlap>>

\* The subtree is rewritten from the contents captured before anything else,
\* where that is not what the pages already hold.
LoadSubtree(c) ==
    LET o == op[c]
        final == [p \in o.pages |-> Rewritten(o, o.seen[p].body, FALSE)]
    IN  /\ o.at = "subtree"
        /\ op' = [op EXCEPT ![c].at = "fix", ![c].text = [p \in {q \in o.pages \intersect In(tree) : tree[q].body # final[q]} |-> final[p]]]
        /\ UNCHANGED <<tree, unseen, indexes, job, counters, overlap, untold>>

RewriteSubtree(c) ==
    LET o == op[c]
        pages == DOMAIN o.text \intersect In(tree)
    IN  /\ o.at = "fix"
        /\ BulkUpdate(c, [o EXCEPT !.at = "refresh", !.text = <<>>], pages, o.text)
        /\ links' = AddAndHeal(links, tree', pages, tree')
        /\ UNCHANGED <<unseen, docs, tags, job, counters, overlap>>

Refresh(c) ==
    /\ op[c].at = "refresh"
    /\ links' = AddAndHeal(links, tree, op[c].affected \intersect In(tree), tree)
    /\ Ends(c)
    /\ UNCHANGED <<tree, unseen, docs, tags, job, counters, overlap, untold>>

-----------------------------------------------------------------------------
(* Resync: runReloadPhases *)

NoJob == [at |-> "idle", alone |-> FALSE, read |-> FALSE, text |-> <<>>, left |-> {}]

\* A page file appears on disk: a restore, a pull of the backup, an editor.
FileAppears(p, draft) ==
    /\ files < MaxFiles /\ Repairable(0)
    /\ files' = files + 1
    /\ p \in Fresh
    /\ ~Sibling(tree, p, Root, draft.slug)
    /\ unseen' = [unseen EXCEPT ![p] = [up |-> Root, slug |-> draft.slug, title |-> draft.title, body |-> draft.body, tag |-> CHOOSE g \in Tags : TRUE]]
    /\ overlap' = TRUE /\ job' = [job EXCEPT !.alone = FALSE]
    /\ UNCHANGED <<tree, indexes, op, ops, resyncs, untold>>

\* A trigger while a resync runs is dropped, and is no step of its own.
TriggerResync ==
    /\ job.at = "idle" /\ resyncs < MaxResyncs /\ Room
    /\ (\E c \in Calls : Busy(c)) => Repairable(1)
    /\ resyncs' = resyncs + 1
    /\ job' = [NoJob EXCEPT !.at = "tree", !.alone = \A c \in Calls : ~Busy(c)]
    /\ overlap' = (overlap \/ \E c \in Calls : Busy(c))
    /\ UNCHANGED <<tree, unseen, indexes, op, ops, files, untold>>

Reconstruct ==
    /\ job.at = "tree"
    /\ LET seen == {p \in Pages : unseen[p] # None /\ ~Sibling(tree, p, Root, unseen[p].slug)}
       IN  /\ tree' = [p \in Pages |-> IF p \in seen THEN unseen[p] ELSE tree[p]]
           /\ unseen' = [p \in Pages |-> IF p \in seen THEN None ELSE unseen[p]]
    /\ job' = [job EXCEPT !.at = "links"]
    /\ UNCHANGED <<indexes, op, counters, overlap, untold>>

\* Each phase clears its index and reads all pages, then writes their rows
\* one page at a time, parents first, each as the tree is at that moment.
ClearAndRead ==
    /\ job.at \in {"links", "tags", "docs"} /\ ~job.read
    /\ job' = [job EXCEPT !.read = TRUE, !.text = tree, !.left = In(tree)]
    /\ links' = IF job.at = "links" THEN [p \in Pages |-> None] ELSE links
    /\ tags' = IF job.at = "tags" THEN [p \in Pages |-> None] ELSE tags
    /\ docs' = IF job.at = "docs" THEN [p \in Pages |-> None] ELSE docs
    /\ UNCHANGED <<tree, unseen, op, counters, overlap, untold>>

WriteRow(p) ==
    LET text == job.text
    IN  /\ p \in job.left /\ text[p].up \notin job.left
        /\ links' = IF job.at = "links" THEN AddLinks(links, tree, {p}, text) ELSE links
        /\ tags' = IF job.at = "tags" THEN [tags EXCEPT ![p] = text[p].tag] ELSE tags
        /\ docs' = IF job.at = "docs" THEN [docs EXCEPT ![p] = Doc(Live(text, p), p, text)] ELSE docs
        /\ job' = [job EXCEPT !.left = @ \ {p}]
        /\ UNCHANGED <<tree, unseen, op, counters, overlap, untold>>

EndPhase ==
    /\ job.read /\ job.left = {}
    /\ job' = CASE job.at = "links" -> [job EXCEPT !.at = "tags", !.read = FALSE, !.text = <<>>]
                [] job.at = "tags" -> [job EXCEPT !.at = "docs", !.read = FALSE, !.text = <<>>]
                [] job.at = "docs" -> NoJob
    /\ overlap' = (overlap /\ ~(job.at = "docs" /\ job.alone))
    /\ untold' = IF job.at = "docs" /\ job.alone THEN {} ELSE untold
    /\ UNCHANGED <<tree, unseen, indexes, op, counters>>

-----------------------------------------------------------------------------
Rebuilt(t) == [p \in Pages |-> IF p \in In(t) THEN Row(t, t[p].body) ELSE None]

Init ==
    /\ tree \in FirstTree
    /\ unseen = [p \in Pages |-> None]
    /\ links = Rebuilt(tree)
    /\ docs = [p \in Pages |-> IF p \in In(tree) THEN Doc(tree, p, tree) ELSE None]
    /\ tags = [p \in Pages |-> IF p \in In(tree) THEN tree[p].tag ELSE None]
    /\ op = [c \in Calls |-> NoOp] /\ job = NoJob
    /\ ops = 0 /\ resyncs = 0 /\ files = 0
    /\ overlap = FALSE /\ untold = {}

Next ==
    \/ \E c \in Free :
         \/ \E p \in Fresh, up \in In(tree) \union {Root}, draft \in Drafts, source \in In(tree) \union {None} : Create(c, p, up, draft, source)
         \/ \E p \in In(tree) :
              \/ \E draft \in Drafts : Save(c, p, draft)
              \/ \E up \in In(tree) \union {Root} : Move(c, p, up) \/ \E rewrite \in BOOLEAN : MoveRefactored(c, p, up, rewrite)
              \/ \E draft \in Drafts, content, rewrite \in BOOLEAN : Rename(c, p, draft, content, rewrite)
              \/ Delete(c, p)
    \/ \E c \in Calls : Write(c) \/ Index(c) \/ Load(c) \/ Store(c) \/ LoadSubtree(c) \/ RewriteSubtree(c) \/ Refresh(c)
    \/ \E p \in Fresh, draft \in Drafts : FileAppears(p, draft)
    \/ TriggerResync \/ Reconstruct \/ ClearAndRead \/ (\E p \in job.left : WriteRow(p)) \/ EndPhase

Spec == Init /\ [][Next]_vars

-----------------------------------------------------------------------------
(* Properties *)

\* Every variable keeps its shape, and no two pages share a path.
TypeOK ==
    /\ \A p \in Pages : tree[p] \in Nodes \union {None, Gone} /\ unseen[p] \in Nodes \union {None}
    /\ Cardinality({PathOf(tree, p) : p \in In(tree)}) = Cardinality(In(tree))
    /\ \A p \in Pages : links[p] # None => (links[p].page # None <=> links[p].state = "resolved")
    /\ overlap \in BOOLEAN /\ untold \subseteq Pages

Settled == Quiet /\ ~overlap

\* After any sequence of requests, and of plain saves of different pages in
\* parallel, the link rows maintained step by step are those a rebuild would
\* write (LinkIndexSideEffect); and whatever overlapped before, one resync that
\* nothing disturbs makes it so again (runReloadPhases).
LinksFollow == Settled => links = Rebuilt(tree)

\* The link panel then shows a page every link that leads to it, ambiguous
\* titles included, and no broken one; the report of broken links names those
\* that nothing answers, of pages that exist (mergeAmbiguousWikiLinksIntoBacklinks).
PanelComplete ==
    Settled =>
        /\ \A p \in In(tree) :
             /\ Backlinks(p) = {q \in In(tree) : tree[q].body \in {PathOf(tree, p), tree[p].title}}
             /\ BrokenIncoming(PathOf(tree, p)) = {}
        /\ BrokenLinks = {q \in In(tree) : tree[q].body # None /\
                            \A p \in In(tree) : tree[q].body \notin {PathOf(tree, p), tree[p].title}}

\* The same for the search documents of the pages of which every change was
\* told to the search index (SearchIndexSideEffect).
DocsFollow ==
    Settled => \A p \in Pages \ untold : docs[p] = IF p \in In(tree) THEN Doc(tree, p, tree) ELSE None

\* The same for the tag rows (TagsSideEffect).
TagsFollow == Settled => tags = [p \in Pages |-> IF p \in In(tree) THEN tree[p].tag ELSE None]

\* No two pages share a path, and every index, and what is read from it, is what
\* a rebuild from the pages gives.
IndexesFollow == TypeOK /\ LinksFollow /\ PanelComplete /\ DocsFollow /\ TagsFollow

\* A rename or move that rewrites links, alone, leaves every link into the
\* moved subtree leading to the page it led to (ApplyPageRefactorUseCase).
LinksKeepTarget ==
    [][\A c \in Calls :
         op[c].at = "refresh" /\ op'[c].at = "idle" /\ ~overlap =>
            \A g \in op[c].goal : links'[g[1]] # None /\ links'[g[1]].page = g[2]]_vars

\* What a refactoring writes is what the page holds at that moment with its
\* links rewritten, unless the page was edited between loading it and the bulk
\* update, or, in the moved subtree, after the plan (persistContentRewrites).
RewriteKeepsEdits ==
    [][\A c \in Calls, p \in Pages :
         /\ op[c].at \in {"store", "fix"} /\ op'[c].at # op[c].at
         /\ p \in In(tree) /\ p \notin op[c].touched
         => tree'[p].body \in {tree[p].body, Rewritten(op[c], tree[p].body, op[c].at = "store")}]_vars

\* The ways to write a link from one place to another, and what may stand
\* before it in the text.
Spellings(from, to) ==
    {[abs |-> TRUE, parts |-> to], Relative(from, to), [abs |-> FALSE, parts |-> [n \in DOMAIN from |-> Up] \o to]}
Noise(dest, other) ==
    {<<>>, <<[form |-> "code", dest |-> dest], [form |-> "html", dest |-> other], [form |-> "inline", dest |-> other]>>}

\* An inline link between two pages, however it is spelled, still leads from
\* where the one is to where the other is when a refactoring has moved either
\* or both, while nothing else runs, whatever stands before it except another
\* form of the same link (rewriteAffectedPages, rewritePathChangedSubtree).
\* The page may hold any text, so a rename with a new one needs no other look.
LinksSurviveMoves ==
    [][\A c \in Calls :
         Quiet /\ op'[c].refactor /\ op'[c].seen = tree /\ Allowed(op'[c]) =>
            LET o == op'[c]
                from == [q \in In(tree) |-> PathOf(tree, q)]
                at == [q \in In(tree) |-> PathOf(Written(o), q)]
                rule == Rule(o)
                After(q, text) == IF q \in o.pages THEN RewriteMoved(text, from[q], at[q], rule)
                                  ELSE RewriteAffected(text, from[q], rule)
            IN  \A q, p \in In(tree) :
                   q # p /\ (q \in o.pages \/ (o.rewrite /\ p \in o.pages)) =>
                      \A dest \in Spellings(from[q], from[p]) :
                         \A before \in Noise(dest, [abs |-> TRUE, parts |-> <<>>]) :
                            LET text == Append(before, [form |-> "inline", dest |-> dest])
                            IN  Resolve(at[q], After(q, text)[Len(text)].dest) = at[p]]_vars
=============================================================================

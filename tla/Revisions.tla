------------------------------ MODULE Revisions ------------------------------
(***************************************************************************)
(* The history of one page (internal/core/revision), with the page and its  *)
(* live assets as the saves, uploads, restores and the deletion of the page *)
(* change them.  A page's revisions, content blobs and lock are its own;    *)
(* asset blobs and manifests are shared but only ever added to, so one page *)
(* stands for all.                                                          *)
(*                                                                          *)
(* A blob is named by its hash: it is modelled by its content, a manifest   *)
(* by the function from asset names to files it lists.  Clocks advance, so  *)
(* the newest revision file is the last one written; _index.json only       *)
(* shortens the directory scan every lookup falls back to.                  *)
(***************************************************************************)
EXTENDS Naturals, Sequences, FiniteSets

CONSTANTS
    Calls,      \* requests in progress
    System,     \* the caller of the baseline recording at boot
    Bodies, Extras, Titles,  \* markdown bodies, extra frontmatter, titles
    NoExtra,    \* the extra frontmatter of a page that has none
    Names, Files, \* asset names and contents
    None,
    MaxRevs,    \* MaxRevisions, 0 for unlimited
    Coalesce,   \* is there a coalescing window
    MaxOps, MaxFaults, MaxCrashes  \* bounds: requests, failures of a restore, crashes

ASSUME RevisionsAssumption ==
    /\ System \notin Calls /\ IsFiniteSet(Calls) /\ NoExtra \in Extras
    /\ None \notin Calls \union {System} \union Files
    /\ None \notin UNION {[D -> Files] : D \in SUBSET Names}
    /\ None \notin [body : Bodies, extra : Extras, title : Titles, ver : Nat]
    /\ MaxRevs \in Nat /\ Coalesce \in BOOLEAN
    /\ MaxOps \in Nat /\ MaxFaults \in Nat /\ MaxCrashes \in Nat

VARIABLES
    page,      \* the live page, None once deleted
    live,      \* assets/<page id>: name -> file
    revs,      \* the revision files, oldest first
    blobs, files, manifests,  \* content blobs, asset blobs, asset manifests
    cache,     \* assetManifestCache of the page
    lock,      \* holder of the page's write lock
    call,      \* what each caller is doing
    ops, faults, crashes,
    disturbed, \* history: since the last boot two requests were in progress together, or a rollback failed
    crashed,   \* history: the server crashed
    restored,  \* history: a restore succeeded after cache was last set
    acked      \* history: files whose upload was answered, not swept from under it

store == <<revs, blobs, files, manifests, cache>>
history == <<disturbed, crashed, restored, acked>>
vars == <<page, live, store, lock, call, ops, faults, crashes, history>>

Callers == Calls \union {System}
Manifests == UNION {[D -> Files] : D \in SUBSET Names}
States == [body : Bodies, extra : Extras, title : Titles, ver : Nat]
RevT == [id : Nat, type : {"content", "structure", "asset", "restore"}, author : Callers,
         body : Bodies, extra : Extras, title : Titles, assets : Manifests]

\* What a caller is doing: the step it is at, and what it has in hand.
Idle == [at |-> "idle", kind |-> "none", \* the kind of revision it records
         file |-> None,                  \* the file it uploads
         id |-> None, rev |-> None,      \* the revision asked for; the one found
         old |-> None,                   \* the page as found before the change
         body |-> None, extra |-> None, title |-> None, assets |-> None,
         coalesce |-> FALSE]

Ids == {revs[i].id : i \in DOMAIN revs}
Rev(id) == revs[CHOOSE i \in DOMAIN revs : revs[i].id = id]
Newest == revs[Len(revs)]
Latest == IF revs = <<>> THEN None ELSE Newest
\* GenerateUniqueID: an id no revision has and no request speaks of.
InUse == Ids \union {call[c].id : c \in Callers}
             \union {call[c].rev.id : c \in {d \in Callers : call[d].rev # None}}
FreshId == CHOOSE n \in 0 .. Cardinality(InUse) : n \notin InUse

\* EnsureWelcomePage, then the baseline revision of a page without assets.
Init ==
    /\ \E b \in Bodies, t \in Titles :
         /\ page = [body |-> b, extra |-> NoExtra, title |-> t, ver |-> 0]
         /\ revs = <<[id |-> 0, type |-> "content", author |-> System, body |-> b,
                      extra |-> NoExtra, title |-> t, assets |-> <<>>]>>
         /\ blobs = {b}
    /\ live = <<>> /\ files = {} /\ manifests = {<<>>} /\ cache = <<>>
    /\ lock = None /\ call = [c \in Callers |-> Idle]
    /\ ops = 0 /\ faults = 0 /\ crashes = 0
    /\ disturbed = FALSE /\ crashed = FALSE /\ restored = FALSE /\ acked = {}

-----------------------------------------------------------------------------
(* Requests *)

Up == call[System] = Idle

\* A request begins as rec.
Begin(c, rec) ==
    /\ Up /\ c \in Calls /\ call[c] = Idle /\ ops < MaxOps /\ page # None
    /\ call' = [call EXCEPT ![c] = rec]
    /\ ops' = ops + 1
    /\ disturbed' = (disturbed \/ \E d \in Calls : call[d] # Idle)
    /\ UNCHANGED <<store, lock, faults, crashes, crashed, restored, acked>>

Goto(c, rec) == call' = [call EXCEPT ![c] = rec]
Return(c) == Goto(c, Idle)

\* The same, while the call holds the page's lock.
Release(c) == Return(c) /\ lock' = None

\* A directory after the files of m are written to it, and after one is removed.
Written(m, dir) ==
    [n \in DOMAIN m \union DOMAIN dir |-> IF n \in DOMAIN m THEN m[n] ELSE dir[n]]
Named(n, f) == [m \in {n} |-> f]
Without(n, dir) == [m \in DOMAIN dir \ {n} |-> dir[m]]

Records(d) == call[d].kind = "asset"

\* The files of S are swept from the directory.  One whose upload or renaming is
\* between its write and its record is lost with it.
Sweep(c, S, rec) ==
    /\ call' = [d \in Callers |->
                  IF d = c THEN rec
                  ELSE IF Records(d) /\ call[d].file \in S
                  THEN [call[d] EXCEPT !.file = None] ELSE call[d]]
    /\ acked' = IF \E d \in Callers \ {c} : Records(d) THEN acked \ S ELSE acked

-----------------------------------------------------------------------------
(* Saving a page: UpdatePage, then RevisionSideEffect *)

SaveBegin(c, b, x, t) ==
    /\ Begin(c, [Idle EXCEPT !.at = "write", !.old = page, !.body = b, !.extra = x, !.title = t])
    /\ UNCHANGED <<page, live>>

\* UpdateNode, under the version the client read; an error ends the request.
SaveWrite(c) ==
    /\ call[c].at = "write"
    /\ IF page # None /\ page.ver = call[c].old.ver
       THEN /\ page' = [body |-> call[c].body, extra |-> call[c].extra,
                        title |-> call[c].title, ver |-> page.ver + 1]
            /\ Goto(c, [Idle EXCEPT !.at = "effect", !.old = call[c].old])
       ELSE Return(c) /\ UNCHANGED page
    /\ UNCHANGED <<live, store, lock, ops, faults, crashes, history>>

\* contentChanged: the bodies read before and after the write.
ContentChanged(old) == old.body # page.body

\* The page is read again; then Apply for an update.
SaveEffect(c) ==
    /\ call[c].at = "effect"
    /\ LET old == call[c].old IN
       IF page = None \/ (~ContentChanged(old) /\ old.title = page.title) THEN Return(c)
       ELSE IF ContentChanged(old) THEN Goto(c, [Idle EXCEPT !.at = "content"])
       ELSE Goto(c, [Idle EXCEPT !.at = "lock", !.kind = "structure"])
    /\ UNCHANGED <<page, live, store, lock, ops, faults, crashes, history>>

\* RecordContentUpdate reads the page before it has the lock.
ContentRead(c) ==
    /\ call[c].at = "content"
    /\ IF page = None THEN Return(c)
       ELSE Goto(c, [Idle EXCEPT !.at = "lock", !.kind = "content", !.body = page.body])
    /\ UNCHANGED <<page, live, store, lock, ops, faults, crashes, history>>

-----------------------------------------------------------------------------
(* Recording, under the page's lock *)

\* What the revision is made of: the body as read by the caller or now, the
\* extra frontmatter and the title now, the live assets for an asset change.
Captured(c) ==
    [call[c] EXCEPT !.at = "blob", !.rev = Latest, !.extra = page.extra, !.title = page.title,
                    !.body = IF call[c].kind = "content" THEN @ ELSE page.body,
                    !.assets = IF call[c].kind = "asset" THEN live ELSE None]

Unchanged(s) ==
    /\ s.rev # None
    /\ \/ s.kind = "content" /\ s.rev.body = s.body /\ s.rev.extra = s.extra
       \/ s.kind = "asset" /\ s.rev.body = s.body /\ s.rev.assets = s.assets

\* shouldCoalesce, when the window has not passed.
MayCoalesce(c, s) ==
    /\ Coalesce /\ s.kind = "content"
    /\ s.rev # None /\ s.rev.type = "content" /\ s.rev.author = c

\* An upload is answered whether or not its record was written.
Acks(c) == acked' = acked \union ({call[c].file} \ {None})

Acquire(c) ==
    /\ call[c].at = "lock" /\ lock = None
    /\ LET s == Captured(c) IN
       IF page = None \/ Unchanged(s)
       THEN Return(c) /\ Acks(c) /\ UNCHANGED lock
       ELSE /\ lock' = c
            /\ \E k \in BOOLEAN :
                 /\ k => MayCoalesce(c, s)
                 /\ Goto(c, [s EXCEPT !.coalesce = k])
            /\ UNCHANGED acked
    /\ UNCHANGED <<page, live, store, ops, faults, crashes, disturbed, crashed, restored>>

SaveBlob(c) ==
    /\ call[c].at = "blob"
    /\ blobs' = blobs \union {call[c].body}
    /\ Goto(c, [call[c] EXCEPT !.at = IF call[c].kind = "asset" THEN "persist" ELSE "manifest"])
    /\ UNCHANGED <<page, live, revs, files, manifests, cache, lock, ops, faults, crashes, history>>

\* resolveAssetManifestHash: the cache, the previous revision, or a scan.
ResolveManifest(c) ==
    /\ call[c].at = "manifest"
    /\ LET m == IF cache # None THEN cache ELSE IF call[c].rev # None THEN call[c].rev.assets ELSE None IN
       IF m # None
       THEN cache' = m /\ Goto(c, [call[c] EXCEPT !.at = "revise", !.assets = m])
       ELSE Goto(c, [call[c] EXCEPT !.at = "persist", !.assets = live]) /\ UNCHANGED cache
    /\ UNCHANGED <<page, live, revs, blobs, files, manifests, lock, ops, faults, crashes, history>>

\* The asset blobs a manifest needs.
BlobsOf(m) == {m[n] : n \in DOMAIN m}

\* persistLiveAssets re-reads every file: one that changed since the scan fails it.
Persist(c) ==
    /\ call[c].at = "persist"
    /\ LET m == call[c].assets IN
       IF \A n \in DOMAIN m : n \in DOMAIN live /\ live[n] = m[n]
       THEN /\ files' = files \union BlobsOf(m) /\ manifests' = manifests \union {m}
            /\ cache' = m /\ restored' = FALSE
            /\ Goto(c, [call[c] EXCEPT !.at = "revise"])
            /\ UNCHANGED <<lock, acked>>
       ELSE Release(c) /\ Acks(c) /\ UNCHANGED <<files, manifests, cache, restored>>
    /\ UNCHANGED <<page, live, revs, blobs, ops, faults, crashes, disturbed, crashed>>

NewRev(c, s) ==
    [id |-> FreshId, type |-> s.kind, author |-> c, body |-> s.body,
     extra |-> s.extra, title |-> s.title, assets |-> s.assets]

\* SaveRevision, or UpdateRevision of the one that is coalesced.
Revise(c) ==
    /\ call[c].at = "revise"
    /\ LET s == call[c] IN
       IF ~s.coalesce
       THEN revs' = Append(revs, NewRev(c, s)) /\ Goto(c, [s EXCEPT !.at = "tidy"]) /\ UNCHANGED lock
       ELSE IF s.rev.id \in Ids
       THEN /\ revs' = [revs EXCEPT ![Len(revs)] = [NewRev(c, s) EXCEPT !.id = s.rev.id]]
            /\ Goto(c, [s EXCEPT !.at = "tidy"]) /\ UNCHANGED lock
       ELSE Release(c) /\ UNCHANGED revs
    /\ UNCHANGED <<page, live, blobs, files, manifests, cache, ops, faults, crashes, history>>

Mutant_AllOld(b) == {b}

\* DeleteContentBlobIfUnreferenced
Unreferenced(b) == {b} \ {revs[i].body : i \in DOMAIN revs}

\* The old blob of a coalesced revision goes, or the revisions beyond the limit do.
Tidy(c) ==
    /\ call[c].at = "tidy"
    /\ IF call[c].coalesce
       THEN /\ blobs' = IF call[c].rev.body = call[c].body THEN blobs
                        ELSE blobs \ Unreferenced(call[c].rev.body)
            /\ UNCHANGED revs
       ELSE /\ revs' = IF MaxRevs = 0 \/ Len(revs) <= MaxRevs THEN revs
                       ELSE SubSeq(revs, Len(revs) - MaxRevs + 1, Len(revs))
            /\ UNCHANGED blobs
    /\ Release(c) /\ Acks(c)
    /\ UNCHANGED <<page, live, files, manifests, cache, ops, faults, crashes, disturbed, crashed, restored>>

-----------------------------------------------------------------------------
(* Assets: AssetService under its own lock, then RecordAssetChange *)

UploadBegin(c, f) ==
    /\ f \notin files \union BlobsOf(live) \union acked
    /\ Begin(c, [Idle EXCEPT !.at = "upload", !.file = f])
    /\ UNCHANGED <<page, live>>

Mutant_Overwrites(c, n) ==
    /\ call[c].at = "upload"
    /\ live' = Written(Named(n, call[c].file), live)
    /\ Goto(c, [call[c] EXCEPT !.at = "lock", !.kind = "asset"])
    /\ UNCHANGED <<page, store, lock, ops, faults, crashes, history>>

\* SaveAssetForPage under a name no other asset of the page has.
UploadWrite(c, n) ==
    /\ call[c].at = "upload" /\ n \notin DOMAIN live
    /\ live' = Written(Named(n, call[c].file), live)
    /\ Goto(c, [call[c] EXCEPT !.at = "lock", !.kind = "asset"])
    /\ UNCHANGED <<page, store, lock, ops, faults, crashes, history>>

AssetCall(c) ==
    /\ Up /\ c \in Calls /\ call[c] = Idle /\ ops < MaxOps /\ page # None
    /\ ops' = ops + 1
    /\ disturbed' = (disturbed \/ \E d \in Calls : call[d] # Idle)
    /\ UNCHANGED <<page, store, lock, faults, crashes, crashed, restored>>

DeleteAsset(c, n) ==
    /\ AssetCall(c) /\ n \in DOMAIN live
    /\ live' = Without(n, live)
    /\ Sweep(c, {live[n]}, [Idle EXCEPT !.at = "lock", !.kind = "asset"])

RenameAsset(c, n, new) ==
    /\ AssetCall(c) /\ n \in DOMAIN live /\ new \notin DOMAIN live
    /\ live' = Written(Named(new, live[n]), Without(n, live))
    /\ Goto(c, [Idle EXCEPT !.at = "lock", !.kind = "asset"]) /\ UNCHANGED acked

-----------------------------------------------------------------------------
(* RestoreRevision *)

RestoreBegin(c, id) ==
    /\ id \in Ids
    /\ Begin(c, [Idle EXCEPT !.at = "r_lock", !.id = id])
    /\ UNCHANGED <<page, live>>

\* The revision, then its blob and manifest, then the state before.
RestoreRead(c) ==
    /\ call[c].at = "r_lock" /\ lock = None
    /\ IF call[c].id \in Ids /\ Rev(call[c].id).body \in blobs /\ Rev(call[c].id).assets \in manifests /\ page # None
       THEN /\ lock' = c
            /\ Goto(c, [Idle EXCEPT !.at = "r_write", !.rev = Rev(call[c].id), !.old = page, !.assets = live])
       ELSE Return(c) /\ UNCHANGED lock
    /\ UNCHANGED <<page, live, store, ops, faults, crashes, history>>

\* buildRestoredRawContent: without extra frontmatter the page keeps what it has.
Rewritten(s) == [page EXCEPT !.body = s.body, !.title = s.title, !.ver = @ + 1,
                             !.extra = IF s.extra = NoExtra THEN @ ELSE s.extra]

RestoreWrite(c) ==
    /\ call[c].at = "r_write"
    /\ IF page = None THEN Release(c) /\ UNCHANGED page
       ELSE /\ page' = Rewritten(call[c].rev)
            /\ Goto(c, [call[c] EXCEPT !.at = "r_clear"]) /\ UNCHANGED lock
    /\ UNCHANGED <<live, store, ops, faults, crashes, history>>

\* restoreAssets removes the directory, without the lock of AssetService.
Clear(c, next) ==
    /\ live' = <<>>
    /\ Sweep(c, BlobsOf(live), [call[c] EXCEPT !.at = next])
    /\ UNCHANGED <<page, store, lock, ops, faults, crashes, disturbed, crashed, restored>>

RestoreClear(c) == call[c].at = "r_clear" /\ Clear(c, "r_copy")

\* An error, from a lost blob or the disk, sends a restore to its rollback.
Fails(c) == faults < MaxFaults /\ faults' = faults + 1 /\ Goto(c, [call[c] EXCEPT !.at = "undo"])

RestoreCopy(c) ==
    /\ call[c].at = "r_copy"
    /\ LET m == call[c].rev.assets IN
       \/ /\ BlobsOf(m) \subseteq files
          /\ live' = Written(m, live)
          /\ Sweep(c, BlobsOf([n \in DOMAIN m \intersect DOMAIN live |-> live[n]]), [call[c] EXCEPT !.at = "r_record"])
          /\ UNCHANGED faults
       \/ Fails(c) /\ UNCHANGED <<live, acked>>
    /\ UNCHANGED <<page, store, lock, ops, crashes, disturbed, crashed, restored>>

\* recordRestoreRevision; it neither prunes nor renews the cached manifest.
RestoreRecord(c) ==
    /\ call[c].at = "r_record"
    /\ \/ /\ page # None
          /\ blobs' = blobs \union {page.body} /\ files' = files \union BlobsOf(live)
          /\ manifests' = manifests \union {live}
          /\ revs' = Append(revs, [id |-> FreshId, type |-> "restore", author |-> c, body |-> page.body,
                                   extra |-> page.extra, title |-> page.title, assets |-> live])
          /\ restored' = TRUE /\ Release(c)
          /\ UNCHANGED faults
       \/ Fails(c) /\ UNCHANGED <<blobs, files, manifests, revs, lock, restored>>
       \/ /\ page = None /\ Goto(c, [call[c] EXCEPT !.at = "undo"])
          /\ UNCHANGED <<faults, blobs, files, manifests, revs, lock, restored>>
    /\ UNCHANGED <<page, live, cache, ops, crashes, disturbed, crashed, acked>>

Mutant_UndoNothing(s) == page

\* The rollback's UpdateNode, under no version either.
UndoTo(s) == IF page = None THEN None ELSE Rewritten(s)

\* A rollback that fails is only logged; what it had left to do goes on.
RollbackFails == faults < MaxFaults /\ faults' = faults + 1 /\ disturbed' = TRUE

Undo(c) ==
    /\ call[c].at = "undo"
    /\ \/ page' = UndoTo(call[c].old) /\ UNCHANGED <<faults, disturbed>>
       \/ RollbackFails /\ UNCHANGED page
    /\ Goto(c, [call[c] EXCEPT !.at = "u_clear"])
    /\ UNCHANGED <<live, store, lock, ops, crashes, crashed, restored, acked>>

UndoClear(c) == call[c].at = "u_clear" /\ Clear(c, "u_copy")

\* Files never persisted cannot be copied back; the copy stops at the first,
\* and wherever the disk fails.
UndoCopy(c) ==
    /\ call[c].at = "u_copy"
    /\ LET m == call[c].assets IN
       \E S \in SUBSET DOMAIN m :
         /\ \A n \in S : m[n] \in files
         /\ \/ (BlobsOf(m) \subseteq files => S = DOMAIN m) /\ UNCHANGED <<faults, disturbed>>
            \/ RollbackFails
         /\ live' = Written([n \in S |-> m[n]], live)
         /\ Sweep(c, BlobsOf([n \in S \intersect DOMAIN live |-> live[n]]), Idle)
    /\ lock' = None
    /\ UNCHANGED <<page, store, ops, crashes, crashed, restored>>

-----------------------------------------------------------------------------
(* Reading a revision: no lock between the revision and its blobs *)

ReadBegin(c, id) ==
    /\ id \in Ids
    /\ Begin(c, [Idle EXCEPT !.at = "read", !.rev = Rev(id)])
    /\ UNCHANGED <<page, live>>

\* GetRevisionSnapshot and GetRevisionAsset answer, or say it is unavailable.
Available(r) == r.body \in blobs /\ r.assets \in manifests /\ BlobsOf(r.assets) \subseteq files

Read(c) ==
    /\ call[c].at = "read"
    /\ IF Available(call[c].rev) THEN Return(c) ELSE Goto(c, [call[c] EXCEPT !.at = "unavailable"])
    /\ UNCHANGED <<page, live, store, lock, ops, faults, crashes, history>>

ReadFails(c) ==
    /\ call[c].at = "unavailable" /\ Return(c)
    /\ UNCHANGED <<page, live, store, lock, ops, faults, crashes, history>>

-----------------------------------------------------------------------------
(* DeletePage: the tree, then the assets, then the revisions, without the lock *)

DeleteTree(c) ==
    /\ Begin(c, [Idle EXCEPT !.at = "d_assets"])
    /\ page' = None
    /\ UNCHANGED live

DeleteAssets(c) ==
    /\ call[c].at = "d_assets"
    /\ live' = <<>> /\ Sweep(c, BlobsOf(live), [Idle EXCEPT !.at = "d_revs"])
    /\ UNCHANGED <<page, store, lock, ops, faults, crashes, disturbed, crashed, restored>>

Emptied == <<>>

DeleteRevisions(c) ==
    /\ call[c].at = "d_revs"
    /\ revs' = Emptied /\ cache' = None
    /\ Return(c)
    /\ UNCHANGED <<page, live, blobs, files, manifests, lock, ops, faults, crashes, history>>

-----------------------------------------------------------------------------
(* Crash, and the baseline recording before the server serves again *)

Baseline == IF page = None THEN Idle ELSE [Idle EXCEPT !.at = "content"]

Restart ==
    /\ crashes < MaxCrashes /\ crashes' = crashes + 1
    /\ call' = [c \in Callers |-> IF c = System THEN Baseline ELSE Idle]
    /\ lock' = None /\ cache' = None
    /\ disturbed' = FALSE /\ crashed' = TRUE
    /\ UNCHANGED <<page, live, revs, blobs, files, manifests, ops, faults, restored, acked>>

-----------------------------------------------------------------------------

Step(c) ==
    \/ SaveWrite(c) \/ SaveEffect(c) \/ ContentRead(c)
    \/ Acquire(c) \/ SaveBlob(c) \/ ResolveManifest(c) \/ Persist(c) \/ Revise(c) \/ Tidy(c)
    \/ \E n \in Names : UploadWrite(c, n)
    \/ RestoreRead(c) \/ RestoreWrite(c) \/ RestoreClear(c) \/ RestoreCopy(c) \/ RestoreRecord(c)
    \/ Undo(c) \/ UndoClear(c) \/ UndoCopy(c)
    \/ Read(c) \/ ReadFails(c)
    \/ DeleteAssets(c) \/ DeleteRevisions(c)

Request(c) ==
    \/ \E b \in Bodies, x \in Extras, t \in Titles : SaveBegin(c, b, x, t)
    \/ \E f \in Files : UploadBegin(c, f)
    \/ \E n \in Names : DeleteAsset(c, n)
    \/ \E n, m \in Names : RenameAsset(c, n, m)
    \/ \E id \in Ids : RestoreBegin(c, id) \/ ReadBegin(c, id)
    \/ DeleteTree(c)

Next == Restart \/ \E c \in Callers : Step(c) \/ Request(c)

Spec == Init /\ [][Next]_vars

-----------------------------------------------------------------------------

TypeOK ==
    /\ page \in States \union {None} /\ live \in Manifests
    /\ revs \in Seq(RevT) /\ blobs \subseteq Bodies /\ files \subseteq Files
    /\ manifests \subseteq Manifests /\ cache \in Manifests \union {None}
    /\ lock \in Callers \union {None} /\ lock # None => call[lock] # Idle
    /\ acked \subseteq Files

\* CheckRevisionIntegrity (service.go:467) finds nothing, in any state: a
\* revision's content blob, manifest and asset blobs are written before it and
\* outlive it, through coalescing and its collection, pruning, failed records,
\* a deletion of the page under way and a crash at any step.
Intact == \A i \in DOMAIN revs : Available(revs[i])

\* A reader is told that a revision is unavailable only if the one it found has
\* since been coalesced, pruned or deleted: asking again answers.
MissesOnlyReplaced ==
    \A c \in Calls : Read(c) /\ call'[c] # Idle => \A i \in DOMAIN revs : revs[i] # call[c].rev

Quiet == \A c \in Callers : call[c] = Idle

\* When nothing is in progress, no two requests met and no rollback failed, the
\* newest revision holds the body of the page: also after a crash between a save and its record, which
\* the baseline recording at boot makes up for.
LatestHasBody ==
    Quiet /\ ~disturbed /\ page # None => revs # <<>> /\ Newest.body = page.body

\* Without a crash it also holds the title, and the assets unless a restore has
\* left an older manifest in the cache.
LatestHasRest ==
    Quiet /\ ~disturbed /\ ~crashed /\ page # None =>
        Newest.title = page.title /\ (restored \/ Newest.assets = live)

\* An upload that was answered can be served or recovered from the history,
\* whatever else ran: only a crash, or a restore or a deletion that falls between
\* the write of an asset and its record, can lose it.
UploadsKept == crashed \/ page = None \/ acked \subseteq files \union BlobsOf(live)

\* A page deleted with no request beside it, nor a failed rollback before it,
\* leaves nothing behind.
DeletedLeavesNothing ==
    Quiet /\ ~disturbed /\ ~crashed /\ page = None => revs = <<>> /\ live = <<>>

\* A restore that met no other request ends with the revision's body, title and
\* assets, or with those it found, unless its rollback fails too.
RestoreEnds(c) ==
    /\ lock = c /\ lock' = None /\ ~disturbed' /\ ~crashed'
    /\ call[c].at \in {"r_record", "u_copy"}

RestoreAllOrNothing == [][\A c \in Calls : RestoreEnds(c) =>
    \/ /\ call[c].at = "r_record" /\ page'.body = call[c].rev.body /\ page'.title = call[c].rev.title
       /\ live' = call[c].rev.assets
    \/ /\ call[c].at = "u_copy" /\ page'.body = call[c].old.body /\ page'.title = call[c].old.title
       /\ live' = call[c].assets]_vars

\* The history is complete, follows the page and goes with it, in every state.
HistorySound == TypeOK /\ Intact /\ LatestHasBody /\ LatestHasRest /\ DeletedLeavesNothing

\* Every step leads to such a state, and a reader only misses a revision that is
\* no longer the one it found.
HistoryKept == [][HistorySound' /\ MissesOnlyReplaced]_vars
==============================================================================

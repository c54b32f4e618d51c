# LeafWiki: a formal model

TLA+ modules for the backend of LeafWiki, the TLC configurations that check them and the proofs about
them. LeafWiki keeps a wiki as Markdown files; a Go server holds the page tree in memory, derives
search, link, tag and property indexes from the files, and can replace its whole data directory from a
snapshot while it runs.

## The system

| Component | State | Operations | What is hard | What makes it correct |
|---|---|---|---|---|
| live restore (`internal/restore`) | job, write gate, staged/live/pre-restore items, suspended stores | trigger, extract, drain, pause, swap, reload, commit, roll back | every step can fail; requests, logins and other triggers race it; the process can stop | all or nothing; no mixed data outside the gate; no original lost; it ends |
| page tree (`internal/core/tree`) | nodes, child slices, slug and title indexes; files, order files | create, restore, ensure path, delete, update, convert, move, sort, pin, bulk rewrite, load, reconstruct | several files per operation, each of which may fail, and rollbacks that may fail too; a lock-free scan | memory and disk agree; the tree stays a tree; versions change with content |
| tree migrations (`internal/core/treemigration`) | schema.json, tree.json, the files of the pages | five migrations, each over every page; the walk of every boot | a stop anywhere, then the next start; files nobody expected | the old tree is what the new version serves, at this start and every later one |
| page use cases (`internal/wiki/pages`, `pagesave`) | none of their own | create, copy, update, move, delete, refactor, each followed by the side effects | effects run after the lock is released, on some of the pages that changed | indexes follow the tree; links keep their target; edits are kept |
| indexes (`internal/search`, `links`, `tags`, `properties`) | one SQLite file each | update per page, heal, mark broken, clear and rebuild | rebuilt while being updated; titles, paths and ambiguity | what a rebuild from the pages gives |
| resync (`internal/wiki`) | job, reload mutex | trigger, phases | runs beside requests | repairs whatever overlapped |
| revisions and assets (`internal/core/revision`, `assets`) | revision files, content and asset blobs, manifests, a cache of them; live assets | record, coalesce, prune, restore, read, delete; upload, rename, delete | state captured before the page lock; collection of blobs; a restore of several steps | complete history that follows the page; no answered upload lost; a restore is all or nothing |
| git backup (`internal/backup`) | .git, remote branch, settings, status, one scheduler | cycle, pull, force push, reconfigure, disable, boot | edits and other committers between any two steps; a first contact cut short | no edit lost either way; success means stored |
| importer (`internal/importer`) | one persisted plan, its workspace | upload, plan, start, cancel, clear, resume | crash between any two writes; edits meanwhile | overwrites nobody's text; the result is true; it ends |
| snapshots (`internal/snapshot`) | running flag, zips with sidecars | run, schedule, trigger, prune, list, delete, download | files move under the walk; two files per snapshot; crash and panic | the list is whole; retention takes the oldest; a trigger is honoured |
| authentication (`internal/core/auth`) | the account's row, sessions.db, attempt counters, bound user store | login, TOTP, refresh, revoke, set-up, password changes | checks and writes in separate statements; the user store is swapped by a restore | only a call that a revocation overtook outlives it; a code is used once; guesses are bounded |
| e-mail tokens (`email_token_service.go`) | email_tokens.db | issue, resolve, consume for invites and resets | resolve and consume are two statements | a token sets one password |
| accounts (`user_service.go`, `user_store.go`) | users.db | create, update, delete, remote users | checks made with queries before the write | unique names; an admin remains |
| API keys, proxy sign-in, labels (`apikey_service.go`, `middleware/auth`, `user_resolver.go`) | api_keys.db, a cache of names | create, use, revoke; sign in by header; look up, reload | key and owner are read in two statements; a reload reads before it locks | a key never acts above its owner; names shown are names |
| preferences (`internal/favorites`, `usersettings`, `branding`, `publicaccess`, `core/settings`) | rows, JSON files with a copy in memory, image files | add, remove, change, upload, delete with page or user | several writes per change; deletions meanwhile | rows do not outlive their owners; no change is lost; the named image exists |
| share links, HTTP layer, command line, UI | | | | not modelled, see below |

The layers call downwards: `cmd/leafwiki` builds `internal/wiki.Wiki`, whose use cases call the tree,
then run the side effects on the same goroutine. A restore reaches across: it engages the write gate
(HTTP middleware), suspends the user store and every state store, renames files under `root/`, `assets/`
and the databases, reloads the settings services, and triggers a resync, whose first phase replaces the
page tree. Goroutines of their own are the restore, the resync, the import, the schedulers of snapshots
and backup, and the boot of the backup; everything else runs in requests.

## Modules

| Module | Models | Role |
|---|---|---|
| `Restore` | `internal/restore` and what it does to `AuthService`, the stores and the requests | detailed model |
| `PageTree` | what `TreeService` promises | abstract model |
| `PageTreeDisk` | `TreeService` with `NodeStore`: every file operation and rollback | implements `PageTree!TreeSpec` |
| `Migration` | `LoadTree` at boot with `treemigration` and the reconstruction walk | sequential, cut short and started again |
| `LinkRewrite` | `link_refactor.go`, `markdown/links.go`: destinations and texts rewritten | operators without state |
| `Indexing` | page requests, their side effects on links, search and tags, refactorings, the resync | extends `LinkRewrite` |
| `Revisions` | `revision.Service`, `FSStore`, `AssetService` for one page | calls that interleave between their steps |
| `Backup` | `backup.Manager`, `Scheduler`, `Repository`, the remote and its other committers | workers that interleave |
| `Importer` | `ImporterService`, `PlanStore`, `Executor`, `Planner`, link targets | an execution, requests, crashes |
| `SnapshotShelf` | what the snapshots promise | abstract model |
| `Snapshot` | `snapshot.Manager`, `Scheduler`, `createSnapshot`, the administrators' routes | implements `SnapshotShelf!Spec` |
| `Sessions` | one account: `AuthService`, `SessionManager`, `SessionStore`, the attempt counter, `EmailTokenService`, and the use cases that set passwords | calls that interleave between their statements |
| `Accounts` | the table of accounts: `UserService` and the constraints of `UserStore` | calls that interleave between check and write |
| `Access` | API keys, the proxy's users, the label cache | extends `Accounts` |
| `Preferences` | favourites, user settings, branding, instance flags | calls that interleave; failing writes |
| `RestoreProofs`, `RevisionsProofs`, `BackupProofs`, `SnapshotProofs`, `SessionsProofs`, `AccessProofs`, `PageTreeProofs`, `ImporterProofs` | | theorems, each about the module it is named for; `AccessProofs` also about `Accounts`, `RestoreProofs` in its last part about `Preferences`, `PageTreeProofs` about `PageTree` and `PageTreeDisk` |
| `MCRestore`, `MCPageTree`, ... | | one instance for TLC each, named for its module |

In every module with requests, a call is a record: the step it is at and what it has read; one action is
one statement, file write or critical section of the code, and what a call reads it uses later, as the
code does. The bound of each run is a constant whose comment says `bound`, and stands in a guard of the
actions that begin something, so that what has begun runs to its end. That is also why every run has
`CHECK_DEADLOCK FALSE`: the system stops when its clients do.

### Restore

An item is one entry of `swapNames`: a directory, `users.db`, a state database or a settings file. Its
content is a model value: the original of the run (`base`), the restored one, empty, or absent. `live`
and `pre` are what is at `livePath` and `preRestore`; `staged`, `moved` and `swapped` are the fields of
`swapItem`. The goroutine of `runFromZipPath` is a program counter `pc` with one action per call that can
fail or that others can observe: `Prepare`, `Engage`, `Drain`, `PauseStore`, `CleanSidecars`, `MoveAside`,
`MoveIn`, `Reopen`, `ReplaceUserStore`, `InvalidateSessions`, `ReplaceStore`, `ReloadSettings`,
`CommitAll`, `Disengage`, `Succeed`, and for failures `PauseForRollback`, `RollbackRemove`,
`RollbackRename`, `ReopenStore`. Loops over items and stores are sets of what is left (`todo`), so that
the order does not matter where the code's order does not. `Panic` can happen at any step. Requests pass
the gate in `TryEnter` and `Leave`; two callers of `TriggerRestore` are two steps each, because the code
uses two lock sections; `LoginRead` and `LoginIssue` are the two database accesses of `Login`. `Restart`
stops the process anywhere and boots it again, which creates the stores' missing files.

| Run | Bounds | Shows |
|---|---|---|
| `restore` | a directory, users.db, a state database, a settings file and a database whose store is switched off, of which a snapshot holds up to three; one restore, a restart, one request, one client, one caller; 1.0 million states, 100 s | six properties: it ends, serves again, all or nothing, safe at every step, no foreign log, no session from before |

`SwapIsSafe` is what holds at every moment: originals are on disk until the commit, no file is renamed
under an open store, no writer runs that the drain waited for, mixed data is behind the gate.
`AllOrNothing` is what holds at the end. Three items of different kinds are every kind of step, and a swap
that fails in the middle has one item before and one behind it; which three is chosen by the run.
`NoForeignLog` needs a database that no store has open, since a store that is closed leaves no log;
`NoSessionFromBefore` needs a client and the two steps of `Login`. Its history variable `spared` is the
set of clients that were between these steps when the sessions were revoked, or of all clients when the
revocation failed, which the restore only logs. A second restore, which
starts from the orphans, gate and stores the first left behind, is covered by the proofs, which hold for
any number of restores, except for `RestoreEnds`. `ServesAgain` leaves room for a restore that started over
one that ended in an intervention (see Observed), which the history variable `forced` records until the
next boot; within the run no restore can.

The run assumes weak fairness of the restore's own goroutine (`RestoreStep`): the code starts it with
`go` and it waits for nothing but the drain, which has a timeout. Requests, callers and restarts are not
fair.

### The page tree

`PageTree` holds the tree as one record: the set of nodes, parent pointers, child slices, slugs, kinds,
versions, pins and the child slug index. Its operators are the in-memory half of each operation
(`Created`, `Deleted`, `Renamed`, `Moved`, `Reindexed`, ...), its actions what a caller sees: an operation
takes effect as a whole or not at all, except that a page that was to receive a child may have become a
section. `TreeOK` says that the result is a tree: parents and slices agree, siblings have different
slugs, only sections have children, every node hangs below the root, and the index is what a rebuild
gives.

`PageTreeDisk` adds the directories, Markdown files and order files. A file operation yields a set of
outcomes (a tree, a disk, whether it returned an error); an operation of `NodeStore` and of `TreeService`
is the composition of the outcomes of its calls, early returns and rollbacks included, and one step,
since it runs under the lock. `Failing` and `MaxFaults` say which kinds of file operation may fail and
how often; a `RemoveAll` that fails may have removed any of the files and folders below. `Restart` is `LoadTree`, which walks the files (`Load`: index files first, ids from the
frontmatter, missing index files created, duplicate ids skipped, duplicate slugs an error, then the order
files); a resync walks in the same steps without the lock, `BeginScan` and one `ScanOn` for each directory
entry or order file it comes to, each on the disk as it is by then, and `SwapTree` takes the lock and puts
the tree it read in place. The history variable `missed` says that an operation came between, or that the
resync itself changed the disk, `unmoved` which pages have stayed where they are since it began.
The tree, as `PageTree` sees it, is the same variable, so the refinement mapping is the identity.

A page is its id, its version, its body (the number of the operation that wrote it) and its pin. Titles,
ignore files and the other frontmatter keys are left out. The reports of an operation to its caller are
left out too: a state is the same whether the caller was told of an order file that could not be saved.

| Run | Bounds | Shows |
|---|---|---|
| `pagetree_order` | 2 pages, 2 slugs, 3 operations, 1 restart or resync, 1 failing order file; 0.3 million states, 115 s | the tree is what a restart would read (`MatchesDisk`); a resync finds every page that stays where it is (`UnmovedAreRead`) |
| `pagetree_faults` | 3 pages, 2 slugs, 3 operations, any 2 failing file operations, no reload; 0.1 million states, 80 s | tree well formed, no file lost or out of its place (`PagesKept`); content and version move together (`VersionTracksContent`); refinement (`TreeSpec`) |

Three pages are a node with a parent and a child, or two siblings under a third; `EnsurePagePath` makes
two of them in one operation, so three operations reach a move or a sort in a populated tree. Two slugs
are enough for a collision and for a free name. Two faults are a failing operation whose rollback fails.
The two runs share out what is costly together: the reading of a resync entry by entry needs only a page
that moves and one that stays, with every operation at each point of it; failing renames and removals
need the third page. A resync begins only while an operation is still to come, since without one it is a
restart.

`PagesKept` says which failures it leaves room for. A page whose file is where the tree has it loses that file only
with the page or one above it. The file leaves its place only where a step fails and so does what undoes
it, or where a folder left by an earlier failure stands beside the file and is in the way of the undo; a deletion
that fails part way, and a section that is being folded back, are not undone at all. A page that has lost
its place in this way has its file under another page's folder, and goes with that page (see Observed). An update with a new
slug writes the content first, and when the rename fails leaves it under the old version: `RenameFails` is the
only exception of `VersionTracksContent`.

The runs bound the number of operations, so the system stops at the bound and deadlock is not checked.
No liveness is claimed of the page tree: it acts only when called.

### Migration

A place is a slug under its parent, with what may lie there: a file, a directory, an index, an order
file, each with the identifier and time it carries. `Load` is `TreeService.LoadTree` as a program counter:
read the schema, read tree.json, run the migrations of the versions in between, each page by page and
each write a step, save the schema after each, then walk the directories (`ReconstructTreeFromFS`),
inventing identifiers and writing them back. `Stop` ends it anywhere, also inside the write of
schema.json, which is not atomic (`TearSchema`).

| Run | Bounds | Shows |
|---|---|---|
| `migration` | the places a, b, s, s/x, s/y with files, folders, both, neither, broken or copied; versions 0, 3, 5 and an unknown one; tree.json kept, lost or unreadable; 3 starts; 0.9 million states, 85 s | `TreeStays`, `ServesInTheEnd` |

From version 0 every migration runs, from 3 those that write metadata into sections and order files, at 5
none, and 6 is refused. `TreeStays` is what the old tree.json said against what is served, and what was served
first against every later start. `ServesInTheEnd` assumes weak fairness of `Load`: it is the boot itself,
and the data directories it excludes are those under Observed.

### Pages and indexes

`LinkRewrite` holds the algorithm: how a destination is resolved, rewritten under a rule, made relative
from a page that moves, and how the n-th link of the parsed text is matched with the n-th in the raw
text. `Indexing` has the tree with one link per page, and for each request `Write` (the change under the
lock) and `Index` (what the side effects do to links, search and tags, healing and breaking the links of
other pages included; a delete of one page breaks links to its very path, a recursive one those below it
too). A refactoring, which may bring new text with its rename, goes on with `Load`, `Store` and `Refresh`
for the pages that link to it, and with `LoadSubtree` and `RewriteSubtree` for its own subtree, whose pages
are read in one critical section and written in another. The resync is `TriggerResync`, `Reconstruct`,
`ClearAndRead` and one `WriteRow` for each page, parents first, with requests between any two.

| Run | Bounds | Shows |
|---|---|---|
| `indexing_rebuild` | a page with a child and a third page, 2 slugs, 3 titles, one of which is ambiguous, 4 drafts, 3 first trees (the child links to the third page, or the third to the child by path or by title); 2 requests at a time, 3 requests, files or resyncs in all; 0.5 million states, 115 s | `IndexesFollow`, `LinksKeepTarget`, `RewriteKeepsEdits`, `LinksSurviveMoves` |

`IndexesFollow` compares every index with a rebuild; it claims nothing while requests overlap (`overlap`)
or of pages that a request changes without telling (`untold`, see Observed), and everything again after
an undisturbed resync. `LinksSurviveMoves` asks, at every refactoring the run begins, of every pair of
pages, every spelling of a link between them and every kind of text before it, whether `LinkRewrite`
leaves the link at the same page. New text of a rename makes no difference to it and is left out there.

### Revisions

One page: its content, the live assets, the revisions in order, blobs and manifests by content, the
manifest cache and the page's lock. A call has the same fields at every step, those it does not use at
`None`: what it was asked, the page it found before the change (`old`), the revision it reads or replaces
(`rev`), the state it is to record, the file it uploads. A save is `SaveBegin`, `SaveWrite` and its effect (`ContentRead` or
the structure change), then `Acquire`, `SaveBlob`, `ResolveManifest`, `Persist`, `Revise`, `Tidy`; an
upload writes the file and then records; a restore reads, rewrites the page, clears and copies the
assets, records, or undoes. Every step of a restore may fail, and so may each write of the undo (`RollbackFails`),
which is only logged. `Restart` crashes anywhere. The history variable `disturbed` says that since the last boot
two requests were in progress together or a rollback failed; what is claimed of a restore is claimed otherwise.

| Run | Bounds | Shows |
|---|---|---|
| `revisions_history` | 2 calls at a time, 3 in all, 2 contents of each kind, 2 revisions kept, coalescing on, 2 failing writes of a restore or its undo, a crash; 0.7 million states, 85 s | `HistoryKept`, `UploadsKept`, `RestoreAllOrNothing` |

Two revisions kept make pruning happen at the third save; coalescing happens at the second.

### Git backup

The live directories as a function from paths to contents, commits with their parents and all they are
descended from (`line`, so that ancestry is a membership), the local and the remote branch, the Manager with one scheduler per Repository it made. A cycle is the comparison with the
remote, the plan of a pull, one step per file written, the scan file by file, the commit, the push; a
forced push takes its lease from the comparison. Others commit, move the branch back or delete it at any
time; a first contact can fail or be cut short between any two files.

| Run | Bounds | Shows |
|---|---|---|
| `backup_cycles` | 2 files, 2 contents, 2 Repositories, 5 first contents of the directories and the remote (nothing, one side only, the same, different), 3 edits, commits of others, requests, faults or crashes; 1.1 million states, 45 s | `SchedulerSound`, `EditsKept`, `SuccessMeansStored`, `ForceSeesWhatItDrops` |

The history variables name the windows in which each property does not hold (`torn`, `unsynced`,
`rewound`, `twin`, an edit that touches a file between plan and write); all are under Observed.

### Importer

The plan in memory and in its file, the workspaces on disk, the goroutines that execute plans, the
requests that upload or clear one. `Execute` is the check of the plan against the tree hash (`Check`) and
for each item `Ensure`, `Write` or `Skip`, and `Report`; `Restart` is a crash and the resumption at boot
from the file. A plan that finds the tree changed gives up its result and with it its items. Removals of workspaces (`Sweep`,
`Clean`) may fail and leave them. `raced`, `touched`, `wrote` and `late` are history.

| Run | Bounds | Shows |
|---|---|---|
| `importer_resume` | 2 archives of 3 files with links, index files and a common target, 2 executions, 2 uploads, 4 edits, faults or crashes; 0.6 million states, 110 s | `PlanTrue`, `OverwritesOnlyOwn`, `Ends` |

`Ends` assumes weak fairness of each execution: it is a goroutine that waits for nothing.

### Snapshots

The wiki as texts at places in the order of the walk, archives and sidecars by id, the goroutine of the
scheduler, its channels, requests that delete, open or download. `SnapshotShelf` is what a reader of the
list may rely on: snapshots join it as the newest and leave it when somebody asked for that or when
`Retention` newer ones stood beside. The refinement mapping takes the numbers of the listed sidecars for
the shelf, and those that a prune or a request is about to remove for the doomed.

| Run | Bounds | Shows |
|---|---|---|
| `snapshot_runs` | databases and 2 files, 1 kept, 1 request at a time, 3 triggers, changes, failures, panics or crashes, 2 seconds; 0.2 million states, 75 s | `ListTrue`, `ImplementsShelf`, `TriggerHonoured` |

`TriggerHonoured` assumes weak fairness of the goroutine's work and of the tick, and strong fairness of
its receive from the manual channel: a Go `select` picks among ready channels at random.

### Preferences

Rows of favourites and user settings, the branding and flags in memory and in their JSON files, the image
files, and the locks around them. Every write may fail (`Works`, `Faults`) and the process may stop. Pages
have a page above them or none. A recursive delete is three critical sections: the subtree is collected,
its pages are read (`ReadPages`, where a read may fail and the page is left out), and `DeleteNode` takes
what is below the page by then; the favourites of the pages that were read are cleared one page at a
time. Creates and moves come between.

| Run | Bounds | Shows |
|---|---|---|
| `preferences` | 2 users, 2 pages, 2 fields, a value, 2 image slots, 2 extensions; 2 requests at a time, 5 in all, 2 failures or crashes; 107 s | `OnlyRacesOrphan`, `ChoicesStand` |

Two mixes, one chosen at the start, keep apart what no request has in common: pages, users and their rows, or
the site's name, flag and images. Two pages are a page and one below it, or one that comes or goes below it meanwhile.
`FavouritesStay`, a part of `ChoicesStand`, is the other side of `OnlyRacesOrphan`: a clean-up takes no more than
the page's rows.

### Sessions

One account, its row (`user`), the session rows (`sess`), the token rows, the attempt counter, and the
calls in progress. A call is a record: the step it is at and what it has read. `Begin` actions are the
part of a handler up to the first statement that matters (`LoginBegin`, `CompleteBegin`, `RefreshBegin`,
`SetupBegin`, `ConfirmBegin`, `DisableBegin`, `ChangeBegin`, `AdminBegin`, `RedeemBegin`), every other
action is one statement: `Record` counts an attempt, `Consume` is the compare-and-swap of
`ConsumeRecoveryCodeHash` with `Reread` as its retry, `Enable` is `EnableTOTP` with the secret that was
read, `RevokeAll` is `RevokeAllSessionsForUserExcept`. `Fails` is a database error at any statement; a
failed revocation is logged and passed over, as in the code. Passwords and secrets are the numbers of the
calls that wrote them, so a stale write is visible. A session keeps in history the sign-in it goes back
to, the number of revocations when the client last proved who it is, and whether a revocation overtook
the call that made it.

| Run | Bounds | Shows |
|---|---|---|
| `sessions` | 2 calls at a time, in one of two mixes: the second factor (2 recovery codes, lock after 2 failures), or sessions and the three ways to set a password (1 failing statement); 4 calls after the state at start; 1.3 million states, 70 s | codes and tokens are redeemed once, stored codes are those of the last set-up, TOTP is never left without a secret (`CredentialsSound`); guesses are bounded; a refresh keeps its client signed in; only an overtaken call outlives a revocation |

Calls are interchangeable (`Symmetry`). Two at a time are enough for every race of two statements. The run starts
from a signed-in account with or without TOTP, or from an invitation; the four calls after it are two
logins and two completions with one code, or a set-up, two confirmations and a disable. The mixes
(`MCSessions!OfTheMix`) keep operations apart whose rows do not meet.
`MaxFailures` is 2 instead of 5: the counter has the same three cases, below, at and above the limit.
Time is the two moments it matters: a lock that expires
(`LockExpires`) and a session that does (`Logout`, the same row change). Nothing is fair: a client may
stop after any step.

### Accounts and access

Rows by id, with a role and a name; a name stands for the username and the e-mail address, which are
checked alike. `Checks` is a check that is made with a query of its own and returns the error or goes on,
`Writes` is a statement with the constraint it carries: `Unique` for the `UNIQUE` columns, `Updatable`
for the guard of `UserStore.UpdateUser` that keeps the last admin.

`Access` extends this with who a request acts as: by its session, by the header of a trusted proxy
(`RemoteBegin` to `RemoteAgain`, with the retry after a unique violation), or by a key (`ResolveBegin`
reads the key, `ResolveOwner` the account, `Narrowed` is `intersectRole`). Writes of accounts by an
administrator are followed by `DeleteKeys` and a reload of the label cache in its two steps. The first may fail
(`ReloadFails`), and so may the store when a single name is looked up (`FetchLabel`), which is cached as "no such
user" like an account that is gone (`blank`); a lookup stores its answer only while there is none. The history
variable `owned` collects the roles a key's owner had while its request ran.

| Run | Bounds | Shows |
|---|---|---|
| `accounts_access` | 3 accounts, 3 names, 1 key, editor limit 2; 2 calls at a time, 3 in all; 118 s | `NamesUnique`, `DemotionLeavesAdmin`, `KeysNarrow`, `LabelsFollow` |

Two admins who demote each other, two requests that find a name free, a lookup between the two steps of a
reload and a demotion between the two reads of a key are each two calls; the third call is what makes the
first state interesting (an account created, a key issued).

## What is proved

Every safety property that a run checks of `Restore`, `Revisions`, `Backup`, `Importer`, `Snapshot`, `Sessions`,
`Access` and `Preferences` is a theorem, for every value of the constants that meets the assumptions the
modules state on them. The proofs do not use the bounds of the runs, except that a counter has one, whatever
its value. In each module the invariant is a conjunction of named parts, there is a lemma for what each part
needs of each step, and the theorems come last. None of the properties is inductive: each speaks of the
end of an operation, and the invariant adds what holds at each of its steps.

`RestoreProofs`, for any number of items, stores, requests, callers and restores: always `TypeOK`,
`AllOrNothing`, `GateCoversMixedData`, `NothingLost`, `HandlesReleased`, `NoWriterWhileSwapping`, with these
`SwapIsSafe`, and `NoForeignLog`, `NoSessionFromBefore` and `ServesAgain`. `IInv` adds `ControlInv` (what the
program counter says of the gate, the loops and the stores) and `DataInv` (for every phase, which items are
in place, moved aside or swapped). `LogInv`, `AccountInv` and `ServingInv` extend it: once the logs are cleaned
no staged database has one; once the sessions are revoked the bound user store is the live file; outside the
phases that suspend a store, it is open on the live file. The last holds only as long as no restore was
started over an intervention.

`RevisionsProofs`: `HistoryKept`, `RestoreAllOrNothing`, always `UploadsKept`. `Types` says what a call has in
hand at each step, `Locking` that exactly the holder of the lock is between the steps that need it, `Stocked`
that the blob, the manifest and the files a revision refers to are stored before the revision is. `Alone` is
the heart of it: as long as no two requests have met, at most one caller is at work, and for each step it
can be at it says how far the newest revision, the directory and the manifest cache are from the page, and
what an undo would go back to. A crash, and a restore that leaves the cache stale, weaken it by what they can
lose. `Uploads` follows a file from the directory to the store: an answered file that is not stored is in the
directory, and a recording is waiting for the lock or has scanned the directory with the file in it. It needs
that a scan made before an upload is superseded by the recording of that upload.

`BackupProofs`: always `SchedulerSound`, and `EditsKept`, `SuccessMeansStored`, `ForceSeesWhatItDrops`. `SchedInv`
says that a scheduler runs only for the current Repository or the one that is being closed, `WorkInv` what
the step of a worker presupposes, `OpInv` where the commits it compared lie in the two histories, `PushedInv`
that the last push is still in both branches, `MineInv` that the content of every file is in the last commit,
is an edit, or is about to be replaced by the pull that saw it so. `Lines` is about commits alone: what a
commit is descended from is closed under descent. The windows under Observed (`twin`, `torn`, `unsynced`,
`rewound`) are the hypotheses of these parts, as they are in the properties.

`SnapshotProofs`: `ListTrue`, and `ImplementsShelf`, the refinement: the initial states map to initial states of
`SnapshotShelf`, and for each action a lemma shows that its step is a publication, an announcement, a removal
of the shelf or a stutter. `Numbering`, `Stock` and `Asking` say that listed snapshots have numbers of their
own, below that of the run in progress, and that what a request knows has either gone or is still listed under
the same number; `Archive` that what has been walked is as it is in the wiki, but for what has changed;
`Keeping` that no more than `Retention` are listed but for those already marked, so that a prune never takes one
without newer ones beside it. `Counting` gives the file names and run numbers enough room.

`SessionsProofs`, for any number of calls, operations, codes, attempts and failures: always `TypeOK`,
`RecoveryCodesOnce`, `CodesCurrent`, `TokensOnce`, `EnabledHasSecret`, with these `CredentialsSound`, and
`GuessesBounded`, `RefreshKeepsSignIn`, `OnlyRacesSurvive`. `Types` says what a call may rely on at its step
(`CallOK`): a swap is of a code in the list that was read, a token to redeem exists. `Untouched` says which
steps touch the tokens, the guesses, the codes and the secret, so that each invariant has only those cases.
`RecoveryCodesOnce` is not inductive, since an `EnableTOTP` that is still on its way could store codes that
were redeemed before; `CodeInv` rules that out: calls have numbers of their own, and a call about to enable
TOTP has one under which no code was redeemed. `GuessInv` adds that the counter is exact while the account is
not locked, `TokenInv` that a redeemed token is marked, `SecretInv` that a call about to enable TOTP has read a
secret. `SignInInv` adds that a refresh about to revoke its session has stored a newer one of the same sign-in,
`RaceInv` that a call whose session is older than the last revocation began before it or carries the mark.

`AccessProofs`, for any number of calls, ids, names and any limit: of `Accounts`, always `TypeOK` and
`NamesUnique`, and `DemotionLeavesAdmin` of every step. These need no more than the types: the constraints are
in the statements that write, so what a call checked before does not matter. Then the same of `Access`, with
keys, proxies and reloads beside it, and always `KeysNarrow` and `LabelsFollow`. `KeyInv` says that the role a request read from its
key is still that of the key, as long as it has its owner, and that the owner's roles since then are noted.
`LabelInv` and `ListInv` say that a list that was read last is true of every account unless a reload is still
due, which is what makes the order in which reloads finish irrelevant. A reload that failed counts as the newest read
without being shown, and a blank id is no account's name: these are the two cases `LabelsFollow` names.

The last part of `RestoreProofs` is about `Preferences`, whose rows and files a restore swaps. For any number
of requests, users, pages, fields and slots: always `OnlyRacesOrphan` and `ChoicesStand`. `OwnerInv` says that a row without its page or user is excused or that a clean-up of it is under
way, which for a recursive delete means that its page is on the list the request still holds, `RowInv` that who is about to write a row has held the lock since it read it, `NameInv` that who changes an
image holds the lock and has the configuration that counts, `ImageInv` which images a slot has between requests
and while one changes them.

`ImporterProofs`, for any archives, executions, uploads, edits and crashes: always `PlanTrue`, and `OverwritesOnlyOwn`
of every step. `Ids` says which plan is which: those in memory, in the file and in the hands of the executions are the same
whenever they have the same number, and an attempt is of one plan. `Stage` is how far an execution is, and `Records` that
an item is noted as created exactly if this attempt wrote its page. `Safe` says that who removes workspaces has
not this one in hand, unless a request raced the start (`raced`). `Stamps` says that no hash of the tree is newer than the clock,
so that a page written later differs from it, and `Missing` that an item which is to create a page had none at its target when the hash was
taken. With these, `Knowledge` is what the check of a plan against the tree establishes and every item keeps: each page is
as the plan found it, or empty, or written by this attempt, or somebody touched it in the meantime; and what the plan found
or the attempt created is still there. A plan at rest recalls this under the condition that the tree still
has the hash it had (`Recalls`), which is what a resumption checks. `Origins` says of every
imported body from which archive, file and link it comes. `PlanTrue` follows at the end of an execution, `OverwritesOnlyOwn` at each
write: only `touched` pages and the attempt's own are excepted.

`PageTreeProofs`: `TreeSpec` implies always `TreeOK`, for any pages and slugs. There is one lemma for each
operator of `PageTree`, so that an operation is the few that it is made of. A slice is a sequence without
repetition (`Once`): what it holds after an append, a removal or an insertion at a position is proved of the
positions, and `Sliced` says of the whole tree that the slices are those of the parent pointers. That no page is
its own ancestor is said without a path: no set of pages contains the parent of each of its members. So
is the subtree of a page, the least set that is closed under children, and a move under a page outside it
closes no circle. No induction over data is needed for either. A reload yields any well-formed tree by the
definition of `Reloads`.

The second part is the refinement: `Spec` of `PageTreeDisk` implies `TreeSpec`, and so always `TreeOK`, for any pages
and slugs, any kinds of failing file operation, and any number of operations, faults and reloads. `TreeOK` and the disk do
not suffice for it, and the inductive invariant `Sound` adds two things. `Tidy`, of the tree in memory and of the one a
resync holds: an id outside the tree has no parent, slug, slice or index of its own (`Blank`), so that a page created and
rolled back leaves exactly the tree there was. `DiskSound`: the folders and files are finitely many, each file is in a
folder that is there, has a name made of slugs and says which page it is, and an order file holds ids; this is what a reload needs.
The argument follows the code upwards:

- An outcome of a file operation has the tree it began with and a sound disk, `On(w, t)`, whether it failed or not. The
  functions of `NodeStore` are compositions of these; only `ConvertToSection` changes the tree, by one kind.
- What a rollback does in memory is the inverse of what it undoes: `Deleted` of `Created` with the parent's kind set back,
  a stamp taken back after a failed `BulkUpdateContent`. So each operation ends in the tree it began with, in that tree with the
  parent as a section, or in the tree `PageTree` promises (`CreateNodeStep` to `SortPagesStep`).
- A walk (`WalkFinds`, `WalkOnIs`): each step of it, of a restart or of a resync, keeps a tidy tree whose paths are those it has noted, and a sound disk, whatever disk it finds next. Each
  path is visited once, and adds a page only under one that is in the tree, with a slug no sibling of it has.
  Ordering the children by an order file permutes each slice, whatever ids
  the file holds (`Picked`).

`Walk` and `Picked` are functions defined by recursion on a number. What each step does is proved first, and what holds at
the end follows from the least number at which it would not (`LeastNumber`, `UpTo`), so that no induction theorem with an
operator parameter is needed.

Only model-checked:

- Liveness, out of the prover's reach: `RestoreEnds`, `Ends`, `TriggerHonoured`, `ServesInTheEnd`.
- The page tree on disk: `MatchesDisk`, `UnmovedAreRead`, `VersionTracksContent` and the parts of `PagesKept` about files. They need
  which file is whose at every step of every rollback. `MatchesDisk` is for instances in which only order files fail.
- `TreeStays` of `Migration`: its walks follow lineages and preorders, recursive functions over the places.
- `Indexing` (`IndexesFollow`, `LinksKeepTarget`, `RewriteKeepsEdits`, `LinksSurviveMoves`): paths and subtrees are
  recursive functions of the tree, and rows and texts are built with folds over them.

No module uses a `RECURSIVE` operator.

## Observed

Behaviours of the code that the models also have and the properties leave room for, each by a condition
or a history variable that the property names. Paths are below `src/internal`.

Restore:

- `TriggerRestore` reads `needsIntervention` and starts the job in two critical sections, so a restore can
  start over one that ended in an intervention in between (`restore/manager.go:81`, against `:27`).
- A restore that is rolled back because a settings service failed to reload leaves the restored settings
  in the memory of the services reloaded before (`restore/manager.go:415`, against `:390`).
- A pause or a clean-up that fails opens the gate before the stores are reopened, so that an intervention
  can be asked for with the gate open (`restore/manager.go:268`, `Release`).
- The write-ahead log of a database that no store has open is deleted before the swap, and a failed
  restore does not put it back (`restore/manager.go:301`, `CleanSidecars`).

Page tree, boot and migrations:

- A page-to-section conversion cut short leaves `a.md` beside `a/`, and the next boot fails on the
  duplicate slug (`core/tree/node_store_write.go:635`, against ADR-0001).
- An operation between the lock-free scan of a resync and its swap is on disk and in no tree until the
  next one (`core/tree/tree_service.go:167`; `missed`).
- The scan works from listings it made before: a section that was deleted, moved or converted since is made
  again on disk, as an empty section with a new identifier, where a page `a.md` may lie by now. The next
  load then fails on the duplicate slug (`core/tree/node_store_reconstruct.go:268`).
- An update whose rename fails has written its content under the old version
  (`core/tree/tree_mutations.go:346`; `RenameFails` in `VersionTracksContent`).
- A move whose order file cannot be saved renames the file back; if that fails too, the file stays below the
  new parent while the tree has the page at the old one, and a deletion of that parent takes the file with it
  (`core/tree/tree_mutations.go:750`; `PlacesKept`, and `AtPlace` in `FilesKept`). A folder that a failed
  fold-back left beside a page's file is in the way of the undo of its rename.
- `addFrontmatter` means to skip a page whose file is missing, but `ReadPageRaw` returns an error that
  unwraps to `ErrDrift`, not to the errors it looks for: below version 2 the migration, and so every boot,
  fails (`core/tree/migration_adapter.go:174`, `ServesInTheEnd`'s last condition).
- A torn `schema.json` makes every later boot fail (`core/tree/schema.go:50`).
- A page whose frontmatter does not parse stops migrations 2 to 4 for ever; a section with such an index
  gets a new identifier at every boot. A failing write-back of an identifier is only logged, with the same
  effect (`spoiled`). An unreadable tree.json is passed over, and pages get new identifiers.
- A hand-made copy of a page that sorts first takes its identifier and hides the original.

Pages, links and indexes:

- The orchestrator of `ApplyPageRefactorUseCase` has the link and revision effects only: search, tags and
  properties are not told of a refactoring rename or move, nor of the pages it rewrites (`untold`),
  against `wiki/pagesave/search_effect.go:13`.
- `BulkUpdateContent` checks no version: an edit between `Load` and `Store` of a refactoring, or between
  `LoadSubtree` and `RewriteSubtree`, is overwritten (`wiki/pages/refactor.go:589`, `:656`; `touched`).
- A change of slug through `UpdatePage` re-indexes the page alone, not its subtree.
- The pages a delete affects are collected before the tree is changed; what is created in between keeps
  rows and documents. A resync trigger is dropped while one runs (`wiki/wiki_resync.go:105`).
- Rules for the moved subtree carry no titles, so `[[Old Title]]` inside it breaks; a link of a page to
  itself that is relative is skipped and breaks on a rename; a reference-style link before inline links
  makes the later ones un-rewritten; `[[old/sub]]` below the moved path is not rewritten.

Revisions and assets:

- Restoring a revision removes and rewrites the page's assets without the asset lock, so an upload in
  between is lost (`core/revision/service.go:1041`), and leaves the manifest cache stale (`:257`, `:1072`).
- An undo that cannot write the page back is only logged: the page stays as restored, and the newest revision is
  that of before, until the next save or boot (`:652`; `disturbed`).
- A save of properties alone records no revision; restoring a state without extra frontmatter keeps the
  current one (`:926`). A deleted page's blobs stay after a crash before the clean-up.

Git backup:

- An edit between the plan of a pull and the write of the file is overwritten (`touched`); a pull that
  stopped and is repeated after the remote advanced reports a conflict of its own making (`torn`).
- A first contact that crashes after the branch and before the files lets the first cycle commit the
  missing ones as deleted (`unsynced`).
- A request that pulls or pushes on a Repository that `Reconfigure` replaces is not waited for (`twin`).
- When the remote was moved back to where the last push was not, a cycle without changes reports success
  (`rewound`). A forced push holds no lease when the branches were equal or the remote had none.

Importer:

- Canceled before the first item and started again, an import finds its workspace gone, creates every page
  empty and ends as completed. Two files with one target overwrite each other and count as two.
- The clean-up of an ended run may remove the workspace of its restart, and an upload or a clear that had
  looked before a start may replace its plan (`raced`).
- After a failing write of the state file a run can no longer be cancelled (`broken`). An item that was
  skipped with an error leaves a stale hash, so that a resumption fails as stale.
- A plan takes the hash of the tree before it looks at its targets (`importer/planner.go:103`): an item
  skipped for a page that was gone again by the start leaves the links to it without a page (`SkippedInVain`).

Snapshots:

- The sidecar is written in place: cut short, it makes listing and retention fail until it is removed by
  hand (`Torn`); a failure before it leaves a zip that is never listed nor pruned.
- A page that moves from a directory not visited yet to one already visited is in no archive
  (`run.kept`). Databases are copied one after the other. Snapshots do not look at the restore's gate.
- `Delete` removes both files before it looks at errors; one that races retention makes pruning stop.

Authentication and accounts:

- A refresh in progress while the password is changed or reset creates its new session after the others
  were revoked (`core/auth/session_manager.go:137`; `OnlyRacesSurvive` is what remains true).
- A login challenge is checked at the start of a completion and revoked at its end, so two requests with
  the code can both use it (`core/auth/auth_service.go:245`, against `:231`).
- `StartTOTPSetup` that read the account before a confirmation overwrites the secret that was confirmed
  (`core/auth/auth_service.go:320`, against `:301`).
- An account edit without a password writes back the password and role it read, and so undoes a change in
  between (`core/auth/user_store.go:377`, `AdminUpdate`).
- After `ResendInvite` both tokens are valid; the second still sets the password when the account has
  sessions, and revokes none (`core/auth/email_token_service.go:134`).
- Requests that overlap pass the editor limit together (`core/auth/user_service.go:57`), and an account
  promoted after `DeleteUser`'s check is deleted as an admin, the last one included (`:308`).
- Two reloads of the label cache may finish in the wrong order (`core/auth/user_resolver.go:95`, `shown`);
  an account made for a proxy's user reloads nothing.
  A reload that fails is only logged, so that old names stay until the next. A key made while its owner is deleted stays as a row.
- A lookup whose read fails is cached as "no such user" until the next reload, since every store error but that of a
  restore is mapped to it (`core/auth/user_service.go:155`, `core/auth/user_resolver.go:60`, `blank`),
  against the comment at `:73`, by which transient errors are not cached.

Preferences:

- A favourite or a settings row added by a request that was in flight during the deletion stays (`late`);
  failed clean-ups are logged and not repeated (`missed`).
- A recursive delete leaves the favourites of pages below that could not be read, or that were created or moved there
  after the subtree was collected (`wiki/pages/delete_page.go:82`, `:72`; `missed`), and clears those of a page that was moved
  out meanwhile and stays (`strayed`). When the parent's order file cannot be written the page is gone, but the
  request ends with the error before any clean-up (`:92`).
- A crash or failed save between the removal of the other images and the save of the branding leaves it
  naming an image that is gone (`hurt`).

## Plan

1. Done: `Restore`, `PageTree`, `PageTreeDisk`, `Sessions`, `Accounts`, with the proofs above.
2. Done: `Migration`, `LinkRewrite`, `Indexing`, `Revisions`, `Backup`, `Importer`, `Snapshot`, `Access`,
   `Preferences`, model-checked.
3. Done: proofs of `Access`, `Preferences`, `Backup`, `Snapshot` with its refinement, `Revisions`, `Importer`, `PageTree`
   and the refinement of `PageTreeDisk`; the rest of `Restore` and `Sessions`.
4. Proofs next: `IndexesFollow` of `Indexing`, along the same lines as the walk of `PageTreeDisk`; `MatchesDisk` for
   instances in which only order files fail, from an invariant that gives each page its one file.

## Not modelled

- Share links: a store of single-statement operations that no route uses yet.
- The HTTP layer beyond the write gate and sign-in: routing, rendering, rate limits, headers.
- The command line and the composition root: wiring and flags.
- The user interface: browser code in another language; the server's side of a version conflict is in
  `PageTreeDisk`.
- Markdown parsing, search ranking and query language, tokenising, mail delivery, TOTP and token
  cryptography, git packing: data whose shape no property here depends on.
- Properties (rows kept as tags are), avatars, asset copies to another page, file names that differ only in
  case, the environment mode of the backup, shutdown.

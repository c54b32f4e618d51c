------------------------------- MODULE Backup -------------------------------
(***************************************************************************)
(* The git backup (internal/backup) in settings mode: the live root/ and    *)
(* assets/ directories, the repository in the data directory, one branch of *)
(* one remote that other people write too, the Manager that starts, stops   *)
(* and replaces the Repository and its Scheduler, and the three operations  *)
(* of a Repository: the scheduled cycle, Pull and ForcePush.                *)
(*                                                                          *)
(* A commit is its position in `commits`, 0 is no commit, and its line is   *)
(* itself and what it descends from.  A tree maps the content paths to      *)
(* contents; files outside them are carried over and play no part.  A name  *)
(* git refuses is a flag of the commit that holds it, which no scan reads.  *)
(* Reading one file, or checking and writing one file, is one step.         *)
(***************************************************************************)
EXTENDS Naturals, Sequences, FiniteSets, TLC

CONSTANTS
    Paths, Contents, None,  \* files under root/ and assets/
    Http,        \* the request that runs Pull or ForcePush
    Starts,      \* the live content and the one commit of the remote at start
    MaxGens,     \* bound: Repository objects made since the last boot
    MaxEvents    \* bound: edits, commits of others, requests, faults and crashes

Trees == [Paths -> Contents \union {None}]

ASSUME BackupAssumption ==
    /\ Starts \subseteq [live : Trees, there : Trees]
    /\ MaxGens \in Nat \ {0}
    /\ MaxEvents \in Nat
    /\ None \notin Contents /\ Http \notin Nat

VARIABLES
    live,      \* the content directories
    commits,   \* every commit ever made, here or elsewhere
    git, head, \* does .git exist, the local branch
    remote,    \* the remote branch
    conf,      \* git-backup.json: enabled
    current,   \* generation of the Repository the Manager holds, 0 when idle
    gens,      \* Repository objects made since the last boot
    sched,     \* the scheduler goroutine of each: off, idle, busy
    closing,   \* generations whose scheduler was told to stop
    pushed,    \* lastPushedHash of each
    status,    \* Status of the Repository the Manager holds
    admin,     \* what the holder of reconfigMu is doing
    boot,      \* bootInBackground has still to take reconfigMu
    op,        \* what each worker is doing
    events,    \* edits, commits of others, requests, faults and crashes so far
    mine,      \* history: paths whose live content the wiki put there
    rewound,   \* history: somebody moved the remote branch back since our last push
    torn,      \* history: a pull stopped between its first write and its last step
    unsynced,  \* history: the process died in a first contact, before all files were there
    twin       \* history: two workers were active at once

repo == <<commits, git, head, remote>>
manager == <<conf, current, gens, sched, closing, admin, boot>>
state == <<pushed, status>>
history == <<mine, rewound, torn, unsynced, twin>>
vars == <<live, repo, manager, state, op, events, history>>

Gens == 1 .. MaxGens
Workers == Gens \union {Http}
NoFiles == [p \in Paths |-> None]

Tree(c) == IF c = 0 THEN NoFiles ELSE commits[c].tree
History(c) == IF c = 0 THEN {} ELSE commits[c].line
Grow(parent, tree, refused, ours) ==
    commits' = Append(commits, [parent |-> parent, line |-> History(parent) \union {Len(commits) + 1},
                                tree |-> tree, refused |-> refused, ours |-> ours])

NoOp == [at |-> "idle", kind |-> "none", gen |-> 0, base |-> 0, tip |-> 0,
         deletes |-> {}, writes |-> {}, tree |-> NoFiles, todo |-> {}, touched |-> {}]
NoAdmin == [at |-> "idle", todo |-> {}, adopted |-> FALSE]

Active(w) == op[w].at # "idle"
Locked(g) == \E w \in Workers : op[w].gen = g /\ Active(w)

Happens == events < MaxEvents /\ events' = events + 1

Init ==
    /\ \E start \in Starts :
         /\ live = start.live
         /\ \/ commits = <<>> /\ remote = 0
            \/ /\ commits = <<[parent |-> 0, line |-> {1}, tree |-> start.there, refused |-> FALSE, ours |-> FALSE]>>
               /\ remote = 1
    /\ git = FALSE /\ head = 0
    /\ conf = TRUE /\ boot = TRUE /\ current = 0 /\ gens = 0
    /\ sched = [g \in Gens |-> "off"] /\ closing = {}
    /\ pushed = [g \in Gens |-> 0] /\ status = "none"
    /\ admin = NoAdmin /\ op = [w \in Workers |-> NoOp]
    /\ events = 0
    /\ mine = {p \in Paths : live[p] # None}
    /\ rewound = FALSE /\ torn = FALSE /\ unsynced = FALSE /\ twin = FALSE

-----------------------------------------------------------------------------
(* The world: the wiki writes files, others write the remote branch *)

Edit(p, c) ==
    /\ Happens
    /\ live[p] # c
    /\ live' = [live EXCEPT ![p] = c]
    /\ mine' = mine \union {p}
    /\ op' = [w \in Workers |-> IF op[w].at = "idle" THEN op[w]
                                ELSE [op[w] EXCEPT !.touched = @ \union {p}]]
    /\ UNCHANGED <<repo, manager, state, rewound, torn, unsynced, twin>>

\* Somebody pushes a commit on top of the remote branch: other contents, or
\* an entry with a name that git on this host refuses.
OtherPushes(tree, refused) ==
    /\ Happens
    /\ remote # 0
    /\ Grow(remote, tree, refused, FALSE)
    /\ remote' = Len(commits) + 1
    /\ UNCHANGED <<live, git, head, manager, state, op, history>>

OtherCommits(p, c) == Tree(remote)[p] # c /\ OtherPushes([Tree(remote) EXCEPT ![p] = c], FALSE)
OtherRefused == OtherPushes(Tree(remote), TRUE)

\* Somebody resets the remote branch to an older commit, or deletes it.
OtherRewinds ==
    /\ Happens
    /\ remote # 0 /\ remote' = commits[remote].parent
    /\ rewound' = TRUE
    /\ UNCHANGED <<live, commits, git, head, manager, state, op, mine, torn, unsynced, twin>>

-----------------------------------------------------------------------------
(* Comparing with the remote: compareWithRemote *)

Leaves(w) ==
    /\ op' = [op EXCEPT ![w] = NoOp]
    /\ sched' = IF w = Http THEN sched ELSE [sched EXCEPT ![w] = "idle"]

\* Nobody asks a Repository the Manager has forgotten for its status.
Ends(w, s) == Leaves(w) /\ status' = IF op[w].gen = current THEN s ELSE status

\* The remote answers neither or too late; a broken read or write of a file.
Fails(w) ==
    /\ Happens
    /\ Ends(w, "failed")

Relation(local, tip) ==
    IF tip = 0 THEN "nobranch"
    ELSE IF tip = local THEN "uptodate"
    ELSE IF local = 0 \/ local \in History(tip) THEN "behind"
    ELSE IF tip \in History(local) THEN "ahead" ELSE "diverged"

StartsScan(w, base) ==
    op' = [op EXCEPT ![w].at = "read", ![w].base = base, ![w].todo = Paths, ![w].touched = {}]

\* The tip is re-read from what the fetch brought, so listing and fetching are
\* one step.  RunBackup and Pull go on; ForcePush holds the tip as its lease,
\* or nothing when there was nothing to compare.
Compare(w) ==
    LET relation == Relation(head, remote)
        stay == UNCHANGED <<status, sched>>
    IN  /\ op[w].at = "compare"
        /\ CASE op[w].kind = "force" /\ relation = "behind" -> Leaves(w) /\ UNCHANGED status
             [] op[w].kind = "force" /\ relation # "behind" ->
                  op' = [op EXCEPT ![w].at = "push", ![w].tip = IF relation = "uptodate" THEN 0 ELSE remote] /\ stay
             [] op[w].kind # "force" /\ relation = "diverged" -> Ends(w, "failed")
             [] op[w].kind # "force" /\ relation = "behind" ->
                  op' = [op EXCEPT ![w].at = "plan", ![w].tip = remote, ![w].base = head] /\ stay
             [] op[w].kind = "pull" /\ relation \notin {"behind", "diverged"} -> Ends(w, IF status = "ok" THEN "ok" ELSE "none")
             [] op[w].kind = "backup" /\ relation \notin {"behind", "diverged"} -> StartsScan(w, head) /\ stay
        /\ UNCHANGED <<live, repo, conf, current, gens, closing, admin, boot, pushed, events, history>>

-----------------------------------------------------------------------------
(* Pulling: pullBeforeBackup, planContentChanges, applyMaterialize *)

\* An unborn branch has nothing to compare with: local files win.
Conflicts(base, tip, born) ==
    {p \in Paths : Tree(base)[p] # Tree(tip)[p] /\ live[p] # Tree(tip)[p] /\ born /\ live[p] # Tree(base)[p]}

Changes(base, tip) ==
    {p \in Paths : /\ Tree(base)[p] # Tree(tip)[p] /\ live[p] # Tree(tip)[p]
                   /\ base # 0 \/ (live[p] = None /\ Tree(tip)[p] # None)}

Plan(w) ==
    LET base == op[w].base
        tip == op[w].tip
        changes == Changes(base, tip)
        unreadable == commits[tip].refused \/ (base # 0 /\ commits[base].refused)
    IN  /\ op[w].at = "plan"
        /\ \/ unreadable /\ Ends(w, "failed")
           \/ ~unreadable /\ Conflicts(base, tip, base # 0) # {} /\ Ends(w, "failed")
           \/ /\ ~unreadable /\ Conflicts(base, tip, base # 0) = {}
              /\ op' = [op EXCEPT ![w].at = "apply", ![w].touched = {},
                            ![w].deletes = {p \in changes : Tree(tip)[p] = None},
                            ![w].writes = {p \in changes : Tree(tip)[p] # None}]
              /\ UNCHANGED <<status, sched>>
        /\ UNCHANGED <<live, repo, conf, current, gens, closing, admin, boot, pushed, events, history>>

\* Deletes first, then writes.
Apply(w, p) ==
    /\ op[w].at = "apply"
    /\ \/ p \in op[w].deletes
       \/ p \in op[w].writes /\ op[w].deletes = {}
    /\ live' = [live EXCEPT ![p] = Tree(op[w].tip)[p]]
    /\ op' = [op EXCEPT ![w].deletes = @ \ {p}, ![w].writes = @ \ {p}]
    /\ mine' = mine \ {p}
    /\ UNCHANGED <<repo, manager, state, events, rewound, torn, unsynced, twin>>

\* The pull is in: the branch follows, and Pull answers or the cycle scans.
Applied(w) == op[w].deletes = {} /\ op[w].writes = {}

SetHead(w) ==
    /\ op[w].at = "apply" /\ Applied(w)
    /\ head' = op[w].tip
    /\ pushed' = [pushed EXCEPT ![op[w].gen] = op[w].tip]
    /\ IF op[w].kind = "pull"
       THEN Ends(w, IF status = "ok" THEN "ok" ELSE "none")
       ELSE StartsScan(w, op[w].tip) /\ UNCHANGED <<status, sched>>
    /\ UNCHANGED <<live, commits, git, remote, conf, current, gens, closing, admin, boot, events, history>>

-----------------------------------------------------------------------------
(* Committing and pushing: RunBackup *)

Scan(w, p) ==
    /\ op[w].at = "read" /\ p \in op[w].todo
    /\ op' = [op EXCEPT ![w].tree[p] = live[p], ![w].todo = @ \ {p}, ![w].touched = @ \ {p}]
    /\ UNCHANGED <<live, repo, manager, state, events, history>>

NewCommit(parent, tree) == Grow(parent, tree, FALSE, TRUE)

\* Nothing new is committed; an unpushed commit is still pushed.
Mutant_TrustsLast(w) == head # pushed[op[w].gen] /\ pushed[op[w].gen] # 0
Unpushed(w) == head # pushed[op[w].gen]

Unchanged(w) == IF op[w].base = 0 THEN op[w].tree = NoFiles
                ELSE op[w].tree = Tree(op[w].base) /\ ~commits[op[w].base].refused

Ready(w) == op' = [op EXCEPT ![w].at = "push", ![w].tree = NoFiles]

CommitTree(w) ==
    /\ op[w].at = "read" /\ op[w].todo = {}
    /\ \/ /\ Unchanged(w) /\ (op[w].base = 0 \/ ~Unpushed(w))
          /\ Ends(w, "ok") /\ UNCHANGED <<commits, head>>
       \/ /\ Unchanged(w) /\ op[w].base # 0 /\ Unpushed(w)
          /\ Ready(w) /\ UNCHANGED <<commits, head, status, sched>>
       \/ /\ ~Unchanged(w)
          /\ NewCommit(op[w].base, op[w].tree) /\ head' = Len(commits) + 1
          /\ Ready(w) /\ UNCHANGED <<status, sched>>
    /\ UNCHANGED <<live, git, remote, conf, current, gens, closing, admin, boot, pushed, events, history>>

\* A push without force only extends the branch; a forced one is refused when
\* the branch left the commit it is leased on.
Mutant_NeverLeased(w) == TRUE
LeaseOK(w) == op[w].tip = 0 \/ remote = op[w].tip

Accepted(w) == IF op[w].kind = "force" THEN LeaseOK(w) ELSE remote = 0 \/ remote \in History(head)

Pushes(w, answered) ==
    /\ remote' = head
    /\ rewound' = FALSE
    /\ IF answered
       THEN pushed' = [pushed EXCEPT ![op[w].gen] = head] /\ Ends(w, "ok") /\ UNCHANGED events
       ELSE Fails(w) /\ UNCHANGED pushed

Push(w) ==
    /\ op[w].at = "push"
    /\ IF head # 0 /\ Accepted(w)
       THEN \E answered \in BOOLEAN : Pushes(w, answered)
       ELSE /\ IF op[w].kind = "force" /\ head # 0 THEN Leaves(w) /\ UNCHANGED status ELSE Ends(w, "failed")
            /\ UNCHANGED <<remote, rewound, pushed, events>>
    /\ UNCHANGED <<live, commits, git, head, conf, current, gens, closing, admin, boot, mine, torn, unsynced, twin>>

\* A network or file error at any step of an operation.
OpFails(w) ==
    /\ op[w].at \in {"compare", "plan", "apply", "read", "push"}
    /\ Fails(w)
    /\ torn' = (torn \/ op[w].at = "apply")
    /\ UNCHANGED <<live, repo, conf, current, gens, closing, admin, boot, pushed, mine, rewound, unsynced, twin>>

-----------------------------------------------------------------------------
(* Starting operations: Scheduler and the HTTP handlers *)

Meets(w) == twin' = (twin \/ \E v \in Workers \ {w} : Active(v))

\* A tick or a trigger: select may take either, closing or not, so a trigger
\* needs no state of its own; RunBackup waits for the repository.
Wake(g) ==
    /\ sched[g] = "idle" /\ ~Locked(g)
    /\ sched' = [sched EXCEPT ![g] = "busy"]
    /\ op' = [op EXCEPT ![g] = [NoOp EXCEPT !.at = "compare", !.kind = "backup", !.gen = g]]
    /\ Meets(g)
    /\ UNCHANGED <<live, repo, conf, current, gens, closing, admin, boot, state, events, mine, rewound, torn, unsynced>>

SchedulerExits(g) ==
    /\ sched[g] = "idle" /\ g \in closing
    /\ sched' = [sched EXCEPT ![g] = "off"]
    /\ closing' = closing \ {g}
    /\ UNCHANGED <<live, repo, conf, current, gens, admin, boot, state, op, events, history>>

\* Pull and ForcePush give up when the repository is busy.
Request(kind) ==
    /\ current # 0 /\ op[Http].at = "idle" /\ ~Locked(current)
    /\ Happens
    /\ op' = [op EXCEPT ![Http] = [NoOp EXCEPT !.at = "compare", !.kind = kind, !.gen = current]]
    /\ Meets(Http)
    /\ UNCHANGED <<live, repo, manager, state, mine, rewound, torn, unsynced>>

-----------------------------------------------------------------------------
(* The Manager: Reconfigure, Disable, bootInBackground and Init *)

\* detach: the Manager forgets the Repository, its scheduler is told to stop.
Detach == /\ current' = 0 /\ status' = "none"
          /\ closing' = IF current = 0 THEN closing ELSE closing \union {current}

Reconfigure ==
    /\ admin.at = "idle" /\ gens < MaxGens
    /\ Happens
    /\ conf' = TRUE /\ Detach
    /\ admin' = [NoAdmin EXCEPT !.at = "stop"]
    /\ UNCHANGED <<live, repo, gens, sched, boot, pushed, op, history>>

Disable ==
    /\ admin.at = "idle" /\ conf
    /\ Happens
    /\ conf' = FALSE /\ Detach
    /\ admin' = [NoAdmin EXCEPT !.at = "off"]
    /\ UNCHANGED <<live, repo, gens, sched, boot, pushed, op, history>>

\* Scheduler.Stop waits for the goroutine, and so for a running cycle.
Stopped == closing = {}

StopWaits ==
    /\ admin.at \in {"stop", "off"} /\ Stopped
    /\ admin' = IF admin.at = "stop" THEN [NoAdmin EXCEPT !.at = "build"] ELSE NoAdmin
    /\ UNCHANGED <<live, repo, conf, current, gens, sched, closing, boot, state, op, events, history>>

\* bootInBackground looks again at what it is to start.
Mutant_BootStarts == TRUE
BootStarts == current = 0 /\ conf

BootRuns ==
    /\ boot /\ admin.at = "idle" /\ gens < MaxGens
    /\ boot' = FALSE
    /\ admin' = IF BootStarts THEN [NoAdmin EXCEPT !.at = "build"] ELSE NoAdmin
    /\ UNCHANGED <<live, repo, conf, current, gens, sched, closing, state, op, events, history>>

\* activate: a new Repository and its scheduler, seeded with one trigger.
Activate ==
    LET g == gens + 1
    IN  /\ gens' = g /\ current' = g
        /\ sched' = [sched EXCEPT ![g] = "idle"]
        /\ admin' = NoAdmin
        /\ status' = "none"

\* Init opens the repository that is there, commits the live content into a new
\* one when the remote has none, or begins the first contact.
InitOpens ==
    /\ admin.at = "build" /\ git
    /\ Activate /\ pushed' = [pushed EXCEPT ![gens + 1] = 0]
    /\ UNCHANGED <<live, repo, conf, closing, boot, op, events, history>>

InitCreates ==
    /\ admin.at = "build" /\ ~git
    /\ git' = TRUE
    /\ IF remote # 0
       THEN /\ admin' = [NoAdmin EXCEPT !.at = "contact"]
            /\ UNCHANGED <<commits, head, current, gens, sched, state>>
       ELSE /\ IF live = NoFiles THEN UNCHANGED <<commits, head>>
               ELSE NewCommit(0, live) /\ head' = Len(commits) + 1
            /\ Activate /\ pushed' = [pushed EXCEPT ![gens + 1] = 0]
    /\ UNCHANGED <<live, remote, conf, closing, boot, op, events, history>>

\* initWithRemoteHistory: the branch is set to the remote's, nothing is checked out.
Contact ==
    /\ admin.at = "contact" /\ remote # 0
    /\ head' = remote
    /\ admin' = [at |-> "sync", todo |-> Paths, adopted |-> TRUE]
    /\ UNCHANGED <<live, commits, git, remote, conf, current, gens, sched, closing, boot, state, op, events, history>>

\* syncContentFromRemote: a file that is there is kept.
Missing(p) == live[p] = None /\ Tree(head)[p] # None

Sync(p) ==
    /\ admin.at = "sync" /\ p \in admin.todo /\ ~commits[head].refused
    /\ live' = IF Missing(p) THEN [live EXCEPT ![p] = Tree(head)[p]] ELSE live
    /\ mine' = IF Missing(p) THEN mine \ {p} ELSE mine
    /\ admin' = [admin EXCEPT !.todo = @ \ {p}]
    /\ UNCHANGED <<repo, conf, current, gens, sched, closing, boot, state, op, events, rewound, torn, unsynced, twin>>

Contacted ==
    /\ admin.at = "sync" /\ admin.todo = {}
    /\ Activate /\ pushed' = [pushed EXCEPT ![gens + 1] = head]
    /\ UNCHANGED <<live, repo, conf, closing, boot, op, events, history>>

\* abandon: the .git of a failed first contact is removed.
Mutant_KeepGit == UNCHANGED <<git, head>>
Abandon == git' = FALSE /\ head' = 0

\* Without a repository every file there is the wiki's own.
Kept == {p \in Paths : live[p] # None}

ContactFails ==
    /\ \/ admin.at \in {"contact", "sync"} /\ Happens
       \/ admin.at = "contact" /\ remote = 0 /\ UNCHANGED events
       \/ admin.at = "sync" /\ commits[head].refused /\ UNCHANGED events
    /\ Abandon /\ admin' = NoAdmin
    /\ mine' = Kept
    /\ UNCHANGED <<live, commits, remote, conf, current, gens, sched, closing, boot, state, op,
                   rewound, torn, unsynced, twin>>

\* The process dies; somebody may delete .git before it starts again.
Restart(deleted) ==
    /\ Happens
    /\ git' = (git /\ ~deleted) /\ head' = IF deleted THEN 0 ELSE head
    /\ boot' = conf /\ current' = 0 /\ gens' = 0 /\ admin' = NoAdmin
    /\ sched' = [g \in Gens |-> "off"] /\ closing' = {}
    /\ pushed' = [g \in Gens |-> 0] /\ status' = "none"
    /\ op' = [w \in Workers |-> NoOp]
    /\ mine' = IF deleted THEN Kept ELSE mine
    /\ torn' = (torn \/ \E w \in Workers : op[w].at = "apply")
    /\ unsynced' = (unsynced \/ (admin.at = "sync" /\ ~deleted))
    /\ UNCHANGED <<live, commits, remote, conf, rewound, twin>>

-----------------------------------------------------------------------------
Next ==
    \/ \E p \in Paths, c \in Contents \union {None} : Edit(p, c)
    \/ \E p \in Paths, c \in Contents \union {None} : OtherCommits(p, c)
    \/ OtherRefused \/ OtherRewinds
    \/ \E w \in Workers : \/ Compare(w) \/ Plan(w) \/ SetHead(w)
                          \/ CommitTree(w) \/ Push(w) \/ OpFails(w)
                          \/ \E p \in Paths : Apply(w, p) \/ Scan(w, p)
    \/ \E g \in Gens : Wake(g) \/ SchedulerExits(g)
    \/ \E k \in {"pull", "force"} : Request(k)
    \/ Reconfigure \/ Disable \/ StopWaits \/ BootRuns
    \/ InitOpens \/ InitCreates \/ Contact \/ Contacted \/ ContactFails
    \/ \E p \in Paths : Sync(p)
    \/ \E d \in BOOLEAN : Restart(d)

Spec == Init /\ [][Next]_vars
-----------------------------------------------------------------------------
(* Properties *)

\* Every variable keeps its shape, whatever the wiki, the committers, the
\* Manager and the workers of the Repository do (internal/backup).
TypeOK ==
    /\ live \in Trees
    /\ commits \in Seq([parent : 0 .. Len(commits), line : SUBSET (1 .. Len(commits)), tree : Trees, refused : BOOLEAN, ours : BOOLEAN])
    /\ \A c \in DOMAIN commits : commits[c].parent < c
    /\ head \in 0 .. Len(commits) /\ remote \in 0 .. Len(commits) /\ (head # 0 => git)
    /\ gens \in 0 .. MaxGens /\ current \in 0 .. gens
    /\ sched \in [Gens -> {"off", "idle", "busy"}] /\ closing \subseteq Gens
    /\ pushed \in [Gens -> 0 .. Len(commits)]
    /\ status \in {"none", "ok", "failed"}
    /\ \A g \in Gens : sched[g] = "busy" <=> op[g].at # "idle"
    /\ admin.at \in {"idle", "stop", "off", "build", "contact", "sync"}

\* A pull or a first contact that changes a live file replaces the version of
\* the last commit, or a file that was not there: an edit is only lost when it
\* came between the plan and the write (Repository.Pull, applyMaterialize), or
\* two Repositories worked on one .git.
PullKeepsEdits ==
    [][\A p \in Paths :
         live'[p] # live[p] /\ p \notin mine' =>
            \/ twin \/ \E w \in Workers : p \in op[w].touched
            \/ live[p] = Tree(head)[p]
            \/ admin.at = "sync" /\ live[p] = None]_vars

\* A cycle commits only what the wiki wrote or removed: a file a pull put there
\* is never committed back over what the others made of it (RunBackup after
\* pullBeforeBackup), and a first contact that failed before every file of the
\* remote was there leaves no branch whose next commit deletes the rest (Init's
\* abandon).  Only a pull stopped halfway, a crash inside the first contact and
\* two Repositories on one .git do otherwise.
CommitsOnlyEdits ==
    [][LET c == Len(commits)'
       IN  c # Len(commits) /\ commits'[c].ours /\ commits'[c].parent # 0 =>
             \A p \in Paths : commits'[c].tree[p] # Tree(commits'[c].parent)[p]
                                 => p \in mine \/ torn \/ unsynced \/ twin]_vars

\* A cycle that reports success left the remote with the local branch, and the
\* local branch with every file not edited since it was scanned (RunBackup's
\* unpushed check): unless somebody moved the remote back since our last push.
SuccessMeansStored ==
    [][\A g \in Gens :
         op[g].at \in {"read", "push"} /\ op'[g].at = "idle" /\ g = current /\ status' = "ok" =>
            \/ twin
            \/ /\ rewound' \/ head' \in History(remote)' \union {0}
               /\ \A p \in Paths : p \in op[g].touched \/ Tree(head)'[p] = live[p]]_vars

\* Commits of others leave the remote branch only through a forced push that
\* had compared with the very tip it drops, or with a branch it took for its
\* own or for absent (ForcePush holds no lease then).
ForceSeesWhatItDrops ==
    [][remote' # remote /\ ~rewound' /\ remote \notin History(remote)' \union {0} =>
         \E w \in Workers : op[w].at = "push" /\ op[w].kind = "force" /\ op[w].tip \in {0, remote}]_vars

\* At most one scheduler goroutine runs: the old one is gone before the new
\* Repository starts (Manager.Reconfigure, bootInBackground, Scheduler.Stop).
OneScheduler == Cardinality({g \in Gens : sched[g] # "off"}) <= 1

\* Once the settings say disabled and the handler that wrote them is done,
\* nothing backs up any more, in whatever order the boot, a Reconfigure and a
\* Disable took reconfigMu (Manager.Disable, bootInBackground).
DisabledStaysOff ==
    ~conf /\ admin.at = "idle" => current = 0 /\ \A g \in Gens : sched[g] = "off"

\* Neither direction undoes an edit: a pull not the wiki's, a commit not the others'.
EditsKept == PullKeepsEdits /\ CommitsOnlyEdits

\* One goroutine at most works for the settings that hold, and none against them.
SchedulerSound == TypeOK /\ OneScheduler /\ DisabledStaysOff
=============================================================================

------------------------------ MODULE Importer ------------------------------
(***************************************************************************)
(* The bulk importer (internal/importer, internal/wiki/importer): an upload *)
(* is unpacked into a workspace and planned; a goroutine executes the plan  *)
(* item by item against the live wiki, persisting its progress; it can be   *)
(* cancelled, and is resumed at boot if the process stopped in the middle.  *)
(*                                                                          *)
(* Target paths are sequences of slugs.  The hash of the tree is the stamps *)
(* of its pages, the metadata of which every write renews and the files     *)
(* keep over a restart.  Assets and the wording of links are left out.      *)
(***************************************************************************)
EXTENDS Naturals, Sequences, SequencesExt, FiniteSets

CONSTANTS
    Paths,       \* the paths a page may have, sequences of slugs
    Index,       \* the name of a directory's own page
    Packages,    \* archives: their Markdown files in the order of the plan
    None,
    Calls,       \* upload and clear requests
    MaxRuns,     \* bound: executions, resumed ones included
    MaxPlans,    \* bound: uploads
    MaxEvents    \* bound: edits, crashes, failed writes of the state file and removals, and uploads, which count twice

Target(f) == IF f.name = Index THEN f.dir ELSE Append(f.dir, f.name)

SourceFiles == UNION {ToSet(package) : package \in Packages}
Statuses == {"planned", "running", "completed", "failed", "canceled"}

Hashes == [Paths -> Nat]
Texts == [kind : {"empty", "typed", "imported"}, attempt : Nat, file : SourceFiles \union {None},
          package : Packages \union {<<>>}, link : Paths \union {<<>>, None}]
LivePages == [stamp : Nat, body : Texts]
StoredPlans == [id : Nat, package : Packages, hash : Hashes, actions : Seq({"create", "skip"}), status : Statuses,
                cancel : BOOLEAN, processed : Nat, items : Seq({"created", "skipped", "error"}),
                last : Hashes \union {None}, attempt : Nat]

\* The files of an archive have different names.
ASSUME ImporterAssumption ==
    /\ <<>> \notin Paths
    /\ \A p \in Paths : p \in Seq(ToSet(p)) /\ (Len(p) > 1 => Front(p) \in Paths)
    /\ \A package \in Packages :
         /\ package \in Seq(ToSet(package))
         /\ \A i, j \in DOMAIN package : package[i] = package[j] => i = j
    /\ \A f \in SourceFiles : f.dir \in Seq(ToSet(f.dir)) /\ Target(f) \in Paths \union {<<>>}
    /\ None \notin Hashes /\ None \notin LivePages /\ None \notin StoredPlans
    /\ {MaxRuns, MaxPlans, MaxEvents} \subseteq Nat

Runs == 1 .. MaxRuns
Plans == 1 .. MaxPlans

VARIABLES
    pages,     \* the live tree: the page at each path, or None
    store,     \* PlanStore.plan
    disk,      \* its state file
    broken,    \* PlanStore.stateErr
    files,     \* the plans whose workspace is on disk
    run,       \* the goroutines that execute plans
    call,      \* the upload and clear requests in progress
    clock, starts, plans, events,  \* stamps and bounded counters
    wrote,     \* history: <<attempt, item>> imported and not to be done again
    touched,   \* history: <<attempt, path>> changed by others while the attempt ran
    raced,     \* history: attempts on a plan executed before, or that a request is clearing
    late       \* history: imports written after the last cancellation was accepted

history == <<wrote, touched, raced, late>>
vars == <<pages, store, disk, broken, files, run, call, clock, starts, plans, events, history>>

-----------------------------------------------------------------------------
(* Plans: analyzeEntry, CreatePlan *)

FilePath(f) == Append(f.dir, f.name)
Targets(package) == {Target(package[i]) : i \in DOMAIN package}

Hash == [p \in Paths |-> IF pages[p] = None THEN 0 ELSE pages[p].stamp]

\* The links of the package: resolvePagePath, resolveUniqueTargetPathSuffix.
\* A link that is not absolute is tried from the directory of its page first.
Bases(f, link) == IF link.absolute THEN <<link.path>> ELSE <<f.dir \o link.path, link.path>>

FilesAt(package, base) ==
    LET page == {g \in ToSet(package) : FilePath(g) = base}
    IN  IF page # {} THEN page ELSE {g \in ToSet(package) : FilePath(g) = Append(base, Index)}

Resolve(package, f, link) ==
    LET bases == Bases(f, link)
        exact == {n \in DOMAIN bases : FilesAt(package, bases[n]) # {}}
        named == {Target(g) : g \in {h \in ToSet(package) : ~link.absolute /\ h.name # Index /\ <<h.name>> = link.path}}
        ending == {t \in Targets(package) : Len(link.path) > 1 /\ IsSuffix(link.path, t)}
    IN  CASE exact # {} -> Target(CHOOSE g \in FilesAt(package, bases[Min(exact)]) : TRUE)
          [] exact = {} /\ Cardinality(named) = 1 -> CHOOSE t \in named : TRUE
          [] exact = {} /\ Cardinality(named) # 1 /\ Cardinality(ending) = 1 -> CHOOSE t \in ending : TRUE
          [] OTHER -> None

-----------------------------------------------------------------------------
(* PlanStore: every operation under its lock, persisted before it returns *)

Room(n) == 2 * plans + events + n <= MaxEvents
Event == Room(1) /\ events' = events + 1
NoEvent == UNCHANGED events

\* A failed write of the state file makes the store refuse until the restart.
Persist(new) ==
    /\ store' = new
    /\ \/ disk' = new /\ UNCHANGED broken /\ NoEvent
       \/ broken' = TRUE /\ UNCHANGED disk /\ Event

Running == store # None /\ store.status = "running"

NewPlan(id, package, hash, actions) ==
    [id |-> id, package |-> package, hash |-> hash, actions |-> actions, status |-> "planned",
     cancel |-> FALSE, processed |-> 0, items |-> <<>>, last |-> None, attempt |-> 0]

Off == [at |-> "off", plan |-> None, index |-> 0, first |-> 0, items |-> <<>>, last |-> None, error |-> "none"]

\* executeStoredPlan with what the store says was done.
Execution(plan) ==
    [Off EXCEPT !.at = "check", !.plan = plan, !.index = plan.processed, !.first = plan.processed,
                !.items = plan.items, !.last = plan.last]

\* TryStartExecution
Start ==
    /\ ~broken /\ store # None /\ store.status \in {"planned", "failed", "canceled"}
    /\ starts < MaxRuns /\ starts' = starts + 1
    /\ LET plan == [store EXCEPT !.status = "running", !.cancel = FALSE, !.processed = 0, !.items = <<>>,
                                 !.last = None, !.attempt = starts + 1]
       IN  /\ Persist(plan)
           /\ run' = IF broken' THEN run ELSE [run EXCEPT ![starts + 1] = Execution(plan)]
    /\ raced' = IF store.attempt # 0 \/ store.id \notin files \/ \E c \in Calls : call[c].old = store.id THEN raced \union {starts + 1} ELSE raced
    /\ UNCHANGED <<pages, files, call, clock, plans, wrote, touched, late>>

-----------------------------------------------------------------------------
(* Execution: Executor.Execute *)

Text(kind) == [kind |-> kind, attempt |-> 0, file |-> None, package |-> <<>>, link |-> None]

Ours(r) == store # None /\ store.id = run[r].plan.id
Item(r) == run[r].plan.package[run[r].index + 1]

\* UpdateExecutionProgress: an error is logged and the execution goes on.
Progress(r, processed) ==
    IF ~broken /\ Ours(r)
    THEN Persist([store EXCEPT !.processed = processed, !.items = run'[r].items, !.last = run'[r].last])
    ELSE UNCHANGED <<store, disk, broken>> /\ NoEvent

\* The plan must fit the tree it was made for, a resumed one the tree it left.
Mutant_TrustsResume(r) == run[r].first > 0 \/ run[r].plan.hash = Hash
Fresh(r) == (IF run[r].first > 0 THEN run[r].last ELSE run[r].plan.hash) = Hash

Check(r) ==
    /\ run[r].at = "check"
    /\ IF Fresh(r)
       THEN run' = [run EXCEPT ![r].at = "next"] /\ Progress(r, run[r].first)
       ELSE run' = [run EXCEPT ![r].at = "finish", ![r].error = "failed"] /\ UNCHANGED <<store, disk, broken>> /\ NoEvent
    /\ UNCHANGED <<pages, files, call, clock, starts, plans, history>>

\* IsCancelRequested looks at the plan in memory only.
CancelSeen(r) == Ours(r) /\ store.cancel

NextItem(r) ==
    /\ run[r].at = "next"
    /\ LET more == run[r].index < Len(run[r].plan.package)
       IN  IF more /\ CancelSeen(r)
           THEN run' = [run EXCEPT ![r].at = "finish", ![r].error = "canceled"] /\ UNCHANGED <<store, disk, broken>> /\ NoEvent
           ELSE /\ run' = IF more THEN [run EXCEPT ![r].at = run[r].plan.actions[run[r].index + 1]]
                          ELSE [run EXCEPT ![r].at = "finish", ![r].last = Hash]
                /\ Progress(r, run[r].index)
    /\ UNCHANGED <<pages, files, call, clock, starts, plans, history>>

\* An item that failed is counted as skipped; progress is not reported for it.
Mutant_Retries(r) == [run[r] EXCEPT !.at = "next"]
Failed(r) == [run[r] EXCEPT !.at = "next", !.index = @ + 1, !.items = Append(@, "error")]

Touch(r, changed) ==
    touched' = touched \union {t \in (1 .. starts) \X changed : t[1] # run[r].plan.attempt}

\* EnsurePath creates the page and the sections above it, in one lock.
Ensure(r) ==
    LET target == Target(Item(r))
        new == {p \in Paths : IsPrefix(p, target) /\ pages[p] = None}
    IN  /\ run[r].at = "create"
        /\ IF target = <<>> THEN run' = [run EXCEPT ![r] = Failed(r)] /\ UNCHANGED <<pages, clock, touched>>
           ELSE /\ pages' = [p \in Paths |-> IF p \in new THEN [stamp |-> clock + Len(p), body |-> Text("empty")] ELSE pages[p]]
                /\ clock' = IF new = {} THEN clock ELSE clock + Len(target)
                /\ run' = [run EXCEPT ![r].at = "write"]
                /\ Touch(r, new)
        /\ UNCHANGED <<store, disk, broken, files, call, starts, plans, events, wrote, raced, late>>

\* The source is read and the page updated; an item done is reported at once.
Imported(r, f) ==
    [kind |-> "imported", attempt |-> run[r].plan.attempt, file |-> f, package |-> run[r].plan.package,
     link |-> IF f.link = None THEN None ELSE Resolve(run[r].plan.package, f, f.link)]

Write(r) ==
    LET f == Item(r)
        p == Target(f)
    IN  /\ run[r].at = "write"
        /\ IF run[r].plan.id \in files /\ pages[p] # None
           THEN /\ pages' = [pages EXCEPT ![p] = [stamp |-> clock + 1, body |-> Imported(r, f)]]
                /\ clock' = clock + 1
                /\ run' = [run EXCEPT ![r].at = "report", ![r].items = Append(@, "created")]
                /\ wrote' = wrote \union {<<run[r].plan.attempt, run[r].index + 1>>}
                /\ late' = IF Ours(r) /\ store.cancel THEN late + 1 ELSE late
                /\ Touch(r, {p}) /\ UNCHANGED raced
           ELSE run' = [run EXCEPT ![r] = Failed(r)] /\ UNCHANGED <<pages, clock, history>>
        /\ UNCHANGED <<store, disk, broken, files, call, starts, plans, events>>

Skip(r) ==
    /\ run[r].at = "skip"
    /\ run' = [run EXCEPT ![r].at = "report", ![r].items = Append(@, "skipped")]
    /\ UNCHANGED <<pages, store, disk, broken, files, call, clock, starts, plans, events, history>>

Reported(r) == run[r].index + 1
Report(r) ==
    /\ run[r].at = "report"
    /\ run' = [run EXCEPT ![r].at = "next", ![r].index = @ + 1, ![r].last = Hash]
    /\ Progress(r, Reported(r))
    /\ UNCHANGED <<pages, files, call, clock, starts, plans, history>>

\* FinishExecution; if it is not persisted the workspace is kept.  A stale plan
\* has no result: what was recorded of it before is given up.
Finish(r) ==
    LET status == IF run[r].error = "none" THEN "completed" ELSE run[r].error
        result == IF run[r].error = "failed" THEN Off ELSE run[r]
        finished == [store EXCEPT !.status = status, !.cancel = FALSE, !.items = result.items, !.last = result.last,
                                  !.processed = IF status = "completed" THEN Len(run[r].plan.package) ELSE @]
    IN  /\ run[r].at = "finish"
        /\ IF ~broken /\ Ours(r) THEN Persist(finished) ELSE UNCHANGED <<store, disk, broken>> /\ NoEvent
        /\ run' = [run EXCEPT ![r] = IF broken' THEN Off ELSE [run[r] EXCEPT !.at = "clean"]]
        /\ UNCHANGED <<pages, files, call, clock, starts, plans, history>>

\* cleanupWorkspace, which only logs that it failed.
Clean(r) ==
    /\ run[r].at = "clean"
    /\ \/ files' = files \ {run[r].plan.id} /\ NoEvent
       \/ UNCHANGED files /\ Event
    /\ run' = [run EXCEPT ![r] = Off]
    /\ UNCHANGED <<pages, store, disk, broken, call, clock, starts, plans, history>>

-----------------------------------------------------------------------------
(* Requests: an upload and a clear look at the old plan, then remove it *)

Idle == [at |-> "idle", id |-> 0, package |-> <<>>, old |-> 0, hash |-> None]
Then(c, at) == call' = [call EXCEPT ![c].at = at]
Done(c) == call' = [call EXCEPT ![c] = Idle]

Busy == Running

\* CreateImportPlanFromZipUpload up to the look at the old plan.
Upload(c, package) ==
    /\ call[c].at = "idle" /\ Room(2) /\ plans < MaxPlans /\ plans' = plans + 1
    /\ IF ~broken /\ Busy THEN UNCHANGED <<call, files>>
       ELSE /\ files' = files \union {plans + 1}
            /\ call' = [call EXCEPT ![c] = [Idle EXCEPT !.at = IF broken \/ store = None THEN "hash" ELSE "sweep",
                            !.id = plans + 1, !.package = package,
                            !.old = IF broken \/ store = None THEN 0 ELSE store.id]]
    /\ UNCHANGED <<pages, store, disk, broken, run, clock, starts, events, history>>

\* ClearImportPlanUseCase: a running import is cancelled, another one cleared.
Cancel(c) ==
    /\ call[c].at = "idle" /\ ~broken /\ Running
    /\ ~store.cancel /\ Persist([store EXCEPT !.cancel = TRUE])
    /\ late' = 0
    /\ UNCHANGED <<pages, files, run, call, clock, starts, plans, wrote, touched, raced>>

Clear(c) ==
    /\ call[c].at = "idle" /\ ~broken /\ store # None /\ ~Running
    /\ call' = [call EXCEPT ![c] = [Idle EXCEPT !.at = "sweep", !.old = store.id]]
    /\ UNCHANGED <<pages, store, disk, broken, files, run, clock, starts, plans, events, history>>

\* A workspace that cannot be removed, or only in part, ends an upload, which
\* removes its own; a clear goes on.
SweepFails(c) ==
    /\ Event
    /\ \E left \in {files, files \ {call[c].old}} : files' = left \ {call[c].id}
    /\ IF call[c].id = 0 THEN Then(c, "clear") ELSE Done(c)

Sweep(c) ==
    /\ call[c].at = "sweep"
    /\ \/ files' = files \ {call[c].old} /\ Then(c, "clear") /\ NoEvent
       \/ SweepFails(c)
    /\ UNCHANGED <<pages, store, disk, broken, run, clock, starts, plans, history>>

\* A request whose store refuses removes its own workspace.
ClearStore(c) ==
    /\ call[c].at = "clear"
    /\ IF broken THEN UNCHANGED <<store, disk, broken>> /\ NoEvent ELSE Persist(None)
    /\ IF broken' \/ call[c].id = 0 THEN Done(c) ELSE Then(c, "hash")
    /\ files' = IF broken' THEN files \ {call[c].id} ELSE files
    /\ UNCHANGED <<pages, run, clock, starts, plans, history>>

\* CreatePlan: the hash first, then a look at every target.
TakeHash(c) ==
    /\ call[c].at = "hash"
    /\ call' = [call EXCEPT ![c].at = "set", ![c].hash = Hash]
    /\ UNCHANGED <<pages, store, disk, broken, files, run, clock, starts, plans, events, history>>

Exists(p) == p # <<>> /\ pages[p] # None
SetPlan(c) ==
    LET package == call[c].package
        actions == [i \in DOMAIN package |-> IF Exists(Target(package[i])) THEN "skip" ELSE "create"]
    IN  /\ call[c].at = "set"
        /\ IF broken THEN UNCHANGED <<store, disk, broken>> /\ NoEvent
           ELSE Persist(NewPlan(call[c].id, package, call[c].hash, actions))
        /\ files' = IF broken' THEN files \ {call[c].id} ELSE files
        /\ Done(c)
        /\ UNCHANGED <<pages, run, clock, starts, plans, history>>

-----------------------------------------------------------------------------
(* Everyone else *)

Edit(p) ==
    /\ Event
    /\ Len(p) > 1 => pages[Front(p)] # None
    /\ pages' = [pages EXCEPT ![p] = [stamp |-> clock + 1, body |-> Text("typed")]]
    /\ clock' = clock + 1
    /\ touched' = touched \union ((1 .. starts) \X {p})
    /\ UNCHANGED <<store, disk, broken, files, run, call, starts, plans, wrote, raced, late>>

Delete(p) ==
    /\ Event
    /\ pages[p] # None
    /\ pages' = [q \in Paths |-> IF IsPrefix(p, q) THEN None ELSE pages[q]]
    /\ touched' = touched \union ((1 .. starts) \X {q \in Paths : IsPrefix(p, q)})
    /\ UNCHANGED <<store, disk, broken, files, run, call, clock, starts, plans, wrote, raced, late>>

\* The process stops and starts again: resumeInterruptedExecution.
Mutant_NoResume == FALSE
Interrupted == disk # None /\ disk.status = "running"

Restart ==
    /\ Event
    /\ Interrupted => starts < MaxRuns
    /\ store' = disk /\ broken' = FALSE
    /\ call' = [c \in Calls |-> Idle]
    /\ starts' = IF Interrupted THEN starts + 1 ELSE starts
    /\ run' = [r \in Runs |-> IF Interrupted /\ r = starts + 1 THEN Execution(disk) ELSE Off]
    /\ touched' = {t \in touched : Interrupted /\ t[1] = disk.attempt => disk.last # None /\ disk.last[t[2]] = Hash[t[2]]}
    /\ wrote' = {w \in wrote : Interrupted /\ w[1] = disk.attempt => w[2] <= disk.processed}
    /\ UNCHANGED <<pages, disk, files, clock, plans, raced, late>>

-----------------------------------------------------------------------------
Init ==
    /\ pages = [p \in Paths |-> None]
    /\ store = None /\ disk = None /\ broken = FALSE /\ files = {}
    /\ run = [r \in Runs |-> Off] /\ call = [c \in Calls |-> Idle]
    /\ clock = 0 /\ starts = 0 /\ plans = 0 /\ events = 0
    /\ wrote = {} /\ touched = {} /\ raced = {} /\ late = 0

Execute(r) ==
    Check(r) \/ NextItem(r) \/ Ensure(r) \/ Write(r) \/ Skip(r) \/ Report(r) \/ Finish(r) \/ Clean(r)
Handle(c) == Sweep(c) \/ ClearStore(c) \/ TakeHash(c) \/ SetPlan(c)

Next ==
    \/ Start \/ Restart
    \/ \E r \in Runs : Execute(r)
    \/ \E c \in Calls : Handle(c) \/ Cancel(c) \/ Clear(c) \/ \E package \in Packages : Upload(c, package)
    \/ \E p \in Paths : Edit(p) \/ Delete(p)

Spec == Init /\ [][Next]_vars

\* The goroutine that executes a plan is never stopped for good.
FairSpec == Spec /\ \A r \in Runs : WF_vars(Execute(r))

-----------------------------------------------------------------------------
(* Properties *)

\* Every variable keeps its shape, progress never passes the end of the plan
\* and no item's outcome is recorded twice.
TypeOK ==
    /\ \A p \in Paths : pages[p] # None => pages[p].stamp \in 1 .. clock
    /\ \A s \in {store, disk} : s # None =>
         /\ s.status \in Statuses /\ s.id \in 1 .. plans
         /\ s.processed <= Len(s.package) /\ Len(s.items) <= Len(s.package)
    /\ \A r \in Runs : run[r].at \in {"off", "check", "next", "create", "write", "skip", "report", "finish", "clean"}
    /\ files \subseteq Plans /\ broken \in BOOLEAN

\* An import writes over text only where another file of the same attempt has
\* the same target, or where somebody else changed the page while the import
\* ran; after a crash, only what the recorded hash of the tree knew counts for
\* that (the stale plan check of Executor.Execute).
OverwritesOnlyOwn ==
    [][\A r \in Runs :
         run[r].at = "write" /\ run'[r].at = "report" =>
            LET p == Target(Item(r))
            IN  \/ pages[p].body.kind = "empty"
                \/ <<run[r].plan.attempt, p>> \in touched
                \/ pages[p].body.kind = "imported" /\ pages[p].body.attempt = run[r].plan.attempt
                     /\ pages[p].body.file # Item(r)]_vars

\* The result of a completed import is true over any number of crashes: it
\* has one outcome per item, and says created of exactly the items written in
\* this attempt (UpdateExecutionProgress, WithResumeState).
ResultTrue ==
    store # None /\ store.status = "completed" =>
        /\ Len(store.items) = Len(store.package)
        /\ \A i \in DOMAIN store.items : store.items[i] = "created" <=> <<store.attempt, i>> \in wrote

\* A plan that the store calls running is being executed, so that uploads are
\* not refused for ever, unless the store has broken (resumeInterruptedExecution).
RunningIsRun ==
    Running /\ ~broken => \E r \in Runs : run[r].at \notin {"off", "clean"} /\ run[r].plan.id = store.id

\* Its workspace is there, unless the plan was executed before, or a request
\* that looked at it before it was started clears it (ClearCurrentPlan,
\* CreateImportPlanFromFolder).
FilesWhileRunning ==
    \A r \in Runs :
        run[r].at \notin {"off", "clean"} /\ run[r].plan.attempt \notin raced => run[r].plan.id \in files

\* After a cancellation was accepted at most the item in progress is imported,
\* a restart included (IsCancelRequested).
CancelStops == late <= 1

Linked == {p \in Paths : pages[p] # None /\ pages[p].body.link # None}

\* The targets of items that were skipped for a page that was gone again when
\* the hash of the tree was taken, or was made after it (CreatePlan).
SkippedInVain == {Target(store.package[i]) : i \in {n \in DOMAIN store.items : store.items[n] = "skipped" /\ store.hash[Target(store.package[n])] = 0}}

\* A link to a file next to the page leads to that file's page, and after an
\* import that went through undisturbed every link leads to a page, or to one
\* that was skipped in vain (resolvePagePath).
LinksLead ==
    \A p \in Linked :
        LET body == pages[p].body
            dir == body.file.dir
            near == {g \in ToSet(body.package) : g.name # Index /\ FilePath(g) = dir \o body.file.link.path}
        IN  /\ near # {} /\ ~body.file.link.absolute => body.link \in {Target(g) : g \in near}
            /\ (/\ store # None /\ store.status = "completed" /\ store.attempt = body.attempt
                /\ ToSet(store.items) \subseteq {"created", "skipped"} /\ \A t \in touched : t[1] # body.attempt)
               => body.link \in {<<>>} \union {q \in Paths : pages[q] # None} \union SkippedInVain

\* What the store says of an import is so, while it runs and when it is done.
PlanTrue == TypeOK /\ ResultTrue /\ RunningIsRun /\ FilesWhileRunning /\ CancelStops /\ LinksLead

\* An import that runs comes to an end, whatever its items run into
\* (Executor.Execute, FinishExecution).
Ends == (Running /\ ~broken) ~> (~Running \/ broken)
=============================================================================

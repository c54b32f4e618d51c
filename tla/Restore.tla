------------------------------- MODULE Restore -------------------------------
(***************************************************************************)
(* The live restore of LeafWiki (internal/restore): the Manager that runs   *)
(* at most one restore at a time, its Job, the WriteGate that keeps         *)
(* mutating HTTP requests out, and the swapper that renames the live items  *)
(* of the data directory aside and the staged ones in.                      *)
(*                                                                          *)
(* An item of the data directory is its position in swapNames, and its      *)
(* content is the number of the restore that installed it (0: from before   *)
(* any restore).  Every file operation may fail, the goroutine may panic    *)
(* and the process may die between any two steps.                           *)
(***************************************************************************)
EXTENDS Integers, FiniteSets

CONSTANTS
    NItems,       \* length of swapNames
    UsersDB,      \* the position of users.db in it
    StateStores,  \* Config.Stores: state databases this process has open
    DBFiles,      \* walSidecarDBNames: items that are SQLite files
    Dirs,         \* items that are directories (root, assets, ...)
    Settings,     \* Config.Reloadables: cached JSON settings files
    BootCreates,  \* items a boot creates when they are missing
    Requests,     \* mutating HTTP requests
    Clients,      \* clients that log in
    Callers,      \* concurrent calls of TriggerRestore*
    MaxRuns,      \* bound: restores started
    MaxBoots      \* bound: restarts of the process

Items == 1 .. NItems
Stores == StateStores \union {UsersDB}

ASSUME ConstantsAssumption ==
    /\ NItems \in Nat \ {0}
    /\ UsersDB \in Items
    /\ StateStores \subseteq DBFiles
    /\ UsersDB \in DBFiles
    /\ DBFiles \subseteq Items
    /\ Dirs \subseteq Items
    /\ Dirs \intersect DBFiles = {}
    /\ Settings \subseteq Items
    /\ BootCreates \subseteq Items
    /\ DBFiles \intersect Stores \subseteq BootCreates
    /\ MaxRuns \in Nat
    /\ MaxBoots \in Nat

\* Contents of an item that no restore installed.
Absent == 0 - 1
Empty  == 0 - 2      \* created fresh by a boot or by a late request
Content == {Absent, Empty} \union Nat

VARIABLES
    job,       \* Job: running, done, failed (err # nil), needs (needsIntervention)
    pending,   \* callers between the Status() check and Start()
    gate,      \* WriteGate.engaged
    inflight,  \* requests admitted by TryEnter that have not left
    drained,   \* WaitForDrain's result in this run
    pc,        \* next step of the restore goroutine
    todo,      \* items the current loop has still to visit
    errs,      \* the current loop accumulated an error
    staged,    \* items present in the staging directory
    moved,     \* items with movedAside set
    swapped,   \* items with swapped set
    live,      \* content at every item's live path
    pre,       \* content at this run's .pre-restore-* path
    orphans,   \* .pre-restore-* copies left by earlier runs
    wal,       \* databases no store has open whose -wal holds unflushed data
    conn,      \* every store's connection: open or suspended
    bound,     \* the content every open store was opened on
    cache,     \* the content every settings service has in memory
    sessions,  \* live sessions: the client and the users.db they were issued against
    login,     \* logins that have read users.db and not yet issued their session
    spared,    \* history: clients InvalidateAllSessions may have missed in this run
    run,       \* number of restores started
    boots,     \* number of restarts
    base,      \* history: live when the current run started
    committed, \* history: the run passed CommitAll
    forced     \* history: since the boot a restore started over an intervention

jobVars   == <<job, pending, run>>
gateVars  == <<gate, inflight, drained>>
loopVars  == <<pc, todo, errs>>
swapVars  == <<staged, moved, swapped>>
diskVars  == <<live, pre, orphans, wal>>
storeVars == <<conn, bound, cache>>
authVars  == <<sessions, login, spared>>
histVars  == <<base, committed, boots, forced>>
vars == <<jobVars, gateVars, loopVars, swapVars, diskVars, storeVars, authVars, histVars>>

Steps == {"idle", "stage", "resolve", "validate", "engage", "drain", "pause",
          "sidecars", "release", "recover", "aside", "movein", "auth",
          "sessions", "stores", "reload", "commit", "disengage", "resync",
          "rbpause", "rbremove", "rbrename", "resettle", "rbdisengage"}

NoCopies == [i \in Items |-> Absent]

\* The loops visit the items in the order of swapNames.
IsNext(i) == i \in todo /\ \A j \in todo : i <= j

\* The .pre-restore-* copies nothing will put back any more: nobody deletes them.
Mutant_LeftoversCleaned == orphans
Leftovers == orphans \union {<<i, pre[i]>> : i \in {j \in Items : pre[j] # Absent}}

Init ==
    /\ job = [running |-> FALSE, done |-> FALSE, failed |-> FALSE, needs |-> FALSE]
    /\ pending = {}
    /\ gate = FALSE /\ inflight = {} /\ drained = FALSE
    /\ pc = "idle" /\ todo = {} /\ errs = FALSE
    /\ staged = {} /\ moved = {} /\ swapped = {}
    /\ live \in {f \in [Items -> {0, Absent}] : \A i \in BootCreates : f[i] = 0}
    /\ pre = NoCopies /\ orphans = {}
    /\ wal \in SUBSET (DBFiles \ Stores)
    /\ conn = [i \in Stores |-> "open"]
    /\ bound = [i \in Stores |-> live[i]]
    /\ cache = [i \in Settings |-> live[i]]
    /\ sessions = {} /\ login = {} /\ spared = Clients
    /\ run = 0 /\ boots = 0
    /\ base = live /\ committed = FALSE /\ forced = FALSE

-----------------------------------------------------------------------------
(* Job *)

Finish(failed) ==
    job' = [job EXCEPT !.running = FALSE, !.done = TRUE, !.failed = failed]

FinishNeedsIntervention ==
    job' = [running |-> FALSE, done |-> TRUE, failed |-> TRUE, needs |-> TRUE]

\* The goroutine ends with the job marked done.
End(failed) == pc' = "idle" /\ todo' = {} /\ errs' = FALSE /\ Finish(failed)
Intervene   == pc' = "idle" /\ todo' = {} /\ errs' = FALSE /\ FinishNeedsIntervention

Goto(step, set) == pc' = step /\ todo' = set /\ errs' = FALSE

-----------------------------------------------------------------------------
(* Manager.TriggerRestore and TriggerRestoreFromUpload *)

\* The first look at the job; a caller that sees needsIntervention returns.
CheckIntervention(c) ==
    /\ c \notin pending
    /\ ~job.needs
    /\ pending' = pending \union {c}
    /\ UNCHANGED <<job, run, gateVars, loopVars, swapVars, diskVars, storeVars, authVars, histVars>>

\* Job.Start, in a lock section of its own.
Start(c, entry) ==
    /\ c \in pending
    /\ ~job.running
    /\ run < MaxRuns
    /\ pending' = pending \ {c}
    /\ job' = [running |-> TRUE, done |-> FALSE, failed |-> FALSE, needs |-> FALSE]
    /\ run' = run + 1
    /\ Goto(entry, {})
    /\ staged' = {} /\ moved' = {} /\ swapped' = {}
    /\ pre' = NoCopies /\ orphans' = Leftovers
    /\ drained' = FALSE /\ spared' = Clients
    /\ base' = live
    /\ committed' = FALSE /\ forced' = (forced \/ job.needs)
    /\ UNCHANGED <<gate, inflight, live, wal, storeVars, sessions, login, boots>>

\* ErrRestoreAlreadyRunning
StartRefused(c) ==
    /\ c \in pending
    /\ job.running
    /\ pending' = pending \ {c}
    /\ UNCHANGED <<job, run, gateVars, loopVars, swapVars, diskVars, storeVars, authVars, histVars>>

\* stageUpload drains the request body; SnapshotZipPath resolves an id.
Prepare ==
    /\ pc \in {"stage", "resolve"}
    /\ \/ Goto("validate", {}) /\ UNCHANGED job
       \/ End(TRUE)
    /\ UNCHANGED <<pending, run, gateVars, swapVars, diskVars, storeVars, authVars, histVars>>

-----------------------------------------------------------------------------
(* Manager.runFromZipPath, up to the swap *)

\* extractAndValidate: users.db is required, every other item is optional.
Validate ==
    /\ pc = "validate"
    /\ \/ /\ \E S \in SUBSET Items : UsersDB \in S /\ staged' = S
          /\ Goto("engage", {})
          /\ UNCHANGED job
       \/ End(TRUE) /\ UNCHANGED staged
    /\ UNCHANGED <<pending, run, gateVars, moved, swapped, diskVars, storeVars, authVars, histVars>>

Engage ==
    /\ pc = "engage"
    /\ gate' = TRUE
    /\ Goto("drain", {})
    /\ UNCHANGED <<jobVars, inflight, drained, swapVars, diskVars, storeVars, authVars, histVars>>

Mutant_DrainForever ==
    /\ pc = "drain"
    /\ inflight = {}
    /\ drained' = TRUE
    /\ Goto("pause", Stores)
    /\ UNCHANGED <<jobVars, gate, inflight, swapVars, diskVars, storeVars, authVars, histVars>>

\* WaitForDrain; its timeout does not stop the restore.
Drain ==
    /\ pc = "drain"
    /\ drained' = (inflight = {})
    /\ Goto("pause", Stores)
    /\ UNCHANGED <<jobVars, gate, inflight, swapVars, diskVars, storeVars, authVars, histVars>>

\* PauseForSwap suspends the store even when closing it fails.
PauseStore ==
    /\ pc = "pause"
    /\ \E i \in todo :
         /\ IsNext(i)
         /\ conn' = [conn EXCEPT ![i] = "suspended"]
         /\ \/ todo' = todo \ {i} /\ UNCHANGED <<pc, errs>>
            \/ Goto("release", {})
    /\ UNCHANGED <<jobVars, gateVars, swapVars, diskVars, bound, cache, authVars, histVars>>

StoresPaused ==
    /\ pc = "pause" /\ todo = {}
    /\ Goto("sidecars", {})
    /\ UNCHANGED <<jobVars, gateVars, swapVars, diskVars, storeVars, authVars, histVars>>

Mutant_OpenStoresOnly ==
    /\ pc = "sidecars"
    /\ \/ /\ wal' = wal \ (staged \intersect Stores)
          /\ Goto("aside", staged)
       \/ /\ \E R \in SUBSET (staged \intersect Stores) : wal' = wal \ R
          /\ Goto("release", {})
    /\ UNCHANGED <<jobVars, gateVars, swapVars, live, pre, orphans, storeVars, authVars, histVars>>

\* removeStaleWALSidecars for every staged database; newSwapper.
CleanSidecars ==
    /\ pc = "sidecars"
    /\ \/ /\ wal' = wal \ (staged \intersect DBFiles)
          /\ Goto("aside", staged)
       \/ /\ \E R \in SUBSET (staged \intersect DBFiles) : wal' = wal \ R
          /\ Goto("release", {})
    /\ UNCHANGED <<jobVars, gateVars, swapVars, live, pre, orphans, storeVars, authVars, histVars>>

Mutant_ReleaseWithoutReopen ==
    /\ pc = "release"
    /\ gate' = FALSE
    /\ End(TRUE)
    /\ UNCHANGED <<pending, run, inflight, drained, swapVars, diskVars, storeVars, authVars, histVars>>

\* A pause or a clean-up failed: the gate opens before the stores are reopened.
Release ==
    /\ pc = "release"
    /\ gate' = FALSE
    /\ Goto("recover", Stores)
    /\ UNCHANGED <<jobVars, inflight, drained, swapVars, diskVars, storeVars, authVars, histVars>>

-----------------------------------------------------------------------------
(* swapper.SwapAll *)

MoveAside ==
    /\ pc = "aside"
    /\ \E i \in todo :
         /\ IsNext(i)
         /\ \/ /\ moved' = moved \union {i}
               /\ pre' = [pre EXCEPT ![i] = live[i]]
               /\ live' = [live EXCEPT ![i] = Absent]
               /\ pc' = "movein" /\ UNCHANGED <<todo, errs>>
            \/ /\ live[i] # Absent
               /\ Goto("rbpause", {})
               /\ UNCHANGED <<moved, pre, live>>
    /\ UNCHANGED <<jobVars, gateVars, staged, swapped, orphans, wal, storeVars, authVars, histVars>>

MoveIn ==
    /\ pc = "movein"
    /\ \E i \in todo :
         /\ IsNext(i)
         /\ \/ /\ live[i] = Absent
               /\ live' = [live EXCEPT ![i] = run]
               /\ swapped' = swapped \union {i}
               /\ pc' = "aside" /\ todo' = todo \ {i} /\ UNCHANGED errs
            \/ /\ Goto("rbpause", {})
               /\ UNCHANGED <<live, swapped>>
    /\ UNCHANGED <<jobVars, gateVars, staged, moved, pre, orphans, wal, storeVars, authVars, histVars>>

SwapDone ==
    /\ pc = "aside" /\ todo = {}
    /\ Goto("auth", {})
    /\ UNCHANGED <<jobVars, gateVars, swapVars, diskVars, storeVars, authVars, histVars>>

\* A request still in flight after the drain timed out recreates the directory
\* it writes to while that directory is between its two renames.
LateWrite ==
    /\ pc \in {"movein", "rbrename"}
    /\ inflight # {}
    /\ \E i \in todo \intersect Dirs :
         /\ IsNext(i)
         /\ live[i] = Absent
         /\ live' = [live EXCEPT ![i] = Empty]
    /\ UNCHANGED <<jobVars, gateVars, loopVars, swapVars, pre, orphans, wal, storeVars, authVars, histVars>>

-----------------------------------------------------------------------------
(* Manager.runFromZipPath, after the swap *)

Reopen(i) ==
    /\ conn' = [conn EXCEPT ![i] = "open"]
    /\ bound' = [bound EXCEPT ![i] = live[i]]

Mutant_KeepsOldStore ==
    /\ pc = "auth"
    /\ \/ conn' = [conn EXCEPT ![UsersDB] = "open"] /\ UNCHANGED bound /\ Goto("sessions", {})
       \/ Goto("rbpause", {}) /\ UNCHANGED <<conn, bound>>
    /\ UNCHANGED <<jobVars, gateVars, swapVars, diskVars, cache, authVars, histVars>>

\* AuthService.ReplaceUserStore
ReplaceUserStore ==
    /\ pc = "auth"
    /\ \/ Reopen(UsersDB) /\ Goto("sessions", {})
       \/ Goto("rbpause", {}) /\ UNCHANGED <<conn, bound>>
    /\ UNCHANGED <<jobVars, gateVars, swapVars, diskVars, cache, authVars, histVars>>

\* InvalidateAllSessions; a failure is only logged.
InvalidateSessions ==
    /\ pc = "sessions"
    /\ \/ sessions' = {} /\ spared' = {l[1] : l \in login}
       \/ UNCHANGED <<sessions, spared>>
    /\ Goto("stores", StateStores)
    /\ UNCHANGED <<jobVars, gateVars, swapVars, diskVars, storeVars, login, histVars>>

ReplaceStore ==
    /\ pc = "stores"
    /\ \E i \in todo :
         /\ IsNext(i)
         /\ \/ Reopen(i) /\ todo' = todo \ {i} /\ UNCHANGED <<pc, errs>>
            \/ Goto("rbpause", {}) /\ UNCHANGED <<conn, bound>>
    /\ UNCHANGED <<jobVars, gateVars, swapVars, diskVars, cache, authVars, histVars>>

StoresReplaced ==
    /\ pc = "stores" /\ todo = {}
    /\ Goto("reload", {})
    /\ UNCHANGED <<jobVars, gateVars, swapVars, diskVars, storeVars, authVars, histVars>>

\* reloadAll attempts every settings service and fails if one failed; a
\* missing file keeps the value in memory.
ReloadSettings ==
    /\ pc = "reload"
    /\ \E ok \in SUBSET Settings :
         /\ cache' = [i \in Settings |->
                        IF i \in ok /\ live[i] # Absent THEN live[i] ELSE cache[i]]
         /\ Goto(IF ok = Settings THEN "commit" ELSE "rbpause", {})
    /\ UNCHANGED <<jobVars, gateVars, swapVars, diskVars, conn, bound, authVars, histVars>>

\* CommitAll; a copy that cannot be deleted is only logged.
CommitAll ==
    /\ pc = "commit"
    /\ \E kept \in SUBSET swapped :
         pre' = [i \in Items |-> IF i \in swapped \ kept THEN Absent ELSE pre[i]]
    /\ committed' = TRUE
    /\ Goto("disengage", {})
    /\ UNCHANGED <<jobVars, gateVars, swapVars, live, orphans, wal, storeVars, authVars, base, boots, forced>>

Disengage ==
    /\ pc \in {"disengage", "rbdisengage"}
    /\ gate' = FALSE
    /\ \/ pc = "disengage" /\ Goto("resync", {}) /\ UNCHANGED job
       \/ pc = "rbdisengage" /\ End(TRUE)
    /\ UNCHANGED <<pending, run, inflight, drained, swapVars, diskVars, storeVars, authVars, histVars>>

\* TriggerResync, which only starts a goroutine, and Finish(nil).
Succeed ==
    /\ pc = "resync"
    /\ End(FALSE)
    /\ UNCHANGED <<pending, run, gateVars, swapVars, diskVars, storeVars, authVars, histVars>>

-----------------------------------------------------------------------------
(* rollbackOrIntervene *)

\* pauseAllStoresForRollback suspends every store, also one reopened since.
AllSuspended == [i \in Stores |-> "suspended"]

\* RollbackAll visits what SwapAll touched: movedAside, not swapped.
Mutant_TouchedIsSwapped == swapped
Touched == moved

PauseForRollback ==
    /\ pc = "rbpause"
    /\ conn' = AllSuspended
    /\ Goto("rbremove", Touched)
    /\ UNCHANGED <<jobVars, gateVars, swapVars, diskVars, bound, cache, authVars, histVars>>

\* swapper.RollbackAll, one item: remove what is live ...
RollbackRemove ==
    /\ pc = "rbremove"
    /\ \E i \in todo :
         /\ IsNext(i)
         /\ \/ /\ live' = [live EXCEPT ![i] = Absent]
               /\ UNCHANGED errs
               /\ IF pre[i] = Absent
                  THEN /\ moved' = moved \ {i} /\ swapped' = swapped \ {i}
                       /\ todo' = todo \ {i} /\ UNCHANGED pc
                  ELSE pc' = "rbrename" /\ UNCHANGED <<moved, swapped, todo>>
            \/ /\ live[i] # Absent
               /\ \E c \in {live[i], Empty} : live' = [live EXCEPT ![i] = c]
               /\ errs' = TRUE /\ todo' = todo \ {i}
               /\ UNCHANGED <<pc, moved, swapped>>
    /\ UNCHANGED <<jobVars, gateVars, staged, pre, orphans, wal, storeVars, authVars, histVars>>

\* ... and put the .pre-restore-* copy back.
RollbackRename ==
    /\ pc = "rbrename"
    /\ \E i \in todo :
         /\ IsNext(i)
         /\ \/ /\ live[i] = Absent
               /\ live' = [live EXCEPT ![i] = pre[i]]
               /\ pre' = [pre EXCEPT ![i] = Absent]
               /\ moved' = moved \ {i} /\ swapped' = swapped \ {i}
               /\ UNCHANGED errs
            \/ errs' = TRUE /\ UNCHANGED <<live, pre, moved, swapped>>
         /\ todo' = todo \ {i}
         /\ pc' = "rbremove"
    /\ UNCHANGED <<jobVars, gateVars, staged, orphans, wal, storeVars, authVars, histVars>>

RollbackDone ==
    /\ pc = "rbremove" /\ todo = {}
    /\ \/ errs /\ Intervene
       \/ ~errs /\ Goto("resettle", Stores) /\ UNCHANGED job
    /\ UNCHANGED <<pending, run, gateVars, swapVars, diskVars, storeVars, authVars, histVars>>

\* reopenAllStores attempts every store and accumulates the errors.
ReopenStore ==
    /\ pc \in {"recover", "resettle"}
    /\ \E i \in todo :
         /\ IsNext(i)
         /\ \/ Reopen(i) /\ UNCHANGED errs
            \/ errs' = TRUE /\ UNCHANGED <<conn, bound>>
         /\ todo' = todo \ {i}
         /\ UNCHANGED pc
    /\ UNCHANGED <<jobVars, gateVars, swapVars, diskVars, cache, authVars, histVars>>

StoresReopened ==
    /\ pc \in {"recover", "resettle"} /\ todo = {}
    /\ \/ errs /\ Intervene
       \/ ~errs /\ pc = "recover" /\ End(TRUE)
       \/ ~errs /\ pc = "resettle" /\ Goto("rbdisengage", {}) /\ UNCHANGED job
    /\ UNCHANGED <<pending, run, gateVars, swapVars, diskVars, storeVars, authVars, histVars>>

\* runGuarded: the upload is staged outside of it, in the HTTP handler.
Panic ==
    /\ pc \notin {"idle", "stage"}
    /\ Intervene
    /\ UNCHANGED <<pending, run, gateVars, swapVars, diskVars, storeVars, authVars, histVars>>

-----------------------------------------------------------------------------
(* The rest of the process *)

\* WriteGateMiddleware: TryEnter and leave.
Admits == ~gate

TryEnter(r) ==
    /\ r \notin inflight
    /\ Admits
    /\ inflight' = inflight \union {r}
    /\ UNCHANGED <<jobVars, gate, drained, loopVars, swapVars, diskVars, storeVars, authVars, histVars>>

Leave(r) ==
    /\ r \in inflight
    /\ inflight' = inflight \ {r}
    /\ UNCHANGED <<jobVars, gate, drained, loopVars, swapVars, diskVars, storeVars, authVars, histVars>>

\* POST /auth/login is exempt from the gate: it reads users.db once ...
LoginRead(u) ==
    /\ conn[UsersDB] = "open"
    /\ \A l \in login : l[1] # u
    /\ login' = login \union {<<u, bound[UsersDB]>>}
    /\ UNCHANGED <<jobVars, gateVars, loopVars, swapVars, diskVars, storeVars, sessions, spared, histVars>>

\* ... and then issues a session in sessions.db.
LoginIssue(u) ==
    /\ \E l \in login :
         /\ l[1] = u
         /\ sessions' = sessions \union {l}
         /\ login' = login \ {l}
    /\ UNCHANGED <<jobVars, gateVars, loopVars, swapVars, diskVars, storeVars, spared, histVars>>

\* A crash at any point, or the self-restart an intervention asks for.  The
\* new process opens whatever is on disk and creates what it needs.
Restart ==
    /\ boots < MaxBoots
    /\ boots' = boots + 1
    /\ job' = [running |-> FALSE, done |-> FALSE, failed |-> FALSE, needs |-> FALSE]
    /\ pending' = {}
    /\ gate' = FALSE /\ inflight' = {} /\ drained' = FALSE
    /\ Goto("idle", {})
    /\ staged' = {} /\ moved' = {} /\ swapped' = {}
    /\ live' = [i \in Items |->
                  IF live[i] = Absent /\ i \in BootCreates THEN Empty ELSE live[i]]
    /\ pre' = NoCopies /\ orphans' = Leftovers
    /\ conn' = [i \in Stores |-> "open"]
    /\ bound' = [i \in Stores |-> live'[i]]
    /\ cache' = [i \in Settings |-> live'[i]]
    /\ login' = {} /\ spared' = Clients /\ forced' = FALSE
    /\ UNCHANGED <<run, wal, sessions, base, committed>>

-----------------------------------------------------------------------------

RestoreStep ==
    \/ Prepare \/ Validate \/ Engage \/ Drain
    \/ PauseStore \/ StoresPaused \/ CleanSidecars \/ Release
    \/ MoveAside \/ MoveIn \/ SwapDone
    \/ ReplaceUserStore \/ InvalidateSessions \/ ReplaceStore \/ StoresReplaced
    \/ ReloadSettings \/ CommitAll \/ Disengage \/ Succeed
    \/ PauseForRollback \/ RollbackRemove \/ RollbackRename \/ RollbackDone
    \/ ReopenStore \/ StoresReopened

Next ==
    \/ \E c \in Callers :
         \/ CheckIntervention(c)
         \/ Start(c, "resolve")
         \/ Start(c, "stage")
         \/ StartRefused(c)
    \/ RestoreStep
    \/ Panic
    \/ LateWrite
    \/ \E r \in Requests : TryEnter(r) \/ Leave(r)
    \/ \E u \in Clients : LoginRead(u) \/ LoginIssue(u)
    \/ Restart

Spec == Init /\ [][Next]_vars

\* The goroutine keeps running: no step of it waits for anybody, since the
\* wait for in-flight requests has a timeout.
FairSpec == Spec /\ WF_vars(RestoreStep)

(***************************************************************************)
(* Properties                                                              *)
(***************************************************************************)

\* What the data directory holds after a complete swap.
Target == [i \in Items |-> IF i \in staged THEN run ELSE base[i]]

Swapping == pc \in {"aside", "movein", "rbremove", "rbrename"}

JobTypeOK ==
    /\ job \in [running : BOOLEAN, done : BOOLEAN, failed : BOOLEAN, needs : BOOLEAN]
    /\ pending \subseteq Callers /\ run \in Nat
GateTypeOK ==
    gate \in BOOLEAN /\ inflight \subseteq Requests /\ drained \in BOOLEAN
LoopTypeOK ==
    pc \in Steps /\ todo \subseteq Items /\ errs \in BOOLEAN
SwapTypeOK ==
    staged \subseteq Items /\ moved \subseteq Items /\ swapped \subseteq Items
DiskTypeOK ==
    /\ live \in [Items -> Content] /\ pre \in [Items -> Content]
    /\ orphans \subseteq Items \X Content
    /\ wal \subseteq DBFiles \ Stores
StoreTypeOK ==
    /\ conn \in [Stores -> {"open", "suspended"}]
    /\ bound \in [Stores -> Content] /\ cache \in [Settings -> Content]
AuthTypeOK ==
    /\ sessions \subseteq Clients \X Content /\ login \subseteq Clients \X Content
    /\ spared \subseteq Clients
HistTypeOK ==
    /\ base \in [Items -> Content]
    /\ committed \in BOOLEAN /\ boots \in Nat /\ forced \in BOOLEAN

TypeOK ==
    /\ JobTypeOK /\ GateTypeOK /\ LoopTypeOK /\ SwapTypeOK
    /\ DiskTypeOK /\ StoreTypeOK /\ AuthTypeOK /\ HistTypeOK

\* A finished restore that asks for no intervention left every item restored,
\* or every item as it was, whatever failed on the way (rollbackOrIntervene).
AllOrNothing ==
    job.done /\ ~job.needs =>
        /\ job.failed = ~committed
        /\ live = IF committed THEN Target ELSE base

\* While the live items are partly old and partly restored, in the middle of a
\* swap or after a failed rollback, the gate refuses mutating requests.
GateCoversMixedData ==
    (job.running \/ job.done) /\ live \notin {base, Target} => gate

\* Until a restore commits, what every item held before it is still on disk,
\* in place or as a .pre-restore-* copy, through failures and crashes.
NothingLost ==
    ~committed =>
        \A i \in Items :
            base[i] # Absent =>
                \/ base[i] \in {live[i], pre[i]}
                \/ <<i, base[i]>> \in orphans

\* No store holds its file open while the swap or the rollback renames files
\* (PauseForSwap, pauseAllStoresForRollback).
HandlesReleased ==
    Swapping => \A i \in Stores : conn[i] = "suspended"

\* After a restore that needs no intervention the instance serves again: the
\* gate is open and every store is open on the file that is live, also when
\* pausing another store failed or a swap was undone.  (Not when a restore was
\* started over an intervention, between CheckIntervention and Start: it begins
\* with the gate engaged or with stores suspended, and may end that way.)
ServesAgain ==
    job.done /\ ~job.needs /\ ~forced =>
        /\ ~gate
        /\ \A i \in Stores : conn[i] = "open" /\ bound[i] = live[i]

\* Unless the drain timed out, no admitted request is still running while the
\* restore renames files: TryEnter counts it before Engage can return.
NoWriterWhileSwapping ==
    Swapping /\ drained => inflight = {}

\* What holds at every moment of a restore: the four above that relate the
\* files to the gate, the stores and the requests, and the types.
SwapIsSafe == TypeOK /\ GateCoversMixedData /\ NothingLost /\ HandlesReleased /\ NoWriterWhileSwapping

\* A restore that was started ends, whatever fails.
RestoreEnds == job.running ~> ~job.running

\* A restored database never lies beside the write-ahead log of the one it
\* replaced, which SQLite would replay into it (removeStaleWALSidecars).
NoForeignLog ==
    \A i \in wal : live[i] \in {0, Absent, Empty}

\* After a restore a session is for the account as restored: no login can still
\* read the users.db from before, except of a client whose login
\* InvalidateAllSessions met between its two steps; and where that call fails,
\* which is only logged, nothing is claimed of any client.
NoSessionFromBefore ==
    job.done /\ ~job.failed =>
        \A s \in sessions : s[2] = live[UsersDB] \/ s[1] \in spared

=============================================================================

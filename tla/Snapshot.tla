------------------------------ MODULE Snapshot ------------------------------
(***************************************************************************)
(* Full snapshots (internal/snapshot, internal/wiki/snapshot): a scheduler  *)
(* goroutine copies the databases, walks the files of the wiki into a zip,  *)
(* writes a sidecar that makes the zip a snapshot, and prunes the oldest;   *)
(* administrators list, delete, download and restore snapshots meanwhile,   *)
(* and the wiki goes on changing.                                           *)
(*                                                                          *)
(* Places are the parts of the data directory in the order of the walk,     *)
(* place 0 standing for the databases.                                      *)
(***************************************************************************)
EXTENDS Naturals, FiniteSets

CONSTANTS
    Files,       \* the last place
    Retention,   \* cfg.RetentionCount
    Calls,       \* administrators' requests
    None,
    Torn,        \* a sidecar that is not filled
    MaxEvents,   \* bound: triggers, ticks, requests, changes of the wiki, failures, crashes
    MaxSeconds   \* bound: seconds that pass

Places == 0 .. Files
Texts == UNION {[places -> Nat \union {None}] : places \in SUBSET Places}
Archives == [number : Nat, whole : BOOLEAN, text : Texts]

ASSUME SnapshotAssumption ==
    /\ {Files, Retention, MaxEvents, MaxSeconds} \subseteq Nat
    /\ None # Torn /\ None \notin Nat /\ Torn \notin Nat /\ None \notin Archives

MaxRuns == MaxEvents + 1
Ids == (0 .. MaxSeconds) \X (1 .. MaxRuns)

VARIABLES
    wiki,      \* the text at each place, or None
    zips,      \* the archive under each id, or None
    cards,     \* the sidecar under each id: None, Torn, or the number of its run
    run,       \* what the scheduler's goroutine does
    manual, tick, stopping,  \* its channels
    status,    \* Status
    req,       \* delete and download requests, restores included
    known,     \* the snapshots administrators may have seen in the list
    begun, now, events,      \* runs, seconds and the bounded counter
    asked,     \* history: runs begun when a snapshot was last asked for
    ended,     \* history: the last run that ended
    gone       \* history: the snapshots of which the removal has begun

vars == <<wiki, zips, cards, run, manual, tick, stopping, status, req, known, begun, now, events, asked, ended, gone>>
scheduler == <<run, manual, tick, stopping, status, begun, ended>>
world == <<wiki, now, events, req, known, asked, gone>>

Event == events < MaxEvents /\ events' = events + 1

-----------------------------------------------------------------------------
(* Snapshots on disk *)

Free(i) == zips[i] = None /\ cards[i] = None
IsNew(i) == Free(i) /\ \A n \in 1 .. i[2] - 1 : ~Free(<<i[1], n>>)

Listed == {i \in Ids : cards[i] \notin {None, Torn}}
Names == {i \in Ids : cards[i] # None}

\* entries[cfg.RetentionCount:] of the entries sorted by newest first
Numbered(ids) == {cards[j] : j \in ids}
Newer(ids, i) == {n \in Numbered(ids) : n > cards[i]}
Older(ids, i) == {n \in Numbered(ids) : n < cards[i]}
Entries(ids) == {[id |-> i, number |-> cards[i]] : i \in ids}
Mutant_OldestKept(ids) == Entries({i \in ids : Cardinality(Older(ids, i)) >= Retention})
Surplus(ids) == Entries({i \in ids : Cardinality(Newer(ids, i)) >= Retention})
IsNext(e, entries) == \A f \in entries : f.number <= e.number

-----------------------------------------------------------------------------
(* The run: runOnceLocked *)

\* history: the field kept holds the places that have not changed since the run began
NoText == [place \in {} |-> None]
Rest == [at |-> "wait", id |-> None, place |-> 0, text |-> NoText, todo |-> {}, names |-> {}, kept |-> Places]
To(at) == run' = [run EXCEPT !.at = at]

\* SetSuccess, SetError
StillRunning(error) == FALSE
Settle(error, prune) ==
    /\ run' = Rest /\ ended' = begun
    /\ status' = [running |-> StillRunning(error), last |-> IF error THEN status.last ELSE begun, error |-> error,
                  prune |-> IF error THEN status.prune ELSE prune]

\* RunOnce and the start of createSnapshot, in the same second or a later one
Begins ==
    /\ begun' = begun + 1 /\ status' = [status EXCEPT !.running = TRUE]
    /\ now' \in now .. MaxSeconds
    /\ \E i \in Ids : i[1] = now' /\ IsNew(i) /\ run' = [Rest EXCEPT !.at = "vacuum", !.id = i]
    /\ UNCHANGED <<wiki, events, req, known, asked, gone, zips, cards, stopping, ended>>

TakeManual == run.at = "wait" /\ manual /\ Begins /\ manual' = FALSE /\ UNCHANGED tick
TakeTick == run.at = "wait" /\ tick /\ Begins /\ tick' = FALSE /\ UNCHANGED manual

Vacuum ==
    /\ run.at = "vacuum"
    /\ run' = [run EXCEPT !.at = "zip", !.text = [place \in {0} |-> wiki[place]]]
    /\ UNCHANGED <<world, zips, cards, manual, tick, stopping, status, begun, ended>>

\* writeSnapshotZip: a file that is gone when it is opened is left out.
CreateZip ==
    /\ run.at = "zip"
    /\ zips' = [zips EXCEPT ![run.id] = [number |-> begun, whole |-> FALSE, text |-> NoText]]
    /\ run' = [run EXCEPT !.at = "walk", !.place = 1]
    /\ UNCHANGED <<world, cards, manual, tick, stopping, status, begun, ended>>

Mutant_StopsAtMissing(place) == IF wiki[place] = None THEN Files + 1 ELSE place + 1
Following(place) == place + 1
WithNext == [place \in 0 .. run.place |-> IF place = run.place THEN wiki[place] ELSE run.text[place]]
AddFile ==
    /\ run.at = "walk" /\ run.place <= Files
    /\ run' = [run EXCEPT !.place = Following(@), !.text = WithNext]
    /\ UNCHANGED <<world, zips, cards, manual, tick, stopping, status, begun, ended>>

CloseZip ==
    /\ run.at = "walk" /\ run.place > Files
    /\ zips' = [zips EXCEPT ![run.id] = [number |-> begun, whole |-> TRUE, text |-> run.text]]
    /\ To("card")
    /\ UNCHANGED <<world, cards, manual, tick, stopping, status, begun, ended>>

\* writeJSONFile creates the sidecar, then fills it.
CreateCard ==
    /\ run.at = "card"
    /\ cards' = [cards EXCEPT ![run.id] = Torn]
    /\ To("fill")
    /\ UNCHANGED <<world, zips, manual, tick, stopping, status, begun, ended>>

FillCard ==
    /\ run.at = "fill"
    /\ cards' = [cards EXCEPT ![run.id] = begun]
    /\ known' = known \union {[id |-> run.id, number |-> begun]}
    /\ IF Retention = 0 THEN Settle(FALSE, FALSE) ELSE To("list") /\ UNCHANGED <<status, ended>>
    /\ UNCHANGED <<wiki, now, events, req, asked, gone, zips, manual, tick, stopping, begun>>

\* pruneOldSnapshots: List reads the names, then each sidecar.
ListNames ==
    /\ run.at = "list"
    /\ run' = [run EXCEPT !.at = "read", !.names = Names]
    /\ UNCHANGED <<world, zips, cards, manual, tick, stopping, status, begun, ended>>

PruneError == TRUE
ReadCards ==
    /\ run.at = "read"
    /\ IF run.names \subseteq Listed
       THEN run' = [run EXCEPT !.at = "prune", !.todo = Surplus(run.names), !.names = {}] /\ UNCHANGED <<status, ended>>
       ELSE Settle(FALSE, PruneError)
    /\ UNCHANGED <<world, zips, cards, manual, tick, stopping, begun>>

Removing(i) == gone' = gone \union ({cards[i]} \ {None, Torn}) \union (IF zips[i] = None THEN {} ELSE {zips[i].number})

PruneZip ==
    /\ run.at = "prune"
    /\ \E e \in run.todo :
         /\ IsNext(e, run.todo)
         /\ run' = [run EXCEPT !.at = IF zips[e.id] = None THEN "cardOnly" ELSE "cardToo"]
         /\ zips' = [zips EXCEPT ![e.id] = None] /\ Removing(e.id)
    /\ UNCHANGED <<wiki, now, events, req, known, asked, cards, manual, tick, stopping, status, begun, ended>>

\* A snapshot somebody else deleted is an error that ends the pruning.
PruneCard ==
    /\ run.at \in {"cardOnly", "cardToo"}
    /\ \E e \in run.todo :
         /\ IsNext(e, run.todo)
         /\ IF run.at = "cardOnly" /\ cards[e.id] = None THEN Settle(FALSE, PruneError)
            ELSE run' = [run EXCEPT !.at = "prune", !.todo = @ \ {e}] /\ UNCHANGED <<status, ended>>
         /\ cards' = [cards EXCEPT ![e.id] = None] /\ Removing(e.id)
    /\ UNCHANGED <<wiki, now, events, req, known, asked, zips, manual, tick, stopping, begun>>

Pruned ==
    /\ run.at = "prune" /\ run.todo = {}
    /\ Settle(FALSE, FALSE)
    /\ UNCHANGED <<world, zips, cards, manual, tick, stopping, begun>>

\* An error of createSnapshot removes a partial zip; a sidecar that could not
\* be written stays as it is, and so does its zip.
Cleaned == IF run.at = "walk" THEN [zips EXCEPT ![run.id] = None] ELSE zips
Fail ==
    /\ run.at \in {"vacuum", "zip", "walk", "card", "fill"} /\ Event
    /\ zips' = Cleaned
    /\ Settle(TRUE, FALSE)
    /\ UNCHANGED <<cards, wiki, now, req, known, asked, gone, manual, tick, stopping, begun>>

\* A panic is recovered, with nothing cleaned up.
Panic ==
    /\ run.at \notin {"wait", "off"} /\ Event
    /\ Settle(TRUE, FALSE)
    /\ UNCHANGED <<zips, cards, wiki, now, req, known, asked, gone, manual, tick, stopping, begun>>

-----------------------------------------------------------------------------
(* Scheduler: triggers, ticks, the end and the next start of the process *)

Mutant_WhenWaiting == run.at = "wait"
Queues == TRUE
Trigger ==
    /\ Event /\ run.at # "off"
    /\ manual' = (manual \/ Queues)
    /\ asked' = begun
    /\ UNCHANGED <<wiki, zips, cards, run, tick, stopping, status, req, known, begun, now, ended, gone>>

Tick ==
    /\ Event /\ run.at # "off" /\ ~tick /\ ~stopping
    /\ tick' = TRUE
    /\ UNCHANGED <<wiki, zips, cards, run, manual, stopping, status, req, known, begun, now, asked, ended, gone>>

Stop ==
    /\ Event /\ run.at # "off" /\ ~stopping
    /\ stopping' = TRUE
    /\ UNCHANGED <<wiki, zips, cards, run, manual, tick, status, req, known, begun, now, asked, ended, gone>>

Stopped ==
    /\ run.at = "wait" /\ stopping
    /\ To("off")
    /\ UNCHANGED <<world, zips, cards, manual, tick, stopping, status, begun, ended>>

Idle == [at |-> "idle", kind |-> "none", id |-> None, number |-> 0]

\* The process ends, or is killed, and starts again: NewScheduler asks for a run.
Restart ==
    /\ Event
    /\ run' = Rest /\ manual' = TRUE /\ tick' = FALSE /\ stopping' = FALSE
    /\ status' = [running |-> FALSE, last |-> 0, error |-> FALSE, prune |-> FALSE]
    /\ req' = [c \in Calls |-> Idle]
    /\ UNCHANGED <<wiki, zips, cards, known, begun, now, asked, ended, gone>>

-----------------------------------------------------------------------------
(* Administrators and the wiki *)

\* Manager.Delete in two steps; SnapshotZipPath, then opening the zip.
Request(c, kind, k) ==
    /\ req[c].at = "idle" /\ k \in known /\ Event
    /\ kind = "open" => zips[k.id] # None
    /\ req' = [req EXCEPT ![c] = [at |-> "zip", kind |-> kind, id |-> k.id, number |-> k.number]]
    /\ UNCHANGED <<wiki, zips, cards, scheduler, known, now, asked, gone>>

DeleteZip(c) ==
    /\ req[c].at = "zip" /\ req[c].kind = "delete"
    /\ zips' = [zips EXCEPT ![req[c].id] = None]
    /\ Removing(req[c].id)
    /\ req' = [req EXCEPT ![c].at = "card"]
    /\ UNCHANGED <<wiki, cards, scheduler, known, now, events, asked>>

DeleteCard(c) ==
    /\ req[c].at = "card"
    /\ cards' = [cards EXCEPT ![req[c].id] = None] /\ Removing(req[c].id)
    /\ req' = [req EXCEPT ![c] = Idle]
    /\ UNCHANGED <<wiki, zips, scheduler, known, now, events, asked>>

Open(c) ==
    /\ req[c].at = "zip" /\ req[c].kind = "open"
    /\ req' = [req EXCEPT ![c] = Idle]
    /\ UNCHANGED <<wiki, zips, cards, scheduler, known, now, events, asked, gone>>

Changed(places) == run' = IF run.at \in {"wait", "off"} THEN run ELSE [run EXCEPT !.kept = @ \ places]

Edit(place) ==
    /\ Event
    /\ wiki' = [wiki EXCEPT ![place] = IF @ = None THEN 1 ELSE @ + 1]
    /\ Changed({place})
    /\ UNCHANGED <<zips, cards, manual, tick, stopping, status, begun, ended, req, known, now, asked, gone>>

Move(from, to) ==
    /\ wiki[from] # None /\ wiki[to] = None /\ Event
    /\ wiki' = [wiki EXCEPT ![to] = wiki[from], ![from] = None]
    /\ Changed({from, to})
    /\ UNCHANGED <<zips, cards, manual, tick, stopping, status, begun, ended, req, known, now, asked, gone>>

-----------------------------------------------------------------------------
Init ==
    /\ wiki = [p \in Places |-> IF p = Files THEN None ELSE 1]
    /\ zips = [i \in Ids |-> None] /\ cards = [i \in Ids |-> None]
    /\ run = Rest /\ manual = TRUE /\ tick = FALSE /\ stopping = FALSE
    /\ status = [running |-> FALSE, last |-> 0, error |-> FALSE, prune |-> FALSE]
    /\ req = [c \in Calls |-> Idle] /\ known = {}
    /\ begun = 0 /\ now = 0 /\ events = 0 /\ asked = 0 /\ ended = 0 /\ gone = {}

Work ==
    \/ Vacuum \/ CreateZip \/ AddFile \/ CloseZip \/ CreateCard \/ FillCard
    \/ ListNames \/ ReadCards \/ PruneZip \/ PruneCard \/ Pruned \/ Stopped

Next ==
    \/ TakeManual \/ TakeTick \/ Work \/ Fail \/ Panic
    \/ Trigger \/ Tick \/ Stop \/ Restart
    \/ \E c \in Calls : DeleteZip(c) \/ DeleteCard(c) \/ Open(c)
    \/ \E c \in Calls, k \in known : Request(c, "delete", k) \/ Request(c, "open", k)
    \/ \E place \in Places : Edit(place)
    \/ \E from, to \in Places \ {0} : Move(from, to)

Spec == Init /\ [][Next]_vars

\* The goroutine runs on, and its select picks a trigger sooner or later
\* however often the ticker is ready as well.
FairSpec == Spec /\ WF_vars(Work) /\ WF_vars(TakeTick) /\ SF_vars(TakeManual)

-----------------------------------------------------------------------------
(* Properties *)

Numbers == 0 .. begun

\* Every variable keeps its shape; the status says running exactly while the
\* goroutine works, whatever panicked (SetError, SetSuccess).
TypeOK ==
    /\ DOMAIN wiki = Places /\ known \subseteq [id : Ids, number : Numbers]
    /\ \A i \in Ids : cards[i] \in Numbers \union {None, Torn} /\ (zips[i] # None => zips[i].number \in Numbers)
    /\ {manual, tick, stopping} \subseteq BOOLEAN
    /\ status.running <=> run.at \notin {"wait", "off"}

\* A snapshot in the list has its whole archive, whatever failed or crashed
\* before, unless its removal has begun (createSnapshot, Delete).
ListedIsWhole ==
    \A i \in Listed : cards[i] \notin gone => zips[i] # None /\ zips[i].whole /\ zips[i].number = cards[i]

\* A file that stays as it is while a run walks is in the archive, whatever
\* comes, goes and moves around it (addDirToZip, addFileToZip).
ArchiveHolds ==
    [][run.at = "walk" /\ run'.at = "card" =>
         \A p \in run.kept : p \in DOMAIN zips'[run.id].text /\ zips'[run.id].text[p] = wiki[p]]_vars

\* Whoever opens a snapshot from the list gets the one asked for, or nothing
\* if its removal has begun: no later run takes its place (uniqueSnapshotID).
OpensTheOneAskedFor ==
    [][\A c \in Calls :
         req[c].kind = "open" /\ req'[c].at = "idle" /\ run' # Rest /\ req[c].number \notin gone =>
            zips[req[c].id] # None /\ zips[req[c].id].whole /\ zips[req[c].id].number = req[c].number]_vars

\* A status without errors is true: the last snapshot is in the list unless
\* somebody removed it, and no more than Retention are (pruneOldSnapshots).
StatusTrue ==
    run.at \in {"wait", "off"} /\ status.last > 0 /\ ~status.error /\ ~status.prune =>
        /\ status.last \in {cards[i] : i \in Listed} \union gone
        /\ Retention = 0 \/ Cardinality(Listed) <= Retention

\* What the list and the status say is so, and an archive holds what it is of.
ListTrue == [](TypeOK /\ ListedIsWhole /\ StatusTrue) /\ ArchiveHolds /\ OpensTheOneAskedFor

Shelf == INSTANCE SnapshotShelf WITH
    Numbers <- 1 .. MaxRuns,
    shelf <- {cards[i] : i \in Listed},
    doomed <- {cards[i] : i \in Listed \intersect ({e.id : e \in run.todo}
                                \union {req[c].id : c \in {d \in Calls : req[d].kind = "delete"}})}

\* The list behaves as the shelf of SnapshotShelf, requests, crashes and
\* failures between the steps of a removal included: retention never takes a
\* snapshot that fewer than Retention newer ones stood beside.
ImplementsShelf == Shelf!Spec

\* After a trigger, accepted or refused, a run that begins later is completed,
\* unless the process is stopped (TriggerNow, run).
TriggerHonoured == \A n \in 0 .. MaxRuns : (asked = n) ~> (ended > n \/ stopping)
=============================================================================

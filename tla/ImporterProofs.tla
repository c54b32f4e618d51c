--------------------------- MODULE ImporterProofs ---------------------------
(***************************************************************************)
(* Proofs about Importer: its type invariant and what a plan says of its    *)
(* execution (PlanTrue), and that an import overwrites nobody's text.       *)
(*                                                                          *)
(* The inductive invariant is the conjunction IInv below.                   *)
(***************************************************************************)
EXTENDS Importer, FiniteSetTheorems, TLAPS

Outcomes == {"created", "skipped", "error"}
Stages == {"off", "check", "next", "create", "write", "skip", "report", "finish", "clean"}

RunT == [at : Stages, plan : StoredPlans \union {None}, index : Nat, first : Nat, items : Seq(Outcomes),
         last : Hashes \union {None}, error : {"none", "failed", "canceled"}]
CallT == [at : {"idle", "sweep", "clear", "hash", "set"}, id : Nat, package : Packages \union {<<>>},
          old : Nat, hash : Hashes \union {None}]

Types ==
    /\ pages \in [Paths -> LivePages \union {None}]
    /\ store \in StoredPlans \union {None}
    /\ disk \in StoredPlans \union {None}
    /\ broken \in BOOLEAN
    /\ files \in SUBSET Plans
    /\ run \in [Runs -> RunT]
    /\ call \in [Calls -> CallT]
    /\ clock \in Nat
    /\ starts \in 0 .. MaxRuns
    /\ plans \in 0 .. MaxPlans
    /\ wrote \in SUBSET ((1 .. starts) \X Nat)
    /\ touched \in SUBSET ((1 .. starts) \X Paths)
    /\ late \in Nat

\* The plans in play: those of the store and of its file, and those executed.
On(r) == run[r].at # "off"
Act(r) == run[r].at \notin {"off", "clean"}
Held == {P \in {store, disk} : P # None}
InPlay == Held \union {run[r].plan : r \in {s \in Runs : On(s)}}

-----------------------------------------------------------------------------
(* Which plan is which *)

SamePlan(P, Q) == P.package = Q.package /\ P.hash = Q.hash

Ids ==
    /\ ~broken => disk = store
    /\ \A P \in InPlay : P.id \in 1 .. plans /\ P.attempt \in 0 .. starts
    /\ \A P \in Held : P.status \in {"running", "completed"} => P.attempt # 0
    /\ \A r \in Runs : On(r) => run[r].plan # None /\ run[r].plan.attempt # 0 /\ r <= starts
    /\ \A P, Q \in InPlay : P.id = Q.id => SamePlan(P, Q)
    /\ \A P, Q \in InPlay : P.attempt = Q.attempt /\ P.attempt # 0 => P.id = Q.id
    /\ \A P \in Held, r \in Runs : On(r) /\ P.id = run[r].plan.id => P.attempt # 0
    /\ \A P \in Held, r \in Runs : Act(r) /\ P.id = run[r].plan.id =>
         P.status = "running" /\ P.attempt = run[r].plan.attempt /\ P.processed <= run[r].index
    /\ \A r, s \in Runs : Act(r) /\ Act(s) /\ run[r].plan.id = run[s].plan.id => r = s

CallIds ==
    /\ \A c \in Calls : call[c].id \in 0 .. plans
    /\ \A c \in Calls, P \in InPlay : call[c].id # P.id
    /\ \A c, d \in Calls : call[c].id = call[d].id /\ call[c].id # 0 => c = d
    /\ \A c \in Calls : call[c].id # 0 => call[c].package \in Packages
    /\ \A c \in Calls : call[c].at \in {"hash", "set"} => call[c].id # 0
    /\ \A c \in Calls : call[c].at = "set" => call[c].hash # None

-----------------------------------------------------------------------------
(* How far an execution is *)

PlanSize(P) == Len(P.actions) = Len(P.package) /\ Len(P.items) <= Len(P.package) /\ P.processed <= Len(P.package)

Stage(r) ==
    LET x == run[r]
        n == Len(x.plan.package)
    IN  /\ Len(x.items) = x.index + (IF x.at = "report" THEN 1 ELSE 0)
        /\ x.index <= n
        /\ x.at \in {"create", "write", "skip", "report"} => x.index < n
        /\ x.at \in {"create", "write"} => x.plan.actions[x.index + 1] = "create"
        /\ x.at = "write" => Target(x.plan.package[x.index + 1]) # <<>>
        /\ x.at = "check" => x.index = x.first
        /\ x.at # "finish" => x.error = "none"
        /\ x.at = "finish" /\ x.error = "none" => x.index = n

Sizes ==
    /\ \A P \in InPlay : PlanSize(P)
    /\ \A P \in Held : P.status = "running" => Len(P.items) = P.processed
    /\ \A P \in Held : P.status = "completed" => Len(P.items) = Len(P.package)
    /\ \A r \in Runs : Act(r) => Stage(r)

Recorded(written, a, items) == \A i \in DOMAIN items : items[i] = "created" <=> <<a, i>> \in written

Records ==
    /\ \A P \in Held : P.status \in {"running", "completed"} => Recorded(wrote, P.attempt, P.items)
    /\ \A r \in Runs : Act(r) =>
         /\ Recorded(wrote, run[r].plan.attempt, run[r].items)
         /\ \A w \in wrote : w[1] = run[r].plan.attempt => w[2] <= Len(run[r].items)

-----------------------------------------------------------------------------
(* The workspace, and the cancellation *)

Safe(P) ==
    P.attempt \notin raced =>
        /\ P.id \in files
        /\ \A r \in Runs : run[r].at = "clean" => run[r].plan.id # P.id
        /\ \A c \in Calls : call[c].at = "sweep" => call[c].old # P.id

Workspaces ==
    /\ \A P \in Held : P.status = "running" => Safe(P)
    /\ \A r \in Runs : Act(r) => Safe(run[r].plan)

Cancelled ==
    /\ late <= 1
    /\ \A r \in Runs : run[r].at \in {"create", "write"} /\ Ours(r) /\ store.cancel => late = 0

-----------------------------------------------------------------------------
(* What an execution knows of the tree *)

Explained(tree, others, P, items, p) ==
    \/ <<P.attempt, p>> \in others
    \/ tree[p].body.kind = "empty"
    \/ /\ tree[p].body.kind = "imported" /\ tree[p].body.attempt = P.attempt
       /\ \E i \in DOMAIN items : tree[p].body.file = P.package[i]
    \/ tree[p].stamp = P.hash[p]

AllExplained(tree, others, P, items) == \A p \in Paths : tree[p] # None => Explained(tree, others, P, items, p)
Known(tree, others, P, items, last) ==
    last # None => \A p \in Paths : tree[p] # None /\ tree[p].stamp = last[p] => Explained(tree, others, P, items, p)

Kept(tree, others, P, items) ==
    (\A t \in others : t[1] # P.attempt) =>
        /\ \A p \in Paths : P.hash[p] # 0 => tree[p] # None
        /\ \A i \in DOMAIN items : items[i] = "created" => Target(P.package[i]) \in {p \in Paths : tree[p] # None}
Stamped(tree, hash) == \A p \in Paths : hash[p] = IF tree[p] = None THEN 0 ELSE tree[p].stamp
KeptSince(tree, others, P, items, last) == last # None /\ Stamped(tree, last) => Kept(tree, others, P, items)

\* An item that is to create a page has none that the hash knows.
Missing(P) ==
    \A i \in DOMAIN P.package : P.actions[i] = "create" =>
        \A p \in Paths : p = Target(P.package[i]) /\ pages[p] # None => pages[p].stamp # P.hash[p]

Before(hash, now) == hash # None => \A p \in Paths : hash[p] <= now

Stamps ==
    /\ \A p \in Paths : pages[p] # None => pages[p].stamp \in 1 .. clock
    /\ \A P \in InPlay : Before(P.hash, clock) /\ Before(P.last, clock)
    /\ \A r \in Runs : Before(run[r].last, clock)
    /\ \A c \in Calls : Before(call[c].hash, clock)
    /\ \A P \in InPlay : Missing(P)

Past(r) == Act(r) /\ run[r].at # "check" /\ run[r].error = "none"

Sure(tree, others, P, items) == AllExplained(tree, others, P, items) /\ Kept(tree, others, P, items)
Recalls(tree, others, P, items, last) == Known(tree, others, P, items, last) /\ KeptSince(tree, others, P, items, last)

Knowledge ==
    /\ \A P \in Held : P.status = "running" => Recalls(pages, touched, P, P.items, P.last)
    /\ \A P \in Held : P.status = "completed" => Kept(pages, touched, P, P.items)
    /\ \A r \in Runs : Act(r) => Recalls(pages, touched, run[r].plan, run[r].items, run[r].last)
    /\ \A r \in Runs : Past(r) => Sure(pages, touched, run[r].plan, run[r].items)

Origin(body) ==
    /\ body.kind # "imported" => body.link = None
    /\ body.kind = "imported" =>
         /\ body.attempt \in 1 .. starts
         /\ body.package \in Packages /\ body.file \in ToSet(body.package)
         /\ body.link = IF body.file.link = None THEN None ELSE Resolve(body.package, body.file, body.file.link)
         /\ \A P \in InPlay : P.attempt = body.attempt => P.package = body.package
Origins == \A p \in Paths : pages[p] # None => Origin(pages[p].body)

IInv ==
    /\ Types /\ Ids /\ CallIds /\ Sizes /\ Records /\ Workspaces /\ Cancelled /\ RunningIsRun
    /\ Stamps /\ Knowledge /\ Origins

-----------------------------------------------------------------------------
(* The updates of a plan and of an execution *)

Like(P, Q) ==
    P.id = Q.id /\ P.package = Q.package /\ P.hash = Q.hash /\ P.actions = Q.actions /\ P.attempt = Q.attempt

Started(P, n) ==
    [P EXCEPT !.status = "running", !.cancel = FALSE, !.processed = 0, !.items = <<>>, !.last = None, !.attempt = n]
Reporting(P, n, items, last) == [P EXCEPT !.processed = n, !.items = items, !.last = last]
Ended(P, x) ==
    LET status == IF x.error = "none" THEN "completed" ELSE x.error
        result == IF x.error = "failed" THEN Off ELSE x
    IN  [P EXCEPT !.status = status, !.cancel = FALSE, !.items = result.items, !.last = result.last,
                  !.processed = IF status = "completed" THEN Len(x.plan.package) ELSE @]
Cancelling(P) == [P EXCEPT !.cancel = TRUE]

LEMMA StartedIs ==
    ASSUME NEW P \in StoredPlans, NEW n \in Nat
    PROVE  LET Q == Started(P, n)
           IN  /\ Q \in StoredPlans /\ ~Q.cancel
               /\ Q.id = P.id /\ Q.package = P.package /\ Q.hash = P.hash /\ Q.actions = P.actions
               /\ Q.status = "running" /\ Q.processed = 0 /\ Q.items = <<>> /\ Q.last = None /\ Q.attempt = n
<1> DEFINE Q == Started(P, n)
<1>1. <<>> \in Seq(Outcomes) /\ 0 \in Nat /\ "running" \in Statuses BY DEF Statuses
<1>2. Q \in StoredPlans BY <1>1, Zenon DEF StoredPlans, Started, Outcomes
<1>3. ~Q.cancel BY Zenon DEF StoredPlans, Started
<1>4. Q.id = P.id /\ Q.package = P.package /\ Q.hash = P.hash /\ Q.actions = P.actions
    BY DEF StoredPlans, Started
<1>5. Q.status = "running" /\ Q.processed = 0 /\ Q.items = <<>> /\ Q.last = None /\ Q.attempt = n
    BY DEF StoredPlans, Started
<1> QED BY <1>2, <1>3, <1>4, <1>5, Zenon

LEMMA ReportingIs ==
    ASSUME NEW P \in StoredPlans, NEW n \in Nat, NEW items \in Seq(Outcomes), NEW last \in Hashes \union {None}
    PROVE  LET Q == Reporting(P, n, items, last)
           IN  /\ Q \in StoredPlans /\ Like(P, Q) /\ Q.status = P.status /\ (Q.cancel <=> P.cancel)
               /\ Q.processed = n /\ Q.items = items /\ Q.last = last
<1> DEFINE Q == Reporting(P, n, items, last)
<1>2. Q \in StoredPlans BY Zenon DEF StoredPlans, Reporting, Outcomes
<1>3. Q.cancel <=> P.cancel BY Zenon DEF StoredPlans, Reporting
<1>4. Like(P, Q) /\ Q.status = P.status BY DEF StoredPlans, Reporting, Like
<1>5. Q.processed = n /\ Q.items = items /\ Q.last = last BY DEF StoredPlans, Reporting
<1> QED BY <1>2, <1>3, <1>4, <1>5, Zenon

LEMMA EndedIs ==
    ASSUME NEW P \in StoredPlans, NEW x \in RunT, x.plan # None
    PROVE  LET Q == Ended(P, x)
           IN  /\ Q \in StoredPlans /\ Like(P, Q) /\ ~Q.cancel
               /\ Q.items = (IF x.error = "failed" THEN <<>> ELSE x.items)
               /\ Q.last = (IF x.error = "failed" THEN None ELSE x.last)
               /\ Q.status = (IF x.error = "none" THEN "completed" ELSE x.error) /\ Q.status # "running"
               /\ Q.processed = IF x.error = "none" THEN Len(x.plan.package) ELSE P.processed
<1> DEFINE Q == Ended(P, x)
           status == IF x.error = "none" THEN "completed" ELSE x.error
           n == IF status = "completed" THEN Len(x.plan.package) ELSE P.processed
           result == IF x.error = "failed" THEN Off ELSE x
           items == result.items
           last == result.last
<1>0. /\ items = (IF x.error = "failed" THEN <<>> ELSE x.items)
      /\ last = (IF x.error = "failed" THEN None ELSE x.last)
    BY DEF Off
<1>1. x.error \in {"none", "failed", "canceled"} /\ items \in Seq(Outcomes) /\ last \in Hashes \union {None}
    <2>1. x.error \in {"none", "failed", "canceled"} /\ x.items \in Seq(Outcomes) /\ x.last \in Hashes \union {None}
        BY DEF RunT
    <2>2. <<>> \in Seq(Outcomes) OBVIOUS
    <2> HIDE DEF items, last
    <2> QED BY <1>0, <2>1, <2>2
<1>2. status \in Statuses /\ status # "running" /\ (status = "completed" <=> x.error = "none") BY <1>1 DEF Statuses
<1>3. x.plan \in StoredPlans BY DEF RunT
<1>4. x.plan.package \in Packages BY <1>3 DEF StoredPlans
<1>5. n \in Nat
    <2>1. x.plan.package \in Seq(ToSet(x.plan.package)) BY <1>4, ImporterAssumption
    <2>2. Len(x.plan.package) \in Nat BY <2>1
    <2>3. P.processed \in Nat BY DEF StoredPlans
    <2> QED BY <2>2, <2>3
<1>6. Q = [P EXCEPT !.status = status, !.cancel = FALSE, !.items = items, !.last = last, !.processed = n]
    BY Zenon DEF Ended
<1> HIDE DEF n, status, items, last
<1>7. Q \in StoredPlans BY <1>1, <1>2, <1>5, <1>6, Zenon DEF StoredPlans, Outcomes
<1>8. ~Q.cancel BY <1>6, Zenon DEF StoredPlans
<1>9. /\ Like(P, Q) /\ Q.items = items /\ Q.last = last /\ Q.status = status /\ Q.processed = n
    BY <1>6 DEF StoredPlans, Like
<1> QED BY <1>0, <1>2, <1>7, <1>8, <1>9 DEF n, status

LEMMA CancellingIs ==
    ASSUME NEW P \in StoredPlans
    PROVE  LET Q == Cancelling(P)
           IN  /\ Q \in StoredPlans /\ Like(P, Q) /\ Q.status = P.status
               /\ Q.processed = P.processed /\ Q.items = P.items /\ Q.last = P.last
<1> DEFINE Q == Cancelling(P)
<1>1. Q \in StoredPlans BY Zenon DEF StoredPlans, Cancelling
<1>2. Like(P, Q) /\ Q.status = P.status /\ Q.processed = P.processed /\ Q.items = P.items /\ Q.last = P.last
    BY DEF StoredPlans, Cancelling, Like
<1> QED BY <1>1, <1>2

LEMMA NewPlanIs ==
    ASSUME NEW id \in Nat, NEW package \in Packages, NEW hash \in Hashes, NEW actions \in Seq({"create", "skip"})
    PROVE  LET Q == NewPlan(id, package, hash, actions)
           IN  /\ Q \in StoredPlans /\ ~Q.cancel /\ Q.id = id /\ Q.package = package /\ Q.hash = hash
               /\ Q.actions = actions /\ Q.status = "planned" /\ Q.processed = 0 /\ Q.items = <<>>
               /\ Q.last = None /\ Q.attempt = 0
<1> DEFINE Q == NewPlan(id, package, hash, actions)
<1>1. <<>> \in Seq({"created", "skipped", "error"}) /\ 0 \in Nat /\ "planned" \in Statuses BY DEF Statuses
<1>2. Q \in StoredPlans BY <1>1, Zenon DEF StoredPlans, NewPlan
<1>3. ~Q.cancel BY Zenon DEF NewPlan
<1>4. /\ Q.id = id /\ Q.package = package /\ Q.hash = hash /\ Q.actions = actions /\ Q.status = "planned"
      /\ Q.processed = 0 /\ Q.items = <<>> /\ Q.last = None /\ Q.attempt = 0
    BY DEF NewPlan
<1> QED BY <1>2, <1>3, <1>4, Zenon

LEMMA ExecutionIs ==
    ASSUME NEW P \in StoredPlans
    PROVE  LET x == Execution(P)
           IN  /\ x \in RunT /\ x.at = "check" /\ x.plan = P /\ x.index = P.processed /\ x.first = P.processed
               /\ x.items = P.items /\ x.last = P.last /\ x.error = "none"
<1>1. /\ P.processed \in Nat /\ P.items \in Seq(Outcomes) /\ P.last \in Hashes \union {None}
    BY DEF StoredPlans, Outcomes
<1> QED BY <1>1 DEF Execution, Off, RunT, Stages

-----------------------------------------------------------------------------
(* What the invariant says of one execution and of one plan *)

Planned(P) ==
    /\ P \in StoredPlans /\ P \in InPlay
    /\ P.id \in 1 .. plans /\ P.attempt \in 0 .. starts
    /\ P.package \in Packages /\ P.package \in Seq(SourceFiles) /\ Len(P.package) \in Nat
    /\ P.actions \in Seq({"create", "skip"}) /\ P.items \in Seq(Outcomes) /\ P.processed \in Nat
    /\ P.hash \in Hashes
    /\ PlanSize(P)

LEMMA PackageIs ==
    ASSUME NEW package \in Packages
    PROVE  /\ package \in Seq(SourceFiles) /\ Len(package) \in Nat /\ DOMAIN package = 1 .. Len(package)
           /\ ToSet(package) \subseteq SourceFiles
           /\ \A i \in DOMAIN package : package[i] \in ToSet(package)
           /\ \A i, j \in DOMAIN package : package[i] = package[j] => i = j
<1>1. package \in Seq(ToSet(package)) BY ImporterAssumption
<1>2. ToSet(package) \subseteq SourceFiles BY DEF SourceFiles
<1>3. \A i, j \in DOMAIN package : package[i] = package[j] => i = j BY ImporterAssumption, Zenon
<1>4. \A i \in DOMAIN package : package[i] \in ToSet(package) BY DEF ToSet
<1>5. package \in Seq(SourceFiles)
    <2> HIDE DEF SourceFiles
    <2> QED BY <1>1, <1>2
<1> QED BY <1>1, <1>2, <1>3, <1>4, <1>5

LEMMA PlannedIs ==
    ASSUME IInv, NEW P \in InPlay
    PROVE  Planned(P)
<1>1. P \in StoredPlans BY DEF IInv, Types, Ids, InPlay, Held, RunT
<1>2. P.id \in 1 .. plans /\ P.attempt \in 0 .. starts /\ PlanSize(P) BY DEF IInv, Ids, Sizes
<1>3. /\ P.package \in Packages /\ P.actions \in Seq({"create", "skip"}) /\ P.items \in Seq(Outcomes)
      /\ P.processed \in Nat /\ P.hash \in Hashes
    BY <1>1 DEF StoredPlans, Outcomes
<1> QED BY <1>1, <1>2, <1>3, PackageIs DEF Planned

LEMMA RunIs ==
    ASSUME IInv, NEW r \in Runs, On(r)
    PROVE  /\ run[r] \in RunT /\ Planned(run[r].plan) /\ run[r].plan.attempt \in 1 .. starts
           /\ run[r].index \in Nat /\ run[r].first \in Nat /\ run[r].items \in Seq(Outcomes)
           /\ run[r].last \in Hashes \union {None}
<1>1. run[r] \in RunT BY DEF IInv, Types
<1>2. run[r].plan \in InPlay BY DEF InPlay
<1>3. Planned(run[r].plan) BY <1>2, PlannedIs
<1>4. run[r].plan.attempt # 0 BY DEF IInv, Ids
<1>5. starts \in Nat BY DEF IInv, Types
<1> QED BY <1>1, <1>3, <1>4, <1>5 DEF RunT, Planned

LEMMA StoreIs ==
    ASSUME IInv
    PROVE  /\ store # None => store \in Held /\ Planned(store)
           /\ disk # None => disk \in Held /\ Planned(disk)
           /\ \A P \in Held : P \in InPlay
<1>1. \A P \in Held : P \in InPlay BY DEF InPlay
<1>2. store # None => store \in Held BY DEF Held
<1>3. disk # None => disk \in Held BY DEF Held
<1> QED BY <1>1, <1>2, <1>3, PlannedIs

-----------------------------------------------------------------------------
(* What each action does.  First the executions. *)

StillStore == store' = store /\ disk' = disk /\ broken' = broken
Puts(Q) ==
    /\ broken = FALSE /\ store' = Q
    /\ \/ disk' = Q /\ broken' = FALSE
       \/ disk' = disk /\ broken' = TRUE
Reports(r, n) ==
    \/ StillStore
    \/ Ours(r) /\ Puts(Reporting(store, n, run'[r].items, run'[r].last))

\* The execution r goes on with the same plan, the others stand still.
Moves(r) ==
    /\ run' \in [Runs -> RunT]
    /\ \A s \in Runs : s # r => run'[s] = run[s]
    /\ On(r) /\ On(r)' /\ run'[r].plan = run[r].plan
StillTree == UNCHANGED <<pages, clock, touched>>
Goes(r, x) == run' = [run EXCEPT ![r] = x]

LEMMA GoesMoves ==
    ASSUME IInv, NEW r \in Runs, On(r), NEW x \in RunT, Goes(r, x)
    PROVE  /\ run' \in [Runs -> RunT] /\ run'[r] = x
           /\ \A s \in Runs : s # r => run'[s] = run[s]
           /\ x.at # "off" /\ x.plan = run[r].plan => Moves(r)
<1>1. run \in [Runs -> RunT] BY DEF IInv, Types
<1>2. run' = [run EXCEPT ![r] = x] BY DEF Goes
<1>3. run' \in [Runs -> RunT] /\ run'[r] = x BY <1>1, <1>2
<1>4. \A s \in Runs : s # r => run'[s] = run[s] BY <1>1, <1>2
<1> QED BY <1>3, <1>4 DEF Moves, On

LEMMA PersistPuts ==
    ASSUME IInv, NEW Q, ~broken, Persist(Q)
    PROVE  Puts(Q)
<1>1. broken \in BOOLEAN BY DEF IInv, Types
<1>2. broken = FALSE BY <1>1, Zenon
<1>3. store' = Q BY DEF Persist
<1>4. (disk' = Q /\ broken' = broken) \/ (disk' = disk /\ broken' = TRUE) BY Zenon DEF Persist
<1> QED BY <1>2, <1>3, <1>4, Zenon DEF Puts

LEMMA ProgressReports ==
    ASSUME IInv, NEW r \in Runs, NEW n, Progress(r, n)
    PROVE  Reports(r, n)
<1>1. CASE ~broken /\ Ours(r)
    <2>1. Persist(Reporting(store, n, run'[r].items, run'[r].last)) BY <1>1 DEF Progress, Reporting
    <2>2. Puts(Reporting(store, n, run'[r].items, run'[r].last)) BY <1>1, <2>1, PersistPuts, Zenon
    <2> QED BY <1>1, <2>2 DEF Reports
<1>2. CASE ~(~broken /\ Ours(r)) BY <1>2 DEF Progress, Reports, StillStore
<1> QED BY <1>1, <1>2

Quiet == StillTree /\ UNCHANGED <<files, call, starts, plans, wrote, raced, late>>
Same(r) ==
    /\ run'[r].index = run[r].index /\ run'[r].first = run[r].first
    /\ run'[r].items = run[r].items /\ run'[r].last = run[r].last

LEMMA CheckDoes ==
    ASSUME IInv, NEW r \in Runs, Check(r)
    PROVE  /\ run[r].at = "check" /\ Moves(r) /\ Same(r) /\ Quiet
           /\ \/ Fresh(r) /\ run'[r].at = "next" /\ run'[r].error = run[r].error /\ Reports(r, run[r].first)
              \/ run'[r].at = "finish" /\ run'[r].error = "failed" /\ StillStore
<1>1. run[r].at = "check" /\ On(r) BY DEF Check, On
<1>2. run[r] \in RunT BY <1>1, RunIs
<1>3. Quiet BY DEF Check, Quiet, StillTree, history
<1>4. CASE Fresh(r)
    <2> DEFINE x == [run[r] EXCEPT !.at = "next"]
    <2>1. x \in RunT /\ x.at = "next" BY <1>2 DEF RunT, Stages
    <2>2. /\ x.plan = run[r].plan /\ x.index = run[r].index /\ x.first = run[r].first /\ x.items = run[r].items
          /\ x.last = run[r].last /\ x.error = run[r].error
        BY <1>2 DEF RunT
    <2>3. Goes(r, x) BY <1>4 DEF Check, Goes
    <2>4. run'[r] = x /\ Moves(r) BY <1>1, <2>1, <2>2, <2>3, GoesMoves
    <2>5. Reports(r, run[r].first) BY <1>4, ProgressReports DEF Check
    <2> QED BY <1>1, <1>3, <1>4, <2>1, <2>2, <2>4, <2>5 DEF Same
<1>5. CASE ~Fresh(r)
    <2> DEFINE x == [run[r] EXCEPT !.at = "finish", !.error = "failed"]
    <2>1. x \in RunT /\ x.at = "finish" /\ x.error = "failed" BY <1>2 DEF RunT, Stages
    <2>2. /\ x.plan = run[r].plan /\ x.index = run[r].index /\ x.first = run[r].first /\ x.items = run[r].items
          /\ x.last = run[r].last
        BY <1>2 DEF RunT
    <2>3. Goes(r, x) BY <1>5 DEF Check, Goes
    <2>4. run'[r] = x /\ Moves(r) BY <1>1, <2>1, <2>2, <2>3, GoesMoves
    <2>5. StillStore BY <1>5 DEF Check, StillStore
    <2> QED BY <1>1, <1>3, <2>1, <2>2, <2>4, <2>5 DEF Same
<1> QED BY <1>4, <1>5

LEMMA HashIs ==
    ASSUME IInv
    PROVE  /\ Hash \in Hashes /\ Hash # None
           /\ \A p \in Paths : Hash[p] = (IF pages[p] = None THEN 0 ELSE pages[p].stamp)
           /\ \A p \in Paths : Hash[p] = 0 <=> pages[p] = None
<1>1. \A p \in Paths : pages[p] # None => pages[p].stamp \in 1 .. clock BY DEF IInv, Stamps
<1>2. clock \in Nat BY DEF IInv, Types
<1>3. \A p \in Paths : Hash[p] = (IF pages[p] = None THEN 0 ELSE pages[p].stamp) BY DEF Hash
<1>4. Hash \in Hashes BY <1>1, <1>2 DEF Hash, Hashes
<1>5. None \notin Hashes BY ImporterAssumption
<1> QED BY <1>1, <1>2, <1>3, <1>4, <1>5

LEMMA ActIs ==
    ASSUME IInv, NEW r \in Runs, Act(r)
    PROVE  On(r) /\ Stage(r)
BY DEF IInv, Sizes, Act, On

LEMMA NextItemDoes ==
    ASSUME IInv, NEW r \in Runs, NextItem(r)
    PROVE  /\ run[r].at = "next" /\ Moves(r) /\ Quiet
           /\ run'[r].index = run[r].index /\ run'[r].first = run[r].first /\ run'[r].items = run[r].items
           /\ \/ /\ run'[r].at = "finish" /\ run'[r].error = "canceled" /\ run'[r].last = run[r].last
                 /\ StillStore
              \/ /\ run'[r].at \in {"create", "skip"} /\ run[r].index < Len(run[r].plan.package)
                 /\ run'[r].at = run[r].plan.actions[run[r].index + 1]
                 /\ run'[r].error = run[r].error /\ run'[r].last = run[r].last
                 /\ ~CancelSeen(r) /\ Reports(r, run[r].index)
              \/ /\ run'[r].at = "finish" /\ run[r].index = Len(run[r].plan.package)
                 /\ run'[r].error = run[r].error /\ run'[r].last = Hash
                 /\ Reports(r, run[r].index)
<1>1. run[r].at = "next" /\ On(r) /\ Act(r) BY DEF NextItem, On, Act
<1>2. run[r] \in RunT /\ Planned(run[r].plan) BY <1>1, RunIs
<1>3. Quiet BY DEF NextItem, Quiet, StillTree, history
<1>4. Stage(r) BY <1>1, ActIs
<1> DEFINE n == Len(run[r].plan.package)
<1>5. n \in Nat /\ run[r].index \in Nat /\ run[r].index <= n BY <1>1, <1>2, <1>4, RunIs DEF Planned, Stage
<1>6. CASE run[r].index < n /\ CancelSeen(r)
    <2> DEFINE x == [run[r] EXCEPT !.at = "finish", !.error = "canceled"]
    <2>1. x \in RunT /\ x.at = "finish" /\ x.error = "canceled" BY <1>2 DEF RunT, Stages
    <2>2. /\ x.plan = run[r].plan /\ x.index = run[r].index /\ x.first = run[r].first /\ x.items = run[r].items
          /\ x.last = run[r].last
        BY <1>2 DEF RunT
    <2>3. Goes(r, x) BY <1>6 DEF NextItem, Goes
    <2>4. run'[r] = x /\ Moves(r) BY <1>1, <2>1, <2>2, <2>3, GoesMoves
    <2>5. StillStore BY <1>6 DEF NextItem, StillStore
    <2> QED BY <1>1, <1>3, <2>1, <2>2, <2>4, <2>5
<1>7. CASE run[r].index < n /\ ~CancelSeen(r)
    <2> DEFINE a == run[r].plan.actions[run[r].index + 1]
               x == [run[r] EXCEPT !.at = a]
    <2>0. a \in {"create", "skip"}
        <3>1. run[r].plan.actions \in Seq({"create", "skip"}) /\ Len(run[r].plan.actions) = n
            BY <1>2 DEF Planned, PlanSize
        <3>2. run[r].index + 1 \in 1 .. n BY <1>5, <1>7
        <3> QED BY <3>1, <3>2
    <2>3. Goes(r, x) BY <1>7 DEF NextItem, Goes
    <2>6. Progress(r, run[r].index) BY <1>7 DEF NextItem
    <2> HIDE DEF a
    <2>1. x \in RunT /\ x.at = a BY <1>2, <2>0 DEF RunT, Stages
    <2>2. /\ x.plan = run[r].plan /\ x.index = run[r].index /\ x.first = run[r].first /\ x.items = run[r].items
          /\ x.last = run[r].last /\ x.error = run[r].error
        BY <1>2 DEF RunT
    <2>4. run'[r] = x /\ Moves(r) BY <1>1, <2>0, <2>1, <2>2, <2>3, GoesMoves
    <2>5. Reports(r, run[r].index) BY <2>6, ProgressReports
    <2> QED BY <1>1, <1>3, <1>7, <2>0, <2>1, <2>2, <2>4, <2>5 DEF a
<1>8. CASE ~(run[r].index < n)
    <2> DEFINE x == [run[r] EXCEPT !.at = "finish", !.last = Hash]
    <2>0. Hash \in Hashes BY HashIs
    <2>3. Goes(r, x) BY <1>8 DEF NextItem, Goes
    <2>6. Progress(r, run[r].index) BY <1>8 DEF NextItem
    <2> HIDE DEF Hash
    <2>1. x \in RunT /\ x.at = "finish" /\ x.last = Hash BY <1>2, <2>0 DEF RunT, Stages
    <2>2. /\ x.plan = run[r].plan /\ x.index = run[r].index /\ x.first = run[r].first /\ x.items = run[r].items
          /\ x.error = run[r].error
        BY <1>2 DEF RunT
    <2>4. run'[r] = x /\ Moves(r) BY <1>1, <2>1, <2>2, <2>3, GoesMoves
    <2>5. Reports(r, run[r].index) BY <2>6, ProgressReports
    <2>7. run[r].index = n BY <1>5, <1>8
    <2> QED BY <1>1, <1>3, <2>1, <2>2, <2>4, <2>5, <2>7
<1> QED BY <1>6, <1>7, <1>8

\* The item of an execution is a file with a target.
LEMMA ItemIs ==
    ASSUME IInv, NEW r \in Runs, run[r].at \in {"create", "write", "skip", "report"}
    PROVE  /\ Act(r) /\ On(r) /\ run[r].index + 1 \in DOMAIN run[r].plan.package
           /\ Item(r) = run[r].plan.package[run[r].index + 1]
           /\ Item(r) \in ToSet(run[r].plan.package) /\ Item(r) \in SourceFiles
           /\ Target(Item(r)) \in Paths \union {<<>>}
<1>1. Act(r) /\ On(r) BY DEF Act, On
<1>2. Planned(run[r].plan) /\ run[r].index \in Nat BY <1>1, RunIs
<1>3. run[r].index < Len(run[r].plan.package) BY <1>1, ActIs DEF Stage
<1>4. run[r].plan.package \in Packages /\ run[r].plan.package \in Seq(SourceFiles) BY <1>2 DEF Planned
<1>5. run[r].index + 1 \in DOMAIN run[r].plan.package BY <1>2, <1>3, <1>4, PackageIs
<1>6. Item(r) = run[r].plan.package[run[r].index + 1] BY DEF Item
<1>7. Item(r) \in ToSet(run[r].plan.package) /\ Item(r) \in SourceFiles BY <1>4, <1>5, <1>6, PackageIs
<1> QED BY <1>1, <1>5, <1>6, <1>7, ImporterAssumption

Fails(r) ==
    /\ run'[r].at = "next" /\ run'[r].index = run[r].index + 1 /\ run'[r].first = run[r].first
    /\ run'[r].items = Append(run[r].items, "error") /\ run'[r].last = run[r].last /\ run'[r].error = run[r].error

LEMMA FailedDoes ==
    ASSUME IInv, NEW r \in Runs, On(r), run' = [run EXCEPT ![r] = Failed(r)]
    PROVE  Moves(r) /\ Fails(r)
<1> DEFINE x == Failed(r)
<1>1. run[r] \in RunT /\ run[r].index \in Nat /\ run[r].items \in Seq(Outcomes) BY RunIs
<1>2. Append(run[r].items, "error") \in Seq(Outcomes) /\ run[r].index + 1 \in Nat BY <1>1 DEF Outcomes
<1>3. x \in RunT BY <1>1, <1>2 DEF RunT, Stages, Failed
<1>4. /\ x.at = "next" /\ x.index = run[r].index + 1 /\ x.first = run[r].first /\ x.plan = run[r].plan
      /\ x.items = Append(run[r].items, "error") /\ x.last = run[r].last /\ x.error = run[r].error
    BY <1>1 DEF RunT, Failed
<1>5. Goes(r, x) BY DEF Goes
<1> HIDE DEF x
<1>6. run'[r] = x /\ Moves(r) BY <1>3, <1>4, <1>5, GoesMoves
<1> QED BY <1>4, <1>6 DEF Fails

\* A step that changes pages: b is the attempt that does, or 0.
Disturbs(b) ==
    /\ pages' \in [Paths -> LivePages \union {None}]
    /\ clock' \in Nat /\ clock <= clock'
    /\ touched' \in SUBSET ((1 .. starts) \X Paths) /\ touched \subseteq touched'
    /\ \A p \in Paths : pages'[p] # pages[p] =>
         /\ pages'[p] # None => pages'[p].stamp \in Nat /\ pages'[p].stamp > clock /\ pages'[p].stamp <= clock'
         /\ pages'[p] = None => b = 0
         /\ \A a \in 1 .. starts : a # b => <<a, p>> \in touched'

LEMMA TouchDoes ==
    ASSUME IInv, NEW r \in Runs, On(r), NEW S, S \subseteq Paths, Touch(r, S)
    PROVE  /\ touched' \in SUBSET ((1 .. starts) \X Paths) /\ touched \subseteq touched'
           /\ \A p \in S, a \in 1 .. starts : a # run[r].plan.attempt => <<a, p>> \in touched'
<1>1. touched \in SUBSET ((1 .. starts) \X Paths) BY DEF IInv, Types
<1> QED BY <1>1 DEF Touch

LEMMA TextIs ==
    ASSUME NEW kind \in {"empty", "typed"}, NEW n \in Nat
    PROVE  /\ [stamp |-> n, body |-> Text(kind)] \in LivePages
           /\ [stamp |-> n, body |-> Text(kind)] # None
           /\ Text(kind).kind = kind /\ Text(kind).link = None
<1>1. Text(kind) \in Texts BY DEF Text, Texts
<1>2. [stamp |-> n, body |-> Text(kind)] \in LivePages BY <1>1 DEF LivePages
<1> QED BY <1>2, ImporterAssumption DEF Text

LEMMA PathIs ==
    ASSUME NEW p \in Paths
    PROVE  Len(p) \in Nat \ {0} /\ p \in Seq(ToSet(p))
<1>1. p \in Seq(ToSet(p)) /\ <<>> \notin Paths BY ImporterAssumption
<1>2. p # <<>> BY <1>1
<1> QED BY <1>1, <1>2

LEMMA EnsureDoes ==
    ASSUME IInv, NEW r \in Runs, Ensure(r)
    PROVE  /\ run[r].at = "create" /\ Moves(r) /\ StillStore
           /\ UNCHANGED <<files, call, starts, plans, wrote, raced, late>>
           /\ \/ Fails(r) /\ StillTree
              \/ /\ run'[r].at = "write" /\ Same(r) /\ run'[r].error = run[r].error
                 /\ Target(Item(r)) \in Paths
                 /\ Disturbs(run[r].plan.attempt)
                 /\ \A p \in Paths : pages'[p] # pages[p] => pages'[p] # None /\ pages'[p].body = Text("empty")
<1> DEFINE target == Target(Item(r))
           new == {p \in Paths : IsPrefix(p, target) /\ pages[p] = None}
<1>1. run[r].at = "create" /\ On(r) /\ run[r] \in RunT BY RunIs DEF Ensure, On
<1>2. target \in Paths \union {<<>>} BY <1>1, ItemIs
<1>3. StillStore BY DEF Ensure, StillStore
<1>4. UNCHANGED <<files, call, starts, plans, wrote, raced, late>> BY DEF Ensure
<1>5. CASE target = <<>>
    <2>1. run' = [run EXCEPT ![r] = Failed(r)] /\ StillTree BY <1>5 DEF Ensure, StillTree
    <2>2. Moves(r) /\ Fails(r) BY <1>1, <2>1, FailedDoes
    <2> QED BY <1>1, <1>3, <1>4, <2>1, <2>2
<1>6. CASE target # <<>>
    <2> DEFINE x == [run[r] EXCEPT !.at = "write"]
    <2>1. /\ pages' = [p \in Paths |-> IF p \in new THEN [stamp |-> clock + Len(p), body |-> Text("empty")] ELSE pages[p]]
          /\ clock' = IF new = {} THEN clock ELSE clock + Len(target)
          /\ Touch(r, new)
        BY <1>6 DEF Ensure
    <2>2. Goes(r, x) BY <1>6 DEF Ensure, Goes
    <2>3. x \in RunT /\ x.at = "write" BY <1>1 DEF RunT, Stages
    <2>4. /\ x.plan = run[r].plan /\ x.index = run[r].index /\ x.first = run[r].first /\ x.items = run[r].items
          /\ x.last = run[r].last /\ x.error = run[r].error
        BY <1>1 DEF RunT
    <2>5. run'[r] = x /\ Moves(r) BY <1>1, <2>2, <2>3, <2>4, GoesMoves
    <2>6. new \subseteq Paths OBVIOUS
    <2>7. \A p \in new : Len(p) \in Nat /\ Len(p) >= 1 /\ Len(p) <= Len(target) BY PathIs DEF IsPrefix
    <2>8. target \in Paths /\ Len(target) \in Nat BY <1>2, <1>6, PathIs
    <2>9. clock \in Nat /\ pages \in [Paths -> LivePages \union {None}] BY DEF IInv, Types
    <2> HIDE DEF new, target, x
    <2>10. \A p \in new : [stamp |-> clock + Len(p), body |-> Text("empty")] \in LivePages \ {None}
        BY <2>7, <2>9, TextIs
    <2>11. pages' \in [Paths -> LivePages \union {None}] BY <2>1, <2>9, <2>10
    <2>12. clock' \in Nat /\ clock <= clock' BY <2>1, <2>8, <2>9
    <2>13. /\ touched' \in SUBSET ((1 .. starts) \X Paths) /\ touched \subseteq touched'
           /\ \A p \in new, a \in 1 .. starts : a # run[r].plan.attempt => <<a, p>> \in touched'
        BY <1>1, <2>1, <2>6, TouchDoes
    <2>14. ASSUME NEW p \in Paths, pages'[p] # pages[p]
           PROVE  /\ p \in new /\ pages'[p] # None /\ pages'[p].body = Text("empty")
                  /\ pages'[p].stamp \in Nat /\ pages'[p].stamp > clock /\ pages'[p].stamp <= clock'
        <3>1. p \in new BY <2>1, <2>14
        <3>2. pages'[p] = [stamp |-> clock + Len(p), body |-> Text("empty")] BY <2>1, <3>1
        <3>3. clock' = clock + Len(target) BY <2>1, <3>1
        <3> QED BY <2>7, <2>8, <2>9, <2>10, <3>1, <3>2, <3>3
    <2>15. Disturbs(run[r].plan.attempt) BY <2>11, <2>12, <2>13, <2>14 DEF Disturbs
    <2> QED BY <1>1, <1>3, <1>4, <2>3, <2>4, <2>5, <2>8, <2>14, <2>15 DEF Same, target, x
<1> QED BY <1>5, <1>6

\* A set of at most two positions that is not empty has a first one.
LEMMA FirstOf ==
    ASSUME NEW S, S \subseteq 1 .. 2, S # {}
    PROVE  Min(S) \in S /\ \A n \in S : Min(S) <= n
<1>1. \E n \in S : \A m \in S : n <= m
    <2>1. CASE 1 \in S
        <3>1. \A m \in S : 1 <= m OBVIOUS
        <3> QED BY <2>1, <3>1
    <2>2. CASE 1 \notin S
        <3>1. PICK k \in S : TRUE OBVIOUS
        <3>2. \A m \in S : m = 2 BY <2>2
        <3> QED BY <3>1, <3>2
    <2> QED BY <2>1, <2>2
<1> QED BY <1>1 DEF Min

\* A link resolves to the target of a file of the archive, if to anything.
LEMMA ResolveIs ==
    ASSUME NEW package \in Packages, NEW f, NEW link
    PROVE  Resolve(package, f, link) \in Targets(package) \union {None}
<1> DEFINE bases == Bases(f, link)
           exact == {n \in DOMAIN bases : FilesAt(package, bases[n]) # {}}
           named == {Target(g) : g \in {h \in ToSet(package) : ~link.absolute /\ h.name # Index /\ <<h.name>> = link.path}}
           ending == {t \in Targets(package) : Len(link.path) > 1 /\ IsSuffix(link.path, t)}
           near == CHOOSE g \in FilesAt(package, bases[Min(exact)]) : TRUE
<1>1. exact \subseteq 1 .. 2 BY DEF Bases
<1>2. \A base : FilesAt(package, base) \subseteq ToSet(package) BY DEF FilesAt
<1>3. \A g \in ToSet(package) : Target(g) \in Targets(package) BY DEF Targets, ToSet
<1>4. exact # {} => Target(near) \in Targets(package)
    <2> SUFFICES ASSUME exact # {} PROVE Target(near) \in Targets(package) OBVIOUS
    <2>1. Min(exact) \in exact BY <1>1, FirstOf
    <2>2. FilesAt(package, bases[Min(exact)]) # {} BY <2>1
    <2>3. near \in FilesAt(package, bases[Min(exact)]) BY <2>2
    <2> QED BY <1>2, <1>3, <2>3
<1>5. Cardinality(named) = 1 => (CHOOSE t \in named : TRUE) \in Targets(package) \union {None}
    <2>1. named \subseteq Targets(package) BY <1>3
    <2>2. Cardinality(named) = 1 => named # {}
        <3>1. Cardinality({}) = 0 BY FS_EmptySet
        <3> QED BY <3>1
    <2> QED BY <2>1, <2>2
<1>6. Cardinality(ending) = 1 => (CHOOSE t \in ending : TRUE) \in Targets(package) \union {None}
    <2>1. ending \subseteq Targets(package) OBVIOUS
    <2>2. Cardinality(ending) = 1 => ending # {}
        <3>1. Cardinality({}) = 0 BY FS_EmptySet
        <3> QED BY <3>1
    <2> QED BY <2>1, <2>2
<1>7. Resolve(package, f, link) =
        CASE exact # {} -> Target(near)
          [] exact = {} /\ Cardinality(named) = 1 -> CHOOSE t \in named : TRUE
          [] exact = {} /\ Cardinality(named) # 1 /\ Cardinality(ending) = 1 -> CHOOSE t \in ending : TRUE
          [] OTHER -> None
    BY Zenon DEF Resolve
<1> HIDE DEF exact, named, ending, near
<1> QED BY <1>4, <1>5, <1>6, <1>7

LEMMA ImportedIs ==
    ASSUME IInv, NEW r \in Runs, On(r), NEW f \in ToSet(run[r].plan.package)
    PROVE  /\ Imported(r, f) \in Texts
           /\ Imported(r, f).kind = "imported" /\ Imported(r, f).attempt = run[r].plan.attempt
           /\ Imported(r, f).file = f /\ Imported(r, f).package = run[r].plan.package
           /\ Imported(r, f).link =
                IF f.link = None THEN None ELSE Resolve(run[r].plan.package, f, f.link)
<1> DEFINE P == run[r].plan
           link == IF f.link = None THEN None ELSE Resolve(P.package, f, f.link)
<1>1. P.package \in Packages /\ P.attempt \in Nat BY RunIs DEF Planned
<1>2. ToSet(P.package) \subseteq SourceFiles BY <1>1, PackageIs
<1>3. Targets(P.package) \subseteq Paths \union {<<>>}
    BY <1>1, <1>2, PackageIs, ImporterAssumption DEF Targets
<1>4. link \in Paths \union {<<>>, None} BY <1>1, <1>3, ResolveIs
<1>5. Imported(r, f) = [kind |-> "imported", attempt |-> P.attempt, file |-> f, package |-> P.package, link |-> link]
    BY Zenon DEF Imported
<1> HIDE DEF link, P
<1>6. Imported(r, f) \in Texts BY <1>1, <1>2, <1>4, <1>5 DEF Texts, P
<1> QED BY <1>5, <1>6 DEF P, link

LEMMA WriteDoes ==
    ASSUME IInv, NEW r \in Runs, Write(r)
    PROVE  /\ run[r].at = "write" /\ Moves(r) /\ StillStore
           /\ UNCHANGED <<files, call, starts, plans, raced>>
           /\ \/ Fails(r) /\ StillTree /\ UNCHANGED <<wrote, late>>
              \/ /\ run'[r].at = "report" /\ run'[r].index = run[r].index /\ run'[r].first = run[r].first
                 /\ run'[r].items = Append(run[r].items, "created") /\ run'[r].last = run[r].last
                 /\ run'[r].error = run[r].error
                 /\ wrote' = wrote \union {<<run[r].plan.attempt, run[r].index + 1>>}
                 /\ late' = IF Ours(r) /\ store.cancel THEN late + 1 ELSE late
                 /\ Target(Item(r)) \in Paths /\ pages[Target(Item(r))] # None
                 /\ Disturbs(run[r].plan.attempt)
                 /\ \A p \in Paths : pages'[p] # pages[p] => p = Target(Item(r))
                 /\ pages'[Target(Item(r))] # None /\ pages'[Target(Item(r))].body = Imported(r, Item(r))
<1> DEFINE p == Target(Item(r))
<1>1. run[r].at = "write" /\ On(r) /\ run[r] \in RunT BY RunIs DEF Write, On
<1>2. p \in Paths \union {<<>>} /\ Item(r) \in ToSet(run[r].plan.package) BY <1>1, ItemIs
<1>3. StillStore BY DEF Write, StillStore
<1>4. UNCHANGED <<files, call, starts, plans>> BY DEF Write
<1>5. CASE ~(run[r].plan.id \in files /\ pages[p] # None)
    <2>1. run' = [run EXCEPT ![r] = Failed(r)] /\ StillTree /\ UNCHANGED <<wrote, late, raced>>
        BY <1>5 DEF Write, StillTree, history
    <2>2. Moves(r) /\ Fails(r) BY <1>1, <2>1, FailedDoes
    <2> QED BY <1>1, <1>3, <1>4, <2>1, <2>2
<1>6. CASE run[r].plan.id \in files /\ pages[p] # None
    <2> DEFINE new == [stamp |-> clock + 1, body |-> Imported(r, Item(r))]
               x == [run[r] EXCEPT !.at = "report", !.items = Append(run[r].items, "created")]
    <2>1. /\ pages' = [pages EXCEPT ![p] = new] /\ clock' = clock + 1 /\ Touch(r, {p}) /\ raced' = raced
          /\ wrote' = wrote \union {<<run[r].plan.attempt, run[r].index + 1>>}
          /\ late' = IF Ours(r) /\ store.cancel THEN late + 1 ELSE late
        BY <1>6 DEF Write
    <2>2. Goes(r, x) BY <1>6 DEF Write, Goes
    <2>3. run[r].items \in Seq(Outcomes) BY <1>1, RunIs
    <2>4. Append(run[r].items, "created") \in Seq(Outcomes) BY <2>3 DEF Outcomes
    <2>5. x \in RunT /\ x.at = "report" /\ x.items = Append(run[r].items, "created") BY <1>1, <2>4 DEF RunT, Stages
    <2>6. /\ x.plan = run[r].plan /\ x.index = run[r].index /\ x.first = run[r].first /\ x.last = run[r].last
          /\ x.error = run[r].error
        BY <1>1 DEF RunT
    <2> HIDE DEF x
    <2>7. run'[r] = x /\ Moves(r) BY <1>1, <2>2, <2>5, <2>6, GoesMoves
    <2>8. clock \in Nat /\ pages \in [Paths -> LivePages \union {None}] BY DEF IInv, Types
    <2>9. Imported(r, Item(r)) \in Texts BY <1>1, <1>2, ImportedIs
    <2>10. new \in LivePages /\ new # None /\ new.stamp = clock + 1 /\ new.body = Imported(r, Item(r))
        BY <2>8, <2>9, ImporterAssumption DEF LivePages
    <2> HIDE DEF new
    <2>11. p \in Paths
        <3>1. Act(r) /\ Stage(r) BY <1>1, ActIs DEF Act
        <3>2. p # <<>> BY <1>1, <3>1 DEF Stage, Item
        <3> QED BY <1>2, <3>2
    <2> HIDE DEF p
    <2>12. /\ touched' \in SUBSET ((1 .. starts) \X Paths) /\ touched \subseteq touched'
           /\ \A q \in {p}, a \in 1 .. starts : a # run[r].plan.attempt => <<a, q>> \in touched'
        BY <1>1, <2>1, <2>11, TouchDoes
    <2>13. pages' \in [Paths -> LivePages \union {None}] /\ pages'[p] = new BY <2>1, <2>8, <2>10, <2>11
    <2>14. \A q \in Paths : pages'[q] # pages[q] => q = p BY <2>1, <2>8, <2>11
    <2>15. Disturbs(run[r].plan.attempt)
        BY <2>1, <2>8, <2>10, <2>12, <2>13, <2>14 DEF Disturbs
    <2>16. pages'[p] # None /\ pages'[p].body = Imported(r, Item(r)) BY <2>10, <2>13
    <2> QED BY <1>1, <1>3, <1>4, <1>6, <2>1, <2>5, <2>6, <2>7, <2>11, <2>14, <2>15, <2>16 DEF p
<1> QED BY <1>5, <1>6

LEMMA SkipDoes ==
    ASSUME IInv, NEW r \in Runs, Skip(r)
    PROVE  /\ run[r].at = "skip" /\ Moves(r) /\ StillStore /\ Quiet
           /\ run'[r].at = "report" /\ run'[r].index = run[r].index /\ run'[r].first = run[r].first
           /\ run'[r].items = Append(run[r].items, "skipped") /\ run'[r].last = run[r].last
           /\ run'[r].error = run[r].error
<1> DEFINE x == [run[r] EXCEPT !.at = "report", !.items = Append(run[r].items, "skipped")]
<1>1. run[r].at = "skip" /\ On(r) /\ run[r] \in RunT /\ run[r].items \in Seq(Outcomes) BY RunIs DEF Skip, On
<1>2. Append(run[r].items, "skipped") \in Seq(Outcomes) BY <1>1 DEF Outcomes
<1>3. x \in RunT /\ x.at = "report" /\ x.items = Append(run[r].items, "skipped") BY <1>1, <1>2 DEF RunT, Stages
<1>4. /\ x.plan = run[r].plan /\ x.index = run[r].index /\ x.first = run[r].first /\ x.last = run[r].last
      /\ x.error = run[r].error
    BY <1>1 DEF RunT
<1>5. Goes(r, x) BY DEF Skip, Goes
<1>6. run'[r] = x /\ Moves(r) BY <1>1, <1>3, <1>4, <1>5, GoesMoves
<1>7. StillStore /\ Quiet BY DEF Skip, StillStore, Quiet, StillTree, history
<1> QED BY <1>1, <1>3, <1>4, <1>6, <1>7

LEMMA ReportDoes ==
    ASSUME IInv, NEW r \in Runs, Report(r)
    PROVE  /\ run[r].at = "report" /\ Moves(r) /\ Quiet /\ Reports(r, run[r].index + 1)
           /\ run'[r].at = "next" /\ run'[r].index = run[r].index + 1 /\ run'[r].first = run[r].first
           /\ run'[r].items = run[r].items /\ run'[r].last = Hash /\ run'[r].error = run[r].error
<1> DEFINE x == [run[r] EXCEPT !.at = "next", !.index = run[r].index + 1, !.last = Hash]
<1>1. run[r].at = "report" /\ On(r) /\ run[r] \in RunT /\ run[r].index \in Nat BY RunIs DEF Report, On
<1>2. Hash \in Hashes BY HashIs
<1>3. Goes(r, x) BY DEF Report, Goes
<1>4. Progress(r, run[r].index + 1) BY DEF Report, Reported
<1>5. Quiet BY DEF Report, Quiet, StillTree, history
<1> HIDE DEF Hash
<1>6. x \in RunT /\ x.at = "next" /\ x.index = run[r].index + 1 /\ x.last = Hash
    <2>1. run[r].index + 1 \in Nat /\ "next" \in Stages BY <1>1 DEF Stages
    <2>2. x \in RunT BY <1>1, <1>2, <2>1, Zenon DEF RunT
    <2> QED BY <1>1, <2>2 DEF RunT
<1>7. x.plan = run[r].plan /\ x.first = run[r].first /\ x.items = run[r].items /\ x.error = run[r].error
    BY <1>1 DEF RunT
<1>8. run'[r] = x /\ Moves(r) BY <1>1, <1>3, <1>6, <1>7, GoesMoves
<1>9. Reports(r, run[r].index + 1) BY <1>4, ProgressReports
<1> QED BY <1>1, <1>5, <1>6, <1>7, <1>8, <1>9

LEMMA OffIs == Off \in RunT /\ Off.at = "off" /\ Off.last = None
BY DEF Off, RunT, Stages

LEMMA FinishDoes ==
    ASSUME IInv, NEW r \in Runs, Finish(r)
    PROVE  /\ run[r].at = "finish" /\ Act(r) /\ On(r) /\ Quiet
           /\ run' \in [Runs -> RunT]
           /\ \A s \in Runs : s # r => run'[s] = run[s]
           /\ \/ StillStore /\ (broken = TRUE \/ ~Ours(r))
              \/ Ours(r) /\ Puts(Ended(store, run[r]))
           /\ \/ broken' = TRUE /\ run'[r] = Off
              \/ broken' = FALSE /\ run'[r].at = "clean" /\ run'[r].plan = run[r].plan /\ Moves(r)
           /\ run'[r].last \in {None, run[r].last}
<1>1. run[r].at = "finish" /\ On(r) /\ Act(r) /\ run[r] \in RunT BY RunIs DEF Finish, On, Act
<1>2. Quiet BY DEF Finish, Quiet, StillTree, history
<1>3. broken \in BOOLEAN BY DEF IInv, Types
<1>4. \/ StillStore /\ (broken = TRUE \/ ~Ours(r))
      \/ Ours(r) /\ Puts(Ended(store, run[r]))
    <2>1. CASE ~broken /\ Ours(r)
        <3>1. Persist(Ended(store, run[r])) BY <2>1, Zenon DEF Finish, Ended
        <3> QED BY <2>1, <3>1, PersistPuts, Zenon
    <2>2. CASE ~(~broken /\ Ours(r))
        <3>1. UNCHANGED <<store, disk, broken>> BY <2>2, Zenon DEF Finish
        <3>2. broken = TRUE \/ ~Ours(r) BY <1>3, <2>2, Zenon
        <3> QED BY <3>1, <3>2 DEF StillStore
    <2> QED BY <2>1, <2>2
<1>5. broken' = TRUE \/ broken' = FALSE BY <1>3, <1>4, Zenon DEF StillStore, Puts
<1>6. CASE broken' = TRUE
    <2>1. Goes(r, Off) BY <1>6, Zenon DEF Finish, Goes
    <2>2. run' \in [Runs -> RunT] /\ run'[r] = Off /\ \A s \in Runs : s # r => run'[s] = run[s]
        BY <1>1, <2>1, OffIs, GoesMoves
    <2> QED BY <1>1, <1>2, <1>4, <1>6, <2>2, OffIs
<1>7. CASE broken' = FALSE
    <2> DEFINE x == [run[r] EXCEPT !.at = "clean"]
    <2>1. Goes(r, x) BY <1>7, Zenon DEF Finish, Goes
    <2>2. x \in RunT /\ x.at = "clean" /\ x.plan = run[r].plan /\ x.last = run[r].last BY <1>1 DEF RunT, Stages
    <2> HIDE DEF x
    <2>3. /\ run' \in [Runs -> RunT] /\ run'[r] = x /\ \A s \in Runs : s # r => run'[s] = run[s]
          /\ Moves(r)
        BY <1>1, <2>1, <2>2, GoesMoves
    <2> QED BY <1>1, <1>2, <1>4, <1>7, <2>2, <2>3
<1> QED BY <1>5, <1>6, <1>7

LEMMA CleanDoes ==
    ASSUME IInv, NEW r \in Runs, Clean(r)
    PROVE  /\ run[r].at = "clean" /\ On(r) /\ StillStore /\ StillTree
           /\ run' \in [Runs -> RunT] /\ run'[r] = Off
           /\ \A s \in Runs : s # r => run'[s] = run[s]
           /\ files' \in {files, files \ {run[r].plan.id}}
           /\ UNCHANGED <<call, starts, plans, wrote, raced, late>>
<1>1. run[r].at = "clean" /\ On(r) BY DEF Clean, On
<1>2. Goes(r, Off) BY DEF Clean, Goes
<1>3. run' \in [Runs -> RunT] /\ run'[r] = Off /\ \A s \in Runs : s # r => run'[s] = run[s]
    BY <1>1, <1>2, OffIs, GoesMoves
<1> QED BY <1>1, <1>3 DEF Clean, StillStore, StillTree, history

-----------------------------------------------------------------------------
(* A start, a restart, the requests and everyone else *)

LEMMA StartDoes ==
    ASSUME IInv, Start
    PROVE  /\ store \in Held /\ store.status \in {"planned", "failed", "canceled"}
           /\ starts + 1 \in Runs /\ starts' = starts + 1
           /\ Puts(Started(store, starts + 1))
           /\ \/ broken' = TRUE /\ run' = run
              \/ /\ broken' = FALSE /\ run' \in [Runs -> RunT]
                 /\ run'[starts + 1] = Execution(Started(store, starts + 1))
                 /\ \A s \in Runs : s # starts + 1 => run'[s] = run[s]
           /\ raced \subseteq raced'
           /\ starts + 1 \notin raced' =>
                store.attempt = 0 /\ store.id \in files /\ \A c \in Calls : call[c].old # store.id
           /\ StillTree /\ UNCHANGED <<files, call, plans, wrote, late>>
<1> DEFINE Q == Started(store, starts + 1)
<1>1. store \in Held /\ store \in StoredPlans /\ store.status \in {"planned", "failed", "canceled"}
    BY StoreIs DEF Start, Planned
<1>2. starts \in Nat /\ MaxRuns \in Nat /\ starts < MaxRuns /\ starts' = starts + 1 /\ ~broken
    BY ImporterAssumption DEF Start, IInv, Types
<1>3. starts + 1 \in Runs BY <1>2 DEF Runs
<1>4. Persist(Q) BY Zenon DEF Start, Started
<1>5. Puts(Q) BY <1>2, <1>4, PersistPuts, Zenon
<1>6. broken' = TRUE \/ broken' = FALSE BY <1>5, Zenon DEF Puts
<1>7. \/ broken' = TRUE /\ run' = run
      \/ broken' = FALSE /\ run' = [run EXCEPT ![starts + 1] = Execution(Q)]
    BY <1>6, Zenon DEF Start, Started
<1>8. raced' = IF store.attempt # 0 \/ store.id \notin files \/ \E c \in Calls : call[c].old = store.id
               THEN raced \union {starts + 1} ELSE raced
    BY DEF Start
<1>9. StillTree /\ UNCHANGED <<files, call, plans, wrote, late>> BY DEF Start, StillTree
<1> HIDE DEF Q
<1>10. Execution(Q) \in RunT BY <1>1, <1>2, StartedIs, ExecutionIs DEF Q
<1>11. run \in [Runs -> RunT] BY DEF IInv, Types
<1>12. ASSUME broken' = FALSE
       PROVE  /\ run' \in [Runs -> RunT] /\ run'[starts + 1] = Execution(Q)
              /\ \A s \in Runs : s # starts + 1 => run'[s] = run[s]
    <2>1. run' = [run EXCEPT ![starts + 1] = Execution(Q)] BY <1>7, <1>12
    <2> QED BY <1>3, <1>10, <1>11, <2>1
<1>13. raced \subseteq raced' /\ (starts + 1 \notin raced' =>
            store.attempt = 0 /\ store.id \in files /\ \A c \in Calls : call[c].old # store.id)
    BY <1>8
<1>14. \/ broken' = TRUE /\ run' = run
       \/ /\ broken' = FALSE /\ run' \in [Runs -> RunT]
          /\ run'[starts + 1] = Execution(Q)
          /\ \A s \in Runs : s # starts + 1 => run'[s] = run[s]
    BY <1>7, <1>12
<1> QED BY <1>1, <1>2, <1>3, <1>5, <1>9, <1>13, <1>14 DEF Q

LEMMA IdleIs == Idle \in CallT /\ Idle.at = "idle" /\ Idle.id = 0 /\ Idle.hash = None /\ Idle.old = 0
BY DEF Idle, CallT

LEMMA RestartDoes ==
    ASSUME IInv, Restart
    PROVE  /\ store' = disk /\ disk' = disk /\ broken' = FALSE
           /\ call' \in [Calls -> CallT] /\ \A c \in Calls : call'[c] = Idle
           /\ run' \in [Runs -> RunT]
           /\ \/ /\ ~Interrupted /\ starts' = starts /\ touched' = touched /\ wrote' = wrote
                 /\ \A r \in Runs : run'[r] = Off
              \/ /\ Interrupted /\ starts' = starts + 1 /\ starts + 1 \in Runs
                 /\ disk \in Held /\ disk.status = "running"
                 /\ run'[starts + 1] = Execution(disk)
                 /\ \A r \in Runs : r # starts + 1 => run'[r] = Off
                 /\ touched' = {t \in touched : t[1] = disk.attempt => disk.last # None /\ disk.last[t[2]] = Hash[t[2]]}
                 /\ wrote' = {w \in wrote : w[1] = disk.attempt => w[2] <= disk.processed}
           /\ UNCHANGED <<pages, files, clock, plans, raced, late>>
<1>1. store' = disk /\ disk' = disk /\ broken' = FALSE /\ UNCHANGED <<pages, files, clock, plans, raced, late>>
    BY DEF Restart
<1>2. call' \in [Calls -> CallT] /\ \A c \in Calls : call'[c] = Idle BY IdleIs DEF Restart
<1>3. run' = [r \in Runs |-> IF Interrupted /\ r = starts + 1 THEN Execution(disk) ELSE Off] BY DEF Restart
<1>4. CASE ~Interrupted
    <2>1. starts' = starts /\ touched' = touched /\ wrote' = wrote BY <1>4 DEF Restart
    <2>2. run' = [r \in Runs |-> Off] BY <1>3, <1>4
    <2> QED BY <1>1, <1>2, <1>4, <2>1, <2>2, OffIs
<1>5. CASE Interrupted
    <2>1. disk \in Held /\ disk \in StoredPlans /\ disk.status = "running" BY <1>5, StoreIs DEF Interrupted, Planned
    <2>2. Execution(disk) \in RunT BY <2>1, ExecutionIs
    <2>3. starts \in Nat /\ MaxRuns \in Nat /\ starts < MaxRuns BY <1>5, ImporterAssumption DEF IInv, Types, Restart
    <2>4. starts' = starts + 1 /\ starts + 1 \in Runs BY <1>5, <2>3 DEF Restart, Runs
    <2>5. /\ touched' = {t \in touched : t[1] = disk.attempt => disk.last # None /\ disk.last[t[2]] = Hash[t[2]]}
          /\ wrote' = {w \in wrote : w[1] = disk.attempt => w[2] <= disk.processed}
        BY <1>5 DEF Restart
    <2>6. run' = [r \in Runs |-> IF r = starts + 1 THEN Execution(disk) ELSE Off] BY <1>3, <1>5
    <2>7. /\ run' \in [Runs -> RunT] /\ run'[starts + 1] = Execution(disk)
          /\ \A r \in Runs : r # starts + 1 => run'[r] = Off
        BY <2>2, <2>4, <2>6, OffIs
    <2> QED BY <1>1, <1>2, <1>5, <2>1, <2>4, <2>5, <2>7
<1> QED BY <1>4, <1>5

\* A request goes on, the others stand still.
CallMoves(c, x) ==
    /\ call' \in [Calls -> CallT] /\ call'[c] = x
    /\ \A d \in Calls : d # c => call'[d] = call[d]

LEMMA CallGoes ==
    ASSUME IInv, NEW c \in Calls, NEW x \in CallT, call' = [call EXCEPT ![c] = x]
    PROVE  CallMoves(c, x)
BY DEF IInv, Types, CallMoves

StillRuns == UNCHANGED <<run, starts, wrote, raced>>

LEMMA UploadDoes ==
    ASSUME IInv, NEW c \in Calls, NEW package \in Packages, Upload(c, package)
    PROVE  /\ plans' = plans + 1 /\ plans + 1 \in Plans
           /\ StillStore /\ StillTree /\ StillRuns /\ UNCHANGED late
           /\ \/ call' = call /\ files' = files
              \/ /\ files' = files \union {plans + 1}
                 /\ \E x \in CallT :
                      /\ CallMoves(c, x) /\ x.id = plans + 1 /\ x.package = package /\ x.hash = None
                      /\ \/ x.at = "hash"
                         \/ x.at = "sweep" /\ broken = FALSE /\ store \in Held /\ store.status # "running" /\ x.old = store.id
<1>1. plans \in Nat /\ MaxPlans \in Nat /\ plans < MaxPlans /\ plans' = plans + 1
    BY ImporterAssumption DEF IInv, Types, Upload
<1>2. plans + 1 \in Plans BY <1>1 DEF Plans
<1>3. StillStore /\ StillTree /\ StillRuns /\ UNCHANGED late
    BY DEF Upload, StillStore, StillTree, StillRuns, history
<1>4. broken \in BOOLEAN BY DEF IInv, Types
<1>5. CASE ~broken /\ Busy
    <2>1. UNCHANGED <<call, files>> BY <1>5, Zenon DEF Upload
    <2> QED BY <1>1, <1>2, <1>3, <2>1
<1>6. CASE ~(~broken /\ Busy)
    <2> DEFINE at == IF broken \/ store = None THEN "hash" ELSE "sweep"
               old == IF broken \/ store = None THEN 0 ELSE store.id
               x == [Idle EXCEPT !.at = at, !.id = plans + 1, !.package = package, !.old = old]
    <2>1. files' = files \union {plans + 1} /\ call' = [call EXCEPT ![c] = x] BY <1>6, Zenon DEF Upload
    <2>2. \/ at = "hash" /\ old = 0
          \/ at = "sweep" /\ broken = FALSE /\ store # None /\ store.status # "running" /\ old = store.id
        <3>1. CASE broken \/ store = None BY <3>1, Zenon
        <3>2. CASE ~(broken \/ store = None)
            <4>1. at = "sweep" /\ old = store.id BY <3>2, Zenon
            <4>2. broken = FALSE /\ store # None BY <1>4, <3>2, Zenon
            <4>3. store.status # "running" BY <1>6, <3>2, Zenon DEF Busy, Running
            <4> QED BY <4>1, <4>2, <4>3, Zenon
        <3> QED BY <3>1, <3>2, Zenon
    <2> HIDE DEF at, old
    <2>3. store # None => store \in Held /\ store.id \in Nat BY StoreIs DEF Planned, StoredPlans
    <2>4. at \in {"hash", "sweep"} /\ old \in Nat BY <2>2, <2>3
    <2>5. /\ x \in CallT /\ x.at = at /\ x.id = plans + 1 /\ x.package = package /\ x.hash = None /\ x.old = old
        <3>1. plans + 1 \in Nat BY <1>1
        <3>2. x \in CallT BY <2>4, <3>1, IdleIs, Zenon DEF CallT
        <3> QED BY <3>2, IdleIs DEF CallT
    <2> HIDE DEF x
    <2>6. CallMoves(c, x) BY <2>1, <2>5, CallGoes
    <2> QED BY <1>1, <1>2, <1>3, <2>1, <2>2, <2>3, <2>5, <2>6
<1> QED BY <1>5, <1>6, Zenon

LEMMA CancelDoes ==
    ASSUME IInv, NEW c \in Calls, Cancel(c)
    PROVE  /\ store \in Held /\ store.status = "running" /\ Puts(Cancelling(store)) /\ late' = 0
           /\ StillTree /\ StillRuns /\ UNCHANGED <<files, call, plans>>
<1>1. ~broken /\ store # None /\ store.status = "running" BY DEF Cancel, Running
<1>2. store \in Held BY <1>1, StoreIs
<1>3. Persist(Cancelling(store)) BY Zenon DEF Cancel, Cancelling
<1>4. Puts(Cancelling(store)) BY <1>1, <1>3, PersistPuts, Zenon
<1> QED BY <1>1, <1>2, <1>4 DEF Cancel, StillTree, StillRuns

LEMMA ClearDoes ==
    ASSUME IInv, NEW c \in Calls, Clear(c)
    PROVE  /\ broken = FALSE /\ store \in Held /\ store.status # "running"
           /\ \E x \in CallT : CallMoves(c, x) /\ x.at = "sweep" /\ x.id = 0 /\ x.old = store.id /\ x.hash = None
           /\ StillStore /\ StillTree /\ StillRuns /\ UNCHANGED <<files, plans, late>>
<1> DEFINE x == [Idle EXCEPT !.at = "sweep", !.old = store.id]
<1>1. ~broken /\ store # None /\ store.status # "running" /\ call' = [call EXCEPT ![c] = x]
    BY DEF Clear, Running
<1>2. broken = FALSE
    <2>1. broken \in BOOLEAN BY DEF IInv, Types
    <2> QED BY <1>1, <2>1, Zenon
<1>3. store \in Held /\ store.id \in Nat BY <1>1, StoreIs DEF Planned, StoredPlans
<1>4. x \in CallT /\ x.at = "sweep" /\ x.id = 0 /\ x.old = store.id /\ x.hash = None
    <2>1. x \in CallT BY <1>3, IdleIs, Zenon DEF CallT
    <2> QED BY <2>1, IdleIs DEF CallT
<1> HIDE DEF x
<1>5. CallMoves(c, x) BY <1>1, <1>4, CallGoes
<1>6. StillStore /\ StillTree /\ StillRuns /\ UNCHANGED <<files, plans, late>>
    BY DEF Clear, StillStore, StillTree, StillRuns, history
<1> QED BY <1>1, <1>2, <1>3, <1>4, <1>5, <1>6

LEMMA SweepDoes ==
    ASSUME IInv, NEW c \in Calls, Sweep(c)
    PROVE  /\ call[c].at = "sweep" /\ files \ {call[c].old, call[c].id} \subseteq files' /\ files' \subseteq files
           /\ \/ CallMoves(c, Idle)
              \/ \E x \in CallT :
                   /\ CallMoves(c, x) /\ x.at = "clear" /\ x.id = call[c].id /\ x.package = call[c].package
                   /\ x.hash = call[c].hash
           /\ StillStore /\ StillTree /\ StillRuns /\ UNCHANGED <<plans, late>>
<1> DEFINE x == [call[c] EXCEPT !.at = "clear"]
<1>1. /\ call[c].at = "sweep"
      /\ call' = [call EXCEPT ![c] = x] \/ call' = [call EXCEPT ![c] = Idle]
    BY Zenon DEF Sweep, SweepFails, Then, Done
<1>2. call[c] \in CallT BY DEF IInv, Types
<1>3. x \in CallT /\ x.at = "clear" /\ x.id = call[c].id /\ x.package = call[c].package /\ x.hash = call[c].hash
    BY <1>2 DEF CallT
<1> HIDE DEF x
<1>4. CallMoves(c, Idle) \/ CallMoves(c, x) BY <1>1, <1>3, IdleIs, CallGoes
<1>5. StillStore /\ StillTree /\ StillRuns /\ UNCHANGED <<plans, late>>
    BY DEF Sweep, StillStore, StillTree, StillRuns, history
<1>6. files \ {call[c].old, call[c].id} \subseteq files' /\ files' \subseteq files BY DEF Sweep, SweepFails
<1> QED BY <1>1, <1>3, <1>4, <1>5, <1>6

LEMMA ClearStoreDoes ==
    ASSUME IInv, NEW c \in Calls, ClearStore(c)
    PROVE  /\ call[c].at = "clear"
           /\ (StillStore /\ broken = TRUE) \/ Puts(None)
           /\ \/ CallMoves(c, Idle)
              \/ /\ call[c].id # 0
                 /\ \E x \in CallT :
                      /\ CallMoves(c, x) /\ x.at = "hash" /\ x.id = call[c].id /\ x.package = call[c].package
                      /\ x.hash = call[c].hash
           /\ \/ files' = files
              \/ files' = files \ {call[c].id} /\ CallMoves(c, Idle)
           /\ StillTree /\ StillRuns /\ UNCHANGED <<plans, late>>
<1> DEFINE x == [call[c] EXCEPT !.at = "hash"]
<1>1. call[c].at = "clear" BY DEF ClearStore
<1>2. broken \in BOOLEAN BY DEF IInv, Types
<1>3. (StillStore /\ broken = TRUE) \/ Puts(None)
    <2>1. CASE broken = TRUE
        <3>1. UNCHANGED <<store, disk, broken>> BY <2>1, Zenon DEF ClearStore
        <3> QED BY <2>1, <3>1 DEF StillStore
    <2>2. CASE broken = FALSE
        <3>1. Persist(None) BY <2>2, Zenon DEF ClearStore
        <3> QED BY <2>2, <3>1, PersistPuts, Zenon
    <2> QED BY <1>2, <2>1, <2>2
<1>4. \/ call' = [call EXCEPT ![c] = Idle]
      \/ call[c].id # 0 /\ call' = [call EXCEPT ![c] = x]
    BY Zenon DEF ClearStore, Done, Then
<1>5. broken' = TRUE \/ broken' = FALSE BY <1>2, <1>3, Zenon DEF StillStore, Puts
<1>6. \/ files' = files
      \/ files' = files \ {call[c].id} /\ call' = [call EXCEPT ![c] = Idle]
    BY <1>5, Zenon DEF ClearStore, Done
<1>7. call[c] \in CallT BY DEF IInv, Types
<1>8. x \in CallT /\ x.at = "hash" /\ x.id = call[c].id /\ x.package = call[c].package /\ x.hash = call[c].hash
    BY <1>7 DEF CallT
<1> HIDE DEF x
<1>9. call' = [call EXCEPT ![c] = Idle] => CallMoves(c, Idle) BY IdleIs, CallGoes
<1>10. call' = [call EXCEPT ![c] = x] => CallMoves(c, x) BY <1>8, CallGoes
<1>11. StillTree /\ StillRuns /\ UNCHANGED <<plans, late>>
    BY DEF ClearStore, StillTree, StillRuns, history
<1> QED BY <1>1, <1>3, <1>4, <1>6, <1>8, <1>9, <1>10, <1>11

LEMMA TakeHashDoes ==
    ASSUME IInv, NEW c \in Calls, TakeHash(c)
    PROVE  /\ call[c].at = "hash"
           /\ \E x \in CallT :
                /\ CallMoves(c, x) /\ x.at = "set" /\ x.id = call[c].id /\ x.package = call[c].package
                /\ x.hash = Hash
           /\ StillStore /\ StillTree /\ StillRuns /\ UNCHANGED <<files, plans, late>>
<1> DEFINE x == [call[c] EXCEPT !.at = "set", !.hash = Hash]
<1>1. call[c].at = "hash" /\ call' = [call EXCEPT ![c] = x] BY DEF TakeHash
<1>2. call[c] \in CallT BY DEF IInv, Types
<1>3. Hash \in Hashes BY HashIs
<1>4. StillStore /\ StillTree /\ StillRuns /\ UNCHANGED <<files, plans, late>>
    BY DEF TakeHash, StillStore, StillTree, StillRuns, history
<1> HIDE DEF Hash
<1>5. x \in CallT /\ x.at = "set" /\ x.id = call[c].id /\ x.package = call[c].package /\ x.hash = Hash
    BY <1>2, <1>3 DEF CallT
<1> HIDE DEF x
<1>6. CallMoves(c, x) BY <1>1, <1>5, CallGoes
<1> QED BY <1>1, <1>4, <1>5, <1>6

ActionsFor(package) == [i \in DOMAIN package |-> IF Exists(Target(package[i])) THEN "skip" ELSE "create"]

LEMMA ActionsAre ==
    ASSUME IInv, NEW package \in Packages
    PROVE  /\ ActionsFor(package) \in Seq({"create", "skip"}) /\ Len(ActionsFor(package)) = Len(package)
           /\ \A i \in DOMAIN package : ActionsFor(package)[i] = "create" =>
                Target(package[i]) = <<>> \/ pages[Target(package[i])] = None
<1>1. Len(package) \in Nat /\ DOMAIN package = 1 .. Len(package) BY PackageIs
<1> DEFINE a == ActionsFor(package)
<1>2. a \in [1 .. Len(package) -> {"create", "skip"}] BY <1>1 DEF ActionsFor
<1>3. a \in Seq({"create", "skip"}) /\ Len(a) = Len(package) BY <1>1, <1>2
<1>4. \A i \in DOMAIN package : a[i] = "create" => Target(package[i]) = <<>> \/ pages[Target(package[i])] = None
    BY DEF ActionsFor, Exists
<1> QED BY <1>3, <1>4

LEMMA SetPlanDoes ==
    ASSUME IInv, NEW c \in Calls, SetPlan(c)
    PROVE  /\ call[c].at = "set" /\ call[c].id \in 1 .. plans /\ call[c].package \in Packages /\ call[c].hash \in Hashes
           /\ \/ StillStore /\ broken = TRUE
              \/ Puts(NewPlan(call[c].id, call[c].package, call[c].hash, ActionsFor(call[c].package)))
           /\ CallMoves(c, Idle)
           /\ files' = files \/ files' = files \ {call[c].id}
           /\ StillTree /\ StillRuns /\ UNCHANGED <<plans, late>>
<1> DEFINE Q == NewPlan(call[c].id, call[c].package, call[c].hash, ActionsFor(call[c].package))
<1>1. call[c].at = "set" /\ call' = [call EXCEPT ![c] = Idle] BY DEF SetPlan, Done
<1>2. call[c] \in CallT /\ broken \in BOOLEAN /\ plans \in Nat BY DEF IInv, Types
<1>3. call[c].id \in 1 .. plans /\ call[c].package \in Packages /\ call[c].hash \in Hashes
    <2>1. call[c].id # 0 /\ call[c].id \in 0 .. plans /\ call[c].hash # None BY <1>1 DEF IInv, CallIds
    <2>2. call[c].package \in Packages BY <2>1 DEF IInv, CallIds
    <2>3. call[c].hash \in Hashes BY <1>2, <2>1 DEF CallT
    <2> QED BY <1>2, <2>1, <2>2, <2>3
<1>4. (StillStore /\ broken = TRUE) \/ Puts(Q)
    <2>1. CASE broken = TRUE
        <3>1. UNCHANGED <<store, disk, broken>> BY <2>1, Zenon DEF SetPlan
        <3> QED BY <2>1, <3>1 DEF StillStore
    <2>2. CASE broken = FALSE
        <3>1. Persist(Q) BY <2>2, Zenon DEF SetPlan, ActionsFor
        <3> QED BY <2>2, <3>1, PersistPuts, Zenon
    <2> QED BY <1>2, <2>1, <2>2
<1> HIDE DEF Q
<1>5. CallMoves(c, Idle) BY <1>1, IdleIs, CallGoes
<1>6. broken' = TRUE \/ broken' = FALSE BY <1>2, <1>4, Zenon DEF StillStore, Puts
<1>7. files' = files \/ files' = files \ {call[c].id} BY <1>6, Zenon DEF SetPlan
<1>8. StillTree /\ StillRuns /\ UNCHANGED <<plans, late>> BY DEF SetPlan, StillTree, StillRuns, history
<1> QED BY <1>1, <1>3, <1>4, <1>5, <1>7, <1>8 DEF Q

Elsewhere == UNCHANGED <<files, run, call, starts, plans, wrote, raced, late>>

LEMMA EditDoes ==
    ASSUME IInv, NEW p \in Paths, Edit(p)
    PROVE  /\ StillStore /\ Elsewhere /\ Disturbs(0)
           /\ \A q \in Paths : pages'[q] # pages[q] => pages'[q] # None /\ pages'[q].body = Text("typed")
<1> DEFINE new == [stamp |-> clock + 1, body |-> Text("typed")]
<1>1. /\ pages' = [pages EXCEPT ![p] = new] /\ clock' = clock + 1
      /\ touched' = touched \union ((1 .. starts) \X {p})
    BY DEF Edit
<1>2. clock \in Nat /\ pages \in [Paths -> LivePages \union {None}] /\ touched \in SUBSET ((1 .. starts) \X Paths)
    BY DEF IInv, Types
<1>3. StillStore /\ Elsewhere BY DEF Edit, StillStore, Elsewhere
<1>4. new \in LivePages /\ new # None /\ new.stamp = clock + 1 /\ new.body = Text("typed") BY <1>2, TextIs
<1> HIDE DEF new
<1>5. pages' \in [Paths -> LivePages \union {None}] /\ pages'[p] = new BY <1>1, <1>2, <1>4
<1>6. \A q \in Paths : pages'[q] # pages[q] => q = p BY <1>1, <1>2
<1>7. /\ touched' \in SUBSET ((1 .. starts) \X Paths) /\ touched \subseteq touched'
      /\ \A a \in 1 .. starts : <<a, p>> \in touched'
    BY <1>1, <1>2
<1>8. Disturbs(0) BY <1>1, <1>2, <1>4, <1>5, <1>6, <1>7 DEF Disturbs
<1> QED BY <1>3, <1>4, <1>5, <1>6, <1>8

LEMMA DeleteDoes ==
    ASSUME IInv, NEW p \in Paths, Delete(p)
    PROVE  /\ StillStore /\ Elsewhere /\ Disturbs(0)
           /\ \A q \in Paths : pages'[q] # pages[q] => pages'[q] = None
<1> DEFINE gone == {q \in Paths : IsPrefix(p, q)}
<1>1. /\ pages' = [q \in Paths |-> IF q \in gone THEN None ELSE pages[q]] /\ clock' = clock
      /\ touched' = touched \union ((1 .. starts) \X gone)
    BY DEF Delete
<1>2. clock \in Nat /\ pages \in [Paths -> LivePages \union {None}] /\ touched \in SUBSET ((1 .. starts) \X Paths)
    BY DEF IInv, Types
<1>3. StillStore /\ Elsewhere BY DEF Delete, StillStore, Elsewhere
<1>4. gone \subseteq Paths OBVIOUS
<1> HIDE DEF gone
<1>5. pages' \in [Paths -> LivePages \union {None}] BY <1>1, <1>2
<1>6. \A q \in Paths : pages'[q] # pages[q] => q \in gone /\ pages'[q] = None BY <1>1, <1>2
<1>7. /\ touched' \in SUBSET ((1 .. starts) \X Paths) /\ touched \subseteq touched'
      /\ \A q \in gone, a \in 1 .. starts : <<a, q>> \in touched'
    BY <1>1, <1>2, <1>4
<1>8. Disturbs(0) BY <1>1, <1>2, <1>5, <1>6, <1>7 DEF Disturbs
<1> QED BY <1>3, <1>6, <1>8

-----------------------------------------------------------------------------
(* A step of one execution, in general *)

\* The store takes over what the execution reports, or how it ended.
Stores(r, Q) ==
    /\ Puts(Q) /\ Ours(r) /\ Act(r) /\ store \in Held /\ Like(store, Q)
    /\ \/ /\ Act(r)' /\ run'[r].at # "report" /\ Q.status = store.status /\ (Q.cancel <=> store.cancel)
          /\ Q.processed = run'[r].index /\ Q.items = run'[r].items /\ Q.last = run'[r].last
       \/ /\ run[r].at = "finish" /\ run'[r].at \in {"off", "clean"} /\ ~Q.cancel
          /\ Q.status = (IF run[r].error = "none" THEN "completed" ELSE run[r].error)
          /\ Q.processed = (IF run[r].error = "none" THEN Len(run[r].plan.package) ELSE store.processed)
          /\ Q.items = (IF run[r].error = "failed" THEN <<>> ELSE run[r].items)
          /\ Q.last = (IF run[r].error = "failed" THEN None ELSE run[r].last)

ExecStep(r) ==
    /\ On(r) /\ run' \in [Runs -> RunT]
    /\ \A s \in Runs : s # r => run'[s] = run[s]
    /\ On(r)' => run'[r].plan = run[r].plan
    /\ Act(r)' => Act(r) /\ run'[r].index >= run[r].index
    /\ StillStore \/ \E Q \in StoredPlans : Stores(r, Q)
    /\ UNCHANGED <<call, starts, plans, raced>>

LEMMA ReportStores ==
    ASSUME IInv, NEW r \in Runs, Moves(r), Act(r), Act(r)', run'[r].at # "report",
           NEW n \in Nat, n = run'[r].index, Reports(r, n)
    PROVE  StillStore \/ \E Q \in StoredPlans : Stores(r, Q)
<1>1. CASE StillStore BY <1>1
<1>2. CASE Ours(r) /\ Puts(Reporting(store, n, run'[r].items, run'[r].last))
    <2> DEFINE Q == Reporting(store, n, run'[r].items, run'[r].last)
    <2>1. store \in Held /\ store \in StoredPlans BY <1>2, StoreIs DEF Ours, Planned
    <2>2. run'[r].items \in Seq(Outcomes) /\ run'[r].last \in Hashes \union {None} BY DEF Moves, RunT
    <2>3. /\ Q \in StoredPlans /\ Like(store, Q) /\ Q.status = store.status /\ (Q.cancel <=> store.cancel)
          /\ Q.processed = n /\ Q.items = run'[r].items /\ Q.last = run'[r].last
        BY <2>1, <2>2, ReportingIs
    <2>4. Puts(Q) BY <1>2
    <2> HIDE DEF Q
    <2>5. Stores(r, Q) BY <1>2, <2>1, <2>3, <2>4, Zenon DEF Stores
    <2> QED BY <2>3, <2>5
<1> QED BY <1>1, <1>2 DEF Reports

LEMMA ExecIs ==
    ASSUME IInv, NEW r \in Runs, Execute(r)
    PROVE  ExecStep(r)
<1> DEFINE Plain ==
        /\ Moves(r) /\ (Act(r)' => Act(r) /\ run'[r].index >= run[r].index)
        /\ StillStore \/ \E Q \in StoredPlans : Stores(r, Q)
        /\ UNCHANGED <<call, starts, plans, raced>>
<1>1. Plain => ExecStep(r) BY DEF ExecStep, Moves
<1>2. On(r) => run[r].index \in Nat /\ run[r].first \in Nat BY RunIs
<1>3. CASE Check(r)
    <2>1. run[r].at = "check" /\ Moves(r) /\ Same(r) /\ Quiet BY <1>3, CheckDoes
    <2>2. Act(r) /\ Act(r)' /\ run'[r].at # "report" /\ run[r].first = run'[r].index
        <3>1. Act(r) /\ Act(r)' /\ run'[r].at # "report" BY <1>3, CheckDoes DEF Act
        <3>2. run[r].index = run[r].first BY <2>1, <3>1, ActIs DEF Stage
        <3> QED BY <2>1, <3>1, <3>2 DEF Same
    <2>3. StillStore \/ Reports(r, run[r].first) BY <1>3, CheckDoes
    <2>4. run[r].first \in Nat BY <1>2, <2>1 DEF Moves
    <2>5. StillStore \/ \E Q \in StoredPlans : Stores(r, Q) BY <2>1, <2>2, <2>3, <2>4, ReportStores
    <2> QED BY <1>1, <2>1, <2>2, <2>4, <2>5, <1>2 DEF Same, Quiet
<1>4. CASE NextItem(r)
    <2>1. run[r].at = "next" /\ Moves(r) /\ Quiet /\ run'[r].index = run[r].index BY <1>4, NextItemDoes
    <2>2. Act(r) /\ Act(r)' /\ run'[r].at # "report" BY <1>4, NextItemDoes DEF Act
    <2>3. StillStore \/ Reports(r, run[r].index) BY <1>4, NextItemDoes
    <2>4. run[r].index \in Nat BY <1>2, <2>1 DEF Moves
    <2>5. StillStore \/ \E Q \in StoredPlans : Stores(r, Q) BY <2>1, <2>2, <2>3, <2>4, ReportStores
    <2> QED BY <1>1, <2>1, <2>2, <2>4, <2>5 DEF Quiet
<1>5. CASE Ensure(r)
    <2>1. /\ run[r].at = "create" /\ Moves(r) /\ StillStore /\ UNCHANGED <<call, starts, plans, raced>>
          /\ run'[r].index = run[r].index \/ run'[r].index = run[r].index + 1
        BY <1>5, EnsureDoes DEF Fails, Same
    <2> QED BY <1>1, <1>2, <2>1 DEF Act, Moves
<1>6. CASE Write(r)
    <2>1. /\ run[r].at = "write" /\ Moves(r) /\ StillStore /\ UNCHANGED <<call, starts, plans, raced>>
          /\ run'[r].index = run[r].index \/ run'[r].index = run[r].index + 1
        BY <1>6, WriteDoes DEF Fails
    <2> QED BY <1>1, <1>2, <2>1 DEF Act, Moves
<1>7. CASE Skip(r)
    <2>1. run[r].at = "skip" /\ Moves(r) /\ StillStore /\ Quiet /\ run'[r].index = run[r].index BY <1>7, SkipDoes
    <2> QED BY <1>1, <1>2, <2>1 DEF Act, Moves, Quiet
<1>8. CASE Report(r)
    <2>1. /\ run[r].at = "report" /\ Moves(r) /\ Quiet /\ Reports(r, run[r].index + 1)
          /\ run'[r].index = run[r].index + 1 /\ run'[r].at = "next"
        BY <1>8, ReportDoes
    <2>2. run[r].index \in Nat /\ run[r].index + 1 \in Nat BY <1>2, <2>1 DEF Moves
    <2>3. Act(r) /\ Act(r)' BY <2>1 DEF Act
    <2>4. StillStore \/ \E Q \in StoredPlans : Stores(r, Q) BY <2>1, <2>2, <2>3, ReportStores
    <2> QED BY <1>1, <2>1, <2>2, <2>3, <2>4 DEF Quiet
<1>9. CASE Finish(r)
    <2>1. /\ run[r].at = "finish" /\ Act(r) /\ On(r) /\ Quiet /\ run' \in [Runs -> RunT]
          /\ \A s \in Runs : s # r => run'[s] = run[s]
          /\ run'[r].at \in {"off", "clean"} /\ (run'[r].at = "clean" => run'[r].plan = run[r].plan)
        BY <1>9, FinishDoes, OffIs
    <2>2. StillStore \/ (Ours(r) /\ Puts(Ended(store, run[r]))) BY <1>9, FinishDoes
    <2>3. ASSUME Ours(r), Puts(Ended(store, run[r]))
          PROVE  \E Q \in StoredPlans : Stores(r, Q)
        <3> DEFINE Q == Ended(store, run[r])
        <3>1. store \in Held /\ store \in StoredPlans BY <2>3, StoreIs DEF Ours, Planned
        <3>2. run[r] \in RunT /\ run[r].plan # None BY <2>1, RunIs DEF IInv, Ids
        <3>3. /\ Q \in StoredPlans /\ Like(store, Q) /\ ~Q.cancel
              /\ Q.items = (IF run[r].error = "failed" THEN <<>> ELSE run[r].items)
              /\ Q.last = (IF run[r].error = "failed" THEN None ELSE run[r].last)
              /\ Q.status = (IF run[r].error = "none" THEN "completed" ELSE run[r].error)
              /\ Q.processed = IF run[r].error = "none" THEN Len(run[r].plan.package) ELSE store.processed
            BY <3>1, <3>2, EndedIs
        <3>4. Puts(Q) BY <2>3
        <3> HIDE DEF Q
        <3>5. Stores(r, Q) BY <2>1, <2>3, <3>1, <3>3, <3>4, Zenon DEF Stores
        <3> QED BY <3>3, <3>5
    <2>4. ~Act(r)' /\ (On(r)' => run'[r].plan = run[r].plan) BY <2>1 DEF Act, On
    <2> QED BY <2>1, <2>2, <2>3, <2>4 DEF ExecStep, Quiet
<1>10. CASE Clean(r)
    <2>1. ~On(r)' /\ ~Act(r)' BY <1>10, CleanDoes, OffIs DEF On, Act
    <2> QED BY <1>10, <2>1, CleanDoes DEF ExecStep
<1> QED BY <1>3, <1>4, <1>5, <1>6, <1>7, <1>8, <1>9, <1>10 DEF Execute

-----------------------------------------------------------------------------
(* Ids *)

LEMMA HeldAfter ==
    ASSUME IInv
    PROVE  /\ StillStore => Held' = Held
           /\ \A Q : Puts(Q) => /\ Held \subseteq {store} /\ Held' \subseteq Held \union {Q}
                                /\ Q # None => Q \in Held'
           /\ \A Q : StillStore \/ Puts(Q) => (~broken' => disk' = store')
<1>1. StillStore => Held' = Held BY DEF StillStore, Held
<1>2. ~broken => disk = store BY DEF IInv, Ids
<1>3. ASSUME NEW Q, Puts(Q)
      PROVE  Held \subseteq {store} /\ Held' \subseteq Held \union {Q} /\ (Q # None => Q \in Held')
    <2>1. ~broken /\ store' = Q /\ disk' \in {Q, disk} BY <1>3 DEF Puts
    <2>2. disk = store BY <1>2, <2>1
    <2> QED BY <2>1, <2>2 DEF Held
<1>4. ASSUME NEW Q, StillStore \/ Puts(Q), ~broken' PROVE disk' = store'
    <2>1. CASE StillStore BY <1>2, <1>4, <2>1 DEF StillStore
    <2>2. CASE Puts(Q) BY <1>4, <2>2 DEF Puts
    <2> QED BY <1>4, <2>1, <2>2
<1> QED BY <1>1, <1>3, <1>4

\* Every plan in play is one that was, up to its progress.
Descend == \A P \in InPlay' : \E P0 \in InPlay : Like(P0, P)

IdsOfPlans ==
    /\ \A P \in InPlay : P.id \in 1 .. plans /\ P.attempt \in 0 .. starts
    /\ \A P, Q \in InPlay : P.id = Q.id => SamePlan(P, Q)
    /\ \A P, Q \in InPlay : P.attempt = Q.attempt /\ P.attempt # 0 => P.id = Q.id

LEMMA DescendIds ==
    ASSUME IInv, Descend, plans' \in Nat, plans <= plans', starts' \in Nat, starts <= starts'
    PROVE  IdsOfPlans'
<1>0. plans \in Nat /\ starts \in Nat BY DEF IInv, Types
<1>1. IdsOfPlans BY DEF IInv, Ids, IdsOfPlans
<1>2. ASSUME NEW P \in InPlay' PROVE P.id \in 1 .. plans' /\ P.attempt \in 0 .. starts'
    <2>1. PICK P0 \in InPlay : Like(P0, P) BY <1>2 DEF Descend
    <2>2. P0.id \in 1 .. plans /\ P0.attempt \in 0 .. starts BY <1>1 DEF IdsOfPlans
    <2> QED BY <1>0, <2>1, <2>2 DEF Like
<1>3. ASSUME NEW P \in InPlay', NEW Q \in InPlay'
      PROVE  (P.id = Q.id => SamePlan(P, Q)) /\ (P.attempt = Q.attempt /\ P.attempt # 0 => P.id = Q.id)
    <2>1. PICK P0 \in InPlay : Like(P0, P) BY <1>3 DEF Descend
    <2>2. PICK Q0 \in InPlay : Like(Q0, Q) BY <1>3 DEF Descend
    <2>3. (P0.id = Q0.id => SamePlan(P0, Q0)) /\ (P0.attempt = Q0.attempt /\ P0.attempt # 0 => P0.id = Q0.id)
        BY <1>1 DEF IdsOfPlans
    <2> QED BY <2>1, <2>2, <2>3 DEF Like, SamePlan
<1> QED BY <1>2, <1>3 DEF IdsOfPlans

LEMMA ExecDescend ==
    ASSUME IInv, NEW r \in Runs, ExecStep(r)
    PROVE  /\ Descend
           /\ \A P \in Held' : P \in Held \/ Stores(r, P)
           /\ \A s \in Runs : On(s)' => On(s) /\ run'[s].plan = run[s].plan
           /\ \A s \in Runs : Act(s)' => Act(s) /\ run'[s].index >= run[s].index /\ run[s].index \in Nat
<1>1. ASSUME NEW P \in Held' PROVE P \in Held \/ Stores(r, P)
    <2>1. CASE StillStore BY <1>1, <2>1, HeldAfter
    <2>2. ASSUME NEW Q \in StoredPlans, Stores(r, Q) PROVE P \in Held \/ Stores(r, P)
        <3>1. P \in Held \union {Q} BY <1>1, <2>2, HeldAfter DEF Stores
        <3> QED BY <2>2, <3>1
    <2> QED BY <2>1, <2>2 DEF ExecStep
<1>2. \A s \in Runs : On(s)' => On(s) /\ run'[s].plan = run[s].plan BY DEF ExecStep, On
<1>3. \A s \in Runs : Act(s)' => Act(s) /\ run'[s].index >= run[s].index /\ run[s].index \in Nat
    <2>1. \A s \in Runs : run[s].index \in Nat BY DEF IInv, Types, RunT
    <2>2. \A s \in Runs : s # r => (Act(s)' => Act(s) /\ run'[s] = run[s]) BY DEF ExecStep, Act
    <2>3. Act(r)' => Act(r) /\ run'[r].index >= run[r].index BY DEF ExecStep
    <2> QED BY <2>1, <2>2, <2>3
<1>4. \A P \in Held' : \E P0 \in InPlay : Like(P0, P) BY <1>1 DEF Like, Stores, InPlay
<1>5. ASSUME NEW P \in InPlay' PROVE \E P0 \in InPlay : Like(P0, P)
    <2>1. CASE P \in Held' BY <1>4, <2>1
    <2>2. ASSUME NEW s \in Runs, On(s)', P = run'[s].plan PROVE \E P0 \in InPlay : Like(P0, P)
        <3>1. On(s) /\ P = run[s].plan BY <1>2, <2>2
        <3> QED BY <3>1 DEF InPlay, Like
    <2> QED BY <1>5, <2>1, <2>2 DEF InPlay
<1> QED BY <1>1, <1>2, <1>3, <1>5 DEF Descend

LEMMA ExecIds ==
    ASSUME IInv, NEW r \in Runs, ExecStep(r)
    PROVE  Ids'
<1>0. Ids BY DEF IInv
<1>1. ~broken' => disk' = store' BY HeldAfter DEF ExecStep, Stores
<1>2. starts' = starts /\ plans' = plans /\ starts \in Nat /\ plans \in Nat BY DEF ExecStep, IInv, Types
<1>3. IdsOfPlans' BY <1>2, ExecDescend, DescendIds
<1>4. ASSUME NEW P \in Held', Stores(r, P)
      PROVE  store \in Held /\ Act(r) /\ On(r) /\ Like(store, P) /\ store.id = run[r].plan.id /\ store.status = "running"
             /\ store.attempt = run[r].plan.attempt /\ P.attempt # 0
    <2>1. store \in Held /\ Act(r) /\ On(r) /\ Like(store, P) /\ store.id = run[r].plan.id
        BY <1>4 DEF Stores, Ours, Act, On
    <2>2. store.status = "running" /\ store.attempt = run[r].plan.attempt BY <1>0, <2>1 DEF Ids
    <2>3. run[r].plan.attempt # 0 BY <1>0, <2>1 DEF Ids
    <2> QED BY <2>1, <2>2, <2>3 DEF Like
<1>5. \A P \in Held' : P.status \in {"running", "completed"} => P.attempt # 0
    BY <1>0, <1>4, ExecDescend DEF Ids
<1>6. \A s \in Runs : On(s)' => run'[s].plan # None /\ run'[s].plan.attempt # 0 /\ s <= starts'
    BY <1>0, <1>2, ExecDescend DEF Ids
<1>7. \A P \in Held', s \in Runs : On(s)' /\ P.id = run'[s].plan.id => P.attempt # 0
    BY <1>0, <1>4, ExecDescend DEF Ids
<1>8. ASSUME NEW P \in Held', NEW s \in Runs, Act(s)', P.id = run'[s].plan.id
      PROVE  P.status = "running" /\ P.attempt = run'[s].plan.attempt /\ P.processed <= run'[s].index
    <2>1. Act(s) /\ On(s)' /\ run'[s].index >= run[s].index /\ run[s].index \in Nat BY <1>8, ExecDescend DEF Act, On
    <2>2. run'[s].plan = run[s].plan BY <2>1, ExecDescend
    <2>3. run'[s].index \in Nat BY DEF ExecStep, RunT
    <2>4. CASE P \in Held
        <3>1. P.status = "running" /\ P.attempt = run[s].plan.attempt /\ P.processed <= run[s].index
            BY <1>0, <1>8, <2>1, <2>2, <2>4 DEF Ids
        <3>2. P.processed \in Nat BY <2>4, StoreIs, PlannedIs DEF Planned
        <3> QED BY <2>1, <2>2, <2>3, <3>1, <3>2
    <2>5. CASE Stores(r, P)
        <3>1. P.id = run[r].plan.id /\ Act(r) BY <1>4, <2>5 DEF Like
        <3>2. s = r BY <1>0, <1>8, <2>1, <2>2, <3>1 DEF Ids
        <3>3. P.status = store.status /\ P.processed = run'[r].index BY <1>8, <2>5, <3>2 DEF Stores, Act
        <3> QED BY <1>4, <2>2, <2>3, <2>5, <3>2, <3>3 DEF Like
    <2> QED BY <2>4, <2>5, ExecDescend
<1>9. \A s, q \in Runs : Act(s)' /\ Act(q)' /\ run'[s].plan.id = run'[q].plan.id => s = q
    <2>1. \A s \in Runs : Act(s)' => On(s)' BY DEF Act, On
    <2> QED BY <1>0, <2>1, ExecDescend DEF Ids
<1> QED BY <1>1, <1>3, <1>5, <1>6, <1>7, <1>8, <1>9 DEF Ids, IdsOfPlans

\* The plan that a start puts into the store, and the execution of it.
LEMMA StartPlays ==
    ASSUME IInv, Start
    PROVE  LET n == starts + 1
               Q == Started(store, n)
           IN  /\ store \in Held /\ store \in InPlay /\ store.status # "running" /\ starts' = n /\ plans' = plans /\ n \in Runs
               /\ Q.id = store.id /\ Q.package = store.package /\ Q.hash = store.hash /\ Q.actions = store.actions
               /\ Q.status = "running" /\ Q.processed = 0 /\ Q.attempt = n /\ Q \in StoredPlans /\ Q # None
               /\ Q.items = <<>> /\ Q.last = None /\ ~Q.cancel /\ Puts(Q)
               /\ Held \subseteq {store} /\ Held' \subseteq Held \union {Q} /\ (broken' = FALSE => Held' \subseteq {Q})
               /\ broken' = TRUE => run' = run
               /\ \A s \in Runs : On(s)' =>
                    \/ s = n /\ broken' = FALSE /\ run'[s].plan = Q /\ run'[s] = Execution(Q)
                    \/ On(s) /\ run'[s] = run[s]
               /\ InPlay' \subseteq InPlay \union {Q}
<1> DEFINE n == starts + 1
           Q == Started(store, n)
<1>0. Ids /\ starts \in Nat /\ plans \in Nat BY DEF IInv, Types
<1>1. /\ store \in Held /\ store \in StoredPlans /\ store \in InPlay /\ store.status # "running" /\ starts' = n /\ plans' = plans
      /\ n \in Runs /\ Puts(Q)
    <2>1. store \in Held /\ store.status # "running" /\ starts' = n /\ plans' = plans /\ n \in Runs /\ Puts(Q)
        BY StartDoes
    <2>2. store # None BY <2>1 DEF Held
    <2> QED BY <2>1, <2>2, StoreIs DEF Planned
<1>2. /\ Q.id = store.id /\ Q.package = store.package /\ Q.hash = store.hash /\ Q.actions = store.actions
      /\ Q.status = "running" /\ Q.processed = 0 /\ Q.attempt = n /\ Q \in StoredPlans /\ Q # None
      /\ Q.items = <<>> /\ Q.last = None /\ ~Q.cancel
    <2>1. n \in Nat BY <1>0
    <2>2. None \notin StoredPlans BY ImporterAssumption
    <2> HIDE DEF n
    <2>3. /\ Q.id = store.id /\ Q.package = store.package /\ Q.hash = store.hash /\ Q.actions = store.actions
          /\ Q.status = "running" /\ Q.processed = 0 /\ Q.attempt = n /\ Q \in StoredPlans
          /\ Q.items = <<>> /\ Q.last = None /\ ~Q.cancel
        BY <1>1, <2>1, StartedIs
    <2>4. Q # None BY <2>2, <2>3
    <2> QED BY <2>3, <2>4, Zenon
<1>3. \/ broken' = TRUE /\ run' = run
      \/ /\ broken' = FALSE /\ run'[n] = Execution(Q)
         /\ \A s \in Runs : s # n => run'[s] = run[s]
    BY StartDoes
<1>4. Execution(Q).plan = Q BY <1>2, ExecutionIs
<1> HIDE DEF Q
<1>5. Held \subseteq {store} /\ Held' \subseteq Held \union {Q} /\ (broken' = FALSE => Held' \subseteq {Q})
    <2>1. Held \subseteq {store} /\ Held' \subseteq Held \union {Q} BY <1>1, HeldAfter
    <2>2. broken' = FALSE => store' = Q /\ disk' = Q BY <1>1 DEF Puts
    <2> QED BY <2>1, <2>2 DEF Held
<1>6. ASSUME NEW s \in Runs, On(s)'
      PROVE  \/ s = n /\ broken' = FALSE /\ run'[s].plan = Q /\ run'[s] = Execution(Q)
             \/ On(s) /\ run'[s] = run[s]
    BY <1>3, <1>4, <1>6 DEF On
<1>7. InPlay' \subseteq InPlay \union {Q} BY <1>5, <1>6 DEF InPlay
<1>8. broken' = TRUE => run' = run BY <1>3
<1> QED BY <1>1, <1>2, <1>5, <1>6, <1>7, <1>8 DEF Q

LEMMA StartIds ==
    ASSUME IInv, Start
    PROVE  Ids' /\ \A P \in InPlay' : \E P0 \in InPlay : P.id = P0.id
<1> DEFINE n == starts + 1
           Q == Started(store, n)
<1>0. Ids /\ starts \in Nat /\ plans \in Nat BY DEF IInv, Types
<1>1. /\ store \in Held /\ store \in InPlay /\ store.status # "running" /\ starts' = n /\ plans' = plans
      /\ n \in Runs /\ Puts(Q)
    BY StartPlays
<1>2. /\ Q.id = store.id /\ Q.package = store.package /\ Q.hash = store.hash
      /\ Q.status = "running" /\ Q.processed = 0 /\ Q.attempt = n /\ Q \in StoredPlans /\ Q # None
    BY StartPlays
<1>4. Execution(Q).at = "check" /\ Execution(Q).plan = Q /\ Execution(Q).index = 0 BY <1>2, ExecutionIs
<1>5. Held \subseteq {store} /\ Held' \subseteq Held \union {Q} /\ (broken' = FALSE => Held' \subseteq {Q})
    BY StartPlays
<1>6. ASSUME NEW s \in Runs, On(s)'
      PROVE  \/ s = n /\ broken' = FALSE /\ run'[s].plan = Q /\ run'[s].index = 0
             \/ On(s) /\ run'[s] = run[s]
    BY <1>4, <1>6, StartPlays
<1>18. InPlay' \subseteq InPlay \union {Q} BY StartPlays
<1> HIDE DEF Q
<1>7. \A s \in Runs : Act(s) => run[s].plan.id # store.id BY <1>0, <1>1 DEF Ids
<1>9. \A P \in InPlay : P.attempt \in 0 .. starts /\ P.id \in 1 .. plans /\ P.attempt # n BY <1>0 DEF Ids
<1>10. IdsOfPlans'
    <2>1. IdsOfPlans BY <1>0 DEF Ids, IdsOfPlans
    <2>2. \A P \in InPlay' : P.id \in 1 .. plans' /\ P.attempt \in 0 .. starts'
        BY <1>0, <1>1, <1>2, <1>18, <1>9
    <2>3. ASSUME NEW P \in InPlay', NEW S \in InPlay'
          PROVE  (P.id = S.id => SamePlan(P, S)) /\ (P.attempt = S.attempt /\ P.attempt # 0 => P.id = S.id)
        BY <1>1, <1>2, <1>18, <1>9, <2>1 DEF IdsOfPlans, SamePlan
    <2> QED BY <2>2, <2>3 DEF IdsOfPlans
<1>11. ~broken' => disk' = store' BY <1>1, HeldAfter
<1>12. \A P \in Held' : P.status \in {"running", "completed"} => P.attempt # 0 BY <1>0, <1>2, <1>5 DEF Ids
<1>13. ASSUME NEW s \in Runs, On(s)' PROVE run'[s].plan # None /\ run'[s].plan.attempt # 0 /\ s <= starts'
    <2>1. CASE s = n /\ run'[s].plan = Q BY <1>0, <1>1, <1>2, <2>1
    <2>2. CASE On(s) /\ run'[s] = run[s] BY <1>0, <1>1, <2>2 DEF Ids, Runs
    <2> QED BY <1>6, <1>13, <2>1, <2>2
<1>14. ASSUME NEW P \in Held', NEW s \in Runs, On(s)', P.id = run'[s].plan.id PROVE P.attempt # 0
    <2>1. CASE P = Q BY <1>0, <1>2, <2>1
    <2>2. CASE P \in Held /\ P # Q
        <3>1. On(s) /\ run'[s] = run[s] BY <1>5, <1>6, <1>14, <2>2
        <3> QED BY <1>0, <1>14, <2>2, <3>1 DEF Ids
    <2> QED BY <1>5, <2>1, <2>2
<1>15. ASSUME NEW P \in Held', NEW s \in Runs, Act(s)', P.id = run'[s].plan.id
       PROVE  P.status = "running" /\ P.attempt = run'[s].plan.attempt /\ P.processed <= run'[s].index
    <2>1. On(s)' BY <1>15 DEF Act, On
    <2>2. CASE s = n /\ broken' = FALSE /\ run'[s].plan = Q /\ run'[s].index = 0 BY <1>2, <1>5, <2>2
    <2>3. CASE On(s) /\ run'[s] = run[s]
        <3>1. Act(s) /\ P.id = run[s].plan.id BY <1>15, <2>3 DEF Act
        <3>2. P.id = store.id BY <1>2, <1>5
        <3> QED BY <1>7, <3>1, <3>2
    <2> QED BY <1>6, <2>1, <2>2, <2>3
<1>16. ASSUME NEW s \in Runs, NEW q \in Runs, Act(s)', Act(q)', run'[s].plan.id = run'[q].plan.id PROVE s = q
    <2>1. On(s)' /\ On(q)' BY <1>16 DEF Act, On
    <2>2. \A t \in Runs : Act(t)' /\ run'[t] = run[t] => Act(t) /\ run'[t].plan.id # Q.id BY <1>2, <1>7 DEF Act
    <2>3. (s = n /\ run'[s].plan = Q) \/ run'[s] = run[s] BY <1>6, <2>1
    <2>4. (q = n /\ run'[q].plan = Q) \/ run'[q] = run[q] BY <1>6, <2>1
    <2>5. CASE run'[s] = run[s] /\ run'[q] = run[q] BY <1>0, <1>16, <2>2, <2>5 DEF Ids
    <2> QED BY <1>16, <2>2, <2>3, <2>4, <2>5
<1>17. \A P \in InPlay' : \E P0 \in InPlay : P.id = P0.id BY <1>1, <1>2, <1>18
<1> QED BY <1>10, <1>11, <1>12, <1>13, <1>14, <1>15, <1>16, <1>17 DEF Ids, IdsOfPlans

\* After a restart there is the plan of the file, and its execution if it was running.
LEMMA RestartPlays ==
    ASSUME IInv, Restart
    PROVE  /\ store' = disk /\ disk' = disk /\ plans' = plans /\ starts' \in {starts, starts + 1}
           /\ Held' \subseteq Held /\ Held' \subseteq {disk}
           /\ \A s \in Runs : On(s)' =>
                /\ s = starts + 1 /\ starts' = starts + 1 /\ Interrupted
                /\ disk \in Held /\ disk.status = "running" /\ disk # None /\ disk \in StoredPlans
                /\ run'[s].at = "check" /\ run'[s].plan = disk /\ run'[s].index = disk.processed
                /\ run'[s].first = disk.processed /\ run'[s].items = disk.items /\ run'[s].last = disk.last
                /\ run'[s].error = "none"
<1>1. store' = disk /\ disk' = disk /\ plans' = plans /\ starts' \in {starts, starts + 1} BY RestartDoes
<1>2. Held' \subseteq Held /\ Held' \subseteq {disk} BY <1>1 DEF Held
<1>3. ASSUME NEW s \in Runs, On(s)'
      PROVE  /\ s = starts + 1 /\ starts' = starts + 1 /\ Interrupted
             /\ disk \in Held /\ disk.status = "running" /\ disk # None /\ disk \in StoredPlans
             /\ run'[s].at = "check" /\ run'[s].plan = disk /\ run'[s].index = disk.processed
             /\ run'[s].first = disk.processed /\ run'[s].items = disk.items /\ run'[s].last = disk.last
             /\ run'[s].error = "none"
    <2>1. ~(run'[s] = Off) BY <1>3, OffIs DEF On
    <2>2. /\ Interrupted /\ s = starts + 1 /\ starts' = starts + 1 /\ disk \in Held /\ disk.status = "running"
          /\ run'[s] = Execution(disk)
        BY <2>1, RestartDoes
    <2>3. disk \in StoredPlans BY <2>2, StoreIs, PlannedIs DEF Planned
    <2>4. disk # None BY <2>2 DEF Held
    <2> QED BY <2>2, <2>3, <2>4, ExecutionIs
<1> QED BY <1>1, <1>2, <1>3

LEMMA RestartIds ==
    ASSUME IInv, Restart
    PROVE  Ids' /\ Descend
<1>0. Ids /\ starts \in Nat /\ plans \in Nat BY DEF IInv, Types
<1>1. store' = disk /\ disk' = disk /\ plans' = plans /\ starts' \in {starts, starts + 1} BY RestartPlays
<1>2. Held' \subseteq Held /\ Held' \subseteq {disk} BY RestartPlays
<1>3. ASSUME NEW s \in Runs, On(s)'
      PROVE  s = starts + 1 /\ starts' = starts + 1 /\ disk \in Held /\ disk.status = "running" /\ run'[s].plan = disk
             /\ run'[s].index = disk.processed /\ disk.processed \in Nat /\ disk # None
    BY <1>3, RestartPlays DEF StoredPlans
<1>4. Descend BY <1>2, <1>3 DEF Descend, Like, InPlay
<1>5. IdsOfPlans' BY <1>0, <1>1, <1>4, DescendIds
<1>6. \A P \in Held' : P.status \in {"running", "completed"} => P.attempt # 0 BY <1>0, <1>2 DEF Ids
<1>7. \A s \in Runs : On(s)' => run'[s].plan # None /\ run'[s].plan.attempt # 0 /\ s <= starts'
    BY <1>0, <1>3 DEF Ids
<1>8. \A P \in Held', s \in Runs : On(s)' /\ P.id = run'[s].plan.id => P.attempt # 0
    BY <1>0, <1>2, <1>3 DEF Ids
<1>9. ASSUME NEW P \in Held', NEW s \in Runs, Act(s)'
      PROVE  P.status = "running" /\ P.attempt = run'[s].plan.attempt /\ P.processed <= run'[s].index
    <2>1. On(s)' BY <1>9 DEF Act, On
    <2> QED BY <1>2, <1>3, <2>1
<1>10. \A s, q \in Runs : Act(s)' /\ Act(q)' => s = q BY <1>3 DEF Act, On
<1> QED BY <1>1, <1>2, <1>4, <1>5, <1>6, <1>7, <1>8, <1>9, <1>10 DEF Ids, IdsOfPlans

\* A step of a request, or of somebody else, that leaves the executions alone.
Retains(P0, P) == Like(P0, P) /\ P.status = P0.status /\ P.processed = P0.processed /\ P.items = P0.items /\ P.last = P0.last
StoreStep ==
    /\ run' = run /\ starts' = starts /\ plans' \in Nat /\ plans <= plans'
    /\ ~broken' => disk' = store'
    /\ \A P \in Held' : \E P0 \in Held : Retains(P0, P)

LEMMA StoreIds ==
    ASSUME IInv, StoreStep
    PROVE  Ids' /\ Descend
<1>0. Ids /\ starts \in Nat BY DEF IInv, Types
<1>1. \A s \in Runs : (On(s)' <=> On(s)) /\ (Act(s)' <=> Act(s)) /\ run'[s] = run[s] BY DEF StoreStep, On, Act
<1>2. Descend BY <1>1 DEF StoreStep, Descend, InPlay, Like, Retains
<1>3. IdsOfPlans' BY <1>0, <1>2, DescendIds DEF StoreStep
<1>4. ASSUME NEW P \in Held'
      PROVE  /\ P.status \in {"running", "completed"} => P.attempt # 0
             /\ \A s \in Runs : On(s)' /\ P.id = run'[s].plan.id => P.attempt # 0
             /\ \A s \in Runs : Act(s)' /\ P.id = run'[s].plan.id =>
                  P.status = "running" /\ P.attempt = run'[s].plan.attempt /\ P.processed <= run'[s].index
    <2>1. PICK P0 \in Held : Retains(P0, P) BY <1>4 DEF StoreStep
    <2> QED BY <1>0, <1>1, <2>1 DEF Ids, Retains, Like
<1>5. \A s \in Runs : On(s)' => run'[s].plan # None /\ run'[s].plan.attempt # 0 /\ s <= starts'
    BY <1>0, <1>1 DEF Ids, StoreStep
<1>6. \A s, q \in Runs : Act(s)' /\ Act(q)' /\ run'[s].plan.id = run'[q].plan.id => s = q BY <1>0, <1>1 DEF Ids
<1> QED BY <1>2, <1>3, <1>4, <1>5, <1>6 DEF Ids, IdsOfPlans, StoreStep

LEMMA StillRetains ==
    ASSUME IInv
    PROVE  /\ StillStore => \A P \in Held' : \E P0 \in Held : Retains(P0, P)
           /\ Puts(None) => \A P \in Held' : \E P0 \in Held : Retains(P0, P)
<1>1. StillStore => \A P \in Held' : \E P0 \in Held : Retains(P0, P) BY HeldAfter DEF Retains, Like
<1>2. Puts(None) => Held' \subseteq Held
    <2>1. None \notin Held' BY DEF Held
    <2> QED BY <2>1, HeldAfter
<1> QED BY <1>1, <1>2 DEF Retains, Like

LEMMA CancelRetains ==
    ASSUME IInv, NEW c \in Calls, Cancel(c)
    PROVE  \A P \in Held' : \E P0 \in Held : Retains(P0, P)
<1> DEFINE Q == Cancelling(store)
<1>1. store \in Held /\ Puts(Q) BY CancelDoes
<1>2. store \in StoredPlans BY <1>1, StoreIs, PlannedIs DEF Planned
<1>3. Retains(store, Q) BY <1>2, CancellingIs DEF Retains
<1> HIDE DEF Q
<1>4. Held' \subseteq Held \union {Q} BY <1>1, HeldAfter
<1> QED BY <1>1, <1>3, <1>4 DEF Retains, Like

\* The requests that put no new plan into the store.
Requests(c) ==
    Cancel(c) \/ Clear(c) \/ Sweep(c) \/ ClearStore(c) \/ TakeHash(c) \/ \E package \in Packages : Upload(c, package)

LEMMA RequestsStore ==
    ASSUME IInv, NEW c \in Calls, Requests(c)
    PROVE  StoreStep /\ StillRuns /\ StillTree
<1>0. plans \in Nat BY DEF IInv, Types
<1>1. CASE Cancel(c)
    <2>1. /\ Puts(Cancelling(store)) /\ StillTree /\ StillRuns /\ plans' = plans BY <1>1, CancelDoes
    <2> QED BY <1>0, <1>1, <2>1, CancelRetains, HeldAfter DEF StoreStep, StillRuns
<1>2. CASE Clear(c) \/ Sweep(c) \/ TakeHash(c)
    <2>1. StillStore /\ StillTree /\ StillRuns /\ plans' = plans BY <1>2, ClearDoes, SweepDoes, TakeHashDoes
    <2> QED BY <1>0, <2>1, StillRetains, HeldAfter DEF StoreStep, StillRuns
<1>3. CASE ClearStore(c)
    <2>1. (StillStore \/ Puts(None)) /\ StillTree /\ StillRuns /\ plans' = plans BY <1>3, ClearStoreDoes
    <2> QED BY <1>0, <2>1, StillRetains, HeldAfter DEF StoreStep, StillRuns
<1>4. ASSUME NEW package \in Packages, Upload(c, package) PROVE StoreStep /\ StillRuns /\ StillTree
    <2>1. StillStore /\ StillTree /\ StillRuns /\ plans' = plans + 1 BY <1>4, UploadDoes
    <2> QED BY <1>0, <2>1, StillRetains, HeldAfter DEF StoreStep, StillRuns
<1> QED BY <1>1, <1>2, <1>3, <1>4 DEF Requests

Everyone == \E p \in Paths : Edit(p) \/ Delete(p)

LEMMA EveryoneDoes ==
    ASSUME IInv, Everyone
    PROVE  StoreStep /\ StillStore /\ Elsewhere /\ Disturbs(0)
<1>0. plans \in Nat BY DEF IInv, Types
<1>1. StillStore /\ Elsewhere /\ Disturbs(0) BY EditDoes, DeleteDoes DEF Everyone
<1> QED BY <1>0, <1>1, StillRetains, HeldAfter DEF StoreStep, Elsewhere

LEMMA SetPlanIds ==
    ASSUME IInv, NEW c \in Calls, SetPlan(c)
    PROVE  Ids' /\ \A P \in InPlay' : P \in InPlay \/ (P.id = call[c].id /\ P.attempt = 0)
<1> DEFINE Q == NewPlan(call[c].id, call[c].package, call[c].hash, ActionsFor(call[c].package))
<1>0. Ids /\ CallIds /\ starts \in Nat /\ plans \in Nat BY DEF IInv, Types
<1>1. /\ call[c].id \in 1 .. plans /\ (StillStore \/ Puts(Q)) /\ StillRuns /\ plans' = plans
    BY SetPlanDoes
<1>2. CASE StillStore
    <2>1. StoreStep BY <1>0, <1>1, <1>2, StillRetains, HeldAfter DEF StoreStep, StillRuns
    <2>2. InPlay' = InPlay BY <1>1, <1>2, HeldAfter DEF InPlay, On, StillRuns
    <2> QED BY <2>1, <2>2, StoreIds
<1>3. CASE Puts(Q)
    <2>1. Q.id = call[c].id /\ Q.status = "planned" /\ Q.attempt = 0
        <3>0. call[c].id \in Nat BY <1>0, <1>1
        <3>1. call[c].package \in Packages /\ call[c].hash \in Hashes BY SetPlanDoes
        <3> QED BY <3>0, <3>1, ActionsAre, NewPlanIs
    <2> HIDE DEF Q
    <2>2. Held' \subseteq Held \union {Q} BY <1>3, HeldAfter
    <2>3. \A s \in Runs : (On(s)' <=> On(s)) /\ (Act(s)' <=> Act(s)) /\ run'[s] = run[s]
        BY <1>1 DEF StillRuns, On, Act
    <2>4. InPlay' \subseteq InPlay \union {Q} BY <2>2, <2>3 DEF InPlay
    <2>5. \A P \in InPlay : P.id # Q.id BY <1>0, <2>1 DEF CallIds
    <2>6. starts' = starts BY <1>1 DEF StillRuns
    <2>7. IdsOfPlans'
        <3>1. IdsOfPlans BY <1>0 DEF Ids, IdsOfPlans
        <3>2. \A P \in InPlay' : P.id \in 1 .. plans' /\ P.attempt \in 0 .. starts'
            BY <1>0, <1>1, <2>1, <2>4, <2>6, <3>1 DEF IdsOfPlans
        <3>3. \A P, S \in InPlay' : (P.id = S.id => SamePlan(P, S)) /\ (P.attempt = S.attempt /\ P.attempt # 0 => P.id = S.id)
            BY <2>1, <2>4, <2>5, <3>1 DEF IdsOfPlans, SamePlan
        <3> QED BY <3>2, <3>3 DEF IdsOfPlans
    <2>8. ~broken' => disk' = store' BY <1>3, HeldAfter
    <2>9. ASSUME NEW P \in Held'
          PROVE  /\ P.status \in {"running", "completed"} => P.attempt # 0
                 /\ \A s \in Runs : On(s)' /\ P.id = run'[s].plan.id => P.attempt # 0
                 /\ \A s \in Runs : Act(s)' /\ P.id = run'[s].plan.id =>
                      P.status = "running" /\ P.attempt = run'[s].plan.attempt /\ P.processed <= run'[s].index
        <3>1. CASE P = Q
            <4>1. \A s \in Runs : On(s)' => run'[s].plan \in InPlay BY <2>3 DEF InPlay
            <4>2. \A s \in Runs : Act(s)' => On(s)' BY DEF Act, On
            <4> QED BY <2>1, <2>5, <3>1, <4>1, <4>2
        <3>2. CASE P \in Held BY <1>0, <2>3, <3>2 DEF Ids
        <3> QED BY <2>2, <3>1, <3>2
    <2>10. \A s \in Runs : On(s)' => run'[s].plan # None /\ run'[s].plan.attempt # 0 /\ s <= starts'
        BY <1>0, <2>3, <2>6 DEF Ids
    <2>11. \A s, q \in Runs : Act(s)' /\ Act(q)' /\ run'[s].plan.id = run'[q].plan.id => s = q BY <1>0, <2>3 DEF Ids
    <2> QED BY <2>1, <2>4, <2>7, <2>8, <2>9, <2>10, <2>11 DEF Ids, IdsOfPlans
<1> QED BY <1>1, <1>2, <1>3

LEMMA NextIs ==
    ASSUME Next
    PROVE  \/ Start \/ Restart \/ Everyone
           \/ \E r \in Runs : Execute(r)
           \/ \E c \in Calls : Requests(c) \/ SetPlan(c)
BY DEF Next, Everyone, Requests, Handle

LEMMA NextIds ==
    ASSUME IInv, Next
    PROVE  Ids'
<1>1. Start => Ids' BY StartIds
<1>2. Restart => Ids' BY RestartIds
<1>3. Everyone => Ids' BY EveryoneDoes, StoreIds
<1>4. \A r \in Runs : Execute(r) => Ids' BY ExecIs, ExecIds
<1>5. \A c \in Calls : Requests(c) => Ids' BY RequestsStore, StoreIds
<1>6. \A c \in Calls : SetPlan(c) => Ids' BY SetPlanIds
<1> QED BY <1>1, <1>2, <1>3, <1>4, <1>5, <1>6, NextIs

-----------------------------------------------------------------------------
(* CallIds *)

LEMMA CallIdsKept ==
    ASSUME IInv, NEW c \in Calls, NEW x \in CallT, CallMoves(c, x), plans' \in {plans, plans + 1},
           x.id \in {0, call[c].id} \/ (x.id = plans + 1 /\ plans' = plans + 1),
           x.id # 0 => x.package \in Packages,
           x.at \in {"hash", "set"} => x.id # 0,
           x.at = "set" => x.hash # None,
           \A P \in InPlay' : P.id # x.id /\ \A d \in Calls : d # c => call[d].id # P.id
    PROVE  CallIds'
<1>0. CallIds /\ plans \in Nat BY DEF IInv, Types
<1>1. call'[c] = x /\ \A d \in Calls : d # c => call'[d] = call[d] BY DEF CallMoves
<1>2. \A d \in Calls : call'[d].id \in 0 .. plans'
    <2>1. \A d \in Calls : call[d].id \in 0 .. plans BY <1>0 DEF CallIds
    <2>2. x.id \in 0 .. plans' BY <1>0, <2>1
    <2> QED BY <1>0, <1>1, <2>1, <2>2
<1>3. \A d \in Calls, P \in InPlay' : call'[d].id # P.id BY <1>1
<1>4. ASSUME NEW d \in Calls, NEW e \in Calls, call'[d].id = call'[e].id, call'[d].id # 0 PROVE d = e
    <2>1. \A b \in Calls : call[b].id \in 0 .. plans BY <1>0 DEF CallIds
    <2>2. \A b \in Calls : b # c /\ call[b].id = x.id => x.id = 0
        <3>1. \A b \in Calls : b # c /\ call[b].id = call[c].id => call[b].id = 0 BY <1>0 DEF CallIds
        <3> QED BY <1>0, <2>1, <3>1
    <2>3. CASE d # c /\ e # c BY <1>0, <1>1, <1>4, <2>3 DEF CallIds
    <2>4. CASE d = c /\ e # c BY <1>1, <1>4, <2>2, <2>4
    <2>5. CASE d # c /\ e = c BY <1>1, <1>4, <2>2, <2>5
    <2> QED BY <2>3, <2>4, <2>5
<1>5. \A d \in Calls : call'[d].id # 0 => call'[d].package \in Packages BY <1>0, <1>1 DEF CallIds
<1>6. \A d \in Calls : call'[d].at \in {"hash", "set"} => call'[d].id # 0 BY <1>0, <1>1 DEF CallIds
<1>7. \A d \in Calls : call'[d].at = "set" => call'[d].hash # None BY <1>0, <1>1 DEF CallIds
<1> QED BY <1>2, <1>3, <1>4, <1>5, <1>6, <1>7 DEF CallIds

LEMMA CallIdsStill ==
    ASSUME IInv, call' = call, plans' = plans, \A P \in InPlay' : \E P0 \in InPlay : P.id = P0.id
    PROVE  CallIds'
BY DEF IInv, CallIds

LEMMA IdleCall ==
    ASSUME IInv, NEW c \in Calls, CallMoves(c, Idle), plans' = plans,
           \A P \in InPlay' : P.id # 0 /\ \A d \in Calls : d # c => call[d].id # P.id
    PROVE  CallIds'
BY IdleIs, CallIdsKept

LEMMA RequestCallIds ==
    ASSUME IInv, NEW c \in Calls, Requests(c)
    PROVE  CallIds'
<1>0. CallIds /\ plans \in Nat BY DEF IInv, Types
<1>1. Descend BY RequestsStore, StoreIds
<1>2. \A P \in InPlay' : P.id \in 1 .. plans /\ \A d \in Calls : call[d].id # P.id
    BY <1>0, <1>1 DEF Descend, Like, CallIds, IInv, Ids
<1>3. ASSUME NEW x \in CallT, CallMoves(c, x), x.id = call[c].id, x.package = call[c].package, plans' = plans,
             x.at \in {"hash", "set"} => call[c].id # 0, x.at = "set" => x.hash # None
      PROVE  CallIds'
    <2>1. x.id # 0 => x.package \in Packages BY <1>0, <1>3 DEF CallIds
    <2> QED BY <1>2, <1>3, <2>1, CallIdsKept
<1>4. CASE Cancel(c)
    <2>1. call' = call /\ plans' = plans BY <1>4, CancelDoes
    <2> QED BY <1>1, <2>1, CallIdsStill DEF Descend, Like
<1>5. CASE Clear(c)
    <2>1. PICK x \in CallT : CallMoves(c, x) /\ x.at = "sweep" /\ x.id = 0 BY <1>5, ClearDoes
    <2>2. plans' = plans BY <1>5, ClearDoes
    <2>3. \A P \in InPlay' : P.id # x.id BY <1>0, <1>2, <2>1
    <2> QED BY <1>2, <2>1, <2>2, <2>3, CallIdsKept
<1>6. CASE Sweep(c)
    <2>1. plans' = plans BY <1>6, SweepDoes
    <2>2. CASE CallMoves(c, Idle)
        <3>1. \A P \in InPlay' : P.id # 0 BY <1>0, <1>2
        <3> QED BY <1>2, <2>1, <2>2, <3>1, IdleCall
    <2>3. ASSUME NEW x \in CallT, CallMoves(c, x), x.at = "clear", x.id = call[c].id, x.package = call[c].package
          PROVE  CallIds'
        BY <1>3, <2>1, <2>3
    <2> QED BY <1>6, <2>2, <2>3, SweepDoes
<1>7. CASE ClearStore(c)
    <2>1. plans' = plans BY <1>7, ClearStoreDoes
    <2>2. CASE CallMoves(c, Idle)
        <3>1. \A P \in InPlay' : P.id # 0 BY <1>0, <1>2
        <3> QED BY <1>2, <2>1, <2>2, <3>1, IdleCall
    <2>3. ASSUME NEW x \in CallT, call[c].id # 0, CallMoves(c, x), x.at = "hash", x.id = call[c].id, x.package = call[c].package
          PROVE  CallIds'
        BY <1>3, <2>1, <2>3
    <2> QED BY <1>7, <2>2, <2>3, ClearStoreDoes
<1>8. CASE TakeHash(c)
    <2>1. PICK x \in CallT :
             CallMoves(c, x) /\ x.at = "set" /\ x.id = call[c].id /\ x.package = call[c].package /\ x.hash = Hash
        BY <1>8, TakeHashDoes
    <2>2. plans' = plans /\ call[c].at = "hash" BY <1>8, TakeHashDoes
    <2>3. call[c].id # 0 BY <1>0, <2>2 DEF CallIds
    <2>4. x.hash # None BY <2>1, HashIs
    <2> QED BY <1>3, <2>1, <2>2, <2>3, <2>4
<1>9. ASSUME NEW package \in Packages, Upload(c, package) PROVE CallIds'
    <2>1. plans' = plans + 1 BY <1>9, UploadDoes
    <2>2. CASE call' = call
        <3>1. \A d \in Calls : call[d].id \in 0 .. plans' BY <1>0, <2>1 DEF CallIds
        <3> QED BY <1>0, <1>2, <2>2, <3>1 DEF CallIds
    <2>3. ASSUME NEW x \in CallT, CallMoves(c, x), x.id = plans + 1, x.package = package, x.at \in {"hash", "sweep"}
          PROVE  CallIds'
        <3>1. x.id # 0 /\ \A P \in InPlay' : P.id # x.id BY <1>0, <1>2, <2>3
        <3> QED BY <1>2, <2>1, <2>3, <3>1, CallIdsKept
    <2> QED BY <1>9, <2>2, <2>3, UploadDoes
<1> QED BY <1>4, <1>5, <1>6, <1>7, <1>8, <1>9 DEF Requests

LEMMA NextCallIds ==
    ASSUME IInv, Next
    PROVE  CallIds'
<1>0. CallIds /\ plans \in Nat BY DEF IInv, Types
<1>1. Start => CallIds' BY StartIds, StartDoes, CallIdsStill
<1>2. ASSUME Restart PROVE CallIds'
    <2>1. \A c \in Calls : call'[c] = Idle BY <1>2, RestartDoes
    <2>2. plans' = plans BY <1>2, RestartDoes
    <2>3. \A P \in InPlay' : P.id \in 1 .. plans BY <1>2, RestartIds DEF Descend, Like, IInv, Ids
    <2> QED BY <1>0, <2>1, <2>2, <2>3, IdleIs DEF CallIds
<1>3. ASSUME Everyone PROVE CallIds'
    <2>1. Descend /\ call' = call /\ plans' = plans BY <1>3, EveryoneDoes, StoreIds DEF Elsewhere
    <2> QED BY <2>1, CallIdsStill DEF Descend, Like
<1>4. ASSUME NEW r \in Runs, Execute(r) PROVE CallIds'
    <2>1. Descend /\ call' = call /\ plans' = plans BY <1>4, ExecIs, ExecDescend DEF ExecStep
    <2> QED BY <2>1, CallIdsStill DEF Descend, Like
<1>5. ASSUME NEW c \in Calls, SetPlan(c) PROVE CallIds'
    <2>1. \A P \in InPlay' : P \in InPlay \/ P.id = call[c].id BY <1>5, SetPlanIds
    <2>2. plans' = plans /\ CallMoves(c, Idle) /\ call[c].id \in 1 .. plans BY <1>5, SetPlanDoes
    <2>3. \A P \in InPlay' : P.id \in 1 .. plans BY <2>1, <2>2 DEF IInv, Ids
    <2>4. ASSUME NEW P \in InPlay', NEW d \in Calls, d # c PROVE call[d].id # P.id
        <3>1. CASE P \in InPlay BY <1>0, <3>1 DEF CallIds
        <3>2. CASE P.id = call[c].id
            <4>1. call[c].id # 0 BY <1>0, <2>2
            <4> QED BY <1>0, <2>4, <3>2, <4>1 DEF CallIds
        <3> QED BY <2>1, <3>1, <3>2
    <2>5. \A P \in InPlay' : P.id # 0 BY <1>0, <2>3
    <2> QED BY <2>2, <2>4, <2>5, IdleCall
<1> QED BY <1>1, <1>2, <1>3, <1>4, <1>5, RequestCallIds, NextIs

-----------------------------------------------------------------------------
(* Types *)

LEMMA StoreTypes ==
    ASSUME IInv, StillStore \/ \E Q \in StoredPlans \union {None} : Puts(Q)
    PROVE  /\ store' \in StoredPlans \union {None} /\ disk' \in StoredPlans \union {None}
           /\ broken' \in BOOLEAN
<1>1. store \in StoredPlans \union {None} /\ disk \in StoredPlans \union {None} /\ broken \in BOOLEAN
    BY DEF IInv, Types
<1>2. CASE StillStore BY <1>1, <1>2 DEF StillStore
<1>3. ASSUME NEW Q \in StoredPlans \union {None}, Puts(Q)
      PROVE  store' \in StoredPlans \union {None} /\ disk' \in StoredPlans \union {None} /\ broken' \in BOOLEAN
    <2>1. store' = Q /\ disk' \in {Q, disk} BY <1>3 DEF Puts
    <2>2. broken' \in BOOLEAN BY <1>3, Zenon DEF Puts
    <2> QED BY <1>1, <2>1, <2>2
<1> QED BY <1>2, <1>3

LEMMA ExecTypes ==
    ASSUME IInv, NEW r \in Runs, Execute(r)
    PROVE  Types'
<1>0. Types /\ ExecStep(r) BY ExecIs DEF IInv
<1>1. /\ store' \in StoredPlans \union {None} /\ disk' \in StoredPlans \union {None} /\ broken' \in BOOLEAN
    BY <1>0, StoreTypes DEF ExecStep, Stores
<1>2. run' \in [Runs -> RunT] /\ call' = call /\ starts' = starts /\ plans' = plans BY <1>0 DEF ExecStep
<1>3. pages' \in [Paths -> LivePages \union {None}] /\ clock' \in Nat /\ touched' \in SUBSET ((1 .. starts) \X Paths)
    <2>1. CASE StillTree BY <1>0, <2>1 DEF StillTree, Types
    <2>2. CASE Disturbs(run[r].plan.attempt) BY <2>2 DEF Disturbs
    <2>3. Check(r) \/ NextItem(r) \/ Skip(r) \/ Report(r) \/ Finish(r) \/ Clean(r) => StillTree
        BY CheckDoes, NextItemDoes, SkipDoes, ReportDoes, FinishDoes, CleanDoes DEF Quiet
    <2>4. Ensure(r) \/ Write(r) => StillTree \/ Disturbs(run[r].plan.attempt) BY EnsureDoes, WriteDoes
    <2> QED BY <2>1, <2>2, <2>3, <2>4 DEF Execute
<1>4. wrote' \in SUBSET ((1 .. starts) \X Nat) /\ late' \in Nat
    <2>1. CASE wrote' = wrote /\ late' = late BY <1>0, <2>1 DEF Types
    <2>2. CASE wrote' = wrote \union {<<run[r].plan.attempt, run[r].index + 1>>} /\ late' \in {late, late + 1}
        <3>1. run[r].plan.attempt \in 1 .. starts /\ run[r].index \in Nat BY <1>0, RunIs DEF ExecStep
        <3>2. <<run[r].plan.attempt, run[r].index + 1>> \in (1 .. starts) \X Nat BY <3>1
        <3> QED BY <1>0, <2>2, <3>2 DEF Types
    <2>3. Check(r) \/ NextItem(r) \/ Ensure(r) \/ Skip(r) \/ Report(r) \/ Finish(r) \/ Clean(r)
            => wrote' = wrote /\ late' = late
        BY CheckDoes, NextItemDoes, EnsureDoes, SkipDoes, ReportDoes, FinishDoes, CleanDoes DEF Quiet
    <2>4. Write(r) => \/ wrote' = wrote /\ late' = late
                      \/ wrote' = wrote \union {<<run[r].plan.attempt, run[r].index + 1>>} /\ late' \in {late, late + 1}
        BY WriteDoes
    <2> QED BY <2>1, <2>2, <2>3, <2>4 DEF Execute
<1>5. files' \in SUBSET Plans
    <2>1. files' = files \/ files' = files \ {run[r].plan.id}
        BY CheckDoes, NextItemDoes, EnsureDoes, WriteDoes, SkipDoes, ReportDoes, FinishDoes, CleanDoes DEF Quiet, Execute
    <2> QED BY <1>0, <2>1 DEF Types
<1> QED BY <1>0, <1>1, <1>2, <1>3, <1>4, <1>5 DEF Types

LEMMA RequestTypes ==
    ASSUME IInv, NEW c \in Calls, Requests(c) \/ SetPlan(c)
    PROVE  Types'
<1>0. Types BY DEF IInv
<1>1. StillTree /\ StillRuns BY RequestsStore, SetPlanDoes
<1>2. StillStore \/ \E Q \in StoredPlans \union {None} : Puts(Q)
    <2>1. CASE Cancel(c)
        <3>1. store \in Held /\ Puts(Cancelling(store)) BY <2>1, CancelDoes
        <3>2. Cancelling(store) \in StoredPlans BY <3>1, StoreIs, PlannedIs, CancellingIs DEF Planned
        <3> QED BY <3>1, <3>2
    <2>2. CASE Clear(c) \/ Sweep(c) \/ TakeHash(c) \/ \E package \in Packages : Upload(c, package)
        BY <2>2, ClearDoes, SweepDoes, TakeHashDoes, UploadDoes
    <2>3. CASE ClearStore(c) BY <2>3, ClearStoreDoes
    <2>4. CASE SetPlan(c)
        <3> DEFINE Q == NewPlan(call[c].id, call[c].package, call[c].hash, ActionsFor(call[c].package))
        <3>1. StillStore \/ Puts(Q) BY <2>4, SetPlanDoes
        <3>2. plans \in Nat BY <1>0 DEF Types
        <3>3. call[c].id \in 1 .. plans /\ call[c].package \in Packages /\ call[c].hash \in Hashes BY <2>4, SetPlanDoes
        <3>5. call[c].id \in Nat BY <3>2, <3>3
        <3>4. Q \in StoredPlans BY <3>3, <3>5, ActionsAre, NewPlanIs
        <3> QED BY <3>1, <3>4
    <2> QED BY <2>1, <2>2, <2>3, <2>4 DEF Requests
<1>3. /\ store' \in StoredPlans \union {None} /\ disk' \in StoredPlans \union {None} /\ broken' \in BOOLEAN
    BY <1>2, StoreTypes
<1>4. call' \in [Calls -> CallT]
    <2>1. Cancel(c) => call' = call BY CancelDoes
    <2>2. Clear(c) \/ Sweep(c) \/ ClearStore(c) \/ TakeHash(c) \/ SetPlan(c) => call' \in [Calls -> CallT]
        BY ClearDoes, SweepDoes, ClearStoreDoes, TakeHashDoes, SetPlanDoes DEF CallMoves
    <2>3. \A package \in Packages : Upload(c, package) => call' = call \/ call' \in [Calls -> CallT]
        BY UploadDoes DEF CallMoves
    <2> QED BY <1>0, <2>1, <2>2, <2>3 DEF Types, Requests
<1>5. files' \in SUBSET Plans /\ plans' \in 0 .. MaxPlans
    <2>1. CASE ~(\E package \in Packages : Upload(c, package))
        <3>1. files' \subseteq files /\ plans' = plans
            BY <2>1, CancelDoes, ClearDoes, SweepDoes, ClearStoreDoes, TakeHashDoes, SetPlanDoes DEF Requests
        <3> QED BY <1>0, <3>1 DEF Types
    <2>2. ASSUME NEW package \in Packages, Upload(c, package) PROVE files' \in SUBSET Plans /\ plans' \in 0 .. MaxPlans
        <3>1. plans' = plans + 1 /\ plans + 1 \in Plans /\ files' \subseteq files \union {plans + 1} BY <2>2, UploadDoes
        <3> QED BY <1>0, <3>1 DEF Types, Plans
    <2> QED BY <2>1, <2>2
<1>6. late' \in Nat
    <2>1. Cancel(c) => late' = 0 BY CancelDoes
    <2>2. Clear(c) \/ Sweep(c) \/ ClearStore(c) \/ TakeHash(c) \/ SetPlan(c) => late' = late
        BY ClearDoes, SweepDoes, ClearStoreDoes, TakeHashDoes, SetPlanDoes
    <2>3. \A package \in Packages : Upload(c, package) => late' = late BY UploadDoes
    <2> QED BY <1>0, <2>1, <2>2, <2>3 DEF Requests, Types
<1> QED BY <1>0, <1>1, <1>3, <1>4, <1>5, <1>6 DEF Types, StillTree, StillRuns

LEMMA NextTypes ==
    ASSUME IInv, Next
    PROVE  Types'
<1>0. Types BY DEF IInv
<1>1. ASSUME Start PROVE Types'
    <2>1. store \in Held /\ starts + 1 \in Runs /\ starts' = starts + 1 /\ Puts(Started(store, starts + 1)) BY <1>1, StartDoes
    <2>2. store \in StoredPlans /\ starts \in Nat BY <1>0, <2>1, StoreIs, PlannedIs DEF Planned, Types
    <2>3. Started(store, starts + 1) \in StoredPlans BY <2>2, StartedIs
    <2>4. /\ store' \in StoredPlans \union {None} /\ disk' \in StoredPlans \union {None} /\ broken' \in BOOLEAN
        BY <2>1, <2>3, StoreTypes
    <2>5. run' \in [Runs -> RunT] BY <1>0, <1>1, StartDoes DEF Types
    <2>6. StillTree /\ UNCHANGED <<files, call, plans, wrote, late>> BY <1>1, StartDoes
    <2>7. /\ wrote \in SUBSET ((1 .. starts') \X Nat) /\ touched \in SUBSET ((1 .. starts') \X Paths)
          /\ starts' \in 0 .. MaxRuns
        BY <1>0, <2>1, <2>2 DEF Types, Runs
    <2> QED BY <1>0, <2>4, <2>5, <2>6, <2>7 DEF Types, StillTree
<1>2. ASSUME Restart PROVE Types'
    <2>1. /\ store' = disk /\ disk' = disk /\ broken' = FALSE /\ run' \in [Runs -> RunT] /\ call' \in [Calls -> CallT]
          /\ UNCHANGED <<pages, files, clock, plans, late>>
        BY <1>2, RestartDoes
    <2>2. starts' = starts \/ (starts' = starts + 1 /\ starts + 1 \in Runs) BY <1>2, RestartDoes
    <2>3. touched' \subseteq touched /\ wrote' \subseteq wrote BY <1>2, RestartDoes
    <2>4. starts \in Nat BY <1>0 DEF Types
    <2>5. /\ wrote' \in SUBSET ((1 .. starts') \X Nat) /\ touched' \in SUBSET ((1 .. starts') \X Paths)
          /\ starts' \in 0 .. MaxRuns
        BY <1>0, <2>2, <2>3, <2>4 DEF Types, Runs
    <2> QED BY <1>0, <2>1, <2>5 DEF Types
<1>3. ASSUME Everyone PROVE Types'
    <2>1. StillStore /\ Elsewhere /\ Disturbs(0) BY <1>3, EveryoneDoes
    <2> QED BY <1>0, <2>1, StoreTypes DEF Types, Elsewhere, Disturbs
<1> QED BY <1>1, <1>2, <1>3, ExecTypes, RequestTypes, NextIs

-----------------------------------------------------------------------------
(* Sizes *)

\* The plan in the store, if it is the one that r executes.
LEMMA OursIs ==
    ASSUME IInv, NEW r \in Runs, Act(r), NEW P \in Held, P.id = run[r].plan.id
    PROVE  /\ P.status = "running" /\ P.attempt = run[r].plan.attempt /\ P.processed <= run[r].index
           /\ P.package = run[r].plan.package /\ P.hash = run[r].plan.hash
<1>1. On(r) /\ run[r].plan \in InPlay /\ P \in InPlay BY DEF Act, On, InPlay
<1>2. SamePlan(P, run[r].plan) BY <1>1 DEF IInv, Ids
<1> QED BY <1>2 DEF SamePlan, IInv, Ids

LEMMA AppendIs ==
    ASSUME NEW items \in Seq(Outcomes), NEW o \in Outcomes
    PROVE  /\ Append(items, o) \in Seq(Outcomes) /\ Len(Append(items, o)) = Len(items) + 1 /\ Len(items) \in Nat
           /\ DOMAIN items = 1 .. Len(items) /\ DOMAIN Append(items, o) = 1 .. (Len(items) + 1)
           /\ \A i \in DOMAIN items : Append(items, o)[i] = items[i]
           /\ Append(items, o)[Len(items) + 1] = o
OBVIOUS

LEMMA ExecStage ==
    ASSUME IInv, NEW r \in Runs, Execute(r), Act(r)'
    PROVE  Stage(r)'
<1> DEFINE n == Len(run[r].plan.package)
<1>0. Act(r) /\ On(r) /\ run'[r].plan = run[r].plan BY ExecIs, ExecDescend DEF Act, On
<1>1. Stage(r) /\ run[r].index \in Nat /\ n \in Nat BY <1>0, ActIs, RunIs DEF Planned
<1>2. run[r].items \in Seq(Outcomes) /\ Len(run[r].items) \in Nat BY <1>0, RunIs
<1>3. ASSUME Fails(r), run[r].at \in {"create", "write"} PROVE Stage(r)'
    <2>1. Len(run'[r].items) = Len(run[r].items) + 1 BY <1>2, <1>3, AppendIs DEF Fails, Outcomes
    <2>2. run'[r].at = "next" /\ run'[r].index = run[r].index + 1 /\ run'[r].error = run[r].error BY <1>3 DEF Fails
    <2> HIDE DEF n
    <2> QED BY <1>0, <1>1, <1>2, <1>3, <2>1, <2>2 DEF Stage, n
<1>4. CASE Check(r)
    <2>1. /\ run[r].at = "check" /\ Same(r)
          /\ \/ run'[r].at = "next" /\ run'[r].error = run[r].error
             \/ run'[r].at = "finish" /\ run'[r].error = "failed"
        BY <1>4, CheckDoes
    <2> QED BY <1>0, <1>1, <2>1 DEF Stage, Same
<1>5. CASE NextItem(r)
    <2>1. /\ run[r].at = "next" /\ run'[r].index = run[r].index /\ run'[r].items = run[r].items
          /\ \/ run'[r].at = "finish" /\ run'[r].error = "canceled"
             \/ /\ run'[r].at \in {"create", "skip"} /\ run[r].index < n /\ run'[r].error = run[r].error
                /\ run'[r].at = run[r].plan.actions[run[r].index + 1]
             \/ run'[r].at = "finish" /\ run[r].index = n /\ run'[r].error = run[r].error
        BY <1>5, NextItemDoes
    <2> HIDE DEF n
    <2> QED BY <1>0, <1>1, <2>1 DEF Stage, n
<1>6. CASE Ensure(r)
    <2>1. run[r].at = "create" BY <1>6, EnsureDoes
    <2>2. CASE Fails(r) BY <1>3, <2>1, <2>2
    <2>3. CASE run'[r].at = "write" /\ Same(r) /\ run'[r].error = run[r].error /\ Target(Item(r)) \in Paths
        <3>1. Target(run[r].plan.package[run[r].index + 1]) # <<>> BY <2>3, ImporterAssumption DEF Item
        <3> QED BY <1>0, <1>1, <2>1, <2>3, <3>1 DEF Stage, Same
    <2> QED BY <1>6, <2>2, <2>3, EnsureDoes
<1>7. CASE Write(r)
    <2>1. run[r].at = "write" BY <1>7, WriteDoes
    <2>2. CASE Fails(r) BY <1>3, <2>1, <2>2
    <2>3. CASE /\ run'[r].at = "report" /\ run'[r].index = run[r].index /\ run'[r].error = run[r].error
               /\ run'[r].items = Append(run[r].items, "created")
        <3>1. Len(run'[r].items) = Len(run[r].items) + 1 BY <1>2, <2>3, AppendIs DEF Outcomes
        <3> QED BY <1>0, <1>1, <2>1, <2>3, <3>1 DEF Stage
    <2> QED BY <1>7, <2>2, <2>3, WriteDoes
<1>8. CASE Skip(r)
    <2>1. /\ run[r].at = "skip" /\ run'[r].at = "report" /\ run'[r].index = run[r].index
          /\ run'[r].error = run[r].error /\ run'[r].items = Append(run[r].items, "skipped")
        BY <1>8, SkipDoes
    <2>2. Len(run'[r].items) = Len(run[r].items) + 1 BY <1>2, <2>1, AppendIs DEF Outcomes
    <2> QED BY <1>0, <1>1, <2>1, <2>2 DEF Stage
<1>9. CASE Report(r)
    <2>1. /\ run[r].at = "report" /\ run'[r].at = "next" /\ run'[r].index = run[r].index + 1
          /\ run'[r].error = run[r].error /\ run'[r].items = run[r].items
        BY <1>9, ReportDoes
    <2> QED BY <1>0, <1>1, <2>1 DEF Stage
<1>10. CASE Finish(r) \/ Clean(r)
    <2>1. run'[r].at \in {"off", "clean"} BY <1>10, FinishDoes, CleanDoes, OffIs
    <2> QED BY <2>1 DEF Act
<1> QED BY <1>4, <1>5, <1>6, <1>7, <1>8, <1>9, <1>10 DEF Execute

\* Who has a plan after a step of r: as before, or as r reported it.
LEMMA ExecSizes ==
    ASSUME IInv, NEW r \in Runs, Execute(r)
    PROVE  Sizes'
<1>0. Sizes /\ ExecStep(r) BY ExecIs DEF IInv
<1>1. ASSUME NEW P \in Held', Stores(r, P)
      PROVE  /\ PlanSize(P)
             /\ P.status = "running" => Len(P.items) = P.processed
             /\ P.status = "completed" => Len(P.items) = Len(P.package)
    <2> DEFINE n == Len(run[r].plan.package)
    <2>1. Act(r) /\ On(r) /\ store \in Held /\ Like(store, P) /\ Ours(r) BY <1>1 DEF Stores, Act, On
    <2>2. store.status = "running" /\ store.package = run[r].plan.package BY <2>1, OursIs DEF Ours
    <2>3. PlanSize(store) /\ Planned(store) /\ store.processed \in Nat BY <2>1, StoreIs, PlannedIs DEF Planned
    <2>4. Len(P.package) = n /\ Len(P.actions) = n BY <2>1, <2>2, <2>3 DEF Like, PlanSize
    <2>5. n \in Nat /\ run[r].index \in Nat /\ run'[r].index \in Nat /\ Stage(r)
        <3>1. run'[r] \in RunT BY <1>0 DEF ExecStep
        <3>2. run'[r].index \in Nat BY <3>1 DEF RunT
        <3> QED BY <2>1, <3>2, RunIs, ActIs DEF Planned
    <2>6. CASE Act(r)' /\ run'[r].at # "report" /\ P.status = store.status /\ P.processed = run'[r].index /\ P.items = run'[r].items
        <3>1. Stage(r)' /\ run'[r].plan = run[r].plan BY <2>1, <2>6, ExecStage, ExecDescend, <1>0 DEF Act, On
        <3>2. Len(run'[r].items) = run'[r].index /\ run'[r].index <= n BY <2>5, <2>6, <3>1 DEF Stage
        <3> QED BY <2>2, <2>4, <2>6, <3>2 DEF PlanSize
    <2>7. CASE /\ run[r].at = "finish" /\ P.items = (IF run[r].error = "failed" THEN <<>> ELSE run[r].items)
               /\ P.status = (IF run[r].error = "none" THEN "completed" ELSE run[r].error)
               /\ P.processed = (IF run[r].error = "none" THEN n ELSE store.processed)
        <3>1. run[r].error \in {"none", "failed", "canceled"} BY <2>1, RunIs DEF RunT
        <3>2. Len(run[r].items) = run[r].index /\ run[r].index <= n /\ (run[r].error = "none" => run[r].index = n)
            BY <2>5, <2>7 DEF Stage
        <3>3. P.processed <= n /\ P.status # "running" /\ (P.status = "completed" => run[r].error = "none")
            BY <2>3, <2>4, <2>5, <2>7, <3>1, <2>2 DEF PlanSize
        <3>4. Len(P.items) <= n /\ (run[r].error = "none" => Len(P.items) = n)
            <4>1. CASE run[r].error = "failed"
                <5>1. P.items = <<>> BY <2>7, <4>1
                <5> QED BY <2>5, <4>1, <5>1
            <4>2. CASE run[r].error # "failed"
                <5>1. P.items = run[r].items BY <2>7, <4>2
                <5> QED BY <3>2, <5>1
            <4> QED BY <4>1, <4>2
        <3> QED BY <2>4, <3>3, <3>4 DEF PlanSize
    <2> QED BY <1>1, <2>6, <2>7 DEF Stores
<1>2. \A P \in Held' : PlanSize(P) BY <1>0, <1>1, ExecDescend, StoreIs DEF Sizes
<1>3. \A s \in Runs : On(s)' => PlanSize(run'[s].plan)
    <2>1. \A s \in Runs : On(s)' => On(s) /\ run'[s].plan = run[s].plan BY <1>0, ExecDescend
    <2> QED BY <1>0, <2>1 DEF Sizes, InPlay
<1>4. \A P \in InPlay' : PlanSize(P) BY <1>2, <1>3 DEF InPlay
<1>5. \A P \in Held' : P.status = "running" => Len(P.items) = P.processed BY <1>0, <1>1, ExecDescend DEF Sizes
<1>6. \A P \in Held' : P.status = "completed" => Len(P.items) = Len(P.package) BY <1>0, <1>1, ExecDescend DEF Sizes
<1>7. ASSUME NEW s \in Runs, Act(s)' PROVE Stage(s)'
    <2>1. CASE s = r BY <1>7, <2>1, ExecStage
    <2>2. CASE s # r
        <3>1. run'[s] = run[s] /\ Act(s) BY <1>0, <1>7, <2>2 DEF ExecStep, Act
        <3>2. Stage(s) BY <1>0, <3>1 DEF Sizes
        <3> QED BY <3>1, <3>2 DEF Stage
    <2> QED BY <2>1, <2>2
<1> QED BY <1>4, <1>5, <1>6, <1>7 DEF Sizes

LEMMA StoreSizes ==
    ASSUME IInv, StoreStep
    PROVE  Sizes'
<1>0. Sizes BY DEF IInv
<1>1. ASSUME NEW P \in Held'
      PROVE  /\ PlanSize(P) /\ (P.status = "running" => Len(P.items) = P.processed)
             /\ P.status = "completed" => Len(P.items) = Len(P.package)
    <2>1. PICK P0 \in Held : Retains(P0, P) BY DEF StoreStep
    <2>2. P0 \in InPlay BY DEF InPlay
    <2> QED BY <1>0, <2>1, <2>2 DEF Sizes, PlanSize, Retains, Like
<1>2. \A s \in Runs : (On(s)' <=> On(s)) /\ (Act(s)' <=> Act(s)) /\ (Stage(s)' <=> Stage(s)) /\ run'[s] = run[s]
    BY DEF StoreStep, On, Act, Stage
<1>3. \A P \in InPlay' : PlanSize(P) BY <1>0, <1>1, <1>2 DEF Sizes, InPlay
<1> QED BY <1>0, <1>1, <1>2, <1>3 DEF Sizes

\* An execution that begins is at the point where its plan is.
LEMMA BeginStage ==
    ASSUME NEW P \in StoredPlans, NEW s \in Runs, run'[s] = Execution(P), PlanSize(P), Len(P.items) = P.processed
    PROVE  Stage(s)'
<1>1. P.processed \in Nat /\ Len(P.items) = P.processed BY DEF StoredPlans
<1> QED BY <1>1, ExecutionIs DEF Stage, PlanSize

LEMMA NextSizes ==
    ASSUME IInv, Next
    PROVE  Sizes'
<1>0. Sizes /\ starts \in Nat /\ plans \in Nat BY DEF IInv, Types
<1>1. ASSUME Start PROVE Sizes'
    <2> DEFINE n == starts + 1
               Q == Started(store, n)
    <2>1. /\ store \in InPlay /\ Q.package = store.package /\ Q.actions = store.actions /\ Q.status = "running"
          /\ Q.processed = 0 /\ Q.items = <<>> /\ Q \in StoredPlans
          /\ Held' \subseteq Held \union {Q} /\ InPlay' \subseteq InPlay \union {Q}
        BY <1>1, StartPlays
    <2>2. \A s \in Runs : On(s)' => run'[s] = Execution(Q) \/ (On(s) /\ run'[s] = run[s]) BY <1>1, StartPlays
    <2> HIDE DEF Q
    <2>3. PlanSize(Q) /\ Len(Q.items) = Q.processed
        <3>1. PlanSize(store) /\ Len(store.package) \in Nat BY <2>1, PlannedIs DEF Planned
        <3> QED BY <2>1, <3>1 DEF PlanSize
    <2>4. \A P \in InPlay' : PlanSize(P) BY <1>0, <2>1, <2>3 DEF Sizes
    <2>5. ASSUME NEW s \in Runs, Act(s)' PROVE Stage(s)'
        <3>1. CASE run'[s] = Execution(Q) BY <2>1, <2>3, <3>1, BeginStage
        <3>2. CASE run'[s] = run[s]
            <4>1. Act(s) BY <2>5, <3>2 DEF Act
            <4> QED BY <1>0, <3>2, <4>1 DEF Sizes, Stage
        <3>3. On(s)' BY <2>5 DEF Act, On
        <3> QED BY <2>2, <3>1, <3>2, <3>3
    <2> QED BY <1>0, <2>1, <2>3, <2>4, <2>5 DEF Sizes
<1>2. ASSUME Restart PROVE Sizes'
    <2>1. Held' \subseteq Held /\ Held' \subseteq {disk} BY <1>2, RestartPlays
    <2>2. ASSUME NEW s \in Runs, On(s)'
          PROVE  disk \in Held /\ disk.status = "running" /\ run'[s].plan = disk /\ Stage(s)'
        <3>1. disk \in Held /\ disk.status = "running" /\ disk \in StoredPlans /\ run'[s].plan = disk BY <1>2, <2>2, RestartPlays
        <3>2. run'[s] = Execution(disk)
            <4>1. run'[s] # Off BY <2>2, OffIs DEF On
            <4> QED BY <1>2, <4>1, RestartDoes
        <3>3. PlanSize(disk) /\ Len(disk.items) = disk.processed BY <1>0, <3>1, StoreIs DEF Sizes
        <3> QED BY <3>1, <3>2, <3>3, BeginStage
    <2>3. \A P \in InPlay' : PlanSize(P) BY <1>0, <2>1, <2>2, StoreIs DEF Sizes, InPlay
    <2>4. \A s \in Runs : Act(s)' => On(s)' BY DEF Act, On
    <2> QED BY <1>0, <2>1, <2>2, <2>3, <2>4 DEF Sizes
<1>3. ASSUME NEW c \in Calls, SetPlan(c) PROVE Sizes'
    <2> DEFINE Q == NewPlan(call[c].id, call[c].package, call[c].hash, ActionsFor(call[c].package))
    <2>1. /\ call[c].id \in 1 .. plans /\ call[c].package \in Packages /\ call[c].hash \in Hashes
          /\ StillStore \/ Puts(Q)
          /\ StillRuns /\ plans' = plans
        BY <1>3, SetPlanDoes
    <2>2. CASE StillStore
        <3>1. StoreStep BY <1>0, <2>1, <2>2, StillRetains, HeldAfter DEF StoreStep, StillRuns
        <3> QED BY <3>1, StoreSizes
    <2>3. CASE Puts(Q)
        <3>1. /\ Q.package = call[c].package /\ Q.actions = ActionsFor(call[c].package) /\ Q.status = "planned"
              /\ Q.processed = 0 /\ Q.items = <<>>
            <4>1. call[c].id \in Nat BY <1>0, <2>1
            <4> QED BY <2>1, <4>1, ActionsAre, NewPlanIs
        <3> HIDE DEF Q
        <3>2. Held' \subseteq Held \union {Q} BY <2>3, HeldAfter
        <3>3. PlanSize(Q)
            <4>1. Len(Q.package) \in Nat /\ Len(Q.actions) = Len(Q.package) BY <2>1, <3>1, ActionsAre, PackageIs
            <4> QED BY <3>1, <4>1 DEF PlanSize
        <3>4. \A s \in Runs : (On(s)' <=> On(s)) /\ (Act(s)' <=> Act(s)) /\ (Stage(s)' <=> Stage(s)) /\ run'[s] = run[s]
            BY <2>1 DEF StillRuns, On, Act, Stage
        <3>5. \A P \in InPlay' : PlanSize(P) BY <1>0, <3>2, <3>3, <3>4 DEF Sizes, InPlay
        <3> QED BY <1>0, <3>1, <3>2, <3>4, <3>5 DEF Sizes
    <2> QED BY <2>1, <2>2, <2>3
<1> QED BY <1>1, <1>2, <1>3, ExecSizes, StoreSizes, EveryoneDoes, RequestsStore, NextIs

-----------------------------------------------------------------------------
(* Records *)

LEMMA RecordedStill ==
    ASSUME NEW a, NEW items, Recorded(wrote, a, items), \A i \in DOMAIN items : <<a, i>> \in wrote' <=> <<a, i>> \in wrote
    PROVE  Recorded(wrote', a, items)
BY DEF Recorded

\* What r writes is not an item that anybody else has done.
LEMMA WroteByOne ==
    ASSUME IInv, NEW r \in Runs, Act(r), wrote' = wrote \union {<<run[r].plan.attempt, run[r].index + 1>>}
    PROVE  /\ \A s \in Runs : Act(s) /\ s # r => run[s].plan.attempt # run[r].plan.attempt
           /\ \A P \in Held : P.status \in {"running", "completed"} => Recorded(wrote', P.attempt, P.items)
<1> DEFINE a == run[r].plan.attempt
<1>0. Ids /\ Sizes /\ Records /\ On(r) /\ run[r].plan \in InPlay /\ a # 0 BY DEF IInv, InPlay, Act, On, Ids
<1>1. ASSUME NEW s \in Runs, Act(s), s # r PROVE run[s].plan.attempt # a
    <2>1. run[s].plan \in InPlay BY <1>1 DEF InPlay, Act, On
    <2> QED BY <1>0, <1>1, <2>1 DEF Ids
<1>2. ASSUME NEW P \in Held, P.status \in {"running", "completed"} PROVE Recorded(wrote', P.attempt, P.items)
    <2>1. Recorded(wrote, P.attempt, P.items) BY <1>0, <1>2 DEF Records
    <2>2. CASE P.attempt # a BY <2>1, <2>2, RecordedStill
    <2>3. CASE P.attempt = a
        <3>1. P.id = run[r].plan.id BY <1>0, <2>3, StoreIs DEF Ids
        <3>2. P.status = "running" /\ P.processed <= run[r].index BY <3>1, OursIs
        <3>3. Planned(P) /\ Len(P.items) = P.processed BY <1>0, <3>2, StoreIs, PlannedIs DEF Sizes
        <3>4. P.items \in Seq(Outcomes) /\ P.processed \in Nat /\ run[r].index \in Nat BY <1>0, <3>3, RunIs DEF Planned
        <3>5. \A i \in DOMAIN P.items : i # run[r].index + 1 BY <3>2, <3>3, <3>4
        <3> QED BY <2>1, <3>5, RecordedStill
    <2> QED BY <2>2, <2>3
<1> QED BY <1>1, <1>2

\* The outcome that an execution records for its item.
LEMMA ExecItems ==
    ASSUME IInv, NEW r \in Runs, Execute(r), Act(r)'
    PROVE  \/ wrote' = wrote /\ run'[r].items = run[r].items
           \/ /\ wrote' = wrote /\ Len(run[r].items) = run[r].index
              /\ \E o \in {"skipped", "error"} : run'[r].items = Append(run[r].items, o)
           \/ /\ wrote' = wrote \union {<<run[r].plan.attempt, run[r].index + 1>>} /\ Len(run[r].items) = run[r].index
              /\ run'[r].items = Append(run[r].items, "created") /\ StillStore
<1>1. Act(r) /\ Stage(r) /\ run[r].index \in Nat BY ExecIs, ExecDescend, ActIs
<1>2. run[r].at # "report" => Len(run[r].items) = run[r].index BY <1>1, RunIs, ActIs DEF Stage
<1>3. Check(r) \/ NextItem(r) \/ Report(r) => wrote' = wrote /\ run'[r].items = run[r].items
    BY CheckDoes, NextItemDoes, ReportDoes DEF Same, Quiet
<1>4. Ensure(r) => wrote' = wrote /\ run[r].at # "report" /\ (run'[r].items = run[r].items \/ run'[r].items = Append(run[r].items, "error"))
    BY EnsureDoes DEF Same, Fails
<1>5. Skip(r) => wrote' = wrote /\ run[r].at # "report" /\ run'[r].items = Append(run[r].items, "skipped")
    BY SkipDoes DEF Quiet
<1>6. Write(r) =>
        /\ run[r].at # "report" /\ StillStore
        /\ \/ wrote' = wrote /\ run'[r].items = Append(run[r].items, "error")
           \/ /\ wrote' = wrote \union {<<run[r].plan.attempt, run[r].index + 1>>}
              /\ run'[r].items = Append(run[r].items, "created")
    BY WriteDoes DEF Fails
<1>7. ~Finish(r) /\ ~Clean(r) BY FinishDoes, CleanDoes, OffIs DEF Act
<1> QED BY <1>2, <1>3, <1>4, <1>5, <1>6, <1>7 DEF Execute

LEMMA ExecRecords ==
    ASSUME IInv, NEW r \in Runs, Execute(r)
    PROVE  Records'
<1>0. Records /\ Ids /\ Types /\ ExecStep(r) BY ExecIs DEF IInv
<1> DEFINE a == run[r].plan.attempt
<1>1. ASSUME Act(r)'
      PROVE  /\ Recorded(wrote', a, run'[r].items)
             /\ \A w \in wrote' : w[1] = a => w[2] <= Len(run'[r].items)
    <2>1. Act(r) /\ On(r) BY <1>0, <1>1, ExecDescend DEF Act, On
    <2>2. /\ run[r].items \in Seq(Outcomes) /\ Recorded(wrote, a, run[r].items)
          /\ \A w \in wrote : w[1] = a => w[2] <= Len(run[r].items)
        BY <1>0, <2>1, RunIs DEF Records
    <2>3. \A w \in wrote : w[2] \in Nat BY <1>0 DEF Types
    <2>4. CASE wrote' = wrote /\ run'[r].items = run[r].items BY <2>2, <2>4, RecordedStill
    <2> DEFINE n == Len(run[r].items)
    <2>5. n \in Nat BY <2>2
    <2>6. ASSUME NEW o \in {"skipped", "error"}, wrote' = wrote, run'[r].items = Append(run[r].items, o)
          PROVE  /\ Recorded(wrote', a, run'[r].items)
                 /\ \A w \in wrote' : w[1] = a => w[2] <= Len(run'[r].items)
        <3> DEFINE items == run'[r].items
        <3>1. /\ Len(items) = n + 1 /\ DOMAIN run[r].items = 1 .. n /\ DOMAIN items = 1 .. (n + 1)
              /\ \A i \in DOMAIN run[r].items : items[i] = run[r].items[i]
              /\ items[n + 1] = o
            BY <2>2, <2>6, AppendIs DEF Outcomes
        <3>2. <<a, n + 1>> \notin wrote
            <4>1. <<a, n + 1>> \in wrote => n + 1 <= n BY <2>2
            <4> QED BY <2>5, <4>1
        <3> HIDE DEF items, n
        <3>3. \A w \in wrote' : w[1] = a => w[2] <= Len(items) BY <2>2, <2>3, <2>5, <2>6, <3>1 DEF n
        <3>4. Recorded(wrote', a, items) BY <2>2, <2>5, <2>6, <3>1, <3>2 DEF Recorded, items
        <3> QED BY <3>3, <3>4 DEF items
    <2>7. CASE /\ wrote' = wrote \union {<<a, run[r].index + 1>>} /\ n = run[r].index
               /\ run'[r].items = Append(run[r].items, "created")
        <3> DEFINE items == run'[r].items
        <3>1. /\ Len(items) = n + 1 /\ DOMAIN run[r].items = 1 .. n /\ DOMAIN items = 1 .. (n + 1)
              /\ \A i \in DOMAIN run[r].items : items[i] = run[r].items[i]
              /\ items[n + 1] = "created"
            BY <2>2, <2>7, AppendIs DEF Outcomes
        <3>2. wrote' = wrote \union {<<a, n + 1>>} BY <2>7
        <3> HIDE DEF items, n
        <3>3. \A w \in wrote' : w[1] = a => w[2] <= Len(items) BY <2>2, <2>3, <2>5, <3>1, <3>2 DEF n
        <3>4. Recorded(wrote', a, items) BY <2>2, <2>5, <3>1, <3>2 DEF Recorded, items
        <3> QED BY <3>3, <3>4 DEF items
    <2> QED BY <1>1, <2>4, <2>6, <2>7, ExecItems
<1>2. Act(r)' => run'[r].plan = run[r].plan BY <1>0 DEF ExecStep, Act, On
<1>3. wrote' = wrote \/ (wrote' = wrote \union {<<a, run[r].index + 1>>} /\ Act(r) /\ StillStore)
    <2>1. Check(r) \/ NextItem(r) \/ Ensure(r) \/ Skip(r) \/ Report(r) \/ Finish(r) \/ Clean(r) => wrote' = wrote
        BY CheckDoes, NextItemDoes, EnsureDoes, SkipDoes, ReportDoes, FinishDoes, CleanDoes DEF Quiet
    <2>2. Write(r) => \/ wrote' = wrote
                      \/ wrote' = wrote \union {<<a, run[r].index + 1>>} /\ Act(r) /\ StillStore
        BY WriteDoes DEF Act
    <2> QED BY <2>1, <2>2 DEF Execute
<1>4. ASSUME NEW s \in Runs, Act(s)'
      PROVE  /\ Recorded(wrote', run'[s].plan.attempt, run'[s].items)
             /\ \A w \in wrote' : w[1] = run'[s].plan.attempt => w[2] <= Len(run'[s].items)
    <2>1. CASE s = r BY <1>1, <1>2, <1>4, <2>1 DEF Recorded
    <2>2. CASE s # r
        <3>1. run'[s] = run[s] /\ Act(s) BY <1>0, <1>4, <2>2 DEF ExecStep, Act
        <3>2. /\ Recorded(wrote, run[s].plan.attempt, run[s].items)
              /\ \A w \in wrote : w[1] = run[s].plan.attempt => w[2] <= Len(run[s].items)
            BY <1>0, <3>1 DEF Records
        <3>3. CASE wrote' = wrote BY <3>1, <3>2, <3>3, RecordedStill DEF Recorded
        <3>4. CASE wrote' = wrote \union {<<a, run[r].index + 1>>} /\ Act(r)
            <4>1. run[s].plan.attempt # a BY <2>2, <3>1, <3>4, WroteByOne
            <4> QED BY <3>1, <3>2, <3>4, <4>1 DEF Recorded
        <3> QED BY <1>3, <3>3, <3>4
    <2> QED BY <2>1, <2>2
<1>5. ASSUME NEW P \in Held', P.status \in {"running", "completed"} PROVE Recorded(wrote', P.attempt, P.items)
    <2>1. CASE P \in Held
        <3>1. CASE wrote' = wrote BY <1>0, <1>5, <2>1, <3>1, RecordedStill DEF Records
        <3> QED BY <1>3, <1>5, <2>1, <3>1, WroteByOne
    <2>2. CASE Stores(r, P)
        <3>1. store \in Held /\ store.id = run[r].plan.id /\ Act(r) /\ P.attempt = store.attempt
            BY <2>2 DEF Stores, Ours, Like
        <3>2. P.attempt = a BY <3>1, OursIs
        <3>3. CASE Act(r)' /\ P.items = run'[r].items BY <1>1, <3>2, <3>3 DEF Recorded
        <3>4. CASE /\ run[r].at = "finish" /\ P.items = (IF run[r].error = "failed" THEN <<>> ELSE run[r].items)
                   /\ P.status = (IF run[r].error = "none" THEN "completed" ELSE run[r].error)
            <4>0. P.items = run[r].items BY <1>5, <3>4
            <4>1. wrote' = wrote
                <5>1. ~Write(r) BY <3>4, WriteDoes
                <5> QED BY <5>1, CheckDoes, NextItemDoes, EnsureDoes, SkipDoes, ReportDoes, FinishDoes, CleanDoes DEF Quiet, Execute
            <4>2. Recorded(wrote, a, run[r].items) BY <1>0, <3>1 DEF Records
            <4> QED BY <3>2, <4>0, <4>1, <4>2, RecordedStill
        <3> QED BY <2>2, <3>3, <3>4 DEF Stores
    <2> QED BY <1>0, <1>5, <2>1, <2>2, ExecDescend
<1> QED BY <1>4, <1>5 DEF Records

LEMMA SetPlanHeld ==
    ASSUME IInv, NEW c \in Calls, SetPlan(c)
    PROVE  /\ \A P \in Held' : P.status = "planned" \/ \E P0 \in Held : Retains(P0, P)
           /\ \A P \in Held' : \/ \E P0 \in Held : Retains(P0, P)
                               \/ P = NewPlan(call[c].id, call[c].package, call[c].hash, ActionsFor(call[c].package))
           /\ \/ StillStore /\ StoreStep
              \/ /\ Puts(NewPlan(call[c].id, call[c].package, call[c].hash, ActionsFor(call[c].package)))
                 /\ NewPlan(call[c].id, call[c].package, call[c].hash, ActionsFor(call[c].package)).status = "planned"
<1> DEFINE Q == NewPlan(call[c].id, call[c].package, call[c].hash, ActionsFor(call[c].package))
<1>1. StillStore \/ Puts(Q) BY SetPlanDoes
<1>2. Q.status = "planned"
    <2>1. call[c].id \in 1 .. plans /\ call[c].package \in Packages /\ call[c].hash \in Hashes BY SetPlanDoes
    <2>3. plans \in Nat BY DEF IInv, Types
    <2>2. call[c].id \in Nat BY <2>1, <2>3
    <2> QED BY <2>1, <2>2, ActionsAre, NewPlanIs
<1> HIDE DEF Q
<1>3. CASE StillStore
    <2>1. \A P \in Held' : \E P0 \in Held : Retains(P0, P) BY <1>3, StillRetains
    <2>2. run' = run /\ starts' = starts /\ plans' = plans BY SetPlanDoes DEF StillRuns
    <2>3. plans \in Nat BY DEF IInv, Types
    <2>4. StoreStep BY <1>3, <2>1, <2>2, <2>3, HeldAfter DEF StoreStep
    <2> QED BY <1>3, <2>1, <2>4
<1>4. CASE Puts(Q)
    <2>1. Held' \subseteq Held \union {Q} BY <1>4, HeldAfter
    <2>2. \A P \in Held : Retains(P, P) BY DEF Retains, Like
    <2> QED BY <1>2, <1>4, <2>1, <2>2 DEF Q
<1> QED BY <1>1, <1>3, <1>4

LEMMA StoreRecords ==
    ASSUME IInv, wrote' = wrote, run' = run,
           \A P \in Held' : P.status = "planned" \/ \E P0 \in Held : Retains(P0, P)
    PROVE  Records'
<1>0. Records BY DEF IInv
<1>1. \A P \in Held' : P.status \in {"running", "completed"} => Recorded(wrote', P.attempt, P.items)
    BY <1>0 DEF Records, Retains, Like
<1>2. \A s \in Runs : (Act(s)' <=> Act(s)) /\ run'[s] = run[s] BY DEF Act
<1> QED BY <1>0, <1>1, <1>2 DEF Records

LEMMA NextRecords ==
    ASSUME IInv, Next
    PROVE  Records'
<1>0. Records /\ Types /\ Sizes BY DEF IInv
<1>1. ASSUME Start PROVE Records'
    <2> DEFINE n == starts + 1
               Q == Started(store, n)
    <2>1. /\ Q.attempt = n /\ Q.items = <<>> /\ Q \in StoredPlans /\ Held' \subseteq Held \union {Q}
          /\ \A s \in Runs : On(s)' => run'[s] = Execution(Q) \/ (On(s) /\ run'[s] = run[s])
        BY <1>1, StartPlays
    <2>2. wrote' = wrote BY <1>1, StartDoes
    <2>3. Execution(Q).plan = Q /\ Execution(Q).items = <<>> BY <2>1, ExecutionIs
    <2>4. \A w \in wrote : w[1] # n BY <1>0 DEF Types
    <2> HIDE DEF Q
    <2>5. Recorded(wrote', n, <<>>) BY DEF Recorded
    <2>6. \A P \in Held' : P.status \in {"running", "completed"} => Recorded(wrote', P.attempt, P.items)
        BY <1>0, <2>1, <2>2, <2>5 DEF Records
    <2>7. ASSUME NEW s \in Runs, Act(s)'
          PROVE  /\ Recorded(wrote', run'[s].plan.attempt, run'[s].items)
                 /\ \A w \in wrote' : w[1] = run'[s].plan.attempt => w[2] <= Len(run'[s].items)
        <3>1. CASE run'[s] = Execution(Q) BY <2>1, <2>2, <2>3, <2>4, <2>5, <3>1
        <3>2. CASE run'[s] = run[s]
            <4>1. Act(s) BY <2>7, <3>2 DEF Act
            <4> QED BY <1>0, <2>2, <3>2, <4>1 DEF Records
        <3>3. On(s)' BY <2>7 DEF Act, On
        <3> QED BY <2>1, <3>1, <3>2, <3>3
    <2> QED BY <2>6, <2>7 DEF Records
<1>2. ASSUME Restart PROVE Records'
    <2>1. Held' \subseteq Held /\ Held' \subseteq {disk} BY <1>2, RestartPlays
    <2>2. CASE Interrupted
        <3>1. disk \in Held /\ disk.status = "running" /\ wrote' = {w \in wrote : w[1] = disk.attempt => w[2] <= disk.processed}
            BY <1>2, <2>2, RestartDoes
        <3>2. Recorded(wrote, disk.attempt, disk.items) /\ Len(disk.items) = disk.processed BY <1>0, <3>1 DEF Records, Sizes
        <3>3. disk.items \in Seq(Outcomes) /\ disk.processed \in Nat BY <3>1, StoreIs, PlannedIs DEF Planned
        <3>4. \A i \in DOMAIN disk.items : i <= disk.processed BY <3>2, <3>3
        <3>5. Recorded(wrote', disk.attempt, disk.items) BY <3>1, <3>2, <3>4 DEF Recorded
        <3>6. \A w \in wrote' : w[1] = disk.attempt => w[2] <= Len(disk.items) BY <3>1, <3>2
        <3>7. \A s \in Runs : Act(s)' => run'[s].plan = disk /\ run'[s].items = disk.items BY <1>2, RestartPlays DEF Act, On
        <3> QED BY <2>1, <3>5, <3>6, <3>7 DEF Records
    <2>3. CASE ~Interrupted
        <3>1. wrote' = wrote /\ \A s \in Runs : ~Act(s)' BY <1>2, <2>3, RestartDoes, OffIs DEF Act
        <3> QED BY <1>0, <2>1, <3>1 DEF Records
    <2> QED BY <2>2, <2>3
<1>3. Everyone => Records' BY EveryoneDoes, StoreRecords DEF Elsewhere, StoreStep
<1>4. \A c \in Calls : Requests(c) => Records' BY RequestsStore, StoreRecords DEF StillRuns, StoreStep
<1>5. ASSUME NEW c \in Calls, SetPlan(c) PROVE Records'
    <2>1. wrote' = wrote /\ run' = run BY <1>5, SetPlanDoes DEF StillRuns
    <2>2. \A P \in Held' : P.status = "planned" \/ \E P0 \in Held : Retains(P0, P) BY <1>5, SetPlanHeld
    <2> QED BY <2>1, <2>2, StoreRecords
<1> QED BY <1>1, <1>2, <1>3, <1>4, <1>5, ExecRecords, NextIs

-----------------------------------------------------------------------------
(* Workspaces *)

\* The plans that are being executed, as far as anybody knows.
Watched == {P \in Held : P.status = "running"} \union {run[r].plan : r \in {s \in Runs : Act(s)}}

LEMMA WatchedSafe ==
    ASSUME IInv
    PROVE  \A P \in Watched : Safe(P) /\ P \in InPlay
<1>1. Workspaces BY DEF IInv
<1>2. \A r \in Runs : Act(r) => On(r) BY DEF Act, On
<1> QED BY <1>1, <1>2 DEF Watched, Workspaces, InPlay

LEMMA WatchedWorkspaces ==
    ASSUME \A P \in Watched' : Safe(P)'
    PROVE  Workspaces'
<1>1. \A P \in Held' : P.status = "running" => Safe(P)' BY DEF Watched
<1>2. \A r \in Runs : Act(r)' => run'[r].plan \in Watched' BY DEF Watched
<1>3. \A r \in Runs : Act(r)' => Safe(run[r].plan)' BY <1>2 DEF Safe
<1> QED BY <1>1, <1>3 DEF Workspaces

LEMMA SafeStill ==
    ASSUME NEW P, Safe(P), raced \subseteq raced', P.id \in files => P.id \in files',
           \A r \in Runs : run'[r].at = "clean" => run'[r].plan.id # P.id,
           \A c \in Calls : call'[c].at = "sweep" => call'[c].old # P.id
    PROVE  Safe(P)'
BY DEF Safe

LEMMA ExecWorkspaces ==
    ASSUME IInv, NEW r \in Runs, Execute(r)
    PROVE  Workspaces'
<1>0. Ids /\ ExecStep(r) BY ExecIs DEF IInv
<1>1. call' = call /\ raced' = raced /\ \A s \in Runs : s # r => run'[s] = run[s] BY <1>0 DEF ExecStep
<1>2. ASSUME NEW P \in Watched'
      PROVE  /\ \E P0 \in Watched : P0.id = P.id /\ P0.attempt = P.attempt
             /\ run'[r].at = "clean" => run'[r].plan.id # P.id
    <2>1. run'[r].at = "clean" =>
             /\ run'[r].plan = run[r].plan /\ broken' = FALSE /\ Act(r) /\ ~Act(r)' /\ run[r].at = "finish"
             /\ (StillStore /\ broken = FALSE /\ ~Ours(r)) \/ (Ours(r) /\ Puts(Ended(store, run[r])))
        <3>1. Check(r) \/ NextItem(r) \/ Ensure(r) \/ Write(r) \/ Skip(r) \/ Report(r) \/ Clean(r) => run'[r].at # "clean"
            BY CheckDoes, NextItemDoes, EnsureDoes, WriteDoes, SkipDoes, ReportDoes, CleanDoes, OffIs DEF Fails
        <3>2. ASSUME Finish(r), run'[r].at = "clean"
              PROVE  /\ run'[r].plan = run[r].plan /\ broken' = FALSE /\ Act(r) /\ ~Act(r)' /\ run[r].at = "finish"
                     /\ (StillStore /\ broken = FALSE /\ ~Ours(r)) \/ (Ours(r) /\ Puts(Ended(store, run[r])))
            <4>1. Act(r) /\ run[r].at = "finish" BY <3>2, FinishDoes
            <4>2. run'[r] # Off BY <3>2, OffIs
            <4>3. broken' = FALSE /\ run'[r].plan = run[r].plan BY <3>2, <4>2, FinishDoes, Zenon
            <4>4. StillStore => broken = FALSE BY <4>3, Zenon DEF StillStore
            <4>5. \/ StillStore /\ (broken = TRUE \/ ~Ours(r))
                  \/ Ours(r) /\ Puts(Ended(store, run[r]))
                BY <3>2, FinishDoes
            <4>6. (StillStore /\ broken = FALSE /\ ~Ours(r)) \/ (Ours(r) /\ Puts(Ended(store, run[r])))
                BY <4>4, <4>5, Zenon
            <4> QED BY <3>2, <4>1, <4>3, <4>6 DEF Act
        <3> QED BY <3>1, <3>2 DEF Execute
    <2>2. ASSUME NEW s \in Runs, Act(s)', P = run'[s].plan
          PROVE  /\ P \in Watched
                 /\ run'[r].at = "clean" => run'[r].plan.id # P.id
        <3>1. Act(s) /\ run'[s].plan = run[s].plan BY <1>0, <2>2, ExecDescend DEF Act, On
        <3> QED BY <1>0, <2>1, <2>2, <3>1 DEF Watched, Ids
    <2>3. ASSUME P \in Held', P.status = "running", P \in Held
          PROVE  /\ P \in Watched
                 /\ run'[r].at = "clean" => run'[r].plan.id # P.id
        <3>1. P \in Watched BY <2>3 DEF Watched
        <3>2. ASSUME run'[r].at = "clean", P.id = run[r].plan.id PROVE FALSE
            <4>1. CASE StillStore /\ broken = FALSE /\ ~Ours(r)
                <5>1. P = store BY <1>0, <2>3, <4>1 DEF Ids, Held
                <5> QED BY <2>3, <3>2, <4>1, <5>1 DEF Ours, Held
            <4>2. CASE Ours(r) /\ Puts(Ended(store, run[r]))
                <5>1. store' = Ended(store, run[r]) /\ disk' = store'
                    BY <2>1, <3>2, <4>2 DEF Puts
                <5>2. P = Ended(store, run[r]) BY <2>3, <5>1 DEF Held
                <5>3. store \in StoredPlans BY <4>2, StoreIs DEF Ours, Planned
                <5>4. run[r] \in RunT /\ run[r].plan # None BY <1>0, <2>1, <3>2, RunIs DEF Ids, Act, On
                <5> QED BY <2>3, <5>2, <5>3, <5>4, EndedIs
            <4> QED BY <2>1, <3>2, <4>1, <4>2
        <3> QED BY <2>1, <3>1, <3>2
    <2>4. ASSUME P \in Held', P.status = "running", Stores(r, P)
          PROVE  /\ store \in Watched /\ store.id = P.id /\ store.attempt = P.attempt
                 /\ run'[r].at # "clean"
        <3>1. store \in Held /\ store.id = P.id /\ store.attempt = P.attempt BY <2>4 DEF Stores, Like
        <3>2. run[r].error \in {"none", "failed", "canceled"} BY DEF IInv, Types, RunT
        <3>3. Act(r)' /\ P.status = store.status BY <2>4, <3>2 DEF Stores
        <3> QED BY <2>4, <3>1, <3>3 DEF Watched, Act
    <2>5. \/ \E s \in Runs : Act(s)' /\ P = run'[s].plan
          \/ P \in Held' /\ P.status = "running"
        BY DEF Watched
    <2> QED BY <1>0, <2>2, <2>3, <2>4, <2>5, ExecDescend
<1>3. \A P0 \in Watched : P0.id \in files => P0.id \in files' \/ P0.attempt \in raced
    <2>1. CASE Clean(r)
        <3>1. run[r].at = "clean" /\ files' \in {files, files \ {run[r].plan.id}} BY <2>1, CleanDoes
        <3> QED BY <3>1, WatchedSafe DEF Safe
    <2>2. CASE ~Clean(r)
        <3>1. files' = files BY <2>2, CheckDoes, NextItemDoes, EnsureDoes, WriteDoes, SkipDoes, ReportDoes, FinishDoes DEF Quiet, Execute
        <3> QED BY <3>1
    <2> QED BY <2>1, <2>2
<1>4. ASSUME NEW P \in Watched' PROVE Safe(P)'
    <2>1. PICK P0 \in Watched : P0.id = P.id /\ P0.attempt = P.attempt BY <1>2
    <2>2. Safe(P) BY <2>1, WatchedSafe DEF Safe
    <2>3. P.id \in files => P.id \in files' \/ P.attempt \in raced BY <1>3, <2>1
    <2>4. ASSUME NEW s \in Runs, run'[s].at = "clean", P.attempt \notin raced PROVE run'[s].plan.id # P.id
        <3>1. CASE s = r BY <1>2, <2>4, <3>1
        <3>2. CASE s # r BY <1>1, <2>2, <2>4, <3>2 DEF Safe
        <3> QED BY <3>1, <3>2
    <2> QED BY <1>1, <2>2, <2>3, <2>4 DEF Safe
<1> QED BY <1>4, WatchedWorkspaces

\* A request that goes on: it sweeps what was not running when it looked at it.
LEMMA CallWorkspaces ==
    ASSUME IInv, NEW c \in Calls, run' = run, raced' = raced,
           \A P \in Held' : P.status = "planned" \/ \E P0 \in Held : Retains(P0, P),
           \A d \in Calls : d # c => call'[d] = call[d],
           call'[c] = call[c] \/ call'[c].at # "sweep"
             \/ (broken = FALSE /\ store \in Held /\ store.status # "running" /\ call'[c].old = store.id),
           \A id \in files : id \in files' \/ id = call[c].id \/ (call[c].at = "sweep" /\ id = call[c].old)
    PROVE  Workspaces'
<1>0. Ids /\ CallIds BY DEF IInv
<1>1. ASSUME NEW P \in Watched' PROVE \E P0 \in Watched : P0.id = P.id /\ P0.attempt = P.attempt
    <2>1. ASSUME P \in Held', P.status = "running" PROVE \E P0 \in Watched : P0.id = P.id /\ P0.attempt = P.attempt
        BY <2>1 DEF Watched, Retains, Like
    <2>2. ASSUME NEW s \in Runs, Act(s)', P = run'[s].plan PROVE P \in Watched BY <2>2 DEF Watched, Act
    <2> QED BY <2>1, <2>2 DEF Watched
<1>2. ASSUME NEW P \in Watched' PROVE Safe(P)'
    <2>1. PICK P0 \in Watched : P0.id = P.id /\ P0.attempt = P.attempt BY <1>1
    <2>2. Safe(P0) /\ P0 \in InPlay BY <2>1, WatchedSafe
    <2>3. P.id # call[c].id BY <1>0, <2>1, <2>2 DEF CallIds
    <2>4. CASE P.attempt \in raced BY <2>4 DEF Safe
    <2>5. CASE P.attempt \notin raced
        <3>1. /\ P.id \in files
              /\ \A r \in Runs : run[r].at = "clean" => run[r].plan.id # P.id
              /\ \A d \in Calls : call[d].at = "sweep" => call[d].old # P.id
            BY <2>1, <2>2, <2>5 DEF Safe
        <3>2. P.id \in files' BY <2>3, <3>1
        <3>3. ASSUME broken = FALSE, store \in Held, store.status # "running" PROVE store.id # P.id
            <4>1. CASE P0 \in Held /\ P0.status = "running"
                <5>1. P0 = store BY <1>0, <3>3, <4>1 DEF Ids, Held
                <5> QED BY <3>3, <4>1, <5>1
            <4>2. ASSUME NEW s \in Runs, Act(s), P0 = run[s].plan PROVE store.id # P.id BY <1>0, <2>1, <3>3, <4>2 DEF Ids
            <4> QED BY <2>1, <4>1, <4>2 DEF Watched
        <3>4. \A d \in Calls : call'[d].at = "sweep" => call'[d].old # P.id BY <3>1, <3>3
        <3> QED BY <3>1, <3>2, <3>4 DEF Safe
    <2> QED BY <2>4, <2>5
<1> QED BY <1>2, WatchedWorkspaces

LEMMA RequestWorkspaces ==
    ASSUME IInv, NEW c \in Calls, Requests(c) \/ SetPlan(c)
    PROVE  Workspaces'
<1>1. run' = run /\ raced' = raced BY RequestsStore, SetPlanDoes DEF StillRuns
<1>2. \A P \in Held' : P.status = "planned" \/ \E P0 \in Held : Retains(P0, P) BY RequestsStore, SetPlanHeld DEF StoreStep
<1>3. \A d \in Calls : d # c => call'[d] = call[d]
    <2>1. Cancel(c) => call' = call BY CancelDoes
    <2>2. Clear(c) \/ Sweep(c) \/ ClearStore(c) \/ TakeHash(c) \/ SetPlan(c) => \E x : CallMoves(c, x)
        BY ClearDoes, SweepDoes, ClearStoreDoes, TakeHashDoes, SetPlanDoes
    <2>3. \A package \in Packages : Upload(c, package) => call' = call \/ \E x : CallMoves(c, x) BY UploadDoes
    <2> QED BY <2>1, <2>2, <2>3 DEF CallMoves, Requests
<1>4. \/ call'[c] = call[c] \/ call'[c].at # "sweep"
      \/ broken = FALSE /\ store \in Held /\ store.status # "running" /\ call'[c].old = store.id
    <2>1. Cancel(c) => call' = call BY CancelDoes
    <2>2. Clear(c) => broken = FALSE /\ store \in Held /\ store.status # "running" /\ call'[c].old = store.id
        BY ClearDoes DEF CallMoves
    <2>3. Sweep(c) \/ ClearStore(c) \/ TakeHash(c) \/ SetPlan(c) => call'[c].at # "sweep"
        BY SweepDoes, ClearStoreDoes, TakeHashDoes, SetPlanDoes, IdleIs DEF CallMoves
    <2>4. ASSUME NEW package \in Packages, Upload(c, package), call' # call, call'[c].at = "sweep"
          PROVE  broken = FALSE /\ store \in Held /\ store.status # "running" /\ call'[c].old = store.id
        <3>1. PICK x \in CallT :
                 /\ CallMoves(c, x)
                 /\ \/ x.at = "hash"
                    \/ x.at = "sweep" /\ broken = FALSE /\ store \in Held /\ store.status # "running" /\ x.old = store.id
            BY <2>4, UploadDoes
        <3>2. call'[c] = x BY <3>1 DEF CallMoves
        <3>3. x.at # "hash" BY <2>4, <3>2
        <3> QED BY <3>1, <3>2, <3>3, Zenon
    <2> QED BY <2>1, <2>2, <2>3, <2>4 DEF Requests
<1>5. \A id \in files : id \in files' \/ id = call[c].id \/ (call[c].at = "sweep" /\ id = call[c].old)
    <2>1. Cancel(c) \/ Clear(c) \/ TakeHash(c) => files' = files BY CancelDoes, ClearDoes, TakeHashDoes
    <2>2. Sweep(c) => call[c].at = "sweep" /\ files \ {call[c].old, call[c].id} \subseteq files' BY SweepDoes
    <2>3. ClearStore(c) \/ SetPlan(c) => files' = files \/ files' = files \ {call[c].id} BY ClearStoreDoes, SetPlanDoes
    <2>4. \A package \in Packages : Upload(c, package) => files \subseteq files' BY UploadDoes
    <2> QED BY <2>1, <2>2, <2>3, <2>4 DEF Requests
<1> QED BY <1>1, <1>2, <1>3, <1>4, <1>5, CallWorkspaces

LEMMA NextWorkspaces ==
    ASSUME IInv, Next
    PROVE  Workspaces'
<1>0. Ids /\ starts \in Nat BY DEF IInv, Types
<1>1. ASSUME Start PROVE Workspaces'
    <2> DEFINE n == starts + 1
               Q == Started(store, n)
    <2>1. /\ store \in Held /\ store.status # "running" /\ Q.id = store.id /\ Q.attempt = n /\ Held \subseteq {store}
          /\ Q \in StoredPlans /\ Held' \subseteq Held \union {Q}
          /\ \A s \in Runs : On(s)' => run'[s] = Execution(Q) \/ (On(s) /\ run'[s] = run[s])
        BY <1>1, StartPlays
    <2>2. /\ call' = call /\ files' = files /\ raced \subseteq raced'
          /\ n \notin raced' => store.attempt = 0 /\ store.id \in files /\ \A c \in Calls : call[c].old # store.id
        BY <1>1, StartDoes
    <2>3. Execution(Q).at = "check" /\ Execution(Q).plan = Q BY <2>1, ExecutionIs
    <2> HIDE DEF Q, n
    <2>4. \A s \in Runs : run'[s].at = "clean" => On(s) /\ run'[s] = run[s]
        BY <2>1, <2>3 DEF On
    <2>5. ASSUME NEW P \in Watched' PROVE P = Q \/ P \in Watched
        <3>1. ASSUME NEW s \in Runs, Act(s)', P = run'[s].plan PROVE P = Q \/ P \in Watched
            <4>1. On(s)' BY <3>1 DEF Act, On
            <4> QED BY <2>1, <2>3, <3>1, <4>1 DEF Watched, Act
        <3>2. CASE P \in Held' /\ P.status = "running" BY <2>1, <3>2 DEF Watched
        <3> QED BY <3>1, <3>2 DEF Watched
    <2>6. ASSUME NEW P \in Watched' PROVE Safe(P)'
        <3>1. CASE P \in Watched BY <2>2, <2>4, <3>1, WatchedSafe DEF Safe
        <3>2. CASE P = Q
            <4>1. \A s \in Runs : On(s) /\ run[s].plan.id = store.id => store.attempt # 0 BY <1>0, <2>1 DEF Ids
            <4> QED BY <2>1, <2>2, <2>4, <3>2, <4>1 DEF Safe
        <3> QED BY <2>5, <3>1, <3>2
    <2> QED BY <2>6, WatchedWorkspaces
<1>2. ASSUME Restart PROVE Workspaces'
    <2>1. Held' \subseteq Held BY <1>2, RestartPlays
    <2>2. files' = files /\ raced' = raced /\ \A c \in Calls : call'[c] = Idle BY <1>2, RestartDoes
    <2>3. \A s \in Runs : run'[s].at # "clean" BY <1>2, RestartPlays DEF On
    <2>4. \A s \in Runs : Act(s)' => run'[s].plan = disk /\ disk \in Held /\ disk.status = "running"
        BY <1>2, RestartPlays DEF Act, On
    <2>5. Watched' \subseteq Watched BY <2>1, <2>4 DEF Watched
    <2>6. \A P \in Watched' : Safe(P)' BY <2>2, <2>3, <2>5, WatchedSafe, IdleIs DEF Safe
    <2> QED BY <2>6, WatchedWorkspaces
<1>3. ASSUME Everyone PROVE Workspaces'
    <2>1. run' = run /\ Held' = Held /\ UNCHANGED <<files, raced, call>> BY <1>3, EveryoneDoes, HeldAfter DEF Elsewhere
    <2>2. Watched' = Watched BY <2>1 DEF Watched, Act
    <2>3. \A P \in Watched' : Safe(P)' BY <2>1, <2>2, WatchedSafe DEF Safe
    <2> QED BY <2>3, WatchedWorkspaces
<1> QED BY <1>1, <1>2, <1>3, ExecWorkspaces, RequestWorkspaces, NextIs

-----------------------------------------------------------------------------
(* Cancelled *)

LEMMA StillCancelled ==
    ASSUME IInv, late' = late,
           \A s \in Runs : run'[s].at \in {"create", "write"} /\ Ours(s)' /\ (store.cancel)' =>
             run[s].at \in {"create", "write"} /\ Ours(s) /\ store.cancel
    PROVE  Cancelled'
<1>1. Cancelled BY DEF IInv
<1>2. ASSUME NEW s \in Runs, run'[s].at \in {"create", "write"}, Ours(s)', (store.cancel)' PROVE late' = 0
    <2>1. run[s].at \in {"create", "write"} /\ Ours(s) /\ store.cancel BY <1>2
    <2> QED BY <1>1, <2>1, Zenon DEF Cancelled
<1>3. late' <= 1 BY <1>1 DEF Cancelled
<1> QED BY <1>2, <1>3, Zenon DEF Cancelled

LEMMA NobodyCancelled ==
    ASSUME IInv, late' \in {0, late}, \A s \in Runs : ~(run'[s].at \in {"create", "write"} /\ Ours(s)' /\ (store.cancel)')
    PROVE  Cancelled'
<1>1. late <= 1 BY DEF IInv, Cancelled
<1>2. late' <= 1 BY <1>1
<1> QED BY <1>2, Zenon DEF Cancelled

LEMMA ExecCancelled ==
    ASSUME IInv, NEW r \in Runs, Execute(r)
    PROVE  Cancelled'
<1>0. Ids /\ ExecStep(r) /\ Cancelled BY ExecIs DEF IInv
<1>1. ASSUME NEW s \in Runs, s # r, Act(s), run[s].plan.id = run[r].plan.id, Act(r) PROVE FALSE
    BY <1>0, <1>1 DEF Ids
<1>2. ASSUME NEW s \in Runs, s # r, run'[s].at \in {"create", "write"}, Ours(s)', (store.cancel)'
      PROVE  run[s].at \in {"create", "write"} /\ Ours(s) /\ store.cancel
    <2>1. run'[s] = run[s] /\ Act(s) BY <1>0, <1>2 DEF ExecStep, Act
    <2>2. CASE StillStore BY <1>2, <2>1, <2>2, Zenon DEF StillStore, Ours
    <2>3. ASSUME NEW Q \in StoredPlans, Stores(r, Q) PROVE FALSE
        <3>1. store' = Q /\ Q.id = store.id /\ store.id = run[r].plan.id /\ Act(r)
            BY <2>3 DEF Stores, Puts, Like, Ours
        <3> QED BY <1>1, <1>2, <2>1, <3>1 DEF Ours
    <2> QED BY <1>0, <2>2, <2>3 DEF ExecStep
<1>3. ASSUME run'[r].at \in {"create", "write"}, Ours(r)', (store.cancel)'
      PROVE  run[r].at \in {"create", "write"} /\ Ours(r) /\ store.cancel
    <2>1. CASE Ensure(r)
        <3>1. run[r].at = "create" /\ StillStore /\ run'[r].plan = run[r].plan BY <2>1, EnsureDoes DEF Moves
        <3> QED BY <1>3, <3>1, Zenon DEF StillStore, Ours
    <2>2. CASE NextItem(r)
        <3>1. Moves(r) /\ run'[r].plan = run[r].plan /\ ~CancelSeen(r) /\ Reports(r, run[r].index)
            BY <1>3, <2>2, NextItemDoes DEF Moves
        <3>2. CASE StillStore BY <1>3, <3>1, <3>2, Zenon DEF StillStore, Ours, CancelSeen
        <3>3. ASSUME NEW Q \in StoredPlans, Stores(r, Q) PROVE FALSE
            <4>1. Ours(r) /\ store' = Q /\ run[r].at = "next" BY <2>2, <3>3, NextItemDoes DEF Stores, Puts
            <4>2. Q.cancel <=> store.cancel BY <3>3, <4>1 DEF Stores
            <4> QED BY <1>3, <3>1, <4>1, <4>2, Zenon DEF CancelSeen
        <3> QED BY <1>0, <3>2, <3>3 DEF ExecStep
    <2>3. Check(r) \/ Write(r) \/ Skip(r) \/ Report(r) \/ Finish(r) \/ Clean(r) => run'[r].at \notin {"create", "write"}
        BY CheckDoes, WriteDoes, SkipDoes, ReportDoes, FinishDoes, CleanDoes, OffIs DEF Fails
    <2> QED BY <1>3, <2>1, <2>2, <2>3 DEF Execute
<1>4. CASE late' = late BY <1>2, <1>3, <1>4, StillCancelled, Zenon
<1>5. ASSUME Write(r), Ours(r), store.cancel, late' = late + 1 PROVE Cancelled'
    <2>1. run[r].at = "write" /\ Act(r) /\ StillStore /\ run'[r].at \in {"report", "next"}
        BY <1>5, WriteDoes DEF Act, Fails
    <2>2. late = 0 BY <1>0, <1>5, <2>1, Zenon DEF Cancelled
    <2>3. late' <= 1 BY <1>5, <2>2
    <2>4. ASSUME NEW s \in Runs, run'[s].at \in {"create", "write"}, Ours(s)' PROVE FALSE
        <3>1. s # r BY <2>1, <2>4
        <3>2. run'[s] = run[s] /\ Act(s) BY <1>0, <2>4, <3>1 DEF ExecStep, Act
        <3> QED BY <1>1, <1>5, <2>1, <2>4, <3>1, <3>2 DEF Ours, StillStore
    <2> QED BY <2>3, <2>4, Zenon DEF Cancelled
<1>6. late' = late \/ (Write(r) /\ Ours(r) /\ store.cancel /\ late' = late + 1)
    <2>1. CASE Write(r)
        <3>1. late' = late \/ late' = (IF Ours(r) /\ store.cancel THEN late + 1 ELSE late) BY <2>1, WriteDoes
        <3> QED BY <2>1, <3>1, Zenon
    <2>2. CASE ~Write(r)
        BY <2>2, CheckDoes, NextItemDoes, EnsureDoes, SkipDoes, ReportDoes, FinishDoes, CleanDoes DEF Quiet, Execute
    <2> QED BY <2>1, <2>2
<1> QED BY <1>4, <1>5, <1>6

LEMMA NextCancelled ==
    ASSUME IInv, Next
    PROVE  Cancelled'
<1>1. ASSUME Start PROVE Cancelled'
    <2> DEFINE Q == Started(store, starts + 1)
    <2>1. Puts(Q) /\ ~Q.cancel BY <1>1, StartPlays
    <2>2. ~(store.cancel)' BY <2>1, Zenon DEF Puts
    <2>3. late' = late BY <1>1, StartDoes
    <2> QED BY <2>2, <2>3, NobodyCancelled, Zenon
<1>2. ASSUME Restart PROVE Cancelled'
    <2>1. late' = late BY <1>2, RestartDoes
    <2>2. \A s \in Runs : run'[s].at \notin {"create", "write"} BY <1>2, RestartPlays DEF On
    <2> QED BY <2>1, <2>2, NobodyCancelled
<1>3. ASSUME Everyone PROVE Cancelled'
    <2>1. store' = store /\ run' = run /\ late' = late BY <1>3, EveryoneDoes DEF StillStore, Elsewhere
    <2> QED BY <2>1, StillCancelled, Zenon DEF Ours
<1>4. ASSUME NEW c \in Calls, Cancel(c) PROVE Cancelled'
    <2>1. late' = 0 BY <1>4, CancelDoes
    <2>2. late' <= 1 BY <2>1
    <2> QED BY <2>1, <2>2, Zenon DEF Cancelled
<1>5. ASSUME NEW c \in Calls, Requests(c) \/ SetPlan(c), ~Cancel(c) PROVE Cancelled'
    <2>1. run' = run BY <1>5, RequestsStore, SetPlanDoes DEF StillRuns
    <2>2. late' = late
        <3>1. \A package \in Packages : Upload(c, package) => late' = late BY UploadDoes
        <3> QED BY <1>5, <3>1, ClearDoes, SweepDoes, ClearStoreDoes, TakeHashDoes, SetPlanDoes DEF Requests
    <2>3. StillStore \/ store' = None \/ (SetPlan(c) /\ ~StillStore)
        <3>1. \A package \in Packages : Upload(c, package) => StillStore BY UploadDoes
        <3> QED BY <1>5, <3>1, ClearDoes, SweepDoes, ClearStoreDoes, TakeHashDoes DEF Requests, Puts
    <2>4. CASE StillStore BY <2>1, <2>2, <2>4, StillCancelled, Zenon DEF StillStore, Ours
    <2>5. CASE store' = None BY <2>2, <2>5, NobodyCancelled, Zenon DEF Ours
    <2>6. CASE SetPlan(c) /\ ~StillStore
        <3> DEFINE Q == NewPlan(call[c].id, call[c].package, call[c].hash, ActionsFor(call[c].package))
        <3>1. Puts(Q) BY <2>6, SetPlanDoes
        <3>2. ~Q.cancel BY Zenon DEF NewPlan
        <3>3. ~(store.cancel)' BY <3>1, <3>2, Zenon DEF Puts
        <3> QED BY <2>2, <3>3, NobodyCancelled, Zenon
    <2> QED BY <2>3, <2>4, <2>5, <2>6
<1> QED BY <1>1, <1>2, <1>3, <1>4, <1>5, ExecCancelled, NextIs

-----------------------------------------------------------------------------
(* RunningIsRun *)

LEMMA RunningKept ==
    ASSUME IInv, ~broken, Running, (store.id)' = store.id, \A r \in Runs : Act(r) => Act(r)' /\ run'[r].plan = run[r].plan
    PROVE  RunningIsRun'
<1>1. PICK r \in Runs : Act(r) /\ run[r].plan.id = store.id BY DEF IInv, RunningIsRun, Act
<1>2. run'[r].at \notin {"off", "clean"} /\ run'[r].plan.id = (store.id)' BY <1>1 DEF Act
<1> QED BY <1>2 DEF RunningIsRun

LEMMA ExecRunning ==
    ASSUME IInv, NEW r \in Runs, Execute(r)
    PROVE  RunningIsRun'
<1> SUFFICES ASSUME Running', ~broken' PROVE RunningIsRun' BY DEF RunningIsRun
<1>0. ExecStep(r) BY ExecIs
<1>1. \A s \in Runs : Act(s) /\ s # r => Act(s)' /\ run'[s].plan = run[s].plan BY <1>0 DEF ExecStep, Act
<1>2. CASE StillStore
    <2>1. Running /\ ~broken /\ (store.id)' = store.id BY <1>2 DEF StillStore, Running
    <2>2. PICK s \in Runs : Act(s) /\ run[s].plan.id = store.id BY <2>1 DEF IInv, RunningIsRun, Act
    <2>3. CASE s # r
        <3>1. Act(s)' /\ run'[s].plan.id = (store.id)' BY <1>1, <2>1, <2>2, <2>3
        <3> QED BY <3>1 DEF RunningIsRun, Act
    <2>4. CASE s = r
        <3>1. Ours(r) /\ broken # TRUE
            <4>1. broken # TRUE BY <2>1, Zenon
            <4> QED BY <2>1, <2>2, <2>4, <4>1 DEF Ours, Running
        <3>2. ~(Ours(r) /\ Puts(Ended(store, run[r]))) \/ ~Finish(r)
            <4>1. ASSUME Ours(r), Puts(Ended(store, run[r])), Finish(r) PROVE FALSE
                <5>1. store \in StoredPlans BY <4>1, StoreIs DEF Ours, Planned
                <5>2. run[r] \in RunT /\ run[r].plan # None BY <4>1, FinishDoes, RunIs DEF IInv, Ids
                <5>3. store' = Ended(store, run[r]) /\ Ended(store, run[r]).status # "running" BY <4>1, <5>1, <5>2, EndedIs DEF Puts
                <5> QED BY <5>3 DEF Running
            <4> QED BY <4>1
        <3>3. ~Finish(r) /\ ~Clean(r)
            <4>1. Finish(r) => (broken = TRUE \/ ~Ours(r)) \/ (Ours(r) /\ Puts(Ended(store, run[r]))) BY FinishDoes
            <4>2. ~Clean(r) BY <2>2, <2>4, CleanDoes DEF Act
            <4> QED BY <3>1, <3>2, <4>1, <4>2
        <3>4. Act(r)' /\ run'[r].plan = run[r].plan
            <4>1. Check(r) => Act(r)' /\ Moves(r) BY CheckDoes DEF Act
            <4>2. NextItem(r) => Act(r)' /\ Moves(r) BY NextItemDoes DEF Act
            <4>3. Ensure(r) => Act(r)' /\ Moves(r) BY EnsureDoes DEF Act, Fails
            <4>4. Write(r) => Act(r)' /\ Moves(r) BY WriteDoes DEF Act, Fails
            <4>5. Skip(r) \/ Report(r) => Act(r)' /\ Moves(r) BY SkipDoes, ReportDoes DEF Act
            <4> QED BY <3>3, <4>1, <4>2, <4>3, <4>4, <4>5 DEF Execute, Moves
        <3> QED BY <2>1, <2>2, <2>4, <3>4 DEF RunningIsRun, Act
    <2> QED BY <2>3, <2>4
<1>3. ASSUME NEW Q \in StoredPlans, Stores(r, Q) PROVE RunningIsRun'
    <2>1. store' = Q /\ Q.id = run[r].plan.id BY <1>3 DEF Stores, Puts, Like, Ours
    <2>2. Q.status = "running" BY <2>1 DEF Running
    <2>3. run[r].error \in {"none", "failed", "canceled"} BY DEF IInv, Types, RunT
    <2>4. Act(r)' BY <1>3, <2>2, <2>3 DEF Stores
    <2>5. run'[r].plan = run[r].plan BY <1>0, <2>4 DEF ExecStep, On, Act
    <2> QED BY <2>1, <2>4, <2>5 DEF RunningIsRun, Act
<1> QED BY <1>0, <1>2, <1>3 DEF ExecStep

LEMMA NextRunning ==
    ASSUME IInv, Next
    PROVE  RunningIsRun'
<1> SUFFICES ASSUME Running', ~broken' PROVE RunningIsRun' BY DEF RunningIsRun
<1>1. ASSUME Start PROVE RunningIsRun'
    <2> DEFINE n == starts + 1
               Q == Started(store, n)
    <2>1. Q \in StoredPlans /\ Puts(Q) /\ n \in Runs BY <1>1, StartPlays
    <2>2. run'[n] = Execution(Q)
        <3>1. broken' # TRUE BY Zenon
        <3> QED BY <1>1, <3>1, StartDoes
    <2> HIDE DEF Q, n
    <2>3. run'[n].at = "check" /\ run'[n].plan.id = (store.id)' BY <2>1, <2>2, ExecutionIs DEF Puts
    <2> QED BY <2>1, <2>3 DEF RunningIsRun
<1>2. ASSUME Restart PROVE RunningIsRun'
    <2>1. Interrupted /\ store' = disk BY <1>2, RestartDoes DEF Running, Interrupted
    <2>2. starts + 1 \in Runs /\ run'[starts + 1] = Execution(disk) /\ disk \in Held BY <1>2, <2>1, RestartDoes
    <2>3. disk \in StoredPlans BY <2>2, StoreIs, PlannedIs DEF Planned
    <2>4. run'[starts + 1].at = "check" /\ run'[starts + 1].plan.id = (store.id)' BY <2>1, <2>2, <2>3, ExecutionIs
    <2> QED BY <2>2, <2>4 DEF RunningIsRun
<1>3. ASSUME run' = run, StillStore PROVE RunningIsRun'
    <2>1. Running /\ ~broken /\ (store.id)' = store.id BY <1>3 DEF StillStore, Running
    <2> QED BY <1>3, <2>1, RunningKept DEF Act
<1>4. ASSUME NEW c \in Calls, Cancel(c) PROVE RunningIsRun'
    <2>1. store \in Held /\ store.status = "running" /\ Puts(Cancelling(store)) /\ run' = run BY <1>4, CancelDoes DEF StillRuns
    <2>2. store \in StoredPlans /\ store # None BY <2>1, StoreIs, PlannedIs DEF Planned, Held
    <2>3. (store.id)' = store.id BY <2>1, <2>2, CancellingIs DEF Puts, Like
    <2>4. Running /\ ~broken BY <2>1, <2>2 DEF Running, Puts
    <2> QED BY <2>1, <2>3, <2>4, RunningKept DEF Act
<1>5. ASSUME NEW c \in Calls, Requests(c) \/ SetPlan(c), ~Cancel(c) PROVE RunningIsRun'
    <2>1. run' = run BY <1>5, RequestsStore, SetPlanDoes DEF StillRuns
    <2>2. StillStore \/ store' = None \/ (SetPlan(c) /\ ~StillStore)
        <3>1. \A package \in Packages : Upload(c, package) => StillStore BY UploadDoes
        <3> QED BY <1>5, <3>1, ClearDoes, SweepDoes, ClearStoreDoes, TakeHashDoes DEF Requests, Puts
    <2>3. ASSUME SetPlan(c), ~StillStore PROVE FALSE
        <3>1. (store.status)' = "planned" BY <2>3, SetPlanHeld DEF Puts
        <3> QED BY <3>1 DEF Running
    <2>4. store' # None BY DEF Running
    <2> QED BY <1>3, <2>1, <2>2, <2>3, <2>4
<1>6. Everyone => RunningIsRun' BY <1>3, EveryoneDoes DEF Elsewhere
<1> QED BY <1>1, <1>2, <1>4, <1>5, <1>6, ExecRunning, NextIs

-----------------------------------------------------------------------------
(* Stamps *)

TreeStep == (pages' = pages /\ clock' = clock) \/ \E b : Disturbs(b)

LEMMA TreeStamps ==
    ASSUME IInv, TreeStep
    PROVE  /\ \A p \in Paths : pages'[p] # None => pages'[p].stamp \in 1 .. clock'
           /\ \A h \in Hashes \union {None} : Before(h, clock) => Before(h, clock')
           /\ \A P \in InPlay : Missing(P)'
           /\ Before(Hash, clock)
<1>0. Stamps /\ clock \in Nat /\ clock' \in Nat /\ clock <= clock' BY DEF IInv, Types, TreeStep, Disturbs
<1>1. ASSUME NEW p \in Paths
      PROVE  pages'[p] = pages[p] \/ (pages'[p] # None => pages'[p].stamp \in Nat /\ pages'[p].stamp > clock /\ pages'[p].stamp <= clock')
    BY DEF TreeStep, Disturbs
<1>2. \A p \in Paths : pages'[p] # None => pages'[p].stamp \in 1 .. clock' BY <1>0, <1>1 DEF Stamps
<1>3. ASSUME NEW h \in Hashes, Before(h, clock) PROVE Before(h, clock')
    <2>1. \A p \in Paths : h[p] \in Nat BY DEF Hashes
    <2> QED BY <1>0, <1>3, <2>1 DEF Before
<1>4. ASSUME NEW P \in InPlay PROVE Missing(P)'
    <2>1. Missing(P) /\ Before(P.hash, clock) BY <1>0 DEF Stamps
    <2>2. P.hash \in Hashes /\ P.hash # None BY PlannedIs, ImporterAssumption DEF Planned
    <2>3. \A p \in Paths : P.hash[p] \in Nat /\ P.hash[p] <= clock BY <2>1, <2>2 DEF Hashes, Before
    <2>4. ASSUME NEW p \in Paths, pages'[p] # None, pages'[p].stamp = P.hash[p] PROVE pages'[p] = pages[p]
        BY <1>0, <1>1, <2>3, <2>4
    <2> QED BY <2>1, <2>4 DEF Missing
<1>5. Before(Hash, clock) BY <1>0, HashIs DEF Before, Stamps
<1> QED BY <1>2, <1>3, <1>4, <1>5 DEF Before

LEMMA StampsKept ==
    ASSUME IInv, TreeStep,
           \A P \in InPlay' :
             /\ \/ \E P0 \in InPlay : P.hash = P0.hash /\ P.package = P0.package /\ P.actions = P0.actions
                \/ Before(P.hash, clock') /\ Missing(P)'
             /\ P.last \in {P0.last : P0 \in InPlay} \union {run[r].last : r \in Runs} \union {run'[r].last : r \in Runs} \union {None},
           \A r \in Runs : run'[r].last \in {run[s].last : s \in Runs} \union {P.last : P \in InPlay} \union {None, Hash},
           \A c \in Calls : call'[c].hash \in {call[c].hash, None, Hash}
    PROVE  Stamps'
<1>0. Stamps BY DEF IInv
<1>1. /\ \A h \in Hashes \union {None} : Before(h, clock) => Before(h, clock')
      /\ Before(Hash, clock) /\ Hash \in Hashes
    BY TreeStamps, HashIs
<1>2. \A P \in InPlay : P.hash \in Hashes \union {None} /\ P.last \in Hashes \union {None}
    BY PlannedIs DEF Planned, StoredPlans
<1>3. \A r \in Runs : run[r].last \in Hashes \union {None} BY DEF IInv, Types, RunT
<1>4. \A c \in Calls : call[c].hash \in Hashes \union {None} BY DEF IInv, Types, CallT
<1> HIDE DEF Hash
<1>5. Before(None, clock') BY DEF Before
<1>6. \A r \in Runs : Before(run'[r].last, clock') BY <1>0, <1>1, <1>2, <1>3, <1>5 DEF Stamps
<1>7. \A c \in Calls : Before(call'[c].hash, clock') BY <1>0, <1>1, <1>4, <1>5 DEF Stamps
<1>8. \A P \in InPlay' : Before(P.hash, clock') /\ Before(P.last, clock') BY <1>0, <1>1, <1>2, <1>3, <1>5, <1>6 DEF Stamps
<1>9. ASSUME NEW P \in InPlay' PROVE Missing(P)'
    <2>1. \/ \E P0 \in InPlay : P.hash = P0.hash /\ P.package = P0.package /\ P.actions = P0.actions
          \/ Missing(P)'
        OBVIOUS
    <2>2. \A P0 \in InPlay : Missing(P0)' BY TreeStamps
    <2> QED BY <2>1, <2>2 DEF Missing
<1>10. \A p \in Paths : pages'[p] # None => pages'[p].stamp \in 1 .. clock' BY TreeStamps
<1> QED BY <1>6, <1>7, <1>8, <1>9, <1>10 DEF Stamps

LEMMA ExecTree ==
    ASSUME IInv, NEW r \in Runs, Execute(r)
    PROVE  /\ StillTree \/ Disturbs(run[r].plan.attempt)
           /\ TreeStep
           /\ run'[r].last \in {run[r].last, None, Hash}
<1>1. Check(r) \/ NextItem(r) \/ Skip(r) \/ Report(r) \/ Finish(r) \/ Clean(r) => StillTree
    BY CheckDoes, NextItemDoes, SkipDoes, ReportDoes, FinishDoes, CleanDoes DEF Quiet
<1>2. Ensure(r) \/ Write(r) => StillTree \/ Disturbs(run[r].plan.attempt) BY EnsureDoes, WriteDoes
<1>3. Check(r) => run'[r].last = run[r].last BY CheckDoes DEF Same
<1>4. NextItem(r) => run'[r].last \in {run[r].last, Hash}
    <2> HIDE DEF Hash
    <2> QED BY NextItemDoes
<1>5. Ensure(r) \/ Write(r) \/ Skip(r) => run'[r].last = run[r].last BY EnsureDoes, WriteDoes, SkipDoes DEF Same, Fails
<1>6. Report(r) => run'[r].last = Hash
    <2> HIDE DEF Hash
    <2> QED BY ReportDoes
<1>7. Finish(r) \/ Clean(r) => run'[r].last \in {None, run[r].last} BY FinishDoes, CleanDoes, OffIs
<1>8. StillTree \/ Disturbs(run[r].plan.attempt) BY <1>1, <1>2 DEF Execute
<1>9. run'[r].last \in {run[r].last, None, Hash}
    <2> HIDE DEF Hash
    <2> QED BY <1>3, <1>4, <1>5, <1>6, <1>7 DEF Execute
<1> QED BY <1>8, <1>9 DEF TreeStep, StillTree

LEMMA NextStamps ==
    ASSUME IInv, Next
    PROVE  Stamps'
<1>1. ASSUME Start PROVE Stamps'
    <2> DEFINE n == starts + 1
               Q == Started(store, n)
    <2>1. /\ store \in InPlay /\ Q.hash = store.hash /\ Q.package = store.package /\ Q.actions = store.actions
          /\ Q.last = None /\ Q \in StoredPlans /\ InPlay' \subseteq InPlay \union {Q}
        BY <1>1, StartPlays
    <2>2. Execution(Q).last = None BY <2>1, ExecutionIs
    <2> HIDE DEF Q
    <2>3. call' = call /\ TreeStep /\ \A s \in Runs : run'[s] = run[s] \/ run'[s] = Execution(Q)
        BY <1>1, StartDoes DEF StillTree, TreeStep, Q
    <2> QED BY <2>1, <2>2, <2>3, StampsKept
<1>2. ASSUME Restart PROVE Stamps'
    <2>1. Held' \subseteq Held /\ \A s \in Runs : On(s)' => disk \in InPlay /\ run'[s].plan = disk /\ run'[s].last = disk.last
        BY <1>2, RestartPlays, StoreIs
    <2>2. TreeStep /\ (\A c \in Calls : call'[c].hash = None) BY <1>2, RestartDoes, IdleIs DEF TreeStep
    <2>3. \A s \in Runs : ~On(s)' => run'[s].last = None
        <3>1. \A s \in Runs : run'[s] = Off \/ run'[s] = Execution(disk) BY <1>2, RestartDoes
        <3>2. ASSUME NEW s \in Runs, run'[s] = Execution(disk), run'[s] # Off PROVE On(s)'
            <4>1. disk \in StoredPlans BY <1>2, <3>2, RestartDoes, StoreIs, PlannedIs DEF Planned
            <4> QED BY <3>2, <4>1, ExecutionIs DEF On
        <3> QED BY <3>1, <3>2, OffIs
    <2>4. \A P \in InPlay' : P \in InPlay BY <2>1 DEF InPlay
    <2> QED BY <2>1, <2>2, <2>3, <2>4, StampsKept
<1>3. ASSUME StoreStep, TreeStep, \A c \in Calls : call'[c].hash \in {call[c].hash, None, Hash} PROVE Stamps'
    <2>1. \A P \in Held' : \E P0 \in InPlay : Retains(P0, P) BY <1>3 DEF StoreStep, InPlay
    <2>2. run' = run BY <1>3 DEF StoreStep
    <2>3. \A P \in InPlay' : \E P0 \in InPlay : Retains(P0, P)
        BY <2>1, <2>2 DEF InPlay, On, Retains, Like
    <2> QED BY <1>3, <2>2, <2>3, StampsKept DEF Retains, Like
<1>4. Everyone => Stamps' BY <1>3, EveryoneDoes DEF Elsewhere, TreeStep
<1>5. ASSUME NEW c \in Calls, Requests(c) PROVE Stamps'
    <2>1. StoreStep /\ TreeStep BY <1>5, RequestsStore DEF TreeStep, StillTree
    <2>2. call' = call \/ \E x \in CallT : CallMoves(c, x) /\ x.hash \in {call[c].hash, None, Hash}
        <3>1. Cancel(c) => call' = call BY CancelDoes
        <3>2. Clear(c) => \E x \in CallT : CallMoves(c, x) /\ x.hash = None BY ClearDoes
        <3>3. Sweep(c) => \E x \in CallT : CallMoves(c, x) /\ x.hash \in {None, call[c].hash} BY SweepDoes, IdleIs
        <3>4. ClearStore(c) => \E x \in CallT : CallMoves(c, x) /\ x.hash \in {None, call[c].hash} BY ClearStoreDoes, IdleIs
        <3>5. TakeHash(c) => \E x \in CallT : CallMoves(c, x) /\ x.hash = Hash BY TakeHashDoes
        <3>6. \A package \in Packages : Upload(c, package) => call' = call \/ \E x \in CallT : CallMoves(c, x) /\ x.hash = None
            BY UploadDoes
        <3> QED BY <1>5, <3>1, <3>2, <3>3, <3>4, <3>5, <3>6 DEF Requests
    <2>3. \A d \in Calls : call'[d].hash \in {call[d].hash, None, Hash} BY <2>2 DEF CallMoves
    <2> QED BY <1>3, <2>1, <2>3
<1>6. ASSUME NEW c \in Calls, SetPlan(c) PROVE Stamps'
    <2> DEFINE Q == NewPlan(call[c].id, call[c].package, call[c].hash, ActionsFor(call[c].package))
    <2>1. /\ call[c].id \in 1 .. plans /\ call[c].package \in Packages /\ call[c].hash \in Hashes
          /\ CallMoves(c, Idle) /\ StillTree /\ run' = run
        BY <1>6, SetPlanDoes DEF StillRuns
    <2>2. TreeStep BY <2>1 DEF StillTree, TreeStep
    <2>3. \A d \in Calls : call'[d].hash \in {call[d].hash, None, Hash} BY <2>1, IdleIs DEF CallMoves
    <2>4. Q.hash = call[c].hash /\ Q.last = None /\ Q.package = call[c].package /\ Q.actions = ActionsFor(call[c].package)
        <3>1. plans \in Nat BY DEF IInv, Types
        <3>2. call[c].id \in Nat BY <2>1, <3>1
        <3> QED BY <2>1, <3>2, ActionsAre, NewPlanIs
    <2>5. ASSUME NEW P, P = Q PROVE Before(P.hash, clock') /\ Missing(P)'
        <3>1. \A i \in DOMAIN P.package : P.actions[i] = "create" =>
                Target(P.package[i]) = <<>> \/ pages[Target(P.package[i])] = None
            BY <2>1, <2>4, <2>5, ActionsAre
        <3>2. P.hash = call[c].hash BY <2>4, <2>5
        <3>3. Before(call[c].hash, clock) BY DEF IInv, Stamps
        <3> HIDE DEF Q
        <3>4. Missing(P)' BY <2>1, <3>1, ImporterAssumption DEF Missing, StillTree
        <3> QED BY <2>1, <3>2, <3>3, <3>4 DEF StillTree
    <2>7. \A P \in Held' : (\E P0 \in Held : Retains(P0, P)) \/ P = Q BY <1>6, SetPlanHeld
    <2> HIDE DEF Q
    <2>8. \A P \in InPlay' : (\E P0 \in InPlay : Retains(P0, P)) \/ P = Q
        BY <2>1, <2>7 DEF InPlay, On, Retains, Like
    <2>9. \A P \in InPlay' :
            /\ \/ \E P0 \in InPlay : P.hash = P0.hash /\ P.package = P0.package /\ P.actions = P0.actions
               \/ Before(P.hash, clock') /\ Missing(P)'
            /\ P.last \in {P0.last : P0 \in InPlay} \union {None}
        BY <2>4, <2>5, <2>8 DEF Retains, Like
    <2> QED BY <2>1, <2>2, <2>3, <2>9, StampsKept
<1>7. ASSUME NEW r \in Runs, Execute(r) PROVE Stamps'
    <2>1. ExecStep(r) /\ TreeStep /\ run'[r].last \in {run[r].last, None, Hash} BY <1>7, ExecIs, ExecTree
    <2>2. call' = call /\ \A s \in Runs : s # r => run'[s] = run[s] BY <2>1 DEF ExecStep
    <2>3. ASSUME NEW P \in InPlay'
          PROVE  /\ \E P0 \in InPlay : P.hash = P0.hash /\ P.package = P0.package /\ P.actions = P0.actions
                 /\ P.last \in {P0.last : P0 \in InPlay} \union {run[s].last : s \in Runs} \union {run'[s].last : s \in Runs}
                      \union {None}
        <3>1. \E P0 \in InPlay : Like(P0, P) BY <2>1, ExecDescend DEF Descend
        <3>2. P \in InPlay \/ Stores(r, P) BY <2>1, ExecDescend DEF InPlay
        <3>3. Stores(r, P) => P.last \in {run[r].last, run'[r].last, None} BY DEF Stores
        <3> QED BY <3>1, <3>2, <3>3 DEF Like
    <2> QED BY <2>1, <2>2, <2>3, StampsKept
<1> QED BY <1>1, <1>2, <1>4, <1>5, <1>6, <1>7, NextIs

-----------------------------------------------------------------------------
(* Origins *)

Newly == starts' \in Nat /\ starts <= starts' /\
    \A P \in InPlay' : P.attempt = starts + 1 \/ P.attempt = 0 \/ \E P0 \in InPlay : P0.attempt = P.attempt /\ P0.package = P.package

LEMMA OriginsKept ==
    ASSUME IInv, Newly,
           \A p \in Paths : pages'[p] # pages[p] /\ pages'[p] # None =>
             \/ pages'[p].body \in {Text("empty"), Text("typed")}
             \/ \A body : body = pages'[p].body => Origin(body)'
    PROVE  Origins'
<1>0. Origins /\ starts \in Nat BY DEF IInv, Types
<1>1. ASSUME NEW body, Origin(body) PROVE Origin(body)'
    <2>1. CASE body.kind # "imported" BY <1>1, <2>1 DEF Origin
    <2>2. CASE body.kind = "imported"
        <3>1. /\ body.attempt \in 1 .. starts
              /\ body.package \in Packages /\ body.file \in ToSet(body.package)
              /\ body.link = IF body.file.link = None THEN None ELSE Resolve(body.package, body.file, body.file.link)
              /\ \A P \in InPlay : P.attempt = body.attempt => P.package = body.package
            BY <1>1, <2>2 DEF Origin
        <3>2. body.attempt \in 1 .. starts' BY <1>0, <3>1 DEF Newly
        <3>3. body.attempt # 0 /\ body.attempt # starts + 1 BY <1>0, <3>1
        <3>4. \A P \in InPlay' : P.attempt = body.attempt => P.package = body.package BY <3>1, <3>3 DEF Newly
        <3> QED BY <2>2, <3>1, <3>2, <3>4 DEF Origin
    <2> QED BY <2>1, <2>2
<1>2. ASSUME NEW body \in {Text("empty"), Text("typed")} PROVE Origin(body)'
    <2>1. body.kind # "imported" /\ body.link = None BY TextIs DEF Text
    <2> QED BY <2>1 DEF Origin
<1>3. ASSUME NEW p \in Paths, pages'[p] # None, NEW body, body = pages'[p].body PROVE Origin(body)'
    <2>1. CASE pages'[p] = pages[p]
        <3>1. Origin(body) BY <1>0, <1>3, <2>1 DEF Origins, Origin
        <3> QED BY <1>1, <3>1
    <2>2. CASE pages'[p] # pages[p] BY <1>2, <1>3, <2>2
    <2> QED BY <2>1, <2>2
<1> QED BY <1>3 DEF Origins, Origin

LEMMA DescendNewly ==
    ASSUME IInv, Descend, starts' \in {starts, starts + 1}
    PROVE  Newly
<1>1. starts \in Nat BY DEF IInv, Types
<1> QED BY <1>1 DEF Newly, Descend, Like

LEMMA WriteOrigins ==
    ASSUME IInv, NEW r \in Runs, Write(r)
    PROVE  Origins'
<1>0. Ids /\ ExecStep(r) BY ExecIs DEF IInv, Execute
<1>1. Descend /\ starts' = starts BY <1>0, ExecDescend DEF ExecStep
<1>2. run[r].at = "write" /\ On(r) BY WriteDoes DEF On
<1>3. /\ run[r].plan \in InPlay /\ Item(r) \in ToSet(run[r].plan.package)
      /\ run[r].plan.package \in Packages /\ run[r].plan.attempt \in 1 .. starts
    BY <1>2, ItemIs, RunIs DEF InPlay, Planned
<1>4. starts \in Nat BY DEF IInv, Types
<1>5. ASSUME NEW body, body = Imported(r, Item(r)) PROVE Origin(body)'
    <2>1. /\ body.kind = "imported" /\ body.attempt = run[r].plan.attempt
          /\ body.file = Item(r) /\ body.package = run[r].plan.package
          /\ body.link = IF body.file.link = None THEN None ELSE Resolve(body.package, body.file, body.file.link)
        BY <1>2, <1>3, <1>5, ImportedIs
    <2>2. ASSUME NEW P \in InPlay', P.attempt = body.attempt PROVE P.package = body.package
        <3>1. PICK P0 \in InPlay : Like(P0, P) BY <1>1 DEF Descend
        <3>2. P0.attempt = run[r].plan.attempt /\ P0.attempt # 0 BY <1>3, <1>4, <2>1, <2>2, <3>1 DEF Like
        <3>3. SamePlan(P0, run[r].plan) BY <1>0, <1>3, <3>2 DEF Ids
        <3> QED BY <2>1, <3>1, <3>3 DEF SamePlan, Like
    <2> QED BY <1>1, <1>3, <2>1, <2>2 DEF Origin
<1>6. \A p \in Paths : pages'[p] # pages[p] /\ pages'[p] # None => pages'[p].body = Imported(r, Item(r))
    BY WriteDoes DEF StillTree
<1>7. Newly BY <1>1, DescendNewly
<1> QED BY <1>5, <1>6, <1>7, OriginsKept

LEMMA NextOrigins ==
    ASSUME IInv, Next
    PROVE  Origins'
<1>0. starts \in Nat BY DEF IInv, Types
<1>1. ASSUME Start PROVE Origins'
    <2>1. pages' = pages /\ starts' = starts + 1 BY <1>1, StartDoes DEF StillTree
    <2>2. \A P \in InPlay' : P \in InPlay \/ P.attempt = starts + 1 BY <1>1, StartPlays
    <2>3. Newly BY <1>0, <2>1, <2>2 DEF Newly
    <2> QED BY <2>1, <2>3, OriginsKept
<1>2. ASSUME Restart PROVE Origins'
    <2>1. pages' = pages /\ starts' \in {starts, starts + 1} BY <1>2, RestartDoes
    <2>2. Newly BY <1>2, <2>1, RestartIds, DescendNewly
    <2> QED BY <2>1, <2>2, OriginsKept
<1>3. ASSUME Everyone PROVE Origins'
    <2>1. Descend /\ starts' = starts BY <1>3, EveryoneDoes, StoreIds DEF Elsewhere
    <2>2. Newly BY <2>1, DescendNewly
    <2>3. \A p \in Paths : pages'[p] # pages[p] /\ pages'[p] # None => pages'[p].body = Text("typed")
        BY <1>3, EditDoes, DeleteDoes DEF Everyone
    <2> QED BY <2>2, <2>3, OriginsKept
<1>4. ASSUME NEW c \in Calls, Requests(c) \/ SetPlan(c) PROVE Origins'
    <2>1. pages' = pages /\ starts' = starts BY <1>4, RequestsStore, SetPlanDoes DEF StillTree, StillRuns
    <2>2. CASE Requests(c)
        <3>1. Newly BY <2>1, <2>2, RequestsStore, StoreIds, DescendNewly
        <3> QED BY <2>1, <3>1, OriginsKept
    <2>3. CASE SetPlan(c)
        <3>1. Newly BY <1>0, <2>1, <2>3, SetPlanIds DEF Newly
        <3> QED BY <2>1, <3>1, OriginsKept
    <2> QED BY <1>4, <2>2, <2>3
<1>5. ASSUME NEW r \in Runs, Execute(r), ~Write(r) PROVE Origins'
    <2>1. Descend /\ starts' = starts BY <1>5, ExecIs, ExecDescend DEF ExecStep
    <2>2. Newly BY <2>1, DescendNewly
    <2>3. Ensure(r) => \A p \in Paths : pages'[p] # pages[p] => pages'[p].body = Text("empty") BY EnsureDoes DEF StillTree
    <2>4. ~Ensure(r) => pages' = pages
        BY <1>5, CheckDoes, NextItemDoes, SkipDoes, ReportDoes, FinishDoes, CleanDoes DEF Quiet, StillTree, Execute
    <2> QED BY <2>2, <2>3, <2>4, OriginsKept
<1> QED BY <1>1, <1>2, <1>3, <1>4, <1>5, WriteOrigins, NextIs

-----------------------------------------------------------------------------
(* Knowledge *)

\* Only the attempt, the archive and the hash of a plan count.
Akin(P, Q) == P.attempt = Q.attempt /\ P.package = Q.package /\ P.hash = Q.hash

LEMMA AkinKnow ==
    ASSUME NEW tree, NEW others, NEW P, NEW Q, NEW items, NEW last, Akin(P, Q)
    PROVE  /\ Kept(tree, others, P, items) <=> Kept(tree, others, Q, items)
           /\ Sure(tree, others, P, items) <=> Sure(tree, others, Q, items)
           /\ Recalls(tree, others, P, items, last) <=> Recalls(tree, others, Q, items, last)
<1>1. Kept(tree, others, P, items) <=> Kept(tree, others, Q, items) BY DEF Akin, Kept
<1>2. \A p \in Paths : Explained(tree, others, P, items, p) <=> Explained(tree, others, Q, items, p)
    BY DEF Akin, Explained
<1> QED BY <1>1, <1>2 DEF Sure, Recalls, AllExplained, Known, KeptSince

LEMMA SureRecalls ==
    ASSUME NEW tree, NEW others, NEW P, NEW items, NEW last, Sure(tree, others, P, items)
    PROVE  Recalls(tree, others, P, items, last)
BY DEF Sure, Recalls, AllExplained, Known, KeptSince

LEMMA HashStamped ==
    ASSUME IInv
    PROVE  Stamped(pages, Hash)
BY HashIs DEF Stamped

\* An item more, which is not created, or the page of which is there.
LEMMA MoreItems ==
    ASSUME NEW tree, NEW others, NEW P, NEW items \in Seq(Outcomes), NEW o \in Outcomes,
           o = "created" => Target(P.package[Len(items) + 1]) \in {p \in Paths : tree[p] # None},
           Sure(tree, others, P, items)
    PROVE  Sure(tree, others, P, Append(items, o))
<1> DEFINE more == Append(items, o)
<1>1. /\ DOMAIN items = 1 .. Len(items) /\ DOMAIN more = 1 .. (Len(items) + 1) /\ Len(items) \in Nat
      /\ \A i \in DOMAIN items : more[i] = items[i]
      /\ more[Len(items) + 1] = o
    BY AppendIs
<1> HIDE DEF more
<1>2. DOMAIN items \subseteq DOMAIN more BY <1>1
<1>3. AllExplained(tree, others, P, more) BY <1>2 DEF Sure, AllExplained, Explained
<1>4. \A i \in DOMAIN more : i \in DOMAIN items \/ i = Len(items) + 1 BY <1>1
<1>5. Kept(tree, others, P, more) BY <1>1, <1>4 DEF Sure, Kept
<1> QED BY <1>3, <1>5 DEF Sure, more

\* What others do to the tree.
LEMMA DisturbsOthers ==
    ASSUME NEW b, Disturbs(b), NEW P, P.attempt \in 1 .. starts, P.attempt # b, NEW items
    PROVE  /\ Sure(pages, touched, P, items) => Sure(pages', touched', P, items)
           /\ Kept(pages, touched, P, items) => Kept(pages', touched', P, items)
<1>1. ASSUME NEW p \in Paths PROVE pages'[p] = pages[p] \/ <<P.attempt, p>> \in touched' BY DEF Disturbs
<1>2. touched \subseteq touched' BY DEF Disturbs
<1>3. AllExplained(pages, touched, P, items) => AllExplained(pages', touched', P, items)
    BY <1>1, <1>2 DEF AllExplained, Explained
<1>4. Kept(pages, touched, P, items) => Kept(pages', touched', P, items)
    <2> SUFFICES ASSUME Kept(pages, touched, P, items), \A t \in touched' : t[1] # P.attempt
                 PROVE  Kept(pages', touched', P, items)
        BY DEF Kept
    <2>1. \A p \in Paths : pages'[p] = pages[p]
        <3>1. ASSUME NEW p \in Paths, <<P.attempt, p>> \in touched' PROVE FALSE
            <4>1. <<P.attempt, p>>[1] # P.attempt BY <3>1
            <4> QED BY <4>1
        <3> QED BY <1>1, <3>1
    <2>2. \A t \in touched : t[1] # P.attempt BY <1>2
    <2> QED BY <2>1, <2>2 DEF Kept
<1> QED BY <1>3, <1>4 DEF Sure

LEMMA DisturbsRecalls ==
    ASSUME IInv, NEW b, Disturbs(b), NEW P, P.attempt \in 1 .. starts, NEW items, NEW last \in Hashes \union {None},
           Before(last, clock), Recalls(pages, touched, P, items, last)
    PROVE  Recalls(pages', touched', P, items, last)
<1>0. touched \subseteq touched' /\ clock \in Nat BY DEF Disturbs, IInv, Types
<1>1. CASE last = None BY <1>1 DEF Recalls, Known, KeptSince
<1>2. CASE last # None
    <2>1. \A p \in Paths : last[p] \in Nat /\ last[p] <= clock BY <1>2 DEF Hashes, Before
    <2>2. ASSUME NEW p \in Paths, pages'[p] # None, pages'[p].stamp = last[p] PROVE pages'[p] = pages[p]
        BY <1>0, <2>1, <2>2 DEF Disturbs
    <2>3. Known(pages', touched', P, items, last)
        BY <1>0, <2>2 DEF Recalls, Known, Explained
    <2>4. KeptSince(pages', touched', P, items, last)
        <3> SUFFICES ASSUME Stamped(pages', last), \A t \in touched' : t[1] # P.attempt
                     PROVE  Kept(pages', touched', P, items)
            BY DEF KeptSince, Kept
        <3>1. ASSUME NEW p \in Paths, pages'[p] # pages[p] PROVE FALSE
            <4>1. pages'[p] = None BY <2>2, <3>1 DEF Stamped
            <4>2. b = 0 /\ P.attempt # b BY <3>1, <4>1 DEF Disturbs
            <4>3. <<P.attempt, p>> \in touched' BY <3>1, <4>2 DEF Disturbs
            <4>4. <<P.attempt, p>>[1] # P.attempt BY <4>3
            <4> QED BY <4>4
        <3>2. Stamped(pages, last) BY <3>1 DEF Stamped
        <3>3. Kept(pages, touched, P, items) BY <1>2, <3>2 DEF Recalls, KeptSince
        <3>4. \A t \in touched : t[1] # P.attempt BY <1>0
        <3> QED BY <3>1, <3>3, <3>4 DEF Kept
    <2> QED BY <2>3, <2>4 DEF Recalls
<1> QED BY <1>1, <1>2

\* The stale plan check: the tree is as the plan, or the last report, knew it.
LEMMA CheckKnows ==
    ASSUME IInv, NEW r \in Runs, run[r].at = "check", Fresh(r)
    PROVE  Sure(pages, touched, run[r].plan, run[r].items)
<1> DEFINE P == run[r].plan
<1>1. Act(r) /\ On(r) BY DEF Act, On
<1>2. Stage(r) /\ Planned(P) /\ run[r].first \in Nat /\ run[r].items \in Seq(Outcomes) BY <1>1, ActIs, RunIs
<1>3. Recalls(pages, touched, P, run[r].items, run[r].last) BY <1>1 DEF IInv, Knowledge
<1>4. Hash # None /\ Stamped(pages, Hash) BY HashIs, HashStamped
<1>5. CASE run[r].first > 0
    <2>1. run[r].last = Hash BY <1>5 DEF Fresh
    <2>2. Kept(pages, touched, P, run[r].items) BY <1>3, <1>4, <2>1 DEF Recalls, KeptSince
    <2>3. AllExplained(pages, touched, P, run[r].items)
        BY <1>3, <1>4, <2>1 DEF Recalls, Known, AllExplained, Stamped
    <2> QED BY <2>2, <2>3 DEF Sure
<1>6. CASE ~(run[r].first > 0)
    <2>1. P.hash = Hash BY <1>6 DEF Fresh
    <2>2. Len(run[r].items) = 0
        <3>1. run[r].first = 0 BY <1>2, <1>6
        <3>2. Len(run[r].items) = run[r].index + 0 /\ run[r].index = run[r].first BY <1>2 DEF Stage
        <3> QED BY <3>1, <3>2
    <2>3. DOMAIN run[r].items = {} BY <1>2, <2>2
    <2>4. AllExplained(pages, touched, P, run[r].items) BY <1>4, <2>1 DEF AllExplained, Explained, Stamped
    <2>5. Kept(pages, touched, P, run[r].items) BY <1>4, <2>1, <2>3 DEF Kept, Stamped
    <2> QED BY <2>4, <2>5 DEF Sure
<1> QED BY <1>5, <1>6

\* What the execution itself does to the tree.
LEMMA EnsureKnows ==
    ASSUME IInv, NEW r \in Runs, Ensure(r)
    PROVE  Sure(pages', touched', run[r].plan, run'[r].items) /\ run'[r].error = run[r].error
<1> DEFINE P == run[r].plan
<1>1. run[r].at = "create" /\ Act(r) /\ On(r) BY EnsureDoes DEF Act, On
<1>2. run[r].error = "none" BY <1>1, ActIs DEF Stage
<1>3. Sure(pages, touched, P, run[r].items) BY <1>1, <1>2 DEF IInv, Knowledge, Past
<1>4. CASE Fails(r) /\ StillTree
    <2>1. run[r].items \in Seq(Outcomes) /\ run'[r].items = Append(run[r].items, "error") /\ run'[r].error = run[r].error
        BY <1>1, <1>4, RunIs DEF Fails
    <2>2. Sure(pages, touched, P, Append(run[r].items, "error")) BY <1>3, <2>1, MoreItems DEF Outcomes
    <2> QED BY <1>4, <2>1, <2>2 DEF StillTree
<1>5. CASE /\ Same(r) /\ run'[r].error = run[r].error /\ Disturbs(P.attempt)
           /\ \A p \in Paths : pages'[p] # pages[p] => pages'[p] # None /\ pages'[p].body = Text("empty")
    <2>1. run'[r].items = run[r].items /\ touched \subseteq touched' BY <1>5 DEF Same, Disturbs
    <2>2. Text("empty").kind = "empty" BY DEF Text
    <2>3. AllExplained(pages', touched', P, run[r].items)
        BY <1>3, <1>5, <2>1, <2>2 DEF Sure, AllExplained, Explained
    <2>4. \A p \in Paths : pages[p] # None => pages'[p] # None BY <1>5
    <2>5. Kept(pages', touched', P, run[r].items) BY <1>3, <2>1, <2>4 DEF Sure, Kept
    <2> QED BY <1>5, <2>1, <2>3, <2>5 DEF Sure
<1> QED BY <1>4, <1>5, EnsureDoes

LEMMA WriteKnows ==
    ASSUME IInv, NEW r \in Runs, Write(r)
    PROVE  Sure(pages', touched', run[r].plan, run'[r].items) /\ run'[r].error = run[r].error
<1> DEFINE P == run[r].plan
           p == Target(Item(r))
<1>1. run[r].at = "write" /\ Act(r) /\ On(r) BY WriteDoes DEF Act, On
<1>2. run[r].error = "none" /\ Len(run[r].items) = run[r].index + 0 BY <1>1, ActIs DEF Stage
<1>3. Sure(pages, touched, P, run[r].items) /\ run[r].items \in Seq(Outcomes) /\ run[r].index \in Nat
    BY <1>1, <1>2, RunIs DEF IInv, Knowledge, Past
<1>4. CASE Fails(r) /\ StillTree
    <2>1. run'[r].items = Append(run[r].items, "error") /\ run'[r].error = run[r].error BY <1>4 DEF Fails
    <2>2. Sure(pages, touched, P, Append(run[r].items, "error")) BY <1>3, <2>1, MoreItems DEF Outcomes
    <2> QED BY <1>4, <2>1, <2>2 DEF StillTree
<1>5. CASE /\ run'[r].error = run[r].error /\ run'[r].items = Append(run[r].items, "created")
           /\ p \in Paths /\ Disturbs(P.attempt)
           /\ \A q \in Paths : pages'[q] # pages[q] => q = p
           /\ pages'[p] # None /\ pages'[p].body = Imported(r, Item(r))
    <2> DEFINE n == run[r].index + 1
               more == Append(run[r].items, "created")
    <2>1. /\ Item(r) = P.package[n] /\ Imported(r, Item(r)).kind = "imported" /\ Imported(r, Item(r)).attempt = P.attempt
          /\ Imported(r, Item(r)).file = P.package[n]
        BY <1>1, ItemIs, ImportedIs
    <2>2. /\ DOMAIN run[r].items = 1 .. run[r].index /\ DOMAIN more = 1 .. n /\ n \in 1 .. n
          /\ \A i \in DOMAIN run[r].items : more[i] = run[r].items[i]
        BY <1>2, <1>3
    <2>3. touched \subseteq touched' BY <1>5 DEF Disturbs
    <2> HIDE DEF n, more, p
    <2>4. DOMAIN run[r].items \subseteq DOMAIN more /\ n \in DOMAIN more BY <1>3, <2>2 DEF n
    <2>5. ASSUME NEW q \in Paths, pages'[q] # None PROVE Explained(pages', touched', P, more, q)
        <3>1. CASE q = p BY <1>5, <2>1, <2>4, <3>1 DEF Explained, p
        <3>2. CASE q # p
            <4>1. pages'[q] = pages[q] BY <1>5, <3>2 DEF p
            <4>2. Explained(pages, touched, P, run[r].items, q) BY <1>3, <2>5, <4>1 DEF Sure, AllExplained
            <4> QED BY <2>3, <2>4, <4>1, <4>2 DEF Explained
        <3> QED BY <3>1, <3>2
    <2>6. \A q \in Paths : pages[q] # None => pages'[q] # None BY <1>5 DEF p
    <2>7. ASSUME \A t \in touched' : t[1] # P.attempt
          PROVE  /\ \A q \in Paths : P.hash[q] # 0 => pages'[q] # None
                 /\ \A i \in DOMAIN more : more[i] = "created" => Target(P.package[i]) \in {q \in Paths : pages'[q] # None}
        <3>1. /\ \A q \in Paths : P.hash[q] # 0 => pages[q] # None
              /\ \A i \in DOMAIN run[r].items : run[r].items[i] = "created" => Target(P.package[i]) \in {q \in Paths : pages[q] # None}
            BY <1>3, <2>3, <2>7 DEF Sure, Kept
        <3>2. Target(P.package[n]) \in {q \in Paths : pages'[q] # None} BY <1>5, <2>1 DEF p
        <3>3. \A i \in DOMAIN more : i \in DOMAIN run[r].items \/ i = n BY <1>3, <2>2 DEF n
        <3> QED BY <2>2, <2>6, <3>1, <3>2, <3>3
    <2>8. Sure(pages', touched', P, more) BY <2>5, <2>7 DEF Sure, AllExplained, Kept
    <2> QED BY <1>5, <2>8 DEF more
<1> QED BY <1>4, <1>5, WriteDoes

LEMMA ExecKnows ==
    ASSUME IInv, NEW r \in Runs, Execute(r)
    PROVE  /\ Act(r)' => Recalls(pages', touched', run[r].plan, run'[r].items, run'[r].last)
           /\ Past(r)' => Sure(pages', touched', run[r].plan, run'[r].items)
<1> DEFINE P == run[r].plan
<1> SUFFICES ASSUME Act(r)'
             PROVE  /\ Recalls(pages', touched', P, run'[r].items, run'[r].last)
                    /\ Past(r)' => Sure(pages', touched', P, run'[r].items)
    BY DEF Past
<1>1. Act(r) BY ExecIs, ExecDescend
<1>2. Recalls(pages, touched, P, run[r].items, run[r].last) BY <1>1 DEF IInv, Knowledge
<1>3. Past(r) => Sure(pages, touched, P, run[r].items) BY DEF IInv, Knowledge
<1>4. Stage(r) BY <1>1, ActIs
<1>5. ASSUME Sure(pages', touched', P, run'[r].items)
      PROVE  /\ Recalls(pages', touched', P, run'[r].items, run'[r].last)
             /\ Past(r)' => Sure(pages', touched', P, run'[r].items)
    BY <1>5, SureRecalls
<1>6. CASE Check(r)
    <2>1. run[r].at = "check" /\ Same(r) /\ pages' = pages /\ touched' = touched BY <1>6, CheckDoes DEF Quiet, StillTree
    <2>2. CASE Fresh(r)
        <3>1. Sure(pages', touched', P, run'[r].items) BY <2>1, <2>2, CheckKnows DEF Same
        <3> QED BY <1>5, <3>1
    <2>3. CASE run'[r].error = "failed" BY <1>2, <2>1, <2>3 DEF Same, Past
    <2> QED BY <1>6, <2>2, <2>3, CheckDoes
<1>7. CASE NextItem(r)
    <2>1. /\ run[r].at = "next" /\ run'[r].items = run[r].items /\ pages' = pages /\ touched' = touched
        BY <1>7, NextItemDoes DEF Quiet, StillTree
    <2>2. Past(r) BY <1>1, <1>4, <2>1 DEF Past, Stage
    <2> QED BY <1>3, <1>5, <2>1, <2>2
<1>8. CASE Ensure(r) BY <1>5, <1>8, EnsureKnows
<1>9. CASE Write(r) BY <1>5, <1>9, WriteKnows
<1>10. CASE Skip(r)
    <2>1. /\ run[r].at = "skip" /\ run'[r].items = Append(run[r].items, "skipped") /\ pages' = pages /\ touched' = touched
        BY <1>10, SkipDoes DEF Quiet, StillTree
    <2>2. Past(r) /\ run[r].items \in Seq(Outcomes) BY <1>1, <1>4, <2>1, RunIs, ActIs DEF Past, Stage
    <2>3. Sure(pages', touched', P, run'[r].items) BY <1>3, <2>1, <2>2, MoreItems DEF Outcomes
    <2> QED BY <1>5, <2>3
<1>11. CASE Report(r)
    <2>1. /\ run[r].at = "report" /\ run'[r].items = run[r].items /\ pages' = pages /\ touched' = touched
        BY <1>11, ReportDoes DEF Quiet, StillTree
    <2>2. Past(r) BY <1>1, <1>4, <2>1 DEF Past, Stage
    <2> QED BY <1>3, <1>5, <2>1, <2>2
<1>12. ~Finish(r) /\ ~Clean(r) BY FinishDoes, CleanDoes, OffIs DEF Act
<1> QED BY <1>6, <1>7, <1>8, <1>9, <1>10, <1>11, <1>12 DEF Execute

LEMMA RecallTypes ==
    ASSUME IInv
    PROVE  /\ \A P \in InPlay : P.last \in Hashes \union {None} /\ Before(P.last, clock)
           /\ \A r \in Runs : run[r].last \in Hashes \union {None} /\ Before(run[r].last, clock)
<1>1. \A P \in InPlay : P.last \in Hashes \union {None} BY PlannedIs DEF Planned, StoredPlans
<1>2. \A r \in Runs : run[r].last \in Hashes \union {None} BY DEF IInv, Types, RunT
<1> QED BY <1>1, <1>2 DEF IInv, Stamps

\* A step that leaves the plan P, or an execution of it, alone.
LEMMA OthersKnow ==
    ASSUME IInv, NEW b, StillTree \/ Disturbs(b), NEW P \in InPlay, P.attempt # 0, NEW items, NEW last \in Hashes \union {None},
           Before(last, clock)
    PROVE  /\ Recalls(pages, touched, P, items, last) => Recalls(pages', touched', P, items, last)
           /\ P.attempt # b /\ Kept(pages, touched, P, items) => Kept(pages', touched', P, items)
           /\ P.attempt # b /\ Sure(pages, touched, P, items) => Sure(pages', touched', P, items)
<1>1. CASE StillTree BY <1>1 DEF StillTree
<1>2. CASE Disturbs(b)
    <2>1. P.attempt \in 1 .. starts
        <3>1. P.attempt \in 0 .. starts /\ starts \in Nat BY PlannedIs DEF Planned, IInv, Types
        <3> QED BY <3>1
    <2>2. Recalls(pages, touched, P, items, last) => Recalls(pages', touched', P, items, last)
        BY <1>2, <2>1, DisturbsRecalls
    <2> QED BY <1>2, <2>1, <2>2, DisturbsOthers
<1> QED BY <1>1, <1>2

LEMMA ExecKnowledge ==
    ASSUME IInv, NEW r \in Runs, Execute(r)
    PROVE  Knowledge'
<1> DEFINE b == run[r].plan.attempt
<1>0. Ids /\ Knowledge /\ ExecStep(r) /\ (StillTree \/ Disturbs(b)) BY ExecIs, ExecTree DEF IInv
<1>1. ASSUME NEW s \in Runs
      PROVE  /\ Act(s)' => Recalls(pages', touched', run'[s].plan, run'[s].items, run'[s].last)
             /\ Past(s)' => Sure(pages', touched', run'[s].plan, run'[s].items)
    <2>1. CASE s = r
        <3>1. Act(r)' => run'[r].plan = run[r].plan BY <1>0 DEF ExecStep, Act, On
        <3>2. Past(r)' => Act(r)' BY DEF Past
        <3> QED BY <2>1, <3>1, <3>2, ExecKnows
    <2>2. CASE s # r
        <3>1. run'[s] = run[s] BY <1>0, <2>2 DEF ExecStep
        <3> SUFFICES ASSUME Act(s)
                     PROVE  /\ Recalls(pages', touched', run[s].plan, run[s].items, run[s].last)
                            /\ Past(s) => Sure(pages', touched', run[s].plan, run[s].items)
            BY <3>1 DEF Act, Past
        <3>2. run[s].plan \in InPlay /\ On(s) /\ run[s].plan.attempt # 0 BY <1>0 DEF InPlay, Act, On, Ids
        <3>3. run[s].last \in Hashes \union {None} /\ Before(run[s].last, clock) BY RecallTypes
        <3>4. Recalls(pages, touched, run[s].plan, run[s].items, run[s].last) BY <1>0 DEF Knowledge
        <3>5. Recalls(pages', touched', run[s].plan, run[s].items, run[s].last) BY <1>0, <3>2, <3>3, <3>4, OthersKnow
        <3>6. ASSUME Past(s) PROVE Sure(pages', touched', run[s].plan, run[s].items)
            <4>1. CASE StillTree BY <1>0, <3>6, <4>1 DEF Knowledge, StillTree
            <4>2. CASE ~StillTree
                <5>1. Act(r) BY <4>2, CleanDoes, <1>0 , CheckDoes, NextItemDoes, EnsureDoes, WriteDoes, SkipDoes, ReportDoes, FinishDoes DEF Act, Execute
                <5>2. run[r].plan \in InPlay BY <5>1 DEF InPlay, Act, On
                <5>3. run[s].plan.attempt # b BY <1>0, <2>2, <3>2, <5>1, <5>2 DEF Ids
                <5> QED BY <1>0, <3>2, <3>3, <3>6, <5>3, OthersKnow DEF Knowledge
            <4> QED BY <4>1, <4>2
        <3> QED BY <3>5, <3>6
    <2> QED BY <2>1, <2>2
<1>2. ASSUME NEW P \in Held', P.status \in {"running", "completed"}
      PROVE  /\ P.status = "running" => Recalls(pages', touched', P, P.items, P.last)
             /\ P.status = "completed" => Kept(pages', touched', P, P.items)
    <2>1. CASE P \in Held
        <3>1. P \in InPlay /\ P.attempt # 0 BY <1>0, <1>2, <2>1, StoreIs DEF Ids
        <3>2. P.last \in Hashes \union {None} /\ Before(P.last, clock) BY <3>1, RecallTypes
        <3>3. P.status = "running" => Recalls(pages', touched', P, P.items, P.last)
            BY <1>0, <2>1, <3>1, <3>2, OthersKnow DEF Knowledge
        <3>4. ASSUME P.status = "completed" PROVE Kept(pages', touched', P, P.items)
            <4>1. CASE StillTree BY <1>0, <2>1, <3>4, <4>1 DEF Knowledge, StillTree
            <4>2. CASE ~StillTree
                <5>1. Act(r) BY <4>2, CleanDoes, <1>0 , CheckDoes, NextItemDoes, EnsureDoes, WriteDoes, SkipDoes, ReportDoes, FinishDoes DEF Act, Execute
                <5>2. run[r].plan \in InPlay BY <5>1 DEF InPlay, Act, On
                <5>3. P.attempt # b
                    <6>1. P.attempt = b => P.id = run[r].plan.id BY <1>0, <3>1, <5>2 DEF Ids
                    <6>2. P.id = run[r].plan.id => P.status = "running" BY <2>1, <5>1, OursIs
                    <6> QED BY <3>4, <6>1, <6>2
                <5> QED BY <1>0, <2>1, <3>1, <3>2, <3>4, <5>3, OthersKnow DEF Knowledge
            <4> QED BY <4>1, <4>2
        <3> QED BY <3>3, <3>4
    <2>2. CASE Stores(r, P)
        <3>1. store \in Held /\ store.id = run[r].plan.id /\ Act(r) /\ Like(store, P) BY <2>2 DEF Stores, Ours
        <3>2. store.status = "running" /\ Akin(run[r].plan, P) BY <3>1, OursIs DEF Akin, Like
        <3>3. CASE Act(r)' /\ P.status = store.status /\ P.items = run'[r].items /\ P.last = run'[r].last
            <4>1. Recalls(pages', touched', run[r].plan, P.items, P.last) BY <3>3, ExecKnows
            <4> QED BY <3>2, <3>3, <4>1, AkinKnow
        <3>4. CASE /\ run[r].at = "finish" /\ P.status = (IF run[r].error = "none" THEN "completed" ELSE run[r].error)
                   /\ P.items = (IF run[r].error = "failed" THEN <<>> ELSE run[r].items)
            <4>1. run[r].error \in {"none", "failed", "canceled"} BY DEF IInv, Types, RunT
            <4>2. P.status = "completed" /\ run[r].error = "none" BY <1>2, <3>4, <4>1
            <4>3. Sure(pages, touched, run[r].plan, run[r].items) BY <1>0, <3>1, <3>4, <4>2 DEF Knowledge, Past
            <4>6. P.items = run[r].items BY <3>4, <4>2
            <4>4. Kept(pages, touched, P, P.items) BY <3>2, <4>3, <4>6, AkinKnow DEF Sure
            <4>5. StillTree
                <5>1. ~Ensure(r) /\ ~Write(r) BY <3>4, EnsureDoes, WriteDoes
                <5> QED BY <5>1, CheckDoes, NextItemDoes, SkipDoes, ReportDoes, FinishDoes, CleanDoes DEF Quiet, Execute
            <4> QED BY <4>2, <4>4, <4>5 DEF StillTree
        <3> QED BY <2>2, <3>3, <3>4 DEF Stores
    <2> QED BY <1>0, <2>1, <2>2, ExecDescend
<1> QED BY <1>1, <1>2 DEF Knowledge

\* The restart forgets only the changes that the hash of the file has missed.
LEMMA RestartKnows ==
    ASSUME IInv, Restart, disk \in Held
    PROVE  /\ disk.status = "running" => Recalls(pages, touched', disk, disk.items, disk.last)
           /\ disk.status = "completed" => Kept(pages, touched', disk, disk.items)
<1>1. Knowledge /\ touched \in SUBSET ((1 .. starts) \X Paths) BY DEF IInv, Types
<1>2. disk # None BY DEF Held
<1>3. CASE disk.status = "completed"
    <2>1. touched' = touched BY <1>3, RestartDoes DEF Interrupted
    <2> QED BY <1>1, <1>3, <2>1 DEF Knowledge
<1>4. CASE disk.status = "running"
    <2> DEFINE a == disk.attempt
               last == disk.last
    <2>1. touched' = {t \in touched : t[1] = a => last # None /\ last[t[2]] = Hash[t[2]]}
        BY <1>2, <1>4, RestartDoes DEF Interrupted
    <2>2. Recalls(pages, touched, disk, disk.items, last) BY <1>1, <1>4 DEF Knowledge
    <2>3. ASSUME last # None, NEW p \in Paths, pages[p] # None, pages[p].stamp = last[p]
          PROVE  Explained(pages, touched', disk, disk.items, p)
        <3>1. Explained(pages, touched, disk, disk.items, p) BY <2>2, <2>3 DEF Recalls, Known
        <3>2. Hash[p] = last[p] BY <2>3, HashIs
        <3>3. <<a, p>> \in touched => <<a, p>> \in touched' BY <2>1, <2>3, <3>2
        <3> QED BY <3>1, <3>3 DEF Explained
    <2>4. ASSUME last # None, Stamped(pages, last) PROVE Kept(pages, touched', disk, disk.items)
        <3>1. Kept(pages, touched, disk, disk.items) BY <2>2, <2>4 DEF Recalls, KeptSince
        <3>2. \A p \in Paths : last[p] = Hash[p] BY <2>4, HashIs DEF Stamped
        <3>3. \A t \in touched : t[2] \in Paths BY <1>1
        <3>4. \A t \in touched : t \in touched' BY <2>1, <2>4, <3>2, <3>3
        <3> QED BY <3>1, <3>4 DEF Kept
    <2>5. Known(pages, touched', disk, disk.items, last) BY <2>3 DEF Known
    <2>6. KeptSince(pages, touched', disk, disk.items, last) BY <2>4 DEF KeptSince
    <2> QED BY <1>4, <2>5, <2>6 DEF Recalls
<1> QED BY <1>3, <1>4

\* Requests, and everyone else, who may only add to what others touched.
LEMMA StoreKnowledge ==
    ASSUME IInv, run' = run, StillTree \/ Disturbs(0),
           \A P \in Held' : P.status = "planned" \/ \E P0 \in Held : Retains(P0, P)
    PROVE  Knowledge'
<1>0. Ids /\ Knowledge BY DEF IInv
<1>1. ASSUME NEW P \in InPlay, P.attempt # 0, NEW items, NEW last \in Hashes \union {None}, Before(last, clock)
      PROVE  /\ Recalls(pages, touched, P, items, last) => Recalls(pages', touched', P, items, last)
             /\ Kept(pages, touched, P, items) => Kept(pages', touched', P, items)
             /\ Sure(pages, touched, P, items) => Sure(pages', touched', P, items)
    <2>1. P.attempt # 0 BY <1>1
    <2> QED BY <1>1, <2>1, OthersKnow
<1>2. ASSUME NEW r \in Runs, Act(r)'
      PROVE  /\ Recalls(pages', touched', run'[r].plan, run'[r].items, run'[r].last)
             /\ Past(r)' => Sure(pages', touched', run'[r].plan, run'[r].items)
    <2>1. Act(r) /\ run'[r] = run[r] /\ (Past(r)' => Past(r)) BY <1>2 DEF Act, Past
    <2>2. On(r) /\ run[r].plan \in InPlay BY <2>1 DEF Act, On, InPlay
    <2>3. run[r].plan.attempt # 0 BY <1>0, <2>2 DEF Ids
    <2>4. run[r].last \in Hashes \union {None} /\ Before(run[r].last, clock) BY RecallTypes
    <2> QED BY <1>0, <1>1, <2>1, <2>2, <2>3, <2>4 DEF Knowledge
<1>3. ASSUME NEW P \in Held', P.status \in {"running", "completed"}
      PROVE  /\ P.status = "running" => Recalls(pages', touched', P, P.items, P.last)
             /\ P.status = "completed" => Kept(pages', touched', P, P.items)
    <2>1. PICK P0 \in Held : Retains(P0, P) BY <1>3
    <2>2. /\ P0.status = P.status /\ P0.items = P.items /\ P0.last = P.last /\ Akin(P0, P)
        BY <2>1 DEF Retains, Like, Akin
    <2>3. P0 \in InPlay /\ P0.attempt # 0 BY <1>0, <1>3, <2>2, StoreIs DEF Ids
    <2>4. P0.last \in Hashes \union {None} /\ Before(P0.last, clock) BY <2>3, RecallTypes
    <2>5. /\ P0.status = "running" => Recalls(pages, touched, P0, P0.items, P0.last)
          /\ P0.status = "completed" => Kept(pages, touched, P0, P0.items)
        BY <1>0 DEF Knowledge
    <2>6. /\ P0.status = "running" => Recalls(pages', touched', P0, P0.items, P0.last)
          /\ P0.status = "completed" => Kept(pages', touched', P0, P0.items)
        BY <1>1, <2>3, <2>4, <2>5
    <2> QED BY <2>2, <2>6, AkinKnow
<1>4. ASSUME NEW r \in Runs, Past(r)' PROVE Act(r)' BY <1>4 DEF Past
<1> QED BY <1>2, <1>3, <1>4 DEF Knowledge

LEMMA NextKnowledge ==
    ASSUME IInv, Next
    PROVE  Knowledge'
<1>0. Ids /\ Knowledge BY DEF IInv
<1>1. ASSUME Start PROVE Knowledge'
    <2> DEFINE n == starts + 1
               Q == Started(store, n)
    <2>1. /\ Q.items = <<>> /\ Q.last = None /\ Q.status = "running" /\ Q \in StoredPlans /\ Held' \subseteq Held \union {Q}
          /\ \A s \in Runs : On(s)' => run'[s] = Execution(Q) \/ (On(s) /\ run'[s] = run[s])
        BY <1>1, StartPlays
    <2>2. pages' = pages /\ touched' = touched BY <1>1, StartDoes DEF StillTree
    <2>3. Execution(Q).plan = Q /\ Execution(Q).last = None /\ Execution(Q).at = "check" BY <2>1, ExecutionIs
    <2> HIDE DEF Q
    <2>4. \A items : Recalls(pages', touched', Q, items, None) BY DEF Recalls, Known, KeptSince
    <2>5. ASSUME NEW s \in Runs, Act(s)'
          PROVE  /\ Recalls(pages', touched', run'[s].plan, run'[s].items, run'[s].last)
                 /\ Past(s)' => Sure(pages', touched', run'[s].plan, run'[s].items)
        <3>1. CASE run'[s] = Execution(Q) BY <2>3, <2>4, <3>1 DEF Past
        <3>2. CASE run'[s] = run[s]
            <4>1. Act(s) /\ (Past(s)' => Past(s)) BY <2>5, <3>2 DEF Act, Past
            <4> QED BY <1>0, <2>2, <3>2, <4>1 DEF Knowledge
        <3>3. On(s)' BY <2>5 DEF Act, On
        <3> QED BY <2>1, <3>1, <3>2, <3>3
    <2>6. ASSUME NEW P \in Held'
          PROVE  /\ P.status = "running" => Recalls(pages', touched', P, P.items, P.last)
                 /\ P.status = "completed" => Kept(pages', touched', P, P.items)
        <3>1. CASE P \in Held BY <1>0, <2>2, <3>1 DEF Knowledge
        <3>2. CASE P = Q BY <2>1, <2>4, <3>2
        <3> QED BY <2>1, <3>1, <3>2
    <2>7. ASSUME NEW s \in Runs, Past(s)' PROVE Act(s)' BY <2>7 DEF Past
    <2> QED BY <2>5, <2>6, <2>7 DEF Knowledge
<1>2. ASSUME Restart PROVE Knowledge'
    <2>1. Held' \subseteq Held /\ Held' \subseteq {disk} BY <1>2, RestartPlays
    <2>2. pages' = pages BY <1>2, RestartDoes
    <2>3. ASSUME NEW s \in Runs, Act(s)'
          PROVE  Recalls(pages', touched', run'[s].plan, run'[s].items, run'[s].last) /\ ~Past(s)'
        <3>1. /\ disk \in Held /\ disk.status = "running" /\ run'[s].at = "check" /\ run'[s].plan = disk
              /\ run'[s].items = disk.items /\ run'[s].last = disk.last
            BY <1>2, <2>3, RestartPlays DEF Act, On
        <3> QED BY <1>2, <2>2, <3>1, RestartKnows DEF Past
    <2>4. ASSUME NEW P \in Held'
          PROVE  /\ P.status = "running" => Recalls(pages', touched', P, P.items, P.last)
                 /\ P.status = "completed" => Kept(pages', touched', P, P.items)
        <3>1. P = disk /\ disk \in Held BY <2>1
        <3> QED BY <1>2, <2>2, <3>1, RestartKnows
    <2>5. ASSUME NEW s \in Runs, Past(s)' PROVE Act(s)' BY <2>5 DEF Past
    <2> QED BY <2>3, <2>4, <2>5 DEF Knowledge
<1>3. Everyone => Knowledge' BY EveryoneDoes, StoreKnowledge DEF Elsewhere, StoreStep
<1>4. \A c \in Calls : Requests(c) => Knowledge' BY RequestsStore, StoreKnowledge DEF StillRuns, StoreStep
<1>5. ASSUME NEW c \in Calls, SetPlan(c) PROVE Knowledge'
    <2>1. run' = run /\ StillTree BY <1>5, SetPlanDoes DEF StillRuns
    <2>2. \A P \in Held' : P.status = "planned" \/ \E P0 \in Held : Retains(P0, P) BY <1>5, SetPlanHeld
    <2> QED BY <2>1, <2>2, StoreKnowledge
<1> QED BY <1>1, <1>2, <1>3, <1>4, <1>5, ExecKnowledge, NextIs

-----------------------------------------------------------------------------
(* The invariant *)

LEMMA InitInv == Init => IInv
<1> SUFFICES ASSUME Init PROVE IInv OBVIOUS
<1>1. /\ pages = [p \in Paths |-> None] /\ store = None /\ disk = None /\ broken = FALSE /\ files = {}
      /\ run = [r \in Runs |-> Off] /\ call = [c \in Calls |-> Idle] /\ clock = 0 /\ starts = 0 /\ plans = 0
      /\ wrote = {} /\ touched = {} /\ late = 0
    BY DEF Init
<1>2. Off \in RunT /\ Off.at = "off" /\ Off.last = None BY OffIs
<1>3. Idle \in CallT /\ Idle.at = "idle" /\ Idle.id = 0 /\ Idle.hash = None BY IdleIs
<1>4. /\ \A r \in Runs : run[r] = Off
      /\ \A c \in Calls : call[c] = Idle
      /\ \A p \in Paths : pages[p] = None
    BY <1>1
<1>5. \A r \in Runs : ~On(r) /\ ~Act(r) /\ ~Past(r) BY <1>2, <1>4 DEF On, Act, Past
<1>6. Held = {} /\ InPlay = {} BY <1>1, <1>5 DEF Held, InPlay
<1>7. Types
    <2>1. MaxRuns \in Nat /\ MaxPlans \in Nat BY ImporterAssumption
    <2>2. pages \in [Paths -> LivePages \union {None}] BY <1>1
    <2>3. run \in [Runs -> RunT] BY <1>1, <1>2
    <2>4. call \in [Calls -> CallT] BY <1>1, <1>3
    <2>5. clock \in Nat /\ starts \in 0 .. MaxRuns /\ plans \in 0 .. MaxPlans /\ late \in Nat BY <1>1, <2>1
    <2> QED BY <1>1, <2>2, <2>3, <2>4, <2>5 DEF Types
<1>8. Ids BY <1>1, <1>5, <1>6 DEF Ids
<1>9. CallIds BY <1>1, <1>3, <1>4, <1>6 DEF CallIds
<1>10. Sizes /\ Records /\ Workspaces BY <1>1, <1>5, <1>6 DEF Sizes, Records, Workspaces
<1>11. Cancelled /\ RunningIsRun BY <1>1, <1>2, <1>4 DEF Cancelled, RunningIsRun, Running
<1>12. Stamps /\ Knowledge /\ Origins
    <2>1. \A r \in Runs : Before(run[r].last, clock) BY <1>2, <1>4 DEF Before
    <2>2. \A c \in Calls : Before(call[c].hash, clock) BY <1>3, <1>4 DEF Before
    <2> QED BY <1>4, <1>5, <1>6, <2>1, <2>2 DEF Stamps, Knowledge, Origins
<1> QED BY <1>7, <1>8, <1>9, <1>10, <1>11, <1>12 DEF IInv

LEMMA StutterInv ==
    ASSUME IInv, UNCHANGED vars
    PROVE  IInv'
<1>1. /\ pages' = pages /\ store' = store /\ disk' = disk /\ broken' = broken /\ files' = files /\ run' = run
      /\ call' = call /\ clock' = clock /\ starts' = starts /\ plans' = plans /\ wrote' = wrote
      /\ touched' = touched /\ raced' = raced /\ late' = late
    BY DEF vars, history
<1>2. \A r \in Runs : (On(r)' <=> On(r)) /\ (Act(r)' <=> Act(r)) /\ (Past(r)' <=> Past(r)) /\ (Ours(r)' <=> Ours(r))
    BY <1>1 DEF On, Act, Past, Ours
<1>3. Held' = Held BY <1>1 DEF Held
<1>4. InPlay' = InPlay BY <1>1, <1>2, <1>3 DEF InPlay, On
<1>5. Types' /\ CallIds' BY <1>1, <1>4 DEF IInv, Types, CallIds
<1>6. Ids' BY <1>1, <1>2, <1>3, <1>4 DEF IInv, Ids
<1>7. Sizes'
    <2>1. \A r \in Runs : Stage(r) => Stage(r)' BY <1>1 DEF Stage
    <2> QED BY <1>1, <1>2, <1>3, <1>4, <2>1 DEF IInv, Sizes
<1>8. Records' BY <1>1, <1>2, <1>3 DEF IInv, Records
<1>9. Workspaces'
    <2>1. ASSUME NEW P, Safe(P) PROVE Safe(P)' BY <1>1, <2>1 DEF Safe
    <2>2. Watched' = Watched BY <1>1, <1>3 DEF Watched, Act
    <2> QED BY <2>1, <2>2, WatchedSafe, WatchedWorkspaces
<1>10. Cancelled' /\ RunningIsRun' BY <1>1, <1>2 DEF IInv, Cancelled, RunningIsRun, Running
<1>11. Stamps'
    <2>1. \A P \in InPlay : Missing(P) => Missing(P)' BY <1>1 DEF Missing
    <2> QED BY <1>1, <1>4, <2>1 DEF IInv, Stamps
<1>12. Knowledge' BY <1>1, <1>2, <1>3 DEF IInv, Knowledge
<1>13. Origins'
    <2>1. ASSUME NEW body, Origin(body) PROVE Origin(body)' BY <1>1, <1>4, <2>1 DEF Origin
    <2> QED BY <1>1, <2>1 DEF IInv, Origins
<1> QED BY <1>5, <1>6, <1>7, <1>8, <1>9, <1>10, <1>11, <1>12, <1>13 DEF IInv

LEMMA Inductive == IInv /\ [Next]_vars => IInv'
<1> SUFFICES ASSUME IInv, [Next]_vars PROVE IInv' OBVIOUS
<1>1. CASE Next
    BY <1>1, NextTypes, NextIds, NextCallIds, NextSizes, NextRecords, NextWorkspaces, NextCancelled,
       NextRunning, NextStamps, NextKnowledge, NextOrigins DEF IInv
<1>2. CASE UNCHANGED vars BY <1>2, StutterInv
<1> QED BY <1>1, <1>2

\* Every reachable state satisfies the inductive invariant.
THEOREM Invariance == Spec => []IInv
<1> QED BY InitInv, Inductive, PTL DEF Spec

-----------------------------------------------------------------------------
(* What the store says of an import is so *)

LEMMA LinkIs ==
    ASSUME IInv, NEW p \in Linked
    PROVE  LET body == pages[p].body
           IN  /\ body.link # None /\ body.package \in Packages /\ body.file \in ToSet(body.package)
               /\ body.link = Resolve(body.package, body.file, body.file.link)
               /\ \A P \in InPlay : P.attempt = body.attempt => P.package = body.package
<1>1. p \in Paths /\ pages[p] # None /\ pages[p].body.link # None BY DEF Linked
<1>2. Origin(pages[p].body) BY <1>1 DEF IInv, Origins
<1>3. pages[p].body.kind = "imported" BY <1>1, <1>2 DEF Origin
<1> QED BY <1>1, <1>2, <1>3 DEF Origin

LEMMA AppendOne ==
    ASSUME NEW s, NEW t, NEW x, NEW y, s \in Seq(ToSet(s)), t \in Seq(ToSet(t)), Append(s, x) = Append(t, y)
    PROVE  x = y
<1>1. Len(s) \in Nat /\ Len(t) \in Nat OBVIOUS
<1>2. Len(Append(s, x)) = Len(s) + 1 /\ Len(Append(t, y)) = Len(t) + 1 OBVIOUS
<1>3. Append(s, x)[Len(s) + 1] = x /\ Append(t, y)[Len(t) + 1] = y OBVIOUS
<1> QED BY <1>1, <1>2, <1>3

\* A file next to the page is preferred.
LEMMA NearFirst ==
    ASSUME NEW package \in Packages, NEW f \in ToSet(package), NEW link, ~link.absolute,
           NEW g \in ToSet(package), g.name # Index, FilePath(g) = f.dir \o link.path
    PROVE  Resolve(package, f, link) \in
             {Target(h) : h \in {k \in ToSet(package) : k.name # Index /\ FilePath(k) = f.dir \o link.path}}
<1> DEFINE base == f.dir \o link.path
           bases == Bases(f, link)
           exact == {n \in DOMAIN bases : FilesAt(package, bases[n]) # {}}
           page == {h \in ToSet(package) : FilePath(h) = base}
<1>1. g \in page OBVIOUS
<1>2. FilesAt(package, base) = page BY <1>1 DEF FilesAt
<1>3. bases = <<base, link.path>> BY DEF Bases
<1>4. DOMAIN bases = 1 .. 2 /\ bases[1] = base
    <2> HIDE DEF bases, base
    <2> QED BY <1>3
<1>5. exact \subseteq 1 .. 2 /\ 1 \in exact
    <2>1. page # {} BY <1>1
    <2> HIDE DEF bases, base, page
    <2> QED BY <1>2, <1>4, <2>1
<1>6. Min(exact) = 1
    <2> HIDE DEF exact
    <2>1. Min(exact) \in exact /\ \A n \in exact : Min(exact) <= n BY <1>5, FirstOf
    <2>2. Min(exact) \in 1 .. 2 /\ Min(exact) <= 1 BY <1>5, <2>1
    <2> QED BY <2>2
<1>7. Resolve(package, f, link) = Target(CHOOSE h \in page : TRUE)
    <2>1. FilesAt(package, bases[Min(exact)]) = page BY <1>2, <1>4, <1>6
    <2>2. exact # {} BY <1>5
    <2> HIDE DEF page
    <2> QED BY <2>1, <2>2 DEF Resolve
<1>8. PICK h \in page : h = CHOOSE k \in page : TRUE BY <1>1
<1>9. h.name = g.name
    <2>1. h \in SourceFiles /\ g \in SourceFiles BY PackageIs
    <2>2. h.dir \in Seq(ToSet(h.dir)) /\ g.dir \in Seq(ToSet(g.dir)) BY <2>1, ImporterAssumption
    <2>3. Append(h.dir, h.name) = Append(g.dir, g.name) BY DEF FilePath
    <2> QED BY <2>2, <2>3, AppendOne
<1> QED BY <1>7, <1>8, <1>9

\* An import that went through undisturbed leads every target to a page.
LEMMA TargetsLead ==
    ASSUME IInv, store # None, store.status = "completed", ToSet(store.items) \subseteq {"created", "skipped"},
           \A t \in touched : t[1] # store.attempt, NEW t \in Targets(store.package)
    PROVE  t \in {<<>>} \union {q \in Paths : pages[q] # None} \union SkippedInVain
<1>1. store \in Held /\ Planned(store) BY StoreIs
<1>2. Kept(pages, touched, store, store.items) BY <1>1 DEF IInv, Knowledge
<1>3. Len(store.items) = Len(store.package) BY <1>1 DEF IInv, Sizes
<1>4. DOMAIN store.items = DOMAIN store.package BY <1>1, <1>3 DEF Planned
<1>5. PICK i \in DOMAIN store.items : t = Target(store.package[i]) BY <1>4 DEF Targets
<1>6. store.items[i] \in {"created", "skipped"} BY DEF ToSet
<1>7. t \in Paths \union {<<>>}
    <2>1. store.package \in Packages BY <1>1 DEF Planned
    <2>2. store.package[i] \in SourceFiles BY <1>4, <2>1, PackageIs
    <2> QED BY <1>5, <2>2, ImporterAssumption
<1>8. CASE store.items[i] = "created" BY <1>2, <1>5, <1>8 DEF Kept
<1>9. CASE store.items[i] = "skipped" /\ store.hash[t] = 0 BY <1>5, <1>9 DEF SkippedInVain
<1>10. CASE store.hash[t] # 0 BY <1>2, <1>7, <1>10 DEF Kept
<1> QED BY <1>6, <1>8, <1>9, <1>10

LEMMA LinksLeadInv == IInv => LinksLead
<1> SUFFICES ASSUME IInv, NEW p \in Linked
             PROVE  LET body == pages[p].body
                        dir == body.file.dir
                        near == {g \in ToSet(body.package) : g.name # Index /\ FilePath(g) = dir \o body.file.link.path}
                    IN  /\ near # {} /\ ~body.file.link.absolute => body.link \in {Target(g) : g \in near}
                        /\ (/\ store # None /\ store.status = "completed" /\ store.attempt = body.attempt
                            /\ ToSet(store.items) \subseteq {"created", "skipped"}
                            /\ \A t \in touched : t[1] # body.attempt)
                           => body.link \in {<<>>} \union {q \in Paths : pages[q] # None} \union SkippedInVain
    BY DEF LinksLead
<1> DEFINE body == pages[p].body
           near == {g \in ToSet(body.package) : g.name # Index /\ FilePath(g) = body.file.dir \o body.file.link.path}
<1>1. /\ body.link # None /\ body.package \in Packages /\ body.file \in ToSet(body.package)
      /\ body.link = Resolve(body.package, body.file, body.file.link)
      /\ \A P \in InPlay : P.attempt = body.attempt => P.package = body.package
    BY LinkIs
<1>2. ASSUME near # {}, ~body.file.link.absolute PROVE body.link \in {Target(g) : g \in near}
    <2>1. PICK g \in near : TRUE BY <1>2
    <2> HIDE DEF body
    <2> QED BY <1>1, <1>2, <2>1, NearFirst
<1>3. ASSUME store # None, store.status = "completed", store.attempt = body.attempt,
             ToSet(store.items) \subseteq {"created", "skipped"}, \A t \in touched : t[1] # body.attempt
      PROVE  body.link \in {<<>>} \union {q \in Paths : pages[q] # None} \union SkippedInVain
    <2>1. store \in InPlay BY <1>3, StoreIs
    <2>2. store.package = body.package BY <1>1, <1>3, <2>1
    <2>3. body.link \in Targets(body.package) BY <1>1, ResolveIs
    <2> QED BY <1>3, <2>2, <2>3, TargetsLead
<1> QED BY <1>2, <1>3

LEMMA PlanTrueInv == IInv => PlanTrue
<1> SUFFICES ASSUME IInv PROVE PlanTrue OBVIOUS
<1>1. TypeOK
    <2>1. ASSUME NEW s \in {store, disk}, s # None
          PROVE  s.status \in Statuses /\ s.id \in 1 .. plans /\ s.processed <= Len(s.package) /\ Len(s.items) <= Len(s.package)
        <3>1. Planned(s) BY <2>1, StoreIs
        <3> QED BY <3>1 DEF Planned, PlanSize, StoredPlans
    <2>2. \A r \in Runs : run[r].at \in Stages BY DEF IInv, Types, RunT
    <2>3. \A p \in Paths : pages[p] # None => pages[p].stamp \in 1 .. clock BY DEF IInv, Stamps
    <2>4. files \subseteq Plans /\ broken \in BOOLEAN BY DEF IInv, Types
    <2> QED BY <2>1, <2>2, <2>3, <2>4 DEF TypeOK, Stages
<1>2. ResultTrue
    <2>1. store # None => store \in Held BY StoreIs
    <2> QED BY <2>1 DEF ResultTrue, IInv, Sizes, Records, Recorded
<1>3. FilesWhileRunning BY DEF FilesWhileRunning, IInv, Workspaces, Safe, Act
<1>4. CancelStops BY DEF CancelStops, IInv, Cancelled
<1> QED BY <1>1, <1>2, <1>3, <1>4, LinksLeadInv DEF PlanTrue, IInv

\* Whatever the uploads, edits, failed writes, crashes and resumed executions:
\* the record of an import is true, its workspace and its execution are there,
\* a cancellation stops it, and its links lead to pages (Executor.Execute,
\* PlanStore).
THEOREM PlanIsTrue == Spec => []PlanTrue
<1> QED BY Invariance, PlanTrueInv, PTL

-----------------------------------------------------------------------------
(* An import overwrites nobody's text *)

LEMMA WritesAlone ==
    ASSUME IInv, Next, NEW r \in Runs, run[r].at = "write", run'[r].at = "report"
    PROVE  Write(r)
<1>1. ~Start
    <2> SUFFICES ASSUME Start PROVE FALSE OBVIOUS
    <2> DEFINE Q == Started(store, starts + 1)
    <2>1. Q \in StoredPlans /\ (On(r)' => run'[r] = Execution(Q) \/ run'[r] = run[r]) BY StartPlays
    <2> HIDE DEF Q
    <2> QED BY <2>1, ExecutionIs DEF On
<1>2. ~Restart BY RestartPlays DEF On
<1>3. ~Everyone BY EveryoneDoes DEF Elsewhere
<1>4. \A c \in Calls : ~Requests(c) /\ ~SetPlan(c) BY RequestsStore, SetPlanDoes DEF StillRuns
<1>5. ASSUME NEW s \in Runs, Execute(s) PROVE Write(r)
    <2>1. s = r BY <1>5, ExecIs DEF ExecStep
    <2> QED BY <1>5, <2>1, CheckDoes, NextItemDoes, EnsureDoes, SkipDoes, ReportDoes, FinishDoes, CleanDoes DEF Execute
<1> QED BY <1>1, <1>2, <1>3, <1>4, <1>5, NextIs

LEMMA WritesOwn ==
    ASSUME IInv, NEW r \in Runs, Write(r), run'[r].at = "report"
    PROVE  LET p == Target(Item(r))
           IN  \/ pages[p].body.kind = "empty"
               \/ <<run[r].plan.attempt, p>> \in touched
               \/ pages[p].body.kind = "imported" /\ pages[p].body.attempt = run[r].plan.attempt
                    /\ pages[p].body.file # Item(r)
<1> DEFINE p == Target(Item(r))
           P == run[r].plan
           n == run[r].index
<1>1. run[r].at = "write" /\ p \in Paths /\ pages[p] # None BY WriteDoes DEF Fails
<1>2. /\ Act(r) /\ On(r) /\ n + 1 \in DOMAIN P.package /\ Item(r) = P.package[n + 1]
    BY <1>1, ItemIs
<1>3. /\ Len(run[r].items) = n /\ P.actions[n + 1] = "create" /\ run[r].error = "none"
    BY <1>1, <1>2, ActIs, RunIs DEF Stage
<1>4. P \in InPlay /\ P.package \in Packages /\ n \in Nat /\ run[r].items \in Seq(Outcomes)
    BY <1>2, RunIs DEF Planned
<1>5. AllExplained(pages, touched, P, run[r].items)
    <2>1. Past(r) BY <1>1, <1>2, <1>3 DEF Past
    <2> QED BY <2>1 DEF IInv, Knowledge, Sure
<1>6. Explained(pages, touched, P, run[r].items, p) BY <1>1, <1>5 DEF AllExplained
<1>7. pages[p].stamp # P.hash[p] BY <1>1, <1>2, <1>3, <1>4 DEF IInv, Stamps, Missing
<1>8. \A i \in DOMAIN run[r].items : P.package[i] # Item(r)
    <2>1. \A i \in DOMAIN run[r].items : i \in 1 .. n BY <1>3, <1>4
    <2>2. DOMAIN P.package = 1 .. Len(P.package) /\ Len(P.package) \in Nat BY <1>4, PackageIs
    <2>3. \A i \in 1 .. n : i \in DOMAIN P.package /\ i # n + 1 BY <1>2, <1>4, <2>2
    <2> QED BY <1>2, <1>4, <2>1, <2>3, PackageIs
<1> QED BY <1>6, <1>7, <1>8 DEF Explained

\* An import, resumed ones included, replaces only text it has made itself or
\* that somebody changed while it ran (Executor.Execute, the stale plan check).
THEOREM OnlyOwn == Spec => OverwritesOnlyOwn
<1> DEFINE A == \A r \in Runs :
                  run[r].at = "write" /\ run'[r].at = "report" =>
                     LET p == Target(Item(r))
                     IN  \/ pages[p].body.kind = "empty"
                         \/ <<run[r].plan.attempt, p>> \in touched
                         \/ pages[p].body.kind = "imported" /\ pages[p].body.attempt = run[r].plan.attempt
                              /\ pages[p].body.file # Item(r)
<1>1. IInv /\ [Next]_vars => [A]_vars
    <2> SUFFICES ASSUME IInv, Next, NEW r \in Runs, run[r].at = "write", run'[r].at = "report"
                 PROVE  LET p == Target(Item(r))
                        IN  \/ pages[p].body.kind = "empty"
                            \/ <<run[r].plan.attempt, p>> \in touched
                            \/ pages[p].body.kind = "imported" /\ pages[p].body.attempt = run[r].plan.attempt
                                 /\ pages[p].body.file # Item(r)
        OBVIOUS
    <2> QED BY WritesAlone, WritesOwn
<1>2. [][A]_vars => OverwritesOnlyOwn BY DEF OverwritesOnlyOwn
<1> HIDE DEF A
<1> QED BY <1>1, <1>2, Invariance, PTL DEF Spec
=============================================================================

----------------------------- MODULE BackupProofs -----------------------------
(***************************************************************************)
(* Proofs about Backup, for any files, contents and starts and any number   *)
(* of Repository objects, edits, commits of others, faults and crashes.     *)
(***************************************************************************)
EXTENDS Backup, FiniteSetTheorems, TLAPS

CommitRecs == [parent : Nat, line : SUBSET Nat, tree : Trees, refused : BOOLEAN, ours : BOOLEAN]
OpRecs == [at : {"idle", "compare", "plan", "apply", "read", "push"}, kind : {"none", "backup", "pull", "force"},
           gen : 0 .. MaxGens, base : Nat, tip : Nat, deletes : SUBSET Paths, writes : SUBSET Paths,
           tree : Trees, todo : SUBSET Paths, touched : SUBSET Paths]

-----------------------------------------------------------------------------
(* The invariants *)

\* A commit follows its parent, and its line holds the line of all in it.
Lines ==
    \A e \in 1 .. Len(commits) :
        /\ commits[e].parent < e /\ commits[e].line \subseteq 1 .. e /\ e \in commits[e].line
        /\ \A d \in commits[e].line : commits[d].line \subseteq commits[e].line

GitTypes == /\ commits \in Seq(CommitRecs) /\ Lines
            /\ head \in 0 .. Len(commits) /\ remote \in 0 .. Len(commits)
            /\ git \in BOOLEAN /\ (head # 0 => git)
OpTypes == /\ op \in [Workers -> OpRecs]
           /\ \A w \in Workers : op[w].base <= Len(commits) /\ op[w].tip <= Len(commits)
ManagerTypes == /\ gens \in 0 .. MaxGens /\ current \in 0 .. gens /\ conf \in BOOLEAN
                /\ sched \in [Gens -> {"off", "idle", "busy"}] /\ closing \subseteq Gens
                /\ pushed \in [Gens -> 0 .. Len(commits)] /\ status \in {"none", "ok", "failed"}
                /\ admin \in [at : {"idle", "stop", "off", "build", "contact", "sync"},
                              todo : SUBSET Paths, adopted : BOOLEAN]
Types == live \in Trees /\ mine \subseteq Paths /\ GitTypes /\ OpTypes /\ ManagerTypes

\* A scheduler that runs is the current Repository's, or one that is told to
\* stop and waited for; settings that are off are on their way to no Repository.
SchedInv ==
    /\ \A g \in Gens : sched[g] = "busy" <=> Active(g)
    /\ \A g \in Gens : sched[g] # "off" => g = current \/ g \in closing
    /\ admin.at # "idle" => current = 0
    /\ admin.at \notin {"stop", "off"} => closing = {}
    /\ admin.at \notin {"idle", "off"} => gens < MaxGens
    /\ \A g, h \in closing : g = h
    /\ ~conf => current = 0 /\ admin.at \in {"idle", "off"}

\* What each kind of operation does, and that .git stays while one runs.
WorkInv ==
    /\ current # 0 \/ admin.at \in {"contact", "sync"} => git
    /\ \A g \in Gens : sched[g] # "off" => git
    /\ \A w \in Workers : Active(w) =>
          /\ git /\ admin.at \notin {"contact", "sync"} /\ op[w].kind # "none"
          /\ w \in Gens => op[w].kind = "backup" /\ op[w].gen = w
          /\ op[w].at \in {"plan", "apply"} => op[w].kind \in {"backup", "pull"} /\ op[w].tip # 0
          /\ op[w].at = "read" => op[w].kind = "backup"
          /\ op[w].at = "push" => op[w].kind \in {"backup", "force"}
    /\ ~twin => \A v, w \in Workers : Active(v) /\ Active(w) => v = w

\* What an operation read is still so while it is alone, but for edits it noted.
Basis(w) ==
    /\ op[w].at \in {"plan", "apply", "read"} => op[w].base = head
    /\ op[w].at \in {"plan", "apply"} =>
          /\ head = 0 \/ head \in History(op[w].tip)
          /\ rewound \/ op[w].tip \in History(remote)
Content(w) ==
    /\ op[w].at = "apply" =>
          \A p \in op[w].deletes \union op[w].writes : p \in op[w].touched \/ live[p] = Tree(head)[p]
    /\ op[w].at = "read" =>
          \A p \in Paths : p \in op[w].todo \union op[w].touched \/ op[w].tree[p] = live[p]
    /\ op[w].at = "push" /\ op[w].kind = "backup" =>
          \A p \in Paths : p \in op[w].touched \/ Tree(head)[p] = live[p]
OpInv == ~twin => \A w \in Workers : Basis(w) /\ Content(w)

\* What the remote was last known to hold is still in both branches.
PushedInv ==
    /\ ~twin /\ current # 0 =>
          \/ pushed[current] = 0
          \/ pushed[current] \in History(head) /\ (rewound \/ pushed[current] \in History(remote))
    /\ admin.at = "contact" => head = 0
    /\ admin.at = "sync" => head # 0 /\ (rewound \/ head \in History(remote))

\* What differs from the last commit is the wiki's own, or still to be pulled.
Covered(p) ==
    \/ live[p] = Tree(head)[p] \/ p \in mine
    \/ admin.at = "sync" /\ p \in admin.todo /\ live[p] = None
    \/ \E w \in Workers : op[w].at = "apply"
Applying(w) ==
    op[w].at = "apply" =>
        \A p \in Paths : live[p] = Tree(op[w].tip)[p] \/ p \in mine \union op[w].deletes \union op[w].writes
Reading(w) ==
    op[w].at = "read" =>
        /\ op[w].touched \subseteq mine
        /\ \A p \in Paths : p \in op[w].todo \/ op[w].tree[p] = Tree(op[w].base)[p] \/ p \in mine
MineInv ==
    ~(twin \/ torn \/ unsynced) =>
        (\A p \in Paths : Covered(p)) /\ \A w \in Workers : Applying(w) /\ Reading(w)

IInv == Types /\ SchedInv /\ WorkInv /\ OpInv /\ PushedInv /\ MineInv

-----------------------------------------------------------------------------
(* Commits *)

LEMMA TreeType ==
    ASSUME GitTypes, NEW c \in 0 .. Len(commits)
    PROVE  Tree(c) \in Trees /\ (c # 0 => commits[c] \in CommitRecs)
<1>1. c # 0 => commits[c] \in CommitRecs
  BY DEF GitTypes
<1> QED
  BY <1>1 DEF Tree, NoFiles, Trees, CommitRecs

\* A new commit leaves the others as they are, and its line is itself and its parent's.
LEMMA Grown ==
    ASSUME GitTypes, NEW parent \in 0 .. Len(commits), NEW tree \in Trees, NEW refused \in BOOLEAN,
           NEW ours \in BOOLEAN, Grow(parent, tree, refused, ours)
    PROVE  /\ commits' \in Seq(CommitRecs) /\ Len(commits') = Len(commits) + 1
           /\ \A e \in 1 .. Len(commits) : commits'[e] = commits[e]
           /\ commits'[Len(commits) + 1].line = History(parent) \union {Len(commits) + 1}
           /\ commits'[Len(commits) + 1].parent = parent /\ commits'[Len(commits) + 1].tree = tree
           /\ commits'[Len(commits) + 1].ours = ours
           /\ Lines'
<1> DEFINE n == Len(commits)
           rec == [parent |-> parent, line |-> History(parent) \union {n + 1},
                   tree |-> tree, refused |-> refused, ours |-> ours]
<1>1. n \in Nat /\ commits \in Seq(CommitRecs)
  BY DEF GitTypes
<1>2. History(parent) \subseteq 1 .. n /\ \A d \in History(parent) : commits[d].line \subseteq History(parent)
  BY <1>1 DEF GitTypes, Lines, History
<1>3. rec \in CommitRecs
  BY <1>1, <1>2 DEF CommitRecs
<1>4. commits' = Append(commits, rec)
  BY DEF Grow
<1> HIDE DEF rec
<1>5. commits' \in Seq(CommitRecs) /\ Len(commits') = n + 1 /\ commits'[n + 1] = rec
      /\ \A e \in 1 .. n : commits'[e] = commits[e]
  BY <1>1, <1>3, <1>4
<1>6. rec.line = History(parent) \union {n + 1} /\ rec.parent = parent /\ rec.tree = tree /\ rec.ours = ours
  BY DEF rec
<1>7. Lines'
  <2> SUFFICES ASSUME NEW e \in 1 .. n + 1
               PROVE  /\ commits'[e].parent < e /\ commits'[e].line \subseteq 1 .. e /\ e \in commits'[e].line
                      /\ \A d \in commits'[e].line : commits'[d].line \subseteq commits'[e].line
    BY <1>5 DEF Lines
  <2>1. CASE e = n + 1
    <3>1. \A d \in History(parent) : commits'[d].line \subseteq rec.line
      BY <1>2, <1>5, <1>6
    <3> QED
      BY <1>1, <1>2, <1>5, <1>6, <2>1, <3>1
  <2>2. CASE e \in 1 .. n
    <3>1. commits'[e] = commits[e] /\ commits[e].line \subseteq 1 .. e
      BY <1>5, <2>2 DEF GitTypes, Lines
    <3>2. \A d \in commits[e].line : commits'[d] = commits[d]
      BY <1>1, <1>5, <2>2, <3>1
    <3> QED
      BY <2>2, <3>1, <3>2 DEF GitTypes, Lines
  <2> QED
    BY <1>1, <2>1, <2>2
<1> QED
  BY <1>5, <1>6, <1>7

\* What is in the line of a commit stays in the line of its descendants.
LEMMA LineTrans ==
    ASSUME GitTypes, NEW a, NEW b \in 0 .. Len(commits), NEW c \in 0 .. Len(commits),
           a \in History(b), b \in History(c)
    PROVE  a \in History(c)
  BY DEF GitTypes, Lines, History

LEMMA LineSelf ==
    ASSUME GitTypes, NEW c \in 0 .. Len(commits)
    PROVE  /\ c # 0 => c \in History(c)
           /\ History(c) \subseteq 1 .. Len(commits)
  BY DEF GitTypes, Lines, History

-----------------------------------------------------------------------------
(* Operations *)

\* The other workers stay where they are.
Only(w) == \A v \in Workers \ {w} : op'[v] = op[v]

LEMMA NoOpRec == NoOp \in OpRecs /\ NoFiles \in Trees /\ NoOp.at = "idle" /\ NoOp.base = 0 /\ NoOp.tip = 0
  BY BackupAssumption DEF NoOp, OpRecs, NoFiles, Trees

LEMMA LeavesIs ==
    ASSUME OpTypes, ManagerTypes, NEW w \in Workers, Leaves(w)
    PROVE  /\ Only(w) /\ op'[w] = NoOp
           /\ \A g \in Gens : sched'[g] = IF g = w THEN "idle" ELSE sched[g]
           /\ sched' \in [Gens -> {"off", "idle", "busy"}]
           /\ op' \in [Workers -> OpRecs]
  BY NoOpRec, BackupAssumption DEF OpTypes, ManagerTypes, Leaves, Only, Gens, Workers

\* An operation that ends leaves the other variables' types.
LEMMA LeavesTypes ==
    ASSUME OpTypes, ManagerTypes, NEW w \in Workers, Leaves(w), Len(commits) \in Nat, Len(commits') \in Nat,
           Len(commits) <= Len(commits')
    PROVE  OpTypes'
<1>1. op' \in [Workers -> OpRecs] /\ Only(w) /\ op'[w] = NoOp
  BY LeavesIs
<1>2. \A v \in Workers : op'[v].base <= Len(commits') /\ op'[v].tip <= Len(commits')
  <2> SUFFICES ASSUME NEW v \in Workers PROVE op'[v].base <= Len(commits') /\ op'[v].tip <= Len(commits')
    OBVIOUS
  <2>1. CASE v = w
    BY <1>1, <2>1, NoOpRec
  <2>2. CASE v # w
    <3>1. op'[v] = op[v] /\ op[v].base <= Len(commits) /\ op[v].tip <= Len(commits)
          /\ op[v].base \in Nat /\ op[v].tip \in Nat
      BY <1>1, <2>2 DEF Only, OpTypes, OpRecs
    <3> QED
      BY <3>1
  <2> QED
    BY <2>1, <2>2
<1> QED
  BY <1>1, <1>2 DEF OpTypes

\* What an operation does to the others: nothing, when it ends, and when it
\* moves on as the same operation.
Ended(w) == Leaves(w) /\ status' \in {"none", "ok", "failed"}
Moved(w) ==
    /\ op' \in [Workers -> OpRecs] /\ Only(w)
    /\ op'[w].base <= Len(commits) /\ op'[w].tip <= Len(commits)
    /\ op'[w].kind = op[w].kind /\ op'[w].gen = op[w].gen /\ op'[w].at # "idle"
    /\ UNCHANGED <<status, sched>>

LEMMA EndsEnded ==
    ASSUME ManagerTypes, NEW w, NEW s \in {"none", "ok", "failed"}, Ends(w, s)
    PROVE  Ended(w)
  BY DEF ManagerTypes, Ends, Ended

LEMMA Moves ==
    ASSUME OpTypes, NEW w \in Workers, NEW r \in OpRecs, op' = [op EXCEPT ![w] = r],
           r.base <= Len(commits), r.tip <= Len(commits), r.kind = op[w].kind, r.gen = op[w].gen, r.at # "idle",
           UNCHANGED <<status, sched>>
    PROVE  Moved(w) /\ op'[w] = r
  BY DEF OpTypes, Only, Moved

\* An operation that moves on keeps its type.
LEMMA MovedTypes ==
    ASSUME OpTypes, NEW w \in Workers, Moved(w), Len(commits) \in Nat, Len(commits') \in Nat,
           Len(commits) <= Len(commits')
    PROVE  OpTypes'
<1>1. \A v \in Workers : op[v].base \in Nat /\ op[v].tip \in Nat /\ op'[v].base \in Nat /\ op'[v].tip \in Nat
  BY DEF OpTypes, OpRecs, Moved
<1>2. \A v \in Workers : op'[v].base <= Len(commits') /\ op'[v].tip <= Len(commits')
  BY <1>1 DEF OpTypes, Moved, Only
<1> QED
  BY <1>2 DEF OpTypes, Moved

\* The scan of the content directories begins.
LEMMA ScanStarts ==
    ASSUME Types, NEW w \in Workers, NEW base \in 0 .. Len(commits), StartsScan(w, base), UNCHANGED <<status, sched>>
    PROVE  /\ Moved(w) /\ op'[w].at = "read" /\ op'[w].base = base
           /\ op'[w].todo = Paths /\ op'[w].touched = {}
<1> DEFINE r == [op[w] EXCEPT !.at = "read", !.base = base, !.todo = Paths, !.touched = {}]
<1>1. op[w] \in OpRecs /\ op \in [Workers -> OpRecs] /\ base \in Nat /\ op[w].tip <= Len(commits) /\ base <= Len(commits)
  BY DEF Types, OpTypes, GitTypes
<1>2. op' = [op EXCEPT ![w] = r]
  BY <1>1 DEF StartsScan
<1>3. r \in OpRecs /\ r.at = "read" /\ r.base = base /\ r.tip = op[w].tip /\ r.kind = op[w].kind /\ r.gen = op[w].gen
      /\ r.todo = Paths /\ r.touched = {}
  BY <1>1 DEF OpRecs
<1> HIDE DEF r
<1>4. Moved(w) /\ op'[w] = r
  BY <1>1, <1>2, <1>3, Moves DEF Types
<1> QED
  BY <1>3, <1>4

\* What the comparison of the branches leads to.
LEMMA CompareIs ==
    ASSUME Types, WorkInv, NEW w \in Workers, Compare(w)
    PROVE  /\ op[w].at = "compare"
           /\ UNCHANGED <<live, repo, conf, current, gens, closing, admin, boot, pushed, events, history>>
           /\ \/ Ended(w)
              \/ Moved(w) /\ op'[w].at = "push" /\ op'[w].kind = "force"
              \/ /\ Moved(w) /\ op'[w].at = "plan" /\ op'[w].kind \in {"pull", "backup"}
                 /\ op'[w].base = head /\ op'[w].tip = remote /\ remote # 0
                 /\ head = 0 \/ head \in History(remote)
              \/ /\ Moved(w) /\ op'[w].at = "read" /\ op'[w].kind = "backup"
                 /\ op'[w].base = head /\ op'[w].todo = Paths /\ op'[w].touched = {}
<1> DEFINE k == op[w]
           relation == Relation(head, remote)
<1>1. k \in OpRecs /\ op \in [Workers -> OpRecs] /\ k.base <= Len(commits) /\ k.tip <= Len(commits)
      /\ head \in Nat /\ head <= Len(commits) /\ remote \in Nat /\ remote <= Len(commits) /\ Len(commits) \in Nat
  BY DEF Types, OpTypes, GitTypes
<1>2. k.at = "compare" /\ k.kind \in {"pull", "backup", "force"}
      /\ UNCHANGED <<live, repo, conf, current, gens, closing, admin, boot, pushed, events, history>>
  BY <1>1 DEF Compare, WorkInv, Active, OpRecs
<1>3. CASE k.kind = "force" /\ relation = "behind"
  <2>1. Ended(w)
    BY <1>2, <1>3 DEF Compare, Ended, Types, ManagerTypes
  <2> QED
    BY <1>2, <2>1
<1>4. CASE k.kind = "force" /\ relation # "behind"
  <2> DEFINE t == IF relation = "uptodate" THEN 0 ELSE remote
             r == [k EXCEPT !.at = "push", !.tip = t]
  <2>1. op' = [op EXCEPT ![w].at = "push", ![w].tip = t] /\ UNCHANGED <<status, sched>>
    BY <1>2, <1>4 DEF Compare
  <2>2. t \in Nat /\ t <= Len(commits)
    BY <1>1
  <2> HIDE DEF t
  <2>3. r \in OpRecs /\ r.base = k.base /\ r.tip = t /\ r.kind = k.kind /\ r.gen = k.gen /\ r.at = "push"
    BY <1>1, <2>2 DEF OpRecs
  <2>4. op' = [op EXCEPT ![w] = r]
    BY <1>1, <2>1
  <2> HIDE DEF r
  <2>5. Moved(w) /\ op'[w] = r
    BY <1>1, <2>1, <2>2, <2>3, <2>4, Moves DEF Types
  <2> QED
    BY <1>2, <1>4, <2>3, <2>5
<1>5. CASE k.kind # "force" /\ relation = "behind"
  <2> DEFINE r == [k EXCEPT !.at = "plan", !.tip = remote, !.base = head]
  <2>1. op' = [op EXCEPT ![w].at = "plan", ![w].tip = remote, ![w].base = head] /\ UNCHANGED <<status, sched>>
    BY <1>2, <1>5 DEF Compare
  <2>2. r \in OpRecs /\ r.base = head /\ r.tip = remote /\ r.kind = k.kind /\ r.gen = k.gen /\ r.at = "plan"
    BY <1>1 DEF OpRecs
  <2>3. op' = [op EXCEPT ![w] = r]
    BY <1>1, <2>1
  <2> HIDE DEF r
  <2>4. Moved(w) /\ op'[w] = r
    BY <1>1, <2>1, <2>2, <2>3, Moves DEF Types
  <2>5. remote # 0 /\ (head = 0 \/ head \in History(remote))
    BY <1>5 DEF Relation
  <2> QED
    BY <1>2, <1>5, <2>2, <2>4, <2>5
<1>6. CASE k.kind # "force" /\ relation # "behind"
  <2>1. CASE relation = "diverged" \/ k.kind = "pull"
    <3>1. \E s \in {"none", "ok", "failed"} : Ends(w, s)
      BY <1>2, <1>6, <2>1 DEF Compare
    <3>2. Ended(w)
      BY <3>1, EndsEnded DEF Types
    <3> QED
      BY <1>2, <3>2
  <2>2. CASE relation # "diverged" /\ k.kind = "backup"
    <3>1. StartsScan(w, head) /\ UNCHANGED <<status, sched>>
      BY <1>2, <1>6, <2>2 DEF Compare
    <3>2. head \in 0 .. Len(commits)
      BY <1>1
    <3>3. op'[w].kind = "backup"
      BY <2>2, <3>1, <3>2, ScanStarts DEF Moved
    <3> QED
      BY <1>2, <3>1, <3>2, <3>3, ScanStarts
  <2> QED
    BY <1>2, <1>6, <2>1, <2>2
<1> QED
  BY <1>3, <1>4, <1>5, <1>6

\* A plan touches only what is as in the base, and leaves what is the tip's already.
LEMMA PlanIs ==
    ASSUME Types, WorkInv, NEW w \in Workers, Plan(w)
    PROVE  /\ op[w].at = "plan"
           /\ UNCHANGED <<live, repo, conf, current, gens, closing, admin, boot, pushed, events, history>>
           /\ \/ Ended(w)
              \/ /\ Moved(w) /\ op'[w].at = "apply" /\ op'[w].base = op[w].base /\ op'[w].tip = op[w].tip
                 /\ op'[w].touched = {}
                 /\ \A p \in op'[w].deletes \union op'[w].writes : live[p] = Tree(op[w].base)[p]
                 /\ \A p \in Paths : \/ p \in op'[w].deletes \union op'[w].writes
                                     \/ live[p] = Tree(op[w].tip)[p]
                                     \/ Tree(op[w].base)[p] = Tree(op[w].tip)[p]
                                     \/ op[w].base = 0 /\ live[p] # None
<1> DEFINE k == op[w]
           changes == Changes(k.base, k.tip)
           deletes == {p \in changes : Tree(k.tip)[p] = None}
           writes == {p \in changes : Tree(k.tip)[p] # None}
           r == [k EXCEPT !.at = "apply", !.touched = {}, !.deletes = deletes, !.writes = writes]
<1>1. k \in OpRecs /\ op \in [Workers -> OpRecs] /\ k.base <= Len(commits) /\ k.tip <= Len(commits)
  BY DEF Types, OpTypes
<1>2. op[w].at = "plan" /\ UNCHANGED <<live, repo, conf, current, gens, closing, admin, boot, pushed, events, history>>
  BY DEF Plan
<1>3. CASE Ends(w, "failed")
  BY <1>2, <1>3, EndsEnded DEF Types
<1>4. CASE /\ Conflicts(k.base, k.tip, k.base # 0) = {}
           /\ op' = [op EXCEPT ![w].at = "apply", ![w].touched = {}, ![w].deletes = deletes, ![w].writes = writes]
           /\ UNCHANGED <<status, sched>>
  <2>1. deletes \subseteq Paths /\ writes \subseteq Paths /\ deletes \union writes = changes
    BY DEF Changes
  <2>2. \A p \in changes : live[p] = Tree(k.base)[p]
    BY <1>4 DEF Changes, Conflicts, Tree, NoFiles
  <2>3. \A p \in Paths : \/ p \in changes \/ live[p] = Tree(k.tip)[p] \/ Tree(k.base)[p] = Tree(k.tip)[p]
                         \/ k.base = 0 /\ live[p] # None
    BY DEF Changes
  <2> HIDE DEF deletes, writes, changes
  <2>4. r \in OpRecs /\ r.at = "apply" /\ r.base = k.base /\ r.tip = k.tip /\ r.touched = {}
        /\ r.deletes = deletes /\ r.writes = writes /\ r.kind = k.kind /\ r.gen = k.gen
    BY <1>1, <2>1 DEF OpRecs
  <2>5. op' = [op EXCEPT ![w] = r]
    BY <1>1, <1>4
  <2> HIDE DEF r
  <2>6. Moved(w) /\ op'[w] = r
    BY <1>1, <1>4, <2>4, <2>5, Moves DEF Types
  <2> QED
    BY <1>2, <2>1, <2>2, <2>3, <2>4, <2>6
<1> QED
  BY <1>3, <1>4 DEF Plan

LEMMA ApplyIs ==
    ASSUME Types, NEW w \in Workers, NEW p \in Paths, Apply(w, p)
    PROVE  /\ op[w].at = "apply" /\ p \in op[w].deletes \union op[w].writes
           /\ Moved(w) /\ op'[w].at = "apply" /\ op'[w].base = op[w].base /\ op'[w].tip = op[w].tip
           /\ op'[w].touched = op[w].touched
           /\ op'[w].deletes \union op'[w].writes = (op[w].deletes \union op[w].writes) \ {p}
           /\ live' = [live EXCEPT ![p] = Tree(op[w].tip)[p]] /\ mine' = mine \ {p}
           /\ UNCHANGED <<repo, manager, state, events, rewound, torn, unsynced, twin>>
<1> DEFINE k == op[w]
           r == [k EXCEPT !.deletes = @ \ {p}, !.writes = @ \ {p}]
<1>1. k \in OpRecs /\ op \in [Workers -> OpRecs] /\ k.base <= Len(commits) /\ k.tip <= Len(commits)
  BY DEF Types, OpTypes
<1>2. k.at = "apply"
  BY DEF Apply
<1>3. r \in OpRecs /\ r.at = "apply" /\ r.base = k.base /\ r.tip = k.tip /\ r.touched = k.touched
      /\ r.deletes = k.deletes \ {p} /\ r.writes = k.writes \ {p} /\ r.kind = k.kind /\ r.gen = k.gen
  BY <1>1, <1>2 DEF OpRecs
<1>4. op' = [op EXCEPT ![w] = r]
  BY <1>1 DEF Apply
<1> HIDE DEF r
<1>5. UNCHANGED <<status, sched>>
  BY DEF Apply, manager, state
<1>6. Moved(w) /\ op'[w] = r
  BY <1>1, <1>3, <1>4, <1>5, Moves DEF Types
<1> QED
  BY <1>3, <1>6 DEF Apply

LEMMA SetHeadIs ==
    ASSUME Types, WorkInv, NEW w \in Workers, SetHead(w)
    PROVE  /\ op[w].at = "apply" /\ op[w].deletes \union op[w].writes = {}
           /\ head' = op[w].tip /\ pushed' = [pushed EXCEPT ![op[w].gen] = op[w].tip]
           /\ UNCHANGED <<live, commits, git, remote, conf, current, gens, closing, admin, boot, events, history>>
           /\ \/ Ended(w)
              \/ /\ Moved(w) /\ op'[w].at = "read" /\ op'[w].kind = "backup" /\ op'[w].base = op[w].tip
                 /\ op'[w].todo = Paths /\ op'[w].touched = {}
<1>1. op[w].at = "apply" /\ op[w].deletes \union op[w].writes = {}
  BY DEF SetHead, Applied
<1>2. op[w].tip \in 0 .. Len(commits) /\ op[w].kind \in {"backup", "pull"}
  BY <1>1 DEF Types, OpTypes, OpRecs, GitTypes, WorkInv, Active
<1>3. CASE op[w].kind = "pull"
  <2>1. \E s \in {"none", "ok", "failed"} : Ends(w, s)
    BY <1>3 DEF SetHead
  <2>2. Ended(w)
    BY <2>1, EndsEnded DEF Types
  <2> QED
    BY <1>1, <2>2 DEF SetHead
<1>4. CASE op[w].kind = "backup"
  <2>1. StartsScan(w, op[w].tip) /\ UNCHANGED <<status, sched>>
    BY <1>4 DEF SetHead
  <2>2. Moved(w) /\ op'[w].at = "read" /\ op'[w].base = op[w].tip /\ op'[w].todo = Paths /\ op'[w].touched = {}
    BY <1>2, <2>1, ScanStarts
  <2>3. op'[w].kind = "backup"
    BY <1>4, <2>2 DEF Moved
  <2> QED
    BY <1>1, <2>2, <2>3 DEF SetHead
<1> QED
  BY <1>2, <1>3, <1>4

LEMMA ScanIs ==
    ASSUME Types, NEW w \in Workers, NEW p \in Paths, Scan(w, p)
    PROVE  /\ op[w].at = "read" /\ Moved(w) /\ op'[w].at = "read"
           /\ op'[w].base = op[w].base /\ op'[w].tip = op[w].tip
           /\ op'[w].todo = op[w].todo \ {p} /\ op'[w].touched = op[w].touched \ {p}
           /\ op'[w].tree[p] = live[p] /\ \A q \in Paths \ {p} : op'[w].tree[q] = op[w].tree[q]
           /\ UNCHANGED <<live, repo, manager, state, events, history>>
<1> DEFINE k == op[w]
           t == [k.tree EXCEPT ![p] = live[p]]
           r == [k EXCEPT !.tree = t, !.todo = @ \ {p}, !.touched = @ \ {p}]
<1>1. k \in OpRecs /\ op \in [Workers -> OpRecs] /\ k.base <= Len(commits) /\ k.tip <= Len(commits) /\ live \in Trees
  BY DEF Types, OpTypes
<1>2. k.at = "read"
  BY DEF Scan
<1>3. k.tree \in Trees
  BY <1>1 DEF OpRecs
<1>4. t \in Trees /\ t[p] = live[p] /\ \A q \in Paths \ {p} : t[q] = k.tree[q]
  BY <1>1, <1>3 DEF Trees
<1>5. op' = [op EXCEPT ![w] = r]
  BY <1>1 DEF Scan
<1> HIDE DEF t
<1>6. r \in OpRecs /\ r.at = "read" /\ r.base = k.base /\ r.tip = k.tip /\ r.touched = k.touched \ {p}
      /\ r.todo = k.todo \ {p} /\ r.tree = t /\ r.kind = k.kind /\ r.gen = k.gen
  BY <1>1, <1>2, <1>4 DEF OpRecs
<1> HIDE DEF r
<1>7. UNCHANGED <<live, repo, manager, state, events, history>> /\ UNCHANGED <<status, sched>>
  BY DEF Scan, manager, state
<1>8. Moved(w) /\ op'[w] = r
  BY <1>1, <1>5, <1>6, <1>7, Moves DEF Types
<1> QED
  BY <1>2, <1>4, <1>6, <1>7, <1>8

\* A cycle ends only when there is nothing to commit and nothing to push.
LEMMA CommitIs ==
    ASSUME Types, NEW w \in Workers, CommitTree(w)
    PROVE  /\ op[w].at = "read" /\ op[w].todo = {}
           /\ UNCHANGED <<live, git, remote, conf, current, gens, closing, admin, boot, pushed, events, history>>
           /\ \/ /\ Ended(w) /\ op[w].tree = Tree(op[w].base) /\ UNCHANGED <<commits, head>>
                 /\ op[w].base = 0 \/ head = pushed[op[w].gen]
              \/ /\ Moved(w) /\ op'[w].at = "push" /\ op'[w].touched = op[w].touched
                 /\ op[w].tree = Tree(op[w].base) /\ UNCHANGED <<commits, head>>
              \/ /\ Moved(w) /\ op'[w].at = "push" /\ op'[w].touched = op[w].touched
                 /\ Grow(op[w].base, op[w].tree, FALSE, TRUE) /\ head' = Len(commits) + 1
<1> DEFINE k == op[w]
           r == [k EXCEPT !.at = "push", !.tree = NoFiles]
<1>1. k \in OpRecs /\ op \in [Workers -> OpRecs] /\ k.base <= Len(commits) /\ k.tip <= Len(commits)
  BY DEF Types, OpTypes
<1>2. op[w].at = "read" /\ op[w].todo = {}
      /\ UNCHANGED <<live, git, remote, conf, current, gens, closing, admin, boot, pushed, events, history>>
  BY DEF CommitTree
<1>3. Unchanged(w) => op[w].tree = Tree(op[w].base)
  BY DEF Unchanged, Tree
<1>4. r \in OpRecs /\ r.at = "push" /\ r.base = k.base /\ r.tip = k.tip /\ r.touched = k.touched
      /\ r.kind = k.kind /\ r.gen = k.gen
  BY <1>1, NoOpRec DEF OpRecs
<1>5. Ready(w) => op' = [op EXCEPT ![w] = r]
  BY <1>1 DEF Ready
<1> HIDE DEF r
<1>6. Ready(w) /\ UNCHANGED <<status, sched>> => Moved(w) /\ op'[w].at = "push" /\ op'[w].touched = op[w].touched
  BY <1>1, <1>4, <1>5, Moves DEF Types
<1>7. Ends(w, "ok") => Ended(w)
  BY EndsEnded DEF Types
<1> QED
  BY <1>2, <1>3, <1>6, <1>7 DEF CommitTree, Unpushed, NewCommit

\* A push ends the operation, with the branch of the remote where the local one
\* is when the remote took it.
LEMMA PushIs ==
    ASSUME Types, NEW w \in Workers, Push(w)
    PROVE  /\ op[w].at = "push" /\ Ended(w)
           /\ UNCHANGED <<live, commits, git, head, conf, current, gens, closing, admin, boot, mine, torn, unsynced, twin>>
           /\ \/ /\ head # 0 /\ Accepted(w) /\ remote' = head /\ rewound' = FALSE
                 /\ pushed' = pushed \/ pushed' = [pushed EXCEPT ![op[w].gen] = head]
              \/ /\ UNCHANGED <<remote, rewound, pushed>>
                 /\ op[w].kind = "backup" => Ends(w, "failed")
<1>1. op[w].at = "push"
      /\ UNCHANGED <<live, commits, git, head, conf, current, gens, closing, admin, boot, mine, torn, unsynced, twin>>
  BY DEF Push
<1>2. CASE head # 0 /\ Accepted(w)
  <2>1. PICK answered \in BOOLEAN : Pushes(w, answered)
    BY <1>2 DEF Push
  <2>2. \E s \in {"none", "ok", "failed"} : Ends(w, s)
    BY <2>1 DEF Pushes, Fails
  <2>3. Ended(w)
    BY <2>2, EndsEnded DEF Types
  <2> QED
    BY <1>1, <1>2, <2>1, <2>3 DEF Pushes
<1>3. CASE ~(head # 0 /\ Accepted(w))
  <2>1. UNCHANGED <<remote, rewound, pushed>> /\ (op[w].kind = "backup" => Ends(w, "failed"))
        /\ (Ends(w, "failed") \/ (Leaves(w) /\ UNCHANGED status))
    BY <1>3 DEF Push
  <2>2. Ended(w)
    BY <2>1, EndsEnded DEF Types, ManagerTypes, Ended
  <2> QED
    BY <1>1, <2>1, <2>2
<1> QED
  BY <1>2, <1>3

LEMMA FailsIs ==
    ASSUME Types, NEW w \in Workers, OpFails(w)
    PROVE  /\ Active(w) /\ Ended(w) /\ Ends(w, "failed") /\ torn' = (torn \/ op[w].at = "apply")
           /\ UNCHANGED <<live, repo, conf, current, gens, closing, admin, boot, pushed, mine, rewound, unsynced, twin>>
<1>1. Ends(w, "failed")
  BY DEF OpFails, Fails
<1> QED
  BY <1>1, EndsEnded DEF OpFails, Types, Active

\* A step of a worker: its operation ends or moves on, the Manager stands by.
WorkerStep(w) ==
    /\ Active(w) /\ (Ended(w) \/ Moved(w))
    /\ UNCHANGED <<git, conf, current, gens, closing, admin, twin>>
    /\ Moved(w) =>
          /\ op'[w].at \in {"plan", "apply"} => op'[w].kind \in {"backup", "pull"} /\ op'[w].tip # 0
          /\ op'[w].at = "read" => op'[w].kind = "backup"
          /\ op'[w].at = "push" => op'[w].kind \in {"backup", "force"}

Works(w) == \/ Compare(w) \/ Plan(w) \/ SetHead(w) \/ CommitTree(w) \/ Push(w) \/ OpFails(w)
            \/ \E p \in Paths : Apply(w, p) \/ Scan(w, p)

\* A worker does not both end and move on.
LEMMA EndedOrMoved ==
    ASSUME OpTypes, NEW w \in Workers, Ended(w), Moved(w)
    PROVE  FALSE
  BY NoOpRec DEF Ended, Leaves, Moved, OpTypes

LEMMA WorksSteps ==
    ASSUME Types, WorkInv, NEW w \in Workers, Works(w)
    PROVE  WorkerStep(w)
<1>1. CASE Compare(w)
  BY <1>1, CompareIs, EndedOrMoved DEF WorkerStep, Active, repo, history, Types
<1>2. CASE Plan(w)
  BY <1>2, PlanIs, EndedOrMoved DEF WorkerStep, WorkInv, Active, repo, history, Types, Moved
<1>3. CASE SetHead(w)
  BY <1>3, SetHeadIs, EndedOrMoved DEF WorkerStep, Active, history, Types
<1>4. CASE CommitTree(w)
  BY <1>4, CommitIs, EndedOrMoved DEF WorkerStep, WorkInv, Active, history, Types, Moved
<1>5. CASE Push(w)
  BY <1>5, PushIs, EndedOrMoved DEF WorkerStep, Active, Types
<1>6. CASE OpFails(w)
  BY <1>6, FailsIs, EndedOrMoved DEF WorkerStep, repo, Types
<1>7. ASSUME NEW p \in Paths, Apply(w, p) PROVE WorkerStep(w)
  BY <1>7, ApplyIs, EndedOrMoved DEF WorkerStep, WorkInv, Active, repo, manager, Types, Moved
<1>8. ASSUME NEW p \in Paths, Scan(w, p) PROVE WorkerStep(w)
  BY <1>8, ScanIs, EndedOrMoved DEF WorkerStep, WorkInv, Active, repo, manager, history, Types, Moved
<1> QED
  BY <1>1, <1>2, <1>3, <1>4, <1>5, <1>6, <1>7, <1>8 DEF Works

-----------------------------------------------------------------------------
(* Types *)

LEMMA GitStays ==
    ASSUME GitTypes, commits' = commits, git' \in BOOLEAN, head' \in 0 .. Len(commits),
           remote' \in 0 .. Len(commits), head' # 0 => git'
    PROVE  GitTypes'
  BY DEF GitTypes, Lines

LEMMA GitGrows ==
    ASSUME GitTypes, NEW parent \in 0 .. Len(commits), NEW tree \in Trees, NEW refused \in BOOLEAN,
           NEW ours \in BOOLEAN, Grow(parent, tree, refused, ours), git' \in BOOLEAN,
           head' \in 0 .. Len(commits) + 1, remote' \in 0 .. Len(commits) + 1, head' # 0 => git'
    PROVE  GitTypes' /\ Len(commits) \in Nat /\ Len(commits') = Len(commits) + 1
<1>1. Len(commits') = Len(commits) + 1 /\ commits' \in Seq(CommitRecs) /\ Lines'
  BY Grown
<1> QED
  BY <1>1 DEF GitTypes

\* The part of the types a worker's step keeps by being one.
LEMMA WorkerTypes ==
    ASSUME Types, NEW w \in Workers, WorkerStep(w), Len(commits) \in Nat, Len(commits') \in Nat,
           Len(commits) <= Len(commits'), pushed' \in [Gens -> 0 .. Len(commits')]
    PROVE  OpTypes' /\ ManagerTypes'
<1>1. CASE Ended(w)
  <2>1. OpTypes' /\ sched' \in [Gens -> {"off", "idle", "busy"}]
    BY <1>1, LeavesTypes, LeavesIs DEF Types, Ended
  <2> QED
    BY <1>1, <2>1 DEF Types, ManagerTypes, Ended, WorkerStep
<1>2. CASE Moved(w)
  <2>1. OpTypes'
    BY <1>2, MovedTypes DEF Types
  <2> QED
    BY <1>2, <2>1 DEF Types, ManagerTypes, Moved, WorkerStep
<1> QED
  BY <1>1, <1>2 DEF WorkerStep

LEMMA WorksTypes ==
    ASSUME Types, WorkInv, NEW w \in Workers, Works(w)
    PROVE  Types'
<1>1. WorkerStep(w)
  BY WorksSteps
<1>2. /\ Len(commits) \in Nat /\ pushed \in [Gens -> 0 .. Len(commits)]
      /\ head \in 0 .. Len(commits) /\ remote \in 0 .. Len(commits)
      /\ op[w].base \in 0 .. Len(commits) /\ op[w].tip \in 0 .. Len(commits) /\ op[w].tree \in Trees
      /\ git' = git /\ git \in BOOLEAN /\ (head # 0 => git)
  BY <1>1 DEF Types, GitTypes, ManagerTypes, OpTypes, OpRecs, WorkerStep
<1>3. CASE UNCHANGED <<commits, head, remote, live, mine, pushed>>
  <2>1. GitTypes'
    BY <1>2, <1>3, GitStays DEF Types
  <2> QED
    BY <1>1, <1>2, <1>3, <2>1, WorkerTypes DEF Types
<1>4. ASSUME NEW p \in Paths, Apply(w, p) PROVE Types'
  <2>1. UNCHANGED <<commits, head, remote, pushed>> /\ mine' = mine \ {p} /\ live' = [live EXCEPT ![p] = Tree(op[w].tip)[p]]
    BY <1>4, ApplyIs DEF repo, state
  <2>2. Tree(op[w].tip) \in Trees
    BY <1>2, TreeType DEF Types
  <2>3. live' \in Trees /\ mine' \subseteq Paths
    BY <2>1, <2>2 DEF Types, Trees
  <2>4. GitTypes'
    BY <1>2, <2>1, GitStays DEF Types
  <2> QED
    BY <1>1, <1>2, <2>1, <2>3, <2>4, WorkerTypes DEF Types
<1>5. CASE SetHead(w)
  <2>1. UNCHANGED <<commits, remote, live, mine>> /\ head' = op[w].tip /\ Active(w)
        /\ pushed' = [pushed EXCEPT ![op[w].gen] = op[w].tip]
    BY <1>5, SetHeadIs DEF history, Active
  <2>2. git
    BY <2>1 DEF WorkInv
  <2>3. GitTypes'
    BY <1>2, <2>1, <2>2, GitStays DEF Types
  <2>4. pushed' \in [Gens -> 0 .. Len(commits')]
    BY <1>2, <2>1
  <2> QED
    BY <1>1, <1>2, <2>1, <2>3, <2>4, WorkerTypes DEF Types
<1>6. CASE CommitTree(w)
  <2>1. UNCHANGED <<remote, live, mine, pushed>> /\ Active(w)
    BY <1>6, CommitIs DEF history, Active
  <2>2. CASE UNCHANGED <<commits, head>>
    BY <1>3, <2>1, <2>2
  <2>3. CASE Grow(op[w].base, op[w].tree, FALSE, TRUE) /\ head' = Len(commits) + 1
    <3>1. git
      BY <2>1 DEF WorkInv
    <3>2. head' \in 0 .. Len(commits) + 1 /\ remote' \in 0 .. Len(commits) + 1 /\ git'
      BY <1>2, <2>1, <2>3, <3>1
    <3>3. GitTypes' /\ Len(commits') = Len(commits) + 1
      BY <1>2, <2>3, <3>2, GitGrows DEF Types
    <3>4. pushed' \in [Gens -> 0 .. Len(commits')] /\ Len(commits') \in Nat /\ Len(commits) <= Len(commits')
      BY <1>2, <2>1, <3>3
    <3>5. OpTypes' /\ ManagerTypes'
      BY <1>1, <1>2, <3>4, WorkerTypes
    <3> QED
      BY <2>1, <3>3, <3>5 DEF Types
  <2> QED
    BY <1>6, <2>2, <2>3, CommitIs
<1>7. CASE Push(w)
  <2>1. UNCHANGED <<commits, head, live, mine>> /\ remote' \in {head, remote}
        /\ (pushed' = pushed \/ pushed' = [pushed EXCEPT ![op[w].gen] = head])
    BY <1>7, PushIs
  <2>2. GitTypes'
    BY <1>2, <2>1, GitStays DEF Types
  <2>3. pushed' \in [Gens -> 0 .. Len(commits')]
    BY <1>2, <2>1
  <2> QED
    BY <1>1, <1>2, <2>1, <2>2, <2>3, WorkerTypes DEF Types
<1>8. CASE Compare(w)
  BY <1>3, <1>8, CompareIs DEF repo, history
<1>9. CASE Plan(w)
  BY <1>3, <1>9, PlanIs DEF repo, history
<1>10. CASE OpFails(w)
  BY <1>3, <1>10, FailsIs DEF repo
<1>11. ASSUME NEW p \in Paths, Scan(w, p) PROVE Types'
  BY <1>3, <1>11, ScanIs DEF repo, history, state
<1> QED
  BY <1>4, <1>5, <1>6, <1>7, <1>8, <1>9, <1>10, <1>11 DEF Works

LEMMA TypesInit == Init => Types
<1> SUFFICES ASSUME Init PROVE Types
  OBVIOUS
<1>1. PICK start \in Starts :
        /\ live = start.live
        /\ \/ commits = <<>> /\ remote = 0
           \/ /\ commits = <<[parent |-> 0, line |-> {1}, tree |-> start.there, refused |-> FALSE, ours |-> FALSE]>>
              /\ remote = 1
  BY DEF Init
<1>2. live \in Trees /\ start.there \in Trees
  BY <1>1, BackupAssumption
<1>3. GitTypes
  <2>0. head = 0 /\ git = FALSE /\ git \in BOOLEAN
    BY Zenon DEF Init
  <2>1. CASE commits = <<>> /\ remote = 0
    <3>1. commits \in Seq(CommitRecs) /\ Len(commits) = 0
      BY <2>1
    <3> QED
      BY <2>0, <2>1, <3>1 DEF GitTypes, Lines
  <2>2. CASE /\ commits = <<[parent |-> 0, line |-> {1}, tree |-> start.there, refused |-> FALSE, ours |-> FALSE]>>
             /\ remote = 1
    <3> DEFINE rec == [parent |-> 0, line |-> {1}, tree |-> start.there, refused |-> FALSE, ours |-> FALSE]
    <3>1. rec \in CommitRecs /\ rec.parent = 0 /\ rec.line = {1}
      BY <1>2 DEF CommitRecs
    <3>2. commits = <<rec>> /\ remote = 1
      BY <1>1, <2>2
    <3> HIDE DEF rec
    <3>3. commits \in Seq(CommitRecs) /\ Len(commits) = 1 /\ commits[1] = rec
      BY <3>1, <3>2
    <3>4. Lines
      BY <3>1, <3>3 DEF Lines
    <3> QED
      BY <2>0, <3>2, <3>3, <3>4 DEF GitTypes
  <2> QED
    BY <1>1, <2>1, <2>2
<1>4. OpTypes
  BY NoOpRec, <1>3 DEF Init, OpTypes, GitTypes
<1>5. ManagerTypes
  BY BackupAssumption, <1>3 DEF Init, ManagerTypes, NoAdmin, Gens, GitTypes
<1> QED
  BY <1>2, <1>3, <1>4, <1>5 DEF Init, Types

\* Where no operation moves, and no commit is made.
LEMMA OpsStay ==
    ASSUME OpTypes, UNCHANGED <<op, commits>>
    PROVE  OpTypes'
  BY DEF OpTypes

LEMMA OpsGrow ==
    ASSUME OpTypes, UNCHANGED op, Len(commits) \in Nat, Len(commits') = Len(commits) + 1
    PROVE  OpTypes'
  BY DEF OpTypes, OpRecs

LEMMA NewOp ==
    ASSUME OpTypes, NEW w \in Workers, NEW kind \in {"backup", "pull", "force"}, NEW g \in 0 .. MaxGens,
           op' = [op EXCEPT ![w] = [NoOp EXCEPT !.at = "compare", !.kind = kind, !.gen = g]],
           UNCHANGED commits, Len(commits) \in Nat
    PROVE  OpTypes' /\ Only(w) /\ op'[w].at = "compare" /\ op'[w].kind = kind /\ op'[w].gen = g
<1> DEFINE r == [NoOp EXCEPT !.at = "compare", !.kind = kind, !.gen = g]
<1>1. r \in OpRecs /\ r.at = "compare" /\ r.kind = kind /\ r.gen = g /\ r.base = 0 /\ r.tip = 0
  BY NoOpRec DEF NoOp, OpRecs
<1>2. op' = [op EXCEPT ![w] = r]
  OBVIOUS
<1> HIDE DEF r
<1>3. op'[w] = r /\ Only(w) /\ op' \in [Workers -> OpRecs]
  BY <1>1, <1>2 DEF OpTypes, Only
<1>4. ASSUME NEW v \in Workers PROVE op'[v].base <= Len(commits) /\ op'[v].tip <= Len(commits)
  <2>1. CASE v = w
    <3>1. op'[v].base = 0 /\ op'[v].tip = 0
      BY <1>1, <1>3, <2>1
    <3> QED
      BY <3>1
  <2>2. CASE v # w
    BY <1>3, <2>2 DEF OpTypes, Only
  <2> QED
    BY <2>1, <2>2
<1>5. OpTypes'
  BY <1>3, <1>4 DEF OpTypes
<1> QED
  BY <1>1, <1>3, <1>5

\* An edit is noted by the operations that run, and changes nothing else of them.
LEMMA Noted ==
    ASSUME OpTypes, NEW p \in Paths, NEW c, Edit(p, c)
    PROVE  /\ OpTypes'
           /\ \A w \in Workers :
                /\ Active(w)' <=> Active(w)
                /\ op'[w].at = op[w].at /\ op'[w].kind = op[w].kind /\ op'[w].gen = op[w].gen
                /\ op'[w].base = op[w].base /\ op'[w].tip = op[w].tip /\ op'[w].tree = op[w].tree
                /\ op'[w].todo = op[w].todo /\ op'[w].deletes = op[w].deletes /\ op'[w].writes = op[w].writes
                /\ Active(w) => op'[w].touched = op[w].touched \union {p}
<1> DEFINE R(w) == [op[w] EXCEPT !.touched = @ \union {p}]
<1>1. commits' = commits /\ op' = [w \in Workers |-> IF op[w].at = "idle" THEN op[w] ELSE R(w)]
  BY DEF Edit, repo
<1>2. ASSUME NEW w \in Workers
      PROVE  /\ R(w) \in OpRecs /\ R(w).touched = op[w].touched \union {p}
             /\ R(w).at = op[w].at /\ R(w).kind = op[w].kind /\ R(w).gen = op[w].gen
             /\ R(w).base = op[w].base /\ R(w).tip = op[w].tip /\ R(w).tree = op[w].tree
             /\ R(w).todo = op[w].todo /\ R(w).deletes = op[w].deletes /\ R(w).writes = op[w].writes
  BY DEF OpTypes, OpRecs
<1> HIDE DEF R
<1>3. \A w \in Workers : op'[w] = IF op[w].at = "idle" THEN op[w] ELSE R(w)
  BY <1>1
<1>4. op' \in [Workers -> OpRecs]
  BY <1>1, <1>2 DEF OpTypes
<1> QED
  BY <1>1, <1>2, <1>3, <1>4 DEF OpTypes, Active

LEMMA TypesNext == Types /\ SchedInv /\ WorkInv /\ [Next]_vars => Types'
<1> SUFFICES ASSUME Types, SchedInv, WorkInv, [Next]_vars PROVE Types'
  OBVIOUS
<1> USE DEF Types
<1>0. /\ Len(commits) \in Nat /\ 0 \in 0 .. Len(commits) /\ head \in 0 .. Len(commits) /\ remote \in 0 .. Len(commits)
      /\ git \in BOOLEAN /\ (head # 0 => git) /\ commits \in Seq(CommitRecs)
  BY DEF GitTypes
<1>1. ASSUME NEW p \in Paths, NEW c \in Contents \union {None}, Edit(p, c) PROVE Types'
  <2>1. live' \in Trees /\ mine' \subseteq Paths /\ UNCHANGED <<repo, manager, state>>
    BY <1>1 DEF Edit, Trees
  <2> QED
    BY <1>1, <2>1, Noted DEF repo, manager, state, GitTypes, Lines, ManagerTypes
<1>2. ASSUME NEW tree \in Trees, NEW refused \in BOOLEAN, OtherPushes(tree, refused) PROVE Types'
  <2>1. Grow(remote, tree, refused, FALSE) /\ remote' = Len(commits) + 1
        /\ UNCHANGED <<live, git, head, manager, state, op, history>>
    BY <1>2 DEF OtherPushes
  <2>2. head' \in 0 .. Len(commits) + 1 /\ remote' \in 0 .. Len(commits) + 1 /\ git' \in BOOLEAN /\ (head' # 0 => git')
    BY <1>0, <2>1
  <2>3. GitTypes' /\ Len(commits') = Len(commits) + 1
    BY <1>0, <2>1, <2>2, GitGrows
  <2>4. OpTypes'
    BY <1>0, <2>1, <2>3, OpsGrow
  <2>5. ManagerTypes'
    BY <1>0, <2>1, <2>3 DEF ManagerTypes, manager, state
  <2> QED
    BY <2>1, <2>3, <2>4, <2>5 DEF history
<1>3. ASSUME NEW p \in Paths, NEW c \in Contents \union {None}, OtherCommits(p, c) PROVE Types'
  <2>1. Tree(remote) \in Trees
    BY <1>0, TreeType
  <2>2. [Tree(remote) EXCEPT ![p] = c] \in Trees
    BY <2>1 DEF Trees
  <2> QED
    BY <1>2, <1>3, <2>2 DEF OtherCommits
<1>4. CASE OtherRefused
  <2>1. Tree(remote) \in Trees
    BY <1>0, TreeType
  <2> QED
    BY <1>2, <1>4, <2>1 DEF OtherRefused
<1>5. CASE OtherRewinds
  <2>1. UNCHANGED <<live, commits, git, head, manager, state, op, mine>> /\ remote' = commits[remote].parent /\ remote # 0
    BY <1>5 DEF OtherRewinds
  <2>2. commits[remote] \in CommitRecs /\ commits[remote].parent < remote
    BY <1>0, <2>1, TreeType DEF GitTypes, Lines
  <2>3. remote' \in 0 .. Len(commits)
    BY <1>0, <2>1, <2>2 DEF CommitRecs
  <2>4. GitTypes'
    BY <1>0, <2>1, <2>3, GitStays
  <2> QED
    BY <2>1, <2>4, OpsStay DEF ManagerTypes, manager, state
<1>6. ASSUME NEW w \in Workers, Works(w) PROVE Types'
  BY <1>6, WorksTypes
<1>7. ASSUME NEW g \in Gens, Wake(g) PROVE Types'
  <2>1. g \in Workers /\ g \in 0 .. MaxGens
    BY BackupAssumption DEF Workers, Gens
  <2>2. op' = [op EXCEPT ![g] = [NoOp EXCEPT !.at = "compare", !.kind = "backup", !.gen = g]]
        /\ UNCHANGED <<live, repo, conf, current, gens, closing, admin, boot, state, mine>>
        /\ sched' = [sched EXCEPT ![g] = "busy"]
    BY <1>7 DEF Wake
  <2>3. OpTypes'
    BY <1>0, <2>1, <2>2, NewOp DEF repo
  <2> QED
    BY <2>2, <2>3 DEF ManagerTypes, repo, state, GitTypes, Lines
<1>8. ASSUME NEW g \in Gens, SchedulerExits(g) PROVE Types'
  BY <1>8, OpsStay DEF SchedulerExits, ManagerTypes, repo, state, history, GitTypes, Lines
<1>9. ASSUME NEW k \in {"pull", "force"}, Request(k) PROVE Types'
  <2>1. Http \in Workers /\ current \in 0 .. MaxGens
    BY BackupAssumption DEF Workers, ManagerTypes
  <2>2. op' = [op EXCEPT ![Http] = [NoOp EXCEPT !.at = "compare", !.kind = k, !.gen = current]]
        /\ UNCHANGED <<live, repo, manager, state, mine>>
    BY <1>9 DEF Request
  <2>3. OpTypes'
    BY <1>0, <2>1, <2>2, NewOp DEF repo
  <2> QED
    BY <2>2, <2>3 DEF ManagerTypes, repo, manager, state, GitTypes, Lines
<1>10. ASSUME UNCHANGED <<live, repo, op, mine>> PROVE live' \in Trees /\ mine' \subseteq Paths /\ GitTypes' /\ OpTypes'
  BY <1>10, OpsStay DEF repo, GitTypes, Lines
<1>11. CASE Reconfigure
  <2>1. closing' \subseteq Gens /\ current' = 0 /\ status' = "none"
    BY <1>11, BackupAssumption DEF Reconfigure, Detach, ManagerTypes, Gens
  <2>2. conf' = TRUE /\ conf' \in BOOLEAN /\ UNCHANGED <<live, repo, gens, sched, pushed, op, mine>>
    BY Zenon, <1>11 DEF Reconfigure, history
  <2>3. admin' \in [at : {"idle", "stop", "off", "build", "contact", "sync"}, todo : SUBSET Paths, adopted : BOOLEAN]
        /\ Len(commits') = Len(commits)
    BY <1>11 DEF Reconfigure, NoAdmin, repo
  <2> QED
    BY <1>10, <2>1, <2>2, <2>3 DEF ManagerTypes
<1>12. CASE Disable
  <2>1. closing' \subseteq Gens /\ current' = 0 /\ status' = "none"
    BY <1>12, BackupAssumption DEF Disable, Detach, ManagerTypes, Gens
  <2>2. conf' = FALSE /\ conf' \in BOOLEAN /\ UNCHANGED <<live, repo, gens, sched, pushed, op, mine>>
    BY Zenon, <1>12 DEF Disable, history
  <2>3. admin' \in [at : {"idle", "stop", "off", "build", "contact", "sync"}, todo : SUBSET Paths, adopted : BOOLEAN]
        /\ Len(commits') = Len(commits)
    BY <1>12 DEF Disable, NoAdmin, repo
  <2> QED
    BY <1>10, <2>1, <2>2, <2>3 DEF ManagerTypes
<1>13. CASE StopWaits
  BY <1>10, <1>13 DEF StopWaits, NoAdmin, ManagerTypes, repo, state, history
<1>14. CASE BootRuns
  BY <1>10, <1>14 DEF BootRuns, NoAdmin, ManagerTypes, repo, state, history
<1>15. ASSUME Activate, UNCHANGED <<conf, closing>>, gens < MaxGens, pushed' \in [Gens -> 0 .. Len(commits')]
       PROVE  ManagerTypes'
  <2>1. gens + 1 \in 0 .. MaxGens
    BY <1>0, <1>15, BackupAssumption DEF ManagerTypes
  <2>2. sched' \in [Gens -> {"off", "idle", "busy"}]
    BY <1>15, <2>1 DEF Activate, ManagerTypes
  <2> QED
    BY <1>15, <2>1, <2>2, BackupAssumption DEF Activate, ManagerTypes, NoAdmin
<1>16. CASE InitOpens
  <2>1. Activate /\ UNCHANGED <<conf, closing>> /\ gens < MaxGens /\ pushed' = [pushed EXCEPT ![gens + 1] = 0]
        /\ Len(commits') = Len(commits)
    BY <1>16 DEF InitOpens, SchedInv, repo
  <2>2. pushed' \in [Gens -> 0 .. Len(commits')]
    BY <1>0, <2>1 DEF ManagerTypes
  <2>3. ManagerTypes'
    BY <1>15, <2>1, <2>2
  <2> QED
    BY <1>10, <1>16, <2>3 DEF InitOpens, history
<1>17. CASE InitCreates
  <2>1. admin.at = "build" /\ git' = TRUE /\ git' \in BOOLEAN /\ UNCHANGED <<live, remote, conf, closing, op, mine>> /\ gens < MaxGens
    BY Zenon, <1>17 DEF InitCreates, history, SchedInv
  <2>2. CASE UNCHANGED <<commits, head>>
    <3>1. GitTypes' /\ OpTypes'
      BY <1>0, <2>1, <2>2, GitStays, OpsStay
    <3>2. CASE Activate /\ pushed' = [pushed EXCEPT ![gens + 1] = 0]
      <4>1. pushed' \in [Gens -> 0 .. Len(commits')]
        BY <1>0, <2>2, <3>2 DEF ManagerTypes
      <4>2. ManagerTypes'
        BY <1>15, <2>1, <3>2, <4>1
      <4> QED
        BY <2>1, <3>1, <4>2
    <3>3. CASE admin' = [NoAdmin EXCEPT !.at = "contact"] /\ UNCHANGED <<current, gens, sched, state>>
      <4>1. ManagerTypes'
        BY <2>1, <2>2, <3>3 DEF state, NoAdmin, ManagerTypes
      <4> QED
        BY <2>1, <3>1, <4>1
    <3> QED
      BY <1>17, <3>2, <3>3 DEF InitCreates
  <2>3. CASE NewCommit(0, live) /\ head' = Len(commits) + 1 /\ Activate /\ pushed' = [pushed EXCEPT ![gens + 1] = 0]
    <3>1. Grow(0, live, FALSE, TRUE)
      BY <2>3 DEF NewCommit
    <3>2. head' \in 0 .. Len(commits) + 1 /\ remote' \in 0 .. Len(commits) + 1 /\ git' /\ git' \in BOOLEAN
          /\ 0 \in 0 .. Len(commits) /\ live \in Trees /\ GitTypes
      BY <1>0, <2>1, <2>3
    <3>3. GitTypes' /\ Len(commits') = Len(commits) + 1
      BY <3>1, <3>2, GitGrows
    <3>4. OpTypes'
      BY <1>0, <2>1, <3>3, OpsGrow
    <3>5. Len(commits') \in Nat /\ 0 \in 0 .. Len(commits') /\ Len(commits) <= Len(commits')
      BY <1>0, <3>3
    <3>6. pushed' \in [Gens -> 0 .. Len(commits')]
      <4>1. pushed \in [Gens -> 0 .. Len(commits')]
        BY <1>0, <3>5 DEF ManagerTypes
      <4> QED
        BY <2>3, <3>5, <4>1
    <3>7. ManagerTypes'
      BY <1>15, <2>1, <2>3, <3>6
    <3> QED
      BY <2>1, <3>3, <3>4, <3>7
  <2> QED
    BY <1>17, <2>2, <2>3 DEF InitCreates
<1>18. CASE Contact
  <2>1. admin.at = "contact" /\ head' = remote /\ UNCHANGED <<live, commits, git, remote, op, mine>>
        /\ UNCHANGED <<conf, current, gens, sched, closing, state>>
        /\ admin' = [at |-> "sync", todo |-> Paths, adopted |-> TRUE]
    BY <1>18 DEF Contact, history
  <2>2. git
    BY <2>1 DEF WorkInv
  <2>3. GitTypes' /\ OpTypes'
    BY <1>0, <2>1, <2>2, GitStays, OpsStay
  <2> QED
    BY <2>1, <2>3 DEF ManagerTypes, state
<1>19. ASSUME NEW p \in Paths, Sync(p) PROVE Types'
  <2>1. /\ live' = (IF Missing(p) THEN [live EXCEPT ![p] = Tree(head)[p]] ELSE live)
        /\ mine' = (IF Missing(p) THEN mine \ {p} ELSE mine)
        /\ admin' = [admin EXCEPT !.todo = @ \ {p}]
        /\ UNCHANGED <<repo, conf, current, gens, sched, closing, state, op>>
    BY <1>19 DEF Sync
  <2>2. Tree(head) \in Trees
    BY <1>0, TreeType
  <2>3. live' \in Trees /\ mine' \subseteq Paths
    BY <2>1, <2>2 DEF Trees
  <2>4. GitTypes' /\ OpTypes'
    BY <2>1, OpsStay DEF repo, GitTypes, Lines
  <2> QED
    BY <2>1, <2>3, <2>4 DEF ManagerTypes, repo, state
<1>20. CASE Contacted
  <2>1. Activate /\ UNCHANGED <<conf, closing>> /\ gens < MaxGens /\ pushed' = [pushed EXCEPT ![gens + 1] = head]
        /\ Len(commits') = Len(commits)
    BY <1>20 DEF Contacted, SchedInv, repo
  <2>2. pushed' \in [Gens -> 0 .. Len(commits')]
    BY <1>0, <2>1 DEF ManagerTypes
  <2>3. ManagerTypes'
    BY <1>15, <2>1, <2>2
  <2> QED
    BY <1>10, <1>20, <2>3 DEF Contacted, history
<1>21. CASE ContactFails
  <2>1. git' = FALSE /\ git' \in BOOLEAN /\ head' = 0 /\ UNCHANGED <<live, commits, remote, conf, current, gens, sched, closing, state, op>>
        /\ mine' \subseteq Paths /\ admin' = NoAdmin
    BY Zenon, <1>21 DEF ContactFails, Abandon, Kept
  <2>2. GitTypes' /\ OpTypes'
    BY <1>0, <2>1, GitStays, OpsStay
  <2> QED
    BY <2>1, <2>2 DEF ManagerTypes, NoAdmin, state
<1>22. ASSUME NEW d \in BOOLEAN, Restart(d) PROVE Types'
  <2>1. git' \in BOOLEAN /\ head' \in 0 .. Len(commits) /\ (head' # 0 => git') /\ UNCHANGED <<live, commits, remote, conf>>
    BY <1>0, <1>22 DEF Restart
  <2>2. GitTypes'
    BY <1>0, <2>1, GitStays
  <2>3. OpTypes'
    BY <1>0, <1>22, <2>1, NoOpRec DEF Restart, OpTypes
  <2>4. ManagerTypes' /\ mine' \subseteq Paths
    BY <1>0, <1>22, <2>1, BackupAssumption DEF Restart, ManagerTypes, NoAdmin, Kept
  <2> QED
    BY <2>1, <2>2, <2>3, <2>4
<1>23. CASE UNCHANGED vars
  BY <1>10, <1>23 DEF vars, ManagerTypes, manager, state, history, repo
<1> QED
  BY <1>1, <1>3, <1>4, <1>5, <1>6, <1>7, <1>8, <1>9, <1>11, <1>12, <1>13, <1>14, <1>16, <1>17, <1>18, <1>19,
     <1>20, <1>21, <1>22, <1>23 DEF Next, Works

-----------------------------------------------------------------------------
(* Schedulers and workers *)

LEMMA SchedInit == Init => SchedInv /\ WorkInv
  BY NoOpRec, BackupAssumption DEF Init, SchedInv, WorkInv, Active, NoAdmin, Gens, Workers

LEMMA SchedNext == Types /\ SchedInv /\ WorkInv /\ [Next]_vars => SchedInv'
<1> SUFFICES ASSUME Types, SchedInv, WorkInv, [Next]_vars PROVE SchedInv'
  OBVIOUS
<1>0. /\ gens \in 0 .. MaxGens /\ current \in 0 .. gens /\ closing \subseteq Gens /\ MaxGens \in Nat
      /\ sched \in [Gens -> {"off", "idle", "busy"}] /\ op \in [Workers -> OpRecs]
      /\ Gens \subseteq Workers /\ Http \notin Gens /\ Workers = Gens \union {Http}
  BY BackupAssumption DEF Types, ManagerTypes, OpTypes, Gens, Workers
<1> DEFINE Same == UNCHANGED <<gens, sched, closing, current, conf>> /\ \A g \in Gens : Active(g)' <=> Active(g)
<1>1. ASSUME Same, admin' = admin PROVE SchedInv'
  BY <1>1 DEF SchedInv
<1>2. ASSUME op' = op PROVE \A g \in Gens : Active(g)' <=> Active(g)
  BY <1>2 DEF Active
<1>3. ASSUME NEW p \in Paths, NEW c \in Contents \union {None}, Edit(p, c) PROVE SchedInv'
  BY <1>0, <1>1, <1>3, Noted DEF Edit, manager, Types
<1>4. ASSUME UNCHANGED <<manager, op>> PROVE SchedInv'
  BY <1>1, <1>2, <1>4 DEF manager
<1>5. ASSUME NEW w \in Workers, Works(w) PROVE SchedInv'
  <2>1. WorkerStep(w)
    BY <1>5, WorksSteps
  <2>2. CASE Ended(w)
    <3>1. /\ \A v \in Workers \ {w} : op'[v] = op[v]
          /\ op'[w].at = "idle" /\ \A g \in Gens : sched'[g] = IF g = w THEN "idle" ELSE sched[g]
      BY <2>2, LeavesIs, NoOpRec DEF Ended, Only, Types
    <3> QED
      BY <1>0, <2>1, <3>1 DEF WorkerStep, SchedInv, Active
  <2>3. CASE Moved(w)
    <3>1. Same
      BY <1>0, <2>1, <2>3 DEF WorkerStep, Moved, Only, Active
    <3> QED
      BY <1>1, <2>1, <3>1 DEF WorkerStep
  <2> QED
    BY <2>1, <2>2, <2>3 DEF WorkerStep
<1>6. ASSUME NEW g \in Gens, Wake(g) PROVE SchedInv'
  <2>0. /\ g \in Workers /\ g \in 0 .. MaxGens /\ UNCHANGED commits /\ Len(commits) \in Nat /\ OpTypes
        /\ op' = [op EXCEPT ![g] = [NoOp EXCEPT !.at = "compare", !.kind = "backup", !.gen = g]]
    BY <1>0, <1>6 DEF Wake, Types, GitTypes, repo, Gens
  <2>1. Only(g) /\ op'[g].at = "compare"
    BY <2>0, NewOp
  <2>2. sched' = [sched EXCEPT ![g] = "busy"] /\ UNCHANGED <<gens, closing, current, conf, admin>> /\ sched[g] = "idle"
    BY <1>6 DEF Wake
  <2> QED
    BY <1>0, <2>1, <2>2 DEF SchedInv, Only, Active
<1>7. ASSUME NEW g \in Gens, SchedulerExits(g) PROVE SchedInv'
  <2>1. sched[g] = "idle" /\ g \in closing /\ sched' = [sched EXCEPT ![g] = "off"] /\ closing' = closing \ {g}
        /\ UNCHANGED <<gens, current, conf, admin, op>>
    BY <1>7 DEF SchedulerExits
  <2> QED
    BY <1>0, <2>1 DEF SchedInv, Active
<1>8. ASSUME NEW k \in {"pull", "force"}, Request(k) PROVE SchedInv'
  <2>0. /\ Http \in Workers /\ current \in 0 .. MaxGens /\ UNCHANGED commits /\ Len(commits) \in Nat /\ OpTypes
        /\ op' = [op EXCEPT ![Http] = [NoOp EXCEPT !.at = "compare", !.kind = k, !.gen = current]]
        /\ UNCHANGED manager
    BY <1>0, <1>8 DEF Request, Types, GitTypes, repo
  <2>1. Only(Http) /\ UNCHANGED manager
    BY <2>0, NewOp
  <2>2. Same /\ admin' = admin
    BY <1>0, <2>1 DEF Only, manager, Active
  <2> QED
    BY <1>1, <2>2
<1>9. CASE Reconfigure
  <2>1. admin.at = "idle" /\ gens < MaxGens /\ admin'.at = "stop" /\ conf' /\ UNCHANGED <<gens, sched, op>>
    BY <1>9 DEF Reconfigure, NoAdmin
  <2>2. closing = {} /\ current' = 0 /\ closing' = IF current = 0 THEN closing ELSE closing \union {current}
    BY <1>9, <2>1 DEF Reconfigure, Detach, SchedInv
  <2> QED
    BY <1>2, <2>1, <2>2 DEF SchedInv
<1>10. CASE Disable
  <2>1. admin.at = "idle" /\ admin'.at = "off" /\ UNCHANGED <<gens, sched, op>>
    BY <1>10 DEF Disable, NoAdmin
  <2>2. closing = {} /\ current' = 0 /\ closing' = IF current = 0 THEN closing ELSE closing \union {current}
    BY <1>10, <2>1 DEF Disable, Detach, SchedInv
  <2> QED
    BY <1>2, <2>1, <2>2 DEF SchedInv
<1>11. CASE StopWaits
  <2>1. closing = {} /\ UNCHANGED <<conf, current, gens, sched, closing, op>>
        /\ \/ admin.at = "stop" /\ admin'.at = "build"
           \/ admin.at = "off" /\ admin'.at = "idle"
    BY <1>11 DEF StopWaits, Stopped, NoAdmin
  <2> QED
    BY <1>2, <2>1 DEF SchedInv
<1>12. CASE BootRuns
  <2>1. admin.at = "idle" /\ gens < MaxGens /\ UNCHANGED <<conf, current, gens, sched, closing, op>>
        /\ (admin'.at = "idle" \/ (admin'.at = "build" /\ current = 0 /\ conf))
    BY <1>12 DEF BootRuns, BootStarts, NoAdmin
  <2> QED
    BY <1>2, <2>1 DEF SchedInv
<1>13. ASSUME Activate, admin.at \notin {"idle", "stop", "off"}, UNCHANGED <<conf, closing, op>> PROVE SchedInv'
  <2>1. \A g \in Gens : sched[g] = "off" /\ ~Active(g)
    BY <1>0, <1>13 DEF SchedInv, Gens
  <2>2. gens < MaxGens /\ closing = {} /\ conf
    BY <1>13 DEF SchedInv
  <2>3. gens + 1 \in Gens /\ sched' = [sched EXCEPT ![gens + 1] = "idle"] /\ current' = gens + 1 /\ admin'.at = "idle"
    BY <1>0, <1>13, <2>2 DEF Activate, NoAdmin, Gens
  <2> QED
    BY <1>0, <1>2, <1>13, <2>1, <2>2, <2>3 DEF SchedInv
<1>14. CASE InitOpens
  BY <1>13, <1>14 DEF InitOpens
<1>15. CASE InitCreates
  <2>1. admin.at = "build" /\ UNCHANGED <<conf, closing, op>>
    BY <1>15 DEF InitCreates
  <2>2. CASE Activate
    BY <1>13, <2>1, <2>2
  <2>3. CASE admin' = [NoAdmin EXCEPT !.at = "contact"] /\ UNCHANGED <<current, gens, sched>>
    BY <1>2, <2>1, <2>3 DEF SchedInv, NoAdmin
  <2> QED
    BY <1>15, <2>2, <2>3 DEF InitCreates
<1>16. CASE Contact
  <2>1. admin.at = "contact" /\ admin'.at = "sync" /\ UNCHANGED <<conf, current, gens, sched, closing, op>>
    BY <1>16 DEF Contact
  <2> QED
    BY <1>2, <2>1 DEF SchedInv
<1>17. ASSUME NEW p \in Paths, Sync(p) PROVE SchedInv'
  <2>1. admin'.at = admin.at /\ UNCHANGED <<conf, current, gens, sched, closing, op>>
    BY <1>17 DEF Sync, Types, ManagerTypes
  <2> QED
    BY <1>2, <2>1 DEF SchedInv
<1>18. CASE Contacted
  BY <1>13, <1>18 DEF Contacted
<1>19. CASE ContactFails
  <2>1. admin.at \in {"contact", "sync"} /\ admin'.at = "idle" /\ UNCHANGED <<conf, current, gens, sched, closing, op>>
    BY <1>19 DEF ContactFails, NoAdmin
  <2> QED
    BY <1>2, <2>1 DEF SchedInv
<1>20. ASSUME NEW d \in BOOLEAN, Restart(d) PROVE SchedInv'
  <2>1. /\ current' = 0 /\ gens' = 0 /\ admin'.at = "idle" /\ closing' = {}
        /\ \A g \in Gens : sched'[g] = "off" /\ op'[g].at = "idle"
    BY <1>0, <1>20, NoOpRec DEF Restart, NoAdmin
  <2> QED
    BY <2>1 DEF SchedInv, Active
<1>21. CASE UNCHANGED vars
  BY <1>4, <1>21 DEF vars
<1>22. CASE \/ \E p \in Paths, c \in Contents \union {None} : OtherCommits(p, c)
            \/ OtherRefused \/ OtherRewinds
  BY <1>4, <1>22 DEF OtherCommits, OtherRefused, OtherPushes, OtherRewinds
<1> QED
  BY <1>3, <1>5, <1>6, <1>7, <1>8, <1>9, <1>10, <1>11, <1>12, <1>14, <1>15, <1>16, <1>17, <1>18, <1>19,
     <1>20, <1>21, <1>22 DEF Next, Works

\* Where the Manager and the workers stand still, .git stays too.
LEMMA WorkNext == Types /\ SchedInv /\ WorkInv /\ [Next]_vars => WorkInv'
<1> SUFFICES ASSUME Types, SchedInv, WorkInv, [Next]_vars PROVE WorkInv'
  OBVIOUS
<1>0. /\ gens \in 0 .. MaxGens /\ current \in 0 .. gens /\ closing \subseteq Gens /\ MaxGens \in Nat
      /\ sched \in [Gens -> {"off", "idle", "busy"}] /\ op \in [Workers -> OpRecs] /\ OpTypes
      /\ Gens \subseteq Workers /\ Http \notin Gens /\ Workers = Gens \union {Http}
      /\ Len(commits) \in Nat /\ Gens \subseteq 0 .. MaxGens
  BY BackupAssumption DEF Types, ManagerTypes, OpTypes, GitTypes, Gens, Workers
<1>1. ASSUME \A w \in Workers : /\ Active(w)' <=> Active(w) /\ op'[w].at = op[w].at
                                /\ op'[w].kind = op[w].kind /\ op'[w].gen = op[w].gen /\ op'[w].tip = op[w].tip,
             UNCHANGED <<git, current, sched, twin>>,
             admin'.at \in {"contact", "sync"} => admin.at \in {"contact", "sync"}
      PROVE  WorkInv'
  BY <1>1 DEF WorkInv
<1>2. ASSUME op' = op PROVE \A w \in Workers : /\ Active(w)' <=> Active(w) /\ op'[w].at = op[w].at
                                /\ op'[w].kind = op[w].kind /\ op'[w].gen = op[w].gen /\ op'[w].tip = op[w].tip
  BY <1>2 DEF Active
<1>3. ASSUME NEW p \in Paths, NEW c \in Contents \union {None}, Edit(p, c) PROVE WorkInv'
  <2>1. UNCHANGED <<git, current, sched, twin, admin>>
    BY <1>3 DEF Edit, manager, repo
  <2> QED
    BY <1>0, <1>1, <1>3, <2>1, Noted
<1>4. ASSUME UNCHANGED <<git, manager, op, twin>> PROVE WorkInv'
  BY <1>1, <1>2, <1>4 DEF manager
<1>5. ASSUME NEW w \in Workers, Works(w) PROVE WorkInv'
  <2>1. WorkerStep(w)
    BY <1>5, WorksSteps
  <2>2. Active(w) /\ UNCHANGED <<git, current, admin, twin>>
    BY <2>1 DEF WorkerStep
  <2>3. git /\ admin.at \notin {"contact", "sync"}
    BY <2>2 DEF WorkInv
  <2>4. CASE Ended(w)
    <3>1. /\ \A v \in Workers \ {w} : op'[v] = op[v]
          /\ op'[w].at = "idle"
      BY <2>4, LeavesIs, NoOpRec DEF Ended, Only, Types
    <3> QED
      BY <2>2, <2>3, <3>1 DEF WorkInv, Active
  <2>5. CASE Moved(w)
    <3>1. /\ \A v \in Workers \ {w} : op'[v] = op[v]
          /\ op'[w].kind = op[w].kind /\ op'[w].gen = op[w].gen
          /\ op'[w].at \in {"plan", "apply"} => op'[w].kind \in {"backup", "pull"} /\ op'[w].tip # 0
          /\ op'[w].at = "read" => op'[w].kind = "backup"
          /\ op'[w].at = "push" => op'[w].kind \in {"backup", "force"}
      BY <2>1, <2>5 DEF WorkerStep, Moved, Only
    <3> QED
      BY <2>2, <2>3, <3>1 DEF WorkInv, Active
  <2> QED
    BY <2>1, <2>4, <2>5 DEF WorkerStep
<1>6. ASSUME NEW w \in Workers, NEW k \in {"backup", "pull", "force"}, NEW g \in 0 .. MaxGens,
             op' = [op EXCEPT ![w] = [NoOp EXCEPT !.at = "compare", !.kind = k, !.gen = g]],
             w \in Gens => k = "backup" /\ g = w, UNCHANGED <<repo, current, admin>>, ~Active(w), Meets(w),
             git, admin.at \notin {"contact", "sync"}
      PROVE  WorkInv'
  <2>0. OpTypes /\ UNCHANGED commits /\ Len(commits) \in Nat
    BY <1>0, <1>6 DEF repo
  <2>1. Only(w) /\ op'[w].at = "compare" /\ op'[w].kind = k /\ op'[w].gen = g
    BY <1>6, <2>0, NewOp
  <2>2. git' /\ admin'.at \notin {"contact", "sync"}
    BY <1>6 DEF repo
  <2>3. ASSUME NEW v \in Workers, Active(v)'
        PROVE  /\ op'[v].kind # "none"
               /\ v \in Gens => op'[v].kind = "backup" /\ op'[v].gen = v
               /\ op'[v].at \in {"plan", "apply"} => op'[v].kind \in {"backup", "pull"} /\ op'[v].tip # 0
               /\ op'[v].at = "read" => op'[v].kind = "backup"
               /\ op'[v].at = "push" => op'[v].kind \in {"backup", "force"}
    <3>1. CASE v = w
      BY <1>6, <2>1, <3>1
    <3>2. CASE v # w
      BY <2>1, <2>3, <3>2 DEF Only, Active, WorkInv
    <3> QED
      BY <3>1, <3>2
  <2>4. ~twin' => \A u, v \in Workers : Active(u)' /\ Active(v)' => u = v
    <3>1. ~twin' => \A v \in Workers \ {w} : ~Active(v)
      BY Zenon, <1>6 DEF Meets
    <3>2. \A v \in Workers \ {w} : Active(v)' <=> Active(v)
      BY <2>1 DEF Only, Active
    <3> QED
      BY <3>1, <3>2
  <2> QED
    BY <2>2, <2>3, <2>4 DEF WorkInv
<1>7. ASSUME NEW g \in Gens, Wake(g) PROVE WorkInv'
  <2>1. /\ sched[g] = "idle" /\ Meets(g) /\ UNCHANGED <<repo, current, admin>>
        /\ op' = [op EXCEPT ![g] = [NoOp EXCEPT !.at = "compare", !.kind = "backup", !.gen = g]]
    BY <1>7 DEF Wake
  <2>2. ~Active(g) /\ git
    BY <2>1 DEF SchedInv, WorkInv
  <2>3. admin.at \notin {"contact", "sync"}
    BY <1>0, <2>1 DEF SchedInv, Gens
  <2> QED
    BY <1>0, <1>6, <2>1, <2>2, <2>3
<1>8. ASSUME NEW k \in {"pull", "force"}, Request(k) PROVE WorkInv'
  <2>1. /\ ~Active(Http) /\ Meets(Http) /\ UNCHANGED <<repo, current, admin>> /\ current # 0
        /\ op' = [op EXCEPT ![Http] = [NoOp EXCEPT !.at = "compare", !.kind = k, !.gen = current]]
    BY <1>8 DEF Request, manager, Active
  <2>2. git /\ admin.at \notin {"contact", "sync"}
    BY <2>1 DEF SchedInv, WorkInv
  <2>3. Http \in Workers /\ current \in 0 .. MaxGens /\ Http \notin Gens
    BY <1>0
  <2> QED
    BY <1>6, <2>1, <2>2, <2>3
<1>9. CASE Reconfigure \/ Disable
  <2>1. current' = 0 /\ UNCHANGED <<git, op, sched, twin>> /\ admin'.at \notin {"contact", "sync"}
    BY <1>9 DEF Reconfigure, Disable, Detach, NoAdmin, history, repo
  <2> QED
    BY <1>2, <2>1 DEF WorkInv
<1>10. CASE StopWaits \/ BootRuns
  <2>1. UNCHANGED <<git, current, op, sched, twin>> /\ admin'.at \notin {"contact", "sync"}
    BY <1>10 DEF StopWaits, BootRuns, NoAdmin, history, repo
  <2> QED
    BY <1>1, <1>2, <2>1
<1>11. ASSUME Activate, git', UNCHANGED <<op, twin>>, git \/ \A w \in Workers : ~Active(w) PROVE WorkInv'
  <2>1. admin'.at = "idle"
    BY <1>11 DEF Activate, NoAdmin
  <2> QED
    BY <1>2, <1>11, <2>1 DEF WorkInv
<1>12. CASE InitOpens \/ Contacted
  <2>1. Activate /\ git' /\ UNCHANGED <<git, op, twin>>
    BY <1>12 DEF InitOpens, Contacted, WorkInv, repo, history
  <2> QED
    BY <1>11, <2>1
<1>13. CASE InitCreates
  <2>1. git' /\ UNCHANGED <<op, twin>> /\ \A w \in Workers : ~Active(w)
    BY <1>13 DEF InitCreates, history, WorkInv
  <2>2. CASE Activate
    BY <1>11, <2>1, <2>2
  <2>3. CASE ~Activate
    <3>1. UNCHANGED <<current, sched>>
      BY <1>13, <2>3 DEF InitCreates
    <3> QED
      BY <1>2, <2>1, <3>1 DEF WorkInv
  <2> QED
    BY <2>2, <2>3
<1>14. CASE Contact
  <2>1. UNCHANGED <<git, current, op, sched, twin>> /\ admin.at = "contact"
    BY <1>14 DEF Contact, history
  <2> QED
    BY <1>1, <1>2, <2>1
<1>15. ASSUME NEW p \in Paths, Sync(p) PROVE WorkInv'
  <2>1. UNCHANGED <<git, current, op, sched, twin>> /\ admin.at = "sync"
    BY <1>15 DEF Sync, history, repo
  <2> QED
    BY <1>1, <1>2, <2>1
<1>16. CASE ContactFails
  <2>1. admin.at \in {"contact", "sync"} /\ admin'.at = "idle" /\ UNCHANGED <<current, sched, op, twin>>
    BY <1>16 DEF ContactFails, NoAdmin
  <2>2. current = 0 /\ \A g \in Gens : sched[g] = "off"
    BY <1>0, <2>1 DEF SchedInv, Gens
  <2>3. \A w \in Workers : ~Active(w)
    BY <2>1 DEF WorkInv
  <2> QED
    BY <1>2, <2>1, <2>2, <2>3 DEF WorkInv
<1>17. ASSUME NEW d \in BOOLEAN, Restart(d) PROVE WorkInv'
  <2>1. /\ current' = 0 /\ admin'.at = "idle" /\ \A g \in Gens : sched'[g] = "off"
        /\ \A w \in Workers : op'[w].at = "idle"
    BY <1>0, <1>17, NoOpRec DEF Restart, NoAdmin
  <2> QED
    BY <2>1 DEF WorkInv, Active
<1>18. CASE UNCHANGED vars
  BY <1>4, <1>18 DEF vars, history, repo
<1>19. CASE \E p \in Paths, c \in Contents \union {None} : OtherCommits(p, c)
  BY <1>4, <1>19 DEF OtherCommits, OtherPushes, history
<1>20. CASE OtherRefused \/ OtherRewinds
  BY <1>4, <1>20 DEF OtherRefused, OtherPushes, OtherRewinds, history
<1>21. ASSUME NEW g \in Gens, SchedulerExits(g) PROVE WorkInv'
  <2>1. UNCHANGED <<git, current, admin, op, twin>> /\ \A h \in Gens : sched'[h] \in {sched[h], "off"}
    BY <1>0, <1>21 DEF SchedulerExits, repo, history
  <2> QED
    BY <1>2, <2>1 DEF WorkInv
<1> QED
  BY <1>3, <1>5, <1>7, <1>8, <1>9, <1>10, <1>12, <1>13, <1>14, <1>15, <1>16, <1>17, <1>18, <1>19, <1>20, <1>21
     DEF Next, Works

\* The part that stands by itself.
Sound == Types /\ SchedInv /\ WorkInv

LEMMA SoundAlways == Spec => []Sound
<1>1. Init => Sound
  BY TypesInit, SchedInit DEF Sound
<1>2. Sound /\ [Next]_vars => Sound'
  BY TypesNext, SchedNext, WorkNext DEF Sound
<1> QED
  BY <1>1, <1>2, PTL DEF Spec

LEMMA SoundTypeOK == ASSUME Sound PROVE TypeOK
<1>1. Types /\ GitTypes /\ OpTypes /\ ManagerTypes /\ Lines
  BY DEF Sound, Types, GitTypes
<1> DEFINE n == Len(commits)
           T == [parent : 0 .. n, line : SUBSET (1 .. n), tree : Trees, refused : BOOLEAN, ours : BOOLEAN]
<1>2. n \in Nat /\ commits \in Seq(CommitRecs) /\ DOMAIN commits = 1 .. n
  BY <1>1 DEF GitTypes
<1>3. ASSUME NEW e \in 1 .. n PROVE commits[e] \in T /\ commits[e].parent < e
  <2>1. commits[e] \in CommitRecs /\ commits[e].parent < e /\ commits[e].line \subseteq 1 .. e
    BY <1>1, <1>2 DEF Lines
  <2>2. commits[e].parent \in 0 .. n /\ commits[e].line \subseteq 1 .. n
    BY <1>2, <2>1 DEF CommitRecs
  <2> QED
    BY <2>1, <2>2 DEF CommitRecs
<1> HIDE DEF T
<1>4. commits \in Seq(T)
  BY <1>2, <1>3
<1>5. \A g \in Gens : sched[g] = "busy" <=> op[g].at # "idle"
  BY DEF Sound, SchedInv, Active
<1> USE DEF T
<1> QED
  BY <1>1, <1>2, <1>3, <1>4, <1>5 DEF TypeOK, Types, GitTypes, ManagerTypes

LEMMA AtMostOne ==
    ASSUME NEW S, \A x, y \in S : x = y
    PROVE  Cardinality(S) <= 1
<1>1. CASE S = {}
  BY <1>1, FS_EmptySet
<1>2. CASE S # {}
  <2>1. PICK x : x \in S
    BY <1>2
  <2>2. S = {x}
    BY <2>1
  <2> QED
    BY <2>2, FS_Singleton
<1> QED
  BY <1>1, <1>2

\* The Manager stops the scheduler of a Repository before it builds the next,
\* so that one at most runs, none against the settings, and every record keeps
\* its shape (Manager.Reconfigure, Disable and bootInBackground).
THEOREM SchedulersSound == Spec => []SchedulerSound
<1>1. Sound => OneScheduler
  <2> SUFFICES ASSUME Sound PROVE OneScheduler
    OBVIOUS
  <2> DEFINE S == {g \in Gens : sched[g] # "off"}
  <2>1. \A x, y \in S : x = y
    BY DEF Sound, SchedInv, Gens
  <2> HIDE DEF S
  <2>2. Cardinality(S) <= 1
    BY <2>1, AtMostOne
  <2> QED
    BY <2>2 DEF OneScheduler, S
<1>2. Sound => DisabledStaysOff
  BY DEF Sound, SchedInv, DisabledStaysOff, Gens
<1>3. Sound => SchedulerSound
  BY <1>1, <1>2, SoundTypeOK DEF SchedulerSound
<1> QED
  BY <1>3, SoundAlways, PTL

\* Commits of others leave the remote branch only through a forced push whose
\* lease is their tip, or that found nothing there (ForcePush).
THEOREM ForcedPushesLease == Spec => ForceSeesWhatItDrops
<1> DEFINE A == remote' # remote /\ ~rewound' /\ remote \notin History(remote)' \union {0} =>
                  \E w \in Workers : op[w].at = "push" /\ op[w].kind = "force" /\ op[w].tip \in {0, remote}
<1>1. Sound /\ [Next]_vars => A
  <2> SUFFICES ASSUME Sound, [Next]_vars, remote' # remote, ~rewound', remote # 0, remote \notin History(remote)'
               PROVE  \E w \in Workers : op[w].at = "push" /\ op[w].kind = "force" /\ op[w].tip \in {0, remote}
    OBVIOUS
  <2>1. Types /\ WorkInv /\ GitTypes /\ remote \in 0 .. Len(commits) /\ head \in 0 .. Len(commits) /\ Len(commits) \in Nat
    BY DEF Sound, Types, GitTypes
  <2>2. ASSUME NEW w \in Workers, Push(w)
        PROVE  op[w].at = "push" /\ op[w].kind = "force" /\ op[w].tip \in {0, remote}
    <3>1. op[w].at = "push" /\ commits' = commits /\ remote' = head /\ head # 0 /\ Accepted(w)
      BY <2>1, <2>2, PushIs
    <3>2. History(remote)' = History(head)
      BY <3>1 DEF History
    <3> QED
      BY <3>1, <3>2 DEF Accepted, LeaseOK
  <2>3. ASSUME NEW tree, NEW refused, OtherPushes(tree, refused) PROVE FALSE
    <3> DEFINE rec == [parent |-> remote, line |-> History(remote) \union {Len(commits) + 1},
                       tree |-> tree, refused |-> refused, ours |-> FALSE]
    <3>1. commits' = Append(commits, rec) /\ remote' = Len(commits) + 1 /\ commits \in Seq(CommitRecs)
      BY <2>1, <2>3 DEF OtherPushes, Grow, GitTypes
    <3> HIDE DEF rec
    <3>2. commits'[Len(commits) + 1] = rec
      BY <2>1, <3>1
    <3>3. remote \in rec.line
      BY <2>1, LineSelf DEF rec
    <3> QED
      BY <2>1, <3>1, <3>2, <3>3 DEF History
  <2>4. CASE OtherRewinds
    BY <2>4 DEF OtherRewinds
  <2>5. ASSUME NEW w \in Workers, Works(w), ~Push(w) PROVE remote' = remote
    BY <2>1, <2>5, CompareIs, PlanIs, SetHeadIs, CommitIs, FailsIs, ApplyIs, ScanIs DEF Works, repo
  <2>6. ASSUME \/ \E p \in Paths, c \in Contents \union {None} : Edit(p, c)
               \/ \E g \in Gens : Wake(g) \/ SchedulerExits(g)
               \/ \E k \in {"pull", "force"} : Request(k)
               \/ Reconfigure \/ Disable \/ StopWaits \/ BootRuns
               \/ InitOpens \/ InitCreates \/ Contact \/ Contacted \/ ContactFails
               \/ \E p \in Paths : Sync(p)
               \/ \E d \in BOOLEAN : Restart(d)
               \/ UNCHANGED vars
        PROVE  remote' = remote
    BY <2>6 DEF Edit, Wake, SchedulerExits, Request, Reconfigure, Disable, StopWaits, BootRuns, InitOpens, InitCreates,
                Contact, Contacted, ContactFails, Sync, Restart, vars, repo
  <2> QED
    BY <2>2, <2>3, <2>4, <2>5, <2>6 DEF Next, Works, OtherCommits, OtherRefused
<1>2. Spec => [][A]_vars
  BY <1>1, SoundAlways, PTL DEF Spec
<1> QED
  BY <1>2 DEF ForceSeesWhatItDrops

-----------------------------------------------------------------------------
(* What an operation holds of the branches and the files *)

\* Once two workers met, that is not forgotten.
LEMMA TwinStays == [Next]_vars /\ ~twin' => ~twin
<1>1. ASSUME NEW w \in Workers, Compare(w) \/ Plan(w) \/ SetHead(w) \/ CommitTree(w) \/ Push(w) \/ OpFails(w)
             \/ \E p \in Paths : Apply(w, p) \/ Scan(w, p)
      PROVE  twin' = twin
  BY <1>1 DEF Compare, Plan, SetHead, CommitTree, Push, OpFails, Apply, Scan, history
<1>2. ASSUME \/ \E p \in Paths, c \in Contents \union {None} : Edit(p, c) \/ OtherCommits(p, c)
             \/ OtherRefused \/ OtherRewinds
             \/ \E g \in Gens : SchedulerExits(g)
             \/ Reconfigure \/ Disable \/ StopWaits \/ BootRuns
             \/ InitOpens \/ InitCreates \/ Contact \/ Contacted \/ ContactFails
             \/ \E p \in Paths : Sync(p)
             \/ \E d \in BOOLEAN : Restart(d)
             \/ UNCHANGED vars
      PROVE  twin' = twin
  BY <1>2 DEF Edit, OtherCommits, OtherRefused, OtherPushes, OtherRewinds, SchedulerExits, Reconfigure, Disable, StopWaits,
              BootRuns, InitOpens, InitCreates, Contact, Contacted, ContactFails, Sync, Restart, vars, history
<1>3. ASSUME (\E g \in Gens : Wake(g)) \/ \E k \in {"pull", "force"} : Request(k), ~twin' PROVE ~twin
  BY Zenon, <1>3 DEF Wake, Request, Meets
<1> QED
  BY <1>1, <1>2, <1>3 DEF Next

LEMMA Alone ==
    ASSUME Types, WorkInv, ~twin, NEW w \in Workers, Works(w), NEW v \in Workers \ {w}
    PROVE  op[v].at = "idle" /\ op'[v].at = "idle"
<1>1. WorkerStep(w)
  BY WorksSteps
<1>2. op[v].at = "idle"
  BY <1>1 DEF WorkerStep, WorkInv, Active
<1>3. Only(w)
  BY <1>1, LeavesIs DEF WorkerStep, Ended, Moved, Types
<1> QED
  BY <1>2, <1>3 DEF Only

\* Without an operation there is nothing to hold.
LEMMA IdleHolds ==
    ASSUME NEW w \in Workers, op'[w].at = "idle"
    PROVE  Basis(w)' /\ Content(w)'
  BY DEF Basis, Content

LEMMA EndedIdles ==
    ASSUME Types, NEW w \in Workers, Ended(w)
    PROVE  op'[w].at = "idle"
  BY LeavesIs, NoOpRec DEF Ended, Types

\* Where the branches and the files stay, an operation that stays keeps what it holds.
LEMMA StillHolds ==
    ASSUME NEW w \in Workers, Basis(w), Content(w), op'[w] = op[w], UNCHANGED <<live, commits, head, remote, rewound>>
    PROVE  Basis(w)' /\ Content(w)'
  BY DEF Basis, Content, Tree, History

\* The step of the one worker, when it is alone.
LEMMA WorksHold ==
    ASSUME Types, WorkInv, NEW w \in Workers, Works(w), ~twin, Basis(w), Content(w)
    PROVE  Basis(w)' /\ Content(w)'
<1>0. /\ Types /\ GitTypes /\ head \in 0 .. Len(commits) /\ remote \in 0 .. Len(commits) /\ Len(commits) \in Nat
      /\ op[w] \in OpRecs /\ op[w].base \in 0 .. Len(commits) /\ op[w].tip \in 0 .. Len(commits)
  BY DEF Types, GitTypes, OpTypes, OpRecs
<1>1. CASE Ended(w)
  BY <1>1, EndedIdles, IdleHolds
<1>2. CASE Compare(w)
  <2>1. UNCHANGED <<live, commits, head, remote, rewound>>
    BY <1>2, CompareIs DEF repo, history
  <2>2. remote # 0 => remote \in History(remote)
    BY <1>0, LineSelf
  <2>3. CASE op'[w].at = "push" /\ op'[w].kind = "force"
    BY <2>3 DEF Basis, Content
  <2>4. CASE /\ op'[w].at = "plan" /\ op'[w].base = head /\ op'[w].tip = remote /\ remote # 0
             /\ head = 0 \/ head \in History(remote)
    BY <2>1, <2>2, <2>4 DEF Basis, Content, History
  <2>5. CASE op'[w].at = "read" /\ op'[w].base = head /\ op'[w].todo = Paths
    BY <2>1, <2>5 DEF Basis, Content
  <2> QED
    BY <1>1, <1>2, <2>3, <2>4, <2>5, CompareIs
<1>3. CASE Plan(w)
  <2>1. UNCHANGED <<live, commits, head, remote, rewound>> /\ op[w].at = "plan"
    BY <1>3, PlanIs DEF repo, history
  <2>2. CASE /\ op'[w].at = "apply" /\ op'[w].base = op[w].base /\ op'[w].tip = op[w].tip
             /\ \A p \in op'[w].deletes \union op'[w].writes : live[p] = Tree(op[w].base)[p]
    <3>1. op[w].base = head
      BY <2>1 DEF Basis
    <3>2. Basis(w)'
      BY <2>1, <2>2 DEF Basis, History
    <3>3. Content(w)'
      BY <2>1, <2>2, <3>1 DEF Content, Tree
    <3> QED
      BY <3>2, <3>3
  <2> QED
    BY <1>1, <1>3, <2>2, PlanIs
<1>4. ASSUME NEW p \in Paths, Apply(w, p) PROVE Basis(w)' /\ Content(w)'
  <2>1. /\ op[w].at = "apply" /\ op'[w].at = "apply" /\ op'[w].base = op[w].base /\ op'[w].tip = op[w].tip
        /\ op'[w].touched = op[w].touched
        /\ op'[w].deletes \union op'[w].writes = (op[w].deletes \union op[w].writes) \ {p}
        /\ live' = [live EXCEPT ![p] = Tree(op[w].tip)[p]] /\ UNCHANGED <<commits, head, remote, rewound>>
    BY <1>4, ApplyIs DEF repo
  <2>2. \A q \in Paths \ {p} : live'[q] = live[q]
    BY <2>1 DEF Types, Trees
  <2>3. op[w].deletes \union op[w].writes \subseteq Paths
    BY <1>0 DEF OpRecs
  <2>4. Basis(w)'
    BY <2>1 DEF Basis, History
  <2>5. Content(w)'
    BY <2>1, <2>2, <2>3 DEF Content, Tree
  <2> QED
    BY <2>4, <2>5
<1>5. CASE SetHead(w)
  <2>1. CASE op'[w].at = "read" /\ op'[w].base = op[w].tip /\ op'[w].todo = Paths
    BY <1>5, <2>1, SetHeadIs DEF Basis, Content
  <2> QED
    BY <1>1, <1>5, <2>1, SetHeadIs
<1>6. ASSUME NEW p \in Paths, Scan(w, p) PROVE Basis(w)' /\ Content(w)'
  <2>1. /\ op[w].at = "read" /\ op'[w].at = "read" /\ op'[w].base = op[w].base
        /\ op'[w].todo = op[w].todo \ {p} /\ op'[w].touched = op[w].touched \ {p}
        /\ op'[w].tree[p] = live[p] /\ \A q \in Paths \ {p} : op'[w].tree[q] = op[w].tree[q]
        /\ UNCHANGED <<live, head>>
    BY <1>6, ScanIs DEF repo
  <2> QED
    BY <2>1 DEF Basis, Content
<1>7. CASE CommitTree(w)
  <2>1. op[w].at = "read" /\ op[w].todo = {} /\ UNCHANGED live
    BY <1>7, CommitIs
  <2>2. op[w].base = head /\ \A p \in Paths : p \in op[w].touched \/ op[w].tree[p] = live[p]
    BY <2>1 DEF Basis, Content
  <2>3. CASE op'[w].at = "push" /\ op'[w].touched = op[w].touched /\ op[w].tree = Tree(op[w].base) /\ UNCHANGED <<commits, head>>
    BY <2>1, <2>2, <2>3 DEF Basis, Content, Tree
  <2>4. CASE /\ op'[w].at = "push" /\ op'[w].touched = op[w].touched
             /\ Grow(op[w].base, op[w].tree, FALSE, TRUE) /\ head' = Len(commits) + 1
    <3>1. op[w].tree \in Trees
      BY <1>0 DEF OpRecs
    <3>2. commits'[Len(commits) + 1].tree = op[w].tree
      BY <1>0, <2>4, <3>1, Grown
    <3> QED
      BY <1>0, <2>1, <2>2, <2>4, <3>2 DEF Basis, Content, Tree
  <2> QED
    BY <1>1, <1>7, <2>3, <2>4, CommitIs
<1>8. CASE Push(w) \/ OpFails(w)
  BY <1>1, <1>8, PushIs, FailsIs
<1> QED
  BY <1>2, <1>3, <1>4, <1>5, <1>6, <1>7, <1>8 DEF Works

\* The steps that touch neither the branches, the files nor the operations.
Quiet == UNCHANGED <<live, commits, head, remote, op, mine, rewound, torn, unsynced, twin, pushed>>
QuietStep == \/ Reconfigure \/ Disable \/ StopWaits \/ BootRuns \/ UNCHANGED vars
             \/ \E g \in Gens : SchedulerExits(g)

LEMMA QuietSteps == QuietStep => Quiet
  BY DEF QuietStep, Quiet, Reconfigure, Disable, StopWaits, BootRuns, SchedulerExits, vars, repo, state, history

\* The steps of the Manager on .git, which none of the operations sees.
GitStep == \/ InitOpens \/ InitCreates \/ Contact \/ Contacted \/ ContactFails
           \/ \E p \in Paths : Sync(p)

LEMMA GitSteps == GitStep => UNCHANGED <<remote, op, rewound, torn, unsynced, twin>>
  BY DEF GitStep, InitOpens, InitCreates, Contact, Contacted, ContactFails, Sync, repo, history

LEMMA GitAlone ==
    ASSUME SchedInv, WorkInv, InitCreates \/ Contact \/ ContactFails \/ \E p \in Paths : Sync(p)
    PROVE  \A w \in Workers : ~Active(w)
  BY DEF InitCreates, Contact, ContactFails, Sync, WorkInv

\* A new operation knows nothing yet.
NewStep == (\E g \in Gens : Wake(g)) \/ \E k \in {"pull", "force"} : Request(k)

LEMMA NewSteps ==
    ASSUME Types, SchedInv, NewStep
    PROVE  /\ UNCHANGED <<live, commits, head, remote, pushed, current, admin, mine, rewound, torn, unsynced>>
           /\ \A v \in Workers : op'[v] = op[v] \/ (op[v].at = "idle" /\ op'[v].at = "compare")
<1>1. UNCHANGED <<live, commits, head, remote, pushed, current, admin, mine, rewound, torn, unsynced>>
  BY DEF NewStep, Wake, Request, repo, state, manager
<1>2. op \in [Workers -> OpRecs] /\ Gens \subseteq Workers /\ Http \in Workers
      /\ current \in 0 .. MaxGens /\ Len(commits) \in Nat /\ \A g \in Gens : g \in 0 .. MaxGens
  BY BackupAssumption DEF Types, OpTypes, Workers, Gens, ManagerTypes, GitTypes
<1>3. ASSUME NEW g \in Gens, Wake(g)
      PROVE  \A v \in Workers : op'[v] = op[v] \/ (op[v].at = "idle" /\ op'[v].at = "compare")
  <2>1. op[g].at = "idle" /\ op' = [op EXCEPT ![g] = [NoOp EXCEPT !.at = "compare", !.kind = "backup", !.gen = g]]
    BY <1>3 DEF Wake, SchedInv, Active
  <2>2. Only(g) /\ op'[g].at = "compare"
    BY <1>1, <1>2, <2>1, NewOp DEF Types
  <2> QED
    BY <2>1, <2>2 DEF Only
<1>4. ASSUME NEW k \in {"pull", "force"}, Request(k)
      PROVE  \A v \in Workers : op'[v] = op[v] \/ (op[v].at = "idle" /\ op'[v].at = "compare")
  <2>1. /\ Http \in Workers /\ current \in 0 .. MaxGens /\ UNCHANGED commits /\ Len(commits) \in Nat /\ OpTypes
        /\ op' = [op EXCEPT ![Http] = [NoOp EXCEPT !.at = "compare", !.kind = k, !.gen = current]]
        /\ op[Http].at = "idle"
    BY <1>1, <1>2, <1>4 DEF Request, Types
  <2>2. Only(Http) /\ op'[Http].at = "compare"
    BY <2>1, NewOp
  <2> QED
    BY <2>1, <2>2 DEF Only
<1> QED
  BY <1>1, <1>3, <1>4 DEF NewStep

\* The commits of others leave all before them as they were.
OthersPush == OtherRefused \/ \E p \in Paths, c \in Contents \union {None} : OtherCommits(p, c)

LEMMA OthersGrow ==
    ASSUME GitTypes, OthersPush
    PROVE  /\ UNCHANGED <<live, git, head, manager, state, op, history>> /\ remote' = Len(commits) + 1
           /\ Len(commits') = Len(commits) + 1
           /\ \A e \in 1 .. Len(commits) : commits'[e] = commits[e]
           /\ commits'[Len(commits) + 1].line = History(remote) \union {Len(commits) + 1}
           /\ ~commits'[Len(commits) + 1].ours
<1>1. remote \in 0 .. Len(commits) /\ Tree(remote) \in Trees
  BY TreeType DEF GitTypes
<1>2. PICK tree \in Trees, refused \in BOOLEAN : OtherPushes(tree, refused)
  <2>1. ASSUME NEW p \in Paths, NEW c \in Contents \union {None} PROVE [Tree(remote) EXCEPT ![p] = c] \in Trees
    BY <1>1 DEF Trees
  <2> QED
    BY <1>1, <2>1 DEF OthersPush, OtherCommits, OtherRefused
<1> DEFINE n == Len(commits)
           rec == [parent |-> remote, line |-> History(remote) \union {n + 1},
                   tree |-> tree, refused |-> refused, ours |-> FALSE]
<1>3. commits' = Append(commits, rec) /\ remote' = n + 1 /\ UNCHANGED <<live, git, head, manager, state, op, history>>
  BY <1>2 DEF OtherPushes, Grow
<1>4. rec.line = History(remote) \union {n + 1} /\ ~rec.ours
  OBVIOUS
<1> HIDE DEF rec
<1>5. commits' [n + 1] = rec /\ Len(commits') = n + 1 /\ \A e \in 1 .. n : commits'[e] = commits[e]
  BY <1>3 DEF GitTypes
<1> QED
  BY <1>3, <1>4, <1>5

LEMMA OpNext == Types /\ SchedInv /\ WorkInv /\ OpInv /\ [Next]_vars => OpInv'
<1> SUFFICES ASSUME Types, SchedInv, WorkInv, OpInv, [Next]_vars, ~twin', NEW v \in Workers
             PROVE  Basis(v)' /\ Content(v)'
  BY DEF OpInv
<1>0. /\ Types /\ GitTypes /\ head \in 0 .. Len(commits) /\ remote \in 0 .. Len(commits) /\ Len(commits) \in Nat
      /\ op[v] \in OpRecs /\ op[v].base \in 0 .. Len(commits) /\ op[v].tip \in 0 .. Len(commits) /\ live \in Trees
      /\ OpTypes
  BY DEF Types, GitTypes, OpTypes, OpRecs
<1>1. Basis(v) /\ Content(v) /\ ~twin
  BY TwinStays DEF OpInv
<1>2. ASSUME NEW p \in Paths, NEW c \in Contents \union {None}, Edit(p, c) PROVE Basis(v)' /\ Content(v)'
  <2>1. UNCHANGED <<commits, head, remote, rewound>> /\ \A q \in Paths \ {p} : live'[q] = live[q]
    BY <1>0, <1>2 DEF Edit, repo, Trees
  <2>2. /\ op'[v].at = op[v].at /\ op'[v].base = op[v].base /\ op'[v].tip = op[v].tip /\ op'[v].kind = op[v].kind
        /\ op'[v].tree = op[v].tree /\ op'[v].todo = op[v].todo
        /\ op'[v].deletes = op[v].deletes /\ op'[v].writes = op[v].writes
        /\ op[v].at # "idle" => op'[v].touched = op[v].touched \union {p}
    BY <1>0, <1>2, Noted DEF Active
  <2>3. op[v].deletes \union op[v].writes \subseteq Paths
    BY <1>0 DEF OpRecs
  <2>4. Basis(v)'
    BY <1>1, <2>1, <2>2 DEF Basis, History
  <2>5. Content(v)'
    BY <1>1, <2>1, <2>2, <2>3 DEF Content, Tree
  <2> QED
    BY <2>4, <2>5
<1>3. CASE OthersPush
  <2>1. UNCHANGED <<live, head, op, rewound>> /\ remote' = Len(commits) + 1
        /\ \A e \in 1 .. Len(commits) : commits'[e] = commits[e]
    BY <1>0, <1>3, OthersGrow DEF history
  <2>2. commits'[Len(commits) + 1].line = History(remote) \union {Len(commits) + 1}
    BY <1>0, <1>3, OthersGrow
  <2>3. Basis(v)'
    BY <1>0, <1>1, <2>1, <2>2 DEF Basis, History
  <2>4. Content(v)'
    BY <1>0, <1>1, <2>1, <2>2 DEF Content, Tree
  <2> QED
    BY <2>3, <2>4
<1>6. CASE OtherRewinds
  <2>1. rewound' = TRUE /\ UNCHANGED <<live, commits, head, op>>
    BY <1>6 DEF OtherRewinds
  <2> QED
    BY <1>1, <2>1 DEF Basis, Content, Tree, History
<1>7. ASSUME NEW w \in Workers, Works(w) PROVE Basis(v)' /\ Content(v)'
  <2>1. CASE v = w
    BY <1>1, <1>7, <2>1, WorksHold
  <2>2. CASE v # w
    BY <1>1, <1>7, <2>2, Alone, IdleHolds
  <2> QED
    BY <2>1, <2>2
<1>8. CASE NewStep
  <2>1. UNCHANGED <<live, commits, head, remote, rewound>> /\ (op'[v] = op[v] \/ op'[v].at = "compare")
    BY <1>8, NewSteps
  <2>2. CASE op'[v].at = "compare"
    BY <2>2 DEF Basis, Content
  <2> QED
    BY <1>1, <2>1, <2>2, StillHolds
<1>9. CASE QuietStep
  BY <1>1, <1>9, QuietSteps, StillHolds DEF Quiet
<1>10. CASE InitOpens \/ Contacted
  <2>1. UNCHANGED <<live, commits, head, remote, rewound, op>>
    BY <1>10 DEF InitOpens, Contacted, repo, history
  <2> QED
    BY <1>1, <2>1, StillHolds
<1>11. CASE InitCreates \/ Contact \/ ContactFails \/ \E p \in Paths : Sync(p)
  <2>1. UNCHANGED op /\ op[v].at = "idle"
    BY <1>11, GitAlone, GitSteps DEF GitStep, Active
  <2> QED
    BY <2>1, IdleHolds
<1>12. ASSUME NEW d \in BOOLEAN, Restart(d) PROVE Basis(v)' /\ Content(v)'
  BY <1>12, NoOpRec, IdleHolds DEF Restart
<1> QED
  BY <1>2, <1>3, <1>6, <1>7, <1>8, <1>9, <1>10, <1>11, <1>12 DEF Next, Works, NewStep, QuietStep, OthersPush

-----------------------------------------------------------------------------
(* What the remote was last known to hold *)

LEMMA PushedNext == Types /\ SchedInv /\ WorkInv /\ OpInv /\ PushedInv /\ [Next]_vars => PushedInv'
<1> SUFFICES ASSUME Types, SchedInv, WorkInv, OpInv, PushedInv, [Next]_vars PROVE PushedInv'
  OBVIOUS
<1>0. /\ GitTypes /\ head \in 0 .. Len(commits) /\ remote \in 0 .. Len(commits) /\ Len(commits) \in Nat /\ OpTypes
      /\ gens \in 0 .. MaxGens /\ current \in 0 .. gens /\ MaxGens \in Nat
      /\ pushed \in [Gens -> 0 .. Len(commits)] /\ Gens = 1 .. MaxGens
      /\ (current # 0 => current \in Gens /\ pushed[current] \in 0 .. Len(commits))
  BY BackupAssumption DEF Types, GitTypes, ManagerTypes, Gens
<1>1. ~twin' => ~twin
  BY TwinStays
<1>2. ASSUME UNCHANGED <<commits, head, remote, rewound, pushed>>, current' \in {0, current},
             admin'.at \in {"contact", "sync"} => admin'.at = admin.at
      PROVE  PushedInv'
  BY <1>1, <1>2 DEF PushedInv, History
<1>3. CASE OthersPush
  <2>1. UNCHANGED <<head, manager, pushed, rewound>> /\ remote' = Len(commits) + 1
        /\ \A e \in 1 .. Len(commits) : commits'[e] = commits[e]
    BY <1>0, <1>3, OthersGrow DEF history, state
  <2>2. commits'[Len(commits) + 1].line = History(remote) \union {Len(commits) + 1}
    BY <1>0, <1>3, OthersGrow
  <2>3. History(head)' = History(head) /\ History(remote) \subseteq History(remote)'
    BY <1>0, <2>1, <2>2 DEF History
  <2>4. UNCHANGED <<current, admin>>
    BY <2>1 DEF manager
  <2> QED
    BY <1>1, <2>1, <2>3, <2>4 DEF PushedInv
<1>4. CASE OtherRewinds
  <2>1. rewound' = TRUE /\ UNCHANGED <<commits, head, pushed, current, admin>>
    BY <1>4 DEF OtherRewinds, manager, state
  <2> QED
    BY <1>1, <2>1 DEF PushedInv, History
<1>5. ASSUME NEW w \in Workers, Works(w) PROVE PushedInv'
  <2>1. WorkerStep(w)
    BY <1>5, WorksSteps
  <2>2. UNCHANGED <<current, admin>> /\ admin'.at \notin {"contact", "sync"} /\ Active(w)
    BY <2>1 DEF WorkerStep, WorkInv
  <2>3. SUFFICES ASSUME ~twin, current # 0, pushed'[current] # 0
                 PROVE  pushed'[current] \in History(head)' /\ (rewound' \/ pushed'[current] \in History(remote)')
    BY <1>1, <2>2 DEF PushedInv
  <2>4. pushed[current] # 0 =>
          pushed[current] \in History(head) /\ (rewound \/ pushed[current] \in History(remote))
    BY <2>3 DEF PushedInv
  <2>5. Basis(w) /\ op[w].tip \in 0 .. Len(commits) /\ op[w].base \in 0 .. Len(commits) /\ op[w] \in OpRecs
    BY <2>3 DEF OpInv, Types, OpTypes, OpRecs
  <2>6. CASE UNCHANGED <<commits, head, remote, rewound, pushed>>
    BY <1>2, <2>2, <2>3, <2>4, <2>6 DEF History
  <2>7. CASE SetHead(w)
    <3>1. /\ op[w].at = "apply" /\ head' = op[w].tip /\ pushed' = [pushed EXCEPT ![op[w].gen] = op[w].tip]
          /\ UNCHANGED <<commits, remote, rewound>>
      BY <2>7, SetHeadIs DEF history
    <3>2. op[w].tip # 0 /\ (head = 0 \/ head \in History(op[w].tip)) /\ (rewound \/ op[w].tip \in History(remote))
      BY <2>2, <2>5, <3>1 DEF Basis, WorkInv
    <3>3. op[w].tip \in History(op[w].tip) /\ History(head)' = History(op[w].tip) /\ History(remote)' = History(remote)
      BY <1>0, <2>5, <3>1, <3>2, LineSelf DEF History
    <3>4. CASE pushed'[current] = op[w].tip
      BY <3>1, <3>2, <3>3, <3>4
    <3>5. CASE pushed'[current] = pushed[current]
      <4>1. pushed[current] \in History(head) /\ head # 0
        BY <2>3, <2>4, <3>5 DEF History
      <4>2. pushed[current] \in History(op[w].tip)
        BY <1>0, <2>5, <3>2, <4>1, LineTrans
      <4> QED
        BY <2>3, <2>4, <3>1, <3>3, <3>5, <4>2
    <3> QED
      BY <1>0, <2>3, <3>1, <3>4, <3>5
  <2>8. CASE CommitTree(w)
    <3>1. op[w].at = "read" /\ UNCHANGED <<remote, pushed, rewound>>
      BY <2>8, CommitIs DEF history
    <3>2. CASE Grow(op[w].base, op[w].tree, FALSE, TRUE) /\ head' = Len(commits) + 1
      <4>1. op[w].tree \in Trees /\ op[w].base = head
        BY <2>5, <3>1 DEF OpRecs, Basis
      <4>2. \A e \in 1 .. Len(commits) : commits'[e] = commits[e]
        BY <1>0, <2>5, <3>2, <4>1, Grown
      <4>3. commits'[Len(commits) + 1].line = History(head) \union {Len(commits) + 1}
        BY <1>0, <3>2, <4>1, Grown
      <4>4. History(head)' = History(head) \union {Len(commits) + 1} /\ History(remote)' = History(remote)
        BY <1>0, <3>1, <3>2, <4>2, <4>3 DEF History
      <4> QED
        BY <2>3, <2>4, <3>1, <4>4
    <3> QED
      BY <2>6, <2>8, <3>1, <3>2, CommitIs
  <2>9. CASE Push(w)
    <3>1. UNCHANGED <<commits, head>>
      BY <2>9, PushIs
    <3>2. CASE /\ head # 0 /\ remote' = head /\ rewound' = FALSE
               /\ pushed' = pushed \/ pushed' = [pushed EXCEPT ![op[w].gen] = head]
      <4>1. pushed'[current] \in {pushed[current], head}
        BY <1>0, <2>3, <3>2
      <4>2. head \in History(head) /\ History(head)' = History(head) /\ History(remote)' = History(head)
        BY <1>0, <3>1, <3>2, LineSelf DEF History
      <4> QED
        BY <2>3, <2>4, <4>1, <4>2
    <3> QED
      BY <2>6, <2>9, <3>1, <3>2, PushIs
  <2>10. ASSUME NEW p \in Paths, Apply(w, p) \/ Scan(w, p) PROVE UNCHANGED <<commits, head, remote, rewound, pushed>>
    BY <2>10, ApplyIs, ScanIs DEF repo, state, history
  <2>11. CASE Compare(w) \/ Plan(w) \/ OpFails(w)
    BY <2>6, <2>11, CompareIs, PlanIs, FailsIs DEF repo, history
  <2> QED
    BY <1>5, <2>6, <2>7, <2>8, <2>9, <2>10, <2>11 DEF Works
<1>6. CASE \/ NewStep \/ QuietStep
  <2>1. UNCHANGED <<commits, head, remote, rewound, pushed>>
    BY <1>6, QuietSteps, NewSteps DEF Quiet
  <2>2. current' \in {0, current} /\ (admin'.at \in {"contact", "sync"} => admin'.at = admin.at)
    <3>1. NewStep => UNCHANGED <<current, admin>>
      BY NewSteps
    <3>2. Reconfigure \/ Disable => current' = 0 /\ admin'.at \in {"stop", "off"}
      BY DEF Reconfigure, Disable, Detach, NoAdmin
    <3>3. StopWaits \/ BootRuns => current' = current /\ admin'.at \in {"idle", "build"}
      BY DEF StopWaits, BootRuns, NoAdmin
    <3>4. (\E g \in Gens : SchedulerExits(g)) \/ UNCHANGED vars => UNCHANGED <<current, admin>>
      BY DEF SchedulerExits, vars, manager
    <3> QED
      BY <1>6, <3>1, <3>2, <3>3, <3>4 DEF QuietStep
  <2> QED
    BY <1>2, <2>1, <2>2
<1>7. ASSUME NEW p \in Paths, NEW c \in Contents \union {None}, Edit(p, c) PROVE PushedInv'
  BY <1>2, <1>7 DEF Edit, repo, manager, state
<1>8. CASE InitOpens
  <2>1. UNCHANGED <<commits, head, remote, rewound>> /\ pushed' = [pushed EXCEPT ![gens + 1] = 0] /\ current' = gens + 1
        /\ admin'.at = "idle" /\ gens < MaxGens
    BY <1>8 DEF InitOpens, Activate, NoAdmin, repo, history, SchedInv
  <2> QED
    BY <1>0, <2>1 DEF PushedInv
<1>9. CASE InitCreates
  <2>1. CASE Activate /\ pushed' = [pushed EXCEPT ![gens + 1] = 0]
    <3>1. current' = gens + 1 /\ admin'.at = "idle" /\ gens < MaxGens
      BY <1>9, <2>1 DEF InitCreates, Activate, NoAdmin, SchedInv
    <3> QED
      BY <1>0, <2>1, <3>1 DEF PushedInv
  <2>2. CASE admin' = [NoAdmin EXCEPT !.at = "contact"] /\ UNCHANGED <<head, current>>
    <3>1. current = 0 /\ head = 0 /\ admin'.at = "contact"
      BY <1>0, <1>9, <2>2 DEF InitCreates, SchedInv, NoAdmin, GitTypes
    <3> QED
      BY <2>2, <3>1 DEF PushedInv
  <2> QED
    BY <1>9, <2>1, <2>2 DEF InitCreates
<1>10. CASE Contact
  <2>1. head' = remote /\ remote # 0 /\ admin'.at = "sync" /\ current' = current /\ admin.at = "contact"
        /\ UNCHANGED <<commits, remote>>
    BY <1>10 DEF Contact
  <2>2. current = 0
    BY <2>1 DEF SchedInv
  <2>3. head' \in History(remote)'
    BY <1>0, <2>1, LineSelf DEF History
  <2> QED
    BY <2>1, <2>2, <2>3 DEF PushedInv
<1>11. CASE Contacted
  <2>1. UNCHANGED <<commits, head, remote, rewound>> /\ pushed' = [pushed EXCEPT ![gens + 1] = head] /\ current' = gens + 1
        /\ admin'.at = "idle" /\ gens < MaxGens /\ admin.at = "sync"
    BY <1>11 DEF Contacted, Activate, NoAdmin, repo, history, SchedInv
  <2>2. head # 0 /\ (rewound \/ head \in History(remote)) /\ head \in History(head) /\ pushed'[current'] = head
    BY <1>0, <2>1, LineSelf DEF PushedInv
  <2> QED
    BY <2>1, <2>2 DEF PushedInv, History
<1>12. CASE ContactFails
  <2>1. current' = current /\ current = 0 /\ admin'.at = "idle"
    BY <1>12 DEF ContactFails, NoAdmin, SchedInv
  <2> QED
    BY <2>1 DEF PushedInv
<1>13. ASSUME NEW p \in Paths, Sync(p) PROVE PushedInv'
  <2>1. admin'.at = admin.at
    BY <1>13 DEF Sync, Types, ManagerTypes
  <2> QED
    BY <1>2, <1>13, <2>1 DEF Sync, repo, state
<1>14. ASSUME NEW d \in BOOLEAN, Restart(d) PROVE PushedInv'
  BY <1>14 DEF Restart, NoAdmin, PushedInv
<1> QED
  BY <1>3, <1>4, <1>5, <1>6, <1>7, <1>8, <1>9, <1>10, <1>11, <1>12, <1>13, <1>14
     DEF Next, Works, NewStep, QuietStep, OthersPush

-----------------------------------------------------------------------------
(* What the wiki wrote *)

\* A pull that stopped halfway, or a first contact, is not forgotten either.
LEMMA TornStays == [Next]_vars /\ ~(torn' \/ unsynced') => ~(torn \/ unsynced)
<1>1. ASSUME NEW w \in Workers, Compare(w) \/ Plan(w) \/ SetHead(w) \/ CommitTree(w) \/ Push(w)
             \/ \E p \in Paths : Apply(w, p) \/ Scan(w, p)
      PROVE  torn' = torn /\ unsynced' = unsynced
  BY <1>1 DEF Compare, Plan, SetHead, CommitTree, Push, Apply, Scan, history
<1>2. ASSUME \/ \E p \in Paths, c \in Contents \union {None} : Edit(p, c) \/ OtherCommits(p, c)
             \/ OtherRefused \/ OtherRewinds
             \/ \E g \in Gens : Wake(g) \/ SchedulerExits(g)
             \/ \E k \in {"pull", "force"} : Request(k)
             \/ Reconfigure \/ Disable \/ StopWaits \/ BootRuns
             \/ InitOpens \/ InitCreates \/ Contact \/ Contacted \/ ContactFails
             \/ \E p \in Paths : Sync(p)
             \/ UNCHANGED vars
      PROVE  torn' = torn /\ unsynced' = unsynced
  BY <1>2 DEF Edit, OtherCommits, OtherRefused, OtherPushes, OtherRewinds, Wake, SchedulerExits, Request, Reconfigure,
              Disable, StopWaits, BootRuns, InitOpens, InitCreates, Contact, Contacted, ContactFails, Sync, vars, history
<1>3. ASSUME NEW w \in Workers, OpFails(w), ~(torn' \/ unsynced') PROVE ~(torn \/ unsynced)
  BY Zenon, <1>3 DEF OpFails
<1>4. ASSUME NEW d \in BOOLEAN, Restart(d), ~(torn' \/ unsynced') PROVE ~(torn \/ unsynced)
  BY Zenon, <1>4 DEF Restart
<1> QED
  BY <1>1, <1>2, <1>3, <1>4 DEF Next

\* The step of the one worker, when it is alone and nothing is torn.
LEMMA WorksMine ==
    ASSUME Types, SchedInv, WorkInv, NEW w \in Workers, Works(w), ~twin, Basis(w), Content(w), ~torn',
           \A p \in Paths : Covered(p), Applying(w), Reading(w)
    PROVE  (\A p \in Paths : Covered(p)') /\ Applying(w)' /\ Reading(w)'
<1>0. /\ Types /\ GitTypes /\ head \in 0 .. Len(commits) /\ remote \in 0 .. Len(commits) /\ Len(commits) \in Nat
      /\ op[w] \in OpRecs /\ op[w].base \in 0 .. Len(commits) /\ op[w].tip \in 0 .. Len(commits)
  BY DEF Types, GitTypes, OpTypes, OpRecs
<1>1. WorkerStep(w) /\ admin' = admin /\ admin.at # "sync"
  BY WorksSteps DEF WorkerStep, WorkInv
<1>2. \A v \in Workers \ {w} : op[v].at = "idle" /\ op'[v].at = "idle"
  BY Alone
<1>3. op[w].at # "apply" => \A p \in Paths : live[p] = Tree(head)[p] \/ p \in mine
  BY <1>1, <1>2 DEF Covered
<1>4. ASSUME \A p \in Paths : live'[p] = Tree(head)'[p] \/ p \in mine' PROVE \A p \in Paths : Covered(p)'
  BY <1>4 DEF Covered
<1>5. ASSUME op'[w].at = "apply" PROVE \A p \in Paths : Covered(p)'
  BY <1>5 DEF Covered
<1>6. ASSUME Ended(w) PROVE Applying(w)' /\ Reading(w)'
  BY <1>6, EndedIdles DEF Applying, Reading
<1>7. ASSUME UNCHANGED <<live, commits, head, mine>>, op[w].at # "apply" PROVE \A p \in Paths : Covered(p)'
  BY <1>3, <1>4, <1>7 DEF Tree
<1>8. CASE Compare(w)
  <2>1. UNCHANGED <<live, commits, head, mine>> /\ op[w].at = "compare"
    BY <1>8, CompareIs DEF repo, history
  <2>2. CASE op'[w].at \in {"push", "plan"}
    BY <1>7, <2>1, <2>2 DEF Applying, Reading
  <2>3. CASE op'[w].at = "read" /\ op'[w].touched = {} /\ op'[w].todo = Paths
    BY <1>7, <2>1, <2>3 DEF Applying, Reading
  <2> QED
    BY <1>6, <1>7, <1>8, <2>1, <2>2, <2>3, CompareIs
<1>9. CASE Plan(w)
  <2>1. UNCHANGED <<live, commits, head, mine>> /\ op[w].at = "plan" /\ op[w].base = head
    BY <1>9, PlanIs DEF repo, history, Basis
  <2>2. CASE /\ op'[w].at = "apply" /\ op'[w].tip = op[w].tip
             /\ \A p \in Paths : \/ p \in op'[w].deletes \union op'[w].writes
                                 \/ live[p] = Tree(op[w].tip)[p]
                                 \/ Tree(op[w].base)[p] = Tree(op[w].tip)[p]
                                 \/ op[w].base = 0 /\ live[p] # None
    <3>1. Tree(0) = NoFiles
      BY DEF Tree
    <3>2. \A p \in Paths : live[p] = Tree(op[w].tip)[p] \/ p \in mine \union op'[w].deletes \union op'[w].writes
      BY <1>3, <2>1, <2>2, <3>1 DEF NoFiles
    <3>3. Applying(w)'
      BY <2>1, <2>2, <3>2 DEF Applying, Tree
    <3> QED
      BY <1>5, <2>2, <3>3 DEF Reading
  <2> QED
    BY <1>6, <1>7, <1>9, <2>1, <2>2, PlanIs
<1>10. ASSUME NEW p \in Paths, Apply(w, p) PROVE (\A q \in Paths : Covered(q)') /\ Applying(w)' /\ Reading(w)'
  <2>1. /\ op[w].at = "apply" /\ op'[w].at = "apply" /\ op'[w].tip = op[w].tip
        /\ op'[w].deletes \union op'[w].writes = (op[w].deletes \union op[w].writes) \ {p}
        /\ live' = [live EXCEPT ![p] = Tree(op[w].tip)[p]] /\ UNCHANGED commits /\ mine' = mine \ {p}
    BY <1>10, ApplyIs DEF repo
  <2>2. live'[p] = Tree(op[w].tip)[p] /\ \A q \in Paths \ {p} : live'[q] = live[q]
    BY <2>1 DEF Types, Trees
  <2>3. Applying(w)'
    BY <2>1, <2>2 DEF Applying, Tree
  <2> QED
    BY <1>5, <2>1, <2>3 DEF Reading
<1>11. CASE SetHead(w)
  <2>1. op[w].at = "apply" /\ op[w].deletes \union op[w].writes = {} /\ head' = op[w].tip /\ UNCHANGED <<live, commits, mine>>
    BY <1>11, SetHeadIs DEF history
  <2>2. \A p \in Paths : live[p] = Tree(op[w].tip)[p] \/ p \in mine
    BY <2>1 DEF Applying
  <2>3. \A p \in Paths : Covered(p)'
    BY <1>4, <2>1, <2>2 DEF Tree
  <2>4. CASE op'[w].at = "read" /\ op'[w].touched = {} /\ op'[w].todo = Paths
    BY <2>3, <2>4 DEF Applying, Reading
  <2> QED
    BY <1>6, <1>11, <2>3, <2>4, SetHeadIs
<1>12. ASSUME NEW p \in Paths, Scan(w, p) PROVE (\A q \in Paths : Covered(q)') /\ Applying(w)' /\ Reading(w)'
  <2>1. /\ op[w].at = "read" /\ op'[w].at = "read" /\ op'[w].base = op[w].base
        /\ op'[w].todo = op[w].todo \ {p} /\ op'[w].touched = op[w].touched \ {p}
        /\ op'[w].tree[p] = live[p] /\ \A q \in Paths \ {p} : op'[w].tree[q] = op[w].tree[q]
        /\ UNCHANGED <<live, commits, head, mine>>
    BY <1>12, ScanIs DEF repo, history
  <2>2. op[w].base = head
    BY <2>1 DEF Basis
  <2>3. Reading(w)'
    BY <1>3, <2>1, <2>2 DEF Reading, Tree
  <2> QED
    BY <1>7, <2>1, <2>3 DEF Applying
<1>13. CASE CommitTree(w)
  <2>1. op[w].at = "read" /\ op[w].todo = {} /\ UNCHANGED <<live, mine>>
    BY <1>13, CommitIs DEF history
  <2>2. CASE UNCHANGED <<commits, head>>
    <3>1. \A p \in Paths : Covered(p)'
      BY <1>7, <2>1, <2>2
    <3> QED
      BY <1>6, <1>13, <3>1, CommitIs DEF Applying, Reading
  <2>3. CASE op'[w].at = "push" /\ Grow(op[w].base, op[w].tree, FALSE, TRUE) /\ head' = Len(commits) + 1
    <3>1. op[w].tree \in Trees
      BY <1>0 DEF OpRecs
    <3>2. commits'[Len(commits) + 1].tree = op[w].tree
      BY <1>0, <2>3, <3>1, Grown
    <3>3. \A p \in Paths : op[w].tree[p] = live[p] \/ p \in mine
      BY <2>1 DEF Content, Reading
    <3>4. \A p \in Paths : Covered(p)'
      BY <1>0, <1>4, <2>1, <2>3, <3>2, <3>3 DEF Tree
    <3> QED
      BY <2>3, <3>4 DEF Applying, Reading
  <2> QED
    BY <1>13, <2>2, <2>3, CommitIs
<1>14. CASE Push(w)
  BY <1>6, <1>7, <1>14, PushIs
<1>15. CASE OpFails(w)
  <2>1. op[w].at # "apply"
    BY Zenon, <1>15 DEF OpFails
  <2> QED
    BY <1>6, <1>7, <1>15, <2>1, FailsIs DEF repo
<1> QED
  BY <1>8, <1>9, <1>10, <1>11, <1>12, <1>13, <1>14, <1>15 DEF Works

LEMMA MineNext == Types /\ SchedInv /\ WorkInv /\ OpInv /\ PushedInv /\ MineInv /\ [Next]_vars => MineInv'
<1> SUFFICES ASSUME Types, SchedInv, WorkInv, OpInv, PushedInv, MineInv, [Next]_vars, ~(twin' \/ torn' \/ unsynced')
             PROVE  (\A p \in Paths : Covered(p)') /\ \A w \in Workers : Applying(w)' /\ Reading(w)'
  BY DEF MineInv
<1>0. /\ GitTypes /\ head \in 0 .. Len(commits) /\ remote \in 0 .. Len(commits) /\ Len(commits) \in Nat /\ live \in Trees
      /\ OpTypes /\ \A w \in Workers : /\ op[w] \in OpRecs /\ op[w].base \in 0 .. Len(commits)
                                       /\ op[w].tip \in 0 .. Len(commits)
  BY DEF Types, GitTypes, OpTypes, OpRecs
<1>1. ~twin /\ ~torn' /\ ~(torn \/ unsynced)
  BY TwinStays, TornStays
<1>2. (\A p \in Paths : Covered(p)) /\ \A w \in Workers : Applying(w) /\ Reading(w) /\ Basis(w) /\ Content(w)
  BY <1>1 DEF MineInv, OpInv
<1> DEFINE Goal == (\A p \in Paths : Covered(p)') /\ \A w \in Workers : Applying(w)' /\ Reading(w)'
<1>3. ASSUME NEW p \in Paths, NEW c \in Contents \union {None}, Edit(p, c) PROVE Goal
  <2>1. UNCHANGED <<commits, head, admin>> /\ mine' = mine \union {p} /\ \A q \in Paths \ {p} : live'[q] = live[q]
    BY <1>0, <1>3 DEF Edit, repo, manager, Trees
  <2>2. \A v \in Workers :
          /\ op'[v].at = op[v].at /\ op'[v].base = op[v].base /\ op'[v].tip = op[v].tip
          /\ op'[v].tree = op[v].tree /\ op'[v].todo = op[v].todo
          /\ op'[v].deletes = op[v].deletes /\ op'[v].writes = op[v].writes
          /\ op[v].at # "idle" => op'[v].touched = op[v].touched \union {p}
    BY <1>0, <1>3, Noted DEF Active
  <2>3. \A q \in Paths : Covered(q)'
    BY <1>2, <2>1, <2>2 DEF Covered, Tree
  <2>4. ASSUME NEW w \in Workers PROVE Applying(w)' /\ Reading(w)'
    <3>1. Applying(w)'
      BY <1>2, <2>1, <2>2 DEF Applying, Tree
    <3>2. Reading(w)'
      BY <1>2, <2>1, <2>2 DEF Reading, Tree
    <3> QED
      BY <3>1, <3>2
  <2> QED
    BY <2>3, <2>4
<1>4. CASE OthersPush
  <2>1. UNCHANGED <<live, head, op, mine, admin>> /\ \A e \in 1 .. Len(commits) : commits'[e] = commits[e]
    BY <1>0, <1>4, OthersGrow DEF history, manager
  <2>2. \A p \in Paths : Covered(p)'
    BY <1>0, <1>2, <2>1 DEF Covered, Tree
  <2>3. ASSUME NEW w \in Workers PROVE Applying(w)' /\ Reading(w)'
    BY <1>0, <1>2, <2>1 DEF Applying, Reading, Tree
  <2> QED
    BY <2>2, <2>3
<1>5. ASSUME UNCHANGED <<live, commits, head, mine>>,
             \A w \in Workers : op'[w] = op[w] \/ (op[w].at = "idle" /\ op'[w].at = "compare"),
             admin' = admin \/ admin.at # "sync" \/ admin.todo = {}
      PROVE  Goal
  <2>1. \A p \in Paths : Covered(p)'
    BY <1>2, <1>5 DEF Covered, Tree
  <2>2. ASSUME NEW w \in Workers PROVE Applying(w)' /\ Reading(w)'
    BY <1>2, <1>5 DEF Applying, Reading, Tree
  <2> QED
    BY <2>1, <2>2
<1>6. CASE OtherRewinds
  BY <1>5, <1>6 DEF OtherRewinds, manager
<1>7. ASSUME NEW w \in Workers, Works(w) PROVE Goal
  <2>1. (\A p \in Paths : Covered(p)') /\ Applying(w)' /\ Reading(w)'
    BY <1>1, <1>2, <1>7, WorksMine
  <2>2. ASSUME NEW v \in Workers \ {w} PROVE Applying(v)' /\ Reading(v)'
    BY <1>1, <1>7, Alone DEF Applying, Reading
  <2> QED
    BY <2>1, <2>2
<1>8. CASE NewStep
  BY <1>5, <1>8, NewSteps
<1>9. CASE QuietStep
  <2>1. Quiet /\ (admin' = admin \/ admin.at # "sync")
    BY <1>9, QuietSteps DEF QuietStep, Reconfigure, Disable, StopWaits, BootRuns, SchedulerExits, vars, manager
  <2> QED
    BY <1>5, <2>1 DEF Quiet
<1>10. CASE InitOpens \/ Contacted
  <2>1. UNCHANGED <<live, commits, head, mine, op>> /\ (admin.at = "build" \/ admin.todo = {})
    BY <1>10 DEF InitOpens, Contacted, repo, history
  <2> QED
    BY <1>5, <2>1
<1>11. ASSUME InitCreates \/ Contact \/ ContactFails \/ \E p \in Paths : Sync(p)
       PROVE  \A w \in Workers : op[w].at = "idle" /\ op'[w].at = "idle"
  BY <1>11, GitAlone, GitSteps DEF GitStep, Active
<1>12. ASSUME \A w \in Workers : op'[w].at = "idle" PROVE \A w \in Workers : Applying(w)' /\ Reading(w)'
  BY <1>12 DEF Applying, Reading
<1>13. CASE InitCreates
  <2>1. admin.at = "build" /\ head = 0 /\ UNCHANGED <<live, mine>>
    BY <1>0, <1>13 DEF InitCreates, history, GitTypes
  <2>2. \A p \in Paths : live[p] = NoFiles[p] \/ p \in mine
    BY <1>2, <1>11, <1>13, <2>1 DEF Covered, Tree
  <2>3. CASE head' = head
    BY <1>11, <1>12, <1>13, <2>1, <2>2, <2>3 DEF Covered, Tree
  <2>4. CASE NewCommit(0, live) /\ head' = Len(commits) + 1
    <3>0. 0 \in 0 .. Len(commits)
      BY <1>0
    <3>1. Grow(0, live, FALSE, TRUE)
      BY <2>4 DEF NewCommit
    <3>2. commits'[Len(commits) + 1].tree = live
      BY <1>0, <3>0, <3>1, Grown
    <3>3. \A p \in Paths : Covered(p)'
      BY <1>0, <2>1, <2>4, <3>2 DEF Covered, Tree
    <3> QED
      BY <1>11, <1>12, <1>13, <3>3
  <2> QED
    BY <1>13, <2>3, <2>4 DEF InitCreates
<1>14. CASE Contact
  <2>1. admin.at = "contact" /\ admin' = [at |-> "sync", todo |-> Paths, adopted |-> TRUE] /\ UNCHANGED <<live, mine>>
    BY <1>14 DEF Contact, history
  <2>2. head = 0
    BY <2>1 DEF PushedInv
  <2>3. \A p \in Paths : live[p] = None \/ p \in mine
    BY <1>2, <1>11, <1>14, <2>1, <2>2 DEF Covered, Tree, NoFiles
  <2>4. \A p \in Paths : Covered(p)'
    BY <2>1, <2>3 DEF Covered
  <2> QED
    BY <1>11, <1>12, <1>14, <2>4
<1>15. ASSUME NEW p \in Paths, Sync(p) PROVE Goal
  <2>1. /\ admin.at = "sync" /\ admin'.at = "sync" /\ admin'.todo = admin.todo \ {p}
        /\ live' = (IF Missing(p) THEN [live EXCEPT ![p] = Tree(head)[p]] ELSE live)
        /\ mine' = (IF Missing(p) THEN mine \ {p} ELSE mine)
        /\ UNCHANGED <<commits, head>>
    BY <1>15 DEF Sync, repo, Types, ManagerTypes
  <2>2. /\ \A q \in Paths \ {p} : live'[q] = live[q] /\ (q \in mine => q \in mine')
        /\ Missing(p) => live'[p] = Tree(head)[p]
        /\ ~Missing(p) => live'[p] = live[p] /\ mine' = mine
    BY <1>0, <2>1 DEF Trees
  <2>3. ASSUME NEW q \in Paths PROVE Covered(q)'
    <3>1. \/ live[q] = Tree(head)[q] \/ q \in mine \/ (q \in admin.todo /\ live[q] = None)
      BY <1>2, <1>11, <1>15 DEF Covered
    <3>2. CASE q # p
      BY <2>1, <2>2, <3>1, <3>2 DEF Covered, Tree
    <3>3. CASE q = p /\ Missing(p)
      BY <2>1, <2>2, <3>3 DEF Covered, Tree
    <3>4. CASE q = p /\ ~Missing(p)
      BY <2>1, <2>2, <3>1, <3>4 DEF Covered, Tree, Missing
    <3> QED
      BY <3>2, <3>3, <3>4
  <2> QED
    BY <1>11, <1>12, <1>15, <2>3
<1>16. CASE ContactFails
  <2>1. head' = 0 /\ UNCHANGED live /\ mine' = Kept
    BY <1>16 DEF ContactFails, Abandon
  <2>2. \A p \in Paths : Covered(p)'
    BY <2>1 DEF Covered, Tree, NoFiles, Kept
  <2> QED
    BY <1>11, <1>12, <1>16, <2>2
<1>17. ASSUME NEW d \in BOOLEAN, Restart(d) PROVE Goal
  <2>1. \A w \in Workers : op'[w].at = "idle"
    BY <1>17, NoOpRec DEF Restart
  <2>2. ~\E w \in Workers : op[w].at = "apply"
    BY Zenon, <1>17 DEF Restart
  <2>3. d \/ admin.at # "sync"
    BY Zenon, <1>17 DEF Restart
  <2>4. CASE d
    <3>1. head' = 0 /\ UNCHANGED live /\ mine' = Kept
      BY <1>17, <2>4 DEF Restart
    <3>2. \A p \in Paths : Covered(p)'
      BY <3>1 DEF Covered, Tree, NoFiles, Kept
    <3> QED
      BY <1>12, <2>1, <3>2
  <2>5. CASE ~d
    <3>1. UNCHANGED <<head, commits, live, mine>>
      BY <1>17, <2>5 DEF Restart
    <3>2. \A p \in Paths : Covered(p)'
      BY <1>2, <2>2, <2>3, <2>5, <3>1 DEF Covered, Tree
    <3> QED
      BY <1>12, <2>1, <3>2
  <2> QED
    BY <2>4, <2>5
<1> QED
  BY <1>3, <1>4, <1>6, <1>7, <1>8, <1>9, <1>10, <1>13, <1>14, <1>15, <1>16, <1>17
     DEF Next, Works, NewStep, QuietStep, OthersPush

-----------------------------------------------------------------------------
(* The results about the files *)

LEMMA IInvAlways == Spec => []IInv
<1>1. Init => OpInv /\ PushedInv /\ MineInv
  <2> SUFFICES ASSUME Init PROVE OpInv /\ PushedInv /\ MineInv
    OBVIOUS
  <2>1. /\ \A w \in Workers : op[w].at = "idle"
        /\ head = 0 /\ current = 0 /\ admin.at = "idle" /\ mine = {p \in Paths : live[p] # None}
    BY NoOpRec DEF Init, NoAdmin
  <2>2. OpInv
    BY <2>1 DEF OpInv, Basis, Content
  <2>3. PushedInv
    BY <2>1 DEF PushedInv
  <2>4. MineInv
    BY <2>1 DEF MineInv, Covered, Applying, Reading, Tree, NoFiles
  <2> QED
    BY <2>2, <2>3, <2>4
<1>2. Init => IInv
  BY <1>1, TypesInit, SchedInit DEF IInv
<1>3. IInv /\ [Next]_vars => IInv'
  BY TypesNext, SchedNext, WorkNext, OpNext, PushedNext, MineNext DEF IInv
<1> QED
  BY <1>2, <1>3, PTL DEF Spec

LEMMA IInvIs == IInv => /\ Types /\ SchedInv /\ WorkInv /\ OpInv /\ PushedInv /\ MineInv
                        /\ GitTypes /\ head \in 0 .. Len(commits) /\ remote \in 0 .. Len(commits)
                        /\ Len(commits) \in Nat /\ live \in Trees
  BY DEF IInv, Types, GitTypes

\* Neither direction undoes an edit: a pull replaces the version of the last
\* commit only, a cycle commits only what the wiki wrote or removed
\* (Repository.Pull, RunBackup, Manager.Init).
THEOREM EditsAreKept == Spec => EditsKept
<1> DEFINE Pulled == \A p \in Paths :
             live'[p] # live[p] /\ p \notin mine' =>
                \/ twin \/ \E w \in Workers : p \in op[w].touched
                \/ live[p] = Tree(head)[p]
                \/ admin.at = "sync" /\ live[p] = None
           Committed == LET c == Len(commits)'
                        IN  c # Len(commits) /\ commits'[c].ours /\ commits'[c].parent # 0 =>
                              \A p \in Paths : commits'[c].tree[p] # Tree(commits'[c].parent)[p]
                                                  => p \in mine \/ torn \/ unsynced \/ twin
<1>1. IInv /\ [Next]_vars => Pulled
  <2> SUFFICES ASSUME IInv, [Next]_vars, NEW p \in Paths, live'[p] # live[p], p \notin mine', ~twin
               PROVE  \/ \E w \in Workers : p \in op[w].touched
                      \/ live[p] = Tree(head)[p]
                      \/ admin.at = "sync" /\ live[p] = None
    OBVIOUS
  <2>0. Types /\ WorkInv /\ SchedInv /\ OpInv /\ GitTypes /\ live \in Trees
    BY IInvIs
  <2>1. ASSUME NEW q \in Paths, NEW c \in Contents \union {None}, Edit(q, c) PROVE FALSE
    BY <2>0, <2>1 DEF Edit, Trees
  <2>2. ASSUME NEW w \in Workers, NEW q \in Paths, Apply(w, q)
        PROVE  p \in op[w].touched \/ live[p] = Tree(head)[p]
    <3>1. op[w].at = "apply" /\ q \in op[w].deletes \union op[w].writes /\ live' = [live EXCEPT ![q] = Tree(op[w].tip)[q]]
      BY <2>0, <2>2, ApplyIs
    <3>2. p = q
      BY <2>0, <3>1 DEF Trees
    <3>3. Content(w)
      BY <2>0 DEF OpInv
    <3> QED
      BY <3>1, <3>2, <3>3 DEF Content
  <2>3. ASSUME NEW q \in Paths, Sync(q) PROVE admin.at = "sync" /\ live[p] = None
    <3>1. admin.at = "sync" /\ live' = IF Missing(q) THEN [live EXCEPT ![q] = Tree(head)[q]] ELSE live
      BY <2>3 DEF Sync
    <3> QED
      BY <2>0, <3>1 DEF Missing, Trees
  <2>4. ASSUME NEW w \in Workers, \/ Compare(w) \/ Plan(w) \/ SetHead(w) \/ CommitTree(w) \/ Push(w) \/ OpFails(w)
                                  \/ \E q \in Paths : Scan(w, q)
        PROVE  FALSE
    BY <2>4 DEF Compare, Plan, SetHead, CommitTree, Push, OpFails, Scan
  <2>5. CASE NewStep \/ QuietStep \/ OthersPush \/ OtherRewinds
    BY <2>0, <2>5, NewSteps, QuietSteps, OthersGrow DEF Quiet, OtherRewinds
  <2>6. CASE InitOpens \/ InitCreates \/ Contact \/ Contacted \/ ContactFails \/ \E d \in BOOLEAN : Restart(d)
    BY <2>6 DEF InitOpens, InitCreates, Contact, Contacted, ContactFails, Restart
  <2> QED
    BY <2>1, <2>2, <2>3, <2>4, <2>5, <2>6 DEF Next, NewStep, QuietStep, OthersPush
<1>2. IInv /\ [Next]_vars => Committed
  <2> SUFFICES ASSUME IInv, [Next]_vars,
                      Len(commits') # Len(commits), commits'[Len(commits')].ours, commits'[Len(commits')].parent # 0,
                      NEW p \in Paths,
                      commits'[Len(commits')].tree[p] # Tree(commits'[Len(commits')].parent)[p],
                      ~(torn \/ unsynced \/ twin)
               PROVE  p \in mine
    BY Zenon
  <2>0. Types /\ WorkInv /\ SchedInv /\ OpInv /\ MineInv /\ GitTypes /\ Len(commits) \in Nat
    BY IInvIs
  <2>1. ASSUME NEW w \in Workers, CommitTree(w) PROVE p \in mine
    <3>1. op[w].at = "read" /\ op[w].todo = {} /\ Grow(op[w].base, op[w].tree, FALSE, TRUE)
      BY <2>0, <2>1, CommitIs
    <3>2. op[w].tree \in Trees /\ op[w].base \in 0 .. Len(commits)
      BY <2>0 DEF Types, OpTypes, OpRecs, GitTypes
    <3>3. /\ Len(commits') = Len(commits) + 1 /\ commits'[Len(commits) + 1].tree = op[w].tree
          /\ commits'[Len(commits) + 1].parent = op[w].base
      BY <2>0, <3>1, <3>2, Grown
    <3>4. op[w].tree[p] # Tree(op[w].base)[p]
      BY <3>3
    <3> QED
      BY <2>0, <3>1, <3>4 DEF MineInv, Reading
  <2>2. CASE InitCreates
    <3>1. Grow(0, live, FALSE, TRUE)
      BY <2>2 DEF InitCreates, NewCommit
    <3>2. 0 \in 0 .. Len(commits) /\ live \in Trees
      BY <2>0 DEF Types
    <3>3. Len(commits') = Len(commits) + 1
      BY <2>0, <3>1, <3>2, Grown
    <3>4. commits'[Len(commits) + 1].parent = 0
      BY <2>0, <3>1, <3>2, Grown
    <3> QED
      BY <3>3, <3>4
  <2>3. CASE OthersPush
    BY <2>0, <2>3, OthersGrow
  <2>4. ASSUME NEW w \in Workers, \/ Compare(w) \/ Plan(w) \/ SetHead(w) \/ Push(w) \/ OpFails(w)
                                  \/ \E q \in Paths : Apply(w, q) \/ Scan(w, q)
        PROVE  FALSE
    BY <2>4 DEF Compare, Plan, SetHead, Push, OpFails, Apply, Scan, repo
  <2>5. CASE NewStep \/ QuietStep \/ OtherRewinds
    BY <2>0, <2>5, NewSteps, QuietSteps DEF Quiet, OtherRewinds
  <2>6. CASE InitOpens \/ Contact \/ Contacted \/ ContactFails \/ \E d \in BOOLEAN : Restart(d)
    BY <2>6 DEF InitOpens, Contact, Contacted, ContactFails, Restart, repo
  <2>7. CASE (\E q \in Paths : Sync(q)) \/ \E q \in Paths, c \in Contents \union {None} : Edit(q, c)
    BY <2>7 DEF Sync, Edit, repo
  <2> QED
    BY <2>1, <2>2, <2>3, <2>4, <2>5, <2>6, <2>7 DEF Next, NewStep, QuietStep, OthersPush
<1>3. Spec => [][Pulled]_vars /\ [][Committed]_vars
  BY <1>1, <1>2, IInvAlways, PTL DEF Spec
<1> QED
  BY <1>3 DEF EditsKept, PullKeepsEdits, CommitsOnlyEdits

\* A cycle that answers ok left the remote with the local branch, and the
\* branch with every file not edited since it was scanned (RunBackup).
THEOREM SuccessIsStored == Spec => SuccessMeansStored
<1> DEFINE A == \A g \in Gens :
         op[g].at \in {"read", "push"} /\ op'[g].at = "idle" /\ g = current /\ status' = "ok" =>
            \/ twin
            \/ /\ rewound' \/ head' \in History(remote)' \union {0}
               /\ \A p \in Paths : p \in op[g].touched \/ Tree(head)'[p] = live[p]
<1>1. IInv /\ [Next]_vars => A
  <2> SUFFICES ASSUME IInv, [Next]_vars, NEW g \in Gens, op[g].at \in {"read", "push"}, op'[g].at = "idle",
                      g = current, status' = "ok", ~twin
               PROVE  /\ rewound' \/ head' \in History(remote)' \union {0}
                      /\ \A p \in Paths : p \in op[g].touched \/ Tree(head)'[p] = live[p]
    OBVIOUS
  <2>0. /\ Types /\ WorkInv /\ SchedInv /\ OpInv /\ PushedInv /\ GitTypes /\ OpTypes /\ Len(commits) \in Nat
        /\ head \in 0 .. Len(commits)
        /\ g \in Workers /\ Active(g) /\ g # 0
    BY IInvIs DEF Types, Workers, Active, Gens
  <2>1. op[g].kind = "backup" /\ op[g].gen = current /\ Basis(g) /\ Content(g)
    BY <2>0 DEF WorkInv, OpInv
  <2>2. ASSUME Ends(g, "failed") PROVE FALSE
    BY <2>1, <2>2 DEF Ends
  <2>3. CASE CommitTree(g)
    <3>1. op[g].at = "read" /\ op[g].todo = {} /\ UNCHANGED <<remote, live, rewound>>
      BY <2>0, <2>3, CommitIs DEF history
    <3>2. op[g].tree = Tree(op[g].base) /\ (op[g].base = 0 \/ head = pushed[op[g].gen]) /\ UNCHANGED <<commits, head>>
      BY <2>0, <2>3, CommitIs DEF Moved
    <3>3. op[g].base = head /\ \A p \in Paths : p \in op[g].touched \/ Tree(head)[p] = live[p]
      BY <2>1, <3>1, <3>2 DEF Basis, Content
    <3>4. head = 0 \/ rewound \/ head \in History(remote)
      BY <2>0, <2>1, <3>2, <3>3 DEF PushedInv
    <3> QED
      BY <3>1, <3>2, <3>3, <3>4 DEF Tree, History
  <2>4. CASE Push(g)
    <3>1. op[g].at = "push" /\ UNCHANGED <<live, commits, head>> /\ head # 0 /\ remote' = head
      BY <2>0, <2>1, <2>2, <2>4, PushIs
    <3>2. head \in History(head) /\ \A p \in Paths : p \in op[g].touched \/ Tree(head)[p] = live[p]
      BY <2>0, <2>1, <3>1, LineSelf DEF Content
    <3> QED
      BY <3>1, <3>2 DEF Tree, History
  <2>5. CASE OpFails(g)
    BY <2>0, <2>2, <2>5, FailsIs
  <2>6. ASSUME Works(g), op[g].at \in {"read", "push"}, ~(CommitTree(g) \/ Push(g) \/ OpFails(g)) PROVE FALSE
    <3>1. PICK p \in Paths : Scan(g, p)
      BY <2>6 DEF Works, Compare, Plan, SetHead, Apply
    <3> QED
      BY <2>0, <3>1, ScanIs
  <2>7. ASSUME NEW w \in Workers \ {g}, Works(w) PROVE FALSE
    BY <2>0, <2>7, Alone DEF Active
  <2>8. ASSUME NEW p \in Paths, NEW c \in Contents \union {None}, Edit(p, c) PROVE FALSE
    BY <2>0, <2>8, Noted DEF Active
  <2>9. CASE OthersPush \/ OtherRewinds \/ QuietStep \/ GitStep
    <3>1. op' = op
      BY <2>0, <2>9, OthersGrow, QuietSteps, GitSteps DEF Quiet, OtherRewinds
    <3> QED
      BY <3>1
  <2>10. CASE NewStep
    BY <2>0, <2>10, NewSteps
  <2>11. ASSUME NEW d \in BOOLEAN, Restart(d) PROVE FALSE
    BY <2>11 DEF Restart
  <2> QED
    BY <2>3, <2>4, <2>5, <2>6, <2>7, <2>8, <2>9, <2>10, <2>11 DEF Next, Works, NewStep, QuietStep, GitStep, OthersPush
<1>2. Spec => [][A]_vars
  BY <1>1, IInvAlways, PTL DEF Spec
<1> QED
  BY <1>2 DEF SuccessMeansStored

=============================================================================

--------------------------- MODULE SnapshotProofs ---------------------------
(***************************************************************************)
(* What Snapshot promises, for every number of files, runs, requests and    *)
(* failures: the list and the status are true, and the list behaves as the  *)
(* shelf of SnapshotShelf.                                                  *)
(***************************************************************************)
EXTENDS Snapshot, FiniteSetTheorems, TLAPS

Away == {"wait", "off"}
Writing == {"vacuum", "zip", "walk", "card", "fill"}
Pruning == {"prune", "cardOnly", "cardToo"}
Reviewing == {"list", "read"} \union Pruning

Shelved == {cards[i] : i \in Listed}

-----------------------------------------------------------------------------
(* The invariant *)

Runs == [at : Away \union Writing \union Reviewing, id : Ids \union {None}, place : Nat, text : Texts,
         todo : SUBSET [id : Ids, number : Nat], names : SUBSET Ids, kept : SUBSET Places]
Requests == [at : {"idle", "zip", "card"}, kind : {"none", "delete", "open"},
             id : Ids \union {None}, number : Nat]
Statuses == [running : BOOLEAN, last : Nat, error : BOOLEAN, prune : BOOLEAN]

Shapes ==
    /\ wiki \in [Places -> Nat \union {None}]
    /\ zips \in [Ids -> Archives \union {None}]
    /\ cards \in [Ids -> Nat \union {None, Torn}]
    /\ run \in Runs /\ (run.at \in Writing => run.id \in Ids)
    /\ run.at = "zip" => run.text \in [0 .. 0 -> Nat \union {None}]
    /\ run.at = "walk" => run.place \in 1 .. Files + 1 /\ run.text \in [0 .. run.place - 1 -> Nat \union {None}]
    /\ manual \in BOOLEAN /\ tick \in BOOLEAN /\ stopping \in BOOLEAN
    /\ status \in Statuses
    /\ req \in [Calls -> Requests]
    /\ known \subseteq [id : Ids, number : Nat]
    /\ begun \in Nat /\ now \in 0 .. MaxSeconds /\ events \in Nat /\ asked \in Nat /\ ended \in Nat

\* Everything is numbered by a run that has begun, and the status says
\* running while the goroutine works.
Numbering ==
    /\ \A i \in Ids : zips[i] # None => zips[i].number <= begun
    /\ \A i \in Listed : cards[i] <= begun
    /\ \A k \in known : k.number <= begun
    /\ status.running <=> run.at \notin Away
    /\ status.last <= begun

\* A run for the start, and one at most for each event.
Pending == IF manual THEN IF tick THEN 2 ELSE 1 ELSE IF tick THEN 1 ELSE 0
Counting == events <= MaxEvents /\ begun + Pending <= events + 1

\* A request is about a snapshot that was in the list.
Asking ==
    \A c \in Calls :
        /\ req[c].at = "idle" <=> req[c].kind = "none"
        /\ req[c].at = "card" => req[c].kind = "delete"
        /\ req[c].at # "idle" => [id |-> req[c].id, number |-> req[c].number] \in known

\* The names in the list differ in number and are older than a run that is
\* writing; what is not being removed is whole, and where it was seen.
Whole(i, n) == zips[i] # None /\ zips[i].whole /\ zips[i].number = n
Stock ==
    /\ \A i, j \in Listed : cards[i] = cards[j] => i = j
    /\ \A i \in Listed : cards[i] > 0 /\ (cards[i] \notin gone => Whole(i, cards[i]))
    /\ run.at \in Writing => begun > 0 /\ run.id \notin Listed /\ \A i \in Listed : cards[i] < begun
    /\ run.at \in {"card", "fill"} => begun \in gone \/ Whole(run.id, begun)
    /\ \A k \in known : k.number \in gone \/ (k.id \in Listed /\ cards[k.id] = k.number)

\* What has been walked is as it is in the wiki, but for what has changed.
Walked(p) == (run.at = "zip" /\ p = 0) \/ (run.at = "walk" /\ p < run.place)
Archive == \A p \in run.kept : Walked(p) => run.text[p] = wiki[p]

\* No more than Retention are listed but for those that are to go, and a run
\* that ended well left its snapshot in the list.
Marked == {e.id : e \in run.todo}
Keeping ==
    /\ run.at \notin Pruning => run.todo = {}
    /\ run.at = "read" => Listed \subseteq run.names
    /\ run.at \in Pruning => Cardinality(Listed \ Marked) <= Retention
    /\ run.at \in Reviewing => Retention > 0 /\ begun > 0 /\ begun \in Shelved \union gone
    /\ status.last > 0 => status.last \in Shelved \union gone
    /\ run.at \in Away /\ status.last > 0 /\ ~ status.error /\ ~ status.prune =>
            Retention = 0 \/ Cardinality(Listed) <= Retention

Inv == Shapes /\ Numbering /\ Counting /\ Asking /\ Stock /\ Archive /\ Keeping

-----------------------------------------------------------------------------
(* Shapes *)

\* Constants and the records every step is built from.
LEMMA Constants ==
    /\ Files \in Nat /\ Retention \in Nat /\ MaxEvents \in Nat /\ MaxSeconds \in Nat
    /\ None # Torn /\ None \notin Nat /\ Torn \notin Nat /\ None \notin Archives
  BY SnapshotAssumption

\* A text of no place, of the databases, and one with its next file.
LEMMA NoTextShape == NoText \in Texts
<1>1. NoText \in [{} -> Nat \union {None}] BY DEF NoText
<1>2. {} \in SUBSET Places OBVIOUS
<1> QED BY <1>1, <1>2 DEF Texts

LEMMA TextShape ==
    ASSUME NEW places \in SUBSET Places, NEW text \in [places -> Nat \union {None}]
    PROVE  text \in Texts
  BY DEF Texts

LEMMA RestShape ==
    /\ Rest \in Runs
    /\ Rest.at = "wait" /\ Rest.place = 0 /\ Rest.todo = {} /\ Rest.names = {} /\ Rest.kept = Places
<1>1. NoText \in Texts BY NoTextShape
<1> QED BY <1>1 DEF Rest, Runs, Away

LEMMA IdleShape ==
    Idle \in Requests /\ Idle.at = "idle" /\ Idle.kind = "none"
  BY DEF Idle, Requests

\* Settle leaves the run at rest and the last run numbered.
LEMMA SettleShape ==
    ASSUME Shapes, NEW error \in BOOLEAN, NEW prune \in BOOLEAN, Settle(error, prune)
    PROVE  /\ run' = Rest /\ ended' = begun /\ status' \in Statuses
           /\ ~ status'.running
           /\ status'.error <=> error
           /\ status'.last = IF error THEN status.last ELSE begun
           /\ ~ error => (status'.prune <=> prune)
<1>1. status \in Statuses /\ begun \in Nat BY DEF Shapes
<1>2. status' = [running |-> FALSE, last |-> IF error THEN status.last ELSE begun, error |-> error,
                 prune |-> IF error THEN status.prune ELSE prune]
  BY DEF Settle, StillRunning
<1>3. (IF error THEN status.last ELSE begun) \in Nat BY <1>1 DEF Statuses
<1>4. (IF error THEN status.prune ELSE prune) \in BOOLEAN BY <1>1 DEF Statuses
<1>5. status' \in Statuses BY <1>2, <1>3, <1>4, Zenon DEF Statuses
<1>6. run' = Rest /\ ended' = begun BY DEF Settle
<1>7. ~ status'.running /\ (status'.error <=> error) BY <1>2
<1>8. status'.last = IF error THEN status.last ELSE begun BY <1>2
<1>9. ~ error => (status'.prune <=> prune) BY <1>2
<1> QED BY <1>5, <1>6, <1>7, <1>8, <1>9

LEMMA SettledWell ==
    ASSUME Shapes, NEW prune \in BOOLEAN, Settle(FALSE, prune)
    PROVE  /\ run' = Rest /\ ended' = begun /\ status' \in Statuses /\ ~ status'.running
           /\ ~ status'.error /\ status'.last = begun /\ (status'.prune <=> prune)
<1>1. /\ run' = Rest /\ ended' = begun /\ status' \in Statuses /\ ~ status'.running
      /\ status'.error <=> FALSE
      /\ status'.last = IF FALSE THEN status.last ELSE begun
      /\ ~ FALSE => (status'.prune <=> prune)
  BY SettleShape, Zenon
<1> QED BY <1>1

LEMMA SettledBadly ==
    ASSUME Shapes, Settle(TRUE, FALSE)
    PROVE  /\ run' = Rest /\ ended' = begun /\ status' \in Statuses /\ ~ status'.running
           /\ status'.error /\ status'.last = status.last
<1>1. /\ run' = Rest /\ ended' = begun /\ status' \in Statuses /\ ~ status'.running
      /\ status'.error <=> TRUE
      /\ status'.last = IF TRUE THEN status.last ELSE begun
  BY SettleShape, Zenon
<1> QED BY <1>1

\* Begins takes a name of which nothing is on disk.
LEMMA BeginsShape ==
    ASSUME Shapes, Begins
    PROVE  /\ run' \in Runs /\ run'.at = "vacuum" /\ run'.id \in Ids /\ Free(run'.id)
           /\ run'.place = 0 /\ run'.todo = {} /\ run'.names = {} /\ run'.kept = Places
           /\ status' \in Statuses /\ status'.running
           /\ status'.last = status.last /\ (status'.error <=> status.error) /\ (status'.prune <=> status.prune)
           /\ begun' = begun + 1 /\ now' \in 0 .. MaxSeconds
<1>1. PICK i \in Ids : IsNew(i) /\ run' = [Rest EXCEPT !.at = "vacuum", !.id = i] BY DEF Begins
<1>2. Rest \in Runs /\ Rest.place = 0 /\ Rest.todo = {} /\ Rest.names = {} /\ Rest.kept = Places
  BY RestShape
<1>3. run' \in Runs BY <1>1, <1>2, Zenon DEF Runs, Writing
<1>4. run'.at = "vacuum" /\ run'.id = i /\ run'.place = 0 /\ run'.todo = {} /\ run'.names = {} /\ run'.kept = Places
  BY <1>1, <1>2 DEF Runs
<1>5. Free(i) BY <1>1 DEF IsNew
<1>6. status' = [status EXCEPT !.running = TRUE] /\ status \in Statuses BY DEF Begins, Shapes
<1>7. status' \in Statuses BY <1>6, Zenon DEF Statuses
<1>8. /\ status'.running
      /\ status'.last = status.last /\ (status'.error <=> status.error) /\ (status'.prune <=> status.prune)
  BY <1>6 DEF Statuses
<1>9. begun' = begun + 1 BY DEF Begins
<1>10. now' \in 0 .. MaxSeconds BY Constants DEF Begins, Shapes
<1> QED BY <1>3, <1>4, <1>5, <1>7, <1>8, <1>9, <1>10, Zenon

-----------------------------------------------------------------------------
(* The steps of the goroutine on its own record *)

\* The fields a step leaves alone.
SameRun == run'.id = run.id /\ run'.kept = run.kept
Idling == run'.todo = run.todo /\ run'.names = run.names
Reading == run'.place = run.place /\ run'.text = run.text

LEMMA ToShape ==
    ASSUME Shapes, NEW at \in Away \union Writing \union Reviewing, To(at)
    PROVE  run' \in Runs /\ run'.at = at /\ SameRun /\ Idling /\ Reading
<1>1. run \in Runs /\ run' = [run EXCEPT !.at = at] BY DEF Shapes, To
<1>2. run' \in Runs BY <1>1, Zenon DEF Runs
<1>3. run'.at = at /\ SameRun /\ Idling /\ Reading BY <1>1 DEF Runs, SameRun, Idling, Reading
<1> QED BY <1>2, <1>3

LEMMA VacuumShape ==
    ASSUME Shapes, Vacuum
    PROVE  /\ run' \in Runs /\ run'.at = "zip" /\ SameRun /\ Idling /\ run'.place = run.place
           /\ run'.text \in [0 .. 0 -> Nat \union {None}] /\ run'.text[0] = wiki[0]
           /\ run.at = "vacuum"
<1> DEFINE text == [place \in {0} |-> wiki[place]]
<1>1. run \in Runs /\ run.at = "vacuum" /\ run' = [run EXCEPT !.at = "zip", !.text = text]
  BY DEF Shapes, Vacuum
<1>2. {0} \subseteq Places BY Constants DEF Places
<1>3. text \in [{0} -> Nat \union {None}] BY <1>2 DEF Shapes
<1>4. text \in Texts BY <1>2, <1>3, TextShape
<1>7. text \in [0 .. 0 -> Nat \union {None}] /\ text[0] = wiki[0] BY <1>3
<1> HIDE DEF text
<1>5. run' \in Runs BY <1>1, <1>4, Zenon DEF Runs, Writing
<1>6. run'.at = "zip" /\ SameRun /\ Idling /\ run'.place = run.place /\ run'.text = text
  BY <1>1 DEF Runs, SameRun, Idling
<1> QED BY <1>1, <1>5, <1>6, <1>7

LEMMA CreateZipShape ==
    ASSUME Shapes, CreateZip
    PROVE  /\ run' \in Runs /\ run'.at = "walk" /\ SameRun /\ Idling /\ run'.place = 1 /\ run'.text = run.text
           /\ run.at = "zip"
<1>1. run \in Runs /\ run.at = "zip" /\ run' = [run EXCEPT !.at = "walk", !.place = 1]
  BY DEF Shapes, CreateZip
<1>2. run' \in Runs BY <1>1 DEF Runs, Writing
<1>3. run'.at = "walk" /\ SameRun /\ Idling /\ run'.place = 1 /\ run'.text = run.text
  BY <1>1 DEF Runs, SameRun, Idling
<1> QED BY <1>1, <1>2, <1>3

LEMMA AddFileShape ==
    ASSUME Shapes, AddFile
    PROVE  /\ run' \in Runs /\ run'.at = "walk" /\ SameRun /\ Idling /\ run'.place = run.place + 1
           /\ run'.text = WithNext /\ WithNext \in [0 .. run.place -> Nat \union {None}]
           /\ run.at = "walk" /\ run.place \in 1 .. Files
<1>1. /\ run \in Runs /\ run.at = "walk" /\ run.place \in 1 .. Files
      /\ run' = [run EXCEPT !.place = run.place + 1, !.text = WithNext]
  BY Constants DEF Shapes, AddFile, Following
<1>2. 0 .. run.place \subseteq Places /\ run.place + 1 \in Nat BY <1>1, Constants DEF Places
<1>3. run.text \in [0 .. run.place - 1 -> Nat \union {None}] BY <1>1 DEF Shapes
<1>4. WithNext \in [0 .. run.place -> Nat \union {None}]
  <2> SUFFICES ASSUME NEW place \in 0 .. run.place
               PROVE  (IF place = run.place THEN wiki[place] ELSE run.text[place]) \in Nat \union {None}
    BY Zenon DEF WithNext
  <2>1. wiki[place] \in Nat \union {None} BY <1>2 DEF Shapes
  <2>2. place # run.place => place \in 0 .. run.place - 1 BY <1>1
  <2> QED BY <2>1, <2>2, <1>3
<1>5. WithNext \in Texts BY <1>2, <1>4, TextShape
<1>6. run' \in Runs BY <1>1, <1>2, <1>5, Zenon DEF Runs
<1>7. run'.at = "walk" /\ SameRun /\ Idling /\ run'.place = run.place + 1 /\ run'.text = WithNext
  BY <1>1 DEF Runs, SameRun, Idling
<1> QED BY <1>1, <1>4, <1>6, <1>7

LEMMA ListNamesShape ==
    ASSUME Shapes, ListNames
    PROVE  /\ run' \in Runs /\ run'.at = "read" /\ SameRun /\ run'.todo = run.todo /\ run'.names = Names
           /\ run.at = "list"
<1>1. run \in Runs /\ run.at = "list" /\ run' = [run EXCEPT !.at = "read", !.names = Names]
  BY DEF Shapes, ListNames
<1>2. run' \in Runs BY <1>1 DEF Runs, Reviewing, Names
<1>3. run'.at = "read" /\ SameRun /\ run'.todo = run.todo /\ run'.names = Names
  BY <1>1 DEF Runs, SameRun
<1> QED BY <1>1, <1>2, <1>3

\* Reading the sidecars finds them all and marks the surplus, or gives up.
LEMMA ReadCardsShape ==
    ASSUME Shapes, ReadCards
    PROVE  /\ run.at = "read"
           /\ \/ /\ run.names \subseteq Listed
                 /\ run' \in Runs /\ run'.at = "prune" /\ SameRun
                 /\ run'.todo = Surplus(run.names) /\ run'.names = {}
                 /\ UNCHANGED <<status, ended>>
              \/ Settle(FALSE, PruneError)
<1>1. run \in Runs /\ run.at = "read" BY DEF Shapes, ReadCards
<1>2. CASE run.names \subseteq Listed
  <2>1. run' = [run EXCEPT !.at = "prune", !.todo = Surplus(run.names), !.names = {}]
    BY <1>2 DEF ReadCards
  <2>2. Surplus(run.names) \subseteq [id : Ids, number : Nat]
    <3> SUFFICES ASSUME NEW i \in run.names PROVE [id |-> i, number |-> cards[i]] \in [id : Ids, number : Nat]
      BY DEF Surplus, Entries
    <3>1. i \in Ids /\ cards[i] \in Nat BY <1>2, <1>1 DEF Runs, Listed, Shapes
    <3> QED BY <3>1
  <2>3. run' \in Runs BY <1>1, <2>1, <2>2 DEF Runs, Reviewing, Pruning
  <2>4. run'.at = "prune" /\ SameRun /\ run'.todo = Surplus(run.names) /\ run'.names = {}
    BY <1>1, <2>1 DEF Runs, SameRun
  <2>5. UNCHANGED <<status, ended>> BY <1>2 DEF ReadCards
  <2> QED BY <1>1, <1>2, <2>3, <2>4, <2>5
<1>3. CASE ~(run.names \subseteq Listed) BY <1>1, <1>3 DEF ReadCards
<1> QED BY <1>2, <1>3

LEMMA PruneZipShape ==
    ASSUME Shapes, PruneZip
    PROVE  /\ run.at = "prune" /\ run' \in Runs /\ run'.at \in {"cardOnly", "cardToo"} /\ SameRun /\ Idling
           /\ \E e \in run.todo : zips' = [zips EXCEPT ![e.id] = None] /\ Removing(e.id) /\ e.id \in Ids
<1>1. PICK e \in run.todo :
        /\ run' = [run EXCEPT !.at = IF zips[e.id] = None THEN "cardOnly" ELSE "cardToo"]
        /\ zips' = [zips EXCEPT ![e.id] = None] /\ Removing(e.id)
  BY DEF PruneZip
<1>2. run \in Runs /\ run.at = "prune" BY DEF Shapes, PruneZip
<1>3. run' \in Runs BY <1>1, <1>2 DEF Runs, Reviewing, Pruning
<1>4. run'.at \in {"cardOnly", "cardToo"} /\ SameRun /\ Idling BY <1>1, <1>2 DEF Runs, SameRun, Idling
<1>5. e.id \in Ids BY <1>2 DEF Runs
<1> QED BY <1>1, <1>2, <1>3, <1>4, <1>5

LEMMA PruneCardShape ==
    ASSUME Shapes, PruneCard
    PROVE  /\ run.at \in {"cardOnly", "cardToo"}
           /\ \E e \in run.todo :
                /\ e.id \in Ids /\ cards' = [cards EXCEPT ![e.id] = None] /\ Removing(e.id)
                /\ \/ Settle(FALSE, PruneError)
                   \/ /\ run' \in Runs /\ run'.at = "prune" /\ SameRun
                      /\ run'.todo = run.todo \ {e} /\ run'.names = run.names
                      /\ UNCHANGED <<status, ended>>
<1>1. PICK e \in run.todo :
        /\ IF run.at = "cardOnly" /\ cards[e.id] = None THEN Settle(FALSE, PruneError)
           ELSE run' = [run EXCEPT !.at = "prune", !.todo = @ \ {e}] /\ UNCHANGED <<status, ended>>
        /\ cards' = [cards EXCEPT ![e.id] = None] /\ Removing(e.id)
  BY DEF PruneCard
<1>2. run \in Runs /\ run.at \in {"cardOnly", "cardToo"} BY DEF Shapes, PruneCard
<1>3. e.id \in Ids BY <1>2 DEF Runs
<1>4. CASE run.at = "cardOnly" /\ cards[e.id] = None BY <1>1, <1>2, <1>3, <1>4
<1>5. CASE ~(run.at = "cardOnly" /\ cards[e.id] = None)
  <2>1. run' = [run EXCEPT !.at = "prune", !.todo = run.todo \ {e}] /\ UNCHANGED <<status, ended>>
    BY <1>1, <1>2, <1>5 DEF Runs
  <2>2. run' \in Runs BY <1>2, <2>1 DEF Runs, Reviewing, Pruning
  <2>3. run'.at = "prune" /\ SameRun /\ run'.todo = run.todo \ {e} /\ run'.names = run.names
    BY <1>2, <2>1 DEF Runs, SameRun
  <2> QED BY <1>1, <1>2, <1>3, <2>1, <2>2, <2>3
<1> QED BY <1>4, <1>5

LEMMA ChangedShape ==
    ASSUME Shapes, NEW places, Changed(places)
    PROVE  /\ run' \in Runs /\ run'.at = run.at /\ run'.id = run.id /\ Idling /\ Reading
           /\ run'.kept \subseteq run.kept
           /\ run.at \notin Away => run'.kept = run.kept \ places
<1>1. run \in Runs BY DEF Shapes
<1>2. CASE run.at \in Away
  <2>1. run' = run BY <1>2 DEF Changed, Away
  <2> QED BY <1>1, <1>2, <2>1 DEF Idling, Reading
<1>3. CASE run.at \notin Away
  <2>1. run' = [run EXCEPT !.kept = run.kept \ places] BY <1>1, <1>3 DEF Changed, Away, Runs
  <2>2. run' \in Runs BY <1>1, <2>1 DEF Runs
  <2>3. /\ run'.at = run.at /\ run'.id = run.id /\ Idling /\ Reading
        /\ run'.kept = run.kept \ places
    BY <1>1, <2>1 DEF Runs, Idling, Reading
  <2> QED BY <1>3, <2>2, <2>3
<1> QED BY <1>2, <1>3

LEMMA RequestShape ==
    ASSUME Shapes, NEW c \in Calls, NEW kind \in {"delete", "open"}, NEW k \in known, Request(c, kind, k)
    PROVE  /\ req' \in [Calls -> Requests] /\ req[c].at = "idle"
           /\ req'[c].at = "zip" /\ req'[c].kind = kind /\ req'[c].id = k.id /\ req'[c].number = k.number
           /\ \A d \in Calls \ {c} : req'[d] = req[d]
<1> DEFINE asks == [at |-> "zip", kind |-> kind, id |-> k.id, number |-> k.number]
<1>1. req' = [req EXCEPT ![c] = asks] /\ req[c].at = "idle" BY DEF Request
<1>2. asks \in Requests BY DEF Shapes, Requests
<1>3. asks.at = "zip" /\ asks.kind = kind /\ asks.id = k.id /\ asks.number = k.number OBVIOUS
<1> HIDE DEF asks
<1>4. req' \in [Calls -> Requests] BY <1>1, <1>2 DEF Shapes
<1>5. req'[c] = asks /\ \A d \in Calls \ {c} : req'[d] = req[d] BY <1>1 DEF Shapes
<1> QED BY <1>1, <1>3, <1>4, <1>5

LEMMA DeleteZipShape ==
    ASSUME Shapes, NEW c \in Calls, DeleteZip(c)
    PROVE  /\ req' \in [Calls -> Requests] /\ req[c].at = "zip" /\ req[c].kind = "delete"
           /\ req'[c].at = "card" /\ req'[c].kind = "delete" /\ req'[c].id = req[c].id /\ req'[c].number = req[c].number
           /\ \A d \in Calls \ {c} : req'[d] = req[d]
<1>1. /\ req' = [req EXCEPT ![c] = [req[c] EXCEPT !.at = "card"]] /\ req[c].at = "zip" /\ req[c].kind = "delete"
      /\ req \in [Calls -> Requests] /\ req[c] \in Requests
  BY DEF DeleteZip, Shapes
<1>2. [req[c] EXCEPT !.at = "card"] \in Requests BY <1>1, Zenon DEF Requests
<1>3. req' \in [Calls -> Requests] BY <1>1, <1>2
<1>4. req'[c] = [req[c] EXCEPT !.at = "card"] /\ \A d \in Calls \ {c} : req'[d] = req[d] BY <1>1
<1>5. req'[c].at = "card" /\ req'[c].kind = "delete" /\ req'[c].id = req[c].id /\ req'[c].number = req[c].number
  BY <1>1, <1>4 DEF Requests
<1> QED BY <1>1, <1>3, <1>4, <1>5

\* Whatever ends a request leaves it idle.
LEMMA Ended ==
    ASSUME Shapes, NEW c \in Calls, req' = [req EXCEPT ![c] = Idle]
    PROVE  /\ req' \in [Calls -> Requests]
           /\ req'[c].at = "idle" /\ req'[c].kind = "none"
           /\ \A d \in Calls \ {c} : req'[d] = req[d]
  BY IdleShape DEF Shapes

\* The disk keeps its shape whatever a step does to one name.
LEMMA DiskShape ==
    ASSUME Shapes, NEW i \in Ids
    PROVE  /\ [zips EXCEPT ![i] = None] \in [Ids -> Archives \union {None}]
           /\ [cards EXCEPT ![i] = None] \in [Ids -> Nat \union {None, Torn}]
           /\ [cards EXCEPT ![i] = Torn] \in [Ids -> Nat \union {None, Torn}]
           /\ [cards EXCEPT ![i] = begun] \in [Ids -> Nat \union {None, Torn}]
           /\ [zips EXCEPT ![i] = [number |-> begun, whole |-> FALSE, text |-> NoText]] \in [Ids -> Archives \union {None}]
           /\ [zips EXCEPT ![i] = [number |-> begun, whole |-> TRUE, text |-> run.text]] \in [Ids -> Archives \union {None}]
<1>1. NoText \in Texts /\ run.text \in Texts /\ begun \in Nat BY NoTextShape DEF Shapes, Runs
<1>2. \A text \in Texts, whole \in BOOLEAN : [number |-> begun, whole |-> whole, text |-> text] \in Archives
  BY <1>1 DEF Archives
<1>3. /\ [number |-> begun, whole |-> FALSE, text |-> NoText] \in Archives
      /\ [number |-> begun, whole |-> TRUE, text |-> run.text] \in Archives
  BY <1>1, <1>2
<1>4. zips \in [Ids -> Archives \union {None}] /\ cards \in [Ids -> Nat \union {None, Torn}] BY DEF Shapes
<1> QED BY <1>1, <1>3, <1>4

LEMMA RemovedShape ==
    ASSUME Shapes, NEW i
    PROVE  /\ [zips EXCEPT ![i] = None] \in [Ids -> Archives \union {None}]
           /\ [cards EXCEPT ![i] = None] \in [Ids -> Nat \union {None, Torn}]
  BY DEF Shapes

\* An edit and a move keep the texts of the wiki texts.
LEMMA EditShape ==
    ASSUME Shapes, NEW place \in Places, Edit(place)
    PROVE  wiki' \in [Places -> Nat \union {None}]
<1>1. wiki' = [wiki EXCEPT ![place] = IF wiki[place] = None THEN 1 ELSE wiki[place] + 1]
  BY DEF Edit, Shapes
<1>2. (IF wiki[place] = None THEN 1 ELSE wiki[place] + 1) \in Nat BY DEF Shapes
<1> QED BY <1>1, <1>2 DEF Shapes

LEMMA MoveShape ==
    ASSUME Shapes, NEW from \in Places, NEW to \in Places, Move(from, to)
    PROVE  wiki' \in [Places -> Nat \union {None}]
  BY DEF Move, Shapes

-----------------------------------------------------------------------------
(* The shapes stay *)

LEMMA ShapesInit == Init => Shapes
<1> SUFFICES ASSUME Init PROVE Shapes OBVIOUS
<1>1. wiki \in [Places -> Nat \union {None}] BY DEF Init
<1>2. zips \in [Ids -> Archives \union {None}] /\ cards \in [Ids -> Nat \union {None, Torn}] BY DEF Init
<1>3. run \in Runs /\ run.at = "wait" BY RestShape DEF Init
<1>4. req \in [Calls -> Requests] BY IdleShape DEF Init
<1>5. status \in Statuses BY DEF Init, Statuses
<1>6. now \in 0 .. MaxSeconds BY Constants DEF Init
<1> QED BY <1>1, <1>2, <1>3, <1>4, <1>5, <1>6 DEF Init, Shapes, Writing

\* What Shapes says of the run, of the disk and of the rest.
LEMMA ShapesParts ==
    ASSUME wiki' \in [Places -> Nat \union {None}],
           zips' \in [Ids -> Archives \union {None}], cards' \in [Ids -> Nat \union {None, Torn}],
           run' \in Runs, run'.at \in Writing => run'.id \in Ids,
           run'.at = "zip" => run'.text \in [0 .. 0 -> Nat \union {None}],
           run'.at = "walk" => /\ run'.place \in 1 .. Files + 1
                               /\ run'.text \in [0 .. run'.place - 1 -> Nat \union {None}],
           manual' \in BOOLEAN, tick' \in BOOLEAN, stopping' \in BOOLEAN, status' \in Statuses,
           req' \in [Calls -> Requests], known' \subseteq [id : Ids, number : Nat],
           begun' \in Nat, now' \in 0 .. MaxSeconds, events' \in Nat, asked' \in Nat, ended' \in Nat
    PROVE  Shapes'
  BY Zenon DEF Shapes

LEMMA ShapesNext == Shapes /\ [Next]_vars => Shapes'
<1> SUFFICES ASSUME Shapes, [Next]_vars PROVE Shapes' OBVIOUS
<1> USE DEF Writing, Reviewing, Pruning, Away, world, scheduler
<1>1. ASSUME TakeManual \/ TakeTick PROVE Shapes'
  <2>1. Begins BY <1>1 DEF TakeManual, TakeTick
  <2>2. manual' \in BOOLEAN /\ tick' \in BOOLEAN BY <1>1 DEF TakeManual, TakeTick, Shapes
  <2>3. /\ run' \in Runs /\ run'.at = "vacuum" /\ run'.id \in Ids /\ status' \in Statuses
        /\ begun' = begun + 1 /\ now' \in 0 .. MaxSeconds
    BY <2>1, BeginsShape
  <2> QED BY <2>1, <2>2, <2>3 DEF Begins, Shapes
<1>2. CASE Vacuum BY <1>2, VacuumShape DEF Vacuum, Shapes, SameRun
<1>3. CASE CreateZip
  <2>1. run.id \in Ids BY <1>3, CreateZipShape DEF Shapes
  <2>2. zips' \in [Ids -> Archives \union {None}] BY <1>3, <2>1, DiskShape DEF CreateZip
  <2>3. run'.place = 1 /\ run'.text \in [0 .. 0 -> Nat \union {None}] /\ run'.at = "walk" /\ run' \in Runs
    BY <1>3, CreateZipShape DEF Shapes
  <2>4. run'.place \in 1 .. Files + 1 /\ run'.place - 1 = 0 BY <2>3, Constants
  <2> QED BY <1>3, <2>1, <2>2, <2>3, <2>4, CreateZipShape DEF CreateZip, Shapes, SameRun
<1>4. CASE AddFile
  <2>1. run'.at = "walk" /\ run' \in Runs /\ run'.place = run.place + 1 /\ run.place \in 1 .. Files
        /\ run'.text \in [0 .. run.place -> Nat \union {None}] /\ run'.id = run.id /\ run.at = "walk"
    BY <1>4, AddFileShape DEF SameRun
  <2>2. run'.place \in 1 .. Files + 1 /\ run'.place - 1 = run.place BY <2>1, Constants
  <2> QED BY <1>4, <2>1, <2>2 DEF AddFile, Shapes
<1>5. CASE CloseZip
  <2>1. run.id \in Ids BY <1>5 DEF CloseZip, Shapes
  <2>2. zips' \in [Ids -> Archives \union {None}] BY <1>5, <2>1, DiskShape DEF CloseZip
  <2> QED BY <1>5, <2>1, <2>2, ToShape DEF CloseZip, Shapes, SameRun
<1>6. CASE CreateCard
  <2>1. run.id \in Ids BY <1>6 DEF CreateCard, Shapes
  <2>2. cards' \in [Ids -> Nat \union {None, Torn}] BY <1>6, <2>1, DiskShape DEF CreateCard
  <2> QED BY <1>6, <2>1, <2>2, ToShape DEF CreateCard, Shapes, SameRun
<1>7. CASE FillCard
  <2>1. run.id \in Ids /\ begun \in Nat BY <1>7 DEF FillCard, Shapes
  <2>2. cards' \in [Ids -> Nat \union {None, Torn}] BY <1>7, <2>1, DiskShape DEF FillCard
  <2>3. known' \subseteq [id : Ids, number : Nat] BY <1>7, <2>1 DEF FillCard, Shapes
  <2>4. CASE Retention = 0 BY <1>7, <2>2, <2>3, <2>4, SettleShape, RestShape DEF FillCard, Shapes
  <2>5. CASE Retention # 0 BY <1>7, <2>1, <2>2, <2>3, <2>5, ToShape DEF FillCard, Shapes, SameRun
  <2> QED BY <2>4, <2>5
<1>8. CASE ListNames BY <1>8, ListNamesShape DEF ListNames, Shapes, SameRun
<1>9. CASE ReadCards
  <2>1. CASE Settle(FALSE, PruneError) BY <1>9, <2>1, SettleShape, RestShape DEF ReadCards, Shapes, PruneError
  <2>2. CASE ~Settle(FALSE, PruneError) BY <1>9, <2>2, ReadCardsShape DEF ReadCards, Shapes, SameRun
  <2> QED BY <2>1, <2>2
<1>10. CASE PruneZip
  <2>1. PICK e \in run.todo : zips' = [zips EXCEPT ![e.id] = None] /\ e.id \in Ids BY <1>10, PruneZipShape
  <2>2. zips' \in [Ids -> Archives \union {None}] BY <2>1, DiskShape
  <2> QED BY <1>10, <2>2, PruneZipShape DEF PruneZip, Shapes, SameRun
<1>11. CASE PruneCard
  <2>1. PICK e \in run.todo :
            /\ e.id \in Ids /\ cards' = [cards EXCEPT ![e.id] = None]
            /\ \/ Settle(FALSE, PruneError)
               \/ run' \in Runs /\ run'.at = "prune" /\ SameRun /\ UNCHANGED <<status, ended>>
    BY <1>11, PruneCardShape
  <2>2. cards' \in [Ids -> Nat \union {None, Torn}] BY <2>1, DiskShape
  <2>3. CASE Settle(FALSE, PruneError)
    BY <1>11, <2>2, <2>3, SettleShape, RestShape DEF PruneCard, Shapes, PruneError
  <2>4. CASE run' \in Runs /\ run'.at = "prune" /\ SameRun /\ UNCHANGED <<status, ended>>
    BY <1>11, <2>2, <2>4 DEF PruneCard, Shapes, SameRun
  <2> QED BY <2>1, <2>3, <2>4
<1>12. CASE Pruned BY <1>12, SettleShape, RestShape DEF Pruned, Shapes
<1>13. CASE Stopped BY <1>13, ToShape DEF Stopped, Shapes, SameRun
<1>14. CASE Fail
  <2>1. run.id \in Ids /\ events' \in Nat BY <1>14 DEF Fail, Shapes, Event
  <2>2. zips' \in [Ids -> Archives \union {None}] BY <1>14, <2>1, DiskShape DEF Fail, Cleaned, Shapes
  <2> QED BY <1>14, <2>1, <2>2, SettleShape, RestShape DEF Fail, Shapes
<1>15. CASE Panic
  <2>1. events' \in Nat BY <1>15 DEF Panic, Shapes, Event
  <2> QED BY <1>15, <2>1, SettleShape, RestShape DEF Panic, Shapes
<1>16. CASE Trigger BY <1>16 DEF Trigger, Shapes, Event
<1>17. CASE Tick BY <1>17 DEF Tick, Shapes, Event
<1>18. CASE Stop BY <1>18 DEF Stop, Shapes, Event
<1>19. CASE Restart
  <2>1. status' \in Statuses BY <1>19 DEF Restart, Statuses
  <2>2. req' \in [Calls -> Requests]
    <3>1. req' = [c \in Calls |-> Idle] BY <1>19 DEF Restart
    <3> QED BY <3>1, IdleShape
  <2>3. run' \in Runs /\ run'.at = "wait" BY <1>19, RestShape DEF Restart
  <2>4. manual' \in BOOLEAN /\ tick' \in BOOLEAN /\ stopping' \in BOOLEAN
    <3>1. manual' = TRUE /\ tick' = FALSE /\ stopping' = FALSE BY <1>19 DEF Restart
    <3> QED BY <3>1, Zenon
  <2>6. events' \in Nat
    <3>1. events' = events + 1 BY <1>19 DEF Restart, Event
    <3> QED BY <3>1 DEF Shapes
  <2>5. UNCHANGED <<wiki, zips, cards, known, begun, now, asked, ended>> BY <1>19 DEF Restart
  <2> QED BY <2>1, <2>2, <2>3, <2>4, <2>5, <2>6 DEF Shapes
<1>20. ASSUME NEW c \in Calls, DeleteZip(c) PROVE Shapes'
  <2>1. zips' \in [Ids -> Archives \union {None}] BY <1>20, RemovedShape DEF DeleteZip
  <2> QED BY <1>20, <2>1, DeleteZipShape DEF DeleteZip, Shapes
<1>21. ASSUME NEW c \in Calls, DeleteCard(c) PROVE Shapes'
  <2>1. cards' \in [Ids -> Nat \union {None, Torn}] BY <1>21, RemovedShape DEF DeleteCard
  <2> QED BY <1>21, <2>1, Ended DEF DeleteCard, Shapes
<1>22. ASSUME NEW c \in Calls, Open(c) PROVE Shapes' BY <1>22, Ended DEF Open, Shapes
<1>23. ASSUME NEW c \in Calls, NEW kind \in {"delete", "open"}, NEW k \in known, Request(c, kind, k) PROVE Shapes'
  <2>1. req' \in [Calls -> Requests] BY <1>23, RequestShape
  <2>2. events' \in Nat BY <1>23 DEF Request, Shapes, Event
  <2> QED BY <1>23, <2>1, <2>2 DEF Request, Shapes
<1>24. ASSUME NEW place \in Places, Edit(place) PROVE Shapes'
  BY <1>24, EditShape, ChangedShape, SMTT(30) DEF Edit, Shapes, Event, Reading
<1>25. ASSUME NEW from \in Places \ {0}, NEW to \in Places \ {0}, Move(from, to) PROVE Shapes'
  BY <1>25, MoveShape, ChangedShape, SMTT(30) DEF Move, Shapes, Event, Reading
<1>26. CASE UNCHANGED vars BY <1>26 DEF vars, Shapes
<1> QED
  BY <1>1, <1>2, <1>3, <1>4, <1>5, <1>6, <1>7, <1>8, <1>9, <1>10, <1>11, <1>12, <1>13, <1>14, <1>15, <1>16, <1>17,
     <1>18, <1>19, <1>20, <1>21, <1>22, <1>23, <1>24, <1>25, <1>26 DEF Next, Work

-----------------------------------------------------------------------------
(* What a step does to the disk: one name is cleared, written or listed *)

\* A removal takes what is there from the list, and the numbers of it are gone.
ZipCleared(i) == zips' = [zips EXCEPT ![i] = None] /\ cards' = cards /\ Removing(i)
CardCleared(i) == cards' = [cards EXCEPT ![i] = None] /\ zips' = zips /\ Removing(i)

LEMMA Removal ==
    ASSUME Shapes, NEW i \in Ids, ZipCleared(i) \/ CardCleared(i)
    PROVE  /\ \A j \in Ids : zips'[j] = zips[j] \/ (j = i /\ zips'[j] = None)
           /\ \A j \in Ids : cards'[j] = cards[j] \/ (j = i /\ cards'[j] = None)
           /\ gone \subseteq gone' /\ (i \in Listed => cards[i] \in gone')
           /\ zips[i] # None => zips[i].number \in gone'
           /\ Listed' \subseteq Listed /\ Listed \ {i} \subseteq Listed'
<1>1. /\ \A j \in Ids : zips'[j] = zips[j] \/ (j = i /\ zips'[j] = None)
      /\ \A j \in Ids : cards'[j] = cards[j] \/ (j = i /\ cards'[j] = None)
  BY DEF ZipCleared, CardCleared, Shapes
<1>2. Removing(i) BY DEF ZipCleared, CardCleared
<1>3. gone \subseteq gone' /\ (i \in Listed => cards[i] \in gone') BY <1>2 DEF Removing, Listed
<1>4. zips[i] # None => zips[i].number \in gone' BY <1>2 DEF Removing
<1>5. Listed' \subseteq Listed /\ Listed \ {i} \subseteq Listed' BY <1>1 DEF Listed
<1> QED BY <1>1, <1>3, <1>4, <1>5

\* The archive under the name of the run.
LEMMA ZipWritten ==
    ASSUME Shapes, NEW i \in Ids, NEW whole \in BOOLEAN, NEW text,
           zips' = [zips EXCEPT ![i] = [number |-> begun, whole |-> whole, text |-> text]]
    PROVE  /\ \A j \in Ids \ {i} : zips'[j] = zips[j]
           /\ zips'[i].number = begun /\ zips'[i].text = text /\ (zips'[i].whole <=> whole)
<1> DEFINE archive == [number |-> begun, whole |-> whole, text |-> text]
<1>1. archive.number = begun /\ archive.text = text /\ (archive.whole <=> whole) OBVIOUS
<1> HIDE DEF archive
<1>2. zips' = [zips EXCEPT ![i] = archive] BY DEF archive
<1>3. zips'[i] = archive /\ \A j \in Ids \ {i} : zips'[j] = zips[j] BY <1>2 DEF Shapes
<1> QED BY <1>1, <1>3

-----------------------------------------------------------------------------
(* Numbers, events and requests *)

LEMMA NumberingInit == Init => Numbering
<1> SUFFICES ASSUME Init PROVE Numbering OBVIOUS
<1>1. \A i \in Ids : zips[i] = None /\ cards[i] = None BY DEF Init
<1>2. run.at = "wait" /\ ~ status.running /\ status.last = 0 /\ begun = 0 /\ known = {}
  BY RestShape DEF Init
<1> QED BY <1>1, <1>2 DEF Numbering, Listed, Away

LEMMA NumberingNext == Shapes /\ Numbering /\ [Next]_vars => Numbering'
<1> SUFFICES ASSUME Shapes, Numbering, [Next]_vars PROVE Numbering' OBVIOUS
<1> USE DEF Writing, Reviewing, Pruning, Away, world, scheduler
<1>1. ASSUME TakeManual \/ TakeTick PROVE Numbering'
  <2>1. Begins BY <1>1 DEF TakeManual, TakeTick
  <2>2. run'.at = "vacuum" /\ status'.running /\ status'.last = status.last /\ begun' = begun + 1
    BY <2>1, BeginsShape
  <2>3. UNCHANGED <<zips, cards, known>> BY <2>1 DEF Begins
  <2>4. \A i \in Ids : zips[i] # None => zips[i].number \in Nat BY DEF Shapes, Archives
  <2>5. \A i \in Listed : cards[i] \in Nat BY DEF Shapes, Listed
  <2>6. \A k \in known : k.number \in Nat BY DEF Shapes
  <2>7. status.last \in Nat /\ begun \in Nat BY DEF Shapes, Statuses
  <2> QED BY <2>2, <2>3, <2>4, <2>5, <2>6, <2>7 DEF Numbering, Listed
<1>2. ASSUME UNCHANGED <<zips, cards, known, begun, status>>, run'.at \notin Away <=> run.at \notin Away PROVE Numbering'
  BY <1>2 DEF Numbering, Listed
<1>3. CASE Vacuum BY <1>2, <1>3, VacuumShape DEF Vacuum
<1>4. CASE CreateZip
  <2>1. run.id \in Ids /\ run.at = "zip" /\ run'.at = "walk" BY <1>4, CreateZipShape DEF Shapes
  <2>2. \A i \in Ids : zips'[i] # None => zips'[i].number <= begun
    BY <1>4, <2>1, ZipWritten DEF CreateZip, Numbering, Shapes
  <2> QED BY <1>4, <2>1, <2>2 DEF CreateZip, Numbering, Listed
<1>5. CASE AddFile BY <1>2, <1>5, AddFileShape DEF AddFile
<1>6. CASE CloseZip
  <2>1. run.id \in Ids /\ run.at = "walk" /\ run'.at = "card" BY <1>6, ToShape DEF Shapes, CloseZip
  <2>2. \A i \in Ids : zips'[i] # None => zips'[i].number <= begun
    BY <1>6, <2>1, ZipWritten DEF CloseZip, Numbering, Shapes
  <2> QED BY <1>6, <2>1, <2>2 DEF CloseZip, Numbering, Listed
<1>7. CASE CreateCard
  <2>1. run.id \in Ids /\ run.at = "card" /\ run'.at = "fill" BY <1>7, ToShape DEF Shapes, CreateCard
  <2>2. \A i \in Listed' : i \in Listed /\ cards'[i] = cards[i] BY <1>7, <2>1 DEF CreateCard, Listed, Shapes
  <2> QED BY <1>7, <2>1, <2>2 DEF CreateCard, Numbering
<1>8. CASE FillCard
  <2>1. run.id \in Ids /\ run.at = "fill" /\ begun \in Nat BY <1>8 DEF Shapes, FillCard
  <2>2. \A i \in Listed' : cards'[i] <= begun BY <1>8, <2>1 DEF FillCard, Listed, Shapes, Numbering
  <2>3. \A k \in known' : k.number <= begun BY <1>8, <2>1 DEF FillCard, Numbering
  <2>4. CASE Retention = 0
    <3>1. Settle(FALSE, FALSE) BY <1>8, <2>4 DEF FillCard
    <3>2. run'.at = "wait" /\ ~ status'.running /\ status'.last = begun BY <3>1, SettledWell, RestShape
    <3> QED BY <1>8, <2>1, <2>2, <2>3, <3>2 DEF FillCard, Numbering
  <2>5. CASE Retention # 0
    <3>1. To("list") /\ status' = status BY <1>8, <2>5 DEF FillCard
    <3> QED BY <1>8, <2>1, <2>2, <2>3, <3>1, ToShape DEF FillCard, Numbering
  <2> QED BY <2>4, <2>5
<1>9. CASE ListNames BY <1>2, <1>9, ListNamesShape DEF ListNames
<1>10. ASSUME UNCHANGED <<cards, known, begun>>, \A i \in Ids : zips'[i] # None => zips'[i] = zips[i],
             NEW error \in BOOLEAN, NEW prune \in BOOLEAN, Settle(error, prune) PROVE Numbering'
  BY <1>10, SettleShape, RestShape DEF Numbering, Listed, Shapes
<1>11. CASE ReadCards
  <2>1. CASE Settle(FALSE, PruneError) BY <1>11, <1>10, <2>1 DEF ReadCards, PruneError
  <2>2. CASE ~Settle(FALSE, PruneError) BY <1>2, <1>11, <2>2, ReadCardsShape DEF ReadCards
  <2> QED BY <2>1, <2>2
<1>12. CASE PruneZip
  <2>1. PICK e \in run.todo : zips' = [zips EXCEPT ![e.id] = None] /\ Removing(e.id) /\ e.id \in Ids
    BY <1>12, PruneZipShape
  <2>2. run.at \notin Away /\ run'.at \notin Away BY <1>12, PruneZipShape
  <2>3. ZipCleared(e.id) BY <1>12, <2>1 DEF PruneZip, ZipCleared
  <2> QED BY <1>12, <2>1, <2>2, <2>3, Removal DEF PruneZip, Numbering
<1>13. CASE PruneCard
  <2>1. PICK e \in run.todo :
            /\ e.id \in Ids /\ cards' = [cards EXCEPT ![e.id] = None] /\ Removing(e.id)
            /\ \/ Settle(FALSE, PruneError)
               \/ run'.at = "prune" /\ UNCHANGED <<status, ended>>
    BY <1>13, PruneCardShape
  <2>2. run.at \notin Away BY <1>13, PruneCardShape
  <2>3. CardCleared(e.id) BY <1>13, <2>1 DEF PruneCard, CardCleared
  <2>4. UNCHANGED <<known, begun>> BY <1>13 DEF PruneCard
  <2>5. \A i \in Listed' : cards'[i] <= begun BY <2>1, <2>3, Removal DEF Numbering, Listed
  <2>6. status'.last <= begun /\ (status'.running <=> run'.at \notin Away)
    <3>1. CASE Settle(FALSE, PruneError)
      <4>1. run'.at = "wait" /\ ~ status'.running /\ status'.last = begun /\ begun \in Nat
        BY <3>1, SettledWell, RestShape DEF PruneError, Shapes
      <4> QED BY <4>1
    <3>2. CASE run'.at = "prune" /\ UNCHANGED <<status, ended>> BY <2>2, <3>2 DEF Numbering
    <3> QED BY <2>1, <3>1, <3>2
  <2> QED BY <1>13, <2>4, <2>5, <2>6 DEF PruneCard, Numbering
<1>14. CASE Pruned BY <1>14, <1>10 DEF Pruned
<1>15. CASE Stopped BY <1>15, <1>2, ToShape DEF Stopped
<1>16. CASE Fail
  <2>1. run.id \in Ids BY <1>16 DEF Fail, Shapes
  <2>2. \A i \in Ids : zips'[i] # None => zips'[i] = zips[i] BY <1>16, <2>1 DEF Fail, Cleaned, Shapes
  <2> QED BY <1>16, <1>10, <2>2 DEF Fail
<1>17. CASE Panic BY <1>17, <1>10 DEF Panic
<1>18. CASE Trigger BY <1>2, <1>18 DEF Trigger
<1>19. CASE Tick BY <1>2, <1>19 DEF Tick
<1>20. CASE Stop BY <1>2, <1>20 DEF Stop
<1>21. CASE Restart
  <2>1. run'.at = "wait" /\ ~ status'.running /\ status'.last = 0 /\ begun \in Nat BY <1>21, RestShape DEF Restart, Shapes
  <2> QED BY <1>21, <2>1 DEF Restart, Numbering, Listed
<1>22. ASSUME NEW c \in Calls, DeleteZip(c) PROVE Numbering'
  <2>1. \A i \in Ids : zips'[i] # None => zips'[i] = zips[i] BY <1>22 DEF DeleteZip, Shapes
  <2> QED BY <1>22, <2>1 DEF DeleteZip, Numbering, Listed
<1>23. ASSUME NEW c \in Calls, DeleteCard(c) PROVE Numbering'
  <2>1. \A i \in Listed' : i \in Listed /\ cards'[i] = cards[i] BY <1>23 DEF DeleteCard, Shapes, Listed
  <2> QED BY <1>23, <2>1 DEF DeleteCard, Numbering
<1>24. ASSUME NEW c \in Calls, Open(c) PROVE Numbering' BY <1>24, <1>2 DEF Open
<1>25. ASSUME NEW c \in Calls, NEW kind \in {"delete", "open"}, NEW k \in known, Request(c, kind, k) PROVE Numbering'
  BY <1>25, <1>2 DEF Request
<1>26. ASSUME NEW place \in Places, Edit(place) PROVE Numbering' BY <1>26, <1>2, ChangedShape DEF Edit
<1>27. ASSUME NEW from \in Places \ {0}, NEW to \in Places \ {0}, Move(from, to) PROVE Numbering'
  BY <1>27, <1>2, ChangedShape DEF Move
<1>28. CASE UNCHANGED vars BY <1>28, <1>2 DEF vars
<1> QED
  BY <1>1, <1>3, <1>4, <1>5, <1>6, <1>7, <1>8, <1>9, <1>11, <1>12, <1>13, <1>14, <1>15, <1>16, <1>17, <1>18, <1>19,
     <1>20, <1>21, <1>22, <1>23, <1>24, <1>25, <1>26, <1>27, <1>28 DEF Next, Work

LEMMA CountingInit == Init => Counting
  BY Constants DEF Init, Counting, Pending

LEMMA CountingNext == Shapes /\ Counting /\ [Next]_vars => Counting'
<1> SUFFICES ASSUME Shapes, Counting, [Next]_vars PROVE Counting' OBVIOUS
<1> USE DEF world, scheduler
<1>1. events \in Nat /\ begun \in Nat /\ MaxEvents \in Nat BY Constants DEF Shapes
<1>2. Pending \in 0 .. 2 BY DEF Pending
<1>3. CASE TakeManual BY <1>1, <1>3 DEF TakeManual, Begins, Counting, Pending
<1>4. CASE TakeTick BY <1>1, <1>4 DEF TakeTick, Begins, Counting, Pending
<1>5. ASSUME Event \/ UNCHANGED events, UNCHANGED <<begun, manual, tick>> PROVE Counting'
  BY <1>1, <1>2, <1>5 DEF Event, Counting, Pending
<1>6. CASE Work
  <2>1. UNCHANGED events /\ UNCHANGED <<begun, manual, tick>>
    BY <1>6 DEF Work, Vacuum, CreateZip, AddFile, CloseZip, CreateCard, FillCard, ListNames, ReadCards, PruneZip,
                PruneCard, Pruned, Stopped
  <2> QED BY <1>5, <2>1
<1>7. CASE Fail BY <1>5, <1>7 DEF Fail
<1>8. CASE Panic BY <1>5, <1>8 DEF Panic
<1>9. CASE Trigger
  <2>1. events < MaxEvents /\ events' = events + 1 /\ begun' = begun /\ tick' = tick BY <1>9 DEF Trigger, Event
  <2>2. Pending' <= Pending + 1 /\ Pending' \in Nat BY <1>9, <2>1 DEF Trigger, Pending
  <2>3. events <= MaxEvents /\ begun + Pending <= events + 1 BY DEF Counting
  <2>4. events' <= MaxEvents BY <1>1, <2>1
  <2>5. PICK p \in Nat : p = Pending BY <1>2
  <2>6. PICK q \in Nat : q = Pending' BY <2>2
  <2>7. q <= p + 1 /\ begun + p <= events + 1 BY <2>2, <2>3, <2>5, <2>6
  <2>8. begun' + q <= events' + 1 BY <1>1, <2>1, <2>7
  <2> QED BY <2>4, <2>6, <2>8 DEF Counting
<1>10. CASE Tick
  <2>1. events < MaxEvents /\ events' = events + 1 /\ begun' = begun /\ manual' = manual BY <1>10 DEF Tick, Event
  <2>2. Pending' <= Pending + 1 /\ Pending' \in Nat BY <1>10, <2>1 DEF Tick, Pending
  <2>3. events <= MaxEvents /\ begun + Pending <= events + 1 BY DEF Counting
  <2>4. events' <= MaxEvents BY <1>1, <2>1
  <2>5. PICK p \in Nat : p = Pending BY <1>2
  <2>6. PICK q \in Nat : q = Pending' BY <2>2
  <2>7. q <= p + 1 /\ begun + p <= events + 1 BY <2>2, <2>3, <2>5, <2>6
  <2>8. begun' + q <= events' + 1 BY <1>1, <2>1, <2>7
  <2> QED BY <2>4, <2>6, <2>8 DEF Counting
<1>11. CASE Stop BY <1>5, <1>11 DEF Stop
<1>12. CASE Restart
  <2>1. events < MaxEvents /\ events' = events + 1 /\ begun' = begun BY <1>12 DEF Restart, Event
  <2>2. manual' = TRUE /\ tick' = FALSE BY <1>12 DEF Restart
  <2>3. Pending' = 1 BY <2>2 DEF Pending
  <2> QED BY <1>1, <1>2, <2>1, <2>3 DEF Counting
<1>13. ASSUME NEW c \in Calls, DeleteZip(c) \/ DeleteCard(c) \/ Open(c) PROVE Counting'
  BY <1>5, <1>13 DEF DeleteZip, DeleteCard, Open
<1>14. ASSUME NEW c \in Calls, NEW kind \in {"delete", "open"}, NEW k \in known, Request(c, kind, k) PROVE Counting'
  BY <1>5, <1>14 DEF Request
<1>15. ASSUME NEW place \in Places, Edit(place) PROVE Counting' BY <1>5, <1>15 DEF Edit
<1>16. ASSUME NEW from \in Places \ {0}, NEW to \in Places \ {0}, Move(from, to) PROVE Counting'
  BY <1>5, <1>16 DEF Move
<1>17. CASE UNCHANGED vars BY <1>5, <1>17 DEF vars
<1> QED
  BY <1>3, <1>4, <1>6, <1>7, <1>8, <1>9, <1>10, <1>11, <1>12, <1>13, <1>14, <1>15, <1>16, <1>17 DEF Next

LEMMA AskingInit == Init => Asking
  BY IdleShape DEF Init, Asking

LEMMA AskingNext == Shapes /\ Asking /\ [Next]_vars => Asking'
<1> SUFFICES ASSUME Shapes, Asking, [Next]_vars PROVE Asking' OBVIOUS
<1> USE DEF world, scheduler
<1>1. ASSUME UNCHANGED req, known \subseteq known' PROVE Asking' BY <1>1 DEF Asking
<1>2. CASE TakeManual \/ TakeTick BY <1>1, <1>2 DEF TakeManual, TakeTick, Begins
<1>3. CASE Work
  <2>1. UNCHANGED req /\ known \subseteq known'
    BY <1>3 DEF Work, Vacuum, CreateZip, AddFile, CloseZip, CreateCard, FillCard, ListNames, ReadCards, PruneZip,
                PruneCard, Pruned, Stopped
  <2> QED BY <1>1, <2>1
<1>4. CASE Fail \/ Panic \/ Trigger \/ Tick \/ Stop BY <1>1, <1>4 DEF Fail, Panic, Trigger, Tick, Stop
<1>5. CASE Restart BY <1>5, IdleShape DEF Restart, Asking
<1>6. ASSUME NEW c \in Calls, DeleteZip(c) PROVE Asking'
  <2> SUFFICES ASSUME NEW d \in Calls
               PROVE  /\ req'[d].at = "idle" <=> req'[d].kind = "none"
                      /\ req'[d].at = "card" => req'[d].kind = "delete"
                      /\ req'[d].at # "idle" => [id |-> req'[d].id, number |-> req'[d].number] \in known'
    BY DEF Asking
  <2>1. known' = known BY <1>6 DEF DeleteZip
  <2>2. CASE d = c BY <1>6, <2>1, <2>2, DeleteZipShape DEF Asking
  <2>3. CASE d # c BY <1>6, <2>1, <2>3, DeleteZipShape DEF Asking
  <2> QED BY <2>2, <2>3
<1>7. ASSUME NEW c \in Calls, DeleteCard(c) \/ Open(c) PROVE Asking'
  <2>1. req' = [req EXCEPT ![c] = Idle] /\ known' = known BY <1>7 DEF DeleteCard, Open
  <2> QED BY <2>1, Ended DEF Asking
<1>8. ASSUME NEW c \in Calls, NEW kind \in {"delete", "open"}, NEW k \in known, Request(c, kind, k) PROVE Asking'
  <2> SUFFICES ASSUME NEW d \in Calls
               PROVE  /\ req'[d].at = "idle" <=> req'[d].kind = "none"
                      /\ req'[d].at = "card" => req'[d].kind = "delete"
                      /\ req'[d].at # "idle" => [id |-> req'[d].id, number |-> req'[d].number] \in known'
    BY DEF Asking
  <2>1. known' = known BY <1>8 DEF Request
  <2>2. k = [id |-> k.id, number |-> k.number] BY DEF Shapes
  <2>3. CASE d = c BY <1>8, <2>1, <2>2, <2>3, RequestShape
  <2>4. CASE d # c BY <1>8, <2>1, <2>4, RequestShape DEF Asking
  <2> QED BY <2>3, <2>4
<1>9. ASSUME NEW place \in Places, Edit(place) PROVE Asking' BY <1>1, <1>9 DEF Edit
<1>10. ASSUME NEW from \in Places \ {0}, NEW to \in Places \ {0}, Move(from, to) PROVE Asking'
  BY <1>1, <1>10 DEF Move
<1>11. CASE UNCHANGED vars BY <1>1, <1>11 DEF vars
<1> QED BY <1>2, <1>3, <1>4, <1>5, <1>6, <1>7, <1>8, <1>9, <1>10, <1>11 DEF Next

-----------------------------------------------------------------------------
(* The walk *)

LEMMA ArchiveInit == Init => Archive
  BY RestShape DEF Init, Archive, Walked

\* Only the walk goes from one step of the zip to the next.
LEMMA Settling ==
    ASSUME Shapes, \/ ReadCards /\ Settle(FALSE, PruneError)
                   \/ PruneCard /\ Settle(FALSE, PruneError)
                   \/ Pruned \/ Fail \/ Panic \/ Restart
                   \/ FillCard /\ Retention = 0
    PROVE  run' = Rest
<1>1. CASE (ReadCards \/ PruneCard) /\ Settle(FALSE, PruneError) BY <1>1 DEF Settle
<1>2. CASE Pruned \/ Fail \/ Panic \/ Restart BY <1>2 DEF Pruned, Fail, Panic, Restart, Settle
<1>3. CASE FillCard /\ Retention = 0 BY <1>3 DEF FillCard, Settle
<1> QED BY <1>1, <1>2, <1>3

LEMMA ArchiveNext == Shapes /\ Archive /\ [Next]_vars => Archive'
<1> SUFFICES ASSUME Shapes, Archive, [Next]_vars PROVE Archive' OBVIOUS
<1> USE DEF world, scheduler
<1>1. ASSUME run'.at \notin {"zip", "walk"} PROVE Archive' BY <1>1 DEF Archive, Walked
<1>2. ASSUME UNCHANGED <<wiki, run>> PROVE Archive' BY <1>2 DEF Archive, Walked
<1>3. ASSUME TakeManual \/ TakeTick PROVE Archive' BY <1>1, <1>3, BeginsShape DEF TakeManual, TakeTick
<1>4. CASE Vacuum
  <2>1. run'.at = "zip" /\ run'.text[0] = wiki[0] /\ wiki' = wiki BY <1>4, VacuumShape DEF Vacuum
  <2> QED BY <2>1 DEF Archive, Walked
<1>5. CASE CreateZip
  <2>1. /\ run'.at = "walk" /\ run'.place = 1 /\ run'.text = run.text /\ run.at = "zip" /\ run'.kept = run.kept
        /\ wiki' = wiki /\ run.kept \subseteq Places
    BY <1>5, CreateZipShape DEF CreateZip, SameRun, Shapes, Runs
  <2>2. \A p \in Places : p < 1 => p = 0 BY Constants DEF Places
  <2> QED BY <2>1, <2>2 DEF Archive, Walked
<1>6. CASE AddFile
  <2>1. /\ run'.at = "walk" /\ run'.place = run.place + 1 /\ run'.text = WithNext /\ run.at = "walk"
        /\ run.place \in 1 .. Files /\ run'.kept = run.kept /\ wiki' = wiki /\ run.kept \subseteq Places
    BY <1>6, AddFileShape DEF AddFile, SameRun, Shapes, Runs
  <2> SUFFICES ASSUME NEW p \in run.kept, p < run.place + 1 PROVE WithNext[p] = wiki[p]
    BY <2>1 DEF Archive, Walked
  <2>2. p \in 0 .. run.place BY <2>1, Constants DEF Places
  <2>3. WithNext[p] = IF p = run.place THEN wiki[p] ELSE run.text[p] BY <2>2 DEF WithNext
  <2>4. p # run.place => p < run.place BY <2>1, <2>2
  <2> QED BY <2>1, <2>3, <2>4 DEF Archive, Walked
<1>7. CASE CloseZip BY <1>1, <1>7, ToShape DEF CloseZip, Writing
<1>8. CASE CreateCard BY <1>1, <1>8, ToShape DEF CreateCard, Writing
<1>9. CASE FillCard
  <2>1. CASE Retention = 0 BY <1>1, <1>9, <2>1, Settling, RestShape
  <2>2. CASE Retention # 0 BY <1>1, <1>9, <2>2, ToShape DEF FillCard, Reviewing
  <2> QED BY <2>1, <2>2
<1>10. CASE ListNames BY <1>1, <1>10, ListNamesShape
<1>11. CASE ReadCards BY <1>1, <1>11, ReadCardsShape, Settling, RestShape
<1>12. CASE PruneZip BY <1>1, <1>12, PruneZipShape
<1>13. CASE PruneCard BY <1>1, <1>13, PruneCardShape, Settling, RestShape
<1>14. CASE Pruned \/ Fail \/ Panic \/ Restart BY <1>1, <1>14, Settling, RestShape
<1>15. CASE Stopped BY <1>1, <1>15, ToShape DEF Stopped, Away
<1>16. CASE Trigger \/ Tick \/ Stop BY <1>2, <1>16 DEF Trigger, Tick, Stop
<1>17. ASSUME NEW c \in Calls, DeleteZip(c) \/ DeleteCard(c) \/ Open(c) PROVE Archive'
  BY <1>2, <1>17 DEF DeleteZip, DeleteCard, Open
<1>18. ASSUME NEW c \in Calls, NEW kind \in {"delete", "open"}, NEW k \in known, Request(c, kind, k) PROVE Archive'
  BY <1>2, <1>18 DEF Request
<1>19. ASSUME NEW places, Changed(places), \A p \in Places \ places : wiki'[p] = wiki[p] PROVE Archive'
  <2>1. run'.at = run.at /\ run'.place = run.place /\ run'.text = run.text BY <1>19, ChangedShape DEF Reading
  <2>2. run.at \notin Away => run'.kept = run.kept \ places /\ run.kept \subseteq Places
    BY <1>19, ChangedShape DEF Shapes, Runs
  <2> QED BY <1>19, <2>1, <2>2 DEF Archive, Walked, Away
<1>20. ASSUME NEW place \in Places, Edit(place) PROVE Archive'
  <2>1. Changed({place}) /\ \A p \in Places \ {place} : wiki'[p] = wiki[p] BY <1>20 DEF Edit, Shapes
  <2> QED BY <1>19, <2>1
<1>21. ASSUME NEW from \in Places \ {0}, NEW to \in Places \ {0}, Move(from, to) PROVE Archive'
  <2>1. Changed({from, to}) /\ \A p \in Places \ {from, to} : wiki'[p] = wiki[p] BY <1>21 DEF Move, Shapes
  <2> QED BY <1>19, <2>1
<1>22. CASE UNCHANGED vars BY <1>2, <1>22 DEF vars
<1> QED
  BY <1>3, <1>4, <1>5, <1>6, <1>7, <1>8, <1>9, <1>10, <1>11, <1>12, <1>13, <1>14, <1>15, <1>16, <1>17, <1>18, <1>20,
     <1>21, <1>22 DEF Next, Work

\* What a step that closes the zip leaves in it.
ArchiveStep ==
    run.at = "walk" /\ run'.at = "card" =>
        \A p \in run.kept : p \in DOMAIN zips'[run.id].text /\ zips'[run.id].text[p] = wiki[p]

LEMMA ClosingKeeps == Shapes /\ Archive /\ [Next]_vars => ArchiveStep
<1> SUFFICES ASSUME Shapes, Archive, [Next]_vars, run.at = "walk", run'.at = "card" PROVE ArchiveStep
  BY DEF ArchiveStep
<1> USE DEF world, scheduler
<1>1. CASE CloseZip
  <2>1. run.id \in Ids /\ run.place > Files BY <1>1 DEF CloseZip, Shapes, Writing
  <2>2. zips'[run.id].text = run.text BY <1>1, <2>1, ZipWritten DEF CloseZip
  <2>3. run.text \in [0 .. run.place - 1 -> Nat \union {None}] /\ run.place \in 1 .. Files + 1 BY DEF Shapes
  <2>4. \A p \in run.kept : p \in 0 .. run.place - 1 /\ p < run.place
    BY <2>1, <2>3, Constants DEF Shapes, Runs, Places
  <2>5. \A p \in run.kept : run.text[p] = wiki[p] BY <2>4 DEF Archive, Walked
  <2> QED BY <2>2, <2>3, <2>4, <2>5 DEF ArchiveStep
<1>2. ASSUME TakeManual \/ TakeTick \/ Stopped PROVE FALSE BY <1>2 DEF TakeManual, TakeTick, Stopped
<1>3. CASE Work
  <2>1. run.at = "walk" => ~(Vacuum \/ CreateZip \/ CreateCard \/ FillCard \/ ListNames \/ ReadCards \/ PruneZip
                             \/ PruneCard \/ Pruned \/ Stopped)
    BY DEF Vacuum, CreateZip, CreateCard, FillCard, ListNames, ReadCards, PruneZip, PruneCard, Pruned, Stopped
  <2>2. ~ AddFile BY AddFileShape
  <2> QED BY <1>1, <1>3, <2>1, <2>2 DEF Work
<1>4. ASSUME Fail \/ Panic \/ Restart PROVE FALSE BY <1>4, Settling, RestShape
<1>5. ASSUME UNCHANGED run PROVE FALSE BY <1>5
<1>6. ASSUME NEW places, Changed(places) PROVE FALSE BY <1>6, ChangedShape
<1>7. ASSUME Trigger \/ Tick \/ Stop PROVE FALSE BY <1>5, <1>7 DEF Trigger, Tick, Stop
<1>8. ASSUME NEW c \in Calls, DeleteZip(c) \/ DeleteCard(c) \/ Open(c) PROVE FALSE
  BY <1>5, <1>8 DEF DeleteZip, DeleteCard, Open
<1>9. ASSUME NEW c \in Calls, NEW kind \in {"delete", "open"}, NEW k \in known, Request(c, kind, k) PROVE FALSE
  BY <1>5, <1>9 DEF Request
<1>10. ASSUME NEW place \in Places, Edit(place) PROVE FALSE BY <1>6, <1>10 DEF Edit
<1>11. ASSUME NEW from \in Places \ {0}, NEW to \in Places \ {0}, Move(from, to) PROVE FALSE BY <1>6, <1>11 DEF Move
<1>12. ASSUME UNCHANGED vars PROVE FALSE BY <1>5, <1>12 DEF vars
<1> QED BY <1>2, <1>3, <1>4, <1>7, <1>8, <1>9, <1>10, <1>11, <1>12 DEF Next

-----------------------------------------------------------------------------
(* The stock *)

LEMMA StockInit == Init => Stock
<1> SUFFICES ASSUME Init PROVE Stock OBVIOUS
<1>1. Listed = {} /\ known = {} /\ run.at = "wait" BY RestShape DEF Init, Listed
<1> QED BY <1>1 DEF Stock, Writing

\* A step that leaves the list and what is under its names.
LEMMA ListKept ==
    ASSUME Stock, Listed' = Listed, \A i \in Listed : cards'[i] = cards[i] /\ zips'[i] = zips[i],
           UNCHANGED <<gone, known, begun>>,
           run'.at \in Writing => run.at \in Writing /\ run'.id = run.id,
           run'.at \in {"card", "fill"} => begun \in gone \/ Whole(run.id, begun)'
    PROVE  Stock'
<1>1. \A i, j \in Listed' : cards'[i] = cards'[j] => i = j BY DEF Stock
<1>2. \A i \in Listed' : cards'[i] > 0 /\ (cards'[i] \notin gone' => Whole(i, cards[i])')
  BY DEF Stock, Whole
<1>3. run'.at \in Writing => begun' > 0 /\ run'.id \notin Listed' /\ \A i \in Listed' : cards'[i] < begun'
  BY DEF Stock
<1>4. run'.at \in {"card", "fill"} => begun' \in gone' \/ Whole(run.id, begun)' BY DEF Writing
<1>5. \A k \in known' : k.number \in gone' \/ (k.id \in Listed' /\ cards'[k.id] = k.number) BY DEF Stock
<1> QED BY <1>1, <1>2, <1>3, <1>4, <1>5 DEF Stock

\* A step that touches neither the disk nor the numbers.
LEMMA DiskKept ==
    ASSUME Stock, UNCHANGED <<zips, cards, gone, known, begun>>,
           run'.at \in Writing => run.at \in Writing /\ run'.id = run.id,
           run'.at \in {"card", "fill"} => run.at \in {"card", "fill"}
    PROVE  Stock'
<1>1. Listed' = Listed BY DEF Listed
<1>2. run'.at \in {"card", "fill"} => begun \in gone \/ Whole(run.id, begun)'
  BY DEF Stock, Whole, Writing
<1> QED BY <1>1, <1>2, ListKept

\* A step that takes a zip or a sidecar away.
LEMMA RemovalKeeps ==
    ASSUME Shapes, Stock, NEW i \in Ids, ZipCleared(i) \/ CardCleared(i), UNCHANGED <<known, begun>>,
           run'.at \in Writing => run.at \in Writing /\ run'.id = run.id,
           run'.at \in {"card", "fill"} => run.at \in {"card", "fill"}
    PROVE  Stock'
<1>1. /\ \A j \in Ids : zips'[j] = zips[j] \/ (j = i /\ zips'[j] = None)
      /\ \A j \in Ids : cards'[j] = cards[j] \/ (j = i /\ cards'[j] = None)
      /\ gone \subseteq gone' /\ (i \in Listed => cards[i] \in gone')
      /\ zips[i] # None => zips[i].number \in gone'
      /\ Listed' \subseteq Listed /\ Listed \ {i} \subseteq Listed'
  BY Removal
<1>2. \A j \in Listed' : j \in Listed /\ j \in Ids /\ cards'[j] = cards[j] BY <1>1 DEF Listed
<1>3. \A j, l \in Listed' : cards'[j] = cards'[l] => j = l BY <1>2 DEF Stock
<1>4. \A j \in Listed' : cards'[j] > 0 /\ (cards'[j] \notin gone' => Whole(j, cards[j])')
  <2> SUFFICES ASSUME NEW j \in Listed', cards'[j] \notin gone' PROVE Whole(j, cards[j])'
    BY <1>2 DEF Stock
  <2>1. j # i /\ zips'[j] = zips[j] /\ cards[j] \notin gone BY <1>1, <1>2
  <2> QED BY <1>2, <2>1 DEF Stock, Whole
<1>5. run'.at \in Writing => begun' > 0 /\ run'.id \notin Listed' /\ \A j \in Listed' : cards'[j] < begun'
  BY <1>1, <1>2 DEF Stock
<1>6. run'.at \in {"card", "fill"} => begun' \in gone' \/ Whole(run.id, begun)'
  <2> SUFFICES ASSUME run'.at \in {"card", "fill"} PROVE begun' \in gone' \/ Whole(run.id, begun)' OBVIOUS
  <2>1. run.at \in {"card", "fill"} /\ run'.id = run.id /\ run.id \in Ids BY DEF Writing, Shapes
  <2>2. CASE begun \in gone BY <1>1, <2>2
  <2>3. CASE Whole(run.id, begun) BY <1>1, <2>1, <2>3 DEF Whole
  <2> QED BY <2>1, <2>2, <2>3 DEF Stock
<1>7. \A k \in known' : k.number \in gone' \/ (k.id \in Listed' /\ cards'[k.id] = k.number)
  <2> SUFFICES ASSUME NEW k \in known, k.number \notin gone' PROVE k.id \in Listed' /\ cards'[k.id] = k.number
    OBVIOUS
  <2>1. k.id \in Listed /\ cards[k.id] = k.number BY <1>1 DEF Stock
  <2>2. k.id # i BY <1>1, <2>1
  <2> QED BY <1>1, <1>2, <2>1, <2>2
<1> QED BY <1>3, <1>4, <1>5, <1>6, <1>7 DEF Stock

LEMMA StockNext == Shapes /\ Numbering /\ Asking /\ Stock /\ [Next]_vars => Stock'
<1> SUFFICES ASSUME Shapes, Numbering, Asking, Stock, [Next]_vars PROVE Stock' OBVIOUS
<1> USE DEF world, scheduler
<1>1. ASSUME TakeManual \/ TakeTick PROVE Stock'
  <2>1. Begins BY <1>1 DEF TakeManual, TakeTick
  <2>2. run'.at = "vacuum" /\ run'.id \in Ids /\ Free(run'.id) /\ begun' = begun + 1 BY <2>1, BeginsShape
  <2>3. UNCHANGED <<zips, cards, known, gone>> BY <2>1 DEF Begins
  <2>4. Listed' = Listed /\ run'.id \notin Listed BY <2>2, <2>3 DEF Listed, Free
  <2>5. \A i \in Listed : cards[i] \in Nat /\ cards[i] < begun + 1 BY DEF Numbering, Shapes, Listed
  <2>6. begun + 1 > 0 BY DEF Shapes
  <2>7. run'.at \in Writing => begun' > 0 /\ run'.id \notin Listed' /\ \A i \in Listed' : cards'[i] < begun'
    BY <2>2, <2>3, <2>4, <2>5, <2>6
  <2> QED BY <2>2, <2>3, <2>4, <2>7 DEF Stock, Whole
<1>2. CASE Vacuum BY <1>2, DiskKept, VacuumShape DEF Vacuum, Writing, SameRun
<1>3. CASE CreateZip
  <2>1. run.at = "zip" /\ run.id \in Ids /\ run'.at = "walk" /\ run'.id = run.id
    BY <1>3, CreateZipShape DEF Shapes, Writing, SameRun
  <2>2. \A i \in Listed : zips'[i] = zips[i] BY <1>3, <2>1, ZipWritten DEF CreateZip, Stock, Writing, Listed
  <2>3. UNCHANGED <<cards, gone, known, begun>> /\ Listed' = Listed BY <1>3 DEF CreateZip, Listed
  <2> QED BY <2>1, <2>2, <2>3, ListKept DEF Writing
<1>4. CASE AddFile BY <1>4, DiskKept, AddFileShape DEF AddFile, Writing, SameRun
<1>5. CASE CloseZip
  <2>1. run.at = "walk" /\ run.id \in Ids /\ run'.at = "card" /\ run'.id = run.id
    BY <1>5, ToShape DEF CloseZip, Shapes, Writing, SameRun
  <2>2. \A i \in Listed : zips'[i] = zips[i] BY <1>5, <2>1, ZipWritten DEF CloseZip, Stock, Writing, Listed
  <2>3. UNCHANGED <<cards, gone, known, begun>> /\ Listed' = Listed BY <1>5 DEF CloseZip, Listed
  <2>4. Whole(run.id, begun)'
    <3> DEFINE archive == [number |-> begun, whole |-> TRUE, text |-> run.text]
    <3>1. archive \in Archives /\ archive.number = begun /\ archive.whole
      BY DEF Archives, Shapes, Runs
    <3> HIDE DEF archive
    <3>2. zips' = [zips EXCEPT ![run.id] = archive] BY <1>5 DEF CloseZip, archive
    <3>3. zips'[run.id] = archive BY <2>1, <3>2 DEF Shapes
    <3> QED BY <2>1, <2>3, <3>1, <3>3, Constants DEF Whole
  <2> QED BY <2>1, <2>2, <2>3, <2>4, ListKept DEF Writing
<1>6. CASE CreateCard
  <2>1. run.at = "card" /\ run.id \in Ids /\ run'.at = "fill" /\ run'.id = run.id
    BY <1>6, ToShape DEF CreateCard, Shapes, Writing, SameRun
  <2>2. UNCHANGED <<zips, gone, known, begun>> /\ cards' = [cards EXCEPT ![run.id] = Torn] BY <1>6 DEF CreateCard
  <2>3. run.id \notin Listed BY <2>1 DEF Stock, Writing
  <2>4. Listed' = Listed /\ \A i \in Listed : cards'[i] = cards[i] BY <2>1, <2>2, <2>3 DEF Listed, Shapes
  <2>5. begun \in gone \/ Whole(run.id, begun)' BY <2>1, <2>2 DEF Stock, Whole
  <2> QED BY <2>1, <2>2, <2>4, <2>5, ListKept DEF Writing
<1>7. CASE FillCard
  <2>1. run.at = "fill" /\ run.id \in Ids /\ begun \in Nat /\ begun > 0 BY <1>7 DEF FillCard, Shapes, Writing, Stock
  <2>2. run'.at \in {"wait", "list"}
    <3>1. CASE Retention = 0 BY <1>7, <3>1, Settling, RestShape
    <3>2. CASE Retention # 0 BY <1>7, <3>2, ToShape DEF FillCard, Reviewing
    <3> QED BY <3>1, <3>2
  <2>3. /\ UNCHANGED <<zips, gone, begun>> /\ cards' = [cards EXCEPT ![run.id] = begun]
        /\ known' = known \union {[id |-> run.id, number |-> begun]}
    BY <1>7 DEF FillCard
  <2>4. cards'[run.id] = begun /\ \A i \in Ids \ {run.id} : cards'[i] = cards[i] BY <2>1, <2>3 DEF Shapes
  <2>5. Listed' = Listed \union {run.id} BY <2>1, <2>4, Constants DEF Listed
  <2>6. run.id \notin Listed /\ \A i \in Listed : cards[i] < begun /\ cards[i] \in Nat /\ i \in Ids
    BY <2>1 DEF Stock, Writing, Listed, Shapes
  <2>7. \A i, j \in Listed' : cards'[i] = cards'[j] => i = j BY <2>1, <2>4, <2>5, <2>6 DEF Stock
  <2>8. \A i \in Listed' : cards'[i] > 0 /\ (cards'[i] \notin gone' => Whole(i, cards[i])')
    BY <2>1, <2>3, <2>4, <2>5, <2>6 DEF Stock, Whole
  <2>9. \A k \in known' : k.number \in gone' \/ (k.id \in Listed' /\ cards'[k.id] = k.number)
    <3> SUFFICES ASSUME NEW k \in known', k.number \notin gone PROVE k.id \in Listed' /\ cards'[k.id] = k.number
      BY <2>3
    <3>1. CASE k \in known BY <2>4, <2>5, <2>6, <3>1 DEF Stock
    <3>2. CASE k = [id |-> run.id, number |-> begun] BY <2>4, <2>5, <3>2
    <3> QED BY <2>3, <3>1, <3>2
  <2> QED BY <2>2, <2>7, <2>8, <2>9 DEF Stock, Writing
<1>8. CASE ListNames BY <1>8, DiskKept, ListNamesShape DEF ListNames, Writing
<1>9. CASE ReadCards
  <2>1. run'.at \in {"wait", "prune"} BY <1>9, ReadCardsShape, Settling, RestShape
  <2> QED BY <1>9, <2>1, DiskKept DEF ReadCards, Writing
<1>10. CASE PruneZip
  <2>1. PICK e \in run.todo : zips' = [zips EXCEPT ![e.id] = None] /\ Removing(e.id) /\ e.id \in Ids
    BY <1>10, PruneZipShape
  <2>2. ZipCleared(e.id) BY <1>10, <2>1 DEF PruneZip, ZipCleared
  <2> QED BY <1>10, <2>1, <2>2, RemovalKeeps, PruneZipShape DEF PruneZip, Writing
<1>11. CASE PruneCard
  <2>1. PICK e \in run.todo :
            e.id \in Ids /\ cards' = [cards EXCEPT ![e.id] = None] /\ Removing(e.id) /\ run'.at \in {"wait", "prune"}
    BY <1>11, PruneCardShape, Settling, RestShape
  <2>2. CardCleared(e.id) BY <1>11, <2>1 DEF PruneCard, CardCleared
  <2> QED BY <1>11, <2>1, <2>2, RemovalKeeps DEF PruneCard, Writing
<1>12. CASE Pruned BY <1>12, DiskKept, Settling, RestShape DEF Pruned, Writing
<1>13. CASE Stopped BY <1>13, DiskKept, ToShape DEF Stopped, Writing, Away
<1>14. CASE Fail
  <2>1. run.at \in Writing /\ run.id \in Ids /\ run'.at = "wait" BY <1>14, Settling, RestShape DEF Fail, Shapes, Writing
  <2>2. run.id \notin Listed BY <2>1 DEF Stock
  <2>3. UNCHANGED <<cards, gone, known, begun>> BY <1>14 DEF Fail
  <2>4. \A i \in Listed : zips'[i] = zips[i] BY <1>14, <2>2 DEF Fail, Cleaned, Shapes, Listed
  <2>5. Listed' = Listed BY <2>3 DEF Listed
  <2> QED BY <2>1, <2>3, <2>4, <2>5, ListKept DEF Writing
<1>15. CASE Panic BY <1>15, DiskKept, Settling, RestShape DEF Panic, Writing
<1>16. CASE Trigger BY <1>16, DiskKept DEF Trigger
<1>17. CASE Tick BY <1>17, DiskKept DEF Tick
<1>18. CASE Stop BY <1>18, DiskKept DEF Stop
<1>19. CASE Restart BY <1>19, DiskKept, Settling, RestShape DEF Restart, Writing
<1>20. ASSUME NEW c \in Calls, DeleteZip(c) PROVE Stock'
  <2>1. req[c].id \in Ids
    <3>1. [id |-> req[c].id, number |-> req[c].number] \in [id : Ids, number : Nat]
      BY <1>20 DEF Asking, DeleteZip, Shapes
    <3> QED BY <3>1
  <2>2. ZipCleared(req[c].id) BY <1>20 DEF DeleteZip, ZipCleared
  <2> QED BY <1>20, <2>1, <2>2, RemovalKeeps DEF DeleteZip
<1>21. ASSUME NEW c \in Calls, DeleteCard(c) PROVE Stock'
  <2>1. req[c].id \in Ids
    <3>1. [id |-> req[c].id, number |-> req[c].number] \in [id : Ids, number : Nat]
      BY <1>21 DEF Asking, DeleteCard, Shapes
    <3> QED BY <3>1
  <2>2. CardCleared(req[c].id) BY <1>21 DEF DeleteCard, CardCleared
  <2> QED BY <1>21, <2>1, <2>2, RemovalKeeps DEF DeleteCard
<1>22. ASSUME NEW c \in Calls, Open(c) PROVE Stock' BY <1>22, DiskKept DEF Open
<1>23. ASSUME NEW c \in Calls, NEW kind \in {"delete", "open"}, NEW k \in known, Request(c, kind, k) PROVE Stock'
  BY <1>23, DiskKept DEF Request
<1>24. ASSUME NEW place \in Places, Edit(place) PROVE Stock' BY <1>24, DiskKept, ChangedShape DEF Edit
<1>25. ASSUME NEW from \in Places \ {0}, NEW to \in Places \ {0}, Move(from, to) PROVE Stock'
  BY <1>25, DiskKept, ChangedShape DEF Move
<1>26. CASE UNCHANGED vars BY <1>26, DiskKept DEF vars
<1> QED
  BY <1>1, <1>2, <1>3, <1>4, <1>5, <1>6, <1>7, <1>8, <1>9, <1>10, <1>11, <1>12, <1>13, <1>14, <1>15, <1>16, <1>17,
     <1>18, <1>19, <1>20, <1>21, <1>22, <1>23, <1>24, <1>25, <1>26 DEF Next, Work

-----------------------------------------------------------------------------
(* Counting the list *)

LEMMA IdsFinite == IsFiniteSet(Ids) /\ \A ids \in SUBSET Ids : IsFiniteSet(ids)
<1>1. IsFiniteSet(0 .. MaxSeconds) /\ IsFiniteSet(1 .. MaxRuns) BY Constants, FS_Interval DEF MaxRuns
<1>2. IsFiniteSet(Ids) BY <1>1, FS_Product DEF Ids
<1> QED BY <1>2, FS_Subset

LEMMA NewerFinite ==
    ASSUME NEW ids \in SUBSET Ids
    PROVE  \A i \in ids : IsFiniteSet(Newer(ids, i)) /\ Cardinality(Newer(ids, i)) \in Nat
<1> SUFFICES ASSUME NEW i \in ids PROVE IsFiniteSet(Newer(ids, i)) /\ Cardinality(Newer(ids, i)) \in Nat
  OBVIOUS
<1>1. IsFiniteSet(ids) BY IdsFinite
<1> DEFINE numbers == [j \in ids |-> cards[j]]
<1>2. numbers \in Surjection(ids, Numbered(ids)) BY DEF Surjection, Numbered
<1> HIDE DEF numbers
<1>3. IsFiniteSet(Numbered(ids)) BY <1>1, <1>2, FS_Surjection
<1>4. IsFiniteSet(Newer(ids, i)) BY <1>3, FS_Subset DEF Newer
<1> QED BY <1>4, FS_CardinalityType

\* Of snapshots with different numbers, at most as many as limit have fewer
\* newer ones beside them than limit.
LEMMA FewNewest ==
    ASSUME NEW ids \in SUBSET Ids, NEW limit \in Nat, \A i \in ids : cards[i] \in Nat,
           \A i, j \in ids : cards[i] = cards[j] => i = j
    PROVE  Cardinality({i \in ids : Cardinality(Newer(ids, i)) < limit}) <= limit
<1> DEFINE few == {i \in ids : Cardinality(Newer(ids, i)) < limit}
           beside == [i \in few |-> Cardinality(Newer(ids, i))]
<1>1. \A i \in ids : IsFiniteSet(Newer(ids, i)) BY NewerFinite
<1>2. \A i \in ids : Cardinality(Newer(ids, i)) \in Nat BY NewerFinite
<1>3. \A i, j \in ids : i # j => Cardinality(Newer(ids, i)) # Cardinality(Newer(ids, j))
  <2>1. ASSUME NEW i \in ids, NEW j \in ids, cards[i] < cards[j]
        PROVE  Cardinality(Newer(ids, i)) # Cardinality(Newer(ids, j))
    <3>1. Newer(ids, j) \in SUBSET Newer(ids, i) BY <2>1 DEF Newer, Numbered
    <3>2. cards[j] \in Newer(ids, i) /\ cards[j] \notin Newer(ids, j) BY <2>1 DEF Newer, Numbered
    <3>3. Newer(ids, j) # Newer(ids, i) BY <3>2
    <3> QED BY <1>1, <3>1, <3>3, FS_Subset
  <2>2. \A i, j \in ids : i # j => cards[i] < cards[j] \/ cards[j] < cards[i] OBVIOUS
  <2> QED BY <2>1, <2>2
<1>4. beside \in [few -> 0 .. limit - 1] BY <1>2
<1>5. beside \in Injection(few, 0 .. limit - 1) BY <1>3, <1>4 DEF Injection, IsInjective
<1>6. IsFiniteSet(0 .. limit - 1) /\ Cardinality(0 .. limit - 1) = limit
  <2>1. IsFiniteSet(0 .. limit - 1) /\ Cardinality(0 .. limit - 1) = IF 0 > limit - 1 THEN 0 ELSE limit - 1 - 0 + 1
    BY FS_Interval
  <2> QED BY <2>1
<1> HIDE DEF beside, few
<1>7. Cardinality(few) <= limit BY <1>5, <1>6, FS_Injection
<1> QED BY <1>7 DEF few

\* A smaller list stays within what a larger one was.
LEMMA FewerStay ==
    ASSUME NEW ids \in SUBSET Ids, NEW fewer \in SUBSET ids, NEW limit \in Nat, Cardinality(ids) <= limit
    PROVE  Cardinality(fewer) <= limit
<1>1. IsFiniteSet(ids) /\ IsFiniteSet(fewer) BY IdsFinite
<1>2. Cardinality(fewer) <= Cardinality(ids) BY <1>1, FS_Subset
<1>3. Cardinality(fewer) \in Nat /\ Cardinality(ids) \in Nat BY <1>1, FS_CardinalityType
<1> QED BY <1>2, <1>3

-----------------------------------------------------------------------------
(* What is kept *)

\* A step that is not the filling of a sidecar adds nothing to the list, and
\* what leaves it is gone.
ListGoesDown ==
    /\ Listed' \subseteq Listed /\ \A i \in Listed' : cards'[i] = cards[i]
    /\ Shelved \union gone \subseteq (Shelved \union gone)'

LEMMA RemovalGoesDown ==
    ASSUME Shapes, NEW i \in Ids, ZipCleared(i) \/ CardCleared(i)
    PROVE  ListGoesDown
<1>1. /\ \A j \in Ids : cards'[j] = cards[j] \/ (j = i /\ cards'[j] = None)
      /\ gone \subseteq gone' /\ (i \in Listed => cards[i] \in gone')
      /\ Listed' \subseteq Listed /\ Listed \ {i} \subseteq Listed'
  BY Removal
<1>2. \A j \in Listed' : cards'[j] = cards[j] BY <1>1 DEF Listed
<1>3. \A j \in Listed : cards[j] \in (Shelved \union gone)' BY <1>1, <1>2 DEF Shelved
<1> QED BY <1>1, <1>2, <1>3 DEF ListGoesDown, Shelved

LEMMA StillGoesDown ==
    ASSUME UNCHANGED <<cards, gone>> PROVE ListGoesDown
  BY DEF ListGoesDown, Shelved, Listed

LEMMA KeepingInit == Init => Keeping
<1> SUFFICES ASSUME Init PROVE Keeping OBVIOUS
<1>1. run.at = "wait" /\ run.todo = {} /\ status.last = 0 BY RestShape DEF Init
<1> QED BY <1>1 DEF Keeping, Pruning, Reviewing, Away

LEMMA KeepingStays ==
    ASSUME Shapes, Keeping, ListGoesDown, UNCHANGED <<status, begun>>, Idling,
           \/ run'.at = run.at
           \/ {run.at, run'.at} \subseteq Writing \/ {run.at, run'.at} \subseteq Away
           \/ {run.at, run'.at} \subseteq Pruning
    PROVE  Keeping'
<1> USE DEF Idling, ListGoesDown, Writing, Away, Pruning, Reviewing
<1>1. run'.at \notin Pruning => run'.todo = {} BY DEF Keeping
<1>2. run'.at = "read" => Listed' \subseteq run'.names BY DEF Keeping
<1>3. run'.at \in Pruning => Cardinality((Listed \ Marked)') <= Retention
  <2>1. (Listed \ Marked)' \in SUBSET (Listed \ Marked) /\ Listed \ Marked \in SUBSET Ids BY DEF Marked, Listed
  <2> HIDE DEF ListGoesDown, Idling
  <2>2. run'.at \in Pruning => Cardinality(Listed \ Marked) <= Retention BY DEF Keeping
  <2> QED BY <2>1, <2>2, FewerStay, Constants
<1>4. run'.at \in Reviewing => Retention > 0 /\ begun' > 0 /\ begun' \in (Shelved \union gone)' BY DEF Keeping
<1>5. status'.last > 0 => status'.last \in (Shelved \union gone)' BY DEF Keeping
<1>6. run'.at \in Away /\ status'.last > 0 /\ ~ status'.error /\ ~ status'.prune =>
            Retention = 0 \/ Cardinality(Listed') <= Retention
  <2> SUFFICES ASSUME run'.at \in Away /\ status'.last > 0 /\ ~ status'.error /\ ~ status'.prune, Retention # 0
               PROVE Cardinality(Listed') <= Retention
    OBVIOUS
  <2>1. Cardinality(Listed) <= Retention BY DEF Keeping
  <2>2. Listed' \in SUBSET Listed /\ Listed \in SUBSET Ids BY DEF Listed
  <2> QED BY <2>1, <2>2, FewerStay, Constants
<1> QED BY <1>1, <1>2, <1>3, <1>4, <1>5, <1>6 DEF Keeping

\* A run that ends badly leaves the last good one in the status.
LEMMA KeepingFailed ==
    ASSUME Shapes, Keeping, ListGoesDown, run' = Rest,
           \/ status'.error /\ status'.last = status.last
           \/ status'.last = 0
    PROVE  Keeping'
<1>1. run'.at = "wait" /\ run'.todo = {} BY RestShape
<1>2. status'.last > 0 => status'.last \in (Shelved \union gone)' BY DEF Keeping, ListGoesDown
<1>3. ~ (status'.last > 0 /\ ~ status'.error) OBVIOUS
<1> QED BY <1>1, <1>2, <1>3 DEF Keeping, Writing, Away, Pruning, Reviewing

\* A run that ends well has its snapshot in the list, and says so when there
\* may be too many.
LEMMA KeepingDone ==
    ASSUME Shapes, NEW prune \in BOOLEAN, Settle(FALSE, prune), begun' = begun,
           begun \in (Shelved \union gone)', prune \/ Retention = 0 \/ Cardinality(Listed') <= Retention
    PROVE  Keeping'
<1>1. run'.at = "wait" /\ run'.todo = {} BY RestShape, SettledWell
<1>2. status'.last = begun /\ (status'.prune <=> prune) BY SettledWell
<1> QED BY <1>1, <1>2 DEF Keeping, Writing, Away, Pruning, Reviewing

LEMMA KeepingNext == Shapes /\ Asking /\ Stock /\ Keeping /\ [Next]_vars => Keeping'
<1> SUFFICES ASSUME Shapes, Asking, Stock, Keeping, [Next]_vars PROVE Keeping' OBVIOUS
<1> USE DEF world, scheduler
<1>1. ASSUME TakeManual \/ TakeTick PROVE Keeping'
  <2>1. Begins BY <1>1 DEF TakeManual, TakeTick
  <2>2. run'.at = "vacuum" /\ run'.todo = {} /\ status'.last = status.last BY <2>1, BeginsShape
  <2>3. ListGoesDown BY <2>1, StillGoesDown DEF Begins
  <2> QED BY <2>2, <2>3 DEF Keeping, ListGoesDown, Away, Pruning, Reviewing
<1>2. CASE Vacuum
  BY <1>2, StillGoesDown, VacuumShape, KeepingStays DEF Vacuum, Writing
<1>3. CASE CreateZip
  BY <1>3, StillGoesDown, CreateZipShape, KeepingStays DEF CreateZip, Writing
<1>4. CASE AddFile
  BY <1>4, StillGoesDown, AddFileShape, KeepingStays DEF AddFile, Writing
<1>5. CASE CloseZip
  BY <1>5, StillGoesDown, ToShape, KeepingStays DEF CloseZip, Writing
<1>6. CASE CreateCard
  <2>1. run.at = "card" /\ run.id \in Ids BY <1>6 DEF CreateCard, Shapes, Writing
  <2>2. run.id \notin Listed BY <2>1 DEF Stock, Writing
  <2>3. Listed' = Listed /\ (\A i \in Listed : cards'[i] = cards[i]) /\ gone' = gone
    BY <1>6, <2>1, <2>2 DEF CreateCard, Listed, Shapes
  <2>4. ListGoesDown BY <2>3 DEF ListGoesDown, Shelved
  <2> QED BY <1>6, <2>4, ToShape, KeepingStays DEF CreateCard, Writing
<1>7. CASE FillCard
  <2>1. run.at = "fill" /\ run.id \in Ids /\ begun \in Nat /\ begun > 0 BY <1>7 DEF FillCard, Shapes, Writing, Stock
  <2>2. cards'[run.id] = begun /\ begun' = begun /\ gone' = gone /\ \A i \in Ids \ {run.id} : cards'[i] = cards[i]
    BY <1>7, <2>1 DEF FillCard, Shapes
  <2>3. run.id \in Listed' BY <2>1, <2>2, Constants DEF Listed
  <2>4. begun \in (Shelved \union gone)' BY <2>2, <2>3 DEF Shelved
  <2>5. CASE Retention = 0
    <3>1. Settle(FALSE, FALSE) BY <1>7, <2>5 DEF FillCard
    <3> QED BY <2>2, <2>4, <2>5, <3>1, KeepingDone
  <2>6. CASE Retention # 0
    <3>1. run'.at = "list" /\ run'.todo = {} /\ status' = status
      BY <1>7, <2>1, <2>6, ToShape DEF FillCard, Reviewing, Idling, Keeping, Pruning
    <3>2. status.last > 0 => status.last \in (Shelved \union gone)'
      <4>1. run.id \notin Listed BY <2>1 DEF Stock, Writing
      <4>2. \A i \in Listed : i \in Listed' /\ cards'[i] = cards[i] BY <2>2, <4>1 DEF Listed
      <4>3. Shelved \union gone \subseteq (Shelved \union gone)' BY <2>2, <4>2 DEF Shelved
      <4> QED BY <4>3 DEF Keeping
    <3> QED BY <2>1, <2>2, <2>4, <2>6, <3>1, <3>2, Constants DEF Keeping, Away, Pruning, Reviewing
  <2> QED BY <2>5, <2>6
<1>8. CASE ListNames
  <2>1. run.at = "list" /\ run'.at = "read" /\ run'.todo = run.todo /\ run'.names = Names BY <1>8, ListNamesShape
  <2>2. UNCHANGED <<cards, gone, begun, status>> BY <1>8 DEF ListNames
  <2>3. Listed' \subseteq Names BY <2>2, Constants DEF Listed, Names
  <2> QED BY <2>1, <2>2, <2>3, StillGoesDown DEF Keeping, ListGoesDown, Away, Pruning, Reviewing
<1>9. CASE ReadCards
  <2>1. UNCHANGED <<cards, gone, begun>> /\ run.at = "read" BY <1>9 DEF ReadCards
  <2>2. begun \in (Shelved \union gone)' BY <2>1, StillGoesDown DEF ListGoesDown, Keeping, Reviewing
  <2>3. CASE Settle(FALSE, PruneError)
    <3>1. Settle(FALSE, TRUE) BY <2>3 DEF PruneError
    <3> QED BY <2>1, <2>2, <3>1, KeepingDone
  <2>4. CASE ~ Settle(FALSE, PruneError)
    <3>1. run.names \subseteq Listed /\ run'.at = "prune" /\ run'.todo = Surplus(run.names) /\ status' = status
      BY <1>9, <2>4, ReadCardsShape
    <3>2. run.names = Listed BY <2>1, <3>1 DEF Keeping
    <3>3. Cardinality({i \in Listed : Cardinality(Newer(Listed, i)) < Retention}) <= Retention
      <4>1. Listed \in SUBSET Ids /\ \A i \in Listed : cards[i] \in Nat BY DEF Listed, Shapes
      <4>2. \A i, j \in Listed : cards[i] = cards[j] => i = j BY DEF Stock
      <4> QED BY <4>1, <4>2, FewNewest, Constants
    <3>4. \A i \in Listed : Cardinality(Newer(Listed, i)) >= Retention => i \in Marked'
      <4> SUFFICES ASSUME NEW i \in Listed, Cardinality(Newer(Listed, i)) >= Retention PROVE i \in Marked'
        OBVIOUS
      <4>1. [id |-> i, number |-> cards[i]] \in run'.todo BY <3>1, <3>2 DEF Surplus, Entries
      <4> QED BY <4>1 DEF Marked
    <3>5. (Listed \ Marked)' \in SUBSET {i \in Listed : Cardinality(Newer(Listed, i)) < Retention}
      <4>1. Listed' = Listed BY <2>1 DEF Listed
      <4>2. \A i \in Listed : Cardinality(Newer(Listed, i)) \in Nat
        <5>1. Listed \in SUBSET Ids BY DEF Listed
        <5> QED BY <5>1, NewerFinite
      <4> QED BY <3>4, <4>1, <4>2, Constants
    <3>6. Cardinality((Listed \ Marked)') <= Retention
      <4>1. {i \in Listed : Cardinality(Newer(Listed, i)) < Retention} \in SUBSET Ids BY DEF Listed
      <4> QED BY <3>3, <3>5, <4>1, FewerStay, Constants
    <3>7. status.last > 0 => status.last \in (Shelved \union gone)'
      BY <2>1, StillGoesDown DEF ListGoesDown, Keeping
    <3> QED BY <2>1, <2>2, <3>1, <3>6, <3>7 DEF Keeping, Away, Pruning, Reviewing
  <2> QED BY <2>3, <2>4
<1>10. CASE PruneZip
  <2>1. PICK e \in run.todo : zips' = [zips EXCEPT ![e.id] = None] /\ Removing(e.id) /\ e.id \in Ids
    BY <1>10, PruneZipShape
  <2>2. ZipCleared(e.id) BY <1>10, <2>1 DEF PruneZip, ZipCleared
  <2>3. ListGoesDown BY <2>1, <2>2, RemovalGoesDown
  <2> QED BY <1>10, <2>3, PruneZipShape, KeepingStays DEF PruneZip, Pruning
<1>11. CASE PruneCard
  <2>1. PICK e \in run.todo :
            /\ e.id \in Ids /\ cards' = [cards EXCEPT ![e.id] = None] /\ Removing(e.id)
            /\ \/ Settle(FALSE, PruneError)
               \/ run'.at = "prune" /\ run'.todo = run.todo \ {e} /\ UNCHANGED <<status, ended>>
    BY <1>11, PruneCardShape
  <2>2. run.at \in {"cardOnly", "cardToo"} /\ begun' = begun BY <1>11 DEF PruneCard
  <2>3. CardCleared(e.id) BY <1>11, <2>1 DEF PruneCard, CardCleared
  <2>4. ListGoesDown /\ e.id \notin Listed' BY <2>1, <2>3, RemovalGoesDown DEF Listed, Shapes
  <2>5. begun \in (Shelved \union gone)' BY <2>2, <2>4 DEF ListGoesDown, Keeping, Reviewing, Pruning
  <2>6. CASE Settle(FALSE, PruneError)
    <3>1. Settle(FALSE, TRUE) BY <2>6 DEF PruneError
    <3> QED BY <2>2, <2>5, <3>1, KeepingDone
  <2>7. CASE run'.at = "prune" /\ run'.todo = run.todo \ {e} /\ UNCHANGED <<status, ended>>
    <3>1. (Listed \ Marked)' \in SUBSET (Listed \ Marked) /\ Listed \ Marked \in SUBSET Ids
      <4> SUFFICES ASSUME NEW i \in (Listed \ Marked)' PROVE i \in Listed \ Marked BY DEF Listed
      <4>1. i \in Listed /\ i # e.id BY <2>4 DEF ListGoesDown
      <4>2. \A f \in run.todo : f = e \/ f \in run'.todo BY <2>7
      <4>3. \A f \in run.todo : f.id # i BY <4>1, <4>2 DEF Marked
      <4> QED BY <4>1, <4>3 DEF Marked
    <3>2. Cardinality(Listed \ Marked) <= Retention BY <2>2 DEF Keeping, Pruning
    <3>3. Cardinality((Listed \ Marked)') <= Retention BY <3>1, <3>2, FewerStay, Constants
    <3>4. status.last > 0 => status.last \in (Shelved \union gone)' BY <2>4 DEF ListGoesDown, Keeping
    <3> QED BY <2>2, <2>5, <2>7, <3>3, <3>4 DEF Keeping, Away, Pruning, Reviewing
  <2> QED BY <2>1, <2>6, <2>7
<1>12. CASE Pruned
  <2>1. UNCHANGED <<cards, gone, begun>> /\ run.at = "prune" /\ run.todo = {} /\ Settle(FALSE, FALSE) BY <1>12 DEF Pruned
  <2>2. begun \in (Shelved \union gone)' BY <2>1, StillGoesDown DEF ListGoesDown, Keeping, Reviewing, Pruning
  <2>3. Listed' = Listed \ Marked BY <2>1 DEF Listed, Marked
  <2>4. Cardinality(Listed') <= Retention BY <2>1, <2>3 DEF Keeping, Pruning
  <2> QED BY <2>1, <2>2, <2>4, KeepingDone
<1>13. CASE Stopped BY <1>13, StillGoesDown, ToShape, KeepingStays DEF Stopped, Away
<1>14. CASE Fail \/ Panic
  <2>1. Settle(TRUE, FALSE) /\ UNCHANGED <<cards, gone>> BY <1>14 DEF Fail, Panic
  <2> QED BY <2>1, StillGoesDown, SettledBadly, KeepingFailed
<1>15. CASE Restart
  <2>1. run' = Rest /\ status'.last = 0 /\ UNCHANGED <<cards, gone>> BY <1>15 DEF Restart
  <2> QED BY <2>1, StillGoesDown, KeepingFailed
<1>16. CASE Trigger \/ Tick \/ Stop
  <2>1. UNCHANGED <<cards, gone, status, begun, run>> BY <1>16 DEF Trigger, Tick, Stop
  <2> QED BY <2>1, StillGoesDown, KeepingStays DEF Idling
<1>17. ASSUME NEW c \in Calls, DeleteZip(c) \/ DeleteCard(c) PROVE Keeping'
  <2>1. req[c].id \in Ids
    <3>1. [id |-> req[c].id, number |-> req[c].number] \in [id : Ids, number : Nat]
      BY <1>17 DEF Asking, DeleteZip, DeleteCard, Shapes
    <3> QED BY <3>1
  <2>2. ZipCleared(req[c].id) \/ CardCleared(req[c].id) BY <1>17 DEF DeleteZip, DeleteCard, ZipCleared, CardCleared
  <2>3. UNCHANGED <<status, begun, run>> BY <1>17 DEF DeleteZip, DeleteCard
  <2> QED BY <2>1, <2>2, <2>3, RemovalGoesDown, KeepingStays DEF Idling
<1>18. ASSUME NEW c \in Calls, Open(c) PROVE Keeping' BY <1>18, StillGoesDown, KeepingStays DEF Open, Idling
<1>19. ASSUME NEW c \in Calls, NEW kind \in {"delete", "open"}, NEW k \in known, Request(c, kind, k) PROVE Keeping'
  BY <1>19, StillGoesDown, KeepingStays DEF Request, Idling
<1>20. ASSUME NEW place \in Places, Edit(place) PROVE Keeping'
  BY <1>20, StillGoesDown, ChangedShape, KeepingStays DEF Edit
<1>21. ASSUME NEW from \in Places \ {0}, NEW to \in Places \ {0}, Move(from, to) PROVE Keeping'
  BY <1>21, StillGoesDown, ChangedShape, KeepingStays DEF Move
<1>22. CASE UNCHANGED vars BY <1>22, StillGoesDown, KeepingStays DEF vars, Idling
<1> QED
  BY <1>1, <1>2, <1>3, <1>4, <1>5, <1>6, <1>7, <1>8, <1>9, <1>10, <1>11, <1>12, <1>13, <1>14, <1>15, <1>16, <1>17,
     <1>18, <1>19, <1>20, <1>21, <1>22 DEF Next, Work

-----------------------------------------------------------------------------
(* The list and the status are true *)

LEMMA InvInit == Init => Inv
  BY ShapesInit, NumberingInit, CountingInit, AskingInit, StockInit, ArchiveInit, KeepingInit DEF Inv

LEMMA InvNext == Inv /\ [Next]_vars => Inv'
  BY ShapesNext, NumberingNext, CountingNext, AskingNext, StockNext, ArchiveNext, KeepingNext DEF Inv

LEMMA InvTypes == Inv => TypeOK
<1> SUFFICES ASSUME Inv PROVE TypeOK OBVIOUS
<1> USE DEF Inv
<1>1. DOMAIN wiki = Places BY DEF Shapes
<1>2. known \subseteq [id : Ids, number : Numbers]
  <2> SUFFICES ASSUME NEW k \in known PROVE k \in [id : Ids, number : Numbers] OBVIOUS
  <2>1. k \in [id : Ids, number : Nat] /\ k.number <= begun /\ begun \in Nat BY DEF Shapes, Numbering
  <2>2. k.number \in Numbers BY <2>1 DEF Numbers
  <2> QED BY <2>1, <2>2
<1>3. ASSUME NEW i \in Ids
      PROVE  cards[i] \in Numbers \union {None, Torn} /\ (zips[i] # None => zips[i].number \in Numbers)
  <2>1. cards[i] \in Nat \union {None, Torn} /\ begun \in Nat BY DEF Shapes
  <2>2. cards[i] \notin {None, Torn} => cards[i] \in Numbers BY <2>1 DEF Numbering, Listed, Numbers
  <2>3. zips[i] # None => zips[i].number \in Nat /\ zips[i].number <= begun BY DEF Shapes, Archives, Numbering
  <2> QED BY <2>1, <2>2, <2>3 DEF Numbers
<1>4. {manual, tick, stopping} \subseteq BOOLEAN BY DEF Shapes
<1>5. status.running <=> run.at \notin {"wait", "off"} BY DEF Numbering, Away
<1> QED BY <1>1, <1>2, <1>3, <1>4, <1>5 DEF TypeOK

LEMMA InvWhole == Inv => ListedIsWhole
  BY DEF Inv, Stock, ListedIsWhole, Whole

LEMMA InvStatus == Inv => StatusTrue
  BY DEF Inv, Keeping, StatusTrue, Shelved, Away

\* What an open request finds.
OpenStep ==
    \A c \in Calls :
        req[c].kind = "open" /\ req'[c].at = "idle" /\ run' # Rest /\ req[c].number \notin gone =>
            zips[req[c].id] # None /\ zips[req[c].id].whole /\ zips[req[c].id].number = req[c].number

LEMMA InvOpens == Inv => OpenStep
<1> SUFFICES ASSUME Inv, NEW c \in Calls, req[c].kind = "open", req[c].number \notin gone
             PROVE  Whole(req[c].id, req[c].number)
  BY DEF OpenStep, Whole
<1>1. [id |-> req[c].id, number |-> req[c].number] \in known BY DEF Inv, Asking
<1>2. req[c].id \in Listed /\ cards[req[c].id] = req[c].number BY <1>1 DEF Inv, Stock
<1> QED BY <1>2 DEF Inv, Stock

\* ListTrue: a snapshot in the list has its whole archive unless its removal
\* has begun, an archive holds what did not change under the walk, whoever
\* opens a snapshot gets the one asked for, and a status without errors is so
\* (createSnapshot, Delete, uniqueSnapshotID, pruneOldSnapshots).
THEOREM TheListIsTrue == Spec => ListTrue
<1>1. Init => Inv BY InvInit
<1>2. Inv /\ [Next]_vars => Inv' BY InvNext
<1>3. Inv => TypeOK /\ ListedIsWhole /\ StatusTrue BY InvTypes, InvWhole, InvStatus
<1>4. Inv /\ [Next]_vars => ArchiveStep BY ClosingKeeps DEF Inv
<1>5. Inv => OpenStep BY InvOpens
<1>6. Spec => [](TypeOK /\ ListedIsWhole /\ StatusTrue) BY <1>1, <1>2, <1>3, PTL DEF Spec
<1>7. Spec => [][ArchiveStep]_vars BY <1>1, <1>2, <1>4, PTL DEF Spec
<1>8. Spec => [][OpenStep]_vars BY <1>1, <1>2, <1>5, PTL DEF Spec
<1> QED BY <1>6, <1>7, <1>8 DEF ListTrue, ArchiveHolds, OpensTheOneAskedFor, ArchiveStep, OpenStep

-----------------------------------------------------------------------------
(* The list behaves as the shelf *)

Deleting == {req[c].id : c \in {d \in Calls : req[d].kind = "delete"}}
Doomed == {cards[i] : i \in Listed \intersect (Marked \union Deleting)}

LEMMA ShelfInit == Init => Shelf!Init
<1> SUFFICES ASSUME Init PROVE Shelf!Init OBVIOUS
<1>1. Listed = {} BY DEF Init, Listed
<1> QED BY <1>1 DEF Shelf!Init

\* The steps of the shelf, in terms of the list.
LEMMA ShelfStep ==
    ASSUME \/ Shelved' = Shelved /\ Doomed' \in SUBSET Doomed
           \/ /\ Shelved' = Shelved
              /\ \E n \in Shelved : Doomed' = Doomed \union {n}
           \/ \E n \in Shelved : n \in Doomed /\ Shelved' = Shelved \ {n} /\ Doomed' \in SUBSET Doomed
           \/ \E n \in 1 .. MaxRuns :
                /\ \A m \in Shelved : m < n
                /\ Shelved' = Shelved \union {n} /\ Doomed' \in {Doomed, Doomed \union {n}}
           \/ /\ Shelved' = Shelved
              /\ Doomed' = Doomed \union
                    {n \in Shelved : Retention > 0 /\ Cardinality({m \in Shelved : m > n}) >= Retention}
    PROVE  Shelf!Next
<1> USE DEF Shelved, Doomed, Marked, Deleting
<1>1. CASE Shelved' = Shelved /\ Doomed' \in SUBSET Doomed BY <1>1 DEF Shelf!Next, Shelf!Spare
<1>2. CASE Shelved' = Shelved /\ \E n \in Shelved : Doomed' = Doomed \union {n} BY <1>2 DEF Shelf!Next, Shelf!Ask
<1>3. CASE \E n \in Shelved : n \in Doomed /\ Shelved' = Shelved \ {n} /\ Doomed' \in SUBSET Doomed
  BY <1>3 DEF Shelf!Next, Shelf!Remove
<1>4. CASE \E n \in 1 .. MaxRuns :
                /\ \A m \in Shelved : m < n
                /\ Shelved' = Shelved \union {n} /\ Doomed' \in {Doomed, Doomed \union {n}}
  BY <1>4 DEF Shelf!Next, Shelf!Put
<1>5. CASE /\ Shelved' = Shelved
           /\ Doomed' = Doomed \union
                {n \in Shelved : Retention > 0 /\ Cardinality({m \in Shelved : m > n}) >= Retention}
  <2>1. Shelf!Overdue = {n \in Shelved : Retention > 0 /\ Cardinality({m \in Shelved : m > n}) >= Retention}
    BY Zenon DEF Shelf!Overdue, Shelf!Cardinality, Cardinality
  <2>2. Shelved' = Shelved /\ Doomed' = Doomed \union Shelf!Overdue BY <1>5, <2>1, Zenon
  <2>3. Shelf!Expire BY <2>2, Zenon DEF Shelf!Expire
  <2> QED BY <2>3, Zenon DEF Shelf!Next
<1> QED BY <1>1, <1>2, <1>3, <1>4, <1>5

\* Nothing is listed or leaves the list, and nothing more is to go.
LEMMA SpareStep ==
    ASSUME Listed' = Listed, \A i \in Listed : cards'[i] = cards[i],
           Marked' \subseteq Marked \union Deleting, Deleting' \subseteq Marked \union Deleting
    PROVE  Shelf!Next
<1>1. Shelved' = Shelved BY DEF Shelved
<1>2. Doomed' \in SUBSET Doomed BY DEF Doomed
<1> QED BY <1>1, <1>2, ShelfStep

\* A sidecar that is to go is taken away.
LEMMA RemoveStep ==
    ASSUME Shapes, Stock, NEW i \in Ids, CardCleared(i), i \in Marked \union Deleting,
           Marked' \subseteq Marked \union Deleting, Deleting' \subseteq Marked \union Deleting
    PROVE  Shelf!Next
<1>1. /\ \A j \in Ids \ {i} : cards'[j] = cards[j]
      /\ cards'[i] = None
  BY DEF CardCleared, Shapes
<1>2. Listed' = Listed \ {i} /\ \A j \in Listed' : cards'[j] = cards[j] BY <1>1 DEF Listed
<1>3. CASE i \notin Listed
  <2>1. Listed' = Listed BY <1>2, <1>3
  <2> QED BY <1>2, <2>1, SpareStep
<1>4. CASE i \in Listed
  <2>1. cards[i] \in Shelved /\ cards[i] \in Doomed BY <1>4 DEF Shelved, Doomed
  <2>2. \A j \in Listed : j # i => cards[j] # cards[i] BY <1>4 DEF Stock
  <2>3. Shelved' = Shelved \ {cards[i]} BY <1>2, <2>2 DEF Shelved
  <2>4. Doomed' \in SUBSET Doomed BY <1>2 DEF Doomed
  <2> QED BY <2>1, <2>3, <2>4, ShelfStep
<1> QED BY <1>3, <1>4

LEMMA ShelfNext == Inv /\ [Next]_vars => Shelf!Next
<1> SUFFICES ASSUME Inv, [Next]_vars PROVE Shelf!Next OBVIOUS
<1>0. Shapes /\ Asking /\ Stock /\ Keeping /\ Counting BY DEF Inv
<1> USE <1>0 DEF world, scheduler
<1>1. ASSUME UNCHANGED <<cards, req>>, run'.todo \subseteq run.todo PROVE Shelf!Next
  BY <1>1, SpareStep DEF Listed, Marked, Deleting
<1>2. ASSUME TakeManual \/ TakeTick PROVE Shelf!Next
  <2>1. Begins BY <1>2 DEF TakeManual, TakeTick
  <2> QED BY <1>1, <2>1, BeginsShape DEF Begins
<1>3. CASE Vacuum BY <1>1, <1>3, VacuumShape DEF Vacuum, Idling
<1>4. CASE CreateZip BY <1>1, <1>4, CreateZipShape DEF CreateZip, Idling
<1>5. CASE AddFile BY <1>1, <1>5, AddFileShape DEF AddFile, Idling
<1>6. CASE CloseZip BY <1>1, <1>6, ToShape DEF CloseZip, Idling, Writing
<1>7. CASE CreateCard
  <2>1. run.at = "card" /\ run.id \in Ids BY <1>7 DEF CreateCard, Shapes, Writing
  <2>2. run.id \notin Listed BY <2>1 DEF Stock, Writing
  <2>3. Listed' = Listed /\ (\A i \in Listed : cards'[i] = cards[i]) BY <1>7, <2>1, <2>2 DEF CreateCard, Listed, Shapes
  <2>4. Marked' = Marked /\ Deleting' = Deleting BY <1>7, ToShape DEF CreateCard, Idling, Writing, Marked, Deleting
  <2> QED BY <2>3, <2>4, SpareStep
<1>8. CASE FillCard
  <2>1. run.at = "fill" /\ run.id \in Ids /\ begun \in Nat /\ begun > 0 BY <1>8 DEF FillCard, Shapes, Writing, Stock
  <2>2. cards'[run.id] = begun /\ \A i \in Ids \ {run.id} : cards'[i] = cards[i]
    BY <1>8, <2>1 DEF FillCard, Shapes
  <2>3. run.id \notin Listed /\ \A i \in Listed : cards[i] < begun BY <2>1 DEF Stock, Writing
  <2>4. Listed' = Listed \union {run.id} BY <2>1, <2>2, Constants DEF Listed
  <2>5. Shelved' = Shelved \union {begun} /\ \A m \in Shelved : m < begun BY <2>2, <2>3, <2>4 DEF Shelved, Listed
  <2>6. run.todo = {} /\ run'.todo = {}
    <3>1. run.todo = {} BY <2>1 DEF Keeping, Pruning
    <3>2. CASE Retention = 0 BY <1>8, <3>1, <3>2, Settling, RestShape
    <3>3. CASE Retention # 0 BY <1>8, <3>1, <3>3, ToShape DEF FillCard, Reviewing, Idling
    <3> QED BY <3>1, <3>2, <3>3
  <2>7. Marked = {} /\ Marked' = {} /\ Deleting' = Deleting BY <1>8, <2>6 DEF Marked, Deleting, FillCard
  <2>8. Doomed' \in {Doomed, Doomed \union {begun}}
    <3>1. CASE run.id \in Deleting
      <4>1. Doomed' = Doomed \union {begun} BY <2>2, <2>3, <2>4, <2>7, <3>1 DEF Doomed, Listed
      <4> QED BY <4>1
    <3>2. CASE run.id \notin Deleting
      <4>1. Doomed' = Doomed BY <2>2, <2>3, <2>4, <2>7, <3>2 DEF Doomed, Listed
      <4> QED BY <4>1
    <3> QED BY <3>1, <3>2
  <2>9. begun \in 1 .. MaxRuns
    <3>1. Pending \in 0 .. 2 BY DEF Pending
    <3> QED BY <2>1, <3>1, Constants DEF Counting, MaxRuns, Shapes
  <2> QED BY <2>5, <2>8, <2>9, ShelfStep
<1>9. CASE ListNames BY <1>1, <1>9, ListNamesShape DEF ListNames
<1>10. CASE ReadCards
  <2>1. UNCHANGED <<cards, req>> /\ run.at = "read" BY <1>10 DEF ReadCards
  <2>2. CASE Settle(FALSE, PruneError) BY <1>1, <1>10, <2>1, <2>2, Settling, RestShape
  <2>3. CASE ~ Settle(FALSE, PruneError)
    <3>1. run.names \subseteq Listed /\ run'.todo = Surplus(run.names) BY <1>10, <2>3, ReadCardsShape
    <3>2. run.names = Listed /\ run.todo = {} /\ Retention > 0 BY <2>1, <3>1 DEF Keeping, Pruning, Reviewing
    <3>3. Marked = {} /\ Marked' = {i \in Listed : Cardinality(Newer(Listed, i)) >= Retention}
      <4> DEFINE over == {i \in Listed : Cardinality(Newer(Listed, i)) >= Retention}
      <4>1. run'.todo = Entries(over) BY <3>1, <3>2, Zenon DEF Surplus
      <4> HIDE DEF over
      <4>2. run'.todo = {[id |-> i, number |-> cards[i]] : i \in over} BY <4>1 DEF Entries
      <4>3. Marked' = {e.id : e \in run'.todo} /\ Marked = {} BY <3>2 DEF Marked
      <4>4. \A e \in run'.todo : \E i \in over : e.id = i BY <4>2
      <4>5. \A i \in over : \E e \in run'.todo : e.id = i
        <5> SUFFICES ASSUME NEW i \in over PROVE \E e \in run'.todo : e.id = i OBVIOUS
        <5>1. [id |-> i, number |-> cards[i]] \in run'.todo BY <4>2
        <5> QED BY <5>1
      <4>6. Marked' = over BY <4>3, <4>4, <4>5
      <4> QED BY <4>3, <4>6 DEF over
    <3>4. Shelved' = Shelved /\ Listed' = Listed /\ Deleting' = Deleting BY <2>1 DEF Shelved, Listed, Deleting
    <3>5. \A i \in Listed : Newer(Listed, i) = {m \in Shelved : m > cards[i]} BY DEF Newer, Numbered, Shelved
    <3>6. {cards[i] : i \in Marked'}
             = {n \in Shelved : Retention > 0 /\ Cardinality({m \in Shelved : m > n}) >= Retention}
      <4>1. \A n : n \in {cards[i] : i \in Marked'} <=>
                     n \in {m \in Shelved : Cardinality({l \in Shelved : l > m}) >= Retention}
        <5>1. \A i \in Listed : Cardinality(Newer(Listed, i)) = Cardinality({m \in Shelved : m > cards[i]}) BY <3>5
        <5>2. Marked' = {i \in Listed : Cardinality({m \in Shelved : m > cards[i]}) >= Retention}
          BY <3>3, <5>1, Zenon
        <5> QED BY <5>2, Zenon DEF Shelved
      <4> QED BY <3>2, <4>1, Zenon
    <3>7. Doomed' = Doomed \union {cards[i] : i \in Marked'}
      <4>1. Marked' \subseteq Listed BY <3>3
      <4>2. UNCHANGED cards BY <2>1
      <4>3. \A n : n \in Doomed' <=> n \in Doomed \union {cards[i] : i \in Marked'}
        BY <3>3, <3>4, <4>1, <4>2 DEF Doomed
      <4> QED BY <4>3
    <3> QED BY <3>4, <3>6, <3>7, ShelfStep
  <2> QED BY <2>2, <2>3
<1>11. CASE PruneZip BY <1>1, <1>11, PruneZipShape DEF PruneZip, Idling
<1>12. CASE PruneCard
  <2>1. PICK e \in run.todo :
            /\ e.id \in Ids /\ cards' = [cards EXCEPT ![e.id] = None] /\ Removing(e.id)
            /\ \/ Settle(FALSE, PruneError)
               \/ run'.todo = run.todo \ {e}
    BY <1>12, PruneCardShape
  <2>2. CardCleared(e.id) /\ UNCHANGED req BY <1>12, <2>1 DEF PruneCard, CardCleared
  <2>3. run'.todo \subseteq run.todo BY <1>12, <2>1, Settling, RestShape
  <2>4. e.id \in Marked /\ Marked' \subseteq Marked /\ Deleting' = Deleting BY <2>1, <2>2, <2>3 DEF Marked, Deleting
  <2> QED BY <2>1, <2>2, <2>4, RemoveStep
<1>13. CASE Pruned BY <1>1, <1>13, Settling, RestShape DEF Pruned
<1>14. CASE Stopped BY <1>1, <1>14, ToShape DEF Stopped, Idling, Away
<1>15. CASE Fail BY <1>1, <1>15, Settling, RestShape DEF Fail
<1>16. CASE Panic BY <1>1, <1>16, Settling, RestShape DEF Panic
<1>17. CASE Trigger BY <1>1, <1>17 DEF Trigger
<1>18. CASE Tick BY <1>1, <1>18 DEF Tick
<1>19. CASE Stop BY <1>1, <1>19 DEF Stop
<1>20. CASE Restart
  <2>1. run'.todo = {} /\ cards' = cards BY <1>20, RestShape DEF Restart
  <2>2. \A c \in Calls : req'[c].kind = "none" BY <1>20, IdleShape DEF Restart
  <2>3. Marked' = {} /\ Deleting' = {} BY <2>1, <2>2 DEF Marked, Deleting
  <2> QED BY <2>1, <2>3, SpareStep DEF Listed
<1>21. ASSUME NEW c \in Calls, DeleteZip(c) PROVE Shelf!Next
  <2>1. \A d \in Calls : req'[d].kind = req[d].kind /\ req'[d].id = req[d].id
    <3> SUFFICES ASSUME NEW d \in Calls PROVE req'[d].kind = req[d].kind /\ req'[d].id = req[d].id OBVIOUS
    <3>1. CASE d = c BY <1>21, <3>1, DeleteZipShape
    <3>2. CASE d # c BY <1>21, <3>2, DeleteZipShape
    <3> QED BY <3>1, <3>2
  <2>2. Deleting' = Deleting BY <2>1 DEF Deleting
  <2>3. cards' = cards /\ Marked' = Marked BY <1>21 DEF DeleteZip, Marked
  <2> QED BY <2>2, <2>3, SpareStep DEF Listed
<1>22. ASSUME NEW c \in Calls, req' = [req EXCEPT ![c] = Idle] PROVE Deleting' \subseteq Deleting
  <2>1. req'[c].kind = "none" /\ \A d \in Calls \ {c} : req'[d] = req[d] BY <1>22, Ended
  <2> QED BY <2>1 DEF Deleting
<1>23. ASSUME NEW c \in Calls, DeleteCard(c) PROVE Shelf!Next
  <2>1. req[c].id \in Ids
    <3>1. [id |-> req[c].id, number |-> req[c].number] \in [id : Ids, number : Nat]
      BY <1>23 DEF Asking, DeleteCard, Shapes
    <3> QED BY <3>1
  <2>2. CardCleared(req[c].id) /\ Marked' = Marked /\ Deleting' \subseteq Deleting
    BY <1>22, <1>23 DEF DeleteCard, CardCleared, Marked
  <2>3. req[c].id \in Deleting BY <1>23 DEF DeleteCard, Asking, Deleting
  <2> QED BY <2>1, <2>2, <2>3, RemoveStep
<1>24. ASSUME NEW c \in Calls, Open(c) PROVE Shelf!Next
  <2>1. cards' = cards /\ Marked' = Marked /\ Deleting' \subseteq Deleting BY <1>22, <1>24 DEF Open, Marked
  <2> QED BY <2>1, SpareStep DEF Listed
<1>25. ASSUME NEW c \in Calls, NEW kind \in {"delete", "open"}, NEW k \in known, Request(c, kind, k) PROVE Shelf!Next
  <2>1. cards' = cards /\ Marked' = Marked /\ Listed' = Listed BY <1>25 DEF Request, Marked, Listed
  <2>2. /\ req[c].kind = "none" /\ req'[c].kind = kind /\ req'[c].id = k.id
        /\ \A d \in Calls \ {c} : req'[d] = req[d]
    <3>1. /\ req[c].at = "idle" /\ req'[c].kind = kind /\ req'[c].id = k.id
          /\ \A d \in Calls \ {c} : req'[d] = req[d]
      BY <1>25, RequestShape
    <3> QED BY <3>1 DEF Asking
  <2>3. CASE kind = "open"
    <3>1. Deleting' = Deleting BY <2>2, <2>3 DEF Deleting
    <3> QED BY <2>1, <3>1, SpareStep
  <2>4. CASE kind = "delete"
    <3>1. Deleting' = Deleting \union {k.id}
      <4>1. \A i : i \in Deleting' <=> i \in Deleting \union {k.id} BY <2>2, <2>4 DEF Deleting
      <4> QED BY <4>1
    <3>2. CASE k.id \notin Listed
      <4>1. Doomed' \in SUBSET Doomed /\ Shelved' = Shelved BY <2>1, <3>1, <3>2 DEF Doomed, Shelved
      <4> QED BY <4>1, ShelfStep
    <3>3. CASE k.id \in Listed
      <4>1. cards[k.id] \in Shelved /\ Shelved' = Shelved BY <2>1, <3>3 DEF Shelved
      <4>2. Doomed' = Doomed \union {cards[k.id]}
        <5>1. \A n : n \in Doomed' <=> n \in Doomed \union {cards[k.id]} BY <2>1, <3>1, <3>3 DEF Doomed
        <5> QED BY <5>1
      <4> QED BY <4>1, <4>2, ShelfStep
    <3> QED BY <3>2, <3>3
  <2> QED BY <2>3, <2>4
<1>26. ASSUME NEW place \in Places, Edit(place) PROVE Shelf!Next BY <1>1, <1>26, ChangedShape DEF Edit, Idling
<1>27. ASSUME NEW from \in Places \ {0}, NEW to \in Places \ {0}, Move(from, to) PROVE Shelf!Next
  BY <1>1, <1>27, ChangedShape DEF Move, Idling
<1>28. CASE UNCHANGED vars BY <1>1, <1>28 DEF vars
<1> QED
  BY <1>2, <1>3, <1>4, <1>5, <1>6, <1>7, <1>8, <1>9, <1>10, <1>11, <1>12, <1>13, <1>14, <1>15, <1>16, <1>17, <1>18,
     <1>19, <1>20, <1>21, <1>23, <1>24, <1>25, <1>26, <1>27, <1>28 DEF Next, Work

\* ImplementsShelf: whatever fails, crashes or is asked for between the steps
\* of a removal, a snapshot comes as the newest and leaves only when that was
\* asked for or Retention newer ones stood beside it.
THEOREM TheListIsAShelf == Spec => ImplementsShelf
<1>1. Init => Inv /\ Shelf!Init BY InvInit, ShelfInit
<1>2. Inv /\ [Next]_vars => Inv' BY InvNext
<1>3. Inv /\ [Next]_vars => [Shelf!Next]_(Shelf!vars) BY ShelfNext
<1> QED BY <1>1, <1>2, <1>3, PTL DEF Spec, ImplementsShelf, Shelf!Spec
=============================================================================

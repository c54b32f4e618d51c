--------------------------- MODULE SnapshotShelf ---------------------------
(***************************************************************************)
(* What the snapshots (internal/snapshot) promise: each is put on the shelf *)
(* as the newest, and leaves it only when somebody asked for that or when,  *)
(* at some moment, Retention newer ones stood beside it.                    *)
(***************************************************************************)
EXTENDS Naturals, FiniteSets

CONSTANTS
    Numbers,    \* snapshots are numbered as they are taken
    Retention   \* how many are kept, 0 for all

VARIABLES
    shelf,      \* the snapshots that are there
    doomed      \* those that are to go

vars == <<shelf, doomed>>

Overdue == {n \in shelf : Retention > 0 /\ Cardinality({m \in shelf : m > n}) >= Retention}

Init == shelf = {} /\ doomed = {}

\* A name taken again may be that of a snapshot whose removal was asked for.
Put(n) ==
    /\ \A m \in shelf : m < n
    /\ shelf' = shelf \union {n}
    /\ doomed' \in {doomed, doomed \union {n}}

Ask(n) == doomed' = doomed \union {n} /\ UNCHANGED shelf
Expire == doomed' = doomed \union Overdue /\ UNCHANGED shelf

\* A removal is given up.
Spare == doomed' \in SUBSET doomed /\ UNCHANGED shelf

Remove(n) ==
    /\ n \in doomed
    /\ shelf' = shelf \ {n}
    /\ doomed' \in SUBSET doomed

Next == Expire \/ Spare \/ (\E n \in Numbers : Put(n)) \/ \E n \in shelf : Ask(n) \/ Remove(n)

Spec == Init /\ [][Next]_vars
=============================================================================

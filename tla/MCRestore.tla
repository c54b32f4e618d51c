----------------------------- MODULE MCRestore -----------------------------
(***************************************************************************)
(* A restore of a data directory with one item of every kind: a directory,  *)
(* users.db, a state database, a settings file, and a database whose store  *)
(* is switched off.  A snapshot holds at most SnapItems of them.            *)
(***************************************************************************)
EXTENDS Restore, FiniteSets

CONSTANT SnapItems  \* bound: items of a snapshot

MCNItems      == 5
MCDirs        == {1}
MCUsersDB     == 2
MCStateStores == {3}
MCSettings    == {4}
MCDBFiles     == {2, 3, 5}
MCBootCreates == {1, 2, 3}

\* The optional items are all there or none is; a database has its log beside it.
MCInit ==
    /\ Init
    /\ \A i, j \in Items \ BootCreates : live[i] = live[j]
    /\ wal = {i \in DBFiles \ Stores : live[i] # Absent}

SmallSnapshot == Cardinality(staged') <= SnapItems

MCFairSpec == MCInit /\ [][Next /\ SmallSnapshot]_vars /\ WF_vars(RestoreStep /\ SmallSnapshot)
=============================================================================

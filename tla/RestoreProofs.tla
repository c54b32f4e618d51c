---------------------------- MODULE RestoreProofs ----------------------------
(***************************************************************************)
(* Proofs about Restore, for every data directory, every set of stores,     *)
(* requests and callers, and any number of restores and restarts; and, at   *)
(* the end, about Preferences, whose stores it reopens.                     *)
(***************************************************************************)
EXTENDS Restore, Preferences, TLAPS

\* The contents a file can have are different from one another.
LEMMA ContentFacts ==
    /\ Absent \in Content /\ Empty \in Content /\ Nat \subseteq Content
    /\ Absent \notin Nat /\ Empty \notin Nat /\ Absent # Empty
BY SMT DEF Absent, Empty, Content

USE ContentFacts DEF jobVars, gateVars, loopVars, swapVars, diskVars, storeVars, authVars, histVars

\* NewManager starts with a well-typed state.
LEMMA TypeInit == Init => TypeOK
<1> SUFFICES ASSUME Init PROVE TypeOK
  OBVIOUS
<1> USE ConstantsAssumption
<1>1. live \in [Items -> Content]
  BY DEF Init, Content
<1> QED
  BY <1>1 DEF Init, TypeOK, JobTypeOK, GateTypeOK, LoopTypeOK, SwapTypeOK, DiskTypeOK,
     StoreTypeOK, AuthTypeOK, HistTypeOK, Steps, NoCopies, Stores

\* Every step of a restore, a request, a login or a restart keeps the types.
LEMMA TypeNext == TypeOK /\ [Next]_vars => TypeOK'
<1> SUFFICES ASSUME TypeOK, [Next]_vars PROVE TypeOK'
  OBVIOUS
<1> USE ConstantsAssumption DEF TypeOK, Goto
<1>1. ASSUME NEW c \in Callers, CheckIntervention(c) PROVE TypeOK'
  <2>1. JobTypeOK'
    BY <1>1 DEF CheckIntervention, JobTypeOK
  <2>2. GateTypeOK' /\ LoopTypeOK' /\ SwapTypeOK' /\ DiskTypeOK' /\ StoreTypeOK' /\ AuthTypeOK' /\ HistTypeOK'
    BY <1>1 DEF CheckIntervention, GateTypeOK, LoopTypeOK, SwapTypeOK, DiskTypeOK, StoreTypeOK, AuthTypeOK, HistTypeOK
  <2> QED
    BY <2>1, <2>2
<1>2. ASSUME NEW c \in Callers, NEW entry \in {"resolve", "stage"}, Start(c, entry) PROVE TypeOK'
  <2>1. JobTypeOK' /\ GateTypeOK' /\ LoopTypeOK' /\ SwapTypeOK'
    <3>1. JobTypeOK'
      BY <1>2 DEF Start, JobTypeOK
    <3>2. GateTypeOK' /\ SwapTypeOK'
      BY <1>2 DEF Start, GateTypeOK, SwapTypeOK
    <3>3. LoopTypeOK'
      BY <1>2 DEF Start, LoopTypeOK, Steps
    <3> QED
      BY <3>1, <3>2, <3>3
  <2>2. orphans' \subseteq Items \X Content
    BY <1>2 DEF Start, Leftovers, DiskTypeOK
  <2>3. DiskTypeOK'
    BY <1>2, <2>2 DEF Start, DiskTypeOK, NoCopies
  <2>4. StoreTypeOK' /\ AuthTypeOK' /\ HistTypeOK'
    BY <1>2 DEF Start, StoreTypeOK, AuthTypeOK, HistTypeOK, DiskTypeOK
  <2> QED
    BY <2>1, <2>3, <2>4
<1>3. ASSUME NEW c \in Callers, StartRefused(c) PROVE TypeOK'
  <2>1. JobTypeOK'
    BY <1>3 DEF StartRefused, JobTypeOK
  <2>2. GateTypeOK' /\ LoopTypeOK' /\ SwapTypeOK' /\ DiskTypeOK' /\ StoreTypeOK' /\ AuthTypeOK' /\ HistTypeOK'
    BY <1>3 DEF StartRefused, GateTypeOK, LoopTypeOK, SwapTypeOK, DiskTypeOK, StoreTypeOK, AuthTypeOK, HistTypeOK
  <2> QED
    BY <2>1, <2>2
<1>4. CASE Prepare
  <2>1. JobTypeOK'
    BY <1>4 DEF Prepare, JobTypeOK, End, Intervene, Finish, FinishNeedsIntervention
  <2>2. LoopTypeOK'
    BY <1>4 DEF Prepare, LoopTypeOK, Steps, End, Intervene, Finish, FinishNeedsIntervention
  <2>3. GateTypeOK' /\ SwapTypeOK' /\ DiskTypeOK' /\ StoreTypeOK' /\ AuthTypeOK' /\ HistTypeOK'
    BY <1>4 DEF Prepare, GateTypeOK, SwapTypeOK, DiskTypeOK, StoreTypeOK, AuthTypeOK, HistTypeOK
  <2> QED
    BY <2>1, <2>2, <2>3
<1>5. CASE Validate
  <2>1. JobTypeOK'
    BY <1>5 DEF Validate, JobTypeOK, End, Intervene, Finish, FinishNeedsIntervention
  <2>2. LoopTypeOK'
    BY <1>5 DEF Validate, LoopTypeOK, Steps, End, Intervene, Finish, FinishNeedsIntervention
  <2>3. SwapTypeOK'
    BY <1>5 DEF Validate, SwapTypeOK, End, Intervene, Finish, FinishNeedsIntervention
  <2>4. GateTypeOK' /\ DiskTypeOK' /\ StoreTypeOK' /\ AuthTypeOK' /\ HistTypeOK'
    BY <1>5 DEF Validate, GateTypeOK, DiskTypeOK, StoreTypeOK, AuthTypeOK, HistTypeOK
  <2> QED
    BY <2>1, <2>2, <2>3, <2>4
<1>6. CASE Engage
  <2>1. GateTypeOK'
    BY <1>6 DEF Engage, GateTypeOK
  <2>2. LoopTypeOK'
    BY <1>6 DEF Engage, LoopTypeOK, Steps
  <2>3. JobTypeOK' /\ SwapTypeOK' /\ DiskTypeOK' /\ StoreTypeOK' /\ AuthTypeOK' /\ HistTypeOK'
    BY <1>6 DEF Engage, JobTypeOK, SwapTypeOK, DiskTypeOK, StoreTypeOK, AuthTypeOK, HistTypeOK
  <2> QED
    BY <2>1, <2>2, <2>3
<1>7. CASE Drain
  <2>1. GateTypeOK'
    BY <1>7 DEF Drain, GateTypeOK, Stores
  <2>2. LoopTypeOK'
    BY <1>7 DEF Drain, LoopTypeOK, Steps, Stores
  <2>3. JobTypeOK' /\ SwapTypeOK' /\ DiskTypeOK' /\ StoreTypeOK' /\ AuthTypeOK' /\ HistTypeOK'
    BY <1>7 DEF Drain, JobTypeOK, SwapTypeOK, DiskTypeOK, StoreTypeOK, AuthTypeOK, HistTypeOK
  <2> QED
    BY <2>1, <2>2, <2>3
<1>8. CASE PauseStore
  <2>1. LoopTypeOK'
    BY <1>8 DEF PauseStore, LoopTypeOK, Steps
  <2>2. StoreTypeOK'
    BY <1>8 DEF PauseStore, StoreTypeOK
  <2>3. JobTypeOK' /\ GateTypeOK' /\ SwapTypeOK' /\ DiskTypeOK' /\ AuthTypeOK' /\ HistTypeOK'
    BY <1>8 DEF PauseStore, JobTypeOK, GateTypeOK, SwapTypeOK, DiskTypeOK, AuthTypeOK, HistTypeOK
  <2> QED
    BY <2>1, <2>2, <2>3
<1>9. CASE StoresPaused
  <2>1. LoopTypeOK'
    BY <1>9 DEF StoresPaused, LoopTypeOK, Steps
  <2>2. JobTypeOK' /\ GateTypeOK' /\ SwapTypeOK' /\ DiskTypeOK' /\ StoreTypeOK' /\ AuthTypeOK' /\ HistTypeOK'
    BY <1>9 DEF StoresPaused, JobTypeOK, GateTypeOK, SwapTypeOK, DiskTypeOK, StoreTypeOK, AuthTypeOK, HistTypeOK
  <2> QED
    BY <2>1, <2>2
<1>10. CASE CleanSidecars
  <2>1. LoopTypeOK'
    BY <1>10 DEF CleanSidecars, LoopTypeOK, SwapTypeOK, Steps
  <2>2. DiskTypeOK'
    BY <1>10 DEF CleanSidecars, DiskTypeOK
  <2>3. JobTypeOK' /\ GateTypeOK' /\ SwapTypeOK' /\ StoreTypeOK' /\ AuthTypeOK' /\ HistTypeOK'
    BY <1>10 DEF CleanSidecars, JobTypeOK, GateTypeOK, SwapTypeOK, StoreTypeOK, AuthTypeOK, HistTypeOK
  <2> QED
    BY <2>1, <2>2, <2>3
<1>11. CASE Release
  <2>1. GateTypeOK'
    BY <1>11 DEF Release, GateTypeOK, Stores
  <2>2. LoopTypeOK'
    BY <1>11 DEF Release, LoopTypeOK, Steps, Stores
  <2>3. JobTypeOK' /\ SwapTypeOK' /\ DiskTypeOK' /\ StoreTypeOK' /\ AuthTypeOK' /\ HistTypeOK'
    BY <1>11 DEF Release, JobTypeOK, SwapTypeOK, DiskTypeOK, StoreTypeOK, AuthTypeOK, HistTypeOK
  <2> QED
    BY <2>1, <2>2, <2>3
<1>12. CASE MoveAside
  <2>1. LoopTypeOK'
    BY <1>12 DEF MoveAside, LoopTypeOK, Steps
  <2>2. SwapTypeOK'
    BY <1>12 DEF MoveAside, SwapTypeOK, LoopTypeOK
  <2>3. DiskTypeOK'
    BY <1>12 DEF MoveAside, DiskTypeOK
  <2>4. JobTypeOK' /\ GateTypeOK' /\ StoreTypeOK' /\ AuthTypeOK' /\ HistTypeOK'
    BY <1>12 DEF MoveAside, JobTypeOK, GateTypeOK, StoreTypeOK, AuthTypeOK, HistTypeOK
  <2> QED
    BY <2>1, <2>2, <2>3, <2>4
<1>13. CASE MoveIn
  <2>1. LoopTypeOK'
    BY <1>13 DEF MoveIn, LoopTypeOK, Steps, JobTypeOK
  <2>2. SwapTypeOK'
    BY <1>13 DEF MoveIn, SwapTypeOK, LoopTypeOK
  <2>3. DiskTypeOK'
    BY <1>13 DEF MoveIn, DiskTypeOK, JobTypeOK
  <2>4. JobTypeOK' /\ GateTypeOK' /\ StoreTypeOK' /\ AuthTypeOK' /\ HistTypeOK'
    BY <1>13 DEF MoveIn, JobTypeOK, GateTypeOK, StoreTypeOK, AuthTypeOK, HistTypeOK
  <2> QED
    BY <2>1, <2>2, <2>3, <2>4
<1>14. CASE SwapDone
  <2>1. LoopTypeOK'
    BY <1>14 DEF SwapDone, LoopTypeOK, Steps
  <2>2. JobTypeOK' /\ GateTypeOK' /\ SwapTypeOK' /\ DiskTypeOK' /\ StoreTypeOK' /\ AuthTypeOK' /\ HistTypeOK'
    BY <1>14 DEF SwapDone, JobTypeOK, GateTypeOK, SwapTypeOK, DiskTypeOK, StoreTypeOK, AuthTypeOK, HistTypeOK
  <2> QED
    BY <2>1, <2>2
<1>15. CASE ReplaceUserStore
  <2>1. LoopTypeOK'
    BY <1>15 DEF ReplaceUserStore, LoopTypeOK, Steps, Reopen, DiskTypeOK
  <2>2. StoreTypeOK'
    BY <1>15 DEF ReplaceUserStore, StoreTypeOK, Reopen, DiskTypeOK
  <2>3. JobTypeOK' /\ GateTypeOK' /\ SwapTypeOK' /\ DiskTypeOK' /\ AuthTypeOK' /\ HistTypeOK'
    BY <1>15 DEF ReplaceUserStore, JobTypeOK, GateTypeOK, SwapTypeOK, DiskTypeOK, AuthTypeOK, HistTypeOK
  <2> QED
    BY <2>1, <2>2, <2>3
<1>16. CASE InvalidateSessions
  <2>1. LoopTypeOK'
    BY <1>16 DEF InvalidateSessions, LoopTypeOK, Steps
  <2>2. AuthTypeOK'
    BY <1>16 DEF InvalidateSessions, AuthTypeOK
  <2>3. JobTypeOK' /\ GateTypeOK' /\ SwapTypeOK' /\ DiskTypeOK' /\ StoreTypeOK' /\ HistTypeOK'
    BY <1>16 DEF InvalidateSessions, JobTypeOK, GateTypeOK, SwapTypeOK, DiskTypeOK, StoreTypeOK, HistTypeOK
  <2> QED
    BY <2>1, <2>2, <2>3
<1>17. CASE ReplaceStore
  <2>1. LoopTypeOK'
    BY <1>17 DEF ReplaceStore, LoopTypeOK, Steps, Reopen, DiskTypeOK
  <2>2. StoreTypeOK'
    BY <1>17 DEF ReplaceStore, StoreTypeOK, Reopen, DiskTypeOK, LoopTypeOK
  <2>3. JobTypeOK' /\ GateTypeOK' /\ SwapTypeOK' /\ DiskTypeOK' /\ AuthTypeOK' /\ HistTypeOK'
    BY <1>17 DEF ReplaceStore, JobTypeOK, GateTypeOK, SwapTypeOK, DiskTypeOK, AuthTypeOK, HistTypeOK
  <2> QED
    BY <2>1, <2>2, <2>3
<1>18. CASE StoresReplaced
  <2>1. LoopTypeOK'
    BY <1>18 DEF StoresReplaced, LoopTypeOK, Steps
  <2>2. JobTypeOK' /\ GateTypeOK' /\ SwapTypeOK' /\ DiskTypeOK' /\ StoreTypeOK' /\ AuthTypeOK' /\ HistTypeOK'
    BY <1>18 DEF StoresReplaced, JobTypeOK, GateTypeOK, SwapTypeOK, DiskTypeOK, StoreTypeOK, AuthTypeOK, HistTypeOK
  <2> QED
    BY <2>1, <2>2
<1>19. CASE ReloadSettings
  <2>1. LoopTypeOK'
    BY <1>19 DEF ReloadSettings, LoopTypeOK, Steps, DiskTypeOK
  <2>2. StoreTypeOK'
    BY <1>19 DEF ReloadSettings, StoreTypeOK, DiskTypeOK
  <2>3. JobTypeOK' /\ GateTypeOK' /\ SwapTypeOK' /\ DiskTypeOK' /\ AuthTypeOK' /\ HistTypeOK'
    BY <1>19 DEF ReloadSettings, JobTypeOK, GateTypeOK, SwapTypeOK, DiskTypeOK, AuthTypeOK, HistTypeOK
  <2> QED
    BY <2>1, <2>2, <2>3
<1>20. CASE CommitAll
  <2>1. LoopTypeOK'
    BY <1>20 DEF CommitAll, LoopTypeOK, Steps
  <2>2. DiskTypeOK'
    BY <1>20 DEF CommitAll, DiskTypeOK
  <2>3. HistTypeOK'
    BY <1>20 DEF CommitAll, HistTypeOK
  <2>4. JobTypeOK' /\ GateTypeOK' /\ SwapTypeOK' /\ StoreTypeOK' /\ AuthTypeOK'
    BY <1>20 DEF CommitAll, JobTypeOK, GateTypeOK, SwapTypeOK, StoreTypeOK, AuthTypeOK
  <2> QED
    BY <2>1, <2>2, <2>3, <2>4
<1>21. CASE Disengage
  <2>1. JobTypeOK'
    BY <1>21 DEF Disengage, JobTypeOK, End, Intervene, Finish, FinishNeedsIntervention
  <2>2. GateTypeOK'
    BY <1>21 DEF Disengage, GateTypeOK, End, Intervene, Finish, FinishNeedsIntervention
  <2>3. LoopTypeOK'
    BY <1>21 DEF Disengage, LoopTypeOK, Steps, End, Intervene, Finish, FinishNeedsIntervention
  <2>4. SwapTypeOK' /\ DiskTypeOK' /\ StoreTypeOK' /\ AuthTypeOK' /\ HistTypeOK'
    BY <1>21 DEF Disengage, SwapTypeOK, DiskTypeOK, StoreTypeOK, AuthTypeOK, HistTypeOK
  <2> QED
    BY <2>1, <2>2, <2>3, <2>4
<1>22. CASE Succeed
  <2>1. JobTypeOK'
    BY <1>22 DEF Succeed, JobTypeOK, End, Intervene, Finish, FinishNeedsIntervention
  <2>2. LoopTypeOK'
    BY <1>22 DEF Succeed, LoopTypeOK, Steps, End, Intervene, Finish, FinishNeedsIntervention
  <2>3. GateTypeOK' /\ SwapTypeOK' /\ DiskTypeOK' /\ StoreTypeOK' /\ AuthTypeOK' /\ HistTypeOK'
    BY <1>22 DEF Succeed, GateTypeOK, SwapTypeOK, DiskTypeOK, StoreTypeOK, AuthTypeOK, HistTypeOK
  <2> QED
    BY <2>1, <2>2, <2>3
<1>23. CASE PauseForRollback
  <2>1. LoopTypeOK'
    BY <1>23 DEF PauseForRollback, LoopTypeOK, Steps, AllSuspended, Touched, SwapTypeOK
  <2>2. StoreTypeOK'
    BY <1>23 DEF PauseForRollback, StoreTypeOK, AllSuspended, Touched, SwapTypeOK
  <2>3. JobTypeOK' /\ GateTypeOK' /\ SwapTypeOK' /\ DiskTypeOK' /\ AuthTypeOK' /\ HistTypeOK'
    BY <1>23 DEF PauseForRollback, JobTypeOK, GateTypeOK, SwapTypeOK, DiskTypeOK, AuthTypeOK, HistTypeOK
  <2> QED
    BY <2>1, <2>2, <2>3
<1>24. CASE RollbackRemove
  <2>1. LoopTypeOK'
    BY <1>24 DEF RollbackRemove, LoopTypeOK, Steps
  <2>2. SwapTypeOK'
    BY <1>24 DEF RollbackRemove, SwapTypeOK
  <2>3. DiskTypeOK'
    BY <1>24 DEF RollbackRemove, DiskTypeOK
  <2>4. JobTypeOK' /\ GateTypeOK' /\ StoreTypeOK' /\ AuthTypeOK' /\ HistTypeOK'
    BY <1>24 DEF RollbackRemove, JobTypeOK, GateTypeOK, StoreTypeOK, AuthTypeOK, HistTypeOK
  <2> QED
    BY <2>1, <2>2, <2>3, <2>4
<1>25. CASE RollbackRename
  <2>1. LoopTypeOK'
    BY <1>25 DEF RollbackRename, LoopTypeOK, Steps
  <2>2. SwapTypeOK'
    BY <1>25 DEF RollbackRename, SwapTypeOK
  <2>3. DiskTypeOK'
    BY <1>25 DEF RollbackRename, DiskTypeOK
  <2>4. JobTypeOK' /\ GateTypeOK' /\ StoreTypeOK' /\ AuthTypeOK' /\ HistTypeOK'
    BY <1>25 DEF RollbackRename, JobTypeOK, GateTypeOK, StoreTypeOK, AuthTypeOK, HistTypeOK
  <2> QED
    BY <2>1, <2>2, <2>3, <2>4
<1>26. CASE RollbackDone
  <2>1. JobTypeOK'
    <3>1. FinishNeedsIntervention \/ UNCHANGED job
      BY <1>26, Zenon DEF RollbackDone, End, Intervene
    <3>2. UNCHANGED <<pending, run>>
      BY <1>26 DEF RollbackDone
    <3>3. CASE FinishNeedsIntervention
      BY <3>3, <3>2 DEF JobTypeOK, Finish, FinishNeedsIntervention
    <3>4. CASE UNCHANGED job
      BY <3>4, <3>2 DEF JobTypeOK, Finish, FinishNeedsIntervention
    <3> QED
      BY <3>1, <3>3, <3>4
  <2>2. LoopTypeOK'
    BY <1>26 DEF RollbackDone, LoopTypeOK, Steps, End, Intervene, Finish, FinishNeedsIntervention, Stores
  <2>3. GateTypeOK' /\ SwapTypeOK' /\ DiskTypeOK' /\ StoreTypeOK' /\ AuthTypeOK' /\ HistTypeOK'
    BY <1>26 DEF RollbackDone, GateTypeOK, SwapTypeOK, DiskTypeOK, StoreTypeOK, AuthTypeOK, HistTypeOK
  <2> QED
    BY <2>1, <2>2, <2>3
<1>27. CASE ReopenStore
  <2>1. LoopTypeOK'
    BY <1>27 DEF ReopenStore, LoopTypeOK, Steps, Reopen, DiskTypeOK
  <2>2. StoreTypeOK'
    BY <1>27 DEF ReopenStore, StoreTypeOK, Reopen, DiskTypeOK, LoopTypeOK
  <2>3. JobTypeOK' /\ GateTypeOK' /\ SwapTypeOK' /\ DiskTypeOK' /\ AuthTypeOK' /\ HistTypeOK'
    BY <1>27 DEF ReopenStore, JobTypeOK, GateTypeOK, SwapTypeOK, DiskTypeOK, AuthTypeOK, HistTypeOK
  <2> QED
    BY <2>1, <2>2, <2>3
<1>28. CASE StoresReopened
  <2>1. JobTypeOK'
    <3>1. FinishNeedsIntervention \/ Finish(TRUE) \/ UNCHANGED job
      BY <1>28, Zenon DEF StoresReopened, End, Intervene
    <3>2. UNCHANGED <<pending, run>>
      BY <1>28 DEF StoresReopened
    <3>3. CASE FinishNeedsIntervention
      BY <3>3, <3>2 DEF JobTypeOK, Finish, FinishNeedsIntervention
    <3>4. CASE Finish(TRUE)
      BY <3>4, <3>2 DEF JobTypeOK, Finish, FinishNeedsIntervention
    <3>5. CASE UNCHANGED job
      BY <3>5, <3>2 DEF JobTypeOK, Finish, FinishNeedsIntervention
    <3> QED
      BY <3>1, <3>3, <3>4, <3>5
  <2>2. LoopTypeOK'
    BY <1>28 DEF StoresReopened, LoopTypeOK, Steps, End, Intervene, Finish, FinishNeedsIntervention
  <2>3. GateTypeOK' /\ SwapTypeOK' /\ DiskTypeOK' /\ StoreTypeOK' /\ AuthTypeOK' /\ HistTypeOK'
    BY <1>28 DEF StoresReopened, GateTypeOK, SwapTypeOK, DiskTypeOK, StoreTypeOK, AuthTypeOK, HistTypeOK
  <2> QED
    BY <2>1, <2>2, <2>3
<1>29. CASE Panic
  <2>1. JobTypeOK'
    BY <1>29 DEF Panic, JobTypeOK, End, Intervene, Finish, FinishNeedsIntervention
  <2>2. LoopTypeOK'
    BY <1>29 DEF Panic, LoopTypeOK, Steps, End, Intervene, Finish, FinishNeedsIntervention
  <2>3. GateTypeOK' /\ SwapTypeOK' /\ DiskTypeOK' /\ StoreTypeOK' /\ AuthTypeOK' /\ HistTypeOK'
    BY <1>29 DEF Panic, GateTypeOK, SwapTypeOK, DiskTypeOK, StoreTypeOK, AuthTypeOK, HistTypeOK
  <2> QED
    BY <2>1, <2>2, <2>3
<1>30. CASE LateWrite
  <2>1. DiskTypeOK'
    BY <1>30 DEF LateWrite, DiskTypeOK
  <2>2. JobTypeOK' /\ GateTypeOK' /\ LoopTypeOK' /\ SwapTypeOK' /\ StoreTypeOK' /\ AuthTypeOK' /\ HistTypeOK'
    BY <1>30 DEF LateWrite, JobTypeOK, GateTypeOK, LoopTypeOK, SwapTypeOK, StoreTypeOK, AuthTypeOK, HistTypeOK
  <2> QED
    BY <2>1, <2>2
<1>31. ASSUME NEW r \in Requests, TryEnter(r) PROVE TypeOK'
  <2>1. GateTypeOK'
    BY <1>31 DEF TryEnter, GateTypeOK
  <2>2. JobTypeOK' /\ LoopTypeOK' /\ SwapTypeOK' /\ DiskTypeOK' /\ StoreTypeOK' /\ AuthTypeOK' /\ HistTypeOK'
    BY <1>31 DEF TryEnter, JobTypeOK, LoopTypeOK, SwapTypeOK, DiskTypeOK, StoreTypeOK, AuthTypeOK, HistTypeOK
  <2> QED
    BY <2>1, <2>2
<1>32. ASSUME NEW r \in Requests, Leave(r) PROVE TypeOK'
  <2>1. GateTypeOK'
    BY <1>32 DEF Leave, GateTypeOK
  <2>2. JobTypeOK' /\ LoopTypeOK' /\ SwapTypeOK' /\ DiskTypeOK' /\ StoreTypeOK' /\ AuthTypeOK' /\ HistTypeOK'
    BY <1>32 DEF Leave, JobTypeOK, LoopTypeOK, SwapTypeOK, DiskTypeOK, StoreTypeOK, AuthTypeOK, HistTypeOK
  <2> QED
    BY <2>1, <2>2
<1>33. ASSUME NEW u \in Clients, LoginRead(u) PROVE TypeOK'
  <2>1. AuthTypeOK'
    BY <1>33 DEF LoginRead, AuthTypeOK, Stores, StoreTypeOK
  <2>2. JobTypeOK' /\ GateTypeOK' /\ LoopTypeOK' /\ SwapTypeOK' /\ DiskTypeOK' /\ StoreTypeOK' /\ HistTypeOK'
    BY <1>33 DEF LoginRead, JobTypeOK, GateTypeOK, LoopTypeOK, SwapTypeOK, DiskTypeOK, StoreTypeOK, HistTypeOK
  <2> QED
    BY <2>1, <2>2
<1>34. ASSUME NEW u \in Clients, LoginIssue(u) PROVE TypeOK'
  <2>1. AuthTypeOK'
    BY <1>34 DEF LoginIssue, AuthTypeOK
  <2>2. JobTypeOK' /\ GateTypeOK' /\ LoopTypeOK' /\ SwapTypeOK' /\ DiskTypeOK' /\ StoreTypeOK' /\ HistTypeOK'
    BY <1>34 DEF LoginIssue, JobTypeOK, GateTypeOK, LoopTypeOK, SwapTypeOK, DiskTypeOK, StoreTypeOK, HistTypeOK
  <2> QED
    BY <2>1, <2>2
<1>35. CASE Restart
  <2>1. live' \in [Items -> Content] /\ pre' \in [Items -> Content]
    BY <1>35 DEF Restart, NoCopies, DiskTypeOK
  <2>2. orphans' \subseteq Items \X Content
    BY <1>35 DEF Restart, Leftovers, DiskTypeOK
  <2>3. bound' \in [Stores -> Content] /\ cache' \in [Settings -> Content]
    BY <1>35, <2>1 DEF Restart, Stores
  <2>4. DiskTypeOK' /\ StoreTypeOK'
    BY <1>35, <2>1, <2>2, <2>3 DEF Restart, DiskTypeOK, StoreTypeOK
  <2>5. JobTypeOK' /\ GateTypeOK' /\ LoopTypeOK' /\ SwapTypeOK' /\ AuthTypeOK' /\ HistTypeOK'
    <3>1. JobTypeOK' /\ GateTypeOK'
      BY <1>35 DEF Restart, JobTypeOK, GateTypeOK
    <3>2. LoopTypeOK' /\ SwapTypeOK'
      BY <1>35 DEF Restart, LoopTypeOK, SwapTypeOK, Steps
    <3>3. AuthTypeOK'
      BY <1>35 DEF Restart, AuthTypeOK
    <3>4. HistTypeOK'
      <4>1. UNCHANGED <<base, committed>> /\ boots' = boots + 1 /\ forced' = FALSE
        BY <1>35 DEF Restart
      <4>2. base' \in [Items -> Content] /\ committed' \in BOOLEAN /\ boots' \in Nat
        BY <4>1 DEF HistTypeOK
      <4>3. forced' \in BOOLEAN
        BY <4>1, Zenon
      <4> QED
        BY <4>2, <4>3 DEF HistTypeOK
    <3> QED
      BY <3>1, <3>2, <3>3, <3>4
  <2> QED
    BY <2>4, <2>5
<1>36. CASE UNCHANGED vars
  BY <1>36 DEF vars, JobTypeOK, GateTypeOK, LoopTypeOK, SwapTypeOK, DiskTypeOK,
     StoreTypeOK, AuthTypeOK, HistTypeOK
<1> QED
  BY <1>1, <1>2, <1>3, <1>4, <1>5, <1>6, <1>7, <1>8, <1>9, <1>10, <1>11, <1>12,
     <1>13, <1>14, <1>15, <1>16, <1>17, <1>18, <1>19, <1>20, <1>21, <1>22, <1>23, <1>24,
     <1>25, <1>26, <1>27, <1>28, <1>29, <1>30, <1>31, <1>32, <1>33, <1>34, <1>35, <1>36 DEF Next, RestoreStep

-----------------------------------------------------------------------------
(***************************************************************************)
(* The inductive invariant.  It says, for every step of the goroutine, how  *)
(* far the swap or its rollback has come: which items hold what they held   *)
(* before (Undisturbed), which are swapped, and where the one item between  *)
(* two renames is.                                                          *)
(***************************************************************************)

BeforeSwap == {"stage", "resolve", "validate", "engage", "drain", "pause",
               "sidecars", "release", "recover"}
AfterSwap  == {"auth", "sessions", "stores", "reload", "commit"}
Drained    == {"pause", "sidecars", "release", "aside", "movein", "disengage",
               "rbpause", "rbremove", "rbrename", "resettle", "rbdisengage"} \union AfterSwap
Gated      == Drained \union {"drain"}

Undisturbed(i) == live[i] = base[i] /\ pre[i] = Absent
InPlace(i)     == live[i] = run /\ pre[i] = base[i]

JobInv ==
    /\ job.running <=> pc # "idle"
    /\ job.running => ~job.done /\ ~job.needs

GateInv == pc \in Gated => gate

DrainInv == pc \in Drained /\ drained => inflight = {}

StoreInv ==
    /\ pc = "pause" => \A i \in Stores \ todo : conn[i] = "suspended"
    /\ pc \in {"sidecars", "aside", "movein", "rbremove", "rbrename"} =>
          \A i \in Stores : conn[i] = "suspended"

BeforeInv ==
    pc \in BeforeSwap =>
        moved = {} /\ swapped = {} /\ ~committed /\ \A i \in Items : Undisturbed(i)

AsideInv ==
    pc = "aside" =>
        /\ ~committed
        /\ todo \subseteq staged
        /\ moved = staged \ todo
        /\ swapped = staged \ todo
        /\ \A i \in staged \ todo : InPlace(i)
        /\ \A i \in Items \ moved : Undisturbed(i)

MoveInInv ==
    pc = "movein" =>
        /\ ~committed
        /\ todo \subseteq staged
        /\ \A i \in Items : IsNext(i) => moved = (staged \ todo) \union {i}
        /\ swapped = staged \ todo
        /\ \A i \in staged \ todo : i \in moved /\ InPlace(i)
        /\ \A i \in moved : pre[i] = base[i]
        /\ \A i \in Items \ moved : Undisturbed(i)

AfterInv ==
    pc \in AfterSwap =>
        /\ ~committed
        /\ moved = staged /\ swapped = staged
        /\ \A i \in staged : InPlace(i)
        /\ \A i \in Items \ staged : Undisturbed(i)

CommittedInv ==
    pc \in {"disengage", "resync"} =>
        /\ committed
        /\ \A i \in staged : live[i] = run
        /\ \A i \in Items \ staged : live[i] = base[i]

RollbackInv ==
    /\ pc \in {"rbpause", "rbremove", "rbrename"} =>
          /\ ~committed
          /\ \A i \in moved : pre[i] = base[i]
          /\ \A i \in Items \ moved : Undisturbed(i)
    /\ pc \in {"rbremove", "rbrename"} =>
          /\ todo \subseteq moved
          /\ ~errs => moved = todo

UndoneInv ==
    pc \in {"resettle", "rbdisengage"} =>
        ~committed /\ \A i \in Items : Undisturbed(i)

IdleInv ==
    pc = "idle" /\ job.done =>
        /\ ~job.needs =>
              /\ job.failed <=> ~committed
              /\ committed => /\ \A i \in staged : live[i] = run
                              /\ \A i \in Items \ staged : live[i] = base[i]
              /\ ~committed => \A i \in Items : live[i] = base[i]
        /\ GateCoversMixedData

DataInv ==
    /\ BeforeInv /\ AsideInv /\ MoveInInv /\ AfterInv /\ CommittedInv
    /\ RollbackInv /\ UndoneInv /\ IdleInv

ControlInv == JobInv /\ GateInv /\ DrainInv /\ StoreInv

IInv == TypeOK /\ ControlInv /\ DataInv /\ NothingLost

\* Every step keeps what the program counter of runFromZipPath says of the gate,
\* of the loops and of the stores (ControlInv).
LEMMA ControlNext == TypeOK /\ ControlInv /\ [Next]_vars => ControlInv'
<1> SUFFICES ASSUME TypeOK, ControlInv, [Next]_vars PROVE ControlInv'
  OBVIOUS
<1> USE ConstantsAssumption DEF TypeOK, ControlInv, Goto
<1>1. ASSUME NEW c \in Callers, CheckIntervention(c) PROVE ControlInv'
  BY <1>1 DEF CheckIntervention, JobInv, GateInv, DrainInv, StoreInv,
     JobTypeOK, GateTypeOK, StoreTypeOK, Gated, Drained, AfterSwap
<1>2. ASSUME NEW c \in Callers, NEW entry \in {"resolve", "stage"}, Start(c, entry) PROVE ControlInv'
  BY <1>2 DEF Start, Leftovers, JobInv, GateInv, DrainInv, StoreInv,
     JobTypeOK, GateTypeOK, StoreTypeOK, Gated, Drained, AfterSwap
<1>3. ASSUME NEW c \in Callers, StartRefused(c) PROVE ControlInv'
  BY <1>3 DEF StartRefused, JobInv, GateInv, DrainInv, StoreInv,
     JobTypeOK, GateTypeOK, StoreTypeOK, Gated, Drained, AfterSwap
<1>4. CASE Prepare
  BY <1>4 DEF Prepare, End, Intervene, Finish, FinishNeedsIntervention, JobInv, GateInv, DrainInv, StoreInv,
     JobTypeOK, GateTypeOK, StoreTypeOK, Gated, Drained, AfterSwap
<1>5. CASE Validate
  BY <1>5 DEF Validate, End, Intervene, Finish, FinishNeedsIntervention, JobInv, GateInv, DrainInv, StoreInv,
     JobTypeOK, GateTypeOK, StoreTypeOK, Gated, Drained, AfterSwap
<1>6. CASE Engage
  BY <1>6 DEF Engage, JobInv, GateInv, DrainInv, StoreInv,
     JobTypeOK, GateTypeOK, StoreTypeOK, Gated, Drained, AfterSwap
<1>7. CASE Drain
  BY <1>7 DEF Drain, JobInv, GateInv, DrainInv, StoreInv,
     JobTypeOK, GateTypeOK, StoreTypeOK, Gated, Drained, AfterSwap
<1>8. CASE PauseStore
  BY <1>8 DEF PauseStore, JobInv, GateInv, DrainInv, StoreInv,
     JobTypeOK, GateTypeOK, StoreTypeOK, Gated, Drained, AfterSwap
<1>9. CASE StoresPaused
  BY <1>9 DEF StoresPaused, JobInv, GateInv, DrainInv, StoreInv,
     JobTypeOK, GateTypeOK, StoreTypeOK, Gated, Drained, AfterSwap
<1>10. CASE CleanSidecars
  BY <1>10 DEF CleanSidecars, JobInv, GateInv, DrainInv, StoreInv,
     JobTypeOK, GateTypeOK, StoreTypeOK, Gated, Drained, AfterSwap
<1>11. CASE Release
  BY <1>11 DEF Release, JobInv, GateInv, DrainInv, StoreInv,
     JobTypeOK, GateTypeOK, StoreTypeOK, Gated, Drained, AfterSwap
<1>12. CASE MoveAside
  BY <1>12 DEF MoveAside, JobInv, GateInv, DrainInv, StoreInv,
     JobTypeOK, GateTypeOK, StoreTypeOK, Gated, Drained, AfterSwap
<1>13. CASE MoveIn
  BY <1>13 DEF MoveIn, JobInv, GateInv, DrainInv, StoreInv,
     JobTypeOK, GateTypeOK, StoreTypeOK, Gated, Drained, AfterSwap
<1>14. CASE SwapDone
  BY <1>14 DEF SwapDone, JobInv, GateInv, DrainInv, StoreInv,
     JobTypeOK, GateTypeOK, StoreTypeOK, Gated, Drained, AfterSwap
<1>15. CASE ReplaceUserStore
  BY <1>15 DEF ReplaceUserStore, Reopen, JobInv, GateInv, DrainInv, StoreInv,
     JobTypeOK, GateTypeOK, StoreTypeOK, Gated, Drained, AfterSwap
<1>16. CASE InvalidateSessions
  BY <1>16 DEF InvalidateSessions, JobInv, GateInv, DrainInv, StoreInv,
     JobTypeOK, GateTypeOK, StoreTypeOK, Gated, Drained, AfterSwap
<1>17. CASE ReplaceStore
  BY <1>17 DEF ReplaceStore, Reopen, JobInv, GateInv, DrainInv, StoreInv,
     JobTypeOK, GateTypeOK, StoreTypeOK, Gated, Drained, AfterSwap
<1>18. CASE StoresReplaced
  BY <1>18 DEF StoresReplaced, JobInv, GateInv, DrainInv, StoreInv,
     JobTypeOK, GateTypeOK, StoreTypeOK, Gated, Drained, AfterSwap
<1>19. CASE ReloadSettings
  BY <1>19 DEF ReloadSettings, JobInv, GateInv, DrainInv, StoreInv,
     JobTypeOK, GateTypeOK, StoreTypeOK, Gated, Drained, AfterSwap
<1>20. CASE CommitAll
  BY <1>20 DEF CommitAll, JobInv, GateInv, DrainInv, StoreInv,
     JobTypeOK, GateTypeOK, StoreTypeOK, Gated, Drained, AfterSwap
<1>21. CASE Disengage
  BY <1>21 DEF Disengage, End, Intervene, Finish, FinishNeedsIntervention, JobInv, GateInv, DrainInv, StoreInv,
     JobTypeOK, GateTypeOK, StoreTypeOK, Gated, Drained, AfterSwap
<1>22. CASE Succeed
  BY <1>22 DEF Succeed, End, Intervene, Finish, FinishNeedsIntervention, JobInv, GateInv, DrainInv, StoreInv,
     JobTypeOK, GateTypeOK, StoreTypeOK, Gated, Drained, AfterSwap
<1>23. CASE PauseForRollback
  BY <1>23 DEF PauseForRollback, AllSuspended, Touched, JobInv, GateInv, DrainInv, StoreInv,
     JobTypeOK, GateTypeOK, StoreTypeOK, Gated, Drained, AfterSwap
<1>24. CASE RollbackRemove
  BY <1>24 DEF RollbackRemove, JobInv, GateInv, DrainInv, StoreInv,
     JobTypeOK, GateTypeOK, StoreTypeOK, Gated, Drained, AfterSwap
<1>25. CASE RollbackRename
  BY <1>25 DEF RollbackRename, JobInv, GateInv, DrainInv, StoreInv,
     JobTypeOK, GateTypeOK, StoreTypeOK, Gated, Drained, AfterSwap
<1>26. CASE RollbackDone
  BY <1>26 DEF RollbackDone, End, Intervene, Finish, FinishNeedsIntervention, JobInv, GateInv, DrainInv, StoreInv,
     JobTypeOK, GateTypeOK, StoreTypeOK, Gated, Drained, AfterSwap
<1>27. CASE ReopenStore
  BY <1>27 DEF ReopenStore, Reopen, JobInv, GateInv, DrainInv, StoreInv,
     JobTypeOK, GateTypeOK, StoreTypeOK, Gated, Drained, AfterSwap
<1>28. CASE StoresReopened
  <2>1. CASE errs /\ Intervene
    BY <1>28, <2>1 DEF StoresReopened, Intervene, FinishNeedsIntervention, JobInv, GateInv,
       DrainInv, StoreInv, Gated, Drained, AfterSwap
  <2>2. CASE ~errs /\ pc = "recover" /\ End(TRUE)
    BY <1>28, <2>2 DEF StoresReopened, End, Finish, JobInv, GateInv,
       DrainInv, StoreInv, Gated, Drained, AfterSwap, JobTypeOK
  <2>3. CASE ~errs /\ pc = "resettle" /\ Goto("rbdisengage", {}) /\ UNCHANGED job
    BY <1>28, <2>3 DEF StoresReopened, JobInv, GateInv, DrainInv, StoreInv, Gated, Drained, AfterSwap
  <2> QED
    BY <1>28, <2>1, <2>2, <2>3 DEF StoresReopened
<1>29. CASE Panic
  BY <1>29 DEF Panic, End, Intervene, Finish, FinishNeedsIntervention, JobInv, GateInv, DrainInv, StoreInv,
     JobTypeOK, GateTypeOK, StoreTypeOK, Gated, Drained, AfterSwap
<1>30. CASE LateWrite
  BY <1>30 DEF LateWrite, JobInv, GateInv, DrainInv, StoreInv,
     JobTypeOK, GateTypeOK, StoreTypeOK, Gated, Drained, AfterSwap
<1>31. ASSUME NEW r \in Requests, TryEnter(r) PROVE ControlInv'
  BY <1>31 DEF TryEnter, Admits, JobInv, GateInv, DrainInv, StoreInv,
     JobTypeOK, GateTypeOK, StoreTypeOK, Gated, Drained, AfterSwap
<1>32. ASSUME NEW r \in Requests, Leave(r) PROVE ControlInv'
  BY <1>32 DEF Leave, JobInv, GateInv, DrainInv, StoreInv,
     JobTypeOK, GateTypeOK, StoreTypeOK, Gated, Drained, AfterSwap
<1>33. ASSUME NEW u \in Clients, LoginRead(u) PROVE ControlInv'
  BY <1>33 DEF LoginRead, JobInv, GateInv, DrainInv, StoreInv,
     JobTypeOK, GateTypeOK, StoreTypeOK, Gated, Drained, AfterSwap
<1>34. ASSUME NEW u \in Clients, LoginIssue(u) PROVE ControlInv'
  BY <1>34 DEF LoginIssue, JobInv, GateInv, DrainInv, StoreInv,
     JobTypeOK, GateTypeOK, StoreTypeOK, Gated, Drained, AfterSwap
<1>35. CASE Restart
  BY <1>35 DEF Restart, JobInv, GateInv, DrainInv, StoreInv,
     JobTypeOK, GateTypeOK, StoreTypeOK, Gated, Drained, AfterSwap
<1>36. CASE UNCHANGED vars
  BY <1>36 DEF vars, JobInv, GateInv, DrainInv, StoreInv,
     JobTypeOK, GateTypeOK, StoreTypeOK, Gated, Drained, AfterSwap
<1> QED
  BY <1>1, <1>2, <1>3, <1>4, <1>5, <1>6, <1>7, <1>8, <1>9, <1>10, <1>11, <1>12,
     <1>13, <1>14, <1>15, <1>16, <1>17, <1>18, <1>19, <1>20, <1>21, <1>22, <1>23, <1>24,
     <1>25, <1>26, <1>27, <1>28, <1>29, <1>30, <1>31, <1>32, <1>33, <1>34, <1>35, <1>36 DEF Next, RestoreStep

\* If every item is what it was before the restore, so is the whole.
LEMMA LiveIsBase ==
    TypeOK /\ (\A i \in Items : live[i] = base[i]) => live = base
BY DEF TypeOK, DiskTypeOK, HistTypeOK

\* If every staged item is the restored one and the others are as they were, the
\* whole is what the restore was to give.
LEMMA LiveIsTarget ==
    TypeOK /\ (\A i \in staged : live[i] = run) /\ (\A i \in Items \ staged : live[i] = base[i])
        => live = Target
BY DEF TypeOK, DiskTypeOK, HistTypeOK, SwapTypeOK, Target

\* What DataInv is about.
dataVars == <<job, gate, pc, todo, errs, staged, moved, swapped, live, pre, run, base, committed>>

\* A step that touches no file, no loop and no job result keeps DataInv.
LEMMA DataFrame == DataInv /\ UNCHANGED dataVars => DataInv'
BY DEF dataVars, DataInv, BeforeInv, AsideInv, MoveInInv, AfterInv, CommittedInv, RollbackInv,
   UndoneInv, IdleInv, Undisturbed, InPlace, IsNext, GateCoversMixedData, Target

\* Every step keeps what each phase of SwapAll, RollbackAll and CommitAll has
\* done to the files so far (DataInv).
LEMMA DataNext == TypeOK /\ ControlInv /\ DataInv /\ [Next]_vars => DataInv'
<1> SUFFICES ASSUME TypeOK, ControlInv, DataInv, [Next]_vars PROVE DataInv'
  OBVIOUS
<1> USE ConstantsAssumption DEF TypeOK, ControlInv, DataInv, Goto
<1>1. ASSUME NEW c \in Callers, CheckIntervention(c) PROVE DataInv'
  BY <1>1, DataFrame DEF CheckIntervention, dataVars
<1>2. ASSUME NEW c \in Callers, NEW entry \in {"resolve", "stage"}, Start(c, entry) PROVE DataInv'
  BY <1>2 DEF Start, Leftovers, BeforeInv, AsideInv, MoveInInv, AfterInv, CommittedInv,
     RollbackInv, UndoneInv, IdleInv, JobInv, GateInv, JobTypeOK, LoopTypeOK, SwapTypeOK, DiskTypeOK, HistTypeOK,
     BeforeSwap, AfterSwap, Gated, Drained, Undisturbed, InPlace, NoCopies
<1>3. ASSUME NEW c \in Callers, StartRefused(c) PROVE DataInv'
  BY <1>3, DataFrame DEF StartRefused, dataVars
<1>4. CASE Prepare
  <2>1. (BeforeInv /\ AsideInv /\ MoveInInv /\ AfterInv /\ CommittedInv /\ RollbackInv /\ UndoneInv)'
    BY <1>4 DEF Prepare, End, Finish, JobTypeOK, LoopTypeOK, SwapTypeOK, DiskTypeOK, HistTypeOK, BeforeInv, AsideInv, MoveInInv, AfterInv,
       CommittedInv, RollbackInv, UndoneInv, BeforeSwap, AfterSwap, Undisturbed, InPlace
  <2>2. UNCHANGED <<live, base, staged, run, committed>>
    BY <1>4 DEF Prepare
  <2>3. IdleInv'
    <3>1. CASE pc' # "idle"
      BY <3>1 DEF IdleInv
    <3>2. CASE pc' = "idle"
      <4>1. job'.failed = TRUE /\ ~committed' /\ \A i \in Items : live'[i] = base'[i]
        <5>1. End(TRUE)
          BY <1>4, <3>2 DEF Prepare
        <5>2. job'.failed = TRUE
          BY <5>1 DEF End, Finish, JobTypeOK
        <5>3. ~committed /\ \A i \in Items : live[i] = base[i]
          BY <1>4, <3>2 DEF Prepare, BeforeInv, UndoneInv, BeforeSwap, Undisturbed
        <5> QED
          BY <5>2, <5>3, <2>2
      <4>2. live' = base'
        BY <4>1, <2>2, LiveIsBase
      <4> QED
        BY <4>1, <4>2 DEF IdleInv, GateCoversMixedData
    <3> QED
      BY <3>1, <3>2
  <2> QED
    BY <2>1, <2>3 DEF DataInv
<1>5. CASE Validate
  <2>1. (BeforeInv /\ AsideInv /\ MoveInInv /\ AfterInv /\ CommittedInv /\ RollbackInv /\ UndoneInv)'
    BY <1>5 DEF Validate, End, Finish, JobTypeOK, LoopTypeOK, SwapTypeOK, DiskTypeOK, HistTypeOK, BeforeInv, AsideInv, MoveInInv, AfterInv,
       CommittedInv, RollbackInv, UndoneInv, BeforeSwap, AfterSwap, Undisturbed, InPlace
  <2>2. UNCHANGED <<live, base, committed>>
    BY <1>5 DEF Validate
  <2>3. IdleInv'
    <3>1. CASE pc' # "idle"
      BY <3>1 DEF IdleInv
    <3>2. CASE pc' = "idle"
      <4>1. job'.failed = TRUE /\ ~committed' /\ \A i \in Items : live'[i] = base'[i]
        <5>1. End(TRUE)
          BY <1>5, <3>2 DEF Validate
        <5>2. job'.failed = TRUE
          BY <5>1 DEF End, Finish, JobTypeOK
        <5>3. ~committed /\ \A i \in Items : live[i] = base[i]
          BY <1>5, <3>2 DEF Validate, BeforeInv, UndoneInv, BeforeSwap, Undisturbed
        <5> QED
          BY <5>2, <5>3, <2>2
      <4>2. live' = base'
        BY <4>1, <2>2, LiveIsBase
      <4> QED
        BY <4>1, <4>2 DEF IdleInv, GateCoversMixedData
    <3> QED
      BY <3>1, <3>2
  <2> QED
    BY <2>1, <2>3 DEF DataInv
<1>6. CASE Engage
  BY <1>6 DEF Engage, BeforeInv, AsideInv, MoveInInv, AfterInv, CommittedInv,
     RollbackInv, UndoneInv, IdleInv, JobInv, GateInv, JobTypeOK, LoopTypeOK, SwapTypeOK, DiskTypeOK, HistTypeOK,
     BeforeSwap, AfterSwap, Gated, Drained, Undisturbed, InPlace, NoCopies
<1>7. CASE Drain
  BY <1>7 DEF Drain, BeforeInv, AsideInv, MoveInInv, AfterInv, CommittedInv,
     RollbackInv, UndoneInv, IdleInv, JobInv, GateInv, JobTypeOK, LoopTypeOK, SwapTypeOK, DiskTypeOK, HistTypeOK,
     BeforeSwap, AfterSwap, Gated, Drained, Undisturbed, InPlace, NoCopies
<1>8. CASE PauseStore
  BY <1>8 DEF PauseStore, BeforeInv, AsideInv, MoveInInv, AfterInv, CommittedInv,
     RollbackInv, UndoneInv, IdleInv, JobInv, GateInv, JobTypeOK, LoopTypeOK, SwapTypeOK, DiskTypeOK, HistTypeOK,
     BeforeSwap, AfterSwap, Gated, Drained, Undisturbed, InPlace, NoCopies
<1>9. CASE StoresPaused
  BY <1>9 DEF StoresPaused, BeforeInv, AsideInv, MoveInInv, AfterInv, CommittedInv,
     RollbackInv, UndoneInv, IdleInv, JobInv, GateInv, JobTypeOK, LoopTypeOK, SwapTypeOK, DiskTypeOK, HistTypeOK,
     BeforeSwap, AfterSwap, Gated, Drained, Undisturbed, InPlace, NoCopies
<1>10. CASE CleanSidecars
  BY <1>10 DEF CleanSidecars, BeforeInv, AsideInv, MoveInInv, AfterInv, CommittedInv,
     RollbackInv, UndoneInv, IdleInv, JobInv, GateInv, JobTypeOK, LoopTypeOK, SwapTypeOK, DiskTypeOK, HistTypeOK,
     BeforeSwap, AfterSwap, Gated, Drained, Undisturbed, InPlace, NoCopies
<1>11. CASE Release
  BY <1>11 DEF Release, BeforeInv, AsideInv, MoveInInv, AfterInv, CommittedInv,
     RollbackInv, UndoneInv, IdleInv, JobInv, GateInv, JobTypeOK, LoopTypeOK, SwapTypeOK, DiskTypeOK, HistTypeOK,
     BeforeSwap, AfterSwap, Gated, Drained, Undisturbed, InPlace, NoCopies
<1>12. CASE MoveAside
  <2>1. BeforeInv'
    BY <1>12 DEF MoveAside, GateInv, BeforeInv, BeforeSwap, JobTypeOK, LoopTypeOK, SwapTypeOK, DiskTypeOK, Undisturbed, InPlace, IsNext
  <2>2. AsideInv'
    BY <1>12 DEF MoveAside, GateInv, AsideInv, MoveInInv, JobTypeOK, LoopTypeOK, SwapTypeOK, DiskTypeOK, Undisturbed, InPlace, IsNext
  <2>3. MoveInInv'
    <3>1. CASE pc' # "movein"
      BY <3>1 DEF MoveInInv
    <3>2. CASE pc' = "movein"
      <4>1. PICK i \in todo : IsNext(i) /\ moved' = moved \union {i}
                           /\ pre' = [pre EXCEPT ![i] = live[i]]
                           /\ live' = [live EXCEPT ![i] = Absent]
        BY <1>12, <3>2 DEF MoveAside
      <4>2. todo' = todo /\ UNCHANGED <<staged, swapped, run, base, committed>>
        BY <1>12, <3>2 DEF MoveAside
      <4>3. i \in Items /\ i \notin moved /\ i \in staged
        BY <4>1, <1>12 DEF MoveAside, AsideInv, LoopTypeOK
      <4>4. \A j \in Items : IsNext(j)' => j = i
        BY <4>1, <4>2, <4>3 DEF IsNext, Items
      <4>5. pre'[i] = base[i]
        BY <4>1, <4>3, <1>12 DEF MoveAside, AsideInv, Undisturbed, DiskTypeOK
      <4>6. \A j \in Items \ {i} : pre'[j] = pre[j] /\ live'[j] = live[j]
        BY <4>1 DEF DiskTypeOK
      <4>7. moved = staged \ todo /\ todo \subseteq staged /\ ~committed /\ swapped = staged \ todo
            /\ (\A j \in staged \ todo : InPlace(j)) /\ (\A j \in Items \ moved : Undisturbed(j))
        BY <1>12 DEF MoveAside, AsideInv
      <4> QED
        BY <4>1, <4>2, <4>3, <4>4, <4>5, <4>6, <4>7 DEF MoveInInv, InPlace, Undisturbed, SwapTypeOK
    <3> QED
      BY <3>1, <3>2
  <2>4. (AfterInv /\ CommittedInv /\ UndoneInv /\ IdleInv)'
    BY <1>12 DEF MoveAside, GateInv, AfterInv, CommittedInv, UndoneInv, IdleInv, AfterSwap, JobTypeOK, LoopTypeOK, SwapTypeOK, DiskTypeOK, Undisturbed, InPlace, IsNext
  <2>5. RollbackInv'
    BY <1>12 DEF MoveAside, GateInv, RollbackInv, AsideInv, MoveInInv, JobTypeOK, LoopTypeOK, SwapTypeOK, DiskTypeOK, Undisturbed, InPlace, IsNext
  <2> QED
    BY <2>1, <2>2, <2>3, <2>4, <2>5
<1>13. CASE MoveIn
  BY <1>13 DEF MoveIn, BeforeInv, AsideInv, MoveInInv, AfterInv, CommittedInv,
     RollbackInv, UndoneInv, IdleInv, JobInv, GateInv, JobTypeOK, LoopTypeOK, SwapTypeOK, DiskTypeOK, HistTypeOK,
     BeforeSwap, AfterSwap, Gated, Drained, Undisturbed, InPlace, NoCopies
<1>14. CASE SwapDone
  BY <1>14 DEF SwapDone, BeforeInv, AsideInv, MoveInInv, AfterInv, CommittedInv,
     RollbackInv, UndoneInv, IdleInv, JobInv, GateInv, JobTypeOK, LoopTypeOK, SwapTypeOK, DiskTypeOK, HistTypeOK,
     BeforeSwap, AfterSwap, Gated, Drained, Undisturbed, InPlace, NoCopies
<1>15. CASE ReplaceUserStore
  BY <1>15 DEF ReplaceUserStore, Reopen, BeforeInv, AsideInv, MoveInInv, AfterInv, CommittedInv,
     RollbackInv, UndoneInv, IdleInv, JobInv, GateInv, JobTypeOK, LoopTypeOK, SwapTypeOK, DiskTypeOK, HistTypeOK,
     BeforeSwap, AfterSwap, Gated, Drained, Undisturbed, InPlace, NoCopies
<1>16. CASE InvalidateSessions
  BY <1>16 DEF InvalidateSessions, BeforeInv, AsideInv, MoveInInv, AfterInv, CommittedInv,
     RollbackInv, UndoneInv, IdleInv, JobInv, GateInv, JobTypeOK, LoopTypeOK, SwapTypeOK, DiskTypeOK, HistTypeOK,
     BeforeSwap, AfterSwap, Gated, Drained, Undisturbed, InPlace, NoCopies
<1>17. CASE ReplaceStore
  BY <1>17 DEF ReplaceStore, Reopen, BeforeInv, AsideInv, MoveInInv, AfterInv, CommittedInv,
     RollbackInv, UndoneInv, IdleInv, JobInv, GateInv, JobTypeOK, LoopTypeOK, SwapTypeOK, DiskTypeOK, HistTypeOK,
     BeforeSwap, AfterSwap, Gated, Drained, Undisturbed, InPlace, NoCopies
<1>18. CASE StoresReplaced
  BY <1>18 DEF StoresReplaced, BeforeInv, AsideInv, MoveInInv, AfterInv, CommittedInv,
     RollbackInv, UndoneInv, IdleInv, JobInv, GateInv, JobTypeOK, LoopTypeOK, SwapTypeOK, DiskTypeOK, HistTypeOK,
     BeforeSwap, AfterSwap, Gated, Drained, Undisturbed, InPlace, NoCopies
<1>19. CASE ReloadSettings
  BY <1>19 DEF ReloadSettings, BeforeInv, AsideInv, MoveInInv, AfterInv, CommittedInv,
     RollbackInv, UndoneInv, IdleInv, JobInv, GateInv, JobTypeOK, LoopTypeOK, SwapTypeOK, DiskTypeOK, HistTypeOK,
     BeforeSwap, AfterSwap, Gated, Drained, Undisturbed, InPlace, NoCopies
<1>20. CASE CommitAll
  BY <1>20 DEF CommitAll, BeforeInv, AsideInv, MoveInInv, AfterInv, CommittedInv,
     RollbackInv, UndoneInv, IdleInv, JobInv, GateInv, JobTypeOK, LoopTypeOK, SwapTypeOK, DiskTypeOK, HistTypeOK,
     BeforeSwap, AfterSwap, Gated, Drained, Undisturbed, InPlace, NoCopies
<1>21. CASE Disengage
  <2>1. (BeforeInv /\ AsideInv /\ MoveInInv /\ AfterInv /\ CommittedInv /\ RollbackInv /\ UndoneInv)'
    BY <1>21 DEF Disengage, End, Finish, JobTypeOK, LoopTypeOK, SwapTypeOK, DiskTypeOK, HistTypeOK, BeforeInv, AsideInv, MoveInInv, AfterInv,
       CommittedInv, RollbackInv, UndoneInv, BeforeSwap, AfterSwap, Undisturbed, InPlace
  <2>2. UNCHANGED <<live, base, staged, run, committed>>
    BY <1>21 DEF Disengage
  <2>3. IdleInv'
    <3>1. CASE pc' # "idle"
      BY <3>1 DEF IdleInv
    <3>2. CASE pc' = "idle"
      <4>1. job'.failed = TRUE /\ ~committed' /\ \A i \in Items : live'[i] = base'[i]
        <5>1. End(TRUE)
          BY <1>21, <3>2 DEF Disengage
        <5>2. job'.failed = TRUE
          BY <5>1 DEF End, Finish, JobTypeOK
        <5>3. ~committed /\ \A i \in Items : live[i] = base[i]
          BY <1>21, <3>2 DEF Disengage, BeforeInv, UndoneInv, BeforeSwap, Undisturbed
        <5> QED
          BY <5>2, <5>3, <2>2
      <4>2. live' = base'
        BY <4>1, <2>2, LiveIsBase
      <4> QED
        BY <4>1, <4>2 DEF IdleInv, GateCoversMixedData
    <3> QED
      BY <3>1, <3>2
  <2> QED
    BY <2>1, <2>3 DEF DataInv
<1>22. CASE Succeed
  <2>1. live = Target
    BY <1>22, LiveIsTarget DEF Succeed, CommittedInv
  <2>2. Target' = Target
    BY <1>22 DEF Succeed, Target
  <2>3. IdleInv'
    BY <1>22, <2>1, <2>2 DEF Succeed, End, Finish, JobTypeOK, IdleInv, GateCoversMixedData, CommittedInv
  <2> QED
    BY <1>22, <2>3 DEF Succeed, End, BeforeInv, AsideInv, MoveInInv, AfterInv,
       CommittedInv, RollbackInv, UndoneInv, BeforeSwap, AfterSwap, Undisturbed, InPlace
<1>23. CASE PauseForRollback
  BY <1>23 DEF PauseForRollback, AllSuspended, Touched, BeforeInv, AsideInv, MoveInInv, AfterInv, CommittedInv,
     RollbackInv, UndoneInv, IdleInv, JobInv, GateInv, JobTypeOK, LoopTypeOK, SwapTypeOK, DiskTypeOK, HistTypeOK,
     BeforeSwap, AfterSwap, Gated, Drained, Undisturbed, InPlace, NoCopies
<1>24. CASE RollbackRemove
  <2>1. BeforeInv'
    BY <1>24 DEF RollbackRemove, GateInv, BeforeInv, BeforeSwap, JobTypeOK, LoopTypeOK, SwapTypeOK, DiskTypeOK, Undisturbed, InPlace, IsNext
  <2>2. AsideInv'
    BY <1>24 DEF RollbackRemove, GateInv, AsideInv, MoveInInv, JobTypeOK, LoopTypeOK, SwapTypeOK, DiskTypeOK, Undisturbed, InPlace, IsNext
  <2>3. MoveInInv'
    BY <1>24 DEF RollbackRemove, GateInv, MoveInInv, AsideInv, RollbackInv, JobTypeOK, LoopTypeOK, SwapTypeOK, DiskTypeOK, Undisturbed, InPlace, IsNext
  <2>4. (AfterInv /\ CommittedInv /\ UndoneInv /\ IdleInv)'
    BY <1>24 DEF RollbackRemove, GateInv, AfterInv, CommittedInv, UndoneInv, IdleInv, AfterSwap, JobTypeOK, LoopTypeOK, SwapTypeOK, DiskTypeOK, Undisturbed, InPlace, IsNext
  <2>5. RollbackInv'
    <3>1. PICK i \in todo :
            \/ /\ live' = [live EXCEPT ![i] = Absent] /\ UNCHANGED errs
               /\ pre[i] = Absent /\ moved' = moved \ {i} /\ todo' = todo \ {i} /\ UNCHANGED pc
            \/ /\ live' = [live EXCEPT ![i] = Absent] /\ UNCHANGED errs
               /\ pc' = "rbrename" /\ UNCHANGED <<moved, todo>>
            \/ /\ \E c \in {live[i], Empty} : live' = [live EXCEPT ![i] = c]
               /\ errs' = TRUE /\ todo' = todo \ {i} /\ UNCHANGED <<pc, moved>>
      BY <1>24 DEF RollbackRemove
    <3>2. /\ pc = "rbremove" /\ i \in moved /\ i \in Items /\ ~committed
          /\ todo \subseteq moved /\ (~errs => moved = todo)
          /\ \A j \in moved : pre[j] = base[j]
          /\ \A j \in Items \ moved : live[j] = base[j] /\ pre[j] = Absent
          /\ moved \subseteq Items /\ live \in [Items -> Content] /\ base \in [Items -> Content]
          /\ UNCHANGED <<pre, base, committed>>
      BY <1>24, <3>1 DEF RollbackRemove, RollbackInv, SwapTypeOK, DiskTypeOK, HistTypeOK, Undisturbed
    <3>3. CASE /\ live' = [live EXCEPT ![i] = Absent] /\ UNCHANGED errs
               /\ pre[i] = Absent /\ moved' = moved \ {i} /\ todo' = todo \ {i} /\ UNCHANGED pc
      BY <3>2, <3>3 DEF RollbackInv, Undisturbed
    <3>4. CASE /\ live' = [live EXCEPT ![i] = Absent] /\ UNCHANGED errs
               /\ pc' = "rbrename" /\ UNCHANGED <<moved, todo>>
      BY <3>2, <3>4 DEF RollbackInv, Undisturbed
    <3>5. CASE /\ \E c \in {live[i], Empty} : live' = [live EXCEPT ![i] = c]
               /\ errs' = TRUE /\ todo' = todo \ {i} /\ UNCHANGED <<pc, moved>>
      BY <3>2, <3>5 DEF RollbackInv, Undisturbed
    <3> QED
      BY <3>1, <3>3, <3>4, <3>5
  <2> QED
    BY <2>1, <2>2, <2>3, <2>4, <2>5
<1>25. CASE RollbackRename
  BY <1>25 DEF RollbackRename, BeforeInv, AsideInv, MoveInInv, AfterInv, CommittedInv,
     RollbackInv, UndoneInv, IdleInv, JobInv, GateInv, JobTypeOK, LoopTypeOK, SwapTypeOK, DiskTypeOK, HistTypeOK,
     BeforeSwap, AfterSwap, Gated, Drained, Undisturbed, InPlace, NoCopies
<1>26. CASE RollbackDone
  <2>2. UNCHANGED <<live, base, staged, run, committed, pre, moved, swapped, gate>>
    BY <1>26 DEF RollbackDone
  <2>5. CASE errs /\ Intervene
    BY <1>26, <2>5, <2>2 DEF RollbackDone, Intervene, FinishNeedsIntervention, GateCoversMixedData, IdleInv, GateInv, Gated, Drained, BeforeInv, AsideInv, MoveInInv, AfterInv,
       CommittedInv, RollbackInv, UndoneInv, BeforeSwap, AfterSwap, Undisturbed, InPlace
  <2>6. CASE ~errs /\ Goto("resettle", Stores) /\ UNCHANGED job
    BY <1>26, <2>6, <2>2 DEF RollbackDone, IdleInv, BeforeInv, AsideInv, MoveInInv, AfterInv,
       CommittedInv, RollbackInv, UndoneInv, BeforeSwap, AfterSwap, Undisturbed, InPlace
  <2> QED
    BY <1>26, <2>5, <2>6 DEF RollbackDone
<1>27. CASE ReopenStore
  BY <1>27 DEF ReopenStore, Reopen, BeforeInv, AsideInv, MoveInInv, AfterInv, CommittedInv,
     RollbackInv, UndoneInv, IdleInv, JobInv, GateInv, JobTypeOK, LoopTypeOK, SwapTypeOK, DiskTypeOK, HistTypeOK,
     BeforeSwap, AfterSwap, Gated, Drained, Undisturbed, InPlace, NoCopies
<1>28. CASE StoresReopened
  <2>2. UNCHANGED <<live, base, staged, run, committed, pre, moved, swapped, gate>>
    BY <1>28 DEF StoresReopened
  <2>3. \A i \in Items : Undisturbed(i)
    BY <1>28 DEF StoresReopened, BeforeInv, BeforeSwap, UndoneInv
  <2>4. live = base /\ ~committed
    BY <1>28, <2>3, LiveIsBase DEF StoresReopened, BeforeInv, BeforeSwap, UndoneInv, Undisturbed
  <2>5. CASE errs /\ Intervene
    BY <2>5, <2>2, <2>3, <2>4 DEF Intervene, FinishNeedsIntervention, GateCoversMixedData, IdleInv, BeforeInv, AsideInv, MoveInInv, AfterInv,
       CommittedInv, RollbackInv, UndoneInv, BeforeSwap, AfterSwap, Undisturbed, InPlace
  <2>6. CASE ~errs /\ pc = "recover" /\ End(TRUE)
    BY <2>6, <2>2, <2>3, <2>4 DEF End, Finish, JobTypeOK, GateCoversMixedData, IdleInv, BeforeInv, AsideInv, MoveInInv, AfterInv,
       CommittedInv, RollbackInv, UndoneInv, BeforeSwap, AfterSwap, Undisturbed, InPlace
  <2>7. CASE ~errs /\ pc = "resettle" /\ Goto("rbdisengage", {}) /\ UNCHANGED job
    BY <2>7, <2>2, <2>3, <2>4 DEF IdleInv, BeforeInv, AsideInv, MoveInInv, AfterInv,
       CommittedInv, RollbackInv, UndoneInv, BeforeSwap, AfterSwap, Undisturbed, InPlace
  <2> QED
    BY <1>28, <2>5, <2>6, <2>7 DEF StoresReopened
<1>29. CASE Panic
  <2>1. (BeforeInv /\ AsideInv /\ MoveInInv /\ AfterInv /\ CommittedInv /\ RollbackInv /\ UndoneInv)'
    BY <1>29 DEF Panic, Intervene, FinishNeedsIntervention, JobTypeOK, LoopTypeOK, SwapTypeOK, DiskTypeOK, HistTypeOK, BeforeInv, AsideInv, MoveInInv, AfterInv,
       CommittedInv, RollbackInv, UndoneInv, BeforeSwap, AfterSwap, Undisturbed, InPlace
  <2>2. UNCHANGED <<live, base, staged, run, committed>>
    BY <1>29 DEF Panic
  <2>3. IdleInv'
    <3>1. job'.needs = TRUE /\ job'.done = TRUE /\ gate' = gate
      BY <1>29 DEF Panic, Intervene, FinishNeedsIntervention
    <3>2. CASE pc \in Gated
      BY <3>1, <3>2 DEF IdleInv, GateCoversMixedData, GateInv
    <3>3. CASE pc \in {"stage", "resolve", "validate", "engage", "recover"}
      BY <3>1, <3>3, <2>2, LiveIsBase DEF IdleInv, GateCoversMixedData, BeforeInv, BeforeSwap, Undisturbed
    <3>4. CASE pc = "resync"
      BY <3>1, <3>4, <2>2, LiveIsTarget DEF IdleInv, GateCoversMixedData, CommittedInv, Target
    <3> QED
      BY <1>29, <3>2, <3>3, <3>4 DEF Panic, LoopTypeOK, Steps, Gated, Drained, AfterSwap
  <2> QED
    BY <2>1, <2>3 DEF DataInv
<1>30. CASE LateWrite
  <2>1. BeforeInv'
    BY <1>30 DEF LateWrite, GateInv, BeforeInv, BeforeSwap, JobTypeOK, LoopTypeOK, SwapTypeOK, DiskTypeOK, Undisturbed, InPlace, IsNext
  <2>2. AsideInv'
    BY <1>30 DEF LateWrite, GateInv, AsideInv, MoveInInv, JobTypeOK, LoopTypeOK, SwapTypeOK, DiskTypeOK, Undisturbed, InPlace, IsNext
  <2>3. MoveInInv'
    BY <1>30 DEF LateWrite, GateInv, MoveInInv, AsideInv, RollbackInv, JobTypeOK, LoopTypeOK, SwapTypeOK, DiskTypeOK, Undisturbed, InPlace, IsNext
  <2>4. (AfterInv /\ CommittedInv /\ UndoneInv /\ IdleInv)'
    BY <1>30 DEF LateWrite, GateInv, AfterInv, CommittedInv, UndoneInv, IdleInv, AfterSwap, JobTypeOK, LoopTypeOK, SwapTypeOK, DiskTypeOK, Undisturbed, InPlace, IsNext
  <2>5. RollbackInv'
    BY <1>30 DEF LateWrite, GateInv, RollbackInv, AsideInv, MoveInInv, JobTypeOK, LoopTypeOK, SwapTypeOK, DiskTypeOK, Undisturbed, InPlace, IsNext
  <2> QED
    BY <2>1, <2>2, <2>3, <2>4, <2>5
<1>31. ASSUME NEW r \in Requests, TryEnter(r) PROVE DataInv'
  BY <1>31, DataFrame DEF TryEnter, dataVars
<1>32. ASSUME NEW r \in Requests, Leave(r) PROVE DataInv'
  BY <1>32, DataFrame DEF Leave, dataVars
<1>33. ASSUME NEW u \in Clients, LoginRead(u) PROVE DataInv'
  BY <1>33, DataFrame DEF LoginRead, dataVars
<1>34. ASSUME NEW u \in Clients, LoginIssue(u) PROVE DataInv'
  BY <1>34, DataFrame DEF LoginIssue, dataVars
<1>35. CASE Restart
  BY <1>35 DEF Restart, BeforeInv, AsideInv, MoveInInv, AfterInv, CommittedInv,
     RollbackInv, UndoneInv, IdleInv, JobInv, GateInv, JobTypeOK, LoopTypeOK, SwapTypeOK, DiskTypeOK, HistTypeOK,
     BeforeSwap, AfterSwap, Gated, Drained, Undisturbed, InPlace, NoCopies
<1>36. CASE UNCHANGED vars
  BY <1>36, DataFrame DEF vars, dataVars
<1> QED
  BY <1>1, <1>2, <1>3, <1>4, <1>5, <1>6, <1>7, <1>8, <1>9, <1>10, <1>11, <1>12,
     <1>13, <1>14, <1>15, <1>16, <1>17, <1>18, <1>19, <1>20, <1>21, <1>22, <1>23, <1>24,
     <1>25, <1>26, <1>27, <1>28, <1>29, <1>30, <1>31, <1>32, <1>33, <1>34, <1>35, <1>36 DEF Next, RestoreStep

\* No step of a swap, a rollback or a crash loses an original (NothingLost).
LEMMA LostNext == TypeOK /\ DataInv /\ NothingLost /\ [Next]_vars => NothingLost'
<1> SUFFICES ASSUME TypeOK, DataInv, NothingLost, [Next]_vars PROVE NothingLost'
  OBVIOUS
<1> USE ConstantsAssumption DEF TypeOK, DataInv, Goto
<1>1. ASSUME NEW c \in Callers, CheckIntervention(c) PROVE NothingLost'
  BY <1>1 DEF CheckIntervention, NothingLost
<1>2. ASSUME NEW c \in Callers, NEW entry \in {"resolve", "stage"}, Start(c, entry) PROVE NothingLost'
  BY <1>2 DEF Start, NothingLost, DiskTypeOK
<1>3. ASSUME NEW c \in Callers, StartRefused(c) PROVE NothingLost'
  BY <1>3 DEF StartRefused, NothingLost
<1>4. CASE Prepare
  BY <1>4 DEF Prepare, NothingLost
<1>5. CASE Validate
  BY <1>5 DEF Validate, NothingLost
<1>6. CASE Engage
  BY <1>6 DEF Engage, NothingLost
<1>7. CASE Drain
  BY <1>7 DEF Drain, NothingLost
<1>8. CASE PauseStore
  BY <1>8 DEF PauseStore, NothingLost
<1>9. CASE StoresPaused
  BY <1>9 DEF StoresPaused, NothingLost
<1>10. CASE CleanSidecars
  BY <1>10 DEF CleanSidecars, NothingLost
<1>11. CASE Release
  BY <1>11 DEF Release, NothingLost
<1>12. CASE MoveAside
  BY <1>12 DEF MoveAside, NothingLost, AsideInv, Undisturbed, DiskTypeOK, LoopTypeOK
<1>13. CASE MoveIn
  BY <1>13 DEF MoveIn, NothingLost, MoveInInv, Undisturbed, InPlace, DiskTypeOK, LoopTypeOK
<1>14. CASE SwapDone
  BY <1>14 DEF SwapDone, NothingLost
<1>15. CASE ReplaceUserStore
  BY <1>15 DEF ReplaceUserStore, NothingLost
<1>16. CASE InvalidateSessions
  BY <1>16 DEF InvalidateSessions, NothingLost
<1>17. CASE ReplaceStore
  BY <1>17 DEF ReplaceStore, NothingLost
<1>18. CASE StoresReplaced
  BY <1>18 DEF StoresReplaced, NothingLost
<1>19. CASE ReloadSettings
  BY <1>19 DEF ReloadSettings, NothingLost
<1>20. CASE CommitAll
  BY <1>20 DEF CommitAll, NothingLost
<1>21. CASE Disengage
  BY <1>21 DEF Disengage, NothingLost
<1>22. CASE Succeed
  BY <1>22 DEF Succeed, NothingLost
<1>23. CASE PauseForRollback
  BY <1>23 DEF PauseForRollback, NothingLost
<1>24. CASE RollbackRemove
  BY <1>24 DEF RollbackRemove, NothingLost, RollbackInv, Undisturbed, DiskTypeOK
<1>25. CASE RollbackRename
  BY <1>25 DEF RollbackRename, NothingLost, RollbackInv, Undisturbed, DiskTypeOK, LoopTypeOK
<1>26. CASE RollbackDone
  BY <1>26 DEF RollbackDone, NothingLost
<1>27. CASE ReopenStore
  BY <1>27 DEF ReopenStore, NothingLost
<1>28. CASE StoresReopened
  BY <1>28 DEF StoresReopened, NothingLost
<1>29. CASE Panic
  BY <1>29 DEF Panic, NothingLost
<1>30. CASE LateWrite
  BY <1>30 DEF LateWrite, NothingLost, MoveInInv, RollbackInv, Undisturbed, DiskTypeOK
<1>31. ASSUME NEW r \in Requests, TryEnter(r) PROVE NothingLost'
  BY <1>31 DEF TryEnter, NothingLost
<1>32. ASSUME NEW r \in Requests, Leave(r) PROVE NothingLost'
  BY <1>32 DEF Leave, NothingLost
<1>33. ASSUME NEW u \in Clients, LoginRead(u) PROVE NothingLost'
  BY <1>33 DEF LoginRead, NothingLost
<1>34. ASSUME NEW u \in Clients, LoginIssue(u) PROVE NothingLost'
  BY <1>34 DEF LoginIssue, NothingLost
<1>35. CASE Restart
  BY <1>35 DEF Restart, NothingLost, Leftovers, DiskTypeOK, HistTypeOK
<1>36. CASE UNCHANGED vars
  BY <1>36 DEF vars, NothingLost
<1> QED
  BY <1>1, <1>2, <1>3, <1>4, <1>5, <1>6, <1>7, <1>8, <1>9, <1>10, <1>11, <1>12,
     <1>13, <1>14, <1>15, <1>16, <1>17, <1>18, <1>19, <1>20, <1>21, <1>22, <1>23, <1>24,
     <1>25, <1>26, <1>27, <1>28, <1>29, <1>30, <1>31, <1>32, <1>33, <1>34, <1>35, <1>36 DEF Next, RestoreStep

-----------------------------------------------------------------------------

\* The inductive invariant: types, control, what has been done to the files, and
\* that no original is lost.
THEOREM Invariance == Spec => []IInv
<1>1. Init => IInv
  <2> SUFFICES ASSUME Init PROVE IInv
    OBVIOUS
  <2>1. TypeOK
    BY TypeInit
  <2>2. ControlInv
    BY DEF Init, ControlInv, JobInv, GateInv, DrainInv, StoreInv, Gated, Drained, AfterSwap
  <2>3. DataInv
    BY DEF Init, DataInv, BeforeInv, AsideInv, MoveInInv, AfterInv, CommittedInv, RollbackInv,
       UndoneInv, IdleInv, BeforeSwap, AfterSwap
  <2>4. NothingLost
    BY DEF Init, NothingLost
  <2> QED
    BY <2>1, <2>2, <2>3, <2>4 DEF IInv
<1>2. IInv /\ [Next]_vars => IInv'
  BY TypeNext, ControlNext, DataNext, LostNext DEF IInv
<1> QED
  BY <1>1, <1>2, PTL DEF Spec

\* The state stays well typed: every loop visits items of swapNames only, and
\* every store is bound to a content an item can have.
THEOREM TypeSafe == Spec => []TypeOK
BY Invariance, PTL DEF IInv

\* A restore that needs no intervention restores every staged item or none
\* (SwapAll, RollbackAll, CommitAll), whatever failed and whoever raced it.
THEOREM SwapIsAllOrNothing == Spec => []AllOrNothing
<1>1. IInv => AllOrNothing
  <2> SUFFICES ASSUME IInv, job.done, ~job.needs
               PROVE  job.failed = ~committed /\ live = IF committed THEN Target ELSE base
    BY DEF AllOrNothing
  <2>1. pc = "idle"
    BY DEF IInv, ControlInv, JobInv
  <2>2. job.failed = ~committed
    BY <2>1 DEF IInv, DataInv, IdleInv, TypeOK, JobTypeOK, HistTypeOK
  <2>3. CASE committed
    BY <2>1, <2>3, <2>2, LiveIsTarget DEF IInv, DataInv, IdleInv
  <2>4. CASE ~committed
    BY <2>1, <2>4, <2>2, LiveIsBase DEF IInv, DataInv, IdleInv
  <2> QED
    BY <2>2, <2>3, <2>4
<1> QED
  BY <1>1, Invariance, PTL

\* Whenever live data is a mix of old and restored items, the write gate is
\* engaged (Manager.runFromZipPath, rollbackOrIntervene).
THEOREM MixedDataIsGated == Spec => []GateCoversMixedData
<1>1. IInv => GateCoversMixedData
  <2> SUFFICES ASSUME IInv PROVE GateCoversMixedData
    OBVIOUS
  <2> USE DEF IInv, ControlInv, DataInv
  <2>1. CASE pc \in Gated
    BY <2>1 DEF GateInv, GateCoversMixedData
  <2>2. CASE pc \in {"stage", "resolve", "validate", "engage", "recover"}
    BY <2>2, LiveIsBase DEF BeforeInv, BeforeSwap, Undisturbed, GateCoversMixedData
  <2>3. CASE pc = "resync"
    BY <2>3, LiveIsTarget DEF CommittedInv, GateCoversMixedData
  <2>4. CASE pc = "idle"
    BY <2>4 DEF IdleInv, JobInv, GateCoversMixedData
  <2> QED
    BY <2>1, <2>2, <2>3, <2>4 DEF TypeOK, LoopTypeOK, Steps, Gated, Drained, AfterSwap
<1> QED
  BY <1>1, Invariance, PTL

\* Until CommitAll, a crash or a failure at any step leaves the original of
\* every item on disk.
THEOREM OriginalsKept == Spec => []NothingLost
BY Invariance, PTL DEF IInv

\* No store holds a file open while SwapAll or RollbackAll renames files.
THEOREM RenamesUnopenedFiles == Spec => []HandlesReleased
<1>1. IInv => HandlesReleased
  BY DEF IInv, ControlInv, StoreInv, HandlesReleased, Swapping
<1> QED
  BY <1>1, Invariance, PTL

\* Unless the drain timed out, no mutating request runs while files are renamed.
THEOREM DrainExcludesWriters == Spec => []NoWriterWhileSwapping
<1>1. IInv => NoWriterWhileSwapping
  BY DEF IInv, ControlInv, DrainInv, NoWriterWhileSwapping, Swapping, Drained
<1> QED
  BY <1>1, Invariance, PTL

\* At no moment of a restore is data lost or mixed data open to writes, is a
\* file renamed under a store, or a writer admitted that the drain waits for.
THEOREM NoStepIsUnsafe == Spec => []SwapIsSafe
<1>1. TypeOK /\ GateCoversMixedData /\ NothingLost /\ HandlesReleased /\ NoWriterWhileSwapping => SwapIsSafe
  BY DEF SwapIsSafe
<1> QED
  BY <1>1, TypeSafe, MixedDataIsGated, OriginalsKept, RenamesUnopenedFiles, DrainExcludesWriters, PTL

-----------------------------------------------------------------------------

\* Where removeStaleWALSidecars has been run for every staged database.
Cleaned == {"aside", "movein", "rbpause", "rbremove", "rbrename"} \union AfterSwap

LogInv ==
    /\ NoForeignLog
    /\ pc \in Cleaned => wal \intersect staged = {} /\ moved \subseteq staged

\* A staged database has no log left when it is moved in, and the rollback puts
\* back only what was staged.
LEMMA LogNext == TypeOK /\ DataInv /\ LogInv /\ [Next]_vars => LogInv'
<1> SUFFICES ASSUME TypeOK, DataInv, LogInv, [Next]_vars PROVE LogInv'
  OBVIOUS
<1> USE ConstantsAssumption DEF TypeOK, DataInv, Goto, LogInv, NoForeignLog, Cleaned, AfterSwap
<1>1. ASSUME NEW c \in Callers, CheckIntervention(c) PROVE LogInv'
  BY <1>1 DEF CheckIntervention
<1>2. ASSUME NEW c \in Callers, NEW entry \in {"resolve", "stage"}, Start(c, entry) PROVE LogInv'
  BY <1>2 DEF Start
<1>3. ASSUME NEW c \in Callers, StartRefused(c) PROVE LogInv'
  BY <1>3 DEF StartRefused
<1>4. CASE Prepare
  BY <1>4 DEF Prepare, End, Intervene, Finish, FinishNeedsIntervention
<1>5. CASE Validate
  BY <1>5 DEF Validate, End, Intervene, Finish, FinishNeedsIntervention
<1>6. CASE Engage
  BY <1>6 DEF Engage
<1>7. CASE Drain
  BY <1>7 DEF Drain
<1>8. CASE PauseStore
  BY <1>8 DEF PauseStore
<1>9. CASE StoresPaused
  BY <1>9 DEF StoresPaused
<1>10. CASE CleanSidecars
  BY <1>10 DEF CleanSidecars, DiskTypeOK, BeforeInv, BeforeSwap
<1>11. CASE Release
  BY <1>11 DEF Release
<1>12. CASE MoveAside
  BY <1>12 DEF MoveAside, AsideInv, DiskTypeOK, LoopTypeOK
<1>13. CASE MoveIn
  BY <1>13 DEF MoveIn, MoveInInv, DiskTypeOK, LoopTypeOK
<1>14. CASE SwapDone
  BY <1>14 DEF SwapDone
<1>15. CASE ReplaceUserStore
  BY <1>15 DEF ReplaceUserStore
<1>16. CASE InvalidateSessions
  BY <1>16 DEF InvalidateSessions
<1>17. CASE ReplaceStore
  BY <1>17 DEF ReplaceStore
<1>18. CASE StoresReplaced
  BY <1>18 DEF StoresReplaced
<1>19. CASE ReloadSettings
  BY <1>19 DEF ReloadSettings
<1>20. CASE CommitAll
  BY <1>20 DEF CommitAll
<1>21. CASE Disengage
  BY <1>21 DEF Disengage, End, Intervene, Finish, FinishNeedsIntervention
<1>22. CASE Succeed
  BY <1>22 DEF Succeed, End, Intervene, Finish, FinishNeedsIntervention
<1>23. CASE PauseForRollback
  BY <1>23 DEF PauseForRollback
<1>24. CASE RollbackRemove
  BY <1>24 DEF RollbackRemove, DiskTypeOK
<1>25. CASE RollbackRename
  BY <1>25 DEF RollbackRename, RollbackInv, DiskTypeOK, LoopTypeOK
<1>26. CASE RollbackDone
  BY <1>26 DEF RollbackDone, End, Intervene, Finish, FinishNeedsIntervention
<1>27. CASE ReopenStore
  BY <1>27 DEF ReopenStore
<1>28. CASE StoresReopened
  BY <1>28 DEF StoresReopened, End, Intervene, Finish, FinishNeedsIntervention
<1>29. CASE Panic
  BY <1>29 DEF Panic, End, Intervene, Finish, FinishNeedsIntervention
<1>30. CASE LateWrite
  BY <1>30 DEF LateWrite, DiskTypeOK
<1>31. ASSUME NEW r \in Requests, TryEnter(r) PROVE LogInv'
  BY <1>31 DEF TryEnter
<1>32. ASSUME NEW r \in Requests, Leave(r) PROVE LogInv'
  BY <1>32 DEF Leave
<1>33. ASSUME NEW u \in Clients, LoginRead(u) PROVE LogInv'
  BY <1>33 DEF LoginRead
<1>34. ASSUME NEW u \in Clients, LoginIssue(u) PROVE LogInv'
  BY <1>34 DEF LoginIssue
<1>35. CASE Restart
  BY <1>35 DEF Restart, DiskTypeOK
<1>36. CASE UNCHANGED vars
  BY <1>36 DEF vars
<1> QED
  BY <1>1, <1>2, <1>3, <1>4, <1>5, <1>6, <1>7, <1>8, <1>9, <1>10, <1>11, <1>12,
     <1>13, <1>14, <1>15, <1>16, <1>17, <1>18, <1>19, <1>20, <1>21, <1>22, <1>23, <1>24,
     <1>25, <1>26, <1>27, <1>28, <1>29, <1>30, <1>31, <1>32, <1>33, <1>34, <1>35, <1>36 DEF Next, RestoreStep

\* The accounts that sessions and logins are for, from InvalidateAllSessions on.
Renewed ==
    \/ pc \in {"stores", "reload", "commit", "disengage", "resync"}
    \/ pc = "idle" /\ job.done /\ ~job.failed

AccountInv ==
    /\ pc \in BeforeSwap \union {"aside", "movein", "auth", "sessions"} => spared = Clients
    /\ pc = "sessions" => bound[UsersDB] = live[UsersDB]
    /\ Renewed =>
         /\ bound[UsersDB] = live[UsersDB]
         /\ \A s \in sessions \union login : s[2] = live[UsersDB] \/ s[1] \in spared

\* Once the sessions are revoked, whoever logs in reads the restored users.db.
LEMMA AccountNext == TypeOK /\ JobInv /\ AccountInv /\ [Next]_vars => AccountInv'
<1> SUFFICES ASSUME TypeOK, JobInv, AccountInv, [Next]_vars PROVE AccountInv'
  OBVIOUS
<1>0. UsersDB \in Stores /\ UsersDB \in Items /\ UsersDB \notin Dirs
  BY ConstantsAssumption DEF Stores
<1> USE <1>0 DEF TypeOK, JobInv, Goto, AccountInv, Renewed, BeforeSwap
<1>1. ASSUME NEW c \in Callers, CheckIntervention(c) PROVE AccountInv'
  BY <1>1 DEF CheckIntervention, StoreTypeOK, DiskTypeOK, LoopTypeOK, JobTypeOK
<1>2. ASSUME NEW c \in Callers, NEW entry \in {"resolve", "stage"}, Start(c, entry) PROVE AccountInv'
  BY <1>2 DEF Start, StoreTypeOK, DiskTypeOK, LoopTypeOK, JobTypeOK
<1>3. ASSUME NEW c \in Callers, StartRefused(c) PROVE AccountInv'
  BY <1>3 DEF StartRefused, StoreTypeOK, DiskTypeOK, LoopTypeOK, JobTypeOK
<1>4. CASE Prepare
  BY <1>4 DEF Prepare, End, Intervene, Finish, FinishNeedsIntervention, StoreTypeOK, DiskTypeOK, LoopTypeOK, JobTypeOK
<1>5. CASE Validate
  BY <1>5 DEF Validate, End, Intervene, Finish, FinishNeedsIntervention, StoreTypeOK, DiskTypeOK, LoopTypeOK, JobTypeOK
<1>6. CASE Engage
  BY <1>6 DEF Engage, StoreTypeOK, DiskTypeOK, LoopTypeOK, JobTypeOK
<1>7. CASE Drain
  BY <1>7 DEF Drain, StoreTypeOK, DiskTypeOK, LoopTypeOK, JobTypeOK
<1>8. CASE PauseStore
  BY <1>8 DEF PauseStore, StoreTypeOK, DiskTypeOK, LoopTypeOK, JobTypeOK
<1>9. CASE StoresPaused
  BY <1>9 DEF StoresPaused, StoreTypeOK, DiskTypeOK, LoopTypeOK, JobTypeOK
<1>10. CASE CleanSidecars
  BY <1>10 DEF CleanSidecars, StoreTypeOK, DiskTypeOK, LoopTypeOK, JobTypeOK
<1>11. CASE Release
  BY <1>11 DEF Release, StoreTypeOK, DiskTypeOK, LoopTypeOK, JobTypeOK
<1>12. CASE MoveAside
  BY <1>12 DEF MoveAside, StoreTypeOK, DiskTypeOK, LoopTypeOK, JobTypeOK
<1>13. CASE MoveIn
  BY <1>13 DEF MoveIn, StoreTypeOK, DiskTypeOK, LoopTypeOK, JobTypeOK
<1>14. CASE SwapDone
  BY <1>14 DEF SwapDone, StoreTypeOK, DiskTypeOK, LoopTypeOK, JobTypeOK
<1>15. CASE ReplaceUserStore
  BY <1>15 DEF ReplaceUserStore, Reopen, StoreTypeOK
<1>16. CASE InvalidateSessions
  BY <1>16 DEF InvalidateSessions, AuthTypeOK
<1>17. CASE ReplaceStore
  BY <1>17 DEF ReplaceStore, Reopen, StoreTypeOK
<1>18. CASE StoresReplaced
  BY <1>18 DEF StoresReplaced, StoreTypeOK, DiskTypeOK, LoopTypeOK, JobTypeOK
<1>19. CASE ReloadSettings
  BY <1>19 DEF ReloadSettings, StoreTypeOK, DiskTypeOK, LoopTypeOK, JobTypeOK
<1>20. CASE CommitAll
  BY <1>20 DEF CommitAll, StoreTypeOK, DiskTypeOK, LoopTypeOK, JobTypeOK
<1>21. CASE Disengage
  BY <1>21 DEF Disengage, End, Intervene, Finish, FinishNeedsIntervention, StoreTypeOK, DiskTypeOK, LoopTypeOK, JobTypeOK
<1>22. CASE Succeed
  BY <1>22 DEF Succeed, End, Intervene, Finish, FinishNeedsIntervention, StoreTypeOK, DiskTypeOK, LoopTypeOK, JobTypeOK
<1>23. CASE PauseForRollback
  BY <1>23 DEF PauseForRollback, StoreTypeOK, DiskTypeOK, LoopTypeOK, JobTypeOK
<1>24. CASE RollbackRemove
  BY <1>24 DEF RollbackRemove, StoreTypeOK, DiskTypeOK, LoopTypeOK, JobTypeOK
<1>25. CASE RollbackRename
  BY <1>25 DEF RollbackRename, StoreTypeOK, DiskTypeOK, LoopTypeOK, JobTypeOK
<1>26. CASE RollbackDone
  BY <1>26 DEF RollbackDone, End, Intervene, Finish, FinishNeedsIntervention, StoreTypeOK, DiskTypeOK, LoopTypeOK, JobTypeOK
<1>27. CASE ReopenStore
  BY <1>27 DEF ReopenStore, Reopen, StoreTypeOK
<1>28. CASE StoresReopened
  <2>1. UNCHANGED <<live, bound, sessions, login, spared>> /\ pc \in {"recover", "resettle"}
    BY <1>28 DEF StoresReopened
  <2>2. CASE pc' = "idle" /\ job'.failed
    BY <2>1, <2>2
  <2>3. CASE pc' = "rbdisengage"
    BY <2>1, <2>3
  <2>4. CASE errs /\ Intervene
    BY <2>4, <2>2 DEF Intervene, FinishNeedsIntervention
  <2>5. CASE ~errs /\ pc = "recover" /\ End(TRUE)
    BY <2>5, <2>2 DEF End, Finish, JobTypeOK
  <2>6. CASE ~errs /\ pc = "resettle" /\ Goto("rbdisengage", {}) /\ UNCHANGED job
    BY <2>6, <2>3
  <2> QED
    BY <1>28, <2>4, <2>5, <2>6 DEF StoresReopened
<1>29. CASE Panic
  BY <1>29 DEF Panic, End, Intervene, Finish, FinishNeedsIntervention, StoreTypeOK, DiskTypeOK, LoopTypeOK, JobTypeOK
<1>30. CASE LateWrite
  BY <1>30 DEF LateWrite, StoreTypeOK, DiskTypeOK, LoopTypeOK, JobTypeOK
<1>31. ASSUME NEW r \in Requests, TryEnter(r) PROVE AccountInv'
  BY <1>31 DEF TryEnter, StoreTypeOK, DiskTypeOK, LoopTypeOK, JobTypeOK
<1>32. ASSUME NEW r \in Requests, Leave(r) PROVE AccountInv'
  BY <1>32 DEF Leave, StoreTypeOK, DiskTypeOK, LoopTypeOK, JobTypeOK
<1>33. ASSUME NEW u \in Clients, LoginRead(u) PROVE AccountInv'
  BY <1>33 DEF LoginRead, AuthTypeOK
<1>34. ASSUME NEW u \in Clients, LoginIssue(u) PROVE AccountInv'
  BY <1>34 DEF LoginIssue, AuthTypeOK
<1>35. CASE Restart
  BY <1>35 DEF Restart, StoreTypeOK, DiskTypeOK, LoopTypeOK, JobTypeOK
<1>36. CASE UNCHANGED vars
  BY <1>36 DEF vars
<1> QED
  BY <1>1, <1>2, <1>3, <1>4, <1>5, <1>6, <1>7, <1>8, <1>9, <1>10, <1>11, <1>12,
     <1>13, <1>14, <1>15, <1>16, <1>17, <1>18, <1>19, <1>20, <1>21, <1>22, <1>23, <1>24,
     <1>25, <1>26, <1>27, <1>28, <1>29, <1>30, <1>31, <1>32, <1>33, <1>34, <1>35, <1>36 DEF Next, RestoreStep

\* The store of item i is open on the file that is live.
Serves(i) == conn[i] = "open" /\ bound[i] = live[i]

\* How far the goroutine is from serving, unless it started over an intervention.
ServingInv ==
    ~forced =>
        /\ pc \in {"stage", "resolve", "validate", "engage", "drain", "reload", "commit",
                  "disengage", "resync", "rbdisengage"} => \A i \in Stores : Serves(i)
        /\ pc \in {"stage", "resolve", "validate", "engage", "recover", "resync"} => ~gate
        /\ pc = "sessions" => Serves(UsersDB)
        /\ pc = "stores" => \A i \in Stores \ todo : Serves(i)
        /\ pc \in {"recover", "resettle"} /\ ~errs => \A i \in Stores \ todo : Serves(i)
        /\ pc = "idle" /\ ~job.needs => ~gate /\ \A i \in Stores : Serves(i)

\* Every way out of a restore but an intervention reopens the stores it paused.
LEMMA ServingNext == TypeOK /\ JobInv /\ ServingInv /\ [Next]_vars => ServingInv'
<1> SUFFICES ASSUME TypeOK, JobInv, ServingInv, [Next]_vars PROVE ServingInv'
  OBVIOUS
<1>0. UsersDB \in Stores /\ Stores = StateStores \union {UsersDB} /\ Stores \intersect Dirs = {}
  BY ConstantsAssumption DEF Stores
<1> USE <1>0 DEF TypeOK, JobInv, Goto, ServingInv, Serves
<1>1. ASSUME NEW c \in Callers, CheckIntervention(c) PROVE ServingInv'
  BY <1>1 DEF CheckIntervention, StoreTypeOK, DiskTypeOK, LoopTypeOK, JobTypeOK
<1>2. ASSUME NEW c \in Callers, NEW entry \in {"resolve", "stage"}, Start(c, entry) PROVE ServingInv'
  BY <1>2 DEF Start, StoreTypeOK, DiskTypeOK, LoopTypeOK, JobTypeOK
<1>3. ASSUME NEW c \in Callers, StartRefused(c) PROVE ServingInv'
  BY <1>3 DEF StartRefused, StoreTypeOK, DiskTypeOK, LoopTypeOK, JobTypeOK
<1>4. CASE Prepare
  BY <1>4 DEF Prepare, End, Intervene, Finish, FinishNeedsIntervention, StoreTypeOK, DiskTypeOK, LoopTypeOK, JobTypeOK
<1>5. CASE Validate
  BY <1>5 DEF Validate, End, Intervene, Finish, FinishNeedsIntervention, StoreTypeOK, DiskTypeOK, LoopTypeOK, JobTypeOK
<1>6. CASE Engage
  BY <1>6 DEF Engage, StoreTypeOK, DiskTypeOK, LoopTypeOK, JobTypeOK
<1>7. CASE Drain
  BY <1>7 DEF Drain, StoreTypeOK, DiskTypeOK, LoopTypeOK, JobTypeOK
<1>8. CASE PauseStore
  BY <1>8 DEF PauseStore, StoreTypeOK, DiskTypeOK, LoopTypeOK, JobTypeOK
<1>9. CASE StoresPaused
  BY <1>9 DEF StoresPaused, StoreTypeOK, DiskTypeOK, LoopTypeOK, JobTypeOK
<1>10. CASE CleanSidecars
  BY <1>10 DEF CleanSidecars, StoreTypeOK, DiskTypeOK, LoopTypeOK, JobTypeOK
<1>11. CASE Release
  BY <1>11 DEF Release, StoreTypeOK, DiskTypeOK, LoopTypeOK, JobTypeOK
<1>12. CASE MoveAside
  BY <1>12 DEF MoveAside, StoreTypeOK, DiskTypeOK, LoopTypeOK, JobTypeOK
<1>13. CASE MoveIn
  BY <1>13 DEF MoveIn, StoreTypeOK, DiskTypeOK, LoopTypeOK, JobTypeOK
<1>14. CASE SwapDone
  BY <1>14 DEF SwapDone, StoreTypeOK, DiskTypeOK, LoopTypeOK, JobTypeOK
<1>15. CASE ReplaceUserStore
  BY <1>15 DEF ReplaceUserStore, Reopen, StoreTypeOK
<1>16. CASE InvalidateSessions
  BY <1>16 DEF InvalidateSessions, AuthTypeOK
<1>17. CASE ReplaceStore
  BY <1>17 DEF ReplaceStore, Reopen, StoreTypeOK
<1>18. CASE StoresReplaced
  BY <1>18 DEF StoresReplaced, StoreTypeOK, DiskTypeOK, LoopTypeOK, JobTypeOK
<1>19. CASE ReloadSettings
  BY <1>19 DEF ReloadSettings, StoreTypeOK, DiskTypeOK, LoopTypeOK, JobTypeOK
<1>20. CASE CommitAll
  BY <1>20 DEF CommitAll, StoreTypeOK, DiskTypeOK, LoopTypeOK, JobTypeOK
<1>21. CASE Disengage
  BY <1>21 DEF Disengage, End, Intervene, Finish, FinishNeedsIntervention, StoreTypeOK, DiskTypeOK, LoopTypeOK, JobTypeOK
<1>22. CASE Succeed
  BY <1>22 DEF Succeed, End, Intervene, Finish, FinishNeedsIntervention, StoreTypeOK, DiskTypeOK, LoopTypeOK, JobTypeOK
<1>23. CASE PauseForRollback
  BY <1>23 DEF PauseForRollback, StoreTypeOK, DiskTypeOK, LoopTypeOK, JobTypeOK
<1>24. CASE RollbackRemove
  BY <1>24 DEF RollbackRemove, StoreTypeOK, DiskTypeOK, LoopTypeOK, JobTypeOK
<1>25. CASE RollbackRename
  BY <1>25 DEF RollbackRename, StoreTypeOK, DiskTypeOK, LoopTypeOK, JobTypeOK
<1>26. CASE RollbackDone
  BY <1>26 DEF RollbackDone, End, Intervene, Finish, FinishNeedsIntervention, StoreTypeOK, DiskTypeOK, LoopTypeOK, JobTypeOK
<1>27. CASE ReopenStore
  BY <1>27 DEF ReopenStore, Reopen, StoreTypeOK
<1>28. CASE StoresReopened
  <2>1. UNCHANGED <<live, bound, conn, gate, forced>> /\ pc \in {"recover", "resettle"} /\ todo = {}
    BY <1>28 DEF StoresReopened
  <2>2. CASE errs /\ Intervene
    BY <2>1, <2>2 DEF Intervene, FinishNeedsIntervention
  <2>3. CASE ~errs /\ pc = "recover" /\ End(TRUE)
    BY <2>1, <2>3 DEF End, Finish, JobTypeOK
  <2>4. CASE ~errs /\ pc = "resettle" /\ Goto("rbdisengage", {}) /\ UNCHANGED job
    BY <2>1, <2>4
  <2> QED
    BY <1>28, <2>2, <2>3, <2>4 DEF StoresReopened
<1>29. CASE Panic
  BY <1>29 DEF Panic, End, Intervene, Finish, FinishNeedsIntervention, StoreTypeOK, DiskTypeOK, LoopTypeOK, JobTypeOK
<1>30. CASE LateWrite
  BY <1>30 DEF LateWrite, StoreTypeOK, DiskTypeOK, LoopTypeOK, JobTypeOK
<1>31. ASSUME NEW r \in Requests, TryEnter(r) PROVE ServingInv'
  BY <1>31 DEF TryEnter, StoreTypeOK, DiskTypeOK, LoopTypeOK, JobTypeOK
<1>32. ASSUME NEW r \in Requests, Leave(r) PROVE ServingInv'
  BY <1>32 DEF Leave, StoreTypeOK, DiskTypeOK, LoopTypeOK, JobTypeOK
<1>33. ASSUME NEW u \in Clients, LoginRead(u) PROVE ServingInv'
  BY <1>33 DEF LoginRead, AuthTypeOK
<1>34. ASSUME NEW u \in Clients, LoginIssue(u) PROVE ServingInv'
  BY <1>34 DEF LoginIssue, AuthTypeOK
<1>35. CASE Restart
  BY <1>35 DEF Restart, StoreTypeOK, DiskTypeOK, LoopTypeOK, JobTypeOK
<1>36. CASE UNCHANGED vars
  BY <1>36 DEF vars
<1> QED
  BY <1>1, <1>2, <1>3, <1>4, <1>5, <1>6, <1>7, <1>8, <1>9, <1>10, <1>11, <1>12,
     <1>13, <1>14, <1>15, <1>16, <1>17, <1>18, <1>19, <1>20, <1>21, <1>22, <1>23, <1>24,
     <1>25, <1>26, <1>27, <1>28, <1>29, <1>30, <1>31, <1>32, <1>33, <1>34, <1>35, <1>36 DEF Next, RestoreStep

\* A database is never restored beside the write-ahead log of the one it
\* replaces, wherever the restore fails, panics or is cut short.
THEOREM RestoredWithoutForeignLog == Spec => []NoForeignLog
<1>1. Init => LogInv
  BY ConstantsAssumption DEF Init, LogInv, NoForeignLog, Cleaned, AfterSwap
<1>2. IInv /\ LogInv /\ [Next]_vars => LogInv'
  BY LogNext DEF IInv
<1>3. LogInv => NoForeignLog
  BY DEF LogInv
<1> QED
  BY <1>1, <1>2, <1>3, Invariance, PTL DEF Spec

\* After a restore nobody holds a session for an account from before it, except
\* who was between the two steps of Login when the sessions were revoked, and
\* except where InvalidateAllSessions failed, which is only logged.
THEOREM SessionsAreForTheRestored == Spec => []NoSessionFromBefore
<1>1. Init => AccountInv
  BY DEF Init, AccountInv, Renewed, BeforeSwap
<1>2. IInv /\ AccountInv /\ [Next]_vars => AccountInv'
  BY AccountNext DEF IInv, ControlInv
<1>3. IInv /\ AccountInv => NoSessionFromBefore
  BY DEF IInv, ControlInv, JobInv, TypeOK, AccountInv, Renewed, NoSessionFromBefore
<1> QED
  BY <1>1, <1>2, <1>3, Invariance, PTL DEF Spec

\* Whatever fails, a restore that ends without an intervention leaves the gate
\* open and every store open on the file that is live, for any number of
\* restores none of which was started over an intervention.
THEOREM ServesAfterwards == Spec => []ServesAgain
<1>1. Init => ServingInv
  BY DEF Init, ServingInv, Serves
<1>2. IInv /\ ServingInv /\ [Next]_vars => ServingInv'
  BY ServingNext DEF IInv, ControlInv
<1>3. IInv /\ ServingInv => ServesAgain
  BY DEF IInv, ControlInv, JobInv, TypeOK, JobTypeOK, ServingInv, Serves, ServesAgain
<1> QED
  BY <1>1, <1>2, <1>3, Invariance, PTL DEF Spec

-----------------------------------------------------------------------------
(* Preferences, for any number of requests, users, pages, fields, slots and  *)
(* extensions, and any number of failures                                    *)

HIDE ContentFacts DEF jobVars, gateVars, loopVars, swapVars, diskVars, storeVars, authVars, histVars

\* What a request carries at each of its steps.
CallRecs ==
    [at : {"idle"}] \cup [at : {"insert"}, row : Users \X Pages]
    \cup [at : {"read", "delete"}, page : Pages, list : SUBSET Pages, was : SUBSET Pages,
          blind : SUBSET Pages, deep : BOOLEAN]
    \cup [at : {"unfavorite"}, list : SUBSET Pages]
    \cup [at : {"forget", "reset"}, user : Users]
    \cup [at : {"lock"}, user : Users, field : Fields, value : Values]
    \cup [at : {"upsert"}, user : Users, field : Fields, row : Rows]
    \cup [at : {"image", "others"}, slot : Slots, ext : Exts, cfg : Confs]
    \cup [at : {"save"}, slot : Slots, ext : Exts \cup {None}, cfg : Confs]

OwnerTypes == /\ pages \subseteq Pages /\ users \subseteq Users
              /\ favs \subseteq Users \X Pages /\ liked \subseteq Users \X Pages
SettingTypes == /\ rows \in [Users -> Rows \cup {None}] /\ want \in [Users -> Rows]
                /\ rowLock \in Calls \cup {None}
BrandTypes == /\ files \in [Slots -> SUBSET Exts] /\ conf \in Confs /\ json \in Confs \cup {None}
              /\ brandLock \in Calls \cup {None}
CallTypes == call \in [Calls -> CallRecs]
Types == OwnerTypes /\ SettingTypes /\ BrandTypes /\ CallTypes

-----------------------------------------------------------------------------
(* The invariants *)

\* A row without its page or user is excused, or a clean-up of it is under way.
Cleaning(step, x) ==
    \E c \in Calls : \/ call[c].at = "unfavorite" /\ step = "unfavorite" /\ x \in call[c].list
                     \/ call[c].at = "forget" /\ step \in {"forget", "reset"} /\ call[c].user = x
                     \/ call[c].at = "reset" /\ step = "reset" /\ call[c].user = x

OwnerInv ==
    /\ \A r \in favs : r[1] \in users \/ r \in late \/ r[1] \in missed \/ Cleaning("forget", r[1])
    /\ \A r \in favs : r[2] \in pages \/ r \in late \/ r[2] \in missed \/ Cleaning("unfavorite", r[2])
    /\ \A u \in Users : rows[u] = None \/ u \in users \/ u \in late \/ u \in missed \/ Cleaning("reset", u)

\* A deletion has on its list, or could not read, what it collected of the
\* pages that are left; what it clears of pages that are left has strayed.
Fits(k) ==
    /\ k.at \in {"read", "delete"} => /\ (k.list \cup k.was) \cap spare = {}
                                     /\ k.was \cap pages \subseteq k.list \cup k.blind
    /\ k.at = "read" => k.blind = {}
    /\ k.at = "unfavorite" => k.list \cap spare = {} /\ k.list \cap pages \subseteq strayed
    /\ k.at = "forget" => k.user \notin users
ListsInv == pages \cap spare = {} /\ \A c \in Calls : Fits(call[c])

LikedInv == \A r \in liked : r[1] \in users /\ r[2] \in pages /\ (r \in favs \/ r[2] \in strayed)

\* Who is about to write a row holds the lock since it read it.
RowInv ==
    /\ \A u \in Users : Current(u) = want[u]
    /\ \A c \in Calls : call[c].at = "upsert" =>
          /\ rowLock = c
          /\ \A f \in Fields \ {call[c].field} : call[c].row[f] = want[call[c].user][f]

\* Who changes an image holds the lock and has the configuration that counts.
Holding(c) == call[c].at \in {"image", "others", "save"}
NameInv ==
    /\ conf = Loaded /\ conf.name = named
    /\ \A c \in Calls : Holding(c) => brandLock = c /\ call[c].cfg.name = conf.name /\ call[c].cfg.images = conf.images

\* The images of a slot, between requests and while one changes them.
Settled(s) == files[s] = {conf.images[s]} \ {None}
ImageInv ==
    /\ \A s \in Slots : s \in hurt \/ Settled(s)
          \/ \E c \in Calls : call[c].at \in {"others", "save"} /\ call[c].slot = s
    /\ \A c \in Calls : call[c].at = "others" => call[c].ext \in files[call[c].slot]
    /\ \A c \in Calls : call[c].at = "save" =>
          call[c].slot \in hurt \/ files[call[c].slot] = {call[c].ext} \ {None}

PreferencesInv == Types /\ OwnerInv /\ ListsInv /\ LikedInv /\ RowInv /\ NameInv /\ ImageInv

-----------------------------------------------------------------------------
(* Types *)

\* What the fields of a request are, by its step, and where it may go.
LEMMA Carried ==
    ASSUME NEW k \in CallRecs
    PROVE  /\ k.at = "insert" => k.row \in Users \X Pages
           /\ k.at \in {"read", "delete"} => k.page \in Pages /\ k.list \subseteq Pages
           /\ k.at = "read" => \A l, b \in SUBSET Pages :
                 [k EXCEPT !.at = "delete", !.list = l, !.blind = b] \in CallRecs
           /\ k.at = "unfavorite" => k.list \subseteq Pages
           /\ k.at = "unfavorite" => \A l \in SUBSET Pages : [k EXCEPT !.list = l] \in CallRecs
           /\ k.at \in {"forget", "reset"} => k.user \in Users
           /\ k.at = "forget" => [k EXCEPT !.at = "reset"] \in CallRecs
           /\ k.at = "lock" => k.user \in Users /\ k.field \in Fields /\ k.value \in Values
           /\ k.at = "upsert" => k.user \in Users /\ k.field \in Fields /\ k.row \in Rows
           /\ k.at \in {"image", "others"} => k.slot \in Slots /\ k.ext \in Exts /\ k.cfg \in Confs
           /\ k.at = "image" => [k EXCEPT !.at = "others"] \in CallRecs
           /\ k.at = "others" => [k EXCEPT !.at = "save"] \in CallRecs
           /\ k.at = "save" => k.slot \in Slots /\ k.ext \in Exts \cup {None} /\ k.cfg \in Confs
  BY DEF CallRecs

LEMMA IdleRec == Idle \in CallRecs
  BY DEF Idle, CallRecs

\* A request that moves on keeps the type of the calls.
LEMMA CallStep ==
    ASSUME CallTypes, NEW c \in Calls, NEW k \in CallRecs, call' = [call EXCEPT ![c] = k]
    PROVE  CallTypes'
  BY DEF CallTypes

\* Every request and every step of one keeps the types.
LEMMA TypesNext == Types /\ [PreferencesNext]_preferencesVars => Types'
<1> SUFFICES ASSUME Types, [PreferencesNext]_preferencesVars PROVE Types'
  OBVIOUS
<1> USE DEF Types
<1>0. \A c \in Calls : call[c] \in CallRecs
  BY DEF CallTypes
<1>1. ASSUME NEW c \in Calls, NEW u \in Users, NEW p \in Pages, AddFavorite(c, u, p) PROVE Types'
  <2>1. [at |-> "insert", row |-> <<u, p>>] \in CallRecs
    BY DEF CallRecs
  <2>2. CallTypes'
    BY <1>1, <2>1, CallStep DEF AddFavorite, Request
  <2> QED
    BY <1>1, <2>2 DEF AddFavorite, owners, tree, settings, branding, OwnerTypes, SettingTypes, BrandTypes
<1>2. ASSUME NEW c \in Calls, NEW u \in Users, NEW p \in Pages, RemoveFavorite(c, u, p) PROVE Types'
  <2>2. CallTypes'
    BY <1>2, IdleRec, CallStep DEF RemoveFavorite, Answered, Request
  <2> QED
    BY <1>2, <2>2 DEF RemoveFavorite, tree, settings, branding, OwnerTypes, SettingTypes, BrandTypes
<1>3. ASSUME NEW c \in Calls, Insert(c) PROVE Types'
  <2>1. call[c].row \in Users \X Pages
    BY <1>0, <1>3, Carried DEF Insert, At
  <2>2. CallTypes'
    BY <1>3, IdleRec, CallStep DEF Insert, To
  <2> QED
    BY <1>3, <2>1, <2>2 DEF Insert, tree, settings, branding, OwnerTypes, SettingTypes, BrandTypes
<1>4. ASSUME NEW c \in Calls, NEW p \in Pages, DeletePage(c, p) PROVE Types'
  <2>1. Subtree(p) \in SUBSET Pages /\ {p} \in SUBSET Pages
    BY DEF Subtree, OwnerTypes
  <2>2. PICK k \in CallRecs : call' = [call EXCEPT ![c] = k]
    <3>1. [at |-> "delete", page |-> p, list |-> {p}, was |-> {p}, blind |-> {}, deep |-> FALSE] \in CallRecs
      BY <2>1 DEF CallRecs
    <3>2. [at |-> "read", page |-> p, list |-> Collected(p), was |-> Subtree(p), blind |-> {}, deep |-> TRUE]
             \in CallRecs
      BY <2>1 DEF CallRecs, Collected
    <3> QED
      BY <1>4, <3>1, <3>2 DEF DeletePage, Request
  <2>3. CallTypes'
    BY <2>2, CallStep
  <2> QED
    BY <1>4, <2>3 DEF DeletePage, owners, tree, settings, branding, OwnerTypes, SettingTypes, BrandTypes
<1>5. ASSUME NEW c \in Calls, DeleteAllForPage(c) PROVE Types'
  <2>1. PICK p \in call[c].list :
           call' = [call EXCEPT ![c] = IF call[c].list = {p} THEN Idle ELSE [call[c] EXCEPT !.list = call[c].list \ {p}]]
    BY <1>5 DEF DeleteAllForPage
  <2>2. call[c].list \ {p} \in SUBSET Pages /\ [call[c] EXCEPT !.list = call[c].list \ {p}] \in CallRecs
    BY <1>0, <1>5, Carried DEF DeleteAllForPage, At
  <2>3. CallTypes'
    BY <2>1, <2>2, IdleRec, CallStep
  <2> QED
    BY <1>5, <2>3 DEF DeleteAllForPage, Cleans, tree, branding, OwnerTypes, SettingTypes, BrandTypes
<1>6. ASSUME NEW c \in Calls, NEW u \in Users, DeleteUser(c, u) PROVE Types'
  <2>1. [at |-> "forget", user |-> u] \in CallRecs
    BY DEF CallRecs
  <2>2. CallTypes'
    BY <1>6, <2>1, CallStep DEF DeleteUser, Request
  <2> QED
    BY <1>6, <2>2 DEF DeleteUser, tree, settings, branding, OwnerTypes, SettingTypes, BrandTypes
<1>7. ASSUME NEW c \in Calls, DeleteAllForUser(c) PROVE Types'
  <2>1. call[c].at = "forget" /\ call' = [call EXCEPT ![c] = [call[c] EXCEPT !.at = "reset"]]
    BY <1>7 DEF DeleteAllForUser, Cleans, At, To
  <2>2. CallTypes'
    BY <1>0, <2>1, Carried, CallStep
  <2> QED
    BY <1>7, <2>2 DEF DeleteAllForUser, Cleans, tree, branding, OwnerTypes, SettingTypes, BrandTypes
<1>8. ASSUME NEW c \in Calls, DeleteSettings(c) PROVE Types'
  <2>1. Default \in Rows
    BY DEF Default, Rows
  <2>2. CallTypes'
    BY <1>8, IdleRec, CallStep DEF DeleteSettings, Cleans, To
  <2> QED
    BY <1>8, <2>1, <2>2 DEF DeleteSettings, Cleans, tree, branding, OwnerTypes, SettingTypes, BrandTypes
<1>9. ASSUME NEW c \in Calls, NEW u \in Users, NEW f \in Fields, NEW v \in Values, UpdateSettings(c, u, f, v)
      PROVE  Types'
  <2>1. [at |-> "lock", user |-> u, field |-> f, value |-> v] \in CallRecs
    BY DEF CallRecs
  <2>2. CallTypes'
    BY <1>9, <2>1, CallStep DEF UpdateSettings, Request
  <2> QED
    BY <1>9, <2>2 DEF UpdateSettings, owners, tree, settings, branding, OwnerTypes, SettingTypes, BrandTypes
<1>10. ASSUME NEW c \in Calls, GetLocked(c) PROVE Types'
  <2> DEFINE k == call[c]
             row == [Current(k.user) EXCEPT ![k.field] = k.value]
  <2>1. k.user \in Users /\ k.field \in Fields /\ k.value \in Values
    BY <1>0, <1>10, Carried DEF GetLocked, At
  <2>2. row \in Rows
    BY <2>1 DEF Current, Default, Rows, SettingTypes
  <2>3. [at |-> "upsert", user |-> k.user, field |-> k.field, row |-> row] \in CallRecs
    BY <2>1, <2>2 DEF CallRecs
  <2>4. CallTypes'
    BY <1>10, <2>3, CallStep DEF GetLocked
  <2> QED
    BY <1>10, <2>4 DEF GetLocked, owners, tree, branding, OwnerTypes, SettingTypes, BrandTypes
<1>11. ASSUME NEW c \in Calls, UpsertLocked(c) PROVE Types'
  <2>1. call[c].user \in Users /\ call[c].field \in Fields /\ call[c].row \in Rows
    BY <1>0, <1>11, Carried DEF UpsertLocked, At
  <2>2. CallTypes'
    BY <1>11, IdleRec, CallStep DEF UpsertLocked, To
  <2>3. [want EXCEPT ![call[c].user][call[c].field] = call[c].row[call[c].field]] \in [Users -> Rows]
    BY <2>1 DEF SettingTypes, Rows
  <2> QED
    BY <1>11, <2>1, <2>2, <2>3 DEF UpsertLocked, owners, tree, branding, OwnerTypes, SettingTypes, BrandTypes
<1>12. ASSUME NEW c \in Calls, NEW v \in Values, SetName(c, v) PROVE Types'
  <2>1. [conf EXCEPT !.name = v] \in Confs
    BY DEF Confs, BrandTypes
  <2>2. CallTypes'
    BY <1>12, IdleRec, CallStep DEF SetName, Answered, Request
  <2> QED
    BY <1>12, <2>1, <2>2 DEF SetName, Put, owners, tree, settings, OwnerTypes, SettingTypes, BrandTypes
<1>13. ASSUME NEW c \in Calls, NEW v \in Values, SetFlag(c, v) PROVE Types'
  <2>1. [conf EXCEPT !.flag = v] \in Confs
    BY DEF Confs, BrandTypes
  <2>2. CallTypes'
    BY <1>13, IdleRec, CallStep DEF SetFlag, Answered, Request
  <2> QED
    BY <1>13, <2>1, <2>2 DEF SetFlag, Put, owners, tree, settings, OwnerTypes, SettingTypes, BrandTypes
<1>14. ASSUME NEW c \in Calls, NEW s \in Slots, NEW e \in Exts, UploadImage(c, s, e) PROVE Types'
  <2>1. [at |-> "image", slot |-> s, ext |-> e, cfg |-> conf] \in CallRecs
    BY DEF CallRecs, BrandTypes
  <2>2. CallTypes'
    BY <1>14, <2>1, CallStep DEF UploadImage, Request
  <2> QED
    BY <1>14, <2>2 DEF UploadImage, owners, tree, settings, OwnerTypes, SettingTypes, BrandTypes
<1>15. ASSUME NEW c \in Calls, WriteImage(c) PROVE Types'
  <2>1. call[c].at = "image" /\ call[c].slot \in Slots /\ call[c].ext \in Exts
    BY <1>0, <1>15, Carried DEF WriteImage, At
  <2>2. \/ call' = [call EXCEPT ![c] = [call[c] EXCEPT !.at = "others"]]
        \/ call' = [call EXCEPT ![c] = Idle]
    BY <1>15 DEF WriteImage, To
  <2>3. CallTypes'
    BY <1>0, <2>1, <2>2, Carried, IdleRec, CallStep
  <2> QED
    BY <1>15, <2>1, <2>3 DEF WriteImage, owners, tree, settings, OwnerTypes, SettingTypes, BrandTypes
<1>16. ASSUME NEW c \in Calls, RemoveOthers(c) PROVE Types'
  <2>1. call[c].at = "others" /\ call[c].slot \in Slots
        /\ call' = [call EXCEPT ![c] = [call[c] EXCEPT !.at = "save"]]
    BY <1>0, <1>16, Carried DEF RemoveOthers, At, To
  <2>2. CallTypes'
    BY <1>0, <2>1, Carried, CallStep
  <2> QED
    BY <1>16, <2>1, <2>2 DEF RemoveOthers, owners, tree, settings, OwnerTypes, SettingTypes, BrandTypes
<1>17. ASSUME NEW c \in Calls, NEW s \in Slots, DeleteImage(c, s) PROVE Types'
  <2>1. [at |-> "save", slot |-> s, ext |-> None, cfg |-> conf] \in CallRecs
    BY DEF CallRecs, BrandTypes
  <2>2. CallTypes'
    BY <1>17, <2>1, CallStep DEF DeleteImage, Request
  <2> QED
    BY <1>17, <2>2 DEF DeleteImage, owners, tree, settings, OwnerTypes, SettingTypes, BrandTypes
<1>18. ASSUME NEW c \in Calls, SaveImage(c) PROVE Types'
  <2>1. call[c].slot \in Slots /\ call[c].ext \in Exts \cup {None} /\ call[c].cfg \in Confs
    BY <1>0, <1>18, Carried DEF SaveImage, At
  <2>2. [conf EXCEPT !.name = call[c].cfg.name, !.images = [call[c].cfg.images EXCEPT ![call[c].slot] = call[c].ext]]
          \in Confs
    BY <2>1 DEF Confs, BrandTypes
  <2>3. CallTypes'
    BY <1>18, IdleRec, CallStep DEF SaveImage, To
  <2> QED
    BY <1>18, <2>2, <2>3 DEF SaveImage, Put, owners, tree, settings, OwnerTypes, SettingTypes, BrandTypes
<1>19. CASE Crash
  <2>1. Loaded \in Confs
    BY DEF Loaded, DefaultConf, Confs, BrandTypes
  <2>2. CallTypes'
    BY <1>19, IdleRec DEF Crash, CallTypes
  <2> QED
    BY <1>19, <2>1, <2>2 DEF Crash, owners, tree, OwnerTypes, SettingTypes, BrandTypes
<1>20. CASE UNCHANGED preferencesVars
  BY <1>20 DEF preferencesVars, owners, tree, settings, branding, OwnerTypes, SettingTypes, BrandTypes, CallTypes
<1>21. ASSUME NEW c \in Calls, NEW p \in Pages, NEW q, CreatePage(c, p, q) \/ MovePage(c, p, q) PROVE Types'
  <2>1. CallTypes'
    BY <1>21, IdleRec, CallStep DEF CreatePage, MovePage, Answered, Request
  <2> QED
    BY <1>21, <2>1 DEF CreatePage, MovePage, settings, branding, OwnerTypes, SettingTypes, BrandTypes
<1>22. ASSUME NEW c \in Calls, ReadPages(c) \/ DeleteNode(c) PROVE Types'
  <2>1. CASE ReadPages(c)
    <3>1. PICK blind \in SUBSET (call[c].list \cap pages) :
             call' = [call EXCEPT ![c] = [call[c] EXCEPT !.at = "delete", !.list = (call[c].list \cap pages) \ blind,
                                                       !.blind = blind]]
      BY <2>1 DEF ReadPages
    <3>2. (call[c].list \cap pages) \ blind \in SUBSET Pages /\ blind \in SUBSET Pages
      BY <3>1 DEF OwnerTypes
    <3>3. call[c].at = "read"
      BY <2>1 DEF ReadPages, At
    <3>4. CallTypes'
      BY <1>0, <3>1, <3>2, <3>3, Carried, CallStep
    <3> QED
      BY <2>1, <3>4 DEF ReadPages, owners, tree, settings, branding, OwnerTypes, SettingTypes, BrandTypes
  <2>2. CASE DeleteNode(c)
    <3>0. call[c].list \in SUBSET Pages
      BY <1>0, <2>2, Carried DEF DeleteNode, At
    <3>1. [at |-> "unfavorite", list |-> call[c].list] \in CallRecs
      <4> DEFINE list == call[c].list
      <4> HIDE DEF list
      <4>1. list \in SUBSET Pages
        BY <3>0 DEF list
      <4>2. [at |-> "unfavorite", list |-> list] \in [at : {"unfavorite"}, list : SUBSET Pages]
        BY <4>1
      <4> QED
        BY <4>2 DEF CallRecs, list
    <3>2. CallTypes'
      BY <2>2, <3>1, IdleRec, CallStep DEF DeleteNode, To
    <3>3. pages' \subseteq pages /\ liked' \subseteq liked /\ UNCHANGED <<users, favs, settings, branding>>
      BY <2>2 DEF DeleteNode
    <3> QED
      BY <3>2, <3>3 DEF settings, branding, OwnerTypes, SettingTypes, BrandTypes
  <2> QED
    BY <1>22, <2>1, <2>2
<1> QED
  BY <1>1, <1>2, <1>3, <1>4, <1>5, <1>6, <1>7, <1>8, <1>9, <1>10, <1>11, <1>12, <1>13, <1>14, <1>15,
     <1>16, <1>17, <1>18, <1>19, <1>20, <1>21, <1>22 DEF PreferencesNext

-----------------------------------------------------------------------------
(* Rows and their owners *)

\* The other requests stay where they are.
Only(c) == \A d \in Calls \ {c} : call'[d] = call[d]

LEMMA RequestOnly ==
    ASSUME CallTypes, NEW c \in Calls, NEW r, Request(c, r)
    PROVE  Only(c) /\ call[c] = Idle /\ call'[c] = r /\ ~Deleting(c)
  BY DEF CallTypes, Only, Request, Deleting, Idle

LEMMA ToOnly ==
    ASSUME CallTypes, NEW c \in Calls, NEW at, To(c, at)
    PROVE  /\ Only(c) /\ call'[c].at = at
           /\ at = "idle" => call'[c] = Idle
           /\ at # "idle" => call'[c] = [call[c] EXCEPT !.at = at]
<1> DEFINE k == IF at = "idle" THEN Idle ELSE [call[c] EXCEPT !.at = at]
<1>1. call' = [call EXCEPT ![c] = k]
  BY DEF To
<1>2. Only(c) /\ call'[c] = k
  <2> HIDE DEF k
  <2> QED
    BY <1>1 DEF CallTypes, Only
<1>3. call[c] \in CallRecs
  BY DEF CallTypes
<1>4. [call[c] EXCEPT !.at = at].at = at
  BY <1>3 DEF CallRecs
<1>5. Idle.at = "idle"
  BY DEF Idle
<1>6. k.at = at
  BY <1>4, <1>5
<1> QED
  BY <1>2, <1>6

LEMMA ToAt ==
    ASSUME CallTypes, NEW c \in Calls, NEW at, To(c, at)
    PROVE  Only(c) /\ call'[c].at = at
  BY ToOnly

\* The steps of a deletion that reads, deletes or clears its list leave the other requests alone.
LEMMA TreeStep ==
    ASSUME CallTypes, NEW c \in Calls, ReadPages(c) \/ DeleteNode(c)
    PROVE  /\ Only(c) /\ call[c].at \in {"read", "delete"}
           /\ call'[c].at \in {"idle", "delete", "unfavorite"}
<1>1. call[c] \in CallRecs
  BY DEF CallTypes
<1>2. CASE ReadPages(c)
  <2>1. PICK l, b : call' = [call EXCEPT ![c] = [call[c] EXCEPT !.at = "delete", !.list = l, !.blind = b]]
    BY <1>2 DEF ReadPages
  <2>2. Only(c) /\ call'[c] = [call[c] EXCEPT !.at = "delete", !.list = l, !.blind = b]
    BY <2>1 DEF CallTypes, Only
  <2>3. call[c].at = "read" /\ call'[c].at = "delete"
    BY <1>1, <1>2, <2>2 DEF ReadPages, At, CallRecs
  <2> QED
    BY <2>2, <2>3
<1>3. CASE DeleteNode(c)
  <2>1. \/ To(c, "idle")
        \/ call' = [call EXCEPT ![c] = IF call[c].list = {} THEN Idle
                                      ELSE [at |-> "unfavorite", list |-> call[c].list]]
    BY <1>3 DEF DeleteNode
  <2>2. Only(c) /\ call'[c].at \in {"idle", "unfavorite"}
    BY <2>1, ToAt DEF CallTypes, Only, Idle
  <2> QED
    BY <1>3, <2>2 DEF DeleteNode, At
<1> QED
  BY <1>2, <1>3

LEMMA ListStep ==
    ASSUME CallTypes, NEW c \in Calls, DeleteAllForPage(c)
    PROVE  Only(c) /\ call[c].at = "unfavorite" /\ call'[c].at \in {"idle", "unfavorite"}
<1>1. call[c].at = "unfavorite" /\ call[c] \in CallRecs
  BY DEF DeleteAllForPage, At, CallTypes
<1>2. PICK p : call' = [call EXCEPT ![c] = IF call[c].list = {p} THEN Idle
                                         ELSE [call[c] EXCEPT !.list = call[c].list \ {p}]]
  BY DEF DeleteAllForPage
<1> QED
  BY <1>1, <1>2 DEF CallTypes, Only, Idle, CallRecs

\* A step of a request that cleans nothing up leaves the clean-ups under way.
LEMMA CleaningKept ==
    ASSUME CallTypes, NEW c \in Calls, Only(c), ~Deleting(c), NEW step, NEW x, Cleaning(step, x)
    PROVE  Cleaning(step, x)'
  BY DEF CallTypes, Cleaning, Deleting, Only

\* And with it the excuses, when the tables stay as they are.
LEMMA OwnersKept ==
    ASSUME CallTypes, OwnerInv, NEW c \in Calls, Only(c), ~Deleting(c), UNCHANGED <<owners, rows, cleanup>>
    PROVE  OwnerInv'
<1>1. \A step, x : Cleaning(step, x) => Cleaning(step, x)'
  BY CleaningKept
<1> QED
  BY <1>1 DEF OwnerInv, owners, tree, cleanup

\* One clean-up of a user: what is cleaned up is gone, or missed.
LEMMA CleanedUp ==
    ASSUME Types, OwnerInv, NEW c \in Calls, NEW step \in {"forget", "reset"}, call[c].at = step,
           NEW x, x = call[c].user,
           NEW then \in {"idle", "reset"}, then = "reset" <=> step = "forget", To(c, then),
           favs' \subseteq favs, \A u \in Users : rows'[u] \in {rows[u], None},
           missed \subseteq missed', late' = late, pages' = pages, users' = users,
           \/ x \in missed'
           \/ step = "forget" /\ \A r \in favs' : r[1] # x
           \/ step = "reset" /\ rows'[x] = None
    PROVE  OwnerInv'
<1>1. \A y : Cleaning("forget", y) => Cleaning("forget", y)' \/ (step = "forget" /\ y = x)
  BY DEF Types, CallTypes, Cleaning, To, Idle
<1>2. \A y : Cleaning("unfavorite", y) => Cleaning("unfavorite", y)'
  BY DEF Types, CallTypes, Cleaning, To, Idle
<1>3. \A y : Cleaning("reset", y) => Cleaning("reset", y)' \/ (step = "reset" /\ y = x)
  BY DEF Types, CallTypes, Cleaning, To, Idle
<1> QED
  BY <1>1, <1>2, <1>3 DEF OwnerInv

\* Every step keeps the excuses.
LEMMA OwnerNext == Types /\ OwnerInv /\ ListsInv /\ [PreferencesNext]_preferencesVars => OwnerInv'
<1> SUFFICES ASSUME Types, OwnerInv, ListsInv, [PreferencesNext]_preferencesVars PROVE OwnerInv'
  OBVIOUS
<1>0. CallTypes /\ \A c \in Calls : call[c] \in CallRecs
  BY DEF Types, CallTypes
<1>1. ASSUME NEW c \in Calls, NEW u \in Users, NEW p \in Pages, AddFavorite(c, u, p) PROVE OwnerInv'
  BY <1>0, <1>1, OwnersKept, RequestOnly DEF AddFavorite, settings
<1>2. ASSUME NEW c \in Calls, NEW u \in Users, NEW p \in Pages, RemoveFavorite(c, u, p) PROVE OwnerInv'
  <2>1. \A step, x : Cleaning(step, x) => Cleaning(step, x)'
    BY <1>0, <1>2, CleaningKept, RequestOnly DEF RemoveFavorite, Answered
  <2> QED
    BY <1>2, <2>1 DEF RemoveFavorite, tree, OwnerInv, settings, cleanup
<1>3. ASSUME NEW c \in Calls, Insert(c) PROVE OwnerInv'
  <2>1. \A step, x : Cleaning(step, x) => Cleaning(step, x)'
    BY <1>0, <1>3, CleaningKept, ToOnly DEF Insert, At, Deleting
  <2> QED
    BY <1>3, <2>1 DEF Insert, tree, OwnerInv, settings
<1>4. ASSUME NEW c \in Calls, NEW p \in Pages, DeletePage(c, p) PROVE OwnerInv'
  <2>1. PICK k : Request(c, k)
    BY <1>4 DEF DeletePage
  <2> QED
    BY <1>0, <1>4, <2>1, OwnersKept, RequestOnly DEF DeletePage, settings
<1>5. ASSUME NEW c \in Calls, DeleteAllForPage(c) PROVE OwnerInv'
  <2>1. PICK p \in call[c].list :
           /\ \/ favs' = {r \in favs : r[2] # p} /\ UNCHANGED <<rows, missed>>
              \/ UNCHANGED <<favs, rows>> /\ missed' = missed \cup {p}
           /\ call' = [call EXCEPT ![c] = IF call[c].list = {p} THEN Idle ELSE [call[c] EXCEPT !.list = call[c].list \ {p}]]
    BY <1>5 DEF DeleteAllForPage, Cleans
  <2>2. call[c].at = "unfavorite" /\ UNCHANGED <<pages, users, late>>
    BY <1>5 DEF DeleteAllForPage, At, tree
  <2>3. Only(c) /\ (call'[c] = Idle \/ call'[c] = [call[c] EXCEPT !.list = call[c].list \ {p}])
        /\ (call'[c] = Idle => call[c].list = {p})
    BY <1>0, <2>1, <2>2 DEF CallTypes, Only, Idle, CallRecs
  <2>4. \A x : Cleaning("unfavorite", x) => Cleaning("unfavorite", x)' \/ x = p
    <3>1. ASSUME NEW x \in call[c].list, x # p PROVE call'[c].at = "unfavorite" /\ x \in call'[c].list
      BY <1>0, <2>2, <2>3, <3>1 DEF CallRecs
    <3> QED
      BY <2>3, <3>1 DEF Cleaning, Only
  <2>5. \A step, x : step \in {"forget", "reset"} /\ Cleaning(step, x) => Cleaning(step, x)'
    BY <2>2, <2>3 DEF Cleaning, Only
  <2>6. \A r \in favs' : r[2] # p \/ p \in missed'
    BY <2>1
  <2>7. favs' \subseteq favs /\ rows' = rows /\ missed \subseteq missed'
    BY <2>1
  <2> QED
    BY <2>2, <2>4, <2>5, <2>6, <2>7 DEF OwnerInv
<1>6. ASSUME NEW c \in Calls, NEW u \in Users, DeleteUser(c, u) PROVE OwnerInv'
  <2>1. \A step, x : Cleaning(step, x) => Cleaning(step, x)'
    BY <1>0, <1>6, CleaningKept, RequestOnly DEF DeleteUser
  <2>2. Cleaning("forget", u)' /\ Cleaning("reset", u)'
    BY <1>0, <1>6 DEF DeleteUser, Request, Cleaning, CallTypes
  <2> QED
    BY <1>6, <2>1, <2>2 DEF DeleteUser, tree, OwnerInv, settings, cleanup
<1>7. ASSUME NEW c \in Calls, DeleteAllForUser(c) PROVE OwnerInv'
  <2>1. call[c].at = "forget" /\ To(c, "reset")
    BY <1>7 DEF DeleteAllForUser, Cleans, At
  <2>2. \/ favs' = {r \in favs : r[1] # call[c].user} /\ UNCHANGED <<rows, missed>>
        \/ UNCHANGED <<favs, rows>> /\ missed' = missed \cup {call[c].user}
    BY <1>7 DEF DeleteAllForUser, Cleans
  <2>3. UNCHANGED <<pages, users, late>>
    BY <1>7 DEF DeleteAllForUser, tree
  <2> QED
    BY <2>1, <2>2, <2>3, CleanedUp
<1>8. ASSUME NEW c \in Calls, DeleteSettings(c) PROVE OwnerInv'
  <2>1. call[c].at = "reset" /\ To(c, "idle") /\ call[c].user \in Users
    BY <1>0, <1>8, Carried DEF DeleteSettings, Cleans, At
  <2>2. \/ rows' = [rows EXCEPT ![call[c].user] = None] /\ UNCHANGED <<favs, missed>>
        \/ UNCHANGED <<favs, rows>> /\ missed' = missed \cup {call[c].user}
    BY <1>8 DEF DeleteSettings, Cleans
  <2>3. UNCHANGED <<pages, users, late>>
    BY <1>8 DEF DeleteSettings, tree
  <2>4. (\A u \in Users : rows'[u] \in {rows[u], None}) /\ (call[c].user \in missed' \/ rows'[call[c].user] = None)
    BY <2>1, <2>2 DEF Types, SettingTypes
  <2>5. favs' \subseteq favs /\ missed \subseteq missed'
    BY <2>2
  <2> QED
    BY <2>1, <2>3, <2>4, <2>5, CleanedUp
<1>9. ASSUME NEW c \in Calls, NEW u \in Users, NEW f \in Fields, NEW v \in Values, UpdateSettings(c, u, f, v)
      PROVE  OwnerInv'
  BY <1>0, <1>9, OwnersKept, RequestOnly DEF UpdateSettings, settings
<1>10. ASSUME NEW c \in Calls, GetLocked(c) PROVE OwnerInv'
  BY <1>0, <1>10, OwnersKept DEF GetLocked, At, Deleting, Only, CallTypes
<1>11. ASSUME NEW c \in Calls, UpsertLocked(c) PROVE OwnerInv'
  <2>1. \A step, x : Cleaning(step, x) => Cleaning(step, x)'
    BY <1>0, <1>11, CleaningKept, ToOnly DEF UpsertLocked, At, Deleting
  <2>2. UNCHANGED <<pages, users, favs, missed>> /\ late \subseteq late'
    BY <1>11 DEF UpsertLocked, owners, tree
  <2>3. \A u \in Users : rows'[u] = rows[u] \/ u \in users \/ u \in late'
    BY <1>11 DEF UpsertLocked, Types, SettingTypes
  <2> QED
    BY <2>1, <2>2, <2>3 DEF OwnerInv
<1>12. ASSUME NEW c \in Calls, NEW v \in Values, SetName(c, v) \/ SetFlag(c, v) PROVE OwnerInv'
  BY <1>0, <1>12, OwnersKept, RequestOnly DEF SetName, SetFlag, Answered, settings
<1>13. ASSUME NEW c \in Calls, NEW s \in Slots, NEW e \in Exts, UploadImage(c, s, e) PROVE OwnerInv'
  BY <1>0, <1>13, OwnersKept, RequestOnly DEF UploadImage, settings
<1>14. ASSUME NEW c \in Calls, WriteImage(c) PROVE OwnerInv'
  BY <1>0, <1>14, OwnersKept, ToOnly DEF WriteImage, At, settings, Deleting
<1>15. ASSUME NEW c \in Calls, RemoveOthers(c) PROVE OwnerInv'
  BY <1>0, <1>15, OwnersKept, ToOnly DEF RemoveOthers, At, settings, Deleting
<1>16. ASSUME NEW c \in Calls, NEW s \in Slots, DeleteImage(c, s) PROVE OwnerInv'
  BY <1>0, <1>16, OwnersKept, RequestOnly DEF DeleteImage, settings
<1>17. ASSUME NEW c \in Calls, SaveImage(c) PROVE OwnerInv'
  BY <1>0, <1>17, OwnersKept, ToOnly DEF SaveImage, At, settings, Deleting
<1>18. CASE Crash
  <2>1. \A x : Cleaning("forget", x) \/ Cleaning("unfavorite", x) \/ Cleaning("reset", x) => x \in missed'
    <3>1. \A c \in Calls : call[c].at = "unfavorite" => call[c].list \subseteq missed'
      BY <1>18 DEF Crash
    <3>2. \A c \in Calls : call[c].at \in {"forget", "reset"} => call[c].user \in missed'
      <4> DEFINE lists == UNION {call[c].list : c \in {d \in Calls : call[d].at = "unfavorite"}}
      <4>1. missed' = missed \cup lists \cup {call[c].user : c \in {d \in Calls : call[d].at \in {"forget", "reset"}}}
        BY <1>18 DEF Crash
      <4> HIDE DEF lists
      <4> QED
        BY <4>1
    <3> QED
      BY <3>1, <3>2 DEF Cleaning
  <2>2. UNCHANGED <<pages, users, favs, rows, late>> /\ missed \subseteq missed'
    BY <1>18 DEF Crash, owners, tree
  <2> QED
    BY <2>1, <2>2 DEF OwnerInv
<1>19. CASE UNCHANGED preferencesVars
  BY <1>19 DEF preferencesVars, owners, tree, settings, cleanup, OwnerInv, Cleaning
<1>20. ASSUME NEW c \in Calls, NEW p \in Pages, NEW q, CreatePage(c, p, q) \/ MovePage(c, p, q) PROVE OwnerInv'
  <2>1. Answered(c) /\ pages \subseteq pages' /\ UNCHANGED <<users, favs, rows, cleanup>>
    BY <1>20 DEF CreatePage, MovePage, settings
  <2>2. \A step, x : Cleaning(step, x) => Cleaning(step, x)'
    BY <1>0, <2>1, CleaningKept, RequestOnly DEF Answered
  <2> QED
    BY <2>1, <2>2 DEF OwnerInv, cleanup
<1>21. ASSUME NEW c \in Calls, ReadPages(c) PROVE OwnerInv'
  <2>1. call[c].at = "read" /\ Only(c) /\ UNCHANGED <<owners, rows, cleanup>>
    BY <1>0, <1>21 DEF ReadPages, At, Only, CallTypes, settings
  <2> QED
    BY <1>0, <2>1, OwnersKept DEF Deleting
<1>22. ASSUME NEW c \in Calls, DeleteNode(c) PROVE OwnerInv'
  <2> DEFINE gone == Subtree(call[c].page)
             list == call[c].list
  <2>1. call[c].at = "delete" /\ Only(c) /\ ~Deleting(c) /\ UNCHANGED <<users, favs, rows, late>> /\ missed \subseteq missed'
    BY <1>0, <1>22 DEF DeleteNode, At, To, Only, CallTypes, Deleting, settings
  <2>2. \A step, x : Cleaning(step, x) => Cleaning(step, x)'
    BY <1>0, <2>1, CleaningKept
  <2>3. \A x \in pages : x \in pages' \/ x \in missed' \/ Cleaning("unfavorite", x)'
    <3>1. CASE /\ pages' = pages \ gone
               /\ call' = [call EXCEPT ![c] = IF list = {} THEN Idle ELSE [at |-> "unfavorite", list |-> list]]
               /\ missed' = missed \cup call[c].blind \cup (gone \ call[c].was)
      <4>1. ASSUME NEW x \in gone, x \in pages, x \notin missed' PROVE x \in list
        BY <2>1, <3>1, <4>1 DEF ListsInv, Fits
      <4>2. ASSUME NEW x \in list PROVE Cleaning("unfavorite", x)'
        <5>1. call'[c] = [at |-> "unfavorite", list |-> list]
          BY <1>0, <3>1, <4>2 DEF CallTypes
        <5> QED
          BY <4>2, <5>1 DEF Cleaning
      <4> QED
        BY <3>1, <4>1, <4>2
    <3>2. CASE pages' = pages \ gone /\ missed' = missed \cup gone
      BY <3>2
    <3>3. CASE pages' = pages
      BY <3>3
    <3> QED
      BY <1>22, <3>1, <3>2, <3>3 DEF DeleteNode
  <2> QED
    BY <2>1, <2>2, <2>3 DEF OwnerInv
<1> QED
  BY <1>1, <1>2, <1>3, <1>4, <1>5, <1>6, <1>7, <1>8, <1>9, <1>10, <1>11, <1>12, <1>13, <1>14, <1>15,
     <1>16, <1>17, <1>18, <1>19, <1>20, <1>21, <1>22 DEF PreferencesNext

-----------------------------------------------------------------------------
(* The lists of a deletion, and the favourites *)

\* A step that leaves the owners alone and ends in none of the steps of a deletion.
LEMMA ListsKept ==
    ASSUME CallTypes, ListsInv, LikedInv, NEW c \in Calls, Only(c),
           call'[c].at \notin {"read", "delete", "unfavorite", "forget"}, UNCHANGED <<owners, cleanup>>
    PROVE  (ListsInv /\ LikedInv)'
  BY DEF CallTypes, ListsInv, LikedInv, Fits, Only, owners, tree, cleanup

\* Pages that were spare come, owners go and favourites stray: every list still fits.
LEMMA FitsOn ==
    ASSUME pages' \subseteq pages \cup spare, spare' \subseteq spare, strayed \subseteq strayed',
           users' \subseteq users, NEW k, Fits(k)
    PROVE  Fits(k)'
  BY DEF Fits

\* Every step keeps the lists and the favourites.
LEMMA ListsNext ==
    Types /\ ListsInv /\ LikedInv /\ [PreferencesNext]_preferencesVars => (ListsInv /\ LikedInv)'
<1> SUFFICES ASSUME Types, ListsInv, LikedInv, [PreferencesNext]_preferencesVars PROVE (ListsInv /\ LikedInv)'
  OBVIOUS
<1>0. CallTypes /\ \A c \in Calls : call[c] \in CallRecs
  BY DEF Types, CallTypes
<1>a. ASSUME NEW c \in Calls, Only(c), UNCHANGED <<owners, cleanup>>,
             call'[c].at \notin {"read", "delete", "unfavorite", "forget"}
      PROVE  (ListsInv /\ LikedInv)'
  BY <1>0, <1>a, ListsKept
<1>b. ASSUME NEW c \in Calls, Only(c), call'[c].at \notin {"read", "delete", "unfavorite", "forget"},
             pages' \subseteq pages \cup spare, spare' \subseteq spare, pages' \cap spare' = {},
             strayed \subseteq strayed', users' \subseteq users
      PROVE  ListsInv'
  <2>1. \A d \in Calls \ {c} : call'[d] = call[d] /\ Fits(call[d])
    BY <1>b DEF ListsInv, Only
  <2>2. \A d \in Calls \ {c} : Fits(call[d])'
    BY <1>b, <2>1, FitsOn
  <2>3. Fits(call[c])'
    BY <1>b DEF Fits
  <2> QED
    BY <1>b, <2>1, <2>2, <2>3 DEF ListsInv, Fits
<1>1. ASSUME NEW c \in Calls, NEW u \in Users, NEW p \in Pages, AddFavorite(c, u, p) PROVE (ListsInv /\ LikedInv)'
  BY <1>0, <1>1, <1>a, RequestOnly DEF AddFavorite
<1>2. ASSUME NEW c \in Calls, NEW u \in Users, NEW p \in Pages, RemoveFavorite(c, u, p) PROVE (ListsInv /\ LikedInv)'
  <2>1. Only(c) /\ call'[c].at = "idle" /\ UNCHANGED <<tree, users, strayed>>
    BY <1>0, <1>2, RequestOnly DEF RemoveFavorite, Answered, Idle, cleanup
  <2>2. ListsInv'
    BY <1>b, <2>1 DEF tree, ListsInv
  <2>3. LikedInv'
    BY <1>2, <2>1 DEF RemoveFavorite, LikedInv, tree
  <2> QED
    BY <2>2, <2>3
<1>3. ASSUME NEW c \in Calls, Insert(c) PROVE (ListsInv /\ LikedInv)'
  <2>1. Only(c) /\ call'[c].at = "idle" /\ UNCHANGED <<tree, users, strayed>>
    BY <1>0, <1>3, ToAt DEF Insert
  <2>2. ListsInv'
    BY <1>b, <2>1 DEF tree, ListsInv
  <2>3. LikedInv'
    BY <1>3, <2>1 DEF Insert, LikedInv, tree
  <2> QED
    BY <2>2, <2>3
<1>4. ASSUME NEW c \in Calls, NEW p \in Pages, DeletePage(c, p) PROVE (ListsInv /\ LikedInv)'
  <2>1. UNCHANGED <<owners, cleanup>> /\ p \in pages
    BY <1>4 DEF DeletePage
  <2>2. Only(c) /\ Fits(call'[c])
    <3>1. CASE Request(c, [at |-> "delete", page |-> p, list |-> {p}, was |-> {p}, blind |-> {}, deep |-> FALSE])
      BY <1>0, <2>1, <3>1, RequestOnly DEF Fits, ListsInv
    <3>2. CASE Request(c, [at |-> "read", page |-> p, list |-> Collected(p), was |-> Subtree(p), blind |-> {},
                           deep |-> TRUE])
      BY <1>0, <3>2, RequestOnly DEF Fits, ListsInv, Collected, Subtree
    <3> QED
      BY <1>4, <3>1, <3>2 DEF DeletePage
  <2>3. ListsInv'
    BY <2>1, <2>2 DEF ListsInv, Fits, Only, owners, tree, cleanup
  <2>4. LikedInv'
    BY <2>1 DEF LikedInv, owners, tree, cleanup
  <2> QED
    BY <2>3, <2>4
<1>5. ASSUME NEW c \in Calls, DeleteAllForPage(c) PROVE (ListsInv /\ LikedInv)'
  <2>1. PICK p \in call[c].list :
           /\ favs' = {r \in favs : r[2] # p} \/ favs' = favs
           /\ call' = [call EXCEPT ![c] = IF call[c].list = {p} THEN Idle ELSE [call[c] EXCEPT !.list = call[c].list \ {p}]]
    BY <1>5 DEF DeleteAllForPage, Cleans
  <2>2. call[c].at = "unfavorite" /\ UNCHANGED <<pages, spare, users, liked, strayed>>
    BY <1>5 DEF DeleteAllForPage, At, tree
  <2>3. Fits(call[c])
    BY DEF ListsInv
  <2>4. ListsInv'
    <3>1. Only(c) /\ (call'[c] = Idle \/ call'[c] = [call[c] EXCEPT !.list = call[c].list \ {p}])
      BY <1>0, <2>1, <2>2 DEF CallTypes, Only
    <3>2. Fits(call'[c])
      BY <1>0, <2>2, <2>3, <3>1 DEF Fits, Idle, CallRecs
    <3> QED
      BY <2>2, <3>1, <3>2 DEF ListsInv, Fits, Only
  <2>5. LikedInv'
    <3>1. p \in pages => p \in strayed
      BY <2>1, <2>2, <2>3 DEF Fits
    <3> QED
      BY <2>1, <2>2, <3>1 DEF LikedInv
  <2> QED
    BY <2>4, <2>5
<1>6. ASSUME NEW c \in Calls, NEW u \in Users, DeleteUser(c, u) PROVE (ListsInv /\ LikedInv)'
  <2>1. Only(c) /\ call'[c] = [at |-> "forget", user |-> u] /\ UNCHANGED <<tree, strayed, favs>>
        /\ users' = users \ {u} /\ liked' = {r \in liked : r[1] # u}
    BY <1>0, <1>6, RequestOnly DEF DeleteUser, cleanup
  <2>2. Fits(call[c])'
    BY <2>1 DEF Fits
  <2>3. \A d \in Calls \ {c} : Fits(call[d])' /\ call'[d] = call[d]
    BY <2>1, FitsOn DEF ListsInv, Only, tree
  <2>4. ListsInv'
    BY <2>1, <2>2, <2>3 DEF ListsInv, Fits, tree
  <2>5. LikedInv'
    BY <2>1 DEF LikedInv, tree
  <2> QED
    BY <2>4, <2>5
<1>7. ASSUME NEW c \in Calls, DeleteAllForUser(c) PROVE (ListsInv /\ LikedInv)'
  <2>1. Only(c) /\ call'[c].at = "reset" /\ UNCHANGED <<tree, users, liked, strayed>>
    BY <1>0, <1>7, ToAt DEF DeleteAllForUser
  <2>2. ListsInv'
    BY <1>b, <2>1 DEF tree, ListsInv
  <2>3. call[c].user \notin users /\ (favs' = {r \in favs : r[1] # call[c].user} \/ favs' = favs)
    BY <1>7 DEF DeleteAllForUser, Cleans, At, ListsInv, Fits
  <2>4. LikedInv'
    BY <2>1, <2>3 DEF LikedInv, tree
  <2> QED
    BY <2>2, <2>4
<1>8. ASSUME NEW c \in Calls, DeleteSettings(c) PROVE (ListsInv /\ LikedInv)'
  <2>1. Only(c) /\ call'[c].at = "idle" /\ UNCHANGED <<tree, users, liked, strayed, favs>>
    BY <1>0, <1>8, ToAt DEF DeleteSettings, Cleans
  <2>2. ListsInv'
    BY <1>b, <2>1 DEF tree, ListsInv
  <2> QED
    BY <2>1, <2>2 DEF LikedInv, tree
<1>9. ASSUME NEW c \in Calls, NEW u \in Users, NEW f \in Fields, NEW v \in Values, UpdateSettings(c, u, f, v)
      PROVE  (ListsInv /\ LikedInv)'
  BY <1>0, <1>9, <1>a, RequestOnly DEF UpdateSettings
<1>10. ASSUME NEW c \in Calls, GetLocked(c) PROVE (ListsInv /\ LikedInv)'
  <2>1. Only(c) /\ call'[c].at = "upsert" /\ UNCHANGED <<owners, cleanup>>
    BY <1>0, <1>10 DEF GetLocked, Only, CallTypes
  <2> QED
    BY <1>a, <2>1
<1>11. ASSUME NEW c \in Calls, UpsertLocked(c) PROVE (ListsInv /\ LikedInv)'
  <2>1. Only(c) /\ call'[c].at = "idle" /\ UNCHANGED <<owners, strayed>>
    BY <1>0, <1>11, ToAt DEF UpsertLocked
  <2>2. ListsInv'
    BY <1>b, <2>1 DEF owners, tree, ListsInv
  <2> QED
    BY <2>1, <2>2 DEF LikedInv, owners, tree
<1>12. ASSUME NEW c \in Calls, NEW v \in Values, SetName(c, v) \/ SetFlag(c, v) PROVE (ListsInv /\ LikedInv)'
  BY <1>0, <1>12, <1>a, RequestOnly DEF SetName, SetFlag, Answered, Idle
<1>13. ASSUME NEW c \in Calls, NEW s \in Slots, NEW e \in Exts, UploadImage(c, s, e) PROVE (ListsInv /\ LikedInv)'
  BY <1>0, <1>13, <1>a, RequestOnly DEF UploadImage
<1>14. ASSUME NEW c \in Calls, WriteImage(c) PROVE (ListsInv /\ LikedInv)'
  <2>1. (To(c, "others") \/ To(c, "idle")) /\ UNCHANGED <<owners, cleanup>>
    BY <1>14 DEF WriteImage
  <2> QED
    BY <1>0, <1>a, <2>1, ToAt
<1>15. ASSUME NEW c \in Calls, RemoveOthers(c) PROVE (ListsInv /\ LikedInv)'
  BY <1>0, <1>15, <1>a, ToAt DEF RemoveOthers
<1>16. ASSUME NEW c \in Calls, NEW s \in Slots, DeleteImage(c, s) PROVE (ListsInv /\ LikedInv)'
  BY <1>0, <1>16, <1>a, RequestOnly DEF DeleteImage
<1>17. ASSUME NEW c \in Calls, SaveImage(c) PROVE (ListsInv /\ LikedInv)'
  BY <1>0, <1>17, <1>a, ToAt DEF SaveImage
<1>18. CASE Crash
  BY <1>18 DEF Crash, owners, tree, ListsInv, LikedInv, Fits, Idle
<1>19. CASE UNCHANGED preferencesVars
  BY <1>19 DEF preferencesVars, owners, tree, cleanup, ListsInv, LikedInv, Fits
<1>20. ASSUME NEW c \in Calls, NEW p \in Pages, NEW q, CreatePage(c, p, q) \/ MovePage(c, p, q)
       PROVE  (ListsInv /\ LikedInv)'
  <2>1. Only(c) /\ call'[c].at = "idle"
    BY <1>0, <1>20, RequestOnly DEF CreatePage, MovePage, Answered, Idle
  <2>2. /\ \/ pages' = pages /\ spare' = spare
           \/ p \in spare /\ pages' = pages \cup {p} /\ spare' = spare \ {p}
        /\ UNCHANGED <<users, favs, liked, strayed>>
    BY <1>20 DEF CreatePage, MovePage, cleanup
  <2>3. ListsInv'
    BY <1>b, <2>1, <2>2 DEF ListsInv
  <2> QED
    BY <2>2, <2>3 DEF LikedInv
<1>21. ASSUME NEW c \in Calls, ReadPages(c) PROVE (ListsInv /\ LikedInv)'
  <2>1. call[c].at = "read" /\ UNCHANGED <<owners, cleanup>>
    BY <1>21 DEF ReadPages, At
  <2>2. PICK blind \in SUBSET (call[c].list \cap pages) :
           call' = [call EXCEPT ![c] = [call[c] EXCEPT !.at = "delete", !.list = (call[c].list \cap pages) \ blind,
                                                     !.blind = blind]]
    BY <1>21 DEF ReadPages
  <2>3. Only(c) /\ call'[c] = [call[c] EXCEPT !.at = "delete", !.list = (call[c].list \cap pages) \ blind,
                                             !.blind = blind]
    BY <1>0, <2>2 DEF CallTypes, Only
  <2>4. /\ call'[c].at = "delete" /\ call'[c].was = call[c].was
        /\ call'[c].list = (call[c].list \cap pages) \ blind /\ call'[c].blind = blind
    BY <1>0, <2>1, <2>3 DEF CallRecs
  <2>5. call[c].was \cap pages \subseteq call[c].list /\ call[c].list \cap spare = {} /\ call[c].was \cap spare = {}
    BY <2>1 DEF ListsInv, Fits
  <2>6. Fits(call'[c])
    BY <2>4, <2>5 DEF Fits
  <2>7. ListsInv'
    BY <2>1, <2>3, <2>6 DEF ListsInv, Fits, Only, owners, tree, cleanup
  <2>8. LikedInv'
    BY <2>1 DEF LikedInv, owners, tree, cleanup
  <2> QED
    BY <2>7, <2>8
<1>22. ASSUME NEW c \in Calls, DeleteNode(c) PROVE (ListsInv /\ LikedInv)'
  <2> DEFINE gone == Subtree(call[c].page)
             list == call[c].list
  <2>1. call[c].at = "delete" /\ UNCHANGED <<spare, users, favs>> /\ pages' \subseteq pages /\ strayed \subseteq strayed'
    BY <1>22 DEF DeleteNode, At
  <2>2. list \cap spare = {}
    BY <2>1 DEF ListsInv, Fits
  <2>3. Only(c) /\ \/ call'[c] = Idle
                   \/ call'[c] = [at |-> "unfavorite", list |-> list] /\ list \cap pages' \subseteq strayed'
    <3>1. CASE /\ pages' = pages \ gone
               /\ call' = [call EXCEPT ![c] = IF list = {} THEN Idle ELSE [at |-> "unfavorite", list |-> list]]
               /\ strayed' = strayed \cup ((list \cap pages) \ gone)
      <4>1. Only(c) /\ call'[c] = IF list = {} THEN Idle ELSE [at |-> "unfavorite", list |-> list]
        BY <1>0, <3>1 DEF Only, CallTypes
      <4>2. list \cap pages' \subseteq strayed'
        BY <3>1
      <4> QED
        BY <4>1, <4>2
    <3>2. CASE To(c, "idle")
      BY <1>0, <3>2, ToOnly
    <3> QED
      BY <1>22, <3>1, <3>2 DEF DeleteNode
  <2>4. Fits(call[c])'
    BY <2>1, <2>2, <2>3 DEF Fits, Idle
  <2>5. \A d \in Calls \ {c} : Fits(call[d])' /\ call'[d] = call[d]
    BY <2>1, <2>3, FitsOn DEF ListsInv, Only
  <2>6. ListsInv'
    BY <2>1, <2>4, <2>5 DEF ListsInv, Fits
  <2>7. LikedInv'
    <3>1. \/ pages' = pages \ gone /\ liked' = {r \in liked : r[2] \notin gone}
          \/ pages' = pages /\ liked' = liked
      BY <1>22 DEF DeleteNode
    <3> QED
      BY <2>1, <3>1 DEF LikedInv
  <2> QED
    BY <2>6, <2>7
<1> QED
  BY <1>1, <1>2, <1>3, <1>4, <1>5, <1>6, <1>7, <1>8, <1>9, <1>10, <1>11, <1>12, <1>13, <1>14, <1>15,
     <1>16, <1>17, <1>18, <1>19, <1>20, <1>21, <1>22 DEF PreferencesNext

-----------------------------------------------------------------------------
(* The rows of the settings *)

\* A request that does not write a row leaves them to who holds the lock.
LEMMA RowKept ==
    ASSUME CallTypes, RowInv, NEW c \in Calls, Only(c), call'[c].at # "upsert", UNCHANGED settings
    PROVE  RowInv'
  BY DEF CallTypes, RowInv, Only, settings, Current

\* While the lock is free nobody is about to write.
LEMMA RowsFree ==
    ASSUME RowInv, rowLock = None
    PROVE  \A c \in Calls : call[c].at # "upsert"
  BY PreferencesAssumption DEF RowInv

\* Every step keeps what the answered updates asked for.
LEMMA RowNext == Types /\ RowInv /\ [PreferencesNext]_preferencesVars => RowInv'
<1> SUFFICES ASSUME Types, RowInv, [PreferencesNext]_preferencesVars PROVE RowInv'
  OBVIOUS
<1>0. CallTypes /\ \A c \in Calls : call[c] \in CallRecs
  BY DEF Types, CallTypes
<1>1. ASSUME NEW c \in Calls, NEW u \in Users, NEW p \in Pages, AddFavorite(c, u, p) PROVE RowInv'
  BY <1>0, <1>1, RowKept, RequestOnly DEF AddFavorite
<1>2. ASSUME NEW c \in Calls, NEW u \in Users, NEW p \in Pages, RemoveFavorite(c, u, p) PROVE RowInv'
  BY <1>0, <1>2, RowKept, RequestOnly DEF RemoveFavorite, Answered, Idle
<1>3. ASSUME NEW c \in Calls, Insert(c) PROVE RowInv'
  BY <1>0, <1>3, RowKept, ToAt DEF Insert, Idle
<1>4. ASSUME NEW c \in Calls, NEW p \in Pages, DeletePage(c, p) PROVE RowInv'
  <2>1. PICK k : Request(c, k) /\ k.at # "upsert"
    BY <1>4 DEF DeletePage
  <2> QED
    BY <1>0, <1>4, <2>1, RowKept, RequestOnly DEF DeletePage
<1>5. ASSUME NEW c \in Calls, DeleteAllForPage(c) PROVE RowInv'
  BY <1>0, <1>5, RowKept, ListStep DEF DeleteAllForPage, Cleans, settings
<1>6. ASSUME NEW c \in Calls, NEW u \in Users, DeleteUser(c, u) PROVE RowInv'
  BY <1>0, <1>6, RowKept, RequestOnly DEF DeleteUser
<1>7. ASSUME NEW c \in Calls, DeleteAllForUser(c) PROVE RowInv'
  <2>1. To(c, "reset") /\ UNCHANGED settings
    BY <1>7 DEF DeleteAllForUser, Cleans, settings
  <2> QED
    BY <1>0, <2>1, RowKept, ToAt
<1>8. ASSUME NEW c \in Calls, DeleteSettings(c) PROVE RowInv'
  <2>1. rowLock = None /\ To(c, "idle") /\ call[c].user \in Users
    BY <1>0, <1>8, Carried DEF DeleteSettings, Cleans, At
  <2>2. \/ UNCHANGED <<rows, want>>
        \/ rows' = [rows EXCEPT ![call[c].user] = None] /\ want' = [want EXCEPT ![call[c].user] = Default]
    BY <1>8 DEF DeleteSettings, Cleans
  <2>3. \A d \in Calls : call'[d].at # "upsert"
    BY <1>0, <2>1, RowsFree, ToAt DEF Only, Idle
  <2>4. \A u \in Users : Current(u)' = want'[u]
    BY <2>1, <2>2 DEF RowInv, Current, Types, SettingTypes
  <2> QED
    BY <2>3, <2>4 DEF RowInv
<1>9. ASSUME NEW c \in Calls, NEW u \in Users, NEW f \in Fields, NEW v \in Values, UpdateSettings(c, u, f, v)
      PROVE  RowInv'
  BY <1>0, <1>9, RowKept, RequestOnly DEF UpdateSettings
<1>10. ASSUME NEW c \in Calls, GetLocked(c) PROVE RowInv'
  <2> DEFINE k == call[c]
             row == [Current(k.user) EXCEPT ![k.field] = k.value]
  <2>1. k.user \in Users /\ k.field \in Fields /\ k.value \in Values
    BY <1>0, <1>10, Carried DEF GetLocked, At
  <2>2. call' = [call EXCEPT ![c] = [at |-> "upsert", user |-> k.user, field |-> k.field, row |-> row]]
        /\ rowLock' = c /\ rowLock = None /\ UNCHANGED <<rows, want>>
    BY <1>10 DEF GetLocked, RowFree
  <2>3. Current(k.user) = want[k.user] /\ want[k.user] \in Rows
    BY <2>1 DEF RowInv, Types, SettingTypes
  <2>4. \A f \in Fields \ {k.field} : row[f] = want[k.user][f]
    BY <2>3 DEF Rows
  <2> HIDE DEF row
  <2>5. \A d \in Calls : call'[d].at = "upsert" => d = c
    BY <1>0, <2>2, RowsFree DEF CallTypes
  <2>6. call'[c].user = k.user /\ call'[c].field = k.field /\ call'[c].row = row
    BY <1>0, <2>2 DEF CallTypes
  <2> QED
    BY <2>2, <2>4, <2>5, <2>6 DEF RowInv, Current
<1>11. ASSUME NEW c \in Calls, UpsertLocked(c) PROVE RowInv'
  <2> DEFINE u == call[c].user
             f == call[c].field
             row == call[c].row
  <2>1. call[c].at = "upsert" /\ u \in Users /\ f \in Fields /\ row \in Rows /\ To(c, "idle")
    BY <1>0, <1>11, Carried DEF UpsertLocked, At
  <2>2. \A d \in Calls : call'[d].at # "upsert"
    <3>1. Only(c) /\ call'[c].at = "idle"
      BY <1>0, <2>1, ToAt
    <3> QED
      BY <2>1, <3>1 DEF RowInv, Only
  <2>3. \/ UNCHANGED <<rows, want>>
        \/ rows' = [rows EXCEPT ![u] = row] /\ want' = [want EXCEPT ![u][f] = row[f]]
    BY <1>11 DEF UpsertLocked
  <2>4. row = [want[u] EXCEPT ![f] = row[f]]
    <3>1. \A g \in Fields \ {f} : row[g] = want[u][g]
      BY <2>1 DEF RowInv
    <3>2. want[u] \in Rows
      BY <2>1 DEF Types, SettingTypes
    <3> QED
      BY <2>1, <3>1, <3>2 DEF Rows
  <2>5. row # None
    BY <2>1, PreferencesAssumption
  <2>6. \A w \in Users : Current(w)' = want'[w]
    <3> HIDE DEF u, f, row
    <3> QED
      BY <2>1, <2>3, <2>4, <2>5 DEF RowInv, Current, Types, SettingTypes
  <2> QED
    BY <2>2, <2>6 DEF RowInv
<1>12. ASSUME NEW c \in Calls, NEW v \in Values, SetName(c, v) \/ SetFlag(c, v) PROVE RowInv'
  BY <1>0, <1>12, RowKept, RequestOnly DEF SetName, SetFlag, Answered, Idle
<1>13. ASSUME NEW c \in Calls, NEW s \in Slots, NEW e \in Exts, UploadImage(c, s, e) PROVE RowInv'
  BY <1>0, <1>13, RowKept, RequestOnly DEF UploadImage
<1>14. ASSUME NEW c \in Calls, WriteImage(c) PROVE RowInv'
  <2>1. (To(c, "others") \/ To(c, "idle")) /\ UNCHANGED settings
    BY <1>14 DEF WriteImage
  <2> QED
    BY <1>0, <2>1, RowKept, ToAt
<1>15. ASSUME NEW c \in Calls, RemoveOthers(c) PROVE RowInv'
  <2>1. To(c, "save") /\ UNCHANGED settings
    BY <1>15 DEF RemoveOthers
  <2> QED
    BY <1>0, <2>1, RowKept, ToAt
<1>16. ASSUME NEW c \in Calls, NEW s \in Slots, DeleteImage(c, s) PROVE RowInv'
  BY <1>0, <1>16, RowKept, RequestOnly DEF DeleteImage
<1>17. ASSUME NEW c \in Calls, SaveImage(c) PROVE RowInv'
  BY <1>0, <1>17, RowKept, ToAt DEF SaveImage, Idle
<1>18. CASE Crash
  BY <1>18 DEF Crash, RowInv, Current, Idle
<1>19. CASE UNCHANGED preferencesVars
  BY <1>19 DEF preferencesVars, settings, RowInv, Current
<1>20. ASSUME NEW c \in Calls, NEW p \in Pages, NEW q, CreatePage(c, p, q) \/ MovePage(c, p, q) PROVE RowInv'
  BY <1>0, <1>20, RowKept, RequestOnly DEF CreatePage, MovePage, Answered, Idle
<1>21. ASSUME NEW c \in Calls, ReadPages(c) \/ DeleteNode(c) PROVE RowInv'
  BY <1>0, <1>21, RowKept, TreeStep DEF ReadPages, DeleteNode
<1> QED
  BY <1>1, <1>2, <1>3, <1>4, <1>5, <1>6, <1>7, <1>8, <1>9, <1>10, <1>11, <1>12, <1>13, <1>14, <1>15,
     <1>16, <1>17, <1>18, <1>19, <1>20, <1>21 DEF PreferencesNext

-----------------------------------------------------------------------------
(* The branding *)

BrandInv == NameInv /\ ImageInv

\* A request that moves on without reading the configuration leaves it to who holds the lock.
LEMMA BrandKept ==
    ASSUME Types, BrandInv, NEW c \in Calls, Only(c), ~Holding(c), ~Holding(c)', UNCHANGED branding
    PROVE  BrandInv'
<1>1. Loaded' = Loaded
  BY DEF Loaded, branding
<1>2. \A d \in Calls : call[d].at \in {"image", "others", "save"} => call'[d] = call[d]
  BY DEF Only, Holding
<1>3. \A d \in Calls : call'[d].at \in {"image", "others", "save"} => call'[d] = call[d]
  BY DEF Only, Holding
<1>4. NameInv'
  BY <1>1, <1>3 DEF BrandInv, NameInv, Holding, branding
<1>5. ImageInv'
  <2>1. \A s \in Slots : Settled(s)' = Settled(s)
    BY DEF Settled, branding
  <2> QED
    BY <1>2, <1>3, <2>1 DEF BrandInv, ImageInv, branding
<1> QED
  BY <1>4, <1>5 DEF BrandInv

\* While the lock is free no image is changing.
LEMMA ImagesFree ==
    ASSUME NameInv, brandLock = None
    PROVE  \A c \in Calls : ~Holding(c)
  BY PreferencesAssumption DEF NameInv

\* What an image request read stays with it as it moves on.
LEMMA ImageMoves ==
    ASSUME CallTypes, NEW c \in Calls, call[c].at \in {"image", "others"}, NEW at \in {"others", "save"}, To(c, at)
    PROVE  /\ Only(c) /\ call'[c].at = at
           /\ call'[c].slot = call[c].slot /\ call'[c].ext = call[c].ext /\ call'[c].cfg = call[c].cfg
<1>1. Only(c) /\ call'[c].at = at /\ call'[c] = [call[c] EXCEPT !.at = at]
  BY ToOnly
<1>2. call[c] \in CallRecs
  BY DEF CallTypes
<1> QED
  BY <1>1, <1>2 DEF CallRecs

\* Put changes the value in memory and in the file together, or neither.
LEMMA PutBoth ==
    ASSUME BrandTypes, conf = Loaded, NEW new \in Confs, Put(new)
    PROVE  conf' = Loaded' /\ (conf' = conf \/ conf' = new)
  BY PreferencesAssumption DEF Put, Loaded, BrandTypes

\* Every step keeps the branding in order.
LEMMA BrandNext == Types /\ BrandInv /\ [PreferencesNext]_preferencesVars => BrandInv'
<1> SUFFICES ASSUME Types, BrandInv, [PreferencesNext]_preferencesVars PROVE BrandInv'
  OBVIOUS
<1>0. CallTypes /\ BrandTypes /\ \A c \in Calls : call[c] \in CallRecs
  BY DEF Types, CallTypes
<1>1. ASSUME NEW c \in Calls, NEW u \in Users, NEW p \in Pages, AddFavorite(c, u, p) PROVE BrandInv'
  BY <1>0, <1>1, BrandKept, RequestOnly DEF AddFavorite, Holding, Idle
<1>2. ASSUME NEW c \in Calls, NEW u \in Users, NEW p \in Pages, RemoveFavorite(c, u, p) PROVE BrandInv'
  BY <1>0, <1>2, BrandKept, RequestOnly DEF RemoveFavorite, Answered, Holding, Idle
<1>3. ASSUME NEW c \in Calls, Insert(c) PROVE BrandInv'
  BY <1>0, <1>3, BrandKept, ToAt DEF Insert, At, Holding
<1>4. ASSUME NEW c \in Calls, NEW p \in Pages, DeletePage(c, p) PROVE BrandInv'
  <2>1. PICK k : Request(c, k) /\ k.at \in {"read", "delete"}
    BY <1>4 DEF DeletePage
  <2> QED
    BY <1>0, <1>4, <2>1, BrandKept, RequestOnly DEF DeletePage, Holding, Idle
<1>5. ASSUME NEW c \in Calls, DeleteAllForPage(c) PROVE BrandInv'
  BY <1>0, <1>5, BrandKept, ListStep DEF DeleteAllForPage, Holding
<1>6. ASSUME NEW c \in Calls, NEW u \in Users, DeleteUser(c, u) PROVE BrandInv'
  BY <1>0, <1>6, BrandKept, RequestOnly DEF DeleteUser, Holding, Idle
<1>7. ASSUME NEW c \in Calls, DeleteAllForUser(c) PROVE BrandInv'
  BY <1>0, <1>7, BrandKept, ToAt DEF DeleteAllForUser, Cleans, At, Holding
<1>8. ASSUME NEW c \in Calls, DeleteSettings(c) PROVE BrandInv'
  BY <1>0, <1>8, BrandKept, ToAt DEF DeleteSettings, Cleans, At, Holding
<1>9. ASSUME NEW c \in Calls, NEW u \in Users, NEW f \in Fields, NEW v \in Values, UpdateSettings(c, u, f, v)
      PROVE  BrandInv'
  BY <1>0, <1>9, BrandKept, RequestOnly DEF UpdateSettings, Holding, Idle
<1>10. ASSUME NEW c \in Calls, GetLocked(c) PROVE BrandInv'
  <2>1. call[c].at = "lock" /\ Only(c) /\ call'[c].at = "upsert" /\ UNCHANGED branding
    BY <1>0, <1>10 DEF GetLocked, At, Only, CallTypes
  <2> QED
    BY <2>1, BrandKept DEF Holding
<1>11. ASSUME NEW c \in Calls, UpsertLocked(c) PROVE BrandInv'
  BY <1>0, <1>11, BrandKept, ToAt DEF UpsertLocked, At, Holding
<1>12. ASSUME NEW c \in Calls, NEW v \in Values, SetName(c, v) PROVE BrandInv'
  <2>1. Only(c) /\ (\A d \in Calls : ~Holding(d) /\ ~Holding(d)')
    BY <1>0, <1>12, RequestOnly, ImagesFree
       DEF SetName, Answered, BrandFree, BrandInv, Only, Holding, Idle
  <2>2. [conf EXCEPT !.name = v] \in Confs /\ [conf EXCEPT !.name = v].images = conf.images
    BY <1>0 DEF BrandTypes, Confs
  <2>3. conf' = Loaded' /\ conf'.images = conf.images /\ conf'.name = named' /\ UNCHANGED <<files, hurt>>
    BY <1>0, <1>12, <2>2, PutBoth DEF SetName, BrandInv, NameInv
  <2>4. \A s \in Slots : Settled(s)' = Settled(s)
    BY <2>3 DEF Settled
  <2> QED
    BY <2>1, <2>3, <2>4 DEF BrandInv, NameInv, ImageInv, Holding
<1>13. ASSUME NEW c \in Calls, NEW v \in Values, SetFlag(c, v) PROVE BrandInv'
  <2>1. Only(c) /\ ~Holding(c) /\ ~Holding(c)'
    BY <1>0, <1>13, RequestOnly DEF SetFlag, Answered, Holding, Idle
  <2>2. /\ [conf EXCEPT !.flag = v] \in Confs
        /\ [conf EXCEPT !.flag = v].images = conf.images /\ [conf EXCEPT !.flag = v].name = conf.name
    BY <1>0 DEF BrandTypes, Confs
  <2>3. conf' = Loaded' /\ conf'.images = conf.images /\ conf'.name = conf.name
        /\ UNCHANGED <<files, hurt, named, brandLock>>
    BY <1>0, <1>13, <2>2, PutBoth DEF SetFlag, BrandInv, NameInv
  <2>4. \A s \in Slots : Settled(s)' = Settled(s)
    BY <2>3 DEF Settled
  <2>5. \A d \in Calls : Holding(d) \/ Holding(d)' => call'[d] = call[d]
    BY <2>1 DEF Only
  <2> QED
    BY <2>3, <2>4, <2>5 DEF BrandInv, NameInv, ImageInv, Holding
<1>14. ASSUME NEW c \in Calls, NEW s \in Slots, NEW e \in Exts, UploadImage(c, s, e) PROVE BrandInv'
  <2>1. Only(c) /\ call'[c].at = "image" /\ call'[c].cfg = conf /\ brandLock' = c
        /\ UNCHANGED <<files, conf, json, hurt, named>>
    BY <1>0, <1>14, RequestOnly DEF UploadImage
  <2>2. \A d \in Calls : ~Holding(d)
    BY <1>14, ImagesFree DEF UploadImage, BrandFree, BrandInv
  <2>3. \A d \in Calls : call'[d].at \notin {"others", "save"} /\ (Holding(d)' => d = c)
    BY <2>1, <2>2 DEF Only, Holding
  <2>4. Loaded' = Loaded /\ \A t \in Slots : Settled(t)' = Settled(t)
    BY <2>1 DEF Loaded, Settled
  <2> QED
    BY <2>1, <2>2, <2>3, <2>4 DEF BrandInv, NameInv, ImageInv, Holding
<1>15. ASSUME NEW c \in Calls, WriteImage(c) PROVE BrandInv'
  <2> DEFINE s == call[c].slot
  <2>1. call[c].at = "image" /\ s \in Slots /\ call[c].ext \in Exts /\ brandLock = c
        /\ UNCHANGED <<conf, json, hurt, named>>
    BY <1>0, <1>15, Carried DEF WriteImage, At, BrandInv, NameInv, Holding
  <2>2. Loaded' = Loaded
    BY <2>1 DEF Loaded
  <2>3. \A d \in Calls \ {c} : ~Holding(d)
    BY <2>1 DEF BrandInv, NameInv
  <2>4. CASE To(c, "others") /\ files' = [files EXCEPT ![s] = @ \cup {call[c].ext}] /\ UNCHANGED brandLock
    <3>1. Only(c) /\ call'[c].at = "others" /\ call'[c].slot = s /\ call'[c].ext = call[c].ext
          /\ call'[c].cfg = call[c].cfg
      BY <1>0, <2>1, <2>4, ImageMoves
    <3>2. \A t \in Slots \ {s} : Settled(t)' = Settled(t)
      BY <1>0, <2>1, <2>4 DEF Settled, BrandTypes
    <3>3. call[c].ext \in files'[s]
      BY <1>0, <2>1, <2>4 DEF BrandTypes
    <3>4. \A d \in Calls \ {c} : ~Holding(d)'
      BY <2>3, <3>1 DEF Only, Holding
    <3>5. NameInv'
      BY <2>1, <2>2, <2>4, <3>1, <3>4 DEF BrandInv, NameInv, Holding
    <3>6. \A t \in Slots \ {s} : t \in hurt' \/ Settled(t)'
      BY <2>1, <2>3, <3>2 DEF BrandInv, ImageInv, Holding
    <3> QED
      BY <3>1, <3>3, <3>4, <3>5, <3>6 DEF BrandInv, ImageInv, Holding
  <2>5. CASE To(c, "idle") /\ brandLock' = None /\ UNCHANGED files
    <3>1. Only(c) /\ call'[c].at = "idle"
      BY <1>0, <2>5, ToAt
    <3>2. \A d \in Calls : ~Holding(d)'
      BY <2>3, <3>1 DEF Only, Holding
    <3>3. \A t \in Slots : Settled(t)' = Settled(t)
      BY <2>1, <2>5 DEF Settled
    <3> QED
      BY <2>1, <2>2, <2>3, <3>2, <3>3 DEF BrandInv, NameInv, ImageInv, Holding
  <2> QED
    BY <1>15, <2>4, <2>5 DEF WriteImage
<1>16. ASSUME NEW c \in Calls, RemoveOthers(c) PROVE BrandInv'
  <2> DEFINE s == call[c].slot
             e == call[c].ext
  <2>1. call[c].at = "others" /\ s \in Slots /\ e \in Exts /\ brandLock = c /\ To(c, "save")
        /\ UNCHANGED <<conf, json, brandLock, named>>
    BY <1>0, <1>16, Carried DEF RemoveOthers, At, BrandInv, NameInv, Holding
  <2>2. e \in files[s] /\ e # None
    BY <2>1, PreferencesAssumption DEF BrandInv, ImageInv
  <2>3. Loaded' = Loaded
    BY <2>1 DEF Loaded
  <2>4. Only(c) /\ call'[c].at = "save" /\ call'[c].slot = s /\ call'[c].ext = e /\ call'[c].cfg = call[c].cfg
    BY <1>0, <2>1, ImageMoves
  <2>5. \A d \in Calls \ {c} : ~Holding(d) /\ ~Holding(d)'
    BY <2>1, <2>4 DEF BrandInv, NameInv, Only, Holding
  <2>6. PICK gone \in SUBSET Others(c) :
          /\ files' = [files EXCEPT ![s] = @ \ gone]
          /\ \/ gone = Others(c) /\ hurt' = hurt \ {s}
             \/ hurt' = hurt \cup {s}
    BY <1>16 DEF RemoveOthers
  <2>7. s \in hurt' \/ files'[s] = {e} \ {None}
    BY <1>0, <2>1, <2>2, <2>6 DEF Others, BrandTypes
  <2>8. \A t \in Slots \ {s} : Settled(t)' = Settled(t) /\ (t \in hurt <=> t \in hurt')
    BY <1>0, <2>1, <2>6 DEF Settled, BrandTypes
  <2>9. \A t \in Slots \ {s} : t \in hurt' \/ Settled(t)'
    BY <2>1, <2>5, <2>8 DEF BrandInv, ImageInv, Holding
  <2>10. NameInv'
    BY <2>1, <2>3, <2>4, <2>5 DEF BrandInv, NameInv, Holding
  <2> QED
    BY <2>4, <2>5, <2>7, <2>9, <2>10 DEF BrandInv, ImageInv, Holding
<1>17. ASSUME NEW c \in Calls, NEW s \in Slots, DeleteImage(c, s) PROVE BrandInv'
  <2>1. Only(c) /\ call'[c].at = "save" /\ call'[c].slot = s /\ call'[c].ext = None /\ call'[c].cfg = conf
        /\ brandLock' = c /\ files' = [files EXCEPT ![s] = @ \ {conf.images[s]}]
        /\ UNCHANGED <<conf, json, hurt, named>>
    BY <1>0, <1>17, RequestOnly DEF DeleteImage
  <2>2. \A d \in Calls : ~Holding(d)
    BY <1>17, ImagesFree DEF DeleteImage, BrandFree, BrandInv
  <2>3. \A d \in Calls \ {c} : ~Holding(d)'
    BY <2>1, <2>2 DEF Only, Holding
  <2>4. \A t \in Slots : t \in hurt \/ Settled(t)
    BY <2>2 DEF BrandInv, ImageInv, Holding
  <2>5. s \in hurt' \/ files'[s] = {}
    BY <1>0, <2>1, <2>4 DEF Settled, BrandTypes
  <2>6. \A t \in Slots \ {s} : t \in hurt' \/ Settled(t)'
    BY <1>0, <2>1, <2>4 DEF Settled, BrandTypes
  <2>7. Loaded' = Loaded
    BY <2>1 DEF Loaded
  <2>8. NameInv'
    BY <2>1, <2>3, <2>7 DEF BrandInv, NameInv, Holding
  <2> QED
    BY <2>1, <2>3, <2>5, <2>6, <2>8 DEF BrandInv, ImageInv, Holding
<1>18. ASSUME NEW c \in Calls, SaveImage(c) PROVE BrandInv'
  <2> DEFINE s == call[c].slot
             e == call[c].ext
             cfg == call[c].cfg
             new == [conf EXCEPT !.name = cfg.name, !.images = [cfg.images EXCEPT ![s] = e]]
  <2>1. call[c].at = "save" /\ s \in Slots /\ e \in Exts \cup {None} /\ cfg \in Confs /\ brandLock = c
        /\ cfg.name = conf.name /\ cfg.images = conf.images /\ To(c, "idle")
        /\ UNCHANGED <<files, named>>
    BY <1>0, <1>18, Carried DEF SaveImage, At, BrandInv, NameInv, Holding
  <2>2. new \in Confs /\ new.name = conf.name /\ new.images = [conf.images EXCEPT ![s] = e]
    BY <1>0, <2>1 DEF BrandTypes, Confs
  <2>3. Put(new) /\ hurt' = IF conf'.images[s] = e THEN hurt ELSE hurt \cup {s}
    BY <1>18 DEF SaveImage
  <2> HIDE DEF new
  <2>4. conf' = Loaded' /\ (conf' = conf \/ conf' = new)
    BY <1>0, <2>2, <2>3, PutBoth DEF BrandInv, NameInv
  <2>5. \A d \in Calls : ~Holding(d)'
    <3>1. Only(c) /\ call'[c].at = "idle"
      BY <1>0, <2>1, ToAt
    <3> QED
      BY <2>1, <3>1 DEF BrandInv, NameInv, Only, Holding
  <2>6. \A t \in Slots \ {s} : t \in hurt' \/ Settled(t)'
    <3>1. \A t \in Slots \ {s} : t \in hurt \/ Settled(t)
      BY <2>1 DEF BrandInv, ImageInv, NameInv, Holding
    <3>2. \A t \in Slots \ {s} : conf'.images[t] = conf.images[t]
      BY <1>0, <2>2, <2>4 DEF BrandTypes, Confs
    <3> QED
      BY <2>1, <2>3, <3>1, <3>2 DEF Settled
  <2>7. s \in hurt' \/ files'[s] = {conf'.images[s]} \ {None}
    BY <2>1, <2>3 DEF BrandInv, ImageInv, NameInv, Settled, Holding
  <2>8. NameInv'
    BY <2>1, <2>2, <2>4, <2>5 DEF BrandInv, NameInv
  <2>9. ImageInv'
    <3>1. \A t \in Slots : t \in hurt' \/ Settled(t)'
      BY <2>6, <2>7 DEF Settled
    <3> QED
      BY <2>5, <3>1 DEF ImageInv, Holding
  <2> QED
    BY <2>8, <2>9 DEF BrandInv
<1>19. CASE Crash
  <2>1. \A d \in Calls : ~Holding(d)' /\ call'[d].at = "idle"
    BY <1>19 DEF Crash, Idle, Holding
  <2>2. conf' = conf /\ Loaded' = Loaded /\ UNCHANGED <<files, named>> /\ hurt \subseteq hurt'
    BY <1>19 DEF Crash, BrandInv, NameInv, Loaded
  <2>3. \A d \in Calls : call[d].at \in {"others", "save"} => call[d].slot \in hurt'
    BY <1>19 DEF Crash
  <2>4. \A s \in Slots : Settled(s)' = Settled(s)
    BY <2>2 DEF Settled
  <2> QED
    BY <2>1, <2>2, <2>3, <2>4 DEF BrandInv, NameInv, ImageInv
<1>20. CASE UNCHANGED preferencesVars
  <2>1. Loaded' = Loaded /\ \A s \in Slots : Settled(s)' = Settled(s)
    BY <1>20 DEF preferencesVars, branding, Loaded, Settled
  <2> QED
    BY <1>20, <2>1 DEF preferencesVars, branding, BrandInv, NameInv, ImageInv, Holding
<1>21. ASSUME NEW c \in Calls, NEW p \in Pages, NEW q, CreatePage(c, p, q) \/ MovePage(c, p, q) PROVE BrandInv'
  BY <1>0, <1>21, BrandKept, RequestOnly DEF CreatePage, MovePage, Answered, Holding, Idle
<1>22. ASSUME NEW c \in Calls, ReadPages(c) \/ DeleteNode(c) PROVE BrandInv'
  BY <1>0, <1>22, BrandKept, TreeStep DEF ReadPages, DeleteNode, Holding
<1> QED
  BY <1>1, <1>2, <1>3, <1>4, <1>5, <1>6, <1>7, <1>8, <1>9, <1>10, <1>11, <1>12, <1>13, <1>14, <1>15,
     <1>16, <1>17, <1>18, <1>19, <1>20, <1>21, <1>22 DEF PreferencesNext

-----------------------------------------------------------------------------

LEMMA InitPreferences == PreferencesInit => PreferencesInv
<1> SUFFICES ASSUME PreferencesInit PROVE PreferencesInv
  OBVIOUS
<1>1. Types
  BY DEF PreferencesInit, Types, OwnerTypes, SettingTypes, BrandTypes, CallTypes, CallRecs, Idle, Default, DefaultConf, Rows, Confs
<1>2. OwnerInv
  BY DEF PreferencesInit, OwnerInv
<1>5. ListsInv /\ LikedInv
  BY DEF PreferencesInit, ListsInv, LikedInv, Fits, Idle
<1>3. RowInv
  BY DEF PreferencesInit, RowInv, Current, Idle
<1>4. NameInv /\ ImageInv
  BY DEF PreferencesInit, NameInv, ImageInv, Loaded, DefaultConf, Holding, Settled, Idle
<1> QED
  BY <1>1, <1>2, <1>3, <1>4, <1>5 DEF PreferencesInv

LEMMA NextPreferences == PreferencesInv /\ [PreferencesNext]_preferencesVars => PreferencesInv'
  BY TypesNext, OwnerNext, ListsNext, RowNext, BrandNext DEF PreferencesInv, BrandInv

\* What a request carries at each of its steps, and what the tables, the
\* files and the settings may hold.
THEOREM TypesStand == PreferencesSpec => []Types
<1>1. PreferencesInv => Types
  BY DEF PreferencesInv
<1> QED
  BY InitPreferences, NextPreferences, <1>1, PTL DEF PreferencesSpec

\* Whatever requests overlap, fail or are cut short, and however deletions,
\* creations and moves of pages interleave: once no deletion is cleaning up, a
\* favourite or a row of settings without its page or user was added after the
\* deletion, its clean-up failed or never began, or its page went with a
\* recursive deletion that did not have it on its list.
THEOREM RowsFollowOwners == PreferencesSpec => []OnlyRacesOrphan
<1>1. PreferencesInv => OnlyRacesOrphan
  <2>1. ASSUME PreferencesInv, \A c \in Calls : ~Deleting(c), NEW step, NEW x PROVE ~Cleaning(step, x)
    BY <2>1 DEF Cleaning, Deleting
  <2> QED
    BY <2>1 DEF PreferencesInv, OwnerInv, OnlyRacesOrphan
<1> QED
  BY InitPreferences, NextPreferences, <1>1, PTL DEF PreferencesSpec

\* No answered change of a user's row or of the site name is lost to another
\* one made from an older reading; memory and disk agree, and between requests
\* the images on disk are those the branding names, but for the excused slots;
\* a favourite of a page that never left a subtree under deletion stays as long
\* as page and user unless it is removed.
THEOREM ChoicesKept == PreferencesSpec => []ChoicesStand
<1>1. PreferencesInv => ChoicesStand
  <2>1. PreferencesInv => UpdatesKept
    BY DEF PreferencesInv, RowInv, NameInv, UpdatesKept
  <2>2. PreferencesInv => BrandingStands
    BY ImagesFree DEF PreferencesInv, NameInv, ImageInv, BrandingStands, Settled, Holding
  <2>3. PreferencesInv => FavouritesStay
    BY DEF PreferencesInv, LikedInv, FavouritesStay
  <2> QED
    BY <2>1, <2>2, <2>3 DEF ChoicesStand
<1> QED
  BY InitPreferences, NextPreferences, <1>1, PTL DEF PreferencesSpec
=============================================================================

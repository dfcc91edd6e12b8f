----------------------- MODULE SessionWriteLock_proofs ------------------------
(***************************************************************************)
(* Proofs about SessionWriteLock, for every number of callers and          *)
(* processes and every use of process ids: the types, the table of held    *)
(* locks and its counts, the exclusion and the release that removes its    *)
(* own file only.                                                          *)
(***************************************************************************)
EXTENDS SessionWriteLock, FiniteSetTheorems, TLAPS

(* A task that has had a HeldLock in HELD_LOCKS.                           *)
Past == {"holding", "done", "gone"}

(* A task whose lock file is at the path but not yet in HELD_LOCKS.        *)
Creating == {"write", "undo", "register"}

(* The callers that share a HeldLock.                                      *)
Sharers(h) == {t \in Tasks : lock[t] = h}

(* Nobody stopped, overran staleMs or cleaned up; the watchdog or a signal *)
(* may have taken locks.                                                   *)
Calm == StartTimes /\ events \subseteq {"watchdog", "signal"}

HoldersHaveLocks == \A t \in Tasks : pc[t] = "holding" <=> lock[t] # NoTask

(* A HeldLock is known in the process of its creator only, and only after  *)
(* the creator has put it into HELD_LOCKS; it is not closed while it is    *)
(* there.                                                                  *)
KnownAtHome ==
  /\ \A t \in Tasks :
       lock[t] # NoTask => Home[lock[t]] = Home[t] /\ pc[lock[t]] \in Past
  /\ \A p \in Processes :
       held[p] # NoTask => Home[held[p]] = p /\ pc[held[p]] \in Past
  /\ \A o \in closing : pc[o] \in Past /\ held[Home[o]] # o

FewSharers == \A h \in Tasks : IsFiniteSet(Sharers(h))

(* Without a stop, an overrun or a cleanup nothing is stale.               *)
CalmIsFresh ==
  Calm =>
    /\ ~file.old
    /\ cleaner # "remove"
    /\ \A t \in Tasks : pc[t] # "reclaim" /\ (pc[t] # "idle" => Up(Home[t]))

(* Whoever creates, holds or closes a lock has its own file at the path,   *)
(* so that there is only one of them; and the file is one of theirs.       *)
CalmIsOwned ==
  Calm =>
    /\ \A t \in Tasks : pc[t] \in Creating => file.by = t
    /\ \A p \in Processes : held[p] # NoTask => file.by = held[p]
    /\ \A o \in closing : file.by = o
    /\ file # NoFile =>
         \/ pc[file.by] \in Creating
         \/ held[Owner] = file.by
         \/ file.by \in closing

(* Nobody holds a lock that is no longer in the table.                     *)
UndisturbedIsCurrent ==
  StartTimes /\ events = {} => \A t \in Tasks : lock[t] # NoTask => IsCurrent(t)

LockInv ==
  /\ TypeOK
  /\ file.by = NoTask => file = NoFile
  /\ HoldersHaveLocks
  /\ KnownAtHome
  /\ FewSharers
  /\ CountsReferences
  /\ CalmIsFresh
  /\ CalmIsOwned
  /\ UndisturbedIsCurrent

-----------------------------------------------------------------------------
(* The invariant holds before any process runs.                            *)
LEMMA LockInvInit == Init => LockInv
<1> SUFFICES ASSUME Init PROVE LockInv
  OBVIOUS
<1> USE LockAssumption DEF Init
<1>1. TypeOK /\ (file.by = NoTask => file = NoFile)
  BY DEF TypeOK, NoFile
<1>2. HoldersHaveLocks /\ KnownAtHome
  BY DEF HoldersHaveLocks, KnownAtHome
<1>3. FewSharers
  <2>1. \A h \in Tasks : Sharers(h) = {}
    BY DEF Sharers
  <2>. QED
    BY <2>1, FS_EmptySet DEF FewSharers
<1>4. CountsReferences /\ UndisturbedIsCurrent
  BY DEF CountsReferences, UndisturbedIsCurrent
<1>5. CalmIsFresh /\ CalmIsOwned
  BY DEF CalmIsFresh, CalmIsOwned, NoFile, Creating
<1>. QED
  BY <1>1, <1>2, <1>3, <1>4, <1>5 DEF LockInv

(* The steps that touch the locks of a process, its table or its counts;   *)
(* the others leave all four alone.                                        *)
LEMMA TableSteps ==
  ASSUME [Next]_vars
  PROVE  \/ UNCHANGED tableVars
         \/ \E t \in Tasks : Enter(t) \/ Register(t) \/ Release(t) \/ FinishRelease(t)
         \/ \E p \in Processes : Watchdog(p) \/ Signalled(p) \/ Gone(p)
<1>1. ASSUME NEW t \in Tasks, TaskStep(t)
      PROVE  \/ UNCHANGED tableVars
             \/ Enter(t) \/ Register(t) \/ Release(t) \/ FinishRelease(t)
  BY <1>1 DEF TaskStep, Open, Write, Undo, Inspect, Stat, Reclaim, Sleep
<1>2. ASSUME NEW t \in Tasks, WriteFails(t) \/ GiveUp(t) PROVE UNCHANGED tableVars
  BY <1>2 DEF WriteFails, GiveUp
<1>3. ASSUME NEW p \in Processes, Watchdog(p) \/ Start(p) \/ Crash(p) \/ Exit(p) \/ Signalled(p)
      PROVE  UNCHANGED tableVars \/ Watchdog(p) \/ Signalled(p) \/ Gone(p)
  BY <1>3 DEF Start, Crash, Exit
<1>4. CleanRead \/ CleanRemove \/ GrowOld \/ UNCHANGED vars => UNCHANGED tableVars
  BY DEF CleanRead, CleanRemove, GrowOld, vars
<1>. QED
  BY <1>1, <1>2, <1>3, <1>4 DEF Next

(* A lock in the table is counted as often as it is shared, and at least   *)
(* once when somebody has it.                                              *)
LEMMA Counted ==
  ASSUME LockInv, NEW t \in Tasks, lock[t] # NoTask, IsCurrent(t)
  PROVE  /\ lock[t] \in Tasks /\ held[Home[t]] = lock[t]
         /\ IsFiniteSet(Sharers(lock[t])) /\ t \in Sharers(lock[t])
         /\ count[lock[t]] = Cardinality(Sharers(lock[t]))
         /\ count[lock[t]] \in Nat \ {0}
<1>1. lock[t] \in Tasks /\ Home[t] \in Processes /\ held[Home[t]] = lock[t]
  BY LockAssumption DEF LockInv, TypeOK, IsCurrent
<1>2. IsFiniteSet(Sharers(lock[t])) /\ t \in Sharers(lock[t])
  BY <1>1 DEF LockInv, FewSharers, Sharers
<1>3. count[lock[t]] = Cardinality(Sharers(lock[t]))
  BY <1>1 DEF LockInv, CountsReferences, Sharers
<1>4. Cardinality(Sharers(lock[t])) \in Nat /\ Cardinality(Sharers(lock[t])) # 0
  BY <1>2, FS_CardinalityType, FS_EmptySet
<1>. QED
  BY <1>1, <1>2, <1>3, <1>4

(* Every step keeps the types,                                             *)
LEMMA TypeStep == LockInv /\ [Next]_vars => TypeOK'
<1> SUFFICES ASSUME LockInv, [Next]_vars PROVE TypeOK'
  OBVIOUS
<1>t. TypeOK /\ HoldersHaveLocks /\ (Home \in [Tasks -> Processes]) /\ NoTask \notin Tasks
  BY LockAssumption DEF LockInv
<1>f. NoFile \in [by : Tasks \cup {NoTask}, written : BOOLEAN, old : BOOLEAN]
  BY DEF NoFile
<1>1. ASSUME NEW t \in Tasks, Enter(t) PROVE TypeOK'
  BY <1>1, <1>t DEF Enter, Goto, SharedCount, TypeOK
<1>2. ASSUME NEW t \in Tasks, Open(t) PROVE TypeOK'
  <2>1. file' \in [by : Tasks \cup {NoTask}, written : BOOLEAN, old : BOOLEAN]
    <3>1. [by |-> t, written |-> FALSE, old |-> FALSE] \in
            [by : Tasks \cup {NoTask}, written : BOOLEAN, old : BOOLEAN]
      OBVIOUS
    <3>. QED
      BY <1>2, <1>t, <3>1 DEF Open, TypeOK
  <2>2. pc' = [pc EXCEPT ![t] = IF file = NoFile THEN "write" ELSE "read"]
    BY <1>2 DEF Open, Goto, AfterEexist
  <2>. QED
    BY <1>2, <2>1, <2>2, <1>t DEF Open, TypeOK, tableVars
<1>3. ASSUME NEW t \in Tasks, Write(t) PROVE TypeOK'
  BY <1>3, <1>t DEF Write, Goto, TypeOK, tableVars
<1>4. ASSUME NEW t \in Tasks, Register(t) PROVE TypeOK'
  BY <1>4, <1>t DEF Register, Goto, TypeOK
<1>5. ASSUME NEW t \in Tasks, Release(t) PROVE TypeOK'
  <2>1. lock[t] \in Tasks
    BY <1>5, <1>t DEF Release, HoldersHaveLocks, TypeOK
  <2>2. CASE IsCurrent(t)
    <3>1. count[lock[t]] - 1 \in Nat
      BY <2>1, <2>2, <1>t, Counted
    <3>2. count' \in [Tasks -> Nat]
      BY <1>5, <2>1, <2>2, <3>1, <1>t DEF Release, TypeOK
    <3>. QED
      BY <1>5, <2>1, <2>2, <3>2, <1>t DEF Release, Goto, TypeOK
  <2>3. CASE ~IsCurrent(t)
    BY <1>5, <2>3, <1>t DEF Release, Goto, TypeOK
  <2>. QED
    BY <2>2, <2>3
<1>6. ASSUME NEW t \in Tasks,
             \/ Undo(t) \/ Inspect(t) \/ Stat(t) \/ Reclaim(t) \/ Sleep(t)
             \/ WriteFails(t) \/ GiveUp(t)
      PROVE  TypeOK'
  BY <1>6, <1>t, <1>f
  DEF Undo, Inspect, Stat, Reclaim, Sleep, WriteFails, GiveUp, Goto, Verdict,
      AfterWriteFailure, TypeOK, tableVars
<1>7. ASSUME NEW t \in Tasks, FinishRelease(t) PROVE TypeOK'
  BY <1>7, <1>t, <1>f DEF FinishRelease, TypeOK
<1>8. ASSUME NEW p \in Processes, Watchdog(p) \/ Signalled(p) PROVE TypeOK'
  <2>1. CASE Watchdog(p)
    BY <2>1, <1>t DEF Watchdog, TypeOK
  <2>2. CASE Signalled(p)
    BY <2>2, <1>t, <1>f DEF Signalled, TypeOK
  <2>. QED
    BY <1>8, <2>1, <2>2
<1>9. ASSUME NEW p \in Processes, Start(p) PROVE TypeOK'
  BY <1>9, <1>t DEF Start, TypeOK, tableVars
<1>10. ASSUME NEW p \in Processes, Gone(p), UNCHANGED file \/ file' = NoFile PROVE TypeOK'
  BY <1>10, <1>t, <1>f DEF Gone, TypeOK
<1>11. CASE CleanRead \/ CleanRemove
  BY <1>11, <1>t, <1>f DEF CleanRead, CleanRemove, TypeOK, tableVars
<1>12. CASE GrowOld
  BY <1>12, <1>t DEF GrowOld, TypeOK, tableVars
<1>13. CASE UNCHANGED vars
  BY <1>13, <1>t DEF vars, TypeOK, tableVars
<1>. QED
  BY <1>1, <1>2, <1>3, <1>4, <1>5, <1>6, <1>7, <1>8, <1>9, <1>10, <1>11, <1>12, <1>13
  DEF Next, TaskStep, Crash, Exit

(* The file at the path has a creator, or there is none.                   *)
LEMMA FileStep ==
  LockInv /\ [Next]_vars => (file.by = NoTask => file = NoFile)'
<1> SUFFICES ASSUME LockInv, [Next]_vars PROVE file'.by = NoTask => file' = NoFile
  OBVIOUS
<1>t. (file.by = NoTask => file = NoFile) /\ NoTask \notin Tasks /\ TypeOK
  BY LockAssumption DEF LockInv
<1>1. ASSUME NEW t \in Tasks, TaskStep(t) PROVE file'.by = NoTask => file' = NoFile
  BY <1>1, <1>t
  DEF TaskStep, Enter, Open, Write, Undo, Register, Inspect, Stat, Reclaim, Sleep, Release,
      FinishRelease, TypeOK
<1>2. ASSUME NEW t \in Tasks, WriteFails(t) \/ GiveUp(t) PROVE file' = file
  BY <1>2 DEF WriteFails, GiveUp
<1>3. ASSUME NEW p \in Processes, Watchdog(p) \/ Start(p) \/ Crash(p) \/ Exit(p) \/ Signalled(p)
      PROVE  file' = file \/ file' = NoFile
  BY <1>3 DEF Watchdog, Start, Crash, Exit, Signalled
<1>4. CASE CleanRead \/ CleanRemove
  BY <1>4, <1>t DEF CleanRead, CleanRemove
<1>5. CASE GrowOld
  BY <1>5, <1>t DEF GrowOld, TypeOK
<1>6. CASE UNCHANGED vars
  BY <1>6, <1>t DEF vars
<1>. QED
  BY <1>1, <1>2, <1>3, <1>4, <1>5, <1>6, <1>t DEF Next

-----------------------------------------------------------------------------
(* A creator that has had its HeldLock in the table stays one that has.    *)
LEMMA PastStays ==
  ASSUME LockInv, [Next]_vars, NEW d \in Tasks, pc[d] \in Past
  PROVE  pc'[d] \in Past
<1>t. TypeOK
  BY DEF LockInv
<1>1. ASSUME NEW t \in Tasks, TaskStep(t) \/ WriteFails(t) \/ GiveUp(t)
      PROVE  pc'[d] \in Past
  <2>1. d # t => pc'[d] = pc[d]
    BY <1>1, <1>t
    DEF TaskStep, Enter, Open, Write, Undo, Register, Inspect, Stat, Reclaim, Sleep,
        Release, FinishRelease, WriteFails, GiveUp, Goto, TypeOK
  <2>2. d = t => Release(t) \/ FinishRelease(t)
    BY <1>1
    DEF TaskStep, Enter, Open, Write, Undo, Register, Inspect, Stat, Reclaim, Sleep,
        WriteFails, GiveUp, Past
  <2>3. Release(t) \/ FinishRelease(t) => pc'[d] \in Past
    BY <1>t DEF Release, FinishRelease, Goto, Past, TypeOK
  <2>. QED
    BY <2>1, <2>2, <2>3
<1>2. ASSUME NEW p \in Processes, Watchdog(p) \/ Start(p) \/ Crash(p) \/ Exit(p) \/ Signalled(p)
      PROVE  pc'[d] \in Past
  BY <1>2, <1>t DEF Watchdog, Start, Crash, Exit, Signalled, Gone, Past, TypeOK
<1>3. CleanRead \/ CleanRemove \/ GrowOld \/ UNCHANGED vars => pc' = pc
  BY DEF CleanRead, CleanRemove, GrowOld, vars
<1>. QED
  BY <1>1, <1>2, <1>3 DEF Next

(* that who holds the lock has its HeldLock,                               *)
LEMMA HoldersStep == LockInv /\ [Next]_vars => HoldersHaveLocks'
<1> SUFFICES ASSUME LockInv, [Next]_vars, NEW d \in Tasks
             PROVE  pc'[d] = "holding" <=> lock'[d] # NoTask
  BY DEF HoldersHaveLocks
<1>t. /\ TypeOK /\ HoldersHaveLocks /\ (pc[d] = "holding" <=> lock[d] # NoTask)
      /\ NoTask \notin Tasks
  BY LockAssumption DEF LockInv, HoldersHaveLocks
<1>1. ASSUME NEW t \in Tasks, Enter(t) PROVE pc'[d] = "holding" <=> lock'[d] # NoTask
  BY <1>1, <1>t DEF Enter, Goto, TypeOK
<1>2. ASSUME NEW t \in Tasks,
             \/ Open(t) \/ Write(t) \/ Undo(t) \/ Inspect(t) \/ Stat(t) \/ Reclaim(t)
             \/ Sleep(t) \/ WriteFails(t) \/ GiveUp(t)
      PROVE  pc'[d] = "holding" <=> lock'[d] # NoTask
  <2>1. pc[t] # "holding" /\ lock' = lock
    BY <1>2
    DEF Open, Write, Undo, Inspect, Stat, Reclaim, Sleep, WriteFails, GiveUp, tableVars
  <2>2. pc'[d] = "holding" <=> pc[d] = "holding"
    BY <1>2, <2>1, <1>t
    DEF Open, Write, Undo, Inspect, Stat, Reclaim, Sleep, WriteFails, GiveUp, Goto,
        Verdict, AfterEexist, AfterWriteFailure, TypeOK
  <2>. QED
    BY <2>1, <2>2, <1>t
<1>3. ASSUME NEW t \in Tasks, Register(t) \/ Release(t) \/ FinishRelease(t)
      PROVE  pc'[d] = "holding" <=> lock'[d] # NoTask
  BY <1>3, <1>t DEF Register, Release, FinishRelease, Goto, TypeOK
<1>4. ASSUME NEW p \in Processes, Watchdog(p) \/ Start(p) \/ Crash(p) \/ Exit(p) \/ Signalled(p)
      PROVE  pc'[d] = "holding" <=> lock'[d] # NoTask
  BY <1>4, <1>t DEF Watchdog, Start, Crash, Exit, Signalled, Gone, TypeOK, tableVars
<1>5. CleanRead \/ CleanRemove \/ GrowOld \/ UNCHANGED vars => pc' = pc /\ lock' = lock
  BY DEF CleanRead, CleanRemove, GrowOld, vars, tableVars
<1>. QED
  BY <1>1, <1>2, <1>3, <1>4, <1>5, <1>t DEF Next, TaskStep

(* that a HeldLock is known in its own process only,                       *)
LEMMA KnownStep == LockInv /\ [Next]_vars => KnownAtHome'
<1> SUFFICES ASSUME LockInv, [Next]_vars PROVE KnownAtHome'
  OBVIOUS
<1>t. TypeOK /\ KnownAtHome /\ NoTask \notin Tasks /\ Home \in [Tasks -> Processes]
  BY LockAssumption DEF LockInv
<1>p. \A d \in Tasks : pc[d] \in Past => pc'[d] \in Past
  BY PastStays
<1>1. CASE UNCHANGED tableVars
  BY <1>1, <1>t, <1>p DEF KnownAtHome, TypeOK, tableVars
<1>2. ASSUME NEW t \in Tasks, Enter(t) PROVE KnownAtHome'
  BY <1>2, <1>t, <1>p DEF Enter, KnownAtHome, TypeOK
<1>3. ASSUME NEW t \in Tasks, Register(t) PROVE KnownAtHome'
  <2>1. pc'[t] = "holding" /\ t \notin closing
    BY <1>3, <1>t DEF Register, Goto, KnownAtHome, Past, TypeOK
  <2>. QED
    BY <1>3, <2>1, <1>t, <1>p DEF Register, KnownAtHome, TypeOK, Past
<1>4. ASSUME NEW t \in Tasks, Release(t) PROVE KnownAtHome'
  <2>1. lock[t] \in Tasks /\ Home[lock[t]] = Home[t] /\ pc[lock[t]] \in Past
    BY <1>4, <1>t DEF Release, KnownAtHome, LockInv, HoldersHaveLocks, TypeOK
  <2>. QED
    BY <1>4, <2>1, <1>t, <1>p DEF Release, KnownAtHome, TypeOK, IsCurrent
<1>5. ASSUME NEW t \in Tasks, FinishRelease(t) PROVE KnownAtHome'
  BY <1>5, <1>t, <1>p DEF FinishRelease, KnownAtHome, TypeOK
<1>6. ASSUME NEW p \in Processes, Watchdog(p) \/ Signalled(p) PROVE KnownAtHome'
  BY <1>6, <1>t, <1>p DEF Watchdog, Signalled, KnownAtHome, TypeOK
<1>7. ASSUME NEW p \in Processes, Gone(p) PROVE KnownAtHome'
  BY <1>7, <1>t, <1>p DEF Gone, KnownAtHome, TypeOK
<1>. QED
  BY <1>1, <1>2, <1>3, <1>4, <1>5, <1>6, <1>7, TableSteps

(* that a HeldLock has finitely many sharers,                              *)
LEMMA FewStep == LockInv /\ [Next]_vars => FewSharers'
<1> SUFFICES ASSUME LockInv, [Next]_vars, NEW h \in Tasks PROVE IsFiniteSet(Sharers(h)')
  BY DEF FewSharers
<1>t. TypeOK /\ IsFiniteSet(Sharers(h))
  BY DEF LockInv, FewSharers
<1>1. CASE UNCHANGED tableVars
  BY <1>1, <1>t DEF Sharers, tableVars
<1>2. ASSUME NEW t \in Tasks, \/ Enter(t) \/ Register(t) \/ Release(t) \/ FinishRelease(t)
      PROVE  IsFiniteSet(Sharers(h)')
  <2>1. Sharers(h)' \subseteq Sharers(h) \cup {t}
    BY <1>2, <1>t DEF Enter, Register, Release, FinishRelease, Sharers, TypeOK
  <2>2. IsFiniteSet(Sharers(h) \cup {t})
    BY <1>t, FS_AddElement
  <2>. QED
    BY <2>1, <2>2, FS_Subset
<1>3. ASSUME NEW p \in Processes, Watchdog(p) \/ Signalled(p) \/ Gone(p)
      PROVE  IsFiniteSet(Sharers(h)')
  <2>1. Sharers(h)' \subseteq Sharers(h)
    BY <1>3, <1>t, LockAssumption DEF Watchdog, Signalled, Gone, Sharers, TypeOK
  <2>. QED
    BY <2>1, <1>t, FS_Subset
<1>. QED
  BY <1>1, <1>2, <1>3, TableSteps

(* Every step that changes who shares a lock in the table changes its      *)
(* count with it.                                                          *)
LEMMA CountsStep == LockInv /\ [Next]_vars => CountsReferences'
<1> SUFFICES ASSUME LockInv, [Next]_vars, NEW p \in Processes, held'[p] # NoTask
             PROVE  count'[held'[p]] = Cardinality(Sharers(held[p])')
  BY DEF CountsReferences, Sharers
<1>t. /\ TypeOK /\ KnownAtHome /\ HoldersHaveLocks
      /\ NoTask \notin Tasks /\ Home \in [Tasks -> Processes]
      /\ held[p] # NoTask => count[held[p]] = Cardinality(Sharers(held[p]))
      /\ \A h \in Tasks : IsFiniteSet(Sharers(h))
  BY LockAssumption DEF LockInv, CountsReferences, FewSharers, Sharers
<1>s. ASSUME held'[p] = held[p], count'[held[p]] = count[held[p]],
             Sharers(held[p])' = Sharers(held[p])
      PROVE  count'[held'[p]] = Cardinality(Sharers(held[p])')
  BY <1>s, <1>t
<1>1. CASE UNCHANGED tableVars
  BY <1>1, <1>s DEF Sharers, tableVars
<1>2. ASSUME NEW t \in Tasks, Enter(t)
      PROVE  count'[held'[p]] = Cardinality(Sharers(held[p])')
  <2>1. lock[t] = NoTask /\ held' = held /\ held[p] \in Tasks /\ Home[t] \in Processes
    BY <1>2, <1>t DEF Enter, HoldersHaveLocks, TypeOK
  <2>2. CASE UNCHANGED <<count, lock>>
    BY <2>1, <2>2, <1>s DEF Sharers
  <2>3. CASE ~UNCHANGED <<count, lock>>
    <3>1. /\ held[Home[t]] \in Tasks
          /\ count' = [count EXCEPT ![held[Home[t]]] = count[held[Home[t]]] + 1]
          /\ lock' = [lock EXCEPT ![t] = held[Home[t]]]
      BY <1>2, <2>3, <1>t DEF Enter, SharedCount, TypeOK
    <3>2. CASE p = Home[t]
      <4>1. Sharers(held[p])' = Sharers(held[p]) \cup {t} /\ t \notin Sharers(held[p])
        BY <2>1, <3>1, <3>2, <1>t DEF Sharers, TypeOK
      <4>2. count'[held'[p]] = count[held[p]] + 1
        BY <2>1, <3>1, <3>2, <1>t DEF TypeOK
      <4>. QED
        BY <4>1, <4>2, <2>1, <1>t, FS_AddElement
    <3>3. CASE p # Home[t]
      <4>1. held[p] # held[Home[t]]
        BY <2>1, <3>1, <3>3, <1>t DEF KnownAtHome
      <4>2. Sharers(held[p])' = Sharers(held[p])
        BY <4>1, <2>1, <3>1, <1>t DEF Sharers, TypeOK
      <4>. QED
        BY <4>1, <4>2, <2>1, <3>1, <1>t, <1>s DEF TypeOK
    <3>. QED
      BY <3>2, <3>3
  <2>. QED
    BY <2>2, <2>3
<1>3. ASSUME NEW t \in Tasks, Register(t)
      PROVE  count'[held'[p]] = Cardinality(Sharers(held[p])')
  <2>1. pc[t] \notin Past /\ lock[t] = NoTask /\ Home[t] \in Processes
    BY <1>3, <1>t DEF Register, HoldersHaveLocks, Past
  <2>2. \A u \in Tasks : lock[u] # t
    BY <2>1, <1>t DEF KnownAtHome
  <2>3. CASE p = Home[t]
    <3>1. Sharers(held[p])' = {t} /\ count'[held'[p]] = 1
      BY <1>3, <2>2, <2>3, <1>t DEF Register, Sharers, TypeOK
    <3>. QED
      BY <3>1, FS_Singleton
  <2>4. CASE p # Home[t]
    <3>1. held'[p] = held[p] /\ held[p] \in Tasks
      BY <1>3, <2>4, <1>t DEF Register, TypeOK
    <3>2. held[p] # t
      BY <2>4, <3>1, <1>t DEF KnownAtHome
    <3>3. count'[held[p]] = count[held[p]] /\ Sharers(held[p])' = Sharers(held[p])
      BY <1>3, <3>1, <3>2, <2>1, <1>t DEF Register, Sharers, TypeOK
    <3>. QED
      BY <3>1, <3>3, <1>s
  <2>. QED
    BY <2>3, <2>4
<1>4. ASSUME NEW t \in Tasks, Release(t)
      PROVE  count'[held'[p]] = Cardinality(Sharers(held[p])')
  <2>1. /\ lock[t] \in Tasks /\ Home[lock[t]] = Home[t] /\ Home[t] \in Processes
        /\ lock' = [lock EXCEPT ![t] = NoTask]
        /\ held'[p] = held[p] /\ held[p] \in Tasks
    BY <1>4, <1>t DEF Release, KnownAtHome, HoldersHaveLocks, TypeOK
  <2>2. CASE held[p] = lock[t]
    <3>1. p = Home[t] /\ IsCurrent(t)
      BY <2>1, <2>2, <1>t DEF KnownAtHome, IsCurrent
    <3>2. count' = [count EXCEPT ![lock[t]] = count[lock[t]] - 1]
      BY <1>4, <3>1 DEF Release
    <3>3. Sharers(held[p])' = Sharers(held[p]) \ {t} /\ t \in Sharers(held[p])
      BY <2>1, <2>2, <1>t DEF Sharers, TypeOK
    <3>4. count'[held'[p]] = count[held[p]] - 1
      BY <2>1, <2>2, <3>2, <1>t DEF TypeOK
    <3>. QED
      BY <3>3, <3>4, <2>1, <1>t, FS_RemoveElement
  <2>3. CASE held[p] # lock[t]
    <3>1. Sharers(held[p])' = Sharers(held[p])
      BY <2>1, <2>3, <1>t DEF Sharers, TypeOK
    <3>2. count'[held[p]] = count[held[p]]
      BY <1>4, <2>1, <2>3, <1>t DEF Release, TypeOK
    <3>. QED
      BY <2>1, <3>1, <3>2, <1>s
  <2>. QED
    BY <2>2, <2>3
<1>5. ASSUME NEW t \in Tasks, FinishRelease(t)
      PROVE  count'[held'[p]] = Cardinality(Sharers(held[p])')
  BY <1>5, <1>s DEF FinishRelease, Sharers
<1>6. ASSUME NEW q \in Processes, Watchdog(q) \/ Signalled(q)
      PROVE  count'[held'[p]] = Cardinality(Sharers(held[p])')
  <2>1. q # p /\ held'[p] = held[p] /\ held[q] # NoTask
    BY <1>6, <1>t DEF Watchdog, Signalled, TypeOK
  <2>2. held[p] # held[q] /\ held[p] \in Tasks
    BY <2>1, <1>t DEF KnownAtHome, TypeOK
  <2>. QED
    BY <1>6, <2>1, <2>2, <1>s, <1>t DEF Watchdog, Signalled, Sharers, TypeOK
<1>7. ASSUME NEW q \in Processes, Gone(q)
      PROVE  count'[held'[p]] = Cardinality(Sharers(held[p])')
  <2>1. q # p /\ held'[p] = held[p] /\ held[p] \in Tasks /\ Home[held[p]] = p
    BY <1>7, <1>t DEF Gone, KnownAtHome, TypeOK
  <2>2. \A u \in Tasks : lock'[u] = held[p] <=> lock[u] = held[p]
    BY <1>7, <2>1, <1>t DEF Gone, KnownAtHome, TypeOK
  <2>. QED
    BY <1>7, <2>1, <2>2, <1>s DEF Gone, Sharers
<1>. QED
  BY <1>1, <1>2, <1>3, <1>4, <1>5, <1>6, <1>7, TableSteps

-----------------------------------------------------------------------------
(* Without a stop, an overrun or a cleanup no file that is found is judged *)
(* stale: its creator is up.                                               *)
LEMMA CalmOwner ==
  ASSUME LockInv, Calm, file # NoFile
  PROVE  file.by \in Tasks /\ Up(Owner) /\ ~Stale
<1>t. /\ TypeOK /\ KnownAtHome /\ CalmIsFresh /\ CalmIsOwned
      /\ Home \in [Tasks -> Processes] /\ NoTask \notin Tasks
  BY LockAssumption DEF LockInv
<1>1. file.by \in Tasks
  BY <1>t DEF LockInv, TypeOK
<1>2. Owner \in Processes
  BY <1>1, <1>t DEF Owner
<1>3. pc[file.by] # "idle"
  BY <1>1, <1>2, <1>t DEF CalmIsOwned, KnownAtHome, Creating, Past
<1>4. Up(Owner)
  BY <1>1, <1>3, <1>t DEF CalmIsFresh, Owner
<1>5. PidAlive /\ ~PidRecycled /\ ~file.old
  BY <1>2, <1>4, <1>t DEF PidAlive, PidRecycled, CalmIsFresh
<1>. QED
  BY <1>1, <1>4, <1>5 DEF Stale

(* What has happened stays recorded.                                       *)
LEMMA EventsGrow ==
  ASSUME [Next]_vars
  PROVE  events \subseteq events'
<1>1. ASSUME NEW t \in Tasks, TaskStep(t) \/ WriteFails(t) \/ GiveUp(t)
      PROVE  events' = events
  BY <1>1
  DEF TaskStep, Enter, Open, Write, Undo, Register, Inspect, Stat, Reclaim, Sleep,
      Release, FinishRelease, WriteFails, GiveUp
<1>2. ASSUME NEW p \in Processes, Watchdog(p) \/ Start(p) \/ Crash(p) \/ Exit(p) \/ Signalled(p)
      PROVE  events \subseteq events'
  BY <1>2 DEF Watchdog, Start, Crash, Exit, Signalled, Gone
<1>3. CleanRead \/ CleanRemove \/ GrowOld \/ UNCHANGED vars => events \subseteq events'
  BY DEF CleanRead, CleanRemove, GrowOld, vars
<1>. QED
  BY <1>1, <1>2, <1>3 DEF Next

(* The steps that leave it calm: no one stops, no file becomes old, none   *)
(* is reclaimed or cleaned away.                                           *)
LEMMA CalmSteps ==
  ASSUME LockInv, [Next]_vars, Calm'
  PROVE  /\ Calm
         /\ \/ \E t \in Tasks :
                 \/ Enter(t) \/ Open(t) \/ Write(t) \/ Undo(t) \/ Register(t) \/ Inspect(t)
                 \/ Stat(t) \/ Sleep(t) \/ WriteFails(t) \/ GiveUp(t)
                 \/ Release(t) \/ FinishRelease(t)
            \/ \E p \in Processes : Watchdog(p) \/ Signalled(p) \/ Start(p)
            \/ UNCHANGED vars
<1>1. events \subseteq events'
  BY EventsGrow
<1>2. Calm
  BY <1>1 DEF Calm
<1>3. /\ cleaner # "remove"
      /\ \A t \in Tasks : pc[t] # "reclaim"
  BY <1>2 DEF LockInv, CalmIsFresh
<1>4. "stop" \notin events' /\ "cleanup" \notin events' /\ "old" \notin events'
  BY DEF Calm
<1>5. (\A t \in Tasks : ~Reclaim(t)) /\ ~CleanRead /\ ~CleanRemove
  BY <1>3, <1>4 DEF Reclaim, CleanRead, CleanRemove
<1>6. \A p \in Processes : ~Crash(p) /\ ~Exit(p)
  BY <1>4 DEF Crash, Exit, Gone
<1>7. ~GrowOld
  BY <1>2, <1>4, CalmOwner DEF GrowOld
<1>. QED
  BY <1>2, <1>5, <1>6, <1>7 DEF Next, TaskStep

(* that in calm the file is fresh,                                         *)
LEMMA CalmFreshStep == LockInv /\ [Next]_vars => CalmIsFresh'
<1> SUFFICES ASSUME LockInv, [Next]_vars, Calm'
             PROVE  /\ ~file'.old /\ cleaner' # "remove"
                    /\ \A t \in Tasks :
                         pc'[t] # "reclaim" /\ (pc'[t] # "idle" => status'[Home[t]] = "up")
  BY DEF CalmIsFresh, Up
<1>t. /\ TypeOK /\ Calm /\ ~file.old /\ cleaner # "remove" /\ StartTimes
      /\ \A t \in Tasks :
           pc[t] # "reclaim" /\ (pc[t] # "idle" => status[Home[t]] = "up")
      /\ Home \in [Tasks -> Processes] /\ ~NoFile.old /\ ~NoFile.written
  BY CalmSteps, LockAssumption DEF LockInv, CalmIsFresh, Up, Calm, NoFile
<1>1. ASSUME NEW t \in Tasks, Enter(t) \/ Open(t) \/ Sleep(t) \/ GiveUp(t) \/ Release(t)
      PROVE  /\ status[Home[t]] = "up" /\ ~file'.old /\ UNCHANGED <<status, cleaner>>
             /\ \E l \in {"holding", "open", "write", "read", "retry", "failed", "done"} :
                  pc' = [pc EXCEPT ![t] = l]
  BY <1>1, <1>t DEF Enter, Open, Sleep, GiveUp, Release, Goto, AfterEexist, Up
<1>2. ASSUME NEW t \in Tasks, Write(t) \/ Undo(t) \/ Register(t) \/ WriteFails(t)
      PROVE  /\ status[Home[t]] = "up" /\ ~file'.old /\ UNCHANGED <<status, cleaner>>
             /\ \E l \in {"register", "failed", "holding", "undo"} :
                  pc' = [pc EXCEPT ![t] = l]
  <2>1. ~[file EXCEPT !.written = TRUE].old
    BY <1>t DEF TypeOK
  <2>. QED
    BY <1>2, <1>t, <2>1 DEF Write, Undo, Register, WriteFails, Goto, AfterWriteFailure, Up
<1>3. ASSUME NEW t \in Tasks, Inspect(t) \/ Stat(t)
      PROVE  /\ status[Home[t]] = "up" /\ ~file'.old /\ UNCHANGED <<status, cleaner>>
             /\ \E l \in {"stat", "sleep"} : pc' = [pc EXCEPT ![t] = l]
  <2>1. file.written => ~Stale /\ ~OrphanSelf(Home[t])
    BY <1>t, CalmOwner DEF OrphanSelf
  <2>. QED
    BY <1>3, <1>t, <2>1 DEF Inspect, Stat, Verdict, MtimeStale, Goto
<1>4. ASSUME NEW t \in Tasks,
             \/ Enter(t) \/ Open(t) \/ Sleep(t) \/ GiveUp(t) \/ Release(t)
             \/ Write(t) \/ Undo(t) \/ Register(t) \/ WriteFails(t)
             \/ Inspect(t) \/ Stat(t)
      PROVE  /\ ~file'.old /\ cleaner' # "remove"
             /\ \A u \in Tasks :
                  pc'[u] # "reclaim" /\ (pc'[u] # "idle" => status'[Home[u]] = "up")
  <2>1. /\ status[Home[t]] = "up" /\ ~file'.old /\ UNCHANGED <<status, cleaner>>
        /\ \E l : l # "reclaim" /\ pc' = [pc EXCEPT ![t] = l]
    BY <1>1, <1>2, <1>3, <1>4
  <2>. QED
    BY <2>1, <1>t DEF TypeOK
<1>5. ASSUME NEW t \in Tasks, FinishRelease(t)
      PROVE  ~file'.old /\ UNCHANGED <<status, cleaner, pc>>
  BY <1>5, <1>t DEF FinishRelease
<1>6. ASSUME NEW p \in Processes, Watchdog(p) \/ Signalled(p)
      PROVE  ~file'.old /\ UNCHANGED <<status, cleaner, pc>>
  BY <1>6, <1>t DEF Watchdog, Signalled
<1>7. ASSUME NEW p \in Processes, Start(p)
      PROVE  /\ ~file'.old /\ UNCHANGED <<cleaner, pc>>
             /\ \A t \in Tasks : status[Home[t]] = "up" => status'[Home[t]] = "up"
  BY <1>7, <1>t DEF Start, TypeOK
<1>8. UNCHANGED vars => ~file'.old /\ UNCHANGED <<status, cleaner, pc>>
  BY <1>t DEF vars
<1>. QED
  BY <1>4, <1>5, <1>6, <1>7, <1>8, <1>t, CalmSteps

(* that in calm the file is of the task that creates, holds or closes it,  *)
LEMMA CalmOwnedStep == LockInv /\ [Next]_vars => CalmIsOwned'
<1> SUFFICES ASSUME LockInv, [Next]_vars, Calm'
             PROVE  /\ \A t \in Tasks : pc'[t] \in Creating => file'.by = t
                    /\ \A p \in Processes : held'[p] # NoTask => file'.by = held'[p]
                    /\ \A o \in closing' : file'.by = o
                    /\ file' # NoFile =>
                         \/ pc'[file'.by] \in Creating
                         \/ held'[Home[file'.by]] = file'.by
                         \/ file'.by \in closing'
  BY DEF CalmIsOwned, Owner
<1> DEFINE Owned ==
  /\ \A t \in Tasks : pc[t] \in Creating => file.by = t
  /\ \A p \in Processes : held[p] # NoTask => file.by = held[p]
  /\ \A o \in closing : file.by = o
  /\ file # NoFile =>
       \/ pc[file.by] \in Creating
       \/ held[Home[file.by]] = file.by
       \/ file.by \in closing
<1>t. /\ TypeOK /\ Calm /\ KnownAtHome /\ HoldersHaveLocks /\ Owned
      /\ Home \in [Tasks -> Processes] /\ NoTask \notin Tasks /\ NoFile.by = NoTask
      /\ file.by = NoTask => file = NoFile
  BY CalmSteps, LockAssumption DEF LockInv, CalmIsOwned, Owner, NoFile
<1>1. ASSUME NEW t \in Tasks,
             \/ Enter(t) \/ Inspect(t) \/ Stat(t) \/ Sleep(t) \/ GiveUp(t)
             \/ Open(t) /\ file # NoFile
      PROVE  Owned'
  <2>1. UNCHANGED <<file, held, closing>>
    BY <1>1 DEF Enter, Inspect, Stat, Sleep, GiveUp, Open, tableVars
  <2>2. /\ pc[t] \notin Creating
        /\ \E l : l \notin Creating /\ pc' = [pc EXCEPT ![t] = l]
    BY <1>1, <1>t
    DEF Enter, Inspect, Stat, Sleep, GiveUp, Open, Goto, Verdict, AfterEexist, Creating
  <2>3. \A u \in Tasks : pc'[u] \in Creating <=> pc[u] \in Creating
    BY <2>2, <1>t DEF TypeOK
  <2>4. file # NoFile => file.by \in Tasks
    BY <1>t DEF TypeOK
  <2>. QED
    BY <2>1, <2>3, <2>4, <1>t
<1>2. ASSUME NEW t \in Tasks, Open(t), file = NoFile PROVE Owned'
  <2>1. /\ \A u \in Tasks : pc[u] \notin Creating
        /\ \A p \in Processes : held[p] = NoTask
        /\ closing = {}
    BY <1>2, <1>t DEF TypeOK
  <2>2. /\ file'.by = t /\ UNCHANGED <<held, closing>>
        /\ pc' = [pc EXCEPT ![t] = "write"]
    BY <1>2 DEF Open, Goto, tableVars
  <2>. QED
    BY <2>1, <2>2, <1>t DEF TypeOK, Creating
<1>3. ASSUME NEW t \in Tasks, Write(t) \/ WriteFails(t) PROVE Owned'
  <2>1. pc[t] \in Creating /\ file.by = t
    BY <1>3, <1>t DEF Write, WriteFails, Creating
  <2>2. file'.by = t /\ UNCHANGED <<held, closing>>
    BY <1>3, <2>1, <1>t DEF Write, WriteFails, tableVars, TypeOK
  <2>3. \E l \in Creating : pc' = [pc EXCEPT ![t] = l]
    BY <1>3 DEF Write, WriteFails, Goto, AfterWriteFailure, Creating
  <2>. QED
    BY <2>1, <2>2, <2>3, <1>t DEF TypeOK
<1>4. ASSUME NEW t \in Tasks, Undo(t) \/ Register(t) PROVE Owned'
  <2>1. pc[t] \in Creating /\ pc[t] \notin Past /\ file.by = t
    BY <1>4, <1>t DEF Undo, Register, Creating, Past
  <2>2. /\ \A u \in Tasks : pc'[u] \notin Creating
        /\ \A p \in Processes : held[p] = NoTask
        /\ closing = {}
    <3>1. \A u \in Tasks \ {t} : pc[u] \notin Creating
      BY <2>1, <1>t
    <3>2. \E l : l \notin Creating /\ pc' = [pc EXCEPT ![t] = l]
      BY <1>4 DEF Undo, Register, Goto, Creating
    <3>3. \A p \in Processes : held[p] # NoTask => held[p] = t
      BY <2>1, <1>t
    <3>4. \A o \in closing : o = t
      BY <2>1, <1>t
    <3>. QED
      BY <2>1, <3>1, <3>2, <3>3, <3>4, <1>t DEF KnownAtHome, TypeOK
  <2>. QED
    BY <1>4, <2>1, <2>2, <1>t DEF Undo, Register, tableVars, TypeOK
<1>5. ASSUME NEW t \in Tasks, Release(t) PROVE Owned'
  <2>1. /\ file' = file
        /\ \A u \in Tasks : pc'[u] \in Creating <=> pc[u] \in Creating
    BY <1>5, <1>t DEF Release, Goto, TypeOK, Creating
  <2>2. \/ UNCHANGED <<held, closing>>
        \/ /\ lock[t] # NoTask /\ held[Home[t]] = lock[t]
           /\ held' = [held EXCEPT ![Home[t]] = NoTask]
           /\ closing' = closing \cup {lock[t]}
    BY <1>5, <1>t DEF Release, IsCurrent, HoldersHaveLocks
  <2>3. file # NoFile => file.by \in Tasks
    BY <1>t DEF TypeOK
  <2>. QED
    BY <2>1, <2>2, <2>3, <1>t DEF TypeOK, KnownAtHome
<1>6. ASSUME NEW o \in Tasks, FinishRelease(o) PROVE Owned'
  <2>1. o \in closing /\ file.by = o /\ pc[o] \in Past /\ held[Home[o]] # o
    BY <1>6, <1>t DEF FinishRelease, KnownAtHome
  <2>2. \A u \in Tasks : pc[u] \notin Creating
    BY <2>1, <1>t DEF Creating, Past
  <2>3. \A p \in Processes : held[p] = NoTask
    BY <2>1, <1>t DEF KnownAtHome
  <2>. QED
    BY <1>6, <2>1, <2>2, <2>3, <1>t DEF FinishRelease
<1>7. ASSUME NEW p \in Processes, Watchdog(p) PROVE Owned'
  <2>1. file # NoFile => file.by \in Tasks
    BY <1>t DEF TypeOK
  <2>. QED
    BY <1>7, <2>1, <1>t DEF Watchdog, TypeOK, KnownAtHome
<1>8. ASSUME NEW p \in Processes, Signalled(p) PROVE Owned'
  <2>1. held[p] # NoTask /\ file.by = held[p] /\ pc[held[p]] \in Past /\ held[p] \in Tasks
    BY <1>8, <1>t DEF Signalled, KnownAtHome, TypeOK
  <2>2. \A u \in Tasks : pc[u] \notin Creating
    BY <2>1, <1>t DEF Creating, Past
  <2>3. \A q \in Processes : q # p => held[q] = NoTask
    BY <2>1, <1>t DEF KnownAtHome
  <2>4. closing = {}
    BY <2>1, <1>t DEF KnownAtHome
  <2>. QED
    BY <1>8, <2>2, <2>3, <2>4, <1>t DEF Signalled, TypeOK
<1>9. ASSUME NEW p \in Processes, Start(p) PROVE Owned'
  BY <1>9, <1>t DEF Start, tableVars
<1>10. CASE UNCHANGED vars
  BY <1>10, <1>t DEF vars, tableVars
<1>11. Owned'
  BY <1>1, <1>2, <1>3, <1>4, <1>5, <1>6, <1>7, <1>8, <1>9, <1>10, CalmSteps
<1>. QED
  BY <1>11

(* and that undisturbed the table's file is the one at the path.           *)
LEMMA CurrentStep == LockInv /\ [Next]_vars => UndisturbedIsCurrent'
<1> SUFFICES ASSUME LockInv, [Next]_vars, StartTimes, events' = {},
                    NEW u \in Tasks, lock'[u] # NoTask
             PROVE  held'[Home[u]] = lock'[u]
  BY DEF UndisturbedIsCurrent, IsCurrent
<1>t. /\ TypeOK /\ Calm /\ Calm' /\ KnownAtHome /\ HoldersHaveLocks /\ CalmIsOwned
      /\ Home \in [Tasks -> Processes] /\ NoTask \notin Tasks
      /\ \A t \in Tasks : lock[t] # NoTask => held[Home[t]] = lock[t]
  BY EventsGrow, LockAssumption DEF LockInv, UndisturbedIsCurrent, IsCurrent, Calm
<1>1. CASE UNCHANGED tableVars
  BY <1>1, <1>t DEF tableVars
<1>2. ASSUME NEW t \in Tasks, Enter(t) PROVE held'[Home[u]] = lock'[u]
  BY <1>2, <1>t DEF Enter, TypeOK
<1>3. ASSUME NEW t \in Tasks, Register(t) PROVE held'[Home[u]] = lock'[u]
  <2>1. file.by = t /\ pc[t] \notin Past
    BY <1>3, <1>t DEF Register, CalmIsOwned, Creating, Past
  <2>2. held[Home[t]] = NoTask
    BY <2>1, <1>t DEF CalmIsOwned, KnownAtHome
  <2>. QED
    BY <1>3, <2>2, <1>t DEF Register, TypeOK
<1>4. ASSUME NEW t \in Tasks, Release(t) PROVE held'[Home[u]] = lock'[u]
  <2>1. lock[t] # NoTask /\ u # t /\ lock'[u] = lock[u] /\ lock[u] # NoTask
    BY <1>4, <1>t DEF Release, HoldersHaveLocks, TypeOK
  <2>2. held[Home[u]] = lock[u] /\ held[Home[t]] = lock[t]
    BY <2>1, <1>t
  <2>3. CASE Home[u] = Home[t]
    <3>1. count[lock[t]] = Cardinality(Sharers(lock[t])) /\ IsFiniteSet(Sharers(lock[t]))
      BY <2>1, <2>2, Counted DEF IsCurrent
    <3>2. t \in Sharers(lock[t]) /\ u \in Sharers(lock[t])
      BY <2>2, <2>3 DEF Sharers
    <3>3. Cardinality(Sharers(lock[t])) # 1
      BY <2>1, <3>1, <3>2, FS_Singleton
    <3>4. held' = held
      BY <1>4, <3>1, <3>3 DEF Release, LastReference
    <3>. QED
      BY <2>1, <2>2, <3>4
  <2>4. CASE Home[u] # Home[t]
    BY <1>4, <2>1, <2>2, <2>4, <1>t DEF Release, TypeOK
  <2>. QED
    BY <2>3, <2>4
<1>5. ASSUME NEW t \in Tasks, FinishRelease(t) PROVE held'[Home[u]] = lock'[u]
  BY <1>5, <1>t DEF FinishRelease
<1>6. ASSUME NEW p \in Processes PROVE ~Watchdog(p) /\ ~Signalled(p) /\ ~Gone(p)
  BY DEF Watchdog, Signalled, Gone
<1>. QED
  BY <1>1, <1>2, <1>3, <1>4, <1>5, <1>6, TableSteps

-----------------------------------------------------------------------------
(* The inductive invariant of the lock and its table holds throughout.     *)
THEOREM LockInvariant == Spec => []LockInv
<1>1. LockInv /\ [Next]_vars => LockInv'
  BY TypeStep, FileStep, HoldersStep, KnownStep, FewStep, CountsStep, CalmFreshStep,
     CalmOwnedStep, CurrentStep
  DEF LockInv
<1>. QED
  BY LockInvInit, <1>1, PTL DEF Spec

(* The values every variable of the lock may have.                         *)
THEOREM TypeCorrect == Spec => []TypeOK
<1>1. LockInv => TypeOK
  BY DEF LockInv
<1>. QED
  BY <1>1, LockInvariant, PTL

(* HELD_LOCKS counts the callers that share a lock, whoever stopped, and   *)
(* with the directory leaves no file behind, even when the watchdog or a   *)
(* signal takes locks from their holders.                                  *)
THEOREM TheTableIsTrue == Spec => []TableIsTrue
<1>1. LockInv => NoFileLeftBehind
  BY DEF LockInv, CalmIsOwned, Calm, NoFileLeftBehind, Creating
<1>2. LockInv => TableIsTrue
  BY <1>1 DEF LockInv, TableIsTrue
<1>. QED
  BY <1>2, LockInvariant, PTL

(* As long as nobody stopped, overran a limit or cleaned up, all callers   *)
(* that have the lock share one process and one count, and their file is   *)
(* the one at the path.                                                    *)
THEOREM Excludes == Spec => []UndisturbedExclusion
<1>1. ASSUME LockInv, StartTimes, events = {}, NEW t \in Holding
      PROVE  lock[t] = file.by
  <2>1. t \in Tasks /\ lock[t] # NoTask /\ Home[t] \in Processes
    BY <1>1, LockAssumption DEF LockInv, Holding, HoldersHaveLocks
  <2>2. held[Home[t]] = lock[t]
    BY <1>1, <2>1 DEF LockInv, UndisturbedIsCurrent, IsCurrent
  <2>. QED
    BY <1>1, <2>1, <2>2 DEF LockInv, CalmIsOwned, Calm
<1>2. LockInv => UndisturbedExclusion
  BY <1>1 DEF UndisturbedExclusion, Exclusion, KeptUntilLastRelease
<1>. QED
  BY <1>2, LockInvariant, PTL

(* The fs.rm of a release finds the file of the lock it releases.          *)
THEOREM ReleaseRemovesOwn == Spec => UndisturbedReleaseRemovesOwn
<1>1. ASSUME LockInv, [Next]_vars, StartTimes, events = {},
             NEW o \in closing \ closing', status'[Home[o]] = "up"
      PROVE  file.by = o
  BY <1>1 DEF LockInv, CalmIsOwned, Calm
<1>2. LockInv /\ [Next]_vars =>
        [StartTimes /\ events = {} =>
           \A o \in closing \ closing' : Up(Home[o])' => file.by = o]_vars
  BY <1>1 DEF Up
<1>. QED
  BY <1>2, LockInvariant, PTL DEF Spec, UndisturbedReleaseRemovesOwn
=============================================================================

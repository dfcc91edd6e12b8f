-------------------------- MODULE SessionWriteLock --------------------------
(***************************************************************************)
(* The write lock of one session file                                      *)
(* (src/src/agents/session-write-lock.ts): a lock file, created            *)
(* exclusively, that several processes compete for, and in each process    *)
(* the HELD_LOCKS entry that its callers share.                            *)
(*                                                                         *)
(* A call of acquireSessionWriteLock with the release of what it returned  *)
(* is a task.  A step is one file operation, or the code a process runs    *)
(* between two awaits; the operations of other tasks and processes fall in *)
(* between.  A HeldLock and a lock file are named by the task that created *)
(* them, which creates at most one of each.                                *)
(*                                                                         *)
(* What goes wrong is recorded in events, so that a property can say which *)
(* guarantees hold as long as it has not.  A definition X_Mistake is X     *)
(* with a plausible mistake in it; nothing refers to it.                   *)
(***************************************************************************)
EXTENDS Naturals, FiniteSets

CONSTANTS
  Tasks,       \* the calls of acquireSessionWriteLock for the file
  NoTask,      \* none of them
  Processes,   \* incarnations of processes
  Home,        \* the process of each task
  Pid,         \* the process id of each process
  Gateway,     \* the process that cleans up when it starts
  Reentrant,   \* the tasks that pass allowReentrant
  StartTimes,  \* getProcessStartTime is available (Linux)
  Disturbances \* what may happen: "stop", "signal", "old", "watchdog", "cleanup"

ASSUME LockAssumption ==
  /\ NoTask \notin Tasks
  /\ Home \in [Tasks -> Processes]
  /\ DOMAIN Pid = Processes
  /\ Gateway \in Processes
  /\ Reentrant \subseteq Tasks
  /\ StartTimes \in BOOLEAN
  /\ Disturbances \subseteq {"stop", "signal", "old", "watchdog", "cleanup"}

NoFile == [by |-> NoTask, written |-> FALSE, old |-> FALSE]

VARIABLES
  status,  \* of each process: "new", "up" or "gone"
  file,    \* the lock file: its creator, whether its payload is written, its age
  pc,      \* where each task is
  lock,    \* the HeldLock whose release function the task has
  held,    \* HELD_LOCKS.get(file) of each process
  count,   \* HeldLock.count
  closing, \* the HeldLocks whose releasePromise is under way
  cleaner, \* where cleanStaleLockFiles of the gateway is
  events   \* the disturbances so far

tableVars == <<lock, held, count, closing>>
vars == <<status, file, pc, tableVars, cleaner, events>>

Init ==
  /\ status = [p \in Processes |-> "new"]
  /\ file = NoFile
  /\ pc = [t \in Tasks |-> "idle"]
  /\ lock = [t \in Tasks |-> NoTask]
  /\ held = [p \in Processes |-> NoTask]
  /\ count = [t \in Tasks |-> 0]
  /\ closing = {}
  /\ cleaner = "idle"
  /\ events = {}

Up(p) == status[p] = "up"
Goto(t, l) == pc' = [pc EXCEPT ![t] = l]

(* isPidAlive and getProcessStartTime of the file's pid: the process that  *)
(* answers to the pid now may be another than the creator.                 *)
Owner == Home[file.by]
PidAlive == \E p \in Processes : Up(p) /\ Pid[p] = Pid[Owner]
PidRecycled == StartTimes /\ ~Up(Owner)

(* The reasons of inspectLockPayload for a written file.                   *)
Stale == ~PidAlive \/ PidRecycled \/ file.old

(* shouldTreatAsOrphanSelfLock.                                            *)
OrphanSelf(p) == Pid[Owner] = Pid[p] /\ ~StartTimes /\ held[p] = NoTask

-----------------------------------------------------------------------------
(* The first turn after mkdir and realpath.                                *)
SharedCount_One(h) == 1
SharedCount(h) == count[h] + 1

Enter(t) ==
  LET h == held[Home[t]] IN
  /\ Up(Home[t]) /\ pc[t] = "idle"
  /\ IF t \in Reentrant /\ h # NoTask
       THEN /\ count' = [count EXCEPT ![h] = SharedCount(h)]
            /\ lock' = [lock EXCEPT ![t] = h]
            /\ Goto(t, "holding")
       ELSE Goto(t, "open") /\ UNCHANGED <<count, lock>>
  /\ UNCHANGED <<status, file, held, closing, cleaner, events>>

(* fs.open(lockPath, "wx").                                                *)
AfterEexist_Undo == "undo"
AfterEexist == "read"

Open(t) ==
  /\ pc[t] \in {"open", "retry"}
  /\ IF file = NoFile
       THEN file' = [by |-> t, written |-> FALSE, old |-> FALSE] /\ Goto(t, "write")
       ELSE Goto(t, AfterEexist) /\ UNCHANGED file
  /\ UNCHANGED <<status, tableVars, cleaner, events>>

(* handle.writeFile: the file may not be at its path any more.             *)
Write(t) ==
  /\ pc[t] = "write"
  /\ file' = IF file.by = t THEN [file EXCEPT !.written = TRUE] ELSE file
  /\ Goto(t, "register")
  /\ UNCHANGED <<status, tableVars, cleaner, events>>

AfterWriteFailure == "undo"

WriteFails(t) ==
  /\ pc[t] = "write"
  /\ Goto(t, AfterWriteFailure)
  /\ UNCHANGED <<status, file, tableVars, cleaner, events>>

(* The fs.rm of the catch block; the error is thrown on.                   *)
Undo(t) ==
  /\ pc[t] = "undo"
  /\ file' = NoFile
  /\ Goto(t, "failed")
  /\ UNCHANGED <<status, tableVars, cleaner, events>>

(* HELD_LOCKS.set, in the turn after the write.                            *)
Register(t) ==
  /\ pc[t] = "register"
  /\ held' = [held EXCEPT ![Home[t]] = t]
  /\ count' = [count EXCEPT ![t] = 1]
  /\ lock' = [lock EXCEPT ![t] = t]
  /\ Goto(t, "holding")
  /\ UNCHANGED <<status, file, closing, cleaner, events>>

(* readLockPayload and the verdict on it.  A payload without pid and       *)
(* createdAt, or a file that is gone, leaves it to the file's age.         *)
Verdict_NoMtime(t) ==
  IF ~file.written \/ Stale \/ OrphanSelf(Home[t]) THEN "reclaim" ELSE "sleep"
Verdict(t) ==
  IF ~file.written THEN "stat"
  ELSE IF Stale \/ OrphanSelf(Home[t]) THEN "reclaim" ELSE "sleep"

Inspect(t) ==
  /\ pc[t] = "read"
  /\ Goto(t, Verdict(t))
  /\ UNCHANGED <<status, file, tableVars, cleaner, events>>

(* fs.stat in shouldReclaimContendedLockFile: false when the file is gone. *)
MtimeStale_Never == FALSE
MtimeStale == file.old

Stat(t) ==
  /\ pc[t] = "stat"
  /\ Goto(t, IF MtimeStale THEN "reclaim" ELSE "sleep")
  /\ UNCHANGED <<status, file, tableVars, cleaner, events>>

(* fs.rm of the lock path, whichever file is there by now.                 *)
Reclaim(t) ==
  /\ pc[t] = "reclaim"
  /\ file' = NoFile
  /\ Goto(t, "retry")
  /\ UNCHANGED <<status, tableVars, cleaner, events>>

Sleep(t) ==
  /\ pc[t] = "sleep"
  /\ Goto(t, "retry")
  /\ UNCHANGED <<status, file, tableVars, cleaner, events>>

(* The head of the loop finds that timeoutMs has passed.                   *)
GiveUp(t) ==
  /\ pc[t] = "retry"
  /\ Goto(t, "failed")
  /\ UNCHANGED <<status, file, tableVars, cleaner, events>>

-----------------------------------------------------------------------------
(* releaseHeldLock up to its first await: the last reference takes the     *)
(* lock out of HELD_LOCKS and begins to close it.                          *)
IsCurrent_Always(t) == TRUE
IsCurrent(t) == held[Home[t]] = lock[t]

LastReference(t) == count[lock[t]] = 1

Release(t) ==
  /\ pc[t] = "holding"
  /\ Goto(t, "done")
  /\ lock' = [lock EXCEPT ![t] = NoTask]
  /\ IF IsCurrent(t)
       THEN /\ count' = [count EXCEPT ![lock[t]] = @ - 1]
            /\ IF LastReference(t)
                 THEN /\ held' = [held EXCEPT ![Home[t]] = NoTask]
                      /\ closing' = closing \cup {lock[t]}
                 ELSE UNCHANGED <<held, closing>>
       ELSE UNCHANGED <<count, held, closing>>
  /\ UNCHANGED <<status, file, cleaner, events>>

(* The fs.rm of the release: of the lock path, whichever file is there.    *)
FinishRelease(o) ==
  /\ o \in closing
  /\ closing' = closing \ {o}
  /\ file' = NoFile
  /\ UNCHANGED <<status, pc, lock, held, count, cleaner, events>>

(* runLockWatchdogCheck finds the lock held longer than its maxHoldMs.     *)
Watchdog(p) ==
  /\ "watchdog" \in Disturbances
  /\ held[p] # NoTask
  /\ count' = [count EXCEPT ![held[p]] = 0]
  /\ closing' = closing \cup {held[p]}
  /\ held' = [held EXCEPT ![p] = NoTask]
  /\ events' = events \cup {"watchdog"}
  /\ UNCHANGED <<status, file, pc, lock, cleaner>>

(* cleanStaleLockFiles, when the gateway starts: no look at the age of a     *)
(* file without payload.                                                   *)
CleanRead ==
  /\ "cleanup" \in Disturbances
  /\ Up(Gateway) /\ cleaner = "idle"
  /\ cleaner' = IF file # NoFile /\ (~file.written \/ Stale) THEN "remove" ELSE "done"
  /\ events' = events \cup {"cleanup"}
  /\ UNCHANGED <<status, file, pc, tableVars>>

CleanRemove ==
  /\ cleaner = "remove"
  /\ cleaner' = "done"
  /\ file' = NoFile
  /\ UNCHANGED <<status, pc, tableVars, events>>

-----------------------------------------------------------------------------
(* A process starts; its pid may be one a process that is gone had.        *)
Start(p) ==
  /\ status[p] = "new"
  /\ \A q \in Processes : Up(q) => Pid[q] # Pid[p]
  /\ status' = [status EXCEPT ![p] = "up"]
  /\ UNCHANGED <<file, pc, tableVars, cleaner, events>>

Gone(p) ==
  /\ "stop" \in Disturbances
  /\ Up(p)
  /\ status' = [status EXCEPT ![p] = "gone"]
  /\ pc' = [t \in Tasks |-> IF Home[t] = p THEN "gone" ELSE pc[t]]
  /\ lock' = [t \in Tasks |-> IF Home[t] = p THEN NoTask ELSE lock[t]]
  /\ held' = [held EXCEPT ![p] = NoTask]
  /\ closing' = {o \in closing : Home[o] # p}
  /\ cleaner' = IF p = Gateway THEN "done" ELSE cleaner
  /\ events' = events \cup {"stop"}
  /\ UNCHANGED count

(* It crashes, or exits through releaseAllLocksSync.                       *)
Crash(p) == Gone(p) /\ UNCHANGED file
Exit(p) == Gone(p) /\ held[p] # NoTask /\ file' = NoFile

(* A signal that somebody else listens to as well: all locks are released, *)
(* and the process goes on, its callers too.                               *)
Signalled(p) ==
  /\ "signal" \in Disturbances
  /\ held[p] # NoTask
  /\ held' = [held EXCEPT ![p] = NoTask]
  /\ file' = NoFile
  /\ events' = events \cup {"signal"}
  /\ UNCHANGED <<status, pc, lock, count, closing, cleaner>>

(* The file becomes older than staleMs.  This disturbs its creator only    *)
(* while that is at work.                                                  *)
GrowOld ==
  /\ file # NoFile /\ ~file.old
  /\ Up(Owner) => "old" \in Disturbances
  /\ file' = [file EXCEPT !.old = TRUE]
  /\ events' = IF Up(Owner) THEN events \cup {"old"} ELSE events
  /\ UNCHANGED <<status, pc, tableVars, cleaner>>

TaskStep(t) ==
  \/ Enter(t) \/ Open(t) \/ Write(t) \/ Undo(t) \/ Register(t)
  \/ Inspect(t) \/ Stat(t) \/ Reclaim(t) \/ Sleep(t) \/ Release(t) \/ FinishRelease(t)

Next ==
  \/ \E t \in Tasks : TaskStep(t) \/ WriteFails(t) \/ GiveUp(t)
  \/ \E p \in Processes :
       Watchdog(p) \/ Start(p) \/ Crash(p) \/ Exit(p) \/ Signalled(p)
  \/ CleanRead \/ CleanRemove
  \/ GrowOld

Spec == Init /\ [][Next]_vars

(* File operations and timers complete, a caller releases what it got      *)
(* (always in a finally block), and time passes for a file left behind.    *)
Fairness ==
  /\ \A t \in Tasks : WF_vars(TaskStep(t))
  /\ WF_vars(GrowOld)

FairSpec == Spec /\ Fairness

-----------------------------------------------------------------------------
TypeOK ==
  /\ status \in [Processes -> {"new", "up", "gone"}]
  /\ file \in [by : Tasks \cup {NoTask}, written : BOOLEAN, old : BOOLEAN]
  /\ pc \in [Tasks -> {"idle", "open", "retry", "read", "stat", "reclaim", "sleep",
                       "write", "undo", "register", "holding", "done", "failed", "gone"}]
  /\ lock \in [Tasks -> Tasks \cup {NoTask}]
  /\ held \in [Processes -> Tasks \cup {NoTask}]
  /\ count \in [Tasks -> Nat]
  /\ closing \subseteq Tasks
  /\ cleaner \in {"idle", "remove", "done"}
  /\ events \subseteq {"stop", "signal", "old", "watchdog", "cleanup"}

Holding == {t \in Tasks : pc[t] = "holding"}

(* Two callers that have the lock have the same one: they share a process  *)
(* and a reference count (registry.test.ts: "keeps both container updates  *)
(* under concurrent writes").                                              *)
Exclusion == \A t, u \in Holding : lock[t] = lock[u]

(* The lock file stays until the last release (session-write-lock.test.ts: *)
(* "keeps the lock file until the last release").                          *)
KeptUntilLastRelease == \A t \in Holding : file.by = lock[t]

(* So it is when nobody stopped, got a signal, overran a limit or cleaned  *)
(* up.                                                                     *)
UndisturbedExclusion == StartTimes /\ events = {} => Exclusion /\ KeptUntilLastRelease

(* Even when the watchdog or a signal takes locks from their holders, the  *)
(* lock file of a process that is up is on its way to be written, held or  *)
(* removed: none is left behind that only its age would make stale.        *)
NoFileLeftBehind ==
  StartTimes /\ events \subseteq {"watchdog", "signal"} /\ file # NoFile /\ Up(Owner) =>
    \/ pc[file.by] \in {"write", "undo", "register"}
    \/ held[Owner] = file.by
    \/ file.by \in closing

(* The count of a process's lock is the number of callers that have it.    *)
CountsReferences ==
  \A p \in Processes :
    held[p] # NoTask => count[held[p]] = Cardinality({t \in Tasks : lock[t] = held[p]})

(* HELD_LOCKS, its counts and the directory agree.                         *)
TableIsTrue == NoFileLeftBehind /\ CountsReferences

(* A release removes its own lock's file and no other                      *)
(* (session-write-lock.test.ts: "Old release handle must not affect the    *)
(* new lock"), unless a limit was overrun, somebody stopped, got a signal  *)
(* or cleaned up.                                                          *)
UndisturbedReleaseRemovesOwn ==
  [][StartTimes /\ events = {} =>
       \A o \in closing \ closing' : Up(Home[o])' => file.by = o]_vars

(* Whoever left the lock file, every caller gets the lock or fails.        *)
AcquireEnds ==
  \A t \in Tasks : pc[t] = "retry" ~> pc[t] \in {"done", "failed", "gone"}
=============================================================================

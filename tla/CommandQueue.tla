---------------------------- MODULE CommandQueue ----------------------------
(***************************************************************************)
(* The in-process lane scheduler of src/src/process/command-queue.ts.      *)
(*                                                                         *)
(* JavaScript runs one turn at a time, and within a turn the functions of  *)
(* the file call one another: enqueueCommandInLane calls drainLane, which  *)
(* calls pump, which calls the synchronous prefix of a task, which may     *)
(* call enqueueCommandInLane again.  The variable stack is that call       *)
(* stack; a turn is over when it is empty.  Every call of the file's       *)
(* functions, every iteration of pump's loop and every return is one step. *)
(*                                                                         *)
(* An entry stands for one call of enqueueCommandInLane: its closure, its  *)
(* promise and, once pump starts it, its task id (ids are never reused, so *)
(* the entry names the id).                                                *)
(*                                                                         *)
(* A definition named X_Y (LanesToDrain_None) is X with the mistake Y.     *)
(* No action uses it; a property is shown to notice the mistake by putting *)
(* it in the place of X.                                                   *)
(***************************************************************************)
EXTENDS Naturals, Sequences, FiniteSets

CONSTANTS Lanes,          \* the lane names in use
          Entries,        \* the calls of enqueueCommandInLane
          Waiters,        \* the calls of waitForActiveTasks
          LimitBound,     \* largest maxConcurrent a caller asks for
          GenerationBound \* bound on the number of resets

ASSUME BoundsAssumption == LimitBound \in Nat /\ GenerationBound \in Nat

VARIABLES
  queue,           \* LaneState.queue
  activeTaskIds,   \* LaneState.activeTaskIds
  maxConcurrent,   \* LaneState.maxConcurrent
  draining,        \* LaneState.draining
  generation,      \* LaneState.generation
  gatewayDraining, \* the module flag of the same name
  phase,           \* what has become of each entry
  laneOf,          \* the lane the call names
  genOf,           \* taskGeneration of a started entry
  ticket,          \* position of an entry in the order of all enqueues
  tickets,         \* number of enqueues so far
  stack,           \* the call stack of the running turn
  waiterPhase,     \* state of each waitForActiveTasks promise
  snapshot         \* activeAtStart of each waiter

laneVars   == <<queue, activeTaskIds, maxConcurrent, draining, generation>>
entryVars  == <<phase, laneOf, genOf, ticket, tickets>>
waiterVars == <<waiterPhase, snapshot>>
vars == <<laneVars, gatewayDraining, entryVars, stack, waiterVars>>

(***************************************************************************)
(* An entry is "new" until it is enqueued, "queued" in its lane, "sync"    *)
(* while the synchronous prefix of its task is on the stack, "running"     *)
(* while the task's promise is pending, and then its own promise is        *)
(* "fulfilled" or "rejected" by the task, "cleared" by clearCommandLane or *)
(* "refused" because the gateway drains.                                   *)
(***************************************************************************)
Phases == {"new", "queued", "sync", "running",
           "fulfilled", "rejected", "cleared", "refused"}

Started == {"sync", "running", "fulfilled", "rejected"}

InFlight == {"sync", "running"}

PumpFrame(l) == [kind |-> "pump", lane |-> l]
TaskFrame(e) == [kind |-> "task", entry |-> e]
ResetFrame(S) == [kind |-> "reset", lanes |-> S]

Frames == {PumpFrame(l) : l \in Lanes}
            \cup {TaskFrame(e) : e \in Entries}
            \cup {ResetFrame(S) : S \in SUBSET Lanes}

Top == stack[Len(stack)]
Popped == SubSeq(stack, 1, Len(stack) - 1)
TurnOver == stack = <<>>

(* Code that calls into the queue runs in a turn of its own or in the      *)
(* synchronous prefix of a task that pump is starting.                     *)
CallerRuns == TurnOver \/ (~TurnOver /\ Top.kind = "task")

TypeOK ==
  /\ queue \in [Lanes -> Seq(Entries)]
  /\ activeTaskIds \in [Lanes -> SUBSET Entries]
  /\ maxConcurrent \in [Lanes -> Nat \ {0}]
  /\ draining \in [Lanes -> BOOLEAN]
  /\ generation \in [Lanes -> Nat]
  /\ gatewayDraining \in BOOLEAN
  /\ phase \in [Entries -> Phases]
  /\ laneOf \in [Entries -> Lanes]
  /\ genOf \in [Entries -> Nat]
  /\ ticket \in [Entries -> Nat]
  /\ tickets \in Nat
  /\ stack \in Seq(Frames)
  /\ waiterPhase \in [Waiters -> {"idle", "polling", "drained", "timedOut"}]
  /\ snapshot \in [Waiters -> SUBSET Entries]

(* A lane springs into being on first use with the values getLaneState     *)
(* gives it; here every lane has them from the start.                      *)
Init ==
  /\ queue = [l \in Lanes |-> <<>>]
  /\ activeTaskIds = [l \in Lanes |-> {}]
  /\ maxConcurrent = [l \in Lanes |-> 1]
  /\ draining = [l \in Lanes |-> FALSE]
  /\ generation = [l \in Lanes |-> 0]
  /\ gatewayDraining = FALSE
  /\ phase = [e \in Entries |-> "new"]
  /\ laneOf \in [Entries -> Lanes]
  /\ genOf = [e \in Entries |-> 0]
  /\ ticket = [e \in Entries |-> 0]
  /\ tickets = 0
  /\ stack = <<>>
  /\ waiterPhase = [w \in Waiters |-> "idle"]
  /\ snapshot = [w \in Waiters |-> {}]

-----------------------------------------------------------------------------
(* drainLane(l) called with the stack s: nothing when a drain of the lane  *)
(* is on its way, otherwise the flag is set and pump is called.            *)
DrainLane(l, s) ==
  IF draining[l]
    THEN stack' = s /\ UNCHANGED draining
    ELSE stack' = Append(s, PumpFrame(l)) /\ draining' = [draining EXCEPT ![l] = TRUE]

(* enqueueCommandInLane while the gateway drains: the promise is rejected. *)
EnqueueRefused(e) ==
  /\ CallerRuns
  /\ phase[e] = "new"
  /\ gatewayDraining
  /\ phase' = [phase EXCEPT ![e] = "refused"]
  /\ UNCHANGED <<laneVars, gatewayDraining, laneOf, genOf, ticket, tickets, stack, waiterVars>>

(* enqueueCommandInLane: append and drain the lane.                        *)
Pushed(e) == Append(queue[laneOf[e]], e)

Enqueue(e) ==
  /\ CallerRuns
  /\ phase[e] = "new"
  /\ ~gatewayDraining
  /\ queue' = [queue EXCEPT ![laneOf[e]] = Pushed(e)]
  /\ phase' = [phase EXCEPT ![e] = "queued"]
  /\ tickets' = tickets + 1
  /\ ticket' = [ticket EXCEPT ![e] = tickets + 1]
  /\ DrainLane(laneOf[e], stack)
  /\ UNCHANGED <<activeTaskIds, maxConcurrent, generation, gatewayDraining, laneOf, genOf, waiterVars>>

(* The loop condition of pump.                                             *)
CanStart_OneTooMany(l) == Cardinality(activeTaskIds[l]) <= maxConcurrent[l] /\ queue[l] # <<>>
CanStart(l) ==
  /\ Cardinality(activeTaskIds[l]) < maxConcurrent[l]
  /\ queue[l] # <<>>

(* One iteration of pump's loop: shift the entry, give it a task id of the *)
(* lane's generation, call its task.                                       *)
PumpStart(l) ==
  /\ ~TurnOver
  /\ Top = PumpFrame(l)
  /\ CanStart(l)
  /\ LET e == Head(queue[l]) IN
       /\ activeTaskIds' = [activeTaskIds EXCEPT ![l] = @ \cup {e}]
       /\ phase' = [phase EXCEPT ![e] = "sync"]
       /\ genOf' = [genOf EXCEPT ![e] = generation[l]]
       /\ stack' = Append(stack, TaskFrame(e))
  /\ queue' = [queue EXCEPT ![l] = Tail(@)]
  /\ UNCHANGED <<maxConcurrent, draining, generation, gatewayDraining, laneOf, ticket, tickets, waiterVars>>

(* The loop ends; the finally block clears the flag.                       *)
FlagAfterPump(l) == FALSE

PumpReturn(l) ==
  /\ ~TurnOver
  /\ Top = PumpFrame(l)
  /\ ~CanStart(l)
  /\ draining' = [draining EXCEPT ![l] = FlagAfterPump(l)]
  /\ stack' = Popped
  /\ UNCHANGED <<queue, activeTaskIds, maxConcurrent, generation, gatewayDraining, entryVars, waiterVars>>

(* The task's synchronous prefix reaches its first await.                  *)
TaskYields(e) ==
  /\ ~TurnOver
  /\ Top = TaskFrame(e)
  /\ phase' = [phase EXCEPT ![e] = "running"]
  /\ stack' = Popped
  /\ UNCHANGED <<laneVars, gatewayDraining, laneOf, genOf, ticket, tickets, waiterVars>>

(* completeTask, then pump when the task is of the lane's generation, then *)
(* the entry's promise is settled.  The pump called here does not set the  *)
(* draining flag, but its finally block clears it.                         *)
IsCurrent(e) == genOf[e] = generation[laneOf[e]]

RemainingTasks_Leak(e) == activeTaskIds[laneOf[e]]
RemainingTasks(e) ==
  IF IsCurrent(e) THEN activeTaskIds[laneOf[e]] \ {e} ELSE activeTaskIds[laneOf[e]]

AfterCompletion_NoPump(e, s) == s
AfterCompletion(e, s) == IF IsCurrent(e) THEN Append(s, PumpFrame(laneOf[e])) ELSE s

Complete(e, outcome, s) ==
  /\ phase' = [phase EXCEPT ![e] = outcome]
  /\ activeTaskIds' = [activeTaskIds EXCEPT ![laneOf[e]] = RemainingTasks(e)]
  /\ stack' = AfterCompletion(e, s)
  /\ UNCHANGED <<queue, maxConcurrent, draining, generation, gatewayDraining,
                 laneOf, genOf, ticket, tickets, waiterVars>>

(* The task throws before its first await: the catch block runs in place.  *)
TaskThrows(e) ==
  /\ ~TurnOver
  /\ Top = TaskFrame(e)
  /\ Complete(e, "rejected", Popped)

(* The task's promise settles; its continuation is a turn of its own.      *)
TaskSettles(e) ==
  /\ TurnOver
  /\ phase[e] = "running"
  /\ \E outcome \in {"fulfilled", "rejected"} : Complete(e, outcome, stack)

MarkGatewayDraining ==
  /\ TurnOver
  /\ gatewayDraining' = TRUE
  /\ UNCHANGED <<laneVars, entryVars, stack, waiterVars>>

(* setCommandLaneConcurrency: a value below one counts as one.             *)
CleanLimit_Raw(n) == n
CleanLimit(n) == IF n < 1 THEN 1 ELSE n

SetCommandLaneConcurrency(l, n) ==
  /\ CallerRuns
  /\ maxConcurrent' = [maxConcurrent EXCEPT ![l] = CleanLimit(n)]
  /\ DrainLane(l, stack)
  /\ UNCHANGED <<queue, activeTaskIds, generation, gatewayDraining, entryVars, waiterVars>>

(* clearCommandLane: the entries still queued are rejected.                *)
ClearCommandLane(l) ==
  /\ CallerRuns
  /\ queue' = [queue EXCEPT ![l] = <<>>]
  /\ phase' = [e \in Entries |->
                 IF phase[e] = "queued" /\ laneOf[e] = l THEN "cleared" ELSE phase[e]]
  /\ UNCHANGED <<activeTaskIds, maxConcurrent, draining, generation, gatewayDraining,
                 laneOf, genOf, ticket, tickets, stack, waiterVars>>

(* resetAllLanes, first loop: every lane idle in a new generation, the     *)
(* lanes with queued entries remembered.                                   *)
LanesToDrain_None == {}
LanesToDrain == {l \in Lanes : queue[l] # <<>>}
NextGeneration == [l \in Lanes |-> generation[l] + 1]

ResetAllLanes ==
  /\ TurnOver
  /\ \A l \in Lanes : generation[l] < GenerationBound
  /\ gatewayDraining' = FALSE
  /\ generation' = NextGeneration
  /\ activeTaskIds' = [l \in Lanes |-> {}]
  /\ draining' = [l \in Lanes |-> FALSE]
  /\ stack' = <<ResetFrame(LanesToDrain)>>
  /\ UNCHANGED <<queue, maxConcurrent, entryVars, waiterVars>>

(* resetAllLanes, second loop: drain the remembered lanes one by one.      *)
ResetDrains(l) ==
  /\ ~TurnOver
  /\ Top.kind = "reset"
  /\ l \in Top.lanes
  /\ DrainLane(l, Append(Popped, ResetFrame(Top.lanes \ {l})))
  /\ UNCHANGED <<queue, activeTaskIds, maxConcurrent, generation, gatewayDraining,
                 entryVars, waiterVars>>

ResetReturns ==
  /\ ~TurnOver
  /\ Top = ResetFrame({})
  /\ stack' = Popped
  /\ UNCHANGED <<laneVars, gatewayDraining, entryVars, waiterVars>>

-----------------------------------------------------------------------------
AllActive == UNION {activeTaskIds[l] : l \in Lanes}

(* check() of waitForActiveTasks for a waiter whose snapshot is S: done    *)
(* when none of S is active, given up once the deadline has passed, polled *)
(* again otherwise.                                                        *)
HasPending(S) == S \cap AllActive # {}

WaitCheck(w, S) ==
  \E p \in (IF HasPending(S) THEN {"polling", "timedOut"} ELSE {"drained"}) :
    waiterPhase' = [waiterPhase EXCEPT ![w] = p]

WaitForActiveTasks(w) ==
  /\ TurnOver
  /\ waiterPhase[w] = "idle"
  /\ snapshot' = [snapshot EXCEPT ![w] = AllActive]
  /\ WaitCheck(w, AllActive)
  /\ UNCHANGED <<laneVars, gatewayDraining, entryVars, stack>>

WaitPoll(w) ==
  /\ TurnOver
  /\ waiterPhase[w] = "polling"
  /\ WaitCheck(w, snapshot[w])
  /\ UNCHANGED <<laneVars, gatewayDraining, entryVars, stack, snapshot>>

-----------------------------------------------------------------------------
(* The steps a running turn takes by itself.                               *)
EntryStep(e) == TaskYields(e) \/ TaskThrows(e)
LaneStep(l) == PumpStart(l) \/ PumpReturn(l) \/ ResetDrains(l)
QueueStep == (\E l \in Lanes : LaneStep(l)) \/ ResetReturns

(* The calls the rest of the program makes.                                *)
Call ==
  \/ \E e \in Entries : EnqueueRefused(e) \/ Enqueue(e) \/ TaskSettles(e)
  \/ \E l \in Lanes : ClearCommandLane(l)
  \/ \E l \in Lanes, n \in 0..LimitBound : SetCommandLaneConcurrency(l, n)
  \/ \E w \in Waiters : WaitForActiveTasks(w) \/ WaitPoll(w)
  \/ MarkGatewayDraining
  \/ ResetAllLanes

Next == QueueStep \/ (\E e \in Entries : EntryStep(e)) \/ Call

Spec == Init /\ [][Next]_vars

(***************************************************************************)
(* The code of the file runs on until it returns.  The synchronous prefix  *)
(* of a task is finite, whatever it calls in between, and a task of the    *)
(* lane's generation settles: its continuation is a microtask, which runs  *)
(* before any later event, hence strong fairness.  A task that a restart   *)
(* interrupted need not settle ("interrupted tasks' finally blocks may not *)
(* run", lines 230-243 of the file).  Nothing else is owed: nobody has to  *)
(* enqueue, clear, reset or wait.                                          *)
(***************************************************************************)
CurrentTaskSettles(e) == IsCurrent(e) /\ TaskSettles(e)

Fairness ==
  /\ WF_vars(QueueStep)
  /\ \A e \in Entries : SF_vars(EntryStep(e)) /\ SF_vars(CurrentTaskSettles(e))

FairSpec == Spec /\ Fairness

-----------------------------------------------------------------------------
(* The entries of lane l whose task the program has started, in the lane's *)
(* generation, and that have not finished: what really runs in the lane.   *)
Current(l) == {e \in Entries : phase[e] \in InFlight /\ laneOf[e] = l /\ IsCurrent(e)}

(* Between turns no lane has both a waiting entry and room for it: each    *)
(* path that adds work or room (enqueue, completion, a raised limit, a     *)
(* reset) ends in a pump, and drainLane's early return while draining is   *)
(* harmless because the pump it relies on is still on the call stack.      *)
NoStrandedWork ==
  TurnOver => \A l \in Lanes : queue[l] # <<>> => ~(Cardinality(activeTaskIds[l]) < maxConcurrent[l])

(* The counter agrees with reality: activeTaskIds of a lane holds exactly  *)
(* the tasks of its generation that run, so that a completion from before  *)
(* a reset neither frees a slot nor leaks one.                             *)
ActiveIsCurrent == \A l \in Lanes : activeTaskIds[l] = Current(l)

(* When waitForActiveTasks reports drained, no task it saw active at its   *)
(* call still runs, except one that a reset has given up.                  *)
DrainedMeansDone ==
  \A w \in Waiters : waiterPhase[w] = "drained" =>
    \A e \in snapshot[w] : phase[e] \in InFlight => ~IsCurrent(e)

(* What the queue says runs is what runs, over any resets: its counters,   *)
(* and what it has told a waiter.                                          *)
SaysWhatRuns == ActiveIsCurrent /\ DrainedMeansDone

(* A queued entry does not wait forever: it starts or is cleared.          *)
QueuedEventuallyLeaves ==
  \A e \in Entries : phase[e] = "queued" ~> phase[e] # "queued"

(***************************************************************************)
(* The abstract service: the tasks in place are those of the lane's        *)
(* generation, the given up ones those that still run from an earlier one. *)
(***************************************************************************)
Service == INSTANCE LaneService WITH
  Tasks <- Entries,
  line <- queue,
  places <- [l \in Lanes |-> Current(l)],
  given_up <- {e \in Entries : phase[e] \in InFlight /\ ~IsCurrent(e)},
  limit <- maxConcurrent,
  closed <- gatewayDraining,
  LimitBound <- CleanLimit(LimitBound)

(* Every step of the scheduler is one step of the service or none: entries *)
(* start in the order they were enqueued and only in a free place,         *)
(* whatever nesting of pumps, clearing and resetting happens in between;   *)
(* and its fair behaviours keep no entry waiting while there is a place.   *)
ImplementsService == Service!Spec
=============================================================================

------------------------ MODULE CommandQueue_proofs ------------------------
(***************************************************************************)
(* Proofs about CommandQueue, for every set of lanes, entries and waiters, *)
(* every bound, and so for call stacks of every depth.                     *)
(***************************************************************************)
EXTENDS CommandQueue, SequenceTheorems, TLAPS

(* Sequences as stacks and as queues.                                      *)

(* x is one of the elements of s.                                          *)
Within(x, s) == \E i \in 1..Len(s) : s[i] = x

(* No element of s occurs twice.                                           *)
Distinct(s) == \A i, j \in 1..Len(s) : s[i] = s[j] => i = j

(* s without its last element.                                             *)
Front(s) == SubSeq(s, 1, Len(s) - 1)

(* What Front(s) is.                                                       *)
LEMMA FrontProperties ==
  ASSUME NEW S, NEW s \in Seq(S), s # <<>>
  PROVE  /\ Front(s) \in Seq(S)
         /\ Len(Front(s)) = Len(s) - 1
         /\ \A i \in 1..Len(Front(s)) : Front(s)[i] = s[i]
         /\ s[Len(s)] \in S
         /\ Len(s) \in 1..Len(s)
<1>1. Len(s) \in Nat /\ Len(s) # 0 /\ \A i \in 1..Len(s) : s[i] \in S
  BY EmptySeq, LenProperties, ElementOfSeq
<1>2. \A i \in 1..(Len(s) - 1) : s[i] \in S
  BY <1>1
<1>3. /\ Front(s) \in Seq(S)
      /\ Len(Front(s)) = IF 1 <= Len(s) - 1 THEN Len(s) - 1 - 1 + 1 ELSE 0
      /\ \A i \in 1..(Len(s) - 1 - 1 + 1) : Front(s)[i] = s[1 + i - 1]
  BY <1>1, <1>2, SubSeqProperties DEF Front
<1>4. Len(Front(s)) = Len(s) - 1
  <2>. DEFINE n == Len(s)
  <2>1. n \in Nat /\ n # 0 /\ Len(Front(s)) = IF 1 <= n - 1 THEN n - 1 - 1 + 1 ELSE 0
    BY <1>1, <1>3
  <2>. HIDE DEF n
  <2>2. Len(Front(s)) = n - 1
    BY <2>1
  <2>. QED
    BY <2>2 DEF n
<1>5. \A i \in 1..(Len(s) - 1) : Front(s)[i] = s[i]
  BY <1>1, <1>3
<1>. QED
  BY <1>1, <1>3, <1>4, <1>5

(* An element is in Append(s, x) when it is in s or is x.                  *)
LEMMA WithinAppend ==
  ASSUME NEW S, NEW s \in Seq(S), NEW x \in S, NEW f
  PROVE  Within(f, Append(s, x)) <=> Within(f, s) \/ f = x
BY AppendProperties, LenProperties DEF Within

(* What the last element is not survives its removal, and nothing is added.*)
LEMMA WithinFront ==
  ASSUME NEW S, NEW s \in Seq(S), s # <<>>, NEW f
  PROVE  Within(f, s) <=> Within(f, Front(s)) \/ f = s[Len(s)]
<1>. /\ Len(s) \in Nat /\ Len(s) # 0
     /\ Len(Front(s)) = Len(s) - 1
     /\ \A i \in 1..Len(Front(s)) : Front(s)[i] = s[i]
  BY FrontProperties, EmptySeq, LenProperties
<1>. QED
  BY DEF Within

(* The elements of Tail(s) and the head are the elements of s.             *)
LEMMA WithinTail ==
  ASSUME NEW S, NEW s \in Seq(S), s # <<>>, NEW f
  PROVE  Within(f, s) <=> Within(f, Tail(s)) \/ f = Head(s)
<1>1. /\ Len(s) \in Nat /\ Len(s) # 0
      /\ Len(Tail(s)) = Len(s) - 1
      /\ \A i \in 1..Len(Tail(s)) : Tail(s)[i] = s[i + 1]
      /\ Head(s) = s[1]
  BY HeadTailProperties, EmptySeq, LenProperties
<1>2. ASSUME Within(f, s) PROVE Within(f, Tail(s)) \/ f = Head(s)
  <2>1. PICK i \in 1..Len(s) : s[i] = f
    BY <1>2 DEF Within
  <2>2. CASE i = 1
    BY <2>1, <2>2, <1>1
  <2>3. CASE i # 1
    <3>1. i - 1 \in 1..Len(Tail(s)) /\ Tail(s)[i - 1] = s[i]
      BY <2>3, <1>1
    <3>. QED
      BY <3>1, <2>1 DEF Within
  <2>. QED
    BY <2>2, <2>3
<1>3. ASSUME Within(f, Tail(s)) PROVE Within(f, s)
  BY <1>1, <1>3 DEF Within
<1>4. Within(Head(s), s)
  BY <1>1 DEF Within
<1>. QED
  BY <1>2, <1>3, <1>4

(* A sequence without repetition stays so when a new element is appended   *)
LEMMA DistinctAppend ==
  ASSUME NEW S, NEW s \in Seq(S), NEW x \in S, Distinct(s), ~Within(x, s)
  PROVE  Distinct(Append(s, x))
BY AppendProperties, LenProperties DEF Within, Distinct

(* and when its head goes, which is then not in it any more.               *)
LEMMA DistinctTail ==
  ASSUME NEW S, NEW s \in Seq(S), s # <<>>, Distinct(s)
  PROVE  Distinct(Tail(s)) /\ ~Within(Head(s), Tail(s))
<1>. /\ Len(s) \in Nat /\ Len(s) # 0
     /\ Len(Tail(s)) = Len(s) - 1
     /\ \A i \in 1..Len(Tail(s)) : Tail(s)[i] = s[i + 1]
     /\ Head(s) = s[1]
  BY HeadTailProperties, EmptySeq, LenProperties
<1>. QED
  BY DEF Within, Distinct

-----------------------------------------------------------------------------

(* The three kinds of frame are frames and are different from each other.  *)
LEMMA FrameTypes ==
  /\ \A l \in Lanes : PumpFrame(l) \in Frames
  /\ \A e \in Entries : TaskFrame(e) \in Frames
  /\ \A S \in SUBSET Lanes : ResetFrame(S) \in Frames
BY DEF Frames

(* What the frames of the call stack say.                                  *)
LEMMA FrameKinds ==
  /\ \A x : PumpFrame(x).kind = "pump" /\ PumpFrame(x).lane = x
  /\ \A x : TaskFrame(x).kind = "task" /\ TaskFrame(x).entry = x
  /\ \A x : ResetFrame(x).kind = "reset" /\ ResetFrame(x).lanes = x
BY DEF PumpFrame, TaskFrame, ResetFrame

(* drainLane leaves a well-formed stack and flag.                          *)
LEMMA DrainLaneType ==
  ASSUME TypeOK, NEW l \in Lanes, NEW s \in Seq(Frames), DrainLane(l, s)
  PROVE  stack' \in Seq(Frames) /\ draining' \in [Lanes -> BOOLEAN]
<1>1. CASE draining[l]
  BY <1>1 DEF DrainLane, TypeOK
<1>2. CASE ~draining[l]
  <2>1. Append(s, PumpFrame(l)) \in Seq(Frames)
    BY FrameTypes, AppendProperties
  <2>. QED
    BY <1>2, <2>1 DEF DrainLane, TypeOK
<1>. QED
  BY <1>1, <1>2

(* The stack without its top is a stack.                                   *)
LEMMA PoppedType ==
  ASSUME TypeOK, ~TurnOver
  PROVE  Popped \in Seq(Frames) /\ Top \in Frames
BY FrontProperties DEF TypeOK, TurnOver, Popped, Top, Front

(* The end of a task keeps the types.                                      *)
LEMMA CompleteType ==
  ASSUME TypeOK, NEW e \in Entries, NEW s \in Seq(Frames),
         NEW outcome \in {"fulfilled", "rejected"}, Complete(e, outcome, s)
  PROVE  TypeOK'
<1>1. laneOf[e] \in Lanes
  BY DEF TypeOK
<1>2. stack' \in Seq(Frames)
  BY <1>1, FrameTypes, AppendProperties DEF Complete, AfterCompletion
<1>3. RemainingTasks(e) \in SUBSET Entries
  BY <1>1 DEF TypeOK, RemainingTasks
<1>4. activeTaskIds' \in [Lanes -> SUBSET Entries]
  BY <1>1, <1>3 DEF TypeOK, Complete
<1>5. phase' \in [Entries -> Phases]
  BY DEF TypeOK, Complete, Phases
<1>. QED
  BY <1>2, <1>4, <1>5 DEF TypeOK, Complete, waiterVars

(* The state is of its type in every reachable state: in particular a      *)
(* lane's limit is never below one and its queue holds calls only.         *)
THEOREM TypeCorrect == Spec => []TypeOK
<1>1. Init => TypeOK
  <2> SUFFICES ASSUME Init PROVE TypeOK
    OBVIOUS
  <2>1. /\ queue \in [Lanes -> Seq(Entries)]
        /\ stack \in Seq(Frames)
    BY EmptySeq DEF Init
  <2>2. /\ maxConcurrent \in [Lanes -> Nat \ {0}]
        /\ phase \in [Entries -> Phases]
        /\ tickets \in Nat
        /\ waiterPhase \in [Waiters -> {"idle", "polling", "drained", "timedOut"}]
    BY DEF Init, Phases
  <2>. QED
    BY <2>1, <2>2 DEF Init, TypeOK
<1>2. TypeOK /\ [Next]_vars => TypeOK'
  <2> SUFFICES ASSUME TypeOK, [Next]_vars PROVE TypeOK'
    OBVIOUS
  <2> USE DEF laneVars, entryVars, waiterVars
  <2>1. ASSUME NEW e \in Entries, EnqueueRefused(e) PROVE TypeOK'
    BY <2>1 DEF EnqueueRefused, TypeOK, Phases
  <2>2. ASSUME NEW e \in Entries, Enqueue(e) PROVE TypeOK'
    <3>1. laneOf[e] \in Lanes /\ stack \in Seq(Frames)
      BY DEF TypeOK
    <3>2. stack' \in Seq(Frames) /\ draining' \in [Lanes -> BOOLEAN]
      BY <2>2, <3>1, DrainLaneType DEF Enqueue
    <3>3. Pushed(e) \in Seq(Entries)
      BY <3>1, AppendProperties DEF TypeOK, Pushed
    <3>4. phase' \in [Entries -> Phases] /\ ticket' \in [Entries -> Nat] /\ tickets' \in Nat
      BY <2>2 DEF Enqueue, TypeOK, Phases
    <3>5. queue' \in [Lanes -> Seq(Entries)]
      BY <2>2, <3>1, <3>3 DEF Enqueue, TypeOK
    <3>. QED
      BY <2>2, <3>2, <3>4, <3>5 DEF Enqueue, TypeOK
  <2>3. ASSUME NEW e \in Entries, TaskSettles(e) PROVE TypeOK'
    <3>1. stack \in Seq(Frames)
      BY DEF TypeOK
    <3>. QED
      BY <2>3, <3>1, CompleteType DEF TaskSettles
  <2>4. ASSUME NEW e \in Entries, TaskYields(e) PROVE TypeOK'
    BY <2>4, PoppedType DEF TaskYields, TypeOK, Phases
  <2>5. ASSUME NEW e \in Entries, TaskThrows(e) PROVE TypeOK'
    BY <2>5, PoppedType, CompleteType DEF TaskThrows
  <2>6. ASSUME NEW l \in Lanes, PumpStart(l) PROVE TypeOK'
    <3>. DEFINE e == Head(queue[l])
    <3>1. queue[l] \in Seq(Entries) /\ queue[l] # <<>>
      BY <2>6 DEF PumpStart, CanStart, TypeOK
    <3>2. e \in Entries /\ Tail(queue[l]) \in Seq(Entries)
      BY <3>1, HeadTailProperties
    <3>3. stack' \in Seq(Frames)
      BY <2>6, <3>2, FrameTypes, AppendProperties DEF PumpStart, TypeOK
    <3>4. queue' \in [Lanes -> Seq(Entries)]
      BY <2>6, <3>2 DEF PumpStart, TypeOK
    <3>5. /\ activeTaskIds' \in [Lanes -> SUBSET Entries]
          /\ phase' \in [Entries -> Phases]
          /\ genOf' \in [Entries -> Nat]
      BY <2>6, <3>2 DEF PumpStart, TypeOK, Phases
    <3>. QED
      BY <2>6, <3>3, <3>4, <3>5 DEF PumpStart, TypeOK
  <2>7. ASSUME NEW l \in Lanes, PumpReturn(l) PROVE TypeOK'
    BY <2>7, PoppedType DEF PumpReturn, FlagAfterPump, TypeOK
  <2>8. ASSUME NEW l \in Lanes, ResetDrains(l) PROVE TypeOK'
    <3>1. Popped \in Seq(Frames) /\ Top \in Frames
      BY <2>8, PoppedType DEF ResetDrains
    <3>2. Top.lanes \in SUBSET Lanes
      BY <2>8, <3>1, FrameKinds DEF ResetDrains, Frames
    <3>3. Append(Popped, ResetFrame(Top.lanes \ {l})) \in Seq(Frames)
      BY <3>1, <3>2, FrameTypes, AppendProperties
    <3>4. stack' \in Seq(Frames) /\ draining' \in [Lanes -> BOOLEAN]
      BY <2>8, <3>3, DrainLaneType DEF ResetDrains
    <3>. QED
      BY <2>8, <3>4 DEF ResetDrains, TypeOK
  <2>9. CASE ResetReturns
    BY <2>9, PoppedType DEF ResetReturns, TypeOK
  <2>10. ASSUME NEW l \in Lanes, ClearCommandLane(l) PROVE TypeOK'
    BY <2>10, EmptySeq DEF ClearCommandLane, TypeOK, Phases
  <2>11. ASSUME NEW l \in Lanes, NEW n \in 0..LimitBound, SetCommandLaneConcurrency(l, n)
         PROVE TypeOK'
    <3>1. CleanLimit(n) \in Nat \ {0}
      BY DEF CleanLimit
    <3>2. stack' \in Seq(Frames) /\ draining' \in [Lanes -> BOOLEAN]
      BY <2>11, DrainLaneType DEF SetCommandLaneConcurrency, TypeOK
    <3>. QED
      BY <2>11, <3>1, <3>2 DEF SetCommandLaneConcurrency, TypeOK
  <2>12. ASSUME NEW w \in Waiters, WaitForActiveTasks(w) PROVE TypeOK'
    <3>1. AllActive \in SUBSET Entries
      BY DEF AllActive, TypeOK
    <3>. QED
      BY <2>12, <3>1 DEF WaitForActiveTasks, WaitCheck, TypeOK
  <2>13. ASSUME NEW w \in Waiters, WaitPoll(w) PROVE TypeOK'
    BY <2>13 DEF WaitPoll, WaitCheck, TypeOK
  <2>14. CASE MarkGatewayDraining
    BY <2>14 DEF MarkGatewayDraining, TypeOK
  <2>15. CASE ResetAllLanes
    <3>1. ResetFrame(LanesToDrain) \in Frames
      BY FrameTypes DEF LanesToDrain
    <3>2. stack' \in Seq(Frames)
      BY <2>15, <3>1 DEF ResetAllLanes
    <3>3. generation' \in [Lanes -> Nat]
      BY <2>15 DEF ResetAllLanes, NextGeneration, TypeOK
    <3>. QED
      BY <2>15, <3>2, <3>3 DEF ResetAllLanes, TypeOK
  <2>16. CASE UNCHANGED vars
    BY <2>16 DEF vars, TypeOK
  <2>. QED
    BY <2>1, <2>2, <2>3, <2>4, <2>5, <2>6, <2>7, <2>8, <2>9, <2>10, <2>11, <2>12, <2>13,
       <2>14, <2>15, <2>16 DEF Next, QueueStep, LaneStep, EntryStep, Call
<1>. QED
  BY <1>1, <1>2, PTL DEF Spec

-----------------------------------------------------------------------------
(***************************************************************************)
(* No stranded work.  The flag draining[l] promises that a pump of lane l  *)
(* is on the call stack (FlagOnStack); a lane with work and room is looked *)
(* after by such a pump or by a reset that has yet to drain it (Attended). *)
(* Neither is about the turn's end, where the stack is empty and nothing   *)
(* is attended: that is NoStrandedWork.                                    *)
(***************************************************************************)
Attended(l) ==
  \/ Within(PumpFrame(l), stack)
  \/ \E S \in SUBSET Lanes : l \in S /\ Within(ResetFrame(S), stack)

FlagOnStack == \A l \in Lanes : draining[l] => Within(PumpFrame(l), stack)

WorkAttended == \A l \in Lanes : CanStart(l) => Attended(l)

PumpInv == TypeOK /\ FlagOnStack /\ WorkAttended

(* The frames are told apart by their kind and their content.              *)
LEMMA FramesDiffer ==
  ASSUME NEW k, NEW l, NEW e, NEW S, NEW T
  PROVE  /\ PumpFrame(k) = PumpFrame(l) => k = l
         /\ PumpFrame(k) # TaskFrame(e)
         /\ PumpFrame(k) # ResetFrame(S)
         /\ ResetFrame(S) # TaskFrame(e)
         /\ ResetFrame(S) = ResetFrame(T) => S = T
BY FrameKinds

(* A stack that keeps its pump and reset frames keeps a lane attended.     *)
LEMMA AttendedKept ==
  ASSUME NEW l \in Lanes, Attended(l),
         \A f : Within(f, stack) /\ f.kind # "task" => Within(f, stack')
  PROVE  Attended(l)'
BY FrameKinds DEF Attended

(* After drainLane(l, s) the pump of l is on the stack, and so is all of s. *)
LEMMA DrainLaneStack ==
  ASSUME NEW l \in Lanes, NEW s \in Seq(Frames), DrainLane(l, s),
         draining[l] => Within(PumpFrame(l), s)
  PROVE  /\ Within(PumpFrame(l), stack')
         /\ \A f : Within(f, s) => Within(f, stack')
<1>1. CASE draining[l]
  BY <1>1 DEF DrainLane
<1>2. CASE ~draining[l]
  <2>1. stack' = Append(s, PumpFrame(l)) /\ PumpFrame(l) \in Frames
    BY <1>2, FrameTypes DEF DrainLane
  <2>2. \A f : Within(f, Append(s, PumpFrame(l))) <=> Within(f, s) \/ f = PumpFrame(l)
    BY <2>1, WithinAppend
  <2>. QED
    BY <2>1, <2>2
<1>. QED
  BY <1>1, <1>2

(* drainLane raises no flag but that of its lane.                          *)
LEMMA DrainLaneFlag ==
  ASSUME TypeOK, NEW l \in Lanes, NEW s, DrainLane(l, s), NEW k \in Lanes, k # l
  PROVE  draining'[k] = draining[k]
BY DEF DrainLane, TypeOK

(* What pushing a frame, and popping one, leaves on the stack.             *)
LEMMA Pushing ==
  ASSUME TypeOK, NEW s \in Seq(Frames), NEW g \in Frames, NEW f
  PROVE  Within(f, Append(s, g)) <=> Within(f, s) \/ f = g
BY WithinAppend

(* What is on the stack is its top or below it.                            *)
LEMMA Popping ==
  ASSUME TypeOK, ~TurnOver, NEW f
  PROVE  Within(f, stack) <=> Within(f, Popped) \/ f = Top
BY WithinFront DEF TypeOK, TurnOver, Popped, Top, Front

(* Lanes whose queue, tasks and limit a step leaves alone, and whose flag  *)
(* it does not raise, keep their part of the invariant when the stack      *)
(* keeps its pump and reset frames.                                        *)
LEMMA LaneKept ==
  ASSUME PumpInv, NEW l \in Lanes,
         queue'[l] = queue[l], activeTaskIds'[l] = activeTaskIds[l],
         maxConcurrent'[l] = maxConcurrent[l], draining'[l] => draining[l],
         \A f : Within(f, stack) /\ f.kind # "task" => Within(f, stack')
  PROVE  /\ draining'[l] => Within(PumpFrame(l), stack')
         /\ CanStart(l)' => Attended(l)'
<1>1. CanStart(l)' => CanStart(l)
  BY DEF CanStart
<1>2. CanStart(l)' => Attended(l)'
  BY <1>1, AttendedKept DEF PumpInv, WorkAttended
<1>. QED
  BY <1>2, FrameKinds DEF PumpInv, FlagOnStack

(* The end of a task leaves the lane it pumps attended.                    *)
LEMMA CompleteAttends ==
  ASSUME PumpInv, TypeOK', NEW e \in Entries, NEW s \in Seq(Frames), NEW outcome,
         Complete(e, outcome, s),
         \A f : Within(f, stack) /\ f.kind # "task" => Within(f, s)
  PROVE  FlagOnStack' /\ WorkAttended'
<1>. DEFINE k == laneOf[e]
<1>1. k \in Lanes /\ PumpFrame(k) \in Frames
  BY FrameTypes DEF PumpInv, TypeOK
<1>2. \A f : Within(f, Append(s, PumpFrame(k))) <=> Within(f, s) \/ f = PumpFrame(k)
  BY <1>1, Pushing DEF PumpInv
<1>3. \A f : Within(f, s) => Within(f, stack')
  BY <1>2 DEF Complete, AfterCompletion
<1>4. \A l \in Lanes : draining'[l] => Within(PumpFrame(l), stack')
  BY <1>3, FrameKinds DEF PumpInv, FlagOnStack, Complete
<1>5. ASSUME NEW l \in Lanes, CanStart(l)' PROVE Attended(l)'
  <2>1. CASE l = k /\ IsCurrent(e)
    BY <2>1, <1>2 DEF Complete, AfterCompletion, Attended
  <2>2. CASE ~(l = k /\ IsCurrent(e))
    <3>1. activeTaskIds'[l] = activeTaskIds[l]
      BY <2>2, <1>1 DEF Complete, RemainingTasks, PumpInv, TypeOK
    <3>. QED
      BY <3>1, <1>3, <1>5, LaneKept DEF Complete
  <2>. QED
    BY <2>1, <2>2
<1>. QED
  BY <1>4, <1>5 DEF FlagOnStack, WorkAttended

(* Nothing is on the stack at the start, and nothing waits.                *)
LEMMA PumpInvInit == Init => FlagOnStack /\ WorkAttended
BY DEF Init, FlagOnStack, WorkAttended, CanStart

(* Every step keeps flags and lanes attended.                              *)
LEMMA PumpInvStep ==
  ASSUME PumpInv, TypeOK', [Next]_vars
  PROVE  FlagOnStack' /\ WorkAttended'
<1> USE DEF laneVars, entryVars, waiterVars
<1>t. TypeOK
  BY DEF PumpInv
(* A step that leaves the lanes and the stack alone.                       *)
<1>a. ASSUME UNCHANGED <<laneVars, stack>> PROVE FlagOnStack' /\ WorkAttended'
  <2>1. \A l \in Lanes : /\ draining'[l] => Within(PumpFrame(l), stack')
                         /\ CanStart(l)' => Attended(l)'
    BY <1>a, LaneKept
  <2>. QED
    BY <2>1 DEF FlagOnStack, WorkAttended
(* A step that drains lane l with stack s and changes l's queue or limit.  *)
<1>b. ASSUME NEW l \in Lanes, NEW s \in Seq(Frames), DrainLane(l, s),
             \A f : Within(f, stack) /\ f.kind # "task" /\ f.kind # "reset" => Within(f, s),
             \A k \in Lanes \ {l} :
               /\ queue'[k] = queue[k]
               /\ activeTaskIds'[k] = activeTaskIds[k]
               /\ maxConcurrent'[k] = maxConcurrent[k],
             \A k \in Lanes \ {l} : Attended(k) =>
               \/ Within(PumpFrame(k), s)
               \/ \E S \in SUBSET Lanes : k \in S /\ Within(ResetFrame(S), s)
      PROVE  FlagOnStack' /\ WorkAttended'
  <2>1. draining[l] => Within(PumpFrame(l), s)
    BY <1>b, FrameKinds DEF PumpInv, FlagOnStack
  <2>2. Within(PumpFrame(l), stack') /\ \A f : Within(f, s) => Within(f, stack')
    BY <1>b, <2>1, DrainLaneStack
  <2>3. ASSUME NEW k \in Lanes, k # l
        PROVE  /\ draining'[k] => Within(PumpFrame(k), stack')
               /\ CanStart(k)' => Attended(k)'
    <3>1. draining'[k] = draining[k]
      BY <1>b, <1>t, <2>3, DrainLaneFlag
    <3>2. draining'[k] => Within(PumpFrame(k), stack')
      BY <3>1, <1>b, <2>2, FrameKinds DEF PumpInv, FlagOnStack
    <3>3. CanStart(k)' => CanStart(k)
      BY <1>b, <2>3 DEF CanStart
    <3>4. CanStart(k)' => Attended(k)'
      BY <3>3, <1>b, <2>2, <2>3 DEF PumpInv, WorkAttended, Attended
    <3>. QED
      BY <3>2, <3>4
  <2>. QED
    BY <2>2, <2>3 DEF FlagOnStack, WorkAttended, Attended
<1>1. ASSUME NEW e \in Entries, EnqueueRefused(e) PROVE FlagOnStack' /\ WorkAttended'
  BY <1>1, <1>a DEF EnqueueRefused
<1>2. ASSUME NEW e \in Entries, Enqueue(e) PROVE FlagOnStack' /\ WorkAttended'
  <2>1. laneOf[e] \in Lanes /\ stack \in Seq(Frames)
    BY <1>t DEF TypeOK
  <2>2. \A k \in Lanes \ {laneOf[e]} : queue'[k] = queue[k]
    BY <1>2, <1>t DEF Enqueue, TypeOK
  <2>. QED
    BY <1>2, <1>b, <2>1, <2>2 DEF Enqueue, Attended
<1>3. ASSUME NEW e \in Entries, TaskSettles(e) PROVE FlagOnStack' /\ WorkAttended'
  <2>1. stack \in Seq(Frames)
    BY <1>t DEF TypeOK
  <2>. QED
    BY <1>3, <2>1, CompleteAttends DEF TaskSettles
<1>4. ASSUME NEW e \in Entries, TaskYields(e) PROVE FlagOnStack' /\ WorkAttended'
  <2>1. \A f : Within(f, stack) /\ f.kind # "task" => Within(f, stack')
    BY <1>4, <1>t, Popping, FrameKinds DEF TaskYields
  <2>2. \A l \in Lanes : /\ draining'[l] => Within(PumpFrame(l), stack')
                         /\ CanStart(l)' => Attended(l)'
    BY <1>4, <2>1, LaneKept DEF TaskYields
  <2>. QED
    BY <2>2 DEF FlagOnStack, WorkAttended
<1>5. ASSUME NEW e \in Entries, TaskThrows(e) PROVE FlagOnStack' /\ WorkAttended'
  <2>1. \A f : Within(f, stack) /\ f.kind # "task" => Within(f, Popped)
    BY <1>5, <1>t, Popping, FrameKinds DEF TaskThrows
  <2>2. Popped \in Seq(Frames)
    BY <1>5, <1>t, PoppedType DEF TaskThrows
  <2>. QED
    BY <1>5, <2>1, <2>2, CompleteAttends DEF TaskThrows
<1>6. ASSUME NEW l \in Lanes, PumpStart(l) PROVE FlagOnStack' /\ WorkAttended'
  <2>1. Head(queue[l]) \in Entries
    BY <1>6, <1>t, HeadTailProperties DEF PumpStart, CanStart, TypeOK
  <2>2. \A f : Within(f, stack) => Within(f, stack')
    BY <1>6, <1>t, <2>1, FrameTypes, Pushing DEF PumpStart, TypeOK
  <2>3. Within(PumpFrame(l), stack)
    BY <1>6, <1>t, Popping DEF PumpStart
  <2>4. \A k \in Lanes \ {l} : queue'[k] = queue[k] /\ activeTaskIds'[k] = activeTaskIds[k]
    BY <1>6, <1>t DEF PumpStart, TypeOK
  <2>5. \A k \in Lanes \ {l} : /\ draining'[k] => Within(PumpFrame(k), stack')
                               /\ CanStart(k)' => Attended(k)'
    BY <1>6, <2>2, <2>4, LaneKept DEF PumpStart
  <2>. QED
    BY <2>2, <2>3, <2>5 DEF FlagOnStack, WorkAttended, Attended
<1>7. ASSUME NEW l \in Lanes, PumpReturn(l) PROVE FlagOnStack' /\ WorkAttended'
  <2>1. \A k \in Lanes \ {l} : draining'[k] = draining[k]
    BY <1>7, <1>t DEF PumpReturn, TypeOK
  <2>2. ~draining'[l] /\ ~CanStart(l)'
    BY <1>7, <1>t DEF PumpReturn, FlagAfterPump, CanStart, TypeOK
  <2>3. \A f : Within(f, stack) /\ f # PumpFrame(l) => Within(f, stack')
    BY <1>7, <1>t, Popping DEF PumpReturn
  <2>4. ASSUME NEW k \in Lanes \ {l}
        PROVE  /\ draining'[k] => Within(PumpFrame(k), stack')
               /\ CanStart(k)' => Attended(k)'
    <3>1. Within(PumpFrame(k), stack) => Within(PumpFrame(k), stack')
      BY <2>3, FramesDiffer
    <3>2. \A S \in SUBSET Lanes : Within(ResetFrame(S), stack) => Within(ResetFrame(S), stack')
      BY <2>3, FramesDiffer
    <3>3. CanStart(k)' => CanStart(k)
      BY <1>7 DEF PumpReturn, CanStart
    <3>. QED
      BY <2>1, <3>1, <3>2, <3>3 DEF PumpInv, FlagOnStack, WorkAttended, Attended
  <2>. QED
    BY <2>2, <2>4 DEF FlagOnStack, WorkAttended
<1>8. ASSUME NEW l \in Lanes, ResetDrains(l) PROVE FlagOnStack' /\ WorkAttended'
  <2>. DEFINE R == Top.lanes
              s == Append(Popped, ResetFrame(R \ {l}))
  <2>1. Popped \in Seq(Frames) /\ Top \in Frames
    BY <1>8, <1>t, PoppedType DEF ResetDrains
  <2>2. R \in SUBSET Lanes /\ Top = ResetFrame(R)
    BY <1>8, <2>1, FrameKinds DEF ResetDrains, Frames
  <2>3. s \in Seq(Frames) /\ \A f : Within(f, s) <=> Within(f, Popped) \/ f = ResetFrame(R \ {l})
    <3>1. ResetFrame(R \ {l}) \in Frames
      BY <2>2, FrameTypes
    <3>. QED
      BY <1>t, <2>1, <3>1, AppendProperties, Pushing
  <2>4. \A f : Within(f, stack) /\ f # ResetFrame(R) => Within(f, s)
    BY <1>8, <1>t, <2>2, <2>3, Popping DEF ResetDrains
  <2>5. ASSUME NEW k \in Lanes \ {l}, Attended(k)
        PROVE  \/ Within(PumpFrame(k), s)
               \/ \E S \in SUBSET Lanes : k \in S /\ Within(ResetFrame(S), s)
    <3>1. CASE Within(PumpFrame(k), stack)
      BY <3>1, <2>4, FramesDiffer
    <3>2. ASSUME NEW S \in SUBSET Lanes, k \in S, Within(ResetFrame(S), stack)
          PROVE  \E T \in SUBSET Lanes : k \in T /\ Within(ResetFrame(T), s)
      <4>1. CASE S = R
        <5>1. R \ {l} \in SUBSET Lanes /\ k \in R \ {l}
          BY <4>1, <3>2, <2>2
        <5>. QED
          BY <5>1, <2>3
      <4>2. CASE S # R
        BY <4>2, <3>2, <2>4, FramesDiffer
      <4>. QED
        BY <4>1, <4>2
    <3>. QED
      BY <2>5, <3>1, <3>2 DEF Attended
  <2>6. \A f : Within(f, stack) /\ f.kind # "task" /\ f.kind # "reset" => Within(f, s)
    BY <2>4, FrameKinds
  <2>7. DrainLane(l, s) /\ UNCHANGED <<queue, activeTaskIds, maxConcurrent>>
    BY <1>8 DEF ResetDrains
  <2>. HIDE DEF s
  <2>. QED
    BY <1>b, <2>3, <2>5, <2>6, <2>7
<1>9. CASE ResetReturns
  <2>1. \A f : Within(f, stack) /\ f # ResetFrame({}) => Within(f, stack')
    BY <1>9, <1>t, Popping DEF ResetReturns
  <2>2. ASSUME NEW k \in Lanes
        PROVE  /\ draining'[k] => Within(PumpFrame(k), stack')
               /\ CanStart(k)' => Attended(k)'
    <3>1. Within(PumpFrame(k), stack) => Within(PumpFrame(k), stack')
      BY <2>1, FramesDiffer
    <3>2. \A S \in SUBSET Lanes : k \in S /\ Within(ResetFrame(S), stack)
                                   => Within(ResetFrame(S), stack')
      BY <2>1, FramesDiffer
    <3>3. CanStart(k)' => CanStart(k)
      BY <1>9 DEF ResetReturns, CanStart
    <3>. QED
      BY <1>9, <3>1, <3>2, <3>3 DEF ResetReturns, PumpInv, FlagOnStack, WorkAttended, Attended
  <2>. QED
    BY <2>2 DEF FlagOnStack, WorkAttended
<1>10. ASSUME NEW l \in Lanes, ClearCommandLane(l) PROVE FlagOnStack' /\ WorkAttended'
  <2>1. \A k \in Lanes : CanStart(k)' => CanStart(k)
    BY <1>10, <1>t DEF ClearCommandLane, CanStart, TypeOK
  <2>. QED
    BY <1>10, <2>1 DEF ClearCommandLane, PumpInv, FlagOnStack, WorkAttended, Attended
<1>11. ASSUME NEW l \in Lanes, NEW n \in 0..LimitBound, SetCommandLaneConcurrency(l, n)
       PROVE  FlagOnStack' /\ WorkAttended'
  <2>1. \A k \in Lanes \ {l} : maxConcurrent'[k] = maxConcurrent[k]
    BY <1>11, <1>t DEF SetCommandLaneConcurrency, TypeOK
  <2>2. stack \in Seq(Frames)
    BY <1>t DEF TypeOK
  <2>. QED
    BY <1>11, <1>b, <2>1, <2>2 DEF SetCommandLaneConcurrency, Attended
<1>12. ASSUME NEW w \in Waiters, WaitForActiveTasks(w) \/ WaitPoll(w)
       PROVE  FlagOnStack' /\ WorkAttended'
  BY <1>12, <1>a DEF WaitForActiveTasks, WaitPoll
<1>13. CASE MarkGatewayDraining
  BY <1>13, <1>a DEF MarkGatewayDraining
<1>14. CASE ResetAllLanes
  <2>1. Within(ResetFrame(LanesToDrain), stack')
    BY <1>14 DEF ResetAllLanes, Within
  <2>2. \A l \in Lanes : ~draining'[l]
    BY <1>14 DEF ResetAllLanes
  <2>3. \A l \in Lanes : CanStart(l)' => l \in LanesToDrain
    BY <1>14 DEF ResetAllLanes, CanStart, LanesToDrain
  <2>4. LanesToDrain \in SUBSET Lanes
    BY DEF LanesToDrain
  <2>. QED
    BY <2>1, <2>2, <2>3, <2>4 DEF FlagOnStack, WorkAttended, Attended
<1>15. CASE UNCHANGED vars
  BY <1>15, <1>a DEF vars
<1>. QED
  BY <1>1, <1>2, <1>3, <1>4, <1>5, <1>6, <1>7, <1>8, <1>9, <1>10, <1>11, <1>12, <1>13,
     <1>14, <1>15 DEF Next, QueueStep, LaneStep, EntryStep, Call

(* Between turns no lane has both a waiting entry and room for it,         *)
(* whatever the nesting of pumps that led there.                           *)
THEOREM NoWorkStranded == Spec => []NoStrandedWork
<1>1. Init /\ TypeOK => PumpInv
  BY PumpInvInit DEF PumpInv
<1>2. PumpInv /\ TypeOK' /\ [Next]_vars => PumpInv'
  BY PumpInvStep DEF PumpInv
<1>3. PumpInv => NoStrandedWork
  <2> SUFFICES ASSUME PumpInv, TurnOver, NEW l \in Lanes, queue[l] # <<>>
               PROVE  ~(Cardinality(activeTaskIds[l]) < maxConcurrent[l])
    BY DEF NoStrandedWork
  <2>1. \A f : ~Within(f, stack)
    BY DEF TurnOver, Within
  <2>2. ~CanStart(l)
    BY <2>1 DEF PumpInv, WorkAttended, Attended
  <2>. QED
    BY <2>2 DEF CanStart
<1>. QED
  BY <1>1, <1>2, <1>3, TypeCorrect, PTL DEF Spec

-----------------------------------------------------------------------------
(***************************************************************************)
(* What the queue says runs is what runs.  The counters are true because   *)
(* an entry is at one place at a time: in its lane's queue while it is     *)
(* queued, once (QueuedInPlace), on the stack while its prefix runs, once  *)
(* (SyncOnStack), and because no task is of a generation to come           *)
(* (GenerationsPast).  What a waiter was told stays true because a started *)
(* entry is never queued again (SnapshotsStarted).                         *)
(***************************************************************************)
QueuedInPlace ==
  \A l \in Lanes : /\ Distinct(queue[l])
                   /\ \A e \in Entries : Within(e, queue[l]) => phase[e] = "queued" /\ laneOf[e] = l

(* The task frames of a stack are pairwise different.                      *)
TasksOnce(s) == \A i, j \in 1..Len(s) : s[i].kind = "task" /\ s[i] = s[j] => i = j

SyncOnStack ==
  /\ TasksOnce(stack)
  /\ \A e \in Entries : Within(TaskFrame(e), stack) => phase[e] = "sync"

GenerationsPast == \A e \in Entries : genOf[e] <= generation[laneOf[e]]

SnapshotsStarted == \A w \in Waiters : \A e \in snapshot[w] : phase[e] \in Started

PlaceInv == /\ TypeOK /\ QueuedInPlace /\ SyncOnStack /\ GenerationsPast /\ SnapshotsStarted
            /\ SaysWhatRuns

(* A task is pushed on the stack once.                                     *)
LEMMA TasksOncePush ==
  ASSUME NEW s \in Seq(Frames), TasksOnce(s), NEW f \in Frames, f.kind = "task" => ~Within(f, s)
  PROVE  TasksOnce(Append(s, f))
BY AppendProperties, LenProperties DEF TasksOnce, Within

(* A task that is popped is not on the stack any more.                     *)
LEMMA TasksOncePop ==
  ASSUME TypeOK, ~TurnOver, TasksOnce(stack)
  PROVE  TasksOnce(Popped) /\ (Top.kind = "task" => ~Within(Top, Popped))
<1>. /\ Len(stack) \in Nat /\ Len(stack) # 0
     /\ Len(Popped) = Len(stack) - 1
     /\ \A i \in 1..Len(Popped) : Popped[i] = stack[i]
  BY FrontProperties, EmptySeq, LenProperties DEF TypeOK, TurnOver, Popped, Front
<1>. QED
  BY DEF TasksOnce, Within, Top

(* drainLane puts no task on the stack.                                    *)
LEMMA DrainLaneTasks ==
  ASSUME NEW l \in Lanes, NEW s \in Seq(Frames), DrainLane(l, s), TasksOnce(s)
  PROVE  /\ TasksOnce(stack')
         /\ \A e : Within(TaskFrame(e), stack') => Within(TaskFrame(e), s)
<1>1. PumpFrame(l) \in Frames /\ PumpFrame(l).kind # "task"
  BY FrameTypes, FrameKinds
<1>2. TasksOnce(Append(s, PumpFrame(l)))
  BY <1>1, TasksOncePush
<1>3. \A e : Within(TaskFrame(e), Append(s, PumpFrame(l))) => Within(TaskFrame(e), s)
  BY <1>1, WithinAppend, FramesDiffer
<1>. QED
  BY <1>2, <1>3 DEF DrainLane

(* A step that moves no entry and no task, whatever it does to the flags,  *)
(* the limits and the other frames.                                        *)
LEMMA NothingMoves ==
  ASSUME PlaceInv, UNCHANGED <<queue, activeTaskIds, generation, entryVars, waiterVars>>,
         TasksOnce(stack'), \A e : Within(TaskFrame(e), stack') => Within(TaskFrame(e), stack)
  PROVE  QueuedInPlace' /\ SyncOnStack' /\ GenerationsPast' /\ SnapshotsStarted' /\ SaysWhatRuns'
<1> USE DEF entryVars, waiterVars
<1>1. QueuedInPlace' /\ SyncOnStack' /\ GenerationsPast' /\ SnapshotsStarted'
  BY DEF PlaceInv, QueuedInPlace, SyncOnStack, GenerationsPast, SnapshotsStarted
<1>2. \A e \in Entries : IsCurrent(e)' = IsCurrent(e)
  BY DEF IsCurrent
<1>3. SaysWhatRuns'
  BY <1>2 DEF PlaceInv, SaysWhatRuns, ActiveIsCurrent, DrainedMeansDone, Current, TypeOK
<1>. QED
  BY <1>1, <1>3

(* An entry comes to its end, with the stack s left under it.              *)
LEMMA CompleteInPlace ==
  ASSUME PlaceInv, NEW e \in Entries, NEW s \in Seq(Frames),
         NEW outcome \in {"fulfilled", "rejected"}, Complete(e, outcome, s), phase[e] \in InFlight,
         TasksOnce(s), \A d : Within(TaskFrame(d), s) => d # e /\ Within(TaskFrame(d), stack)
  PROVE  QueuedInPlace' /\ SyncOnStack' /\ GenerationsPast' /\ SnapshotsStarted' /\ SaysWhatRuns'
<1> USE DEF waiterVars
<1>1. laneOf[e] \in Lanes /\ phase \in [Entries -> Phases]
  BY DEF PlaceInv, TypeOK
<1>2. \A d \in Entries : phase'[d] = IF d = e THEN outcome ELSE phase[d]
  BY <1>1 DEF Complete
<1>3. QueuedInPlace'
  BY <1>2 DEF PlaceInv, QueuedInPlace, Complete, InFlight
<1>4. TasksOnce(stack') /\ \A d : Within(TaskFrame(d), stack') => Within(TaskFrame(d), s)
  <2>1. PumpFrame(laneOf[e]) \in Frames /\ PumpFrame(laneOf[e]).kind # "task"
    BY <1>1, FrameTypes, FrameKinds
  <2>2. TasksOnce(Append(s, PumpFrame(laneOf[e])))
    BY <2>1, TasksOncePush
  <2>3. \A d : Within(TaskFrame(d), Append(s, PumpFrame(laneOf[e]))) => Within(TaskFrame(d), s)
    BY <2>1, WithinAppend, FramesDiffer
  <2>. QED
    BY <2>2, <2>3 DEF Complete, AfterCompletion
<1>5. SyncOnStack'
  BY <1>2, <1>4 DEF PlaceInv, SyncOnStack
<1>6. GenerationsPast' /\ SnapshotsStarted'
  BY <1>2 DEF PlaceInv, GenerationsPast, SnapshotsStarted, Complete, Started, TypeOK
<1>7. \A d \in Entries : IsCurrent(d)' = IsCurrent(d)
  BY DEF IsCurrent, Complete
<1>8. ActiveIsCurrent'
  <2> SUFFICES ASSUME NEW l \in Lanes PROVE activeTaskIds'[l] = Current(l)'
    BY DEF ActiveIsCurrent
  <2>1. activeTaskIds[l] = Current(l)
    BY DEF PlaceInv, SaysWhatRuns, ActiveIsCurrent
  <2>2. Current(l)' = Current(l) \ {e}
    BY <1>2, <1>7 DEF Current, InFlight, Complete
  <2>3. activeTaskIds'[l] = IF l = laneOf[e] THEN RemainingTasks(e) ELSE activeTaskIds[l]
    BY DEF Complete, PlaceInv, TypeOK
  <2>. QED
    BY <2>1, <2>2, <2>3 DEF RemainingTasks, Current
<1>9. DrainedMeansDone'
  BY <1>2, <1>7 DEF PlaceInv, SaysWhatRuns, DrainedMeansDone, Complete, InFlight, TypeOK
<1>. QED
  BY <1>3, <1>5, <1>6, <1>8, <1>9 DEF SaysWhatRuns

(* A waiter that is told that the lanes are drained is told the truth.     *)
LEMMA CheckIsTrue ==
  ASSUME PlaceInv, NEW S \in SUBSET Entries, ~HasPending(S), NEW e \in S, phase[e] \in InFlight
  PROVE  ~IsCurrent(e)
<1>1. e \in Entries /\ laneOf[e] \in Lanes
  BY DEF PlaceInv, TypeOK
<1>2. e \notin activeTaskIds[laneOf[e]]
  BY <1>1 DEF HasPending, AllActive
<1>. QED
  BY <1>1, <1>2 DEF PlaceInv, SaysWhatRuns, ActiveIsCurrent, Current

(* A look of waitForActiveTasks at its snapshot tells the truth.           *)
LEMMA WaiterChecked ==
  ASSUME PlaceInv, NEW w \in Waiters, NEW S \in SUBSET Entries, \A e \in S : phase[e] \in Started,
         WaitCheck(w, S), snapshot' = [snapshot EXCEPT ![w] = S],
         UNCHANGED <<laneVars, entryVars, stack>>
  PROVE  QueuedInPlace' /\ SyncOnStack' /\ GenerationsPast' /\ SnapshotsStarted' /\ SaysWhatRuns'
<1> USE DEF laneVars, entryVars
<1>1. QueuedInPlace' /\ SyncOnStack' /\ GenerationsPast'
  BY DEF PlaceInv, QueuedInPlace, SyncOnStack, GenerationsPast
<1>2. \A x \in Waiters : snapshot'[x] = IF x = w THEN S ELSE snapshot[x]
  BY DEF PlaceInv, TypeOK
<1>3. SnapshotsStarted'
  BY <1>2 DEF PlaceInv, SnapshotsStarted
<1>4. \A e \in Entries : IsCurrent(e)' = IsCurrent(e)
  BY DEF IsCurrent
<1>5. ActiveIsCurrent'
  BY <1>4 DEF PlaceInv, SaysWhatRuns, ActiveIsCurrent, Current
<1>6. ASSUME NEW x \in Waiters, waiterPhase'[x] = "drained", NEW e \in snapshot'[x],
             phase'[e] \in InFlight
      PROVE  ~IsCurrent(e)'
  <2>1. CASE x = w
    <3>1. ~HasPending(S)
      BY <2>1, <1>6 DEF WaitCheck, PlaceInv, TypeOK
    <3>. QED
      BY <2>1, <3>1, <1>2, <1>4, <1>6, CheckIsTrue
  <2>2. CASE x # w
    <3>1. waiterPhase[x] = "drained" /\ e \in snapshot[x] /\ e \in Entries
      BY <2>2, <1>2, <1>6 DEF WaitCheck, PlaceInv, TypeOK
    <3>. QED
      BY <3>1, <1>4, <1>6 DEF PlaceInv, SaysWhatRuns, DrainedMeansDone
  <2>. QED
    BY <2>1, <2>2
<1>. QED
  BY <1>1, <1>3, <1>5, <1>6 DEF SaysWhatRuns, DrainedMeansDone

(* Every entry is in its place at the start.                               *)
LEMMA PlaceInvInit == Init /\ TypeOK => PlaceInv
<1> SUFFICES ASSUME Init, TypeOK PROVE PlaceInv
  OBVIOUS
<1>1. QueuedInPlace /\ SyncOnStack
  BY DEF Init, QueuedInPlace, SyncOnStack, TasksOnce, Distinct, Within
<1>2. GenerationsPast /\ SnapshotsStarted
  BY DEF Init, GenerationsPast, SnapshotsStarted
<1>3. SaysWhatRuns
  BY DEF Init, SaysWhatRuns, ActiveIsCurrent, DrainedMeansDone, Current, InFlight
<1>. QED
  BY <1>1, <1>2, <1>3 DEF PlaceInv

(* Every step keeps the entries in their places.                           *)
LEMMA PlaceInvStep ==
  ASSUME PlaceInv, TypeOK', [Next]_vars
  PROVE  QueuedInPlace' /\ SyncOnStack' /\ GenerationsPast' /\ SnapshotsStarted' /\ SaysWhatRuns'
<1>. DEFINE Goal == QueuedInPlace' /\ SyncOnStack' /\ GenerationsPast' /\ SnapshotsStarted' /\ SaysWhatRuns'
<1>t. TypeOK /\ stack \in Seq(Frames) /\ TasksOnce(stack)
  BY DEF PlaceInv, TypeOK, SyncOnStack
<1>1. ASSUME NEW e \in Entries, EnqueueRefused(e) PROVE Goal
  <2> USE <1>1 DEF EnqueueRefused, laneVars, waiterVars
  <2>1. \A d \in Entries : phase'[d] = IF d = e THEN "refused" ELSE phase[d]
    BY <1>t DEF TypeOK
  <2>2. QueuedInPlace' /\ SyncOnStack'
    BY <2>1 DEF PlaceInv, QueuedInPlace, SyncOnStack
  <2>3. GenerationsPast' /\ SnapshotsStarted'
    BY <2>1, <1>t DEF PlaceInv, GenerationsPast, SnapshotsStarted, Started, TypeOK
  <2>4. \A d \in Entries : IsCurrent(d)' = IsCurrent(d) /\ (phase'[d] \in InFlight <=> phase[d] \in InFlight)
    BY <2>1 DEF IsCurrent, InFlight
  <2>5. SaysWhatRuns'
    BY <2>4, <1>t DEF PlaceInv, SaysWhatRuns, ActiveIsCurrent, DrainedMeansDone, Current, TypeOK
  <2>. QED
    BY <2>2, <2>3, <2>5
<1>2. ASSUME NEW e \in Entries, Enqueue(e) PROVE Goal
  <2> USE <1>2 DEF Enqueue, waiterVars
  <2>. DEFINE k == laneOf[e]
  <2>1. k \in Lanes /\ \A d \in Entries : phase'[d] = IF d = e THEN "queued" ELSE phase[d]
    BY <1>t DEF TypeOK
  <2>2. TasksOnce(stack') /\ \A d : Within(TaskFrame(d), stack') => Within(TaskFrame(d), stack)
    BY <2>1, <1>t, DrainLaneTasks
  <2>3. SyncOnStack'
    BY <2>1, <2>2 DEF PlaceInv, SyncOnStack
  <2>4. queue[k] \in Seq(Entries) /\ Distinct(queue[k]) /\ ~Within(e, queue[k])
    BY <2>1, <1>t DEF PlaceInv, QueuedInPlace, TypeOK
  <2>5. Distinct(Pushed(e)) /\ \A d : Within(d, Pushed(e)) <=> Within(d, queue[k]) \/ d = e
    BY <2>4, DistinctAppend, WithinAppend DEF Pushed
  <2>6. \A l \in Lanes : queue'[l] = IF l = k THEN Pushed(e) ELSE queue[l]
    BY <1>t DEF TypeOK
  <2>7. QueuedInPlace'
    BY <2>1, <2>4, <2>5, <2>6 DEF PlaceInv, QueuedInPlace
  <2>8. GenerationsPast' /\ SnapshotsStarted'
    BY <2>1, <1>t DEF PlaceInv, GenerationsPast, SnapshotsStarted, Started, TypeOK
  <2>9. \A d \in Entries : IsCurrent(d)' = IsCurrent(d) /\ (phase'[d] \in InFlight <=> phase[d] \in InFlight)
    BY <2>1 DEF IsCurrent, InFlight
  <2>10. SaysWhatRuns'
    BY <2>9, <1>t DEF PlaceInv, SaysWhatRuns, ActiveIsCurrent, DrainedMeansDone, Current, TypeOK
  <2>. QED
    BY <2>3, <2>7, <2>8, <2>10
<1>3. ASSUME NEW e \in Entries, TaskSettles(e) PROVE Goal
  <2>1. ~Within(TaskFrame(e), stack) /\ \A d : ~Within(TaskFrame(d), stack)
    BY <1>3 DEF TaskSettles, TurnOver, Within
  <2>. QED
    BY <1>3, <1>t, <2>1, CompleteInPlace DEF TaskSettles, InFlight
<1>4. ASSUME NEW e \in Entries, TaskYields(e) PROVE Goal
  <2> USE <1>4 DEF TaskYields, laneVars, waiterVars
  <2>1. phase[e] = "sync" /\ \A d : Within(TaskFrame(d), Popped) => Within(TaskFrame(d), stack)
    BY <1>t, Popping DEF PlaceInv, SyncOnStack
  <2>2. TasksOnce(Popped) /\ ~Within(TaskFrame(e), Popped)
    BY <1>t, TasksOncePop, FrameKinds
  <2>3. \A d \in Entries : phase'[d] = IF d = e THEN "running" ELSE phase[d]
    BY <1>t DEF TypeOK
  <2>4. SyncOnStack'
    BY <2>1, <2>2, <2>3, FrameKinds DEF PlaceInv, SyncOnStack
  <2>5. QueuedInPlace'
    BY <2>1, <2>3 DEF PlaceInv, QueuedInPlace
  <2>6. GenerationsPast' /\ SnapshotsStarted'
    BY <2>1, <2>3, <1>t DEF PlaceInv, GenerationsPast, SnapshotsStarted, Started, TypeOK
  <2>7. \A d \in Entries : IsCurrent(d)' = IsCurrent(d) /\ (phase'[d] \in InFlight <=> phase[d] \in InFlight)
    BY <2>1, <2>3 DEF IsCurrent, InFlight
  <2>8. SaysWhatRuns'
    BY <2>7, <1>t DEF PlaceInv, SaysWhatRuns, ActiveIsCurrent, DrainedMeansDone, Current, TypeOK
  <2>. QED
    BY <2>4, <2>5, <2>6, <2>8
<1>5. ASSUME NEW e \in Entries, TaskThrows(e) PROVE Goal
  <2>1. Popped \in Seq(Frames) /\ phase[e] = "sync" /\ ~TurnOver /\ Top = TaskFrame(e)
    BY <1>5, <1>t, Popping, PoppedType DEF PlaceInv, SyncOnStack, TaskThrows
  <2>2. TasksOnce(Popped) /\ ~Within(TaskFrame(e), Popped)
    BY <2>1, <1>t, TasksOncePop, FrameKinds
  <2>3. \A d : Within(TaskFrame(d), Popped) => d # e /\ Within(TaskFrame(d), stack)
    BY <2>1, <2>2, <1>t, Popping
  <2>. QED
    BY <1>5, <2>1, <2>2, <2>3, CompleteInPlace DEF TaskThrows, InFlight
<1>6. ASSUME NEW l \in Lanes, PumpStart(l) PROVE Goal
  <2>1. /\ queue[l] \in Seq(Entries) /\ queue[l] # <<>> /\ Head(queue[l]) \in Entries
        /\ Distinct(queue[l])
    BY <1>6, <1>t, HeadTailProperties DEF PumpStart, CanStart, PlaceInv, QueuedInPlace, TypeOK
  <2>p. PICK e \in Entries : e = Head(queue[l])
    BY <2>1
  <2>2. phase[e] = "queued" /\ laneOf[e] = l
    BY <2>1, <2>p, WithinTail DEF PlaceInv, QueuedInPlace
  <2>3. /\ Distinct(Tail(queue[l])) /\ ~Within(e, Tail(queue[l]))
        /\ \A d : Within(d, Tail(queue[l])) => Within(d, queue[l])
    BY <2>1, <2>p, DistinctTail, WithinTail
  <2>4. /\ \A d \in Entries : phase'[d] = IF d = e THEN "sync" ELSE phase[d]
        /\ \A d \in Entries : genOf'[d] = IF d = e THEN generation[l] ELSE genOf[d]
        /\ \A k \in Lanes : queue'[k] = IF k = l THEN Tail(queue[l]) ELSE queue[k]
        /\ \A k \in Lanes : activeTaskIds'[k] = IF k = l THEN activeTaskIds[l] \cup {e} ELSE activeTaskIds[k]
    BY <1>6, <2>p, <1>t DEF PumpStart, TypeOK
  <2>u. UNCHANGED <<generation, laneOf, waiterPhase, snapshot>> /\ stack' = Append(stack, TaskFrame(e))
    BY <1>6, <2>p DEF PumpStart, waiterVars
  <2>5. QueuedInPlace'
    BY <2>u, <2>2, <2>3, <2>4 DEF PlaceInv, QueuedInPlace
  <2>6. SyncOnStack'
    <3>1. TaskFrame(e) \in Frames /\ ~Within(TaskFrame(e), stack)
      BY <2>1, <2>2, FrameTypes DEF PlaceInv, SyncOnStack
    <3>2. TasksOnce(stack') /\ \A f : Within(f, stack') <=> Within(f, stack) \/ f = TaskFrame(e)
      BY <3>1, <2>u, <1>t, TasksOncePush, WithinAppend
    <3>. QED
      BY <2>1, <2>4, <3>2, FrameKinds DEF PlaceInv, SyncOnStack
  <2>7. GenerationsPast'
    <3>1. generation[l] \in Nat
      BY <1>t DEF TypeOK
    <3>2. \A d \in Entries : IF d = e THEN genOf'[d] = generation'[laneOf'[d]] /\ genOf'[d] \in Nat
                             ELSE genOf'[d] <= generation'[laneOf'[d]]
      BY <2>u, <2>2, <2>4, <3>1 DEF PlaceInv, GenerationsPast
    <3>. QED
      BY <3>2 DEF GenerationsPast
  <2>8. SnapshotsStarted'
    BY <2>u, <2>1, <2>4, <1>t DEF PlaceInv, SnapshotsStarted, Started, TypeOK
  <2>9. \A d \in Entries \ {e} : IsCurrent(d)' = IsCurrent(d)
    BY <2>u, <2>4 DEF IsCurrent
  <2>10. IsCurrent(e)' /\ phase'[e] \in InFlight /\ phase[e] \notin InFlight
    BY <2>u, <2>1, <2>2, <2>4 DEF IsCurrent, InFlight
  <2>11. ActiveIsCurrent'
    <3> SUFFICES ASSUME NEW k \in Lanes PROVE activeTaskIds'[k] = Current(k)'
      BY DEF ActiveIsCurrent
    <3>1. activeTaskIds[k] = Current(k)
      BY DEF PlaceInv, SaysWhatRuns, ActiveIsCurrent
    <3>2. Current(k)' = IF k = l THEN Current(k) \cup {e} ELSE Current(k)
      BY <2>1, <2>2, <2>4, <2>9, <2>10, <2>u DEF Current
    <3>. QED
      BY <2>4, <3>1, <3>2
  <2>12. DrainedMeansDone'
    <3>1. \A w \in Waiters : e \notin snapshot[w]
      BY <2>2 DEF PlaceInv, SnapshotsStarted, Started
    <3>. QED
      BY <2>u, <2>4, <2>9, <3>1, <1>t DEF PlaceInv, SaysWhatRuns, DrainedMeansDone, TypeOK
  <2>. QED
    BY <2>5, <2>6, <2>7, <2>8, <2>11, <2>12 DEF SaysWhatRuns
<1>7. ASSUME NEW l \in Lanes, PumpReturn(l) PROVE Goal
  <2>1. TasksOnce(stack') /\ \A e : Within(TaskFrame(e), stack') => Within(TaskFrame(e), stack)
    BY <1>7, <1>t, TasksOncePop, Popping DEF PumpReturn
  <2>. QED
    BY <1>7, <2>1, NothingMoves DEF PumpReturn
<1>8. ASSUME NEW l \in Lanes, ResetDrains(l) PROVE Goal
  <2>. DEFINE s == Append(Popped, ResetFrame(Top.lanes \ {l}))
  <2>1. Popped \in Seq(Frames) /\ Top \in Frames /\ ~TurnOver /\ Top.kind = "reset"
    BY <1>8, <1>t, PoppedType DEF ResetDrains
  <2>2. ResetFrame(Top.lanes \ {l}) \in Frames
    BY <2>1, FrameTypes, FrameKinds DEF Frames
  <2>3. TasksOnce(Popped) /\ \A e : Within(TaskFrame(e), Popped) => Within(TaskFrame(e), stack)
    BY <2>1, <1>t, TasksOncePop, Popping
  <2>4. s \in Seq(Frames) /\ TasksOnce(s)
    BY <2>1, <2>2, <2>3, AppendProperties, TasksOncePush, FrameKinds
  <2>5. \A e : Within(TaskFrame(e), s) => Within(TaskFrame(e), stack)
    BY <2>1, <2>2, <2>3, WithinAppend, FramesDiffer
  <2>6. DrainLane(l, s) /\ UNCHANGED <<queue, activeTaskIds, generation, entryVars, waiterVars>>
    BY <1>8 DEF ResetDrains
  <2>. HIDE DEF s
  <2>7. TasksOnce(stack') /\ \A e : Within(TaskFrame(e), stack') => Within(TaskFrame(e), stack)
    BY <2>4, <2>5, <2>6, DrainLaneTasks
  <2>. QED
    BY <2>6, <2>7, NothingMoves
<1>9. CASE ResetReturns
  <2>1. TasksOnce(stack') /\ \A e : Within(TaskFrame(e), stack') => Within(TaskFrame(e), stack)
    BY <1>9, <1>t, TasksOncePop, Popping DEF ResetReturns
  <2>. QED
    BY <1>9, <2>1, NothingMoves DEF ResetReturns, laneVars
<1>10. ASSUME NEW l \in Lanes, ClearCommandLane(l) PROVE Goal
  <2> USE <1>10 DEF ClearCommandLane, waiterVars
  <2>1. /\ \A d \in Entries : phase'[d] = IF phase[d] = "queued" /\ laneOf[d] = l THEN "cleared" ELSE phase[d]
        /\ \A k \in Lanes : queue'[k] = IF k = l THEN <<>> ELSE queue[k]
    BY <1>t DEF TypeOK
  <2>2. QueuedInPlace'
    BY <2>1 DEF PlaceInv, QueuedInPlace, Distinct, Within
  <2>3. SyncOnStack' /\ GenerationsPast'
    BY <2>1 DEF PlaceInv, SyncOnStack, GenerationsPast
  <2>4. SnapshotsStarted'
    BY <2>1, <1>t DEF PlaceInv, SnapshotsStarted, Started, TypeOK
  <2>5. \A d \in Entries : IsCurrent(d)' = IsCurrent(d) /\ (phase'[d] \in InFlight <=> phase[d] \in InFlight)
    BY <2>1 DEF IsCurrent, InFlight
  <2>6. SaysWhatRuns'
    BY <2>5, <1>t DEF PlaceInv, SaysWhatRuns, ActiveIsCurrent, DrainedMeansDone, Current, TypeOK
  <2>. QED
    BY <2>2, <2>3, <2>4, <2>6
<1>11. ASSUME NEW l \in Lanes, NEW n \in 0..LimitBound, SetCommandLaneConcurrency(l, n) PROVE Goal
  <2>1. TasksOnce(stack') /\ \A e : Within(TaskFrame(e), stack') => Within(TaskFrame(e), stack)
    BY <1>11, <1>t, DrainLaneTasks DEF SetCommandLaneConcurrency
  <2>. QED
    BY <1>11, <2>1, NothingMoves DEF SetCommandLaneConcurrency
<1>12. ASSUME NEW w \in Waiters, WaitForActiveTasks(w) PROVE Goal
  <2>1. AllActive \in SUBSET Entries
    BY <1>t DEF AllActive, TypeOK
  <2>2. \A e \in AllActive : phase[e] \in Started
    BY DEF AllActive, PlaceInv, SaysWhatRuns, ActiveIsCurrent, Current, InFlight, Started
  <2>. QED
    BY <1>12, <2>1, <2>2, WaiterChecked DEF WaitForActiveTasks
<1>13. ASSUME NEW w \in Waiters, WaitPoll(w) PROVE Goal
  <2>1. snapshot[w] \in SUBSET Entries /\ snapshot' = [snapshot EXCEPT ![w] = snapshot[w]]
    BY <1>13, <1>t DEF WaitPoll, TypeOK
  <2>2. \A e \in snapshot[w] : phase[e] \in Started
    BY DEF PlaceInv, SnapshotsStarted
  <2>. QED
    BY <1>13, <2>1, <2>2, WaiterChecked DEF WaitPoll
<1>14. CASE MarkGatewayDraining
  BY <1>14, <1>t, NothingMoves DEF MarkGatewayDraining, laneVars
<1>15. CASE ResetAllLanes
  <2>u. /\ UNCHANGED <<queue, phase, laneOf, genOf, snapshot, waiterPhase>>
        /\ \A l \in Lanes : activeTaskIds'[l] = {} /\ generation'[l] = generation[l] + 1
        /\ stack' = <<ResetFrame(LanesToDrain)>>
    BY <1>15 DEF ResetAllLanes, NextGeneration, entryVars, waiterVars
  <2>1. QueuedInPlace' /\ SnapshotsStarted'
    BY <2>u DEF PlaceInv, QueuedInPlace, SnapshotsStarted
  <2>2. SyncOnStack'
    <3>1. ResetFrame(LanesToDrain).kind # "task"
      BY FrameKinds
    <3>. QED
      BY <2>u, <3>1, FramesDiffer DEF SyncOnStack, TasksOnce, Within
  <2>3. \A e \in Entries : genOf'[e] <= generation'[laneOf'[e]] /\ genOf'[e] # generation'[laneOf'[e]]
    BY <2>u, <1>t DEF PlaceInv, GenerationsPast, TypeOK
  <2>4. GenerationsPast'
    BY <2>3 DEF GenerationsPast
  <2>5. \A e \in Entries : ~IsCurrent(e)'
    BY <2>3 DEF IsCurrent
  <2>6. SaysWhatRuns'
    BY <2>u, <2>5, <1>t DEF SaysWhatRuns, ActiveIsCurrent, DrainedMeansDone, Current, TypeOK
  <2>. QED
    BY <2>1, <2>2, <2>4, <2>6
<1>16. CASE UNCHANGED vars
  BY <1>16, <1>t, NothingMoves DEF vars, laneVars
<1>. QED
  BY <1>1, <1>2, <1>3, <1>4, <1>5, <1>6, <1>7, <1>8, <1>9, <1>10, <1>11, <1>12, <1>13,
     <1>14, <1>15, <1>16 DEF Next, QueueStep, LaneStep, EntryStep, Call

(* Every entry is where its phase says in every reachable state.           *)
LEMMA PlacesInvariant == Spec => []PlaceInv
<1>1. PlaceInv /\ TypeOK' /\ [Next]_vars => PlaceInv'
  BY PlaceInvStep DEF PlaceInv
<1>. QED
  BY <1>1, PlaceInvInit, TypeCorrect, PTL DEF Spec

(* The active ids of a lane are exactly the tasks of its generation that   *)
(* run, and a wait that ended well is true: what it saw active is done, or *)
(* was given up by a reset.                                                *)
THEOREM CountersAreTrue == Spec => []SaysWhatRuns
<1>1. PlaceInv => SaysWhatRuns
  BY DEF PlaceInv
<1>. QED
  BY <1>1, PlacesInvariant, PTL

-----------------------------------------------------------------------------
(***************************************************************************)
(* The scheduler implements LaneService: every step is a step of the       *)
(* service or leaves all of the service's state alone.                     *)
(***************************************************************************)
GivenUp == {e \in Entries : phase[e] \in InFlight /\ ~IsCurrent(e)}

(* The service counts as the scheduler does: the two modules extend the    *)
(* same FiniteSets.                                                        *)
LEMMA SameCardinality ==
  ASSUME NEW S
  PROVE  Service!Cardinality(S) = Cardinality(S)
BY DEF Service!Cardinality, Cardinality

(* Where nothing starts and nothing ends, the places do not change.        *)
LEMMA PlacesKept ==
  ASSUME UNCHANGED <<generation, laneOf, genOf>>,
         \A e \in Entries : phase'[e] \in InFlight <=> phase[e] \in InFlight
  PROVE  (\A l \in Lanes : Current(l)' = Current(l)) /\ GivenUp' = GivenUp
BY DEF Current, GivenUp, IsCurrent

(* Such a step that leaves the lines and limits alone is none of the       *)
(* service.                                                                *)
LEMMA ServiceStutters ==
  ASSUME UNCHANGED <<queue, maxConcurrent, gatewayDraining, generation, laneOf, genOf>>,
         \A e \in Entries : phase'[e] \in InFlight <=> phase[e] \in InFlight
  PROVE  UNCHANGED Service!vars
BY PlacesKept DEF Service!vars, GivenUp

(* The end of an entry gives its place back, if it still has one.          *)
LEMMA ServiceFinishes ==
  ASSUME PlaceInv, NEW e \in Entries, NEW s, NEW outcome \in {"fulfilled", "rejected"},
         Complete(e, outcome, s), phase[e] \in InFlight
  PROVE  Service!Next
<1>1. laneOf[e] \in Lanes /\ \A d \in Entries : phase'[d] = IF d = e THEN outcome ELSE phase[d]
  BY DEF Complete, PlaceInv, TypeOK
<1>2. UNCHANGED <<queue, maxConcurrent, gatewayDraining, generation, laneOf, genOf>>
  BY DEF Complete
<1>3. \A d \in Entries : IsCurrent(d)' = IsCurrent(d)
  BY <1>2 DEF IsCurrent
<1>4. (\A l \in Lanes : Current(l)' = Current(l) \ {e}) /\ GivenUp' = GivenUp \ {e}
  BY <1>1, <1>2, <1>3 DEF Current, GivenUp, InFlight
<1>5. CASE IsCurrent(e)
  <2>1. e \in Current(laneOf[e]) /\ GivenUp' = GivenUp
    BY <1>4, <1>5 DEF Current, GivenUp
  <2>2. \A l \in Lanes : Current(l)' = IF l = laneOf[e] THEN Current(l) \ {e} ELSE Current(l)
    BY <1>4 DEF Current
  <2>3. Service!Finish(e, laneOf[e])
    BY <1>1, <1>2, <2>1, <2>2 DEF Service!Finish, GivenUp
  <2>. QED
    BY <1>1, <2>3 DEF Service!Next
<1>6. CASE ~IsCurrent(e)
  <2>1. e \in GivenUp /\ \A l \in Lanes : Current(l)' = Current(l)
    BY <1>4, <1>6 DEF Current, GivenUp
  <2>2. Service!FinishLate(e)
    BY <1>2, <1>4, <2>1 DEF Service!FinishLate, GivenUp
  <2>. QED
    BY <2>2 DEF Service!Next
<1>. QED
  BY <1>5, <1>6

(* The lanes begin as the service does.                                    *)
LEMMA ServiceInit == Init => Service!Init
<1> SUFFICES ASSUME Init PROVE Service!Init
  OBVIOUS
<1>1. (\A l \in Lanes : Current(l) = {}) /\ GivenUp = {}
  BY DEF Init, Current, GivenUp, InFlight
<1>. QED
  BY <1>1 DEF Init, Service!Init, GivenUp

(* Every step of the code is one of the service, or changes nothing it     *)
(* shows.                                                                  *)
LEMMA ServiceStep ==
  ASSUME PlaceInv, [Next]_vars
  PROVE  [Service!Next]_(Service!vars)
<1>t. TypeOK
  BY DEF PlaceInv
<1>1. ASSUME NEW e \in Entries, EnqueueRefused(e) PROVE UNCHANGED Service!vars
  <2>1. \A d \in Entries : phase'[d] \in InFlight <=> phase[d] \in InFlight
    BY <1>1, <1>t DEF EnqueueRefused, InFlight, TypeOK
  <2>. QED
    BY <1>1, <2>1, ServiceStutters DEF EnqueueRefused, laneVars
<1>2. ASSUME NEW e \in Entries, Enqueue(e) PROVE Service!Next
  <2>1. \A d \in Entries : phase'[d] \in InFlight <=> phase[d] \in InFlight
    BY <1>2, <1>t DEF Enqueue, InFlight, TypeOK
  <2>2. (\A l \in Lanes : Current(l)' = Current(l)) /\ GivenUp' = GivenUp
    BY <1>2, <2>1, PlacesKept DEF Enqueue
  <2>3. laneOf[e] \in Lanes /\ queue' = [queue EXCEPT ![laneOf[e]] = Append(queue[laneOf[e]], e)]
    BY <1>2, <1>t DEF Enqueue, Pushed, TypeOK
  <2>4. Service!Submit(e, laneOf[e])
    BY <1>2, <1>t, <2>2, <2>3 DEF Enqueue, Service!Submit, GivenUp, TypeOK
  <2>. QED
    BY <2>3, <2>4 DEF Service!Next
<1>3. ASSUME NEW e \in Entries, TaskSettles(e) PROVE Service!Next
  BY <1>3, ServiceFinishes DEF TaskSettles, InFlight
<1>4. ASSUME NEW e \in Entries, TaskThrows(e) PROVE Service!Next
  <2>1. phase[e] = "sync"
    BY <1>4, <1>t, Popping DEF TaskThrows, PlaceInv, SyncOnStack
  <2>. QED
    BY <1>4, <2>1, ServiceFinishes DEF TaskThrows, InFlight
<1>5. ASSUME NEW e \in Entries, TaskYields(e) PROVE UNCHANGED Service!vars
  <2>1. phase[e] = "sync"
    BY <1>5, <1>t, Popping DEF TaskYields, PlaceInv, SyncOnStack
  <2>2. \A d \in Entries : phase'[d] \in InFlight <=> phase[d] \in InFlight
    BY <1>5, <2>1, <1>t DEF TaskYields, InFlight, TypeOK
  <2>. QED
    BY <1>5, <2>2, ServiceStutters DEF TaskYields, laneVars
<1>6. ASSUME NEW l \in Lanes, PumpStart(l) PROVE Service!Next
  <2>1. queue[l] \in Seq(Entries) /\ queue[l] # <<>> /\ Head(queue[l]) \in Entries
    BY <1>6, <1>t, HeadTailProperties DEF PumpStart, CanStart, TypeOK
  <2>p. PICK e \in Entries : e = Head(queue[l])
    BY <2>1
  <2>2. phase[e] = "queued" /\ laneOf[e] = l
    BY <2>1, <2>p, WithinTail DEF PlaceInv, QueuedInPlace
  <2>3. /\ \A d \in Entries : phase'[d] = IF d = e THEN "sync" ELSE phase[d]
        /\ \A d \in Entries : genOf'[d] = IF d = e THEN generation[l] ELSE genOf[d]
        /\ UNCHANGED <<generation, laneOf, maxConcurrent, gatewayDraining>>
        /\ queue' = [queue EXCEPT ![l] = Tail(queue[l])]
    BY <1>6, <2>p, <1>t DEF PumpStart, TypeOK
  <2>4. IsCurrent(e)' /\ \A d \in Entries \ {e} : IsCurrent(d)' = IsCurrent(d)
    BY <2>2, <2>3 DEF IsCurrent
  <2>5. phase'[e] \in InFlight /\ phase[e] \notin InFlight
    BY <2>2, <2>3 DEF InFlight
  <2>6. /\ \A k \in Lanes : Current(k)' = IF k = l THEN Current(k) \cup {e} ELSE Current(k)
        /\ GivenUp' = GivenUp
    BY <2>2, <2>3, <2>4, <2>5 DEF Current, GivenUp
  <2>7. Cardinality(Current(l)) < maxConcurrent[l]
    BY <1>6 DEF PumpStart, CanStart, PlaceInv, SaysWhatRuns, ActiveIsCurrent
  <2>8. Service!Start(l)
    <3>1. [k \in Lanes |-> Current(k)][l] = Current(l)
      OBVIOUS
    <3>2. Service!Cardinality([k \in Lanes |-> Current(k)][l]) < maxConcurrent[l]
      BY <2>7, <3>1, SameCardinality
    <3>3. [k \in Lanes |-> Current(k)]' =
            [[k \in Lanes |-> Current(k)] EXCEPT ![l] = @ \cup {Head(queue[l])}]
      BY <2>p, <2>6
    <3>4. GivenUp' = GivenUp
      BY <2>6
    <3>. QED
      BY <2>1, <2>3, <3>2, <3>3, <3>4 DEF Service!Start, GivenUp
  <2>. QED
    BY <2>8 DEF Service!Next
<1>7. ASSUME NEW l \in Lanes, PumpReturn(l) PROVE UNCHANGED Service!vars
  BY <1>7, ServiceStutters DEF PumpReturn, entryVars
<1>8. ASSUME NEW l \in Lanes, ResetDrains(l) PROVE UNCHANGED Service!vars
  BY <1>8, ServiceStutters DEF ResetDrains, entryVars
<1>9. CASE ResetReturns
  BY <1>9, ServiceStutters DEF ResetReturns, laneVars, entryVars
<1>10. ASSUME NEW l \in Lanes, ClearCommandLane(l) PROVE Service!Next
  <2>1. \A d \in Entries : phase'[d] \in InFlight <=> phase[d] \in InFlight
    BY <1>10, <1>t DEF ClearCommandLane, InFlight, TypeOK
  <2>2. (\A k \in Lanes : Current(k)' = Current(k)) /\ GivenUp' = GivenUp
    BY <1>10, <2>1, PlacesKept DEF ClearCommandLane
  <2>3. Service!Clear(l)
    BY <1>10, <2>2 DEF ClearCommandLane, Service!Clear, GivenUp
  <2>. QED
    BY <2>3 DEF Service!Next
<1>11. ASSUME NEW l \in Lanes, NEW n \in 0..LimitBound, SetCommandLaneConcurrency(l, n)
       PROVE  Service!Next
  <2>1. (\A k \in Lanes : Current(k)' = Current(k)) /\ GivenUp' = GivenUp
    BY <1>11, PlacesKept DEF SetCommandLaneConcurrency, entryVars
  <2>2. CleanLimit(n) \in 1..CleanLimit(LimitBound)
    BY BoundsAssumption DEF CleanLimit
  <2>3. Service!SetLimit(l, CleanLimit(n))
    BY <1>11, <2>1, <2>2 DEF SetCommandLaneConcurrency, Service!SetLimit, GivenUp
  <2>. QED
    BY <2>2, <2>3 DEF Service!Next
<1>12. ASSUME NEW w \in Waiters, WaitForActiveTasks(w) \/ WaitPoll(w)
       PROVE  UNCHANGED Service!vars
  BY <1>12, ServiceStutters DEF WaitForActiveTasks, WaitPoll, laneVars, entryVars
<1>13. CASE MarkGatewayDraining
  <2>1. (\A k \in Lanes : Current(k)' = Current(k)) /\ GivenUp' = GivenUp
    BY <1>13, PlacesKept DEF MarkGatewayDraining, laneVars, entryVars
  <2>2. Service!Close
    BY <1>13, <2>1 DEF MarkGatewayDraining, laneVars, Service!Close, GivenUp
  <2>. QED
    BY <2>2 DEF Service!Next
<1>14. CASE ResetAllLanes
  <2>1. /\ UNCHANGED <<queue, maxConcurrent, phase, laneOf, genOf>> /\ gatewayDraining' = FALSE
        /\ \A l \in Lanes : generation'[l] = generation[l] + 1
    BY <1>14 DEF ResetAllLanes, NextGeneration, entryVars
  <2>2. \A e \in Entries : genOf'[e] # generation'[laneOf'[e]]
    BY <1>t, <2>1 DEF PlaceInv, GenerationsPast, TypeOK
  <2>3. \A e \in Entries : ~IsCurrent(e)'
    BY <2>2 DEF IsCurrent
  <2>4. \A l \in Lanes : Current(l)' = {}
    BY <2>3 DEF Current
  <2>5. GivenUp' = GivenUp \cup UNION {Current(l) : l \in Lanes}
    BY <2>1, <2>3, <1>t DEF Current, GivenUp, TypeOK
  <2>6. Service!Restart
    BY <2>1, <2>4, <2>5 DEF Service!Restart, GivenUp
  <2>. QED
    BY <2>6 DEF Service!Next
<1>15. CASE UNCHANGED vars
  BY <1>15, ServiceStutters DEF vars, laneVars, entryVars
<1>. QED
  BY <1>1, <1>2, <1>3, <1>4, <1>5, <1>6, <1>7, <1>8, <1>9, <1>10, <1>11, <1>12, <1>13,
     <1>14, <1>15 DEF Next, QueueStep, LaneStep, EntryStep, Call

(* Every step of the scheduler is one of the service or none: entries      *)
(* start in the order they were enqueued and only in a free place, for     *)
(* any number of lanes, entries, resets and nested calls.                  *)
THEOREM ImplementsSafeService == Spec => Service!SafeSpec
<1>1. PlaceInv /\ [Next]_vars => [Service!Next]_(Service!vars)
  BY ServiceStep
<1>. QED
  BY <1>1, ServiceInit, PlacesInvariant, PTL DEF Spec, Service!SafeSpec
=============================================================================

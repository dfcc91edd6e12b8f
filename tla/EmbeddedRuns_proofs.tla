------------------------- MODULE EmbeddedRuns_proofs -------------------------
(***************************************************************************)
(* Proofs about EmbeddedRuns, for every set of runs, sessions, lanes and   *)
(* reset requests: the types; one turn at a time in a session; no place    *)
(* wasted or left behind; and the registry of active turns is true.        *)
(***************************************************************************)
EXTENDS EmbeddedRuns, SequenceTheorems, FiniteSetTheorems, TLAPS

(* Sequences as queues.                                                     *)

(* x is one of the elements of s.                                          *)
Within(x, s) == \E i \in 1..Len(s) : s[i] = x

(* No element of s occurs twice.                                           *)
Distinct(s) == \A i, j \in 1..Len(s) : s[i] = s[j] => i = j

(* An element is in Append(s, x) when it is in s or is x.                  *)
LEMMA WithinAppend ==
  ASSUME NEW S, NEW s \in Seq(S), NEW x \in S, NEW f
  PROVE  Within(f, Append(s, x)) <=> Within(f, s) \/ f = x
BY AppendProperties, LenProperties DEF Within

(* The elements of Tail(s) and the head are the elements of s.             *)
LEMMA WithinTail ==
  ASSUME NEW S, NEW s \in Seq(S), s # <<>>, NEW f
  PROVE  Within(f, s) <=> Within(f, Tail(s)) \/ f = Head(s)
<1>1. /\ Len(s) \in Nat /\ Len(s) # 0
      /\ Len(Tail(s)) = Len(s) - 1
      /\ \A i \in 1..Len(Tail(s)) : Tail(s)[i] = s[i + 1]
      /\ Head(s) = s[1]
  BY HeadTailProperties, EmptySeq, LenProperties
<1>2. ASSUME Within(f, s) PROVE Within(f, Tail(s)) \/ f = Head(s)
  <2>1. PICK i \in 1..Len(s) : s[i] = f
    BY <1>2 DEF Within
  <2>2. CASE i = 1
    BY <2>1, <2>2, <1>1
  <2>3. CASE i # 1
    <3>1. i - 1 \in 1..Len(Tail(s)) /\ Tail(s)[i - 1] = s[i]
      BY <2>3, <1>1
    <3>. QED
      BY <3>1, <2>1 DEF Within
  <2>. QED
    BY <2>2, <2>3
<1>3. ASSUME Within(f, Tail(s)) PROVE Within(f, s)
  BY <1>1, <1>3 DEF Within
<1>4. Within(Head(s), s)
  BY <1>1 DEF Within
<1>. QED
  BY <1>2, <1>3, <1>4

(* A sequence without repetition stays so when a new element is appended   *)
LEMMA DistinctAppend ==
  ASSUME NEW S, NEW s \in Seq(S), NEW x \in S, Distinct(s), ~Within(x, s)
  PROVE  Distinct(Append(s, x))
BY AppendProperties, LenProperties DEF Within, Distinct

(* and when its head goes, which is then not in it any more.               *)
LEMMA DistinctTail ==
  ASSUME NEW S, NEW s \in Seq(S), s # <<>>, Distinct(s)
  PROVE  Distinct(Tail(s)) /\ ~Within(Head(s), Tail(s))
<1>. /\ Len(s) \in Nat /\ Len(s) # 0
     /\ Len(Tail(s)) = Len(s) - 1
     /\ \A i \in 1..Len(Tail(s)) : Tail(s)[i] = s[i + 1]
     /\ Head(s) = s[1]
  BY HeadTailProperties, EmptySeq, LenProperties
<1>. QED
  BY DEF Within, Distinct

-----------------------------------------------------------------------------

(* The lowest place of its chain a run still has: the first was given back *)
(* when the time of its job was over.                                      *)
Low(r) == IF signal[r] THEN 2 ELSE 1

(* Where a run stands in its chain of places, phase by phase.              *)
Stands(r) ==
  /\ level[r] <= Len(Path(r))
  /\ signal[r] => Manual(r) /\ level[r] >= 1
  /\ phase[r] = "new" => level[r] = 0 /\ ~signal[r]
  /\ phase[r] = "queued" => level[r] < Len(Path(r))
  /\ phase[r] = "job" => level[r] = 1 /\ Manual(r) /\ ~signal[r]
  /\ phase[r] = "turn" => level[r] = Len(Path(r)) - 1
  /\ phase[r] \in {"setup", "attempt"} => level[r] = Len(Path(r))
  /\ phase[r] = "leaving" => Low(r) <= level[r]
  /\ phase[r] = "over" => level[r] = Low(r) - 1

(* It has exactly the places from its lowest up to its level, each in the  *)
(* lane that is its turn in the path, or from before a restart.            *)
HasItsPlaces(r) ==
  \A n \in 1..3 :
    /\ Held(<<r, n>>) <=> Low(r) <= n /\ n <= level[r]
    /\ \A l \in Lanes : <<r, n>> \in places[l] =>
         l = Path(r)[n] /\ <<r, n>> \notin given_up

(* Who waits in a line waits there once, for the next place of its chain.  *)
LinesUp(l) ==
  /\ Distinct(line[l])
  /\ \A r \in Runs, n \in 1..3 : Within(<<r, n>>, line[l]) =>
       phase[r] = "queued" /\ n = level[r] + 1 /\ n <= Len(Path(r)) /\ l = Path(r)[n]

(* A session's lane has one place.                                         *)
OnePlace(s) == places[s] = {} \/ \E p \in Tasks : places[s] = {p}

(* The loop of a run has its bound ahead of it.                            *)
CanTry(r) ==
  /\ phase[r] \in {"new", "queued", "job", "turn"} => attempts[r] = 0
  /\ phase[r] = "setup" => attempts[r] < MaxAttempts

Chains ==
  /\ \A r \in Runs : Stands(r) /\ HasItsPlaces(r) /\ CanTry(r)
  /\ \A l \in Lanes : LinesUp(l)
  /\ \A s \in Sessions : OnePlace(s)

(* The turn in the registry, and the attempt a reset aborted, are of the   *)
(* session; the number of attempts never falls below the one aborted.      *)
Aims ==
  /\ \A s \in Sessions : active[s] # NoRun => Session(active[s]) = s
  /\ \A x \in Resets :
       /\ reset[x] = "idle" => target[x][1] = NoRun
       /\ target[x][1] # NoRun => /\ Session(target[x][1]) = ResetOf[x]
                                  /\ target[x][2] <= attempts[target[x][1]]

(* The inductive invariant.                                                *)
RunsInv == TypeOK /\ Chains /\ Aims /\ RegistryIsTrue

-----------------------------------------------------------------------------
(* A run's path: its session's lane and its global lane, after the cron    *)
(* lane if it is a job by hand.                                            *)
LEMMA PathIs ==
  ASSUME arranged \in Cases, NEW r \in Runs
  PROVE  /\ Session(r) \in Sessions /\ arranged.lane[r] \in GlobalLanes
         /\ Manual(r) => /\ Len(Path(r)) = 3 /\ Path(r)[1] = CronLane
                         /\ Path(r)[2] = Session(r) /\ Path(r)[3] = arranged.lane[r]
         /\ ~Manual(r) => /\ Len(Path(r)) = 2
                          /\ Path(r)[1] = Session(r) /\ Path(r)[2] = arranged.lane[r]
<1>1. Session(r) \in Sessions /\ arranged.lane[r] \in GlobalLanes
  BY CaseAssumption DEF Session
<1>2. CASE Manual(r)
  <2>1. Path(r) = <<CronLane>> \o <<Session(r), arranged.lane[r]>>
    BY <1>2 DEF Path, Outer
  <2>. DEFINE S == {CronLane, Session(r), arranged.lane[r]}
              a == <<CronLane>>
              b == <<Session(r), arranged.lane[r]>>
  <2>2. /\ a \in Seq(S) /\ Len(a) = 1 /\ a[1] = CronLane
        /\ b \in Seq(S) /\ Len(b) = 2 /\ b[1] = Session(r) /\ b[2] = arranged.lane[r]
    OBVIOUS
  <2>3. Path(r) = a \o b
    BY <2>1
  <2>. HIDE DEF a, b, S
  <2>4. /\ Len(Path(r)) = Len(a) + Len(b)
        /\ \A i \in 1..(Len(a) + Len(b)) :
             Path(r)[i] = IF i <= Len(a) THEN a[i] ELSE b[i - Len(a)]
    BY <2>2, <2>3, ConcatProperties
  <2>5. Len(Path(r)) = 3 /\ Path(r)[1] = a[1] /\ Path(r)[2] = b[1] /\ Path(r)[3] = b[2]
    BY <2>2, <2>4
  <2>. QED
    BY <1>1, <1>2, <2>2, <2>5
<1>3. CASE ~Manual(r)
  <2>1. Path(r) = <<>> \o <<Session(r), arranged.lane[r]>>
    BY <1>3 DEF Path, Outer
  <2>2. Path(r) = <<Session(r), arranged.lane[r]>>
    BY <2>1
  <2>. QED
    BY <1>1, <1>3, <2>2
<1>. QED
  BY <1>2, <1>3

(* A run's chain has two places or three.                                  *)
LEMMA PathBounds ==
  ASSUME arranged \in Cases, NEW r \in Runs
  PROVE  /\ Len(Path(r)) \in {2, 3}
         /\ \A n \in 1..Len(Path(r)) : Path(r)[n] \in Lanes /\ n \in 1..3
<1>1. CronLane \in Lanes /\ Sessions \subseteq Lanes /\ GlobalLanes \subseteq Lanes
  BY LaneAssumption DEF Lanes
<1>2. Manual(r) \in BOOLEAN
  BY DEF Manual
<1>3. CASE Manual(r)
  <2>1. /\ Len(Path(r)) = 3 /\ Path(r)[1] \in Lanes /\ Path(r)[2] \in Lanes /\ Path(r)[3] \in Lanes
    BY <1>1, <1>3, PathIs
  <2>2. \A n \in 1..3 : n = 1 \/ n = 2 \/ n = 3
    OBVIOUS
  <2>. QED
    BY <2>1, <2>2
<1>4. CASE ~Manual(r)
  BY <1>1, <1>4, PathIs
<1>. QED
  BY <1>2, <1>3, <1>4

(* The lanes have their types.                                             *)
LaneTypes ==
  /\ line \in [Lanes -> Seq(Tasks)] /\ places \in [Lanes -> SUBSET Tasks]
  /\ given_up \subseteq Tasks /\ limit = Limits /\ closed \in BOOLEAN

(* The steps of the lanes keep the lanes' types: a task asks,              *)
LEMMA SubmitTypes ==
  ASSUME LaneTypes, NEW t \in Tasks, NEW l \in Lanes, Service!Submit(t, l)
  PROVE  LaneTypes'
BY AppendProperties DEF LaneTypes, Service!Submit

(* the first in line starts,                                               *)
LEMMA StartTypes ==
  ASSUME LaneTypes, NEW l \in Lanes, Service!Start(l)
  PROVE  LaneTypes' /\ Head(line[l]) \in Tasks
BY HeadTailProperties DEF LaneTypes, Service!Start

(* a place is given back,                                                  *)
LEMMA GiveBackTypes ==
  ASSUME LaneTypes, NEW p, GiveBack(p)
  PROVE  LaneTypes'
BY DEF LaneTypes, GiveBack, Service!Finish, Service!FinishLate

(* a lane's line is cleared,                                               *)
LEMMA ClearTypes ==
  ASSUME LaneTypes, NEW l \in Lanes, Service!Clear(l)
  PROVE  LaneTypes'
BY EmptySeq DEF LaneTypes, Service!Clear

(* and all lanes are reset.                                                *)
LEMMA RestartTypes ==
  ASSUME LaneTypes, Service!Restart \/ Service!Close
  PROVE  LaneTypes'
BY DEF LaneTypes, Service!Restart, Service!Close

(* A phase that PhaseAt gives.                                             *)
LEMMA PhaseAtIs ==
  ASSUME NEW r \in Runs, NEW n \in Nat, signal'[r] \in BOOLEAN
  PROVE  /\ PhaseAt(r, n) \in Phases
         /\ PhaseAt(r, n) = "over" <=> n = IF signal'[r] THEN 1 ELSE 0
         /\ PhaseAt(r, n) \in {"over", "leaving"}
BY DEF PhaseAt, Floor, Phases

-----------------------------------------------------------------------------
(* Types                                                                   *)

RunTypes ==
  /\ arranged \in Cases
  /\ phase \in [Runs -> Phases] /\ level \in [Runs -> 0..3]
  /\ attempts \in [Runs -> 0..MaxAttempts]
  /\ aborted \in [Runs -> BOOLEAN] /\ timedOut \in [Runs -> BOOLEAN]
  /\ signal \in [Runs -> BOOLEAN] /\ outcome \in [Runs -> Outcomes]
  /\ waitsFor \in [Runs -> Runs \cup {NoRun}]

RegistryTypes ==
  /\ active \in [Sessions -> Runs \cup {NoRun}] /\ replaced \subseteq Runs
  /\ reset \in [Resets -> {"idle", "waiting", "ended", "unavailable"}]
  /\ target \in [Resets -> (Runs \cup {NoRun}) \X (0..MaxAttempts)]
  /\ restarted \in BOOLEAN

(* The type invariant in three parts, now                                  *)
LEMMA TypesAre == TypeOK <=> LaneTypes /\ RunTypes /\ RegistryTypes
BY DEF TypeOK, LaneTypes, RunTypes, RegistryTypes

(* and after a step.                                                       *)
LEMMA TypesAreNext == TypeOK' <=> LaneTypes' /\ RunTypes' /\ RegistryTypes'
BY DEF TypeOK, LaneTypes, RunTypes, RegistryTypes

(* What a waiter is told is an outcome.                                    *)
LEMMA TellsAnOutcome ==
  ASSUME RunTypes, NEW r \in Runs, NEW o \in Outcomes
  PROVE  Told(r, o) \in Outcomes
BY DEF Told, RunTypes

(* A run that asks for a place waits, or is refused and goes back.         *)
LEMMA AskingIs ==
  ASSUME NEW r, NEW n, AskFor(r, n)
  PROVE  /\ closed => /\ phase' = [phase EXCEPT ![r] = PhaseAt(r, n - 1)]
                      /\ outcome' = [outcome EXCEPT ![r] = Told(r, "error")]
                      /\ UNCHANGED <<line, places, given_up, limit, closed>>
         /\ ~closed => /\ Service!Submit(<<r, n>>, Path(r)[n])
                       /\ phase' = [phase EXCEPT ![r] = "queued"]
                       /\ UNCHANGED outcome
BY DEF AskFor, laneVars

(* Asking for the next place keeps the types.                              *)
LEMMA AskTypes ==
  ASSUME LaneTypes, RunTypes, NEW r \in Runs, NEW n \in 1..Len(Path(r)),
         AskFor(r, n), signal' = signal,
         UNCHANGED <<arranged, level, attempts, aborted, timedOut>>,
         waitsFor' \in [Runs -> Runs \cup {NoRun}]
  PROVE  LaneTypes' /\ RunTypes'
<1>1. n \in 1..3 /\ Path(r)[n] \in Lanes /\ n - 1 \in Nat
  BY PathBounds DEF RunTypes
<1>2. CASE closed
  <2>1. PhaseAt(r, n - 1) \in Phases
    BY <1>1, PhaseAtIs DEF RunTypes
  <2>2. Told(r, "error") \in Outcomes
    BY TellsAnOutcome DEF Outcomes
  <2>3. LaneTypes'
    BY <1>2, AskingIs DEF LaneTypes
  <2>4. /\ phase' = [phase EXCEPT ![r] = PhaseAt(r, n - 1)]
        /\ outcome' = [outcome EXCEPT ![r] = Told(r, "error")]
    BY <1>2, AskingIs
  <2>5. phase' \in [Runs -> Phases] /\ outcome' \in [Runs -> Outcomes]
    BY <2>1, <2>2, <2>4 DEF RunTypes
  <2>. QED
    BY <2>3, <2>5 DEF RunTypes
<1>3. CASE ~closed
  <2>1. <<r, n>> \in Tasks
    BY <1>1 DEF Tasks
  <2>2. LaneTypes'
    BY <1>1, <1>3, <2>1, AskingIs, SubmitTypes
  <2>. QED
    BY <1>3, <2>2, AskingIs DEF RunTypes, Phases
<1>. QED
  BY <1>2, <1>3

(* Every step keeps the types.                                             *)
LEMMA TypeStep ==
  ASSUME RunsInv, Next
  PROVE  TypeOK'
<1>1. LaneTypes /\ RunTypes /\ RegistryTypes
  BY TypesAre DEF RunsInv
<1>2. \A r \in Runs : Stands(r) /\ CanTry(r)
  BY DEF RunsInv, Chains
<1>3. \A r \in Runs : Session(r) \in Sessions
  BY <1>1, PathIs DEF RunTypes
<1>4. ASSUME NEW r \in Runs, Nest(r) PROVE TypeOK'
  <2>1. level[r] + 1 \in 1..Len(Path(r))
    BY <1>1, <1>2, <1>4, PathIs, PathBounds DEF Nest, Stands, RunTypes
  <2>2. LaneTypes' /\ RunTypes'
    BY <1>1, <1>4, <2>1, AskTypes DEF Nest, RunTypes
  <2>. QED
    BY <1>1, <1>4, <2>2, TypesAreNext DEF Nest, RegistryTypes, registry, resetVars
<1>5. ASSUME NEW r \in Runs, Ask(r) PROVE TypeOK'
  <2>0. level[r] = 0 /\ Len(Path(r)) \in {2, 3}
    BY <1>1, <1>2, <1>5, PathBounds DEF Ask, Stands, RunTypes
  <2>1. 1 \in 1..Len(Path(r))
    BY <2>0
  <2>2. LaneTypes' /\ RunTypes'
    BY <1>1, <1>5, <2>1, AskTypes DEF Ask, RunTypes
  <2>. QED
    BY <1>1, <1>5, <2>2, TypesAreNext DEF Ask, RegistryTypes, registry, resetVars
<1>6. ASSUME NEW r \in Runs, NEW c \in Runs, Send(r, c) PROVE TypeOK'
  <2>0. level[c] = 0 /\ Len(Path(c)) \in {2, 3}
    BY <1>1, <1>2, <1>6, PathBounds DEF Send, Stands, RunTypes
  <2>1. 1 \in 1..Len(Path(c))
    BY <2>0
  <2>2. waitsFor' \in [Runs -> Runs \cup {NoRun}]
    BY <1>1, <1>6 DEF Send, RunTypes
  <2>3. LaneTypes' /\ RunTypes'
    BY <1>1, <1>6, <2>1, <2>2, AskTypes DEF Send, RunTypes
  <2>. QED
    BY <1>1, <1>6, <2>3, TypesAreNext DEF Send, RegistryTypes, registry, resetVars
<1>7. ASSUME NEW l \in Lanes, Enter(l) PROVE TypeOK'
  <2>1. LaneTypes' /\ Head(line[l]) \in Tasks
    BY <1>1, <1>7, StartTypes DEF Enter
  <2>2. Head(line[l])[2] \in 0..3 /\ Head(line[l])[1] \in Runs
    BY <2>1 DEF Tasks
  <2>3. phase' \in [Runs -> Phases] /\ level' \in [Runs -> 0..3]
    BY <1>1, <1>7, <2>2 DEF Enter, RunTypes, Phases
  <2>. QED
    BY <1>1, <1>7, <2>1, <2>3, TypesAreNext DEF Enter, RunTypes, RegistryTypes, registry, resetVars
<1>8. ASSUME NEW r \in Runs, Leave(r) PROVE TypeOK'
  <2>1. LaneTypes'
    BY <1>1, <1>8, GiveBackTypes DEF Leave
  <2>2. level[r] - 1 \in 0..3 /\ signal'[r] \in BOOLEAN
    <3>1. level[r] \in 0..3 /\ signal[r] \in BOOLEAN /\ Low(r) <= level[r] /\ signal' = signal
      BY <1>1, <1>2, <1>8 DEF Leave, Stands, RunTypes
    <3>. QED
      BY <3>1 DEF Low
  <2>3. PhaseAt(r, level[r] - 1) \in Phases
    BY <2>2, PhaseAtIs
  <2>. QED
    BY <1>1, <1>8, <2>1, <2>2, <2>3, TypesAreNext DEF Leave, RunTypes, RegistryTypes, registry, resetVars
<1>9. ASSUME NEW r \in Runs, BeginAttempt(r) PROVE TypeOK'
  <2>1. attempts[r] + 1 \in 0..MaxAttempts
    BY <1>1, <1>2, <1>9, RunAssumption DEF BeginAttempt, CanTry, RunTypes
  <2>2. LaneTypes'
    BY <1>1, <1>9 DEF BeginAttempt, laneVars, LaneTypes
  <2>3. RunTypes'
    BY <1>1, <1>9, <2>1 DEF BeginAttempt, RunTypes, Phases
  <2>4. RegistryTypes'
    BY <1>1, <1>3, <1>9 DEF BeginAttempt, RegistryTypes, resetVars
  <2>. QED
    BY <2>2, <2>3, <2>4, TypesAreNext
<1>10. ASSUME NEW r \in Runs, SetupFails(r) \/ AttemptTimesOut(r) \/ WaitTimesOut(r) \/ Answered(r)
       PROVE  TypeOK'
  <2>1. LaneTypes' /\ RegistryTypes'
    BY <1>1, <1>10 DEF SetupFails, AttemptTimesOut, WaitTimesOut, Answered, laneVars, LaneTypes,
       RegistryTypes, registry, resetVars
  <2>2. Told(r, "error") \in Outcomes
    BY <1>1, TellsAnOutcome DEF Outcomes
  <2>3. RunTypes'
    BY <1>1, <1>10, <2>2 DEF SetupFails, AttemptTimesOut, WaitTimesOut, Answered, RunTypes, Phases
  <2>. QED
    BY <2>1, <2>3, TypesAreNext
<1>11. ASSUME NEW r \in Runs, EndAttempt(r) PROVE TypeOK'
  <2>1. LaneTypes'
    BY <1>1, <1>11 DEF EndAttempt, laneVars, LaneTypes
  <2>2. active' \in [Sessions -> Runs \cup {NoRun}]
    BY <1>1, <1>3, <1>11 DEF EndAttempt, Unregister, RegistryTypes
  <2>3. reset' \in [Resets -> {"idle", "waiting", "ended", "unavailable"}]
    BY <1>1, <1>3, <1>11 DEF EndAttempt, Unregister, RegistryTypes
  <2>4. \A o \in Endings(r) : Told(r, o) \in Outcomes
    <3>1. Endings(r) \subseteq Outcomes
      BY DEF Endings, Outcomes
    <3>. QED
      BY <1>1, <3>1, TellsAnOutcome
  <2>5. RunTypes'
    BY <1>1, <1>11, <2>4 DEF EndAttempt, RunTypes, Phases
  <2>. QED
    BY <1>1, <1>11, <2>1, <2>2, <2>3, <2>5, TypesAreNext DEF EndAttempt, RegistryTypes
<1>12. ASSUME NEW r \in Runs, JobTimesOut(r) PROVE TypeOK'
  <2>1. LaneTypes'
    BY <1>1, <1>12, GiveBackTypes DEF JobTimesOut
  <2>2. signal'[r] \in BOOLEAN /\ level[r] \in Nat
    BY <1>1, <1>12 DEF JobTimesOut, RunTypes
  <2>3. PhaseAt(r, level[r]) \in Phases
    BY <2>2, PhaseAtIs
  <2>4. phase' \in [Runs -> Phases]
    BY <1>1, <1>12, <2>3 DEF JobTimesOut, RunTypes
  <2>5. RunTypes'
    BY <1>1, <1>12, <2>4 DEF JobTimesOut, RunTypes, Outcomes
  <2>. QED
    BY <1>1, <1>12, <2>1, <2>5, TypesAreNext DEF JobTimesOut, RegistryTypes, registry, resetVars
<1>13. ASSUME NEW x \in Resets, Reset(x) PROVE TypeOK'
  <2>1. ResetOf[x] \in Sessions /\ ResetOf[x] \in Lanes
    BY RunAssumption DEF Lanes
  <2>2. LaneTypes'
    BY <1>1, <1>13, <2>1, ClearTypes DEF Reset
  <2>3. \A r \in Runs : PhaseAt(r, level[r]) \in Phases
    BY <1>1, <1>13, PhaseAtIs DEF Reset, RunTypes
  <2>4. phase' \in [Runs -> Phases]
    BY <1>1, <1>13, <2>3 DEF Reset, RunTypes
  <2>5. outcome' \in [Runs -> Outcomes]
    BY <1>1, <1>13, TellsAnOutcome DEF Reset, RunTypes, Outcomes
  <2>6. aborted' \in [Runs -> BOOLEAN]
    BY <1>1, <1>13, <2>1 DEF Reset, RunTypes
  <2>7. target' \in [Resets -> (Runs \cup {NoRun}) \X (0..MaxAttempts)]
    <3>1. active[ResetOf[x]] # NoRun => active[ResetOf[x]] \in Runs
      BY <1>1, <2>1 DEF RegistryTypes
    <3>2. active[ResetOf[x]] # NoRun => attempts[active[ResetOf[x]]] \in 0..MaxAttempts
      BY <1>1, <3>1 DEF RunTypes
    <3>. QED
      BY <1>1, <1>13, <3>1, <3>2 DEF Reset, RegistryTypes
  <2>8. reset' \in [Resets -> {"idle", "waiting", "ended", "unavailable"}]
    BY <1>1, <1>13 DEF Reset, RegistryTypes
  <2>. QED
    BY <1>1, <1>13, <2>2, <2>4, <2>5, <2>6, <2>7, <2>8, TypesAreNext DEF Reset, RunTypes, RegistryTypes, registry
<1>14. ASSUME NEW x \in Resets, ResetTimesOut(x) PROVE TypeOK'
  <2>1. LaneTypes' /\ RunTypes'
    BY <1>1, <1>14 DEF ResetTimesOut, laneVars, LaneTypes, RunTypes
  <2>. QED
    BY <1>1, <1>14, <2>1, TypesAreNext DEF ResetTimesOut, RegistryTypes, registry
<1>15. CASE Drain \/ Restart
  <2>1. LaneTypes'
    BY <1>1, <1>15, RestartTypes DEF Drain, Restart
  <2>. QED
    BY <1>1, <1>15, <2>1, TypesAreNext DEF Drain, Restart, RunTypes, RegistryTypes, registry, resetVars
<1>. QED
  BY <1>4, <1>5, <1>6, <1>7, <1>8, <1>9, <1>10, <1>11, <1>12, <1>13, <1>14, <1>15
     DEF Next, StepOf, TimerOf

-----------------------------------------------------------------------------
(* Chains                                                                  *)

(* Where a run goes does not change.                                       *)
LEMMA PathStays ==
  ASSUME arranged' = arranged
  PROVE  \A r : Path(r)' = Path(r) /\ Session(r)' = Session(r) /\ Manual(r)' = Manual(r)
BY DEF Path, Outer, Session, Manual

(* Only the runs whose own phase, level and signal change need a look.     *)
LEMMA StandsStays ==
  ASSUME arranged' = arranged, NEW r \in Runs, Stands(r), CanTry(r),
         phase'[r] = phase[r], level'[r] = level[r], signal'[r] = signal[r],
         attempts'[r] = attempts[r]
  PROVE  Stands(r)' /\ CanTry(r)'
BY PathStays DEF Stands, CanTry, Low

(* A run has its places as long as nothing it holds or needs changes.      *)
LEMMA PlacesStay ==
  ASSUME arranged' = arranged, NEW r \in Runs, HasItsPlaces(r),
         level'[r] = level[r], signal'[r] = signal[r],
         \A n \in 1..3 : /\ <<r, n>> \in given_up' <=> <<r, n>> \in given_up
                         /\ \A l \in Lanes : <<r, n>> \in places'[l] <=> <<r, n>> \in places[l]
  PROVE  HasItsPlaces(r)'
BY PathStays DEF HasItsPlaces, Held, Low

(* A run that asks for the next place of its chain stands in one line      *)
(* only.                                                                   *)
LEMMA AskingKeepsChains ==
  ASSUME LaneTypes, RunTypes, Chains, NEW r \in Runs, phase[r] \in {"new", "job", "turn"},
         NEW n \in 1..Len(Path(r)), n = level[r] + 1, AskFor(r, n),
         UNCHANGED <<arranged, level, attempts, signal>>
  PROVE  Chains'
<1>1. n \in 1..3 /\ n - 1 = level[r] /\ Path(r)[n] \in Lanes /\ level[r] \in Nat /\ signal[r] \in BOOLEAN
  BY PathBounds DEF RunTypes
<1>2. \A q \in Runs : /\ q # r => phase'[q] = phase[q]
                      /\ level'[q] = level[q] /\ signal'[q] = signal[q] /\ attempts'[q] = attempts[q]
  <2>1. PICK v : phase' = [phase EXCEPT ![r] = v]
    BY AskingIs
  <2>. QED
    BY <2>1 DEF RunTypes
<1>3. CASE closed
  <2>0. phase' = [phase EXCEPT ![r] = PhaseAt(r, n - 1)] /\ UNCHANGED <<line, places, given_up>>
    BY <1>3, AskingIs
  <2>1. phase'[r] = PhaseAt(r, n - 1) /\ UNCHANGED <<line, places, given_up>>
    BY <2>0 DEF RunTypes
  <2>2. /\ phase'[r] \in {"over", "leaving"}
        /\ phase'[r] = "over" <=> level[r] = IF signal[r] THEN 1 ELSE 0
    BY <1>1, <2>1, PhaseAtIs
  <2>3. Stands(r)' /\ CanTry(r)'
    BY <1>1, <2>2, PathStays, PathBounds DEF Chains, Stands, CanTry, Low, RunTypes
  <2>4. \A q \in Runs : Stands(q)' /\ CanTry(q)'
    BY <1>2, <2>3, StandsStays DEF Chains
  <2>5. \A q \in Runs : HasItsPlaces(q)'
    BY <2>1, PlacesStay DEF Chains
  <2>6. \A l \in Lanes : LinesUp(l)'
    BY <1>2, <2>1, PathStays DEF Chains, LinesUp
  <2>7. \A s \in Sessions : OnePlace(s)'
    BY <2>1 DEF Chains, OnePlace
  <2>. QED
    BY <2>4, <2>5, <2>6, <2>7 DEF Chains
<1>4. CASE ~closed
  <2>1. phase'[r] = "queued" /\ Service!Submit(<<r, n>>, Path(r)[n])
    BY <1>4, AskingIs DEF RunTypes
  <2>2. /\ UNCHANGED <<places, given_up>>
        /\ \A l \in Lanes : line'[l] = IF l = Path(r)[n] THEN Append(line[l], <<r, n>>) ELSE line[l]
    BY <1>1, <2>1 DEF Service!Submit, LaneTypes
  <2>3. <<r, n>> \in Tasks /\ \A l \in Lanes : line[l] \in Seq(Tasks)
    BY <1>1 DEF Tasks, LaneTypes
  <2>4. \A f : \A l \in Lanes : Within(f, line'[l]) <=> Within(f, line[l]) \/ (l = Path(r)[n] /\ f = <<r, n>>)
    BY <2>2, <2>3, WithinAppend
  <2>5. Stands(r)' /\ CanTry(r)'
    BY <1>1, <2>1, PathStays, PathBounds DEF Chains, Stands, CanTry, Low, RunTypes
  <2>6. \A q \in Runs : Stands(q)' /\ CanTry(q)'
    BY <1>2, <2>5, StandsStays DEF Chains
  <2>7. \A q \in Runs : HasItsPlaces(q)'
    BY <2>2, PlacesStay DEF Chains
  <2>8. ASSUME NEW l \in Lanes PROVE LinesUp(l)'
    <3>1. ~Within(<<r, n>>, line[l]) /\ Distinct(line[l])
      BY <1>1 DEF Chains, LinesUp
    <3>2. Distinct(line'[l])
      BY <2>2, <2>3, <3>1, DistinctAppend
    <3>3. ASSUME NEW q \in Runs, NEW m \in 1..3, Within(<<q, m>>, line'[l])
          PROVE  phase'[q] = "queued" /\ m = level'[q] + 1 /\ m <= Len(Path(q)) /\ l = Path(q)[m]
      <4>1. CASE Within(<<q, m>>, line[l])
        BY <1>2, <2>1, <4>1 DEF Chains, LinesUp
      <4>2. CASE l = Path(r)[n] /\ <<q, m>> = <<r, n>>
        BY <1>2, <2>1, <4>2
      <4>. QED
        BY <2>4, <3>3, <4>1, <4>2
    <3>. QED
      BY <3>2, <3>3, PathStays DEF LinesUp
  <2>9. \A s \in Sessions : OnePlace(s)'
    BY <2>2 DEF Chains, OnePlace
  <2>. QED
    BY <2>6, <2>7, <2>8, <2>9 DEF Chains
<1>. QED
  BY <1>3, <1>4

(* The lanes count as FiniteSets does.                                     *)
LEMMA SameCardinality ==
  ASSUME NEW S
  PROVE  Service!Cardinality(S) = Cardinality(S)
BY DEF Service!Cardinality, Cardinality

(* A session's lane serves the next only when its place is empty.          *)
LEMMA PlaceWasEmpty ==
  ASSUME LaneTypes, NEW s \in Sessions, OnePlace(s), Service!Start(s)
  PROVE  places[s] = {}
<1>1. Cardinality(places[s]) < 1
  BY SameCardinality, LaneAssumption DEF Service!Start, LaneTypes
<1>2. ASSUME NEW p, places[s] = {p} PROVE FALSE
  <2>1. Cardinality(places[s]) = 1
    BY <1>2, FS_Singleton
  <2>. QED
    BY <1>1, <2>1
<1>. QED
  BY <1>2 DEF OnePlace

(* The first in line gets its place and holds those before it.             *)
LEMMA EnteringKeepsChains ==
  ASSUME LaneTypes, RunTypes, Chains, NEW l \in Lanes, Enter(l)
  PROVE  Chains'
<1>1. /\ line[l] \in Seq(Tasks) /\ line[l] # <<>> /\ Distinct(line[l])
      /\ UNCHANGED <<arranged, attempts, signal, given_up>>
  BY DEF Enter, Service!Start, LaneTypes, Chains, LinesUp
<1>2. Head(line[l]) \in Tasks /\ Within(Head(line[l]), line[l])
  BY <1>1, HeadTailProperties, WithinTail
<1>3. PICK r \in Runs, n \in 1..3 : Head(line[l]) = <<r, n>>
  BY <1>2 DEF Tasks
<1>4. /\ phase[r] = "queued" /\ n = level[r] + 1 /\ n <= Len(Path(r)) /\ l = Path(r)[n]
      /\ level[r] \in Nat /\ signal[r] \in BOOLEAN
  <2>1. Within(<<r, n>>, line[l])
    BY <1>2, <1>3
  <2>2. LinesUp(l)
    BY DEF Chains
  <2>3. phase[r] = "queued" /\ n = level[r] + 1 /\ n <= Len(Path(r)) /\ l = Path(r)[n]
    BY <2>1, <2>2 DEF LinesUp
  <2>4. level[r] \in 0..3 /\ signal[r] \in BOOLEAN
    BY <1>3 DEF RunTypes
  <2>. QED
    BY <2>3, <2>4
<1>5. /\ level' = [level EXCEPT ![r] = n]
      /\ phase' = [phase EXCEPT ![r] = IF n = Len(Path(r)) THEN "setup"
                                       ELSE IF Manual(r) /\ n = 1 THEN "job" ELSE "turn"]
      /\ line' = [line EXCEPT ![l] = Tail(@)]
      /\ places' = [places EXCEPT ![l] = @ \cup {<<r, n>>}]
  <2>1. Head(line[l])[1] = r /\ Head(line[l])[2] = n
    BY <1>3
  <2>2. /\ level' = [level EXCEPT ![r] = n]
        /\ phase' = [phase EXCEPT ![r] = IF n = Len(Path(r)) THEN "setup"
                                         ELSE IF Manual(r) /\ n = 1 THEN "job" ELSE "turn"]
    BY <2>1 DEF Enter
  <2>3. /\ line' = [line EXCEPT ![l] = Tail(@)]
        /\ places' = [places EXCEPT ![l] = @ \cup {Head(line[l])}]
    BY DEF Enter, Service!Start
  <2>. QED
    BY <1>3, <2>2, <2>3
<1>6. /\ \A q \in Runs : q # r => phase'[q] = phase[q] /\ level'[q] = level[q]
      /\ level'[r] = n
      /\ phase'[r] = IF n = Len(Path(r)) THEN "setup" ELSE IF Manual(r) /\ n = 1 THEN "job" ELSE "turn"
      /\ \A k \in Lanes : /\ line'[k] = IF k = l THEN Tail(line[k]) ELSE line[k]
                          /\ places'[k] = IF k = l THEN places[k] \cup {<<r, n>>} ELSE places[k]
  BY <1>5 DEF RunTypes, LaneTypes
<1>7. Stands(r) /\ CanTry(r) /\ HasItsPlaces(r)
  BY DEF Chains
<1>8. Stands(r)' /\ CanTry(r)'
  <2>1. (Manual(r) /\ Len(Path(r)) = 3) \/ (~Manual(r) /\ Len(Path(r)) = 2)
    BY PathIs DEF RunTypes
  <2>2. signal[r] => Manual(r) /\ level[r] >= 1
    BY <1>7 DEF Stands
  <2>3. attempts[r] = 0
    BY <1>4, <1>7 DEF CanTry
  <2>4. CanTry(r)'
    BY <1>1, <1>6, <2>3, RunAssumption DEF CanTry
  <2>5. CASE n = Len(Path(r))
    <3>1. phase'[r] = "setup" /\ level'[r] = Len(Path(r)) /\ signal'[r] = signal[r]
      BY <1>1, <1>6, <2>5
    <3>. QED
      BY <1>1, <1>3, <1>4, <2>1, <2>2, <2>4, <3>1, PathStays DEF Stands
  <2>6. CASE n # Len(Path(r)) /\ Manual(r) /\ n = 1
    <3>1. phase'[r] = "job" /\ level'[r] = 1 /\ signal'[r] = signal[r] /\ ~signal[r]
      BY <1>1, <1>4, <1>6, <2>2, <2>6
    <3>. QED
      BY <1>1, <1>3, <1>4, <2>1, <2>6, <2>4, <3>1, PathStays DEF Stands
  <2>7. CASE n # Len(Path(r)) /\ ~(Manual(r) /\ n = 1)
    <3>1. phase'[r] = "turn" /\ level'[r] = n /\ signal'[r] = signal[r]
      BY <1>1, <1>6, <2>7
    <3>2. n = Len(Path(r)) - 1
      <4>1. n <= Len(Path(r)) /\ n # Len(Path(r)) /\ Len(Path(r)) \in {2, 3}
        BY <1>4, <2>1, <2>7
      <4>2. Len(Path(r)) = 3 => n # 1
        BY <2>1, <2>7
      <4>3. \A k \in {2, 3}, m \in 1..3 : m <= k /\ m # k /\ (k = 3 => m # 1) => m = k - 1
        OBVIOUS
      <4>. QED
        BY <4>1, <4>2, <4>3
    <3>. QED
      BY <1>1, <1>3, <1>4, <2>1, <2>2, <2>4, <3>1, <3>2, PathStays DEF Stands
  <2>. QED
    BY <2>5, <2>6, <2>7
<1>9. \A q \in Runs : Stands(q)' /\ CanTry(q)'
  BY <1>1, <1>6, <1>8, StandsStays DEF Chains
<1>10. HasItsPlaces(r)'
  <2>0. l \in Lanes /\ given_up' = given_up
    BY <1>1
  <2>1. /\ \A m \in 1..3 : (<<r, m>> = <<r, n>>) <=> m = n
        /\ \A m \in 1..3 : \A k \in Lanes :
             <<r, m>> \in places'[k] <=> <<r, m>> \in places[k] \/ (m = n /\ k = l)
    <3>1. \A m \in 1..3 : (<<r, m>> = <<r, n>>) <=> m = n
      OBVIOUS
    <3>2. ASSUME NEW m \in 1..3, NEW k \in Lanes
          PROVE  <<r, m>> \in places'[k] <=> <<r, m>> \in places[k] \/ (m = n /\ k = l)
      <4>1. CASE k = l
        BY <1>6, <3>1, <4>1
      <4>2. CASE k # l
        BY <1>6, <4>2
      <4>. QED
        BY <4>1, <4>2
    <3>. QED
      BY <3>1, <3>2
  <2>6. \A m \in 1..3 : Held(<<r, m>>)' <=> Held(<<r, m>>) \/ m = n
    BY <2>0, <2>1 DEF Held
  <2>2. Low(r)' = Low(r) /\ Low(r) <= n /\ Low(r) \in {1, 2}
    BY <1>1, <1>4, <1>7 DEF Low, Stands
  <2>3. ~Held(<<r, n>>)
    BY <1>4, <1>7 DEF HasItsPlaces
  <2>4. <<r, n>> \notin given_up
    BY <2>3 DEF Held
  <2>5. \A m \in 1..3 : Held(<<r, m>>)' <=> Low(r) <= m /\ m <= n
    BY <1>4, <1>7, <2>6, <2>2 DEF HasItsPlaces
  <2>7. \A m \in 1..3 : \A k \in Lanes : <<r, m>> \in places'[k] => k = Path(r)[m] /\ <<r, m>> \notin given_up'
    BY <1>4, <1>7, <2>0, <2>1, <2>4 DEF HasItsPlaces
  <2>. QED
    BY <1>1, <1>3, <1>6, <2>2, <2>5, <2>7, PathStays DEF HasItsPlaces
<1>11. ASSUME NEW q \in Runs PROVE HasItsPlaces(q)'
  <2>1. CASE q # r
    <3>1. ASSUME NEW m \in 1..3, NEW k \in Lanes
          PROVE  <<q, m>> \in places'[k] <=> <<q, m>> \in places[k]
      <4>1. <<q, m>> # <<r, n>>
        BY <2>1
      <4>. QED
        BY <1>6, <4>1
    <3>2. HasItsPlaces(q)
      BY DEF Chains
    <3>3. level'[q] = level[q] /\ signal'[q] = signal[q] /\ arranged' = arranged /\ given_up' = given_up
      BY <1>1, <1>6, <2>1
    <3>. QED
      BY <3>1, <3>2, <3>3, PlacesStay
  <2>. QED
    BY <1>10, <2>1
<1>12. ASSUME NEW k \in Lanes PROVE LinesUp(k)'
  <2>1. Distinct(line[k]) /\ line[k] \in Seq(Tasks)
    BY DEF Chains, LinesUp, LaneTypes
  <2>2. /\ Distinct(line'[k])
        /\ \A f : Within(f, line'[k]) => Within(f, line[k]) /\ (k = l => f # <<r, n>>)
    <3>1. CASE k = l
      <4>1. line'[k] = Tail(line[k]) /\ line[k] # <<>>
        BY <1>1, <1>6, <3>1
      <4>2. Distinct(Tail(line[k])) /\ \A f : Within(f, Tail(line[k])) => Within(f, line[k])
        BY <2>1, <4>1, DistinctTail, WithinTail
      <4>3. ~Within(<<r, n>>, Tail(line[k]))
        BY <1>3, <2>1, <3>1, <4>1, DistinctTail
      <4>. QED
        BY <4>1, <4>2, <4>3
    <3>2. CASE k # l
      BY <1>6, <2>1, <3>2
    <3>. QED
      BY <3>1, <3>2
  <2>3. ASSUME NEW q \in Runs, NEW m \in 1..3, Within(<<q, m>>, line'[k])
        PROVE  phase'[q] = "queued" /\ m = level'[q] + 1 /\ m <= Len(Path(q)) /\ k = Path(q)[m]
    <3>0. LinesUp(k) /\ Within(<<q, m>>, line[k])
      BY <2>2, <2>3 DEF Chains
    <3>1. phase[q] = "queued" /\ m = level[q] + 1 /\ m <= Len(Path(q)) /\ k = Path(q)[m]
      BY <3>0 DEF LinesUp
    <3>2. q # r
      BY <1>4, <2>2, <2>3, <3>1
    <3>. QED
      BY <1>6, <3>1, <3>2
  <2>. QED
    BY <1>1, <2>2, <2>3, PathStays DEF LinesUp
<1>13. ASSUME NEW s \in Sessions PROVE OnePlace(s)'
  <2>1. s \in Lanes /\ OnePlace(s)
    BY DEF Lanes, Chains
  <2>2. CASE s = l
    <3>1. places[s] = {}
      BY <2>1, <2>2, PlaceWasEmpty DEF Enter
    <3>2. places'[s] = {<<r, n>>} /\ <<r, n>> \in Tasks
      BY <1>2, <1>3, <1>6, <2>1, <2>2, <3>1
    <3>. QED
      BY <3>2 DEF OnePlace
  <2>. QED
    BY <1>6, <2>1, <2>2 DEF OnePlace
<1>. QED
  BY <1>9, <1>11, <1>12, <1>13 DEF Chains

(* What a run gives back is gone, wherever it was, and nothing else is.    *)
LEMMA GivesBack ==
  ASSUME LaneTypes, NEW r \in Runs, HasItsPlaces(r), NEW k \in 1..3, GiveBack(<<r, k>>)
  PROVE  /\ Held(<<r, k>>) /\ ~Held(<<r, k>>)' /\ line' = line
         /\ \A l \in Lanes : places'[l] \subseteq places[l]
         /\ given_up' \subseteq given_up
         /\ \A q \in Runs, n \in 1..3 : <<q, n>> # <<r, k>> =>
              /\ <<q, n>> \in given_up' <=> <<q, n>> \in given_up
              /\ \A l \in Lanes : <<q, n>> \in places'[l] <=> <<q, n>> \in places[l]
<1>1. CASE \E l \in Lanes : Service!Finish(<<r, k>>, l)
  <2>1. PICK l \in Lanes : Service!Finish(<<r, k>>, l)
    BY <1>1
  <2>2. /\ <<r, k>> \in places[l] /\ UNCHANGED <<line, given_up>>
        /\ \A m \in Lanes : places'[m] = IF m = l THEN places[m] \ {<<r, k>>} ELSE places[m]
    BY <2>1 DEF Service!Finish, LaneTypes
  <2>3. /\ <<r, k>> \notin given_up
        /\ \A m \in Lanes : <<r, k>> \in places[m] => m = l
    BY <2>2 DEF HasItsPlaces
  <2>. QED
    BY <2>2, <2>3 DEF Held
<1>2. CASE Service!FinishLate(<<r, k>>)
  <2>1. <<r, k>> \in given_up /\ given_up' = given_up \ {<<r, k>>} /\ UNCHANGED <<line, places>>
    BY <1>2 DEF Service!FinishLate
  <2>2. \A m \in Lanes : <<r, k>> \notin places[m]
    BY <2>1 DEF HasItsPlaces
  <2>. QED
    BY <2>1, <2>2 DEF Held
<1>. QED
  BY <1>1, <1>2 DEF GiveBack

(* A place given back from the inside leaves a chain of those outside it.  *)
LEMMA GivingBackKeepsChains ==
  ASSUME LaneTypes, RunTypes, Chains, NEW r \in Runs, NEW k \in 1..3, GiveBack(<<r, k>>),
         UNCHANGED <<arranged, attempts>>,
         \A q \in Runs : q # r => phase'[q] = phase[q] /\ level'[q] = level[q] /\ signal'[q] = signal[q],
         phase[r] = "queued" => phase'[r] = "queued" /\ level'[r] = level[r],
         Stands(r)', CanTry(r)',
         \A n \in 1..3 : Low(r)' <= n /\ n <= level'[r] <=> Low(r) <= n /\ n <= level[r] /\ n # k
  PROVE  Chains'
<1>1. Stands(r) /\ HasItsPlaces(r)
  BY DEF Chains
<1>2. /\ Held(<<r, k>>) /\ ~Held(<<r, k>>)' /\ line' = line
      /\ \A l \in Lanes : places'[l] \subseteq places[l]
      /\ given_up' \subseteq given_up
      /\ \A q \in Runs, n \in 1..3 : <<q, n>> # <<r, k>> =>
           /\ <<q, n>> \in given_up' <=> <<q, n>> \in given_up
           /\ \A l \in Lanes : <<q, n>> \in places'[l] <=> <<q, n>> \in places[l]
  BY <1>1, GivesBack
<1>3. \A q \in Runs : Stands(q)' /\ CanTry(q)'
  BY StandsStays DEF Chains
<1>4. HasItsPlaces(r)'
  <2>1. \A n \in 1..3 : n # k => (Held(<<r, n>>)' <=> Held(<<r, n>>))
    BY <1>2 DEF Held
  <2>2. \A n \in 1..3 : Held(<<r, n>>)' <=> (Low(r) <= n /\ n <= level[r] /\ n # k)
    BY <1>1, <1>2, <2>1 DEF HasItsPlaces
  <2>3. \A n \in 1..3, l \in Lanes : <<r, n>> \in places'[l] => l = Path(r)[n] /\ <<r, n>> \notin given_up'
    BY <1>1, <1>2 DEF HasItsPlaces
  <2>. QED
    BY <2>2, <2>3, PathStays DEF HasItsPlaces
<1>5. \A q \in Runs : q # r => HasItsPlaces(q)'
  BY <1>2, PlacesStay DEF Chains
<1>6. \A l \in Lanes : LinesUp(l)'
  BY <1>2, PathStays DEF Chains, LinesUp
<1>7. \A s \in Sessions : OnePlace(s)'
  <2>. TAKE s \in Sessions
  <2>1. s \in Lanes /\ OnePlace(s) /\ places'[s] \subseteq places[s]
    BY <1>2 DEF Lanes, Chains
  <2>. QED
    BY <2>1 DEF OnePlace
<1>. QED
  BY <1>3, <1>4, <1>5, <1>6, <1>7 DEF Chains

(* A step of a turn moves no place.                                        *)
LEMMA TurningKeepsChains ==
  ASSUME Chains, UNCHANGED <<laneVars, arranged, level, signal>>,
         \A q \in Runs : phase[q] = "queued" => phase'[q] = "queued",
         \A q \in Runs : Stands(q)' /\ CanTry(q)'
  PROVE  Chains'
<1>1. \A q \in Runs : HasItsPlaces(q)'
  BY PlacesStay DEF Chains, laneVars
<1>2. \A l \in Lanes : LinesUp(l)'
  BY PathStays DEF Chains, LinesUp, laneVars
<1>3. \A s \in Sessions : OnePlace(s)'
  BY DEF Chains, OnePlace, laneVars
<1>. QED
  BY <1>1, <1>2, <1>3 DEF Chains

(* A run waits in a lane if one of its places is asked for there.          *)
LEMMA WaitingIs ==
  ASSUME LaneTypes, NEW r \in Runs, NEW l \in Lanes
  PROVE  Waiting(r, l) <=> \E n \in 1..3 : Within(<<r, n>>, line[l])
<1>1. ASSUME NEW i \in 1..Len(line[l]), line[l][i][1] = r
      PROVE  \E n \in 1..3 : Within(<<r, n>>, line[l])
  <2>1. line[l][i] \in Tasks
    BY ElementOfSeq DEF LaneTypes
  <2>2. PICK q \in Runs, n \in 1..3 : line[l][i] = <<q, n>>
    BY <2>1 DEF Tasks
  <2>3. line[l][i] = <<r, n>>
    BY <1>1, <2>2
  <2>. QED
    BY <2>2, <2>3 DEF Within
<1>2. ASSUME NEW n \in 1..3, Within(<<r, n>>, line[l])
      PROVE  Waiting(r, l)
  BY <1>2 DEF Within, Waiting
<1>. QED
  BY <1>1, <1>2 DEF Waiting

(* A run that waits is queued; it waits in one lane only.                  *)
LEMMA WaitingRuns ==
  ASSUME LaneTypes, Chains, NEW r \in Runs, NEW l \in Lanes, Waiting(r, l)
  PROVE  phase[r] = "queued" /\ \A k \in Lanes : Waiting(r, k) => k = l
<1>1. ASSUME NEW k \in Lanes, Waiting(r, k)
      PROVE  phase[r] = "queued" /\ k = Path(r)[level[r] + 1]
  <2>1. PICK n \in 1..3 : Within(<<r, n>>, line[k])
    BY <1>1, WaitingIs
  <2>2. LinesUp(k)
    BY DEF Chains
  <2>. QED
    BY <2>1, <2>2 DEF LinesUp
<1>. QED
  BY <1>1

(* A reset clears a line, and the runs in it give up what they hold.       *)
LEMMA ResetKeepsChains ==
  ASSUME LaneTypes, RunTypes, Chains, NEW x \in Resets, Reset(x)
  PROVE  Chains'
<1>. DEFINE s == ResetOf[x]
<1>1. /\ UNCHANGED <<arranged, level, attempts, signal, places, given_up>>
      /\ s \in Lanes
      /\ \A l \in Lanes : line'[l] = IF l = s THEN <<>> ELSE line[l]
      /\ \A q \in Runs : phase'[q] = IF Waiting(q, s) THEN PhaseAt(q, level[q]) ELSE phase[q]
  BY RunAssumption DEF Reset, Service!Clear, Lanes, LaneTypes
<1>. HIDE DEF s
<1>2. ASSUME NEW q \in Runs, Waiting(q, s)
      PROVE  Stands(q)' /\ CanTry(q)'
  <2>1. phase[q] = "queued" /\ Stands(q)
    BY <1>1, <1>2, WaitingRuns DEF Chains
  <2>2. level[q] \in Nat /\ signal'[q] \in BOOLEAN /\ signal'[q] = signal[q] /\ level'[q] = level[q]
    BY <1>1 DEF RunTypes
  <2>3. /\ phase'[q] \in {"over", "leaving"}
        /\ phase'[q] = "over" <=> level[q] = IF signal[q] THEN 1 ELSE 0
    BY <1>1, <1>2, <2>2, PhaseAtIs
  <2>. QED
    BY <1>1, <2>1, <2>2, <2>3, PathStays DEF Stands, CanTry, Low
<1>3. \A q \in Runs : Stands(q)' /\ CanTry(q)'
  BY <1>1, <1>2, StandsStays DEF Chains
<1>4. \A q \in Runs : HasItsPlaces(q)'
  BY <1>1, PlacesStay DEF Chains
<1>5. ASSUME NEW l \in Lanes PROVE LinesUp(l)'
  <2>1. CASE l = s
    <3>1. line'[l] = <<>>
      BY <1>1, <2>1
    <3>2. Distinct(line'[l]) /\ \A f : ~Within(f, line'[l])
      BY <3>1 DEF Distinct, Within
    <3>. QED
      BY <3>2 DEF LinesUp
  <2>2. CASE l # s
    <3>1. line'[l] = line[l]
      BY <1>1, <2>2
    <3>2. ASSUME NEW q \in Runs, NEW n \in 1..3, Within(<<q, n>>, line[l])
          PROVE  phase'[q] = "queued" /\ n = level'[q] + 1 /\ n <= Len(Path(q)) /\ l = Path(q)[n]
      <4>1. Waiting(q, l)
        BY <3>2, WaitingIs
      <4>2. ~Waiting(q, s)
        BY <1>1, <2>2, <4>1, WaitingRuns
      <4>3. LinesUp(l)
        BY DEF Chains
      <4>4. phase[q] = "queued" /\ n = level[q] + 1 /\ n <= Len(Path(q)) /\ l = Path(q)[n]
        BY <3>2, <4>3 DEF LinesUp
      <4>. QED
        BY <1>1, <4>2, <4>4
    <3>3. Distinct(line[l])
      BY DEF Chains, LinesUp
    <3>. QED
      BY <1>1, <3>1, <3>2, <3>3, PathStays DEF LinesUp
  <2>. QED
    BY <2>1, <2>2
<1>6. \A t \in Sessions : OnePlace(t)'
  BY <1>1 DEF Chains, OnePlace
<1>. QED
  BY <1>3, <1>4, <1>5, <1>6 DEF Chains

(* A restart makes every place one of an earlier generation.               *)
LEMMA RestartKeepsChains ==
  ASSUME LaneTypes, Chains, Service!Close \/ Service!Restart,
         UNCHANGED <<arranged, phase, level, attempts, signal>>
  PROVE  Chains'
<1>1. line' = line
  BY DEF Service!Close, Service!Restart
<1>2. \A q \in Runs : Stands(q)' /\ CanTry(q)'
  BY StandsStays DEF Chains
<1>3. \A l \in Lanes : LinesUp(l)'
  BY <1>1, PathStays DEF Chains, LinesUp
<1>4. CASE Service!Close
  <2>1. UNCHANGED <<places, given_up>>
    BY <1>4 DEF Service!Close
  <2>2. \A q \in Runs : HasItsPlaces(q)'
    BY <2>1, PlacesStay DEF Chains
  <2>3. \A s \in Sessions : OnePlace(s)'
    BY <2>1 DEF Chains, OnePlace
  <2>. QED
    BY <1>2, <1>3, <2>2, <2>3 DEF Chains
<1>5. CASE Service!Restart
  <2>1. /\ \A l \in Lanes : places'[l] = {}
        /\ \A p : p \in given_up' <=> Held(p)
    BY <1>5 DEF Service!Restart, Held
  <2>2. \A p : Held(p)' <=> Held(p)
    BY <2>1 DEF Held
  <2>3. \A q \in Runs : Low(q)' = Low(q) /\ level'[q] = level[q]
    BY DEF Low
  <2>4. \A q \in Runs : HasItsPlaces(q)'
    BY <2>1, <2>2, <2>3 DEF Chains, HasItsPlaces
  <2>5. \A s \in Sessions : OnePlace(s)'
    BY <2>1 DEF OnePlace, Lanes
  <2>. QED
    BY <1>2, <1>3, <2>4, <2>5 DEF Chains
<1>. QED
  BY <1>4, <1>5

(* Every step keeps the chains of places.                                  *)
LEMMA ChainsStep ==
  ASSUME RunsInv, Next
  PROVE  Chains'
<1>1. LaneTypes /\ RunTypes /\ RegistryTypes /\ Chains
  BY TypesAre DEF RunsInv
<1>2. \A r \in Runs : Stands(r) /\ CanTry(r) /\ Len(Path(r)) \in {2, 3}
  BY <1>1, PathBounds DEF Chains, RunTypes
<1>3. \A r \in Runs : level[r] \in 0..3 /\ signal[r] \in BOOLEAN
  BY <1>1 DEF RunTypes
<1>4. ASSUME NEW r \in Runs, Nest(r) PROVE Chains'
  <2>0. level[r] + 1 \in 1..Len(Path(r))
    BY <1>1, <1>2, <1>4, PathIs, PathBounds DEF Nest, Stands, RunTypes
  <2>1. level[r] + 1 \in 1..Len(Path(r)) /\ phase[r] \in {"new", "job", "turn"}
    BY <1>4, <2>0 DEF Nest
  <2>. QED
    BY <1>1, <1>4, <2>1, AskingKeepsChains DEF Nest
<1>5. ASSUME NEW r \in Runs, Ask(r) PROVE Chains'
  <2>1. 1 \in 1..Len(Path(r)) /\ phase[r] \in {"new", "job", "turn"} /\ 1 = level[r] + 1
    BY <1>2, <1>5 DEF Ask, Stands
  <2>. QED
    BY <1>1, <1>5, <2>1, AskingKeepsChains DEF Ask
<1>6. ASSUME NEW r \in Runs, NEW c \in Runs, Send(r, c) PROVE Chains'
  <2>1. 1 \in 1..Len(Path(c)) /\ phase[c] \in {"new", "job", "turn"} /\ 1 = level[c] + 1
    BY <1>2, <1>6 DEF Send, Stands
  <2>. QED
    BY <1>1, <1>6, <2>1, AskingKeepsChains DEF Send
<1>7. ASSUME NEW l \in Lanes, Enter(l) PROVE Chains'
  BY <1>1, <1>7, EnteringKeepsChains
<1>8. ASSUME NEW r \in Runs, Leave(r) PROVE Chains'
  <2>1. Low(r) <= level[r] /\ level[r] \in 1..3 /\ Low(r) \in {1, 2} /\ phase[r] = "leaving"
    BY <1>2, <1>3, <1>8 DEF Leave, Stands, Low
  <2>2. /\ GiveBack(<<r, level[r]>>)
        /\ signal' = signal /\ UNCHANGED <<arranged, attempts>>
        /\ level' = [level EXCEPT ![r] = @ - 1]
        /\ phase' = [phase EXCEPT ![r] = PhaseAt(r, level[r] - 1)]
    BY <1>8 DEF Leave
  <2>3. /\ \A q \in Runs : q # r => phase'[q] = phase[q] /\ level'[q] = level[q] /\ signal'[q] = signal[q]
        /\ level'[r] = level[r] - 1 /\ phase'[r] = PhaseAt(r, level[r] - 1)
        /\ signal'[r] = signal[r] /\ signal'[r] \in BOOLEAN
    BY <1>1, <1>3, <2>2 DEF RunTypes
  <2>4. /\ phase'[r] \in {"over", "leaving"}
        /\ phase'[r] = "over" <=> level[r] - 1 = IF signal[r] THEN 1 ELSE 0
    BY <2>1, <2>3, PhaseAtIs
  <2>5. Low(r)' = Low(r)
    BY <2>3 DEF Low
  <2>6. Stands(r)' /\ CanTry(r)'
    BY <1>2, <2>1, <2>2, <2>3, <2>4, <2>5, PathStays DEF Stands, CanTry, Low
  <2>7. \A n \in 1..3 : Low(r)' <= n /\ n <= level'[r] <=> Low(r) <= n /\ n <= level[r] /\ n # level[r]
    BY <2>1, <2>3, <2>5
  <2>. QED
    BY <1>1, <2>1, <2>2, <2>3, <2>6, <2>7, GivingBackKeepsChains
<1>9. ASSUME NEW r \in Runs, JobTimesOut(r) PROVE Chains'
  <2>1. /\ Manual(r) /\ ~signal[r] /\ level[r] > 0 /\ GiveBack(<<r, 1>>)
        /\ phase[r] \in {"queued", "setup", "attempt", "leaving"}
        /\ UNCHANGED <<arranged, attempts, level>>
    BY <1>9 DEF JobTimesOut
  <2>2. /\ signal' = [signal EXCEPT ![r] = TRUE]
        /\ phase' = IF phase[r] = "leaving" THEN [phase EXCEPT ![r] = PhaseAt(r, level[r])] ELSE phase
    BY <1>9 DEF JobTimesOut
  <2>3. /\ \A q \in Runs : q # r => phase'[q] = phase[q] /\ level'[q] = level[q] /\ signal'[q] = signal[q]
        /\ signal'[r] = TRUE /\ level'[r] = level[r]
        /\ phase'[r] = IF phase[r] = "leaving" THEN PhaseAt(r, level[r]) ELSE phase[r]
    BY <1>1, <2>1, <2>2 DEF RunTypes
  <2>4. phase[r] = "leaving" => /\ phase'[r] \in {"over", "leaving"}
                                /\ phase'[r] = "over" <=> level[r] = 1
    <3>1. ASSUME phase[r] = "leaving"
          PROVE  phase'[r] \in {"over", "leaving"} /\ (phase'[r] = "over" <=> level[r] = 1)
      <4>1. phase'[r] = PhaseAt(r, level[r]) /\ level[r] \in Nat /\ signal'[r] \in BOOLEAN
        <5>1. phase'[r] = PhaseAt(r, level[r])
          BY <2>3, <3>1
        <5>2. level[r] \in Nat
          BY <1>3
        <5>3. signal'[r] \in BOOLEAN
          BY <2>3
        <5>. QED
          BY <5>1, <5>2, <5>3
      <4>2. /\ PhaseAt(r, level[r]) \in {"over", "leaving"}
            /\ PhaseAt(r, level[r]) = "over" <=> level[r] = IF signal'[r] THEN 1 ELSE 0
        BY <4>1, PhaseAtIs
      <4>. QED
        BY <2>3, <4>1, <4>2
    <3>. QED
      BY <3>1
  <2>5. Low(r) = 1 /\ Low(r)' = 2
    BY <2>1, <2>3 DEF Low
  <2>6. Stands(r)' /\ CanTry(r)'
    BY <1>2, <1>3, <2>1, <2>3, <2>4, <2>5, PathStays DEF Stands, CanTry
  <2>7. \A n \in 1..3 : Low(r)' <= n /\ n <= level'[r] <=> Low(r) <= n /\ n <= level[r] /\ n # 1
    BY <1>3, <2>3, <2>5
  <2>8. phase[r] = "queued" => phase'[r] = "queued" /\ level'[r] = level[r]
    BY <2>3
  <2>9. 1 \in 1..3 /\ GiveBack(<<r, 1>>) /\ UNCHANGED <<arranged, attempts>>
    BY <2>1
  <2>10. \A q \in Runs : q # r => phase'[q] = phase[q] /\ level'[q] = level[q] /\ signal'[q] = signal[q]
    BY <2>3
  <2>. QED
    BY <1>1, <2>6, <2>7, <2>8, <2>9, <2>10, GivingBackKeepsChains
<1>10. ASSUME NEW r \in Runs,
              BeginAttempt(r) \/ SetupFails(r) \/ EndAttempt(r)
       PROVE  Chains'
  <2>1. UNCHANGED <<laneVars, arranged, level, signal>>
    BY <1>10 DEF BeginAttempt, SetupFails, EndAttempt
  <2>2. \A q \in Runs : q # r => phase'[q] = phase[q] /\ attempts'[q] = attempts[q]
    BY <1>1, <1>10 DEF BeginAttempt, SetupFails, EndAttempt, RunTypes
  <2>3. /\ phase[r] \in {"setup", "attempt"} /\ phase'[r] \in {"setup", "attempt", "leaving"}
        /\ phase'[r] = "setup" => attempts'[r] < MaxAttempts
    BY <1>1, <1>10 DEF BeginAttempt, SetupFails, EndAttempt, MayRetry, RunTypes
  <2>4. Stands(r)' /\ CanTry(r)'
    <3>1. level[r] = Len(Path(r)) /\ (signal[r] => Manual(r) /\ level[r] >= 1)
      BY <1>2, <2>3 DEF Stands
    <3>2. Low(r)' = Low(r) /\ Low(r) <= 2 /\ level'[r] = level[r] /\ signal'[r] = signal[r]
      BY <2>1 DEF Low
    <3>3. UNCHANGED arranged
      BY <2>1
    <3>4. Len(Path(r)) >= 2
      BY <1>2
    <3>5. /\ level'[r] <= Len(Path(r)) /\ level'[r] = Len(Path(r)) /\ Low(r)' <= level'[r]
          /\ signal'[r] => Manual(r) /\ level'[r] >= 1
      <4>1. level'[r] = Len(Path(r)) /\ Len(Path(r)) \in {2, 3}
        BY <1>2, <3>1, <3>2
      <4>2. PICK m \in {2, 3} : level'[r] = m /\ Len(Path(r)) = m
        BY <4>1
      <4>3. Low(r)' \in {1, 2}
        BY DEF Low
      <4>4. Low(r)' <= level'[r] /\ level'[r] <= Len(Path(r)) /\ level'[r] >= 1
        BY <4>2, <4>3
      <4>. QED
        BY <3>1, <3>2, <4>1, <4>4
    <3>. QED
      BY <2>3, <3>3, <3>5, PathStays DEF Stands, CanTry
  <2>5. \A q \in Runs : Stands(q)' /\ CanTry(q)'
    BY <1>2, <2>1, <2>2, <2>4, StandsStays
  <2>6. \A q \in Runs : phase[q] = "queued" => phase'[q] = "queued"
    BY <2>2, <2>3
  <2>. QED
    BY <1>1, <2>1, <2>5, <2>6, TurningKeepsChains
<1>11. CASE UNCHANGED <<laneVars, arranged, phase, level, attempts, signal>>
  <2>1. \A q \in Runs : Stands(q)' /\ CanTry(q)'
    BY <1>2, <1>11, StandsStays
  <2>. QED
    BY <1>1, <1>11, <2>1, TurningKeepsChains
<1>12. ASSUME NEW r \in Runs, AttemptTimesOut(r) \/ Answered(r) \/ WaitTimesOut(r) PROVE Chains'
  BY <1>11, <1>12 DEF AttemptTimesOut, Answered, WaitTimesOut
<1>13. ASSUME NEW x \in Resets, ResetTimesOut(x) PROVE Chains'
  BY <1>11, <1>13 DEF ResetTimesOut
<1>14. ASSUME NEW x \in Resets, Reset(x) PROVE Chains'
  BY <1>1, <1>14, ResetKeepsChains
<1>15. CASE Drain \/ Restart
  BY <1>1, <1>15, RestartKeepsChains DEF Drain, Restart
<1>. QED
  BY <1>4, <1>5, <1>6, <1>7, <1>8, <1>9, <1>10, <1>12, <1>13, <1>14, <1>15
     DEF Next, StepOf, TimerOf

-----------------------------------------------------------------------------
(* The registry                                                            *)

(* A step that begins and ends no attempt and asks nothing of the registry *)
(* leaves it true.                                                         *)
LEMMA RegistryStays ==
  ASSUME Aims, RegistryIsTrue, UNCHANGED <<arranged, attempts, registry, resetVars>>,
         \A q \in Runs : phase'[q] = "attempt" => phase[q] = "attempt",
         RegistryTypes
  PROVE  Aims' /\ RegistryIsTrue'
<1>1. /\ \A q : Session(q)' = Session(q)
      /\ UNCHANGED <<active, replaced, reset, target, attempts>>
  BY PathStays DEF registry, resetVars
<1>2. Aims'
  BY <1>1 DEF Aims
<1>3. WorkingIsRegistered' /\ WaitersHaveATurn'
  BY <1>1 DEF RegistryIsTrue, WorkingIsRegistered, WaitersHaveATurn
<1>4. \A x \in Resets : target[x][1] # NoRun => target[x][1] \in Runs
  BY DEF RegistryTypes
<1>5. EndedMeansEnded'
  BY <1>1, <1>4 DEF RegistryIsTrue, EndedMeansEnded
<1>. QED
  BY <1>2, <1>3, <1>5 DEF RegistryIsTrue

(* A turn registers when it begins, and replaces an entry only of its      *)
(* session.                                                                *)
LEMMA BeginningKeepsRegistry ==
  ASSUME RunTypes, RegistryTypes, Aims, RegistryIsTrue, NEW r \in Runs, BeginAttempt(r)
  PROVE  Aims' /\ RegistryIsTrue'
<1>. DEFINE s == Session(r)
<1>1. s \in Sessions /\ r # NoRun
  BY PathIs, RunAssumption DEF RunTypes
<1>2. /\ UNCHANGED <<arranged, reset, target>>
      /\ \A q \in Runs : /\ q # r => phase'[q] = phase[q] /\ attempts'[q] = attempts[q]
                         /\ attempts'[r] = attempts[r] + 1
      /\ \A t \in Sessions : active'[t] = IF t = s THEN r ELSE active[t]
      /\ \A q \in Runs : q # r => (q \in replaced' <=> q \in replaced \/ q = active[s])
  BY <1>1, RunAssumption DEF BeginAttempt, resetVars, RunTypes, RegistryTypes
<1>3. \A q : Session(q)' = Session(q)
  BY <1>2, PathStays
<1>4. \A x \in Resets : /\ target[x][1] # NoRun => target[x][1] \in Runs
                        /\ target[x][2] \in Nat
                        /\ ResetOf[x] \in Sessions
  BY RunAssumption DEF RegistryTypes
<1>5. \A q \in Runs : attempts[q] \in Nat /\ attempts'[q] >= attempts[q] /\ Session(q) \in Sessions
  <2>. TAKE q \in Runs
  <2>1. attempts[q] \in Nat /\ Session(q) \in Sessions
    BY PathIs, RunAssumption DEF RunTypes
  <2>2. attempts'[q] = attempts[q] \/ attempts'[q] = attempts[q] + 1
    BY <1>2
  <2>. QED
    BY <2>1, <2>2
<1>. HIDE DEF s
<1>6. Aims'
  <2>1. ASSUME NEW t \in Sessions, active'[t] # NoRun PROVE Session(active'[t]) = t
    <3>1. CASE t = s
      BY <1>2, <1>3, <3>1 DEF s
    <3>2. CASE t # s
      BY <1>2, <1>3, <2>1, <3>2 DEF Aims
    <3>. QED
      BY <3>1, <3>2
  <2>2. ASSUME NEW x \in Resets, target[x][1] # NoRun
        PROVE  target[x][2] <= attempts'[target[x][1]]
    <3>0. PICK q \in Runs : q = target[x][1]
      BY <1>4, <2>2
    <3>1. target[x][2] <= attempts[target[x][1]]
      BY <2>2 DEF Aims
    <3>. QED
      BY <1>4, <1>5, <1>2, <3>0, <3>1
  <2>3. \A x \in Resets : /\ reset[x] = "idle" => target[x][1] = NoRun
                          /\ target[x][1] # NoRun => Session(target[x][1]) = ResetOf[x]
    BY DEF Aims
  <2>. QED
    BY <1>2, <2>1, <2>2, <2>3 DEF Aims, Session
<1>7. WorkingIsRegistered'
  <2>. SUFFICES ASSUME NEW q \in Runs, phase'[q] = "attempt", active'[Session(q)] # q
                PROVE  q \in replaced'
    BY <1>3 DEF WorkingIsRegistered
  <2>1. q # r
    BY <1>1, <1>2 DEF s
  <2>2. phase[q] = "attempt" /\ Session(q) \in Sessions
    BY <1>2, <1>5, <2>1
  <2>3. active[Session(q)] # q => q \in replaced
    BY <2>2 DEF RegistryIsTrue, WorkingIsRegistered
  <2>4. CASE Session(q) = s
    BY <1>2, <2>1, <2>3, <2>4
  <2>5. CASE Session(q) # s
    BY <1>2, <2>1, <2>2, <2>3, <2>5
  <2>. QED
    BY <2>4, <2>5
<1>8. EndedMeansEnded'
  <2>. SUFFICES ASSUME NEW x \in Resets, reset[x] = "ended", target[x][1] # NoRun
                PROVE  \/ phase'[target[x][1]] # "attempt"
                       \/ attempts'[target[x][1]] > target[x][2]
                       \/ target[x][1] \in replaced'
    BY <1>2 DEF EndedMeansEnded
  <2>1. PICK q \in Runs : q = target[x][1]
    BY <1>4
  <2>2. target[x][2] <= attempts[q] /\ target[x][2] \in Nat /\ attempts[q] \in Nat
    BY <1>4, <1>5, <2>1 DEF Aims
  <2>3. phase[q] # "attempt" \/ attempts[q] > target[x][2] \/ q \in replaced
    BY <2>1 DEF RegistryIsTrue, EndedMeansEnded
  <2>4. CASE q = r
    BY <1>2, <2>1, <2>2, <2>4
  <2>5. CASE q # r
    BY <1>2, <2>1, <2>3, <2>5
  <2>. QED
    BY <2>4, <2>5
<1>9. WaitersHaveATurn'
  BY <1>1, <1>2, <1>4 DEF RegistryIsTrue, WaitersHaveATurn
<1>. QED
  BY <1>6, <1>7, <1>8, <1>9 DEF RegistryIsTrue

(* A turn that ends takes out its own entry, and tells who waits.          *)
LEMMA EndingKeepsRegistry ==
  ASSUME RunTypes, RegistryTypes, Aims, RegistryIsTrue, NEW r \in Runs, EndAttempt(r)
  PROVE  Aims' /\ RegistryIsTrue'
<1>. DEFINE s == Session(r)
<1>1. s \in Sessions /\ r # NoRun
  BY PathIs, RunAssumption DEF RunTypes
<1>2. /\ UNCHANGED <<arranged, attempts, replaced, target>>
      /\ \A q \in Runs : q # r => phase'[q] = phase[q]
      /\ phase'[r] # "attempt"
  BY DEF EndAttempt, RunTypes
<1>3. active[s] = r => /\ \A t \in Sessions : active'[t] = IF t = s THEN NoRun ELSE active[t]
                       /\ \A x \in Resets : reset'[x] = IF ResetOf[x] = s /\ reset[x] = "waiting"
                                                          THEN "ended" ELSE reset[x]
  BY <1>1 DEF EndAttempt, Unregister, RegistryTypes
<1>4. active[s] # r => UNCHANGED <<active, reset>>
  BY DEF EndAttempt, Unregister
<1>5. \A q : Session(q)' = Session(q)
  BY <1>2, PathStays
<1>6. \A x \in Resets : /\ target[x][1] # NoRun => target[x][1] \in Runs
                        /\ ResetOf[x] \in Sessions
  BY RunAssumption DEF RegistryTypes
<1>7. \A q \in Runs : Session(q) \in Sessions
  BY PathIs DEF RunTypes
<1>. HIDE DEF s
<1>8. Aims'
  <2>1. \A t \in Sessions : active'[t] # NoRun => active'[t] = active[t]
    BY <1>3, <1>4
  <2>2. \A x \in Resets : reset'[x] = "idle" => reset[x] = "idle"
    BY <1>3, <1>4
  <2>. QED
    BY <1>2, <1>5, <2>1, <2>2 DEF Aims
<1>9. WorkingIsRegistered'
  <2>. SUFFICES ASSUME NEW q \in Runs, phase'[q] = "attempt", active'[Session(q)] # q
                PROVE  q \in replaced
    BY <1>2, <1>5 DEF WorkingIsRegistered
  <2>1. q # r /\ phase[q] = "attempt" /\ Session(q) \in Sessions
    BY <1>2, <1>7
  <2>2. active[Session(q)] # q
    BY <1>3, <1>4, <2>1
  <2>. QED
    BY <2>1, <2>2 DEF RegistryIsTrue, WorkingIsRegistered
<1>10. EndedMeansEnded'
  <2>. SUFFICES ASSUME NEW x \in Resets, reset'[x] = "ended", target[x][1] # NoRun
                PROVE  \/ phase'[target[x][1]] # "attempt"
                       \/ attempts[target[x][1]] > target[x][2]
                       \/ target[x][1] \in replaced
    BY <1>2 DEF EndedMeansEnded
  <2>1. PICK q \in Runs : q = target[x][1]
    BY <1>6
  <2>2. CASE q = r
    BY <1>2, <2>1, <2>2
  <2>3. CASE q # r /\ reset[x] = "ended"
    <3>1. phase[q] # "attempt" \/ attempts[q] > target[x][2] \/ q \in replaced
      BY <2>1, <2>3 DEF RegistryIsTrue, EndedMeansEnded
    <3>. QED
      BY <1>2, <2>1, <2>3, <3>1
  <2>4. CASE q # r /\ reset[x] # "ended"
    <3>1. active[s] = r /\ ResetOf[x] = s
      BY <1>3, <1>4, <2>4
    <3>2. Session(q) = s
      BY <2>1, <3>1 DEF Aims
    <3>3. phase[q] = "attempt" => q \in replaced
      BY <2>4, <3>1, <3>2 DEF RegistryIsTrue, WorkingIsRegistered
    <3>. QED
      BY <1>2, <2>1, <2>4, <3>3
  <2>. QED
    BY <2>2, <2>3, <2>4
<1>11. WaitersHaveATurn'
  <2>. SUFFICES ASSUME NEW x \in Resets, reset'[x] = "waiting" PROVE active'[ResetOf[x]] # NoRun
    BY DEF WaitersHaveATurn
  <2>1. ResetOf[x] \in Sessions /\ (reset[x] = "waiting" => active[ResetOf[x]] # NoRun)
    BY <1>6 DEF RegistryIsTrue, WaitersHaveATurn
  <2>2. CASE active[s] = r
    BY <1>3, <2>1, <2>2
  <2>3. CASE active[s] # r
    BY <1>4, <2>1, <2>3
  <2>. QED
    BY <2>2, <2>3
<1>. QED
  BY <1>8, <1>9, <1>10, <1>11 DEF RegistryIsTrue

(* A reset waits for the turn that is registered.                          *)
LEMMA ResettingKeepsRegistry ==
  ASSUME LaneTypes, RunTypes, RegistryTypes, Chains, Aims, RegistryIsTrue,
         NEW x \in Resets, Reset(x)
  PROVE  Aims' /\ RegistryIsTrue'
<1>. DEFINE s == ResetOf[x]
<1>1. s \in Sessions /\ s \in Lanes
  BY RunAssumption DEF Lanes
<1>2. /\ UNCHANGED <<arranged, attempts, active, replaced>> /\ reset[x] = "idle"
      /\ \A y \in Resets : reset'[y] = IF y = x THEN IF active[s] = NoRun THEN "ended" ELSE "waiting"
                                       ELSE reset[y]
      /\ active[s] = NoRun => target' = target
      /\ active[s] # NoRun => target' = [target EXCEPT ![x] = <<active[s], attempts[active[s]]>>]
  BY DEF Reset, registry, RegistryTypes
<1>3. \A q \in Runs : phase'[q] = "attempt" => phase[q] = "attempt"
  <2>. TAKE q \in Runs
  <2>1. phase'[q] = IF Waiting(q, s) THEN PhaseAt(q, level[q]) ELSE phase[q]
    BY DEF Reset
  <2>2. PhaseAt(q, level[q]) \in {"over", "leaving"}
    BY DEF PhaseAt
  <2>. QED
    BY <2>1, <2>2
<1>. HIDE DEF s
<1>4. \A q : Session(q)' = Session(q)
  BY <1>2, PathStays
<1>5. active[s] # NoRun =>
        /\ target'[x][1] = active[s] /\ target'[x][2] = attempts[active[s]]
        /\ Session(active[s]) = s /\ active[s] \in Runs /\ attempts[active[s]] \in Nat
  BY <1>1, <1>2, RunAssumption DEF Aims, RegistryTypes, RunTypes
<1>6. \A y \in Resets : y # x => target'[y] = target[y]
  BY <1>2 DEF RegistryTypes
<1>7. \A y \in Resets : /\ target[y][1] # NoRun => target[y][1] \in Runs
                        /\ target[y][2] \in Nat
  BY DEF RegistryTypes
<1>8. Aims'
  <2>1. \A t \in Sessions : active'[t] # NoRun => Session(active'[t]) = t
    BY <1>2 DEF Aims
  <2>2. ASSUME NEW y \in Resets
        PROVE  /\ reset'[y] = "idle" => target'[y][1] = NoRun
               /\ target'[y][1] # NoRun => /\ Session(target'[y][1]) = ResetOf[y]
                                           /\ target'[y][2] <= attempts'[target'[y][1]]
    <3>1. CASE y = x /\ active[s] # NoRun
      <4>1. reset'[y] # "idle"
        BY <1>2, <3>1
      <4>2. Session(target'[y][1]) = ResetOf[y] /\ target'[y][2] <= attempts'[target'[y][1]]
        BY <1>2, <1>5, <3>1 DEF s
      <4>. QED
        BY <4>1, <4>2
    <3>2. CASE y = x /\ active[s] = NoRun
      BY <1>2, <3>2 DEF Aims
    <3>3. CASE y # x
      BY <1>2, <1>6, <3>3 DEF Aims
    <3>. QED
      BY <3>1, <3>2, <3>3
  <2>. QED
    BY <1>2, <2>1, <2>2 DEF Aims, Session
<1>9. WorkingIsRegistered'
  BY <1>2, <1>3, <1>4 DEF RegistryIsTrue, WorkingIsRegistered
<1>10. EndedMeansEnded'
  <2>. SUFFICES ASSUME NEW y \in Resets, reset'[y] = "ended", target'[y][1] # NoRun
                PROVE  \/ phase'[target'[y][1]] # "attempt"
                       \/ attempts[target'[y][1]] > target'[y][2]
                       \/ target'[y][1] \in replaced
    BY <1>2 DEF EndedMeansEnded
  <2>1. y # x
    <3>. SUFFICES ASSUME y = x PROVE FALSE
      OBVIOUS
    <3>1. active[s] = NoRun
      BY <1>2
    <3>. QED
      BY <1>2, <3>1 DEF Aims
  <2>2. reset[y] = "ended" /\ target'[y] = target[y]
    BY <1>2, <1>6, <2>1
  <2>. QED
    BY <1>3, <1>7, <2>2 DEF RegistryIsTrue, EndedMeansEnded
<1>11. WaitersHaveATurn'
  BY <1>2 DEF RegistryIsTrue, WaitersHaveATurn, s
<1>. QED
  BY <1>8, <1>9, <1>10, <1>11 DEF RegistryIsTrue

(* Every step keeps the registry true.                                     *)
LEMMA RegistryStep ==
  ASSUME RunsInv, Next
  PROVE  Aims' /\ RegistryIsTrue'
<1>1. LaneTypes /\ RunTypes /\ RegistryTypes /\ Chains /\ Aims /\ RegistryIsTrue
  BY TypesAre DEF RunsInv
<1>2. \A r \in Runs : \A n : PhaseAt(r, n) # "attempt"
  BY DEF PhaseAt
<1>3. ASSUME NEW r \in Runs, NEW n, AskFor(r, n)
      PROVE  \A q \in Runs : phase'[q] = "attempt" => phase[q] = "attempt"
  BY <1>1, <1>2, <1>3 DEF AskFor, RunTypes
<1>4. ASSUME NEW r \in Runs, Nest(r) \/ Ask(r) \/ Leave(r) \/ SetupFails(r) \/ AttemptTimesOut(r)
                             \/ Answered(r) \/ WaitTimesOut(r) \/ JobTimesOut(r)
      PROVE  Aims' /\ RegistryIsTrue'
  <2>1. UNCHANGED <<arranged, attempts, registry, resetVars>>
    BY <1>4 DEF Nest, Ask, Leave, SetupFails, AttemptTimesOut, Answered, WaitTimesOut, JobTimesOut
  <2>2. \A q \in Runs : phase'[q] = "attempt" => phase[q] = "attempt"
    <3>1. CASE Nest(r) \/ Ask(r)
      BY <1>3, <3>1 DEF Nest, Ask
    <3>2. CASE Leave(r) \/ SetupFails(r) \/ JobTimesOut(r)
      BY <1>1, <1>2, <3>2 DEF Leave, SetupFails, JobTimesOut, RunTypes
    <3>3. CASE AttemptTimesOut(r) \/ Answered(r) \/ WaitTimesOut(r)
      BY <3>3 DEF AttemptTimesOut, Answered, WaitTimesOut
    <3>. QED
      BY <1>4, <3>1, <3>2, <3>3
  <2>. QED
    BY <1>1, <2>1, <2>2, RegistryStays
<1>5. ASSUME NEW r \in Runs, NEW c \in Runs, Send(r, c) PROVE Aims' /\ RegistryIsTrue'
  <2>1. \A q \in Runs : phase'[q] = "attempt" => phase[q] = "attempt"
    BY <1>3, <1>5 DEF Send
  <2>. QED
    BY <1>1, <1>5, <2>1, RegistryStays DEF Send
<1>6. ASSUME NEW l \in Lanes, Enter(l) PROVE Aims' /\ RegistryIsTrue'
  <2>1. \A q \in Runs : phase'[q] = "attempt" => phase[q] = "attempt"
    BY <1>1, <1>6 DEF Enter, RunTypes
  <2>. QED
    BY <1>1, <1>6, <2>1, RegistryStays DEF Enter
<1>7. CASE Drain \/ Restart
  <2>1. UNCHANGED <<arranged, attempts, registry, resetVars, phase>>
    BY <1>7 DEF Drain, Restart
  <2>. QED
    BY <1>1, <2>1, RegistryStays
<1>8. ASSUME NEW x \in Resets, ResetTimesOut(x) PROVE Aims' /\ RegistryIsTrue'
  <2>1. /\ UNCHANGED <<arranged, attempts, active, replaced, target, phase>>
        /\ \A y \in Resets : reset'[y] = reset[y] \/ reset'[y] = "unavailable"
    BY <1>1, <1>8 DEF ResetTimesOut, registry, RegistryTypes
  <2>2. \A q : Session(q)' = Session(q)
    BY <2>1, PathStays
  <2>3. Aims'
    BY <1>1, <2>1, <2>2 DEF Aims
  <2>4. WorkingIsRegistered' /\ EndedMeansEnded' /\ WaitersHaveATurn'
    BY <1>1, <2>1, <2>2 DEF RegistryIsTrue, WorkingIsRegistered, EndedMeansEnded, WaitersHaveATurn
  <2>. QED
    BY <2>3, <2>4 DEF RegistryIsTrue
<1>. QED
  BY <1>1, <1>4, <1>5, <1>6, <1>7, <1>8, BeginningKeepsRegistry, EndingKeepsRegistry,
     ResettingKeepsRegistry DEF Next, StepOf, TimerOf

-----------------------------------------------------------------------------
(* The invariant and what follows from it                                  *)

(* The invariant holds before any run has asked for a place.               *)
LEMMA RunsInvInit ==
  ASSUME Init
  PROVE  RunsInv
<1>1. /\ \A l \in Lanes : line[l] = <<>> /\ places[l] = {}
      /\ \A r \in Runs : /\ phase[r] = "new" /\ level[r] = 0 /\ attempts[r] = 0
                         /\ signal[r] = FALSE
      /\ given_up = {} /\ arranged \in Cases
  BY DEF Init
<1>2. Sessions \subseteq Lanes
  BY DEF Lanes
<1>3. LaneTypes
  BY EmptySeq DEF Init, LaneTypes
<1>4. RunTypes
  BY RunAssumption DEF Init, RunTypes, Phases, Outcomes
<1>5. RegistryTypes
  <2>1. 0 \in 0..MaxAttempts
    BY RunAssumption
  <2>2. target \in [Resets -> (Runs \cup {NoRun}) \X (0..MaxAttempts)]
    BY <2>1 DEF Init
  <2>. QED
    BY <2>2 DEF Init, RegistryTypes
<1>6. ASSUME NEW r \in Runs PROVE Stands(r) /\ HasItsPlaces(r) /\ CanTry(r)
  <2>1. Len(Path(r)) \in {2, 3} /\ Low(r) = 1
    BY <1>1, PathBounds DEF Low
  <2>2. Stands(r) /\ CanTry(r)
    BY <1>1, <2>1 DEF Stands, CanTry
  <2>3. \A n \in 1..3 : ~Held(<<r, n>>)
    BY <1>1 DEF Held
  <2>. QED
    BY <1>1, <2>1, <2>2, <2>3 DEF HasItsPlaces
<1>7. ASSUME NEW l \in Lanes PROVE LinesUp(l)
  <2>1. line[l] = <<>>
    BY <1>1
  <2>2. Distinct(line[l]) /\ \A f : ~Within(f, line[l])
    BY <2>1 DEF Distinct, Within
  <2>. QED
    BY <2>2 DEF LinesUp
<1>8. Chains
  BY <1>1, <1>2, <1>6, <1>7 DEF Chains, OnePlace
<1>9. Aims
  BY DEF Init, Aims
<1>10. RegistryIsTrue
  BY <1>1 DEF Init, RegistryIsTrue, WorkingIsRegistered, EndedMeansEnded, WaitersHaveATurn
<1>. QED
  BY <1>3, <1>4, <1>5, <1>8, <1>9, <1>10, TypesAre DEF RunsInv

(* Every step keeps the invariant.                                         *)
LEMMA RunsInvStep ==
  ASSUME RunsInv, [Next]_vars
  PROVE  RunsInv'
<1>1. CASE Next
  BY <1>1, TypeStep, ChainsStep, RegistryStep DEF RunsInv
<1>2. CASE UNCHANGED vars
  <2>1. UNCHANGED <<laneVars, arranged, phase, level, attempts, signal, registry, resetVars>>
    BY <1>2 DEF vars
  <2>2. LaneTypes /\ RunTypes /\ RegistryTypes /\ Chains /\ Aims /\ RegistryIsTrue
    BY TypesAre DEF RunsInv
  <2>3. TypeOK'
    BY <1>2, <2>2, TypesAreNext DEF vars, laneVars, registry, resetVars,
       LaneTypes, RunTypes, RegistryTypes
  <2>4. Aims' /\ RegistryIsTrue'
    BY <2>1, <2>2, RegistryStays
  <2>5. \A r \in Runs : Stands(r) /\ CanTry(r)
    BY <2>2 DEF Chains
  <2>6. \A r \in Runs : Stands(r)' /\ CanTry(r)'
    BY <2>1, <2>5, StandsStays
  <2>7. Chains'
    BY <2>1, <2>2, <2>6, TurningKeepsChains
  <2>. QED
    BY <2>3, <2>4, <2>7 DEF RunsInv
<1>. QED
  BY <1>1, <1>2

(* In every state the types, the chains of places, the aims of the         *)
(* registry and of the resets and the registry's truth hold together.      *)
THEOREM RunsInvariant == Spec => []RunsInv
<1>1. Init => RunsInv
  BY RunsInvInit
<1>2. RunsInv /\ [Next]_vars => RunsInv'
  BY RunsInvStep
<1>. QED
  BY <1>1, <1>2, PTL DEF Spec, SafeSpec

(* A run in its turn has the place of its session, or had it before a      *)
(* restart.                                                                *)
LEMMA TurnHasItsSession ==
  ASSUME RunsInv, NEW r \in Runs, level[r] = Len(Path(r))
  PROVE  \E m \in 1..3 : /\ m = Len(Path(r)) - 1
                         /\ <<r, m>> \in given_up \/ <<r, m>> \in places[Session(r)]
<1>1. Stands(r) /\ HasItsPlaces(r) /\ arranged \in Cases
  BY DEF RunsInv, Chains, TypeOK
<1>2. PICK m \in 1..2 : /\ Len(Path(r)) = m + 1 /\ Path(r)[m] = Session(r)
                        /\ Manual(r) <=> m = 2
  BY <1>1, PathIs
<1>3. Low(r) <= m /\ m <= level[r]
  BY <1>1, <1>2 DEF Stands, Low
<1>4. Held(<<r, m>>)
  BY <1>1, <1>3 DEF HasItsPlaces
<1>5. \A l \in Lanes : <<r, m>> \in places[l] => l = Session(r)
  BY <1>1, <1>2 DEF HasItsPlaces
<1>6. <<r, m>> \in given_up \/ <<r, m>> \in places[Session(r)]
  BY <1>4, <1>5 DEF Held
<1>. QED
  BY <1>2, <1>6

(* Two turns of a session would hold its only place.                       *)
LEMMA OneTurnAtATime ==
  ASSUME RunsInv
  PROVE  OneTurnPerSession
<1>. SUFFICES ASSUME NEW r \in Runs, NEW q \in Runs, r # q, Session(r) = Session(q),
                     InTurn(r), InTurn(q), ~Ghost(r), ~Ghost(q)
              PROVE  FALSE
  BY DEF OneTurnPerSession
<1>1. level[r] = Len(Path(r)) /\ level[q] = Len(Path(q))
  BY DEF RunsInv, Chains, Stands, InTurn
<1>2. PICK m \in 1..3 : <<r, m>> \in given_up \/ <<r, m>> \in places[Session(r)]
  BY <1>1, TurnHasItsSession
<1>3. PICK n \in 1..3 : <<q, n>> \in given_up \/ <<q, n>> \in places[Session(q)]
  BY <1>1, TurnHasItsSession
<1>4. <<r, m>> \notin given_up /\ <<q, n>> \notin given_up
  BY DEF Ghost
<1>5. <<r, m>> \in places[Session(r)] /\ <<q, n>> \in places[Session(r)]
  BY <1>2, <1>3, <1>4
<1>6. Session(r) \in Sessions
  BY PathIs DEF RunsInv, TypeOK
<1>7. OnePlace(Session(r))
  BY <1>6 DEF RunsInv, Chains
<1>8. <<r, m>> = <<q, n>>
  BY <1>5, <1>7 DEF OnePlace
<1>. QED
  BY <1>8

(* Who waits in a global lane has its session's place.                     *)
LEMMA NoneWasted ==
  ASSUME RunsInv
  PROVE  NoPlaceWasted
<1>. SUFFICES ASSUME NEW r \in Runs, NEW n \in 1..3, NEW l \in GlobalLanes,
                     <<r, n>> \in places[l], ~(Manual(r) /\ n = 1)
              PROVE  \E m \in (1..3) \ {n} : <<r, m>> \in places[Session(r)] \cup given_up
  BY DEF NoPlaceWasted
<1>1. Stands(r) /\ HasItsPlaces(r) /\ arranged \in Cases /\ level[r] \in 0..3
  BY DEF RunsInv, Chains, TypeOK
<1>2. l \in Lanes
  BY DEF Lanes
<1>3. l = Path(r)[n] /\ Low(r) <= n /\ n <= level[r] /\ level[r] <= Len(Path(r))
  BY <1>1, <1>2 DEF HasItsPlaces, Held, Stands
<1>4. Session(r) # l
  BY <1>1, PathIs, LaneAssumption
<1>5. n = Len(Path(r))
  <2>1. CASE Manual(r)
    <3>1. Len(Path(r)) = 3 /\ Path(r)[2] = Session(r)
      BY <1>1, <2>1, PathIs
    <3>2. n # 1 /\ n # 2
      BY <1>3, <1>4, <2>1, <3>1
    <3>. QED
      BY <3>1, <3>2
  <2>2. CASE ~Manual(r)
    <3>1. Len(Path(r)) = 2 /\ Path(r)[1] = Session(r)
      BY <1>1, <2>2, PathIs
    <3>2. n # 1 /\ n <= 2
      BY <1>1, <1>3, <1>4, <3>1
    <3>. QED
      BY <3>1, <3>2
  <2>. QED
    BY <2>1, <2>2
<1>6. level[r] = Len(Path(r))
  BY <1>1, <1>3, <1>5
<1>7. PICK m \in 1..3 : /\ m = Len(Path(r)) - 1
                        /\ <<r, m>> \in given_up \/ <<r, m>> \in places[Session(r)]
  BY <1>6, TurnHasItsSession
<1>8. m # n
  BY <1>5, <1>7
<1>. QED
  BY <1>7, <1>8

(* Who is over holds no place.                                             *)
LEMMA NoneLeftBehind ==
  ASSUME RunsInv
  PROVE  NothingLeftBehind
<1>. SUFFICES ASSUME NEW r \in Runs, phase[r] = "over"
              PROVE  \A n \in 1..3 : ~Held(<<r, n>>) /\ \A l \in Lanes : ~Waiting(r, l)
  BY DEF NothingLeftBehind
<1>1. Stands(r) /\ HasItsPlaces(r) /\ LaneTypes /\ Chains
  BY TypesAre DEF RunsInv, Chains
<1>2. level[r] = Low(r) - 1 /\ Low(r) \in 1..2
  BY <1>1 DEF Stands, Low
<1>3. \A n \in 1..3 : ~Held(<<r, n>>)
  BY <1>1, <1>2 DEF HasItsPlaces
<1>4. \A l \in Lanes : ~Waiting(r, l)
  BY <1>1, WaitingRuns
<1>. QED
  BY <1>3, <1>4

(* Every variable keeps its type: the loop of a run has at most            *)
(* MAX_RUN_LOOP_ITERATIONS rounds, a run has at most three places.         *)
THEOREM TypeCorrect == Spec => []TypeOK
<1>1. RunsInv => TypeOK
  BY DEF RunsInv
<1>. QED
  BY <1>1, RunsInvariant, PTL

(* Two runs of one session never have their turns at once, unless one is   *)
(* from before a restart: for every number of sessions, lanes and places,  *)
(* whatever is drained, reset or out of time (resolveSessionLane and the   *)
(* nesting in runEmbeddedPiAgent).                                         *)
THEOREM OneAtATime == Spec => []OneTurnPerSession
<1>1. RunsInv => OneTurnPerSession
  BY OneTurnAtATime
<1>. QED
  BY <1>1, RunsInvariant, PTL

(* No run blocks a global lane while it waits for its session, and a run   *)
(* that is over has given everything back (the order of the two lanes and  *)
(* the settling of the nested promises in runEmbeddedPiAgent).             *)
THEOREM PlacesUsed == Spec => []PlacesAreUsed
<1>1. RunsInv => PlacesAreUsed
  BY NoneWasted, NoneLeftBehind DEF PlacesAreUsed
<1>. QED
  BY <1>1, RunsInvariant, PTL

(* What the registry of active turns tells is true: who works can be       *)
(* aborted, who is told of an end is told the truth, and nobody waits for  *)
(* a session without a turn (setActiveEmbeddedRun,                         *)
(* clearActiveEmbeddedRun, waitForEmbeddedPiRunEnd).                       *)
THEOREM RegistryTrue == Spec => []RegistryIsTrue
<1>1. RunsInv => RegistryIsTrue
  BY DEF RunsInv
<1>. QED
  BY <1>1, RunsInvariant, PTL
=============================================================================

--------------------------- MODULE EmbeddedRuns ---------------------------
(***************************************************************************)
(* An agent run on its way through the command lanes:                      *)
(*   src/src/agents/pi-embedded-runner/run.ts   the run and its retries    *)
(*   src/src/agents/pi-embedded-runner/runs.ts  which turn is active       *)
(*   src/src/cron/service/ops.ts, timer.ts      jobs that start a run      *)
(*   src/src/agents/tools/sessions-send-tool.ts a turn that starts a run   *)
(*   src/src/gateway/server-methods/sessions.ts reset waits for a turn     *)
(* The lanes are those of LaneService, which CommandQueue implements: a    *)
(* run holds the place of its session while it asks for one in its global  *)
(* lane, so a run is a chain of places, each given back after the next.    *)
(*                                                                         *)
(* A session's key and its id are one here, so the lane of the key and     *)
(* the registry entry of the id belong together.                           *)
(*                                                                         *)
(* A definition X_Mistake is X with a plausible mistake in it; nothing     *)
(* refers to it.                                                           *)
(***************************************************************************)
EXTENDS Naturals, Sequences, FiniteSets

CONSTANTS
  Runs, NoRun,
  Sessions,
  GlobalLanes,      \* the lanes that are not a session's
  CronLane,
  Cases,            \* which session, lane, senders each run has, and what goes wrong
  Limits,           \* how many places each lane has
  Resets, ResetOf,  \* the reset requests and the session each is about
  MaxAttempts,      \* MAX_RUN_LOOP_ITERATIONS
  JobTimeouts       \* whether the jobs have a timeout

NoPlace == <<NoRun, 0>>
Lanes == Sessions \cup GlobalLanes
Tasks == Runs \X (1..3)
Phases == {"new", "queued", "turn", "job", "setup", "attempt", "leaving", "over"}
Faults == {"setup", "failure", "timeout", "restart", "reset"}
Outcomes == {"none", "ok", "error", "aborted", "timeout"}

ASSUME CaseAssumption ==
  \A c \in Cases : c \in [session : [Runs -> Sessions], lane : [Runs -> GlobalLanes],
                          manual : SUBSET Runs, senders : [Runs -> SUBSET Runs],
                          faults : SUBSET Faults]
(* A lane has one place unless setCommandLaneConcurrency gave it more,     *)
(* which it does to lanes for cron, main and subagents only; the loop of a *)
(* run is entered at least once.                                           *)
ASSUME LaneAssumption == /\ CronLane \in GlobalLanes
                         /\ Sessions \cap GlobalLanes = {}
                         /\ Limits \in [Lanes -> Nat \ {0}]
                         /\ \A s \in Sessions : Limits[s] = 1
ASSUME RunAssumption == /\ NoRun \notin Runs
                        /\ ResetOf \in [Resets -> Sessions]
                        /\ MaxAttempts \in Nat \ {0}

VARIABLES
  line, places, given_up, limit, closed,  \* the lanes
  arranged,   \* the case chosen
  phase,      \* how far each run has come
  level,      \* how many places of its chain it was given and has not returned
  attempts,   \* runLoopIterations
  aborted, timedOut,  \* of the current attempt
  signal,     \* the abort signal of a job whose time is over
  outcome,    \* what the caller of the run is told
  waitsFor,   \* the run a turn waits for in its sessions_send
  active,     \* ACTIVE_EMBEDDED_RUNS
  replaced,   \* the turns that lost their entry to another, "run_replaced"
  reset,      \* the reset requests: "idle", "waiting", "ended", "unavailable"
  target,     \* the attempt a reset aborted
  restarted

laneVars == <<line, places, given_up, limit, closed>>
resetVars == <<reset, target>>
registry == <<active, replaced>>
vars == <<laneVars, arranged, phase, level, attempts, aborted, timedOut, signal,
          outcome, waitsFor, registry, resetVars, restarted>>

Service == INSTANCE LaneService WITH LimitBound <- 1

Session(r) == arranged.session[r]
Manual(r) == r \in arranged.manual

(* enqueueRun: a job that was asked for by hand is itself a task of the    *)
(* cron lane.                                                              *)
Outer(r) == IF Manual(r) THEN <<CronLane>> ELSE <<>>

(* The global lane first; no session lane at all.                          *)
Path_GlobalFirst(r) == Outer(r) \o <<arranged.lane[r], Session(r)>>
Path_NoSession(r) == <<arranged.lane[r]>>

(* A run takes a place in its session's lane and then one in its global    *)
(* lane.                                                                   *)
Path(r) == Outer(r) \o <<Session(r), arranged.lane[r]>>

Init ==
  /\ line = [l \in Lanes |-> <<>>]
  /\ places = [l \in Lanes |-> {}]
  /\ given_up = {}
  /\ limit = Limits
  /\ closed = FALSE
  /\ arranged \in Cases
  /\ phase = [r \in Runs |-> "new"]
  /\ level = [r \in Runs |-> 0]
  /\ attempts = [r \in Runs |-> 0]
  /\ aborted = [r \in Runs |-> FALSE]
  /\ timedOut = [r \in Runs |-> FALSE]
  /\ signal = [r \in Runs |-> FALSE]
  /\ outcome = [r \in Runs |-> "none"]
  /\ waitsFor = [r \in Runs |-> NoRun]
  /\ active = [s \in Sessions |-> NoRun]
  /\ replaced = {}
  /\ reset = [x \in Resets |-> "idle"]
  /\ target = [x \in Resets |-> <<NoRun, 0>>]
  /\ restarted = FALSE

(* A task that starts asks for its next lane in the same turn of the event *)
(* loop, so nothing happens in between.                                    *)
Settled == \A r \in Runs : phase[r] # "turn"

(* The levels below this one were given back already.                      *)
Floor(r) == IF signal'[r] THEN 1 ELSE 0
PhaseAt(r, n) == IF n = Floor(r) THEN "over" ELSE "leaving"

Told(r, o) == IF outcome[r] = "none" THEN o ELSE outcome[r]

(* enqueueCommandInLane: refused while the program closes.                 *)
AskFor(r, n) ==
  IF closed
    THEN /\ phase' = [phase EXCEPT ![r] = PhaseAt(r, n - 1)]
         /\ outcome' = [outcome EXCEPT ![r] = Told(r, "error")]
         /\ UNCHANGED laneVars
    ELSE /\ Service!Submit(<<r, n>>, Path(r)[n])
         /\ phase' = [phase EXCEPT ![r] = "queued"]
         /\ UNCHANGED outcome

GiveBack(p) == (\E l \in Lanes : Service!Finish(p, l)) \/ Service!FinishLate(p)

-----------------------------------------------------------------------------
(* The way in.                                                             *)

Ask(r) ==
  /\ phase[r] = "new" /\ arranged.senders[r] = {}
  /\ signal' = signal
  /\ AskFor(r, 1)
  /\ UNCHANGED <<arranged, level, attempts, aborted, timedOut, waitsFor, registry, resetVars,
                 restarted>>

Enter(l) ==
  /\ Service!Start(l)
  /\ LET r == Head(line[l])[1]
         n == Head(line[l])[2]
     IN  /\ level' = [level EXCEPT ![r] = n]
         /\ phase' = [phase EXCEPT ![r] = IF n = Len(Path(r)) THEN "setup"
                                          ELSE IF Manual(r) /\ n = 1 THEN "job"
                                          ELSE "turn"]
  /\ UNCHANGED <<arranged, attempts, aborted, timedOut, signal, outcome, waitsFor, registry,
                 resetVars, restarted>>

(* The session's task asks for the global lane; a job starts its run.      *)
Nest(r) ==
  /\ phase[r] \in {"turn", "job"}
  /\ signal' = signal
  /\ AskFor(r, level[r] + 1)
  /\ UNCHANGED <<arranged, level, attempts, aborted, timedOut, waitsFor, registry, resetVars,
                 restarted>>

-----------------------------------------------------------------------------
(* The turn.                                                               *)

(* setActiveEmbeddedRun: a later turn of the session replaces an earlier.  *)
BeginAttempt(r) ==
  /\ phase[r] = "setup"
  /\ phase' = [phase EXCEPT ![r] = "attempt"]
  /\ attempts' = [attempts EXCEPT ![r] = @ + 1]
  /\ aborted' = [aborted EXCEPT ![r] = signal[r]]
  /\ timedOut' = [timedOut EXCEPT ![r] = signal[r]]
  /\ active' = [active EXCEPT ![Session(r)] = r]
  /\ replaced' = (replaced \ {r}) \cup ({active[Session(r)]} \ {r, NoRun})
  /\ UNCHANGED <<laneVars, arranged, level, signal, outcome, waitsFor, resetVars, restarted>>

(* The model cannot be resolved, a file cannot be locked, ...              *)
SetupFails(r) ==
  /\ "setup" \in arranged.faults /\ phase[r] = "setup"
  /\ phase' = [phase EXCEPT ![r] = "leaving"]
  /\ outcome' = [outcome EXCEPT ![r] = Told(r, "error")]
  /\ UNCHANGED <<laneVars, arranged, level, attempts, aborted, timedOut, signal, waitsFor,
                 registry, resetVars, restarted>>

AttemptTimesOut(r) ==
  /\ "timeout" \in arranged.faults /\ phase[r] = "attempt"
  /\ aborted' = [aborted EXCEPT ![r] = TRUE]
  /\ timedOut' = [timedOut EXCEPT ![r] = TRUE]
  /\ UNCHANGED <<laneVars, arranged, phase, level, attempts, signal, outcome, waitsFor, registry,
                 resetVars, restarted>>

(* Without the comparison of the handle; without the notification.         *)
Unregister_Any(r) ==
  /\ active' = [active EXCEPT ![Session(r)] = NoRun]
  /\ reset' = [x \in Resets |-> IF ResetOf[x] = Session(r) /\ reset[x] = "waiting"
                                  THEN "ended" ELSE reset[x]]
Unregister_Silently(r) ==
  IF active[Session(r)] = r
    THEN active' = [active EXCEPT ![Session(r)] = NoRun] /\ UNCHANGED reset
    ELSE UNCHANGED <<active, reset>>

(* clearActiveEmbeddedRun with notifyEmbeddedRunEnded: only the turn that  *)
(* is registered takes itself off and tells those that wait.               *)
Unregister(r) ==
  IF active[Session(r)] = r
    THEN /\ active' = [active EXCEPT ![Session(r)] = NoRun]
         /\ reset' = [x \in Resets |-> IF ResetOf[x] = Session(r) /\ reset[x] = "waiting"
                                         THEN "ended" ELSE reset[x]]
    ELSE UNCHANGED <<active, reset>>

(* One attempt too many.                                                   *)
MayRetry_OffByOne(r) == (~aborted[r] \/ timedOut[r]) /\ attempts[r] <= MaxAttempts

(* An attempt that was aborted is the run's last, unless its time was over *)
(* too: then the next account is tried.  (A refreshed Copilot token, which *)
(* is not asked whether the attempt was aborted, is left out.)             *)
MayRetry(r) == (~aborted[r] \/ timedOut[r]) /\ attempts[r] < MaxAttempts

Endings(r) ==
  {IF aborted[r] THEN "aborted" ELSE "ok"}
    \cup IF "failure" \in arranged.faults /\ (~aborted[r] \/ timedOut[r]) THEN {"error"} ELSE {}

EndAttempt(r) ==
  /\ phase[r] = "attempt"
  /\ waitsFor[r] = NoRun \/ aborted[r]
  /\ waitsFor' = [waitsFor EXCEPT ![r] = NoRun]
  /\ Unregister(r)
  /\ \/ /\ "failure" \in arranged.faults /\ MayRetry(r)
        /\ phase' = [phase EXCEPT ![r] = "setup"]
        /\ UNCHANGED outcome
     \/ /\ phase' = [phase EXCEPT ![r] = "leaving"]
        /\ \E o \in Endings(r) : outcome' = [outcome EXCEPT ![r] = Told(r, o)]
  /\ UNCHANGED <<laneVars, arranged, level, attempts, aborted, timedOut, signal, replaced,
                 target, restarted>>

-----------------------------------------------------------------------------
(* A turn that sends to another session and waits for the answer.          *)

Send(r, c) ==
  /\ phase[r] = "attempt" /\ ~aborted[r] /\ waitsFor[r] = NoRun
  /\ phase[c] = "new" /\ r \in arranged.senders[c]
  /\ signal' = signal
  /\ AskFor(c, 1)
  /\ waitsFor' = [waitsFor EXCEPT ![r] = c]
  /\ UNCHANGED <<arranged, level, attempts, aborted, timedOut, registry, resetVars, restarted>>

Answered(r) ==
  /\ waitsFor[r] # NoRun /\ phase[waitsFor[r]] = "over"
  /\ waitsFor' = [waitsFor EXCEPT ![r] = NoRun]
  /\ UNCHANGED <<laneVars, arranged, phase, level, attempts, aborted, timedOut, signal, outcome,
                 registry, resetVars, restarted>>

(* agent.wait answers "timeout"; the run that was started goes on.         *)
WaitTimesOut(r) ==
  /\ waitsFor[r] # NoRun
  /\ waitsFor' = [waitsFor EXCEPT ![r] = NoRun]
  /\ UNCHANGED <<laneVars, arranged, phase, level, attempts, aborted, timedOut, signal, outcome,
                 registry, resetVars, restarted>>

-----------------------------------------------------------------------------
(* The way out.                                                            *)

(* The innermost place first; the promise of each settles the next.        *)
Leave(r) ==
  /\ phase[r] = "leaving"
  /\ GiveBack(<<r, level[r]>>)
  /\ signal' = signal
  /\ level' = [level EXCEPT ![r] = @ - 1]
  /\ phase' = [phase EXCEPT ![r] = PhaseAt(r, level[r] - 1)]
  /\ UNCHANGED <<arranged, attempts, aborted, timedOut, outcome, waitsFor, registry, resetVars,
                 restarted>>

(* A race without its timer.                                               *)
JobTimesOut_Never(r) == FALSE /\ UNCHANGED vars

(* The race in executeJobCoreWithTimeout: the job is over and its place in *)
(* the cron lane is free, the run it started goes on and finds its abort   *)
(* signal set.                                                             *)
JobTimesOut(r) ==
  /\ JobTimeouts /\ Manual(r) /\ ~signal[r] /\ level[r] > 0
  /\ phase[r] \in {"queued", "setup", "attempt", "leaving"}
  /\ GiveBack(<<r, 1>>)
  /\ signal' = [signal EXCEPT ![r] = TRUE]
  /\ outcome' = [outcome EXCEPT ![r] = "timeout"]
  /\ aborted' = [aborted EXCEPT ![r] = TRUE]
  /\ timedOut' = [timedOut EXCEPT ![r] = TRUE]
  /\ phase' = IF phase[r] = "leaving" THEN [phase EXCEPT ![r] = PhaseAt(r, level[r])]
              ELSE phase
  /\ UNCHANGED <<arranged, level, attempts, waitsFor, registry, resetVars, restarted>>

-----------------------------------------------------------------------------
(* ensureSessionRuntimeCleanup: what waits in the session's lane is        *)
(* rejected, the registered turn is aborted and waited for.                *)

Waiting(r, l) == \E i \in 1..Len(line[l]) : line[l][i][1] = r

Reset(x) ==
  LET s == ResetOf[x]
  IN  /\ "reset" \in arranged.faults /\ reset[x] = "idle"
      /\ Service!Clear(s)
      /\ signal' = signal
      /\ phase' = [r \in Runs |-> IF Waiting(r, s) THEN PhaseAt(r, level[r]) ELSE phase[r]]
      /\ outcome' = [r \in Runs |-> IF Waiting(r, s) THEN Told(r, "error") ELSE outcome[r]]
      /\ reset' = [reset EXCEPT ![x] = IF active[s] = NoRun THEN "ended" ELSE "waiting"]
      /\ IF active[s] = NoRun
           THEN UNCHANGED <<aborted, target>>
           ELSE /\ aborted' = [aborted EXCEPT ![active[s]] = TRUE]
                /\ target' = [target EXCEPT ![x] = <<active[s], attempts[active[s]]>>]
      /\ UNCHANGED <<arranged, level, attempts, timedOut, waitsFor, registry, restarted>>

ResetTimesOut(x) ==
  /\ reset[x] = "waiting"
  /\ reset' = [reset EXCEPT ![x] = "unavailable"]
  /\ UNCHANGED <<laneVars, arranged, phase, level, attempts, aborted, timedOut, signal, outcome,
                 waitsFor, registry, target, restarted>>

(* markGatewayDraining, and resetAllLanes of the restart that follows.     *)
Drain ==
  /\ "restart" \in arranged.faults /\ ~restarted /\ ~closed
  /\ Service!Close
  /\ UNCHANGED <<arranged, phase, level, attempts, aborted, timedOut, signal, outcome, waitsFor,
                 registry, resetVars, restarted>>

Restart ==
  /\ closed
  /\ Service!Restart
  /\ restarted' = TRUE
  /\ UNCHANGED <<arranged, phase, level, attempts, aborted, timedOut, signal, outcome, waitsFor,
                 registry, resetVars>>

-----------------------------------------------------------------------------
StepOf(r) == Leave(r) \/ BeginAttempt(r) \/ EndAttempt(r) \/ Answered(r)
TimerOf(r) == WaitTimesOut(r) \/ JobTimesOut(r)

Next ==
  \/ \E r \in Runs : Nest(r)
  \/ /\ Settled
     /\ \/ \E r \in Runs : \/ Ask(r) \/ StepOf(r) \/ TimerOf(r)
                           \/ SetupFails(r) \/ AttemptTimesOut(r)
                           \/ \E c \in Runs : Send(r, c)
        \/ \E l \in Lanes : Enter(l)
        \/ \E x \in Resets : Reset(x) \/ ResetTimesOut(x)
        \/ Drain \/ Restart

SafeSpec == Init /\ [][Next]_vars

(* Lanes serve, code that was resumed runs to its end, an attempt ends     *)
(* because its own timer aborts it, and the timers of a wait and of a job  *)
(* fire.                                                                   *)
Spec ==
  /\ SafeSpec
  /\ \A l \in Lanes : WF_vars(Settled /\ Enter(l))
  /\ \A r \in Runs : /\ WF_vars(Nest(r))
                     /\ WF_vars(Settled /\ StepOf(r))
                     /\ WF_vars(Settled /\ WaitTimesOut(r))
                     /\ WF_vars(Settled /\ JobTimesOut(r))

-----------------------------------------------------------------------------
Held(p) == p \in given_up \/ \E l \in Lanes : p \in places[l]
Ghost(r) == \E p \in given_up : p[1] = r
InTurn(r) == phase[r] \in {"setup", "attempt"}

TypeOK ==
  /\ line \in [Lanes -> Seq(Tasks)] /\ places \in [Lanes -> SUBSET Tasks]
  /\ given_up \subseteq Tasks /\ limit = Limits /\ closed \in BOOLEAN
  /\ arranged \in Cases
  /\ phase \in [Runs -> Phases] /\ level \in [Runs -> 0..3]
  /\ attempts \in [Runs -> 0..MaxAttempts]
  /\ aborted \in [Runs -> BOOLEAN] /\ timedOut \in [Runs -> BOOLEAN]
  /\ signal \in [Runs -> BOOLEAN] /\ outcome \in [Runs -> Outcomes]
  /\ waitsFor \in [Runs -> Runs \cup {NoRun}] /\ active \in [Sessions -> Runs \cup {NoRun}]
  /\ replaced \subseteq Runs
  /\ reset \in [Resets -> {"idle", "waiting", "ended", "unavailable"}]
  /\ target \in [Resets -> (Runs \cup {NoRun}) \X (0..MaxAttempts)]
  /\ restarted \in BOOLEAN

(* Two runs of one session take their turns one after the other, whatever  *)
(* their global lanes are, unless one of them is from before a restart     *)
(* (resolveSessionLane and the nesting in runEmbeddedPiAgent).             *)
OneTurnPerSession ==
  \A r, q \in Runs : r # q /\ Session(r) = Session(q) /\ InTurn(r) /\ InTurn(q)
                       => Ghost(r) \/ Ghost(q)

(* A run that occupies one of the few places of a global lane has its      *)
(* session's place already, or had it before a restart: it never blocks    *)
(* others while it waits for its own session (the order of the two lanes   *)
(* in runEmbeddedPiAgent).  The place a job by hand holds for itself is    *)
(* not the run's.                                                          *)
NoPlaceWasted ==
  \A r \in Runs, n \in 1..3, l \in GlobalLanes :
    <<r, n>> \in places[l] /\ ~(Manual(r) /\ n = 1)
      => \E m \in (1..3) \ {n} : <<r, m>> \in places[Session(r)] \cup given_up

(* A run that is over, however it ended (answered, rejected by a reset,    *)
(* refused during a restart, out of time), holds no place and waits in no  *)
(* lane; a lane does not silt up.                                          *)
NothingLeftBehind ==
  \A r \in Runs : phase[r] = "over" =>
    \A n \in 1..3 : ~Held(<<r, n>>) /\ \A l \in Lanes : ~Waiting(r, l)

(* The places of the lanes go to those who use them.                       *)
PlacesAreUsed == NoPlaceWasted /\ NothingLeftBehind

(* A turn that works can be aborted and waited for, unless another turn of *)
(* its session took its entry: the end of some other turn does not take it *)
(* out of sight (clearActiveEmbeddedRun compares the handle).              *)
WorkingIsRegistered ==
  \A r \in Runs : phase[r] = "attempt" /\ active[Session(r)] # r => r \in replaced

(* Who is told that the turn ended is told the truth: the attempt it       *)
(* aborted has ended, or a turn from before a restart took its entry       *)
(* (waitForEmbeddedPiRunEnd, notifyEmbeddedRunEnded).                      *)
EndedMeansEnded ==
  \A x \in Resets : reset[x] = "ended" /\ target[x][1] # NoRun =>
    LET r == target[x][1]
    IN  phase[r] # "attempt" \/ attempts[r] > target[x][2] \/ r \in replaced

(* Nobody waits for a session in which no turn is registered: the answer   *)
(* would only be the timeout (EMBEDDED_RUN_WAITERS).                       *)
WaitersHaveATurn ==
  \A x \in Resets : reset[x] = "waiting" => active[ResetOf[x]] # NoRun

(* What a caller learns from the registry of active turns is true.         *)
RegistryIsTrue == WorkingIsRegistered /\ EndedMeansEnded /\ WaitersHaveATurn

(* Every run that was asked for ends, though runs wait for each other's    *)
(* answers and a job's run waits for the place its job holds: the timers   *)
(* break every circle.                                                     *)
EveryRunEnds == \A r \in Runs : (phase[r] = "queued") ~> (phase[r] = "over")

(* cron/service.issue-regressions.test.ts:1495-1566: manual runs queue     *)
(* behind the cron lane and then succeed.                                  *)
ManualJobsSucceed ==
  \A r \in Runs : (phase[r] = "queued") ~> (phase[r] = "over" /\ outcome[r] = "ok")
=============================================================================

---------------------------- MODULE CronService ----------------------------
(***************************************************************************)
(* The cron service, src/src/cron/service/{ops,timer,jobs,store,locked}.ts *)
(* and src/src/cron/store.ts.                                              *)
(*                                                                         *)
(* A service has the jobs in memory and in a file.  What happens inside    *)
(* locked() is one step: no other section of any service on the file falls *)
(* in between, and a crash before the rename leaves the file as it was.    *)
(* Jobs run outside the lock.  A reload of the configuration stops one     *)
(* service and starts the next; a crash ends all of them.                  *)
(*                                                                         *)
(* Time is coarse: runs and back-offs take whole units, the timer may ring *)
(* at any time (it never sleeps longer than a minute), and 0 is no time.   *)
(* A definition X_Mistake is X with a plausible mistake in it; nothing     *)
(* refers to it.                                                           *)
(***************************************************************************)
EXTENDS Naturals, FiniteSets, Sequences

CONSTANTS
  Jobs,
  Cases,         \* kinds and periods of the jobs, what happens and how often the user acts
  Callers,       \* the calls of cron.run
  MaxServices,   \* how many services are started
  MaxTime,
  Backoff,       \* backoffMs, by the number of errors in a row
  MaxRetries,    \* retry.maxAttempts of jobs that run once
  StuckAfter,    \* STUCK_RUN_MS
  Workers        \* maxConcurrentRuns

Never == 0
Times == 0..MaxTime
Services == 1..MaxServices
Kinds == {"at", "every", "cron"}
Faults == {"crash", "reload", "writeback", "edit", "add", "run", "due", "error"}
Batches == {"start", "tick"}
Outcomes == {"ok", "skipped", "transient", "permanent"}

ASSUME BoundsAssumption == /\ Jobs # {} /\ MaxServices \in Nat \ {0} /\ MaxTime \in Nat \ {0}
                           /\ MaxRetries \in Nat /\ StuckAfter \in Nat
                           /\ Backoff \in Seq(Nat \ {0}) /\ Backoff # <<>>
                           /\ Workers \in Nat \ {0}
ASSUME CaseAssumption ==
  \A c \in Cases : c \in [kind : [Jobs -> Kinds], period : [Jobs -> Nat \ {0}],
                          at : [Jobs -> Nat], keep : SUBSET Jobs, present : SUBSET Jobs,
                          faults : SUBSET Faults, maxEdits : Nat]

VARIABLES
  now,
  arranged,  \* the case chosen
  disk,      \* the jobs in the file
  mem,       \* state.store of each service
  latest,    \* the service the gateway uses
  stage,     \* how far start() of a service has come
  skip,      \* startupInterruptedJobIds
  round,     \* onTimer of a service
  work,      \* the jobs of a start-up and of a tick, and how their runs went
  own,       \* the jobs of the tick are still those in memory
  timer, stopped,
  caller,    \* the calls of cron.run
  copy,      \* what the write-back of a delivery target has read
  edits, wish,   \* how often the user changed something, and what he wants of a job
  unguarded, \* jobs whose running marker was taken off while they ran
  stale,     \* services whose memory is older than the file
  overwritten   \* the file was written from an old copy

serviceVars == <<latest, stage, skip, stopped>>
tickVars == <<round, own>>
userVars == <<edits, wish>>
ghosts == <<unguarded, stale, overwritten>>
vars == <<now, arranged, disk, mem, serviceVars, tickVars, work, timer, caller, copy, userVars,
          ghosts>>

Kind(j) == arranged.kind[j]
Happens(f) == f \in arranged.faults
Later(x, y) == IF x < y THEN y ELSE x

-----------------------------------------------------------------------------
(* One job.                                                                *)

NewJob(j) == [enabled |-> TRUE, at |-> arranged.at[j], next |-> Never, running |-> Never,
              lastRun |-> Never, status |-> "none", errors |-> 0]

Due(job, t) == job.next # Never /\ job.next <= t

(* The next multiple of the period, now included for "every"; the slot     *)
(* before now.                                                             *)
Slot(j, t) == LET p == arranged.period[j]
              IN  IF Kind(j) = "cron" THEN p * (t \div p + 1)
                  ELSE p * Later(1, (t + p - 1) \div p)
SlotBefore(j, t) == LET p == arranged.period[j] IN p * ((t - 1) \div p)

(* A job that ran once is due again.                                       *)
(* computeJobNextRunAtMs                                                   *)
NextRun(j, job, t) ==
  CASE ~job.enabled -> Never
    [] job.enabled /\ Kind(j) = "at" ->
         IF job.status = "ok" /\ job.lastRun # Never /\ job.at <= job.lastRun
           THEN Never ELSE job.at
    [] job.enabled /\ Kind(j) = "every" /\ job.lastRun # Never
         /\ job.lastRun + arranged.period[j] > t -> job.lastRun + arranged.period[j]
    [] OTHER -> Slot(j, t)

(* The slot of a disabled job is left in place.                            *)
AtRest_KeepsNext(job) == [job EXCEPT !.running = Never]

(* What every path makes of a disabled job.                                *)
AtRest(job) == [job EXCEPT !.next = Never, !.running = Never]

(* normalizeJobTickState                                                   *)
Normalized(job, t) ==
  CASE ~job.enabled -> AtRest(job)
    [] job.enabled /\ job.running # Never /\ t > job.running + StuckAfter ->
         [job EXCEPT !.running = Never]
    [] OTHER -> job

Advanced(j, job, t) == [job EXCEPT !.next = NextRun(j, job, t)]

(* recomputeNextRuns                                                       *)
Recomputed(m, t) ==
  [j \in DOMAIN m |-> LET job == Normalized(m[j], t)
                      IN  IF job.enabled /\ (job.next = Never \/ job.next <= t)
                            THEN Advanced(j, job, t) ELSE job]

(* Like recomputeNextRuns.                                                 *)
Maintained_Advances(m, t, expired) == Recomputed(m, t)

(* recomputeNextRunsForMaintenance: a slot that is due is kept unless it   *)
(* was executed.                                                           *)
Maintained(m, t, expired) ==
  [j \in DOMAIN m |->
     LET job == Normalized(m[j], t)
         executed == /\ expired /\ Due(job, t) /\ job.running = Never
                     /\ job.lastRun >= job.next
     IN  IF job.enabled /\ (job.next = Never \/ executed) THEN Advanced(j, job, t) ELSE job]

BackoffOf(errors) == Backoff[IF errors = 0 THEN 1 ELSE
                             IF errors > Len(Backoff) THEN Len(Backoff) ELSE errors]

BackoffPending(j, job, t) == /\ Kind(j) # "at" /\ job.status = "error" /\ job.lastRun # Never
                             /\ t < job.lastRun + BackoffOf(job.errors)

(* isRunnableJob, on a tick and at the start.                              *)
Runnable(job, t) == job.enabled /\ job.running = Never /\ Due(job, t)

Missed(j, job, t) ==
  /\ job.enabled /\ job.running = Never
  /\ IF Kind(j) = "at" /\ job.status # "none"
       THEN job.status = "error" /\ job.next > job.lastRun /\ Due(job, t)
       ELSE \/ Due(job, t)
            \/ /\ ~(job.next > t /\ BackoffPending(j, job, t))
               /\ Kind(j) = "cron" /\ job.lastRun # Never
               /\ SlotBefore(j, t) > job.lastRun

(* The natural next run, though it failed.                                 *)
AfterError_NoBackoff(j, job, t, natural) == [job EXCEPT !.next = natural]

(* The later of the next slot and the end of the back-off.                 *)
AfterError(j, job, t, natural) ==
  [job EXCEPT !.next = Later(natural, t + BackoffOf(job.errors))]

(* applyJobResult: what becomes of the job; a run by hand with "force"     *)
(* keeps the beat of an "every" job.                                       *)
WithResult(j, job, run, force) ==
  LET failed == run.is \in {"transient", "permanent"}
      done == [job EXCEPT !.running = Never, !.lastRun = run.from,
                          !.status = IF failed THEN "error" ELSE run.is,
                          !.errors = IF failed THEN IF @ < Len(Backoff) THEN @ + 1 ELSE @ ELSE 0]
      beat == IF force /\ Kind(j) = "every" THEN [done EXCEPT !.lastRun = job.lastRun] ELSE done
      natural == NextRun(j, beat, run.to)
  IN  CASE Kind(j) = "at" /\ run.is = "transient" /\ done.errors <= MaxRetries ->
             [done EXCEPT !.next = run.to + BackoffOf(done.errors)]
        [] Kind(j) = "at" /\ ~(run.is = "transient" /\ done.errors <= MaxRetries) ->
             [done EXCEPT !.enabled = FALSE, !.next = Never]
        [] Kind(j) # "at" /\ failed /\ done.enabled -> AfterError(j, done, run.to, natural)
        [] OTHER -> [done EXCEPT !.next = IF done.enabled THEN natural ELSE Never]

Deleted(j, run) == Kind(j) = "at" /\ j \notin arranged.keep /\ run.is = "ok"

(* applyOutcomeToStoredJob for all runs of a batch: results of jobs that   *)
(* were removed meanwhile are dropped.                                     *)
WithOutcomes(m, runs) ==
  [j \in DOMAIN m \ {i \in DOMAIN runs : Deleted(i, runs[i])} |->
     IF j \in DOMAIN runs THEN WithResult(j, m[j], runs[j], FALSE) ELSE m[j]]

Mark(m, S, t) == [j \in DOMAIN m |-> IF j \in S THEN [m[j] EXCEPT !.running = t] ELSE m[j]]

-----------------------------------------------------------------------------
NoStore == [j \in {} |-> NewJob(j)]
NoRuns == [j \in {} |-> [is |-> "waiting", from |-> Never, to |-> Never]]
Waiting(S) == [j \in S |-> [is |-> "waiting", from |-> Never, to |-> Never]]
NoCopy == [taken |-> FALSE, jobs |-> NoStore]
NoCall == [stage |-> "idle", service |-> 0, job |-> CHOOSE j \in Jobs : TRUE, force |-> FALSE,
           run |-> [is |-> "waiting", from |-> Never, to |-> Never]]

Init ==
  /\ now = 1
  /\ arranged \in Cases
  /\ disk = [j \in arranged.present |-> Advanced(j, NewJob(j), 0)]
  /\ mem = [s \in Services |-> NoStore]
  /\ latest = 0
  /\ stage = [s \in Services |-> "unborn"]
  /\ skip = [s \in Services |-> {}]
  /\ round = [s \in Services |-> "idle"]
  /\ work = [s \in Services |-> [b \in Batches |-> NoRuns]]
  /\ own = [s \in Services |-> FALSE]
  /\ timer = [s \in Services |-> FALSE]
  /\ stopped = [s \in Services |-> FALSE]
  /\ caller = [c \in Callers |-> NoCall]
  /\ copy = NoCopy
  /\ edits = 0
  /\ wish = [j \in Jobs |-> IF j \in arranged.present THEN "on" ELSE "none"]
  /\ unguarded = {} /\ stale = {}
  /\ overwritten = FALSE

Alive(s) == s # 0 /\ stage[s] \notin {"unborn", "dead"}
Serving(s) == s = latest /\ Alive(s) /\ ~stopped[s]

(* The runs of a job, from its choice until the result is applied.         *)
RunsOf(j) ==
  {x \in Services \X Batches : j \in DOMAIN work[x[1]][x[2]]} \cup
  {<<c, "manual">> : c \in {d \in Callers : /\ caller[d].stage \in {"running", "ended"}
                                            /\ caller[d].job = j}}

(* A slot that has passed sets no timer.                                   *)
Wakes_Ahead(m) == \E j \in DOMAIN m : m[j].enabled /\ m[j].next > now

(* armTimer *)
Wakes(m) == \E j \in DOMAIN m : m[j].enabled /\ m[j].next # Never

(* What a section leaves: the store in memory and in the file.             *)
Stores(s, m) ==
  /\ disk' = m /\ mem' = [mem EXCEPT ![s] = disk']
  /\ stale' = (IF disk' = disk THEN stale ELSE Services) \ {s}

(* A section that reads the file first, and one that trusts its memory.    *)
FromFile(s, m) == Stores(s, m) /\ UNCHANGED overwritten
FromMemory(s, m) == Stores(s, m) /\ overwritten' = (overwritten \/ s \in stale)

(* Jobs whose marker a section takes off though a run of theirs remains:   *)
(* in the file, or in its memory before it looks at it.                    *)
TakenOff(m, n) ==
  {j \in DOMAIN m : m[j].running # Never /\ (j \in DOMAIN n => n[j].running = Never)}
Notices(S) ==
  unguarded' = {j \in Jobs : RunsOf(j)' # {} /\ j \in unguarded \cup TakenOff(disk, disk') \cup S}
Watched == Notices({})

-----------------------------------------------------------------------------
(* start()                                                                 *)

(* The markers a crash left stay.                                          *)
(* "clearing stale running marker on startup"                              *)
Cleared(m) == Mark(m, DOMAIN m, Never)

(* The first section.                                                      *)
Start ==
  LET s == latest + 1
      cleared == Cleared(disk)
  IN  /\ s \in Services
      /\ latest # 0 => stopped[latest] \/ stage[latest] = "dead"
      /\ latest' = s
      /\ FromFile(s, cleared)
      /\ skip' = [skip EXCEPT ![s] = {j \in DOMAIN disk : disk[j].running # Never}]
      /\ stage' = [stage EXCEPT ![s] = "cleared"]
      /\ UNCHANGED <<now, arranged, stopped, tickVars, work, timer, caller, copy, userVars>>
      /\ Watched

(* runMissedJobs, its first section.                                       *)
CollectMissed(s) ==
  LET missed == {j \in DOMAIN mem[s] \ skip[s] : Missed(j, mem[s][j], now)}
  IN  /\ stage[s] = "cleared"
      /\ IF missed = {}
           THEN /\ stage' = [stage EXCEPT ![s] = "checked"]
                /\ UNCHANGED <<mem, disk, work, stale, overwritten>>
           ELSE /\ stage' = [stage EXCEPT ![s] = "catchup"]
                /\ FromMemory(s, Mark(mem[s], missed, now))
                /\ work' = [work EXCEPT ![s]["start"] = Waiting(missed)]
      /\ UNCHANGED <<now, arranged, latest, skip, stopped, tickVars, timer, caller, copy,
                     userVars>>
      /\ Watched

Ended(runs) == \A j \in DOMAIN runs : runs[j].is \in Outcomes

(* runMissedJobs, its last section.                                        *)
ApplyMissed(s) ==
  LET m == WithOutcomes(disk, work[s]["start"])
  IN  /\ stage[s] = "catchup" /\ Ended(work[s]["start"])
      /\ stage' = [stage EXCEPT ![s] = "caughtup"]
      /\ FromFile(s, Maintained(m, now, FALSE))
      /\ work' = [work EXCEPT ![s]["start"] = NoRuns]
      /\ own' = [own EXCEPT ![s] = FALSE]
      /\ UNCHANGED <<now, arranged, latest, skip, stopped, round, timer, caller, copy, userVars>>
      /\ Watched

(* The last section of start().                                            *)
FinishStart(s) ==
  /\ stage[s] \in {"caughtup", "checked"}
  /\ stage' = [stage EXCEPT ![s] = "up"]
  /\ FromFile(s, Recomputed(disk, now))
  /\ timer' = [timer EXCEPT ![s] = Wakes(disk')]
  /\ own' = [own EXCEPT ![s] = FALSE]
  /\ UNCHANGED <<now, arranged, latest, skip, stopped, round, work, caller, copy, userVars>>
  /\ Watched

-----------------------------------------------------------------------------
(* onTimer                                                                 *)

(* The timer is set again at once, whether or not a tick is at work.       *)
Ring(s) ==
  /\ timer[s] /\ Alive(s)
  /\ round[s] = "idle"
  /\ round' = [round EXCEPT ![s] = "called"]
  /\ UNCHANGED <<now, arranged, disk, mem, serviceVars, own, work, timer, caller, copy, userVars,
                 ghosts>>

Collect(s) ==
  LET due == {j \in DOMAIN disk : Runnable(disk[j], now)}
      m == IF due = {} THEN Maintained(disk, now, TRUE) ELSE Mark(disk, due, now)
  IN  /\ round[s] = "called"
      /\ FromFile(s, m)
      /\ round' = [round EXCEPT ![s] = IF due = {} THEN "sweeping" ELSE "working"]
      /\ work' = [work EXCEPT ![s]["tick"] = Waiting(due)]
      /\ own' = [own EXCEPT ![s] = TRUE]
      /\ UNCHANGED <<now, arranged, serviceVars, timer, caller, copy, userVars>>
      /\ Watched

(* A start-up runs the jobs one after the other, a tick has workers.  On a *)
(* tick the marker is set again, in the job the tick holds.                *)
RunStarts(s, b, j) ==
  /\ Alive(s) /\ j \in DOMAIN work[s][b] /\ work[s][b][j].is = "waiting"
  /\ Cardinality({i \in DOMAIN work[s][b] : work[s][b][i].is = "running"})
       < (IF b = "start" THEN 1 ELSE Workers)
  /\ work' = [work EXCEPT ![s][b][j].is = "running", ![s][b][j].from = now]
  /\ mem' = IF b = "tick" /\ own[s] /\ j \in DOMAIN mem[s]
              THEN [mem EXCEPT ![s][j].running = now] ELSE mem
  /\ UNCHANGED <<now, arranged, disk, serviceVars, tickVars, timer, caller, copy, userVars, ghosts>>

Endings == IF Happens("error") THEN Outcomes ELSE {"ok"}

(* executeJobCoreWithTimeout settles: with a result, or as an error when   *)
(* the time is over.                                                       *)
RunEnds(s, b, j) ==
  /\ Alive(s) /\ j \in DOMAIN work[s][b] /\ work[s][b][j].is = "running"
  /\ \E o \in Endings : work' = [work EXCEPT ![s][b][j].is = o, ![s][b][j].to = now]
  /\ UNCHANGED <<now, arranged, disk, mem, serviceVars, tickVars, timer, caller, copy, userVars,
                 ghosts>>

Apply(s) ==
  LET m == WithOutcomes(disk, work[s]["tick"])
  IN  /\ round[s] = "working" /\ Ended(work[s]["tick"])
      /\ round' = [round EXCEPT ![s] = "sweeping"]
      /\ FromFile(s, Maintained(m, now, FALSE))
      /\ work' = [work EXCEPT ![s]["tick"] = NoRuns]
      /\ own' = [own EXCEPT ![s] = FALSE]
      /\ UNCHANGED <<now, arranged, serviceVars, timer, caller, copy, userVars>>
      /\ Watched

(* The end of onTimer, after the session reaper: the timer is set even if  *)
(* the service was stopped during the tick.                                *)
Rearm(s) ==
  /\ round[s] = "sweeping"
  /\ round' = [round EXCEPT ![s] = "idle"]
  /\ timer' = [timer EXCEPT ![s] = Wakes(mem[s])]
  /\ UNCHANGED <<now, arranged, disk, mem, serviceVars, own, work, caller, copy, userVars, ghosts>>

-----------------------------------------------------------------------------
(* run() and enqueueRun().                                                 *)

(* Neither "already-running" nor "not-due".                                *)
MayRun(m, j, force) ==
  j \in DOMAIN m /\ m[j].running = Never /\ (force \/ Runnable(m[j], now))

(* The job is chosen and waits in the cron lane, with the service it was   *)
(* asked of.                                                               *)
EnqueueRun(c, j, force) ==
  LET s == latest
      m == Maintained(mem[s], now, FALSE)
  IN  /\ Happens("run") /\ Serving(s) /\ caller[c].stage = "idle" /\ edits < arranged.maxEdits
      /\ force \/ Happens("due")
      /\ j \in DOMAIN mem[s]
      /\ edits' = edits + 1
      /\ mem' = [mem EXCEPT ![s] = m]
      /\ caller' = IF MayRun(m, j, force)
                     THEN [caller EXCEPT ![c] = [NoCall EXCEPT !.stage = "queued", !.service = s,
                                                               !.job = j, !.force = force]]
                     ELSE caller
      /\ UNCHANGED <<now, arranged, disk, serviceVars, tickVars, work, timer, copy, wish, stale,
                     overwritten>>
      /\ Notices(TakenOff(mem[s], m))

(* The marker is set in memory only.                                       *)
Reserve_MemoryOnly(s, m) ==
  mem' = [mem EXCEPT ![s] = m] /\ UNCHANGED <<disk, stale, overwritten>>

(* "Persist the running marker before releasing lock"                      *)
Reserve(s, m) == FromMemory(s, m)

(* prepareManualRun *)
Prepare(c) ==
  LET s == caller[c].service
      j == caller[c].job
      m == Maintained(mem[s], now, FALSE)
  IN  /\ caller[c].stage = "queued"
      /\ IF MayRun(m, j, caller[c].force)
           THEN /\ Reserve(s, Mark(m, {j}, now))
                /\ caller' = [caller EXCEPT ![c].stage = "running", ![c].run.is = "running",
                                            ![c].run.from = now]
           ELSE /\ mem' = [mem EXCEPT ![s] = m]
                /\ caller' = [caller EXCEPT ![c] = NoCall]
                /\ UNCHANGED <<disk, stale, overwritten>>
      /\ UNCHANGED <<now, arranged, serviceVars, tickVars, work, timer, copy, userVars>>
      /\ Notices(TakenOff(mem[s], m))

ManualRunEnds(c) ==
  /\ caller[c].stage = "running"
  /\ \E o \in Endings : caller' = [caller EXCEPT ![c].stage = "ended", ![c].run.is = o,
                                                 ![c].run.to = now]
  /\ UNCHANGED <<now, arranged, disk, mem, serviceVars, tickVars, work, timer, copy, userVars,
                 ghosts>>

(* The job as it was when the run began comes back.                        *)
Merged_Enabled(m, j, done) == [m EXCEPT ![j] = [done EXCEPT !.at = m[j].at, !.enabled = TRUE]]

(* mergeManualRunSnapshotAfterReload: the state and "enabled" of the job   *)
(* are from memory, everything else is from the file.                      *)
Merged(m, j, done) == [m EXCEPT ![j] = [done EXCEPT !.at = m[j].at]]

(* finishPreparedManualRun *)
FinishManual(c) ==
  LET s == caller[c].service
      j == caller[c].job
      done == WithResult(j, mem[s][j], caller[c].run, caller[c].force)
      m == IF Deleted(j, caller[c].run) THEN [i \in DOMAIN disk \ {j} |-> disk[i]]
           ELSE IF j \in DOMAIN disk THEN Merged(disk, j, done) ELSE disk
  IN  /\ caller[c].stage = "ended"
      /\ caller' = [caller EXCEPT ![c] = NoCall]
      /\ IF j \in DOMAIN mem[s]
           THEN /\ FromMemory(s, Maintained(m, now, TRUE))
                /\ timer' = [timer EXCEPT ![s] = Wakes(disk')]
                /\ own' = [own EXCEPT ![s] = FALSE]
           ELSE UNCHANGED <<mem, disk, timer, own, stale, overwritten>>
      /\ UNCHANGED <<now, arranged, serviceVars, round, work, copy, userVars>>
      /\ Watched

-----------------------------------------------------------------------------
(* add(), update(), remove(), list() and status().                         *)

Edit(s, m, w) ==
  /\ edits < arranged.maxEdits
  /\ edits' = edits + 1
  /\ FromMemory(s, m)
  /\ timer' = [timer EXCEPT ![s] = Wakes(m)]
  /\ wish' = w
  /\ UNCHANGED <<now, arranged, serviceVars, tickVars, work, caller, copy>>
  /\ Watched

Add(j) ==
  /\ Happens("add") /\ Serving(latest) /\ wish[j] = "none"
  /\ LET new == Advanced(j, NewJob(j), now)
         m == [i \in DOMAIN mem[latest] \cup {j} |-> IF i = j THEN new ELSE mem[latest][i]]
     IN  Edit(latest, Recomputed(m, now), [wish EXCEPT ![j] = "on"])

SetEnabled(j, on) ==
  /\ Happens("edit") /\ Serving(latest) /\ j \in DOMAIN mem[latest]
  /\ LET job == [mem[latest][j] EXCEPT !.enabled = on]
         new == IF on THEN Advanced(j, job, now)
                ELSE AtRest(job)
     IN  Edit(latest, [mem[latest] EXCEPT ![j] = new],
              [wish EXCEPT ![j] = IF on THEN "on" ELSE "off"])

Reschedule(j, t) ==
  /\ Happens("edit") /\ Serving(latest) /\ j \in DOMAIN mem[latest] /\ Kind(j) = "at"
  /\ LET job == [mem[latest][j] EXCEPT !.at = t]
         new == IF job.enabled THEN Advanced(j, job, now)
                ELSE AtRest(job)
     IN  Edit(latest, [mem[latest] EXCEPT ![j] = new], wish)

Remove(j) ==
  /\ Happens("edit") /\ Serving(latest) /\ j \in DOMAIN mem[latest]
  /\ Edit(latest, [i \in DOMAIN mem[latest] \ {j} |-> mem[latest][i]], [wish EXCEPT ![j] = "gone"])

(* ensureLoadedForRead: written only if it changed something.              *)
Read ==
  LET m == Maintained(mem[latest], now, FALSE)
  IN  /\ Serving(latest) /\ m # mem[latest]
      /\ FromMemory(latest, m)
      /\ UNCHANGED <<now, arranged, serviceVars, tickVars, work, timer, caller, copy, userVars>>
      /\ Watched

-----------------------------------------------------------------------------
(* What happens to a service.                                              *)

Stop ==
  /\ Happens("reload") /\ Serving(latest)
  /\ stopped' = [stopped EXCEPT ![latest] = TRUE]
  /\ timer' = [timer EXCEPT ![latest] = FALSE]
  /\ UNCHANGED <<now, arranged, disk, mem, latest, stage, skip, tickVars, work, caller, copy,
                 userVars, ghosts>>

Crash ==
  /\ Happens("crash") /\ latest \in 1..(MaxServices - 1) /\ Alive(latest)
  /\ stage' = [s \in Services |-> IF Alive(s) THEN "dead" ELSE stage[s]]
  /\ mem' = [s \in Services |-> NoStore]
  /\ round' = [s \in Services |-> "idle"]
  /\ work' = [s \in Services |-> [b \in Batches |-> NoRuns]]
  /\ own' = [s \in Services |-> FALSE]
  /\ timer' = [s \in Services |-> FALSE]
  /\ skip' = [s \in Services |-> {}]
  /\ caller' = [c \in Callers |-> NoCall]
  /\ copy' = NoCopy
  /\ unguarded' = {} /\ stale' = {}
  /\ UNCHANGED <<now, arranged, disk, latest, stopped, userVars, overwritten>>

(* maybePersistResolvedTelegramTarget reads the file and writes it back,   *)
(* without the lock, during a run that delivers.                           *)
WritebackReads ==
  /\ Happens("writeback") /\ ~copy.taken /\ \E j \in Jobs : RunsOf(j) # {}
  /\ copy' = [taken |-> TRUE, jobs |-> disk]
  /\ UNCHANGED <<now, arranged, disk, mem, serviceVars, tickVars, work, timer, caller, userVars,
                 ghosts>>

WritebackSaves ==
  /\ copy.taken
  /\ disk' = copy.jobs
  /\ copy' = NoCopy
  /\ stale' = IF disk = copy.jobs THEN stale ELSE Services
  /\ overwritten' = (overwritten \/ disk # copy.jobs)
  /\ UNCHANGED <<now, arranged, mem, serviceVars, tickVars, work, timer, caller, userVars,
                 unguarded>>

Pass ==
  /\ now < MaxTime
  /\ now' = now + 1
  /\ UNCHANGED <<arranged, disk, mem, serviceVars, tickVars, work, timer, caller, copy, userVars,
                 ghosts>>

-----------------------------------------------------------------------------
Tick(s) == Collect(s) \/ Apply(s) \/ Rearm(s)
StartUp(s) == CollectMissed(s) \/ ApplyMissed(s) \/ FinishStart(s)
Runs(s) == \E b \in Batches, j \in Jobs : RunStarts(s, b, j) \/ RunEnds(s, b, j)
Manual(c) == Prepare(c) \/ ManualRunEnds(c) \/ FinishManual(c)

Next ==
  \/ Start \/ Stop \/ Crash \/ Read \/ WritebackReads \/ WritebackSaves \/ Pass
  \/ \E s \in Services : StartUp(s) \/ Ring(s) \/ Tick(s) \/ Runs(s)
  \/ \E c \in Callers : \/ Manual(c)
                        \/ \E j \in Jobs, force \in BOOLEAN : EnqueueRun(c, j, force)
  \/ \E j \in Jobs : \/ Add(j) \/ Remove(j)
                     \/ \E on \in BOOLEAN : SetEnabled(j, on)
                     \/ \E t \in (now + 1)..MaxTime : Reschedule(j, t)

(* Sections get the lock, timers ring and runs end (a job has a timeout    *)
(* unless its timeoutSeconds is 0).                                        *)
Spec ==
  /\ Init /\ [][Next]_vars
  /\ \A s \in Services : WF_vars(StartUp(s)) /\ WF_vars(Ring(s) \/ Tick(s)) /\ WF_vars(Runs(s))
  /\ \A c \in Callers : WF_vars(Manual(c))

-----------------------------------------------------------------------------
JobStates == [enabled : BOOLEAN, at : Nat, next : Nat, running : Times, lastRun : Times,
              status : {"none", "ok", "skipped", "error"}, errors : 0..Len(Backoff)]
RunStates == [is : {"waiting", "running"} \cup Outcomes, from : Times, to : Times]
StoreOK(m) == /\ DOMAIN m \subseteq Jobs
              /\ \A j \in DOMAIN m : m[j] \in JobStates /\ (m[j].next # Never => m[j].enabled)

(* The types of the variables; in the file and in every memory a job that  *)
(* is disabled has no next run (#11452).                                   *)
TypeOK ==
  /\ now \in Times /\ latest \in 0..MaxServices
  /\ StoreOK(disk) /\ StoreOK(copy.jobs) /\ \A s \in Services : StoreOK(mem[s])
  /\ stage \in [Services -> {"unborn", "cleared", "checked", "catchup", "caughtup", "up", "dead"}]
  /\ skip \in [Services -> SUBSET Jobs]
  /\ round \in [Services -> {"idle", "called", "working", "sweeping"}]
  /\ \A s \in Services, b \in Batches : \A j \in DOMAIN work[s][b] : work[s][b][j] \in RunStates
  /\ own \in [Services -> BOOLEAN] /\ timer \in [Services -> BOOLEAN]
  /\ stopped \in [Services -> BOOLEAN] /\ unguarded \subseteq Jobs /\ overwritten \in BOOLEAN
  /\ stale \subseteq Services
  /\ caller \in [Callers -> [stage : {"idle", "queued", "running", "ended"},
                             service : 0..MaxServices, job : Jobs, force : BOOLEAN,
                             run : RunStates]]
  /\ edits \in 0..arranged.maxEdits /\ wish \in [Jobs -> {"none", "on", "off", "gone"}]

(* A job has one run at a time, whether a start-up, ticks or calls of      *)
(* cron.run start it ("timer ticks that force-reload from disk cannot      *)
(* start the same job concurrently"), unless its marker was taken off      *)
(* during a run: by disabling it, after STUCK_RUN_MS, or by the start of   *)
(* the next service.                                                       *)
OneRunAtATime == \A j \in Jobs : Cardinality(RunsOf(j)) <= 1 \/ j \in unguarded \/ overwritten

(* A marker in the file belongs to a run whose result will be applied: no  *)
(* sequence of crashes, reloads and edits leaves a job that looks as if it *)
(* were running for two hours (#17554).                                    *)
MarkersHaveRuns ==
  (Alive(latest) /\ ~overwritten) =>
    \A j \in DOMAIN disk : disk[j].running # Never => RunsOf(j) # {}

(* So the markers, by which the code tells what runs, can be relied on.    *)
MarkersMatchRuns == OneRunAtATime /\ MarkersHaveRuns

(* What the user asked for last is what the file says, whatever runs end   *)
(* meanwhile: a disabled job stays disabled, a removed one is gone, and a  *)
(* job that recurs is still there and enabled.                             *)
EditsSurvive ==
  (Alive(latest) /\ ~overwritten) => \A j \in Jobs :
    /\ (wish[j] = "off" /\ j \in DOMAIN disk) => ~disk[j].enabled
    /\ wish[j] = "gone" => j \notin DOMAIN disk
    /\ (wish[j] = "on" /\ Kind(j) # "at") => j \in DOMAIN disk /\ disk[j].enabled

(* The jobs a step chooses to run.                                         *)
Picked == {j \in Jobs : \E s \in Services, b \in Batches :
             j \notin DOMAIN work[s][b] /\ j \in DOMAIN work'[s][b]}

(* A slot that is due is not passed over: it stays in the file until a run *)
(* that began at that time or later is applied, or the user changes the    *)
(* job (#13992, #17852).  The full recomputation of add() and at the end   *)
(* of start() do pass it over.                                             *)
PassesOver(j) ==
  /\ disk[j].enabled /\ disk[j].running = Never /\ Due(disk[j], now) /\ j \in DOMAIN disk'
  /\ disk'[j].next # disk[j].next /\ disk'[j].lastRun < disk[j].next
  /\ edits' = edits /\ j \notin unguarded /\ ~overwritten'
SlotsAreKept ==
  [][\A j \in DOMAIN disk : PassesOver(j) =>
       \E s \in Services : stage'[s] = "up" /\ stage[s] # "up"]_vars

(* The same for a start after a catch-up, of jobs that were not at work    *)
(* when the last service ended: "preserve any new past-due values that *)
(* became due while startup catch-up was running.  They should execute on  *)
(* a future tick instead of being silently advanced" (timer.ts:904).       *)
StartKeepsNewlyDue ==
  [][\A j \in DOMAIN disk : PassesOver(j) =>
       \A s \in Services : stage[s] # "caughtup" \/ stage'[s] # "up" \/ j \in skip[s]]_vars

(* A job that runs once and has succeeded is not chosen again unless it    *)
(* was moved to a later time; and a recurring job that fails is left alone *)
(* until its back-off is over, unless the user has touched a job.  Both    *)
(* hold over restarts, which choose jobs by rules of their own.            *)
OnceMeansOnce(j, job) == Kind(j) = "at" /\ job.status = "ok" => job.lastRun < job.at
BackoffIsKept(j, job) == edits = 0 => ~BackoffPending(j, job, now)
ChosenMayRun ==
  [][\A j \in Picked : ~overwritten => OnceMeansOnce(j, disk'[j]) /\ BackoffIsKept(j, disk'[j])]_vars

(* A due job of a service that serves is run, or somebody changes it.      *)
Neglected(j) ==
  /\ Serving(latest) /\ ~overwritten
  /\ j \in DOMAIN disk /\ disk[j].enabled /\ disk[j].running = Never /\ Due(disk[j], now)
DueJobsRun == \A j \in Jobs : Neglected(j) ~> ~Neglected(j)
=============================================================================

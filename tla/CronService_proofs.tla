------------------------ MODULE CronService_proofs ------------------------
(***************************************************************************)
(* Proofs about the cron service: its types, what becomes of the edits of  *)
(* the user, the running markers, the slots that are due, and the choice   *)
(* of the jobs to run.                                                     *)
(*                                                                         *)
(* The invariant has two halves.  Types says what one job looks like in    *)
(* the file and in every memory.  ServiceInv is about the file, the        *)
(* memories and the runs together, as long as nothing was written from an  *)
(* old copy.                                                               *)
(***************************************************************************)
EXTENDS CronService, FiniteSetTheorems, TLAPS

(* A job that runs once is scheduled after a success only if it was moved  *)
(* past that run.  Upkeep takes the slot from a disabled job.              *)
JobFit(kind, x) ==
  x \in JobStates /\ ((kind = "at" /\ x.status = "ok" /\ x.next # Never) => x.lastRun < x.at)
JobOK(kind, x) == JobFit(kind, x) /\ (x.next # Never => x.enabled)

(* A recurring job that failed is scheduled for the end of its back-off.   *)
Patient(kind, x) ==
  kind # "at" => /\ x.enabled
                 /\ x.status = "error" => /\ x.next # Never
                                          /\ x.lastRun + BackoffOf(x.errors) <= x.next

FitStore(m) == DOMAIN m \subseteq Jobs /\ \A j \in DOMAIN m : JobFit(Kind(j), m[j])
GoodStore(m) == DOMAIN m \subseteq Jobs /\ \A j \in DOMAIN m : JobOK(Kind(j), m[j])
PatientStore(m) == \A j \in DOMAIN m : Patient(Kind(j), m[j])

(* A run is over no earlier than it began, and began no later than now.    *)
RunOK(r, t) == r \in RunStates /\ r.from <= t /\ (r.is \in Outcomes => r.from <= r.to)

CallOK(x, t) ==
  /\ x \in [stage : {"idle", "queued", "running", "ended"}, service : 0..MaxServices, job : Jobs,
            force : BOOLEAN, run : RunStates]
  /\ RunOK(x.run, t)
  /\ x.stage = "ended" => x.run.is \in Outcomes

(* The types, field by field.                                              *)
Stages == {"unborn", "cleared", "checked", "catchup", "caughtup", "up", "dead"}
Rounds == {"idle", "called", "working", "sweeping"}
FlagTypes ==
  /\ now \in Times /\ now # Never /\ arranged \in Cases /\ latest \in 0..MaxServices
  /\ stage \in [Services -> Stages] /\ skip \in [Services -> SUBSET Jobs]
  /\ round \in [Services -> Rounds] /\ own \in [Services -> BOOLEAN]
  /\ timer \in [Services -> BOOLEAN] /\ stopped \in [Services -> BOOLEAN]
  /\ unguarded \subseteq Jobs /\ overwritten \in BOOLEAN /\ stale \subseteq Services
  /\ edits \in 0..arranged.maxEdits /\ wish \in [Jobs -> {"none", "on", "off", "gone"}]
StoreTypes ==
  /\ DOMAIN mem = Services /\ GoodStore(disk) /\ GoodStore(copy.jobs)
  /\ \A s \in Services : GoodStore(mem[s])
WorkTypes ==
  /\ DOMAIN work = Services
  /\ \A s \in Services : DOMAIN work[s] = Batches
  /\ \A s \in Services, b \in Batches :
       /\ DOMAIN work[s][b] \subseteq Jobs
       /\ \A j \in DOMAIN work[s][b] : RunOK(work[s][b][j], now)
CallTypes == DOMAIN caller = Callers /\ \A c \in Callers : CallOK(caller[c], now)
Types == FlagTypes /\ StoreTypes /\ WorkTypes /\ CallTypes

(* As long as the user has touched nothing, every recurring job waits for  *)
(* the end of its back-off, and nobody calls cron.run.                     *)
Undisturbed ==
  edits = 0 => /\ PatientStore(disk) /\ PatientStore(copy.jobs)
               /\ \A s \in Services : PatientStore(mem[s])
               /\ \A c \in Callers : caller[c].stage = "idle"

-----------------------------------------------------------------------------
Up(s) == stage[s] \notin {"unborn", "dead"}

(* Whoever is at work has a service, and the latest one is among those     *)
(* that are at work; batches are where the stages say.                     *)
Attended ==
  /\ \A s \in Services : (Up(s) => Alive(latest)) /\ (s > latest => stage[s] = "unborn")
  /\ \A c \in Callers : caller[c].stage # "idle" => /\ caller[c].service \in Services
                                                    /\ Up(caller[c].service)
  /\ \A s \in Services : /\ stage[s] # "catchup" => DOMAIN work[s]["start"] = {}
                         /\ round[s] # "working" => DOMAIN work[s]["tick"] = {}
                         /\ round[s] # "idle" => Up(s)

AtWork(j) == RunsOf(j) # {}
ByHand(c) == caller[c].stage \in {"running", "ended"}

(* What a memory that is not stale knows of a job.                         *)
Knows(s, j) ==
  /\ mem[s][j].enabled = disk[j].enabled
  /\ disk[j].next # Never => mem[s][j].next = disk[j].next
  /\ mem[s][j].running # Never => disk[j].running # Never \/ j \in DOMAIN work[s]["tick"]
  /\ (~overwritten /\ AtWork(j) /\ j \notin unguarded) => mem[s][j].running # Never
FreshMemories ==
  \A s \in Services \ stale : Up(s) => /\ DOMAIN mem[s] = DOMAIN disk
                                       /\ \A j \in DOMAIN disk : Knows(s, j)

(* What the user wants of a job, and what a store says.                    *)
Honours(w, kind, j, m) ==
  /\ (w = "off" /\ j \in DOMAIN m) => ~m[j].enabled
  /\ w = "gone" => j \notin DOMAIN m
  /\ (w = "on" /\ kind # "at") => j \in DOMAIN m /\ m[j].enabled
  /\ w = "none" => j \notin DOMAIN m
Wishes ==
  ~overwritten => \A j \in Jobs : /\ Honours(wish[j], Kind(j), j, disk)
                                  /\ wish[j] = "none" => ~AtWork(j)

(* A job at work has its marker and one run, unless the marker was taken   *)
(* off; a marker has a run; a job run by hand stays known where it runs.   *)
Lone(j) == \A x, y \in RunsOf(j) : x = y
Guarded == ~overwritten => \A j \in Jobs \ unguarded :
             /\ (AtWork(j) /\ j \in DOMAIN disk) => disk[j].running # Never
             /\ Lone(j)
Marked == (Alive(latest) /\ ~overwritten) =>
            \A j \in DOMAIN disk : disk[j].running # Never => AtWork(j)
KnownByHand == ~overwritten => \A c \in Callers :
  (ByHand(c) /\ caller[c].job \in DOMAIN disk) => caller[c].job \in DOMAIN mem[caller[c].service]

ServiceInv == Attended /\ FreshMemories /\ Wishes /\ Guarded /\ Marked /\ KnownByHand
CronInv == Types /\ Undisturbed /\ ServiceInv

-----------------------------------------------------------------------------
(* What the constants are.                                                 *)
LEMMA Constants ==
  /\ Jobs # {} /\ MaxServices \in Nat \ {0} /\ MaxTime \in Nat \ {0}
  /\ MaxRetries \in Nat /\ StuckAfter \in Nat /\ Len(Backoff) \in Nat \ {0}
  /\ \A n \in 1..Len(Backoff) : Backoff[n] \in Nat \ {0}
BY BoundsAssumption DEF BoundsAssumption

(* Rounding a number down and up to a multiple.                            *)
LEMMA Multiples ==
  ASSUME NEW t \in Nat, NEW p \in Nat \ {0}
  PROVE  /\ p * (t \div p + 1) \in Nat /\ t < p * (t \div p + 1)
         /\ p * ((t + p - 1) \div p) \in Nat /\ t <= p * ((t + p - 1) \div p)
         /\ (t + p - 1) \div p \in Nat
OBVIOUS

-----------------------------------------------------------------------------
(* One job.                                                                *)

(* The kind, the period and the time of a job.                             *)
LEMMA CaseTypes ==
  ASSUME NEW j \in Jobs, arranged \in Cases
  PROVE  /\ Kind(j) \in Kinds /\ arranged.period[j] \in Nat \ {0} /\ arranged.at[j] \in Nat
         /\ arranged.present \subseteq Jobs /\ arranged.maxEdits \in Nat
BY CaseAssumption DEF Kind

(* A back-off takes time.                                                  *)
LEMMA BackoffTakesTime ==
  ASSUME NEW n \in 0..Len(Backoff)
  PROVE  BackoffOf(n) \in Nat \ {0}
BY Constants DEF BackoffOf

(* The next run of a job: never if it is disabled, not before the present  *)
(* for one that recurs, and never for one that succeeded and was not moved.*)
LEMMA NextRunIs ==
  ASSUME arranged \in Cases, NEW j \in Jobs, NEW x \in JobStates, NEW t \in Nat
  PROVE  /\ NextRun(j, x, t) \in Nat
         /\ NextRun(j, x, t) # Never => x.enabled
         /\ (Kind(j) # "at" /\ x.enabled) => t <= NextRun(j, x, t)
         /\ (Kind(j) = "at" /\ x.status = "ok" /\ NextRun(j, x, t) # Never) => x.lastRun < x.at
<1>. DEFINE p == arranged.period[j]
            down == t \div p
            up == (t + p - 1) \div p
<1>1. p \in Nat \ {0} /\ Kind(j) \in Kinds
  BY CaseTypes
<1>2. p * (down + 1) \in Nat /\ t < p * (down + 1) /\ p * up \in Nat /\ t <= p * up /\ up \in Nat
  BY <1>1, Multiples
<1>3. Slot(j, t) = IF Kind(j) = "cron" THEN p * (down + 1) ELSE p * Later(1, up)
  BY DEF Slot
<1>. HIDE DEF p, down, up
<1>4. p * 1 = p /\ t <= p * Later(1, up) /\ p * Later(1, up) \in Nat
  <2>1. CASE 1 < up
    <3>1. Later(1, up) = up
      BY <2>1, <1>2 DEF Later
    <3>2. p * 1 = p
      BY <1>1
    <3>. QED
      BY <3>1, <3>2, <1>2
  <2>2. CASE ~(1 < up)
    <3>1. Later(1, up) = 1 /\ p * 1 = p
      BY <2>2, <1>1 DEF Later
    <3>2. up = 0 \/ up = 1
      BY <2>2, <1>2
    <3>3. CASE up = 0
      BY <3>3, <3>1, <1>1, <1>2
    <3>4. CASE up = 1
      BY <3>4, <3>1, <1>1, <1>2
    <3>. QED
      BY <3>2, <3>3, <3>4
  <2>. QED
    BY <2>1, <2>2, <1>1
<1>5. Slot(j, t) \in Nat /\ t <= Slot(j, t)
  BY <1>2, <1>3, <1>4
<1>6. /\ x.enabled \in BOOLEAN /\ x.at \in Nat /\ x.next \in Nat /\ x.lastRun \in Nat
  BY Constants DEF JobStates, Times
<1>7. CASE ~x.enabled
  BY <1>7, <1>6 DEF NextRun, Never
<1>8. CASE x.enabled /\ Kind(j) = "at"
  <2>1. NextRun(j, x, t) = IF x.status = "ok" /\ x.lastRun # Never /\ x.at <= x.lastRun
                             THEN Never ELSE x.at
    BY <1>8 DEF NextRun
  <2>. QED
    BY <2>1, <1>6, <1>8 DEF Never
<1>9. CASE x.enabled /\ Kind(j) # "at"
  <2>1. \/ NextRun(j, x, t) = x.lastRun + p /\ x.lastRun + p > t
        \/ NextRun(j, x, t) = Slot(j, t)
    BY <1>9 DEF NextRun, p
  <2>. QED
    BY <2>1, <1>5, <1>6, <1>1, <1>9
<1>. QED
  BY <1>6, <1>7, <1>8, <1>9

(* What upkeep does to a job besides scheduling it: at most it takes the   *)
(* marker off.                                                             *)
Tidied(x, y) == /\ y.enabled = x.enabled /\ y.at = x.at /\ y.lastRun = x.lastRun
                /\ y.status = x.status /\ y.errors = x.errors
                /\ y.running = x.running \/ y.running = Never

(* computeJobNextRunAtMs puts any job where it belongs, and does not       *)
(* cut a back-off short if the slot before is over.                        *)
LEMMA AdvancedJob ==
  ASSUME arranged \in Cases, NEW j \in Jobs, NEW x \in JobStates, NEW t \in Nat
  PROVE  /\ JobOK(Kind(j), Advanced(j, x, t))
         /\ Tidied(x, Advanced(j, x, t)) /\ Advanced(j, x, t).running = x.running
         /\ (Patient(Kind(j), x) /\ (x.status = "error" => x.next <= t))
               => Patient(Kind(j), Advanced(j, x, t))
<1>. DEFINE n == NextRun(j, x, t)
            y == Advanced(j, x, t)
<1>1. x \in JobStates
  OBVIOUS
<1>2. /\ n \in Nat /\ (n # Never => x.enabled) /\ ((Kind(j) # "at" /\ x.enabled) => t <= n)
      /\ (Kind(j) = "at" /\ x.status = "ok" /\ n # Never) => x.lastRun < x.at
  BY <1>1, NextRunIs
<1>3. y = [x EXCEPT !.next = n]
  BY DEF Advanced
<1>. HIDE DEF n, y
<1>4. /\ y \in JobStates /\ y.next = n /\ y.running = x.running /\ y.enabled = x.enabled
      /\ y.at = x.at /\ y.lastRun = x.lastRun /\ y.status = x.status /\ y.errors = x.errors
  BY <1>1, <1>2, <1>3 DEF JobStates
<1>5. JobOK(Kind(j), y)
  BY <1>2, <1>4 DEF JobOK, JobFit
<1>6. ASSUME Patient(Kind(j), x), x.status = "error" => x.next <= t
      PROVE  Patient(Kind(j), y)
  <2>1. x.lastRun \in Nat /\ x.next \in Nat /\ BackoffOf(x.errors) \in Nat \ {0}
    BY <1>1, BackoffTakesTime, Constants DEF JobStates, Times
  <2>. QED
    BY <1>2, <1>4, <1>6, <2>1 DEF Patient, Never
<1>. QED
  BY <1>4, <1>5, <1>6 DEF Tidied, y

(* normalizeJobTickState leaves the slot of an enabled job alone.          *)
LEMMA NormalizedJob ==
  ASSUME NEW kind, NEW x, JobFit(kind, x), NEW t \in Nat
  PROVE  /\ JobOK(kind, Normalized(x, t)) /\ Tidied(x, Normalized(x, t))
         /\ x.enabled => Normalized(x, t).next = x.next
         /\ Patient(kind, x) => Patient(kind, Normalized(x, t))
         /\ x.running = Never => Normalized(x, t).running = Never
         /\ ~x.enabled => Normalized(x, t).running = Never
<1>. DEFINE y == Normalized(x, t)
<1>1. x \in JobStates /\ x.enabled \in BOOLEAN /\ Never \in Times /\ Never \in Nat
  BY Constants DEF JobOK, JobFit, JobStates, Never, Times
<1>2. CASE ~x.enabled
  <2>1. y = [x EXCEPT !.next = Never, !.running = Never]
    BY <1>2 DEF Normalized, AtRest
  <2>. HIDE DEF y
  <2>2. /\ y \in JobStates /\ y.next = Never /\ y.running = Never /\ y.enabled = x.enabled
        /\ y.at = x.at /\ y.lastRun = x.lastRun /\ y.status = x.status /\ y.errors = x.errors
    BY <2>1, <1>1 DEF JobStates
  <2>3. JobOK(kind, y) /\ Tidied(x, y) /\ (Patient(kind, x) => Patient(kind, y))
    BY <2>2, <1>2 DEF JobOK, JobFit, Tidied, Patient
  <2>. QED
    BY <2>2, <2>3, <1>2 DEF y
<1>3. CASE x.enabled /\ x.running # Never /\ t > x.running + StuckAfter
  <2>1. y = [x EXCEPT !.running = Never]
    BY <1>3 DEF Normalized
  <2>. HIDE DEF y
  <2>2. /\ y \in JobStates /\ y.next = x.next /\ y.running = Never /\ y.enabled = x.enabled
        /\ y.at = x.at /\ y.lastRun = x.lastRun /\ y.status = x.status /\ y.errors = x.errors
    BY <2>1, <1>1 DEF JobStates
  <2>3. JobOK(kind, y) /\ Tidied(x, y) /\ (Patient(kind, x) => Patient(kind, y))
    BY <2>2, <1>3 DEF JobOK, JobFit, Tidied, Patient
  <2>. QED
    BY <2>2, <2>3, <1>3 DEF y
<1>4. CASE x.enabled /\ ~(x.running # Never /\ t > x.running + StuckAfter)
  <2>1. y = x
    BY <1>4 DEF Normalized
  <2>. QED
    BY <2>1, <1>4 DEF Tidied, JobOK
<1>. QED
  BY <1>1, <1>2, <1>3, <1>4

(* applyJobResult takes the marker off, enables nothing, disables only a   *)
(* job that runs once, and puts a recurring job that failed off until the  *)
(* end of its back-off.                                                    *)
LEMMA WithResultJob ==
  ASSUME arranged \in Cases, NEW j \in Jobs, NEW x, JobFit(Kind(j), x), NEW t \in Times,
         NEW r, RunOK(r, t), r.is \in Outcomes, NEW force \in BOOLEAN
  PROVE  /\ JobFit(Kind(j), WithResult(j, x, r, force))
         /\ WithResult(j, x, r, force).running = Never
         /\ WithResult(j, x, r, force).enabled => x.enabled
         /\ Kind(j) # "at" => WithResult(j, x, r, force).enabled = x.enabled
         /\ Patient(Kind(j), x) => Patient(Kind(j), WithResult(j, x, r, force))
         /\ Kind(j) = "at" => \/ WithResult(j, x, r, force).next = Never
                              \/ WithResult(j, x, r, force).status = "error"
<1>. DEFINE failed == r.is \in {"transient", "permanent"}
            errs == IF failed THEN IF x.errors < Len(Backoff) THEN x.errors + 1 ELSE x.errors ELSE 0
            stat == IF failed THEN "error" ELSE r.is
            done == [x EXCEPT !.running = Never, !.lastRun = r.from, !.status = stat,
                              !.errors = errs]
            beat == IF force /\ Kind(j) = "every" THEN [done EXCEPT !.lastRun = x.lastRun] ELSE done
            natural == NextRun(j, beat, r.to)
            retry == Kind(j) = "at" /\ r.is = "transient" /\ done.errors <= MaxRetries
            y == WithResult(j, x, r, force)
<1>1. /\ x \in JobStates /\ r.from \in Times /\ r.to \in Times /\ r.to \in Nat /\ r.from <= r.to
      /\ Never \in Times /\ Never = 0 /\ r.from \in Nat /\ x.enabled \in BOOLEAN
      /\ x.errors \in 0..Len(Backoff) /\ x.lastRun \in Times
  BY Constants DEF JobFit, JobStates, RunOK, RunStates, Never, Times
<1>2. errs \in 0..Len(Backoff)
  BY <1>1, Constants
<1>3. stat \in {"ok", "skipped", "error"} /\ (failed => stat = "error") /\ (~failed => stat # "error")
  BY DEF Outcomes
<1>. HIDE DEF errs, stat
<1>4. /\ done \in JobStates /\ done.enabled = x.enabled /\ done.next = x.next /\ done.at = x.at
      /\ done.running = Never /\ done.lastRun = r.from /\ done.status = stat /\ done.errors = errs
  BY <1>1, <1>2, <1>3 DEF JobStates
<1>5. beat \in JobStates /\ beat.enabled = x.enabled
  BY <1>1, <1>4 DEF JobStates
<1>6. /\ natural \in Nat /\ (natural # Never => x.enabled)
  BY <1>1, <1>5, NextRunIs
<1>7. BackoffOf(errs) \in Nat \ {0}
  BY <1>2, BackoffTakesTime
<1>8. /\ retry => y = [done EXCEPT !.next = r.to + BackoffOf(done.errors)]
      /\ (Kind(j) = "at" /\ ~retry) => y = [done EXCEPT !.enabled = FALSE, !.next = Never]
      /\ (Kind(j) # "at" /\ failed /\ done.enabled) => y = AfterError(j, done, r.to, natural)
      /\ (Kind(j) # "at" /\ ~(failed /\ done.enabled)) =>
            y = [done EXCEPT !.next = IF done.enabled THEN natural ELSE Never]
  BY Zenon DEF WithResult, errs, stat
<1>. HIDE DEF done, beat, natural, retry, y
<1>9. CASE retry
  <2>1. y = [done EXCEPT !.next = r.to + BackoffOf(errs)]
    BY <1>9, <1>8, <1>4
  <2>2. /\ y \in JobStates /\ y.enabled = x.enabled /\ y.running = Never /\ y.status = "error"
        /\ Kind(j) = "at"
    BY <2>1, <1>1, <1>3, <1>4, <1>7, <1>9 DEF JobStates, retry
  <2>. QED
    BY <2>2 DEF JobFit, Patient, y
<1>10. CASE Kind(j) = "at" /\ ~retry
  <2>1. PICK no \in BOOLEAN : no = FALSE
    OBVIOUS
  <2>3. y = [done EXCEPT !.enabled = no, !.next = Never]
    BY <1>10, <1>8, <2>1
  <2>2. /\ y \in JobStates /\ y.enabled = no /\ y.running = Never /\ y.next = Never
    <3>. DEFINE z == [done EXCEPT !.next = Never]
    <3>1. z \in JobStates /\ z.next = Never /\ z.running = Never
      BY <1>1, <1>4 DEF JobStates
    <3>2. y = [z EXCEPT !.enabled = no]
      BY <2>3, <1>4 DEF JobStates
    <3>. HIDE DEF z
    <3>. QED
      BY <3>1, <3>2 DEF JobStates
  <2>. QED
    BY <2>1, <2>2, <1>10 DEF JobFit, Patient, y
<1>11. CASE Kind(j) # "at" /\ failed /\ done.enabled
  <2>. DEFINE n == Later(natural, r.to + BackoffOf(errs))
  <2>1. n \in Nat /\ n # Never /\ r.from + BackoffOf(errs) <= n
    BY <1>1, <1>6, <1>7 DEF Later
  <2>. HIDE DEF n
  <2>2. y = [done EXCEPT !.next = n]
    BY <1>11, <1>8, <1>4 DEF AfterError, n
  <2>3. /\ y \in JobStates /\ y.enabled = x.enabled /\ y.running = Never /\ y.next = n
        /\ y.lastRun = r.from /\ y.errors = errs /\ x.enabled
    BY <2>1, <2>2, <1>1, <1>4, <1>11 DEF JobStates
  <2>. QED
    BY <2>1, <2>3, <1>11 DEF JobFit, Patient, y
<1>12. CASE Kind(j) # "at" /\ ~(failed /\ done.enabled)
  <2>. DEFINE n == IF done.enabled THEN natural ELSE Never
  <2>1. n \in Nat /\ (n # Never => x.enabled)
    BY <1>1, <1>4, <1>6
  <2>2. y = [done EXCEPT !.next = n]
    BY <1>12, <1>8
  <2>. HIDE DEF n
  <2>3. /\ y \in JobStates /\ y.enabled = x.enabled /\ y.running = Never /\ y.next = n
        /\ y.status = stat
    BY <2>1, <2>2, <1>1, <1>4 DEF JobStates
  <2>4. Patient(Kind(j), x) => Patient(Kind(j), y)
    BY <2>3, <1>12, <1>3, <1>4 DEF Patient
  <2>. QED
    BY <2>1, <2>3, <2>4, <1>12 DEF JobFit, y
<1>. QED
  BY <1>9, <1>10, <1>11, <1>12 DEF retry

-----------------------------------------------------------------------------
(* A store.                                                                *)

(* Upkeep keeps the jobs, and of each all but its slot and its marker.     *)
Tended(m, n) ==
  /\ DOMAIN n = DOMAIN m
  /\ \A j \in DOMAIN m : /\ Tidied(m[j], n[j])
                         /\ ~m[j].enabled => n[j].running = Never

(* Normalize, then advance or not: for any reason to advance.              *)
LEMMA TendedJob ==
  ASSUME arranged \in Cases, NEW j \in Jobs, NEW x, JobFit(Kind(j), x), NEW t \in Nat,
         NEW advance \in BOOLEAN, NEW y,
         y = IF advance THEN Advanced(j, Normalized(x, t), t) ELSE Normalized(x, t)
  PROVE  /\ JobOK(Kind(j), y) /\ Tidied(x, y) /\ (~x.enabled => y.running = Never)
         /\ (~advance /\ x.enabled) => y.next = x.next
         /\ (Patient(Kind(j), x)
              /\ (advance => (Normalized(x, t).status = "error" => Normalized(x, t).next <= t)))
            => Patient(Kind(j), y)
<1>. DEFINE z == Normalized(x, t)
<1>1. /\ JobOK(Kind(j), z) /\ Tidied(x, z) /\ (x.enabled => z.next = x.next)
      /\ Patient(Kind(j), x) => Patient(Kind(j), z)
      /\ (x.running = Never => z.running = Never) /\ (~x.enabled => z.running = Never)
  BY NormalizedJob
<1>2. z \in JobStates
  BY <1>1 DEF JobOK, JobFit
<1>. HIDE DEF z
<1>3. /\ JobOK(Kind(j), Advanced(j, z, t)) /\ Tidied(z, Advanced(j, z, t))
      /\ Advanced(j, z, t).running = z.running
      /\ (Patient(Kind(j), z) /\ (z.status = "error" => z.next <= t))
           => Patient(Kind(j), Advanced(j, z, t))
  BY <1>2, AdvancedJob
<1>4. CASE advance
  <2>1. y = Advanced(j, z, t)
    BY <1>4 DEF z
  <2>2. JobOK(Kind(j), y) /\ Tidied(x, y) /\ (~x.enabled => y.running = Never)
    BY <1>1, <1>3, <2>1 DEF Tidied
  <2>. QED
    BY <2>1, <2>2, <1>1, <1>3, <1>4 DEF z
<1>5. CASE ~advance
  <2>1. y = z
    BY <1>5 DEF z
  <2>. QED
    BY <2>1, <1>1, <1>5
<1>. QED
  BY <1>4, <1>5

(* recomputeNextRuns                                                       *)
LEMMA RecomputedStore ==
  ASSUME arranged \in Cases, NEW m, FitStore(m), NEW t \in Nat
  PROVE  /\ GoodStore(Recomputed(m, t)) /\ Tended(m, Recomputed(m, t))
         /\ PatientStore(m) => PatientStore(Recomputed(m, t))
<1>. DEFINE n == Recomputed(m, t)
            z(j) == Normalized(m[j], t)
            advance(j) == z(j).enabled /\ (z(j).next = Never \/ z(j).next <= t)
<1>1. DOMAIN n = DOMAIN m
  BY DEF Recomputed
<1>2. ASSUME NEW j \in DOMAIN m
      PROVE  /\ JobOK(Kind(j), n[j]) /\ Tidied(m[j], n[j])
             /\ ~m[j].enabled => n[j].running = Never
             /\ Patient(Kind(j), m[j]) => Patient(Kind(j), n[j])
  <2>1. n[j] = IF advance(j) THEN Advanced(j, z(j), t) ELSE z(j)
    BY Zenon DEF Recomputed
  <2>2. PICK a \in BOOLEAN : a <=> advance(j)
    OBVIOUS
  <2>3. n[j] = IF a THEN Advanced(j, z(j), t) ELSE z(j)
    BY Zenon, <2>1, <2>2
  <2>4. JobFit(Kind(j), m[j]) /\ j \in Jobs
    BY DEF FitStore
  <2>5. /\ JobOK(Kind(j), n[j]) /\ Tidied(m[j], n[j]) /\ (~m[j].enabled => n[j].running = Never)
        /\ (Patient(Kind(j), m[j]) /\ (a => (z(j).status = "error" => z(j).next <= t)))
              => Patient(Kind(j), n[j])
    <3>. HIDE DEF n, advance
    <3>. QED
      BY <2>3, <2>4, TendedJob
  <2>6. Patient(Kind(j), m[j]) => Patient(Kind(j), z(j))
    BY <2>4, NormalizedJob
  <2>7. /\ JobOK(Kind(j), z(j)) /\ z(j) \in JobStates
    BY <2>4, NormalizedJob DEF JobOK, JobFit
  <2>8. ASSUME Patient(Kind(j), m[j]) PROVE Patient(Kind(j), n[j])
    <3>1. CASE a /\ z(j).status = "error" /\ Kind(j) # "at"
      <4>1. z(j).next # Never
        BY <3>1, <2>6, <2>8 DEF Patient
      <4>2. z(j).next <= t
        BY <4>1, <3>1, <2>2
      <4>. QED
        BY <4>2, <2>5, <2>8
    <3>2. CASE ~(a /\ z(j).status = "error")
      BY <3>2, <2>5, <2>8
    <3>3. CASE Kind(j) = "at"
      BY <3>3 DEF Patient
    <3>. QED
      BY <3>1, <3>2, <3>3
  <2>. QED
    BY <2>5, <2>8
<1>. QED
  BY <1>1, <1>2 DEF GoodStore, FitStore, Tended, PatientStore

(* recomputeNextRunsForMaintenance keeps the slots of enabled jobs, except *)
(* those that were executed if it is asked to.                             *)
LEMMA MaintainedStore ==
  ASSUME arranged \in Cases, NEW m, FitStore(m), NEW t \in Nat, NEW e \in BOOLEAN
  PROVE  /\ GoodStore(Maintained(m, t, e)) /\ Tended(m, Maintained(m, t, e))
         /\ PatientStore(m) => PatientStore(Maintained(m, t, e))
         /\ \A j \in DOMAIN m :
              /\ m[j].enabled /\ m[j].next # Never
              /\ ~e \/ m[j].lastRun < m[j].next
              => Maintained(m, t, e)[j].next = m[j].next
<1>. DEFINE n == Maintained(m, t, e)
            z(j) == Normalized(m[j], t)
            executed(j) == /\ e /\ Due(z(j), t) /\ z(j).running = Never /\ z(j).lastRun >= z(j).next
            advance(j) == z(j).enabled /\ (z(j).next = Never \/ executed(j))
<1>1. DOMAIN n = DOMAIN m
  BY DEF Maintained
<1>2. ASSUME NEW j \in DOMAIN m
      PROVE  /\ JobOK(Kind(j), n[j]) /\ Tidied(m[j], n[j])
             /\ ~m[j].enabled => n[j].running = Never
             /\ Patient(Kind(j), m[j]) => Patient(Kind(j), n[j])
             /\ (m[j].enabled /\ m[j].next # Never /\ (~e \/ m[j].lastRun < m[j].next))
                   => n[j].next = m[j].next
  <2>1. n[j] = IF advance(j) THEN Advanced(j, z(j), t) ELSE z(j)
    BY Zenon DEF Maintained
  <2>2. PICK a \in BOOLEAN : a <=> advance(j)
    OBVIOUS
  <2>3. n[j] = IF a THEN Advanced(j, z(j), t) ELSE z(j)
    BY Zenon, <2>1, <2>2
  <2>4. JobFit(Kind(j), m[j]) /\ j \in Jobs /\ m[j].lastRun \in Nat /\ m[j].next \in Nat
    BY Constants DEF FitStore, JobFit, JobStates, Times
  <2>5. /\ JobOK(Kind(j), n[j]) /\ Tidied(m[j], n[j]) /\ (~m[j].enabled => n[j].running = Never)
        /\ (~a /\ m[j].enabled) => n[j].next = m[j].next
        /\ (Patient(Kind(j), m[j]) /\ (a => (z(j).status = "error" => z(j).next <= t)))
              => Patient(Kind(j), n[j])
    <3>. HIDE DEF n, advance
    <3>. QED
      BY <2>3, <2>4, TendedJob
  <2>6. /\ Patient(Kind(j), m[j]) => Patient(Kind(j), z(j))
        /\ JobFit(Kind(j), z(j)) /\ Tidied(m[j], z(j)) /\ (m[j].enabled => z(j).next = m[j].next)
    BY <2>4, NormalizedJob DEF JobOK
  <2>7. ASSUME Patient(Kind(j), m[j]) PROVE Patient(Kind(j), n[j])
    <3>1. CASE a /\ z(j).status = "error" /\ Kind(j) # "at"
      <4>1. z(j).next # Never /\ z(j).lastRun + BackoffOf(z(j).errors) <= z(j).next
        BY <3>1, <2>6, <2>7 DEF Patient
      <4>2. BackoffOf(z(j).errors) \in Nat \ {0} /\ z(j).lastRun \in Nat /\ z(j).next \in Nat
        BY <2>6, BackoffTakesTime, Constants DEF JobFit, JobStates, Times
      <4>3. ~(z(j).lastRun >= z(j).next)
        BY <4>1, <4>2
      <4>. QED
        BY <4>1, <4>3, <3>1, <2>2
    <3>2. CASE ~(a /\ z(j).status = "error")
      BY <3>2, <2>5, <2>7
    <3>3. CASE Kind(j) = "at"
      BY <3>3 DEF Patient
    <3>. QED
      BY <3>1, <3>2, <3>3
  <2>8. ASSUME m[j].enabled, m[j].next # Never, ~e \/ m[j].lastRun < m[j].next
        PROVE  n[j].next = m[j].next
    <3>1. z(j).next = m[j].next /\ z(j).lastRun = m[j].lastRun
      BY <2>6, <2>8 DEF Tidied
    <3>2. ~advance(j)
      BY <3>1, <2>4, <2>8
    <3>. QED
      BY <3>2, <2>2, <2>5, <2>8
  <2>. QED
    BY <2>5, <2>7, <2>8
<1>. QED
  BY <1>1, <1>2 DEF GoodStore, FitStore, Tended, PatientStore

(* The same job but for its marker.                                        *)
AsBefore(x, y) == /\ y.enabled = x.enabled /\ y.at = x.at /\ y.next = x.next
                  /\ y.lastRun = x.lastRun /\ y.status = x.status /\ y.errors = x.errors

(* Setting a marker and taking it off.                                     *)
LEMMA RemarkedJob ==
  ASSUME NEW kind, NEW x, JobOK(kind, x), NEW t \in Times, NEW y, y = [x EXCEPT !.running = t]
  PROVE  /\ JobOK(kind, y) /\ AsBefore(x, y) /\ y.running = t
         /\ Patient(kind, x) => Patient(kind, y)
<1>1. x \in JobStates
  BY DEF JobOK, JobFit
<1>2. y \in JobStates /\ y.running = t /\ AsBefore(x, y)
  BY <1>1 DEF JobStates, AsBefore
<1>. QED
  BY <1>2 DEF JobOK, JobFit, Patient, AsBefore

(* Setting and taking off the markers of some jobs changes no more.        *)
LEMMA MarkedStore ==
  ASSUME NEW m, GoodStore(m), NEW S, NEW t \in Times
  PROVE  /\ GoodStore(Mark(m, S, t)) /\ DOMAIN Mark(m, S, t) = DOMAIN m
         /\ \A j \in DOMAIN m :
              /\ AsBefore(m[j], Mark(m, S, t)[j])
              /\ Mark(m, S, t)[j].running = IF j \in S THEN t ELSE m[j].running
         /\ PatientStore(m) => PatientStore(Mark(m, S, t))
<1>. DEFINE n == Mark(m, S, t)
<1>1. DOMAIN n = DOMAIN m
  BY DEF Mark
<1>2. ASSUME NEW j \in DOMAIN m
      PROVE  /\ JobOK(Kind(j), n[j]) /\ AsBefore(m[j], n[j])
             /\ n[j].running = IF j \in S THEN t ELSE m[j].running
             /\ Patient(Kind(j), m[j]) => Patient(Kind(j), n[j])
  <2>1. JobOK(Kind(j), m[j])
    BY DEF GoodStore
  <2>2. CASE j \in S
    <3>1. n[j] = [m[j] EXCEPT !.running = t]
      BY <2>2 DEF Mark
    <3>. HIDE DEF n
    <3>. QED
      BY <2>1, <2>2, <3>1, RemarkedJob
  <2>3. CASE j \notin S
    <3>1. n[j] = m[j]
      BY <2>3 DEF Mark
    <3>. HIDE DEF n
    <3>. QED
      BY <2>1, <2>3, <3>1 DEF AsBefore
  <2>. QED
    BY <2>2, <2>3
<1>. QED
  BY <1>1, <1>2 DEF GoodStore, PatientStore

(* The results of a batch whose runs are over.                             *)
RunsOver(runs) == /\ DOMAIN runs \subseteq Jobs
                  /\ \A j \in DOMAIN runs : RunOK(runs[j], now) /\ runs[j].is \in Outcomes

(* They change their own jobs, and delete at most one that runs once.      *)
LEMMA OutcomesOfStore ==
  ASSUME arranged \in Cases, now \in Times, NEW m, GoodStore(m), NEW runs, RunsOver(runs)
  PROVE  /\ FitStore(WithOutcomes(m, runs)) /\ DOMAIN WithOutcomes(m, runs) \subseteq DOMAIN m
         /\ \A j \in DOMAIN m \ DOMAIN WithOutcomes(m, runs) : Kind(j) = "at" /\ j \in DOMAIN runs
         /\ \A j \in DOMAIN WithOutcomes(m, runs) :
              /\ j \notin DOMAIN runs => WithOutcomes(m, runs)[j] = m[j]
              /\ j \in DOMAIN runs => WithOutcomes(m, runs)[j].running = Never
              /\ WithOutcomes(m, runs)[j].enabled => m[j].enabled
              /\ Kind(j) # "at" => WithOutcomes(m, runs)[j].enabled = m[j].enabled
         /\ PatientStore(m) => PatientStore(WithOutcomes(m, runs))
<1>. DEFINE n == WithOutcomes(m, runs)
<1>1. DOMAIN n = DOMAIN m \ {i \in DOMAIN runs : Deleted(i, runs[i])}
  BY DEF WithOutcomes
<1>2. /\ DOMAIN n \subseteq DOMAIN m
      /\ \A j \in DOMAIN m \ DOMAIN n : Kind(j) = "at" /\ j \in DOMAIN runs
  BY <1>1 DEF Deleted
<1>3. ASSUME NEW j \in DOMAIN n
      PROVE  /\ JobFit(Kind(j), n[j])
             /\ j \notin DOMAIN runs => n[j] = m[j]
             /\ j \in DOMAIN runs => n[j].running = Never
             /\ n[j].enabled => m[j].enabled
             /\ Kind(j) # "at" => n[j].enabled = m[j].enabled
             /\ Patient(Kind(j), m[j]) => Patient(Kind(j), n[j])
  <2>1. JobFit(Kind(j), m[j]) /\ j \in Jobs
    BY <1>2 DEF GoodStore, JobOK
  <2>2. CASE j \in DOMAIN runs
    <3>0. PICK force \in BOOLEAN : force = FALSE
      OBVIOUS
    <3>1. n[j] = WithResult(j, m[j], runs[j], force)
      BY <2>2, <1>1, <3>0 DEF WithOutcomes
    <3>2. RunOK(runs[j], now) /\ runs[j].is \in Outcomes
      BY <2>2 DEF RunsOver
    <3>. HIDE DEF n
    <3>. QED
      BY <2>1, <2>2, <3>1, <3>2, WithResultJob
  <2>3. CASE j \notin DOMAIN runs
    <3>1. n[j] = m[j]
      BY <2>3, <1>1 DEF WithOutcomes
    <3>. HIDE DEF n
    <3>. QED
      BY <2>1, <2>3, <3>1
  <2>. QED
    BY <2>2, <2>3
<1>4. FitStore(n)
  BY <1>2, <1>3 DEF FitStore, GoodStore
<1>5. PatientStore(m) => PatientStore(n)
  BY <1>2, <1>3 DEF PatientStore
<1>. QED
  BY <1>2, <1>3, <1>4, <1>5

(* A job that is new.                                                      *)
LEMMA NewJobIsGood ==
  ASSUME arranged \in Cases, NEW j \in Jobs, NEW t \in Nat
  PROVE  LET y == Advanced(j, NewJob(j), t)
         IN  JobOK(Kind(j), y) /\ Patient(Kind(j), y) /\ y.enabled = TRUE /\ y.running = Never
<1>. DEFINE x == NewJob(j)
<1>1. /\ x \in JobStates /\ x.status = "none" /\ x.enabled = TRUE /\ x.running = Never
  BY CaseTypes, Constants DEF NewJob, JobStates, Never, Times
<1>. HIDE DEF x
<1>2. JobFit(Kind(j), x) /\ Patient(Kind(j), x)
  BY <1>1 DEF JobFit, Patient
<1>3. /\ JobOK(Kind(j), Advanced(j, x, t)) /\ Tidied(x, Advanced(j, x, t))
      /\ Advanced(j, x, t).running = x.running
      /\ (Patient(Kind(j), x) /\ (x.status = "error" => x.next <= t))
               => Patient(Kind(j), Advanced(j, x, t))
  BY <1>1, <1>2, AdvancedJob
<1>. QED
  BY <1>1, <1>2, <1>3 DEF Tidied, x

(* An empty store.                                                         *)
LEMMA EmptyStore == GoodStore(NoStore) /\ PatientStore(NoStore)
BY DEF NoStore, GoodStore, PatientStore

-----------------------------------------------------------------------------
(* The runs of a job.                                                      *)

(* Runs are the same as long as calls and the jobs of batches are.         *)
LEMMA SameRuns ==
  ASSUME NEW j, UNCHANGED caller,
         \A s \in Services, b \in Batches : DOMAIN work'[s][b] = DOMAIN work[s][b]
  PROVE  RunsOf(j)' = RunsOf(j)
BY DEF RunsOf

(* One batch changes.                                                      *)
LEMMA RunsOfBatch ==
  ASSUME NEW j, NEW s \in Services, NEW b \in Batches, UNCHANGED caller,
         \A z \in Services, d \in Batches :
            <<z, d>> # <<s, b>> => DOMAIN work'[z][d] = DOMAIN work[z][d]
  PROVE  /\ <<s, b>> \in RunsOf(j) <=> j \in DOMAIN work[s][b]
         /\ <<s, b>> \in RunsOf(j)' <=> j \in DOMAIN work'[s][b]
         /\ RunsOf(j) \ {<<s, b>>} = RunsOf(j)' \ {<<s, b>>}
<1>1. /\ <<s, b>> \in RunsOf(j) <=> j \in DOMAIN work[s][b]
      /\ <<s, b>> \in RunsOf(j)' <=> j \in DOMAIN work'[s][b]
  BY b # "manual" DEF RunsOf, Batches
<1>2. ASSUME NEW x, x # <<s, b>> PROVE x \in RunsOf(j) <=> x \in RunsOf(j)'
  <2>1. CASE x \in Services \X Batches
    <3>1. PICK z \in Services, d \in Batches : x = <<z, d>>
      BY <2>1
    <3>2. /\ x \in RunsOf(j) <=> j \in DOMAIN work[z][d]
          /\ x \in RunsOf(j)' <=> j \in DOMAIN work'[z][d]
      BY <3>1, d # "manual" DEF RunsOf, Batches
    <3>. QED
      BY <3>1, <3>2, <1>2
  <2>2. CASE x \notin Services \X Batches
    BY <2>2 DEF RunsOf
  <2>. QED
    BY <2>1, <2>2
<1>. QED
  BY <1>1, <1>2

(* One call changes.                                                       *)
LEMMA RunsOfCall ==
  ASSUME NEW j, NEW c \in Callers, UNCHANGED work,
         \A d \in Callers \ {c} : caller'[d] = caller[d]
  PROVE  /\ <<c, "manual">> \in RunsOf(j) <=> ByHand(c) /\ caller[c].job = j
         /\ <<c, "manual">> \in RunsOf(j)' <=> ByHand(c)' /\ caller'[c].job = j
         /\ RunsOf(j) \ {<<c, "manual">>} = RunsOf(j)' \ {<<c, "manual">>}
<1>1. <<c, "manual">> \notin Services \X Batches
  BY DEF Batches
<1>2. /\ <<c, "manual">> \in RunsOf(j) <=> ByHand(c) /\ caller[c].job = j
      /\ <<c, "manual">> \in RunsOf(j)' <=> ByHand(c)' /\ caller'[c].job = j
  BY <1>1 DEF RunsOf, ByHand
<1>3. ASSUME NEW x, x # <<c, "manual">> PROVE x \in RunsOf(j) <=> x \in RunsOf(j)'
  BY <1>3 DEF RunsOf
<1>. QED
  BY <1>2, <1>3

(* Whatever works on a job shows among its runs.                           *)
LEMMA WorkShows ==
  ASSUME NEW j
  PROVE  /\ \A s \in Services, b \in Batches : j \in DOMAIN work[s][b] => AtWork(j)
         /\ \A c \in Callers : (ByHand(c) /\ caller[c].job = j) => AtWork(j)
<1>1. ASSUME NEW s \in Services, NEW b \in Batches, j \in DOMAIN work[s][b]
      PROVE  <<s, b>> \in RunsOf(j)
  BY <1>1 DEF RunsOf
<1>2. ASSUME NEW c \in Callers, ByHand(c), caller[c].job = j PROVE <<c, "manual">> \in RunsOf(j)
  BY <1>2 DEF RunsOf, ByHand
<1>. QED
  BY <1>1, <1>2 DEF AtWork

(* The same after the step.                                                *)
LEMMA WorkShowsNext ==
  ASSUME NEW j
  PROVE  /\ \A s \in Services, b \in Batches : j \in DOMAIN work'[s][b] => AtWork(j)'
         /\ \A c \in Callers : (ByHand(c)' /\ caller'[c].job = j) => AtWork(j)'
<1>1. ASSUME NEW s \in Services, NEW b \in Batches, j \in DOMAIN work'[s][b]
      PROVE  <<s, b>> \in RunsOf(j)'
  BY <1>1 DEF RunsOf
<1>2. ASSUME NEW c \in Callers, ByHand(c)', caller'[c].job = j PROVE <<c, "manual">> \in RunsOf(j)'
  BY <1>2 DEF RunsOf, ByHand
<1>. QED
  BY <1>1, <1>2 DEF AtWork

-----------------------------------------------------------------------------
(* A section that writes the store m.                                      *)

(* The types of what it leaves.                                            *)
LEMMA WrittenStores ==
  ASSUME Types, UNCHANGED <<arranged, copy>>, NEW s \in Services, NEW m, GoodStore(m), Stores(s, m)
  PROVE  /\ StoreTypes' /\ stale' \subseteq Services
         /\ disk' = m /\ mem'[s] = m /\ s \notin stale'
         /\ \A z \in Services \ {s} : /\ mem'[z] = mem[z]
                                      /\ z \notin stale' => z \notin stale /\ m = disk
<1>1. /\ disk' = m /\ DOMAIN mem' = Services /\ mem'[s] = m
      /\ \A z \in Services \ {s} : mem'[z] = mem[z]
  BY DEF Stores, Types, StoreTypes
<1>2. /\ stale' \subseteq Services /\ s \notin stale'
      /\ \A z \in Services \ {s} : z \notin stale' => z \notin stale /\ m = disk
  BY <1>1 DEF Stores, Types, FlagTypes
<1>3. StoreTypes'
  BY <1>1 DEF Types, StoreTypes, GoodStore, Kind
<1>. QED
  BY <1>1, <1>2, <1>3

(* Every recurring job still waits for the end of its back-off.            *)
LEMMA WrittenPatience ==
  ASSUME Types, Undisturbed, UNCHANGED <<arranged, copy>>, NEW s \in Services, NEW m,
         Stores(s, m), edits' = 0 => edits = 0 /\ PatientStore(m),
         edits' = 0 => \A c \in Callers : caller'[c].stage = "idle"
  PROVE  Undisturbed'
<1>. SUFFICES ASSUME edits' = 0 PROVE Undisturbed'
  BY DEF Undisturbed
<1>1. /\ disk' = m /\ mem'[s] = m /\ \A z \in Services \ {s} : mem'[z] = mem[z]
  BY DEF Stores, Types, StoreTypes
<1>. QED
  BY <1>1 DEF Undisturbed, PatientStore, Kind

(* What a section may do to the runs of a job and to its marker: its runs  *)
(* only become fewer, or it is newly chosen, and then marked, and it was   *)
(* not at work unless its marker had been taken off.                       *)
RunsMayChange(j, m) ==
  \/ RunsOf(j)' \subseteq RunsOf(j)
  \/ /\ j \in DOMAIN m /\ m[j].running # Never
     /\ j \notin unguarded' => RunsOf(j) = {} /\ Lone(j)'
     /\ RunsOf(j) = {} => j \in DOMAIN disk /\ disk[j].running = Never
WritesFairly(m) ==
  /\ \A j \in Jobs : Honours(wish'[j], Kind(j), j, m) /\ (wish'[j] = "none" => ~AtWork(j)')
  /\ \A j \in DOMAIN m : m[j].running # Never => AtWork(j)'
  /\ \A j \in DOMAIN m \ DOMAIN disk : ~AtWork(j)'
  /\ \A j \in Jobs : RunsMayChange(j, m)

(* Then what is known, wished, guarded and marked is so again.             *)
LEMMA Written ==
  ASSUME Types, ServiceInv, UNCHANGED <<arranged, copy>>, NEW s \in Services, NEW m,
         GoodStore(m), Stores(s, m), NEW S, Notices(S), overwritten => overwritten',
         ~overwritten' => WritesFairly(m),
         \A z \in Services \ {s} : (Up(z)' => Up(z)) /\ work'[z]["tick"] = work[z]["tick"],
         \A c \in Callers : ByHand(c)' =>
            \/ caller'[c].service = s
            \/ /\ ByHand(c) /\ caller'[c].service = caller[c].service
               /\ caller'[c].job = caller[c].job
  PROVE  FreshMemories' /\ Wishes' /\ Guarded' /\ Marked' /\ KnownByHand'
<1>1. /\ disk' = m /\ mem'[s] = m /\ s \notin stale'
      /\ \A z \in Services \ {s} : /\ mem'[z] = mem[z]
                                   /\ z \notin stale' => z \notin stale /\ m = disk
  BY WrittenStores
<1>2. ASSUME NEW j \in Jobs \ unguarded', ~overwritten'
      PROVE  /\ AtWork(j)' /\ j \in DOMAIN m => m[j].running # Never
             /\ Lone(j)'
             /\ (AtWork(j)' /\ m = disk) => AtWork(j) /\ j \notin unguarded
  <2>1. j \in unguarded \cup TakenOff(disk, m) => ~AtWork(j)'
    BY <1>1, <1>2 DEF Notices, AtWork
  <2>2. CASE RunsOf(j)' \subseteq RunsOf(j)
    <3>1. CASE AtWork(j)'
      <4>1. AtWork(j) /\ j \notin unguarded /\ j \notin TakenOff(disk, m)
        BY <2>1, <2>2, <3>1 DEF AtWork
      <4>2. (j \in DOMAIN disk => disk[j].running # Never) /\ Lone(j)
        BY <4>1, <1>2 DEF ServiceInv, Guarded
      <4>3. Lone(j)'
        BY <4>2, <2>2 DEF Lone
      <4>4. j \in DOMAIN m => m[j].running # Never
        BY <4>1, <4>2, <3>1, <1>2 DEF WritesFairly, TakenOff
      <4>. QED
        BY <4>1, <4>3, <4>4
    <3>2. CASE ~AtWork(j)'
      BY <3>2 DEF AtWork, Lone
    <3>. QED
      BY <3>1, <3>2
  <2>3. CASE ~(RunsOf(j)' \subseteq RunsOf(j))
    <3>1. /\ j \in DOMAIN m /\ m[j].running # Never /\ RunsOf(j) = {} /\ Lone(j)'
          /\ j \in DOMAIN disk /\ disk[j].running = Never
      BY <2>3, <1>2 DEF WritesFairly, RunsMayChange
    <3>. QED
      BY <3>1
  <2>. QED
    BY <2>2, <2>3
<1>3. Guarded'
  BY <1>1, <1>2 DEF Guarded
<1>4. Wishes'
  BY <1>1 DEF Wishes, WritesFairly, Kind
<1>5. Marked'
  BY <1>1 DEF Marked, WritesFairly
<1>6. KnownByHand'
  <2>. SUFFICES ASSUME ~overwritten', NEW c \in Callers, ByHand(c)', caller'[c].job \in DOMAIN m
                PROVE  caller'[c].job \in DOMAIN mem'[caller'[c].service]
    BY <1>1 DEF KnownByHand
  <2>1. CASE caller'[c].service = s
    BY <2>1, <1>1
  <2>2. CASE /\ caller'[c].service # s
             /\ ByHand(c) /\ caller'[c].service = caller[c].service /\ caller'[c].job = caller[c].job
    <3>0. PICK j : j = caller'[c].job
      OBVIOUS
    <3>1. AtWork(j)'
      BY <3>0, WorkShowsNext
    <3>2. caller'[c].job \in DOMAIN disk
      BY <3>0, <3>1 DEF WritesFairly
    <3>3. caller[c].job \in DOMAIN mem[caller[c].service]
      BY <2>2, <3>2 DEF ServiceInv, KnownByHand
    <3>4. caller[c].service \in Services \ {s}
      BY <2>2 DEF ServiceInv, Attended, ByHand
    <3>. QED
      BY <2>2, <3>3, <3>4, <1>1
  <2>. QED
    BY <2>1, <2>2
<1>7. FreshMemories'
  <2>. SUFFICES ASSUME NEW z \in Services \ stale', Up(z)'
                PROVE  DOMAIN mem'[z] = DOMAIN m /\ \A j \in DOMAIN m : Knows(z, j)'
    BY <1>1 DEF FreshMemories
  <2>1. CASE z = s
    <3>1. ASSUME NEW j \in DOMAIN m PROVE Knows(s, j)'
      <4>1. j \in Jobs
        BY DEF GoodStore
      <4>. QED
        BY <1>1, <1>2, <4>1 DEF Knows
    <3>. QED
      BY <2>1, <3>1, <1>1
  <2>2. CASE z # s
    <3>1. z \notin stale /\ m = disk /\ mem'[z] = mem[z] /\ Up(z) /\ work'[z]["tick"] = work[z]["tick"]
      BY <2>2, <1>1
    <3>2. DOMAIN mem[z] = DOMAIN disk /\ \A j \in DOMAIN disk : Knows(z, j)
      BY <3>1 DEF ServiceInv, FreshMemories
    <3>3. ASSUME NEW j \in DOMAIN m PROVE Knows(z, j)'
      <4>1. Knows(z, j) /\ j \in Jobs
        BY <3>1, <3>2 DEF GoodStore
      <4>2. (~overwritten' /\ AtWork(j)' /\ j \notin unguarded') => mem[z][j].running # Never
        BY <4>1, <1>2, <3>1 DEF Knows
      <4>. QED
        BY <4>1, <4>2, <3>1, <1>1 DEF Knows
    <3>. QED
      BY <3>1, <3>2, <3>3
  <2>. QED
    BY <2>1, <2>2
<1>. QED
  BY <1>3, <1>4, <1>5, <1>6, <1>7

-----------------------------------------------------------------------------
(* The steps.                                                              *)

(* A store with the same jobs, enabled as they were, honours the same.     *)
LEMMA HonoursLike ==
  ASSUME NEW w, NEW kind, NEW j, NEW m, NEW n, Honours(w, kind, j, m), DOMAIN n = DOMAIN m,
         j \in DOMAIN m => n[j].enabled = m[j].enabled
  PROVE  Honours(w, kind, j, n)
BY DEF Honours

(* The present is a time, and so is none.                                  *)
LEMMA TimeTypes == Types => Never \in Times /\ now \in Times /\ now \in Nat /\ Times \subseteq Nat
BY Constants DEF Types, FlagTypes, Times, Never

(* A section of service s that writes m, all together.                     *)
LEMMA SectionKeeps ==
  ASSUME CronInv, UNCHANGED <<arranged, copy>>, NEW s \in Services, NEW m, GoodStore(m),
         Stores(s, m), NEW S, Notices(S), overwritten => overwritten',
         ~overwritten' => WritesFairly(m),
         edits' = 0 => edits = 0 /\ PatientStore(m) /\ UNCHANGED caller,
         stale' \subseteq Services => FlagTypes', WorkTypes', CallTypes', Attended',
         \A z \in Services \ {s} : (Up(z)' => Up(z)) /\ work'[z]["tick"] = work[z]["tick"],
         \A c \in Callers : ByHand(c)' =>
            \/ caller'[c].service = s
            \/ /\ ByHand(c) /\ caller'[c].service = caller[c].service
               /\ caller'[c].job = caller[c].job
  PROVE  CronInv'
<1>1. Types /\ Undisturbed /\ ServiceInv
  BY DEF CronInv
<1>2. Types'
  BY <1>1, WrittenStores DEF Types
<1>3. Undisturbed'
  <2>1. edits' = 0 => \A c \in Callers : caller'[c].stage = "idle"
    BY <1>1 DEF Undisturbed
  <2>. QED
    BY <1>1, <2>1, WrittenPatience
<1>4. FreshMemories' /\ Wishes' /\ Guarded' /\ Marked' /\ KnownByHand'
  BY <1>1, Written
<1>. QED
  BY <1>2, <1>3, <1>4 DEF CronInv, ServiceInv

(* What is written from a store that honours the wishes, with the jobs and *)
(* the settings of that store, honours them too; runs do not change.       *)
LEMMA UpkeepIsFair ==
  ASSUME NEW m, NEW n, UNCHANGED wish, \A j : RunsOf(j)' = RunsOf(j), DOMAIN n = DOMAIN m,
         DOMAIN m \subseteq DOMAIN disk,
         \A j \in DOMAIN m : n[j].enabled = m[j].enabled,
         \A j \in DOMAIN m : n[j].running # Never => AtWork(j),
         \A j \in Jobs : Honours(wish[j], Kind(j), j, m) /\ (wish[j] = "none" => ~AtWork(j))
  PROVE  WritesFairly(n)
<1>1. \A j \in Jobs : Honours(wish[j], Kind(j), j, n)
  BY HonoursLike
<1>. QED
  BY <1>1 DEF WritesFairly, RunsMayChange, AtWork

(* The file, as long as it was not written from an old copy.               *)
LEMMA FileIsTrue ==
  ASSUME CronInv, ~overwritten
  PROVE  /\ \A j \in Jobs : Honours(wish[j], Kind(j), j, disk) /\ (wish[j] = "none" => ~AtWork(j))
         /\ Alive(latest) => \A j \in DOMAIN disk : disk[j].running # Never => AtWork(j)
BY DEF CronInv, ServiceInv, Wishes, Marked

(* A memory that is not stale.                                             *)
LEMMA MemoryIsTrue ==
  ASSUME CronInv, ~overwritten, NEW s \in Services \ stale, Up(s)
  PROVE  /\ DOMAIN mem[s] = DOMAIN disk
         /\ \A j \in Jobs : Honours(wish[j], Kind(j), j, mem[s]) /\ (wish[j] = "none" => ~AtWork(j))
         /\ \A j \in DOMAIN disk :
              /\ mem[s][j].enabled = disk[j].enabled
              /\ disk[j].next # Never => mem[s][j].next = disk[j].next
              /\ mem[s][j].running # Never => AtWork(j)
              /\ disk[j].running # Never => AtWork(j)
              /\ (AtWork(j) /\ j \notin unguarded) => mem[s][j].running # Never
<1>1. DOMAIN mem[s] = DOMAIN disk /\ \A j \in DOMAIN disk : Knows(s, j)
  BY DEF CronInv, ServiceInv, FreshMemories
<1>2. Alive(latest)
  BY DEF CronInv, ServiceInv, Attended
<1>3. /\ \A j \in Jobs : Honours(wish[j], Kind(j), j, disk) /\ (wish[j] = "none" => ~AtWork(j))
      /\ \A j \in DOMAIN disk : disk[j].running # Never => AtWork(j)
  BY <1>2, FileIsTrue
<1>4. \A j \in DOMAIN disk : j \in DOMAIN work[s]["tick"] => AtWork(j)
  BY WorkShows DEF Batches
<1>5. \A j \in Jobs : Honours(wish[j], Kind(j), j, mem[s])
  BY <1>1, <1>3, HonoursLike DEF Knows
<1>. QED
  BY <1>1, <1>3, <1>4, <1>5 DEF Knows

(* The start of a service.                                                 *)
LEMMA StartKeeps == ASSUME CronInv, Start PROVE CronInv'
<1>. DEFINE s == latest + 1
            m == Cleared(disk)
<1>1. /\ s \in Services /\ latest' = s /\ stage' = [stage EXCEPT ![s] = "cleared"]
      /\ Stores(s, m) /\ overwritten' = overwritten /\ Notices({})
      /\ skip' = [skip EXCEPT ![s] = {j \in DOMAIN disk : disk[j].running # Never}]
      /\ UNCHANGED <<now, arranged, stopped, round, own, work, timer, caller, copy, edits, wish>>
  BY Zenon DEF Start, FromFile, Watched, tickVars, userVars
<1>2. Types /\ Undisturbed /\ GoodStore(disk) /\ Never \in Times /\ latest \in 0..MaxServices
  BY TimeTypes DEF CronInv, Types, FlagTypes, StoreTypes
<1>3. /\ GoodStore(m) /\ DOMAIN m = DOMAIN disk /\ (PatientStore(disk) => PatientStore(m))
      /\ \A j \in DOMAIN disk : AsBefore(disk[j], m[j]) /\ m[j].running = Never
  BY <1>2, MarkedStore DEF Cleared
<1>. HIDE DEF s, m
<1>4. /\ \A z \in Services : stage'[z] = IF z = s THEN "cleared" ELSE stage[z]
      /\ stage[s] = "unborn"
  BY <1>1, <1>2, s > latest DEF CronInv, ServiceInv, Attended, Types, FlagTypes, s
<1>5. ASSUME stale' \subseteq Services PROVE FlagTypes'
  <2>1. stage' \in [Services -> Stages] /\ skip' \in [Services -> SUBSET Jobs]
    BY <1>1, <1>2 DEF Types, FlagTypes, Stages, GoodStore
  <2>2. unguarded' \subseteq Jobs /\ latest' \in 0..MaxServices
    BY <1>1, Constants DEF Notices, Services
  <2>. QED
    BY <1>1, <1>2, <1>5, <2>1, <2>2 DEF Types, FlagTypes
<1>6. WorkTypes' /\ CallTypes'
  BY <1>1, <1>2 DEF Types, WorkTypes, CallTypes
<1>7. Attended'
  <2>1. Alive(latest)'
    BY <1>1, <1>4 DEF Alive, Services
  <2>2. \A z \in Services : z > latest' => stage'[z] = "unborn"
    BY <1>1, <1>2, <1>4 DEF CronInv, ServiceInv, Attended, s, Services
  <2>. QED
    BY <1>1, <1>4, <2>1, <2>2 DEF CronInv, ServiceInv, Attended, Up
<1>8. ~overwritten' => WritesFairly(m)
  <2>1. \A j : RunsOf(j)' = RunsOf(j)
    BY <1>1, SameRuns
  <2>. QED
    BY <1>1, <1>3, <2>1, FileIsTrue, UpkeepIsFair DEF AsBefore
<1>9. \A z \in Services \ {s} : (Up(z)' => Up(z)) /\ work'[z]["tick"] = work[z]["tick"]
  BY <1>1, <1>4 DEF Up
<1>10. \A c \in Callers : ByHand(c)' => /\ ByHand(c) /\ caller'[c].service = caller[c].service
                                        /\ caller'[c].job = caller[c].job
  BY <1>1 DEF ByHand
<1>11. edits' = 0 => edits = 0 /\ PatientStore(m) /\ UNCHANGED caller
  BY <1>1, <1>2, <1>3 DEF Undisturbed
<1>. QED
  BY <1>1, <1>3, <1>5, <1>6, <1>7, <1>8, <1>9, <1>10, <1>11, SectionKeeps

(* A good store is a fit one.                                              *)
LEMMA GoodIsFit == ASSUME NEW m, GoodStore(m) PROVE FitStore(m)
BY DEF GoodStore, FitStore, JobOK

(* The file and the memories are good.                                     *)
LEMMA StoresAreGood ==
  ASSUME CronInv
  PROVE  /\ arranged \in Cases /\ now \in Times /\ now \in Nat /\ now # Never /\ Never \in Times
         /\ GoodStore(disk) /\ FitStore(disk) /\ DOMAIN disk \subseteq Jobs
         /\ \A s \in Services : GoodStore(mem[s]) /\ FitStore(mem[s]) /\ DOMAIN mem[s] \subseteq Jobs
         /\ edits = 0 => PatientStore(disk) /\ \A s \in Services : PatientStore(mem[s])
BY GoodIsFit, TimeTypes DEF CronInv, Types, FlagTypes, StoreTypes, Undisturbed, GoodStore

(* Flags that are set to a value of their type.                            *)
LEMMA FlagSet ==
  ASSUME NEW f \in [Services -> BOOLEAN], NEW s \in Services, NEW v \in BOOLEAN
  PROVE  [f EXCEPT ![s] = v] \in [Services -> BOOLEAN]
OBVIOUS

(* A tick no longer holds the jobs in memory.                              *)
LEMMA OwnReset ==
  ASSUME own \in [Services -> BOOLEAN], NEW s \in Services, own' = [own EXCEPT ![s] = FALSE]
  PROVE  own' \in [Services -> BOOLEAN]
<1>1. PICK f \in BOOLEAN : f = FALSE
  OBVIOUS
<1>. QED
  BY <1>1

(* armTimer: the timer is set or not.                                      *)
LEMMA TimerSet ==
  ASSUME timer \in [Services -> BOOLEAN], NEW s \in Services, NEW m,
         timer' = [timer EXCEPT ![s] = Wakes(m)]
  PROVE  timer' \in [Services -> BOOLEAN]
<1>1. Wakes(m) \in BOOLEAN
  BY Zenon DEF Wakes
<1>2. PICK f \in BOOLEAN : f = Wakes(m)
  BY Zenon, <1>1
<1>3. timer' = [timer EXCEPT ![s] = f]
  BY Zenon, <1>2
<1>. QED
  BY <1>3

(* Nobody starts to run by hand.                                           *)
LEMMA SameCalls ==
  ASSUME UNCHANGED caller
  PROVE  \A c \in Callers : ByHand(c)' => /\ ByHand(c) /\ caller'[c].service = caller[c].service
                                          /\ caller'[c].job = caller[c].job
BY DEF ByHand

(* The last section of start().                                            *)
LEMMA FinishStartKeeps ==
  ASSUME CronInv, NEW s \in Services, FinishStart(s) PROVE CronInv'
<1>. DEFINE m == Recomputed(disk, now)
<1>1. /\ stage[s] \in {"caughtup", "checked"} /\ stage' = [stage EXCEPT ![s] = "up"]
      /\ Stores(s, m) /\ overwritten' = overwritten /\ Notices({})
      /\ timer' = [timer EXCEPT ![s] = Wakes(disk')] /\ own' = [own EXCEPT ![s] = FALSE]
      /\ UNCHANGED <<now, arranged, latest, skip, stopped, round, work, caller, copy, edits, wish>>
  BY Zenon DEF FinishStart, FromFile, Watched, tickVars, userVars
<1>2. /\ GoodStore(m) /\ Tended(disk, m) /\ (PatientStore(disk) => PatientStore(m))
  BY StoresAreGood, RecomputedStore
<1>. HIDE DEF m
<1>3. Types /\ Undisturbed /\ Attended
  BY DEF CronInv, ServiceInv
<1>4. /\ \A z \in Services : stage'[z] = IF z = s THEN "up" ELSE stage[z]
      /\ Up(s) /\ Alive(latest)
  BY <1>1, <1>3 DEF Types, FlagTypes, Attended, Up
<1>5. ASSUME stale' \subseteq Services PROVE FlagTypes'
  <2>1. stage' \in [Services -> Stages] /\ unguarded' \subseteq Jobs
    BY <1>1, <1>3 DEF Types, FlagTypes, Stages, Notices
  <2>2. own' \in [Services -> BOOLEAN] /\ timer' \in [Services -> BOOLEAN]
    BY <1>1, <1>3, OwnReset, TimerSet DEF Types, FlagTypes
  <2>. QED
    BY <1>1, <1>3, <1>5, <2>1, <2>2 DEF Types, FlagTypes
<1>6. WorkTypes' /\ CallTypes'
  BY <1>1, <1>3 DEF Types, WorkTypes, CallTypes
<1>7. Attended'
  BY <1>1, <1>3, <1>4 DEF Attended, Up, Alive, Types, FlagTypes, Services
<1>8. ASSUME ~overwritten' PROVE WritesFairly(m)
  <2>1. \A j : RunsOf(j)' = RunsOf(j)
    BY <1>1, SameRuns
  <2>2. \A j \in DOMAIN disk : m[j].running # Never => AtWork(j)
    BY <1>1, <1>2, <1>4, <1>8, FileIsTrue DEF Tended, Tidied
  <2>. QED
    BY <1>1, <1>2, <1>8, <2>1, <2>2, FileIsTrue, UpkeepIsFair DEF Tended, Tidied
<1>9. \A z \in Services \ {s} : (Up(z)' => Up(z)) /\ work'[z]["tick"] = work[z]["tick"]
  BY <1>1, <1>4 DEF Up
<1>10. edits' = 0 => edits = 0 /\ PatientStore(m) /\ UNCHANGED caller
  BY <1>1, <1>2, <1>3 DEF Undisturbed
<1>. QED
  BY <1>1, <1>2, <1>5, <1>6, <1>7, <1>8, <1>9, <1>10, SameCalls, SectionKeeps

(* list() and status().                                                    *)
LEMMA ReadKeeps ==
  ASSUME CronInv, Read PROVE CronInv'
<1>. DEFINE m == Maintained(mem[latest], now, FALSE)
<1>1. /\ Serving(latest) /\ Stores(latest, m) /\ Notices({})
      /\ overwritten' = (overwritten \/ latest \in stale)
      /\ UNCHANGED <<now, arranged, latest, stage, skip, stopped, round, own, work, timer, caller,
                     copy, edits, wish>>
  BY Zenon DEF Read, FromMemory, Watched, serviceVars, tickVars, userVars
<1>2. Types /\ Undisturbed /\ Attended
  BY DEF CronInv, ServiceInv
<1>3. latest \in Services /\ Up(latest)
  BY <1>1, <1>2 DEF Serving, Alive, Up, Types, FlagTypes, Services
<1>4. /\ GoodStore(m) /\ Tended(mem[latest], m) /\ (PatientStore(mem[latest]) => PatientStore(m))
  <2>1. PICK e \in BOOLEAN : e = FALSE
    OBVIOUS
  <2>. QED
    BY <1>3, <2>1, StoresAreGood, MaintainedStore
<1>. HIDE DEF m
<1>5. ASSUME stale' \subseteq Services PROVE FlagTypes'
  BY <1>1, <1>2, <1>5 DEF Types, FlagTypes, Notices
<1>6. WorkTypes' /\ CallTypes'
  BY <1>1, <1>2 DEF Types, WorkTypes, CallTypes
<1>7. Attended'
  BY <1>1, <1>2 DEF Attended, Up, Alive
<1>8. ASSUME ~overwritten' PROVE WritesFairly(m)
  <2>1. \A j : RunsOf(j)' = RunsOf(j)
    BY <1>1, SameRuns
  <2>2. ~overwritten /\ latest \in Services \ stale
    BY <1>1, <1>3, <1>8
  <2>3. \A j \in DOMAIN mem[latest] : m[j].running # Never => AtWork(j)
    BY <1>3, <1>4, <2>2, MemoryIsTrue DEF Tended, Tidied
  <2>. QED
    BY <1>1, <1>3, <1>4, <2>1, <2>2, <2>3, MemoryIsTrue, UpkeepIsFair DEF Tended, Tidied
<1>9. \A z \in Services \ {latest} : (Up(z)' => Up(z)) /\ work'[z]["tick"] = work[z]["tick"]
  BY <1>1 DEF Up
<1>10. edits' = 0 => edits = 0 /\ PatientStore(m) /\ UNCHANGED caller
  BY <1>1, <1>2, <1>3, <1>4 DEF Undisturbed
<1>. QED
  BY <1>1, <1>3, <1>4, <1>5, <1>6, <1>7, <1>8, <1>9, <1>10, SameCalls, SectionKeeps

(* A batch gets other runs; everything else is as it was.                  *)
BatchSet(s, b, runs) ==
  /\ DOMAIN work' = Services /\ \A z \in Services : DOMAIN work'[z] = Batches
  /\ work'[s][b] = runs
  /\ \A z \in Services, d \in Batches : <<z, d>> # <<s, b>> => work'[z][d] = work[z][d]

(* Its types, if the runs of the batch have theirs.                        *)
LEMMA BatchTypes ==
  ASSUME Types, UNCHANGED now, NEW s \in Services, NEW b \in Batches, NEW runs,
         BatchSet(s, b, runs), DOMAIN runs \subseteq Jobs,
         \A j \in DOMAIN runs : RunOK(runs[j], now)
  PROVE  WorkTypes'
<1>1. ASSUME NEW z \in Services, NEW d \in Batches
      PROVE  /\ DOMAIN work'[z][d] \subseteq Jobs
             /\ \A j \in DOMAIN work'[z][d] : RunOK(work'[z][d][j], now)
  <2>1. CASE <<z, d>> = <<s, b>>
    BY <2>1 DEF BatchSet
  <2>2. CASE <<z, d>> # <<s, b>>
    BY <2>2 DEF BatchSet, Types, WorkTypes
  <2>. QED
    BY <2>1, <2>2
<1>. QED
  BY <1>1 DEF WorkTypes, BatchSet

(* A batch is over: nothing is left of it.                                 *)
LEMMA BatchCleared ==
  ASSUME Types, UNCHANGED now, NEW s \in Services, NEW b \in Batches,
         work' = [work EXCEPT ![s][b] = NoRuns]
  PROVE  /\ WorkTypes' /\ DOMAIN work'[s][b] = {}
         /\ \A z \in Services, d \in Batches :
              <<z, d>> # <<s, b>> => work'[z][d] = work[z][d]
<1>1. DOMAIN NoRuns = {}
  BY DEF NoRuns
<1>. HIDE DEF NoRuns
<1>2. /\ DOMAIN work = Services /\ DOMAIN work' = Services
      /\ \A z \in Services : DOMAIN work[z] = Batches /\ DOMAIN work'[z] = Batches
  BY DEF Types, WorkTypes
<1>3. /\ work'[s][b] = NoRuns
      /\ \A z \in Services, d \in Batches : <<z, d>> # <<s, b>> => work'[z][d] = work[z][d]
  BY <1>2
<1>4. ASSUME NEW z \in Services, NEW d \in Batches
      PROVE  /\ DOMAIN work'[z][d] \subseteq Jobs
             /\ \A j \in DOMAIN work'[z][d] : RunOK(work'[z][d][j], now)
  <2>1. CASE <<z, d>> = <<s, b>>
    BY <2>1, <1>1, <1>3
  <2>2. CASE <<z, d>> # <<s, b>>
    BY <2>2, <1>3 DEF Types, WorkTypes
  <2>. QED
    BY <2>1, <2>2
<1>. QED
  BY <1>1, <1>2, <1>3, <1>4 DEF WorkTypes

(* The runs of a batch that begins.                                        *)
LEMMA WaitingRuns ==
  ASSUME NEW S, now \in Times
  PROVE  /\ DOMAIN Waiting(S) = S /\ DOMAIN NoRuns = {}
         /\ \A j \in S : RunOK(Waiting(S)[j], now) /\ Waiting(S)[j].is = "waiting"
BY Constants DEF Waiting, NoRuns, RunOK, RunStates, Outcomes, Times, Never

(* A batch that has ended has the results of all its runs.                 *)
LEMMA EndedIsOver ==
  ASSUME CronInv, NEW s \in Services, NEW b \in Batches, Ended(work[s][b])
  PROVE  RunsOver(work[s][b])
BY DEF CronInv, Types, WorkTypes, Ended, RunsOver

(* What a batch leaves in the file when its results are applied.           *)
LEMMA AppliedStore ==
  ASSUME CronInv, NEW runs, RunsOver(runs)
  PROVE  LET m == Maintained(WithOutcomes(disk, runs), now, FALSE)
         IN  /\ GoodStore(m) /\ DOMAIN m \subseteq DOMAIN disk
             /\ \A j \in DOMAIN disk \ DOMAIN m : Kind(j) = "at" /\ j \in DOMAIN runs
             /\ \A j \in DOMAIN m :
                  /\ m[j].running # Never => j \notin DOMAIN runs /\ disk[j].running # Never
                  /\ m[j].enabled => disk[j].enabled
                  /\ Kind(j) # "at" => m[j].enabled = disk[j].enabled
                  /\ (j \notin DOMAIN runs /\ disk[j].enabled /\ disk[j].next # Never)
                       => m[j].next = disk[j].next
             /\ PatientStore(disk) => PatientStore(m)
<1>. DEFINE n == WithOutcomes(disk, runs)
            m == Maintained(n, now, FALSE)
<1>1. /\ FitStore(n) /\ DOMAIN n \subseteq DOMAIN disk
      /\ \A j \in DOMAIN disk \ DOMAIN n : Kind(j) = "at" /\ j \in DOMAIN runs
      /\ \A j \in DOMAIN n :
              /\ j \notin DOMAIN runs => n[j] = disk[j]
              /\ j \in DOMAIN runs => n[j].running = Never
              /\ n[j].enabled => disk[j].enabled
              /\ Kind(j) # "at" => n[j].enabled = disk[j].enabled
      /\ PatientStore(disk) => PatientStore(n)
  BY StoresAreGood, OutcomesOfStore
<1>. HIDE DEF n
<1>2. /\ GoodStore(m) /\ Tended(n, m) /\ (PatientStore(n) => PatientStore(m))
      /\ \A j \in DOMAIN n : (n[j].enabled /\ n[j].next # Never) => m[j].next = n[j].next
  <2>1. PICK e \in BOOLEAN : e = FALSE
    OBVIOUS
  <2>2. /\ GoodStore(Maintained(n, now, e)) /\ Tended(n, Maintained(n, now, e))
        /\ PatientStore(n) => PatientStore(Maintained(n, now, e))
        /\ \A j \in DOMAIN n :
              /\ n[j].enabled /\ n[j].next # Never
              /\ ~e \/ n[j].lastRun < n[j].next
              => Maintained(n, now, e)[j].next = n[j].next
    BY <1>1, StoresAreGood, MaintainedStore
  <2>. QED
    BY <2>1, <2>2
<1>. HIDE DEF m
<1>3. /\ DOMAIN m = DOMAIN n
      /\ \A j \in DOMAIN m : /\ m[j].enabled = n[j].enabled
                             /\ m[j].running # Never => n[j].running # Never
  BY <1>2 DEF Tended, Tidied
<1>4. ASSUME NEW j \in DOMAIN m
      PROVE  /\ m[j].running # Never => j \notin DOMAIN runs /\ disk[j].running # Never
             /\ m[j].enabled => disk[j].enabled
             /\ Kind(j) # "at" => m[j].enabled = disk[j].enabled
             /\ (j \notin DOMAIN runs /\ disk[j].enabled /\ disk[j].next # Never)
                       => m[j].next = disk[j].next
  BY <1>1, <1>2, <1>3
<1>5. PatientStore(disk) => PatientStore(m)
  BY <1>1, <1>2
<1>. QED
  BY <1>1, <1>2, <1>3, <1>4, <1>5 DEF m, n

(* The end of a batch: its runs go, and with them their markers.           *)
LEMMA BatchEndsFairly ==
  ASSUME CronInv, ~overwritten, NEW s \in Services, NEW b \in Batches, Up(s), NEW m,
         UNCHANGED <<caller, wish>>, DOMAIN work'[s][b] = {},
         \A z \in Services, d \in Batches : <<z, d>> # <<s, b>> => work'[z][d] = work[z][d],
         DOMAIN m \subseteq DOMAIN disk,
         \A j \in DOMAIN disk \ DOMAIN m : Kind(j) = "at",
         \A j \in DOMAIN m :
            /\ m[j].running # Never => j \notin DOMAIN work[s][b] /\ disk[j].running # Never
            /\ m[j].enabled => disk[j].enabled
            /\ Kind(j) # "at" => m[j].enabled = disk[j].enabled
  PROVE  WritesFairly(m)
<1>1. ASSUME NEW j
      PROVE  /\ RunsOf(j)' \subseteq RunsOf(j)
             /\ j \notin DOMAIN work[s][b] => RunsOf(j)' = RunsOf(j)
  <2>1. /\ <<s, b>> \in RunsOf(j) <=> j \in DOMAIN work[s][b]
        /\ <<s, b>> \in RunsOf(j)' <=> j \in DOMAIN work'[s][b]
        /\ RunsOf(j) \ {<<s, b>>} = RunsOf(j)' \ {<<s, b>>}
    <3>1. \A z \in Services, d \in Batches :
            <<z, d>> # <<s, b>> => DOMAIN work'[z][d] = DOMAIN work[z][d]
      OBVIOUS
    <3>2. UNCHANGED caller
      OBVIOUS
    <3>. QED
      BY <3>1, <3>2, RunsOfBatch
  <2>2. <<s, b>> \notin RunsOf(j)'
    BY <2>1
  <2>. QED
    BY ONLY <2>1, <2>2
<1>2. Alive(latest)
  BY DEF CronInv, ServiceInv, Attended
<1>3. /\ \A j \in Jobs : Honours(wish[j], Kind(j), j, disk) /\ (wish[j] = "none" => ~AtWork(j))
      /\ \A j \in DOMAIN disk : disk[j].running # Never => AtWork(j)
  BY <1>2, FileIsTrue
<1>4. \A j \in Jobs : Honours(wish[j], Kind(j), j, m)
  BY <1>3 DEF Honours
<1>5. \A j \in Jobs : wish'[j] = "none" => ~AtWork(j)'
  BY <1>1, <1>3 DEF AtWork
<1>6. \A j \in DOMAIN m : m[j].running # Never => AtWork(j)'
  BY <1>1, <1>3 DEF AtWork
<1>. QED
  BY <1>1, <1>4, <1>5, <1>6 DEF WritesFairly, RunsMayChange

(* A job that is newly chosen and marked: x is its new run.                *)
LEMMA ChosenFairly ==
  ASSUME NEW j \in Jobs, NEW m, NEW S, NEW x, Notices(S), x \in RunsOf(j)',
         RunsOf(j) \ {x} = RunsOf(j)' \ {x}, j \in DOMAIN m, m[j].running # Never,
         AtWork(j) => j \in unguarded \cup S,
         ~AtWork(j) => j \in DOMAIN disk /\ disk[j].running = Never
  PROVE  RunsMayChange(j, m)
<1>1. ASSUME j \notin unguarded' PROVE RunsOf(j) = {} /\ Lone(j)'
  <2>1. RunsOf(j) = {}
    BY <1>1 DEF Notices, AtWork
  <2>2. RunsOf(j)' \subseteq {x}
    BY ONLY <2>1, RunsOf(j) \ {x} = RunsOf(j)' \ {x}
  <2>. QED
    BY <2>1, <2>2 DEF Lone
<1>. QED
  BY <1>1 DEF RunsMayChange, AtWork

(* The jobs S, without a marker, are chosen from the store k and marked,   *)
(* which leaves m; k says truly what the user wants and what is at work.   *)
ChosenFrom(k, m, S) ==
  /\ S \subseteq DOMAIN k /\ DOMAIN k = DOMAIN disk /\ DOMAIN m = DOMAIN k
  /\ \A j \in Jobs : Honours(wish[j], Kind(j), j, k)
  /\ \A j \in DOMAIN k :
       /\ k[j].running # Never => AtWork(j)
       /\ (AtWork(j) /\ j \notin unguarded) => k[j].running # Never
  /\ \A j \in S : k[j].running = Never
  /\ \A j \in DOMAIN m : /\ m[j].enabled = k[j].enabled
                         /\ (m[j].running # Never /\ j \notin S) => k[j].running # Never
                         /\ j \in S => m[j].running # Never

(* They are a batch, which was empty before.                               *)
LEMMA BatchStartsFairly ==
  ASSUME CronInv, ~overwritten, NEW s \in Services, NEW b \in Batches, Up(s), NEW k, NEW m, NEW S,
         UNCHANGED <<caller, wish>>, Notices({}), DOMAIN work[s][b] = {},
         DOMAIN work'[s][b] = S, ChosenFrom(k, m, S),
         \A z \in Services, d \in Batches : <<z, d>> # <<s, b>> => work'[z][d] = work[z][d]
  PROVE  WritesFairly(m)
<1>1. S \subseteq DOMAIN k /\ DOMAIN k = DOMAIN disk /\ DOMAIN m = DOMAIN k
  BY DEF ChosenFrom
<1>2. \A j \in Jobs : Honours(wish[j], Kind(j), j, k)
  BY DEF ChosenFrom
<1>3. \A j \in DOMAIN k : /\ k[j].running # Never => AtWork(j)
                          /\ (AtWork(j) /\ j \notin unguarded) => k[j].running # Never
  BY DEF ChosenFrom
<1>4. /\ \A j \in S : k[j].running = Never
      /\ \A j \in DOMAIN m : /\ m[j].enabled = k[j].enabled
                             /\ (m[j].running # Never /\ j \notin S) => k[j].running # Never
                             /\ j \in S => m[j].running # Never
  BY DEF ChosenFrom
<1>5. ASSUME NEW j
      PROVE  /\ RunsOf(j) \ {<<s, b>>} = RunsOf(j)' \ {<<s, b>>}
             /\ <<s, b>> \in RunsOf(j)' <=> j \in S
             /\ RunsOf(j) \subseteq RunsOf(j)'
             /\ j \notin S => RunsOf(j)' = RunsOf(j)
  <2>1. /\ <<s, b>> \in RunsOf(j) <=> j \in DOMAIN work[s][b]
        /\ <<s, b>> \in RunsOf(j)' <=> j \in DOMAIN work'[s][b]
        /\ RunsOf(j) \ {<<s, b>>} = RunsOf(j)' \ {<<s, b>>}
    <3>1. \A z \in Services, d \in Batches :
            <<z, d>> # <<s, b>> => DOMAIN work'[z][d] = DOMAIN work[z][d]
      OBVIOUS
    <3>2. UNCHANGED caller
      OBVIOUS
    <3>. QED
      BY <3>1, <3>2, RunsOfBatch
  <2>2. <<s, b>> \notin RunsOf(j) /\ (j \notin S => <<s, b>> \notin RunsOf(j)')
    BY <2>1
  <2>3. RunsOf(j) \subseteq RunsOf(j)' /\ (j \notin S => RunsOf(j)' = RunsOf(j))
    BY ONLY <2>1, <2>2
  <2>. QED
    BY <2>1, <2>3
<1>6. /\ \A j \in Jobs : wish[j] = "none" => ~AtWork(j)
      /\ \A j \in DOMAIN disk : disk[j].running # Never => AtWork(j)
      /\ DOMAIN disk \subseteq Jobs
  BY FileIsTrue, StoresAreGood DEF CronInv, ServiceInv, Attended
<1>7. \A j \in Jobs : Honours(wish[j], Kind(j), j, m)
  BY <1>1, <1>2, <1>4, HonoursLike
<1>8. \A j \in Jobs : wish'[j] = "none" => ~AtWork(j)'
  BY <1>1, <1>2, <1>5, <1>6 DEF AtWork, Honours
<1>9. \A j \in DOMAIN m : m[j].running # Never => AtWork(j)'
  BY <1>1, <1>3, <1>4, <1>5 DEF AtWork
<1>10. ASSUME NEW j \in Jobs PROVE RunsMayChange(j, m)
  <2>1. CASE j \in S
    <3>1. /\ <<s, b>> \in RunsOf(j)' /\ RunsOf(j) \ {<<s, b>>} = RunsOf(j)' \ {<<s, b>>}
          /\ j \in DOMAIN m /\ m[j].running # Never
          /\ AtWork(j) => j \in unguarded \cup {}
          /\ ~AtWork(j) => j \in DOMAIN disk /\ disk[j].running = Never
      BY <1>1, <1>3, <1>4, <1>5, <1>6, <2>1
    <3>. QED
      BY <3>1, ChosenFairly
  <2>2. CASE j \notin S
    BY <1>5, <2>2 DEF RunsMayChange
  <2>. QED
    BY <2>1, <2>2
<1>. QED
  BY <1>1, <1>7, <1>8, <1>9, <1>10 DEF WritesFairly

(* A tick chooses the jobs that are due in the file.                       *)
LEMMA CollectKeeps ==
  ASSUME CronInv, NEW s \in Services, Collect(s) PROVE CronInv'
<1>. DEFINE due == {j \in DOMAIN disk : Runnable(disk[j], now)}
            m == IF due = {} THEN Maintained(disk, now, TRUE) ELSE Mark(disk, due, now)
<1>1. /\ round[s] = "called" /\ Stores(s, m) /\ overwritten' = overwritten /\ Notices({})
      /\ round' = [round EXCEPT ![s] = IF due = {} THEN "sweeping" ELSE "working"]
      /\ work' = [work EXCEPT ![s]["tick"] = Waiting(due)] /\ own' = [own EXCEPT ![s] = TRUE]
      /\ UNCHANGED <<now, arranged, latest, stage, skip, stopped, timer, caller, copy, edits, wish>>
  BY Zenon DEF Collect, FromFile, Watched, serviceVars, userVars
<1>2. Types /\ Undisturbed /\ Attended /\ ServiceInv
  BY DEF CronInv, ServiceInv
<1>3. /\ GoodStore(m) /\ DOMAIN m = DOMAIN disk /\ (PatientStore(disk) => PatientStore(m))
      /\ \A j \in DOMAIN disk : /\ m[j].enabled = disk[j].enabled
                                /\ j \in due => m[j].running = now
                                /\ (j \notin due /\ m[j].running # Never) => disk[j].running # Never
  <2>1. CASE due = {}
    <3>1. PICK e \in BOOLEAN : e = TRUE
      OBVIOUS
    <3>2. /\ GoodStore(Maintained(disk, now, e)) /\ Tended(disk, Maintained(disk, now, e))
          /\ PatientStore(disk) => PatientStore(Maintained(disk, now, e))
      BY StoresAreGood, MaintainedStore
    <3>3. m = Maintained(disk, now, e)
      BY <2>1, <3>1
    <3>. HIDE DEF m, due
    <3>. QED
      BY <2>1, <3>2, <3>3 DEF Tended, Tidied
  <2>2. CASE due # {}
    <3>1. m = Mark(disk, due, now)
      BY <2>2
    <3>. HIDE DEF m, due
    <3>. QED
      BY <3>1, StoresAreGood, MarkedStore DEF AsBefore
  <2>. QED
    BY <2>1, <2>2
<1>4. /\ due \subseteq DOMAIN disk /\ due \subseteq Jobs
      /\ \A j \in due : disk[j].running = Never
  BY StoresAreGood DEF Runnable
<1>. HIDE DEF m, due
<1>5. /\ DOMAIN Waiting(due) = due /\ \A j \in due : RunOK(Waiting(due)[j], now)
  BY StoresAreGood, WaitingRuns
<1>6. /\ WorkTypes' /\ work'[s]["tick"] = Waiting(due)
      /\ \A z \in Services, d \in Batches : <<z, d>> # <<s, "tick">> => work'[z][d] = work[z][d]
  <2>1. BatchSet(s, "tick", Waiting(due))
    BY <1>1, <1>2 DEF Types, WorkTypes, BatchSet, Batches
  <2>2. "tick" \in Batches /\ now' = now
    BY <1>1 DEF Batches
  <2>3. WorkTypes'
    BY <1>2, <1>4, <1>5, <2>1, <2>2, BatchTypes
  <2>. QED
    BY <2>1, <2>3 DEF BatchSet
<1>7. \A z \in Services : round'[z] = IF z = s THEN IF due = {} THEN "sweeping" ELSE "working"
                                      ELSE round[z]
  BY <1>1, <1>2 DEF Types, FlagTypes
<1>8. ASSUME stale' \subseteq Services PROVE FlagTypes'
  <2>1. round' \in [Services -> Rounds] /\ unguarded' \subseteq Jobs
    BY <1>1, <1>2 DEF Types, FlagTypes, Rounds, Notices
  <2>2. own' \in [Services -> BOOLEAN]
    <3>1. PICK f \in BOOLEAN : f = TRUE
      OBVIOUS
    <3>. QED
      BY <1>1, <1>2, <3>1, FlagSet DEF Types, FlagTypes
  <2>. QED
    BY <1>1, <1>2, <1>8, <2>1, <2>2 DEF Types, FlagTypes
<1>9. CallTypes'
  BY <1>1, <1>2 DEF Types, CallTypes
<1>10. Attended'
  <2>1. ASSUME NEW z \in Services
        PROVE  /\ stage'[z] # "catchup" => DOMAIN work'[z]["start"] = {}
               /\ round'[z] # "working" => DOMAIN work'[z]["tick"] = {}
    <3>1. <<z, "start">> # <<s, "tick">> /\ (z # s => <<z, "tick">> # <<s, "tick">>)
      BY "start" # "tick"
    <3>2. work'[z]["start"] = work[z]["start"] /\ (z # s => work'[z]["tick"] = work[z]["tick"])
      BY <1>6, <3>1 DEF Batches
    <3>. QED
      BY <1>1, <1>2, <1>5, <1>6, <1>7, <3>2 DEF Attended
  <2>. QED
    BY <1>1, <1>2, <2>1 DEF Attended, Up, Alive
<1>11. ASSUME ~overwritten', Up(s) PROVE WritesFairly(m)
  <2>1. /\ \A j \in Jobs : Honours(wish[j], Kind(j), j, disk)
        /\ \A j \in DOMAIN disk : /\ disk[j].running # Never => AtWork(j)
                                  /\ (AtWork(j) /\ j \notin unguarded) => disk[j].running # Never
    BY <1>1, <1>2, <1>11, FileIsTrue, StoresAreGood DEF Attended, ServiceInv, Guarded
  <2>2. DOMAIN work[s]["tick"] = {}
    BY <1>1, <1>2 DEF Attended
  <2>3. DOMAIN work'[s]["tick"] = due /\ "tick" \in Batches
    BY <1>5, <1>6 DEF Batches
  <2>4. ChosenFrom(disk, m, due)
    BY <1>3, <1>4, <1>11, <2>1, StoresAreGood DEF ChosenFrom
  <2>. QED
    BY <1>1, <1>6, <1>11, <2>2, <2>3, <2>4, BatchStartsFairly
<1>12. Up(s)
  BY <1>1, <1>2 DEF Attended
<1>13. \A z \in Services \ {s} : (Up(z)' => Up(z)) /\ work'[z]["tick"] = work[z]["tick"]
  BY <1>1, <1>6 DEF Up, Batches
<1>14. edits' = 0 => edits = 0 /\ PatientStore(m) /\ UNCHANGED caller
  BY <1>1, <1>2, <1>3 DEF Undisturbed
<1>. QED
  BY <1>1, <1>3, <1>6, <1>8, <1>9, <1>10, <1>11, <1>12, <1>13, <1>14, SameCalls, SectionKeeps

(* The results of a tick.                                                  *)
LEMMA ApplyKeeps ==
  ASSUME CronInv, NEW s \in Services, Apply(s) PROVE CronInv'
<1>. DEFINE m == Maintained(WithOutcomes(disk, work[s]["tick"]), now, FALSE)
<1>1. /\ round[s] = "working" /\ Ended(work[s]["tick"])
      /\ Stores(s, m) /\ overwritten' = overwritten /\ Notices({})
      /\ round' = [round EXCEPT ![s] = "sweeping"]
      /\ work' = [work EXCEPT ![s]["tick"] = NoRuns] /\ own' = [own EXCEPT ![s] = FALSE]
      /\ UNCHANGED <<now, arranged, latest, stage, skip, stopped, timer, caller, copy, edits, wish>>
  BY Zenon DEF Apply, FromFile, Watched, serviceVars, userVars
<1>2. Types /\ Undisturbed /\ Attended /\ "tick" \in Batches
  BY DEF CronInv, ServiceInv, Batches
<1>3. /\ GoodStore(m) /\ DOMAIN m \subseteq DOMAIN disk
      /\ \A j \in DOMAIN disk \ DOMAIN m : Kind(j) = "at"
      /\ \A j \in DOMAIN m :
            /\ m[j].running # Never => j \notin DOMAIN work[s]["tick"] /\ disk[j].running # Never
            /\ m[j].enabled => disk[j].enabled
            /\ Kind(j) # "at" => m[j].enabled = disk[j].enabled
      /\ PatientStore(disk) => PatientStore(m)
  <2>1. RunsOver(work[s]["tick"])
    BY <1>1, <1>2, EndedIsOver
  <2>2. PICK runs : runs = work[s]["tick"]
    OBVIOUS
  <2>. QED
    BY <2>1, <2>2, AppliedStore
<1>. HIDE DEF m
<1>4. /\ WorkTypes' /\ DOMAIN work'[s]["tick"] = {}
      /\ \A z \in Services, d \in Batches : <<z, d>> # <<s, "tick">> => work'[z][d] = work[z][d]
  BY <1>1, <1>2, BatchCleared
<1>5. \A z \in Services : round'[z] = IF z = s THEN "sweeping" ELSE round[z]
  BY <1>1, <1>2 DEF Types, FlagTypes
<1>6. ASSUME stale' \subseteq Services PROVE FlagTypes'
  <2>1. round' \in [Services -> Rounds] /\ unguarded' \subseteq Jobs /\ own' \in [Services -> BOOLEAN]
    BY <1>1, <1>2, OwnReset DEF Types, FlagTypes, Rounds, Notices
  <2>. QED
    BY <1>1, <1>2, <1>6, <2>1 DEF Types, FlagTypes
<1>7. CallTypes'
  BY <1>1, <1>2 DEF Types, CallTypes
<1>8. Up(s)
  BY <1>1, <1>2 DEF Attended
<1>9. Attended'
  <2>1. ASSUME NEW z \in Services
        PROVE  /\ stage'[z] # "catchup" => DOMAIN work'[z]["start"] = {}
               /\ round'[z] # "working" => DOMAIN work'[z]["tick"] = {}
               /\ round'[z] # "idle" => Up(z)'
    <3>1. <<z, "start">> # <<s, "tick">> /\ (z # s => <<z, "tick">> # <<s, "tick">>)
      BY "start" # "tick"
    <3>2. work'[z]["start"] = work[z]["start"] /\ (z # s => work'[z]["tick"] = work[z]["tick"])
      BY <1>4, <3>1 DEF Batches
    <3>. QED
      BY <1>1, <1>2, <1>4, <1>5, <1>8, <3>2 DEF Attended, Up
  <2>. QED
    BY <1>1, <1>2, <2>1 DEF Attended, Up, Alive
<1>10. ASSUME ~overwritten' PROVE WritesFairly(m)
  BY <1>1, <1>2, <1>3, <1>4, <1>8, <1>10, BatchEndsFairly
<1>11. \A z \in Services \ {s} : (Up(z)' => Up(z)) /\ work'[z]["tick"] = work[z]["tick"]
  BY <1>1, <1>2, <1>4 DEF Up
<1>12. edits' = 0 => edits = 0 /\ PatientStore(m) /\ UNCHANGED caller
  BY <1>1, <1>2, <1>3 DEF Undisturbed
<1>. QED
  BY <1>1, <1>3, <1>4, <1>6, <1>7, <1>9, <1>10, <1>11, <1>12, SameCalls, SectionKeeps

(* The results of the missed jobs.                                         *)
LEMMA ApplyMissedKeeps ==
  ASSUME CronInv, NEW s \in Services, ApplyMissed(s) PROVE CronInv'
<1>. DEFINE m == Maintained(WithOutcomes(disk, work[s]["start"]), now, FALSE)
<1>1. /\ stage[s] = "catchup" /\ Ended(work[s]["start"])
      /\ Stores(s, m) /\ overwritten' = overwritten /\ Notices({})
      /\ stage' = [stage EXCEPT ![s] = "caughtup"]
      /\ work' = [work EXCEPT ![s]["start"] = NoRuns] /\ own' = [own EXCEPT ![s] = FALSE]
      /\ UNCHANGED <<now, arranged, latest, skip, stopped, round, timer, caller, copy, edits, wish>>
  BY Zenon DEF ApplyMissed, FromFile, Watched, userVars
<1>2. Types /\ Undisturbed /\ Attended /\ "start" \in Batches
  BY DEF CronInv, ServiceInv, Batches
<1>3. /\ GoodStore(m) /\ DOMAIN m \subseteq DOMAIN disk
      /\ \A j \in DOMAIN disk \ DOMAIN m : Kind(j) = "at"
      /\ \A j \in DOMAIN m :
            /\ m[j].running # Never => j \notin DOMAIN work[s]["start"] /\ disk[j].running # Never
            /\ m[j].enabled => disk[j].enabled
            /\ Kind(j) # "at" => m[j].enabled = disk[j].enabled
      /\ PatientStore(disk) => PatientStore(m)
  <2>1. RunsOver(work[s]["start"])
    BY <1>1, <1>2, EndedIsOver
  <2>2. PICK runs : runs = work[s]["start"]
    OBVIOUS
  <2>. QED
    BY <2>1, <2>2, AppliedStore
<1>. HIDE DEF m
<1>4. /\ WorkTypes' /\ DOMAIN work'[s]["start"] = {}
      /\ \A z \in Services, d \in Batches : <<z, d>> # <<s, "start">> => work'[z][d] = work[z][d]
  BY <1>1, <1>2, BatchCleared
<1>5. /\ \A z \in Services : stage'[z] = IF z = s THEN "caughtup" ELSE stage[z]
      /\ Up(s)
  BY <1>1, <1>2 DEF Types, FlagTypes, Up
<1>6. ASSUME stale' \subseteq Services PROVE FlagTypes'
  <2>1. stage' \in [Services -> Stages] /\ unguarded' \subseteq Jobs /\ own' \in [Services -> BOOLEAN]
    BY <1>1, <1>2, OwnReset DEF Types, FlagTypes, Stages, Notices
  <2>. QED
    BY <1>1, <1>2, <1>6, <2>1 DEF Types, FlagTypes
<1>7. CallTypes'
  BY <1>1, <1>2 DEF Types, CallTypes
<1>8. \A z \in Services : work'[z]["tick"] = work[z]["tick"]
  <2>1. \A z \in Services : <<z, "tick">> # <<s, "start">>
    BY "start" # "tick"
  <2>. QED
    BY <1>4, <2>1 DEF Batches
<1>9. Attended'
  <2>1. ASSUME NEW z \in Services
        PROVE  /\ stage'[z] # "catchup" => DOMAIN work'[z]["start"] = {}
               /\ round'[z] # "working" => DOMAIN work'[z]["tick"] = {}
               /\ round'[z] # "idle" => Up(z)'
               /\ Up(z)' = Up(z) /\ (z > latest => stage'[z] = "unborn")
    <3>1. z # s => work'[z]["start"] = work[z]["start"]
      BY <1>2, <1>4
    <3>. QED
      BY <1>1, <1>2, <1>4, <1>5, <1>8, <3>1 DEF Attended, Up
  <2>2. Alive(latest) => Alive(latest)'
    BY <1>1, <1>2, <1>5 DEF Alive, Types, FlagTypes, Services
  <2>. QED
    BY <1>1, <1>2, <2>1, <2>2 DEF Attended
<1>10. ASSUME ~overwritten' PROVE WritesFairly(m)
  BY <1>1, <1>2, <1>3, <1>4, <1>5, <1>10, BatchEndsFairly
<1>11. \A z \in Services \ {s} : (Up(z)' => Up(z)) /\ work'[z]["tick"] = work[z]["tick"]
  BY <1>5, <1>8 DEF Up
<1>12. edits' = 0 => edits = 0 /\ PatientStore(m) /\ UNCHANGED caller
  BY <1>1, <1>2, <1>3 DEF Undisturbed
<1>. QED
  BY <1>1, <1>3, <1>4, <1>6, <1>7, <1>9, <1>10, <1>11, <1>12, SameCalls, SectionKeeps

(* The missed jobs are chosen from memory.                                 *)
MissedJobs(s) == {j \in DOMAIN mem[s] \ skip[s] : Missed(j, mem[s][j], now)}

(* runMissedJobs chooses some, marks them and writes its memory.           *)
LEMMA MissedChosenKeeps ==
  ASSUME CronInv, NEW s \in Services, CollectMissed(s), NEW missed, missed # {},
         missed = MissedJobs(s)
  PROVE  CronInv'
<1>. DEFINE m == Mark(mem[s], missed, now)
<1>1. /\ stage[s] = "cleared" /\ Stores(s, m) /\ Notices({})
      /\ overwritten' = (overwritten \/ s \in stale)
      /\ stage' = [stage EXCEPT ![s] = "catchup"]
      /\ work' = [work EXCEPT ![s]["start"] = Waiting(missed)]
      /\ UNCHANGED <<now, arranged, latest, skip, stopped, round, own, timer, caller, copy, edits,
                     wish>>
  BY Zenon DEF CollectMissed, MissedJobs, FromMemory, Watched, tickVars, userVars
<1>2. Types /\ Undisturbed /\ Attended /\ "start" \in Batches
  BY DEF CronInv, ServiceInv, Batches
<1>3. /\ GoodStore(m) /\ DOMAIN m = DOMAIN mem[s] /\ (PatientStore(mem[s]) => PatientStore(m))
      /\ \A j \in DOMAIN mem[s] :
           /\ AsBefore(mem[s][j], m[j])
           /\ m[j].running = IF j \in missed THEN now ELSE mem[s][j].running
  BY StoresAreGood, MarkedStore
<1>4. /\ missed \subseteq DOMAIN mem[s] /\ missed \subseteq Jobs
      /\ \A j \in missed : mem[s][j].running = Never
  BY StoresAreGood DEF MissedJobs, Missed
<1>. HIDE DEF m
<1>5. /\ DOMAIN Waiting(missed) = missed /\ \A j \in missed : RunOK(Waiting(missed)[j], now)
  BY StoresAreGood, WaitingRuns
<1>6. /\ WorkTypes' /\ work'[s]["start"] = Waiting(missed)
      /\ \A z \in Services, d \in Batches : <<z, d>> # <<s, "start">> => work'[z][d] = work[z][d]
  <2>1. BatchSet(s, "start", Waiting(missed))
    BY <1>1, <1>2 DEF Types, WorkTypes, BatchSet, Batches
  <2>2. now' = now
    BY <1>1
  <2>3. WorkTypes'
    BY <1>2, <1>4, <1>5, <2>1, <2>2, BatchTypes
  <2>. QED
    BY <2>1, <2>3 DEF BatchSet
<1>7. /\ \A z \in Services : stage'[z] = IF z = s THEN "catchup" ELSE stage[z]
      /\ Up(s)
  BY <1>1, <1>2 DEF Types, FlagTypes, Up
<1>8. ASSUME stale' \subseteq Services PROVE FlagTypes'
  <2>1. stage' \in [Services -> Stages] /\ unguarded' \subseteq Jobs /\ overwritten' \in BOOLEAN
    BY <1>1, <1>2 DEF Types, FlagTypes, Stages, Notices
  <2>. QED
    BY <1>1, <1>2, <1>8, <2>1 DEF Types, FlagTypes
<1>9. CallTypes'
  BY <1>1, <1>2 DEF Types, CallTypes
<1>10. \A z \in Services : work'[z]["tick"] = work[z]["tick"]
  <2>1. \A z \in Services : <<z, "tick">> # <<s, "start">>
    BY "start" # "tick"
  <2>. QED
    BY <1>6, <2>1 DEF Batches
<1>11. Attended'
  <2>1. ASSUME NEW z \in Services
        PROVE  /\ stage'[z] # "catchup" => DOMAIN work'[z]["start"] = {}
               /\ round'[z] # "working" => DOMAIN work'[z]["tick"] = {}
               /\ round'[z] # "idle" => Up(z)'
               /\ Up(z)' = Up(z) /\ (z > latest => stage'[z] = "unborn")
    <3>1. z # s => work'[z]["start"] = work[z]["start"]
      BY <1>2, <1>6
    <3>. QED
      BY <1>1, <1>2, <1>7, <1>10, <3>1 DEF Attended, Up
  <2>2. Alive(latest) => Alive(latest)'
    BY <1>1, <1>2, <1>7 DEF Alive, Types, FlagTypes, Services
  <2>. QED
    BY <1>1, <1>2, <2>1, <2>2 DEF Attended
<1>12. ASSUME ~overwritten' PROVE WritesFairly(m)
  <2>1. ~overwritten /\ s \in Services \ stale
    BY <1>1, <1>12
  <2>2. /\ DOMAIN mem[s] = DOMAIN disk
        /\ \A j \in Jobs : Honours(wish[j], Kind(j), j, mem[s])
        /\ \A j \in DOMAIN mem[s] :
              /\ mem[s][j].running # Never => AtWork(j)
              /\ (AtWork(j) /\ j \notin unguarded) => mem[s][j].running # Never
    BY <1>7, <2>1, MemoryIsTrue
  <2>3. DOMAIN work[s]["start"] = {} /\ DOMAIN work'[s]["start"] = missed
    BY <1>1, <1>2, <1>5, <1>6 DEF Attended
  <2>4. \A j \in DOMAIN m : /\ m[j].enabled = mem[s][j].enabled
                            /\ (m[j].running # Never /\ j \notin missed) => mem[s][j].running # Never
                            /\ j \in missed => m[j].running # Never
    BY <1>3, StoresAreGood DEF AsBefore
  <2>5. ChosenFrom(mem[s], m, missed)
    BY <1>3, <1>4, <2>2, <2>4 DEF ChosenFrom
  <2>6. PICK k : ChosenFrom(k, m, missed)
    BY <2>5
  <2>7. PICK b \in Batches : b = "start"
    BY <1>2
  <2>8. /\ DOMAIN work[s][b] = {} /\ DOMAIN work'[s][b] = missed
        /\ \A z \in Services, d \in Batches : <<z, d>> # <<s, b>> => work'[z][d] = work[z][d]
    BY <1>6, <2>3, <2>7
  <2>9. UNCHANGED <<caller, wish>> /\ Notices({})
    BY <1>1
  <2>. QED
    BY <1>7, <2>1, <2>6, <2>7, <2>8, <2>9, BatchStartsFairly
<1>13. \A z \in Services \ {s} : (Up(z)' => Up(z)) /\ work'[z]["tick"] = work[z]["tick"]
  BY <1>7, <1>10 DEF Up
<1>14. edits' = 0 => edits = 0 /\ PatientStore(m) /\ UNCHANGED caller
  BY <1>1, <1>2, <1>3 DEF Undisturbed
<1>. QED
  BY <1>1, <1>3, <1>6, <1>8, <1>9, <1>11, <1>12, <1>13, <1>14, SameCalls, SectionKeeps

(* Every memory keeps the jobs, their settings and their slots; a marker   *)
(* is set only for a job of a tick, and taken off only if that is noticed. *)
MemoryKept(s) ==
  /\ GoodStore(mem'[s]) /\ (PatientStore(mem[s]) => PatientStore(mem'[s]))
  /\ DOMAIN mem'[s] = DOMAIN mem[s]
  /\ \A j \in DOMAIN mem[s] :
       /\ mem'[s][j].enabled = mem[s][j].enabled
       /\ (mem[s][j].enabled /\ mem[s][j].next # Never) => mem'[s][j].next = mem[s][j].next
       /\ mem'[s][j].running # Never =>
            mem[s][j].running # Never \/ j \in DOMAIN work[s]["tick"]
       /\ mem[s][j].running # Never =>
            mem'[s][j].running # Never \/ j \in unguarded' \/ ~AtWork(j)'
MemoriesKept == DOMAIN mem' = Services /\ \A s \in Services : MemoryKept(s)

(* The runs stay, and whose marker was taken off is remembered.            *)
RunsKept == \A j \in Jobs : /\ RunsOf(j)' = RunsOf(j)
                            /\ AtWork(j) => (j \in unguarded => j \in unguarded')

(* A step that leaves the file, the runs and the memories as they are, in  *)
(* all that matters.                                                       *)
LEMMA QuietKeeps ==
  ASSUME CronInv, UNCHANGED <<arranged, disk, stale, overwritten, wish>>,
         copy' = copy \/ copy'.jobs = disk, edits' = 0 => edits = 0,
         edits' = 0 => \A c \in Callers : caller'[c].stage = "idle",
         FlagTypes', WorkTypes', CallTypes', Attended', MemoriesKept, RunsKept,
         \A s \in Services : /\ Up(s)' => Up(s)
                             /\ DOMAIN work'[s]["tick"] = DOMAIN work[s]["tick"],
         Alive(latest)' => Alive(latest),
         \A c \in Callers : ByHand(c)' => /\ ByHand(c) /\ caller'[c].service = caller[c].service
                                          /\ caller'[c].job = caller[c].job
  PROVE  CronInv'
<1>1. Types /\ Undisturbed /\ ServiceInv /\ DOMAIN disk \subseteq Jobs
  BY StoresAreGood DEF CronInv
<1>10. DOMAIN mem' = Services /\ \A s \in Services : MemoryKept(s)
  BY DEF MemoriesKept
<1>2. Types'
  <2>1. StoreTypes'
    BY <1>10, <1>1 DEF Types, StoreTypes, MemoryKept, GoodStore, Kind
  <2>. QED
    BY <2>1 DEF Types
<1>3. Undisturbed'
  <2>1. ASSUME edits' = 0, NEW s \in Services PROVE PatientStore(mem'[s])
    BY <1>10, <1>1, <2>1 DEF Undisturbed, MemoryKept
  <2>2. ASSUME edits' = 0
        PROVE  PatientStore(disk)' /\ PatientStore(copy.jobs)' /\ \A s \in Services : PatientStore(mem[s])'
    BY <1>1, <2>1, <2>2 DEF Undisturbed, PatientStore, Kind
  <2>. QED
    BY <2>2 DEF Undisturbed
<1>4. \A j \in Jobs : AtWork(j)' = AtWork(j)
  BY DEF AtWork, RunsKept
<1>5. FreshMemories'
  <2>. SUFFICES ASSUME NEW s \in Services \ stale, Up(s)
                PROVE  DOMAIN mem'[s] = DOMAIN disk /\ \A j \in DOMAIN disk : Knows(s, j)'
    BY DEF FreshMemories
  <2>1. DOMAIN mem[s] = DOMAIN disk /\ \A j \in DOMAIN disk : Knows(s, j)
    BY <1>1 DEF ServiceInv, FreshMemories
  <2>2. MemoryKept(s) /\ DOMAIN work'[s]["tick"] = DOMAIN work[s]["tick"]
    BY <1>10
  <2>3. ASSUME NEW j \in DOMAIN disk PROVE Knows(s, j)'
    <3>1. Knows(s, j) /\ j \in Jobs /\ j \in DOMAIN mem[s]
      BY <1>1, <2>1
    <3>2. disk[j].next # Never => mem[s][j].next = disk[j].next /\ mem[s][j].enabled
      BY <3>1, <1>1 DEF Knows, Types, StoreTypes, GoodStore, JobOK
    <3>3. mem'[s][j].running # Never => disk[j].running # Never \/ j \in DOMAIN work[s]["tick"]
      BY <2>2, <3>1 DEF Knows, MemoryKept
    <3>4. (~overwritten /\ AtWork(j)' /\ j \notin unguarded') => mem'[s][j].running # Never
      BY <1>4, <2>2, <3>1 DEF Knows, MemoryKept, RunsKept
    <3>. QED
      BY <2>2, <3>1, <3>2, <3>3, <3>4 DEF Knows, MemoryKept
  <2>. QED
    BY <2>1, <2>2, <2>3 DEF MemoryKept
<1>6. Wishes'
  BY <1>1, <1>4 DEF ServiceInv, Wishes, Kind
<1>7. Guarded'
  <2>. SUFFICES ASSUME ~overwritten, NEW j \in Jobs \ unguarded'
                PROVE  /\ (AtWork(j)' /\ j \in DOMAIN disk) => disk[j].running # Never
                       /\ Lone(j)'
    BY DEF Guarded
  <2>1. CASE AtWork(j)
    <3>1. j \notin unguarded
      BY <2>1 DEF RunsKept
    <3>. QED
      BY <1>1, <1>4, <3>1 DEF ServiceInv, Guarded, Lone, RunsKept
  <2>2. CASE ~AtWork(j)
    BY <2>2, <1>4 DEF Lone, AtWork
  <2>. QED
    BY <2>1, <2>2
<1>8. Marked'
  BY <1>1, <1>4 DEF ServiceInv, Marked
<1>9. KnownByHand'
  <2>. SUFFICES ASSUME ~overwritten, NEW c \in Callers, ByHand(c)', caller'[c].job \in DOMAIN disk
                PROVE  caller'[c].job \in DOMAIN mem'[caller'[c].service]
    BY DEF KnownByHand
  <2>1. /\ caller[c].job \in DOMAIN mem[caller[c].service] /\ caller[c].service \in Services
        /\ caller'[c].service = caller[c].service /\ caller'[c].job = caller[c].job
    BY <1>1 DEF ServiceInv, KnownByHand, Attended, ByHand
  <2>. QED
    BY <1>10, <2>1 DEF MemoryKept
<1>. QED
  BY <1>2, <1>3, <1>5, <1>6, <1>7, <1>8, <1>9 DEF CronInv, ServiceInv

(* Memories that do not change are kept.                                   *)
LEMMA SameMemories == ASSUME CronInv, UNCHANGED mem PROVE MemoriesKept
<1>1. DOMAIN mem = Services /\ \A s \in Services : GoodStore(mem[s])
  BY DEF CronInv, Types, StoreTypes
<1>. QED
  BY <1>1 DEF MemoriesKept, MemoryKept

(* Upkeep in memory alone.                                                 *)
LEMMA TendedMemories ==
  ASSUME CronInv, NEW s \in Services, NEW m, m = Maintained(mem[s], now, FALSE),
         mem' = [mem EXCEPT ![s] = m], Notices(TakenOff(mem[s], m)),
         \A j \in Jobs : RunsOf(j)' = RunsOf(j)
  PROVE  MemoriesKept /\ RunsKept /\ unguarded' \subseteq Jobs
<1>1. /\ DOMAIN mem' = Services /\ mem'[s] = m
      /\ \A z \in Services \ {s} : mem'[z] = mem[z]
  BY DEF CronInv, Types, StoreTypes
<1>2. /\ GoodStore(m) /\ Tended(mem[s], m) /\ (PatientStore(mem[s]) => PatientStore(m))
      /\ \A j \in DOMAIN mem[s] :
           (mem[s][j].enabled /\ mem[s][j].next # Never) => m[j].next = mem[s][j].next
  <2>1. PICK e \in BOOLEAN : e = FALSE
    OBVIOUS
  <2>2. m = Maintained(mem[s], now, e)
    BY <2>1
  <2>3. /\ GoodStore(m) /\ Tended(mem[s], m) /\ (PatientStore(mem[s]) => PatientStore(m))
        /\ \A j \in DOMAIN mem[s] : (/\ mem[s][j].enabled /\ mem[s][j].next # Never
                                     /\ ~e \/ mem[s][j].lastRun < mem[s][j].next)
                                    => m[j].next = mem[s][j].next
    BY <2>2, StoresAreGood, MaintainedStore
  <2>. QED
    BY <2>1, <2>3
<1>3. /\ \A j \in TakenOff(mem[s], m) : AtWork(j)' => j \in unguarded' \/ j \notin Jobs
      /\ \A j \in Jobs : (j \in unguarded /\ AtWork(j)') => j \in unguarded'
      /\ unguarded' \subseteq Jobs
  BY DEF Notices, AtWork
<1>4. MemoryKept(s)
  <2>. SUFFICES ASSUME NEW j \in DOMAIN mem[s]
                PROVE  /\ m[j].enabled = mem[s][j].enabled
                       /\ m[j].running # Never => mem[s][j].running # Never
                       /\ mem[s][j].running # Never =>
                            m[j].running # Never \/ j \in unguarded' \/ ~AtWork(j)'
    BY <1>1, <1>2 DEF MemoryKept, Tended
  <2>1. m[j].enabled = mem[s][j].enabled /\ (m[j].running # Never => mem[s][j].running # Never)
    BY <1>2 DEF Tended, Tidied
  <2>2. j \in Jobs
    BY StoresAreGood
  <2>. QED
    BY <1>3, <2>1, <2>2 DEF TakenOff
<1>5. ASSUME NEW z \in Services \ {s} PROVE MemoryKept(z)
  <2>1. mem'[z] = mem[z] /\ GoodStore(mem[z])
    BY <1>1, StoresAreGood
  <2>. QED
    BY <2>1 DEF MemoryKept
<1>. QED
  BY <1>1, <1>3, <1>4, <1>5 DEF MemoriesKept, RunsKept, AtWork

(* No job was missed.                                                      *)
LEMMA NothingMissedKeeps ==
  ASSUME CronInv, NEW s \in Services, CollectMissed(s), MissedJobs(s) = {} PROVE CronInv'
<1>1. /\ stage[s] = "cleared" /\ stage' = [stage EXCEPT ![s] = "checked"] /\ Notices({})
      /\ UNCHANGED <<now, arranged, disk, mem, work, stale, overwritten, latest, skip, stopped, round,
                     own, timer, caller, copy, edits, wish>>
  BY Zenon DEF CollectMissed, MissedJobs, Watched, tickVars, userVars
<1>2. Types /\ Undisturbed /\ Attended
  BY DEF CronInv, ServiceInv
<1>3. \A z \in Services : stage'[z] = IF z = s THEN "checked" ELSE stage[z]
  BY <1>1, <1>2 DEF Types, FlagTypes
<1>4. FlagTypes'
  <2>1. stage' \in [Services -> Stages] /\ unguarded' \subseteq Jobs
    BY <1>1, <1>2 DEF Types, FlagTypes, Stages, Notices
  <2>. QED
    BY <1>1, <1>2, <2>1 DEF Types, FlagTypes
<1>5. WorkTypes' /\ CallTypes'
  BY <1>1, <1>2 DEF Types, WorkTypes, CallTypes
<1>6. \A z \in Services : Up(z)' = Up(z)
  BY <1>1, <1>3 DEF Up
<1>7. Alive(latest)' = Alive(latest)
  BY <1>1, <1>2, <1>3 DEF Alive, Types, FlagTypes, Services
<1>8. Attended'
  BY <1>1, <1>2, <1>3, <1>6, <1>7 DEF Attended
<1>9. \A j \in Jobs : RunsOf(j)' = RunsOf(j)
  BY <1>1, SameRuns
<1>10. RunsKept
  BY <1>1, <1>9 DEF RunsKept, Notices, AtWork
<1>11. MemoriesKept
  BY <1>1, SameMemories
<1>12. edits' = 0 => edits = 0 /\ \A c \in Callers : caller'[c].stage = "idle"
  BY <1>1, <1>2 DEF Undisturbed
<1>. QED
  BY <1>1, <1>4, <1>5, <1>6, <1>7, <1>8, <1>10, <1>11, <1>12, SameCalls, QuietKeeps

(* runMissedJobs, its first section.                                       *)
LEMMA CollectMissedKeeps ==
  ASSUME CronInv, NEW s \in Services, CollectMissed(s) PROVE CronInv'
<1>1. CASE MissedJobs(s) = {}
  BY <1>1, NothingMissedKeeps
<1>2. CASE MissedJobs(s) # {}
  BY <1>2, MissedChosenKeeps
<1>. QED
  BY <1>1, <1>2

(* Nobody calls.                                                           *)
LEMMA NoCallIsOK ==
  ASSUME now \in Times
  PROVE  CallOK(NoCall, now) /\ NoCall.stage = "idle" /\ ~(NoCall.stage \in {"running", "ended"})
<1>1. (CHOOSE j \in Jobs : TRUE) \in Jobs
  BY Constants
<1>2. PICK j \in Jobs : j = CHOOSE i \in Jobs : TRUE
  BY <1>1
<1>3. PICK f \in BOOLEAN : f = FALSE
  OBVIOUS
<1>4. NoCall = [stage |-> "idle", service |-> 0, job |-> j, force |-> f,
                run |-> [is |-> "waiting", from |-> Never, to |-> Never]]
  BY <1>2, <1>3 DEF NoCall
<1>. QED
  BY <1>4, Constants DEF CallOK, RunOK, RunStates, Outcomes, Times, Never

(* enqueueRun: upkeep in memory, and the call is queued or answered.       *)
LEMMA EnqueueRunKeeps ==
  ASSUME CronInv, NEW c \in Callers, NEW j \in Jobs, NEW force \in BOOLEAN, EnqueueRun(c, j, force)
  PROVE  CronInv'
<1>. DEFINE m == Maintained(mem[latest], now, FALSE)
            call == [NoCall EXCEPT !.stage = "queued", !.service = latest, !.job = j,
                                   !.force = force]
<1>1. /\ Serving(latest) /\ caller[c].stage = "idle" /\ edits < arranged.maxEdits
      /\ edits' = edits + 1 /\ mem' = [mem EXCEPT ![latest] = m]
      /\ caller' = [caller EXCEPT ![c] = call] \/ caller' = caller
      /\ UNCHANGED <<now, arranged, disk, latest, stage, skip, stopped, round, own, work, timer, copy,
                     wish, stale, overwritten>>
      /\ Notices(TakenOff(mem[latest], m))
  BY Zenon DEF EnqueueRun, serviceVars, tickVars
<1>2. Types /\ Undisturbed /\ Attended
  BY DEF CronInv, ServiceInv
<1>3. latest \in Services /\ Up(latest)
  BY <1>1, <1>2 DEF Serving, Alive, Up, Types, FlagTypes, Services
<1>4. CallOK(call, now) /\ call.stage = "queued" /\ call.service = latest
  <2>1. PICK n : n = NoCall
    OBVIOUS
  <2>2. CallOK(n, now)
    BY <2>1, StoresAreGood, NoCallIsOK
  <2>3. call = [n EXCEPT !.stage = "queued", !.service = latest, !.job = j, !.force = force]
    BY <2>1
  <2>4. latest \in 0..MaxServices
    BY <1>2 DEF Types, FlagTypes
  <2>. HIDE DEF call
  <2>. QED
    BY <2>2, <2>3, <2>4 DEF CallOK
<1>. HIDE DEF m, call
<1>5. /\ DOMAIN caller' = Callers
      /\ \A d \in Callers : caller'[d] = caller[d] \/ (d = c /\ caller'[d] = call)
  BY <1>1, <1>2 DEF Types, CallTypes
<1>6. \A i : RunsOf(i)' = RunsOf(i)
  <2>1. \A d \in Callers : (ByHand(d)' <=> ByHand(d)) /\ (ByHand(d) => caller'[d].job = caller[d].job)
    BY <1>1, <1>4, <1>5 DEF ByHand
  <2>2. ASSUME NEW i PROVE RunsOf(i)' = RunsOf(i)
    <3>1. \A d \in Callers : (caller'[d].stage \in {"running", "ended"} /\ caller'[d].job = i)
                               <=> (caller[d].stage \in {"running", "ended"} /\ caller[d].job = i)
      BY <2>1 DEF ByHand
    <3>. QED
      BY <1>1, <3>1 DEF RunsOf
  <2>. QED
    BY <2>2
<1>7. MemoriesKept /\ RunsKept /\ unguarded' \subseteq Jobs
  <2>1. PICK n : n = m
    OBVIOUS
  <2>2. n = Maintained(mem[latest], now, FALSE)
    BY <2>1 DEF m
  <2>. QED
    BY <1>1, <1>3, <1>6, <2>1, <2>2, TendedMemories
<1>8. FlagTypes'
  <2>1. edits' \in 0..arranged.maxEdits
    BY <1>1, <1>2, CaseTypes DEF Types, FlagTypes
  <2>. QED
    BY <1>1, <1>2, <1>7, <2>1 DEF Types, FlagTypes
<1>9. WorkTypes' /\ CallTypes'
  BY <1>1, <1>2, <1>4, <1>5 DEF Types, WorkTypes, CallTypes
<1>10. Attended'
  BY <1>1, <1>2, <1>3, <1>4, <1>5 DEF Attended, Up, Alive
<1>11. edits' # 0
  BY <1>1, <1>2, CaseTypes DEF Types, FlagTypes
<1>12. \A d \in Callers : ByHand(d)' => /\ ByHand(d) /\ caller'[d].service = caller[d].service
                                        /\ caller'[d].job = caller[d].job
  BY <1>4, <1>5 DEF ByHand
<1>13. /\ \A s \in Services : (Up(s)' => Up(s)) /\ DOMAIN work'[s]["tick"] = DOMAIN work[s]["tick"]
       /\ Alive(latest)' => Alive(latest)
  BY <1>1 DEF Up, Alive
<1>. QED
  BY <1>1, <1>7, <1>8, <1>9, <1>10, <1>11, <1>12, <1>13, QuietKeeps

(* A run of a batch changes, and no more than its marker in memory.        *)
LEMMA RunChanges ==
  ASSUME CronInv, NEW s \in Services, NEW b \in Batches, NEW j \in DOMAIN work[s][b], NEW r,
         RunOK(r, now), work' = [work EXCEPT ![s][b][j] = r], MemoriesKept,
         UNCHANGED <<now, arranged, disk, latest, stage, skip, stopped, round, own, timer, caller,
                     copy, edits, wish, unguarded, stale, overwritten>>
  PROVE  CronInv'
<1>1. Types /\ Undisturbed /\ Attended
  BY DEF CronInv, ServiceInv
<1>2. PICK runs : runs = [work[s][b] EXCEPT ![j] = r]
  OBVIOUS
<1>3. BatchSet(s, b, runs)
  BY <1>1, <1>2 DEF Types, WorkTypes, BatchSet
<1>4. /\ DOMAIN runs = DOMAIN work[s][b] /\ DOMAIN runs \subseteq Jobs
      /\ \A i \in DOMAIN runs : RunOK(runs[i], now)
  BY <1>1, <1>2 DEF Types, WorkTypes
<1>5. WorkTypes'
  BY <1>1, <1>3, <1>4, BatchTypes
<1>6. \A z \in Services, d \in Batches : DOMAIN work'[z][d] = DOMAIN work[z][d]
  BY <1>3, <1>4 DEF BatchSet
<1>7. \A i \in Jobs : RunsOf(i)' = RunsOf(i)
  BY <1>6, SameRuns
<1>8. RunsKept
  BY <1>7 DEF RunsKept
<1>9. FlagTypes' /\ CallTypes'
  BY <1>1 DEF Types, FlagTypes, CallTypes
<1>10. Attended'
  BY <1>1, <1>6 DEF Attended, Up, Alive, Batches
<1>11. edits' = 0 => edits = 0 /\ \A c \in Callers : caller'[c].stage = "idle"
  BY <1>1 DEF Undisturbed
<1>12. /\ \A z \in Services : (Up(z)' => Up(z)) /\ DOMAIN work'[z]["tick"] = DOMAIN work[z]["tick"]
       /\ Alive(latest)' => Alive(latest)
  BY <1>6 DEF Up, Alive, Batches
<1>. QED
  BY <1>5, <1>8, <1>9, <1>10, <1>11, <1>12, SameCalls, QuietKeeps

(* A run starts: on a tick its marker is set again.                        *)
LEMMA RunStartsKeeps ==
  ASSUME CronInv, NEW s \in Services, NEW b \in Batches, NEW j \in Jobs, RunStarts(s, b, j)
  PROVE  CronInv'
<1>. DEFINE r == [work[s][b][j] EXCEPT !.is = "running", !.from = now]
<1>1. /\ j \in DOMAIN work[s][b]
      /\ work' = [work EXCEPT ![s][b][j].is = "running", ![s][b][j].from = now]
      /\ mem' = IF b = "tick" /\ own[s] /\ j \in DOMAIN mem[s]
                  THEN [mem EXCEPT ![s][j].running = now] ELSE mem
      /\ UNCHANGED <<now, arranged, disk, latest, stage, skip, stopped, round, own, timer, caller,
                     copy, edits, wish, unguarded, stale, overwritten>>
  BY Zenon DEF RunStarts, serviceVars, tickVars, userVars, ghosts
<1>2. Types
  BY DEF CronInv
<1>3. RunOK(work[s][b][j], now) /\ now \in Times /\ now \in Nat /\ now # Never
  BY <1>1, <1>2, StoresAreGood DEF Types, WorkTypes
<1>4. RunOK(r, now)
  <2>1. PICK x : x = work[s][b][j]
    OBVIOUS
  <2>2. RunOK(x, now) /\ r = [x EXCEPT !.is = "running", !.from = now]
    BY <1>3, <2>1
  <2>. HIDE DEF r
  <2>. QED
    <3>1. x \in RunStates
      BY <2>2 DEF RunOK
    <3>2. r \in RunStates /\ r.is = "running" /\ r.from = now
      BY <1>3, <2>2, <3>1 DEF RunStates
    <3>. QED
      BY <1>3, <3>2 DEF RunOK, Outcomes
<1>5. work' = [work EXCEPT ![s][b][j] = r]
  BY <1>1, <1>2 DEF Types, WorkTypes
<1>6. MemoriesKept
  <2>1. CASE mem' = mem
    BY <2>1, SameMemories
  <2>2. CASE b = "tick" /\ j \in DOMAIN mem[s] /\ mem' = [mem EXCEPT ![s][j].running = now]
    <3>1. PICK x : x = [mem[s][j] EXCEPT !.running = now]
      OBVIOUS
    <3>2. /\ DOMAIN mem' = Services /\ mem'[s] = [mem[s] EXCEPT ![j] = x]
          /\ \A z \in Services \ {s} : mem'[z] = mem[z]
      BY <1>2, <2>2, <3>1 DEF Types, StoreTypes
    <3>3. JobOK(Kind(j), mem[s][j])
      BY <2>2, StoresAreGood DEF GoodStore
    <3>4. /\ JobOK(Kind(j), x) /\ AsBefore(mem[s][j], x) /\ x.running = now
          /\ Patient(Kind(j), mem[s][j]) => Patient(Kind(j), x)
      BY <1>3, <3>1, <3>3, RemarkedJob
    <3>5. /\ DOMAIN mem'[s] = DOMAIN mem[s] /\ mem'[s][j] = x
          /\ \A i \in DOMAIN mem[s] : i # j => mem'[s][i] = mem[s][i]
      BY <2>2, <3>2
    <3>6. MemoryKept(s)
      <4>1. GoodStore(mem[s])
        BY StoresAreGood
      <4>2. GoodStore(mem'[s])
        BY <3>4, <3>5, <4>1 DEF GoodStore
      <4>3. PatientStore(mem[s]) => PatientStore(mem'[s])
        BY <3>4, <3>5 DEF PatientStore
      <4>. QED
        BY <1>1, <1>3, <2>2, <3>4, <3>5, <4>2, <4>3 DEF MemoryKept, AsBefore
    <3>7. ASSUME NEW z \in Services \ {s} PROVE MemoryKept(z)
      <4>1. mem'[z] = mem[z] /\ GoodStore(mem[z])
        BY <3>2, StoresAreGood
      <4>. QED
        BY <4>1 DEF MemoryKept
    <3>. QED
      BY <3>2, <3>6, <3>7 DEF MemoriesKept
  <2>. QED
    BY <1>1, <2>1, <2>2
<1>7. UNCHANGED <<now, arranged, disk, latest, stage, skip, stopped, round, own, timer, caller,
                  copy, edits, wish, unguarded, stale, overwritten>>
  BY <1>1
<1>8. PICK x : RunOK(x, now) /\ work' = [work EXCEPT ![s][b][j] = x]
  BY <1>4, <1>5
<1>9. j \in DOMAIN work[s][b]
  BY <1>1
<1>. QED
  BY <1>6, <1>7, <1>8, <1>9, RunChanges

(* A run of a batch is over.                                               *)
LEMMA RunEndsKeeps ==
  ASSUME CronInv, NEW s \in Services, NEW b \in Batches, NEW j \in Jobs, RunEnds(s, b, j)
  PROVE  CronInv'
<1>1. /\ j \in DOMAIN work[s][b]
      /\ UNCHANGED <<now, arranged, disk, mem, latest, stage, skip, stopped, round, own, timer, caller,
                     copy, edits, wish, unguarded, stale, overwritten>>
  BY Zenon DEF RunEnds, serviceVars, tickVars, userVars, ghosts
<1>2. PICK o \in Outcomes : work' = [work EXCEPT ![s][b][j].is = o, ![s][b][j].to = now]
  BY DEF RunEnds, Endings, Outcomes
<1>3. PICK r : r = [work[s][b][j] EXCEPT !.is = o, !.to = now]
  OBVIOUS
<1>4. Types
  BY DEF CronInv
<1>5. RunOK(work[s][b][j], now) /\ now \in Times /\ now \in Nat
  BY <1>1, <1>4, StoresAreGood DEF Types, WorkTypes
<1>6. RunOK(r, now)
  BY <1>2, <1>3, <1>5, Constants DEF RunOK, RunStates, Times
<1>7. work' = [work EXCEPT ![s][b][j] = r]
  BY <1>1, <1>2, <1>3, <1>4 DEF Types, WorkTypes
<1>8. MemoriesKept
  BY <1>1, SameMemories
<1>. QED
  BY <1>1, <1>6, <1>7, <1>8, RunChanges

(* Timers, ticks and the stop of a service: only flags change.             *)
LEMMA FlagsKeep ==
  ASSUME CronInv, FlagTypes', Attended', RunsKept,
         UNCHANGED <<now, arranged, disk, mem, latest, stage, work, caller, copy, edits, wish, stale,
                     overwritten>>
  PROVE  CronInv'
<1>1. Types /\ Undisturbed
  BY DEF CronInv
<1>2. WorkTypes' /\ CallTypes'
  BY <1>1 DEF Types, WorkTypes, CallTypes
<1>3. MemoriesKept
  BY SameMemories
<1>4. edits' = 0 => edits = 0 /\ \A c \in Callers : caller'[c].stage = "idle"
  BY <1>1 DEF Undisturbed
<1>5. /\ \A z \in Services : (Up(z)' => Up(z)) /\ DOMAIN work'[z]["tick"] = DOMAIN work[z]["tick"]
      /\ Alive(latest)' => Alive(latest)
  BY DEF Up, Alive
<1>. QED
  BY <1>2, <1>3, <1>4, <1>5, SameCalls, QuietKeeps

(* No run starts or ends.                                                  *)
LEMMA NothingRuns == ASSUME UNCHANGED <<work, caller, unguarded>> PROVE RunsKept
<1>1. \A j : RunsOf(j)' = RunsOf(j)
  BY SameRuns
<1>. QED
  BY <1>1 DEF RunsKept

(* The timer rings.                                                        *)
LEMMA RingKeeps == ASSUME CronInv, NEW s \in Services, Ring(s) PROVE CronInv'
<1>1. /\ Alive(s) /\ round[s] = "idle" /\ round' = [round EXCEPT ![s] = "called"]
      /\ UNCHANGED <<now, arranged, disk, mem, latest, stage, skip, stopped, own, work, timer, caller,
                     copy, edits, wish, unguarded, stale, overwritten>>
  BY Zenon DEF Ring, serviceVars, userVars, ghosts
<1>2. Types /\ Attended
  BY DEF CronInv, ServiceInv
<1>3. \A z \in Services : round'[z] = IF z = s THEN "called" ELSE round[z]
  BY <1>1, <1>2 DEF Types, FlagTypes
<1>4. FlagTypes'
  <2>1. round' \in [Services -> Rounds]
    BY <1>1, <1>2 DEF Types, FlagTypes, Rounds
  <2>. QED
    BY <1>1, <1>2, <2>1 DEF Types, FlagTypes
<1>5. Attended'
  BY <1>1, <1>2, <1>3 DEF Attended, Up, Alive
<1>6. RunsKept
  BY <1>1, NothingRuns
<1>. QED
  BY <1>1, <1>4, <1>5, <1>6, FlagsKeep

(* The end of onTimer.                                                     *)
LEMMA RearmKeeps == ASSUME CronInv, NEW s \in Services, Rearm(s) PROVE CronInv'
<1>1. /\ round[s] = "sweeping" /\ round' = [round EXCEPT ![s] = "idle"]
      /\ timer' = [timer EXCEPT ![s] = Wakes(mem[s])]
      /\ UNCHANGED <<now, arranged, disk, mem, latest, stage, skip, stopped, own, work, caller, copy,
                     edits, wish, unguarded, stale, overwritten>>
  BY Zenon DEF Rearm, serviceVars, userVars, ghosts
<1>2. Types /\ Attended
  BY DEF CronInv, ServiceInv
<1>3. \A z \in Services : round'[z] = IF z = s THEN "idle" ELSE round[z]
  BY <1>1, <1>2 DEF Types, FlagTypes
<1>4. FlagTypes'
  <2>1. round' \in [Services -> Rounds] /\ timer' \in [Services -> BOOLEAN]
    BY <1>1, <1>2, TimerSet DEF Types, FlagTypes, Rounds
  <2>. QED
    BY <1>1, <1>2, <2>1 DEF Types, FlagTypes
<1>5. Attended'
  BY <1>1, <1>2, <1>3 DEF Attended, Up, Alive
<1>6. RunsKept
  BY <1>1, NothingRuns
<1>7. UNCHANGED <<now, arranged, disk, mem, latest, stage, work, caller, copy, edits, wish, stale,
                     overwritten>>
  BY <1>1
<1>. QED
  BY <1>4, <1>5, <1>6, <1>7, FlagsKeep

(* A service is stopped.                                                   *)
LEMMA StopKeeps == ASSUME CronInv, Stop PROVE CronInv'
<1>1. /\ stopped' = [stopped EXCEPT ![latest] = TRUE] /\ timer' = [timer EXCEPT ![latest] = FALSE]
      /\ UNCHANGED <<now, arranged, disk, mem, latest, stage, skip, round, own, work, caller, copy,
                     edits, wish, unguarded, stale, overwritten>>
  BY Zenon DEF Stop, tickVars, userVars, ghosts
<1>2. Types /\ Attended
  BY DEF CronInv, ServiceInv
<1>3. FlagTypes'
  <2>1. PICK t \in BOOLEAN, f \in BOOLEAN : t = TRUE /\ f = FALSE
    OBVIOUS
  <2>2. stopped' \in [Services -> BOOLEAN] /\ timer' \in [Services -> BOOLEAN]
    BY <1>1, <1>2, <2>1 DEF Types, FlagTypes
  <2>. QED
    BY <1>1, <1>2, <2>2 DEF Types, FlagTypes
<1>4. Attended'
  BY <1>1, <1>2 DEF Attended, Up, Alive
<1>5. RunsKept
  BY <1>1, NothingRuns
<1>6. UNCHANGED <<now, arranged, disk, mem, latest, stage, work, caller, copy, edits, wish, stale,
                     overwritten>>
  BY <1>1
<1>. QED
  BY <1>3, <1>4, <1>5, <1>6, FlagsKeep

(* Nothing at all.                                                         *)
LEMMA StutterKeeps == ASSUME CronInv, UNCHANGED vars PROVE CronInv'
<1>1. UNCHANGED <<now, arranged, disk, mem, latest, stage, skip, stopped, round, own, work, timer,
                  caller, copy, edits, wish, unguarded, stale, overwritten>>
  BY DEF vars, serviceVars, tickVars, userVars, ghosts
<1>2. FlagTypes' /\ Attended'
  BY <1>1 DEF CronInv, Types, FlagTypes, ServiceInv, Attended, Up, Alive
<1>3. RunsKept
  BY <1>1, NothingRuns
<1>. QED
  BY <1>1, <1>2, <1>3, FlagsKeep

(* A later moment is no objection to what has happened.                    *)
LEMMA LaterIsFine ==
  ASSUME NEW r, NEW t \in Nat, NEW u \in Nat, RunOK(r, t), t <= u PROVE RunOK(r, u)
<1>1. r.from \in Nat
  BY Constants DEF RunOK, RunStates, Times
<1>. QED
  BY <1>1 DEF RunOK

(* Time passes.                                                            *)
LEMMA PassKeeps == ASSUME CronInv, Pass PROVE CronInv'
<1>1. /\ now < MaxTime /\ now' = now + 1
      /\ UNCHANGED <<arranged, disk, mem, latest, stage, skip, stopped, round, own, work, timer,
                     caller, copy, edits, wish, unguarded, stale, overwritten>>
  BY Zenon DEF Pass, serviceVars, tickVars, userVars, ghosts
<1>2. Types /\ Undisturbed /\ Attended /\ now \in Nat
  BY TimeTypes DEF CronInv, ServiceInv
<1>3. now' \in Nat /\ now <= now' /\ now' \in Times /\ now' # Never
  BY <1>1, <1>2, Constants DEF Times, Never
<1>4. FlagTypes'
  BY <1>1, <1>2, <1>3 DEF Types, FlagTypes
<1>5. WorkTypes'
  BY <1>1, <1>2, <1>3, LaterIsFine DEF Types, WorkTypes
<1>6. CallTypes'
  BY <1>1, <1>2, <1>3, LaterIsFine DEF Types, CallTypes, CallOK
<1>7. Attended'
  BY <1>1, <1>2 DEF Attended, Up, Alive
<1>8. MemoriesKept /\ RunsKept
  BY <1>1, SameMemories, NothingRuns
<1>9. edits' = 0 => edits = 0 /\ \A c \in Callers : caller'[c].stage = "idle"
  BY <1>1, <1>2 DEF Undisturbed
<1>10. /\ \A z \in Services : (Up(z)' => Up(z)) /\ DOMAIN work'[z]["tick"] = DOMAIN work[z]["tick"]
       /\ Alive(latest)' => Alive(latest)
  BY <1>1 DEF Up, Alive
<1>. QED
  BY <1>1, <1>4, <1>5, <1>6, <1>7, <1>8, <1>9, <1>10, SameCalls, QuietKeeps

(* A delivery reads the file.                                              *)
LEMMA WritebackReadsKeeps == ASSUME CronInv, WritebackReads PROVE CronInv'
<1>1. /\ copy' = [taken |-> TRUE, jobs |-> disk]
      /\ UNCHANGED <<now, arranged, disk, mem, latest, stage, skip, stopped, round, own, work, timer,
                     caller, edits, wish, unguarded, stale, overwritten>>
  BY Zenon DEF WritebackReads, serviceVars, tickVars, userVars, ghosts
<1>2. Types /\ Undisturbed /\ Attended
  BY DEF CronInv, ServiceInv
<1>3. copy'.jobs = disk
  BY <1>1
<1>4. FlagTypes' /\ WorkTypes' /\ CallTypes'
  BY <1>1, <1>2 DEF Types, FlagTypes, WorkTypes, CallTypes
<1>5. Attended'
  BY <1>1, <1>2 DEF Attended, Up, Alive
<1>6. MemoriesKept /\ RunsKept
  BY <1>1, SameMemories, NothingRuns
<1>7. edits' = 0 => edits = 0 /\ \A c \in Callers : caller'[c].stage = "idle"
  BY <1>1, <1>2 DEF Undisturbed
<1>8. /\ \A z \in Services : (Up(z)' => Up(z)) /\ DOMAIN work'[z]["tick"] = DOMAIN work[z]["tick"]
      /\ Alive(latest)' => Alive(latest)
  BY <1>1 DEF Up, Alive
<1>9. UNCHANGED <<arranged, disk, stale, overwritten, wish, caller>>
  BY <1>1
<1>. QED
  BY <1>3, <1>4, <1>5, <1>6, <1>7, <1>8, <1>9, SameCalls, QuietKeeps

(* Calls that run the same jobs by hand as before.                         *)
LEMMA SameByHand ==
  ASSUME UNCHANGED work,
         \A c \in Callers : /\ ByHand(c)' <=> ByHand(c)
                            /\ ByHand(c) => caller'[c].job = caller[c].job
  PROVE  \A j : RunsOf(j)' = RunsOf(j)
<1>1. ASSUME NEW j PROVE RunsOf(j)' = RunsOf(j)
  <2>1. \A c \in Callers : (caller'[c].stage \in {"running", "ended"} /\ caller'[c].job = j)
                             <=> (caller[c].stage \in {"running", "ended"} /\ caller[c].job = j)
    BY DEF ByHand
  <2>. QED
    BY <2>1 DEF RunsOf
<1>. QED
  BY <1>1

(* A run by hand is over.                                                  *)
LEMMA ManualRunEndsKeeps == ASSUME CronInv, NEW c \in Callers, ManualRunEnds(c) PROVE CronInv'
<1>1. /\ caller[c].stage = "running"
      /\ UNCHANGED <<now, arranged, disk, mem, latest, stage, skip, stopped, round, own, work, timer,
                     copy, edits, wish, unguarded, stale, overwritten>>
  BY Zenon DEF ManualRunEnds, serviceVars, tickVars, userVars, ghosts
<1>2. PICK o \in Outcomes : caller' = [caller EXCEPT ![c].stage = "ended", ![c].run.is = o,
                                                     ![c].run.to = now]
  BY DEF ManualRunEnds, Endings, Outcomes
<1>3. Types /\ Undisturbed /\ Attended
  BY DEF CronInv, ServiceInv
<1>4. PICK x : x = caller[c]
  OBVIOUS
<1>5. CallOK(x, now) /\ DOMAIN caller = Callers
  BY <1>3, <1>4 DEF Types, CallTypes
<1>6. PICK y : y = [x EXCEPT !.stage = "ended", !.run.is = o, !.run.to = now]
  OBVIOUS
<1>7. caller' = [caller EXCEPT ![c] = y]
  BY <1>2, <1>4, <1>5, <1>6
<1>8. /\ y.stage = "ended" /\ y.service = x.service /\ y.job = x.job /\ CallOK(y, now)
  <2>1. PICK r : r = [x.run EXCEPT !.is = o, !.to = now]
    OBVIOUS
  <2>2. y = [x EXCEPT !.stage = "ended", !.run = r]
    BY <1>5, <1>6, <2>1 DEF CallOK
  <2>3. RunOK(x.run, now) /\ now \in Times /\ now \in Nat
    BY <1>5, StoresAreGood DEF CallOK
  <2>4. RunOK(r, now) /\ r.is = o
    BY <1>2, <2>1, <2>3, Constants DEF RunOK, RunStates, Times
  <2>. QED
    BY <1>2, <1>5, <2>2, <2>4 DEF CallOK, RunOK
<1>9. /\ DOMAIN caller' = Callers /\ caller'[c] = y
      /\ \A d \in Callers : d # c => caller'[d] = caller[d]
  BY <1>5, <1>7
<1>10. \A d \in Callers : /\ ByHand(d)' <=> ByHand(d)
                          /\ caller'[d].service = caller[d].service
                          /\ caller'[d].job = caller[d].job
  BY <1>1, <1>4, <1>8, <1>9 DEF ByHand
<1>11. RunsKept
  BY <1>1, <1>10, SameByHand DEF RunsKept
<1>12. FlagTypes' /\ WorkTypes' /\ CallTypes'
  BY <1>1, <1>3, <1>8, <1>9 DEF Types, FlagTypes, WorkTypes, CallTypes
<1>13. Attended'
  BY <1>1, <1>3, <1>4, <1>8, <1>9 DEF Attended, Up, Alive
<1>14. MemoriesKept
  BY <1>1, SameMemories
<1>15. edits' = 0 => edits = 0 /\ \A d \in Callers : caller'[d].stage = "idle"
  BY <1>1, <1>3 DEF Undisturbed
<1>16. /\ \A z \in Services : (Up(z)' => Up(z)) /\ DOMAIN work'[z]["tick"] = DOMAIN work[z]["tick"]
       /\ Alive(latest)' => Alive(latest)
  BY <1>1 DEF Up, Alive
<1>. QED
  BY <1>1, <1>10, <1>11, <1>12, <1>13, <1>14, <1>15, <1>16, QuietKeeps

(* A call that need not be made any more.                                  *)
LEMMA NotPreparedKeeps ==
  ASSUME CronInv, NEW c \in Callers, NEW s, s = caller[c].service, NEW m,
         m = Maintained(mem[s], now, FALSE), caller[c].stage = "queued",
         mem' = [mem EXCEPT ![s] = m], caller' = [caller EXCEPT ![c] = NoCall],
         Notices(TakenOff(mem[s], m)),
         UNCHANGED <<now, arranged, disk, latest, stage, skip, stopped, round, own, work, timer,
                     copy, edits, wish, stale, overwritten>>
  PROVE  CronInv'
<1>1. Types /\ Undisturbed /\ Attended
  BY DEF CronInv, ServiceInv
<1>2. s \in Services
  BY <1>1 DEF Attended
<1>3. CallOK(NoCall, now) /\ NoCall.stage = "idle"
  BY StoresAreGood, NoCallIsOK
<1>4. PICK y : y = NoCall
  OBVIOUS
<1>5. /\ DOMAIN caller' = Callers /\ caller'[c] = y
      /\ \A d \in Callers : d # c => caller'[d] = caller[d]
  BY <1>1, <1>4 DEF Types, CallTypes
<1>6. \A d \in Callers : /\ ByHand(d)' <=> ByHand(d)
                         /\ ByHand(d) => /\ caller'[d].service = caller[d].service
                                         /\ caller'[d].job = caller[d].job
  BY <1>3, <1>4, <1>5 DEF ByHand
<1>7. \A j \in Jobs : RunsOf(j)' = RunsOf(j)
  BY <1>6, SameByHand
<1>8. MemoriesKept /\ RunsKept /\ unguarded' \subseteq Jobs
  BY <1>2, <1>7, TendedMemories
<1>9. FlagTypes' /\ WorkTypes' /\ CallTypes'
  BY <1>1, <1>3, <1>4, <1>5, <1>8 DEF Types, FlagTypes, WorkTypes, CallTypes
<1>10. Attended'
  BY <1>1, <1>3, <1>4, <1>5 DEF Attended, Up, Alive
<1>11. edits' # 0
  BY <1>1 DEF Undisturbed
<1>12. /\ \A z \in Services : (Up(z)' => Up(z)) /\ DOMAIN work'[z]["tick"] = DOMAIN work[z]["tick"]
       /\ Alive(latest)' => Alive(latest)
  BY DEF Up, Alive
<1>. QED
  BY <1>6, <1>8, <1>9, <1>10, <1>11, <1>12, QuietKeeps

(* The job j of the memory k is marked after upkeep, which made k m.       *)
Reserves(k, j, m, n) ==
  /\ j \in DOMAIN k /\ DOMAIN m = DOMAIN k /\ DOMAIN n = DOMAIN m
  /\ \A i \in DOMAIN k : /\ m[i].enabled = k[i].enabled /\ n[i].enabled = k[i].enabled
                         /\ m[i].running # Never => k[i].running # Never
                         /\ i # j => n[i].running = m[i].running
  /\ m[j].running = Never /\ n[j].running # Never

(* Reserving the job of a call is fair.                                    *)
LEMMA ReservedFairly ==
  ASSUME CronInv, ~overwritten, NEW s \in Services \ stale, Up(s), NEW c \in Callers,
         NEW j, NEW m, NEW n, Reserves(mem[s], j, m, n),
         ~ByHand(c), ByHand(c)', caller'[c].job = j,
         UNCHANGED <<work, wish>>, \A d \in Callers \ {c} : caller'[d] = caller[d],
         Notices(TakenOff(mem[s], m))
  PROVE  WritesFairly(n)
<1>0. /\ j \in DOMAIN mem[s] /\ DOMAIN m = DOMAIN mem[s] /\ DOMAIN n = DOMAIN m
      /\ \A i \in DOMAIN mem[s] : /\ m[i].enabled = mem[s][i].enabled
                                  /\ n[i].enabled = mem[s][i].enabled
                                  /\ m[i].running # Never => mem[s][i].running # Never
                                  /\ i # j => n[i].running = m[i].running
      /\ m[j].running = Never /\ n[j].running # Never
  BY DEF Reserves
<1>1. ASSUME NEW i
      PROVE  /\ <<c, "manual">> \in RunsOf(i)' <=> i = j
             /\ RunsOf(i) \ {<<c, "manual">>} = RunsOf(i)' \ {<<c, "manual">>}
             /\ RunsOf(i) \subseteq RunsOf(i)'
             /\ i # j => RunsOf(i)' = RunsOf(i)
  <2>1. /\ <<c, "manual">> \in RunsOf(i) <=> ByHand(c) /\ caller[c].job = i
        /\ <<c, "manual">> \in RunsOf(i)' <=> ByHand(c)' /\ caller'[c].job = i
        /\ RunsOf(i) \ {<<c, "manual">>} = RunsOf(i)' \ {<<c, "manual">>}
    BY RunsOfCall
  <2>2. <<c, "manual">> \notin RunsOf(i) /\ (i # j => <<c, "manual">> \notin RunsOf(i)')
    BY <2>1
  <2>3. RunsOf(i) \subseteq RunsOf(i)' /\ (i # j => RunsOf(i)' = RunsOf(i))
    BY ONLY <2>1, <2>2
  <2>. QED
    BY <2>1, <2>3
<1>2. /\ DOMAIN mem[s] = DOMAIN disk /\ DOMAIN disk \subseteq Jobs
      /\ \A i \in Jobs : Honours(wish[i], Kind(i), i, mem[s]) /\ (wish[i] = "none" => ~AtWork(i))
      /\ \A i \in DOMAIN disk :
              /\ mem[s][i].running # Never => AtWork(i)
              /\ disk[i].running # Never => AtWork(i)
              /\ (AtWork(i) /\ i \notin unguarded) => mem[s][i].running # Never
  BY MemoryIsTrue, StoresAreGood
<1>3. \A i \in Jobs : Honours(wish[i], Kind(i), i, n)
  BY <1>0, <1>2, HonoursLike
<1>4. \A i \in Jobs : wish'[i] = "none" => ~AtWork(i)'
  <2>1. wish[j] # "none"
    BY <1>0, <1>2 DEF Honours
  <2>. QED
    BY <1>1, <1>2, <2>1 DEF AtWork
<1>5. \A i \in DOMAIN n : n[i].running # Never => AtWork(i)'
  <2>. SUFFICES ASSUME NEW i \in DOMAIN n, n[i].running # Never PROVE RunsOf(i)' # {}
    BY DEF AtWork
  <2>1. CASE i = j
    BY <1>1, <2>1
  <2>2. CASE i # j
    <3>1. AtWork(i)
      BY <1>0, <1>2, <2>2
    <3>. QED
      BY <1>1, <2>2, <3>1 DEF AtWork
  <2>. QED
    BY <2>1, <2>2
<1>6. ASSUME NEW i \in Jobs PROVE RunsMayChange(i, n)
  <2>1. CASE i = j
    <3>1. /\ <<c, "manual">> \in RunsOf(i)'
          /\ RunsOf(i) \ {<<c, "manual">>} = RunsOf(i)' \ {<<c, "manual">>}
          /\ i \in DOMAIN n /\ n[i].running # Never
          /\ ~AtWork(i) => i \in DOMAIN disk /\ disk[i].running = Never
      BY <1>0, <1>1, <1>2, <2>1
    <3>2. AtWork(i) => i \in unguarded \cup TakenOff(mem[s], m)
      BY <1>0, <1>2, <2>1 DEF TakenOff
    <3>. QED
      BY <3>1, <3>2, ChosenFairly
  <2>2. CASE i # j
    BY <1>1, <2>2 DEF RunsMayChange
  <2>. QED
    BY <2>1, <2>2
<1>. QED
  BY <1>0, <1>2, <1>3, <1>4, <1>5, <1>6 DEF WritesFairly

(* prepareManualRun reserves the job.                                      *)
LEMMA PreparedKeeps ==
  ASSUME CronInv, NEW c \in Callers, NEW s, s = caller[c].service, NEW j, j = caller[c].job,
         NEW m, m = Maintained(mem[s], now, FALSE), caller[c].stage = "queued",
         j \in DOMAIN m, m[j].running = Never, NEW n, n = Mark(m, {j}, now), FromMemory(s, n),
         caller' = [caller EXCEPT ![c].stage = "running", ![c].run.is = "running",
                                  ![c].run.from = now],
         Notices(TakenOff(mem[s], m)),
         UNCHANGED <<now, arranged, latest, stage, skip, stopped, round, own, work, timer, copy, edits,
                     wish>>
  PROVE  CronInv'
<1>1. Types /\ Undisturbed /\ Attended
  BY DEF CronInv, ServiceInv
<1>2. s \in Services /\ Up(s)
  BY <1>1 DEF Attended
<1>3. /\ GoodStore(m) /\ DOMAIN m = DOMAIN mem[s]
      /\ \A i \in DOMAIN mem[s] : /\ m[i].enabled = mem[s][i].enabled
                                  /\ m[i].running # Never => mem[s][i].running # Never
  <2>1. PICK e \in BOOLEAN : e = FALSE
    OBVIOUS
  <2>2. GoodStore(m) /\ Tended(mem[s], m)
    BY <1>2, <2>1, StoresAreGood, MaintainedStore
  <2>. QED
    BY <2>2 DEF Tended, Tidied
<1>4. /\ GoodStore(n) /\ DOMAIN n = DOMAIN m
      /\ \A i \in DOMAIN m : /\ n[i].enabled = m[i].enabled /\ (i # j => n[i].running = m[i].running)
                             /\ i = j => n[i].running = now
  <2>1. now \in Times
    BY StoresAreGood
  <2>2. /\ GoodStore(n) /\ DOMAIN n = DOMAIN m
        /\ \A i \in DOMAIN m : /\ AsBefore(m[i], n[i])
                               /\ n[i].running = IF i \in {j} THEN now ELSE m[i].running
    <3>1. PICK S : S = {j}
      OBVIOUS
    <3>2. n = Mark(m, S, now)
      BY <3>1
    <3>3. /\ GoodStore(n) /\ DOMAIN n = DOMAIN m
          /\ \A i \in DOMAIN m : /\ AsBefore(m[i], n[i])
                                 /\ n[i].running = IF i \in S THEN now ELSE m[i].running
      BY ONLY <1>3, <2>1, <3>2, MarkedStore
    <3>. QED
      BY <3>1, <3>3
  <2>. QED
    BY <2>2 DEF AsBefore
<1>5. PICK x : x = caller[c]
  OBVIOUS
<1>6. CallOK(x, now) /\ DOMAIN caller = Callers
  BY <1>1, <1>5 DEF Types, CallTypes
<1>7. PICK y : y = [x EXCEPT !.stage = "running", !.run.is = "running", !.run.from = now]
  OBVIOUS
<1>8. y.stage = "running" /\ y.service = x.service /\ y.job = x.job /\ CallOK(y, now)
  <2>1. PICK r : r = [x.run EXCEPT !.is = "running", !.from = now]
    OBVIOUS
  <2>2. y = [x EXCEPT !.stage = "running", !.run = r]
    BY <1>6, <1>7, <2>1 DEF CallOK
  <2>3. x.run \in RunStates /\ now \in Times /\ now \in Nat
    BY <1>6, StoresAreGood DEF CallOK, RunOK
  <2>4. r \in RunStates /\ r.is = "running" /\ r.from = now
    BY <2>1, <2>3 DEF RunStates
  <2>5. RunOK(r, now)
    BY <2>3, <2>4 DEF RunOK, Outcomes
  <2>. QED
    <3>1. y.stage = "running" /\ y.service = x.service /\ y.job = x.job /\ y.run = r
      BY <1>6, <2>2 DEF CallOK
    <3>2. y \in [stage : {"idle", "queued", "running", "ended"}, service : 0..MaxServices, job : Jobs,
                 force : BOOLEAN, run : RunStates]
      BY <1>6, <2>2, <2>4 DEF CallOK
    <3>. QED
      BY <2>5, <3>1, <3>2 DEF CallOK
<1>9. /\ DOMAIN caller' = Callers /\ caller'[c] = y
      /\ \A d \in Callers : d # c => caller'[d] = caller[d]
  BY <1>5, <1>6, <1>7
<1>10. /\ Stores(s, n) /\ overwritten' = (overwritten \/ s \in stale)
  BY DEF FromMemory
<1>11. ASSUME stale' \subseteq Services PROVE FlagTypes'
  <2>1. unguarded' \subseteq Jobs /\ overwritten' \in BOOLEAN
    BY <1>1, <1>10 DEF Types, FlagTypes, Notices
  <2>. QED
    BY <1>1, <1>11, <2>1 DEF Types, FlagTypes
<1>12. WorkTypes' /\ CallTypes'
  BY <1>1, <1>8, <1>9 DEF Types, WorkTypes, CallTypes
<1>13. Attended'
  BY <1>1, <1>2, <1>5, <1>8, <1>9 DEF Attended, Up, Alive
<1>14. ASSUME ~overwritten' PROVE WritesFairly(n)
  <2>1. ~overwritten /\ s \in Services \ stale
    BY <1>2, <1>10, <1>14
  <2>2. ~ByHand(c) /\ ByHand(c)' /\ caller'[c].job = j
    BY <1>5, <1>8, <1>9 DEF ByHand
  <2>3. Reserves(mem[s], j, m, n)
    <3>1. n[j].running # Never /\ j \in DOMAIN mem[s]
      BY <1>3, <1>4, StoresAreGood
    <3>2. m[j].running = Never
      OBVIOUS
    <3>. QED
      BY ONLY <1>3, <1>4, <3>1, <3>2 DEF Reserves
  <2>. QED
    BY <1>2, <1>9, <2>1, <2>2, <2>3, ReservedFairly
<1>15. edits' # 0
  BY <1>1 DEF Undisturbed
<1>16. \A z \in Services \ {s} : (Up(z)' => Up(z)) /\ work'[z]["tick"] = work[z]["tick"]
  BY DEF Up
<1>17. \A d \in Callers : ByHand(d)' =>
            \/ caller'[d].service = s
            \/ /\ ByHand(d) /\ caller'[d].service = caller[d].service
               /\ caller'[d].job = caller[d].job
  BY <1>5, <1>8, <1>9 DEF ByHand
<1>18. overwritten => overwritten'
  BY <1>10
<1>. QED
  BY <1>2, <1>4, <1>10, <1>11, <1>12, <1>13, <1>14, <1>15, <1>16, <1>17, <1>18, SectionKeeps

(* prepareManualRun                                                        *)
LEMMA PrepareKeeps == ASSUME CronInv, NEW c \in Callers, Prepare(c) PROVE CronInv'
<1>1. PICK s : s = caller[c].service
  OBVIOUS
<1>2. PICK j : j = caller[c].job
  OBVIOUS
<1>3. PICK m : m = Maintained(mem[s], now, FALSE)
  OBVIOUS
<1>4. /\ caller[c].stage = "queued" /\ Notices(TakenOff(mem[s], m))
      /\ UNCHANGED <<now, arranged, latest, stage, skip, stopped, round, own, work, timer, copy, edits,
                     wish>>
  BY Zenon, <1>1, <1>3 DEF Prepare, serviceVars, tickVars, userVars
<1>5. \/ /\ MayRun(m, j, caller[c].force) /\ Reserve(s, Mark(m, {j}, now))
         /\ caller' = [caller EXCEPT ![c].stage = "running", ![c].run.is = "running",
                                            ![c].run.from = now]
      \/ /\ mem' = [mem EXCEPT ![s] = m] /\ caller' = [caller EXCEPT ![c] = NoCall]
         /\ UNCHANGED <<disk, stale, overwritten>>
  BY Zenon, <1>1, <1>2, <1>3 DEF Prepare
<1>6. CASE MayRun(m, j, caller[c].force) /\ Reserve(s, Mark(m, {j}, now))
           /\ caller' = [caller EXCEPT ![c].stage = "running", ![c].run.is = "running",
                                            ![c].run.from = now]
  <2>1. j \in DOMAIN m /\ m[j].running = Never
    BY <1>6 DEF MayRun
  <2>2. PICK n : n = Mark(m, {j}, now)
    OBVIOUS
  <2>3. FromMemory(s, n)
    BY <1>6, <2>2 DEF Reserve
  <2>. QED
    BY <1>1, <1>2, <1>3, <1>4, <1>6, <2>1, <2>2, <2>3, PreparedKeeps
<1>7. CASE /\ mem' = [mem EXCEPT ![s] = m] /\ caller' = [caller EXCEPT ![c] = NoCall]
           /\ UNCHANGED <<disk, stale, overwritten>>
  BY <1>1, <1>3, <1>4, <1>7, NotPreparedKeeps
<1>. QED
  BY <1>5, <1>6, <1>7

(* A delivery writes back what it has read.                                *)
LEMMA WritebackSavesKeeps == ASSUME CronInv, WritebackSaves PROVE CronInv'
<1>1. /\ disk' = copy.jobs /\ copy' = NoCopy
      /\ stale' = IF disk = copy.jobs THEN stale ELSE Services
      /\ overwritten' = (overwritten \/ disk # copy.jobs)
      /\ UNCHANGED <<now, arranged, mem, latest, stage, skip, stopped, round, own, work, timer,
                     caller, edits, wish, unguarded>>
  BY Zenon DEF WritebackSaves, serviceVars, tickVars, userVars
<1>2. Types /\ Undisturbed /\ ServiceInv /\ Attended /\ overwritten \in BOOLEAN
  BY DEF CronInv, ServiceInv, Types, FlagTypes
<1>3. copy'.jobs = NoStore
  BY <1>1 DEF NoCopy
<1>4. /\ GoodStore(disk)' /\ GoodStore(copy.jobs)' /\ \A s \in Services : GoodStore(mem[s])'
  BY <1>1, <1>2, <1>3, EmptyStore DEF Types, StoreTypes, GoodStore, Kind
<1>5. Types'
  <2>1. FlagTypes'
    BY <1>1, <1>2 DEF Types, FlagTypes
  <2>2. StoreTypes'
    BY <1>1, <1>2, <1>4 DEF Types, StoreTypes
  <2>3. WorkTypes' /\ CallTypes'
    BY <1>1, <1>2 DEF Types, WorkTypes, CallTypes
  <2>. QED
    BY <2>1, <2>2, <2>3 DEF Types
<1>6. Undisturbed'
  BY <1>1, <1>2, <1>3, EmptyStore DEF Undisturbed, PatientStore, Kind
<1>7. Attended'
  BY <1>1, <1>2 DEF Attended, Up, Alive
<1>8. \A j : RunsOf(j)' = RunsOf(j)
  BY <1>1, SameRuns
<1>9. CASE disk = copy.jobs
  <2>1. UNCHANGED <<disk, stale, overwritten>>
    BY <1>1, <1>2, <1>9
  <2>2. FreshMemories'
    BY <1>1, <1>2, <1>8, <2>1 DEF ServiceInv, FreshMemories, Knows, Up, AtWork
  <2>3. Wishes' /\ Guarded' /\ Marked'
    BY <1>1, <1>2, <1>8, <2>1 DEF ServiceInv, Wishes, Guarded, Marked, AtWork, Lone, Kind, Alive
  <2>4. KnownByHand'
    BY <1>1, <1>2, <2>1 DEF ServiceInv, KnownByHand, ByHand
  <2>. QED
    BY <1>5, <1>6, <1>7, <2>2, <2>3, <2>4 DEF CronInv, ServiceInv
<1>10. CASE disk # copy.jobs
  <2>1. overwritten' /\ stale' = Services
    BY <1>1, <1>10
  <2>2. FreshMemories' /\ Wishes' /\ Guarded' /\ Marked' /\ KnownByHand'
    BY <2>1 DEF FreshMemories, Wishes, Guarded, Marked, KnownByHand
  <2>. QED
    BY <1>5, <1>6, <1>7, <2>2 DEF CronInv, ServiceInv
<1>. QED
  BY <1>9, <1>10

(* Every service goes, with all it had.                                    *)
LEMMA CrashKeeps == ASSUME CronInv, Crash PROVE CronInv'
<1>1. /\ latest \in 1..(MaxServices - 1)
      /\ stage' = [s \in Services |-> IF Alive(s) THEN "dead" ELSE stage[s]]
      /\ mem' = [s \in Services |-> NoStore]
      /\ round' = [s \in Services |-> "idle"]
      /\ work' = [s \in Services |-> [b \in Batches |-> NoRuns]]
      /\ skip' = [s \in Services |-> {}]
      /\ caller' = [c \in Callers |-> NoCall]
      /\ copy' = NoCopy /\ unguarded' = {} /\ stale' = {}
      /\ UNCHANGED <<now, arranged, disk, latest, stopped, edits, wish, overwritten>>
  BY Zenon DEF Crash, userVars
<1>2. Types /\ Undisturbed /\ ServiceInv /\ Attended
  BY DEF CronInv, ServiceInv
<1>3. own' = [s \in Services |-> FALSE] /\ timer' = [s \in Services |-> FALSE]
  BY Zenon DEF Crash
<1>4. /\ copy'.jobs = NoStore /\ GoodStore(NoStore) /\ PatientStore(NoStore)
      /\ DOMAIN NoRuns = {} /\ DOMAIN NoStore = {}
  BY <1>1, EmptyStore DEF NoCopy, NoRuns, NoStore
<1>5. PICK nobody : nobody = NoCall
  OBVIOUS
<1>6. CallOK(nobody, now) /\ nobody.stage = "idle"
  BY <1>5, StoresAreGood, NoCallIsOK
<1>7. PICK nothing : nothing = NoRuns
  OBVIOUS
<1>8. PICK empty : empty = NoStore
  OBVIOUS
<1>9. /\ DOMAIN work' = Services /\ \A s \in Services : DOMAIN work'[s] = Batches
      /\ \A s \in Services, b \in Batches : DOMAIN work'[s][b] = {}
  <2>1. work' = [s \in Services |-> [b \in Batches |-> nothing]] /\ DOMAIN nothing = {}
    BY <1>1, <1>4, <1>7
  <2>. QED
    BY <2>1
<1>10. DOMAIN caller' = Callers /\ \A c \in Callers : caller'[c] = nobody
  BY <1>1, <1>5
<1>11. /\ DOMAIN mem' = Services /\ \A s \in Services : mem'[s] = empty
       /\ DOMAIN empty = {}
  BY <1>1, <1>4, <1>8
<1>12. /\ \A s \in Services : ~Up(s)' /\ (s > latest => stage'[s] = "unborn")
       /\ ~Alive(latest)'
       /\ stage' \in [Services -> Stages]
  <2>1. ASSUME NEW s \in Services
        PROVE  /\ stage'[s] \in {"unborn", "dead"} /\ stage'[s] \in Stages
               /\ s > latest => stage'[s] = "unborn"
    <3>1. stage'[s] = IF Alive(s) THEN "dead" ELSE stage[s]
      BY <1>1
    <3>2. s # 0 /\ stage[s] \in Stages
      BY <1>2 DEF Types, FlagTypes, Services
    <3>3. Alive(s) <=> stage[s] \notin {"unborn", "dead"}
      BY <3>2 DEF Alive
    <3>. QED
      BY <1>2, <3>1, <3>2, <3>3 DEF Attended, Stages
  <2>2. latest \in Services
    BY <1>1, Constants DEF Services
  <2>. QED
    BY <1>1, <2>1, <2>2 DEF Up, Alive
<1>13. Types'
  <2>1. own' \in [Services -> BOOLEAN] /\ timer' \in [Services -> BOOLEAN]
    BY <1>3
  <2>2. round' \in [Services -> Rounds] /\ skip' \in [Services -> SUBSET Jobs]
    BY <1>1 DEF Rounds
  <2>3. FlagTypes'
    BY <1>1, <1>2, <1>12, <2>1, <2>2 DEF Types, FlagTypes
  <2>4. StoreTypes'
    BY <1>1, <1>2, <1>4, <1>8, <1>11 DEF Types, StoreTypes, GoodStore, Kind
  <2>5. WorkTypes'
    BY <1>9 DEF WorkTypes
  <2>6. CallTypes'
    BY <1>1, <1>6, <1>10 DEF CallTypes
  <2>. QED
    BY <2>3, <2>4, <2>5, <2>6 DEF Types
<1>14. Undisturbed'
  BY <1>1, <1>2, <1>4, <1>6, <1>8, <1>10, <1>11 DEF Undisturbed, PatientStore, Kind
<1>15. Attended'
  BY <1>1, <1>6, <1>9, <1>10, <1>12 DEF Attended, Batches
<1>16. \A j : RunsOf(j)' = {}
  BY <1>6, <1>9, <1>10 DEF RunsOf
<1>17. FreshMemories' /\ Marked'
  BY <1>12 DEF FreshMemories, Marked
<1>18. Wishes' /\ Guarded'
  BY <1>1, <1>2, <1>16 DEF ServiceInv, Wishes, Guarded, AtWork, Lone, Kind
<1>19. KnownByHand'
  BY <1>6, <1>10 DEF KnownByHand, ByHand
<1>. QED
  BY <1>13, <1>14, <1>15, <1>17, <1>18, <1>19 DEF CronInv, ServiceInv

(* What a run by hand makes of the file.                                   *)
AfterManual(c, s, j) ==
  LET done == WithResult(j, mem[s][j], caller[c].run, caller[c].force)
  IN  IF Deleted(j, caller[c].run) THEN [i \in DOMAIN disk \ {j} |-> disk[i]]
      ELSE IF j \in DOMAIN disk THEN Merged(disk, j, done) ELSE disk

(* Only the job that ran is any different, and it has no marker.           *)
LEMMA MergedStore ==
  ASSUME CronInv, NEW c \in Callers, NEW s \in Services, NEW j \in DOMAIN mem[s],
         caller[c].stage = "ended", NEW m, m = AfterManual(c, s, j)
  PROVE  /\ FitStore(m) /\ DOMAIN m \subseteq DOMAIN disk
         /\ \A i \in DOMAIN disk \ DOMAIN m : i = j /\ Kind(i) = "at"
         /\ \A i \in DOMAIN m : i # j => m[i] = disk[i]
         /\ j \in DOMAIN m => /\ m[j].running = Never
                              /\ m[j].enabled => mem[s][j].enabled
                              /\ Kind(j) # "at" => m[j].enabled = mem[s][j].enabled
<1>1. CallOK(caller[c], now) /\ caller[c].run.is \in Outcomes
  BY DEF CronInv, Types, CallTypes, CallOK
<1>2. /\ FitStore(disk) /\ DOMAIN disk \subseteq Jobs /\ j \in Jobs /\ JobFit(Kind(j), mem[s][j])
      /\ now \in Times /\ arranged \in Cases
  BY StoresAreGood DEF FitStore
<1>0. PICK done : done = WithResult(j, mem[s][j], caller[c].run, caller[c].force)
  OBVIOUS
<1>7. m = IF Deleted(j, caller[c].run) THEN [i \in DOMAIN disk \ {j} |-> disk[i]]
          ELSE IF j \in DOMAIN disk THEN Merged(disk, j, done) ELSE disk
  BY Zenon, <1>0 DEF AfterManual
<1>3. /\ JobFit(Kind(j), done) /\ done.running = Never /\ (done.enabled => mem[s][j].enabled)
      /\ Kind(j) # "at" => done.enabled = mem[s][j].enabled
      /\ Kind(j) = "at" => done.next = Never \/ done.status = "error"
  <2>1. PICK x : x = mem[s][j]
    OBVIOUS
  <2>2. PICK r : r = caller[c].run
    OBVIOUS
  <2>3. PICK force \in BOOLEAN : force = caller[c].force
    BY <1>1 DEF CallOK
  <2>4. RunOK(r, now) /\ r.is \in Outcomes /\ JobFit(Kind(j), x)
    BY <1>1, <1>2, <2>1, <2>2 DEF CallOK
  <2>5. done = WithResult(j, x, r, force)
    BY <1>0, <2>1, <2>2, <2>3
  <2>. QED
    BY ONLY <1>2, <2>1, <2>3, <2>4, <2>5, WithResultJob
<1>4. CASE Deleted(j, caller[c].run)
  <2>1. m = [i \in DOMAIN disk \ {j} |-> disk[i]]
    BY <1>4, <1>7
  <2>2. Kind(j) = "at"
    BY <1>4 DEF Deleted
  <2>3. DOMAIN m = DOMAIN disk \ {j} /\ \A i \in DOMAIN m : m[i] = disk[i]
    BY ONLY <2>1
  <2>. QED
    BY ONLY <1>2, <2>2, <2>3 DEF FitStore
<1>5. CASE ~Deleted(j, caller[c].run) /\ j \in DOMAIN disk
  <2>1. PICK y : y = [done EXCEPT !.at = disk[j].at]
    OBVIOUS
  <2>2. m = [disk EXCEPT ![j] = y]
    BY <1>5, <1>7, <2>1 DEF Merged
  <2>3. /\ DOMAIN m = DOMAIN disk /\ m[j] = y
        /\ \A i \in DOMAIN disk : i # j => m[i] = disk[i]
    BY ONLY <1>5, <2>2
  <2>4. disk[j].at \in Nat
    BY <1>2, <1>5 DEF FitStore, JobFit, JobStates
  <2>5. /\ y \in JobStates /\ y.running = done.running /\ y.enabled = done.enabled
        /\ y.next = done.next /\ y.status = done.status
    BY ONLY <1>3, <2>1, <2>4 DEF JobFit, JobStates
  <2>6. JobFit(Kind(j), y)
    BY ONLY <1>3, <2>5 DEF JobFit
  <2>. QED
    BY ONLY <1>2, <1>3, <2>3, <2>5, <2>6 DEF FitStore
<1>6. CASE ~Deleted(j, caller[c].run) /\ j \notin DOMAIN disk
  <2>1. m = disk
    BY <1>6, <1>7
  <2>. QED
    BY ONLY <1>2, <1>6, <2>1
<1>. QED
  BY <1>4, <1>5, <1>6

(* The end of a call: of its runs there is one less.                       *)
LEMMA CallOver ==
  ASSUME CronInv, NEW c \in Callers, caller' = [caller EXCEPT ![c] = NoCall], UNCHANGED work
  PROVE  /\ DOMAIN caller' = Callers /\ CallOK(caller'[c], now) /\ caller'[c].stage = "idle"
         /\ \A d \in Callers : d # c => caller'[d] = caller[d]
         /\ \A j : RunsOf(j)' \subseteq RunsOf(j)
         /\ \A j : j # caller[c].job => RunsOf(j)' = RunsOf(j)
<1>1. CallOK(NoCall, now) /\ NoCall.stage = "idle"
  BY StoresAreGood, NoCallIsOK
<1>2. PICK y : y = NoCall
  OBVIOUS
<1>3. /\ DOMAIN caller' = Callers /\ caller'[c] = y
      /\ \A d \in Callers : d # c => caller'[d] = caller[d]
  BY <1>2 DEF CronInv, Types, CallTypes
<1>4. ASSUME NEW j
      PROVE  /\ RunsOf(j)' \subseteq RunsOf(j)
             /\ j # caller[c].job => RunsOf(j)' = RunsOf(j)
  <2>1. \A d \in Callers \ {c} : caller'[d] = caller[d]
    BY <1>3
  <2>2. UNCHANGED work
    OBVIOUS
  <2>3. /\ <<c, "manual">> \in RunsOf(j) <=> ByHand(c) /\ caller[c].job = j
        /\ <<c, "manual">> \in RunsOf(j)' <=> ByHand(c)' /\ caller'[c].job = j
        /\ RunsOf(j) \ {<<c, "manual">>} = RunsOf(j)' \ {<<c, "manual">>}
    BY ONLY <2>1, <2>2, c \in Callers, RunsOfCall
  <2>4. ~ByHand(c)'
    BY ONLY <1>1, <1>2, <1>3 DEF ByHand
  <2>5. /\ <<c, "manual">> \notin RunsOf(j)'
        /\ j # caller[c].job => <<c, "manual">> \notin RunsOf(j)
    BY ONLY <2>3, <2>4
  <2>. QED
    BY ONLY <2>3, <2>5
<1>. QED
  BY ONLY <1>1, <1>2, <1>3, <1>4

(* finishPreparedManualRun, of a job the service still has.                *)
LEMMA MergedKeeps ==
  ASSUME CronInv, NEW c \in Callers, NEW s, s = caller[c].service, NEW j, j = caller[c].job,
         caller[c].stage = "ended", j \in DOMAIN mem[s], NEW m, m = AfterManual(c, s, j),
         NEW n, n = Maintained(m, now, TRUE), FromMemory(s, n), Notices({}),
         timer' = [timer EXCEPT ![s] = Wakes(disk')], own' = [own EXCEPT ![s] = FALSE],
         caller' = [caller EXCEPT ![c] = NoCall],
         UNCHANGED <<now, arranged, latest, stage, skip, stopped, round, work, copy, edits, wish>>
  PROVE  CronInv'
<1>1. Types /\ Undisturbed /\ Attended
  BY DEF CronInv, ServiceInv
<1>2. s \in Services /\ Up(s)
  BY <1>1 DEF Attended
<1>3. /\ FitStore(m) /\ DOMAIN m \subseteq DOMAIN disk
      /\ \A i \in DOMAIN disk \ DOMAIN m : i = j /\ Kind(i) = "at"
      /\ \A i \in DOMAIN m : i # j => m[i] = disk[i]
      /\ j \in DOMAIN m => /\ m[j].running = Never
                           /\ m[j].enabled => mem[s][j].enabled
                           /\ Kind(j) # "at" => m[j].enabled = mem[s][j].enabled
  BY <1>2, MergedStore
<1>4. /\ GoodStore(n) /\ DOMAIN n = DOMAIN m
      /\ \A i \in DOMAIN m : /\ n[i].enabled = m[i].enabled
                             /\ n[i].running # Never => m[i].running # Never
  <2>1. PICK e \in BOOLEAN : e = TRUE
    OBVIOUS
  <2>2. n = Maintained(m, now, e) /\ arranged \in Cases /\ now \in Nat
    BY <2>1, StoresAreGood
  <2>3. GoodStore(n) /\ Tended(m, n)
    BY ONLY <1>3, <2>1, <2>2, MaintainedStore
  <2>. QED
    BY ONLY <2>3 DEF Tended, Tidied
<1>5. /\ DOMAIN caller' = Callers /\ CallOK(caller'[c], now) /\ caller'[c].stage = "idle"
      /\ \A d \in Callers : d # c => caller'[d] = caller[d]
      /\ \A i : RunsOf(i)' \subseteq RunsOf(i)
      /\ \A i : i # j => RunsOf(i)' = RunsOf(i)
  BY CallOver
<1>6. Stores(s, n) /\ overwritten' = (overwritten \/ s \in stale)
  BY DEF FromMemory
<1>7. ASSUME stale' \subseteq Services PROVE FlagTypes'
  <2>1. unguarded' \subseteq Jobs /\ overwritten' \in BOOLEAN
    BY <1>1, <1>6 DEF Types, FlagTypes, Notices
  <2>2. own' \in [Services -> BOOLEAN] /\ timer' \in [Services -> BOOLEAN]
    BY <1>1, <1>2, OwnReset, TimerSet DEF Types, FlagTypes
  <2>. QED
    BY <1>1, <1>7, <2>1, <2>2 DEF Types, FlagTypes
<1>8. WorkTypes' /\ CallTypes'
  BY <1>1, <1>5 DEF Types, WorkTypes, CallTypes
<1>9. Attended'
  BY <1>1, <1>5 DEF Attended, Up, Alive
<1>10. ASSUME ~overwritten' PROVE WritesFairly(n)
  <2>1. ~overwritten /\ s \in Services \ stale
    BY <1>2, <1>6, <1>10
  <2>2. /\ DOMAIN mem[s] = DOMAIN disk
        /\ mem[s][j].enabled = disk[j].enabled
        /\ \A i \in DOMAIN disk : disk[i].running # Never => AtWork(i)
    BY <1>2, <2>1, MemoryIsTrue
  <2>3. \A i \in Jobs : Honours(wish[i], Kind(i), i, disk) /\ (wish[i] = "none" => ~AtWork(i))
    BY <2>1, FileIsTrue
  <2>4. \A i \in Jobs : Honours(wish[i], Kind(i), i, n)
    <3>1. ASSUME NEW i \in Jobs PROVE Honours(wish[i], Kind(i), i, n)
      <4>1. i \in DOMAIN n => /\ i \in DOMAIN disk /\ (n[i].enabled => disk[i].enabled)
                              /\ Kind(i) # "at" => n[i].enabled = disk[i].enabled
        BY ONLY <1>3, <1>4, <2>2
      <4>2. Kind(i) # "at" /\ i \in DOMAIN disk => i \in DOMAIN n
        BY ONLY <1>3, <1>4
      <4>. QED
        BY ONLY <2>3, <3>1, <4>1, <4>2 DEF Honours
    <3>. QED
      BY <3>1
  <2>5. \A i \in Jobs : wish'[i] = "none" => ~AtWork(i)'
    BY <1>5, <2>3 DEF AtWork
  <2>6. \A i \in DOMAIN n : n[i].running # Never => AtWork(i)'
    <3>1. ASSUME NEW i \in DOMAIN n, n[i].running # Never PROVE i # j /\ AtWork(i)
      BY ONLY <1>3, <1>4, <2>2, <3>1
    <3>. QED
      BY ONLY <1>5, <3>1 DEF AtWork
  <2>. QED
    BY <1>3, <1>4, <1>5, <2>4, <2>5, <2>6 DEF WritesFairly, RunsMayChange
<1>11. edits' # 0
  BY <1>1 DEF Undisturbed
<1>12. \A z \in Services \ {s} : (Up(z)' => Up(z)) /\ work'[z]["tick"] = work[z]["tick"]
  BY DEF Up
<1>13. \A d \in Callers : ByHand(d)' => /\ ByHand(d) /\ caller'[d].service = caller[d].service
                                        /\ caller'[d].job = caller[d].job
  BY <1>5 DEF ByHand
<1>14. UNCHANGED <<arranged, copy>> /\ (overwritten => overwritten')
  BY <1>6
<1>. QED
  BY ONLY CronInv, Notices({}), <1>2, <1>4, <1>6, <1>7, <1>8, <1>9, <1>10, <1>11, <1>12, <1>13, <1>14,
          SectionKeeps

(* The same, of a job the service has no more.                             *)
LEMMA ForgottenKeeps ==
  ASSUME CronInv, NEW c \in Callers, caller[c].stage = "ended",
         caller[c].job \notin DOMAIN mem[caller[c].service], Notices({}),
         caller' = [caller EXCEPT ![c] = NoCall],
         UNCHANGED <<now, arranged, disk, mem, latest, stage, skip, stopped, round, own, work, timer,
                     copy, edits, wish, stale, overwritten>>
  PROVE  CronInv'
<1>1. Types /\ Undisturbed /\ Attended /\ ServiceInv
  BY DEF CronInv, ServiceInv
<1>2. /\ DOMAIN caller' = Callers /\ CallOK(caller'[c], now) /\ caller'[c].stage = "idle"
      /\ \A d \in Callers : d # c => caller'[d] = caller[d]
      /\ \A i : RunsOf(i)' \subseteq RunsOf(i)
      /\ \A i : i # caller[c].job => RunsOf(i)' = RunsOf(i)
  BY CallOver
<1>3. /\ unguarded' \subseteq Jobs
      /\ \A i \in Jobs : AtWork(i)' => AtWork(i) /\ (i \in unguarded => i \in unguarded')
  BY <1>2 DEF Notices, AtWork
<1>4. Types'
  <2>1. FlagTypes' /\ WorkTypes' /\ CallTypes'
    BY <1>1, <1>2, <1>3 DEF Types, FlagTypes, WorkTypes, CallTypes
  <2>2. StoreTypes'
    BY <1>1 DEF Types, StoreTypes, GoodStore, Kind
  <2>. QED
    BY <2>1, <2>2 DEF Types
<1>5. Undisturbed'
  BY <1>1 DEF Undisturbed
<1>6. Attended'
  BY <1>1, <1>2 DEF Attended, Up, Alive
<1>7. FreshMemories'
  <2>. SUFFICES ASSUME NEW s \in Services \ stale, Up(s)
                PROVE  DOMAIN mem[s] = DOMAIN disk /\ \A i \in DOMAIN disk : Knows(s, i)'
    BY DEF FreshMemories, Up
  <2>1. DOMAIN mem[s] = DOMAIN disk /\ \A i \in DOMAIN disk : Knows(s, i)
    BY <1>1 DEF ServiceInv, FreshMemories
  <2>2. DOMAIN disk \subseteq Jobs
    BY StoresAreGood
  <2>. QED
    BY <1>3, <2>1, <2>2 DEF Knows
<1>8. Wishes'
  BY <1>1, <1>3 DEF ServiceInv, Wishes, Kind
<1>9. Guarded'
  <2>. SUFFICES ASSUME ~overwritten, NEW i \in Jobs \ unguarded'
                PROVE  /\ (AtWork(i)' /\ i \in DOMAIN disk) => disk[i].running # Never
                       /\ Lone(i)'
    BY DEF Guarded
  <2>1. CASE AtWork(i)'
    <3>1. AtWork(i) /\ i \notin unguarded /\ RunsOf(i)' \subseteq RunsOf(i)
      BY <1>2, <1>3, <2>1
    <3>. QED
      BY <1>1, <3>1 DEF ServiceInv, Guarded, Lone
  <2>2. CASE ~AtWork(i)'
    BY <2>2 DEF AtWork, Lone
  <2>. QED
    BY <2>1, <2>2
<1>10. Marked'
  <2>. SUFFICES ASSUME Alive(latest), ~overwritten, NEW i \in DOMAIN disk, disk[i].running # Never
                PROVE  AtWork(i)'
    BY DEF Marked, Alive
  <2>1. i # caller[c].job
    BY <1>1 DEF ServiceInv, KnownByHand, ByHand
  <2>2. AtWork(i)
    BY <1>1 DEF ServiceInv, Marked
  <2>. QED
    BY <1>2, <2>1, <2>2 DEF AtWork
<1>11. KnownByHand'
  BY <1>1, <1>2 DEF ServiceInv, KnownByHand, ByHand
<1>. QED
  BY <1>4, <1>5, <1>6, <1>7, <1>8, <1>9, <1>10, <1>11 DEF CronInv, ServiceInv

(* finishPreparedManualRun                                                 *)
LEMMA FinishManualKeeps == ASSUME CronInv, NEW c \in Callers, FinishManual(c) PROVE CronInv'
<1>1. PICK s : s = caller[c].service
  OBVIOUS
<1>2. PICK j : j = caller[c].job
  OBVIOUS
<1>4. PICK m : m = AfterManual(c, s, j)
  OBVIOUS
<1>5. PICK n : n = Maintained(m, now, TRUE)
  OBVIOUS
<1>6. /\ caller[c].stage = "ended" /\ Notices({}) /\ caller' = [caller EXCEPT ![c] = NoCall]
      /\ UNCHANGED <<now, arranged, latest, stage, skip, stopped, round, work, copy, edits, wish>>
  BY Zenon DEF FinishManual, Watched, serviceVars, userVars
<1>7. IF j \in DOMAIN mem[s]
        THEN /\ FromMemory(s, n)
             /\ timer' = [timer EXCEPT ![s] = Wakes(disk')]
             /\ own' = [own EXCEPT ![s] = FALSE]
        ELSE UNCHANGED <<mem, disk, timer, own, stale, overwritten>>
  BY Zenon, <1>1, <1>2, <1>4, <1>5 DEF FinishManual, AfterManual
<1>8. CASE j \in DOMAIN mem[s]
  <2>1. FromMemory(s, n)
    BY Zenon, <1>7, <1>8
  <2>2. timer' = [timer EXCEPT ![s] = Wakes(disk')] /\ own' = [own EXCEPT ![s] = FALSE]
    BY Zenon, <1>7, <1>8
  <2>. QED
    BY <1>1, <1>2, <1>4, <1>5, <1>6, <1>8, <2>1, <2>2, MergedKeeps
<1>9. CASE j \notin DOMAIN mem[s]
  BY <1>1, <1>2, <1>6, <1>7, <1>9, ForgottenKeeps
<1>. QED
  BY <1>8, <1>9

-----------------------------------------------------------------------------
(* The edits of the user.                                                  *)

(* What he wants is what the new store says; he marks nothing.             *)
EditsFairly(m, w) ==
  /\ \A j \in Jobs : Honours(w[j], Kind(j), j, m) /\ (w[j] = "none" => ~AtWork(j))
  /\ \A j \in DOMAIN m : m[j].running # Never => AtWork(j)
  /\ \A j \in DOMAIN m \ DOMAIN disk : ~AtWork(j)

(* An edit that writes fairly keeps the invariant.                         *)
LEMMA EditKeeps ==
  ASSUME CronInv, Serving(latest), NEW m, GoodStore(m),
         NEW w \in [Jobs -> {"none", "on", "off", "gone"}], Edit(latest, m, w),
         ~overwritten /\ latest \notin stale => EditsFairly(m, w)
  PROVE  CronInv'
<1>1. /\ edits < arranged.maxEdits /\ edits' = edits + 1 /\ Stores(latest, m) /\ Notices({})
      /\ overwritten' = (overwritten \/ latest \in stale)
      /\ timer' = [timer EXCEPT ![latest] = Wakes(m)] /\ wish' = w
      /\ UNCHANGED <<now, arranged, latest, stage, skip, stopped, round, own, work, caller, copy>>
  BY Zenon DEF Edit, FromMemory, Watched, serviceVars, tickVars
<1>2. Types /\ Undisturbed /\ Attended
  BY DEF CronInv, ServiceInv
<1>3. latest \in Services /\ Up(latest)
  BY <1>2 DEF Serving, Alive, Up, Types, FlagTypes, Services
<1>4. edits' \in 0..arranged.maxEdits /\ edits' # 0
  BY <1>1, <1>2, CaseTypes, Constants DEF Types, FlagTypes
<1>5. ASSUME stale' \subseteq Services PROVE FlagTypes'
  <2>1. timer' \in [Services -> BOOLEAN]
    BY <1>1, <1>2, <1>3, TimerSet DEF Types, FlagTypes
  <2>2. unguarded' \subseteq Jobs /\ overwritten' \in BOOLEAN
    BY <1>1, <1>2 DEF Types, FlagTypes, Notices
  <2>. QED
    BY <1>1, <1>2, <1>4, <1>5, <2>1, <2>2 DEF Types, FlagTypes
<1>6. WorkTypes' /\ CallTypes'
  BY <1>1, <1>2 DEF Types, WorkTypes, CallTypes
<1>7. Attended'
  BY <1>1, <1>2 DEF Attended, Up, Alive
<1>8. ASSUME ~overwritten' PROVE WritesFairly(m)
  <2>1. \A j : RunsOf(j)' = RunsOf(j)
    BY <1>1, SameRuns
  <2>2. EditsFairly(m, w)
    BY <1>1, <1>8
  <2>. QED
    BY ONLY <1>1, <2>1, <2>2 DEF EditsFairly, WritesFairly, AtWork, RunsMayChange
<1>9. \A z \in Services \ {latest} : (Up(z)' => Up(z)) /\ work'[z]["tick"] = work[z]["tick"]
  BY <1>1 DEF Up
<1>. QED
  BY <1>1, <1>3, <1>4, <1>5, <1>6, <1>7, <1>8, <1>9, SameCalls, SectionKeeps

(* One job of the store that serves becomes y, and the user wants v of it. *)
LEMMA ReplacedKeeps ==
  ASSUME CronInv, Serving(latest), NEW j \in DOMAIN mem[latest], NEW y, JobOK(Kind(j), y),
         y.running # Never => mem[latest][j].running # Never,
         NEW v \in {"none", "on", "off", "gone"}, NEW m, m = [mem[latest] EXCEPT ![j] = y],
         NEW w, w = [wish EXCEPT ![j] = v], Edit(latest, m, w),
         \/ v = "on" /\ y.enabled
         \/ v = "off" /\ ~y.enabled
         \/ v = wish[j] /\ y.enabled = mem[latest][j].enabled
  PROVE  CronInv'
<1>1. /\ latest \in Services /\ Up(latest) /\ GoodStore(mem[latest]) /\ DOMAIN mem[latest] \subseteq Jobs
      /\ wish \in [Jobs -> {"none", "on", "off", "gone"}]
  BY StoresAreGood DEF Serving, Alive, Up, CronInv, Types, FlagTypes, Services
<1>2. /\ DOMAIN m = DOMAIN mem[latest] /\ m[j] = y
      /\ \A i \in DOMAIN m : i # j => m[i] = mem[latest][i]
  OBVIOUS
<1>3. /\ w \in [Jobs -> {"none", "on", "off", "gone"}] /\ w[j] = v
      /\ \A i \in Jobs : i # j => w[i] = wish[i]
  BY <1>1
<1>4. GoodStore(m)
  BY <1>1, <1>2 DEF GoodStore
<1>5. ASSUME ~overwritten, latest \notin stale PROVE EditsFairly(m, w)
  <2>1. /\ DOMAIN mem[latest] = DOMAIN disk
        /\ \A i \in Jobs : Honours(wish[i], Kind(i), i, mem[latest]) /\ (wish[i] = "none" => ~AtWork(i))
        /\ \A i \in DOMAIN disk : mem[latest][i].running # Never => AtWork(i)
    BY <1>1, <1>5, MemoryIsTrue
  <2>2. \A i \in DOMAIN m : m[i].running # Never => AtWork(i)
    BY <1>2, <2>1
  <2>3. ASSUME NEW i \in Jobs PROVE Honours(w[i], Kind(i), i, m) /\ (w[i] = "none" => ~AtWork(i))
    <3>1. CASE i = j
      <4>1. Honours(wish[j], Kind(j), j, mem[latest]) /\ (wish[j] = "none" => ~AtWork(j))
        BY <2>1, <3>1
      <4>. QED
        BY <1>2, <1>3, <3>1, <4>1 DEF Honours
    <3>2. CASE i # j
      BY <1>2, <1>3, <2>1, <3>2 DEF Honours
    <3>. QED
      BY <3>1, <3>2
  <2>. QED
    BY <1>2, <2>1, <2>2, <2>3 DEF EditsFairly
<1>. QED
  BY <1>3, <1>4, <1>5, EditKeeps

(* A job that is at rest.                                                  *)
LEMMA RestingJob ==
  ASSUME NEW kind, NEW x \in JobStates, NEW y, y = AtRest(x)
  PROVE  JobOK(kind, y) /\ y.running = Never /\ y.enabled = x.enabled
<1>1. Never \in Times /\ Never \in Nat
  BY Constants DEF Never, Times
<1>2. y = [x EXCEPT !.next = Never, !.running = Never]
  BY DEF AtRest
<1>3. y \in JobStates /\ y.next = Never /\ y.running = Never /\ y.enabled = x.enabled
  BY ONLY <1>1, <1>2 DEF JobStates
<1>. QED
  BY ONLY <1>3 DEF JobOK, JobFit

(* update() with "enabled".                                                *)
LEMMA SetEnabledKeeps ==
  ASSUME CronInv, NEW j \in Jobs, NEW on \in BOOLEAN, SetEnabled(j, on) PROVE CronInv'
<1>1. PICK x : x = mem[latest][j]
  OBVIOUS
<1>2. PICK job : job = [x EXCEPT !.enabled = on]
  OBVIOUS
<1>3. PICK y : y = IF on THEN Advanced(j, job, now) ELSE AtRest(job)
  OBVIOUS
<1>4. PICK v : v = IF on THEN "on" ELSE "off"
  OBVIOUS
<1>5. PICK m : m = [mem[latest] EXCEPT ![j] = y]
  OBVIOUS
<1>6. PICK w : w = [wish EXCEPT ![j] = v]
  OBVIOUS
<1>7. Serving(latest) /\ j \in DOMAIN mem[latest] /\ Edit(latest, m, w)
  BY Zenon, <1>1, <1>2, <1>3, <1>4, <1>5, <1>6 DEF SetEnabled
<1>8. /\ arranged \in Cases /\ now \in Nat /\ x \in JobStates
  <2>1. latest \in Services
    BY <1>7 DEF Serving, Alive, CronInv, Types, FlagTypes, Services
  <2>. QED
    BY <1>1, <1>7, <2>1, StoresAreGood DEF GoodStore, JobOK, JobFit
<1>9. job \in JobStates /\ job.enabled = on /\ job.running = x.running
  BY ONLY <1>2, <1>8, on \in BOOLEAN DEF JobStates
<1>10. JobOK(Kind(j), y) /\ y.enabled = on /\ (y.running # Never => x.running # Never)
  <2>1. CASE on
    <3>1. y = Advanced(j, job, now)
      BY ONLY <1>3, <2>1
    <3>. QED
      BY ONLY <1>8, <1>9, <3>1, j \in Jobs, AdvancedJob DEF Tidied
  <2>2. CASE ~on
    <3>1. y = AtRest(job)
      BY ONLY <1>3, <2>2
    <3>. QED
      BY ONLY <1>9, <3>1, RestingJob
  <2>. QED
    BY ONLY <2>1, <2>2
<1>11. v \in {"none", "on", "off", "gone"} /\ (on => v = "on") /\ (~on => v = "off")
  BY ONLY <1>4
<1>12. y.running # Never => mem[latest][j].running # Never
  BY ONLY <1>1, <1>10
<1>13. \/ v = "on" /\ y.enabled
       \/ v = "off" /\ ~y.enabled
       \/ v = wish[j] /\ y.enabled = mem[latest][j].enabled
  BY ONLY <1>10, <1>11
<1>. QED
  BY ONLY CronInv, <1>5, <1>6, <1>7, <1>10, <1>11, <1>12, <1>13, ReplacedKeeps

(* update() with another time for a job that runs once.                    *)
LEMMA RescheduleKeeps ==
  ASSUME CronInv, NEW j \in Jobs, NEW t \in (now + 1)..MaxTime, Reschedule(j, t) PROVE CronInv'
<1>1. PICK x : x = mem[latest][j]
  OBVIOUS
<1>2. PICK job : job = [x EXCEPT !.at = t]
  OBVIOUS
<1>3. PICK y : y = IF job.enabled THEN Advanced(j, job, now) ELSE AtRest(job)
  OBVIOUS
<1>4. PICK v : v = wish[j]
  OBVIOUS
<1>5. PICK m : m = [mem[latest] EXCEPT ![j] = y]
  OBVIOUS
<1>6. PICK w : w = [wish EXCEPT ![j] = v]
  OBVIOUS
<1>7. Serving(latest) /\ j \in DOMAIN mem[latest] /\ Edit(latest, m, wish)
  BY Zenon, <1>1, <1>2, <1>3, <1>5 DEF Reschedule
<1>8. /\ arranged \in Cases /\ now \in Nat /\ x \in JobStates /\ t \in Nat
      /\ wish \in [Jobs -> {"none", "on", "off", "gone"}]
  <2>1. latest \in Services /\ wish \in [Jobs -> {"none", "on", "off", "gone"}]
    BY <1>7 DEF Serving, Alive, CronInv, Types, FlagTypes, Services
  <2>. QED
    BY <1>1, <1>7, <2>1, StoresAreGood, Constants DEF GoodStore, JobOK, JobFit
<1>9. job \in JobStates /\ job.enabled = x.enabled /\ job.running = x.running
  BY ONLY <1>2, <1>8 DEF JobStates
<1>10. JobOK(Kind(j), y) /\ y.enabled = x.enabled /\ (y.running # Never => x.running # Never)
  <2>1. CASE job.enabled
    <3>1. y = Advanced(j, job, now)
      BY ONLY <1>3, <2>1
    <3>. QED
      BY ONLY <1>8, <1>9, <3>1, j \in Jobs, AdvancedJob DEF Tidied
  <2>2. CASE ~job.enabled
    <3>1. y = AtRest(job)
      BY ONLY <1>3, <2>2
    <3>. QED
      BY ONLY <1>9, <3>1, RestingJob
  <2>. QED
    BY ONLY <2>1, <2>2
<1>11. v \in {"none", "on", "off", "gone"} /\ w = wish
  BY ONLY <1>4, <1>6, <1>8, j \in Jobs
<1>12. y.running # Never => mem[latest][j].running # Never
  BY ONLY <1>1, <1>10
<1>13. v = wish[j] /\ y.enabled = mem[latest][j].enabled
  BY ONLY <1>1, <1>4, <1>10
<1>14. Edit(latest, m, w)
  BY ONLY <1>7, <1>11
<1>. QED
  BY ONLY CronInv, <1>5, <1>6, <1>7, <1>10, <1>11, <1>12, <1>13, <1>14, ReplacedKeeps

(* add(), with the full recomputation.                                     *)
LEMMA AddKeeps == ASSUME CronInv, NEW j \in Jobs, Add(j) PROVE CronInv'
<1>1. PICK old : old = mem[latest]
  OBVIOUS
<1>2. PICK new : new = Advanced(j, NewJob(j), now)
  OBVIOUS
<1>3. PICK m : m = [i \in DOMAIN old \cup {j} |-> IF i = j THEN new ELSE old[i]]
  OBVIOUS
<1>4. PICK n : n = Recomputed(m, now)
  OBVIOUS
<1>5. PICK w : w = [wish EXCEPT ![j] = "on"]
  OBVIOUS
<1>6. Serving(latest) /\ wish[j] = "none" /\ Edit(latest, n, w)
  BY Zenon, <1>1, <1>2, <1>3, <1>4, <1>5 DEF Add
<1>7. /\ latest \in Services /\ Up(latest) /\ arranged \in Cases /\ now \in Nat
      /\ GoodStore(old) /\ wish \in [Jobs -> {"none", "on", "off", "gone"}]
  BY <1>1, <1>6, StoresAreGood DEF Serving, Alive, Up, CronInv, Types, FlagTypes, Services
<1>8. JobOK(Kind(j), new) /\ new.enabled /\ new.running = Never
  BY ONLY <1>2, <1>7, j \in Jobs, NewJobIsGood
<1>9. /\ DOMAIN m = DOMAIN old \cup {j} /\ m[j] = new
      /\ \A i \in DOMAIN old : i # j => m[i] = old[i]
  BY ONLY <1>3
<1>10. FitStore(m)
  BY ONLY <1>7, <1>8, <1>9, j \in Jobs DEF FitStore, GoodStore, JobOK
<1>11. GoodStore(n) /\ Tended(m, n)
  BY ONLY <1>4, <1>7, <1>10, RecomputedStore
<1>12. /\ DOMAIN n = DOMAIN old \cup {j} /\ n[j].enabled /\ n[j].running = Never
       /\ \A i \in DOMAIN old : i # j => /\ n[i].enabled = old[i].enabled
                                         /\ n[i].running # Never => old[i].running # Never
  BY ONLY <1>8, <1>9, <1>11 DEF Tended, Tidied
<1>13. /\ w \in [Jobs -> {"none", "on", "off", "gone"}] /\ w[j] = "on"
       /\ \A i \in Jobs : i # j => w[i] = wish[i]
  BY ONLY <1>5, <1>7, j \in Jobs
<1>14. ASSUME ~overwritten, latest \notin stale PROVE EditsFairly(n, w)
  <2>1. /\ DOMAIN old = DOMAIN disk
        /\ \A i \in Jobs : Honours(wish[i], Kind(i), i, old) /\ (wish[i] = "none" => ~AtWork(i))
        /\ \A i \in DOMAIN disk : old[i].running # Never => AtWork(i)
    BY <1>1, <1>7, <1>14, MemoryIsTrue
  <2>2. \A i \in DOMAIN n : n[i].running # Never => AtWork(i)
    BY ONLY <1>12, <2>1
  <2>3. ASSUME NEW i \in Jobs PROVE Honours(w[i], Kind(i), i, n) /\ (w[i] = "none" => ~AtWork(i))
    <3>1. CASE i = j
      BY ONLY <1>12, <1>13, <3>1 DEF Honours
    <3>2. CASE i # j
      BY ONLY <1>12, <1>13, <2>1, <2>3, <3>2 DEF Honours
    <3>. QED
      BY ONLY <3>1, <3>2
  <2>4. ~AtWork(j)
    BY ONLY <1>6, <2>1, j \in Jobs
  <2>. QED
    BY ONLY <1>12, <2>1, <2>2, <2>3, <2>4 DEF EditsFairly
<1>. QED
  BY ONLY CronInv, <1>6, <1>11, <1>13, <1>14, EditKeeps

(* remove()                                                                *)
LEMMA RemoveKeeps == ASSUME CronInv, NEW j \in Jobs, Remove(j) PROVE CronInv'
<1>1. PICK old : old = mem[latest]
  OBVIOUS
<1>2. PICK m : m = [i \in DOMAIN old \ {j} |-> old[i]]
  OBVIOUS
<1>3. PICK w : w = [wish EXCEPT ![j] = "gone"]
  OBVIOUS
<1>4. Serving(latest) /\ Edit(latest, m, w)
  BY Zenon, <1>1, <1>2, <1>3 DEF Remove
<1>5. /\ latest \in Services /\ Up(latest) /\ GoodStore(old)
      /\ wish \in [Jobs -> {"none", "on", "off", "gone"}]
  BY <1>1, <1>4, StoresAreGood DEF Serving, Alive, Up, CronInv, Types, FlagTypes, Services
<1>6. DOMAIN m = DOMAIN old \ {j} /\ \A i \in DOMAIN m : m[i] = old[i]
  BY ONLY <1>2
<1>7. GoodStore(m)
  BY ONLY <1>5, <1>6 DEF GoodStore
<1>8. /\ w \in [Jobs -> {"none", "on", "off", "gone"}] /\ w[j] = "gone"
      /\ \A i \in Jobs : i # j => w[i] = wish[i]
  BY ONLY <1>3, <1>5, j \in Jobs
<1>9. ASSUME ~overwritten, latest \notin stale PROVE EditsFairly(m, w)
  <2>1. /\ DOMAIN old = DOMAIN disk
        /\ \A i \in Jobs : Honours(wish[i], Kind(i), i, old) /\ (wish[i] = "none" => ~AtWork(i))
        /\ \A i \in DOMAIN disk : old[i].running # Never => AtWork(i)
    BY <1>1, <1>5, <1>9, MemoryIsTrue
  <2>2. ASSUME NEW i \in Jobs PROVE Honours(w[i], Kind(i), i, m) /\ (w[i] = "none" => ~AtWork(i))
    <3>1. CASE i = j
      BY ONLY <1>6, <1>8, <3>1 DEF Honours
    <3>2. CASE i # j
      BY ONLY <1>6, <1>8, <2>1, <2>2, <3>2 DEF Honours
    <3>. QED
      BY ONLY <3>1, <3>2
  <2>. QED
    BY ONLY <1>6, <2>1, <2>2 DEF EditsFairly
<1>. QED
  BY ONLY CronInv, <1>4, <1>7, <1>8, <1>9, EditKeeps

-----------------------------------------------------------------------------
(* The invariant.                                                          *)

(* The invariant holds at the start: the file has the jobs of the case,    *)
(* newly scheduled, and nobody is there yet.                               *)
LEMMA InitiallyCronInv == Init => CronInv
<1>. SUFFICES ASSUME Init PROVE CronInv
  OBVIOUS
<1>1. /\ now = 1 /\ arranged \in Cases /\ latest = 0 /\ copy = NoCopy /\ edits = 0
      /\ disk = [j \in arranged.present |-> Advanced(j, NewJob(j), 0)]
      /\ mem = [s \in Services |-> NoStore]
      /\ stage = [s \in Services |-> "unborn"]
      /\ skip = [s \in Services |-> {}]
      /\ round = [s \in Services |-> "idle"]
      /\ work = [s \in Services |-> [b \in Batches |-> NoRuns]]
      /\ caller = [c \in Callers |-> NoCall]
      /\ wish = [j \in Jobs |-> IF j \in arranged.present THEN "on" ELSE "none"]
      /\ unguarded = {} /\ stale = {}
  BY Zenon DEF Init
<1>2. /\ own = [s \in Services |-> FALSE] /\ timer = [s \in Services |-> FALSE]
      /\ stopped = [s \in Services |-> FALSE] /\ overwritten = FALSE
  BY Zenon DEF Init
<1>3. arranged.present \subseteq Jobs /\ arranged.maxEdits \in Nat
  BY <1>1, CaseTypes, Constants
<1>4. /\ now \in Times /\ now # Never /\ 0 \in Nat
  BY <1>1, Constants DEF Times, Never
<1>5. /\ DOMAIN disk = arranged.present
      /\ \A j \in DOMAIN disk : /\ JobOK(Kind(j), disk[j]) /\ Patient(Kind(j), disk[j])
                                /\ disk[j].enabled /\ disk[j].running = Never
  <2>1. DOMAIN disk = arranged.present
    BY <1>1
  <2>2. ASSUME NEW j \in arranged.present
        PROVE  /\ JobOK(Kind(j), disk[j]) /\ Patient(Kind(j), disk[j])
               /\ disk[j].enabled /\ disk[j].running = Never
    <3>1. PICK y : y = Advanced(j, NewJob(j), 0)
      OBVIOUS
    <3>2. JobOK(Kind(j), y) /\ Patient(Kind(j), y) /\ y.enabled /\ y.running = Never
      BY <1>1, <1>3, <1>4, <3>1, NewJobIsGood
    <3>3. disk[j] = y
      BY <1>1, <3>1
    <3>. QED
      BY ONLY <3>2, <3>3
  <2>. QED
    BY ONLY <2>1, <2>2
<1>6. PICK nobody : nobody = NoCall
  OBVIOUS
<1>7. CallOK(nobody, now) /\ nobody.stage = "idle"
  BY ONLY <1>4, <1>6, NoCallIsOK
<1>8. DOMAIN caller = Callers /\ \A c \in Callers : caller[c] = nobody
  BY ONLY <1>1, <1>6
<1>9. PICK nothing : nothing = NoRuns
  OBVIOUS
<1>10. DOMAIN nothing = {}
  BY ONLY <1>9 DEF NoRuns
<1>11. /\ DOMAIN work = Services /\ \A s \in Services : DOMAIN work[s] = Batches
       /\ \A s \in Services, b \in Batches : DOMAIN work[s][b] = {}
  <2>1. work = [s \in Services |-> [b \in Batches |-> nothing]]
    BY ONLY <1>1, <1>9
  <2>. QED
    BY ONLY <1>10, <2>1
<1>12. PICK empty : empty = NoStore
  OBVIOUS
<1>13. GoodStore(empty) /\ PatientStore(empty) /\ copy.jobs = empty
  BY <1>1, <1>12, EmptyStore DEF NoCopy
<1>14. DOMAIN mem = Services /\ \A s \in Services : mem[s] = empty
  BY ONLY <1>1, <1>12
<1>15. GoodStore(disk) /\ PatientStore(disk)
  BY ONLY <1>3, <1>5 DEF GoodStore, PatientStore
<1>16. FlagTypes
  <2>1. stage \in [Services -> Stages] /\ round \in [Services -> Rounds] /\ skip \in [Services -> SUBSET Jobs]
    BY ONLY <1>1 DEF Stages, Rounds
  <2>2. own \in [Services -> BOOLEAN] /\ timer \in [Services -> BOOLEAN]
        /\ stopped \in [Services -> BOOLEAN] /\ overwritten \in BOOLEAN
    BY ONLY <1>2
  <2>3. wish \in [Jobs -> {"none", "on", "off", "gone"}]
    BY ONLY <1>1
  <2>4. latest \in 0..MaxServices /\ edits \in 0..arranged.maxEdits
    BY <1>1, <1>3, Constants
  <2>. QED
    BY <1>1, <1>4, <2>1, <2>2, <2>3, <2>4 DEF FlagTypes
<1>17. Types
  <2>1. StoreTypes
    BY ONLY <1>13, <1>14, <1>15 DEF StoreTypes
  <2>2. WorkTypes
    BY ONLY <1>11 DEF WorkTypes
  <2>3. CallTypes
    BY ONLY <1>7, <1>8 DEF CallTypes
  <2>. QED
    BY <1>16, <2>1, <2>2, <2>3 DEF Types
<1>18. Undisturbed
  BY ONLY <1>7, <1>8, <1>13, <1>14, <1>15 DEF Undisturbed
<1>19. (\A s \in Services : stage[s] = "unborn" /\ round[s] = "idle") /\ latest = 0
  BY ONLY <1>1
<1>20. Attended
  BY ONLY <1>7, <1>8, <1>11, <1>19 DEF Attended, Up, Batches
<1>21. \A j : RunsOf(j) = {}
  BY ONLY <1>7, <1>8, <1>11 DEF RunsOf
<1>22. FreshMemories /\ Marked
  BY ONLY <1>19 DEF FreshMemories, Marked, Up, Alive
<1>23. \A j \in Jobs : wish[j] = IF j \in DOMAIN disk THEN "on" ELSE "none"
  BY ONLY <1>1, <1>5
<1>24. Wishes /\ Guarded
  BY ONLY <1>5, <1>21, <1>23 DEF Wishes, Guarded, AtWork, Lone, Honours
<1>25. KnownByHand
  BY ONLY <1>7, <1>8 DEF KnownByHand, ByHand
<1>. QED
  BY <1>17, <1>18, <1>20, <1>22, <1>24, <1>25 DEF CronInv, ServiceInv

(* Every step keeps it.                                                    *)
LEMMA CronInvKept == CronInv /\ [Next]_vars => CronInv'
<1>. SUFFICES ASSUME CronInv, [Next]_vars PROVE CronInv'
  OBVIOUS
<1>1. ASSUME Start \/ Stop \/ Crash \/ Read \/ WritebackReads \/ WritebackSaves \/ Pass PROVE CronInv'
  BY <1>1, StartKeeps, StopKeeps, CrashKeeps, ReadKeeps, WritebackReadsKeeps, WritebackSavesKeeps,
     PassKeeps
<1>2. ASSUME NEW s \in Services, StartUp(s) \/ Ring(s) \/ Tick(s) \/ Runs(s) PROVE CronInv'
  <2>1. CASE StartUp(s)
    BY <2>1, CollectMissedKeeps, ApplyMissedKeeps, FinishStartKeeps DEF StartUp
  <2>2. CASE Ring(s) \/ Tick(s)
    BY <2>2, RingKeeps, CollectKeeps, ApplyKeeps, RearmKeeps DEF Tick
  <2>3. CASE Runs(s)
    BY <2>3, RunStartsKeeps, RunEndsKeeps DEF Runs
  <2>. QED
    BY <1>2, <2>1, <2>2, <2>3
<1>3. ASSUME NEW c \in Callers, Manual(c) PROVE CronInv'
  BY <1>3, PrepareKeeps, ManualRunEndsKeeps, FinishManualKeeps DEF Manual
<1>4. ASSUME NEW c \in Callers, NEW j \in Jobs, NEW force \in BOOLEAN, EnqueueRun(c, j, force)
      PROVE  CronInv'
  BY <1>4, EnqueueRunKeeps
<1>5. ASSUME NEW j \in Jobs, Add(j) \/ Remove(j) PROVE CronInv'
  BY <1>5, AddKeeps, RemoveKeeps
<1>6. ASSUME NEW j \in Jobs, NEW on \in BOOLEAN, SetEnabled(j, on) PROVE CronInv'
  BY <1>6, SetEnabledKeeps
<1>7. ASSUME NEW j \in Jobs, NEW t \in (now + 1)..MaxTime, Reschedule(j, t) PROVE CronInv'
  BY <1>7, RescheduleKeeps
<1>8. CASE UNCHANGED vars
  BY <1>8, StutterKeeps
<1>. QED
  BY Zenon, <1>1, <1>2, <1>3, <1>4, <1>5, <1>6, <1>7, <1>8 DEF Next

(* In every reachable state: the jobs are sound, a memory that is not      *)
(* stale agrees with the file, what the user wants is what the file says,  *)
(* and markers and runs belong to each other.                              *)
THEOREM CronInvariant == Spec => []CronInv
<1>1. Init => CronInv
  BY InitiallyCronInv
<1>2. CronInv /\ [Next]_vars => CronInv'
  BY CronInvKept
<1>. QED
  BY <1>1, <1>2, PTL DEF Spec

(* The calls are a function (CallTypes says what each of them is).         *)
Tabulated == caller = [c \in Callers |-> caller[c]]

(* One call changes.                                                       *)
LEMMA SetInTable ==
  ASSUME Tabulated, NEW c \in Callers, NEW e, caller' = [caller EXCEPT ![c] = e]
  PROVE  Tabulated'
<1>1. DOMAIN caller = Callers
  BY DEF Tabulated
<1>2. caller' = [d \in Callers |-> IF d = c THEN e ELSE caller[d]]
  BY ONLY <1>1, caller' = [caller EXCEPT ![c] = e]
<1>. QED
  BY ONLY <1>2 DEF Tabulated

(* Every step leaves a function.                                           *)
LEMMA TabulatedKept == Tabulated /\ [Next]_vars => Tabulated'
<1>. SUFFICES ASSUME Tabulated, [Next]_vars PROVE Tabulated'
  OBVIOUS
<1>1. ASSUME UNCHANGED caller PROVE Tabulated'
  BY ONLY <1>1, Tabulated DEF Tabulated
<1>2. ASSUME Start \/ Stop \/ Read \/ WritebackReads \/ WritebackSaves \/ Pass PROVE UNCHANGED caller
  BY Zenon, <1>2 DEF Start, Stop, Read, WritebackReads, WritebackSaves, Pass
<1>3. ASSUME Crash PROVE Tabulated'
  <2>1. PICK y : y = NoCall
    OBVIOUS
  <2>2. caller' = [c \in Callers |-> NoCall]
    BY Zenon, <1>3 DEF Crash
  <2>3. caller' = [c \in Callers |-> y]
    BY ONLY <2>1, <2>2
  <2>. QED
    BY ONLY <2>3 DEF Tabulated
<1>4. ASSUME NEW s \in Services, StartUp(s) \/ Ring(s) \/ Tick(s) \/ Runs(s) PROVE UNCHANGED caller
  BY Zenon, <1>4 DEF StartUp, CollectMissed, ApplyMissed, FinishStart, Ring, Tick, Collect, Apply,
     Rearm, Runs, RunStarts, RunEnds
<1>5. ASSUME NEW c \in Callers, Prepare(c) PROVE Tabulated'
  <2>1. \/ caller' = [caller EXCEPT ![c].stage = "running", ![c].run.is = "running",
                                    ![c].run.from = now]
        \/ caller' = [caller EXCEPT ![c] = NoCall]
    BY Zenon, <1>5 DEF Prepare
  <2>2. PICK x : x = caller[c]
    OBVIOUS
  <2>3. CASE caller' = [caller EXCEPT ![c].stage = "running", ![c].run.is = "running",
                                      ![c].run.from = now]
    <3>1. PICK e : e = [x EXCEPT !.stage = "running", !.run.is = "running", !.run.from = now]
      OBVIOUS
    <3>2. caller' = [caller EXCEPT ![c] = e]
      BY ONLY <2>2, <2>3, <3>1, Tabulated, c \in Callers DEF Tabulated
    <3>. QED
      BY <3>2, SetInTable
  <2>4. CASE caller' = [caller EXCEPT ![c] = NoCall]
    BY <2>4, SetInTable
  <2>. QED
    BY <2>1, <2>3, <2>4
<1>6. ASSUME NEW c \in Callers, ManualRunEnds(c) PROVE Tabulated'
  <2>1. PICK o \in Endings : caller' = [caller EXCEPT ![c].stage = "ended", ![c].run.is = o,
                                                      ![c].run.to = now]
    BY Zenon, <1>6 DEF ManualRunEnds
  <2>2. PICK x : x = caller[c]
    OBVIOUS
  <2>3. PICK e : e = [x EXCEPT !.stage = "ended", !.run.is = o, !.run.to = now]
    OBVIOUS
  <2>4. caller' = [caller EXCEPT ![c] = e]
    BY ONLY <2>1, <2>2, <2>3, Tabulated, c \in Callers DEF Tabulated
  <2>. QED
    BY <2>4, SetInTable
<1>7. ASSUME NEW c \in Callers, FinishManual(c) PROVE Tabulated'
  <2>1. caller' = [caller EXCEPT ![c] = NoCall]
    BY Zenon, <1>7 DEF FinishManual
  <2>. QED
    BY <2>1, SetInTable
<1>8. ASSUME NEW c \in Callers, NEW j \in Jobs, NEW force \in BOOLEAN, EnqueueRun(c, j, force)
      PROVE  Tabulated'
  <2>1. PICK e : e = [NoCall EXCEPT !.stage = "queued", !.service = latest, !.job = j, !.force = force]
    OBVIOUS
  <2>2. caller' = [caller EXCEPT ![c] = e] \/ UNCHANGED caller
    BY Zenon, <1>8, <2>1 DEF EnqueueRun
  <2>. QED
    BY <1>1, <2>2, SetInTable
<1>9. ASSUME NEW j \in Jobs, Add(j) \/ Remove(j) PROVE UNCHANGED caller
  BY Zenon, <1>9 DEF Add, Remove, Edit
<1>10. ASSUME NEW j \in Jobs, NEW on \in BOOLEAN, SetEnabled(j, on) PROVE UNCHANGED caller
  BY Zenon, <1>10 DEF SetEnabled, Edit
<1>11. ASSUME NEW j \in Jobs, NEW t \in (now + 1)..MaxTime, Reschedule(j, t) PROVE UNCHANGED caller
  BY Zenon, <1>11 DEF Reschedule, Edit
<1>12. CASE UNCHANGED vars
  BY Zenon, <1>1, <1>12 DEF vars
<1>13. ASSUME NEW c \in Callers, Manual(c) PROVE Tabulated'
  BY Zenon, <1>5, <1>6, <1>7, <1>13 DEF Manual
<1>. QED
  BY Zenon, <1>1, <1>2, <1>3, <1>4, <1>8, <1>9, <1>10, <1>11, <1>12, <1>13 DEF Next

(* The variables have their types; in the file, in every memory and in the *)
(* copy of a write-back a disabled job has no next run.                    *)
THEOREM TypeCorrect == Spec => []TypeOK
<1>1. CronInv /\ Tabulated => TypeOK
  <2>. SUFFICES ASSUME CronInv, Tabulated PROVE TypeOK
    OBVIOUS
  <2>1. FlagTypes /\ StoreTypes /\ WorkTypes /\ CallTypes
    BY DEF CronInv, Types
  <2>2. ASSUME NEW m, GoodStore(m) PROVE StoreOK(m)
    BY <2>2 DEF GoodStore, StoreOK, JobOK, JobFit
  <2>3. StoreOK(disk) /\ StoreOK(copy.jobs) /\ \A s \in Services : StoreOK(mem[s])
    BY <2>1, <2>2 DEF StoreTypes
  <2>4. \A s \in Services, b \in Batches : \A j \in DOMAIN work[s][b] : work[s][b][j] \in RunStates
    BY <2>1 DEF WorkTypes, RunOK
  <2>5. caller \in [Callers -> [stage : {"idle", "queued", "running", "ended"},
                                service : 0..MaxServices, job : Jobs, force : BOOLEAN,
                                run : RunStates]]
    BY <2>1 DEF CallTypes, CallOK, Tabulated
  <2>. QED
    BY <2>1, <2>3, <2>4, <2>5 DEF TypeOK, FlagTypes, Stages, Rounds
<1>2. Init => Tabulated
  <2>. SUFFICES ASSUME Init PROVE Tabulated
    OBVIOUS
  <2>1. PICK y : y = NoCall
    OBVIOUS
  <2>2. caller = [c \in Callers |-> y]
    BY Zenon, <2>1 DEF Init
  <2>. QED
    BY ONLY <2>2 DEF Tabulated
<1>3. Spec => []Tabulated
  BY <1>2, TabulatedKept, PTL DEF Spec
<1>. QED
  BY <1>1, <1>3, CronInvariant, PTL

(* What the user asked for last is what the file says, whatever runs end   *)
(* meanwhile, as long as no write-back has put an old copy there.          *)
THEOREM EditsAreKept == Spec => []EditsSurvive
<1>1. CronInv => EditsSurvive
  BY DEF CronInv, ServiceInv, Wishes, Honours, EditsSurvive
<1>. QED
  BY <1>1, CronInvariant, PTL

(* A job has one run at a time unless its marker was taken off, and a      *)
(* marker in the file belongs to a run.                                    *)
THEOREM MarkersAreTrue == Spec => []MarkersMatchRuns
<1>1. CronInv => MarkersMatchRuns
  <2>. SUFFICES ASSUME CronInv PROVE OneRunAtATime /\ MarkersHaveRuns
    BY DEF MarkersMatchRuns
  <2>1. ASSUME NEW j \in Jobs, j \notin unguarded, ~overwritten PROVE Cardinality(RunsOf(j)) <= 1
    <3>1. Lone(j)
      BY <2>1 DEF CronInv, ServiceInv, Guarded
    <3>2. CASE RunsOf(j) = {}
      BY <3>2, FS_EmptySet
    <3>3. CASE RunsOf(j) # {}
      <4>1. PICK x : RunsOf(j) = {x}
        BY <3>1, <3>3 DEF Lone
      <4>. QED
        BY <4>1, FS_Singleton
    <3>. QED
      BY <3>2, <3>3
  <2>2. OneRunAtATime
    BY <2>1 DEF OneRunAtATime
  <2>3. MarkersHaveRuns
    BY DEF CronInv, ServiceInv, Marked, MarkersHaveRuns, AtWork
  <2>. QED
    BY <2>2, <2>3
<1>. QED
  BY <1>1, CronInvariant, PTL

-----------------------------------------------------------------------------
(* Slots that are due.                                                     *)

(* A job that could be passed over is at rest and in nobody's hands.       *)
LEMMA AtStake ==
  ASSUME CronInv, NEW j \in DOMAIN disk, PassesOver(j), overwritten => overwritten'
  PROVE  /\ disk[j].enabled /\ disk[j].next # Never /\ ~AtWork(j) /\ ~overwritten
         /\ disk[j].next \in Nat /\ disk[j].lastRun \in Nat
         /\ j \in DOMAIN disk' /\ disk'[j].next # disk[j].next /\ disk'[j].lastRun < disk[j].next
<1>1. /\ disk[j].enabled /\ disk[j].running = Never /\ disk[j].next # Never /\ ~overwritten
      /\ j \notin unguarded /\ j \in DOMAIN disk'
      /\ disk'[j].next # disk[j].next /\ disk'[j].lastRun < disk[j].next
  BY Zenon DEF PassesOver, Due
<1>2. j \in Jobs /\ JobOK(Kind(j), disk[j])
  BY StoresAreGood DEF GoodStore
<1>3. disk[j].next \in Nat /\ disk[j].lastRun \in Nat
  BY <1>2, Constants DEF JobOK, JobFit, JobStates, Times
<1>4. ~AtWork(j)
  BY <1>1, <1>2 DEF CronInv, ServiceInv, Guarded
<1>. QED
  BY ONLY <1>1, <1>3, <1>4

(* Upkeep does not pass over a slot, unless the job was executed since.    *)
LEMMA UpkeepKeepsSlots ==
  ASSUME CronInv, NEW m, FitStore(m), NEW e \in BOOLEAN, NEW n, n = Maintained(m, now, e),
         NEW j \in DOMAIN m, m[j].enabled, m[j].next # Never
  PROVE  n[j].next = m[j].next \/ ~(n[j].lastRun < m[j].next)
<1>1. /\ Tended(m, n)
      /\ (~e \/ m[j].lastRun < m[j].next) => n[j].next = m[j].next
  <2>1. arranged \in Cases /\ now \in Nat
    BY StoresAreGood
  <2>2. /\ Tended(m, Maintained(m, now, e))
        /\ \A i \in DOMAIN m :
              /\ m[i].enabled /\ m[i].next # Never
              /\ ~e \/ m[i].lastRun < m[i].next
              => Maintained(m, now, e)[i].next = m[i].next
    BY <2>1, MaintainedStore
  <2>. QED
    BY ONLY <2>2, n = Maintained(m, now, e), j \in DOMAIN m, m[j].enabled, m[j].next # Never
<1>2. n[j].lastRun = m[j].lastRun
  BY ONLY <1>1, j \in DOMAIN m DEF Tended, Tidied
<1>. QED
  BY ONLY <1>1, <1>2

(* A memory that is not stale has the slot of the file.                    *)
LEMMA MemoryHasSlot ==
  ASSUME CronInv, ~overwritten, NEW s \in Services, s \notin stale, Up(s), NEW j \in DOMAIN disk,
         disk[j].enabled, disk[j].next # Never
  PROVE  j \in DOMAIN mem[s] /\ mem[s][j].enabled /\ mem[s][j].next = disk[j].next
BY MemoryIsTrue

(* The start of a service only takes markers off.                          *)
LEMMA StartPassesNone == ASSUME CronInv, Start, NEW j \in DOMAIN disk PROVE ~PassesOver(j)
<1>1. PICK m : m = Cleared(disk)
  OBVIOUS
<1>2. disk' = m /\ overwritten' = overwritten
  BY Zenon, <1>1 DEF Start, FromFile, Stores
<1>3. m[j].next = disk[j].next
  <2>1. AsBefore(disk[j], Mark(disk, DOMAIN disk, Never)[j])
    BY StoresAreGood, MarkedStore
  <2>. QED
    BY ONLY <1>1, <2>1 DEF Cleared, AsBefore
<1>. QED
  BY ONLY <1>2, <1>3, CronInv, j \in DOMAIN disk, AtStake

(* A section that sets markers in its memory and writes it.                *)
LEMMA MarkingPassesNone ==
  ASSUME CronInv, NEW s \in Services, Up(s), NEW S, NEW t \in Times, NEW m, m = Mark(mem[s], S, t),
         FromMemory(s, m), NEW j \in DOMAIN disk
  PROVE  ~PassesOver(j)
<1>. SUFFICES ASSUME PassesOver(j) PROVE FALSE
  OBVIOUS
<1>1. disk' = m /\ overwritten' = (overwritten \/ s \in stale)
  BY Zenon DEF FromMemory, Stores
<1>2. ~overwritten' /\ s \notin stale
  BY <1>1 DEF PassesOver
<1>3. /\ disk[j].enabled /\ disk[j].next # Never /\ ~overwritten /\ disk'[j].next # disk[j].next
  BY ONLY <1>1, CronInv, j \in DOMAIN disk, PassesOver(j), AtStake
<1>4. j \in DOMAIN mem[s] /\ mem[s][j].next = disk[j].next
  BY <1>2, <1>3, MemoryHasSlot
<1>5. AsBefore(mem[s][j], m[j])
  BY <1>4, StoresAreGood, MarkedStore
<1>. QED
  BY ONLY <1>1, <1>3, <1>4, <1>5 DEF AsBefore

(* The same after upkeep.                                                  *)
LEMMA UpkeepPassesNone ==
  ASSUME CronInv, NEW s \in Services, Up(s), NEW m, m = Maintained(mem[s], now, FALSE),
         NEW n, FromMemory(s, n), NEW j \in DOMAIN disk,
         j \in DOMAIN m => n[j].next = m[j].next /\ n[j].lastRun = m[j].lastRun
  PROVE  ~PassesOver(j)
<1>. SUFFICES ASSUME PassesOver(j) PROVE FALSE
  OBVIOUS
<1>1. disk' = n /\ overwritten' = (overwritten \/ s \in stale)
  BY Zenon DEF FromMemory, Stores
<1>2. ~overwritten' /\ s \notin stale
  BY <1>1 DEF PassesOver
<1>3. /\ disk[j].enabled /\ disk[j].next # Never /\ ~overwritten
      /\ disk'[j].next # disk[j].next /\ disk'[j].lastRun < disk[j].next
  BY ONLY <1>1, CronInv, j \in DOMAIN disk, PassesOver(j), AtStake
<1>4. j \in DOMAIN mem[s] /\ mem[s][j].enabled /\ mem[s][j].next = disk[j].next
  BY <1>2, <1>3, MemoryHasSlot
<1>5. PICK e \in BOOLEAN : e = FALSE
  OBVIOUS
<1>6. PICK old : old = mem[s]
  OBVIOUS
<1>7. m = Maintained(old, now, e) /\ FitStore(old) /\ DOMAIN m = DOMAIN old
  BY <1>5, <1>6, StoresAreGood DEF Maintained
<1>8. m[j].next = old[j].next \/ ~(m[j].lastRun < old[j].next)
  BY ONLY CronInv, <1>3, <1>4, <1>6, <1>7, UpkeepKeepsSlots
<1>9. n[j].next = m[j].next /\ n[j].lastRun = m[j].lastRun
  BY <1>4, <1>6, <1>7
<1>. QED
  BY ONLY <1>1, <1>3, <1>4, <1>6, <1>8, <1>9

(* The results of a batch change only the slots of its own jobs.           *)
LEMMA ApplyingPassesNone ==
  ASSUME CronInv, NEW s \in Services, NEW b \in Batches, Ended(work[s][b]), NEW m,
         m = Maintained(WithOutcomes(disk, work[s][b]), now, FALSE), FromFile(s, m),
         NEW j \in DOMAIN disk
  PROVE  ~PassesOver(j)
<1>. SUFFICES ASSUME PassesOver(j) PROVE FALSE
  OBVIOUS
<1>1. disk' = m /\ overwritten' = overwritten
  BY Zenon DEF FromFile, Stores
<1>2. /\ disk[j].enabled /\ disk[j].next # Never /\ ~AtWork(j)
      /\ j \in DOMAIN disk' /\ disk'[j].next # disk[j].next
  BY ONLY <1>1, CronInv, j \in DOMAIN disk, PassesOver(j), AtStake
<1>3. PICK runs : runs = work[s][b]
  OBVIOUS
<1>4. RunsOver(runs) /\ m = Maintained(WithOutcomes(disk, runs), now, FALSE)
  BY <1>3, EndedIsOver
<1>5. j \notin DOMAIN runs
  BY <1>2, <1>3, WorkShows
<1>6. \A i \in DOMAIN m : (i \notin DOMAIN runs /\ disk[i].enabled /\ disk[i].next # Never)
                            => m[i].next = disk[i].next
  <2>1. LET k == Maintained(WithOutcomes(disk, runs), now, FALSE)
        IN  \A i \in DOMAIN k : (i \notin DOMAIN runs /\ disk[i].enabled /\ disk[i].next # Never)
                                   => k[i].next = disk[i].next
    BY ONLY CronInv, <1>4, AppliedStore
  <2>. QED
    BY ONLY <1>4, <2>1
<1>. QED
  BY ONLY <1>1, <1>2, <1>5, <1>6

(* A tick marks the jobs that are due, or tends the store.                 *)
LEMMA CollectPassesNone ==
  ASSUME CronInv, NEW s \in Services, Collect(s), NEW j \in DOMAIN disk
  PROVE  ~PassesOver(j)
<1>. SUFFICES ASSUME PassesOver(j) PROVE FALSE
  OBVIOUS
<1>1. PICK due : due = {i \in DOMAIN disk : Runnable(disk[i], now)}
  OBVIOUS
<1>2. PICK m : m = IF due = {} THEN Maintained(disk, now, TRUE) ELSE Mark(disk, due, now)
  OBVIOUS
<1>3. disk' = m /\ overwritten' = overwritten
  BY Zenon, <1>1, <1>2 DEF Collect, FromFile, Stores
<1>4. /\ disk[j].enabled /\ disk[j].next # Never /\ disk'[j].next # disk[j].next
      /\ disk'[j].lastRun < disk[j].next
  BY ONLY <1>3, CronInv, j \in DOMAIN disk, PassesOver(j), AtStake
<1>5. CASE due = {}
  <2>1. PICK e \in BOOLEAN : e = TRUE
    OBVIOUS
  <2>2. m = Maintained(disk, now, e) /\ FitStore(disk)
    BY <1>2, <1>5, <2>1, StoresAreGood
  <2>3. m[j].next = disk[j].next \/ ~(m[j].lastRun < disk[j].next)
    BY ONLY CronInv, j \in DOMAIN disk, <1>4, <2>2, UpkeepKeepsSlots
  <2>. QED
    BY ONLY <1>3, <1>4, <2>3
<1>6. CASE due # {}
  <2>1. m = Mark(disk, due, now)
    BY ONLY <1>2, <1>6
  <2>2. AsBefore(disk[j], m[j])
    BY <2>1, StoresAreGood, MarkedStore
  <2>. QED
    BY ONLY <1>3, <1>4, <2>2 DEF AsBefore
<1>. QED
  BY ONLY <1>5, <1>6

(* A run by hand changes the slot of its own job; the upkeep after it      *)
(* advances what was executed.                                             *)
LEMMA FinishManualPassesNone ==
  ASSUME CronInv, NEW c \in Callers, FinishManual(c), NEW j \in DOMAIN disk
  PROVE  ~PassesOver(j)
<1>. SUFFICES ASSUME PassesOver(j) PROVE FALSE
  OBVIOUS
<1>1. PICK s : s = caller[c].service
  OBVIOUS
<1>2. PICK i : i = caller[c].job
  OBVIOUS
<1>3. PICK m : m = AfterManual(c, s, i)
  OBVIOUS
<1>4. PICK n : n = Maintained(m, now, TRUE)
  OBVIOUS
<1>5. caller[c].stage = "ended" /\ (i \in DOMAIN mem[s] => FromMemory(s, n))
      /\ (i \notin DOMAIN mem[s] => UNCHANGED <<disk, overwritten>>)
  BY Zenon, <1>1, <1>2, <1>3, <1>4 DEF FinishManual, AfterManual
<1>6. overwritten => overwritten'
  BY Zenon, <1>5 DEF FromMemory
<1>7. /\ disk[j].enabled /\ disk[j].next # Never /\ ~AtWork(j)
      /\ j \in DOMAIN disk' /\ disk'[j].next # disk[j].next /\ disk'[j].lastRun < disk[j].next
  BY ONLY <1>6, CronInv, j \in DOMAIN disk, PassesOver(j), AtStake
<1>8. i \in DOMAIN mem[s] /\ disk' = n
  BY Zenon, <1>5, <1>7 DEF FromMemory, Stores
<1>9. s \in Services
  BY <1>1, <1>5 DEF CronInv, ServiceInv, Attended
<1>10. j # i
  BY <1>2, <1>5, <1>7, WorkShows DEF ByHand
<1>11. FitStore(m) /\ \A k \in DOMAIN m : k # i => m[k] = disk[k]
  BY ONLY CronInv, c \in Callers, <1>3, <1>5, <1>8, <1>9, MergedStore
<1>12. j \in DOMAIN m
  BY ONLY <1>4, <1>7, <1>8 DEF Maintained
<1>13. PICK e \in BOOLEAN : e = TRUE
  OBVIOUS
<1>14. n = Maintained(m, now, e) /\ m[j] = disk[j]
  BY ONLY <1>4, <1>10, <1>11, <1>12, <1>13
<1>15. n[j].next = m[j].next \/ ~(n[j].lastRun < m[j].next)
  BY ONLY CronInv, <1>7, <1>11, <1>12, <1>14, UpkeepKeepsSlots
<1>. QED
  BY ONLY <1>7, <1>8, <1>14, <1>15

(* A step that leaves the file alone, or that an edit of the user is.      *)
LEMMA QuietPassesNone ==
  ASSUME NEW j, disk' = disk \/ edits' # edits \/ overwritten'
  PROVE  ~PassesOver(j)
BY DEF PassesOver

(* Preparing a run by hand: upkeep, and one more marker.                   *)
LEMMA PreparePassesNone ==
  ASSUME CronInv, NEW c \in Callers, Prepare(c), NEW j \in DOMAIN disk
  PROVE  ~PassesOver(j)
<1>1. PICK s : s = caller[c].service
  OBVIOUS
<1>2. PICK i : i = caller[c].job
  OBVIOUS
<1>3. PICK m : m = Maintained(mem[s], now, FALSE)
  OBVIOUS
<1>4. PICK n : n = Mark(m, {i}, now)
  OBVIOUS
<1>5. caller[c].stage = "queued" /\ (disk' = disk \/ FromMemory(s, n))
  BY Zenon, <1>1, <1>2, <1>3, <1>4 DEF Prepare, Reserve
<1>6. s \in Services /\ Up(s)
  BY <1>1, <1>5 DEF CronInv, ServiceInv, Attended
<1>7. GoodStore(m)
  <2>1. PICK e \in BOOLEAN : e = FALSE
    OBVIOUS
  <2>2. m = Maintained(mem[s], now, e)
    BY ONLY <1>3, <2>1
  <2>. QED
    BY <1>6, <2>2, StoresAreGood, MaintainedStore
<1>8. now \in Times
  BY StoresAreGood
<1>9. j \in DOMAIN m => n[j].next = m[j].next /\ n[j].lastRun = m[j].lastRun
  BY ONLY <1>4, <1>7, <1>8, MarkedStore DEF AsBefore
<1>10. CASE FromMemory(s, n)
  BY ONLY CronInv, j \in DOMAIN disk, <1>3, <1>6, <1>9, <1>10, UpkeepPassesNone
<1>. QED
  BY <1>5, <1>10, QuietPassesNone

(* Only the full recomputation at the end of start() passes over a slot.   *)
LEMMA OnlyStartPasses ==
  ASSUME CronInv, [Next]_vars, NEW j \in DOMAIN disk, PassesOver(j)
  PROVE  \E s \in Services : stage'[s] = "up" /\ stage[s] # "up"
<1>1. ~Start /\ \A s \in Services : ~Collect(s)
  BY StartPassesNone, CollectPassesNone
<1>2. ASSUME Read PROVE FALSE
  <2>1. PICK m : m = Maintained(mem[latest], now, FALSE)
    OBVIOUS
  <2>2. Serving(latest) /\ FromMemory(latest, m)
    BY Zenon, <1>2, <2>1 DEF Read
  <2>3. latest \in Services /\ Up(latest)
    BY <2>2 DEF Serving, Alive, Up, CronInv, Types, FlagTypes, Services
  <2>. QED
    BY ONLY CronInv, j \in DOMAIN disk, PassesOver(j), <2>1, <2>2, <2>3, UpkeepPassesNone
<1>3. ~Stop /\ ~Crash /\ ~WritebackReads /\ ~Pass
  <2>1. Stop \/ Crash \/ WritebackReads \/ Pass => disk' = disk
    BY Zenon DEF Stop, Crash, WritebackReads, Pass
  <2>. QED
    BY <2>1, QuietPassesNone
<1>4. ASSUME WritebackSaves PROVE FALSE
  <2>1. disk' = copy.jobs /\ overwritten' = (overwritten \/ disk # copy.jobs)
    BY Zenon, <1>4 DEF WritebackSaves
  <2>. QED
    BY <2>1, QuietPassesNone
<1>5. ASSUME NEW s \in Services, CollectMissed(s) PROVE FALSE
  <2>1. PICK missed : missed = MissedJobs(s)
    OBVIOUS
  <2>2. PICK m : m = Mark(mem[s], missed, now)
    OBVIOUS
  <2>3. stage[s] = "cleared" /\ (disk' = disk \/ FromMemory(s, m))
    BY Zenon, <1>5, <2>1, <2>2 DEF CollectMissed, MissedJobs
  <2>4. Up(s)
    BY <2>3 DEF Up
  <2>5. now \in Times
    BY StoresAreGood
  <2>6. CASE FromMemory(s, m)
    BY ONLY CronInv, s \in Services, j \in DOMAIN disk, PassesOver(j), <2>2, <2>4, <2>5, <2>6,
            MarkingPassesNone
  <2>. QED
    BY <2>3, <2>6, QuietPassesNone
<1>6. ASSUME NEW s \in Services, ApplyMissed(s) PROVE FALSE
  <2>1. PICK m : m = Maintained(WithOutcomes(disk, work[s]["start"]), now, FALSE)
    OBVIOUS
  <2>2. Ended(work[s]["start"]) /\ FromFile(s, m) /\ "start" \in Batches
    BY Zenon, <1>6, <2>1 DEF ApplyMissed, Batches
  <2>. QED
    BY ONLY CronInv, s \in Services, j \in DOMAIN disk, PassesOver(j), <2>1, <2>2, ApplyingPassesNone
<1>7. ASSUME NEW s \in Services, Apply(s) PROVE FALSE
  <2>1. PICK m : m = Maintained(WithOutcomes(disk, work[s]["tick"]), now, FALSE)
    OBVIOUS
  <2>2. Ended(work[s]["tick"]) /\ FromFile(s, m) /\ "tick" \in Batches
    BY Zenon, <1>7, <2>1 DEF Apply, Batches
  <2>. QED
    BY ONLY CronInv, s \in Services, j \in DOMAIN disk, PassesOver(j), <2>1, <2>2, ApplyingPassesNone
<1>8. ASSUME NEW s \in Services, FinishStart(s) PROVE stage'[s] = "up" /\ stage[s] # "up"
  <2>1. stage[s] \in {"caughtup", "checked"} /\ stage' = [stage EXCEPT ![s] = "up"]
    BY Zenon, <1>8 DEF FinishStart
  <2>2. stage \in [Services -> Stages]
    BY DEF CronInv, Types, FlagTypes
  <2>. QED
    BY ONLY s \in Services, <2>1, <2>2
<1>9. ASSUME NEW s \in Services, Ring(s) \/ Rearm(s) \/ Runs(s) PROVE FALSE
  <2>1. disk' = disk
    BY Zenon, <1>9 DEF Ring, Rearm, Runs, RunStarts, RunEnds
  <2>. QED
    BY <2>1, QuietPassesNone
<1>10. ASSUME NEW c \in Callers, Manual(c) PROVE FALSE
  <2>1. ManualRunEnds(c) => disk' = disk
    BY Zenon DEF ManualRunEnds
  <2>. QED
    BY <1>10, <2>1, PreparePassesNone, FinishManualPassesNone, QuietPassesNone DEF Manual
<1>11. edits \in Nat
  BY CaseTypes, Constants DEF CronInv, Types, FlagTypes
<1>12. ASSUME edits' = edits + 1 PROVE FALSE
  BY <1>11, <1>12, QuietPassesNone
<1>13. ASSUME NEW c \in Callers, NEW i \in Jobs, NEW force \in BOOLEAN, EnqueueRun(c, i, force)
       PROVE  FALSE
  BY Zenon, <1>12, <1>13 DEF EnqueueRun
<1>14. ASSUME NEW i \in Jobs, Add(i) \/ Remove(i) PROVE FALSE
  BY Zenon, <1>12, <1>14 DEF Add, Remove, Edit
<1>15. ASSUME NEW i \in Jobs, NEW on \in BOOLEAN, SetEnabled(i, on) PROVE FALSE
  BY Zenon, <1>12, <1>15 DEF SetEnabled, Edit
<1>16. ASSUME NEW i \in Jobs, NEW t \in (now + 1)..MaxTime, Reschedule(i, t) PROVE FALSE
  BY Zenon, <1>12, <1>16 DEF Reschedule, Edit
<1>17. ASSUME UNCHANGED vars PROVE FALSE
  <2>1. disk' = disk
    BY Zenon, <1>17 DEF vars
  <2>. QED
    BY <2>1, QuietPassesNone
<1>18. ASSUME NEW s \in Services, StartUp(s) \/ Ring(s) \/ Tick(s) \/ Runs(s)
       PROVE  \E z \in Services : stage'[z] = "up" /\ stage[z] # "up"
  BY Zenon, <1>1, <1>5, <1>6, <1>7, <1>8, <1>9, <1>18 DEF StartUp, Tick
<1>. QED
  BY Zenon, <1>1, <1>2, <1>3, <1>4, <1>10, <1>13, <1>14, <1>15, <1>16, <1>17, <1>18 DEF Next

(* A slot that is due stays in the file until a run that began then or     *)
(* later is applied or the user changes the job; only the recomputation at *)
(* the end of start() passes it over.                                      *)
THEOREM SlotsStay == Spec => SlotsAreKept
<1>. DEFINE Step == \A j \in DOMAIN disk : PassesOver(j) =>
                      \E s \in Services : stage'[s] = "up" /\ stage[s] # "up"
<1>1. CronInv /\ [Next]_vars => Step
  BY OnlyStartPasses
<1>2. Spec => [][Next]_vars
  BY PTL DEF Spec
<1>3. CronInv /\ [Next]_vars => [Step]_vars
  BY <1>1
<1>. HIDE DEF Step
<1>4. Spec => [][Step]_vars
  BY <1>2, <1>3, CronInvariant, PTL
<1>. QED
  BY <1>4 DEF SlotsAreKept, Step

-----------------------------------------------------------------------------
(* The choice of the jobs to run.                                          *)

(* A job that is due may run: one that succeeded was moved past that run,  *)
(* and one that waits for the end of its back-off is not due.              *)
LEMMA DueMayRun ==
  ASSUME CronInv, NEW j \in Jobs, NEW x, JobOK(Kind(j), x), x.next # Never, x.next <= now,
         edits = 0 => Patient(Kind(j), x)
  PROVE  OnceMeansOnce(j, x) /\ BackoffIsKept(j, x)
<1>1. /\ x \in JobStates /\ now \in Nat
      /\ (Kind(j) = "at" /\ x.status = "ok") => x.lastRun < x.at
  BY StoresAreGood DEF JobOK, JobFit
<1>2. BackoffOf(x.errors) \in Nat \ {0} /\ x.lastRun \in Nat /\ x.next \in Nat
  BY <1>1, BackoffTakesTime, Constants DEF JobStates, Times
<1>3. ASSUME edits = 0, BackoffPending(j, x, now) PROVE FALSE
  <2>1. x.lastRun + BackoffOf(x.errors) <= x.next /\ now < x.lastRun + BackoffOf(x.errors)
    BY <1>3 DEF Patient, BackoffPending
  <2>. QED
    BY ONLY <1>1, <1>2, <2>1, x.next <= now
<1>. QED
  BY <1>1, <1>3 DEF OnceMeansOnce, BackoffIsKept

(* So may a job that was missed, though it need not be due.                *)
LEMMA MissedMayRun ==
  ASSUME CronInv, NEW j \in Jobs, NEW x, JobOK(Kind(j), x), Missed(j, x, now),
         edits = 0 => Patient(Kind(j), x)
  PROVE  OnceMeansOnce(j, x) /\ BackoffIsKept(j, x)
<1>1. x \in JobStates /\ now \in Nat
  BY StoresAreGood DEF JobOK, JobFit
<1>2. CASE Due(x, now)
  BY <1>2, DueMayRun DEF Due
<1>3. CASE ~Due(x, now) /\ Kind(j) = "at"
  BY <1>3 DEF Missed
<1>4. CASE ~Due(x, now) /\ Kind(j) # "at"
  <2>1. ~(x.next > now /\ BackoffPending(j, x, now))
    BY <1>4 DEF Missed
  <2>2. x.next \in Nat
    BY <1>1 DEF JobStates
  <2>3. x.next = Never \/ x.next > now
    BY <1>1, <1>4, <2>2 DEF Due
  <2>4. ASSUME edits = 0, BackoffPending(j, x, now) PROVE FALSE
    BY <1>4, <2>1, <2>3, <2>4 DEF Patient, BackoffPending
  <2>. QED
    BY <1>4, <2>4 DEF OnceMeansOnce, BackoffIsKept
<1>. QED
  BY <1>2, <1>3, <1>4

(* The marker does not matter to that.                                     *)
LEMMA MarkedMayRun ==
  ASSUME NEW j, NEW x, NEW y, AsBefore(x, y), OnceMeansOnce(j, x) /\ BackoffIsKept(j, x)
  PROVE  OnceMeansOnce(j, y) /\ BackoffIsKept(j, y)
BY DEF AsBefore, OnceMeansOnce, BackoffIsKept, BackoffPending

(* Where no batch grows, nothing is chosen.                                *)
LEMMA NothingPicked ==
  ASSUME \A s \in Services, b \in Batches : DOMAIN work'[s][b] \subseteq DOMAIN work[s][b]
  PROVE  Picked = {}
BY DEF Picked

(* One batch begins, and it alone is chosen.                               *)
LEMMA BatchPicked ==
  ASSUME Types, NEW s \in Services, NEW b \in Batches, NEW S,
         work' = [work EXCEPT ![s][b] = Waiting(S)]
  PROVE  Picked \subseteq S
<1>1. DOMAIN Waiting(S) = S
  BY DEF Waiting
<1>2. PICK runs : runs = Waiting(S)
  OBVIOUS
<1>3. work' = [work EXCEPT ![s][b] = runs] /\ DOMAIN runs = S
  BY ONLY work' = [work EXCEPT ![s][b] = Waiting(S)], <1>1, <1>2
<1>4. /\ work'[s][b] = runs
      /\ \A z \in Services, d \in Batches : <<z, d>> # <<s, b>> => work'[z][d] = work[z][d]
  BY ONLY Types, s \in Services, b \in Batches, <1>3 DEF Types, WorkTypes
<1>5. ASSUME NEW j \in Picked PROVE j \in S
  <2>1. PICK z \in Services, d \in Batches : j \notin DOMAIN work[z][d] /\ j \in DOMAIN work'[z][d]
    BY <1>5 DEF Picked
  <2>. QED
    BY ONLY <1>3, <1>4, <2>1
<1>. QED
  BY <1>5

(* The jobs of a tick.                                                     *)
LEMMA CollectChooses ==
  ASSUME CronInv, NEW s \in Services, Collect(s), NEW j \in Picked
  PROVE  OnceMeansOnce(j, disk'[j]) /\ BackoffIsKept(j, disk'[j])
<1>1. PICK due : due = {i \in DOMAIN disk : Runnable(disk[i], now)}
  OBVIOUS
<1>2. PICK m : m = IF due = {} THEN Maintained(disk, now, TRUE) ELSE Mark(disk, due, now)
  OBVIOUS
<1>3. disk' = m /\ work' = [work EXCEPT ![s]["tick"] = Waiting(due)] /\ "tick" \in Batches
  BY Zenon, <1>1, <1>2 DEF Collect, FromFile, Stores, Batches
<1>4. j \in due
  BY ONLY CronInv, s \in Services, j \in Picked, <1>3, BatchPicked DEF CronInv
<1>5. m = Mark(disk, due, now)
  BY ONLY <1>2, <1>4
<1>6. j \in DOMAIN disk /\ j \in Jobs /\ Runnable(disk[j], now)
  BY ONLY CronInv, <1>1, <1>4, StoresAreGood
<1>7. AsBefore(disk[j], m[j]) /\ JobOK(Kind(j), disk[j]) /\ (edits = 0 => Patient(Kind(j), disk[j]))
  BY <1>5, <1>6, StoresAreGood, MarkedStore DEF GoodStore, PatientStore
<1>8. OnceMeansOnce(j, disk[j]) /\ BackoffIsKept(j, disk[j])
  BY <1>6, <1>7, DueMayRun DEF Runnable, Due
<1>. QED
  BY ONLY <1>3, <1>7, <1>8, MarkedMayRun

(* The jobs of a start-up.                                                 *)
LEMMA CollectMissedChooses ==
  ASSUME CronInv, NEW s \in Services, CollectMissed(s), NEW j \in Picked
  PROVE  OnceMeansOnce(j, disk'[j]) /\ BackoffIsKept(j, disk'[j])
<1>1. PICK missed : missed = MissedJobs(s)
  OBVIOUS
<1>2. PICK m : m = Mark(mem[s], missed, now)
  OBVIOUS
<1>3. \/ UNCHANGED work
      \/ /\ disk' = m /\ work' = [work EXCEPT ![s]["start"] = Waiting(missed)]
  BY Zenon, <1>1, <1>2 DEF CollectMissed, MissedJobs, FromMemory, Stores
<1>4. disk' = m /\ work' = [work EXCEPT ![s]["start"] = Waiting(missed)] /\ "start" \in Batches
  <2>1. "start" \in Batches
    BY DEF Batches
  <2>2. CASE UNCHANGED work
    BY <2>2, NothingPicked
  <2>. QED
    BY <1>3, <2>1, <2>2
<1>5. j \in missed
  BY ONLY CronInv, s \in Services, j \in Picked, <1>4, BatchPicked DEF CronInv
<1>6. j \in DOMAIN mem[s] /\ j \in Jobs /\ Missed(j, mem[s][j], now)
  BY <1>1, <1>5, StoresAreGood DEF MissedJobs
<1>7. /\ AsBefore(mem[s][j], m[j]) /\ JobOK(Kind(j), mem[s][j])
      /\ edits = 0 => Patient(Kind(j), mem[s][j])
  BY <1>2, <1>6, StoresAreGood, MarkedStore DEF GoodStore, PatientStore
<1>8. OnceMeansOnce(j, mem[s][j]) /\ BackoffIsKept(j, mem[s][j])
  BY <1>6, <1>7, MissedMayRun
<1>. QED
  BY ONLY <1>4, <1>7, <1>8, MarkedMayRun

(* Nobody else chooses.                                                    *)
LEMMA OthersChooseNone ==
  ASSUME CronInv, [Next]_vars, \A s \in Services : ~Collect(s) /\ ~CollectMissed(s)
  PROVE  Picked = {}
<1>1. Types
  BY DEF CronInv
<1>2. ASSUME UNCHANGED work PROVE Picked = {}
  BY <1>2, NothingPicked
<1>3. ASSUME Start \/ Stop \/ Read \/ WritebackReads \/ WritebackSaves \/ Pass PROVE UNCHANGED work
  BY Zenon, <1>3 DEF Start, Stop, Read, WritebackReads, WritebackSaves, Pass
<1>4. ASSUME NEW s \in Services, FinishStart(s) \/ Ring(s) \/ Rearm(s) PROVE UNCHANGED work
  BY Zenon, <1>4 DEF FinishStart, Ring, Rearm
<1>5. ASSUME NEW c \in Callers, Manual(c) PROVE UNCHANGED work
  BY Zenon, <1>5 DEF Manual, Prepare, ManualRunEnds, FinishManual
<1>6. ASSUME NEW c \in Callers, NEW j \in Jobs, NEW force \in BOOLEAN, EnqueueRun(c, j, force)
      PROVE  UNCHANGED work
  BY Zenon, <1>6 DEF EnqueueRun
<1>7. ASSUME NEW j \in Jobs, Add(j) \/ Remove(j) PROVE UNCHANGED work
  BY Zenon, <1>7 DEF Add, Remove, Edit
<1>8. ASSUME NEW j \in Jobs, NEW on \in BOOLEAN, SetEnabled(j, on) PROVE UNCHANGED work
  BY Zenon, <1>8 DEF SetEnabled, Edit
<1>9. ASSUME NEW j \in Jobs, NEW t \in (now + 1)..MaxTime, Reschedule(j, t) PROVE UNCHANGED work
  BY Zenon, <1>9 DEF Reschedule, Edit
<1>10. UNCHANGED vars => UNCHANGED work
  BY Zenon DEF vars
<1>11. ASSUME Crash PROVE Picked = {}
  <2>1. PICK nothing : nothing = NoRuns
    OBVIOUS
  <2>2. work' = [s \in Services |-> [b \in Batches |-> nothing]]
    BY Zenon, <1>11, <2>1 DEF Crash
  <2>3. DOMAIN nothing = {}
    BY ONLY <2>1 DEF NoRuns
  <2>4. \A s \in Services, b \in Batches : DOMAIN work'[s][b] = {}
    BY ONLY <2>2, <2>3
  <2>. QED
    BY <2>4, NothingPicked
<1>12. ASSUME NEW s \in Services, NEW b \in Batches, NEW runs, work' = [work EXCEPT ![s][b] = runs],
              DOMAIN runs \subseteq DOMAIN work[s][b]
       PROVE  Picked = {}
  <2>1. \A z \in Services, d \in Batches : DOMAIN work'[z][d] \subseteq DOMAIN work[z][d]
    BY ONLY Types, <1>1, <1>12 DEF Types, WorkTypes
  <2>. QED
    BY <2>1, NothingPicked
<1>13. ASSUME NEW s \in Services, ApplyMissed(s) \/ Apply(s) PROVE Picked = {}
  <2>1. PICK nothing : nothing = NoRuns
    OBVIOUS
  <2>2. PICK b \in Batches : work' = [work EXCEPT ![s][b] = nothing]
    BY Zenon, <1>13, <2>1 DEF ApplyMissed, Apply, Batches
  <2>3. DOMAIN nothing = {}
    BY ONLY <2>1 DEF NoRuns
  <2>. QED
    BY <1>12, <2>2, <2>3
<1>14. ASSUME NEW s \in Services, Runs(s) PROVE Picked = {}
  <2>1. PICK b \in Batches, j \in Jobs : RunStarts(s, b, j) \/ RunEnds(s, b, j)
    BY <1>14 DEF Runs
  <2>2. CASE RunStarts(s, b, j)
    <3>1. work' = [work EXCEPT ![s][b][j].is = "running", ![s][b][j].from = now]
      BY Zenon, <2>2 DEF RunStarts
    <3>2. \A z \in Services, d \in Batches : DOMAIN work'[z][d] \subseteq DOMAIN work[z][d]
      BY ONLY <1>1, <3>1 DEF Types, WorkTypes
    <3>. QED
      BY <3>2, NothingPicked
  <2>3. CASE RunEnds(s, b, j)
    <3>1. PICK o \in Endings : work' = [work EXCEPT ![s][b][j].is = o, ![s][b][j].to = now]
      BY Zenon, <2>3 DEF RunEnds
    <3>2. \A z \in Services, d \in Batches : DOMAIN work'[z][d] \subseteq DOMAIN work[z][d]
      BY ONLY <1>1, <3>1 DEF Types, WorkTypes
    <3>. QED
      BY <3>2, NothingPicked
  <2>. QED
    BY <2>1, <2>2, <2>3
<1>15. ASSUME NEW s \in Services, StartUp(s) \/ Ring(s) \/ Tick(s) \/ Runs(s) PROVE Picked = {}
  BY Zenon, <1>2, <1>4, <1>13, <1>14, <1>15 DEF StartUp, Tick
<1>. QED
  BY Zenon, <1>2, <1>3, <1>5, <1>6, <1>7, <1>8, <1>9, <1>10, <1>11, <1>15 DEF Next

(* What a start-up or a tick chooses may run: a job that runs once has not *)
(* succeeded, or was moved since; a recurring job that failed waits for    *)
(* the end of its back-off unless the user has touched a job.              *)
THEOREM ChoiceIsSound == Spec => ChosenMayRun
<1>. DEFINE Step == \A j \in Picked : ~overwritten => OnceMeansOnce(j, disk'[j]) /\ BackoffIsKept(j, disk'[j])
<1>1. CronInv /\ [Next]_vars => Step
  <2>. SUFFICES ASSUME CronInv, [Next]_vars PROVE Step
    OBVIOUS
  <2>1. CASE \A s \in Services : ~Collect(s) /\ ~CollectMissed(s)
    BY <2>1, OthersChooseNone
  <2>. QED
    BY <2>1, CollectChooses, CollectMissedChooses
<1>2. Spec => [][Next]_vars
  BY PTL DEF Spec
<1>3. CronInv /\ [Next]_vars => [Step]_vars
  BY <1>1
<1>. HIDE DEF Step
<1>4. Spec => [][Step]_vars
  BY <1>2, <1>3, CronInvariant, PTL
<1>. QED
  BY <1>4 DEF ChosenMayRun, Step
=============================================================================

------------------------ MODULE ChannelManager_proofs -------------------------
(***************************************************************************)
(* Proofs about ChannelManager, for every number of callers, instances and *)
(* restarts and every mix of plugins: the types, that an undisturbed       *)
(* account has one instance that the manager can stop, and that a stopped  *)
(* account stays down.                                                     *)
(***************************************************************************)
EXTENDS ChannelManager, TLAPS

IsStopping(c) == call[c].at \in {"hook", "stopping"}
Runs == {"up", "backoff"}

Types ==
  /\ arranged \in Cases
  /\ tasks \in Instances \cup {NoInstance} /\ aborts = tasks
  /\ phase \in [Instances -> {"free", "up", "backoff", "asking"}]
  /\ aborted \in [Instances -> BOOLEAN]
  /\ manuallyStopped \in BOOLEAN /\ attempts \in 0..CountBound
  /\ status \in [running : BOOLEAN, managed : BOOLEAN]
  /\ call \in [Everyone -> [job : Jobs, at : {"idle", "asking", "hook", "stopping", "next",
                                               "marking", "looked"}]]
  /\ waitsFor \in [Everyone -> Instances \cup {NoInstance}]
  /\ seen \in BOOLEAN /\ wanted \in {"up", "down"}
  /\ events \subseteq {"overlap", "start during stop", "stop during start", "nothing to stop",
                       "late mark", "left stopped"}

(* Who stops does not stop in order to start only, and waits for a plugin's *)
(* stopAccount only if it has one.                                         *)
JobsFit ==
  \A c \in Everyone :
    /\ IsStopping(c) => call[c].job \in {"stop", "logout", "restart", "check"}
    /\ call[c].at = "next" => call[c].job \in {"restart", "check"}
    /\ call[c].at = "hook" => arranged.hook

(* The instance with a task is the one that runs or will again; a start    *)
(* that awaits isConfigured is the only one and nothing runs meanwhile.    *)
OneInstance ==
  /\ \A i \in Instances : phase[i] \in Runs <=> tasks = i
  /\ Asking => tasks = NoInstance
  /\ \A i, j \in Instances : phase[i] = "asking" /\ phase[j] = "asking" => i = j
  /\ \A i \in Instances, c \in Everyone : ~(phase[i] = "asking" /\ call[c].at = "asking")
  /\ \A c, d \in Everyone : call[c].at = "asking" /\ call[d].at = "asking" => c = d

(* Whoever stops waits for the task there is, which knows that it is to    *)
(* stop; no start comes in between.                                        *)
StopsTheInstance ==
  \A c \in Everyone :
    IsStopping(c) =>
      /\ waitsFor[c] = tasks /\ manuallyStopped /\ ~Asking
      /\ tasks # NoInstance => aborted[tasks]
      /\ call[c].at = "stopping" => tasks # NoInstance

StatusIsTrue == status.running <=> Up # {}

AttemptsLeft == attempts <= MaxRestarts + 1 /\ (Alive # {} => attempts <= MaxRestarts)

(* The stops so far found something to stop, and no start under way.       *)
CleanStops == Undisturbed /\ events \cap {"stop during start", "nothing to stop"} = {}

(* A stopped account is known as such, nobody is about to start it, and    *)
(* what still runs was told to end and is awaited, unless a stop failed.   *)
StoppedForGood ==
  /\ manuallyStopped /\ ~Asking /\ ~WillStart
  /\ tasks # NoInstance => aborted[tasks] /\ (Stopping \/ "left stopped" \in events)

ChannelInv ==
  /\ Types
  /\ JobsFit
  /\ Undisturbed => OneInstance /\ StopsTheInstance /\ StatusIsTrue /\ AttemptsLeft
  /\ CleanStops /\ wanted = "down" => StoppedForGood

-----------------------------------------------------------------------------
(* The values of the variables: what each part of a step leaves them at.   *)
CallStates ==
  [job : Jobs, at : {"idle", "asking", "hook", "stopping", "next", "marking", "looked"}]

(* What an action writes into a call is a state of a call.                 *)
LEMMA CallValues ==
  /\ Idle \in CallStates
  /\ \A job \in Jobs, at \in {"idle", "asking", "hook", "stopping", "next", "marking", "looked"} :
       [at |-> at, job |-> job] \in CallStates
  /\ \A job \in Jobs : AfterStop(job) \in CallStates
BY DEF CallStates, Idle, AfterStop, Jobs

Places == {"idle", "asking", "hook", "stopping", "next", "marking", "looked"}

(* The status a call or an instance leaves is a status.                    *)
LEMMA StatusValues ==
  ASSUME Types, UNCHANGED status \/ Refused
  PROVE  status' \in [running : BOOLEAN, managed : BOOLEAN]
<1>1. [running |-> FALSE, managed |-> FALSE] \in [running : BOOLEAN, managed : BOOLEAN]
  OBVIOUS
<1>. QED
  BY <1>1 DEF Types, Refused

(* A call that goes on keeps its type.                                     *)
LEMMA GoTypes ==
  ASSUME Types, NEW c \in Everyone, NEW at \in Places, NEW job \in Jobs, Go(c, at, job)
  PROVE  call' \in [Everyone -> CallStates]
BY CallValues DEF Types, Go, CallStates, Places

(* Launching an instance keeps the types of the store.                     *)
LEMMA LaunchTypes ==
  ASSUME Types, NEW i \in Instances, NEW by, Launch(i, by)
  PROVE  /\ tasks' \in Instances \cup {NoInstance} /\ aborts' = tasks'
         /\ phase' \in [Instances -> {"free", "up", "backoff", "asking"}]
         /\ aborted' \in [Instances -> BOOLEAN]
         /\ status' \in [running : BOOLEAN, managed : BOOLEAN]
BY DEF Types, Launch, Kept

(* So does a promise that settles.                                         *)
LEMMA SettlesTypes ==
  ASSUME Types, NEW i \in Instances, Settles(i)
  PROVE  /\ tasks' \in Instances \cup {NoInstance} /\ aborts' = tasks'
         /\ phase' \in [Instances -> {"free", "up", "backoff", "asking"}]
         /\ aborted' \in [Instances -> BOOLEAN]
         /\ status' \in [running : BOOLEAN, managed : BOOLEAN]
         /\ call' \in [Everyone -> CallStates]
         /\ waitsFor' \in [Everyone -> Instances \cup {NoInstance}]
<1>1. \A c \in Everyone : AfterStop(call[c].job) \in CallStates
  BY CallValues DEF Types, CallStates
<1>2. call' \in [Everyone -> CallStates]
  BY <1>1 DEF Types, Settles, CallStates
<1>3. status' \in [running : BOOLEAN, managed : BOOLEAN]
  BY DEF Types, Settles
<1>. QED
  BY <1>2, <1>3 DEF Types, Settles, Kept

(* And the part of startChannel up to its first await.                     *)
LEMMA BeginTypes ==
  ASSUME Types, NEW c \in Everyone, NEW job \in Jobs, Begin(c, job)
  PROVE  /\ tasks' \in Instances \cup {NoInstance} /\ aborts' = tasks'
         /\ phase' \in [Instances -> {"free", "up", "backoff", "asking"}]
         /\ aborted' \in [Instances -> BOOLEAN]
         /\ manuallyStopped' \in BOOLEAN /\ attempts' \in 0..CountBound
         /\ status' \in [running : BOOLEAN, managed : BOOLEAN]
         /\ call' \in [Everyone -> CallStates]
         /\ waitsFor' = waitsFor
         /\ events' \subseteq events \cup {"overlap", "start during stop"}
<1>1. call' \in [Everyone -> CallStates]
  <2>1. Go(c, "idle", job) \/ Go(c, "asking", job)
    BY DEF Begin
  <2>. QED
    BY <2>1, GoTypes DEF Places
<1>2. 0 \in 0..CountBound
  BY ManagerAssumption DEF CountBound
<1>3. CASE \E i \in Instances : Launch(i, NoInstance)
  BY <1>1, <1>2, <1>3, LaunchTypes DEF Types, Begin, Launched, Forgets
<1>4. CASE ~\E i \in Instances : Launch(i, NoInstance)
  <2>1. /\ UNCHANGED <<storeVars, instanceVars, manuallyStopped>>
        /\ attempts' \in {0, attempts}
        /\ UNCHANGED status \/ Refused
    BY <1>4 DEF Begin, Launched
  <2>2. status' \in [running : BOOLEAN, managed : BOOLEAN]
    BY <2>1, StatusValues
  <2>. QED
    BY <1>1, <1>2, <2>1, <2>2 DEF Types, Begin, storeVars, instanceVars
<1>. QED
  BY <1>3, <1>4

(* And the synchronous part of stopChannel, which leaves the store alone.  *)
LEMMA StopTypes ==
  ASSUME Types, NEW c \in Everyone, NEW job \in Jobs, Stop(c, job)
  PROVE  /\ aborted' \in [Instances -> BOOLEAN]
         /\ manuallyStopped' \in BOOLEAN
         /\ call' \in [Everyone -> CallStates]
         /\ waitsFor' \in [Everyone -> Instances \cup {NoInstance}]
         /\ events' \subseteq events \cup {"nothing to stop", "stop during start"}
         /\ UNCHANGED <<storeVars, phase, attempts, status>>
<1>1. call' \in [Everyone -> CallStates]
  <2>1. \/ call' = [call EXCEPT ![c] = AfterStop(job)]
        \/ Go(c, "hook", job) \/ Go(c, "stopping", job)
    BY DEF Stop
  <2>2. AfterStop(job) \in CallStates /\ call \in [Everyone -> CallStates]
    BY CallValues DEF Types, CallStates
  <2>. QED
    BY <2>1, <2>2, GoTypes DEF Places
<1>. QED
  BY <1>1 DEF Types, Stop, Remembers

(* Every step keeps the types.                                             *)
LEMMA TypesStep == Types /\ [Next]_vars => Types'
<1> SUFFICES ASSUME Types, [Next]_vars PROVE Types'
  OBVIOUS
<1>c. \A c \in Everyone : call[c].job \in Jobs
  BY DEF Types
<1>a. attempts \in 0..CountBound /\ 0 \in 0..CountBound
  <2>1. attempts \in 0..CountBound
    BY DEF Types
  <2>. QED
    BY <2>1, ManagerAssumption DEF CountBound
<1>1. ASSUME NEW i \in Instances, BackoffEnds(i) PROVE Types'
  BY <1>1, SettlesTypes DEF BackoffEnds, Types, CallStates
<1>2. ASSUME NEW i \in Instances, Restarts(i) \/ RestartAnswered(i) PROVE Types'
  <2>1. CASE \E n \in Instances : Launch(n, i)
    BY <1>2, <2>1, LaunchTypes DEF Restarts, RestartAnswered, Types, Note
  <2>2. CASE ~\E n \in Instances : Launch(n, i)
    <3>1. /\ phase' \in [Instances -> {"free", "up", "backoff", "asking"}]
          /\ tasks' = Kept(i, tasks) /\ aborts' = Kept(i, aborts) /\ UNCHANGED aborted
          /\ UNCHANGED status \/ Refused
      BY <1>2, <2>2 DEF Restarts, RestartAnswered, RestartRefused, Types
    <3>2. status' \in [running : BOOLEAN, managed : BOOLEAN]
      BY <3>1, StatusValues
    <3>3. events' \subseteq events \cup {"overlap"}
      BY <1>2 DEF Restarts, RestartAnswered, Note
    <3>. QED
      BY <1>2, <3>1, <3>2, <3>3 DEF Restarts, RestartAnswered, Types, Kept
  <2>. QED
    BY <2>1, <2>2
<1>3. ASSUME NEW i \in Instances, Ends(i) PROVE Types'
  <2>1. attempts' \in 0..CountBound
    BY <1>3, <1>a, ManagerAssumption DEF Ends, CountBound
  <2>2. CASE Settles(i)
    BY <1>3, <2>1, <2>2, SettlesTypes DEF Ends, Types, CallStates
  <2>3. CASE ~Settles(i)
    <3>1. /\ phase' = [phase EXCEPT ![i] = "backoff"]
          /\ status' = [status EXCEPT !.running = FALSE]
          /\ UNCHANGED <<storeVars, aborted, call, waitsFor>>
      BY <1>3, <2>3 DEF Ends
    <3>. QED
      BY <1>3, <2>1, <3>1 DEF Ends, Types, storeVars
  <2>. QED
    BY <2>2, <2>3
<1>4. ASSUME NEW c \in Callers, NEW j \in {"start", "stop", "restart", "logout"}, Call(c, j)
      PROVE  Types'
  <2>1. c \in Everyone /\ j \in Jobs
    BY DEF Everyone, Jobs
  <2>2. wanted' \in {"up", "down"} /\ UNCHANGED <<arranged, seen>>
    BY <1>4 DEF Call
  <2>3. CASE j = "start"
    <3>1. Begin(c, j)
      BY <1>4, <2>3 DEF Call
    <3>. QED
      BY <2>1, <2>2, <3>1, BeginTypes DEF Types, CallStates
  <2>4. CASE j # "start"
    <3>1. Stop(c, j)
      BY <1>4, <2>4 DEF Call
    <3>. QED
      BY <2>1, <2>2, <3>1, StopTypes DEF Types, CallStates, storeVars
  <2>. QED
    BY <2>3, <2>4
<1>5. ASSUME NEW c \in Everyone, Answered(c) PROVE Types'
  <2>1. call' \in [Everyone -> CallStates]
    BY <1>5, <1>c, GoTypes DEF Answered, Places
  <2>2. CASE \E i \in Instances : Launch(i, NoInstance)
    BY <1>5, <1>a, <2>1, <2>2, LaunchTypes
    DEF Answered, Launched, Forgets, Types, CallStates, Refused
  <2>3. CASE ~\E i \in Instances : Launch(i, NoInstance)
    <3>1. Refused /\ UNCHANGED <<storeVars, instanceVars, manuallyStopped, attempts>>
      BY <1>5, <2>3 DEF Answered, Launched
    <3>2. status' \in [running : BOOLEAN, managed : BOOLEAN]
      BY <3>1, StatusValues
    <3>. QED
      BY <1>5, <2>1, <3>1, <3>2 DEF Answered, Types, CallStates, storeVars, instanceVars
  <2>. QED
    BY <2>2, <2>3
<1>6. ASSUME NEW c \in Everyone, HookReturns(c) PROVE Types'
  <2>1. call' \in [Everyone -> CallStates]
    <3>1. \/ call' = [call EXCEPT ![c] = AfterStop(call[c].job)]
          \/ Go(c, "stopping", call[c].job)
      BY <1>6 DEF HookReturns
    <3>2. AfterStop(call[c].job) \in CallStates /\ call \in [Everyone -> CallStates]
      BY <1>c, CallValues DEF Types, CallStates
    <3>. QED
      BY <1>c, <3>1, <3>2, GoTypes DEF Places
  <2>2. status' \in [running : BOOLEAN, managed : BOOLEAN]
    BY <1>6 DEF HookReturns, Types
  <2>3. tasks' \in Instances \cup {NoInstance} /\ aborts' = tasks'
    <3>1. UNCHANGED <<tasks, aborts>> \/ (tasks' = NoInstance /\ aborts' = NoInstance)
      BY <1>6 DEF HookReturns, storeVars
    <3>2. tasks \in Instances \cup {NoInstance} /\ aborts = tasks
      BY DEF Types
    <3>. QED
      BY <3>1, <3>2
  <2>. QED
    BY <1>6, <2>1, <2>2, <2>3 DEF HookReturns, Types, CallStates, instanceVars
<1>7. ASSUME NEW c \in Everyone, StartsAgain(c) PROVE Types'
  BY <1>7, <1>c, BeginTypes DEF StartsAgain, Types, CallStates
<1>8. ASSUME NEW c \in Everyone, MarkLoggedOut(c) PROVE Types'
  <2>1. call' \in [Everyone -> CallStates]
    BY <1>8, <1>c, GoTypes DEF MarkLoggedOut, Places
  <2>2. status' \in [running : BOOLEAN, managed : BOOLEAN]
    BY <1>8 DEF MarkLoggedOut, Types
  <2>. QED
    BY <1>8, <2>1, <2>2
    DEF MarkLoggedOut, Types, CallStates, storeVars, instanceVars, Note
<1>m. Monitor \in Everyone /\ "check" \in Jobs
  BY DEF Everyone, Jobs
<1>9. CASE Looks
  <2>1. call' \in [Everyone -> CallStates]
    BY <1>9, <1>m, GoTypes DEF Looks, Places
  <2>. QED
    BY <1>9, <2>1 DEF Looks, Types, CallStates, storeVars, instanceVars
<1>10. CASE Acts
  <2>1. /\ UNCHANGED <<arranged, wanted>> /\ seen' \in BOOLEAN
    BY <1>10 DEF Acts
  <2>2. CASE Go(Monitor, "idle", "check") /\ ~Begin(Monitor, "check") /\ ~Stop(Monitor, "check")
    <3>1. call' \in [Everyone -> CallStates]
      BY <1>m, <2>2, GoTypes DEF Places
    <3>. QED
      BY <1>10, <2>1, <2>2, <3>1 DEF Acts, Types, CallStates, storeVars, instanceVars
  <2>3. CASE Begin(Monitor, "check")
    BY <1>m, <2>1, <2>3, BeginTypes DEF Types, CallStates
  <2>4. CASE Stop(Monitor, "check")
    BY <1>m, <2>1, <2>4, StopTypes DEF Types, CallStates, storeVars
  <2>. QED
    BY <1>10, <2>2, <2>3, <2>4 DEF Acts
<1>11. CASE UNCHANGED vars
  BY <1>11 DEF vars, Types
<1>12. ASSUME NEW i \in Instances, RestartFails(i) PROVE Types'
  <2>1. phase' \in [Instances -> {"free", "up", "backoff", "asking"}]
    BY <1>12 DEF RestartFails, Types
  <2>. QED
    BY <1>12, <2>1 DEF RestartFails, Types, Kept
<1>13. ASSUME NEW c \in Everyone, JobFails(c) PROVE Types'
  <2>1. call' \in [Everyone -> CallStates]
    BY <1>13, <1>c, GoTypes DEF JobFails, Places
  <2>2. attempts' \in 0..CountBound
    BY <1>13, <1>a DEF JobFails
  <2>3. waitsFor' \in [Everyone -> Instances \cup {NoInstance}]
    BY <1>13 DEF JobFails, Types
  <2>4. events' \subseteq events \cup {"left stopped"}
    BY <1>13 DEF JobFails, Note
  <2>. QED
    BY <1>13, <2>1, <2>2, <2>3, <2>4 DEF JobFails, Types, CallStates, storeVars, instanceVars
<1>14. CASE ActFails
  <2>1. call' \in [Everyone -> CallStates]
    BY <1>14, <1>m, GoTypes DEF ActFails, Places
  <2>2. attempts' \in 0..CountBound
    BY <1>14, <1>a DEF ActFails
  <2>. QED
    BY <1>14, <2>1, <2>2 DEF ActFails, Types, CallStates, storeVars, instanceVars
<1>. QED
  BY <1>1, <1>2, <1>3, <1>4, <1>5, <1>6, <1>7, <1>8, <1>9, <1>10, <1>11, <1>12, <1>13, <1>14
  DEF Next, InstanceStep, CallerStep

(* A call finds the jobs of those who stop as they were.                   *)
LEMMA JobsStep == Types /\ JobsFit /\ [Next]_vars => JobsFit'
<1> SUFFICES ASSUME Types, JobsFit, [Next]_vars PROVE JobsFit'
  OBVIOUS
<1> DEFINE Fits(s) == /\ s.at \in {"hook", "stopping"} =>
                           s.job \in {"stop", "logout", "restart", "check"}
                      /\ s.at = "next" => s.job \in {"restart", "check"}
                      /\ s.at = "hook" => arranged.hook
<1>t. /\ call \in [Everyone -> CallStates]
      /\ \A c \in Everyone : Fits(call[c])
  BY DEF Types, CallStates, JobsFit, IsStopping
<1>a. ASSUME NEW job \in {"stop", "logout", "restart", "check"} PROVE Fits(AfterStop(job))
  BY DEF AfterStop, Idle
<1>s. ASSUME NEW c \in Everyone, NEW s, Fits(s), arranged' = arranged,
             call' = [call EXCEPT ![c] = s]
      PROVE  JobsFit'
  BY <1>s, <1>t DEF JobsFit, IsStopping
<1>b. ASSUME NEW c \in Everyone, NEW job, Begin(c, job), arranged' = arranged PROVE JobsFit'
  <2>1. \E at \in {"idle", "asking"} : Go(c, at, job)
    BY <1>b DEF Begin
  <2>. QED
    BY <1>b, <2>1, <1>s DEF Go, Idle
<1>e. ASSUME NEW c \in Everyone, NEW job \in {"stop", "logout", "restart", "check"},
             Stop(c, job), arranged' = arranged
      PROVE  JobsFit'
  <2>1. \/ call' = [call EXCEPT ![c] = AfterStop(job)]
        \/ Go(c, "hook", job) /\ arranged.hook
        \/ Go(c, "stopping", job)
    BY <1>e DEF Stop
  <2>. QED
    BY <1>e, <2>1, <1>s, <1>a DEF Go
<1>i. ASSUME NEW i \in Instances, Settles(i), arranged' = arranged PROVE JobsFit'
  <2>1. \A c \in Everyone : call'[c] = call[c] \/
                             (IsStopping(c) /\ call'[c] = AfterStop(call[c].job))
    BY <1>i DEF Settles, StoppersOf, IsStopping
  <2>2. \A c \in Everyone : Fits(call'[c])
    BY <2>1, <1>t, <1>a DEF IsStopping
  <2>. QED
    BY <1>i, <2>2 DEF JobsFit, IsStopping
<1>u. ASSUME UNCHANGED <<arranged, call>> PROVE JobsFit'
  BY <1>u DEF JobsFit, IsStopping
<1>1. ASSUME NEW i \in Instances, InstanceStep(i) \/ Ends(i) PROVE JobsFit'
  BY <1>1, <1>i, <1>u DEF InstanceStep, BackoffEnds, Restarts, RestartAnswered, RestartFails, Ends
<1>2. ASSUME NEW c \in Callers, NEW j \in {"start", "stop", "restart", "logout"}, Call(c, j)
      PROVE  JobsFit'
  <2>1. c \in Everyone /\ arranged' = arranged
    BY <1>2 DEF Everyone, Call
  <2>2. Begin(c, j) \/ (j # "start" /\ Stop(c, j))
    BY <1>2 DEF Call
  <2>. QED
    BY <2>1, <2>2, <1>b, <1>e
<1>3. ASSUME NEW c \in Everyone, Answered(c) \/ MarkLoggedOut(c) \/ JobFails(c) PROVE JobsFit'
  <2>1. Go(c, "idle", call[c].job) /\ arranged' = arranged
    BY <1>3 DEF Answered, MarkLoggedOut, JobFails
  <2>. QED
    BY <2>1, <1>s DEF Go, Idle
<1>4. ASSUME NEW c \in Everyone, HookReturns(c) PROVE JobsFit'
  <2>1. /\ IsStopping(c) /\ arranged' = arranged
        /\ \/ call' = [call EXCEPT ![c] = AfterStop(call[c].job)]
           \/ Go(c, "stopping", call[c].job)
    BY <1>4 DEF HookReturns, IsStopping
  <2>2. call[c].job \in {"stop", "logout", "restart", "check"}
    BY <2>1, <1>t DEF IsStopping
  <2>. QED
    BY <2>1, <2>2, <1>s, <1>a DEF Go
<1>5. ASSUME NEW c \in Everyone, StartsAgain(c) PROVE JobsFit'
  BY <1>5, <1>b DEF StartsAgain
<1>6. CASE Looks \/ Acts \/ ActFails
  <2>1. Monitor \in Everyone /\ arranged' = arranged
    BY <1>6 DEF Everyone, Looks, Acts, ActFails
  <2>2. \/ Go(Monitor, "looked", "check") \/ Go(Monitor, "idle", "check")
        \/ Begin(Monitor, "check") \/ Stop(Monitor, "check")
    BY <1>6 DEF Looks, Acts, ActFails
  <2>. QED
    BY <2>1, <2>2, <1>b, <1>e, <1>s DEF Go, Idle
<1>7. CASE UNCHANGED vars
  BY <1>7, <1>u DEF vars
<1>. QED
  BY <1>1, <1>2, <1>3, <1>4, <1>5, <1>6, <1>7 DEF Next, CallerStep

(* What has happened stays recorded, and the case stays what it is.        *)
LEMMA EventsGrow == [Next]_vars => events \subseteq events' /\ arranged' = arranged
BY DEF Next, InstanceStep, CallerStep, BackoffEnds, Restarts, RestartAnswered, RestartFails,
       Ends, Call, Answered, HookReturns, StartsAgain, MarkLoggedOut, JobFails, Looks, Acts,
       ActFails, Begin, Stop, Note, vars

(* A disturbance is not forgotten: an execution without one had none       *)
(* before.                                                                 *)
LEMMA UndisturbedBefore ==
  ASSUME [Next]_vars
  PROVE  /\ Undisturbed' => Undisturbed
         /\ CleanStops' => CleanStops
BY EventsGrow DEF Undisturbed, CleanStops

-----------------------------------------------------------------------------
(* An undisturbed account.                                                 *)
Quiet == OneInstance /\ StopsTheInstance /\ StatusIsTrue /\ AttemptsLeft

(* The facts about numbers that the steps need.                            *)
LEMMA Numbers ==
  ASSUME Types
  PROVE  /\ attempts \in Nat /\ MaxRestarts \in Nat
         /\ NoInstance \notin Instances
<1>1. attempts \in 0..CountBound
  BY DEF Types
<1>. QED
  BY <1>1, ManagerAssumption DEF CountBound, Instances, NoInstance

(* The instance that runs is the only one alive and nobody asks; the one   *)
(* that asks is the only one alive too.                                    *)
LEMMA SoleInstance ==
  ASSUME Types, Quiet, NEW i \in Instances, phase[i] # "free"
  PROVE  /\ \A j \in Instances \ {i} : phase[j] = "free"
         /\ phase[i] \in Runs => tasks = i /\ ~Asking
         /\ phase[i] = "asking" => tasks = NoInstance /\ ~Stopping
         /\ \A c \in Everyone : phase[i] = "asking" => call[c].at # "asking"
<1>t. phase \in [Instances -> {"free", "up", "backoff", "asking"}]
  BY DEF Types
<1>1. \A j \in Instances : phase[j] = "free" \/ phase[j] \in Runs \/ phase[j] = "asking"
  BY <1>t DEF Runs
<1>2. \A j \in Instances : j # NoInstance
  BY DEF Instances, NoInstance
<1>3. phase[i] \in Runs => tasks = i /\ ~Asking
  BY <1>2 DEF Quiet, OneInstance
<1>4. phase[i] = "asking" => Asking /\ tasks = NoInstance /\ ~Stopping
  BY DEF Quiet, OneInstance, StopsTheInstance, Asking, Stopping, IsStopping
<1>5. phase[i] = "asking" => \A j \in Instances : phase[j] \notin Runs
  BY <1>2, <1>4 DEF Quiet, OneInstance
<1>6. \A j \in Instances : phase[i] \in Runs => phase[j] # "asking"
  BY <1>3 DEF Asking
<1>. QED
  BY <1>1, <1>3, <1>4, <1>5, <1>6 DEF Quiet, OneInstance

(* When nothing is alive an instance may be launched.                      *)
LEMMA LaunchQuiet ==
  ASSUME Types, NEW i \in Instances, NEW by, by \notin Instances \/ by # i, Launch(i, by),
         tasks \in {NoInstance, by},
         \A j \in Instances : j # by => phase[j] = "free",
         \A c \in Everyone : call'[c].at \notin {"asking", "hook", "stopping"},
         attempts' \in Nat, attempts' <= MaxRestarts
  PROVE  Quiet'
<1>t. phase \in [Instances -> {"free", "up", "backoff", "asking"}] /\ MaxRestarts \in Nat
  BY ManagerAssumption DEF Types
<1>1. /\ phase' = [j \in Instances |-> IF j = i THEN "up" ELSE IF j = by THEN "free" ELSE phase[j]]
      /\ tasks' = i /\ status'.running
  BY DEF Launch, Kept, NoInstance, Instances
<1>2. \A j \in Instances : phase'[j] = IF j = i THEN "up" ELSE "free"
  BY <1>1
<1>3. ~Asking'
  BY <1>2 DEF Asking
<1>4. OneInstance'
  BY <1>1, <1>2, <1>3 DEF OneInstance, Runs
<1>5. StopsTheInstance'
  BY DEF StopsTheInstance, IsStopping
<1>6. StatusIsTrue'
  BY <1>1, <1>2 DEF StatusIsTrue, Up
<1>7. AttemptsLeft'
  BY <1>t DEF AttemptsLeft
<1>. QED
  BY <1>4, <1>5, <1>6, <1>7 DEF Quiet

(* A caller goes from one place to another at which nothing is promised.   *)
LEMMA CallQuiet ==
  ASSUME Types, Quiet, NEW c \in Everyone, NEW s, call' = [call EXCEPT ![c] = s],
         s.at \notin {"asking", "hook", "stopping"},
         UNCHANGED <<tasks, phase, aborted, manuallyStopped>>,
         \A d \in Everyone \ {c} : waitsFor'[d] = waitsFor[d],
         status'.running = status.running \/ (~status'.running /\ Up = {}),
         attempts' \in {0, attempts}
  PROVE  Quiet'
<1>t. call \in [Everyone -> CallStates] /\ attempts \in Nat /\ MaxRestarts \in Nat
  BY Numbers DEF Types, CallStates
<1>1. \A d \in Everyone : call'[d].at \in {"asking", "hook", "stopping"} =>
                           call'[d] = call[d] /\ waitsFor'[d] = waitsFor[d]
  BY <1>t
<1>2. Asking' => Asking
  BY <1>1 DEF Asking
<1>3. OneInstance'
  BY <1>1, <1>2 DEF Quiet, OneInstance
<1>4. StopsTheInstance'
  BY <1>1, <1>2 DEF Quiet, StopsTheInstance, IsStopping
<1>5. StatusIsTrue'
  BY DEF Quiet, StatusIsTrue, Up
<1>6. AttemptsLeft'
  BY <1>t DEF Quiet, AttemptsLeft, Alive
<1>. QED
  BY <1>3, <1>4, <1>5, <1>6 DEF Quiet

(* The instance with the task is gone, and those who awaited it go on.     *)
LEMMA SettlesQuiet ==
  ASSUME Types, Quiet, NEW i \in Instances, Settles(i), phase[i] \in Runs,
         UNCHANGED manuallyStopped,
         attempts' \in Nat, attempts' <= MaxRestarts + 1
  PROVE  Quiet'
<1>t. /\ phase \in [Instances -> {"free", "up", "backoff", "asking"}]
      /\ tasks = i /\ ~Asking /\ \A j \in Instances \ {i} : phase[j] = "free"
      /\ waitsFor \in [Everyone -> Instances \cup {NoInstance}]
      /\ NoInstance \notin Instances
  <2>1. phase[i] # "free"
    BY DEF Runs
  <2>2. tasks = i /\ ~Asking /\ \A j \in Instances \ {i} : phase[j] = "free"
    BY <2>1, SoleInstance
  <2>. QED
    BY <2>2, Numbers DEF Types
<1>1. /\ tasks' = NoInstance /\ \A j \in Instances : phase'[j] = "free"
      /\ status'.running = (status.running /\ phase[i] # "up" /\ StoppersOf(i) = {})
  BY <1>t DEF Settles, Kept, Types
<1>2. \A c \in Everyone : call'[c].at \in {"asking", "hook", "stopping"} =>
                           call'[c] = call[c] /\ c \notin StoppersOf(i)
  BY DEF Settles, AfterStop, Idle
<1>3. ~Asking'
  BY <1>t, <1>1, <1>2 DEF Asking
<1>4. OneInstance'
  BY <1>t, <1>1, <1>3 DEF OneInstance, Asking, Runs
<1>5. ASSUME NEW c \in Everyone, IsStopping(c)'
      PROVE  waitsFor'[c] = NoInstance /\ manuallyStopped /\ call'[c].at # "stopping"
  <2>1. IsStopping(c) /\ call'[c] = call[c] /\ c \notin StoppersOf(i)
    BY <1>2, <1>5 DEF IsStopping
  <2>2. waitsFor[c] = i /\ manuallyStopped
    BY <1>t, <2>1 DEF Quiet, StopsTheInstance
  <2>. QED
    BY <2>1, <2>2, <1>t DEF Settles, StoppersOf
<1>6. StopsTheInstance'
  BY <1>1, <1>3, <1>5 DEF StopsTheInstance
<1>7. StatusIsTrue'
  <2>1. Up' = {}
    BY <1>1 DEF Up
  <2>2. phase[i] # "up" => Up = {}
    BY <1>t DEF Up
  <2>. QED
    BY <1>1, <2>1, <2>2 DEF Quiet, StatusIsTrue
<1>8. AttemptsLeft'
  BY <1>1 DEF AttemptsLeft, Alive
<1>. QED
  BY <1>4, <1>6, <1>7, <1>8 DEF Quiet

(* A start of an account that is not disturbed: nothing is alive and       *)
(* nobody stops it, or it does nothing.                                    *)
LEMMA BeginQuiet ==
  ASSUME Types, JobsFit, Quiet, NEW c \in Everyone, NEW job \in Jobs, Begin(c, job),
         call[c].at \in {"idle", "next", "looked"}, arranged' = arranged, Undisturbed'
  PROVE  Quiet'
<1>t. /\ call \in [Everyone -> CallStates]
      /\ phase \in [Instances -> {"free", "up", "backoff", "asking"}]
      /\ attempts \in Nat /\ MaxRestarts \in Nat /\ NoInstance \notin Instances
  BY Numbers DEF Types, CallStates
<1>1. MayStart => ~Asking /\ \A i \in Instances : phase[i] = "free"
  <2>1. MayStart => ~Asking
    BY DEF Begin, Undisturbed
  <2>. QED
    BY <2>1, <1>t, SoleInstance DEF MayStart, Asking, Runs
<1>2. MayStart => \A d \in Everyone : ~IsStopping(d)
  <2>1. arranged.hook => ~Stopping
    BY DEF Begin, Undisturbed
  <2>2. ASSUME NEW d \in Everyone, IsStopping(d), ~arranged.hook PROVE tasks # NoInstance
    BY <2>2 DEF JobsFit, IsStopping, Quiet, StopsTheInstance
  <2>. QED
    BY <2>1, <2>2 DEF MayStart, Stopping, IsStopping
<1>3. CASE Launched /\ MayStart /\ Go(c, "idle", job)
  <2>1. PICK i \in Instances : Launch(i, NoInstance)
    BY <1>3 DEF Launched
  <2>2. \A d \in Everyone : call'[d].at \notin {"asking", "hook", "stopping"}
    BY <1>1, <1>2, <1>3, <1>t DEF Go, Asking, IsStopping, Idle
  <2>3. attempts' = 0
    BY <1>3 DEF Launched, Forgets
  <2>. QED
    BY <1>t, <1>1, <1>3, <2>1, <2>2, <2>3, LaunchQuiet DEF MayStart
<1>4. CASE /\ MayStart /\ Go(c, "asking", job) /\ UNCHANGED status
           /\ UNCHANGED <<storeVars, instanceVars, manuallyStopped>>
           /\ attempts' \in {0, attempts}
  <2>1. /\ call'[c].at = "asking"
        /\ \A d \in Everyone \ {c} : call'[d] = call[d]
    BY <1>4, <1>t DEF Go
  <2>2. /\ UNCHANGED <<tasks, phase>> /\ tasks = NoInstance
    BY <1>4 DEF MayStart, storeVars, instanceVars
  <2>3. OneInstance'
    BY <1>1, <1>4, <1>t, <2>1, <2>2 DEF OneInstance, Asking, Runs
  <2>4. StopsTheInstance'
    BY <1>2, <1>4, <2>1 DEF StopsTheInstance, IsStopping
  <2>5. StatusIsTrue'
    BY <1>4, <2>2 DEF Quiet, StatusIsTrue, Up
  <2>6. AttemptsLeft'
    BY <1>4, <2>2, <1>t DEF Quiet, AttemptsLeft, Alive
  <2>. QED
    BY <2>3, <2>4, <2>5, <2>6 DEF Quiet
<1>5. CASE /\ Go(c, "idle", job)
           /\ UNCHANGED status \/ (MayStart /\ Refused)
           /\ UNCHANGED <<storeVars, instanceVars, manuallyStopped>>
           /\ attempts' \in {0, attempts}
  <2>1. UNCHANGED <<tasks, phase, aborted, manuallyStopped, waitsFor>>
    BY <1>5 DEF Begin, storeVars, instanceVars
  <2>2. status'.running = status.running \/ (~status'.running /\ Up = {})
    BY <1>1, <1>5 DEF Refused, Up
  <2>3. call' = [call EXCEPT ![c] = Idle] /\ Idle.at = "idle"
    <3>1. call' = [call EXCEPT ![c] = Idle]
      BY <1>5 DEF Go
    <3>. QED
      BY <3>1 DEF Idle
  <2>. QED
    BY <1>5, <2>1, <2>2, <2>3, CallQuiet
<1>. QED
  BY <1>3, <1>4, <1>5 DEF Begin

(* A stop that is not disturbed leaves the account quiet, however far it   *)
(* gets.                                                                   *)
LEMMA StopQuiet ==
  ASSUME Types, Quiet, NEW c \in Everyone, NEW job \in Jobs, Stop(c, job),
         call[c].at \in {"idle", "looked"}, arranged' = arranged, Undisturbed'
  PROVE  Quiet'
<1>t. /\ call \in [Everyone -> CallStates] /\ aborts = tasks
      /\ phase \in [Instances -> {"free", "up", "backoff", "asking"}]
      /\ aborted \in [Instances -> BOOLEAN]
      /\ waitsFor \in [Everyone -> Instances \cup {NoInstance}]
      /\ tasks \in Instances \cup {NoInstance}
      /\ NoInstance \notin Instances
  BY Numbers DEF Types, CallStates
<1>u. UNCHANGED <<tasks, phase, attempts, status>>
  BY DEF Stop, storeVars
<1>1. CASE NothingToStop
  <2>1. call' = [call EXCEPT ![c] = AfterStop(job)]
        /\ UNCHANGED <<aborted, manuallyStopped, waitsFor>>
    BY <1>1 DEF Stop
  <2>2. AfterStop(job).at \notin {"asking", "hook", "stopping"}
    BY DEF AfterStop, Idle
  <2>. QED
    BY <1>u, <2>1, <2>2, CallQuiet
<1>2. CASE ~NothingToStop
  <2>1. /\ manuallyStopped'
        /\ aborted' = [i \in Instances |-> aborted[i] \/ i = tasks]
        /\ waitsFor' = [waitsFor EXCEPT ![c] = tasks]
        /\ call' = [call EXCEPT ![c] = [at |-> IF arranged.hook THEN "hook" ELSE "stopping",
                                        job |-> job]]
    BY <1>2, <1>t DEF Stop, Remembers, Go
  <2>2. ~Asking
    <3>1. arranged.hook => ~Asking
      BY DEF Stop, Undisturbed
    <3>2. ~arranged.hook => tasks # NoInstance
      BY <1>2, <1>t DEF NothingToStop
    <3>. QED
      BY <3>1, <3>2 DEF Quiet, OneInstance
  <2>3. /\ \A d \in Everyone \ {c} : call'[d] = call[d] /\ waitsFor'[d] = waitsFor[d]
        /\ call'[c].at = (IF arranged.hook THEN "hook" ELSE "stopping")
        /\ waitsFor'[c] = tasks
    BY <2>1, <1>t
  <2>4. ~Asking'
    BY <2>2, <2>3, <1>u DEF Asking
  <2>5. OneInstance'
    BY <2>4, <1>u DEF Quiet, OneInstance, Asking
  <2>6. tasks # NoInstance => aborted'[tasks]
    BY <2>1, <1>t
  <2>7. StopsTheInstance'
    BY <1>2, <2>1, <2>3, <2>4, <2>6, <1>u, <1>t
    DEF Quiet, StopsTheInstance, IsStopping, NothingToStop
  <2>8. StatusIsTrue' /\ AttemptsLeft'
    BY <1>u DEF Quiet, StatusIsTrue, AttemptsLeft, Up, Alive
  <2>. QED
    BY <2>5, <2>7, <2>8 DEF Quiet
<1>. QED
  BY <1>1, <1>2

(* Every undisturbed step keeps a stopped account quiet.                   *)
LEMMA QuietStep ==
  ASSUME Types, JobsFit, Quiet, [Next]_vars, Undisturbed'
  PROVE  Quiet'
<1>t. /\ call \in [Everyone -> CallStates]
      /\ phase \in [Instances -> {"free", "up", "backoff", "asking"}]
      /\ attempts \in Nat /\ MaxRestarts \in Nat /\ NoInstance \notin Instances
      /\ status \in [running : BOOLEAN, managed : BOOLEAN]
      /\ arranged' = arranged
  BY Numbers, EventsGrow DEF Types, CallStates
<1>j. \A c \in Everyone : call[c].job \in Jobs
  BY <1>t DEF CallStates
<1>u. UNCHANGED <<tasks, phase, aborted, manuallyStopped, attempts, status, call, waitsFor>>
        => Quiet'
  BY DEF Quiet, OneInstance, StopsTheInstance, StatusIsTrue, AttemptsLeft, Asking, IsStopping,
         Up, Alive
<1>1. ASSUME NEW i \in Instances, BackoffEnds(i) PROVE Quiet'
  <2>1. phase[i] \in Runs /\ Settles(i) /\ UNCHANGED <<manuallyStopped, attempts>>
    BY <1>1 DEF BackoffEnds, Runs
  <2>2. attempts <= MaxRestarts + 1
    BY DEF Quiet, AttemptsLeft
  <2>. QED
    BY <1>t, <2>1, <2>2, SettlesQuiet
<1>2. ASSUME NEW i \in Instances, Ends(i) PROVE Quiet'
  <2>1. phase[i] = "up" /\ UNCHANGED manuallyStopped /\ tasks = i /\ ~Asking
        /\ \A j \in Instances \ {i} : phase[j] = "free"
    BY <1>2, SoleInstance DEF Ends, Runs
  <2>2. attempts <= MaxRestarts
    BY <2>1 DEF Quiet, AttemptsLeft, Alive
  <2>3. attempts' \in Nat /\ attempts' <= MaxRestarts + 1
    BY <1>2, <1>t, <2>2 DEF Ends
  <2>4. CASE Settles(i)
    BY <2>1, <2>3, <2>4, SettlesQuiet DEF Runs
  <2>5. CASE ~Settles(i)
    <3>1. /\ phase' = [phase EXCEPT ![i] = "backoff"]
          /\ ~status'.running /\ UNCHANGED <<tasks, aborted, call, waitsFor>>
          /\ ~manuallyStopped /\ attempts' <= MaxRestarts
      <4>1. /\ ~manuallyStopped /\ attempts + 1 <= MaxRestarts
            /\ phase' = [phase EXCEPT ![i] = "backoff"]
            /\ status' = [status EXCEPT !.running = FALSE]
            /\ UNCHANGED <<tasks, aborted, call, waitsFor>>
        BY <1>2, <2>5 DEF Ends, MayRestart, storeVars
      <4>2. attempts' = attempts + 1
        BY <1>2, <1>t, <4>1 DEF Ends, CountBound
      <4>. QED
        BY <4>1, <4>2, <1>t
    <3>2. \A j \in Instances : phase'[j] = IF j = i THEN "backoff" ELSE "free"
      BY <2>1, <3>1, <1>t
    <3>3. ~Asking'
      BY <2>1, <3>1, <3>2 DEF Asking
    <3>4. OneInstance'
      BY <2>1, <3>1, <3>2, <3>3 DEF OneInstance, Asking, Runs
    <3>5. StopsTheInstance'
      BY <2>1, <3>1, <3>3 DEF Quiet, StopsTheInstance, IsStopping
    <3>6. StatusIsTrue'
      BY <3>1, <3>2 DEF StatusIsTrue, Up
    <3>7. AttemptsLeft'
      BY <3>1, <2>3 DEF AttemptsLeft
    <3>. QED
      BY <3>4, <3>5, <3>6, <3>7 DEF Quiet
  <2>. QED
    BY <2>4, <2>5
<1>r. ASSUME NEW i \in Instances, phase[i] \in {"backoff", "asking"},
             ~\E c \in Everyone : IsStopping(c),
             \A c \in Everyone : call[c].at # "asking",
             UNCHANGED <<manuallyStopped, attempts, call, waitsFor>>,
             RestartRefused(i) \/ RestartFails(i) \/ \E n \in Instances : Launch(n, i)
      PROVE  Quiet'
  <2>1. /\ \A j \in Instances \ {i} : phase[j] = "free"
        /\ tasks \in {NoInstance, i} /\ phase[i] # "free"
    BY <1>r, SoleInstance DEF Runs
  <2>2. attempts <= MaxRestarts /\ status.running = FALSE
    <3>1. Up = {} /\ Alive # {}
      BY <1>r, <2>1 DEF Up, Alive
    <3>. QED
      BY <3>1 DEF Quiet, AttemptsLeft, StatusIsTrue, Types
  <2>3. \A c \in Everyone : call'[c].at \notin {"asking", "hook", "stopping"}
    BY <1>r DEF IsStopping
  <2>4. ASSUME NEW n \in Instances, Launch(n, i) PROVE Quiet'
    <3>1. n # i
      BY <2>1, <2>4 DEF Launch
    <3>. QED
      BY <1>r, <1>t, <2>1, <2>2, <2>3, <2>4, <3>1, LaunchQuiet
  <2>5. CASE RestartRefused(i) \/ RestartFails(i)
    <3>1. tasks' = NoInstance /\ ~status'.running
          /\ \A j \in Instances : phase'[j] = "free"
      BY <2>1, <2>2, <2>5, <1>t DEF RestartRefused, RestartFails, Refused, Kept
    <3>2. OneInstance'
      BY <3>1, <2>3, <1>t DEF OneInstance, Asking, Runs
    <3>3. StopsTheInstance' /\ StatusIsTrue'
      BY <2>3, <3>1 DEF StopsTheInstance, IsStopping, StatusIsTrue, Up
    <3>4. AttemptsLeft'
      BY <1>r, <2>2, <1>t DEF AttemptsLeft
    <3>. QED
      BY <3>2, <3>3, <3>4 DEF Quiet
  <2>. QED
    BY <1>r, <2>4, <2>5
<1>3. ASSUME NEW i \in Instances, Restarts(i) PROVE Quiet'
  <2>1. /\ phase[i] = "backoff" /\ ~aborted[i] /\ ~manuallyStopped
        /\ UNCHANGED <<manuallyStopped, attempts, call, waitsFor>>
    BY <1>3 DEF Restarts, MustNotRestart
  <2>2. tasks = i /\ ~Asking /\ \A j \in Instances \ {i} : phase[j] = "free"
    BY <2>1, SoleInstance DEF Runs
  <2>3. /\ ~\E c \in Everyone : IsStopping(c)
        /\ \A c \in Everyone : call[c].at # "asking"
    BY <2>1, <2>2 DEF Quiet, StopsTheInstance, Asking
  <2>4. CASE RestartRefused(i) \/ \E n \in Instances : Launch(n, i)
    BY <2>1, <2>3, <2>4, <1>r
  <2>5. CASE ~(RestartRefused(i) \/ \E n \in Instances : Launch(n, i))
    <3>1. /\ phase' = [phase EXCEPT ![i] = "asking"]
          /\ tasks' = NoInstance /\ status' = status
      BY <1>3, <2>2, <2>5 DEF Restarts, Kept
    <3>2. \A j \in Instances : phase'[j] = IF j = i THEN "asking" ELSE "free"
      BY <2>2, <3>1, <1>t
    <3>3. OneInstance'
      BY <2>1, <2>3, <3>1, <3>2, <1>t DEF OneInstance, Asking, Runs
    <3>4. StopsTheInstance'
      BY <2>1, <2>3 DEF StopsTheInstance, IsStopping
    <3>5. Up = {} /\ Up' = {} /\ Alive # {}
      BY <2>1, <2>2, <3>2 DEF Up, Alive
    <3>6. StatusIsTrue'
      BY <3>1, <3>5 DEF Quiet, StatusIsTrue
    <3>7. AttemptsLeft'
      BY <2>1, <3>5 DEF Quiet, AttemptsLeft
    <3>. QED
      BY <3>3, <3>4, <3>6, <3>7 DEF Quiet
  <2>. QED
    BY <2>4, <2>5
<1>4. ASSUME NEW i \in Instances, RestartAnswered(i) PROVE Quiet'
  <2>1. /\ phase[i] = "asking" /\ UNCHANGED <<manuallyStopped, attempts, call, waitsFor>>
        /\ RestartRefused(i) \/ \E n \in Instances : Launch(n, i)
    BY <1>4 DEF RestartAnswered
  <2>2. /\ ~\E c \in Everyone : IsStopping(c)
        /\ \A c \in Everyone : call[c].at # "asking"
    BY <2>1, SoleInstance DEF Stopping, IsStopping
  <2>. QED
    BY <2>1, <2>2, <1>r
<1>5. ASSUME NEW c \in Callers, NEW j \in {"start", "stop", "restart", "logout"}, Call(c, j)
      PROVE  Quiet'
  <2>1. c \in Everyone /\ j \in Jobs /\ call[c].at = "idle"
    BY <1>5 DEF Everyone, Jobs, Call, Idle
  <2>2. Begin(c, j) \/ Stop(c, j)
    BY <1>5 DEF Call
  <2>. QED
    BY <1>t, <2>1, <2>2, BeginQuiet, StopQuiet
<1>6. ASSUME NEW c \in Everyone, Answered(c) PROVE Quiet'
  <2>1. call[c].at = "asking" /\ Asking
    BY <1>6 DEF Answered, Asking
  <2>2. /\ tasks = NoInstance /\ \A d \in Everyone : ~IsStopping(d)
        /\ \A d \in Everyone \ {c} : call[d].at # "asking"
    BY <2>1 DEF Quiet, OneInstance, StopsTheInstance
  <2>3. \A i \in Instances : phase[i] = "free"
    <3>1. \A i \in Instances : phase[i] \notin Runs /\ phase[i] # "asking"
      BY <2>1, <2>2, <1>t DEF Quiet, OneInstance
    <3>. QED
      BY <3>1, <1>t DEF Runs
  <2>4. call' = [call EXCEPT ![c] = Idle] /\ Idle.at = "idle"
    <3>1. call' = [call EXCEPT ![c] = Idle]
      BY <1>6 DEF Answered, Go
    <3>. QED
      BY <3>1 DEF Idle
  <2>5. ASSUME NEW i \in Instances, Launch(i, NoInstance), Forgets PROVE Quiet'
    <3>1. \A d \in Everyone : call'[d].at \notin {"asking", "hook", "stopping"}
      BY <2>2, <2>4, <1>t DEF IsStopping
    <3>. QED
      BY <2>2, <2>3, <2>5, <3>1, <1>t, LaunchQuiet DEF Forgets
  <2>6. CASE Refused /\ UNCHANGED <<storeVars, instanceVars, manuallyStopped, attempts>>
    <3>1. ~status'.running /\ Up = {}
      BY <2>3, <2>6 DEF Refused, Up
    <3>2. UNCHANGED <<tasks, phase, aborted, manuallyStopped, waitsFor, attempts>>
      BY <1>6, <2>6 DEF Answered, storeVars, instanceVars
    <3>. QED
      BY <2>4, <3>1, <3>2, CallQuiet
  <2>. QED
    BY <1>6, <2>5, <2>6 DEF Answered, Launched
<1>7. ASSUME NEW c \in Everyone, HookReturns(c) PROVE Quiet'
  <2>1. /\ call[c].at = "hook" /\ waitsFor[c] = tasks
        /\ UNCHANGED <<phase, aborted, manuallyStopped, attempts, waitsFor>>
    BY <1>7 DEF HookReturns, Quiet, StopsTheInstance, IsStopping, instanceVars
  <2>2. CASE tasks # NoInstance
    <3>1. /\ call' = [call EXCEPT ![c] = [at |-> "stopping", job |-> call[c].job]]
          /\ UNCHANGED <<tasks, status>>
      BY <1>7, <2>1, <2>2 DEF HookReturns, Go, storeVars
    <3>2. /\ \A d \in Everyone \ {c} : call'[d] = call[d]
          /\ call'[c].at = "stopping"
      BY <3>1, <1>t
    <3>3. Asking' <=> Asking
      BY <2>1, <3>2 DEF Asking
    <3>4. OneInstance'
      BY <2>1, <3>1, <3>2, <3>3 DEF Quiet, OneInstance
    <3>5. StopsTheInstance'
      BY <2>1, <2>2, <3>1, <3>2, <3>3 DEF Quiet, StopsTheInstance, IsStopping
    <3>6. StatusIsTrue' /\ AttemptsLeft'
      BY <2>1, <3>1 DEF Quiet, StatusIsTrue, AttemptsLeft, Up, Alive
    <3>. QED
      BY <3>4, <3>5, <3>6 DEF Quiet
  <2>3. CASE tasks = NoInstance
    <3>1. /\ call' = [call EXCEPT ![c] = AfterStop(call[c].job)]
          /\ tasks' = tasks /\ ~status'.running
      BY <1>7, <1>t, <2>1, <2>3 DEF HookReturns
    <3>2. AfterStop(call[c].job).at \notin {"asking", "hook", "stopping"}
      BY DEF AfterStop, Idle
    <3>3. Up = {}
      BY <2>3, <1>t DEF Up, Quiet, OneInstance, Runs
    <3>. QED
      BY <2>1, <3>1, <3>2, <3>3, CallQuiet
  <2>. QED
    BY <2>2, <2>3
<1>8. ASSUME NEW c \in Everyone, StartsAgain(c) PROVE Quiet'
  BY <1>8, <1>t, <1>j, BeginQuiet DEF StartsAgain
<1>9. ASSUME NEW c \in Everyone, MarkLoggedOut(c) PROVE Quiet'
  <2>1. call' = [call EXCEPT ![c] = Idle] /\ Idle.at = "idle"
    <3>1. call' = [call EXCEPT ![c] = Idle]
      BY <1>9 DEF MarkLoggedOut, Go
    <3>. QED
      BY <3>1 DEF Idle
  <2>2. UNCHANGED <<tasks, phase, aborted, manuallyStopped, waitsFor, attempts>>
    BY <1>9 DEF MarkLoggedOut, storeVars, instanceVars
  <2>3. ~status'.running /\ Up = {}
    <3>1. ~status.running
      BY <1>9 DEF MarkLoggedOut, Note, Undisturbed
    <3>. QED
      BY <1>9, <3>1 DEF MarkLoggedOut, Quiet, StatusIsTrue, Types
  <2>. QED
    BY <2>1, <2>2, <2>3, CallQuiet
<1>m. Monitor \in Everyone /\ "check" \in Jobs
  BY DEF Everyone, Jobs
<1>10. CASE Looks
  <2>1. call' = [call EXCEPT ![Monitor] = [at |-> "looked", job |-> "check"]]
    BY <1>10 DEF Looks, Go
  <2>. QED
    BY <1>10, <1>m, <2>1, CallQuiet DEF Looks, storeVars, instanceVars
<1>11. CASE Acts
  <2>1. call[Monitor].at = "looked"
    BY <1>11 DEF Acts
  <2>2. CASE Begin(Monitor, "check") \/ Stop(Monitor, "check")
    BY <1>t, <1>m, <2>1, <2>2, BeginQuiet, StopQuiet
  <2>3. CASE ~(Begin(Monitor, "check") \/ Stop(Monitor, "check"))
    <3>1. Go(Monitor, "idle", "check")
          /\ UNCHANGED <<tasks, phase, aborted, manuallyStopped, attempts, status, waitsFor>>
      BY <1>11, <2>3 DEF Acts, storeVars, instanceVars
    <3>2. call' = [call EXCEPT ![Monitor] = Idle]
      BY <3>1 DEF Go
    <3>3. Idle.at = "idle"
      BY DEF Idle
    <3>. QED
      BY <1>m, <3>1, <3>2, <3>3, CallQuiet
  <2>. QED
    BY <2>2, <2>3
<1>12. CASE UNCHANGED vars
  BY <1>12, <1>u DEF vars
<1>i. Idle.at = "idle"
  BY DEF Idle
<1>13. ASSUME NEW i \in Instances, RestartFails(i) PROVE Quiet'
  <2>1. phase[i] \in {"backoff", "asking"} /\ UNCHANGED <<manuallyStopped, attempts, call, waitsFor>>
    BY <1>13 DEF RestartFails
  <2>2. CASE phase[i] = "backoff"
    <3>1. ~manuallyStopped /\ ~Asking
      BY <1>13, <2>2, SoleInstance DEF RestartFails, MustNotRestart, Runs
    <3>2. /\ ~\E c \in Everyone : IsStopping(c)
          /\ \A c \in Everyone : call[c].at # "asking"
      BY <3>1 DEF Quiet, StopsTheInstance, Asking
    <3>. QED
      BY <1>13, <2>1, <3>2, <1>r
  <2>3. CASE phase[i] = "asking"
    <3>1. /\ ~\E c \in Everyone : IsStopping(c)
          /\ \A c \in Everyone : call[c].at # "asking"
      BY <2>3, SoleInstance DEF Stopping, IsStopping
    <3>. QED
      BY <1>13, <2>1, <3>1, <1>r
  <2>. QED
    BY <2>1, <2>2, <2>3
<1>14. ASSUME NEW c \in Everyone, JobFails(c) PROVE Quiet'
  <2>1. /\ UNCHANGED <<tasks, phase, aborted, manuallyStopped, status>>
        /\ attempts' \in {0, attempts}
    BY <1>14 DEF JobFails, storeVars, instanceVars
  <2>2. \A d \in Everyone \ {c} : waitsFor'[d] = waitsFor[d]
    BY <1>14 DEF JobFails, Types
  <2>3. call' = [call EXCEPT ![c] = Idle]
    BY <1>14 DEF JobFails, Go
  <2>. QED
    BY <1>i, <2>1, <2>2, <2>3, CallQuiet
<1>15. CASE ActFails
  <2>1. /\ UNCHANGED <<tasks, phase, aborted, manuallyStopped, status, waitsFor>>
        /\ attempts' \in {0, attempts}
    BY <1>15 DEF ActFails, storeVars, instanceVars
  <2>2. call' = [call EXCEPT ![Monitor] = Idle]
    BY <1>15 DEF ActFails, Go
  <2>. QED
    BY <1>i, <1>m, <2>1, <2>2, CallQuiet
<1>. QED
  BY <1>1, <1>2, <1>3, <1>4, <1>5, <1>6, <1>7, <1>8, <1>9, <1>10, <1>11, <1>12, <1>13, <1>14, <1>15
  DEF Next, InstanceStep, CallerStep

-----------------------------------------------------------------------------
(* Once a stop has found something to stop and no start under way, the     *)
(* account stays on its way down.                                          *)
LEMMA GoodStep ==
  ASSUME ChannelInv, [Next]_vars, CleanStops', wanted' = "down"
  PROVE  StoppedForGood'
<1> DEFINE Starts(s) == s.job \in {"restart", "check"} /\ s.at \in {"hook", "stopping", "next"}
<1>c. Undisturbed' /\ CleanStops
  BY UndisturbedBefore DEF CleanStops
<1>q. Quiet /\ Types /\ JobsFit
  BY <1>c DEF ChannelInv, Quiet, CleanStops
<1>t. /\ call \in [Everyone -> CallStates] /\ NoInstance \notin Instances
      /\ tasks \in Instances \cup {NoInstance}
  BY <1>q, Numbers DEF Types, CallStates
<1>w. WillStart <=> \E c \in Everyone : Starts(call[c])
  BY DEF WillStart
<1>p. WillStart' <=> \E c \in Everyone : Starts(call'[c])
  BY DEF WillStart
<1>g. wanted = "down" => StoppedForGood
  BY <1>c DEF ChannelInv
<1>1. ASSUME NEW c \in Callers, NEW j \in {"start", "stop", "restart", "logout"}, Call(c, j)
      PROVE  StoppedForGood'
  <2>1. c \in Everyone /\ j \in {"stop", "logout"} /\ Stop(c, j) /\ call[c] = Idle
    BY <1>1 DEF Everyone, Call
  <2>2. ~NothingToStop /\ ~Asking /\ ~WillStart
    BY <2>1 DEF Stop, CleanStops
  <2>3. /\ manuallyStopped' /\ phase' = phase
        /\ Go(c, "hook", j) \/ Go(c, "stopping", j)
    BY <2>1, <2>2 DEF Stop, Remembers
  <2>4. \E at \in {"hook", "stopping"} : call' = [call EXCEPT ![c] = [at |-> at, job |-> j]]
    BY <2>3 DEF Go
  <2>5. /\ call'[c].at \in {"hook", "stopping"} /\ call'[c].job = j
        /\ \A d \in Everyone \ {c} : call'[d] = call[d]
    BY <2>1, <2>4, <1>t
  <2>6. ~WillStart'
    BY <2>1, <2>2, <2>5, <1>w, <1>p
  <2>7. ~Asking'
    BY <2>2, <2>3, <2>5 DEF Asking
  <2>8. Stopping'
    BY <2>1, <2>5 DEF Stopping
  <2>9. tasks' # NoInstance => aborted'[tasks']
    BY <2>1, <2>2, <1>q, <1>t DEF Stop, Types, storeVars
  <2>. QED
    BY <2>3, <2>6, <2>7, <2>8, <2>9 DEF StoppedForGood
<1>s. ASSUME NEW i \in Instances, Settles(i), phase[i] \in Runs, UNCHANGED manuallyStopped,
             wanted = "down"
      PROVE  StoppedForGood'
  <2>1. tasks = i /\ ~Asking /\ ~WillStart /\ manuallyStopped
    BY <1>g, <1>s, <1>q, SoleInstance DEF StoppedForGood, Runs
  <2>2. tasks' = NoInstance /\ \A j \in Instances : phase'[j] # "asking"
    BY <2>1, <1>s, <1>q DEF Settles, Kept, Types, Asking
  <2>3. \A c \in Everyone :
          call'[c] = call[c] \/ (IsStopping(c) /\ call'[c] = AfterStop(call[c].job))
    BY <1>s DEF Settles, StoppersOf, IsStopping
  <2>4. \A c \in Everyone : IsStopping(c) => call[c].job \in {"stop", "logout"}
    BY <2>1, <1>w, <1>q DEF JobsFit, IsStopping
  <2>5. \A job \in {"stop", "logout"} : AfterStop(job).at \in {"idle", "marking"}
    BY DEF AfterStop, Idle
  <2>6. ~WillStart' /\ ~Asking'
    BY <2>1, <2>2, <2>3, <2>4, <2>5, <1>w, <1>p DEF Asking
  <2>. QED
    BY <1>s, <2>1, <2>2, <2>6 DEF StoppedForGood
<1>k. ASSUME wanted = "down", NEW c \in Everyone, NEW s, call' = [call EXCEPT ![c] = s],
             s.at \notin {"asking", "hook", "stopping", "next"},
             ~IsStopping(c) \/ "left stopped" \in events',
             UNCHANGED <<tasks, phase, aborted, manuallyStopped>>
      PROVE  StoppedForGood'
  <2>1. /\ call'[c].at \notin {"asking", "hook", "stopping", "next"}
        /\ \A d \in Everyone \ {c} : call'[d] = call[d]
    BY <1>k, <1>t
  <2>2. ~WillStart' /\ ~Asking'
    BY <1>g, <1>k, <2>1, <1>w, <1>p DEF StoppedForGood, Asking
  <2>3. Stopping => Stopping' \/ "left stopped" \in events'
    BY <1>k, <2>1 DEF Stopping, IsStopping
  <2>. QED
    BY <1>g, <1>k, <2>2, <2>3, EventsGrow DEF StoppedForGood
<1>2. ASSUME NEW i \in Instances, InstanceStep(i) \/ Ends(i) PROVE StoppedForGood'
  <2>1. wanted = "down"
    BY <1>2 DEF InstanceStep, BackoffEnds, Restarts, RestartAnswered, RestartFails, Ends
  <2>2. manuallyStopped /\ ~Asking
    BY <2>1, <1>g DEF StoppedForGood
  <2>3. ~Restarts(i) /\ ~RestartAnswered(i) /\ ~RestartFails(i)
    BY <2>2 DEF Restarts, MustNotRestart, RestartAnswered, RestartFails, Asking
  <2>4. Settles(i) /\ phase[i] \in Runs /\ UNCHANGED manuallyStopped
    BY <1>2, <2>2, <2>3 DEF InstanceStep, BackoffEnds, Ends, Runs
  <2>. QED
    BY <2>1, <2>4, <1>s
<1>3. ASSUME NEW c \in Everyone, HookReturns(c) PROVE StoppedForGood'
  <2>1. wanted = "down" /\ IsStopping(c) /\ waitsFor[c] = tasks
        /\ UNCHANGED <<phase, aborted, manuallyStopped>>
    BY <1>3, <1>q
    DEF HookReturns, IsStopping, Quiet, StopsTheInstance, instanceVars
  <2>2. ~WillStart /\ ~Asking /\ manuallyStopped
    BY <2>1, <1>g DEF StoppedForGood
  <2>3. call[c].job \in {"stop", "logout"}
    BY <2>1, <2>2, <1>w, <1>q DEF JobsFit, IsStopping
  <2>4. CASE tasks # NoInstance
    <3>1. call' = [call EXCEPT ![c] = [at |-> "stopping", job |-> call[c].job]]
      BY <1>3, <2>1, <2>4 DEF HookReturns, Go
    <3>2. /\ call'[c].at = "stopping" /\ call'[c].job = call[c].job
          /\ \A d \in Everyone \ {c} : call'[d] = call[d]
      BY <3>1, <1>t
    <3>3. ~WillStart' /\ ~Asking'
      BY <2>1, <2>2, <2>3, <3>2, <1>w, <1>p DEF Asking
    <3>4. Stopping' /\ UNCHANGED tasks
      BY <1>3, <2>1, <2>4, <3>2 DEF Stopping, HookReturns, storeVars
    <3>. QED
      BY <2>1, <2>2, <3>3, <3>4, <1>g DEF StoppedForGood
  <2>5. CASE tasks = NoInstance
    <3>1. call' = [call EXCEPT ![c] = AfterStop(call[c].job)] /\ tasks' = NoInstance
      BY <1>3, <2>1, <2>5 DEF HookReturns
    <3>2. AfterStop(call[c].job).at \in {"idle", "marking"}
      BY <2>3 DEF AfterStop, Idle
    <3>3. /\ call'[c].at \in {"idle", "marking"}
          /\ \A d \in Everyone \ {c} : call'[d] = call[d]
      BY <3>1, <3>2, <1>t
    <3>4. ~WillStart' /\ ~Asking'
      BY <2>1, <2>2, <3>3, <1>w, <1>p DEF Asking
    <3>. QED
      BY <2>1, <2>2, <3>1, <3>4 DEF StoppedForGood
  <2>. QED
    BY <2>4, <2>5
<1>4. ASSUME NEW c \in Everyone, Answered(c) \/ StartsAgain(c) PROVE FALSE
  <2>1. wanted = "down"
    BY <1>4 DEF Answered, StartsAgain
  <2>2. ~WillStart /\ ~Asking
    BY <2>1, <1>g DEF StoppedForGood
  <2>. QED
    BY <1>4, <2>2, <1>q, <1>w DEF Answered, StartsAgain, JobsFit, Asking
<1>5. ASSUME NEW c \in Everyone, MarkLoggedOut(c) PROVE StoppedForGood'
  <2>1. /\ wanted = "down" /\ ~IsStopping(c)
        /\ UNCHANGED <<tasks, phase, aborted, manuallyStopped>>
    BY <1>5 DEF MarkLoggedOut, IsStopping, storeVars, instanceVars
  <2>2. call' = [call EXCEPT ![c] = Idle]
    BY <1>5 DEF MarkLoggedOut, Go
  <2>3. Idle.at = "idle"
    BY DEF Idle
  <2>. QED
    BY <2>1, <2>2, <2>3, <1>k
<1>m. Monitor \in Everyone
  BY DEF Everyone
<1>6. CASE Looks
  <2>1. /\ wanted = "down" /\ call[Monitor] = Idle
        /\ UNCHANGED <<tasks, phase, aborted, manuallyStopped>>
        /\ call' = [call EXCEPT ![Monitor] = [at |-> "looked", job |-> "check"]]
    BY <1>6 DEF Looks, Go, storeVars, instanceVars
  <2>2. ~IsStopping(Monitor)
    BY <2>1 DEF IsStopping, Idle
  <2>. QED
    BY <2>1, <2>2, <1>k, <1>m
<1>7. CASE Acts
  <2>1. wanted = "down" /\ ~IsStopping(Monitor)
    BY <1>7 DEF Acts, IsStopping
  <2>2. manuallyStopped
    BY <2>1, <1>g DEF StoppedForGood
  <2>3. /\ Go(Monitor, "idle", "check") /\ UNCHANGED <<tasks, phase, aborted, manuallyStopped>>
    BY <1>7, <2>2 DEF Acts, storeVars, instanceVars
  <2>4. call' = [call EXCEPT ![Monitor] = Idle]
    BY <2>3 DEF Go
  <2>5. Idle.at = "idle"
    BY DEF Idle
  <2>. QED
    BY <2>1, <2>3, <2>4, <2>5, <1>k, <1>m
<1>8. CASE UNCHANGED vars
  BY <1>8, <1>g DEF vars, StoppedForGood, Asking, WillStart, Stopping
<1>9. ASSUME NEW c \in Everyone, JobFails(c) PROVE StoppedForGood'
  <2>1. wanted = "down" /\ UNCHANGED <<tasks, phase, aborted, manuallyStopped>>
    BY <1>9 DEF JobFails, storeVars, instanceVars
  <2>2. call[c].at = "hook"
    <3>1. call[c].at # "next"
      BY <2>1, <1>g, <1>q, <1>w DEF StoppedForGood, JobsFit
    <3>2. call[c].at # "asking"
      BY <2>1, <1>g DEF StoppedForGood, Asking
    <3>. QED
      BY <1>9, <3>1, <3>2 DEF JobFails
  <2>3. "left stopped" \in events' /\ call' = [call EXCEPT ![c] = Idle]
    BY <1>9, <2>2 DEF JobFails, Note, Go
  <2>4. Idle.at = "idle"
    BY DEF Idle
  <2>. QED
    BY <2>1, <2>3, <2>4, <1>k
<1>10. ~ActFails
  BY <1>g DEF ActFails, StoppedForGood
<1>. QED
  BY <1>1, <1>2, <1>3, <1>4, <1>5, <1>6, <1>7, <1>8, <1>9, <1>10 DEF Next, CallerStep

-----------------------------------------------------------------------------
(* The invariant holds before anything was started.                        *)
LEMMA ChannelInvInit == Init => ChannelInv
<1> SUFFICES ASSUME Init PROVE ChannelInv
  OBVIOUS
<1>1. Types
  <2>1. Idle \in CallStates
    BY CallValues
  <2>2. call \in [Everyone -> CallStates] /\ waitsFor \in [Everyone -> Instances \cup {NoInstance}]
    BY <2>1 DEF Init
  <2>3. 0 \in 0..CountBound
    BY ManagerAssumption DEF CountBound
  <2>. QED
    BY <2>2, <2>3 DEF Init, Types, CallStates
<1>2. \A c \in Everyone : call[c].at = "idle"
  BY DEF Init, Idle
<1>3. NoInstance \notin Instances /\ MaxRestarts \in Nat
  BY <1>1, Numbers
<1>4. JobsFit
  BY <1>2 DEF JobsFit, IsStopping
<1>5. OneInstance /\ StopsTheInstance
  BY <1>2, <1>3 DEF Init, OneInstance, StopsTheInstance, IsStopping, Asking, Runs
<1>6. StatusIsTrue /\ AttemptsLeft
  BY <1>3 DEF Init, StatusIsTrue, AttemptsLeft, Up, Alive
<1>. QED
  BY <1>1, <1>4, <1>5, <1>6 DEF ChannelInv, Init

(* The inductive invariant of the account holds throughout.                *)
THEOREM ChannelInvariant == Spec => []ChannelInv
<1>1. ASSUME ChannelInv, [Next]_vars PROVE ChannelInv'
  <2>1. Types' /\ JobsFit'
    BY <1>1, TypesStep, JobsStep DEF ChannelInv
  <2>2. Undisturbed' => Quiet'
    BY <1>1, UndisturbedBefore, QuietStep DEF ChannelInv, Quiet
  <2>3. CleanStops' /\ wanted' = "down" => StoppedForGood'
    BY <1>1, GoodStep
  <2>. QED
    BY <2>1, <2>2, <2>3 DEF ChannelInv, Quiet
<1>. QED
  BY ChannelInvInit, <1>1, PTL DEF Spec

(* The types; and an account that is not disturbed is restarted at most    *)
(* MaxRestarts times in a row.                                             *)
THEOREM TypeCorrect == Spec => []TypeOK
<1>1. ChannelInv => TypeOK
  BY DEF ChannelInv, Types, AttemptsLeft, TypeOK
<1>. QED
  BY <1>1, ChannelInvariant, PTL

(* An account that is not disturbed has one instance at most, the manager  *)
(* can stop it, and the status says whether it runs, whatever calls, ends, *)
(* restarts and checks of the monitor come in between.                     *)
THEOREM RecordsTrue == Spec => []RecordsAreTrue
<1>1. ChannelInv => RecordsAreTrue
  BY DEF ChannelInv, OneInstance, StatusIsTrue, RecordsAreTrue, Runs
<1>. QED
  BY <1>1, ChannelInvariant, PTL

(* A stop that is not disturbed, finds something to stop and meets no      *)
(* start under way is final: neither a restart that was planned nor the    *)
(* monitor brings the account up again, even where the stop fails half way *)
(* (what is left then has been told to end).                               *)
THEOREM StaysDown == Spec => []StoppedStaysDown
<1>1. ASSUME ChannelInv, CleanStops, wanted = "down", ~Stopping, NEW i \in Alive
      PROVE  "left stopped" \in events /\ aborted[i]
  <2>1. StoppedForGood /\ OneInstance /\ Types
    BY <1>1 DEF ChannelInv, CleanStops
  <2>2. i \in Instances /\ phase[i] # "free" /\ phase[i] # "asking"
    BY <1>1, <2>1 DEF Alive, StoppedForGood, Asking
  <2>3. tasks = i /\ tasks # NoInstance
    <3>1. phase[i] \in Runs
      BY <2>1, <2>2 DEF Types, Runs
    <3>2. NoInstance \notin Instances
      BY <2>1, Numbers
    <3>. QED
      BY <2>1, <2>2, <3>1, <3>2 DEF OneInstance
  <2>. QED
    BY <1>1, <2>1, <2>3 DEF StoppedForGood
<1>2. ChannelInv => StoppedStaysDown
  BY <1>1 DEF StoppedStaysDown, NotRestarted, CleanStops
<1>. QED
  BY <1>2, ChannelInvariant, PTL
=============================================================================

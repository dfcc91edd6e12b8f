-------------------------- MODULE ChannelManager ---------------------------
(***************************************************************************)
(* One account of one channel, from its start to its stop:                 *)
(*   src/src/gateway/server-channels.ts         createChannelManager       *)
(*   src/src/gateway/channel-health-monitor.ts  runCheck                   *)
(*   src/src/gateway/server-methods/{web,channels}.ts, server-close.ts,    *)
(*   server-reload-handlers.ts                  those who start and stop   *)
(*                                                                         *)
(* An instance is one call of the plugin's startAccount with everything    *)
(* that is chained to its promise: the back-off and the automatic restart. *)
(* The promise with the chain is what the map of tasks has.  Of the time   *)
(* only the order of events is left: the grace times, the cooldown and the *)
(* hourly limit of the monitor delay what it does.                         *)
(*                                                                         *)
(* A definition X_Mistake is X with a plausible mistake in it; nothing     *)
(* refers to it.                                                           *)
(***************************************************************************)
EXTENDS Naturals

CONSTANTS
  Callers,      \* requests, reloads and shutdown, each again and again
  Monitor,      \* the health monitor, a caller too
  MaxInstances, \* how many are remembered at one time, those that ended aside
  MaxRestarts,  \* MAX_RESTART_ATTEMPTS
  Cases         \* kinds of plugins and of calls: asks = isConfigured is a promise,
                \* hook = has a stopAccount, refuses = may be disabled or unconfigured,
                \* fails = the configuration, isConfigured and stopAccount may throw

ASSUME ManagerAssumption ==
  /\ Monitor \notin Callers
  /\ MaxInstances \in Nat \ {0} /\ MaxRestarts \in Nat \ {0}
  /\ \A c \in Cases : c \in [asks : BOOLEAN, hook : BOOLEAN, refuses : BOOLEAN, fails : BOOLEAN,
                           calls : [Callers -> SUBSET {"start", "stop", "restart", "logout"}]]

Everyone == Callers \cup {Monitor}
Jobs == {"start", "stop", "restart", "logout", "check", "none"}
Instances == 1..MaxInstances
NoInstance == 0
CountBound == MaxRestarts + 2  \* counts from here on are all the same

VARIABLES
  arranged,    \* the case chosen
  tasks, aborts,  \* the account's entries in the store, instances
  phase,       \* of each instance: "free", "up", "backoff", "asking"
  aborted,     \* whether its signal is
  manuallyStopped,
  attempts,    \* restartAttempts
  status,      \* running and managed (enabled and configured) of the runtime
  call,        \* where each caller is, and in what job
  waitsFor,    \* the task a stop awaits, as long as it has not settled
  seen,        \* whether the monitor's snapshot says that the account runs
  wanted,      \* "up" or "down": the last call, the monitor's aside
  events       \* what happened that disturbs

storeVars == <<tasks, aborts>>
instanceVars == <<phase, aborted>>
vars == <<arranged, tasks, aborts, phase, aborted, manuallyStopped, attempts, status,
          call, waitsFor, seen, wanted, events>>

Idle == [at |-> "idle", job |-> "none"]

Init ==
  /\ arranged \in Cases
  /\ tasks = NoInstance /\ aborts = NoInstance
  /\ phase = [i \in Instances |-> "free"] /\ aborted = [i \in Instances |-> FALSE]
  /\ manuallyStopped = FALSE /\ attempts = 0
  /\ status = [running |-> FALSE, managed |-> TRUE]
  /\ call = [c \in Everyone |-> Idle]
  /\ waitsFor = [c \in Everyone |-> NoInstance] /\ seen = FALSE
  /\ wanted = "up" /\ events = {}

(* A caller goes on with its job; one that returns has none.               *)
Go(c, at, job) ==
  call' = [call EXCEPT ![c] = IF at = "idle" THEN Idle ELSE [at |-> at, job |-> job]]

Asking == (\E c \in Everyone : call[c].at = "asking") \/ \E i \in Instances : phase[i] = "asking"
Stopping == \E c \in Everyone : call[c].at \in {"hook", "stopping"}
WillStart == \E c \in Everyone : /\ call[c].job \in {"restart", "check"}
                                /\ call[c].at \in {"hook", "stopping", "next"}

Note(what, happened) == events' = IF happened THEN events \cup {what} ELSE events

-----------------------------------------------------------------------------
(* startChannelInternal                                                    *)

(* The last finally of a chain takes an entry away if it is its own.       *)
Kept(i, entry) == IF entry = i THEN NoInstance ELSE entry

(* The part after the awaits, here of a start out of the chain of by: the  *)
(* entries are written over what is there.                                 *)
Launch(i, by) ==
  /\ phase[i] = "free" /\ \A j \in 1..(i - 1) : phase[j] # "free"
  /\ phase' = [j \in Instances |-> IF j = i THEN "up" ELSE IF j = by THEN "free" ELSE phase[j]]
  /\ tasks' = Kept(by, i) /\ aborts' = Kept(by, i)
  /\ aborted' = [aborted EXCEPT ![i] = FALSE]
  /\ status' = [running |-> TRUE, managed |-> TRUE]

(* A start that was called forgets that the account was stopped and how    *)
(* often it was restarted.                                                 *)
Forgets_Attempts == attempts' = 0 /\ UNCHANGED manuallyStopped
Forgets == manuallyStopped' = FALSE /\ attempts' = 0
Launched == Forgets /\ \E i \in Instances : Launch(i, NoInstance)

(* Disabled, or not configured.                                            *)
Refused == arranged.refuses /\ status' = [running |-> FALSE, managed |-> FALSE]

(* A call does nothing while the account has a task.                       *)
MayStart_Always == TRUE
MayStart == tasks = NoInstance

Begin(c, job) ==
  /\ \/ /\ MayStart /\ ~arranged.asks /\ Launched /\ Go(c, "idle", job)
     \/ /\ \/ MayStart /\ arranged.asks /\ Go(c, "asking", job) /\ UNCHANGED status
           \/ MayStart /\ Refused /\ Go(c, "idle", job)
           \/ ~MayStart /\ Go(c, "idle", job) /\ UNCHANGED status
        /\ attempts' = IF c = Monitor THEN 0 ELSE attempts  \* resetRestartAttempts
        /\ UNCHANGED <<storeVars, instanceVars, manuallyStopped>>
  /\ events' = events \cup (IF MayStart /\ Asking THEN {"overlap"} ELSE {})
                      \cup (IF Stopping THEN {"start during stop"} ELSE {})
  /\ UNCHANGED waitsFor

(* isConfigured answers.                                                   *)
Answered(c) ==
  /\ call[c].at = "asking"
  /\ Go(c, "idle", call[c].job)
  /\ \/ Launched
     \/ Refused /\ UNCHANGED <<storeVars, instanceVars, manuallyStopped, attempts>>
  /\ UNCHANGED <<arranged, waitsFor, seen, wanted, events>>

-----------------------------------------------------------------------------
(* The chain of an instance.                                               *)

(* Its promise settles.  Its own entries go, and the stops that await it   *)
(* end before anything else happens; they take away whatever is there.     *)
AfterStop(job) ==
  CASE job = "stop" -> Idle
    [] job = "logout" -> [at |-> "marking", job |-> job]
    [] OTHER -> [at |-> "next", job |-> job]

StoppersOf(i) == {c \in Everyone : call[c].at = "stopping" /\ waitsFor[c] = i}

Settles(i) ==
  /\ phase' = [phase EXCEPT ![i] = "free"] /\ aborted' = [aborted EXCEPT ![i] = FALSE]
  /\ tasks' = IF StoppersOf(i) = {} THEN Kept(i, tasks) ELSE NoInstance
  /\ aborts' = tasks'
  /\ status' = [status EXCEPT !.running = @ /\ phase[i] # "up" /\ StoppersOf(i) = {}]
  /\ call' = [c \in Everyone |-> IF c \in StoppersOf(i) THEN AfterStop(call[c].job) ELSE call[c]]
  /\ waitsFor' = [c \in Everyone |-> IF waitsFor[c] = i THEN NoInstance ELSE waitsFor[c]]

(* After the last attempt it gives up.                                     *)
MayRestart_OnceMore(n) == n - 1 <= MaxRestarts
MayRestart(n) == n <= MaxRestarts

(* startAccount's promise settles: aborted, failed or at its end.          *)
Ends(i) ==
  /\ phase[i] = "up"
  /\ IF ~manuallyStopped /\ MayRestart(attempts + 1)
       THEN /\ phase' = [phase EXCEPT ![i] = "backoff"]
            /\ status' = [status EXCEPT !.running = FALSE]
            /\ UNCHANGED <<storeVars, aborted, call, waitsFor>>
       ELSE Settles(i)
  /\ attempts' = IF manuallyStopped \/ attempts = CountBound THEN attempts ELSE attempts + 1
  /\ UNCHANGED <<arranged, manuallyStopped, seen, wanted, events>>

(* sleepWithAbort rejects, or resolves and finds the account stopped or    *)
(* with a task of somebody else's.                                         *)
MustNotRestart(i) == aborted[i] \/ manuallyStopped

BackoffEnds(i) ==
  /\ phase[i] = "backoff"
  /\ MustNotRestart(i) \/ Kept(i, tasks) # NoInstance
  /\ Settles(i)
  /\ UNCHANGED <<arranged, manuallyStopped, attempts, seen, wanted, events>>

(* It resolves, and the account is started again.                          *)
RestartRefused(i) ==
  /\ Refused
  /\ phase' = [phase EXCEPT ![i] = "free"]
  /\ tasks' = Kept(i, tasks) /\ aborts' = Kept(i, aborts)
  /\ UNCHANGED aborted

Restarts(i) ==
  /\ phase[i] = "backoff"
  /\ ~MustNotRestart(i) /\ Kept(i, tasks) = NoInstance
  /\ \/ ~arranged.asks /\ (\E n \in Instances : Launch(n, i)) /\ UNCHANGED events
     \/ /\ arranged.asks
        /\ phase' = [phase EXCEPT ![i] = "asking"]
        /\ tasks' = Kept(i, tasks) /\ aborts' = Kept(i, aborts)
        /\ Note("overlap", Asking)
        /\ UNCHANGED <<aborted, status>>
     \/ RestartRefused(i) /\ UNCHANGED events
  /\ UNCHANGED <<arranged, manuallyStopped, attempts, call, waitsFor, seen, wanted>>

(* isConfigured answers, and nobody looks again whether the account was    *)
(* stopped.                                                                *)
RestartAnswered(i) ==
  /\ phase[i] = "asking"
  /\ RestartRefused(i) \/ \E n \in Instances : Launch(n, i)
  /\ UNCHANGED <<arranged, manuallyStopped, attempts, call, waitsFor, seen, wanted, events>>

(* startChannelInternal throws or rejects, and the catch of the chain      *)
(* leaves the account to the monitor: nothing is left that could end.      *)
RestartFails(i) ==
  /\ arranged.fails
  /\ \/ phase[i] = "backoff" /\ ~MustNotRestart(i) /\ Kept(i, tasks) = NoInstance
     \/ phase[i] = "asking"
  /\ phase' = [phase EXCEPT ![i] = "free"]
  /\ tasks' = Kept(i, tasks) /\ aborts' = Kept(i, aborts)
  /\ UNCHANGED <<arranged, aborted, manuallyStopped, attempts, status, call, waitsFor, seen,
                 wanted, events>>

-----------------------------------------------------------------------------
(* stopChannel                                                             *)

(* manuallyStopped, by which the monitor and the restarts know.            *)
Remembers_Not == UNCHANGED manuallyStopped
Remembers == manuallyStopped' = TRUE

(* Where there is nothing to stop, nothing is remembered.                  *)
NothingToStop == ~arranged.hook /\ tasks = NoInstance /\ aborts = NoInstance

Stop(c, job) ==
  /\ IF NothingToStop
       THEN /\ call' = [call EXCEPT ![c] = AfterStop(job)]
            /\ UNCHANGED <<aborted, manuallyStopped, waitsFor>>
       ELSE /\ Go(c, IF arranged.hook THEN "hook" ELSE "stopping", job)
            /\ Remembers
            /\ aborted' = [i \in Instances |-> aborted[i] \/ i = aborts]
            /\ waitsFor' = [waitsFor EXCEPT ![c] = tasks]
  /\ events' = events \cup (IF NothingToStop THEN {"nothing to stop"} ELSE {})
                      \cup (IF Asking \/ WillStart THEN {"stop during start"} ELSE {})
  /\ UNCHANGED <<storeVars, phase, attempts, status>>

(* stopAccount returns: the task is awaited, if there was one that has not *)
(* settled.  Then the entries go, whosever they are.                       *)
HookReturns(c) ==
  /\ call[c].at = "hook"
  /\ IF waitsFor[c] # NoInstance
       THEN Go(c, "stopping", call[c].job) /\ UNCHANGED <<storeVars, status>>
       ELSE /\ call' = [call EXCEPT ![c] = AfterStop(call[c].job)]
            /\ tasks' = NoInstance /\ aborts' = NoInstance
            /\ status' = [status EXCEPT !.running = FALSE]
  /\ UNCHANGED <<arranged, instanceVars, manuallyStopped, attempts, waitsFor, seen, wanted, events>>

-----------------------------------------------------------------------------
(* Those who call.                                                         *)

(* channels.start-like calls, web.login.start and shutdown, a reload,      *)
(* channels.logout.                                                        *)
Call(c, j) ==
  /\ call[c] = Idle
  /\ j \in arranged.calls[c]
  /\ wanted' = IF j \in {"start", "restart"} THEN "up" ELSE "down"
  /\ IF j = "start" THEN Begin(c, j) ELSE Stop(c, j)
  /\ UNCHANGED <<arranged, seen>>

(* The start of a restart, when the stop of all accounts has ended.        *)
StartsAgain(c) ==
  /\ call[c].at = "next"
  /\ Begin(c, call[c].job)
  /\ UNCHANGED <<arranged, seen, wanted>>

(* markChannelLoggedOut, after the plugin's logoutAccount.                 *)
MarkLoggedOut(c) ==
  /\ call[c].at = "marking"
  /\ Go(c, "idle", call[c].job)
  /\ status' = [status EXCEPT !.running = FALSE]
  /\ Note("late mark", status.running)
  /\ UNCHANGED <<arranged, storeVars, instanceVars, manuallyStopped, attempts, waitsFor, seen,
                 wanted>>

(* A job ends where it rejects: a start in loadConfig, resolveAccount or   *)
(* isConfigured, a stop in the plugin's stopAccount, after which neither   *)
(* the task is awaited nor an entry taken away, and nobody starts or marks *)
(* anything.  Where the account counts as stopped by then it goes on doing *)
(* so.  A call whose loadConfig throws at once has done nothing.           *)
JobFails(c) ==
  /\ arranged.fails
  /\ call[c].at \in {"next", "asking", "hook"}
  /\ Go(c, "idle", call[c].job)
  /\ waitsFor' = [waitsFor EXCEPT ![c] = NoInstance]
  /\ attempts' = IF c = Monitor /\ call[c].at = "next" THEN 0 ELSE attempts
  /\ Note("left stopped", manuallyStopped \/ call[c].at = "hook")
  /\ UNCHANGED <<arranged, storeVars, instanceVars, manuallyStopped, status, seen, wanted>>

(* runCheck takes a snapshot of all accounts.  An account that does not    *)
(* run is unhealthy; one that runs may be.  Whether it is enabled and      *)
(* configured is asked anew.                                               *)
Looks ==
  /\ call[Monitor] = Idle
  /\ status.managed \/ arranged.refuses
  /\ seen' = status.running
  /\ Go(Monitor, "looked", "check")
  /\ UNCHANGED <<arranged, storeVars, instanceVars, manuallyStopped, attempts, status, waitsFor,
                 wanted, events>>

(* When it has dealt with the others it comes to this one: whether the     *)
(* account was stopped is asked now, whether it runs the snapshot says.    *)
Acts ==
  /\ call[Monitor].at = "looked"
  /\ \/ /\ manuallyStopped /\ Go(Monitor, "idle", "check")
        /\ UNCHANGED <<storeVars, instanceVars, manuallyStopped, attempts, status, waitsFor, events>>
     \/ ~manuallyStopped /\ seen /\ Stop(Monitor, "check")
     \/ ~manuallyStopped /\ ~seen /\ Begin(Monitor, "check")
  /\ seen' = FALSE
  /\ UNCHANGED <<arranged, wanted>>

(* The stop or the start throws at once, and runCheck catches it.          *)
ActFails ==
  /\ arranged.fails
  /\ call[Monitor].at = "looked"
  /\ ~manuallyStopped /\ (seen => ~NothingToStop)
  /\ Go(Monitor, "idle", "check") /\ seen' = FALSE
  /\ attempts' = IF seen THEN attempts ELSE 0
  /\ UNCHANGED <<arranged, storeVars, instanceVars, manuallyStopped, status, waitsFor, wanted,
                 events>>

-----------------------------------------------------------------------------
InstanceStep(i) == BackoffEnds(i) \/ Restarts(i) \/ RestartAnswered(i) \/ RestartFails(i)
CallerStep(c) == Answered(c) \/ HookReturns(c) \/ StartsAgain(c) \/ MarkLoggedOut(c)

Next ==
  \/ \E i \in Instances : InstanceStep(i) \/ Ends(i)
  \/ \E c \in Callers, j \in {"start", "stop", "restart", "logout"} : Call(c, j)
  \/ \E c \in Everyone : CallerStep(c) \/ JobFails(c)
  \/ Looks \/ Acts \/ ActFails

(* Timers ring, promises settle, a plugin ends when its signal is aborted, *)
(* and the monitor looks again and again at an account that is enabled and *)
(* configured.  Errors are transient: of the monitor's attempts to start   *)
(* it not all fail.                                                        *)
Fairness ==
  /\ \A i \in Instances : WF_vars(InstanceStep(i)) /\ WF_vars(aborted[i] /\ Ends(i))
  /\ \A c \in Everyone : WF_vars(CallerStep(c))
  /\ WF_vars(status.managed /\ Looks)
  /\ SF_vars(Acts) /\ SF_vars(Answered(Monitor))

Spec == Init /\ [][Next]_vars /\ Fairness

-----------------------------------------------------------------------------
Up == {i \in Instances : phase[i] = "up"}
Alive == {i \in Instances : phase[i] # "free"}

(* The entries of one instance are lost to another, or the status to a     *)
(* logout, when two starts ask isConfigured at the same time, a plugin's   *)
(* stopAccount is awaited while the account is started, or a start comes   *)
(* between a logout and its mark.  This did not happen.                    *)
Undisturbed ==
  /\ events \cap {"overlap", "late mark"} = {}
  /\ arranged.hook => events \cap {"start during stop", "stop during start"} = {}

(* The types, and that an account whose instances fail is not restarted    *)
(* more often than MaxRestarts ("caps crash-loop restarts after max        *)
(* attempts").                                                             *)
TypeOK ==
  /\ arranged \in Cases
  /\ tasks \in Instances \cup {NoInstance} /\ aborts = tasks
  /\ phase \in [Instances -> {"free", "up", "backoff", "asking"}]
  /\ aborted \in [Instances -> BOOLEAN]
  /\ manuallyStopped \in BOOLEAN /\ attempts \in 0..CountBound
  /\ status \in [running : BOOLEAN, managed : BOOLEAN]
  /\ call \in [Everyone -> [job : Jobs, at : {"idle", "asking", "hook", "stopping", "next",
                                               "marking", "looked"}]]
  /\ waitsFor \in [Everyone -> Instances \cup {NoInstance}]
  /\ seen \in BOOLEAN /\ wanted \in {"up", "down"}
  /\ events \subseteq {"overlap", "start during stop", "stop during start", "nothing to stop",
                       "late mark", "left stopped"}
  /\ Undisturbed => attempts <= MaxRestarts + 1

(* Then an account has one instance at most, the manager can stop it,      *)
(* and the status says whether it runs.                                    *)
RecordsAreTrue ==
  Undisturbed =>
    /\ \A i \in Instances : phase[i] \in {"up", "backoff"} => tasks = i
    /\ status.running <=> Up # {}

(* An account that was stopped, and that nobody called to start since, has *)
(* no instance and no restart ahead ("does not auto-restart after manual   *)
(* stop during backoff"), unless the stop found nothing to stop or ran     *)
(* into a start.  Where a stop failed there may be one that was told to    *)
(* end.                                                                    *)
NotRestarted ==
  wanted = "down" /\ ~Stopping =>
    \A i \in Alive : "left stopped" \in events /\ aborted[i]
StoppedStaysDown ==
  Undisturbed /\ events \cap {"stop during start", "nothing to stop"} = {} => NotRestarted

(* No automatic restart brings up an account that was stopped meanwhile    *)
(* (server-channels.ts:111, "accounts that were manually stopped so we     *)
(* don't auto-restart them").                                              *)
StopEndsRestarts ==
  [][\A i \in Instances :
       phase[i] \in {"backoff", "asking"} /\ phase'[i] = "free" /\ wanted = "down"
         => Up' \subseteq Up]_vars

(* An account that is to be up comes back, however often it fails, also    *)
(* after it has given up or could not be started again: the automatic      *)
(* restarts and the monitor see to it.  It does not where a call failed    *)
(* between a stop and the start that was to follow it: the account counts  *)
(* as stopped from then on (channel-health-monitor.ts:121 passes over it). *)
(* Nor need it where a start came before the end of a stop, which it left  *)
(* undone, or while another start asked isConfigured.  And every call      *)
(* returns (as long as forgotten instances leave room for one within       *)
(* MaxInstances).                                                          *)
Down ==
  /\ wanted = "up" /\ status.managed /\ Up = {}
  /\ events \cap {"left stopped", "start during stop", "overlap"} = {}
ComesBack ==
  /\ Down ~> ~Down
  /\ \A c \in Everyone : call[c] # Idle ~> call[c] = Idle \/ Alive = Instances
=============================================================================

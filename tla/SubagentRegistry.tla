------------------------- MODULE SubagentRegistry -------------------------
(***************************************************************************)
(* The runs of subagents, from the spawn to the announcement:              *)
(*   src/src/agents/subagent-registry.ts, subagent-registry-cleanup.ts,    *)
(*   subagent-registry-completion.ts, subagent-registry-queries.ts,        *)
(*   subagent-registry.store.ts   the registry and its file                *)
(*   src/src/agents/subagent-announce.ts  runSubagentAnnounceFlow          *)
(*   src/src/agents/tools/subagents-tool.ts, subagent-spawn.ts             *)
(*                                who spawns, steers and kills             *)
(*                                                                         *)
(* A record stays in runs when it is taken out of the registry: it is the  *)
(* object that continuations still hold; "listed" is whether the map has   *)
(* it.  A step is what runs between two awaits.  Of the time only "old" is *)
(* left: the run ended longer ago than its announcement may take.          *)
(*                                                                         *)
(* A definition X_Y just before X is X with a plausible mistake in it, of  *)
(* which Y says what it is; nothing refers to it.                          *)
(***************************************************************************)
EXTENDS Naturals

CONSTANTS
  MaxRuns,     \* ids of runs, given out in order; a case has fewer
  Sessions,    \* the sessions of children, each spawned once
  Top,         \* the session of the user
  Steers,      \* calls of steer, one each
  MaxRetries,  \* MAX_ANNOUNCE_RETRY_COUNT
  Cases        \* who spawns whom, how it is cleaned up, and what may happen

ASSUME RegistryAssumption ==
  /\ MaxRuns \in Nat \ {0} /\ MaxRetries \in Nat \ {0}
  /\ Top \notin Sessions /\ {"spawn", "wake"} \cap Steers = {}
  /\ \A c \in Cases : c \in [runs : 1..MaxRuns,
       requester : [Sessions -> Sessions \cup {Top}],
       completion : SUBSET Sessions,   \* expectsCompletionMessage
       delete : SUBSET Sessions,       \* cleanup is "delete"
       happens : SUBSET {"answer", "silence", "failure", "still active", "hook failure", "error",
                           "timeout", "kill", "steer", "sweep", "crash"}]

Runs == 1..MaxRuns
NoRun == 0

VARIABLES
  arranged,   \* the case chosen
  runs,       \* subagentRuns, with the records that left it
  disk,       \* the same in the file
  gone,       \* sessions whose entry in the store was deleted
  child,      \* what the run itself does
  launches,   \* accepted by the gateway, not yet in the registry
  waits, pendingErrors, resumed,  \* agent.wait, pendingLifecycleErrorByRunId, resumedRuns
  retryTimers, backoffTimers,     \* that resume a run
  completing, \* calls of completeSubagentRun, and a kill's hook
  flow,       \* of each run, its announcement and its cleanup
  steering,   \* what each steer has marked
  sweeping,   \* the run whose session the sweeper deletes
  delivered, hooks,  \* how often a result and an ended hook went out
  exempt      \* what disturbed which run

memoryVars == <<launches, waits, pendingErrors, resumed, retryTimers, backoffTimers,
                completing, flow, steering, sweeping>>
vars == <<arranged, runs, disk, gone, child, memoryVars, delivered, hooks, exempt>>

Fresh(s, woken) ==
  [session |-> s, listed |-> TRUE, ended |-> "no", old |-> FALSE, suppressed |-> "no",
   handled |-> FALSE, settled |-> FALSE, retries |-> 0, backoff |-> FALSE,
   wake |-> FALSE, woken |-> woken, told |-> FALSE, outlived |-> FALSE]

Unlisted(e) == [e EXCEPT !.listed = FALSE]
Blank == Unlisted(Fresh(Top, FALSE))

Init ==
  /\ arranged \in Cases
  /\ runs = [r \in Runs |-> Blank] /\ disk = runs /\ gone = {}
  /\ child = [r \in Runs |-> "none"] /\ launches = {}
  /\ waits = {} /\ pendingErrors = {} /\ resumed = {} /\ retryTimers = {} /\ backoffTimers = {}
  /\ completing = {} /\ flow = [r \in Runs |-> "none"]
  /\ steering = [s \in Steers |-> NoRun] /\ sweeping = NoRun
  /\ delivered = [r \in Runs |-> 0] /\ hooks = [r \in Runs |-> 0] /\ exempt = {}

Listed(r) == runs[r].listed
Ended(r) == runs[r].ended # "no"
Completion(r) == runs[r].session \in arranged.completion
Deletes(r) == runs[r].session \in arranged.delete
May(what) == what \in arranged.happens
NextRun == {r \in 1..arranged.runs : child[r] = "none" /\ \A x \in 1..(r - 1) : child[x] # "none"}

(* What the file says of a run counts when memory says nothing.            *)
Snapshot == [r \in Runs |-> IF Listed(r) THEN runs[r] ELSE disk[r]]

(* The sessions of T that a session leads to, by what it and those that it *)
(* leads to have asked for, with itself.                                   *)
LedTo(s, T) ==
  {t \in T \cup {s} : \A S \in SUBSET (T \cup {s}) :
     s \in S /\ (\A u \in T : arranged.requester[u] \in S => u \in S) => t \in S}

(* The runs that a session, and those that it spawned, asked for.          *)
Known == {r \in Runs : Snapshot[r].listed}
Reached(s) == LedTo(s, {Snapshot[r].session : r \in Known})
Below(s) == {r \in Known : arranged.requester[Snapshot[r].session] \in Reached(s)}

Pending(r) == Snapshot[r].ended = "no" \/ ~Snapshot[r].settled
PendingBelow(s) == {r \in Below(s) : Pending(r)}

(* The newest run of a requester that is itself a subagent is through.     *)
RequesterIsThrough(r) ==
  \E x \in Runs :
    LET e == Snapshot[x] IN
    /\ e.listed /\ e.session = arranged.requester[runs[r].session]
    /\ e.ended # "no" /\ e.settled /\ ~e.outlived
    /\ \A y \in Runs : Snapshot[y].listed /\ Snapshot[y].session = e.session => y <= x

-----------------------------------------------------------------------------
(* Resuming                                                                *)

(* The cleanup of a run that has ended begins, unless it did before.       *)
MayBegin_Again(e) == e.listed /\ ~e.settled

MayBegin(e) == e.listed /\ ~e.settled /\ ~e.handled

(* What resumeSubagentRun does with a record, in the order of its guards.  *)
Fate(e) ==
  LET completion == e.session \in arranged.completion IN
  IF ~e.listed THEN "nothing"
  ELSE IF e.session \in gone THEN "orphan"
  ELSE IF e.settled THEN "nothing"
  ELSE IF e.retries >= MaxRetries \/ (~completion /\ e.ended # "no" /\ e.old) THEN "give up"
  ELSE IF completion /\ e.backoff THEN "back off"
  ELSE IF e.ended = "no" THEN "wait"
  ELSE IF e.suppressed = "steer" THEN "park"
  ELSE IF MayBegin(e) THEN "announce" ELSE "nothing"

(* The runs R are resumed one after the other.  base is what the step has  *)
(* done before; saved is whether it has written the file anyway.           *)
Base == [runs |-> runs, resumed |-> resumed, flow |-> flow, waits |-> waits, timers |-> backoffTimers]

Resume(R, base, saved) ==
  LET fate == [r \in R |-> IF r \in base.resumed THEN "nothing" ELSE Fate(base.runs[r])]
      ones(what) == {r \in R : fate[r] = what}
      e(r) == base.runs[r]
  IN  /\ runs' = [r \in Runs |->
                   IF r \in ones("orphan") THEN Unlisted(e(r))
                   ELSE [e(r) EXCEPT !.settled = @ \/ r \in ones("give up"),
                                     !.handled = @ \/ r \in ones("announce")]]
      /\ disk' = IF saved \/ ones("orphan") \cup ones("give up") \cup ones("announce") # {}
                 THEN runs' ELSE disk
      /\ flow' = [r \in Runs |-> IF r \in ones("announce") THEN "begun" ELSE base.flow[r]]
      /\ resumed' = base.resumed \cup ones("back off") \cup ones("park") \cup ones("wait")
                                 \cup ones("announce")
      /\ waits' = base.waits \cup ones("wait")
      /\ backoffTimers' = base.timers \cup ones("back off")

(* The retry timer of a deferred announcement.                             *)
RetryTimerRings(r) ==
  /\ r \in retryTimers
  /\ retryTimers' = retryTimers \ {r}
  /\ Resume({r}, [Base EXCEPT !.runs[r].backoff = FALSE], FALSE)
  /\ UNCHANGED <<arranged, gone, child, launches, pendingErrors, completing, steering, sweeping,
                 delivered, hooks, exempt>>

BackoffTimerRings(r) ==
  /\ r \in backoffTimers
  /\ Resume({r}, [Base EXCEPT !.runs[r].backoff = FALSE, !.resumed = @ \ {r}, !.timers = @ \ {r}],
            FALSE)
  /\ UNCHANGED <<arranged, gone, child, launches, pendingErrors, retryTimers, completing, steering,
                 sweeping, delivered, hooks, exempt>>

(* Time passes until the announcement of a run is overdue.                 *)
Ages(r) ==
  /\ Listed(r) /\ Ended(r) /\ ~runs[r].settled /\ ~runs[r].old
  /\ runs' = [runs EXCEPT ![r].old = TRUE]
  /\ disk' = [disk EXCEPT ![r].old = disk[r].ended # "no"]
  /\ UNCHANGED <<arranged, gone, child, memoryVars, delivered, hooks, exempt>>

-----------------------------------------------------------------------------
(* Spawning, and what the gateway starts                                   *)

(* The gateway accepts a run of session s: it works before anybody has     *)
(* recorded it.                                                            *)
Accept(n, s, prev, how) ==
  /\ n \in NextRun
  /\ child' = [child EXCEPT ![n] = "runs"]
  /\ launches' = launches \cup {[run |-> n, session |-> s, prev |-> prev, how |-> how]}

Spawns(r) == {l \in launches : l.how = "spawn" /\ arranged.requester[l.session] = runs[r].session}

Spawn(s) ==
  /\ \A r \in Runs : runs[r].session # s /\ \A l \in launches : l.session # s
  /\ LET by == arranged.requester[s] IN
     by = Top \/ \E r \in Runs : Listed(r) /\ runs[r].session = by /\ child[r] \in {"runs", "retried"}
  /\ \E n \in NextRun : Accept(n, s, NoRun, "spawn")
  /\ UNCHANGED <<arranged, runs, disk, gone, waits, pendingErrors, resumed, retryTimers,
                 backoffTimers, completing, flow, steering, sweeping, delivered, hooks, exempt>>

(* No record has stood for the run so far.                                 *)
Unforeseen(l) == l.how = "spawn" \/ ~Listed(l.prev)

(* registerSubagentRun, or replaceSubagentRunAfterSteer: after a steer     *)
(* from the record it still holds, for a wake only if the run is listed.   *)
Recorded(l) ==
  LET replaced == [runs EXCEPT ![l.run] = Fresh(l.session, l.how = "wake")]
      known == l.how = "wake" => Listed(l.prev)
  IN
  /\ l \in launches
  /\ launches' = launches \ {l}
  /\ steering' = [s \in Steers |-> IF s = l.how THEN NoRun ELSE steering[s]]
  /\ flow' = [r \in Runs |-> IF l.how = "wake" /\ r = l.prev
                             THEN IF known THEN "true" ELSE "delivering" ELSE flow[r]]
  /\ IF known
     THEN /\ runs' = [r \in Runs |-> IF r = l.prev THEN Unlisted(runs[r]) ELSE replaced[r]]
          /\ disk' = runs'
          /\ pendingErrors' = pendingErrors \ {l.prev} /\ resumed' = resumed \ {l.prev}
          /\ waits' = waits \cup {l.run}
     ELSE UNCHANGED <<runs, disk, pendingErrors, resumed, waits>>
  /\ exempt' = exempt \cup {<<"late", r>> : r \in {x \in Runs : Unforeseen(l) /\ Ended(x)
                                                /\ runs[x].session = arranged.requester[l.session]}}
  /\ UNCHANGED <<arranged, gone, child, retryTimers, backoffTimers, completing, sweeping,
                 delivered, hooks>>

-----------------------------------------------------------------------------
(* The end of a run                                                        *)

(* A late completion lifts the mark of a kill.                             *)
Lifted(e, how) ==
  IF how = "ok" /\ e.suppressed = "killed" /\ (e.handled \/ e.settled)
  THEN [e EXCEPT !.suppressed = "no", !.handled = FALSE, !.settled = FALSE] ELSE e

(* An end after the cleanup was completed outlives it.                     *)
EndedAs(e, how, by) ==
  [e EXCEPT !.ended = how, !.old = FALSE, !.outlived = @ \/ (e.settled /\ by # "wait")]

(* completeSubagentRun up to the await of the frozen result.               *)
Complete(r, how, by) ==
  IF Listed(r)
  THEN /\ runs' = [runs EXCEPT ![r] = EndedAs(Lifted(@, how), how, by)]
       /\ completing' = completing \cup {[run |-> r, by |-> by, at |-> "freeze"]}
  ELSE UNCHANGED <<runs, completing>>

(* Lifecycle events of the run: an error that may be retried, a retry, and *)
(* the end.  A run awaits what it spawns, unless it is aborted.            *)
ChildErrs(r) ==
  /\ May("error") /\ child[r] = "runs"
  /\ child' = [child EXCEPT ![r] = "failing"]
  /\ pendingErrors' = IF Listed(r) THEN pendingErrors \cup {r} ELSE pendingErrors
  /\ UNCHANGED <<arranged, runs, disk, gone, launches, waits, resumed, retryTimers, backoffTimers,
                 completing, flow, steering, sweeping, delivered, hooks, exempt>>

ChildRetries(r) ==
  /\ child[r] = "failing"
  /\ child' = [child EXCEPT ![r] = "retried"]
  /\ pendingErrors' = IF Listed(r) THEN pendingErrors \ {r} ELSE pendingErrors
  /\ UNCHANGED <<arranged, runs, disk, gone, launches, waits, resumed, retryTimers, backoffTimers,
                 completing, flow, steering, sweeping, delivered, hooks, exempt>>

ChildEnds(r) ==
  /\ child[r] = "aborted" \/ (child[r] \in {"runs", "retried"} /\ Spawns(r) = {})
  /\ child' = [child EXCEPT ![r] = "over"]
  /\ pendingErrors' = IF Listed(r) THEN pendingErrors \ {r} ELSE pendingErrors
  /\ Complete(r, "ok", "event")
  /\ UNCHANGED <<arranged, disk, gone, launches, waits, resumed, retryTimers, backoffTimers,
                 flow, steering, sweeping, delivered, hooks, exempt>>

(* LIFECYCLE_ERROR_RETRY_GRACE_MS after an error.                          *)
GraceEnds(r) ==
  /\ r \in pendingErrors
  /\ pendingErrors' = pendingErrors \ {r}
  /\ IF runs[r].ended = "ok" THEN UNCHANGED <<runs, completing>> ELSE Complete(r, "error", "grace")
  /\ UNCHANGED <<arranged, disk, gone, child, launches, waits, resumed, retryTimers, backoffTimers,
                 flow, steering, sweeping, delivered, hooks, exempt>>

(* agent.wait returns to waitForSubagentCompletion, which saves what it    *)
(* says of the run before it completes it; or the call fails.              *)
WaitAnswers(r, how) ==
  /\ r \in waits
  /\ waits' = waits \ {r}
  /\ IF how = "fails" THEN UNCHANGED <<runs, disk, completing, pendingErrors>>
     ELSE /\ Complete(r, how, "wait")
          /\ disk' = IF Listed(r) THEN [runs EXCEPT ![r] = EndedAs(@, how, "wait")] ELSE disk
          /\ pendingErrors' = IF Listed(r) THEN pendingErrors \ {r} ELSE pendingErrors
  /\ UNCHANGED <<arranged, gone, child, launches, resumed, retryTimers, backoffTimers,
                 flow, steering, sweeping, delivered, hooks, exempt>>

WaitReturns(r) ==
  /\ May("answer")
  /\ \/ child[r] = "over" /\ WaitAnswers(r, "ok")
     \/ child[r] = "failing" /\ WaitAnswers(r, "error")

WaitTimesOut(r) == May("timeout") /\ \E how \in {"ok", "fails"} : WaitAnswers(r, how)

(* One emission of the ended hook at a time, and none after the first.     *)
InHook(r) ==
  \/ flow[r] \in {"hook delete", "hook keep"}
  \/ \E c \in completing : c.run = r /\ c.at = "hook"
MayEmit_InFlight(r) == ~runs[r].told

MayEmit(r) == ~runs[r].told /\ ~InHook(r)

(* startSubagentAnnounceCleanupFlow in records rs, saved before or not.    *)
Begin(r, rs, saved) ==
  LET begins == MayBegin(rs[r]) IN
  /\ runs' = [rs EXCEPT ![r].handled = @ \/ begins]
  /\ disk' = IF begins \/ saved THEN runs' ELSE disk
  /\ flow' = [flow EXCEPT ![r] = IF begins THEN "begun" ELSE @]

(* The result is frozen; a run that is being steered says nothing.         *)
Speaks_Always(e) == TRUE

Speaks(e) == e.suppressed # "steer"

Frozen(c) ==
  LET r == c.run
      others == completing \ {c}
  IN
  /\ c \in completing /\ c.at = "freeze"
  /\ IF ~Speaks(runs[r])
     THEN completing' = others /\ disk' = runs /\ UNCHANGED <<runs, flow>>
     ELSE IF ~Completion(r) /\ MayEmit(r)
     THEN completing' = others \cup {[c EXCEPT !.at = "hook"]} /\ disk' = runs /\ UNCHANGED <<runs, flow>>
     ELSE completing' = others /\ Begin(r, runs, TRUE)
  /\ UNCHANGED <<arranged, gone, child, launches, waits, pendingErrors, resumed, retryTimers,
                 backoffTimers, steering, sweeping, delivered, hooks, exempt>>

(* The ended hook of a completion, or of a kill, returns or throws.        *)
HookReturns(c) ==
  LET r == c.run IN
  /\ c \in completing /\ c.at = "hook"
  /\ completing' = completing \ {c}
  /\ \E well \in {TRUE, ~May("hook failure")} :
       LET told == [runs EXCEPT ![r].told = @ \/ well] IN
       /\ hooks' = [hooks EXCEPT ![r] = IF well THEN @ + 1 ELSE @]
       /\ IF c.by = "kill"
          THEN runs' = told /\ disk' = (IF well THEN told ELSE disk) /\ UNCHANGED flow
          ELSE Begin(r, told, well)
  /\ UNCHANGED <<arranged, gone, child, launches, waits, pendingErrors, resumed, retryTimers,
                 backoffTimers, steering, sweeping, delivered, exempt>>

-----------------------------------------------------------------------------
(* The announcement                                                        *)

Ready_Ended(r) == \A x \in Below(runs[r].session) : Snapshot[x].ended # "no"

Ready(r) == PendingBelow(runs[r].session) = {}

(* runSubagentAnnounceFlow up to the delivery: it may fail, is of no use   *)
(* to a requester that is through, waits for the runs below, or wakes the  *)
(* session with what they found.  It awaits an active run of the session,  *)
(* but a run that works is not active while it is queued or between tries. *)
Looks(r) ==
  /\ flow[r] = "begun"
  /\ flow' = [flow EXCEPT ![r] =
       IF RequesterIsThrough(r) THEN "true"
       ELSE IF ~Ready(r) THEN "false"
       ELSE IF /\ runs[r].wake /\ ~runs[r].woken
               /\ \E x \in Runs : Listed(x) /\ arranged.requester[runs[x].session] = runs[r].session
       THEN "waking" ELSE "delivering"]
  /\ gone' = IF RequesterIsThrough(r) /\ Deletes(r) THEN gone \cup {runs[r].session} ELSE gone
  /\ UNCHANGED <<arranged, runs, disk, child, launches, waits, pendingErrors, resumed, retryTimers,
                 backoffTimers, completing, steering, sweeping, delivered, hooks, exempt>>

(* The run in the session is still active after SUBAGENT_ANNOUNCE_TIMEOUT. *)
StillActive(r) ==
  /\ May("still active") /\ flow[r] = "begun"
  /\ flow' = [flow EXCEPT ![r] = "false"]
  /\ UNCHANGED <<arranged, runs, disk, gone, child, launches, waits, pendingErrors, resumed,
                 retryTimers, backoffTimers, completing, steering, sweeping, delivered, hooks, exempt>>

(* wakeSubagentRunAfterDescendants: the gateway accepts the run or not.    *)
Wakes(r) ==
  /\ flow[r] = "waking"
  /\ \/ \E n \in NextRun : Accept(n, runs[r].session, r, "wake") /\ flow' = [flow EXCEPT ![r] = "woken"]
     \/ flow' = [flow EXCEPT ![r] = "delivering"] /\ UNCHANGED <<child, launches>>
  /\ UNCHANGED <<arranged, runs, disk, gone, waits, pendingErrors, resumed, retryTimers,
                 backoffTimers, completing, steering, sweeping, delivered, hooks, exempt>>

(* The result is delivered, or is silent, or is not delivered; the session *)
(* of a run to be deleted is deleted either way.                           *)
Delivers(r) ==
  /\ flow[r] = "delivering"
  /\ \E how \in {"delivered"} \cup {x \in {"silence", "failure"} : May(x)} :
       /\ delivered' = [delivered EXCEPT ![r] = IF how = "delivered" THEN @ + 1 ELSE @]
       /\ flow' = [flow EXCEPT ![r] = IF how = "failure" THEN "false" ELSE "true"]
       /\ exempt' = IF how = "failure" /\ Deletes(r) THEN exempt \cup {<<"deleted", r>>} ELSE exempt
  /\ gone' = IF Deletes(r) THEN gone \cup {runs[r].session} ELSE gone
  /\ UNCHANGED <<arranged, runs, disk, child, launches, waits, pendingErrors, resumed, retryTimers,
                 backoffTimers, completing, steering, sweeping, hooks>>

(* completeCleanupBookkeeping in records rs, and retryDeferredCompleted-   *)
(* Announces of the others.                                                *)
Deferred(rs, r) ==
  {x \in Runs \ {r} : rs[x].listed /\ rs[x].ended # "no" /\ ~rs[x].settled /\ ~rs[x].handled
                      /\ rs[x].suppressed # "steer"}

Settle(r, rs, delete) ==
  LET own == [rs EXCEPT ![r].listed = @ /\ ~delete, ![r].settled = @ \/ ~delete]
      expired == {x \in Deferred(own, r) : rs[x].session \notin arranged.completion /\ rs[x].old}
      others == Deferred(own, r) \ expired
  IN  /\ pendingErrors' = IF delete THEN pendingErrors \ {r} ELSE pendingErrors
      /\ Resume(others,
                [Base EXCEPT !.runs = [x \in Runs |-> [own[x] EXCEPT !.settled = @ \/ x \in expired]],
                             !.resumed = @ \ others, !.flow[r] = "none"],
                TRUE)
      /\ UNCHANGED retryTimers

(* finalizeSubagentCleanup after an announcement, up to the hook of a run  *)
(* whose requester expects a message.                                      *)
Finished(r, rs, delete) ==
  IF Completion(r) /\ MayEmit(r)
  THEN /\ runs' = rs
       /\ flow' = [flow EXCEPT ![r] = IF delete THEN "hook delete" ELSE "hook keep"]
       /\ UNCHANGED <<disk, pendingErrors, resumed, waits, backoffTimers, retryTimers>>
  ELSE Settle(r, rs, delete)

Announced(r) ==
  /\ flow[r] = "true"
  /\ IF Listed(r)
     THEN Finished(r, [runs EXCEPT ![r].wake = FALSE], Deletes(r))
     ELSE /\ flow' = [flow EXCEPT ![r] = "none"]
          /\ UNCHANGED <<runs, disk, pendingErrors, resumed, waits, backoffTimers, retryTimers>>
  /\ UNCHANGED <<arranged, gone, child, launches, completing, steering, sweeping, delivered, hooks,
                 exempt>>

(* A failed announcement: it waits for the runs below, is tried again, or  *)
(* is given up.                                                            *)
Defers(r) == Completion(r) /\ PendingBelow(runs[r].session) # {} /\ ~runs[r].old
Retries(r) ==
  /\ ~(Completion(r) /\ PendingBelow(runs[r].session) # {})
  /\ runs[r].retries + 1 < MaxRetries /\ ~runs[r].old

RingsAgain_Deferred(r) == Defers(r)

RingsAgain(r) == Defers(r) \/ Completion(r)

Failed(r) ==
  LET waiting == Completion(r) /\ PendingBelow(runs[r].session) # {}
      counted == [runs EXCEPT ![r].retries = IF waiting THEN @ ELSE @ + 1,
                              ![r].backoff = @ \/ ~waiting]
  IN
  /\ flow[r] = "false"
  /\ IF ~Listed(r)
     THEN /\ flow' = [flow EXCEPT ![r] = "none"]
          /\ UNCHANGED <<runs, disk, pendingErrors, resumed, waits, backoffTimers, retryTimers>>
     ELSE IF Defers(r) \/ Retries(r)
     THEN /\ runs' = [counted EXCEPT ![r].handled = FALSE, ![r].backoff = TRUE, ![r].wake = @ \/ waiting]
          /\ disk' = runs'
          /\ resumed' = resumed \ {r}
          /\ retryTimers' = IF RingsAgain(r) THEN retryTimers \cup {r} ELSE retryTimers
          /\ flow' = [flow EXCEPT ![r] = "none"]
          /\ UNCHANGED <<pendingErrors, waits, backoffTimers>>
     ELSE Finished(r, [counted EXCEPT ![r].wake = FALSE], FALSE)
  /\ UNCHANGED <<arranged, gone, child, launches, completing, steering, sweeping, delivered, hooks,
                 exempt>>

(* The hook of the cleanup returns or throws, and the cleanup is finished. *)
CleanupHookReturns(r) ==
  /\ flow[r] \in {"hook delete", "hook keep"}
  /\ \E well \in {TRUE, ~May("hook failure")} :
       /\ hooks' = [hooks EXCEPT ![r] = IF well THEN @ + 1 ELSE @]
       /\ Settle(r, [runs EXCEPT ![r].told = @ \/ well], flow[r] = "hook delete")
  /\ UNCHANGED <<arranged, gone, child, launches, completing, steering, sweeping, delivered, exempt>>

-----------------------------------------------------------------------------
(* Steering, killing, archiving, and the end of the process                *)

Aborted(R) ==
  [r \in Runs |-> IF r \in R /\ child[r] \in {"runs", "failing", "retried"} THEN "aborted" ELSE child[r]]

(* A steer marks a run that has not ended, and aborts it.                  *)
SteerMarks(s, r) ==
  /\ May("steer") /\ steering[s] = NoRun
  /\ Listed(r) /\ ~Ended(r)
  /\ steering' = [steering EXCEPT ![s] = r]
  /\ runs' = [runs EXCEPT ![r].suppressed = "steer"] /\ disk' = runs'
  /\ child' = Aborted({r})
  /\ exempt' = exempt \cup {<<"steered", r>> : t \in {u \in Steers : steering[u] = r}}
  /\ UNCHANGED <<arranged, gone, launches, waits, pendingErrors, resumed, retryTimers,
                 backoffTimers, completing, flow, sweeping, delivered, hooks>>

(* The gateway accepts the run that replaces it.                           *)
SteerLaunches(s) ==
  LET r == steering[s] IN
  /\ r # NoRun /\ \A l \in launches : l.how # s
  /\ \E n \in NextRun : Accept(n, runs[r].session, r, s)
  /\ UNCHANGED <<arranged, runs, disk, gone, waits, pendingErrors, resumed, retryTimers,
                 backoffTimers, completing, flow, steering, sweeping, delivered, hooks, exempt>>

(* The gateway does not: clearSubagentRunSteerRestart.                     *)
SteerFails(s) ==
  LET r == steering[s]
      marked == Listed(r) /\ runs[r].suppressed = "steer"
  IN
  /\ r # NoRun /\ \A l \in launches : l.how # s
  /\ steering' = [steering EXCEPT ![s] = NoRun]
  /\ IF marked
     THEN Resume({x \in {r} : Ended(r) /\ ~runs[r].settled},
                 [Base EXCEPT !.runs[r].suppressed = "no", !.resumed = @ \ {r}], TRUE)
     ELSE UNCHANGED <<runs, disk, resumed, flow, waits, backoffTimers>>
  /\ UNCHANGED <<arranged, gone, child, launches, pendingErrors, retryTimers, completing, sweeping,
                 delivered, hooks, exempt>>

(* The run of a session is aborted, then markSubagentRunTerminated.        *)
Kill(s) ==
  LET here == {r \in Runs : Listed(r) /\ runs[r].session = s}
      killed == {r \in here : ~Ended(r)}
      telling == {r \in killed : MayEmit(r) /\ \A x \in killed : r <= x}
  IN
  /\ May("kill") /\ killed # {}
  /\ runs' = [r \in Runs |-> IF r \in killed
                THEN [runs[r] EXCEPT !.ended = "killed", !.suppressed = "killed",
                                     !.handled = TRUE, !.settled = TRUE]
                ELSE runs[r]]
  /\ disk' = runs' /\ child' = Aborted(killed)
  /\ pendingErrors' = pendingErrors \ here
  /\ completing' = completing \cup {[run |-> r, by |-> "kill", at |-> "hook"] : r \in telling}
  /\ exempt' = exempt \cup {<<"killed", r>> : r \in killed}
  /\ UNCHANGED <<arranged, gone, launches, waits, resumed, retryTimers, backoffTimers,
                 flow, steering, sweeping, delivered, hooks>>

(* sweepSubagentRuns takes out the runs that are due, deletes the session  *)
(* of one after the other, and then writes the file.                       *)
Sweeps(r) ==
  /\ May("sweep") /\ Listed(r)
  /\ runs' = [runs EXCEPT ![r].listed = FALSE]
  /\ pendingErrors' = pendingErrors \ {r}
  /\ sweeping' = r
  /\ gone' = IF sweeping = NoRun THEN gone ELSE gone \cup {runs[sweeping].session}
  /\ UNCHANGED <<arranged, disk, child, launches, waits, resumed, retryTimers, backoffTimers,
                 completing, flow, steering, delivered, hooks, exempt>>

SweepEnds ==
  /\ sweeping # NoRun
  /\ gone' = gone \cup {runs[sweeping].session}
  /\ disk' = runs /\ sweeping' = NoRun
  /\ UNCHANGED <<arranged, runs, child, launches, waits, pendingErrors, resumed, retryTimers,
                 backoffTimers, completing, flow, steering, delivered, hooks, exempt>>

(* The process ends, its children with it; the next one restores the file, *)
(* prunes orphans and resumes the rest.                                    *)
Stuck(e) == e.ended = "no" \/ (e.handled /\ ~e.settled) \/ e.suppressed = "steer"

Restarts ==
  LET restored == [r \in Runs |-> IF disk[r].session \in gone THEN Unlisted(disk[r]) ELSE disk[r]]
  IN
  /\ May("crash") /\ \A r \in Runs : <<"crash", r>> \notin exempt
  /\ \E r \in Runs : disk[r].listed
  /\ child' = [r \in Runs |-> IF child[r] = "none" THEN "none" ELSE "dead"]
  /\ exempt' = exempt \cup {<<"crash", r>> : r \in {x \in Runs : child[x] # "none"}}
                      \cup {<<"stuck", r>> : r \in {x \in Runs : restored[x].listed /\ Stuck(restored[x])}}
  /\ Resume(Runs, [runs |-> restored, resumed |-> {}, flow |-> [r \in Runs |-> "none"],
                   waits |-> {}, timers |-> {}],
            \E r \in Runs : restored[r] # disk[r])
  /\ launches' = {} /\ pendingErrors' = {} /\ retryTimers' = {} /\ completing' = {}
  /\ steering' = [s \in Steers |-> NoRun] /\ sweeping' = NoRun
  /\ UNCHANGED <<arranged, gone, delivered, hooks>>

-----------------------------------------------------------------------------
Continues(r) ==
  \/ RetryTimerRings(r) \/ BackoffTimerRings(r) \/ GraceEnds(r) \/ WaitReturns(r)
  \/ Looks(r) \/ Wakes(r) \/ Delivers(r) \/ Announced(r) \/ Failed(r) \/ CleanupHookReturns(r)

Next ==
  \/ \E r \in Runs :
       \/ Continues(r) \/ StillActive(r) \/ Ages(r) \/ WaitTimesOut(r) \/ Sweeps(r)
       \/ ChildErrs(r) \/ ChildRetries(r) \/ ChildEnds(r)
       \/ \E s \in Steers : SteerMarks(s, r)
  \/ \E s \in Sessions : Spawn(s) \/ Kill(s)
  \/ \E l \in launches : Recorded(l)
  \/ \E c \in completing : Frozen(c) \/ HookReturns(c)
  \/ \E s \in Steers : SteerLaunches(s) \/ SteerFails(s)
  \/ SweepEnds \/ Restarts

Spec == Init /\ [][Next]_vars

(* Timers ring, the gateway and hooks answer, time passes, and a steer     *)
(* goes on; nothing has to be spawned, and a run that works need not end.  *)
(* A run has finitely many of the steps of GoesOn until it is old: one     *)
(* fairness for all of them is enough.                                     *)
GoesOn ==
  \/ \E r \in Runs : Continues(r)
  \/ \E c \in completing : Frozen(c) \/ HookReturns(c)
  \/ \E l \in launches : Recorded(l)
  \/ SweepEnds

FairSpec ==
  /\ Spec
  /\ WF_vars(GoesOn) /\ WF_vars(\E r \in Runs : Ages(r))
  /\ \A s \in Steers : WF_vars(SteerLaunches(s) \/ SteerFails(s))

-----------------------------------------------------------------------------
(* Properties                                                              *)

(* Types, and the shape of the registry's bookkeeping: whatever goes on in *)
(* an announcement belongs to a run whose cleanup was begun, unless it was *)
(* taken out of the registry.                                              *)
TypeOK ==
  /\ \A r \in Runs : \A e \in {runs[r], disk[r]} :
       /\ e.ended \in {"no", "ok", "error", "killed"} /\ e.suppressed \in {"no", "steer", "killed"}
       /\ e.retries \in 0..MaxRetries
  /\ gone \subseteq Sessions
  /\ waits \cup pendingErrors \cup resumed \cup retryTimers \cup backoffTimers \subseteq Runs
  /\ \A r \in Runs : Listed(r) /\ flow[r] # "none" => Ended(r) /\ runs[r].handled

(* What a run found is announced at most once, and its end is told to the  *)
(* plugins at most once: although an event, agent.wait, a grace time,      *)
(* timers, other cleanups and a restored file all bring its cleanup on,    *)
(* and although a late completion lifts the mark of a kill.                *)
ToldOnce == \A r \in Runs : delivered[r] <= 1 /\ hooks[r] <= 1

(* A run that is being steered, and one that was replaced by a steer, does *)
(* not announce what it had found: unless a second steer of the same run   *)
(* lifts the mark of the first, or a kill does.                            *)
SteeredSaysNothing ==
  [][\A r \in Runs :
       delivered'[r] # delivered[r] /\ {<<"steered", r>>, <<"killed", r>>} \cap exempt = {}
         => \A s \in Steers : steering[s] # r]_vars

(* A result goes out only after all runs below it are through with theirs: *)
(* unless a run of its session, or of one that it leads to, was killed and *)
(* completes nevertheless, or was steered twice at a time; or had ended    *)
(* when it spawned (agent.wait timed out, an error outlived its grace, a   *)
(* steer aborted it), or when a run below it that was swept came back,     *)
(* because it was being steered.                                           *)
Undisturbed(r) ==
  \A x \in Runs : runs[x].session \in LedTo(runs[r].session, Sessions) =>
    {<<"late", x>>, <<"killed", x>>, <<"steered", x>>} \cap exempt = {}
ChildrenFirst ==
  [][\A r \in Runs : delivered'[r] # delivered[r] /\ Undisturbed(r)
       => PendingBelow(runs[r].session) = {}]_vars

(* The cleanup of a run that has ended comes to its end, by an             *)
(* announcement, by giving up or because the run leaves the registry; but  *)
(* one whose requester expects no message waits, after a failed            *)
(* announcement, for the cleanup of another run, and what a restart stops  *)
(* is not gone on with.                                                    *)
Through(r) == ~Listed(r) \/ runs[r].settled
Waits(r) == ~Completion(r) /\ runs[r].retries > 0 /\ ~runs[r].handled
CleanupEnds ==
  \A r \in Runs : Ended(r) ~> (Through(r) \/ Waits(r) \/ <<"stuck", r>> \in exempt)
=============================================================================

--------------------------- MODULE FollowupQueue ---------------------------
(***************************************************************************)
(* The followup queue of one session key: the messages that arrive while   *)
(* the session's agent runs, and the drain that hands them to the agent    *)
(* afterwards (src/src/auto-reply/reply/queue).                            *)
(*                                                                         *)
(* Other code runs at each await of the drain: while it waits for the      *)
(* debounce, in the microtask after drainCollectQueueStep has declined and *)
(* while runFollowup runs.  A step of the model is the code between two of *)
(* these points.                                                           *)
(*                                                                         *)
(* FOLLOWUP_QUEUES maps the key to a queue object or to nothing; a drain   *)
(* keeps the object it began with, so an object may be drained that is not *)
(* the key's any more.  An object neither mapped nor drained is garbage,   *)
(* and its identity is used again.                                         *)
(*                                                                         *)
(* A definition X_Mistake is X with a plausible mistake in it; nothing     *)
(* refers to it.                                                           *)
(***************************************************************************)
EXTENDS Naturals, Sequences, FiniteSets, SequencesExt

CONSTANTS
  Messages,   \* the calls of enqueueFollowupRun
  Identity,   \* message id and routing of a call: equal for a duplicate
  Route,      \* "unkeyed", "cross" or the destination of a message
  Configs,    \* sets of settings (mode, cap, dropPolicy) the callers may pass
  ObjectBound \* how many queue objects may be alive at once

Objects == 1..ObjectBound
Settings == UNION Configs
NoQueue == 0

ASSUME MessagesAssumption ==
  /\ \A m, n \in Messages : Identity[m] = Identity[n] => Route[m] = Route[n]
  /\ \A s \in Settings : s.cap \in Nat \ {0}
  /\ {} \notin Configs

VARIABLES
  current,   \* FOLLOWUP_QUEUES.get(key)
  items,     \* FollowupQueueState.items
  draining,  \* FollowupQueueState.draining
  offered,   \* the settings the callers pass in this execution
  settings,  \* mode, cap and dropPolicy of the object
  dropped,   \* the messages droppedCount counts and summaryLines previews
  lastRun,   \* FollowupQueueState.lastRun is set
  callback,  \* FOLLOWUP_RUN_CALLBACKS has the key
  recent,    \* RECENT_QUEUE_MESSAGE_IDS
  drain,     \* where the drain of each object is
  owed,      \* a run of the agent is active that will schedule a drain
  fate,      \* what has become of each message
  arrivals,  \* the messages accepted so far, in order
  events     \* what has happened while a drain was away at an await

objectVars == <<items, settings, dropped, lastRun>>
drainVars == <<current, draining, callback, drain>>
enqueueVars == <<recent, owed>>
ghostVars == <<fate, arrivals, events>>
vars == <<objectVars, drainVars, enqueueVars, offered, ghostVars>>

(***************************************************************************)
(* A drain is off, waits for the debounce, has found that it may collect   *)
(* ("checked") or waits for runFollowup, which it has given the prompts of *)
(* batch and a preview of the messages in summary.  kind says what it      *)
(* removes from the items on success: as many as the batch is long         *)
(* ("batch"), or the first ("next", "summary").                            *)
(***************************************************************************)
Off == [pc |-> "off", kind |-> "none", batch |-> <<>>, summary |-> {}, force |-> FALSE]
Debouncing(f) == [Off EXCEPT !.pc = "debounce", !.force = f]
Running(k, b, S, f) == [pc |-> "running", kind |-> k, batch |-> b, summary |-> S, force |-> f]

Fates == {"new", "duplicate", "refused", "queued", "dropped", "summarized",
          "cleared", "delivered", "previewed"}

Init ==
  /\ current = NoQueue
  /\ items = [o \in Objects |-> <<>>]
  /\ draining = [o \in Objects |-> FALSE]
  /\ offered \in Configs
  /\ settings = [o \in Objects |-> CHOOSE s \in offered : TRUE]
  /\ dropped = [o \in Objects |-> {}]
  /\ lastRun = [o \in Objects |-> FALSE]
  /\ callback = FALSE
  /\ recent = {}
  /\ drain = [o \in Objects |-> Off]
  /\ owed = FALSE
  /\ fate = [m \in Messages |-> "new"]
  /\ arrivals = <<>>
  /\ events = {}

-----------------------------------------------------------------------------
(* scheduleFollowupDrain for the key's object c, which nobody drains: the  *)
(* loop is entered and left at once when there is nothing to do, and its   *)
(* finally block then unmaps the key.  its and drp are the items and the   *)
(* dropped messages as the caller leaves them, drg and drn the drains.     *)
Begin(c, its, drp, drg, drn) ==
  /\ callback' = TRUE
  /\ IF its[c] # <<>> \/ drp[c] # {}
       THEN /\ draining' = [drg EXCEPT ![c] = TRUE]
            /\ drain' = [drn EXCEPT ![c] = Debouncing(FALSE)]
            /\ current' = c
       ELSE /\ draining' = drg
            /\ drain' = drn
            /\ current' = NoQueue

(* The finally block of the drain of o.  It unmaps the key when o is       *)
(* empty, whatever object the key maps to by now; otherwise it schedules   *)
(* the key's object, whether that is o or another.                         *)
IsEmpty(o, its, drp) == its[o] = <<>> /\ drp[o] = {}

FlagsAfter_Kept(o) == draining
FlagsAfter(o) == [draining EXCEPT ![o] = FALSE]

(* beginQueueDrain finds the key's object c undrained: o's flag is reset   *)
(* before it is called.                                                    *)
MayReschedule_FlagLast(o, c) == c # NoQueue /\ ~draining[c]
MayReschedule(o, c) == c # NoQueue /\ (c = o \/ ~draining[c])

Finally(o, its, drp) ==
  LET drn == [drain EXCEPT ![o] = Off]
  IN IF ~IsEmpty(o, its, drp) /\ MayReschedule(o, current)
       THEN Begin(current, its, drp, FlagsAfter(o), drn)
       ELSE /\ current' = IF IsEmpty(o, its, drp) THEN NoQueue ELSE current
            /\ draining' = FlagsAfter(o)
            /\ drain' = drn
            /\ UNCHANGED callback

(* The head of the drain loop.                                             *)
LoopHead(o, its, drp) ==
  IF IsEmpty(o, its, drp)
    THEN Finally(o, its, drp)
    ELSE /\ drain' = [drain EXCEPT ![o] = Debouncing(@.force)]
         /\ UNCHANGED <<current, draining, callback>>

Break(o) == Finally(o, items, dropped) /\ UNCHANGED <<objectVars, enqueueVars, ghostVars>>

Run(o, k, b, S, f) ==
  /\ drain' = [drain EXCEPT ![o] = Running(k, b, S, f)]
  /\ UNCHANGED <<current, draining, callback, objectVars, enqueueVars, ghostVars>>

-----------------------------------------------------------------------------
(* getFollowupQueue: the key's object, or a new one.                       *)
Garbage == {o \in Objects : o # current /\ ~draining[o]}
IsNew_WhileRunning == current = NoQueue \/ drain[current].pc = "running"
IsNew == current = NoQueue
Target == IF IsNew THEN CHOOSE o \in Garbage : TRUE ELSE current
TargetItems == IF IsNew THEN <<>> ELSE items[current]
TargetDropped_Reset == {}
TargetDropped == IF IsNew THEN {} ELSE dropped[current]

(* A message is known by its entry in the cache or by its place in the     *)
(* queue.                                                                  *)
IsDuplicate_QueuedOnly(m) == Identity[m] \in {Identity[n] : n \in ToSet(TargetItems)}
IsDuplicate(m) ==
  Identity[m] \in recent \cup {Identity[n] : n \in ToSet(TargetItems)}

(* applyQueueDropPolicy of queue-helpers: how many items make room for one *)
(* more, when the policy is not to refuse it.                              *)
Excess(n, s) == IF n < s.cap THEN 0 ELSE n - s.cap + 1

Away(o) == drain[o].pc \in {"checked", "running"}

(* What the drains do not see when they resume.                            *)
EventsAfterAccept(o, n) ==
  events \cup (IF n > 0 /\ Away(o) THEN {"overflow"} ELSE {})
         \cup (IF drain[o].pc = "checked" THEN {"late"} ELSE {})

(* runReplyAgent enqueues while a run of the session is active; a run that *)
(* is not a drain's ends with finalizeWithFollowup.                        *)
OwedAfterEnqueue == owed \/ \A o \in Objects : drain[o].pc # "running"

Pushed(s, m) == Append(s, m)

(* enqueueFollowupRun.  The settings are those of the latest call, even of *)
(* one that is turned away.                                                *)
EnqueueDuplicate(m, s) ==
  /\ fate[m] = "new"
  /\ IsNew => Garbage # {}
  /\ IsDuplicate(m)
  /\ fate' = [fate EXCEPT ![m] = "duplicate"]
  /\ current' = Target
  /\ settings' = [settings EXCEPT ![Target] = s]
  /\ items' = [items EXCEPT ![Target] = TargetItems]
  /\ dropped' = [dropped EXCEPT ![Target] = TargetDropped]
  /\ lastRun' = [lastRun EXCEPT ![Target] = @ /\ ~IsNew]
  /\ owed' = OwedAfterEnqueue
  /\ UNCHANGED <<draining, callback, drain, recent, arrivals, events>>

EnqueueRefused(m, s) ==
  /\ fate[m] = "new"
  /\ ~IsNew
  /\ ~IsDuplicate(m)
  /\ s.dropPolicy = "new" /\ Len(TargetItems) >= s.cap
  /\ fate' = [fate EXCEPT ![m] = "refused"]
  /\ settings' = [settings EXCEPT ![Target] = s]
  /\ lastRun' = [lastRun EXCEPT ![Target] = TRUE]
  /\ owed' = OwedAfterEnqueue
  /\ UNCHANGED <<items, dropped, drainVars, recent, arrivals, events>>

Accept(m, s) ==
  LET n == Excess(Len(TargetItems), s)
      front == ToSet(SubSeq(TargetItems, 1, n))
      its == [items EXCEPT ![Target] = Pushed(SubSeq(TargetItems, n + 1, Len(TargetItems)), m)]
      drp == [dropped EXCEPT ![Target] =
                TargetDropped \cup (IF s.dropPolicy = "summarize" THEN front ELSE {})]
  IN /\ items' = its
     /\ dropped' = drp
     /\ fate' = [x \in Messages |->
                   IF x = m THEN "queued"
                   ELSE IF x \in front
                     THEN IF s.dropPolicy = "summarize" THEN "summarized" ELSE "dropped"
                     ELSE fate[x]]
     /\ events' = EventsAfterAccept(Target, n)
     /\ IF ~draining[Target] /\ callback
          THEN Begin(Target, its, drp, draining, drain)
          ELSE current' = Target /\ UNCHANGED <<draining, callback, drain>>

Enqueue(m, s) ==
  /\ fate[m] = "new"
  /\ IsNew => Garbage # {}
  /\ ~IsDuplicate(m)
  /\ s.dropPolicy = "new" => Len(TargetItems) < s.cap
  /\ Accept(m, s)
  /\ settings' = [settings EXCEPT ![Target] = s]
  /\ lastRun' = [lastRun EXCEPT ![Target] = TRUE]
  /\ recent' = recent \cup {Identity[m]}
  /\ owed' = OwedAfterEnqueue
  /\ arrivals' = Append(arrivals, m)

(* An entry of the dedupe cache reaches its five minutes.                  *)
Expire(i) ==
  /\ i \in recent
  /\ recent' = recent \ {i}
  /\ events' = events \cup {"expiry"}
  /\ UNCHANGED <<objectVars, drainVars, owed, fate, arrivals>>

(* scheduleFollowupDrain, called when a run of the agent ends: it does     *)
(* nothing without a queue or when the queue is drained already.           *)
ScheduleDrain ==
  /\ owed' = FALSE
  /\ IF current # NoQueue /\ ~draining[current]
       THEN /\ Begin(current, items, dropped, draining, drain)
            /\ events' = events \cup {"scheduled"}
       ELSE UNCHANGED <<drainVars, events>>
  /\ UNCHANGED <<objectVars, recent, fate, arrivals>>

CallbackAfterClear == FALSE

(* clearSessionQueues for the key; the lane it clears is CommandQueue's.   *)
ClearSessionQueues ==
  /\ current # NoQueue \/ callback
  /\ callback' = CallbackAfterClear
  /\ current' = NoQueue
  /\ IF current = NoQueue
       THEN /\ events' = events \ {"scheduled"}
            /\ UNCHANGED <<items, dropped, lastRun, fate>>
       ELSE /\ items' = [items EXCEPT ![current] = <<>>]
            /\ dropped' = [dropped EXCEPT ![current] = {}]
            /\ lastRun' = [lastRun EXCEPT ![current] = FALSE]
            /\ fate' = [m \in Messages |->
                 IF m \in ToSet(items[current]) \cup dropped[current] THEN "cleared" ELSE fate[m]]
            /\ events' = (events \ {"scheduled"}) \cup (IF draining[current] THEN {"clear"} ELSE {})
  /\ UNCHANGED <<settings, draining, drain, enqueueVars, arrivals>>

-----------------------------------------------------------------------------
(* hasCrossChannelItems with resolveCrossChannelKey.                       *)
Crossing_Unkeyed(s) == "cross" \in {Route[m] : m \in ToSet(s)}
Crossing(s) ==
  LET routes == {Route[m] : m \in ToSet(s)}
  IN "cross" \in routes \/ Cardinality(routes) > 1

(* The debounce is over.  In collect mode the items are taken one by one   *)
(* once they have been seen to cross channels.                             *)
DebounceOver(o) ==
  /\ drain[o].pc = "debounce"
  /\ IF settings[o].mode = "collect"
       THEN LET force == drain[o].force \/ Crossing(items[o]) IN
         CASE ~force -> /\ drain' = [drain EXCEPT ![o].pc = "checked"]
                        /\ UNCHANGED <<current, draining, callback, objectVars, enqueueVars, ghostVars>>
           [] force /\ items[o] = <<>> -> Break(o)
           [] OTHER -> Run(o, "next", <<Head(items[o])>>, {}, TRUE)
       ELSE
         CASE items[o] = <<>> -> Break(o)
           [] items[o] # <<>> /\ dropped[o] # {} /\ ~lastRun[o] -> Break(o)
           [] items[o] # <<>> /\ dropped[o] # {} /\ lastRun[o] ->
                Run(o, "summary", <<>>, dropped[o], drain[o].force)
           [] OTHER -> Run(o, "next", <<Head(items[o])>>, {}, drain[o].force)

(* The microtask after the check: everything that is queued by now goes    *)
(* into one prompt.                                                        *)
CollectBatch(o) ==
  /\ drain[o].pc = "checked"
  /\ IF items[o] # <<>> \/ lastRun[o]
       THEN Run(o, "batch", items[o], dropped[o], drain[o].force)
       ELSE Break(o)

(* runFollowup resolves: the items are removed from the front of the       *)
(* queue, by number, and the summary state is cleared when a summary was   *)
(* part of the prompt.                                                     *)
Removed_All(o) == Len(items[o])
Removed(o) == IF drain[o].kind = "batch" THEN Len(drain[o].batch) ELSE 1

RunSucceeds(o) ==
  /\ drain[o].pc = "running"
  /\ LET its == [items EXCEPT ![o] = SubSeq(@, Removed(o) + 1, Len(@))]
         drp == [dropped EXCEPT ![o] = IF drain[o].summary # {} THEN {} ELSE @]
     IN /\ items' = its
        /\ dropped' = drp
        /\ LoopHead(o, its, drp)
  /\ fate' = [m \in Messages |->
                IF m \in ToSet(drain[o].batch) THEN "delivered"
                ELSE IF m \in drain[o].summary THEN "previewed" ELSE fate[m]]
  /\ events' = IF drain[o].kind = "summary" THEN events \cup {"summary"} ELSE events
  /\ UNCHANGED <<settings, lastRun, enqueueVars, arrivals>>

(* runFollowup rejects: nothing is removed, the finally block retries.     *)
RunFails(o) == drain[o].pc = "running" /\ Break(o)

DrainStep(o) == DebounceOver(o) \/ CollectBatch(o) \/ RunSucceeds(o)

Act ==
  \/ \E m \in Messages, s \in offered :
       EnqueueDuplicate(m, s) \/ EnqueueRefused(m, s) \/ Enqueue(m, s)
  \/ \E i \in recent : Expire(i)
  \/ ScheduleDrain
  \/ ClearSessionQueues
  \/ \E o \in Objects : DrainStep(o) \/ RunFails(o)

Next == Act /\ UNCHANGED offered

Spec == Init /\ [][Next]_vars

(* Timers and microtasks run, a run of the agent ends and then schedules a *)
(* drain (finalizeWithFollowup), and its failures are transient.           *)
Fairness ==
  /\ WF_vars(owed /\ ScheduleDrain /\ UNCHANGED offered)
  /\ \A o \in Objects :
       /\ WF_vars((DebounceOver(o) \/ CollectBatch(o)) /\ UNCHANGED offered)
       /\ SF_vars(RunSucceeds(o) /\ UNCHANGED offered)

FairSpec == Spec /\ Fairness

-----------------------------------------------------------------------------
TypeOK ==
  /\ current \in Objects \cup {NoQueue}
  /\ \A o \in Objects : items[o] \in Seq(Messages)
  /\ draining \in [Objects -> BOOLEAN]
  /\ offered \in Configs
  /\ settings \in [Objects -> Settings]
  /\ dropped \in [Objects -> SUBSET Messages]
  /\ lastRun \in [Objects -> BOOLEAN]
  /\ callback \in BOOLEAN
  /\ owed \in BOOLEAN
  /\ \A o \in Objects : draining[o] <=> drain[o].pc # "off"
  /\ fate \in [Messages -> Fates]

(* The messages a live queue object or a drain still holds.                *)
Live == {o \in Objects : o = current \/ draining[o]}
HeldBy(o) == ToSet(items[o]) \cup dropped[o] \cup ToSet(drain[o].batch) \cup drain[o].summary

(* Accepted, neither delivered nor dropped nor cleared, and held nowhere.  *)
Lost == {m \in Messages : fate[m] \in {"queued", "summarized"}} \ UNION {HeldBy(o) : o \in Live}

(* No accepted message vanishes (reply-flow.test.ts: "retries collect-mode *)
(* batches without losing queued items").                                  *)
NothingLost == Lost = {}

(* The same, for a key nobody clears while it is drained.                  *)
NothingLostUncleared == "clear" \notin events => NothingLost

(* And none does unless the queue overflowed or was cleared while its      *)
(* drain was at an await, or an overflow summary took a message's place.   *)
LossNeedsDisturbance == events \cap {"overflow", "clear", "summary"} = {} => NothingLost

(* One prompt never collects messages for two destinations: the comment in *)
(* drain.ts, "process individually to preserve per-message routing".       *)
BatchesShareRoute ==
  \A o \in Objects : drain[o].kind = "batch" =>
    \A m, n \in ToSet(drain[o].batch) : Route[m] = Route[n]

(* It does so only when a message came in the microtask between the check  *)
(* of the routes and the copy of the items.                                *)
MixedNeedsLateArrival == "late" \notin events => BatchesShareRoute

(* One object at most is being drained: the runs of a session's followups  *)
(* do not overlap.                                                         *)
SerialDrains == \A o, p \in Objects : draining[o] /\ draining[p] => o = p

(* Messages reach the agent in the order of their arrival: none waits in   *)
(* the key's queue while a later one has been delivered.                   *)
NoOvertaking ==
  \A i, j \in 1..Len(arrivals) :
    i < j /\ fate[arrivals[j]] = "delivered" => \A o \in Live : arrivals[i] \notin ToSet(items[o])

(* After clearSessionQueues nothing restarts a drain by itself until a run *)
(* has scheduled one again (reply-flow.test.ts: "should NOT auto-start a   *)
(* drain (callback is gone)").                                             *)
NoStaleCallback == callback => "scheduled" \in events

(* The three hold unless the key was cleared while a drain was in flight:  *)
(* that drain's finally block works on the key's next queue, and may       *)
(* schedule it with the callback that was cleared.                         *)
UnclearedDrains == "clear" \notin events => SerialDrains /\ NoOvertaking /\ NoStaleCallback

(* Of the calls with one message id and routing only one is accepted, as   *)
(* long as the dedupe cache has not forgotten it.                          *)
AcceptedOnce ==
  "expiry" \notin events =>
    \A i, j \in 1..Len(arrivals) : Identity[arrivals[i]] = Identity[arrivals[j]] => i = j

(* In followup mode previews are handed over in the place of an item.      *)
(* Where none is left, an overflow during runFollowup having put its last  *)
(* messages among them, drainNextQueueItem finds nothing and the finally   *)
(* block schedules the drain again, over and over, until a message comes   *)
(* or the mode changes.                                                    *)
Stranded(o) == settings[o].mode = "followup" /\ items[o] = <<>> /\ dropped[o] # {}

(* A message waiting in the key's queue is eventually delivered, dropped,  *)
(* previewed, cleared or lost: no drain stops short of it, and none goes   *)
(* on without end but one that has previews and no item.                   *)
Waiting(m) == \E o \in Live : m \in HeldBy(o)
WaitingEnds ==
  \A m \in Messages :
    Waiting(m) ~> ~Waiting(m) \/ \E o \in Live : Stranded(o) /\ m \in dropped[o]

=============================================================================

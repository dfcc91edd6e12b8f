# A verification project for the gateway core

This directory holds TLA+ models of the coordination code of the gateway
(`src/src/**`, TypeScript on Node.js): the queues, locks, timers and registries
that decide *when* something runs and *what becomes of it* when something else
runs in between. Each model is checked with TLC on small instances, and the
properties that matter most are proved with TLAPS for every instance.

Node.js runs one turn of the event loop at a time. Between two `await`s nothing
else runs, so a step of a model is one such stretch of code (or less, where a
stretch calls back into the component). What is hard in this program happens
because something else runs *at* an `await`, in a timer, or in another process
that shares a file.

Paths below are relative to the repository unless they begin with a module name;
`queue/` is `src/auto-reply/reply/queue/`.

## 1. The system

A message from a channel is debounced, becomes a *run* of an agent in a session,
and its answer is delivered in blocks. Runs go through *command lanes* (one per
session, a few global ones with a limit). Messages that arrive while a session's
agent runs wait in its *followup queue*, or are steered into the run. A run may
start other runs (subagents, `sessions_send`), the cron service starts runs by
the clock, and the gateway can abort, reset, drain and restart. Transcripts are
files, guarded by a write lock that other processes (the command line tools)
respect too.

| Component | State it keeps | Operations, and who calls them | What is hard | What makes it correct |
|---|---|---|---|---|
| **Command lanes** `src/process/command-queue.ts` | per lane: queue, active task ids, limit, draining flag, generation; one global draining flag | enqueue (everything that runs an agent, cron), set limit (reload), clear (reset), reset all, wait for active (restart) | pump is re-entered from a task's synchronous prefix; a task from before a reset completes after it | nothing waits while there is a place; limits hold among tasks of one generation; first in, first out; "drained" is only said when the work is done |
| **Followup queue** `queue/*.ts` | key → queue object, run callback, cache of recent message ids | enqueue (a message during a run), schedule drain (a run ends), clear (reset, stop) | the drain awaits with the queue open; overflow and clear during the await; two objects for one key | nothing accepted is lost or runs twice, order is kept, batches share a destination, drains of one key do not overlap |
| **Session write lock** `src/agents/session-write-lock.ts` | the lock file; per process the table of held locks with counts | acquire, release, watchdog, exit handlers, start-up cleanup | several processes, crashes, pids used again, staleness judged some awaits before the file is removed | one holder, the file stays to the last release, nobody waits on a dead owner |
| **Embedded runs** `src/agents/pi-embedded-runner/{run,runs,lanes}.ts` | places in lanes, the registry of active turns, waiters | run (session lane, then global lane), abort, wait for end | chains of lanes, callers that hold places themselves, retries between which no turn is registered, turns from before a restart | turns of a session do not overlap, every run ends and leaves no place behind, who waits for an end is told the truth |
| **Cron service** `src/cron/service/*.ts` | store in memory and on disk, running markers, one timer | add, update, remove, run by hand, tick, start-up recovery | lock released while a job runs, forced reloads and merges, crash between marker and result | a job does not run twice at once, edits survive a run, every marker is cleared |
| **Block pipeline and reply dispatcher** `src/auto-reply/reply/{block-reply-pipeline,block-reply-coalescer,reply-dispatcher,dispatcher-registry}.ts` | seen and sent keys, buffers, two chains of sends, an idle timer; pending count with a reservation, registry of dispatchers | block, tool result, flush, stop (the run); send, mark complete; the restart code counts | a block that timed out and is sent after all, media looked up during a flush, a run that is tried again, the reservation released in a microtask | what is said is heard once and in its order, nothing of the answer is lost, a restart waits for it and comes |
| **Typing, draft streams** `src/auto-reply/reply/typing.ts`, `src/channels/{typing,draft-stream-loop,run-state-machine}.ts` | timers, the text pending | start, push, flush, stop | stop during a send | typing ends, the last text is sent |
| **Inbound debounce** `src/auto-reply/inbound-debounce.ts` | buffers by key with timers | enqueue, flush | an item that must not wait overtakes the buffer's flush | order per key |
| **Subagent registry, announce queue** `src/agents/subagent-*.ts` | runs (persisted), announce attempts, timers, queues by session | spawn, lifecycle event, wait result, announce, steer, kill, sweep, restore | completion seen twice, runs replaced while others announce, restart between completion and announcement | announced once, after the runs below, never by a steered run, retried a bounded number of times, cleaned up in the end |
| **Gateway runs** `src/gateway/{chat-abort,server-chat}.ts`, `src/gateway/server-methods/{agent-job,agent-wait-dedupe}.ts` | abort controllers, cached ends of runs, pending errors | agent, agent.wait, abort, lifecycle events | a waiter before, between or after the events; an error that is retried | the answer belongs to the run and is the last one |
| **Session reset** `src/gateway/server-methods/sessions.ts` | session store, transcripts | reset, delete | runs that begin while it waits | no turn on an archived transcript |
| **Exec approvals, node registry** `src/gateway/{exec-approval-manager,node-registry}.ts` | pending records with timers | request, resolve, expire, disconnect | a decision against the timeout, a reply after a reconnect | settled once, an approval is used once |
| **Channel manager, health monitor, config reload** `src/gateway/{server-channels,channel-health-monitor,config-reload}.ts` | tasks and aborts per account, back-off, in-flight flags | start, stop, crash, restart, reload | stop during back-off, monitor against a manual stop | one task per account, stopped stays stopped |
| **Process supervisor, shell sessions** `src/process/supervisor/*.ts`, `src/agents/bash-process-registry.ts` | run records, active processes | spawn, cancel, scopes, exit | exit before registration, two timers and an exit | one final state per run |
| **Auth profiles, model fallback, rate limits** `src/agents/auth-profiles/*.ts`, `src/agents/model-fallback.ts`, `src/gateway/auth-rate-limit.ts` | cooldown windows, counters | mark failure, mark used, order | windows that overlap or are extended | a profile comes back, a lockout ends |
| **ACP control plane** `src/acp/control-plane/*.ts` | actor queue per session, cache of runtimes | initialize, turn, cancel, close, evict | close during a turn | turns of a session are serial |
| **Pairing store** `src/pairing/pairing-store.ts` | requests on disk | request, approve, expire | several processes | a code is approved once |
| **Sockets, memory index, browser relay, secrets, adapters, UIs, Python package** | see `PROJECT.json` | | | not planned, or last |

`src/src/{infra,config,utils,shared,plugins,routing,...}` are imported by this
code but are not in the repository. What the models need of them is external:
the drop policy and the collect step of `utils/queue-helpers`, the dedupe cache,
and the tests of a process id (`shared/pid-alive`) are modelled from how their
callers use them.

### Interaction

* A run holds the place of its **session lane** while it asks for one in its
  **global lane**. The tasks of the two lanes are nested promises, so places are
  given back from the inside.
* The **agent runner** enqueues into the **followup queue** while a turn is
  active, and schedules a drain when it ends; the drain starts runs.
* **Reset and stop** clear the followup queue and the session lane, abort the
  registered turn and (reset) wait for it.
* An **attempt** of a run takes the **session write lock** around the
  transcript; the watchdog, another process and the next start may take the lock
  away.
* A turn's words go through the **block pipeline** to the **reply dispatcher** while
  it runs, and what is left of them after it. A restart that a change of the
  configuration asks for waits for the queued work, the active turns and the count of
  the dispatchers.
* The **restart** marks the lanes as draining, waits for the active tasks, and
  resets all lanes; what still runs then belongs to an earlier generation.

## 2. Modules

| Module | Models | Of the code |
|---|---|---|
| `CommandQueue` | the lanes with the call stack of a turn | all of `process/command-queue.ts` |
| `LaneService` | what a lane promises: a line in front of a bounded number of places | abstract specification |
| `FollowupQueue` | one key's queue objects and their drains | all of `queue/` |
| `SessionWriteLock` | one session file's lock across processes | all of `agents/session-write-lock.ts` |
| `CronService` | one file of jobs, the services on it, ticks, start-ups and manual runs | all of `cron/service/{ops,timer,jobs,store,locked}.ts` that changes jobs |
| `ChannelManager` | one account with the health monitor | `gateway/server-channels.ts`, `gateway/channel-health-monitor.ts` and who calls them |
| `SubagentRegistry` | the runs of subagents, their file and their announcements | `agents/subagent-registry*.ts`, and the control of `subagent-announce.ts`, `subagent-spawn.ts`, `tools/subagents-tool.ts` |
| `EmbeddedRuns` | runs as chains of places, composed with `LaneService` | `pi-embedded-runner/{run,runs,lanes}.ts`, and the control of `run/attempt.ts`, `cron/service/{ops,timer}.ts`, `sessions-send-tool.ts`, `server-methods/sessions.ts` that holds places or waits |
| `ReplyDelivery` | replies on their way from the model to the channel, and the restart that waits for them | `auto-reply/reply/{reply-dispatcher,dispatcher-registry,block-reply-pipeline,block-reply-coalescer}.ts`, `auto-reply/dispatch.ts`, `requestGatewayRestart`, and the control of `reply-delivery.ts`, `agent-runner*.ts`, `dispatch-from-config.ts`, `pi-embedded-subscribe*.ts` around them |
| `MC*` | instances for TLC | |
| `CommandQueue_proofs`, `FollowupQueue_proofs`, `SessionWriteLock_proofs`, `CronService_proofs`, `EmbeddedRuns_proofs`, `ChannelManager_proofs`, `SubagentRegistry_proofs`, `ReplyDelivery_proofs` | theorems about these modules (section 4) | |

A definition named `X_Something` next to `X` (`X_Mistake` in most modules) is `X`
with a plausible mistake. No action uses it: each property of a passing run is shown to notice at least one mistake when
it takes the place of `X`.

### CommandQueue

The functions of the file call one another within a turn: `enqueueCommandInLane`
calls `drainLane`, which calls `pump`, which runs the synchronous prefix of a
task, which may call `enqueueCommandInLane` again. `stack` is this call stack;
every call, loop iteration and return is a step, and a turn is over when the
stack is empty. `draining[l]`, `activeTaskIds[l]`, `generation[l]` and so on are
the fields of `LaneState`. An *entry* is one call of `enqueueCommandInLane` with
its promise. `genOf` is the generation a task captured when it started. `ticket`
records the order of the calls; only properties read it. `waitForActiveTasks`
keeps the set of tasks that were active when it began.

`LaneService` has no turns, pumps or flags. `CommandQueue` implements it under
the mapping at the end of the module (`Service`): the line is the queue, the
places are the active tasks, and what was given up are the running entries whose
generation is not current.

### FollowupQueue

An object is a `FollowupQueueState`. A drain keeps its object across awaits, so
it can be draining an object that the key no longer maps to; `current` is the
key's object. The awaits are the debounce, the microtask after
`drainCollectQueueStep` declined, and `runFollowup`. `events` records what
happened *while a drain was away* ("clear", "overflow", "late" arrival,
"summary", "expiry", "scheduled"), so that a property can say which guarantee
holds as long as it has not. `Stranded` is a queue in followup mode that has
previews and no item left to send them with. The settings callers pass are chosen
once per execution (`offered`): collect and followup with "old", followup with
"new", collect and followup with "summarize", the default. The drop policy of the absent `queue-helpers` is
`Excess`: the oldest go, the newest is refused, or the oldest go and are
previewed in a summary.

### SessionWriteLock

A task is one call of `acquireSessionWriteLock` and the release of what it
returned. Creating, writing, reading, stat, removing and closing the lock file
are separate steps; the steps of other tasks and processes fall in between.
`HELD_LOCKS`, the counts and the releases under way are the variables `held`,
`count` and `closing`. Processes start, crash without cleaning up, exit with
their handlers, or get a signal whose handler releases all locks while another listener
keeps the process going (`Signalled`); a later process may have the pid of an earlier one. The watchdog
and the gateway's start-up cleanup are processes' own steps. A file ages: at any
time if its owner is gone, and as a disturbance if the owner still works.

### EmbeddedRuns

A task of the lanes is `<<run, n>>`, the n-th place of the run's chain `Path`.
The lanes are `LaneService`'s own actions, which is justified by the refinement:
what is shown here for any service holds for the one `CommandQueue` gives. A
run's phases are: queued in a lane; "turn" (its task has just started and asks
for the next lane before anything else happens); "job" (a manual cron job that
has its place and has not begun its run); setup; attempt; leaving; over.
`active` is `ACTIVE_EMBEDDED_RUNS`, `reset` together with `target` stand for a
`sessions.reset` with its waiter, and `replaced` remembers which turns lost their
entry ("run_replaced"). `arranged` chooses one of a few arrangements of sessions,
lanes and callers, with what may go wrong in it.

### CronService

`disk` is the file, `mem[s]` the copy of a service, and a section inside
`locked()` is one step, so that what interleaves is what the code does outside the
lock: the runs themselves, the timer, the awaits between two sections of
`start()`, `onTimer` and `run()`. Loading, normalising and recomputing
(`Maintained`), marking, applying outcomes and saving happen in the section that
does them in the code. `round` is where `onTimer` is, `stage` where `start()` is,
`caller` where a call of `cron.run` is. `own` says that a tick's jobs are still the
objects in memory (a forced reload replaces them). A crash keeps the file only; a
reload starts the next service on the file while work of the last goes on. `wish`
is what the user asked for last. `unguarded`, `stale` and `overwritten` remember
what takes a guarantee away: a marker that was taken off during a run, a service
that works with an older copy, and a write-back that was read before another write.
A marker may be taken off in the file, or in a memory only: `cron.run` tends its
memory first, so that after `STUCK_RUN_MS` it removes the marker of a run that still
works and sets a new one for its own, and the file shows a marker before and after.

### ChannelManager

An *instance* is one call of the plugin's `startAccount` with the chain behind its
promise: up, backing off, asking `isConfigured` again. `tasks` and `aborts` are the
account's entries in the store. A caller (a request, a reload, the shutdown, the
monitor) is at one of the awaits of `startChannelInternal`, `stopChannel` or
`markChannelLoggedOut`. The plugins are external, by what the manager sees: one
whose `isConfigured` returns a promise, one with a `stopAccount`, one of neither
kind. In the cases that say so (`fails`) `loadConfig`, `isConfigured` and `stopAccount`
may throw or reject: an automatic restart then ends in the catch of its chain
(`RestartFails`), a call where it stands (`JobFails`), a check of the monitor in the catch
of `runCheck` (`ActFails`). `wanted` is the last call of anybody but the monitor; `events` names the
races after which the entries, or the state "manually stopped", are not true any
more: two starts at one time, a start during a stop or a stop during a start, a
stop that found nothing, a late mark of a logout, a call that failed and left the
account marked as stopped by hand.

### SubagentRegistry

A run keeps its number and its record when it leaves the registry (`listed`),
because continuations hold the record. `child` is what the run does, `waits` and
`pendingErrors` are `agent.wait` and the errors within their grace, `completing`
the calls of `completeSubagentRun` (and a kill's hook) at an await, `flow` where the
announcement and the cleanup of a run are. `Resume` is `resumeSubagentRun` for all
the runs that a step resumes, `Fate` its guards in their order. `launches` are runs
the gateway has accepted and the registry has not recorded: the children of a spawn,
the run that replaces a steered one, the run that a wake starts. Of the time only
`old` is left, the age after which an announcement is overdue. A case says who
spawns whom, who expects a message, whose session is deleted, and what may happen.
`exempt` remembers kills, overlapping steers, what a restart left, and what comes late: the
spawns of a run taken for ended, and a swept run that a steer brings back (`Unforeseen`).

### ReplyDelivery

A *piece* is what a model says at a time (a text, an image, audio) or the result of a
tool; a payload is the sequence of pieces in it, which also serves as its key.
`run[d]` is the turn of the reply `d`: where it is (`stage`), the media whose files
are still being looked up (`staging`), the chain of tool results, the final payloads
to send. `pipe[d]` is the pipeline: the coalescer's buffer and whether its timer is
armed, the audio held, `seenKeys` (`seen`), the chain of sends, `sentKeys` (`sent`),
and the blocks given up that are still being spoken (`overdue`). A hand-over to the
dispatcher may reject, of a block (`BlockFails`), a tool's result (`ToolFails`) or a final
payload (`AnswerFails`); `lost` remembers the first two. A file that cannot be read is stripped
from its payload, in the final answer too, and the others go on. `awaited` is how much of
the chain a flush under way waits for. `out[d]` is the dispatcher: the chain of
deliveries, the count and the registry's entry. `heard[d]` is what arrived, `said` in
`run[d]` what was said, which only properties read. A step is what runs between
two awaits that take time; the microtasks between run with it, except the one that
the code itself schedules to clear the reservation. A case is a script of pieces, what
the coalescer may do with a text, and what may happen: another attempt, a failure of
the run or of a delivery, a block that times out, a hand-over that rejects, a restart, its
deadline.

## 3. Runs

All bounds are constants of the `.cfg` files.

| Run | Instance | What it shows |
|---|---|---|
| `command_queue` | three entries in one lane or two, or two entries and a waiter; limits to 2, one reset | `NoStrandedWork`: between turns no entry waits in a lane that has a place. `SaysWhatRuns`: the active ids are exactly the tasks of the current generation that run, and a wait ends well only when what it waited for is done. Every queued entry leaves the queue; the code implements `LaneService` (first in, first out, within the limit) and its work conservation |
| `followup_queue` | three messages, one of them a duplicate, two destinations, two objects, settings in three groups (old in collect and followup mode, new, summarize in both modes) | the guarantees that hold, each with its condition: nothing is lost without overflow, clear or summary; batches share a route unless a message came late; without a clear in flight drains are serial and keep the order (`UnclearedDrains`); duplicates are accepted once; waiting ends (`WaitingEnds`), or the message is a preview of a queue that is `Stranded` |
| `followup_queue_loss` | collect, cap 2, drop old | **violated** `NothingLostUncleared` |
| `session_lock` | two callers in one process, a third in another; a third process with a used pid; every disturbance | exclusion and release of one's own file as long as nobody stopped, got a signal, overran a limit or cleaned up; the table of held locks and its counts are true and no file is left behind, even with the watchdog and signals (`TableIsTrue`); every caller gets the lock or fails |
| `embedded_runs` | three runs in three arrangements: two messages to a session with a reset, failures, timeouts and a restart; turns that send to each other through the nested lane; a manual job beside a scheduled one and a message to its session, with failures and a restart | `OneTurnPerSession`; `PlacesAreUsed`: a run in a global lane has its session already and leaves nothing behind; `RegistryIsTrue`: who works is registered, who was told of an end can rely on it, who waits has a turn to wait for; `EveryRunEnds` |
| `embedded_runs_jobs` | two manual jobs without a timeout, cron limit 1 | **violated** `ManualJobsSucceed` |
| `cron_service` | two jobs in four cases: crashes and errors; a reload; edits and manual runs; deliveries that write the file | `MarkersMatchRuns`: a job has one run at a time and a marker in the file has a run; `EditsSurvive`; `SlotsAreKept`: no due slot is passed over; `ChosenMayRun`: no second success of a one-shot, back-offs are kept, also over restarts; `DueJobsRun` |
| `cron_service_start` | the same | **violated** `StartKeepsNewlyDue` |
| `channel_manager` | three kinds of plugins, two callers and the monitor, two restarts, errors of every call | `RecordsAreTrue`: one instance, the one in the store, and a true status; `StoppedStaysDown`; `ComesBack`: an account that is to be up comes back also after it gave up or a restart failed, unless a call failed between a stop and the start that was to follow; and calls return |
| `channel_manager_stop` | a plugin whose `isConfigured` is a promise | **violated** `StopEndsRestarts` |
| `subagent_registry` | nine cases of one to three runs: an orchestrator that reports after the run below it (with failures, a crash, the sweeper), two side by side, steers that work and fail, and a single run to which everything happens | `ToldOnce`: a result and an end are told once; `SteeredSaysNothing`; `ChildrenFirst`; `CleanupEnds` |
| `reply_delivery` | fourteen cases of one reply of up to five pieces, or two replies at once, with hand-overs that reject, files that cannot be read, and a restart | `HeardAsSaid`: streamed over several attempts, buffers and flushes, the texts are heard in their order and once, and media once; otherwise exactly the last attempt; tool results in their order; even if blocks time out or are lost, nothing of the final answer that can be read is lost, unless a lost block is missed. `RestartWaits`: a restart that is not forced cuts no orderly reply short. `RestartHappens` |

### What the violations say

* `followup_queue_loss`: `drain.ts:125` removes as many messages from the front
  of the live queue as the batch had, after `await runFollowup`. If an overflow
  dropped messages from the front meanwhile, messages that were never in the
  batch are removed unsent.
* `embedded_runs_jobs`: a job started by hand is itself a task of the cron lane
  and the run it starts asks for a place in the same lane. With the default limit
  of one the run waits for the job and the job for the run, until the job's
  timeout (an hour by default), or for ever if it has none.
* `cron_service_start`: the last section of `start()` recomputes every slot, also
  one that became due while the missed jobs ran, which the section before it took
  care to keep.
* `channel_manager_stop`: an automatic restart deletes the account's entries and
  awaits `isConfigured`. A stop in that await finds nothing to stop and does not
  remember that the account was stopped; the restart does not look again.

More came up on the way and has no run of its own; the properties that hold name
it as their condition.

* Followup queue: the summary branch hands `drainNextQueueItem` a callback that
  sends the summary and ignores the item, which is then removed; when previews are
  left and no item is, since an overflow during `runFollowup` put the last messages
  among them, the drain starts itself again without end and sends nothing (`Stranded`, the
  exception of `WaitingEnds`; with the default drop policy); the routes are
  checked one microtask before the items are copied; a drain whose queue was
  cleared can drain the next one with the callback that was cleared.
* Write lock: a signal that another listener handles too (`handleTerminationSignal` then
  leaves the process running) takes the lock from callers that go on writing; a process that crashes leaves a file which two others may judge
  stale, and the slower one removes the file the faster one has just created; a
  release removes the file at the path without looking whose it is; and without
  start times (`proc` not readable) a file with one's own pid counts as an orphan
  until `HELD_LOCKS` has an entry, some awaits after the file was made.
* Cron: `maybePersistResolvedTelegramTarget` reads and writes the file without the
  lock, so that what was written in between is lost.
* Channels: `stopChannel` marks an account as stopped by hand, also when the monitor
  calls it to restart the account. If `stopAccount`, or the start that follows
  (`loadConfig`, `isConfigured`), then rejects, the catch of `runCheck` only logs it, nothing
  takes the mark away, and every later check passes the account by
  (`channel-health-monitor.ts:121`): it stays down until somebody starts it. The same goes
  for a reload. The comment in `server-channels.ts:291` on a failed automatic restart, "next crash will
  retry", is not so for a startup failure: nothing is left that could crash, and only the monitor
  starts the account again. Two starts that both await `isConfigured` pass the same look at the
  tasks, and nobody can stop the first instance any more. A plugin that does not
  end when its signal is aborted keeps its stop, and with it the monitor's only
  check, waiting for ever.
* Subagents: `runSubagentAnnounceFlow` deletes the session of a run whose cleanup is
  "delete" also when the delivery failed, so that the retry prunes the run as an
  orphan, although the registry's comment says "Keep both cleanup modes retryable
  after deferred/failed announce". A failed announcement nobody expects a message
  of has no timer: it waits for the cleanup of another run. What a restart
  finds with its cleanup begun, or suppressed by a steer, is not gone on with. Two
  steers of one run may overlap, and the failure of the first lifts the mark of the
  second.

* Replies: a block that times out while it is being spoken (the time-out of the speech
  is longer than that of the block) reaches the dispatcher after the final payloads,
  which repeat it: out of order and twice, although the pipeline skips "remaining block
  replies to preserve ordering". It may come when the dispatcher has left the registry,
  where a restart does not see it, and its delivery takes the count below zero. Media
  that is looked up beyond the last flush is sent twice, such audio stays held for
  ever. Nor is all of the answer heard for sure then: once the final payloads were left
  out because everything had been streamed, a late block that times out takes the late
  media behind it along. The flush at the start of a tool begins before the text that the same event
  pushes out is in the pipeline. After a failed run nobody awaits the blocks under
  way, and what the coalescer holds is lost. `Orderly` and `late` except these. A block whose
  hand-over rejects for another reason than the time-out is neither sent nor does it abort the
  pipeline; if any other block was streamed, the final payloads are left out, "only when
  block streaming succeeded end-to-end" (`agent-runner-payloads.ts:162`) notwithstanding, and
  the lost block is never heard (`BlockMissed`).

### Why the bounds are enough

Most of the safety properties are also proved without bounds (section 4); for the others,
for liveness, and for the mistakes the properties are to notice, the bounds matter.

* *Lanes*: limits up to two give a raised and a lowered limit; three entries fill
  a lane of two and leave one waiting; one reset makes one stale generation, and a
  second reset adds no new relation of a task to its lane (its generation is
  current or not). Two lanes let a task of one enqueue into the other. Entries and
  lanes are interchangeable, so the entries come in the order of their names and the
  first goes to `main` (`Named`, `InTurn`); liveness is checked, hence not by a symmetry
  set. A waiter looks at snapshots of ids, for which two entries, one in the snapshot
  and one after it, are enough.
* *Followup queue*: with a cap of one a second message overflows the queue, a cap of two
  leaves room for a batch. Three messages are a batch, one during it and one after it, or
  a message, its neighbour and its duplicate. Two objects are one being drained and
  its successor; a third would need a second clear during the same two drains.
* *Lock*: the conflicts are between a holder, a contender, and a sharer in the
  holder's process. The third process exists to use a pid again.
* *Cron*: two jobs are one that runs and one that waits for a worker or becomes due
  meanwhile; two services are one that was stopped and its successor. Four units of
  time hold a slot, the run, its back-off and the slot after. A marker counts as stuck
  after one unit (`StuckAfter`), so that this happens to runs that work.
* *Channels*: two instances are the one in the store and one that was forgotten or is
  being replaced. Two callers and the monitor give every pair of overlapping calls.
* *Subagents*: three runs are an orchestrator, the run below it, and the one that
  replaces either. `MaxRetries` is 2 (3 in the code): a first failure, and one that
  exhausts the retries. `agent.wait` answers late, which multiplies the states, so
  only some cases let it answer. Kills and steers are checked of runs that spawn
  nothing: with three runs and all that may happen the state space is too large for a
  run that checks liveness. Larger cases were checked without it.
* *Replies*: four pieces are two texts in one buffer, a tool between, and a text after
  it; a second attempt says the same again. Two images are two that come late, and one
  that times out before the other. A script that repeats itself shows what is heard once
  when streamed and as often as it was said when not. Two replies are one that a restart waits for
  and one that begins meanwhile. Each of the exceptions of `Orderly` is needed: the run
  fails without it.
* *Runs*: two runs compete for a session, the third is the one they start or the
  one that comes later. Two attempts are one retry. One reset, one restart.

### Fairness

* Code that was resumed runs to the end of its turn: weak fairness of the steps on
  the stack, of a run's steps, of a task's file operations.
* A lane serves (`WF` of `Enter`): this is `LaneService`'s work conservation, which
  `command_queue` shows of the code.
* A task's promise settles. For runs this is not assumed but follows from the
  attempt's own timer (`abortTimer`), which aborts it, and from the timeouts that
  `agent.wait` and a cron job always have, or have unless configured away.
* `runFollowup` may fail, but not for ever: strong fairness of its success.
* Cron: sections get the lock, timers ring, and runs end, because a job has a timeout
  unless it is configured away. Channels: timers ring, promises settle, a plugin ends
  when its signal is aborted, and the monitor looks again and again at an account that is
  enabled and configured. Errors happen or not, but of the monitor's attempts not all
  fail (strong fairness of `Acts` and of the monitor's `Answered`). Subagents: timers
  ring, the gateway and the hooks answer, time passes; a run that works need not end,
  since an announcement that waits for it becomes overdue.
* Replies: what is begun goes on (one weak fairness of all those steps together, which
  run out). Nobody has to write, speak, fail or reach the restart's deadline.
* A lock is released by its holder: every caller does so in a `finally` block.
  Time passes for a file whose owner is gone.

Nothing is assumed about users, other processes starting or stopping, failures or
disturbances: these happen or not.

## 4. Proofs

Each theorem holds for every value of the constants that satisfies the module's named
assumption: for any number of callers, entries, messages, runs, instances or replies, and
for every bound. "P" below stands for `Spec => []P`.

| Module | Theorem | Says |
|---|---|---|
| `CommandQueue_proofs` | `TypeCorrect`, `NoWorkStranded`, `CountersAreTrue` | `TypeOK`, `NoStrandedWork`, `SaysWhatRuns` |
| | `ImplementsSafeService` | `Spec => Service!SafeSpec`: the refinement of `LaneService`, without its fairness |
| `FollowupQueue_proofs` | `TypeCorrect`, `AcceptsOnce`, `MixedOnlyLate`, `DrainsInOrder`, `LosesNothing` | `TypeOK`, `AcceptedOnce`, `MixedNeedsLateArrival`, `UnclearedDrains`, `LossNeedsDisturbance`: every invariant of the run |
| `SessionWriteLock_proofs` | `TypeCorrect`, `TheTableIsTrue`, `Excludes` | `TypeOK`, `TableIsTrue`, `UndisturbedExclusion` |
| | `ReleaseRemovesOwn` | `Spec => UndisturbedReleaseRemovesOwn`, an action property |
| `CronService_proofs` | `TypeCorrect`, `MarkersAreTrue`, `EditsAreKept` | `TypeOK`, `MarkersMatchRuns`, `EditsSurvive`: every invariant of the run |
| | `SlotsStay`, `ChoiceIsSound` | `Spec => SlotsAreKept`, `Spec => ChosenMayRun`: its action properties |
| `EmbeddedRuns_proofs` | `TypeCorrect`, `OneAtATime`, `PlacesUsed`, `RegistryTrue` | `TypeOK`, `OneTurnPerSession`, `PlacesAreUsed`, `RegistryIsTrue`: every invariant of the run |
| `ChannelManager_proofs` | `TypeCorrect`, `RecordsTrue`, `StaysDown` | `TypeOK`, `RecordsAreTrue`, `StoppedStaysDown`: every invariant of the run |
| `SubagentRegistry_proofs` | `TypeCorrect`, `ToldAtMostOnce` | `TypeOK`, `ToldOnce`: every invariant of the run |
| | `SteeredIsSilent`, `ChildrenAreFirst` | `Spec => SteeredSaysNothing`, `Spec => ChildrenFirst`: its action properties |
| `ReplyDelivery_proofs` | `TypeCorrect`, `RestartIsOrderly`, `SaidIsHeard` | `TypeOK`, `RestartWaits`, `HeardAsSaid`: every invariant of the run |

Every proof has the same frame: an inductive invariant that holds initially, that each
action preserves (one step or one lemma per action), and that implies the property. The
invariants of the last seven modules are theorems of their own (`...Invariant`), that of
`ChildrenFirst` too (`TreeInvariant`).

### Assumptions

* `BoundsAssumption` (lanes): the bounds are natural numbers.
* `MessagesAssumption`: two calls with one identity have one route, because the identity
  is made from the message id and the routing; `cap` is positive: `queue/state.ts`
  takes only such a one from the settings.
* `LockAssumption`: each caller lives in one process; `Pid` is any function, so that any
  pids may be used again; `StartTimes` is either value.
* `BoundsAssumption` (cron): there is a job, a service, a unit of time and a worker; the
  back-offs are a sequence of positive numbers, as `DEFAULT_BACKOFF_SCHEDULE_MS`
  is; the number of retries and the age of a stuck marker are any numbers. The periods of
  recurring jobs are positive (`CaseAssumption`), which `cron/schedule.ts` enforces.
* `LaneAssumption`, `RunAssumption`, `CaseAssumption`: a session's lane has one place and
  a global lane at least one. The limit of a lane is 1 until `setCommandLaneConcurrency`
  raises it, which `gateway/server-lanes.ts` does for the cron, main and subagent lanes
  only. A run's loop is entered at least once.
* `RegistryAssumption`: the user's session is not a child's, and the names of the steers
  are not the two other ways a run comes about ("spawn", "wake"), which is naming only;
  at least one run and at least one try, as `MAX_ANNOUNCE_RETRY_COUNT` is.
* `ManagerAssumption`, `DeliveryAssumption`, and the cases of `RegistryAssumption`: the cases are any combination of what the
  code distinguishes; scripts are any finite sequences.

### Lanes

`NoStrandedWork` speaks of the end of a turn and is not inductive, since it says nothing
of the middle of one. `PumpInv == TypeOK /\ FlagOnStack /\ WorkAttended`:

* `FlagOnStack`: a lane's draining flag is set only while a pump of the lane is on
  the stack. (The flag is what makes `drainLane` do nothing: if it were ever left
  set, the lane would stand still.)
* `WorkAttended`: a lane with an entry that could start has somebody on the stack
  who will look after it: its pump, or a reset that has the lane still to drain.

When the stack is empty nobody is on it, so no lane has such an entry. Where an action
changes one lane, `LaneKept` disposes of the others. Completions and `drainLane` have
lemmas of their own, because several actions call them, as in the code.

`SaysWhatRuns` needs to know where each entry is (`PlaceInv`): once in its lane's line
while it is queued, once on the stack while its synchronous prefix runs, never of a
generation to come. With it a completion removes exactly its own id, and what was in a
waiter's snapshot is never queued again.

`ImplementsSafeService` is a step simulation under both invariants: a pump's start is
`Start`, a completion `Finish` or, after a reset, `FinishLate`; `Service!Start` needs the
entry to be the first of the line and the number of places below the limit, and both are
what the pump has just tested. Every other step of the call stack changes nothing the
service shows.

### Followup queue

The conditions of the properties ("unless ... while a drain was away") are the conditions
of the invariant. Nothing is known of a drain after its key was cleared. As long as it was
not,

* `DrainIsMapped`: only the key's own object is drained, so that there is one drain;
* `HoldsLatest`: the queue holds the latest of the accepted messages, in their order, none
  of them delivered; so whatever has been delivered came earlier (`NoOvertaking`);
* `BatchIsEarlier`: the batch a drain is away with is a stretch of the accepted messages
  that begins no later than the queue does; hence the removal of as many messages from
  the front of the live queue keeps `HoldsLatest`, even if it is not the batch that is
  removed.

If nothing overflowed and no summary was sent either, `QueueHolds` and `BatchIsFront` say
that the batch is the front of the queue and that all who wait are in it: then the removal
is that of the batch, and nothing is lost. The run `followup_queue_loss` shows that
`BatchIsFront` is exactly what an overflow breaks.

### Write lock

`LockInv` ties together what four places know of one lock: the caller's handle, the
process's table, the release under way and the file. `KnownAtHome` says that a handle
is known in the process that made it only, and never while it is being closed;
`CalmIsOwned` that in calm whoever creates, holds or closes a lock has its own file at the
path. There is one file, hence one owner, which gives the exclusion of processes; inside
a process all callers share the handle in the table (`UndisturbedIsCurrent`), and its count
is theirs (`CountsReferences`, with `FiniteSetTheorems` for the cardinalities). Stale
files need a disturbance (`CalmIsFresh`), so that in calm nobody reclaims one. The
action property follows from `CalmIsOwned` in the state before the release.

### Cron

`CronInv == Types /\ Undisturbed /\ ServiceInv`. The file and every copy of it is a good
store: a job that is not enabled has no slot, and a one-shot that has succeeded has one
only if it was moved past that run (`JobOK`). As long as the user touches nothing, every
recurring job that failed waits for the end of its back-off, in every copy
(`Undisturbed`). `ServiceInv` relates the file, the memories, the runs and the wishes:

* `FreshMemories`: what a service that missed no write knows. Not that its memory is the
  file: a manual run tends the memory and may save nothing. It has the
  same jobs, enabled alike, every slot of the file and perhaps one where the file has none,
  the marker of every job at work, and no marker that the file has not, unless the job is
  in the batch of its tick.
* `Wishes`: the file honours what the user asked for last, and a job nobody has asked
  for is not at work.
* `Guarded`: a job at work has its marker in the file and one run, unless the marker was
  taken off; this is what makes every section that picks jobs pass it by, whichever
  service the section is of. `Marked` is the converse: a marker has a run.
* `KnownByHand`: a job run by hand is still in the memory of the service that runs it,
  where the result is applied and from where it is merged into the file.

A section is one step, and what it leaves is computed by the operators of the model. The
lemmas about these (`MaintainedStore`, `RecomputedStore`, `WithResultJob`, `MergedStore`,
`AppliedStore` and others) say what each does to a job; `SectionKeeps` reduces a section that
writes to `WritesFairly`, four facts about the store it leaves, `QuietKeeps` a step that
writes nothing, and `EditKeeps` an edit. The user's edits may come between any two sections:
the merge of a manual run (`MergedStore`) and the results of a batch (`AppliedStore`) are
where the wishes are at stake.

`SlotsAreKept` follows step by step from `Guarded` and the lemmas: upkeep moves a slot
that is due only if the job was executed since, a result moves it past the run, and a full recomputation happens
in `FinishStart` only, besides the user's edits. `ChosenMayRun` follows from `JobOK` and
`Undisturbed` of the store that is picked from; the rules of a tick and those of a
start-up (`DueMayRun`, `MissedMayRun`) are different ones, and both are needed.

The proof found a gap of the model: with `StuckAfter` 2 no run in the instance lasted long
enough for `cron.run` to take its marker off in memory and set it anew, which
`MarkersMatchRuns` has to except. The run now has `StuckAfter` 1.

### Runs

`Chains` says where every run stands: it holds exactly the places of its chain from the
lowest that it has not given back up to `level`, each in its lane or from before a
restart, and waits in one line at most, for the next place (`Stands`, `HasItsPlaces`,
`LinesUp`, `OnePlace`). Two turns of a session would both hold the session's place, and
the session's lane has one. Who is over has given back what it took (`NothingLeftBehind`). The
registry's part needs `Aims` besides itself: the turn in an entry and the turn a reset
aborted are of that session, and the number of attempts does not fall. The lanes are
`LaneService`'s actions; that `CommandQueue` implements these is the theorem above.

### Channels

While the starts do not overlap, `OneInstance` says which instance the store, the status
and the chains of promises mean, and `StopsTheInstance` that every stop under way waits
for that one and has aborted it. `StoppedForGood` is the strengthening of
`StoppedStaysDown` to the middle of a stop: it is marked as stopped by hand, nobody is about to start,
and what still runs is being stopped. A stop that failed awaits nothing any more, so that
what it leaves is an instance whose signal is aborted, while the mark keeps everybody from
restarting it.

### Subagents

A restart reads back the file, and the file is written at some of the steps only; so
`RegistryInv` is about a record and its copy together. `Good` says of each run: when its
announcement has begun, record and copy both know it (`Begun`: ended, marked as handled, and
not under the mark of a kill, which a late completion would lift); what was delivered is
begun in both and past its delivery; what was told is marked as told in both; a run in the
hook of its cleanup is not told yet. So nothing brings the cleanup on a second time: not
`resumeSubagentRun`, whose guards `ResumeIs` sums up as four things that may happen to a
record, not a completion (`CompletedIsGood`), not a restored file (`RestoredIsGood`).
That a killed run was never announced, and that a run whose tries are used up is handled
or settled, are what `Sound` adds. For the hooks the record is not enough, because
three places emit them: `GoodCompletions` says that the completion in the hook is the only
one, with no cleanup in the hook beside it, which is what `endedHookInFlightRunIds` is for.
`GoodLaunches` keeps runs that nobody has recorded without a trace.

`SteeredSaysNothing` follows from `GoodSteers`: as long as nobody lifts it, the run of a
steer keeps its mark and nothing is under way for it; and only the delivery of an
announcement delivers (`WhoDelivers`). A second steer of the same run needs to be remembered
(the last conjunct), since the failure of the first lifts the mark under it.

Steps that resume several runs at once (timers, the end of another cleanup, a failed
steer, a restart) are reduced by `ResumingKeeps` to the records they start from.

`ChildrenFirst` needs an invariant of its own, `TreeInv`. `runSubagentAnnounceFlow` looks
below the run once, before it awaits the history and the delivery; `NothingBelow` says
that what it saw stays true until the result goes out. A look reads a snapshot, in which
the file stands for runs that are not in memory, hence `GoodFile`: the copy has the session
of its run, knows of no end that the record does not know, and of the end of a cleanup as
soon as the record does; and no cleanup ends while the session may still be woken. Nothing settled comes back: only runs with completion messages are resumed
by timers, so that none of the others is given up for its age (`GoodTimers`), a run that is
steered is not settled (`UnsettledSteers`), and a launch that replaces a run is aimed at
the session of that run (`GoodAims`). What a session leads to (`LedTo`) is the least closed
set that holds it: `LedToCloses` and `LedToIsLeast` are all that is used of it, so the proof
is for trees of any depth. All steps but `Recorded` are `Mild`: they add no record, and
bring no settled run back; what was not pending below stays so (`ResumingTree` for steps
that resume several). In `RecordedTree` a new record stands for one that was pending
already, or it was `Unforeseen`, and then the run that spawned it is remembered as late.

The proof corrected the property. With two levels below a run, a descendant that spawns
late, or that is swept while it is being steered and then replaced, is pending again below
a run that has looked; an exception for the run itself and what is `Below` it at that moment
did not cover these. The exceptions are now those of the runs of all the sessions
that its session leads to, and `Unforeseen` covers the swept run.

### Replies

`Counts` is the bookkeeping behind a dispatcher's pending count: the sends under way,
and one for the replies still to come, which is given back when the dispatcher is marked
complete. `Streams` says what an orderly reply can have left in its pipeline at each stage. A
restart looks at counts and at runs; by `Counts` and `Streams` a reply that both let
pass has either not begun or is delivered. `StepsAreGood` reduces the step to one record
per reply, one lemma per action.

`HeardAsSaid` speaks of the end; `HearInv` says the same of every moment, by following what
was said to where it is. What the channel is `Given` is heard or on the dispatcher's chain;
a pipeline's `Line` is its chain of blocks followed by the coalescer's buffer. As long as
the stream goes on (`InStream`), the texts of `Given` followed by those of `Line` are the
texts that were said (`TextsFlow`), no media is given or on the chain twice (`MediaFlow`),
and everything said has been seen by the pipeline or is still being looked up (`Reached`).
`Sifted` and `Placed` say what the pipeline does with what it has seen: each piece is in one
place, sent, on the chain, in the buffer or held (unless a block was lost), and so `seenKeys`
and `sentKeys` never suppress what was not sent. `ToolsKept` follows the results of tools, `AnswerKept` the final
payloads without streaming. `FinalKept` is for blocks that time out or are lost: what of the final answer can be read
(`Readable`) and is not given by then is in the final payloads, on the chain or still being looked
up, unless a lost block is `Missed`.
`Over` says that the last flush leaves nothing in the buffer, and nothing held unless media
comes late; hence, when the reply is `Quiet`, `Given` is what was heard and nothing else is
left.

The pipeline's operators are shown once to `Move` texts and media on and to keep `Sifted`;
a lemma per action then puts them together (`AllTold`). All this is about sequences of any
length, filtered (`Without`), joined (`Flat`) and extended: both are recursive functions, of
which induction over a set of numbers (`SetInduction`) or of sequences (`SeqInduction`)
shows that they distribute over concatenation.

### Model-checked only

* Liveness under fairness (`QueuedEventuallyLeaves`, the fair part of `ImplementsService`,
  `WaitingEnds`, `AcquireEnds`, `EveryRunEnds`, `ComesBack`, `DueJobsRun`, `CleanupEnds`,
  `RestartHappens`): out of the prover's reach, as is `ENABLED`.

## 5. Plan

1. *Done*: lanes and their abstract service, followup queue, write lock, runs on
   top of the lanes, cron service, channel manager with the health monitor, subagent
   registry, the delivery of replies with the restart that waits for it; the first theorems.
2. *Done*: the safety properties of the lanes with the refinement of `LaneService`, of the
   followup queue, the write lock, the cron service, the runs, the channels and the subagents,
   and the reply delivery with the restart (section 4): every invariant of every passing
   run, and every action property; only
   liveness is left to TLC.
3. Components, if runs are traded for them: `ExecApprovals`; `AgentWait` (events, cache,
   error grace); `DraftStream`, `Typing`, `InboundDebounce`; `ProcessSupervisor`,
   `AcpActorQueue`, `PairingStore`, `NodeRegistry`; pure functions: auth cooldown windows,
   rate limit window.

The project keeps a dozen runs: every component gets one passing run that checks its
safety and its liveness together, and a violation run only where the repository itself
says otherwise.

## 6. Not modelled

Formatting, logging and diagnostics; the conversation of an attempt with a model
(prompts, tools, transcripts, compaction), of which only registration, abort,
timeout, end and retry matter to the rest; `onWait` callbacks and warnings of the
lanes; steering a message into a running turn; of the channels the plugins
themselves, of the cron service what a job does, alerts and expressions that cannot be
computed; of the subagents runs of mode "session", the context engine's notices, the
refreshed frozen text, the announce queue between the flow and the delivery, and a
registry file that cannot be written; of the replies typing, notices about usage,
duplicates of what a messaging tool has sent, replies routed to another channel,
payloads that normalisation empties, and a text with its media in one payload (it is two
pieces, so that a file that cannot be read leaves a payload with nothing to show); of the
channels errors of another account of the same channel, which end a call for all accounts
together, and snapshots that cannot be taken; the retry of a run with another
model (`runWithModelFallback`); the wall clock, except as the order in which
timers may fire. User interfaces, protocol adapters, the memory index and the
Python package keep no state that other parts coordinate on. The components of
the table that have no module yet are listed in `PROJECT.json` with the reason.

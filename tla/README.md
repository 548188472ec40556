# A TLA+ model of the gateway core

OpenClaw (here in the GoonClaw fork) is a long-running *gateway* process that takes messages
from messaging channels, runs an agent for each of them and sends the answers back. Nearly all
of it runs on one JavaScript thread, so nothing is preempted; what makes it hard is that every
`await` lets anything else run, that callbacks run synchronously inside the loops that call
them, that the process restarts *in place* while work is under way, and that it may die between
any two file operations. This project models the parts that carry those risks, checks them with
TLC and proves the central invariants with TLAPS.

Paths below are relative to the repository root (`src/` is the repository's own source tree).

## 1. Inventory

### Parts that are modelled

| component | state | operations | interacts with |
|---|---|---|---|
| Command queue, `src/process/command-queue.ts` | per lane: queue, active task ids, limit, `draining` flag, generation; global: drain flag, waiters | enqueue, pump, completion, resize, clear, mark draining, reset, wait for active tasks | every agent run; the run loop |
| Agent run lanes, `src/agents/pi-embedded-runner/` (`run.ts`, `lanes.ts`), cron's manual runs | the nesting of session, global and cron entries | start a run, abort it while it waits, clear a session's lane | command queue (calls it from inside its pump) |
| Gateway run loop, `src/cli/gateway-cli/run-loop.ts`, restart requests in `src/infra/restart.ts` and `src/gateway/server-reload-handlers.ts` | server, lock, `restartResolver`, `shuttingDown`, restart timer, deferral polls | start, SIGUSR1, SIGTERM/SIGINT, drain, close, lock hand-over, schedule/defer/emit a restart | command queue (drain flag, reset), other gateway processes through the lock file |
| Followup queue, `src/auto-reply/reply/queue/`, `src/utils/queue-helpers.ts` | the registry of queue objects: items, mode, drop policy, dropped count, summary lines, `draining`; recent message ids | enqueue, drop policy, drain (singly, collected), failure, clear | reply runs (a followup waits until none is active) |
| Outbound delivery queue, `src/infra/outbound/delivery-queue-*.ts`, `deliver.ts` | entry files with a retry count, `.delivered` markers, `failed/`, claims, drains in progress | write-ahead, send, two-phase acknowledgement, fail, give up, startup recovery, reconnect drain | channels, the file system, crashes |
| Heartbeat wake, `src/infra/heartbeat-wake.ts`, the runner of `heartbeat-runner.ts` | handler and its generation, pending wakes per target, the one timer, `running`; per runner its interval timer and `stopped` | request a wake, fire, serve, turn away, throw, register, dispose, interval, config update | the run loop (a restart registers a new runner), busy lanes (a wake is turned away and retried) |
| Cron service, `src/cron/service/` (`ops.ts`, `timer.ts`, `jobs.ts`, `store.ts`, `locked.ts`) | jobs in memory and in two files, running markers, the timer, batches of due jobs | start with catch-up, tick, manual run, add, update, remove, list, crash, reload | the command queue's cron lane, the gateway's reload, the file system |
| Inbound debounce, `src/auto-reply/inbound-debounce.ts` | buffers per key with their timer, a chain of tasks per key | enqueue debounced or not, timer, forced flush, task start and end | channels, the reply pipeline |
| Session write lock, `src/agents/session-write-lock.ts` | the lock file; per process a hold with a count, its watchdog | acquire, share, release, reclaim, force by watchdog or signal, crash, restart | every writer of a transcript in every process of the host |

What makes each correct:

* **Command queue**: no entry waits while its lane has a free slot, slots are neither leaked nor
  freed twice, FIFO order, a drain wait neither lies nor hangs.
* **Agent run lanes**: one run per session; no caller is answered while its run goes on; entries
  that hold a slot while waiting for another one never wait in a circle.
* **Run loop**: a requested restart happens, a requested stop happens, a gateway that serves
  holds the lock, the window in which work is refused closes again.
* **Followup queue**: a message that was accepted is run once, in order, on its own route and
  with its own sender's authorisation, or is reported as dropped; nothing lies in a queue nobody
  drains; what was cleared does not run.
* **Delivery queue**: what was written is never lost, sent twice only if the process died in
  between, given up after a bounded number of attempts.
* **Heartbeat wake**: a wake that was asked for is served, however wakes coalesce and handlers
  fail or change; batches do not overlap but by a replacement; heartbeats never stop for good.
* **Cron service**: a job runs at most once at a time, a marker belongs to a run, no slot is
  skipped, a finished one-shot stays finished, the timer is set while there are jobs.
* **Inbound debounce**: per key, messages are flushed in the order of arrival, each once, and
  every one in the end.
* **Session write lock**: one holder at a time, no lock that nobody holds blocks the others, and
  a caller gets in or is told that it did not.

### Parts that are not modelled

`PROJECT.json` lists every part with its reason. Parts with a protocol of their own that a further
module could take up are named in section 3. Left out for good: protocol handlers, configuration,
plugins, channels, model providers, user interfaces, media (I/O, text and data transformation
without a protocol of their own); they are most of the repository's lines.

### What is hard

Re-entrancy (a task's synchronous part runs inside the pump that starts it); values read before
an `await` and used after it (`server`, `lock`, queue snapshots, `isActive`); registries whose
object is replaced while its old user goes on; a flag shared by the batches of two handlers;
timeouts that let the next phase begin while the previous one is still running; read-modify-write
of files by several drains; a copy in memory written back over what another writer saved; lock
files judged and removed in two steps; crashes between a send and its record, and between two
writes that belong together. The list `hazards` in `PROJECT.json` gives the line of each.

## 2. Modules

| module | role |
|---|---|
| `CommandQueue` | the queue, with the JavaScript call stack |
| `LaneContract` | what the queue promises its callers, without stack, guard and generations |
| `AgentRunLanes` | agent runs, an instance of `CommandQueue` with nested entries |
| `GatewayRunLoop` | run loop, signal handler, restart requests, lock |
| `GatewayDraining` | the flag the run loop raises and the queue obeys, declared once for both |
| `FollowupQueue` | queue objects, their drains and clears |
| `DeliveryQueue` | files, workers, drains, crashes |
| `HeartbeatWake` | the wake layer and the runners with their interval timers |
| `CronService` | jobs in memory and on disk, ticks, catch-up, manual runs, edits, reloads |
| `InboundDebounce` | buffers and chains of tasks per key |
| `InboundContract` | what the debouncer promises a channel: batches per key in the order of arrival |
| `SessionWriteLock` | the lock file, its holders in several processes, reclaiming |
| `MCCommandQueue`, `MCAgentRunLanes`, `MCFollowupQueue`, `MCSessionWriteLock` | instances for TLC; the other modules are instantiated by their `.cfg` alone |
| `CommandQueueProofs`, `RestartProofs` (agent runs and run loop), `FollowupQueueProofs`, `DeliveryQueueProofs`, `HeartbeatWakeProofs`, `CronServiceProofs`, `InboundDebounceProofs`, `SessionWriteLockProofs` | inductive invariants and theorems (section 5) |

### CommandQueue

The state of the code is kept as it is (queue, `activeTaskIds`, `maxConcurrent`, `draining`,
`generation`, `gatewayDraining`). Because `entry.task()` is called inside the pump loop and may
call back into the module, the model also has the call stack: one frame per `pump()` in
progress, and the rest of `resetAllLanes`, which calls `drainLane` in a loop. A user step inside
a task body happens on the innermost frame; steps of the event loop (completions, timers) only
on an empty stack. A task may enqueue to any lane, throw synchronously, or go on
asynchronously. A command is also its task id, since an entry is started at most once.
`ImplementsContract` maps `CommandQueue` to `LaneContract`, where an entry starts in one step as
soon as there is a slot, with the fairness of that step.

### AgentRunLanes

`runEmbeddedPiAgent` enqueues to the session's lane a task that enqueues to a global lane and
waits; a manual cron run holds the cron lane around both. Entries are pairs of level and run,
their bodies are fixed by the code, and everything else is `CommandQueue`'s own actions through
`INSTANCE`, so a change to the queue's model is a change to this one. The restart's drain with
its timeout and `resetAllLanes` are actions too.

### GatewayRunLoop

One program counter for the loop (starting, waiting, releasing the lock) and one for the signal
handler (draining, closing, reacquiring), with the variables they share. Restart requests come
from the coalescing timer, from deferral polls and from the config watcher; an emission cancels
the others, as in `emitGatewayRestart`, and runs the handler at once. `restartOwed` and
`lockGivenUp` are history variables. Respawn by a supervisor is an exit.

### FollowupQueue

A drain keeps its queue *object*, while the registry may hold another one after a clear; objects
are therefore values of their own. The code between two `await`s is one action: the check of an
empty queue, the debounce, the cross-channel check, the snapshot, each turn and what follows it.
The finally clause deletes or reschedules by key, as in the code. `accepted`, `delivered`
and `reported` are history.

### DeliveryQueue

Live deliveries, the two drains and the deferrals of a startup drain that ran out of time are
workers; each file operation is a step of its own (`rename`, `unlink`, the read and the write of
`failDelivery`). `loadPendingDelivery`'s answer and the decision taken on it form one step,
since no other `await` lies between. A crash resets all memory and keeps the files. A message is
sent as a whole or not; partial failure under `bestEffort` is an outcome of its own. A reconnect
drain selects any subset of the entries (`selectEntry` is the channel's); backoff is a
nondeterministic "not yet due" for an entry that was tried before.

### HeartbeatWake

`pendingWakes` maps a target (a session, or `Any` for "all agents that are due") to the priority
of the wake it owes, since a second request only ever raises the priority. There is one timer
with its kind, the ticks left and the delay it was set with, because `schedule` compares them. A
batch is the snapshot a firing timer hands to the handler, with the wake being served and those
still to be handed over: the handler may serve a wake, turn it away (lanes busy: it is requested
again with the retry delay) or throw, which puts the *whole* batch back. `running` is one flag,
and a new handler lowers it while an old batch is under way, so a batch has a slot of its own. A
runner arms its interval timer when it is started, updated or has served the wake for all
agents. `owed`, `cooling` and `switchedOff` are history: a wake that was asked for, a retry
cooldown that is running, heartbeats that were disabled.

### CronService

Each service object of the process has its own copy of the jobs (`mem`); `disk` is what a reload
reads, `writing` the moment between the state file and the config file, in which a crash leaves
the two files at odds. A section under `locked` is one action. What happens between two sections
is a batch per service: the catch-up of `start` ("boot") and the `tick`, with the jobs still to
be run, the one running and the outcomes to be applied; `FinishStart`, `ApplyOutcomes` and the
rearming `finally` are steps. A manual run is prepared, runs in the cron lane (`CommandQueue`'s
business) and is finished. `running` in a record is the persisted marker. A job's run has a
result that `applyJobResult` turns into `next`, errors, a disabled or a deleted job. A reload
stops the timer of one service only and starts another.

### InboundDebounce and InboundContract

A key's chain holds tasks in their order: a buffer's slot (open while the buffer still takes
items), a slot reserved behind it, and a task that is ready at once. Items are numbered as they
arrive; a batch is a set of them. `InboundContract` has no chains, timers or slots: items wait
per key and a flush takes those that waited longest. `waiting` of the contract is `Waiting(k)`,
the items of the tasks that have not begun.

### SessionWriteLock

The file has the number of its creation, the process and life that created it, whether its
owner's record is already written, and an age that saturates when the file is stale. A caller
tries to join the hold of its own process or to create the file, writes the record in a second
step, holds, and removes the file in a last one; whoever finds a file in its way judges it
(`ReclaimReason`) and then removes what lies at the path, whatever it has become. Watchdog and
exit handlers take a hold away from callers that go on. `foul` and `forced` are history: why a
file of a live process was taken, and that a hold was forced.

## 3. Plan

Done, in this order: command queue, its contract and proofs; agent runs on top of it; run loop;
followup queue; delivery queue; heartbeat wake; cron service; inbound debounce with its contract;
session write lock; and the proofs of section 5. A next module would be, in the order of what it
would add:

1. `ReplyRuns` composed with `FollowupQueue` (now a reply is an environment action);
   `SubagentRegistry` with its announce queue, which shares `queue-helpers.ts`.
2. The gateway lock on the pattern of `SessionWriteLock`, then used by `GatewayRunLoop` in place
   of its abstract lock; the plugin SDK's file lock.
3. `TaskRegistry`, `ExecApprovals`, `AuthRateLimit`, pairing stores, node registry, agent wait.
4. A composition of `GatewayRunLoop` with `AgentRunLanes` (the loop's drain being the queue's
   waiter), where now each has the other's part as an action of its own; the refinement of a
   per-session contract by `AgentRunLanes`.

## 4. Runs

Bounds are in the named `.cfg`.

| run | shows | bounds and why they are enough |
|---|---|---|
| `command_queue` | no work stranded, slots exact, no drain waiter forgotten, every accepted command settles, `LaneContract` with its fairness implemented, under re-entrant enqueues, throws, resizes, clears, drain waits and a reset | 2 lanes, 3 commands, 1 waiter, 1 reset, requested limits 0 and 2: two commands compete in a lane while a third re-enters from the other, and a task of the old generation meets the new one. `MCInit` keeps one of each way to spread the commands over the lanes that a renaming makes equal (no symmetry set, because of liveness) |
| `agent_run_lanes` | runs of a session overlap only after a drain that timed out, no answer before the run's end, no circular wait | a main run and a cron job's run of one session, one restart |
| `gateway_restart` | every restart requested while the loop waits is honoured; the drain window closes; a gateway that serves holds the lock unless it gave it up after a failed start | no bound: the state space is finite. `EventsOutsideWait = FALSE`, see below |
| `followup_queue` | nothing lost, run in order of arrival, every message settles | 3 messages (two senders, two destinations), cap 2, one failing turn, two replies outside the drain, drop policy `new` |
| `followup_overflow` | no message is run twice, no backlog is left idle | 4 messages, the dropping policies in both modes, one clear, one failure, three objects: a third queue object may be registered while the drains of two others go on |
| `delivery_queue` | a persisted message is never lost | one entry; a live delivery, startup recovery with its deferrals, two reconnects and two crashes all contend for it, the transcript mirror may fail |
| `delivery_recovery` | claims are exact, duplicates only by a crash, retries bounded, nothing acknowledged is replayed | two entries (one `bestEffort`), two reconnects overlapping startup recovery, one crash, `MAX_RETRIES` lowered to 2 |
| `heartbeat_wake` | no wake lost, batches overlap only by a replacement, the newest handler stays, heartbeats go on, the retry cooldown is kept, every wake is answered | two targets, two runners, one request beside the interval's, coalescing delay 0 and retry delay 1: the code only compares the delays, so their order is what counts |
| `cron_service` | no two runs of a job, no marker without a run, the timer is set while there are jobs, a finished one-shot is not taken up again, no slot is skipped | a one-shot deleted after its run and a recurring job; two services; two edits, manual runs or crashes or one reload; two instants; one retry, one missed job per restart. `BusyReloads = FALSE`, see below |
| `inbound_debounce` | no slot is stuck, chains are in order, the contract with its fairness is implemented | five items on three keys with room for two, so that an item may find no room to be tracked, and keys are flushed while others wait |
| `session_write_lock` | the holder's file is on the disk, writers exclude each other, no lock is left behind, every caller gets in or gives up | two processes, three callers, two of them in one process and one of these exclusive; one failure; with and without start times; stale and too long at once (ages saturate, so a longer wait adds nothing) |

`delivery_recovery` assumes that no live delivery is under way while a drain runs and that
recovery stays within its budget. Both assumptions are needed: live deliveries do not claim
their entry, so a drain that starts during one sends it a second time, and a deferral can bring
an acknowledged entry back (below). `delivery_queue` makes neither assumption.

`session_write_lock` states exclusion up to what the code itself gives up: a file judged stale
and removed although its owner lives (`foul`), and a hold that the watchdog or a signal let go
under its callers (`forced`). The property says that nothing else breaks it.

`CHECK_DEADLOCK FALSE` is set where the system may come to rest: a delivery queue with nothing
pending, cron jobs at the end of the clock, no more items or callers.

### Disagreements between the code and what is written about it

`agent_run_lanes_overlap` is expected to be violated: `docs/concepts/queue.md` promises one run
per session; after a restart whose drain timed out, a session's lane is freed while its old
inner entry is still queued, and two runs of one session are under way at once. `findings` in
`PROJECT.json` quotes the line.

The models contain further behaviours a maintainer may want to know of. They are why some
properties are stated or checked under a condition:

* run loop: a restart requested while `start()` is awaited is lost, and the server that then
  comes up refuses work (run with `EventsOutsideWait = TRUE`); a failed in-process start gives up
  the lock and the next successful restart serves without it (`ServingHoldsLock` therefore
  excludes `lockGivenUp`); SIGTERM during an in-process restart is ignored and the process goes on;
* followup queue: the drain of a cleared queue object deletes its successor from the registry
  (`NothingLost` is checked without clears); under `summarize` in mode followup the summary is
  run in place of the oldest message, which is then removed unrun, and under `summarize` and
  `old` a drop of the item in flight makes the end of its turn remove another one (`NothingLost`
  is checked with the policy `new`); an empty queue with a dropped count reschedules its drain
  for ever; after a clear the old drain goes on beside the new one, with the batches of its
  snapshot, and while a drain of a cleared queue goes on the registered queue may wait without one
  (`NoIdleBacklog` therefore speaks of the time after it; it takes a clear and four messages);
  a message for another destination that arrives between the check and the snapshot joins the
  batch;
* delivery queue: a `bestEffort` message a payload of which failed is acknowledged when its caller
  gave no `onError`, and always in recovery (`WrittenNotLost` therefore excludes `bestEffort`); a
  deferral writes back an entry that another drain has acknowledged meanwhile
  (`NoReplayAfterAck` is therefore checked within the budget); a crash after the send and before
  the rename replays the message (`DuplicatesOnlyByCrash` counts crashes);
* heartbeat wake: a handler that throws for one wake has the whole batch served again; the end of
  an old batch lowers the flag of the new one, so that a further batch may begin;
  the comment of the runner's finally clause says that the timer is always re-armed, but a run
  that finds heartbeats disabled returns before it (`HeartbeatsGoOn` excludes `switchedOff`);
* cron service: a one-shot interrupted by a crash is not run by the catch-up, as the comment at
  `ops.ts:106` says, but by the first tick after it; a reload while the old service is at work
  leaves two schedulers, and the older copy in memory overwrites markers of the newer one
  (`solo`, `BusyReloads`); a one-shot that is kept after its success can be run once more: the
  catch-up defers it, it is run by hand and thereby disabled, an edit enables it again, and
  `applyStartupCatchupOutcomes` (`timer.ts:1101`) sets its next run without a look at its status
  (`FinishedStaysFinished` is checked and proved for deletion after success, the default, see
  `normalize.ts:567`); a crash between the two writes of an edit leaves the new slot with the
  old time, to which a later repair moves it back (`SlotsNotSkipped` lets a slot
  go back to the job's own time);
* session write lock: on a platform without start times, a process may take its own file for an
  orphan of its predecessor while a caller is still writing or removing it; a watchdog that
  stops with the last hold is not started again for a caller that was waiting by then.

### Fairness

* `CommandQueue`, `AgentRunLanes`: the queue's own synchronous code runs on once entered (weak);
  a running task settles (strong, because it can only settle on an empty stack, which re-entrant
  steps keep leaving): every agent run has a timeout. Nothing is assumed about enqueues, clears,
  resizes or restarts.
* `GatewayRunLoop`: `start()` settles, drain and close are bounded by their timeouts, timers
  fire, a deferral poll ends at its maximum wait. Nothing is assumed about signals, the lock's
  other users or outcomes.
* `FollowupQueue`: turns end (timeouts), debounce timers fire, settled promises are continued.
* `HeartbeatWake`: time goes on and timers fire (weak); the handler serves the wake of each
  target if it is handed over again and again (strong): lanes are busy or a turn throws at times,
  not for ever. Nothing is assumed about requests, configs or restarts.
* `InboundDebounce`: buffer timers fire, tasks begin, flushes end (weak).
* `SessionWriteLock`: callers go on (they poll, and release what they hold), file operations end,
  time goes on (weak). A crash, a signal or the caller's own timeout is never assumed.
* `DeliveryQueue`, `CronService`: safety only, no fairness.

## 5. Proofs

All hold for any values of the constants that satisfy the named assumptions, in particular for
any number of lanes, commands, messages, runners, keys, processes, crashes and restarts.

`CommandQueueProofs`, from `ConstantsAssumption` alone: `TypeCorrect`, `WorkConserving`
(`NoStrandedWork`), `SlotsExact` (`ActiveExact`), `DrainReportSound` (`DrainedIsDrained`, which no
run checks), `WaitersRemembered` (`NoForgottenWaiter`). `NoStrandedWork` speaks of an empty stack
and is not inductive: the argument must say why an entry that could start *now* is safe *later*.
`IInv` adds `PumpCovers` (the guard `draining` is up only while a frame of that lane is on the
stack, and a lane with startable work has such a frame or is still to be drained by
`resetAllLanes`), `QueueOK` (waiting entries are distinct and in the state "queued"), `FramesOK`
(a frame inside a task body is inside a running task, one frame per task), `GenOK` (no task
task carries a future generation, so a forgotten task cannot free a slot of its successor) and
`WaitersOK` (outside a reset, a waiter still waits for an occupied slot). `ContractImplemented`
is the refinement of `LaneContract!SafeSpec`: by `QueueOK` the head that the pump takes is the
oldest accepted command of its lane, a completion of an old generation stutters, and a reset is
the contract's.

`RestartProofs`, first part, about `AgentRunLanes`: `RunsUseTheQueue` says that agent runs and
restarts do to the queue only what its callers may, so that the invariant of `CommandQueueProofs`
(an instance of that module, `P`) holds of their lanes. `NoRunForgotten` (`NoOrphanRun`) and
`SessionsRunAlone` (`OverlapOnlyAfterTimeout`) follow from `RunsOK`: a session's lane keeps one slot
(`OneSlot`); a task body on the stack belongs to the current generation (`BodyOK`), so a run is
submitted only by an entry that holds its session's slot; while a restart waits no run is
submitted, and the drain waits for the session entries of those that are live (`WaitedFor`), so
that a reset after "drained" frees no slot of a live run. As long as no drain timed out, two live
runs of a session would hold its one slot. The assumptions are those of the queue and that there
are finitely many restarts.

Second part, about `GatewayRunLoop` (`GatewaySpec`), for events that come while the loop waits:
`LoopTypeCorrect`, `DrainEnds` (`DrainWindowCloses`), `NoServerLost` (`NoOrphanServer`, which no
run checks) and `LockHeldWhileServing` (`ServingHoldsLock`). The invariant says that loop and
handler take turns (`TurnsOK`), that whatever listens is what the handler will close or has closed
(`ServerOK`), that the queue refuses work only while the handler is at work (`DrainOK`), and that
the lock is held but between its release and its reacquisition (`LockOK`). The assumption is where
the code needs it: a signal handled during `start()` breaks `TurnsOK`, and with it the rest.

`FollowupQueueProofs`: `BacklogsAreDrained` (`NoIdleBacklog`) and `DrainingIsExact`, for any number
of clears. `NoIdleBacklog` is inductive once the flag `draining` is known to be up exactly while
a drain works on its object: whatever ends a turn goes on with its object, schedules what is
registered by then or empties the registry, and an enqueue that starts no drain has an active
turn to rely on. `NoTurnTwice` (`DeliveredOnce`) rests on `OnceOK`: what queue objects and the
batches of their drains hold was accepted, has not been run, is held once, and no two objects
hold the same message, since a message is put into the registered object only and a turn removes
what it has run. `NoMessageLost` (`NothingLost`) and `TurnsInOrder` (`DeliveredInOrder`) have the
hypothesis `Keeping`, the run's own restriction: drop policy `new` and no clears (section 4 says
what the others lose). Then `LedgerOK` holds: what was accepted is what was delivered followed by
the backlog of the registered object, in this order. `GroupLength` is written with a least
number, so that a group is a prefix of the backlog by the properties of a minimum.

`DeliveryQueueProofs`, with live deliveries during drains, deferrals and failing mirrors allowed:
`TypeCorrect`, `NothingWrittenIsLost` (`WrittenNotLost`), `DrainsKeepApart` (`ClaimsExact`).
`WrittenNotLost` needs `AckJustified` (a worker about to acknowledge has sent its entry, was
aborted, or was told to do its best only), and that in turn needs to know which entry a worker
is on, part of `TypeOK`. `ClaimsExact` is inductive together with `TypeOK`.

The second part of the module holds under the conditions of the run `delivery_recovery` (no live
delivery beside a drain, recovery within its budget, no failing mirror) and with a positive limit:
`DuplicatesOnlyThroughCrashes` (`DuplicatesOnlyByCrash`), `AttemptsBounded` (`RetriesBounded`),
`AcknowledgedForGood` (`NoReplayAfterAck`), `GivenUpForGood` (`FailedIsFinal`, which no run
checks). With `Quiet` (drains and live deliveries keep apart) and `ClaimsExact`, two workers are
never busy with one entry (`Sole`); so a file that was loaded stays until its worker changes it
(`FilesOK`), and the books of an entry balance (`LedgerOK`): while its file is there, each
complete send but the one being acknowledged, and each attempt that the file does not count, was
cut off by a crash.

`HeartbeatWakeProofs`: `NothingLost` (`WakesNotLost`), `NothingForgotten` (`NoWakeForgotten`),
`OverlapBounded` (`OverlapOnlyByReplacement`), `NewestRegistered` (`NewestHandlerStays`),
`IntervalsContinue` (`HeartbeatsGoOn`), `CooldownKept` (`RetryCooldownKept`), `TypeCorrect`. The
inductive invariant is their conjunction with the order in which runners are started
(`StartedOK`), the handler's being the newest runner's or none (`HandlerOK`), the link between a
batch and the wakes it was begun with (`BatchOK`, which makes a throw put back something), and
`OffOK`. Timers and pending wakes are changed by few operators, each with a lemma of its own.

`CronServiceProofs`: `JobsRunOnce` (`OneRunPerJob`), `MarkersBelongToRuns` (`MarkersHaveRuns`),
`TimerStaysSet` (`SchedulerAlive`), `FinishedForGood` (`FinishedStaysFinished`), `SlotsStay`
(`SlotsNotSkipped`), for any jobs, services, events and stuck limit and with reloads at any
moment (`BusyReloads` of either value). `SchedulerAlive` holds whatever was reloaded; of the
invariant `IInv`, the rest is stated as long as `solo` holds. There `Quiet` says that only the
service in charge is at work, `Books` that a marker in memory or on disk has its run or belongs
to a service that has yet to load the store, and `Once` that a job has at most one of: a place in
a batch, a manual run prepared or going on. The steps are reduced to what the sections have in
common: reload, repair, change of one job, write. `FinishedForGood` has the hypothesis
`OneShots = DeleteAfterRun`, and with it `OverOK`: a job that is over is gone from memory, and
from the disk or its deletion is the write under way. `SlotsStay` has none; it needs that
memory and disk agree about slots (`Agree`) and that no slot of a recurring job lies before its
last run (`Past`), so that a repair which finds an expired slot not after the last run has the
run as its reason.

`InboundDebounceProofs`: `KeyOrder` (`ChainInOrder`), `SlotsBecomeReady` (`NoStuckSlot`),
`BufferIsLast` (`OpenIsLast`), `TypeCorrect`, and `ContractKept`, the refinement: every behaviour
of the debouncer is one of `InboundContract`. The invariant is one predicate on a key's chain;
each operation on chains (append, release, drop the head, add to the buffer) preserves it and
changes the waiting items as the contract says.

`SessionWriteLockProofs`: `MutualExclusion` (`WritersExclude`), `HoldersKeepFile`
(`HoldersHaveFile`), `NoFileAbandoned` (`NoAbandonedFile`), `CountsExact` (`HoldersCounted`),
`TypeCorrect`. The invariant has three layers: `Base` holds always (types, creation numbers that
name at most one holder, counts, aims that are fresh or harmless); `Core` holds until a file of
a live process was taken (the holder's file is on the disk, there is one owner, a file of a live
process has someone who will remove it); `SharedOK` until, besides, a hold was forced (whoever
holds shares the hold of its process). Exclusion follows from the last two.

Model-checked only: all liveness properties and the fairness of the two refinements (temporal
reasoning under fairness and ENABLED are out of the prover's reach).

## 6. Abstractions

Names, prompts and payloads are model values; logging, metrics and texts are left out. Time is
abstracted to "a timer may fire", or to a few ticks where the code compares delays (heartbeat
wake, cron service, session write lock); where a limit matters (retries, the queue's cap, the
budget of recovery) it is a constant or a choice. Per component:

* command queue: wait warnings, `getQueueSize` and other diagnostics, the hard reset for tests;
* agent runs: what a run does while it holds its slots;
* run loop: supervisors (launchd, systemd, schtasks), restart audit, hot reload of subsystems;
* followup queue: prompt rendering, `refreshQueuedFollowupSession`, expiry of remembered ids;
* delivery queue: a write-ahead that fails (the message is then sent without an entry), legacy
  migration, malformed files, file errors other than a missing file, order by `enqueuedAt`;
* heartbeat wake: what a heartbeat does, phases of the interval (an interval elapses or not);
* cron service: a recurring job is due at every instant and an error puts it off by one; a run
  that times out is an error; failure alerts, session reaping and payloads are left out;
* inbound debounce: a buffer's items are a set of numbers; items without a key, which bypass the
  queue, are left out;
* session write lock: one session file; reading a lock file and judging it, which may
  `stat` it as well, are one action; malformed files count as unwritten ones.

## 7. Running it

    tlc -config CommandQueue.cfg MCCommandQueue
    tlc -config HeartbeatWake.cfg HeartbeatWake
    tlapm HeartbeatWakeProofs.tla

`PROJECT.json` lists module, configuration and expected result of every run, the lines each
definition models, and for each property a mutated definition (defined beside the original and
commented "Mutant") under which TLC finds the property violated.

---------------------------- MODULE HeartbeatWake ----------------------------
(***************************************************************************)
(* Heartbeats: the wake layer, which coalesces requests per target and     *)
(* hands them to the registered handler, and the runner, whose interval    *)
(* timer asks for the periodic ones.  The code between two awaits is one   *)
(* action.  An in-process restart registers a new runner; a batch that the *)
(* old one was handling goes on beside it.                                 *)
(***************************************************************************)
EXTENDS Naturals, FiniteSets

CONSTANTS
    Sessions,       \* targets of wakes other than all agents
    RequestPriorities, \* priorities of the requests made from outside
    Configs,        \* subset of BOOLEAN: may a config have agents with heartbeats?
    MaxRunners,     \* bound: runners started one after the other
    MaxRequests,    \* bound: requests other than those of interval timers
    Coalesce,       \* DEFAULT_COALESCE_MS, in ticks
    Retry           \* DEFAULT_RETRY_MS, in ticks

\* A wake without agent and session is for every agent that is due.
Any == "any"
Targets == Sessions \cup {Any}
Runners == 1..MaxRunners
\* A batch begins only while running is down, which happens once per runner.
Slots == Runners

\* REASON_PRIORITY; 0 stands for "no pending wake of this target".
PRIORITY_INTERVAL == 1
PRIORITY_DEFAULT == 2
PRIORITY_ACTION == 3
Priorities == 0..3

ASSUME BoundsAssumption ==
    /\ RequestPriorities \subseteq {PRIORITY_DEFAULT, PRIORITY_ACTION}
    /\ Configs \subseteq BOOLEAN
    /\ MaxRunners \in Nat \ {0}
    /\ MaxRequests \in Nat
    /\ Coalesce \in Nat
    /\ Retry \in Nat
    /\ Coalesce < Retry

Delays == {0, Coalesce, Retry}
NoTimer == [kind |-> "none", left |-> 0, delay |-> 0]
Timers == [kind : {"normal", "retry"}, left : 0..Retry, delay : Delays]

NoBatch == [by |-> 0, cur |-> Any, todo |-> {}, all |-> [t \in Targets |-> 0], delay |-> 0]
Batches == [by : Runners, cur : Targets, todo : SUBSET Targets,
            all : [Targets -> Priorities], delay : Delays]

VARIABLES
    handler,            \* the runner whose handler is registered, 0 if none
    handlerGeneration,
    pendingWakes,       \* [Targets -> Priorities]
    scheduled, running,
    timer,              \* with the ticks left and the delay it was set with
    batch,              \* batches handed to a handler and not finished
    runner,             \* [Runners -> {"new", "live", "stopped"}]
    generation,         \* the generation each runner's disposer remembers
    agents,             \* has the runner's config any agent with heartbeats?
    armed,              \* is the runner's interval timer set?
    heartbeatsEnabled,
    requests,           \* number of requests made
    \* history:
    cooling,            \* a wake was turned away and its cooldown has not elapsed
    owed,               \* was a wake of the target asked for and not answered since?
    switchedOff         \* heartbeats were off since the interval timer was set

wakeVars == <<pendingWakes, scheduled, running, timer, batch>>
runnerVars == <<runner, generation, agents, armed>>
vars == <<handler, handlerGeneration, wakeVars, runnerVars, heartbeatsEnabled, requests,
          cooling, owed, switchedOff>>

Live == {s \in Slots : batch[s].by # 0}
FreeSlot == CHOOSE s \in Slots \ Live : TRUE
Started == {r \in Runners : runner[r] # "new"}
Newest == Cardinality(Started)

Init ==
    /\ handler = 0
    /\ handlerGeneration = 0
    /\ pendingWakes = [t \in Targets |-> 0]
    /\ scheduled = FALSE
    /\ running = FALSE
    /\ timer = NoTimer
    /\ batch = [s \in Slots |-> NoBatch]
    /\ runner = [r \in Runners |-> "new"]
    /\ generation = [r \in Runners |-> 0]
    /\ agents = [r \in Runners |-> FALSE]
    /\ armed = [r \in Runners |-> FALSE]
    /\ heartbeatsEnabled = TRUE
    /\ requests = 0
    /\ cooling = FALSE
    /\ owed = [t \in Targets |-> FALSE]
    /\ switchedOff = FALSE

-----------------------------------------------------------------------------
(* The wake layer's helpers. *)

\* A pending wake is replaced by one of the same or a higher priority.
QueuePendingWake(pending, t, p) == [pending EXCEPT ![t] = IF p >= @ THEN p ELSE @]
QueueBatch(pending, wakes) ==
    [t \in Targets |-> IF wakes[t] >= pending[t] THEN wakes[t] ELSE pending[t]]
HasPending(pending) == \E t \in Targets : pending[t] # 0

\* Mutant: a request preempts the retry cooldown.
SchedulePreemptive(now, delay, kind) ==
    IF now # NoTimer /\ now.left <= delay THEN now
    ELSE [kind |-> kind, left |-> delay, delay |-> delay]

\* The timer set after schedule(delay, kind), given the one set before.  A
\* retry timer stays, and so does one that fires no later.
Schedule(now, delay, kind) ==
    IF now # NoTimer /\ (now.kind = "retry" \/ now.left <= delay) THEN now
    ELSE [kind |-> kind, left |-> delay, delay |-> delay]

\* run() answers at once, without reaching scheduleNext.
Refuses(r) == runner[r] = "stopped" \/ ~heartbeatsEnabled \/ ~agents[r]

\* Mutant: running stays up after a batch.
FinallyStaysRunning(pending, now, delay) ==
    /\ pendingWakes' = pending
    /\ timer' = IF HasPending(pending) \/ scheduled
                THEN Schedule(now, delay, "normal") ELSE now
    /\ UNCHANGED <<scheduled, running>>

Finally(pending, now, delay) ==
    /\ running' = FALSE
    /\ pendingWakes' = pending
    /\ timer' = IF HasPending(pending) \/ scheduled
                THEN Schedule(now, delay, "normal") ELSE now
    /\ UNCHANGED scheduled

\* Mutant: the interval timer is left as it is.
ScheduleNothing(r, hasAgents) == UNCHANGED <<armed, switchedOff>>

\* The runner's scheduleNext().
ScheduleNext(r, hasAgents) ==
    IF runner[r] = "stopped" THEN UNCHANGED <<armed, switchedOff>>
    ELSE /\ armed' = [armed EXCEPT ![r] = hasAgents]
         /\ switchedOff' = IF r = Newest THEN ~heartbeatsEnabled ELSE switchedOff

-----------------------------------------------------------------------------
(* The wake layer. *)

Request(t, p, delay) ==
    /\ pendingWakes' = QueuePendingWake(pendingWakes, t, p)
    /\ timer' = Schedule(timer, delay, "normal")
    /\ owed' = [owed EXCEPT ![t] = TRUE]
    /\ UNCHANGED <<scheduled, running, batch>>

RequestHeartbeatNow(t, p, delay) ==
    /\ requests < MaxRequests
    /\ requests' = requests + 1
    /\ Request(t, p, delay)
    /\ UNCHANGED <<handler, handlerGeneration, runnerVars, heartbeatsEnabled, cooling, switchedOff>>

Tick ==
    /\ timer # NoTimer
    /\ timer.left > 0
    /\ timer' = [timer EXCEPT !.left = @ - 1]
    /\ UNCHANGED <<handler, handlerGeneration, pendingWakes, scheduled, running, batch,
                   runnerVars, heartbeatsEnabled, requests, cooling, owed, switchedOff>>

Due == timer # NoTimer /\ timer.left = 0

\* The timer's callback: nobody to hand the wakes to ...
FireWithoutHandler ==
    /\ Due
    /\ handler = 0
    /\ timer' = NoTimer
    /\ scheduled' = FALSE
    /\ cooling' = FALSE
    /\ UNCHANGED <<handler, handlerGeneration, pendingWakes, running, batch, runnerVars,
                   heartbeatsEnabled, requests, owed, switchedOff>>

\* ... or a batch is being handled: the same timer again ...
FireWhileRunning ==
    /\ Due
    /\ handler # 0
    /\ running
    /\ scheduled' = TRUE
    /\ timer' = Schedule(NoTimer, timer.delay, timer.kind)
    /\ cooling' = (timer.kind = "retry")
    /\ UNCHANGED <<handler, handlerGeneration, pendingWakes, running, batch, runnerVars,
                   heartbeatsEnabled, requests, owed, switchedOff>>

\* ... or everything pending becomes a batch.  The handler's first call is made
\* at once; a handler that refuses one wake refuses the rest in the same turn.
FireBatch ==
    LET wakes == {t \in Targets : pendingWakes[t] # 0} IN
    /\ Due
    /\ handler # 0
    /\ IF wakes = {} \/ Refuses(handler)
       THEN /\ running' = FALSE
            /\ pendingWakes' = [t \in Targets |-> 0]
            /\ timer' = NoTimer
            /\ owed' = [t \in Targets |-> owed[t] /\ t \notin wakes]
            /\ UNCHANGED batch
       ELSE /\ running' = TRUE
            /\ pendingWakes' = [t \in Targets |-> 0]
            /\ timer' = NoTimer
            /\ \E t \in wakes :
                  batch' = [batch EXCEPT ![FreeSlot] =
                      [by |-> handler, cur |-> t, todo |-> wakes \ {t},
                       all |-> pendingWakes, delay |-> timer.delay]]
            /\ UNCHANGED owed
    /\ scheduled' = FALSE
    /\ cooling' = FALSE
    /\ UNCHANGED <<handler, handlerGeneration, runnerVars, heartbeatsEnabled, requests, switchedOff>>

\* Mutant: the callback does not look at running.
BeginBatchAnyway == Live # Slots /\ FireBatch

BeginBatch == ~running /\ FireBatch

\* The loop goes on with the next wake of slot s, or the batch ends; pending
\* and now are the pending wakes and the timer left by the wake before, which answered
\* some targets.
NextWake(s, answered, pending, now) ==
    LET b == batch[s] IN
    IF b.todo # {} /\ ~Refuses(b.by)
    THEN /\ \E t \in b.todo :
               batch' = [batch EXCEPT ![s].cur = t, ![s].todo = @ \ {t}]
         /\ pendingWakes' = pending
         /\ timer' = now
         /\ owed' = [t \in Targets |-> owed[t] /\ t \notin answered]
         /\ UNCHANGED <<scheduled, running>>
    ELSE /\ batch' = [batch EXCEPT ![s] = NoBatch]
         /\ owed' = [t \in Targets |-> owed[t] /\ t \notin answered \cup b.todo]
         /\ Finally(pending, now, b.delay)

\* The handler has run, skipped or failed the wake; its finally re-arms the
\* interval timer first.
WakeHandled(s) ==
    /\ s \in Live
    /\ ScheduleNext(batch[s].by, agents[batch[s].by])
    /\ NextWake(s, {batch[s].cur}, pendingWakes, timer)
    /\ UNCHANGED <<handler, handlerGeneration, runner, generation, agents, heartbeatsEnabled,
                   requests, cooling>>

\* Mutant: a wake that was turned away is not queued again.
WakeTurnedAwayDropped(s) ==
    /\ s \in Live
    /\ NextWake(s, {}, pendingWakes, Schedule(timer, Retry, "retry"))
    /\ UNCHANGED <<handler, handlerGeneration, runnerVars, heartbeatsEnabled, requests,
                   cooling, switchedOff>>

\* Requests are in flight: the wake is queued again, to be retried soon.  Only
\* for a wake of all agents does the runner leave its interval timer alone.
WakeTurnedAway(s) ==
    LET b == batch[s] IN
    /\ s \in Live
    /\ IF b.cur = Any THEN UNCHANGED <<armed, switchedOff>> ELSE ScheduleNext(b.by, agents[b.by])
    /\ NextWake(s, {}, QueuePendingWake(pendingWakes, b.cur, b.all[b.cur]),
                Schedule(timer, Retry, "retry"))
    /\ cooling' = (cooling \/ timer = NoTimer)
    /\ UNCHANGED <<handler, handlerGeneration, runner, generation, agents, heartbeatsEnabled,
                   requests>>

\* The handler throws: the whole batch is queued again.
WakeThrows(s) ==
    LET b == batch[s] IN
    /\ s \in Live
    /\ ScheduleNext(b.by, agents[b.by])
    /\ batch' = [batch EXCEPT ![s] = NoBatch]
    /\ Finally(QueueBatch(pendingWakes, b.all), Schedule(timer, Retry, "retry"), b.delay)
    /\ cooling' = (cooling \/ timer = NoTimer)
    /\ UNCHANGED <<handler, handlerGeneration, runner, generation, agents, heartbeatsEnabled,
                   requests, owed>>

-----------------------------------------------------------------------------
(* The runner. *)

\* startHeartbeatRunner: register the handler, drop the timer and the flags of
\* the lifecycle before, serve what is pending, and read the config.
StartRunner(r) ==
    /\ r = Newest + 1
    /\ runner' = [runner EXCEPT ![r] = "live"]
    /\ handler' = r
    /\ handlerGeneration' = handlerGeneration + 1
    /\ generation' = [generation EXCEPT ![r] = handlerGeneration + 1]
    /\ running' = FALSE
    /\ scheduled' = FALSE
    /\ timer' = IF HasPending(pendingWakes) THEN Schedule(NoTimer, Coalesce, "normal") ELSE NoTimer
    /\ \E a \in Configs : agents' = [agents EXCEPT ![r] = a] /\ armed' = [armed EXCEPT ![r] = a]
    /\ switchedOff' = ~heartbeatsEnabled
    /\ cooling' = FALSE
    /\ UNCHANGED <<pendingWakes, batch, heartbeatsEnabled, requests, owed>>

\* Mutant: the disposer of an old registration clears the newer one.
DisposeAlways(r) == handler' = 0 /\ handlerGeneration' = handlerGeneration + 1

\* The disposer returned by setHeartbeatWakeHandler.
Dispose(r) ==
    IF handlerGeneration = generation[r] /\ handler = r
    THEN handler' = 0 /\ handlerGeneration' = handlerGeneration + 1
    ELSE UNCHANGED <<handler, handlerGeneration>>

\* The runner's stop(); a close that outlived its timeout may come to it after
\* the next runner has started.
StopRunner(r) ==
    /\ runner[r] = "live"
    /\ runner' = [runner EXCEPT ![r] = "stopped"]
    /\ Dispose(r)
    /\ armed' = [armed EXCEPT ![r] = FALSE]
    /\ UNCHANGED <<wakeVars, generation, agents, heartbeatsEnabled, requests,
                   cooling, owed, switchedOff>>

\* A config reload reaches the runner started last.
UpdateConfig(r, hasAgents) ==
    /\ r = Newest
    /\ runner[r] = "live"
    /\ agents' = [agents EXCEPT ![r] = hasAgents]
    /\ ScheduleNext(r, hasAgents)
    /\ UNCHANGED <<handler, handlerGeneration, wakeVars, runner, generation, heartbeatsEnabled,
                   requests, cooling, owed>>

IntervalElapses(r) ==
    /\ armed[r]
    /\ armed' = [armed EXCEPT ![r] = FALSE]
    /\ Request(Any, PRIORITY_INTERVAL, 0)
    /\ UNCHANGED <<handler, handlerGeneration, runner, generation, agents, heartbeatsEnabled,
                   requests, cooling, switchedOff>>

\* The gateway method set-heartbeats.
SetHeartbeatsEnabled(enabled) ==
    /\ heartbeatsEnabled' = enabled
    /\ switchedOff' = (switchedOff \/ ~enabled)
    /\ UNCHANGED <<handler, handlerGeneration, wakeVars, runnerVars, requests, cooling,
                   owed>>

Fire == FireWithoutHandler \/ FireWhileRunning \/ BeginBatch

Next ==
    \/ \E t \in Targets, p \in RequestPriorities, d \in {0, Coalesce} :
           RequestHeartbeatNow(t, p, d)
    \/ Tick
    \/ Fire
    \/ \E s \in Slots : WakeHandled(s) \/ WakeTurnedAway(s) \/ WakeThrows(s)
    \/ \E r \in Runners : StartRunner(r) \/ StopRunner(r) \/ IntervalElapses(r)
    \/ \E r \in Runners, a \in Configs : UpdateConfig(r, a)
    \/ \E e \in BOOLEAN : SetHeartbeatsEnabled(e)

Spec == Init /\ [][Next]_vars

(***************************************************************************)
(* Timers fire, turns end, and the lanes are free and the handler works    *)
(* again and again.  Nothing is assumed about requests, configs or         *)
(* restarts.                                                               *)
(***************************************************************************)
FairSpec ==
    /\ Spec
    /\ WF_vars(Tick)
    /\ WF_vars(Fire)
    /\ \A s \in Slots, t \in Targets : SF_vars(WakeHandled(s) /\ batch[s].cur = t)

-----------------------------------------------------------------------------
TypeOK ==
    /\ handler \in 0..MaxRunners
    /\ handlerGeneration \in Nat
    /\ pendingWakes \in [Targets -> Priorities]
    /\ scheduled \in BOOLEAN
    /\ running \in BOOLEAN
    /\ timer \in Timers \cup {NoTimer}
    /\ batch \in [Slots -> Batches \cup {NoBatch}]
    /\ runner \in [Runners -> {"new", "live", "stopped"}]
    /\ generation \in [Runners -> Nat]
    /\ agents \in [Runners -> BOOLEAN]
    /\ armed \in [Runners -> BOOLEAN]
    /\ heartbeatsEnabled \in BOOLEAN
    /\ requests \in 0..MaxRequests
    /\ cooling \in BOOLEAN
    /\ owed \in [Targets -> BOOLEAN]
    /\ switchedOff \in BOOLEAN

\* No wake waits for a request that may never come: while a handler is
\* registered, a timer is set or a batch is under way that will set one.
NoWakeForgotten ==
    handler # 0 /\ HasPending(pendingWakes) => timer # NoTimer \/ Live # {}

\* Batches overlap only where a handler was replaced, at most one more for each
\* replacement, however their ends lower the flag of one another.
OverlapOnlyByReplacement ==
    Cardinality(Live) + (IF running THEN 0 ELSE 1) <= (IF Newest = 0 THEN 1 ELSE Newest)

\* Stale disposers do nothing: until it is stopped itself, the runner started
\* last is the one whose handler is registered.
NewestHandlerStays == Newest # 0 /\ runner[Newest] = "live" => handler = Newest

AnyUnderWay(r) ==
    \/ pendingWakes[Any] # 0
    \/ \E s \in Live : batch[s].by = r /\ (batch[s].cur = Any \/ Any \in batch[s].todo)

\* A gateway with agents never stops waking them: the interval timer is armed
\* or the wake that will re-arm it is under way, unless heartbeats were
\* switched off in the meantime.
HeartbeatsGoOn ==
    (Newest # 0 /\ runner[Newest] = "live" /\ agents[Newest] /\ ~switchedOff)
        => armed[Newest] \/ AnyUnderWay(Newest)

\* The retry cooldown is a minimum delay: once the retry timer is set, neither
\* a request nor the end of another batch brings it forward; it fires or a new
\* handler starts afresh.
RetryCooldownKept == cooling => timer.kind = "retry"

InBatch(t) == \E s \in Live : batch[s].cur = t \/ t \in batch[s].todo

\* A wake that was asked for is not lost before it is served or refused: not
\* by coalescing, nor by a handler that is busy, throws, is disposed of or
\* replaced.
WakesNotLost == \A t \in Targets : owed[t] => pendingWakes[t] # 0 \/ InBatch(t)

\* Every wake is eventually served or refused, if a handler stays registered.
EveryWakeAnswered == \A t \in Targets : owed[t] ~> ~owed[t] \/ handler = 0
=============================================================================

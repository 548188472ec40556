--------------------------- MODULE GatewayRunLoop ---------------------------
(***************************************************************************)
(* runGatewayLoop, src/cli/gateway-cli/run-loop.ts: the process-level loop *)
(* that starts the gateway server, waits for a restart, and starts it      *)
(* again, and the signal handler that runs beside it.  The two meet in     *)
(* shared variables read before an await and used after it: server,        *)
(* restartResolver, lock and shuttingDown.                                 *)
(*                                                                         *)
(* Restarts are asked for through src/infra/restart.ts: a timer that       *)
(* coalesces requests, polls that hold a restart back while work is        *)
(* pending, and one emission that cancels both and, because the loop       *)
(* listens, runs its SIGUSR1 handler synchronously.  The config watcher of *)
(* src/gateway/server-reload-handlers.ts uses the same polls.              *)
(*                                                                         *)
(* The gateway lock is a file that any gateway process on the host may     *)
(* hold; the others are one environment process here.                      *)
(***************************************************************************)
EXTENDS Naturals, GatewayDraining

CONSTANTS
    StartMayFail,       \* an in-process start may reject (port, config)
    EventsOutsideWait   \* signals and restart timers may come while the loop
                        \* is not awaiting its restart promise

ASSUME EnvironmentAssumption ==
    /\ StartMayFail \in BOOLEAN
    /\ EventsOutsideWait \in BOOLEAN

VARIABLES
    loop,           \* the loop: starting, releasing, waiting, exited
    firstStart,     \* isFirstStart
    server,         \* the server variable holds a server
    listening,      \* a server of this process listens on the port
    resolver,       \* restartResolver: null, live (its promise is awaited), used
    shuttingDown,
    handler,        \* the signal handler: idle, draining, closing, closed,
                    \* reacquiring
    restarting,     \* the handler's isRestart
    closing,        \* the handler awaits close() of a server
    lock,           \* who holds the gateway lock: self, other, free
    timer,          \* pendingRestartTimer is set
    polls,          \* who has an active deferral poll: timer, reload
    restartPending, \* the config watcher's flag
    restartOwed,    \* history: a restart was requested and no start has begun since
    lockGivenUp     \* history: the lock was released after a failed start

loopVars == <<loop, firstStart, server, listening, resolver>>
handlerVars == <<shuttingDown, handler, restarting, closing>>
requestVars == <<timer, polls, restartPending>>
gatewayVars == <<loopVars, handlerVars, requestVars, lock, gatewayDraining, restartOwed,
                 lockGivenUp>>

GatewayInit ==
    /\ loop = "starting"
    /\ firstStart = TRUE
    /\ server = FALSE
    /\ listening = FALSE
    /\ resolver = "null"
    /\ shuttingDown = FALSE
    /\ handler = "idle"
    /\ restarting = FALSE
    /\ closing = FALSE
    /\ lock = "self"
    /\ gatewayDraining = FALSE
    /\ timer = FALSE
    /\ polls = {}
    /\ restartPending = FALSE
    /\ restartOwed = FALSE
    /\ lockGivenUp = FALSE

Alive == loop # "exited"

\* The process is gone: its sockets close, its lock file goes stale.
Exit ==
    /\ loop' = "exited"
    /\ server' = FALSE
    /\ listening' = FALSE
    /\ handler' = "idle"
    /\ closing' = FALSE
    /\ lock' = IF lock = "self" THEN "free" ELSE lock
    /\ restartOwed' = FALSE
    /\ timer' = FALSE
    /\ polls' = {}
    /\ UNCHANGED <<firstStart, resolver, shuttingDown, restarting, gatewayDraining,
                   restartPending, lockGivenUp>>

-----------------------------------------------------------------------------
(* The loop.                                                               *)

\* Mutant: the config watcher's flag survives the server it belongs to.
StartKeepsPending ==
    /\ loop = "starting"
    /\ ~listening
    /\ loop' = "waiting"
    /\ firstStart' = FALSE
    /\ server' = TRUE
    /\ listening' = TRUE
    /\ resolver' = "live"
    /\ UNCHANGED <<handlerVars, requestVars, lock, gatewayDraining, restartOwed,
                   lockGivenUp>>

\* params.start() resolves; the loop stores the server, whose config watcher is
\* new, and waits.
StartSucceeds ==
    /\ loop = "starting"
    /\ ~listening
    /\ loop' = "waiting"
    /\ firstStart' = FALSE
    /\ server' = TRUE
    /\ listening' = TRUE
    /\ resolver' = "live"
    /\ restartPending' = FALSE
    /\ UNCHANGED <<handlerVars, timer, polls, lock, gatewayDraining, restartOwed,
                   lockGivenUp>>

\* The first start fails: the error propagates and the process exits.
FirstStartFails ==
    /\ loop = "starting"
    /\ firstStart
    /\ StartMayFail
    /\ Exit

\* A later start fails (always so while the port is taken): the process stays.
RestartFails ==
    /\ loop = "starting"
    /\ ~firstStart
    /\ StartMayFail \/ listening
    /\ loop' = "releasing"
    /\ server' = FALSE
    /\ UNCHANGED <<firstStart, listening, resolver, handlerVars, requestVars,
                   lock, gatewayDraining, restartOwed, lockGivenUp>>

\* releaseLockIfHeld, then the loop waits without a server.
ReleaseAfterFailure ==
    /\ loop = "releasing"
    /\ loop' = "waiting"
    /\ resolver' = "live"
    /\ lock' = IF lock = "self" THEN "free" ELSE lock
    /\ lockGivenUp' = (lockGivenUp \/ lock = "self")
    /\ UNCHANGED <<firstStart, server, listening, handlerVars, requestVars,
                   gatewayDraining, restartOwed>>

-----------------------------------------------------------------------------
(* The signal handler.                                                     *)

EventPossible == Alive /\ (loop # "waiting" => EventsOutsideWait)

\* emitGatewayRestart with the loop's SIGUSR1 handler inside it: pending timers
\* and polls are cancelled, the authorisation just given is consumed, and
\* request("restart") is ignored when a shutdown is under way.
EmitGatewayRestart ==
    /\ timer' = FALSE
    /\ polls' = {}
    /\ IF shuttingDown
       THEN UNCHANGED <<handlerVars, gatewayDraining>>
       ELSE /\ shuttingDown' = TRUE
            /\ handler' = "draining"
            /\ restarting' = TRUE
            /\ gatewayDraining' = TRUE
            /\ UNCHANGED closing

\* A restart asked for by a command or tool, or by a SIGUSR1 from outside.
ScheduleGatewaySigusr1Restart ==
    /\ EventPossible
    /\ timer' = TRUE
    /\ restartOwed' = TRUE
    /\ UNCHANGED <<loopVars, handlerVars, polls, restartPending, lock,
                   gatewayDraining, lockGivenUp>>

\* A SIGUSR1 from outside during a shutdown schedules nothing.
ExternalSigusr1Ignored ==
    /\ EventPossible
    /\ shuttingDown
    /\ restartOwed' = TRUE
    /\ UNCHANGED <<loopVars, handlerVars, requestVars, lock, gatewayDraining,
                   lockGivenUp>>

\* The timer fires: emit at once, or poll until the pending work is gone.
RestartTimerFires ==
    /\ EventPossible
    /\ timer
    /\ \/ EmitGatewayRestart
       \/ /\ timer' = FALSE
          /\ polls' = polls \cup {"timer"}
          /\ UNCHANGED <<handlerVars, gatewayDraining>>
    /\ UNCHANGED <<loopVars, restartPending, lock, restartOwed, lockGivenUp>>

\* A poll finds no pending work left, fails, or has waited long enough.
DeferralPollEnds(p) ==
    /\ EventPossible
    /\ p \in polls
    /\ restartPending' = (restartPending /\ p # "reload")
    /\ EmitGatewayRestart
    /\ UNCHANGED <<loopVars, lock, restartOwed, lockGivenUp>>

\* requestGatewayRestart: a changed config needs a restart.  With work pending
\* one poll is started and further changes rely on it.
ConfigChangeIdle ==
    /\ EventPossible
    /\ server
    /\ restartOwed' = TRUE
    /\ EmitGatewayRestart
    /\ UNCHANGED <<loopVars, restartPending, lock, lockGivenUp>>

ConfigChangeBusy ==
    /\ EventPossible
    /\ server
    /\ restartOwed' = TRUE
    /\ restartPending' = TRUE
    /\ polls' = IF restartPending THEN polls ELSE polls \cup {"reload"}
    /\ UNCHANGED <<loopVars, handlerVars, timer, lock, gatewayDraining, lockGivenUp>>

\* SIGTERM or SIGINT: request("stop"), which closes the server at once.
Sigterm ==
    /\ EventPossible
    /\ IF shuttingDown
       THEN UNCHANGED handlerVars
       ELSE /\ shuttingDown' = TRUE
            /\ handler' = "closing"
            /\ restarting' = FALSE
            /\ closing' = server
    /\ UNCHANGED <<loopVars, requestVars, lock, gatewayDraining, restartOwed,
                   lockGivenUp>>

\* Active work has ended or the drain timed out: close the current server.
DrainDone ==
    /\ handler = "draining"
    /\ handler' = "closing"
    /\ closing' = server
    /\ UNCHANGED <<loopVars, shuttingDown, restarting, requestVars, lock,
                   gatewayDraining, restartOwed, lockGivenUp>>

\* close() is done, or there was nothing to close; then the finally clause.
CloseDone ==
    /\ handler = "closing"
    /\ handler' = "closed"
    /\ closing' = FALSE
    /\ server' = FALSE
    /\ listening' = (listening /\ ~closing)
    /\ UNCHANGED <<loop, firstStart, resolver, shuttingDown, restarting,
                   requestVars, lock, gatewayDraining, restartOwed, lockGivenUp>>

\* The watchdog of the drain and the close.
ForceExit ==
    /\ handler \in {"draining", "closing"}
    /\ Exit

\* handleStopAfterServerClose, or a restart that hands over to a fresh process.
ExitAfterClose ==
    /\ handler = "closed"
    /\ Exit

\* Mutant: the lanes are not reset, so the queue keeps refusing work.
ResumeWithoutReset ==
    /\ handler' = "idle"
    /\ shuttingDown' = FALSE
    /\ IF resolver = "live"
       THEN loop' = "starting" /\ resolver' = "used" /\ restartOwed' = FALSE
       ELSE UNCHANGED <<loop, resolver, restartOwed>>
    /\ UNCHANGED <<firstStart, server, listening, restarting, closing,
                   requestVars, gatewayDraining, lockGivenUp>>

\* handleRestartAfterServerClose on the in-process path.
Resume ==
    /\ handler' = "idle"
    /\ shuttingDown' = FALSE
    /\ IF resolver = "live"
       THEN /\ loop' = "starting"       \* the next iteration: resetAllLanes
            /\ resolver' = "used"
            /\ gatewayDraining' = FALSE
            /\ restartOwed' = FALSE
       ELSE UNCHANGED <<loop, resolver, gatewayDraining, restartOwed>>
    /\ UNCHANGED <<firstStart, server, listening, restarting, closing,
                   requestVars, lockGivenUp>>

\* releaseLockIfHeld, and the lock is to be taken back ...
ReleaseForRestart ==
    /\ handler = "closed"
    /\ restarting
    /\ lock = "self"
    /\ lock' = "free"
    /\ handler' = "reacquiring"
    /\ UNCHANGED <<loopVars, shuttingDown, restarting, closing, requestVars,
                   gatewayDraining, restartOwed, lockGivenUp>>

\* ... or was not held, so that the restart goes on without it.
ResumeWithoutLock ==
    /\ handler = "closed"
    /\ restarting
    /\ lock # "self"
    /\ UNCHANGED lock
    /\ Resume

\* Mutant: the restart goes on without taking the lock back.
ReacquireSkipped ==
    /\ handler = "reacquiring"
    /\ UNCHANGED lock
    /\ Resume

Reacquire ==
    /\ handler = "reacquiring"
    /\ lock = "free"
    /\ lock' = "self"
    /\ Resume

ReacquireFails ==
    /\ handler = "reacquiring"
    /\ lock = "other"
    /\ Exit

\* Another gateway process takes and leaves the lock.
OtherTakesLock ==
    /\ lock = "free"
    /\ lock' = "other"
    /\ UNCHANGED <<loopVars, handlerVars, requestVars, gatewayDraining,
                   restartOwed, lockGivenUp>>

OtherLeavesLock ==
    /\ lock = "other"
    /\ lock' = "free"
    /\ UNCHANGED <<loopVars, handlerVars, requestVars, gatewayDraining,
                   restartOwed, lockGivenUp>>

-----------------------------------------------------------------------------
LoopStep ==
    \/ StartSucceeds
    \/ FirstStartFails
    \/ RestartFails
    \/ ReleaseAfterFailure

HandlerStep ==
    \/ DrainDone
    \/ CloseDone
    \/ ExitAfterClose
    \/ ReleaseForRestart
    \/ ResumeWithoutLock
    \/ Reacquire
    \/ ReacquireFails

GatewayNext ==
    \/ LoopStep
    \/ HandlerStep
    \/ ForceExit
    \/ RestartTimerFires
    \/ \E p \in {"timer", "reload"} : DeferralPollEnds(p)
    \/ ScheduleGatewaySigusr1Restart
    \/ ExternalSigusr1Ignored
    \/ ConfigChangeIdle
    \/ ConfigChangeBusy
    \/ Sigterm
    \/ OtherTakesLock
    \/ OtherLeavesLock

GatewaySpec == GatewayInit /\ [][GatewayNext]_gatewayVars

(***************************************************************************)
(* Fairness: start() settles, the drain is bounded by its timeout, close() *)
(* by the watchdog, timers fire, a deferral poll gives up at its maximum   *)
(* wait, and promises that settled are continued.  Nothing is assumed of   *)
(* signals, of other processes or of which outcome occurs.                 *)
(***************************************************************************)
FairGatewaySpec ==
    /\ GatewaySpec
    /\ WF_gatewayVars(LoopStep)
    /\ WF_gatewayVars(HandlerStep)
    /\ WF_gatewayVars(RestartTimerFires)
    /\ \A p \in {"timer", "reload"} : WF_gatewayVars(DeferralPollEnds(p))

-----------------------------------------------------------------------------
\* The types of the variables, and shuttingDown set exactly while the signal
\* handler is at work, so that it neither runs twice nor ignores a later signal.
TypeOK ==
    /\ Alive => (shuttingDown <=> handler # "idle")
    /\ loop \in {"starting", "releasing", "waiting", "exited"}
    /\ firstStart \in BOOLEAN
    /\ server \in BOOLEAN
    /\ listening \in BOOLEAN
    /\ resolver \in {"null", "live", "used"}
    /\ shuttingDown \in BOOLEAN
    /\ handler \in {"idle", "draining", "closing", "closed", "reacquiring"}
    /\ restarting \in BOOLEAN
    /\ closing \in BOOLEAN
    /\ lock \in {"self", "other", "free"}
    /\ gatewayDraining \in BOOLEAN
    /\ timer \in BOOLEAN
    /\ polls \in SUBSET {"timer", "reload"}
    /\ restartPending \in BOOLEAN
    /\ restartOwed \in BOOLEAN
    /\ lockGivenUp \in BOOLEAN

\* A restart asked for leads to a start that begins after the request, or the
\* process exits: requests coalesced with a timer or a poll, cancelled by another
\* emission or ignored during a shutdown are covered by that restart.
RestartHonoured == restartOwed ~> ~restartOwed

\* The enqueue refusals of the drain window end with the restart: a gateway that
\* has a server and no shutdown under way accepts work.
DrainWindowCloses ==
    handler = "idle" /\ listening => ~gatewayDraining

\* Every listening server of the process is the one the loop can close.
NoOrphanServer == listening => server \/ closing

\* A gateway that listens holds the gateway lock, however restarts, failing starts
\* and other processes interleave, unless it gave the lock up after a failed start.
ServingHoldsLock == listening /\ ~lockGivenUp => lock = "self"
=============================================================================

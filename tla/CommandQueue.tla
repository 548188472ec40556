---------------------------- MODULE CommandQueue ----------------------------
(***************************************************************************)
(* The in-process command queue, src/process/command-queue.ts.             *)
(*                                                                         *)
(* Work is submitted to named lanes.  Each lane has a FIFO queue, a set of *)
(* active task ids and a concurrency limit.  Everything runs on one        *)
(* JavaScript thread, but the code is re-entrant: starting a task calls    *)
(* user code synchronously, from inside the pump loop, and that code may   *)
(* enqueue, clear or resize the very lane that is being pumped.  The model *)
(* therefore keeps the JavaScript call stack: one frame per pump() in      *)
(* progress, the innermost one last.  A step of the event loop (a promise  *)
(* settling, a timer, a signal) happens only when the stack is empty.      *)
(*                                                                         *)
(* A command stands for one call of enqueueCommandInLane and also for the  *)
(* task id the pump draws for it, since an entry is started at most once.  *)
(***************************************************************************)
EXTENDS Naturals, Sequences, FiniteSets

CONSTANTS
    Lanes,          \* lane names
    Cmds,           \* commands that may be submitted
    Waiters,        \* calls of waitForActiveTasks
    Requested,      \* arguments setCommandLaneConcurrency is called with
    MaxGen,         \* bound on the number of resetAllLanes calls
    NoCmd           \* a pump frame that is not inside a task body

ASSUME ConstantsAssumption ==
    /\ NoCmd \notin Cmds
    /\ Requested \subseteq Nat
    /\ MaxGen \in Nat

VARIABLES
    gatewayDraining,    \* new enqueues fail fast
    queue,              \* per lane, the commands waiting
    active,             \* per lane, activeTaskIds
    maxConcurrent,      \* per lane, the limit
    draining,           \* per lane, the drainLane guard
    generation,         \* per lane, bumped by resetAllLanes
    stack,              \* pump() calls in progress, innermost last
    resetting,          \* resetAllLanes is on the stack, below the frames
    toDrain,            \* the rest of its lanesToDrain
    status,             \* per command, its progress
    home,               \* per command, the lane its caller submits it to
    taskGen,            \* per command, taskGeneration captured at its start
    waiter              \* per call of waitForActiveTasks, its state and ids

queueVars == <<gatewayDraining, queue, active, maxConcurrent, draining,
               generation, stack, resetting, toDrain>>
vars == <<queueVars, status, home, taskGen, waiter>>

Settled == {"resolved", "rejected", "cleared", "refused"}
Status == {"new", "queued", "running"} \cup Settled

Frame == [lane : Lanes, cmd : Cmds \cup {NoCmd}]

(***************************************************************************)
(* Every lane starts the way getLaneState creates it.                      *)
(***************************************************************************)
Init ==
    /\ gatewayDraining = FALSE
    /\ queue = [l \in Lanes |-> <<>>]
    /\ active = [l \in Lanes |-> {}]
    /\ maxConcurrent = [l \in Lanes |-> 1]
    /\ draining = [l \in Lanes |-> FALSE]
    /\ generation = [l \in Lanes |-> 0]
    /\ stack = <<>>
    /\ resetting = FALSE
    /\ toDrain = {}
    /\ status = [c \in Cmds |-> "new"]
    /\ home \in [Cmds -> Lanes]
    /\ taskGen = [c \in Cmds |-> 0]
    /\ waiter = [w \in Waiters |-> [st |-> "idle", ids |-> {}]]

-----------------------------------------------------------------------------
Top == stack[Len(stack)]
Pop == SubSeq(stack, 1, Len(stack) - 1)

\* Replace the innermost frame's command.
InBody(c) == [stack EXCEPT ![Len(stack)].cmd = c]

Idle == stack = <<>> /\ ~resetting

\* Code other than the queue's own is executing: an event-loop callback, or
\* the synchronous part of a task the innermost pump has just started.
UserCode == Idle \/ (stack # <<>> /\ Top.cmd # NoCmd)

\* drainLane: nothing when the lane's guard is set, else enter pump().
DrainLane(l, stk) ==
    IF draining[l]
    THEN /\ stack' = stk
         /\ UNCHANGED draining
    ELSE /\ stack' = Append(stk, [lane |-> l, cmd |-> NoCmd])
         /\ draining' = [draining EXCEPT ![l] = TRUE]

\* notifyActiveTaskWaiters with the active ids acts.
Notify(ws, acts) ==
    [w \in Waiters |->
        IF ws[w].st = "waiting" /\ ws[w].ids \cap acts = {}
        THEN [ws[w] EXCEPT !.st = "drained"]
        ELSE ws[w]]

AllActive == UNION {active[l] : l \in Lanes}

-----------------------------------------------------------------------------
(* Operations callers invoke.                                              *)

EnqueueCommandInLane(c) ==
    /\ UserCode
    /\ status[c] = "new"
    /\ ~gatewayDraining
    /\ queue' = [queue EXCEPT ![home[c]] = Append(@, c)]
    /\ status' = [status EXCEPT ![c] = "queued"]
    /\ DrainLane(home[c], stack)
    /\ UNCHANGED <<gatewayDraining, active, maxConcurrent, generation,
                   resetting, toDrain, home, taskGen, waiter>>

\* GatewayDrainingError: the entry never reaches a queue.
RefuseEnqueue(c) ==
    /\ UserCode
    /\ status[c] = "new"
    /\ gatewayDraining
    /\ status' = [status EXCEPT ![c] = "refused"]
    /\ UNCHANGED <<queueVars, home, taskGen, waiter>>

\* Mutant: the requested limit is taken as it is.
AnyLimit(n) == n

AtLeastOne(n) == IF n < 1 THEN 1 ELSE n

SetCommandLaneConcurrency(l, n) ==
    /\ Idle
    /\ maxConcurrent' = [maxConcurrent EXCEPT ![l] = AtLeastOne(n)]
    /\ DrainLane(l, stack)
    /\ UNCHANGED <<gatewayDraining, queue, active, generation, resetting,
                   toDrain, status, home, taskGen, waiter>>

ClearCommandLane(l) ==
    /\ UserCode
    /\ queue[l] # <<>>
    /\ queue' = [queue EXCEPT ![l] = <<>>]
    /\ status' = [c \in Cmds |->
                    IF \E i \in 1..Len(queue[l]) : queue[l][i] = c
                    THEN "cleared" ELSE status[c]]
    /\ UNCHANGED <<gatewayDraining, active, maxConcurrent, draining,
                   generation, stack, resetting, toDrain, home, taskGen,
                   waiter>>

MarkGatewayDraining ==
    /\ Idle
    /\ gatewayDraining' = TRUE
    /\ UNCHANGED <<queue, active, maxConcurrent, draining, generation, stack,
                   resetting, toDrain, status, home, taskGen, waiter>>

\* timed is FALSE for a timeout that is not positive.
WaitForActiveTasks(w, timed) ==
    /\ Idle
    /\ waiter[w].st = "idle"
    /\ waiter' =
         IF AllActive = {}
         THEN [waiter EXCEPT ![w].st = "drained"]
         ELSE IF ~timed
              THEN [waiter EXCEPT ![w] = [st |-> "timedOut", ids |-> AllActive]]
              ELSE Notify([waiter EXCEPT ![w] = [st |-> "waiting",
                                                 ids |-> AllActive]],
                          AllActive)
    /\ UNCHANGED <<queueVars, status, home, taskGen>>

WaiterTimeout(w) ==
    /\ Idle
    /\ waiter[w].st = "waiting"
    /\ waiter' = [waiter EXCEPT ![w].st = "timedOut"]
    /\ UNCHANGED <<queueVars, status, home, taskGen>>

-----------------------------------------------------------------------------
(* The pump.                                                               *)

\* Mutant: the loop condition admits one task too many.
PumpStartOneMore ==
    /\ stack # <<>>
    /\ LET l == Top.lane IN
        /\ Cardinality(active[l]) <= maxConcurrent[l]
        /\ queue[l] # <<>>
        /\ LET c == Head(queue[l]) IN
            /\ queue' = [queue EXCEPT ![l] = Tail(@)]
            /\ active' = [active EXCEPT ![l] = @ \cup {c}]
            /\ status' = [status EXCEPT ![c] = "running"]
            /\ taskGen' = [taskGen EXCEPT ![c] = generation[l]]
            /\ stack' = InBody(c)
    /\ UNCHANGED <<gatewayDraining, maxConcurrent, draining, generation,
                   resetting, toDrain, home, waiter>>

\* One turn of the pump loop: take the head entry and call its task.
PumpStart ==
    /\ stack # <<>>
    /\ LET l == Top.lane IN
        /\ Cardinality(active[l]) < maxConcurrent[l]
        /\ queue[l] # <<>>
        /\ LET c == Head(queue[l]) IN
            /\ queue' = [queue EXCEPT ![l] = Tail(@)]
            /\ active' = [active EXCEPT ![l] = @ \cup {c}]
            /\ status' = [status EXCEPT ![c] = "running"]
            /\ taskGen' = [taskGen EXCEPT ![c] = generation[l]]
            /\ stack' = InBody(c)
    /\ UNCHANGED <<gatewayDraining, maxConcurrent, draining, generation,
                   resetting, toDrain, home, waiter>>

\* The loop condition fails; the finally clause lowers the guard.
PumpExit ==
    /\ stack # <<>>
    /\ LET l == Top.lane IN
        /\ ~(Cardinality(active[l]) < maxConcurrent[l] /\ queue[l] # <<>>)
        /\ draining' = [draining EXCEPT ![l] = FALSE]
    /\ stack' = Pop
    /\ UNCHANGED <<gatewayDraining, queue, active, maxConcurrent, generation,
                   resetting, toDrain, status, home, taskGen, waiter>>

\* The handler of a task that ended: completeTask, and for a task of the
\* current generation notify the waiters and call pump() again, without
\* looking at the draining guard.  stk is the stack the handler runs on.
CompleteTask(c, outcome, stk) ==
    LET l == home[c]
        acts == [active EXCEPT ![l] = @ \ {c}]
    IN  /\ status' = [status EXCEPT ![c] = outcome]
        /\ IF taskGen[c] = generation[l]
           THEN /\ active' = acts
                /\ waiter' = Notify(waiter, UNION {acts[k] : k \in Lanes})
                /\ stack' = Append(stk, [lane |-> l, cmd |-> NoCmd])
           ELSE /\ stack' = stk
                /\ UNCHANGED <<active, waiter>>
        /\ UNCHANGED <<gatewayDraining, queue, maxConcurrent, draining,
                       generation, resetting, toDrain, home, taskGen>>

\* The task's promise settles: an event-loop step.
Finish(c) ==
    /\ Idle
    /\ status[c] = "running"
    /\ \E outcome \in {"resolved", "rejected"} : CompleteTask(c, outcome, stack)

\* Mutant: the catch clause rejects the caller and forgets the task id.
TaskThrowsLeaksSlot ==
    /\ stack # <<>>
    /\ Top.cmd # NoCmd
    /\ status' = [status EXCEPT ![Top.cmd] = "rejected"]
    /\ stack' = InBody(NoCmd)
    /\ UNCHANGED <<gatewayDraining, queue, active, maxConcurrent, draining,
                   generation, resetting, toDrain, home, taskGen, waiter>>

\* entry.task() throws before it returns a promise: the catch clause runs
\* inside the pump that started it, and pumps again one level deeper.
TaskThrows ==
    /\ stack # <<>>
    /\ Top.cmd # NoCmd
    /\ CompleteTask(Top.cmd, "rejected", InBody(NoCmd))

-----------------------------------------------------------------------------
(* resetAllLanes, after an in-process restart: one pass over the lanes,    *)
(* then a drainLane per lane that kept entries, then the waiters.          *)

\* Mutant: preserved entries are not pumped after the reset.
ResetAllLanesNoPump ==
    /\ Idle
    /\ \A l \in Lanes : generation[l] < MaxGen
    /\ gatewayDraining' = FALSE
    /\ generation' = [l \in Lanes |-> generation[l] + 1]
    /\ active' = [l \in Lanes |-> {}]
    /\ draining' = [l \in Lanes |-> FALSE]
    /\ resetting' = TRUE
    /\ toDrain' = {}
    /\ UNCHANGED <<queue, maxConcurrent, stack, status, home, taskGen, waiter>>

ResetAllLanes ==
    /\ Idle
    /\ \A l \in Lanes : generation[l] < MaxGen
    /\ gatewayDraining' = FALSE
    /\ generation' = [l \in Lanes |-> generation[l] + 1]
    /\ active' = [l \in Lanes |-> {}]
    /\ draining' = [l \in Lanes |-> FALSE]
    /\ resetting' = TRUE
    /\ toDrain' = {l \in Lanes : queue[l] # <<>>}
    /\ UNCHANGED <<queue, maxConcurrent, stack, status, home, taskGen, waiter>>

ResetDrain(l) ==
    /\ stack = <<>>
    /\ l \in toDrain
    /\ toDrain' = toDrain \ {l}
    /\ DrainLane(l, stack)
    /\ UNCHANGED <<gatewayDraining, queue, active, maxConcurrent, generation,
                   resetting, status, home, taskGen, waiter>>

\* Mutant: the reset forgets the waiters.
ResetWithoutNotify ==
    /\ stack = <<>>
    /\ resetting
    /\ toDrain = {}
    /\ resetting' = FALSE
    /\ UNCHANGED <<gatewayDraining, queue, active, maxConcurrent, draining,
                   generation, stack, toDrain, status, home, taskGen, waiter>>

ResetNotify ==
    /\ stack = <<>>
    /\ resetting
    /\ toDrain = {}
    /\ resetting' = FALSE
    /\ waiter' = Notify(waiter, AllActive)
    /\ UNCHANGED <<gatewayDraining, queue, active, maxConcurrent, draining,
                   generation, stack, toDrain, status, home, taskGen>>

-----------------------------------------------------------------------------
\* The steps the queue's own code takes once it has been entered.
QueueStep ==
    \/ PumpStart
    \/ PumpExit
    \/ \E l \in Lanes : ResetDrain(l)
    \/ ResetNotify

CallerStep ==
    \/ \E c \in Cmds : EnqueueCommandInLane(c) \/ RefuseEnqueue(c)
    \/ \E l \in Lanes, n \in Requested : SetCommandLaneConcurrency(l, n)
    \/ \E l \in Lanes : ClearCommandLane(l)
    \/ MarkGatewayDraining
    \/ \E w \in Waiters, timed \in BOOLEAN : WaitForActiveTasks(w, timed)
    \/ \E w \in Waiters : WaiterTimeout(w)
    \/ ResetAllLanes

TaskStep ==
    \/ \E c \in Cmds : Finish(c)
    \/ TaskThrows

Next == QueueStep \/ CallerStep \/ TaskStep

Spec == Init /\ [][Next]_vars

(***************************************************************************)
(* Fairness.  The queue's own code runs to completion once entered.  Tasks *)
(* end: every agent run has a run timeout.  A task settles only on an      *)
(* empty stack, which other steps keep leaving and coming back to, hence   *)
(* strong fairness.                                                        *)
(***************************************************************************)
Fairness ==
    /\ WF_vars(QueueStep)
    /\ \A c \in Cmds : SF_vars(Finish(c))

FairSpec == Spec /\ Fairness

-----------------------------------------------------------------------------
(* Properties.                                                             *)

TypeOK ==
    /\ gatewayDraining \in BOOLEAN
    /\ queue \in [Lanes -> Seq(Cmds)]
    /\ active \in [Lanes -> SUBSET Cmds]
    /\ maxConcurrent \in [Lanes -> Nat \ {0}]
    /\ draining \in [Lanes -> BOOLEAN]
    /\ generation \in [Lanes -> Nat]
    /\ stack \in Seq(Frame)
    /\ resetting \in BOOLEAN
    /\ toDrain \in SUBSET Lanes
    /\ status \in [Cmds -> Status]
    /\ home \in [Cmds -> Lanes]
    /\ taskGen \in [Cmds -> Nat]
    /\ waiter \in [Waiters -> [st : {"idle", "waiting", "drained", "timedOut"},
                               ids : SUBSET Cmds]]

\* A lane with a free slot and an entry waiting.
Startable(l) ==
    queue[l] # <<>> /\ Cardinality(active[l]) < maxConcurrent[l]

\* Between two event-loop callbacks no lane has both a free slot and a waiting
\* entry: whatever re-entrant order pumps, throws, resizes and resets took,
\* nobody has to call enqueueCommandInLane again to get queued work moving
\* (the draining guard and the unguarded pump() of completions cover each
\* other).
NoStrandedWork == Idle => \A l \in Lanes : ~Startable(l)

\* activeTaskIds holds exactly the lane's running tasks of its current
\* generation: completions of tasks forgotten by resetAllLanes neither free
\* nor hold a slot, and no slot leaks.
ActiveExact ==
    \A l \in Lanes :
        active[l] = {c \in Cmds : /\ status[c] = "running"
                                  /\ home[c] = l
                                  /\ taskGen[c] = generation[l]}

\* waitForActiveTasks answers drained only when none of the tasks it saw at
\* the call still occupies a slot.
DrainedIsDrained ==
    \A w \in Waiters :
        waiter[w].st = "drained" => waiter[w].ids \cap AllActive = {}

\* A waiter still waiting between two callbacks waits for a task that still
\* occupies a slot, so it is never left to its timeout after its last task
\* ended or was forgotten by a reset.
NoForgottenWaiter ==
    Idle => \A w \in Waiters :
                waiter[w].st = "waiting" => waiter[w].ids \cap AllActive # {}

\* The promise of an accepted command settles: it is run to its end, or its
\* lane is cleared; resets, refusals, throws and resizes lose none.
EveryCommandSettles ==
    \A c \in Cmds : status[c] = "queued" ~> status[c] \in Settled

(***************************************************************************)
(* The queue implements LaneContract: the call stack, the guard, the       *)
(* generations and the waiters are hidden.                                 *)
(***************************************************************************)
Outcome(c) ==
    CASE status[c] = "new"     -> "new"
      [] status[c] = "queued"  -> "accepted"
      [] status[c] = "running" -> "started"
      [] OTHER                 -> "done"

Contract == INSTANCE LaneContract WITH
    open <- ~gatewayDraining,
    pending <- queue,
    slots <- active,
    limit <- maxConcurrent,
    outcome <- [c \in Cmds |-> Outcome(c)],
    lane <- home

\* Every step of the queue is a step of the contract or invisible: commands
\* start in arrival order, only into a free slot and only once, and a lane that
\* can start a command does not leave it waiting for another call.
ImplementsContract == Contract!Spec
=============================================================================

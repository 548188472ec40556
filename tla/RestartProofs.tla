--------------------------- MODULE RestartProofs -----------------------------
(***************************************************************************)
(* Proofs about what goes on while a gateway restarts in place.  First the *)
(* agent runs, for any runs, sessions, limits and number of restarts: a    *)
(* caller is not answered before its run has ended, and a session has one  *)
(* run at a time unless a restart gave up waiting.  Then the run loop that *)
(* carries the restarts out, for events that come while it waits           *)
(* (EventsOutsideWait = FALSE), whether or not a start may fail and        *)
(* whatever signals, timers, polls and other processes do.                 *)
(***************************************************************************)
EXTENDS AgentRunLanes, GatewayRunLoop, FiniteSetTheorems, TLAPS

\* What is known about the queue, for the entries and lanes of the runs.
P == INSTANCE CommandQueueProofs

\* The entries, their levels and their lanes.
LEMMA Entries ==
    ASSUME NEW r \in Runs
    PROVE  /\ Outer(r) \in Cmds /\ Inner(r) \in Cmds
           /\ r \in CronRuns => Cron(r) \in Cmds
           /\ Outer(r)[1] = "session" /\ Outer(r)[2] = r
           /\ Inner(r)[1] = "global" /\ Inner(r)[2] = r
           /\ LaneFor(Outer(r)) = SessionOf[r]
           /\ SessionOf[r] \in Sessions
  BY RunsAssumption DEF Cmds, Outer, Inner, Cron, CronRuns, LaneFor

LEMMA Kinds ==
    ASSUME NEW c \in Cmds
    PROVE  \/ \E r \in CronRuns : c = Cron(r) /\ c[1] = "cron" /\ c[2] = r
           \/ \E r \in Runs : c = Outer(r) /\ c[1] = "session" /\ c[2] = r
           \/ \E r \in Runs : c = Inner(r) /\ c[1] = "global" /\ c[2] = r
  BY DEF Cmds, Outer, Inner, Cron, CronRuns

LEMMA Distinct ==
    ASSUME NEW r \in Runs, NEW q \in Runs
    PROVE  /\ Outer(r) # Inner(q) /\ Cron(r) # Inner(q) /\ Cron(r) # Outer(q)
           /\ Outer(r) = Outer(q) => r = q
           /\ Inner(r) = Inner(q) => r = q
  BY DEF Outer, Inner, Cron

\* The assumptions about the queue's constants hold.
LEMMA QueueConstants == NoCmd \notin Cmds /\ Requested \subseteq Nat /\ MaxGen \in Nat
  BY NoCmdAssumption, RunsAssumption, FS_CardinalityType DEF MaxGen

-----------------------------------------------------------------------------
(* Every step of the runs is one of the queue, or changes nothing of it.   *)

RestartOK == restart \in Restarts \cup {"none"}

\* An instance has its own Cardinality.
LEMMA SameSizes == \A S : P!Cardinality(S) = Cardinality(S) /\ Q!Cardinality(S) = Cardinality(S)
BY DEF P!Cardinality, Q!Cardinality, Cardinality

\* The queue of the runs and the queue the lemmas of CommandQueueProofs are about.
LEMMA SameQueue ==
    /\ P!vars = Q!vars
    /\ P!Init <=> Q!Init
    /\ P!PumpStart <=> Q!PumpStart
    /\ P!PumpExit <=> Q!PumpExit
    /\ P!TaskThrows <=> Q!TaskThrows
    /\ P!MarkGatewayDraining <=> Q!MarkGatewayDraining
    /\ P!ResetAllLanes <=> Q!ResetAllLanes
    /\ P!ResetNotify <=> Q!ResetNotify
    /\ \A l \in Lanes : /\ P!ResetDrain(l) <=> Q!ResetDrain(l)
                        /\ P!ClearCommandLane(l) <=> Q!ClearCommandLane(l)
    /\ \A c \in Cmds : /\ P!EnqueueCommandInLane(c) <=> Q!EnqueueCommandInLane(c)
                       /\ P!RefuseEnqueue(c) <=> Q!RefuseEnqueue(c)
                       /\ P!Finish(c) <=> Q!Finish(c)
    /\ \A l \in Lanes, n \in Requested :
          P!SetCommandLaneConcurrency(l, n) <=> Q!SetCommandLaneConcurrency(l, n)
    /\ \A w \in Waiters, timed \in BOOLEAN :
          P!WaitForActiveTasks(w, timed) <=> Q!WaitForActiveTasks(w, timed)
    /\ \A w \in Waiters : P!WaiterTimeout(w) <=> Q!WaiterTimeout(w)
<1> USE DEF P!Top, Q!Top, P!InBody, Q!InBody, P!Idle, Q!Idle, P!UserCode, Q!UserCode,
            P!queueVars, Q!queueVars, P!DrainLane, Q!DrainLane
<1>1. P!vars = Q!vars
  BY DEF P!vars, Q!vars
<1>2. P!Init <=> Q!Init
  BY DEF P!Init, Q!Init
<1>3. P!PumpStart <=> Q!PumpStart
  BY SameSizes DEF P!PumpStart, Q!PumpStart
<1>4. P!PumpExit <=> Q!PumpExit
  BY SameSizes DEF P!PumpExit, Q!PumpExit, P!Pop, Q!Pop
<1>5. P!TaskThrows <=> Q!TaskThrows
  BY DEF P!TaskThrows, Q!TaskThrows, P!CompleteTask, Q!CompleteTask, P!Notify, Q!Notify
<1>6. P!MarkGatewayDraining <=> Q!MarkGatewayDraining
  BY DEF P!MarkGatewayDraining, Q!MarkGatewayDraining
<1>7. P!ResetAllLanes <=> Q!ResetAllLanes
  BY DEF P!ResetAllLanes, Q!ResetAllLanes
<1>8. P!ResetNotify <=> Q!ResetNotify
  BY DEF P!ResetNotify, Q!ResetNotify, P!Notify, Q!Notify, P!AllActive, Q!AllActive
<1>9. \A l \in Lanes : /\ P!ResetDrain(l) <=> Q!ResetDrain(l)
                       /\ P!ClearCommandLane(l) <=> Q!ClearCommandLane(l)
  BY DEF P!ResetDrain, Q!ResetDrain, P!ClearCommandLane, Q!ClearCommandLane
<1>10. \A c \in Cmds : /\ P!EnqueueCommandInLane(c) <=> Q!EnqueueCommandInLane(c)
                       /\ P!RefuseEnqueue(c) <=> Q!RefuseEnqueue(c)
                       /\ P!Finish(c) <=> Q!Finish(c)
  BY DEF P!EnqueueCommandInLane, Q!EnqueueCommandInLane, P!RefuseEnqueue, Q!RefuseEnqueue,
         P!Finish, Q!Finish, P!CompleteTask, Q!CompleteTask, P!Notify, Q!Notify
<1>11. \A l \in Lanes, n \in Requested :
          P!SetCommandLaneConcurrency(l, n) <=> Q!SetCommandLaneConcurrency(l, n)
  BY DEF P!SetCommandLaneConcurrency, Q!SetCommandLaneConcurrency, P!AtLeastOne, Q!AtLeastOne
<1>12. \A w \in Waiters, timed \in BOOLEAN :
          P!WaitForActiveTasks(w, timed) <=> Q!WaitForActiveTasks(w, timed)
  BY DEF P!WaitForActiveTasks, Q!WaitForActiveTasks, P!AllActive, Q!AllActive,
         P!Notify, Q!Notify
<1>13. \A w \in Waiters : P!WaiterTimeout(w) <=> Q!WaiterTimeout(w)
  BY DEF P!WaiterTimeout, Q!WaiterTimeout
<1> QED
  BY <1>1, <1>2, <1>3, <1>4, <1>5, <1>6, <1>7, <1>8, <1>9, <1>10, <1>11, <1>12, <1>13

-----------------------------------------------------------------------------
(* The inductive invariant.                                                *)

Live(r) == status[Inner(r)] \in {"queued", "running"}
HoldsSlot(r) == taskGen[Outer(r)] = generation[SessionOf[r]]

HomeOK == home = [c \in Cmds |-> LaneFor(c)]

\* A task whose synchronous part is on the stack was started since the last reset.
BodyOK ==
    \A i \in 1..Len(stack) :
        stack[i].cmd # NoCmd => taskGen[stack[i].cmd] = generation[home[stack[i].cmd]]

\* A session's lane keeps one slot.
OneSlot ==
    \A s \in Sessions :
        /\ maxConcurrent[s] = 1
        /\ active[s] = {} \/ \E c \in Cmds : active[s] = {c}

Patient == \A w \in Restarts : waiter[w].st # "timedOut"

\* While a restart waits, no run is added, and it waits for those there are.
WaitedFor ==
    restart # "none" /\ waiter[restart].st \in {"waiting", "drained"} =>
        \A r \in Runs : Live(r) => Outer(r) \in waiter[restart].ids

RunsOK ==
    /\ RestartOK
    /\ restart # "none" => gatewayDraining
    /\ HomeOK
    /\ NoOrphanRun
    /\ BodyOK
    /\ OneSlot
    /\ Patient => WaitedFor /\ \A r \in Runs : Live(r) => HoldsSlot(r)

\* What most steps have in common: at most one run is added, by the body of
\* its session entry, and no session entry settles before its run.
LEMMA RunsKept ==
    ASSUME RunsOK,
           UNCHANGED <<home, restart, gatewayDraining, taskGen, generation>>,
           \A r \in Runs : Live(r)' => \/ Live(r)
                                       \/ /\ status[Outer(r)] = "running"
                                          /\ HoldsSlot(r)
                                          /\ ~gatewayDraining,
           \A r \in Runs : Live(r)' /\ status[Outer(r)] = "running" =>
                               status'[Outer(r)] = "running",
           \A i \in 1..Len(stack') : stack'[i].cmd # NoCmd =>
               i \in 1..Len(stack) /\ stack'[i].cmd = stack[i].cmd,
           \A s \in Sessions :
               maxConcurrent'[s] = maxConcurrent[s] /\ active'[s] \subseteq active[s],
           \A w \in Restarts :
               /\ waiter'[w].ids = waiter[w].ids
               /\ waiter[w].st = "timedOut" => waiter'[w].st = "timedOut"
               /\ waiter'[w].st \in {"waiting", "drained"} =>
                     waiter[w].st \in {"waiting", "drained"}
    PROVE  RunsOK'
<1>1. RestartOK' /\ HomeOK' /\ (restart # "none" => gatewayDraining)'
  BY DEF RunsOK, RestartOK, HomeOK
<1>2. NoOrphanRun'
  BY DEF RunsOK, NoOrphanRun, Live
<1>3. BodyOK'
  BY DEF RunsOK, BodyOK
<1>4. OneSlot'
  <2> SUFFICES ASSUME NEW s \in Sessions
               PROVE  maxConcurrent'[s] = 1 /\ (active'[s] = {} \/ \E c \in Cmds : active'[s] = {c})
    BY DEF OneSlot
  <2> QED
    BY DEF RunsOK, OneSlot
<1>5. ASSUME Patient' PROVE WaitedFor' /\ \A r \in Runs : Live(r)' => HoldsSlot(r)'
  <2>1. Patient
    BY <1>5 DEF Patient
  <2>2. \A r \in Runs : Live(r)' => HoldsSlot(r)'
    BY <2>1 DEF RunsOK, HoldsSlot
  <2>3. WaitedFor'
    <3> SUFFICES ASSUME restart # "none", waiter'[restart].st \in {"waiting", "drained"},
                        NEW r \in Runs, Live(r)'
                 PROVE  Outer(r) \in waiter'[restart].ids
      BY DEF WaitedFor
    <3>1. restart \in Restarts /\ gatewayDraining
      BY DEF RunsOK, RestartOK
    <3> QED
      BY <2>1, <3>1 DEF RunsOK, WaitedFor
  <2> QED
    BY <2>2, <2>3
<1> QED
  BY <1>1, <1>2, <1>3, <1>4, <1>5 DEF RunsOK

LEMMA QueueFacts ==
    ASSUME P!IInv
    PROVE  /\ P!TypeOK
           /\ \A k \in Lanes : draining[k] => P!OnStack(k)
           /\ \A l \in Lanes : \A i \in 1..Len(queue[l]) :
                 queue[l][i] \in Cmds /\ status[queue[l][i]] = "queued"
           /\ \A i \in 1..Len(stack) : stack[i].cmd # NoCmd =>
                 stack[i].cmd \in Cmds /\ status[stack[i].cmd] = "running"
BY QueueConstants, P!FrameCmd, P!QueueCmd DEF P!IInv, P!PumpCovers, P!QueueOK, P!FramesOK

\* Where a pump may have been entered, nothing else of the stack is new.
LEMMA DrainedFrames ==
    ASSUME P!IInv, NEW l \in Lanes, P!DrainLane(l, stack)
    PROVE  \A i \in 1..Len(stack') : stack'[i].cmd # NoCmd =>
               i \in 1..Len(stack) /\ stack'[i] = stack[i]
BY QueueConstants, QueueFacts, P!DrainLaneFacts

LEMMA SubmitKeeps ==
    ASSUME RunsOK, P!IInv, UNCHANGED restart, NEW c \in Cmds,
           P!EnqueueCommandInLane(c) \/ P!RefuseEnqueue(c),
           \A r \in Runs : c = Inner(r) => status[Outer(r)] = "running" /\ HoldsSlot(r)
    PROVE  RunsOK'
<1>1. status \in [Cmds -> P!Status] /\ home \in [Cmds -> Lanes] /\ status[c] = "new"
  BY QueueFacts DEF P!TypeOK, P!EnqueueCommandInLane, P!RefuseEnqueue
<1>2. CASE P!EnqueueCommandInLane(c)
  <2>1. /\ status' = [status EXCEPT ![c] = "queued"] /\ ~gatewayDraining
        /\ P!DrainLane(home[c], stack)
        /\ UNCHANGED <<gatewayDraining, active, maxConcurrent, generation, home, taskGen, waiter>>
    BY <1>2 DEF P!EnqueueCommandInLane
  <2>2. \A i \in 1..Len(stack') : stack'[i].cmd # NoCmd =>
            i \in 1..Len(stack) /\ stack'[i].cmd = stack[i].cmd
    BY <1>1, <2>1, DrainedFrames
  <2>3. \A r \in Runs : Live(r)' => \/ Live(r)
                                    \/ /\ status[Outer(r)] = "running"
                                       /\ HoldsSlot(r)
                                       /\ ~gatewayDraining
    BY <1>1, <2>1, Entries DEF Live
  <2>4. \A r \in Runs : status[Outer(r)] = "running" => status'[Outer(r)] = "running"
    BY <1>1, <2>1, Entries
  <2> QED
    BY <2>1, <2>2, <2>3, <2>4, RunsKept
<1>3. CASE P!RefuseEnqueue(c)
  <2>1. /\ status' = [status EXCEPT ![c] = "refused"]
        /\ UNCHANGED <<gatewayDraining, active, maxConcurrent, generation, stack, home, taskGen,
                       waiter>>
    BY <1>3 DEF P!RefuseEnqueue, P!queueVars
  <2>2. \A r \in Runs : Live(r)' => Live(r)
    BY <1>1, <2>1, Entries DEF Live
  <2>3. \A r \in Runs : status[Outer(r)] = "running" => status'[Outer(r)] = "running"
    BY <1>1, <2>1, Entries
  <2> QED
    BY <2>1, <2>2, <2>3, RunsKept
<1> QED
  BY <1>2, <1>3

LEMMA ConcurrencyKeeps ==
    ASSUME RunsOK, P!IInv, UNCHANGED restart, NEW l \in Lanes \ Sessions, NEW n \in Requested,
           P!SetCommandLaneConcurrency(l, n)
    PROVE  RunsOK'
<1>1. /\ maxConcurrent' = [maxConcurrent EXCEPT ![l] = P!AtLeastOne(n)]
      /\ P!DrainLane(l, stack)
      /\ UNCHANGED <<gatewayDraining, active, generation, status, home, taskGen, waiter>>
  BY DEF P!SetCommandLaneConcurrency
<1>2. \A i \in 1..Len(stack') : stack'[i].cmd # NoCmd =>
          i \in 1..Len(stack) /\ stack'[i].cmd = stack[i].cmd
  BY <1>1, DrainedFrames
<1>3. \A s \in Sessions : maxConcurrent'[s] = maxConcurrent[s]
  BY <1>1, QueueFacts DEF P!TypeOK, Lanes
<1>4. \A r \in Runs : Live(r)' => Live(r)
  BY <1>1 DEF Live
<1> QED
  BY <1>1, <1>2, <1>3, <1>4, RunsKept

LEMMA ClearKeeps ==
    ASSUME RunsOK, P!IInv, UNCHANGED restart, NEW l \in Lanes, P!ClearCommandLane(l)
    PROVE  RunsOK'
<1>1. /\ status' = [c \in Cmds |-> IF \E i \in 1..Len(queue[l]) : queue[l][i] = c
                                   THEN "cleared" ELSE status[c]]
      /\ UNCHANGED <<gatewayDraining, active, maxConcurrent, generation, stack, home, taskGen,
                     waiter>>
  BY DEF P!ClearCommandLane
<1>2. \A r \in Runs : Live(r)' => Live(r)
  BY <1>1, Entries DEF Live
<1>3. \A r \in Runs : status[Outer(r)] = "running" => status'[Outer(r)] = "running"
  BY <1>1, Entries, QueueFacts
<1> QED
  BY <1>1, <1>2, <1>3, RunsKept

LEMMA TimeoutKeeps ==
    ASSUME RunsOK, P!IInv, UNCHANGED restart, NEW w \in Waiters, P!WaiterTimeout(w)
    PROVE  RunsOK'
<1>1. /\ waiter' = [waiter EXCEPT ![w].st = "timedOut"] /\ waiter[w].st = "waiting"
      /\ UNCHANGED <<gatewayDraining, active, maxConcurrent, generation, stack, status, home,
                     taskGen>>
  BY DEF P!WaiterTimeout, P!queueVars
<1>2. \A r \in Runs : Live(r)' => Live(r)
  BY <1>1 DEF Live
<1>3. \A v \in Restarts : /\ waiter'[v].ids = waiter[v].ids
                          /\ v # w => waiter'[v] = waiter[v]
                          /\ waiter'[w].st = "timedOut"
  BY <1>1, QueueFacts DEF P!TypeOK, Waiters
<1> QED
  BY <1>1, <1>2, <1>3, RunsKept

LEMMA PumpExitKeeps ==
    ASSUME RunsOK, P!IInv, UNCHANGED restart, P!PumpExit
    PROVE  RunsOK'
<1>1. /\ stack # <<>> /\ stack' = SubSeq(stack, 1, Len(stack) - 1)
      /\ UNCHANGED <<gatewayDraining, active, maxConcurrent, generation, status, home, taskGen,
                     waiter>>
  BY DEF P!PumpExit, P!Pop
<1>2. stack \in Seq(P!Frame)
  BY QueueFacts DEF P!TypeOK
<1>3. \A i \in 1..Len(stack') : i \in 1..Len(stack) /\ stack'[i].cmd = stack[i].cmd
  BY <1>1, <1>2, QueueConstants, P!PopFacts
<1>4. \A r \in Runs : Live(r)' => Live(r)
  BY <1>1 DEF Live
<1> QED
  BY <1>1, <1>3, <1>4, RunsKept

LEMMA NotifyKeeps ==
    ASSUME P!TypeOK, NEW acts, waiter' = P!Notify(waiter, acts), NEW w \in Restarts
    PROVE  /\ waiter'[w].ids = waiter[w].ids
           /\ waiter[w].st = "timedOut" => waiter'[w].st = "timedOut"
           /\ waiter'[w].st \in {"waiting", "drained"} =>
                 waiter[w].st \in {"waiting", "drained"}
<1>1. waiter[w] \in [st : {"idle", "waiting", "drained", "timedOut"}, ids : SUBSET Cmds]
  BY DEF P!TypeOK, Waiters
<1>2. waiter'[w] = IF waiter[w].st = "waiting" /\ waiter[w].ids \cap acts = {}
                   THEN [waiter[w] EXCEPT !.st = "drained"] ELSE waiter[w]
  BY DEF P!Notify, Waiters
<1> QED
  BY <1>1, <1>2

LEMMA ResetDrainKeeps ==
    ASSUME RunsOK, P!IInv, UNCHANGED restart, NEW l \in Lanes, P!ResetDrain(l)
    PROVE  RunsOK'
<1>1. /\ P!DrainLane(l, stack)
      /\ UNCHANGED <<gatewayDraining, active, maxConcurrent, generation, status, home, taskGen,
                     waiter>>
  BY DEF P!ResetDrain
<1>2. \A i \in 1..Len(stack') : stack'[i].cmd # NoCmd =>
          i \in 1..Len(stack) /\ stack'[i].cmd = stack[i].cmd
  BY <1>1, DrainedFrames
<1>3. \A r \in Runs : Live(r)' => Live(r)
  BY <1>1 DEF Live
<1> QED
  BY <1>1, <1>2, <1>3, RunsKept

LEMMA ResetNotifyKeeps ==
    ASSUME RunsOK, P!IInv, UNCHANGED restart, P!ResetNotify
    PROVE  RunsOK'
<1>1. /\ waiter' = P!Notify(waiter, P!AllActive)
      /\ UNCHANGED <<gatewayDraining, active, maxConcurrent, generation, stack, status, home,
                     taskGen>>
  BY DEF P!ResetNotify
<1>2. \A r \in Runs : Live(r)' => Live(r)
  BY <1>1 DEF Live
<1> QED
  BY <1>1, <1>2, QueueFacts, NotifyKeeps, RunsKept

\* An entry ends, a session's only when no run of it is live.
LEMMA CompleteKeeps ==
    ASSUME RunsOK, P!IInv, UNCHANGED restart,
           NEW c \in Cmds, NEW outcome \in {"resolved", "rejected"},
           NEW stk \in Seq(P!Frame), P!CompleteTask(c, outcome, stk),
           \A i \in 1..Len(stk) : stk[i].cmd # NoCmd =>
               i \in 1..Len(stack) /\ stk[i].cmd = stack[i].cmd,
           \A r \in Runs : c = Outer(r) => ~Live(r)
    PROVE  RunsOK'
<1>1. /\ status' = [status EXCEPT ![c] = outcome]
      /\ UNCHANGED <<gatewayDraining, maxConcurrent, generation, home, taskGen>>
  BY DEF P!CompleteTask
<1> DEFINE acts == [active EXCEPT ![home[c]] = @ \ {c}]
<1>2. \/ /\ active' = acts
         /\ waiter' = P!Notify(waiter, UNION {acts[k] : k \in Lanes})
         /\ stack' = Append(stk, [lane |-> home[c], cmd |-> NoCmd])
      \/ stack' = stk /\ UNCHANGED <<active, waiter>>
  BY DEF P!CompleteTask
<1>3. /\ status \in [Cmds -> P!Status] /\ home[c] \in Lanes
      /\ active \in [Lanes -> SUBSET Cmds] /\ P!TypeOK
  BY QueueFacts DEF P!TypeOK
<1>4. \A r \in Runs : Live(r)' => Live(r)
  BY <1>1, <1>3, Entries DEF Live
<1>5. \A r \in Runs : Live(r)' /\ status[Outer(r)] = "running" => status'[Outer(r)] = "running"
  BY <1>1, <1>3, <1>4, Entries
<1>6. \A i \in 1..Len(stack') : stack'[i].cmd # NoCmd =>
          i \in 1..Len(stack) /\ stack'[i].cmd = stack[i].cmd
  <2>1. CASE stack' = Append(stk, [lane |-> home[c], cmd |-> NoCmd])
    <3>1. /\ Len(stack') = Len(stk) + 1
          /\ \A i \in 1..Len(stk) : stack'[i] = stk[i]
          /\ stack'[Len(stk) + 1].cmd = NoCmd
      BY <1>3, <2>1, QueueConstants, P!PushFacts
    <3> QED
      BY <3>1
  <2> QED
    BY <1>2, <2>1
<1>7. \A s \in Sessions : active'[s] \subseteq active[s]
  BY <1>2, <1>3 DEF Lanes
<1>8. \A w \in Restarts : /\ waiter'[w].ids = waiter[w].ids
                          /\ waiter[w].st = "timedOut" => waiter'[w].st = "timedOut"
                          /\ waiter'[w].st \in {"waiting", "drained"} =>
                                waiter[w].st \in {"waiting", "drained"}
  BY <1>2, <1>3, NotifyKeeps
<1> QED
  BY <1>1, <1>4, <1>5, <1>6, <1>7, <1>8, RunsKept

LEMMA FinishKeeps ==
    ASSUME RunsOK, P!IInv, UNCHANGED restart, NEW c \in Cmds, P!Finish(c),
           \A r \in Runs : c = Outer(r) => ~Live(r)
    PROVE  RunsOK'
<1>1. PICK outcome \in {"resolved", "rejected"} : P!CompleteTask(c, outcome, stack)
  BY DEF P!Finish
<1>2. stack \in Seq(P!Frame)
  BY QueueFacts DEF P!TypeOK
<1> QED
  BY <1>1, <1>2, CompleteKeeps

\* A session entry that throws has not submitted its run.
LEMMA ThrowKeeps ==
    ASSUME RunsOK, P!IInv, UNCHANGED restart, InSessionBody, P!TaskThrows
    PROVE  RunsOK'
<1> DEFINE c == P!Top.cmd
           stk == P!InBody(NoCmd)
<1>1. stack # <<>> /\ c # NoCmd /\ c[1] = "session" /\ status[Inner(c[2])] = "new"
  BY DEF InSessionBody, P!Top, Q!Top
<1>2. c \in Cmds
  BY <1>1, QueueConstants, QueueFacts, P!TopBody
<1>3. /\ stk \in Seq(P!Frame) /\ Len(stk) = Len(stack)
      /\ \A i \in 1..Len(stack) : stk[i].cmd = IF i = Len(stack) THEN NoCmd ELSE stack[i].cmd
  BY <1>1, QueueConstants, QueueFacts, P!InBodyFacts
<1>4. P!CompleteTask(c, "rejected", stk)
  BY DEF P!TaskThrows
<1>5. \A r \in Runs : c = Outer(r) => ~Live(r)
  BY <1>1, Entries DEF Live
<1> HIDE DEF c, stk
<1> QED
  BY <1>2, <1>3, <1>4, <1>5, CompleteKeeps

LEMMA BeginKeeps ==
    ASSUME RunsOK, P!IInv, NEW w \in Restarts, restart = "none", waiter[w].st = "idle",
           restart' = w, P!MarkGatewayDraining
    PROVE  RunsOK'
<1>1. /\ gatewayDraining' = TRUE
      /\ UNCHANGED <<active, maxConcurrent, generation, stack, status, home, taskGen, waiter>>
  BY DEF P!MarkGatewayDraining
<1>2. RestartOK' /\ HomeOK' /\ NoOrphanRun' /\ BodyOK' /\ OneSlot'
  BY <1>1 DEF RunsOK, RestartOK, HomeOK, NoOrphanRun, BodyOK, OneSlot
<1>3. WaitedFor'
  BY <1>1 DEF WaitedFor
<1>4. Patient' => \A r \in Runs : Live(r)' => HoldsSlot(r)'
  BY <1>1 DEF RunsOK, Patient, Live, HoldsSlot
<1> QED
  BY <1>1, <1>2, <1>3, <1>4 DEF RunsOK

\* Runs that hold the current slot of their session are among the active tasks.
LEMMA Occupied ==
    ASSUME RunsOK, P!IInv, Patient, NEW r \in Runs, Live(r)
    PROVE  /\ Outer(r) \in active[SessionOf[r]]
           /\ Outer(r) \in P!AllActive
<1>1. status[Outer(r)] = "running" /\ HoldsSlot(r) /\ home[Outer(r)] = SessionOf[r]
  BY Entries DEF RunsOK, NoOrphanRun, Live, HomeOK
<1>2. SessionOf[r] \in Lanes /\ Outer(r) \in Cmds
  BY Entries DEF Lanes
<1>3. Outer(r) \in active[SessionOf[r]]
  BY <1>1, <1>2 DEF P!IInv, P!ActiveExact, HoldsSlot
<1> QED
  BY <1>2, <1>3, QueueConstants, P!AllActiveMember

LEMMA WaitKeeps ==
    ASSUME RunsOK, P!IInv, UNCHANGED restart, restart \in Restarts, restart # "none",
           NEW timed \in BOOLEAN, P!WaitForActiveTasks(restart, timed)
    PROVE  RunsOK'
<1> DEFINE w == restart
           all == P!AllActive
           begun == [waiter EXCEPT ![w] = [st |-> "waiting", ids |-> all]]
<1>1. /\ UNCHANGED <<gatewayDraining, active, maxConcurrent, generation, stack, status, home,
                     taskGen>>
      /\ waiter[w].st = "idle"
  BY DEF P!WaitForActiveTasks, P!queueVars
<1>2. waiter' = IF all = {} THEN [waiter EXCEPT ![w].st = "drained"]
                ELSE IF ~timed THEN [waiter EXCEPT ![w] = [st |-> "timedOut", ids |-> all]]
                ELSE P!Notify(begun, all)
  BY DEF P!WaitForActiveTasks
<1>3. waiter \in [Waiters -> [st : {"idle", "waiting", "drained", "timedOut"},
                              ids : SUBSET Cmds]]
  BY QueueFacts DEF P!TypeOK
<1>4. RestartOK' /\ HomeOK' /\ NoOrphanRun' /\ BodyOK' /\ OneSlot'
  BY <1>1 DEF RunsOK, RestartOK, HomeOK, NoOrphanRun, BodyOK, OneSlot
<1>5. ASSUME Patient' PROVE WaitedFor' /\ \A r \in Runs : Live(r)' => HoldsSlot(r)'
  <2>1. \A v \in Restarts : waiter[v].st = "timedOut" => waiter'[v].st = "timedOut"
    <3> SUFFICES ASSUME NEW v \in Restarts, waiter[v].st = "timedOut"
                 PROVE  waiter'[v].st = "timedOut"
      OBVIOUS
    <3>1. v # w
      BY <1>1
    <3> QED
      BY <1>2, <1>3, <3>1 DEF Waiters, P!Notify
  <2>2. Patient
    BY <1>5, <2>1 DEF Patient
  <2>3. \A r \in Runs : Live(r) => Outer(r) \in all
    BY <2>2, Occupied
  <2>4. all # {} => waiter'[w].ids = all
    BY <1>2, <1>3 DEF Waiters, P!Notify
  <2>5. WaitedFor'
    BY <1>1, <2>3, <2>4 DEF WaitedFor, Live
  <2> QED
    BY <1>1, <2>2, <2>5 DEF RunsOK, Live, HoldsSlot
<1> QED
  BY <1>1, <1>4, <1>5 DEF RunsOK

\* The pump starts the head of a lane, in the current generation.
LEMMA StartKeeps ==
    ASSUME RunsOK, P!IInv, UNCHANGED restart, P!PumpStart
    PROVE  RunsOK'
<1> DEFINE l == P!Top.lane
           c == Head(queue[l])
<1>1. /\ stack # <<>> /\ queue[l] # <<>> /\ Cardinality(active[l]) < maxConcurrent[l]
      /\ active' = [active EXCEPT ![l] = @ \cup {c}]
      /\ status' = [status EXCEPT ![c] = "running"]
      /\ taskGen' = [taskGen EXCEPT ![c] = generation[l]]
      /\ stack' = P!InBody(c)
      /\ UNCHANGED <<gatewayDraining, maxConcurrent, generation, home, waiter>>
  BY SameSizes DEF P!PumpStart
<1>2. /\ stack \in Seq(P!Frame) /\ queue \in [Lanes -> Seq(Cmds)]
      /\ active \in [Lanes -> SUBSET Cmds] /\ status \in [Cmds -> P!Status]
      /\ taskGen \in [Cmds -> Nat] /\ generation \in [Lanes -> Nat]
      /\ home \in [Cmds -> Lanes]
  BY QueueFacts DEF P!TypeOK
<1>3. l \in Lanes
  <2>1. P!Top \in P!Frame
    BY <1>1, QueueConstants, QueueFacts, P!InBodyFacts
  <2> QED
    BY <2>1 DEF P!Frame
<1>4. c \in Cmds /\ status[c] = "queued" /\ home[c] = l
  <2>1. c = queue[l][1] /\ 1 \in 1..Len(queue[l]) /\ c \in Cmds
    BY <1>1, <1>2, <1>3, QueueConstants, P!TailFacts
  <2> QED
    BY <1>3, <2>1 DEF P!IInv, P!QueueOK
<1>5. /\ Len(stack') = Len(stack)
      /\ \A i \in 1..Len(stack) : stack'[i].cmd = IF i = Len(stack) THEN c ELSE stack[i].cmd
  BY <1>1, <1>4, QueueConstants, QueueFacts, P!InBodyFacts
<1> HIDE DEF l, c
<1>6. RestartOK' /\ HomeOK' /\ (restart # "none" => gatewayDraining)'
  BY <1>1 DEF RunsOK, RestartOK, HomeOK
<1>7. \A r \in Runs : /\ Live(r)' => Live(r)
                      /\ Live(r) => Outer(r) # c
  BY <1>1, <1>2, <1>4, Entries DEF Live, RunsOK, NoOrphanRun
<1>8. NoOrphanRun'
  BY <1>1, <1>2, <1>4, <1>7, Entries DEF RunsOK, NoOrphanRun, Live
<1>9. BodyOK'
  <2> SUFFICES ASSUME NEW i \in 1..Len(stack'), stack'[i].cmd # NoCmd
               PROVE  taskGen'[stack'[i].cmd] = generation'[home'[stack'[i].cmd]]
    BY DEF BodyOK
  <2>1. CASE i = Len(stack)
    BY <1>1, <1>2, <1>4, <1>5, <2>1
  <2>2. CASE i # Len(stack)
    <3>1. stack'[i].cmd = stack[i].cmd /\ i \in 1..Len(stack)
      BY <1>5, <2>2
    <3>2. stack[i].cmd \in Cmds /\ status[stack[i].cmd] = "running"
      BY <3>1, QueueFacts
    <3> QED
      BY <1>1, <1>2, <1>4, <3>1, <3>2 DEF RunsOK, BodyOK
  <2> QED
    BY <2>1, <2>2
<1>10. OneSlot'
  <2> SUFFICES ASSUME NEW s \in Sessions
               PROVE  maxConcurrent'[s] = 1 /\ (active'[s] = {} \/ \E d \in Cmds : active'[s] = {d})
    BY DEF OneSlot
  <2>1. maxConcurrent[s] = 1 /\ (active[s] = {} \/ \E d \in Cmds : active[s] = {d})
    BY DEF RunsOK, OneSlot
  <2>2. CASE s = l
    <3>1. \A d \in Cmds : Cardinality({d}) = 1
      BY FS_Singleton
    <3>2. active[s] = {}
      BY <1>1, <2>1, <2>2, <3>1
    <3> QED
      BY <1>1, <1>2, <1>3, <1>4, <2>1, <2>2, <3>2
  <2>3. CASE s # l
    BY <1>1, <1>2, <2>1, <2>3 DEF Lanes
  <2> QED
    BY <2>2, <2>3
<1>11. ASSUME Patient' PROVE WaitedFor' /\ \A r \in Runs : Live(r)' => HoldsSlot(r)'
  <2>1. Patient
    BY <1>1, <1>11 DEF Patient
  <2>2. WaitedFor'
    BY <1>1, <1>7, <2>1 DEF RunsOK, WaitedFor
  <2>3. \A r \in Runs : Live(r)' => HoldsSlot(r)'
    BY <1>1, <1>2, <1>4, <1>7, <2>1, Entries DEF RunsOK, HoldsSlot
  <2> QED
    BY <2>2, <2>3
<1> QED
  BY <1>6, <1>8, <1>9, <1>10, <1>11 DEF RunsOK

\* A restart that was told "drained" has no run to forget.
LEMMA ResetKeeps ==
    ASSUME RunsOK, P!IInv, restart # "none", waiter[restart].st \in {"drained", "timedOut"},
           restart' = "none", P!ResetAllLanes
    PROVE  RunsOK'
<1>1. /\ active' = [l \in Lanes |-> {}] /\ stack = <<>>
      /\ UNCHANGED <<maxConcurrent, stack, status, home, taskGen, waiter>>
  BY DEF P!ResetAllLanes, P!Idle
<1>2. RestartOK' /\ HomeOK' /\ NoOrphanRun' /\ BodyOK'
  BY <1>1 DEF RunsOK, RestartOK, HomeOK, NoOrphanRun, BodyOK
<1>3. OneSlot'
  BY <1>1 DEF RunsOK, OneSlot, Lanes
<1>4. ASSUME Patient' PROVE \A r \in Runs : ~Live(r)'
  <2>1. Patient /\ restart \in Restarts
    BY <1>1, <1>4 DEF RunsOK, RestartOK, Patient
  <2>2. waiter[restart].st = "drained"
    BY <2>1 DEF Patient
  <2>3. \A c \in waiter[restart].ids, l \in Lanes : c \notin active[l]
    BY <2>1, <2>2 DEF P!IInv, P!WaitersOK, Waiters
  <2>4. \A r \in Runs : Live(r) => Outer(r) \in waiter[restart].ids
    BY <2>1, <2>2 DEF RunsOK, WaitedFor
  <2>5. \A r \in Runs : ~Live(r)
    BY <2>1, <2>3, <2>4, Occupied, Entries DEF Lanes
  <2> QED
    BY <1>1, <2>5 DEF Live
<1>5. WaitedFor'
  BY DEF WaitedFor
<1> QED
  BY <1>2, <1>3, <1>4, <1>5 DEF RunsOK

-----------------------------------------------------------------------------
(* The steps of the runs.                                                  *)

LEMMA RunsInit == Init => P!Init /\ RunsOK
<1> SUFFICES ASSUME Init PROVE P!Init /\ RunsOK
  OBVIOUS
<1>1. P!Init
  BY SameQueue DEF Init
<1>2. /\ status = [c \in Cmds |-> "new"] /\ active = [l \in Lanes |-> {}]
      /\ maxConcurrent = [l \in Lanes |-> 1] /\ stack = <<>>
      /\ home = [c \in Cmds |-> LaneFor(c)] /\ restart = "none"
  BY <1>1 DEF P!Init, Init
<1>3. \A r \in Runs : ~Live(r)
  BY <1>2, Entries DEF Live
<1>4. NoOrphanRun
  BY <1>3 DEF NoOrphanRun, Live
<1>5. RestartOK /\ HomeOK /\ BodyOK /\ WaitedFor /\ OneSlot
  BY <1>2 DEF RestartOK, HomeOK, BodyOK, WaitedFor, OneSlot, Lanes
<1> QED
  BY <1>1, <1>2, <1>3, <1>4, <1>5 DEF RunsOK

LEMMA ConfiguredGlobal == ConfiguredLanes \subseteq Lanes \ Sessions
BY RunsAssumption DEF ConfiguredLanes, Lanes, GlobalLanes

LEMMA RunStep ==
    ASSUME RunsOK, P!IInv, [Next]_vars
    PROVE  RunsOK' /\ [P!Next]_(P!vars)
<1>1. CASE UNCHANGED vars
  <2>1. UNCHANGED P!vars /\ UNCHANGED restart
    BY <1>1 DEF vars, P!vars, Q!vars, P!queueVars, Q!queueVars
  <2>2. UNCHANGED <<gatewayDraining, active, maxConcurrent, generation, stack, status, home,
                    taskGen, waiter>>
    BY <2>1 DEF P!vars, P!queueVars
  <2>3. \A r \in Runs : Live(r)' => Live(r)
    BY <2>2 DEF Live
  <2> QED
    BY <2>1, <2>2, <2>3, RunsKept
<1>2. ASSUME UNCHANGED restart, NEW c \in Cmds, Enqueue(c),
             \A r \in Runs : c = Inner(r) => status[Outer(r)] = "running" /\ HoldsSlot(r)
      PROVE  RunsOK' /\ P!Next
  <2>1. P!EnqueueCommandInLane(c) \/ P!RefuseEnqueue(c)
    BY <1>2, SameQueue DEF Enqueue
  <2> QED
    BY <1>2, <2>1, SubmitKeeps DEF P!Next, P!CallerStep
<1>3. CASE Pump
  <2>1. P!PumpStart \/ P!PumpExit
    BY <1>3, SameQueue DEF Pump
  <2>2. UNCHANGED restart
    BY <1>3 DEF Pump
  <2> QED
    BY <2>1, <2>2, StartKeeps, PumpExitKeeps DEF P!Next, P!QueueStep
<1>4. CASE SessionTask
  <2> DEFINE c == P!Top.cmd
  <2>1. /\ stack # <<>> /\ c # NoCmd /\ c[1] = "session" /\ Enqueue(Inner(c[2]))
    BY <1>4 DEF SessionTask, InSessionBody, P!Top, Q!Top
  <2>2. /\ c = stack[Len(stack)].cmd /\ Len(stack) \in 1..Len(stack)
    BY <2>1, QueueFacts DEF P!TypeOK, P!Top
  <2>3. c \in Cmds /\ status[c] = "running" /\ taskGen[c] = generation[home[c]]
    BY <2>1, <2>2, QueueFacts DEF RunsOK, BodyOK
  <2> HIDE DEF c
  <2>4. PICK q \in Runs : c = Outer(q) /\ c[2] = q
    BY <2>1, <2>3, Kinds
  <2>5. home[c] = SessionOf[q]
    BY <2>3, <2>4, Entries DEF RunsOK, HomeOK
  <2>6. \A r \in Runs : Inner(q) = Inner(r) => status[Outer(r)] = "running" /\ HoldsSlot(r)
    BY <2>3, <2>4, <2>5, Distinct DEF HoldsSlot
  <2>7. UNCHANGED restart /\ Enqueue(Inner(q)) /\ Inner(q) \in Cmds
    BY <2>1, <2>4, Entries DEF Enqueue
  <2> QED
    BY <1>2, <2>6, <2>7
<1>5. CASE ResetStep
  <2>1. (\E l \in Lanes : P!ResetDrain(l)) \/ P!ResetNotify
    BY <1>5, SameQueue DEF ResetStep
  <2>2. UNCHANGED restart
    BY <1>5 DEF ResetStep
  <2> QED
    BY <2>1, <2>2, ResetDrainKeeps, ResetNotifyKeeps DEF P!Next, P!QueueStep
<1>6. CASE SessionTaskAborted
  BY <1>6, SameQueue, ThrowKeeps DEF SessionTaskAborted, P!Next, P!TaskStep
<1>7. ASSUME NEW r \in Runs, EnqueueRun(r) PROVE RunsOK' /\ P!Next
  <2>1. Cron(r) \in Cmds /\ UNCHANGED restart /\ Enqueue(Cron(r))
    BY <1>7, Entries DEF EnqueueRun, Enqueue
  <2> QED
    BY <1>2, <2>1, Distinct
<1>8. ASSUME NEW r \in Runs, RunEmbeddedPiAgent(r) PROVE RunsOK' /\ P!Next
  <2>1. Outer(r) \in Cmds /\ UNCHANGED restart /\ Enqueue(Outer(r))
    BY <1>8, Entries DEF RunEmbeddedPiAgent, Enqueue
  <2> QED
    BY <1>2, <2>1, Distinct
<1>9. ASSUME NEW c \in Cmds, Finish(c) PROVE RunsOK' /\ P!Next
  <2>1. P!Finish(c) /\ UNCHANGED restart /\ MayFinish(c)
    BY <1>9, SameQueue DEF Finish
  <2>2. ASSUME NEW r \in Runs, c = Outer(r) PROVE ~Live(r)
    <3>1. Settled(Inner(r))
      BY <2>1, <2>2, Entries DEF MayFinish
    <3> QED
      BY <3>1 DEF Settled, Q!Settled, Live
  <2> QED
    BY <2>1, <2>2, FinishKeeps DEF P!Next, P!TaskStep
<1>10. ASSUME NEW l \in ConfiguredLanes, NEW n \in Requested, ApplyGatewayLaneConcurrency(l, n)
       PROVE  RunsOK' /\ P!Next
  <2>1. /\ l \in Lanes \ Sessions /\ l \in Lanes
        /\ P!SetCommandLaneConcurrency(l, n) /\ UNCHANGED restart
    BY <1>10, ConfiguredGlobal, SameQueue DEF ApplyGatewayLaneConcurrency
  <2> QED
    BY <2>1, ConcurrencyKeeps DEF P!Next, P!CallerStep
<1>11. ASSUME NEW s \in Sessions, ClearSessionLane(s) PROVE RunsOK' /\ P!Next
  <2>1. s \in Lanes /\ P!ClearCommandLane(s) /\ UNCHANGED restart
    BY <1>11, SameQueue DEF ClearSessionLane, Lanes
  <2> QED
    BY <2>1, ClearKeeps DEF P!Next, P!CallerStep
<1>12. ASSUME NEW w \in Restarts, BeginRestart(w) PROVE RunsOK' /\ P!Next
  BY <1>12, SameQueue, BeginKeeps DEF BeginRestart, P!Next, P!CallerStep
<1>13. ASSUME NEW timed \in BOOLEAN, DrainForRestart(timed) PROVE RunsOK' /\ P!Next
  <2>1. restart \in Restarts /\ restart # "none" /\ UNCHANGED restart
    BY <1>13 DEF RunsOK, RestartOK, DrainForRestart
  <2>2. P!WaitForActiveTasks(restart, timed) /\ restart \in Waiters
    BY <1>13, <2>1, SameQueue DEF DrainForRestart, Waiters
  <2> QED
    BY <2>1, <2>2, WaitKeeps DEF P!Next, P!CallerStep
<1>14. CASE DrainTimeout
  <2>1. restart \in Waiters /\ UNCHANGED restart
    BY <1>14 DEF RunsOK, RestartOK, DrainTimeout, Waiters
  <2>2. P!WaiterTimeout(restart)
    BY <1>14, <2>1, SameQueue DEF DrainTimeout
  <2> QED
    BY <2>1, <2>2, TimeoutKeeps DEF P!Next, P!CallerStep
<1>15. CASE NextIteration
  BY <1>15, SameQueue, ResetKeeps DEF NextIteration, P!Next, P!CallerStep
<1> QED
  BY <1>1, <1>3, <1>4, <1>5, <1>6, <1>7, <1>8, <1>9, <1>10, <1>11, <1>12, <1>13, <1>14, <1>15
     DEF Next, QueueStep

-----------------------------------------------------------------------------
(* The theorems.                                                           *)

\* The queue's invariant and the runs', whatever runs, restarts and limits.
THEOREM RunsInvariant == Spec => [](P!IInv /\ RunsOK)
<1>1. Init => P!IInv /\ RunsOK
  BY RunsInit, QueueConstants, P!InitIInv
<1>2. P!IInv /\ RunsOK /\ [Next]_vars => (P!IInv /\ RunsOK)'
  <2> SUFFICES ASSUME P!IInv, RunsOK, [Next]_vars PROVE (P!IInv /\ RunsOK)'
    OBVIOUS
  <2>1. RunsOK' /\ [P!Next]_(P!vars)
    BY RunStep
  <2> QED
    BY <2>1, QueueConstants, P!StepIInv
<1> QED
  BY <1>1, <1>2, PTL DEF Spec

\* Agent runs use the command queue as any of its callers may: what is proved of
\* the queue holds of their lanes.
THEOREM RunsUseTheQueue == Spec => Q!Spec
<1>1. Init => Q!Init
  BY DEF Init
<1>2. P!IInv /\ RunsOK /\ [Next]_vars => [Q!Next]_(Q!vars)
  <2> SUFFICES ASSUME P!IInv, RunsOK, [Next]_vars PROVE Q!Next \/ UNCHANGED Q!vars
    OBVIOUS
  <2>1. P!Next \/ UNCHANGED P!vars
    BY RunStep
  <2>2. UNCHANGED P!vars => UNCHANGED Q!vars
    BY DEF P!vars, Q!vars, P!queueVars, Q!queueVars
  <2>3. P!Next => Q!Next
    BY SameQueue DEF P!Next, Q!Next, P!QueueStep, Q!QueueStep, P!CallerStep, Q!CallerStep,
                     P!TaskStep, Q!TaskStep
  <2> QED
    BY <2>1, <2>2, <2>3
<1> QED
  BY <1>1, <1>2, RunsInvariant, PTL DEF Spec, Q!Spec

\* No caller is answered while its run waits for or holds a global slot.
THEOREM NoRunForgotten == Spec => []NoOrphanRun
<1>1. RunsOK => NoOrphanRun
  BY DEF RunsOK
<1> QED
  BY <1>1, RunsInvariant, PTL

\* Two runs of one session are under way at once only after a restart that
\* gave up waiting for them.
THEOREM SessionsRunAlone == Spec => []OverlapOnlyAfterTimeout
<1>1. P!IInv /\ RunsOK => OverlapOnlyAfterTimeout
  <2> SUFFICES ASSUME P!IInv, RunsOK, Patient, NEW s \in Sessions
               PROVE  Cardinality(RunsIn(s)) <= 1
    BY DEF OverlapOnlyAfterTimeout, OneRunPerSession, Patient
  <2>1. ASSUME NEW r \in RunsIn(s) PROVE r \in Runs /\ Outer(r) \in active[s]
    <3>1. r \in Runs /\ SessionOf[r] = s /\ Inner(r) \in active[home[Inner(r)]]
      BY DEF RunsIn
    <3>2. home[Inner(r)] \in Lanes
      BY <3>1, QueueFacts, Entries DEF P!TypeOK
    <3>3. Live(r)
      BY <3>1, <3>2 DEF P!IInv, P!ActiveExact, Live
    <3> QED
      BY <3>1, <3>3, Occupied
  <2>2. \A r, q \in RunsIn(s) : r = q
    <3> SUFFICES ASSUME NEW r \in RunsIn(s), NEW q \in RunsIn(s) PROVE r = q
      OBVIOUS
    <3>1. active[s] = {} \/ \E c \in Cmds : active[s] = {c}
      BY DEF RunsOK, OneSlot
    <3> QED
      BY <2>1, <3>1, Distinct
  <2>3. CASE RunsIn(s) = {}
    BY <2>3, FS_EmptySet
  <2>4. CASE RunsIn(s) # {}
    <3>1. PICK r : r \in RunsIn(s)
      BY <2>4
    <3>2. RunsIn(s) = {r}
      BY <2>2, <3>1
    <3>3. Cardinality({r}) = 1
      BY FS_Singleton
    <3> QED
      BY <3>2, <3>3
  <2> QED
    BY <2>3, <2>4
<1> QED
  BY <1>1, RunsInvariant, PTL

-----------------------------------------------------------------------------
(* The run loop: its inductive invariant.                                  *)

\* The loop and the handler take turns: the handler works only while the loop
\* awaits its restart promise, which is then still to be resolved.
TurnsOK ==
    /\ loop \in {"starting", "releasing"} => handler = "idle"
    /\ loop = "waiting" => resolver = "live"

\* What is listening is what the handler will close, or has closed.
ServerOK ==
    /\ closing => handler = "closing"
    /\ listening => server \/ closing
    /\ loop \in {"starting", "releasing"} => ~listening
    /\ handler = "closing" /\ listening => closing
    /\ handler \in {"closed", "reacquiring"} => ~listening
    /\ ~Alive => ~listening /\ handler = "idle"

\* The queue refuses work only while the handler is at work.
DrainOK == Alive /\ handler = "idle" => ~gatewayDraining

\* The lock is held all the time but between its release and its reacquisition.
LockOK == Alive /\ ~lockGivenUp /\ handler # "reacquiring" => lock = "self"

LoopInv == TypeOK /\ TurnsOK /\ ServerOK /\ DrainOK /\ LockOK

LEMMA InitLoopInv == GatewayInit => LoopInv
  BY DEF GatewayInit, LoopInv, TypeOK, TurnsOK, ServerOK, DrainOK, LockOK, Alive

\* An exit ends everything the invariant speaks of.
LEMMA ExitLoopInv == ASSUME LoopInv, Exit PROVE LoopInv'
  BY DEF LoopInv, Exit, TypeOK, TurnsOK, ServerOK, DrainOK, LockOK, Alive

\* Requests that set timers, polls and flags only.
LEMMA RequestLoopInv ==
    ASSUME LoopInv, UNCHANGED <<loopVars, handlerVars, gatewayDraining, lock, lockGivenUp>>,
           timer' \in BOOLEAN, polls' \subseteq {"timer", "reload"},
           restartPending' \in BOOLEAN, restartOwed' \in BOOLEAN
    PROVE  LoopInv'
  BY DEF LoopInv, loopVars, handlerVars, TypeOK, TurnsOK, ServerOK, DrainOK, LockOK, Alive

\* An emission begins a drain, while the loop waits.
LEMMA EmitLoopInv ==
    ASSUME LoopInv, loop = "waiting", EmitGatewayRestart,
           UNCHANGED <<loopVars, lock, lockGivenUp>>,
           restartPending' \in BOOLEAN, restartOwed' \in BOOLEAN
    PROVE  LoopInv'
  <1>1. CASE shuttingDown
    BY <1>1, RequestLoopInv DEF LoopInv, EmitGatewayRestart, TypeOK
  <1>2. CASE ~shuttingDown
    <2>1. handler = "idle" /\ ~closing
      BY <1>2 DEF LoopInv, TypeOK, ServerOK, Alive
    <2>2. QED
      BY <1>2, <2>1 DEF EmitGatewayRestart, LoopInv, loopVars, TypeOK, TurnsOK, ServerOK,
                        DrainOK, LockOK, Alive
  <1>3. QED  BY <1>1, <1>2

\* The loop goes on after a restart, its lock held or given up.
LEMMA ResumeLoopInv ==
    ASSUME LoopInv, handler \in {"closed", "reacquiring"}, Resume,
           lock' = "self" \/ (lockGivenUp /\ lock' = lock)
    PROVE  LoopInv'
  <1>1. resolver = "live" /\ ~closing /\ ~listening
    BY DEF LoopInv, TypeOK, TurnsOK, ServerOK, Alive
  <1>2. QED
    BY <1>1 DEF Resume, LoopInv, TypeOK, TurnsOK, ServerOK, DrainOK, LockOK, Alive, requestVars

LEMMA LoopStepInv == ASSUME LoopInv, LoopStep PROVE LoopInv'
  <1>1. CASE StartSucceeds
    BY <1>1 DEF StartSucceeds, LoopInv, handlerVars, TypeOK, TurnsOK, ServerOK, DrainOK,
                LockOK, Alive
  <1>2. CASE FirstStartFails
    BY <1>2, ExitLoopInv DEF FirstStartFails
  <1>3. CASE RestartFails
    BY <1>3 DEF RestartFails, LoopInv, handlerVars, requestVars, TypeOK, TurnsOK, ServerOK,
                DrainOK, LockOK, Alive
  <1>4. CASE ReleaseAfterFailure
    BY <1>4 DEF ReleaseAfterFailure, LoopInv, handlerVars, requestVars, TypeOK, TurnsOK,
                ServerOK, DrainOK, LockOK, Alive
  <1>5. QED  BY <1>1, <1>2, <1>3, <1>4 DEF LoopStep

LEMMA HandlerStepInv == ASSUME LoopInv, HandlerStep PROVE LoopInv'
  <1>1. CASE DrainDone
    BY <1>1 DEF DrainDone, LoopInv, loopVars, requestVars, TypeOK, TurnsOK, ServerOK,
                DrainOK, LockOK, Alive
  <1>2. CASE CloseDone
    BY <1>2 DEF CloseDone, LoopInv, requestVars, TypeOK, TurnsOK, ServerOK, DrainOK, LockOK,
                Alive
  <1>3. CASE ExitAfterClose
    BY <1>3, ExitLoopInv DEF ExitAfterClose
  <1>4. CASE ReleaseForRestart
    BY <1>4 DEF ReleaseForRestart, LoopInv, loopVars, requestVars, TypeOK, TurnsOK, ServerOK,
                DrainOK, LockOK, Alive
  <1>5. CASE ResumeWithoutLock
    <2>1. handler = "closed" /\ Resume /\ lock' = lock /\ lock # "self"
      BY <1>5 DEF ResumeWithoutLock
    <2>2. lockGivenUp
      BY <2>1 DEF LoopInv, ServerOK, LockOK
    <2>3. QED  BY <2>1, <2>2, ResumeLoopInv
  <1>6. CASE Reacquire
    <2>1. handler = "reacquiring" /\ Resume /\ lock' = "self"
      BY <1>6 DEF Reacquire
    <2>2. QED  BY <2>1, ResumeLoopInv
  <1>7. CASE ReacquireFails
    BY <1>7, ExitLoopInv DEF ReacquireFails
  <1>8. QED  BY <1>1, <1>2, <1>3, <1>4, <1>5, <1>6, <1>7 DEF HandlerStep

LEMMA EventLoopInv ==
    ASSUME LoopInv, ~EventsOutsideWait,
           \/ RestartTimerFires
           \/ \E p \in {"timer", "reload"} : DeferralPollEnds(p)
           \/ ScheduleGatewaySigusr1Restart
           \/ ExternalSigusr1Ignored
           \/ ConfigChangeIdle
           \/ ConfigChangeBusy
           \/ Sigterm
    PROVE  LoopInv'
  <1>1. loop = "waiting"
    BY DEF RestartTimerFires, DeferralPollEnds, ScheduleGatewaySigusr1Restart,
           ExternalSigusr1Ignored, ConfigChangeIdle, ConfigChangeBusy, Sigterm, EventPossible
  <1>2. /\ timer \in BOOLEAN
        /\ polls \subseteq {"timer", "reload"}
        /\ restartPending \in BOOLEAN
        /\ restartOwed \in BOOLEAN
    BY DEF LoopInv, TypeOK
  <1>3. CASE RestartTimerFires
    <2>1. CASE EmitGatewayRestart
      BY <1>1, <1>2, <1>3, <2>1, EmitLoopInv DEF RestartTimerFires
    <2>2. CASE ~EmitGatewayRestart
      BY <1>2, <1>3, <2>2, RequestLoopInv DEF RestartTimerFires
    <2>3. QED  BY <2>1, <2>2
  <1>4. ASSUME NEW p \in {"timer", "reload"}, DeferralPollEnds(p)
        PROVE  LoopInv'
    BY <1>1, <1>2, <1>4, EmitLoopInv DEF DeferralPollEnds
  <1>5. CASE ScheduleGatewaySigusr1Restart
    BY <1>2, <1>5, RequestLoopInv DEF ScheduleGatewaySigusr1Restart
  <1>6. CASE ExternalSigusr1Ignored
    BY <1>2, <1>6, RequestLoopInv DEF ExternalSigusr1Ignored, requestVars
  <1>7. CASE ConfigChangeIdle
    BY <1>1, <1>2, <1>7, EmitLoopInv DEF ConfigChangeIdle
  <1>8. CASE ConfigChangeBusy
    <2>1. polls' \subseteq {"timer", "reload"}
      BY <1>2, <1>8 DEF ConfigChangeBusy
    <2>2. QED  BY <1>2, <1>8, <2>1, RequestLoopInv DEF ConfigChangeBusy
  <1>9. CASE Sigterm
    <2>1. CASE shuttingDown
      BY <1>2, <1>9, <2>1, RequestLoopInv DEF Sigterm, requestVars
    <2>2. CASE ~shuttingDown
      BY <1>1, <1>9, <2>2 DEF Sigterm, LoopInv, loopVars, requestVars, TypeOK, TurnsOK,
                              ServerOK, DrainOK, LockOK, Alive
    <2>3. QED  BY <2>1, <2>2
  <1>10. QED  BY <1>3, <1>4, <1>5, <1>6, <1>7, <1>8, <1>9

\* The other processes: they take the lock only while it is free.
LEMMA OtherLoopInv == ASSUME LoopInv, OtherTakesLock \/ OtherLeavesLock PROVE LoopInv'
  <1>1. /\ UNCHANGED <<loopVars, handlerVars, requestVars, gatewayDraining, restartOwed,
                        lockGivenUp>>
        /\ lock # "self" /\ lock' \in {"other", "free"}
    BY DEF OtherTakesLock, OtherLeavesLock
  <1>2. TypeOK' /\ TurnsOK' /\ ServerOK' /\ DrainOK'
    BY <1>1 DEF LoopInv, loopVars, handlerVars, requestVars, TypeOK, TurnsOK, ServerOK, DrainOK,
                Alive
  <1>3. LockOK'
    BY <1>1 DEF LoopInv, loopVars, handlerVars, LockOK, Alive
  <1>4. QED  BY <1>2, <1>3 DEF LoopInv

LEMMA NextLoopInv == ~EventsOutsideWait /\ LoopInv /\ [GatewayNext]_gatewayVars => LoopInv'
  <1> SUFFICES ASSUME ~EventsOutsideWait, LoopInv, [GatewayNext]_gatewayVars PROVE LoopInv'  OBVIOUS
  <1>1. CASE ForceExit
    BY <1>1, ExitLoopInv DEF ForceExit
  <1>2. CASE UNCHANGED gatewayVars
    BY <1>2, RequestLoopInv DEF gatewayVars, requestVars, LoopInv, TypeOK
  <1>3. QED
    BY <1>1, <1>2, LoopStepInv, HandlerStepInv, EventLoopInv, OtherLoopInv DEF GatewayNext

\* The invariant, when events come while the loop waits.
LEMMA LoopInvariant == ASSUME ~EventsOutsideWait PROVE GatewaySpec => []LoopInv
  <1>1. LoopInv /\ [GatewayNext]_gatewayVars => LoopInv'
    BY NextLoopInv
  <1>2. QED
    BY <1>1, InitLoopInv, PTL DEF GatewaySpec

\* shuttingDown is set exactly while the signal handler is at work, so that no
\* signal is taken twice and none is ignored after the handler's end.
THEOREM LoopTypeCorrect == ASSUME ~EventsOutsideWait PROVE GatewaySpec => []TypeOK
  BY LoopInvariant, PTL DEF LoopInv

\* Whatever restarts, failing starts and stops interleave, a gateway that listens
\* with no shutdown under way accepts work: markGatewayDraining is always undone.
THEOREM DrainEnds == ASSUME ~EventsOutsideWait PROVE GatewaySpec => []DrainWindowCloses
  <1>1. LoopInv => DrainWindowCloses
    BY DEF LoopInv, ServerOK, DrainOK, DrainWindowCloses
  <1>2. QED  BY <1>1, LoopInvariant, PTL

\* The server variable never loses a server that still listens.
THEOREM NoServerLost == ASSUME ~EventsOutsideWait PROVE GatewaySpec => []NoOrphanServer
  <1>1. LoopInv => NoOrphanServer
    BY DEF LoopInv, ServerOK, NoOrphanServer
  <1>2. QED  BY <1>1, LoopInvariant, PTL

\* A gateway that listens holds the lock it has not given up, for any number of
\* restarts: the lock is released only between close and the next start.
THEOREM LockHeldWhileServing == ASSUME ~EventsOutsideWait PROVE GatewaySpec => []ServingHoldsLock
  <1>1. LoopInv => ServingHoldsLock
    BY DEF LoopInv, ServerOK, LockOK, ServingHoldsLock
  <1>2. QED  BY <1>1, LoopInvariant, PTL
==============================================================================

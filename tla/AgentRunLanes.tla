--------------------------- MODULE AgentRunLanes ----------------------------
(***************************************************************************)
(* Agent runs on top of the command queue.  runEmbeddedPiAgent (and        *)
(* compactEmbeddedPiSession) submits a run to its session's lane; the      *)
(* entry's task submits a second entry to a global lane from inside the    *)
(* pump and holds the session's slot until that one settles.  A manual     *)
(* cron run is a third entry around the two, on the cron lane.  The        *)
(* gateway's run loop drains and resets the lanes on an in-process         *)
(* restart.                                                                *)
(***************************************************************************)
EXTENDS Naturals, Sequences, FiniteSets, GatewayDraining

CONSTANTS
    Runs,           \* agent runs
    Sessions,       \* session keys, each its own lane
    SessionOf,      \* [Runs -> Sessions]
    LaneArg,        \* [Runs -> {"main", "cron", "subagent"}], params.lane
    Requested,      \* configured concurrency of the global lanes
    Restarts,       \* restarts that may be requested
    NoCmd

GlobalLanes == {"main", "cron", "subagent", "nested"}
Lanes == Sessions \cup GlobalLanes

ASSUME RunsAssumption ==
    /\ SessionOf \in [Runs -> Sessions]
    /\ LaneArg \in [Runs -> {"main", "cron", "subagent"}]
    /\ Sessions \cap GlobalLanes = {}
    /\ Requested \subseteq Nat
    /\ IsFiniteSet(Restarts)

CronRuns == {r \in Runs : LaneArg[r] = "cron"}

\* The entry holding the cron slot, the session's slot, and the run itself.
Cron(r) == <<"cron", r>>
Outer(r) == <<"session", r>>
Inner(r) == <<"global", r>>

Cmds == {Cron(r) : r \in CronRuns} \cup {Outer(r) : r \in Runs}
            \cup {Inner(r) : r \in Runs}

ASSUME NoCmdAssumption == NoCmd \notin Cmds

Waiters == Restarts
MaxGen == Cardinality(Restarts)

VARIABLES queue, active, maxConcurrent, draining, generation,
          stack, resetting, toDrain, status, home, taskGen, waiter,
          restart   \* the restart being carried out, or "none"

Q == INSTANCE CommandQueue

vars == <<Q!vars, restart>>

\* Mutant: a cron job's run goes to the lane whose slot the job holds.
SameGlobalLane(lane) == lane

\* Cron jobs hold the cron slot, so their runs go to the nested lane.
ResolveGlobalLane(lane) == IF lane = "cron" THEN "nested" ELSE lane

LaneFor(c) ==
    CASE c[1] = "cron"    -> "cron"
      [] c[1] = "session" -> SessionOf[c[2]]
      [] c[1] = "global"  -> ResolveGlobalLane(LaneArg[c[2]])

Init ==
    /\ Q!Init
    /\ home = [c \in Cmds |-> LaneFor(c)]
    /\ restart = "none"

-----------------------------------------------------------------------------
Settled(c) == status[c] \in Q!Settled

\* The innermost frame is inside the task of a session entry whose run has not
\* been submitted to its global lane yet.
InSessionBody ==
    /\ stack # <<>>
    /\ Q!Top.cmd # NoCmd
    /\ Q!Top.cmd[1] = "session"
    /\ status[Inner(Q!Top.cmd[2])] = "new"

\* A callback of the event loop other than the restart handler, which marks the
\* gateway as draining and starts to wait in one turn.
EventLoop ==
    /\ Q!Idle
    /\ restart # "none" => waiter[restart].st # "idle"

\* A call of enqueueCommandInLane, accepted or refused.
Enqueue(c) ==
    /\ Q!EnqueueCommandInLane(c) \/ Q!RefuseEnqueue(c)
    /\ UNCHANGED restart

\* A manual cron run is queued; its job later starts its agent run.
EnqueueRun(r) ==
    /\ EventLoop
    /\ r \in CronRuns
    /\ Enqueue(Cron(r))

RunEmbeddedPiAgent(r) ==
    /\ EventLoop
    /\ r \in CronRuns => status[Cron(r)] = "running"
    /\ Enqueue(Outer(r))

\* The session entry's task, inside the pump: submit the run itself ...
SessionTask ==
    /\ InSessionBody
    /\ Enqueue(Inner(Q!Top.cmd[2]))

\* ... or throw, when the run was aborted while it waited.
SessionTaskAborted ==
    /\ InSessionBody
    /\ Q!TaskThrows
    /\ UNCHANGED restart

Pump ==
    /\ ~InSessionBody
    /\ Q!PumpStart \/ Q!PumpExit
    /\ UNCHANGED restart

\* Mutant: the session entry does not wait for the run it has submitted.
MayFinishEarly(c) ==
    CASE c[1] = "cron"    -> status[Outer(c[2])] = "new" \/ Settled(Outer(c[2]))
      [] c[1] = "session" -> TRUE
      [] c[1] = "global"  -> TRUE

\* An entry that waits for another one settles after it.
MayFinish(c) ==
    CASE c[1] = "cron"    -> status[Outer(c[2])] = "new" \/ Settled(Outer(c[2]))
      [] c[1] = "session" -> Settled(Inner(c[2]))
      [] c[1] = "global"  -> TRUE

Finish(c) ==
    /\ EventLoop
    /\ MayFinish(c)
    /\ Q!Finish(c)
    /\ UNCHANGED restart

\* Startup and config reload set the limits of three global lanes; those no
\* run uses are left out.
ConfiguredLanes == {"main", "cron", "subagent"} \cap {LaneFor(c) : c \in Cmds}

ApplyGatewayLaneConcurrency(l, n) ==
    /\ EventLoop
    /\ Q!SetCommandLaneConcurrency(l, n)
    /\ UNCHANGED restart

\* A message that interrupts, or a session reset, clears the session's lane.
ClearSessionLane(s) ==
    /\ EventLoop
    /\ Q!ClearCommandLane(s)
    /\ UNCHANGED restart

\* The run loop's restart: new work is refused, the active work waited for
\* within a time limit, and the lanes reset at the next iteration.
BeginRestart(w) ==
    /\ restart = "none"
    /\ waiter[w].st = "idle"
    /\ restart' = w
    /\ Q!MarkGatewayDraining

DrainForRestart(timed) ==
    /\ restart # "none"
    /\ Q!WaitForActiveTasks(restart, timed)
    /\ UNCHANGED restart

DrainTimeout ==
    /\ restart # "none"
    /\ Q!WaiterTimeout(restart)
    /\ UNCHANGED restart

NextIteration ==
    /\ restart # "none"
    /\ waiter[restart].st \in {"drained", "timedOut"}
    /\ restart' = "none"
    /\ Q!ResetAllLanes

ResetStep ==
    /\ (\E l \in Lanes : Q!ResetDrain(l)) \/ Q!ResetNotify
    /\ UNCHANGED restart

QueueStep == Pump \/ SessionTask \/ ResetStep

Next ==
    \/ QueueStep
    \/ SessionTaskAborted
    \/ \E r \in Runs : EnqueueRun(r) \/ RunEmbeddedPiAgent(r)
    \/ \E c \in Cmds : Finish(c)
    \/ \E l \in ConfiguredLanes, n \in Requested : ApplyGatewayLaneConcurrency(l, n)
    \/ \E s \in Sessions : ClearSessionLane(s)
    \/ \E w \in Restarts : BeginRestart(w)
    \/ \E timed \in BOOLEAN : DrainForRestart(timed)
    \/ DrainTimeout
    \/ NextIteration

Spec == Init /\ [][Next]_vars

(***************************************************************************)
(* The queue's code runs once entered; runs end, by their timeout at the   *)
(* latest, and an entry's handler runs once what it awaits has settled.    *)
(***************************************************************************)
FairSpec ==
    /\ Spec
    /\ WF_vars(QueueStep)
    /\ WF_vars(\E timed \in BOOLEAN : DrainForRestart(timed))
    /\ \A c \in Cmds : SF_vars(Finish(c))

-----------------------------------------------------------------------------
RunsIn(s) == {r \in Runs : SessionOf[r] = s /\ Inner(r) \in active[home[Inner(r)]]}

\* Per-session lanes let only one agent run of a session hold a global slot,
\* however session and global lanes are pumped, cleared and resized.
OneRunPerSession == \A s \in Sessions : Cardinality(RunsIn(s)) <= 1

\* The guarantee survives a restart, too, as long as no restart gave up waiting
\* for active runs before it reset their lanes.
OverlapOnlyAfterTimeout ==
    (\A w \in Restarts : waiter[w].st # "timedOut") => OneRunPerSession

\* Nothing runs for a caller that has already been answered: while a run waits
\* for or holds a global slot, its session entry has not settled.
NoOrphanRun ==
    \A r \in Runs :
        status[Inner(r)] \in {"queued", "running"} => status[Outer(r)] = "running"

\* Lanes held while waiting for other lanes never wait in a circle: every run
\* that was accepted settles, those of cron jobs holding the cron slot and
\* those preserved across a restart included.
EveryRunSettles ==
    \A r \in Runs : status[Outer(r)] = "queued" ~> Settled(Outer(r))
=============================================================================

-------------------------- MODULE SessionWriteLock ---------------------------
(***************************************************************************)
(* The lock that processes take before they write a session's transcript:  *)
(* a file beside it, created exclusively and filled with its owner in a    *)
(* second step.  Within a process callers may share the lock by a count.   *)
(* A file whose owner is dead, or that is too old, is judged and then      *)
(* removed by whoever finds it in the way, by the path alone; a watchdog   *)
(* and signals take a lock away from callers that go on.                   *)
(*                                                                         *)
(* One session file.  Code between two awaits is one action, and so is the *)
(* reading of a lock file with the judgement of what was read.             *)
(***************************************************************************)
EXTENDS Naturals, FiniteSets

CONSTANTS
    Procs,          \* processes by pid; a restarted one has its old pid
    Callers,        \* calls of acquireSessionWriteLock, each made once
    ProcOf,         \* [Callers -> Procs]
    Exclusive,      \* the callers with allowReentrant = false
    Platforms,      \* does the platform tell when a process was started?
    StaleAfter,     \* staleMs, in ticks
    MaxHold,        \* maxHoldMs, in ticks
    MaxFailures     \* bound: signals, crashes and failed writes together

ASSUME LockAssumption ==
    /\ Procs # {} /\ IsFiniteSet(Callers)
    /\ ProcOf \in [Callers -> Procs]
    /\ Exclusive \subseteq Callers
    /\ Platforms \subseteq BOOLEAN
    /\ StaleAfter \in Nat /\ MaxHold \in Nat /\ MaxFailures \in Nat

VARIABLES
    startTimes, \* the platform
    up, life,   \* [Procs -> BOOLEAN], [Procs -> Nat]: is the process there, for the how manyth time
    file,       \* the lock file; its number tells it from the ones before
    created,    \* the number of the last file
    held,       \* HELD_LOCKS: [Procs -> holds]
    watched,    \* [Procs -> BOOLEAN]: is the watchdog's timer set?
    at,         \* what each caller is about to do
    mine,       \* [Callers -> Nat]: the file a caller created, or shares
    aim,        \* the file a caller, a sweep or a watchdog is about to
    sweep, dog, \* remove, and why: [Callers -> ...], [Procs -> ...] twice
    foul,       \* history: how files of live processes were taken from them
    forced,     \* history: was a lock taken from callers that go on?
    failures

fileVars == <<file, foul>>
procVars == <<startTimes, up, life>>
vars == <<procVars, fileVars, created, held, watched, at, mine, aim, sweep, dog, forced, failures>>

NoFile == [n |-> 0, by |-> CHOOSE p \in Procs : TRUE, life |-> 0, written |-> FALSE, age |-> 0]
NoHold == [n |-> 0, count |-> 0, age |-> 0]
NoAim == [n |-> 0, why |-> "none"]

Exists == file.n # 0
Alive(f) == up[f.by] /\ f.life = life[f.by]
CallersOf(p) == {c \in Callers : ProcOf[c] = p}

-----------------------------------------------------------------------------
(* Judging and removing lock files. *)

PidDead(f) == ~up[f.by] \/ (startTimes /\ f.life # life[f.by])
TooOld(f) == f.age > StaleAfter

\* Without start times, a file with one's own pid that this process does not hold.
OrphanSelfLock(p, f) == ~startTimes /\ f.by = p /\ held[p] = NoHold

\* Mutant: a file that is being created counts as that of a dead owner.
ReclaimReasonNoFallback(p) ==
    IF ~file.written \/ PidDead(file) THEN "dead"
    ELSE IF OrphanSelfLock(p, file) THEN "orphan"
    ELSE IF TooOld(file) THEN "aged"
    ELSE "none"

\* Mutant: a file without a pid is never removed.
ReclaimReasonWaitsForPid(p) ==
    IF ~file.written THEN "none"
    ELSE IF PidDead(file) THEN "dead"
    ELSE IF OrphanSelfLock(p, file) THEN "orphan"
    ELSE IF TooOld(file) THEN "aged"
    ELSE "none"

\* Why a contender removes the file it finds; one without its owner's pid is
\* removed for its age only.
ReclaimReason(p) ==
    IF ~file.written THEN (IF TooOld(file) THEN "aged" ELSE "none")
    ELSE IF PidDead(file) THEN "dead"
    ELSE IF OrphanSelfLock(p, file) THEN "orphan"
    ELSE IF TooOld(file) THEN "aged"
    ELSE "none"

\* cleanStaleLockFiles does not ask for the age, nor who it is itself; it takes
\* a file that went since it was listed for one without an owner.
SweepReason ==
    IF ~Exists \/ ~file.written THEN "swept"
    ELSE IF PidDead(file) THEN "dead"
    ELSE IF TooOld(file) THEN "aged"
    ELSE "none"

\* rm(lockPath): whatever file is there by now.
Remove(a) ==
    /\ file' = NoFile
    /\ foul' = IF ~Exists \/ ~Alive(file) THEN foul
               ELSE IF file.n # a.n THEN foul \cup {"raced"}
               ELSE foul \cup ({a.why} \cap {"aged", "swept", "orphan"})

Own(n) == [n |-> n, why |-> "own"]

-----------------------------------------------------------------------------
(* acquireSessionWriteLock *)

Starts(c, phase) == at[c] = "idle" /\ up[ProcOf[c]] /\ at' = [at EXCEPT ![c] = phase]
Goes(c, from, to) == at[c] = from /\ at' = [at EXCEPT ![c] = to]
Watch(p) == watched' = [watched EXCEPT ![p] = TRUE]

Join(c) ==
    LET p == ProcOf[c] IN
    /\ Starts(c, "holding") /\ Watch(p)
    /\ c \notin Exclusive /\ held[p] # NoHold
    /\ held' = [held EXCEPT ![p].count = @ + 1]
    /\ mine' = [mine EXCEPT ![c] = held[p].n]
    /\ UNCHANGED <<procVars, fileVars, created, aim, sweep, dog, forced, failures>>

Acquire(c) ==
    /\ Starts(c, "trying") /\ Watch(ProcOf[c])
    /\ c \in Exclusive \/ held[ProcOf[c]] = NoHold
    /\ UNCHANGED <<procVars, fileVars, created, held, mine, aim, sweep, dog, forced, failures>>

\* Mutant: the file is opened with the flag "w".
CreateOver(c) ==
    /\ Goes(c, "trying", "writing")
    /\ created' = created + 1
    /\ file' = [n |-> created', by |-> ProcOf[c], life |-> life[ProcOf[c]], written |-> FALSE, age |-> 0]
    /\ mine' = [mine EXCEPT ![c] = created']
    /\ UNCHANGED <<procVars, foul, held, watched, aim, sweep, dog, forced, failures>>

\* open(lockPath, "wx")
Create(c) ==
    /\ Goes(c, "trying", "writing")
    /\ ~Exists
    /\ created' = created + 1
    /\ file' = [n |-> created', by |-> ProcOf[c], life |-> life[ProcOf[c]], written |-> FALSE, age |-> 0]
    /\ mine' = [mine EXCEPT ![c] = created']
    /\ UNCHANGED <<procVars, foul, held, watched, aim, sweep, dog, forced, failures>>

\* The payload goes to the file that was opened, removed since or not.
WriteSucceeds(c) ==
    /\ Goes(c, "writing", "holding")
    /\ file' = IF file.n = mine[c] THEN [file EXCEPT !.written = TRUE] ELSE file
    /\ held' = [held EXCEPT ![ProcOf[c]] = [n |-> mine[c], count |-> 1, age |-> 0]]
    /\ UNCHANGED <<procVars, foul, created, watched, mine, aim, sweep, dog, forced, failures>>

WriteFails(c) ==
    /\ failures < MaxFailures /\ failures' = failures + 1
    /\ Goes(c, "writing", "unwinding")
    /\ aim' = [aim EXCEPT ![c] = Own(mine[c])]
    /\ UNCHANGED <<procVars, fileVars, created, held, watched, mine, sweep, dog, forced>>

Unwind(c) ==
    /\ Goes(c, "unwinding", "done")
    /\ Remove(aim[c])
    /\ aim' = [aim EXCEPT ![c] = NoAim]
    /\ UNCHANGED <<procVars, created, held, watched, mine, sweep, dog, forced, failures>>

\* EEXIST, and the file found there is to be removed ...
JudgeStale(c) ==
    /\ Goes(c, "trying", "reclaiming")
    /\ Exists /\ ReclaimReason(ProcOf[c]) # "none"
    /\ aim' = [aim EXCEPT ![c] = [n |-> file.n, why |-> ReclaimReason(ProcOf[c])]]
    /\ UNCHANGED <<procVars, fileVars, created, held, watched, mine, sweep, dog, forced, failures>>

\* ... which is done by its path.
Reclaim(c) ==
    /\ Goes(c, "reclaiming", "trying")
    /\ Remove(aim[c])
    /\ aim' = [aim EXCEPT ![c] = NoAim]
    /\ UNCHANGED <<procVars, created, held, watched, mine, sweep, dog, forced, failures>>

TimeOut(c) ==
    /\ Goes(c, "trying", "done")
    /\ UNCHANGED <<procVars, fileVars, created, held, watched, mine, aim, sweep, dog, forced, failures>>

-----------------------------------------------------------------------------
(* releaseHeldLock *)

\* Mutant: the caller does not look whether the lock is still the one it took.
ReleaseAnyHold(c) ==
    LET p == ProcOf[c] IN
    /\ IF held[p] # NoHold /\ held[p].count = 1
       THEN /\ Goes(c, "holding", "removing")
            /\ held' = [held EXCEPT ![p] = NoHold]
            /\ aim' = [aim EXCEPT ![c] = Own(mine[c])]
       ELSE /\ Goes(c, "holding", "done")
            /\ held' = IF held[p] = NoHold THEN held ELSE [held EXCEPT ![p].count = @ - 1]
            /\ UNCHANGED aim
    /\ UNCHANGED <<procVars, fileVars, created, watched, mine, sweep, dog, forced, failures>>

Release(c) ==
    LET p == ProcOf[c] IN
    /\ IF held[p].n = mine[c] /\ held[p].count = 1
       THEN /\ Goes(c, "holding", "removing")
            /\ held' = [held EXCEPT ![p] = NoHold]
            /\ aim' = [aim EXCEPT ![c] = Own(mine[c])]
       ELSE /\ Goes(c, "holding", "done")
            /\ held' = IF held[p].n = mine[c] THEN [held EXCEPT ![p].count = @ - 1] ELSE held
            /\ UNCHANGED aim
    /\ UNCHANGED <<procVars, fileVars, created, watched, mine, sweep, dog, forced, failures>>

\* The watchdog's timer is cleared with the last lock; a caller that is trying
\* has already asked for it.
Unwatch(p) == watched' = IF held[p] = NoHold THEN [watched EXCEPT ![p] = FALSE] ELSE watched

RemoveOwn(c) ==
    /\ Goes(c, "removing", "done")
    /\ Remove(aim[c])
    /\ aim' = [aim EXCEPT ![c] = NoAim]
    /\ Unwatch(ProcOf[c])
    /\ UNCHANGED <<procVars, created, held, mine, sweep, dog, forced, failures>>

Watchdog(p) ==
    /\ watched[p] /\ dog[p] = NoAim
    /\ held[p] # NoHold /\ held[p].age > MaxHold
    /\ held' = [held EXCEPT ![p] = NoHold]
    /\ dog' = [dog EXCEPT ![p] = Own(held[p].n)]
    /\ forced' = TRUE
    /\ UNCHANGED <<procVars, fileVars, created, watched, at, mine, aim, sweep, failures>>

WatchdogRemoves(p) ==
    /\ dog[p] # NoAim
    /\ Remove(dog[p])
    /\ dog' = [dog EXCEPT ![p] = NoAim]
    /\ Unwatch(p)
    /\ UNCHANGED <<procVars, created, held, at, mine, aim, sweep, forced, failures>>

-----------------------------------------------------------------------------
(* Processes. *)

\* What a process had begun is gone with it.
GoesDown(p) ==
    /\ up' = [up EXCEPT ![p] = FALSE]
    /\ at' = [c \in Callers |-> IF ProcOf[c] = p /\ at[c] # "idle" THEN "done" ELSE at[c]]
    /\ aim' = [c \in Callers |-> IF ProcOf[c] = p THEN NoAim ELSE aim[c]]
    /\ sweep' = [sweep EXCEPT ![p] = NoAim]
    /\ dog' = [dog EXCEPT ![p] = NoAim]

\* A signal, or exit: the locks are released at once.  Where the signal has
\* other listeners the process goes on, and so do the callers.
Signal(p) ==
    /\ failures < MaxFailures /\ failures' = failures + 1
    /\ up[p]
    /\ held' = [held EXCEPT ![p] = NoHold]
    /\ watched' = [watched EXCEPT ![p] = FALSE]
    /\ IF held[p] = NoHold THEN UNCHANGED fileVars ELSE Remove(Own(held[p].n))
    /\ \/ GoesDown(p) /\ UNCHANGED forced
       \/ forced' = (forced \/ held[p] # NoHold) /\ UNCHANGED <<up, at, aim, sweep, dog>>
    /\ UNCHANGED <<startTimes, life, created, mine>>

Crash(p) ==
    /\ failures < MaxFailures /\ failures' = failures + 1
    /\ up[p] /\ GoesDown(p)
    /\ held' = [held EXCEPT ![p] = NoHold]
    /\ watched' = [watched EXCEPT ![p] = FALSE]
    /\ UNCHANGED <<startTimes, life, fileVars, created, mine, forced>>

\* A gateway that has started lists the lock files ...
Start(p) ==
    /\ ~up[p]
    /\ up' = [up EXCEPT ![p] = TRUE]
    /\ life' = [life EXCEPT ![p] = @ + 1]
    /\ sweep' = [sweep EXCEPT ![p] = IF Exists THEN [n |-> file.n, why |-> "listed"] ELSE NoAim]
    /\ UNCHANGED <<startTimes, fileVars, created, held, watched, at, mine, aim, dog, forced, failures>>

\* ... judges each ...
SweepJudges(p) ==
    /\ sweep[p].why = "listed"
    /\ sweep' = [sweep EXCEPT ![p] = IF SweepReason = "none" THEN NoAim
                                     ELSE [n |-> file.n, why |-> SweepReason]]
    /\ UNCHANGED <<procVars, fileVars, created, held, watched, at, mine, aim, dog, forced, failures>>

\* ... and removes it.
SweepRemoves(p) ==
    /\ sweep[p].why \notin {"none", "listed"}
    /\ Remove(sweep[p])
    /\ sweep' = [sweep EXCEPT ![p] = NoAim]
    /\ UNCHANGED <<procVars, created, held, watched, at, mine, aim, dog, forced, failures>>

Older(age, limit) == IF age > limit THEN age ELSE age + 1
\* Ages count up to the first tick past their limit.
Tick ==
    /\ file' = IF Exists THEN [file EXCEPT !.age = Older(@, StaleAfter)] ELSE file
    /\ held' = [p \in Procs |-> IF held[p] = NoHold THEN NoHold
                                ELSE [held[p] EXCEPT !.age = Older(@, MaxHold)]]
    /\ <<file, held>>' # <<file, held>>
    /\ UNCHANGED <<procVars, foul, created, watched, at, mine, aim, sweep, dog, forced, failures>>

Init ==
    /\ startTimes \in Platforms
    /\ up = [p \in Procs |-> TRUE]
    /\ life = [p \in Procs |-> 1]
    /\ file = NoFile
    /\ created = 0
    /\ held = [p \in Procs |-> NoHold]
    /\ watched = [p \in Procs |-> FALSE]
    /\ at = [c \in Callers |-> "idle"]
    /\ mine = [c \in Callers |-> 0]
    /\ aim = [c \in Callers |-> NoAim]
    /\ sweep = [p \in Procs |-> NoAim]
    /\ dog = [p \in Procs |-> NoAim]
    /\ foul = {}
    /\ forced = FALSE
    /\ failures = 0

CallerStep(c) ==
    \/ Create(c) \/ WriteSucceeds(c) \/ Unwind(c) \/ JudgeStale(c) \/ Reclaim(c)
    \/ Release(c) \/ RemoveOwn(c)
ProcStep(p) == WatchdogRemoves(p) \/ SweepJudges(p) \/ SweepRemoves(p)

Next ==
    \/ \E c \in Callers : Join(c) \/ Acquire(c) \/ CallerStep(c) \/ WriteFails(c) \/ TimeOut(c)
    \/ \E p \in Procs : ProcStep(p) \/ Watchdog(p) \/ Signal(p) \/ Crash(p) \/ Start(p)
    \/ Tick

Spec == Init /\ [][Next]_vars

\* Callers retry and release, file operations end and time goes on.
Fairness ==
    /\ \A c \in Callers : WF_vars(CallerStep(c))
    /\ \A p \in Procs : WF_vars(ProcStep(p))
    /\ WF_vars(Tick)
FairSpec == Spec /\ Fairness

-----------------------------------------------------------------------------
Reasons == {"none", "own", "dead", "aged", "orphan", "swept", "listed"}
Holds == [n : Nat \ {0}, count : Nat \ {0}, age : 0..(MaxHold + 1)]
Aims == [n : Nat, why : Reasons]

\* The types; also, a hold has callers, and a process that is down has nothing
\* under way.
TypeOK ==
    /\ startTimes \in BOOLEAN
    /\ up \in [Procs -> BOOLEAN] /\ life \in [Procs -> Nat]
    /\ file \in [n : Nat, by : Procs, life : Nat, written : BOOLEAN, age : 0..(StaleAfter + 1)]
    /\ created \in Nat
    /\ held \in [Procs -> Holds \cup {NoHold}]
    /\ watched \in [Procs -> BOOLEAN]
    /\ at \in [Callers -> {"idle", "trying", "writing", "reclaiming", "unwinding", "holding",
                        "removing", "done"}]
    /\ mine \in [Callers -> Nat]
    /\ aim \in [Callers -> Aims] /\ sweep \in [Procs -> Aims] /\ dog \in [Procs -> Aims]
    /\ foul \subseteq {"raced", "aged", "swept", "orphan"}
    /\ forced \in BOOLEAN /\ failures \in 0..MaxFailures
    /\ \A p \in Procs : ~up[p] =>
          /\ held[p] = NoHold /\ sweep[p] = NoAim /\ dog[p] = NoAim
          /\ \A c \in CallersOf(p) : at[c] \in {"idle", "done"}

\* As long as no file of a live process was taken from it, each process that
\* holds the lock, or is about to, has its file on the disk: no two do.
HoldersHaveFile ==
    foul = {} =>
        /\ \A p \in Procs : held[p] # NoHold => file.n = held[p].n /\ file.written
        /\ \A c \in Callers : at[c] = "writing" => file.n = mine[c]

\* Only callers that share one hold write at a time, unless a file was taken
\* from a live process, or the watchdog or a signal let the lock go.
WritersExclude ==
    \A c, d \in Callers : at[c] = "holding" /\ at[d] = "holding" /\ mine[c] # mine[d] =>
        foul # {} \/ forced

\* The count of a hold is the number of callers that still have to release it,
\* however many locks were forced from them before.
HoldersCounted ==
    \A p \in Procs : held[p] # NoHold =>
        held[p].count = Cardinality({c \in CallersOf(p) : at[c] = "holding" /\ mine[c] = held[p].n})

\* A file of a live process is held, in the making or about to be removed: no
\* other process waits for its old age.
NoAbandonedFile ==
    foul = {} /\ Exists /\ Alive(file) =>
        \/ held[file.by].n = file.n
        \/ dog[file.by].n = file.n
        \/ \E c \in CallersOf(file.by) : at[c] \in {"writing", "unwinding", "removing"} /\ mine[c] = file.n

\* Whoever tries gets the lock or gives up, whatever died or was left behind:
\* time and again nobody is in the loop.
EveryCallerGetsIn == []<>(\A c \in Callers : at[c] \notin {"trying", "reclaiming"})
=============================================================================

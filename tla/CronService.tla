----------------------------- MODULE CronService -----------------------------
(***************************************************************************)
(* The cron scheduler: jobs kept in memory and in two files, the timer     *)
(* tick, the catch-up of a starting service, manual runs and edits.        *)
(* A section of `locked` is one action; the runs happen between sections,  *)
(* outside the lock.  The state file is written before the config file,    *)
(* and the process may stop between the two writes.  A reload of the       *)
(* configuration stops the timer of one service and starts another on the  *)
(* same store, while what the first one began goes on.                     *)
(***************************************************************************)
EXTENDS Naturals, FiniteSets, FiniteSetsExt

CONSTANTS
    Jobs,           \* numbered in the order of the store
    OneShots,       \* the jobs with an "at" schedule; the others recur
    DeleteAfterRun, \* the one-shots that are deleted after a success
    Services,       \* services that may exist in one process, one after the other
    MaxRetries,     \* retries of a one-shot after transient errors
    MaxMissed,      \* maxMissedJobsPerRestart
    StuckAfter,     \* STUCK_RUN_MS, in units of the clock
    MaxTime,        \* bound: the clock stops here
    MaxEvents,      \* bound: edits, manual runs, crashes and reloads together
    ReloadWeight,   \* a reload counts for this many events
    BusyReloads     \* bound: may a reload come while a service is at work?

ASSUME BoundsAssumption ==
    /\ Jobs \subseteq Nat \ {0} /\ IsFiniteSet(Jobs)
    /\ OneShots \subseteq Jobs
    /\ DeleteAfterRun \subseteq OneShots
    /\ Services \subseteq Nat \ {0} /\ 1 \in Services
    /\ MaxRetries \in Nat /\ MaxMissed \in Nat /\ StuckAfter \in Nat
    /\ MaxTime \in Nat \ {0} /\ MaxEvents \in Nat /\ ReloadWeight \in Nat
    /\ BusyReloads \in BOOLEAN

\* Instants, 0 for undefined.  A recurring job is due at every instant, an
\* error puts the next attempt one instant off.
Times == 0..(MaxTime + 1)
Statuses == {"none", "ok", "error"}
Results == {"ok", "transient", "permanent"}
\* Only one-shots tell the errors apart.
ResultsOf(j) == IF j \in OneShots THEN Results ELSE Results \ {"permanent"}
JobRecords == [here : {"new", "yes", "gone"}, enabled : BOOLEAN, at : Times, next : Times,
               running : Times, last : Times, status : Statuses, errors : 0..(MaxRetries + 1)]

Kinds == {"boot", "tick"}
NoOutcome == [result |-> "none", started |-> 0, ended |-> 0]
Outcomes == [result : Results, started : Times, ended : Times] \cup {NoOutcome}
Idle == [phase |-> "idle", jobs |-> {}, later |-> {}, cur |-> 0, started |-> 0,
         done |-> [j \in Jobs |-> NoOutcome], attached |-> FALSE]
NoManual == [phase |-> "none", job |-> 0, svc |-> 1, started |-> 0]

VARIABLES
    now,
    mem,        \* [Services -> [Jobs -> JobRecords]], the store of each service
    disk,       \* what a reload would read
    writing,    \* the service whose config file is not yet written, 0 if none
    api,        \* the service that calls from outside reach
    timer,      \* [Services -> BOOLEAN]
    batch,      \* [Services -> [Kinds -> ...]]: the runs of a tick or of the catch-up
    manual,     \* the manual run in the cron lane
    dropped,    \* history: jobs whose marker was cleared before their run ended
    over,       \* history: one-shots whose last saved run succeeded, or removed
    solo,       \* history: has no service been replaced in the middle of something?
    left        \* events left

vars == <<now, mem, disk, writing, api, timer, batch, manual, dropped, over, left, solo>>

(* Schedules *)

\* A finished one-shot has a next run only if it was moved past its last one.
ComputeJobNextRunAtMs(j, r, t) ==
    IF ~r.enabled THEN 0
    ELSE IF j \notin OneShots THEN t + 1
    ELSE IF r.status = "ok" /\ r.last # 0 /\ r.at <= r.last THEN 0
    ELSE r.at

Present(r) == r.here = "yes"
Due(r, t) == Present(r) /\ r.enabled /\ r.next # 0 /\ r.next <= t
IsRunnableJob(r, t) == Due(r, t) /\ r.running = 0
\* skipAtIfAlreadyRan: only a retry of a one-shot is taken up by the catch-up.
IsMissedJob(j, r, t) ==
    /\ IsRunnableJob(r, t)
    /\ j \in OneShots /\ r.status # "none" => r.status = "error" /\ r.next > r.last

NormalizeJobTickState(r, t) ==
    IF ~r.enabled THEN [r EXCEPT !.next = 0, !.running = 0]
    ELSE IF r.running # 0 /\ t > r.running + StuckAfter THEN [r EXCEPT !.running = 0]
    ELSE r

Normalized(m, t) ==
    [j \in Jobs |-> IF Present(m[j]) THEN NormalizeJobTickState(m[j], t) ELSE m[j]]
RecomputeAmong(due, m, t) ==
    [j \in Jobs |-> IF j \in due /\ Present(m[j]) /\ m[j].enabled
                   THEN [m[j] EXCEPT !.next = ComputeJobNextRunAtMs(j, m[j], t)]
                   ELSE m[j]]

RecomputeNextRuns(m, t) ==
    LET n == Normalized(m, t) IN RecomputeAmong({j \in Jobs : n[j].next <= t}, n, t)
\* Mutant: the repair after a tick moves every slot that has come.
MaintenanceRecomputesAll(m, t, recomputeExpired) == RecomputeNextRuns(m, t)
RecomputeNextRunsForMaintenance(m, t, recomputeExpired) ==
    LET n == Normalized(m, t)
        expired(r) == r.next <= t /\ r.running = 0 /\ r.last >= r.next
    IN RecomputeAmong({j \in Jobs : n[j].next = 0 \/ (recomputeExpired /\ expired(n[j]))}, n, t)

Erase(r) == [r EXCEPT !.here = "gone", !.enabled = FALSE, !.at = 0, !.next = 0,
                        !.running = 0, !.last = 0, !.status = "none", !.errors = 0]

\* Mutant: a one-shot stays enabled after its success.
ApplyJobResultKeepsOneShot(j, r, o) ==
    [r EXCEPT !.running = 0, !.last = o.started,
              !.status = IF o.result = "ok" THEN "ok" ELSE "error",
              !.next = IF j \in OneShots THEN r.next ELSE o.ended + 1]
ApplyJobResult(j, r, o) ==
    LET errors == IF o.result = "ok" THEN 0 ELSE Min({r.errors + 1, MaxRetries + 1})
        s == [r EXCEPT !.running = 0, !.last = o.started, !.errors = errors,
                       !.status = IF o.result = "ok" THEN "ok" ELSE "error"]
        retry == o.result = "transient" /\ errors <= MaxRetries IN
    IF j \in DeleteAfterRun /\ o.result = "ok" THEN Erase(r)
    ELSE IF j \in OneShots
    THEN IF retry THEN [s EXCEPT !.next = o.ended + 1]
         ELSE [s EXCEPT !.enabled = FALSE, !.next = 0]
    ELSE [s EXCEPT !.next = IF r.enabled THEN o.ended + 1 ELSE 0]

ApplyOutcomesTo(m, done) ==
    [j \in Jobs |-> IF Present(m[j]) /\ done[j] # NoOutcome
                    THEN ApplyJobResult(j, m[j], done[j]) ELSE m[j]]

(* The store *)

ConfigOf(r) == <<r.here, r.enabled, r.at>>
\* New state under the old config; a job without an entry starts afresh.
StateOnly(m) ==
    [j \in Jobs |->
        IF Present(disk[j])
        THEN [m[j] EXCEPT !.here = "yes", !.enabled = disk[j].enabled, !.at = disk[j].at]
        ELSE disk[j]]
Persist(s, m) ==
    /\ mem' = [mem EXCEPT ![s] = m]
    /\ disk' = StateOnly(m)
    /\ writing' = IF \E j \in Jobs : ConfigOf(disk[j]) # ConfigOf(m[j]) THEN s ELSE 0
SaveConfig ==
    /\ writing # 0
    /\ disk' = mem[writing]
    /\ writing' = 0
    /\ UNCHANGED <<now, mem, api, timer, batch, manual, dropped, over, left, solo>>

Unlocked == writing = 0
ArmTimer(s, m) == timer' = [timer EXCEPT ![s] = \E j \in Jobs : Present(m[j]) /\ m[j].enabled]

(* Runs that hold the marker of a job: batches before their outcomes are    *)
(* applied, and the manual run.                                            *)
BatchClaims(j) ==
    {c \in Services \X Kinds : LET b == batch[c[1]][c[2]]
                              IN  b.phase = "run" /\ j \in b.jobs}
ManualClaims(j) == {x \in {"manual"} : manual.phase = "run" /\ manual.job = j}
Claims(j) == Cardinality(BatchClaims(j)) + Cardinality(ManualClaims(j))
\* Markers that a section takes away from runs that have not ended.
Cleared(m, n) == {j \in Jobs : m[j].running # 0 /\ n[j].running = 0 /\ Claims(j) > 0}
EndClaims(S) == {j \in dropped : ~(j \in S /\ Claims(j) <= 1)}
\* One-shots that succeed by these outcomes, with no second run under way.
Succeeded(m, done) ==
    {j \in OneShots : Present(m[j]) /\ done[j].result = "ok" /\ Claims(j) <= 1}

Spend(n) == left >= n /\ left' = left - n

(* Edits from outside: each is one section of the lock. *)

Add(j, t) ==
    /\ Spend(1) /\ Unlocked /\ batch[api]["boot"].phase # "off"
    /\ mem[api][j].here = "new"
    /\ LET r == [mem[api][j] EXCEPT !.here = "yes", !.enabled = TRUE,
                                    !.at = IF j \in OneShots THEN t ELSE 0]
           m == RecomputeNextRuns([mem[api] EXCEPT ![j] = r], now)
       IN /\ Persist(api, m)
          /\ ArmTimer(api, m)
          /\ dropped' = dropped \cup Cleared(mem[api], m)
    /\ UNCHANGED <<now, api, batch, manual, over, solo>>

\* Mutant: the timer is left as it is.
UpdateUnarmed(j, enabled, at) ==
    /\ Spend(1) /\ Unlocked /\ batch[api]["boot"].phase # "off"
    /\ Present(mem[api][j])
    /\ LET r == [mem[api][j] EXCEPT !.enabled = enabled, !.at = at]
           u == IF enabled THEN [r EXCEPT !.next = now] ELSE [r EXCEPT !.next = 0, !.running = 0]
           m == [mem[api] EXCEPT ![j] = u]
       IN /\ Persist(api, m)
          /\ dropped' = dropped \cup Cleared(mem[api], m)
    /\ UNCHANGED <<now, api, timer, batch, manual, over, solo>>

\* patch.schedule of a one-shot or patch.enabled; both compute the next run.
Update(j, enabled, at) ==
    /\ Spend(1) /\ Unlocked /\ batch[api]["boot"].phase # "off"
    /\ Present(mem[api][j])
    /\ LET r == [mem[api][j] EXCEPT !.enabled = enabled, !.at = at]
           u == IF enabled THEN [r EXCEPT !.next = ComputeJobNextRunAtMs(j, r, now)]
                ELSE [r EXCEPT !.next = 0, !.running = 0]
           m == [mem[api] EXCEPT ![j] = u]
       IN /\ Persist(api, m)
          /\ ArmTimer(api, m)
          /\ dropped' = dropped \cup Cleared(mem[api], m)
    /\ over' = IF at > mem[api][j].last THEN over \ {j} ELSE over
    /\ UNCHANGED <<now, api, batch, manual, solo>>

Remove(j) ==
    /\ Spend(1) /\ Unlocked /\ batch[api]["boot"].phase # "off"
    /\ Present(mem[api][j])
    /\ LET m == [mem[api] EXCEPT ![j] = Erase(@)]
       IN /\ Persist(api, m)
          /\ ArmTimer(api, m)
    /\ over' = over \cup ({j} \cap OneShots)
    /\ UNCHANGED <<now, api, batch, manual, dropped, solo>>

\* list, status and listPage repair what is missing, and write it.
List ==
    /\ Unlocked /\ batch[api]["boot"].phase # "off"
    /\ LET m == RecomputeNextRunsForMaintenance(mem[api], now, FALSE)
       IN /\ m # mem[api]
          /\ Persist(api, m)
          /\ dropped' = dropped \cup Cleared(mem[api], m)
    /\ UNCHANGED <<now, api, timer, batch, manual, over, left, solo>>

(* Manual runs *)

\* enqueueRun looks at the job before the run waits for the cron lane, run
\* looks again when it begins.  The repairs of such a look stay in memory.
Inspected == RecomputeNextRunsForMaintenance(mem[api], now, FALSE)
EnqueueRun ==
    /\ Unlocked /\ batch[api]["boot"].phase # "off"
    /\ Inspected # mem[api]
    /\ mem' = [mem EXCEPT ![api] = Inspected]
    /\ dropped' = dropped \cup Cleared(mem[api], Inspected)
    /\ UNCHANGED <<now, disk, writing, api, timer, batch, manual, over, left, solo>>

InspectManualRunPreflight(j, force) ==
    /\ Spend(1) /\ Unlocked /\ batch[api]["boot"].phase # "off"
    /\ manual.phase = "none"
    /\ Present(Inspected[j]) /\ Inspected[j].running = 0
    /\ force \/ Due(Inspected[j], now)
    /\ mem' = [mem EXCEPT ![api] = Inspected]
    /\ manual' = [phase |-> "checked", job |-> j, svc |-> api, started |-> now]
    /\ dropped' = dropped \cup Cleared(mem[api], Inspected)
    /\ UNCHANGED <<now, disk, writing, api, timer, batch, over, solo>>

\* Mutant: the marker is set without another look.
PrepareManualRunUnchecked ==
    LET s == manual.svc
    IN /\ Unlocked /\ manual.phase = "checked"
       /\ Persist(s, [mem[s] EXCEPT ![manual.job].running = manual.started])
       /\ manual' = [manual EXCEPT !.phase = "run"]
       /\ UNCHANGED <<now, api, timer, batch, dropped, over, left, solo>>

PrepareManualRun ==
    LET s == manual.svc
        r == mem[s][manual.job]
    IN /\ Unlocked /\ manual.phase = "checked"
       /\ IF Present(r) /\ r.running = 0
          THEN /\ Persist(s, [mem[s] EXCEPT ![manual.job].running = manual.started])
               /\ manual' = [manual EXCEPT !.phase = "run"]
          ELSE /\ manual' = NoManual
               /\ UNCHANGED <<mem, disk, writing>>
       /\ UNCHANGED <<now, api, timer, batch, dropped, over, left, solo>>

\* The outcome is applied in memory, then merged into the reloaded store.
FinishPreparedManualRun(result) ==
    LET s == manual.svc
        j == manual.job
        o == [result |-> result, started |-> manual.started, ended |-> now]
        r == ApplyJobResult(j, mem[s][j], o)
        merged == IF ~Present(r) THEN Erase(disk[j])
                  ELSE IF Present(disk[j])
                  THEN [r EXCEPT !.at = disk[j].at]
                  ELSE disk[j]
        m == RecomputeNextRunsForMaintenance([disk EXCEPT ![j] = merged], now, TRUE)
    IN /\ Unlocked /\ manual.phase = "run" /\ result \in ResultsOf(j)
       /\ manual' = NoManual
       /\ IF Present(mem[s][j])
          THEN /\ Persist(s, m)
               /\ ArmTimer(s, m)
               /\ batch' = [batch EXCEPT ![s]["tick"].attached = FALSE]
               /\ dropped' = EndClaims({j}) \cup (Cleared(disk, m) \ {j})
               /\ over' = {i \in over : i = j => result = "ok"}
                               \cup Succeeded(mem[s], [Idle.done EXCEPT ![j] = o])
          ELSE /\ dropped' = EndClaims({j})
               /\ UNCHANGED <<mem, disk, writing, timer, batch, over>>
       /\ UNCHANGED <<now, api, left, solo>>

(* The timer tick *)

\* A tick that finds nothing due only repairs; one that finds jobs marks them
\* and persists the marks before it gives up the lock.
OnTimer(s) ==
    LET due == {j \in Jobs : IsRunnableJob(disk[j], now)}
        repaired == RecomputeNextRunsForMaintenance(disk, now, TRUE)
        marked == [j \in Jobs |-> IF j \in due THEN [disk[j] EXCEPT !.running = now] ELSE disk[j]]
    IN /\ timer[s] /\ Unlocked /\ batch[s]["tick"].phase = "idle"
       /\ IF due = {}
          THEN /\ Persist(s, repaired)
               /\ ArmTimer(s, repaired)
               /\ dropped' = dropped \cup Cleared(disk, repaired)
               /\ UNCHANGED batch
          ELSE /\ Persist(s, marked)
               /\ batch' = [batch EXCEPT ![s]["tick"] =
                                [Idle EXCEPT !.phase = "run", !.jobs = due, !.attached = TRUE]]
               /\ UNCHANGED <<timer, dropped>>
       /\ UNCHANGED <<now, api, manual, over, left, solo>>

\* One run at a time, in the order of the store.  The tick stamps the job
\* object it marked, which a reload by a manual run has replaced.  A run that
\* starts after a preflight cannot end before the reservation that follows it.
StartRun(s, k) ==
    LET b == batch[s][k]
        waiting == {j \in b.jobs : b.done[j] = NoOutcome}
        j == Min(waiting)
    IN /\ b.phase = "run" /\ b.cur = 0 /\ waiting # {}
       /\ Unlocked /\ manual.phase # "checked"
       /\ batch' = [batch EXCEPT ![s][k].cur = j, ![s][k].started = now]
       /\ mem' = IF k = "tick" /\ b.attached /\ Present(mem[s][j])
                 THEN [mem EXCEPT ![s][j].running = now] ELSE mem
       /\ UNCHANGED <<now, disk, writing, api, timer, manual, dropped, over, left, solo>>

EndRun(s, k, result) ==
    LET b == batch[s][k]
    IN /\ b.phase = "run" /\ b.cur # 0 /\ result \in ResultsOf(b.cur)
       /\ batch' = [batch EXCEPT ![s][k].cur = 0, ![s][k].started = 0,
                        ![s][k].done[b.cur] = [result |-> result, started |-> b.started, ended |-> now]]
       /\ UNCHANGED <<now, mem, disk, writing, api, timer, manual, dropped, over, left, solo>>

AllDone(b) == b.phase = "run" /\ \A j \in b.jobs : b.done[j] # NoOutcome

\* Outcomes go to the jobs of the reloaded store that are still there; then
\* running becomes false and the timer is set again, stopped or not.
ApplyOutcomes(s) ==
    LET b == batch[s]["tick"]
        applied == ApplyOutcomesTo(disk, b.done)
        m == RecomputeNextRunsForMaintenance(applied, now, FALSE)
    IN /\ AllDone(b) /\ Unlocked
       /\ Persist(s, m)
       /\ ArmTimer(s, m)
       /\ batch' = [batch EXCEPT ![s]["tick"] = Idle]
       /\ dropped' = EndClaims(b.jobs) \cup Cleared(applied, m)
       /\ over' = over \cup Succeeded(disk, b.done)
       /\ UNCHANGED <<now, api, manual, left, solo>>

(* A starting service *)

Absent(s) == batch[s]["boot"].phase = "none"

\* Mutant: the markers of the earlier process stay.
LoadAtStartKeepsMarkers(s) ==
    /\ Unlocked /\ batch[s]["boot"].phase = "off"
    /\ Persist(s, disk)
    /\ batch' = [batch EXCEPT ![s]["boot"] = [Idle EXCEPT !.phase = "loaded"]]
    /\ UNCHANGED <<now, api, timer, manual, dropped, over, left, solo>>

LoadAtStart(s) ==
    LET m == [j \in Jobs |-> [disk[j] EXCEPT !.running = 0]]
        broken == {j \in OneShots : disk[j].running # 0}
    IN /\ Unlocked /\ batch[s]["boot"].phase = "off"
       /\ Persist(s, m)
       /\ batch' = [batch EXCEPT ![s]["boot"] = [Idle EXCEPT !.phase = "loaded", !.jobs = broken]]
       /\ dropped' = dropped \cup Cleared(disk, m)
       /\ UNCHANGED <<now, api, timer, manual, over, left, solo>>

\* The missed jobs with the earliest slots run at once, the others later.
PlanStartupCatchup(s) ==
    LET b == batch[s]["boot"]
        missed == {j \in Jobs \ b.jobs : IsMissedJob(j, mem[s][j], now)}
        Before(i, j) == \/ mem[s][i].next < mem[s][j].next
                        \/ mem[s][i].next = mem[s][j].next /\ i < j
        first == {j \in missed : Cardinality({i \in missed : Before(i, j)}) < MaxMissed}
        m == [j \in Jobs |-> IF j \in first THEN [mem[s][j] EXCEPT !.running = now] ELSE mem[s][j]]
    IN /\ Unlocked /\ b.phase = "loaded"
       /\ IF missed = {}
          THEN /\ batch' = [batch EXCEPT ![s]["boot"] = [Idle EXCEPT !.phase = "caughtUp"]]
               /\ UNCHANGED <<mem, disk, writing>>
          ELSE /\ batch' = [batch EXCEPT ![s]["boot"] =
                               [Idle EXCEPT !.phase = "run", !.jobs = first, !.later = missed \ first]]
               /\ Persist(s, m)
       /\ UNCHANGED <<now, api, timer, manual, dropped, over, left, solo>>

\* Unlike a tick, the catch-up applies its outcomes to the store in memory.
ApplyStartupCatchupOutcomes(s) ==
    LET b == batch[s]["boot"]
        applied == ApplyOutcomesTo(mem[s], b.done)
        deferred == [j \in Jobs |-> IF j \in b.later /\ Present(applied[j]) /\ applied[j].enabled
                                    THEN [applied[j] EXCEPT !.next = now + 1] ELSE applied[j]]
        m == RecomputeNextRunsForMaintenance(deferred, now, FALSE)
    IN /\ AllDone(b) /\ Unlocked
       /\ Persist(s, m)
       /\ batch' = [batch EXCEPT ![s]["boot"] = [Idle EXCEPT !.phase = "caughtUp"]]
       /\ dropped' = EndClaims(b.jobs) \cup Cleared(applied, m)
       /\ over' = over \cup Succeeded(mem[s], b.done)
       /\ UNCHANGED <<now, api, timer, manual, left, solo>>

FinishStart(s) ==
    LET m == RecomputeNextRuns(mem[s], now)
    IN /\ Unlocked /\ batch[s]["boot"].phase = "caughtUp"
       /\ IF m # mem[s] THEN Persist(s, m) ELSE UNCHANGED <<mem, disk, writing>>
       /\ ArmTimer(s, m)
       /\ batch' = [batch EXCEPT ![s]["boot"] = Idle]
       /\ dropped' = dropped \cup Cleared(mem[s], m)
       /\ UNCHANGED <<now, api, manual, over, left, solo>>

(* The surroundings *)

NewJob == [here |-> "new", enabled |-> FALSE, at |-> 0, next |-> 0,
           running |-> 0, last |-> 0, status |-> "none", errors |-> 0]
NoStore == [j \in Jobs |-> NewJob]
Started(s) == [k \in Kinds |-> IF k = "boot" THEN [Idle EXCEPT !.phase = "off"] ELSE Idle]
NoService == [k \in Kinds |-> IF k = "boot" THEN [Idle EXCEPT !.phase = "none"] ELSE Idle]

\* The process dies and is started again: the files are what remains.
Crash ==
    /\ Spend(1)
    /\ writing' = 0 /\ api' = 1 /\ manual' = NoManual /\ dropped' = {}
    /\ mem' = [s \in Services |-> NoStore]
    /\ timer' = [s \in Services |-> FALSE]
    /\ batch' = [s \in Services |-> IF s = 1 THEN Started(s) ELSE NoService]
    /\ over' = {j \in over : writing # 0 => ConfigOf(mem[writing][j]) = ConfigOf(disk[j])}
    /\ UNCHANGED <<now, disk, solo>>

Busy(s) ==
    \/ batch[s]["boot"].phase # "idle" \/ batch[s]["tick"].phase # "idle"
    \/ manual.phase # "none" /\ manual.svc = s
    \/ writing = s

\* stop() clears a timer and nothing else; the next service is built at once.
Reload ==
    /\ Spend(ReloadWeight) /\ (BusyReloads \/ ~Busy(api))
    /\ solo' = (solo /\ ~Busy(api))
    /\ \E s \in Services :
          /\ s = api + 1 /\ Absent(s)
          /\ api' = s
          /\ timer' = [timer EXCEPT ![api] = FALSE]
          /\ batch' = [batch EXCEPT ![s] = Started(s)]
    /\ UNCHANGED <<now, mem, disk, writing, manual, dropped, over>>

Tick ==
    /\ now < MaxTime /\ now' = now + 1
    /\ UNCHANGED <<mem, disk, writing, api, timer, batch, manual, dropped, over, left, solo>>

\* Jobs of an earlier process wait in the store, others are still to be added.
Init ==
    /\ now = 1 /\ writing = 0 /\ api = 1 /\ manual = NoManual
    /\ dropped = {} /\ over = {} /\ solo = TRUE /\ left = MaxEvents
    /\ \E stored \in SUBSET Jobs, t \in 1..MaxTime :
          disk = [j \in Jobs |->
                    IF j \notin stored THEN NewJob
                    ELSE IF j \in OneShots
                    THEN [NewJob EXCEPT !.here = "yes", !.enabled = TRUE, !.at = t, !.next = t]
                    ELSE [NewJob EXCEPT !.here = "yes", !.enabled = TRUE, !.next = 1]]
    /\ mem = [s \in Services |-> NoStore]
    /\ timer = [s \in Services |-> FALSE]
    /\ batch = [s \in Services |-> IF s = 1 THEN Started(s) ELSE NoService]

Run(s) ==
    \/ \E k \in Kinds : StartRun(s, k) \/ \E r \in Results : EndRun(s, k, r)
    \/ OnTimer(s) \/ ApplyOutcomes(s)
    \/ LoadAtStart(s) \/ PlanStartupCatchup(s) \/ ApplyStartupCatchupOutcomes(s) \/ FinishStart(s)

Next ==
    \/ \E j \in Jobs, t \in 1..MaxTime : Add(j, t)
    \/ \E j \in Jobs, e \in BOOLEAN, t \in 1..MaxTime : Update(j, e, IF j \in OneShots THEN t ELSE 0)
    \/ \E j \in Jobs : Remove(j)
    \/ List \/ EnqueueRun
    \/ \E j \in Jobs, f \in BOOLEAN : InspectManualRunPreflight(j, f)
    \/ PrepareManualRun
    \/ \E r \in Results : FinishPreparedManualRun(r)
    \/ \E s \in Services : Run(s)
    \/ SaveConfig \/ Crash \/ Reload \/ Tick

Spec == Init /\ [][Next]_vars

(***************************************************************************)
(* Properties                                                              *)
(***************************************************************************)

\* Ticks, the catch-up and manual runs never hold two runs of one job.
OneRunPerJob == solo => \A j \in Jobs : Claims(j) <= 1 \/ j \in dropped

\* Once a service has loaded the store, a marker on disk belongs to a run: no
\* job is blocked until the stuck limit by a run that is over.
MarkersHaveRuns ==
    \A j \in Jobs : solo /\ disk[j].running # 0 =>
        \/ Claims(j) > 0
        \/ \E s \in Services : batch[s]["boot"].phase = "off"

\* A one-shot whose success is saved, or that was removed, is not taken up
\* again by a tick or a catch-up, crash or no crash, unless it is moved to a
\* time after its last run.
FinishedStaysFinished ==
    [][\A s \in Services, k \in Kinds :
          batch'[s][k].phase = "run" /\ batch[s][k].phase # "run" /\ solo =>
              batch'[s][k].jobs \cap over = {}]_vars

\* While a started service has an enabled job, its timer is set: no job waits
\* for the next restart of the gateway.
SchedulerAlive ==
    /\ batch[api]["boot"].phase = "idle"
    /\ \E j \in Jobs : Present(mem[api][j]) /\ mem[api][j].enabled
    => timer[api]

\* A slot that has come is not moved without a run of the job, by anything but
\* an edit of the job, an addition to the store or a starting service.  A crash
\* between the two writes of an edit leaves the new slot with the old time: that
\* slot may go back to the job's own time.
Slipped(j) ==
    /\ solo /\ IsRunnableJob(disk[j], now) /\ Claims(j) = 0
    /\ disk'[j].enabled /\ Present(disk'[j]) /\ disk'[j].at = disk[j].at
    /\ disk'[j].next > disk[j].next /\ disk'[j].next # disk[j].at
    /\ disk'[j].last = disk[j].last
SlotsNotSkipped ==
    [][\A j \in Jobs : Slipped(j) =>
          \/ \E t \in 1..MaxTime, i \in Jobs : Add(i, t)
          \/ \E e \in BOOLEAN, t \in Times : Update(j, e, t)
          \/ \E s \in Services : ApplyStartupCatchupOutcomes(s) \/ FinishStart(s)]_vars
=============================================================================

-------------------------- MODULE CronServiceProofs --------------------------
(***************************************************************************)
(* Proofs about CronService, for any jobs, any number of services, retries *)
(* and events, any stuck limit and reloads at any moment: the timer of a   *)
(* started service is set while it has an enabled job and, as long as no   *)
(* service was replaced at work, a job has one run at a time, a marker on  *)
(* disk belongs to a run, a slot that has come is not moved without a run  *)
(* and, where one-shots are deleted after their success, a one-shot that   *)
(* is done for good is not taken up again.                                 *)
(***************************************************************************)
EXTENDS CronService, FiniteSetTheorems, WellFoundedInduction, TLAPS

(* The types, as far as the steps depend on them.                          *)

Phases == {"none", "off", "loaded", "idle", "run", "caughtUp"}

\* A job of a store; what its slots, its status and its errors are does not matter.
IsJob(r) ==
    r \in [here : {"new", "yes", "gone"}, enabled : BOOLEAN, at : {r.at}, next : {r.next},
           running : Nat, last : {r.last}, status : {r.status}, errors : {r.errors}]

\* A marker is on a job that is there.
IsStore(m) ==
    /\ m = [j \in Jobs |-> m[j]]
    /\ \A j \in Jobs : IsJob(m[j]) /\ (m[j].running # 0 => Present(m[j]))

\* Outcomes and the run under way are of jobs of the batch.
IsBatch(b) ==
    /\ b \in [phase : Phases, jobs : SUBSET Jobs, later : {b.later}, cur : {b.cur},
              started : {b.started}, done : {b.done}, attached : {b.attached}]
    /\ b.done = [j \in Jobs |-> b.done[j]]
    /\ b.phase = "run" => /\ b.cur # 0 => b.cur \in b.jobs
                          /\ \A j \in Jobs : b.done[j] # NoOutcome => j \in b.jobs

IsManual(x) ==
    /\ x \in [phase : {"none", "checked", "run"}, job : Jobs \cup {0}, svc : Services,
              started : Nat]
    /\ x.phase # "none" => x.job \in Jobs /\ x.started # 0

Clocks == now \in Nat \ {0} /\ api \in Services /\ writing \in Services \cup {0}
Timers == timer \in [Services -> BOOLEAN]
Stores ==
    /\ mem = [s \in Services |-> mem[s]] /\ \A s \in Services : IsStore(mem[s])
    /\ IsStore(disk)
Batches ==
    /\ batch = [s \in Services |-> batch[s]]
    /\ \A s \in Services : /\ batch[s] = [k \in Kinds |-> batch[s][k]]
                           /\ \A k \in Kinds : IsBatch(batch[s][k])

Shape == Clocks /\ Timers /\ Stores /\ Batches /\ IsManual(manual) /\ solo \in BOOLEAN

-----------------------------------------------------------------------------
(* The books of the one service, while none was replaced at work.          *)

Boot(s) == batch[s]["boot"].phase
InBatch(j, k) == batch[api][k].phase = "run" /\ j \in batch[api][k].jobs
InManual(j) == manual.phase = "run" /\ manual.job = j
Claimed(j) == InBatch(j, "boot") \/ InBatch(j, "tick") \/ InManual(j)
Once(j) ==
    /\ ~(InBatch(j, "boot") /\ InBatch(j, "tick"))
    /\ ~(InBatch(j, "boot") /\ InManual(j))
    /\ ~(InBatch(j, "tick") /\ InManual(j))

\* Services that were replaced do nothing any more, others not yet.
Quiet ==
    /\ \A s \in Services \ {api} :
          Boot(s) \in {"none", "idle"} /\ batch[s]["tick"].phase = "idle" /\ ~timer[s]
    /\ Boot(api) # "none" /\ batch[api]["tick"].phase \in {"idle", "run"}
    /\ manual.phase # "none" => manual.svc = api
    /\ writing \in {0, api}
    /\ Boot(api) = "off" => /\ batch[api]["tick"].phase = "idle" /\ ~timer[api]
                            /\ manual.phase = "none" /\ writing = 0

\* A run that has not lost its marker has it, and a marker has its run.
Tracked(m) ==
    \A j \in Jobs : Claimed(j) /\ j \notin dropped /\ Present(m[j]) => m[j].running # 0
Backed(m) == \A j \in Jobs : m[j].running # 0 => Claimed(j)
Known(m) == \A j \in Jobs : Claimed(j) => m[j].here # "new"

Books ==
    Boot(api) # "off" =>
        /\ Tracked(mem[api]) /\ Backed(mem[api]) /\ Known(mem[api]) /\ Backed(disk)
        /\ writing = 0 => Tracked(disk) /\ \A j \in Jobs : mem[api][j].here = disk[j].here

SoloOK == Quiet /\ Books /\ \A j \in Jobs : Once(j) \/ j \in dropped

IInv == Shape /\ SchedulerAlive /\ (solo => SoloOK)

-----------------------------------------------------------------------------
(* Runs that hold a marker, counted.                                       *)

LEMMA ClaimsCount ==
    ASSUME Shape, Quiet, NEW j \in Jobs
    PROVE  Claims(j) = (IF InBatch(j, "boot") THEN 1 ELSE 0)
                       + (IF InBatch(j, "tick") THEN 1 ELSE 0)
                       + (IF InManual(j) THEN 1 ELSE 0)
<1> DEFINE x == <<api, "boot">>
           y == <<api, "tick">>
           b == IF InBatch(j, "boot") THEN {x} ELSE {}
           t == IF InBatch(j, "tick") THEN {y} ELSE {}
           all == BatchClaims(j)
<1>1. x # y /\ x \in Services \X Kinds /\ y \in Services \X Kinds
  BY DEF Shape, Clocks, Kinds
<1>2. all = b \cup t
  <2>1. \A s \in Services, k \in Kinds :
           batch[s][k].phase = "run" => <<s, k>> = x \/ <<s, k>> = y
    BY DEF Quiet, Boot, Kinds
  <2>2. \A c \in all : c = x \/ c = y
    BY <2>1 DEF BatchClaims
  <2>3. x \in all <=> InBatch(j, "boot")
    BY <1>1 DEF BatchClaims, InBatch, Shape, Clocks, Kinds
  <2>4. y \in all <=> InBatch(j, "tick")
    BY <1>1 DEF BatchClaims, InBatch, Shape, Clocks, Kinds
  <2> HIDE DEF all, x, y
  <2> QED
    BY <2>2, <2>3, <2>4, <1>1
<1>3. Cardinality(b) = IF InBatch(j, "boot") THEN 1 ELSE 0
  <2> HIDE DEF x
  <2> QED
    BY FS_EmptySet, FS_Singleton
<1>4. Cardinality(all) = Cardinality(b) + (IF InBatch(j, "tick") THEN 1 ELSE 0)
  <2> HIDE DEF x, y, all
  <2>1. IsFiniteSet(b) /\ Cardinality(b) \in Nat /\ y \notin b
    <3>1. CASE InBatch(j, "boot")
      <4>1. b = {x} /\ y \notin {x}
        BY <1>1, <3>1
      <4> HIDE DEF b
      <4>2. IsFiniteSet({x}) /\ Cardinality({x}) = 1
        BY FS_Singleton
      <4> QED
        BY <4>1, <4>2
    <3>2. CASE ~InBatch(j, "boot")
      <4>1. b = {}
        BY <3>2
      <4> HIDE DEF b
      <4> QED
        BY <4>1, FS_EmptySet
    <3> QED
      BY <3>1, <3>2
  <2>2. CASE InBatch(j, "tick")
    <3>1. all = b \cup {y}
      BY <1>2, <2>2
    <3> HIDE DEF b
    <3> QED
      BY <2>1, <2>2, <3>1, FS_AddElement
  <2>3. CASE ~InBatch(j, "tick")
    <3>1. all = b
      BY <1>2, <2>3
    <3> HIDE DEF b
    <3> QED
      BY <2>1, <2>3, <3>1
  <2> QED
    BY <2>2, <2>3
<1>5. Cardinality(ManualClaims(j)) = IF InManual(j) THEN 1 ELSE 0
  <2>1. ManualClaims(j) = IF InManual(j) THEN {"manual"} ELSE {}
    BY DEF ManualClaims, InManual
  <2> QED
    BY <2>1, FS_EmptySet, FS_Singleton
<1> HIDE DEF all, b, t
<1> QED
  BY <1>3, <1>4, <1>5 DEF Claims, all

LEMMA ClaimsFacts ==
    ASSUME Shape, Quiet, NEW j \in Jobs
    PROVE  (Claims(j) > 0 <=> Claimed(j)) /\ (Claims(j) <= 1 <=> Once(j))
<1> DEFINE B == InBatch(j, "boot")
           T == InBatch(j, "tick")
           M == InManual(j)
<1>1. Claims(j) = (IF B THEN 1 ELSE 0) + (IF T THEN 1 ELSE 0) + (IF M THEN 1 ELSE 0)
  BY ClaimsCount
<1>2. (Claimed(j) <=> B \/ T \/ M) /\ (Once(j) <=> ~(B /\ T) /\ ~(B /\ M) /\ ~(T /\ M))
  BY DEF Claimed, Once
<1> HIDE DEF B, T, M
<1> QED
  BY <1>1, <1>2

-----------------------------------------------------------------------------
(* Repairs of a store.                                                     *)

\* A repair moves slots and clears markers.
Repairs(m, n) ==
    /\ IsStore(n)
    /\ \A j \in Jobs : /\ n[j].here = m[j].here /\ n[j].enabled = m[j].enabled
                       /\ n[j].running \in {0, m[j].running}

LEMMA SlotMoves ==
    ASSUME NEW r, IsJob(r), NEW x
    PROVE  LET n == [r EXCEPT !.next = x]
           IN  /\ IsJob(n) /\ n.here = r.here /\ n.enabled = r.enabled
               /\ n.running = r.running
BY DEF IsJob

LEMMA MarkerCleared ==
    ASSUME NEW r, IsJob(r)
    PROVE  \A n \in {[r EXCEPT !.running = 0], [r EXCEPT !.next = 0, !.running = 0]} :
              IsJob(n) /\ n.here = r.here /\ n.enabled = r.enabled /\ n.running = 0
<1> DEFINE a == [r EXCEPT !.running = 0]
           b == [r EXCEPT !.next = 0, !.running = 0]
<1>1. IsJob(a) /\ a.here = r.here /\ a.enabled = r.enabled /\ a.running = 0
  BY DEF IsJob
<1>2. IsJob(b) /\ b.here = r.here /\ b.enabled = r.enabled /\ b.running = 0
  BY DEF IsJob
<1> HIDE DEF a, b
<1>3. \A n \in {a, b} :
         IsJob(n) /\ n.here = r.here /\ n.enabled = r.enabled /\ n.running = 0
  BY <1>1, <1>2
<1> QED
  BY <1>3 DEF a, b

LEMMA NormalizedRepairs ==
    ASSUME NEW m, IsStore(m), NEW t
    PROVE  Repairs(m, Normalized(m, t))
<1> DEFINE n == Normalized(m, t)
<1>1. ASSUME NEW j \in Jobs
      PROVE  /\ IsJob(n[j]) /\ n[j].here = m[j].here /\ n[j].enabled = m[j].enabled
             /\ n[j].running \in {0, m[j].running}
  <2>1. \/ n[j] = m[j]
        \/ n[j] = [m[j] EXCEPT !.next = 0, !.running = 0]
        \/ n[j] = [m[j] EXCEPT !.running = 0]
    BY DEF Normalized, NormalizeJobTickState
  <2>2. IsJob(m[j])
    BY DEF IsStore
  <2> HIDE DEF n
  <2> QED
    BY <2>1, <2>2, MarkerCleared
<1>2. n = [j \in Jobs |-> n[j]]
  BY DEF Normalized
<1> HIDE DEF n
<1>3. Repairs(m, n)
  BY <1>1, <1>2 DEF Repairs, IsStore, Present
<1> QED
  BY <1>3 DEF n

LEMMA AmongRepairs ==
    ASSUME NEW m, NEW n, Repairs(m, n), NEW due, NEW t
    PROVE  Repairs(m, RecomputeAmong(due, n, t))
<1> DEFINE x == RecomputeAmong(due, n, t)
<1>1. ASSUME NEW j \in Jobs
      PROVE  /\ IsJob(x[j]) /\ x[j].here = n[j].here /\ x[j].enabled = n[j].enabled
             /\ x[j].running = n[j].running
  <2> DEFINE slot == ComputeJobNextRunAtMs(j, n[j], t)
  <2>1. x[j] = n[j] \/ x[j] = [n[j] EXCEPT !.next = slot]
    BY DEF RecomputeAmong
  <2>2. IsJob(n[j])
    BY DEF Repairs, IsStore
  <2> HIDE DEF x, slot
  <2>3. CASE x[j] = [n[j] EXCEPT !.next = slot]
    BY <2>2, <2>3, SlotMoves
  <2> QED
    BY <2>1, <2>2, <2>3
<1>2. x = [j \in Jobs |-> x[j]]
  BY DEF RecomputeAmong
<1> HIDE DEF x
<1>3. Repairs(m, x)
  BY <1>1, <1>2 DEF Repairs, IsStore, Present
<1> QED
  BY <1>3 DEF x

LEMMA MaintenanceRepairs ==
    ASSUME NEW m, IsStore(m), NEW t, NEW expired
    PROVE  /\ Repairs(m, RecomputeNextRuns(m, t))
           /\ Repairs(m, RecomputeNextRunsForMaintenance(m, t, expired))
BY NormalizedRepairs, AmongRepairs DEF RecomputeNextRuns, RecomputeNextRunsForMaintenance

-----------------------------------------------------------------------------
(* Sections of the lock.                                                   *)

\* Until the config file is written, the state file is read under the old config.
LEMMA StateOnlyFacts ==
    ASSUME IsStore(disk), NEW m, IsStore(m)
    PROVE  LET d == StateOnly(m)
           IN  /\ IsStore(d)
               /\ \A j \in Jobs : /\ d[j].running # 0 => m[j].running # 0
                                  /\ ConfigOf(disk[j]) = ConfigOf(m[j]) =>
                                        d[j].here = m[j].here /\ d[j].running = m[j].running
<1> DEFINE d == StateOnly(m)
<1>1. ASSUME NEW j \in Jobs
      PROVE  /\ IsJob(d[j]) /\ (d[j].running # 0 => Present(d[j]))
             /\ d[j].running # 0 => m[j].running # 0
             /\ ConfigOf(disk[j]) = ConfigOf(m[j]) =>
                   d[j].here = m[j].here /\ d[j].running = m[j].running
  <2> DEFINE r == m[j]
             o == disk[j]
  <2>1. /\ IsJob(r) /\ IsJob(o) /\ (r.running # 0 => Present(r))
        /\ (o.running # 0 => Present(o))
    BY DEF IsStore
  <2>2. d[j] = IF Present(o) THEN [r EXCEPT !.here = "yes", !.enabled = o.enabled, !.at = o.at]
               ELSE o
    BY DEF StateOnly
  <2>3. ConfigOf(disk[j]) = ConfigOf(m[j]) => r.here = o.here
    BY DEF ConfigOf
  <2> HIDE DEF d
  <2>4. CASE Present(o)
    <3>1. d[j] = [r EXCEPT !.here = "yes", !.enabled = o.enabled, !.at = o.at]
      BY <2>2, <2>4
    <3> HIDE DEF r, o
    <3>2. IsJob(d[j]) /\ d[j].here = "yes" /\ d[j].running = r.running
      BY <2>1, <3>1 DEF IsJob
    <3> QED
      BY <2>3, <2>4, <3>2 DEF Present, r, o
  <2>5. CASE ~Present(o)
    BY <2>1, <2>2, <2>3, <2>5 DEF Present, IsJob
  <2> QED
    BY <2>4, <2>5
<1>2. d = [j \in Jobs |-> d[j]]
  BY DEF StateOnly
<1> HIDE DEF d
<1>3. /\ IsStore(d)
      /\ \A j \in Jobs : /\ d[j].running # 0 => m[j].running # 0
                         /\ ConfigOf(disk[j]) = ConfigOf(m[j]) =>
                               d[j].here = m[j].here /\ d[j].running = m[j].running
  BY <1>1, <1>2 DEF IsStore
<1> QED
  BY <1>3 DEF d

LEMMA PersistFacts ==
    ASSUME Stores, NEW s \in Services, NEW m, IsStore(m), Persist(s, m)
    PROVE  /\ Stores' /\ writing' \in {0, s} /\ mem'[s] = m
           /\ \A p \in Services : p # s => mem'[p] = mem[p]
           /\ \A j \in Jobs : disk'[j].running # 0 => m[j].running # 0
           /\ s # 0 /\ writing' = 0 => \A j \in Jobs : /\ disk'[j].here = m[j].here
                                                       /\ disk'[j].running = m[j].running
<1>1. /\ mem' = [mem EXCEPT ![s] = m] /\ disk' = StateOnly(m)
      /\ writing' \in {0, s}
      /\ s # 0 /\ writing' = 0 => \A j \in Jobs : ConfigOf(disk[j]) = ConfigOf(m[j])
  BY DEF Persist
<1>2. mem'[s] = m /\ \A p \in Services : p # s => mem'[p] = mem[p]
  BY <1>1 DEF Stores
<1>3. /\ IsStore(disk')
      /\ \A j \in Jobs : /\ disk'[j].running # 0 => m[j].running # 0
                         /\ ConfigOf(disk[j]) = ConfigOf(m[j]) =>
                               /\ disk'[j].here = m[j].here
                               /\ disk'[j].running = m[j].running
  BY <1>1, StateOnlyFacts DEF Stores
<1>4. Stores'
  BY <1>1, <1>2, <1>3 DEF Stores
<1> QED
  BY <1>1, <1>2, <1>3, <1>4

\* One job of a store is replaced.
LEMMA StoreChange ==
    ASSUME NEW m, IsStore(m), NEW j \in Jobs, NEW r, IsJob(r), r.running # 0 => Present(r)
    PROVE  IsStore([m EXCEPT ![j] = r])
BY DEF IsStore

LEMMA EraseFacts ==
    ASSUME NEW r, IsJob(r)
    PROVE  LET n == Erase(r) IN IsJob(n) /\ n.here = "gone" /\ n.running = 0
BY DEF IsJob, Erase

\* An outcome takes the marker away and leaves the job or deletes it.
LEMMA ResultFacts ==
    ASSUME NEW j, NEW r, IsJob(r), NEW o
    PROVE  LET n == ApplyJobResult(j, r, o)
           IN  IsJob(n) /\ n.here \in {r.here, "gone"} /\ n.running = 0
<1> DEFINE errors == IF o.result = "ok" THEN 0 ELSE Min({r.errors + 1, MaxRetries + 1})
           status == IF o.result = "ok" THEN "ok" ELSE "error"
           s == [r EXCEPT !.running = 0, !.last = o.started, !.errors = errors,
                          !.status = status]
           slot == o.ended + 1
           resting == IF r.enabled THEN o.ended + 1 ELSE 0
           n == ApplyJobResult(j, r, o)
<1>1. n \in {Erase(r), [s EXCEPT !.next = slot], [s EXCEPT !.enabled = FALSE, !.next = 0],
             [s EXCEPT !.next = resting]}
  BY DEF ApplyJobResult
<1> HIDE DEF errors, status, n, slot, resting
<1>2. IsJob(s) /\ s.here = r.here /\ s.running = 0
  BY DEF IsJob
<1> HIDE DEF s
<1>3. \A x \in {slot, resting} :
         LET y == [s EXCEPT !.next = x] IN IsJob(y) /\ y.here = r.here /\ y.running = 0
  BY <1>2, SlotMoves
<1>4. LET y == [s EXCEPT !.enabled = FALSE, !.next = 0]
      IN  IsJob(y) /\ y.here = r.here /\ y.running = 0
  BY <1>2 DEF IsJob
<1>5. IsJob(n) /\ n.here \in {r.here, "gone"} /\ n.running = 0
  BY <1>1, <1>3, <1>4, EraseFacts
<1> QED
  BY <1>5 DEF n

\* The outcomes of a batch take away the markers of its jobs.
LEMMA OutcomesFacts ==
    ASSUME NEW m, IsStore(m), NEW done
    PROVE  LET n == ApplyOutcomesTo(m, done)
           IN  /\ IsStore(n)
               /\ \A j \in Jobs : /\ n[j].here \in {m[j].here, "gone"}
                                  /\ done[j] = NoOutcome => n[j] = m[j]
                                  /\ done[j] # NoOutcome => n[j].running = 0
                                  /\ n[j].running \in {0, m[j].running}
<1> DEFINE n == ApplyOutcomesTo(m, done)
<1>1. ASSUME NEW j \in Jobs
      PROVE  /\ IsJob(n[j]) /\ n[j].here \in {m[j].here, "gone"}
             /\ done[j] = NoOutcome => n[j] = m[j]
             /\ done[j] # NoOutcome => n[j].running = 0
             /\ n[j].running \in {0, m[j].running}
             /\ n[j].running # 0 => Present(n[j])
  <2>1. IsJob(m[j]) /\ (m[j].running # 0 => Present(m[j]))
    BY DEF IsStore
  <2>2. n[j] = IF Present(m[j]) /\ done[j] # NoOutcome
               THEN ApplyJobResult(j, m[j], done[j]) ELSE m[j]
    BY DEF ApplyOutcomesTo
  <2> HIDE DEF n
  <2>3. CASE Present(m[j]) /\ done[j] # NoOutcome
    BY <2>1, <2>2, <2>3, ResultFacts
  <2>4. CASE ~(Present(m[j]) /\ done[j] # NoOutcome)
    BY <2>1, <2>2, <2>4 DEF IsJob
  <2> QED
    BY <2>3, <2>4
<1>2. n = [j \in Jobs |-> n[j]]
  BY DEF ApplyOutcomesTo
<1> HIDE DEF n
<1>3. /\ IsStore(n)
      /\ \A j \in Jobs : /\ n[j].here \in {m[j].here, "gone"}
                         /\ done[j] = NoOutcome => n[j] = m[j]
                         /\ done[j] # NoOutcome => n[j].running = 0
                         /\ n[j].running \in {0, m[j].running}
  BY <1>1, <1>2 DEF IsStore
<1> QED
  BY <1>3 DEF n

-----------------------------------------------------------------------------
(* The types are kept.                                                     *)

LEMMA FreshBatch ==
    ASSUME NEW b, b \in [phase : Phases, jobs : SUBSET Jobs, later : {b.later}, cur : {0},
                         started : {b.started}, done : {Idle.done}, attached : {b.attached}]
    PROVE  IsBatch(b)
BY DEF IsBatch, Idle

LEMMA BatchChange ==
    ASSUME Batches, NEW s \in Services, NEW k \in Kinds, NEW b, IsBatch(b),
           batch' = [batch EXCEPT ![s][k] = b]
    PROVE  /\ Batches' /\ batch'[s][k] = b
           /\ \A p \in Services, l \in Kinds : p # s \/ l # k => batch'[p][l] = batch[p][l]
<1>1. /\ batch'[s] = [batch[s] EXCEPT ![k] = b]
      /\ \A p \in Services : p # s => batch'[p] = batch[p]
  BY DEF Batches
<1>2. batch'[s][k] = b /\ \A l \in Kinds : l # k => batch'[s][l] = batch[s][l]
  BY <1>1 DEF Batches
<1>3. batch'[s] = [l \in Kinds |-> batch'[s][l]]
  BY <1>1 DEF Batches
<1>4. batch' = [p \in Services |-> batch'[p]]
  BY DEF Batches
<1>5. Batches'
  BY <1>1, <1>2, <1>3, <1>4 DEF Batches
<1> QED
  BY <1>1, <1>2, <1>5

LEMMA ArmShape ==
    ASSUME Timers, NEW s \in Services, NEW m, ArmTimer(s, m)
    PROVE  /\ Timers' /\ timer'[s] = \E j \in Jobs : Present(m[j]) /\ m[j].enabled
           /\ \A p \in Services : p # s => timer'[p] = timer[p]
BY DEF Timers, ArmTimer

\* Three sections that end alike.
LEMMA SectionShape ==
    ASSUME Shape, NEW s \in Services, NEW m, IsStore(m), Persist(s, m),
           UNCHANGED <<now, api, batch, manual, solo>>, Timers'
    PROVE  Shape'
BY PersistFacts DEF Shape, Clocks, Batches

LEMMA AddShape == ASSUME Shape, NEW j \in Jobs, NEW t, Add(j, t) PROVE Shape'
<1> DEFINE r == [mem[api][j] EXCEPT !.here = "yes", !.enabled = TRUE,
                                    !.at = IF j \in OneShots THEN t ELSE 0]
           u == [mem[api] EXCEPT ![j] = r]
           m == RecomputeNextRuns(u, now)
<1>1. /\ Persist(api, m) /\ ArmTimer(api, m) /\ UNCHANGED <<now, api, batch, manual, solo>>
      /\ api \in Services
  BY DEF Add, Shape, Clocks
<1>2. IsStore(mem[api]) /\ IsJob(mem[api][j])
  BY <1>1 DEF Shape, Stores, IsStore
<1>3. IsJob(r) /\ Present(r)
  BY <1>2 DEF IsJob, Present
<1> HIDE DEF r
<1>4. IsStore(u)
  BY <1>2, <1>3, StoreChange
<1> HIDE DEF u
<1>5. IsStore(m)
  BY <1>4, MaintenanceRepairs DEF Repairs
<1> HIDE DEF m
<1> QED
  BY <1>1, <1>5, ArmShape, SectionShape DEF Shape

\* What an edit makes of a job.
LEMMA UpdatedJob ==
    ASSUME NEW q, IsJob(q), NEW slot, NEW u,
           u = [q EXCEPT !.next = slot] \/ u = [q EXCEPT !.next = 0, !.running = 0]
    PROVE  IsJob(u) /\ u.here = q.here /\ u.running \in {0, q.running}
<1>1. CASE u = [q EXCEPT !.next = slot]
  BY <1>1 DEF IsJob
<1>2. CASE u = [q EXCEPT !.next = 0, !.running = 0]
  BY <1>2 DEF IsJob
<1> QED
  BY <1>1, <1>2

LEMMA UpdateFacts ==
    ASSUME Shape, NEW j \in Jobs, NEW enabled \in BOOLEAN, NEW at, Update(j, enabled, at)
    PROVE  \E m : /\ IsStore(m) /\ Persist(api, m) /\ ArmTimer(api, m)
                  /\ dropped' = dropped \cup Cleared(mem[api], m)
                  /\ \A i \in Jobs : /\ m[i].here = mem[api][i].here
                                     /\ m[i].running \in {0, mem[api][i].running}
<1> DEFINE r == mem[api][j]
           q == [r EXCEPT !.enabled = enabled, !.at = at]
           u == IF enabled THEN [q EXCEPT !.next = ComputeJobNextRunAtMs(j, q, now)]
                ELSE [q EXCEPT !.next = 0, !.running = 0]
           m == [mem[api] EXCEPT ![j] = u]
<1>1. /\ Persist(api, m) /\ ArmTimer(api, m) /\ dropped' = dropped \cup Cleared(mem[api], m)
      /\ Present(r)
  BY DEF Update
<1>2. api \in Services /\ IsStore(mem[api]) /\ IsJob(r)
  BY DEF Shape, Clocks, Stores, IsStore
<1>3. IsJob(u) /\ u.here = r.here /\ u.running \in {0, r.running}
  <2> DEFINE slot == ComputeJobNextRunAtMs(j, q, now)
  <2>1. u = [q EXCEPT !.next = slot] \/ u = [q EXCEPT !.next = 0, !.running = 0]
    OBVIOUS
  <2>2. IsJob(q) /\ q.here = r.here /\ q.running = r.running
    BY <1>2 DEF IsJob
  <2> HIDE DEF slot, r, q, u
  <2>3. IsJob(u) /\ u.here = q.here /\ u.running \in {0, q.running}
    BY <2>1, <2>2, UpdatedJob
  <2> QED
    BY <2>2, <2>3
<1> HIDE DEF u
<1>4. IsStore(m) /\ m[j] = u /\ \A i \in Jobs : i # j => m[i] = mem[api][i]
  <2>1. IsStore(m)
    BY <1>1, <1>2, <1>3, StoreChange DEF Present
  <2> QED
    BY <2>1, <1>2 DEF IsStore
<1> HIDE DEF m
<1>5. \A i \in Jobs : m[i].here = mem[api][i].here /\ m[i].running \in {0, mem[api][i].running}
  BY <1>3, <1>4
<1> QED
  BY <1>1, <1>4, <1>5

LEMMA UpdateShape ==
    ASSUME Shape, NEW j \in Jobs, NEW enabled \in BOOLEAN, NEW at, Update(j, enabled, at)
    PROVE  Shape'
<1>1. PICK m : IsStore(m) /\ Persist(api, m) /\ ArmTimer(api, m)
  BY UpdateFacts
<1>2. UNCHANGED <<now, api, batch, manual, solo>> /\ api \in Services
  BY DEF Update, Shape, Clocks
<1> QED
  BY <1>1, <1>2, ArmShape, SectionShape DEF Shape

LEMMA RemoveShape == ASSUME Shape, NEW j \in Jobs, Remove(j) PROVE Shape'
<1> DEFINE m == [mem[api] EXCEPT ![j] = Erase(@)]
<1>1. /\ Persist(api, m) /\ ArmTimer(api, m) /\ UNCHANGED <<now, api, batch, manual, solo>>
      /\ api \in Services
  BY DEF Remove, Shape, Clocks
<1>2. IsStore(m)
  BY <1>1, EraseFacts, StoreChange DEF Shape, Stores, IsStore
<1> HIDE DEF m
<1> QED
  BY <1>1, <1>2, ArmShape, SectionShape DEF Shape

LEMMA LooksShape ==
    ASSUME Shape, \/ List \/ EnqueueRun
                  \/ \E j \in Jobs, f \in BOOLEAN : InspectManualRunPreflight(j, f)
    PROVE  Shape'
<1> DEFINE m == RecomputeNextRunsForMaintenance(mem[api], now, FALSE)
<1>1. api \in Services /\ IsStore(mem[api])
  BY DEF Shape, Clocks, Stores
<1>2. IsStore(m)
  BY <1>1, MaintenanceRepairs DEF Repairs
<1>3. CASE List
  <2>1. Persist(api, m) /\ UNCHANGED <<now, api, timer, batch, manual, solo>>
    BY <1>3 DEF List
  <2> HIDE DEF m
  <2> QED
    BY <1>1, <1>2, <2>1, SectionShape DEF Shape, Timers
<1>4. ASSUME mem' = [mem EXCEPT ![api] = Inspected], IsManual(manual'),
             UNCHANGED <<now, disk, writing, api, timer, batch, solo>>
      PROVE  Shape'
  <2>1. mem' = [mem EXCEPT ![api] = m]
    BY <1>4 DEF Inspected
  <2> HIDE DEF m
  <2>2. Stores'
    BY <1>1, <1>2, <1>4, <2>1 DEF Shape, Stores
  <2> QED
    BY <1>4, <2>2 DEF Shape, Clocks, Timers, Batches
<1>5. CASE EnqueueRun
  BY <1>4, <1>5 DEF EnqueueRun, Shape
<1>6. ASSUME NEW j \in Jobs, NEW f \in BOOLEAN, InspectManualRunPreflight(j, f)
      PROVE  Shape'
  <2>1. manual' = [phase |-> "checked", job |-> j, svc |-> api, started |-> now]
    BY <1>6 DEF InspectManualRunPreflight
  <2>2. IsManual(manual')
    BY <2>1 DEF IsManual, Shape, Clocks
  <2> QED
    BY <1>4, <1>6, <2>2 DEF InspectManualRunPreflight
<1> QED
  BY <1>3, <1>5, <1>6

-----------------------------------------------------------------------------
(* What the sections do to a store.                                        *)

\* A section that ends the runs of the jobs in S, from store b to store m.
Follows(b, m) ==
    \A j \in Jobs : /\ m[j].running \in {0, b[j].running}
                    /\ b[j].here # "new" => m[j].here \in {b[j].here, "gone"}
Ends(b, m, S) ==
    /\ IsStore(m) /\ Follows(b, m)
    /\ \A j \in S : m[j].running = 0
    /\ EndClaims(S) \subseteq dropped'
    /\ \A j \in Jobs \ S :
          Claims(j) > 0 /\ b[j].running # 0 /\ m[j].running = 0 /\ Present(m[j]) => j \in dropped'

\* A section that marks the jobs in S for runs to come.
Marks(b, m, S) ==
    /\ IsStore(m)
    /\ \A j \in Jobs : m[j].here = b[j].here /\ m[j].enabled = b[j].enabled
    /\ \A j \in S : Present(b[j]) /\ b[j].running = 0 /\ m[j].running # 0
    /\ \A j \in Jobs \ S : m[j].running = b[j].running

LEMMA ClearedEnds ==
    ASSUME NEW b, NEW m, IsStore(m), Follows(b, m), dropped' = dropped \cup Cleared(b, m)
    PROVE  Ends(b, m, {})
BY DEF Ends, EndClaims, Cleared

LEMMA StepShape ==
    ASSUME Shape, NEW s \in Services, NEW m, IsStore(m), Persist(s, m),
           UNCHANGED <<now, api, solo>>, Timers', Batches', IsManual(manual')
    PROVE  Shape'
BY PersistFacts DEF Shape, Clocks

LEMMA AddFacts ==
    ASSUME Shape, NEW j \in Jobs, NEW t, Add(j, t)
    PROVE  \E m : Persist(api, m) /\ ArmTimer(api, m) /\ Ends(mem[api], m, {})
<1> DEFINE r == [mem[api][j] EXCEPT !.here = "yes", !.enabled = TRUE,
                                    !.at = IF j \in OneShots THEN t ELSE 0]
           u == [mem[api] EXCEPT ![j] = r]
           m == RecomputeNextRuns(u, now)
<1>1. /\ Persist(api, m) /\ ArmTimer(api, m) /\ dropped' = dropped \cup Cleared(mem[api], m)
      /\ api \in Services /\ mem[api][j].here = "new"
  BY DEF Add, Shape, Clocks
<1>2. IsStore(mem[api]) /\ IsJob(mem[api][j])
  BY <1>1 DEF Shape, Stores, IsStore
<1>3. IsJob(r) /\ Present(r) /\ r.running = mem[api][j].running
  BY <1>2 DEF IsJob, Present
<1> HIDE DEF r
<1>4. IsStore(u) /\ u[j] = r /\ \A i \in Jobs : i # j => u[i] = mem[api][i]
  <2>1. IsStore(u)
    BY <1>2, <1>3, StoreChange
  <2> QED
    BY <2>1, <1>2 DEF IsStore
<1> HIDE DEF u
<1>5. Repairs(u, m)
  BY <1>4, MaintenanceRepairs
<1> HIDE DEF m
<1>6. IsStore(m) /\ Follows(mem[api], m)
  BY <1>1, <1>3, <1>4, <1>5 DEF Repairs, Follows
<1> QED
  BY <1>1, <1>6, ClearedEnds

LEMMA RemoveFacts ==
    ASSUME Shape, NEW j \in Jobs, Remove(j)
    PROVE  \E m : Persist(api, m) /\ ArmTimer(api, m) /\ Ends(mem[api], m, {})
<1> DEFINE r == Erase(mem[api][j])
           m == [mem[api] EXCEPT ![j] = r]
<1>1. /\ Persist(api, m) /\ ArmTimer(api, m) /\ dropped' = dropped /\ api \in Services
  BY DEF Remove, Shape, Clocks
<1>2. IsStore(mem[api]) /\ IsJob(mem[api][j])
  BY <1>1 DEF Shape, Stores, IsStore
<1>3. IsJob(r) /\ r.here = "gone" /\ r.running = 0
  BY <1>2, EraseFacts
<1> HIDE DEF r
<1>4. IsStore(m) /\ m[j] = r /\ \A i \in Jobs : i # j => m[i] = mem[api][i]
  <2>1. IsStore(m)
    BY <1>2, <1>3, StoreChange
  <2> QED
    BY <2>1, <1>2 DEF IsStore
<1> HIDE DEF m
<1>5. \A i \in Jobs : IsJob(mem[api][i])
  BY <1>2 DEF IsStore
<1>6. Follows(mem[api], m)
  BY <1>3, <1>4, <1>5 DEF Follows, IsJob
<1>7. Ends(mem[api], m, {})
  BY <1>1, <1>3, <1>4, <1>6 DEF Ends, EndClaims, Present
<1> QED
  BY <1>1, <1>7

LEMMA RepairEnds ==
    ASSUME NEW b, NEW m, Repairs(b, m), dropped' = dropped \cup Cleared(b, m)
    PROVE  Ends(b, m, {})
<1>1. IsStore(m) /\ Follows(b, m)
  BY DEF Repairs, Follows
<1> QED
  BY <1>1, ClearedEnds

LEMMA LooksFacts ==
    ASSUME Shape, \/ List \/ EnqueueRun
                  \/ \E j \in Jobs, f \in BOOLEAN : InspectManualRunPreflight(j, f)
    PROVE  \E m : /\ Repairs(mem[api], m) /\ Ends(mem[api], m, {})
                  /\ \/ Persist(api, m)
                     \/ mem' = [mem EXCEPT ![api] = m] /\ UNCHANGED <<disk, writing>>
<1> DEFINE m == RecomputeNextRunsForMaintenance(mem[api], now, FALSE)
<1>1. IsStore(mem[api])
  BY DEF Shape, Clocks, Stores
<1>2. Repairs(mem[api], m)
  BY <1>1, MaintenanceRepairs
<1>3. /\ dropped' = dropped \cup Cleared(mem[api], m)
      /\ \/ Persist(api, m)
         \/ mem' = [mem EXCEPT ![api] = m] /\ UNCHANGED <<disk, writing>>
  <2>1. CASE List
    BY <2>1 DEF List
  <2>2. CASE EnqueueRun
    BY <2>2 DEF EnqueueRun, Inspected
  <2>3. CASE \E j \in Jobs, f \in BOOLEAN : InspectManualRunPreflight(j, f)
    BY <2>3 DEF InspectManualRunPreflight, Inspected
  <2> QED
    BY <2>1, <2>2, <2>3
<1> HIDE DEF m
<1> QED
  BY <1>2, <1>3, RepairEnds

LEMMA UpdateEnds ==
    ASSUME Shape, NEW j \in Jobs, NEW enabled \in BOOLEAN, NEW at, Update(j, enabled, at)
    PROVE  \E m : Persist(api, m) /\ ArmTimer(api, m) /\ Ends(mem[api], m, {})
<1>1. PICK m : /\ IsStore(m) /\ Persist(api, m) /\ ArmTimer(api, m)
               /\ dropped' = dropped \cup Cleared(mem[api], m)
               /\ \A i \in Jobs : /\ m[i].here = mem[api][i].here
                                  /\ m[i].running \in {0, mem[api][i].running}
  BY UpdateFacts
<1>2. Follows(mem[api], m)
  BY <1>1 DEF Follows
<1> QED
  BY <1>1, <1>2, ClearedEnds

LEMMA FinishStartFacts ==
    ASSUME Shape, NEW s \in Services, FinishStart(s)
    PROVE  \E m : /\ ArmTimer(s, m) /\ Ends(mem[s], m, {})
                  /\ Persist(s, m) \/ (m = mem[s] /\ UNCHANGED <<mem, disk, writing>>)
<1> DEFINE m == RecomputeNextRuns(mem[s], now)
<1>1. IsStore(mem[s])
  BY DEF Shape, Stores
<1>2. Repairs(mem[s], m)
  BY <1>1, MaintenanceRepairs
<1>3. /\ dropped' = dropped \cup Cleared(mem[s], m) /\ ArmTimer(s, m)
      /\ Persist(s, m) \/ (m = mem[s] /\ UNCHANGED <<mem, disk, writing>>)
  BY DEF FinishStart
<1> HIDE DEF m
<1> QED
  BY <1>2, <1>3, RepairEnds

\* A tick repairs the store or marks what is due; its timer is set before.
OnTimerMarks(s, m, due) ==
    /\ Persist(s, m) /\ Marks(disk, m, due) /\ UNCHANGED <<timer, dropped>>
    /\ due \subseteq Jobs
    /\ batch' = [batch EXCEPT ![s]["tick"] =
                    [Idle EXCEPT !.phase = "run", !.jobs = due, !.attached = TRUE]]

LEMMA MarkedStore ==
    ASSUME NEW b, IsStore(b), NEW S \in SUBSET Jobs, NEW t \in Nat \ {0},
           \A j \in S : Present(b[j]) /\ b[j].running = 0
    PROVE  Marks(b, [j \in Jobs |-> IF j \in S THEN [b[j] EXCEPT !.running = t] ELSE b[j]], S)
<1> DEFINE m == [j \in Jobs |-> IF j \in S THEN [b[j] EXCEPT !.running = t] ELSE b[j]]
<1>1. ASSUME NEW j \in Jobs
      PROVE  /\ IsJob(m[j]) /\ (m[j].running # 0 => Present(m[j]))
             /\ m[j].here = b[j].here /\ m[j].enabled = b[j].enabled
             /\ j \in S => m[j].running = t
             /\ j \notin S => m[j].running = b[j].running
  <2> DEFINE r == b[j]
  <2>1. IsJob(r) /\ (r.running # 0 => Present(r)) /\ (j \in S => Present(r))
    BY DEF IsStore
  <2>2. m[j] = IF j \in S THEN [r EXCEPT !.running = t] ELSE r
    OBVIOUS
  <2> HIDE DEF m, r
  <2>3. CASE j \in S
    <3>1. m[j] = [r EXCEPT !.running = t]
      BY <2>2, <2>3
    <3>2. IsJob(m[j]) /\ m[j].here = r.here /\ m[j].enabled = r.enabled /\ m[j].running = t
      BY <2>1, <3>1 DEF IsJob
    <3> QED
      BY <2>1, <2>3, <3>2 DEF Present, r
  <2>4. CASE j \notin S
    BY <2>1, <2>2, <2>4 DEF r
  <2> QED
    BY <2>3, <2>4
<1>2. m = [j \in Jobs |-> m[j]]
  OBVIOUS
<1> HIDE DEF m
<1>3. IsStore(m)
  BY <1>1, <1>2 DEF IsStore
<1>4. \A j \in S : m[j].running # 0
  BY <1>1
<1>5. \A j \in Jobs \ S : m[j].running = b[j].running
  BY <1>1
<1>6. \A j \in Jobs : m[j].here = b[j].here /\ m[j].enabled = b[j].enabled
  BY <1>1
<1>7. Marks(b, m, S)
  BY <1>3, <1>4, <1>5, <1>6 DEF Marks
<1> QED
  BY <1>7 DEF m

LEMMA OnTimerFacts ==
    ASSUME Shape, NEW s \in Services, OnTimer(s)
    PROVE  \/ \E m : /\ Persist(s, m) /\ ArmTimer(s, m) /\ Ends(disk, m, {})
                     /\ batch' = batch
           \/ \E m, due : OnTimerMarks(s, m, due)
<1> DEFINE due == {j \in Jobs : IsRunnableJob(disk[j], now)}
           n == RecomputeNextRunsForMaintenance(disk, now, TRUE)
           m == [j \in Jobs |-> IF j \in due THEN [disk[j] EXCEPT !.running = now] ELSE disk[j]]
<1>1. IsStore(disk) /\ now \in Nat \ {0}
  BY DEF Shape, Stores, Clocks
<1>2. CASE due = {}
  <2>1. /\ Persist(s, n) /\ ArmTimer(s, n) /\ dropped' = dropped \cup Cleared(disk, n)
        /\ batch' = batch
    BY <1>2 DEF OnTimer
  <2>2. Repairs(disk, n)
    BY <1>1, MaintenanceRepairs
  <2> HIDE DEF n
  <2> QED
    BY <2>1, <2>2, RepairEnds
<1>3. CASE due # {}
  <2>1. /\ Persist(s, m) /\ UNCHANGED <<timer, dropped>>
        /\ batch' = [batch EXCEPT ![s]["tick"] =
                        [Idle EXCEPT !.phase = "run", !.jobs = due, !.attached = TRUE]]
    BY <1>3 DEF OnTimer
  <2>2. due \in SUBSET Jobs /\ \A j \in due : Present(disk[j]) /\ disk[j].running = 0
    BY DEF IsRunnableJob, Due
  <2> HIDE DEF due
  <2>3. Marks(disk, m, due)
    BY <1>1, <2>2, MarkedStore
  <2> HIDE DEF m
  <2>4. OnTimerMarks(s, m, due)
    BY <2>1, <2>2, <2>3 DEF OnTimerMarks
  <2> QED
    BY <2>4
<1> QED
  BY <1>2, <1>3

\* A batch whose runs are all done leaves no marker on its jobs.
LEMMA OutcomesEnd ==
    ASSUME NEW b, IsStore(b), NEW x, IsBatch(x), AllDone(x),
           NEW y, Repairs(ApplyOutcomesTo(b, x.done), y),
           NEW m, Repairs(y, m),
           dropped' = EndClaims(x.jobs) \cup Cleared(ApplyOutcomesTo(b, x.done), m)
    PROVE  Ends(b, m, x.jobs)
<1> DEFINE a == ApplyOutcomesTo(b, x.done)
<1>1. /\ IsStore(a)
      /\ \A j \in Jobs : /\ a[j].here \in {b[j].here, "gone"}
                         /\ x.done[j] = NoOutcome => a[j] = b[j]
                         /\ x.done[j] # NoOutcome => a[j].running = 0
                         /\ a[j].running \in {0, b[j].running}
  BY OutcomesFacts
<1> HIDE DEF a
<1>2. /\ \A j \in x.jobs : x.done[j] # NoOutcome
      /\ x.jobs \subseteq Jobs /\ \A j \in Jobs \ x.jobs : x.done[j] = NoOutcome
  BY DEF IsBatch, AllDone
<1>3. \A j \in Jobs : m[j].here = a[j].here /\ m[j].running \in {0, a[j].running}
  BY DEF Repairs, a
<1>4. IsStore(m) /\ Follows(b, m)
  BY <1>1, <1>3 DEF Repairs, Follows
<1>5. \A j \in x.jobs : m[j].running = 0
  BY <1>1, <1>2, <1>3
<1>6. /\ EndClaims(x.jobs) \subseteq dropped'
      /\ \A j \in Jobs \ x.jobs :
            Claims(j) > 0 /\ b[j].running # 0 /\ m[j].running = 0 => j \in dropped'
  BY <1>1, <1>2 DEF Cleared, a
<1> QED
  BY <1>4, <1>5, <1>6 DEF Ends

LEMMA RepairsAgain ==
    ASSUME NEW b, NEW m, Repairs(b, m), NEW t, NEW expired
    PROVE  Repairs(m, RecomputeNextRunsForMaintenance(m, t, expired))
BY MaintenanceRepairs DEF Repairs

LEMMA ApplyOutcomesFacts ==
    ASSUME Shape, NEW s \in Services, ApplyOutcomes(s)
    PROVE  \E m : /\ Persist(s, m) /\ ArmTimer(s, m)
                  /\ Ends(disk, m, batch[s]["tick"].jobs)
<1> DEFINE x == batch[s]["tick"]
           a == ApplyOutcomesTo(disk, x.done)
           m == RecomputeNextRunsForMaintenance(a, now, FALSE)
<1>1. /\ AllDone(x) /\ Persist(s, m) /\ ArmTimer(s, m)
      /\ dropped' = EndClaims(x.jobs) \cup Cleared(a, m)
  BY DEF ApplyOutcomes
<1>2. IsStore(disk) /\ IsBatch(x)
  BY DEF Shape, Stores, Batches, Kinds
<1> HIDE DEF x
<1>3. IsStore(a)
  BY <1>2, OutcomesFacts
<1>4. Repairs(a, m) /\ Repairs(a, a)
  BY <1>3, MaintenanceRepairs DEF Repairs
<1> HIDE DEF m
<1>5. Ends(disk, m, x.jobs)
  BY <1>1, <1>2, <1>4, OutcomesEnd
<1> QED
  BY <1>1, <1>5 DEF x

LEMMA ApplyStartupFacts ==
    ASSUME Shape, NEW s \in Services, ApplyStartupCatchupOutcomes(s)
    PROVE  \E m : /\ Persist(s, m) /\ Ends(mem[s], m, batch[s]["boot"].jobs)
                  /\ \A j \in Jobs : m[j].here = ApplyOutcomesTo(mem[s], batch[s]["boot"].done)[j].here
<1> DEFINE x == batch[s]["boot"]
           a == ApplyOutcomesTo(mem[s], x.done)
           d == [j \in Jobs |-> IF j \in x.later /\ Present(a[j]) /\ a[j].enabled
                                THEN [a[j] EXCEPT !.next = now + 1] ELSE a[j]]
           m == RecomputeNextRunsForMaintenance(d, now, FALSE)
<1>1. AllDone(x) /\ Persist(s, m) /\ dropped' = EndClaims(x.jobs) \cup Cleared(a, m)
  BY DEF ApplyStartupCatchupOutcomes
<1>2. IsStore(mem[s]) /\ IsBatch(x)
  BY DEF Shape, Stores, Batches, Kinds
<1> HIDE DEF x
<1>3. IsStore(a)
  BY <1>2, OutcomesFacts
<1>4. Repairs(a, d)
  <2> HIDE DEF a
  <2>1. ASSUME NEW j \in Jobs
        PROVE  /\ IsJob(d[j]) /\ d[j].here = a[j].here /\ d[j].enabled = a[j].enabled
               /\ d[j].running = a[j].running /\ (a[j].running # 0 => Present(a[j]))
    <3> DEFINE slot == now + 1
    <3>1. d[j] = a[j] \/ d[j] = [a[j] EXCEPT !.next = slot]
      OBVIOUS
    <3>2. IsJob(a[j]) /\ (a[j].running # 0 => Present(a[j]))
      BY <1>3 DEF IsStore
    <3> HIDE DEF d, slot
    <3>3. CASE d[j] = [a[j] EXCEPT !.next = slot]
      BY <3>2, <3>3, SlotMoves
    <3> QED
      BY <3>1, <3>2, <3>3
  <2>2. d = [j \in Jobs |-> d[j]]
    OBVIOUS
  <2> HIDE DEF d
  <2> QED
    BY <2>1, <2>2 DEF Repairs, IsStore, Present
<1>5. Repairs(d, m)
  BY <1>4, RepairsAgain
<1> HIDE DEF m, d
<1>6. Ends(mem[s], m, x.jobs)
  BY <1>1, <1>2, <1>4, <1>5, OutcomesEnd
<1>7. \A j \in Jobs : m[j].here = a[j].here
  BY <1>4, <1>5 DEF Repairs
<1> HIDE DEF a
<1>8. \E n : Persist(s, n) /\ Ends(mem[s], n, x.jobs) /\ \A j \in Jobs : n[j].here = a[j].here
  BY <1>1, <1>6, <1>7
<1> QED
  BY <1>8 DEF x, a

LEMMA LoadFacts ==
    ASSUME Shape, NEW s \in Services, LoadAtStart(s)
    PROVE  /\ \E m : Persist(s, m) /\ IsStore(m) /\ \A j \in Jobs : m[j].running = 0
           /\ \E S \in SUBSET Jobs :
                 batch' = [batch EXCEPT ![s]["boot"] = [Idle EXCEPT !.phase = "loaded", !.jobs = S]]
<1> DEFINE m == [j \in Jobs |-> [disk[j] EXCEPT !.running = 0]]
           broken == {j \in OneShots : disk[j].running # 0}
<1>1. /\ Persist(s, m)
      /\ batch' = [batch EXCEPT ![s]["boot"] = [Idle EXCEPT !.phase = "loaded", !.jobs = broken]]
  BY DEF LoadAtStart
<1>2. broken \in SUBSET Jobs
  BY BoundsAssumption
<1> HIDE DEF broken
<1>3. ASSUME NEW j \in Jobs PROVE IsJob(m[j]) /\ m[j].running = 0
  <2>1. IsJob(disk[j]) /\ m[j] = [disk[j] EXCEPT !.running = 0]
    BY DEF Shape, Stores, IsStore
  <2> HIDE DEF m
  <2> QED
    BY <2>1 DEF IsJob
<1>4. m = [j \in Jobs |-> m[j]]
  OBVIOUS
<1> HIDE DEF m
<1>5. IsStore(m)
  BY <1>3, <1>4 DEF IsStore
<1> QED
  BY <1>1, <1>2, <1>3, <1>5

\* The catch-up marks the missed jobs it will run at once.
CatchupMarks(s, m, S, later) ==
    /\ Persist(s, m) /\ Marks(mem[s], m, S)
    /\ S \subseteq Jobs
    /\ batch' = [batch EXCEPT ![s]["boot"] =
                    [Idle EXCEPT !.phase = "run", !.jobs = S, !.later = later]]

LEMMA PlanFacts ==
    ASSUME Shape, NEW s \in Services, PlanStartupCatchup(s)
    PROVE  \/ /\ UNCHANGED <<mem, disk, writing>>
              /\ batch' = [batch EXCEPT ![s]["boot"] = [Idle EXCEPT !.phase = "caughtUp"]]
           \/ \E m, S, later : CatchupMarks(s, m, S, later)
<1> DEFINE b == batch[s]["boot"]
           missed == {j \in Jobs \ b.jobs : IsMissedJob(j, mem[s][j], now)}
           Before(i, j) == \/ mem[s][i].next < mem[s][j].next
                           \/ mem[s][i].next = mem[s][j].next /\ i < j
           first == {j \in missed : Cardinality({i \in missed : Before(i, j)}) < MaxMissed}
           later == missed \ first
           m == [j \in Jobs |-> IF j \in first THEN [mem[s][j] EXCEPT !.running = now]
                                ELSE mem[s][j]]
<1>1. IsStore(mem[s]) /\ now \in Nat \ {0}
  BY DEF Shape, Stores, Clocks
<1>2. CASE missed = {}
  <2>1. /\ UNCHANGED <<mem, disk, writing>>
        /\ batch' = [batch EXCEPT ![s]["boot"] = [Idle EXCEPT !.phase = "caughtUp"]]
    BY <1>2 DEF PlanStartupCatchup
  <2> QED
    BY <2>1
<1>3. CASE missed # {}
  <2>1. /\ Persist(s, m)
        /\ batch' = [batch EXCEPT ![s]["boot"] =
                        [Idle EXCEPT !.phase = "run", !.jobs = first, !.later = later]]
    BY <1>3 DEF PlanStartupCatchup
  <2>2. first \in SUBSET Jobs /\ \A j \in first : Present(mem[s][j]) /\ mem[s][j].running = 0
    BY DEF IsMissedJob, IsRunnableJob, Due
  <2> HIDE DEF first, later
  <2>3. Marks(mem[s], m, first)
    BY <1>1, <2>2, MarkedStore
  <2> HIDE DEF m
  <2>4. CatchupMarks(s, m, first, later)
    BY <2>1, <2>2, <2>3 DEF CatchupMarks
  <2> QED
    BY <2>4
<1> QED
  BY <1>2, <1>3

LEMMA PrepareFacts ==
    ASSUME Shape, PrepareManualRun
    PROVE  \/ manual' = NoManual /\ UNCHANGED <<mem, disk, writing>>
           \/ \E m : /\ Persist(manual.svc, m) /\ Marks(mem[manual.svc], m, {manual.job})
                     /\ manual' = [manual EXCEPT !.phase = "run"]
<1> DEFINE s == manual.svc
           j == manual.job
           t == manual.started
           b == mem[s]
           m == [b EXCEPT ![j].running = t]
           n == [i \in Jobs |-> IF i \in {j} THEN [b[i] EXCEPT !.running = t] ELSE b[i]]
<1>1. manual.phase = "checked"
  BY DEF PrepareManualRun
<1>2. s \in Services /\ j \in Jobs /\ t \in Nat \ {0}
  BY <1>1 DEF Shape, IsManual
<1>3. CASE Present(b[j]) /\ b[j].running = 0
  <2>1. Persist(s, m) /\ manual' = [manual EXCEPT !.phase = "run"]
    BY <1>3 DEF PrepareManualRun
  <2>2. IsStore(b)
    BY <1>2 DEF Shape, Stores
  <2> HIDE DEF s, j, t, b
  <2>3. m = n
    BY <1>2, <2>2 DEF IsStore
  <2>4. Marks(b, n, {j})
    BY <1>2, <1>3, <2>2, MarkedStore
  <2>5. Marks(b, m, {j})
    BY <2>3, <2>4
  <2> HIDE DEF m, n
  <2> QED
    BY <2>1, <2>5 DEF s, j, b
<1>4. CASE ~(Present(b[j]) /\ b[j].running = 0)
  BY <1>4 DEF PrepareManualRun
<1> QED
  BY <1>3, <1>4

LEMMA FinishFacts ==
    ASSUME Shape, NEW result, FinishPreparedManualRun(result)
    PROVE  \/ /\ ~Present(mem[manual.svc][manual.job]) /\ dropped' = EndClaims({manual.job})
              /\ UNCHANGED <<mem, disk, writing, timer, batch>>
           \/ \E m : /\ Persist(manual.svc, m) /\ ArmTimer(manual.svc, m)
                     /\ Ends(disk, m, {manual.job})
                     /\ batch' = [batch EXCEPT ![manual.svc]["tick"].attached = FALSE]
<1> DEFINE s == manual.svc
           j == manual.job
           o == [result |-> result, started |-> manual.started, ended |-> now]
           r == ApplyJobResult(j, mem[s][j], o)
           d == disk[j]
           merged == IF ~Present(r) THEN Erase(d)
                     ELSE IF Present(d) THEN [r EXCEPT !.at = d.at] ELSE d
           u == [disk EXCEPT ![j] = merged]
           m == RecomputeNextRunsForMaintenance(u, now, TRUE)
<1>1. /\ manual.phase = "run"
      /\ ~Present(mem[s][j]) => /\ dropped' = EndClaims({j})
                                /\ UNCHANGED <<mem, disk, writing, timer, batch>>
      /\ Present(mem[s][j]) => /\ Persist(s, m) /\ ArmTimer(s, m)
                               /\ batch' = [batch EXCEPT ![s]["tick"].attached = FALSE]
                               /\ dropped' = EndClaims({j}) \cup (Cleared(disk, m) \ {j})
  BY DEF FinishPreparedManualRun
<1>2. s \in Services /\ j \in Jobs
  BY <1>1 DEF Shape, IsManual
<1>3. IsStore(disk) /\ IsJob(mem[s][j]) /\ IsJob(d) /\ (d.running # 0 => Present(d))
  BY <1>2 DEF Shape, Stores, IsStore
<1>4. IsJob(r) /\ r.running = 0
  BY <1>3, ResultFacts
<1> HIDE DEF r
<1>5. IsJob(merged) /\ merged.running = 0 /\ merged.here \in {d.here, "gone"}
  <2> HIDE DEF d
  <2>1. CASE ~Present(r)
    BY <1>3, <2>1, EraseFacts
  <2>2. CASE Present(r) /\ Present(d)
    <3>1. merged = [r EXCEPT !.at = d.at]
      BY <2>2
    <3> HIDE DEF merged
    <3> QED
      BY <1>4, <2>2, <3>1 DEF IsJob, Present
  <2>3. CASE Present(r) /\ ~Present(d)
    BY <1>3, <2>3 DEF IsJob
  <2> QED
    BY <2>1, <2>2, <2>3
<1> HIDE DEF merged
<1>6. IsStore(u) /\ u[j] = merged /\ \A i \in Jobs : i # j => u[i] = disk[i]
  <2>1. IsStore(u)
    BY <1>2, <1>3, <1>5, StoreChange
  <2> QED
    BY <2>1, <1>2, <1>3 DEF IsStore
<1> HIDE DEF u
<1>7. Repairs(u, m)
  BY <1>6, MaintenanceRepairs
<1>8. ASSUME Present(mem[s][j])
      PROVE  Ends(disk, m, {j})
  <2>1. dropped' = EndClaims({j}) \cup (Cleared(disk, m) \ {j})
    BY <1>1, <1>8
  <2>2. \A i \in Jobs : IsJob(disk[i])
    BY <1>3 DEF IsStore
  <2> HIDE DEF m, s, j, o
  <2>3. m[j].running = 0
    BY <1>2, <1>5, <1>6, <1>7 DEF Repairs
  <2>4. IsStore(m) /\ Follows(disk, m)
    BY <1>2, <1>5, <1>6, <1>7, <2>2 DEF Repairs, Follows, d, IsJob
  <2> QED
    BY <2>1, <2>3, <2>4 DEF Ends, Cleared
<1> HIDE DEF m, o
<1> QED
  BY <1>1, <1>8

\* A set of numbers has a least one, by the library's well-founded induction.
LEMMA LeastNumber ==
    ASSUME NEW T, T \subseteq Nat, T # {}
    PROVE  Min(T) \in T
<1> DEFINE R == OpToRel(<, Nat)
<1>1. \A x, y \in Nat : x < y => <<x, y>> \in R
  BY DEF OpToRel
<1>2. IsWellFoundedOn(R, Nat)
  BY NatLessThanWellFounded
<1> HIDE DEF R
<1>3. PICK x \in T : \A y \in T : ~(<<y, x>> \in R)
  BY <1>2, WFMin
<1>4. ASSUME NEW y \in T PROVE x <= y
  <2>1. x \in Nat /\ y \in Nat /\ ~(y < x)
    BY <1>1, <1>3
  <2> QED
    BY <2>1
<1> QED
  BY <1>3, <1>4 DEF Min

\* Runs began and ended in the past, in this order.
Ended(t, o) == o # NoOutcome => o.ended \in 0..t /\ o.started \in 0..o.ended
Dated(t, b) ==
    b.phase = "run" => /\ b.cur # 0 => b.started \in 0..t
                       /\ \A j \in Jobs : Ended(t, b.done[j])

\* The run of a job begins or ends; the claims of the batch stay.
SameClaims(s, k) ==
    \E x : /\ IsBatch(x) /\ batch' = [batch EXCEPT ![s][k] = x]
           /\ x.phase = batch[s][k].phase /\ x.jobs = batch[s][k].jobs
           /\ Dated(now, batch[s][k]) => Dated(now, x)

LEMMA StartRunBatch ==
    ASSUME Shape, NEW s \in Services, NEW k \in Kinds, StartRun(s, k)
    PROVE  SameClaims(s, k)
<1> DEFINE b == batch[s][k]
           waiting == {j \in b.jobs : b.done[j] = NoOutcome}
           j == Min(waiting)
           x == [b EXCEPT !.cur = j, !.started = now]
<1>1. /\ b.phase = "run" /\ waiting # {}
      /\ batch' = [batch EXCEPT ![s][k].cur = j, ![s][k].started = now]
  BY DEF StartRun
<1>2. IsBatch(b)
  BY DEF Shape, Batches
<1>3. waiting \subseteq b.jobs /\ waiting \subseteq Nat
  BY <1>2, BoundsAssumption DEF IsBatch
<1>4. j \in b.jobs
  <2> HIDE DEF waiting
  <2> QED
    BY <1>1, <1>3, LeastNumber
<1> HIDE DEF j
<1>5. batch' = [batch EXCEPT ![s][k] = x]
  <2>1. batch = [p \in Services |-> batch[p]] /\ batch[s] = [l \in Kinds |-> batch[s][l]]
    BY DEF Shape, Batches
  <2>2. [batch EXCEPT ![s][k].cur = j, ![s][k].started = now] = [batch EXCEPT ![s][k] = x]
    BY <1>2, <2>1 DEF IsBatch
  <2> QED
    BY <1>1, <2>2
<1> HIDE DEF b
<1>6. /\ IsBatch(x) /\ x.phase = b.phase /\ x.jobs = b.jobs
      /\ x.started = now /\ x.done = b.done
  BY <1>2, <1>4 DEF IsBatch
<1> HIDE DEF x
<1>7. Dated(now, b) => Dated(now, x)
  BY <1>6 DEF Dated, Shape, Clocks
<1> QED
  BY <1>5, <1>6, <1>7 DEF SameClaims, b

LEMMA EndRunBatch ==
    ASSUME Shape, NEW s \in Services, NEW k \in Kinds, NEW result, EndRun(s, k, result)
    PROVE  SameClaims(s, k)
<1> DEFINE b == batch[s][k]
           o == [result |-> result, started |-> b.started, ended |-> now]
           done == [b.done EXCEPT ![b.cur] = o]
           x == [b EXCEPT !.cur = 0, !.started = 0, !.done = done]
<1>1. /\ b.phase = "run" /\ b.cur # 0 /\ o.started = b.started /\ o.ended = now
      /\ batch' = [batch EXCEPT ![s][k].cur = 0, ![s][k].started = 0,
                                ![s][k].done[b.cur] = o]
  BY DEF EndRun
<1>2. IsBatch(b)
  BY DEF Shape, Batches
<1>3. batch' = [batch EXCEPT ![s][k] = x]
  <2>1. batch = [p \in Services |-> batch[p]] /\ batch[s] = [l \in Kinds |-> batch[s][l]]
    BY DEF Shape, Batches
  <2> HIDE DEF o
  <2>2. [batch EXCEPT ![s][k].cur = 0, ![s][k].started = 0, ![s][k].done[b.cur] = o]
        = [batch EXCEPT ![s][k] = x]
    BY <1>2, <2>1 DEF IsBatch
  <2> QED
    BY <1>1, <2>2
<1> HIDE DEF b, o
<1>4. b.cur \in b.jobs /\ b.jobs \subseteq Jobs /\ b.done = [j \in Jobs |-> b.done[j]]
  BY <1>1, <1>2 DEF IsBatch
<1>5. /\ done = [j \in Jobs |-> done[j]] /\ done[b.cur] = o
      /\ \A j \in Jobs : j # b.cur => done[j] = b.done[j]
  BY <1>4
<1> HIDE DEF done
<1>6. x.phase = b.phase /\ x.jobs = b.jobs /\ x.done = done /\ x.cur = 0
  BY <1>2 DEF IsBatch
<1>7. x \in [phase : Phases, jobs : SUBSET Jobs, later : {x.later}, cur : {x.cur},
             started : {x.started}, done : {x.done}, attached : {x.attached}]
  BY <1>2 DEF IsBatch
<1> HIDE DEF x
<1>8. IsBatch(x)
  BY <1>1, <1>2, <1>4, <1>5, <1>6, <1>7 DEF IsBatch
<1>9. Dated(now, b) => Dated(now, x)
  <2>1. Dated(now, b) => Ended(now, o)
    BY <1>1 DEF Dated, Ended, Shape, Clocks
  <2> QED
    BY <1>1, <1>5, <1>6, <2>1 DEF Dated
<1> QED
  BY <1>3, <1>6, <1>8, <1>9 DEF SameClaims, b

\* A run stamps a job of its batch.
Stamps(s, k, m) ==
    /\ mem' = [mem EXCEPT ![s] = m] /\ IsStore(m)
    /\ \A j \in Jobs : /\ m[j].here = mem[s][j].here /\ m[j].enabled = mem[s][j].enabled
                       /\ m[j].at = mem[s][j].at /\ m[j].next = mem[s][j].next
                       /\ m[j].last = mem[s][j].last
                       /\ \/ m[j].running = mem[s][j].running
                          \/ m[j].running = now /\ j \in batch[s][k].jobs

LEMMA StartRunStore ==
    ASSUME Shape, NEW s \in Services, NEW k \in Kinds, StartRun(s, k)
    PROVE  \E m : Stamps(s, k, m)
<1> DEFINE b == batch[s][k]
           waiting == {j \in b.jobs : b.done[j] = NoOutcome}
           j == Min(waiting)
           q == mem[s]
           r == [q[j] EXCEPT !.running = now]
           n == [q EXCEPT ![j] = r]
<1>1. /\ waiting # {}
      /\ mem' = IF k = "tick" /\ b.attached /\ Present(mem[s][j])
                THEN [mem EXCEPT ![s][j].running = now] ELSE mem
  BY DEF StartRun
<1>2. IsBatch(b) /\ IsStore(q) /\ now \in Nat /\ mem = [p \in Services |-> mem[p]]
  BY DEF Shape, Batches, Stores, Clocks
<1>3. waiting \subseteq b.jobs /\ waiting \subseteq Nat
  BY <1>2, BoundsAssumption DEF IsBatch
<1>4. j \in b.jobs /\ j \in Jobs
  <2> HIDE DEF waiting
  <2>1. j \in b.jobs
    BY <1>1, <1>3, LeastNumber
  <2> QED
    BY <2>1, <1>2 DEF IsBatch
<1>5. CASE mem' = mem
  <2>1. mem' = [mem EXCEPT ![s] = q]
    BY <1>2, <1>5
  <2> HIDE DEF q, j
  <2>2. Stamps(s, k, q)
    BY <1>2, <2>1 DEF q, Stamps
  <2> QED
    BY <2>2
<1>6. CASE mem' # mem
  <2> HIDE DEF j
  <2>1. Present(q[j]) /\ mem' = [mem EXCEPT ![s][j].running = now]
    BY <1>1, <1>6
  <2>2. mem' = [mem EXCEPT ![s] = n]
    BY <1>2, <1>4, <2>1 DEF IsStore
  <2> HIDE DEF q
  <2>3. /\ IsJob(r) /\ r.here = q[j].here /\ r.enabled = q[j].enabled /\ r.running = now
        /\ r.at = q[j].at /\ r.next = q[j].next /\ r.last = q[j].last
    BY <1>2, <1>4 DEF IsStore, IsJob
  <2> HIDE DEF r
  <2>4. IsStore(n)
    BY <1>2, <1>4, <2>1, <2>3, StoreChange DEF Present
  <2>5. n[j] = r /\ \A i \in Jobs : i # j => n[i] = q[i]
    BY <1>2, <1>4 DEF IsStore
  <2> HIDE DEF n
  <2>6. \A i \in Jobs : /\ n[i].here = q[i].here /\ n[i].enabled = q[i].enabled
                        /\ n[i].at = q[i].at /\ n[i].next = q[i].next /\ n[i].last = q[i].last
                        /\ n[i].running = q[i].running \/ (n[i].running = now /\ i \in b.jobs)
    BY <1>4, <2>3, <2>5
  <2>7. \A i \in Jobs :
           /\ n[i].here = mem[s][i].here /\ n[i].enabled = mem[s][i].enabled
           /\ n[i].at = mem[s][i].at /\ n[i].next = mem[s][i].next /\ n[i].last = mem[s][i].last
           /\ \/ n[i].running = mem[s][i].running
              \/ n[i].running = now /\ i \in batch[s][k].jobs
    BY <2>6 DEF q
  <2> HIDE DEF b
  <2>8. Stamps(s, k, n)
    BY <2>2, <2>4, <2>7 DEF Stamps
  <2> QED
    BY <2>8
<1> QED
  BY <1>5, <1>6

-----------------------------------------------------------------------------
(* The types are kept by the other steps.                                  *)

LEMMA EndsStore == ASSUME NEW b, NEW m, NEW S, Ends(b, m, S) PROVE IsStore(m)
BY DEF Ends

\* Batches that an action puts in the place of another.
LEMMA NewBatches ==
    ASSUME NEW S \in SUBSET Jobs, NEW later
    PROVE  /\ IsBatch(Idle)
           /\ IsBatch([Idle EXCEPT !.phase = "caughtUp"])
           /\ IsBatch([Idle EXCEPT !.phase = "off"])
           /\ IsBatch([Idle EXCEPT !.phase = "none"])
           /\ IsBatch([Idle EXCEPT !.phase = "loaded", !.jobs = S])
           /\ IsBatch([Idle EXCEPT !.phase = "run", !.jobs = S, !.attached = TRUE])
           /\ IsBatch([Idle EXCEPT !.phase = "run", !.jobs = S, !.later = later])
<1> DEFINE none == [j \in Jobs |-> NoOutcome]
<1>1. ASSUME NEW p \in Phases, NEW T \in SUBSET Jobs, NEW l, NEW a
      PROVE  IsBatch([phase |-> p, jobs |-> T, later |-> l, cur |-> 0, started |-> 0,
                      done |-> none, attached |-> a])
  <2> DEFINE b == [phase |-> p, jobs |-> T, later |-> l, cur |-> 0, started |-> 0,
                   done |-> none, attached |-> a]
  <2>1. \A j \in Jobs : none[j] = NoOutcome
    OBVIOUS
  <2>2. none = [j \in Jobs |-> none[j]]
    OBVIOUS
  <2> HIDE DEF none
  <2> QED
    BY <2>1, <2>2 DEF IsBatch
<1>2. Idle = [phase |-> "idle", jobs |-> {}, later |-> {}, cur |-> 0, started |-> 0,
              done |-> none, attached |-> FALSE]
  BY DEF Idle
<1> HIDE DEF none
<1>3. {"none", "off", "loaded", "idle", "run", "caughtUp"} \subseteq Phases
      /\ {} \in SUBSET Jobs
  BY DEF Phases
<1>4. IsBatch(Idle)
  BY <1>1, <1>2, <1>3
<1>5. \A p \in Phases : IsBatch([Idle EXCEPT !.phase = p])
  BY <1>1, <1>2, <1>3
<1>6. IsBatch([Idle EXCEPT !.phase = "loaded", !.jobs = S])
  <2> DEFINE x == [Idle EXCEPT !.phase = "loaded", !.jobs = S]
  <2>1. x \in [phase : Phases, jobs : SUBSET Jobs, later : {x.later}, cur : {0},
               started : {x.started}, done : {Idle.done}, attached : {x.attached}]
    BY <1>2, <1>3
  <2> HIDE DEF x
  <2>2. IsBatch(x)
    BY <2>1, FreshBatch
  <2> QED
    BY <2>2 DEF x
<1>7. IsBatch([Idle EXCEPT !.phase = "run", !.jobs = S, !.attached = TRUE])
  <2> DEFINE x == [Idle EXCEPT !.phase = "run", !.jobs = S, !.attached = TRUE]
  <2>1. x \in [phase : Phases, jobs : SUBSET Jobs, later : {x.later}, cur : {0},
               started : {x.started}, done : {Idle.done}, attached : {x.attached}]
    BY <1>2, <1>3
  <2> HIDE DEF x
  <2>2. IsBatch(x)
    BY <2>1, FreshBatch
  <2> QED
    BY <2>2 DEF x
<1>8. IsBatch([Idle EXCEPT !.phase = "run", !.jobs = S, !.later = later])
  <2> DEFINE x == [Idle EXCEPT !.phase = "run", !.jobs = S, !.later = later]
  <2>1. x \in [phase : Phases, jobs : SUBSET Jobs, later : {x.later}, cur : {0},
               started : {x.started}, done : {Idle.done}, attached : {x.attached}]
    BY <1>2, <1>3
  <2> HIDE DEF x
  <2>2. IsBatch(x)
    BY <2>1, FreshBatch
  <2> QED
    BY <2>2 DEF x
<1> QED
  BY <1>3, <1>4, <1>5, <1>6, <1>7, <1>8

LEMMA PrepareShape == ASSUME Shape, PrepareManualRun PROVE Shape'
<1>1. UNCHANGED <<now, api, timer, batch, solo>> /\ manual.phase = "checked"
  BY DEF PrepareManualRun
<1>2. Timers' /\ Batches'
  BY <1>1 DEF Shape, Timers, Batches
<1>3. manual.svc \in Services /\ IsManual(manual)
  BY DEF Shape, IsManual
<1>4. CASE manual' = NoManual /\ UNCHANGED <<mem, disk, writing>>
  <2>1. IsManual(manual')
    BY <1>4, BoundsAssumption DEF IsManual, NoManual
  <2> QED
    BY <1>1, <1>2, <1>4, <2>1 DEF Shape, Clocks, Stores
<1>5. CASE \E m : /\ Persist(manual.svc, m) /\ Marks(mem[manual.svc], m, {manual.job})
                  /\ manual' = [manual EXCEPT !.phase = "run"]
  <2>1. PICK m : /\ Persist(manual.svc, m) /\ Marks(mem[manual.svc], m, {manual.job})
                 /\ manual' = [manual EXCEPT !.phase = "run"]
    BY <1>5
  <2>2. IsManual(manual')
    BY <1>1, <1>3, <2>1 DEF IsManual
  <2>3. IsStore(m)
    BY <2>1 DEF Marks
  <2> QED
    BY <1>1, <1>2, <1>3, <2>1, <2>2, <2>3, StepShape
<1> QED
  BY <1>4, <1>5, PrepareFacts

\* A reload of the store takes the job objects away from the tick.
LEMMA DetachBatch ==
    ASSUME Shape, NEW s \in Services,
           batch' = [batch EXCEPT ![s]["tick"].attached = FALSE]
    PROVE  SameClaims(s, "tick")
<1> DEFINE b == batch[s]["tick"]
           x == [b EXCEPT !.attached = FALSE]
<1>1. IsBatch(b)
  BY DEF Shape, Batches, Kinds
<1>2. batch' = [batch EXCEPT ![s]["tick"] = x]
  <2>1. batch = [p \in Services |-> batch[p]] /\ batch[s] = [l \in Kinds |-> batch[s][l]]
    BY DEF Shape, Batches
  <2> QED
    BY <1>1, <2>1 DEF IsBatch
<1> HIDE DEF b
<1>3. /\ IsBatch(x) /\ x.phase = b.phase /\ x.jobs = b.jobs
      /\ x.cur = b.cur /\ x.started = b.started /\ x.done = b.done
  BY <1>1 DEF IsBatch
<1> HIDE DEF x
<1>4. Dated(now, b) => Dated(now, x)
  BY <1>3 DEF Dated
<1> QED
  BY <1>2, <1>3, <1>4 DEF SameClaims, b

LEMMA SameClaimsBatches ==
    ASSUME Shape, NEW s \in Services, NEW k \in Kinds, SameClaims(s, k)
    PROVE  /\ Batches'
           /\ \A p \in Services, l \in Kinds : /\ batch'[p][l].phase = batch[p][l].phase
                                               /\ batch'[p][l].jobs = batch[p][l].jobs
<1>1. PICK x : /\ IsBatch(x) /\ batch' = [batch EXCEPT ![s][k] = x]
               /\ x.phase = batch[s][k].phase /\ x.jobs = batch[s][k].jobs
  BY DEF SameClaims
<1>2. /\ Batches' /\ batch'[s][k] = x
      /\ \A p \in Services, l \in Kinds : p # s \/ l # k => batch'[p][l] = batch[p][l]
  BY <1>1, BatchChange DEF Shape
<1>3. \A p \in Services, l \in Kinds : /\ batch'[p][l].phase = batch[p][l].phase
                                       /\ batch'[p][l].jobs = batch[p][l].jobs
  BY <1>1, <1>2
<1> QED
  BY <1>2, <1>3

LEMMA FinishManualShape ==
    ASSUME Shape, NEW result, FinishPreparedManualRun(result)
    PROVE  Shape'
<1>1. UNCHANGED <<now, api, solo>> /\ manual.phase = "run" /\ manual' = NoManual
  BY DEF FinishPreparedManualRun
<1>2. manual.svc \in Services /\ IsManual(manual')
  BY <1>1, BoundsAssumption DEF Shape, IsManual, NoManual
<1>3. CASE UNCHANGED <<mem, disk, writing, timer, batch>>
  BY <1>1, <1>2, <1>3 DEF Shape, Clocks, Timers, Stores, Batches
<1>4. CASE \E m : /\ Persist(manual.svc, m) /\ ArmTimer(manual.svc, m)
                  /\ Ends(disk, m, {manual.job})
                  /\ batch' = [batch EXCEPT ![manual.svc]["tick"].attached = FALSE]
  <2>1. PICK m : /\ Persist(manual.svc, m) /\ ArmTimer(manual.svc, m)
                 /\ Ends(disk, m, {manual.job})
                 /\ batch' = [batch EXCEPT ![manual.svc]["tick"].attached = FALSE]
    BY <1>4
  <2>2. Timers' /\ Batches'
    BY <1>2, <2>1, ArmShape, DetachBatch, SameClaimsBatches DEF Shape, Kinds
  <2>3. IsStore(m)
    BY <2>1, EndsStore
  <2> QED
    BY <1>1, <1>2, <2>1, <2>2, <2>3, StepShape
<1> QED
  BY <1>3, <1>4, FinishFacts

LEMMA OnTimerShape == ASSUME Shape, NEW s \in Services, OnTimer(s) PROVE Shape'
<1>1. UNCHANGED <<now, api, manual, solo>> /\ IsManual(manual')
  BY DEF OnTimer, Shape
<1>2. CASE \E m : /\ Persist(s, m) /\ ArmTimer(s, m) /\ Ends(disk, m, {}) /\ batch' = batch
  <2>1. PICK m : Persist(s, m) /\ ArmTimer(s, m) /\ Ends(disk, m, {}) /\ batch' = batch
    BY <1>2
  <2>2. Timers' /\ IsStore(m)
    BY <2>1, ArmShape, EndsStore DEF Shape
  <2>3. Batches'
    BY <2>1 DEF Shape, Batches
  <2> QED
    BY <1>1, <2>1, <2>2, <2>3, StepShape
<1>3. CASE \E m, due : OnTimerMarks(s, m, due)
  <2>1. PICK m, due : OnTimerMarks(s, m, due)
    BY <1>3
  <2>2. Timers' /\ IsStore(m) /\ Persist(s, m)
    BY <2>1 DEF OnTimerMarks, Shape, Timers, Marks
  <2> DEFINE x == [Idle EXCEPT !.phase = "run", !.jobs = due, !.attached = TRUE]
  <2>3. IsBatch(x) /\ batch' = [batch EXCEPT ![s]["tick"] = x]
    BY <2>1, NewBatches DEF OnTimerMarks
  <2> HIDE DEF x
  <2>4. Batches'
    BY <2>3, BatchChange DEF Shape, Kinds
  <2> QED
    BY <1>1, <2>2, <2>4, StepShape
<1> QED
  BY <1>2, <1>3, OnTimerFacts

LEMMA RunsShape ==
    ASSUME Shape, NEW s \in Services, NEW k \in Kinds,
           StartRun(s, k) \/ \E r \in Results : EndRun(s, k, r)
    PROVE  Shape'
<1>1. Batches'
  BY StartRunBatch, EndRunBatch, SameClaimsBatches
<1>2. UNCHANGED <<now, disk, writing, api, timer, manual, solo>>
  BY DEF StartRun, EndRun
<1>3. CASE StartRun(s, k)
  <2>1. PICK m : Stamps(s, k, m)
    BY <1>3, StartRunStore
  <2>2. mem' = [mem EXCEPT ![s] = m] /\ IsStore(m)
    BY <2>1 DEF Stamps
  <2>3. Stores'
    BY <1>2, <2>2 DEF Shape, Stores
  <2> QED
    BY <1>1, <1>2, <2>3 DEF Shape, Clocks, Timers
<1>4. CASE \E r \in Results : EndRun(s, k, r)
  <2>1. mem' = mem
    BY <1>4 DEF EndRun
  <2> QED
    BY <1>1, <1>2, <2>1 DEF Shape, Clocks, Timers, Stores
<1> QED
  BY <1>3, <1>4

LEMMA ApplyOutcomesShape == ASSUME Shape, NEW s \in Services, ApplyOutcomes(s) PROVE Shape'
<1>1. PICK m : Persist(s, m) /\ ArmTimer(s, m) /\ Ends(disk, m, batch[s]["tick"].jobs)
  BY ApplyOutcomesFacts
<1>2. /\ batch' = [batch EXCEPT ![s]["tick"] = Idle]
      /\ UNCHANGED <<now, api, manual, solo>> /\ IsManual(manual')
  BY DEF ApplyOutcomes, Shape
<1>3. Batches' /\ Timers' /\ IsStore(m)
  BY <1>1, <1>2, NewBatches, BatchChange, ArmShape, EndsStore DEF Shape, Kinds
<1> QED
  BY <1>1, <1>2, <1>3, StepShape

LEMMA LoadShape == ASSUME Shape, NEW s \in Services, LoadAtStart(s) PROVE Shape'
<1>1. PICK m : Persist(s, m) /\ IsStore(m)
  BY LoadFacts
<1>2. PICK S \in SUBSET Jobs :
         batch' = [batch EXCEPT ![s]["boot"] = [Idle EXCEPT !.phase = "loaded", !.jobs = S]]
  BY LoadFacts
<1>3. UNCHANGED <<now, api, timer, manual, solo>>
  BY DEF LoadAtStart
<1>4. Batches'
  <2> DEFINE x == [Idle EXCEPT !.phase = "loaded", !.jobs = S]
  <2>1. IsBatch(x) /\ batch' = [batch EXCEPT ![s]["boot"] = x]
    BY <1>2, NewBatches
  <2> HIDE DEF x
  <2> QED
    BY <2>1, BatchChange DEF Shape, Kinds
<1> QED
  BY <1>1, <1>3, <1>4, StepShape DEF Shape, Timers

LEMMA PlanShape == ASSUME Shape, NEW s \in Services, PlanStartupCatchup(s) PROVE Shape'
<1>1. UNCHANGED <<now, api, timer, manual, solo>>
  BY DEF PlanStartupCatchup
<1>2. CASE /\ UNCHANGED <<mem, disk, writing>>
           /\ batch' = [batch EXCEPT ![s]["boot"] = [Idle EXCEPT !.phase = "caughtUp"]]
  <2> DEFINE x == [Idle EXCEPT !.phase = "caughtUp"]
  <2>1. IsBatch(x) /\ batch' = [batch EXCEPT ![s]["boot"] = x]
    BY <1>2, NewBatches
  <2> HIDE DEF x
  <2>2. Batches'
    BY <2>1, BatchChange DEF Shape, Kinds
  <2> QED
    BY <1>1, <1>2, <2>2 DEF Shape, Clocks, Timers, Stores
<1>3. CASE \E m, S, later : CatchupMarks(s, m, S, later)
  <2>1. PICK m, S, later : CatchupMarks(s, m, S, later)
    BY <1>3
  <2> DEFINE x == [Idle EXCEPT !.phase = "run", !.jobs = S, !.later = later]
  <2>2. IsBatch(x) /\ batch' = [batch EXCEPT ![s]["boot"] = x]
    BY <2>1, NewBatches DEF CatchupMarks
  <2> HIDE DEF x
  <2>3. Batches'
    BY <2>2, BatchChange DEF Shape, Kinds
  <2>4. Persist(s, m) /\ IsStore(m)
    BY <2>1 DEF CatchupMarks, Marks
  <2> QED
    BY <1>1, <2>3, <2>4, StepShape DEF Shape, Timers
<1> QED
  BY <1>2, <1>3, PlanFacts

LEMMA ApplyStartupShape ==
    ASSUME Shape, NEW s \in Services, ApplyStartupCatchupOutcomes(s)
    PROVE  Shape'
<1>1. PICK m : Persist(s, m) /\ Ends(mem[s], m, batch[s]["boot"].jobs)
  BY ApplyStartupFacts
<1> DEFINE x == [Idle EXCEPT !.phase = "caughtUp"]
<1>2. /\ batch' = [batch EXCEPT ![s]["boot"] = x] /\ IsBatch(x)
      /\ UNCHANGED <<now, api, timer, manual, solo>>
  BY NewBatches DEF ApplyStartupCatchupOutcomes
<1> HIDE DEF x
<1>3. Batches' /\ IsStore(m)
  BY <1>1, <1>2, BatchChange, EndsStore DEF Shape, Kinds
<1> QED
  BY <1>1, <1>2, <1>3, StepShape DEF Shape, Timers

LEMMA FinishStartShape == ASSUME Shape, NEW s \in Services, FinishStart(s) PROVE Shape'
<1>1. PICK m : /\ ArmTimer(s, m) /\ Ends(mem[s], m, {})
               /\ Persist(s, m) \/ (m = mem[s] /\ UNCHANGED <<mem, disk, writing>>)
  BY FinishStartFacts
<1>2. /\ batch' = [batch EXCEPT ![s]["boot"] = Idle]
      /\ UNCHANGED <<now, api, manual, solo>>
  BY DEF FinishStart
<1>3. Batches' /\ Timers' /\ IsStore(m)
  BY <1>1, <1>2, NewBatches, BatchChange, ArmShape, EndsStore DEF Shape, Kinds
<1>4. CASE UNCHANGED <<mem, disk, writing>>
  BY <1>2, <1>3, <1>4 DEF Shape, Clocks, Stores
<1>5. CASE Persist(s, m)
  BY <1>2, <1>3, <1>5, StepShape DEF Shape
<1> QED
  BY <1>1, <1>4, <1>5

\* The batches of a new service and of the services of a new process.
LEMMA NewService ==
    ASSUME NEW s
    PROVE  /\ Started(s) = [k \in Kinds |-> Started(s)[k]]
           /\ Started(s)["boot"].phase = "off" /\ Started(s)["tick"].phase = "idle"
           /\ NoService = [k \in Kinds |-> NoService[k]]
           /\ NoService["boot"].phase = "none" /\ NoService["tick"].phase = "idle"
           /\ \A k \in Kinds : IsBatch(Started(s)[k]) /\ IsBatch(NoService[k])
<1> DEFINE off == [Idle EXCEPT !.phase = "off"]
           none == [Idle EXCEPT !.phase = "none"]
<1>1. IsBatch(Idle) /\ IsBatch(off) /\ IsBatch(none)
  BY NewBatches
<1>2. Idle.phase = "idle" /\ off.phase = "off" /\ none.phase = "none"
  BY DEF Idle
<1> HIDE DEF off, none
<1>3. /\ Started(s) = [k \in Kinds |-> IF k = "boot" THEN off ELSE Idle]
      /\ NoService = [k \in Kinds |-> IF k = "boot" THEN none ELSE Idle]
  BY DEF Started, NoService, off, none
<1> QED
  BY <1>1, <1>2, <1>3 DEF Kinds

LEMMA NewProcess ==
    ASSUME NEW b, b = [s \in Services |-> IF s = 1 THEN Started(s) ELSE NoService]
    PROVE  /\ b = [s \in Services |-> b[s]]
           /\ \A s \in Services : /\ b[s] = [k \in Kinds |-> b[s][k]]
                                  /\ \A k \in Kinds : IsBatch(b[s][k])
                                  /\ b[s]["tick"].phase = "idle"
                                  /\ s # 1 => b[s]["boot"].phase = "none"
           /\ b[1]["boot"].phase = "off"
<1>1. ASSUME NEW s \in Services
      PROVE  /\ b[s] = [k \in Kinds |-> b[s][k]]
             /\ \A k \in Kinds : IsBatch(b[s][k])
             /\ b[s]["tick"].phase = "idle"
             /\ s # 1 => b[s]["boot"].phase = "none"
             /\ s = 1 => b[s]["boot"].phase = "off"
  <2>1. CASE s = 1
    <3>1. b[s] = Started(s)
      BY <2>1
    <3> QED
      BY <2>1, <3>1, NewService
  <2>2. CASE s # 1
    <3>1. b[s] = NoService
      BY <2>2
    <3> QED
      BY <2>2, <3>1, NewService
  <2> QED
    BY <2>1, <2>2
<1> QED
  BY <1>1, BoundsAssumption

LEMMA EmptyStores ==
    ASSUME NEW m, m = [s \in Services |-> NoStore]
    PROVE  m = [s \in Services |-> m[s]] /\ \A s \in Services : IsStore(m[s])
<1>1. IsJob(NewJob) /\ NewJob.running = 0
  BY DEF NewJob, IsJob
<1>2. IsStore(NoStore)
  BY <1>1 DEF NoStore, IsStore
<1> QED
  BY <1>2

LEMMA CrashShape == ASSUME Shape, Crash PROVE Shape'
<1>1. /\ writing' = 0 /\ api' = 1 /\ manual' = NoManual /\ UNCHANGED <<now, disk, solo>>
      /\ mem' = [s \in Services |-> NoStore] /\ timer' = [s \in Services |-> FALSE]
      /\ batch' = [s \in Services |-> IF s = 1 THEN Started(s) ELSE NoService]
  BY DEF Crash
<1>2. Stores'
  BY <1>1, EmptyStores DEF Shape, Stores
<1>3. Batches'
  BY <1>1, NewProcess DEF Batches
<1>4. IsManual(manual')
  BY <1>1, BoundsAssumption DEF IsManual, NoManual
<1> QED
  BY <1>1, <1>2, <1>3, <1>4, BoundsAssumption DEF Shape, Clocks, Timers

LEMMA ReloadShape == ASSUME Shape, Reload PROVE Shape'
<1>1. /\ UNCHANGED <<now, mem, disk, writing, manual>>
      /\ solo' = (solo /\ ~Busy(api))
  BY DEF Reload
<1>2. PICK s \in Services : /\ api' = s /\ timer' = [timer EXCEPT ![api] = FALSE]
                            /\ batch' = [batch EXCEPT ![s] = Started(s)]
  BY DEF Reload
<1>3. Batches'
  <2>1. \A p \in Services : batch'[p] = IF p = s THEN Started(s) ELSE batch[p]
    BY <1>2 DEF Shape, Batches
  <2>2. batch' = [p \in Services |-> batch'[p]]
    BY <1>2 DEF Shape, Batches
  <2> QED
    BY <2>1, <2>2, NewService DEF Shape, Batches
<1>4. solo' \in BOOLEAN
  BY <1>1 DEF Shape
<1> QED
  BY <1>1, <1>2, <1>3, <1>4 DEF Shape, Clocks, Timers, Stores

LEMMA SurroundingsShape == ASSUME Shape, SaveConfig \/ Tick \/ UNCHANGED vars PROVE Shape'
<1>1. CASE SaveConfig
  BY <1>1 DEF SaveConfig, Shape, Clocks, Timers, Stores, Batches
<1>2. CASE Tick
  BY <1>2 DEF Tick, Shape, Clocks, Timers, Stores, Batches
<1>3. CASE UNCHANGED vars
  BY <1>3 DEF vars, Shape, Clocks, Timers, Stores, Batches
<1> QED
  BY <1>1, <1>2, <1>3

LEMMA ShapeInit == ASSUME Init PROVE Shape
<1>1. /\ now = 1 /\ writing = 0 /\ api = 1 /\ manual = NoManual /\ solo = TRUE
      /\ mem = [s \in Services |-> NoStore] /\ timer = [s \in Services |-> FALSE]
      /\ batch = [s \in Services |-> IF s = 1 THEN Started(s) ELSE NoService]
  BY DEF Init
<1>2. IsStore(disk)
  <2>1. PICK stored, t :
           disk = [j \in Jobs |->
                     IF j \notin stored THEN NewJob
                     ELSE IF j \in OneShots
                     THEN [NewJob EXCEPT !.here = "yes", !.enabled = TRUE, !.at = t, !.next = t]
                     ELSE [NewJob EXCEPT !.here = "yes", !.enabled = TRUE, !.next = 1]]
    BY DEF Init
  <2>2. \A j \in Jobs : IsJob(disk[j]) /\ disk[j].running = 0
    BY <2>1 DEF IsJob, NewJob
  <2>3. disk = [j \in Jobs |-> disk[j]]
    BY <2>1
  <2> QED
    BY <2>2, <2>3 DEF IsStore
<1>3. Stores
  BY <1>1, <1>2, EmptyStores DEF Stores
<1>4. Batches
  BY <1>1, NewProcess DEF Batches
<1>5. IsManual(manual)
  BY <1>1, BoundsAssumption DEF IsManual, NoManual
<1> QED
  BY <1>1, <1>3, <1>4, <1>5, BoundsAssumption DEF Shape, Clocks, Timers

LEMMA ShapeStep == ASSUME Shape, [Next]_vars PROVE Shape'
<1>1. CASE \E j \in Jobs, t \in 1..MaxTime : Add(j, t)
  BY <1>1, AddShape
<1>2. CASE \E j \in Jobs, e \in BOOLEAN, t \in 1..MaxTime :
              Update(j, e, IF j \in OneShots THEN t ELSE 0)
  BY <1>2, UpdateShape
<1>3. CASE \E j \in Jobs : Remove(j)
  BY <1>3, RemoveShape
<1>4. CASE \/ List \/ EnqueueRun
           \/ \E j \in Jobs, f \in BOOLEAN : InspectManualRunPreflight(j, f)
  BY <1>4, LooksShape
<1>5. CASE PrepareManualRun \/ \E r \in Results : FinishPreparedManualRun(r)
  BY <1>5, PrepareShape, FinishManualShape
<1>6. CASE \E s \in Services : Run(s)
  BY <1>6, RunsShape, OnTimerShape, ApplyOutcomesShape, LoadShape, PlanShape,
     ApplyStartupShape, FinishStartShape DEF Run
<1>7. CASE Crash \/ Reload
  BY <1>7, CrashShape, ReloadShape
<1>8. CASE SaveConfig \/ Tick \/ UNCHANGED vars
  BY <1>8, SurroundingsShape
<1> QED
  BY <1>1, <1>2, <1>3, <1>4, <1>5, <1>6, <1>7, <1>8 DEF Next

-----------------------------------------------------------------------------
(* The timer of a started service.                                         *)

Enabled(m) == \E j \in Jobs : Present(m[j]) /\ m[j].enabled

\* Only service s moves, and has its timer set if it is started then.
LEMMA AliveSection ==
    ASSUME Shape, SchedulerAlive, NEW s \in Services, api' = api,
           \A p \in Services : p # s => /\ mem'[p] = mem[p] /\ timer'[p] = timer[p]
                                        /\ Boot(p)' = Boot(p),
           Boot(s)' = "idle" /\ Enabled(mem'[s]) => timer'[s]
    PROVE  SchedulerAlive'
<1>1. api \in Services
  BY DEF Shape, Clocks
<1>2. CASE api = s
  BY <1>2 DEF SchedulerAlive, Boot, Enabled
<1>3. CASE api # s
  <2>1. mem'[api] = mem[api] /\ timer'[api] = timer[api] /\ Boot(api)' = Boot(api)
    <3>1. \A p \in Services : p = api => Boot(p)' = Boot(api)'
      BY DEF Boot
    <3> QED
      BY <1>1, <1>3, <3>1
  <2> QED
    BY <2>1 DEF SchedulerAlive, Boot
<1> QED
  BY <1>2, <1>3

LEMMA PersistAlone ==
    ASSUME Shape, NEW s \in Services, NEW m, Persist(s, m)
    PROVE  mem'[s] = m /\ \A p \in Services : p # s => mem'[p] = mem[p]
BY DEF Persist, Shape, Stores

LEMMA BatchAlone ==
    ASSUME Shape, NEW s \in Services, NEW k \in Kinds, NEW b, batch' = [batch EXCEPT ![s][k] = b]
    PROVE  /\ batch'[s][k] = b
           /\ \A p \in Services, l \in Kinds : p # s \/ l # k => batch'[p][l] = batch[p][l]
BY DEF Shape, Batches

\* A section that sets the timer by the store it leaves.
LEMMA AliveArmed ==
    ASSUME Shape, SchedulerAlive, NEW s \in Services, NEW m, api' = api,
           Persist(s, m) \/ (m = mem[s] /\ mem' = mem), ArmTimer(s, m),
           \A p \in Services : p # s => Boot(p)' = Boot(p)
    PROVE  SchedulerAlive'
<1>1. /\ timer'[s] = Enabled(m)
      /\ \A p \in Services : p # s => timer'[p] = timer[p]
  BY ArmShape DEF Shape, Enabled
<1>2. mem'[s] = m /\ \A p \in Services : p # s => mem'[p] = mem[p]
  BY PersistAlone
<1> QED
  BY <1>1, <1>2, AliveSection

\* A section that leaves the timer and enables no job of a service.
LEMMA AliveKept ==
    ASSUME Shape, SchedulerAlive, NEW s \in Services, api' = api, UNCHANGED timer,
           \A p \in Services : p # s => mem'[p] = mem[p],
           \A p \in Services : Boot(p)' = Boot(p),
           \A j \in Jobs : /\ mem'[s][j].here = mem[s][j].here
                           /\ mem'[s][j].enabled = mem[s][j].enabled
    PROVE  SchedulerAlive'
<1>1. CASE api = s
  <2>1. Boot(s)' = "idle" /\ Enabled(mem'[s]) => timer'[s]
    BY <1>1 DEF SchedulerAlive, Boot, Enabled, Present
  <2> QED
    BY <2>1, AliveSection
<1>2. CASE api # s
  <2>1. api \in Services
    BY DEF Shape, Clocks
  <2>2. mem'[api] = mem[api] /\ Boot(api)' = Boot(api)
    <3>1. \A p \in Services : p = api => Boot(p)' = Boot(api)'
      BY DEF Boot
    <3> QED
      BY <1>2, <2>1, <3>1
  <2> QED
    BY <2>2 DEF SchedulerAlive, Boot
<1> QED
  BY <1>1, <1>2

LEMMA SameBoots ==
    ASSUME Shape, NEW s \in Services,
           SameClaims(s, "tick") \/ SameClaims(s, "boot") \/ UNCHANGED batch
    PROVE  \A p \in Services : Boot(p)' = Boot(p)
BY SameClaimsBatches DEF Boot, Kinds

LEMMA NewBoot ==
    ASSUME Shape, NEW s \in Services, NEW b, batch' = [batch EXCEPT ![s]["boot"] = b]
    PROVE  Boot(s)' = b.phase /\ \A p \in Services : p # s => Boot(p)' = Boot(p)
BY BatchAlone DEF Boot, Kinds

LEMMA BatchPhases ==
    ASSUME NEW S, NEW later
    PROVE  /\ Idle.phase = "idle"
           /\ [Idle EXCEPT !.phase = "caughtUp"].phase = "caughtUp"
           /\ [Idle EXCEPT !.phase = "loaded", !.jobs = S].phase = "loaded"
           /\ [Idle EXCEPT !.phase = "run", !.jobs = S, !.later = later].phase = "run"
           /\ [Idle EXCEPT !.phase = "run", !.jobs = S, !.later = later].jobs = S
           /\ [Idle EXCEPT !.phase = "run", !.jobs = S, !.attached = TRUE].phase = "run"
           /\ [Idle EXCEPT !.phase = "run", !.jobs = S, !.attached = TRUE].jobs = S
BY DEF Idle

LEMMA AliveStep ==
    ASSUME Shape, SchedulerAlive, [Next]_vars
    PROVE  SchedulerAlive'
<1> USE DEF Shape, Clocks
<1>1. ASSUME NEW j \in Jobs, NEW t, Add(j, t) PROVE SchedulerAlive'
  <2>1. PICK m : Persist(api, m) /\ ArmTimer(api, m)
    BY <1>1, AddFacts
  <2>2. api' = api /\ \A p \in Services : Boot(p)' = Boot(p)
    BY <1>1 DEF Add, Boot
  <2> QED
    BY <2>1, <2>2, AliveArmed
<1>2. ASSUME NEW j \in Jobs, NEW e \in BOOLEAN, NEW t, Update(j, e, t) PROVE SchedulerAlive'
  <2>1. PICK m : Persist(api, m) /\ ArmTimer(api, m)
    BY <1>2, UpdateFacts
  <2>2. api' = api /\ \A p \in Services : Boot(p)' = Boot(p)
    BY <1>2 DEF Update, Boot
  <2> QED
    BY <2>1, <2>2, AliveArmed
<1>3. ASSUME NEW j \in Jobs, Remove(j) PROVE SchedulerAlive'
  <2>1. PICK m : Persist(api, m) /\ ArmTimer(api, m)
    BY <1>3, RemoveFacts
  <2>2. api' = api /\ \A p \in Services : Boot(p)' = Boot(p)
    BY <1>3 DEF Remove, Boot
  <2> QED
    BY <2>1, <2>2, AliveArmed
<1>4. CASE \/ List \/ EnqueueRun
           \/ \E j \in Jobs, f \in BOOLEAN : InspectManualRunPreflight(j, f)
  <2>1. PICK m : /\ Repairs(mem[api], m)
                 /\ \/ Persist(api, m)
                    \/ mem' = [mem EXCEPT ![api] = m]
    BY <1>4, LooksFacts
  <2>2. mem'[api] = m /\ \A p \in Services : p # api => mem'[p] = mem[p]
    BY <2>1, PersistAlone DEF Stores
  <2>3. api' = api /\ UNCHANGED timer /\ \A p \in Services : Boot(p)' = Boot(p)
    BY <1>4 DEF List, EnqueueRun, InspectManualRunPreflight, Boot
  <2> QED
    BY <2>1, <2>2, <2>3, AliveKept DEF Repairs
<1>5. CASE PrepareManualRun
  <2>1. manual.svc \in Services
    BY DEF IsManual
  <2>2. UNCHANGED <<api, timer, batch>>
    BY <1>5 DEF PrepareManualRun
  <2>3. \A p \in Services : Boot(p)' = Boot(p)
    BY <2>2 DEF Boot
  <2>4. CASE mem' = mem
    BY <2>1, <2>2, <2>3, <2>4, AliveKept
  <2>5. CASE \E m : Persist(manual.svc, m) /\ Marks(mem[manual.svc], m, {manual.job})
    <3>1. PICK m : Persist(manual.svc, m) /\ Marks(mem[manual.svc], m, {manual.job})
      BY <2>5
    <3>2. /\ mem'[manual.svc] = m
          /\ \A p \in Services : p # manual.svc => mem'[p] = mem[p]
      BY <2>1, <3>1, PersistAlone
    <3> QED
      BY <2>1, <2>2, <2>3, <3>1, <3>2, AliveKept DEF Marks
  <2> QED
    BY <1>5, <2>4, <2>5, PrepareFacts
<1>6. ASSUME NEW r, FinishPreparedManualRun(r) PROVE SchedulerAlive'
  <2>1. manual.svc \in Services /\ api' = api
    BY <1>6 DEF IsManual, FinishPreparedManualRun
  <2>2. CASE UNCHANGED <<mem, timer, batch>>
    BY <2>1, <2>2 DEF SchedulerAlive
  <2>3. CASE \E m : /\ Persist(manual.svc, m) /\ ArmTimer(manual.svc, m)
                    /\ batch' = [batch EXCEPT ![manual.svc]["tick"].attached = FALSE]
    <3>1. \A p \in Services : Boot(p)' = Boot(p)
      BY <2>1, <2>3, DetachBatch, SameBoots
    <3> QED
      BY <2>1, <2>3, <3>1, AliveArmed
  <2> QED
    BY <1>6, <2>2, <2>3, FinishFacts
<1>7. ASSUME NEW s \in Services, OnTimer(s) PROVE SchedulerAlive'
  <2>1. api' = api /\ timer[s]
    BY <1>7 DEF OnTimer
  <2>2. CASE \E m : Persist(s, m) /\ ArmTimer(s, m) /\ batch' = batch
    <3>1. \A p \in Services : Boot(p)' = Boot(p)
      BY <2>2 DEF Boot
    <3> QED
      BY <2>1, <2>2, <3>1, AliveArmed
  <2>3. CASE \E m, due : OnTimerMarks(s, m, due)
    <3>1. PICK m, due : OnTimerMarks(s, m, due)
      BY <2>3
    <3>2. \A p \in Services : p # s => mem'[p] = mem[p]
      BY <3>1, PersistAlone DEF OnTimerMarks
    <3>3. UNCHANGED timer /\ \A p \in Services : p # s => Boot(p)' = Boot(p)
      BY <3>1, BatchAlone DEF OnTimerMarks, Boot, Kinds
    <3> QED
      BY <2>1, <3>2, <3>3, AliveSection
  <2> QED
    BY <1>7, <2>2, <2>3, OnTimerFacts
<1>8. ASSUME NEW s \in Services, NEW k \in Kinds, StartRun(s, k) PROVE SchedulerAlive'
  <2>1. PICK m : Stamps(s, k, m)
    BY <1>8, StartRunStore
  <2>2. /\ \A p \in Services : p # s => mem'[p] = mem[p]
        /\ \A j \in Jobs : /\ mem'[s][j].here = mem[s][j].here
                           /\ mem'[s][j].enabled = mem[s][j].enabled
    BY <2>1 DEF Stamps, Stores
  <2>3. UNCHANGED <<api, timer>> /\ \A p \in Services : Boot(p)' = Boot(p)
    BY <1>8, StartRunBatch, SameBoots DEF StartRun, Kinds
  <2> QED
    BY <2>2, <2>3, AliveKept
<1>9. ASSUME NEW s \in Services, NEW k \in Kinds, NEW r, EndRun(s, k, r) PROVE SchedulerAlive'
  <2>1. UNCHANGED <<api, timer, mem>> /\ \A p \in Services : Boot(p)' = Boot(p)
    BY <1>9, EndRunBatch, SameBoots DEF EndRun, Kinds
  <2> QED
    BY <2>1, AliveKept
<1>10. ASSUME NEW s \in Services, ApplyOutcomes(s) PROVE SchedulerAlive'
  <2>1. PICK m : Persist(s, m) /\ ArmTimer(s, m)
    BY <1>10, ApplyOutcomesFacts
  <2>2. api' = api /\ batch' = [batch EXCEPT ![s]["tick"] = Idle]
    BY <1>10 DEF ApplyOutcomes
  <2>3. \A p \in Services : Boot(p)' = Boot(p)
    BY <2>2, BatchAlone DEF Boot, Kinds
  <2> QED
    BY <2>1, <2>2, <2>3, AliveArmed
<1>11. ASSUME NEW s \in Services, api' = api, UNCHANGED timer,
              \A p \in Services : p # s => mem'[p] = mem[p] /\ Boot(p)' = Boot(p),
              Boot(s)' # "idle"
       PROVE  SchedulerAlive'
  BY <1>11, AliveSection
<1>12. ASSUME NEW s \in Services, LoadAtStart(s) PROVE SchedulerAlive'
  <2>1. PICK m : Persist(s, m)
    BY <1>12, LoadFacts
  <2>2. PICK S \in SUBSET Jobs :
           batch' = [batch EXCEPT ![s]["boot"] = [Idle EXCEPT !.phase = "loaded", !.jobs = S]]
    BY <1>12, LoadFacts
  <2> DEFINE x == [Idle EXCEPT !.phase = "loaded", !.jobs = S]
  <2>3. Boot(s)' = x.phase /\ \A p \in Services : p # s => Boot(p)' = Boot(p)
    BY <2>2, NewBoot
  <2>4. UNCHANGED <<api, timer>> /\ Boot(s)' # "idle"
    BY <1>12, <2>3, BatchPhases DEF LoadAtStart
  <2> QED
    BY <1>11, <2>1, <2>3, <2>4, PersistAlone
<1>13. ASSUME NEW s \in Services, PlanStartupCatchup(s) PROVE SchedulerAlive'
  <2>1. UNCHANGED <<api, timer>>
    BY <1>13 DEF PlanStartupCatchup
  <2>2. CASE /\ UNCHANGED <<mem, disk, writing>>
             /\ batch' = [batch EXCEPT ![s]["boot"] = [Idle EXCEPT !.phase = "caughtUp"]]
    <3> DEFINE x == [Idle EXCEPT !.phase = "caughtUp"]
    <3>1. Boot(s)' = x.phase /\ \A p \in Services : p # s => Boot(p)' = Boot(p)
      BY <2>2, NewBoot
    <3>2. Boot(s)' # "idle"
      BY <3>1, BatchPhases
    <3> QED
      BY <1>11, <2>1, <2>2, <3>1, <3>2
  <2>3. CASE \E m, S, later : CatchupMarks(s, m, S, later)
    <3>1. PICK m, S, later : CatchupMarks(s, m, S, later)
      BY <2>3
    <3> DEFINE x == [Idle EXCEPT !.phase = "run", !.jobs = S, !.later = later]
    <3>2. Boot(s)' = x.phase /\ \A p \in Services : p # s => Boot(p)' = Boot(p)
      BY <3>1, NewBoot DEF CatchupMarks
    <3>3. Boot(s)' # "idle"
      BY <3>2, BatchPhases
    <3>4. Persist(s, m)
      BY <3>1 DEF CatchupMarks
    <3> QED
      BY <1>11, <2>1, <3>2, <3>3, <3>4, PersistAlone
  <2> QED
    BY <1>13, <2>2, <2>3, PlanFacts
<1>14. ASSUME NEW s \in Services, ApplyStartupCatchupOutcomes(s) PROVE SchedulerAlive'
  <2>1. PICK m : Persist(s, m)
    BY <1>14, ApplyStartupFacts
  <2>2. /\ batch' = [batch EXCEPT ![s]["boot"] = [Idle EXCEPT !.phase = "caughtUp"]]
        /\ UNCHANGED <<api, timer>>
    BY <1>14 DEF ApplyStartupCatchupOutcomes
  <2> DEFINE x == [Idle EXCEPT !.phase = "caughtUp"]
  <2>3. Boot(s)' = x.phase /\ \A p \in Services : p # s => Boot(p)' = Boot(p)
    BY <2>2, NewBoot
  <2>4. Boot(s)' # "idle"
    BY <2>3, BatchPhases
  <2> QED
    BY <1>11, <2>1, <2>2, <2>3, <2>4, PersistAlone
<1>15. ASSUME NEW s \in Services, FinishStart(s) PROVE SchedulerAlive'
  <2>1. PICK m : /\ ArmTimer(s, m)
                 /\ Persist(s, m) \/ (m = mem[s] /\ mem' = mem)
    BY <1>15, FinishStartFacts
  <2>2. api' = api /\ batch' = [batch EXCEPT ![s]["boot"] = Idle]
    BY <1>15 DEF FinishStart
  <2>3. \A p \in Services : p # s => Boot(p)' = Boot(p)
    BY <2>2, BatchAlone DEF Boot, Kinds
  <2> QED
    BY <2>1, <2>2, <2>3, AliveArmed
<1>16. CASE Crash
  <2>1. /\ api' = 1
        /\ batch' = [s \in Services |-> IF s = 1 THEN Started(s) ELSE NoService]
    BY <1>16 DEF Crash
  <2>2. batch'[1]["boot"].phase = "off"
    BY <2>1, NewProcess
  <2> QED
    BY <2>1, <2>2 DEF SchedulerAlive
<1>17. CASE Reload
  <2>1. PICK s \in Services : api' = s /\ batch' = [batch EXCEPT ![s] = Started(s)]
    BY <1>17 DEF Reload
  <2>2. batch'[s]["boot"].phase = "off"
    BY <2>1, NewService DEF Batches
  <2> QED
    BY <2>1, <2>2 DEF SchedulerAlive
<1>18. CASE SaveConfig \/ Tick \/ UNCHANGED vars
  BY <1>18 DEF SaveConfig, Tick, vars, SchedulerAlive
<1> QED
  BY <1>1, <1>2, <1>3, <1>4, <1>5, <1>6, <1>7, <1>8, <1>9, <1>10, <1>12, <1>13, <1>14,
     <1>15, <1>16, <1>17, <1>18 DEF Next, Run

-----------------------------------------------------------------------------
(* The books of the one service are kept.                                  *)

Booked(b) == Tracked(b) /\ Backed(b) /\ Known(b)

\* The same of a store that a step leaves, with the claims that it leaves.
Settled(m) ==
    /\ \A j \in Jobs : Claimed(j)' /\ j \notin dropped' /\ Present(m[j]) => m[j].running # 0
    /\ \A j \in Jobs : m[j].running # 0 => Claimed(j)'
    /\ \A j \in Jobs : Claimed(j)' => m[j].here # "new"

Single == \A j \in Jobs : Once(j) \/ j \in dropped

LEMMA BothBooked ==
    ASSUME SoloOK, Unlocked, Boot(api) # "off"
    PROVE  Booked(mem[api]) /\ Booked(disk)
<1>1. /\ Tracked(mem[api]) /\ Backed(mem[api]) /\ Known(mem[api])
      /\ Tracked(disk) /\ Backed(disk) /\ \A j \in Jobs : mem[api][j].here = disk[j].here
  BY DEF SoloOK, Books, Unlocked
<1>2. Known(disk)
  BY <1>1 DEF Known
<1> QED
  BY <1>1, <1>2 DEF Booked

LEMMA PersistBooks ==
    ASSUME Shape, NEW m, IsStore(m), api' = api, Persist(api, m), Settled(m)
    PROVE  Books'
<1>1. /\ mem'[api'] = m
      /\ \A j \in Jobs : disk'[j].running # 0 => m[j].running # 0
      /\ writing' = 0 => \A j \in Jobs : /\ disk'[j].here = m[j].here
                                         /\ disk'[j].running = m[j].running
  BY PersistFacts, BoundsAssumption DEF Shape, Clocks
<1>2. (Tracked(mem[api]))' /\ (Backed(mem[api]))' /\ (Known(mem[api]))' /\ (Backed(disk))'
  BY <1>1 DEF Settled, Tracked, Backed, Known
<1>3. writing' = 0 => (Tracked(disk))' /\ \A j \in Jobs : mem'[api'][j].here = disk'[j].here
  BY <1>1 DEF Settled, Tracked, Present
<1> QED
  BY <1>2, <1>3 DEF Books

\* A section that only ends runs leaves no run without its marker, but those
\* that it adds to the dropped ones.
LEMMA EndsSettled ==
    ASSUME Shape, Quiet, Single, NEW b, Booked(b), NEW m, NEW S \in SUBSET Jobs,
           Ends(b, m, S),
           \A j \in Jobs : Claimed(j)' => Claimed(j),
           \A j \in Jobs \ S : Claimed(j) => Claimed(j)',
           \A j \in S : Claimed(j)' => ~Once(j),
           \A j \in Jobs : Once(j) => Once(j)'
    PROVE  Settled(m) /\ Single'
<1>1. \A j \in Jobs : (Claims(j) > 0 <=> Claimed(j)) /\ (Claims(j) <= 1 <=> Once(j))
  BY ClaimsFacts
<1>2. \A j \in Jobs : /\ m[j].running \in {0, b[j].running}
                      /\ b[j].here # "new" => m[j].here \in {b[j].here, "gone"}
  BY DEF Ends, Follows
<1>3. \A j \in Jobs : j \in dropped /\ ~(j \in S /\ Once(j)) => j \in dropped'
  BY <1>1 DEF Ends, EndClaims
<1>4. \A j \in Jobs \ S :
         Claimed(j) /\ b[j].running # 0 /\ m[j].running = 0 /\ Present(m[j]) => j \in dropped'
  BY <1>1 DEF Ends
<1>5. /\ \A j \in Jobs : Claimed(j) /\ j \notin dropped /\ Present(b[j]) => b[j].running # 0
      /\ \A j \in Jobs : b[j].running # 0 => Claimed(j)
      /\ \A j \in Jobs : Claimed(j) => b[j].here # "new"
  BY DEF Booked, Tracked, Backed, Known
<1>6. ASSUME NEW j \in Jobs, Claimed(j)', j \notin dropped', Present(m[j])
      PROVE  m[j].running # 0
  <2>1. j \notin S /\ j \notin dropped
    BY <1>3, <1>6 DEF Single
  <2>2. Present(b[j])
    BY <1>2, <1>5, <1>6 DEF Present
  <2> QED
    BY <1>4, <1>5, <1>6, <2>1, <2>2
<1>7. \A j \in Jobs : m[j].running # 0 => Claimed(j)'
  BY <1>2, <1>5 DEF Ends
<1>8. \A j \in Jobs : Claimed(j)' => m[j].here # "new"
  BY <1>2, <1>5
<1>9. Single'
  BY <1>3 DEF Single
<1> QED
  BY <1>6, <1>7, <1>8, <1>9 DEF Settled

\* A section that marks jobs for new runs takes them from jobs with no run,
\* or with one whose marker is gone.
LEMMA MarksSettled ==
    ASSUME Shape, Quiet, Single, NEW b, Booked(b), NEW m, NEW S \in SUBSET Jobs,
           Marks(b, m, S), dropped' = dropped,
           \A j \in Jobs : Claimed(j)' <=> Claimed(j) \/ j \in S,
           \A j \in Jobs \ S : Once(j) => Once(j)',
           \A j \in S : ~Claimed(j) => Once(j)'
    PROVE  Settled(m) /\ Single'
<1>1. /\ \A j \in Jobs : Claimed(j) /\ j \notin dropped /\ Present(b[j]) => b[j].running # 0
      /\ \A j \in Jobs : b[j].running # 0 => Claimed(j)
      /\ \A j \in Jobs : Claimed(j) => b[j].here # "new"
  BY DEF Booked, Tracked, Backed, Known
<1>2. /\ \A j \in Jobs : m[j].here = b[j].here
      /\ \A j \in S : Present(b[j]) /\ b[j].running = 0 /\ m[j].running # 0
      /\ \A j \in Jobs \ S : m[j].running = b[j].running
  BY DEF Marks
<1>3. Settled(m)
  BY <1>1, <1>2 DEF Settled, Present
<1>4. Single'
  BY <1>1, <1>2 DEF Single
<1> QED
  BY <1>3, <1>4

LEMMA QuietSection ==
    ASSUME Shape, Quiet, api' = api,
           \A s \in Services \ {api}, k \in Kinds : batch'[s][k] = batch[s][k],
           \A s \in Services \ {api} : timer'[s] = timer[s],
           batch'[api]["boot"].phase \notin {"none", "off"},
           batch'[api]["tick"].phase \in {"idle", "run"},
           manual'.phase # "none" => manual'.svc = api,
           writing' \in {0, api}
    PROVE  Quiet'
BY DEF Quiet, Boot, Kinds

\* A service that does something is the one that calls from outside reach.
LEMMA OnlyService ==
    ASSUME Shape, Quiet
    PROVE  /\ \A s \in Services, k \in Kinds :
                 batch[s][k].phase \notin {"none", "idle", "off"} => s = api /\ Boot(api) # "off"
           /\ \A s \in Services : timer[s] => s = api /\ Boot(api) # "off"
           /\ \A s \in Services : Boot(s) = "off" => s = api
           /\ manual.phase # "none" => manual.svc = api /\ Boot(api) # "off"
           /\ writing # 0 => writing = api /\ Boot(api) # "off"
<1>1. \A s \in Services, k \in Kinds :
         batch[s][k].phase \notin {"none", "idle", "off"} => s = api /\ Boot(api) # "off"
  BY DEF Quiet, Boot, Kinds
<1> QED
  BY <1>1 DEF Quiet, Shape, Clocks

\* Steps that leave the claims as they are.
LEMMA ClaimsSame ==
    ASSUME api' = api,
           \A k \in Kinds : /\ batch'[api][k].phase = "run" <=> batch[api][k].phase = "run"
                            /\ batch[api][k].phase = "run" =>
                                  batch'[api][k].jobs = batch[api][k].jobs,
           \A j \in Jobs : InManual(j)' <=> InManual(j)
    PROVE  \A j \in Jobs : (Claimed(j)' <=> Claimed(j)) /\ (Once(j)' <=> Once(j))
<1>1. \A j \in Jobs, k \in {"boot", "tick"} : InBatch(j, k)' <=> InBatch(j, k)
  BY DEF InBatch, Kinds
<1> QED
  BY <1>1 DEF Claimed, Once

\* A section that neither begins nor ends a run.
LEMMA SoloRepair ==
    ASSUME Shape, SoloOK, Boot(api) # "off", NEW b, Booked(b), NEW m, Ends(b, m, {}),
           Persist(api, m), UNCHANGED <<api, batch, manual>>,
           \A s \in Services \ {api} : timer'[s] = timer[s]
    PROVE  SoloOK'
<1>1. \A j \in Jobs : (Claimed(j)' <=> Claimed(j)) /\ (Once(j)' <=> Once(j))
  BY ClaimsSame DEF InManual
<1>2. Quiet /\ Single /\ api \in Services /\ IsStore(m)
  BY EndsStore DEF SoloOK, Single, Shape, Clocks
<1>3. Settled(m) /\ Single'
  BY <1>1, <1>2, EndsSettled
<1>4. writing' \in {0, api}
  BY <1>2, PersistFacts DEF Shape
<1>5. Quiet'
  BY <1>2, <1>4, QuietSection DEF Quiet, Boot
<1>6. Books'
  BY <1>2, <1>3, PersistBooks
<1> QED
  BY <1>3, <1>5, <1>6 DEF SoloOK, Single

LEMMA SoloEdits ==
    ASSUME Shape, SoloOK,
           \/ \E j \in Jobs, t \in 1..MaxTime : Add(j, t)
           \/ \E j \in Jobs, e \in BOOLEAN, t \in 1..MaxTime :
                 Update(j, e, IF j \in OneShots THEN t ELSE 0)
           \/ \E j \in Jobs : Remove(j)
    PROVE  SoloOK'
<1>1. \E m : Persist(api, m) /\ ArmTimer(api, m) /\ Ends(mem[api], m, {})
  BY AddFacts, UpdateEnds, RemoveFacts
<1>2. PICK m : Persist(api, m) /\ ArmTimer(api, m) /\ Ends(mem[api], m, {})
  BY <1>1
<1>3. Unlocked /\ Boot(api) # "off" /\ UNCHANGED <<api, batch, manual>>
  <2>1. \A j \in Jobs : \A t : Add(j, t) => Unlocked /\ Boot(api) # "off"
                                       /\ UNCHANGED <<api, batch, manual>>
    BY DEF Add, Boot
  <2>2. \A j \in Jobs : \A e, t : Update(j, e, t) => Unlocked /\ Boot(api) # "off"
                                             /\ UNCHANGED <<api, batch, manual>>
    BY DEF Update, Boot
  <2>3. \A j \in Jobs : Remove(j) => Unlocked /\ Boot(api) # "off"
                                    /\ UNCHANGED <<api, batch, manual>>
    BY DEF Remove, Boot
  <2> QED
    BY <2>1, <2>2, <2>3
<1>4. \A s \in Services \ {api} : timer'[s] = timer[s]
  BY <1>2, ArmShape DEF Shape, Clocks
<1> QED
  BY <1>2, <1>3, <1>4, BothBooked, SoloRepair

LEMMA SoloLooks ==
    ASSUME Shape, SoloOK,
           \/ List \/ EnqueueRun
           \/ \E j \in Jobs, f \in BOOLEAN : InspectManualRunPreflight(j, f)
    PROVE  SoloOK'
<1>1. PICK m : /\ Repairs(mem[api], m) /\ Ends(mem[api], m, {})
               /\ \/ Persist(api, m)
                  \/ mem' = [mem EXCEPT ![api] = m] /\ UNCHANGED <<disk, writing>>
  BY LooksFacts
<1>2. /\ Unlocked /\ Boot(api) # "off" /\ UNCHANGED <<api, batch, timer>>
      /\ manual.phase # "run" \/ manual' = manual
      /\ manual' = manual \/ (manual'.phase = "checked" /\ manual'.svc = api)
  <2>1. CASE List
    BY <2>1 DEF List, Boot
  <2>2. CASE EnqueueRun
    BY <2>2 DEF EnqueueRun, Boot
  <2>3. CASE \E j \in Jobs, f \in BOOLEAN : InspectManualRunPreflight(j, f)
    BY <2>3 DEF InspectManualRunPreflight, Boot
  <2> QED
    BY <2>1, <2>2, <2>3
<1>3. /\ Quiet /\ Single /\ api \in Services /\ Booked(mem[api]) /\ Booked(disk)
      /\ \A j \in Jobs : mem[api][j].here = disk[j].here
  BY <1>2, BothBooked DEF SoloOK, Single, Shape, Clocks, Books, Unlocked
<1>4. \A j \in Jobs : InManual(j)' <=> InManual(j)
  BY <1>2 DEF InManual
<1>5. \A j \in Jobs : (Claimed(j)' <=> Claimed(j)) /\ (Once(j)' <=> Once(j))
  BY <1>2, <1>4, ClaimsSame
<1>6. Settled(m) /\ Single'
  BY <1>1, <1>3, <1>5, EndsSettled
<1>7. writing' \in {0, api}
  BY <1>1, <1>2, <1>3, PersistFacts DEF Shape, Repairs, Unlocked
<1>8. Quiet'
  BY <1>2, <1>3, <1>7, QuietSection DEF Quiet, Boot
<1>9. Books'
  <2>1. CASE Persist(api, m)
    BY <1>1, <1>2, <1>6, <2>1, PersistBooks DEF Repairs
  <2>2. CASE mem' = [mem EXCEPT ![api] = m] /\ UNCHANGED <<disk, writing>>
    <3>1. mem'[api'] = m
      BY <1>2, <1>3, <2>2 DEF Shape, Stores
    <3>2. \A j \in Jobs : mem'[api'][j].here = disk'[j].here
      BY <1>1, <1>3, <2>2, <3>1 DEF Repairs
    <3>3. (Tracked(mem[api]))' /\ (Backed(mem[api]))' /\ (Known(mem[api]))'
      BY <1>6, <3>1 DEF Settled, Tracked, Backed, Known
    <3>4. \A j \in Jobs : Claimed(j) => (j \in dropped => j \in dropped')
      BY <1>1 DEF Ends, EndClaims
    <3>5. (Tracked(disk))' /\ (Backed(disk))'
      BY <1>3, <1>5, <2>2, <3>4 DEF Booked, Tracked, Backed
    <3> QED
      BY <3>2, <3>3, <3>5 DEF Books
  <2> QED
    BY <1>1, <2>1, <2>2
<1> QED
  BY <1>6, <1>8, <1>9 DEF SoloOK, Single

LEMMA SoloPrepare == ASSUME Shape, SoloOK, PrepareManualRun PROVE SoloOK'
<1> DEFINE x == manual.job
<1>1. /\ Unlocked /\ manual.phase = "checked"
      /\ UNCHANGED <<api, timer, batch, dropped>>
  BY DEF PrepareManualRun
<1>2. /\ Quiet /\ Single /\ manual.svc = api /\ Boot(api) # "off" /\ api \in Services
      /\ x \in Jobs
  BY <1>1, OnlyService DEF SoloOK, Single, Shape, Clocks, IsManual
<1>3. \A j \in Jobs : ~InManual(j)
  BY <1>1 DEF InManual
<1>4. CASE manual' = NoManual /\ UNCHANGED <<mem, disk, writing>>
  <2>1. \A j \in Jobs : ~InManual(j)'
    BY <1>4 DEF InManual, NoManual
  <2>2. \A j \in Jobs : (Claimed(j)' <=> Claimed(j)) /\ (Once(j)' <=> Once(j))
    BY <1>1, <1>3, <2>1, ClaimsSame
  <2>3. Quiet'
    BY <1>1, <1>2, <1>4, QuietSection DEF Quiet, Boot, NoManual
  <2>4. Books' /\ Single'
    BY <1>1, <1>4, <2>2 DEF SoloOK, Books, Boot, Tracked, Backed, Known, Single
  <2> QED
    BY <2>3, <2>4 DEF SoloOK, Single
<1>5. CASE \E m : /\ Persist(manual.svc, m) /\ Marks(mem[manual.svc], m, {manual.job})
                  /\ manual' = [manual EXCEPT !.phase = "run"]
  <2>1. PICK m : /\ Persist(api, m) /\ Marks(mem[api], m, {x})
                 /\ manual' = [manual EXCEPT !.phase = "run"]
    BY <1>2, <1>5
  <2>2. manual'.phase = "run" /\ manual'.job = x /\ manual'.svc = api
    BY <1>2, <2>1 DEF Shape, IsManual
  <2>3. \A j \in Jobs : InManual(j)' <=> j = x
    BY <2>2 DEF InManual
  <2>4. \A j \in Jobs, k \in {"boot", "tick"} : InBatch(j, k)' <=> InBatch(j, k)
    BY <1>1 DEF InBatch
  <2> HIDE DEF x
  <2>5. /\ \A j \in Jobs : Claimed(j)' <=> Claimed(j) \/ j \in {x}
        /\ \A j \in Jobs \ {x} : Once(j) => Once(j)'
        /\ \A j \in {x} : ~Claimed(j) => Once(j)'
    BY <1>2, <1>3, <2>3, <2>4 DEF Claimed, Once
  <2>6. Settled(m) /\ Single'
    <3>1. Booked(mem[api]) /\ {x} \in SUBSET Jobs
      BY <1>1, <1>2, BothBooked
    <3> QED
      BY <1>1, <1>2, <2>1, <2>5, <3>1, MarksSettled
  <2>7. Books'
    BY <1>1, <2>1, <2>6, PersistBooks DEF Marks
  <2>8. writing' \in {0, api}
    BY <1>2, <2>1, PersistFacts DEF Shape, Marks
  <2>9. Quiet'
    BY <1>1, <1>2, <2>2, <2>8, QuietSection DEF Quiet, Boot
  <2> QED
    BY <2>6, <2>7, <2>9 DEF SoloOK, Single
<1> QED
  BY <1>4, <1>5, PrepareFacts

LEMMA SoloFinishManual ==
    ASSUME Shape, SoloOK, NEW result, FinishPreparedManualRun(result)
    PROVE  SoloOK'
<1> DEFINE x == manual.job
<1>1. Unlocked /\ manual.phase = "run" /\ manual' = NoManual /\ api' = api
  BY DEF FinishPreparedManualRun
<1>2. /\ Quiet /\ Single /\ manual.svc = api /\ Boot(api) # "off" /\ api \in Services
      /\ x \in Jobs
  BY <1>1, OnlyService DEF SoloOK, Single, Shape, Clocks, IsManual
<1>3. Booked(mem[api]) /\ Booked(disk) /\ \A j \in Jobs : mem[api][j].here = disk[j].here
  BY <1>1, <1>2, BothBooked DEF SoloOK, Books, Unlocked
<1>4. /\ \A j \in Jobs : InManual(j) <=> j = x
      /\ \A j \in Jobs : ~InManual(j)'
  BY <1>1, <1>2 DEF InManual, NoManual
<1>5. ASSUME \A s \in Services, k \in Kinds : /\ batch'[s][k].phase = batch[s][k].phase
                                              /\ batch'[s][k].jobs = batch[s][k].jobs
      PROVE  /\ \A j \in Jobs : Claimed(j)' => Claimed(j)
             /\ \A j \in Jobs \ {x} : Claimed(j) => Claimed(j)'
             /\ \A j \in {x} : Claimed(j)' => ~Once(j)
             /\ \A j \in Jobs : Once(j) => Once(j)'
  <2>1. \A j \in Jobs, k \in {"boot", "tick"} : InBatch(j, k)' <=> InBatch(j, k)
    BY <1>1, <1>2, <1>5 DEF InBatch, Kinds
  <2> HIDE DEF x
  <2> QED
    BY <1>2, <1>4, <2>1 DEF Claimed, Once
<1>6. CASE /\ ~Present(mem[manual.svc][manual.job]) /\ dropped' = EndClaims({manual.job})
           /\ UNCHANGED <<mem, disk, writing, timer, batch>>
  <2>1. ~Present(mem[api][x]) /\ ~Present(disk[x])
    BY <1>2, <1>3, <1>6 DEF Present
  <2>2. mem[api][x].running = 0 /\ disk[x].running = 0
    BY <1>2, <2>1 DEF Shape, Stores, IsStore
  <2>3. /\ \A j \in Jobs : Claimed(j)' => Claimed(j)
        /\ \A j \in Jobs \ {x} : Claimed(j) => Claimed(j)'
        /\ \A j \in {x} : Claimed(j)' => ~Once(j)
        /\ \A j \in Jobs : Once(j) => Once(j)'
    BY <1>5, <1>6
  <2>4. \A j \in Jobs : (j \in dropped /\ (j # x \/ ~Once(j))) => j \in dropped'
    BY <1>2, <1>6, ClaimsFacts DEF EndClaims
  <2>5. Single'
    BY <1>2, <2>3, <2>4 DEF Single
  <2>6. Books'
    <3>1. \A j \in Jobs : Claimed(j)' /\ j \notin dropped' /\ j # x => Claimed(j) /\ j \notin dropped
      BY <2>3, <2>4
    <3>2. (Tracked(mem[api]))' /\ (Tracked(disk))'
      BY <1>1, <1>3, <1>6, <2>1, <3>1 DEF Booked, Tracked
    <3>3. (Backed(mem[api]))' /\ (Backed(disk))' /\ (Known(mem[api]))'
      BY <1>1, <1>2, <1>3, <1>6, <2>2, <2>3 DEF Booked, Backed, Known
    <3> QED
      BY <1>1, <1>3, <1>6, <3>2, <3>3 DEF Books
  <2>7. Quiet'
    BY <1>1, <1>2, <1>6, QuietSection DEF Quiet, Boot, NoManual
  <2> QED
    BY <2>5, <2>6, <2>7 DEF SoloOK, Single
<1>7. CASE \E m : /\ Persist(manual.svc, m) /\ ArmTimer(manual.svc, m)
                  /\ Ends(disk, m, {manual.job})
                  /\ batch' = [batch EXCEPT ![manual.svc]["tick"].attached = FALSE]
  <2>1. PICK m : /\ Persist(api, m) /\ ArmTimer(api, m) /\ Ends(disk, m, {x})
                 /\ batch' = [batch EXCEPT ![api]["tick"].attached = FALSE]
    BY <1>2, <1>7
  <2>2. \A s \in Services, k \in Kinds : /\ batch'[s][k].phase = batch[s][k].phase
                                         /\ batch'[s][k].jobs = batch[s][k].jobs
    BY <1>2, <2>1, DetachBatch, SameClaimsBatches DEF Kinds
  <2>3. \A s \in Services \ {api} : batch'[s] = batch[s]
    BY <2>1 DEF Shape, Batches
  <2>4. {x} \in SUBSET Jobs /\ IsStore(m)
    BY <1>2, <2>1, EndsStore
  <2>5. /\ \A j \in Jobs : Claimed(j)' => Claimed(j)
        /\ \A j \in Jobs \ {x} : Claimed(j) => Claimed(j)'
        /\ \A j \in {x} : Claimed(j)' => ~Once(j)
        /\ \A j \in Jobs : Once(j) => Once(j)'
    BY <1>5, <2>2
  <2> HIDE DEF x
  <2>6. Settled(m) /\ Single'
    BY <1>2, <1>3, <2>1, <2>4, <2>5, EndsSettled
  <2>7. Books'
    BY <1>1, <2>1, <2>4, <2>6, PersistBooks
  <2>8. writing' \in {0, api} /\ \A s \in Services \ {api} : timer'[s] = timer[s]
    BY <1>2, <2>1, <2>4, PersistFacts, ArmShape DEF Shape
  <2>9. Quiet'
    BY <1>1, <1>2, <2>2, <2>3, <2>8, QuietSection DEF Quiet, Boot, NoManual, Kinds
  <2> QED
    BY <2>6, <2>7, <2>9 DEF SoloOK, Single
<1> QED
  BY <1>6, <1>7, FinishFacts

LEMMA SoloOnTimer == ASSUME Shape, SoloOK, NEW s \in Services, OnTimer(s) PROVE SoloOK'
<1>1. timer[s] /\ Unlocked /\ batch[s]["tick"].phase = "idle" /\ UNCHANGED <<api, manual>>
  BY DEF OnTimer
<1>2. Quiet /\ Single /\ s = api /\ Boot(api) # "off" /\ api \in Services
  BY <1>1, OnlyService DEF SoloOK, Single, Shape, Clocks
<1>3. Booked(disk)
  BY <1>1, <1>2, BothBooked
<1>4. CASE \E m : Persist(s, m) /\ ArmTimer(s, m) /\ Ends(disk, m, {}) /\ batch' = batch
  <2>1. PICK m : Persist(api, m) /\ ArmTimer(api, m) /\ Ends(disk, m, {}) /\ batch' = batch
    BY <1>2, <1>4
  <2>2. \A p \in Services \ {api} : timer'[p] = timer[p]
    BY <1>2, <2>1, ArmShape DEF Shape
  <2> QED
    BY <1>1, <1>2, <1>3, <2>1, <2>2, SoloRepair
<1>5. CASE \E m, due : OnTimerMarks(s, m, due)
  <2>1. PICK m, due : OnTimerMarks(api, m, due)
    BY <1>2, <1>5
  <2> DEFINE x == [Idle EXCEPT !.phase = "run", !.jobs = due, !.attached = TRUE]
  <2>2. /\ Persist(api, m) /\ Marks(disk, m, due) /\ UNCHANGED <<timer, dropped>>
        /\ due \in SUBSET Jobs /\ batch' = [batch EXCEPT ![api]["tick"] = x]
    BY <2>1 DEF OnTimerMarks
  <2>3. x.phase = "run" /\ x.jobs = due
    BY BatchPhases
  <2> HIDE DEF x
  <2>4. /\ batch'[api]["tick"] = x
        /\ \A p \in Services, l \in Kinds : p # api \/ l # "tick" => batch'[p][l] = batch[p][l]
    BY <1>2, <2>2, BatchAlone DEF Kinds
  <2>5. /\ \A j \in Jobs : InBatch(j, "tick")' <=> j \in due
        /\ \A j \in Jobs : ~InBatch(j, "tick")
        /\ \A j \in Jobs : InBatch(j, "boot")' <=> InBatch(j, "boot")
        /\ \A j \in Jobs : InManual(j)' <=> InManual(j)
    BY <1>1, <1>2, <2>3, <2>4 DEF InBatch, InManual, Kinds
  <2>6. /\ \A j \in Jobs : Claimed(j)' <=> Claimed(j) \/ j \in due
        /\ \A j \in Jobs \ due : Once(j) => Once(j)'
        /\ \A j \in due : ~Claimed(j) => Once(j)'
    BY <2>2, <2>5 DEF Claimed, Once
  <2>7. Settled(m) /\ Single'
    BY <1>2, <1>3, <2>2, <2>6, MarksSettled
  <2>8. Books'
    BY <1>1, <2>2, <2>7, PersistBooks DEF Marks
  <2>9. writing' \in {0, api}
    BY <1>2, <2>2, PersistFacts DEF Shape, Marks
  <2>10. Quiet'
    BY <1>1, <1>2, <2>2, <2>3, <2>4, <2>9, QuietSection DEF Quiet, Boot, Kinds
  <2> QED
    BY <2>7, <2>8, <2>10 DEF SoloOK, Single
<1> QED
  BY <1>4, <1>5, OnTimerFacts

LEMMA SoloRuns ==
    ASSUME Shape, SoloOK, NEW s \in Services, NEW k \in Kinds,
           StartRun(s, k) \/ \E r \in Results : EndRun(s, k, r)
    PROVE  SoloOK'
<1>1. /\ UNCHANGED <<disk, writing, api, timer, manual, dropped>>
      /\ batch[s][k].phase = "run"
  BY DEF StartRun, EndRun
<1>2. Quiet /\ Single /\ s = api /\ Boot(api) # "off" /\ api \in Services
  BY <1>1, OnlyService DEF SoloOK, Single, Shape, Clocks
<1>3. SameClaims(api, k)
  BY <1>2, StartRunBatch, EndRunBatch
<1>4. /\ \A p \in Services, l \in Kinds : /\ batch'[p][l].phase = batch[p][l].phase
                                          /\ batch'[p][l].jobs = batch[p][l].jobs
      /\ \A p \in Services \ {api} : batch'[p] = batch[p]
  <2>1. \A p \in Services \ {api} : batch'[p] = batch[p]
    BY <1>3 DEF SameClaims, Shape, Batches
  <2> QED
    BY <1>2, <1>3, <2>1, SameClaimsBatches
<1>5. \A j \in Jobs : (Claimed(j)' <=> Claimed(j)) /\ (Once(j)' <=> Once(j))
  BY <1>1, <1>2, <1>4, ClaimsSame DEF InManual
<1>6. Quiet'
  BY <1>1, <1>2, <1>4, QuietSection DEF Quiet, Boot, Kinds
<1>7. Single'
  BY <1>1, <1>2, <1>5 DEF Single
<1>8. CASE StartRun(s, k)
  <2>1. PICK m : Stamps(api, k, m)
    BY <1>2, <1>8, StartRunStore
  <2>2. /\ mem'[api'] = m
        /\ \A j \in Jobs : m[j].here = mem[api][j].here
        /\ \A j \in Jobs : \/ m[j].running = mem[api][j].running
                           \/ m[j].running # 0 /\ Claimed(j)
    <3>1. \A j \in Jobs : j \in batch[api][k].jobs => Claimed(j)
      BY <1>1, <1>2 DEF Claimed, InBatch, Kinds
    <3> QED
      BY <1>1, <1>2, <2>1, <3>1 DEF Stamps, Shape, Stores, Clocks
  <2>3. Unlocked
    BY <1>8 DEF StartRun
  <2>4. /\ Booked(mem[api]) /\ Booked(disk)
        /\ \A j \in Jobs : mem[api][j].here = disk[j].here
    BY <1>2, <2>3, BothBooked DEF SoloOK, Books, Unlocked
  <2>5. (Tracked(mem[api]))' /\ (Backed(mem[api]))' /\ (Known(mem[api]))'
    BY <1>1, <1>5, <2>2, <2>4 DEF Booked, Tracked, Backed, Known, Present
  <2>6. (Tracked(disk))' /\ (Backed(disk))' /\ \A j \in Jobs : mem'[api'][j].here = disk'[j].here
    BY <1>1, <1>5, <2>2, <2>4 DEF Booked, Tracked, Backed
  <2>7. Books'
    BY <2>5, <2>6 DEF Books
  <2> QED
    BY <1>6, <1>7, <2>7 DEF SoloOK, Single
<1>9. CASE \E r \in Results : EndRun(s, k, r)
  <2>1. mem' = mem
    BY <1>9 DEF EndRun
  <2>2. /\ Tracked(mem[api]) /\ Backed(mem[api]) /\ Known(mem[api]) /\ Backed(disk)
        /\ writing = 0 => Tracked(disk) /\ \A j \in Jobs : mem[api][j].here = disk[j].here
    BY <1>2 DEF SoloOK, Books
  <2>3. /\ (Tracked(mem[api]))' /\ (Backed(mem[api]))' /\ (Known(mem[api]))' /\ (Backed(disk))'
        /\ Tracked(disk) => (Tracked(disk))'
    BY <1>1, <1>5, <2>1, <2>2 DEF Tracked, Backed, Known
  <2>4. Books'
    BY <1>1, <2>1, <2>2, <2>3 DEF Books
  <2> QED
    BY <1>6, <1>7, <2>4 DEF SoloOK, Single
<1> QED
  BY <1>8, <1>9

\* The outcomes of a batch are applied and its claims end.
LEMMA SoloOutcomes ==
    ASSUME Shape, SoloOK, Unlocked, Boot(api) # "off",
           NEW k \in Kinds, batch[api][k].phase = "run",
           NEW b, Booked(b), NEW m, Ends(b, m, batch[api][k].jobs), Persist(api, m),
           NEW x, x.phase # "run", k = "boot" => x.phase = "caughtUp",
           k = "tick" => x.phase = "idle",
           batch' = [batch EXCEPT ![api][k] = x], UNCHANGED <<api, manual>>,
           \A s \in Services \ {api} : timer'[s] = timer[s]
    PROVE  SoloOK'
<1> DEFINE S == batch[api][k].jobs
<1>1. Quiet /\ Single /\ api \in Services /\ IsStore(m) /\ S \in SUBSET Jobs
  BY EndsStore DEF SoloOK, Single, Shape, Clocks, Batches, IsBatch
<1>2. /\ batch'[api][k] = x
      /\ \A p \in Services, l \in Kinds : p # api \/ l # k => batch'[p][l] = batch[p][l]
  BY <1>1, BatchAlone
<1>3. /\ \A j \in Jobs : InBatch(j, k) <=> j \in S
      /\ \A j \in Jobs : ~InBatch(j, k)'
      /\ \A j \in Jobs : InManual(j)' <=> InManual(j)
      /\ \A l \in Kinds : l # k => \A j \in Jobs : InBatch(j, l)' <=> InBatch(j, l)
  BY <1>1, <1>2 DEF InBatch, InManual
<1> HIDE DEF S
<1>4. /\ \A j \in Jobs : Claimed(j)' => Claimed(j)
      /\ \A j \in Jobs \ S : Claimed(j) => Claimed(j)'
      /\ \A j \in S : Claimed(j)' => ~Once(j)
      /\ \A j \in Jobs : Once(j) => Once(j)'
  <2>1. CASE k = "boot"
    BY <1>1, <1>3, <2>1 DEF Claimed, Once, Kinds
  <2>2. CASE k = "tick"
    BY <1>1, <1>3, <2>2 DEF Claimed, Once, Kinds
  <2> QED
    BY <2>1, <2>2 DEF Kinds
<1>5. Settled(m) /\ Single'
  BY <1>1, <1>4, EndsSettled DEF S
<1>6. Books'
  BY <1>1, <1>5, PersistBooks
<1>7. writing' \in {0, api}
  BY <1>1, PersistFacts DEF Shape
<1>8. Quiet'
  <2>1. /\ batch'[api]["boot"].phase \notin {"none", "off"}
        /\ batch'[api]["tick"].phase \in {"idle", "run"}
        /\ \A s \in Services \ {api}, l \in Kinds : batch'[s][l] = batch[s][l]
        /\ manual'.phase # "none" => manual'.svc = api
    BY <1>1, <1>2 DEF Quiet, Boot, Kinds
  <2> QED
    BY <1>1, <1>7, <2>1, QuietSection
<1> QED
  BY <1>5, <1>6, <1>8 DEF SoloOK, Single

LEMMA SoloApplyOutcomes ==
    ASSUME Shape, SoloOK, NEW s \in Services, ApplyOutcomes(s)
    PROVE  SoloOK'
<1>1. /\ Unlocked /\ batch[s]["tick"].phase = "run" /\ UNCHANGED <<api, manual>>
      /\ batch' = [batch EXCEPT ![s]["tick"] = Idle]
  BY DEF ApplyOutcomes, AllDone
<1>2. s = api /\ Boot(api) # "off"
  BY <1>1, OnlyService DEF SoloOK, Kinds
<1>3. PICK m : /\ Persist(api, m) /\ ArmTimer(api, m)
               /\ Ends(disk, m, batch[api]["tick"].jobs)
  BY <1>2, ApplyOutcomesFacts
<1>4. \A p \in Services \ {api} : timer'[p] = timer[p]
  BY <1>2, <1>3, ArmShape DEF Shape
<1>5. Booked(disk) /\ Idle.phase = "idle"
  BY <1>1, <1>2, BothBooked, BatchPhases
<1> QED
  BY <1>1, <1>2, <1>3, <1>4, <1>5, SoloOutcomes DEF Kinds

LEMMA SoloApplyStartup ==
    ASSUME Shape, SoloOK, NEW s \in Services, ApplyStartupCatchupOutcomes(s)
    PROVE  SoloOK'
<1> DEFINE x == [Idle EXCEPT !.phase = "caughtUp"]
<1>1. /\ Unlocked /\ batch[s]["boot"].phase = "run" /\ UNCHANGED <<api, manual, timer>>
      /\ batch' = [batch EXCEPT ![s]["boot"] = x]
  BY DEF ApplyStartupCatchupOutcomes, AllDone
<1>2. s = api /\ Boot(api) # "off"
  BY <1>1, OnlyService DEF SoloOK, Kinds
<1>3. PICK m : Persist(api, m) /\ Ends(mem[api], m, batch[api]["boot"].jobs)
  BY <1>2, ApplyStartupFacts
<1>4. Booked(mem[api]) /\ x.phase = "caughtUp"
  BY <1>1, <1>2, BothBooked, BatchPhases
<1> HIDE DEF x
<1> QED
  BY <1>1, <1>2, <1>3, <1>4, SoloOutcomes DEF Kinds

\* A service that loads the store has no run under way.
LEMMA SoloLoad == ASSUME Shape, SoloOK, NEW s \in Services, LoadAtStart(s) PROVE SoloOK'
<1>1. Boot(s) = "off" /\ UNCHANGED <<api, timer, manual>>
  BY DEF LoadAtStart, Boot
<1>2. /\ Quiet /\ s = api /\ api \in Services
      /\ batch[api]["tick"].phase = "idle" /\ manual.phase = "none"
  BY <1>1, OnlyService DEF SoloOK, Quiet
<1>3. PICK m : Persist(api, m) /\ IsStore(m) /\ \A j \in Jobs : m[j].running = 0
  BY <1>2, LoadFacts
<1>4. PICK S \in SUBSET Jobs :
         batch' = [batch EXCEPT ![api]["boot"] = [Idle EXCEPT !.phase = "loaded", !.jobs = S]]
  BY <1>2, LoadFacts
<1> DEFINE x == [Idle EXCEPT !.phase = "loaded", !.jobs = S]
<1>5. x.phase = "loaded" /\ batch' = [batch EXCEPT ![api]["boot"] = x]
  BY <1>4, BatchPhases
<1> HIDE DEF x
<1>6. /\ batch'[api]["boot"] = x
      /\ \A p \in Services, l \in Kinds : p # api \/ l # "boot" => batch'[p][l] = batch[p][l]
  BY <1>2, <1>5, BatchAlone DEF Kinds
<1>7. \A j \in Jobs : ~Claimed(j)' /\ Once(j)'
  BY <1>1, <1>2, <1>5, <1>6 DEF Claimed, Once, InBatch, InManual, Kinds
<1>8. Settled(m) /\ Single'
  BY <1>3, <1>7 DEF Settled, Single
<1>9. Books'
  BY <1>1, <1>3, <1>8, PersistBooks
<1>10. writing' \in {0, api}
  BY <1>2, <1>3, PersistFacts DEF Shape
<1>11. Quiet'
  BY <1>1, <1>2, <1>5, <1>6, <1>10, QuietSection DEF Kinds
<1> QED
  BY <1>8, <1>9, <1>11 DEF SoloOK, Single

LEMMA SoloPlan == ASSUME Shape, SoloOK, NEW s \in Services, PlanStartupCatchup(s) PROVE SoloOK'
<1>1. /\ Unlocked /\ batch[s]["boot"].phase = "loaded"
      /\ UNCHANGED <<api, timer, manual, dropped>>
  BY DEF PlanStartupCatchup
<1>2. Quiet /\ Single /\ s = api /\ Boot(api) # "off" /\ api \in Services
  BY <1>1, OnlyService DEF SoloOK, Single, Shape, Clocks, Kinds
<1>3. CASE /\ UNCHANGED <<mem, disk, writing>>
           /\ batch' = [batch EXCEPT ![s]["boot"] = [Idle EXCEPT !.phase = "caughtUp"]]
  <2> DEFINE x == [Idle EXCEPT !.phase = "caughtUp"]
  <2>1. x.phase = "caughtUp" /\ batch' = [batch EXCEPT ![api]["boot"] = x]
    BY <1>2, <1>3, BatchPhases
  <2> HIDE DEF x
  <2>2. /\ batch'[api]["boot"] = x
        /\ \A p \in Services, l \in Kinds : p # api \/ l # "boot" => batch'[p][l] = batch[p][l]
    BY <1>2, <2>1, BatchAlone DEF Kinds
  <2>3. \A j \in Jobs : (Claimed(j)' <=> Claimed(j)) /\ (Once(j)' <=> Once(j))
    <3>1. \A l \in Kinds : /\ batch'[api][l].phase = "run" <=> batch[api][l].phase = "run"
                           /\ batch[api][l].phase = "run" =>
                                 batch'[api][l].jobs = batch[api][l].jobs
      BY <1>1, <1>2, <2>1, <2>2
    <3> QED
      BY <1>1, <3>1, ClaimsSame DEF InManual
  <2>4. Books' /\ Single'
    BY <1>1, <1>2, <1>3, <2>3 DEF SoloOK, Books, Tracked, Backed, Known, Single
  <2>5. Quiet'
    <3>1. /\ manual'.phase # "none" => manual'.svc = api
          /\ writing' \in {0, api} /\ batch'[api]["tick"].phase \in {"idle", "run"}
      BY <1>1, <1>2, <1>3, <2>2 DEF Quiet, Kinds
    <3> QED
      BY <1>1, <1>2, <2>1, <2>2, <3>1, QuietSection
  <2> QED
    BY <2>4, <2>5 DEF SoloOK, Single
<1>4. CASE \E m, S, later : CatchupMarks(s, m, S, later)
  <2>1. PICK m, S, later : CatchupMarks(api, m, S, later)
    BY <1>2, <1>4
  <2> DEFINE x == [Idle EXCEPT !.phase = "run", !.jobs = S, !.later = later]
  <2>2. /\ Persist(api, m) /\ Marks(mem[api], m, S)
        /\ S \in SUBSET Jobs /\ batch' = [batch EXCEPT ![api]["boot"] = x]
    BY <2>1 DEF CatchupMarks
  <2>3. x.phase = "run" /\ x.jobs = S
    BY BatchPhases
  <2> HIDE DEF x
  <2>4. /\ batch'[api]["boot"] = x
        /\ \A p \in Services, l \in Kinds : p # api \/ l # "boot" => batch'[p][l] = batch[p][l]
    BY <1>2, <2>2, BatchAlone DEF Kinds
  <2>5. /\ \A j \in Jobs : InBatch(j, "boot")' <=> j \in S
        /\ \A j \in Jobs : ~InBatch(j, "boot")
        /\ \A j \in Jobs : InBatch(j, "tick")' <=> InBatch(j, "tick")
        /\ \A j \in Jobs : InManual(j)' <=> InManual(j)
    BY <1>1, <1>2, <2>3, <2>4 DEF InBatch, InManual, Kinds
  <2>6. /\ \A j \in Jobs : Claimed(j)' <=> Claimed(j) \/ j \in S
        /\ \A j \in Jobs \ S : Once(j) => Once(j)'
        /\ \A j \in S : ~Claimed(j) => Once(j)'
    BY <2>2, <2>5 DEF Claimed, Once
  <2>7. Booked(mem[api])
    BY <1>1, <1>2, BothBooked
  <2>8. Settled(m) /\ Single'
    BY <1>1, <1>2, <2>2, <2>6, <2>7, MarksSettled
  <2>9. Books'
    BY <1>1, <2>2, <2>8, PersistBooks DEF Marks
  <2>10. writing' \in {0, api}
    BY <1>2, <2>2, PersistFacts DEF Shape, Marks
  <2>11. Quiet'
    <3>1. /\ manual'.phase # "none" => manual'.svc = api
          /\ batch'[api]["tick"].phase \in {"idle", "run"}
      BY <1>1, <1>2, <2>4 DEF Quiet, Kinds
    <3> QED
      BY <1>1, <1>2, <2>3, <2>4, <2>10, <3>1, QuietSection
  <2> QED
    BY <2>8, <2>9, <2>11 DEF SoloOK, Single
<1> QED
  BY <1>3, <1>4, PlanFacts

LEMMA SoloFinishStart ==
    ASSUME Shape, SoloOK, NEW s \in Services, FinishStart(s)
    PROVE  SoloOK'
<1>1. /\ Unlocked /\ batch[s]["boot"].phase = "caughtUp" /\ UNCHANGED <<api, manual>>
      /\ batch' = [batch EXCEPT ![s]["boot"] = Idle]
  BY DEF FinishStart
<1>2. /\ Quiet /\ Single /\ s = api /\ Boot(api) # "off" /\ api \in Services
      /\ Idle.phase = "idle"
  BY <1>1, OnlyService, BatchPhases DEF SoloOK, Single, Shape, Clocks, Kinds
<1>3. PICK m : /\ ArmTimer(api, m) /\ Ends(mem[api], m, {})
               /\ Persist(api, m) \/ (m = mem[api] /\ UNCHANGED <<mem, disk, writing>>)
  BY <1>2, FinishStartFacts
<1>4. /\ batch'[api]["boot"] = Idle
      /\ \A p \in Services, l \in Kinds : p # api \/ l # "boot" => batch'[p][l] = batch[p][l]
  BY <1>1, <1>2, BatchAlone DEF Kinds
<1>5. \A j \in Jobs : (Claimed(j)' <=> Claimed(j)) /\ (Once(j)' <=> Once(j))
  <2>1. \A l \in Kinds : /\ batch'[api][l].phase = "run" <=> batch[api][l].phase = "run"
                         /\ batch[api][l].phase = "run" =>
                               batch'[api][l].jobs = batch[api][l].jobs
    BY <1>1, <1>2, <1>4
  <2> QED
    BY <1>1, <2>1, ClaimsSame DEF InManual
<1>6. /\ Booked(mem[api]) /\ Booked(disk) /\ IsStore(m)
      /\ \A j \in Jobs : mem[api][j].here = disk[j].here
  BY <1>1, <1>2, <1>3, BothBooked, EndsStore DEF SoloOK, Books, Unlocked
<1>7. Settled(m) /\ Single'
  BY <1>2, <1>3, <1>5, <1>6, EndsSettled
<1>8. \A p \in Services \ {api} : timer'[p] = timer[p]
  BY <1>2, <1>3, ArmShape DEF Shape
<1>9. writing' \in {0, api}
  BY <1>1, <1>2, <1>3, <1>6, PersistFacts DEF Shape, Unlocked
<1>10. Quiet'
  <2>1. /\ manual'.phase # "none" => manual'.svc = api
        /\ batch'[api]["tick"].phase \in {"idle", "run"}
    BY <1>1, <1>2, <1>4 DEF Quiet, Kinds
  <2> QED
    BY <1>1, <1>2, <1>4, <1>8, <1>9, <2>1, QuietSection
<1>11. Books'
  <2>1. CASE Persist(api, m)
    BY <1>1, <1>6, <1>7, <2>1, PersistBooks
  <2>2. CASE m = mem[api] /\ UNCHANGED <<mem, disk, writing>>
    <3>1. (Tracked(mem[api]))' /\ (Backed(mem[api]))' /\ (Known(mem[api]))'
      BY <1>1, <1>7, <2>2 DEF Settled, Tracked, Backed, Known
    <3>2. \A j \in Jobs : j \in dropped => j \in dropped'
      BY <1>3 DEF Ends, EndClaims
    <3>3. (Tracked(disk))' /\ (Backed(disk))'
      BY <1>5, <1>6, <2>2, <3>2 DEF Booked, Tracked, Backed
    <3> QED
      BY <1>1, <1>6, <2>2, <3>1, <3>3 DEF Books
  <2> QED
    BY <1>3, <2>1, <2>2
<1> QED
  BY <1>7, <1>10, <1>11 DEF SoloOK, Single

LEMMA SoloSave == ASSUME Shape, SoloOK, SaveConfig PROVE SoloOK'
<1>1. /\ writing # 0 /\ disk' = mem[writing] /\ writing' = 0
      /\ UNCHANGED <<mem, api, timer, batch, manual, dropped>>
  BY DEF SaveConfig
<1>2. /\ Quiet /\ Single /\ writing = api /\ Boot(api) # "off" /\ api \in Services
      /\ Tracked(mem[api]) /\ Backed(mem[api]) /\ Known(mem[api])
  BY <1>1, OnlyService DEF SoloOK, Books, Single, Shape, Clocks
<1>3. \A j \in Jobs : (Claimed(j)' <=> Claimed(j)) /\ (Once(j)' <=> Once(j))
  BY <1>1, ClaimsSame DEF InManual
<1>4. Books' /\ Single'
  BY <1>1, <1>2, <1>3 DEF Books, Tracked, Backed, Known, Single
<1>5. Quiet'
  BY <1>1, <1>2, QuietSection DEF Quiet, Boot
<1> QED
  BY <1>4, <1>5 DEF SoloOK, Single

\* A new process has no run and reads the store before it does anything.
LEMMA FreshSolo ==
    ASSUME api = 1, writing = 0, manual = NoManual, timer = [s \in Services |-> FALSE],
           batch = [s \in Services |-> IF s = 1 THEN Started(s) ELSE NoService]
    PROVE  SoloOK
<1>1. /\ \A s \in Services : /\ batch[s]["tick"].phase = "idle"
                             /\ s # 1 => batch[s]["boot"].phase = "none"
      /\ batch[1]["boot"].phase = "off"
  BY NewProcess
<1>2. Quiet
  BY <1>1, BoundsAssumption DEF Quiet, Boot, NoManual
<1>3. Books
  BY <1>1 DEF Books, Boot
<1>4. \A j \in Jobs : Once(j)
  BY <1>1, BoundsAssumption DEF Once, InBatch, InManual, NoManual
<1> QED
  BY <1>2, <1>3, <1>4 DEF SoloOK

LEMMA SoloCrash == ASSUME Crash PROVE SoloOK'
<1>1. /\ api' = 1 /\ writing' = 0 /\ manual' = NoManual
      /\ timer' = [s \in Services |-> FALSE]
      /\ batch' = [s \in Services |-> IF s = 1 THEN Started(s) ELSE NoService]
  BY DEF Crash
<1>2. /\ \A s \in Services : /\ batch'[s]["tick"].phase = "idle"
                             /\ s # 1 => batch'[s]["boot"].phase = "none"
      /\ batch'[1]["boot"].phase = "off"
  BY <1>1, NewProcess
<1>3. Quiet'
  BY <1>1, <1>2, BoundsAssumption DEF Quiet, Boot, NoManual
<1>4. Books'
  BY <1>1, <1>2 DEF Books, Boot
<1>5. \A j \in Jobs : Once(j)'
  BY <1>1, <1>2, BoundsAssumption DEF Once, InBatch, InManual, NoManual
<1> QED
  BY <1>3, <1>4, <1>5 DEF SoloOK

LEMMA SoloReload == ASSUME Shape, SoloOK, Reload, solo' PROVE SoloOK'
<1>1. ~Busy(api) /\ UNCHANGED <<mem, disk, writing, manual, dropped>>
  BY DEF Reload
<1>2. PICK s \in Services : /\ s = api + 1 /\ api' = s
                            /\ timer' = [timer EXCEPT ![api] = FALSE]
                            /\ batch' = [batch EXCEPT ![s] = Started(s)]
  BY DEF Reload
<1>3. Quiet /\ api \in Services /\ api \in Nat
  BY BoundsAssumption DEF SoloOK, Shape, Clocks
<1>4. /\ batch[api]["boot"].phase = "idle" /\ batch[api]["tick"].phase = "idle"
      /\ manual.phase = "none" /\ writing = 0
  BY <1>1, <1>3 DEF Busy, Quiet
<1>5. /\ batch'[s] = Started(s) /\ \A p \in Services : p # s => batch'[p] = batch[p]
      /\ ~timer'[api] /\ \A p \in Services : p # api => timer'[p] = timer[p]
  BY <1>2, <1>3 DEF Shape, Batches, Timers
<1>6. batch'[s]["boot"].phase = "off" /\ batch'[s]["tick"].phase = "idle" /\ s # api
  BY <1>2, <1>3, <1>5, NewService
<1>7. Quiet'
  <2>1. \A p \in Services \ {s} : /\ batch'[p]["boot"].phase \in {"none", "idle"}
                                  /\ batch'[p]["tick"].phase = "idle" /\ ~timer'[p]
    BY <1>3, <1>4, <1>5 DEF Quiet, Boot
  <2>2. ~timer'[s]
    BY <1>3, <1>5, <1>6 DEF Quiet
  <2> QED
    BY <1>1, <1>2, <1>4, <1>6, <2>1, <2>2 DEF Quiet, Boot
<1>8. Books'
  BY <1>2, <1>6 DEF Books, Boot
<1>9. \A j \in Jobs : Once(j)'
  BY <1>1, <1>2, <1>4, <1>6 DEF Once, InBatch, InManual
<1> QED
  BY <1>7, <1>8, <1>9 DEF SoloOK

LEMMA SoloIdle == ASSUME SoloOK, Tick \/ UNCHANGED vars PROVE SoloOK'
<1>1. UNCHANGED <<mem, disk, writing, api, timer, batch, manual, dropped>>
  BY DEF Tick, vars
<1> QED
  BY <1>1 DEF SoloOK, Quiet, Books, Boot, Tracked, Backed, Known, Claimed, Once, InBatch, InManual

\* Only a reload says that a service was replaced at work.
LEMMA SoloKept == ASSUME Shape, [Next]_vars, solo' PROVE solo
<1>1. UNCHANGED solo \/ Reload
  <2>1. /\ \A j \in Jobs : \A t : Add(j, t) => UNCHANGED solo
        /\ \A j \in Jobs : \A e, t : Update(j, e, t) => UNCHANGED solo
        /\ \A j \in Jobs : Remove(j) => UNCHANGED solo
    BY DEF Add, Update, Remove
  <2>2. /\ List \/ EnqueueRun => UNCHANGED solo
        /\ \A j \in Jobs : \A f : InspectManualRunPreflight(j, f) => UNCHANGED solo
    BY DEF List, EnqueueRun, InspectManualRunPreflight
  <2>3. /\ PrepareManualRun => UNCHANGED solo
        /\ \A r : FinishPreparedManualRun(r) => UNCHANGED solo
    BY DEF PrepareManualRun, FinishPreparedManualRun
  <2>4. ASSUME NEW s \in Services,
               \/ \E k \in Kinds : StartRun(s, k) \/ \E r \in Results : EndRun(s, k, r)
               \/ OnTimer(s) \/ ApplyOutcomes(s)
        PROVE  UNCHANGED solo
    <3>1. CASE \E k \in Kinds : StartRun(s, k)
      BY <3>1 DEF StartRun
    <3>2. CASE \E k \in Kinds, r \in Results : EndRun(s, k, r)
      BY <3>2 DEF EndRun
    <3>3. CASE OnTimer(s)
      BY <3>3 DEF OnTimer
    <3>4. CASE ApplyOutcomes(s)
      BY <3>4 DEF ApplyOutcomes
    <3> QED
      BY <2>4, <3>1, <3>2, <3>3, <3>4
  <2>5. \A s \in Services :
           /\ LoadAtStart(s) \/ PlanStartupCatchup(s) => UNCHANGED solo
           /\ ApplyStartupCatchupOutcomes(s) \/ FinishStart(s) => UNCHANGED solo
    BY DEF LoadAtStart, PlanStartupCatchup, ApplyStartupCatchupOutcomes, FinishStart
  <2>6. SaveConfig \/ Crash \/ Tick \/ UNCHANGED vars => UNCHANGED solo
    BY DEF SaveConfig, Crash, Tick, vars
  <2>7. (\E s \in Services : Run(s)) => UNCHANGED solo
    BY <2>4, <2>5 DEF Run, Kinds
  <2> QED
    BY <2>1, <2>2, <2>3, <2>6, <2>7 DEF Next
<1>2. Reload => solo
  BY DEF Reload, Shape
<1> QED
  BY <1>1, <1>2

LEMMA SoloStep == ASSUME Shape, solo => SoloOK, [Next]_vars, solo' PROVE SoloOK'
<1>1. solo /\ SoloOK
  BY SoloKept
<1>2. CASE \/ \E j \in Jobs, t \in 1..MaxTime : Add(j, t)
           \/ \E j \in Jobs, e \in BOOLEAN, t \in 1..MaxTime :
                 Update(j, e, IF j \in OneShots THEN t ELSE 0)
           \/ \E j \in Jobs : Remove(j)
  BY <1>1, <1>2, SoloEdits
<1>3. CASE \/ List \/ EnqueueRun
           \/ \E j \in Jobs, f \in BOOLEAN : InspectManualRunPreflight(j, f)
  BY <1>1, <1>3, SoloLooks
<1>4. CASE PrepareManualRun \/ \E r \in Results : FinishPreparedManualRun(r)
  BY <1>1, <1>4, SoloPrepare, SoloFinishManual
<1>5. CASE \E s \in Services : Run(s)
  BY <1>1, <1>5, SoloRuns, SoloOnTimer, SoloApplyOutcomes, SoloLoad, SoloPlan,
     SoloApplyStartup, SoloFinishStart DEF Run
<1>6. CASE SaveConfig \/ Crash \/ Reload \/ Tick \/ UNCHANGED vars
  BY <1>1, <1>6, SoloSave, SoloCrash, SoloReload, SoloIdle
<1> QED
  BY <1>2, <1>3, <1>4, <1>5, <1>6 DEF Next

-----------------------------------------------------------------------------
(* One-shots that are done for good, when a one-shot is deleted after its  *)
(* success.  They are gone from the memory of the service and from the     *)
(* disk, or their deletion is about to be written; a job that is gone does *)
(* not come back.                                                          *)

OverOK ==
    /\ over \subseteq Jobs
    /\ Boot(api) # "off" => \A j \in over : mem[api][j].here = "gone"
    /\ \A j \in over : \/ disk[j].here = "gone"
                       \/ writing # 0 /\ ConfigOf(mem[writing][j]) # ConfigOf(disk[j])

LEMMA PersistOver ==
    ASSUME Shape, NEW m, IsStore(m), Persist(api, m), api' = api,
           over' \subseteq Jobs, \A j \in over' : m[j].here = "gone"
    PROVE  OverOK'
<1>1. /\ mem' = [mem EXCEPT ![api] = m] /\ disk' = StateOnly(m)
      /\ writing' = IF \E j \in Jobs : ConfigOf(disk[j]) # ConfigOf(m[j]) THEN api ELSE 0
  BY DEF Persist
<1>2. mem'[api'] = m /\ api # 0
  BY <1>1, BoundsAssumption DEF Shape, Clocks, Stores
<1>3. ASSUME NEW j \in over'
      PROVE  \/ disk'[j].here = "gone"
             \/ writing' # 0 /\ ConfigOf(mem'[writing'][j]) # ConfigOf(disk'[j])
  <2> DEFINE d == disk[j]
             r == m[j]
  <2>1. j \in Jobs /\ r.here = "gone" /\ IsJob(d) /\ IsJob(r)
    BY <1>3 DEF Shape, Stores, IsStore
  <2>2. disk'[j] = IF Present(d) THEN [r EXCEPT !.here = "yes", !.enabled = d.enabled, !.at = d.at]
                   ELSE d
    BY <1>1, <2>1 DEF StateOnly
  <2>3. CASE ConfigOf(d) = ConfigOf(r)
    BY <2>1, <2>2, <2>3 DEF ConfigOf, Present
  <2>4. CASE ConfigOf(d) # ConfigOf(r)
    <3>1. writing' = api /\ mem'[writing'][j] = r
      BY <1>1, <1>2, <2>1, <2>4
    <3>2. CASE Present(d)
      <4> HIDE DEF d, r
      <4>1. disk'[j].here = "yes"
        BY <2>1, <2>2, <3>2 DEF IsJob
      <4> QED
        BY <1>2, <2>1, <3>1, <4>1 DEF ConfigOf
    <3>3. CASE ~Present(d)
      BY <1>2, <2>2, <2>4, <3>1, <3>3
    <3> QED
      BY <3>2, <3>3
  <2> QED
    BY <2>3, <2>4
<1> QED
  BY <1>2, <1>3 DEF OverOK

LEMMA OverGone ==
    ASSUME OverOK, Unlocked
    PROVE  /\ over \subseteq Jobs /\ \A j \in over : disk[j].here = "gone"
           /\ Boot(api) # "off" => \A j \in over : mem[api][j].here = "gone"
BY DEF OverOK, Unlocked

\* A section that brings no job back, and whose new members it deletes.
LEMMA OverSection ==
    ASSUME Shape, NEW b, NEW m, IsStore(m), Follows(b, m), Persist(api, m), api' = api,
           over \subseteq Jobs, \A j \in over : b[j].here = "gone",
           NEW S \in SUBSET Jobs, \A j \in S : m[j].here = "gone", over' \subseteq over \cup S
    PROVE  OverOK'
<1>1. \A j \in over' : m[j].here = "gone"
  BY DEF Follows
<1> QED
  BY <1>1, PersistOver

LEMMA OverStays ==
    ASSUME OverOK, UNCHANGED <<disk, writing, api, over>>, Boot(api)' # "off" => Boot(api) # "off",
           writing # 0 => mem' = mem,
           \A j \in Jobs : mem'[api][j].here = mem[api][j].here
    PROVE  OverOK'
BY DEF OverOK

LEMMA SucceededGone ==
    ASSUME OneShots = DeleteAfterRun, NEW j \in OneShots, NEW r, NEW o, o.result = "ok"
    PROVE  ApplyJobResult(j, r, o).here = "gone" \/ ~IsJob(r)
<1>1. ApplyJobResult(j, r, o) = Erase(r)
  BY DEF ApplyJobResult
<1> QED
  BY <1>1, EraseFacts

LEMMA OutcomesGone ==
    ASSUME OneShots = DeleteAfterRun, NEW b, IsStore(b), NEW done, NEW j \in Succeeded(b, done)
    PROVE  j \in Jobs /\ ApplyOutcomesTo(b, done)[j].here = "gone"
<1>1. j \in OneShots /\ j \in Jobs /\ Present(b[j]) /\ done[j].result = "ok"
  BY BoundsAssumption DEF Succeeded
<1>2. IsJob(b[j]) /\ done[j] # NoOutcome
  BY <1>1 DEF IsStore, NoOutcome
<1>3. ApplyOutcomesTo(b, done)[j] = ApplyJobResult(j, b[j], done[j])
  BY <1>1, <1>2 DEF ApplyOutcomesTo
<1> QED
  BY <1>1, <1>2, <1>3, SucceededGone

LEMMA OverEdits ==
    ASSUME Shape, OverOK,
           \/ \E j \in Jobs, t \in 1..MaxTime : Add(j, t)
           \/ \E j \in Jobs, e \in BOOLEAN, t \in 1..MaxTime :
                 Update(j, e, IF j \in OneShots THEN t ELSE 0)
    PROVE  OverOK'
<1>1. PICK m : Persist(api, m) /\ Ends(mem[api], m, {})
  BY AddFacts, UpdateEnds
<1>2. /\ Unlocked /\ Boot(api) # "off" /\ api' = api /\ over' \subseteq over
  <2>1. ASSUME NEW j \in Jobs, NEW t, Add(j, t)
        PROVE  Unlocked /\ Boot(api) # "off" /\ api' = api /\ over' \subseteq over
    BY <2>1 DEF Add, Boot
  <2>2. ASSUME NEW j \in Jobs, NEW e, NEW t, Update(j, e, t)
        PROVE  Unlocked /\ Boot(api) # "off" /\ api' = api /\ over' \subseteq over
    BY <2>2 DEF Update, Boot
  <2> QED
    BY <2>1, <2>2
<1> QED
  BY <1>1, <1>2, OverGone, OverSection DEF Ends

LEMMA OverRemove == ASSUME Shape, OverOK, NEW j \in Jobs, Remove(j) PROVE OverOK'
<1> DEFINE m == [mem[api] EXCEPT ![j] = Erase(@)]
<1>1. /\ Unlocked /\ Boot(api) # "off" /\ api' = api /\ over' \subseteq over \cup {j}
      /\ Persist(api, m)
  BY DEF Remove, Boot
<1>2. IsStore(mem[api]) /\ IsJob(mem[api][j])
  BY DEF Shape, Stores, IsStore, Clocks
<1>3. PICK n : Persist(api, n) /\ Ends(mem[api], n, {})
  BY RemoveFacts
<1>4. m[j].here = "gone"
  BY <1>2, EraseFacts DEF IsStore
<1> HIDE DEF m
<1>5. n = m
  BY <1>1, <1>3 DEF Persist, Shape, Stores, Clocks
<1>6. Follows(mem[api], m) /\ IsStore(m) /\ {j} \in SUBSET Jobs
  BY <1>3, <1>5 DEF Ends
<1>7. over \subseteq Jobs /\ \A i \in over : mem[api][i].here = "gone"
  BY <1>1, OverGone
<1> QED
  BY <1>1, <1>4, <1>6, <1>7, OverSection

LEMMA OverLooks ==
    ASSUME Shape, OverOK,
           \/ List \/ EnqueueRun
           \/ \E j \in Jobs, f \in BOOLEAN : InspectManualRunPreflight(j, f)
    PROVE  OverOK'
<1>1. PICK m : /\ Repairs(mem[api], m) /\ Ends(mem[api], m, {})
               /\ \/ Persist(api, m)
                  \/ mem' = [mem EXCEPT ![api] = m] /\ UNCHANGED <<disk, writing>>
  BY LooksFacts
<1>2. Unlocked /\ Boot(api) # "off" /\ UNCHANGED <<api, over>>
  <2>1. CASE List
    BY <2>1 DEF List, Boot
  <2>2. CASE EnqueueRun
    BY <2>2 DEF EnqueueRun, Boot
  <2>3. CASE \E j \in Jobs, f \in BOOLEAN : InspectManualRunPreflight(j, f)
    BY <2>3 DEF InspectManualRunPreflight, Boot
  <2> QED
    BY <2>1, <2>2, <2>3
<1>3. CASE Persist(api, m)
  BY <1>1, <1>2, <1>3, OverGone, OverSection DEF Ends
<1>4. CASE mem' = [mem EXCEPT ![api] = m] /\ UNCHANGED <<disk, writing>>
  <2>1. \A j \in Jobs : mem'[api][j].here = mem[api][j].here
    BY <1>1, <1>4 DEF Repairs, Shape, Stores, Clocks
  <2> QED
    BY <1>2, <1>4, <2>1, OverStays DEF Unlocked
<1> QED
  BY <1>1, <1>3, <1>4

LEMMA OverPrepare == ASSUME Shape, SoloOK, OverOK, PrepareManualRun PROVE OverOK'
<1>1. Unlocked /\ manual.phase = "checked" /\ UNCHANGED <<api, batch, over>>
  BY DEF PrepareManualRun
<1>2. manual.svc = api /\ Boot(api) # "off"
  BY <1>1, OnlyService DEF SoloOK
<1>3. CASE UNCHANGED <<mem, disk, writing>>
  BY <1>1, <1>3, OverStays DEF Boot
<1>4. CASE \E m : Persist(manual.svc, m) /\ Marks(mem[manual.svc], m, {manual.job})
  <2>1. PICK m : Persist(api, m) /\ Marks(mem[api], m, {manual.job})
    BY <1>2, <1>4
  <2>2. \A j \in over' : m[j].here = "gone"
    BY <1>1, <1>2, <2>1, OverGone DEF Marks
  <2> QED
    BY <1>1, <2>1, <2>2, OverGone, PersistOver DEF Marks
<1> QED
  BY <1>3, <1>4, PrepareFacts

LEMMA OverFinishManual ==
    ASSUME OneShots = DeleteAfterRun, Shape, SoloOK, OverOK,
           NEW result, FinishPreparedManualRun(result)
    PROVE  OverOK'
<1> DEFINE s == manual.svc
           j == manual.job
           o == [result |-> result, started |-> manual.started, ended |-> now]
           r == ApplyJobResult(j, mem[s][j], o)
           S == Succeeded(mem[s], [Idle.done EXCEPT ![j] = o])
           merged == IF ~Present(r) THEN Erase(disk[j])
                     ELSE IF Present(disk[j]) THEN [r EXCEPT !.at = disk[j].at] ELSE disk[j]
           u == [disk EXCEPT ![j] = merged]
           m == RecomputeNextRunsForMaintenance(u, now, TRUE)
<1>1. /\ Unlocked /\ manual.phase = "run" /\ UNCHANGED api
      /\ Present(mem[s][j]) => Persist(s, m) /\ over' \subseteq over \cup S
      /\ ~Present(mem[s][j]) => UNCHANGED <<mem, disk, writing, batch, over>>
  BY DEF FinishPreparedManualRun
<1>2. s = api /\ Boot(api) # "off" /\ s \in Services /\ j \in Jobs
  BY <1>1, OnlyService DEF SoloOK, Shape, IsManual
<1>3. CASE ~Present(mem[s][j])
  BY <1>1, <1>3, OverStays DEF Boot
<1>4. CASE Present(mem[s][j])
  <2>1. PICK n : Persist(s, n) /\ Ends(disk, n, {j})
    BY <1>4, FinishFacts
  <2>2. n = m
    <3> HIDE DEF m, s
    <3> QED
      BY <1>1, <1>2, <1>4, <2>1 DEF Persist, Shape, Stores
  <2>3. S \subseteq {j} /\ (S # {} => j \in OneShots /\ o.result = "ok")
    <3>1. Idle.done = [i \in Jobs |-> NoOutcome] /\ NoOutcome.result # "ok"
      BY DEF Idle, NoOutcome
    <3> HIDE DEF o, j, s
    <3>2. \A i \in S : i \in Jobs /\ i \in OneShots
      BY BoundsAssumption DEF Succeeded
    <3>3. \A i \in S : [Idle.done EXCEPT ![j] = o][i].result = "ok"
      BY DEF Succeeded
    <3> QED
      BY <1>2, <3>1, <3>2, <3>3
  <2>4. \A i \in S : m[i].here = "gone"
    <3> SUFFICES ASSUME S # {} PROVE m[j].here = "gone"
      BY <2>3
    <3>1. IsStore(disk) /\ IsJob(disk[j]) /\ IsJob(mem[s][j])
      BY <1>2 DEF Shape, Stores, IsStore
    <3>2. r.here = "gone"
      <4> HIDE DEF o
      <4> QED
        BY <2>3, <3>1, SucceededGone
    <3>3. merged = Erase(disk[j])
      <4> HIDE DEF r
      <4> QED
        BY <3>2 DEF Present
    <3>4. merged.here = "gone" /\ merged.running = 0 /\ IsJob(merged)
      BY <3>1, <3>3, EraseFacts
    <3> HIDE DEF merged
    <3>5. IsStore(u) /\ u[j].here = "gone"
      BY <1>2, <3>1, <3>4, StoreChange DEF IsStore
    <3> HIDE DEF u, j
    <3>6. Repairs(u, m)
      BY <3>5, MaintenanceRepairs
    <3> HIDE DEF m
    <3> QED
      BY <1>2, <3>5, <3>6 DEF Repairs
  <2> HIDE DEF m, S, s, j, o
  <2>5. Follows(disk, m) /\ IsStore(m) /\ S \in SUBSET Jobs /\ Persist(api, m)
    BY <1>2, <2>1, <2>2, <2>3 DEF Ends
  <2> QED
    BY <1>1, <1>4, <2>4, <2>5, OverGone, OverSection
<1> QED
  BY <1>3, <1>4

LEMMA OverOnTimer ==
    ASSUME Shape, SoloOK, OverOK, NEW s \in Services, OnTimer(s)
    PROVE  OverOK'
<1>1. timer[s] /\ Unlocked /\ UNCHANGED <<api, over>>
  BY DEF OnTimer
<1>2. s = api /\ Boot(api) # "off"
  BY <1>1, OnlyService DEF SoloOK
<1>3. CASE \E m : Persist(s, m) /\ Ends(disk, m, {})
  BY <1>1, <1>2, <1>3, OverGone, OverSection DEF Ends
<1>4. CASE \E m, due : OnTimerMarks(s, m, due)
  <2>1. PICK m, due : Persist(api, m) /\ Marks(disk, m, due)
    BY <1>2, <1>4 DEF OnTimerMarks
  <2>2. \A j \in over' : m[j].here = "gone"
    BY <1>1, <2>1, OverGone DEF Marks
  <2> QED
    BY <1>1, <2>1, <2>2, OverGone, PersistOver DEF Marks
<1> QED
  BY <1>3, <1>4, OnTimerFacts

LEMMA OverRuns ==
    ASSUME Shape, SoloOK, OverOK, NEW s \in Services, NEW k \in Kinds,
           StartRun(s, k) \/ \E r \in Results : EndRun(s, k, r)
    PROVE  OverOK'
<1>1. UNCHANGED <<disk, writing, api, over>>
  BY DEF StartRun, EndRun
<1>2. Boot(api)' = Boot(api)
  BY <1>1, StartRunBatch, EndRunBatch, SameBoots DEF Kinds, Shape, Clocks
<1>3. CASE StartRun(s, k)
  <2>1. PICK m : Stamps(s, k, m)
    BY <1>3, StartRunStore
  <2>2. writing = 0
    BY <1>3 DEF StartRun, Unlocked
  <2>3. \A j \in Jobs : mem'[api][j].here = mem[api][j].here
    BY <2>1 DEF Stamps, Shape, Stores, Clocks
  <2> QED
    BY <1>1, <1>2, <2>2, <2>3, OverStays
<1>4. CASE \E r \in Results : EndRun(s, k, r)
  <2>1. mem' = mem
    BY <1>4 DEF EndRun
  <2> QED
    BY <1>1, <1>2, <2>1, OverStays
<1> QED
  BY <1>3, <1>4

LEMMA OverApplyOutcomes ==
    ASSUME OneShots = DeleteAfterRun, Shape, SoloOK, OverOK, NEW s \in Services, ApplyOutcomes(s)
    PROVE  OverOK'
<1> DEFINE done == batch[s]["tick"].done
           S == Succeeded(disk, done)
           a == ApplyOutcomesTo(disk, done)
           m == RecomputeNextRunsForMaintenance(a, now, FALSE)
<1>1. /\ Unlocked /\ batch[s]["tick"].phase = "run" /\ UNCHANGED api
      /\ over' = over \cup S /\ Persist(s, m)
  BY DEF ApplyOutcomes, AllDone
<1>2. s = api /\ Boot(api) # "off" /\ IsStore(disk)
  BY <1>1, OnlyService DEF SoloOK, Shape, Stores, Kinds
<1> HIDE DEF done
<1>3. IsStore(a) /\ Follows(disk, a)
  <2>1. IsStore(a) /\ \A j \in Jobs : /\ a[j].here \in {disk[j].here, "gone"}
                                      /\ a[j].running \in {0, disk[j].running}
    BY <1>2, OutcomesFacts
  <2> QED
    BY <2>1 DEF Follows
<1>4. S \in SUBSET Jobs /\ \A j \in S : a[j].here = "gone"
  BY <1>2, OutcomesGone
<1> HIDE DEF a, S
<1>5. Repairs(a, m)
  BY <1>3, MaintenanceRepairs
<1> HIDE DEF m
<1>6. IsStore(m) /\ Follows(disk, m) /\ \A j \in S : m[j].here = "gone"
  BY <1>3, <1>4, <1>5 DEF Repairs, Follows
<1> QED
  BY <1>1, <1>2, <1>4, <1>6, OverGone, OverSection

LEMMA OverApplyStartup ==
    ASSUME OneShots = DeleteAfterRun, Shape, SoloOK, OverOK,
           NEW s \in Services, ApplyStartupCatchupOutcomes(s)
    PROVE  OverOK'
<1> DEFINE x == batch[s]["boot"]
           S == Succeeded(mem[s], x.done)
           a == ApplyOutcomesTo(mem[s], x.done)
<1>1. /\ Unlocked /\ x.phase = "run" /\ UNCHANGED api /\ over' = over \cup S
  BY DEF ApplyStartupCatchupOutcomes, AllDone
<1>2. s = api /\ Boot(api) # "off" /\ IsStore(mem[s])
  BY <1>1, OnlyService DEF SoloOK, Shape, Stores, Kinds
<1>3. PICK m : /\ Persist(s, m) /\ Ends(mem[s], m, x.jobs)
               /\ \A j \in Jobs : m[j].here = a[j].here
  BY ApplyStartupFacts
<1>4. S \in SUBSET Jobs /\ \A j \in S : a[j].here = "gone"
  <2> HIDE DEF x
  <2> QED
    BY <1>2, OutcomesGone
<1> HIDE DEF x, S, a
<1>5. IsStore(m) /\ Follows(mem[s], m) /\ \A j \in S : m[j].here = "gone"
  BY <1>3, <1>4 DEF Ends
<1> QED
  BY <1>1, <1>2, <1>3, <1>4, <1>5, OverGone, OverSection

LEMMA OverLoad ==
    ASSUME Shape, SoloOK, OverOK, NEW s \in Services, LoadAtStart(s)
    PROVE  OverOK'
<1> DEFINE m == [j \in Jobs |-> [disk[j] EXCEPT !.running = 0]]
<1>1. /\ Unlocked /\ Boot(s) = "off" /\ UNCHANGED <<api, over>> /\ Persist(s, m)
  BY DEF LoadAtStart, Boot
<1>2. s = api /\ IsStore(disk)
  BY <1>1, OnlyService DEF SoloOK, Shape, Stores
<1>3. PICK n : Persist(s, n) /\ IsStore(n)
  BY LoadFacts
<1>4. \A j \in Jobs : m[j].here = disk[j].here
  BY <1>2 DEF IsStore, IsJob
<1> HIDE DEF m
<1>5. n = m
  BY <1>1, <1>2, <1>3 DEF Persist, Shape, Stores, Clocks
<1>6. \A j \in over' : m[j].here = "gone"
  BY <1>1, <1>4, OverGone
<1> QED
  BY <1>1, <1>2, <1>3, <1>5, <1>6, OverGone, PersistOver

LEMMA OverPlan ==
    ASSUME Shape, SoloOK, OverOK, NEW s \in Services, PlanStartupCatchup(s)
    PROVE  OverOK'
<1>1. /\ Unlocked /\ batch[s]["boot"].phase = "loaded" /\ UNCHANGED <<api, over>>
  BY DEF PlanStartupCatchup
<1>2. s = api /\ Boot(api) # "off"
  BY <1>1, OnlyService DEF SoloOK, Kinds
<1>3. CASE UNCHANGED <<mem, disk, writing>>
  BY <1>1, <1>2, <1>3, OverStays
<1>4. CASE \E m, S, later : CatchupMarks(s, m, S, later)
  <2>1. PICK m, S : Persist(api, m) /\ Marks(mem[api], m, S)
    BY <1>2, <1>4 DEF CatchupMarks
  <2>2. \A j \in over' : m[j].here = "gone"
    BY <1>1, <1>2, <2>1, OverGone DEF Marks
  <2> QED
    BY <1>1, <2>1, <2>2, OverGone, PersistOver DEF Marks
<1> QED
  BY <1>3, <1>4, PlanFacts

LEMMA OverFinishStart ==
    ASSUME Shape, SoloOK, OverOK, NEW s \in Services, FinishStart(s)
    PROVE  OverOK'
<1>1. /\ Unlocked /\ batch[s]["boot"].phase = "caughtUp" /\ UNCHANGED <<api, over>>
  BY DEF FinishStart
<1>2. s = api /\ Boot(api) # "off"
  BY <1>1, OnlyService DEF SoloOK, Kinds
<1>3. PICK m : /\ Ends(mem[s], m, {})
               /\ Persist(s, m) \/ (m = mem[s] /\ UNCHANGED <<mem, disk, writing>>)
  BY FinishStartFacts
<1>4. CASE Persist(s, m)
  <2>1. /\ Persist(api, m) /\ IsStore(m) /\ Follows(mem[api], m)
        /\ over \subseteq Jobs /\ \A j \in over : mem[api][j].here = "gone"
    BY <1>1, <1>2, <1>3, <1>4, OverGone DEF Ends
  <2>2. over' \subseteq over \cup {} /\ {} \in SUBSET Jobs
    BY <1>1
  <2> QED
    BY <1>1, <2>1, <2>2, OverSection
<1>5. CASE UNCHANGED <<mem, disk, writing>>
  BY <1>1, <1>2, <1>5, OverStays
<1> QED
  BY <1>3, <1>4, <1>5

LEMMA OverSurroundings ==
    ASSUME Shape, SoloOK, OverOK, SaveConfig \/ Crash \/ Tick \/ UNCHANGED vars
    PROVE  OverOK'
<1>1. CASE SaveConfig
  <2>1. /\ writing # 0 /\ disk' = mem[writing] /\ writing' = 0
        /\ UNCHANGED <<mem, api, batch, over>>
    BY <1>1 DEF SaveConfig
  <2>2. writing = api /\ Boot(api) # "off"
    BY <2>1, OnlyService DEF SoloOK
  <2> QED
    BY <2>1, <2>2 DEF OverOK, Boot
<1>2. CASE Crash
  <2>1. /\ api' = 1 /\ writing' = 0 /\ UNCHANGED disk
        /\ batch' = [s \in Services |-> IF s = 1 THEN Started(s) ELSE NoService]
        /\ over' = {j \in over : writing # 0 => ConfigOf(mem[writing][j]) = ConfigOf(disk[j])}
    BY <1>2 DEF Crash
  <2>2. Boot(api)' = "off"
    BY <2>1, NewProcess DEF Boot
  <2> QED
    BY <2>1, <2>2 DEF OverOK
<1>3. CASE Tick \/ UNCHANGED vars
  BY <1>3 DEF Tick, vars, OverOK, Boot
<1> QED
  BY <1>1, <1>2, <1>3

LEMMA OverReload == ASSUME Shape, SoloOK, OverOK, Reload, solo' PROVE OverOK'
<1>1. ~Busy(api) /\ UNCHANGED <<mem, disk, writing, over>>
  BY DEF Reload
<1>2. PICK s \in Services : api' = s /\ batch' = [batch EXCEPT ![s] = Started(s)]
  BY DEF Reload
<1>3. Boot(api)' = "off"
  BY <1>2, NewService DEF Boot, Shape, Batches
<1>4. writing = 0
  BY <1>1 DEF Busy, SoloOK, Quiet
<1> QED
  BY <1>1, <1>3, <1>4 DEF OverOK

LEMMA OverStep ==
    ASSUME OneShots = DeleteAfterRun, Shape, SoloOK, OverOK, [Next]_vars, solo'
    PROVE  OverOK'
<1>1. CASE \/ \E j \in Jobs, t \in 1..MaxTime : Add(j, t)
           \/ \E j \in Jobs, e \in BOOLEAN, t \in 1..MaxTime :
                 Update(j, e, IF j \in OneShots THEN t ELSE 0)
           \/ \E j \in Jobs : Remove(j)
  BY <1>1, OverEdits, OverRemove
<1>2. CASE \/ List \/ EnqueueRun
           \/ \E j \in Jobs, f \in BOOLEAN : InspectManualRunPreflight(j, f)
  BY <1>2, OverLooks
<1>3. CASE PrepareManualRun \/ \E r \in Results : FinishPreparedManualRun(r)
  BY <1>3, OverPrepare, OverFinishManual
<1>4. CASE \E s \in Services : Run(s)
  BY <1>4, OverRuns, OverOnTimer, OverApplyOutcomes, OverLoad, OverPlan,
     OverApplyStartup, OverFinishStart DEF Run
<1>5. CASE SaveConfig \/ Crash \/ Reload \/ Tick \/ UNCHANGED vars
  BY <1>5, OverSurroundings, OverReload
<1> QED
  BY <1>1, <1>2, <1>3, <1>4, <1>5 DEF Next

\* Runs begin in two places.
LEMMA BatchBegins ==
    ASSUME Shape, Next, NEW s \in Services, NEW k \in Kinds,
           batch'[s][k].phase = "run", batch[s][k].phase # "run"
    PROVE  OnTimer(s) \/ PlanStartupCatchup(s)
<1>1. batch' # batch
  OBVIOUS
<1>2. \/ \E p \in Services : Run(p)
      \/ \E r \in Results : FinishPreparedManualRun(r)
      \/ Crash \/ Reload
  <2>1. /\ \A j \in Jobs : \A t : Add(j, t) => UNCHANGED batch
        /\ \A j \in Jobs : \A e, t : Update(j, e, t) => UNCHANGED batch
        /\ \A j \in Jobs : Remove(j) => UNCHANGED batch
    BY DEF Add, Update, Remove
  <2>2. /\ List \/ EnqueueRun \/ PrepareManualRun \/ SaveConfig \/ Tick => UNCHANGED batch
        /\ \A j \in Jobs : \A f : InspectManualRunPreflight(j, f) => UNCHANGED batch
    BY DEF List, EnqueueRun, InspectManualRunPreflight, PrepareManualRun, SaveConfig, Tick
  <2> QED
    BY <1>1, <2>1, <2>2 DEF Next
<1>3. ASSUME NEW result, FinishPreparedManualRun(result) PROVE FALSE
  <2>1. manual.svc \in Services
    BY DEF Shape, IsManual
  <2>2. UNCHANGED batch \/ batch' = [batch EXCEPT ![manual.svc]["tick"].attached = FALSE]
    BY <1>3, FinishFacts
  <2> QED
    BY <1>1, <2>1, <2>2, DetachBatch, SameClaimsBatches DEF Kinds
<1>4. CASE Crash
  <2>1. batch' = [p \in Services |-> IF p = 1 THEN Started(p) ELSE NoService]
    BY <1>4 DEF Crash
  <2>2. batch'[s]["boot"].phase \in {"off", "none"} /\ batch'[s]["tick"].phase = "idle"
    BY <2>1, NewProcess
  <2> QED
    BY <2>2 DEF Kinds
<1>5. CASE Reload
  <2>1. PICK p \in Services : batch' = [batch EXCEPT ![p] = Started(p)]
    BY <1>5 DEF Reload
  <2>2. batch'[p]["boot"].phase = "off" /\ batch'[p]["tick"].phase = "idle"
    BY <2>1, NewService DEF Shape, Batches
  <2>3. p # s => batch'[s] = batch[s]
    BY <2>1 DEF Shape, Batches
  <2> QED
    BY <2>2, <2>3 DEF Kinds
<1>6. ASSUME NEW p \in Services, NEW l \in Kinds,
             StartRun(p, l) \/ \E r \in Results : EndRun(p, l, r)
      PROVE  FALSE
  BY <1>6, StartRunBatch, EndRunBatch, SameClaimsBatches
<1>7. ASSUME NEW p \in Services, NEW l \in Kinds, NEW b, b.phase # "run",
             batch' = [batch EXCEPT ![p][l] = b]
      PROVE  FALSE
  BY <1>7, BatchAlone
<1>8. ASSUME NEW p \in Services, ApplyOutcomes(p) \/ ApplyStartupCatchupOutcomes(p)
                                 \/ LoadAtStart(p) \/ FinishStart(p)
      PROVE  FALSE
  <2>1. Idle.phase # "run" /\ [Idle EXCEPT !.phase = "caughtUp"].phase # "run"
    BY BatchPhases
  <2>2. CASE ApplyOutcomes(p)
    <3>1. batch' = [batch EXCEPT ![p]["tick"] = Idle]
      BY <2>2 DEF ApplyOutcomes
    <3> QED
      BY <1>7, <2>1, <3>1 DEF Kinds
  <2>3. CASE ApplyStartupCatchupOutcomes(p)
    <3> DEFINE b == [Idle EXCEPT !.phase = "caughtUp"]
    <3>1. batch' = [batch EXCEPT ![p]["boot"] = b] /\ b.phase # "run"
      BY <2>1, <2>3 DEF ApplyStartupCatchupOutcomes
    <3> HIDE DEF b
    <3> QED
      BY <1>7, <3>1 DEF Kinds
  <2>4. CASE LoadAtStart(p)
    <3>1. PICK S \in SUBSET Jobs :
             batch' = [batch EXCEPT ![p]["boot"] = [Idle EXCEPT !.phase = "loaded", !.jobs = S]]
      BY <2>4, LoadFacts
    <3> DEFINE b == [Idle EXCEPT !.phase = "loaded", !.jobs = S]
    <3>2. b.phase # "run"
      BY BatchPhases
    <3> HIDE DEF b
    <3> QED
      BY <1>7, <3>1, <3>2 DEF Kinds, b
  <2>5. CASE FinishStart(p)
    <3>1. batch' = [batch EXCEPT ![p]["boot"] = Idle]
      BY <2>5 DEF FinishStart
    <3> QED
      BY <1>7, <2>1, <3>1 DEF Kinds
  <2> QED
    BY <1>8, <2>2, <2>3, <2>4, <2>5
<1>9. ASSUME NEW p \in Services, OnTimer(p) \/ PlanStartupCatchup(p)
      PROVE  p = s
  <2>1. \A q \in Services : q # p => batch'[q] = batch[q]
    BY <1>9 DEF OnTimer, PlanStartupCatchup, Shape, Batches
  <2> QED
    BY <2>1
<1> QED
  BY <1>2, <1>3, <1>4, <1>5, <1>6, <1>8, <1>9 DEF Run

\* The jobs that a batch begins with are there.
LEMMA BegunPresent ==
    ASSUME Shape, SoloOK, NEW s \in Services, OnTimer(s) \/ PlanStartupCatchup(s),
           NEW k \in Kinds, batch'[s][k].phase = "run", batch[s][k].phase # "run",
           NEW j \in batch'[s][k].jobs
    PROVE  /\ Unlocked /\ s = api /\ Boot(api) # "off"
           /\ Present(disk[j]) \/ Present(mem[api][j])
<1>1. CASE OnTimer(s)
  <2>1. timer[s] /\ Unlocked
    BY <1>1 DEF OnTimer
  <2>2. s = api /\ Boot(api) # "off"
    BY <2>1, OnlyService DEF SoloOK
  <2>3. PICK m, due : OnTimerMarks(s, m, due)
    BY <1>1, OnTimerFacts
  <2> DEFINE b == [Idle EXCEPT !.phase = "run", !.jobs = due, !.attached = TRUE]
  <2>4. b.jobs = due
    BY BatchPhases
  <2>5. batch' = [batch EXCEPT ![s]["tick"] = b]
    BY <2>3 DEF OnTimerMarks
  <2> HIDE DEF b
  <2>6. k = "tick" /\ batch'[s][k] = b
    BY <2>5, BatchAlone DEF Kinds
  <2>7. j \in due /\ Present(disk[j])
    BY <2>3, <2>4, <2>6 DEF OnTimerMarks, Marks
  <2> QED
    BY <2>1, <2>2, <2>7
<1>2. CASE PlanStartupCatchup(s)
  <2>1. batch[s]["boot"].phase = "loaded" /\ Unlocked
    BY <1>2 DEF PlanStartupCatchup
  <2>2. s = api /\ Boot(api) # "off"
    BY <2>1, OnlyService DEF SoloOK, Kinds
  <2> DEFINE c == [Idle EXCEPT !.phase = "caughtUp"]
  <2>3. batch' # [batch EXCEPT ![s]["boot"] = c]
    <3>1. c.phase # "run"
      BY BatchPhases
    <3> HIDE DEF c
    <3> QED
      BY <3>1, BatchAlone DEF Kinds
  <2>4. PICK m, S, later : CatchupMarks(s, m, S, later)
    BY <1>2, <2>3, PlanFacts
  <2> DEFINE b == [Idle EXCEPT !.phase = "run", !.jobs = S, !.later = later]
  <2>5. b.jobs = S
    BY BatchPhases
  <2>6. batch' = [batch EXCEPT ![s]["boot"] = b]
    BY <2>4 DEF CatchupMarks
  <2> HIDE DEF b
  <2>7. k = "boot" /\ batch'[s][k] = b
    BY <2>6, BatchAlone DEF Kinds
  <2>8. j \in S /\ Present(mem[api][j])
    BY <2>2, <2>4, <2>5, <2>7 DEF CatchupMarks, Marks
  <2> QED
    BY <2>1, <2>2, <2>8
<1> QED
  BY <1>1, <1>2

-----------------------------------------------------------------------------
(* Slots lie after the last run.  For recurring jobs this holds of every   *)
(* store at every moment: a slot is set one instant after the present or   *)
(* after the end of a run.                                                 *)

Fresh(t, j, r) ==
    /\ IsJob(r) /\ r.at \in Nat /\ r.next \in Nat /\ r.last \in 0..t
    /\ j \notin OneShots /\ r.next # 0 => r.last < r.next
FreshStore(t, m) == m = [j \in Jobs |-> m[j]] /\ \A j \in Jobs : Fresh(t, j, m[j])

FreshStores == FreshStore(now, disk) /\ \A s \in Services : FreshStore(now, mem[s])
DatedRuns ==
    /\ \A s \in Services, k \in Kinds : Dated(now, batch[s][k])
    /\ manual.phase # "none" => manual.started \in 0..now
Past == FreshStores /\ DatedRuns

LEMMA FreshSlot ==
    ASSUME NEW t, NEW j, NEW r, Fresh(t, j, r), NEW x \in Nat,
           j \notin OneShots /\ x # 0 => r.last < x
    PROVE  Fresh(t, j, [r EXCEPT !.next = x])
BY DEF Fresh, IsJob

LEMMA FreshMark ==
    ASSUME NEW t, NEW j, NEW r, Fresh(t, j, r), NEW x \in Nat
    PROVE  /\ Fresh(t, j, [r EXCEPT !.running = x])
           /\ Fresh(t, j, [r EXCEPT !.next = 0, !.running = 0])
BY DEF Fresh, IsJob

LEMMA FreshConfig ==
    ASSUME NEW t, NEW j, NEW r, Fresh(t, j, r),
           NEW h \in {"new", "yes", "gone"}, NEW e \in BOOLEAN, NEW a \in Nat
    PROVE  /\ Fresh(t, j, [r EXCEPT !.here = h, !.enabled = e, !.at = a])
           /\ Fresh(t, j, [r EXCEPT !.enabled = e, !.at = a])
           /\ Fresh(t, j, [r EXCEPT !.at = a])
BY DEF Fresh, IsJob

LEMMA FreshErase ==
    ASSUME NEW t \in Nat, NEW j, NEW r, Fresh(t, j, r)
    PROVE  Fresh(t, j, Erase(r))
<1> DEFINE n == Erase(r)
<1>1. IsJob(n)
  BY EraseFacts DEF Fresh
<1>2. n.at = 0 /\ n.next = 0 /\ n.last = 0
  BY DEF Erase, Fresh, IsJob
<1> HIDE DEF n
<1>3. Fresh(t, j, n)
  BY <1>1, <1>2 DEF Fresh
<1> QED
  BY <1>3 DEF n

LEMMA FreshCompute ==
    ASSUME NEW t \in Nat, NEW j, NEW r, Fresh(t, j, r)
    PROVE  LET x == ComputeJobNextRunAtMs(j, r, t)
           IN  x \in Nat /\ (j \notin OneShots /\ x # 0 => r.last < x)
BY DEF Fresh, ComputeJobNextRunAtMs

LEMMA FreshNormalized ==
    ASSUME NEW t \in Nat, NEW m, FreshStore(t, m)
    PROVE  FreshStore(t, Normalized(m, t))
<1> DEFINE n == Normalized(m, t)
<1>1. ASSUME NEW j \in Jobs
      PROVE  Fresh(t, j, n[j])
  <2>1. \/ n[j] = m[j]
        \/ n[j] = [m[j] EXCEPT !.next = 0, !.running = 0]
        \/ n[j] = [m[j] EXCEPT !.running = 0]
    BY DEF Normalized, NormalizeJobTickState
  <2>2. Fresh(t, j, m[j])
    BY DEF FreshStore
  <2> HIDE DEF n
  <2>3. /\ Fresh(t, j, [m[j] EXCEPT !.next = 0, !.running = 0])
        /\ Fresh(t, j, [m[j] EXCEPT !.running = 0])
    BY <2>2, FreshMark
  <2> QED
    BY <2>1, <2>2, <2>3
<1>2. n = [j \in Jobs |-> n[j]]
  BY DEF Normalized
<1> HIDE DEF n
<1>3. FreshStore(t, n)
  BY <1>1, <1>2 DEF FreshStore
<1> QED
  BY <1>3 DEF n

LEMMA FreshAmong ==
    ASSUME NEW t \in Nat, NEW m, FreshStore(t, m), NEW due
    PROVE  FreshStore(t, RecomputeAmong(due, m, t))
<1> DEFINE n == RecomputeAmong(due, m, t)
<1>1. ASSUME NEW j \in Jobs
      PROVE  Fresh(t, j, n[j])
  <2> DEFINE x == ComputeJobNextRunAtMs(j, m[j], t)
  <2>1. n[j] = m[j] \/ n[j] = [m[j] EXCEPT !.next = x]
    BY DEF RecomputeAmong
  <2>2. Fresh(t, j, m[j])
    BY DEF FreshStore
  <2>3. x \in Nat /\ (j \notin OneShots /\ x # 0 => m[j].last < x)
    BY <2>2, FreshCompute
  <2> HIDE DEF n, x
  <2> QED
    BY <2>1, <2>2, <2>3, FreshSlot
<1>2. n = [j \in Jobs |-> n[j]]
  BY DEF RecomputeAmong
<1> HIDE DEF n
<1>3. FreshStore(t, n)
  BY <1>1, <1>2 DEF FreshStore
<1> QED
  BY <1>3 DEF n

LEMMA FreshRepair ==
    ASSUME NEW t \in Nat, NEW m, FreshStore(t, m), NEW expired
    PROVE  /\ FreshStore(t, RecomputeNextRuns(m, t))
           /\ FreshStore(t, RecomputeNextRunsForMaintenance(m, t, expired))
BY FreshNormalized, FreshAmong DEF RecomputeNextRuns, RecomputeNextRunsForMaintenance

LEMMA FreshResult ==
    ASSUME NEW t \in Nat, NEW j, NEW r, Fresh(t, j, r),
           NEW o, o.ended \in 0..t, o.started \in 0..o.ended
    PROVE  Fresh(t, j, ApplyJobResult(j, r, o))
<1> DEFINE errors == IF o.result = "ok" THEN 0 ELSE Min({r.errors + 1, MaxRetries + 1})
           s == [r EXCEPT !.running = 0, !.last = o.started, !.errors = errors,
                          !.status = IF o.result = "ok" THEN "ok" ELSE "error"]
           retry == o.result = "transient" /\ errors <= MaxRetries
           n == ApplyJobResult(j, r, o)
<1>1. \/ n = Erase(r)
      \/ n = [s EXCEPT !.next = o.ended + 1]
      \/ n = [s EXCEPT !.enabled = FALSE, !.next = 0]
      \/ n = [s EXCEPT !.next = 0]
  BY DEF ApplyJobResult
<1>2. /\ IsJob(s) /\ s.at \in Nat /\ s.last = o.started
  <2> HIDE DEF errors
  <2> QED
    BY DEF Fresh, IsJob
<1> HIDE DEF s, n
<1>3. o.ended \in Nat /\ o.started \in Nat /\ o.started <= o.ended /\ o.ended <= t
  OBVIOUS
<1>4. Fresh(t, j, Erase(r))
  BY FreshErase
<1>5. Fresh(t, j, [s EXCEPT !.next = o.ended + 1])
  BY <1>2, <1>3 DEF Fresh, IsJob
<1>6. Fresh(t, j, [s EXCEPT !.enabled = FALSE, !.next = 0])
  <2> DEFINE q == [s EXCEPT !.enabled = FALSE, !.next = 0]
  <2>1. IsJob(q) /\ q.at = s.at /\ q.next = 0 /\ q.last = s.last
    BY <1>2 DEF IsJob
  <2> HIDE DEF q
  <2>2. Fresh(t, j, q)
    BY <1>2, <1>3, <2>1 DEF Fresh
  <2> QED
    BY <2>2 DEF q
<1>7. Fresh(t, j, [s EXCEPT !.next = 0])
  BY <1>2, <1>3 DEF Fresh, IsJob
<1>8. Fresh(t, j, n)
  BY <1>1, <1>4, <1>5, <1>6, <1>7
<1> QED
  BY <1>8 DEF n

LEMMA FreshOutcomes ==
    ASSUME NEW t \in Nat, NEW m, FreshStore(t, m), NEW done, \A j \in Jobs : Ended(t, done[j])
    PROVE  FreshStore(t, ApplyOutcomesTo(m, done))
<1> DEFINE n == ApplyOutcomesTo(m, done)
<1>1. ASSUME NEW j \in Jobs
      PROVE  Fresh(t, j, n[j])
  <2> DEFINE o == done[j]
             x == ApplyJobResult(j, m[j], o)
  <2>1. n[j] = m[j] \/ (o # NoOutcome /\ n[j] = x)
    BY DEF ApplyOutcomesTo
  <2>2. Fresh(t, j, m[j]) /\ Ended(t, o)
    BY DEF FreshStore
  <2> HIDE DEF n, o
  <2>3. o # NoOutcome => Fresh(t, j, x)
    BY <2>2, FreshResult DEF Ended
  <2> QED
    BY <2>1, <2>2, <2>3
<1>2. n = [j \in Jobs |-> n[j]]
  BY DEF ApplyOutcomesTo
<1> HIDE DEF n
<1>3. FreshStore(t, n)
  BY <1>1, <1>2 DEF FreshStore
<1> QED
  BY <1>3 DEF n

LEMMA FreshChange ==
    ASSUME NEW t, NEW m, FreshStore(t, m), NEW j \in Jobs, NEW r, Fresh(t, j, r)
    PROVE  FreshStore(t, [m EXCEPT ![j] = r])
BY DEF FreshStore

LEMMA FreshMarks ==
    ASSUME NEW t, NEW m, FreshStore(t, m), NEW x \in Nat,
           NEW n, n = [j \in Jobs |-> n[j]],
           \A j \in Jobs : n[j] = m[j] \/ n[j] = [m[j] EXCEPT !.running = x]
    PROVE  FreshStore(t, n)
<1>1. ASSUME NEW j \in Jobs
      PROVE  Fresh(t, j, n[j])
  <2>1. Fresh(t, j, m[j])
    BY DEF FreshStore
  <2>2. Fresh(t, j, [m[j] EXCEPT !.running = x])
    BY <2>1, FreshMark
  <2> QED
    BY <2>1, <2>2
<1> QED
  BY <1>1 DEF FreshStore

LEMMA FreshPersist ==
    ASSUME Shape, FreshStores, NEW s \in Services, NEW m, FreshStore(now, m), Persist(s, m),
           now' = now
    PROVE  FreshStores'
<1>1. mem' = [mem EXCEPT ![s] = m] /\ disk' = StateOnly(m)
  BY DEF Persist
<1>2. \A p \in Services : FreshStore(now, mem'[p])
  BY <1>1 DEF FreshStores, Shape, Stores
<1> DEFINE d == StateOnly(m)
<1>3. ASSUME NEW j \in Jobs
      PROVE  Fresh(now, j, d[j])
  <2> DEFINE o == disk[j]
             e == o.enabled
             a == o.at
  <2>1. d[j] = IF Present(o) THEN [m[j] EXCEPT !.here = "yes", !.enabled = e, !.at = a] ELSE o
    BY DEF StateOnly
  <2>2. Fresh(now, j, o) /\ Fresh(now, j, m[j])
    BY DEF FreshStores, FreshStore
  <2>3. e \in BOOLEAN /\ a \in Nat
    BY <2>2 DEF Fresh, IsJob
  <2> HIDE DEF d, o, e, a
  <2>4. Fresh(now, j, [m[j] EXCEPT !.here = "yes", !.enabled = e, !.at = a])
    BY <2>2, <2>3, FreshConfig
  <2> QED
    BY <2>1, <2>2, <2>4
<1>4. d = [j \in Jobs |-> d[j]]
  BY DEF StateOnly
<1> HIDE DEF d
<1>5. FreshStore(now, d)
  BY <1>3, <1>4 DEF FreshStore
<1> QED
  BY <1>1, <1>2, <1>5 DEF FreshStores, d

LEMMA FreshEdits ==
    ASSUME Shape, FreshStores,
           \/ \E j \in Jobs, t \in 1..MaxTime : Add(j, t)
           \/ \E j \in Jobs, e \in BOOLEAN, t \in 1..MaxTime :
                 Update(j, e, IF j \in OneShots THEN t ELSE 0)
           \/ \E j \in Jobs : Remove(j)
    PROVE  FreshStores'
<1>1. api \in Services /\ now \in Nat /\ FreshStore(now, mem[api]) /\ MaxTime \in Nat
  BY BoundsAssumption DEF Shape, Clocks, FreshStores
<1>2. ASSUME NEW j \in Jobs, NEW t \in 1..MaxTime, Add(j, t)
      PROVE  FreshStores'
  <2> DEFINE at == IF j \in OneShots THEN t ELSE 0
             r == [mem[api][j] EXCEPT !.here = "yes", !.enabled = TRUE, !.at = at]
             m == RecomputeNextRuns([mem[api] EXCEPT ![j] = r], now)
  <2>1. Persist(api, m) /\ now' = now
    BY <1>2 DEF Add
  <2>2. at \in Nat /\ Fresh(now, j, mem[api][j])
    BY <1>1 DEF FreshStore
  <2> HIDE DEF at
  <2>3. Fresh(now, j, r)
    BY <2>2, FreshConfig
  <2> HIDE DEF r
  <2>4. FreshStore(now, m)
    BY <1>1, <2>3, FreshChange, FreshRepair
  <2> HIDE DEF m
  <2> QED
    BY <1>1, <2>1, <2>4, FreshPersist
<1>3. ASSUME NEW j \in Jobs, NEW e \in BOOLEAN, NEW at \in Nat, Update(j, e, at)
      PROVE  FreshStores'
  <2> DEFINE r == [mem[api][j] EXCEPT !.enabled = e, !.at = at]
             x == ComputeJobNextRunAtMs(j, r, now)
             u == IF e THEN [r EXCEPT !.next = x] ELSE [r EXCEPT !.next = 0, !.running = 0]
             m == [mem[api] EXCEPT ![j] = u]
  <2>1. Persist(api, m) /\ now' = now
    BY <1>3 DEF Update
  <2>2. Fresh(now, j, mem[api][j])
    BY <1>1 DEF FreshStore
  <2>3. Fresh(now, j, r)
    BY <2>2, FreshConfig
  <2> HIDE DEF r
  <2>4. x \in Nat /\ (j \notin OneShots /\ x # 0 => r.last < x)
    BY <1>1, <2>3, FreshCompute
  <2> HIDE DEF x
  <2>5. Fresh(now, j, [r EXCEPT !.next = x]) /\ Fresh(now, j, [r EXCEPT !.next = 0, !.running = 0])
    BY <2>3, <2>4, FreshSlot, FreshMark
  <2>6. Fresh(now, j, u)
    BY <2>5
  <2> HIDE DEF u
  <2>7. FreshStore(now, m)
    BY <1>1, <2>6, FreshChange
  <2> HIDE DEF m
  <2> QED
    BY <1>1, <2>1, <2>7, FreshPersist
<1>4. ASSUME NEW j \in Jobs, Remove(j)
      PROVE  FreshStores'
  <2> DEFINE r == Erase(mem[api][j])
             m == [mem[api] EXCEPT ![j] = r]
  <2>1. Persist(api, m) /\ now' = now
    BY <1>4 DEF Remove
  <2>2. Fresh(now, j, r)
    BY <1>1, FreshErase DEF FreshStore
  <2> HIDE DEF r
  <2>3. FreshStore(now, m)
    BY <1>1, <2>2, FreshChange
  <2> HIDE DEF m
  <2> QED
    BY <1>1, <2>1, <2>3, FreshPersist
<1> QED
  BY <1>2, <1>3, <1>4

LEMMA FreshMemory ==
    ASSUME Shape, FreshStores, NEW s \in Services, NEW m, FreshStore(now, m),
           mem' = [mem EXCEPT ![s] = m], UNCHANGED <<now, disk>>
    PROVE  FreshStores'
BY DEF FreshStores, Shape, Stores

LEMMA FreshManual ==
    ASSUME Shape, Past,
           \/ List \/ EnqueueRun \/ PrepareManualRun
           \/ \E j \in Jobs, f \in BOOLEAN : InspectManualRunPreflight(j, f)
           \/ \E r \in Results : FinishPreparedManualRun(r)
    PROVE  FreshStores'
<1>1. api \in Services /\ now \in Nat /\ FreshStores
  BY DEF Shape, Clocks, Past
<1>2. CASE List \/ EnqueueRun \/ \E j \in Jobs, f \in BOOLEAN : InspectManualRunPreflight(j, f)
  <2> DEFINE m == RecomputeNextRunsForMaintenance(mem[api], now, FALSE)
  <2>1. FreshStore(now, m)
    BY <1>1, FreshRepair DEF FreshStores
  <2>2. \/ Persist(api, m) /\ now' = now
        \/ mem' = [mem EXCEPT ![api] = m] /\ UNCHANGED <<now, disk>>
    <3>1. CASE List
      BY <3>1 DEF List
    <3>2. CASE EnqueueRun
      BY <3>2 DEF EnqueueRun, Inspected
    <3>3. CASE \E j \in Jobs, f \in BOOLEAN : InspectManualRunPreflight(j, f)
      BY <3>3 DEF InspectManualRunPreflight, Inspected
    <3> QED
      BY <1>2, <3>1, <3>2, <3>3
  <2> HIDE DEF m
  <2> QED
    BY <1>1, <2>1, <2>2, FreshPersist, FreshMemory
<1>3. CASE PrepareManualRun
  <2> DEFINE s == manual.svc
             j == manual.job
             x == manual.started
             m == [mem[s] EXCEPT ![j].running = x]
  <2>1. manual.phase = "checked" /\ now' = now /\ (Persist(s, m) \/ UNCHANGED <<mem, disk, writing>>)
    BY <1>3 DEF PrepareManualRun
  <2>2. s \in Services /\ j \in Jobs /\ x \in Nat
    BY <2>1 DEF Shape, IsManual
  <2> HIDE DEF s, j, x
  <2>3. FreshStore(now, mem[s]) /\ Fresh(now, j, mem[s][j])
    BY <1>1, <2>2 DEF FreshStores, FreshStore
  <2>4. Fresh(now, j, [mem[s][j] EXCEPT !.running = x])
    BY <2>2, <2>3, FreshMark
  <2>5. FreshStore(now, m)
    <3>1. m = [mem[s] EXCEPT ![j] = [mem[s][j] EXCEPT !.running = x]]
      OBVIOUS
    <3> QED
      BY <2>2, <2>3, <2>4, <3>1, FreshChange
  <2> HIDE DEF m
  <2>6. CASE Persist(s, m)
    BY <1>1, <2>1, <2>2, <2>5, <2>6, FreshPersist
  <2>7. CASE UNCHANGED <<mem, disk, writing>>
    BY <1>1, <2>1, <2>7 DEF FreshStores
  <2> QED
    BY <2>1, <2>6, <2>7
<1>4. ASSUME NEW result, FinishPreparedManualRun(result)
      PROVE  FreshStores'
  <2> DEFINE s == manual.svc
             j == manual.job
             o == [result |-> result, started |-> manual.started, ended |-> now]
             r == ApplyJobResult(j, mem[s][j], o)
             d == disk[j]
             merged == IF ~Present(r) THEN Erase(d)
                       ELSE IF Present(d) THEN [r EXCEPT !.at = d.at] ELSE d
             u == [disk EXCEPT ![j] = merged]
             m == RecomputeNextRunsForMaintenance(u, now, TRUE)
  <2>1. /\ manual.phase = "run" /\ now' = now
        /\ Persist(s, m) \/ UNCHANGED <<mem, disk, writing>>
    BY <1>4 DEF FinishPreparedManualRun
  <2>2. /\ s \in Services /\ j \in Jobs
        /\ o.started = manual.started /\ o.ended = now /\ manual.started \in 0..now
    BY <2>1 DEF Shape, IsManual, Past, DatedRuns
  <2>3. FreshStore(now, disk) /\ Fresh(now, j, d) /\ Fresh(now, j, mem[s][j])
    BY <1>1, <2>2 DEF FreshStores, FreshStore
  <2> HIDE DEF o, s, j
  <2>4. Fresh(now, j, r)
    BY <1>1, <2>2, <2>3, FreshResult
  <2> HIDE DEF r
  <2>5. Fresh(now, j, merged)
    <3>1. Fresh(now, j, Erase(d))
      BY <1>1, <2>3, FreshErase
    <3>2. d.at \in Nat
      BY <2>3 DEF Fresh
    <3> HIDE DEF d
    <3>3. Fresh(now, j, [r EXCEPT !.at = d.at])
      BY <2>4, <3>2, FreshConfig
    <3> QED
      BY <2>3, <3>1, <3>3
  <2> HIDE DEF merged
  <2>6. FreshStore(now, u)
    BY <2>2, <2>3, <2>5, FreshChange
  <2> HIDE DEF u
  <2>7. FreshStore(now, m)
    BY <1>1, <2>6, FreshRepair
  <2> HIDE DEF m
  <2>8. CASE Persist(s, m)
    BY <1>1, <2>1, <2>2, <2>7, <2>8, FreshPersist
  <2>9. CASE UNCHANGED <<mem, disk, writing>>
    BY <1>1, <2>1, <2>9 DEF FreshStores
  <2> QED
    BY <2>1, <2>8, <2>9
<1> QED
  BY <1>2, <1>3, <1>4

LEMMA FreshBatches ==
    ASSUME Shape, Past, NEW s \in Services,
           \/ \E k \in Kinds : StartRun(s, k) \/ \E r \in Results : EndRun(s, k, r)
           \/ OnTimer(s) \/ ApplyOutcomes(s)
    PROVE  FreshStores'
<1>1. now \in Nat /\ FreshStores /\ FreshStore(now, disk)
  BY DEF Shape, Clocks, Past, FreshStores
<1>2. ASSUME NEW k \in Kinds, StartRun(s, k) PROVE FreshStores'
  <2>1. PICK m : Stamps(s, k, m)
    BY <1>2, StartRunStore
  <2>2. FreshStore(now, m)
    BY <1>1, <2>1 DEF Stamps, FreshStores, FreshStore, Fresh, IsStore
  <2>3. UNCHANGED <<now, disk>>
    BY <1>2 DEF StartRun
  <2> QED
    BY <1>1, <2>1, <2>2, <2>3, FreshMemory DEF Stamps
<1>3. ASSUME NEW k \in Kinds, NEW r, EndRun(s, k, r) PROVE FreshStores'
  BY <1>1, <1>3 DEF EndRun, FreshStores
<1>4. CASE OnTimer(s)
  <2> DEFINE due == {j \in Jobs : IsRunnableJob(disk[j], now)}
             n == RecomputeNextRunsForMaintenance(disk, now, TRUE)
             m == [j \in Jobs |-> IF j \in due THEN [disk[j] EXCEPT !.running = now] ELSE disk[j]]
  <2>1. now' = now /\ (Persist(s, n) \/ Persist(s, m))
    BY <1>4 DEF OnTimer
  <2>2. FreshStore(now, n)
    BY <1>1, FreshRepair
  <2>3. /\ m = [j \in Jobs |-> m[j]]
        /\ \A j \in Jobs : m[j] = disk[j] \/ m[j] = [disk[j] EXCEPT !.running = now]
    OBVIOUS
  <2> HIDE DEF n, m
  <2>4. FreshStore(now, m)
    <3>1. ASSUME NEW j \in Jobs
          PROVE  Fresh(now, j, m[j])
      <4>1. Fresh(now, j, disk[j])
        BY <1>1 DEF FreshStore
      <4>2. Fresh(now, j, [disk[j] EXCEPT !.running = now])
        BY <1>1, <4>1, FreshMark
      <4> QED
        BY <2>3, <4>1, <4>2
    <3> QED
      BY <2>3, <3>1 DEF FreshStore
  <2> QED
    BY <1>1, <2>1, <2>2, <2>4, FreshPersist
<1>5. CASE ApplyOutcomes(s)
  <2> DEFINE b == batch[s]["tick"]
             a == ApplyOutcomesTo(disk, b.done)
             m == RecomputeNextRunsForMaintenance(a, now, FALSE)
  <2>1. b.phase = "run" /\ Persist(s, m) /\ now' = now
    BY <1>5 DEF ApplyOutcomes, AllDone
  <2>2. \A j \in Jobs : Ended(now, b.done[j])
    BY <2>1 DEF Past, DatedRuns, Dated, Kinds
  <2> HIDE DEF b
  <2>3. FreshStore(now, a)
    BY <1>1, <2>2, FreshOutcomes
  <2> HIDE DEF a
  <2>4. FreshStore(now, m)
    BY <1>1, <2>3, FreshRepair
  <2> HIDE DEF m
  <2> QED
    BY <1>1, <2>1, <2>4, FreshPersist
<1> QED
  BY <1>2, <1>3, <1>4, <1>5

LEMMA FreshStarts ==
    ASSUME Shape, Past, NEW s \in Services,
           \/ LoadAtStart(s) \/ PlanStartupCatchup(s)
           \/ ApplyStartupCatchupOutcomes(s) \/ FinishStart(s)
    PROVE  FreshStores'
<1>1. now \in Nat /\ FreshStores /\ FreshStore(now, disk) /\ FreshStore(now, mem[s])
  BY DEF Shape, Clocks, Past, FreshStores
<1>2. CASE LoadAtStart(s)
  <2> DEFINE m == [j \in Jobs |-> [disk[j] EXCEPT !.running = 0]]
  <2>1. now' = now /\ Persist(s, m)
    BY <1>2 DEF LoadAtStart
  <2>2. /\ m = [j \in Jobs |-> m[j]]
        /\ \A j \in Jobs : m[j] = disk[j] \/ m[j] = [disk[j] EXCEPT !.running = 0]
    OBVIOUS
  <2> HIDE DEF m
  <2>3. FreshStore(now, m)
    <3>1. ASSUME NEW j \in Jobs
          PROVE  Fresh(now, j, m[j])
      <4>1. Fresh(now, j, disk[j])
        BY <1>1 DEF FreshStore
      <4>2. Fresh(now, j, [disk[j] EXCEPT !.running = 0])
        BY <1>1, <4>1, FreshMark
      <4> QED
        BY <2>2, <4>1, <4>2
    <3> QED
      BY <2>2, <3>1 DEF FreshStore
  <2> QED
    BY <1>1, <2>1, <2>2, <2>3, FreshPersist
<1>3. CASE PlanStartupCatchup(s)
  <2>1. \/ UNCHANGED <<mem, disk, writing>>
        \/ \E S : Persist(s, [j \in Jobs |-> IF j \in S THEN [mem[s][j] EXCEPT !.running = now]
                                            ELSE mem[s][j]])
    BY <1>3 DEF PlanStartupCatchup
  <2>2. now' = now
    BY <1>3 DEF PlanStartupCatchup
  <2>3. CASE UNCHANGED <<mem, disk, writing>>
    BY <1>1, <2>2, <2>3 DEF FreshStores
  <2>4. ASSUME NEW S,
               Persist(s, [j \in Jobs |-> IF j \in S THEN [mem[s][j] EXCEPT !.running = now]
                                          ELSE mem[s][j]])
        PROVE  FreshStores'
    <3> DEFINE m == [j \in Jobs |-> IF j \in S THEN [mem[s][j] EXCEPT !.running = now]
                                    ELSE mem[s][j]]
    <3>1. /\ m = [j \in Jobs |-> m[j]] /\ Persist(s, m)
          /\ \A j \in Jobs : m[j] = mem[s][j] \/ m[j] = [mem[s][j] EXCEPT !.running = now]
      BY <2>4
    <3> HIDE DEF m
    <3>2. FreshStore(now, m)
      BY <1>1, <3>1, FreshMarks
    <3> QED
      BY <1>1, <2>2, <3>1, <3>2, FreshPersist
  <2> QED
    BY <2>1, <2>3, <2>4
<1>4. CASE ApplyStartupCatchupOutcomes(s)
  <2> DEFINE b == batch[s]["boot"]
             a == ApplyOutcomesTo(mem[s], b.done)
             x == now + 1
             d == [j \in Jobs |-> IF j \in b.later /\ Present(a[j]) /\ a[j].enabled
                                  THEN [a[j] EXCEPT !.next = x] ELSE a[j]]
             m == RecomputeNextRunsForMaintenance(d, now, FALSE)
  <2>1. b.phase = "run" /\ Persist(s, m) /\ now' = now
    BY <1>4 DEF ApplyStartupCatchupOutcomes, AllDone
  <2>2. \A j \in Jobs : Ended(now, b.done[j])
    BY <2>1 DEF Past, DatedRuns, Dated, Kinds
  <2> HIDE DEF b
  <2>3. FreshStore(now, a)
    BY <1>1, <2>2, FreshOutcomes
  <2> HIDE DEF a
  <2>4. ASSUME NEW j \in Jobs
        PROVE  Fresh(now, j, d[j])
    <3>1. d[j] = a[j] \/ d[j] = [a[j] EXCEPT !.next = x]
      OBVIOUS
    <3>2. Fresh(now, j, a[j]) /\ x \in Nat /\ a[j].last < x
      BY <1>1, <2>3 DEF FreshStore, Fresh
    <3> HIDE DEF d, x
    <3>3. Fresh(now, j, [a[j] EXCEPT !.next = x])
      BY <3>2, FreshSlot
    <3> QED
      BY <3>1, <3>2, <3>3
  <2>5. d = [j \in Jobs |-> d[j]]
    OBVIOUS
  <2> HIDE DEF d
  <2>6. FreshStore(now, d)
    BY <2>4, <2>5 DEF FreshStore
  <2>7. FreshStore(now, m)
    BY <1>1, <2>6, FreshRepair
  <2> HIDE DEF m
  <2> QED
    BY <1>1, <2>1, <2>7, FreshPersist
<1>5. CASE FinishStart(s)
  <2> DEFINE m == RecomputeNextRuns(mem[s], now)
  <2>1. now' = now /\ (Persist(s, m) \/ UNCHANGED <<mem, disk, writing>>)
    BY <1>5 DEF FinishStart
  <2>2. FreshStore(now, m)
    BY <1>1, FreshRepair
  <2> HIDE DEF m
  <2>3. CASE UNCHANGED <<mem, disk, writing>>
    BY <1>1, <2>1, <2>3 DEF FreshStores
  <2> QED
    BY <1>1, <2>1, <2>2, <2>3, FreshPersist
<1> QED
  BY <1>2, <1>3, <1>4, <1>5

LEMMA FreshNothing ==
    ASSUME NEW t \in Nat
    PROVE  FreshStore(t, NoStore)
<1>1. IsJob(NewJob) /\ NewJob.at = 0 /\ NewJob.next = 0 /\ NewJob.last = 0
  BY DEF NewJob, IsJob
<1>2. NoStore = [j \in Jobs |-> NewJob]
  BY DEF NoStore
<1> QED
  BY <1>1, <1>2 DEF FreshStore, Fresh

LEMMA FreshSurroundings ==
    ASSUME Shape, FreshStores, SaveConfig \/ Crash \/ Reload \/ Tick \/ UNCHANGED vars
    PROVE  FreshStores'
<1>1. now \in Nat
  BY DEF Shape, Clocks
<1>2. CASE SaveConfig
  <2>1. writing \in Services /\ disk' = mem[writing] /\ UNCHANGED <<now, mem>>
    BY <1>2 DEF SaveConfig, Shape, Clocks
  <2> QED
    BY <2>1 DEF FreshStores
<1>3. CASE Crash
  <2>1. mem' = [s \in Services |-> NoStore] /\ UNCHANGED <<now, disk>>
    BY <1>3 DEF Crash
  <2> QED
    BY <1>1, <2>1, FreshNothing DEF FreshStores
<1>4. CASE Reload \/ UNCHANGED vars
  BY <1>4 DEF Reload, vars, FreshStores
<1>5. CASE Tick
  <2>1. now' = now + 1 /\ UNCHANGED <<mem, disk>>
    BY <1>5 DEF Tick
  <2>2. \A j \in Jobs : \A r : Fresh(now, j, r) => Fresh(now + 1, j, r)
    BY <1>1 DEF Fresh
  <2>3. \A m : FreshStore(now, m) => FreshStore(now + 1, m)
    BY <2>2 DEF FreshStore
  <2> QED
    BY <2>1, <2>3 DEF FreshStores
<1> QED
  BY <1>2, <1>3, <1>4, <1>5

LEMMA DatedSection ==
    ASSUME Shape, DatedRuns, NEW s \in Services, NEW k \in Kinds, UNCHANGED now,
           \/ SameClaims(s, k)
           \/ \E b : Dated(now, b) /\ batch' = [batch EXCEPT ![s][k] = b]
    PROVE  \A p \in Services, l \in Kinds : Dated(now', batch'[p][l])
<1>1. PICK b : Dated(now, b) /\ batch' = [batch EXCEPT ![s][k] = b]
  BY DEF SameClaims, DatedRuns
<1> QED
  BY <1>1, BatchAlone DEF DatedRuns

LEMMA NewDated ==
    ASSUME NEW t, NEW S, NEW later
    PROVE  /\ Dated(t, Idle)
           /\ Dated(t, [Idle EXCEPT !.phase = "caughtUp"])
           /\ Dated(t, [Idle EXCEPT !.phase = "loaded", !.jobs = S])
           /\ Dated(t, [Idle EXCEPT !.phase = "run", !.jobs = S, !.attached = TRUE])
           /\ Dated(t, [Idle EXCEPT !.phase = "run", !.jobs = S, !.later = later])
<1>1. Idle.done = [j \in Jobs |-> NoOutcome]
  BY DEF Idle
<1>2. ASSUME NEW b, b.phase # "run" \/ (b.cur = 0 /\ b.done = Idle.done)
      PROVE  Dated(t, b)
  BY <1>1, <1>2 DEF Dated, Ended
<1>3. /\ Idle.phase # "run"
      /\ [Idle EXCEPT !.phase = "caughtUp"].phase # "run"
      /\ [Idle EXCEPT !.phase = "loaded", !.jobs = S].phase # "run"
  BY DEF Idle
<1> DEFINE a == [Idle EXCEPT !.phase = "run", !.jobs = S, !.attached = TRUE]
           c == [Idle EXCEPT !.phase = "run", !.jobs = S, !.later = later]
<1>4. a.cur = 0 /\ a.done = Idle.done /\ c.cur = 0 /\ c.done = Idle.done
  BY DEF Idle
<1> HIDE DEF a, c
<1>5. Dated(t, a) /\ Dated(t, c)
  BY <1>2, <1>4
<1>6. /\ Dated(t, Idle)
      /\ Dated(t, [Idle EXCEPT !.phase = "caughtUp"])
      /\ Dated(t, [Idle EXCEPT !.phase = "loaded", !.jobs = S])
  BY <1>2, <1>3
<1> QED
  BY <1>5, <1>6 DEF a, c

LEMMA DatedServices ==
    ASSUME Shape, DatedRuns, NEW s \in Services, Run(s)
    PROVE  DatedRuns'
<1>1. UNCHANGED <<now, manual>>
  <2>1. CASE \E k \in Kinds : StartRun(s, k) \/ \E r \in Results : EndRun(s, k, r)
    BY <2>1 DEF StartRun, EndRun
  <2>2. CASE OnTimer(s) \/ ApplyOutcomes(s) \/ LoadAtStart(s)
    BY <2>2 DEF OnTimer, ApplyOutcomes, LoadAtStart
  <2>3. CASE PlanStartupCatchup(s) \/ ApplyStartupCatchupOutcomes(s) \/ FinishStart(s)
    BY <2>3 DEF PlanStartupCatchup, ApplyStartupCatchupOutcomes, FinishStart
  <2> QED
    BY <2>1, <2>2, <2>3 DEF Run
<1>2. \/ UNCHANGED batch
      \/ \E k \in Kinds : \/ SameClaims(s, k)
                          \/ \E b : Dated(now, b) /\ batch' = [batch EXCEPT ![s][k] = b]
  <2>1. CASE \E k \in Kinds : StartRun(s, k) \/ \E r \in Results : EndRun(s, k, r)
    BY <2>1, StartRunBatch, EndRunBatch
  <2>2. CASE OnTimer(s)
    <3>1. CASE \E m, due : OnTimerMarks(s, m, due)
      BY <3>1, NewDated DEF OnTimerMarks, Kinds
    <3> QED
      BY <2>2, <3>1, OnTimerFacts
  <2>3. CASE ApplyOutcomes(s)
    <3>1. batch' = [batch EXCEPT ![s]["tick"] = Idle]
      BY <2>3 DEF ApplyOutcomes
    <3> QED
      BY <3>1, NewDated DEF Kinds
  <2>4. CASE LoadAtStart(s)
    BY <2>4, LoadFacts, NewDated DEF Kinds
  <2>5. CASE PlanStartupCatchup(s)
    <3>1. CASE \E m, S, later : CatchupMarks(s, m, S, later)
      BY <3>1, NewDated DEF CatchupMarks, Kinds
    <3>2. CASE batch' = [batch EXCEPT ![s]["boot"] = [Idle EXCEPT !.phase = "caughtUp"]]
      BY <3>2, NewDated DEF Kinds
    <3> QED
      BY <2>5, <3>1, <3>2, PlanFacts
  <2>6. CASE ApplyStartupCatchupOutcomes(s)
    <3>1. batch' = [batch EXCEPT ![s]["boot"] = [Idle EXCEPT !.phase = "caughtUp"]]
      BY <2>6 DEF ApplyStartupCatchupOutcomes
    <3> QED
      BY <3>1, NewDated DEF Kinds
  <2>7. CASE FinishStart(s)
    <3>1. batch' = [batch EXCEPT ![s]["boot"] = Idle]
      BY <2>7 DEF FinishStart
    <3> QED
      BY <3>1, NewDated DEF Kinds
  <2> QED
    BY <2>1, <2>2, <2>3, <2>4, <2>5, <2>6, <2>7 DEF Run
<1>3. \A p \in Services, l \in Kinds : Dated(now', batch'[p][l])
  BY <1>1, <1>2, DatedSection DEF DatedRuns
<1> QED
  BY <1>1, <1>3 DEF DatedRuns

LEMMA NewServiceDated ==
    ASSUME NEW s, NEW t, NEW k \in Kinds
    PROVE  Dated(t, Started(s)[k]) /\ Dated(t, NoService[k])
<1>1. Started(s)[k].phase # "run" /\ NoService[k].phase # "run"
  BY NewService DEF Kinds
<1> QED
  BY <1>1 DEF Dated

LEMMA DatedStep == ASSUME Shape, DatedRuns, [Next]_vars PROVE DatedRuns'
<1>1. CASE \/ \E j \in Jobs, t \in 1..MaxTime : Add(j, t)
           \/ \E j \in Jobs, e \in BOOLEAN, t \in 1..MaxTime :
                 Update(j, e, IF j \in OneShots THEN t ELSE 0)
           \/ \E j \in Jobs : Remove(j)
  <2>1. /\ \A j \in Jobs : \A t : Add(j, t) => UNCHANGED <<now, batch, manual>>
        /\ \A j \in Jobs : \A e, t : Update(j, e, t) => UNCHANGED <<now, batch, manual>>
        /\ \A j \in Jobs : Remove(j) => UNCHANGED <<now, batch, manual>>
    BY DEF Add, Update, Remove
  <2> QED
    BY <1>1, <2>1 DEF DatedRuns
<1>2. CASE List \/ EnqueueRun \/ SaveConfig \/ UNCHANGED vars
  BY <1>2 DEF List, EnqueueRun, SaveConfig, vars, DatedRuns
<1>3. ASSUME NEW j \in Jobs, NEW f \in BOOLEAN, InspectManualRunPreflight(j, f)
      PROVE  DatedRuns'
  <2>1. /\ UNCHANGED <<now, batch>> /\ now \in Nat
        /\ manual' = [phase |-> "checked", job |-> j, svc |-> api, started |-> now]
    BY <1>3 DEF InspectManualRunPreflight, Shape, Clocks
  <2> QED
    BY <2>1 DEF DatedRuns
<1>4. CASE PrepareManualRun
  <2>1. /\ UNCHANGED <<now, batch>> /\ manual.phase = "checked"
        /\ manual' = NoManual \/ manual' = [manual EXCEPT !.phase = "run"]
    BY <1>4 DEF PrepareManualRun
  <2>2. manual'.phase # "none" => manual'.started = manual.started
    BY <2>1 DEF NoManual, Shape, IsManual
  <2> QED
    BY <2>1, <2>2 DEF DatedRuns
<1>5. ASSUME NEW r, FinishPreparedManualRun(r)
      PROVE  DatedRuns'
  <2>1. UNCHANGED now /\ manual.svc \in Services /\ manual'.phase = "none"
    BY <1>5 DEF FinishPreparedManualRun, Shape, IsManual, NoManual
  <2>2. UNCHANGED batch \/ SameClaims(manual.svc, "tick")
    BY <1>5, <2>1, FinishFacts, DetachBatch
  <2>3. \A p \in Services, l \in Kinds : Dated(now', batch'[p][l])
    BY <2>1, <2>2, DatedSection DEF DatedRuns, Kinds
  <2> QED
    BY <2>1, <2>3 DEF DatedRuns
<1>6. CASE \E s \in Services : Run(s)
  BY <1>6, DatedServices
<1>7. CASE Crash
  <2>1. /\ manual'.phase = "none"
        /\ batch' = [s \in Services |-> IF s = 1 THEN Started(s) ELSE NoService]
    BY <1>7 DEF Crash, NoManual
  <2>2. \A p \in Services, l \in Kinds : Dated(now', batch'[p][l])
    BY <2>1, NewServiceDated
  <2> QED
    BY <2>1, <2>2 DEF DatedRuns
<1>8. CASE Reload
  <2>1. /\ UNCHANGED <<now, manual>>
        /\ \E s \in Services : batch' = [batch EXCEPT ![s] = Started(s)]
    BY <1>8 DEF Reload
  <2>2. PICK s \in Services : batch' = [batch EXCEPT ![s] = Started(s)]
    BY <2>1
  <2>3. batch'[s] = Started(s) /\ \A p \in Services : p # s => batch'[p] = batch[p]
    BY <2>2 DEF Shape, Batches
  <2>4. \A p \in Services, l \in Kinds : Dated(now', batch'[p][l])
    BY <2>1, <2>3, NewServiceDated DEF DatedRuns
  <2> QED
    BY <2>1, <2>4 DEF DatedRuns
<1>9. CASE Tick
  <2>1. now' = now + 1 /\ UNCHANGED <<batch, manual>> /\ now \in Nat
    BY <1>9 DEF Tick, Shape, Clocks
  <2>2. \A o : Ended(now, o) => Ended(now + 1, o)
    BY <2>1 DEF Ended
  <2>3. \A b : Dated(now, b) => Dated(now + 1, b)
    BY <2>1, <2>2 DEF Dated
  <2> QED
    BY <2>1, <2>3 DEF DatedRuns
<1> QED
  BY <1>1, <1>2, <1>3, <1>4, <1>5, <1>6, <1>7, <1>8, <1>9 DEF Next

LEMMA PastStep == ASSUME Shape, Past, [Next]_vars PROVE Past'
<1>1. FreshStores'
  <2>1. CASE \/ \E j \in Jobs, t \in 1..MaxTime : Add(j, t)
             \/ \E j \in Jobs, e \in BOOLEAN, t \in 1..MaxTime :
                   Update(j, e, IF j \in OneShots THEN t ELSE 0)
             \/ \E j \in Jobs : Remove(j)
    BY <2>1, FreshEdits DEF Past
  <2>2. CASE \/ List \/ EnqueueRun \/ PrepareManualRun
             \/ \E j \in Jobs, f \in BOOLEAN : InspectManualRunPreflight(j, f)
             \/ \E r \in Results : FinishPreparedManualRun(r)
    BY <2>2, FreshManual
  <2>3. CASE \E s \in Services : Run(s)
    BY <2>3, FreshBatches, FreshStarts DEF Run
  <2>4. CASE SaveConfig \/ Crash \/ Reload \/ Tick \/ UNCHANGED vars
    BY <2>4, FreshSurroundings DEF Past
  <2> QED
    BY <2>1, <2>2, <2>3, <2>4 DEF Next
<1> QED
  BY <1>1, DatedStep DEF Past

LEMMA PastInit == ASSUME Init PROVE Past
<1>1. /\ now = 1 /\ manual.phase = "none" /\ mem = [s \in Services |-> NoStore]
      /\ batch = [s \in Services |-> IF s = 1 THEN Started(s) ELSE NoService]
  BY DEF Init, NoManual
<1>2. PICK stored \in SUBSET Jobs, t \in 1..MaxTime :
         disk = [j \in Jobs |->
                    IF j \notin stored THEN NewJob
                    ELSE IF j \in OneShots
                    THEN [NewJob EXCEPT !.here = "yes", !.enabled = TRUE, !.at = t, !.next = t]
                    ELSE [NewJob EXCEPT !.here = "yes", !.enabled = TRUE, !.next = 1]]
  BY DEF Init
<1>3. t \in Nat
  BY BoundsAssumption
<1>4. ASSUME NEW j \in Jobs
      PROVE  Fresh(1, j, disk[j])
  <2> DEFINE a == [NewJob EXCEPT !.here = "yes", !.enabled = TRUE, !.at = t, !.next = t]
             b == [NewJob EXCEPT !.here = "yes", !.enabled = TRUE, !.next = 1]
  <2>1. Fresh(1, j, NewJob)
    BY FreshNothing DEF FreshStore, NoStore
  <2>2. IsJob(a) /\ a.at = t /\ a.next = t /\ a.last = 0
    BY DEF NewJob, IsJob
  <2>3. IsJob(b) /\ b.at = 0 /\ b.next = 1 /\ b.last = 0
    BY DEF NewJob, IsJob
  <2>4. disk[j] = NewJob \/ (j \in OneShots /\ disk[j] = a) \/ disk[j] = b
    BY <1>2
  <2> HIDE DEF a, b
  <2> QED
    BY <1>3, <2>1, <2>2, <2>3, <2>4 DEF Fresh
<1>5. disk = [j \in Jobs |-> disk[j]]
  BY <1>2
<1>6. FreshStores
  BY <1>1, <1>4, <1>5, FreshNothing DEF FreshStores, FreshStore
<1>7. \A p \in Services, l \in Kinds : Dated(now, batch[p][l])
  BY <1>1, NewServiceDated
<1> QED
  BY <1>1, <1>6, <1>7 DEF Past, DatedRuns
-----------------------------------------------------------------------------
(* Memory and disk agree on the slots, while no service was replaced at    *)
(* work: between two sections the memory has every slot of the disk, and   *)
(* before the config file is written the disk has those of the memory.     *)

SameSlots(m) ==
    \A j \in Jobs : Present(disk[j]) =>
        /\ m[j].enabled = disk[j].enabled
        /\ disk[j].enabled /\ disk[j].next # 0 => m[j].next = disk[j].next
Agree ==
    /\ writing = 0 /\ Boot(api) # "off" => SameSlots(mem[api])
    /\ writing # 0 => \A j \in Jobs : Present(disk[j]) => mem[writing][j].next = disk[j].next

LEMMA PersistSlot ==
    ASSUME Stores, NEW s, NEW m, IsStore(m), Persist(s, m), NEW j \in Jobs, Present(disk[j])
    PROVE  disk'[j].next = m[j].next /\ disk'[j].enabled = disk[j].enabled
<1> DEFINE r == m[j]
           e == disk[j].enabled
           a == disk[j].at
<1>1. disk'[j] = [r EXCEPT !.here = "yes", !.enabled = e, !.at = a]
  BY DEF Persist, StateOnly
<1>2. IsJob(r)
  BY DEF IsStore
<1> HIDE DEF r, e, a
<1>3. disk'[j].next = r.next /\ disk'[j].enabled = e
  BY <1>1, <1>2 DEF IsJob
<1> QED
  BY <1>3 DEF r, e

LEMMA AgreePersist ==
    ASSUME Shape, NEW m, IsStore(m), Persist(api, m), api' = api
    PROVE  Agree'
<1>1. /\ mem'[api'] = m /\ api # 0
      /\ writing' = IF \E j \in Jobs : ConfigOf(disk[j]) # ConfigOf(m[j]) THEN api ELSE 0
  BY BoundsAssumption DEF Persist, Shape, Stores, Clocks
<1>2. ASSUME NEW j \in Jobs, Present(disk'[j])
      PROVE  /\ m[j].next = disk'[j].next
             /\ writing' = 0 => m[j].enabled = disk'[j].enabled
  <2>1. Present(disk[j])
    BY <1>2 DEF Persist, StateOnly
  <2>2. disk'[j].next = m[j].next /\ disk'[j].enabled = disk[j].enabled
    BY <2>1, PersistSlot DEF Shape
  <2> QED
    BY <1>1, <2>2 DEF ConfigOf
<1>3. writing' = 0 => SameSlots(mem[api])'
  BY <1>1, <1>2 DEF SameSlots
<1>4. writing' # 0 =>
         \A j \in Jobs : Present(disk'[j]) => mem'[writing'][j].next = disk'[j].next
  BY <1>1, <1>2
<1> QED
  BY <1>3, <1>4 DEF Agree

\* A store keeps its slots: what it repairs had none.
KeepsSlots(b, m) ==
    \A j \in Jobs : Present(b[j]) =>
        /\ m[j].enabled = b[j].enabled
        /\ b[j].enabled /\ b[j].next # 0 => m[j].next = b[j].next

LEMMA AgreeStays ==
    ASSUME Agree, UNCHANGED <<disk, writing, api>>, Boot(api)' # "off" => Boot(api) # "off",
           writing # 0 => mem' = mem,
           \A j \in Jobs : mem[api][j].here = disk[j].here \/ writing # 0 \/ Boot(api) = "off",
           KeepsSlots(mem[api], mem'[api])
    PROVE  Agree'
<1>1. writing' # 0 =>
         \A j \in Jobs : Present(disk'[j]) => mem'[writing'][j].next = disk'[j].next
  BY DEF Agree
<1>2. ASSUME writing' = 0, Boot(api)' # "off", NEW j \in Jobs, Present(disk[j])
      PROVE  /\ mem'[api][j].enabled = disk[j].enabled
             /\ disk[j].enabled /\ disk[j].next # 0 => mem'[api][j].next = disk[j].next
  <2>1. SameSlots(mem[api]) /\ Present(mem[api][j])
    BY <1>2 DEF Agree, Present
  <2> QED
    BY <1>2, <2>1 DEF SameSlots, KeepsSlots
<1>3. writing' = 0 /\ Boot(api)' # "off" => SameSlots(mem[api])'
  BY <1>2 DEF SameSlots
<1> QED
  BY <1>1, <1>3 DEF Agree

LEMMA NormalizedSlot ==
    ASSUME NEW m, IsStore(m), NEW t, NEW j \in Jobs, m[j].enabled
    PROVE  LET n == Normalized(m, t)[j]
           IN  n.next = m[j].next /\ n.last = m[j].last /\ n.at = m[j].at /\ n.enabled
<1> DEFINE n == Normalized(m, t)[j]
           r == m[j]
<1>1. n = r \/ n = [r EXCEPT !.running = 0]
  BY DEF Normalized, NormalizeJobTickState
<1>2. IsJob(r) /\ r.enabled
  BY DEF IsStore
<1> HIDE DEF n, r
<1>3. n.next = r.next /\ n.last = r.last /\ n.at = r.at /\ n.enabled
  BY <1>1, <1>2 DEF IsJob
<1> QED
  BY <1>3 DEF n, r

\* A repair that is not asked for expired slots moves none.
LEMMA MaintenanceKeeps ==
    ASSUME NEW m, IsStore(m), NEW t, NEW j \in Jobs, m[j].enabled, m[j].next # 0
    PROVE  RecomputeNextRunsForMaintenance(m, t, FALSE)[j].next = m[j].next
<1> DEFINE n == Normalized(m, t)
<1>1. n[j].next = m[j].next
  BY NormalizedSlot
<1> HIDE DEF n
<1>2. RecomputeNextRunsForMaintenance(m, t, FALSE)[j] = n[j]
  BY <1>1 DEF RecomputeNextRunsForMaintenance, RecomputeAmong, n
<1> QED
  BY <1>1, <1>2

\* One that is asked for them moves a slot to none or to a one-shot's own time.
LEMMA MaintenanceMoves ==
    ASSUME NEW m, IsStore(m), NEW t, NEW j \in Jobs, Fresh(t, j, m[j]),
           m[j].enabled, m[j].next # 0
    PROVE  RecomputeNextRunsForMaintenance(m, t, TRUE)[j].next \in {m[j].next, 0, m[j].at}
<1> DEFINE n == Normalized(m, t)
           x == ComputeJobNextRunAtMs(j, n[j], t)
           y == RecomputeNextRunsForMaintenance(m, t, TRUE)[j]
<1>1. n[j].next = m[j].next /\ n[j].last = m[j].last /\ n[j].at = m[j].at /\ IsJob(n[j])
  BY NormalizedSlot, NormalizedRepairs DEF Repairs, IsStore
<1>2. j \in OneShots => x \in {0, m[j].at}
  BY <1>1 DEF ComputeJobNextRunAtMs
<1>3. y = n[j] \/ (y = [n[j] EXCEPT !.next = x] /\ n[j].last >= n[j].next)
  BY <1>1 DEF RecomputeNextRunsForMaintenance, RecomputeAmong
<1> HIDE DEF n, x, y
<1>4. ~(n[j].last >= n[j].next) \/ j \in OneShots
  BY <1>1 DEF Fresh
<1>5. y = [n[j] EXCEPT !.next = x] => y.next = x
  BY <1>1 DEF IsJob
<1>6. y.next \in {m[j].next, 0, m[j].at}
  BY <1>1, <1>2, <1>3, <1>4, <1>5
<1> QED
  BY <1>6 DEF y

LEMMA RepairKeeps ==
    ASSUME NEW m, IsStore(m), NEW t
    PROVE  KeepsSlots(m, RecomputeNextRunsForMaintenance(m, t, FALSE))
<1>1. Repairs(m, RecomputeNextRunsForMaintenance(m, t, FALSE))
  BY MaintenanceRepairs
<1> QED
  BY <1>1, MaintenanceKeeps DEF KeepsSlots, Repairs

\* What a look before a manual run repairs, and whether it is written.
LEMMA LooksRepair ==
    ASSUME \/ List \/ EnqueueRun
           \/ \E j \in Jobs, f \in BOOLEAN : InspectManualRunPreflight(j, f)
    PROVE  LET m == RecomputeNextRunsForMaintenance(mem[api], now, FALSE)
           IN  /\ Unlocked /\ Boot(api) # "off" /\ UNCHANGED <<now, api, batch>>
               /\ \/ Persist(api, m)
                  \/ mem' = [mem EXCEPT ![api] = m] /\ UNCHANGED <<disk, writing>>
<1>1. CASE List
  BY <1>1 DEF List, Boot
<1>2. CASE EnqueueRun
  BY <1>2 DEF EnqueueRun, Inspected, Boot
<1>3. CASE \E j \in Jobs, f \in BOOLEAN : InspectManualRunPreflight(j, f)
  BY <1>3 DEF InspectManualRunPreflight, Inspected, Boot
<1> QED
  BY <1>1, <1>2, <1>3

LEMMA AgreeUntouched ==
    ASSUME Agree, SoloOK, UNCHANGED <<mem, disk, writing, api>>,
           Boot(api)' # "off" => Boot(api) # "off"
    PROVE  Agree'
<1>1. \A j \in Jobs : mem[api][j].here = disk[j].here \/ writing # 0 \/ Boot(api) = "off"
  BY DEF SoloOK, Books
<1>2. KeepsSlots(mem[api], mem'[api])
  BY DEF KeepsSlots
<1> QED
  BY <1>1, <1>2, AgreeStays

LEMMA AgreeManual ==
    ASSUME Shape, SoloOK, Agree,
           \/ List \/ EnqueueRun \/ PrepareManualRun
           \/ \E j \in Jobs, f \in BOOLEAN : InspectManualRunPreflight(j, f)
           \/ \E r \in Results : FinishPreparedManualRun(r)
    PROVE  Agree'
<1>1. CASE List \/ EnqueueRun \/ \E j \in Jobs, f \in BOOLEAN : InspectManualRunPreflight(j, f)
  <2> DEFINE m == RecomputeNextRunsForMaintenance(mem[api], now, FALSE)
  <2>1. /\ Unlocked /\ Boot(api) # "off" /\ UNCHANGED <<now, api, batch>>
        /\ Persist(api, m) \/ (mem' = [mem EXCEPT ![api] = m] /\ UNCHANGED <<disk, writing>>)
    BY <1>1, LooksRepair
  <2>2. IsStore(mem[api]) /\ api \in Services
    BY DEF Shape, Stores, Clocks
  <2>3. IsStore(m) /\ KeepsSlots(mem[api], m)
    BY <2>2, RepairKeeps, MaintenanceRepairs DEF Repairs
  <2> HIDE DEF m
  <2>4. CASE Persist(api, m)
    BY <2>1, <2>3, <2>4, AgreePersist
  <2>5. CASE mem' = [mem EXCEPT ![api] = m] /\ UNCHANGED <<disk, writing>>
    <3>1. mem'[api] = m
      BY <2>2, <2>5 DEF Shape, Stores
    <3>2. \A j \in Jobs : mem[api][j].here = disk[j].here
      BY <2>1 DEF SoloOK, Books, Unlocked
    <3> QED
      BY <2>1, <2>3, <2>5, <3>1, <3>2, AgreeStays DEF Unlocked
  <2> QED
    BY <2>1, <2>4, <2>5
<1>2. CASE PrepareManualRun
  <2>1. manual.phase = "checked" /\ UNCHANGED <<api, batch>>
    BY <1>2 DEF PrepareManualRun
  <2>2. manual.svc = api
    BY <2>1, OnlyService DEF SoloOK
  <2> QED
    BY <1>2, <2>1, <2>2, PrepareFacts, AgreePersist, AgreeUntouched DEF Marks, Boot
<1>3. ASSUME NEW r, FinishPreparedManualRun(r)
      PROVE  Agree'
  <2>1. manual.phase = "run" /\ UNCHANGED api
    BY <1>3 DEF FinishPreparedManualRun
  <2>2. manual.svc = api
    BY <2>1, OnlyService DEF SoloOK
  <2> QED
    BY <1>3, <2>1, <2>2, FinishFacts, AgreePersist, AgreeUntouched DEF Ends, Boot
<1> QED
  BY <1>1, <1>2, <1>3

LEMMA AgreeServices ==
    ASSUME Shape, SoloOK, Agree, NEW s \in Services, Run(s)
    PROVE  Agree'
<1>1. CASE \E k \in Kinds : StartRun(s, k) \/ \E r \in Results : EndRun(s, k, r)
  <2>1. PICK k \in Kinds : StartRun(s, k) \/ \E r \in Results : EndRun(s, k, r)
    BY <1>1
  <2>2. UNCHANGED <<disk, writing, api>>
    BY <2>1 DEF StartRun, EndRun
  <2>3. Boot(api)' = Boot(api)
    BY <2>1, <2>2, StartRunBatch, EndRunBatch, SameBoots DEF Kinds, Shape, Clocks
  <2>4. CASE StartRun(s, k)
    <3>1. PICK m : Stamps(s, k, m)
      BY <2>4, StartRunStore
    <3>2. writing = 0
      BY <2>4 DEF StartRun, Unlocked
    <3>3. KeepsSlots(mem[api], mem'[api])
      BY <3>1 DEF Stamps, Shape, Stores, Clocks, KeepsSlots
    <3>4. \A j \in Jobs : mem[api][j].here = disk[j].here \/ writing # 0 \/ Boot(api) = "off"
      BY DEF SoloOK, Books
    <3> QED
      BY <2>2, <2>3, <3>2, <3>3, <3>4, AgreeStays
  <2>5. CASE \E r \in Results : EndRun(s, k, r)
    <3>1. mem' = mem
      BY <2>5 DEF EndRun
    <3> QED
      BY <2>2, <2>3, <3>1, AgreeUntouched
  <2> QED
    BY <2>1, <2>4, <2>5
<1>2. CASE OnTimer(s)
  <2>1. timer[s] /\ UNCHANGED api
    BY <1>2 DEF OnTimer
  <2>2. s = api
    BY <2>1, OnlyService DEF SoloOK
  <2> QED
    BY <1>2, <2>1, <2>2, OnTimerFacts, AgreePersist DEF OnTimerMarks, Ends, Marks
<1>3. CASE ApplyOutcomes(s)
  <2>1. batch[s]["tick"].phase = "run" /\ UNCHANGED api
    BY <1>3 DEF ApplyOutcomes, AllDone
  <2>2. s = api
    BY <2>1, OnlyService DEF SoloOK, Kinds
  <2> QED
    BY <1>3, <2>1, <2>2, ApplyOutcomesFacts, AgreePersist DEF Ends
<1>4. CASE LoadAtStart(s)
  <2>1. Boot(s) = "off" /\ UNCHANGED api
    BY <1>4 DEF LoadAtStart, Boot
  <2>2. s = api
    BY <2>1, OnlyService DEF SoloOK
  <2> QED
    BY <1>4, <2>1, <2>2, LoadFacts, AgreePersist
<1>5. CASE PlanStartupCatchup(s)
  <2>1. batch[s]["boot"].phase = "loaded" /\ UNCHANGED api
    BY <1>5 DEF PlanStartupCatchup
  <2>2. s = api /\ Boot(api) # "off"
    BY <2>1, OnlyService DEF SoloOK, Kinds
  <2> QED
    BY <1>5, <2>1, <2>2, PlanFacts, AgreePersist, AgreeUntouched DEF CatchupMarks, Marks
<1>6. CASE ApplyStartupCatchupOutcomes(s)
  <2>1. batch[s]["boot"].phase = "run" /\ UNCHANGED api
    BY <1>6 DEF ApplyStartupCatchupOutcomes, AllDone
  <2>2. s = api
    BY <2>1, OnlyService DEF SoloOK, Kinds
  <2> QED
    BY <1>6, <2>1, <2>2, ApplyStartupFacts, AgreePersist DEF Ends
<1>7. CASE FinishStart(s)
  <2>1. batch[s]["boot"].phase = "caughtUp" /\ UNCHANGED api
    BY <1>7 DEF FinishStart
  <2>2. s = api /\ Boot(api) # "off"
    BY <2>1, OnlyService DEF SoloOK, Kinds
  <2> QED
    BY <1>7, <2>1, <2>2, FinishStartFacts, AgreePersist, AgreeUntouched DEF Ends
<1> QED
  BY <1>1, <1>2, <1>3, <1>4, <1>5, <1>6, <1>7 DEF Run

LEMMA AgreeStep == ASSUME Shape, SoloOK, Agree, [Next]_vars, solo' PROVE Agree'
<1>1. CASE \/ \E j \in Jobs, t \in 1..MaxTime : Add(j, t)
           \/ \E j \in Jobs, e \in BOOLEAN, t \in 1..MaxTime :
                 Update(j, e, IF j \in OneShots THEN t ELSE 0)
           \/ \E j \in Jobs : Remove(j)
  <2>1. PICK m : Persist(api, m) /\ Ends(mem[api], m, {})
    BY <1>1, AddFacts, UpdateEnds, RemoveFacts
  <2>2. UNCHANGED api
    <3>1. /\ \A j \in Jobs : \A t : Add(j, t) => UNCHANGED api
          /\ \A j \in Jobs : \A e, t : Update(j, e, t) => UNCHANGED api
          /\ \A j \in Jobs : Remove(j) => UNCHANGED api
      BY DEF Add, Update, Remove
    <3> QED
      BY <1>1, <3>1
  <2> QED
    BY <2>1, <2>2, AgreePersist DEF Ends
<1>2. CASE SaveConfig
  <2>1. /\ writing # 0 /\ disk' = mem[writing] /\ writing' = 0 /\ UNCHANGED <<mem, api>>
    BY <1>2 DEF SaveConfig
  <2>2. writing = api
    BY <2>1, OnlyService DEF SoloOK
  <2> QED
    BY <2>1, <2>2 DEF Agree, SameSlots
<1>3. CASE Crash
  <2>1. /\ api' = 1 /\ writing' = 0
        /\ batch' = [s \in Services |-> IF s = 1 THEN Started(s) ELSE NoService]
    BY <1>3 DEF Crash
  <2>2. Boot(api)' = "off"
    BY <2>1, NewProcess DEF Boot
  <2> QED
    BY <2>1, <2>2 DEF Agree
<1>4. CASE Reload
  <2>1. ~Busy(api) /\ UNCHANGED <<mem, disk, writing>>
    BY <1>4 DEF Reload
  <2>2. PICK s \in Services : api' = s /\ batch' = [batch EXCEPT ![s] = Started(s)]
    BY <1>4 DEF Reload
  <2>3. Boot(api)' = "off"
    BY <2>2, NewService DEF Boot, Shape, Batches
  <2>4. writing = 0
    BY <2>1 DEF Busy, SoloOK, Quiet
  <2> QED
    BY <2>1, <2>3, <2>4 DEF Agree
<1>5. CASE Tick \/ UNCHANGED vars
  <2>1. UNCHANGED <<mem, disk, writing, api, batch>>
    BY <1>5 DEF Tick, vars
  <2> QED
    BY <2>1, AgreeUntouched DEF Boot
<1> QED
  BY <1>1, <1>2, <1>3, <1>4, <1>5, AgreeManual, AgreeServices DEF Next
-----------------------------------------------------------------------------
(* Slots that have come.                                                   *)

\* What Slipped says of a job before the step.
LEMMA Waiting ==
    ASSUME Shape, FreshStores, NEW j \in Jobs, Slipped(j)
    PROVE  /\ Present(disk[j]) /\ disk[j].enabled /\ disk[j].next # 0 /\ disk[j].next <= now
           /\ Claims(j) = 0 /\ IsRunnableJob(disk[j], now) /\ disk[j].next \in Nat
BY DEF Slipped, IsRunnableJob, Due, FreshStores, FreshStore, Fresh

LEMMA NotMoved ==
    ASSUME Shape, FreshStores, NEW j \in Jobs, Slipped(j),
           disk'[j].next \in {disk[j].next, 0, disk[j].at}
    PROVE  FALSE
<1>1. disk[j].next \in Nat
  BY DEF FreshStores, FreshStore, Fresh
<1> QED
  BY <1>1 DEF Slipped

LEMMA NotMovedBy ==
    ASSUME Shape, FreshStores, NEW j \in Jobs, Slipped(j), NEW s, NEW m, IsStore(m),
           Persist(s, m), m[j].next \in {disk[j].next, 0, disk[j].at}
    PROVE  FALSE
<1>1. Present(disk[j])
  BY Waiting
<1>2. disk'[j].next = m[j].next
  BY <1>1, PersistSlot DEF Shape
<1> QED
  BY <1>2, NotMoved

\* Between two sections the memory has the slot too.
LEMMA InMemory ==
    ASSUME Shape, Past, SoloOK, Agree, Unlocked, Boot(api) # "off",
           NEW j \in Jobs, Slipped(j)
    PROVE  /\ Present(mem[api][j]) /\ mem[api][j].enabled
           /\ mem[api][j].next = disk[j].next /\ disk[j].next # 0
<1>1. Present(disk[j]) /\ disk[j].enabled /\ disk[j].next # 0
  BY Waiting DEF Past
<1> QED
  BY <1>1 DEF Agree, SameSlots, SoloOK, Books, Unlocked, Present

LEMMA SlotAtEdits ==
    ASSUME Shape, Past, SoloOK, Agree, NEW j \in Jobs, Slipped(j)
    PROVE  /\ ~\E i \in Jobs : Remove(i)
           /\ \A i \in Jobs, e \in BOOLEAN : \A t : Update(i, e, t) => i = j
<1>1. FreshStores /\ api \in Services /\ IsStore(mem[api]) /\ IsStore(disk)
  BY DEF Past, Shape, Stores, Clocks
<1>2. ASSUME NEW i \in Jobs, Remove(i) PROVE FALSE
  <2> DEFINE r == Erase(mem[api][i])
             m == [mem[api] EXCEPT ![i] = r]
  <2>1. Unlocked /\ Boot(api) # "off" /\ Persist(api, m)
    BY <1>2 DEF Remove, Boot
  <2>2. mem[api][j].next = disk[j].next
    BY <2>1, InMemory
  <2>3. r.next = 0 /\ IsJob(r) /\ r.running = 0
    <3>1. IsJob(mem[api][i])
      BY <1>1 DEF IsStore
    <3>2. r.next = 0
      BY <3>1 DEF IsJob, Erase
    <3> QED
      BY <3>1, <3>2, EraseFacts
  <2> HIDE DEF r
  <2>4. IsStore(m) /\ m[j].next \in {disk[j].next, 0}
    BY <1>1, <2>2, <2>3, StoreChange DEF IsStore
  <2> HIDE DEF m
  <2> QED
    BY <1>1, <2>1, <2>4, NotMovedBy
<1>3. ASSUME NEW i \in Jobs, NEW e \in BOOLEAN, NEW t, Update(i, e, t), i # j PROVE FALSE
  <2> DEFINE r == [mem[api][i] EXCEPT !.enabled = e, !.at = t]
             u == IF e THEN [r EXCEPT !.next = ComputeJobNextRunAtMs(i, r, now)]
                  ELSE [r EXCEPT !.next = 0, !.running = 0]
             m == [mem[api] EXCEPT ![i] = u]
  <2>1. Unlocked /\ Boot(api) # "off" /\ Persist(api, m)
    BY <1>3 DEF Update, Boot
  <2> HIDE DEF u
  <2>2. m[j] = mem[api][j]
    BY <1>1, <1>3 DEF IsStore
  <2>3. mem[api][j].next = disk[j].next
    BY <2>1, InMemory
  <2>4. PICK n : IsStore(n) /\ Persist(api, n)
    BY <1>3, UpdateFacts
  <2> HIDE DEF m
  <2>5. n = m
    BY <1>1, <2>1, <2>4 DEF Persist, Shape, Stores
  <2> QED
    BY <1>1, <2>2, <2>3, <2>4, <2>5, NotMovedBy
<1> QED
  BY <1>2, <1>3

LEMMA SlotAtManual ==
    ASSUME Shape, Past, SoloOK, Agree, NEW j \in Jobs, Slipped(j)
    PROVE  /\ ~(List \/ EnqueueRun \/ PrepareManualRun)
           /\ ~\E i \in Jobs, f \in BOOLEAN : InspectManualRunPreflight(i, f)
           /\ ~\E r \in Results : FinishPreparedManualRun(r)
<1>1. FreshStores /\ api \in Services /\ IsStore(mem[api]) /\ IsStore(disk)
  BY DEF Past, Shape, Stores, Clocks
<1>2. /\ Present(disk[j]) /\ disk[j].enabled /\ disk[j].next # 0 /\ Claims(j) = 0
      /\ Fresh(now, j, disk[j])
  BY <1>1, Waiting DEF FreshStores, FreshStore
<1>3. disk'[j].next # disk[j].next
  BY <1>1, NotMoved
<1>4. ASSUME \/ List \/ EnqueueRun
             \/ \E i \in Jobs, f \in BOOLEAN : InspectManualRunPreflight(i, f)
      PROVE  FALSE
  <2> DEFINE m == RecomputeNextRunsForMaintenance(mem[api], now, FALSE)
  <2>1. /\ Unlocked /\ Boot(api) # "off"
        /\ Persist(api, m) \/ UNCHANGED disk
    BY <1>4, LooksRepair
  <2>2. Persist(api, m)
    BY <1>3, <2>1
  <2>3. mem[api][j].enabled /\ mem[api][j].next = disk[j].next
    BY <2>1, InMemory
  <2>4. m[j].next = disk[j].next
    BY <1>1, <1>2, <2>3, MaintenanceKeeps
  <2>5. IsStore(m)
    BY <1>1, MaintenanceRepairs DEF Repairs
  <2> HIDE DEF m
  <2> QED
    BY <1>1, <2>2, <2>4, <2>5, NotMovedBy
<1>5. CASE PrepareManualRun
  <2> DEFINE i == manual.job
             x == manual.started
             m == [mem[api] EXCEPT ![i].running = x]
  <2>1. Unlocked /\ manual.phase = "checked"
    BY <1>5 DEF PrepareManualRun
  <2>2. manual.svc = api /\ Boot(api) # "off" /\ i \in Jobs
    BY <2>1, OnlyService DEF SoloOK, Shape, IsManual
  <2>3. Persist(api, m)
    BY <1>3, <1>5, <2>2 DEF PrepareManualRun
  <2>4. PICK n : Persist(api, n) /\ IsStore(n)
    BY <1>3, <1>5, <2>2, PrepareFacts DEF Marks
  <2> HIDE DEF x, i
  <2>5. m[j].next = mem[api][j].next
    BY <1>1, <2>2 DEF IsStore, IsJob
  <2>6. mem[api][j].next = disk[j].next
    BY <2>1, <2>2, InMemory
  <2> HIDE DEF m
  <2>7. n = m
    BY <1>1, <2>3, <2>4 DEF Persist, Shape, Stores
  <2> QED
    BY <1>1, <2>4, <2>5, <2>6, <2>7, NotMovedBy
<1>6. ASSUME NEW result, FinishPreparedManualRun(result) PROVE FALSE
  <2> DEFINE i == manual.job
             o == [result |-> result, started |-> manual.started, ended |-> now]
             r == ApplyJobResult(i, mem[api][i], o)
             merged == IF ~Present(r) THEN Erase(disk[i])
                       ELSE IF Present(disk[i]) THEN [r EXCEPT !.at = disk[i].at] ELSE disk[i]
             u == [disk EXCEPT ![i] = merged]
             m == RecomputeNextRunsForMaintenance(u, now, TRUE)
  <2>1. manual.phase = "run"
    BY <1>6 DEF FinishPreparedManualRun
  <2>2. manual.svc = api /\ i \in Jobs
    BY <2>1, OnlyService DEF SoloOK, Shape, IsManual
  <2>3. i # j
    <3>1. ~Claimed(j)
      BY <1>2, ClaimsFacts DEF SoloOK
    <3> QED
      BY <2>1, <3>1 DEF Claimed, InManual
  <2>4. Persist(api, m)
    BY <1>3, <1>6, <2>2 DEF FinishPreparedManualRun
  <2>5. PICK n : Persist(api, n) /\ IsStore(n)
    BY <1>3, <1>6, <2>2, FinishFacts DEF Ends
  <2>6. IsStore(u)
    <3>1. IsJob(disk[i]) /\ IsJob(mem[api][i])
      BY <1>1, <2>2 DEF IsStore
    <3>2. IsJob(r) /\ r.running = 0
      BY <3>1, ResultFacts
    <3> HIDE DEF r
    <3>3. IsJob(Erase(disk[i])) /\ Erase(disk[i]).running = 0
      BY <3>1, EraseFacts
    <3> DEFINE a == disk[i].at
               c == [r EXCEPT !.at = a]
    <3>4. IsJob(c) /\ c.running = 0
      <4> HIDE DEF a
      <4> QED
        BY <3>2 DEF IsJob
    <3>5. merged \in {Erase(disk[i]), c, disk[i]}
      OBVIOUS
    <3> HIDE DEF merged, c
    <3>6. IsJob(merged) /\ (merged.running # 0 => Present(merged))
      BY <1>1, <2>2, <3>1, <3>3, <3>4, <3>5 DEF IsStore
    <3> QED
      BY <1>1, <2>2, <3>6, StoreChange
  <2> HIDE DEF merged
  <2>7. u[j] = disk[j]
    BY <1>1, <2>3 DEF IsStore
  <2> HIDE DEF u
  <2>8. m[j].next \in {disk[j].next, 0, disk[j].at}
    <3>1. Fresh(now, j, u[j]) /\ u[j].enabled /\ u[j].next # 0
      BY <1>2, <2>7
    <3>2. m[j].next \in {u[j].next, 0, u[j].at}
      BY <2>6, <3>1, MaintenanceMoves
    <3> QED
      BY <2>7, <3>2
  <2> HIDE DEF m
  <2>9. n = m
    BY <1>1, <2>4, <2>5 DEF Persist, Shape, Stores
  <2> QED
    BY <1>1, <2>5, <2>8, <2>9, NotMovedBy
<1> QED
  BY <1>4, <1>5, <1>6

LEMMA SlotAtServices ==
    ASSUME Shape, Past, SoloOK, Agree, NEW j \in Jobs, Slipped(j), NEW s \in Services, Run(s)
    PROVE  ApplyStartupCatchupOutcomes(s) \/ FinishStart(s)
<1>1. FreshStores /\ api \in Services /\ IsStore(mem[s]) /\ IsStore(disk)
  BY DEF Past, Shape, Stores, Clocks
<1>2. /\ Present(disk[j]) /\ disk[j].enabled /\ disk[j].next # 0 /\ Claims(j) = 0
      /\ IsRunnableJob(disk[j], now)
  BY <1>1, Waiting
<1>3. disk'[j].next # disk[j].next
  BY <1>1, NotMoved
<1>4. ASSUME NEW k \in Kinds, StartRun(s, k) \/ \E r \in Results : EndRun(s, k, r) PROVE FALSE
  BY <1>3, <1>4 DEF StartRun, EndRun
<1>5. CASE OnTimer(s)
  <2> DEFINE due == {i \in Jobs : IsRunnableJob(disk[i], now)}
             m == [i \in Jobs |-> IF i \in due THEN [disk[i] EXCEPT !.running = now] ELSE disk[i]]
  <2>1. j \in due
    BY <1>2
  <2>2. Persist(s, m)
    BY <1>5, <2>1 DEF OnTimer
  <2>3. due \in SUBSET Jobs /\ \A i \in due : Present(disk[i]) /\ disk[i].running = 0
    BY DEF IsRunnableJob, Due
  <2> HIDE DEF due
  <2>4. now \in Nat \ {0}
    BY DEF Shape, Clocks
  <2>5. Marks(disk, m, due)
    BY <1>1, <2>3, <2>4, MarkedStore
  <2>6. m[j].next = disk[j].next
    <3>1. IsJob(disk[j])
      BY <1>1 DEF IsStore
    <3> QED
      BY <2>1, <3>1 DEF IsJob
  <2> HIDE DEF m
  <2> QED
    BY <1>1, <2>2, <2>5, <2>6, NotMovedBy DEF Marks
<1>6. CASE ApplyOutcomes(s)
  <2> DEFINE b == batch[s]["tick"]
             a == ApplyOutcomesTo(disk, b.done)
             m == RecomputeNextRunsForMaintenance(a, now, FALSE)
  <2>1. b.phase = "run" /\ Persist(s, m)
    BY <1>6 DEF ApplyOutcomes, AllDone
  <2>2. s = api
    BY <2>1, OnlyService DEF SoloOK, Kinds
  <2>3. j \notin b.jobs
    <3>1. ~Claimed(j)
      BY <1>2, ClaimsFacts DEF SoloOK
    <3> QED
      BY <2>1, <2>2, <3>1 DEF Claimed, InBatch
  <2>4. b.done[j] = NoOutcome
    BY <2>1, <2>3 DEF Shape, Batches, Kinds, IsBatch
  <2> HIDE DEF b
  <2>5. IsStore(a) /\ a[j] = disk[j]
    BY <1>1, <2>4, OutcomesFacts
  <2> HIDE DEF a
  <2>6. m[j].next = disk[j].next /\ IsStore(m)
    <3>1. a[j].enabled /\ a[j].next # 0
      BY <1>2, <2>5
    <3>2. m[j].next = a[j].next
      BY <2>5, <3>1, MaintenanceKeeps
    <3>3. IsStore(m)
      BY <2>5, MaintenanceRepairs DEF Repairs
    <3> QED
      BY <2>5, <3>2, <3>3
  <2> HIDE DEF m
  <2> QED
    BY <1>1, <2>1, <2>6, NotMovedBy
<1>7. CASE LoadAtStart(s)
  <2> DEFINE m == [i \in Jobs |-> [disk[i] EXCEPT !.running = 0]]
  <2>1. Persist(s, m)
    BY <1>7 DEF LoadAtStart
  <2>2. PICK n : Persist(s, n) /\ IsStore(n)
    BY <1>7, LoadFacts
  <2>3. m[j].next = disk[j].next
    BY <1>1 DEF IsStore, IsJob
  <2> HIDE DEF m
  <2>4. n = m
    BY <2>1, <2>2 DEF Persist, Shape, Stores
  <2> QED
    BY <1>1, <2>2, <2>3, <2>4, NotMovedBy
<1>8. CASE PlanStartupCatchup(s)
  <2>1. batch[s]["boot"].phase = "loaded" /\ Unlocked
    BY <1>8 DEF PlanStartupCatchup
  <2>2. s = api /\ Boot(api) # "off"
    BY <2>1, OnlyService DEF SoloOK, Kinds
  <2>3. PICK S : Persist(s, [i \in Jobs |-> IF i \in S THEN [mem[s][i] EXCEPT !.running = now]
                                            ELSE mem[s][i]])
    BY <1>3, <1>8 DEF PlanStartupCatchup
  <2> DEFINE m == [i \in Jobs |-> IF i \in S THEN [mem[s][i] EXCEPT !.running = now]
                                  ELSE mem[s][i]]
  <2>4. PICK n : Persist(s, n) /\ IsStore(n)
    BY <1>3, <1>8, PlanFacts DEF CatchupMarks, Marks
  <2>5. m[j].next = mem[s][j].next
    <3>1. IsJob(mem[s][j])
      BY <1>1 DEF IsStore
    <3> QED
      BY <3>1 DEF IsJob
  <2>6. Persist(s, m)
    BY <2>3
  <2> HIDE DEF m
  <2>7. n = m
    BY <2>4, <2>6 DEF Persist, Shape, Stores
  <2>8. mem[s][j].next = disk[j].next
    BY <2>1, <2>2, InMemory
  <2> QED
    BY <1>1, <2>4, <2>5, <2>7, <2>8, NotMovedBy
<1> QED
  BY <1>4, <1>5, <1>6, <1>7, <1>8 DEF Run

LEMMA SlotAtSurroundings ==
    ASSUME Shape, Past, SoloOK, Agree, NEW j \in Jobs, Slipped(j)
    PROVE  ~(SaveConfig \/ Crash \/ Reload \/ Tick)
<1>1. FreshStores
  BY DEF Past
<1>2. disk'[j].next # disk[j].next /\ Present(disk[j])
  BY <1>1, NotMoved, Waiting
<1>3. SaveConfig => disk'[j].next = disk[j].next
  BY <1>2 DEF SaveConfig, Agree
<1> QED
  BY <1>2, <1>3 DEF Crash, Reload, Tick

LEMMA SlotKept ==
    ASSUME Shape, Past, SoloOK, Agree, Next, NEW j \in Jobs, Slipped(j)
    PROVE  \/ \E t \in 1..MaxTime, i \in Jobs : Add(i, t)
           \/ \E e \in BOOLEAN, t \in Times : Update(j, e, t)
           \/ \E s \in Services : ApplyStartupCatchupOutcomes(s) \/ FinishStart(s)
<1>1. ASSUME NEW i \in Jobs, NEW e \in BOOLEAN, NEW t \in 1..MaxTime,
             Update(i, e, IF i \in OneShots THEN t ELSE 0)
      PROVE  \E f \in BOOLEAN, x \in Times : Update(j, f, x)
  <2> DEFINE x == IF i \in OneShots THEN t ELSE 0
  <2>1. x \in Times
    BY BoundsAssumption DEF Times
  <2> HIDE DEF x
  <2>2. Update(i, e, x)
    BY <1>1 DEF x
  <2>3. i = j
    BY <2>2, SlotAtEdits
  <2> QED
    BY <2>1, <2>2, <2>3
<1>2. ~\E i \in Jobs : Remove(i)
  BY SlotAtEdits
<1> QED
  BY <1>1, <1>2, SlotAtManual, SlotAtServices, SlotAtSurroundings DEF Next
-----------------------------------------------------------------------------
(* The theorems.                                                           *)

\* The inductive invariant: the shape of the state, the timer, and the books
\* of the one service as long as none was replaced at work (IInv).
THEOREM SchedulerInvariant == Spec => []IInv
<1>1. Init => IInv
  <2> SUFFICES ASSUME Init PROVE IInv
    OBVIOUS
  <2>1. /\ api = 1 /\ writing = 0 /\ manual = NoManual /\ timer = [s \in Services |-> FALSE]
        /\ batch = [s \in Services |-> IF s = 1 THEN Started(s) ELSE NoService]
    BY DEF Init
  <2>2. SoloOK
    BY <2>1, FreshSolo
  <2>3. SchedulerAlive
    BY <2>1, NewProcess DEF SchedulerAlive
  <2> QED
    BY <2>2, <2>3, ShapeInit DEF IInv
<1>2. IInv /\ [Next]_vars => IInv'
  <2> SUFFICES ASSUME IInv, [Next]_vars PROVE IInv'
    OBVIOUS
  <2>1. Shape' /\ SchedulerAlive'
    BY ShapeStep, AliveStep DEF IInv
  <2>2. solo' => SoloOK'
    BY SoloStep DEF IInv
  <2> QED
    BY <2>1, <2>2 DEF IInv
<1> QED
  BY <1>1, <1>2, PTL DEF Spec

\* Ticks, the catch-up and manual runs never hold two runs of one job, unless
\* a section took away the marker of the first or a service was replaced at
\* work (OneRunPerJob: collectRunnableJobs, runMissedJobs and prepareManualRun
\* look for the marker and set it in one section of `locked`).
THEOREM JobsRunOnce == Spec => []OneRunPerJob
<1>1. IInv => OneRunPerJob
  <2> SUFFICES ASSUME IInv, solo, NEW j \in Jobs PROVE Claims(j) <= 1 \/ j \in dropped
    BY DEF OneRunPerJob
  <2>1. Shape /\ Quiet /\ (Once(j) \/ j \in dropped)
    BY DEF IInv, SoloOK
  <2> QED
    BY <2>1, ClaimsFacts
<1> QED
  BY <1>1, SchedulerInvariant, PTL

\* A marker on disk belongs to a run, or the service has still to load the
\* store and to clear it (MarkersHaveRuns: runningAtMs is cleared by the
\* section that applies the outcome, and by start).
THEOREM MarkersBelongToRuns == Spec => []MarkersHaveRuns
<1>1. IInv => MarkersHaveRuns
  <2> SUFFICES ASSUME IInv, NEW j \in Jobs, solo, disk[j].running # 0
               PROVE  Claims(j) > 0 \/ \E s \in Services : batch[s]["boot"].phase = "off"
    BY DEF MarkersHaveRuns
  <2>1. Shape /\ Quiet /\ Books /\ api \in Services
    BY DEF IInv, SoloOK, Shape, Clocks
  <2>2. CASE Boot(api) = "off"
    BY <2>1, <2>2 DEF Boot
  <2>3. CASE Boot(api) # "off"
    BY <2>1, <2>3, ClaimsFacts DEF Books, Backed
  <2> QED
    BY <2>2, <2>3
<1> QED
  BY <1>1, SchedulerInvariant, PTL

\* A started service with an enabled job has its timer set, whatever was
\* reloaded and when (SchedulerAlive: every section that may enable a job, and
\* every tick, ends with armTimer).
THEOREM TimerStaysSet == Spec => []SchedulerAlive
<1>1. IInv => SchedulerAlive
  BY DEF IInv
<1> QED
  BY <1>1, SchedulerInvariant, PTL

\* A one-shot that has succeeded or was removed is not taken up again, crash
\* or no crash, when one-shots are deleted after their success, which is the
\* code's default (FinishedStaysFinished: applyJobResult deletes the job, and a
\* job that is gone from the config file has no state either).
THEOREM FinishedForGood ==
    ASSUME OneShots = DeleteAfterRun
    PROVE  Spec => FinishedStaysFinished
<1> DEFINE A == \A s \in Services, k \in Kinds :
                   batch'[s][k].phase = "run" /\ batch[s][k].phase # "run" /\ solo =>
                       batch'[s][k].jobs \cap over = {}
           J == solo => OverOK
<1>1. Init => J
  <2> SUFFICES ASSUME Init PROVE OverOK
    OBVIOUS
  <2>1. /\ over = {} /\ api = 1
        /\ batch = [s \in Services |-> IF s = 1 THEN Started(s) ELSE NoService]
    BY DEF Init
  <2> QED
    BY <2>1 DEF OverOK
<1>2. IInv /\ J /\ [Next]_vars => J'
  <2> SUFFICES ASSUME IInv, J, [Next]_vars, solo' PROVE OverOK'
    OBVIOUS
  <2>1. solo /\ SoloOK
    BY SoloKept DEF IInv
  <2> QED
    BY <2>1, OverStep DEF IInv
<1>3. IInv /\ J /\ [Next]_vars => [A]_vars
  <2> SUFFICES ASSUME IInv, J, Next, solo, NEW s \in Services, NEW k \in Kinds,
                      batch'[s][k].phase = "run", batch[s][k].phase # "run",
                      NEW j \in batch'[s][k].jobs, j \in over
               PROVE  FALSE
    BY DEF IInv
  <2>1. Shape /\ SoloOK /\ OverOK
    BY DEF IInv
  <2>2. OnTimer(s) \/ PlanStartupCatchup(s)
    BY <2>1, BatchBegins
  <2>3. /\ Unlocked /\ Boot(api) # "off"
        /\ Present(disk[j]) \/ Present(mem[api][j])
    BY <2>1, <2>2, BegunPresent
  <2> QED
    BY <2>1, <2>3, OverGone DEF Present
<1> QED
  BY <1>1, <1>2, <1>3, SchedulerInvariant, PTL DEF Spec, FinishedStaysFinished

\* A slot that has come is moved by nothing but an edit of the job, an addition
\* or a starting service (SlotsNotSkipped: recomputeNextRunsForMaintenance
\* moves an expired slot only if the job ran since).
THEOREM SlotsStay == Spec => SlotsNotSkipped
<1> DEFINE A == \A j \in Jobs : Slipped(j) =>
                  \/ \E t \in 1..MaxTime, i \in Jobs : Add(i, t)
                  \/ \E e \in BOOLEAN, t \in Times : Update(j, e, t)
                  \/ \E s \in Services : ApplyStartupCatchupOutcomes(s) \/ FinishStart(s)
           J == Past /\ (solo => Agree)
<1>1. Init => J
  <2> SUFFICES ASSUME Init PROVE Agree
    BY PastInit
  <2>1. /\ writing = 0 /\ api = 1
        /\ batch = [s \in Services |-> IF s = 1 THEN Started(s) ELSE NoService]
    BY DEF Init
  <2>2. Boot(api) = "off"
    BY <2>1, NewProcess DEF Boot
  <2> QED
    BY <2>1, <2>2 DEF Agree
<1>2. IInv /\ J /\ [Next]_vars => J'
  <2> SUFFICES ASSUME IInv, J, [Next]_vars PROVE J'
    OBVIOUS
  <2>1. Past'
    BY PastStep DEF IInv
  <2>2. solo' => Agree'
    BY SoloKept, AgreeStep DEF IInv
  <2> QED
    BY <2>1, <2>2
<1>3. IInv /\ J /\ [Next]_vars => [A]_vars
  <2> SUFFICES ASSUME IInv, J, Next, NEW j \in Jobs, Slipped(j)
               PROVE  \/ \E t \in 1..MaxTime, i \in Jobs : Add(i, t)
                      \/ \E e \in BOOLEAN, t \in Times : Update(j, e, t)
                      \/ \E s \in Services : ApplyStartupCatchupOutcomes(s) \/ FinishStart(s)
    OBVIOUS
  <2>1. solo
    BY DEF Slipped
  <2> QED
    BY <2>1, SlotKept DEF IInv
<1> QED
  BY <1>1, <1>2, <1>3, SchedulerInvariant, PTL DEF Spec, SlotsNotSkipped

=============================================================================

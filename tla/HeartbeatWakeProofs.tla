------------------------- MODULE HeartbeatWakeProofs -------------------------
(***************************************************************************)
(* Proofs about HeartbeatWake, for any targets, delays and configs and any *)
(* number of runners and requests: what becomes of each wake, how many     *)
(* batches overlap, who is registered, and that heartbeats go on.          *)
(***************************************************************************)
EXTENDS HeartbeatWake, FiniteSetTheorems, TLAPS

\* Runners are started in order.
StartedOK ==
    /\ Newest \in 0..MaxRunners
    /\ \A r \in Runners : runner[r] # "new" <=> r <= Newest

HandlerOK ==
    /\ handler \in {0, Newest}
    /\ Newest # 0 /\ runner[Newest] = "live" => handler = Newest

\* What a batch has still to hand over was pending when it began.
BatchOK == \A s \in Slots, t \in Targets :
    batch[s].by # 0 /\ (t = batch[s].cur \/ t \in batch[s].todo) => batch[s].all[t] # 0

OverlapOK == OverlapOnlyByReplacement /\ (Newest = 0 => ~running)

OffOK == ~heartbeatsEnabled => switchedOff

IInv ==
    /\ TypeOK
    /\ StartedOK
    /\ HandlerOK
    /\ BatchOK
    /\ OverlapOK
    /\ OffOK
    /\ RetryCooldownKept
    /\ WakesNotLost
    /\ NoWakeForgotten
    /\ HeartbeatsGoOn

-----------------------------------------------------------------------------
(* Helpers. *)

LEMMA TargetTypes ==
    /\ Any \in Targets
    /\ PRIORITY_INTERVAL \in Priorities \ {0}
    /\ RequestPriorities \subseteq Priorities \ {0}
    /\ 0 \in Delays /\ Coalesce \in Delays /\ Retry \in Delays
    /\ \A d \in Delays : d \in 0..Retry
    /\ NoTimer \notin Timers /\ NoTimer.kind = "none"
    /\ NoBatch.by = 0 /\ NoBatch \notin Batches
    /\ 0 \notin Runners
  BY BoundsAssumption DEF Targets, Any, PRIORITY_INTERVAL, PRIORITY_DEFAULT, PRIORITY_ACTION, Priorities,
                          Delays, NoTimer, Timers, NoBatch, Batches, Runners

LEMMA BatchTypes ==
    ASSUME TypeOK, NEW s \in Slots
    PROVE  /\ s \in Live <=> batch[s].by # 0
           /\ s \in Live => /\ batch[s] \in Batches /\ batch[s].by \in Runners /\ batch[s].cur \in Targets
                            /\ batch[s].todo \subseteq Targets /\ batch[s].all \in [Targets -> Priorities]
                            /\ batch[s].delay \in Delays
           /\ s \notin Live => batch[s] = NoBatch
  <1>1. batch[s] \in Batches \cup {NoBatch}
    BY DEF TypeOK
  <1>2. s \in Live <=> batch[s].by # 0
    BY DEF Live
  <1>3. batch[s] \in Batches => /\ batch[s].by \in Runners /\ batch[s].cur \in Targets
                                /\ batch[s].todo \subseteq Targets /\ batch[s].all \in [Targets -> Priorities]
                                /\ batch[s].delay \in Delays
    BY DEF Batches
  <1>4. QED  BY <1>1, <1>2, <1>3, TargetTypes

LEMMA ScheduleFacts ==
    ASSUME NEW now \in Timers \cup {NoTimer}, NEW d \in Delays, NEW k \in {"normal", "retry"}
    PROVE  /\ Schedule(now, d, k) \in Timers
           /\ now.kind = "retry" => Schedule(now, d, k).kind = "retry"
           /\ now = NoTimer => Schedule(now, d, k).kind = k
  <1>1. [kind |-> k, left |-> d, delay |-> d] \in Timers
    BY TargetTypes DEF Timers
  <1>2. QED  BY <1>1, TargetTypes DEF Schedule

LEMMA LiveFinite ==
    ASSUME TypeOK
    PROVE  /\ Live \subseteq Slots /\ IsFiniteSet(Live) /\ Cardinality(Live) \in Nat
           /\ IsFiniteSet(Slots) /\ Cardinality(Slots) = MaxRunners
  <1>1. IsFiniteSet(Slots) /\ Cardinality(Slots) = MaxRunners
    BY BoundsAssumption, FS_Interval DEF Slots, Runners
  <1>2. Live \subseteq Slots
    BY DEF Live
  <1>3. QED  BY <1>1, <1>2, FS_Subset, FS_CardinalityType

LEMMA NewestKept ==
    ASSUME runner' = runner
    PROVE  Newest' = Newest /\ Started' = Started
  BY DEF Newest, Started

LEMMA LiveKept ==
    ASSUME batch' = batch
    PROVE  Live' = Live
  BY DEF Live

-----------------------------------------------------------------------------
(* Requests, ticks and timers that do not begin a batch.                   *)

LEMMA RequestFacts ==
    ASSUME IInv, NEW t \in Targets, NEW p \in Priorities \ {0}, NEW d \in Delays, Request(t, p, d)
    PROVE  /\ pendingWakes' \in [Targets -> Priorities]
           /\ \A u \in Targets : pendingWakes[u] # 0 => pendingWakes'[u] # 0
           /\ pendingWakes'[t] # 0
           /\ timer' \in Timers
           /\ cooling => timer'.kind = "retry"
           /\ owed' \in [Targets -> BOOLEAN]
           /\ \A u \in Targets : u # t => owed'[u] = owed[u]
           /\ UNCHANGED <<scheduled, running, batch>>
  <1>1. TypeOK /\ RetryCooldownKept
    BY DEF IInv
  <1>2. pendingWakes' = [pendingWakes EXCEPT ![t] = IF p >= pendingWakes[t] THEN p ELSE pendingWakes[t]]
    BY DEF Request, QueuePendingWake
  <1>3. pendingWakes \in [Targets -> Priorities] /\ pendingWakes[t] \in Priorities
    BY <1>1 DEF TypeOK
  <1>4. /\ pendingWakes' \in [Targets -> Priorities]
        /\ \A u \in Targets : pendingWakes[u] # 0 => pendingWakes'[u] # 0
        /\ pendingWakes'[t] # 0
    BY <1>2, <1>3 DEF Priorities
  <1>5. timer' = Schedule(timer, d, "normal")
    BY DEF Request
  <1>6. timer' \in Timers /\ (cooling => timer'.kind = "retry")
    BY <1>1, <1>5, ScheduleFacts DEF TypeOK, RetryCooldownKept
  <1>7. owed' = [owed EXCEPT ![t] = TRUE]
    BY DEF Request
  <1>8. owed' \in [Targets -> BOOLEAN] /\ \A u \in Targets : u # t => owed'[u] = owed[u]
    BY <1>1, <1>7 DEF TypeOK
  <1>9. QED  BY <1>4, <1>6, <1>8 DEF Request

LEMMA RequestStep ==
    ASSUME IInv, NEW t \in Targets, NEW p \in RequestPriorities, NEW d \in {0, Coalesce},
           RequestHeartbeatNow(t, p, d)
    PROVE  IInv'
  <1>1. /\ TypeOK /\ StartedOK /\ HandlerOK /\ BatchOK /\ OverlapOK /\ OffOK
        /\ WakesNotLost /\ HeartbeatsGoOn
    BY DEF IInv
  <1>2. /\ UNCHANGED <<handler, handlerGeneration, runner, generation, agents, armed, heartbeatsEnabled,
                       cooling, switchedOff, scheduled, running, batch>>
        /\ requests' = requests + 1 /\ requests < MaxRequests
    BY DEF RequestHeartbeatNow, runnerVars, Request
  <1>3. /\ pendingWakes' \in [Targets -> Priorities]
        /\ \A u \in Targets : pendingWakes[u] # 0 => pendingWakes'[u] # 0
        /\ pendingWakes'[t] # 0
        /\ timer' \in Timers
        /\ cooling => timer'.kind = "retry"
        /\ owed' \in [Targets -> BOOLEAN]
        /\ \A u \in Targets : u # t => owed'[u] = owed[u]
    <2>1. p \in Priorities \ {0} /\ d \in Delays
      BY TargetTypes
    <2>2. Request(t, p, d)
      BY DEF RequestHeartbeatNow
    <2>3. QED  BY <2>1, <2>2, RequestFacts
  <1>4. Newest' = Newest /\ Live' = Live
    BY <1>2, NewestKept, LiveKept
  <1>5. TypeOK'
    <2>1. requests' \in 0..MaxRequests
      BY <1>1, <1>2, BoundsAssumption DEF TypeOK
    <2>2. QED  BY <1>1, <1>2, <1>3, <2>1 DEF TypeOK
  <1>6. StartedOK' /\ HandlerOK' /\ BatchOK' /\ OverlapOK' /\ OffOK'
    BY <1>1, <1>2, <1>4 DEF StartedOK, HandlerOK, BatchOK, OverlapOK, OverlapOnlyByReplacement, OffOK
  <1>7. RetryCooldownKept'
    BY <1>2, <1>3 DEF RetryCooldownKept
  <1>8. WakesNotLost'
    BY <1>1, <1>2, <1>3, <1>4 DEF WakesNotLost, InBatch
  <1>9. NoWakeForgotten'
    BY <1>3, TargetTypes DEF NoWakeForgotten
  <1>10. HeartbeatsGoOn'
    BY <1>1, <1>2, <1>3, <1>4, TargetTypes DEF HeartbeatsGoOn, AnyUnderWay
  <1>11. QED  BY <1>5, <1>6, <1>7, <1>8, <1>9, <1>10 DEF IInv

LEMMA IntervalStep ==
    ASSUME IInv, NEW r \in Runners, IntervalElapses(r)
    PROVE  IInv'
  <1>1. /\ TypeOK /\ StartedOK /\ HandlerOK /\ BatchOK /\ OverlapOK /\ OffOK /\ WakesNotLost
    BY DEF IInv
  <1>2. /\ UNCHANGED <<handler, handlerGeneration, runner, generation, agents, heartbeatsEnabled,
                       requests, cooling, switchedOff, scheduled, running, batch>>
        /\ armed' = [armed EXCEPT ![r] = FALSE]
    BY DEF IntervalElapses, Request
  <1>3. /\ pendingWakes' \in [Targets -> Priorities]
        /\ \A u \in Targets : pendingWakes[u] # 0 => pendingWakes'[u] # 0
        /\ pendingWakes'[Any] # 0
        /\ timer' \in Timers
        /\ cooling => timer'.kind = "retry"
        /\ owed' \in [Targets -> BOOLEAN]
        /\ \A u \in Targets : u # Any => owed'[u] = owed[u]
    BY TargetTypes, RequestFacts DEF IntervalElapses
  <1>4. Newest' = Newest /\ Live' = Live
    BY <1>2, NewestKept, LiveKept
  <1>5. TypeOK'
    BY <1>1, <1>2, <1>3 DEF TypeOK
  <1>6. StartedOK' /\ HandlerOK' /\ BatchOK' /\ OverlapOK' /\ OffOK'
    BY <1>1, <1>2, <1>4 DEF StartedOK, HandlerOK, BatchOK, OverlapOK, OverlapOnlyByReplacement, OffOK
  <1>7. RetryCooldownKept'
    BY <1>2, <1>3 DEF RetryCooldownKept
  <1>8. WakesNotLost'
    BY <1>1, <1>2, <1>3, <1>4 DEF WakesNotLost, InBatch
  <1>9. NoWakeForgotten'
    BY <1>3, TargetTypes DEF NoWakeForgotten
  <1>10. HeartbeatsGoOn'
    BY <1>3 DEF HeartbeatsGoOn, AnyUnderWay
  <1>11. QED  BY <1>5, <1>6, <1>7, <1>8, <1>9, <1>10 DEF IInv

\* The timer counts down, or fires without beginning a batch.
LEMMA TimerStep ==
    ASSUME IInv, Tick \/ FireWithoutHandler \/ FireWhileRunning
    PROVE  IInv'
  <1>1. /\ TypeOK /\ StartedOK /\ HandlerOK /\ BatchOK /\ OverlapOK /\ OffOK /\ RetryCooldownKept
        /\ WakesNotLost /\ HeartbeatsGoOn
    BY DEF IInv
  <1>2. UNCHANGED <<handler, handlerGeneration, pendingWakes, running, batch, runner, generation, agents,
                    armed, heartbeatsEnabled, requests, owed, switchedOff>>
    BY DEF Tick, FireWithoutHandler, FireWhileRunning, runnerVars
  <1>3. /\ timer' \in Timers \cup {NoTimer} /\ scheduled' \in BOOLEAN /\ cooling' \in BOOLEAN
        /\ cooling' => timer'.kind = "retry"
        /\ handler # 0 => timer' \in Timers
    <2>1. CASE Tick
      <3>1. timer \in Timers
        BY <1>1, <2>1 DEF Tick, TypeOK
      <3>2. timer' = [timer EXCEPT !.left = timer.left - 1] /\ timer.left > 0 /\ UNCHANGED <<scheduled, cooling>>
        BY <2>1 DEF Tick
      <3>3. timer' \in Timers /\ timer'.kind = timer.kind
        BY <3>1, <3>2, BoundsAssumption DEF Timers
      <3>4. QED  BY <1>1, <3>2, <3>3 DEF TypeOK, RetryCooldownKept
    <2>2. CASE FireWithoutHandler
      BY <2>2 DEF FireWithoutHandler
    <2>3. CASE FireWhileRunning
      <3>1. timer \in Timers
        BY <1>1, <2>3 DEF FireWhileRunning, Due, TypeOK
      <3>2. timer.kind \in {"normal", "retry"} /\ timer.delay \in Delays
        BY <3>1 DEF Timers
      <3>3. /\ timer' = Schedule(NoTimer, timer.delay, timer.kind)
            /\ scheduled' = TRUE /\ cooling' = (timer.kind = "retry")
        BY <2>3 DEF FireWhileRunning
      <3>4. timer' \in Timers /\ timer'.kind = timer.kind
        BY <3>2, <3>3, ScheduleFacts
      <3>5. QED  BY <3>3, <3>4
    <2>4. QED  BY <2>1, <2>2, <2>3
  <1>4. Newest' = Newest /\ Live' = Live
    BY <1>2, NewestKept, LiveKept
  <1>5. TypeOK'
    BY <1>1, <1>2, <1>3 DEF TypeOK
  <1>6. StartedOK' /\ HandlerOK' /\ BatchOK' /\ OverlapOK' /\ OffOK'
    BY <1>1, <1>2, <1>4 DEF StartedOK, HandlerOK, BatchOK, OverlapOK, OverlapOnlyByReplacement, OffOK
  <1>7. RetryCooldownKept'
    BY <1>3 DEF RetryCooldownKept
  <1>8. WakesNotLost'
    BY <1>1, <1>2, <1>4 DEF WakesNotLost, InBatch
  <1>9. NoWakeForgotten'
    BY <1>2, <1>3, TargetTypes DEF NoWakeForgotten
  <1>10. HeartbeatsGoOn'
    BY <1>1, <1>2, <1>4 DEF HeartbeatsGoOn, AnyUnderWay
  <1>11. QED  BY <1>5, <1>6, <1>7, <1>8, <1>9, <1>10 DEF IInv

-----------------------------------------------------------------------------
(* Batches. *)

\* Whoever is registered and live does not refuse while heartbeats go on.
LEMMA NewestServes ==
    ASSUME IInv, Newest # 0, runner[Newest] = "live", agents[Newest], ~switchedOff
    PROVE  handler = Newest /\ ~Refuses(Newest) /\ Newest \in Runners
  BY BoundsAssumption DEF IInv, HandlerOK, OffOK, StartedOK, Refuses, Runners

LEMMA HandlerRunner ==
    ASSUME IInv, handler # 0
    PROVE  handler = Newest /\ Newest \in Runners /\ Newest \in Nat
  BY BoundsAssumption DEF IInv, HandlerOK, StartedOK, Runners

LEMMA FreeSlotExists ==
    ASSUME IInv, handler # 0, ~running
    PROVE  FreeSlot \in Slots \ Live
  <1>1. TypeOK /\ OverlapOnlyByReplacement /\ StartedOK
    BY DEF IInv, OverlapOK
  <1>2. /\ Live \subseteq Slots /\ IsFiniteSet(Live) /\ Cardinality(Live) \in Nat
        /\ Cardinality(Slots) = MaxRunners
    BY <1>1, LiveFinite
  <1>3. Newest \in Nat \ {0} /\ Newest <= MaxRunners
    BY <1>1, HandlerRunner, BoundsAssumption DEF StartedOK, Runners
  <1>4. Cardinality(Live) < Cardinality(Slots)
    BY <1>1, <1>2, <1>3, BoundsAssumption DEF OverlapOnlyByReplacement
  <1>5. Live # Slots
    BY <1>2, <1>4
  <1>6. \E t \in Slots \ Live : TRUE
    BY <1>2, <1>5
  <1>7. QED  BY <1>6 DEF FreeSlot

LEMMA BeginBatchStep ==
    ASSUME IInv, BeginBatch
    PROVE  IInv'
  <1> DEFINE wakes == {t \in Targets : pendingWakes[t] # 0}
  <1>1. /\ TypeOK /\ StartedOK /\ HandlerOK /\ BatchOK /\ OverlapOK /\ OffOK
        /\ WakesNotLost /\ HeartbeatsGoOn
    BY DEF IInv
  <1>2. /\ ~running /\ handler # 0 /\ timer # NoTimer
        /\ pendingWakes' = [t \in Targets |-> 0] /\ timer' = NoTimer
        /\ scheduled' = FALSE /\ cooling' = FALSE
        /\ UNCHANGED <<handler, handlerGeneration, runner, generation, agents, armed, heartbeatsEnabled,
                       requests, switchedOff>>
    BY DEF BeginBatch, FireBatch, Due, runnerVars
  <1>3. Newest' = Newest
    BY <1>2, NewestKept
  <1>4. handler = Newest /\ Newest \in Runners /\ Newest \in Nat
    BY <1>2, HandlerRunner
  <1>5. StartedOK' /\ HandlerOK' /\ OffOK' /\ RetryCooldownKept'
    BY <1>1, <1>2, <1>3 DEF StartedOK, HandlerOK, OffOK, RetryCooldownKept
  <1>6. pendingWakes' \in [Targets -> Priorities]
    BY <1>2 DEF Priorities
  <1>7. NoWakeForgotten'
    BY <1>2 DEF NoWakeForgotten, HasPending
  <1>8. CASE wakes = {} \/ Refuses(handler)
    <2>1. /\ running' = FALSE /\ batch' = batch
          /\ owed' = [t \in Targets |-> owed[t] /\ t \notin wakes]
      BY <1>8 DEF BeginBatch, FireBatch
    <2>2. Live' = Live
      BY <2>1, LiveKept
    <2>3. owed' \in [Targets -> BOOLEAN]
      BY <2>1
    <2>4. TypeOK'
      BY <1>1, <1>2, <1>6, <2>1, <2>3 DEF TypeOK
    <2>5. BatchOK' /\ OverlapOK'
      BY <1>1, <1>2, <1>3, <2>1, <2>2 DEF BatchOK, OverlapOK, OverlapOnlyByReplacement
    <2>6. WakesNotLost'
      <3>1. ASSUME NEW t \in Targets, owed'[t]
            PROVE  InBatch(t)
        BY <1>1, <2>1, <3>1 DEF WakesNotLost
      <3>2. QED  BY <2>1, <2>2, <3>1 DEF WakesNotLost, InBatch
    <2>7. HeartbeatsGoOn'
      <3> SUFFICES ASSUME Newest # 0, runner[Newest] = "live", agents[Newest], ~switchedOff
                   PROVE  armed[Newest] \/ AnyUnderWay(Newest)'
        BY <1>2, <1>3 DEF HeartbeatsGoOn, AnyUnderWay
      <3>1. wakes = {}
        BY <1>8, NewestServes
      <3>2. pendingWakes[Any] = 0
        BY <3>1, TargetTypes
      <3>3. QED
        BY <1>1, <1>3, <2>1, <2>2, <3>2 DEF HeartbeatsGoOn, AnyUnderWay
    <2>8. QED  BY <1>5, <1>7, <2>4, <2>5, <2>6, <2>7 DEF IInv
  <1>9. CASE ~(wakes = {} \/ Refuses(handler))
    <2> DEFINE new(t) == [by |-> handler, cur |-> t, todo |-> wakes \ {t},
                          all |-> pendingWakes, delay |-> timer.delay]
    <2>1. running' = TRUE /\ owed' = owed /\ \E t \in wakes : batch' = [batch EXCEPT ![FreeSlot] = new(t)]
      BY <1>9 DEF BeginBatch, FireBatch
    <2>2. PICK u \in wakes : batch' = [batch EXCEPT ![FreeSlot] = new(u)]
      BY <2>1
    <2>3. FreeSlot \in Slots /\ FreeSlot \notin Live
      BY <1>2, FreeSlotExists
    <2>4. /\ new(u) \in Batches /\ new(u).by = handler /\ new(u).cur = u /\ new(u).todo = wakes \ {u}
          /\ new(u).all = pendingWakes
      <3>1. timer.delay \in Delays /\ pendingWakes \in [Targets -> Priorities]
        BY <1>1, <1>2 DEF TypeOK, Timers
      <3>2. QED  BY <1>4, <3>1 DEF Batches
    <2> HIDE DEF new
    <2>5. /\ batch' \in [Slots -> Batches \cup {NoBatch}] /\ batch'[FreeSlot] = new(u)
          /\ \A s \in Slots : s # FreeSlot => batch'[s] = batch[s]
      BY <1>1, <2>2, <2>3, <2>4 DEF TypeOK
    <2>6. TypeOK'
      BY <1>1, <1>2, <1>6, <2>1, <2>5 DEF TypeOK
    <2>7. BatchOK'
      BY <1>1, <2>3, <2>4, <2>5 DEF BatchOK
    <2>8. Live' = Live \cup {FreeSlot}
      BY <1>4, <2>3, <2>4, <2>5, TargetTypes DEF Live
    <2>9. OverlapOK'
      <3>1. Cardinality(Live') = Cardinality(Live) + 1 /\ Cardinality(Live) \in Nat
        BY <1>1, <2>3, <2>8, LiveFinite, FS_AddElement
      <3>2. Newest # 0
        BY <1>4, TargetTypes
      <3>3. QED  BY <1>1, <1>2, <1>3, <1>4, <2>1, <3>1, <3>2 DEF OverlapOK, OverlapOnlyByReplacement
    <2>10. \A t \in Targets : /\ InBatch(t) => InBatch(t)'
                              /\ pendingWakes[t] # 0 => InBatch(t)'
      BY <2>3, <2>4, <2>5, <2>8, LiveFinite, <1>1 DEF InBatch
    <2>11. WakesNotLost'
      BY <1>1, <2>1, <2>10 DEF WakesNotLost
    <2>12. HeartbeatsGoOn'
      <3> SUFFICES ASSUME Newest # 0, runner[Newest] = "live", agents[Newest], ~switchedOff
                   PROVE  armed[Newest] \/ AnyUnderWay(Newest)'
        BY <1>2, <1>3 DEF HeartbeatsGoOn, AnyUnderWay
      <3>1. CASE pendingWakes[Any] # 0
        <4>1. batch'[FreeSlot].by = Newest /\ (batch'[FreeSlot].cur = Any \/ Any \in batch'[FreeSlot].todo)
          BY <1>4, <2>4, <2>5, <3>1, TargetTypes
        <4>2. QED  BY <1>3, <2>8, <4>1 DEF AnyUnderWay
      <3>2. CASE \E s \in Live : batch[s].by = Newest /\ (batch[s].cur = Any \/ Any \in batch[s].todo)
        BY <1>1, <1>3, <2>3, <2>5, <2>8, <3>2, LiveFinite DEF AnyUnderWay
      <3>3. QED  BY <1>1, <3>1, <3>2 DEF HeartbeatsGoOn, AnyUnderWay
    <2>13. QED  BY <1>5, <1>7, <2>6, <2>7, <2>9, <2>11, <2>12 DEF IInv
  <1>10. QED  BY <1>8, <1>9

\* The end of a batch.
LEMMA FinallyFacts ==
    ASSUME TypeOK, NEW pending \in [Targets -> Priorities], NEW now \in Timers \cup {NoTimer},
           NEW d \in Delays, Finally(pending, now, d)
    PROVE  /\ pendingWakes' = pending /\ running' = FALSE /\ scheduled' = scheduled
           /\ timer' \in Timers \cup {NoTimer}
           /\ now.kind = "retry" => timer'.kind = "retry"
           /\ HasPending(pending) => timer' # NoTimer
  <1>1. /\ pendingWakes' = pending /\ running' = FALSE /\ scheduled' = scheduled
        /\ timer' = IF HasPending(pending) \/ scheduled THEN Schedule(now, d, "normal") ELSE now
    BY DEF Finally
  <1>2. Schedule(now, d, "normal") \in Timers /\ (now.kind = "retry" => Schedule(now, d, "normal").kind = "retry")
    BY ScheduleFacts
  <1>3. QED  BY <1>1, <1>2, TargetTypes

\* A batch goes on with another of its wakes, or ends.
Moves(s) == /\ running' = running
            /\ \E t \in batch[s].todo :
                  batch' = [batch EXCEPT ![s] = [batch[s] EXCEPT !.cur = t, !.todo = batch[s].todo \ {t}]]
Ends(s) == /\ running' = FALSE
           /\ batch' = [batch EXCEPT ![s] = NoBatch]
           /\ HasPending(pendingWakes') => timer' # NoTimer

LEMMA NextWakeFacts ==
    ASSUME TypeOK, NEW s \in Live, NEW answered, NEW pending \in [Targets -> Priorities],
           NEW now \in Timers \cup {NoTimer}, NextWake(s, answered, pending, now)
    PROVE  /\ pendingWakes' = pending /\ scheduled' = scheduled
           /\ timer' \in Timers \cup {NoTimer}
           /\ now.kind = "retry" => timer'.kind = "retry"
           /\ owed' \in [Targets -> BOOLEAN]
           /\ \/ Moves(s) /\ \A t \in Targets : owed'[t] => owed[t] /\ t \notin answered
              \/ /\ Ends(s) /\ (batch[s].todo = {} \/ Refuses(batch[s].by))
                 /\ \A t \in Targets : owed'[t] => owed[t] /\ t \notin answered \cup batch[s].todo
  <1>1. s \in Slots /\ batch[s].delay \in Delays /\ batch \in [Slots -> Batches \cup {NoBatch}]
    BY LiveFinite, BatchTypes DEF TypeOK
  <1>2. CASE batch[s].todo # {} /\ ~Refuses(batch[s].by)
    <2>1. /\ \E t \in batch[s].todo : batch' = [batch EXCEPT ![s].cur = t, ![s].todo = @ \ {t}]
          /\ pendingWakes' = pending /\ timer' = now
          /\ owed' = [t \in Targets |-> owed[t] /\ t \notin answered]
          /\ scheduled' = scheduled /\ running' = running
      BY <1>2 DEF NextWake
    <2>2. Moves(s)
      <3>1. PICK t \in batch[s].todo : batch' = [batch EXCEPT ![s].cur = t, ![s].todo = @ \ {t}]
        BY <2>1
      <3>2. batch' = [batch EXCEPT ![s] = [batch[s] EXCEPT !.cur = t, !.todo = batch[s].todo \ {t}]]
        BY <1>1, <3>1
      <3>3. QED  BY <2>1, <3>2 DEF Moves
    <2>3. owed' \in [Targets -> BOOLEAN] /\ \A t \in Targets : owed'[t] => owed[t] /\ t \notin answered
      BY <2>1
    <2>4. QED  BY <2>1, <2>2, <2>3
  <1>3. CASE ~(batch[s].todo # {} /\ ~Refuses(batch[s].by))
    <2>1. /\ batch' = [batch EXCEPT ![s] = NoBatch]
          /\ owed' = [t \in Targets |-> owed[t] /\ t \notin answered \cup batch[s].todo]
          /\ Finally(pending, now, batch[s].delay)
      BY <1>3 DEF NextWake
    <2>2. owed' \in [Targets -> BOOLEAN]
          /\ \A t \in Targets : owed'[t] => owed[t] /\ t \notin answered \cup batch[s].todo
      BY <2>1
    <2>3. /\ pendingWakes' = pending /\ running' = FALSE /\ scheduled' = scheduled
          /\ timer' \in Timers \cup {NoTimer}
          /\ now.kind = "retry" => timer'.kind = "retry"
          /\ HasPending(pending) => timer' # NoTimer
      BY <1>1, <2>1, FinallyFacts
    <2>4. QED  BY <1>3, <2>1, <2>2, <2>3 DEF Ends
  <1>4. QED  BY <1>2, <1>3

-----------------------------------------------------------------------------
(* The answer of the handler. *)

\* Whether the interval timer is set again, as far as heartbeats depend on it.
Rearmed(r) ==
    /\ armed' \in [Runners -> BOOLEAN] /\ switchedOff' \in BOOLEAN
    /\ \A q \in Runners : q # r => armed'[q] = armed[q]
    /\ r # Newest => switchedOff' = switchedOff
    /\ runner[r] # "stopped" => armed'[r] = agents[r]
    /\ runner[r] = "stopped" => UNCHANGED <<armed, switchedOff>>
    /\ ~heartbeatsEnabled => switchedOff'

LEMMA RearmFacts ==
    ASSUME IInv, NEW r \in Runners, ScheduleNext(r, agents[r])
    PROVE  Rearmed(r)
  <1>1. TypeOK /\ OffOK /\ agents[r] \in BOOLEAN /\ heartbeatsEnabled \in BOOLEAN
        /\ switchedOff \in BOOLEAN /\ armed \in [Runners -> BOOLEAN]
    BY DEF IInv, TypeOK
  <1>2. CASE runner[r] = "stopped"
    <2>1. UNCHANGED <<armed, switchedOff>>
      BY <1>2 DEF ScheduleNext
    <2>2. QED  BY <1>1, <1>2, <2>1 DEF Rearmed, OffOK
  <1>3. CASE runner[r] # "stopped"
    <2>1. /\ armed' = [armed EXCEPT ![r] = agents[r]]
          /\ switchedOff' = IF r = Newest THEN ~heartbeatsEnabled ELSE switchedOff
      BY <1>3 DEF ScheduleNext
    <2>2. /\ armed' \in [Runners -> BOOLEAN] /\ armed'[r] = agents[r]
          /\ \A q \in Runners : q # r => armed'[q] = armed[q]
      BY <1>1, <2>1
    <2>3. switchedOff' \in BOOLEAN /\ (~heartbeatsEnabled => switchedOff') /\ (r # Newest => switchedOff' = switchedOff)
      BY <1>1, <2>1 DEF OffOK
    <2>4. QED  BY <1>3, <2>2, <2>3 DEF Rearmed
  <1>4. QED  BY <1>2, <1>3

\* What the three answers have in common.
LEMMA AnswerFacts ==
    ASSUME IInv, NEW s \in Slots, WakeHandled(s) \/ WakeTurnedAway(s) \/ WakeThrows(s)
    PROVE  /\ s \in Live
           /\ UNCHANGED <<handler, handlerGeneration, runner, generation, agents, heartbeatsEnabled, requests>>
           /\ pendingWakes' \in [Targets -> Priorities]
           /\ \A t \in Targets : pendingWakes[t] # 0 => pendingWakes'[t] # 0
           /\ scheduled' = scheduled
           /\ timer' \in Timers \cup {NoTimer}
           /\ cooling' \in BOOLEAN /\ (cooling' => timer'.kind = "retry")
           /\ owed' \in [Targets -> BOOLEAN]
           /\ \/ Moves(s) /\ \A t \in Targets : owed'[t] => owed[t] /\ (t = batch[s].cur => pendingWakes'[t] # 0)
              \/ /\ Ends(s)
                 /\ \A t \in Targets : owed'[t] =>
                       owed[t] /\ (t = batch[s].cur \/ t \in batch[s].todo => pendingWakes'[t] # 0)
                 /\ \/ batch[s].todo = {}
                    \/ Refuses(batch[s].by)
                    \/ \A t \in batch[s].todo : pendingWakes'[t] # 0
           /\ \/ UNCHANGED <<armed, switchedOff>> /\ batch[s].cur = Any /\ pendingWakes'[Any] # 0
              \/ Rearmed(batch[s].by)
  <1> DEFINE b == batch[s]
             kept == QueuePendingWake(pendingWakes, b.cur, b.all[b.cur])
             whole == QueueBatch(pendingWakes, b.all)
             retry == Schedule(timer, Retry, "retry")
  <1>1. TypeOK /\ BatchOK /\ RetryCooldownKept /\ s \in Live
    BY DEF IInv, WakeHandled, WakeTurnedAway, WakeThrows
  <1>2. /\ b.by \in Runners /\ b.by # 0 /\ b.cur \in Targets /\ b.todo \subseteq Targets
        /\ b.all \in [Targets -> Priorities] /\ b.delay \in Delays
        /\ pendingWakes \in [Targets -> Priorities] /\ timer \in Timers \cup {NoTimer} /\ owed \in [Targets -> BOOLEAN]
        /\ cooling \in BOOLEAN
    BY <1>1, BatchTypes DEF TypeOK
  <1>3. \A t \in Targets : t = b.cur \/ t \in b.todo => b.all[t] # 0
    BY <1>1, <1>2 DEF BatchOK
  <1>4. UNCHANGED <<handler, handlerGeneration, runner, generation, agents, heartbeatsEnabled, requests>>
    BY DEF WakeHandled, WakeTurnedAway, WakeThrows
  <1>5. /\ retry \in Timers /\ (timer.kind = "retry" => retry.kind = "retry")
        /\ (timer = NoTimer => retry.kind = "retry")
    BY <1>2, TargetTypes, ScheduleFacts
  <1> HIDE DEF retry
  <1>6. CASE WakeHandled(s)
    <2>1. /\ NextWake(s, {b.cur}, pendingWakes, timer) /\ cooling' = cooling
          /\ ScheduleNext(b.by, agents[b.by])
      BY <1>6 DEF WakeHandled
    <2>2. Rearmed(b.by)
      BY <1>2, <2>1, RearmFacts
    <2>3. /\ pendingWakes' = pendingWakes /\ scheduled' = scheduled
          /\ timer' \in Timers \cup {NoTimer}
          /\ timer.kind = "retry" => timer'.kind = "retry"
          /\ owed' \in [Targets -> BOOLEAN]
          /\ \/ Moves(s) /\ \A t \in Targets : owed'[t] => owed[t] /\ t \notin {b.cur}
             \/ /\ Ends(s) /\ (b.todo = {} \/ Refuses(b.by))
                /\ \A t \in Targets : owed'[t] => owed[t] /\ t \notin {b.cur} \cup b.todo
      BY <1>1, <1>2, <2>1, NextWakeFacts
    <2>4. cooling' => timer'.kind = "retry"
      BY <1>1, <2>1, <2>3 DEF RetryCooldownKept
    <2>5. QED  BY <1>1, <1>2, <1>4, <2>1, <2>2, <2>3, <2>4
  <1>7. CASE WakeTurnedAway(s)
    <2>1. /\ NextWake(s, {}, kept, retry) /\ cooling' = (cooling \/ timer = NoTimer)
          /\ IF b.cur = Any THEN UNCHANGED <<armed, switchedOff>> ELSE ScheduleNext(b.by, agents[b.by])
      BY <1>7 DEF WakeTurnedAway, retry
    <2>2. /\ kept \in [Targets -> Priorities] /\ kept[b.cur] # 0
          /\ \A t \in Targets : pendingWakes[t] # 0 => kept[t] # 0
      <3>1. kept = [pendingWakes EXCEPT ![b.cur] = IF b.all[b.cur] >= pendingWakes[b.cur] THEN b.all[b.cur]
                                                   ELSE pendingWakes[b.cur]]
        BY DEF QueuePendingWake
      <3>2. b.all[b.cur] \in Priorities /\ b.all[b.cur] # 0 /\ pendingWakes[b.cur] \in Priorities
        BY <1>2, <1>3
      <3> HIDE DEF b, kept
      <3>3. QED  BY <1>2, <3>1, <3>2 DEF Priorities
    <2> HIDE DEF kept
    <2>3. /\ pendingWakes' = kept /\ scheduled' = scheduled
          /\ timer' \in Timers \cup {NoTimer}
          /\ retry.kind = "retry" => timer'.kind = "retry"
          /\ owed' \in [Targets -> BOOLEAN]
          /\ \/ Moves(s) /\ \A t \in Targets : owed'[t] => owed[t] /\ t \notin {}
             \/ /\ Ends(s) /\ (b.todo = {} \/ Refuses(b.by))
                /\ \A t \in Targets : owed'[t] => owed[t] /\ t \notin {} \cup b.todo
      BY <1>1, <1>2, <1>5, <2>1, <2>2, NextWakeFacts
    <2>4. cooling' \in BOOLEAN /\ (cooling' => timer'.kind = "retry")
      BY <1>1, <1>2, <1>5, <2>1, <2>3 DEF RetryCooldownKept
    <2>5. \/ UNCHANGED <<armed, switchedOff>> /\ b.cur = Any /\ pendingWakes'[Any] # 0
          \/ Rearmed(b.by)
      BY <1>2, <2>1, <2>2, <2>3, RearmFacts
    <2>6. QED  BY <1>1, <1>4, <2>2, <2>3, <2>4, <2>5
  <1>8. CASE WakeThrows(s)
    <2>1. /\ ScheduleNext(b.by, agents[b.by]) /\ Finally(whole, retry, b.delay)
          /\ batch' = [batch EXCEPT ![s] = NoBatch] /\ cooling' = (cooling \/ timer = NoTimer)
          /\ owed' = owed
      BY <1>8 DEF WakeThrows, retry
    <2>2. /\ whole \in [Targets -> Priorities]
          /\ \A t \in Targets : (pendingWakes[t] # 0 => whole[t] # 0) /\ (b.all[t] # 0 => whole[t] # 0)
      <3>1. whole = [t \in Targets |-> IF b.all[t] >= pendingWakes[t] THEN b.all[t] ELSE pendingWakes[t]]
        BY DEF QueueBatch
      <3> HIDE DEF b, whole
      <3>2. QED  BY <1>2, <3>1 DEF Priorities
    <2> HIDE DEF whole
    <2>3. /\ pendingWakes' = whole /\ running' = FALSE /\ scheduled' = scheduled
          /\ timer' \in Timers \cup {NoTimer}
          /\ retry.kind = "retry" => timer'.kind = "retry"
          /\ HasPending(whole) => timer' # NoTimer
      BY <1>1, <1>2, <1>5, <2>1, <2>2, FinallyFacts
    <2>4. Ends(s)
      BY <2>1, <2>3 DEF Ends
    <2>5. cooling' \in BOOLEAN /\ (cooling' => timer'.kind = "retry")
      BY <1>1, <1>2, <1>5, <2>1, <2>3 DEF RetryCooldownKept
    <2>6. Rearmed(b.by)
      BY <1>2, <2>1, RearmFacts
    <2>7. /\ \A t \in b.todo : pendingWakes'[t] # 0
          /\ \A t \in Targets : t = b.cur \/ t \in b.todo => pendingWakes'[t] # 0
      BY <1>2, <1>3, <2>2, <2>3
    <2>8. QED  BY <1>1, <1>2, <1>4, <2>1, <2>2, <2>3, <2>4, <2>5, <2>6, <2>7
  <1>9. QED  BY <1>6, <1>7, <1>8

LEMMA AnswerStep ==
    ASSUME IInv, NEW s \in Slots, WakeHandled(s) \/ WakeTurnedAway(s) \/ WakeThrows(s)
    PROVE  IInv'
  <1> DEFINE b == batch[s]
  <1>1. /\ TypeOK /\ StartedOK /\ HandlerOK /\ BatchOK /\ OverlapOK /\ OffOK
        /\ WakesNotLost /\ NoWakeForgotten /\ HeartbeatsGoOn
    BY DEF IInv
  <1>2. /\ s \in Live
        /\ UNCHANGED <<handler, handlerGeneration, runner, generation, agents, heartbeatsEnabled, requests>>
        /\ pendingWakes' \in [Targets -> Priorities]
        /\ \A t \in Targets : pendingWakes[t] # 0 => pendingWakes'[t] # 0
        /\ scheduled' = scheduled
        /\ timer' \in Timers \cup {NoTimer}
        /\ cooling' \in BOOLEAN /\ (cooling' => timer'.kind = "retry")
        /\ owed' \in [Targets -> BOOLEAN]
    BY AnswerFacts
  <1>3. \/ Moves(s) /\ \A t \in Targets : owed'[t] => owed[t] /\ (t = b.cur => pendingWakes'[t] # 0)
        \/ /\ Ends(s)
           /\ \A t \in Targets : owed'[t] => owed[t] /\ (t = b.cur \/ t \in b.todo => pendingWakes'[t] # 0)
           /\ \/ b.todo = {} \/ Refuses(b.by)
              \/ \A t \in b.todo : pendingWakes'[t] # 0
    BY AnswerFacts
  <1>4. \/ UNCHANGED <<armed, switchedOff>> /\ b.cur = Any /\ pendingWakes'[Any] # 0
        \/ Rearmed(b.by)
    BY AnswerFacts
  <1>5. /\ b \in Batches /\ b.by \in Runners /\ b.by # 0 /\ b.cur \in Targets /\ b.todo \subseteq Targets
        /\ batch \in [Slots -> Batches \cup {NoBatch}]
    BY <1>1, <1>2, BatchTypes, TargetTypes DEF TypeOK
  <1>6. armed' \in [Runners -> BOOLEAN] /\ switchedOff' \in BOOLEAN
    BY <1>1, <1>4 DEF TypeOK, Rearmed
  <1>7. Newest' = Newest
    BY <1>2, NewestKept
  <1>8. StartedOK' /\ HandlerOK' /\ RetryCooldownKept'
    BY <1>1, <1>2, <1>7 DEF StartedOK, HandlerOK, RetryCooldownKept
  <1>9. OffOK'
    BY <1>1, <1>2, <1>4 DEF OffOK, Rearmed
  \* The slots after the step.
  <1>10. CASE Moves(s) /\ \A t \in Targets : owed'[t] => owed[t] /\ (t = b.cur => pendingWakes'[t] # 0)
    <2>1. PICK u \in b.todo : batch' = [batch EXCEPT ![s] = [b EXCEPT !.cur = u, !.todo = b.todo \ {u}]]
      BY <1>10 DEF Moves
    <2> DEFINE nb == [b EXCEPT !.cur = u, !.todo = b.todo \ {u}]
    <2>2. /\ nb \in Batches /\ nb.by = b.by /\ nb.cur = u /\ nb.todo = b.todo \ {u} /\ nb.all = b.all
      <3> HIDE DEF b
      <3> QED  BY <1>5, <2>1 DEF Batches
    <2> HIDE DEF nb
    <2>3. /\ batch' \in [Slots -> Batches \cup {NoBatch}] /\ batch'[s] = nb
          /\ \A q \in Slots : q # s => batch'[q] = batch[q]
      BY <1>5, <2>1, <2>2 DEF nb
    <2>4. running' = running /\ Live' = Live
      BY <1>5, <1>10, <2>2, <2>3 DEF Moves, Live
    <2>5. TypeOK'
      BY <1>1, <1>2, <1>6, <2>3, <2>4 DEF TypeOK
    <2>6. BatchOK'
      BY <1>1, <1>5, <2>1, <2>2, <2>3 DEF BatchOK
    <2>7. OverlapOK'
      BY <1>1, <1>7, <2>4 DEF OverlapOK, OverlapOnlyByReplacement
    <2>8. WakesNotLost'
      <3>1. ASSUME NEW t \in Targets, owed'[t]
            PROVE  pendingWakes'[t] # 0 \/ InBatch(t)'
        <4>1. owed[t] /\ (t = b.cur => pendingWakes'[t] # 0)
          BY <1>10, <3>1
        <4>2. CASE pendingWakes[t] # 0
          BY <1>2, <4>2
        <4>3. ASSUME NEW q \in Live, batch[q].cur = t \/ t \in batch[q].todo
              PROVE  pendingWakes'[t] # 0 \/ InBatch(t)'
          BY <1>1, <1>5, <2>2, <2>3, <2>4, <4>1, <4>3, LiveFinite DEF InBatch
        <4>4. QED  BY <1>1, <4>1, <4>2, <4>3 DEF WakesNotLost, InBatch
      <3>2. QED  BY <3>1 DEF WakesNotLost
    <2>9. NoWakeForgotten'
      BY <1>2, <2>4 DEF NoWakeForgotten
    <2>10. HeartbeatsGoOn'
      <3> SUFFICES ASSUME Newest # 0, runner[Newest] = "live", agents[Newest], ~switchedOff'
                   PROVE  armed'[Newest] \/ AnyUnderWay(Newest)'
        BY <1>2, <1>7 DEF HeartbeatsGoOn, AnyUnderWay
      <3>1. CASE b.by = Newest /\ Rearmed(b.by)
        BY <3>1 DEF Rearmed
      <3>2. CASE b.cur = Any /\ pendingWakes'[Any] # 0
        BY <3>2 DEF AnyUnderWay
      <3>3. CASE b.by # Newest /\ Rearmed(b.by)
        <4>1. Newest \in Runners /\ ~switchedOff /\ armed'[Newest] = armed[Newest]
          BY <1>1, <3>3, BoundsAssumption DEF Rearmed, StartedOK, Runners
        <4>2. ASSUME NEW q \in Live, batch[q].by = Newest, batch[q].cur = Any \/ Any \in batch[q].todo
              PROVE  AnyUnderWay(Newest)'
          BY <1>1, <1>7, <2>3, <2>4, <3>3, <4>2, LiveFinite DEF AnyUnderWay
        <4>3. pendingWakes[Any] # 0 => AnyUnderWay(Newest)'
          BY <1>2, TargetTypes DEF AnyUnderWay
        <4>4. QED  BY <1>1, <4>1, <4>2, <4>3 DEF HeartbeatsGoOn, AnyUnderWay
      <3>4. QED  BY <1>4, <3>1, <3>2, <3>3
    <2>11. QED  BY <1>8, <1>9, <2>5, <2>6, <2>7, <2>8, <2>9, <2>10 DEF IInv
  <1>11. CASE /\ Ends(s)
              /\ \A t \in Targets : owed'[t] => owed[t] /\ (t = b.cur \/ t \in b.todo => pendingWakes'[t] # 0)
              /\ \/ b.todo = {} \/ Refuses(b.by)
                 \/ \A t \in b.todo : pendingWakes'[t] # 0
    <2>1. /\ batch' \in [Slots -> Batches \cup {NoBatch}] /\ batch'[s] = NoBatch
          /\ \A q \in Slots : q # s => batch'[q] = batch[q]
          /\ running' = FALSE /\ (HasPending(pendingWakes') => timer' # NoTimer)
      BY <1>5, <1>11 DEF Ends
    <2>2. Live' = Live \ {s}
      BY <2>1, TargetTypes DEF Live
    <2>3. TypeOK'
      BY <1>1, <1>2, <1>6, <2>1 DEF TypeOK
    <2>4. BatchOK'
      BY <1>1, <2>1, TargetTypes DEF BatchOK
    <2>5. OverlapOK'
      <3>1. Cardinality(Live') = Cardinality(Live) - 1 /\ Cardinality(Live) \in Nat
        BY <1>1, <1>2, <2>2, LiveFinite, FS_RemoveElement
      <3>2. QED  BY <1>1, <1>7, <2>1, <3>1 DEF OverlapOK, OverlapOnlyByReplacement, StartedOK
    <2>6. WakesNotLost'
      <3>1. ASSUME NEW t \in Targets, owed'[t]
            PROVE  pendingWakes'[t] # 0 \/ InBatch(t)'
        <4>1. owed[t] /\ (t = b.cur \/ t \in b.todo => pendingWakes'[t] # 0)
          BY <1>11, <3>1
        <4>2. CASE pendingWakes[t] # 0
          BY <1>2, <4>2
        <4>3. ASSUME NEW q \in Live, batch[q].cur = t \/ t \in batch[q].todo
              PROVE  pendingWakes'[t] # 0 \/ InBatch(t)'
          BY <1>1, <2>1, <2>2, <4>1, <4>3, LiveFinite DEF InBatch
        <4>4. QED  BY <1>1, <4>1, <4>2, <4>3 DEF WakesNotLost, InBatch
      <3>2. QED  BY <3>1 DEF WakesNotLost
    <2>7. NoWakeForgotten'
      BY <2>1 DEF NoWakeForgotten
    <2>8. HeartbeatsGoOn'
      <3> SUFFICES ASSUME Newest # 0, runner[Newest] = "live", agents[Newest], ~switchedOff'
                   PROVE  armed'[Newest] \/ AnyUnderWay(Newest)'
        BY <1>2, <1>7 DEF HeartbeatsGoOn, AnyUnderWay
      <3>1. CASE b.by = Newest /\ Rearmed(b.by)
        BY <3>1 DEF Rearmed
      <3>2. CASE b.cur = Any /\ pendingWakes'[Any] # 0
        BY <3>2 DEF AnyUnderWay
      <3>3. CASE b.by # Newest /\ Rearmed(b.by)
        <4>1. Newest \in Runners /\ ~switchedOff /\ armed'[Newest] = armed[Newest]
          BY <1>1, <3>3, BoundsAssumption DEF Rearmed, StartedOK, Runners
        <4>2. ASSUME NEW q \in Live, batch[q].by = Newest, batch[q].cur = Any \/ Any \in batch[q].todo
              PROVE  AnyUnderWay(Newest)'
          BY <1>1, <1>7, <2>1, <2>2, <3>3, <4>2, LiveFinite DEF AnyUnderWay
        <4>3. pendingWakes[Any] # 0 => AnyUnderWay(Newest)'
          BY <1>2, TargetTypes DEF AnyUnderWay
        <4>4. QED  BY <1>1, <4>1, <4>2, <4>3 DEF HeartbeatsGoOn, AnyUnderWay
      <3>4. QED  BY <1>4, <3>1, <3>2, <3>3
    <2>9. QED  BY <1>8, <1>9, <2>3, <2>4, <2>5, <2>6, <2>7, <2>8 DEF IInv
  <1>12. QED  BY <1>3, <1>10, <1>11

-----------------------------------------------------------------------------
(* Runners. *)

LEMMA StartStep ==
    ASSUME IInv, NEW r \in Runners, StartRunner(r)
    PROVE  IInv'
  <1>1. /\ TypeOK /\ StartedOK /\ HandlerOK /\ BatchOK /\ OverlapOK /\ OffOK /\ WakesNotLost
    BY DEF IInv
  <1>2. /\ r = Newest + 1 /\ runner' = [runner EXCEPT ![r] = "live"] /\ handler' = r
        /\ handlerGeneration' = handlerGeneration + 1
        /\ generation' = [generation EXCEPT ![r] = handlerGeneration + 1]
        /\ running' = FALSE /\ scheduled' = FALSE /\ cooling' = FALSE
        /\ timer' = IF HasPending(pendingWakes) THEN Schedule(NoTimer, Coalesce, "normal") ELSE NoTimer
        /\ switchedOff' = ~heartbeatsEnabled
        /\ UNCHANGED <<pendingWakes, batch, heartbeatsEnabled, requests, owed>>
    BY DEF StartRunner
  <1>3. PICK a \in Configs : agents' = [agents EXCEPT ![r] = a] /\ armed' = [armed EXCEPT ![r] = a]
    BY DEF StartRunner
  <1>4. a \in BOOLEAN
    BY BoundsAssumption
  <1>5. Newest' = Newest + 1 /\ StartedOK'
    <2>1. Started' = Started \cup {r} /\ r \notin Started
      BY <1>1, <1>2 DEF Started, StartedOK, TypeOK
    <2>2. IsFiniteSet(Started)
      <3>1. IsFiniteSet(Runners) /\ Started \subseteq Runners
        BY BoundsAssumption, FS_Interval DEF Runners, Started
      <3>2. QED  BY <3>1, FS_Subset
    <2>3. Newest' = Newest + 1
      BY <2>1, <2>2, FS_AddElement DEF Newest
    <2>4. \A q \in Runners : q # r => runner'[q] = runner[q]
      BY <1>1, <1>2 DEF TypeOK
    <2>5. runner'[r] = "live"
      BY <1>1, <1>2 DEF TypeOK
    <2>6. QED
      BY <1>1, <1>2, <2>3, <2>4, <2>5, BoundsAssumption DEF StartedOK, Runners
  <1>6. timer' \in Timers \cup {NoTimer} /\ (HasPending(pendingWakes) => timer' # NoTimer)
    <2>1. Schedule(NoTimer, Coalesce, "normal") \in Timers
      BY TargetTypes, ScheduleFacts
    <2>2. QED  BY <1>2, <2>1, TargetTypes
  <1>7. /\ handler' \in 0..MaxRunners /\ handlerGeneration' \in Nat
        /\ runner' \in [Runners -> {"new", "live", "stopped"}] /\ generation' \in [Runners -> Nat]
        /\ agents' \in [Runners -> BOOLEAN] /\ armed' \in [Runners -> BOOLEAN] /\ switchedOff' \in BOOLEAN
        /\ armed'[r] = a /\ agents'[r] = a
    BY <1>1, <1>2, <1>3, <1>4, BoundsAssumption DEF TypeOK, Runners
  <1>8. TypeOK'
    BY <1>1, <1>2, <1>6, <1>7 DEF TypeOK
  <1>9. Live' = Live
    BY <1>2, LiveKept
  <1>10. HandlerOK' /\ BatchOK' /\ OffOK' /\ RetryCooldownKept'
    BY <1>1, <1>2, <1>5 DEF HandlerOK, BatchOK, OffOK, RetryCooldownKept
  <1>11. OverlapOK'
    <2>1. Cardinality(Live) \in Nat /\ Newest \in Nat
      BY <1>1, LiveFinite, BoundsAssumption DEF StartedOK
    <2>2. QED  BY <1>1, <1>2, <1>5, <1>9, <2>1 DEF OverlapOK, OverlapOnlyByReplacement
  <1>12. WakesNotLost'
    BY <1>1, <1>2, <1>9 DEF WakesNotLost, InBatch
  <1>13. NoWakeForgotten'
    BY <1>2, <1>6 DEF NoWakeForgotten, HasPending
  <1>14. HeartbeatsGoOn'
    BY <1>2, <1>5, <1>7 DEF HeartbeatsGoOn
  <1>15. QED
    BY <1>5, <1>8, <1>10, <1>11, <1>12, <1>13, <1>14 DEF IInv

LEMMA StopStep ==
    ASSUME IInv, NEW r \in Runners, StopRunner(r)
    PROVE  IInv'
  <1>1. /\ TypeOK /\ StartedOK /\ HandlerOK /\ BatchOK /\ OverlapOK /\ OffOK /\ RetryCooldownKept
        /\ WakesNotLost /\ NoWakeForgotten /\ HeartbeatsGoOn
    BY DEF IInv
  <1>2. /\ runner[r] = "live" /\ runner' = [runner EXCEPT ![r] = "stopped"]
        /\ armed' = [armed EXCEPT ![r] = FALSE]
        /\ \/ handler = r /\ handler' = 0 /\ handlerGeneration' = handlerGeneration + 1
           \/ UNCHANGED <<handler, handlerGeneration>>
        /\ UNCHANGED <<pendingWakes, scheduled, running, timer, batch, generation, agents, heartbeatsEnabled,
                       requests, cooling, owed, switchedOff>>
    BY DEF StopRunner, Dispose, wakeVars
  <1>3. /\ runner'[r] = "stopped" /\ \A q \in Runners : q # r => runner'[q] = runner[q] /\ armed'[q] = armed[q]
    BY <1>1, <1>2 DEF TypeOK
  <1>4. Newest' = Newest
    <2>1. Started' = Started
      BY <1>2, <1>3 DEF Started
    <2>2. QED  BY <2>1 DEF Newest
  <1>5. TypeOK'
    <2>1. handler' \in 0..MaxRunners /\ handlerGeneration' \in Nat
      BY <1>1, <1>2, BoundsAssumption DEF TypeOK
    <2>2. runner' \in [Runners -> {"new", "live", "stopped"}] /\ armed' \in [Runners -> BOOLEAN]
      BY <1>1, <1>2 DEF TypeOK
    <2>3. QED  BY <1>1, <1>2, <2>1, <2>2 DEF TypeOK
  <1>6. StartedOK'
    BY <1>1, <1>2, <1>3, <1>4 DEF StartedOK
  <1>7. Newest # 0 => Newest \in Runners
    BY <1>1, BoundsAssumption DEF StartedOK, Runners
  <1>8. HandlerOK'
    BY <1>1, <1>2, <1>3, <1>4, <1>7, TargetTypes DEF HandlerOK
  <1>9. Live' = Live
    BY <1>2, LiveKept
  <1>10. BatchOK' /\ OverlapOK' /\ OffOK' /\ RetryCooldownKept' /\ WakesNotLost'
    BY <1>1, <1>2, <1>4, <1>9 DEF BatchOK, OverlapOK, OverlapOnlyByReplacement, OffOK, RetryCooldownKept,
                                  WakesNotLost, InBatch
  <1>11. NoWakeForgotten'
    BY <1>1, <1>2, <1>9 DEF NoWakeForgotten, HasPending
  <1>12. HeartbeatsGoOn'
    BY <1>1, <1>2, <1>3, <1>4, <1>7, <1>9 DEF HeartbeatsGoOn, AnyUnderWay
  <1>13. QED
    BY <1>5, <1>6, <1>8, <1>10, <1>11, <1>12 DEF IInv

LEMMA UpdateStep ==
    ASSUME IInv, NEW r \in Runners, NEW a \in Configs, UpdateConfig(r, a)
    PROVE  IInv'
  <1>1. /\ TypeOK /\ StartedOK /\ HandlerOK /\ BatchOK /\ OverlapOK /\ OffOK /\ RetryCooldownKept
        /\ WakesNotLost /\ NoWakeForgotten /\ HeartbeatsGoOn /\ a \in BOOLEAN
    BY BoundsAssumption DEF IInv
  <1>2. /\ r = Newest /\ runner[r] = "live" /\ agents' = [agents EXCEPT ![r] = a]
        /\ armed' = [armed EXCEPT ![r] = a] /\ switchedOff' = ~heartbeatsEnabled
        /\ UNCHANGED <<handler, handlerGeneration, pendingWakes, scheduled, running, timer, batch, runner,
                       generation, heartbeatsEnabled, requests, cooling, owed>>
    BY DEF UpdateConfig, ScheduleNext, wakeVars
  <1>3. /\ agents' \in [Runners -> BOOLEAN] /\ armed' \in [Runners -> BOOLEAN] /\ switchedOff' \in BOOLEAN
        /\ agents'[r] = a /\ armed'[r] = a
    BY <1>1, <1>2 DEF TypeOK
  <1>4. Newest' = Newest /\ Live' = Live
    BY <1>2, NewestKept, LiveKept
  <1>5. TypeOK'
    BY <1>1, <1>2, <1>3 DEF TypeOK
  <1>6. /\ StartedOK' /\ HandlerOK' /\ BatchOK' /\ OverlapOK' /\ OffOK' /\ RetryCooldownKept' /\ WakesNotLost'
    BY <1>1, <1>2, <1>4 DEF StartedOK, HandlerOK, BatchOK, OverlapOK, OverlapOnlyByReplacement, OffOK,
                            RetryCooldownKept, WakesNotLost, InBatch
  <1>7. NoWakeForgotten'
    BY <1>1, <1>2, <1>4 DEF NoWakeForgotten, HasPending
  <1>8. HeartbeatsGoOn'
    BY <1>2, <1>3, <1>4 DEF HeartbeatsGoOn
  <1>9. QED  BY <1>5, <1>6, <1>7, <1>8 DEF IInv

LEMMA SwitchStep ==
    ASSUME IInv, NEW e \in BOOLEAN, SetHeartbeatsEnabled(e)
    PROVE  IInv'
  <1>1. /\ TypeOK /\ StartedOK /\ HandlerOK /\ BatchOK /\ OverlapOK /\ OffOK /\ RetryCooldownKept
        /\ WakesNotLost /\ NoWakeForgotten /\ HeartbeatsGoOn
    BY DEF IInv
  <1>2. /\ heartbeatsEnabled' = e /\ switchedOff' = (switchedOff \/ ~e)
        /\ UNCHANGED <<handler, handlerGeneration, pendingWakes, scheduled, running, timer, batch, runner,
                       generation, agents, armed, requests, cooling, owed>>
    BY DEF SetHeartbeatsEnabled, wakeVars, runnerVars
  <1>3. Newest' = Newest /\ Live' = Live
    BY <1>2, NewestKept, LiveKept
  <1>4. TypeOK'
    <2>1. heartbeatsEnabled' \in BOOLEAN /\ switchedOff' \in BOOLEAN
      BY <1>2
    <2>2. QED  BY <1>1, <1>2, <2>1 DEF TypeOK
  <1>5. OffOK'
    BY <1>2 DEF OffOK
  <1>6. /\ StartedOK' /\ HandlerOK' /\ BatchOK' /\ OverlapOK' /\ RetryCooldownKept' /\ WakesNotLost'
    BY <1>1, <1>2, <1>3 DEF StartedOK, HandlerOK, BatchOK, OverlapOK, OverlapOnlyByReplacement,
                            RetryCooldownKept, WakesNotLost, InBatch
  <1>7. NoWakeForgotten'
    BY <1>1, <1>2, <1>3 DEF NoWakeForgotten, HasPending
  <1>8. HeartbeatsGoOn'
    <2>1. ~switchedOff' => ~switchedOff
      BY <1>2
    <2>2. QED  BY <1>1, <1>2, <1>3, <2>1 DEF HeartbeatsGoOn, AnyUnderWay
  <1>9. QED  BY <1>4, <1>5, <1>6, <1>7, <1>8 DEF IInv

-----------------------------------------------------------------------------
(* The inductive invariant, and what follows from it. *)

LEMMA InitIInv ==
    Init => IInv
  <1> SUFFICES ASSUME Init PROVE IInv
    OBVIOUS
  <1>1. Live = {} /\ Started = {}
    BY TargetTypes DEF Init, Live, Started
  <1>2. Newest = 0
    BY <1>1, FS_EmptySet DEF Newest
  <1>3. TypeOK
    <2>1. handler \in 0..MaxRunners /\ handlerGeneration \in Nat /\ requests \in 0..MaxRequests
      BY BoundsAssumption DEF Init
    <2>2. /\ pendingWakes \in [Targets -> Priorities] /\ timer \in Timers \cup {NoTimer}
          /\ batch \in [Slots -> Batches \cup {NoBatch}]
          /\ runner \in [Runners -> {"new", "live", "stopped"}] /\ generation \in [Runners -> Nat]
      BY DEF Init, Priorities
    <2>3. /\ agents \in [Runners -> BOOLEAN] /\ armed \in [Runners -> BOOLEAN] /\ owed \in [Targets -> BOOLEAN]
          /\ scheduled \in BOOLEAN /\ running \in BOOLEAN /\ heartbeatsEnabled \in BOOLEAN
          /\ cooling \in BOOLEAN /\ switchedOff \in BOOLEAN
      BY DEF Init
    <2>4. QED  BY <2>1, <2>2, <2>3 DEF TypeOK
  <1>4. StartedOK
    BY <1>2, BoundsAssumption DEF Init, StartedOK, Runners
  <1>5. HandlerOK /\ BatchOK /\ OffOK /\ RetryCooldownKept
    BY <1>2, TargetTypes DEF Init, HandlerOK, BatchOK, OffOK, RetryCooldownKept
  <1>6. OverlapOK
    BY <1>1, <1>2, FS_EmptySet DEF Init, OverlapOK, OverlapOnlyByReplacement
  <1>7. WakesNotLost /\ NoWakeForgotten /\ HeartbeatsGoOn
    BY <1>2 DEF Init, WakesNotLost, NoWakeForgotten, HeartbeatsGoOn
  <1>8. QED  BY <1>3, <1>4, <1>5, <1>6, <1>7 DEF IInv

LEMMA StutterStep ==
    ASSUME IInv, UNCHANGED vars
    PROVE  IInv'
  <1>1. UNCHANGED <<handler, handlerGeneration, pendingWakes, scheduled, running, timer, batch, runner,
                    generation, agents, armed, heartbeatsEnabled, requests, cooling, owed, switchedOff>>
    BY DEF vars, wakeVars, runnerVars
  <1>2. Newest' = Newest /\ Live' = Live
    BY <1>1, NewestKept, LiveKept
  <1>3. QED
    BY <1>1, <1>2 DEF IInv, TypeOK, StartedOK, HandlerOK, BatchOK, OverlapOK, OverlapOnlyByReplacement, OffOK,
                      RetryCooldownKept, WakesNotLost, InBatch, NoWakeForgotten, HasPending, HeartbeatsGoOn,
                      AnyUnderWay

\* The invariant holds in every state, whatever requests, answers, restarts,
\* reloads and switches come in whatever order.
THEOREM Inductive ==
    Spec => []IInv
  <1>1. IInv /\ [Next]_vars => IInv'
    <2> SUFFICES ASSUME IInv, [Next]_vars PROVE IInv'
      OBVIOUS
    <2>1. CASE \E t \in Targets, p \in RequestPriorities, d \in {0, Coalesce} : RequestHeartbeatNow(t, p, d)
      BY <2>1, RequestStep
    <2>2. CASE Tick \/ Fire
      BY <2>2, TimerStep, BeginBatchStep DEF Fire
    <2>3. CASE \E s \in Slots : WakeHandled(s) \/ WakeTurnedAway(s) \/ WakeThrows(s)
      BY <2>3, AnswerStep
    <2>4. CASE \E r \in Runners : StartRunner(r) \/ StopRunner(r) \/ IntervalElapses(r)
      BY <2>4, StartStep, StopStep, IntervalStep
    <2>5. CASE \E r \in Runners, a \in Configs : UpdateConfig(r, a)
      BY <2>5, UpdateStep
    <2>6. CASE \E e \in BOOLEAN : SetHeartbeatsEnabled(e)
      BY <2>6, SwitchStep
    <2>7. CASE UNCHANGED vars
      BY <2>7, StutterStep
    <2>8. QED  BY <2>1, <2>2, <2>3, <2>4, <2>5, <2>6, <2>7 DEF Next
  <1>2. QED  BY InitIInv, <1>1, PTL DEF Spec

\* The types of the wake layer and the runner.
THEOREM TypeCorrect ==
    Spec => []TypeOK
  <1>1. IInv => TypeOK
    BY DEF IInv
  <1>2. QED  BY Inductive, <1>1, PTL

\* No wake that was asked for is lost before it is served or refused.
THEOREM NothingLost ==
    Spec => []WakesNotLost
  <1>1. IInv => WakesNotLost
    BY DEF IInv
  <1>2. QED  BY Inductive, <1>1, PTL

\* While a handler is registered, a pending wake has a timer or a batch that
\* will set one.
THEOREM NothingForgotten ==
    Spec => []NoWakeForgotten
  <1>1. IInv => NoWakeForgotten
    BY DEF IInv
  <1>2. QED  BY Inductive, <1>1, PTL

\* Batches overlap at most once for each replacement of the handler.
THEOREM OverlapBounded ==
    Spec => []OverlapOnlyByReplacement
  <1>1. IInv => OverlapOnlyByReplacement
    BY DEF IInv, OverlapOK
  <1>2. QED  BY Inductive, <1>1, PTL

\* The disposer of an old registration leaves the newest one alone.
THEOREM NewestRegistered ==
    Spec => []NewestHandlerStays
  <1>1. IInv => NewestHandlerStays
    BY DEF IInv, HandlerOK, NewestHandlerStays
  <1>2. QED  BY Inductive, <1>1, PTL

\* A gateway with agents does not stop waking them: the interval timer is
\* armed, or the wake that arms it again is under way.
THEOREM IntervalsContinue ==
    Spec => []HeartbeatsGoOn
  <1>1. IInv => HeartbeatsGoOn
    BY DEF IInv
  <1>2. QED  BY Inductive, <1>1, PTL

\* Nothing brings a retry forward.
THEOREM CooldownKept ==
    Spec => []RetryCooldownKept
  <1>1. IInv => RetryCooldownKept
    BY DEF IInv
  <1>2. QED  BY Inductive, <1>1, PTL
=============================================================================

------------------------- MODULE FollowupQueueProofs -------------------------
(***************************************************************************)
(* Proofs about FollowupQueue, for any messages, settings, cap and number  *)
(* of queue objects and any number of failures, replies and clears: a      *)
(* queue object is draining exactly while a drain works on it, no backlog  *)
(* lies idle, no message is run twice and, where nothing may be dropped or *)
(* cleared, none is lost and turns keep the order of arrival.              *)
(***************************************************************************)
EXTENDS FollowupQueue, WellFoundedInduction, TLAPS

Ats == {"none", "debounce", "skipped"} \cup Turns

\* The fields of a queue object and of a drain; what the items are does not
\* matter here.
IsQueue(q) ==
    q \in [items : {q.items}, draining : BOOLEAN, mode : {q.mode},
           dropPolicy : {q.dropPolicy}, droppedCount : {q.droppedCount},
           summaryLines : {q.summaryLines}]
IsDrain(d) ==
    d \in [at : Ats, force : {d.force}, batch : {d.batch}, rest : {d.rest},
           summary : {d.summary}]

Queues(qs) == qs = [o \in Objs |-> qs[o]] /\ \A o \in Objs : IsQueue(qs[o])
Drains(ds) == ds = [o \in Objs |-> ds[o]] /\ \A o \in Objs : IsDrain(ds[o])

Shape == Queues(queues) /\ Drains(drain) /\ current \in Objs \cup {None}

\* The flag of a queue object says whether a drain works on it.
Matches(qs, ds) == \A o \in Objs : qs[o].draining <=> ds[o].at # "none"
DrainingExact == Matches(queues, drain)

\* The registered object's work is taken care of.
Covered == current # None /\ HasWork(queues[current]) => queues[current].draining

IInv == Shape /\ DrainingExact /\ NoIdleBacklog

-----------------------------------------------------------------------------
(* The registry and the drain's life cycle.                                *)

\* Scheduling covers the registered object's work.
LEMMA ScheduleCovers ==
    ASSUME NEW qs, NEW ds, NEW cur \in Objs \cup {None},
           Queues(qs), Drains(ds), Matches(qs, ds),
           ScheduleFollowupDrain(qs, ds, cur)
    PROVE  Shape' /\ DrainingExact' /\ Covered'
<1>1. CASE cur = None \/ qs[cur].draining
  BY <1>1 DEF ScheduleFollowupDrain, Shape, DrainingExact, Covered
<1>2. CASE ~(cur = None \/ qs[cur].draining) /\ HasWork(qs[cur])
  <2>1. cur \in Objs /\ current' = cur
    BY <1>2 DEF ScheduleFollowupDrain
  <2>2. queues' = [qs EXCEPT ![cur].draining = TRUE]
    BY <1>2 DEF ScheduleFollowupDrain
  <2>3. drain' = [ds EXCEPT ![cur] = FreshDrain]
    BY <1>2 DEF ScheduleFollowupDrain
  <2>4. IsQueue(queues'[cur]) /\ queues'[cur].draining
    BY <2>1, <2>2 DEF Queues, IsQueue
  <2>5. Queues(queues')
    BY <2>1, <2>2, <2>4 DEF Queues
  <2>6. IsDrain(FreshDrain) /\ FreshDrain.at = "debounce"
    BY DEF IsDrain, FreshDrain, NoDrain, Ats
  <2>7. Drains(drain') /\ drain'[cur] = FreshDrain
    BY <2>1, <2>3, <2>6 DEF Drains
  <2>8. \A o \in Objs : o # cur => queues'[o] = qs[o] /\ drain'[o] = ds[o]
    BY <2>1, <2>2, <2>3 DEF Queues, Drains
  <2>9. DrainingExact'
    BY <2>4, <2>6, <2>7, <2>8 DEF DrainingExact, Matches
  <2> QED
    BY <2>1, <2>4, <2>5, <2>7, <2>9 DEF Shape, Covered
<1>3. CASE ~(cur = None \/ qs[cur].draining) /\ ~HasWork(qs[cur])
  BY <1>3 DEF ScheduleFollowupDrain, Shape, DrainingExact, Covered
<1> QED
  BY <1>1, <1>2, <1>3

\* A change of a queue object that keeps its draining flag.
Kept(qs) == Queues(qs) /\ \A o \in Objs : qs[o].draining = queues[o].draining

\* The end of a drain covers what is registered by then, or takes it out.
LEMMA EndCovers ==
    ASSUME IInv, NEW qs, Kept(qs), NEW o \in Objs, EndDrain(o, qs)
    PROVE  Shape' /\ DrainingExact' /\ Covered'
<1> DEFINE idle == [qs EXCEPT ![o].draining = FALSE]
           ds == [drain EXCEPT ![o] = NoDrain]
<1>1. IsQueue(idle[o]) /\ ~idle[o].draining
  BY DEF Kept, Queues, IsQueue
<1>2. \A p \in Objs : p # o => idle[p] = qs[p] /\ ds[p] = drain[p]
  BY DEF Kept, Queues, IInv, Shape, Drains
<1>3. Queues(idle)
  BY <1>1, <1>2 DEF Kept, Queues
<1>4. ds[o] = NoDrain /\ IsDrain(NoDrain) /\ NoDrain.at = "none"
  BY DEF IInv, Shape, Drains, IsDrain, NoDrain, Ats
<1>5. Drains(ds)
  BY <1>4 DEF IInv, Shape, Drains
<1>6. Matches(idle, ds)
  BY <1>1, <1>2, <1>4 DEF Matches, Kept, IInv, DrainingExact
<1>7. CASE HasWork(qs[o])
  <2>1. ScheduleFollowupDrain(idle, ds, current)
    BY <1>7 DEF EndDrain
  <2> HIDE DEF idle, ds
  <2> QED
    BY <2>1, <1>3, <1>5, <1>6, ScheduleCovers DEF IInv, Shape
<1>8. CASE ~HasWork(qs[o])
  <2>1. queues' = idle /\ drain' = ds /\ current' = None
    BY <1>8 DEF EndDrain
  <2> HIDE DEF idle, ds
  <2> QED
    BY <2>1, <1>3, <1>5, <1>6 DEF Shape, DrainingExact, Covered
<1> QED
  BY <1>7, <1>8

\* After a turn the drain goes on with its object, or ends.
LEMMA LoopKeeps ==
    ASSUME IInv, NEW qs, Kept(qs), NEW o \in Objs, drain[o].at # "none", LoopAgain(o, qs)
    PROVE  IInv'
<1>1. CASE HasWork(qs[o])
  <2> DEFINE d == [NoDrain EXCEPT !.at = "debounce", !.force = drain[o].force]
  <2>1. queues' = qs /\ drain' = [drain EXCEPT ![o] = d] /\ current' = current
    BY <1>1 DEF LoopAgain
  <2>2. IsDrain(d) /\ d.at = "debounce"
    BY DEF IsDrain, NoDrain, Ats
  <2> HIDE DEF d
  <2>3. drain'[o] = d /\ \A p \in Objs : p # o => drain'[p] = drain[p]
    BY <2>1 DEF IInv, Shape, Drains
  <2>4. Shape'
    BY <2>1, <2>2, <2>3 DEF IInv, Shape, Drains, Kept
  <2>5. DrainingExact'
    BY <2>1, <2>2, <2>3 DEF IInv, DrainingExact, Matches, Kept
  <2>6. NoIdleBacklog'
    <3>1. CASE current' = o
      BY <3>1, <2>2, <2>3, <2>5 DEF NoIdleBacklog, DrainingExact, Matches
    <3>2. CASE current' # o
      BY <3>2, <2>2, <2>3 DEF NoIdleBacklog
    <3> QED
      BY <3>1, <3>2
  <2> QED
    BY <2>4, <2>5, <2>6 DEF IInv
<1>2. CASE ~HasWork(qs[o])
  <2>1. EndDrain(o, qs)
    BY <1>2 DEF LoopAgain
  <2>2. Shape' /\ DrainingExact' /\ Covered'
    BY <2>1, EndCovers
  <2> QED
    BY <2>2 DEF IInv, Covered, NoIdleBacklog
<1> QED
  BY <1>1, <1>2

\* A drain that begins to await something keeps its flag.
LEMMA AwaitKeeps ==
    ASSUME IInv, NEW o \in Objs, drain[o].at # "none", ~Running(o), UNCHANGED replying,
           NEW at \in Ats \ {"none"}, NEW batch, NEW rest, NEW summary, NEW force,
           AwaitTurn(o, at, batch, rest, summary, force)
    PROVE  IInv'
<1> DEFINE d == [at |-> at, force |-> force, batch |-> batch, rest |-> rest,
                 summary |-> summary]
<1>1. drain' = [drain EXCEPT ![o] = d] /\ queues' = queues /\ current' = current
  BY DEF AwaitTurn
<1>2. IsDrain(d) /\ d.at = at
  BY DEF IsDrain
<1> HIDE DEF d
<1>3. drain'[o] = d /\ \A p \in Objs : p # o => drain'[p] = drain[p]
  BY <1>1 DEF IInv, Shape, Drains
<1>4. Shape'
  BY <1>1, <1>2, <1>3 DEF IInv, Shape, Drains
<1>5. DrainingExact'
  BY <1>1, <1>2, <1>3 DEF IInv, DrainingExact, Matches
<1>6. NoIdleBacklog'
  <2>1. CASE current' = o
    BY <2>1, <1>2, <1>3, <1>5 DEF NoIdleBacklog, DrainingExact, Matches
  <2>2. CASE current' # o
    BY <2>2, <1>2, <1>3 DEF NoIdleBacklog
  <2> QED
    BY <2>1, <2>2
<1> QED
  BY <1>4, <1>5, <1>6 DEF IInv

-----------------------------------------------------------------------------
(* Messages and turns outside the drain.                                   *)

LEMMA DropPolicyKeeps ==
    ASSUME NEW q, IsQueue(q)
    PROVE  IsQueue(ApplyQueueDropPolicy(q)) /\ ApplyQueueDropPolicy(q).draining = q.draining
<1> DEFINE n == Len(q.items) - Cap + 1
           lines == q.summaryLines \o SubSeq(q.items, 1, n)
           over == IF Len(lines) > Cap THEN Len(lines) - Cap ELSE 0
           rest == [q EXCEPT !.items = DropFirst(q.items, n)]
           full == [rest EXCEPT !.droppedCount = q.droppedCount + n,
                                !.summaryLines = DropFirst(lines, over)]
<1>1. ApplyQueueDropPolicy(q) \in {q, rest, full}
  BY DEF ApplyQueueDropPolicy
<1>2. IsQueue(rest) /\ rest.draining = q.draining
  BY DEF IsQueue
<1> HIDE DEF rest
<1>3. IsQueue(full) /\ full.draining = q.draining
  BY <1>2 DEF IsQueue
<1> QED
  BY <1>1, <1>2, <1>3

\* The object a message goes to, with the message's settings.
LEMMA TargetKeeps ==
    ASSUME IInv, ObjectAtHand, NEW s
    PROVE  /\ Target \in Objs
           /\ IsQueue(WithSettings(s))
           /\ WithSettings(s).draining = queues[Target].draining
<1> DEFINE q == IF current # None THEN queues[current] ELSE EmptyQueue
<1>1. Target \in Objs /\ q.draining = queues[Target].draining
  <2>1. CASE current # None
    BY <2>1 DEF Target, IInv, Shape
  <2>2. CASE current = None
    <3>1. Target \in Objs /\ drain[Target].at = "none"
      BY <2>2 DEF Target, ObjectAtHand
    <3>2. queues[Target].draining = FALSE
      BY <3>1 DEF IInv, Shape, Queues, IsQueue, DrainingExact, Matches
    <3> QED
      BY <2>2, <3>1, <3>2 DEF EmptyQueue
  <2> QED
    BY <2>1, <2>2
<1>2. IsQueue(q)
  BY DEF IInv, Shape, Queues, IsQueue, EmptyQueue
<1>3. WithSettings(s) = [q EXCEPT !.mode = s.mode, !.dropPolicy = s.dropPolicy]
  BY DEF WithSettings
<1> HIDE DEF q
<1>4. IsQueue(WithSettings(s)) /\ WithSettings(s).draining = q.draining
  BY <1>2, <1>3 DEF IsQueue
<1> QED
  BY <1>1, <1>4

\* While a turn is active, the end of that turn covers the backlog.
LEMMA IdleScheduleKeeps ==
    ASSUME IInv, NEW qs, Kept(qs), NEW cur \in Objs, UNCHANGED replying,
           ScheduleIfIdle(qs, cur)
    PROVE  IInv'
<1>1. CASE RunActive
  <2>1. queues' = qs /\ drain' = drain /\ current' = cur
    BY <1>1 DEF ScheduleIfIdle
  <2>2. RunActive'
    BY <1>1, <2>1 DEF RunActive, Running
  <2>3. NoIdleBacklog'
    BY <2>2 DEF NoIdleBacklog
  <2> QED
    BY <2>1, <2>3 DEF IInv, Shape, DrainingExact, Matches, Kept
<1>2. CASE ~RunActive
  <2>1. ScheduleFollowupDrain(qs, drain, cur)
    BY <1>2 DEF ScheduleIfIdle
  <2>2. Matches(qs, drain)
    BY DEF IInv, DrainingExact, Matches, Kept
  <2>3. Shape' /\ DrainingExact' /\ Covered'
    BY <2>1, <2>2, ScheduleCovers DEF IInv, Shape, Kept
  <2> QED
    BY <2>3 DEF IInv, Covered, NoIdleBacklog
<1> QED
  BY <1>1, <1>2

\* Replacing one object by one that drains as it did.
LEMMA ReplaceKeeps ==
    ASSUME IInv, NEW o \in Objs, NEW q, IsQueue(q), q.draining = queues[o].draining
    PROVE  Kept([queues EXCEPT ![o] = q])
BY DEF Kept, IInv, Shape, Queues

LEMMA RefusedKeeps ==
    ASSUME IInv, NEW m \in Msgs, NEW s \in Settings, EnqueueRefused(m, s)
    PROVE  IInv'
<1>1. /\ ObjectAtHand /\ UNCHANGED replying
      /\ ScheduleIfIdle([queues EXCEPT ![Target] = WithSettings(s)], Target)
  BY DEF EnqueueRefused
<1>2. Target \in Objs /\ Kept([queues EXCEPT ![Target] = WithSettings(s)])
  BY <1>1, TargetKeeps, ReplaceKeeps
<1> QED
  BY <1>1, <1>2, IdleScheduleKeeps

LEMMA EnqueueKeeps ==
    ASSUME IInv, NEW m \in Msgs, NEW s \in Settings, EnqueueFollowupRun(m, s)
    PROVE  IInv'
<1> DEFINE room == ApplyQueueDropPolicy(WithSettings(s))
           more == [room EXCEPT !.items = Append(@, m)]
<1>1. /\ ObjectAtHand /\ UNCHANGED replying
      /\ ScheduleIfIdle([queues EXCEPT ![Target] = more], Target)
  BY DEF EnqueueFollowupRun
<1>2. /\ Target \in Objs
      /\ IsQueue(room)
      /\ room.draining = queues[Target].draining
  BY <1>1, TargetKeeps, DropPolicyKeeps
<1> HIDE DEF room
<1>3. IsQueue(more) /\ more.draining = room.draining
  BY <1>2 DEF IsQueue
<1> HIDE DEF more
<1>4. Kept([queues EXCEPT ![Target] = more])
  BY <1>2, <1>3, ReplaceKeeps
<1> QED
  BY <1>1, <1>2, <1>4, IdleScheduleKeeps

LEMMA ReplyKeeps == ASSUME IInv, ReplyStarts \/ ReplyEnds PROVE IInv'
<1>1. CASE ReplyStarts
  <2>1. replying' = TRUE /\ UNCHANGED <<queues, drain, current>>
    BY <1>1 DEF ReplyStarts
  <2> QED
    BY <2>1 DEF IInv, Shape, DrainingExact, NoIdleBacklog, RunActive
<1>2. CASE ReplyEnds
  <2>1. ScheduleFollowupDrain(queues, drain, current)
    BY <1>2 DEF ReplyEnds
  <2>2. Shape' /\ DrainingExact' /\ Covered'
    BY <2>1, ScheduleCovers DEF IInv, Shape, DrainingExact
  <2> QED
    BY <2>2 DEF IInv, Covered, NoIdleBacklog
<1> QED
  BY <1>1, <1>2

LEMMA ClearKeeps == ASSUME IInv, ClearFollowupQueue PROVE IInv'
<1> DEFINE q == [queues[current] EXCEPT !.items = <<>>, !.droppedCount = 0,
                                        !.summaryLines = <<>>]
<1>1. /\ current \in Objs /\ current' = None /\ drain' = drain
      /\ queues' = [queues EXCEPT ![current] = q]
  BY DEF ClearFollowupQueue, IInv, Shape
<1>2. IsQueue(q) /\ q.draining = queues[current].draining
  BY <1>1 DEF IInv, Shape, Queues, IsQueue
<1> HIDE DEF q
<1>3. Kept(queues')
  BY <1>1, <1>2, ReplaceKeeps
<1> QED
  BY <1>1, <1>3 DEF IInv, Shape, DrainingExact, Matches, Kept, NoIdleBacklog

-----------------------------------------------------------------------------
(* The drain.                                                              *)

\* The queues as they are, and with the items or the summary of one changed.
LEMMA KeptAsIs == ASSUME IInv PROVE Kept(queues)
BY DEF Kept, IInv, Shape

LEMMA ItemsKept ==
    ASSUME IInv, NEW o \in Objs, NEW items
    PROVE  LET q == [queues[o] EXCEPT !.items = items]
           IN  /\ IsQueue(q) /\ q.draining = queues[o].draining
               /\ Kept([queues EXCEPT ![o] = q])
               /\ Kept([queues EXCEPT ![o] = ClearQueueSummaryState(q)])
<1> DEFINE q == [queues[o] EXCEPT !.items = items]
           c == ClearQueueSummaryState(q)
<1>1. IsQueue(q) /\ q.draining = queues[o].draining
  BY DEF IInv, Shape, Queues, IsQueue
<1> HIDE DEF q
<1>2. IsQueue(c) /\ c.draining = queues[o].draining
  BY <1>1 DEF IsQueue, ClearQueueSummaryState
<1> HIDE DEF c
<1>3. Kept([queues EXCEPT ![o] = q]) /\ Kept([queues EXCEPT ![o] = c])
  BY <1>1, <1>2, ReplaceKeeps
<1> QED
  BY <1>1, <1>3 DEF q, c

LEMMA EndKeeps ==
    ASSUME IInv, NEW qs, Kept(qs), NEW o \in Objs, EndDrain(o, qs)
    PROVE  IInv'
<1>1. Shape' /\ DrainingExact' /\ Covered'
  BY EndCovers
<1> QED
  BY <1>1 DEF IInv, Covered, NoIdleBacklog

\* The steps that begin a turn.
LEMMA TurnBegins ==
    ASSUME IInv, NEW o \in Objs, CollectTurn(o) \/ CollectBatch(o) \/ FollowupTurn(o)
    PROVE  IInv'
<1>1. drain[o].at # "none" /\ ~Running(o) /\ UNCHANGED replying
  BY DEF CollectTurn, CollectBatch, FollowupTurn, Running, Turns
<1>2. \/ EndDrain(o, queues)
      \/ \E at \in Ats \ {"none"} : \E batch, rest, summary, force :
            AwaitTurn(o, at, batch, rest, summary, force)
  <2>1. CASE CollectTurn(o)
    BY <2>1 DEF CollectTurn, Ats, Turns
  <2>2. CASE CollectBatch(o)
    BY <2>2 DEF CollectBatch, Ats, Turns
  <2>3. CASE FollowupTurn(o)
    BY <2>3 DEF FollowupTurn, Ats, Turns
  <2> QED
    BY <2>1, <2>2, <2>3
<1> QED
  BY <1>1, <1>2, KeptAsIs, EndKeeps, AwaitKeeps

\* The next batch of a snapshot: the drain keeps running.
LEMMA NextBatchKeeps ==
    ASSUME IInv, NEW qs, Kept(qs), NEW o \in Objs, Running(o), NEW batch, NEW rest,
           queues' = qs, UNCHANGED current,
           drain' = [drain EXCEPT ![o] =
                        [drain[o] EXCEPT !.batch = batch, !.rest = rest,
                                         !.summary = <<>>]]
    PROVE  IInv'
<1> DEFINE d == [drain[o] EXCEPT !.batch = batch, !.rest = rest, !.summary = <<>>]
<1>1. IsDrain(d) /\ d.at = drain[o].at
  BY DEF IInv, Shape, Drains, IsDrain
<1> HIDE DEF d
<1>2. drain'[o] = d /\ \A p \in Objs : p # o => drain'[p] = drain[p]
  BY DEF d, IInv, Shape, Drains
<1>3. drain' = [drain EXCEPT ![o] = d]
  BY DEF d
<1>4. Shape'
  BY <1>1, <1>2, <1>3 DEF IInv, Shape, Drains, Kept
<1>5. DrainingExact'
  BY <1>1, <1>2 DEF IInv, DrainingExact, Matches, Kept
<1>6. RunActive'
  BY <1>1, <1>2 DEF RunActive, Running
<1> QED
  BY <1>4, <1>5, <1>6 DEF IInv, NoIdleBacklog

\* The steps that end a turn.
LEMMA TurnEnds ==
    ASSUME IInv, NEW o \in Objs,
           NextDone(o) \/ SummaryOnlyDone(o) \/ GroupDone(o) \/ TurnFails(o)
    PROVE  IInv'
<1>1. CASE NextDone(o)
  <2> DEFINE q == [queues[o] EXCEPT !.items = DropFirst(@, 1)]
             qs == [queues EXCEPT ![o] = IF drain[o].at = "next" THEN q
                                         ELSE ClearQueueSummaryState(q)]
  <2>1. drain[o].at # "none" /\ LoopAgain(o, qs)
    BY <1>1 DEF NextDone
  <2>2. Kept(qs)
    BY ItemsKept
  <2> HIDE DEF qs
  <2> QED
    BY <2>1, <2>2, LoopKeeps
<1>2. CASE SummaryOnlyDone(o)
  <2> DEFINE c == ClearQueueSummaryState(queues[o])
  <2>1. drain[o].at # "none" /\ LoopAgain(o, [queues EXCEPT ![o] = c])
    BY <1>2 DEF SummaryOnlyDone
  <2>2. IsQueue(c) /\ c.draining = queues[o].draining
    BY DEF IInv, Shape, Queues, IsQueue, ClearQueueSummaryState
  <2> HIDE DEF c
  <2>3. Kept([queues EXCEPT ![o] = c])
    BY <2>2, ReplaceKeeps
  <2> QED
    BY <2>1, <2>3, LoopKeeps
<1>3. CASE GroupDone(o)
  <2> DEFINE d == drain[o]
             q == [queues[o] EXCEPT !.items = DropFirst(@, Len(d.batch))]
             qs == [queues EXCEPT ![o] = IF d.summary # <<>>
                                         THEN ClearQueueSummaryState(q) ELSE q]
  <2>1. Kept(qs)
    BY ItemsKept
  <2>2. d.at = "group" /\ Running(o)
    BY <1>3 DEF GroupDone, Running, Turns
  <2>3. CASE d.rest # <<>>
    <3>1. /\ queues' = qs /\ UNCHANGED current
          /\ drain' = [drain EXCEPT ![o] =
                          [d EXCEPT !.batch = FirstGroup(d.rest),
                                    !.rest = LaterGroups(d.rest), !.summary = <<>>]]
      BY <1>3, <2>3 DEF GroupDone
    <3> HIDE DEF qs
    <3> QED
      BY <2>1, <2>2, <3>1, NextBatchKeeps
  <2>4. CASE d.rest = <<>>
    <3>1. LoopAgain(o, qs)
      BY <1>3, <2>4 DEF GroupDone
    <3> HIDE DEF qs
    <3> QED
      BY <2>1, <2>2, <3>1, LoopKeeps
  <2> QED
    BY <2>3, <2>4
<1>4. CASE TurnFails(o)
  BY <1>4, KeptAsIs, EndKeeps DEF TurnFails
<1> QED
  BY <1>1, <1>2, <1>3, <1>4

-----------------------------------------------------------------------------
LEMMA InitOK == ASSUME Init PROVE IInv
<1>1. \A o \in Objs : queues[o] = EmptyQueue /\ drain[o] = NoDrain
  BY DEF Init
<1>2. IsQueue(EmptyQueue) /\ ~EmptyQueue.draining /\ IsDrain(NoDrain) /\ NoDrain.at = "none"
  BY DEF EmptyQueue, NoDrain, IsQueue, IsDrain, Ats
<1> QED
  BY <1>1, <1>2 DEF Init, IInv, Shape, Queues, Drains, DrainingExact, Matches, NoIdleBacklog

LEMMA StepOK == ASSUME IInv, [Next]_vars PROVE IInv'
<1>1. ASSUME NEW m \in Msgs, NEW s \in Settings,
             EnqueueFollowupRun(m, s) \/ EnqueueRefused(m, s)
      PROVE  IInv'
  BY <1>1, EnqueueKeeps, RefusedKeeps
<1>2. CASE ReplyStarts \/ ReplyEnds
  BY <1>2, ReplyKeeps
<1>3. CASE ClearFollowupQueue
  BY <1>3, ClearKeeps
<1>4. ASSUME NEW o \in Objs, DrainStep(o) PROVE IInv'
  BY <1>4, TurnBegins, TurnEnds DEF DrainStep
<1>5. CASE UNCHANGED vars
  BY <1>5 DEF vars, IInv, Shape, DrainingExact, NoIdleBacklog, RunActive, Running
<1> QED
  BY <1>1, <1>2, <1>3, <1>4, <1>5 DEF Next

\* A queue object is flagged as draining exactly while a drain works on it: no
\* object is left flagged without a drain, which would stop its queue for good, and
\* none gets a second one.
THEOREM DrainingIsExact == Spec => []DrainingExact
<1>1. IInv => DrainingExact
  BY DEF IInv
<1> QED
  BY InitOK, StepOK, <1>1, PTL DEF Spec

\* No backlog lies idle, however enqueues, turns, failures and clears interleave.
THEOREM BacklogsAreDrained == Spec => []NoIdleBacklog
<1>1. IInv => NoIdleBacklog
  BY DEF IInv
<1> QED
  BY InitOK, StepOK, <1>1, PTL DEF Spec

-----------------------------------------------------------------------------
(* Sequences of messages.                                                  *)

\* Every nonempty set of numbers has a least one.
LEMMA LeastNumber ==
    ASSUME NEW T, T \subseteq Nat, T # {}
    PROVE  \E x \in T : \A y \in T : x <= y
<1> DEFINE R == OpToRel(<, Nat)
<1>1. \A x, y \in Nat : x < y => <<x, y>> \in R
  BY DEF OpToRel
<1>2. IsWellFoundedOn(R, Nat)
  BY NatLessThanWellFounded
<1> HIDE DEF R
<1>3. PICK x \in T : \A y \in T : ~(<<y, x>> \in R)
  BY <1>2, WFMin
<1>4. ASSUME NEW y \in T PROVE x <= y
  <2>1. x \in Nat /\ y \in Nat
    BY <1>3
  <2>2. ~(y < x)
    BY <1>1, <1>3, <2>1
  <2> QED
    BY <2>1, <2>2
<1> QED
  BY <1>3, <1>4

LEMMA DropFacts ==
    ASSUME NEW s \in Seq(Msgs), NEW n \in Nat
    PROVE  /\ DropFirst(s, n) \in Seq(Msgs)
           /\ Len(DropFirst(s, n)) = IF n <= Len(s) THEN Len(s) - n ELSE 0
           /\ \A i \in 1..Len(DropFirst(s, n)) :
                 n + i \in 1..Len(s) /\ DropFirst(s, n)[i] = s[n + i]
<1>1. Len(s) \in Nat /\ (n + 1 \in 1..(Len(s) + 1) \/ n > Len(s))
  OBVIOUS
<1>2. CASE n <= Len(s)
  BY <1>2 DEF DropFirst
<1>3. CASE n > Len(s)
  BY <1>3 DEF DropFirst
<1> QED
  BY <1>2, <1>3

LEMMA DropAll == ASSUME NEW s \in Seq(Msgs) PROVE DropFirst(s, Len(s)) = <<>>
<1>1. DropFirst(s, Len(s)) \in Seq(Msgs) /\ Len(DropFirst(s, Len(s))) = 0
  BY DropFacts
<1> QED
  BY <1>1

\* A group is a nonempty prefix of what is left of the snapshot.
LEMMA GroupLengthFacts ==
    ASSUME NEW s \in Seq(Msgs), s # <<>>
    PROVE  GroupLength(s) \in 1..Len(s)
<1> DEFINE Ends(n) == /\ \A i \in 1..n : Authorization[s[i]] = Authorization[s[1]]
                      /\ n < Len(s) => Authorization[s[n + 1]] # Authorization[s[1]]
<1>1. Len(s) \in Nat \ {0} /\ DOMAIN s = 1..Len(s)
  OBVIOUS
<1>2. \E n \in 1..Len(s) : Ends(n)
  <2> DEFINE T == {i \in 1..Len(s) : Authorization[s[i]] # Authorization[s[1]]}
  <2>1. CASE T = {}
    <3>1. Ends(Len(s))
      BY <1>1, <2>1
    <3> QED
      BY <1>1, <3>1
  <2>2. CASE T # {}
    <3>1. T \subseteq Nat
      OBVIOUS
    <3>2. PICK i \in T : \A j \in T : i <= j
      <4> HIDE DEF T
      <4> QED
        BY <2>2, <3>1, LeastNumber
    <3>3. i \in 1..Len(s) /\ i # 1 /\ i - 1 \in 1..Len(s) /\ (i - 1) + 1 = i
      BY <1>1, <3>2
    <3>4. Ends(i - 1)
      BY <3>2, <3>3
    <3> QED
      BY <3>3, <3>4
  <2> QED
    BY <2>1, <2>2
<1>3. GroupLength(s) = CHOOSE n \in DOMAIN s : Ends(n)
  BY DEF GroupLength
<1> HIDE DEF Ends
<1> QED
  BY <1>1, <1>2, <1>3

LEMMA GroupFacts ==
    ASSUME NEW s \in Seq(Msgs), s # <<>>
    PROVE  LET n == GroupLength(s)
           IN  /\ n \in 1..Len(s)
               /\ FirstGroup(s) \in Seq(Msgs) /\ Len(FirstGroup(s)) = n
               /\ \A i \in 1..n : FirstGroup(s)[i] = s[i]
               /\ LaterGroups(s) \in Seq(Msgs) /\ Len(LaterGroups(s)) = Len(s) - n
               /\ \A i \in 1..(Len(s) - n) : LaterGroups(s)[i] = s[n + i]
<1> DEFINE n == GroupLength(s)
<1>1. n \in 1..Len(s) /\ Len(s) \in Nat
  BY GroupLengthFacts
<1> HIDE DEF n
<1>2. /\ SubSeq(s, 1, n) \in Seq(Msgs) /\ Len(SubSeq(s, 1, n)) = n
      /\ \A i \in 1..n : SubSeq(s, 1, n)[i] = s[i]
  BY <1>1
<1>3. /\ DropFirst(s, n) \in Seq(Msgs) /\ Len(DropFirst(s, n)) = Len(s) - n
      /\ \A i \in 1..(Len(s) - n) : DropFirst(s, n)[i] = s[n + i]
  BY <1>1, DropFacts
<1> QED
  BY <1>1, <1>2, <1>3 DEF FirstGroup, LaterGroups, n

Members(s) == {s[i] : i \in 1..Len(s)}
Distinct(s) == \A i, j \in 1..Len(s) : s[i] = s[j] => i = j

\* Items, the batch under way and the rest of its snapshot: a message is in at most
\* one place of each, and drops from the front have only moved it forward.
Snapshot(items, batch, rest) ==
    /\ items \in Seq(Msgs) /\ batch \in Seq(Msgs) /\ rest \in Seq(Msgs)
    /\ Distinct(items) /\ Distinct(batch) /\ Distinct(rest)
    /\ Members(batch) \cap Members(rest) = {}
    /\ \A p \in 1..Len(items), q \in 1..Len(batch) : items[p] = batch[q] => p <= q
    /\ \A p \in 1..Len(items), q \in 1..Len(rest) :
          items[p] = rest[q] => p <= Len(batch) + q

LEMMA SnapshotAppend ==
    ASSUME NEW items, NEW batch, NEW rest, Snapshot(items, batch, rest), NEW m \in Msgs,
           m \notin Members(items), m \notin Members(batch), m \notin Members(rest)
    PROVE  /\ Snapshot(Append(items, m), batch, rest)
           /\ Members(Append(items, m)) = Members(items) \cup {m}
<1> DEFINE new == Append(items, m)
<1>1. /\ new \in Seq(Msgs) /\ Len(items) \in Nat /\ Len(new) = Len(items) + 1
      /\ \A i \in 1..Len(items) : new[i] = items[i]
      /\ new[Len(items) + 1] = m
  BY DEF Snapshot
<1>2. \A i \in 1..Len(new) : i \in 1..Len(items) \/ i = Len(items) + 1
  BY <1>1
<1> HIDE DEF new
<1>3. Members(new) = Members(items) \cup {m}
  BY <1>1, <1>2 DEF Members
<1>4. Distinct(new)
  BY <1>1, <1>2 DEF Distinct, Snapshot, Members
<1>5. \A p \in 1..Len(new), q \in 1..Len(batch) : new[p] = batch[q] => p <= q
  BY <1>1, <1>2 DEF Snapshot, Members
<1>6. \A p \in 1..Len(new), q \in 1..Len(rest) : new[p] = rest[q] => p <= Len(batch) + q
  BY <1>1, <1>2 DEF Snapshot, Members
<1> QED
  BY <1>1, <1>3, <1>4, <1>5, <1>6 DEF Snapshot, new

LEMMA SnapshotDrop ==
    ASSUME NEW items, NEW batch, NEW rest, Snapshot(items, batch, rest), NEW n \in Nat
    PROVE  /\ Snapshot(DropFirst(items, n), batch, rest)
           /\ Members(DropFirst(items, n)) \subseteq Members(items)
<1> DEFINE new == DropFirst(items, n)
<1>1. /\ new \in Seq(Msgs) /\ Len(items) \in Nat /\ Len(new) \in Nat
      /\ \A i \in 1..Len(new) : n + i \in 1..Len(items) /\ new[i] = items[n + i]
  BY DropFacts DEF Snapshot
<1> HIDE DEF new
<1>2. Members(new) \subseteq Members(items)
  BY <1>1 DEF Members
<1>3. Distinct(new)
  BY <1>1 DEF Distinct, Snapshot
<1>4. \A p \in 1..Len(new), q \in 1..Len(batch) : new[p] = batch[q] => p <= q
  <2> TAKE p \in 1..Len(new), q \in 1..Len(batch)
  <2>1. new[p] = batch[q] => n + p <= q
    BY <1>1 DEF Snapshot
  <2> QED
    BY <2>1, <1>1 DEF Snapshot
<1>5. \A p \in 1..Len(new), q \in 1..Len(rest) : new[p] = rest[q] => p <= Len(batch) + q
  <2> TAKE p \in 1..Len(new), q \in 1..Len(rest)
  <2>1. new[p] = rest[q] => n + p <= Len(batch) + q
    BY <1>1 DEF Snapshot
  <2>2. Len(batch) \in Nat
    BY DEF Snapshot
  <2> QED
    BY <2>1, <2>2, <1>1
<1> QED
  BY <1>1, <1>2, <1>3, <1>4, <1>5 DEF Snapshot, new

\* A drain that holds nothing.
LEMMA SnapshotEmpty ==
    ASSUME NEW items \in Seq(Msgs), Distinct(items)
    PROVE  Snapshot(items, <<>>, <<>>)
BY DEF Snapshot, Distinct, Members

\* The oldest item alone.
LEMMA SnapshotNext ==
    ASSUME NEW items \in Seq(Msgs), Distinct(items), items # <<>>
    PROVE  Snapshot(items, <<Head(items)>>, <<>>) /\ Head(items) \in Members(items)
<1> DEFINE b == <<Head(items)>>
<1>1. /\ Head(items) = items[1] /\ 1 \in 1..Len(items) /\ items[1] \in Msgs
      /\ b \in Seq(Msgs) /\ Len(b) = 1 /\ b[1] = items[1]
  OBVIOUS
<1> HIDE DEF b
<1>2. Distinct(b) /\ \A p \in 1..Len(items), q \in 1..Len(b) : items[p] = b[q] => p <= q
  BY <1>1 DEF Distinct
<1> QED
  BY <1>1, <1>2 DEF Snapshot, Members, Distinct, b

\* The next group of the rest, when the batch before it is spliced off.
LEMMA SnapshotGroup ==
    ASSUME NEW items, NEW batch, NEW rest, Snapshot(items, batch, rest)
    PROVE  /\ Members(DropFirst(items, Len(batch))) \cap Members(batch) = {}
           /\ rest # <<>> =>
                 /\ Snapshot(DropFirst(items, Len(batch)), FirstGroup(rest), LaterGroups(rest))
                 /\ Members(FirstGroup(rest)) \subseteq Members(rest)
                 /\ Members(LaterGroups(rest)) \subseteq Members(rest)
<1> DEFINE n == Len(batch)
           new == DropFirst(items, n)
<1>1. n \in Nat /\ Len(rest) \in Nat
  BY DEF Snapshot
<1>2. /\ new \in Seq(Msgs) /\ Len(new) \in Nat
      /\ \A i \in 1..Len(new) : n + i \in 1..Len(items) /\ new[i] = items[n + i]
  BY <1>1, DropFacts DEF Snapshot
<1>3. Distinct(new)
  BY <1>1, SnapshotDrop DEF Snapshot
<1>4. \A p \in 1..Len(new), q \in 1..Len(rest) : new[p] = rest[q] => p <= q
  <2> TAKE p \in 1..Len(new), q \in 1..Len(rest)
  <2>1. new[p] = rest[q] => n + p <= n + q
    BY <1>2 DEF Snapshot
  <2> QED
    BY <2>1, <1>1, <1>2
<1>5. Members(new) \cap Members(batch) = {}
  <2> SUFFICES ASSUME NEW p \in 1..Len(new), NEW q \in 1..n, new[p] = batch[q] PROVE FALSE
    BY DEF Members
  <2>1. n + p <= q
    BY <1>2 DEF Snapshot
  <2> QED
    BY <2>1, <1>1, <1>2
<1>6. ASSUME rest # <<>>
      PROVE  /\ Snapshot(new, FirstGroup(rest), LaterGroups(rest))
             /\ Members(FirstGroup(rest)) \subseteq Members(rest)
             /\ Members(LaterGroups(rest)) \subseteq Members(rest)
  <2> DEFINE f == FirstGroup(rest)
             g == LaterGroups(rest)
             k == GroupLength(rest)
  <2>1. /\ k \in 1..Len(rest)
        /\ f \in Seq(Msgs) /\ Len(f) = k /\ \A i \in 1..k : f[i] = rest[i]
        /\ g \in Seq(Msgs) /\ Len(g) = Len(rest) - k
        /\ \A i \in 1..(Len(rest) - k) : g[i] = rest[k + i]
    BY <1>6, GroupFacts DEF Snapshot
  <2> HIDE DEF f, g, k, new, n
  <2>2. /\ k \in Nat
        /\ \A i \in 1..Len(f) : i \in 1..Len(rest) /\ f[i] = rest[i]
        /\ \A i \in 1..Len(g) : k + i \in 1..Len(rest) /\ g[i] = rest[k + i]
    BY <2>1, <1>1
  <2>3. Distinct(f) /\ Distinct(g)
    <3>1. Distinct(rest)
      BY DEF Snapshot
    <3>2. Distinct(f)
      BY <3>1, <2>2 DEF Distinct
    <3>3. ASSUME NEW i \in 1..Len(g), NEW j \in 1..Len(g), g[i] = g[j] PROVE i = j
      <4>1. k + i = k + j
        BY <3>1, <3>3, <2>2 DEF Distinct
      <4> QED
        BY <4>1, <2>2
    <3> QED
      BY <3>2, <3>3 DEF Distinct
  <2>4. Members(f) \subseteq Members(rest) /\ Members(g) \subseteq Members(rest)
    <3>1. \A i \in 1..Len(f) : f[i] \in Members(rest)
      BY <2>2 DEF Members
    <3>2. \A i \in 1..Len(g) : g[i] \in Members(rest)
      BY <2>2 DEF Members
    <3> QED
      BY <3>1, <3>2 DEF Members
  <2>5. Members(f) \cap Members(g) = {}
    <3> SUFFICES ASSUME NEW i \in 1..Len(f), NEW j \in 1..Len(g), f[i] = g[j] PROVE FALSE
      BY DEF Members
    <3>1. rest[i] = rest[k + j] /\ i # k + j
      BY <2>1, <2>2, <1>1
    <3> QED
      BY <3>1, <2>2 DEF Snapshot, Distinct
  <2>6. \A p \in 1..Len(new), q \in 1..Len(f) : new[p] = f[q] => p <= q
    BY <1>4, <2>1, <2>2
  <2>7. \A p \in 1..Len(new), q \in 1..Len(g) : new[p] = g[q] => p <= Len(f) + q
    BY <1>4, <2>1, <2>2
  <2> QED
    BY <1>2, <1>3, <2>1, <2>3, <2>4, <2>5, <2>6, <2>7 DEF Snapshot, f, g
<1> QED
  BY <1>5, <1>6

-----------------------------------------------------------------------------
(* No message is run twice.                                                *)

\* The messages an object still holds for a turn.
Held(o) == Members(queues[o].items) \cup Members(drain[o].batch) \cup Members(drain[o].rest)

SnapshotOf(o) == Snapshot(queues[o].items, drain[o].batch, drain[o].rest)
SmallBatch(o) == drain[o].at \in {"next", "summaryNext"} => Len(drain[o].batch) <= 1

\* What is held was accepted, was not run, and is held once.
OnceOK ==
    /\ recent \subseteq Msgs /\ delivered \in Seq(Msgs)
    /\ Distinct(delivered) /\ Members(delivered) \subseteq recent
    /\ \A o \in Objs : SnapshotOf(o) /\ SmallBatch(o)
    /\ \A o \in Objs : Held(o) \subseteq recent /\ Held(o) \cap Members(delivered) = {}
    /\ \A o, p \in Objs : o # p => Held(o) \cap Held(p) = {}

\* A drain that holds no message.
Blank(d) == d.batch = <<>> /\ d.rest = <<>> /\ d.at \in {"none", "debounce"}

\* The items are those of qs, and a drain goes on as it was or holds nothing.
Moves(qs, ds) ==
    \A p \in Objs : /\ queues'[p].items = qs[p].items
                    /\ drain'[p] = ds[p] \/ Blank(drain'[p])

LEMMA ScheduleMoves ==
    ASSUME NEW qs, NEW ds, NEW cur \in Objs \cup {None},
           Queues(qs), Drains(ds), ScheduleFollowupDrain(qs, ds, cur)
    PROVE  Moves(qs, ds)
<1>1. CASE queues' = qs /\ drain' = ds
  BY <1>1 DEF Moves
<1>2. CASE ~(queues' = qs /\ drain' = ds)
  <2>1. cur \in Objs /\ queues' = [qs EXCEPT ![cur].draining = TRUE]
    BY <1>2 DEF ScheduleFollowupDrain
  <2>2. drain' = [ds EXCEPT ![cur] = FreshDrain]
    BY <1>2 DEF ScheduleFollowupDrain
  <2>3. Blank(FreshDrain)
    BY DEF Blank, FreshDrain, NoDrain
  <2>4. \A p \in Objs : drain'[p] = ds[p] \/ drain'[p] = FreshDrain
    BY <2>1, <2>2 DEF Drains
  <2>5. \A p \in Objs : queues'[p].items = qs[p].items
    BY <2>1 DEF Queues, IsQueue
  <2> QED
    BY <2>3, <2>4, <2>5 DEF Moves
<1> QED
  BY <1>1, <1>2

LEMMA EndMoves ==
    ASSUME Shape, NEW qs, Queues(qs), NEW o \in Objs, EndDrain(o, qs)
    PROVE  Moves(qs, drain) /\ Blank(drain'[o])
<1> DEFINE idle == [qs EXCEPT ![o].draining = FALSE]
           ds == [drain EXCEPT ![o] = NoDrain]
<1>1. Blank(NoDrain) /\ IsDrain(NoDrain)
  BY DEF Blank, NoDrain, IsDrain, Ats
<1>2. Queues(idle) /\ \A p \in Objs : idle[p].items = qs[p].items
  BY DEF Queues, IsQueue
<1>3. /\ Drains(ds) /\ ds[o] = NoDrain
      /\ \A p \in Objs : ds[p] = drain[p] \/ ds[p] = NoDrain
  BY <1>1 DEF Shape, Drains
<1>4. Moves(idle, ds)
  <2>1. CASE HasWork(qs[o])
    <3>1. ScheduleFollowupDrain(idle, ds, current)
      BY <2>1 DEF EndDrain
    <3> HIDE DEF idle, ds
    <3> QED
      BY <3>1, <1>2, <1>3, ScheduleMoves DEF Shape
  <2>2. CASE ~HasWork(qs[o])
    <3>1. queues' = idle /\ drain' = ds
      BY <2>2 DEF EndDrain
    <3> QED
      BY <3>1 DEF Moves
  <2> QED
    BY <2>1, <2>2
<1> HIDE DEF idle, ds
<1> QED
  BY <1>1, <1>2, <1>3, <1>4 DEF Moves

LEMMA LoopMoves ==
    ASSUME Shape, NEW qs, Queues(qs), NEW o \in Objs, LoopAgain(o, qs)
    PROVE  Moves(qs, drain) /\ Blank(drain'[o])
<1>1. CASE HasWork(qs[o])
  <2> DEFINE d == [NoDrain EXCEPT !.at = "debounce", !.force = drain[o].force]
  <2>1. queues' = qs /\ drain' = [drain EXCEPT ![o] = d]
    BY <1>1 DEF LoopAgain
  <2>2. Blank(d)
    BY DEF Blank, NoDrain
  <2> HIDE DEF d
  <2> QED
    BY <2>1, <2>2 DEF Moves, Shape, Drains
<1>2. CASE ~HasWork(qs[o])
  BY <1>2, EndMoves DEF LoopAgain
<1> QED
  BY <1>1, <1>2

LEMMA BlankHoldsNothing ==
    ASSUME NEW d, Blank(d)
    PROVE  Members(d.batch) = {} /\ Members(d.rest) = {}
BY DEF Blank, Members

\* Blanking a drain keeps its object's invariants.
LEMMA BlankKeeps ==
    ASSUME NEW o \in Objs, NEW items, Snapshot(items, drain[o].batch, drain[o].rest),
           SmallBatch(o), queues'[o].items = items,
           drain'[o] = drain[o] \/ Blank(drain'[o])
    PROVE  SnapshotOf(o)' /\ SmallBatch(o)'
<1>1. CASE drain'[o] = drain[o]
  BY <1>1 DEF SnapshotOf, SmallBatch
<1>2. CASE Blank(drain'[o])
  <2>1. Snapshot(items, <<>>, <<>>)
    BY SnapshotEmpty DEF Snapshot
  <2> QED
    BY <1>2, <2>1 DEF SnapshotOf, SmallBatch, Blank
<1> QED
  BY <1>1, <1>2

\* Messages may be let go of, and those of the set B have been run.
LEMMA OnceKept ==
    ASSUME OnceOK, NEW B, B \subseteq recent, recent' = recent,
           delivered' \in Seq(Msgs), Distinct(delivered'),
           Members(delivered') \subseteq Members(delivered) \cup B,
           \A p \in Objs : SnapshotOf(p)' /\ SmallBatch(p)',
           \A p \in Objs : Held(p)' \subseteq Held(p) \ B
    PROVE  OnceOK'
<1>1. (\A o, p \in Objs : o # p => Held(o) \cap Held(p) = {})'
  BY DEF OnceOK
<1>2. (\A o \in Objs : Held(o) \subseteq recent /\ Held(o) \cap Members(delivered) = {})'
  BY DEF OnceOK
<1> QED
  BY <1>1, <1>2 DEF OnceOK

\* Nothing is run.
LEMMA OnceMoves ==
    ASSUME OnceOK, NEW qs, Moves(qs, drain), UNCHANGED <<recent, delivered>>,
           \A p \in Objs : /\ Members(qs[p].items) \subseteq Members(queues[p].items)
                           /\ Snapshot(qs[p].items, drain[p].batch, drain[p].rest)
    PROVE  OnceOK'
<1>1. ASSUME NEW p \in Objs
      PROVE  SnapshotOf(p)' /\ SmallBatch(p)' /\ Held(p)' \subseteq Held(p)
  <2>1. SnapshotOf(p)' /\ SmallBatch(p)'
    BY BlankKeeps DEF OnceOK, Moves
  <2>2. Held(p)' \subseteq Held(p)
    BY BlankHoldsNothing DEF Held, Moves
  <2> QED
    BY <2>1, <2>2
<1> QED
  BY <1>1, OnceKept DEF OnceOK

\* Dropping the first n items of one object.
LEMMA DropShrinks ==
    ASSUME OnceOK, Shape, NEW o \in Objs, NEW q, NEW n \in Nat,
           q.items = DropFirst(queues[o].items, n)
    PROVE  LET qs == [queues EXCEPT ![o] = q] IN
           \A p \in Objs : /\ Members(qs[p].items) \subseteq Members(queues[p].items)
                           /\ Snapshot(qs[p].items, drain[p].batch, drain[p].rest)
<1> DEFINE qs == [queues EXCEPT ![o] = q]
<1>1. qs[o] = q /\ \A p \in Objs : p # o => qs[p] = queues[p]
  BY DEF Shape, Queues
<1>2. \A p \in Objs : SnapshotOf(p)
  BY DEF OnceOK
<1>3. /\ Members(q.items) \subseteq Members(queues[o].items)
      /\ Snapshot(q.items, drain[o].batch, drain[o].rest)
  BY <1>2, SnapshotDrop DEF SnapshotOf
<1> HIDE DEF qs
<1>4. \A p \in Objs : /\ Members(qs[p].items) \subseteq Members(queues[p].items)
                      /\ Snapshot(qs[p].items, drain[p].batch, drain[p].rest)
  BY <1>1, <1>2, <1>3 DEF SnapshotOf
<1> QED
  BY <1>4 DEF qs

LEMMA ConcatFacts ==
    ASSUME NEW s \in Seq(Msgs), NEW t \in Seq(Msgs)
    PROVE  /\ s \o t \in Seq(Msgs) /\ Len(s \o t) = Len(s) + Len(t)
           /\ \A i \in 1..Len(s) : (s \o t)[i] = s[i]
           /\ \A i \in 1..Len(t) : (s \o t)[Len(s) + i] = t[i]
           /\ \A i \in 1..Len(s \o t) :
                 \/ i \in 1..Len(s) /\ (s \o t)[i] = s[i]
                 \/ i - Len(s) \in 1..Len(t) /\ (s \o t)[i] = t[i - Len(s)]
OBVIOUS

LEMMA DistinctConcat ==
    ASSUME NEW s \in Seq(Msgs), NEW t \in Seq(Msgs), Distinct(s), Distinct(t),
           Members(s) \cap Members(t) = {}
    PROVE  /\ Distinct(s \o t)
           /\ Members(s \o t) \subseteq Members(s) \cup Members(t)
<1> DEFINE c == s \o t
<1>1. \A i \in 1..Len(c) : \/ i \in 1..Len(s) /\ c[i] = s[i]
                           \/ i - Len(s) \in 1..Len(t) /\ c[i] = t[i - Len(s)]
  BY ConcatFacts
<1>2. Len(s) \in Nat /\ Len(t) \in Nat /\ Len(c) \in Nat
  BY ConcatFacts
<1> HIDE DEF c
<1>3. ASSUME NEW i \in 1..Len(c), NEW j \in 1..Len(c), c[i] = c[j] PROVE i = j
  <2>1. CASE i \in 1..Len(s) /\ j \in 1..Len(s) /\ c[i] = s[i] /\ c[j] = s[j]
    BY <2>1, <1>3 DEF Distinct
  <2>2. CASE /\ i - Len(s) \in 1..Len(t) /\ j - Len(s) \in 1..Len(t)
             /\ c[i] = t[i - Len(s)] /\ c[j] = t[j - Len(s)]
    <3>1. i - Len(s) = j - Len(s)
      BY <2>2, <1>3 DEF Distinct
    <3> QED
      BY <3>1, <1>2
  <2>3. ASSUME NEW x \in 1..Len(c), NEW y \in 1..Len(c), x \in 1..Len(s), c[x] = s[x],
               y - Len(s) \in 1..Len(t), c[y] = t[y - Len(s)], c[x] = c[y]
        PROVE  FALSE
    BY <2>3 DEF Members
  <2> QED
    BY <1>1, <1>3, <2>1, <2>2, <2>3
<1>4. Members(c) \subseteq Members(s) \cup Members(t)
  BY <1>1 DEF Members
<1> QED
  BY <1>3, <1>4 DEF Distinct, c

\* A turn ends: the batch was run, its items are gone, the drain holds what it
\* says.
LEMMA OnceDeliver ==
    ASSUME OnceOK, NEW o \in Objs, recent' = recent,
           delivered' = delivered \o drain[o].batch,
           \A p \in Objs : SnapshotOf(p)' /\ SmallBatch(p)',
           \A p \in Objs \ {o} : Held(p)' \subseteq Held(p),
           Held(o)' \subseteq Held(o) \ Members(drain[o].batch)
    PROVE  OnceOK'
<1> DEFINE b == drain[o].batch
           B == Members(b)
<1>1. b \in Seq(Msgs) /\ Distinct(b) /\ B \subseteq Held(o)
  BY DEF OnceOK, SnapshotOf, Snapshot, Held
<1>2. B \subseteq recent /\ B \cap Members(delivered) = {}
  BY <1>1 DEF OnceOK
<1>3. /\ delivered' \in Seq(Msgs) /\ Distinct(delivered')
      /\ Members(delivered') \subseteq Members(delivered) \cup B
  <2>1. delivered \in Seq(Msgs) /\ Distinct(delivered)
    BY DEF OnceOK
  <2> HIDE DEF b
  <2>2. delivered' = delivered \o b
    BY DEF b
  <2> QED
    BY <1>1, <1>2, <2>1, <2>2, DistinctConcat, ConcatFacts
<1>4. \A p \in Objs : Held(p)' \subseteq Held(p) \ B
  <2>1. \A p \in Objs \ {o} : Held(p) \cap B = {}
    BY <1>1 DEF OnceOK
  <2> QED
    BY <2>1
<1> QED
  BY <1>2, <1>3, <1>4, OnceKept

\* Settings and drop policies take items from the front, or all of them.
LEMMA TargetShrinks ==
    ASSUME OnceOK, IInv, ObjectAtHand, NEW s
    PROVE  \E n \in Nat : WithSettings(s).items = DropFirst(queues[Target].items, n)
<1> DEFINE q == IF current # None THEN queues[current] ELSE EmptyQueue
<1>1. WithSettings(s).items = q.items
  <2>1. IsQueue(q)
    BY DEF IInv, Shape, Queues, IsQueue, EmptyQueue
  <2>2. WithSettings(s) = [q EXCEPT !.mode = s.mode, !.dropPolicy = s.dropPolicy]
    BY DEF WithSettings
  <2> HIDE DEF q
  <2> QED
    BY <2>1, <2>2 DEF IsQueue
<1>2. Target \in Objs
  BY TargetKeeps
<1>3. queues[Target].items \in Seq(Msgs)
  BY <1>2 DEF OnceOK, SnapshotOf, Snapshot
<1>4. CASE current # None
  <2>1. q.items = DropFirst(queues[Target].items, 0)
    BY <1>3, <1>4 DEF Target, DropFirst
  <2> QED
    BY <1>1, <2>1
<1>5. CASE current = None
  <2>1. q.items = DropFirst(queues[Target].items, Len(queues[Target].items))
    BY <1>3, <1>5, DropAll DEF EmptyQueue
  <2> QED
    BY <1>1, <1>3, <2>1
<1> QED
  BY <1>4, <1>5

LEMMA PolicyShrinks ==
    ASSUME NEW q, IsQueue(q), q.items \in Seq(Msgs)
    PROVE  \E n \in Nat : ApplyQueueDropPolicy(q).items = DropFirst(q.items, n)
<1> DEFINE n == Len(q.items) - Cap + 1
           lines == q.summaryLines \o SubSeq(q.items, 1, n)
           over == IF Len(lines) > Cap THEN Len(lines) - Cap ELSE 0
           rest == [q EXCEPT !.items = DropFirst(q.items, n)]
           full == [rest EXCEPT !.droppedCount = q.droppedCount + n,
                                !.summaryLines = DropFirst(lines, over)]
<1>1. CASE Len(q.items) < Cap
  <2>1. ApplyQueueDropPolicy(q).items = DropFirst(q.items, 0)
    BY <1>1 DEF ApplyQueueDropPolicy, DropFirst
  <2> QED
    BY <2>1
<1>2. CASE ~(Len(q.items) < Cap)
  <2>1. n \in Nat
    BY <1>2, FollowupAssumption
  <2>2. ApplyQueueDropPolicy(q) \in {rest, full}
    BY <1>2 DEF ApplyQueueDropPolicy
  <2> HIDE DEF n
  <2>3. rest.items = DropFirst(q.items, n) /\ IsQueue(rest)
    BY DEF IsQueue
  <2> HIDE DEF rest
  <2>4. full.items = rest.items
    BY <2>3 DEF IsQueue
  <2> QED
    BY <2>1, <2>2, <2>3, <2>4
<1> QED
  BY <1>1, <1>2

LEMMA IdleMoves ==
    ASSUME Shape, NEW qs, Queues(qs), NEW cur \in Objs, ScheduleIfIdle(qs, cur)
    PROVE  Moves(qs, drain)
<1>1. CASE RunActive
  BY <1>1 DEF ScheduleIfIdle, Moves
<1>2. CASE ~RunActive
  BY <1>2, ScheduleMoves DEF ScheduleIfIdle, Shape
<1> QED
  BY <1>1, <1>2

LEMMA RefusedOnce ==
    ASSUME IInv, OnceOK, NEW m \in Msgs, NEW s \in Settings, EnqueueRefused(m, s)
    PROVE  OnceOK'
<1> DEFINE qs == [queues EXCEPT ![Target] = WithSettings(s)]
<1>1. /\ ObjectAtHand /\ UNCHANGED <<recent, delivered>> /\ ScheduleIfIdle(qs, Target)
  BY DEF EnqueueRefused
<1>2. Target \in Objs /\ Queues(qs)
  BY <1>1, TargetKeeps, ReplaceKeeps DEF Kept
<1>3. PICK n \in Nat : WithSettings(s).items = DropFirst(queues[Target].items, n)
  BY <1>1, TargetShrinks
<1>4. \A p \in Objs : /\ Members(qs[p].items) \subseteq Members(queues[p].items)
                      /\ Snapshot(qs[p].items, drain[p].batch, drain[p].rest)
  BY <1>2, <1>3, DropShrinks DEF IInv
<1> HIDE DEF qs
<1>5. Moves(qs, drain)
  BY <1>1, <1>2, IdleMoves DEF IInv
<1> QED
  BY <1>1, <1>4, <1>5, OnceMoves

\* What is appended was accepted before nowhere.
LEMMA EnqueueOnce ==
    ASSUME IInv, OnceOK, NEW m \in Msgs, NEW s \in Settings, EnqueueFollowupRun(m, s)
    PROVE  OnceOK'
<1> DEFINE q == WithSettings(s)
           room == ApplyQueueDropPolicy(q)
           more == [room EXCEPT !.items = Append(@, m)]
           qs == [queues EXCEPT ![Target] = more]
           t == Target
           old == queues[t].items
<1>1. /\ ObjectAtHand /\ m \notin recent /\ recent' = recent \cup {m}
      /\ delivered' = delivered /\ ScheduleIfIdle(qs, t)
  BY DEF EnqueueFollowupRun
<1>2. /\ t \in Objs
      /\ IsQueue(q)
      /\ q.draining = queues[t].draining
  BY <1>1, TargetKeeps
<1>3. IsQueue(room) /\ room.draining = queues[t].draining
  BY <1>2, DropPolicyKeeps
<1>4. SnapshotOf(t) /\ \A p \in Objs : m \notin Held(p)
  BY <1>1, <1>2 DEF OnceOK
<1>5. /\ Snapshot(q.items, drain[t].batch, drain[t].rest)
      /\ Members(q.items) \subseteq Members(old)
  <2>1. PICK n \in Nat : q.items = DropFirst(old, n)
    BY <1>1, TargetShrinks
  <2> HIDE DEF q
  <2> QED
    BY <2>1, <1>4, SnapshotDrop DEF SnapshotOf
<1>6. /\ Snapshot(room.items, drain[t].batch, drain[t].rest)
      /\ Members(room.items) \subseteq Members(old)
  <2> HIDE DEF q
  <2>1. PICK n \in Nat : room.items = DropFirst(q.items, n)
    BY <1>2, <1>5, PolicyShrinks DEF Snapshot
  <2> HIDE DEF room
  <2> QED
    BY <2>1, <1>5, SnapshotDrop
<1> HIDE DEF q, room
<1>7. /\ IsQueue(more) /\ more.draining = room.draining
      /\ more.items = Append(room.items, m)
  BY <1>3 DEF IsQueue
<1>8. /\ Snapshot(more.items, drain[t].batch, drain[t].rest)
      /\ Members(more.items) \subseteq Members(old) \cup {m}
  <2>1. /\ m \notin Members(room.items) /\ m \notin Members(drain[t].batch)
        /\ m \notin Members(drain[t].rest)
    BY <1>2, <1>4, <1>6 DEF Held
  <2> QED
    BY <2>1, <1>6, <1>7, SnapshotAppend
<1> HIDE DEF more
<1>9. Queues(qs) /\ qs[t] = more /\ \A p \in Objs : p # t => qs[p] = queues[p]
  <2>1. Queues(qs)
    BY <1>2, <1>3, <1>7, ReplaceKeeps DEF Kept
  <2> QED
    BY <2>1, <1>2 DEF IInv, Shape, Queues
<1> HIDE DEF qs
<1>10. Moves(qs, drain)
  BY <1>1, <1>2, <1>9, IdleMoves DEF IInv
<1>11. ASSUME NEW p \in Objs
       PROVE  /\ SnapshotOf(p)' /\ SmallBatch(p)'
              /\ Held(p)' \subseteq Held(p) \cup (IF p = t THEN {m} ELSE {})
  <2>1. Snapshot(qs[p].items, drain[p].batch, drain[p].rest) /\ SmallBatch(p)
    BY <1>8, <1>9 DEF OnceOK, SnapshotOf
  <2>2. SnapshotOf(p)' /\ SmallBatch(p)'
    BY <2>1, <1>10, BlankKeeps DEF Moves
  <2>3. Members(qs[p].items) \subseteq Members(queues[p].items) \cup (IF p = t THEN {m} ELSE {})
    BY <1>8, <1>9
  <2>4. Held(p)' \subseteq Held(p) \cup (IF p = t THEN {m} ELSE {})
    BY <2>3, <1>10, BlankHoldsNothing DEF Held, Moves
  <2> QED
    BY <2>2, <2>4
<1>12. (\A o \in Objs : Held(o) \subseteq recent /\ Held(o) \cap Members(delivered) = {})'
  BY <1>1, <1>11 DEF OnceOK
<1>13. (\A o, p \in Objs : o # p => Held(o) \cap Held(p) = {})'
  BY <1>1, <1>4, <1>11 DEF OnceOK
<1> HIDE DEF t
<1> QED
  BY <1>1, <1>11, <1>12, <1>13 DEF OnceOK

LEMMA ReplyOnce ==
    ASSUME IInv, OnceOK, ReplyStarts \/ ReplyEnds
    PROVE  OnceOK'
<1>1. UNCHANGED <<recent, delivered>>
  BY DEF ReplyStarts, ReplyEnds
<1>2. Moves(queues, drain)
  <2>1. CASE ReplyStarts
    BY <2>1 DEF ReplyStarts, Moves
  <2>2. CASE ReplyEnds
    BY <2>2, ScheduleMoves DEF ReplyEnds, IInv, Shape
  <2> QED
    BY <2>1, <2>2
<1> QED
  BY <1>1, <1>2, OnceMoves DEF OnceOK, SnapshotOf

LEMMA ClearOnce == ASSUME IInv, OnceOK, ClearFollowupQueue PROVE OnceOK'
<1> DEFINE q == [queues[current] EXCEPT !.items = <<>>, !.droppedCount = 0,
                                        !.summaryLines = <<>>]
           n == Len(queues[current].items)
           qs == [queues EXCEPT ![current] = q]
<1>1. /\ current \in Objs /\ drain' = drain /\ UNCHANGED <<recent, delivered>>
      /\ queues' = qs
  BY DEF ClearFollowupQueue, IInv, Shape
<1>2. queues[current].items \in Seq(Msgs)
  BY <1>1 DEF OnceOK, SnapshotOf, Snapshot
<1>3. q.items = <<>>
  BY <1>1 DEF IInv, Shape, Queues, IsQueue
<1>4. n \in Nat /\ q.items = DropFirst(queues[current].items, n)
  BY <1>2, <1>3, DropAll
<1> HIDE DEF q, n
<1>5. \A p \in Objs : /\ Members(qs[p].items) \subseteq Members(queues[p].items)
                      /\ Snapshot(qs[p].items, drain[p].batch, drain[p].rest)
  BY <1>1, <1>4, DropShrinks DEF IInv
<1> HIDE DEF qs
<1>6. Moves(qs, drain)
  BY <1>1 DEF Moves
<1> QED
  BY <1>1, <1>5, <1>6, OnceMoves

LEMMA EndOnce ==
    ASSUME IInv, OnceOK, NEW o \in Objs, EndDrain(o, queues), UNCHANGED <<recent, delivered>>
    PROVE  OnceOK'
<1>1. Moves(queues, drain)
  BY EndMoves DEF IInv, Shape
<1> QED
  BY <1>1, OnceMoves DEF OnceOK, SnapshotOf

\* A drain takes items of its object for the turn to come.
LEMMA AwaitOnce ==
    ASSUME IInv, OnceOK, NEW o \in Objs, NEW at, NEW batch, NEW rest, NEW summary, NEW force,
           AwaitTurn(o, at, batch, rest, summary, force), UNCHANGED <<recent, delivered>>,
           Snapshot(queues[o].items, batch, rest),
           Members(batch) \cup Members(rest) \subseteq Members(queues[o].items),
           at \in {"next", "summaryNext"} => Len(batch) <= 1
    PROVE  OnceOK'
<1> DEFINE d == [at |-> at, force |-> force, batch |-> batch, rest |-> rest,
                 summary |-> summary]
<1>1. drain' = [drain EXCEPT ![o] = d] /\ queues' = queues
  BY DEF AwaitTurn
<1>2. d.at = at /\ d.batch = batch /\ d.rest = rest
  OBVIOUS
<1> HIDE DEF d
<1>3. drain'[o] = d /\ \A p \in Objs : p # o => drain'[p] = drain[p]
  BY <1>1 DEF IInv, Shape, Drains
<1>4. ASSUME NEW p \in Objs
      PROVE  SnapshotOf(p)' /\ SmallBatch(p)' /\ Held(p)' \subseteq Held(p)
  <2>1. CASE p = o
    BY <1>1, <1>2, <1>3, <2>1 DEF SnapshotOf, SmallBatch, Held
  <2>2. CASE p # o
    BY <1>1, <1>3, <2>2 DEF OnceOK, SnapshotOf, SmallBatch, Held
  <2> QED
    BY <2>1, <2>2
<1> QED
  BY <1>4, OnceKept DEF OnceOK

\* The snapshot of a collected batch is the object's items.
LEMMA SnapshotAll ==
    ASSUME NEW items \in Seq(Msgs), Distinct(items), items # <<>>
    PROVE  LET f == FirstGroup(items)
               g == LaterGroups(items)
           IN  Snapshot(items, f, g) /\ Members(f) \cup Members(g) \subseteq Members(items)
<1>1. Snapshot(items, <<>>, items)
  BY DEF Snapshot, Distinct, Members
<1>2. Len(<<>>) = 0 /\ DropFirst(items, 0) = items
  BY DEF DropFirst
<1> QED
  BY <1>1, <1>2, SnapshotGroup

LEMMA BeginOnce ==
    ASSUME IInv, OnceOK, NEW o \in Objs, CollectTurn(o) \/ CollectBatch(o) \/ FollowupTurn(o)
    PROVE  OnceOK'
<1> DEFINE items == queues[o].items
<1>1. UNCHANGED <<recent, delivered>>
  BY DEF CollectTurn, CollectBatch, FollowupTurn
<1>2. items \in Seq(Msgs) /\ Distinct(items)
  BY DEF OnceOK, SnapshotOf, Snapshot
<1>3. \/ EndDrain(o, queues)
      \/ \E at \in Ats \ {"group"} : \E summary, force :
            AwaitTurn(o, at, <<>>, <<>>, summary, force)
      \/ \E force : items # <<>> /\ AwaitTurn(o, "next", <<Head(items)>>, <<>>, <<>>, force)
      \/ \E summary : items # <<>> /\ AwaitTurn(o, "group", FirstGroup(items),
                                                LaterGroups(items), summary, FALSE)
  <2>1. CASE CollectTurn(o)
    BY <2>1 DEF CollectTurn, Ats, Turns
  <2>2. CASE CollectBatch(o)
    BY <2>2 DEF CollectBatch, Ats, Turns
  <2>3. CASE FollowupTurn(o)
    BY <2>3 DEF FollowupTurn, Ats, Turns
  <2> QED
    BY <2>1, <2>2, <2>3
<1>4. Snapshot(items, <<>>, <<>>) /\ Members(<<>>) = {} /\ Len(<<>>) = 0
  BY <1>2, SnapshotEmpty DEF Members
<1>5. ASSUME items # <<>>
      PROVE  /\ Snapshot(items, <<Head(items)>>, <<>>) /\ Len(<<Head(items)>>) = 1
             /\ Members(<<Head(items)>>) \subseteq Members(items)
  <2>1. Members(<<Head(items)>>) = {Head(items)}
    BY DEF Members
  <2> QED
    BY <1>2, <1>5, <2>1, SnapshotNext
<1>6. ASSUME NEW at \in Ats \ {"group"}, NEW summary, NEW force,
             AwaitTurn(o, at, <<>>, <<>>, summary, force)
      PROVE  OnceOK'
  BY <1>1, <1>4, <1>6, AwaitOnce
<1>7. ASSUME NEW force, items # <<>>,
             AwaitTurn(o, "next", <<Head(items)>>, <<>>, <<>>, force)
      PROVE  OnceOK'
  <2> DEFINE b == <<Head(items)>>
  <2>1. /\ Snapshot(items, b, <<>>) /\ Len(b) <= 1
        /\ Members(b) \cup Members(<<>>) \subseteq Members(items)
        /\ AwaitTurn(o, "next", b, <<>>, <<>>, force)
    BY <1>4, <1>5, <1>7
  <2> HIDE DEF b
  <2> QED
    BY <1>1, <2>1, AwaitOnce
<1>8. ASSUME NEW summary, items # <<>>,
             AwaitTurn(o, "group", FirstGroup(items), LaterGroups(items), summary, FALSE)
      PROVE  OnceOK'
  BY <1>1, <1>2, <1>8, SnapshotAll, AwaitOnce
<1> QED
  BY <1>1, <1>3, <1>6, <1>7, <1>8, EndOnce

\* The batch was run, and at least its length is taken off the items.
LEMMA SplicedOnce ==
    ASSUME IInv, OnceOK, NEW o \in Objs, NEW q, NEW n \in Nat, Len(drain[o].batch) <= n,
           q.items = DropFirst(queues[o].items, n), IsQueue(q),
           q.draining = queues[o].draining, LoopAgain(o, [queues EXCEPT ![o] = q]),
           recent' = recent, delivered' = delivered \o drain[o].batch
    PROVE  OnceOK'
<1> DEFINE qs == [queues EXCEPT ![o] = q]
           batch == drain[o].batch
<1>1. Queues(qs) /\ qs[o] = q
  <2>1. Kept(qs)
    BY ReplaceKeeps
  <2> QED
    BY <2>1 DEF Kept, IInv, Shape, Queues
<1>2. \A p \in Objs : /\ Members(qs[p].items) \subseteq Members(queues[p].items)
                      /\ Snapshot(qs[p].items, drain[p].batch, drain[p].rest)
  BY DropShrinks DEF IInv
<1>3. Members(q.items) \cap Members(batch) = {}
  <2>1. SnapshotOf(o)
    BY DEF OnceOK
  <2>2. Len(queues[o].items) \in Nat /\ Len(batch) \in Nat /\ queues[o].items \in Seq(Msgs)
    BY <2>1 DEF SnapshotOf, Snapshot
  <2>3. ASSUME NEW i \in 1..Len(q.items), NEW j \in 1..Len(batch), q.items[i] = batch[j]
        PROVE  FALSE
    <3>1. n + i \in 1..Len(queues[o].items) /\ q.items[i] = queues[o].items[n + i]
      BY <2>2, DropFacts
    <3>2. n + i <= j
      BY <2>1, <2>3, <3>1 DEF SnapshotOf, Snapshot
    <3> QED
      BY <2>2, <3>2
  <2> QED
    BY <2>3 DEF Members
<1> HIDE DEF qs
<1>4. Moves(qs, drain) /\ Blank(drain'[o])
  BY <1>1, LoopMoves DEF IInv, qs
<1>5. ASSUME NEW p \in Objs
      PROVE  SnapshotOf(p)' /\ SmallBatch(p)' /\ Held(p)' \subseteq Held(p)
  <2>1. SnapshotOf(p)' /\ SmallBatch(p)'
    BY <1>2, <1>4, BlankKeeps DEF OnceOK, Moves
  <2>2. Held(p)' \subseteq Held(p)
    BY <1>2, <1>4, BlankHoldsNothing DEF Held, Moves
  <2> QED
    BY <2>1, <2>2
<1>6. Held(o)' \subseteq Held(o) \ Members(batch)
  <2>1. Held(o)' = Members(q.items)
    BY <1>1, <1>4, BlankHoldsNothing DEF Held, Moves
  <2> QED
    BY <2>1, <1>3, <1>5
<1> QED
  BY <1>5, <1>6, OnceDeliver

\* The next group follows the batch that was run.
LEMMA NextBatchOnce ==
    ASSUME IInv, OnceOK, NEW o \in Objs, NEW q, IsQueue(q),
           drain[o].at = "group", drain[o].rest # <<>>,
           q.items = DropFirst(queues[o].items, Len(drain[o].batch)),
           queues' = [queues EXCEPT ![o] = q],
           drain' = [drain EXCEPT ![o] =
                        [drain[o] EXCEPT !.batch = FirstGroup(drain[o].rest),
                                         !.rest = LaterGroups(drain[o].rest),
                                         !.summary = <<>>]],
           recent' = recent, delivered' = delivered \o drain[o].batch
    PROVE  OnceOK'
<1> DEFINE f == FirstGroup(drain[o].rest)
           g == LaterGroups(drain[o].rest)
           d == [drain[o] EXCEPT !.batch = f, !.rest = g, !.summary = <<>>]
           batch == drain[o].batch
<1>1. SnapshotOf(o)
  BY DEF OnceOK
<1>2. /\ Members(q.items) \cap Members(batch) = {}
      /\ Snapshot(q.items, f, g)
      /\ Members(f) \subseteq Members(drain[o].rest)
      /\ Members(g) \subseteq Members(drain[o].rest)
  <2>1. Snapshot(queues[o].items, batch, drain[o].rest)
    BY <1>1 DEF SnapshotOf
  <2> DEFINE it == queues[o].items
             rest == drain[o].rest
  <2>2. q.items = DropFirst(it, Len(batch)) /\ rest # <<>>
    OBVIOUS
  <2> HIDE DEF it, rest, batch
  <2>3. Snapshot(it, batch, rest)
    BY <2>1 DEF it, rest, batch
  <2>4. /\ Members(DropFirst(it, Len(batch))) \cap Members(batch) = {}
        /\ Snapshot(DropFirst(it, Len(batch)), FirstGroup(rest), LaterGroups(rest))
        /\ Members(FirstGroup(rest)) \subseteq Members(rest)
        /\ Members(LaterGroups(rest)) \subseteq Members(rest)
    BY <2>2, <2>3, SnapshotGroup
  <2> QED
    BY <2>2, <2>4 DEF rest
<1>3. Members(q.items) \subseteq Members(queues[o].items)
  <2>1. Len(batch) \in Nat
    BY <1>1 DEF SnapshotOf, Snapshot
  <2> QED
    BY <1>1, <2>1, SnapshotDrop DEF SnapshotOf
<1> HIDE DEF f, g
<1>4. d.at = "group" /\ d.batch = f /\ d.rest = g
  BY DEF IInv, Shape, Drains, IsDrain
<1>5. /\ drain'[o] = d /\ queues'[o] = q
      /\ \A p \in Objs : p # o => drain'[p] = drain[p] /\ queues'[p] = queues[p]
  BY DEF IInv, Shape, Drains, Queues, f, g
<1> HIDE DEF d
<1>6. ASSUME NEW p \in Objs PROVE SnapshotOf(p)' /\ SmallBatch(p)'
  <2>1. CASE p = o
    BY <1>2, <1>4, <1>5, <2>1 DEF SnapshotOf, SmallBatch
  <2>2. CASE p # o
    BY <1>5, <2>2 DEF OnceOK, SnapshotOf, SmallBatch
  <2> QED
    BY <2>1, <2>2
<1>7. \A p \in Objs \ {o} : Held(p)' \subseteq Held(p)
  BY <1>5 DEF Held
<1>8. Held(o)' \subseteq Held(o) \ Members(batch)
  <2>1. Held(o)' = Members(q.items) \cup Members(f) \cup Members(g)
    BY <1>4, <1>5 DEF Held
  <2>2. Members(batch) \cap Members(drain[o].rest) = {}
    BY <1>1 DEF SnapshotOf, Snapshot
  <2> QED
    BY <2>1, <2>2, <1>2, <1>3 DEF Held
<1> QED
  BY <1>6, <1>7, <1>8, OnceDeliver

LEMMA EndsOnce ==
    ASSUME IInv, OnceOK, NEW o \in Objs,
           NextDone(o) \/ SummaryOnlyDone(o) \/ GroupDone(o) \/ TurnFails(o)
    PROVE  OnceOK'
<1> DEFINE batch == drain[o].batch
           items == queues[o].items
<1>0. batch \in Seq(Msgs) /\ Len(batch) \in Nat /\ items \in Seq(Msgs)
  BY DEF OnceOK, SnapshotOf, Snapshot
<1>1. CASE NextDone(o)
  <2> DEFINE q == [queues[o] EXCEPT !.items = DropFirst(@, 1)]
             c == IF drain[o].at = "next" THEN q ELSE ClearQueueSummaryState(q)
  <2>1. /\ Len(batch) <= 1 /\ LoopAgain(o, [queues EXCEPT ![o] = c])
        /\ recent' = recent /\ delivered' = delivered \o batch
    BY <1>1 DEF NextDone, TurnKept, OnceOK, SmallBatch
  <2>2. IsQueue(q) /\ q.draining = queues[o].draining /\ q.items = DropFirst(items, 1)
    BY DEF IInv, Shape, Queues, IsQueue
  <2> HIDE DEF q
  <2>3. IsQueue(c) /\ c.draining = queues[o].draining /\ c.items = DropFirst(items, 1)
    BY <2>2 DEF IsQueue, ClearQueueSummaryState
  <2> HIDE DEF c
  <2> QED
    BY <2>1, <2>3, SplicedOnce
<1>2. CASE SummaryOnlyDone(o)
  <2> DEFINE c == ClearQueueSummaryState(queues[o])
             qs == [queues EXCEPT ![o] = c]
  <2>1. LoopAgain(o, qs) /\ UNCHANGED <<recent, delivered>>
    BY <1>2 DEF SummaryOnlyDone, TurnKept
  <2>2. IsQueue(c) /\ c.draining = queues[o].draining /\ c.items = DropFirst(items, 0)
    <3>1. IsQueue(c) /\ c.draining = queues[o].draining /\ c.items = items
      BY DEF IInv, Shape, Queues, IsQueue, ClearQueueSummaryState
    <3> QED
      BY <1>0, <3>1 DEF DropFirst
  <2> HIDE DEF c
  <2>3. Queues(qs)
    BY <2>2, ReplaceKeeps DEF Kept
  <2>4. \A p \in Objs : /\ Members(qs[p].items) \subseteq Members(queues[p].items)
                        /\ Snapshot(qs[p].items, drain[p].batch, drain[p].rest)
    BY <2>2, DropShrinks DEF IInv
  <2> HIDE DEF qs
  <2>5. Moves(qs, drain)
    BY <2>1, <2>3, LoopMoves DEF IInv
  <2> QED
    BY <2>1, <2>4, <2>5, OnceMoves
<1>3. CASE GroupDone(o)
  <2> DEFINE q == [queues[o] EXCEPT !.items = DropFirst(@, Len(batch))]
             c == IF drain[o].summary # <<>> THEN ClearQueueSummaryState(q) ELSE q
  <2>1. /\ drain[o].at = "group"
        /\ recent' = recent /\ delivered' = delivered \o batch
    BY <1>3 DEF GroupDone, TurnKept
  <2>2. \/ drain[o].rest = <<>> /\ LoopAgain(o, [queues EXCEPT ![o] = c])
        \/ /\ drain[o].rest # <<>>
           /\ queues' = [queues EXCEPT ![o] = c]
           /\ drain' = [drain EXCEPT ![o] =
                           [drain[o] EXCEPT !.batch = FirstGroup(drain[o].rest),
                                            !.rest = LaterGroups(drain[o].rest),
                                            !.summary = <<>>]]
    BY <1>3 DEF GroupDone
  <2>3. IsQueue(q) /\ q.draining = queues[o].draining /\ q.items = DropFirst(items, Len(batch))
    BY DEF IInv, Shape, Queues, IsQueue
  <2> HIDE DEF q
  <2>4. IsQueue(c) /\ c.draining = queues[o].draining /\ c.items = DropFirst(items, Len(batch))
    BY <2>3 DEF IsQueue, ClearQueueSummaryState
  <2> HIDE DEF c
  <2> QED
    <3>1. CASE LoopAgain(o, [queues EXCEPT ![o] = c])
      <4>1. Len(batch) <= Len(batch)
        BY <1>0
      <4> QED
        BY <1>0, <2>1, <2>4, <3>1, <4>1, SplicedOnce
    <3> QED
      BY <2>1, <2>2, <2>4, <3>1, NextBatchOnce
<1>4. CASE TurnFails(o)
  BY <1>4, EndOnce DEF TurnFails
<1> QED
  BY <1>1, <1>2, <1>3, <1>4

LEMMA InitOnce == ASSUME Init PROVE OnceOK
<1>1. \A o \in Objs : /\ queues[o].items = <<>> /\ drain[o].batch = <<>>
                      /\ drain[o].rest = <<>> /\ drain[o].at = "none"
  BY DEF Init, EmptyQueue, NoDrain
<1>2. Members(<<>>) = {} /\ Distinct(<<>>) /\ <<>> \in Seq(Msgs) /\ Snapshot(<<>>, <<>>, <<>>)
  BY DEF Members, Distinct, Snapshot
<1> QED
  BY <1>1, <1>2 DEF Init, OnceOK, SnapshotOf, SmallBatch, Held

LEMMA StepOnce == ASSUME IInv, OnceOK, [Next]_vars PROVE OnceOK'
<1>1. ASSUME NEW m \in Msgs, NEW s \in Settings,
             EnqueueFollowupRun(m, s) \/ EnqueueRefused(m, s)
      PROVE  OnceOK'
  BY <1>1, EnqueueOnce, RefusedOnce
<1>2. CASE ReplyStarts \/ ReplyEnds
  BY <1>2, ReplyOnce
<1>3. CASE ClearFollowupQueue
  BY <1>3, ClearOnce
<1>4. ASSUME NEW o \in Objs, DrainStep(o) PROVE OnceOK'
  BY <1>4, BeginOnce, EndsOnce DEF DrainStep
<1>5. CASE UNCHANGED vars
  BY <1>5 DEF vars, OnceOK, SnapshotOf, SmallBatch, Held
<1> QED
  BY <1>1, <1>2, <1>3, <1>4, <1>5 DEF Next

\* No message is run twice, for every interleaving of enqueues, redeliveries, drops,
\* clears, failures and any number of drains: what a drain holds from its snapshot
\* leaves the items as the batch ends, however many the enqueues dropped meanwhile.
THEOREM NoTurnTwice == Spec => []DeliveredOnce
<1>1. OnceOK => DeliveredOnce
  BY DEF OnceOK, DeliveredOnce, Distinct
<1> QED
  BY InitOK, StepOK, InitOnce, StepOnce, <1>1, PTL DEF Spec

-----------------------------------------------------------------------------
(* No message is lost, and the order of arrival is kept, when nothing may  *)
(* be dropped or cleared.                                                  *)

\* No policy drops what was accepted, and no queue is cleared.
Keeping == (\A s \in Settings : s.dropPolicy = "new") /\ MaxClears = 0

\* The batch and the rest of its snapshot are at the front of the items.
AtFront(batch, rest, items) ==
    /\ batch \in Seq(Msgs) /\ rest \in Seq(Msgs)
    /\ Len(batch) + Len(rest) <= Len(items)
    /\ \A i \in 1..Len(batch) : batch[i] = items[i]
    /\ \A i \in 1..Len(rest) : rest[i] = items[Len(batch) + i]

\* A drain takes items for a turn only, never a summary.
Orderly(d, items) ==
    /\ d.at \notin {"summaryNext", "summaryOnly"} /\ AtFront(d.batch, d.rest, items)
    /\ d.at = "next" => Len(d.batch) = 1
    /\ d.at \notin {"next", "group"} => d.batch = <<>> /\ d.rest = <<>>

Whole(q) == q.items \in Seq(Msgs) /\ q.droppedCount = 0

Backlog(qs, cur) == IF cur = None THEN <<>> ELSE qs[cur].items

\* What was accepted is what was run and then the items of the registered object;
\* only that object has a drain.
Ledger(qs, ds, cur) ==
    /\ accepted = delivered \o Backlog(qs, cur)
    /\ \A o \in Objs : Whole(qs[o]) /\ Orderly(ds[o], qs[o].items)
    /\ \A o \in Objs : o # cur => ds[o].at = "none"

LedgerOK ==
    /\ accepted \in Seq(Msgs) /\ delivered \in Seq(Msgs)
    /\ budget \in [failures : {budget.failures}, replies : {budget.replies}, clears : {0}]
    /\ Ledger(queues, drain, current)

\* The same of the state after a step.
LedgerAfter(qs, ds, cur) ==
    /\ accepted' = delivered' \o Backlog(qs, cur)
    /\ \A o \in Objs : Whole(qs[o]) /\ Orderly(ds[o], qs[o].items)
    /\ \A o \in Objs : o # cur => ds[o].at = "none"

LEMMA BlankOrderly ==
    ASSUME NEW d, Blank(d), NEW items \in Seq(Msgs)
    PROVE  Orderly(d, items)
BY DEF Blank, Orderly, AtFront

\* One object's items or flag and its drain change.
LEMMA LedgerChange ==
    ASSUME NEW qs, NEW ds, NEW cur, Queues(qs), Drains(ds), LedgerAfter(qs, ds, cur),
           NEW o \in Objs, NEW q, NEW d, Whole(q), Orderly(d, q.items),
           o = cur => q.items = qs[o].items, o # cur => d.at = "none"
    PROVE  LedgerAfter([qs EXCEPT ![o] = q], [ds EXCEPT ![o] = d], cur)
<1> DEFINE qt == [qs EXCEPT ![o] = q]
           dt == [ds EXCEPT ![o] = d]
<1>1. /\ qt[o] = q /\ dt[o] = d
      /\ \A p \in Objs : p # o => qt[p] = qs[p] /\ dt[p] = ds[p]
  BY DEF Queues, Drains
<1> HIDE DEF qt, dt
<1>2. Backlog(qt, cur) = Backlog(qs, cur)
  <2>1. CASE cur = o
    BY <1>1, <2>1 DEF Backlog
  <2>2. CASE cur # o
    BY <1>1, <2>2 DEF Backlog, qt
  <2> QED
    BY <2>1, <2>2
<1>3. LedgerAfter(qt, dt, cur)
  BY <1>1, <1>2 DEF LedgerAfter
<1> QED
  BY <1>3 DEF qt, dt

LEMMA ScheduleLedger ==
    ASSUME NEW qs, NEW ds, NEW cur \in Objs \cup {None}, Queues(qs), Drains(ds),
           Matches(qs, ds), LedgerAfter(qs, ds, cur), ScheduleFollowupDrain(qs, ds, cur)
    PROVE  Ledger(queues, drain, current)'
<1>1. CASE cur = None \/ qs[cur].draining
  BY <1>1 DEF ScheduleFollowupDrain, LedgerAfter, Ledger
<1>2. CASE ~(cur = None \/ qs[cur].draining) /\ HasWork(qs[cur])
  <2> DEFINE q == [qs[cur] EXCEPT !.draining = TRUE]
  <2>1. /\ cur \in Objs /\ current' = cur
        /\ queues' = [qs EXCEPT ![cur] = q] /\ drain' = [ds EXCEPT ![cur] = FreshDrain]
    BY <1>2 DEF ScheduleFollowupDrain
  <2>2. q.items = qs[cur].items /\ q.droppedCount = qs[cur].droppedCount
    BY <2>1 DEF Queues, IsQueue
  <2> HIDE DEF q
  <2>3. Whole(q) /\ Orderly(FreshDrain, q.items)
    <3>1. Whole(q)
      BY <2>1, <2>2 DEF LedgerAfter, Whole
    <3>2. Blank(FreshDrain)
      BY DEF Blank, FreshDrain, NoDrain
    <3> QED
      BY <3>1, <3>2, BlankOrderly DEF Whole
  <2>4. LedgerAfter([qs EXCEPT ![cur] = q], [ds EXCEPT ![cur] = FreshDrain], cur)
    BY <2>1, <2>2, <2>3, LedgerChange
  <2> QED
    BY <2>1, <2>4 DEF LedgerAfter, Ledger
<1>3. CASE ~(cur = None \/ qs[cur].draining) /\ ~HasWork(qs[cur])
  <2>1. cur \in Objs /\ current' = None /\ queues' = qs /\ drain' = ds
    BY <1>3 DEF ScheduleFollowupDrain
  <2>2. qs[cur].items = <<>> /\ ds[cur].at = "none"
    BY <1>3, <2>1 DEF HasWork, Matches
  <2>3. Backlog(qs, None) = Backlog(qs, cur)
    BY <2>1, <2>2, FollowupAssumption DEF Backlog
  <2> QED
    BY <2>1, <2>2, <2>3 DEF LedgerAfter, Ledger
<1> QED
  BY <1>1, <1>2, <1>3

\* The end of the registered object's drain.
LEMMA EndLedger ==
    ASSUME IInv, NEW qs, Kept(qs), NEW o \in Objs, EndDrain(o, qs),
           LedgerAfter(qs, drain, current), o = current
    PROVE  Ledger(queues, drain, current)'
<1> DEFINE q == [qs[o] EXCEPT !.draining = FALSE]
           idle == [qs EXCEPT ![o].draining = FALSE]
           ds == [drain EXCEPT ![o] = NoDrain]
<1>1. /\ IsQueue(q) /\ q.items = qs[o].items /\ q.droppedCount = qs[o].droppedCount
      /\ ~q.draining
  BY DEF Kept, Queues, IsQueue
<1>2. Blank(NoDrain) /\ IsDrain(NoDrain) /\ NoDrain.at = "none"
  BY DEF Blank, NoDrain, IsDrain, Ats
<1>3. idle = [qs EXCEPT ![o] = q]
  OBVIOUS
<1> HIDE DEF q
<1>4. LedgerAfter(idle, ds, current)
  <2>1. Whole(q) /\ Orderly(NoDrain, q.items)
    BY <1>1, <1>2, BlankOrderly DEF LedgerAfter, Whole
  <2> QED
    BY <2>1, <1>1, <1>2, <1>3, LedgerChange DEF Kept, IInv, Shape
<1>5. Queues(idle) /\ Drains(ds)
  BY <1>1, <1>2, <1>3 DEF Kept, Queues, IInv, Shape, Drains
<1>6. Matches(idle, ds)
  <2>1. idle[o] = q /\ ds[o] = NoDrain
    BY <1>3 DEF Kept, Queues, IInv, Shape, Drains
  <2>2. \A p \in Objs : p # o => idle[p] = qs[p] /\ ds[p] = drain[p]
    BY <1>3 DEF Kept, Queues, IInv, Shape, Drains
  <2> QED
    BY <2>1, <2>2, <1>1, <1>2 DEF Matches, Kept, IInv, DrainingExact
<1>7. CASE HasWork(qs[o])
  <2>1. ScheduleFollowupDrain(idle, ds, current)
    BY <1>7 DEF EndDrain
  <2> HIDE DEF idle, ds
  <2> QED
    BY <2>1, <1>4, <1>5, <1>6, ScheduleLedger DEF IInv, Shape
<1>8. CASE ~HasWork(qs[o])
  <2>1. queues' = idle /\ drain' = ds /\ current' = None
    BY <1>8 DEF EndDrain
  <2>2. idle[o].items = <<>> /\ ds[o].at = "none"
    BY <1>1, <1>2, <1>3, <1>8 DEF HasWork, Kept, Queues, IInv, Shape, Drains
  <2>3. Backlog(idle, None) = Backlog(idle, current)
    BY <2>2, FollowupAssumption DEF Backlog
  <2> HIDE DEF idle, ds
  <2> QED
    BY <1>4, <2>1, <2>2, <2>3 DEF LedgerAfter, Ledger
<1> QED
  BY <1>7, <1>8

LEMMA LoopLedger ==
    ASSUME IInv, NEW qs, Kept(qs), NEW o \in Objs, LoopAgain(o, qs),
           LedgerAfter(qs, [drain EXCEPT ![o] = NoDrain], current), o = current
    PROVE  Ledger(queues, drain, current)'
<1> DEFINE ds == [drain EXCEPT ![o] = NoDrain]
<1>1. Queues(qs) /\ Drains(drain) /\ IsDrain(NoDrain) /\ Blank(NoDrain)
  BY DEF IInv, Shape, Kept, Blank, IsDrain, NoDrain, Ats
<1>2. Drains(ds)
  BY <1>1 DEF Drains
<1>3. qs = [qs EXCEPT ![o] = qs[o]] /\ Whole(qs[o])
  BY <1>1 DEF Queues, LedgerAfter
<1>4. CASE HasWork(qs[o])
  <2> DEFINE d == [NoDrain EXCEPT !.at = "debounce", !.force = drain[o].force]
  <2>1. queues' = qs /\ drain' = [drain EXCEPT ![o] = d] /\ UNCHANGED current
    BY <1>4 DEF LoopAgain
  <2>2. Blank(d)
    BY DEF Blank, NoDrain
  <2>3. [ds EXCEPT ![o] = d] = [drain EXCEPT ![o] = d]
    BY <1>1 DEF Drains
  <2> HIDE DEF ds, d
  <2>4. Orderly(d, qs[o].items)
    BY <2>2, <1>3, BlankOrderly DEF Whole
  <2>5. LedgerAfter([qs EXCEPT ![o] = qs[o]], [ds EXCEPT ![o] = d], current)
    BY <1>1, <1>2, <1>3, <2>4, LedgerChange DEF ds
  <2> QED
    BY <1>3, <2>1, <2>3, <2>5 DEF LedgerAfter, Ledger
<1>5. CASE ~HasWork(qs[o])
  <2> DEFINE idle == [qs EXCEPT ![o].draining = FALSE]
             q == [qs[o] EXCEPT !.draining = FALSE]
  <2>1. queues' = idle /\ drain' = ds /\ current' = None
    BY <1>5 DEF LoopAgain, EndDrain
  <2>2. q.items = qs[o].items /\ q.droppedCount = qs[o].droppedCount /\ idle[o] = q
    BY <1>1 DEF Queues, IsQueue
  <2>3. idle = [qs EXCEPT ![o] = q] /\ ds = [ds EXCEPT ![o] = NoDrain]
        /\ NoDrain.at = "none" /\ ds[o].at = "none"
    BY <1>1 DEF Drains, NoDrain
  <2>6. LedgerAfter(qs, ds, current)
    OBVIOUS
  <2> HIDE DEF q, ds, idle
  <2>4. LedgerAfter(idle, ds, current)
    <3>1. Whole(q) /\ Orderly(NoDrain, q.items)
      BY <1>1, <1>3, <2>2, BlankOrderly DEF Whole
    <3>2. LedgerAfter([qs EXCEPT ![o] = q], [ds EXCEPT ![o] = NoDrain], current)
      BY <1>1, <1>2, <2>2, <2>3, <2>6, <3>1, LedgerChange
    <3> QED
      BY <2>3, <3>2
  <2>5. Backlog(idle, None) = Backlog(idle, current)
    BY <2>2, <1>5, FollowupAssumption DEF Backlog, HasWork
  <2> QED
    BY <2>1, <2>3, <2>4, <2>5 DEF LedgerAfter, Ledger
<1> QED
  BY <1>4, <1>5

\* Taking a batch off the front of the items gives it to what was run.
LEMMA FrontMoves ==
    ASSUME NEW d \in Seq(Msgs), NEW s \in Seq(Msgs), NEW b \in Seq(Msgs),
           Len(b) <= Len(s), \A i \in 1..Len(b) : b[i] = s[i]
    PROVE  (d \o b) \o DropFirst(s, Len(b)) = d \o s
<1> DEFINE t == DropFirst(s, Len(b))
           db == d \o b
           l == db \o t
           r == d \o s
<1>1. Len(d) \in Nat /\ Len(b) \in Nat /\ Len(s) \in Nat
  OBVIOUS
<1>2. /\ t \in Seq(Msgs) /\ Len(t) = Len(s) - Len(b)
      /\ \A i \in 1..Len(t) : t[i] = s[Len(b) + i]
  BY <1>1, DropFacts
<1> HIDE DEF t
<1>3. /\ db \in Seq(Msgs) /\ Len(db) = Len(d) + Len(b)
      /\ \A i \in 1..Len(d) : db[i] = d[i]
      /\ \A i \in 1..Len(b) : db[Len(d) + i] = b[i]
  BY ConcatFacts
<1> HIDE DEF db
<1>4. /\ l \in Seq(Msgs) /\ Len(l) = Len(d) + Len(s)
      /\ \A i \in 1..Len(db) : l[i] = db[i]
      /\ \A i \in 1..Len(t) : l[Len(db) + i] = t[i]
  <2>1. /\ l \in Seq(Msgs) /\ Len(l) = Len(db) + Len(t)
        /\ \A i \in 1..Len(db) : l[i] = db[i]
        /\ \A i \in 1..Len(t) : l[Len(db) + i] = t[i]
    BY <1>2, <1>3, ConcatFacts
  <2> QED
    BY <2>1, <1>1, <1>2, <1>3
<1>5. /\ r \in Seq(Msgs) /\ Len(r) = Len(d) + Len(s)
      /\ \A i \in 1..Len(d) : r[i] = d[i]
      /\ \A i \in 1..Len(s) : r[Len(d) + i] = s[i]
  BY ConcatFacts
<1> HIDE DEF l, r
<1>6. ASSUME NEW i \in 1..(Len(d) + Len(s)) PROVE l[i] = r[i]
  <2>1. CASE i <= Len(d)
    BY <2>1, <1>1, <1>3, <1>4, <1>5
  <2>2. CASE Len(d) < i /\ i <= Len(d) + Len(b)
    <3>1. i - Len(d) \in 1..Len(b) /\ i - Len(d) \in 1..Len(s) /\ i \in 1..Len(db)
          /\ i = Len(d) + (i - Len(d))
      BY <2>2, <1>1, <1>3
    <3>2. l[i] = b[i - Len(d)] /\ r[i] = s[i - Len(d)]
      BY <3>1, <1>3, <1>4, <1>5
    <3> QED
      BY <3>1, <3>2
  <2>3. CASE Len(d) + Len(b) < i
    <3> DEFINE j == i - Len(db)
    <3>1. j \in 1..Len(t) /\ i = Len(db) + j /\ Len(b) + j \in 1..Len(s)
          /\ i = Len(d) + (Len(b) + j)
      BY <2>3, <1>1, <1>2, <1>3
    <3> HIDE DEF j
    <3>2. l[i] = s[Len(b) + j] /\ r[i] = s[Len(b) + j]
      BY <3>1, <1>2, <1>4, <1>5
    <3> QED
      BY <3>2
  <2> QED
    BY <2>1, <2>2, <2>3, <1>1
<1>7. l = r
  BY <1>4, <1>5, <1>6
<1> QED
  BY <1>7 DEF l, r, db, t

LEMMA AppendAtFront ==
    ASSUME NEW batch, NEW rest, NEW items \in Seq(Msgs), NEW m \in Msgs,
           AtFront(batch, rest, items)
    PROVE  AtFront(batch, rest, Append(items, m))
<1> DEFINE new == Append(items, m)
<1>1. /\ Len(items) \in Nat /\ Len(new) = Len(items) + 1
      /\ \A i \in 1..Len(items) : new[i] = items[i]
  OBVIOUS
<1> HIDE DEF new
<1>2. AtFront(batch, rest, new)
  <2>1. Len(batch) \in Nat /\ Len(rest) \in Nat /\ Len(batch) + Len(rest) <= Len(items)
    BY DEF AtFront
  <2>2. \A i \in 1..Len(batch) : i \in 1..Len(items)
    BY <1>1, <2>1
  <2>3. \A i \in 1..Len(rest) : Len(batch) + i \in 1..Len(items)
    BY <1>1, <2>1
  <2>4. Len(batch) + Len(rest) <= Len(new)
    BY <1>1, <2>1
  <2> QED
    BY <1>1, <2>2, <2>3, <2>4 DEF AtFront
<1> QED
  BY <1>2 DEF new

LEMMA AppendOrderly ==
    ASSUME NEW d, NEW items \in Seq(Msgs), NEW m \in Msgs, Orderly(d, items)
    PROVE  Orderly(d, Append(items, m))
BY AppendAtFront DEF Orderly

\* The object a message goes to, with the message's settings: the registered one or
\* one that nothing has been put into.
LEMMA TargetLedger ==
    ASSUME IInv, LedgerOK, ObjectAtHand, NEW s
    PROVE  LET q == WithSettings(s)
           IN  /\ Whole(q) /\ Orderly(drain[Target], q.items) /\ q.dropPolicy = s.dropPolicy
               /\ accepted = delivered \o q.items
               /\ \A o \in Objs : o # Target => drain[o].at = "none"
<1> DEFINE q == IF current # None THEN queues[current] ELSE EmptyQueue
<1>1. Target \in Objs /\ IsQueue(q)
  BY TargetKeeps DEF IInv, Shape, Queues, IsQueue, EmptyQueue
<1>2. /\ Whole(q) /\ Orderly(drain[Target], q.items) /\ accepted = delivered \o q.items
      /\ \A o \in Objs : o # Target => drain[o].at = "none"
  <2>1. CASE current # None
    BY <1>1, <2>1 DEF LedgerOK, Ledger, Backlog, Target
  <2>2. CASE current = None
    <3>1. \A o \in Objs : drain[o].at = "none"
      BY <2>2, FollowupAssumption DEF LedgerOK, Ledger
    <3>2. Blank(drain[Target])
      BY <1>1, <3>1 DEF LedgerOK, Ledger, Orderly, Blank
    <3>3. q.items = <<>> /\ q.droppedCount = 0
      BY <2>2 DEF EmptyQueue
    <3> HIDE DEF q
    <3>4. Whole(q)
      BY <3>3 DEF Whole
    <3>6. Orderly(drain[Target], q.items)
      BY <3>2, <3>4, BlankOrderly DEF Whole
    <3>5. accepted = delivered \o q.items
      BY <2>2, <3>3 DEF LedgerOK, Ledger, Backlog
    <3> QED
      BY <3>1, <3>4, <3>5, <3>6
  <2> QED
    BY <2>1, <2>2
<1>3. WithSettings(s) = [q EXCEPT !.mode = s.mode, !.dropPolicy = s.dropPolicy]
  BY DEF WithSettings
<1> HIDE DEF q
<1>4. /\ WithSettings(s).items = q.items /\ WithSettings(s).droppedCount = q.droppedCount
      /\ WithSettings(s).dropPolicy = s.dropPolicy
  BY <1>1, <1>3 DEF IsQueue
<1> QED
  BY <1>2, <1>4 DEF Whole

LEMMA IdleLedger ==
    ASSUME IInv, LedgerOK, NEW q, NEW t \in Objs, IsQueue(q), q.draining = queues[t].draining,
           ScheduleIfIdle([queues EXCEPT ![t] = q], t), Whole(q), Orderly(drain[t], q.items),
           accepted' = delivered' \o q.items, \A o \in Objs : o # t => drain[o].at = "none"
    PROVE  Ledger(queues, drain, current)'
<1> DEFINE qs == [queues EXCEPT ![t] = q]
<1>1. Kept(qs)
  BY ReplaceKeeps
<1>2. qs[t] = q /\ \A o \in Objs : o # t => qs[o] = queues[o]
  BY DEF IInv, Shape, Queues
<1>3. ScheduleIfIdle(qs, t)
  OBVIOUS
<1> HIDE DEF qs
<1>4. LedgerAfter(qs, drain, t)
  BY <1>2, FollowupAssumption DEF LedgerOK, Ledger, LedgerAfter, Backlog
<1>5. CASE RunActive
  BY <1>3, <1>4, <1>5 DEF ScheduleIfIdle, LedgerAfter, Ledger
<1>6. CASE ~RunActive
  <2>1. ScheduleFollowupDrain(qs, drain, t)
    BY <1>3, <1>6 DEF ScheduleIfIdle
  <2>2. Matches(qs, drain)
    BY <1>1 DEF Matches, Kept, IInv, DrainingExact
  <2> QED
    BY <1>1, <1>4, <2>1, <2>2, ScheduleLedger DEF Kept, IInv, Shape
<1> QED
  BY <1>5, <1>6

LEMMA RefusedLedger ==
    ASSUME Keeping, IInv, LedgerOK, NEW m \in Msgs, NEW s \in Settings, EnqueueRefused(m, s)
    PROVE  LedgerOK'
<1> DEFINE q == WithSettings(s)
<1>1. /\ ObjectAtHand /\ UNCHANGED <<budget, accepted, delivered>>
      /\ ScheduleIfIdle([queues EXCEPT ![Target] = q], Target)
  BY DEF EnqueueRefused
<1>2. /\ Target \in Objs /\ IsQueue(q) /\ q.draining = queues[Target].draining
  BY <1>1, TargetKeeps
<1>3. /\ Whole(q) /\ Orderly(drain[Target], q.items) /\ accepted = delivered \o q.items
      /\ \A o \in Objs : o # Target => drain[o].at = "none"
  BY <1>1, TargetLedger
<1> HIDE DEF q
<1>4. Ledger(queues, drain, current)'
  BY <1>1, <1>2, <1>3, IdleLedger
<1> QED
  BY <1>1, <1>4 DEF LedgerOK

LEMMA EnqueueLedger ==
    ASSUME Keeping, IInv, LedgerOK, NEW m \in Msgs, NEW s \in Settings,
           EnqueueFollowupRun(m, s)
    PROVE  LedgerOK'
<1> DEFINE q == WithSettings(s)
           room == ApplyQueueDropPolicy(q)
           more == [room EXCEPT !.items = Append(@, m)]
<1>1. /\ ObjectAtHand /\ UNCHANGED <<budget, delivered>> /\ ~Refuses(q)
      /\ ScheduleIfIdle([queues EXCEPT ![Target] = more], Target)
      /\ accepted' = Append(accepted, m)
  BY DEF EnqueueFollowupRun
<1>2. /\ Target \in Objs /\ IsQueue(q) /\ q.draining = queues[Target].draining
  BY <1>1, TargetKeeps
<1>3. /\ Whole(q) /\ Orderly(drain[Target], q.items) /\ accepted = delivered \o q.items
      /\ q.dropPolicy = s.dropPolicy
      /\ \A o \in Objs : o # Target => drain[o].at = "none"
  BY <1>1, TargetLedger
<1> HIDE DEF q
<1>4. room = q
  <2>1. q.dropPolicy = "new" /\ Len(q.items) \in Nat /\ Cap \in Nat
    BY <1>3, FollowupAssumption DEF Keeping, Whole
  <2>2. Len(q.items) < Cap
    BY <1>1, <2>1 DEF Refuses
  <2> QED
    BY <2>2 DEF ApplyQueueDropPolicy
<1>5. /\ IsQueue(more) /\ more.draining = q.draining
      /\ more.items = Append(q.items, m) /\ more.droppedCount = q.droppedCount
  BY <1>2, <1>4 DEF IsQueue
<1> HIDE DEF more
<1>6. Whole(more) /\ Orderly(drain[Target], more.items)
  BY <1>3, <1>5, AppendOrderly DEF Whole
<1>7. /\ accepted' \in Seq(Msgs) /\ delivered' \in Seq(Msgs)
      /\ accepted' = delivered' \o more.items
  <2>1. accepted \in Seq(Msgs) /\ delivered \in Seq(Msgs) /\ q.items \in Seq(Msgs)
    BY <1>3 DEF LedgerOK, Whole
  <2>2. Append(delivered \o q.items, m) = delivered \o Append(q.items, m)
    BY <2>1
  <2> QED
    BY <1>1, <1>3, <1>5, <2>1, <2>2
<1>8. Ledger(queues, drain, current)'
  BY <1>1, <1>2, <1>3, <1>5, <1>6, <1>7, IdleLedger
<1> QED
  BY <1>1, <1>7, <1>8 DEF LedgerOK

LEMMA ReplyLedger ==
    ASSUME IInv, LedgerOK, ReplyStarts \/ ReplyEnds
    PROVE  LedgerOK'
<1>1. UNCHANGED <<accepted, delivered>>
      /\ budget' \in [failures : {budget'.failures}, replies : {budget'.replies}, clears : {0}]
  BY DEF ReplyStarts, ReplyEnds, LedgerOK
<1>2. Ledger(queues, drain, current)'
  <2>1. CASE ReplyStarts
    BY <2>1 DEF ReplyStarts, LedgerOK, Ledger
  <2>2. CASE ReplyEnds
    <3>1. LedgerAfter(queues, drain, current)
      BY <1>1 DEF LedgerAfter, LedgerOK, Ledger
    <3> QED
      BY <2>2, <3>1, ScheduleLedger DEF ReplyEnds, IInv, Shape, DrainingExact
  <2> QED
    BY <2>1, <2>2
<1> QED
  BY <1>1, <1>2 DEF LedgerOK

LEMMA NoClears == ASSUME Keeping, LedgerOK, ClearFollowupQueue PROVE FALSE
<1>1. budget.clears = 0 /\ budget.clears < 0
  BY DEF Keeping, LedgerOK, ClearFollowupQueue
<1> QED
  BY <1>1

\* The batch at the front is run, and its items are taken off.
LEMMA DeliverLedger ==
    ASSUME IInv, LedgerOK, NEW o \in Objs, o = current, NEW q, NEW d,
           q.items = DropFirst(queues[o].items, Len(drain[o].batch)),
           Whole(q), Orderly(d, q.items),
           accepted' = accepted, delivered' = delivered \o drain[o].batch
    PROVE  /\ LedgerAfter([queues EXCEPT ![o] = q], [drain EXCEPT ![o] = d], current)
           /\ delivered' \in Seq(Msgs)
<1> DEFINE qt == [queues EXCEPT ![o] = q]
           dt == [drain EXCEPT ![o] = d]
           batch == drain[o].batch
           items == queues[o].items
<1>1. /\ qt[o] = q /\ dt[o] = d
      /\ \A p \in Objs : p # o => qt[p] = queues[p] /\ dt[p] = drain[p]
  BY DEF IInv, Shape, Queues, Drains
<1> HIDE DEF qt, dt
<1>2. /\ items \in Seq(Msgs) /\ delivered \in Seq(Msgs)
      /\ AtFront(batch, drain[o].rest, items)
  BY DEF LedgerOK, Ledger, Whole, Orderly
<1>3. current # None /\ accepted = delivered \o items
  BY FollowupAssumption DEF LedgerOK, Ledger, Backlog
<1>4. Backlog(qt, current) = DropFirst(items, Len(batch))
  BY <1>1, <1>3 DEF Backlog
<1> HIDE DEF batch, items
<1>5. /\ batch \in Seq(Msgs) /\ Len(batch) <= Len(items)
      /\ \A i \in 1..Len(batch) : batch[i] = items[i]
  <2>1. /\ Len(batch) \in Nat /\ Len(drain[o].rest) \in Nat /\ Len(items) \in Nat
        /\ Len(batch) + Len(drain[o].rest) <= Len(items)
    BY <1>2 DEF AtFront
  <2>2. Len(batch) <= Len(items)
    BY <2>1
  <2> QED
    BY <1>2, <2>2 DEF AtFront
<1>6. delivered' = delivered \o batch
  BY DEF batch
<1>7. accepted' = delivered' \o Backlog(qt, current)
  <2>1. (delivered \o batch) \o DropFirst(items, Len(batch)) = delivered \o items
    BY <1>2, <1>5, FrontMoves
  <2> QED
    BY <2>1, <1>3, <1>4, <1>6
<1>8. delivered' \in Seq(Msgs)
  BY <1>2, <1>5, <1>6, ConcatFacts
<1>9. LedgerAfter(qt, dt, current)
  BY <1>1, <1>7 DEF LedgerAfter, LedgerOK, Ledger
<1> QED
  BY <1>8, <1>9 DEF qt, dt

\* The next group of the snapshot is at the front by then.
LEMMA GroupAtFront ==
    ASSUME NEW batch, NEW rest, NEW items \in Seq(Msgs), AtFront(batch, rest, items),
           rest # <<>>
    PROVE  AtFront(FirstGroup(rest), LaterGroups(rest), DropFirst(items, Len(batch)))
<1> DEFINE f == FirstGroup(rest)
           g == LaterGroups(rest)
           k == GroupLength(rest)
           n == Len(batch)
           new == DropFirst(items, n)
<1>1. /\ n \in Nat /\ rest \in Seq(Msgs) /\ Len(rest) \in Nat /\ Len(items) \in Nat
      /\ n + Len(rest) <= Len(items)
      /\ \A i \in 1..Len(rest) : rest[i] = items[n + i]
  BY DEF AtFront
<1>2. n <= Len(items)
  BY <1>1
<1>3. /\ new \in Seq(Msgs) /\ Len(new) = Len(items) - n
      /\ \A i \in 1..Len(new) : new[i] = items[n + i]
  BY <1>1, <1>2, DropFacts
<1>4. /\ k \in 1..Len(rest)
      /\ f \in Seq(Msgs) /\ Len(f) = k /\ \A i \in 1..k : f[i] = rest[i]
      /\ g \in Seq(Msgs) /\ Len(g) = Len(rest) - k
      /\ \A i \in 1..(Len(rest) - k) : g[i] = rest[k + i]
  BY <1>1, GroupFacts
<1> HIDE DEF f, g, k, new, n
<1>5. ASSUME NEW i \in 1..Len(f) PROVE f[i] = new[i]
  <2>1. i \in 1..Len(rest) /\ i \in 1..Len(new) /\ i \in 1..k
    BY <1>1, <1>3, <1>4
  <2> QED
    BY <2>1, <1>1, <1>3, <1>4
<1>6. ASSUME NEW i \in 1..Len(g) PROVE g[i] = new[Len(f) + i]
  <2>1. k + i \in 1..Len(rest) /\ k + i \in 1..Len(new) /\ i \in 1..(Len(rest) - k)
    BY <1>1, <1>3, <1>4
  <2> QED
    BY <2>1, <1>1, <1>3, <1>4
<1>7. Len(f) + Len(g) <= Len(new)
  BY <1>1, <1>3, <1>4
<1>8. AtFront(f, g, new)
  BY <1>4, <1>5, <1>6, <1>7 DEF AtFront
<1> QED
  BY <1>8 DEF f, g, new, n

\* An object with a drain is the registered one.
LEMMA DrainedIsCurrent ==
    ASSUME LedgerOK, NEW o \in Objs, drain[o].at # "none"
    PROVE  o = current
BY DEF LedgerOK, Ledger

LEMMA EndsLedger ==
    ASSUME IInv, LedgerOK, NEW o \in Objs, drain[o].at # "none", EndDrain(o, queues),
           UNCHANGED <<accepted, delivered>>
    PROVE  Ledger(queues, drain, current)'
<1>1. LedgerAfter(queues, drain, current)
  BY DEF LedgerOK, Ledger, LedgerAfter
<1> QED
  BY <1>1, KeptAsIs, EndLedger, DrainedIsCurrent

LEMMA AwaitLedger ==
    ASSUME IInv, LedgerOK, NEW o \in Objs, drain[o].at # "none",
           NEW at, NEW batch, NEW rest, NEW summary, NEW force,
           AwaitTurn(o, at, batch, rest, summary, force), UNCHANGED <<accepted, delivered>>,
           at \notin {"summaryNext", "summaryOnly"},
           AtFront(batch, rest, queues[o].items), at = "next" => Len(batch) = 1,
           at \notin {"next", "group"} => batch = <<>> /\ rest = <<>>
    PROVE  Ledger(queues, drain, current)'
<1> DEFINE d == [at |-> at, force |-> force, batch |-> batch, rest |-> rest,
                 summary |-> summary]
<1>1. /\ drain' = [drain EXCEPT ![o] = d] /\ queues' = queues /\ current' = current
      /\ o = current
  BY DrainedIsCurrent DEF AwaitTurn
<1>2. Orderly(d, queues[o].items)
  BY DEF Orderly
<1> HIDE DEF d
<1>3. queues = [queues EXCEPT ![o] = queues[o]] /\ Whole(queues[o])
  BY DEF IInv, Shape, Queues, LedgerOK, Ledger
<1>4. LedgerAfter(queues, drain, current)
  BY DEF LedgerOK, Ledger, LedgerAfter
<1>5. LedgerAfter([queues EXCEPT ![o] = queues[o]], [drain EXCEPT ![o] = d], current)
  BY <1>1, <1>2, <1>3, <1>4, LedgerChange DEF IInv, Shape
<1> QED
  BY <1>1, <1>3, <1>5 DEF LedgerAfter, Ledger

LEMMA BeginLedger ==
    ASSUME IInv, LedgerOK, NEW o \in Objs, CollectTurn(o) \/ CollectBatch(o) \/ FollowupTurn(o)
    PROVE  LedgerOK'
<1> DEFINE items == queues[o].items
<1>1. UNCHANGED <<budget, accepted, delivered>> /\ drain[o].at # "none"
  BY DEF CollectTurn, CollectBatch, FollowupTurn
<1>2. items \in Seq(Msgs) /\ ~HasSummary(queues[o])
  BY DEF LedgerOK, Ledger, Whole, HasSummary
<1>3. \/ EndDrain(o, queues)
      \/ \E force : AwaitTurn(o, "skipped", <<>>, <<>>, <<>>, force)
      \/ \E force : items # <<>> /\ AwaitTurn(o, "next", <<Head(items)>>, <<>>, <<>>, force)
      \/ \E summary : items # <<>> /\ AwaitTurn(o, "group", FirstGroup(items),
                                                LaterGroups(items), summary, FALSE)
  <2>1. CASE CollectTurn(o)
    BY <1>2, <2>1 DEF CollectTurn
  <2>2. CASE CollectBatch(o)
    BY <1>2, <2>2 DEF CollectBatch
  <2>3. CASE FollowupTurn(o)
    BY <1>2, <2>3 DEF FollowupTurn
  <2> QED
    BY <2>1, <2>2, <2>3
<1>4. AtFront(<<>>, <<>>, items)
  BY <1>2 DEF AtFront
<1>5. ASSUME NEW force, AwaitTurn(o, "skipped", <<>>, <<>>, <<>>, force)
      PROVE  Ledger(queues, drain, current)'
  BY <1>1, <1>4, <1>5, AwaitLedger
<1>6. ASSUME NEW force, items # <<>>,
             AwaitTurn(o, "next", <<Head(items)>>, <<>>, <<>>, force)
      PROVE  Ledger(queues, drain, current)'
  <2> DEFINE b == <<Head(items)>>
  <2>1. /\ b \in Seq(Msgs) /\ Len(b) = 1 /\ b[1] = items[1] /\ 1 <= Len(items)
    BY <1>2, <1>6
  <2>2. AwaitTurn(o, "next", b, <<>>, <<>>, force)
    BY <1>6
  <2> HIDE DEF b
  <2>3. AtFront(b, <<>>, items)
    BY <1>2, <2>1 DEF AtFront
  <2> QED
    BY <1>1, <2>1, <2>2, <2>3, AwaitLedger
<1>7. ASSUME NEW summary, items # <<>>,
             AwaitTurn(o, "group", FirstGroup(items), LaterGroups(items), summary, FALSE)
      PROVE  Ledger(queues, drain, current)'
  <2>1. AtFront(<<>>, items, items)
    BY <1>2 DEF AtFront
  <2>2. DropFirst(items, Len(<<>>)) = items
    BY <1>2 DEF DropFirst
  <2>3. AtFront(FirstGroup(items), LaterGroups(items), DropFirst(items, Len(<<>>)))
    BY <1>2, <1>7, <2>1, GroupAtFront
  <2> DEFINE f == FirstGroup(items)
             g == LaterGroups(items)
             no == FALSE
  <2>4. AtFront(f, g, items) /\ AwaitTurn(o, "group", f, g, summary, no)
    BY <1>7, <2>2, <2>3
  <2> HIDE DEF f, g, no
  <2> QED
    BY <1>1, <2>4, AwaitLedger
<1>8. Ledger(queues, drain, current)'
  BY <1>1, <1>3, <1>5, <1>6, <1>7, EndsLedger
<1> QED
  BY <1>1, <1>8 DEF LedgerOK

\* The batch was run, and the loop goes on or ends.
LEMMA LoopDelivers ==
    ASSUME IInv, LedgerOK, NEW o \in Objs, drain[o].at # "none", NEW q, IsQueue(q),
           q.draining = queues[o].draining, LoopAgain(o, [queues EXCEPT ![o] = q]),
           q.items = DropFirst(queues[o].items, Len(drain[o].batch)), q.droppedCount = 0,
           accepted' = accepted, delivered' = delivered \o drain[o].batch
    PROVE  Ledger(queues, drain, current)' /\ delivered' \in Seq(Msgs)
<1> DEFINE qs == [queues EXCEPT ![o] = q]
<1>1. Kept(qs) /\ o = current
  BY ReplaceKeeps, DrainedIsCurrent
<1>2. Whole(q) /\ Orderly(NoDrain, q.items)
  <2>1. queues[o].items \in Seq(Msgs) /\ Len(drain[o].batch) \in Nat
    <3>1. queues[o].items \in Seq(Msgs) /\ drain[o].batch \in Seq(Msgs)
      BY DEF LedgerOK, Ledger, Whole, Orderly, AtFront
    <3> QED
      BY <3>1
  <2>2. q.items \in Seq(Msgs)
    BY <2>1, DropFacts
  <2>3. Blank(NoDrain)
    BY DEF Blank, NoDrain
  <2> QED
    BY <2>2, <2>3, BlankOrderly DEF Whole
<1>3. LedgerAfter(qs, [drain EXCEPT ![o] = NoDrain], current) /\ delivered' \in Seq(Msgs)
  BY <1>1, <1>2, DeliverLedger
<1> HIDE DEF qs
<1>4. LoopAgain(o, qs)
  BY DEF qs
<1> QED
  BY <1>1, <1>3, <1>4, LoopLedger

LEMMA DoneLedger ==
    ASSUME IInv, LedgerOK, NEW o \in Objs,
           NextDone(o) \/ SummaryOnlyDone(o) \/ GroupDone(o) \/ TurnFails(o)
    PROVE  LedgerOK'
<1> DEFINE batch == drain[o].batch
           items == queues[o].items
<1>1. /\ items \in Seq(Msgs) /\ batch \in Seq(Msgs) /\ queues[o].droppedCount = 0
      /\ Orderly(drain[o], items)
  BY DEF LedgerOK, Ledger, Whole, Orderly, AtFront
<1>2. CASE NextDone(o)
  <2> DEFINE q == [queues[o] EXCEPT !.items = DropFirst(@, 1)]
  <2>1. drain[o].at = "next" /\ Len(batch) = 1
    BY <1>1, <1>2 DEF NextDone, Orderly
  <2>2. /\ LoopAgain(o, [queues EXCEPT ![o] = q])
        /\ UNCHANGED <<budget, accepted>> /\ delivered' = delivered \o batch
    BY <1>2, <2>1 DEF NextDone, TurnKept
  <2>3. /\ IsQueue(q) /\ q.draining = queues[o].draining /\ q.droppedCount = 0
        /\ q.items = DropFirst(items, Len(batch))
    BY <1>1, <2>1 DEF IInv, Shape, Queues, IsQueue
  <2> HIDE DEF q
  <2>4. Ledger(queues, drain, current)' /\ delivered' \in Seq(Msgs)
    BY <2>1, <2>2, <2>3, LoopDelivers
  <2> QED
    BY <2>2, <2>4 DEF LedgerOK
<1>3. CASE SummaryOnlyDone(o)
  BY <1>1, <1>3 DEF SummaryOnlyDone, Orderly
<1>4. CASE GroupDone(o)
  <2> DEFINE q == [queues[o] EXCEPT !.items = DropFirst(@, Len(batch))]
             c == IF drain[o].summary # <<>> THEN ClearQueueSummaryState(q) ELSE q
             d == [drain[o] EXCEPT !.batch = FirstGroup(drain[o].rest),
                                   !.rest = LaterGroups(drain[o].rest), !.summary = <<>>]
  <2>1. /\ drain[o].at = "group"
        /\ UNCHANGED <<budget, accepted>> /\ delivered' = delivered \o batch
    BY <1>4 DEF GroupDone, TurnKept
  <2>2. /\ IsQueue(q) /\ q.draining = queues[o].draining /\ q.droppedCount = 0
        /\ q.items = DropFirst(items, Len(batch))
    BY <1>1 DEF IInv, Shape, Queues, IsQueue
  <2>3. \/ drain[o].rest = <<>> /\ LoopAgain(o, [queues EXCEPT ![o] = c])
        \/ /\ drain[o].rest # <<>> /\ UNCHANGED current
           /\ queues' = [queues EXCEPT ![o] = c] /\ drain' = [drain EXCEPT ![o] = d]
    BY <1>4 DEF GroupDone
  <2> HIDE DEF q
  <2>4. /\ IsQueue(c) /\ c.draining = queues[o].draining /\ c.droppedCount = 0
        /\ c.items = DropFirst(items, Len(batch))
    BY <2>2 DEF IsQueue, ClearQueueSummaryState
  <2> HIDE DEF c
  <2>5. CASE LoopAgain(o, [queues EXCEPT ![o] = c])
    <3>1. Ledger(queues, drain, current)' /\ delivered' \in Seq(Msgs)
      BY <2>1, <2>4, <2>5, LoopDelivers
    <3> QED
      BY <2>1, <3>1 DEF LedgerOK
  <2>6. CASE /\ drain[o].rest # <<>> /\ UNCHANGED current
             /\ queues' = [queues EXCEPT ![o] = c] /\ drain' = [drain EXCEPT ![o] = d]
    <3>1. /\ d.at = "group" /\ d.batch = FirstGroup(drain[o].rest)
          /\ d.rest = LaterGroups(drain[o].rest)
      BY <2>1 DEF IInv, Shape, Drains, IsDrain
    <3> HIDE DEF d
    <3>2. AtFront(d.batch, d.rest, c.items)
      BY <1>1, <2>4, <2>6, <3>1, GroupAtFront DEF Orderly
    <3>3. Orderly(d, c.items)
      BY <3>1, <3>2 DEF Orderly
    <3>4. Whole(c)
      BY <1>1, <2>4, DropFacts DEF Whole
    <3>5. o = current
      BY <2>1, DrainedIsCurrent
    <3>6. /\ LedgerAfter([queues EXCEPT ![o] = c], [drain EXCEPT ![o] = d], current)
          /\ delivered' \in Seq(Msgs)
      BY <2>1, <2>4, <3>3, <3>4, <3>5, DeliverLedger
    <3>7. Ledger(queues, drain, current)'
      BY <2>6, <3>6 DEF LedgerAfter, Ledger
    <3> QED
      BY <2>1, <3>6, <3>7 DEF LedgerOK
  <2> QED
    BY <2>3, <2>5, <2>6
<1>5. CASE TurnFails(o)
  <2>1. /\ drain[o].at # "none" /\ EndDrain(o, queues) /\ UNCHANGED <<accepted, delivered>>
    BY <1>5 DEF TurnFails, Running, Turns
  <2>2. budget' \in [failures : {budget'.failures}, replies : {budget'.replies}, clears : {0}]
    BY <1>5 DEF TurnFails, LedgerOK
  <2> QED
    BY <2>1, <2>2, EndsLedger DEF LedgerOK
<1> QED
  BY <1>2, <1>3, <1>4, <1>5

LEMMA InitLedger == ASSUME Init PROVE LedgerOK
<1>1. \A o \in Objs : queues[o] = EmptyQueue /\ drain[o] = NoDrain
  BY DEF Init
<1>2. Whole(EmptyQueue) /\ EmptyQueue.items = <<>> /\ <<>> \in Seq(Msgs)
  BY DEF Whole, EmptyQueue
<1>3. Orderly(NoDrain, <<>>) /\ NoDrain.at = "none"
  <2>1. Blank(NoDrain)
    BY DEF Blank, NoDrain
  <2> QED
    BY <1>2, <2>1, BlankOrderly DEF NoDrain
<1>4. Backlog(queues, current) = <<>> /\ accepted = <<>> /\ delivered = <<>>
  BY DEF Init, Backlog
<1>5. accepted = delivered \o Backlog(queues, current)
  BY <1>4
<1>6. Ledger(queues, drain, current)
  BY <1>1, <1>2, <1>3, <1>5 DEF Ledger
<1> QED
  BY <1>2, <1>4, <1>6 DEF Init, LedgerOK

LEMMA StepLedger == ASSUME Keeping, IInv, LedgerOK, [Next]_vars PROVE LedgerOK'
<1>1. ASSUME NEW m \in Msgs, NEW s \in Settings,
             EnqueueFollowupRun(m, s) \/ EnqueueRefused(m, s)
      PROVE  LedgerOK'
  BY <1>1, EnqueueLedger, RefusedLedger
<1>2. CASE ReplyStarts \/ ReplyEnds
  BY <1>2, ReplyLedger
<1>3. CASE ClearFollowupQueue
  BY <1>3, NoClears
<1>4. ASSUME NEW o \in Objs, DrainStep(o) PROVE LedgerOK'
  BY <1>4, BeginLedger, DoneLedger DEF DrainStep
<1>5. CASE UNCHANGED vars
  BY <1>5 DEF vars, LedgerOK, Ledger
<1> QED
  BY <1>1, <1>2, <1>3, <1>4, <1>5 DEF Next

\* What was accepted and not run is still in the registered queue.
LEMMA LedgerKeepsAll == ASSUME IInv, LedgerOK PROVE NothingLost
<1> DEFINE items == Backlog(queues, current)
<1>1. /\ delivered \in Seq(Msgs) /\ items \in Seq(Msgs) /\ accepted = delivered \o items
  BY DEF LedgerOK, Ledger, Whole, Backlog, IInv, Shape
<1>2. items # <<>> => Range(items) \subseteq Waiting
  <2>1. items # <<>> => current \in Objs /\ items = queues[current].items
    BY DEF Backlog, IInv, Shape
  <2> QED
    BY <2>1 DEF Waiting
<1> HIDE DEF items
<1>3. ASSUME NEW i \in 1..Len(accepted)
      PROVE  accepted[i] \in Range(delivered) \cup Waiting
  <2>1. \/ i \in 1..Len(delivered) /\ accepted[i] = delivered[i]
        \/ i - Len(delivered) \in 1..Len(items) /\ accepted[i] = items[i - Len(delivered)]
    BY <1>1, ConcatFacts
  <2>2. CASE i \in 1..Len(delivered) /\ accepted[i] = delivered[i]
    BY <1>1, <2>2 DEF Range
  <2>3. CASE i - Len(delivered) \in 1..Len(items) /\ accepted[i] = items[i - Len(delivered)]
    <3>1. items # <<>> /\ accepted[i] \in Range(items)
      BY <1>1, <2>3 DEF Range
    <3> QED
      BY <1>2, <3>1
  <2> QED
    BY <2>1, <2>2, <2>3
<1>4. DOMAIN accepted = 1..Len(accepted)
  BY DEF LedgerOK
<1> QED
  BY <1>3, <1>4 DEF NothingLost, Range

LEMMA LedgerInOrder == ASSUME IInv, LedgerOK PROVE DeliveredInOrder
<1> DEFINE items == Backlog(queues, current)
<1>1. /\ delivered \in Seq(Msgs) /\ items \in Seq(Msgs) /\ accepted = delivered \o items
  BY DEF LedgerOK, Ledger, Whole, Backlog, IInv, Shape
<1> HIDE DEF items
<1> QED
  BY <1>1 DEF DeliveredInOrder, IsPrefix

\* Where no policy drops what was accepted and no queue is cleared, no message is lost:
\* through every interleaving of enqueues, mode switches, failing turns and drains it
\* stays in the registered queue until its turn has been run.
THEOREM NoMessageLost == Keeping => (Spec => []NothingLost)
<1> SUFFICES ASSUME Keeping PROVE Spec => []NothingLost
  OBVIOUS
<1>1. IInv /\ LedgerOK => NothingLost
  BY LedgerKeepsAll
<1>2. Init => IInv /\ LedgerOK
  BY InitOK, InitLedger
<1>3. (IInv /\ LedgerOK) /\ [Next]_vars => (IInv /\ LedgerOK)'
  BY StepOK, StepLedger
<1> QED
  BY <1>1, <1>2, <1>3, PTL DEF Spec

\* Under the same conditions turns are run in the order of arrival, without gaps.
THEOREM TurnsInOrder == Keeping => (Spec => []DeliveredInOrder)
<1> SUFFICES ASSUME Keeping PROVE Spec => []DeliveredInOrder
  OBVIOUS
<1>1. IInv /\ LedgerOK => DeliveredInOrder
  BY LedgerInOrder
<1>2. Init => IInv /\ LedgerOK
  BY InitOK, InitLedger
<1>3. (IInv /\ LedgerOK) /\ [Next]_vars => (IInv /\ LedgerOK)'
  BY StepOK, StepLedger
<1> QED
  BY <1>1, <1>2, <1>3, PTL DEF Spec
=============================================================================

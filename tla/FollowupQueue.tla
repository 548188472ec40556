---------------------------- MODULE FollowupQueue ----------------------------
(***************************************************************************)
(* The followup queue of one session (src/auto-reply/reply/queue/ and      *)
(* src/utils/queue-helpers.ts): messages that arrive while the agent is    *)
(* busy wait in a queue object registered under the session's key, and one *)
(* asynchronous drain runs them, singly or collected into batches.         *)
(*                                                                         *)
(* A drain holds on to its queue object across every await, while enqueues *)
(* change the object's items and settings, and a clear takes the object    *)
(* out of the registry; the drain's finally clause works on the registry   *)
(* again.  One action of the drain is the code between two awaits.         *)
(***************************************************************************)
EXTENDS Naturals, Sequences, SequencesExt

CONSTANTS
    Msgs,           \* messages, each with its own message id
    Channel,        \* [Msgs -> a routing key]: channel, target and thread
    Authorization,  \* [Msgs -> a sender's authorisation context]
    Settings,       \* queue settings a message may carry: mode and drop policy
    Cap,            \* the queue's cap
    Objs,           \* queue objects
    None,           \* no queue object is registered
    MaxFailures,    \* bound: followup turns that throw
    MaxReplies,     \* bound: turns started outside the drain
    MaxClears       \* bound: clears of the session's queues

ASSUME FollowupAssumption ==
    /\ Cap \in Nat \ {0}
    /\ Settings \subseteq [mode : {"followup", "collect"},
                           dropPolicy : {"summarize", "old", "new"}]
    /\ None \notin Objs

VARIABLES
    queues,     \* the queue objects
    current,    \* FOLLOWUP_QUEUES.get(key)
    drain,      \* the drain of each object, and what it awaits
    replying,   \* a turn started outside the drain is active
    recent,     \* RECENT_QUEUE_MESSAGE_IDS, within its time to live
    budget,     \* failures, replies and clears so far
    accepted,   \* history: the messages enqueued, in order
    delivered,  \* history: the messages whose turn was run, in order
    reported    \* history: messages dropped by a policy that does not report
                \* them, cleared, or reported in a summary

vars == <<queues, current, drain, replying, recent, budget, accepted, delivered,
          reported>>

EmptyQueue ==
    [items |-> <<>>, draining |-> FALSE, mode |-> "collect",
     dropPolicy |-> "summarize", droppedCount |-> 0, summaryLines |-> <<>>]

\* at: none, debounce, skipped (a batch may be collected), or the kind of turn
\* awaited: next, summaryNext, summaryOnly, group.  The items of that turn are the
\* batch, those of the snapshot's later groups the rest.
NoDrain == [at |-> "none", force |-> FALSE, batch |-> <<>>, rest |-> <<>>,
            summary |-> <<>>]
FreshDrain == [NoDrain EXCEPT !.at = "debounce"]

Turns == {"next", "summaryNext", "summaryOnly", "group"}
Running(o) == drain[o].at \in Turns
RunActive == replying \/ \E o \in Objs : Running(o)

HasWork(q) == q.items # <<>> \/ q.droppedCount > 0

\* previewQueueSummaryPrompt yields a prompt.
HasSummary(q) == q.dropPolicy = "summarize" /\ q.droppedCount > 0

Init ==
    /\ queues = [o \in Objs |-> EmptyQueue]
    /\ current = None
    /\ drain = [o \in Objs |-> NoDrain]
    /\ replying = FALSE
    /\ recent = {}
    /\ budget = [failures |-> 0, replies |-> 0, clears |-> 0]
    /\ accepted = <<>>
    /\ delivered = <<>>
    /\ reported = {}

-----------------------------------------------------------------------------
(* Helpers on queue objects.                                               *)

DropFirst(s, n) == SubSeq(s, n + 1, Len(s))

\* applyQueueDropPolicy for the policies that make room: the oldest items go,
\* and summarize keeps as many of them as the cap allows.
ApplyQueueDropPolicy(q) ==
    IF Len(q.items) < Cap
    THEN q
    ELSE LET n == Len(q.items) - Cap + 1
             lines == q.summaryLines \o SubSeq(q.items, 1, n)
             rest == [q EXCEPT !.items = DropFirst(q.items, n)]
         IN  IF q.dropPolicy = "summarize"
             THEN [rest EXCEPT
                       !.droppedCount = q.droppedCount + n,
                       !.summaryLines =
                           DropFirst(lines, IF Len(lines) > Cap THEN Len(lines) - Cap
                                                                 ELSE 0)]
             ELSE rest

\* The "new" policy refuses the message instead.
Refuses(q) == q.dropPolicy = "new" /\ Len(q.items) >= Cap

ClearQueueSummaryState(q) == [q EXCEPT !.droppedCount = 0, !.summaryLines = <<>>]

HasCrossChannelItems(items) ==
    \E i, j \in DOMAIN items : Channel[items[i]] # Channel[items[j]]

\* splitCollectItemsByAuthorization: consecutive items with one authorisation form
\* a group.  The groups are taken off the snapshot one by one, by their length.
GroupLength(items) ==
    CHOOSE n \in DOMAIN items :
        /\ \A i \in 1..n : Authorization[items[i]] = Authorization[items[1]]
        /\ n < Len(items) => Authorization[items[n + 1]] # Authorization[items[1]]
FirstGroup(items) == SubSeq(items, 1, GroupLength(items))
LaterGroups(items) == DropFirst(items, GroupLength(items))

-----------------------------------------------------------------------------
(* The registry and the drain's life cycle.                                *)

\* scheduleFollowupDrain with the given objects, drains and registered object:
\* the loop of a new drain reaches its first await, or ends at once.
ScheduleFollowupDrain(qs, ds, cur) ==
    IF cur = None \/ qs[cur].draining
    THEN queues' = qs /\ drain' = ds /\ current' = cur
    ELSE IF HasWork(qs[cur])
    THEN /\ queues' = [qs EXCEPT ![cur].draining = TRUE]
         /\ drain' = [ds EXCEPT ![cur] = FreshDrain]
         /\ current' = cur
    ELSE queues' = qs /\ drain' = ds /\ current' = None

\* The finally clause: an object without work takes the key out of the registry,
\* whatever object is registered there by then.
EndDrain(o, qs) ==
    LET idle == [qs EXCEPT ![o].draining = FALSE]
        ds == [drain EXCEPT ![o] = NoDrain]
    IN  IF HasWork(qs[o])
        THEN ScheduleFollowupDrain(idle, ds, current)
        ELSE queues' = idle /\ drain' = ds /\ current' = None

\* The loop's condition, after a turn.
LoopAgain(o, qs) ==
    IF HasWork(qs[o])
    THEN /\ queues' = qs
         /\ drain' = [drain EXCEPT ![o] = [NoDrain EXCEPT !.at = "debounce",
                                                          !.force = drain[o].force]]
         /\ UNCHANGED current
    ELSE EndDrain(o, qs)

AwaitTurn(o, at, batch, rest, summary, force) ==
    /\ drain' = [drain EXCEPT ![o] = [at |-> at, force |-> force, batch |-> batch,
                                      rest |-> rest, summary |-> summary]]
    /\ UNCHANGED <<queues, current>>

-----------------------------------------------------------------------------
(* Messages and turns outside the drain.                                   *)

\* getFollowupQueue: the registered object, or a new one.  Bound: a message waits
\* until one of Objs is free to be the new one.
ObjectAtHand == current # None \/ \E o \in Objs : drain[o].at = "none"

Target ==
    IF current # None THEN current
    ELSE CHOOSE o \in Objs : drain[o].at = "none"

\* The object with the message's settings applied to it.
WithSettings(s) ==
    LET q == IF current # None THEN queues[current] ELSE EmptyQueue
    IN  [q EXCEPT !.mode = s.mode, !.dropPolicy = s.dropPolicy]

\* After an enqueue the caller looks again whether a run is active, and starts
\* the drain itself when none is.
ScheduleIfIdle(qs, cur) ==
    IF RunActive
    THEN queues' = qs /\ drain' = drain /\ current' = cur
    ELSE ScheduleFollowupDrain(qs, drain, cur)

\* A redelivered message, or one the policy refuses: the settings apply all the
\* same, and an object that was missing is registered.
EnqueueRefused(m, s) ==
    /\ ObjectAtHand
    /\ \/ m \in recent
       \/ m \in Range(WithSettings(s).items)
       \/ Refuses(WithSettings(s))
    /\ ScheduleIfIdle([queues EXCEPT ![Target] = WithSettings(s)], Target)
    /\ UNCHANGED <<replying, recent, budget, accepted, delivered, reported>>

\* Mutant: the caller relies on the active run it saw before it queued.
EnqueueWithoutRecheck(m, s) ==
    LET q == WithSettings(s)
        room == ApplyQueueDropPolicy(q)
    IN  /\ ObjectAtHand
        /\ m \notin recent
        /\ m \notin Range(q.items)
        /\ ~Refuses(q)
        /\ queues' = [queues EXCEPT ![Target] = [room EXCEPT !.items = Append(@, m)]]
        /\ current' = Target
        /\ recent' = recent \cup {m}
        /\ accepted' = Append(accepted, m)
        /\ reported' = reported
        /\ UNCHANGED <<drain, replying, budget, delivered>>

\* enqueueFollowupRun as its caller in agent-runner.ts uses it.
EnqueueFollowupRun(m, s) ==
    LET q == WithSettings(s)
        room == ApplyQueueDropPolicy(q)
        gone == (Range(q.items) \cup Range(q.summaryLines))
                    \ (Range(room.items) \cup Range(room.summaryLines))
    IN  /\ ObjectAtHand
        /\ m \notin recent
        /\ m \notin Range(q.items)
        /\ ~Refuses(q)
        /\ ScheduleIfIdle([queues EXCEPT ![Target] = [room EXCEPT !.items = Append(@, m)]],
                          Target)
        /\ recent' = recent \cup {m}
        /\ accepted' = Append(accepted, m)
        /\ reported' = reported \cup gone
        /\ UNCHANGED <<replying, budget, delivered>>

\* A message starts a turn of its own while no run is active ...
ReplyStarts ==
    /\ ~RunActive
    /\ budget.replies < MaxReplies
    /\ replying' = TRUE
    /\ budget' = [budget EXCEPT !.replies = @ + 1]
    /\ UNCHANGED <<queues, current, drain, recent, accepted, delivered, reported>>

\* ... and every way it ends goes through finalizeWithFollowup.
ReplyEnds ==
    /\ replying
    /\ replying' = FALSE
    /\ ScheduleFollowupDrain(queues, drain, current)
    /\ UNCHANGED <<recent, budget, accepted, delivered, reported>>

\* clearFollowupQueue: a stop or a session reset empties the object and takes it
\* out of the registry; its drain goes on.
ClearFollowupQueue ==
    /\ current # None
    /\ budget.clears < MaxClears
    /\ queues' = [queues EXCEPT ![current] =
                     [@ EXCEPT !.items = <<>>, !.droppedCount = 0, !.summaryLines = <<>>]]
    /\ current' = None
    /\ budget' = [budget EXCEPT !.clears = @ + 1]
    /\ reported' = reported \cup Range(queues[current].items)
                             \cup Range(queues[current].summaryLines)
    /\ UNCHANGED <<drain, replying, recent, accepted, delivered>>

-----------------------------------------------------------------------------
(* The drain.                                                              *)

\* The debounce is over.  In collect mode, messages for several destinations are
\* run one by one for the rest of this drain.
CollectTurn(o) ==
    LET q == queues[o]
        force == drain[o].force \/ HasCrossChannelItems(q.items)
    IN  /\ drain[o].at = "debounce"
        /\ q.mode = "collect"
        /\ IF ~force
           THEN AwaitTurn(o, "skipped", <<>>, <<>>, <<>>, FALSE)
           ELSE IF q.items # <<>>
           THEN AwaitTurn(o, "next", <<Head(q.items)>>, <<>>, <<>>, TRUE)
           ELSE IF HasSummary(q)
           THEN AwaitTurn(o, "summaryOnly", <<>>, <<>>, q.summaryLines, TRUE)
           ELSE EndDrain(o, queues)
        /\ UNCHANGED <<replying, recent, budget, accepted, delivered, reported>>

\* Otherwise the items at hand are collected, after the await that said so.
CollectBatch(o) ==
    LET q == queues[o]
        summary == IF HasSummary(q) THEN q.summaryLines ELSE <<>>
    IN  /\ drain[o].at = "skipped"
        /\ IF q.items # <<>>
           THEN AwaitTurn(o, "group", FirstGroup(q.items), LaterGroups(q.items), summary, FALSE)
           ELSE IF HasSummary(q)
           THEN AwaitTurn(o, "summaryOnly", <<>>, <<>>, summary, FALSE)
           ELSE EndDrain(o, queues)
        /\ UNCHANGED <<replying, recent, budget, accepted, delivered, reported>>

\* The other modes run the oldest item, or a summary in its place.
FollowupTurn(o) ==
    LET q == queues[o]
    IN  /\ drain[o].at = "debounce"
        /\ q.mode # "collect"
        /\ IF q.items = <<>>
           THEN EndDrain(o, queues)
           ELSE IF HasSummary(q)
           THEN AwaitTurn(o, "summaryNext", <<>>, <<>>, q.summaryLines, drain[o].force)
           ELSE AwaitTurn(o, "next", <<Head(q.items)>>, <<>>, <<>>, drain[o].force)
        /\ UNCHANGED <<replying, recent, budget, accepted, delivered, reported>>

\* A followup turn only runs while no other turn of the session is active.
TurnPossible(o) == ~replying /\ \A p \in Objs \ {o} : ~Running(p)

TurnKept == <<replying, recent, budget, accepted>>

\* Mutant: the item stays at the front when its turn had no outcome.
NextDoneKeepsItem(o) ==
    /\ drain[o].at \in {"next", "summaryNext"}
    /\ TurnPossible(o)
    /\ LoopAgain(o, queues)
    /\ UNCHANGED <<TurnKept, delivered, reported>>

\* drainNextQueueItem: the item is shifted after its turn.
NextDone(o) ==
    /\ drain[o].at \in {"next", "summaryNext"}
    /\ TurnPossible(o)
    /\ LET q == [queues[o] EXCEPT !.items = DropFirst(@, 1)]
       IN  LoopAgain(o, [queues EXCEPT ![o] = IF drain[o].at = "next" THEN q
                                              ELSE ClearQueueSummaryState(q)])
    /\ delivered' = delivered \o drain[o].batch
    /\ reported' = reported \cup Range(drain[o].summary)
    /\ UNCHANGED TurnKept

SummaryOnlyDone(o) ==
    /\ drain[o].at = "summaryOnly"
    /\ TurnPossible(o)
    /\ LoopAgain(o, [queues EXCEPT ![o] = ClearQueueSummaryState(@)])
    /\ reported' = reported \cup Range(drain[o].summary)
    /\ UNCHANGED <<TurnKept, delivered>>

\* Mutant: the items leave the queue only after the last batch.
GroupDoneSplicesAtEnd(o) ==
    LET d == drain[o]
    IN  /\ d.at = "group"
        /\ TurnPossible(o)
        /\ IF d.rest # <<>>
           THEN AwaitTurn(o, "group", FirstGroup(d.rest), LaterGroups(d.rest), <<>>, FALSE)
           ELSE LET kept(m) == m \notin Range(delivered \o d.batch)
                IN  LoopAgain(o, [queues EXCEPT ![o].items = SelectSeq(@, kept)])
        /\ delivered' = delivered \o d.batch
        /\ reported' = reported \cup Range(d.summary)
        /\ UNCHANGED TurnKept

\* A batch was run: its items are spliced off, and the next batch of the
\* snapshot follows.
GroupDone(o) ==
    LET d == drain[o]
        q == [queues[o] EXCEPT !.items = DropFirst(@, Len(d.batch))]
        qs == [queues EXCEPT ![o] = IF d.summary # <<>> THEN ClearQueueSummaryState(q)
                                                        ELSE q]
    IN  /\ d.at = "group"
        /\ TurnPossible(o)
        /\ IF d.rest # <<>>
           THEN /\ queues' = qs
                /\ drain' = [drain EXCEPT ![o] =
                                [d EXCEPT !.batch = FirstGroup(d.rest),
                                          !.rest = LaterGroups(d.rest), !.summary = <<>>]]
                /\ UNCHANGED current
           ELSE LoopAgain(o, qs)
        /\ delivered' = delivered \o d.batch
        /\ reported' = reported \cup Range(d.summary)
        /\ UNCHANGED TurnKept

\* Mutant: the item of a turn that failed is gone.
TurnFailsAndShifts(o) ==
    /\ Running(o)
    /\ ~TurnPossible(o) \/ budget.failures < MaxFailures
    /\ budget' = IF TurnPossible(o) THEN [budget EXCEPT !.failures = @ + 1] ELSE budget
    /\ EndDrain(o, [queues EXCEPT ![o].items = DropFirst(@, 1)])
    /\ UNCHANGED <<replying, recent, accepted, delivered, reported>>

\* The turn throws, because another turn is active or for a reason of its own;
\* the drain ends and, with work left, a new one begins.
TurnFails(o) ==
    /\ Running(o)
    /\ ~TurnPossible(o) \/ budget.failures < MaxFailures
    /\ budget' = IF TurnPossible(o) THEN [budget EXCEPT !.failures = @ + 1] ELSE budget
    /\ EndDrain(o, queues)
    /\ UNCHANGED <<replying, recent, accepted, delivered, reported>>

DrainStep(o) ==
    \/ CollectTurn(o)
    \/ CollectBatch(o)
    \/ FollowupTurn(o)
    \/ NextDone(o)
    \/ SummaryOnlyDone(o)
    \/ GroupDone(o)
    \/ TurnFails(o)

Next ==
    \/ \E m \in Msgs, s \in Settings : EnqueueFollowupRun(m, s) \/ EnqueueRefused(m, s)
    \/ ReplyStarts
    \/ ReplyEnds
    \/ ClearFollowupQueue
    \/ \E o \in Objs : DrainStep(o)

Spec == Init /\ [][Next]_vars

(***************************************************************************)
(* Fairness: turns end, by their timeout at the latest, timers fire and    *)
(* settled promises are continued.  Nothing is assumed of messages.        *)
(***************************************************************************)
FairSpec ==
    /\ Spec
    /\ WF_vars(ReplyEnds)
    /\ \A o \in Objs : WF_vars(DrainStep(o))

-----------------------------------------------------------------------------
Waiting == UNION {Range(queues[o].items) \cup Range(queues[o].summaryLines)
                      \cup Range(drain[o].batch) \cup Range(drain[o].rest)
                      \cup Range(drain[o].summary)
                  : o \in {p \in Objs : p = current \/ drain[p].at # "none"}}

\* No message is lost: what was accepted has had its turn, still waits, or was
\* reported as dropped or cleared.  The drain removes items from the front after
\* an await, while enqueues drop, append and reconfigure, turns fail and other
\* drains end.
NothingLost == Range(accepted) \subseteq Range(delivered) \cup reported \cup Waiting

\* Turns run the messages in the order of arrival, each once: retries after a
\* failure neither repeat a batch that was run nor overtake.
DeliveredInOrder == IsPrefix(delivered, accepted)

\* No message is run twice, whatever is dropped, cleared, redelivered or retried.
DeliveredOnce == \A i, j \in DOMAIN delivered : delivered[i] = delivered[j] => i = j

\* A backlog never lies idle: with no turn active, a registered queue that has
\* work has a drain, unless the drain of an object cleared earlier still goes on,
\* which looks at the registry again when it ends.  An enqueue starts no drain
\* while a turn is active, so every end of a turn has to.
NoIdleBacklog ==
    current # None /\ ~RunActive /\ (\A o \in Objs \ {current} : drain[o].at = "none")
        => (HasWork(queues[current]) => queues[current].draining)

\* Every accepted message has its turn, or is reported.
EveryMessageSettles ==
    \A m \in Msgs : m \in Range(accepted) ~> m \in Range(delivered) \cup reported
=============================================================================

--------------------------- MODULE InboundDebounce ---------------------------
(***************************************************************************)
(* The debouncer of inbound messages.  Each key has a chain of tasks that  *)
(* run one after the other; the first item of a burst reserves its slot in *)
(* the chain, and the slot becomes ready when the quiet time is over or    *)
(* when a message that is not debounced forces the flush.  The first       *)
(* message that is not debounced, on a key without a chain, is flushed     *)
(* without one.  Code between two awaits is one action; items are numbered *)
(* as they arrive, and a batch is a set of them.                           *)
(***************************************************************************)
EXTENDS Naturals, Sequences, FiniteSets

CONSTANTS
    Keys,
    MaxTrackedKeys,
    MaxItems        \* bound: items that arrive

ASSUME BoundsAssumption ==
    /\ IsFiniteSet(Keys)
    /\ MaxTrackedKeys \in Nat \ {0}
    /\ MaxItems \in Nat

Items == 1..MaxItems
\* A buffer's slot is open while the buffer is in the map, with its timer set;
\* a reserved slot waits for the buffer before it, other tasks are ready at once.
Tasks == [kind : {"buffer", "reserved", "now"}, open : BOOLEAN, ready : BOOLEAN,
          items : SUBSET Items]

VARIABLES
    arrived,
    chain,      \* keyChains: [Keys -> Seq(Tasks)], the head first
    running     \* [Keys -> BOOLEAN]: is the head being flushed?

vars == <<arrived, chain, running>>

Last(s) == s[Len(s)]
HasBuffer(k) == chain[k] # <<>> /\ Last(chain[k]).open

\* A key with a buffer has a chain, so the union of both maps is the chains.
CanTrackKey(k) ==
    chain[k] # <<>> \/ Cardinality({q \in Keys : chain[q] # <<>>}) < MaxTrackedKeys

Buffer(i) == [kind |-> "buffer", open |-> TRUE, ready |-> FALSE, items |-> {i}]
Reserved(i) == [kind |-> "reserved", open |-> FALSE, ready |-> FALSE, items |-> {i}]
Now(i) == [kind |-> "now", open |-> FALSE, ready |-> TRUE, items |-> {i}]

Arrive == arrived < MaxItems /\ arrived' = arrived + 1

\* Taken out of the map, without its timer and ready.
Flushed(s) == [s EXCEPT ![Len(s)] = [@ EXCEPT !.open = FALSE, !.ready = TRUE]]
\* The last buffer takes one more item.
Joined(s, i) ==
    [s EXCEPT ![Len(s)] = [@ EXCEPT !.items = Last(s).items \cup {i}]]

(* A message that is not debounced *)

\* Mutant: the slot of the buffer goes behind that of the message.
EnqueueOvertakes(k) ==
    /\ Arrive /\ HasBuffer(k)
    /\ chain' = [chain EXCEPT ![k] = Append(Append(SubSeq(@, 1, Len(@) - 1), Now(arrived')), Last(Flushed(@)))]
    /\ UNCHANGED running

EnqueueBehindBuffer(k) ==
    /\ Arrive /\ HasBuffer(k)
    /\ chain' = [chain EXCEPT ![k] = Append(Flushed(@), Reserved(arrived'))]
    /\ UNCHANGED running

EnqueueBehindChain(k) ==
    /\ Arrive /\ ~HasBuffer(k) /\ chain[k] # <<>>
    /\ chain' = [chain EXCEPT ![k] = Append(@, Now(arrived'))]
    /\ UNCHANGED running

FlushAtOnce(k) ==
    /\ Arrive /\ chain[k] = <<>>
    /\ UNCHANGED <<chain, running>>

(* A message that is debounced *)

\* Mutant: a later message of the burst replaces the earlier ones.
AddToBufferReplaces(k) ==
    /\ Arrive /\ HasBuffer(k)
    /\ chain' = [chain EXCEPT ![k][Len(chain[k])].items = {arrived'}]
    /\ UNCHANGED running

AddToBuffer(k) ==
    /\ Arrive /\ HasBuffer(k)
    /\ chain' = [chain EXCEPT ![k] = Joined(@, arrived')]
    /\ UNCHANGED running

\* The map is full: immediate work, in the order of the key.
EnqueueSaturated(k) ==
    /\ Arrive /\ ~HasBuffer(k) /\ ~CanTrackKey(k)
    /\ chain' = [chain EXCEPT ![k] = Append(@, Now(arrived'))]
    /\ UNCHANGED running

OpenBuffer(k) ==
    /\ Arrive /\ ~HasBuffer(k) /\ CanTrackKey(k)
    /\ chain' = [chain EXCEPT ![k] = Append(@, Buffer(arrived'))]
    /\ UNCHANGED running

(* The timer of a buffer, or flushKey *)

FlushBuffer(k) ==
    /\ HasBuffer(k)
    /\ chain' = [chain EXCEPT ![k] = Flushed(@)]
    /\ UNCHANGED <<arrived, running>>

(* The chain *)

StartTask(k) ==
    /\ chain[k] # <<>> /\ ~running[k] /\ Head(chain[k]).ready
    /\ running' = [running EXCEPT ![k] = TRUE]
    /\ UNCHANGED <<arrived, chain>>

\* Mutant: the slot behind the buffer is not released.
NotReleased(s) == s
\* The caller that waits for the buffer's task releases its own slot, the next.
Released(s) == IF s # <<>> /\ s[1].kind = "reserved" THEN [s EXCEPT ![1].ready = TRUE] ELSE s

\* onFlush resolves or fails; a failure goes to onError and the chain goes on.
EndTask(k) ==
    /\ running[k]
    /\ chain' = [chain EXCEPT ![k] = Released(Tail(@))]
    /\ running' = [running EXCEPT ![k] = FALSE]
    /\ UNCHANGED arrived

Init ==
    /\ arrived = 0
    /\ chain = [k \in Keys |-> <<>>]
    /\ running = [k \in Keys |-> FALSE]

Enqueue(k) ==
    \/ EnqueueBehindBuffer(k) \/ EnqueueBehindChain(k) \/ FlushAtOnce(k)
    \/ AddToBuffer(k) \/ EnqueueSaturated(k) \/ OpenBuffer(k)

Next == \E k \in Keys : Enqueue(k) \/ FlushBuffer(k) \/ StartTask(k) \/ EndTask(k)

Spec == Init /\ [][Next]_vars

\* Timers fire, promises go on and flushes end; messages need not come.
Fairness == \A k \in Keys :
    WF_vars(FlushBuffer(k)) /\ WF_vars(StartTask(k)) /\ WF_vars(EndTask(k))
FairSpec == Spec /\ Fairness

(***************************************************************************)
(* Properties                                                              *)
(***************************************************************************)

\* The types; also, only a chain that is there has a running head.
TypeOK ==
    /\ arrived \in 0..MaxItems
    /\ chain \in [Keys -> Seq(Tasks)]
    /\ running \in [Keys -> BOOLEAN]
    /\ \A k \in Keys : running[k] => chain[k] # <<>> /\ chain[k][1].ready

\* The slot of the buffer in the map is the last of its key: what comes later
\* either joins it or closes it first.
OpenIsLast ==
    \A k \in Keys : \A p \in 1..Len(chain[k]) : chain[k][p].open => p = Len(chain[k])

\* No slot waits for ever: the first one that is not ready has a timer, or
\* stands behind the buffer whose end releases it.
NoStuckSlot ==
    \A k \in Keys : \A p \in 1..Len(chain[k]) : ~chain[k][p].ready =>
        \/ chain[k][p].kind = "buffer" /\ chain[k][p].open
        \/ chain[k][p].kind = "reserved" /\ p > 1 /\ chain[k][p - 1].kind = "buffer"

\* The tasks of a key hold its waiting items in the order of arrival.
ChainInOrder ==
    \A k \in Keys : \A p, q \in 1..Len(chain[k]) : p < q =>
        \A i \in chain[k][p].items, j \in chain[k][q].items : i < j

\* Items whose flush has not begun.
Waiting(k) ==
    UNION {chain[k][p].items : p \in {p \in 1..Len(chain[k]) : p = 1 => ~running[k]}}

Contract == INSTANCE InboundContract WITH waiting <- [k \in Keys |-> Waiting(k)]

\* The debouncer keeps the promise of the contract: per key, batches in the
\* order of arrival, nothing lost or flushed twice, and every item in the end.
KeepsContract == Contract!FairSpec
=============================================================================

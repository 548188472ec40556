--------------------------- MODULE InboundContract ---------------------------
(***************************************************************************)
(* What the inbound debouncer promises to a channel: the items of a key    *)
(* are flushed in batches that follow the order of arrival, none is lost   *)
(* and none is flushed twice.  Items are numbered as they arrive.          *)
(***************************************************************************)
EXTENDS Naturals

CONSTANTS Keys, MaxItems

VARIABLES
    arrived,    \* items that have arrived so far
    waiting     \* [Keys -> sets of items whose flush has not begun]

vars == <<arrived, waiting>>

Init == arrived = 0 /\ waiting = [k \in Keys |-> {}]

Accept(k) ==
    /\ arrived < MaxItems
    /\ arrived' = arrived + 1
    /\ waiting' = [waiting EXCEPT ![k] = @ \cup {arrived'}]

\* An item may be flushed as it arrives when none of its key waits.
PassThrough(k) ==
    /\ arrived < MaxItems
    /\ waiting[k] = {}
    /\ arrived' = arrived + 1
    /\ UNCHANGED waiting

\* A batch takes the items that have waited longest.
Flush(k, B) ==
    /\ B # {}
    /\ \A i \in B, j \in waiting[k] \ B : i < j
    /\ waiting' = [waiting EXCEPT ![k] = @ \ B]
    /\ UNCHANGED arrived

Next == \E k \in Keys :
    Accept(k) \/ PassThrough(k) \/ \E B \in SUBSET waiting[k] : Flush(k, B)

Spec == Init /\ [][Next]_vars

\* No key is forgotten.
FairSpec == Spec /\ \A k \in Keys : WF_vars(\E B \in SUBSET waiting[k] : Flush(k, B))
=============================================================================

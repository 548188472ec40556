---------------------------- MODULE LaneContract ----------------------------
(***************************************************************************)
(* What the command queue promises its callers: per lane a FIFO of         *)
(* accepted commands, started in order, one at a time per free slot, each  *)
(* at most once, and without anyone having to ask again.  No call stack,   *)
(* no draining guard, no generations.                                      *)
(***************************************************************************)
EXTENDS Naturals, Sequences, FiniteSets

CONSTANTS Lanes, Cmds

VARIABLES
    open,       \* commands are accepted
    pending,    \* per lane, accepted commands in arrival order
    slots,      \* per lane, the commands occupying a slot
    limit,      \* per lane, the number of slots
    outcome,    \* per command, what its caller has learnt
    lane        \* per command, its lane

contractVars == <<open, pending, slots, limit, outcome, lane>>

Init ==
    /\ open = TRUE
    /\ pending = [l \in Lanes |-> <<>>]
    /\ slots = [l \in Lanes |-> {}]
    /\ limit = [l \in Lanes |-> 1]
    /\ outcome = [c \in Cmds |-> "new"]
    /\ lane \in [Cmds -> Lanes]

Accept(c) ==
    /\ open
    /\ outcome[c] = "new"
    /\ outcome' = [outcome EXCEPT ![c] = "accepted"]
    /\ pending' = [pending EXCEPT ![lane[c]] = Append(@, c)]
    /\ UNCHANGED <<open, slots, limit, lane>>

Refuse(c) ==
    /\ ~open
    /\ outcome[c] = "new"
    /\ outcome' = [outcome EXCEPT ![c] = "done"]
    /\ UNCHANGED <<open, pending, slots, limit, lane>>

CanStart(l) == pending[l] # <<>> /\ Cardinality(slots[l]) < limit[l]

\* The oldest accepted command takes a free slot.
Start(l) ==
    /\ CanStart(l)
    /\ pending' = [pending EXCEPT ![l] = Tail(@)]
    /\ slots' = [slots EXCEPT ![l] = @ \cup {Head(pending[l])}]
    /\ outcome' = [outcome EXCEPT ![Head(pending[l])] = "started"]
    /\ UNCHANGED <<open, limit, lane>>

\* A started command ends; it gives up its slot if it still has one.
End(c) ==
    /\ outcome[c] = "started"
    /\ outcome' = [outcome EXCEPT ![c] = "done"]
    /\ slots' = [slots EXCEPT ![lane[c]] = @ \ {c}]
    /\ UNCHANGED <<open, pending, limit, lane>>

\* All commands waiting in a lane are given up at once.
Discard(l) ==
    /\ pending' = [pending EXCEPT ![l] = <<>>]
    /\ outcome' = [c \in Cmds |->
                     IF outcome[c] = "accepted" /\ lane[c] = l
                     THEN "done" ELSE outcome[c]]
    /\ UNCHANGED <<open, slots, limit, lane>>

Resize(l) ==
    /\ limit'[l] \in Nat \ {0}
    /\ limit' = [limit EXCEPT ![l] = limit'[l]]
    /\ UNCHANGED <<open, pending, slots, outcome, lane>>

Close ==
    /\ open' = FALSE
    /\ UNCHANGED <<pending, slots, limit, outcome, lane>>

\* All slots are declared free and commands are accepted again.
Reopen ==
    /\ open' = TRUE
    /\ slots' = [l \in Lanes |-> {}]
    /\ UNCHANGED <<pending, limit, outcome, lane>>

Next ==
    \/ \E c \in Cmds : Accept(c) \/ Refuse(c) \/ End(c)
    \/ \E l \in Lanes : Start(l) \/ Discard(l) \/ Resize(l)
    \/ Close
    \/ Reopen

\* Weak fairness of Start(l), its enabling condition written out.
StartFairness(l) ==
    []<>(~CanStart(l)) \/ []<><<Start(l)>>_contractVars

SafeSpec == Init /\ [][Next]_contractVars

Spec == SafeSpec /\ \A l \in Lanes : StartFairness(l)
=============================================================================

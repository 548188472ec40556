--------------------------- MODULE MCCommandQueue ---------------------------
(***************************************************************************)
(* Instances of CommandQueue for TLC.                                      *)
(***************************************************************************)
EXTENDS CommandQueue, TLC

CONSTANTS c1, c2, c3, l1, l2

MCCmds == {c1, c2, c3}
MCLanes == {l1, l2}

\* No definition tells two commands or two lanes apart, so the ways to spread
\* the commands over the lanes come down to these.
MCInit ==
    /\ Init
    /\ home \in {[c \in MCCmds |-> l1], [c \in MCCmds |-> IF c = c3 THEN l2 ELSE l1]}

MCSpec == MCInit /\ [][Next]_vars /\ Fairness
=============================================================================

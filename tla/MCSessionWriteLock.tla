------------------------ MODULE MCSessionWriteLock -------------------------
(***************************************************************************)
(* Instances of SessionWriteLock for TLC: two processes, one of them with  *)
(* two callers.                                                            *)
(***************************************************************************)
EXTENDS SessionWriteLock, TLC

CONSTANTS c1, c2, c3, pA, pB

MCProcs == {pA, pB}
MCCallers == {c1, c2, c3}
MCProcOf == c1 :> pA @@ c2 :> pA @@ c3 :> pB
MCExclusive == {c2}
=============================================================================

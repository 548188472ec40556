-------------------------- MODULE MCAgentRunLanes ---------------------------
(***************************************************************************)
(* Instances of AgentRunLanes for TLC: a pair of runs of one session, one  *)
(* of them a cron job's, or three runs on the main lane, two of them of    *)
(* one session.                                                            *)
(***************************************************************************)
EXTENDS AgentRunLanes, TLC

CONSTANTS r1, r2, r3, sA, sB

MCSessions == {sA, sB}

PairRuns == {r1, r3}
PairSessionOf == r1 :> sA @@ r3 :> sA
PairLaneArg == r1 :> "main" @@ r3 :> "cron"

MCRuns == {r1, r2, r3}
MCSessionOf == r1 :> sA @@ r2 :> sA @@ r3 :> sB
MainLaneArg == [r \in MCRuns |-> "main"]
=============================================================================

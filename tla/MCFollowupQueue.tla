--------------------------- MODULE MCFollowupQueue ---------------------------
(***************************************************************************)
(* Instances of FollowupQueue for TLC: three or four messages, the second  *)
(* one from another sender, the third one for another destination and the  *)
(* fourth one like the first.                                              *)
(***************************************************************************)
EXTENDS FollowupQueue, TLC

CONSTANTS m1, m2, m3, m4

MCMsgs == {m1, m2, m3}
MCFourMsgs == MCMsgs \cup {m4}
MCChannel == m1 :> "telegram" @@ m2 :> "telegram" @@ m3 :> "slack" @@ m4 :> "telegram"
MCAuthorization == m1 :> "owner" @@ m2 :> "guest" @@ m3 :> "guest" @@ m4 :> "owner"

\* The policies that make room: drop, or drop and report.
Dropping == {[mode |-> "collect", dropPolicy |-> "old"],
             [mode |-> "collect", dropPolicy |-> "summarize"],
             [mode |-> "followup", dropPolicy |-> "summarize"]}

PolicyNew == [mode : {"followup", "collect"}, dropPolicy : {"new"}]
=============================================================================

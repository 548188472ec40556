-------------------------- MODULE GatewayDraining ---------------------------
(***************************************************************************)
(* The state that the run loop and the command queue share.                *)
(***************************************************************************)

VARIABLE gatewayDraining    \* the command queue refuses work
=============================================================================

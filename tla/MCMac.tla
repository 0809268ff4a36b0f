------------------------------- MODULE MCMac -------------------------------
(***************************************************************************)
(* Bcm4313Mac for TLC; the configurations choose what the hardware does.   *)
(***************************************************************************)
EXTENDS Bcm4313Mac

=============================================================================

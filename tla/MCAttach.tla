------------------------------ MODULE MCAttach ------------------------------
(***************************************************************************)
(* Bcm4313Attach for TLC.  It has no constants.                            *)
(***************************************************************************)
EXTENDS Bcm4313Attach

=============================================================================

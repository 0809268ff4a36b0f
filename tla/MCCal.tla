------------------------------- MODULE MCCal -------------------------------
(***************************************************************************)
(* Instances of Bcm4313Cal for TLC.                                        *)
(***************************************************************************)
EXTENDS Bcm4313Cal

\* Two temperatures a step of more than 60 apart, and one in between.
MCTemps == {-1, 0, 60}

=============================================================================

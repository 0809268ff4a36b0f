------------------------------- MODULE MCRx -------------------------------
(***************************************************************************)
(* Instances of Bcm4313Rx for TLC.  The mbufs are interchangeable.         *)
(***************************************************************************)
EXTENDS Bcm4313Rx, TLC

Interchangeable == Permutations(Mbufs)

=============================================================================

------------------------------- MODULE MCTx -------------------------------
(***************************************************************************)
(* Instances of Bcm4313Tx for TLC.                                         *)
(***************************************************************************)
EXTENDS Bcm4313Tx

CONSTANTS f1, f2, f3, f4

\* A plain frame, a protected one, a short one and one without a node.
MCFrames == {f1, f2, f3, f4}
MCSecure == {f2}
MCShort == {f3}
MCNodeless == {f4}

\* Three frames that can all be on the ring at once.
MCPlain == {f1, f2, f3}
MCNothing == {}

=============================================================================

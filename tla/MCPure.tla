------------------------------- MODULE MCPure -------------------------------
(***************************************************************************)
(* The functions that keep no state, for TLC: called with one input after  *)
(* the other.                                                              *)
(***************************************************************************)
EXTENDS Bcm4313Qmath, Bcm4313Ucode

CONSTANT Inputs   (* Bound: the inputs are the numbers below this one. *)

ASSUME InputsAssumption == Inputs \in Nat \ {0}

VARIABLE n        (* The input of the call. *)

Init == n = 0
Call == n' = (n + 1) % Inputs
Next == Call
Spec == Init /\ [][Next]_n

-----------------------------------------------------------------------------
\* A list of five entries of 2, 4 and 3 bytes and end marks, from the digits
\* of k.
Kinds == <<[addr |-> 0, size |-> 2], [addr |-> 4, size |-> 4], [addr |-> 8, size |-> 3], End>>
List(k) == [i \in 1 .. 5 |-> Kinds[((k \div 4^(i - 1)) % 4) + 1]]

\* The PHY's arithmetic computes what its callers rely on.
ArithmeticIsExact ==
  QdivRounds(n) /\ IsqrtFloors(n) /\ LoftRoundTrips(n) /\ TempSenseAverages(n) /\ Log10Doubles(n)

\* dump_inits() and ucode_download() write what the image says and read nothing
\* outside of it.
ImageIsApplied == AppliesUpToEnd(List(n)) /\ UploadsInside(40 * n)

=============================================================================

------------------------------- MODULE MCPhy -------------------------------
(***************************************************************************)
(* Instances of Bcm4313Phy for TLC.                                        *)
(***************************************************************************)
EXTENDS Bcm4313Phy

\* A cold and a warm die; RawTemp, at which the board was measured, is between.
MCTemps == {60, 500}

\* Registers come out of reset all clear or all set.
MCBoots == {{}, Word}

\* Each field takes each of its values in one of the outcomes.  A search that
\* finds "none" of the gains fitting accesses what "found" does, less the
\* compensation.
MCOutcomes ==
  {[wait |-> TRUE, coef |-> "cold", again |-> FALSE, search |-> "found"],
   [wait |-> TRUE, coef |-> "warm", again |-> TRUE, search |-> "stuck"],
   [wait |-> FALSE, coef |-> "warm", again |-> TRUE, search |-> "early"]}

=============================================================================

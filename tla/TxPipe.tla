------------------------------ MODULE TxPipe ------------------------------
(***************************************************************************)
(* What the transmit path promises net80211, without ring or engine: a     *)
(* first-in first-out queue in front of a first-in first-out pipe of       *)
(* bounded length.  A frame is in at most one of them, raw frames overtake *)
(* the queue but never the pipe, and frames leave the pipe from its front. *)
(***************************************************************************)
EXTENDS Naturals, Sequences

CONSTANTS
  Frames, (* The frames.                       *)
  Cap     (* How many frames the pipe can hold. *)

VARIABLES
  waiting, (* Accepted frames, oldest first.          *)
  flight   (* Frames given to the hardware, in order. *)

pvars == <<waiting, flight>>

Inside == {waiting[k] : k \in DOMAIN waiting} \cup {flight[k] : k \in DOMAIN flight}

PipeInit == waiting = <<>> /\ flight = <<>>

Accept(f) ==
  /\ f \notin Inside
  /\ waiting' = Append(waiting, f)
  /\ UNCHANGED flight

Inject(f) ==
  /\ f \notin Inside /\ Len(flight) < Cap
  /\ flight' = Append(flight, f)
  /\ UNCHANGED waiting

Admit ==
  /\ waiting # <<>> /\ Len(flight) < Cap
  /\ flight' = Append(flight, Head(waiting))
  /\ waiting' = Tail(waiting)

Discard ==
  /\ waiting # <<>>
  /\ waiting' = Tail(waiting)
  /\ UNCHANGED flight

\* The first k frames are complete.
Retire(k) ==
  /\ flight' = SubSeq(flight, k + 1, Len(flight))
  /\ UNCHANGED waiting

\* A reset of the hardware forgets the pipe, a stop empties both.
Restart == flight' = <<>> /\ UNCHANGED waiting
Stop == flight' = <<>> /\ waiting' = <<>>

PipeNext ==
  \/ \E f \in Frames : Accept(f) \/ Inject(f)
  \/ Admit \/ Discard
  \/ \E k \in 1 .. Len(flight) : Retire(k)
  \/ Restart \/ Stop

PipeSpec == PipeInit /\ [][PipeNext]_pvars

=============================================================================

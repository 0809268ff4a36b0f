------------------------------ MODULE RxPipe ------------------------------
(***************************************************************************)
(* What a receive ring promises, without ring or engine: a first-in        *)
(* first-out queue of posted buffers.  The hardware fills them in the      *)
(* order in which they were posted; net80211 gets them in that order, one  *)
(* at a time, each once and only after it was filled.                      *)
(***************************************************************************)
EXTENDS Naturals, Sequences

CONSTANTS
  Buffers, (* The buffers.                       *)
  Cap      (* How many can be posted at a time. *)

VARIABLES
  posted,  (* The buffers in the queue, oldest first.           *)
  written, (* How many of them the hardware has filled.         *)
  up       (* The buffers with net80211, at most one of them.   *)

pvars == <<posted, written, up>>

PipeInit == posted = <<>> /\ written = 0 /\ up = {}

Post(b) ==
  /\ b \notin {posted[k] : k \in DOMAIN posted} \cup up
  /\ Len(posted) < Cap
  /\ posted' = Append(posted, b)
  /\ UNCHANGED <<written, up>>

Receive ==
  /\ written < Len(posted)
  /\ written' = written + 1
  /\ UNCHANGED <<posted, up>>

\* The oldest buffer, which has been filled, leaves the queue.
Take ==
  /\ written > 0
  /\ posted' = Tail(posted)
  /\ written' = written - 1

Drop == Take /\ UNCHANGED up
Deliver == Take /\ up = {} /\ up' = {Head(posted)}

Return ==
  /\ up' = {}
  /\ UNCHANGED <<posted, written>>

\* A stop, or a reset of the hardware.
Restart == posted' = <<>> /\ written' = 0 /\ up' = {}

PipeNext ==
  \/ \E b \in Buffers : Post(b)
  \/ Receive \/ Drop \/ Deliver \/ Return \/ Restart

PipeSpec == PipeInit /\ [][PipeNext]_pvars

=============================================================================

------------------------------ MODULE DmaRing ------------------------------
(***************************************************************************)
(* Index arithmetic of the dma64 descriptor rings (struct bcm4313_ring).   *)
(* A ring of n slots is described by the next slot to reclaim (r_in) and   *)
(* the next slot to fill (r_out); the slots from r_in up to, but not       *)
(* including, r_out are posted to the hardware.                            *)
(***************************************************************************)
LOCAL INSTANCE Integers

\* The slots of a ring of n descriptors.
Slots(n) == 0 .. n - 1

\* Deviation: the index does not wrap.
AdvNoWrap(i, n) == i + 1

\* (i + 1) % ring->r_nslots: descriptors are consumed and filled in order.
Adv(i, n) == (i + 1) % n

\* The number of posted descriptors: (r_out - r_in + r_nslots) % r_nslots.
Active(in, out, n) == (out - in + n) % n

\* The index that is d descriptors behind j.
Behind(j, d, n) == (j - d + n) % n

\* The slots from "from" up to "to": what a "while (r_in != end)" loop visits.
Window(from, to, n) ==
  {i \in Slots(n) : Active(from, i, n) < Active(from, to, n)}

=============================================================================

--------------------------- MODULE Bcm4313Attach ---------------------------
(***************************************************************************)
(* The life of the device: bcm4313_attach() takes its resources one by     *)
(* one, any of them may fail, and bcm4313_detach() gives back what was     *)
(* taken, whether the attach failed or the module is unloaded.  From the   *)
(* moment net80211 knows the device, the user, net80211's parent task, the *)
(* watchdog callout, the interrupt filter and intrtask go on beside it.    *)
(*                                                                         *)
(* A program of steps stands for each of the two functions.  What a step   *)
(* needs is the lock, or a task to end; between two steps anyone may run.  *)
(***************************************************************************)
EXTENDS Naturals, Sequences, SequencesExt

Rings == {"tx", "rx", "txstatus"}

\* What attach takes besides the rings.  "ic": net80211 knows the device.
Resources == {"mtx", "tq", "mem", "pmu", "bufdtag", "ic", "irq", "ih"}

\* Steps that take nothing but may fail: chip and board identification; core
\* reset, clock, PHY version and microcode; the MAC address.
Checks == {"board", "core", "macaddr"}

AttachOrder ==
  <<"mtx", "tq", "board", "mem", "pmu", "bufdtag", "core",
    "tx", "rx", "txstatus", "macaddr", "ic", "irq", "ih">>

\* Deviation: the rings are freed before the taskqueue is drained.
DetachRingsFirst ==
  <<"stop", "unlock", "vaps", "ic", "ih", "irq", "tx", "rx", "txstatus", "tq",
    "bufdtag", "callout", "mem", "pmu", "mtx">>

\* Deviation: the lock is kept until net80211 is gone.
DetachLocked ==
  <<"stop", "vaps", "ic", "unlock", "ih", "irq", "tq", "tx", "rx", "txstatus",
    "bufdtag", "callout", "mem", "pmu", "mtx">>

\* "stop" and "unlock": stop_locked under the lock; "vaps" and "ic":
\* ieee80211_ifdetach(); "callout": callout_drain().
DetachOrder ==
  <<"stop", "unlock", "vaps", "ic", "ih", "irq", "tq", "tx", "rx", "txstatus",
    "bufdtag", "callout", "mem", "pmu", "mtx">>

VARIABLES
  phase,     (* "attach", "up", "detach" or "gone".                         *)
  todo,      (* The steps left.                                             *)
  held,      (* The resources taken.                                        *)
  ring,      (* The parts of each ring that are allocated.                  *)
  attached,  (* BCM4313_FLAG_ATTACHED.                                      *)
  locked,    (* detach holds sc_mtx.                                        *)
  running,   (* BCM4313_FLAG_RUNNING.                                       *)
  live,      (* The DMA engines are on.                                     *)
  ints,      (* An interrupt is raised.                                     *)
  armed,     (* The watchdog callout is scheduled.                          *)
  task,      (* intrtask is queued.                                         *)
  input,     (* intrtask is in ieee80211_input(), without the lock.         *)
  up,        (* ic_nrunning > 0.                                            *)
  ptask,     (* net80211's parent task is queued.                           *)
  orphaned   (* History: a fatal stop after detach's own stop.              *)

life == <<phase, todo, held, ring, attached, locked>>
mac == <<running, live, ints, armed, orphaned>>
intr == <<task, input>>
net == <<up, ptask>>
vars == <<life, mac, intr, net>>

-----------------------------------------------------------------------------
(* Rings.                                                                  *)

\* The order in which ring_alloc() allocates; only the TX ring has headers.
Parts(r) ==
  <<"dtag", "desc", "slots", "maps">> \o (IF r = "tx" THEN <<"txhdr">> ELSE <<>>)

FirstParts(r, n) == Range(SubSeq(Parts(r), 1, n))

\* Deviation: the header cache is forgotten.
RingFreeKeepsHeaders(parts) ==
  IF "dtag" \in parts THEN parts \cap {"txhdr"} ELSE parts

\* ring_free() does nothing for a ring without a descriptor tag.
RingFree(parts) ==
  IF "dtag" \in parts
  THEN parts \ ({"txhdr", "desc", "dtag"} \cup
                (IF "slots" \in parts THEN {"slots", "maps"} ELSE {}))
  ELSE parts

\* ring_alloc() fails with n parts allocated, the last one perhaps in part.  With the tag or the descriptors
\* only, it undoes them itself; later it calls ring_free().
RingAllocFailed(r, n) ==
  IF n <= 2 THEN {} ELSE RingFree(FirstParts(r, n))

RingReady(r) == ring[r] = Range(Parts(r))

-----------------------------------------------------------------------------
TypeOK ==
  /\ phase \in {"attach", "up", "detach", "gone"}
  /\ IsSuffix(todo, IF phase = "attach" THEN AttachOrder ELSE DetachOrder)
  /\ held \subseteq Resources
  /\ \A r \in Rings : \E n \in 0 .. Len(Parts(r)) : ring[r] = FirstParts(r, n)
  /\ {attached, locked, running, live, ints, armed, orphaned} \subseteq BOOLEAN
  /\ {task, input, up, ptask} \subseteq BOOLEAN

Init ==
  /\ phase = "attach" /\ todo = AttachOrder
  /\ held = {} /\ ring = [r \in Rings |-> {}]
  /\ attached = FALSE /\ locked = FALSE
  /\ running = FALSE /\ live = FALSE /\ ints = FALSE /\ armed = FALSE
  /\ task = FALSE /\ input = FALSE
  /\ up = FALSE /\ ptask = FALSE
  /\ orphaned = FALSE

-----------------------------------------------------------------------------
(* Attach.                                                                 *)

AttachNext(step) ==
  /\ phase = "attach" /\ todo # <<>> /\ Head(todo) = step
  /\ todo' = Tail(todo)
  /\ UNCHANGED <<phase, locked, intr, net>>

Take(res) ==
  /\ AttachNext(res)
  /\ held' = held \cup {res}
  /\ attached' = (attached \/ res = "ic")
  /\ UNCHANGED <<ring, mac>>

\* bhnd_reset_hw() turns the engines off.
Check(step) ==
  /\ AttachNext(step)
  /\ live' = (live /\ step # "core")
  /\ orphaned' = (orphaned /\ step # "core")
  /\ UNCHANGED <<held, ring, attached, running, ints, armed>>

RingAlloc(r) ==
  /\ AttachNext(r)
  /\ ring' = [ring EXCEPT ![r] = Range(Parts(r))]
  /\ UNCHANGED <<held, attached, mac>>

AttachEnds ==
  /\ phase = "attach" /\ todo = <<>>
  /\ phase' = "up"
  /\ UNCHANGED <<todo, held, ring, attached, locked, mac, intr, net>>

\* Every step but the first and the (void) ieee80211_ifattach() may fail.
AttachFails ==
  /\ phase = "attach" /\ todo # <<>> /\ Head(todo) \notin {"mtx", "ic"}
  /\ LET step == Head(todo)
     IN IF step \in Rings
        THEN \E n \in 0 .. Len(Parts(step)) :
               ring' = [ring EXCEPT ![step] = RingAllocFailed(step, n)]
        ELSE UNCHANGED ring
  /\ phase' = "detach" /\ todo' = DetachOrder
  /\ UNCHANGED <<held, attached, locked, mac, intr, net>>

Attach ==
  \/ \E res \in Resources : Take(res)
  \/ \E step \in Checks : Check(step)
  \/ \E r \in Rings : RingAlloc(r)
  \/ AttachEnds
  \/ AttachFails

-----------------------------------------------------------------------------
(* The driver at work, beside attach and detach.                           *)

StopLocked ==
  /\ running' = FALSE /\ live' = FALSE /\ ints' = FALSE /\ armed' = FALSE
  /\ orphaned' = FALSE

\* ieee80211_ifdetach() has taken the VAPs down.
Closing == phase = "detach" /\ "vaps" \notin Range(todo)

\* The first VAP comes up, or the last one goes down.
NetUpDown ==
  /\ "ic" \in held /\ ~Closing
  /\ up' = ~up /\ ptask' = TRUE
  /\ UNCHANGED <<life, mac, intr>>

ParentTask ==
  /\ ptask /\ ~locked
  /\ ptask' = FALSE
  /\ UNCHANGED <<life, intr, up>>

ParentInit ==
  /\ ParentTask
  /\ up /\ ~running
  /\ running' = TRUE /\ live' = TRUE /\ ints' = FALSE /\ armed' = TRUE
  /\ orphaned' = FALSE

\* init_locked() returns early, before or after the core reset.
ParentInitFails ==
  /\ ParentTask
  /\ up /\ ~running
  /\ \/ UNCHANGED <<live, orphaned>>
     \/ live' = FALSE /\ orphaned' = FALSE
  /\ UNCHANGED <<running, ints, armed>>

ParentStop ==
  /\ ParentTask
  /\ ~up /\ running
  /\ StopLocked

ParentIgnored ==
  /\ ParentTask
  /\ up = running
  /\ UNCHANGED mac

\* One of the fatal branches: the engines and the callout stay.
FatalStop ==
  /\ running' = FALSE
  /\ orphaned' = (phase = "detach")
  /\ UNCHANGED <<live, ints, armed>>

\* A tick without a fault changes nothing here.
WatchdogStops ==
  /\ armed /\ ~locked /\ running
  /\ FatalStop
  /\ UNCHANGED <<life, intr, net>>

\* I/O.  The edges of the RF-kill switch on a stopped interface are left out:
\* intrtask looks at them and returns.
HwInterrupt ==
  /\ live
  /\ ints' = TRUE
  /\ UNCHANGED <<life, running, live, armed, orphaned, intr, net>>

Filter ==
  /\ "ih" \in held /\ ints
  /\ ints' = FALSE /\ task' = TRUE
  /\ UNCHANGED <<life, running, live, armed, orphaned, input, net>>

IntrTaskEmpty ==
  /\ task /\ ~input /\ ~locked /\ ~ints
  /\ task' = FALSE
  /\ UNCHANGED <<life, mac, input, net>>

\* intrtask harvests; it drops the lock for ieee80211_input().
IntrTaskInput ==
  /\ task /\ ~input /\ ~locked /\ ints
  /\ task' = FALSE /\ ints' = FALSE
  /\ input' = TRUE
  /\ UNCHANGED <<life, running, live, armed, orphaned, net>>

\* It goes on with the lock, and may end in a fatal stop (PSM, RF kill).
IntrTaskEnds ==
  /\ input /\ ~locked
  /\ input' = FALSE
  /\ \/ UNCHANGED mac
     \/ running /\ FatalStop
  /\ UNCHANGED <<life, task, net>>

-----------------------------------------------------------------------------
(* Detach.                                                                 *)

Unload ==
  /\ phase = "up"
  /\ phase' = "detach" /\ todo' = DetachOrder
  /\ UNCHANGED <<held, ring, attached, locked, mac, intr, net>>

DetachNext(step) ==
  /\ phase = "detach" /\ todo # <<>> /\ Head(todo) = step
  /\ todo' = Tail(todo)
  /\ UNCHANGED phase

\* Deviation: an interface that is not RUNNING is not stopped.
MustStopRunning == attached /\ running

MustStop == attached

DetachStop ==
  /\ DetachNext("stop")
  /\ locked' = attached
  /\ IF MustStop THEN StopLocked ELSE UNCHANGED mac
  /\ UNCHANGED <<held, ring, attached, intr, net>>

DetachUnlock ==
  /\ DetachNext("unlock")
  /\ locked' = FALSE
  /\ UNCHANGED <<held, ring, attached, mac, intr, net>>

\* ieee80211_ifdetach() takes the VAPs down ...
DetachVaps ==
  /\ DetachNext("vaps")
  /\ up' = FALSE
  /\ ptask' = (ptask \/ up)
  /\ UNCHANGED <<held, ring, attached, locked, mac, intr>>

\* ... and waits for the parent task.
DetachNet ==
  /\ DetachNext("ic")
  /\ ~ptask
  /\ held' = held \ {"ic"}
  /\ attached' = FALSE
  /\ UNCHANGED <<ring, locked, mac, intr, net>>

\* taskqueue_drain() waits for intrtask, queued or running.
DetachTaskqueue ==
  /\ DetachNext("tq")
  /\ ~task /\ ~input
  /\ held' = held \ {"tq"}
  /\ UNCHANGED <<ring, attached, locked, mac, intr, net>>

DetachRing(r) ==
  /\ DetachNext(r)
  /\ ring' = [ring EXCEPT ![r] = RingFree(@)]
  /\ UNCHANGED <<held, attached, locked, mac, intr, net>>

DetachCallout ==
  /\ DetachNext("callout")
  /\ armed' = FALSE
  /\ UNCHANGED <<held, ring, attached, locked, running, live, ints, orphaned, intr, net>>

\* What is released, if it is held, without waiting for anyone.
Release(res) ==
  /\ DetachNext(res)
  /\ held' = held \ {res}
  /\ UNCHANGED <<ring, attached, locked, mac, intr, net>>

DetachEnd ==
  /\ phase = "detach" /\ todo = <<>>
  /\ phase' = "gone"
  /\ UNCHANGED <<todo, held, ring, attached, locked, mac, intr, net>>

Detach ==
  \/ DetachStop \/ DetachUnlock \/ DetachVaps \/ DetachNet \/ DetachTaskqueue
  \/ \E r \in Rings : DetachRing(r)
  \/ DetachCallout
  \/ \E res \in {"ih", "irq", "bufdtag", "mem", "pmu", "mtx"} : Release(res)
  \/ DetachEnd

\* The module is loaded again; the hardware is as it was left.
Load ==
  /\ phase = "gone"
  /\ phase' = "attach" /\ todo' = AttachOrder
  /\ UNCHANGED <<held, ring, attached, locked, mac, intr, net>>

-----------------------------------------------------------------------------
Parent == ParentInit \/ ParentInitFails \/ ParentStop \/ ParentIgnored
IntrTask == IntrTaskEmpty \/ IntrTaskInput \/ IntrTaskEnds

Next ==
  \/ Attach \/ Unload \/ Detach \/ Load
  \/ NetUpDown \/ Parent \/ WatchdogStops
  \/ HwInterrupt \/ Filter \/ IntrTask

\* Nobody sleeps with the lock, and the kernel runs its threads.
Fairness == WF_vars(Detach) /\ WF_vars(Parent) /\ WF_vars(IntrTask)

Spec == Init /\ [][Next]_vars
FairSpec == Spec /\ Fairness

-----------------------------------------------------------------------------
(* Properties.                                                             *)

\* Whatever step of attach failed, and whatever was going on at an unload,
\* nothing is left: no resource, no part of a ring, no scheduled callout, no
\* queued or running task, no interface that believes to run.
EverythingReleased ==
  phase = "gone" =>
    /\ held = {} /\ \A r \in Rings : ring[r] = {}
    /\ ~attached /\ ~locked /\ ~running /\ ~armed
    /\ ~task /\ ~input /\ ~up /\ ~ptask

\* The callout, intrtask, the filter and the parent task never run without
\* the registers, the lock, the rings or the taskqueue that they use.
ActorsFindWhatTheyUse ==
  /\ armed \/ task \/ input \/ ptask \/ locked => {"mtx", "mem"} \subseteq held
  /\ task \/ "ih" \in held => {"tq", "mem"} \subseteq held
  /\ input => /\ {"tq", "bufdtag"} \subseteq held
              /\ \A r \in Rings : RingReady(r)
  /\ ptask \/ up \/ running => "ic" \in held

\* A DMA engine that is on has the ring memory it works on, unless a fatal
\* stop came after detach's own stop_locked().
EngineHasMemory ==
  live /\ ~orphaned =>
    "bufdtag" \in held /\ \A r \in Rings : RingReady(r)

\* detach waits for the parent task, the taskqueue and the callout, and for
\* none of them in vain.
DetachEnds == phase = "detach" ~> phase = "gone"

=============================================================================

---------------------------- MODULE ScanoutLease ----------------------------
(***************************************************************************)
(* What the frame tracking of a display promises, whatever the threads     *)
(* that implement it: the composer leases the framebuffers it hands to the *)
(* kernel, and a lease ends only after the kernel has stopped using the    *)
(* framebuffer.  (DrmAtomicStateManager.h: "There must be a userspace      *)
(* handle to keep these from being removed/unregistered until the commit   *)
(* that used them is no longer being presented.")                          *)
(*                                                                         *)
(* The exceptions are named: a display that is overdue has a flip in       *)
(* flight for which the composer has stopped waiting; an orphan is a frame *)
(* on the screen that the composer has written off.  FrameTracking         *)
(* implements this module and says which code causes either.               *)
(***************************************************************************)
EXTENDS Naturals

CONSTANTS
  Displays,   \* the CRTCs the composer drives
  Frames      \* names of framebuffer sets; 0 stands for "no framebuffer"

VARIABLES
  held,       \* per display: the frames userspace has a handle on
  scan,       \* per display: the frame the kernel scans out
  latch,      \* per display: the frame a flip in flight will scan out
  busy,       \* per display: a flip is in flight
  overdue,    \* per display: the composer gave up on the flip in flight
  orphan,     \* per display: the frame on the screen it wrote off, or 0
  retired     \* per display: the pipeline is destroyed, no lease is promised

vars == <<held, scan, latch, busy, overdue, orphan, retired>>

InUse(d) == {scan[d], latch[d]} \ {0}

Init ==
  /\ held = [d \in Displays |-> {}]
  /\ scan = [d \in Displays |-> 0]
  /\ latch = [d \in Displays |-> 0]
  /\ busy = [d \in Displays |-> FALSE]
  /\ overdue = [d \in Displays |-> FALSE]
  /\ orphan = [d \in Displays |-> 0]
  /\ retired = [d \in Displays |-> FALSE]

(* The kernel accepts a commit: it is on the screen at once (a blocking    *)
(* commit) or in flight, and the frame it shows is leased.  No commit is   *)
(* accepted while another flip is in flight.                               *)
Program(d) ==
  /\ ~busy[d]
  /\ held[d] \subseteq held'[d]
  /\ \/ busy'[d] /\ scan'[d] = scan[d]
     \/ ~busy'[d] /\ latch'[d] = 0
  /\ InUse(d)' \subseteq held'[d] \cup InUse(d)
  /\ UNCHANGED <<overdue[d], orphan[d], retired[d]>>

(* The flip in flight reaches the screen.                                  *)
Latch(d) ==
  /\ busy[d] /\ ~busy'[d]
  /\ scan'[d] = latch[d] /\ latch'[d] = 0 /\ ~overdue'[d]
  /\ UNCHANGED <<held[d], orphan[d], retired[d]>>

(* Handles are dropped: none the kernel uses, unless the display is        *)
(* overdue, which it can become only with a flip in flight, or the frame   *)
(* an orphan, which only the frame on the screen can become.               *)
Release(d) ==
  /\ held'[d] \subseteq held[d]
  /\ overdue[d] => overdue'[d]
  /\ overdue'[d] => busy[d]
  /\ orphan'[d] \in {orphan[d], scan[d]}
  /\ ~overdue'[d] /\ ~retired'[d] =>
       (InUse(d) \cap held[d]) \ {orphan'[d]} \subseteq held'[d]
  /\ retired[d] => retired'[d]
  /\ UNCHANGED <<scan[d], latch[d], busy[d]>>

Step(d) == Program(d) \/ Latch(d) \/ Release(d)

(* One commit may program several displays, so one step may move several.  *)
Next ==
  /\ \A d \in Displays :
       Step(d) \/ UNCHANGED <<held[d], scan[d], latch[d], busy[d], overdue[d],
                              orphan[d], retired[d]>>
  /\ held' \in [Displays -> SUBSET Frames]
  /\ scan' \in [Displays -> Frames] /\ latch' \in [Displays -> Frames]
  /\ busy' \in [Displays -> BOOLEAN] /\ overdue' \in [Displays -> BOOLEAN]
  /\ orphan' \in [Displays -> Frames] /\ retired' \in [Displays -> BOOLEAN]

Spec == Init /\ [][Next]_vars

(* What the lease buys: nothing on the screen or about to reach it has     *)
(* lost its framebuffer.                                                   *)
Leased ==
  \A d \in Displays :
    ~overdue[d] /\ ~retired[d] => InUse(d) \ {orphan[d]} \subseteq held[d]
=============================================================================

--------------------------- MODULE FrameTracking ----------------------------
(***************************************************************************)
(* Lifetime of the framebuffers of a frame: the commit path of             *)
(* DrmAtomicCommitSink, the frame bookkeeping of DrmAtomicStateManager (one *)
(* per display) and its helper thread, against the kernel that latches the *)
(* flip later.                                                             *)
(*                                                                         *)
(* The caller of a commit holds the composer's main lock from the request  *)
(* to the last FinishPendingRequest, so there is one commit at a time and  *)
(* its steps are those of one thread, "main".  The helper thread of each   *)
(* display and the kernel run between them.                                *)
(*                                                                         *)
(* A frame is named by the commit that showed it (1, 2, ... per display);  *)
(* 0 is a commit without framebuffers.  The present fence of a commit has  *)
(* the same name; 0 is the null fence.                                     *)
(***************************************************************************)
EXTENDS Naturals, Integers, Sequences

CONSTANTS
  Displays,      \* displays with a pipeline, all on one DRM device
  NoDisplay,     \* not a display
  MaxCommits,    \* bound: commits the kernel accepts on one display
  FenceTimeout,  \* TRUE: a flip may take longer than sync_wait's 500 ms
  Callers        \* the operations of HwcDisplay and ComposerClient that commit

AllCallers == {"SetConfig", "SetActiveConfigs", "SetPowerMode", "Deinit",
               "PresentFrame", "PresentModeset", "Destroy"}

ASSUME ConstantsAssumption ==
  /\ NoDisplay \notin Displays
  /\ MaxCommits \in Nat
  /\ FenceTimeout \in BOOLEAN
  /\ Callers \subseteq AllCallers

Frames == 0 .. MaxCommits
NoFence == 0

VARIABLES
  \* DrmAtomicStateManager, one element per display
  active,      \* committed_frame_state_.crtc_active_state
  objects,     \* frame_objects_: frames whose KMS objects are still referenced
  fence,       \* last_present_fence_
  staged,      \* frames_staged_
  tracked,     \* frames_tracked_
  exiting,     \* exit_thread_
  \* the helper thread of each display
  hpc,         \* "wait" on cv_, "sync" waiting for a fence, "done"
  htracking,   \* tracking_at_the_moment
  hfence,      \* present_fence of ThreadFn
  \* the main thread inside ExecuteAtomicCommit or WaitLastFrame
  pc,          \* the step it is at
  call,        \* "commit", "cleanup" (CleanUpFailedRequest) or "wait"
  args,        \* AtomicCommitArgs of each display of the commit
  todo,        \* displays the current step still has to visit
  waiting,     \* the display it sync_waits for
  wfence,      \* present_fence of WaitLastFrame
  nonblock,    \* the commit carries DRM_MODE_ATOMIC_NONBLOCK
  \* the kernel
  commits,     \* commits accepted
  scan,        \* frame on the planes
  latch,       \* frame of the flip in flight
  flight,      \* commit in flight, 0 when there is none
  \* history
  overdue,     \* the composer gave up on the flip in flight
  orphan       \* frame a commit without composition left on the planes

asm == <<active, objects, fence, staged, tracked>>
helper == <<hpc, htracking, hfence>>
main == <<pc, call, args, todo, waiting, wfence, nonblock>>
kernel == <<commits, scan, latch, flight>>
history == <<overdue, orphan>>
vars == <<asm, exiting, helper, main, kernel, history>>

-----------------------------------------------------------------------------
(* AtomicCommitArgs, reduced to the fields that steer the commit.          *)

Args == [blocking : BOOLEAN, teardown : BOOLEAN, power : {"none", "on", "off"},
         mode : BOOLEAN, composition : {"none", "empty", "layers"}]

Arg(b, t, p, m, c) ==
  [blocking |-> b, teardown |-> t, power |-> p, mode |-> m, composition |-> c]

ArgsOf(b, t, p, modes, comps) ==
  [blocking : {b}, teardown : {t}, power : {p}, mode : modes, composition : comps]

Compositions == {"empty", "layers"}

(* What each caller passes for one display.  A modeset has no composition  *)
(* when no plane takes its layer.                                          *)
SetConfigArgs == ArgsOf(TRUE, FALSE, "on", {TRUE}, Compositions \cup {"none"})

SetActiveConfigsArgs == ArgsOf(FALSE, FALSE, "on", {TRUE}, Compositions \cup {"none"})

SetPowerModeArgs ==
  ArgsOf(TRUE, FALSE, "on", {FALSE}, {"none"}) \cup ArgsOf(TRUE, TRUE, "off", {FALSE}, {"none"})

DeinitArgs == ArgsOf(TRUE, TRUE, "off", {FALSE}, {"empty"})

(* CreateFrameUpdateCommit: a page flip; or a seamless mode when a queued  *)
(* config is due, a blocking modeset while staged_power_mode_ is retried.  *)
PresentFrameArgs == ArgsOf(FALSE, FALSE, "none", {FALSE}, Compositions)

PresentModesetArgs ==
  ArgsOf(FALSE, FALSE, "none", {TRUE}, Compositions)
    \cup ArgsOf(TRUE, FALSE, "on", {TRUE}, Compositions)

CallerArgs(caller) ==
  {a \in Args : \/ caller = "SetConfig" /\ a \in SetConfigArgs
                \/ caller = "SetActiveConfigs" /\ a \in SetActiveConfigsArgs
                \/ caller = "SetPowerMode" /\ a \in SetPowerModeArgs
                \/ caller = "Deinit" /\ a \in DeinitArgs
                \/ caller = "PresentFrame" /\ a \in PresentFrameArgs
                \/ caller = "PresentModeset" /\ a \in PresentModesetArgs}

HasInputs(a) == a.mode \/ a.power # "none" \/ a.composition # "none"

(* CheckDoubleSettingState: a power mode the display already has is dropped. *)
CheckDoubleSettingState(a, isActive) ==
  IF a.power # "none" /\ ~a.teardown /\ (a.power = "on") = isActive
    THEN [a EXCEPT !.power = "none"]
    ELSE a

(* The rest of what GetAtomicModeReqForArgs changes in its argument: a     *)
(* commit that shows something on an inactive CRTC also powers it on.      *)
ForcePower(a, isActive) ==
  IF /\ ~isActive /\ a.power = "none" /\ ~a.teardown
     /\ a.mode \/ a.composition = "layers"
    THEN [a EXCEPT !.power = "on"]
    ELSE a

(* CommitFrame works on a copy of the args: this is the copy.              *)
Requested(d) == ForcePower(CheckDoubleSettingState(args[d], active[d]), active[d])

HasRequest(d) == HasInputs(Requested(d))

ActiveAfter(d) ==
  IF Requested(d).power = "none" THEN active[d] ELSE Requested(d).power = "on"

(* SetCompositionIfNeeded leaves the planes alone.                         *)
KeepsPlanes(d) == args[d].composition = "none" /\ ~args[d].teardown

(* The planes after the commit.                                            *)
ContentAfter(d, id) ==
  IF KeepsPlanes(d) THEN scan[d]
  ELSE IF args[d].composition = "layers" THEN id ELSE 0

(* The frame whose framebuffers the request of the latest commit holds.    *)
RequestFrame(d) == IF args[d].composition = "layers" THEN commits[d] ELSE 0

Signalled(d, f) == f # flight[d]

-----------------------------------------------------------------------------
Init ==
  /\ active = [d \in Displays |-> FALSE]
  /\ objects = [d \in Displays |-> <<>>]
  /\ fence = [d \in Displays |-> NoFence]
  /\ staged = [d \in Displays |-> 0]
  /\ tracked = [d \in Displays |-> 0]
  /\ exiting = [d \in Displays |-> FALSE]
  /\ hpc = [d \in Displays |-> "wait"]
  /\ htracking = [d \in Displays |-> -1]
  /\ hfence = [d \in Displays |-> NoFence]
  /\ pc = "idle" /\ call = "commit" /\ args = <<>> /\ todo = {}
  /\ waiting = NoDisplay /\ wfence = NoFence /\ nonblock = FALSE
  /\ commits = [d \in Displays |-> 0]
  /\ scan = [d \in Displays |-> 0]
  /\ latch = [d \in Displays |-> 0]
  /\ flight = [d \in Displays |-> 0]
  /\ overdue = [d \in Displays |-> FALSE]
  /\ orphan = [d \in Displays |-> 0]

(* Operators whose comment begins "Wrong on purpose" are no part of the    *)
(* specification: each is a slip the code could have had in the operator   *)
(* after it, kept to show which property notices.                          *)

(* Wrong on purpose: keeps the oldest frame.                               *)
OldestOnly(objs) == IF Len(objs) > 1 THEN <<objs[1]>> ELSE objs

(* The queue popped until one entry, the newest frame, is left.            *)
NewestOnly(objs) == IF Len(objs) > 1 THEN <<objs[Len(objs)]>> ELSE objs

(* Wrong on purpose: frames_tracked_ stays behind; counts a frame more.    *)
NoneTracked(d) == tracked[d]
MoreTracked(d) == staged[d] + 1

(* frames_tracked_ = frames_staged_.                                       *)
AllTracked(d) == staged[d]

(* CleanupPriorFrameResources: everything but the newest frame goes.  The  *)
(* caller waited for fence f; if it did not signal, the sync_wait timed    *)
(* out, the error was logged and the clean-up happens all the same.        *)
CleanupPriorFrameResources(d, f) ==
  /\ tracked' = [tracked EXCEPT ![d] = AllTracked(d)]
  /\ objects' = [objects EXCEPT ![d] = NewestOnly(@)]
  /\ fence' = [fence EXCEPT ![d] = NoFence]
  /\ overdue' = [overdue EXCEPT ![d] = @ \/ ~Signalled(d, f)]

-----------------------------------------------------------------------------
(* The main thread.                                                        *)

Goto(step) == pc' = step

GotoDone ==
  /\ Goto("idle") /\ call' = "commit"
  /\ args' = <<>> /\ todo' = {} /\ nonblock' = FALSE

(* A caller enters ExecuteAtomicCommit with the args of one display, or    *)
(* SetActiveConfigs with those of several.  WaitLastFrame may also be      *)
(* called on its own: before a present sleeps for its time slot, and by    *)
(* the boot animation.                                                     *)
Begin(a, kind) ==
  /\ \A d \in DOMAIN a : ~exiting[d] /\ commits[d] < MaxCommits
  /\ args' = a /\ todo' = DOMAIN a /\ call' = kind
  /\ Goto(IF kind = "wait" THEN "wait" ELSE "build")
  /\ UNCHANGED <<asm, exiting, helper, waiting, wfence, nonblock, kernel, history>>

BeginCommit ==
  /\ pc = "idle"
  /\ \E caller \in Callers \ {"SetActiveConfigs"}, d \in Displays :
       \E a \in CallerArgs(caller) : Begin([x \in {d} |-> a], "commit")

BeginActiveConfigs ==
  /\ pc = "idle" /\ "SetActiveConfigs" \in Callers
  /\ \E ds \in SUBSET Displays \ {{}} :
       \E a \in [ds -> CallerArgs("SetActiveConfigs")] : Begin(a, "commit")

BeginWait ==
  /\ pc = "idle" /\ "PresentFrame" \in Callers
  /\ \E d \in Displays :
       Begin([x \in {d} |-> Arg(FALSE, FALSE, "none", FALSE, "none")], "wait")

(* CleanUpFailedRequest after a failed commit: a blocking commit that      *)
(* disables the planes, on the displays whose failed commit was a plain    *)
(* page flip.  A failed clean-up is only logged.                           *)
CleanUpDisplays ==
  {d \in DOMAIN args : active[d] /\ ~args[d].mode /\ args[d].power = "none"
                                 /\ ~args[d].teardown}

Failed ==
  IF call = "commit" /\ CleanUpDisplays # {}
    THEN /\ Goto("build") /\ call' = "cleanup"
         /\ args' = [d \in CleanUpDisplays |-> Arg(TRUE, FALSE, "none", FALSE, "empty")]
         /\ todo' = CleanUpDisplays /\ nonblock' = FALSE
    ELSE GotoDone

(* CommitFrame up to WaitLastFrame: build a request per display and merge  *)
(* them; the commit is non-blocking when no request blocks or changes the  *)
(* power mode.  A property the driver lacks fails the build.               *)
BuildRequests ==
  /\ pc = "build"
  /\ \/ /\ \A d \in DOMAIN args : ~HasRequest(d)
        /\ GotoDone
     \/ /\ \E d \in DOMAIN args : HasRequest(d)
        /\ nonblock' = \A d \in DOMAIN args :
             HasRequest(d) => ~args[d].blocking /\ Requested(d).power = "none"
        /\ Goto("wait") /\ UNCHANGED <<call, args, todo>>
     \/ /\ \E d \in DOMAIN args : HasRequest(d)
        /\ Failed
  /\ UNCHANGED <<asm, exiting, helper, waiting, wfence, kernel, history>>

(* WaitLastFrame, first critical section: copy last_present_fence_.        *)
WaitLastFrameRead(d) ==
  /\ pc = "wait" /\ waiting = NoDisplay /\ d \in todo
  /\ IF fence[d] = NoFence
       THEN todo' = todo \ {d} /\ UNCHANGED <<waiting, wfence>>
       ELSE waiting' = d /\ wfence' = fence[d] /\ UNCHANGED todo
  /\ UNCHANGED <<asm, exiting, helper, pc, call, args, nonblock, kernel, history>>

(* WaitLastFrame after sync_wait: lock again and clean up, unless the      *)
(* helper thread was faster.                                               *)
WaitLastFrameDone(d) ==
  /\ pc = "wait" /\ waiting = d
  /\ Signalled(d, wfence) \/ FenceTimeout
  /\ IF fence[d] # NoFence
       THEN CleanupPriorFrameResources(d, wfence)
       ELSE UNCHANGED <<objects, fence, tracked, overdue>>
  /\ waiting' = NoDisplay /\ wfence' = NoFence /\ todo' = todo \ {d}
  /\ UNCHANGED <<active, staged, exiting, helper, pc, call, args, nonblock, kernel,
                 orphan>>

(* Wrong on purpose: waits for the first display of the commit only.       *)
FirstWaited == todo # DOMAIN args /\ waiting = NoDisplay

AllWaited == todo = {}

WaitLastFrameAll ==
  /\ pc = "wait" /\ AllWaited
  /\ IF call = "wait"
       THEN GotoDone
       ELSE Goto("commit") /\ todo' = DOMAIN args /\ UNCHANGED <<call, args, nonblock>>
  /\ UNCHANGED <<asm, exiting, helper, waiting, wfence, kernel, history>>

(* The atomic ioctl succeeds.  A blocking one returns with the new frame   *)
(* on the screen; a non-blocking one leaves a flip in flight, and is       *)
(* retried while the kernel answers EBUSY because the previous flip is.    *)
(* On a CRTC that stays inactive there is no vblank to wait for.           *)
KernelAccepts ==
  /\ pc = "commit"
  /\ \A d \in DOMAIN args : HasRequest(d) => flight[d] = 0
  /\ LET req == {d \in DOMAIN args : HasRequest(d)}
         id == [d \in Displays |-> IF d \in req THEN commits[d] + 1 ELSE commits[d]]
         queued == {d \in req : nonblock /\ active[d]}
     IN /\ commits' = id
        /\ flight' = [d \in Displays |-> IF d \in queued THEN id[d] ELSE flight[d]]
        /\ latch' = [d \in Displays |->
                       IF d \in queued THEN ContentAfter(d, id[d]) ELSE latch[d]]
        /\ scan' = [d \in Displays |->
                      IF d \in req \ queued THEN ContentAfter(d, id[d]) ELSE scan[d]]
  /\ Goto("finish")
  /\ UNCHANGED <<asm, exiting, helper, call, args, todo, waiting, wfence, nonblock,
                 history>>

(* The ioctl fails, a seamless commit also in the full modeset it is       *)
(* retried as.                                                             *)
KernelRejects ==
  /\ pc = "commit"
  /\ Failed
  /\ UNCHANGED <<asm, exiting, helper, waiting, wfence, kernel, history>>

(* EBUSY for longer than the retries last (30 s): the process exits.       *)
GiveUpBusy ==
  /\ pc = "commit" /\ nonblock /\ FenceTimeout
  /\ \E d \in DOMAIN args : HasRequest(d) /\ flight[d] # 0
  /\ Goto("exited")
  /\ UNCHANGED <<asm, exiting, helper, call, args, todo, waiting, wfence, nonblock,
                 kernel, history>>

(* Wrong on purpose: the out fence is not recorded.                        *)
OutFenceForgotten(d) == NoFence

(* SetOutputFence: there is a fence when the CRTC is active afterwards.    *)
OutFence(d) == IF ActiveAfter(d) THEN commits[d] ELSE NoFence

(* Wrong on purpose: drops the frame on the screen when the next is staged. *)
StagedReplaces(d) == <<RequestFrame(d)>>

StagedObjects(d) == Append(objects[d], RequestFrame(d))

(* FinishPendingRequest for one display, with the args of the CALLER, not  *)
(* the copy the request was built from.                                    *)
FinishStaged(d) ==
  /\ fence' = [fence EXCEPT ![d] = OutFence(d)]
  /\ objects' = [objects EXCEPT ![d] = StagedObjects(d)]
  /\ staged' = [staged EXCEPT ![d] = @ + 1]
  /\ UNCHANGED <<tracked, history>>

FinishSynchronous(d) ==
  /\ fence' = [fence EXCEPT ![d] = NoFence]
  /\ objects' = [objects EXCEPT ![d] = <<RequestFrame(d)>>]
  /\ tracked' = [tracked EXCEPT ![d] = AllTracked(d)]
  /\ overdue' = [overdue EXCEPT ![d] = @ \/ (nonblock /\ flight[d] # 0)]
  /\ orphan' = [orphan EXCEPT ![d] = IF KeepsPlanes(d) THEN scan[d] ELSE @]
  /\ UNCHANGED staged

FinishPendingRequest(d) ==
  /\ pc = "finish" /\ d \in todo
  /\ IF HasRequest(d)
       THEN /\ active' = [active EXCEPT ![d] = ActiveAfter(d)]
            /\ IF ~args[d].blocking /\ args[d].power = "none"
                 THEN FinishStaged(d)
                 ELSE FinishSynchronous(d)
       ELSE UNCHANGED <<asm, history>>
  /\ todo' = todo \ {d}
  /\ UNCHANGED <<exiting, helper, pc, call, args, waiting, wfence, nonblock, kernel>>

CommitDone ==
  /\ pc = "finish" /\ todo = {}
  /\ GotoDone
  /\ UNCHANGED <<asm, exiting, helper, waiting, wfence, kernel, history>>

(* ~DrmAtomicStateManager: StopThread, join, and the members go.           *)
StopThread(d) ==
  /\ "Destroy" \in Callers
  /\ pc = "idle" /\ ~exiting[d]
  /\ exiting' = [exiting EXCEPT ![d] = TRUE]
  /\ Goto("join") /\ waiting' = d
  /\ UNCHANGED <<asm, helper, call, args, todo, wfence, nonblock, kernel, history>>

Join(d) ==
  /\ pc = "join" /\ waiting = d /\ hpc[d] = "done"
  /\ objects' = [objects EXCEPT ![d] = <<>>]
  /\ fence' = [fence EXCEPT ![d] = NoFence]
  /\ Goto("idle") /\ waiting' = NoDisplay
  /\ UNCHANGED <<active, staged, tracked, exiting, helper, call, args, todo, wfence,
                 nonblock, kernel, history>>

MainStep ==
  \/ BuildRequests \/ WaitLastFrameAll \/ KernelAccepts \/ CommitDone
  \/ \E d \in Displays :
       WaitLastFrameRead(d) \/ WaitLastFrameDone(d) \/ FinishPendingRequest(d) \/ Join(d)

-----------------------------------------------------------------------------
(* ThreadFn.                                                               *)

(* Wrong on purpose: the wait predicate ignores exit_thread_.              *)
WakesForFrame(d) == staged[d] > htracking[d]

(* The predicate of cv_.wait.  Every change that makes it true is followed *)
(* by a notify_all, so no wake-up is lost.                                 *)
Wakes(d) == exiting[d] \/ staged[d] > htracking[d]

(* Woken from cv_: take the newest fence.  A null fence is skipped.        *)
HelperTake(d) ==
  /\ hpc[d] = "wait" /\ Wakes(d)
  /\ IF exiting[d]
       THEN hpc' = [hpc EXCEPT ![d] = "done"] /\ UNCHANGED <<htracking, hfence>>
       ELSE /\ htracking' = [htracking EXCEPT ![d] = staged[d]]
            /\ hfence' = [hfence EXCEPT ![d] = fence[d]]
            /\ hpc' = [hpc EXCEPT ![d] = IF fence[d] = NoFence THEN "wait" ELSE "sync"]
  /\ UNCHANGED <<asm, exiting, main, kernel, history>>

(* Wrong on purpose: the comparison is the wrong way round.                *)
Overtracked(d) == htracking[d] < tracked[d]

Untracked(d) == htracking[d] > tracked[d]

(* After sync_wait: clean up unless the main thread already has.           *)
HelperClean(d) ==
  /\ hpc[d] = "sync"
  /\ Signalled(d, hfence[d]) \/ FenceTimeout
  /\ hpc' = [hpc EXCEPT ![d] = IF exiting[d] THEN "done" ELSE "wait"]
  /\ hfence' = [hfence EXCEPT ![d] = NoFence]
  /\ IF ~exiting[d] /\ Untracked(d)
       THEN CleanupPriorFrameResources(d, hfence[d])
       ELSE UNCHANGED <<objects, fence, tracked, overdue>>
  /\ UNCHANGED <<active, staged, exiting, htracking, main, kernel, orphan>>

HelperStep(d) == HelperTake(d) \/ HelperClean(d)

-----------------------------------------------------------------------------
(* The kernel latches the flip in flight at a vblank and signals its fence. *)
Flip(d) ==
  /\ flight[d] # 0
  /\ scan' = [scan EXCEPT ![d] = latch[d]]
  /\ latch' = [latch EXCEPT ![d] = 0]
  /\ flight' = [flight EXCEPT ![d] = 0]
  /\ overdue' = [overdue EXCEPT ![d] = FALSE]
  /\ UNCHANGED <<asm, exiting, helper, main, commits, orphan>>

Next ==
  /\ pc # "exited"
  /\ \/ BeginCommit \/ BeginActiveConfigs \/ BeginWait
     \/ MainStep \/ KernelRejects \/ GiveUpBusy
     \/ \E d \in Displays : StopThread(d) \/ HelperStep(d) \/ Flip(d)

(* A call that started goes on, the helper threads run, and the kernel     *)
(* latches what it accepted; nobody has to start a call.                   *)
Fairness ==
  /\ WF_vars(pc # "exited" /\ MainStep)
  /\ \A d \in Displays : WF_vars(pc # "exited" /\ HelperStep(d))
  /\ \A d \in Displays : WF_vars(pc # "exited" /\ Flip(d))

Spec == Init /\ [][Next]_vars /\ Fairness

-----------------------------------------------------------------------------
(* Properties.                                                             *)

TypeOK ==
  /\ active \in [Displays -> BOOLEAN]
  /\ objects \in [Displays -> Seq(Frames)]
  /\ fence \in [Displays -> Frames]
  /\ staged \in [Displays -> Frames]
  /\ tracked \in [Displays -> Frames] /\ \A d \in Displays : tracked[d] <= staged[d]
  /\ exiting \in [Displays -> BOOLEAN]
  /\ hpc \in [Displays -> {"wait", "sync", "done"}]
  /\ htracking \in [Displays -> Frames \cup {-1}]
  /\ hfence \in [Displays -> Frames]
  /\ pc \in {"idle", "build", "wait", "commit", "finish", "join", "exited"}
  /\ call \in {"commit", "cleanup", "wait"}
  /\ args \in UNION {[ds -> Args] : ds \in SUBSET Displays}
  /\ todo \subseteq Displays
  /\ waiting \in Displays \cup {NoDisplay}
  /\ wfence \in Frames
  /\ nonblock \in BOOLEAN
  /\ commits \in [Displays -> Frames]
  /\ scan \in [Displays -> Frames]
  /\ latch \in [Displays -> Frames]
  /\ flight \in [Displays -> Frames]
  /\ overdue \in [Displays -> BOOLEAN]
  /\ orphan \in [Displays -> Frames]

(* The frames of a display userspace has handles on: frame_objects_ and,   *)
(* until FinishPendingRequest, the request of the commit just accepted.    *)
Held(d) ==
  ({objects[d][i] : i \in DOMAIN objects[d]}
     \cup (IF pc = "finish" /\ d \in todo THEN {RequestFrame(d)} ELSE {})) \ {0}

InUse(d) == {scan[d], latch[d]} \ {0}

(* The framebuffers the kernel shows, or will show at the next vblank, are *)
(* referenced by frame_objects_ whichever thread cleans up first.  Nothing *)
(* loses them but a flip slower than the sync_wait, a non-blocking commit  *)
(* that FinishPendingRequest takes for a synchronous one (both overdue),   *)
(* and a modeset without a composition (orphan).                           *)
ScanoutHeld ==
  \A d \in Displays :
    ~overdue[d] /\ ~exiting[d] => InUse(d) \ {orphan[d]} \subseteq Held(d)

(* The same promise as DrmAtomicStateManager.h makes it, with no exception *)
(* for how the commit was labelled.                                        *)
ScanoutAlwaysHeld ==
  \A d \in Displays : ~exiting[d] => InUse(d) \ {orphan[d]} \subseteq Held(d)

(* WaitLastFrame does its job: when the ioctl is reached, no display of    *)
(* the commit has a flip in flight that would make the kernel answer       *)
(* EBUSY, unless the composer had given up on that flip.                   *)
CommitNeverOvertakes ==
  pc = "commit" => \A d \in DOMAIN args : flight[d] # 0 => overdue[d]

(* A helper thread that still means to clean up is waiting for the newest  *)
(* fence: it never clears the fence of a later frame, and never runs the   *)
(* clean-up the code logs as unexpected (no last_present_fence_).          *)
HelperFenceCurrent ==
  \A d \in Displays :
    hpc[d] = "sync" /\ ~exiting[d] /\ Untracked(d)
      => fence[d] = hfence[d] /\ fence[d] # NoFence

(* A frame the kernel has stopped using is let go although no further      *)
(* frame is ever presented: the reason for the helper thread.              *)
RetiredReleased ==
  \A d \in Displays : \A f \in 1 .. MaxCommits :
    (f \in Held(d) /\ f \notin InUse(d)) ~> (f \notin Held(d) \/ pc = "exited")

(* Destroying a pipeline never hangs in join(), wherever its helper is.    *)
JoinReturns == (pc = "join") ~> (pc # "join")

Lease == INSTANCE ScanoutLease WITH
           held <- [d \in Displays |-> Held(d)],
           busy <- [d \in Displays |-> flight[d] # 0],
           retired <- exiting

(* The frame tracking implements the abstract lease.                       *)
LeaseImplemented == Lease!Spec
=============================================================================

------------------------ MODULE FrameTracking_proofs ------------------------
(***************************************************************************)
(* The scan-out lease of FrameTracking holds for any set of displays, any  *)
(* number of commits, any callers, with and without fence timeouts.        *)
(***************************************************************************)
EXTENDS FrameTracking, SequenceTheorems, TLAPS

-----------------------------------------------------------------------------
(* The inductive invariant.                                                *)

(* Sequences enter it only through their last element and their range.     *)
Newest(d) == objects[d][Len(objects[d])]
IsNewest(d, f) == f = 0 \/ (objects[d] # <<>> /\ f = Newest(d))
Covered(d, f) == f = orphan[d] \/ IsNewest(d, f)
Referenced(d, f) == f = 0 \/ \E i \in DOMAIN objects[d] : f = objects[d][i]

(* The kernel has accepted the commit of d, FinishPendingRequest is due.   *)
Finishing(d) == pc = "finish" /\ d \in todo /\ HasRequest(d)

(* The shapes of AtomicCommitArgs that callers and the clean-up produce.   *)
Shape(a) ==
  /\ a \in Args
  /\ a.teardown <=> a.power = "off"
  /\ a.teardown => a.composition # "layers" /\ ~a.mode /\ a.blocking
  /\ a.composition = "none" /\ a.mode => a.power # "none"

CallInv ==
  /\ \A d \in DOMAIN args : Shape(args[d])
  /\ DOMAIN args \subseteq Displays /\ \A d \in DOMAIN args : ~exiting[d]
  /\ pc \in {"idle", "join"} => DOMAIN args = {}
  /\ todo \subseteq DOMAIN args
  /\ pc \in {"build", "wait", "commit"} /\ call # "wait" =>
       \A d \in DOMAIN args : commits[d] < MaxCommits
  /\ waiting # NoDisplay => pc \in {"wait", "join"}
  /\ pc = "wait" /\ waiting # NoDisplay => waiting \in todo /\ wfence # NoFence
  /\ call = "wait" => pc = "wait"
  /\ pc \in {"build", "commit"} => todo = DOMAIN args
  /\ pc = "join" => waiting \in Displays /\ exiting[waiting]
  /\ pc \in {"wait", "commit"} /\ call # "wait" /\ nonblock =>
       \A d \in DOMAIN args :
         HasRequest(d) => ~args[d].blocking /\ Requested(d).power = "none"

(* Every fence the commit had to wait for is gone when the ioctl is made.  *)
WaitInv ==
  /\ pc = "wait" => \A d \in DOMAIN args \ todo : fence[d] = NoFence
  /\ pc = "wait" /\ waiting # NoDisplay => fence[waiting] \in {NoFence, wfence}
  /\ pc \in {"commit", "finish"} => \A d \in todo : fence[d] = NoFence

CountInv(d) ==
  /\ tracked[d] <= staged[d] /\ htracking[d] <= staged[d]
  /\ staged[d] <= commits[d]
  /\ Finishing(d) => staged[d] < commits[d]
  /\ flight[d] <= commits[d]

HelperInv(d) ==
  /\ hpc[d] = "sync" => hfence[d] # NoFence
  /\ hpc[d] = "sync" /\ ~exiting[d] /\ Untracked(d)
       => fence[d] = hfence[d] /\ fence[d] # NoFence

(* What the kernel uses, and where its handles are.                        *)
ScanInv(d) ==
  /\ flight[d] = 0 => latch[d] = 0 /\ ~overdue[d]
  /\ ~active[d] /\ ~Finishing(d) => scan[d] = 0 /\ latch[d] = 0 /\ flight[d] = 0
  /\ Finishing(d) /\ ~ActiveAfter(d) => scan[d] = 0 /\ flight[d] = 0
  /\ Finishing(d) /\ flight[d] # 0 => /\ nonblock /\ active[d] /\ flight[d] = commits[d]
                                      /\ Requested(d).power = "none"
  /\ ~exiting[d] /\ ~Finishing(d) /\ flight[d] = 0 => Covered(d, scan[d])
  /\ ~exiting[d] /\ ~Finishing(d) /\ flight[d] # 0 /\ ~overdue[d] =>
       fence[d] = flight[d] /\ (scan[d] = orphan[d] \/ Referenced(d, scan[d]))
  /\ ~exiting[d] /\ ~Finishing(d) /\ flight[d] # 0 => Covered(d, latch[d])
  /\ Finishing(d) => ~overdue[d]
  /\ Finishing(d) /\ ~KeepsPlanes(d) /\ flight[d] = 0 => scan[d] \in {0, RequestFrame(d)}
  /\ Finishing(d) /\ ~KeepsPlanes(d) /\ flight[d] # 0 => latch[d] \in {0, RequestFrame(d)}
  /\ Finishing(d) /\ KeepsPlanes(d) /\ flight[d] # 0 => latch[d] = scan[d]
  /\ ~exiting[d] /\ Finishing(d) /\ (KeepsPlanes(d) \/ flight[d] # 0) =>
       Covered(d, scan[d])

IInv ==
  /\ TypeOK /\ CallInv /\ WaitInv
  /\ \A d \in Displays : CountInv(d) /\ HelperInv(d) /\ ScanInv(d)

-----------------------------------------------------------------------------
(* Lemmas about the operators.                                             *)

LEMMA FramesFacts == 0 \in Frames /\ Frames \subseteq Nat
BY ConstantsAssumption DEF Frames

LEMMA CounterTypes ==
  ASSUME TypeOK, NEW d \in Displays
  PROVE  /\ staged[d] \in Nat /\ tracked[d] \in Nat /\ htracking[d] \in Int
         /\ commits[d] \in Nat /\ flight[d] \in Nat
<1>1. /\ staged[d] \in Frames /\ tracked[d] \in Frames /\ htracking[d] \in Frames \cup {-1}
      /\ commits[d] \in Frames /\ flight[d] \in Frames
  BY DEF TypeOK
<1>2. QED BY <1>1, ConstantsAssumption DEF Frames

(* Popping the queue to its newest entry keeps the newest entry, and       *)
(* nothing that was not there.                                             *)
LEMMA NewestOnlyFacts ==
  ASSUME NEW s \in Seq(Frames)
  PROVE  /\ NewestOnly(s) \in Seq(Frames)
         /\ s # <<>> => /\ NewestOnly(s) # <<>>
                        /\ NewestOnly(s)[Len(NewestOnly(s))] = s[Len(s)]
BY DEF NewestOnly

(* Staging a frame makes it the newest and keeps the others.               *)
LEMMA AppendFacts ==
  ASSUME NEW s \in Seq(Frames), NEW f \in Frames
  PROVE  /\ Append(s, f) \in Seq(Frames)
         /\ Append(s, f) # <<>>
         /\ Append(s, f)[Len(Append(s, f))] = f
         /\ s # <<>> => \E i \in DOMAIN Append(s, f) : Append(s, f)[i] = s[Len(s)]
<1>1. Append(s, f) \in Seq(Frames) /\ Len(Append(s, f)) = Len(s) + 1
  OBVIOUS
<1>2. \A i \in 1 .. Len(s) : Append(s, f)[i] = s[i]
  OBVIOUS
<1>3. Append(s, f)[Len(s) + 1] = f
  OBVIOUS
<1>4. s # <<>> => Len(s) \in 1 .. Len(s) /\ Len(s) \in DOMAIN Append(s, f)
  BY <1>1
<1>5. QED BY <1>1, <1>2, <1>3, <1>4

(* What GetAtomicModeReqForArgs makes of a caller's args on a display that *)
(* is active (b) or not.                                                   *)
LEMMA RequestedFacts ==
  ASSUME NEW a, Shape(a), NEW b \in BOOLEAN,
         NEW r, r = ForcePower(CheckDoubleSettingState(a, b), b)
  PROVE  /\ r \in Args
         /\ r.composition = a.composition /\ r.blocking = a.blocking
         /\ r.teardown = a.teardown /\ r.mode = a.mode
         /\ r.power = "none" => ~a.teardown
         /\ r.power = "none" /\ ~b => a.composition # "layers"
         /\ r.power = "off" => a.teardown
         /\ r.power # "none" /\ b => a.power = "off"
         /\ a.power = "none" /\ b => r.power = "none"
         /\ HasInputs(r) /\ a.composition = "none" => a.power # "none"
         /\ HasInputs(r) /\ a.composition = "none" /\ ~a.teardown /\ ~b => r.power = "on"
BY DEF Shape, Args, ForcePower, CheckDoubleSettingState, HasInputs

(* The derived operators of d depend only on args, active[d] and commits[d]. *)
LEMMA Frozen ==
  ASSUME NEW d \in Displays, UNCHANGED <<pc, args>>, d \in todo' <=> d \in todo,
         active'[d] = active[d], commits'[d] = commits[d]
  PROVE  /\ Requested(d)' = Requested(d)
         /\ Finishing(d)' <=> Finishing(d)
         /\ ActiveAfter(d)' <=> ActiveAfter(d)
         /\ RequestFrame(d)' = RequestFrame(d)
         /\ KeepsPlanes(d)' <=> KeepsPlanes(d)
<1>1. Requested(d)' = Requested(d)
  BY DEF Requested
<1>2. HasRequest(d)' <=> HasRequest(d)
  BY <1>1 DEF HasRequest
<1>3. QED
  BY <1>1, <1>2 DEF Finishing, ActiveAfter, RequestFrame, KeepsPlanes

(* A display none of whose state changes keeps its part of the invariant.  *)
LEMMA FrameUntouched ==
  ASSUME NEW d \in Displays, UNCHANGED <<pc, args, nonblock>>, d \in todo' <=> d \in todo,
         active'[d] = active[d], commits'[d] = commits[d], objects'[d] = objects[d],
         fence'[d] = fence[d], staged'[d] = staged[d], tracked'[d] = tracked[d],
         exiting'[d] = exiting[d], hpc'[d] = hpc[d], htracking'[d] = htracking[d],
         hfence'[d] = hfence[d], scan'[d] = scan[d], latch'[d] = latch[d],
         flight'[d] = flight[d], overdue'[d] = overdue[d], orphan'[d] = orphan[d],
         CountInv(d), HelperInv(d), ScanInv(d)
  PROVE  CountInv(d)' /\ HelperInv(d)' /\ ScanInv(d)'
<1>1. /\ Requested(d)' = Requested(d)
      /\ Finishing(d)' <=> Finishing(d)
      /\ ActiveAfter(d)' <=> ActiveAfter(d)
      /\ RequestFrame(d)' = RequestFrame(d)
      /\ KeepsPlanes(d)' <=> KeepsPlanes(d)
  BY Frozen
<1>2. CountInv(d)'
  BY <1>1 DEF CountInv
<1>3. HelperInv(d)'
  BY DEF HelperInv, Untracked
<1>4. ScanInv(d)'
  BY <1>1 DEF ScanInv, Covered, IsNewest, Newest, Referenced
<1>5. QED BY <1>2, <1>3, <1>4

-----------------------------------------------------------------------------
(* The helper threads.                                                     *)

LEMMA HelperTakeStep ==
  ASSUME IInv, NEW h \in Displays, HelperTake(h)
  PROVE  IInv'
<1> USE DEF HelperTake, asm, main, kernel, history
<1>1. TypeOK'
  <2>1. /\ TypeOK /\ staged[h] \in Frames /\ fence[h] \in Frames
    BY DEF IInv, TypeOK
  <2>2. hpc' \in [Displays -> {"wait", "sync", "done"}]
    BY <2>1 DEF TypeOK
  <2>3. htracking' \in [Displays -> Frames \cup {-1}] /\ hfence' \in [Displays -> Frames]
    <3>1. htracking \in [Displays -> Frames \cup {-1}] /\ hfence \in [Displays -> Frames]
      BY <2>1 DEF TypeOK
    <3>2. QED BY <2>1, <3>1
  <2>4. QED BY <2>1, <2>2, <2>3 DEF TypeOK
<1>2. CallInv'
  BY DEF IInv, CallInv, HasRequest, Requested
<1>3. WaitInv'
  BY DEF IInv, WaitInv
<1>4. ASSUME NEW d \in Displays
      PROVE  CountInv(d)' /\ HelperInv(d)' /\ ScanInv(d)'
  <2>1. CountInv(d) /\ HelperInv(d) /\ ScanInv(d) /\ TypeOK
    BY DEF IInv
  <2>2. CASE d # h
    BY <2>1, <2>2, FrameUntouched DEF TypeOK
  <2>3. CASE d = h
    <3>1. /\ Requested(d)' = Requested(d)
          /\ Finishing(d)' <=> Finishing(d)
          /\ ActiveAfter(d)' <=> ActiveAfter(d)
          /\ RequestFrame(d)' = RequestFrame(d)
          /\ KeepsPlanes(d)' <=> KeepsPlanes(d)
      BY Frozen
    <3>2. CountInv(d)'
      <4>1. htracking'[d] \in {htracking[d], staged[d]}
        BY <2>1, <2>3 DEF TypeOK
      <4>2. staged[d] \in Nat
        BY <2>1, CounterTypes
      <4>3. QED BY <2>1, <3>1, <4>1, <4>2 DEF CountInv
    <3>3. HelperInv(d)'
      BY <2>1, <2>3 DEF HelperInv, Untracked, TypeOK
    <3>4. ScanInv(d)'
      BY <2>1, <3>1 DEF ScanInv, Covered, IsNewest, Newest, Referenced
    <3>5. QED BY <3>2, <3>3, <3>4
  <2>4. QED BY <2>2, <2>3
<1>5. QED BY <1>1, <1>2, <1>3, <1>4 DEF IInv

LEMMA CleanupTypes ==
  ASSUME TypeOK, NEW d \in Displays, NEW f, CleanupPriorFrameResources(d, f)
  PROVE  /\ objects' \in [Displays -> Seq(Frames)]
         /\ fence' \in [Displays -> Frames]
         /\ tracked' \in [Displays -> Frames]
         /\ \A e \in Displays : tracked'[e] <= staged[e]
         /\ overdue' \in [Displays -> BOOLEAN]
<1>1. NewestOnly(objects[d]) \in Seq(Frames)
  BY NewestOnlyFacts DEF TypeOK
<1>2. objects' \in [Displays -> Seq(Frames)]
  BY <1>1 DEF TypeOK, CleanupPriorFrameResources, AllTracked
<1>3. fence' \in [Displays -> Frames] /\ tracked' \in [Displays -> Frames]
  BY FramesFacts DEF TypeOK, CleanupPriorFrameResources, AllTracked, NoFence
<1>4. overdue' \in [Displays -> BOOLEAN]
  <2>1. (overdue[d] \/ ~Signalled(d, f)) \in BOOLEAN
    OBVIOUS
  <2>2. QED BY <2>1 DEF TypeOK, CleanupPriorFrameResources, AllTracked
<1>5. ASSUME NEW e \in Displays
      PROVE  tracked'[e] <= staged[e]
  <2>1. staged[e] \in Nat /\ tracked[e] <= staged[e] /\ tracked'[e] \in {staged[e], tracked[e]}
    BY FramesFacts DEF TypeOK, CleanupPriorFrameResources, AllTracked
  <2>2. QED BY <2>1
<1>6. QED BY <1>2, <1>3, <1>4, <1>5

(* What a clean-up does to the display it runs on: the display keeps its   *)
(* newest frame, and if it loses the frame on the screen it is overdue.    *)
LEMMA CleanupStep ==
  ASSUME TypeOK, NEW d \in Displays, NEW f \in Frames, f = fence[d], f # NoFence,
         CountInv(d), ScanInv(d), ~Finishing(d),
         CleanupPriorFrameResources(d, f), UNCHANGED <<pc, args, nonblock>>,
         active'[d] = active[d], commits'[d] = commits[d], staged'[d] = staged[d],
         exiting'[d] = exiting[d], htracking'[d] = htracking[d],
         scan'[d] = scan[d], latch'[d] = latch[d], flight'[d] = flight[d],
         orphan'[d] = orphan[d], d \in todo' => d \in todo
  PROVE  CountInv(d)' /\ ScanInv(d)' /\ tracked'[d] >= htracking'[d]
<1>1. ~Finishing(d)'
  BY DEF Finishing, HasRequest, Requested
<1>2. /\ tracked'[d] = staged[d] /\ objects'[d] = NewestOnly(objects[d])
      /\ fence'[d] = NoFence /\ overdue'[d] = (overdue[d] \/ f = flight[d])
  BY DEF CleanupPriorFrameResources, AllTracked, TypeOK, Signalled
<1>3. CountInv(d)' /\ tracked'[d] >= htracking'[d]
  BY <1>1, <1>2 DEF CountInv, TypeOK, Frames
<1>4. /\ NewestOnly(objects[d]) \in Seq(Frames)
      /\ objects[d] # <<>> => /\ objects'[d] # <<>>
                              /\ Newest(d)' = Newest(d)
  <2>1. objects[d] \in Seq(Frames)
    BY DEF TypeOK
  <2>2. QED BY <1>2, <2>1, NewestOnlyFacts DEF Newest
<1>5. \A g : IsNewest(d, g) => (g = 0 \/ (objects'[d] # <<>> /\ g = Newest(d)'))
  BY <1>4 DEF IsNewest
<1>6. ScanInv(d)'
  BY <1>1, <1>2, <1>5 DEF ScanInv, Covered, IsNewest, NoFence
<1>7. QED BY <1>3, <1>6

LEMMA HelperCleanStep ==
  ASSUME IInv, NEW h \in Displays, HelperClean(h)
  PROVE  IInv'
<1> USE DEF HelperClean, main, kernel, history
<1>1. TypeOK'
  <2>1. TypeOK
    BY DEF IInv
  <2>2. /\ objects' \in [Displays -> Seq(Frames)]
        /\ fence' \in [Displays -> Frames]
        /\ tracked' \in [Displays -> Frames] /\ \A d \in Displays : tracked'[d] <= staged[d]
        /\ overdue' \in [Displays -> BOOLEAN]
    BY <2>1, CleanupTypes DEF TypeOK
  <2>3. QED
    BY <2>1, <2>2, FramesFacts DEF TypeOK, NoFence
<1>2. CallInv'
  BY DEF IInv, CallInv, HasRequest, Requested
<1>3. WaitInv'
  BY DEF IInv, WaitInv, CallInv, CleanupPriorFrameResources, AllTracked, TypeOK
<1>4. ASSUME NEW d \in Displays
      PROVE  CountInv(d)' /\ HelperInv(d)' /\ ScanInv(d)'
  <2>1. CountInv(d) /\ HelperInv(d) /\ ScanInv(d) /\ TypeOK /\ WaitInv
    BY DEF IInv
  <2>2. CASE d # h
    BY <2>1, <2>2, FrameUntouched DEF TypeOK, CleanupPriorFrameResources, AllTracked
  <2>3. CASE d = h
    <3>1. HelperInv(d)'
      BY <2>1, <2>3 DEF HelperInv, TypeOK
    <3>2. CASE ~exiting[d] /\ Untracked(d)
      <4>1. fence[d] = hfence[d] /\ fence[d] # NoFence
        BY <2>1, <2>3, <3>2 DEF HelperInv
      <4>2. ~Finishing(d)
        BY <2>1, <4>1 DEF WaitInv, Finishing
      <4>3. hfence[d] \in Frames
        BY <2>1 DEF TypeOK
      <4>4. CleanupPriorFrameResources(d, hfence[d])
        BY <2>3, <3>2
      <4>5. CountInv(d)' /\ ScanInv(d)'
        BY <2>1, <2>3, <4>1, <4>2, <4>3, <4>4, CleanupStep
      <4>6. QED BY <3>1, <4>5
    <3>3. CASE ~(~exiting[d] /\ Untracked(d))
      <4>1. /\ Requested(d)' = Requested(d)
            /\ Finishing(d)' <=> Finishing(d)
            /\ ActiveAfter(d)' <=> ActiveAfter(d)
            /\ RequestFrame(d)' = RequestFrame(d)
            /\ KeepsPlanes(d)' <=> KeepsPlanes(d)
        BY Frozen
      <4>2. UNCHANGED <<objects, fence, tracked, overdue>>
        BY <2>3, <3>3
      <4>3. CountInv(d)'
        BY <2>1, <4>1, <4>2 DEF CountInv
      <4>4. ScanInv(d)'
        BY <2>1, <4>1, <4>2 DEF ScanInv, Covered, IsNewest, Newest, Referenced
      <4>5. QED BY <3>1, <4>3, <4>4
    <3>4. QED BY <3>2, <3>3
  <2>4. QED BY <2>2, <2>3
<1>5. QED BY <1>1, <1>2, <1>3, <1>4 DEF IInv

-----------------------------------------------------------------------------
(* The kernel's vblank.                                                    *)

LEMMA FlipStep ==
  ASSUME IInv, NEW h \in Displays, Flip(h)
  PROVE  IInv'
<1> USE DEF Flip, main, asm, helper, history
<1>1. TypeOK'
  <2>1. TypeOK
    BY DEF IInv
  <2>2. scan' \in [Displays -> Frames] /\ latch' \in [Displays -> Frames]
    BY <2>1, FramesFacts DEF TypeOK
  <2>3. flight' \in [Displays -> Frames] /\ overdue' \in [Displays -> BOOLEAN]
    BY <2>1, FramesFacts DEF TypeOK
  <2>4. QED BY <2>1, <2>2, <2>3 DEF TypeOK
<1>2. CallInv'
  BY DEF IInv, CallInv, HasRequest, Requested
<1>3. WaitInv'
  BY DEF IInv, WaitInv
<1>4. ASSUME NEW d \in Displays
      PROVE  CountInv(d)' /\ HelperInv(d)' /\ ScanInv(d)'
  <2>1. CountInv(d) /\ HelperInv(d) /\ ScanInv(d) /\ TypeOK
    BY DEF IInv
  <2>2. CASE d # h
    BY <2>1, <2>2, FrameUntouched DEF TypeOK
  <2>3. CASE d = h
    <3>1. /\ Requested(d)' = Requested(d)
          /\ Finishing(d)' <=> Finishing(d)
          /\ ActiveAfter(d)' <=> ActiveAfter(d)
          /\ RequestFrame(d)' = RequestFrame(d)
          /\ KeepsPlanes(d)' <=> KeepsPlanes(d)
      BY Frozen
    <3>2. CountInv(d)'
      BY <2>1, <2>3, <3>1 DEF CountInv, TypeOK, Frames
    <3>3. HelperInv(d)'
      BY <2>1, <2>3 DEF HelperInv, Untracked
    <3>4. /\ scan'[d] = latch[d] /\ latch'[d] = 0 /\ flight'[d] = 0
          /\ ~overdue'[d] /\ flight[d] # 0
      BY <2>1, <2>3 DEF TypeOK
    <3>5. Covered(d, latch[d]) => Covered(d, scan[d])'
      BY <3>4 DEF Covered, IsNewest, Newest
    <3>6. ScanInv(d)'
      BY <2>1, <3>1, <3>4, <3>5 DEF ScanInv
    <3>7. QED BY <3>2, <3>3, <3>6
  <2>4. QED BY <2>2, <2>3
<1>5. QED BY <1>1, <1>2, <1>3, <1>4 DEF IInv

-----------------------------------------------------------------------------
(* The main thread.                                                        *)

(* A display outside the commit, or not yet at FinishPendingRequest, keeps *)
(* its invariant through the steps that only move the main thread.         *)
LEMMA FrameIdle ==
  ASSUME NEW d \in Displays, ~Finishing(d), ~Finishing(d)',
         active'[d] = active[d], commits'[d] = commits[d], objects'[d] = objects[d],
         fence'[d] = fence[d], staged'[d] = staged[d], tracked'[d] = tracked[d],
         exiting[d] => exiting'[d], hpc'[d] = hpc[d], htracking'[d] = htracking[d],
         hfence'[d] = hfence[d], scan'[d] = scan[d], latch'[d] = latch[d],
         flight'[d] = flight[d], overdue'[d] = overdue[d], orphan'[d] = orphan[d],
         CountInv(d), HelperInv(d), ScanInv(d)
  PROVE  CountInv(d)' /\ HelperInv(d)' /\ ScanInv(d)'
<1>1. CountInv(d)'
  BY DEF CountInv
<1>2. HelperInv(d)'
  BY DEF HelperInv, Untracked
<1>3. ScanInv(d)'
  BY DEF ScanInv, Covered, IsNewest, Newest, Referenced
<1>4. QED BY <1>1, <1>2, <1>3

LEMMA BeginStep ==
  ASSUME IInv, pc = "idle", NEW ds \in SUBSET Displays, NEW a, a \in [ds -> Args],
         \A d \in ds : Shape(a[d]), NEW kind \in {"commit", "wait"}, Begin(a, kind)
  PROVE  IInv'
<1> USE DEF Begin, Goto, asm, helper, kernel, history
<1>1. TypeOK'
  <2>1. args' \in UNION {[es -> Args] : es \in SUBSET Displays}
    OBVIOUS
  <2>2. QED BY <2>1 DEF IInv, TypeOK
<1>2. CallInv'
  BY DEF IInv, CallInv
<1>3. WaitInv'
  BY DEF IInv, CallInv, WaitInv
<1>4. ASSUME NEW d \in Displays
      PROVE  CountInv(d)' /\ HelperInv(d)' /\ ScanInv(d)'
  BY FrameIdle DEF IInv, Finishing
<1>5. QED BY <1>1, <1>2, <1>3, <1>4 DEF IInv

LEMMA CallerShapes ==
  ASSUME NEW caller, NEW a, a \in CallerArgs(caller)
  PROVE  Shape(a)
BY DEF CallerArgs, SetConfigArgs, SetActiveConfigsArgs, SetPowerModeArgs, DeinitArgs,
   PresentFrameArgs, PresentModesetArgs, ArgsOf, Args, Shape, Compositions

LEMMA BeginsStep ==
  ASSUME IInv, BeginCommit \/ BeginActiveConfigs \/ BeginWait
  PROVE  IInv'
<1>1. CASE BeginCommit
  <2>1. PICK caller \in Callers, d \in Displays :
          pc = "idle" /\ \E a \in CallerArgs(caller) : Begin([x \in {d} |-> a], "commit")
    BY <1>1 DEF BeginCommit
  <2> PICK a \in CallerArgs(caller) : Begin([x \in {d} |-> a], "commit")
    BY <2>1
  <2>2. Shape(a) /\ a \in Args
    BY CallerShapes DEF Shape
  <2>3. [x \in {d} |-> a] \in [{d} -> Args] /\ \A e \in {d} : Shape([x \in {d} |-> a][e])
    BY <2>2
  <2>4. QED BY <2>1, <2>3, BeginStep
<1>2. CASE BeginActiveConfigs
  <2>1. PICK ds \in SUBSET Displays :
          pc = "idle" /\ \E a \in [ds -> CallerArgs("SetActiveConfigs")] : Begin(a, "commit")
    BY <1>2 DEF BeginActiveConfigs
  <2>2. PICK a \in [ds -> CallerArgs("SetActiveConfigs")] : Begin(a, "commit")
    BY <2>1
  <2>3. \A d \in ds : Shape(a[d])
    BY CallerShapes
  <2>4. a \in [ds -> Args]
    BY <2>3 DEF Shape
  <2>5. QED BY <2>1, <2>2, <2>3, <2>4, BeginStep
<1>3. CASE BeginWait
  <2> DEFINE a == Arg(FALSE, FALSE, "none", FALSE, "none")
  <2>1. PICK d \in Displays : pc = "idle" /\ Begin([x \in {d} |-> a], "wait")
    BY <1>3 DEF BeginWait
  <2>2. Shape(a) /\ a \in Args
    BY DEF Shape, Arg, Args
  <2>3. [x \in {d} |-> a] \in [{d} -> Args] /\ \A e \in {d} : Shape([x \in {d} |-> a][e])
    BY <2>2
  <2> HIDE DEF a
  <2>4. QED BY <2>1, <2>3, BeginStep
<1>4. QED BY <1>1, <1>2, <1>3

(* A call that ends with nothing left to finish.                           *)
LEMMA DoneStep ==
  ASSUME IInv, GotoDone, waiting = NoDisplay, \A d \in Displays : ~Finishing(d),
         UNCHANGED <<asm, exiting, helper, waiting, wfence, kernel, history>>
  PROVE  IInv'
<1> USE DEF Goto, GotoDone, asm, helper, kernel, history
<1>1. args' \in [{} -> Args]
  OBVIOUS
<1>2. args' \in UNION {[es -> Args] : es \in SUBSET Displays} /\ DOMAIN args' = {}
  BY <1>1
<1>3. TypeOK'
  BY <1>2 DEF IInv, TypeOK
<1>4. CallInv'
  BY <1>2 DEF CallInv
<1>5. WaitInv'
  BY DEF WaitInv
<1>6. ASSUME NEW d \in Displays
      PROVE  CountInv(d)' /\ HelperInv(d)' /\ ScanInv(d)'
  BY FrameIdle DEF IInv, Finishing
<1>7. QED BY <1>3, <1>4, <1>5, <1>6 DEF IInv

(* A failed commit goes to its clean-up or ends the call.                  *)
LEMMA FailedStep ==
  ASSUME IInv, Failed, pc \in {"build", "commit"}, waiting = NoDisplay,
         UNCHANGED <<asm, exiting, helper, waiting, wfence, kernel, history>>
  PROVE  IInv'
<1> DEFINE a == Arg(TRUE, FALSE, "none", FALSE, "empty")
<1>1. Shape(a) /\ a \in Args
  BY DEF Shape, Arg, Args
<1> HIDE DEF a
<1>2. CASE call = "commit" /\ CleanUpDisplays # {}
  <2> USE DEF Goto, asm, helper, kernel, history
  <2>1. /\ pc' = "build" /\ call' = "cleanup" /\ nonblock' = FALSE
        /\ todo' = CleanUpDisplays /\ args' = [d \in CleanUpDisplays |-> a]
    BY <1>2 DEF Failed, a
  <2>2. CleanUpDisplays \subseteq DOMAIN args /\ CleanUpDisplays \subseteq Displays
    BY DEF CleanUpDisplays, IInv, CallInv
  <2>3. args' \in UNION {[es -> Args] : es \in SUBSET Displays}
    BY <1>1, <2>1, <2>2
  <2>4. TypeOK'
    BY <2>1, <2>2, <2>3 DEF IInv, TypeOK
  <2>5. CallInv'
    BY <1>1, <1>2, <2>1, <2>2 DEF IInv, CallInv
  <2>6. WaitInv'
    BY <2>1 DEF WaitInv
  <2>7. ASSUME NEW d \in Displays
        PROVE  CountInv(d)' /\ HelperInv(d)' /\ ScanInv(d)'
    BY <2>1, FrameIdle DEF IInv, Finishing
  <2>8. QED BY <2>4, <2>5, <2>6, <2>7 DEF IInv
<1>3. CASE ~(call = "commit" /\ CleanUpDisplays # {})
  <2>1. GotoDone /\ \A d \in Displays : ~Finishing(d)
    BY <1>3 DEF Failed, Finishing
  <2>2. QED BY <2>1, DoneStep
<1>4. QED BY <1>2, <1>3

LEMMA BuildRequestsStep ==
  ASSUME IInv, BuildRequests
  PROVE  IInv'
<1> USE DEF BuildRequests, Goto, asm, helper, kernel, history
<1>1. waiting = NoDisplay /\ \A d \in Displays : ~Finishing(d)
  BY DEF IInv, CallInv, Finishing
<1>2. CASE GotoDone
  BY <1>1, <1>2, DoneStep
<1>3. CASE Failed
  BY <1>1, <1>3, FailedStep
<1>4. CASE /\ nonblock' = \A d \in DOMAIN args :
                HasRequest(d) => ~args[d].blocking /\ Requested(d).power = "none"
           /\ Goto("wait") /\ UNCHANGED <<call, args, todo>>
  <2>1. nonblock' \in BOOLEAN
    BY <1>4
  <2>2. TypeOK'
    BY <1>4, <2>1 DEF IInv, TypeOK
  <2>3. \A d : (HasRequest(d)' <=> HasRequest(d)) /\ Requested(d)' = Requested(d)
    BY <1>4 DEF HasRequest, Requested
  <2>4. CallInv'
    BY <1>1, <1>4, <2>3 DEF IInv, CallInv
  <2>5. WaitInv'
    BY <1>1, <1>4 DEF IInv, CallInv, WaitInv
  <2>6. ASSUME NEW d \in Displays
        PROVE  CountInv(d)' /\ HelperInv(d)' /\ ScanInv(d)'
    BY <1>4, FrameIdle DEF IInv, Finishing
  <2>7. QED BY <2>2, <2>4, <2>5, <2>6 DEF IInv
<1>5. QED BY <1>2, <1>3, <1>4

LEMMA WaitLastFrameReadStep ==
  ASSUME IInv, NEW h \in Displays, WaitLastFrameRead(h)
  PROVE  IInv'
<1> USE DEF WaitLastFrameRead, asm, helper, kernel, history
<1>1. TypeOK'
  BY DEF IInv, TypeOK
<1>2. CallInv'
  BY DEF IInv, CallInv, HasRequest, Requested
<1>3. WaitInv'
  BY DEF IInv, CallInv, WaitInv
<1>4. ASSUME NEW d \in Displays
      PROVE  CountInv(d)' /\ HelperInv(d)' /\ ScanInv(d)'
  BY FrameIdle DEF IInv, Finishing
<1>5. QED BY <1>1, <1>2, <1>3, <1>4 DEF IInv

LEMMA WaitLastFrameDoneStep ==
  ASSUME IInv, NEW h \in Displays, WaitLastFrameDone(h)
  PROVE  IInv'
<1> USE DEF WaitLastFrameDone, helper, kernel, history
<1>1. h \in todo /\ wfence # NoFence /\ fence[h] \in {NoFence, wfence}
  BY ConstantsAssumption DEF IInv, CallInv, WaitInv
<1>2. TypeOK'
  <2>1. TypeOK
    BY DEF IInv
  <2>2. /\ objects' \in [Displays -> Seq(Frames)]
        /\ fence' \in [Displays -> Frames]
        /\ tracked' \in [Displays -> Frames] /\ \A d \in Displays : tracked'[d] <= staged[d]
        /\ overdue' \in [Displays -> BOOLEAN]
    BY <2>1, CleanupTypes DEF TypeOK
  <2>3. QED
    BY <2>1, <2>2, FramesFacts DEF TypeOK, NoFence
<1>3. CallInv'
  BY DEF IInv, CallInv, HasRequest, Requested
<1>4. WaitInv'
  BY <1>1 DEF IInv, WaitInv, CallInv, CleanupPriorFrameResources, AllTracked, TypeOK
<1>5. ASSUME NEW d \in Displays
      PROVE  CountInv(d)' /\ HelperInv(d)' /\ ScanInv(d)'
  <2>1. CountInv(d) /\ HelperInv(d) /\ ScanInv(d) /\ TypeOK
    BY DEF IInv
  <2>2. ~Finishing(d) /\ ~Finishing(d)'
    BY DEF Finishing
  <2>3. CASE d = h /\ fence[h] # NoFence
    <3>1. CleanupPriorFrameResources(d, wfence) /\ wfence = fence[d] /\ wfence \in Frames
      BY <1>1, <2>1, <2>3 DEF TypeOK
    <3>2. d \in todo' => d \in todo
      OBVIOUS
    <3>3. CountInv(d)' /\ ScanInv(d)' /\ tracked'[d] >= htracking'[d]
      BY <2>1, <2>2, <2>3, <3>1, <3>2, CleanupStep
    <3>4. tracked'[d] \in Nat /\ htracking'[d] \in Int /\ (hpc'[d] = "sync" => hfence'[d] # NoFence)
      <4>1. tracked'[d] \in Nat
        BY <1>2, FramesFacts DEF TypeOK
      <4>2. htracking[d] \in Int
        BY <2>1, CounterTypes
      <4>3. hpc[d] = "sync" => hfence[d] # NoFence
        BY <2>1 DEF HelperInv
      <4>4. QED BY <4>1, <4>2, <4>3
    <3>5. HelperInv(d)'
      BY <3>3, <3>4 DEF HelperInv, Untracked
    <3>6. QED BY <3>3, <3>5
  <2>4. CASE ~(d = h /\ fence[h] # NoFence)
    <3>1. /\ objects'[d] = objects[d] /\ fence'[d] = fence[d]
          /\ tracked'[d] = tracked[d] /\ overdue'[d] = overdue[d]
      BY <2>1, <2>4 DEF CleanupPriorFrameResources, AllTracked, TypeOK
    <3>2. QED BY <2>1, <2>2, <3>1, FrameIdle
  <2>5. QED BY <2>3, <2>4
<1>6. QED BY <1>2, <1>3, <1>4, <1>5 DEF IInv

LEMMA WaitLastFrameAllStep ==
  ASSUME IInv, WaitLastFrameAll
  PROVE  IInv'
<1> USE DEF WaitLastFrameAll, AllWaited, Goto, asm, helper, kernel, history
<1>1. waiting = NoDisplay /\ \A d \in Displays : ~Finishing(d)
  BY DEF IInv, CallInv, Finishing
<1>2. CASE call = "wait"
  BY <1>1, <1>2, DoneStep
<1>3. CASE call # "wait"
  <2>1. TypeOK'
    BY <1>3 DEF IInv, TypeOK, CallInv
  <2>2. CallInv'
    BY <1>1, <1>3 DEF IInv, CallInv, HasRequest, Requested
  <2>3. WaitInv'
    BY <1>1, <1>3 DEF IInv, CallInv, WaitInv
  <2>4. ASSUME NEW d \in Displays
        PROVE  CountInv(d)' /\ HelperInv(d)' /\ ScanInv(d)'
    BY <1>3, FrameIdle DEF IInv, Finishing
  <2>5. QED BY <2>1, <2>2, <2>3, <2>4 DEF IInv
<1>4. QED BY <1>2, <1>3

LEMMA KernelRejectsStep ==
  ASSUME IInv, KernelRejects
  PROVE  IInv'
<1>1. waiting = NoDisplay
  BY DEF IInv, CallInv, KernelRejects
<1>2. QED BY <1>1, FailedStep DEF KernelRejects

LEMMA GiveUpBusyStep ==
  ASSUME IInv, GiveUpBusy
  PROVE  IInv'
<1> USE DEF GiveUpBusy, Goto, asm, helper, kernel, history
<1>1. TypeOK'
  BY DEF IInv, TypeOK
<1>2. CallInv'
  BY DEF IInv, CallInv
<1>3. WaitInv'
  BY DEF WaitInv
<1>4. ASSUME NEW d \in Displays
      PROVE  CountInv(d)' /\ HelperInv(d)' /\ ScanInv(d)'
  BY FrameIdle DEF IInv, Finishing
<1>5. QED BY <1>1, <1>2, <1>3, <1>4 DEF IInv

LEMMA CommitDoneStep ==
  ASSUME IInv, CommitDone
  PROVE  IInv'
<1>1. waiting = NoDisplay /\ \A d \in Displays : ~Finishing(d)
  BY DEF IInv, CallInv, Finishing, CommitDone
<1>2. QED BY <1>1, DoneStep DEF CommitDone

LEMMA StopThreadStep ==
  ASSUME IInv, NEW h \in Displays, StopThread(h)
  PROVE  IInv'
<1> USE DEF StopThread, Goto, asm, helper, kernel, history
<1>1. TypeOK'
  BY DEF IInv, TypeOK
<1>2. CallInv'
  <2>1. waiting' \in Displays /\ exiting'[waiting'] /\ call # "wait"
    BY DEF IInv, TypeOK, CallInv
  <2>2. QED BY <2>1 DEF IInv, CallInv
<1>3. WaitInv'
  BY DEF WaitInv
<1>4. ASSUME NEW d \in Displays
      PROVE  CountInv(d)' /\ HelperInv(d)' /\ ScanInv(d)'
  BY FrameIdle DEF IInv, TypeOK, Finishing
<1>5. QED BY <1>1, <1>2, <1>3, <1>4 DEF IInv

LEMMA JoinStep ==
  ASSUME IInv, NEW h \in Displays, Join(h)
  PROVE  IInv'
<1> USE DEF Join, Goto, helper, kernel, history
<1>1. TypeOK'
  BY FramesFacts DEF IInv, TypeOK, NoFence
<1>2. CallInv'
  BY DEF IInv, CallInv
<1>3. WaitInv'
  BY DEF WaitInv
<1>4. ASSUME NEW d \in Displays
      PROVE  CountInv(d)' /\ HelperInv(d)' /\ ScanInv(d)'
  <2>1. CountInv(d) /\ HelperInv(d) /\ ScanInv(d) /\ TypeOK /\ ~Finishing(d) /\ ~Finishing(d)'
    BY DEF IInv, Finishing
  <2>2. CASE d # h
    BY <2>1, <2>2, FrameIdle DEF TypeOK
  <2>3. CASE d = h
    <3>1. exiting[d] /\ exiting'[d]
      BY <2>3 DEF IInv, CallInv
    <3>2. QED BY <2>1, <3>1 DEF CountInv, HelperInv, ScanInv, Untracked
  <2>4. QED BY <2>2, <2>3
<1>5. QED BY <1>1, <1>2, <1>3, <1>4 DEF IInv

(* What the request of one display makes of its planes: the new frame or   *)
(* nothing, and nothing on a display that ends up inactive.                *)
LEMMA ContentFacts ==
  ASSUME NEW d \in Displays, TypeOK, Shape(args[d]), HasRequest(d), ScanInv(d),
         ~Finishing(d), NEW id
  PROVE  /\ KeepsPlanes(d) => ContentAfter(d, id) = scan[d] /\ args[d].power # "none"
         /\ ~KeepsPlanes(d) => ContentAfter(d, id) = 0
              \/ (args[d].composition = "layers" /\ ContentAfter(d, id) = id)
         /\ ~ActiveAfter(d) => ContentAfter(d, id) = 0
         /\ active[d] /\ Requested(d).power = "none" => ActiveAfter(d)
<1>1. active[d] \in BOOLEAN
  BY DEF TypeOK
<1>2. /\ Requested(d).power = "none" /\ ~active[d] => args[d].composition # "layers"
      /\ Requested(d).power = "none" => ~args[d].teardown
      /\ Requested(d).power = "off" => args[d].teardown
      /\ Requested(d) \in Args
      /\ args[d].composition = "none" => args[d].power # "none"
      /\ args[d].composition = "none" /\ ~args[d].teardown /\ ~active[d] =>
           Requested(d).power = "on"
  BY <1>1, RequestedFacts DEF Requested, HasRequest
<1>3. args[d].teardown => args[d].composition # "layers"
  BY DEF Shape
<1>4. ~ActiveAfter(d) => args[d].composition # "layers" /\ ~KeepsPlanes(d)
  BY <1>2, <1>3 DEF ActiveAfter, Args, KeepsPlanes
<1>5. QED BY <1>2, <1>4 DEF ContentAfter, ActiveAfter, KeepsPlanes

LEMMA KernelAcceptsStep ==
  ASSUME IInv, KernelAccepts
  PROVE  IInv'
<1> DEFINE req == {d \in DOMAIN args : HasRequest(d)}
           queued == {d \in req : nonblock /\ active[d]}
<1> USE DEF Goto, asm, helper, history
<1>1. /\ pc = "commit" /\ pc' = "finish" /\ todo = DOMAIN args /\ waiting = NoDisplay
      /\ call # "wait" /\ DOMAIN args \subseteq Displays
      /\ \A d \in DOMAIN args : /\ HasRequest(d) => flight[d] = 0
                              /\ commits[d] < MaxCommits /\ Shape(args[d])
  BY DEF IInv, CallInv, KernelAccepts
<1>2. /\ UNCHANGED <<active, objects, fence, staged, tracked, exiting, hpc, htracking, hfence,
                     call, args, todo, waiting, wfence, nonblock, overdue, orphan>>
      /\ commits' = [d \in Displays |-> IF d \in req THEN commits[d] + 1 ELSE commits[d]]
      /\ flight' = [d \in Displays |-> IF d \in queued THEN commits[d] + 1 ELSE flight[d]]
      /\ latch' = [d \in Displays |->
                     IF d \in queued THEN ContentAfter(d, commits[d] + 1) ELSE latch[d]]
      /\ scan' = [d \in Displays |->
                    IF d \in req \ queued THEN ContentAfter(d, commits[d] + 1) ELSE scan[d]]
  BY <1>1 DEF KernelAccepts
<1> HIDE DEF req, queued
<1>3. TypeOK /\ WaitInv /\ CallInv
      /\ \A d \in Displays : CountInv(d) /\ HelperInv(d) /\ ScanInv(d) /\ ~Finishing(d)
  BY <1>1 DEF IInv, Finishing
<1>4. ASSUME NEW d \in req
      PROVE  /\ d \in Displays /\ d \in DOMAIN args /\ HasRequest(d)
             /\ flight[d] = 0 /\ commits[d] \in Frames /\ commits[d] + 1 \in Frames
             /\ ContentAfter(d, commits[d] + 1) \in Frames
             /\ KeepsPlanes(d) => ContentAfter(d, commits[d] + 1) = scan[d]
             /\ ~KeepsPlanes(d) => ContentAfter(d, commits[d] + 1) \in
                  {0, IF args[d].composition = "layers" THEN commits[d] + 1 ELSE 0}
             /\ ~ActiveAfter(d) => ContentAfter(d, commits[d] + 1) = 0
             /\ active[d] /\ Requested(d).power = "none" => ActiveAfter(d)
  <2>1. d \in Displays /\ d \in DOMAIN args /\ HasRequest(d) /\ flight[d] = 0
    BY <1>1 DEF req
  <2>2. commits[d] \in Frames /\ commits[d] + 1 \in Frames
    BY <1>1, <1>3, <2>1, ConstantsAssumption DEF TypeOK, Frames
  <2>3. /\ KeepsPlanes(d) => ContentAfter(d, commits[d] + 1) = scan[d]
        /\ ~KeepsPlanes(d) => ContentAfter(d, commits[d] + 1) = 0
             \/ (args[d].composition = "layers"
                   /\ ContentAfter(d, commits[d] + 1) = commits[d] + 1)
        /\ ~ActiveAfter(d) => ContentAfter(d, commits[d] + 1) = 0
        /\ active[d] /\ Requested(d).power = "none" => ActiveAfter(d)
    BY <1>1, <1>3, <2>1, ContentFacts
  <2>4. scan[d] \in Frames
    BY <1>3, <2>1 DEF TypeOK
  <2>5. QED BY <2>1, <2>2, <2>3, <2>4, FramesFacts
<1>5. queued \subseteq req /\ \A d \in queued : nonblock /\ active[d]
  BY DEF queued
<1>6. TypeOK'
  <2>1. /\ commits' \in [Displays -> Frames] /\ flight' \in [Displays -> Frames]
        /\ latch' \in [Displays -> Frames] /\ scan' \in [Displays -> Frames]
    BY <1>2, <1>3, <1>4, <1>5 DEF TypeOK
  <2>2. QED BY <1>1, <1>2, <1>3, <2>1 DEF TypeOK
<1>7. CallInv'
  BY <1>1, <1>2, <1>3 DEF CallInv
<1>8. WaitInv'
  BY <1>1, <1>2, <1>3 DEF WaitInv
<1>9. ASSUME NEW d \in Displays
      PROVE  CountInv(d)' /\ HelperInv(d)' /\ ScanInv(d)'
  <2>1. /\ Requested(d)' = Requested(d) /\ (HasRequest(d)' <=> HasRequest(d))
        /\ (ActiveAfter(d)' <=> ActiveAfter(d)) /\ (KeepsPlanes(d)' <=> KeepsPlanes(d))
    BY <1>2 DEF Requested, HasRequest, ActiveAfter, KeepsPlanes
  <2>2. Finishing(d)' <=> d \in req
    BY <1>1, <1>2, <2>1 DEF Finishing, req
  <2>3. CASE d \notin req
    <3>1. /\ commits'[d] = commits[d] /\ flight'[d] = flight[d]
          /\ latch'[d] = latch[d] /\ scan'[d] = scan[d]
      BY <1>2, <1>5, <2>3
    <3>2. QED BY <1>2, <1>3, <2>2, <2>3, <3>1, FrameIdle
  <2>4. CASE d \in req
    <3>1. HelperInv(d)'
      BY <1>2, <1>3 DEF HelperInv, Untracked
    <3>2. commits'[d] = commits[d] + 1 /\ commits[d] \in Nat /\ flight[d] = 0
      BY <1>2, <1>4, <2>4, FramesFacts
    <3>3. flight'[d] \in {0, commits'[d]}
      BY <1>2, <1>4, <2>4, <3>2
    <3>4. CountInv(d)'
      <4>1. /\ tracked'[d] <= staged'[d] /\ htracking'[d] <= staged'[d]
            /\ staged'[d] = staged[d] /\ staged[d] <= commits[d] /\ staged[d] \in Nat
        BY <1>2, <1>3, FramesFacts DEF CountInv, TypeOK
      <4>2. staged'[d] < commits'[d] /\ flight'[d] <= commits'[d]
        BY <3>2, <3>3, <4>1
      <4>3. QED BY <3>2, <4>1, <4>2 DEF CountInv
    <3>5. /\ latch[d] = 0 /\ ~overdue[d] /\ (~exiting[d] => Covered(d, scan[d]))
          /\ scan'[d] = scan[d] => (Covered(d, scan[d])' <=> Covered(d, scan[d]))
      BY <1>2, <1>3, <3>2 DEF ScanInv, Covered, IsNewest, Newest
    <3>6. RequestFrame(d)' = IF args[d].composition = "layers" THEN commits[d] + 1 ELSE 0
      BY <1>2, <3>2 DEF RequestFrame
    <3>7. /\ ~KeepsPlanes(d) => ContentAfter(d, commits[d] + 1) \in {0, RequestFrame(d)'}
          /\ KeepsPlanes(d) => ContentAfter(d, commits[d] + 1) = scan[d]
      BY <1>4, <2>4, <3>6
    <3>8. CASE d \in queued
      <4>1. /\ flight'[d] = commits'[d] /\ flight'[d] # 0 /\ nonblock /\ active[d]
            /\ scan'[d] = scan[d] /\ latch'[d] = ContentAfter(d, commits[d] + 1)
        BY <1>2, <1>5, <3>2, <3>8
      <4>2. Requested(d).power = "none" /\ ActiveAfter(d)
        BY <1>1, <1>3, <1>4, <2>4, <4>1 DEF CallInv
      <4>3. QED BY <1>2, <2>1, <2>2, <2>4, <3>1, <3>4, <3>5, <3>7, <4>1, <4>2 DEF ScanInv
    <3>9. CASE d \notin queued
      <4>1. /\ flight'[d] = 0 /\ latch'[d] = 0
            /\ scan'[d] = ContentAfter(d, commits[d] + 1)
        BY <1>2, <2>4, <3>2, <3>5, <3>9
      <4>2. ~ActiveAfter(d) => scan'[d] = 0
        BY <1>4, <2>4, <4>1
      <4>3. QED BY <1>2, <2>1, <2>2, <2>4, <3>1, <3>4, <3>5, <3>7, <4>1, <4>2 DEF ScanInv
    <3>10. QED BY <3>8, <3>9
  <2>5. QED BY <2>3, <2>4
<1>10. QED BY <1>6, <1>7, <1>8, <1>9 DEF IInv

LEMMA FinishPendingRequestStep ==
  ASSUME IInv, NEW h \in Displays, FinishPendingRequest(h)
  PROVE  IInv'
<1> USE DEF FinishPendingRequest, helper, kernel, history
<1>1. TypeOK /\ WaitInv /\ CallInv /\ pc = "finish" /\ h \in todo /\ fence[h] = NoFence
      /\ waiting = NoDisplay
      /\ \A d \in Displays : CountInv(d) /\ HelperInv(d) /\ ScanInv(d)
  BY DEF IInv, WaitInv, CallInv
<1>2. RequestFrame(h) \in Frames /\ commits[h] \in Frames
  BY <1>1, FramesFacts DEF RequestFrame, TypeOK
<1>3. CASE ~HasRequest(h)
  <2>1. UNCHANGED <<asm, history>> /\ ~Finishing(h) /\ ~Finishing(h)'
    BY <1>3 DEF Finishing
  <2> USE DEF asm
  <2>2. TypeOK' /\ WaitInv'
    BY <1>1, <2>1 DEF TypeOK, WaitInv
  <2>3. CallInv'
    BY <1>1, <2>1 DEF CallInv
  <2>4. ASSUME NEW d \in Displays
        PROVE  CountInv(d)' /\ HelperInv(d)' /\ ScanInv(d)'
    <3>1. CASE d = h
      BY <1>1, <2>1, <3>1, FrameIdle
    <3>2. CASE d # h
      BY <1>1, <2>1, <3>2, FrameUntouched
    <3>3. QED BY <3>1, <3>2
  <2>5. QED BY <2>2, <2>3, <2>4 DEF IInv
<1>4. CASE HasRequest(h)
  <2>1. Finishing(h) /\ ~Finishing(h)' /\ staged[h] < commits[h] /\ commits[h] \in Nat
        /\ staged[h] \in Nat
    BY <1>1, <1>4, FramesFacts DEF Finishing, CountInv, TypeOK
  <2>2. /\ active' = [active EXCEPT ![h] = ActiveAfter(h)]
        /\ FinishStaged(h) \/ FinishSynchronous(h)
        /\ FinishStaged(h) => args[h].power = "none" /\ ~KeepsPlanes(h)
    <3>1. CASE ~args[h].blocking /\ args[h].power = "none"
      <4>1. args[h].composition # "none"
        BY <1>1, <1>4, <3>1, RequestedFacts DEF CallInv, HasRequest, Requested, TypeOK
      <4>2. QED BY <1>4, <3>1, <4>1 DEF KeepsPlanes
    <3>2. CASE ~(~args[h].blocking /\ args[h].power = "none")
      <4>1. FinishSynchronous(h) /\ active' = [active EXCEPT ![h] = ActiveAfter(h)]
        BY <1>4, <3>2
      <4>2. staged' = staged
        BY <4>1 DEF FinishSynchronous
      <4>3. FinishStaged(h) => FALSE
        BY <1>1, <4>2, <2>1 DEF FinishStaged, TypeOK
      <4>4. QED BY <4>1, <4>3
    <3>3. QED BY <3>1, <3>2
  <2>3. active' \in [Displays -> BOOLEAN] /\ (active'[h] <=> ActiveAfter(h))
    <3>1. ActiveAfter(h) \in BOOLEAN
      BY <1>1 DEF ActiveAfter, TypeOK
    <3>2. QED BY <1>1, <2>2, <3>1 DEF TypeOK
  <2>4. objects[h] \in Seq(Frames)
    BY <1>1 DEF TypeOK
  <2>5. CallInv'
    BY <1>1 DEF CallInv
  <2>6. WaitInv'
    BY <1>1, <2>2 DEF WaitInv, CallInv, FinishStaged, FinishSynchronous, TypeOK
  <2>7. ASSUME NEW d \in Displays, d # h
        PROVE  CountInv(d)' /\ HelperInv(d)' /\ ScanInv(d)'
    <3>1. /\ active'[d] = active[d] /\ fence'[d] = fence[d] /\ objects'[d] = objects[d]
          /\ staged'[d] = staged[d] /\ tracked'[d] = tracked[d] /\ overdue'[d] = overdue[d]
          /\ orphan'[d] = orphan[d]
      BY <1>1, <2>2, <2>7 DEF FinishStaged, FinishSynchronous, TypeOK
    <3>2. QED BY <1>1, <2>7, <3>1, FrameUntouched
  <2>8. CASE FinishStaged(h)
    <3>1. /\ fence' = [fence EXCEPT ![h] = OutFence(h)]
          /\ objects' = [objects EXCEPT ![h] = Append(objects[h], RequestFrame(h))]
          /\ staged' = [staged EXCEPT ![h] = staged[h] + 1]
          /\ tracked' = tracked /\ overdue' = overdue /\ orphan' = orphan
      BY <2>8 DEF FinishStaged, StagedObjects
    <3>2. OutFence(h) \in Frames /\ staged[h] + 1 \in Frames
      BY <1>1, <1>2, <2>1, ConstantsAssumption DEF OutFence, NoFence, Frames
    <3>3. /\ objects'[h] = Append(objects[h], RequestFrame(h)) /\ fence'[h] = OutFence(h)
          /\ staged'[h] = staged[h] + 1
      BY <1>1, <3>1 DEF TypeOK
    <3>4. Append(objects[h], RequestFrame(h)) \in Seq(Frames)
      BY <1>2, <2>4, AppendFacts
    <3>5. TypeOK'
      <4>1. /\ objects' \in [Displays -> Seq(Frames)] /\ fence' \in [Displays -> Frames]
            /\ staged' \in [Displays -> Frames]
        BY <1>1, <3>1, <3>2, <3>4 DEF TypeOK
      <4>2. ASSUME NEW d \in Displays
            PROVE  tracked'[d] <= staged'[d]
        <5>1. tracked[d] <= staged[d] /\ tracked[d] \in Nat /\ staged[d] \in Nat
          BY <1>1, FramesFacts DEF TypeOK
        <5>2. staged'[d] = IF d = h THEN staged[d] + 1 ELSE staged[d]
          BY <1>1, <3>1 DEF TypeOK
        <5>3. QED BY <3>1, <5>1, <5>2
      <4>3. QED BY <1>1, <2>3, <3>1, <4>1, <4>2 DEF TypeOK
    <3>6. HelperInv(h)'
      BY <1>1, <3>1 DEF HelperInv, Untracked
    <3>7. CountInv(h)'
      <4>1. tracked[h] \in Nat /\ htracking[h] \in Int /\ tracked[h] <= staged[h]
            /\ htracking[h] <= staged[h] /\ flight[h] <= commits[h]
        BY <1>1, CounterTypes DEF CountInv
      <4>2. tracked'[h] = tracked[h] /\ htracking'[h] = htracking[h]
        BY <3>1
      <4>3. QED BY <2>1, <3>3, <4>1, <4>2 DEF CountInv
    <3>8. ScanInv(h)'
      <4>1. objects'[h] # <<>> /\ Newest(h)' = RequestFrame(h)
            /\ \A f \in {0, RequestFrame(h)} : IsNewest(h, f)'
        BY <1>2, <2>4, <3>3, AppendFacts DEF Newest, IsNewest
      <4>2. \A f : IsNewest(h, f) => Referenced(h, f)'
        <5>1. objects[h] # <<>> => \E i \in DOMAIN objects'[h] : objects'[h][i] = Newest(h)
          BY <1>2, <2>4, <3>3, AppendFacts DEF Newest
        <5>2. QED BY <5>1 DEF IsNewest, Referenced
      <4>3. flight[h] # 0 => OutFence(h) = flight[h]
        BY <1>1, <2>1 DEF ScanInv, OutFence, ActiveAfter
      <4>4. /\ flight[h] = 0 => latch[h] = 0 /\ IsNewest(h, scan[h])'
            /\ flight[h] # 0 => IsNewest(h, latch[h])'
            /\ ~exiting[h] /\ flight[h] # 0 => scan[h] = orphan[h] \/ Referenced(h, scan[h])'
        BY <1>1, <2>1, <2>2, <2>8, <4>1, <4>2 DEF ScanInv, Covered
      <4>5. QED BY <1>1, <2>1, <2>3, <3>1, <3>3, <4>3, <4>4 DEF ScanInv, Covered
    <3>9. QED BY <2>5, <2>6, <2>7, <3>5, <3>6, <3>7, <3>8 DEF IInv
  <2>9. CASE FinishSynchronous(h)
    <3>1. /\ fence' = [fence EXCEPT ![h] = NoFence]
          /\ objects' = [objects EXCEPT ![h] = <<RequestFrame(h)>>]
          /\ tracked' = [tracked EXCEPT ![h] = staged[h]] /\ staged' = staged
          /\ overdue' = [overdue EXCEPT ![h] = overdue[h] \/ (nonblock /\ flight[h] # 0)]
          /\ orphan' = [orphan EXCEPT ![h] = IF KeepsPlanes(h) THEN scan[h] ELSE orphan[h]]
      BY <2>9 DEF FinishSynchronous, AllTracked
    <3>2. /\ objects'[h] = <<RequestFrame(h)>> /\ fence'[h] = NoFence
          /\ tracked'[h] = staged[h]
          /\ overdue'[h] = (overdue[h] \/ (nonblock /\ flight[h] # 0))
          /\ orphan'[h] = IF KeepsPlanes(h) THEN scan[h] ELSE orphan[h]
      BY <1>1, <3>1 DEF TypeOK
    <3>3. TypeOK'
      <4>1. /\ objects' \in [Displays -> Seq(Frames)] /\ fence' \in [Displays -> Frames]
            /\ tracked' \in [Displays -> Frames] /\ orphan' \in [Displays -> Frames]
        BY <1>1, <1>2, <3>1, FramesFacts DEF TypeOK, NoFence
      <4>2. overdue' \in [Displays -> BOOLEAN]
        <5>1. (overdue[h] \/ (nonblock /\ flight[h] # 0)) \in BOOLEAN
          OBVIOUS
        <5>2. QED BY <1>1, <3>1, <5>1 DEF TypeOK
      <4>3. ASSUME NEW d \in Displays
            PROVE  tracked'[d] <= staged'[d]
        <5>1. tracked[d] <= staged[d] /\ tracked[d] \in Nat /\ staged[d] \in Nat
          BY <1>1, FramesFacts DEF TypeOK
        <5>2. tracked'[d] \in {tracked[d], staged[d]}
          BY <1>1, <3>1 DEF TypeOK
        <5>3. QED BY <3>1, <5>1, <5>2
      <4>4. QED BY <1>1, <2>3, <3>1, <4>1, <4>2, <4>3 DEF TypeOK
    <3>4. CountInv(h)' /\ HelperInv(h)'
      <4>1. htracking[h] \in Int /\ htracking[h] <= staged[h] /\ flight[h] <= commits[h]
            /\ (hpc[h] = "sync" => hfence[h] # NoFence)
        BY <1>1, CounterTypes DEF CountInv, HelperInv
      <4>2. ~Untracked(h)'
        BY <2>1, <3>2, <4>1 DEF Untracked
      <4>3. HelperInv(h)'
        BY <4>1, <4>2 DEF HelperInv
      <4>4. CountInv(h)'
        BY <2>1, <3>1, <3>2, <4>1 DEF CountInv
      <4>5. QED BY <4>3, <4>4
    <3>5. ScanInv(h)'
      <4>1. objects'[h] # <<>> /\ Newest(h)' = RequestFrame(h)
        BY <1>2, <3>2 DEF Newest
      <4>2. /\ scan[h] \in {0, RequestFrame(h)} => IsNewest(h, scan[h])'
            /\ latch[h] \in {0, RequestFrame(h)} => IsNewest(h, latch[h])'
        BY <4>1 DEF IsNewest
      <4>3. /\ flight[h] = 0 => latch[h] = 0 /\ ~overdue'[h] /\ Covered(h, scan[h])'
            /\ flight[h] # 0 => overdue'[h] /\ Covered(h, latch[h])'
        BY <1>1, <2>1, <3>2, <4>2 DEF ScanInv, Covered
      <4>4. QED BY <1>1, <2>1, <2>3, <4>3 DEF ScanInv
    <3>6. QED BY <2>5, <2>6, <2>7, <3>3, <3>4, <3>5 DEF IInv
  <2>10. QED BY <2>2, <2>8, <2>9
<1>5. QED BY <1>3, <1>4

-----------------------------------------------------------------------------
(* The theorems.                                                           *)

LEMMA InitInv == Init => IInv
<1> SUFFICES ASSUME Init PROVE IInv
  OBVIOUS
<1> USE DEF Init
<1>1. args \in [{} -> Args]
  OBVIOUS
<1>2. args \in UNION {[ds -> Args] : ds \in SUBSET Displays} /\ DOMAIN args = {}
  BY <1>1
<1>3. TypeOK
  <2>1. 0 \in Frames /\ NoFence \in Frames /\ <<>> \in Seq(Frames)
    BY FramesFacts DEF NoFence
  <2>2. objects \in [Displays -> Seq(Frames)] /\ htracking \in [Displays -> Frames \cup {-1}]
    BY <2>1
  <2>3. ASSUME NEW d \in Displays
        PROVE  tracked[d] <= staged[d]
    <3>1. tracked[d] = 0 /\ staged[d] = 0
      OBVIOUS
    <3>2. QED BY <3>1
  <2>4. QED BY <1>2, <2>1, <2>2, <2>3 DEF TypeOK
<1>4. CallInv /\ WaitInv
  BY <1>2 DEF CallInv, WaitInv
<1>5. ASSUME NEW d \in Displays
      PROVE  CountInv(d) /\ HelperInv(d) /\ ScanInv(d)
  BY DEF CountInv, HelperInv, ScanInv, Finishing, Covered, IsNewest
<1>6. QED BY <1>3, <1>4, <1>5 DEF IInv

LEMMA StutterInv == IInv /\ UNCHANGED vars => IInv'
<1> SUFFICES ASSUME IInv, UNCHANGED vars PROVE IInv'
  OBVIOUS
<1> USE DEF vars, asm, helper, main, kernel, history
<1>1. TypeOK' /\ WaitInv'
  BY DEF IInv, TypeOK, WaitInv
<1>2. CallInv'
  BY DEF IInv, CallInv, HasRequest, Requested
<1>3. ASSUME NEW d \in Displays
      PROVE  CountInv(d)' /\ HelperInv(d)' /\ ScanInv(d)'
  BY FrameUntouched DEF IInv
<1>4. QED BY <1>1, <1>2, <1>3 DEF IInv

LEMMA StepInv == IInv /\ [Next]_vars => IInv'
<1> SUFFICES ASSUME IInv, [Next]_vars PROVE IInv'
  OBVIOUS
<1>1. CASE BeginCommit \/ BeginActiveConfigs \/ BeginWait
  BY <1>1, BeginsStep
<1>2. CASE MainStep
  BY <1>2, BuildRequestsStep, WaitLastFrameReadStep, WaitLastFrameDoneStep,
     WaitLastFrameAllStep, KernelAcceptsStep, FinishPendingRequestStep, CommitDoneStep,
     JoinStep DEF MainStep
<1>3. CASE KernelRejects \/ GiveUpBusy
  BY <1>3, KernelRejectsStep, GiveUpBusyStep
<1>4. CASE \E d \in Displays : StopThread(d) \/ HelperStep(d) \/ Flip(d)
  BY <1>4, StopThreadStep, HelperTakeStep, HelperCleanStep, FlipStep DEF HelperStep
<1>5. CASE UNCHANGED vars
  BY <1>5, StutterInv
<1>6. QED BY <1>1, <1>2, <1>3, <1>4, <1>5 DEF Next

LEMMA Inductive == Spec => []IInv
BY InitInv, StepInv, PTL DEF Spec

(* The types, and frames_tracked_ never ahead of frames_staged_.           *)
THEOREM TypeCorrect == Spec => []TypeOK
<1>1. IInv => TypeOK
  BY DEF IInv
<1>2. QED BY <1>1, Inductive, PTL

(* The invariant puts every frame the kernel uses among the handles.       *)
LEMMA HeldInv == IInv => ScanoutHeld
<1>1. ASSUME IInv, NEW d \in Displays, ~overdue[d], ~exiting[d],
             NEW f \in InUse(d), f # orphan[d]
      PROVE  f \in Held(d)
  <2>1. /\ ScanInv(d) /\ f # 0 /\ f \in {scan[d], latch[d]}
        /\ objects[d] \in Seq(Frames)
    BY <1>1 DEF IInv, InUse, TypeOK
  <2>2. \A g : Covered(d, g) \/ Referenced(d, g) =>
                 g \in {0, orphan[d]} \/ \E i \in DOMAIN objects[d] : g = objects[d][i]
    BY <2>1 DEF Covered, IsNewest, Newest, Referenced
  <2>3. \A g : (\E i \in DOMAIN objects[d] : g = objects[d][i]) /\ g # 0 => g \in Held(d)
    BY DEF Held
  <2>4. Finishing(d) /\ f = RequestFrame(d) => f \in Held(d)
    BY <2>1 DEF Held, Finishing
  <2>5. CASE Finishing(d)
    BY <1>1, <2>1, <2>2, <2>3, <2>4, <2>5 DEF ScanInv
  <2>6. CASE ~Finishing(d)
    BY <1>1, <2>1, <2>2, <2>3, <2>6 DEF ScanInv
  <2>7. QED BY <2>5, <2>6
<1>2. QED BY <1>1 DEF ScanoutHeld

(* On any number of displays, under any callers, the framebuffers on the   *)
(* planes and those of the flip in flight are held by frame_objects_, but  *)
(* for a flip slower than the sync_wait, the mislabelled commit and the    *)
(* modeset without a composition.                                          *)
THEOREM ScanoutHeldCorrect == Spec => []ScanoutHeld
BY HeldInv, Inductive, PTL

(* WaitLastFrame leaves nothing for the kernel to answer EBUSY to, unless  *)
(* the wait was given up.                                                  *)
THEOREM CommitNeverOvertakesCorrect == Spec => []CommitNeverOvertakes
<1>1. ASSUME IInv, pc = "commit", NEW d \in DOMAIN args, flight[d] # 0
      PROVE  overdue[d]
  <2>1. d \in Displays /\ ~exiting[d] /\ fence[d] = NoFence /\ ~Finishing(d) /\ ScanInv(d)
    BY <1>1 DEF IInv, CallInv, WaitInv, Finishing
  <2>2. QED BY <1>1, <2>1 DEF ScanInv, NoFence
<1>2. IInv => CommitNeverOvertakes
  BY <1>1 DEF CommitNeverOvertakes
<1>3. QED BY <1>2, Inductive, PTL

(* A helper thread about to clean up holds the newest fence.               *)
THEOREM HelperFenceCurrentCorrect == Spec => []HelperFenceCurrent
<1>1. IInv => HelperFenceCurrent
  BY DEF IInv, HelperInv, HelperFenceCurrent
<1>2. QED BY <1>1, Inductive, PTL

-----------------------------------------------------------------------------
(***************************************************************************)
(* FrameTracking implements ScanoutLease: whatever the main thread, the    *)
(* helper threads and the kernel do, each display only ever programs a     *)
(* frame it holds, latches it, or releases handles nothing uses.           *)
(***************************************************************************)

(* A display the step does not move.                                       *)
Still(d) ==
  /\ Held(d)' = Held(d) /\ scan'[d] = scan[d] /\ latch'[d] = latch[d]
  /\ flight'[d] = flight[d] /\ overdue'[d] = overdue[d] /\ orphan'[d] = orphan[d]
  /\ exiting'[d] = exiting[d]

(* Lease!Step, and no step, as they read for this refinement.              *)
Moves(d) ==
  Lease!Step(d) \/ UNCHANGED <<Held(d), scan[d], latch[d], flight[d] # 0, overdue[d],
                               orphan[d], exiting[d]>>

LEMMA StillMoves ==
  ASSUME NEW d \in Displays, Still(d)
  PROVE  Moves(d)
BY DEF Still, Moves

(* Held in two parts: the queue, and the request not yet finished.         *)
Queued(d) == {objects[d][i] : i \in DOMAIN objects[d]}
Pending(d) == IF pc = "finish" /\ d \in todo THEN {RequestFrame(d)} ELSE {}

LEMMA HeldParts ==
  ASSUME NEW d \in Displays
  PROVE  /\ Held(d) = (Queued(d) \cup Pending(d)) \ {0}
         /\ Held(d)' = (Queued(d)' \cup Pending(d)') \ {0}
BY DEF Held, Queued, Pending

LEMMA HeldType ==
  ASSUME TypeOK, NEW d \in Displays
  PROVE  Held(d) \subseteq Frames
<1>1. objects[d] \in Seq(Frames) /\ RequestFrame(d) \in Frames
  BY FramesFacts DEF TypeOK, RequestFrame
<1>2. \A i \in DOMAIN objects[d] : objects[d][i] \in Frames
  BY <1>1
<1>3. QED BY <1>1, <1>2 DEF Held

LeaseTypeOK ==
  /\ [d \in Displays |-> Held(d)] \in [Displays -> SUBSET Frames]
  /\ [d \in Displays |-> flight[d] # 0] \in [Displays -> BOOLEAN]
  /\ scan \in [Displays -> Frames] /\ latch \in [Displays -> Frames]
  /\ overdue \in [Displays -> BOOLEAN] /\ orphan \in [Displays -> Frames]
  /\ exiting \in [Displays -> BOOLEAN]

LEMMA LeaseTypes == IInv => LeaseTypeOK
BY HeldType DEF IInv, TypeOK, LeaseTypeOK

(* A display of the commit without a request has no frame in it.           *)
LEMMA Requestless ==
  ASSUME IInv, NEW d \in DOMAIN args, ~HasRequest(d)
  PROVE  args[d].composition = "none"
<1>1. d \in Displays /\ Shape(args[d]) /\ active[d] \in BOOLEAN
  BY DEF IInv, CallInv, TypeOK
<1>2. QED BY <1>1, RequestedFacts DEF HasRequest, Requested, HasInputs

(* Dropping handles is a Release: the invariant after the step says that   *)
(* nothing the kernel uses was among them.                                 *)
LEMMA ReleaseMoves ==
  ASSUME IInv, IInv', NEW d \in Displays, Held(d)' \subseteq Held(d),
         scan'[d] = scan[d], latch'[d] = latch[d], flight'[d] = flight[d],
         overdue[d] => overdue'[d], exiting[d] => exiting'[d],
         orphan'[d] \in {orphan[d], scan[d]}
  PROVE  Moves(d)
<1>1. overdue'[d] => flight[d] # 0
  BY DEF IInv, ScanInv
<1>2. ScanoutHeld'
  BY HeldInv, PTL
<1>3. ~overdue'[d] /\ ~exiting'[d] => InUse(d)' \ {orphan'[d]} \subseteq Held(d)'
  BY <1>2 DEF ScanoutHeld
<1>4. Lease!Release(d)
  BY <1>1, <1>3 DEF Lease!Release, Lease!InUse, InUse
<1>5. QED BY <1>4 DEF Moves, Lease!Step

-----------------------------------------------------------------------------
(* Steps that only move the program counters.                              *)

LEMMA QuietMoves ==
  ASSUME NEW d \in Displays, pc # "finish" \/ d \notin todo, pc' # "finish",
         UNCHANGED <<objects, scan, latch, flight, overdue, orphan, exiting>>
  PROVE  Moves(d)
<1>1. Queued(d)' = Queued(d) /\ Pending(d) = {} /\ Pending(d)' = {}
  BY DEF Queued, Pending
<1>2. QED BY <1>1, HeldParts, StillMoves DEF Still

LEMMA MainQuiet ==
  ASSUME NEW d \in Displays,
         \/ BeginCommit \/ BeginActiveConfigs \/ BeginWait \/ BuildRequests
         \/ WaitLastFrameAll \/ KernelRejects \/ GiveUpBusy \/ CommitDone
         \/ \E h \in Displays : WaitLastFrameRead(h)
  PROVE  Moves(d)
<1> USE DEF asm, helper, kernel, history, Goto, GotoDone, Failed
<1>1. CASE BeginCommit \/ BeginActiveConfigs \/ BeginWait
  BY <1>1, QuietMoves DEF BeginCommit, BeginActiveConfigs, BeginWait, Begin
<1>2. CASE BuildRequests \/ WaitLastFrameAll
  BY <1>2, QuietMoves DEF BuildRequests, WaitLastFrameAll
<1>3. CASE KernelRejects \/ GiveUpBusy \/ CommitDone
  BY <1>3, QuietMoves DEF KernelRejects, GiveUpBusy, CommitDone
<1>4. CASE \E h \in Displays : WaitLastFrameRead(h)
  BY <1>4, QuietMoves DEF WaitLastFrameRead
<1>5. QED BY <1>1, <1>2, <1>3, <1>4

-----------------------------------------------------------------------------
(* The clean-ups.                                                          *)

LEMMA CleanupMoves ==
  ASSUME IInv, IInv', NEW h \in Displays, NEW f, NEW d \in Displays,
         \/ CleanupPriorFrameResources(h, f)
         \/ UNCHANGED <<objects, overdue>>,
         UNCHANGED <<pc, args, commits, scan, latch, flight, orphan, exiting>>,
         pc # "finish" \/ todo' = todo
  PROVE  Moves(d)
<1>1. TypeOK /\ objects[h] \in Seq(Frames)
  BY DEF IInv, TypeOK
<1>2. Pending(d)' = Pending(d)
  BY DEF Pending, RequestFrame
<1>3. CASE UNCHANGED <<objects, overdue>>
  <2>1. Queued(d)' = Queued(d)
    BY <1>3 DEF Queued
  <2>2. QED BY <1>2, <1>3, <2>1, HeldParts, StillMoves DEF Still
<1>4. CASE CleanupPriorFrameResources(h, f)
  <2>1. /\ objects' = [objects EXCEPT ![h] = NewestOnly(objects[h])]
        /\ overdue' = [overdue EXCEPT ![h] = overdue[h] \/ ~Signalled(h, f)]
    BY <1>4 DEF CleanupPriorFrameResources
  <2>2. \A i \in DOMAIN NewestOnly(objects[h]) :
          \E j \in DOMAIN objects[h] : NewestOnly(objects[h])[i] = objects[h][j]
    <3>1. Len(objects[h]) > 1 => Len(objects[h]) \in DOMAIN objects[h]
      BY <1>1
    <3>2. DOMAIN <<objects[h][Len(objects[h])]>> = {1}
      OBVIOUS
    <3>3. QED BY <3>1, <3>2 DEF NewestOnly
  <2>3. objects'[d] = IF d = h THEN NewestOnly(objects[h]) ELSE objects[d]
    BY <1>1, <2>1 DEF TypeOK
  <2>4. Queued(d)' \subseteq Queued(d)
    BY <2>2, <2>3 DEF Queued
  <2>5. overdue[d] => overdue'[d]
    BY <1>1, <2>1 DEF TypeOK
  <2>6. QED BY <1>2, <2>4, <2>5, HeldParts, ReleaseMoves
<1>5. QED BY <1>3, <1>4

LEMMA WaitLastFrameDoneMoves ==
  ASSUME IInv, IInv', NEW h \in Displays, WaitLastFrameDone(h), NEW d \in Displays
  PROVE  Moves(d)
<1>1. \/ CleanupPriorFrameResources(h, wfence)
      \/ UNCHANGED <<objects, overdue>>
  BY DEF WaitLastFrameDone
<1>2. QED BY <1>1, CleanupMoves DEF WaitLastFrameDone, kernel

LEMMA HelperMoves ==
  ASSUME IInv, IInv', NEW h \in Displays, HelperStep(h), NEW d \in Displays
  PROVE  Moves(d)
<1>1. CASE HelperTake(h)
  BY <1>1, CleanupMoves DEF HelperTake, asm, main, kernel, history
<1>2. CASE HelperClean(h)
  <2>1. \/ CleanupPriorFrameResources(h, hfence[h])
        \/ UNCHANGED <<objects, overdue>>
    BY <1>2 DEF HelperClean
  <2>2. QED BY <1>2, <2>1, CleanupMoves DEF HelperClean, main, kernel
<1>3. QED BY <1>1, <1>2 DEF HelperStep

-----------------------------------------------------------------------------
(* The kernel, the end of a commit, and the end of a pipeline.             *)

LEMMA KernelAcceptsMoves ==
  ASSUME IInv, KernelAccepts, NEW d \in Displays
  PROVE  Moves(d)
<1> DEFINE req == {x \in DOMAIN args : HasRequest(x)}
           queued == {x \in req : nonblock /\ active[x]}
<1>1. /\ pc = "commit" /\ pc' = "finish" /\ DOMAIN args \subseteq Displays
      /\ todo = DOMAIN args /\ TypeOK
  BY DEF IInv, CallInv, KernelAccepts, Goto
<1>2. /\ UNCHANGED <<args, todo, objects, overdue, orphan, exiting>>
      /\ \A x \in req : flight[x] = 0
      /\ commits'[d] = IF d \in req THEN commits[d] + 1 ELSE commits[d]
      /\ flight'[d] = IF d \in queued THEN commits[d] + 1 ELSE flight[d]
      /\ latch'[d] = IF d \in queued THEN ContentAfter(d, commits[d] + 1) ELSE latch[d]
      /\ scan'[d] =
           IF d \in req \ queued THEN ContentAfter(d, commits[d] + 1) ELSE scan[d]
  BY <1>1 DEF KernelAccepts, asm, history
<1>3. d \in queued => d \in req
  OBVIOUS
<1>4. d \in req <=> d \in DOMAIN args /\ HasRequest(d)
  OBVIOUS
<1> HIDE DEF req, queued
<1>5. Queued(d)' = Queued(d) /\ Pending(d) = {}
  BY <1>1, <1>2 DEF Queued, Pending
<1>6. Pending(d)' = IF d \in DOMAIN args THEN {RequestFrame(d)'} ELSE {}
  BY <1>1, <1>2 DEF Pending
<1>7. RequestFrame(d)' = IF args[d].composition = "layers" THEN commits'[d] ELSE 0
  BY <1>2 DEF RequestFrame
<1>8. CASE d \notin req
  <2>1. Pending(d)' \subseteq {0}
    BY <1>4, <1>6, <1>7, <1>8, Requestless
  <2>2. QED BY <1>2, <1>3, <1>5, <1>8, <2>1, HeldParts, StillMoves DEF Still
<1>9. CASE d \in req
  <2>1. flight[d] = 0 /\ latch[d] = 0 /\ commits[d] \in Nat
    BY <1>1, <1>2, <1>9, CounterTypes DEF IInv, ScanInv
  <2>2. /\ Held(d) \subseteq Held(d)'
        /\ RequestFrame(d)' # 0 => RequestFrame(d)' \in Held(d)'
    BY <1>4, <1>5, <1>6, <1>9, HeldParts
  <2>3. ContentAfter(d, commits[d] + 1) \in {0, scan[d], RequestFrame(d)'}
    BY <1>2, <1>7, <1>9 DEF ContentAfter
  <2>4. \/ flight'[d] # 0 /\ scan'[d] = scan[d]
        \/ ~(flight'[d] # 0) /\ latch'[d] = 0
    BY <1>2, <1>3, <1>9, <2>1
  <2>5. {scan'[d], latch'[d]} \ {0} \subseteq Held(d)' \cup ({scan[d], latch[d]} \ {0})
    BY <1>2, <1>3, <1>9, <2>1, <2>2, <2>3
  <2>6. Lease!Program(d)
    BY <1>2, <2>1, <2>2, <2>4, <2>5 DEF Lease!Program, Lease!InUse
  <2>7. QED BY <2>6 DEF Moves, Lease!Step
<1>10. QED BY <1>8, <1>9

LEMMA FinishMoves ==
  ASSUME IInv, IInv', NEW h \in Displays, FinishPendingRequest(h), NEW d \in Displays
  PROVE  Moves(d)
<1>1. /\ TypeOK /\ pc = "finish" /\ pc' = "finish" /\ h \in todo /\ todo' = todo \ {h}
      /\ UNCHANGED <<args, exiting, commits, scan, latch, flight>>
      /\ h \in DOMAIN args /\ objects[h] \in Seq(Frames)
  BY DEF IInv, CallInv, TypeOK, FinishPendingRequest, kernel
<1>2. RequestFrame(d)' = RequestFrame(d) /\ Pending(h) = {RequestFrame(h)} /\ Pending(h)' = {}
  BY <1>1 DEF RequestFrame, Pending
<1>3. CASE d # h
  <2>1. objects'[d] = objects[d] /\ overdue'[d] = overdue[d] /\ orphan'[d] = orphan[d]
    BY <1>1, <1>3 DEF FinishPendingRequest, FinishStaged, FinishSynchronous, TypeOK,
       asm, history
  <2>2. Queued(d)' = Queued(d) /\ Pending(d)' = Pending(d)
    BY <1>1, <1>2, <1>3, <2>1 DEF Queued, Pending
  <2>3. QED BY <1>1, <2>1, <2>2, HeldParts, StillMoves DEF Still
<1>4. CASE d = h /\ ~HasRequest(h)
  <2>1. UNCHANGED <<objects, overdue, orphan>>
    BY <1>4 DEF FinishPendingRequest, asm, history
  <2>2. Queued(d)' = Queued(d) /\ Pending(d) \subseteq {0} /\ Pending(d)' = {}
    BY <1>1, <1>2, <1>4, <2>1, Requestless DEF Queued, RequestFrame
  <2>3. QED BY <1>1, <2>1, <2>2, HeldParts, StillMoves DEF Still
<1>5. CASE d = h /\ FinishStaged(h)
  <2>1. objects'[d] = Append(objects[d], RequestFrame(d)) /\ overdue' = overdue
        /\ orphan' = orphan /\ RequestFrame(d) \in Frames
    BY <1>1, <1>5, FramesFacts DEF FinishStaged, StagedObjects, history, TypeOK, RequestFrame
  <2>2. \A i \in DOMAIN Append(objects[d], RequestFrame(d)) :
          \/ Append(objects[d], RequestFrame(d))[i] = RequestFrame(d)
          \/ i \in DOMAIN objects[d]
               /\ Append(objects[d], RequestFrame(d))[i] = objects[d][i]
    BY <1>1, <1>5, <2>1
  <2>3. Queued(d)' \subseteq Queued(d) \cup {RequestFrame(d)}
    BY <2>1, <2>2 DEF Queued
  <2>4. QED BY <1>1, <1>2, <1>5, <2>1, <2>3, HeldParts, ReleaseMoves
<1>6. CASE d = h /\ FinishSynchronous(h)
  <2>1. /\ objects'[d] = <<RequestFrame(d)>>
        /\ overdue'[d] = (overdue[d] \/ (nonblock /\ flight[d] # 0))
        /\ orphan'[d] = IF KeepsPlanes(d) THEN scan[d] ELSE orphan[d]
    BY <1>1, <1>6 DEF FinishSynchronous, TypeOK
  <2>2. Queued(d)' \subseteq {RequestFrame(d)}
    BY <2>1 DEF Queued
  <2>3. QED BY <1>1, <1>2, <1>6, <2>1, <2>2, HeldParts, ReleaseMoves
<1>7. QED BY <1>3, <1>4, <1>5, <1>6 DEF FinishPendingRequest

LEMMA RetireMoves ==
  ASSUME IInv, IInv', NEW h \in Displays, StopThread(h) \/ Join(h), NEW d \in Displays
  PROVE  Moves(d)
<1> USE DEF asm, helper, kernel, history, Goto
<1>1. /\ TypeOK /\ pc # "finish" /\ pc' # "finish"
      /\ UNCHANGED <<scan, latch, flight, overdue, orphan>>
      /\ Pending(d) = {} /\ Pending(d)' = {}
  BY DEF IInv, StopThread, Join, Pending
<1>2. objects'[d] \in {objects[d], <<>>}
  BY <1>1 DEF StopThread, Join, TypeOK
<1>3. Queued(d)' \subseteq Queued(d)
  BY <1>2 DEF Queued
<1>4. exiting[d] => exiting'[d]
  BY <1>1 DEF StopThread, Join, TypeOK
<1>5. QED BY <1>1, <1>3, <1>4, HeldParts, ReleaseMoves

LEMMA FlipMoves ==
  ASSUME IInv, NEW h \in Displays, Flip(h), NEW d \in Displays
  PROVE  Moves(d)
<1> USE DEF asm, helper, main, history
<1>1. TypeOK /\ Queued(d)' = Queued(d) /\ Pending(d)' = Pending(d)
  BY DEF IInv, Flip, Queued, Pending, RequestFrame
<1>2. Held(d)' = Held(d)
  BY <1>1, HeldParts
<1>3. CASE d # h
  BY <1>1, <1>2, <1>3, StillMoves DEF Still, Flip, TypeOK
<1>4. CASE d = h
  <2>1. /\ flight[d] # 0 /\ flight'[d] = 0 /\ scan'[d] = latch[d] /\ latch'[d] = 0
        /\ ~overdue'[d] /\ UNCHANGED <<orphan, exiting>>
    BY <1>1, <1>4 DEF Flip, TypeOK
  <2>2. Lease!Latch(d)
    BY <1>2, <2>1 DEF Lease!Latch
  <2>3. QED BY <2>2 DEF Moves, Lease!Step
<1>5. QED BY <1>3, <1>4

-----------------------------------------------------------------------------
LEMMA EachMoves ==
  ASSUME IInv, IInv', Next, NEW d \in Displays
  PROVE  Moves(d)
<1>1. CASE MainStep \/ BeginCommit \/ BeginActiveConfigs \/ BeginWait
             \/ KernelRejects \/ GiveUpBusy
  BY <1>1, MainQuiet, WaitLastFrameDoneMoves, KernelAcceptsMoves, FinishMoves, RetireMoves
     DEF MainStep
<1>2. CASE \E h \in Displays : StopThread(h) \/ HelperStep(h) \/ Flip(h)
  BY <1>2, RetireMoves, HelperMoves, FlipMoves
<1>3. QED BY <1>1, <1>2 DEF Next

LEMMA LeaseInit == Init => Lease!Init
<1> SUFFICES ASSUME Init PROVE Lease!Init
  OBVIOUS
<1>1. ASSUME NEW d \in Displays
      PROVE  Held(d) = {} /\ ~(flight[d] # 0)
  BY DEF Init, Held
<1>2. [d \in Displays |-> Held(d)] = [d \in Displays |-> {}]
  BY <1>1
<1>3. [d \in Displays |-> flight[d] # 0] = [d \in Displays |-> FALSE]
  BY <1>1
<1>4. QED BY <1>2, <1>3 DEF Init, Lease!Init

LEMMA LeaseNext ==
  ASSUME IInv, IInv', [Next]_vars
  PROVE  [Lease!Next]_Lease!vars
<1>1. CASE Next
  <2>1. \A d \in Displays : Moves(d)
    BY <1>1, EachMoves
  <2>2. LeaseTypeOK'
    BY LeaseTypes, PTL
  <2>3. Lease!Next
    BY <2>1, <2>2 DEF Lease!Next, Moves, LeaseTypeOK
  <2>4. QED BY <2>3
<1>2. CASE UNCHANGED vars
  BY <1>2 DEF vars, asm, helper, main, kernel, history, Lease!vars, Held, RequestFrame
<1>3. QED BY <1>1, <1>2

(* The frame tracking of every display is a lease on its scan-out frames.  *)
THEOREM LeaseImplementedCorrect == Spec => LeaseImplemented
BY Inductive, LeaseInit, LeaseNext, PTL DEF Spec, LeaseImplemented, Lease!Spec
=============================================================================

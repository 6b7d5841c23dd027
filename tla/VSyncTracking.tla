---------------------------- MODULE VSyncTracking ---------------------------
(***************************************************************************)
(* VSyncWorker: the thread that waits for the vblanks of a display, by the *)
(* kernel or by the clock, and the operations of HwcDisplay that steer it. *)
(*                                                                         *)
(* HwcDisplay calls the worker under the composer's main lock, so its      *)
(* operations are steps of one thread, "main".  An operation is a list of  *)
(* critical sections of mutex_; the worker's thread runs between them and  *)
(* waits, sleeps and calls the client without it.                          *)
(*                                                                         *)
(* Time is a counter, of a grain finer than the vsync periods.             *)
(***************************************************************************)
EXTENDS Integers, Sequences

CONSTANTS
  Periods,       \* vsync periods of the display's modes
  DefaultPeriod, \* kDefaultVSPeriodNs
  MaxTime        \* bound: the clock stops here

ASSUME ConstantsAssumption ==
  /\ Periods \subseteq Nat \ {0} /\ DefaultPeriod \in Nat \ {0}
  /\ MaxTime \in Nat

NoTime == -1
Times == 0 .. MaxTime

VARIABLES
  now,       \* CLOCK_MONOTONIC
  \* VSyncWorker
  enabled,   \* enabled_
  exiting,   \* thread_exit_
  last,      \* last_timestamp_
  period,    \* vsync_period_ns_
  tracking,  \* enable_vsync_timestamps_
  callback,  \* callback_ is set
  fence,     \* last_present_fence_: when its frame was committed, or NoTime
  \* the worker's thread; its locals are reset when they go out of scope
  wpc,       \* the step it is at
  wfrom,     \* when it began to wait for the vblank
  wtime,     \* timestamp
  wcallback, \* vsync_callback is set
  \* the main thread
  script,    \* critical sections the operation has still to run
  committed, \* when it gave the kernel its frame or mode, or NoTime
  \* the client and history
  told,      \* timestamp of the last vsync the client was told
  late,      \* vsyncs it was told since it has turned them off
  since,     \* when the kernel was given the mode of the period (when the
             \* period was set, if the modeset is deferred)
  crossed,   \* a wait was under way when it was set, and still is
  stale      \* last_timestamp_ comes from such a wait

worker == <<enabled, exiting, last, period, tracking, callback, fence>>
thread == <<wpc, wfrom, wtime, wcallback>>
history == <<told, late, since, crossed, stale>>
vars == <<now, worker, thread, script, committed, history>>

Init ==
  /\ now = 0
  /\ enabled = FALSE /\ exiting = FALSE /\ last = NoTime /\ period = DefaultPeriod
  /\ tracking = FALSE /\ callback = FALSE /\ fence = NoTime
  /\ wpc = "top" /\ wfrom = 0 /\ wtime = 0 /\ wcallback = FALSE
  /\ script = <<>> /\ committed = NoTime
  /\ told = NoTime /\ late = 0 /\ since = 0 /\ crossed = FALSE /\ stale = FALSE

(* Operators whose comment begins "Wrong on purpose" are no part of the    *)
(* specification: each is a slip the code could have had in the operator   *)
(* after it, kept to show which property notices.                          *)

(* Wrong on purpose: the vsync at or before the time.                      *)
PhasedThis(frame, current, from) ==
  IF from = NoTime THEN current + frame
  ELSE frame * ((current - from) \div frame) + from

(* GetPhasedVSync, given last_timestamp_, which is not in the future when  *)
(* the thread asks.                                                        *)
PhasedVSync(frame, current, from) ==
  IF from = NoTime THEN current + frame
  ELSE frame * ((current - from) \div frame + 1) + from

(* UpdateLastVsyncTimeWithPresentTime: while the thread is off, the time   *)
(* the last frame was presented serves as a vsync.  A fence that has not   *)
(* signalled is forgotten.                                                 *)
PresentTimes ==
  IF enabled \/ fence = NoTime THEN {last}
  ELSE {last} \cup {t \in fence .. now : t > last}

(* Wrong on purpose: no notify_all.                                        *)
NotNotified == wpc

(* notify_all on cv_.                                                      *)
Notified == IF wpc = "sleep" THEN "top" ELSE wpc

-----------------------------------------------------------------------------
(* The main thread: critical sections of mutex_.                           *)

Section(name) ==
  /\ script # <<>> /\ Head(script) = name
  /\ script' = Tail(script)

(* SetTimestampCallback, first half.                                       *)
CallbackOn ==
  /\ Section("callback on")
  /\ callback' = TRUE /\ late' = 0
  /\ UNCHANGED <<now, enabled, exiting, last, period, tracking, fence, thread,
                 committed, told, since, crossed, stale>>

CallbackOff ==
  /\ Section("callback off")
  /\ callback' = FALSE /\ late' = 0
  /\ UNCHANGED <<now, enabled, exiting, last, period, tracking, fence, thread,
                 committed, told, since, crossed, stale>>

(* SetVsyncTimestampTracking, first half.                                  *)
Tracking(on) ==
  /\ Section(IF on THEN "tracking on" ELSE "tracking off")
  /\ tracking' = on
  /\ UNCHANGED <<now, enabled, exiting, last, period, callback, fence, thread,
                 committed, history>>

(* UpdateVSyncControl, the second half of either.                          *)
UpdateVSyncControl ==
  /\ Section("control")
  /\ enabled' = (tracking \/ callback)
  /\ wpc' = Notified
  /\ UNCHANGED <<now, exiting, last, period, tracking, callback, fence, wfrom, wtime,
                 wcallback, committed, history>>

Waits == {"vblank", "synthetic", "nanosleep", "store"}

(* Wrong on purpose: the timestamp of the old period is kept.              *)
TimestampKept == last

TimestampReset == NoTime

SetVsyncPeriodNs ==
  /\ Section("period")
  /\ period' \in Periods
  /\ last' = TimestampReset /\ fence' = NoTime
  /\ since' = IF committed = NoTime THEN now ELSE committed
  /\ crossed' = (wpc \in Waits) /\ stale' = FALSE
  /\ UNCHANGED <<now, enabled, exiting, tracking, callback, thread, committed, told,
                 late>>

(* GetNextVsyncTimestamp: its answer aside, it looks at the fence.         *)
GetNextVsyncTimestamp ==
  /\ Section("next")
  /\ last' \in PresentTimes /\ fence' = NoTime
  /\ stale' = (stale /\ last' = last)
  /\ UNCHANGED <<now, enabled, exiting, period, tracking, callback, thread, committed,
                 told, late, since, crossed>>

(* ExecuteAtomicCommit, when the kernel accepts the frame or the mode: the *)
(* frame is on its way, and its fence may signal before it is added.       *)
Commit ==
  /\ Section("commit")
  /\ committed' = now
  /\ UNCHANGED <<now, worker, thread, history>>

AddLastPresentFence ==
  /\ Section("fence")
  /\ fence' = committed
  /\ UNCHANGED <<now, enabled, exiting, last, period, tracking, callback, thread,
                 committed, history>>

StopThread ==
  /\ Section("stop")
  /\ exiting' = TRUE /\ enabled' = FALSE
  /\ wpc' = Notified
  /\ UNCHANGED <<now, last, period, tracking, callback, fence, wfrom, wtime, wcallback,
                 committed, history>>

(* ~VSyncWorker.                                                           *)
Join ==
  /\ wpc = "done" /\ Section("join")
  /\ UNCHANGED <<now, worker, thread, committed, history>>

(* The operations of HwcDisplay.  ClearStagedModeConfig is "tracking off". *)
SetVsyncCallbacksEnabled == {<<"callback on", "control">>, <<"callback off", "control">>}

(* A queued config: track vsyncs until it has been applied.                *)
QueueConfig == {<<"next", "tracking on", "control">>}

(* A frame: whether a queued config is due (or when to sleep until), the   *)
(* commit, what follows a change of mode (ApplyCommitChanges), and the     *)
(* frame's out-fence, if it has one.  A refused mode is dropped.           *)
PresentStagedComposition ==
  {<<"commit">>, <<"commit", "fence">>, <<"next", "commit", "fence">>,
   <<"next", "commit", "tracking off", "control", "period", "fence">>,
   <<"next", "tracking off", "control">>}

(* A blocking modeset, refused or not, or, while the modeset is deferred,  *)
(* the period alone.                                                       *)
SetConfig ==
  {<<"tracking off", "control">>,
   <<"commit", "tracking off", "control", "period">>,
   <<"tracking off", "control", "commit", "tracking off", "control", "period">>,
   <<"tracking off", "control", "tracking off", "control", "period">>}

(* SetPowerMode(kOff) stops it all.                                        *)
PowerOff == {<<"callback off", "control", "tracking off", "control">>}

Deinit == {<<"tracking off", "control", "stop", "join">>}

Call ==
  /\ script = <<>> /\ ~exiting
  /\ committed' = NoTime
  /\ script' \in SetVsyncCallbacksEnabled \cup QueueConfig \cup PresentStagedComposition
                   \cup SetConfig \cup PowerOff \cup Deinit
  /\ UNCHANGED <<now, worker, thread, history>>

MainEnds ==
  \/ CallbackOn \/ CallbackOff \/ Tracking(TRUE) \/ Tracking(FALSE)
  \/ UpdateVSyncControl \/ SetVsyncPeriodNs \/ GetNextVsyncTimestamp
  \/ Commit \/ AddLastPresentFence \/ StopThread \/ Join

-----------------------------------------------------------------------------
(* ThreadFn.                                                               *)

Goto(step) == wpc' = step

Top ==
  /\ wpc = "top"
  /\ \/ exiting /\ Goto("done") /\ UNCHANGED wfrom
     \/ ~exiting /\ ~enabled /\ Goto("sleep") /\ UNCHANGED wfrom
     \/ ~exiting /\ enabled /\ Goto("vblank") /\ wfrom' = now
  /\ crossed' = FALSE
  /\ UNCHANGED <<now, worker, wtime, wcallback, script, committed, told, late, since,
                 stale>>

(* drmWaitVBlank: the next vblank, a signal (EINTR), or an error, as when  *)
(* the CRTC is off or there is no device.                                  *)
WaitVBlank ==
  /\ wpc = "vblank"
  /\ \/ now > wfrom /\ wtime' = now /\ Goto("store")
     \/ Goto("top") /\ UNCHANGED wtime
     \/ Goto("synthetic") /\ UNCHANGED wtime
  /\ wfrom' = 0
  /\ UNCHANGED <<now, worker, wcallback, script, committed, history>>

(* SyntheticWaitVBlank: compute when, under the lock, and sleep.           *)
SyntheticWaitVBlank ==
  /\ wpc = "synthetic"
  /\ last' \in PresentTimes /\ fence' = NoTime
  /\ stale' = (stale /\ last' = last)
  /\ wtime' = PhasedVSync(period, now, last')
  /\ Goto("nanosleep")
  /\ UNCHANGED <<now, enabled, exiting, period, tracking, callback, wfrom, wcallback,
                 script, committed, told, late, since, crossed>>

(* Where the clock stops, a sleep ends early and without a vsync.          *)
NanosleepDone ==
  /\ wpc = "nanosleep"
  /\ \/ now >= wtime /\ Goto("store") /\ UNCHANGED wtime
     \/ now = MaxTime /\ now < wtime /\ Goto("top") /\ wtime' = 0
  /\ UNCHANGED <<now, worker, wfrom, wcallback, script, committed, history>>

(* Wrong on purpose: a callback once set is kept.                          *)
CallbackKept == callback \/ wcallback

CallbackTaken == callback

Store ==
  /\ wpc = "store"
  /\ IF enabled
       THEN /\ last' = wtime /\ stale' = crossed
            /\ wcallback' = CallbackTaken
            /\ Goto("call") /\ UNCHANGED wtime
       ELSE Goto("top") /\ wtime' = 0 /\ UNCHANGED <<last, stale, wcallback>>
  /\ UNCHANGED <<now, enabled, exiting, period, tracking, callback, fence, wfrom,
                 script, committed, told, late, since, crossed>>

(* The callback, off the lock.                                             *)
CallBack ==
  /\ wpc = "call"
  /\ IF wcallback
       THEN /\ told' = wtime
            /\ late' = IF callback \/ late = 2 THEN late ELSE late + 1
       ELSE UNCHANGED <<told, late>>
  /\ Goto("top") /\ wtime' = 0
  /\ UNCHANGED <<now, worker, wfrom, wcallback, script, committed, since, crossed, stale>>

WorkerStep ==
  Top \/ WaitVBlank \/ SyntheticWaitVBlank \/ NanosleepDone \/ Store \/ CallBack

Tick ==
  /\ now < MaxTime
  /\ now' = now + 1
  /\ UNCHANGED <<worker, thread, script, committed, history>>

Next == Call \/ MainEnds \/ WorkerStep \/ Tick

(* An operation that started ends, the thread runs and time passes.        *)
Fairness == WF_vars(MainEnds) /\ WF_vars(WorkerStep) /\ WF_vars(Tick)

Spec == Init /\ [][Next]_vars /\ Fairness

-----------------------------------------------------------------------------
(* Properties.                                                             *)

TypeOK ==
  /\ now \in Times
  /\ enabled \in BOOLEAN /\ exiting \in BOOLEAN
  /\ last \in Times \cup {NoTime} /\ period \in Periods \cup {DefaultPeriod}
  /\ tracking \in BOOLEAN /\ callback \in BOOLEAN
  /\ fence \in Times \cup {NoTime}
  /\ wpc \in Waits \cup {"top", "sleep", "call", "done"}
  /\ wfrom \in Times /\ wtime \in Nat /\ wcallback \in BOOLEAN
  /\ committed \in Times \cup {NoTime}
  /\ told \in Times \cup {NoTime} /\ late \in 0 .. 2
  /\ since \in Times /\ crossed \in BOOLEAN /\ stale \in BOOLEAN

(* The vsyncs the client is told are in order, and never the same twice,   *)
(* though the waits alternate between the kernel and the clock, and the    *)
(* phase is taken from vblanks and present fences.                         *)
VsyncsInOrder == [][CallBack /\ wcallback => told' > told]_vars

(* A vsync that is still on its way when the client turns vsyncs off (or   *)
(* the display goes off) is the last.                                      *)
CallbackStops == late <= 1

(* A timestamp from before the kernel was given the current mode can only  *)
(* come from a wait that was under way when the period was set: not from   *)
(* what was recorded before, nor from the fence of an older frame.  (The   *)
(* frame that brings the mode may present, and its fence signal, before    *)
(* the period is set: that timestamp is of the new mode.)                  *)
PhaseReset == last # NoTime /\ last < since => stale

(* Between operations the thread is not asleep while someone wants vsyncs. *)
VsyncServed == script = <<>> /\ (callback \/ tracking) /\ ~exiting => wpc # "sleep"
=============================================================================

# A TLA+ model of drm_hwcomposer

drm_hwcomposer is Android's hardware composer on the Linux DRM/KMS API: it puts
the layers SurfaceFlinger hands it on the planes of each display, follows
hotplugs, and reports vsync.  This directory models its protocols, checks them
with TLC and proves the central ones with TLAPS.

## The system

| Component | State it keeps | Operations | Talks to |
|---|---|---|---|
| Frame tracking and commits: `drm/DrmAtomicStateManager` (one per display), `drm/DrmAtomicCommitSink` | `committed_frame_state_`, `frame_objects_`, `last_present_fence_`, `frames_staged_`, `frames_tracked_`, `exit_thread_`; a helper thread | `ExecuteAtomicCommit`, `WaitLastFrame`, `FinishPendingRequest`, `CleanupPriorFrameResources`, `ThreadFn`, `StopThread` | called by `HwcDisplay`, `ComposerClient`, the boot animation; the kernel |
| Display: `hwc/HwcDisplay` | active and staged config, staged power mode, deferred modeset, validated composition | `SetConfig`, `QueueConfig`, `SetPowerMode`, `SetPipeline`, `Deinit`, present | commits, vsync worker, HDCP, flattening, caches |
| Client: `hwc3/ComposerClient`, `hwc3/DrmHwcThree` | callback, per-display layers | binder calls under the main lock | `DrmHwc`, `HwcDisplay` |
| VSync: `drm/VSyncWorker` | tracking flag, callback, period, last timestamp and its freshness; a thread | `SetVsyncTimestampTracking`, `SetTimestampCallback`, `SetVsyncPeriodNs`, `GetLastVsyncTimestamp` | kernel vblanks, client callback |
| HDCP: `compositor/HdcpController` | `hdcp_state_`, `was_retry_`, deadline; a thread | `Start`, `Requested`, `Terminate`, status check | connector property, client callback |
| Binding: `drm/DrmHwc` | `displays_`, `display_handles_`, removal list, hotplug event queue | `BindDisplay`, `UnbindDisplay`, `ReplaceDisplay`, `FinalizeDisplayBinding`, `FlushHotplugEvents`, virtual displays | `ResourceManager`, client |
| Resources: `drm/ResourceManager`, `drm/UEventListener` | attached pipelines, probe generation, EDID recovery, settle timers; threads | `HandleUEventHotplug` in three phases, attach, detach, tiles | `DrmHwc`, kernel uevents |
| Pipelines: `drm/DrmDisplayPipeline` | who owns a CRTC or a plane (weak pointers) | `CreatePipeline`, `GetUsablePlanes` | `ResourceManager`, planners |
| Flattening: `compositor/FlatteningController` | state and deadline; a thread | `NewFrame`, `Disable` | present path, client refresh |
| Planners and mappers: `compositor/*` | none | layers to planes | `HwcDisplay` |
| Composition caches: `compositor/PresentedCompositionCache`, `ShortCircuitor` | the last presented composition and what it was made for | store, compare, reset | validate and present |
| Buffer caches: `hwc/HwcBufferCache`, `bufferinfo/GrallocBufferCache`, `drm/DrmFbImporter`, `utils/SlruCache` | slots; framebuffers by GEM handle (weak pointers); recency segments | `HandleNextBuffer`, `GetOrCreateFbId`, `~DrmFbIdHandle` | client commands; the kernel's table of GEM handles; the frame tracking, which drops framebuffers |
| Boot animation: `early_animation/EarlyBootAnimation` | its frames and thread | present until the client arrives | commits, hotplug deferral |

What makes it hard is the concurrency around the main lock: helper threads
(frame tracking, vsync, HDCP, flattening, uevents, EDID recovery) that drop
their lock to wait or to call back, the kernel that finishes commits later, and
hotplugs that arrive at any point.

How they interact: a binder call enters `ComposerClient` and holds the main lock
until it returns.  It stages layers in `HwcDisplay`, plans planes, and ends in
`DrmAtomicCommitSink::CommitFrame`, which waits for the previous frame of every
display of the commit and calls the kernel.  `ResourceManager` takes the same
lock to attach and detach pipelines, and tells `DrmHwc`, which queues events
for the client and delivers them after the lock was released.  Each display owns
a vsync worker, an HDCP controller and a flattening controller, whose threads
share only their own mutex with the display and call the client back without
the main lock.

What makes each part correct, and where it is stated:

| Component | Correct when | Stated by |
|---|---|---|
| Frame tracking | a framebuffer stays referenced while the kernel uses it, and goes afterwards; no commit overtakes a flip; destruction ends | `ScanoutHeld`, `RetiredReleased`, `CommitNeverOvertakes`, `HelperFenceCurrent`, `JoinReturns`, `LeaseImplemented` |
| HDCP | the client hears what the link is; every attempt ends; both content types get one try | `EnabledAsAsked`, `AttemptConcluded`, `InfeasibleAfterBoth`, `RetryEndsWithType0`, `TerminatedClientKnows` |
| Hotplug events | the client's displays are those that exist, whatever the order of events | `ClientKnows`, `ErrorsOfConnected`, `ClientLearns`, `NoGhostDisplay` |
| VSync | vsyncs come when asked for, in order, in the current mode's phase, and stop when told to | `VsyncServed`, `VsyncsInOrder`, `PhaseReset`, `CallbackStops` |
| Binding | one pipeline per connector and per handle; the primary display taken whenever a monitor is bound; internal monitors served before external ones; the client told of what exists; a handle never given out again; nothing shown that is unplugged, no monitor dark while a CRTC is free; a tiled monitor shown once | `BindingsAgree`, `AttachedIsBound`, `PrimaryTaken`, `InternalFirst`, `AnnouncedExist`, `ConnectedShown`, `OneTileShown`, `NoDisplayLost`, `HandlesNeverReused` |
| Probing | whatever was put off, overtaken or read in vain, the state of a connector is in the end the kernel's; an older reading never replaces a newer one; no connector is destroyed while it is probed | `HotplugsSeen`, `NeverOlder`, `TargetsAlive`, `AnimationUndisturbed` |
| Display | the active config is the mode the kernel has; what is off stays off, whatever was staged; a frame follows every modeset | `ActiveIsCommitted`, `OffStaysOff`, `RealFrameFollows` |
| Flattening | a scene that is left alone ends up flattened | `IdleFlattened` |
| Pipelines | no plane is on two displays' screens, or planned for two | `PlanesExclusive` |
| Composition caches | the composition a validation may skip to is on the screen | `CachedIsShown` |
| Buffer caches | the framebuffer of a slot shows the slot's buffer; no import leaves a handle open | `FbOfBuffer`, `NothingLeaks` |
| Planners | each visible layer is shown once, in z-order, with the target the client drew last; the client draws the cheapest range; what was validated can be presented | `ShownInOrder`, `CheapestClientRange`, `RangePresentable` |

## The modules

### FrameTracking and ScanoutLease

`ScanoutLease` is what the frame tracking promises, with neither threads nor
fences: per display the frames userspace holds (`held`), the one the kernel scans
out (`scan`), the one a flip in flight will show (`latch`).  `Program` is a commit
the kernel accepts, `Latch` a vblank, `Release` the dropping of handles, which
may take nothing the kernel uses.  It names two exceptions: a display that is
`overdue` (the composer stopped waiting for its flip) and an `orphan` frame
(written off while on the screen).

`FrameTracking` is the code.  State: per display the members of
`DrmAtomicStateManager` under their names without the underscore (`objects` is
`frame_objects_`, `fence` is `last_present_fence_`, `staged` and `tracked` the
two counters), the locals of `ThreadFn` (`hpc`, `htracking`, `hfence`), the
locals of the one commit under way (`pc`, `call`, `args`, `todo`, `waiting`,
`wfence`, `nonblock`) and the kernel.  A frame and a fence are named by the
number of the commit that made them.

| Action | Code |
|---|---|
| `BeginCommit`, `BeginActiveConfigs`, `BeginWait` | the callers, each with the `AtomicCommitArgs` it really passes |
| `BuildRequests` | `CommitFrame` up to the wait: a modified COPY of the args per display, `nonblock`, failure to build |
| `WaitLastFrameRead`, `WaitLastFrameDone`, `WaitLastFrameAll` | the two critical sections of `WaitLastFrame`, per display |
| `KernelAccepts`, `KernelRejects`, `GiveUpBusy` | the ioctl, its failure with `CleanUpFailedRequest`, 30 s of EBUSY |
| `FinishPendingRequest`, `CommitDone` | bookkeeping with the caller's args, per display |
| `StopThread`, `Join` | the destructor |
| `HelperTake`, `HelperClean` | the two critical sections of `ThreadFn` |
| `Flip` | vblank: the kernel latches the flip and signals its fence |

One commit runs at a time, because its caller holds the main lock until
`CommitFrame` returns; everything else interleaves with its steps.

### HdcpController

State: `hdcp_state_`, `was_retry_`, `enabled_content_type_` and whether the
deadline has passed; the step of the thread and of the main thread; the kernel's
property and the content type it was last asked with; what the client was told.
A commit with HDCP properties is two steps (`BuildFrame`, then `CommitFrame` or
`CommitFails`), because the thread may conclude an attempt in between.  The
thread's query of the property (`EarlyCheck`, `QueryContentProtection`), its
decision under the lock (`Decide`) and its callbacks (`NotifyStatus`,
`TriggerRetryFrame`) are separate steps, as the code holds no lock across them.
`Authenticate` changes the property at any time after the first HDCP commit.
`Terminate` runs only from `StopHdcp`, that is when the state is enabled.  The names
every specification has (`HdcpInit`, `HdcpNext`, `HdcpSpec` and so on) carry a prefix,
so that `Notification_proofs` can extend this module and HotplugEvents.

Read against the code: `HdcpController.h:96-97` says of `Terminate` that it "Stops
any ongoing HDCP negotiation, resets the state to kUndesired, and notifies the
client that HDCP is disabled. This is thread-safe."  But the thread reports a success
after it has released the lock (`HdcpController.cpp:155`): a `Terminate` in between is
reported first, and the client then believes in a protected link although the
state is undesired.  `TerminatedClientKnows` excepts that case with the history
variable `late`; without the exception TLC shows it.  The comments at
`HdcpController.h:86-87` and `:113-114` say a failed retry ends in `kUndesired`, the
code (line 141) says `kInfeasible`.  And the early check queries the property twice,
so a link that comes and goes between the two ends an attempt before its deadline.

### HotplugEvents

State: per handle whether a display is bound; the queue; who holds the main lock;
per flushing thread the batch it has still to send; `connected_displays_` of
`DrmHwcThree` and what the client was told.  `Add` is the merging of
`HotplugEventQueue::Add`, `TwoPasses` the order of delivery; both filter with `Among`, a
recursive function over the queue's length.  The actions between
`Lock` and `Unlock` are the calls of `ResourceManager` into `DrmHwc` that
schedule events; `Flush` swaps the queue out; `SendBegin` and `SendEnd` are the
two halves of `SendHotplugEventToClient`, around the client call for a
disconnect or a connect.  Which of these calls an update makes is left free here;
DisplayBinding fixes it.  A binding that fails schedules
nothing and uses up its handle, so it needs no action.  That a display handle is
unused, then connected, then spent for good, and the primary one never spent, is in
the guards of these actions; that the code gives its handles out so is `DisplayLife`,
which DisplayBinding is proved to implement (`HandlesNeverReused`).  The `connected`
set and the client's view are updated on different sides of the call, as in the code.

### VSyncTracking

State: the members of `VSyncWorker`, the locals of its thread, and the clock.  An
operation of `HwcDisplay` is a `script`, the list of critical sections of the
worker's mutex it runs: turning tracking or the callback on or off takes two
(the switch, then `UpdateVSyncControl`), and `Deinit` ends in `stop` and `join`.
Where an operation commits, the commit is a step of its script (`Commit`), because the
fence of a frame is added, and the period of a mode set, some time after the kernel
has them; both are dated at the commit.  The thread is cut where it has no lock: the
wait in the kernel (which may be
interrupted or fail over to the clock), the computation of the synthetic vsync,
the sleep, the store, the callback.  `PresentTimes` is
`UpdateLastVsyncTimeWithPresentTime`: a signalled fence may have signalled at any
time since its frame was committed, also before the period was set.

`last_timestamp_is_fresh_` is not modelled, because nothing depends on it but the
answer of `GetLastVsyncTimestamp`.  Reading it against the code shows two things
all the same.  `VSyncWorker.h:52-54` says the answer is 0 "if vsync tracking is
disabled", but disabling leaves the flag set, and the only call
(`HwcDisplay.cpp:2026-2027`) comes right after `ClearStagedModeConfig` disabled
it: the caller depends on the undocumented behaviour.  And the answer is a
`uint32_t`, although the timestamp is an `int64_t` of nanoseconds, so
`onVsyncPeriodTimingChanged` is sent a time modulo 4.3 s.

### DisplayBinding

State: `attached_pipelines_` and `attached_tile_groups_` of `ResourceManager`, the
members of `DrmHwc` as one record (`hwc`), which connectors the kernel has and in
what state, and the step of the update under way.  `DrmHwc`'s operations are
operators from record to record, because each runs to its end in one call:
`BindDisplay`, `UnbindDisplay`, `ReplaceDisplay`, each with its failure; a pipeline
is named by its connector.

| Action | Code |
|---|---|
| `BeginUpdate`, `DetachStale`, `DetachStaleDone` | what a probe found, `DetachStalePipelines` |
| `BeginRecovery`, `BeginDeInit` | the teardown loops of the EDID recovery and of `DetachAllFrontendDisplays` |
| `DetachConnector`, `FailoverTo`, `FailoverFails`, `DetachConnectorDone` | pass 2 and `DetachConnector`, one candidate tile after the other |
| `Attach`, `AttachFails`, `BadCable`, `NothingToAttach` | pass 3, `ProcessHotplugForConnector`, connectors in the order of `GetOrderedConnectors` |
| `FinalizeDisplayBinding` | the same, with a promotion that works or fails |

What a binding may fail of (no modes, no encoder) is a choice, and so is what the
second probe in `HwcDisplay::Init` finds.  Every CRTC serves every connector, and
there is one tiled monitor.  A pipeline exists, and holds its CRTC, as long as
`ResourceManager` or `DrmHwc` refers to it.  The notifications of pass 3 (link
status, HDCP) change nothing here; HotplugEvents has their events.

Read against the code: the comment at `DrmHwc.cpp:207` says a display's
destruction is deferred "until after the hotplug event is sent", but
`FinalizeDisplayBinding` erases it before `FlushHotplugEvents` runs, so a display
that the client still believes in is already gone.  And a failover needs a free
CRTC for the new tile while the old one is still bound: on a device whose CRTCs
are all in use it always fails, and the sibling gets a new display in pass 3.

### HotplugProbe

State: the kernel's connectors, each with a version that grows at every change;
the `DrmConnector` objects with the version they were read at; `deleted_`,
`attached_pipelines_`, `deferred_bootanim_hotplug_`, the flag of the boot animation;
the locals of `HandleUEventHotplug` (`plan`), whose thread holds `hotplug_mutex_`;
the steps of the listener, of the animation's start and end, of the settle thread and
of the EDID recovery.  The probe generation is the set `plan.moved` of
targets overtaken since phase 1.

| Action | Code |
|---|---|
| `ReadUEvents`, `Followup`, `SettleTimeout` | `UEventListener::ThreadFn`, with its 200 ms window |
| `Defer`, `Phase1`, `ProbeResources`, `ProbeNew`, `ProbeTarget`, `Phase3` | `HandleUEventHotplug`; phase 2 reads one connector at a time, without the main lock |
| `StartBootAnimation` | `StartEarlyBootAnimation`, which `Composer` calls when the threads are at work already |
| `StopBootAnimation`, `FlushDeferredHotplug`, `SettleThreadWakes` | the end of the animation, the replay, the one more handling it may schedule |
| `RecoveryWaits`, `RecoveryTeardown`, `RecoveryReprobe` | the thread of the EDID recovery: the delay and the look at the flag, then the work |
| `ClientReads`, `ClientApplies` | `UpdateModesAndProperties` in `SetPowerMode` |
| `KernelChanges`, `KernelSettles` | the kernel, with and without a uevent |

"Unknown" stands for an unknown connection and for a connected connector that has
no modes yet: both are what the settle pass is for.  An attachment that fails
does so for no lasting reason.  `HotplugsSeen` excepts the connectors in `late`:
those which settled without a uevent, or could not be read, when no further pass
was due.  The exception is not empty: there is one settle pass, a read that
fails in it forgets the connector, and the EDID recovery drops the result of
`UpdateFrontendDisplays` (`ResourceManager.cpp:985`), so what it could not read waits for
the next uevent.

Read against the code: the comment at `ResourceManager.cpp:424-428` says uevents are put
off during the boot animation so that modesets "do not contend" with its page flips.
But `Composer.cpp:48-49` starts the uevent thread and the EDID recovery first, and
`StartEarlyBootAnimation` sets the flag (`DrmHwc.cpp:564`) without the locks of either: a
handling that is past its look at the flag (`ResourceManager.cpp:430`), or a recovery past
its wait, attaches and detaches while the animation draws.  `AnimationUndisturbed`
excepts those that had begun (`PastTheCheck`) and no others; without the exception TLC
finds the overlap.

### DisplayState

State: the members of `HwcDisplay` that decide its mode, power and frames
(`active_config_id_`, `staged_mode_config_id_`, `staged_power_mode_`,
`link_recovery_modeset_required_`, `defer_modeset_until_power_on_`,
`validated_composition_`), the cache of the presented composition, the state of the
flattening controller, and what the kernel's CRTC is set to and shows.  Every
operation runs under the main lock and is one step; the kernel may refuse every
commit.  Config ids are never reused, and whatever replaces the set of configs resets
the ids that refer to it, so a config stands for its mode.

| Action | Code |
|---|---|
| `SetActiveConfig`, `SetActiveConfigs` | `setActiveConfig(WithConstraints)`, the `activeConfig` of a command: queue, or set at once; `setActiveConfigs` for several displays |
| `SetPowerModeOn`, `SetPowerModeOff` | `SetPowerMode` with its deferrals and failures |
| `Validate` | the layer commands and `ValidateStagedComposition`, with `ShortCircuitor` and `NewFrame` |
| `PresentNothing`, `PresentShown`, `PresentRefused`, `PresentUnplanned` | `PresentStagedComposition`, `CreateFrameUpdateCommit` and `ApplyCommitChanges` or the failure |
| `FlattenTimeout` | the thread of `FlatteningController` |
| `LinkTrainingFailed`, `Connected` | `OnLinkTrainingFailed`, `NotifyDisplayConnected` |
| `SetPipeline`, `Detach` | `SetPipeline` with and without a pipeline: `Deinit`, `Init`, the first modeset |

Read against the code.  A mode queued while the display was on, followed by kOff and
by a frame, turns the CRTC on (`DrmAtomicStateManager.cpp:759-769`: a mode in the
args activates it), while `ApplyCommitChanges` (`HwcDisplay.cpp:2017-2021`) leaves
`defer_modeset_until_power_on_` set: the display is lit, and a mode set
from then on is reported as current without being committed, against
`HwcDisplay.h:159`.  `SetActiveConfigs` ignores the deferral altogether
(`HwcDisplay.cpp:427-429`) and turns the display on.  `ActiveIsCommitted` and
`OffStaysOff` except the first case (`lit`) and count the second as the client's
wish; without `lit` TLC finds both violated.

What the client wants of the power is kept nowhere but in `defer_modeset_until_power_on_`
(and in the CRTC's state), and `Deinit` clears that.  A display that was turned off and
then gets another pipeline, by a replug of the primary monitor or the failover to
another tile, is lit by `Init`, or, if that modeset is refused, by a later frame or
hotplug, since `Init` stages the power mode; a headless display does not even note that
it was turned off.  The client has asked for none of this.  The history variable
`forgotten` marks such a display and `OffStaysOff` excepts it, so it speaks of displays
that keep their pipeline; without `forgotten` TLC finds it violated.  An external
display that is unplugged is gone: what is attached next has a new handle, and the
client has never turned it off.

Simplifications: the layer commands and the validation that follows them are one
action, `Validate`; the teardown commit in `Deinit` is taken to succeed, as the code
ignores whether it does.

### LayerPlanning

State: the planner the backend has created; per display the frame it was given, with
the validated types of the layers and the tested plan; the buffer of the client
target; the planes of the frame on the screen.  A layer is a record of what the
planners ask about it (see the module's comment).  A plan or a committed frame that
refers to a plane keeps it bound, so `Holds` is the `weak_ptr` of `BindPipeline` that
has not expired; `used_planes` of the committed frame is all that keeps planes after
a present, since the presented composition that is cached keeps no more than that.

| Action or operator | Code |
|---|---|
| `Validate` with `RangeValidate` | `GenericCompositionPlanner::ValidateDisplay`: required range, extra range, cursor plane, test, fallback |
| `Validate` with `MapperValidate` | `GenericLayerMapperCompositionPlanner::ValidateDisplay`: the five mappers, backend limits, tests, fallback |
| `ValidateFlattened` | both planners for an idle scene or colours planes cannot apply |
| `JoiningPlans`, `LeastAssignments`, `BindPipeline` | `CreateLayerToPlaneJoiningPlan`, `GetUsablePlanes`, `GetCursorPlane` |
| `SetClientTarget` | `ExecuteSetDisplayClientTarget` |
| `Present`, `PresentFails` | `PresentStagedComposition`, `CreateFrameUpdateCommit`, `UpdateClientTargetIfNeeded` |

Which tests the kernel accepts is a choice made per validation; the client target is
taken to suit every plane.  "On the screen" means `committed_frame_state_`: a frame the
kernel accepted, whose flip may still be in flight.  The short circuit
is off here (it is in DisplayState), and the colour transform has no offset.

Read against the code.  (a) `client_z_order` is a layer's z-order but is used as an
index of the plan (`HwcDisplay.cpp:120`; in `SdmCompositionPlanner.cpp:388` it is
one): right only if the client numbers its layers 0, 1, ... with a cursor in front,
as SurfaceFlinger does and the model assumes.  (b) A comment in
`GenericLayerMapperCompositionPlanner.cpp` says the cursor is preserved "as either
cursor or device" in the fallback, but that is done only when it has the cursor
plane.  (c) `CompositionPlanner.h:66-69` asks the caller to keep the tested plan alive,
and line 295 of the mapper planner resets it: another display may take the planes
before the frame is presented.  `Presentable` holds for the range planner only
(`RangePresentable`); for the mappers TLC shows the frame that can no longer be
presented.  (d) `ShortCircuitor` compares neither buffers nor whether a layer has one,
so a composition may be reused that no longer fits; the commit then fails, and the
cache is reset.

### BufferImport

State: the slots of a layer and the layer's own buffer, each with its framebuffer;
the framebuffers of the newest frame and of older ones not cleaned up yet; the
import under way; the importer's cache from GEM handle to framebuffer; the
framebuffer objects, those being destroyed included; the kernel's open handles.
References are not counted: a framebuffer nobody holds after a step (`Held`) is
destroyed by the thread that made the step.  The main lock covers everything but
`CleanupPriorFrames` and `CloseHandle` of a thread that tracks frames.

| Action | Code |
|---|---|
| `NextBuffer`, `CachedBuffer` | `HandleNextBuffer` with and without a buffer: `SetSlot`, `GetFb`, each of which tries the import |
| `ClearSlots`, `DestroyLayer` | `bufferSlotsToClear`, `ClearSlots` of a client target, `DestroyLayer` |
| `Present`, `CleanupPriorFrames`, `Teardown` | `FinishPendingRequest` and `CleanupPriorFrameResources`, as far as they hold framebuffers |
| `ImportFirst`, `Lookup` | `GetOrCreateFbId`: the first handle, the cache and its clean-up |
| `ImportPlane`, `AddFB2`, `AddFB2Fails` | `CreateInstance`, one handle at a time |
| `CloseHandle` | `~DrmFbIdHandle`, one handle at a time |

A buffer is the sequence of the dma-bufs of its planes, no two buffers share
a dma-buf, and a dma-buf that has an open handle is given that handle again, as the
kernel does it.

Read against the code.  `GetOrCreateFbId` is called under the main lock, the
destructor of a framebuffer runs on whichever thread drops the last reference, and the
frame tracking's helper does so without that lock.  So `drmPrimeFDToHandle`
(`DrmFbImporter.cpp:154`) may return a handle that `~DrmFbIdHandle` (lines 99-132) is
about to close, or the helper may drop the framebuffer right after.  The new
framebuffer then holds a handle that is closed, whose number the kernel gives to
another buffer, and a hit by that key shows the wrong image.  The history variable
`raced` marks the race, `FbOfBuffer` excepts it, and the configuration does not
follow it further (`BeforeRace`); without the exception TLC ends with a layer that
shows another buffer.  `NothingLeaks` holds after the race as well.  A smaller matter:
when the second and the third plane are in one dma-buf, but not the first, the
destructor closes their handle twice, although the comment at line 121 says once;
the second call fails, or closes a handle the kernel has given out since.

### Conventions

An operator whose comment begins "Wrong on purpose" is not used by its module: it
is a plausible slip in the operator after it, and putting it in that operator's
place breaks the property PROJECT.json names with it.  History variables are
listed last and marked; no guard reads them.

## The runs

| Run | Instance | Shows |
|---|---|---|
| `frames` | one display, four commits, all callers, slow flips | all properties of the frame tracking, and that it implements `ScanoutLease` |
| `frames_active_configs` | one display, `SetActiveConfigs` and presents | violation, see below |
| `hdcp` | complete, no bounds | all properties of the negotiation |
| `hotplug` | primary and one external handle, two hotplug threads and the registering client, four events | the client ends with the right view unless two flushers hold events of one display |
| `hotplug_ghost` | the same, three events | violation, see below |
| `binding` | an internal connector, two tiles and one more external, two CRTCs | all properties of the binding |
| `binding_promotion` | three connectors, no tiles | violation, see below |
| `probe` | a fixed connector and an MST one with the delayed-EDID quirk, two changes, one failing read, a boot animation at any time or none | all properties of the probing |
| `vsync` | clock up to 4, periods 3 then 2, time passing between a commit and what follows it | all properties of the worker |
| `display` | two configs, four stacks (none, one layer, two of several), complete, no bounds | the config, power and cache of a display agree with the kernel through refused commits, hotplugs and power changes; frames follow modesets; idle scenes are flattened |
| `planning` | two displays that share two overlay planes, one cursor plane, six stacks of up to four layers, both planners | layers in order on planes of their own, cheapest client range, tested plans presentable |
| `import` | two slots, a buffer in one dma-buf and one in two, three handles, four framebuffers, two tracking threads | a framebuffer found or made is that of the buffer, and nothing leaks, up to the race of handles |

Bounds.  `MaxCommits = 4`: an overtaken flip takes one commit on the screen, one in
flight and one more; the fourth lets the helper thread hold a fence that is two
frames old. Joint commits of several displays are covered by the
theorems, which hold for any number of displays. `MaxEvents = 4`: connect, error, disconnect and one
more event can sit in one queue or be spread over two batches; handles do not
interact except through the order of the batch, which two show, and an external
handle is never used again, so one is enough; two threads of `ResourceManager`
and the registering client are all that can hold batches for different reasons.
`MaxTime = 4` with periods 3 and 2: a synthetic wait, a change of period during it,
and the vsync after it fit.
`binding`: with two CRTCs for four connectors every allocation can fail for want of
one, and a failover is possible; two tiles are enough to fail over; six handles
let three updates bind without the primary.  `probe`: an unplug and a replug, or a
state that is unknown and then settles, in every step of a handling; the second
connector is what a uevent does not name.  `display`: two configs tell the one in use
from the one asked for, two stacks of several layers tell the cached one from the new
one.  `planning`: with one more layer than planes every fallback is reached, and two
displays are enough to compete; the stacks hold each kind of layer the planners
distinguish.  `import`: three handles are what both buffers need, so a handle's number
is used again at once; four framebuffers allow one on the screen, one before it, one
in a slot and one more; `CleanupSize = 1` makes the clean-up of the cache happen.
`CHECK_DEADLOCK FALSE` in every run but `binding`, `display`, `planning` and `import`: a bounded history ends, an HDCP controller or
a worker is destroyed, and the composer process may exit.

Symmetry: the client target's buffers in `planning`, the slots, handles and framebuffers
in `import`; only invariants are checked there.

Fairness.  An operation that has begun is executed to its end by the thread that
holds the main lock (its waits are separate conditions); the helper threads are
scheduled by the system; the kernel latches every flip it accepted and time
passes; a thread that handled a hotplug goes on to flush.  Nobody is obliged to
begin: no frame has to be presented, no negotiation started, no link
authenticated, no client has to register.  In `display` a client answers a refresh it
was asked for (weak fairness of `Answer`) and presents what it has validated (strong
fairness, since a new pipeline may come between the two calls, but not every time).
Liveness is stated so that it holds
without such events: `RetiredReleased` is the helper thread's reason to exist,
`AttemptConcluded` does not wait for the retry frame but for the request for it.

## What the violations show

`frames_active_configs`.  `CommitFrame` builds the request from a copy of the
args from which a redundant power mode has been removed, and books the commit
with the caller's.  For the modeset of `SetActiveConfigs` on a display that is
already on, the kernel commit is non-blocking but booked as synchronous:
`frame_objects_` and `last_present_fence_` are emptied while the old frame is on
the screen and the flip in flight.  `ScanoutHeld` and `ScanoutLease` call this
`overdue` and hold in all other cases.

`hotplug_ghost`.  Nothing orders two flushers: one swaps out a connect, the other
the disconnect that follows, and the client may hear them the other way round,
which leaves a display it will never be told about again.  The comment at
`DrmHwc.cpp:475-478` promises the contrary; it holds within a batch.  `ClientKnows`
says that this is the only way the view of the client goes wrong: a handle of
which two flushers hold events at once is in `crossed`.

`binding_promotion`.  When the primary monitor is unplugged,
`FinalizeDisplayBinding` unbinds another display to make it the primary one, and
ignores whether `BindDisplay` succeeds.  If it does not (its modes were lost, say,
while the connector stayed connected), `ResourceManager` still has the connector as
attached: nobody tries again until the monitor is unplugged, and the CRTC stays
taken.  The comment at `ResourceManager.cpp:693-696` promises that a connector that
cannot be bound is left unattached for a retry.  `AttachedIsBound` and `PrimaryTaken`
say that this is the only way the two maps disagree.

## What is proved

For every set of displays, callers and bound (`ConstantsAssumption` of
FrameTracking), in `FrameTracking_proofs`: `TypeOK`, `ScanoutHeld`,
`CommitNeverOvertakes`, `HelperFenceCurrent`.  None is inductive alone.  The
inductive invariant `IInv` adds

- `CallInv`: which args, displays and steps go together in a commit (`Shape` are
  the args callers really pass);
- `WaitInv`: the fence `WaitLastFrame` waits for is still recorded or was cleaned
  up by the helper thread meanwhile, and every display already visited, at the
  ioctl all of them, has none;
- `CountInv`: neither thread has tracked more than was staged, and no more was
  staged than the kernel accepted;
- `HelperInv`: a helper that has not been overtaken (`htracking > tracked`) holds
  the fence that is recorded;
- `ScanInv`: without a flip in flight the frame on the screen is the newest entry
  of `objects`; with one, the frame to be latched is the newest, the fence of the
  flip is the one recorded, and the frame on the screen is still referenced
  (unless overdue); between the ioctl and `FinishPendingRequest` the request takes
  the place of the newest entry.

The heart of the argument: a thread cleans up only when it waited for the fence
that is still recorded, so once that fence has signalled no flip is in flight and
the newest entry, which the clean-up keeps, is all the kernel uses; and a commit
reaches the ioctl only when no fence is recorded, so there is at most one flip.

Its last section proves that `FrameTracking` implements `ScanoutLease`: a
display's share of each step is `Program`, `Latch`, `Release` or nothing; that a
`Release` takes nothing the kernel uses follows from `ScanoutHeld` in the next
state.

In `Notification_proofs`, the components whose threads tell the client off the lock.  For
HdcpController, with no assumptions: `HdcpTypeOK`, `EnabledAsAsked`,
`InfeasibleAfterBoth`, `RetryEndsWithType0`, `TerminatedClientKnows`.  The inductive invariant ties the set
of content types tried since the start to the state and `wasRetry`
(`AttemptInv`), and the commit under way to the state (`CommitInv`): while the main
thread is between building and committing, the state stays desired or retry,
because the thread leaves those alone.  `TerminateInv` says that once HDCP is
terminated nothing that tells the client otherwise can start.

For HotplugEvents, with any displays, threads and number of events: `TypeOK`, `ClientKnows`,
`ErrorsOfConnected`.  First come lemmas on sequences, because the queue is not bounded:
`AmongIs` (what a filter keeps, and that it keeps the order), `AddIs`, `TwoPassesIs`, `TailIs`,
each in terms of which events are in a queue (`In`) and whether each link error in it
is behind its connection (`Led`).  The invariant then takes one display at a time
(`HandleInv`), as long as no two flushers have crossed on it, so that its events are
in the queue and in at most one batch (`OneBatch`):

- `BoundInv`: a bound display has no disconnect anywhere, and its connect was told, is
  queued or is being sent;
- `GoneInv`: one that is gone has no connect or link error left in the queue, its
  disconnect was told, is queued or is being sent, and whoever still holds a connect of
  it has it followed by a disconnect in the queue;
- `SetInv`: `connected_displays_` is what the client was told, but for the call under way;
- `ErrorInv`: a link error is behind its connection, which was told already, or comes
  first in the same queue or batch, or is in a batch under way.

A step lemma says what each action does to the display it is about; `Undisturbed`
covers all others.  The swap of the queue needs the crossing: without it a connect in
one batch can come after the disconnect in another, which is what `hotplug_ghost` shows.

In `HotplugProbe_proofs`, for any connectors, any number of changes and failed reads:
`TypeOK`, `HotplugsSeen`, `TargetsAlive`, and the action properties `NeverOlder` and
`AnimationUndisturbed`.  `SeenInv` carries the first: at every step a connector's object
is right, or a handling is still to begin that will select it (`Due`, `Named`), or the
handling under way has it still to read, or has read what the kernel has, or will be
followed by another (`Again`), or it is one of those that settled too late to be
seen.  It rests on `PlanInv` (which connectors a handling selected, has read and may
apply), `VersionInv` (what is read later is newer, unless the target was overtaken),
`ReadInv` (what a read off the lock has found is what the kernel has, or will be read
again), `BootInv` (uevents are put off only while the animation runs, and replayed after it) and `AttachInv` (what is
attached and no longer good will be looked at).

In `VSyncTracking_proofs`, for any periods and any length of the run: `TypeOK`,
`CallbackStops`, `PhaseReset`, `VsyncServed` and the action property `VsyncsInOrder`.  `TimeInv`
says that nothing recorded lies in the future, that neither a commit under way nor a
fence is older than the mode of the current period, that a wait ends after the vsync told
last, and that only a wait which was under way at a change of period ends before it; `CallbackInv` that a vsync about to be told against the client's wish is
the first.  The lemma `PhasedVSyncLater` (the answer of `GetPhasedVSync` is later
than the time it is asked for) carries the synthetic waits.  `ServedInv` says that
`enabled_` is what the two clients of the worker want unless `UpdateVSyncControl` is the
next critical section of the operation under way, and that the thread sleeps only while
it is not enabled; `Steers` says it of the sections still to run, whatever operation
they are of.

In `DisplayBinding_proofs`, for any connectors, tiles and number of CRTCs: `TypeOK`
(which says that the handles stay within the bound), `BindingsAgree`,
`AttachedIsBound`, `PrimaryTaken`, `AnnouncedExist`, `OneTileShown`, `ConnectedShown`, and the
action property `InternalFirst`.  The operations of
`DrmHwc` have a lemma each: they keep `Sound`, that is, displays and handles
inverse but for the connector being detached (whose display may have lost its
pipeline in a failover that failed), handles fresh, events told.  The rest of the
invariant ties `attached` to the handles, the tiles to `attached`, and counts the
handles an update may still give out.  `ShownInv`, about pass 3, says that all that is
attached is connected and that every connector the pass is through with is `Settled`:
attached, failed, shown by a sibling, or without a CRTC.  That a CRTC once in use stays
in use needs `PipelinesAttached` (no display keeps a pipeline alive that is not
attached).  The proof of `InternalFirst` found that its first form, without the
exception for a tile whose sibling is attached, was too strong.

The last section proves `HandlesNeverReused`, that DisplayBinding implements
`DisplayLife`.  `Later` compares two records of `DrmHwc`: what is no longer announced
leaves a handle that has been given out, what is newly announced has the primary handle
or one above `last_display_handle_`.  Each operation leads to a later record, and
`LaterComposes` carries that through `FinalizeDisplayBinding`, which does up to four of
them in one step.

In `DisplayState_proofs`, for any configs and stacks: `TypeOK`, `CachedIsShown`,
`ActiveIsCommitted`, `OffStaysOff`.  The three need each other and four facts more: a
headless display has no CRTC and no cache (`HeadlessInv`); what is active and staged
belongs to the current set of configs, and one of them is there (`ConfigInv`); a
deferral means that the CRTC is off or the display lit, a mode queued under it was
queued before the client turned the display off, and a display that knows it was turned
off defers its modes and has no power mode staged (`DeferInv`); what was validated was validated for the stack the layers form
(`StackInv`).

In `LayerPlanning_proofs`, for any displays, planes, stacks, kernel answers and
planners: `TypeOK`, `PlanesExclusive`, `RangePresentable`, `CheapestClientRange`, `ShownInOrder`.  `PlanesExclusive` follows
from `StepOf`: after a call for a display it holds planes it held before or could
bind, and the others hold what they held.  `RangePresentable` from `DrawnWithoutPlan`:
the range planner leaves a frame without a plan only if the client draws all of
it, which the primary plane can always show.

`CheapestClientRange` holds for stacks of any length.  `PixOps` is a recursive function;
that it exists, takes its steps, is a natural number and adds up over adjacent ranges
(`PixOpsStep`, `PixOpsSplit`, `PixOpsWithin`) is proved by induction in the form the
provers can use: over a set that contains 0 and successors, from the least element of
its complement (`LeastNatural`, `InductionOverSet`, on `WFMin`).  The search tries
only the smallest windows around the required range; the proof shows that every
range that fits contains one of them.

`ShownInOrder` needs what both planners guarantee of types and plans, on every path
through tests and fallbacks: `WellTyped` (nothing the planes show lies between two layers
the client draws, so that one target can stand for those), `Shaped` (a plan has the
layers of planes in their order, one slot for the target where the client's first layer
is, the cursor last) and `DrawsFirst` (when a plan is kept, planes show every layer behind
the first one the client draws, so that `client_z_order` is the target's slot).  `RankUp`, `RankOnto` and `ItemAtIs` say that counting gives
the elements of a set in their order; `ShapedShows` turns that into the order on the
screen; `PresentedPlan` adds that `UpdateClientTargetIfNeeded` has put the latest buffer in
every slot of the target.

In `BufferImport_proofs`, for any buffers, slots, handles and tracking threads:
`TypeOK`, `FbOfBuffer`, `NothingLeaks`.  Before and after the race alike, whatever
the composer refers to is alive (`HeldInv`), what the cache finds is alive, has
the handle it is found by and all its handles still to close (`Found`), every open
handle belongs to the import or to a framebuffer (`OwnedInv`), and no dma-buf has two
handles.  Until the race (`CleanInv`), the handles of a live framebuffer are open for
the dma-bufs of its buffer and it is found by the first of them; what is still to be
closed is no handle of a live framebuffer or of the import; and the handles of the
import are those of its buffer.  Two live framebuffers then share no handle, so that
closing one never takes a handle from another, and a hit shows the buffer of the
import because no two buffers share a dma-buf.  The run stops at the race; the
proof goes on, and shows that `NothingLeaks` survives it.

Only model-checked: the liveness properties (`RetiredReleased`, `JoinReturns`,
`AttemptConcluded`, `ClientLearns`, `RealFrameFollows`, `IdleFlattened`), whose fairness and
ENABLED are beyond the prover.  Every safety invariant and action property of a passing
run is a theorem (`HandlesNeverReused` is a theorem only; no run lists it), and every theorem of a specification names only the assumptions on
its constants.

## What is not modelled

Property values of a commit (modes, colour, HDR, blobs), test-only commits as far as
they change no state of the frame tracking, and the writeback fence.  The 500 ms and
30 s timeouts are choices (`FenceTimeout`).  `SlruCache` is sequential, and its unit
tests reach its bounds.  Reads of kernel objects, vendor buffer metadata, statistics,
colour arithmetic, command parsing, the drawing of the boot animation and the SDM
backend (an adapter to a library that is not in the repository) have no protocol of
their own.  A third of the repository's code is tests and fakes, and most of the rest
is of those kinds; that is why the map covers a small share of its lines.
What remains with a protocol is in the plan.

## The plan

1. Done: FrameTracking with ScanoutLease; HdcpController; HotplugEvents; VSyncTracking.
2. Done: DisplayBinding; HotplugProbe.
3. Done: DisplayState (configs, power, frames, composition cache, flattening);
   LayerPlanning (planners, mappers, planes); BufferImport.
4. Done: proofs of all safety invariants and action properties of these modules.
5. Left to model: the free changes of HotplugEvents replaced by DisplayBinding's updates;
   virtual displays; `DeInit`, which cancels and joins the threads of HotplugProbe;
   DisplayState driving FrameTracking's callers.
6. Done: DisplayBinding implements DisplayLife.
   Left to prove: that each update of DisplayBinding schedules the events HotplugEvents
   allows it, in that order, as a refinement with the queue.

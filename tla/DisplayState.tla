---------------------------- MODULE DisplayState ----------------------------
(***************************************************************************)
(* HwcDisplay: the modes, the power and the frames of one display, and the *)
(* two parts that decide how its frames are composed, the cache of the     *)
(* presented composition and the flattening controller.                    *)
(*                                                                         *)
(* Every operation runs under the composer's main lock and is one step.    *)
(* What is hard here is their order, the commits the kernel refuses, and   *)
(* the flattening controller's thread, which takes no part in that lock.   *)
(*                                                                         *)
(* A config stands for its mode.  The ids are never used twice, and those  *)
(* held in active and staged are always of the current set, because        *)
(* whatever replaces the set resets both.                                  *)
(*                                                                         *)
(* A stack of layers is a value: what ValidationRequestContext compares.   *)
(* How the planner composes it is either "planes", with layers scanned out *)
(* by the display controller, or "client", one client target.              *)
(***************************************************************************)
EXTENDS Naturals

CONSTANTS
  Configs,         \* modes of the connector, all of one config group
  Fake,            \* the config of a headless display
  None,            \* no config, no composition
  Empty,           \* the stack without layers and without a client target
  Singles,         \* stacks of one layer
  Manies           \* stacks of several layers

Stacks == {Empty} \cup Singles \cup Manies

ASSUME ConstantsAssumption ==
  /\ Configs # {} /\ None \notin Configs \cup {Fake} /\ Fake \notin Configs
  /\ Empty \notin Singles \cup Manies /\ Singles \cap Manies = {}
  /\ None \notin Stacks

VARIABLES
  primary,   \* handle_ = kPrimaryDisplay; any other display is external
  attached,  \* it has a pipeline; a primary display without one is headless
  active,    \* active_config_id_
  staged,    \* staged_mode_config_id_
  stagedOn,  \* staged_power_mode_ = kOn
  recovery,  \* link_recovery_modeset_required_
  defer,     \* defer_modeset_until_power_on_
  \* frames
  stack,     \* layers_, as the client left them
  types,     \* the layers' validated types
  validated, \* validated_composition_
  context,   \* last_presented_composition_.requested_context_
  cached,    \* last_presented_composition_.composition_
  idle,      \* the flattening controller's state_
  \* the kernel
  crtc,      \* the CRTC is active
  mode,      \* its MODE_ID
  screen,    \* what it scans out: nothing, no planes, a buffer made for a modeset,
             \* or a frame
  shown,     \* that frame
  \* the client and history
  refresh,   \* a refresh the client has not answered
  off,       \* turned off, and not turned on by the client since
  lit,       \* a frame with a queued mode has turned on the display that was off
  forgotten, \* the display lost the pipeline that it was turned off with
  failed     \* the last frame was not shown

config == <<primary, attached, active, staged, stagedOn, recovery, defer>>
cache == <<context, cached>>
frame == <<stack, types, validated, cache, idle>>
kernel == <<crtc, mode, screen, shown>>
power == <<off, lit, forgotten>>
vars == <<config, frame, kernel, refresh, power, failed>>

Types == {"planes", "client"}

Composition == [stack : Stacks, types : Types, flattened : BOOLEAN]
Frame(c) == [stack |-> c.stack, types |-> c.types]
NoFrame == [stack |-> Empty, types |-> "client"]

ConfigTypeOK ==
  /\ primary \in BOOLEAN /\ attached \in BOOLEAN
  /\ active \in Configs \cup {Fake, None} /\ staged \in Configs \cup {Fake, None}
  /\ stagedOn \in BOOLEAN /\ recovery \in BOOLEAN /\ defer \in BOOLEAN

FrameTypeOK ==
  /\ stack \in Stacks /\ types \in Types
  /\ validated \in Composition \cup {None}
  /\ context \in Stacks \cup {None} /\ cached \in Composition \cup {None}
  /\ idle \in {"disabled", "active", "triggered", "flattened"}

KernelTypeOK ==
  /\ crtc \in BOOLEAN /\ mode \in Configs \cup {None}
  /\ screen \in {"off", "blank", "modeset", "frame"}
  /\ shown \in [stack : Stacks, types : Types]

HistoryTypeOK ==
  /\ refresh \in BOOLEAN /\ failed \in BOOLEAN
  /\ off \in BOOLEAN /\ lit \in BOOLEAN /\ forgotten \in BOOLEAN

TypeOK == ConfigTypeOK /\ FrameTypeOK /\ KernelTypeOK /\ HistoryTypeOK

Init ==
  /\ primary \in BOOLEAN /\ attached = FALSE
  /\ active = Fake /\ staged = None
  /\ stagedOn = FALSE /\ recovery = FALSE /\ defer = FALSE
  /\ stack = Empty /\ types = "client" /\ validated = None
  /\ context = None /\ cached = None /\ idle = "disabled"
  /\ crtc = FALSE /\ mode = None /\ screen = "off" /\ shown = NoFrame
  /\ refresh = FALSE /\ failed = FALSE
  /\ off = FALSE /\ lit = FALSE /\ forgotten = FALSE

(* Operators whose comment begins "Wrong on purpose" are no part of the    *)
(* specification: each is a slip the code could have had in the operator   *)
(* after it, kept to show which property notices.                          *)

(* GetLastRequestedConfig.                                                 *)
Requested == IF staged # None THEN staged ELSE active

(* The planes show no frame.                                               *)
ShowsNoFrame(what) == screen' = what /\ shown' = NoFrame

(* PresentedCompositionCache::Reset.                                       *)
CacheReset == context' = None /\ cached' = None

(* Wrong on purpose: the frame before the modeset is still taken for the   *)
(* one on the screen.                                                      *)
ModesetKeepsCache == UNCHANGED cache

(* A modeset shows a dumb buffer, or a layer it finds.                     *)
ModesetResetsCache == CacheReset

(* Wrong on purpose: the dumb buffer stays until the client draws again.   *)
ModesetAsksNothing == UNCHANGED refresh

ModesetAsksRefresh == refresh' = TRUE

(* A full modeset to config c that the kernel accepts.                     *)
Modeset(c) ==
  /\ active' = c /\ staged' = None /\ stagedOn' = FALSE
  /\ crtc' = TRUE /\ mode' = c /\ ShowsNoFrame("modeset")
  /\ ModesetResetsCache /\ ModesetAsksRefresh

(* SetConfig, given defer_modeset_until_power_on_ and whether the kernel   *)
(* accepts the commit; retry says whether the caller stages the power mode *)
(* when it does not.  A queued config is dropped before the commit.        *)
SetConfig(c, deferred, ok, retry) ==
  \/ /\ ~attached
     /\ active' = c /\ staged' = None /\ stagedOn' = FALSE
     /\ recovery' = FALSE /\ defer' = FALSE
     /\ UNCHANGED <<cache, kernel, refresh>>
  \/ /\ attached /\ deferred
     /\ active' = c /\ staged' = None /\ defer' = TRUE
     /\ UNCHANGED <<stagedOn, recovery, cache, kernel, refresh>>
  \/ /\ attached /\ ~deferred /\ ok
     /\ Modeset(c) /\ recovery' = FALSE /\ defer' = FALSE
  \/ /\ attached /\ ~deferred /\ ~ok
     /\ staged' = (IF active # None THEN None ELSE staged)
     /\ stagedOn' = (stagedOn \/ retry) /\ defer' = FALSE
     /\ UNCHANGED <<active, recovery, cache, kernel, refresh>>

-----------------------------------------------------------------------------
(* The client's requests.                                                  *)

(* Does the client know of the display?                                    *)
Exists == attached \/ primary
Known == IF attached THEN Configs ELSE {Fake}

(* QueueConfig's condition.                                                *)
Queueable == ~recovery /\ ~defer /\ (attached => crtc) /\ active # None

(* setActiveConfig, setActiveConfigWithConstraints and the activeConfig    *)
(* of a command: the mode is queued for a frame to come if that can be,    *)
(* and set at once otherwise.                                              *)
SetActiveConfig(c, ok) ==
  /\ Exists /\ c \in Known
  /\ \/ /\ Queueable
        /\ staged' = c
        /\ UNCHANGED <<active, stagedOn, recovery, defer, cache, kernel, refresh>>
     \/ ~Queueable /\ SetConfig(c, defer, ok, FALSE)
  /\ UNCHANGED <<primary, attached, stack, types, validated, idle, power, failed>>

(* setActiveConfigs, for several displays or when the mode cannot be       *)
(* queued: one commit for all, then ApplyCommitChanges for each.  It turns *)
(* on a display that is off.                                               *)
SetActiveConfigs(c, seamless) ==
  /\ attached /\ c \in Configs
  /\ Modeset(c)
  /\ recovery' = (recovery /\ seamless) /\ defer' = FALSE
  /\ off' = FALSE /\ lit' = FALSE /\ forgotten' = FALSE
  /\ UNCHANGED <<primary, attached, stack, types, validated, idle, failed>>

(* SetPowerMode(kOn); plugged is what the connector reports.               *)
PowerOn(plugged, ok) ==
  \/ /\ ~attached
     /\ stagedOn' = FALSE
     /\ UNCHANGED <<active, staged, recovery, defer, cache, kernel, refresh>>
  \/ /\ attached /\ crtc /\ active # None
     /\ stagedOn' = FALSE /\ defer' = FALSE
     /\ UNCHANGED <<active, staged, recovery, cache, kernel, refresh>>
  \/ /\ attached /\ ~(crtc /\ active # None) /\ ~plugged
     /\ stagedOn' = TRUE /\ defer' = FALSE
     /\ UNCHANGED <<active, staged, recovery, cache, kernel, refresh>>
  \/ /\ attached /\ ~(crtc /\ active # None) /\ plugged
     /\ SetConfig(Requested, FALSE, ok, TRUE)

SetPowerModeOn(plugged, ok) ==
  /\ Exists
  /\ PowerOn(plugged, ok)
  /\ off' = FALSE /\ forgotten' = FALSE
  /\ UNCHANGED <<primary, attached, stack, types, validated, idle, lit, failed>>

(* Wrong on purpose: a mode set while the display is off turns it on.      *)
OffForgets == UNCHANGED defer

(* Modes are only kept until the display is turned on.                     *)
OffDefers == defer' = TRUE

(* SetPowerMode(kOff): a teardown, which may fail.  A display that is off  *)
(* in the kernel too is only marked.  A headless display answers that it   *)
(* is done and keeps no note of it.                                        *)
SetPowerModeOff(ok) ==
  /\ Exists
  /\ stagedOn' = FALSE
  /\ \/ /\ ~attached
        /\ off' = TRUE /\ forgotten' = TRUE
        /\ UNCHANGED <<defer, cache, kernel, lit>>
     \/ /\ attached /\ ok
        /\ crtc' = FALSE /\ mode' = None /\ ShowsNoFrame("off")
        /\ OffDefers /\ CacheReset
        /\ off' = TRUE /\ lit' = FALSE /\ forgotten' = FALSE
     \/ /\ attached /\ ~ok
        /\ UNCHANGED <<defer, cache, kernel, power>>
  /\ UNCHANGED <<primary, attached, active, staged, recovery, stack, types, validated,
                 idle, refresh, failed>>

-----------------------------------------------------------------------------
(* Frames.                                                                 *)

(* Wrong on purpose: the frame that answers the trigger counts as new.     *)
NewFrameRestarts == "active"

(* NewFrame and DisableFlattening.                                         *)
NewFrame == IF idle = "triggered" THEN "flattened" ELSE "active"

(* What the planner may answer for stack s: all layers for the client when *)
(* the scene is idle or the composition cannot be tested.                  *)
Planned(s, state) ==
  LET flat == [stack |-> s, types |-> "client", flattened |-> TRUE]
  IN IF state \in {"triggered", "flattened"} THEN {flat}
     ELSE {flat} \cup {[stack |-> s, types |-> t, flattened |-> FALSE] : t \in Types}

(* ShortCircuitor: the composition cached was made for the same stack and  *)
(* was not flattened.  The planner asks only if it need not flatten.       *)
Reusable(s, state) ==
  /\ state \notin {"triggered", "flattened"}
  /\ cached # None /\ ~cached.flattened
  /\ context = s

(* The layer commands, then ValidateStagedComposition.  Without layers     *)
(* nothing is validated.                                                   *)
Validate(s) ==
  /\ Exists
  /\ stack' = s /\ refresh' = FALSE
  /\ \/ /\ ~attached \/ s = Empty
        /\ validated' = None
        /\ UNCHANGED <<types, cache, idle>>
     \/ /\ attached /\ s # Empty
        /\ idle' = (IF s \in Singles THEN "disabled" ELSE NewFrame)
        /\ \/ /\ Reusable(s, idle')
              /\ validated' = cached
              /\ UNCHANGED cache
           \/ /\ validated' \in Planned(s, idle')
              /\ context' = s /\ cached' = None
        /\ types' = validated'.types
  /\ UNCHANGED <<config, kernel, power, failed>>

(* PresentStagedComposition's composition: what was validated, or the      *)
(* layers' types of the last time.                                         *)
Staged == IF validated # None THEN validated
          ELSE [stack |-> stack, types |-> types, flattened |-> FALSE]

(* CreateFrameUpdateCommit's mode: a queued one whose time has come, or    *)
(* the one the display is to be turned on with.                            *)
FrameMode(due) ==
  IF ~recovery /\ active # None /\ staged # None /\ due THEN staged
  ELSE IF stagedOn THEN Requested ELSE None

(* PresentStagedComposition for a display without a pipeline or layers.    *)
PresentNothing ==
  /\ Exists
  /\ ~attached \/ stack = Empty
  /\ failed' = FALSE
  /\ UNCHANGED <<config, frame, kernel, refresh, power>>

Presents == attached /\ stack # Empty

(* Wrong on purpose: a frame that turns the display on leaves its config.  *)
ModeForgotten(m) == active

ModeApplied(m) == IF m # None THEN m ELSE active

(* The commit succeeds: ApplyCommitChanges.  The kernel activates a CRTC   *)
(* only with a mode.                                                       *)
PresentShown(due) ==
  LET m == FrameMode(due)
  IN /\ Presents /\ (crtc \/ m # None)
     /\ crtc' = TRUE /\ mode' = (IF m # None THEN m ELSE mode)
     /\ screen' = "frame" /\ shown' = Frame(Staged)
     /\ active' = ModeApplied(m)
     /\ staged' = (IF m # None THEN None ELSE staged)
     /\ stagedOn' = FALSE
     /\ defer' = (defer /\ ~stagedOn)
     /\ recovery' = (recovery /\ ~stagedOn)
     /\ IF stagedOn
        THEN CacheReset /\ refresh' = TRUE
        ELSE /\ cached' = (IF context # None THEN Staged ELSE None)
             /\ UNCHANGED <<context, refresh>>
     /\ validated' = None /\ failed' = FALSE
     /\ lit' = (lit \/ (off /\ ~forgotten /\ ~stagedOn))
     /\ UNCHANGED <<primary, attached, stack, types, idle, off, forgotten>>

(* The commit fails.  A queued mode is dropped, and the frame asked for    *)
(* again; the sink tries to disable the planes of an ordinary frame.       *)
PresentRefused(due, cleaned) ==
  LET m == FrameMode(due)
      drops == m # None /\ active # None /\ m = staged
  IN /\ Presents
     /\ IF crtc /\ m = None /\ ~stagedOn /\ cleaned
        THEN ShowsNoFrame("blank") ELSE UNCHANGED <<screen, shown>>
     /\ staged' = (IF drops THEN None ELSE staged)
     /\ refresh' = (refresh \/ drops)
     /\ CacheReset
     /\ validated' = None /\ failed' = TRUE
     /\ UNCHANGED <<primary, attached, active, stagedOn, recovery, defer, stack, types,
                    idle, crtc, mode, power>>

(* The layers cannot be joined to the planes, or have no buffer.           *)
PresentUnplanned ==
  /\ Presents
  /\ CacheReset
  /\ validated' = None /\ failed' = TRUE
  /\ UNCHANGED <<config, stack, types, idle, kernel, refresh, power>>

Present ==
  \/ PresentNothing
  \/ \E due \in BOOLEAN : PresentShown(due)
  \/ \E due, cleaned \in BOOLEAN : PresentRefused(due, cleaned)
  \/ PresentUnplanned

(* The flattening controller's thread: no frame for a second.              *)
FlattenTimeout ==
  /\ attached /\ idle = "active"
  /\ idle' = "triggered" /\ refresh' = TRUE
  /\ UNCHANGED <<config, stack, types, validated, cache, kernel, power, failed>>

-----------------------------------------------------------------------------
(* The connector and its pipeline.                                         *)

(* OnLinkTrainingFailed.  Nothing is done twice for the same modes.        *)
LinkTrainingFailed(preferred) ==
  /\ attached
  /\ active' = None /\ staged' = preferred /\ recovery' = TRUE
  /\ UNCHANGED <<primary, attached, stagedOn, defer, frame, kernel, refresh, power, failed>>

(* NotifyDisplayConnected: an enable that failed is tried again.           *)
Connected(plugged, ok) ==
  /\ attached /\ ~crtc /\ stagedOn /\ ~defer
  /\ PowerOn(plugged, ok)
  /\ UNCHANGED <<primary, attached, stack, types, validated, idle, power, failed>>

(* Deinit, and what is new in Init.  A queued config is dropped, and with  *)
(* the deferral goes the only note that the client turned the display off. *)
Reinit ==
  /\ validated' = None /\ CacheReset /\ idle' = "disabled"
  /\ recovery' = FALSE /\ staged' = None
  /\ lit' = FALSE
  /\ UNCHANGED <<primary, types, failed>>

(* SetPipeline with a pipeline.  The modeset of an external display that   *)
(* is new waits for the client; otherwise the config it had before, then   *)
(* the preferred one, is set at once, whether the client had turned the    *)
(* display off or not.                                                     *)
SetPipeline(preferred, kept, ok) ==
  /\ attached' = TRUE
  /\ Reinit /\ UNCHANGED <<stack, off>>
  /\ forgotten' = off
  /\ LET previous == IF attached /\ active # None THEN {active} ELSE {}
         initial == IF kept THEN previous ELSE {}
     IN \/ /\ ~primary /\ previous = {}
           /\ active' = preferred /\ stagedOn' = TRUE /\ defer' = TRUE
           /\ crtc' = FALSE /\ mode' = None /\ ShowsNoFrame("off")
           /\ UNCHANGED refresh
        \/ /\ primary \/ previous # {}
           /\ ok /\ defer' = FALSE /\ stagedOn' = FALSE
           /\ active' \in initial \cup {preferred}
           /\ crtc' = TRUE /\ mode' = active' /\ ShowsNoFrame("modeset")
           /\ refresh' = TRUE
        \/ /\ primary \/ previous # {}
           /\ ~ok /\ defer' = FALSE /\ stagedOn' = TRUE
           /\ active' = preferred
           /\ crtc' = FALSE /\ mode' = None /\ ShowsNoFrame("off")
           /\ UNCHANGED refresh

(* SetPipeline without a pipeline, or with one that has no modes: a        *)
(* primary display goes headless, another one is gone.  What is attached   *)
(* next is then a new display, which the client never turned off.          *)
Detach ==
  /\ attached /\ attached' = FALSE
  /\ Reinit /\ stack' = (IF primary THEN stack ELSE Empty)
  /\ off' = (primary /\ off) /\ forgotten' = off'
  /\ active' = Fake /\ stagedOn' = FALSE /\ defer' = FALSE
  /\ crtc' = FALSE /\ mode' = None /\ ShowsNoFrame("off")
  /\ UNCHANGED refresh

-----------------------------------------------------------------------------

Client ==
  \/ \E c \in Configs \cup {Fake}, ok \in BOOLEAN : SetActiveConfig(c, ok)
  \/ \E c \in Configs, seamless \in BOOLEAN : SetActiveConfigs(c, seamless)
  \/ \E plugged, ok \in BOOLEAN : SetPowerModeOn(plugged, ok)
  \/ \E ok \in BOOLEAN : SetPowerModeOff(ok)
  \/ \E s \in Stacks : Validate(s)
  \/ Present

Hotplug ==
  \/ \E c \in Configs : LinkTrainingFailed(c)
  \/ \E plugged, ok \in BOOLEAN : Connected(plugged, ok)
  \/ \E c \in Configs, kept, ok \in BOOLEAN : SetPipeline(c, kept, ok)
  \/ Detach

Next == Client \/ Hotplug \/ FlattenTimeout

(* A client answers a refresh with a frame, and presents what it has       *)
(* validated: a new pipeline, which forgets the validation, does not come  *)
(* between the two calls every time.  The controller's thread is           *)
(* scheduled.                                                              *)
Answer == refresh /\ Validate(stack)
PresentValidated == validated # None /\ Present

Fairness ==
  /\ WF_vars(Answer)
  /\ SF_vars(PresentValidated)
  /\ WF_vars(FlattenTimeout)

Spec == Init /\ [][Next]_vars /\ Fairness
-----------------------------------------------------------------------------
(* Properties.                                                             *)

(* The composition the short-circuit may reuse is the one on the screen,   *)
(* made for the stack it is compared with: no modeset, power change,       *)
(* failed frame or new pipeline has come between                           *)
(* (HwcDisplay::last_presented_composition_).                              *)
CachedIsShown ==
  cached # None =>
    /\ crtc /\ screen = "frame" /\ shown = Frame(cached)
    /\ cached.stack = context

(* While the CRTC is active, the config the display reports as active is   *)
(* the mode the kernel has, unless a failed link training asks for a new   *)
(* modeset: GetCurrentConfig is "the config representing the mode that has *)
(* been committed to KMS" (HwcDisplay.h:159).  Excepted is a display that  *)
(* was lit: its modes are only kept, as if it were still off.              *)
ActiveIsCommitted == attached /\ crtc /\ ~recovery /\ ~lit => active = mode

(* A display the client turned off stays off until the client turns it on  *)
(* or sets its mode with setActiveConfigs, whatever modes it asks for,     *)
(* whatever enable failed before and whatever link fails, while the        *)
(* display keeps its pipeline (HwcDisplay::SetPowerMode).  Excepted are a  *)
(* mode queued before, which lights the display with a frame presented to  *)
(* it, and a display that lost the pipeline, by a replug or the failure of *)
(* a tile: the next pipeline, or a frame or hotplug after it, lights it    *)
(* unasked.                                                                *)
OffStaysOff == off /\ ~lit /\ ~forgotten => ~crtc /\ screen = "off"

(* The buffer a modeset shows is replaced: a frame of the client follows,  *)
(* or one was refused, or the client has no layers.                        *)
RealFrameFollows ==
  screen = "modeset" ~> screen # "modeset" \/ failed \/ stack = Empty

(* Steps in which nobody but the controller's thread and a client that     *)
(* answers it does anything.                                               *)
Undisturbed == FlattenTimeout \/ Answer \/ PresentValidated

(* A scene that is left alone ends up flattened, and stays so: the frame   *)
(* that answers the trigger does not count as activity, and a trigger lost *)
(* to a frame under way is followed by another                             *)
(* (FlatteningController).                                                 *)
IdleFlattened ==
  <>[][Undisturbed]_vars =>
    <>[](attached /\ stack \in Manies /\ screen = "frame" /\ ~failed
           => shown.types = "client")
=============================================================================

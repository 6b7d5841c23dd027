------------------------- MODULE DisplayState_proofs -------------------------
(***************************************************************************)
(* Proofs about DisplayState, for every set of modes and of layer stacks.  *)
(***************************************************************************)
EXTENDS DisplayState, TLAPS

(* A display without a pipeline has nothing in the kernel, nothing         *)
(* deferred and nothing cached, and does not know that it was turned off.  *)
HeadlessInv ==
  ~attached => ~crtc /\ screen = "off" /\ ~defer /\ ~lit /\ (off => forgotten)
               /\ context = None /\ cached = None /\ validated = None

(* With a pipeline there is always a config to be turned on with.          *)
ConfigInv ==
  attached => /\ active \in Configs \cup {None}
              /\ staged \in Configs \cup {None}
              /\ active = None => staged # None

(* A deferred modeset means that the CRTC is off, and what is queued then  *)
(* was queued before the client turned the display off.  A display that    *)
(* knows it was turned off defers its modes, and no enable is staged.      *)
DeferInv ==
  /\ defer => ~crtc \/ lit
  /\ defer /\ (~off \/ forgotten) => staged = None \/ recovery
  /\ off /\ ~lit /\ ~forgotten => defer /\ ~stagedOn
  /\ forgotten => off

(* The stack that was validated last is the client's.                      *)
StackInv ==
  /\ context # None => stack = Empty \/ context = stack
  /\ validated # None => validated.stack = stack

IInv ==
  /\ TypeOK /\ HeadlessInv /\ ConfigInv /\ DeferInv /\ StackInv
  /\ CachedIsShown /\ ActiveIsCommitted /\ OffStaysOff

USE ConstantsAssumption DEF ConstantsAssumption, IInv, TypeOK, config, cache, frame, kernel, power

-----------------------------------------------------------------------------
(* What the operators return.                                              *)

LEMMA NoFrameType == NoFrame \in [stack : Stacks, types : Types]
  BY DEF NoFrame, Stacks, Types

LEMMA FrameType ==
  ASSUME NEW c \in Composition
  PROVE  Frame(c) \in [stack : Stacks, types : Types]
  BY DEF Frame, Composition

(* A plan is made for the stack it was asked for.                          *)
LEMMA PlannedType ==
  ASSUME NEW s \in Stacks, NEW state, NEW c \in Planned(s, state)
  PROVE  c \in Composition /\ c.stack = s
<1> DEFINE Made(t, f) == [stack |-> s, types |-> t, flattened |-> f]
<1>1. \E t \in Types, f \in BOOLEAN : c = Made(t, f)
  BY DEF Planned, Types
<1>2. PICK t \in Types, f \in BOOLEAN : c = Made(t, f)
  BY <1>1
<1> QED
  BY <1>2 DEF Composition

(* What is presented is a composition of the client's stack.               *)
LEMMA StagedType ==
  ASSUME FrameTypeOK, StackInv
  PROVE  Staged \in Composition /\ Staged.stack = stack
<1>1. CASE validated = None
  BY <1>1 DEF FrameTypeOK, Staged, Composition
<1>2. CASE validated # None
  BY <1>2 DEF FrameTypeOK, Staged, StackInv
<1> QED
  BY <1>1, <1>2

-----------------------------------------------------------------------------
(* Each action keeps the invariant.                                        *)

LEMMA InitInv == Init => IInv
<1> SUFFICES ASSUME Init PROVE IInv
  OBVIOUS
<1>1. ConfigTypeOK
  BY DEF Init, ConfigTypeOK
<1>2. FrameTypeOK
  BY DEF Init, FrameTypeOK, Stacks, Types
<1>3. KernelTypeOK
  BY NoFrameType DEF Init, KernelTypeOK
<1>4. HistoryTypeOK
  BY DEF Init, HistoryTypeOK
<1>5. HeadlessInv
  BY DEF Init, HeadlessInv
<1>6. ConfigInv
  BY DEF Init, ConfigInv
<1>7. DeferInv
  BY DEF Init, DeferInv
<1>8. StackInv
  BY DEF Init, StackInv
<1>9. CachedIsShown
  BY DEF Init, CachedIsShown
<1>10. ActiveIsCommitted
  BY DEF Init, ActiveIsCommitted
<1>11. OffStaysOff
  BY DEF Init, OffStaysOff
<1> QED
  BY <1>1, <1>2, <1>3, <1>4, <1>5, <1>6, <1>7, <1>8, <1>9, <1>10,
      <1>11

(* SetConfig, as the requests for a mode call it (with the deferral that   *)
(* is set) and as turning the display on does (without).                   *)
LEMMA SetConfigInv ==
  ASSUME IInv, NEW c, NEW deferred \in BOOLEAN, NEW ok \in BOOLEAN, NEW retry \in BOOLEAN,
         attached => c \in Configs, ~attached => c = Fake,
         SetConfig(c, deferred, ok, retry),
         UNCHANGED <<primary, attached, stack, types, validated, idle, lit, failed>>,
         \/ UNCHANGED <<off, forgotten>> /\ deferred = defer
         \/ off' = FALSE /\ forgotten' = FALSE /\ ~deferred
  PROVE  IInv'
<1> USE DEF SetConfig, Modeset, ModesetResetsCache, ModesetAsksRefresh,
      CacheReset, ShowsNoFrame
<1>1. ConfigTypeOK'
  BY DEF ConfigTypeOK, HeadlessInv, ConfigInv
<1>2. FrameTypeOK'
  BY DEF FrameTypeOK, Types
<1>3. KernelTypeOK'
  BY NoFrameType DEF KernelTypeOK, ConfigTypeOK, ConfigInv
<1>4. HistoryTypeOK'
  BY DEF HistoryTypeOK, ConfigTypeOK
<1>5. HeadlessInv'
  BY DEF HeadlessInv, ConfigTypeOK, HistoryTypeOK
<1>6. ConfigInv'
  BY DEF ConfigInv, ConfigTypeOK, HeadlessInv
<1>7. DeferInv'
  BY DEF DeferInv, ConfigTypeOK, KernelTypeOK, HistoryTypeOK, HeadlessInv,
      ConfigInv
<1>8. StackInv'
  BY DEF StackInv, FrameTypeOK, HeadlessInv, Stacks
<1>9. CachedIsShown'
  BY DEF CachedIsShown, FrameTypeOK, KernelTypeOK, ConfigTypeOK, HeadlessInv,
      StackInv, Stacks
<1>10. ActiveIsCommitted'
  BY DEF ActiveIsCommitted, ConfigTypeOK, KernelTypeOK, HistoryTypeOK,
      HeadlessInv, ConfigInv, DeferInv
<1>11. OffStaysOff'
  BY DEF OffStaysOff, ConfigTypeOK, KernelTypeOK, HistoryTypeOK, HeadlessInv,
      DeferInv
<1> QED
  BY <1>1, <1>2, <1>3, <1>4, <1>5, <1>6, <1>7, <1>8, <1>9, <1>10,
      <1>11

(* setActiveConfig, when the mode is queued.                               *)
LEMMA SetActiveConfigInv ==
  ASSUME IInv, NEW c \in Known, Exists, Queueable, staged' = c,
         UNCHANGED <<active, stagedOn, recovery, defer, cache, kernel, refresh>>,
         UNCHANGED <<primary, attached, stack, types, validated, idle, power, failed>>
  PROVE  IInv'
<1> USE DEF Known, Exists, Queueable
<1>1. ConfigTypeOK'
  BY DEF ConfigTypeOK, HeadlessInv, ConfigInv
<1>2. FrameTypeOK'
  BY DEF FrameTypeOK, Types
<1>3. KernelTypeOK'
  BY DEF KernelTypeOK, ConfigTypeOK, ConfigInv
<1>4. HistoryTypeOK'
  BY DEF HistoryTypeOK, ConfigTypeOK
<1>5. HeadlessInv'
  BY DEF HeadlessInv, ConfigTypeOK, HistoryTypeOK
<1>6. ConfigInv'
  BY DEF ConfigInv, ConfigTypeOK, HeadlessInv
<1>7. DeferInv'
  BY DEF DeferInv, ConfigTypeOK, KernelTypeOK, HistoryTypeOK, HeadlessInv,
      ConfigInv
<1>8. StackInv'
  BY DEF StackInv, FrameTypeOK, HeadlessInv, Stacks
<1>9. CachedIsShown'
  BY DEF CachedIsShown, FrameTypeOK, KernelTypeOK, ConfigTypeOK, HeadlessInv,
      StackInv, Stacks
<1>10. ActiveIsCommitted'
  BY DEF ActiveIsCommitted, ConfigTypeOK, KernelTypeOK, HistoryTypeOK,
      HeadlessInv, ConfigInv, DeferInv
<1>11. OffStaysOff'
  BY DEF OffStaysOff, ConfigTypeOK, KernelTypeOK, HistoryTypeOK, HeadlessInv,
      DeferInv
<1> QED
  BY <1>1, <1>2, <1>3, <1>4, <1>5, <1>6, <1>7, <1>8, <1>9, <1>10,
      <1>11

(* Turning the display on, when SetConfig is not called.                   *)
LEMMA PowerOnInv ==
  ASSUME IInv, NEW plugged \in BOOLEAN, NEW ok \in BOOLEAN, PowerOn(plugged, ok),
         ~(attached /\ ~(crtc /\ active # None) /\ plugged),
         UNCHANGED <<primary, attached, stack, types, validated, idle, lit, failed>>,
         \/ off' = FALSE /\ forgotten' = FALSE
         \/ UNCHANGED <<off, forgotten>> /\ ~crtc /\ attached /\ stagedOn /\ ~defer
  PROVE  IInv'
<1> USE DEF PowerOn
<1>1. ConfigTypeOK'
  BY DEF ConfigTypeOK, HeadlessInv, ConfigInv
<1>2. FrameTypeOK'
  BY DEF FrameTypeOK, Types
<1>3. KernelTypeOK'
  BY DEF KernelTypeOK, ConfigTypeOK, ConfigInv
<1>4. HistoryTypeOK'
  BY DEF HistoryTypeOK, ConfigTypeOK
<1>5. HeadlessInv'
  BY DEF HeadlessInv, ConfigTypeOK, HistoryTypeOK
<1>6. ConfigInv'
  BY DEF ConfigInv, ConfigTypeOK, HeadlessInv
<1>7. DeferInv'
  <2>1. CASE ~attached
    <3>1. ~defer /\ UNCHANGED defer
      BY <2>1 DEF HeadlessInv
    <3>2. off' = FALSE /\ forgotten' = FALSE
      BY <2>1
    <3> QED
      BY <3>1, <3>2 DEF DeferInv
  <2>2. CASE attached /\ off' = FALSE /\ forgotten' = FALSE
    <3>1. defer' = FALSE
      BY <2>2
    <3> QED
      BY <2>2, <3>1 DEF DeferInv
  <2>3. CASE attached /\ UNCHANGED <<off, forgotten>> /\ ~crtc /\ stagedOn /\ ~defer
    <3>1. defer' = FALSE /\ lit' = lit
      BY <2>3
    <3>2. ~(off /\ ~lit /\ ~forgotten)
      BY <2>3 DEF DeferInv
    <3> QED
      BY <2>3, <3>1, <3>2 DEF DeferInv
  <2> QED
    BY <2>1, <2>2, <2>3
<1>8. StackInv'
  BY DEF StackInv, FrameTypeOK, HeadlessInv, Stacks
<1>9. CachedIsShown'
  BY DEF CachedIsShown, FrameTypeOK, KernelTypeOK, ConfigTypeOK, HeadlessInv,
      StackInv, Stacks
<1>10. ActiveIsCommitted'
  BY DEF ActiveIsCommitted, ConfigTypeOK, KernelTypeOK, HistoryTypeOK,
      HeadlessInv, ConfigInv, DeferInv
<1>11. OffStaysOff'
  BY DEF OffStaysOff, ConfigTypeOK, KernelTypeOK, HistoryTypeOK, HeadlessInv,
      DeferInv
<1> QED
  BY <1>1, <1>2, <1>3, <1>4, <1>5, <1>6, <1>7, <1>8, <1>9, <1>10,
      <1>11

(* The modeset of setActiveConfigs.                                        *)
LEMMA SetActiveConfigsInv ==
  ASSUME IInv, NEW c \in Configs, NEW seamless \in BOOLEAN, SetActiveConfigs(c, seamless)
  PROVE  IInv'
<1> USE DEF SetActiveConfigs, Modeset, ModesetResetsCache, ModesetAsksRefresh,
      CacheReset, ShowsNoFrame
<1>1. ConfigTypeOK'
  BY DEF ConfigTypeOK, HeadlessInv, ConfigInv
<1>2. FrameTypeOK'
  BY DEF FrameTypeOK, Types
<1>3. KernelTypeOK'
  BY NoFrameType DEF KernelTypeOK, ConfigTypeOK, ConfigInv
<1>4. HistoryTypeOK'
  BY DEF HistoryTypeOK, ConfigTypeOK
<1>5. HeadlessInv'
  BY DEF HeadlessInv, ConfigTypeOK, HistoryTypeOK
<1>6. ConfigInv'
  BY DEF ConfigInv, ConfigTypeOK, HeadlessInv
<1>7. DeferInv'
  BY DEF DeferInv, ConfigTypeOK, KernelTypeOK, HistoryTypeOK, HeadlessInv,
      ConfigInv
<1>8. StackInv'
  BY DEF StackInv, FrameTypeOK, HeadlessInv, Stacks
<1>9. CachedIsShown'
  BY DEF CachedIsShown, FrameTypeOK, KernelTypeOK, ConfigTypeOK, HeadlessInv,
      StackInv, Stacks
<1>10. ActiveIsCommitted'
  BY DEF ActiveIsCommitted, ConfigTypeOK, KernelTypeOK, HistoryTypeOK,
      HeadlessInv, ConfigInv, DeferInv
<1>11. OffStaysOff'
  BY DEF OffStaysOff, ConfigTypeOK, KernelTypeOK, HistoryTypeOK, HeadlessInv,
      DeferInv
<1> QED
  BY <1>1, <1>2, <1>3, <1>4, <1>5, <1>6, <1>7, <1>8, <1>9, <1>10,
      <1>11

(* Turning the display off.                                                *)
LEMMA SetPowerModeOffInv ==
  ASSUME IInv, NEW ok \in BOOLEAN, SetPowerModeOff(ok)
  PROVE  IInv'
<1> USE DEF SetPowerModeOff, OffDefers, CacheReset, ShowsNoFrame, Exists
<1>1. ConfigTypeOK'
  BY DEF ConfigTypeOK, HeadlessInv, ConfigInv
<1>2. FrameTypeOK'
  BY DEF FrameTypeOK, Types
<1>3. KernelTypeOK'
  <2>1. CASE attached /\ ok
    BY <2>1, NoFrameType DEF KernelTypeOK, ConfigTypeOK, ConfigInv
  <2>2. CASE attached /\ ~ok
    BY <2>2, NoFrameType DEF KernelTypeOK, ConfigTypeOK, ConfigInv
  <2>3. CASE ~attached
    BY <2>3, NoFrameType DEF KernelTypeOK, ConfigTypeOK, ConfigInv
  <2> QED
    BY <2>1, <2>2, <2>3
<1>4. HistoryTypeOK'
  BY DEF HistoryTypeOK, ConfigTypeOK
<1>5. HeadlessInv'
  BY DEF HeadlessInv, ConfigTypeOK, HistoryTypeOK
<1>6. ConfigInv'
  BY DEF ConfigInv, ConfigTypeOK, HeadlessInv
<1>7. DeferInv'
  BY DEF DeferInv, ConfigTypeOK, KernelTypeOK, HistoryTypeOK, HeadlessInv,
      ConfigInv
<1>8. StackInv'
  BY DEF StackInv, FrameTypeOK, HeadlessInv, Stacks
<1>9. CachedIsShown'
  <2>1. CASE attached /\ ok
    BY <2>1 DEF CachedIsShown, FrameTypeOK, KernelTypeOK, ConfigTypeOK,
      HeadlessInv, StackInv, Stacks
  <2>2. CASE attached /\ ~ok
    BY <2>2 DEF CachedIsShown, FrameTypeOK, KernelTypeOK, ConfigTypeOK,
      HeadlessInv, StackInv, Stacks
  <2>3. CASE ~attached
    BY <2>3 DEF CachedIsShown, FrameTypeOK, KernelTypeOK, ConfigTypeOK,
      HeadlessInv, StackInv, Stacks
  <2> QED
    BY <2>1, <2>2, <2>3
<1>10. ActiveIsCommitted'
  <2>1. CASE attached /\ ok
    BY <2>1 DEF ActiveIsCommitted, ConfigTypeOK, KernelTypeOK, HistoryTypeOK,
      HeadlessInv, ConfigInv, DeferInv
  <2>2. CASE attached /\ ~ok
    <3>1. UNCHANGED <<attached, crtc, recovery, lit, active, mode>>
      BY <2>2
    <3> QED
      BY <3>1 DEF ActiveIsCommitted
  <2>3. CASE ~attached
    BY <2>3 DEF ActiveIsCommitted, ConfigTypeOK, KernelTypeOK, HistoryTypeOK,
      HeadlessInv, ConfigInv, DeferInv
  <2> QED
    BY <2>1, <2>2, <2>3
<1>11. OffStaysOff'
  <2>1. CASE attached /\ ok
    BY <2>1 DEF OffStaysOff, ConfigTypeOK, KernelTypeOK, HistoryTypeOK,
      HeadlessInv, DeferInv
  <2>2. CASE attached /\ ~ok
    <3>1. UNCHANGED <<off, lit, forgotten, crtc, screen>>
      BY <2>2
    <3> QED
      BY <3>1 DEF OffStaysOff
  <2>3. CASE ~attached
    BY <2>3 DEF OffStaysOff, ConfigTypeOK, KernelTypeOK, HistoryTypeOK,
      HeadlessInv, DeferInv
  <2> QED
    BY <2>1, <2>2, <2>3
<1> QED
  BY <1>1, <1>2, <1>3, <1>4, <1>5, <1>6, <1>7, <1>8, <1>9, <1>10,
      <1>11

(* Validating a stack of layers.                                           *)
LEMMA ValidateInv ==
  ASSUME IInv, NEW s \in Stacks, Validate(s)
  PROVE  IInv'
<1> USE DEF Validate, Exists, NewFrame, Reusable
<1>1. ConfigTypeOK'
  BY DEF ConfigTypeOK, HeadlessInv, ConfigInv
<1>2. FrameTypeOK'
  <2>1. CASE ~attached \/ s = Empty
    BY <2>1 DEF FrameTypeOK
  <2>2. CASE attached /\ s # Empty
    <3>1. validated' \in Composition /\ types' = validated'.types
      BY <2>2, PlannedType DEF FrameTypeOK
    <3>2. types' \in Types
      BY <3>1 DEF Composition
    <3>3. context' \in Stacks \cup {None} /\ cached' \in Composition \cup {None}
      BY <2>2 DEF FrameTypeOK
    <3>4. idle' \in {"disabled", "active", "triggered", "flattened"}
      BY <2>2 DEF FrameTypeOK
    <3> QED
      BY <3>1, <3>2, <3>3, <3>4 DEF FrameTypeOK
  <2> QED
    BY <2>1, <2>2
<1>3. KernelTypeOK'
  BY DEF KernelTypeOK, ConfigTypeOK, ConfigInv
<1>4. HistoryTypeOK'
  BY DEF HistoryTypeOK, ConfigTypeOK
<1>5. HeadlessInv'
  BY DEF HeadlessInv, ConfigTypeOK, HistoryTypeOK
<1>6. ConfigInv'
  BY DEF ConfigInv, ConfigTypeOK, HeadlessInv
<1>7. DeferInv'
  BY DEF DeferInv, ConfigTypeOK, KernelTypeOK, HistoryTypeOK, HeadlessInv,
      ConfigInv
<1>8. StackInv'
  <2>1. CASE ~attached \/ s = Empty
    BY <2>1 DEF StackInv, HeadlessInv
  <2>2. CASE attached /\ s # Empty /\ validated' = cached /\ UNCHANGED cache /\ Reusable(s, idle')
    BY <2>2 DEF StackInv, CachedIsShown
  <2>3. CASE attached /\ s # Empty /\ validated' \in Planned(s, idle') /\ context' = s
    BY <2>3, PlannedType DEF StackInv
  <2> QED
    BY <2>1, <2>2, <2>3
<1>9. CachedIsShown'
  BY DEF CachedIsShown, FrameTypeOK, KernelTypeOK, ConfigTypeOK, HeadlessInv,
      StackInv, Stacks
<1>10. ActiveIsCommitted'
  BY DEF ActiveIsCommitted, ConfigTypeOK, KernelTypeOK, HistoryTypeOK,
      HeadlessInv, ConfigInv, DeferInv
<1>11. OffStaysOff'
  BY DEF OffStaysOff, ConfigTypeOK, KernelTypeOK, HistoryTypeOK, HeadlessInv,
      DeferInv
<1> QED
  BY <1>1, <1>2, <1>3, <1>4, <1>5, <1>6, <1>7, <1>8, <1>9, <1>10,
      <1>11

(* Presenting nothing.                                                     *)
LEMMA PresentNothingInv ==
  ASSUME IInv, PresentNothing
  PROVE  IInv'
<1> USE DEF PresentNothing
<1>1. ConfigTypeOK'
  BY DEF ConfigTypeOK, HeadlessInv, ConfigInv
<1>2. FrameTypeOK'
  BY DEF FrameTypeOK, Types
<1>3. KernelTypeOK'
  BY DEF KernelTypeOK, ConfigTypeOK, ConfigInv
<1>4. HistoryTypeOK'
  BY DEF HistoryTypeOK, ConfigTypeOK
<1>5. HeadlessInv'
  BY DEF HeadlessInv, ConfigTypeOK, HistoryTypeOK
<1>6. ConfigInv'
  BY DEF ConfigInv, ConfigTypeOK, HeadlessInv
<1>7. DeferInv'
  BY DEF DeferInv, ConfigTypeOK, KernelTypeOK, HistoryTypeOK, HeadlessInv,
      ConfigInv
<1>8. StackInv'
  BY DEF StackInv, FrameTypeOK, HeadlessInv, Stacks
<1>9. CachedIsShown'
  BY DEF CachedIsShown, FrameTypeOK, KernelTypeOK, ConfigTypeOK, HeadlessInv,
      StackInv, Stacks
<1>10. ActiveIsCommitted'
  BY DEF ActiveIsCommitted, ConfigTypeOK, KernelTypeOK, HistoryTypeOK,
      HeadlessInv, ConfigInv, DeferInv
<1>11. OffStaysOff'
  BY DEF OffStaysOff, ConfigTypeOK, KernelTypeOK, HistoryTypeOK, HeadlessInv,
      DeferInv
<1> QED
  BY <1>1, <1>2, <1>3, <1>4, <1>5, <1>6, <1>7, <1>8, <1>9, <1>10,
      <1>11

(* A frame the kernel accepts.                                             *)
LEMMA PresentShownInv ==
  ASSUME IInv, NEW due \in BOOLEAN, PresentShown(due)
  PROVE  IInv'
<1> USE DEF PresentShown, Presents, FrameMode, Requested, ModeApplied,
      CacheReset
<1>1. ConfigTypeOK'
  BY DEF ConfigTypeOK, HeadlessInv, ConfigInv
<1>2. FrameTypeOK'
  BY StagedType DEF FrameTypeOK, Types
<1>3. KernelTypeOK'
  BY StagedType, FrameType DEF KernelTypeOK, ConfigTypeOK, ConfigInv
<1>4. HistoryTypeOK'
  BY DEF HistoryTypeOK, ConfigTypeOK
<1>5. HeadlessInv'
  BY DEF HeadlessInv, ConfigTypeOK, HistoryTypeOK
<1>6. ConfigInv'
  BY DEF ConfigInv, ConfigTypeOK, HeadlessInv
<1>7. DeferInv'
  BY DEF DeferInv, ConfigTypeOK, KernelTypeOK, HistoryTypeOK, HeadlessInv,
      ConfigInv
<1>8. StackInv'
  BY StagedType DEF StackInv, FrameTypeOK, HeadlessInv, Stacks
<1>9. CachedIsShown'
  BY StagedType DEF CachedIsShown, FrameTypeOK, KernelTypeOK, ConfigTypeOK,
      HeadlessInv, StackInv, Stacks
<1>10. ActiveIsCommitted'
  BY DEF ActiveIsCommitted, ConfigTypeOK, KernelTypeOK, HistoryTypeOK,
      HeadlessInv, ConfigInv, DeferInv
<1>11. OffStaysOff'
  BY DEF OffStaysOff, ConfigTypeOK, KernelTypeOK, HistoryTypeOK, HeadlessInv,
      DeferInv
<1> QED
  BY <1>1, <1>2, <1>3, <1>4, <1>5, <1>6, <1>7, <1>8, <1>9, <1>10,
      <1>11

(* A frame it refuses.                                                     *)
LEMMA PresentRefusedInv ==
  ASSUME IInv, NEW due \in BOOLEAN, NEW cleaned \in BOOLEAN, PresentRefused(due, cleaned)
  PROVE  IInv'
<1> USE DEF PresentRefused, Presents, FrameMode, Requested, CacheReset,
      ShowsNoFrame
<1>1. ConfigTypeOK'
  BY DEF ConfigTypeOK, HeadlessInv, ConfigInv
<1>2. FrameTypeOK'
  BY DEF FrameTypeOK, Types
<1>3. KernelTypeOK'
  BY NoFrameType DEF KernelTypeOK, ConfigTypeOK, ConfigInv
<1>4. HistoryTypeOK'
  BY DEF HistoryTypeOK, ConfigTypeOK
<1>5. HeadlessInv'
  BY DEF HeadlessInv, ConfigTypeOK, HistoryTypeOK
<1>6. ConfigInv'
  BY DEF ConfigInv, ConfigTypeOK, HeadlessInv
<1>7. DeferInv'
  BY DEF DeferInv, ConfigTypeOK, KernelTypeOK, HistoryTypeOK, HeadlessInv,
      ConfigInv
<1>8. StackInv'
  BY DEF StackInv, FrameTypeOK, HeadlessInv, Stacks
<1>9. CachedIsShown'
  BY DEF CachedIsShown, FrameTypeOK, KernelTypeOK, ConfigTypeOK, HeadlessInv,
      StackInv, Stacks
<1>10. ActiveIsCommitted'
  BY DEF ActiveIsCommitted, ConfigTypeOK, KernelTypeOK, HistoryTypeOK,
      HeadlessInv, ConfigInv, DeferInv
<1>11. OffStaysOff'
  BY DEF OffStaysOff, ConfigTypeOK, KernelTypeOK, HistoryTypeOK, HeadlessInv,
      DeferInv
<1> QED
  BY <1>1, <1>2, <1>3, <1>4, <1>5, <1>6, <1>7, <1>8, <1>9, <1>10,
      <1>11

(* A frame that is not committed.                                          *)
LEMMA PresentUnplannedInv ==
  ASSUME IInv, PresentUnplanned
  PROVE  IInv'
<1> USE DEF PresentUnplanned, Presents, CacheReset
<1>1. ConfigTypeOK'
  BY DEF ConfigTypeOK, HeadlessInv, ConfigInv
<1>2. FrameTypeOK'
  BY DEF FrameTypeOK, Types
<1>3. KernelTypeOK'
  BY DEF KernelTypeOK, ConfigTypeOK, ConfigInv
<1>4. HistoryTypeOK'
  BY DEF HistoryTypeOK, ConfigTypeOK
<1>5. HeadlessInv'
  BY DEF HeadlessInv, ConfigTypeOK, HistoryTypeOK
<1>6. ConfigInv'
  BY DEF ConfigInv, ConfigTypeOK, HeadlessInv
<1>7. DeferInv'
  BY DEF DeferInv, ConfigTypeOK, KernelTypeOK, HistoryTypeOK, HeadlessInv,
      ConfigInv
<1>8. StackInv'
  BY DEF StackInv, FrameTypeOK, HeadlessInv, Stacks
<1>9. CachedIsShown'
  BY DEF CachedIsShown, FrameTypeOK, KernelTypeOK, ConfigTypeOK, HeadlessInv,
      StackInv, Stacks
<1>10. ActiveIsCommitted'
  BY DEF ActiveIsCommitted, ConfigTypeOK, KernelTypeOK, HistoryTypeOK,
      HeadlessInv, ConfigInv, DeferInv
<1>11. OffStaysOff'
  BY DEF OffStaysOff, ConfigTypeOK, KernelTypeOK, HistoryTypeOK, HeadlessInv,
      DeferInv
<1> QED
  BY <1>1, <1>2, <1>3, <1>4, <1>5, <1>6, <1>7, <1>8, <1>9, <1>10,
      <1>11

(* The flattening controller's thread.                                     *)
LEMMA FlattenTimeoutInv ==
  ASSUME IInv, FlattenTimeout
  PROVE  IInv'
<1> USE DEF FlattenTimeout
<1>1. ConfigTypeOK'
  BY DEF ConfigTypeOK, HeadlessInv, ConfigInv
<1>2. FrameTypeOK'
  BY DEF FrameTypeOK, Types
<1>3. KernelTypeOK'
  BY DEF KernelTypeOK, ConfigTypeOK, ConfigInv
<1>4. HistoryTypeOK'
  BY DEF HistoryTypeOK, ConfigTypeOK
<1>5. HeadlessInv'
  BY DEF HeadlessInv, ConfigTypeOK, HistoryTypeOK
<1>6. ConfigInv'
  BY DEF ConfigInv, ConfigTypeOK, HeadlessInv
<1>7. DeferInv'
  BY DEF DeferInv, ConfigTypeOK, KernelTypeOK, HistoryTypeOK, HeadlessInv,
      ConfigInv
<1>8. StackInv'
  BY DEF StackInv, FrameTypeOK, HeadlessInv, Stacks
<1>9. CachedIsShown'
  BY DEF CachedIsShown, FrameTypeOK, KernelTypeOK, ConfigTypeOK, HeadlessInv,
      StackInv, Stacks
<1>10. ActiveIsCommitted'
  BY DEF ActiveIsCommitted, ConfigTypeOK, KernelTypeOK, HistoryTypeOK,
      HeadlessInv, ConfigInv, DeferInv
<1>11. OffStaysOff'
  BY DEF OffStaysOff, ConfigTypeOK, KernelTypeOK, HistoryTypeOK, HeadlessInv,
      DeferInv
<1> QED
  BY <1>1, <1>2, <1>3, <1>4, <1>5, <1>6, <1>7, <1>8, <1>9, <1>10,
      <1>11

(* A link that failed.                                                     *)
LEMMA LinkTrainingFailedInv ==
  ASSUME IInv, NEW c \in Configs, LinkTrainingFailed(c)
  PROVE  IInv'
<1> USE DEF LinkTrainingFailed
<1>1. ConfigTypeOK'
  BY DEF ConfigTypeOK, HeadlessInv, ConfigInv
<1>2. FrameTypeOK'
  BY DEF FrameTypeOK, Types
<1>3. KernelTypeOK'
  BY DEF KernelTypeOK, ConfigTypeOK, ConfigInv
<1>4. HistoryTypeOK'
  BY DEF HistoryTypeOK, ConfigTypeOK
<1>5. HeadlessInv'
  BY DEF HeadlessInv, ConfigTypeOK, HistoryTypeOK
<1>6. ConfigInv'
  BY DEF ConfigInv, ConfigTypeOK, HeadlessInv
<1>7. DeferInv'
  BY DEF DeferInv, ConfigTypeOK, KernelTypeOK, HistoryTypeOK, HeadlessInv,
      ConfigInv
<1>8. StackInv'
  BY DEF StackInv, FrameTypeOK, HeadlessInv, Stacks
<1>9. CachedIsShown'
  BY DEF CachedIsShown, FrameTypeOK, KernelTypeOK, ConfigTypeOK, HeadlessInv,
      StackInv, Stacks
<1>10. ActiveIsCommitted'
  BY DEF ActiveIsCommitted, ConfigTypeOK, KernelTypeOK, HistoryTypeOK,
      HeadlessInv, ConfigInv, DeferInv
<1>11. OffStaysOff'
  BY DEF OffStaysOff, ConfigTypeOK, KernelTypeOK, HistoryTypeOK, HeadlessInv,
      DeferInv
<1> QED
  BY <1>1, <1>2, <1>3, <1>4, <1>5, <1>6, <1>7, <1>8, <1>9, <1>10,
      <1>11

(* A new pipeline.                                                         *)
LEMMA SetPipelineInv ==
  ASSUME IInv, NEW c \in Configs, NEW kept \in BOOLEAN, NEW ok \in BOOLEAN,
         SetPipeline(c, kept, ok)
  PROVE  IInv'
<1> USE DEF SetPipeline, Reinit, CacheReset, ShowsNoFrame
<1>1. ConfigTypeOK'
  BY DEF ConfigTypeOK, HeadlessInv, ConfigInv
<1>2. FrameTypeOK'
  BY DEF FrameTypeOK, Types
<1>3. KernelTypeOK'
  BY NoFrameType DEF KernelTypeOK, ConfigTypeOK, ConfigInv
<1>4. HistoryTypeOK'
  BY DEF HistoryTypeOK, ConfigTypeOK
<1>5. HeadlessInv'
  BY DEF HeadlessInv, ConfigTypeOK, HistoryTypeOK
<1>6. ConfigInv'
  BY DEF ConfigInv, ConfigTypeOK, HeadlessInv
<1>7. DeferInv'
  BY DEF DeferInv, ConfigTypeOK, KernelTypeOK, HistoryTypeOK, HeadlessInv,
      ConfigInv
<1>8. StackInv'
  BY DEF StackInv, FrameTypeOK, HeadlessInv, Stacks
<1>9. CachedIsShown'
  BY DEF CachedIsShown, FrameTypeOK, KernelTypeOK, ConfigTypeOK, HeadlessInv,
      StackInv, Stacks
<1>10. ActiveIsCommitted'
  BY DEF ActiveIsCommitted, ConfigTypeOK, KernelTypeOK, HistoryTypeOK,
      HeadlessInv, ConfigInv, DeferInv
<1>11. OffStaysOff'
  BY DEF OffStaysOff, ConfigTypeOK, KernelTypeOK, HistoryTypeOK, HeadlessInv,
      DeferInv
<1> QED
  BY <1>1, <1>2, <1>3, <1>4, <1>5, <1>6, <1>7, <1>8, <1>9, <1>10,
      <1>11

(* The loss of the pipeline.                                               *)
LEMMA DetachInv ==
  ASSUME IInv, Detach
  PROVE  IInv'
<1> USE DEF Detach, Reinit, CacheReset, ShowsNoFrame, Stacks
<1>1. ConfigTypeOK'
  BY DEF ConfigTypeOK, HeadlessInv, ConfigInv
<1>2. FrameTypeOK'
  BY DEF FrameTypeOK, Types
<1>3. KernelTypeOK'
  BY NoFrameType DEF KernelTypeOK, ConfigTypeOK, ConfigInv
<1>4. HistoryTypeOK'
  BY DEF HistoryTypeOK, ConfigTypeOK
<1>5. HeadlessInv'
  BY DEF HeadlessInv, ConfigTypeOK, HistoryTypeOK
<1>6. ConfigInv'
  BY DEF ConfigInv, ConfigTypeOK, HeadlessInv
<1>7. DeferInv'
  BY DEF DeferInv, ConfigTypeOK, KernelTypeOK, HistoryTypeOK, HeadlessInv,
      ConfigInv
<1>8. StackInv'
  BY DEF StackInv, FrameTypeOK, HeadlessInv, Stacks
<1>9. CachedIsShown'
  BY DEF CachedIsShown, FrameTypeOK, KernelTypeOK, ConfigTypeOK, HeadlessInv,
      StackInv, Stacks
<1>10. ActiveIsCommitted'
  BY DEF ActiveIsCommitted, ConfigTypeOK, KernelTypeOK, HistoryTypeOK,
      HeadlessInv, ConfigInv, DeferInv
<1>11. OffStaysOff'
  BY DEF OffStaysOff, ConfigTypeOK, KernelTypeOK, HistoryTypeOK, HeadlessInv,
      DeferInv
<1> QED
  BY <1>1, <1>2, <1>3, <1>4, <1>5, <1>6, <1>7, <1>8, <1>9, <1>10,
      <1>11

(* Steps of others.                                                        *)
LEMMA StutterInv ==
  ASSUME IInv, UNCHANGED vars
  PROVE  IInv'
<1> USE DEF vars
<1>1. ConfigTypeOK'
  BY DEF ConfigTypeOK, HeadlessInv, ConfigInv
<1>2. FrameTypeOK'
  BY DEF FrameTypeOK, Types
<1>3. KernelTypeOK'
  BY DEF KernelTypeOK, ConfigTypeOK, ConfigInv
<1>4. HistoryTypeOK'
  BY DEF HistoryTypeOK, ConfigTypeOK
<1>5. HeadlessInv'
  BY DEF HeadlessInv, ConfigTypeOK, HistoryTypeOK
<1>6. ConfigInv'
  BY DEF ConfigInv, ConfigTypeOK, HeadlessInv
<1>7. DeferInv'
  BY DEF DeferInv, ConfigTypeOK, KernelTypeOK, HistoryTypeOK, HeadlessInv,
      ConfigInv
<1>8. StackInv'
  BY DEF StackInv, FrameTypeOK, HeadlessInv, Stacks
<1>9. CachedIsShown'
  BY DEF CachedIsShown, FrameTypeOK, KernelTypeOK, ConfigTypeOK, HeadlessInv,
      StackInv, Stacks
<1>10. ActiveIsCommitted'
  BY DEF ActiveIsCommitted, ConfigTypeOK, KernelTypeOK, HistoryTypeOK,
      HeadlessInv, ConfigInv, DeferInv
<1>11. OffStaysOff'
  BY DEF OffStaysOff, ConfigTypeOK, KernelTypeOK, HistoryTypeOK, HeadlessInv,
      DeferInv
<1> QED
  BY <1>1, <1>2, <1>3, <1>4, <1>5, <1>6, <1>7, <1>8, <1>9, <1>10,
      <1>11

-----------------------------------------------------------------------------
(* The invariant is inductive.                                             *)
LEMMA NextInv == IInv /\ [Next]_vars => IInv'
<1> SUFFICES ASSUME IInv, [Next]_vars PROVE IInv'
  OBVIOUS
<1>1. ASSUME NEW c \in Configs \cup {Fake}, NEW ok \in BOOLEAN, SetActiveConfig(c, ok)
      PROVE  IInv'
  <2>1. CASE Queueable
    BY <1>1, <2>1, SetActiveConfigInv DEF SetActiveConfig
  <2>2. CASE ~Queueable
    <3>1. attached => c \in Configs
      BY <1>1 DEF SetActiveConfig, Known
    <3>2. ~attached => c = Fake
      BY <1>1 DEF SetActiveConfig, Known
    <3>3. /\ SetConfig(c, defer, ok, FALSE) /\ UNCHANGED <<off, forgotten>>
          /\ UNCHANGED <<primary, attached, stack, types, validated, idle, lit, failed>>
      BY <1>1, <2>2 DEF SetActiveConfig
    <3>4. defer \in BOOLEAN
      BY DEF ConfigTypeOK
    <3> QED
      BY <1>1, <3>1, <3>2, <3>3, <3>4, SetConfigInv
  <2> QED
    BY <2>1, <2>2
<1>2. ASSUME NEW plugged \in BOOLEAN, NEW ok \in BOOLEAN, PowerOn(plugged, ok),
             UNCHANGED <<primary, attached, stack, types, validated, idle, lit, failed>>,
             \/ off' = FALSE /\ forgotten' = FALSE
             \/ UNCHANGED <<off, forgotten>> /\ ~crtc /\ attached /\ stagedOn /\ ~defer
      PROVE  IInv'
  <2>1. CASE attached /\ ~(crtc /\ active # None) /\ plugged
    <3>1. SetConfig(Requested, FALSE, ok, TRUE)
      BY <1>2, <2>1 DEF PowerOn
    <3>2. Requested \in Configs
      BY <2>1 DEF Requested, ConfigInv
    <3>3. \/ UNCHANGED <<off, forgotten>> /\ FALSE = defer
          \/ off' = FALSE /\ forgotten' = FALSE /\ ~FALSE
      BY <1>2 DEF ConfigTypeOK
    <3>4. FALSE \in BOOLEAN /\ TRUE \in BOOLEAN
      OBVIOUS
    <3> HIDE DEF IInv
    <3> QED
      BY <1>2, <2>1, <3>1, <3>2, <3>3, <3>4, SetConfigInv
  <2>2. CASE ~(attached /\ ~(crtc /\ active # None) /\ plugged)
    BY <1>2, <2>2, PowerOnInv
  <2> QED
    BY <2>1, <2>2
<1>3. ASSUME NEW plugged \in BOOLEAN, NEW ok \in BOOLEAN,
             SetPowerModeOn(plugged, ok) \/ Connected(plugged, ok)
      PROVE  IInv'
  <2>1. PowerOn(plugged, ok)
    BY <1>3 DEF SetPowerModeOn, Connected
  <2>2. UNCHANGED <<primary, attached, stack, types, validated, idle, lit, failed>>
    BY <1>3 DEF SetPowerModeOn, Connected
  <2>3. \/ off' = FALSE /\ forgotten' = FALSE
        \/ UNCHANGED <<off, forgotten>> /\ ~crtc /\ attached /\ stagedOn /\ ~defer
    <3>1. CASE SetPowerModeOn(plugged, ok)
      BY <3>1 DEF SetPowerModeOn
    <3>2. CASE Connected(plugged, ok)
      BY <3>2 DEF Connected
    <3> QED
      BY <1>3, <3>1, <3>2
  <2> HIDE DEF IInv
  <2> QED
    BY <1>2, <2>1, <2>2, <2>3
<1>4. CASE Client
  BY <1>1, <1>3, <1>4, SetActiveConfigsInv, SetPowerModeOffInv, ValidateInv, PresentNothingInv,
     PresentShownInv, PresentRefusedInv, PresentUnplannedInv DEF Client, Present
<1>5. CASE Hotplug
  BY <1>3, <1>5, LinkTrainingFailedInv, SetPipelineInv, DetachInv DEF Hotplug
<1>6. CASE FlattenTimeout
  BY <1>6, FlattenTimeoutInv
<1>7. CASE UNCHANGED vars
  BY <1>7, StutterInv
<1> QED
  BY <1>4, <1>5, <1>6, <1>7 DEF Next

LEMMA Invariance == Spec => []IInv
<1> HIDE DEF IInv, TypeOK
<1> QED
  BY InitInv, NextInv, PTL DEF Spec

-----------------------------------------------------------------------------
(* The theorems.                                                           *)

(* Every variable keeps its type.                                          *)
THEOREM TypeCorrect == Spec => []TypeOK
<1>1. IInv => TypeOK
  OBVIOUS
<1> HIDE DEF IInv, TypeOK
<1> QED
  BY <1>1, Invariance, PTL

(* What the short-circuit may reuse is on the screen                       *)
(* (HwcDisplay::last_presented_composition_).                              *)
THEOREM CacheCorrect == Spec => []CachedIsShown
<1>1. IInv => CachedIsShown
  OBVIOUS
<1> HIDE DEF IInv
<1> QED
  BY <1>1, Invariance, PTL

(* The active config is the kernel's mode (HwcDisplay::GetCurrentConfig).  *)
THEOREM ActiveCorrect == Spec => []ActiveIsCommitted
<1>1. IInv => ActiveIsCommitted
  OBVIOUS
<1> HIDE DEF IInv
<1> QED
  BY <1>1, Invariance, PTL

(* A display that was turned off stays off while it keeps its pipeline,    *)
(* unless a queued mode lights it (HwcDisplay::SetPowerMode).              *)
THEOREM OffCorrect == Spec => []OffStaysOff
<1>1. IInv => OffStaysOff
  OBVIOUS
<1> HIDE DEF IInv
<1> QED
  BY <1>1, Invariance, PTL
=============================================================================

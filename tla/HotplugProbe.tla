----------------------------- MODULE HotplugProbe ---------------------------
(***************************************************************************)
(* How a hotplug becomes known: UEventListener's thread, the handling of a *)
(* uevent by ResourceManager in three phases, of which the second probes   *)
(* without the main lock, and everybody else who probes or detaches        *)
(* meanwhile: the client's SetPowerMode, the replay of the uevents that    *)
(* were put off during the boot animation, the delayed-EDID recovery.      *)
(*                                                                         *)
(* What is then shown where is the subject of DisplayBinding; here a       *)
(* connector with modes is attached, or fails to be.                       *)
(***************************************************************************)
EXTENDS Integers

CONSTANTS
  Connectors,   \* connector ids
  Hotpluggable, \* those the kernel may add and remove (MST)
  Quirky,       \* those whose monitor may have the delayed-EDID quirk
  MaxChanges,   \* bound on the changes of the kernel's connectors
  MaxFailures   \* bound on the reads that fail for no lasting reason

ASSUME ConstantsAssumption ==
  /\ Hotpluggable \subseteq Connectors /\ Quirky \subseteq Connectors
  /\ MaxChanges \in Nat /\ MaxFailures \in Nat

(* No such connector, not connected, not known (or connected, with no      *)
(* modes yet), connected with modes.                                       *)
States == {"gone", "off", "unknown", "good"}

(* A state read from the kernel, and after how many changes.               *)
Read(s, v) == [s |-> s, v |-> v]
NotRead == Read("gone", -1)
Reads == {Read(s, v) : s \in States, v \in 0 .. MaxChanges} \cup {NotRead}

Nobody == "nobody"

VARIABLES
  kernel,   \* per connector its state, and the number of changes before
  socket,   \* connectors named by the uevents not yet read
  object,   \* per connector what was last applied to its DrmConnector, if any
  deleted,  \* deleted_
  attached, \* attached_pipelines_
  deferred, \* deferred_bootanim_hotplug_
  booting,  \* early_boot_animation_active_
  \* threads
  plan,     \* HandleUEventHotplug under way, whose owner holds hotplug_mutex_
  pc,       \* step of each thread
  event,    \* the uevent it handles
  needs,    \* the listener's needs_settle_reprobe
  client,   \* the connector SetPowerMode probes under the main lock, or Nobody
  found,    \* what it has read
  \* history
  changes, failures,
  late      \* connectors that settled, or could not be read, when no more probe was due

device == <<object, deleted, attached>>
probes == <<client, found>>
vars == <<kernel, socket, device, deferred, booting, plan, pc, event, needs, probes,
          changes, failures, late>>

Threads == {"listener", "stopper", "settle", "recovery"}

Existing == {c \in Connectors : object[c].s # "gone"}

NoPlan ==
  [owner |-> Nobody, phase |-> "none", targets |-> {}, moved |-> {}, known |-> {},
   todo |-> {}, new |-> {}, present |-> {}, ok |-> FALSE, erred |-> FALSE,
   results |-> [c \in Connectors |-> NotRead], added |-> [c \in Connectors |-> NotRead]]

(* After Init, which has started the threads; the boot animation, if there *)
(* is to be one, starts later.                                             *)
Init ==
  /\ kernel \in [Connectors -> {Read("off", 0), Read("good", 0)}]
  /\ socket = {}
  /\ object = kernel /\ deleted = {}
  /\ attached = {c \in Connectors : kernel[c].s = "good"}
  /\ deferred = {} /\ booting = FALSE
  /\ plan = NoPlan
  /\ \E quirk, animation \in BOOLEAN :
       pc = [listener |-> "read",
             stopper |-> IF animation THEN "start" ELSE "done",
             settle |-> "done",
             recovery |-> IF quirk /\ Quirky \cap attached # {} THEN "delay" ELSE "done"]
  /\ event = [t \in Threads |-> {}] /\ needs = FALSE
  /\ client = Nobody /\ found = NotRead
  /\ changes = 0 /\ failures = 0 /\ late = {}

(* Operators whose comment begins "Wrong on purpose" are no part of the    *)
(* specification: each is a slip the code could have had in the operator   *)
(* after it, kept to show which property notices.                          *)

MainLockIsFree == client = Nobody
HotplugMutexIsFree == plan.owner = Nobody

-----------------------------------------------------------------------------
(* The kernel.                                                             *)

(* Some handling is still to look at what has not settled.                 *)
ProbeIsDue ==
  \/ socket \cup deferred # {}
  \/ pc["listener"] = "handle" \/ (pc["listener"] = "window" /\ needs)
  \/ pc["stopper"] = "handle" \/ pc["settle"] = "sleep"

MissedNow(ids) == IF ProbeIsDue THEN {} ELSE ids

(* Plugged, unplugged, added or removed, with a uevent: of the connector,  *)
(* or of the device, which means all.                                      *)
KernelChanges(c) ==
  /\ changes < MaxChanges /\ changes' = changes + 1
  /\ \E s \in States \ {kernel[c].s}, named \in {{c}, Connectors} :
       /\ s = "gone" => c \in Hotpluggable
       /\ "gone" \in {s, kernel[c].s} => named = Connectors
       /\ kernel' = [kernel EXCEPT ![c] = Read(s, changes')]
       /\ socket' = socket \cup named
  /\ late' = late \ {c}
  /\ UNCHANGED <<device, deferred, booting, plan, pc, event, needs, probes, failures>>

(* What was not known becomes known, without one.                          *)
KernelSettles(c) ==
  /\ changes < MaxChanges /\ changes' = changes + 1
  /\ kernel[c].s = "unknown"
  /\ \E s \in {"off", "good"} : kernel' = [kernel EXCEPT ![c] = Read(s, changes')]
  /\ late' = late \cup MissedNow({c})
  /\ UNCHANGED <<socket, device, deferred, booting, plan, pc, event, needs, probes,
                 failures>>

(* Reading a connector, which may fail although it exists.                 *)
ReadsConnector(c, r) ==
  \/ r = kernel[c] /\ UNCHANGED <<failures, late>>
  \/ /\ failures < MaxFailures /\ failures' = failures + 1
     /\ kernel[c].s # "gone" /\ r = Read("gone", kernel[c].v)
     /\ late' = late \cup MissedNow({c})

(* ApplyProbedState: what it makes of a connector.  One that could not be  *)
(* read is marked deleted, and disconnected.                               *)
Applied(r) == IF r.s = "gone" THEN Read("off", r.v) ELSE r

(* UpdateFrontendDisplays: detach what is not connected, attach what is,   *)
(* which may fail.                                                         *)
AttachedAfter(o, before) ==
  {A \in SUBSET {c \in Connectors : o[c].s = "good"} :
     {c \in before : o[c].s = "good"} \subseteq A}

(* Wrong on purpose: a connector that is not known counts as settled.      *)
UnattachedOnly(o, A) == \E c \in Connectors : o[c].s = "good" /\ c \notin A

Unsettled(o, A) ==
  \E c \in Connectors : o[c].s = "unknown" \/ (o[c].s = "good" /\ c \notin A)

-----------------------------------------------------------------------------
(* HandleUEventHotplug, by thread t.                                       *)

Handlers == {"listener", "stopper", "settle"}

(* Where its caller goes on: the listener waits 200 ms for another uevent, *)
(* once; FlushDeferredHotplug schedules one more handling if need be.      *)
Return(t, needed) ==
  IF t = "listener"
    THEN /\ pc' = [pc EXCEPT ![t] = IF pc[t] = "again" THEN "read" ELSE "window"]
         /\ needs' = (needed /\ pc[t] = "handle")
         /\ event' = [event EXCEPT ![t] = IF needs' THEN @ ELSE {}]
    ELSE /\ pc' = [pc EXCEPT ![t] = "done",
                             !["settle"] = IF t = "stopper" /\ needed THEN "sleep"
                                           ELSE IF t = "settle" THEN "done" ELSE @]
         /\ event' = [event EXCEPT ![t] = {},
                                   !["settle"] = IF t = "stopper" /\ needed THEN event[t]
                                                 ELSE IF t = "settle" THEN {} ELSE @]
         /\ UNCHANGED needs

Handles(t) == pc[t] \in {"handle", "again"} /\ HotplugMutexIsFree

(* Put off while the boot animation runs.  The flag is looked at once; a   *)
(* handling that goes on keeps hotplug_mutex_, so that nothing it depends  *)
(* on happens before it has the main lock, too, for phase 1.               *)
Defer(t) ==
  /\ Handles(t) /\ booting
  /\ deferred' = deferred \cup event[t]
  /\ Return(t, FALSE)
  /\ UNCHANGED <<kernel, socket, device, booting, plan, probes, changes, failures, late>>

Selected(ids) ==
  {c \in Existing : \/ c \in deleted \cup ids \/ object[c].s = "unknown"
                    \/ (object[c].s = "good" /\ c \notin attached)}

Phase1(t) ==
  /\ Handles(t) /\ ~booting /\ MainLockIsFree
  /\ plan' = [NoPlan EXCEPT !.owner = t, !.phase = "resources",
                            !.targets = Selected(event[t] \cup deferred),
                            !.known = Existing \ deleted]
  /\ deferred' = {}
  /\ UNCHANGED <<kernel, socket, device, booting, pc, event, needs, probes, changes,
                 failures, late>>

(* Phase 2: the connectors there are, and of those that are new or were    *)
(* selected, one after the other, what they are like.                      *)
ProbeResources ==
  /\ plan.phase = "resources"
  /\ \/ LET ids == {c \in Connectors : kernel[c].s # "gone"} IN
        /\ plan' = [plan EXCEPT !.phase = "probe", !.ok = TRUE, !.present = ids,
                                !.new = ids \ plan.known, !.todo = plan.targets \cap ids]
        /\ UNCHANGED <<failures, late>>
     \/ /\ failures < MaxFailures /\ failures' = failures + 1
        /\ late' = late \cup MissedNow(Connectors)
        /\ plan' = [plan EXCEPT !.phase = "probe", !.erred = TRUE, !.todo = plan.targets]
  /\ UNCHANGED <<kernel, socket, device, deferred, booting, pc, event, needs, probes,
                 changes>>

ProbeNew(c) ==
  /\ plan.phase = "probe" /\ c \in plan.new
  /\ \E r \in Reads :
       /\ ReadsConnector(c, r)
       /\ plan' = [plan EXCEPT !.new = @ \ {c}, !.erred = @ \/ r.s = "gone",
                               !.added[c] = IF r.s = "gone" THEN NotRead ELSE r]
  /\ UNCHANGED <<kernel, socket, device, deferred, booting, pc, event, needs, probes,
                 changes>>

ProbeTarget(c) ==
  /\ plan.phase = "probe" /\ plan.new = {} /\ c \in plan.todo
  /\ \E r \in Reads :
       /\ ReadsConnector(c, r)
       /\ plan' = [plan EXCEPT !.todo = @ \ {c}, !.results[c] = r]
  /\ UNCHANGED <<kernel, socket, device, deferred, booting, pc, event, needs, probes,
                 changes>>

Probed == {c \in plan.targets : plan.results[c] # NotRead}

(* Wrong on purpose: whatever its generation.                              *)
ProbedAnyway == Probed

(* The results nobody has overtaken.                                       *)
ProbedUnmoved == Probed \ plan.moved

(* Phase 3: apply them, remove stale connectors, add new ones, update the  *)
(* displays.                                                               *)
Phase3 ==
  /\ plan.phase = "probe" /\ plan.new = {} /\ plan.todo = {} /\ MainLockIsFree
  /\ LET lost == {c \in ProbedUnmoved : plan.results[c].s = "gone"}
         dead == (deleted \ ProbedUnmoved) \cup lost
         stale == IF plan.ok THEN Existing \cap (dead \cup (Connectors \ plan.present))
                             ELSE {}
         joins == {c \in Connectors : /\ plan.added[c] # NotRead
                                      /\ (c \in stale \/ c \notin Existing)}
     IN
     /\ object' = [c \in Connectors |->
                     IF c \in joins THEN plan.added[c]
                     ELSE IF c \in stale THEN Read("gone", 0)
                     ELSE IF c \in ProbedUnmoved THEN Applied(plan.results[c])
                     ELSE object[c]]
     /\ deleted' = dead \ stale
     /\ attached' \in AttachedAfter(object', attached \ stale)
     /\ Return(plan.owner, plan.erred \/ Probed \cap dead # {} \/ Unsettled(object', attached'))
  /\ plan' = NoPlan
  /\ UNCHANGED <<kernel, socket, deferred, booting, probes, changes, failures, late>>

-----------------------------------------------------------------------------
(* UEventListener::ThreadFn.                                               *)

Goto(t, step) == pc' = [pc EXCEPT ![t] = step]

(* ReadNext, and all that are queued.                                      *)
ReadUEvents ==
  /\ pc["listener"] = "read" /\ socket # {}
  /\ event' = [event EXCEPT !["listener"] = socket] /\ socket' = {}
  /\ Goto("listener", "handle")
  /\ UNCHANGED <<kernel, device, deferred, booting, plan, needs, probes, changes, failures,
                 late>>

FollowupMerged == IF needs THEN socket \cup event["listener"] ELSE socket

Followup ==
  /\ pc["listener"] = "window" /\ socket # {}
  /\ event' = [event EXCEPT !["listener"] = FollowupMerged] /\ socket' = {}
  /\ Goto("listener", "handle")
  /\ UNCHANGED <<kernel, device, deferred, booting, plan, needs, probes, changes, failures,
                 late>>

SettleTimeout ==
  /\ pc["listener"] = "window"
  /\ Goto("listener", IF needs THEN "again" ELSE "read")
  /\ UNCHANGED <<kernel, socket, device, deferred, booting, plan, event, needs, probes,
                 changes, failures, late>>

-----------------------------------------------------------------------------
(* The boot animation.  StartEarlyBootAnimation holds neither lock, and    *)
(* the threads are at work already.                                        *)

StartBootAnimation ==
  /\ pc["stopper"] = "start" /\ booting' = TRUE
  /\ Goto("stopper", "watch")
  /\ UNCHANGED <<kernel, socket, device, deferred, plan, event, needs, probes, changes,
                 failures, late>>

(* StopEarlyBootAnimation, by the thread that waits for its end, by the    *)
(* client, or at once if it cannot start; the exchange lets one pass.      *)
StopBootAnimation ==
  /\ pc["stopper"] = "watch" /\ booting' = FALSE
  /\ Goto("stopper", "flush")
  /\ UNCHANGED <<kernel, socket, device, deferred, plan, event, needs, probes, changes,
                 failures, late>>

FlushDeferredHotplug ==
  /\ pc["stopper"] = "flush" /\ HotplugMutexIsFree
  /\ IF deferred = {} THEN Goto("stopper", "done") /\ UNCHANGED <<event, deferred>>
     ELSE /\ event' = [event EXCEPT !["stopper"] = deferred] /\ deferred' = {}
          /\ Goto("stopper", "handle")
  /\ UNCHANGED <<kernel, socket, device, booting, plan, needs, probes, changes, failures,
                 late>>

(* ScheduleDeferredHotplugSettle's thread, after 200 ms.                   *)
SettleThreadWakes ==
  /\ pc["settle"] = "sleep" /\ Goto("settle", "handle")
  /\ UNCHANGED <<kernel, socket, device, deferred, booting, plan, event, needs, probes,
                 changes, failures, late>>

-----------------------------------------------------------------------------
(* The thread of the delayed-EDID recovery.                                *)

(* Wrong on purpose: after the delay.                                      *)
DelayIsOver == TRUE

(* After the delay and the boot animation.                                 *)
DelayAndAnimationAreOver == ~booting

(* The flag is looked at under the mutex of the recovery's own.            *)
RecoveryWaits ==
  /\ pc["recovery"] = "delay" /\ DelayAndAnimationAreOver
  /\ Goto("recovery", "teardown")
  /\ UNCHANGED <<kernel, socket, device, deferred, booting, plan, event, needs, probes,
                 changes, failures, late>>

(* Under the main lock alone.                                              *)
RecoveryTeardown ==
  /\ pc["recovery"] = "teardown" /\ MainLockIsFree
  /\ attached' = attached \ {c \in Quirky : object[c].s = "good"}
  /\ Goto("recovery", "pause")
  /\ UNCHANGED <<kernel, socket, object, deleted, deferred, booting, plan, event, needs,
                 probes, changes, failures, late>>

(* Wrong on purpose: the main lock is enough.                              *)
RecoveryLocks == MainLockIsFree

RecoveryLocksBoth == MainLockIsFree /\ HotplugMutexIsFree

(* RefreshConnectors, and an update that probes every connector; nobody    *)
(* asks whether it left something unsettled.                               *)
RecoveryReprobe ==
  /\ pc["recovery"] = "pause" /\ RecoveryLocksBoth
  /\ \E lost \in {{}} \cup {{c} : c \in Connectors} :
       /\ \A c \in lost : failures < MaxFailures /\ kernel[c].s # "gone"
       /\ failures' = IF lost = {} THEN failures ELSE failures + 1
       /\ late' = late \cup MissedNow(lost)
       /\ deleted' = lost \cap (Existing \ deleted)
       /\ object' = [c \in Connectors |->
                       IF c \in deleted' THEN Read("off", kernel[c].v)
                       ELSE IF c \in lost THEN Read("gone", 0) ELSE kernel[c]]
  /\ attached' \in AttachedAfter(object', attached \ deleted)
  /\ Goto("recovery", "done")
  /\ UNCHANGED <<kernel, socket, deferred, booting, plan, event, needs, probes, changes>>

-----------------------------------------------------------------------------
(* SetPowerMode(kOn), which probes under the main lock a connector that    *)
(* was off: UpdateModesAndProperties.                                      *)

ClientReads(c) ==
  /\ c \in attached /\ MainLockIsFree
  /\ client' = c /\ found' = kernel[c]
  /\ UNCHANGED <<kernel, socket, device, deferred, booting, plan, pc, event, needs, changes,
                 failures, late>>

ClientApplies ==
  /\ client # Nobody
  /\ object' = [object EXCEPT ![client] = Applied(found)]
  /\ deleted' = IF found.s = "gone" THEN deleted \cup {client} ELSE deleted \ {client}
  /\ plan' = [plan EXCEPT !.moved = @ \cup ({client} \cap plan.targets)]
  /\ client' = Nobody /\ found' = NotRead
  /\ UNCHANGED <<kernel, socket, attached, deferred, booting, pc, event, needs, changes,
                 failures, late>>

-----------------------------------------------------------------------------
Handling ==
  \/ \E t \in Handlers : Defer(t) \/ Phase1(t)
  \/ ProbeResources \/ Phase3
  \/ \E c \in Connectors : ProbeNew(c) \/ ProbeTarget(c)

ThreadSteps ==
  ReadUEvents \/ Followup \/ SettleTimeout \/ StartBootAnimation \/ StopBootAnimation
    \/ FlushDeferredHotplug \/ SettleThreadWakes
    \/ RecoveryWaits \/ RecoveryTeardown \/ RecoveryReprobe

Next ==
  \/ Handling \/ ThreadSteps \/ ClientApplies
  \/ \E c \in Connectors : KernelChanges(c) \/ KernelSettles(c) \/ ClientReads(c)

Spec == Init /\ [][Next]_vars

-----------------------------------------------------------------------------
(* Properties.                                                             *)

TypeOK ==
  /\ kernel \in [Connectors -> Reads] /\ object \in [Connectors -> Reads]
  /\ socket \subseteq Connectors /\ deferred \subseteq Connectors
  /\ deleted \subseteq Existing /\ attached \subseteq Existing
  /\ booting \in BOOLEAN
  /\ plan \in [owner : Handlers \cup {Nobody}, phase : {"none", "resources", "probe"},
               targets : SUBSET Connectors, moved : SUBSET Connectors,
               known : SUBSET Connectors, todo : SUBSET Connectors,
               new : SUBSET Connectors, present : SUBSET Connectors,
               ok : BOOLEAN, erred : BOOLEAN,
               results : [Connectors -> Reads], added : [Connectors -> Reads]]
  /\ pc \in [Threads -> {"read", "handle", "again", "window", "start", "watch", "flush",
                         "sleep", "delay", "teardown", "pause", "done"}]
  /\ event \in [Threads -> SUBSET Connectors] /\ needs \in BOOLEAN
  /\ client \in Connectors \cup {Nobody} /\ found \in Reads
  /\ changes \in 0 .. MaxChanges /\ failures \in 0 .. MaxFailures
  /\ late \subseteq Connectors

(* The connectors a handling holds pointers to, while it probes them off   *)
(* the main lock, are not destroyed.                                       *)
TargetsAlive == plan.targets \subseteq Existing

(* Nobody who could still learn something is at work.                      *)
Quiet ==
  /\ socket = {} /\ pc["listener"] = "read" /\ plan = NoPlan /\ client = Nobody
  /\ \A t \in {"stopper", "settle", "recovery"} : pc[t] = "done"

(* When all is quiet, every connector is as the kernel has it, whatever    *)
(* was put off, probed off the lock, overtaken or read in vain; except     *)
(* for those that settled too late and without a uevent.                   *)
HotplugsSeen ==
  Quiet => /\ deferred = {} /\ deleted \subseteq late
           /\ \A c \in Connectors \ late :
                object[c].s = kernel[c].s /\ (c \in attached => object[c].s = "good")

(* A probe never takes a connector back to what it was before a newer one. *)
NeverOlder ==
  [][\A c \in Existing \ deleted :
       object'[c].s # "gone" => object'[c].v >= object[c].v]_vars

(* The threads that have found no boot animation running, and go on.       *)
PastTheCheck ==
  {t \in Threads : plan.owner = t \/ (t = "recovery" /\ pc[t] \in {"teardown", "pause"})}

(* During the boot animation nobody sets out to attach or to detach, and   *)
(* what is attached changes only by the hand of those who had set out      *)
(* before it started: a handling, and the recovery.                        *)
AnimationUndisturbed ==
  [][booting => /\ PastTheCheck' \subseteq PastTheCheck
                /\ attached' # attached => \E t \in PastTheCheck : pc'[t] # pc[t]]_vars
=============================================================================

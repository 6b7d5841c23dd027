---------------------------- MODULE DisplayBinding --------------------------
(***************************************************************************)
(* Which connector is shown on which display: ResourceManager attaches and *)
(* detaches connectors, DrmHwc binds their pipelines to display handles.   *)
(*                                                                         *)
(* All of it runs under the main lock, so one update after another; the    *)
(* steps of an update are separate because they fail separately.  What an  *)
(* update finds on the connectors is what HotplugProbe is about; here it   *)
(* may be anything.  A pipeline is named by its connector, for a connector *)
(* has one at a time.                                                      *)
(***************************************************************************)
EXTENDS Integers, FiniteSets

CONSTANTS
  Internal, External, \* connectors, by kind
  Tiles,              \* the connectors that are tiles of one monitor
  Crtcs,              \* CRTCs of the device: so many pipelines can exist
  MaxHandle           \* bound on the display handles given out

Connectors == Internal \cup External

Primary == 0   \* kPrimaryDisplay
Handles == 0 .. MaxHandle
NoHandle == -1

Headless == "headless" \* a display without a pipeline
Absent == "absent"     \* no such display
Nobody == "nobody"     \* no connector

ASSUME ConstantsAssumption ==
  /\ Internal \cap External = {} /\ IsFiniteSet(Connectors)
  /\ Tiles \subseteq Connectors
  /\ Connectors \cap {Headless, Absent, Nobody} = {}
  /\ Crtcs \in Nat /\ MaxHandle \in Nat

(* What is known of a connector: no longer there, not connected, connected *)
(* without modes, connected with some.                                     *)
States == {"gone", "off", "empty", "good"}

VARIABLES
  state,    \* per connector, one of States
  attached, \* attached_pipelines_
  tiled,    \* attached_tile_groups_
  hwc,      \* members of DrmHwc, see TypeOK
  step,     \* of the update under way
  todo,     \* connectors this step has still to look at
  leaving,  \* the connector DetachConnector looks for a replacement of
  \* history
  failed,     \* connectors the update could not bind
  unpromoted  \* pipelines that FinalizeDisplayBinding unbound but could not bind again

vars == <<state, attached, tiled, hwc, step, todo, leaving, failed, unpromoted>>

Init ==
  /\ state = [c \in Connectors |-> "gone"]
  /\ attached = {} /\ tiled = {}
  /\ hwc = [display |-> [h \in Handles |-> Absent],
            handle |-> [c \in Connectors |-> NoHandle],
            last |-> Primary, removal |-> {}, announced |-> {}]
  /\ step = "idle" /\ todo = {} /\ leaving = Nobody
  /\ failed = {} /\ unpromoted = {}

(* Operators whose comment begins "Wrong on purpose" are no part of the    *)
(* specification: each is a slip the code could have had in the operator   *)
(* after it, kept to show which property notices.                          *)

Connected(c) == state[c] \in {"empty", "good"}

-----------------------------------------------------------------------------
(* DrmHwc.  An operation takes the record of its members and returns the   *)
(* new one.  "announced" holds the displays whose last hotplug event says  *)
(* they are connected.                                                     *)

(* HwcDisplay::SetPipeline.  Without a pipeline the primary display stays, *)
(* headless.                                                               *)
SetPipeline(d, h, pipe) ==
  [d EXCEPT !.display[h] = pipe,
            !.announced = IF pipe # Headless \/ h = Primary THEN @ \cup {h} ELSE @ \ {h}]

(* It fails if there are no modes, and if none is left after filtering.    *)
(* Only the primary display then schedules an event.                       *)
SetPipelineFails(d, h) ==
  [d EXCEPT !.display[h] = Headless, !.announced = @ \cup ({h} \cap {Primary})]

(* Wrong on purpose: a display whose connector goes is not removed.        *)
UnbindOnly(d, pipe) ==
  IF d.handle[pipe] = NoHandle THEN d
  ELSE [SetPipeline(d, d.handle[pipe], Headless) EXCEPT !.handle[pipe] = NoHandle]

(* Wrong on purpose: the pipeline goes with the display, not before.       *)
UnbindLate(d, pipe) ==
  LET h == d.handle[pipe] IN
  IF h \in {NoHandle, Primary} THEN UnbindOnly(d, pipe)
  ELSE [d EXCEPT !.handle[pipe] = NoHandle, !.removal = @ \cup {h},
                 !.announced = @ \ {h}]

UnbindDisplay(d, pipe) ==
  IF d.handle[pipe] = NoHandle THEN d
  ELSE LET h == d.handle[pipe] IN
       [SetPipeline(d, h, Headless) EXCEPT
          !.handle[pipe] = NoHandle,
          !.removal = IF h = Primary THEN @ ELSE @ \cup {h}]

(* Wrong on purpose: a headless primary display counts as taken.           *)
HandleIfPrimaryAbsent(d) ==
  IF d.display[Primary] = Absent THEN Primary ELSE d.last + 1

(* The handle BindDisplay gives: a headless primary display is taken over. *)
HandleToBind(d) ==
  IF d.display[Primary] \in {Headless, Absent} THEN Primary ELSE d.last + 1

BindDisplay(d, pipe) ==
  LET h == HandleToBind(d) IN
  [SetPipeline(d, h, pipe) EXCEPT !.handle[pipe] = h,
                                  !.last = IF h = Primary THEN @ ELSE h]

BindDisplayFails(d) ==
  LET h == HandleToBind(d) IN
  IF h = Primary THEN SetPipelineFails(d, h) ELSE [d EXCEPT !.last = h]

(* Wrong on purpose: the new pipeline is not recorded.                     *)
ReplaceForgetting(d, old, new) ==
  [SetPipeline(d, d.handle[old], new) EXCEPT !.handle[old] = NoHandle]

(* Wrong on purpose: the replaced pipeline is not forgotten.               *)
ReplaceKeeping(d, old, new) ==
  [SetPipeline(d, d.handle[old], new) EXCEPT !.handle[new] = d.handle[old]]

ReplaceDisplay(d, old, new) ==
  [SetPipeline(d, d.handle[old], new) EXCEPT !.handle[old] = NoHandle,
                                             !.handle[new] = d.handle[old]]

(* FinalizeDisplayBinding, its parts.                                      *)
WithPrimary(d) ==
  IF d.display[Primary] = Absent THEN SetPipeline(d, Primary, Headless) ELSE d

Promotable(d) ==
  IF d.display[Primary] = Headless THEN {c \in Connectors : d.handle[c] # NoHandle} ELSE {}

WithoutRemoved(d) ==
  [d EXCEPT !.display = [h \in Handles |-> IF h \in d.removal THEN Absent ELSE @[h]],
            !.removal = {}]

-----------------------------------------------------------------------------
(* ResourceManager.                                                        *)

(* A pipeline exists as long as someone refers to it.                      *)
Pipelines ==
  attached \cup {c \in Connectors : hwc.handle[c] # NoHandle \/
                                    \E h \in Handles : hwc.display[h] = c}

(* CreatePipeline.                                                         *)
CrtcIsFree == Cardinality(Pipelines) < Crtcs

(* An update begins with what a probe found.  Connectors the kernel no     *)
(* longer has, or has again under the same id, are stale.                  *)
BeginUpdate ==
  /\ step = "idle" /\ hwc.last + Cardinality(Connectors) <= MaxHandle
  /\ state' \in [Connectors -> States]
  /\ \E stale \in SUBSET attached :
       /\ {c \in attached : state'[c] = "gone"} \subseteq stale
       /\ todo' = stale
  /\ step' = "stale" /\ failed' = {}
  /\ UNCHANGED <<attached, tiled, hwc, leaving, unpromoted>>

(* The delayed-EDID recovery takes down some monitors, to attach them      *)
(* again in a later update.                                                *)
BeginRecovery ==
  /\ step = "idle"
  /\ \E quirky \in SUBSET {c \in attached \cap External : Connected(c)} :
       quirky # {} /\ todo' = quirky
  /\ step' = "teardown"
  /\ UNCHANGED <<state, attached, tiled, hwc, leaving, failed, unpromoted>>

(* DetachAllFrontendDisplays, from DeInit.                                 *)
BeginDeInit ==
  /\ step = "idle"
  /\ state' = [c \in Connectors |-> "gone"]
  /\ todo' = attached /\ step' = "teardown"
  /\ UNCHANGED <<attached, tiled, hwc, leaving, failed, unpromoted>>

Forget(c) ==
  /\ attached' = attached \ {c} /\ tiled' = tiled \ {c}
  /\ unpromoted' = unpromoted \ {c}

(* DetachStalePipelines, and the loops of the recovery and of DeInit.      *)
DetachStale(c) ==
  /\ step \in {"stale", "teardown"} /\ c \in todo
  /\ todo' = todo \ {c}
  /\ hwc' = UnbindDisplay(hwc, c)
  /\ Forget(c)
  /\ UNCHANGED <<state, step, leaving, failed>>

DetachStaleDone ==
  /\ step \in {"stale", "teardown"} /\ todo = {}
  /\ step' = IF step = "stale" THEN "disconnect" ELSE "finalize"
  /\ UNCHANGED <<state, attached, tiled, hwc, todo, leaving, failed, unpromoted>>

(* UpdateFrontendDisplays, pass 2: DetachConnector.  Another tile of the   *)
(* monitor may take the display over.                                      *)
DetachConnector(c) ==
  /\ step = "disconnect" /\ c \in attached /\ ~Connected(c)
  /\ step' = "failover" /\ leaving' = c
  /\ todo' = IF c \notin tiled THEN {}
             ELSE {b \in Tiles \ attached : state[b] = "good"}
  /\ UNCHANGED <<state, attached, tiled, hwc, failed, unpromoted>>

FailoverTo(b) ==
  /\ step = "failover" /\ b \in todo
  /\ CrtcIsFree /\ hwc.handle[leaving] # NoHandle
  /\ hwc' = ReplaceDisplay(hwc, leaving, b)
  /\ attached' = (attached \ {leaving}) \cup {b}
  /\ tiled' = (tiled \ {leaving}) \cup {b}
  /\ unpromoted' = unpromoted \ {leaving}
  /\ step' = "disconnect" /\ todo' = {} /\ leaving' = Nobody
  /\ UNCHANGED <<state, failed>>

FailoverFails(b) ==
  /\ step = "failover" /\ b \in todo
  /\ IF CrtcIsFree /\ hwc.handle[leaving] # NoHandle
       THEN hwc' = SetPipelineFails(hwc, hwc.handle[leaving])
       ELSE UNCHANGED hwc
  /\ todo' = todo \ {b}
  /\ UNCHANGED <<state, attached, tiled, step, leaving, failed, unpromoted>>

DetachConnectorDone ==
  /\ step = "failover" /\ todo = {}
  /\ hwc' = UnbindDisplay(hwc, leaving)
  /\ Forget(leaving)
  /\ step' = "disconnect" /\ leaving' = Nobody
  /\ UNCHANGED <<state, todo, failed>>

DisconnectsDone ==
  /\ step = "disconnect" /\ \A c \in attached : Connected(c)
  /\ step' = "connect" /\ todo' = Connectors
  /\ UNCHANGED <<state, attached, tiled, hwc, leaving, failed, unpromoted>>

(* Wrong on purpose: connectors in any order.                              *)
IsAnyInOrder(c) == c \in todo

(* GetOrderedConnectors.                                                   *)
IsNextInOrder(c) == c \in todo /\ (c \in Internal \/ todo \cap Internal = {})

(* Wrong on purpose: tiles are attached like other connectors.             *)
SiblingsIgnored(c) == FALSE

(* FindAttachedSiblingTileConnector.                                       *)
HasAttachedSibling(c) == c \in Tiles /\ (tiled \cap attached) \ {c} # {}

(* Pass 3: ProcessHotplugForConnector.                                     *)
WantsPipeline(c) ==
  /\ step = "connect" /\ IsNextInOrder(c)
  /\ Connected(c) /\ c \notin attached /\ ~HasAttachedSibling(c)

(* Init probes a connector without modes once more.                        *)
Reprobed(c, found) ==
  /\ state[c] = "good" => found = "good"
  /\ state' = [state EXCEPT ![c] = found]

Attach(c) ==
  /\ WantsPipeline(c) /\ CrtcIsFree
  /\ Reprobed(c, "good")
  /\ hwc' = BindDisplay(hwc, c)
  /\ attached' = attached \cup {c}
  /\ tiled' = IF c \in Tiles THEN tiled \cup {c} ELSE tiled
  /\ todo' = todo \ {c}
  /\ UNCHANGED <<step, leaving, failed, unpromoted>>

AttachFails(c) ==
  /\ WantsPipeline(c) /\ CrtcIsFree
  /\ \E found \in States \ {"gone"} : Reprobed(c, found)
  /\ hwc' = BindDisplayFails(hwc)
  /\ failed' = failed \cup {c}
  /\ todo' = todo \ {c}
  /\ UNCHANGED <<attached, tiled, step, leaving, unpromoted>>

(* No modes over a link that is bad.                                       *)
BadCable(c) ==
  /\ WantsPipeline(c) /\ state[c] = "empty"
  /\ failed' = failed \cup {c}
  /\ todo' = todo \ {c}
  /\ UNCHANGED <<state, attached, tiled, hwc, step, leaving, unpromoted>>

NothingToAttach(c) ==
  /\ step = "connect" /\ IsNextInOrder(c)
  /\ ~WantsPipeline(c) \/ ~CrtcIsFree
  /\ todo' = todo \ {c}
  /\ UNCHANGED <<state, attached, tiled, hwc, step, leaving, failed, unpromoted>>

ConnectsDone ==
  /\ step = "connect" /\ todo = {}
  /\ step' = "finalize"
  /\ UNCHANGED <<state, attached, tiled, hwc, todo, leaving, failed, unpromoted>>

(* A headless primary display takes over the pipeline of another.          *)
FinalizeDisplayBinding ==
  /\ step = "finalize"
  /\ LET d == WithPrimary(hwc) IN
     \/ /\ Promotable(d) = {}
        /\ hwc' = WithoutRemoved(d)
        /\ UNCHANGED <<state, unpromoted>>
     \/ \E pipe \in Promotable(d) :
          /\ Reprobed(pipe, "good")
          /\ hwc' = WithoutRemoved(BindDisplay(UnbindDisplay(d, pipe), pipe))
          /\ UNCHANGED unpromoted
     \/ \E pipe \in Promotable(d) :
          /\ \E found \in States \ {"gone"} : Reprobed(pipe, found)
          /\ hwc' = WithoutRemoved(BindDisplayFails(UnbindDisplay(d, pipe)))
          /\ unpromoted' = unpromoted \cup {pipe}
  /\ step' = "idle"
  /\ UNCHANGED <<attached, tiled, todo, leaving, failed>>

Next ==
  \/ BeginUpdate \/ BeginRecovery \/ BeginDeInit
  \/ DetachStaleDone \/ DetachConnectorDone \/ DisconnectsDone \/ ConnectsDone
  \/ FinalizeDisplayBinding
  \/ \E c \in Connectors :
       \/ DetachStale(c) \/ DetachConnector(c) \/ FailoverTo(c) \/ FailoverFails(c)
       \/ Attach(c) \/ AttachFails(c) \/ BadCable(c) \/ NothingToAttach(c)

Spec == Init /\ [][Next]_vars

-----------------------------------------------------------------------------
(* Properties.                                                             *)

TypeOK ==
  /\ state \in [Connectors -> States]
  /\ attached \subseteq Connectors /\ tiled \subseteq attached \cap Tiles
  /\ hwc \in [display : [Handles -> Connectors \cup {Headless, Absent}], \* displays_
              handle : [Connectors -> Handles \cup {NoHandle}],          \* display_handles_
              last : Handles,                                            \* last_display_handle_
              removal : SUBSET Handles,                                  \* displays_for_removal_list_
              announced : SUBSET Handles]
  /\ step \in {"idle", "stale", "teardown", "disconnect", "failover", "connect", "finalize"}
  /\ todo \subseteq Connectors
  /\ leaving \in IF step = "failover" THEN attached ELSE {Nobody}
  /\ failed \subseteq Connectors /\ unpromoted \subseteq attached

(* displays_ and display_handles_ are each other's inverse whenever the    *)
(* main lock is free: no pipeline is shown on two displays, none is left   *)
(* on a display of which it is not recorded, and so destroyed late.        *)
BindingsAgree ==
  step = "idle" =>
    \A c \in Connectors, h \in Handles : hwc.display[h] = c <=> hwc.handle[c] = h

(* Every attached connector has a display and the other way round, except  *)
(* after a promotion to the primary display that failed.                   *)
AttachedIsBound ==
  step = "idle" =>
    \A c \in Connectors : c \in attached <=> hwc.handle[c] # NoHandle \/ c \in unpromoted

(* ResourceManager.cpp:693-696 says of a binding that fails that the       *)
(* connector is left unattached, so that later uevents try again; the      *)
(* binding in FinalizeDisplayBinding may fail as well.                     *)
NoDisplayLost ==
  step = "idle" => \A c \in attached : hwc.handle[c] # NoHandle

(* A display that is bound when the primary display is headless takes its  *)
(* place, unless that was tried and failed.                                *)
PrimaryTaken ==
  step = "idle" /\ Promotable(hwc) # {} => unpromoted # {}

(* The client was told of exactly the displays there are.                  *)
AnnouncedExist ==
  step = "idle" => hwc.announced = {h \in Handles : hwc.display[h] # Absent}

(* After an update no display shows a connector that was found             *)
(* disconnected, and a connected one without a display either failed, is   *)
(* a tile of a monitor that is shown, or found every CRTC in use for       *)
(* another that is connected.                                              *)
ConnectedShown ==
  step = "connect" /\ todo = {} =>
    /\ \A c \in attached : Connected(c)
    /\ \A c \in Connectors : Connected(c) /\ c \notin attached \cup failed =>
         HasAttachedSibling(c) \/ Cardinality(attached) >= Crtcs

(* A monitor made of tiles is shown once.                                  *)
OneTileShown == Cardinality(attached \cap Tiles) <= 1

(* An external display is given a CRTC and a handle, perhaps the primary   *)
(* one, only when no internal display is left that could have them.        *)
InternalFirst ==
  [][\A c \in External, i \in Internal :
       Attach(c) /\ Connected(i) => i \in attached \cup failed \/ HasAttachedSibling(i)]_vars
-----------------------------------------------------------------------------
(* A handle below the last one that no display is announced on is spent.   *)
Life == INSTANCE DisplayLife WITH
  life <- [h \in Handles |-> IF h \in hwc.announced THEN "connected"
                             ELSE IF h \in 1 .. hwc.last THEN "spent" ELSE "unused"]

(* No handle is given to a second display, and the primary one stays,      *)
(* through all the ways an update can fail: DisplayLife is implemented.    *)
HandlesNeverReused == Life!Spec
=============================================================================

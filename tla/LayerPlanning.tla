--------------------------- MODULE LayerPlanning ----------------------------
(***************************************************************************)
(* From the client's layers to the planes of a display: the two            *)
(* composition planners, the plan that joins layers to planes, and the     *)
(* planes that the displays of a device share.                             *)
(*                                                                         *)
(* A frame is validated, which decides for every layer whether a plane     *)
(* shows it or the client draws it into its target, then the client        *)
(* updates its target, and the frame is presented.  Each of the calls      *)
(* holds the composer's main lock; those of several displays interleave.   *)
(*                                                                         *)
(* The layers of a display are a sequence, from back to front: the client  *)
(* numbers them 0, 1, ... and a cursor is in front.  A layer is a record:  *)
(*   sf      the type the client asks for (GetSfType)                      *)
(*   usable  it has a framebuffer and needs no scaling that is forced on   *)
(*           the GPU                                                       *)
(*   on      kinds of plane that accept it (DrmPlane::IsValidForLayer)     *)
(*   hidden  its alpha is 0: the client has cached it in another layer     *)
(*   video   its buffer has a video format                                 *)
(*   busy    it shows 12 frames a second or more; the others at most one   *)
(*   limits  "none", "scaled": takes one of the backend's scalers,         *)
(*           "shrunk": takes the first of them only (a video, or smaller   *)
(*           than its buffer), "beyond": the backend takes it on no plane  *)
(*   pixels  what the GPU pays to draw it                                  *)
(*                                                                         *)
(* The short circuit that skips the validation of an unchanged frame is    *)
(* off (a system property) and the colour transform has no offset.         *)
(***************************************************************************)
EXTENDS Naturals, Integers, Sequences, FiniteSets, FiniteSetsExt, SequencesExt

CONSTANTS
  Displays,    \* displays with a pipeline, all on one DRM device
  None,        \* nothing
  Planes,      \* overlay and cursor planes, in the order of GetPlanes(): of
               \* each, its kind and the displays it can serve (crtcs)
  Stacks,      \* layers a display may be given, from back to front
  Buffers,     \* buffers of the client target
  Planners,    \* planners a backend may create, of "range" and "mappers"
  MaxScalers   \* kMaxHardwareScalers

LayerType == [sf : {"Client", "Device", "Cursor", "DeviceOccluded"},
              usable : BOOLEAN, on : SUBSET {"primary", "overlay", "cursor"},
              hidden : BOOLEAN, video : BOOLEAN, busy : BOOLEAN,
              limits : {"none", "scaled", "shrunk", "beyond"}, pixels : Nat]

ASSUME ConstantsAssumption ==
  /\ Planes \in Seq([kind : {"overlay", "cursor"}, crtcs : SUBSET Displays])
  /\ None \notin Displays \cup Buffers
  /\ Stacks \in [Displays -> SUBSET (Seq(LayerType) \ {<<>>})]
  /\ \A d \in Displays : \A s \in Stacks[d] : \A i \in 1 .. (Len(s) - 1) : s[i].sf # "Cursor"
  /\ Planners \subseteq {"range", "mappers"} /\ MaxScalers \in Nat

Primary == 0   \* the primary plane of a display, bound for good; 1, 2, ... the others
Target == 0    \* the client target among the layers 1, 2, ...

VARIABLES
  planner,   \* the planner the backend has created
  frame,     \* of each display: the frame it is given, with
             \*   stack, its layers; types, their validated types;
             \*   pending, validated_composition_ is set;
             \*   plans, its composition_plan: a set of at most one
  target,    \* the buffer of the client target, None before the first
  used       \* used_planes of committed_frame_state_

vars == <<planner, frame, target, used>>

-----------------------------------------------------------------------------
(* Planes.  A plane is bound to a display while a plan or the frame on its *)
(* screen refers to it.  (Operators whose comment begins "Wrong on         *)
(* purpose" are no part of the specification: each is a slip the code      *)
(* could have had in the operator after it, kept to show which property    *)
(* notices.)                                                               *)

PlanPlanes(plan) == {plan[k].plane : k \in DOMAIN plan} \ {Primary}

Reserved(d) == IF frame[d] = None THEN {} ELSE UNION {PlanPlanes(p) : p \in frame[d].plans}

Holds(d) == used[d] \cup Reserved(d)

\* Wrong on purpose: planes that are reserved but not on a screen yet can be bound.
BindUnlessShown(p, d) ==
  d \in Planes[p].crtcs /\ \A e \in Displays \ {d} : p \notin used[e]

\* BindPipeline, for a plane that can serve the CRTC of the display.
BindPipeline(p, d) ==
  d \in Planes[p].crtcs /\ \A e \in Displays \ {d} : p \notin Holds(e)

\* GetUsablePlanes: the primary plane and the overlay planes that can be bound.
UsablePlanes(d) ==
  {Primary} \cup {p \in DOMAIN Planes : Planes[p].kind = "overlay" /\ BindPipeline(p, d)}

CursorPlanes(d) ==
  {p \in DOMAIN Planes : Planes[p].kind = "cursor" /\ BindPipeline(p, d)}

\* GetCursorPlane: the first that can be bound, if there is one.
CursorPlane(d) == {p \in CursorPlanes(d) : \A q \in CursorPlanes(d) : p <= q}

KindOf(p) == IF p = Primary THEN "primary" ELSE Planes[p].kind

-----------------------------------------------------------------------------
(* The joining plan.                                                       *)

\* CreateLayerToPlaneJoiningPlan of HwcDisplay: the layers that have a place in
\* the plan; the client target takes that of the lowest layer drawn into it.
IsFirstClient(types, i) == types[i] = "Client" /\ \A j \in 1 .. (i - 1) : types[j] # "Client"

Items(types) == {i \in DOMAIN types : types[i] = "Device" \/ IsFirstClient(types, i)}

\* The k-th of them, from back to front.
ItemAt(types, k) ==
  CHOOSE i \in Items(types) : Cardinality({j \in Items(types) : j <= i}) = k

Shown(types, i) == IF types[i] = "Client" THEN Target ELSE i

Accepts(plane, stack, item) == item = Target \/ KindOf(plane) \in stack[item].on

\* Every item has a plane of its own that accepts it, in the order of the
\* planes.  The planes are searched from the first: the assignment is the
\* least one.
Assignments(d, stack, types) ==
  LET slots == 1 .. Cardinality(Items(types))
  IN  {a \in [slots -> UsablePlanes(d)] :
         /\ \A i, j \in slots : i < j => a[i] < a[j]
         /\ \A i \in slots : Accepts(a[i], stack, Shown(types, ItemAt(types, i)))}

LeastAssignments(d, stack, types) ==
  LET A == Assignments(d, stack, types)
  IN  {a \in A : \A b \in A : \A i \in DOMAIN a : a[i] <= b[i]}

\* A slot holds a copy of the layer: of the client target, the buffer it had.
Slot(d, item, plane) ==
  [item |-> item, plane |-> plane,
   buffer |-> IF item = Target THEN target[d] ELSE None]

UsesCursorPlane(types) == \E i \in DOMAIN types : types[i] = "Cursor"

\* The items in their order, and the cursor in front of them.
PlanOf(d, types, a, cursor) ==
  LET n == Cardinality(Items(types))
      size == IF UsesCursorPlane(types) THEN n + 1 ELSE n
  IN  [k \in 1 .. size |->
         IF k \in DOMAIN a THEN Slot(d, Shown(types, ItemAt(types, k)), a[k])
         ELSE Slot(d, Len(types), cursor)]

\* A set of at most one plan; there is none when an item has no framebuffer or
\* not every item, or the cursor, has its plane.
JoiningPlans(d, stack, types) ==
  IF /\ \A i \in Items(types) : IF types[i] = "Client" THEN target[d] # None ELSE stack[i].usable
     /\ UsesCursorPlane(types) => "cursor" \in stack[Len(stack)].on
  THEN {PlanOf(d, types, a, c) :
          a \in LeastAssignments(d, stack, types),
          c \in IF UsesCursorPlane(types) THEN CursorPlane(d) ELSE {None}}
  ELSE {}

\* Wrong on purpose: the copy of the client target that was tested is presented.
KeepTestedTarget(d, types, plan) == plan

\* client_z_order, the z-order of that layer, is used as an index of the plan.
UpdateClientTarget(d, types, plan) ==
  [k \in DOMAIN plan |->
     IF k \in DOMAIN types /\ IsFirstClient(types, k)
     THEN Slot(d, Target, plan[k].plane) ELSE plan[k]]

\* CreateFrameUpdateCommit: the plan of the validation or a new one.
FramePlans(d) ==
  IF frame[d].plans # {}
  THEN {UpdateClientTarget(d, frame[d].types, p) : p \in frame[d].plans}
  ELSE JoiningPlans(d, frame[d].stack, frame[d].types)

-----------------------------------------------------------------------------
(* A validation.  "answers" names the tests that the kernel accepts.       *)

HasCursor(stack) == stack[Len(stack)].sf = "Cursor"

\* The tests a planner may make of these layers.
Tests(stack) ==
  (IF planner = "range" THEN {"first"} ELSE {"underlay", "leftover", "rest"})
    \cup (IF HasCursor(stack) THEN {"cursor", "fallback"} ELSE {})

AllClient(stack) == [i \in DOMAIN stack |-> "Client"]

\* TestComposition: the plans of a composition that has one and is accepted.
TestComposition(d, stack, types, test, answers) ==
  IF test \in answers THEN JoiningPlans(d, stack, types) ELSE {}

MustBeClientComposited(layer) ==
  layer.sf \notin {"Device", "Cursor", "DeviceOccluded"} \/ ~layer.usable

\* Wrong on purpose: the tested plan is not kept.
ForgetPlan(types, plans) == [types |-> types, plans |-> {}]

Outcome(types, plans) == [types |-> types, plans |-> plans]

-----------------------------------------------------------------------------
(* GenericCompositionPlanner: one range of layers is drawn by the client.  *)

IsClientLayer(layer) == layer.sf \notin {"Device", "Cursor"} \/ ~layer.usable

ClientLayers(stack) == {i \in DOMAIN stack : IsClientLayer(stack[i])}

\* CalcPixOps: of "size" layers, after the first "start" ones.
PixOps(stack, start, size) ==
  LET pixops[n \in Nat] ==
        IF n = 0 THEN 0 ELSE pixops[n - 1] + stack[start + n].pixels
  IN  pixops[size]

\* Wrong on purpose: the first window is taken.
FirstStart(stack, starts, size) == Min(starts)

\* The range of "size" layers, starting at one of "starts", that costs least.
CheapestStart(stack, starts, size) ==
  CHOOSE s \in starts :
    \A t \in starts : \/ PixOps(stack, s, size) < PixOps(stack, t, size)
                      \/ PixOps(stack, s, size) = PixOps(stack, t, size) /\ s <= t

\* GetClientLayers: from the first layer the client has to draw to the last.
RequiredRange(stack) ==
  LET C == ClientLayers(stack)
  IN  IF C = {} THEN [start |-> 0, size |-> 0]
      ELSE [start |-> Min(C) - 1, size |-> Max(C) - Min(C) + 1]

\* GetExtraClientRange: layers that find no plane are added to the range.
ExtraClientRange(stack, range, planes, useCursor) ==
  LET n == IF useCursor THEN Len(stack) - 1 ELSE Len(stack)
      m == IF planes < n THEN planes - 1 ELSE planes
      reserve == /\ ~useCursor /\ m > 0 /\ n > 0 /\ range.start + range.size < n
                 /\ HasCursor(stack)
      avail == IF reserve THEN m - 1 ELSE m
      last == IF reserve THEN n - 1 ELSE n
      extra == (last - range.size) - avail
      prepend == Min({range.start, extra})
      append == Min({last - (range.start + range.size), extra})
      first == range.start - prepend
      size == range.size + extra
      starts == IF range.size # 0
                THEN first .. first + Min({append, prepend, last - (first + size)})
                ELSE 0 .. last - extra
  IN  IF extra > 0 THEN [start |-> CheapestStart(stack, starts, size), size |-> size]
      ELSE range

RangeTypes(stack, range, useCursor) ==
  [i \in DOMAIN stack |->
     IF i \in (range.start + 1) .. (range.start + range.size) THEN "Client"
     ELSE IF useCursor /\ stack[i].sf = "Cursor" THEN "Cursor" ELSE "Device"]

AllButCursor(stack) == [start |-> 0, size |-> Len(stack) - 1]

RangeUsesCursorPlane(d, stack, answers) ==
  LET cursor == stack[Len(stack)]
  IN  /\ HasCursor(stack) /\ CursorPlanes(d) # {} /\ ~IsClientLayer(cursor)
      /\ "cursor" \in cursor.on
      /\ TestComposition(d, stack, RangeTypes(stack, AllButCursor(stack), TRUE),
                         "cursor", answers) # {}

\* validate_and_test: a frame drawn by the client alone needs no test.
TestedRange(d, stack, range, useCursor, test, answers) ==
  LET types == RangeTypes(stack, range, useCursor)
  IN  IF range.start = 0 /\ range.size = Len(stack) THEN {Outcome(types, {})}
      ELSE {Outcome(types, {p}) : p \in TestComposition(d, stack, types, test, answers)}

RangeValidate(d, stack, answers) ==
  LET useCursor == RangeUsesCursorPlane(d, stack, answers)
      range == ExtraClientRange(stack, RequiredRange(stack), Cardinality(UsablePlanes(d)),
                                useCursor)
      first == TestedRange(d, stack, range, useCursor, "first", answers)
      fallback == IF HasCursor(stack)
                  THEN TestedRange(d, stack, AllButCursor(stack), useCursor,
                                   "fallback", answers)
                  ELSE {}
  IN  IF first # {} THEN first
      ELSE IF fallback # {} THEN fallback
      ELSE {Outcome(AllClient(stack), {})}

-----------------------------------------------------------------------------
(* GenericLayerMapperCompositionPlanner: mappers assign types in turn.  A  *)
(* mapping gives each layer a type, "Invalid" when it has none yet.        *)

Undecided == {"Client", "Invalid"}

CountRemainingPlanes(d, m) ==
  Cardinality(UsablePlanes(d)) - Cardinality({i \in DOMAIN m : m[i] = "Device"})
    - (IF \E i \in DOMAIN m : m[i] \in Undecided THEN 1 ELSE 0)

\* IntelValidateMapping: the limits of a layer, and of the scalers.
BackendValid(stack, m) ==
  LET onPlanes == {i \in DOMAIN m : m[i] \notin Undecided}
      scaling == {i \in onPlanes : stack[i].limits \in {"scaled", "shrunk"}}
  IN  /\ \A i \in onPlanes : stack[i].limits # "beyond"
      /\ \A i \in scaling : stack[i].limits = "shrunk" => \A j \in scaling : i <= j
      /\ Cardinality(scaling) <= MaxScalers

Validator(d, stack, m) == CountRemainingPlanes(d, m) >= 0 /\ BackendValid(stack, m)

InvalidToClient(m) == [i \in DOMAIN m |-> IF m[i] = "Invalid" THEN "Client" ELSE m[i]]

CursorCompositionType(d, stack, answers) ==
  LET n == Len(stack)
      fallback == IF HasCursor(stack) THEN "Device" ELSE "Client"
  IN  IF /\ HasCursor(stack) /\ CursorPlanes(d) # {}
         /\ ~MustBeClientComposited(stack[n]) /\ "cursor" \in stack[n].on
         /\ TestComposition(d, stack, [AllClient(stack) EXCEPT ![n] = "Cursor"],
                            "cursor", answers) # {}
      THEN "Cursor" ELSE fallback

CursorLayerMapper(d, stack, m, type) ==
  LET n == Len(stack)
      new == IF HasCursor(stack) THEN [m EXCEPT ![n] = type] ELSE m
  IN  IF m[n] # "Client" /\ Validator(d, stack, new) THEN new ELSE m

LayerCachingMapper(stack, m) ==
  [i \in DOMAIN m |->
     IF stack[i].sf \in {"Device", "DeviceOccluded"} /\ stack[i].hidden
     THEN "DeviceOccluded" ELSE m[i]]

\* The client caches layers, and all that moves is at the back.
IsUnderlayHotspot(stack, m) ==
  /\ \E i \in DOMAIN m : m[i] \notin {"Device", "Cursor"} /\ stack[i].hidden
  /\ stack[1].busy
  /\ \A i \in DOMAIN m \ {1} : stack[i].sf = "Cursor" \/ stack[i].hidden \/ ~stack[i].busy

UnderlayMapper(d, stack, m) ==
  LET new == [m EXCEPT ![1] = "Device"]
  IN  IF /\ stack[1].sf = "Device" /\ m[1] # "Client"
         /\ stack[1].video \/ IsUnderlayHotspot(stack, m)
         /\ Validator(d, stack, new)
      THEN new ELSE m

LeftoverLayerMapper(d, stack, m) ==
  LET invalid == {i \in DOMAIN m : m[i] = "Invalid"}
      new == [i \in DOMAIN m |-> IF i \in invalid THEN "Device" ELSE m[i]]
  IN  IF /\ Cardinality(invalid) = 1 /\ \A i \in DOMAIN m : m[i] # "Client"
         /\ Validator(d, stack, new)
      THEN new ELSE m

RequiredMapping(stack) ==
  [i \in DOMAIN stack |-> IF MustBeClientComposited(stack[i]) THEN "Client" ELSE "Invalid"]

MapperValidate(d, stack, answers) ==
  LET n == Len(stack)
      cursorType == CursorCompositionType(d, stack, answers)
      Passes(m, test) == TestComposition(d, stack, m, test, answers) # {}
      m1 == CursorLayerMapper(d, stack, RequiredMapping(stack), cursorType)
      m2 == LayerCachingMapper(stack, m1)
      m3 == UnderlayMapper(d, stack, m2)
      underlay == Passes(InvalidToClient(m3), "underlay")
      m4 == IF underlay THEN m3 ELSE m2
      m5 == LeftoverLayerMapper(d, stack, m4)
      leftover == m5 # m4 /\ Passes(InvalidToClient(m5), "leftover")
      m6 == IF leftover THEN m5 ELSE m4
      rest == underlay \/ leftover \/ Passes(InvalidToClient(m6), "rest")
      m7 == CursorLayerMapper(d, stack, [AllClient(stack) EXCEPT ![n] = "Invalid"],
                              cursorType)
      types == IF rest THEN InvalidToClient(m6)
               ELSE IF m6[n] = "Cursor" /\ HasCursor(stack) /\ Passes(m7, "fallback")
               THEN m7
               ELSE AllClient(stack)
  IN  {Outcome(types, {})}

-----------------------------------------------------------------------------
(* The calls of the client.                                                *)

Init ==
  /\ planner \in Planners
  /\ frame = [d \in Displays |-> None]
  /\ target = [d \in Displays |-> None]
  /\ used = [d \in Displays |-> {}]

Outcomes(d, stack, answers) ==
  IF planner = "range" THEN RangeValidate(d, stack, answers)
  ELSE MapperValidate(d, stack, answers)

Validated(d, stack, outcome) ==
  /\ frame' = [frame EXCEPT ![d] = [stack |-> stack, types |-> outcome.types,
                                    pending |-> TRUE, plans |-> outcome.plans]]
  /\ UNCHANGED <<planner, target, used>>

Validate(d) ==
  \E stack \in Stacks[d] :
   \E answers \in SUBSET Tests(stack) :
    \E outcome \in Outcomes(d, stack, answers) : Validated(d, stack, outcome)

\* An idle scene, or a colour transform or gamuts that planes cannot apply.
ValidateFlattened(d) ==
  \E stack \in Stacks[d] : Validated(d, stack, Outcome(AllClient(stack), {}))

\* The client has drawn what it was told to draw.
SetClientTarget(d) ==
  /\ \E b \in Buffers \ {target[d]} : target' = [target EXCEPT ![d] = b]
  /\ UNCHANGED <<planner, frame, used>>

\* PresentStagedComposition; a frame that was not validated again is
\* presented with the validated types of its layers.
FrameDone(d) ==
  frame' = [frame EXCEPT ![d] = [stack |-> @.stack, types |-> @.types,
                                 pending |-> FALSE, plans |-> {}]]

Present(d) ==
  /\ frame[d] # None
  /\ \E plan \in FramePlans(d) : used' = [used EXCEPT ![d] = PlanPlanes(plan)]
  /\ FrameDone(d)
  /\ UNCHANGED <<planner, target>>

\* There is no plan, or the kernel rejects the commit.
PresentFails(d) ==
  /\ frame[d] # None
  /\ FrameDone(d)
  /\ UNCHANGED <<planner, target, used>>

Next ==
  \E d \in Displays : \/ Validate(d) \/ ValidateFlattened(d) \/ SetClientTarget(d)
                      \/ Present(d) \/ PresentFails(d)

Spec == Init /\ [][Next]_vars

-----------------------------------------------------------------------------
(* Properties.                                                             *)

\* Types, as far as the displays and the planes go.
TypeOK ==
  /\ planner \in Planners
  /\ DOMAIN frame = Displays
  /\ \A d \in Displays : frame[d] # None =>
       frame[d].pending \in BOOLEAN /\ Reserved(d) \subseteq DOMAIN Planes
  /\ target \in [Displays -> Buffers \cup {None}]
  /\ used \in [Displays -> SUBSET DOMAIN Planes]

\* The slot that shows layer i: its own, or that of the client target.
ShowsLayer(f, plan, i) ==
  {j \in DOMAIN plan : plan[j].item = IF f.types[i] = "Client" THEN Target ELSE i}

\* Whatever the two planners decide, each layer that can be seen is shown
\* once, none in front of a layer that covers it, and the client target with
\* the buffer the client drew last, although the plan was made before it was
\* drawn (ValidateDisplay of both planners, CreateLayerToPlaneJoiningPlan and
\* UpdateClientTargetIfNeeded).
ShownInOrder ==
  \A d \in Displays : frame[d] # None =>
    LET f == frame[d]
        visible == {i \in DOMAIN f.stack : ~f.stack[i].hidden}
    IN  \A plan \in FramePlans(d) :
          /\ \A i \in visible : Cardinality(ShowsLayer(f, plan, i)) = 1
          /\ \A i, j \in visible : i < j =>
               \A k \in ShowsLayer(f, plan, i), l \in ShowsLayer(f, plan, j) : k <= l
          /\ \A k \in DOMAIN plan : plan[k].item = Target => plan[k].buffer = target[d]

\* No plane is on the screen, or planned, for two displays: a plane another
\* display scans out or has reserved by a validation is never planned
\* (BindPipeline and the lifetime of plans and of committed frames).
PlanesExclusive ==
  \A d, e \in Displays : d # e => Holds(d) \cap Holds(e) = {}

\* What was validated can be presented once the client has drawn its target,
\* whatever other displays validate and present in between.
Presentable ==
  \A d \in Displays :
    frame[d] # None /\ target[d] # None =>
      (frame[d].pending => FramePlans(d) # {})

\* GenericCompositionPlanner keeps the plan it has tested: the planes stay
\* reserved for the display until it presents (TestComposition).
RangePresentable == planner = "range" => Presentable

\* The range the client draws is the cheapest of those that leave every other
\* layer a plane; a cursor is left out of it when one of them does, however
\* many planes there are (GetClientLayers and GetExtraClientRange).
Fits(stack, range, planes, useCursor) ==
  LET n == IF useCursor THEN Len(stack) - 1 ELSE Len(stack)
  IN  /\ range.start + range.size <= n
      /\ ClientLayers(stack) \subseteq (range.start + 1) .. (range.start + range.size)
      /\ (n - range.size) + (IF range.size > 0 THEN 1 ELSE 0) <= planes

CheapestRange(stack, planes, useCursor) ==
  LET n == Len(stack)
      range == ExtraClientRange(stack, RequiredRange(stack), planes, useCursor)
      fitting == {r \in [start : 0 .. n, size : 0 .. n] : Fits(stack, r, planes, useCursor)}
      sparing == IF HasCursor(stack) THEN {r \in fitting : r.start + r.size < n} ELSE {}
  IN  /\ range \in (IF sparing # {} THEN sparing ELSE fitting)
      /\ \A r \in (IF sparing # {} THEN sparing ELSE fitting) :
           PixOps(stack, range.start, range.size) <= PixOps(stack, r.start, r.size)

CanUseCursorPlane(stack) ==
  HasCursor(stack) /\ ~IsClientLayer(stack[Len(stack)])

CheapestClientRange ==
  \A d \in Displays : frame[d] # None =>
    \A planes \in 1 .. (Len(Planes) + 1), useCursor \in BOOLEAN :
      (useCursor => CanUseCursorPlane(frame[d].stack)) =>
        CheapestRange(frame[d].stack, planes, useCursor)
=============================================================================

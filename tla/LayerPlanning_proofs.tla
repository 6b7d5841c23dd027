------------------------ MODULE LayerPlanning_proofs ------------------------
(***************************************************************************)
(* Proofs about LayerPlanning, for any displays, planes, stacks of layers, *)
(* answers of the kernel and planners.                                     *)
(***************************************************************************)
EXTENDS LayerPlanning, FiniteSetTheorems, WellFoundedInduction, TLAPS

-----------------------------------------------------------------------------
(* The plans of a display use the planes it can bind.                      *)

\* A plane the display can bind is one that no other display holds.
Bindable(d) == {p \in DOMAIN Planes : \A e \in Displays \ {d} : p \notin Holds(e)}

\* The planes of a joining plan can be bound (CreateLayerToPlaneJoiningPlan).
LEMMA JoiningPlansBindable ==
  ASSUME NEW d, NEW stack, NEW types, NEW plan \in JoiningPlans(d, stack, types)
  PROVE  PlanPlanes(plan) \subseteq Bindable(d)
<1>1. PICK a \in LeastAssignments(d, stack, types),
           c \in (IF UsesCursorPlane(types) THEN CursorPlane(d) ELSE {None}) :
         plan = PlanOf(d, types, a, c)
  BY DEF JoiningPlans
<1> DEFINE slots == 1 .. Cardinality(Items(types))
<1>2. a \in [slots -> UsablePlanes(d)]
  BY DEF LeastAssignments, Assignments
<1>3. UsablePlanes(d) \ {Primary} \subseteq Bindable(d)
  BY DEF UsablePlanes, Bindable, BindPipeline
<1>4. CursorPlane(d) \subseteq Bindable(d)
  BY DEF CursorPlane, CursorPlanes, Bindable, BindPipeline
<1>5. ASSUME NEW k \in DOMAIN plan
      PROVE  plan[k].plane = Primary \/ plan[k].plane \in Bindable(d)
  <2>1. CASE k \in DOMAIN a
    <3>1. plan[k].plane = a[k]
      BY <1>1, <1>5, <2>1 DEF PlanOf, Slot
    <3> QED BY <1>2, <1>3, <2>1, <3>1
  <2>2. CASE k \notin DOMAIN a
    <3>1. plan[k].plane = c
      BY <1>1, <1>5, <2>2 DEF PlanOf, Slot
    <3>2. CASE UsesCursorPlane(types)
      BY <1>1, <1>4, <3>1, <3>2
    <3>3. CASE ~UsesCursorPlane(types)
      <4>1. DOMAIN plan = slots
        BY <1>1, <3>3 DEF PlanOf
      <4> QED BY <1>2, <1>5, <2>2, <4>1
    <3> QED BY <3>2, <3>3
  <2> QED BY <2>1, <2>2
<1> QED BY <1>5 DEF PlanPlanes

\* The plans of a validation are joining plans, or there is none.
LEMMA OutcomePlans ==
  ASSUME NEW d, NEW stack, NEW answers, NEW o \in Outcomes(d, stack, answers),
         NEW plan \in o.plans
  PROVE  PlanPlanes(plan) \subseteq Bindable(d)
<1>1. CASE planner # "range"
  BY <1>1 DEF Outcomes, MapperValidate, Outcome
<1>2. CASE planner = "range"
  <2>1. ASSUME NEW range, NEW useCursor, NEW test,
               o \in TestedRange(d, stack, range, useCursor, test, answers)
        PROVE  PlanPlanes(plan) \subseteq Bindable(d)
    <3>1. PICK p \in JoiningPlans(d, stack, RangeTypes(stack, range, useCursor)) :
            plan = p
      BY <2>1 DEF TestedRange, TestComposition, Outcome
    <3> QED BY <3>1, JoiningPlansBindable
  <2>2. o \in RangeValidate(d, stack, answers)
    BY <1>2 DEF Outcomes
  <2>3. o.plans # {}
    OBVIOUS
  <2>4. \E range, useCursor, test :
           o \in TestedRange(d, stack, range, useCursor, test, answers)
    BY <2>2, <2>3 DEF RangeValidate, Outcome
  <2> QED BY <2>1, <2>4
<1> QED BY <1>1, <1>2

\* What is presented uses planes that were reserved, or that can be bound.
LEMMA FramePlansHeld ==
  ASSUME NEW d, frame[d] # None, NEW plan \in FramePlans(d)
  PROVE  PlanPlanes(plan) \subseteq Reserved(d) \cup Bindable(d)
<1>1. CASE frame[d].plans = {}
  BY <1>1, JoiningPlansBindable DEF FramePlans
<1>2. CASE frame[d].plans # {}
  <2>1. PICK p \in frame[d].plans : plan = UpdateClientTarget(d, frame[d].types, p)
    BY <1>2 DEF FramePlans
  <2>2. PlanPlanes(plan) = PlanPlanes(p)
    BY <2>1 DEF UpdateClientTarget, Slot, PlanPlanes
  <2> QED BY <2>1, <2>2 DEF Reserved
<1> QED BY <1>1, <1>2

-----------------------------------------------------------------------------
(* A step is one of one display, which afterwards holds what it held, or   *)
(* planes it could bind.                                                   *)

\* What a step of display d does to the planes and to the other displays.
StepOf(d) ==
  /\ planner' = planner
  /\ DOMAIN frame' = Displays
  /\ frame'[d] # None => frame'[d].pending \in BOOLEAN
  /\ used' \in [Displays -> SUBSET DOMAIN Planes]
  /\ target' \in [Displays -> Buffers \cup {None}]
  /\ \A e \in Displays \ {d} : frame'[e] = frame[e] /\ used'[e] = used[e]
  /\ Holds(d)' \subseteq Holds(d) \cup Bindable(d)

LEMMA ValidatedStep ==
  ASSUME TypeOK, NEW d \in Displays, NEW stack, NEW o, Validated(d, stack, o),
         \A plan \in o.plans : PlanPlanes(plan) \subseteq Bindable(d)
  PROVE  StepOf(d)
<1>1. frame' = [frame EXCEPT ![d] = [stack |-> stack, types |-> o.types,
                                    pending |-> TRUE, plans |-> o.plans]]
  BY DEF Validated
<1>2. /\ planner' = planner
      /\ target' = target
      /\ used' = used
  BY DEF Validated
<1>3. d \in DOMAIN frame
  BY DEF TypeOK
<1>4. frame'[d] = [stack |-> stack, types |-> o.types, pending |-> TRUE, plans |-> o.plans]
  BY <1>1, <1>3
<1>5. Holds(d)' \subseteq Holds(d) \cup Bindable(d)
  <2>1. Reserved(d)' \subseteq Bindable(d)
    <3>1. Reserved(d)' \subseteq UNION {PlanPlanes(p) : p \in frame'[d].plans}
      BY DEF Reserved, PlanPlanes
    <3>2. frame'[d].plans = o.plans
      BY <1>4
    <3> QED BY <3>1, <3>2
  <2> QED BY <1>2, <2>1 DEF Holds
<1>6. frame'[d].pending \in BOOLEAN
  <2>1. frame'[d].pending = TRUE
    BY <1>4
  <2> QED BY <2>1
<1> QED BY <1>1, <1>2, <1>5, <1>6 DEF StepOf, TypeOK

\* Presenting a frame leaves what it shows, or what was shown before.
LEMMA PresentedStep ==
  ASSUME TypeOK, NEW d \in Displays, FrameDone(d), target' = target, planner' = planner,
         NEW shown \in SUBSET (Holds(d) \cup Bindable(d)),
         used' = [used EXCEPT ![d] = shown]
  PROVE  StepOf(d)
<1>1. d \in DOMAIN frame /\ Holds(d) \cup Bindable(d) \subseteq DOMAIN Planes
  BY DEF TypeOK, Holds, Reserved, Bindable
<1>2. frame'[d] = [stack |-> frame[d].stack, types |-> frame[d].types,
                   pending |-> FALSE, plans |-> {}]
  BY <1>1 DEF FrameDone
<1>3. Holds(d)' \subseteq Holds(d) \cup Bindable(d)
  <2>1. Reserved(d)' = {}
    <3>1. frame'[d].plans = {}
      BY <1>2
    <3> QED BY <3>1 DEF Reserved
  <2>2. used'[d] = shown
    BY DEF TypeOK
  <2> QED BY <2>1, <2>2 DEF Holds
<1>4. frame'[d].pending \in BOOLEAN
  <2>1. frame'[d].pending = FALSE
    BY <1>2
  <2> QED BY <2>1
<1>5. DOMAIN frame' = Displays /\ \A e \in Displays \ {d} : frame'[e] = frame[e]
  BY DEF FrameDone, TypeOK
<1>6. used' \in [Displays -> SUBSET DOMAIN Planes]
  BY <1>1 DEF TypeOK
<1>7. \A e \in Displays \ {d} : used'[e] = used[e]
  BY DEF TypeOK
<1> QED BY <1>3, <1>4, <1>5, <1>6, <1>7 DEF StepOf, TypeOK

LEMMA StepOfOne ==
  ASSUME TypeOK, Next
  PROVE  \E d \in Displays : StepOf(d)
<1>1. PICK d \in Displays : \/ Validate(d) \/ ValidateFlattened(d) \/ SetClientTarget(d)
                            \/ Present(d) \/ PresentFails(d)
  BY DEF Next
<1>2. CASE Validate(d)
  <2>1. PICK stack, answers : \E o \in Outcomes(d, stack, answers) : Validated(d, stack, o)
    BY <1>2 DEF Validate
  <2>2. PICK o \in Outcomes(d, stack, answers) : Validated(d, stack, o)
    BY <2>1
  <2> QED BY <2>2, OutcomePlans, ValidatedStep
<1>3. CASE ValidateFlattened(d)
  <2>1. PICK stack : Validated(d, stack, Outcome(AllClient(stack), {}))
    BY <1>3 DEF ValidateFlattened
  <2>2. Outcome(AllClient(stack), {}).plans = {}
    BY DEF Outcome
  <2> QED BY <2>1, <2>2, ValidatedStep
<1>4. CASE SetClientTarget(d)
  <2>1. target' \in [Displays -> Buffers \cup {None}]
    BY <1>4 DEF SetClientTarget, TypeOK
  <2>2. UNCHANGED <<planner, frame, used>>
    BY <1>4 DEF SetClientTarget
  <2>3. Holds(d)' = Holds(d)
    BY <2>2 DEF Holds, Reserved, PlanPlanes
  <2> QED BY <2>1, <2>2, <2>3 DEF StepOf, TypeOK
<1>5. CASE Present(d)
  <2>1. PICK plan \in FramePlans(d) : used' = [used EXCEPT ![d] = PlanPlanes(plan)]
    BY <1>5 DEF Present
  <2>2. PlanPlanes(plan) \subseteq Holds(d) \cup Bindable(d)
    BY <1>5, FramePlansHeld DEF Present, Holds
  <2>3. FrameDone(d) /\ target' = target /\ planner' = planner
    BY <1>5 DEF Present
  <2> QED BY <2>1, <2>2, <2>3, PresentedStep
<1>6. CASE PresentFails(d)
  <2>1. FrameDone(d) /\ target' = target /\ planner' = planner /\ used' = used
    BY <1>6 DEF PresentFails
  <2>2. used = [used EXCEPT ![d] = used[d]]
    BY DEF TypeOK
  <2>3. used[d] \in SUBSET (Holds(d) \cup Bindable(d))
    BY DEF Holds
  <2>4. used' = [used EXCEPT ![d] = used[d]]
    BY <2>1, <2>2
  <2> QED BY <2>1, <2>3, <2>4, PresentedStep
<1> QED BY <1>1, <1>2, <1>3, <1>4, <1>5, <1>6

\* What the other displays hold stays as it is.
LEMMA OthersHold ==
  ASSUME NEW d, StepOf(d), NEW e \in Displays \ {d}
  PROVE  Reserved(e)' = Reserved(e) /\ Holds(e)' = Holds(e)
<1>1. Reserved(e)' = Reserved(e)
  BY DEF StepOf, Reserved, PlanPlanes
<1> QED BY <1>1 DEF StepOf, Holds

\* TypeOK is an invariant: the planes a plan or a screen refers to are planes
\* of the device.
THEOREM TypeCorrect == Spec => []TypeOK
<1>1. Init => TypeOK
  BY DEF Init, TypeOK
<1>2. ASSUME TypeOK, Next
      PROVE  TypeOK'
  <2>1. PICK d \in Displays : StepOf(d)
    BY <1>2, StepOfOne
  <2>2. ASSUME NEW e \in Displays, frame'[e] # None
        PROVE  frame'[e].pending \in BOOLEAN
    BY <1>2, <2>1, <2>2 DEF StepOf, TypeOK
  <2>3. ASSUME NEW e \in Displays, frame'[e] # None
        PROVE  Reserved(e)' \subseteq DOMAIN Planes
    <3>1. CASE e = d
      BY <1>2, <2>1, <2>3, <3>1 DEF StepOf, TypeOK, Holds, Reserved, Bindable
    <3>2. CASE e # d
      BY <1>2, <2>1, <2>3, <3>2, OthersHold DEF StepOf, TypeOK
    <3> QED BY <3>1, <3>2
  <2> QED BY <1>2, <2>1, <2>2, <2>3 DEF StepOf, TypeOK
<1>3. ASSUME TypeOK, UNCHANGED vars
      PROVE  TypeOK'
  BY <1>3 DEF TypeOK, vars, Reserved, PlanPlanes
<1> QED BY <1>1, <1>2, <1>3, PTL DEF Spec

\* No plane is on the screen, or reserved, for two displays, however many
\* displays and planes there are (BindPipeline).
THEOREM PlanesExclusiveCorrect == Spec => []PlanesExclusive
<1>1. Init => PlanesExclusive
  BY DEF Init, PlanesExclusive, Holds, Reserved
<1>2. ASSUME TypeOK, PlanesExclusive, Next
      PROVE  PlanesExclusive'
  <2>1. PICK d \in Displays : StepOf(d)
    BY <1>2, StepOfOne
  <2>2. ASSUME NEW e \in Displays \ {d}
        PROVE  Holds(d)' \cap Holds(e)' = {}
    <3>1. Holds(e)' = Holds(e)
      BY <2>1, OthersHold
    <3>2. Holds(d) \cap Holds(e) = {}
      BY <1>2 DEF PlanesExclusive
    <3>3. Bindable(d) \cap Holds(e) = {}
      BY DEF Bindable
    <3> QED BY <2>1, <3>1, <3>2, <3>3 DEF StepOf
  <2>3. ASSUME NEW e \in Displays \ {d}, NEW f \in Displays \ {d}, e # f
        PROVE  Holds(e)' \cap Holds(f)' = {}
    BY <1>2, <2>1, <2>3, OthersHold DEF PlanesExclusive
  <2> QED BY <2>2, <2>3 DEF PlanesExclusive
<1>3. ASSUME PlanesExclusive, UNCHANGED vars
      PROVE  PlanesExclusive'
  BY <1>3 DEF PlanesExclusive, vars, Holds, Reserved, PlanPlanes
<1> QED BY <1>1, <1>2, <1>3, TypeCorrect, PTL DEF Spec

-----------------------------------------------------------------------------
(* What the range planner validates can be presented.                      *)

\* A frame that is validated without a plan is drawn by the client alone.
DrawnWithoutPlan ==
  \A d \in Displays :
    frame[d] # None /\ frame[d].pending /\ frame[d].plans = {} =>
      frame[d].stack \in Stacks[d] /\ frame[d].types = AllClient(frame[d].stack)

\* The client target alone can always be shown, on the primary plane.
LEMMA AllClientPresentable ==
  ASSUME NEW d \in Displays, NEW stack \in Stacks[d], target[d] # None
  PROVE  JoiningPlans(d, stack, AllClient(stack)) # {}
<1> DEFINE types == AllClient(stack)
           a == [k \in 1 .. 1 |-> Primary]
<1>1. stack \in Seq(LayerType) /\ stack # <<>> /\ Planes \in Seq([kind : {"overlay", "cursor"}, crtcs : SUBSET Displays])
  BY ConstantsAssumption
<1>2. DOMAIN types = 1 .. Len(stack) /\ Len(stack) \in Nat \ {0}
  BY <1>1 DEF AllClient
<1>3. \A i \in DOMAIN types : types[i] = "Client"
  BY DEF AllClient
<1>4. Items(types) = {1}
  BY <1>2, <1>3 DEF Items, IsFirstClient
<1>5. Cardinality(Items(types)) = 1
  BY <1>4, FS_Singleton
<1>6. Shown(types, ItemAt(types, 1)) = Target
  <2>1. {j \in Items(types) : j <= 1} = {1}
    BY <1>4
  <2>2. Cardinality({j \in Items(types) : j <= 1}) = 1
    BY <2>1, FS_Singleton
  <2>3. ItemAt(types, 1) \in Items(types)
    BY <1>4, <2>2 DEF ItemAt
  <2> QED BY <1>2, <1>3, <1>4, <2>3 DEF Shown
<1>7. a \in Assignments(d, stack, types)
  <2>1. a \in [1 .. 1 -> UsablePlanes(d)]
    BY DEF UsablePlanes
  <2>2. \A i \in 1 .. 1 : Accepts(a[i], stack, Shown(types, ItemAt(types, i)))
    BY <1>6 DEF Accepts
  <2> QED BY <1>5, <2>1, <2>2 DEF Assignments
<1>8. UsablePlanes(d) \subseteq Nat
  BY <1>1 DEF UsablePlanes, Primary
<1>9. a \in LeastAssignments(d, stack, types)
  <2>1. ASSUME NEW b \in Assignments(d, stack, types), NEW i \in DOMAIN a
        PROVE  a[i] <= b[i]
    <3>1. b[i] \in UsablePlanes(d)
      BY <1>5, <2>1 DEF Assignments
    <3>2. b[i] \in Nat /\ a[i] = 0
      BY <1>8, <2>1, <3>1 DEF Primary
    <3> QED BY <3>2
  <2> QED BY <1>7, <2>1 DEF LeastAssignments
<1>10. ~UsesCursorPlane(types)
  BY <1>3 DEF UsesCursorPlane
<1>11. PlanOf(d, types, a, None) \in JoiningPlans(d, stack, types)
  <2>1. \A i \in Items(types) : IF types[i] = "Client" THEN target[d] # None ELSE stack[i].usable
    BY <1>2, <1>3, <1>4
  <2> QED BY <1>9, <1>10, <2>1 DEF JoiningPlans
<1> QED BY <1>11

\* The range planner keeps the plan it tested, unless the client draws all.
LEMMA RangeOutcome ==
  ASSUME NEW d \in Displays, NEW stack \in Stacks[d], NEW answers,
         NEW o \in RangeValidate(d, stack, answers), o.plans = {}
  PROVE  o.types = AllClient(stack)
<1>1. DOMAIN stack = 1 .. Len(stack) /\ Len(stack) \in Nat
  BY ConstantsAssumption
<1>2. ASSUME NEW range, NEW useCursor, NEW test,
             o \in TestedRange(d, stack, range, useCursor, test, answers)
      PROVE  o.types = AllClient(stack)
  <2>1. CASE range.start = 0 /\ range.size = Len(stack)
    <3>1. o = Outcome(RangeTypes(stack, range, useCursor), {})
      BY <1>2, <2>1 DEF TestedRange
    <3>2. \A i \in DOMAIN stack : i \in (range.start + 1) .. (range.start + range.size)
      BY <1>1, <2>1
    <3>3. RangeTypes(stack, range, useCursor) = AllClient(stack)
      BY <3>2 DEF RangeTypes, AllClient
    <3> QED BY <3>1, <3>3 DEF Outcome
  <2>2. CASE ~(range.start = 0 /\ range.size = Len(stack))
    <3>1. PICK p : o = Outcome(RangeTypes(stack, range, useCursor), {p})
      BY <1>2, <2>2 DEF TestedRange
    <3>2. o.plans = {p}
      BY <3>1 DEF Outcome
    <3> QED BY <3>2
  <2> QED BY <2>1, <2>2
<1>3. \/ \E range, useCursor, test :
           o \in TestedRange(d, stack, range, useCursor, test, answers)
      \/ o = Outcome(AllClient(stack), {})
  BY DEF RangeValidate
<1>4. CASE o = Outcome(AllClient(stack), {})
  BY <1>4 DEF Outcome
<1> QED BY <1>2, <1>3, <1>4

\* Every step of the range planner keeps that.
LEMMA DrawnStep ==
  ASSUME TypeOK, planner = "range", DrawnWithoutPlan, Next
  PROVE  DrawnWithoutPlan'
<1>1. PICK d \in Displays : \/ Validate(d) \/ ValidateFlattened(d) \/ SetClientTarget(d)
                            \/ Present(d) \/ PresentFails(d)
  BY DEF Next
<1> DEFINE Drawn(e) ==
      frame'[e] # None /\ frame'[e].pending /\ frame'[e].plans = {} =>
        frame'[e].stack \in Stacks[e] /\ frame'[e].types = AllClient(frame'[e].stack)
<1>2. ASSUME NEW e \in Displays, frame'[e] = frame[e]
      PROVE  Drawn(e)
  BY <1>2 DEF DrawnWithoutPlan
<1>3. ASSUME NEW stack \in Stacks[d], NEW o, Validated(d, stack, o),
             o.plans = {} => o.types = AllClient(stack)
      PROVE  \A e \in Displays : Drawn(e)
  <2>1. frame' = [frame EXCEPT ![d] = [stack |-> stack, types |-> o.types,
                                      pending |-> TRUE, plans |-> o.plans]]
    BY <1>3 DEF Validated
  <2>2. frame'[d] = [stack |-> stack, types |-> o.types, pending |-> TRUE, plans |-> o.plans]
    BY <2>1 DEF TypeOK
  <2>3. Drawn(d)
    BY <1>3, <2>2
  <2>4. \A e \in Displays \ {d} : frame'[e] = frame[e]
    BY <2>1 DEF TypeOK
  <2> QED BY <1>2, <2>3, <2>4
<1>4. CASE Validate(d)
  <2>1. PICK stack \in Stacks[d] :
          \E answers, o : o \in Outcomes(d, stack, answers) /\ Validated(d, stack, o)
    BY <1>4 DEF Validate
  <2>2. PICK answers, o : o \in Outcomes(d, stack, answers) /\ Validated(d, stack, o)
    BY <2>1
  <2>3. o.plans = {} => o.types = AllClient(stack)
    BY <2>2, RangeOutcome DEF Outcomes
  <2> QED BY <1>3, <2>2, <2>3 DEF DrawnWithoutPlan
<1>5. CASE ValidateFlattened(d)
  <2>1. PICK stack \in Stacks[d] : Validated(d, stack, Outcome(AllClient(stack), {}))
    BY <1>5 DEF ValidateFlattened
  <2>2. Outcome(AllClient(stack), {}).types = AllClient(stack)
    BY DEF Outcome
  <2> QED BY <1>3, <2>1, <2>2 DEF DrawnWithoutPlan
<1>6. CASE SetClientTarget(d)
  BY <1>2, <1>6 DEF SetClientTarget, DrawnWithoutPlan
<1>7. CASE Present(d) \/ PresentFails(d)
  <2>1. FrameDone(d)
    BY <1>7 DEF Present, PresentFails
  <2>2. frame'[d].pending = FALSE
    BY <2>1 DEF FrameDone, TypeOK
  <2>3. \A e \in Displays \ {d} : frame'[e] = frame[e]
    BY <2>1 DEF FrameDone, TypeOK
  <2> QED BY <1>2, <2>2, <2>3 DEF DrawnWithoutPlan
<1> QED BY <1>1, <1>4, <1>5, <1>6, <1>7

\* What GenericCompositionPlanner has validated can be presented once there is
\* a client target, whatever the other displays do: its plan holds the planes.
THEOREM RangePresentableCorrect == Spec => []RangePresentable
<1> DEFINE I == planner = "range" => DrawnWithoutPlan
<1>1. Init => I
  BY DEF Init, DrawnWithoutPlan
<1>2. ASSUME TypeOK, I, Next
      PROVE  I'
  <2>1. planner' = planner
    BY <1>2, StepOfOne DEF StepOf
  <2> QED BY <1>2, <2>1, DrawnStep
<1>3. ASSUME I, UNCHANGED vars
      PROVE  I'
  BY <1>3 DEF DrawnWithoutPlan, vars
<1>4. ASSUME I
      PROVE  RangePresentable
  <2>1. ASSUME planner = "range", NEW d \in Displays, frame[d] # None, target[d] # None,
               frame[d].pending
        PROVE  FramePlans(d) # {}
    <3>1. CASE frame[d].plans # {}
      BY <3>1 DEF FramePlans
    <3>2. CASE frame[d].plans = {}
      BY <1>4, <2>1, <3>2, AllClientPresentable DEF FramePlans, DrawnWithoutPlan
    <3> QED BY <3>1, <3>2
  <2> QED BY <2>1 DEF RangePresentable, Presentable
<1> QED
  <2> HIDE DEF I
  <2> QED BY <1>1, <1>2, <1>3, <1>4, TypeCorrect, PTL DEF Spec

-----------------------------------------------------------------------------
(* Natural numbers: least elements and induction, for sets of them.        *)

Smaller == {p \in Nat \X Nat : p[1] < p[2]}

\* A set of natural numbers has a least one.
LEMMA LeastNatural ==
  ASSUME NEW S \in SUBSET Nat, S # {}
  PROVE  \E n \in S : \A m \in S : n <= m
<1>1. IsWellFoundedOn(Smaller, Nat)
  <2>1. OpToRel(<, Nat) = Smaller
    BY DEF OpToRel, Smaller
  <2> QED BY <2>1, NatLessThanWellFounded
<1>2. PICK n \in S : \A m \in S : ~ (<<m, n>> \in Smaller)
  BY <1>1, WFMin
<1>3. ASSUME NEW m \in S PROVE n <= m
  <2>1. n \in Nat /\ m \in Nat
    OBVIOUS
  <2>2. m < n => <<m, n>> \in Smaller
    BY <2>1 DEF Smaller
  <2> QED BY <1>2, <2>1, <2>2
<1> QED BY <1>3

\* Induction, over a set.
LEMMA InductionOverSet ==
  ASSUME NEW S, 0 \in S, \A n \in Nat : n \in S => n + 1 \in S
  PROVE  Nat \subseteq S
<1> DEFINE R == Nat \ S
<1> SUFFICES ASSUME R # {} PROVE FALSE
  OBVIOUS
<1>1. PICK n \in R : \A m \in R : n <= m
  BY LeastNatural
<1>2. n \in Nat /\ n # 0 /\ n - 1 \in Nat /\ n - 1 \notin R
  <2>1. n \in Nat /\ n # 0
    OBVIOUS
  <2>2. n - 1 \in Nat /\ ~(n <= n - 1)
    BY <2>1
  <2> QED BY <1>1, <2>1, <2>2
<1>3. (n - 1) + 1 = n
  BY <1>2
<1> QED BY <1>2, <1>3

-----------------------------------------------------------------------------
(* CalcPixOps: the sum is what its loop computes, it is never negative,    *)
(* and sums of ranges add up.                                              *)

\* g[i] is the sum of v[1] to v[i], for i up to n.
SumsUpTo(v, g, n) ==
  /\ g = [i \in 0 .. n |-> g[i]] /\ g[0] = 0
  /\ \A i \in 1 .. n : g[i] = g[i - 1] + v[i]

\* There are such sums up to every n.
LEMMA SumsExist ==
  ASSUME NEW v
  PROVE  \A n \in Nat : \E g : SumsUpTo(v, g, n)
<1> DEFINE S == {n \in Nat : \E g : SumsUpTo(v, g, n)}
<1>1. 0 \in S
  <2>1. SumsUpTo(v, [i \in 0 .. 0 |-> 0], 0)
    BY DEF SumsUpTo
  <2> QED BY <2>1
<1>2. ASSUME NEW n \in Nat, n \in S PROVE n + 1 \in S
  <2>1. PICK g : SumsUpTo(v, g, n)
    BY <1>2
  <2> DEFINE h == [i \in 0 .. n + 1 |-> IF i = n + 1 THEN g[n] + v[n + 1] ELSE g[i]]
  <2>2. SumsUpTo(v, h, n + 1)
    <3>1. h = [i \in 0 .. n + 1 |-> h[i]] /\ h[0] = 0
      BY <2>1 DEF SumsUpTo
    <3>2. ASSUME NEW i \in 1 .. n + 1 PROVE h[i] = h[i - 1] + v[i]
      <4>1. i \in 0 .. n + 1 /\ i - 1 \in 0 .. n + 1 /\ i - 1 # n + 1 /\ h[i - 1] = g[i - 1]
        OBVIOUS
      <4>2. CASE i = n + 1
        <5>1. h[i] = g[n] + v[n + 1] /\ i - 1 = n
          BY <4>1, <4>2
        <5> HIDE DEF h
        <5> QED BY <4>1, <4>2, <5>1
      <4>3. CASE i # n + 1
        <5>1. h[i] = g[i] /\ i \in 1 .. n
          BY <4>1, <4>3
        <5>2. g[i] = g[i - 1] + v[i]
          BY <2>1, <5>1 DEF SumsUpTo
        <5> HIDE DEF h
        <5> QED BY <4>1, <5>1, <5>2
      <4> QED BY <4>2, <4>3
    <3> QED BY <3>1, <3>2 DEF SumsUpTo
  <2> QED BY <2>2
<1> HIDE DEF S
<1>3. Nat \subseteq S
  BY <1>1, <1>2, InductionOverSet
<1> QED BY <1>3 DEF S

\* They agree where they overlap.
LEMMA SumsAgree ==
  ASSUME NEW v, NEW g, NEW h, NEW n \in Nat, NEW m \in Nat, m <= n,
         SumsUpTo(v, g, n), SumsUpTo(v, h, m)
  PROVE  h[m] = g[m]
<1> DEFINE S == {i \in Nat : i <= m => h[i] = g[i]}
<1>1. 0 \in S
  BY DEF SumsUpTo
<1>2. ASSUME NEW i \in Nat, i \in S PROVE i + 1 \in S
  <2> SUFFICES ASSUME i + 1 <= m PROVE h[i + 1] = g[i + 1]
    OBVIOUS
  <2>1. h[i] = g[i]
    BY <1>2
  <2>2. i + 1 \in 1 .. m /\ i + 1 \in 1 .. n /\ (i + 1) - 1 = i
    OBVIOUS
  <2>3. h[i + 1] = h[(i + 1) - 1] + v[i + 1] /\ g[i + 1] = g[(i + 1) - 1] + v[i + 1]
    BY <2>2 DEF SumsUpTo
  <2> QED BY <2>1, <2>2, <2>3
<1> HIDE DEF S
<1>3. Nat \subseteq S
  BY <1>1, <1>2, InductionOverSet
<1> QED BY <1>3 DEF S

\* So the recursive function there is in PixOps exists.
LEMMA SumExists ==
  ASSUME NEW v
  PROVE  \E f : f = [n \in Nat |-> IF n = 0 THEN 0 ELSE f[n - 1] + v[n]]
<1> DEFINE G(n) == CHOOSE g : SumsUpTo(v, g, n)
           f == [n \in Nat |-> G(n)[n]]
<1>1. ASSUME NEW n \in Nat PROVE SumsUpTo(v, G(n), n)
  BY SumsExist
<1> HIDE DEF G
<1>2. ASSUME NEW n \in Nat PROVE f[n] = IF n = 0 THEN 0 ELSE f[n - 1] + v[n]
  <2>1. CASE n = 0
    BY <2>1, <1>1 DEF SumsUpTo
  <2>2. CASE n # 0
    <3>1. n - 1 \in Nat /\ n \in 1 .. n /\ n - 1 <= n
      BY <2>2
    <3>2. G(n)[n] = G(n)[n - 1] + v[n]
      BY <1>1, <3>1 DEF SumsUpTo
    <3>3. G(n - 1)[n - 1] = G(n)[n - 1]
      BY <1>1, <3>1, SumsAgree
    <3> QED BY <2>2, <3>1, <3>2, <3>3
  <2> QED BY <2>1, <2>2
<1>3. f = [n \in Nat |-> IF n = 0 THEN 0 ELSE f[n - 1] + v[n]]
  <2>1. f = [n \in Nat |-> f[n]]
    OBVIOUS
  <2> HIDE DEF f
  <2> QED BY <1>2, <2>1
<1> QED BY <1>3

\* The sum of one layer more.
LEMMA PixOpsStep ==
  ASSUME NEW stack, NEW start, NEW n \in Nat
  PROVE  PixOps(stack, start, n) =
           IF n = 0 THEN 0 ELSE PixOps(stack, start, n - 1) + stack[start + n].pixels
<1> DEFINE f == CHOOSE pixops : pixops = [k \in Nat |->
                  IF k = 0 THEN 0 ELSE pixops[k - 1] + stack[start + k].pixels]
           v == [k \in Nat |-> stack[start + k].pixels]
<1>1. \A k : PixOps(stack, start, k) = f[k]
  BY DEF PixOps
<1>2. \E g : g = [k \in Nat |-> IF k = 0 THEN 0 ELSE g[k - 1] + stack[start + k].pixels]
  <2>1. PICK g : g = [k \in Nat |-> IF k = 0 THEN 0 ELSE g[k - 1] + v[k]]
    BY SumExists
  <2>2. \A k \in Nat : v[k] = stack[start + k].pixels
    OBVIOUS
  <2> HIDE DEF v
  <2> QED BY <2>1, <2>2
<1>3. f = [k \in Nat |-> IF k = 0 THEN 0 ELSE f[k - 1] + stack[start + k].pixels]
  BY <1>2
<1> HIDE DEF f
<1> QED BY <1>1, <1>3

\* What the constants say of the layers a display may be given.
IsStack(stack) ==
  /\ stack \in Seq(LayerType) /\ Len(stack) \in Nat \ {0}
  /\ \A i \in 1 .. (Len(stack) - 1) : stack[i].sf # "Cursor"

LEMMA StacksAre ==
  ASSUME NEW d \in Displays, NEW stack \in Stacks[d]
  PROVE  IsStack(stack)
BY ConstantsAssumption DEF IsStack

LEMMA PixelsNat ==
  ASSUME NEW stack, IsStack(stack), NEW i \in 1 .. Len(stack)
  PROVE  stack[i] \in LayerType /\ stack[i].pixels \in Nat
<1>1. stack[i] \in LayerType
  BY DEF IsStack
<1> QED BY <1>1 DEF LayerType

LEMMA PixOpsNat ==
  ASSUME NEW stack, IsStack(stack), NEW start \in Nat
  PROVE  \A n \in Nat : start + n <= Len(stack) => PixOps(stack, start, n) \in Nat
<1> DEFINE S == {n \in Nat : start + n <= Len(stack) => PixOps(stack, start, n) \in Nat}
<1>0. Len(stack) \in Nat
  BY DEF IsStack
<1>1. 0 \in S
  BY PixOpsStep
<1>2. ASSUME NEW n \in Nat, n \in S PROVE n + 1 \in S
  <2> SUFFICES ASSUME start + (n + 1) <= Len(stack)
               PROVE  PixOps(stack, start, n + 1) \in Nat
    OBVIOUS
  <2>1. PixOps(stack, start, n) \in Nat
    BY <1>0, <1>2
  <2>2. n + 1 # 0 /\ n + 1 \in Nat /\ (n + 1) - 1 = n
    OBVIOUS
  <2>3. PixOps(stack, start, n + 1) = PixOps(stack, start, n) + stack[start + (n + 1)].pixels
    BY <2>2, PixOpsStep
  <2>4. stack[start + (n + 1)].pixels \in Nat
    <3>1. start + (n + 1) \in 1 .. Len(stack)
      BY <1>0
    <3> QED BY <3>1, PixelsNat
  <2> QED BY <2>1, <2>3, <2>4
<1> HIDE DEF S
<1>3. Nat \subseteq S
  BY <1>1, <1>2, InductionOverSet
<1> QED BY <1>3 DEF S

LEMMA PixOpsSplit ==
  ASSUME NEW stack, IsStack(stack), NEW start \in Nat, NEW n \in Nat
  PROVE  \A m \in Nat : start + n + m <= Len(stack) =>
           PixOps(stack, start, n + m) = PixOps(stack, start, n) + PixOps(stack, start + n, m)
<1> DEFINE P(m) == PixOps(stack, start, n + m) =
                     PixOps(stack, start, n) + PixOps(stack, start + n, m)
           S == {m \in Nat : start + n + m <= Len(stack) => P(m)}
<1>0. Len(stack) \in Nat
  BY DEF IsStack
<1>1. 0 \in S
  <2> SUFFICES ASSUME start + n + 0 <= Len(stack) PROVE P(0)
    OBVIOUS
  <2>1. PixOps(stack, start, n) \in Nat
    BY <1>0, PixOpsNat
  <2>2. PixOps(stack, start + n, 0) = 0 /\ n + 0 = n
    BY PixOpsStep
  <2> QED BY <2>1, <2>2
<1>2. ASSUME NEW m \in Nat, m \in S PROVE m + 1 \in S
  <2> SUFFICES ASSUME start + n + (m + 1) <= Len(stack) PROVE P(m + 1)
    OBVIOUS
  <2>1. P(m)
    BY <1>0, <1>2
  <2>2. /\ PixOps(stack, start, n) \in Nat
        /\ PixOps(stack, start + n, m) \in Nat
    <3>1. start + n <= Len(stack) /\ (start + n) + m <= Len(stack) /\ start + n \in Nat
      BY <1>0
    <3> QED BY <3>1, PixOpsNat
  <2>3. stack[start + n + (m + 1)].pixels \in Nat
    <3>1. start + n + (m + 1) \in 1 .. Len(stack)
      BY <1>0
    <3> QED BY <3>1, PixelsNat
  <2>4. PixOps(stack, start, n + (m + 1)) =
          PixOps(stack, start, n + m) + stack[start + n + (m + 1)].pixels
    <3>1. /\ n + (m + 1) \in Nat /\ n + (m + 1) # 0 /\ (n + (m + 1)) - 1 = n + m
          /\ start + (n + (m + 1)) = start + n + (m + 1)
      OBVIOUS
    <3> QED BY <3>1, PixOpsStep
  <2>5. PixOps(stack, start + n, m + 1) =
          PixOps(stack, start + n, m) + stack[start + n + (m + 1)].pixels
    <3>1. m + 1 # 0 /\ m + 1 \in Nat /\ (m + 1) - 1 = m /\ start + n \in Nat
      OBVIOUS
    <3> QED BY <3>1, PixOpsStep
  <2> QED BY <2>1, <2>2, <2>3, <2>4, <2>5
<1> HIDE DEF S
<1>3. Nat \subseteq S
  BY <1>1, <1>2, InductionOverSet
<1> QED BY <1>3 DEF S

\* A range costs no less than one that it contains.
LEMMA PixOpsWithin ==
  ASSUME NEW stack, IsStack(stack),
         NEW a \in Nat, NEW n \in Nat, NEW b \in Nat, NEW m \in Nat,
         a <= b, b + m <= a + n, a + n <= Len(stack)
  PROVE  PixOps(stack, b, m) <= PixOps(stack, a, n)
<1> DEFINE x == b - a
           y == (a + n) - (b + m)
<1>0. Len(stack) \in Nat
  BY DEF IsStack
<1>1. /\ x \in Nat /\ y \in Nat /\ a + x = b /\ n = x + (m + y) /\ m + y \in Nat
      /\ a + x + (m + y) <= Len(stack) /\ b + m + y <= Len(stack)
      /\ a + x <= Len(stack) /\ b + m <= Len(stack) /\ b + m \in Nat
  BY <1>0
<1> HIDE DEF x, y
<1>2. PixOps(stack, a, n) = PixOps(stack, a, x) + PixOps(stack, b, m + y)
  <2>1. PixOps(stack, a, x + (m + y)) = PixOps(stack, a, x) + PixOps(stack, a + x, m + y)
    BY <1>1, PixOpsSplit
  <2> QED BY <1>1, <2>1
<1>3. PixOps(stack, b, m + y) = PixOps(stack, b, m) + PixOps(stack, b + m, y)
  BY <1>0, <1>1, PixOpsSplit
<1>4. /\ PixOps(stack, a, x) \in Nat /\ PixOps(stack, b, m) \in Nat
      /\ PixOps(stack, b + m, y) \in Nat
  BY <1>0, <1>1, PixOpsNat
<1> QED BY <1>2, <1>3, <1>4

-----------------------------------------------------------------------------
(* The range of layers that the client draws.                              *)

LEMMA MinOfSome ==
  ASSUME NEW a \in Int, NEW b \in Int
  PROVE  /\ Min({a, b}) = IF a <= b THEN a ELSE b
         /\ \A c \in Int : Min({a, b, c}) = IF a <= b THEN IF a <= c THEN a ELSE c
                                             ELSE IF b <= c THEN b ELSE c
<1>1. Min({a, b}) = IF a <= b THEN a ELSE b
  <2> DEFINE M == IF a <= b THEN a ELSE b
  <2>1. M \in {a, b} /\ (\A y \in {a, b} : M <= y) /\ M \in Int
    OBVIOUS
  <2>2. \A x \in {a, b} : (\A y \in {a, b} : x <= y) => x = M
    BY <2>1
  <2> HIDE DEF M
  <2>3. Min({a, b}) = M
    BY <2>1, <2>2 DEF Min
  <2> QED BY <2>3 DEF M
<1>2. ASSUME NEW c \in Int
      PROVE  Min({a, b, c}) = IF a <= b THEN IF a <= c THEN a ELSE c
                              ELSE IF b <= c THEN b ELSE c
  <2> DEFINE M == IF a <= b THEN IF a <= c THEN a ELSE c ELSE IF b <= c THEN b ELSE c
  <2>1. M \in {a, b, c} /\ (\A y \in {a, b, c} : M <= y) /\ M \in Int
    OBVIOUS
  <2>2. \A x \in {a, b, c} : (\A y \in {a, b, c} : x <= y) => x = M
    BY <2>1
  <2> HIDE DEF M
  <2>3. Min({a, b, c}) = M
    BY <2>1, <2>2 DEF Min
  <2> QED BY <2>3 DEF M
<1> QED BY <1>1, <1>2

LEMMA MinMaxWithin ==
  ASSUME NEW n \in Nat, NEW S \in SUBSET (1 .. n), S # {}
  PROVE  /\ Min(S) \in S /\ \A i \in S : Min(S) <= i
         /\ Max(S) \in S /\ \A i \in S : i <= Max(S)
<1>1. \E x \in S : \A y \in S : x <= y
  <2>1. S \in SUBSET Nat
    OBVIOUS
  <2> QED BY <2>1, LeastNatural
<1>2. \E x \in S : \A y \in S : x >= y
  <2> DEFINE T == {n - y : y \in S}
  <2>1. T \in SUBSET Nat /\ T # {}
    <3>1. \A y \in S : n - y \in Nat
      OBVIOUS
    <3> QED BY <3>1
  <2>2. PICK t \in T : \A u \in T : t <= u
    BY <2>1, LeastNatural
  <2>3. PICK x \in S : t = n - x
    BY <2>2
  <2>4. ASSUME NEW y \in S PROVE x >= y
    <3>1. n - x <= n - y
      BY <2>2, <2>3
    <3> QED BY <2>3, <3>1
  <2> QED BY <2>4
<1>3. Min(S) \in S /\ \A i \in S : Min(S) <= i
  BY <1>1 DEF Min
<1>4. Max(S) \in S /\ \A i \in S : Max(S) >= i
  BY <1>2 DEF Max
<1>5. \A i \in S : i <= Max(S)
  BY <1>4
<1> QED BY <1>3, <1>4, <1>5

\* The search for the cheapest window finds one.
LEMMA CheapestStartIs ==
  ASSUME NEW stack, IsStack(stack), NEW size \in Nat, NEW starts \in SUBSET Nat, starts # {},
         \A s \in starts : s + size <= Len(stack)
  PROVE  /\ CheapestStart(stack, starts, size) \in starts
         /\ \A t \in starts : PixOps(stack, CheapestStart(stack, starts, size), size)
                                <= PixOps(stack, t, size)
<1> DEFINE cost(s) == PixOps(stack, s, size)
           costs == {cost(s) : s \in starts}
<1>1. \A s \in starts : cost(s) \in Nat
  BY PixOpsNat
<1>2. PICK c \in costs : \A e \in costs : c <= e
  <2>1. costs \in SUBSET Nat /\ costs # {}
    BY <1>1
  <2> HIDE DEF costs
  <2> QED BY <2>1, LeastNatural
<1> DEFINE cheap == {s \in starts : cost(s) = c}
<1>3. PICK x \in cheap : \A s \in cheap : x <= s
  <2>1. cheap \in SUBSET Nat /\ cheap # {}
    BY <1>2
  <2> HIDE DEF cheap
  <2> QED BY <2>1, LeastNatural
<1> HIDE DEF cost
<1>4. x \in starts /\ cost(x) = c /\ c \in Nat
  BY <1>1, <1>3
<1>5. ASSUME NEW t \in starts
      PROVE  cost(x) < cost(t) \/ (cost(x) = cost(t) /\ x <= t)
  <2>1. c <= cost(t) /\ cost(t) \in Nat
    BY <1>1, <1>2
  <2>2. cost(t) = c => x <= t
    BY <1>3
  <2> QED BY <1>4, <2>1, <2>2
<1> USE DEF cost
<1>6. \E s \in starts : \A t \in starts :
         \/ PixOps(stack, s, size) < PixOps(stack, t, size)
         \/ PixOps(stack, s, size) = PixOps(stack, t, size) /\ s <= t
  BY <1>4, <1>5
<1> DEFINE f == CheapestStart(stack, starts, size)
<1>7. /\ f \in starts
      /\ \A t \in starts : \/ PixOps(stack, f, size) < PixOps(stack, t, size)
                           \/ PixOps(stack, f, size) = PixOps(stack, t, size) /\ f <= t
  BY <1>6 DEF CheapestStart
<1> HIDE DEF f
<1>8. \A t \in starts : PixOps(stack, f, size) <= PixOps(stack, t, size)
  <2> SUFFICES ASSUME NEW t \in starts PROVE PixOps(stack, f, size) <= PixOps(stack, t, size)
    OBVIOUS
  <2>1. PixOps(stack, f, size) \in Nat /\ PixOps(stack, t, size) \in Nat
    BY <1>1, <1>7
  <2> QED BY <1>7, <2>1
<1> QED BY <1>7, <1>8 DEF f

\* From the first layer that the client has to draw to the last.
LEMMA RequiredRangeIs ==
  ASSUME NEW stack, IsStack(stack)
  PROVE  LET C == ClientLayers(stack)
             z == RequiredRange(stack)
         IN  /\ z.start \in Nat /\ z.size \in Nat /\ z.start + z.size <= Len(stack)
             /\ C = {} => z.start = 0 /\ z.size = 0
             /\ C # {} => /\ z.size # 0
                          /\ z.start + z.size \in C /\ z.start + 1 \in C
                          /\ \A i \in C : z.start + 1 <= i /\ i <= z.start + z.size
             /\ C \subseteq 1 .. Len(stack)
<1> DEFINE C == ClientLayers(stack)
           z == RequiredRange(stack)
<1>1. Len(stack) \in Nat /\ C \in SUBSET (1 .. Len(stack))
  BY DEF IsStack, ClientLayers
<1>2. CASE C = {}
  <2>1. z = [start |-> 0, size |-> 0]
    BY <1>2 DEF RequiredRange
  <2> QED BY <1>1, <1>2, <2>1
<1>3. CASE C # {}
  <2> DEFINE a == Min(C)
             b == Max(C)
  <2>1. a \in C /\ b \in C /\ (\A i \in C : a <= i /\ i <= b) /\ a <= b
        /\ a \in 1 .. Len(stack) /\ b \in 1 .. Len(stack)
    BY <1>1, <1>3, MinMaxWithin
  <2>2. z = [start |-> a - 1, size |-> b - a + 1]
    BY <1>3 DEF RequiredRange
  <2> HIDE DEF a, b, z, C
  <2>3. z.start = a - 1 /\ z.size = b - a + 1
    BY <2>2
  <2>4. z.start + 1 = a /\ z.start + z.size = b /\ z.start \in Nat /\ z.size \in Nat \ {0}
    BY <2>1, <2>3
  <2> QED BY <1>1, <1>3, <2>1, <2>4 DEF C, z
<1> QED BY <1>2, <1>3

\* GetExtraClientRange finds a range that leaves every other layer a plane,
\* and of those the one that costs least.
LEMMA ExtraClientRangeIs ==
  ASSUME NEW stack, IsStack(stack), NEW planes \in Nat \ {0}, NEW useCursor \in BOOLEAN,
         useCursor => CanUseCursorPlane(stack)
  PROVE  LET r == ExtraClientRange(stack, RequiredRange(stack), planes, useCursor)
         IN  /\ r.start \in Nat /\ r.size \in Nat /\ r.start + r.size <= Len(stack)
             /\ CheapestRange(stack, planes, useCursor)
<1> DEFINE C == ClientLayers(stack)
           z == RequiredRange(stack)
           L == Len(stack)
           r == ExtraClientRange(stack, z, planes, useCursor)
           n == IF useCursor THEN L - 1 ELSE L
           m == IF planes < n THEN planes - 1 ELSE planes
           reserve == ~useCursor /\ m > 0 /\ n > 0 /\ z.start + z.size < n /\ HasCursor(stack)
           avail == IF reserve THEN m - 1 ELSE m
           last == IF reserve THEN n - 1 ELSE n
           extra == (last - z.size) - avail
           prepend == Min({z.start, extra})
           append == Min({last - (z.start + z.size), extra})
           first == z.start - prepend
           size == z.size + extra
           steps == Min({append, prepend, last - (first + size)})
           starts == IF z.size # 0 THEN first .. first + steps ELSE 0 .. last - extra
           fitting == {q \in [start : 0 .. L, size : 0 .. L] : Fits(stack, q, planes, useCursor)}
           sparing == IF HasCursor(stack) THEN {q \in fitting : q.start + q.size < L} ELSE {}
<1>1. r = IF extra > 0 THEN [start |-> CheapestStart(stack, starts, size), size |-> size]
          ELSE z
  BY DEF ExtraClientRange
<1>2. CheapestRange(stack, planes, useCursor) <=>
        /\ r \in (IF sparing # {} THEN sparing ELSE fitting)
        /\ \A q \in (IF sparing # {} THEN sparing ELSE fitting) :
             PixOps(stack, r.start, r.size) <= PixOps(stack, q.start, q.size)
  BY DEF CheapestRange
<1>3. /\ L \in Nat \ {0} /\ C \subseteq 1 .. L
      /\ z.start \in Nat /\ z.size \in Nat /\ z.start + z.size <= L
      /\ C = {} => z.start = 0 /\ z.size = 0
      /\ C # {} => /\ z.size # 0
                   /\ z.start + z.size \in C /\ z.start + 1 \in C
                   /\ \A i \in C : z.start + 1 <= i /\ i <= z.start + z.size
      /\ z = [start |-> z.start, size |-> z.size]
  BY RequiredRangeIs DEF IsStack, RequiredRange
<1>4. useCursor => HasCursor(stack) /\ L \notin C
  BY DEF CanUseCursorPlane, ClientLayers
<1> HIDE DEF C, z, L, r
<1>5. n \in Nat /\ z.start + z.size <= n /\ n <= L
  BY <1>3, <1>4
\* What fits holds the layers the client has to draw.
<1>6. ASSUME NEW q \in fitting
      PROVE  /\ q.start \in Nat /\ q.size \in Nat /\ q.start + q.size <= n
             /\ z.size # 0 => q.start <= z.start /\ z.start + z.size <= q.start + q.size
             /\ q.size > 0 => n - q.size + 1 <= planes
             /\ q.size = 0 => n <= planes
  <2>1. /\ q.start \in 0 .. L /\ q.size \in 0 .. L /\ q.start + q.size <= n
        /\ C \subseteq (q.start + 1) .. (q.start + q.size)
        /\ (n - q.size) + (IF q.size > 0 THEN 1 ELSE 0) <= planes
    BY <1>6 DEF Fits, L, C
  <2>2. CASE z.size # 0
    <3>1. z.start + 1 \in (q.start + 1) .. (q.start + q.size)
          /\ z.start + z.size \in (q.start + 1) .. (q.start + q.size)
      BY <1>3, <2>1, <2>2
    <3> QED BY <1>3, <1>5, <2>1, <2>2, <3>1
  <2>3. CASE z.size = 0
    BY <1>3, <1>5, <2>1, <2>3
  <2> QED BY <2>2, <2>3
\* And what holds them and is large enough fits.
<1>7. ASSUME NEW a \in Nat, NEW k \in Nat, a + k <= n,
             z.size # 0 => a <= z.start /\ z.start + z.size <= a + k,
             (n - k) + (IF k > 0 THEN 1 ELSE 0) <= planes
      PROVE  [start |-> a, size |-> k] \in fitting
  <2> DEFINE q == [start |-> a, size |-> k]
  <2>1. q.start = a /\ q.size = k
    OBVIOUS
  <2>2. q \in [start : 0 .. L, size : 0 .. L]
    BY <1>3, <1>5, <1>7
  <2>3. C \subseteq (a + 1) .. (a + k)
    <3> SUFFICES ASSUME NEW i \in C PROVE i \in (a + 1) .. (a + k)
      OBVIOUS
    <3>1. i \in 1 .. L /\ z.size # 0 /\ z.start + 1 <= i /\ i <= z.start + z.size
      BY <1>3
    <3> QED BY <1>3, <1>7, <3>1
  <2> HIDE DEF q
  <2>4. Fits(stack, q, planes, useCursor)
    BY <1>7, <2>1, <2>3 DEF Fits, L, C
  <2>5. q \in fitting
    BY <2>2, <2>4
  <2> QED BY <2>5 DEF q
\* A range that costs no more than those it has to, and spares the cursor.
<1>8. ASSUME NEW a \in Nat, NEW k \in Nat, r = [start |-> a, size |-> k],
             [start |-> a, size |-> k] \in fitting,
             \A q \in fitting : /\ q.start + q.size < L /\ HasCursor(stack) => a + k < L
                                /\ (HasCursor(stack) /\ a + k < L => q.start + q.size < L)
                                     => PixOps(stack, a, k) <= PixOps(stack, q.start, q.size)
      PROVE  /\ r.start \in Nat /\ r.size \in Nat /\ r.start + r.size <= L
             /\ CheapestRange(stack, planes, useCursor)
  <2> HIDE DEF fitting
  <2>1. r.start = a /\ r.size = k /\ r \in fitting
    BY <1>8
  <2>2. a + k <= L
    <3>1. a + k <= n
      BY <1>6, <2>1
    <3> QED BY <1>3, <1>5, <3>1
  <2>3. CASE sparing # {}
    <3>1. HasCursor(stack) /\ a + k < L /\ r \in sparing
      BY <1>8, <2>1, <2>3
    <3>2. \A q \in sparing : q \in fitting /\ q.start + q.size < L
      BY <3>1
    <3> QED BY <1>2, <1>8, <2>1, <2>2, <2>3, <3>1, <3>2
  <2>4. CASE sparing = {}
    <3>1. ~(HasCursor(stack) /\ a + k < L)
      BY <2>1, <2>4
    <3> QED BY <1>2, <1>8, <2>1, <2>2, <2>4, <3>1
  <2> QED BY <2>3, <2>4
<1>9. planes \in Nat /\ m \in Nat /\ avail \in Nat /\ last \in Nat /\ extra \in Int
  BY <1>3, <1>5
\* The required range fits.
<1>10. CASE ~(extra > 0)
  <2> DEFINE a == z.start
             k == z.size
  <2>1. r = [start |-> a, size |-> k]
    BY <1>1, <1>3, <1>10
  <2>2. [start |-> a, size |-> k] \in fitting
    <3>1. (n - k) + (IF k > 0 THEN 1 ELSE 0) <= planes
      BY <1>3, <1>5, <1>9, <1>10
    <3> QED BY <1>3, <1>5, <1>7, <3>1
  <2>3. ASSUME NEW q \in fitting
        PROVE  /\ q.start + q.size < L /\ HasCursor(stack) => a + k < L
               /\ PixOps(stack, a, k) <= PixOps(stack, q.start, q.size)
    <3>1. /\ q.start \in Nat /\ q.size \in Nat /\ q.start + q.size <= n
          /\ z.size # 0 => q.start <= z.start /\ z.start + z.size <= q.start + q.size
      BY <1>6, <2>3
    <3>2. CASE z.size # 0
      BY <1>3, <1>5, <3>1, <3>2, PixOpsWithin DEF L
    <3>3. CASE z.size = 0
      <4>1. C = {} /\ z.start = 0
        BY <1>3, <3>3
      <4>2. PixOps(stack, a, k) = 0
        BY <3>3, PixOpsStep
      <4>3. PixOps(stack, q.start, q.size) \in Nat
        BY <1>3, <1>5, <3>1, PixOpsNat DEF L
      <4> QED BY <1>3, <3>3, <4>1, <4>2, <4>3
    <3> QED BY <3>2, <3>3
  <2> HIDE DEF fitting
  <2> QED BY <1>3, <1>8, <2>1, <2>2, <2>3 DEF L, r, z
\* Windows that hold it do.
<1>11. CASE extra > 0
  <2>1. /\ planes < n /\ m = planes - 1 /\ size = n - planes + 1 /\ size \in Nat \ {0}
        /\ size <= last /\ last <= n /\ extra \in Nat /\ size = z.size + extra
        /\ z.start + z.size <= last
    <3>1. CASE reserve
      <4>1. avail = m - 1 /\ last = n - 1 /\ m > 0 /\ n > 0 /\ z.start + z.size < n
        BY <3>1
      <4>2. size = z.size + extra /\ extra = (last - z.size) - avail
        OBVIOUS
      <4>3. m = IF planes < n THEN planes - 1 ELSE planes
        OBVIOUS
      <4> HIDE DEF n, m, reserve, avail, last, extra, size
      <4>4. planes < n /\ m = planes - 1
        BY <1>3, <1>5, <1>9, <1>11, <4>1, <4>2, <4>3
      <4>5. /\ z.size \in Nat /\ z.start \in Nat /\ n \in Nat /\ extra \in Nat /\ extra > 0
            /\ z.start + z.size <= n /\ planes \in Nat \ {0}
        BY <1>3, <1>5, <1>9, <1>11
      <4>6. extra = (n - z.size) - (planes - 1)
        BY <4>1, <4>2, <4>4, <4>5
      <4> HIDE DEF z
      <4>7. size = n - planes + 1 /\ size \in Nat \ {0}
        BY <4>2, <4>4, <4>5, <4>6
      <4>8. size <= last /\ last <= n /\ z.start + z.size <= last
        BY <4>1, <4>4, <4>5, <4>7
      <4> QED BY <4>2, <4>4, <4>5, <4>7, <4>8
    <3>2. CASE ~reserve
      <4>1. avail = m /\ last = n
        BY <3>2
      <4>2. size = z.size + extra /\ extra = (last - z.size) - avail
        OBVIOUS
      <4>3. m = IF planes < n THEN planes - 1 ELSE planes
        OBVIOUS
      <4> HIDE DEF n, m, reserve, avail, last, extra, size
      <4>4. planes < n /\ m = planes - 1
        BY <1>3, <1>5, <1>9, <1>11, <4>1, <4>2, <4>3
      <4>5. /\ z.size \in Nat /\ z.start \in Nat /\ n \in Nat /\ extra \in Nat /\ extra > 0
            /\ z.start + z.size <= n /\ planes \in Nat \ {0}
        BY <1>3, <1>5, <1>9, <1>11
      <4>6. extra = (n - z.size) - (planes - 1)
        BY <4>1, <4>2, <4>4, <4>5
      <4> HIDE DEF z
      <4>7. size = n - planes + 1 /\ size \in Nat \ {0}
        BY <4>2, <4>4, <4>5, <4>6
      <4>8. size <= last /\ last <= n /\ z.start + z.size <= last
        BY <4>1, <4>4, <4>5, <4>7
      <4> QED BY <4>2, <4>4, <4>5, <4>7, <4>8
    <3> QED BY <3>1, <3>2
  <2>2. /\ n = IF useCursor THEN L - 1 ELSE L
        /\ reserve => last = n - 1 /\ ~useCursor /\ HasCursor(stack)
        /\ ~reserve => last = n
        /\ ~reserve /\ ~useCursor /\ HasCursor(stack) => m <= 0 \/ z.start + z.size >= n
    BY <1>3, <1>5, <2>1
  <2>3. /\ prepend = IF z.start <= extra THEN z.start ELSE extra
        /\ append = IF last - (z.start + z.size) <= extra THEN last - (z.start + z.size)
                    ELSE extra
    BY <1>3, <1>9, MinOfSome
  <2> DEFINE room == last - (first + size)
  <2>4. first = z.start - prepend /\ room = last - (first + size)
    OBVIOUS
  <2>5. /\ starts = IF z.size # 0 THEN first .. first + steps ELSE 0 .. last - extra
        /\ steps = Min({append, prepend, room})
    OBVIOUS
  <2> HIDE DEF n, m, reserve, avail, last, extra, prepend, append, first, size, steps, starts,
              room
  <2>6. /\ prepend \in Nat /\ append \in Nat /\ first \in Nat /\ room \in Int
        /\ prepend <= extra /\ prepend <= z.start
    BY <1>3, <1>9, <2>1, <2>3, <2>4
  <2>7. steps = IF append <= prepend THEN IF append <= room THEN append ELSE room
                ELSE IF prepend <= room THEN prepend ELSE room
    <3>1. append \in Int /\ prepend \in Int /\ room \in Int
      BY <2>6
    <3>2. \A c \in Int : Min({append, prepend, c}) =
                         IF append <= prepend THEN IF append <= c THEN append ELSE c
                         ELSE IF prepend <= c THEN prepend ELSE c
      BY <3>1, MinOfSome
    <3> QED BY <2>5, <3>1, <3>2
  <2>8. room \in Nat
    BY <1>3, <1>9, <2>1, <2>3, <2>4, <2>6
  <2>9. /\ steps \in Nat /\ steps <= prepend /\ steps <= room
    BY <2>6, <2>7, <2>8
  <2>10. ASSUME NEW s \in starts
         PROVE  /\ s \in Nat /\ s + size <= last
                /\ z.size # 0 => s <= z.start /\ z.start + z.size <= s + size
    <3>1. CASE z.size # 0
      <4>1. s \in Nat /\ first <= s /\ s <= first + steps
        BY <2>5, <2>6, <2>9, <2>10, <3>1
      <4> QED BY <1>3, <1>9, <2>1, <2>4, <2>6, <2>9, <4>1
    <3>2. CASE z.size = 0
      <4>1. s \in 0 .. last - extra
        BY <2>5, <2>10, <3>2
      <4> QED BY <1>3, <1>9, <2>1, <3>2, <4>1
    <3> QED BY <1>3, <3>1, <3>2
  <2>11. starts \in SUBSET Nat /\ starts # {}
    <3>1. starts \in SUBSET Nat
      BY <2>10
    <3>2. CASE z.size # 0
      <4>1. first \in starts
        BY <2>5, <2>6, <2>9, <3>2
      <4> QED BY <3>1, <4>1
    <3>3. CASE z.size = 0
      <4>1. 0 \in starts
        BY <1>3, <1>9, <2>1, <2>5, <3>3
      <4> QED BY <3>1, <4>1
    <3> QED BY <3>2, <3>3
  \* Every range that fits contains one of the windows.
  <2>12. ASSUME NEW q \in fitting, q.start + q.size <= last
         PROVE  \E s \in starts : q.start <= s /\ s + size <= q.start + q.size
    <3>1. /\ q.start \in Nat /\ q.size \in Nat /\ size <= q.size
          /\ z.size # 0 => q.start <= z.start /\ z.start + z.size <= q.start + q.size
      BY <1>5, <1>6, <2>1, <2>12
    <3>2. CASE z.size = 0
      <4>1. q.start \in starts
        BY <1>3, <1>9, <2>1, <2>5, <2>12, <3>1, <3>2
      <4> QED BY <2>1, <3>1, <4>1
    <3>3. CASE z.size # 0 /\ q.start >= first
      <4>1. q.start <= first + steps
        BY <1>3, <1>9, <2>1, <2>3, <2>4, <2>6, <2>7, <2>12, <3>1, <3>3
      <4>2. q.start \in starts
        BY <2>5, <2>6, <2>9, <3>1, <3>3, <4>1
      <4> QED BY <2>1, <3>1, <4>2
    <3>4. CASE z.size # 0 /\ q.start < first
      <4>1. first \in starts
        BY <2>5, <2>6, <2>9, <3>4
      <4>2. first + size <= q.start + q.size
        BY <1>3, <1>9, <2>1, <2>3, <2>4, <2>6, <3>1, <3>4
      <4> QED BY <2>6, <3>1, <3>4, <4>1, <4>2
    <3> QED BY <2>6, <3>1, <3>2, <3>3, <3>4
  <2> DEFINE a == CheapestStart(stack, starts, size)
  <2>13. /\ a \in starts
         /\ \A s \in starts : PixOps(stack, a, size) <= PixOps(stack, s, size)
    <3>1. \A s \in starts : s + size <= L
      BY <1>3, <1>5, <1>9, <2>1, <2>10
    <3> QED BY <2>1, <2>11, <3>1, CheapestStartIs DEF L
  <2>14. r = [start |-> a, size |-> size]
    BY <1>1, <1>11
  <2> HIDE DEF a
  <2>15. /\ a \in Nat /\ a + size <= last /\ a + size <= n /\ a + size <= L
         /\ z.size # 0 => a <= z.start /\ z.start + z.size <= a + size
    BY <1>3, <1>5, <1>9, <2>1, <2>10, <2>13
  <2>16. [start |-> a, size |-> size] \in fitting
    <3>1. (n - size) + (IF size > 0 THEN 1 ELSE 0) <= planes
      BY <1>5, <1>9, <2>1
    <3> QED BY <1>7, <2>1, <2>15, <3>1
  <2>17. ASSUME NEW q \in fitting, q.start + q.size < L, HasCursor(stack)
         PROVE  a + size < L
    <3>1. /\ q.start \in Nat /\ q.size \in Nat /\ size <= q.size
          /\ z.size # 0 => z.start + z.size <= q.start + q.size
      BY <1>5, <1>6, <2>1, <2>17
    <3>2. CASE reserve \/ useCursor
      BY <1>3, <1>5, <1>9, <2>1, <2>2, <2>15, <3>2
    <3>3. CASE ~reserve /\ ~useCursor
      <4>1. n = L /\ (m <= 0 \/ z.start + z.size >= n)
        BY <2>2, <2>17, <3>3
      <4>2. CASE m <= 0
        BY <1>3, <1>5, <1>9, <2>1, <2>17, <3>1, <4>1, <4>2
      <4>3. CASE z.start + z.size >= n
        BY <1>3, <1>5, <2>1, <2>17, <3>1, <4>1, <4>3
      <4> QED BY <4>1, <4>2, <4>3
    <3> QED BY <3>2, <3>3
  <2>18. ASSUME NEW q \in fitting, HasCursor(stack) /\ a + size < L => q.start + q.size < L
         PROVE  PixOps(stack, a, size) <= PixOps(stack, q.start, q.size)
    <3>1. /\ q.start \in Nat /\ q.size \in Nat /\ q.start + q.size <= n
          /\ q.start + q.size <= L
      <4>1. q.start \in Nat /\ q.size \in Nat /\ q.start + q.size <= n
        BY <1>6, <2>18
      <4> QED BY <1>3, <1>5, <4>1
    <3>2. q.start + q.size <= last
      <4>1. CASE reserve
        BY <1>3, <1>5, <1>9, <2>1, <2>2, <2>15, <2>18, <3>1, <4>1
      <4>2. CASE ~reserve
        BY <2>2, <3>1, <4>2
      <4> QED BY <4>1, <4>2
    <3>3. PICK s \in starts : q.start <= s /\ s + size <= q.start + q.size
      BY <2>12, <2>18, <3>2
    <3>4. s \in Nat /\ s + size <= L
      BY <1>3, <1>5, <1>9, <2>1, <2>10
    <3>5. PixOps(stack, s, size) <= PixOps(stack, q.start, q.size)
      BY <2>1, <3>1, <3>3, <3>4, PixOpsWithin DEF L
    <3>6. /\ PixOps(stack, a, size) \in Nat /\ PixOps(stack, s, size) \in Nat
          /\ PixOps(stack, q.start, q.size) \in Nat
      BY <2>1, <2>15, <3>1, <3>4, PixOpsNat DEF L
    <3>7. PixOps(stack, a, size) <= PixOps(stack, s, size)
      BY <2>13
    <3> QED BY <3>5, <3>6, <3>7
  <2> HIDE DEF fitting
  <2> QED BY <1>8, <2>1, <2>14, <2>15, <2>16, <2>17, <2>18 DEF L, r, z
<1> QED BY <1>10, <1>11 DEF L, r, z

-----------------------------------------------------------------------------
(* What a step does to the frames.                                         *)

\* A validation gives a display a frame, presenting it keeps its layers and
\* their types; the frames of the other displays stay as they are.
FrameOf(d) ==
  \/ frame'[d] = frame[d]
  \/ \E stack \in Stacks[d] : \E o :
       /\ \/ \E answers : o \in Outcomes(d, stack, answers)
          \/ o = Outcome(AllClient(stack), {})
       /\ frame'[d] = [stack |-> stack, types |-> o.types, pending |-> TRUE,
                       plans |-> o.plans]
  \/ /\ frame[d] # None
     /\ frame'[d] = [stack |-> frame[d].stack, types |-> frame[d].types,
                     pending |-> FALSE, plans |-> {}]

LEMMA FrameStep ==
  ASSUME TypeOK, Next
  PROVE  \E d \in Displays : FrameOf(d) /\ \A e \in Displays \ {d} : frame'[e] = frame[e]
<1>1. PICK d \in Displays : \/ Validate(d) \/ ValidateFlattened(d) \/ SetClientTarget(d)
                            \/ Present(d) \/ PresentFails(d)
  BY DEF Next
<1>2. ASSUME NEW stack, NEW o, Validated(d, stack, o)
      PROVE  /\ frame'[d] = [stack |-> stack, types |-> o.types, pending |-> TRUE,
                             plans |-> o.plans]
             /\ \A e \in Displays \ {d} : frame'[e] = frame[e]
  <2>1. frame' = [frame EXCEPT ![d] = [stack |-> stack, types |-> o.types,
                                      pending |-> TRUE, plans |-> o.plans]]
    BY <1>2 DEF Validated
  <2> QED BY <2>1 DEF TypeOK
<1>3. CASE Validate(d)
  <2>1. PICK stack \in Stacks[d] :
          \E answers, o : o \in Outcomes(d, stack, answers) /\ Validated(d, stack, o)
    BY <1>3 DEF Validate
  <2>2. PICK answers, o : o \in Outcomes(d, stack, answers) /\ Validated(d, stack, o)
    BY <2>1
  <2>3. FrameOf(d)
    BY <1>2, <2>2 DEF FrameOf
  <2> QED BY <1>2, <2>2, <2>3
<1>4. CASE ValidateFlattened(d)
  <2>1. PICK stack \in Stacks[d] : Validated(d, stack, Outcome(AllClient(stack), {}))
    BY <1>4 DEF ValidateFlattened
  <2> DEFINE o == Outcome(AllClient(stack), {})
  <2>2. Validated(d, stack, o) /\ o = Outcome(AllClient(stack), {})
    BY <2>1
  <2> HIDE DEF o
  <2>3. FrameOf(d)
    BY <1>2, <2>2 DEF FrameOf
  <2> QED BY <1>2, <2>2, <2>3
<1>5. CASE SetClientTarget(d)
  BY <1>5 DEF SetClientTarget, FrameOf
<1>6. CASE Present(d) \/ PresentFails(d)
  <2>1. frame[d] # None /\ FrameDone(d)
    BY <1>6 DEF Present, PresentFails
  <2>2. frame' = [frame EXCEPT ![d] = [stack |-> frame[d].stack, types |-> frame[d].types,
                                      pending |-> FALSE, plans |-> {}]]
    BY <2>1 DEF FrameDone, TypeOK
  <2>3. /\ frame'[d] = [stack |-> frame[d].stack, types |-> frame[d].types,
                        pending |-> FALSE, plans |-> {}]
        /\ \A e \in Displays \ {d} : frame'[e] = frame[e]
    BY <2>2 DEF TypeOK
  <2> QED BY <2>1, <2>3 DEF FrameOf
<1> QED BY <1>1, <1>3, <1>4, <1>5, <1>6

\* The layers of a frame are layers the display may be given.
StacksGiven == \A d \in Displays : frame[d] # None => frame[d].stack \in Stacks[d]

LEMMA StacksGivenStep ==
  ASSUME TypeOK, StacksGiven, Next
  PROVE  StacksGiven'
<1>1. PICK d \in Displays : FrameOf(d) /\ \A e \in Displays \ {d} : frame'[e] = frame[e]
  BY FrameStep
<1>2. ASSUME frame'[d] # None PROVE frame'[d].stack \in Stacks[d]
  <2>1. CASE frame'[d] = frame[d]
    BY <1>2, <2>1 DEF StacksGiven
  <2>2. ASSUME NEW stack \in Stacks[d], NEW o,
               frame'[d] = [stack |-> stack, types |-> o.types, pending |-> TRUE,
                            plans |-> o.plans]
        PROVE  frame'[d].stack \in Stacks[d]
    BY <2>2
  <2>3. CASE /\ frame[d] # None
             /\ frame'[d] = [stack |-> frame[d].stack, types |-> frame[d].types,
                             pending |-> FALSE, plans |-> {}]
    BY <2>3 DEF StacksGiven
  <2> QED BY <1>1, <2>1, <2>2, <2>3 DEF FrameOf
<1> QED BY <1>1, <1>2 DEF StacksGiven

\* The client draws the cheapest range of layers that leaves every other one a
\* plane, and spares the cursor when it can: for stacks of any length, any
\* costs and any number of planes (GetClientLayers and GetExtraClientRange,
\* whose search for the cheapest window tries only some of them).
THEOREM CheapestClientRangeCorrect == Spec => []CheapestClientRange
<1>1. Init => StacksGiven
  BY DEF Init, StacksGiven
<1>2. TypeOK /\ StacksGiven /\ [Next]_vars => StacksGiven'
  <2>1. ASSUME StacksGiven, UNCHANGED vars PROVE StacksGiven'
    BY <2>1 DEF StacksGiven, vars
  <2> QED BY <2>1, StacksGivenStep
<1>3. StacksGiven => CheapestClientRange
  <2> SUFFICES ASSUME StacksGiven, NEW d \in Displays, frame[d] # None,
                      NEW planes \in 1 .. (Len(Planes) + 1), NEW useCursor \in BOOLEAN,
                      useCursor => CanUseCursorPlane(frame[d].stack)
               PROVE  CheapestRange(frame[d].stack, planes, useCursor)
    BY DEF CheapestClientRange
  <2>1. IsStack(frame[d].stack)
    BY StacksAre DEF StacksGiven
  <2>2. planes \in Nat \ {0}
    <3>1. Len(Planes) \in Nat
      BY ConstantsAssumption
    <3> QED BY <3>1
  <2> QED BY <2>1, <2>2, ExtraClientRangeIs
<1> QED BY <1>1, <1>2, <1>3, TypeCorrect, PTL DEF Spec

-----------------------------------------------------------------------------
(* Elements of a set in their order.                                       *)

Rank(S, i) == Cardinality({j \in S : j <= i})

\* Ranks go up with the elements, from 1 to the size of the set.
LEMMA RankUp ==
  ASSUME NEW n \in Nat, NEW S \in SUBSET (1 .. n)
  PROVE  /\ IsFiniteSet(S) /\ Cardinality(S) \in Nat
         /\ \A i \in S : Rank(S, i) \in 1 .. Cardinality(S)
         /\ \A i, j \in S : i < j => Rank(S, i) < Rank(S, j)
<1>1. IsFiniteSet(S) /\ Cardinality(S) \in Nat
  <2>1. IsFiniteSet(1 .. n)
    BY FS_Interval
  <2>2. IsFiniteSet(S)
    BY <2>1, FS_Subset
  <2> QED BY <2>2, FS_CardinalityType
<1> DEFINE upto(i) == {j \in S : j <= i}
<1>2. ASSUME NEW i \in S
      PROVE  IsFiniteSet(upto(i)) /\ Cardinality(upto(i)) \in 1 .. Cardinality(S)
  <2>1. upto(i) \in SUBSET S /\ i \in upto(i)
    OBVIOUS
  <2> HIDE DEF upto
  <2>2. IsFiniteSet(upto(i)) /\ Cardinality(upto(i)) <= Cardinality(S)
    BY <1>1, <2>1, FS_Subset
  <2>3. Cardinality(upto(i)) \in Nat /\ Cardinality(upto(i)) # 0
    BY <2>1, <2>2, FS_CardinalityType, FS_EmptySet
  <2> QED BY <1>1, <2>2, <2>3
<1>3. ASSUME NEW i \in S, NEW j \in S, i < j
      PROVE  Cardinality(upto(i)) < Cardinality(upto(j))
  <2>1. upto(i) \in SUBSET upto(j) /\ j \in upto(j) /\ j \notin upto(i)
    <3>1. i \in Int /\ j \in Int /\ \A m \in S : m \in Int
      OBVIOUS
    <3>2. \A m \in S : m <= i => m <= j
      BY <1>3, <3>1
    <3>3. j <= j /\ ~(j <= i)
      BY <1>3, <3>1
    <3> QED BY <3>2, <3>3
  <2>2. IsFiniteSet(upto(j)) /\ Cardinality(upto(i)) \in Nat /\ Cardinality(upto(j)) \in Nat
    BY <1>2
  <2> HIDE DEF upto
  <2>3. Cardinality(upto(i)) <= Cardinality(upto(j))
    BY <2>1, <2>2, FS_Subset
  <2>4. Cardinality(upto(j)) # Cardinality(upto(i))
    BY <2>1, <2>2, FS_Subset
  <2> QED BY <2>2, <2>3, <2>4
<1> QED BY <1>1, <1>2, <1>3 DEF Rank

\* And they are all taken.
LEMMA RankOnto ==
  ASSUME NEW n \in Nat, NEW S \in SUBSET (1 .. n), NEW k \in 1 .. Cardinality(S)
  PROVE  \E i \in S : Rank(S, i) = k
<1> DEFINE T == 1 .. Cardinality(S)
           f == [i \in S |-> Rank(S, i)]
<1>1. /\ IsFiniteSet(S) /\ Cardinality(S) \in Nat
      /\ \A i \in S : Rank(S, i) \in T
      /\ \A i, j \in S : i < j => Rank(S, i) < Rank(S, j)
  BY RankUp
<1>2. f \in Injection(S, T)
  <2>1. f \in [S -> T]
    BY <1>1
  <2>2. ASSUME NEW i \in S, NEW j \in S, f[i] = f[j] PROVE i = j
    <3>1. Rank(S, i) = Rank(S, j) /\ Rank(S, i) \in Nat
      BY <1>1, <2>2
    <3>2. ~(i < j) /\ ~(j < i)
      BY <1>1, <3>1
    <3> QED BY <3>2
  <2>3. \A i, j \in DOMAIN f : f[i] = f[j] => i = j
    BY <2>2
  <2> HIDE DEF f
  <2> QED BY <2>1, <2>3 DEF Injection, IsInjective
<1>3. IsFiniteSet(T) /\ Cardinality(T) = Cardinality(S)
  BY <1>1, FS_Interval
<1>4. f \in Surjection(S, T)
  <2> HIDE DEF T, f
  <2> QED BY <1>2, <1>3, FS_Injection
<1>5. PICK i \in S : f[i] = k
  BY <1>4 DEF Surjection
<1> QED BY <1>5

\* With nothing missing before it, an element has its own value for a rank.
LEMMA RankOfPrefix ==
  ASSUME NEW S \in SUBSET Nat, NEW i \in Nat, 1 .. i \subseteq S, 0 \notin S
  PROVE  Rank(S, i) = i
<1>1. {j \in S : j <= i} = 1 .. i
  <2>1. ASSUME NEW j \in S, j <= i PROVE j \in 1 .. i
    <3>1. j \in Nat /\ j # 0
      OBVIOUS
    <3> QED BY <2>1, <3>1
  <2>2. \A j \in 1 .. i : j \in S /\ j <= i
    OBVIOUS
  <2> QED BY <2>1, <2>2
<1>2. Cardinality(1 .. i) = i
  <2>1. Cardinality(1 .. i) = IF 1 > i THEN 0 ELSE i - 1 + 1
    BY FS_Interval
  <2> QED BY <2>1
<1> QED BY <1>1, <1>2 DEF Rank

\* What is known of the items of a plan.
LEMMA ItemAtIs ==
  ASSUME NEW types, NEW L \in Nat, DOMAIN types = 1 .. L
  PROVE  LET n == Cardinality(Items(types))
         IN  /\ n \in Nat
             /\ \A k \in 1 .. n : ItemAt(types, k) \in Items(types)
             /\ \A k, l \in 1 .. n : ItemAt(types, k) <= ItemAt(types, l) => k <= l
             /\ \A i \in Items(types) : \E k \in 1 .. n : ItemAt(types, k) = i
             /\ \A i \in Items(types) : 1 .. i \subseteq Items(types) =>
                  i \in 1 .. n /\ ItemAt(types, i) = i
<1> DEFINE S == Items(types)
           n == Cardinality(S)
<1>1. S \in SUBSET (1 .. L)
  BY DEF Items
<1>2. /\ n \in Nat
      /\ \A i \in S : Rank(S, i) \in 1 .. n
      /\ \A i, j \in S : i < j => Rank(S, i) < Rank(S, j)
  BY <1>1, RankUp
<1>3. ASSUME NEW k \in 1 .. n
      PROVE  ItemAt(types, k) \in S /\ Rank(S, ItemAt(types, k)) = k
  <2>1. \E i \in S : Rank(S, i) = k
    BY <1>1, RankOnto
  <2> QED BY <2>1 DEF ItemAt, Rank
<1> HIDE DEF S, n
<1>0. \A i \in S : i \in Nat /\ i # 0
  BY <1>1
<1>4. ASSUME NEW k \in 1 .. n, NEW l \in 1 .. n, ItemAt(types, k) <= ItemAt(types, l)
      PROVE  k <= l
  <2> DEFINE a == ItemAt(types, k)
             b == ItemAt(types, l)
  <2>1. a \in S /\ b \in S /\ a \in Nat /\ b \in Nat /\ Rank(S, a) = k /\ Rank(S, b) = l /\ a <= b
    <3>1. a \in S /\ b \in S /\ Rank(S, a) = k /\ Rank(S, b) = l
      BY <1>3
    <3> QED BY <1>0, <1>4, <3>1
  <2> HIDE DEF a, b
  <2>2. a = b \/ Rank(S, a) < Rank(S, b)
    BY <1>2, <2>1
  <2> QED BY <1>2, <2>1, <2>2
<1>5. ASSUME NEW i \in S
      PROVE  Rank(S, i) \in 1 .. n /\ ItemAt(types, Rank(S, i)) = i
  <2> DEFINE a == ItemAt(types, Rank(S, i))
  <2>1. a \in S /\ Rank(S, a) = Rank(S, i) /\ a \in Nat /\ i \in Nat /\ Rank(S, i) \in Nat
        /\ Rank(S, i) \in 1 .. n
    <3>1. Rank(S, i) \in 1 .. n
      BY <1>2
    <3>2. a \in S /\ Rank(S, a) = Rank(S, i)
      BY <1>3, <3>1
    <3> QED BY <1>0, <1>2, <3>1, <3>2
  <2> HIDE DEF a
  <2>2. ~(a < i) /\ ~(i < a)
    BY <1>2, <2>1
  <2>3. a = i
    BY <2>1, <2>2
  <2> QED BY <2>1, <2>3 DEF a
<1>6. ASSUME NEW i \in S, 1 .. i \subseteq S
      PROVE  i \in 1 .. n /\ ItemAt(types, i) = i
  <2>1. Rank(S, i) = i
    <3>1. S \in SUBSET Nat /\ 0 \notin S /\ i \in Nat
      BY <1>0
    <3> QED BY <1>6, <3>1, RankOfPrefix
  <2> QED BY <1>5, <2>1
<1> QED BY <1>2, <1>3, <1>4, <1>5, <1>6 DEF S, n

-----------------------------------------------------------------------------
(* The plan shows every layer that can be seen, once and in order, when    *)
(* the types are such that no plane is between layers the client draws.    *)

\* What both planners decide.
WellTyped(stack, types) ==
  /\ types \in [DOMAIN stack -> {"Client", "Device", "Cursor", "DeviceOccluded"}]
  /\ \A i \in DOMAIN stack : types[i] = "Cursor" => i = Len(stack)
  /\ \A i \in DOMAIN stack : types[i] = "DeviceOccluded" => stack[i].hidden
  /\ \A h, i, j \in DOMAIN stack :
       h < i /\ i < j /\ types[h] = "Client" /\ types[j] = "Client" => types[i] # "Device"

\* A plan has the items in their order, and the cursor last.
Shaped(types, plan) ==
  LET n == Cardinality(Items(types))
  IN  /\ DOMAIN plan = 1 .. (IF UsesCursorPlane(types) THEN n + 1 ELSE n)
      /\ \A k \in 1 .. n : plan[k].item = Shown(types, ItemAt(types, k))
      /\ UsesCursorPlane(types) => plan[n + 1].item = Len(types)

\* Its slots for the client target have this buffer.
HasTarget(plan, buffer) == \A k \in DOMAIN plan : plan[k].item = Target => plan[k].buffer = buffer

\* Joining plans do, and have the client target with the buffer it has.
LEMMA JoiningPlansShaped ==
  ASSUME NEW d, NEW stack, NEW types, NEW plan \in JoiningPlans(d, stack, types),
         Cardinality(Items(types)) \in Nat
  PROVE  /\ Shaped(types, plan)
         /\ HasTarget(plan, target[d])
<1> DEFINE n == Cardinality(Items(types))
           size == IF UsesCursorPlane(types) THEN n + 1 ELSE n
<1>1. PICK a, c : a \in LeastAssignments(d, stack, types) /\ plan = PlanOf(d, types, a, c)
  BY DEF JoiningPlans
<1>2. DOMAIN a = 1 .. n
  BY <1>1 DEF LeastAssignments, Assignments
<1>3. plan = [k \in 1 .. size |->
                IF k \in 1 .. n THEN Slot(d, Shown(types, ItemAt(types, k)), a[k])
                ELSE Slot(d, Len(types), c)]
  BY <1>1, <1>2 DEF PlanOf
<1> HIDE DEF n
<1>4. DOMAIN plan = 1 .. size
  BY <1>3
<1>5. ASSUME NEW k \in 1 .. n PROVE plan[k].item = Shown(types, ItemAt(types, k))
  <2>1. k \in 1 .. size
    BY DEF n
  <2>2. plan[k] = Slot(d, Shown(types, ItemAt(types, k)), a[k])
    BY <1>3, <2>1
  <2> QED BY <2>2 DEF Slot
<1>6. ASSUME UsesCursorPlane(types) PROVE plan[n + 1].item = Len(types)
  <2>1. n + 1 \in 1 .. size /\ n + 1 \notin 1 .. n
    BY <1>6 DEF n
  <2>2. plan[n + 1] = Slot(d, Len(types), c)
    BY <1>3, <2>1
  <2> QED BY <2>2 DEF Slot
<1>7. ASSUME NEW k \in DOMAIN plan, plan[k].item = Target
      PROVE  plan[k].buffer = target[d]
  <2>1. PICK item, plane : plan[k] = Slot(d, item, plane)
    BY <1>3, <1>4
  <2>2. plan[k].item = item
    BY <2>1 DEF Slot
  <2> QED BY <1>7, <2>1, <2>2 DEF Slot
<1> QED BY <1>4, <1>5, <1>6, <1>7 DEF Shaped, HasTarget, n

\* The layer whose place the slot of layer i takes.
Place(types, i) ==
  IF types[i] = "Client" THEN CHOOSE c \in DOMAIN types : IsFirstClient(types, c) ELSE i

LEMMA FirstClient ==
  ASSUME NEW types, NEW L \in Nat, DOMAIN types = 1 .. L,
         NEW i \in 1 .. L, types[i] = "Client"
  PROVE  /\ Place(types, i) \in 1 .. i
         /\ IsFirstClient(types, Place(types, i))
         /\ \A c \in 1 .. L : IsFirstClient(types, c) => c = Place(types, i)
<1> DEFINE C == {c \in 1 .. L : types[c] = "Client"}
<1>1. C \in SUBSET Nat /\ C # {}
  OBVIOUS
<1>2. PICK c \in C : \A e \in C : c <= e
  BY <1>1, LeastNatural
<1>3. c \in 1 .. L /\ types[c] = "Client"
  BY <1>2
<1>4. IsFirstClient(types, c)
  <2>1. ASSUME NEW j \in 1 .. (c - 1) PROVE types[j] # "Client"
    <3>1. j \in 1 .. L /\ ~(c <= j)
      BY <1>3
    <3> QED BY <1>2, <3>1
  <2> QED BY <1>3, <2>1 DEF IsFirstClient
<1>5. ASSUME NEW e \in 1 .. L, IsFirstClient(types, e) PROVE e = c
  <2>1. types[e] = "Client" /\ c <= e
    BY <1>2, <1>5 DEF IsFirstClient
  <2>2. ~(c \in 1 .. (e - 1))
    BY <1>3, <1>5 DEF IsFirstClient
  <2> QED BY <1>3, <2>1, <2>2
<1>6. Place(types, i) = c
  BY <1>3, <1>4, <1>5 DEF Place
<1>7. c <= i
  BY <1>2
<1> QED BY <1>3, <1>4, <1>5, <1>6, <1>7

\* The slots that show a layer that can be seen: the one of its place.
LEMMA SlotsOfLayer ==
  ASSUME NEW stack, IsStack(stack), NEW types, WellTyped(stack, types),
         NEW plan, Shaped(types, plan), Len(types) = Len(stack),
         NEW i \in DOMAIN stack, ~stack[i].hidden
  PROVE  LET n == Cardinality(Items(types))
             shows == {k \in DOMAIN plan :
                         plan[k].item = IF types[i] = "Client" THEN Target ELSE i}
         IN  /\ types[i] # "Cursor" =>
                  /\ Place(types, i) \in Items(types)
                  /\ shows = {k \in 1 .. n : ItemAt(types, k) = Place(types, i)}
             /\ types[i] = "Cursor" => i = Len(stack) /\ shows = {n + 1}
<1> DEFINE L == Len(stack)
           n == Cardinality(Items(types))
           shows == {k \in DOMAIN plan :
                       plan[k].item = IF types[i] = "Client" THEN Target ELSE i}
<1>1. /\ L \in Nat \ {0} /\ DOMAIN stack = 1 .. L /\ DOMAIN types = 1 .. L
      /\ i \in 1 .. L
  BY DEF IsStack, WellTyped
<1>2. /\ n \in Nat
      /\ \A k \in 1 .. n : ItemAt(types, k) \in Items(types)
  BY <1>1, ItemAtIs
<1>3. /\ \A k \in 1 .. n : plan[k].item = Shown(types, ItemAt(types, k))
      /\ DOMAIN plan = 1 .. (IF UsesCursorPlane(types) THEN n + 1 ELSE n)
      /\ UsesCursorPlane(types) => plan[n + 1].item = L
  BY DEF Shaped
<1>4. UsesCursorPlane(types) <=> types[L] = "Cursor"
  BY <1>1 DEF UsesCursorPlane, WellTyped
<1>5. types[i] \in {"Client", "Device", "Cursor"}
  BY <1>1 DEF WellTyped
<1> HIDE DEF n
<1>6. ASSUME NEW k \in 1 .. n
      PROVE  /\ k \in DOMAIN plan
             /\ ItemAt(types, k) \in 1 .. L
             /\ types[ItemAt(types, k)] \in {"Client", "Device"}
             /\ types[ItemAt(types, k)] = "Client" => IsFirstClient(types, ItemAt(types, k))
             /\ plan[k].item = IF types[ItemAt(types, k)] = "Client" THEN 0
                               ELSE ItemAt(types, k)
  <2>1. k \in DOMAIN plan
    BY <1>2, <1>3
  <2>2. ItemAt(types, k) \in Items(types)
    BY <1>2
  <2> QED BY <1>1, <1>3, <2>1, <2>2 DEF Items, IsFirstClient, Shown, Target
<1>7. \A k \in DOMAIN plan : k \in 1 .. n \/ (UsesCursorPlane(types) /\ k = n + 1)
  BY <1>2, <1>3
<1>8. CASE types[i] = "Client"
  <2>1. /\ Place(types, i) \in 1 .. L /\ IsFirstClient(types, Place(types, i))
        /\ \A c \in 1 .. L : IsFirstClient(types, c) => c = Place(types, i)
    BY <1>1, <1>8, FirstClient
  <2>2. Place(types, i) \in Items(types)
    BY <1>1, <2>1 DEF Items
  <2>3. ASSUME NEW k \in 1 .. n
        PROVE  plan[k].item = 0 <=> ItemAt(types, k) = Place(types, i)
    <3>1. ItemAt(types, k) = Place(types, i) => types[ItemAt(types, k)] = "Client"
      BY <2>1 DEF IsFirstClient
    <3>2. ItemAt(types, k) # 0
      BY <1>6
    <3> QED BY <1>6, <2>1, <3>1, <3>2
  <2>4. UsesCursorPlane(types) => plan[n + 1].item # 0
    BY <1>1, <1>3
  <2>5. shows = {k \in 1 .. n : ItemAt(types, k) = Place(types, i)}
    BY <1>6, <1>7, <1>8, <2>3, <2>4 DEF Target
  <2> QED BY <1>8, <2>2, <2>5 DEF n
<1>9. CASE types[i] = "Device"
  <2>1. Place(types, i) = i /\ i \in Items(types)
    BY <1>1, <1>9 DEF Place, Items
  <2>2. ASSUME NEW k \in 1 .. n
        PROVE  plan[k].item = i <=> ItemAt(types, k) = i
    BY <1>1, <1>6, <1>9
  <2>3. UsesCursorPlane(types) => plan[n + 1].item # i
    BY <1>3, <1>4, <1>9
  <2>4. shows = {k \in 1 .. n : ItemAt(types, k) = i}
    BY <1>6, <1>7, <1>9, <2>2, <2>3
  <2> QED BY <1>9, <2>1, <2>4 DEF n
<1>10. CASE types[i] = "Cursor"
  <2>1. i = L /\ UsesCursorPlane(types)
    BY <1>1, <1>4, <1>10 DEF WellTyped
  <2>2. ASSUME NEW k \in 1 .. n
        PROVE  plan[k].item # i
    BY <1>1, <1>6, <1>10
  <2>3. n + 1 \in DOMAIN plan /\ plan[n + 1].item = i
    BY <1>2, <1>3, <2>1
  <2>4. shows = {n + 1}
    BY <1>7, <1>10, <2>2, <2>3
  <2> QED BY <1>10, <2>1, <2>4 DEF n
<1> QED BY <1>5, <1>8, <1>9, <1>10

\* So every such layer is shown once, and none in front of one that covers it.
LEMMA ShapedShows ==
  ASSUME NEW stack, IsStack(stack), NEW types, WellTyped(stack, types),
         NEW plan, Shaped(types, plan), Len(types) = Len(stack)
  PROVE  LET shows(i) == {k \in DOMAIN plan :
                            plan[k].item = IF types[i] = "Client" THEN Target ELSE i}
             visible == {i \in DOMAIN stack : ~stack[i].hidden}
         IN  /\ \A i \in visible : Cardinality(shows(i)) = 1
             /\ \A i, j \in visible : i < j => \A k \in shows(i), l \in shows(j) : k <= l
<1> DEFINE L == Len(stack)
           n == Cardinality(Items(types))
           shows(i) == {k \in DOMAIN plan :
                          plan[k].item = IF types[i] = "Client" THEN Target ELSE i}
           visible == {i \in DOMAIN stack : ~stack[i].hidden}
<1>1. L \in Nat \ {0} /\ DOMAIN stack = 1 .. L /\ DOMAIN types = 1 .. L
  BY DEF IsStack, WellTyped
<1>2. /\ n \in Nat
      /\ \A k, l \in 1 .. n : ItemAt(types, k) <= ItemAt(types, l) => k <= l
      /\ \A i \in Items(types) : \E k \in 1 .. n : ItemAt(types, k) = i
      /\ \A k \in 1 .. n : ItemAt(types, k) \in Items(types)
  BY <1>1, ItemAtIs
<1>3. ASSUME NEW i \in visible
      PROVE  /\ i \in 1 .. L
             /\ types[i] # "Cursor" =>
                  /\ Place(types, i) \in Items(types)
                  /\ shows(i) = {k \in 1 .. n : ItemAt(types, k) = Place(types, i)}
             /\ types[i] = "Cursor" => i = L /\ shows(i) = {n + 1}
             /\ types[i] \in {"Client", "Device", "Cursor"}
  <2>1. i \in DOMAIN stack /\ ~stack[i].hidden
    OBVIOUS
  <2>2. types[i] \in {"Client", "Device", "Cursor"}
    BY <2>1 DEF WellTyped
  <2> QED BY <1>1, <2>1, <2>2, SlotsOfLayer
<1> HIDE DEF n, shows
<1>4. \A i \in Items(types) : i \in 1 .. L
  BY <1>1 DEF Items
<1>5. ASSUME NEW i \in visible PROVE Cardinality(shows(i)) = 1
  <2>1. CASE types[i] = "Cursor"
    <3>1. shows(i) = {n + 1}
      BY <1>3, <2>1
    <3> QED BY <3>1, FS_Singleton
  <2>2. CASE types[i] # "Cursor"
    <3>1. /\ Place(types, i) \in Items(types)
          /\ shows(i) = {k \in 1 .. n : ItemAt(types, k) = Place(types, i)}
      BY <1>3, <2>2
    <3>2. PICK k \in 1 .. n : ItemAt(types, k) = Place(types, i)
      BY <1>2, <3>1
    <3>3. ASSUME NEW l \in 1 .. n, ItemAt(types, l) = Place(types, i) PROVE l = k
      <4>1. ItemAt(types, l) <= ItemAt(types, k) /\ ItemAt(types, k) <= ItemAt(types, l)
        BY <1>4, <3>1, <3>2, <3>3
      <4>2. l <= k /\ k <= l
        BY <1>2, <4>1
      <4> QED BY <1>2, <4>2
    <3>4. shows(i) = {k}
      BY <3>1, <3>2, <3>3
    <3> QED BY <3>4, FS_Singleton
  <2> QED BY <2>1, <2>2
\* The place of a layer is not in front of that of a layer that covers it.
<1>6. ASSUME NEW i \in visible, NEW j \in visible, i < j,
             types[i] # "Cursor", types[j] # "Cursor"
      PROVE  Place(types, i) <= Place(types, j)
  <2>1. i \in 1 .. L /\ j \in 1 .. L
    BY <1>3
  <2>2. ASSUME NEW h \in 1 .. L, types[h] = "Client"
        PROVE  /\ Place(types, h) \in 1 .. h /\ types[Place(types, h)] = "Client"
               /\ \A c \in 1 .. L : IsFirstClient(types, c) => c = Place(types, h)
               /\ IsFirstClient(types, Place(types, h))
    BY <1>1, <2>2, FirstClient DEF IsFirstClient
  <2>3. CASE types[j] = "Device"
    <3>1. Place(types, j) = j
      BY <2>3 DEF Place
    <3>2. Place(types, i) \in 1 .. i
      <4>1. CASE types[i] = "Client"
        BY <2>1, <2>2, <4>1
      <4>2. CASE types[i] # "Client"
        BY <2>1, <4>2 DEF Place
      <4> QED BY <4>1, <4>2
    <3> QED BY <1>6, <2>1, <3>1, <3>2
  <2>4. CASE types[i] = "Client" /\ types[j] = "Client"
    <3>1. Place(types, i) = Place(types, j) /\ Place(types, j) \in 1 .. j
      BY <2>1, <2>2, <2>4 DEF Place
    <3> QED BY <3>1
  <2>5. CASE types[i] = "Device" /\ types[j] = "Client"
    <3> DEFINE c == Place(types, j)
    <3>1. Place(types, i) = i
      BY <2>5 DEF Place
    <3>2. c \in 1 .. j /\ types[c] = "Client"
      BY <2>1, <2>2, <2>5
    <3>3. c \in 1 .. L /\ c # i
      BY <1>1, <2>1, <2>5, <3>2
    <3>4. ~(c < i)
      BY <1>1, <1>6, <2>1, <2>5, <3>2, <3>3 DEF WellTyped
    <3> HIDE DEF c
    <3>5. i <= c
      BY <2>1, <3>3, <3>4
    <3> QED BY <3>1, <3>5 DEF c
  <2> QED BY <1>3, <1>6, <2>3, <2>4, <2>5
<1>7. ASSUME NEW i \in visible, NEW j \in visible, i < j,
             NEW k \in shows(i), NEW l \in shows(j)
      PROVE  k <= l
  <2>1. i \in 1 .. L /\ j \in 1 .. L /\ types[i] # "Cursor"
    <3>1. i \in 1 .. L /\ j \in 1 .. L
      BY <1>3
    <3>2. types[i] = "Cursor" => i = L
      BY <1>3
    <3> QED BY <1>7, <3>1, <3>2
  <2>2. k \in 1 .. n /\ ItemAt(types, k) = Place(types, i)
    BY <1>3, <1>7, <2>1
  <2>3. CASE types[j] = "Cursor"
    <3>1. l = n + 1
      BY <1>3, <1>7, <2>3
    <3> QED BY <1>2, <2>2, <3>1
  <2>4. CASE types[j] # "Cursor"
    <3>1. l \in 1 .. n /\ ItemAt(types, l) = Place(types, j)
      BY <1>3, <1>7, <2>4
    <3>2. Place(types, i) <= Place(types, j)
      BY <1>6, <1>7, <2>1, <2>4
    <3> QED BY <1>2, <2>2, <3>1, <3>2
  <2> QED BY <2>3, <2>4
<1> QED BY <1>5, <1>7 DEF shows

-----------------------------------------------------------------------------
(* A plan that was kept shows the buffer the client drew last.             *)

\* Planes show all layers behind the first one the client draws.
DrawsFirst(types) ==
  \A c \in DOMAIN types : IsFirstClient(types, c) => \A i \in 1 .. (c - 1) : types[i] = "Device"

\* client_z_order is then the index of the client target in the plan.
LEMMA KeptPlanShaped ==
  ASSUME NEW d, NEW stack, IsStack(stack), NEW types, WellTyped(stack, types),
         Len(types) = Len(stack), DrawsFirst(types), NEW plan, Shaped(types, plan),
         NEW new, new = UpdateClientTarget(d, types, plan)
  PROVE  /\ Shaped(types, new)
         /\ HasTarget(new, target[d])
<1> DEFINE L == Len(stack)
           n == Cardinality(Items(types))
<1>1. L \in Nat \ {0} /\ DOMAIN stack = 1 .. L /\ DOMAIN types = 1 .. L
  BY DEF IsStack, WellTyped
<1>2. /\ n \in Nat
      /\ \A k \in 1 .. n : ItemAt(types, k) \in Items(types)
      /\ \A k, l \in 1 .. n : ItemAt(types, k) <= ItemAt(types, l) => k <= l
      /\ \A i \in Items(types) : 1 .. i \subseteq Items(types) =>
           i \in 1 .. n /\ ItemAt(types, i) = i
  BY <1>1, ItemAtIs
<1>3. /\ DOMAIN plan = 1 .. (IF UsesCursorPlane(types) THEN n + 1 ELSE n)
      /\ \A k \in 1 .. n : plan[k].item = Shown(types, ItemAt(types, k))
      /\ UsesCursorPlane(types) => plan[n + 1].item = L
  BY DEF Shaped
<1> HIDE DEF n
<1>4. ASSUME NEW c \in 1 .. L, IsFirstClient(types, c)
      PROVE  c \in 1 .. n /\ ItemAt(types, c) = c /\ Shown(types, c) = Target
  <2>1. types[c] = "Client" /\ c \in Items(types)
    BY <1>1, <1>4 DEF IsFirstClient, Items
  <2>2. ASSUME NEW i \in 1 .. c PROVE i \in Items(types)
    <3>1. CASE i = c
      BY <2>1, <3>1
    <3>2. CASE i # c
      <4>1. i \in 1 .. (c - 1) /\ i \in DOMAIN types
        BY <1>1, <3>2
      <4>2. types[i] = "Device"
        BY <1>1, <1>4, <4>1 DEF DrawsFirst
      <4> QED BY <4>1, <4>2 DEF Items
    <3> QED BY <3>1, <3>2
  <2> QED BY <1>2, <2>1, <2>2 DEF Shown
<1>5. /\ DOMAIN new = DOMAIN plan
      /\ \A k \in DOMAIN plan :
           new[k] = IF k \in 1 .. L /\ IsFirstClient(types, k)
                    THEN Slot(d, Target, plan[k].plane) ELSE plan[k]
  BY <1>1 DEF UpdateClientTarget
<1>6. ASSUME NEW k \in DOMAIN plan PROVE new[k].item = plan[k].item
  <2>1. CASE k \in 1 .. L /\ IsFirstClient(types, k)
    <3>1. plan[k].item = Target
      BY <1>3, <1>4, <2>1
    <3> QED BY <1>5, <2>1, <3>1 DEF Slot
  <2>2. CASE ~(k \in 1 .. L /\ IsFirstClient(types, k))
    BY <1>5, <2>2
  <2> QED BY <2>1, <2>2
<1>7. Shaped(types, new)
  <2>1. \A k \in 1 .. n : k \in DOMAIN plan
    BY <1>2, <1>3
  <2>2. UsesCursorPlane(types) => n + 1 \in DOMAIN plan
    BY <1>2, <1>3
  <2> QED BY <1>3, <1>5, <1>6, <2>1, <2>2 DEF Shaped, n
<1>8. ASSUME NEW k \in DOMAIN new, new[k].item = Target
      PROVE  new[k].buffer = target[d]
  <2>1. k \in DOMAIN plan /\ plan[k].item = 0
    BY <1>5, <1>6, <1>8 DEF Target
  <2>2. k \in 1 .. n
    BY <1>1, <1>2, <1>3, <2>1
  <2>3. ItemAt(types, k) \in 1 .. L /\ ItemAt(types, k) \in Items(types)
    BY <1>1, <1>2, <2>2 DEF Items
  <2>4. types[ItemAt(types, k)] = "Client"
    BY <1>3, <2>1, <2>2, <2>3 DEF Shown
  <2>5. IsFirstClient(types, ItemAt(types, k))
    BY <2>3, <2>4 DEF Items, IsFirstClient
  <2>6. ItemAt(types, ItemAt(types, k)) = ItemAt(types, k) /\ ItemAt(types, k) \in 1 .. n
    BY <1>4, <2>3, <2>5
  <2>7. ItemAt(types, k) <= ItemAt(types, ItemAt(types, k))
        /\ ItemAt(types, ItemAt(types, k)) <= ItemAt(types, k)
    BY <2>3, <2>6
  <2>8. k <= ItemAt(types, k) /\ ItemAt(types, k) <= k
    BY <1>2, <2>2, <2>6, <2>7
  <2>9. ItemAt(types, k) = k
    BY <2>2, <2>3, <2>8
  <2>10. new[k] = Slot(d, Target, plan[k].plane)
    BY <1>5, <2>1, <2>3, <2>5, <2>9
  <2> QED BY <2>10 DEF Slot
<1> QED BY <1>7, <1>8 DEF HasTarget

-----------------------------------------------------------------------------
(* Both planners decide on such types.                                     *)

LEMMA TypesLen ==
  ASSUME NEW stack, IsStack(stack), NEW T, NEW types \in [DOMAIN stack -> T]
  PROVE  Len(types) = Len(stack)
<1>1. Len(stack) \in Nat /\ DOMAIN stack = 1 .. Len(stack)
  BY DEF IsStack
<1>2. types \in Seq(T)
  BY <1>1
<1>3. DOMAIN types = 1 .. Len(types) /\ Len(types) \in Nat
  BY <1>2
<1>4. 1 .. Len(types) = 1 .. Len(stack)
  BY <1>1, <1>3
<1> QED BY <1>1, <1>3, <1>4

LEMMA AllClientTyped ==
  ASSUME NEW stack, IsStack(stack)
  PROVE  WellTyped(stack, AllClient(stack))
BY DEF WellTyped, AllClient

\* One range of layers is drawn by the client.
LEMMA RangeTyped ==
  ASSUME NEW stack, IsStack(stack), NEW range, range.start \in Nat, range.size \in Nat,
         NEW useCursor \in BOOLEAN
  PROVE  LET types == RangeTypes(stack, range, useCursor)
         IN  WellTyped(stack, types) /\ DrawsFirst(types)
<1> DEFINE L == Len(stack)
           types == RangeTypes(stack, range, useCursor)
           a == range.start + 1
           b == range.start + range.size
<1>1. L \in Nat \ {0} /\ DOMAIN stack = 1 .. L
  BY DEF IsStack
<1>2. /\ DOMAIN types = 1 .. L
      /\ \A i \in 1 .. L :
           types[i] = IF i \in a .. b THEN "Client"
                      ELSE IF useCursor /\ stack[i].sf = "Cursor" THEN "Cursor" ELSE "Device"
      /\ types = [i \in 1 .. L |-> types[i]]
  BY <1>1 DEF RangeTypes
<1>3. a \in Nat /\ b \in Nat
  OBVIOUS
<1> HIDE DEF L, types, a, b
<1>4. \A i \in 1 .. L : stack[i].sf = "Cursor" => i = L
  <2> SUFFICES ASSUME NEW i \in 1 .. L, i # L PROVE stack[i].sf # "Cursor"
    OBVIOUS
  <2>1. i \in 1 .. (L - 1)
    <3>1. L \in Nat
      BY <1>1
    <3> QED BY <3>1
  <2> QED BY <2>1 DEF IsStack, L
<1>5. types \in [DOMAIN stack -> {"Client", "Device", "Cursor", "DeviceOccluded"}]
  <2>1. \A i \in 1 .. L : types[i] \in {"Client", "Device", "Cursor", "DeviceOccluded"}
    BY <1>2
  <2> QED BY <1>1, <1>2, <2>1
<1>6. \A i \in 1 .. L : types[i] = "Client" <=> i \in a .. b
  BY <1>2
<1>7. ASSUME NEW h \in 1 .. L, NEW i \in 1 .. L, NEW j \in 1 .. L, h < i, i < j,
             types[h] = "Client", types[j] = "Client"
      PROVE  types[i] # "Device"
  <2>1. i \in a .. b
    BY <1>3, <1>6, <1>7
  <2> QED BY <1>2, <2>1
<1>8. WellTyped(stack, types)
  BY <1>1, <1>2, <1>4, <1>5, <1>7 DEF WellTyped, L
<1>9. DrawsFirst(types)
  <2> SUFFICES ASSUME NEW c \in 1 .. L, IsFirstClient(types, c), NEW i \in 1 .. (c - 1)
               PROVE  types[i] = "Device"
    BY <1>2 DEF DrawsFirst
  <2>1. i \in 1 .. L /\ i # L
    <3>1. L \in Nat /\ c \in Nat /\ c <= L
      BY <1>1
    <3> QED BY <3>1
  <2>2. types[i] # "Client"
    BY DEF IsFirstClient
  <2> QED BY <1>2, <1>4, <2>1, <2>2
<1> QED BY <1>8, <1>9 DEF types

\* A display always has its primary plane.
LEMMA UsablePlanesCount ==
  ASSUME NEW d
  PROVE  Cardinality(UsablePlanes(d)) \in Nat \ {0}
<1>1. DOMAIN Planes = 1 .. Len(Planes) /\ Len(Planes) \in Nat
  BY ConstantsAssumption
<1>2. UsablePlanes(d) \in SUBSET (0 .. Len(Planes)) /\ UsablePlanes(d) # {}
  BY <1>1 DEF UsablePlanes, Primary
<1>3. IsFiniteSet(UsablePlanes(d))
  <2>1. IsFiniteSet(0 .. Len(Planes))
    BY <1>1, FS_Interval
  <2> QED BY <1>2, <2>1, FS_Subset
<1> QED BY <1>2, <1>3, FS_CardinalityType, FS_EmptySet

\* What GenericCompositionPlanner validates.
LEMMA RangeDecides ==
  ASSUME NEW d, NEW stack, IsStack(stack), NEW answers,
         NEW o \in RangeValidate(d, stack, answers)
  PROVE  /\ WellTyped(stack, o.types)
         /\ \A p \in o.plans : Shaped(o.types, p) /\ DrawsFirst(o.types)
<1> DEFINE useCursor == RangeUsesCursorPlane(d, stack, answers)
           planes == Cardinality(UsablePlanes(d))
           range == ExtraClientRange(stack, RequiredRange(stack), planes, useCursor)
<1>1. useCursor \in BOOLEAN /\ (useCursor => CanUseCursorPlane(stack))
  BY DEF RangeUsesCursorPlane, CanUseCursorPlane
<1>2. planes \in Nat \ {0}
  BY UsablePlanesCount
<1> HIDE DEF useCursor, planes
<1>3. range.start \in Nat /\ range.size \in Nat
  BY <1>1, <1>2, ExtraClientRangeIs
<1> DEFINE all == AllButCursor(stack)
<1>4. all.start \in Nat /\ all.size \in Nat
  <2>1. all = [start |-> 0, size |-> Len(stack) - 1] /\ Len(stack) \in Nat \ {0}
    BY DEF AllButCursor, IsStack
  <2> QED BY <2>1
<1> HIDE DEF range, all
<1>5. ASSUME NEW r, r.start \in Nat, r.size \in Nat, NEW test,
             o \in TestedRange(d, stack, r, useCursor, test, answers)
      PROVE  /\ WellTyped(stack, o.types)
             /\ \A p \in o.plans : Shaped(o.types, p) /\ DrawsFirst(o.types)
  <2> DEFINE types == RangeTypes(stack, r, useCursor)
  <2>1. WellTyped(stack, types) /\ DrawsFirst(types)
    BY <1>1, <1>5, RangeTyped
  <2>2. o.types = types /\ \A p \in o.plans : p \in JoiningPlans(d, stack, types)
    BY <1>5 DEF TestedRange, Outcome, TestComposition
  <2>3. Cardinality(Items(types)) \in Nat
    <3>1. Len(stack) \in Nat /\ DOMAIN types = 1 .. Len(stack)
      BY <2>1 DEF IsStack, WellTyped
    <3> HIDE DEF types
    <3> QED BY <3>1, ItemAtIs
  <2> HIDE DEF types
  <2> QED BY <2>1, <2>2, <2>3, JoiningPlansShaped
<1>6. \/ o \in TestedRange(d, stack, range, useCursor, "first", answers)
      \/ o \in TestedRange(d, stack, all, useCursor, "fallback", answers)
      \/ o = Outcome(AllClient(stack), {})
  BY DEF RangeValidate, range, all, useCursor, planes
<1>7. CASE o = Outcome(AllClient(stack), {})
  <2>1. o.types = AllClient(stack) /\ o.plans = {}
    BY <1>7 DEF Outcome
  <2> QED BY <2>1, AllClientTyped
<1> QED BY <1>3, <1>4, <1>5, <1>6, <1>7

\* What the mappers leave: planes are given to the layer at the back and the
\* one in front, or to every layer.
Mapping(stack, m) ==
  /\ m \in [DOMAIN stack -> {"Client", "Invalid", "Device", "Cursor", "DeviceOccluded"}]
  /\ \A i \in DOMAIN stack : m[i] = "Cursor" => i = Len(stack)
  /\ \A i \in DOMAIN stack : m[i] = "DeviceOccluded" => stack[i].hidden
  /\ \/ \A i \in DOMAIN stack : m[i] = "Device" => i \in {1, Len(stack)}
     \/ \A i \in DOMAIN stack : m[i] \notin Undecided

LEMMA MappingTyped ==
  ASSUME NEW stack, IsStack(stack), NEW m, Mapping(stack, m)
  PROVE  WellTyped(stack, InvalidToClient(m))
<1> DEFINE L == Len(stack)
           types == InvalidToClient(m)
<1>1. L \in Nat \ {0} /\ DOMAIN stack = 1 .. L /\ DOMAIN m = 1 .. L
  BY DEF IsStack, Mapping
<1>2. /\ types = [i \in 1 .. L |-> types[i]]
      /\ \A i \in 1 .. L : types[i] = IF m[i] = "Invalid" THEN "Client" ELSE m[i]
  BY <1>1 DEF InvalidToClient
<1>3. \A i \in 1 .. L : m[i] \in {"Client", "Invalid", "Device", "Cursor", "DeviceOccluded"}
  BY <1>1 DEF Mapping
<1> HIDE DEF types, L
<1>4. types \in [DOMAIN stack -> {"Client", "Device", "Cursor", "DeviceOccluded"}]
  <2>1. \A i \in 1 .. L : types[i] \in {"Client", "Device", "Cursor", "DeviceOccluded"}
    BY <1>2, <1>3
  <2> QED BY <1>1, <1>2, <2>1
<1>5. ASSUME NEW h \in 1 .. L, NEW i \in 1 .. L, NEW j \in 1 .. L, h < i, i < j,
             types[h] = "Client", types[j] = "Client"
      PROVE  types[i] # "Device"
  <2>1. m[h] \in Undecided
    BY <1>2, <1>5 DEF Undecided
  <2>2. \A k \in 1 .. L : m[k] = "Device" => k \in {1, L}
    BY <1>1, <2>1 DEF Mapping, L
  <2>3. i # 1 /\ i # L
    BY <1>1, <1>5
  <2> QED BY <1>2, <2>2, <2>3
<1>6. \A i \in 1 .. L : (types[i] = "Cursor" => m[i] = "Cursor")
                        /\ (types[i] = "DeviceOccluded" => m[i] = "DeviceOccluded")
  BY <1>2
<1>7. \A i \in 1 .. L : (m[i] = "Cursor" => i = L) /\ (m[i] = "DeviceOccluded" => stack[i].hidden)
  BY <1>1 DEF Mapping, L
<1> QED BY <1>1, <1>4, <1>5, <1>6, <1>7 DEF WellTyped, types, L

\* A layer is given a type: the one in front, or the one at the back a plane.
LEMMA MappingOfOne ==
  ASSUME NEW stack, IsStack(stack), NEW m, Mapping(stack, m), NEW i \in {1, Len(stack)},
         NEW type \in {"Client", "Device", "Cursor"}, type = "Cursor" => i = Len(stack),
         \A k \in DOMAIN stack : m[k] = "Device" => k \in {1, Len(stack)}
  PROVE  /\ Mapping(stack, [m EXCEPT ![i] = type])
         /\ \A k \in DOMAIN stack :
              [m EXCEPT ![i] = type][k] = "Device" => k \in {1, Len(stack)}
<1> DEFINE new == [m EXCEPT ![i] = type]
<1>1. /\ DOMAIN m = DOMAIN stack /\ i \in DOMAIN stack
      /\ \A k \in DOMAIN stack : new[k] = IF k = i THEN type ELSE m[k]
      /\ new \in [DOMAIN stack -> {"Client", "Invalid", "Device", "Cursor", "DeviceOccluded"}]
  <2>1. m \in [DOMAIN stack -> {"Client", "Invalid", "Device", "Cursor", "DeviceOccluded"}]
    BY DEF Mapping
  <2>2. i \in DOMAIN stack
    BY DEF IsStack
  <2> QED BY <2>1, <2>2
<1> HIDE DEF new
<1>2. \A k \in DOMAIN stack : new[k] = "Cursor" => k = Len(stack)
  BY <1>1 DEF Mapping
<1>3. \A k \in DOMAIN stack : new[k] = "DeviceOccluded" => stack[k].hidden
  BY <1>1 DEF Mapping
<1>4. \A k \in DOMAIN stack : new[k] = "Device" => k \in {1, Len(stack)}
  BY <1>1
<1>5. Mapping(stack, new)
  BY <1>1, <1>2, <1>3, <1>4 DEF Mapping
<1> QED BY <1>4, <1>5 DEF new

\* The last layer is shown by the cursor plane when the cursor mapper said so,
\* in the fallback too: there is at least one plane for the others.
LEMMA CursorFallback ==
  ASSUME NEW d, NEW stack, IsStack(stack), HasCursor(stack), NEW type,
         CursorLayerMapper(d, stack, RequiredMapping(stack), type)[Len(stack)] = "Cursor"
  PROVE  CursorLayerMapper(d, stack, [AllClient(stack) EXCEPT ![Len(stack)] = "Invalid"], type)
           = [AllClient(stack) EXCEPT ![Len(stack)] = "Cursor"]
<1> DEFINE n == Len(stack)
           m == RequiredMapping(stack)
           old == [m EXCEPT ![n] = type]
           a == [AllClient(stack) EXCEPT ![n] = "Invalid"]
           new == [a EXCEPT ![n] = type]
<1>1. n \in Nat \ {0} /\ DOMAIN stack = 1 .. n /\ n \in DOMAIN stack
  BY DEF IsStack
<1>2. DOMAIN m = DOMAIN stack /\ \A i \in DOMAIN stack : m[i] \in Undecided
  BY DEF RequiredMapping, Undecided
<1>3. type = "Cursor" /\ Validator(d, stack, old)
  <2>1. m[n] # "Cursor"
    BY <1>1, <1>2 DEF Undecided
  <2>2. CursorLayerMapper(d, stack, m, type) = old /\ Validator(d, stack, old)
    BY <2>1 DEF CursorLayerMapper
  <2>3. old[n] = type
    BY <1>1, <1>2
  <2> QED BY <2>2, <2>3
<1>4. /\ DOMAIN old = DOMAIN stack /\ old[n] = "Cursor"
      /\ \A i \in DOMAIN stack : i # n => old[i] \in Undecided
  BY <1>1, <1>2, <1>3
<1>5. a[n] = "Invalid" /\ DOMAIN a = DOMAIN stack
  BY <1>1 DEF AllClient
<1>6. new = [AllClient(stack) EXCEPT ![n] = "Cursor"]
  BY <1>3 DEF AllClient
<1>7. /\ DOMAIN new = DOMAIN stack /\ new[n] = "Cursor"
      /\ \A i \in DOMAIN stack : i # n => new[i] = "Client"
  BY <1>1, <1>6 DEF AllClient
<1> HIDE DEF n, m, old, a, new
<1>8. BackendValid(stack, new)
  <2>1. ASSUME NEW k, DOMAIN k = DOMAIN stack, k[n] = "Cursor",
               \A i \in DOMAIN stack : i # n => k[i] \in Undecided
        PROVE  {i \in DOMAIN k : k[i] \notin Undecided} = {n}
    BY <1>1, <2>1 DEF Undecided
  <2>2. /\ {i \in DOMAIN old : old[i] \notin Undecided} = {n}
        /\ {i \in DOMAIN new : new[i] \notin Undecided} = {n}
    BY <1>4, <1>7, <2>1 DEF Undecided
  <2>3. BackendValid(stack, old)
    BY <1>3 DEF Validator
  <2> QED BY <2>2, <2>3 DEF BackendValid
<1>9. CountRemainingPlanes(d, new) >= 0
  <2>1. {i \in DOMAIN new : new[i] = "Device"} = {}
    BY <1>1, <1>7
  <2>2. Cardinality({i \in DOMAIN new : new[i] = "Device"}) = 0
    BY <2>1, FS_EmptySet
  <2>3. Cardinality(UsablePlanes(d)) \in Nat \ {0}
    BY UsablePlanesCount
  <2> QED BY <2>2, <2>3 DEF CountRemainingPlanes
<1>10. Validator(d, stack, new)
  BY <1>8, <1>9 DEF Validator
<1>11. CursorLayerMapper(d, stack, a, type) = new
  BY <1>5, <1>10 DEF CursorLayerMapper, new, a, n
<1> QED BY <1>6, <1>11 DEF a, n

\* What GenericLayerMapperCompositionPlanner validates.
LEMMA MapperDecides ==
  ASSUME NEW d, NEW stack, IsStack(stack), NEW answers,
         NEW o \in MapperValidate(d, stack, answers)
  PROVE  WellTyped(stack, o.types) /\ o.plans = {}
<1> DEFINE n == Len(stack)
           cursorType == CursorCompositionType(d, stack, answers)
           Passes(m, test) == TestComposition(d, stack, m, test, answers) # {}
           m0 == RequiredMapping(stack)
           m1 == CursorLayerMapper(d, stack, m0, cursorType)
           m2 == LayerCachingMapper(stack, m1)
           m3 == UnderlayMapper(d, stack, m2)
           underlay == Passes(InvalidToClient(m3), "underlay")
           m4 == IF underlay THEN m3 ELSE m2
           m5 == LeftoverLayerMapper(d, stack, m4)
           leftover == m5 # m4 /\ Passes(InvalidToClient(m5), "leftover")
           m6 == IF leftover THEN m5 ELSE m4
           m7 == CursorLayerMapper(d, stack, [AllClient(stack) EXCEPT ![n] = "Invalid"],
                                   cursorType)
           rest == underlay \/ leftover \/ Passes(InvalidToClient(m6), "rest")
           types == IF rest THEN InvalidToClient(m6)
                    ELSE IF m6[n] = "Cursor" /\ HasCursor(stack) /\ Passes(m7, "fallback")
                    THEN m7
                    ELSE AllClient(stack)
           Ends(m) == \A i \in DOMAIN stack : m[i] = "Device" => i \in {1, n}
<1>1. n \in Nat \ {0} /\ DOMAIN stack = 1 .. n /\ n \in DOMAIN stack /\ 1 \in DOMAIN stack
  BY DEF IsStack
<1>2. o.plans = {} /\ \/ o.types = InvalidToClient(m6)
                      \/ m6[n] = "Cursor" /\ HasCursor(stack) /\ o.types = m7
                      \/ o.types = AllClient(stack)
  <2>1. o \in {Outcome(types, {})}
    BY Zenon DEF MapperValidate
  <2> HIDE DEF m6, m7, rest
  <2>2. o.plans = {} /\ o.types = types
    <3> HIDE DEF types
    <3> QED BY <2>1 DEF Outcome
  <2> QED BY <2>2
<1> HIDE DEF rest, types
<1>3. cursorType \in {"Client", "Device", "Cursor"}
  BY DEF CursorCompositionType
<1> HIDE DEF cursorType
<1>4. Mapping(stack, m0) /\ Ends(m0) /\ DOMAIN m0 = DOMAIN stack
      /\ \A i \in DOMAIN stack : m0[i] # "Cursor"
  BY DEF RequiredMapping, Mapping
<1>5. Mapping(stack, m1) /\ Ends(m1)
  <2>1. CASE m1 = m0
    BY <1>4, <2>1
  <2>2. CASE m1 # m0
    <3>1. m1 = [m0 EXCEPT ![n] = cursorType]
      BY <2>2 DEF CursorLayerMapper
    <3> HIDE DEF m0, m1
    <3> QED BY <1>3, <1>4, <3>1, MappingOfOne
  <2> QED BY <2>1, <2>2
<1> HIDE DEF m0, m1
<1>6. Mapping(stack, m2) /\ Ends(m2) /\ (m2[n] = "Cursor" => m1[n] = "Cursor")
  <2>1. /\ DOMAIN m1 = DOMAIN stack
        /\ m1 \in [DOMAIN stack -> {"Client", "Invalid", "Device", "Cursor", "DeviceOccluded"}]
    BY <1>5 DEF Mapping
  <2>2. /\ m2 = [i \in DOMAIN stack |-> m2[i]]
        /\ \A i \in DOMAIN stack :
             m2[i] = m1[i] \/ (m2[i] = "DeviceOccluded" /\ stack[i].hidden)
    BY <2>1 DEF LayerCachingMapper
  <2> HIDE DEF m2
  <2>3. m2 \in [DOMAIN stack -> {"Client", "Invalid", "Device", "Cursor", "DeviceOccluded"}]
    <3>1. \A i \in DOMAIN stack :
            m2[i] \in {"Client", "Invalid", "Device", "Cursor", "DeviceOccluded"}
      BY <2>1, <2>2
    <3> QED BY <2>2, <3>1
  <2>4. Ends(m2)
    BY <1>5, <2>2
  <2>5. \A i \in DOMAIN stack : (m2[i] = "Cursor" => i = n)
                                /\ (m2[i] = "DeviceOccluded" => stack[i].hidden)
    BY <1>5, <2>2 DEF Mapping
  <2>6. m2[n] = "Cursor" => m1[n] = "Cursor"
    BY <1>1, <2>2
  <2> QED BY <2>3, <2>4, <2>5, <2>6 DEF Mapping
<1> HIDE DEF m2
<1>7. Mapping(stack, m3) /\ Ends(m3) /\ (m3[n] = "Cursor" => m2[n] = "Cursor")
  <2>1. CASE m3 = m2
    BY <1>6, <2>1
  <2>2. CASE m3 # m2
    <3>1. m3 = [m2 EXCEPT ![1] = "Device"]
      BY <2>2 DEF UnderlayMapper
    <3>2. DOMAIN m2 = DOMAIN stack
      BY <1>6 DEF Mapping
    <3> HIDE DEF m3
    <3>3. m3[n] = "Cursor" => m2[n] = "Cursor"
      BY <1>1, <3>1, <3>2
    <3> QED BY <1>6, <3>1, <3>3, MappingOfOne
  <2> QED BY <2>1, <2>2
<1> HIDE DEF m3, underlay
<1>8. Mapping(stack, m4) /\ Ends(m4) /\ (m4[n] = "Cursor" => m1[n] = "Cursor")
  BY <1>6, <1>7
<1> HIDE DEF m4
<1>9. Mapping(stack, m5) /\ (m5[n] = "Cursor" => m4[n] = "Cursor")
  <2>1. CASE m5 = m4
    BY <1>8, <2>1
  <2>2. CASE m5 # m4
    <3>1. /\ m4 \in [DOMAIN stack -> {"Client", "Invalid", "Device", "Cursor", "DeviceOccluded"}]
          /\ DOMAIN m4 = DOMAIN stack
      BY <1>8 DEF Mapping
    <3>2. /\ m5 = [i \in DOMAIN stack |-> IF m4[i] = "Invalid" THEN "Device" ELSE m4[i]]
          /\ \A i \in DOMAIN stack : m4[i] # "Client"
      <4>1. /\ \A i \in DOMAIN m4 : m4[i] # "Client"
            /\ m5 = [i \in DOMAIN m4 |-> IF i \in {k \in DOMAIN m4 : m4[k] = "Invalid"}
                                        THEN "Device" ELSE m4[i]]
        BY <2>2 DEF LeftoverLayerMapper
      <4> HIDE DEF m5
      <4> QED BY <3>1, <4>1
    <3> HIDE DEF m5
    <3>3. /\ m5 = [i \in DOMAIN stack |-> m5[i]]
          /\ \A i \in DOMAIN stack :
               m5[i] = IF m4[i] = "Invalid" THEN "Device" ELSE m4[i]
      BY <3>2
    <3>4. \A i \in DOMAIN stack : m5[i] \in {"Device", "Cursor", "DeviceOccluded"}
      BY <3>1, <3>2, <3>3
    <3>5. /\ m5 \in [DOMAIN stack -> {"Client", "Invalid", "Device", "Cursor", "DeviceOccluded"}]
          /\ \A i \in DOMAIN stack : m5[i] \notin Undecided
      BY <3>3, <3>4 DEF Undecided
    <3>6. \A i \in DOMAIN stack : (m5[i] = "Cursor" => i = n)
                                  /\ (m5[i] = "DeviceOccluded" => stack[i].hidden)
      BY <1>8, <3>3 DEF Mapping
    <3>7. m5[n] = "Cursor" => m4[n] = "Cursor"
      BY <1>1, <3>3
    <3> QED BY <3>5, <3>6, <3>7 DEF Mapping
  <2> QED BY <2>1, <2>2
<1> HIDE DEF m5, leftover
<1>10. Mapping(stack, m6) /\ (m6[n] = "Cursor" => m1[n] = "Cursor")
  BY <1>8, <1>9
<1> HIDE DEF m6
<1>11. CASE o.types = InvalidToClient(m6)
  BY <1>2, <1>10, <1>11, MappingTyped
<1>12. CASE m6[n] = "Cursor" /\ HasCursor(stack) /\ o.types = m7
  <2> DEFINE last == [AllClient(stack) EXCEPT ![n] = "Cursor"]
  <2>1. m7 = last
    <3>1. CursorLayerMapper(d, stack, RequiredMapping(stack), cursorType)[Len(stack)] = "Cursor"
      BY <1>10, <1>12 DEF m1, m0
    <3>2. HasCursor(stack)
      BY <1>12
    <3> QED BY <3>1, <3>2, CursorFallback
  <2>2. WellTyped(stack, last)
    BY <1>1 DEF WellTyped, AllClient
  <2> QED BY <1>2, <1>12, <2>1, <2>2
<1>13. CASE o.types = AllClient(stack)
  BY <1>2, <1>13, AllClientTyped
<1> QED BY <1>2, <1>11, <1>12, <1>13

-----------------------------------------------------------------------------
(* The layers of a frame are shown in their order.                         *)

\* The types and the plan that a frame was given by its planner.
PlannedFrame(f) ==
  /\ WellTyped(f.stack, f.types)
  /\ \A p \in f.plans : Shaped(f.types, p) /\ DrawsFirst(f.types)

Planned == StacksGiven /\ \A d \in Displays : frame[d] # None => PlannedFrame(frame[d])

LEMMA PlannedStep ==
  ASSUME TypeOK, Planned, Next
  PROVE  Planned'
<1>1. PICK d \in Displays : FrameOf(d) /\ \A e \in Displays \ {d} : frame'[e] = frame[e]
  BY FrameStep
<1>2. ASSUME frame'[d] # None PROVE PlannedFrame(frame'[d])
  <2>1. CASE frame'[d] = frame[d]
    BY <1>2, <2>1 DEF Planned
  <2>2. ASSUME NEW stack \in Stacks[d], NEW o,
               \/ \E answers : o \in Outcomes(d, stack, answers)
               \/ o = Outcome(AllClient(stack), {}),
               frame'[d] = [stack |-> stack, types |-> o.types, pending |-> TRUE,
                            plans |-> o.plans]
        PROVE  PlannedFrame(frame'[d])
    <3>1. IsStack(stack)
      BY StacksAre
    <3>2. WellTyped(stack, o.types) /\ \A p \in o.plans : Shaped(o.types, p) /\ DrawsFirst(o.types)
      <4>1. ASSUME NEW answers, o \in Outcomes(d, stack, answers)
            PROVE  \/ o \in RangeValidate(d, stack, answers)
                   \/ o \in MapperValidate(d, stack, answers)
        BY <4>1 DEF Outcomes
      <4>2. CASE o = Outcome(AllClient(stack), {})
        <5>1. o.types = AllClient(stack) /\ o.plans = {}
          BY <4>2 DEF Outcome
        <5> QED BY <3>1, <5>1, AllClientTyped
      <4>3. ASSUME NEW answers, o \in MapperValidate(d, stack, answers)
            PROVE  WellTyped(stack, o.types) /\ o.plans = {}
        BY <3>1, <4>3, MapperDecides
      <4>4. ASSUME NEW answers, o \in RangeValidate(d, stack, answers)
            PROVE  WellTyped(stack, o.types)
                   /\ \A p \in o.plans : Shaped(o.types, p) /\ DrawsFirst(o.types)
        BY <3>1, <4>4, RangeDecides
      <4> QED BY <2>2, <4>1, <4>2, <4>3, <4>4
    <3>3. /\ frame'[d].stack = stack /\ frame'[d].types = o.types
          /\ frame'[d].plans = o.plans
      BY <2>2
    <3> QED BY <3>2, <3>3 DEF PlannedFrame
  <2>3. CASE /\ frame[d] # None
             /\ frame'[d] = [stack |-> frame[d].stack, types |-> frame[d].types,
                             pending |-> FALSE, plans |-> {}]
    <3>1. /\ frame'[d].stack = frame[d].stack /\ frame'[d].types = frame[d].types
          /\ frame'[d].plans = {}
      BY <2>3
    <3>2. WellTyped(frame[d].stack, frame[d].types)
      BY <2>3 DEF Planned, PlannedFrame
    <3> QED BY <3>1, <3>2 DEF PlannedFrame
  <2> QED BY <1>1, <2>1, <2>2, <2>3 DEF FrameOf
<1>3. ASSUME NEW e \in Displays, frame'[e] # None PROVE PlannedFrame(frame'[e])
  <2>1. CASE e = d
    BY <1>2, <1>3, <2>1
  <2>2. CASE e # d
    BY <1>1, <1>3, <2>2 DEF Planned
  <2> QED BY <2>1, <2>2
<1>4. StacksGiven'
  BY StacksGivenStep DEF Planned
<1> QED BY <1>3, <1>4 DEF Planned, PlannedFrame, WellTyped, Shaped, DrawsFirst

\* The plan a frame is presented with, kept or new, has the shape of its types
\* and the client target as it is now.
LEMMA PresentedPlan ==
  ASSUME Planned, NEW d \in Displays, frame[d] # None, NEW plan \in FramePlans(d)
  PROVE  /\ IsStack(frame[d].stack) /\ WellTyped(frame[d].stack, frame[d].types)
         /\ Len(frame[d].types) = Len(frame[d].stack)
         /\ Shaped(frame[d].types, plan)
         /\ HasTarget(plan, target[d])
<1> DEFINE stack == frame[d].stack
           types == frame[d].types
<1>1. IsStack(stack) /\ WellTyped(stack, types)
  BY StacksAre DEF Planned, StacksGiven, PlannedFrame
<1>2. Len(types) = Len(stack)
  BY <1>1, TypesLen DEF WellTyped
<1>3. CASE frame[d].plans # {}
  <2>1. PICK p \in frame[d].plans : plan = UpdateClientTarget(d, types, p)
    BY <1>3 DEF FramePlans
  <2>2. Shaped(types, p) /\ DrawsFirst(types)
    BY DEF Planned, PlannedFrame
  <2> HIDE DEF stack, types
  <2>3. /\ Shaped(types, plan)
        /\ HasTarget(plan, target[d])
    BY <1>1, <1>2, <2>1, <2>2, KeptPlanShaped
  <2> QED BY <1>1, <1>2, <2>3 DEF stack, types
<1>4. CASE frame[d].plans = {}
  <2>1. plan \in JoiningPlans(d, stack, types)
    BY <1>4 DEF FramePlans
  <2> HIDE DEF stack, types
  <2>2. Cardinality(Items(types)) \in Nat
    <3>1. Len(stack) \in Nat /\ DOMAIN types = 1 .. Len(stack)
      BY <1>1 DEF IsStack, WellTyped
    <3> QED BY <3>1, ItemAtIs
  <2>3. /\ Shaped(types, plan)
        /\ HasTarget(plan, target[d])
    BY <2>1, <2>2, JoiningPlansShaped
  <2> QED BY <1>1, <1>2, <2>3 DEF stack, types
<1> QED BY <1>3, <1>4

\* Whatever a planner decides, from whatever the kernel answers, each layer that
\* can be seen is shown once, none in front of one that covers it, and the client
\* target with the buffer the client drew last, although the plan was made before
\* (ValidateDisplay of both planners, CreateLayerToPlaneJoiningPlan and
\* UpdateClientTargetIfNeeded).
THEOREM ShownInOrderCorrect == Spec => []ShownInOrder
<1>1. Init => Planned
  BY DEF Init, Planned, StacksGiven
<1>2. TypeOK /\ Planned /\ [Next]_vars => Planned'
  <2>1. ASSUME Planned, UNCHANGED vars PROVE Planned'
    BY <2>1 DEF Planned, StacksGiven, PlannedFrame, WellTyped, Shaped, DrawsFirst, vars
  <2> QED BY <2>1, PlannedStep
<1>3. Planned => ShownInOrder
  <2> SUFFICES ASSUME Planned, NEW d \in Displays, frame[d] # None, NEW plan \in FramePlans(d)
               PROVE  LET f == frame[d]
                          visible == {i \in DOMAIN f.stack : ~f.stack[i].hidden}
                      IN  /\ \A i \in visible : Cardinality(ShowsLayer(f, plan, i)) = 1
                          /\ \A i, j \in visible : i < j =>
                               \A k \in ShowsLayer(f, plan, i), l \in ShowsLayer(f, plan, j) :
                                 k <= l
                          /\ \A k \in DOMAIN plan :
                               plan[k].item = Target => plan[k].buffer = target[d]
    BY DEF ShownInOrder
  <2> DEFINE f == frame[d]
             visible == {i \in DOMAIN f.stack : ~f.stack[i].hidden}
  <2>1. /\ IsStack(f.stack) /\ WellTyped(f.stack, f.types)
        /\ Len(f.types) = Len(f.stack) /\ Shaped(f.types, plan)
        /\ HasTarget(plan, target[d])
    BY PresentedPlan
  <2> HIDE DEF f
  <2>2. /\ \A i \in visible : Cardinality(ShowsLayer(f, plan, i)) = 1
        /\ \A i, j \in visible : i < j =>
             \A k \in ShowsLayer(f, plan, i), l \in ShowsLayer(f, plan, j) : k <= l
    BY <2>1, ShapedShows DEF ShowsLayer
  <2> QED BY <2>1, <2>2 DEF f, HasTarget
<1> QED BY <1>1, <1>2, <1>3, TypeCorrect, PTL DEF Spec
=============================================================================

------------------------ MODULE HotplugProbe_proofs -------------------------
(***************************************************************************)
(* No hotplug is lost: HotplugProbe is correct for any connectors, any     *)
(* number of changes of the kernel and any number of failed reads.         *)
(***************************************************************************)
EXTENDS HotplugProbe, TLAPS

-----------------------------------------------------------------------------
(* The parts of the invariant.                                             *)

(* The steps each thread can be at.                                        *)
StepInv ==
  /\ pc["listener"] \in {"read", "handle", "again", "window"}
  /\ pc["stopper"] \in {"start", "watch", "flush", "handle", "done"}
  /\ pc["settle"] \in {"sleep", "handle", "done"}
  /\ pc["recovery"] \in {"delay", "teardown", "pause", "done"}
  /\ pc["stopper"] # "done" => pc["settle"] = "done"

(* Uevents are put off only while the animation runs, and replayed after   *)
(* it; the listener knows what it is to handle.                            *)
BootInv ==
  /\ booting <=> pc["stopper"] = "watch"
  /\ deferred # {} => pc["stopper"] \in {"watch", "flush"}
  /\ pc["listener"] \in {"handle", "again"} \/ (pc["listener"] = "window" /\ needs)
       => event["listener"] # {}

(* A plan belongs to a thread that handles a uevent.  Which connectors     *)
(* there are changes only with its end; those it did not know when it      *)
(* began, it selected, unless they did not exist.                          *)
PlanInv ==
  \/ plan = NoPlan
  \/ /\ plan.owner \in Handlers /\ pc[plan.owner] \in {"handle", "again"}
     /\ plan.phase \in {"resources", "probe"}
     /\ plan.targets \subseteq Existing /\ plan.known \subseteq Existing
     /\ plan.moved \subseteq plan.targets /\ plan.todo \subseteq plan.targets
     /\ Existing \ plan.known \subseteq plan.targets
     /\ \A c \in Existing \ plan.known : c \in deleted \cup plan.moved
     /\ \A c \in Connectors : plan.results[c] # NotRead => c \in plan.targets \ plan.todo
     /\ \A c \in Connectors : plan.added[c] # NotRead =>
          plan.ok /\ c \in plan.present \ (plan.known \cup plan.new) /\ plan.added[c].s # "gone"
     /\ plan.phase = "resources" => plan.todo = {} /\ plan.new = {} /\ ~plan.ok
                                    /\ \A c \in Connectors : plan.results[c] = NotRead
     /\ plan.phase = "probe" =>
          /\ \A c \in plan.targets : c \in plan.todo \/ plan.results[c] # NotRead
                                      \/ (plan.ok /\ c \notin plan.present)
          /\ plan.ok => /\ plan.new \subseteq plan.present \ plan.known
                        /\ plan.todo \subseteq plan.present
                        /\ \A c \in Connectors : plan.results[c] # NotRead => c \in plan.present
          /\ ~plan.ok => plan.new = {} /\ plan.erred
          /\ plan.new # {} => \A c \in Connectors : plan.results[c] = NotRead
          /\ \A c \in plan.new : c \in Existing => c \in plan.targets

(* What was read later is newer.                                           *)
VersionInv ==
  /\ \A c \in Connectors :
       /\ kernel[c].v \in 0 .. changes /\ object[c].v \in 0 .. kernel[c].v
       /\ plan.results[c] # NotRead =>
            /\ plan.results[c].v \in 0 .. kernel[c].v
            /\ c \notin plan.moved => object[c].v <= plan.results[c].v
       /\ plan.added[c] # NotRead => plan.added[c].v \in 0 .. kernel[c].v
  /\ client # Nobody => found.v \in object[client].v .. kernel[client].v

(* A thread whose handling is still to begin, and a handling it is sure to *)
(* be followed by if it leaves something unsettled.                        *)
Waits(t) == pc[t] \in {"handle", "again"} /\ plan.owner # t
ListenerAgain == pc["listener"] = "window" /\ needs
FirstPass ==
  \/ plan.owner = "listener" /\ pc["listener"] = "handle"
  \/ plan.owner = "stopper"

(* A handling is still to begin, and the connectors named to it.           *)
Due ==
  \/ socket # {} \/ deferred # {} \/ ListenerAgain \/ pc["settle"] = "sleep"
  \/ \E t \in Handlers : Waits(t)

Named(c) ==
  \/ c \in socket \cup deferred
  \/ ListenerAgain /\ c \in event["listener"]
  \/ pc["settle"] = "sleep" /\ c \in event["settle"]
  \/ \E t \in Handlers : Waits(t) /\ c \in event[t]

(* What a read in the past has found, and not seen since, is no loss.      *)
Missed(c) == c \in late \/ Named(c)
DueOrAgain == Due \/ FirstPass

(* A connector with state s, marked deleted or not, is as the kernel has   *)
(* it, or will be looked at again.                                         *)
Right(c, s, marked) == s = kernel[c].s /\ ~marked
Selectable(c, s, marked) == marked \/ s \in {"unknown", "gone"} \/ kernel[c].s = "gone"

(* What Phase3 makes of each connector with the results there are.         *)
Lost(c) == c \in ProbedUnmoved /\ plan.results[c].s = "gone"
Dead(c) == (c \in deleted /\ c \notin ProbedUnmoved) \/ Lost(c)
Stale(c) == plan.ok /\ c \in Existing /\ (Dead(c) \/ c \notin plan.present)
Joins(c) == plan.added[c] # NotRead /\ (Stale(c) \/ c \notin Existing)
After(c) ==
  IF Joins(c) THEN plan.added[c]
  ELSE IF Stale(c) THEN Read("gone", 0)
  ELSE IF c \in ProbedUnmoved THEN Applied(plan.results[c]) ELSE object[c]
DeadAfter(c) == Dead(c) /\ ~Stale(c)

Again(c) ==
  FirstPass /\ (plan.erred \/ (c \in Probed /\ Dead(c)) \/ After(c).s = "unknown")

ToRead(c) ==
  \/ c \in plan.todo \ plan.moved
  \/ c \in plan.new /\ (Stale(c) \/ c \notin Existing)

SeenInv ==
  \A c \in Connectors :
    \/ Missed(c)
    \/ /\ plan = NoPlan
       /\ Right(c, object[c].s, c \in deleted)
            \/ (Due /\ Selectable(c, object[c].s, c \in deleted))
    \/ /\ plan.phase = "resources"
       /\ \/ c \in plan.targets \ plan.moved
          \/ Right(c, object[c].s, c \in deleted)
          \/ object[c].s = "gone" \/ kernel[c].s = "gone"
          \/ (Due /\ c \in deleted)
          \/ (DueOrAgain /\ object[c].s = "unknown" /\ c \notin deleted)
    \/ /\ plan.phase = "probe"
       /\ \/ ToRead(c)
          \/ Right(c, After(c).s, DeadAfter(c))
          \/ (Due \/ Again(c)) /\ Selectable(c, After(c).s, DeadAfter(c))

(* The reads under way.                                                    *)
ReadInv ==
  /\ plan.phase = "probe" /\ plan.ok =>
       \A c \in Connectors : (c \in plan.present <=> kernel[c].s # "gone") \/ Missed(c)
  /\ \A c \in Connectors : plan.added[c] # NotRead =>
       \/ Missed(c) \/ plan.added[c].s = kernel[c].s
       \/ plan.added[c].s = "unknown" /\ DueOrAgain
  /\ client # Nobody =>
       /\ client \in attached
       /\ \/ Missed(client) \/ found.s = kernel[client].s
          \/ found.s = "unknown" /\ DueOrAgain
       /\ found.s # "good" => client \in late \/ Due \/ plan # NoPlan
  /\ plan.phase = "probe" /\ ~plan.ok => DueOrAgain \/ late = Connectors

(* What is attached and no longer connected will be detached.              *)
AttachInv ==
  \A c \in attached : object[c].s # "good" => c \in late \/ Due \/ plan # NoPlan

IInv ==
  /\ TypeOK /\ StepInv /\ BootInv /\ PlanInv /\ VersionInv /\ SeenInv /\ ReadInv /\ AttachInv

-----------------------------------------------------------------------------
(* Facts about reads and plans.                                            *)

LEMMA ReadFacts ==
  /\ \A s \in States, v \in 0 .. MaxChanges : Read(s, v) \in Reads /\ Read(s, v) # NotRead
  /\ \A s, v : Read(s, v).s = s /\ Read(s, v).v = v
  /\ NotRead \in Reads /\ NotRead.s = "gone" /\ NotRead.v = -1
  /\ \A r \in Reads : /\ r.s \in States /\ r.v \in -1 .. MaxChanges
                      /\ r = NotRead <=> r.v = -1
                      /\ r # NotRead => r.v \in 0 .. MaxChanges
<1>1. MaxChanges \in Nat
  BY ConstantsAssumption
<1>2. \A s, v : Read(s, v).s = s /\ Read(s, v).v = v
  BY DEF Read
<1>3. NotRead.s = "gone" /\ NotRead.v = -1 /\ NotRead \in Reads
  BY <1>2 DEF NotRead, Reads
<1>4. ASSUME NEW s \in States, NEW v \in 0 .. MaxChanges
      PROVE  Read(s, v) \in Reads /\ Read(s, v) # NotRead
  BY <1>1, <1>2, <1>3, <1>4 DEF Reads
<1>5. ASSUME NEW r \in Reads, r # NotRead
      PROVE  r.s \in States /\ r.v \in 0 .. MaxChanges
  <2>1. PICK s \in States, v \in 0 .. MaxChanges : r = Read(s, v)
    BY <1>5 DEF Reads
  <2>2. QED BY <2>1, <1>2
<1>6. "gone" \in States
  BY DEF States
<1>7. ASSUME NEW r \in Reads
      PROVE  /\ r.s \in States /\ r.v \in -1 .. MaxChanges
             /\ r = NotRead <=> r.v = -1
             /\ r # NotRead => r.v \in 0 .. MaxChanges
  <2>1. CASE r = NotRead
    BY <2>1, <1>1, <1>3, <1>6
  <2>2. CASE r # NotRead
    BY <2>2, <1>1, <1>5
  <2>3. QED BY <2>1, <2>2
<1>8. QED BY <1>2, <1>3, <1>4, <1>7

LEMMA AppliedFacts ==
  ASSUME NEW r \in Reads, r # NotRead
  PROVE  /\ Applied(r) \in Reads /\ Applied(r) # NotRead /\ Applied(r).v = r.v
         /\ Applied(r).s # "gone"
         /\ r.s # "gone" => Applied(r) = r
<1>1. r.s \in States /\ r.v \in 0 .. MaxChanges
  BY ReadFacts
<1>2. CASE r.s = "gone"
  <2>1. Applied(r) = Read("off", r.v) /\ "off" \in States
    BY <1>2 DEF Applied, States
  <2>2. QED BY <2>1, <1>1, <1>2, ReadFacts
<1>3. CASE r.s # "gone"
  BY <1>3 DEF Applied
<1>4. QED BY <1>2, <1>3

(* The fields of a plan, one by one.                                       *)
PlanFields(p) ==
  /\ p.owner \in Handlers \cup {Nobody} /\ p.phase \in {"none", "resources", "probe"}
  /\ p.targets \subseteq Connectors /\ p.moved \subseteq Connectors
  /\ p.known \subseteq Connectors /\ p.todo \subseteq Connectors
  /\ p.new \subseteq Connectors /\ p.present \subseteq Connectors
  /\ p.ok \in BOOLEAN /\ p.erred \in BOOLEAN
  /\ p.results \in [Connectors -> Reads] /\ p.added \in [Connectors -> Reads]

Plans ==
  [owner : Handlers \cup {Nobody}, phase : {"none", "resources", "probe"},
   targets : SUBSET Connectors, moved : SUBSET Connectors,
   known : SUBSET Connectors, todo : SUBSET Connectors,
   new : SUBSET Connectors, present : SUBSET Connectors,
   ok : BOOLEAN, erred : BOOLEAN,
   results : [Connectors -> Reads], added : [Connectors -> Reads]]

LEMMA PlansFields == \A p \in Plans : PlanFields(p)
BY DEF Plans, PlanFields

LEMMA NoPlanFacts ==
  /\ NoPlan \in Plans
  /\ NoPlan.owner = Nobody /\ NoPlan.phase = "none" /\ NoPlan.targets = {}
  /\ NoPlan.moved = {} /\ NoPlan.known = {} /\ NoPlan.todo = {} /\ NoPlan.new = {}
  /\ NoPlan.present = {} /\ NoPlan.ok = FALSE /\ NoPlan.erred = FALSE
  /\ \A c \in Connectors : NoPlan.results[c] = NotRead /\ NoPlan.added[c] = NotRead
BY ReadFacts DEF NoPlan, Plans

LEMMA NobodyHandles == Nobody \notin Handlers
BY DEF Nobody, Handlers

LEMMA FreeMeansNoPlan ==
  ASSUME PlanInv, HotplugMutexIsFree
  PROVE  plan = NoPlan
BY NobodyHandles DEF PlanInv, HotplugMutexIsFree

LEMMA InitInv == Init => IInv
<1> SUFFICES ASSUME Init PROVE IInv
  OBVIOUS
<1>1. /\ \A c \in Connectors : kernel[c] \in {Read("off", 0), Read("good", 0)}
      /\ kernel \in [Connectors -> Reads]
  <2>1. 0 \in 0 .. MaxChanges /\ "off" \in States /\ "good" \in States
    BY ConstantsAssumption DEF States
  <2>2. QED BY <2>1, ReadFacts DEF Init
<1>2. ASSUME NEW c \in Connectors
      PROVE  kernel[c].s \in {"off", "good"} /\ kernel[c].v = 0
  <2>1. kernel[c] = Read("off", 0) \/ kernel[c] = Read("good", 0)
    BY <1>1
  <2>2. QED BY <2>1, ReadFacts
<1>3. Existing = Connectors
  BY <1>2 DEF Init, Existing
<1>4. PICK quirk \in BOOLEAN, animation \in BOOLEAN :
        pc = [listener |-> "read",
              stopper |-> IF animation THEN "start" ELSE "done",
              settle |-> "done",
              recovery |-> IF quirk /\ Quirky \cap attached # {} THEN "delay" ELSE "done"]
  BY DEF Init
<1>5. /\ pc["listener"] = "read" /\ pc["settle"] = "done"
      /\ pc["stopper"] \in {"start", "done"}
      /\ pc["recovery"] \in {"delay", "done"}
      /\ booting = FALSE
  BY <1>4 DEF Init
<1>6. TypeOK
  <2>1. pc \in [Threads -> {"read", "handle", "again", "window", "start", "watch", "flush",
                            "sleep", "delay", "teardown", "pause", "done"}]
    BY <1>4 DEF Threads
  <2>2. plan \in Plans /\ found \in Reads
    BY NoPlanFacts, ReadFacts DEF Init
  <2>3. attached \subseteq Connectors
    BY DEF Init
  <2>4. changes \in 0 .. MaxChanges /\ failures \in 0 .. MaxFailures
    BY ConstantsAssumption DEF Init
  <2>5. QED BY <1>1, <1>3, <2>1, <2>2, <2>3, <2>4 DEF TypeOK, Plans, Init
<1>7. StepInv
  BY <1>5 DEF StepInv
<1>8. BootInv
  BY <1>5 DEF BootInv, Init
<1>9. PlanInv
  BY DEF PlanInv, Init
<1>10. VersionInv
  BY <1>2, NoPlanFacts DEF VersionInv, Init
<1>11. SeenInv
  BY <1>2 DEF SeenInv, Right, Init
<1>12. ReadInv
  BY NoPlanFacts DEF ReadInv, Init
<1>13. AttachInv
  BY DEF AttachInv, Init
<1>14. QED BY <1>6, <1>7, <1>8, <1>9, <1>10, <1>11, <1>12, <1>13 DEF IInv

-----------------------------------------------------------------------------
(* What most steps leave alone.                                            *)

(* Whatever is still to be looked at remains so.                           *)
Keeps ==
  /\ \A c \in Connectors : Missed(c) => Missed(c)'
  /\ Due => Due'
  /\ FirstPass => FirstPass'
  /\ late \subseteq late' /\ late' \subseteq Connectors

(* What Phase3 will make of c depends on its own entries alone.            *)
SameEntries(c) ==
  /\ object'[c] = object[c] /\ (c \in deleted' <=> c \in deleted)
  /\ plan'.results[c] = plan.results[c] /\ plan'.added[c] = plan.added[c]
  /\ c \in plan'.targets <=> c \in plan.targets
  /\ c \in plan'.moved <=> c \in plan.moved
  /\ c \in plan'.present <=> c \in plan.present
  /\ plan'.ok = plan.ok

LEMMA SameAfter ==
  ASSUME NEW c \in Connectors, SameEntries(c)
  PROVE  /\ After(c)' = After(c) /\ (DeadAfter(c)' <=> DeadAfter(c))
         /\ Stale(c)' <=> Stale(c)
         /\ Dead(c)' <=> Dead(c)
         /\ c \in Probed' <=> c \in Probed
         /\ c \in Existing' <=> c \in Existing
<1>1. /\ c \in Existing' <=> c \in Existing
      /\ c \in Probed' <=> c \in Probed
      /\ c \in ProbedUnmoved' <=> c \in ProbedUnmoved
  BY DEF SameEntries, Existing, Probed, ProbedUnmoved
<1>2. (Lost(c)' <=> Lost(c)) /\ (Dead(c)' <=> Dead(c))
  BY <1>1 DEF SameEntries, Lost, Dead
<1>3. Stale(c)' <=> Stale(c)
  BY <1>1, <1>2 DEF SameEntries, Stale
<1>4. Joins(c)' <=> Joins(c)
  BY <1>1, <1>3 DEF SameEntries, Joins
<1>5. After(c)' = After(c)
  BY <1>1, <1>3, <1>4 DEF SameEntries, After
<1>6. QED BY <1>1, <1>2, <1>3, <1>5 DEF DeadAfter

(* The three cases of SeenInv.                                             *)
SeenIdle(c) ==
  /\ plan = NoPlan
  /\ Right(c, object[c].s, c \in deleted)
       \/ (Due /\ Selectable(c, object[c].s, c \in deleted))

SeenSelected(c) ==
  /\ plan.phase = "resources"
  /\ \/ c \in plan.targets \ plan.moved
     \/ Right(c, object[c].s, c \in deleted)
     \/ object[c].s = "gone" \/ kernel[c].s = "gone"
     \/ (Due /\ c \in deleted)
     \/ (DueOrAgain /\ object[c].s = "unknown" /\ c \notin deleted)

SeenProbing(c) ==
  /\ plan.phase = "probe"
  /\ \/ ToRead(c)
     \/ Right(c, After(c).s, DeadAfter(c))
     \/ (Due \/ Again(c)) /\ Selectable(c, After(c).s, DeadAfter(c))

Seen(c) == Missed(c) \/ SeenIdle(c) \/ SeenSelected(c) \/ SeenProbing(c)

LEMMA SeenCases ==
  /\ SeenInv <=> \A c \in Connectors : Seen(c)
  /\ SeenInv' <=> \A c \in Connectors : Seen(c)'
BY DEF SeenInv, Seen, SeenIdle, SeenSelected, SeenProbing

(* A connector nobody reads, moves or forgets in this step.                *)
LEMMA SeenStays ==
  ASSUME NEW c \in Connectors, Seen(c), Keeps, kernel'[c] = kernel[c], SameEntries(c),
         (plan' = NoPlan) <=> (plan = NoPlan), plan'.phase = plan.phase,
         plan.erred => plan'.erred, ToRead(c) => ToRead(c)'
  PROVE  Seen(c)'
<1>1. CASE Missed(c)
  BY <1>1 DEF Keeps, Seen
<1>2. CASE SeenIdle(c)
  <2>1. SeenIdle(c)'
    BY <1>2 DEF SeenIdle, Keeps, SameEntries, Right, Selectable
  <2>2. QED BY <2>1 DEF Seen
<1>3. CASE SeenSelected(c)
  <2>1. DueOrAgain => DueOrAgain'
    BY DEF DueOrAgain, Keeps
  <2>2. SeenSelected(c)'
    BY <1>3, <2>1 DEF SeenSelected, Keeps, SameEntries, Right
  <2>3. QED BY <2>2 DEF Seen
<1>4. CASE SeenProbing(c)
  <2>1. Again(c) => Again(c)'
    BY SameAfter DEF Again, Keeps
  <2>2. /\ Right(c, After(c).s, DeadAfter(c)) => Right(c, After(c).s, DeadAfter(c))'
        /\ Selectable(c, After(c).s, DeadAfter(c))
             => Selectable(c, After(c).s, DeadAfter(c))'
    BY SameAfter DEF Right, Selectable
  <2>3. SeenProbing(c)'
    BY <1>4, <2>1, <2>2 DEF SeenProbing, Keeps
  <2>4. QED BY <2>3 DEF Seen
<1>5. QED BY <1>1, <1>2, <1>3, <1>4 DEF Seen

(* Steps of the threads between handlings, which move uevents about.       *)
LEMMA CalmStep ==
  ASSUME IInv, Keeps, UNCHANGED <<kernel, object, deleted, attached, plan, client, found>>
  PROVE  SeenInv' /\ ReadInv' /\ AttachInv'
<1>1. SeenInv'
  <2>1. ASSUME NEW c \in Connectors
        PROVE  Seen(c)'
    <3>1. SameEntries(c) /\ Seen(c)
      BY SeenCases DEF IInv, SameEntries
    <3>2. ToRead(c) => ToRead(c)'
      BY <3>1, SameAfter DEF ToRead
    <3>3. QED BY <3>1, <3>2, SeenStays
  <2>2. QED BY <2>1, SeenCases
<1>2. DueOrAgain => DueOrAgain'
  BY DEF DueOrAgain, Keeps
<1>3. ReadInv'
  <2>1. late = Connectors => late' = Connectors
    BY DEF Keeps
  <2>2. client \in attached => client \in Connectors
    BY DEF IInv, TypeOK, Existing
  <2>3. ReadInv
    BY DEF IInv
  <2>4. QED BY <1>2, <2>1, <2>2, <2>3 DEF ReadInv, Keeps
<1>4. AttachInv'
  BY DEF IInv, AttachInv, Keeps
<1>5. QED BY <1>1, <1>3, <1>4

-----------------------------------------------------------------------------
(* The threads.                                                            *)

Steps == {"read", "handle", "again", "window", "start", "watch", "flush", "sleep", "delay",
          "teardown", "pause", "done"}
AtWork == {"handle", "again"}

LEMMA ThreadTypes ==
  ASSUME TypeOK
  PROVE  /\ pc \in [Threads -> Steps] /\ event \in [Threads -> SUBSET Connectors]
         /\ plan \in Plans /\ needs \in BOOLEAN
         /\ Threads = {"listener", "stopper", "settle", "recovery"}
         /\ Handlers = {"listener", "stopper", "settle"}
BY DEF TypeOK, Steps, Plans, Threads, Handlers

(* What a thread may still be told of is not lost when another returns.    *)
Awaits(t) ==
  /\ \A u \in Handlers \ {t} :
       /\ pc'[u] \in AtWork <=> pc[u] \in AtWork
       /\ pc[u] \in AtWork => event'[u] = event[u]
  /\ ListenerAgain => ListenerAgain' /\ event'["listener"] = event["listener"]
  /\ pc["settle"] = "sleep" => pc'["settle"] = "sleep" /\ event'["settle"] = event["settle"]

ListenerTold ==
  pc["listener"] \in AtWork \/ (pc["listener"] = "window" /\ needs)
    => event["listener"] # {}

LEMMA ReturnFacts ==
  ASSUME TypeOK, StepInv, NEW t \in Handlers, pc[t] \in AtWork, NEW needed \in BOOLEAN,
         ListenerTold, Return(t, needed)
  PROVE  /\ pc' \in [Threads -> Steps] /\ event' \in [Threads -> SUBSET Connectors]
         /\ needs' \in BOOLEAN /\ StepInv'
         /\ Awaits(t) /\ pc'[t] \notin AtWork /\ ListenerTold'
         /\ pc'["recovery"] = pc["recovery"]
         /\ pc["stopper"] \in {"watch", "flush"} => pc'["stopper"] = pc["stopper"]
         /\ pc'["stopper"] \in {"watch", "flush"} => pc'["stopper"] = pc["stopper"]
         /\ needed /\ (t = "stopper" \/ (t = "listener" /\ pc[t] = "handle"))
              => ListenerAgain' \/ pc'["settle"] = "sleep"
<1>1. /\ pc \in [Threads -> Steps] /\ event \in [Threads -> SUBSET Connectors]
      /\ needs \in BOOLEAN
      /\ Threads = {"listener", "stopper", "settle", "recovery"}
      /\ Handlers = {"listener", "stopper", "settle"}
  BY ThreadTypes
<1>2. CASE t = "listener"
  <2>1. /\ pc' = [pc EXCEPT !["listener"] = IF pc["listener"] = "again" THEN "read" ELSE "window"]
        /\ needs' = (needed /\ pc["listener"] = "handle")
        /\ event' = [event EXCEPT !["listener"] = IF needs' THEN @ ELSE {}]
    BY <1>2 DEF Return
  <2>2. /\ pc'["listener"] \in {"read", "window"} /\ pc'["stopper"] = pc["stopper"]
        /\ pc'["settle"] = pc["settle"] /\ pc'["recovery"] = pc["recovery"]
        /\ pc["listener"] = "handle" => pc'["listener"] = "window"
        /\ pc' \in [Threads -> Steps]
    BY <1>1, <1>2, <2>1 DEF AtWork, Steps
  <2>3. /\ event' \in [Threads -> SUBSET Connectors]
        /\ event'["stopper"] = event["stopper"] /\ event'["settle"] = event["settle"]
        /\ needs' => event'["listener"] = event["listener"]
    BY <1>1, <2>1
  <2>4. Awaits(t)
    BY <1>1, <1>2, <2>2, <2>3 DEF Awaits, ListenerAgain, AtWork
  <2>5. QED BY <1>1, <1>2, <2>1, <2>2, <2>3, <2>4 DEF StepInv, ListenerTold, ListenerAgain, AtWork
<1>3. CASE t = "stopper"
  <2>1. /\ pc' = [pc EXCEPT !["stopper"] = "done", !["settle"] = IF needed THEN "sleep" ELSE @]
        /\ event' = [event EXCEPT !["stopper"] = {},
                                  !["settle"] = IF needed THEN event["stopper"] ELSE @]
        /\ needs' = needs
    BY <1>3 DEF Return
  <2>2. pc["settle"] = "done" /\ pc["stopper"] = "handle"
    BY <1>3 DEF StepInv, AtWork
  <2>3. /\ pc'["listener"] = pc["listener"] /\ pc'["stopper"] = "done"
        /\ pc'["settle"] = (IF needed THEN "sleep" ELSE pc["settle"])
        /\ pc'["recovery"] = pc["recovery"] /\ pc' \in [Threads -> Steps]
    BY <1>1, <2>1 DEF Steps
  <2>4. /\ event' \in [Threads -> SUBSET Connectors] /\ event'["listener"] = event["listener"]
    BY <1>1, <2>1
  <2>5. Awaits(t)
    BY <1>1, <1>3, <2>1, <2>2, <2>3, <2>4 DEF Awaits, ListenerAgain, AtWork
  <2>6. QED BY <1>1, <1>3, <2>1, <2>2, <2>3, <2>4, <2>5
            DEF StepInv, ListenerTold, ListenerAgain, AtWork
<1>4. CASE t = "settle"
  <2>1. /\ pc' = [pc EXCEPT !["settle"] = "done"]
        /\ event' = [event EXCEPT !["settle"] = {}]
        /\ needs' = needs
    BY <1>1, <1>4 DEF Return
  <2>2. pc["settle"] = "handle"
    BY <1>4 DEF StepInv, AtWork
  <2>3. /\ pc'["listener"] = pc["listener"] /\ pc'["stopper"] = pc["stopper"]
        /\ pc'["settle"] = "done"
        /\ pc'["recovery"] = pc["recovery"] /\ pc' \in [Threads -> Steps]
    BY <1>1, <2>1 DEF Steps
  <2>4. /\ event' \in [Threads -> SUBSET Connectors] /\ event'["listener"] = event["listener"]
        /\ event'["stopper"] = event["stopper"]
    BY <1>1, <2>1
  <2>5. Awaits(t)
    BY <1>1, <1>4, <2>1, <2>2, <2>3, <2>4 DEF Awaits, ListenerAgain, AtWork
  <2>6. QED BY <1>1, <1>4, <2>1, <2>2, <2>3, <2>4, <2>5
            DEF StepInv, ListenerTold, ListenerAgain, AtWork
<1>5. QED BY <1>1, <1>2, <1>3, <1>4

LEMMA BootParts ==
  /\ BootInv <=> /\ booting <=> pc["stopper"] = "watch"
                 /\ deferred # {} => pc["stopper"] \in {"watch", "flush"}
                 /\ ListenerTold
  /\ BootInv' <=> /\ booting' <=> pc'["stopper"] = "watch"
                  /\ deferred' # {} => pc'["stopper"] \in {"watch", "flush"}
                  /\ ListenerTold'
BY DEF BootInv, ListenerTold, AtWork

(* The plan, as long as nothing it is about changes.                       *)
LEMMA PlanStays ==
  ASSUME PlanInv, UNCHANGED <<plan, object, deleted>>,
         plan.owner \in Handlers => pc'[plan.owner] \in AtWork
  PROVE  PlanInv'
BY DEF PlanInv, Existing, AtWork

LEMMA VersionStays ==
  ASSUME VersionInv, UNCHANGED <<kernel, object, plan, changes, client, found>>
  PROVE  VersionInv'
BY DEF VersionInv

(* The owner of the plan is at work.                                       *)
LEMMA OwnerAtWork ==
  ASSUME PlanInv, NEW t, pc[t] \notin AtWork
  PROVE  plan.owner # t \/ t = Nobody
BY NoPlanFacts DEF PlanInv, AtWork

(* A step of the threads between handlings keeps the invariant if it keeps *)
(* track of its threads, and of what they are still to look at.            *)
Between ==
  UNCHANGED <<kernel, object, deleted, attached, plan, client, found, changes, failures, late>>

LEMMA BetweenStep ==
  ASSUME IInv, Between, Keeps,
         socket' \subseteq Connectors, deferred' \subseteq Connectors, booting' \in BOOLEAN,
         pc' \in [Threads -> Steps], event' \in [Threads -> SUBSET Connectors],
         needs' \in BOOLEAN, StepInv', BootInv',
         plan.owner \in Handlers => pc'[plan.owner] \in AtWork
  PROVE  IInv'
<1>1. TypeOK'
  <2>1. TypeOK
    BY DEF IInv
  <2>2. QED BY <2>1 DEF TypeOK, Existing, Between, Steps
<1>2. PlanInv' /\ VersionInv'
  BY PlanStays, VersionStays DEF IInv, Between
<1>3. SeenInv' /\ ReadInv' /\ AttachInv'
  BY CalmStep DEF Between
<1>4. QED BY <1>1, <1>2, <1>3 DEF IInv

LEMMA DeferStep ==
  ASSUME IInv, NEW t \in Handlers, Defer(t)
  PROVE  IInv'
<1>1. /\ TypeOK /\ StepInv /\ BootInv /\ PlanInv /\ Between /\ booting /\ booting' = booting
      /\ pc[t] \in AtWork /\ HotplugMutexIsFree /\ socket' = socket
      /\ deferred' = deferred \cup event[t] /\ Return(t, FALSE) /\ ListenerTold
  BY BootParts DEF IInv, Defer, Handles, AtWork, Between, device, probes
<1>2. plan = NoPlan /\ plan' = NoPlan
  BY <1>1, FreeMeansNoPlan DEF Between
<1>3. /\ pc["stopper"] = "watch" /\ pc["settle"] = "done" /\ t = "listener"
  BY <1>1, ThreadTypes, BootParts DEF StepInv, AtWork
<1>4. /\ pc' \in [Threads -> Steps] /\ event' \in [Threads -> SUBSET Connectors]
      /\ needs' \in BOOLEAN /\ StepInv' /\ Awaits(t) /\ ListenerTold'
      /\ pc'["recovery"] = pc["recovery"] /\ pc'["stopper"] = pc["stopper"]
  BY <1>1, <1>3, ReturnFacts
<1>5. BootInv'
  BY <1>1, <1>2, <1>3, <1>4, BootParts
<1>6. Keeps
  <2>1. deferred' # {} /\ event[t] \subseteq deferred'
    BY <1>1, <1>3 DEF ListenerTold
  <2>2. ~ListenerAgain /\ ~(pc["settle"] = "sleep")
    BY <1>1, <1>3 DEF ListenerAgain, AtWork
  <2>3. ASSUME NEW u \in Handlers, u # t
        PROVE  ~Waits(u)
    BY <1>1, <1>3, <2>3, ThreadTypes DEF Waits
  <2>4. \A c \in Connectors : Named(c) => Named(c)'
    BY <1>1, <2>1, <2>2, <2>3 DEF Named
  <2>5. Due'
    BY <2>1 DEF Due
  <2>6. FirstPass => FirstPass'
    BY <1>2, NoPlanFacts, NobodyHandles, ThreadTypes, <1>1 DEF FirstPass
  <2>7. late' = late /\ late \subseteq Connectors
    BY <1>1 DEF Between, TypeOK
  <2>8. QED BY <2>4, <2>5, <2>6, <2>7 DEF Keeps, Missed
<1>7. deferred' \subseteq Connectors /\ socket' \subseteq Connectors
  BY <1>1, ThreadTypes, <1>3 DEF TypeOK
<1>8. plan.owner \notin Handlers
  BY <1>2, NoPlanFacts, NobodyHandles
<1>9. booting' \in BOOLEAN
  BY <1>1 DEF TypeOK
<1>10. QED BY <1>1, <1>4, <1>5, <1>6, <1>7, <1>8, <1>9, BetweenStep

(* The listener goes on with what the socket names, and what it kept.      *)
LEMMA ListenerTakes ==
  ASSUME IInv, Between, pc["listener"] \notin AtWork,
         pc' = [pc EXCEPT !["listener"] = "handle"],
         NEW ids, event' = [event EXCEPT !["listener"] = ids],
         socket # {}, socket \subseteq ids, ids \subseteq Connectors,
         ListenerAgain => event["listener"] \subseteq ids,
         socket' = {}, UNCHANGED <<deferred, booting, needs>>
  PROVE  IInv'
<1>1. TypeOK /\ StepInv /\ BootInv /\ PlanInv
  BY DEF IInv
<1>2. /\ pc' \in [Threads -> Steps] /\ event' \in [Threads -> SUBSET Connectors]
      /\ pc'["listener"] = "handle" /\ event'["listener"] = ids
      /\ pc'["stopper"] = pc["stopper"] /\ event'["stopper"] = event["stopper"]
      /\ pc'["settle"] = pc["settle"] /\ event'["settle"] = event["settle"]
      /\ pc'["recovery"] = pc["recovery"]
  BY <1>1, ThreadTypes DEF Steps
<1>3. plan.owner # "listener" /\ plan' = plan
  BY <1>1, OwnerAtWork DEF Between, Nobody
<1>4. StepInv' /\ BootInv'
  <2>1. StepInv'
    BY <1>1, <1>2 DEF StepInv
  <2>2. ListenerTold'
    BY <1>2 DEF ListenerTold
  <2>3. BootInv'
    BY <1>1, <1>2, <1>3, <2>2, BootParts
  <2>4. QED BY <2>1, <2>3
<1>5. Waits("listener")'
  BY <1>2, <1>3 DEF Waits
<1>6. Keeps
  <2>1. ASSUME NEW u \in Handlers, Waits(u)
        PROVE  Waits(u)' /\ event[u] \subseteq event'[u]
    BY <1>1, <1>2, <1>3, <2>1, ThreadTypes DEF Waits, AtWork
  <2>2. "listener" \in Handlers
    BY DEF Handlers
  <2>3. ASSUME NEW c \in Connectors, Named(c)
        PROVE  Named(c)'
    <3>1. CASE c \in socket \/ (ListenerAgain /\ c \in event["listener"])
      BY <3>1, <1>2, <1>5, <2>2 DEF Named
    <3>2. CASE c \in deferred \/ (pc["settle"] = "sleep" /\ c \in event["settle"])
      BY <3>2, <1>2 DEF Named
    <3>3. CASE \E u \in Handlers : Waits(u) /\ c \in event[u]
      BY <3>3, <2>1 DEF Named
    <3>4. QED BY <2>3, <3>1, <3>2, <3>3 DEF Named
  <2>4. Due'
    BY <1>5, <2>2 DEF Due
  <2>5. FirstPass => FirstPass'
    BY <1>3 DEF FirstPass
  <2>6. late' = late /\ late \subseteq Connectors
    BY <1>1 DEF Between, TypeOK
  <2>7. QED BY <2>3, <2>4, <2>5, <2>6 DEF Keeps, Missed
<1>7. plan.owner \in Handlers => pc'[plan.owner] \in AtWork
  BY <1>1, <1>2, <1>3, ThreadTypes, NoPlanFacts, NobodyHandles DEF PlanInv, AtWork
<1>8. deferred' \subseteq Connectors /\ booting' \in BOOLEAN /\ needs' \in BOOLEAN
  BY <1>1 DEF TypeOK
<1>9. QED BY <1>2, <1>4, <1>6, <1>7, <1>8, BetweenStep

LEMMA ReadUEventsStep ==
  ASSUME IInv, ReadUEvents
  PROVE  IInv'
<1>1. /\ Between /\ pc["listener"] \notin AtWork /\ socket # {} /\ socket' = {}
      /\ pc' = [pc EXCEPT !["listener"] = "handle"]
      /\ event' = [event EXCEPT !["listener"] = socket]
      /\ ~ListenerAgain /\ UNCHANGED <<deferred, booting, needs>>
  BY DEF ReadUEvents, Goto, Between, device, probes, AtWork, ListenerAgain
<1>2. socket \subseteq Connectors
  BY DEF IInv, TypeOK
<1>3. QED BY <1>1, <1>2, ListenerTakes

LEMMA FollowupStep ==
  ASSUME IInv, Followup
  PROVE  IInv'
<1>1. /\ Between /\ pc["listener"] \notin AtWork /\ socket # {} /\ socket' = {}
      /\ pc' = [pc EXCEPT !["listener"] = "handle"]
      /\ event' = [event EXCEPT !["listener"] = FollowupMerged]
      /\ UNCHANGED <<deferred, booting, needs>>
  BY DEF Followup, Goto, Between, device, probes, AtWork
<1>2. /\ socket \subseteq FollowupMerged /\ FollowupMerged \subseteq Connectors
      /\ ListenerAgain => event["listener"] \subseteq FollowupMerged
  BY ThreadTypes DEF IInv, TypeOK, FollowupMerged, ListenerAgain
<1>3. QED BY <1>1, <1>2, ListenerTakes

LEMMA SettleTimeoutStep ==
  ASSUME IInv, SettleTimeout
  PROVE  IInv'
<1>1. TypeOK /\ StepInv /\ BootInv /\ PlanInv
  BY DEF IInv
<1>2. /\ Between /\ UNCHANGED <<socket, deferred, booting, needs, event>>
      /\ pc["listener"] = "window"
      /\ pc' = [pc EXCEPT !["listener"] = IF needs THEN "again" ELSE "read"]
  BY DEF SettleTimeout, Goto, Between, device, probes
<1>3. /\ pc' \in [Threads -> Steps] /\ pc'["listener"] = IF needs THEN "again" ELSE "read"
      /\ pc'["stopper"] = pc["stopper"] /\ pc'["settle"] = pc["settle"]
      /\ pc'["recovery"] = pc["recovery"]
  BY <1>1, <1>2, ThreadTypes DEF Steps
<1>4. plan.owner # "listener" /\ plan' = plan
  BY <1>1, <1>2, OwnerAtWork DEF Between, Nobody, AtWork
<1>5. StepInv'
  BY <1>1, <1>3 DEF StepInv
<1>6. BootInv'
  <2>1. ListenerTold'
    BY <1>1, <1>2, <1>3, BootParts DEF ListenerTold, AtWork
  <2>2. QED BY <1>1, <1>2, <1>3, <1>4, <2>1, BootParts
<1>7. Keeps
  <2>1. ListenerAgain => Waits("listener")' /\ "listener" \in Handlers
    BY <1>3, <1>4 DEF ListenerAgain, Waits, Handlers
  <2>2. ASSUME NEW u \in Handlers, Waits(u)
        PROVE  Waits(u)'
    BY <1>1, <1>2, <1>3, <1>4, <2>2, ThreadTypes DEF Waits
  <2>3. ASSUME NEW c \in Connectors, Named(c)
        PROVE  Named(c)'
    BY <1>2, <1>3, <2>1, <2>2, <2>3 DEF Named
  <2>4. Due => Due'
    BY <1>2, <1>3, <2>1, <2>2 DEF Due
  <2>5. FirstPass => FirstPass'
    BY <1>4 DEF FirstPass
  <2>6. late' = late /\ late \subseteq Connectors
    BY <1>1, <1>2 DEF Between, TypeOK
  <2>7. QED BY <2>3, <2>4, <2>5, <2>6 DEF Keeps, Missed
<1>8. plan.owner \in Handlers => pc'[plan.owner] \in AtWork
  BY <1>1, <1>3, <1>4, ThreadTypes, NoPlanFacts, NobodyHandles DEF PlanInv, AtWork
<1>9. /\ deferred' \subseteq Connectors /\ booting' \in BOOLEAN /\ needs' \in BOOLEAN
      /\ socket' \subseteq Connectors /\ event' \in [Threads -> SUBSET Connectors]
  BY <1>1, <1>2 DEF TypeOK
<1>10. QED BY <1>2, <1>3, <1>5, <1>6, <1>7, <1>8, <1>9, BetweenStep

(* The boot animation starts, or stops.                                    *)
LEMMA StopperGoesOn ==
  ASSUME IInv, Between, UNCHANGED <<socket, deferred, needs, event>>,
         pc["stopper"] \in {"start", "watch"}, NEW step \in {"watch", "flush"},
         pc' = [pc EXCEPT !["stopper"] = step], booting' = (step = "watch")
  PROVE  IInv'
<1>1. TypeOK /\ StepInv /\ BootInv /\ PlanInv
  BY DEF IInv
<1>2. /\ pc' \in [Threads -> Steps] /\ pc'["listener"] = pc["listener"]
      /\ pc'["stopper"] = step /\ pc'["settle"] = pc["settle"]
      /\ pc'["recovery"] = pc["recovery"]
  BY <1>1, ThreadTypes DEF Steps
<1>3. plan' = plan /\ plan.owner # "stopper"
  BY <1>1, OwnerAtWork DEF Between, Nobody, AtWork
<1>4. StepInv'
  BY <1>1, <1>2 DEF StepInv
<1>5. BootInv'
  <2>1. ListenerTold'
    BY <1>1, <1>2, BootParts DEF ListenerTold
  <2>2. QED BY <1>1, <1>2, <2>1, BootParts
<1>6. Keeps
  <2>1. \A u \in Handlers : Waits(u) => Waits(u)'
    BY <1>1, <1>2, <1>3, ThreadTypes DEF Waits
  <2>2. \A c \in Connectors : Named(c) => Named(c)'
    BY <1>2, <2>1 DEF Named, ListenerAgain
  <2>3. Due => Due'
    BY <1>2, <2>1 DEF Due, ListenerAgain
  <2>4. FirstPass => FirstPass'
    BY <1>2, <1>3 DEF FirstPass
  <2>5. late' = late /\ late \subseteq Connectors
    BY <1>1 DEF Between, TypeOK
  <2>6. QED BY <2>2, <2>3, <2>4, <2>5 DEF Keeps, Missed
<1>7. plan.owner \in Handlers => pc'[plan.owner] \in AtWork
  BY <1>1, <1>2, <1>3, ThreadTypes, NoPlanFacts, NobodyHandles DEF PlanInv, AtWork
<1>8. /\ deferred' \subseteq Connectors /\ booting' \in BOOLEAN /\ needs' \in BOOLEAN
      /\ socket' \subseteq Connectors /\ event' \in [Threads -> SUBSET Connectors]
  BY <1>1 DEF TypeOK
<1>9. QED BY <1>2, <1>4, <1>5, <1>6, <1>7, <1>8, BetweenStep

LEMMA StartBootAnimationStep ==
  ASSUME IInv, StartBootAnimation
  PROVE  IInv'
<1>1. /\ Between /\ UNCHANGED <<socket, deferred, needs, event>>
      /\ pc["stopper"] = "start" /\ booting' = TRUE
      /\ pc' = [pc EXCEPT !["stopper"] = "watch"]
  BY DEF StartBootAnimation, Goto, Between, device, probes
<1>2. QED BY <1>1, StopperGoesOn

LEMMA StopBootAnimationStep ==
  ASSUME IInv, StopBootAnimation
  PROVE  IInv'
<1>1. /\ Between /\ UNCHANGED <<socket, deferred, needs, event>>
      /\ pc["stopper"] = "watch" /\ booting' = FALSE
      /\ pc' = [pc EXCEPT !["stopper"] = "flush"]
  BY DEF StopBootAnimation, Goto, Between, device, probes
<1>2. QED BY <1>1, StopperGoesOn

LEMMA FlushDeferredHotplugStep ==
  ASSUME IInv, FlushDeferredHotplug
  PROVE  IInv'
<1>1. TypeOK /\ StepInv /\ BootInv /\ PlanInv
  BY DEF IInv
<1>2. /\ Between /\ UNCHANGED <<socket, booting, needs>>
      /\ pc["stopper"] = "flush" /\ HotplugMutexIsFree
      /\ deferred' = {}
      /\ pc' = [pc EXCEPT !["stopper"] = IF deferred = {} THEN "done" ELSE "handle"]
      /\ deferred = {} => event' = event
      /\ deferred # {} => event' = [event EXCEPT !["stopper"] = deferred]
  BY DEF FlushDeferredHotplug, Goto, Between, device, probes
<1>3. /\ pc' \in [Threads -> Steps] /\ pc'["listener"] = pc["listener"]
      /\ pc'["stopper"] = (IF deferred = {} THEN "done" ELSE "handle")
      /\ pc'["settle"] = pc["settle"] /\ pc'["recovery"] = pc["recovery"]
  BY <1>1, <1>2, ThreadTypes DEF Steps
<1>4. /\ event' \in [Threads -> SUBSET Connectors]
      /\ event'["listener"] = event["listener"] /\ event'["settle"] = event["settle"]
      /\ deferred # {} => event'["stopper"] = deferred
  <2>1. event \in [Threads -> SUBSET Connectors] /\ deferred \in SUBSET Connectors
    BY <1>1 DEF TypeOK
  <2>2. QED BY <1>2, <2>1, <1>1, ThreadTypes
<1>5. plan = NoPlan /\ plan' = plan /\ plan.owner \notin Handlers /\ plan.owner = Nobody
  BY <1>1, <1>2, FreeMeansNoPlan, NoPlanFacts, NobodyHandles DEF Between
<1>6. StepInv'
  BY <1>1, <1>2, <1>3 DEF StepInv
<1>7. BootInv'
  <2>1. ListenerTold'
    BY <1>1, <1>2, <1>3, <1>4, BootParts DEF ListenerTold
  <2>2. QED BY <1>1, <1>2, <1>3, <1>5, <2>1, BootParts
<1>8. Keeps
  <2>1. ASSUME NEW u \in Handlers, Waits(u)
        PROVE  Waits(u)' /\ event'[u] = event[u]
    BY <1>1, <1>2, <1>3, <1>4, <1>5, <2>1, ThreadTypes DEF Waits
  <2>2. deferred # {} => Waits("stopper")' /\ "stopper" \in Handlers
    BY <1>3, <1>5, ThreadTypes, <1>1, NobodyHandles DEF Waits
  <2>3. ASSUME NEW c \in Connectors, Named(c)
        PROVE  Named(c)'
    <3>1. CASE c \in deferred
      BY <3>1, <1>4, <2>2 DEF Named
    <3>2. CASE \E u \in Handlers : Waits(u) /\ c \in event[u]
      BY <3>2, <2>1 DEF Named
    <3>3. CASE c \in socket \/ (ListenerAgain /\ c \in event["listener"])
                 \/ (pc["settle"] = "sleep" /\ c \in event["settle"])
      BY <3>3, <1>2, <1>3, <1>4 DEF Named, ListenerAgain
    <3>4. QED BY <2>3, <3>1, <3>2, <3>3 DEF Named
  <2>4. Due => Due'
    BY <1>2, <1>3, <2>1, <2>2 DEF Due, ListenerAgain
  <2>5. FirstPass => FirstPass'
    BY <1>5, <1>1, ThreadTypes DEF FirstPass
  <2>6. late' = late /\ late \subseteq Connectors
    BY <1>1, <1>2 DEF Between, TypeOK
  <2>7. QED BY <2>3, <2>4, <2>5, <2>6 DEF Keeps, Missed
<1>9. /\ deferred' \subseteq Connectors /\ booting' \in BOOLEAN /\ needs' \in BOOLEAN
      /\ socket' \subseteq Connectors
  BY <1>1, <1>2 DEF TypeOK
<1>10. QED BY <1>2, <1>3, <1>4, <1>5, <1>6, <1>7, <1>8, <1>9, BetweenStep

LEMMA SettleThreadWakesStep ==
  ASSUME IInv, SettleThreadWakes
  PROVE  IInv'
<1>1. TypeOK /\ StepInv /\ BootInv /\ PlanInv
  BY DEF IInv
<1>2. /\ Between /\ UNCHANGED <<socket, deferred, booting, needs, event>>
      /\ pc["settle"] = "sleep"
      /\ pc' = [pc EXCEPT !["settle"] = "handle"]
  BY DEF SettleThreadWakes, Goto, Between, device, probes
<1>3. /\ pc' \in [Threads -> Steps] /\ pc'["listener"] = pc["listener"]
      /\ pc'["stopper"] = pc["stopper"] /\ pc'["settle"] = "handle"
      /\ pc'["recovery"] = pc["recovery"]
  BY <1>1, <1>2, ThreadTypes DEF Steps
<1>4. plan.owner # "settle" /\ plan' = plan
  BY <1>1, <1>2, OwnerAtWork DEF Between, Nobody, AtWork
<1>5. StepInv'
  BY <1>1, <1>2, <1>3 DEF StepInv
<1>6. BootInv'
  <2>1. ListenerTold'
    BY <1>1, <1>2, <1>3, BootParts DEF ListenerTold
  <2>2. QED BY <1>1, <1>2, <1>3, <1>4, <2>1, BootParts
<1>7. Keeps
  <2>1. ASSUME NEW u \in Handlers, Waits(u)
        PROVE  Waits(u)'
    BY <1>1, <1>2, <1>3, <1>4, <2>1, ThreadTypes DEF Waits
  <2>2. Waits("settle")' /\ "settle" \in Handlers
    BY <1>3, <1>4 DEF Waits, Handlers
  <2>3. ASSUME NEW c \in Connectors, Named(c)
        PROVE  Named(c)'
    BY <1>2, <1>3, <2>1, <2>2, <2>3 DEF Named, ListenerAgain
  <2>4. Due => Due'
    BY <2>2 DEF Due
  <2>5. FirstPass => FirstPass'
    BY <1>3, <1>4 DEF FirstPass
  <2>6. late' = late /\ late \subseteq Connectors
    BY <1>1, <1>2 DEF Between, TypeOK
  <2>7. QED BY <2>3, <2>4, <2>5, <2>6 DEF Keeps, Missed
<1>8. plan.owner \in Handlers => pc'[plan.owner] \in AtWork
  BY <1>1, <1>3, <1>4, ThreadTypes, NoPlanFacts, NobodyHandles DEF PlanInv, AtWork
<1>9. /\ deferred' \subseteq Connectors /\ booting' \in BOOLEAN /\ needs' \in BOOLEAN
      /\ socket' \subseteq Connectors /\ event' \in [Threads -> SUBSET Connectors]
  BY <1>1, <1>2 DEF TypeOK
<1>10. QED BY <1>2, <1>3, <1>5, <1>6, <1>7, <1>8, <1>9, BetweenStep

-----------------------------------------------------------------------------
(* The kernel.                                                             *)

(* Whoever is sure to look again is counted by DueOrAgain.                 *)
LEMMA ProbeIsDueMeans ==
  ASSUME TypeOK, ProbeIsDue
  PROVE  DueOrAgain
<1>1. Handlers = {"listener", "stopper", "settle"}
  BY DEF Handlers
<1>2. CASE socket \cup deferred # {}
  BY <1>2 DEF DueOrAgain, Due
<1>3. CASE pc["listener"] = "handle"
  BY <1>1, <1>3 DEF DueOrAgain, Due, FirstPass, Waits
<1>4. CASE pc["listener"] = "window" /\ needs
  BY <1>4 DEF DueOrAgain, Due, ListenerAgain
<1>5. CASE pc["stopper"] = "handle"
  BY <1>1, <1>5 DEF DueOrAgain, Due, FirstPass, Waits
<1>6. CASE pc["settle"] = "sleep"
  BY <1>6 DEF DueOrAgain, Due
<1>7. QED BY <1>2, <1>3, <1>4, <1>5, <1>6 DEF ProbeIsDue

LEMMA LateOrAgain ==
  ASSUME TypeOK, NEW ids, late' = late \cup MissedNow(ids)
  PROVE  DueOrAgain \/ ids \subseteq late'
BY ProbeIsDueMeans DEF MissedNow

(* The threads and what they are to look at, untouched by a step.          *)
ThreadsRest == UNCHANGED <<socket, deferred, booting, pc, event, needs>>

LEMMA RestKeeps ==
  ASSUME ThreadsRest, plan'.owner = plan.owner
  PROVE  /\ \A c \in Connectors : Named(c)' <=> Named(c)
         /\ Due' <=> Due
         /\ FirstPass' <=> FirstPass
         /\ DueOrAgain' <=> DueOrAgain
BY DEF ThreadsRest, Named, Due, FirstPass, DueOrAgain, ListenerAgain, Waits

LEMMA RestSteps ==
  ASSUME StepInv, ThreadsRest
  PROVE  StepInv'
BY DEF StepInv, ThreadsRest

LEMMA KernelSettlesStep ==
  ASSUME IInv, NEW k \in Connectors, KernelSettles(k)
  PROVE  IInv'
<1>1. TypeOK /\ StepInv /\ BootInv /\ PlanInv /\ VersionInv /\ SeenInv /\ ReadInv /\ AttachInv
  BY DEF IInv
<1>2. /\ UNCHANGED <<object, deleted, attached, plan, client, found, failures>> /\ ThreadsRest
      /\ kernel[k].s = "unknown" /\ changes < MaxChanges /\ changes' = changes + 1
      /\ late' = late \cup MissedNow({k})
  BY DEF KernelSettles, device, probes, ThreadsRest
<1>3. PICK s \in {"off", "good"} : kernel' = [kernel EXCEPT ![k] = Read(s, changes')]
  BY DEF KernelSettles
<1>4. /\ changes' \in 0 .. MaxChanges /\ Read(s, changes') \in Reads
      /\ kernel' \in [Connectors -> Reads] /\ kernel'[k].s = s /\ kernel'[k].v = changes'
      /\ \A c \in Connectors \ {k} : kernel'[c] = kernel[c]
  <2>1. changes' \in 0 .. MaxChanges
    BY <1>1, <1>2, ConstantsAssumption DEF TypeOK
  <2>2. Read(s, changes') \in Reads
    BY <2>1, ReadFacts DEF States
  <2>3. kernel \in [Connectors -> Reads]
    BY <1>1 DEF TypeOK
  <2>4. QED BY <1>3, <2>1, <2>2, <2>3, ReadFacts
<1>5. TypeOK'
  <2>1. late' \subseteq Connectors
    BY <1>1, <1>2 DEF TypeOK, MissedNow
  <2>2. QED BY <1>1, <1>2, <1>4, <2>1 DEF TypeOK, Existing, ThreadsRest
<1>6. StepInv' /\ BootInv' /\ PlanInv'
  <2>1. StepInv' /\ BootInv'
    BY <1>1, <1>2, RestSteps DEF BootInv, ThreadsRest
  <2>2. plan.owner \in Handlers => pc'[plan.owner] \in AtWork
    BY <1>1, <1>2, NoPlanFacts, NobodyHandles DEF PlanInv, AtWork, ThreadsRest
  <2>3. QED BY <1>1, <1>2, <2>1, <2>2, PlanStays
<1>7. VersionInv'
  <2>1. \A c \in Connectors : kernel[c].v \in 0 .. changes /\ kernel'[c].v \in 0 .. changes'
                                /\ kernel[c].v <= kernel'[c].v
    <3>1. changes \in 0 .. MaxChanges /\ changes' = changes + 1
      BY <1>1, <1>2 DEF TypeOK
    <3>2. \A c \in Connectors : kernel[c].v \in 0 .. changes
      BY <1>1 DEF VersionInv
    <3>3. QED BY <1>4, <3>1, <3>2
  <2>2. \A v : \A c \in Connectors : v \in 0 .. kernel[c].v => v \in 0 .. kernel'[c].v
    BY <2>1
  <2>3. client # Nobody => found.v \in object[client].v .. kernel'[client].v
    <3>1. SUFFICES ASSUME client # Nobody PROVE found.v \in object[client].v .. kernel'[client].v
      OBVIOUS
    <3>2. client \in Connectors /\ found.v \in object[client].v .. kernel[client].v
          /\ object[client].v \in 0 .. kernel[client].v
      BY <1>1, <3>1 DEF TypeOK, VersionInv
    <3>3. QED BY <2>1, <3>2
  <2>4. QED BY <1>1, <1>2, <2>1, <2>2, <2>3 DEF VersionInv
<1>8. Keeps
  <2>1. late' \subseteq Connectors
    BY <1>5 DEF TypeOK
  <2>2. QED BY <1>2, <2>1, RestKeeps DEF Keeps, Missed
<1>9. DueOrAgain \/ k \in late'
  BY <1>1, <1>2, LateOrAgain
<1>10. /\ DueOrAgain' <=> DueOrAgain
       /\ Due' <=> Due
       /\ FirstPass' <=> FirstPass
  BY <1>2, RestKeeps
<1>11. \A c \in Connectors : SameEntries(c)
  BY <1>2 DEF SameEntries
<1>12. Seen(k)'
  <2>1. CASE Missed(k) \/ k \in late'
    BY <2>1, <1>8 DEF Keeps, Seen, Missed
  <2>2. CASE SeenIdle(k) /\ DueOrAgain
    <3>1. plan = NoPlan /\ Due
      BY <2>2, NoPlanFacts, NobodyHandles, ThreadTypes, <1>1
         DEF SeenIdle, DueOrAgain, FirstPass, Nobody
    <3>2. Selectable(k, object[k].s, k \in deleted)'
      BY <2>2, <1>2 DEF SeenIdle, Right, Selectable
    <3>3. QED BY <1>2, <1>10, <3>1, <3>2 DEF Seen, SeenIdle
  <2>3. CASE SeenSelected(k) /\ DueOrAgain
    <3>1. SeenSelected(k)'
      BY <2>3, <1>2, <1>10 DEF SeenSelected, Right
    <3>2. QED BY <3>1 DEF Seen
  <2>4. CASE SeenProbing(k) /\ DueOrAgain
    <3>1. /\ After(k)' = After(k)
          /\ DeadAfter(k)' <=> DeadAfter(k)
          /\ Again(k)' <=> Again(k)
          /\ ToRead(k)' <=> ToRead(k)
      <4>1. Again(k)' <=> Again(k)
        BY <1>2, <1>10, <1>11, SameAfter DEF Again
      <4>2. ToRead(k)' <=> ToRead(k)
        BY <1>2, <1>11, SameAfter DEF ToRead
      <4>3. QED BY <1>11, <4>1, <4>2, SameAfter
    <3>2. CASE ToRead(k)
      BY <3>1, <3>2, <2>4, <1>2 DEF SeenProbing, Seen
    <3>3. CASE Right(k, After(k).s, DeadAfter(k))
      <4>1. After(k).s = "unknown"
        BY <3>3, <1>2 DEF Right
      <4>2. Due \/ Again(k)
        BY <4>1, <2>4 DEF DueOrAgain, Again
      <4>3. Selectable(k, After(k).s, DeadAfter(k))'
        BY <3>1, <4>1 DEF Selectable
      <4>4. QED BY <4>2, <4>3, <3>1, <1>10, <2>4, <1>2 DEF SeenProbing, Seen
    <3>4. CASE (Due \/ Again(k)) /\ Selectable(k, After(k).s, DeadAfter(k))
      <4>1. Selectable(k, After(k).s, DeadAfter(k))'
        BY <3>1, <3>4, <1>2 DEF Selectable
      <4>2. QED BY <4>1, <3>1, <3>4, <1>10, <2>4, <1>2 DEF SeenProbing, Seen
    <3>5. QED BY <3>2, <3>3, <3>4, <2>4 DEF SeenProbing
  <2>5. Seen(k)
    BY <1>1, SeenCases
  <2>6. QED BY <1>9, <2>1, <2>2, <2>3, <2>4, <2>5 DEF Seen
<1>13. SeenInv'
  <2>1. ASSUME NEW c \in Connectors, c # k
        PROVE  Seen(c)'
    <3>1. ToRead(c) => ToRead(c)'
      BY <1>2, <1>11, SameAfter DEF ToRead
    <3>2. Seen(c)
      BY <1>1, SeenCases
    <3>3. QED BY <3>1, <3>2, <2>1, <1>2, <1>4, <1>8, <1>11, SeenStays
  <2>2. QED BY <1>12, <2>1, SeenCases
<1>14. ReadInv'
  <2>1. \A c \in Connectors : kernel'[c].s = kernel[c].s \/ (c = k /\ kernel'[c].s # "gone"
                                                              /\ kernel[c].s = "unknown")
    BY <1>2, <1>4
  <2>2. \A c \in Connectors : Missed(c) => Missed(c)'
    BY <1>8 DEF Keeps
  <2>3. k \in late' => Missed(k)'
    BY DEF Missed
  <2>4. plan.phase = "probe" /\ plan.ok =>
          \A c \in Connectors : (c \in plan.present <=> kernel'[c].s # "gone") \/ Missed(c)'
    BY <1>1, <2>1, <2>2 DEF ReadInv
  <2>5. ASSUME NEW c \in Connectors, plan.added[c] # NotRead
        PROVE  \/ Missed(c)' \/ plan.added[c].s = kernel'[c].s
               \/ plan.added[c].s = "unknown" /\ DueOrAgain
    BY <1>1, <1>9, <2>1, <2>2, <2>3, <2>5 DEF ReadInv
  <2>6. ASSUME client # Nobody
        PROVE  /\ client \in attached
               /\ \/ Missed(client)' \/ found.s = kernel'[client].s
                  \/ found.s = "unknown" /\ DueOrAgain
               /\ found.s # "good" => client \in late' \/ Due \/ plan # NoPlan
    <3>1. client \in Connectors /\ late \subseteq late'
      BY <1>1, <1>2, <2>6 DEF TypeOK
    <3>2. QED BY <1>1, <1>2, <1>9, <2>1, <2>2, <2>3, <2>6, <3>1 DEF ReadInv
  <2>7. late = Connectors => late' = Connectors
    BY <1>8 DEF Keeps
  <2>8. QED BY <1>1, <1>2, <1>10, <2>4, <2>5, <2>6, <2>7 DEF ReadInv
<1>15. AttachInv'
  BY <1>1, <1>2, <1>10 DEF AttachInv
<1>16. QED BY <1>5, <1>6, <1>7, <1>13, <1>14, <1>15 DEF IInv

LEMMA KernelChangesStep ==
  ASSUME IInv, NEW k \in Connectors, KernelChanges(k)
  PROVE  IInv'
<1>1. TypeOK /\ StepInv /\ BootInv /\ PlanInv /\ VersionInv /\ SeenInv /\ ReadInv /\ AttachInv
  BY DEF IInv
<1>2. PICK s \in States \ {kernel[k].s}, named \in {{k}, Connectors} :
        kernel' = [kernel EXCEPT ![k] = Read(s, changes')] /\ socket' = socket \cup named
  BY DEF KernelChanges
<1>3. /\ UNCHANGED <<object, deleted, attached, plan, client, found, failures>>
      /\ UNCHANGED <<deferred, booting, pc, event, needs>>
      /\ changes < MaxChanges /\ changes' = changes + 1 /\ late' = late \ {k}
  BY DEF KernelChanges, device, probes
<1>4. /\ changes' \in 0 .. MaxChanges
      /\ kernel' \in [Connectors -> Reads] /\ kernel'[k].v = changes'
      /\ \A c \in Connectors \ {k} : kernel'[c] = kernel[c]
  <2>1. changes' \in 0 .. MaxChanges
    BY <1>1, <1>3, ConstantsAssumption DEF TypeOK
  <2>2. Read(s, changes') \in Reads
    BY <2>1, ReadFacts
  <2>3. kernel \in [Connectors -> Reads]
    BY <1>1 DEF TypeOK
  <2>4. QED BY <1>2, <2>1, <2>2, <2>3, ReadFacts
<1>5. socket \subseteq socket' /\ k \in socket' /\ socket' \subseteq Connectors
  BY <1>1, <1>2 DEF TypeOK
<1>6. TypeOK'
  BY <1>1, <1>3, <1>4, <1>5 DEF TypeOK, Existing
<1>7. StepInv' /\ BootInv' /\ PlanInv'
  <2>1. StepInv' /\ BootInv'
    BY <1>1, <1>3 DEF StepInv, BootInv
  <2>2. plan.owner \in Handlers => pc'[plan.owner] \in AtWork
    BY <1>1, <1>3, NoPlanFacts, NobodyHandles DEF PlanInv, AtWork
  <2>3. QED BY <1>1, <1>3, <2>1, <2>2, PlanStays
<1>8. VersionInv'
  <2>1. \A c \in Connectors : kernel[c].v \in 0 .. changes /\ kernel'[c].v \in 0 .. changes'
                                /\ kernel[c].v <= kernel'[c].v
    <3>1. changes \in 0 .. MaxChanges /\ changes' = changes + 1
      BY <1>1, <1>3 DEF TypeOK
    <3>2. \A c \in Connectors : kernel[c].v \in 0 .. changes
      BY <1>1 DEF VersionInv
    <3>3. QED BY <1>4, <3>1, <3>2
  <2>2. \A v : \A c \in Connectors : v \in 0 .. kernel[c].v => v \in 0 .. kernel'[c].v
    BY <2>1
  <2>3. client # Nobody => found.v \in object[client].v .. kernel'[client].v
    <3>1. SUFFICES ASSUME client # Nobody PROVE found.v \in object[client].v .. kernel'[client].v
      OBVIOUS
    <3>2. client \in Connectors /\ found.v \in object[client].v .. kernel[client].v
          /\ object[client].v \in 0 .. kernel[client].v
      BY <1>1, <3>1 DEF TypeOK, VersionInv
    <3>3. QED BY <2>1, <3>2
  <2>4. QED BY <1>1, <1>3, <2>1, <2>2, <2>3 DEF VersionInv
<1>9. Due' /\ DueOrAgain' /\ Missed(k)'
  BY <1>5 DEF Due, DueOrAgain, Missed, Named
<1>10. \A c \in Connectors \ {k} : Missed(c) => Missed(c)'
  BY <1>3, <1>5 DEF Missed, Named, ListenerAgain, Waits
<1>11. SeenInv'
  <2>1. ASSUME NEW c \in Connectors, c # k
        PROVE  Seen(c)'
    <3>1. SameEntries(c) /\ kernel'[c] = kernel[c]
      BY <1>3, <1>4, <2>1 DEF SameEntries
    <3>2. Missed(c) => Missed(c)'
      BY <1>10, <2>1
    <3>3. (FirstPass' <=> FirstPass) /\ (ToRead(c)' <=> ToRead(c))
      BY <1>3, <3>1, SameAfter DEF FirstPass, ToRead
    <3>4. Again(c) => Again(c)'
      BY <1>3, <3>1, <3>3, SameAfter DEF Again
    <3>5. SeenIdle(c) => SeenIdle(c)'
      BY <1>3, <1>9, <3>1 DEF SeenIdle, Right, Selectable
    <3>6. SeenSelected(c) => SeenSelected(c)'
      BY <1>3, <1>9, <3>1 DEF SeenSelected, Right
    <3>7. SeenProbing(c) => SeenProbing(c)'
      <4>1. Right(c, After(c).s, DeadAfter(c)) => Right(c, After(c).s, DeadAfter(c))'
        BY <3>1, SameAfter DEF Right
      <4>2. Selectable(c, After(c).s, DeadAfter(c)) => Selectable(c, After(c).s, DeadAfter(c))'
        BY <3>1, SameAfter DEF Selectable
      <4>3. QED BY <1>3, <1>9, <3>3, <4>1, <4>2 DEF SeenProbing
    <3>8. QED BY <1>1, <3>2, <3>5, <3>6, <3>7, SeenCases DEF Seen
  <2>2. Seen(k)'
    BY <1>9 DEF Seen
  <2>3. QED BY <2>1, <2>2, SeenCases
<1>12. ReadInv'
  <2>1. \A c \in Connectors : (Missed(c) => Missed(c)') /\ (kernel'[c] = kernel[c] \/ Missed(c)')
    BY <1>4, <1>9, <1>10
  <2>2. ASSUME client # Nobody
        PROVE  client \in Connectors /\ client' = client
    BY <1>1, <1>3, <2>2 DEF TypeOK
  <2>3. QED BY <1>1, <1>3, <1>9, <2>1, <2>2 DEF ReadInv
<1>13. AttachInv'
  BY <1>9 DEF AttachInv
<1>14. QED BY <1>6, <1>7, <1>8, <1>11, <1>12, <1>13 DEF IInv

-----------------------------------------------------------------------------
(* The delayed-EDID recovery.                                              *)

LEMMA RecoveryWaitsStep ==
  ASSUME IInv, RecoveryWaits
  PROVE  IInv'
<1>1. TypeOK /\ StepInv /\ BootInv /\ PlanInv
  BY DEF IInv
<1>2. /\ Between /\ UNCHANGED <<socket, deferred, booting, needs, event>>
      /\ pc' = [pc EXCEPT !["recovery"] = "teardown"]
  BY DEF RecoveryWaits, Goto, Between, device, probes
<1>3. /\ pc' \in [Threads -> Steps] /\ pc'["listener"] = pc["listener"]
      /\ pc'["stopper"] = pc["stopper"] /\ pc'["settle"] = pc["settle"]
      /\ pc'["recovery"] = "teardown" /\ plan' = plan
  BY <1>1, <1>2, ThreadTypes DEF Steps, Between
<1>4. StepInv' /\ BootInv'
  BY <1>1, <1>2, <1>3 DEF StepInv, BootInv
<1>5. Keeps
  <2>1. \A u \in Handlers : Waits(u) => Waits(u)'
    BY <1>1, <1>2, <1>3, ThreadTypes DEF Waits
  <2>2. \A c \in Connectors : Named(c) => Named(c)'
    BY <1>2, <1>3, <2>1 DEF Named, ListenerAgain
  <2>3. Due => Due'
    BY <1>2, <1>3, <2>1 DEF Due, ListenerAgain
  <2>4. FirstPass => FirstPass'
    BY <1>3 DEF FirstPass
  <2>5. late' = late /\ late \subseteq Connectors
    BY <1>1, <1>2 DEF Between, TypeOK
  <2>6. QED BY <2>2, <2>3, <2>4, <2>5 DEF Keeps, Missed
<1>6. plan.owner \in Handlers => pc'[plan.owner] \in AtWork
  BY <1>1, <1>3, ThreadTypes, NoPlanFacts, NobodyHandles DEF PlanInv, AtWork
<1>7. /\ deferred' \subseteq Connectors /\ booting' \in BOOLEAN /\ needs' \in BOOLEAN
      /\ socket' \subseteq Connectors /\ event' \in [Threads -> SUBSET Connectors]
  BY <1>1, <1>2 DEF TypeOK
<1>8. QED BY <1>2, <1>3, <1>4, <1>5, <1>6, <1>7, BetweenStep

LEMMA RecoveryTeardownStep ==
  ASSUME IInv, RecoveryTeardown
  PROVE  IInv'
<1>1. TypeOK /\ StepInv /\ BootInv /\ PlanInv /\ VersionInv /\ SeenInv /\ ReadInv /\ AttachInv
  BY DEF IInv
<1>2. /\ UNCHANGED <<kernel, object, deleted, plan, client, found, changes, failures, late>>
      /\ UNCHANGED <<socket, deferred, booting, event, needs>>
      /\ attached' \subseteq attached /\ client = Nobody
      /\ pc' = [pc EXCEPT !["recovery"] = "pause"]
  BY DEF RecoveryTeardown, Goto, device, probes, MainLockIsFree
<1>3. /\ pc' \in [Threads -> Steps] /\ pc'["listener"] = pc["listener"]
      /\ pc'["stopper"] = pc["stopper"] /\ pc'["settle"] = pc["settle"]
      /\ pc'["recovery"] = "pause"
  BY <1>1, <1>2, ThreadTypes DEF Steps
<1>4. TypeOK'
  BY <1>1, <1>2, <1>3 DEF TypeOK, Existing, Steps
<1>5. StepInv' /\ BootInv'
  BY <1>1, <1>2, <1>3 DEF StepInv, BootInv
<1>6. PlanInv' /\ VersionInv'
  <2>1. plan.owner \in Handlers => pc'[plan.owner] \in AtWork
    BY <1>1, <1>3, ThreadTypes, NoPlanFacts, NobodyHandles DEF PlanInv, AtWork
  <2>2. QED BY <1>1, <1>2, <2>1, PlanStays, VersionStays
<1>7. /\ \A c \in Connectors : Named(c)' <=> Named(c)
      /\ Due' <=> Due
      /\ FirstPass' <=> FirstPass
  <2>1. \A u \in Handlers : Waits(u)' <=> Waits(u)
    BY <1>1, <1>2, <1>3, ThreadTypes DEF Waits
  <2>2. ListenerAgain' <=> ListenerAgain
    BY <1>2, <1>3 DEF ListenerAgain
  <2>3. \A c \in Connectors : Named(c)' <=> Named(c)
    BY <1>2, <1>3, <2>1, <2>2 DEF Named
  <2>4. Due' <=> Due
    BY <1>2, <1>3, <2>1, <2>2 DEF Due
  <2>5. FirstPass' <=> FirstPass
    BY <1>2, <1>3 DEF FirstPass
  <2>6. QED BY <2>3, <2>4, <2>5
<1>8. Keeps
  BY <1>1, <1>2, <1>7 DEF Keeps, Missed, TypeOK
<1>9. SeenInv'
  <2>1. ASSUME NEW c \in Connectors
        PROVE  Seen(c)'
    <3>1. SameEntries(c) /\ Seen(c)
      BY <1>1, <1>2, SeenCases DEF SameEntries
    <3>2. ToRead(c) => ToRead(c)'
      BY <1>2, <3>1, SameAfter DEF ToRead
    <3>3. QED BY <1>2, <1>8, <3>1, <3>2, SeenStays
  <2>2. QED BY <2>1, SeenCases
<1>10. ReadInv'
  <2>1. DueOrAgain' <=> DueOrAgain
    BY <1>7 DEF DueOrAgain
  <2>2. QED BY <1>1, <1>2, <1>8, <2>1 DEF ReadInv, Keeps
<1>11. AttachInv'
  BY <1>1, <1>2, <1>7 DEF AttachInv
<1>12. QED BY <1>4, <1>5, <1>6, <1>9, <1>10, <1>11 DEF IInv

LEMMA RecoveryReprobeStep ==
  ASSUME IInv, RecoveryReprobe
  PROVE  IInv'
<1>1. TypeOK /\ StepInv /\ BootInv /\ PlanInv /\ VersionInv /\ SeenInv /\ ReadInv /\ AttachInv
  BY DEF IInv
<1>2. /\ UNCHANGED <<kernel, plan, client, found, changes>>
      /\ UNCHANGED <<socket, deferred, booting, event, needs>>
      /\ client = Nobody /\ HotplugMutexIsFree
      /\ pc["recovery"] = "pause" /\ pc' = [pc EXCEPT !["recovery"] = "done"]
      /\ attached' \in AttachedAfter(object', attached \ deleted)
  BY DEF RecoveryReprobe, RecoveryLocksBoth, Goto, probes, MainLockIsFree
<1>3. PICK lost \in {{}} \cup {{c} : c \in Connectors} :
        /\ \A c \in lost : failures < MaxFailures /\ kernel[c].s # "gone"
        /\ failures' = IF lost = {} THEN failures ELSE failures + 1
        /\ late' = late \cup MissedNow(lost)
        /\ deleted' = lost \cap (Existing \ deleted)
        /\ object' = [c \in Connectors |->
                        IF c \in deleted' THEN Read("off", kernel[c].v)
                        ELSE IF c \in lost THEN Read("gone", 0) ELSE kernel[c]]
  BY DEF RecoveryReprobe
<1>4. plan = NoPlan /\ plan' = NoPlan /\ plan.owner = Nobody /\ plan'.owner = plan.owner
  BY <1>1, <1>2, FreeMeansNoPlan, NoPlanFacts
<1>5. /\ pc' \in [Threads -> Steps] /\ pc'["listener"] = pc["listener"]
      /\ pc'["stopper"] = pc["stopper"] /\ pc'["settle"] = pc["settle"]
      /\ pc'["recovery"] = "done"
  BY <1>1, <1>2, ThreadTypes DEF Steps
<1>6. /\ lost \subseteq Connectors /\ late' \subseteq Connectors /\ late \subseteq late'
      /\ failures' \in 0 .. MaxFailures
  <2>1. lost \subseteq Connectors /\ late' \subseteq Connectors /\ late \subseteq late'
    BY <1>1, <1>3 DEF TypeOK, MissedNow
  <2>2. failures \in Nat /\ failures <= MaxFailures /\ MaxFailures \in Nat
    BY <1>1, ConstantsAssumption DEF TypeOK
  <2>3. lost # {} => failures < MaxFailures
    BY <1>3
  <2>4. QED BY <1>3, <2>1, <2>2, <2>3
<1>7. ASSUME NEW c \in Connectors
      PROVE  /\ kernel[c] \in Reads /\ kernel[c].v \in 0 .. changes
             /\ kernel[c].v \in 0 .. MaxChanges /\ changes \in 0 .. MaxChanges
  <2>1. changes \in 0 .. MaxChanges /\ kernel \in [Connectors -> Reads]
    BY <1>1 DEF TypeOK
  <2>2. kernel[c].v \in 0 .. changes
    BY <1>1 DEF VersionInv
  <2>3. QED BY <2>1, <2>2, ConstantsAssumption
<1>8. ASSUME NEW c \in Connectors
      PROVE  /\ object'[c] \in Reads /\ object'[c].v \in 0 .. kernel[c].v
             /\ c \notin lost => object'[c] = kernel[c] /\ c \notin deleted'
             /\ c \in lost /\ c \notin deleted' => object'[c].s = "gone"
             /\ c \in deleted' => object'[c].s = "off" /\ c \in lost
  <2>1. object'[c] = IF c \in deleted' THEN Read("off", kernel[c].v)
                     ELSE IF c \in lost THEN Read("gone", 0) ELSE kernel[c]
    BY <1>3
  <2>2. 0 \in 0 .. MaxChanges /\ "off" \in States /\ "gone" \in States
    BY ConstantsAssumption DEF States
  <2>3. Read("off", kernel[c].v) \in Reads /\ Read("gone", 0) \in Reads
    BY <1>7, <2>2, ReadFacts
  <2>4. c \in deleted' => c \in lost
    BY <1>3
  <2>5. CASE c \in deleted'
    BY <1>7, <2>1, <2>3, <2>4, <2>5, ReadFacts
  <2>6. CASE c \notin deleted' /\ c \in lost
    BY <1>7, <2>1, <2>3, <2>6, ReadFacts
  <2>7. CASE c \notin lost
    BY <1>7, <2>1, <2>4, <2>7
  <2>8. QED BY <2>5, <2>6, <2>7
<1>9. TypeOK'
  <2>1. object' \in [Connectors -> Reads]
    BY <1>3, <1>8
  <2>2. deleted' \subseteq Existing'
    BY <1>3, <1>6, <1>8 DEF Existing
  <2>3. attached' \subseteq Existing'
    BY <1>2 DEF AttachedAfter, Existing
  <2>4. QED BY <1>1, <1>2, <1>5, <1>6, <2>1, <2>2, <2>3 DEF TypeOK, Steps
<1>10. StepInv' /\ BootInv'
  BY <1>1, <1>2, <1>5 DEF StepInv, BootInv
<1>11. PlanInv' /\ VersionInv'
  <2>1. VersionInv'
    BY <1>2, <1>4, <1>7, <1>8, NoPlanFacts DEF VersionInv
  <2>2. QED BY <1>4, <2>1 DEF PlanInv
<1>12. /\ \A c \in Connectors : Named(c)' <=> Named(c)
       /\ Due' <=> Due
  <2>1. \A u \in Handlers : Waits(u)' <=> Waits(u)
    BY <1>1, <1>4, <1>5, ThreadTypes DEF Waits
  <2>2. ListenerAgain' <=> ListenerAgain
    BY <1>2, <1>5 DEF ListenerAgain
  <2>3. \A c \in Connectors : Named(c)' <=> Named(c)
    BY <1>2, <1>5, <2>1, <2>2 DEF Named
  <2>4. Due' <=> Due
    BY <1>2, <1>5, <2>1, <2>2 DEF Due
  <2>5. QED BY <2>3, <2>4
<1>13. Due \/ lost \subseteq late'
  <2>1. ~FirstPass
    BY <1>4, ThreadTypes, <1>1, NobodyHandles DEF FirstPass
  <2>2. QED BY <1>1, <1>3, <2>1, LateOrAgain DEF DueOrAgain
<1>14. SeenInv'
  <2>1. ASSUME NEW c \in Connectors
        PROVE  Seen(c)'
    <3>1. CASE c \notin lost
      BY <3>1, <1>2, <1>4, <1>8 DEF Seen, SeenIdle, Right
    <3>2. CASE c \in lost /\ c \in late'
      BY <3>2 DEF Seen, Missed
    <3>3. CASE c \in lost /\ Due
      BY <3>3, <1>4, <1>8, <1>12 DEF Seen, SeenIdle, Selectable
    <3>4. QED BY <1>13, <3>1, <3>2, <3>3
  <2>2. QED BY <2>1, SeenCases
<1>15. ReadInv'
  BY <1>2, <1>4, NoPlanFacts DEF ReadInv
<1>16. AttachInv'
  BY <1>2 DEF AttachInv, AttachedAfter
<1>17. QED BY <1>9, <1>10, <1>11, <1>14, <1>15, <1>16 DEF IInv

-----------------------------------------------------------------------------
(* SetPowerMode.                                                           *)

LEMMA ClientReadsStep ==
  ASSUME IInv, NEW k \in Connectors, ClientReads(k)
  PROVE  IInv'
<1>1. TypeOK /\ StepInv /\ BootInv /\ PlanInv /\ VersionInv /\ SeenInv /\ ReadInv /\ AttachInv
  BY DEF IInv
<1>2. /\ UNCHANGED <<kernel, object, deleted, attached, plan, changes, failures, late>>
      /\ ThreadsRest /\ k \in attached /\ client' = k /\ found' = kernel[k]
  BY DEF ClientReads, device, ThreadsRest
<1>3. TypeOK'
  <2>1. kernel[k] \in Reads
    BY <1>1 DEF TypeOK
  <2>2. QED BY <1>1, <1>2, <2>1 DEF TypeOK, ThreadsRest, Existing
<1>4. StepInv' /\ BootInv' /\ PlanInv'
  <2>1. plan.owner \in Handlers => pc'[plan.owner] \in AtWork
    BY <1>1, <1>2, NoPlanFacts, NobodyHandles DEF PlanInv, AtWork, ThreadsRest
  <2>2. QED BY <1>1, <1>2, <2>1, PlanStays, RestSteps DEF BootInv, ThreadsRest
<1>5. VersionInv'
  <2>1. object[k].v \in 0 .. kernel[k].v /\ kernel[k].v \in 0 .. changes
    BY <1>1 DEF VersionInv
  <2>2. changes \in 0 .. MaxChanges
    BY <1>1 DEF TypeOK
  <2>3. found'.v \in object[k].v .. kernel[k].v
    BY <1>2, <2>1, <2>2
  <2>4. QED BY <1>1, <1>2, <2>3 DEF VersionInv
<1>6. /\ \A c \in Connectors : Missed(c)' <=> Missed(c)
      /\ Due' <=> Due
      /\ FirstPass' <=> FirstPass
      /\ DueOrAgain' <=> DueOrAgain
  BY <1>2, RestKeeps DEF Missed
<1>7. SeenInv'
  <2>1. ASSUME NEW c \in Connectors
        PROVE  Seen(c)'
    <3>1. SameEntries(c) /\ Seen(c)
      BY <1>1, <1>2, SeenCases DEF SameEntries
    <3>2. ToRead(c) => ToRead(c)'
      BY <1>2, <3>1, SameAfter DEF ToRead
    <3>3. Keeps
      BY <1>1, <1>2, <1>6 DEF Keeps, TypeOK
    <3>4. QED BY <1>2, <3>1, <3>2, <3>3, SeenStays
  <2>2. QED BY <2>1, SeenCases
<1>8. kernel[k].s # "good" => k \in late \/ Due \/ plan # NoPlan
  <2>1. SUFFICES ASSUME kernel[k].s # "good", k \notin late, plan = NoPlan
                 PROVE  Due
    OBVIOUS
  <2>2. Seen(k)
    BY <1>1, SeenCases
  <2>3. CASE Missed(k)
    BY <2>1, <2>3 DEF Missed, Named, Due
  <2>4. CASE SeenIdle(k)
    BY <1>1, <1>2, <2>1, <2>4 DEF SeenIdle, Right, AttachInv
  <2>5. ~SeenSelected(k) /\ ~SeenProbing(k)
    BY <2>1, NoPlanFacts DEF SeenSelected, SeenProbing
  <2>6. QED BY <2>2, <2>3, <2>4, <2>5 DEF Seen
<1>9. ReadInv'
  BY <1>1, <1>2, <1>6, <1>8 DEF ReadInv
<1>10. AttachInv'
  BY <1>1, <1>2, <1>6 DEF AttachInv
<1>11. QED BY <1>3, <1>4, <1>5, <1>7, <1>9, <1>10 DEF IInv

LEMMA ClientAppliesTo ==
  ASSUME IInv, ClientApplies, NEW k \in Connectors, client = k
  PROVE  IInv'
<1>1. TypeOK /\ StepInv /\ BootInv /\ PlanInv /\ VersionInv /\ SeenInv /\ ReadInv /\ AttachInv
  BY DEF IInv
<1>2. /\ client # Nobody /\ object' = [object EXCEPT ![k] = Applied(found)]
      /\ deleted' = IF found.s = "gone" THEN deleted \cup {k} ELSE deleted \ {k}
      /\ plan' = [plan EXCEPT !.moved = @ \cup ({k} \cap plan.targets)]
      /\ client' = Nobody /\ found' = NotRead
      /\ UNCHANGED <<kernel, attached, changes, failures, late>> /\ ThreadsRest
  BY DEF ClientApplies, ThreadsRest, Nobody
<1>3. /\ k \in Connectors /\ k \in attached /\ k \in Existing
      /\ found \in Reads /\ object \in [Connectors -> Reads] /\ plan \in Plans
      /\ object[k].v \in 0 .. kernel[k].v /\ found.v \in object[k].v .. kernel[k].v
      /\ kernel[k].v \in 0 .. MaxChanges
  <2>1. k \in Connectors /\ k \in attached /\ k \in Existing
    BY <1>1, <1>2 DEF TypeOK, ReadInv
  <2>2. kernel[k].v \in 0 .. changes /\ changes \in 0 .. MaxChanges
    BY <1>1, <2>1 DEF TypeOK, VersionInv
  <2>3. found \in Reads /\ object \in [Connectors -> Reads] /\ plan \in Plans
    BY <1>1, ThreadTypes DEF TypeOK
  <2>4. object[k].v \in 0 .. kernel[k].v /\ found.v \in object[k].v .. kernel[k].v
    BY <1>1, <1>2, <2>1 DEF VersionInv
  <2>5. QED BY <2>1, <2>2, <2>3, <2>4, ConstantsAssumption
<1>4. /\ found # NotRead /\ Applied(found) \in Reads /\ Applied(found).v = found.v
      /\ Applied(found).s # "gone"
      /\ found.s # "gone" => Applied(found) = found
  <2>1. found # NotRead
    BY <1>3, ReadFacts
  <2>2. QED BY <1>3, <2>1, AppliedFacts
<1>5. /\ object' \in [Connectors -> Reads] /\ object'[k] = Applied(found)
      /\ \A c \in Connectors \ {k} : object'[c] = object[c] /\ (c \in deleted' <=> c \in deleted)
      /\ Existing' = Existing
      /\ k \in deleted' <=> found.s = "gone"
  <2>1. /\ object' \in [Connectors -> Reads] /\ object'[k] = Applied(found)
        /\ \A c \in Connectors \ {k} : object'[c] = object[c] /\ (c \in deleted' <=> c \in deleted)
        /\ k \in deleted' <=> found.s = "gone"
    BY <1>2, <1>3, <1>4
  <2>2. QED BY <2>1, <1>3, <1>4 DEF Existing
<1>6. /\ plan' \in Plans /\ plan'.owner = plan.owner /\ plan'.phase = plan.phase
      /\ plan'.targets = plan.targets /\ plan'.known = plan.known /\ plan'.todo = plan.todo
      /\ plan'.new = plan.new /\ plan'.present = plan.present /\ plan'.ok = plan.ok
      /\ plan'.erred = plan.erred /\ plan'.results = plan.results /\ plan'.added = plan.added
      /\ plan'.moved = plan.moved \cup ({k} \cap plan.targets)
  <2>1. plan.moved \cup ({k} \cap plan.targets) \subseteq Connectors
    BY <1>3, PlansFields DEF PlanFields
  <2>2. QED BY <1>2, <1>3, <2>1 DEF Plans
<1>7. (plan' = NoPlan) <=> (plan = NoPlan)
  <2>1. plan = NoPlan => plan.targets = {}
    BY NoPlanFacts
  <2>2. plan = NoPlan => plan' = plan
    BY <2>1, <1>2, <1>3 DEF Plans
  <2>3. plan # NoPlan => plan.phase # "none"
    BY <1>1 DEF PlanInv
  <2>4. QED BY <2>2, <2>3, <1>6, NoPlanFacts
<1>8. TypeOK'
  <2>1. deleted' \subseteq Existing'
    BY <1>1, <1>2, <1>3, <1>5 DEF TypeOK
  <2>2. QED BY <1>1, <1>2, <1>5, <1>6, <2>1, ReadFacts DEF TypeOK, Plans, ThreadsRest
<1>9. StepInv' /\ BootInv'
  BY <1>1, <1>2, <1>7, RestSteps DEF BootInv, ThreadsRest
<1>10. PlanInv'
  <2>1. CASE plan = NoPlan
    BY <2>1, <1>7 DEF PlanInv
  <2>2. CASE plan # NoPlan
    <3>1. ASSUME NEW c \in Existing' \ plan'.known
          PROVE  c \in deleted' \cup plan'.moved
      <4>1. c \in Existing \ plan.known /\ c \in Connectors
        BY <1>5, <1>6 DEF Existing
      <4>2. c \in plan.targets /\ c \in deleted \cup plan.moved
        BY <1>1, <2>2, <4>1 DEF PlanInv
      <4>3. QED BY <4>1, <4>2, <1>5, <1>6
    <3>2. plan.owner \in Handlers /\ pc'[plan.owner] \in {"handle", "again"}
      BY <1>1, <1>2, <2>2 DEF PlanInv, ThreadsRest
    <3>3. plan'.moved \subseteq plan'.targets
      BY <1>1, <1>6, <2>2 DEF PlanInv
    <3>4. QED BY <1>1, <1>5, <1>6, <2>2, <3>1, <3>2, <3>3 DEF PlanInv
  <2>3. QED BY <2>1, <2>2
<1>11. VersionInv'
  <2>1. ASSUME NEW c \in Connectors
        PROVE  /\ kernel[c].v \in 0 .. changes /\ object'[c].v \in 0 .. kernel[c].v
               /\ plan'.results[c] # NotRead =>
                    /\ plan'.results[c].v \in 0 .. kernel[c].v
                    /\ c \notin plan'.moved => object'[c].v <= plan'.results[c].v
               /\ plan'.added[c] # NotRead => plan'.added[c].v \in 0 .. kernel[c].v
    <3>1. CASE c = k
      <4>1. plan.results[k] # NotRead => k \in plan'.moved
        BY <1>1, <1>3, <1>6, NoPlanFacts DEF PlanInv
      <4>2. object'[k].v \in 0 .. kernel[k].v
        BY <1>3, <1>4, <1>5
      <4>3. QED BY <1>1, <1>6, <3>1, <4>1, <4>2 DEF VersionInv
    <3>2. CASE c # k
      BY <1>1, <1>5, <1>6, <3>2 DEF VersionInv
    <3>3. QED BY <3>1, <3>2
  <2>2. QED BY <1>2, <2>1 DEF VersionInv
<1>12. /\ \A c \in Connectors : Missed(c)' <=> Missed(c)
       /\ Due' <=> Due
       /\ FirstPass' <=> FirstPass
       /\ DueOrAgain' <=> DueOrAgain
  BY <1>2, <1>6, RestKeeps DEF Missed
<1>13. /\ \/ Missed(k) \/ found.s = kernel[k].s
          \/ found.s = "unknown" /\ DueOrAgain
       /\ found.s # "good" => k \in late \/ Due \/ plan # NoPlan
  BY <1>1, <1>2 DEF ReadInv
<1>14. Seen(k)'
  <2>1. CASE Missed(k)
    BY <2>1, <1>3, <1>12 DEF Seen
  <2>2. CASE plan = NoPlan /\ ~Missed(k)
    <3>1. plan.owner \notin Handlers
      BY <2>2, NoPlanFacts, NobodyHandles
    <3>2. DueOrAgain => Due
      BY <3>1 DEF DueOrAgain, FirstPass, Handlers
    <3>3. CASE found.s = "gone"
      <4>1. Due
        BY <3>3, <2>2, <1>13 DEF Missed
      <4>2. QED BY <4>1, <3>3, <2>2, <1>5, <1>7, <1>12 DEF Seen, SeenIdle, Selectable
    <3>4. CASE found.s # "gone" /\ found.s = kernel[k].s
      BY <3>4, <2>2, <1>2, <1>4, <1>5, <1>7 DEF Seen, SeenIdle, Right
    <3>5. CASE found.s = "unknown" /\ DueOrAgain
      BY <3>5, <3>2, <2>2, <1>4, <1>5, <1>7, <1>12 DEF Seen, SeenIdle, Selectable
    <3>6. QED BY <3>3, <3>4, <3>5, <2>2, <1>13
  <2>3. CASE plan.phase = "resources" /\ ~Missed(k)
    <3>1. CASE found.s = kernel[k].s
      BY <3>1, <2>3, <1>2, <1>4, <1>5, <1>6 DEF Seen, SeenSelected, Right
    <3>2. CASE found.s = "unknown" /\ DueOrAgain
      BY <3>2, <2>3, <1>4, <1>5, <1>6, <1>12 DEF Seen, SeenSelected
    <3>3. QED BY <3>1, <3>2, <2>3, <1>13
  <2>4. CASE plan.phase = "probe" /\ ~Missed(k)
    <3>1. k \notin ProbedUnmoved' /\ (Dead(k)' <=> found.s = "gone")
      <4>1. k \notin ProbedUnmoved'
        BY <1>6 DEF ProbedUnmoved, Probed
      <4>2. QED BY <4>1, <1>5 DEF Dead, Lost
    <3>2. k \in Existing'
      BY <1>3, <1>5
    <3>3. Stale(k)' <=> plan.ok /\ (found.s = "gone" \/ k \notin plan.present)
      BY <3>1, <3>2, <1>6 DEF Stale
    <3>4. plan.ok => (k \in plan.present <=> kernel[k].s # "gone")
      BY <1>1, <1>3, <2>4 DEF ReadInv
    <3>5. plan.added[k] # NotRead => plan.ok /\ k \in plan.present
      BY <1>1, <1>3, NoPlanFacts DEF PlanInv
    <3>6. kernel[k].s = "gone" => ~Joins(k)'
      BY <3>4, <3>5, <1>6 DEF Joins
    <3>7. ~Joins(k)' /\ Stale(k)' => After(k)'.s = "gone" /\ ~DeadAfter(k)'
      BY ReadFacts DEF After, DeadAfter
    <3>8. ~Stale(k)' => After(k)' = Applied(found) /\ (DeadAfter(k)' <=> found.s = "gone")
      BY <3>1, <3>2, <1>5 DEF After, DeadAfter, Joins
    <3>9. CASE found.s = "gone" /\ kernel[k].s = "gone"
      <4>1. CASE plan.ok
        <5>1. Right(k, After(k).s, DeadAfter(k))'
          BY <4>1, <3>3, <3>6, <3>7, <3>9, <1>2 DEF Right
        <5>2. QED BY <5>1, <2>4, <1>6 DEF Seen, SeenProbing
      <4>2. CASE ~plan.ok
        <5>1. DeadAfter(k)' /\ ~Stale(k)'
          BY <4>2, <3>3, <3>8, <3>9
        <5>2. plan.erred /\ DueOrAgain
          BY <4>2, <2>4, <1>1, <1>3, NoPlanFacts DEF PlanInv, ReadInv, Missed
        <5>3. Due' \/ Again(k)'
          BY <5>2, <1>6, <1>12 DEF DueOrAgain, Again
        <5>4. Selectable(k, After(k).s, DeadAfter(k))'
          BY <5>1 DEF Selectable
        <5>5. QED BY <5>3, <5>4, <2>4, <1>6 DEF Seen, SeenProbing
      <4>3. QED BY <4>1, <4>2
    <3>10. CASE found.s # "gone" /\ found.s = kernel[k].s
      <4>1. ~Stale(k)'
        BY <3>3, <3>4, <3>10
      <4>2. Right(k, After(k).s, DeadAfter(k))'
        BY <4>1, <3>8, <3>10, <1>2, <1>4 DEF Right
      <4>3. QED BY <4>2, <2>4, <1>6 DEF Seen, SeenProbing
    <3>11. CASE found.s = "unknown" /\ DueOrAgain
      <4>1. CASE Stale(k)'
        <5>1. kernel[k].s = "gone"
          BY <4>1, <3>3, <3>4, <3>11
        <5>2. Right(k, After(k).s, DeadAfter(k))'
          BY <4>1, <5>1, <3>6, <3>7, <1>2 DEF Right
        <5>3. QED BY <5>2, <2>4, <1>6 DEF Seen, SeenProbing
      <4>2. CASE ~Stale(k)'
        <5>1. After(k)'.s = "unknown"
          BY <4>2, <3>8, <3>11, <1>4
        <5>2. Due' \/ Again(k)'
          BY <5>1, <3>11, <1>12 DEF DueOrAgain, Again
        <5>3. Selectable(k, After(k).s, DeadAfter(k))'
          BY <5>1 DEF Selectable
        <5>4. QED BY <5>2, <5>3, <2>4, <1>6 DEF Seen, SeenProbing
      <4>3. QED BY <4>1, <4>2
    <3>12. QED BY <3>9, <3>10, <3>11, <2>4, <1>13
  <2>5. plan = NoPlan \/ plan.phase \in {"resources", "probe"}
    BY <1>1 DEF PlanInv
  <2>6. QED BY <2>1, <2>2, <2>3, <2>4, <2>5
<1>15. SeenInv'
  <2>1. ASSUME NEW c \in Connectors, c # k
        PROVE  Seen(c)'
    <3>1. SameEntries(c) /\ Seen(c)
      BY <1>1, <1>5, <1>6, <2>1, SeenCases DEF SameEntries
    <3>2. ToRead(c) => ToRead(c)'
      BY <1>6, <2>1, <3>1, SameAfter DEF ToRead
    <3>3. Keeps
      BY <1>1, <1>2, <1>12 DEF Keeps, TypeOK
    <3>4. QED BY <1>2, <1>6, <1>7, <3>1, <3>2, <3>3, SeenStays
  <2>2. QED BY <1>14, <2>1, SeenCases
<1>16. ReadInv'
  BY <1>1, <1>2, <1>6, <1>12 DEF ReadInv
<1>17. AttachInv'
  <2>1. ASSUME NEW c \in attached', object'[c].s # "good"
        PROVE  c \in late' \/ Due' \/ plan' # NoPlan
    <3>1. c \in attached /\ c \in Connectors
      BY <1>1, <1>2, <2>1 DEF TypeOK, Existing
    <3>2. CASE c = k
      BY <3>2, <2>1, <1>2, <1>4, <1>5, <1>7, <1>12, <1>13
    <3>3. CASE c # k
      BY <3>1, <3>3, <2>1, <1>1, <1>2, <1>5, <1>7, <1>12 DEF AttachInv
    <3>4. QED BY <3>2, <3>3
  <2>2. QED BY <2>1 DEF AttachInv
<1>18. QED BY <1>8, <1>9, <1>10, <1>11, <1>15, <1>16, <1>17 DEF IInv

LEMMA ClientAppliesStep ==
  ASSUME IInv, ClientApplies
  PROVE  IInv'
<1>1. client \in Connectors
  BY DEF IInv, TypeOK, ClientApplies
<1>2. QED BY <1>1, ClientAppliesTo

-----------------------------------------------------------------------------
(* HandleUEventHotplug.                                                    *)

LEMMA Phase1Step ==
  ASSUME IInv, NEW t \in Handlers, Phase1(t)
  PROVE  IInv'
<1>1. TypeOK /\ StepInv /\ BootInv /\ PlanInv /\ VersionInv /\ SeenInv /\ ReadInv /\ AttachInv
  BY DEF IInv
<1> DEFINE ids == event[t] \cup deferred
<1>2. /\ UNCHANGED <<kernel, object, deleted, attached, client, found, changes, failures, late>>
      /\ UNCHANGED <<socket, booting, pc, event, needs>>
      /\ pc[t] \in AtWork /\ HotplugMutexIsFree /\ ~booting /\ client = Nobody
      /\ deferred' = {}
      /\ plan' = [NoPlan EXCEPT !.owner = t, !.phase = "resources",
                                !.targets = Selected(ids), !.known = Existing \ deleted]
  BY DEF Phase1, Handles, MainLockIsFree, device, probes, AtWork
<1>3. plan = NoPlan /\ plan.owner = Nobody /\ plan.phase = "none"
  BY <1>1, <1>2, FreeMeansNoPlan, NoPlanFacts
<1>4. Selected(ids) \subseteq Existing /\ Existing \subseteq Connectors
  BY DEF Selected, Existing
<1>5. /\ plan' \in Plans /\ plan'.owner = t /\ plan'.phase = "resources"
      /\ plan'.targets = Selected(ids) /\ plan'.known = Existing \ deleted
      /\ plan'.moved = {} /\ plan'.todo = {} /\ plan'.new = {} /\ plan'.ok = FALSE
      /\ plan' # NoPlan
      /\ \A c \in Connectors : plan'.results[c] = NotRead /\ plan'.added[c] = NotRead
  <2>1. Selected(ids) \in SUBSET Connectors /\ Existing \ deleted \in SUBSET Connectors
    BY <1>4
  <2>2. NoPlan \in Plans
    BY NoPlanFacts
  <2>3. /\ plan' \in Plans /\ plan'.owner = t /\ plan'.phase = "resources"
        /\ plan'.targets = Selected(ids) /\ plan'.known = Existing \ deleted
        /\ plan'.moved = NoPlan.moved /\ plan'.todo = NoPlan.todo /\ plan'.new = NoPlan.new
        /\ plan'.ok = NoPlan.ok /\ plan'.results = NoPlan.results /\ plan'.added = NoPlan.added
    BY <1>2, <2>1, <2>2 DEF Plans
  <2>4. QED BY <2>3, NoPlanFacts
<1> HIDE DEF ids
<1>6. TypeOK'
  BY <1>1, <1>2, <1>5 DEF TypeOK, Plans, Existing
<1>7. StepInv' /\ BootInv'
  BY <1>1, <1>2 DEF StepInv, BootInv
<1>8. PlanInv'
  <2>1. Existing \cap deleted \subseteq Selected(ids)
    BY DEF Selected
  <2>2. Existing' = Existing /\ deleted' = deleted /\ pc'[t] \in {"handle", "again"}
    BY <1>2 DEF Existing, AtWork
  <2>3. QED BY <1>4, <1>5, <2>1, <2>2 DEF PlanInv
<1>9. VersionInv'
  BY <1>1, <1>2, <1>5 DEF VersionInv
<1>10. ASSUME NEW c \in Connectors, Named(c), c \notin ids
       PROVE  Named(c)'
  <2>1. CASE \E u \in Handlers : Waits(u) /\ c \in event[u]
    <3>1. PICK u \in Handlers : Waits(u) /\ c \in event[u]
      BY <2>1
    <3>2. u # t
      BY <3>1, <1>10 DEF ids
    <3>3. Waits(u)' /\ event'[u] = event[u]
      BY <3>1, <3>2, <1>2, <1>5 DEF Waits
    <3>4. QED BY <3>1, <3>3 DEF Named
  <2>2. CASE c \in socket \/ (ListenerAgain /\ c \in event["listener"])
                 \/ (pc["settle"] = "sleep" /\ c \in event["settle"])
    BY <2>2, <1>2 DEF Named, ListenerAgain
  <2>3. c \notin deferred
    BY <1>10 DEF ids
  <2>4. QED BY <1>10, <2>1, <2>2, <2>3 DEF Named
<1>11. SeenInv'
  <2>1. ASSUME NEW c \in Connectors
        PROVE  Seen(c)'
    <3>1. \/ c \in Selected(ids) \/ Right(c, object[c].s, c \in deleted) \/ object[c].s = "gone"
          \/ kernel[c].s = "gone" \/ (Missed(c) /\ c \notin ids)
      <4>1. CASE SeenIdle(c)
        <5>1. CASE Selectable(c, object[c].s, c \in deleted)
          BY <5>1, <1>1 DEF Selectable, Selected, Existing, TypeOK
        <5>2. QED BY <4>1, <5>1 DEF SeenIdle
      <4>2. CASE Missed(c) /\ c \in ids
        BY <4>2 DEF Selected, Existing
      <4>3. ~SeenSelected(c) /\ ~SeenProbing(c)
        BY <1>3 DEF SeenSelected, SeenProbing
      <4>4. Seen(c)
        BY <1>1, SeenCases
      <4>5. QED BY <4>1, <4>2, <4>3, <4>4 DEF Seen
    <3>2. Missed(c) /\ c \notin ids => Missed(c)'
      BY <1>2, <1>10 DEF Missed
    <3>3. QED BY <1>2, <1>5, <3>1, <3>2 DEF Seen, SeenSelected, Right
  <2>2. QED BY <2>1, SeenCases
<1>12. ReadInv'
  BY <1>2, <1>5 DEF ReadInv
<1>13. AttachInv'
  BY <1>5 DEF AttachInv
<1>14. QED BY <1>6, <1>7, <1>8, <1>9, <1>11, <1>12, <1>13 DEF IInv

(* While a handling probes, nothing moves but its plan, and what it learns *)
(* of failures.                                                            *)
OnlyPlan ==
  /\ UNCHANGED <<kernel, object, deleted, attached, client, found, changes>> /\ ThreadsRest
  /\ plan'.owner = plan.owner /\ plan # NoPlan /\ plan' # NoPlan
  /\ plan'.targets = plan.targets /\ plan'.known = plan.known /\ plan'.moved = plan.moved

LEMMA OnlyPlanStep ==
  ASSUME IInv, OnlyPlan, plan' \in Plans, failures' \in 0 .. MaxFailures,
         late \subseteq late', late' \subseteq Connectors
  PROVE  /\ TypeOK' /\ StepInv' /\ BootInv' /\ AttachInv' /\ Keeps
         /\ \A c \in Connectors : Named(c)' <=> Named(c)
         /\ Due' <=> Due
         /\ FirstPass' <=> FirstPass
         /\ DueOrAgain' <=> DueOrAgain
         /\ Existing' = Existing
         /\ plan.owner \in Handlers /\ pc'[plan.owner] \in {"handle", "again"}
<1>1. TypeOK /\ StepInv /\ BootInv /\ PlanInv /\ AttachInv
  BY DEF IInv
<1>2. Existing' = Existing
  BY DEF OnlyPlan, Existing
<1>3. TypeOK'
  BY <1>1, <1>2 DEF TypeOK, Plans, OnlyPlan, ThreadsRest
<1>4. StepInv' /\ BootInv'
  BY <1>1, RestSteps DEF BootInv, OnlyPlan, ThreadsRest
<1>5. AttachInv'
  BY DEF AttachInv, OnlyPlan
<1>6. /\ \A c \in Connectors : Named(c)' <=> Named(c)
      /\ Due' <=> Due
      /\ FirstPass' <=> FirstPass
      /\ DueOrAgain' <=> DueOrAgain
  BY RestKeeps DEF OnlyPlan
<1>7. Keeps
  BY <1>6 DEF Keeps, Missed
<1>8. plan.owner \in Handlers /\ pc'[plan.owner] \in {"handle", "again"}
  BY <1>1 DEF PlanInv, OnlyPlan, ThreadsRest
<1>9. QED BY <1>2, <1>3, <1>4, <1>5, <1>6, <1>7, <1>8

LEMMA ResourcesRead ==
  ASSUME IInv, plan.phase = "resources", OnlyPlan, plan' \in Plans, UNCHANGED <<failures, late>>,
         NEW ids \in SUBSET Connectors,
         \A c \in Connectors : c \in ids <=> kernel[c].s # "gone",
         plan' = [plan EXCEPT !.phase = "probe", !.ok = TRUE, !.present = ids,
                              !.new = ids \ plan.known, !.todo = plan.targets \cap ids]
  PROVE  IInv'
<1>1. TypeOK /\ PlanInv /\ VersionInv /\ SeenInv /\ ReadInv
  BY DEF IInv
<1>2. /\ plan'.phase = "probe" /\ plan'.ok = TRUE /\ plan'.present = ids
      /\ plan'.new = ids \ plan.known /\ plan'.todo = plan.targets \cap ids
      /\ plan'.erred = plan.erred /\ plan'.results = plan.results /\ plan'.added = plan.added
  BY <1>1, ThreadTypes DEF Plans
<1>3. /\ TypeOK' /\ StepInv' /\ BootInv' /\ AttachInv' /\ Keeps
      /\ Due' <=> Due
      /\ FirstPass' <=> FirstPass
      /\ DueOrAgain' <=> DueOrAgain
      /\ Existing' = Existing
      /\ plan.owner \in Handlers /\ pc'[plan.owner] \in {"handle", "again"}
  <2>1. late \subseteq Connectors /\ failures \in 0 .. MaxFailures
    BY <1>1 DEF TypeOK
  <2>2. QED BY <2>1, OnlyPlanStep
<1>4. /\ plan.targets \subseteq Existing /\ plan.known \subseteq Existing
      /\ plan.moved \subseteq plan.targets /\ Existing \ plan.known \subseteq plan.targets
      /\ \A c \in Existing \ plan.known : c \in deleted \cup plan.moved
      /\ \A c \in Connectors : plan.results[c] = NotRead /\ plan.added[c] = NotRead
  BY <1>1 DEF PlanInv, OnlyPlan
<1>5. PlanInv'
  BY <1>2, <1>3, <1>4 DEF PlanInv, OnlyPlan
<1>6. VersionInv'
  BY <1>1, <1>2, <1>4 DEF VersionInv, OnlyPlan
<1>7. ASSUME NEW c \in Connectors
      PROVE  Seen(c)'
  <2>1. /\ c \notin ProbedUnmoved' /\ (Dead(c)' <=> c \in deleted) /\ ~Joins(c)'
        /\ Stale(c)' <=> (c \in Existing /\ (c \in deleted \/ c \notin ids))
    <3>1. c \notin ProbedUnmoved'
      BY <1>2, <1>4 DEF ProbedUnmoved, Probed
    <3>2. Dead(c)' <=> c \in deleted
      BY <3>1 DEF Dead, Lost, OnlyPlan
    <3>3. ~Joins(c)'
      BY <1>2, <1>4 DEF Joins
    <3>4. QED BY <3>1, <3>2, <3>3, <1>2, <1>3 DEF Stale
  <2>2. /\ Stale(c)' => After(c)'.s = "gone" /\ ~DeadAfter(c)'
        /\ ~Stale(c)' => After(c)' = object[c] /\ ~DeadAfter(c)'
    <3>1. c \in deleted => c \in Existing
      BY <1>1 DEF TypeOK
    <3>2. QED BY <2>1, <3>1, ReadFacts DEF After, DeadAfter, OnlyPlan
  <2>3. c \in ids <=> kernel[c].s # "gone"
    OBVIOUS
  <2>4. kernel'[c] = kernel[c]
    BY DEF OnlyPlan
  <2>5. CASE Missed(c)
    BY <2>5, <1>3 DEF Keeps, Seen
  <2>6. CASE Stale(c)' /\ c \notin ids
    <3>1. Right(c, After(c).s, DeadAfter(c))'
      BY <2>2, <2>3, <2>4, <2>6 DEF Right
    <3>2. QED BY <3>1, <1>2 DEF Seen, SeenProbing
  <2>7. CASE object[c].s = "gone"
    <3>1. c \notin Existing /\ ~Stale(c)'
      BY <2>1, <2>7 DEF Existing
    <3>2. CASE c \in ids
      BY <3>1, <3>2, <1>2, <1>3, <1>4 DEF Seen, SeenProbing, ToRead
    <3>3. CASE c \notin ids
      <4>1. Right(c, After(c).s, DeadAfter(c))'
        BY <2>2, <2>3, <2>4, <2>7, <3>1, <3>3 DEF Right
      <4>2. QED BY <4>1, <1>2 DEF Seen, SeenProbing
    <3>4. QED BY <3>2, <3>3
  <2>8. CASE c \in ids /\ object[c].s # "gone"
    <3>1. CASE c \in plan.targets \ plan.moved
      BY <3>1, <2>8, <1>2 DEF Seen, SeenProbing, ToRead, OnlyPlan
    <3>2. CASE Right(c, object[c].s, c \in deleted)
      <4>1. Right(c, After(c).s, DeadAfter(c))'
        BY <3>2, <2>1, <2>2, <2>4, <2>8 DEF Right
      <4>2. QED BY <4>1, <1>2 DEF Seen, SeenProbing
    <3>3. CASE Due /\ c \in deleted
      <4>1. Stale(c)'
        BY <3>3, <2>1, <1>1 DEF TypeOK
      <4>2. Selectable(c, After(c).s, DeadAfter(c))'
        BY <4>1, <2>2 DEF Selectable
      <4>3. QED BY <4>2, <3>3, <1>2, <1>3 DEF Seen, SeenProbing
    <3>4. CASE DueOrAgain /\ object[c].s = "unknown" /\ c \notin deleted
      <4>1. After(c)'.s = "unknown"
        BY <3>4, <2>1, <2>2, <2>8
      <4>2. Due' \/ Again(c)'
        BY <3>4, <4>1, <1>3 DEF DueOrAgain, Again
      <4>3. Selectable(c, After(c).s, DeadAfter(c))'
        BY <4>1 DEF Selectable
      <4>4. QED BY <4>2, <4>3, <1>2 DEF Seen, SeenProbing
    <3>5. SeenSelected(c) \/ Missed(c)
      BY <1>1, SeenCases, NoPlanFacts DEF Seen, SeenIdle, SeenProbing
    <3>6. kernel[c].s # "gone"
      BY <2>3, <2>8
    <3>7. QED BY <2>5, <2>8, <3>1, <3>2, <3>3, <3>4, <3>5, <3>6 DEF SeenSelected
  <2>9. QED BY <2>1, <2>6, <2>7, <2>8 DEF Existing
<1>8. SeenInv'
  BY <1>7, SeenCases
<1>9. ReadInv'
  <2>1. client # Nobody => client \in Connectors /\ client' = client
    BY <1>1 DEF TypeOK, OnlyPlan
  <2>2. QED BY <1>1, <1>2, <1>3, <1>4, <2>1 DEF ReadInv, OnlyPlan, Keeps
<1>10. QED BY <1>3, <1>5, <1>6, <1>8, <1>9 DEF IInv

LEMMA ResourcesFail ==
  ASSUME IInv, plan.phase = "resources", OnlyPlan, plan' \in Plans,
         failures' \in 0 .. MaxFailures, late' = late \cup MissedNow(Connectors),
         plan' = [plan EXCEPT !.phase = "probe", !.erred = TRUE, !.todo = plan.targets]
  PROVE  IInv'
<1>1. TypeOK /\ PlanInv /\ VersionInv /\ SeenInv /\ ReadInv
  BY DEF IInv
<1>2. /\ plan'.phase = "probe" /\ plan'.erred = TRUE /\ plan'.todo = plan.targets
      /\ plan'.new = plan.new /\ plan'.present = plan.present /\ plan'.ok = plan.ok
      /\ plan'.results = plan.results /\ plan'.added = plan.added
  BY <1>1, ThreadTypes DEF Plans
<1>3. late \subseteq late' /\ late' \subseteq Connectors
  BY <1>1 DEF TypeOK, MissedNow
<1>4. /\ TypeOK' /\ StepInv' /\ BootInv' /\ AttachInv' /\ Keeps
      /\ Due' <=> Due
      /\ FirstPass' <=> FirstPass
      /\ DueOrAgain' <=> DueOrAgain
      /\ Existing' = Existing
      /\ plan.owner \in Handlers /\ pc'[plan.owner] \in {"handle", "again"}
  BY <1>3, OnlyPlanStep
<1>5. /\ plan.targets \subseteq Existing /\ plan.known \subseteq Existing
      /\ plan.moved \subseteq plan.targets /\ Existing \ plan.known \subseteq plan.targets
      /\ \A c \in Existing \ plan.known : c \in deleted \cup plan.moved
      /\ \A c \in Connectors : plan.results[c] = NotRead /\ plan.added[c] = NotRead
      /\ plan.new = {} /\ ~plan.ok
  BY <1>1 DEF PlanInv, OnlyPlan
<1>6. DueOrAgain \/ late' = Connectors
  BY <1>1, <1>3, LateOrAgain
<1>7. PlanInv'
  BY <1>2, <1>4, <1>5 DEF PlanInv, OnlyPlan
<1>8. VersionInv'
  BY <1>1, <1>2, <1>5 DEF VersionInv, OnlyPlan
<1>9. ASSUME NEW c \in Connectors
      PROVE  Seen(c)'
  <2>1. /\ c \notin ProbedUnmoved' /\ ~Stale(c)' /\ ~Joins(c)'
        /\ After(c)' = object[c]
        /\ DeadAfter(c)' <=> c \in deleted
    <3>1. c \notin ProbedUnmoved'
      BY <1>2, <1>5 DEF ProbedUnmoved, Probed
    <3>2. ~Stale(c)' /\ ~Joins(c)'
      BY <1>2, <1>5 DEF Stale, Joins
    <3>3. QED BY <3>1, <3>2 DEF Dead, Lost, After, DeadAfter, OnlyPlan
  <2>2. kernel'[c] = kernel[c]
    BY DEF OnlyPlan
  <2>3. CASE Missed(c) \/ late' = Connectors
    BY <2>3, <1>4 DEF Keeps, Seen, Missed
  <2>4. CASE SeenSelected(c) /\ DueOrAgain
    <3>1. Due' \/ Again(c)'
      BY <2>4, <1>2, <1>4 DEF DueOrAgain, Again
    <3>2. CASE c \in plan.targets \ plan.moved
      BY <3>2, <1>2 DEF Seen, SeenProbing, ToRead, OnlyPlan
    <3>3. CASE Right(c, object[c].s, c \in deleted)
      <4>1. Right(c, After(c).s, DeadAfter(c))'
        BY <3>3, <2>1, <2>2 DEF Right
      <4>2. QED BY <4>1, <1>2 DEF Seen, SeenProbing
    <3>4. CASE c \in deleted \/ object[c].s \in {"gone", "unknown"} \/ kernel[c].s = "gone"
      <4>1. Selectable(c, After(c).s, DeadAfter(c))'
        BY <3>4, <2>1, <2>2 DEF Selectable
      <4>2. QED BY <3>1, <4>1, <1>2 DEF Seen, SeenProbing
    <3>5. QED BY <2>4, <3>2, <3>3, <3>4 DEF SeenSelected
  <2>5. SeenSelected(c) \/ Missed(c)
    BY <1>1, SeenCases, NoPlanFacts DEF Seen, SeenIdle, SeenProbing
  <2>6. QED BY <1>6, <2>3, <2>4, <2>5
<1>10. SeenInv'
  BY <1>9, SeenCases
<1>11. ReadInv'
  <2>1. client # Nobody => client \in Connectors /\ client' = client
    BY <1>1 DEF TypeOK, OnlyPlan
  <2>2. QED BY <1>1, <1>2, <1>4, <1>5, <1>6, <2>1 DEF ReadInv, OnlyPlan, Keeps
<1>12. QED BY <1>4, <1>7, <1>8, <1>10, <1>11 DEF IInv

LEMMA ProbeResourcesStep ==
  ASSUME IInv, ProbeResources
  PROVE  IInv'
<1>1. /\ TypeOK /\ plan \in Plans /\ plan.phase = "resources" /\ plan # NoPlan
      /\ UNCHANGED <<kernel, object, deleted, attached, client, found, changes>> /\ ThreadsRest
  BY ThreadTypes, NoPlanFacts DEF IInv, ProbeResources, device, probes, ThreadsRest
<1> DEFINE ids == {c \in Connectors : kernel[c].s # "gone"}
<1>2. CASE /\ plan' = [plan EXCEPT !.phase = "probe", !.ok = TRUE, !.present = ids,
                                   !.new = ids \ plan.known, !.todo = plan.targets \cap ids]
           /\ UNCHANGED <<failures, late>>
  <2>1. ids \in SUBSET Connectors /\ plan.targets \cap ids \in SUBSET Connectors
    OBVIOUS
  <2>2. plan' \in Plans /\ OnlyPlan
    <3> HIDE DEF ids
    <3>1. plan' \in Plans /\ plan'.phase = "probe"
      BY <1>1, <1>2, <2>1 DEF Plans
    <3>2. QED BY <1>1, <1>2, <3>1, NoPlanFacts DEF Plans, OnlyPlan
  <2>3. ids \in SUBSET Connectors /\ \A c \in Connectors : c \in ids <=> kernel[c].s # "gone"
    OBVIOUS
  <2>4. QED
    <3> HIDE DEF ids
    <3> QED BY <1>1, <1>2, <2>2, <2>3, ResourcesRead
<1>3. CASE /\ failures < MaxFailures /\ failures' = failures + 1
           /\ late' = late \cup MissedNow(Connectors)
           /\ plan' = [plan EXCEPT !.phase = "probe", !.erred = TRUE, !.todo = plan.targets]
  <2>1. plan' \in Plans /\ OnlyPlan
    <3>1. plan' \in Plans /\ plan'.phase = "probe"
      BY <1>1, <1>3 DEF Plans
    <3>2. QED BY <1>1, <1>3, <3>1, NoPlanFacts DEF Plans, OnlyPlan
  <2>2. failures' \in 0 .. MaxFailures
    BY <1>1, <1>3, ConstantsAssumption DEF TypeOK
  <2>3. QED BY <1>1, <1>3, <2>1, <2>2, ResourcesFail
<1>4. QED BY <1>2, <1>3 DEF ProbeResources

LEMMA ReadOutcome ==
  ASSUME TypeOK, VersionInv, NEW k \in Connectors, NEW r \in Reads, ReadsConnector(k, r)
  PROVE  /\ late \subseteq late' /\ late' \subseteq Connectors
         /\ failures' \in 0 .. MaxFailures
         /\ r # NotRead /\ r.v = kernel[k].v /\ r.v \in 0 .. kernel[k].v
         /\ r = kernel[k] \/ (r.s = "gone" /\ (DueOrAgain \/ k \in late'))
<1>1. /\ kernel[k] \in Reads /\ kernel[k].v \in 0 .. changes /\ changes \in 0 .. MaxChanges
      /\ late \subseteq Connectors /\ failures \in 0 .. MaxFailures
  BY DEF TypeOK, VersionInv
<1>2. kernel[k].v \in 0 .. kernel[k].v /\ kernel[k].v # -1
  BY <1>1, ConstantsAssumption
<1>3. CASE r = kernel[k] /\ UNCHANGED <<failures, late>>
  BY <1>1, <1>2, <1>3, ReadFacts
<1>4. CASE /\ failures < MaxFailures /\ failures' = failures + 1
           /\ r = Read("gone", kernel[k].v) /\ late' = late \cup MissedNow({k})
  <2>1. r.s = "gone" /\ r.v = kernel[k].v
    BY <1>4, ReadFacts
  <2>2. DueOrAgain \/ k \in late'
    BY <1>4, LateOrAgain
  <2>3. late \subseteq late' /\ late' \subseteq Connectors
    BY <1>1, <1>4 DEF MissedNow
  <2>4. failures' \in 0 .. MaxFailures
    BY <1>1, <1>4, ConstantsAssumption
  <2>5. QED BY <1>2, <2>1, <2>2, <2>3, <2>4, ReadFacts
<1>5. QED BY <1>3, <1>4 DEF ReadsConnector

LEMMA ProbeNewStep ==
  ASSUME IInv, NEW k \in Connectors, ProbeNew(k)
  PROVE  IInv'
<1>1. TypeOK /\ PlanInv /\ VersionInv /\ SeenInv /\ ReadInv
  BY DEF IInv
<1>2. PICK r \in Reads :
        /\ ReadsConnector(k, r)
        /\ plan' = [plan EXCEPT !.new = @ \ {k}, !.erred = @ \/ r.s = "gone",
                                !.added[k] = IF r.s = "gone" THEN NotRead ELSE r]
  BY DEF ProbeNew
<1>3. /\ plan.phase = "probe" /\ k \in plan.new /\ plan # NoPlan /\ plan \in Plans
      /\ UNCHANGED <<kernel, object, deleted, attached, client, found, changes>> /\ ThreadsRest
  BY <1>1, ThreadTypes, NoPlanFacts DEF ProbeNew, device, probes, ThreadsRest
<1>4. /\ late \subseteq late' /\ late' \subseteq Connectors
      /\ failures' \in 0 .. MaxFailures
      /\ r # NotRead /\ r.v \in 0 .. kernel[k].v
      /\ r = kernel[k] \/ (r.s = "gone" /\ (DueOrAgain \/ k \in late'))
  BY <1>1, <1>2, ReadOutcome
<1>5. /\ plan' \in Plans /\ plan'.phase = "probe" /\ plan'.owner = plan.owner
      /\ plan'.targets = plan.targets /\ plan'.known = plan.known /\ plan'.moved = plan.moved
      /\ plan'.todo = plan.todo /\ plan'.new = plan.new \ {k} /\ plan'.present = plan.present
      /\ plan'.ok = plan.ok /\ plan'.results = plan.results
      /\ plan'.erred = (plan.erred \/ r.s = "gone")
      /\ plan'.added[k] = (IF r.s = "gone" THEN NotRead ELSE r)
      /\ \A c \in Connectors \ {k} : plan'.added[c] = plan.added[c]
  <2> DEFINE a == IF r.s = "gone" THEN NotRead ELSE r
             e == plan.erred \/ r.s = "gone"
  <2>1. a \in Reads /\ e \in BOOLEAN
    BY <1>3, ReadFacts, PlansFields DEF PlanFields
  <2>2. plan' = [plan EXCEPT !.new = @ \ {k}, !.erred = e, !.added[k] = a]
    BY <1>2
  <2> HIDE DEF a, e
  <2>3. plan.added \in [Connectors -> Reads] /\ plan.new \subseteq Connectors
    BY <1>3, PlansFields DEF PlanFields
  <2>4. [plan.added EXCEPT ![k] = a] \in [Connectors -> Reads]
    BY <2>1, <2>3
  <2>5. /\ plan' \in Plans /\ plan'.phase = plan.phase /\ plan'.owner = plan.owner
        /\ plan'.targets = plan.targets /\ plan'.known = plan.known /\ plan'.moved = plan.moved
        /\ plan'.todo = plan.todo /\ plan'.new = plan.new \ {k} /\ plan'.present = plan.present
        /\ plan'.ok = plan.ok /\ plan'.results = plan.results /\ plan'.erred = e
        /\ plan'.added = [plan.added EXCEPT ![k] = a]
    BY <1>3, <2>1, <2>2, <2>3, <2>4 DEF Plans
  <2>6. plan'.added[k] = a /\ \A c \in Connectors \ {k} : plan'.added[c] = plan.added[c]
    BY <2>3, <2>5
  <2>7. QED BY <1>3, <2>5, <2>6 DEF a, e
<1>6. OnlyPlan
  BY <1>3, <1>5, NoPlanFacts DEF OnlyPlan
<1>7. /\ TypeOK' /\ StepInv' /\ BootInv' /\ AttachInv' /\ Keeps
      /\ Due' <=> Due
      /\ FirstPass' <=> FirstPass
      /\ DueOrAgain' <=> DueOrAgain
      /\ Existing' = Existing
      /\ plan.owner \in Handlers /\ pc'[plan.owner] \in {"handle", "again"}
  BY <1>4, <1>5, <1>6, OnlyPlanStep
<1>8. /\ plan.ok /\ plan.new \subseteq plan.present \ plan.known
      /\ k \in plan.present /\ k \notin plan.known
      /\ plan.added[k] = NotRead
      /\ \A c \in Connectors : plan.results[c] = NotRead
      /\ k \in Existing => k \in plan.targets
  BY <1>1, <1>3 DEF PlanInv
<1>9. PlanInv'
  <2>1. ASSUME NEW c \in Connectors, plan'.added[c] # NotRead
        PROVE  plan'.ok /\ c \in plan'.present \ (plan'.known \cup plan'.new)
                 /\ plan'.added[c].s # "gone"
    <3>1. CASE c = k
      BY <3>1, <2>1, <1>5, <1>8
    <3>2. CASE c # k
      BY <3>2, <2>1, <1>1, <1>3, <1>5 DEF PlanInv
    <3>3. QED BY <3>1, <3>2
  <2>2. QED BY <1>1, <1>3, <1>5, <1>6, <1>7, <1>8, <2>1 DEF PlanInv, OnlyPlan
<1>10. VersionInv'
  <2>1. ASSUME NEW c \in Connectors, plan'.added[c] # NotRead
        PROVE  plan'.added[c].v \in 0 .. kernel[c].v
    <3>1. CASE c = k
      BY <3>1, <2>1, <1>4, <1>5
    <3>2. CASE c # k
      BY <3>2, <2>1, <1>1, <1>5 DEF VersionInv
    <3>3. QED BY <3>1, <3>2
  <2>2. QED BY <1>1, <1>3, <1>5, <2>1 DEF VersionInv
<1>11. Seen(k)'
  <2>1. /\ k \notin ProbedUnmoved /\ k \notin ProbedUnmoved'
        /\ Dead(k)' <=> Dead(k)
        /\ Stale(k)' <=> Stale(k)
    <3>1. k \notin ProbedUnmoved /\ k \notin ProbedUnmoved'
      BY <1>5, <1>8 DEF ProbedUnmoved, Probed
    <3>2. Dead(k)' <=> Dead(k)
      BY <3>1, <1>3 DEF Dead, Lost
    <3>3. QED BY <3>1, <3>2, <1>5, <1>7 DEF Stale
  <2>2. kernel'[k] = kernel[k] /\ object'[k] = object[k]
    BY <1>3
  <2>3. CASE Missed(k) \/ k \in late'
    BY <2>3, <1>7 DEF Keeps, Seen, Missed
  <2>4. CASE k \in plan.todo \ plan.moved
    BY <2>4, <1>5 DEF Seen, SeenProbing, ToRead
  <2>5. CASE ~Stale(k) /\ k \in Existing
    <3>1. ~Joins(k) /\ ~Joins(k)'
      BY <2>5, <2>1, <1>7 DEF Joins
    <3>2. After(k)' = After(k) /\ (DeadAfter(k)' <=> DeadAfter(k))
      BY <2>1, <2>2, <2>5, <3>1 DEF After, DeadAfter
    <3>3. ~ToRead(k) \/ k \in plan.todo \ plan.moved
      BY <2>5 DEF ToRead
    <3>4. k \in Probed' <=> k \in Probed
      BY <1>5 DEF Probed
    <3>5. Again(k) => Again(k)'
      BY <2>1, <3>2, <3>4, <1>5, <1>7 DEF Again
    <3>6. SeenProbing(k) \/ Missed(k)
      BY <1>1, <1>3, SeenCases DEF Seen, SeenIdle, SeenSelected
    <3>7. CASE Right(k, After(k).s, DeadAfter(k))
      <4>1. Right(k, After(k).s, DeadAfter(k))'
        BY <2>2, <3>2, <3>7 DEF Right
      <4>2. QED BY <4>1, <1>5 DEF Seen, SeenProbing
    <3>8. CASE (Due \/ Again(k)) /\ Selectable(k, After(k).s, DeadAfter(k))
      <4>1. Selectable(k, After(k).s, DeadAfter(k))'
        BY <2>2, <3>2, <3>8 DEF Selectable
      <4>2. QED BY <4>1, <3>5, <3>8, <1>5, <1>7 DEF Seen, SeenProbing
    <3>9. QED BY <2>3, <2>4, <3>3, <3>6, <3>7, <3>8 DEF SeenProbing
  <2>6. CASE Stale(k) \/ k \notin Existing
    <3>1. Joins(k)' <=> r.s # "gone"
      BY <2>1, <2>6, <1>4, <1>5, <1>7 DEF Joins
    <3>2. ~DeadAfter(k)'
      BY <2>1, <2>6, <1>1 DEF DeadAfter, Dead, Lost, ProbedUnmoved, Probed, TypeOK, PlanInv
    <3>3. CASE r = kernel[k] /\ r.s # "gone"
      <4>1. After(k)' = r
        BY <3>1, <3>3, <1>5 DEF After
      <4>2. Right(k, After(k).s, DeadAfter(k))'
        BY <2>2, <3>2, <3>3, <4>1 DEF Right
      <4>3. QED BY <4>2, <1>5 DEF Seen, SeenProbing
    <3>4. CASE r = kernel[k] /\ r.s = "gone"
      <4>1. Missed(k)
        BY <3>4, <1>1, <1>3, <1>8 DEF ReadInv
      <4>2. QED BY <4>1, <2>3
    <3>5. CASE r.s = "gone" /\ DueOrAgain
      <4>1. After(k)'.s = "gone"
        BY <2>1, <2>2, <2>6, <3>1, <3>5, <1>7, ReadFacts DEF After, Existing
      <4>2. Due' \/ Again(k)'
        BY <3>5, <1>5, <1>7 DEF DueOrAgain, Again
      <4>3. Selectable(k, After(k).s, DeadAfter(k))'
        BY <4>1 DEF Selectable
      <4>4. QED BY <4>2, <4>3, <1>5 DEF Seen, SeenProbing
    <3>6. QED BY <1>4, <2>3, <3>3, <3>4, <3>5
  <2>7. QED BY <2>5, <2>6
<1>12. SeenInv'
  <2>1. ASSUME NEW c \in Connectors, c # k
        PROVE  Seen(c)'
    <3>1. SameEntries(c) /\ Seen(c)
      BY <1>1, <1>3, <1>5, <2>1, SeenCases DEF SameEntries
    <3>2. ToRead(c) => ToRead(c)'
      BY <1>5, <1>7, <2>1, <3>1, SameAfter DEF ToRead
    <3>3. (plan' = NoPlan) <=> (plan = NoPlan)
      BY <1>6 DEF OnlyPlan
    <3>4. QED BY <1>3, <1>5, <1>7, <3>1, <3>2, <3>3, SeenStays
  <2>2. QED BY <1>11, <2>1, SeenCases
<1>13. ReadInv'
  <2>1. client # Nobody => client \in Connectors /\ client' = client
    BY <1>1, <1>3 DEF TypeOK
  <2>2. ASSUME NEW c \in Connectors, plan'.added[c] # NotRead
        PROVE  \/ Missed(c)' \/ plan'.added[c].s = kernel'[c].s
               \/ plan'.added[c].s = "unknown" /\ DueOrAgain'
    <3>1. CASE c = k
      BY <3>1, <2>2, <1>3, <1>4, <1>5
    <3>2. CASE c # k
      BY <3>2, <2>2, <1>1, <1>3, <1>5, <1>7 DEF ReadInv, Keeps
    <3>3. QED BY <3>1, <3>2
  <2>3. plan' # NoPlan /\ plan # NoPlan
    BY <1>6 DEF OnlyPlan
  <2>4. QED BY <1>1, <1>3, <1>5, <1>7, <1>8, <2>1, <2>2, <2>3 DEF ReadInv, Keeps
<1>14. QED BY <1>7, <1>9, <1>10, <1>12, <1>13 DEF IInv

LEMMA ProbeTargetStep ==
  ASSUME IInv, NEW k \in Connectors, ProbeTarget(k)
  PROVE  IInv'
<1>1. TypeOK /\ PlanInv /\ VersionInv /\ SeenInv /\ ReadInv
  BY DEF IInv
<1>2. PICK r \in Reads :
        /\ ReadsConnector(k, r)
        /\ plan' = [plan EXCEPT !.todo = @ \ {k}, !.results[k] = r]
  BY DEF ProbeTarget
<1>3. /\ plan.phase = "probe" /\ k \in plan.todo /\ plan.new = {}
      /\ plan # NoPlan /\ plan \in Plans
      /\ UNCHANGED <<kernel, object, deleted, attached, client, found, changes>> /\ ThreadsRest
  BY <1>1, ThreadTypes, NoPlanFacts DEF ProbeTarget, device, probes, ThreadsRest
<1>4. /\ late \subseteq late' /\ late' \subseteq Connectors
      /\ failures' \in 0 .. MaxFailures
      /\ r # NotRead /\ r.v = kernel[k].v /\ r.v \in 0 .. kernel[k].v
      /\ r = kernel[k] \/ (r.s = "gone" /\ (DueOrAgain \/ k \in late'))
  BY <1>1, <1>2, ReadOutcome
<1>5. /\ plan' \in Plans /\ plan'.phase = "probe" /\ plan'.owner = plan.owner
      /\ plan'.targets = plan.targets /\ plan'.known = plan.known /\ plan'.moved = plan.moved
      /\ plan'.todo = plan.todo \ {k} /\ plan'.new = plan.new /\ plan'.present = plan.present
      /\ plan'.ok = plan.ok /\ plan'.added = plan.added /\ plan'.erred = plan.erred
      /\ plan'.results[k] = r
      /\ \A c \in Connectors \ {k} : plan'.results[c] = plan.results[c]
  <2>1. plan.results \in [Connectors -> Reads] /\ plan.todo \subseteq Connectors
    BY <1>3, PlansFields DEF PlanFields
  <2>2. [plan.results EXCEPT ![k] = r] \in [Connectors -> Reads]
    BY <2>1
  <2>3. /\ plan' \in Plans /\ plan'.phase = plan.phase /\ plan'.owner = plan.owner
        /\ plan'.targets = plan.targets /\ plan'.known = plan.known /\ plan'.moved = plan.moved
        /\ plan'.todo = plan.todo \ {k} /\ plan'.new = plan.new /\ plan'.present = plan.present
        /\ plan'.ok = plan.ok /\ plan'.added = plan.added /\ plan'.erred = plan.erred
        /\ plan'.results = [plan.results EXCEPT ![k] = r]
    BY <1>2, <1>3, <2>1, <2>2 DEF Plans
  <2>4. plan'.results[k] = r /\ \A c \in Connectors \ {k} : plan'.results[c] = plan.results[c]
    BY <2>1, <2>3
  <2>5. QED BY <1>3, <2>3, <2>4
<1>6. OnlyPlan
  BY <1>3, <1>5, NoPlanFacts DEF OnlyPlan
<1>7. /\ TypeOK' /\ StepInv' /\ BootInv' /\ AttachInv' /\ Keeps
      /\ Due' <=> Due
      /\ FirstPass' <=> FirstPass
      /\ DueOrAgain' <=> DueOrAgain
      /\ Existing' = Existing
      /\ plan.owner \in Handlers /\ pc'[plan.owner] \in {"handle", "again"}
  BY <1>4, <1>5, <1>6, OnlyPlanStep
<1>8. /\ k \in plan.targets /\ k \in Existing /\ plan.results[k] = NotRead
      /\ plan.ok => k \in plan.present
      /\ ~plan.ok => plan.erred
      /\ plan.added[k] # NotRead => plan.ok
  BY <1>1, <1>3 DEF PlanInv
<1>9. PlanInv'
  <2>1. ASSUME NEW c \in Connectors, plan'.results[c] # NotRead
        PROVE  /\ c \in plan'.targets \ plan'.todo
               /\ plan'.ok => c \in plan'.present
    <3>1. CASE c = k
      BY <3>1, <1>5, <1>8
    <3>2. CASE c # k
      BY <3>2, <2>1, <1>1, <1>3, <1>5 DEF PlanInv
    <3>3. QED BY <3>1, <3>2
  <2>2. ASSUME NEW c \in plan'.targets
        PROVE  c \in plan'.todo \/ plan'.results[c] # NotRead
                 \/ (plan'.ok /\ c \notin plan'.present)
    <3>1. CASE c = k
      BY <3>1, <1>4, <1>5
    <3>2. CASE c # k
      <4>1. c \in Connectors
        BY <1>5, PlansFields DEF PlanFields
      <4>2. QED BY <3>2, <4>1, <1>1, <1>3, <1>5 DEF PlanInv
    <3>3. QED BY <3>1, <3>2
  <2>3. deleted' = deleted /\ plan'.new = {} /\ plan'.phase = "probe" /\ plan'.owner = plan.owner
    BY <1>3, <1>5
  <2>4. QED BY <1>1, <1>3, <1>5, <1>7, <2>1, <2>2, <2>3 DEF PlanInv
<1>10. VersionInv'
  <2>1. object[k].v <= r.v
    <3>1. object[k].v \in 0 .. kernel[k].v /\ kernel[k].v \in 0 .. changes
      BY <1>1 DEF VersionInv
    <3>2. changes \in 0 .. MaxChanges
      BY <1>1 DEF TypeOK
    <3>3. QED BY <3>1, <3>2, <1>4
  <2>2. ASSUME NEW c \in Connectors, plan'.results[c] # NotRead
        PROVE  /\ plan'.results[c].v \in 0 .. kernel[c].v
               /\ c \notin plan.moved => object[c].v <= plan'.results[c].v
    <3>1. CASE c = k
      BY <3>1, <2>1, <1>4, <1>5
    <3>2. CASE c # k
      BY <3>2, <2>2, <1>1, <1>5 DEF VersionInv
    <3>3. QED BY <3>1, <3>2
  <2>3. QED BY <1>1, <1>3, <1>5, <2>2 DEF VersionInv
<1>11. Seen(k)'
  <2>1. kernel'[k] = kernel[k] /\ object'[k] = object[k]
    BY <1>3
  <2>2. k \in Probed' /\ k \notin Probed /\ k \notin ProbedUnmoved
    BY <1>4, <1>5, <1>8 DEF Probed, ProbedUnmoved
  <2>3. CASE Missed(k) \/ k \in late'
    BY <2>3, <1>7 DEF Keeps, Seen, Missed
  <2>4. CASE k \in plan.moved
    <3>1. k \notin ProbedUnmoved'
      BY <2>4, <1>5 DEF ProbedUnmoved
    <3>2. Dead(k)' <=> Dead(k)
      BY <2>2, <3>1, <1>3 DEF Dead, Lost
    <3>3. Stale(k)' <=> Stale(k)
      BY <3>2, <1>5, <1>7 DEF Stale
    <3>4. After(k)' = After(k) /\ (DeadAfter(k)' <=> DeadAfter(k))
      BY <2>1, <2>2, <3>1, <3>2, <3>3, <1>5, <1>7 DEF After, DeadAfter, Joins
    <3>5. Again(k) => Again(k)'
      BY <2>2, <3>2, <3>4, <1>5, <1>7 DEF Again
    <3>6. SeenProbing(k) \/ Missed(k)
      BY <1>1, <1>3, SeenCases DEF Seen, SeenIdle, SeenSelected
    <3>7. ~ToRead(k)
      BY <2>4, <1>3 DEF ToRead
    <3>8. CASE Right(k, After(k).s, DeadAfter(k))
      <4>1. Right(k, After(k).s, DeadAfter(k))'
        BY <2>1, <3>4, <3>8 DEF Right
      <4>2. QED BY <4>1, <1>5 DEF Seen, SeenProbing
    <3>9. CASE (Due \/ Again(k)) /\ Selectable(k, After(k).s, DeadAfter(k))
      <4>1. Selectable(k, After(k).s, DeadAfter(k))'
        BY <2>1, <3>4, <3>9 DEF Selectable
      <4>2. QED BY <4>1, <3>5, <3>9, <1>5, <1>7 DEF Seen, SeenProbing
    <3>10. QED BY <2>3, <3>6, <3>7, <3>8, <3>9 DEF SeenProbing
  <2>5. CASE k \notin plan.moved
    <3>1. k \in ProbedUnmoved' /\ (Dead(k)' <=> r.s = "gone")
      <4>1. k \in ProbedUnmoved'
        BY <2>2, <2>5, <1>5 DEF ProbedUnmoved
      <4>2. QED BY <4>1, <1>5 DEF Dead, Lost
    <3>2. Stale(k)' <=> plan.ok /\ r.s = "gone"
      BY <3>1, <1>5, <1>7, <1>8 DEF Stale
    <3>3. /\ Joins(k)' <=> (plan.added[k] # NotRead /\ Stale(k)')
          /\ Joins(k)' => After(k)' = plan.added[k]
          /\ ~Joins(k)' /\ Stale(k)' => After(k)'.s = "gone"
          /\ ~Stale(k)' => After(k)' = Applied(r)
      BY <3>1, <1>5, <1>7, <1>8, ReadFacts DEF Joins, After
    <3>4. DeadAfter(k)' <=> r.s = "gone" /\ ~plan.ok
      BY <3>1, <3>2 DEF DeadAfter
    <3>5. CASE r = kernel[k] /\ r.s # "gone"
      <4>1. After(k)' = r
        BY <3>2, <3>3, <3>5 DEF Applied
      <4>2. Right(k, After(k).s, DeadAfter(k))'
        BY <2>1, <3>4, <3>5, <4>1 DEF Right
      <4>3. QED BY <4>2, <1>5 DEF Seen, SeenProbing
    <3>6. CASE r.s = "gone" /\ ~plan.ok
      <4>1. DueOrAgain \/ late = Connectors
        BY <3>6, <1>1, <1>3 DEF ReadInv
      <4>2. CASE DueOrAgain
        <5>1. Due' \/ Again(k)'
          BY <4>2, <3>6, <1>5, <1>7, <1>8 DEF DueOrAgain, Again
        <5>2. Selectable(k, After(k).s, DeadAfter(k))'
          BY <3>4, <3>6 DEF Selectable
        <5>3. QED BY <5>1, <5>2, <1>5 DEF Seen, SeenProbing
      <4>3. CASE late = Connectors
        BY <4>3, <2>3 DEF Missed
      <4>4. QED BY <4>1, <4>2, <4>3
    <3>7. CASE r = kernel[k] /\ r.s = "gone" /\ plan.ok
      <4>1. Missed(k)
        BY <3>7, <1>1, <1>3, <1>8 DEF ReadInv
      <4>2. QED BY <4>1, <2>3
    <3>8. CASE r.s = "gone" /\ plan.ok /\ DueOrAgain
      <4>1. Due' \/ Again(k)'
        BY <2>2, <3>1, <3>8, <1>7 DEF DueOrAgain, Again
      <4>2. ~DeadAfter(k)'
        BY <3>4, <3>8
      <4>3. CASE ~Joins(k)'
        <5>1. Selectable(k, After(k).s, DeadAfter(k))'
          BY <3>2, <3>3, <3>8, <4>3 DEF Selectable
        <5>2. QED BY <4>1, <5>1, <1>5 DEF Seen, SeenProbing
      <4>4. CASE Joins(k)'
        <5>1. After(k)' = plan.added[k] /\ plan.added[k] # NotRead
          BY <3>3, <4>4
        <5>2. CASE plan.added[k].s = kernel[k].s
          <6>1. Right(k, After(k).s, DeadAfter(k))'
            BY <2>1, <4>2, <5>1, <5>2 DEF Right
          <6>2. QED BY <6>1, <1>5 DEF Seen, SeenProbing
        <5>3. CASE plan.added[k].s = "unknown"
          <6>1. Selectable(k, After(k).s, DeadAfter(k))'
            BY <5>1, <5>3 DEF Selectable
          <6>2. QED BY <4>1, <6>1, <1>5 DEF Seen, SeenProbing
        <5>4. QED BY <2>3, <5>1, <5>2, <5>3, <1>1 DEF ReadInv
      <4>5. QED BY <4>3, <4>4
    <3>9. QED BY <1>4, <2>3, <3>5, <3>6, <3>7, <3>8, PlansFields, <1>3 DEF PlanFields
  <2>6. QED BY <2>4, <2>5
<1>12. SeenInv'
  <2>1. ASSUME NEW c \in Connectors, c # k
        PROVE  Seen(c)'
    <3>1. SameEntries(c) /\ Seen(c)
      BY <1>1, <1>3, <1>5, <2>1, SeenCases DEF SameEntries
    <3>2. ToRead(c) => ToRead(c)'
      BY <1>5, <1>7, <2>1, <3>1, SameAfter DEF ToRead
    <3>3. (plan' = NoPlan) <=> (plan = NoPlan)
      BY <1>6 DEF OnlyPlan
    <3>4. QED BY <1>3, <1>5, <1>7, <3>1, <3>2, <3>3, SeenStays
  <2>2. QED BY <1>11, <2>1, SeenCases
<1>13. ReadInv'
  <2>1. client # Nobody => client \in Connectors /\ client' = client
    BY <1>1, <1>3 DEF TypeOK
  <2>2. plan' # NoPlan /\ plan # NoPlan
    BY <1>6 DEF OnlyPlan
  <2>3. late = Connectors => late' = Connectors
    BY <1>4
  <2>4. QED BY <1>1, <1>3, <1>5, <1>7, <2>1, <2>2, <2>3 DEF ReadInv, Keeps
<1>14. QED BY <1>7, <1>9, <1>10, <1>12, <1>13 DEF IInv

(* Phase3 turns each connector into what After and DeadAfter foretell.     *)
LEMMA Phase3Outcome ==
  ASSUME TypeOK, Phase3
  PROVE  /\ plan.phase = "probe" /\ plan.new = {} /\ plan.todo = {} /\ client = Nobody
         /\ plan' = NoPlan
         /\ UNCHANGED <<kernel, socket, deferred, booting, client, found, changes, failures, late>>
         /\ DOMAIN object' = Connectors
         /\ \A c \in Connectors : object'[c] = After(c) /\ (c \in deleted' <=> DeadAfter(c))
         /\ deleted' \subseteq Connectors
         /\ \A c \in attached' : c \in Connectors /\ object'[c].s = "good"
         /\ \E needed \in BOOLEAN :
              /\ Return(plan.owner, needed)
              /\ plan.erred \/ (\E c \in Connectors : c \in Probed /\ Dead(c))
                   \/ (\E c \in Connectors : object'[c].s = "unknown")
                   => needed
<1> DEFINE lost == {c \in ProbedUnmoved : plan.results[c].s = "gone"}
           dead == (deleted \ ProbedUnmoved) \cup lost
           stale == IF plan.ok THEN Existing \cap (dead \cup (Connectors \ plan.present)) ELSE {}
           joins == {c \in Connectors : /\ plan.added[c] # NotRead
                                        /\ (c \in stale \/ c \notin Existing)}
           needed == plan.erred \/ Probed \cap dead # {} \/ Unsettled(object', attached')
<1>1. /\ plan.phase = "probe" /\ plan.new = {} /\ plan.todo = {} /\ client = Nobody
      /\ plan' = NoPlan
      /\ UNCHANGED <<kernel, socket, deferred, booting, client, found, changes, failures, late>>
  BY DEF Phase3, MainLockIsFree, probes
<1>2. /\ object' = [c \in Connectors |->
                      IF c \in joins THEN plan.added[c]
                      ELSE IF c \in stale THEN Read("gone", 0)
                      ELSE IF c \in ProbedUnmoved THEN Applied(plan.results[c])
                      ELSE object[c]]
      /\ deleted' = dead \ stale
      /\ attached' \in AttachedAfter(object', attached \ stale)
      /\ Return(plan.owner, needed)
  BY DEF Phase3
<1>3. /\ deleted \subseteq Connectors /\ Probed \subseteq Connectors
      /\ ProbedUnmoved \subseteq Probed
      /\ plan.erred \in BOOLEAN
  BY ThreadTypes, PlansFields DEF PlanFields, Probed, ProbedUnmoved, TypeOK, Existing
<1>4. ASSUME NEW c \in Connectors
      PROVE  /\ c \in dead <=> Dead(c)
             /\ c \in stale <=> Stale(c)
             /\ c \in joins <=> Joins(c)
  <2>1. c \in lost <=> Lost(c)
    BY DEF Lost
  <2>2. c \in dead <=> Dead(c)
    BY <2>1 DEF Dead
  <2>3. c \in stale <=> Stale(c)
    BY <2>2 DEF Stale
  <2>4. QED BY <2>2, <2>3 DEF Joins
<1>5. dead \subseteq Connectors
  BY <1>3
<1> HIDE DEF lost, dead, stale, joins
<1>6. ASSUME NEW c \in Connectors
      PROVE  object'[c] = After(c) /\ (c \in deleted' <=> DeadAfter(c))
  BY <1>2, <1>4 DEF After, DeadAfter
<1>7. \A c \in attached' : c \in Connectors /\ object'[c].s = "good"
  BY <1>2 DEF AttachedAfter
<1>8. needed \in BOOLEAN
  BY <1>3 DEF Unsettled
<1>9. plan.erred \/ (\E c \in Connectors : c \in Probed /\ Dead(c))
         \/ (\E c \in Connectors : object'[c].s = "unknown")
         => needed
  BY <1>4 DEF Unsettled
<1> HIDE DEF needed
<1>10. QED BY <1>1, <1>2, <1>5, <1>6, <1>7, <1>8, <1>9

(* What becomes of a connector has been read of it, or it is gone; and is  *)
(* newer than what was known of it, unless it was marked deleted.          *)
LEMMA AfterRead ==
  ASSUME IInv, plan.phase = "probe", NEW c \in Connectors
  PROVE  /\ After(c) \in Reads /\ After(c).v \in 0 .. kernel[c].v
         /\ DeadAfter(c) => After(c).s # "gone"
         /\ c \in Existing \ deleted /\ After(c).s # "gone" => After(c).v >= object[c].v
<1>1. TypeOK /\ PlanInv /\ VersionInv
  BY DEF IInv
<1>2. /\ object[c] \in Reads /\ plan.results[c] \in Reads /\ plan.added[c] \in Reads
      /\ object[c].v \in 0 .. kernel[c].v /\ kernel[c].v \in 0 .. changes
      /\ changes \in 0 .. MaxChanges
  BY <1>1, ThreadTypes, PlansFields DEF PlanFields, TypeOK, VersionInv
<1>3. kernel[c].v \in Nat /\ object[c].v \in Nat /\ 0 \in 0 .. MaxChanges
  BY <1>2, ConstantsAssumption
<1>4. plan # NoPlan
  BY NoPlanFacts
<1>5. c \in Probed => plan.results[c] # NotRead /\ c \in Existing
  BY <1>1, <1>4 DEF Probed, PlanInv
<1>6. DeadAfter(c) => c \in Existing
  BY <1>1, <1>5 DEF DeadAfter, Dead, Lost, ProbedUnmoved, TypeOK
<1>7. CASE Joins(c)
  <2>1. After(c) = plan.added[c] /\ plan.added[c] # NotRead
    BY <1>7 DEF After, Joins
  <2>2. plan.added[c].v \in 0 .. kernel[c].v
    BY <2>1, <1>1 DEF VersionInv
  <2>3. c \notin plan.known /\ c \in plan.present
    BY <2>1, <1>1, <1>4 DEF PlanInv
  <2>4. ~DeadAfter(c)
    BY <1>6, <1>7 DEF DeadAfter, Joins
  <2>5. c \notin Existing \ deleted
    <3>1. SUFFICES ASSUME c \in Existing, c \notin deleted PROVE FALSE
      OBVIOUS
    <3>2. c \in plan.moved
      BY <3>1, <2>3, <1>1, <1>4 DEF PlanInv
    <3>3. ~Dead(c)
      BY <3>1, <3>2 DEF Dead, Lost, ProbedUnmoved
    <3>4. QED BY <3>1, <3>3, <2>3, <1>7 DEF Joins, Stale
  <2>6. QED BY <2>1, <2>2, <2>4, <2>5, <1>2
<1>8. CASE ~Joins(c) /\ Stale(c)
  <2>1. After(c) = Read("gone", 0) /\ ~DeadAfter(c)
    BY <1>8 DEF After, DeadAfter
  <2>2. "gone" \in States
    BY DEF States
  <2>3. QED BY <2>1, <2>2, <1>3, ReadFacts
<1>9. CASE ~Joins(c) /\ ~Stale(c) /\ c \in ProbedUnmoved
  <2>1. After(c) = Applied(plan.results[c])
    BY <1>9 DEF After
  <2>2. /\ plan.results[c] # NotRead /\ plan.results[c].v \in 0 .. kernel[c].v
        /\ object[c].v <= plan.results[c].v
    BY <1>1, <1>5, <1>9 DEF ProbedUnmoved, VersionInv
  <2>3. QED BY <2>1, <2>2, <1>2, <1>3, AppliedFacts
<1>10. CASE ~Joins(c) /\ ~Stale(c) /\ c \notin ProbedUnmoved
  <2>1. After(c) = object[c]
    BY <1>10 DEF After
  <2>2. QED BY <2>1, <1>2, <1>3, <1>6 DEF Existing
<1>11. QED BY <1>7, <1>8, <1>9, <1>10

LEMMA Phase3By ==
  ASSUME IInv, Phase3, NEW t \in Handlers, plan.owner = t,
         NEW needed \in BOOLEAN, Return(t, needed),
         plan.erred \/ (\E c \in Connectors : c \in Probed /\ Dead(c))
           \/ (\E c \in Connectors : object'[c].s = "unknown") => needed
  PROVE  IInv'
<1>1. TypeOK /\ StepInv /\ BootInv /\ PlanInv /\ VersionInv /\ SeenInv /\ ReadInv /\ AttachInv
  BY DEF IInv
<1>2. /\ plan.phase = "probe" /\ plan.new = {} /\ plan.todo = {} /\ client = Nobody
      /\ plan' = NoPlan
      /\ UNCHANGED <<kernel, socket, deferred, booting, client, found, changes, failures, late>>
      /\ DOMAIN object' = Connectors
      /\ \A c \in Connectors : object'[c] = After(c) /\ (c \in deleted' <=> DeadAfter(c))
      /\ deleted' \subseteq Connectors
      /\ \A c \in attached' : c \in Connectors /\ object'[c].s = "good"
  BY <1>1, Phase3Outcome
<1>3. plan # NoPlan /\ pc[t] \in AtWork /\ ListenerTold
  BY <1>1, <1>2, NoPlanFacts, BootParts DEF PlanInv, AtWork
<1>4. /\ pc' \in [Threads -> Steps] /\ event' \in [Threads -> SUBSET Connectors]
      /\ needs' \in BOOLEAN /\ StepInv'
      /\ Awaits(t) /\ pc'[t] \notin AtWork /\ ListenerTold'
      /\ pc'["recovery"] = pc["recovery"]
      /\ pc["stopper"] \in {"watch", "flush"} => pc'["stopper"] = pc["stopper"]
      /\ pc'["stopper"] \in {"watch", "flush"} => pc'["stopper"] = pc["stopper"]
      /\ needed /\ (t = "stopper" \/ (t = "listener" /\ pc[t] = "handle"))
           => ListenerAgain' \/ pc'["settle"] = "sleep"
  BY <1>1, <1>3, ReturnFacts
<1>5. \A c \in Connectors :
        /\ object'[c] \in Reads /\ object'[c].v \in 0 .. kernel[c].v
        /\ c \in deleted' => object'[c].s # "gone"
  BY <1>2, AfterRead
<1>6. TypeOK'
  <2>1. DOMAIN object' = Connectors /\ \A c \in Connectors : object'[c] \in Reads
    BY <1>2, <1>5
  <2>2. object' \in [Connectors -> Reads]
    <3>1. object' = [c \in Connectors |-> object'[c]]
      BY DEF Phase3
    <3>2. QED BY <2>1, <3>1
  <2>3. deleted' \subseteq Existing' /\ attached' \subseteq Existing'
    BY <1>2, <1>5 DEF Existing
  <2>4. plan' \in Plans
    BY <1>2, NoPlanFacts
  <2>5. QED BY <1>1, <1>2, <1>4, <2>2, <2>3, <2>4 DEF TypeOK, Plans, Steps
<1>7. BootInv'
  BY <1>1, <1>2, <1>3, <1>4, BootParts
<1>8. PlanInv'
  BY <1>2 DEF PlanInv
<1>9. VersionInv'
  BY <1>1, <1>2, <1>5, NoPlanFacts DEF VersionInv
<1>10. ASSUME NEW u \in Handlers, Waits(u)
       PROVE  Waits(u)' /\ event'[u] = event[u]
  <2>1. u # t /\ pc[u] \in AtWork
    BY <1>10 DEF Waits, AtWork
  <2>2. pc'[u] \in AtWork /\ event'[u] = event[u]
    BY <1>4, <2>1 DEF Awaits
  <2>3. plan'.owner # u
    BY <1>2, NoPlanFacts, NobodyHandles
  <2>4. QED BY <2>2, <2>3 DEF Waits, AtWork
<1>11. /\ \A c \in Connectors : Missed(c) => Missed(c)'
       /\ Due => Due'
  <2>1. ASSUME NEW c \in Connectors, Named(c)
        PROVE  Named(c)'
    <3>1. CASE \E u \in Handlers : Waits(u) /\ c \in event[u]
      BY <3>1, <1>10 DEF Named
    <3>2. CASE c \in socket \cup deferred \/ (ListenerAgain /\ c \in event["listener"])
                 \/ (pc["settle"] = "sleep" /\ c \in event["settle"])
      BY <3>2, <1>2, <1>4 DEF Named, Awaits
    <3>3. QED BY <2>1, <3>1, <3>2 DEF Named
  <2>2. Due => Due'
    BY <1>2, <1>4, <1>10 DEF Due, Awaits
  <2>3. QED BY <1>2, <2>1, <2>2 DEF Missed
<1>12. FirstPass /\ needed => Due'
  BY <1>4 DEF FirstPass, Due
<1>13. ASSUME NEW c \in Connectors
       PROVE  Seen(c)'
  <2>1. /\ object'[c] = After(c)
        /\ c \in deleted' <=> DeadAfter(c)
        /\ kernel'[c] = kernel[c]
    BY <1>2
  <2>2. CASE Missed(c)
    BY <2>2, <1>11 DEF Seen
  <2>3. CASE Right(c, After(c).s, DeadAfter(c))
    BY <2>1, <2>3, <1>2 DEF Seen, SeenIdle, Right
  <2>4. CASE (Due \/ Again(c)) /\ Selectable(c, After(c).s, DeadAfter(c))
    <3>1. Again(c) => needed /\ FirstPass
      BY <2>1 DEF Again
    <3>2. Due'
      BY <2>4, <3>1, <1>11, <1>12
    <3>3. Selectable(c, object[c].s, c \in deleted)'
      BY <2>1, <2>4 DEF Selectable
    <3>4. QED BY <3>2, <3>3, <1>2 DEF Seen, SeenIdle
  <2>5. ~ToRead(c)
    BY <1>2 DEF ToRead
  <2>6. SeenProbing(c) \/ Missed(c)
    BY <1>1, <1>2, <1>3, SeenCases DEF Seen, SeenIdle, SeenSelected
  <2>7. QED BY <2>2, <2>3, <2>4, <2>5, <2>6 DEF SeenProbing
<1>14. SeenInv'
  BY <1>13, SeenCases
<1>15. ReadInv'
  BY <1>2, NoPlanFacts DEF ReadInv
<1>16. AttachInv'
  BY <1>2 DEF AttachInv
<1>17. QED BY <1>4, <1>6, <1>7, <1>8, <1>9, <1>14, <1>15, <1>16 DEF IInv

LEMMA Phase3Step ==
  ASSUME IInv, Phase3
  PROVE  IInv'
<1>1. TypeOK /\ PlanInv /\ plan.phase = "probe"
  BY DEF IInv, Phase3
<1>2. plan.owner \in Handlers
  BY <1>1, NoPlanFacts DEF PlanInv
<1>3. PICK needed \in BOOLEAN :
        /\ Return(plan.owner, needed)
        /\ plan.erred \/ (\E c \in Connectors : c \in Probed /\ Dead(c))
             \/ (\E c \in Connectors : object'[c].s = "unknown")
             => needed
  BY <1>1, Phase3Outcome
<1>4. QED BY <1>2, <1>3, Phase3By

-----------------------------------------------------------------------------
(* The invariant is one, and the properties follow.                        *)

LEMMA StutterStep ==
  ASSUME IInv, UNCHANGED vars
  PROVE  IInv'
<1>1. /\ UNCHANGED <<kernel, object, deleted, attached, plan, client, found, changes,
                     failures, late>>
      /\ ThreadsRest
  BY DEF vars, device, probes, ThreadsRest
<1>2. Keeps
  BY <1>1, RestKeeps DEF IInv, TypeOK, Keeps, Missed
<1>3. Between
  BY <1>1 DEF Between
<1>4. StepInv' /\ BootInv'
  BY <1>1 DEF IInv, StepInv, BootInv, ThreadsRest
<1>5. plan.owner \in Handlers => pc'[plan.owner] \in AtWork
  BY <1>1, NoPlanFacts, NobodyHandles DEF IInv, PlanInv, AtWork, ThreadsRest
<1>6. /\ socket' \subseteq Connectors /\ deferred' \subseteq Connectors /\ booting' \in BOOLEAN
      /\ pc' \in [Threads -> Steps] /\ event' \in [Threads -> SUBSET Connectors]
      /\ needs' \in BOOLEAN
  BY <1>1 DEF IInv, TypeOK, Steps, ThreadsRest
<1>7. QED BY <1>2, <1>3, <1>4, <1>5, <1>6, BetweenStep

LEMMA NextStep == IInv /\ [Next]_vars => IInv'
<1> SUFFICES ASSUME IInv, [Next]_vars PROVE IInv'
  OBVIOUS
<1>1. CASE Handling
  <2>1. CASE \E t \in Handlers : Defer(t) \/ Phase1(t)
    BY <2>1, DeferStep, Phase1Step
  <2>2. CASE ProbeResources \/ Phase3
    BY <2>2, ProbeResourcesStep, Phase3Step
  <2>3. CASE \E c \in Connectors : ProbeNew(c) \/ ProbeTarget(c)
    BY <2>3, ProbeNewStep, ProbeTargetStep
  <2>4. QED BY <1>1, <2>1, <2>2, <2>3 DEF Handling
<1>2. CASE ThreadSteps
  BY <1>2, ReadUEventsStep, FollowupStep, SettleTimeoutStep, StartBootAnimationStep,
     StopBootAnimationStep, FlushDeferredHotplugStep, SettleThreadWakesStep, RecoveryWaitsStep,
     RecoveryTeardownStep, RecoveryReprobeStep
     DEF ThreadSteps
<1>3. CASE ClientApplies
  BY <1>3, ClientAppliesStep
<1>4. CASE \E c \in Connectors : KernelChanges(c) \/ KernelSettles(c) \/ ClientReads(c)
  BY <1>4, KernelChangesStep, KernelSettlesStep, ClientReadsStep
<1>5. CASE UNCHANGED vars
  BY <1>5, StutterStep
<1>6. QED BY <1>1, <1>2, <1>3, <1>4, <1>5 DEF Next

(* The invariant: in every interleaving of the threads that handle, put    *)
(* off, replay and recover, a connector is as the kernel has it, or will   *)
(* be looked at again, or settled late.                                    *)
THEOREM Inductive == Spec => []IInv
BY InitInv, NextStep, PTL DEF Spec

(* The fields of a handling, the threads' steps, the reads and the         *)
(* counters are of their types.                                            *)
THEOREM TypeCorrect == Spec => []TypeOK
<1>1. IInv => TypeOK
  BY DEF IInv
<1>2. QED BY <1>1, Inductive, PTL

(* A handling that probes off the main lock holds no pointer to a          *)
(* destroyed connector, whoever probes or detaches meanwhile.              *)
THEOREM TargetsAliveCorrect == Spec => []TargetsAlive
<1>1. IInv => TargetsAlive
  BY NoPlanFacts DEF IInv, PlanInv, TargetsAlive
<1>2. QED BY <1>1, Inductive, PTL

(* When the last thread has come to rest, every hotplug has been seen,     *)
(* whatever order the listener, the end of the boot animation, the         *)
(* recovery and the client took, and whichever reads failed.               *)
THEOREM HotplugsSeenCorrect == Spec => []HotplugsSeen
<1>1. ASSUME IInv, Quiet
      PROVE  /\ deferred = {} /\ deleted \subseteq late
             /\ \A c \in Connectors \ late :
                  object[c].s = kernel[c].s /\ (c \in attached => object[c].s = "good")
  <2>1. TypeOK /\ BootInv /\ SeenInv /\ AttachInv
    BY <1>1 DEF IInv
  <2>2. /\ socket = {} /\ pc["listener"] = "read" /\ plan = NoPlan
        /\ pc["stopper"] = "done" /\ pc["settle"] = "done"
    BY <1>1 DEF Quiet
  <2>3. deferred = {}
    BY <2>1, <2>2 DEF BootInv
  <2>4. ~Due
    <3>1. \A t \in Handlers : ~Waits(t)
      BY <2>2 DEF Waits, Handlers
    <3>2. ~ListenerAgain
      BY <2>2 DEF ListenerAgain
    <3>3. QED BY <2>2, <2>3, <3>1, <3>2 DEF Due
  <2>5. ASSUME NEW c \in Connectors, c \notin late
        PROVE  object[c].s = kernel[c].s /\ c \notin deleted
    <3>1. ~Named(c)
      BY <2>4 DEF Named, Due
    <3>2. ~SeenSelected(c) /\ ~SeenProbing(c)
      BY <2>2, NoPlanFacts DEF SeenSelected, SeenProbing
    <3>3. SeenIdle(c)
      BY <2>1, <2>5, <3>1, <3>2, SeenCases DEF Seen, Missed
    <3>4. QED BY <2>4, <3>3 DEF SeenIdle, Right
  <2>6. deleted \subseteq Connectors
    BY <2>1 DEF TypeOK, Existing
  <2>7. QED BY <2>1, <2>2, <2>3, <2>4, <2>5, <2>6 DEF AttachInv
<1>2. IInv => HotplugsSeen
  BY <1>1 DEF HotplugsSeen
<1>3. QED BY <1>2, Inductive, PTL

(* Only these steps touch the connectors, or what is attached.             *)
LEMMA DeviceSteps ==
  ASSUME [Next]_vars
  PROVE  \/ Phase3 \/ RecoveryReprobe
         \/ ClientApplies /\ attached' = attached
         \/ RecoveryTeardown /\ object' = object
         \/ object' = object /\ attached' = attached
<1>1. CASE Handling
  BY <1>1 DEF Handling, Defer, Phase1, ProbeResources, ProbeNew, ProbeTarget, device
<1>2. CASE ThreadSteps
  BY <1>2 DEF ThreadSteps, ReadUEvents, Followup, SettleTimeout, StartBootAnimation,
     StopBootAnimation, FlushDeferredHotplug, SettleThreadWakes, RecoveryWaits,
     RecoveryTeardown, device
<1>3. CASE ClientApplies
  BY <1>3 DEF ClientApplies
<1>4. CASE \E c \in Connectors : KernelChanges(c) \/ KernelSettles(c) \/ ClientReads(c)
  BY <1>4 DEF KernelChanges, KernelSettles, ClientReads, device
<1>5. CASE UNCHANGED vars
  BY <1>5 DEF vars, device
<1>6. QED BY <1>1, <1>2, <1>3, <1>4, <1>5 DEF Next

(* A probe that was overtaken while it was off the lock, or that found     *)
(* nothing, never takes a connector back: what is applied to one that is   *)
(* not marked deleted is at least as new as what was.                      *)
THEOREM NeverOlderCorrect == Spec => NeverOlder
<1>1. ASSUME IInv, [Next]_vars, NEW c \in Existing \ deleted, object'[c].s # "gone"
      PROVE  object'[c].v >= object[c].v
  <2>1. /\ TypeOK /\ VersionInv
        /\ c \in Connectors /\ object[c].v \in 0 .. kernel[c].v /\ kernel[c].v \in 0 .. changes
        /\ changes \in 0 .. MaxChanges /\ object \in [Connectors -> Reads]
    BY <1>1 DEF IInv, VersionInv, TypeOK, Existing
  <2>2. object[c].v \in Nat /\ kernel[c].v \in Nat /\ kernel[c].v >= object[c].v
    BY <2>1, ConstantsAssumption
  <2>3. CASE Phase3
    <3>1. object'[c] = After(c) /\ plan.phase = "probe"
      BY <2>1, <2>3, Phase3Outcome
    <3>2. QED BY <1>1, <2>1, <3>1, AfterRead
  <2>4. CASE RecoveryReprobe
    <3>1. PICK lost \in {{}} \cup {{d} : d \in Connectors} :
            object' = [d \in Connectors |->
                         IF d \in deleted' THEN Read("off", kernel[d].v)
                         ELSE IF d \in lost THEN Read("gone", 0) ELSE kernel[d]]
      BY <2>4 DEF RecoveryReprobe
    <3>2. object'[c] \in {Read("off", kernel[c].v), Read("gone", 0), kernel[c]}
      BY <2>1, <3>1
    <3>3. QED BY <1>1, <2>2, <3>2, ReadFacts
  <2>5. CASE ClientApplies
    <3>1. client # Nobody /\ object' = [object EXCEPT ![client] = Applied(found)]
      BY <2>5 DEF ClientApplies
    <3>2. CASE c = client
      <4>1. found.v \in object[c].v .. kernel[c].v /\ found \in Reads
        BY <2>1, <3>1, <3>2 DEF VersionInv, TypeOK
      <4>2. found # NotRead
        BY <2>2, <4>1, ReadFacts
      <4>3. object'[c].v = found.v
        BY <2>1, <3>1, <3>2, <4>1, <4>2, AppliedFacts
      <4>4. QED BY <2>2, <4>1, <4>3
    <3>3. CASE c # client
      BY <2>1, <2>2, <3>1, <3>3
    <3>4. QED BY <3>2, <3>3
  <2>6. CASE object' = object
    BY <2>2, <2>6
  <2>7. QED BY <1>1, <2>3, <2>4, <2>5, <2>6, DeviceSteps
<1>2. IInv /\ [Next]_vars =>
        [\A c \in Existing \ deleted :
           object'[c].s # "gone" => object'[c].v >= object[c].v]_vars
  BY <1>1
<1>3. QED BY <1>2, Inductive, PTL DEF Spec, NeverOlder

(* Who is past the check while the boot animation runs, was before.        *)
LEMMA NobodySetsOut ==
  ASSUME IInv, [Next]_vars, booting
  PROVE  PastTheCheck' \subseteq PastTheCheck
<1> DEFINE Past == plan'.owner \in {plan.owner, Nobody}
           Recovers == pc'["recovery"] = pc["recovery"] \/ pc'["recovery"] = "done"
                         \/ pc["recovery"] \in {"teardown", "pause"}
<1>1. /\ TypeOK /\ StepInv /\ BootInv /\ PlanInv
      /\ pc \in [Threads -> Steps] /\ plan \in Plans
      /\ Threads = {"listener", "stopper", "settle", "recovery"}
  BY ThreadTypes DEF IInv
<1>2. Nobody \notin Threads /\ "recovery" \in Threads
  BY DEF Threads, Nobody
<1>3. CASE Handling
  <2>1. Past
    BY <1>1, <1>3, NoPlanFacts
       DEF Handling, Defer, Phase1, ProbeResources, ProbeNew, ProbeTarget, Phase3, Handles, Plans
  <2>2. ASSUME \E t \in Handlers : Defer(t)
        PROVE  Recovers
    <3>1. PICK t \in Handlers : Defer(t)
      BY <2>2
    <3>2. pc[t] \in AtWork /\ ListenerTold /\ Return(t, FALSE)
      BY <1>1, <3>1, BootParts DEF Defer, Handles, AtWork
    <3>3. QED BY <1>1, <3>2, ReturnFacts
  <2>3. ASSUME Phase3
        PROVE  Recovers
    <3>1. plan.owner \in Handlers /\ pc[plan.owner] \in AtWork /\ ListenerTold
      BY <1>1, <2>3, NoPlanFacts, BootParts DEF Phase3, PlanInv, AtWork
    <3>2. PICK needed \in BOOLEAN : Return(plan.owner, needed)
      BY <1>1, <2>3, Phase3Outcome
    <3>3. QED BY <1>1, <3>1, <3>2, ReturnFacts
  <2>4. ASSUME ~Phase3, ~(\E t \in Handlers : Defer(t))
        PROVE  Recovers
    BY <1>3, <2>4 DEF Handling, Phase1, ProbeResources, ProbeNew, ProbeTarget
  <2>5. Recovers
    BY <2>2, <2>3, <2>4
  <2>6. QED BY <1>2, <2>1, <2>5 DEF PastTheCheck
<1>4. CASE ThreadSteps
  <2>1. plan' = plan
    BY <1>4 DEF ThreadSteps, ReadUEvents, Followup, SettleTimeout, StartBootAnimation,
       StopBootAnimation, FlushDeferredHotplug, SettleThreadWakes, RecoveryWaits,
       RecoveryTeardown, RecoveryReprobe
  <2>2. ~RecoveryWaits
    BY DEF RecoveryWaits, DelayAndAnimationAreOver
  <2>3. ASSUME RecoveryTeardown \/ RecoveryReprobe
        PROVE  Recovers
    BY <2>3 DEF RecoveryTeardown, RecoveryReprobe
  <2>4. ASSUME \/ ReadUEvents \/ Followup \/ SettleTimeout \/ StartBootAnimation
               \/ StopBootAnimation \/ FlushDeferredHotplug \/ SettleThreadWakes
        PROVE  Recovers
    BY <1>1, <2>4 DEF ReadUEvents, Followup, SettleTimeout, StartBootAnimation,
       StopBootAnimation, FlushDeferredHotplug, SettleThreadWakes, Goto
  <2>5. Recovers
    BY <1>4, <2>2, <2>3, <2>4 DEF ThreadSteps
  <2>6. QED BY <1>2, <2>1, <2>5 DEF PastTheCheck
<1>5. CASE ClientApplies
  <2>1. plan'.owner = plan.owner /\ pc' = pc
    BY <1>1, <1>5 DEF ClientApplies, Plans
  <2>2. QED BY <2>1 DEF PastTheCheck
<1>6. CASE \E c \in Connectors : KernelChanges(c) \/ KernelSettles(c) \/ ClientReads(c)
  BY <1>6 DEF KernelChanges, KernelSettles, ClientReads, PastTheCheck
<1>7. CASE UNCHANGED vars
  BY <1>7 DEF vars, PastTheCheck
<1>8. QED BY <1>3, <1>4, <1>5, <1>6, <1>7 DEF Next

(* While the boot animation runs, nobody sets out to attach or to detach a *)
(* display; those that had set out before it started end what they do.     *)
THEOREM AnimationUndisturbedCorrect == Spec => AnimationUndisturbed
<1>1. ASSUME IInv, [Next]_vars, booting, attached' # attached
      PROVE  \E t \in PastTheCheck : pc'[t] # pc[t]
  <2>1. /\ TypeOK /\ StepInv /\ BootInv /\ PlanInv /\ "recovery" \in Threads
        /\ pc \in [Threads -> Steps]
    BY <1>1, ThreadTypes DEF IInv
  <2>2. CASE Phase3
    <3>1. plan.owner \in Handlers /\ pc[plan.owner] \in AtWork /\ ListenerTold
      BY <2>1, <2>2, NoPlanFacts, BootParts DEF Phase3, PlanInv, AtWork
    <3>2. PICK needed \in BOOLEAN : Return(plan.owner, needed)
      BY <2>1, <2>2, Phase3Outcome
    <3>3. pc'[plan.owner] \notin AtWork
      BY <2>1, <3>1, <3>2, ReturnFacts
    <3>4. plan.owner \in PastTheCheck
      BY <3>1 DEF PastTheCheck, Handlers, Threads
    <3>5. QED BY <3>1, <3>3, <3>4
  <2>3. CASE RecoveryTeardown \/ RecoveryReprobe
    <3>1. pc["recovery"] \in {"teardown", "pause"} /\ pc'["recovery"] # pc["recovery"]
      BY <2>1, <2>3 DEF RecoveryTeardown, RecoveryReprobe, Goto
    <3>2. "recovery" \in PastTheCheck
      BY <2>1, <3>1 DEF PastTheCheck
    <3>3. QED BY <3>1, <3>2
  <2>4. QED BY <1>1, <2>2, <2>3, DeviceSteps
<1>2. IInv /\ [Next]_vars =>
        [booting => /\ PastTheCheck' \subseteq PastTheCheck
                    /\ attached' # attached => \E t \in PastTheCheck : pc'[t] # pc[t]]_vars
  BY <1>1, NobodySetsOut
<1>3. QED BY <1>2, Inductive, PTL DEF Spec, AnimationUndisturbed
=============================================================================

------------------------ MODULE DisplayBinding_proofs ------------------------
(***************************************************************************)
(* Proofs about DisplayBinding, for any connectors, tiles and CRTCs.       *)
(*                                                                         *)
(* The operations of DrmHwc work on a record, so what each of them keeps   *)
(* is a lemma about records (Sound), and what an action keeps follows from *)
(* the lemma of the operation it calls.                                    *)
(***************************************************************************)
EXTENDS DisplayBinding, FiniteSetTheorems, TLAPS

USE ConstantsAssumption DEF ConstantsAssumption

Records ==
  [display : [Handles -> Connectors \cup {Headless, Absent}],
   handle : [Connectors -> Handles \cup {NoHandle}],
   last : Handles, removal : SUBSET Handles, announced : SUBSET Handles]

(* displays_ and display_handles_ are inverse, but for the connector l,    *)
(* whose display may have lost its pipeline.                               *)
BothWays(d, l) ==
  /\ \A c \in Connectors, h \in Handles : d.display[h] = c => d.handle[c] = h
  /\ \A c \in Connectors : d.handle[c] # NoHandle =>
       \/ d.display[d.handle[c]] = c
       \/ c = l /\ d.display[d.handle[c]] = Headless /\ d.handle[c] \notin d.removal

(* New handles are fresh, and what is to be removed is no longer used.     *)
Fresh(d) ==
  /\ \A h \in Handles : d.display[h] # Absent => h <= d.last
  /\ \A h \in d.removal : h # Primary /\ d.display[h] = Headless

Told(d) == d.announced = {h \in Handles : d.display[h] # Absent /\ h \notin d.removal}

Sound(d, l) == d \in Records /\ BothWays(d, l) /\ Fresh(d) /\ Told(d)

USE DEF Primary, Handles, NoHandle, Headless, Absent, Nobody

(* UnbindDisplay, field by field, and that it leaves nothing half bound.   *)
LEMMA UnbindSound ==
  ASSUME NEW d, NEW c \in Connectors, NEW l, Sound(d, l), l = c \/ l = Nobody
  PROVE  /\ Sound(UnbindDisplay(d, c), Nobody)
         /\ UnbindDisplay(d, c).handle = [d.handle EXCEPT ![c] = NoHandle]
         /\ UnbindDisplay(d, c).last = d.last
         /\ d.display[Primary] = Headless =>
              UnbindDisplay(d, c).display[Primary] = Headless
<1> DEFINE e == UnbindDisplay(d, c)
           h == d.handle[c]
<1>1. CASE h = NoHandle
  <2>1. e = d /\ d.handle = [d.handle EXCEPT ![c] = NoHandle]
    BY <1>1 DEF UnbindDisplay, Sound, Records
  <2>2. BothWays(d, Nobody)
    BY <1>1 DEF Sound, BothWays, Records
  <2> QED BY <2>1, <2>2 DEF Sound
<1>2. CASE h # NoHandle
  <2>1. /\ e.display = [d.display EXCEPT ![h] = Headless]
        /\ e.handle = [d.handle EXCEPT ![c] = NoHandle]
        /\ e.last = d.last
        /\ e.removal = IF h = Primary THEN d.removal ELSE d.removal \cup {h}
        /\ e.announced = IF h = Primary THEN d.announced \cup {h} ELSE d.announced \ {h}
        /\ e = [display |-> e.display, handle |-> e.handle, last |-> e.last,
                removal |-> e.removal, announced |-> e.announced]
    BY <1>2 DEF UnbindDisplay, SetPipeline, Sound, Records
  <2>2. h \in Handles /\ d.display[h] \in {c, Headless}
    BY <1>2 DEF Sound, Records, BothWays
  <2> HIDE DEF e, h
  <2>3. e \in Records
    <3>1. /\ d.display \in [Handles -> Connectors \cup {Headless, Absent}]
          /\ d.handle \in [Connectors -> Handles \cup {NoHandle}]
          /\ d.last \in Handles /\ d.removal \subseteq Handles
          /\ d.announced \subseteq Handles
      BY DEF Sound, Records
    <3>2. e.display \in [Handles -> Connectors \cup {Headless, Absent}]
      BY <3>1, <2>1, <2>2
    <3>3. e.handle \in [Connectors -> Handles \cup {NoHandle}]
      BY <3>1, <2>1
    <3>4. e.removal \subseteq Handles /\ e.announced \subseteq Handles /\ e.last \in Handles
      BY <3>1, <2>1, <2>2
    <3> QED BY <2>1, <3>2, <3>3, <3>4 DEF Records
  <2>4. BothWays(e, Nobody)
    BY <2>1, <2>2 DEF Sound, Records, BothWays, h
  <2>5. Fresh(e)
    BY <2>1, <2>2 DEF Sound, Records, Fresh
  <2>6. Told(e)
    BY <2>1, <2>2 DEF Sound, Records, Fresh, Told
  <2> QED BY <2>1, <2>3, <2>4, <2>5, <2>6 DEF Sound, e, Records
<1> QED BY <1>1, <1>2

(* HandleToBind: the primary handle, or one that was never used.           *)
LEMMA HandleToBindFree ==
  ASSUME NEW d, Sound(d, Nobody), d.last < MaxHandle
  PROVE  LET h == HandleToBind(d) IN
         /\ h \in Handles /\ (h = Primary \/ h = d.last + 1)
         /\ h \notin d.removal
         /\ d.display[h] \in {Headless, Absent}
         /\ \A c \in Connectors : d.handle[c] # h
         /\ h # Primary => d.display[h] = Absent
<1> DEFINE h == HandleToBind(d)
<1>1. CASE d.display[Primary] \in {Headless, Absent}
  <2>1. h = Primary
    BY <1>1 DEF HandleToBind
  <2> QED BY <1>1, <2>1 DEF Sound, Records, Fresh, BothWays
<1>2. CASE d.display[Primary] \notin {Headless, Absent}
  <2>1. h = d.last + 1 /\ h \in Handles
    BY <1>2 DEF HandleToBind, Sound, Records
  <2>2. d.display[h] = Absent
    BY <2>1 DEF Sound, Records, Fresh
  <2> QED BY <2>1, <2>2 DEF Sound, Records, Fresh, BothWays
<1> QED BY <1>1, <1>2

(* BindDisplay, for a pipeline that has no display.                        *)
LEMMA BindSound ==
  ASSUME NEW d, NEW c \in Connectors, Sound(d, Nobody), d.handle[c] = NoHandle,
         HandleToBind(d) = Primary \/ d.last < MaxHandle
  PROVE  /\ Sound(BindDisplay(d, c), Nobody)
         /\ BindDisplay(d, c).handle = [d.handle EXCEPT ![c] = HandleToBind(d)]
         /\ HandleToBind(d) \in Handles
         /\ BindDisplay(d, c).last <= d.last + 1
         /\ HandleToBind(d) = Primary => BindDisplay(d, c).display[Primary] = c
<1> DEFINE e == BindDisplay(d, c)
           h == HandleToBind(d)
<1>1. /\ h \in Handles /\ (h = Primary \/ h = d.last + 1)
      /\ h \notin d.removal
      /\ d.display[h] \in {Headless, Absent}
      /\ \A b \in Connectors : d.handle[b] # h
  <2>1. CASE d.last < MaxHandle
    BY <2>1, HandleToBindFree
  <2>2. CASE h = Primary
    <3>1. d.display[Primary] \in {Headless, Absent}
      BY <2>2 DEF HandleToBind, Sound, Records
    <3> QED BY <2>2, <3>1 DEF Sound, Records, Fresh, BothWays
  <2> QED BY <2>1, <2>2
<1>2. c # Headless /\ c # Absent
  OBVIOUS
<1>3. /\ e.display = [d.display EXCEPT ![h] = c]
      /\ e.handle = [d.handle EXCEPT ![c] = h]
      /\ e.last = IF h = Primary THEN d.last ELSE h
      /\ e.removal = d.removal
      /\ e.announced = d.announced \cup {h}
      /\ e = [display |-> e.display, handle |-> e.handle, last |-> e.last,
              removal |-> e.removal, announced |-> e.announced]
  <2> DEFINE s == SetPipeline(d, h, c)
  <2>1. s = [d EXCEPT !.display[h] = c, !.announced = @ \cup {h}]
    BY <1>2 DEF SetPipeline
  <2>2. /\ s.display = [d.display EXCEPT ![h] = c] /\ s.handle = d.handle
        /\ s.last = d.last /\ s.removal = d.removal
        /\ s.announced = d.announced \cup {h}
    BY <2>1 DEF Sound, Records
  <2>3. s = [display |-> s.display, handle |-> s.handle, last |-> s.last,
             removal |-> s.removal, announced |-> s.announced]
    BY <2>1 DEF Sound, Records
  <2>4. e = [s EXCEPT !.handle[c] = h, !.last = IF h = Primary THEN @ ELSE h]
    BY DEF BindDisplay
  <2> HIDE DEF s, e, h
  <2>5. /\ e.display = s.display /\ e.handle = [s.handle EXCEPT ![c] = h]
        /\ e.last = (IF h = Primary THEN s.last ELSE h)
        /\ e.removal = s.removal /\ e.announced = s.announced
    BY <2>3, <2>4
  <2>6. e = [display |-> e.display, handle |-> e.handle, last |-> e.last,
             removal |-> e.removal, announced |-> e.announced]
    BY <2>3, <2>4
  <2> QED BY <2>2, <2>5, <2>6
<1>4. /\ d.display \in [Handles -> Connectors \cup {Headless, Absent}]
      /\ d.handle \in [Connectors -> Handles \cup {NoHandle}]
      /\ d.last \in Handles /\ d.removal \subseteq Handles
      /\ d.announced \subseteq Handles
  BY DEF Sound, Records
<1> HIDE DEF e, h
<1>5. e \in Records
  <2>1. e.display \in [Handles -> Connectors \cup {Headless, Absent}]
    BY <1>1, <1>3, <1>4
  <2>2. e.handle \in [Connectors -> Handles \cup {NoHandle}]
    BY <1>1, <1>3, <1>4
  <2>3. e.removal \subseteq Handles /\ e.announced \subseteq Handles /\ e.last \in Handles
    BY <1>1, <1>3, <1>4
  <2> QED BY <1>3, <2>1, <2>2, <2>3 DEF Records
<1>6. BothWays(e, Nobody)
  BY <1>1, <1>3, <1>4 DEF Sound, BothWays
<1>7. Fresh(e)
  BY <1>1, <1>3, <1>4 DEF Sound, Fresh
<1>8. Told(e)
  BY <1>1, <1>2, <1>3, <1>4 DEF Sound, Fresh, Told
<1>9. e.last <= d.last + 1 /\ (h = Primary => e.display[Primary] = c)
  BY <1>1, <1>3, <1>4
<1> QED BY <1>1, <1>3, <1>5, <1>6, <1>7, <1>8, <1>9 DEF Sound, e, h

(* A display that loses its pipeline, because a new one could not be set.  *)
LEMMA SetPipelineFailsSound ==
  ASSUME NEW d, NEW l, NEW h \in Handles, Sound(d, l), h \notin d.removal,
         d.display[h] # Absent \/ h = Primary,
         \A c \in Connectors \ {l} : d.handle[c] # h
  PROVE  /\ Sound(SetPipelineFails(d, h), l)
         /\ SetPipelineFails(d, h).handle = d.handle
         /\ SetPipelineFails(d, h).last = d.last
<1> DEFINE e == SetPipelineFails(d, h)
<1>1. /\ e.display = [d.display EXCEPT ![h] = Headless]
      /\ e.handle = d.handle /\ e.last = d.last /\ e.removal = d.removal
      /\ e.announced = d.announced \cup ({h} \cap {Primary})
      /\ e = [display |-> e.display, handle |-> e.handle, last |-> e.last,
              removal |-> e.removal, announced |-> e.announced]
  <2>1. e = [d EXCEPT !.display[h] = Headless, !.announced = @ \cup ({h} \cap {Primary})]
    BY DEF SetPipelineFails
  <2>2. d = [display |-> d.display, handle |-> d.handle, last |-> d.last,
             removal |-> d.removal, announced |-> d.announced]
    BY DEF Sound, Records
  <2> HIDE DEF e
  <2>3. e.display = [d.display EXCEPT ![h] = Headless]
    BY <2>1, <2>2
  <2>4. e.handle = d.handle /\ e.last = d.last /\ e.removal = d.removal
    BY <2>1, <2>2
  <2>5. e.announced = d.announced \cup ({h} \cap {Primary})
    BY <2>1, <2>2
  <2>6. e = [display |-> e.display, handle |-> e.handle, last |-> e.last,
             removal |-> e.removal, announced |-> e.announced]
    BY <2>1, <2>2
  <2> QED BY <2>3, <2>4, <2>5, <2>6
<1>2. /\ d.display \in [Handles -> Connectors \cup {Headless, Absent}]
      /\ d.handle \in [Connectors -> Handles \cup {NoHandle}]
      /\ d.last \in Handles /\ d.removal \subseteq Handles
      /\ d.announced \subseteq Handles
  BY DEF Sound, Records
<1> HIDE DEF e
<1>3. e \in Records
  <2>1. e.display \in [Handles -> Connectors \cup {Headless, Absent}]
    BY <1>1, <1>2
  <2>2. e.announced \subseteq Handles
    BY <1>1, <1>2
  <2> QED BY <1>1, <1>2, <2>1, <2>2 DEF Records
<1>4. BothWays(e, l)
  BY <1>1, <1>2 DEF Sound, BothWays
<1>5. Fresh(e)
  BY <1>1, <1>2 DEF Sound, Fresh
<1>6. Told(e)
  <2>1. \A x \in Handles : e.display[x] # Absent <=>
                            d.display[x] # Absent \/ (x = h /\ h = Primary)
    BY <1>1, <1>2
  <2>2. \A x \in Handles : x \in d.announced <=> d.display[x] # Absent /\ x \notin d.removal
    BY DEF Sound, Told
  <2>3. \A x \in Handles : x \in e.announced <=> e.display[x] # Absent /\ x \notin e.removal
    BY <1>1, <2>1, <2>2
  <2> QED BY <1>3, <2>3 DEF Told, Records
<1> QED BY <1>1, <1>3, <1>4, <1>5, <1>6 DEF Sound, e

(* BindDisplay when the pipeline cannot be set.                            *)
LEMMA BindFailsSound ==
  ASSUME NEW d, Sound(d, Nobody), HandleToBind(d) = Primary \/ d.last < MaxHandle
  PROVE  /\ Sound(BindDisplayFails(d), Nobody)
         /\ BindDisplayFails(d).handle = d.handle
         /\ BindDisplayFails(d).last <= d.last + 1
<1>1. CASE HandleToBind(d) = Primary
  <2>1. d.display[Primary] \in {Headless, Absent}
    BY <1>1 DEF HandleToBind, Sound, Records
  <2>2. Primary \in Handles /\ Primary \notin d.removal
    BY DEF Sound, Fresh
  <2>3. \A c \in Connectors : d.handle[c] # Primary
    BY <2>1 DEF Sound, BothWays
  <2>4. BindDisplayFails(d) = SetPipelineFails(d, Primary)
    BY <1>1 DEF BindDisplayFails
  <2>5. d.last \in Int
    BY DEF Sound, Records
  <2> QED BY <2>2, <2>3, <2>4, <2>5, SetPipelineFailsSound
<1>2. CASE HandleToBind(d) # Primary
  <2> DEFINE e == BindDisplayFails(d)
  <2>1. HandleToBind(d) = d.last + 1 /\ d.last + 1 \in Handles /\ d.last \in Handles
    BY <1>2, HandleToBindFree DEF Sound, Records
  <2>2. e = [d EXCEPT !.last = d.last + 1]
    BY <1>2, <2>1 DEF BindDisplayFails
  <2>3. /\ e.display = d.display /\ e.handle = d.handle /\ e.last = d.last + 1
        /\ e.removal = d.removal /\ e.announced = d.announced /\ e \in Records
    BY <2>1, <2>2 DEF Sound, Records
  <2> HIDE DEF e
  <2>4. Fresh(e)
    BY <2>1, <2>3 DEF Sound, Fresh, Records
  <2> QED BY <2>1, <2>3, <2>4 DEF Sound, BothWays, Told, e
<1> QED BY <1>1, <1>2

(* ReplaceDisplay of a connector that has a display by one that has none.  *)
LEMMA ReplaceSound ==
  ASSUME NEW d, NEW old \in Connectors, NEW new \in Connectors, Sound(d, old),
         d.handle[old] # NoHandle, d.handle[new] = NoHandle
  PROVE  /\ Sound(ReplaceDisplay(d, old, new), Nobody)
         /\ ReplaceDisplay(d, old, new).last = d.last
         /\ \A c \in Connectors : ReplaceDisplay(d, old, new).handle[c] =
              IF c = old THEN NoHandle ELSE IF c = new THEN d.handle[old] ELSE d.handle[c]
<1> DEFINE e == ReplaceDisplay(d, old, new)
           h == d.handle[old]
<1>1. /\ d.display \in [Handles -> Connectors \cup {Headless, Absent}]
      /\ d.handle \in [Connectors -> Handles \cup {NoHandle}]
      /\ d.last \in Handles /\ d.removal \subseteq Handles
      /\ d.announced \subseteq Handles
      /\ d = [display |-> d.display, handle |-> d.handle, last |-> d.last,
              removal |-> d.removal, announced |-> d.announced]
  BY DEF Sound, Records
<1>2. h \in Handles /\ d.display[h] \in {old, Headless} /\ h \notin d.removal
  BY DEF Sound, Records, BothWays, Fresh
<1>3. /\ e.display = [d.display EXCEPT ![h] = new]
      /\ e.handle = [d.handle EXCEPT ![old] = NoHandle, ![new] = h]
      /\ e.last = d.last /\ e.removal = d.removal
      /\ e.announced = d.announced \cup {h}
      /\ e \in Records
  <2> DEFINE s == SetPipeline(d, h, new)
  <2>1. s = [d EXCEPT !.display[h] = new, !.announced = @ \cup {h}]
    BY DEF SetPipeline
  <2>2. /\ s.display = [d.display EXCEPT ![h] = new] /\ s.handle = d.handle
        /\ s.last = d.last /\ s.removal = d.removal
        /\ s.announced = d.announced \cup {h}
    BY <1>1, <2>1
  <2>3. s = [display |-> s.display, handle |-> s.handle, last |-> s.last,
             removal |-> s.removal, announced |-> s.announced]
    BY <1>1, <2>1
  <2>4. e = [s EXCEPT !.handle[old] = NoHandle, !.handle[new] = h]
    BY DEF ReplaceDisplay
  <2> HIDE DEF s, e, h
  <2>5. /\ e.display = s.display
        /\ e.handle = [s.handle EXCEPT ![old] = NoHandle, ![new] = h]
        /\ e.last = s.last /\ e.removal = s.removal /\ e.announced = s.announced
    BY <2>3, <2>4
  <2>6. e = [display |-> e.display, handle |-> e.handle, last |-> e.last,
             removal |-> e.removal, announced |-> e.announced]
    BY <2>3, <2>4
  <2>7. e.display \in [Handles -> Connectors \cup {Headless, Absent}]
    BY <1>1, <1>2, <2>2, <2>5
  <2>8. e.handle \in [Connectors -> Handles \cup {NoHandle}]
    BY <1>1, <1>2, <2>2, <2>5
  <2>9. e.announced \subseteq Handles
    BY <1>1, <1>2, <2>2, <2>5
  <2> QED BY <1>1, <2>2, <2>5, <2>6, <2>7, <2>8, <2>9 DEF Records
<1> HIDE DEF e, h
<1>4. old # new /\ new # Headless /\ new # Absent /\ old # Headless /\ old # Absent
  BY DEF h
<1>5. \A c \in Connectors \ {old, new} : d.handle[c] # h
  BY <1>1, <1>2, <1>4 DEF Sound, BothWays, h
<1>6. \A c \in Connectors : e.handle[c] =
        IF c = old THEN NoHandle ELSE IF c = new THEN h ELSE d.handle[c]
  BY <1>1, <1>3, <1>4
<1>7. BothWays(e, Nobody)
  <2>1. ASSUME NEW c \in Connectors, NEW x \in Handles, e.display[x] = c
        PROVE  e.handle[c] = x
    <3>1. CASE x = h
      BY <1>1, <1>2, <1>3, <1>4, <1>6, <2>1, <3>1
    <3>2. CASE x # h
      <4>1. d.display[x] = c /\ d.handle[c] = x
        BY <1>1, <1>2, <1>3, <2>1, <3>2 DEF Sound, BothWays
      <4>2. c # old /\ c # new
        BY <3>2, <4>1 DEF h
      <4> QED BY <1>6, <4>1, <4>2
    <3> QED BY <3>1, <3>2
  <2>2. ASSUME NEW c \in Connectors, e.handle[c] # NoHandle
        PROVE  e.display[e.handle[c]] = c
    <3>1. CASE c = new
      BY <1>1, <1>2, <1>3, <1>4, <1>6, <3>1
    <3>2. CASE c # new
      <4>1. c # old /\ e.handle[c] = d.handle[c] /\ d.handle[c] # h
        BY <1>5, <1>6, <2>2, <3>2
      <4>2. d.display[d.handle[c]] = c /\ d.handle[c] \in Handles
        BY <1>1, <2>2, <4>1 DEF Sound, BothWays
      <4> QED BY <1>1, <1>2, <1>3, <4>1, <4>2
    <3> QED BY <3>1, <3>2
  <2> QED BY <2>1, <2>2 DEF BothWays
<1>8. Fresh(e)
  BY <1>1, <1>2, <1>3, <1>4 DEF Sound, Fresh
<1>9. Told(e)
  <2>1. \A x \in Handles : e.display[x] # Absent <=> d.display[x] # Absent
    BY <1>1, <1>2, <1>3, <1>4
  <2>2. \A x \in Handles : x \in d.announced <=> d.display[x] # Absent /\ x \notin d.removal
    BY DEF Sound, Told
  <2>3. \A x \in Handles : x \in e.announced <=> e.display[x] # Absent /\ x \notin e.removal
    BY <1>2, <1>3, <1>4, <2>1, <2>2
  <2> QED BY <1>3, <2>3 DEF Told, Records
<1> QED BY <1>3, <1>6, <1>7, <1>8, <1>9 DEF Sound, e, h

(* The first and the last part of FinalizeDisplayBinding.                  *)
LEMMA WithPrimarySound ==
  ASSUME NEW d, Sound(d, Nobody)
  PROVE  /\ Sound(WithPrimary(d), Nobody)
         /\ WithPrimary(d).handle = d.handle
         /\ WithPrimary(d).last = d.last
<1>1. CASE d.display[Primary] = Absent
  <2>1. WithPrimary(d) = SetPipelineFails(d, Primary)
    BY <1>1 DEF WithPrimary, SetPipeline, SetPipelineFails
  <2>2. Primary \in Handles /\ Primary \notin d.removal
    BY DEF Sound, Fresh
  <2>3. \A c \in Connectors : d.handle[c] # Primary
    BY <1>1 DEF Sound, BothWays
  <2> QED BY <2>1, <2>2, <2>3, SetPipelineFailsSound
<1>2. CASE d.display[Primary] # Absent
  BY <1>2 DEF WithPrimary
<1> QED BY <1>1, <1>2

LEMMA WithoutRemovedSound ==
  ASSUME NEW d, Sound(d, Nobody)
  PROVE  /\ Sound(WithoutRemoved(d), Nobody)
         /\ WithoutRemoved(d).handle = d.handle
         /\ WithoutRemoved(d).last = d.last
         /\ WithoutRemoved(d).removal = {}
         /\ WithoutRemoved(d).display[Primary] = d.display[Primary]
<1> DEFINE e == WithoutRemoved(d)
<1>1. /\ d.display \in [Handles -> Connectors \cup {Headless, Absent}]
      /\ d.handle \in [Connectors -> Handles \cup {NoHandle}]
      /\ d.last \in Handles /\ d.removal \subseteq Handles
      /\ d.announced \subseteq Handles
      /\ d = [display |-> d.display, handle |-> d.handle, last |-> d.last,
              removal |-> d.removal, announced |-> d.announced]
  BY DEF Sound, Records
<1>2. e = [d EXCEPT !.display = [h \in Handles |-> IF h \in d.removal THEN Absent
                                                   ELSE d.display[h]],
                    !.removal = {}]
  BY <1>1 DEF WithoutRemoved
<1> HIDE DEF e
<1>3. /\ e.display = [h \in Handles |-> IF h \in d.removal THEN Absent ELSE d.display[h]]
      /\ e.handle = d.handle /\ e.last = d.last /\ e.removal = {}
      /\ e.announced = d.announced
  BY <1>1, <1>2
<1>4. e = [display |-> e.display, handle |-> e.handle, last |-> e.last,
           removal |-> e.removal, announced |-> e.announced]
  BY <1>1, <1>2
<1>5. e.display \in [Handles -> Connectors \cup {Headless, Absent}]
  BY <1>1, <1>3
<1>6. e \in Records
  BY <1>1, <1>3, <1>4, <1>5 DEF Records
<1>7. BothWays(e, Nobody)
  <2>1. ASSUME NEW c \in Connectors, NEW h \in Handles, e.display[h] = c
        PROVE  e.handle[c] = h
    BY <1>1, <1>3, <2>1 DEF Sound, BothWays
  <2>2. ASSUME NEW c \in Connectors, e.handle[c] # NoHandle
        PROVE  e.display[e.handle[c]] = c
    <3>1. d.handle[c] \in Handles /\ d.display[d.handle[c]] = c
      BY <1>1, <1>3, <2>2 DEF Sound, BothWays
    <3>2. d.handle[c] \notin d.removal
      BY <3>1 DEF Sound, Fresh
    <3> QED BY <1>1, <1>3, <3>1, <3>2
  <2> QED BY <2>1, <2>2 DEF BothWays
<1>8. Fresh(e)
  BY <1>1, <1>3 DEF Sound, Fresh
<1>9. Told(e)
  BY <1>1, <1>3 DEF Sound, Told
<1>10. e.display[Primary] = d.display[Primary]
  BY <1>1, <1>3 DEF Sound, Fresh
<1> QED BY <1>3, <1>6, <1>7, <1>8, <1>9, <1>10 DEF Sound, e

-----------------------------------------------------------------------------
(* The inductive invariant.                                                *)

AttachedInv ==
  \A c \in Connectors : c \in attached <=> hwc.handle[c] # NoHandle \/ c \in unpromoted

(* Of the tiles at most one is attached, and another one takes over from   *)
(* it alone.                                                               *)
TileInv ==
  /\ tiled = attached \cap Tiles
  /\ \A a, b \in tiled : a = b
  /\ step = "failover" => /\ todo \cap attached = {} /\ todo \subseteq Tiles
                          /\ todo # {} => leaving \in tiled

(* What is left of an update needs at most so many handles.                *)
HandlesLeft ==
  /\ step \in {"stale", "disconnect", "failover"} =>
       hwc.last + Cardinality(Connectors) <= MaxHandle
  /\ step = "connect" => hwc.last + Cardinality(todo) <= MaxHandle

IInv ==
  /\ TypeOK /\ Sound(hwc, leaving) /\ AttachedInv /\ TileInv /\ HandlesLeft
  /\ step = "idle" => hwc.removal = {}
  /\ PrimaryTaken

LEMMA CardinalityOfTodo ==
  ASSUME NEW S \in SUBSET Connectors
  PROVE  /\ Cardinality(S) \in Nat
         /\ \A c \in S : Cardinality(S \ {c}) = Cardinality(S) - 1 /\ Cardinality(S) >= 1
<1>1. IsFiniteSet(S)
  BY FS_Subset
<1>2. Cardinality(S) \in Nat
  BY <1>1, FS_CardinalityType
<1>3. ASSUME NEW c \in S
      PROVE  Cardinality(S \ {c}) = Cardinality(S) - 1 /\ Cardinality(S) >= 1
  <2>1. Cardinality(S \ {c}) = Cardinality(S) - 1 /\ IsFiniteSet(S \ {c})
    BY <1>1, <1>3, FS_RemoveElement
  <2>2. Cardinality(S \ {c}) \in Nat
    BY <2>1, FS_CardinalityType
  <2> QED BY <1>2, <2>1, <2>2
<1> QED BY <1>2, <1>3

LEMMA InitIInv == Init => IInv
<1> SUFFICES ASSUME Init PROVE IInv
  OBVIOUS
<1>1. /\ hwc.display = [h \in Handles |-> Absent]
      /\ hwc.handle = [c \in Connectors |-> NoHandle]
      /\ hwc.last = 0 /\ hwc.removal = {} /\ hwc.announced = {} /\ hwc \in Records
  BY DEF Init, Records
<1>2. Sound(hwc, leaving)
  BY <1>1 DEF Init, Sound, BothWays, Fresh, Told
<1>3. TypeOK
  <2>1. state \in [Connectors -> States]
    BY DEF Init, States
  <2> QED BY <1>1, <2>1 DEF Init, TypeOK, Records
<1>4. AttachedInv /\ TileInv /\ HandlesLeft /\ PrimaryTaken
  BY <1>1 DEF Init, AttachedInv, TileInv, HandlesLeft, PrimaryTaken, Promotable
<1> QED BY <1>1, <1>2, <1>3, <1>4 DEF IInv

(* An update begins.                                                       *)
LEMMA BeginKeepsIInv ==
  IInv /\ (BeginUpdate \/ BeginRecovery \/ BeginDeInit) => IInv'
<1> SUFFICES ASSUME IInv, BeginUpdate \/ BeginRecovery \/ BeginDeInit PROVE IInv'
  OBVIOUS
<1>1. CASE BeginUpdate
  <2>1. TypeOK'
    BY <1>1 DEF IInv, TypeOK, BeginUpdate
  <2>2. Sound(hwc, leaving)' /\ AttachedInv' /\ TileInv' /\ HandlesLeft' /\ PrimaryTaken'
    BY <1>1 DEF IInv, BeginUpdate, AttachedInv, TileInv, HandlesLeft, PrimaryTaken
  <2> QED BY <1>1, <2>1, <2>2 DEF IInv, BeginUpdate
<1>2. CASE BeginRecovery
  <2>1. TypeOK'
    BY <1>2 DEF IInv, TypeOK, BeginRecovery
  <2>2. Sound(hwc, leaving)' /\ AttachedInv' /\ TileInv' /\ HandlesLeft' /\ PrimaryTaken'
    BY <1>2 DEF IInv, BeginRecovery, AttachedInv, TileInv, HandlesLeft, PrimaryTaken
  <2> QED BY <1>2, <2>1, <2>2 DEF IInv, BeginRecovery
<1>3. CASE BeginDeInit
  <2>1. state' \in [Connectors -> States]
    BY <1>3 DEF BeginDeInit, States
  <2>2. TypeOK'
    BY <1>3, <2>1 DEF IInv, TypeOK, BeginDeInit
  <2>3. Sound(hwc, leaving)' /\ AttachedInv' /\ TileInv' /\ HandlesLeft' /\ PrimaryTaken'
    BY <1>3 DEF IInv, BeginDeInit, AttachedInv, TileInv, HandlesLeft, PrimaryTaken
  <2> QED BY <1>3, <2>2, <2>3 DEF IInv, BeginDeInit
<1> QED BY <1>1, <1>2, <1>3

(* A connector is detached, and nothing takes its display over.            *)
LEMMA DetachKeepsIInv ==
  ASSUME IInv, NEW c \in Connectors, DetachStale(c) \/ (DetachConnectorDone /\ c = leaving)
  PROVE  IInv'
<1>1. /\ hwc' = UnbindDisplay(hwc, c)
      /\ attached' = attached \ {c} /\ tiled' = tiled \ {c}
      /\ unpromoted' = unpromoted \ {c}
      /\ state' = state /\ failed' = failed /\ leaving' = Nobody
      /\ step' # "idle" /\ step' # "connect" /\ step' # "failover"
  BY DEF IInv, TypeOK, DetachStale, DetachConnectorDone, Forget
<1>2. Sound(hwc, leaving) /\ (leaving = c \/ leaving = Nobody)
  BY DEF IInv, TypeOK, DetachStale, DetachConnectorDone
<1>3. /\ Sound(hwc', Nobody) /\ hwc'.handle = [hwc.handle EXCEPT ![c] = NoHandle]
      /\ hwc'.last = hwc.last
  BY <1>1, <1>2, UnbindSound
<1>4. TypeOK'
  <2>1. hwc' \in Records
    BY <1>3 DEF Sound
  <2>2. todo' \subseteq Connectors /\ step' \in {"stale", "teardown", "disconnect"}
    BY DEF IInv, TypeOK, DetachStale, DetachConnectorDone
  <2> QED BY <1>1, <2>1, <2>2 DEF IInv, TypeOK, Records
<1>5. AttachedInv'
  <2>1. hwc.handle \in [Connectors -> Handles \cup {NoHandle}]
    BY DEF IInv, TypeOK
  <2> QED BY <1>1, <1>3, <2>1 DEF IInv, AttachedInv
<1>6. TileInv'
  BY <1>1 DEF IInv, TileInv
<1>7. HandlesLeft'
  <2>1. step' = "teardown" \/ step \in {"stale", "disconnect", "failover"}
    BY DEF DetachStale, DetachConnectorDone
  <2> QED BY <1>1, <1>3, <2>1 DEF IInv, HandlesLeft
<1> QED BY <1>1, <1>3, <1>4, <1>5, <1>6, <1>7 DEF IInv, PrimaryTaken

(* Steps that only move on, or find nothing to do.                         *)
LEMMA MoveOnKeepsIInv ==
  ASSUME IInv,
         \/ DetachStaleDone \/ DisconnectsDone \/ ConnectsDone
         \/ \E c \in Connectors : DetachConnector(c) \/ BadCable(c) \/ NothingToAttach(c)
  PROVE  IInv'
<1>1. CASE DetachStaleDone
  <2>1. TypeOK'
    BY <1>1 DEF IInv, TypeOK, DetachStaleDone
  <2>2. Sound(hwc, leaving)' /\ AttachedInv' /\ TileInv' /\ HandlesLeft' /\ PrimaryTaken'
    BY <1>1 DEF IInv, DetachStaleDone, AttachedInv, TileInv, HandlesLeft, PrimaryTaken
  <2> QED BY <1>1, <2>1, <2>2 DEF IInv, DetachStaleDone
<1>2. CASE DisconnectsDone
  <2>1. TypeOK'
    BY <1>2 DEF IInv, TypeOK, DisconnectsDone
  <2>2. Sound(hwc, leaving)' /\ AttachedInv' /\ TileInv' /\ HandlesLeft' /\ PrimaryTaken'
    BY <1>2 DEF IInv, DisconnectsDone, AttachedInv, TileInv, HandlesLeft, PrimaryTaken
  <2> QED BY <1>2, <2>1, <2>2 DEF IInv, DisconnectsDone
<1>3. CASE ConnectsDone
  <2>1. TypeOK'
    BY <1>3 DEF IInv, TypeOK, ConnectsDone
  <2>2. Sound(hwc, leaving)' /\ AttachedInv' /\ TileInv' /\ HandlesLeft' /\ PrimaryTaken'
    BY <1>3 DEF IInv, ConnectsDone, AttachedInv, TileInv, HandlesLeft, PrimaryTaken
  <2> QED BY <1>3, <2>1, <2>2 DEF IInv, ConnectsDone
<1>4. ASSUME NEW c \in Connectors, DetachConnector(c)
      PROVE  IInv'
  <2>1. TypeOK'
    BY <1>4 DEF IInv, TypeOK, DetachConnector
  <2>2. leaving = Nobody
    BY <1>4 DEF IInv, TypeOK, DetachConnector
  <2>3. Sound(hwc', leaving')
    BY <1>4, <2>2 DEF IInv, DetachConnector, Sound, BothWays
  <2>4. AttachedInv' /\ TileInv' /\ HandlesLeft' /\ PrimaryTaken'
    BY <1>4 DEF IInv, DetachConnector, AttachedInv, TileInv, HandlesLeft, PrimaryTaken
  <2> QED BY <1>4, <2>1, <2>3, <2>4 DEF IInv, DetachConnector
<1>5. ASSUME NEW c \in Connectors, BadCable(c) \/ NothingToAttach(c)
      PROVE  IInv'
  <2>1. /\ step = "connect" /\ step' = "connect" /\ c \in todo /\ todo' = todo \ {c}
        /\ UNCHANGED <<state, attached, tiled, hwc, leaving, unpromoted>>
        /\ failed' \subseteq failed \cup {c}
    BY <1>5 DEF BadCable, NothingToAttach, WantsPipeline, IsNextInOrder
  <2>2. TypeOK'
    BY <2>1 DEF IInv, TypeOK
  <2>3. HandlesLeft'
    <3>1. todo \in SUBSET Connectors
      BY DEF IInv, TypeOK
    <3>2. Cardinality(todo \ {c}) = Cardinality(todo) - 1 /\ Cardinality(todo) \in Nat
      BY <2>1, <3>1, CardinalityOfTodo
    <3>3. hwc.last \in Nat
      BY DEF IInv, TypeOK
    <3> QED BY <2>1, <3>2, <3>3 DEF IInv, HandlesLeft
  <2>4. Sound(hwc, leaving)' /\ AttachedInv' /\ TileInv' /\ PrimaryTaken'
    BY <2>1 DEF IInv, AttachedInv, TileInv, PrimaryTaken
  <2> QED BY <2>1, <2>2, <2>3, <2>4 DEF IInv
<1> QED BY <1>1, <1>2, <1>3, <1>4, <1>5

(* Another tile takes the display over.                                    *)
LEMMA FailoverToKeepsIInv ==
  ASSUME IInv, NEW b \in Connectors, FailoverTo(b)
  PROVE  IInv'
<1>1. /\ leaving \in attached /\ leaving \in tiled /\ leaving \in Connectors
      /\ b \in Tiles /\ b \notin attached /\ b # leaving
  BY DEF IInv, TypeOK, TileInv, FailoverTo
<1>2. /\ hwc' = ReplaceDisplay(hwc, leaving, b)
      /\ attached' = (attached \ {leaving}) \cup {b} /\ tiled' = (tiled \ {leaving}) \cup {b}
      /\ unpromoted' = unpromoted \ {leaving}
      /\ step' = "disconnect" /\ todo' = {} /\ leaving' = Nobody
      /\ state' = state /\ failed' = failed
  BY DEF FailoverTo
<1>3. hwc.handle[leaving] # NoHandle /\ hwc.handle[b] = NoHandle /\ b \notin unpromoted
  BY <1>1 DEF IInv, AttachedInv, FailoverTo
<1>4. /\ Sound(hwc', Nobody) /\ hwc'.last = hwc.last
      /\ \A c \in Connectors : hwc'.handle[c] =
           IF c = leaving THEN NoHandle ELSE IF c = b THEN hwc.handle[leaving]
                                             ELSE hwc.handle[c]
  BY <1>1, <1>2, <1>3, ReplaceSound DEF IInv
<1>5. TypeOK'
  <2>1. hwc' \in Records
    BY <1>4 DEF Sound
  <2> QED BY <1>1, <1>2, <2>1 DEF IInv, TypeOK, Records
<1>6. AttachedInv'
  BY <1>1, <1>2, <1>3, <1>4 DEF IInv, AttachedInv
<1>7. TileInv'
  BY <1>1, <1>2 DEF IInv, TileInv
<1>8. HandlesLeft'
  BY <1>2, <1>4 DEF IInv, HandlesLeft, FailoverTo
<1> QED BY <1>2, <1>4, <1>5, <1>6, <1>7, <1>8 DEF IInv, PrimaryTaken

(* It fails to.                                                            *)
LEMMA FailoverFailsKeepsIInv ==
  ASSUME IInv, NEW b \in Connectors, FailoverFails(b)
  PROVE  IInv'
<1>1. /\ step = "failover" /\ step' = "failover" /\ todo' = todo \ {b}
      /\ UNCHANGED <<state, attached, tiled, leaving, failed, unpromoted>>
      /\ leaving \in attached /\ leaving \in Connectors
  BY DEF FailoverFails, IInv, TypeOK
<1>2. Sound(hwc', leaving) /\ hwc'.handle = hwc.handle /\ hwc'.last = hwc.last
  <2>1. CASE CrtcIsFree /\ hwc.handle[leaving] # NoHandle
    <3> DEFINE h == hwc.handle[leaving]
    <3>1. hwc' = SetPipelineFails(hwc, h)
      BY <2>1 DEF FailoverFails
    <3>2. h \in Handles /\ hwc.display[h] \in {leaving, Headless} /\ h \notin hwc.removal
      BY <1>1, <2>1 DEF IInv, Sound, Records, BothWays, Fresh
    <3>3. \A c \in Connectors \ {leaving} : hwc.handle[c] # h
      BY <1>1, <3>2 DEF IInv, Sound, BothWays
    <3>4. hwc.display[h] # Absent
      BY <1>1, <3>2
    <3> QED BY <3>1, <3>2, <3>3, <3>4, SetPipelineFailsSound DEF IInv
  <2>2. CASE ~(CrtcIsFree /\ hwc.handle[leaving] # NoHandle)
    BY <2>2 DEF FailoverFails, IInv
  <2> QED BY <2>1, <2>2
<1>3. TypeOK'
  <2>1. hwc' \in Records
    BY <1>2 DEF Sound
  <2> QED BY <1>1, <2>1 DEF IInv, TypeOK, Records
<1>4. AttachedInv'
  BY <1>1, <1>2 DEF IInv, AttachedInv
<1>5. TileInv' /\ HandlesLeft'
  BY <1>1, <1>2 DEF IInv, TileInv, HandlesLeft
<1> QED BY <1>1, <1>2, <1>3, <1>4, <1>5 DEF IInv, PrimaryTaken

(* A connector is attached, or fails to be.                                *)
LEMMA AttachKeepsIInv ==
  ASSUME IInv, NEW c \in Connectors, Attach(c) \/ AttachFails(c)
  PROVE  IInv'
<1>1. /\ step = "connect" /\ step' = "connect" /\ c \in todo /\ todo' = todo \ {c}
      /\ c \notin attached /\ leaving' = leaving /\ unpromoted' = unpromoted
      /\ leaving = Nobody
  BY DEF Attach, AttachFails, WantsPipeline, IsNextInOrder, IInv, TypeOK
<1>2. hwc.handle[c] = NoHandle /\ c \notin unpromoted
  BY <1>1 DEF IInv, AttachedInv
<1>3. /\ hwc.last \in Nat /\ hwc.last < MaxHandle
      /\ hwc.last + 1 + Cardinality(todo \ {c}) <= MaxHandle
      /\ Cardinality(todo \ {c}) \in Nat
  <2>1. todo \in SUBSET Connectors /\ hwc.last \in Nat
    BY DEF IInv, TypeOK
  <2>2. /\ Cardinality(todo \ {c}) = Cardinality(todo) - 1 /\ Cardinality(todo) \in Nat
        /\ Cardinality(todo) >= 1
    BY <1>1, <2>1, CardinalityOfTodo
  <2> QED BY <1>1, <2>1, <2>2 DEF IInv, HandlesLeft
<1>4. state' \in [Connectors -> States]
  BY DEF Attach, AttachFails, Reprobed, IInv, TypeOK, States
<1>5. CASE Attach(c)
  <2>1. /\ hwc' = BindDisplay(hwc, c) /\ attached' = attached \cup {c}
        /\ tiled' = IF c \in Tiles THEN tiled \cup {c} ELSE tiled
        /\ failed' = failed
    BY <1>5 DEF Attach
  <2>2. /\ Sound(hwc', Nobody) /\ hwc'.handle = [hwc.handle EXCEPT ![c] = HandleToBind(hwc)]
        /\ HandleToBind(hwc) \in Handles /\ hwc'.last <= hwc.last + 1
    BY <1>1, <1>2, <1>3, <2>1, BindSound DEF IInv
  <2>3. TypeOK'
    <3>1. hwc' \in Records
      BY <2>2 DEF Sound
    <3> QED BY <1>1, <1>4, <2>1, <3>1 DEF IInv, TypeOK, Records
  <2>4. AttachedInv'
    <3>1. hwc.handle \in [Connectors -> Handles \cup {NoHandle}]
      BY DEF IInv, TypeOK
    <3> QED BY <1>1, <2>1, <2>2, <3>1 DEF IInv, AttachedInv
  <2>5. TileInv'
    <3>1. c \in Tiles => tiled = {}
      BY <1>1, <1>5 DEF Attach, WantsPipeline, HasAttachedSibling, IInv, TileInv
    <3> QED BY <1>1, <2>1, <3>1 DEF IInv, TileInv
  <2>6. HandlesLeft'
    <3>1. hwc'.last \in Nat
      BY <2>2 DEF Sound, Records
    <3> QED BY <1>1, <1>3, <2>2, <3>1 DEF HandlesLeft
  <2> QED BY <1>1, <2>2, <2>3, <2>4, <2>5, <2>6 DEF IInv, PrimaryTaken
<1>6. CASE AttachFails(c)
  <2>1. /\ hwc' = BindDisplayFails(hwc) /\ attached' = attached /\ tiled' = tiled
        /\ failed' = failed \cup {c}
    BY <1>6 DEF AttachFails
  <2>2. /\ Sound(hwc', Nobody) /\ hwc'.handle = hwc.handle /\ hwc'.last <= hwc.last + 1
    BY <1>1, <1>3, <2>1, BindFailsSound DEF IInv
  <2>3. TypeOK'
    <3>1. hwc' \in Records
      BY <2>2 DEF Sound
    <3> QED BY <1>1, <1>4, <2>1, <3>1 DEF IInv, TypeOK, Records
  <2>4. AttachedInv' /\ TileInv'
    BY <1>1, <2>1, <2>2 DEF IInv, AttachedInv, TileInv
  <2>5. HandlesLeft'
    <3>1. hwc'.last \in Nat
      BY <2>2 DEF Sound, Records
    <3> QED BY <1>1, <1>3, <2>2, <3>1 DEF HandlesLeft
  <2> QED BY <1>1, <2>2, <2>3, <2>4, <2>5 DEF IInv, PrimaryTaken
<1> QED BY <1>5, <1>6

(* The end of an update, with the promotion of a display to the primary    *)
(* one: what is unbound for it goes to the primary handle or is unpromoted.*)
LEMMA FinalizeKeepsIInv ==
  ASSUME IInv, FinalizeDisplayBinding
  PROVE  IInv'
<1> DEFINE d == WithPrimary(hwc)
<1>1. /\ step = "finalize" /\ step' = "idle" /\ leaving = Nobody
      /\ UNCHANGED <<attached, tiled, todo, leaving, failed>>
  BY DEF FinalizeDisplayBinding, IInv, TypeOK
<1>2. Sound(d, Nobody) /\ d.handle = hwc.handle /\ d.last = hwc.last
  BY <1>1, WithPrimarySound DEF IInv
<1>3. hwc.handle \in [Connectors -> Handles \cup {NoHandle}]
  BY DEF IInv, TypeOK
<1>4. TileInv' /\ HandlesLeft'
  BY <1>1 DEF IInv, TileInv, HandlesLeft
<1>5. ASSUME Sound(hwc', Nobody), hwc'.removal = {}, AttachedInv', PrimaryTaken',
             state' \in [Connectors -> States], unpromoted' \subseteq attached'
      PROVE  IInv'
  <2>1. hwc' \in Records
    BY <1>5 DEF Sound
  <2>2. TypeOK'
    BY <1>1, <1>5, <2>1 DEF IInv, TypeOK, Records
  <2> QED BY <1>1, <1>4, <1>5, <2>2 DEF IInv
<1>6. CASE Promotable(d) = {}
  <2>1. hwc' = WithoutRemoved(d) /\ UNCHANGED <<state, unpromoted>>
    BY <1>6 DEF FinalizeDisplayBinding
  <2>2. /\ Sound(hwc', Nobody) /\ hwc'.removal = {} /\ hwc'.handle = d.handle
        /\ hwc'.display[Primary] = d.display[Primary]
    BY <1>2, <2>1, WithoutRemovedSound
  <2>3. AttachedInv'
    BY <1>1, <1>2, <2>1, <2>2 DEF IInv, AttachedInv
  <2>4. PrimaryTaken'
    BY <1>6, <2>2 DEF PrimaryTaken, Promotable
  <2> QED BY <1>1, <1>5, <2>1, <2>2, <2>3, <2>4 DEF IInv, TypeOK
<1>7. ASSUME NEW pipe \in Promotable(d), NEW found \in States, Reprobed(pipe, found)
      PROVE  /\ state' \in [Connectors -> States]
             /\ pipe \in Connectors /\ pipe \in attached
             /\ Sound(UnbindDisplay(d, pipe), Nobody)
             /\ UnbindDisplay(d, pipe).handle = [hwc.handle EXCEPT ![pipe] = NoHandle]
             /\ UnbindDisplay(d, pipe).handle[pipe] = NoHandle
             /\ HandleToBind(UnbindDisplay(d, pipe)) = Primary
  <2>1. pipe \in Connectors /\ d.handle[pipe] # NoHandle /\ d.display[Primary] = Headless
    BY DEF Promotable
  <2>2. /\ Sound(UnbindDisplay(d, pipe), Nobody)
        /\ UnbindDisplay(d, pipe).handle = [d.handle EXCEPT ![pipe] = NoHandle]
        /\ UnbindDisplay(d, pipe).display[Primary] = Headless
    BY <1>2, <2>1, UnbindSound
  <2>3. HandleToBind(UnbindDisplay(d, pipe)) = Primary
    BY <2>2 DEF HandleToBind
  <2>4. pipe \in attached
    BY <1>2, <2>1 DEF IInv, AttachedInv
  <2>5. state' \in [Connectors -> States]
    BY <1>7, <2>1 DEF Reprobed, IInv, TypeOK
  <2> QED BY <1>2, <1>3, <2>1, <2>2, <2>3, <2>4, <2>5
<1>8. ASSUME NEW pipe \in Promotable(d), Reprobed(pipe, "good"),
             hwc' = WithoutRemoved(BindDisplay(UnbindDisplay(d, pipe), pipe)),
             unpromoted' = unpromoted
      PROVE  IInv'
  <2> DEFINE u == UnbindDisplay(d, pipe)
             e == BindDisplay(u, pipe)
  <2>1. /\ state' \in [Connectors -> States] /\ pipe \in Connectors /\ pipe \in attached
        /\ Sound(u, Nobody) /\ u.handle = [hwc.handle EXCEPT ![pipe] = NoHandle]
        /\ u.handle[pipe] = NoHandle /\ HandleToBind(u) = Primary
    BY <1>7, <1>8 DEF States
  <2> HIDE DEF u, d
  <2>2. /\ Sound(e, Nobody) /\ e.handle = [u.handle EXCEPT ![pipe] = Primary]
        /\ e.display[Primary] = pipe
    BY <2>1, BindSound
  <2>3. hwc' = WithoutRemoved(e)
    BY <1>8 DEF u
  <2> HIDE DEF e
  <2>4. /\ Sound(hwc', Nobody) /\ hwc'.removal = {} /\ hwc'.handle = e.handle
        /\ hwc'.display[Primary] = pipe
    BY <2>2, <2>3, WithoutRemovedSound
  <2>5. AttachedInv'
    BY <1>1, <1>3, <1>8, <2>1, <2>2, <2>4 DEF IInv, AttachedInv
  <2>6. PrimaryTaken'
    BY <2>1, <2>4 DEF PrimaryTaken, Promotable
  <2> QED BY <1>1, <1>5, <1>8, <2>1, <2>4, <2>5, <2>6 DEF IInv, TypeOK
<1>9. ASSUME NEW pipe \in Promotable(d), NEW found \in States, Reprobed(pipe, found),
             hwc' = WithoutRemoved(BindDisplayFails(UnbindDisplay(d, pipe))),
             unpromoted' = unpromoted \cup {pipe}
      PROVE  IInv'
  <2> DEFINE u == UnbindDisplay(d, pipe)
             e == BindDisplayFails(u)
  <2>1. /\ state' \in [Connectors -> States] /\ pipe \in Connectors /\ pipe \in attached
        /\ Sound(u, Nobody) /\ u.handle = [hwc.handle EXCEPT ![pipe] = NoHandle]
        /\ u.handle[pipe] = NoHandle /\ HandleToBind(u) = Primary
    BY <1>7, <1>9
  <2> HIDE DEF u, d
  <2>2. Sound(e, Nobody) /\ e.handle = u.handle
    BY <2>1, BindFailsSound
  <2>3. hwc' = WithoutRemoved(e)
    BY <1>9 DEF u
  <2> HIDE DEF e
  <2>4. Sound(hwc', Nobody) /\ hwc'.removal = {} /\ hwc'.handle = e.handle
    BY <2>2, <2>3, WithoutRemovedSound
  <2>5. AttachedInv'
    BY <1>1, <1>3, <1>9, <2>1, <2>2, <2>4 DEF IInv, AttachedInv
  <2>6. PrimaryTaken'
    BY <1>9 DEF PrimaryTaken
  <2> QED BY <1>1, <1>5, <1>9, <2>1, <2>4, <2>5, <2>6 DEF IInv, TypeOK
<1> QED BY <1>6, <1>8, <1>9 DEF FinalizeDisplayBinding

LEMMA NextIInv == IInv /\ [Next]_vars => IInv'
<1> SUFFICES ASSUME IInv, [Next]_vars PROVE IInv'
  OBVIOUS
<1>1. CASE UNCHANGED vars
  BY <1>1 DEF vars, IInv, TypeOK, AttachedInv, TileInv, HandlesLeft, PrimaryTaken
<1>2. CASE DetachConnectorDone
  <2>1. leaving \in Connectors
    BY <1>2 DEF DetachConnectorDone, IInv, TypeOK
  <2> QED BY <1>2, <2>1, DetachKeepsIInv
<1>3. CASE ~UNCHANGED vars /\ ~DetachConnectorDone
  BY <1>3, BeginKeepsIInv, DetachKeepsIInv, MoveOnKeepsIInv, FailoverToKeepsIInv,
     FailoverFailsKeepsIInv, AttachKeepsIInv, FinalizeKeepsIInv DEF Next
<1> QED BY <1>1, <1>2, <1>3

(* The invariant: handles, displays, tiles and what was attached agree.    *)
THEOREM Invariance == Spec => []IInv
<1> HIDE DEF Primary, Handles, NoHandle, Headless, Absent, Nobody, ConstantsAssumption
<1> QED BY InitIInv, NextIInv, PTL DEF Spec

-----------------------------------------------------------------------------
(* Handles stay within the bound and every record keeps its type.          *)
THEOREM TypeCorrect == Spec => []TypeOK
<1>1. IInv => TypeOK
  BY DEF IInv
<1> QED BY <1>1, Invariance, PTL

(* displays_ and display_handles_ are inverse when the main lock is free,  *)
(* for any connectors and CRTCs.                                           *)
THEOREM BindingsAgreeCorrect == Spec => []BindingsAgree
<1>1. IInv => BindingsAgree
  BY DEF IInv, TypeOK, BindingsAgree, Sound, BothWays
<1> QED BY <1>1, Invariance, PTL

(* An attached connector has a display, unless a promotion failed.         *)
THEOREM AttachedIsBoundCorrect == Spec => []AttachedIsBound
<1>1. IInv => AttachedIsBound
  BY DEF IInv, AttachedInv, AttachedIsBound
<1> QED BY <1>1, Invariance, PTL

(* A bound display takes the primary handle when that one is headless.     *)
THEOREM PrimaryTakenCorrect == Spec => []PrimaryTaken
<1>1. IInv => PrimaryTaken
  BY DEF IInv
<1> QED BY <1>1, Invariance, PTL

(* The client was told of exactly the displays there are.                  *)
THEOREM AnnouncedExistCorrect == Spec => []AnnouncedExist
<1>1. IInv => AnnouncedExist
  BY DEF IInv, Sound, Told, AnnouncedExist
<1> QED BY <1>1, Invariance, PTL

(* A monitor made of tiles is shown once.                                  *)
THEOREM OneTileShownCorrect == Spec => []OneTileShown
<1>1. ASSUME IInv PROVE OneTileShown
  <2>1. CASE tiled = {}
    BY <1>1, <2>1, FS_EmptySet DEF IInv, TileInv, OneTileShown
  <2>2. CASE tiled # {}
    <3>1. PICK a \in tiled : TRUE
      BY <2>2
    <3>2. tiled = {a}
      BY <1>1, <3>1 DEF IInv, TileInv
    <3> QED BY <1>1, <3>2, FS_Singleton DEF IInv, TileInv, OneTileShown
  <2> QED BY <2>1, <2>2
<1> QED BY <1>1, Invariance, PTL
-----------------------------------------------------------------------------
(* What an update leaves without a display.                                *)

(* A connector pass 3 is through with has a display or a reason to have    *)
(* none.                                                                   *)
Settled(c) ==
  Connected(c) /\ c \notin attached \cup failed =>
    HasAttachedSibling(c) \/ Cardinality(attached) >= Crtcs

ShownInv ==
  step = "connect" =>
    /\ \A c \in attached : Connected(c)
    /\ \A c \in Connectors \ todo : Settled(c)

(* Every pipeline is one of attached_pipelines_: a display keeps none      *)
(* alive that would take a CRTC for nothing.                               *)
LEMMA PipelinesAttached == IInv => Pipelines = attached
<1> SUFFICES ASSUME IInv PROVE Pipelines = attached
  OBVIOUS
<1>1. ASSUME NEW c \in Connectors, NEW h \in Handles, hwc.display[h] = c
      PROVE  c \in attached
  <2>1. hwc.handle[c] = h
    BY <1>1 DEF IInv, Sound, BothWays
  <2> QED BY <2>1 DEF IInv, AttachedInv
<1>2. ASSUME NEW c \in Connectors, hwc.handle[c] # NoHandle
      PROVE  c \in attached
  BY <1>2 DEF IInv, AttachedInv
<1> QED BY <1>1, <1>2 DEF Pipelines

(* As more is attached, what was settled stays so.                         *)
LEMMA SettledStays ==
  ASSUME NEW c \in Connectors, Settled(c), IInv, IInv', (Connected(c))' => Connected(c),
         attached \subseteq attached', tiled \subseteq tiled', failed \subseteq failed'
  PROVE  (Settled(c))'
<1>1. IsFiniteSet(attached')
  BY FS_Subset DEF IInv, TypeOK
<1>2. /\ Cardinality(attached) <= Cardinality(attached')
      /\ Cardinality(attached) \in Nat /\ Cardinality(attached') \in Nat
  <2>1. attached \in SUBSET (attached')
    OBVIOUS
  <2> QED BY <1>1, <2>1, FS_Subset, FS_CardinalityType
<1>3. HasAttachedSibling(c) => (HasAttachedSibling(c))'
  BY DEF HasAttachedSibling
<1> QED BY <1>2, <1>3 DEF Settled

(* A connector pass 3 looks at is attached, fails, or is passed over for a *)
(* reason.                                                                 *)
LEMMA ConnectSettles ==
  ASSUME IInv, IInv', ShownInv, NEW c \in Connectors,
         Attach(c) \/ AttachFails(c) \/ BadCable(c) \/ NothingToAttach(c)
  PROVE  ShownInv'
<1>1. /\ step = "connect" /\ step' = "connect" /\ c \in todo /\ todo' = todo \ {c}
  BY DEF Attach, AttachFails, BadCable, NothingToAttach, WantsPipeline, IsNextInOrder
<1>2. /\ attached \subseteq attached' /\ tiled \subseteq tiled' /\ failed \subseteq failed'
      /\ attached' \subseteq attached \cup {c}
  BY DEF Attach, AttachFails, BadCable, NothingToAttach
<1>3. /\ state' = state \/ (c \notin attached /\ \E found \in States : Reprobed(c, found))
      /\ Attach(c) => state'[c] = "good"
  BY DEF Attach, AttachFails, BadCable, NothingToAttach, Reprobed, WantsPipeline, IInv, TypeOK,
         States
<1>4. \A b \in Connectors \ {c} : state'[b] = state[b]
  BY <1>3 DEF Reprobed, IInv, TypeOK
<1>5. ASSUME NEW b \in attached'
      PROVE  (Connected(b))'
  <2>1. CASE b = c /\ c \notin attached
    BY <2>1, <1>3, <1>5 DEF Attach, AttachFails, BadCable, NothingToAttach, Connected
  <2>2. CASE b \in attached
    <3>1. b \in Connectors /\ Connected(b)
      BY <1>1, <2>2 DEF ShownInv, IInv, TypeOK
    <3>2. state'[b] = state[b]
      BY <1>3, <1>4, <2>2, <3>1
    <3> QED BY <3>1, <3>2 DEF Connected
  <2> QED BY <1>2, <1>5, <2>1, <2>2
<1>6. ASSUME NEW b \in Connectors \ todo', b # c
      PROVE  (Settled(b))'
  <2>1. Settled(b)
    BY <1>1, <1>6 DEF ShownInv
  <2>2. (Connected(b))' => Connected(b)
    BY <1>4, <1>6 DEF Connected
  <2> QED BY <1>2, <2>1, <2>2, SettledStays
<1>7. (Settled(c))'
  <2>1. CASE Attach(c) \/ AttachFails(c) \/ BadCable(c)
    BY <2>1 DEF Attach, AttachFails, BadCable, Settled
  <2>2. CASE NothingToAttach(c)
    <3>1. /\ UNCHANGED <<state, attached, tiled, failed>>
          /\ ~WantsPipeline(c) \/ ~CrtcIsFree
          /\ step = "connect" /\ IsNextInOrder(c)
      BY <2>2 DEF NothingToAttach
    <3>2. CASE ~WantsPipeline(c)
      <4>1. ~Connected(c) \/ c \in attached \/ HasAttachedSibling(c)
        BY <3>1, <3>2 DEF WantsPipeline
      <4> QED BY <3>1, <4>1 DEF Settled, Connected, HasAttachedSibling
    <3>3. CASE ~CrtcIsFree
      <4>1. IsFiniteSet(attached)
        BY FS_Subset DEF IInv, TypeOK
      <4>2. Cardinality(attached) \in Nat /\ ~(Cardinality(attached) < Crtcs)
        BY <3>3, <4>1, PipelinesAttached, FS_CardinalityType DEF CrtcIsFree
      <4> QED BY <3>1, <4>2 DEF Settled
    <3> QED BY <3>1, <3>2, <3>3
  <2> QED BY <2>1, <2>2
<1> QED BY <1>5, <1>6, <1>7 DEF ShownInv

LEMMA NextShownInv == IInv /\ IInv' /\ ShownInv /\ [Next]_vars => ShownInv'
<1> SUFFICES ASSUME IInv, IInv', ShownInv, [Next]_vars PROVE ShownInv'
  OBVIOUS
<1>1. CASE DisconnectsDone
  BY <1>1 DEF DisconnectsDone, ShownInv, Connected
<1>2. CASE \E c \in Connectors :
             Attach(c) \/ AttachFails(c) \/ BadCable(c) \/ NothingToAttach(c)
  BY <1>2, ConnectSettles
<1>3. CASE UNCHANGED vars
  BY <1>3 DEF vars, ShownInv, Settled, Connected, HasAttachedSibling
<1>4. CASE \/ BeginUpdate \/ BeginRecovery \/ BeginDeInit \/ DetachStaleDone
           \/ DetachConnectorDone \/ ConnectsDone \/ FinalizeDisplayBinding
  BY <1>4 DEF BeginUpdate, BeginRecovery, BeginDeInit, DetachStaleDone, DetachConnectorDone,
     ConnectsDone, FinalizeDisplayBinding, ShownInv
<1>5. CASE \E c \in Connectors :
             DetachStale(c) \/ DetachConnector(c) \/ FailoverTo(c) \/ FailoverFails(c)
  BY <1>5 DEF DetachStale, DetachConnector, FailoverTo, FailoverFails, ShownInv
<1> QED BY <1>1, <1>2, <1>3, <1>4, <1>5 DEF Next

(* With it: whatever pass 3 is through with is settled, and all that is    *)
(* attached is connected.                                                  *)
THEOREM ShownInvariance == Spec => [](IInv /\ ShownInv)
<1>1. Init => ShownInv
  BY DEF Init, ShownInv
<1>2. IInv /\ ShownInv /\ [Next]_vars => (IInv /\ ShownInv)'
  BY NextIInv, NextShownInv
<1> HIDE DEF Primary, Handles, NoHandle, Headless, Absent, Nobody, ConstantsAssumption
<1> QED BY <1>1, <1>2, InitIInv, PTL DEF Spec

(* No monitor stays dark while a CRTC is free, none is shown that is       *)
(* unplugged, when UpdateFrontendDisplays is through its third pass.       *)
THEOREM ConnectedShownCorrect == Spec => []ConnectedShown
<1>1. ShownInv => ConnectedShown
  BY DEF ShownInv, ConnectedShown, Settled
<1> QED BY <1>1, ShownInvariance, PTL

(* GetOrderedConnectors serves every internal display before an external   *)
(* one, also when CRTCs run out or binding fails in between.               *)
THEOREM InternalFirstCorrect == Spec => InternalFirst
<1>1. ASSUME IInv, ShownInv, NEW c \in External, NEW i \in Internal, Attach(c), Connected(i)
      PROVE  i \in attached \cup failed \/ HasAttachedSibling(i)
  <2>1. /\ step = "connect" /\ CrtcIsFree /\ c \notin Internal /\ i \in Connectors
        /\ i \notin todo
    BY <1>1 DEF Attach, WantsPipeline, IsNextInOrder, Connectors
  <2>2. Settled(i)
    BY <1>1, <2>1 DEF ShownInv
  <2>3. Cardinality(attached) \in Nat /\ Cardinality(attached) < Crtcs
    <3>1. IsFiniteSet(attached)
      BY <1>1, FS_Subset DEF IInv, TypeOK
    <3> QED BY <1>1, <2>1, <3>1, PipelinesAttached, FS_CardinalityType DEF CrtcIsFree
  <2> QED BY <1>1, <2>2, <2>3 DEF Settled
<1>2. IInv /\ ShownInv =>
        [\A c \in External, i \in Internal :
           Attach(c) /\ Connected(i) => i \in attached \cup failed \/ HasAttachedSibling(i)]_vars
  BY <1>1
<1> HIDE DEF Primary, Handles, NoHandle, Headless, Absent, Nobody, ConstantsAssumption
<1> QED BY <1>2, ShownInvariance, PTL DEF InternalFirst
-----------------------------------------------------------------------------
(* DisplayBinding implements DisplayLife.                                  *)

(* What a record may become: a display that is no longer announced was not *)
(* the primary one and leaves a handle that has been given out, a new one  *)
(* has the primary handle or one above all that were given out.            *)
Later(d, e) ==
  /\ d.last \in Nat /\ e.last \in Nat /\ d.last <= e.last
  /\ \A h \in d.announced \ e.announced : h # Primary /\ h \in 1 .. e.last
  /\ \A h \in e.announced \ d.announced : h = Primary \/ h > d.last

LEMMA LaterComposes ==
  ASSUME NEW d, NEW e, NEW f, Later(d, e), Later(e, f),
         \A h \in d.announced \cup e.announced \cup f.announced : h \in Nat
  PROVE  Later(d, f)
<1>1. d.last \in Nat /\ e.last \in Nat /\ f.last \in Nat /\ d.last <= e.last /\ e.last <= f.last
  BY DEF Later
<1>2. ASSUME NEW h \in d.announced \ f.announced PROVE h # Primary /\ h \in 1 .. f.last
  BY <1>1, <1>2 DEF Later
<1>3. ASSUME NEW h \in f.announced \ d.announced PROVE h = Primary \/ h > d.last
  <2>1. h \in Nat
    BY <1>3
  <2> QED BY <1>1, <1>3, <2>1 DEF Later
<1> QED BY <1>1, <1>2, <1>3 DEF Later

(* Announced displays have a handle that was given out.                    *)
LEMMA AnnouncedGiven ==
  ASSUME NEW d, NEW l, Sound(d, l)
  PROVE  /\ d.last \in Nat /\ d.announced \subseteq Handles
         /\ \A h \in d.announced : h \in Nat /\ h <= d.last
BY DEF Sound, Records, Fresh, Told

(* The operations of DrmHwc, one by one.                                   *)
LEMMA UnbindLater ==
  ASSUME NEW d, NEW c \in Connectors, NEW l, Sound(d, l), l = c \/ l = Nobody
  PROVE  Later(d, UnbindDisplay(d, c))
<1> DEFINE e == UnbindDisplay(d, c)
           h == d.handle[c]
<1>1. d.last \in Nat /\ \A x \in d.announced : x \in Nat /\ x <= d.last
  BY AnnouncedGiven
<1>2. CASE h = NoHandle
  BY <1>1, <1>2 DEF UnbindDisplay, Later
<1>3. CASE h # NoHandle
  <2>1. /\ e.last = d.last
        /\ e.announced = IF h = Primary THEN d.announced \cup {h} ELSE d.announced \ {h}
    BY <1>3 DEF UnbindDisplay, SetPipeline, Sound, Records
  <2> HIDE DEF e, h
  <2> QED BY <1>1, <2>1 DEF Later, e
<1> QED BY <1>2, <1>3

LEMMA BindLater ==
  ASSUME NEW d, NEW c \in Connectors, Sound(d, Nobody)
  PROVE  Later(d, BindDisplay(d, c))
<1> DEFINE e == BindDisplay(d, c)
           h == HandleToBind(d)
<1>1. d.last \in Nat /\ (h = Primary \/ h = d.last + 1)
  BY AnnouncedGiven DEF HandleToBind
<1>2. c # Headless
  OBVIOUS
<1>3. /\ e.last = IF h = Primary THEN d.last ELSE h
      /\ e.announced = d.announced \cup {h}
  <2> DEFINE s == SetPipeline(d, h, c)
  <2>1. s = [d EXCEPT !.display[h] = c, !.announced = @ \cup {h}]
    BY <1>2 DEF SetPipeline
  <2>2. /\ s.last = d.last /\ s.announced = d.announced \cup {h}
        /\ s = [display |-> s.display, handle |-> s.handle, last |-> s.last,
                removal |-> s.removal, announced |-> s.announced]
    BY <2>1 DEF Sound, Records
  <2>3. e = [s EXCEPT !.handle[c] = h, !.last = IF h = Primary THEN @ ELSE h]
    BY DEF BindDisplay
  <2> HIDE DEF s, e, h
  <2> QED BY <2>2, <2>3
<1> HIDE DEF e, h
<1> QED BY <1>1, <1>3 DEF Later, e

LEMMA SetPipelineFailsLater ==
  ASSUME NEW d, NEW l, NEW h \in Handles, Sound(d, l)
  PROVE  Later(d, SetPipelineFails(d, h))
<1> DEFINE e == SetPipelineFails(d, h)
<1>1. d.last \in Nat
  BY AnnouncedGiven
<1>2. e.last = d.last /\ e.announced = d.announced \cup ({h} \cap {Primary})
  BY DEF SetPipelineFails, Sound, Records
<1> HIDE DEF e
<1> QED BY <1>1, <1>2 DEF Later, e

LEMMA BindFailsLater ==
  ASSUME NEW d, Sound(d, Nobody)
  PROVE  Later(d, BindDisplayFails(d))
<1>1. d.last \in Nat
  BY AnnouncedGiven
<1>2. CASE HandleToBind(d) = Primary
  BY <1>2, SetPipelineFailsLater DEF BindDisplayFails
<1>3. CASE HandleToBind(d) # Primary
  <2> DEFINE e == BindDisplayFails(d)
  <2>1. e.last = d.last + 1 /\ e.announced = d.announced
    BY <1>3 DEF BindDisplayFails, HandleToBind, Sound, Records
  <2> HIDE DEF e
  <2> QED BY <1>1, <2>1 DEF Later, e
<1> QED BY <1>2, <1>3

LEMMA ReplaceLater ==
  ASSUME NEW d, NEW old \in Connectors, NEW new \in Connectors, Sound(d, old),
         d.handle[old] # NoHandle
  PROVE  Later(d, ReplaceDisplay(d, old, new))
<1> DEFINE e == ReplaceDisplay(d, old, new)
           h == d.handle[old]
<1>1. h \in d.announced
  <2>1. h \in Handles /\ d.display[h] # Absent /\ h \notin d.removal
    BY DEF Sound, Records, BothWays, Fresh
  <2> QED BY <2>1 DEF Sound, Told
<1>2. d.last \in Nat
  BY AnnouncedGiven
<1>3. e.last = d.last /\ e.announced = d.announced \cup {h}
  <2> DEFINE s == SetPipeline(d, h, new)
  <2>1. s = [d EXCEPT !.display[h] = new, !.announced = @ \cup {h}]
    BY DEF SetPipeline
  <2>2. /\ s.last = d.last /\ s.announced = d.announced \cup {h}
        /\ s = [display |-> s.display, handle |-> s.handle, last |-> s.last,
                removal |-> s.removal, announced |-> s.announced]
    BY <2>1 DEF Sound, Records
  <2>3. e = [s EXCEPT !.handle[old] = NoHandle, !.handle[new] = h]
    BY DEF ReplaceDisplay
  <2> HIDE DEF s, e, h
  <2> QED BY <2>2, <2>3
<1> HIDE DEF e, h
<1> QED BY <1>1, <1>2, <1>3 DEF Later, e

LEMMA WithPrimaryLater ==
  ASSUME NEW d, Sound(d, Nobody)
  PROVE  Later(d, WithPrimary(d))
<1>1. CASE d.display[Primary] = Absent
  <2>1. WithPrimary(d) = SetPipelineFails(d, Primary)
    BY <1>1 DEF WithPrimary, SetPipeline, SetPipelineFails
  <2> QED BY <2>1, SetPipelineFailsLater
<1>2. CASE d.display[Primary] # Absent
  BY <1>2, AnnouncedGiven DEF WithPrimary, Later
<1> QED BY <1>1, <1>2

LEMMA WithoutRemovedLater ==
  ASSUME NEW d, Sound(d, Nobody)
  PROVE  Later(d, WithoutRemoved(d))
<1>1. d.last \in Nat
  BY AnnouncedGiven
<1>2. WithoutRemoved(d).last = d.last /\ WithoutRemoved(d).announced = d.announced
  BY DEF WithoutRemoved, Sound, Records
<1> QED BY <1>1, <1>2 DEF Later

(* An update ends with up to four of them.                                 *)
LEMMA FinalizeLater ==
  ASSUME IInv, FinalizeDisplayBinding
  PROVE  Later(hwc, hwc')
<1> DEFINE d == WithPrimary(hwc)
<1>1. Sound(hwc, Nobody)
  BY DEF FinalizeDisplayBinding, IInv, TypeOK
<1>2. Sound(d, Nobody) /\ Later(hwc, d)
  BY <1>1, WithPrimarySound, WithPrimaryLater
<1>3. \A e : Sound(e, Nobody) => \A h \in e.announced : h \in Nat
  BY AnnouncedGiven
<1>4. ASSUME NEW e, Sound(e, Nobody), Later(hwc, e), hwc' = WithoutRemoved(e)
      PROVE  Later(hwc, hwc')
  <2>1. Sound(hwc', Nobody) /\ Later(e, hwc')
    BY <1>4, WithoutRemovedSound, WithoutRemovedLater
  <2> QED BY <1>1, <1>3, <1>4, <2>1, LaterComposes
<1>5. ASSUME NEW pipe \in Promotable(d)
      PROVE  /\ pipe \in Connectors
             /\ Sound(UnbindDisplay(d, pipe), Nobody) /\ Later(hwc, UnbindDisplay(d, pipe))
             /\ UnbindDisplay(d, pipe).handle[pipe] = NoHandle
             /\ HandleToBind(UnbindDisplay(d, pipe)) = Primary
  <2>1. pipe \in Connectors /\ d.handle[pipe] # NoHandle /\ d.display[Primary] = Headless
    BY DEF Promotable
  <2>2. d.handle \in [Connectors -> Handles \cup {NoHandle}]
    BY <1>2 DEF Sound, Records
  <2> HIDE DEF d
  <2> DEFINE u == UnbindDisplay(d, pipe)
  <2>3. Sound(u, Nobody) /\ Later(d, u)
    BY <1>2, <2>1, UnbindSound, UnbindLater
  <2>4. u.handle = [d.handle EXCEPT ![pipe] = NoHandle] /\ u.display[Primary] = Headless
    BY <1>2, <2>1, UnbindSound
  <2>5. Later(hwc, u)
    BY <1>1, <1>2, <1>3, <2>3, LaterComposes
  <2> QED BY <2>1, <2>2, <2>3, <2>4, <2>5 DEF HandleToBind
<1> HIDE DEF d
<1>6. CASE hwc' = WithoutRemoved(d)
  BY <1>2, <1>4, <1>6
<1>7. ASSUME NEW pipe \in Promotable(d),
             hwc' = WithoutRemoved(BindDisplay(UnbindDisplay(d, pipe), pipe))
      PROVE  Later(hwc, hwc')
  <2> DEFINE u == UnbindDisplay(d, pipe)
             e == BindDisplay(u, pipe)
  <2>1. /\ pipe \in Connectors /\ Sound(u, Nobody) /\ Later(hwc, u)
        /\ u.handle[pipe] = NoHandle /\ HandleToBind(u) = Primary
    BY <1>5
  <2> HIDE DEF u
  <2>2. Sound(e, Nobody) /\ Later(u, e)
    BY <2>1, BindSound, BindLater
  <2>3. hwc' = WithoutRemoved(e)
    BY <1>7 DEF u
  <2> HIDE DEF e
  <2>4. Later(hwc, e)
    BY <1>1, <1>3, <2>1, <2>2, LaterComposes
  <2> QED BY <1>4, <2>2, <2>3, <2>4
<1>8. ASSUME NEW pipe \in Promotable(d),
             hwc' = WithoutRemoved(BindDisplayFails(UnbindDisplay(d, pipe)))
      PROVE  Later(hwc, hwc')
  <2> DEFINE u == UnbindDisplay(d, pipe)
             e == BindDisplayFails(u)
  <2>1. Sound(u, Nobody) /\ Later(hwc, u) /\ HandleToBind(u) = Primary
    BY <1>5
  <2> HIDE DEF u
  <2>2. Sound(e, Nobody) /\ Later(u, e)
    BY <2>1, BindFailsSound, BindFailsLater
  <2>3. hwc' = WithoutRemoved(e)
    BY <1>8 DEF u
  <2> HIDE DEF e
  <2>4. Later(hwc, e)
    BY <1>1, <1>3, <2>1, <2>2, LaterComposes
  <2> QED BY <1>4, <2>2, <2>3, <2>4
<1> QED BY <1>6, <1>7, <1>8 DEF FinalizeDisplayBinding, d

LEMMA NextLater == IInv /\ [Next]_vars => Later(hwc, hwc')
<1> SUFFICES ASSUME IInv, [Next]_vars PROVE Later(hwc, hwc')
  OBVIOUS
<1>1. Sound(hwc, leaving) /\ hwc.last \in Nat
  BY AnnouncedGiven DEF IInv
<1>2. CASE hwc' = hwc
  BY <1>1, <1>2 DEF Later
<1>3. ASSUME NEW c \in Connectors, DetachStale(c) PROVE Later(hwc, hwc')
  <2>1. hwc' = UnbindDisplay(hwc, c) /\ leaving = Nobody
    BY <1>3 DEF DetachStale, IInv, TypeOK
  <2> QED BY <1>1, <2>1, UnbindLater
<1>4. CASE DetachConnectorDone
  <2>1. hwc' = UnbindDisplay(hwc, leaving) /\ leaving \in Connectors
    BY <1>4 DEF DetachConnectorDone, IInv, TypeOK
  <2> QED BY <1>1, <2>1, UnbindLater
<1>5. ASSUME NEW b \in Connectors, FailoverTo(b) PROVE Later(hwc, hwc')
  <2>1. /\ hwc' = ReplaceDisplay(hwc, leaving, b) /\ leaving \in Connectors
        /\ hwc.handle[leaving] # NoHandle
    BY <1>5 DEF FailoverTo, IInv, TypeOK
  <2> QED BY <1>1, <2>1, ReplaceLater
<1>6. ASSUME NEW b \in Connectors, FailoverFails(b), hwc' # hwc PROVE Later(hwc, hwc')
  <2>1. /\ hwc' = SetPipelineFails(hwc, hwc.handle[leaving])
        /\ hwc.handle[leaving] # NoHandle /\ leaving \in Connectors
    BY <1>6 DEF FailoverFails, IInv, TypeOK
  <2>2. hwc.handle[leaving] \in Handles
    BY <2>1 DEF IInv, TypeOK
  <2> QED BY <1>1, <2>1, <2>2, SetPipelineFailsLater
<1>7. ASSUME NEW c \in Connectors, Attach(c) \/ AttachFails(c) PROVE Later(hwc, hwc')
  <2>1. hwc' = BindDisplay(hwc, c) \/ hwc' = BindDisplayFails(hwc)
    BY <1>7 DEF Attach, AttachFails
  <2>2. leaving = Nobody
    BY <1>7 DEF Attach, AttachFails, WantsPipeline, IInv, TypeOK
  <2> QED BY <1>1, <2>1, <2>2, BindLater, BindFailsLater
<1>8. CASE FinalizeDisplayBinding
  BY <1>8, FinalizeLater
<1>9. CASE \/ BeginUpdate \/ BeginRecovery \/ BeginDeInit \/ DetachStaleDone
           \/ DisconnectsDone \/ ConnectsDone \/ UNCHANGED vars
           \/ \E c \in Connectors : DetachConnector(c) \/ BadCable(c) \/ NothingToAttach(c)
  <2>1. hwc' = hwc
    BY <1>9 DEF BeginUpdate, BeginRecovery, BeginDeInit, DetachStaleDone, DisconnectsDone,
       ConnectsDone, DetachConnector, BadCable, NothingToAttach, vars
  <2> QED BY <1>2, <2>1
<1> QED BY <1>2, <1>3, <1>4, <1>5, <1>6, <1>7, <1>8, <1>9 DEF Next

(* A later record is a step of DisplayLife.                                *)
LEMMA LaterIsNext ==
  ASSUME IInv, IInv', Later(hwc, hwc')
  PROVE  Life!Next
<1> DEFINE life == [h \in Handles |-> IF h \in hwc.announced THEN "connected"
                                      ELSE IF h \in 1 .. hwc.last THEN "spent" ELSE "unused"]
           lifeNext == [h \in Handles |-> IF h \in hwc'.announced THEN "connected"
                                          ELSE IF h \in 1 .. hwc'.last THEN "spent"
                                               ELSE "unused"]
<1>1. /\ hwc.last \in Nat /\ hwc'.last \in Nat /\ hwc.last <= hwc'.last
      /\ \A h \in hwc.announced : h <= hwc.last
  BY AnnouncedGiven DEF Later, IInv
<1>2. ASSUME NEW h \in Handles
      PROVE  \/ life[h] # "spent" /\ lifeNext[h] = "connected"
             \/ h # Primary /\ life[h] = "connected" /\ lifeNext[h] = "spent"
             \/ h # Primary /\ life[h] = "unused" /\ lifeNext[h] = "spent"
             \/ lifeNext[h] = life[h]
  <2>1. CASE h \in hwc.announced
    <3>1. h \notin hwc'.announced => h # Primary /\ h \in 1 .. hwc'.last
      BY <2>1 DEF Later
    <3> QED BY <2>1, <3>1
  <2>2. CASE h \notin hwc.announced /\ h \in hwc'.announced
    <3>1. ~(h \in 1 .. hwc.last)
      BY <1>1, <2>2 DEF Later
    <3> QED BY <2>2, <3>1
  <2>3. CASE h \notin hwc.announced /\ h \notin hwc'.announced
    <3>1. h \in 1 .. hwc.last => h \in 1 .. hwc'.last
      BY <1>1
    <3>2. h \in 1 .. hwc'.last => h # Primary
      OBVIOUS
    <3> QED BY <2>3, <3>1, <3>2
  <2> QED BY <2>1, <2>2, <2>3
<1>3. lifeNext \in [Handles -> {"unused", "connected", "spent"}]
  OBVIOUS
<1> QED BY <1>2, <1>3 DEF Life!Next, Life!Connect, Life!Disconnect, Life!Waste

(* An external handle is given to one display, ever, and the primary       *)
(* display never goes: whatever fails in an update (BindDisplay,           *)
(* UnbindDisplay, ReplaceDisplay, FinalizeDisplayBinding).                 *)
THEOREM HandlesNeverReusedCorrect == Spec => HandlesNeverReused
<1>1. Init => Life!Init
  BY DEF Init, Life!Init
<1>2. IInv /\ IInv' /\ [Next]_vars =>
        [Life!Next]_([h \in Handles |-> IF h \in hwc.announced THEN "connected"
                                     ELSE IF h \in 1 .. hwc.last THEN "spent" ELSE "unused"])
  BY NextLater, LaterIsNext
<1> HIDE DEF Primary, Handles, NoHandle, Headless, Absent, Nobody, ConstantsAssumption
<1> QED BY <1>1, <1>2, Invariance, PTL DEF Spec, HandlesNeverReused, Life!Spec
=============================================================================

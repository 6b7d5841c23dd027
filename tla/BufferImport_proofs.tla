------------------------- MODULE BufferImport_proofs -------------------------
(***************************************************************************)
(* Proofs about BufferImport, for any buffers, slots, handles, framebuffer *)
(* names and tracking threads.                                             *)
(***************************************************************************)
EXTENDS BufferImport, TLAPS

(***************************************************************************)
(* The invariant, as predicates of framebuffer objects, cache and table of *)
(* handles: a step that lets go of references changes what AddFB2 has just *)
(* made, so they are needed of intermediate values, too.                   *)
(***************************************************************************)

LiveOf(objects) == {f \in DOMAIN objects : objects[f].by = None}

(* The buffer and the handles of the import under way.                     *)
JobBuffer == slots[job.slot].buffer
JobGem == IF job # None THEN Range(job.gem) ELSE {}

(* The handles an import has at each of its steps.                         *)
JobInv ==
  job # None =>
    /\ slots[job.slot] # None
    /\ Len(job.gem) <= Len(Planes[JobBuffer])
    /\ job.step = "first" => job.gem = <<>>
    /\ job.step = "lookup" => Len(job.gem) = 1
    /\ job.step # "first" => Len(job.gem) >= 1 /\ job.gem[1] # None

(* What the composer refers to is alive.                                   *)
HeldInv == Held(slots, layer, shown, prior) \subseteq Live \cup {None}

(* A framebuffer that can be found has the handle it is found by, and all  *)
(* its handles still to close.                                             *)
Found(objects, entries) ==
  /\ \A h \in DOMAIN entries :
       entries[h] # None => entries[h] \in LiveOf(objects) /\ objects[entries[h]].gem[1] = h
  /\ \A f \in LiveOf(objects) : objects[f].at = 1

(* The open handles have owners.                                           *)
OwnedInv ==
  \A h \in DOMAIN handles : h \in JobGem \/ \E f \in DOMAIN fbs : h \in Owned(fbs[f])

(* No dma-buf has two handles.                                             *)
OneHandle(open) == \A g, h \in DOMAIN open : open[g] = open[h] => g = h

(* A live framebuffer shows a buffer, has the handles open for its planes, *)
(* and is found by the first one.                                          *)
CleanFb(objects, entries, open, f) ==
  LET fb == objects[f]
  IN  /\ \E b \in Buffers : fb.image = Planes[b]
      /\ Len(fb.gem) = Len(fb.image)
      /\ \A i \in 1 .. Len(fb.gem) :
           fb.gem[i] \in DOMAIN open /\ open[fb.gem[i]] = fb.image[i]
      /\ fb.gem[1] \in DOMAIN entries /\ entries[fb.gem[1]] = f

Clean(objects, entries, open) ==
  \A f \in LiveOf(objects) : CleanFb(objects, entries, open, f)

(* What is still to be closed is no handle of a live framebuffer, nor one  *)
(* of those given.                                                         *)
Apart(objects, given) ==
  \A f \in DOMAIN objects \ LiveOf(objects) : \A h \in Owned(objects[f]) :
    h \notin given /\ \A g \in LiveOf(objects) : h \notin Range(objects[g].gem)

(* The import has the open handles of its buffer's planes; after the       *)
(* lookup it knows that the buffer has no framebuffer.                     *)
JobClean ==
  job # None =>
    /\ \A i \in 1 .. Len(job.gem) :
         job.gem[i] # None =>
           job.gem[i] \in DOMAIN handles /\ handles[job.gem[i]] = Planes[JobBuffer][i]
    /\ job.step = "planes" => \A f \in Live : fbs[f].image # Planes[JobBuffer]

CleanInv == Clean(fbs, cache, handles) /\ Apart(fbs, JobGem) /\ JobClean

IInv ==
  /\ TypeOK /\ JobInv /\ HeldInv /\ Found(fbs, cache) /\ OwnedInv /\ OneHandle(handles)
  /\ ~raced => CleanInv
  /\ FbOfBuffer

-----------------------------------------------------------------------------
(* Owned.                                                                  *)

LEMMA FbTypeFacts ==
  ASSUME NEW fb \in FbType
  PROVE  /\ fb.image \in Seq(DmaBufs) /\ fb.gem \in Seq(Handles \cup {None})
         /\ fb.at \in Nat /\ Len(fb.gem) \in Nat /\ 1 <= fb.at /\ fb.at <= Len(fb.gem)
         /\ fb.by \in Threads \cup {None} /\ fb.gem[1] # None /\ fb.gem[1] \in Handles
         /\ DOMAIN fb.gem = 1 .. Len(fb.gem)
         /\ fb = [image |-> fb.image, gem |-> fb.gem, at |-> fb.at, by |-> fb.by]
<1>1. fb \in [image : Seq(DmaBufs), gem : Seq(Handles \cup {None}), at : Nat,
              by : Threads \cup {None}]
  BY DEF FbType
<1>2. fb.at \in 1 .. Len(fb.gem) /\ fb.gem[1] # None
  BY DEF FbType
<1> QED BY <1>1, <1>2

LEMMA FbTypeIntro ==
  ASSUME NEW image \in Seq(DmaBufs), NEW gem \in Seq(Handles \cup {None}),
         NEW at \in 1 .. Len(gem), NEW by \in Threads \cup {None}, gem[1] # None
  PROVE  [image |-> image, gem |-> gem, at |-> at, by |-> by] \in FbType
<1> DEFINE fb == [image |-> image, gem |-> gem, at |-> at, by |-> by]
<1>1. Len(gem) \in Nat /\ at \in Nat
  OBVIOUS
<1>2. fb \in [image : Seq(DmaBufs), gem : Seq(Handles \cup {None}), at : Nat,
              by : Threads \cup {None}]
  BY <1>1
<1>3. fb.at \in 1 .. Len(fb.gem) /\ fb.gem[1] # None
  OBVIOUS
<1> HIDE DEF fb
<1> QED BY <1>2, <1>3 DEF FbType, fb

(* An object that is about to close its first handle has them all.         *)
LEMMA OwnedFull ==
  ASSUME NEW fb \in FbType, fb.at = 1
  PROVE  /\ Owned(fb) \subseteq Range(fb.gem)
         /\ \A h \in Range(fb.gem) : h # None => h \in Owned(fb)
<1>1. Owned(fb) \subseteq Range(fb.gem)
  BY FbTypeFacts DEF Owned, Range
<1>2. ASSUME NEW i \in 1 .. Len(fb.gem), fb.gem[i] # None
      PROVE  fb.gem[i] \in Owned(fb)
  <2>1. CASE Closes(fb, i)
    BY <1>2, <2>1 DEF Owned
  <2>2. CASE ~Closes(fb, i)
    <3>1. fb.gem[i] = fb.gem[1] /\ Closes(fb, 1)
      BY <1>2, <2>2, FbTypeFacts DEF Closes
    <3>2. 1 \in fb.at .. Len(fb.gem)
      BY FbTypeFacts
    <3> QED BY <3>1, <3>2 DEF Owned
  <2> QED BY <2>1, <2>2
<1> QED BY <1>1, <1>2, FbTypeFacts DEF Range

(* What an object still owns after it has closed one handle.               *)
LEMMA OwnedNext ==
  ASSUME NEW fb \in FbType, fb.at # Len(fb.gem)
  PROVE  LET next == [fb EXCEPT !.at = @ + 1]
         IN  /\ next \in FbType /\ next.by = fb.by
             /\ Owned(next) \subseteq Owned(fb)
             /\ \A h \in Owned(fb) :
                  h \in Owned(next) \/ (Closes(fb, fb.at) /\ h = fb.gem[fb.at])
<1> DEFINE next == [fb EXCEPT !.at = @ + 1]
<1>1. /\ next.gem = fb.gem /\ next.image = fb.image /\ next.by = fb.by
      /\ next.at = fb.at + 1
      /\ next = [image |-> fb.image, gem |-> fb.gem, at |-> fb.at + 1, by |-> fb.by]
  BY FbTypeFacts
<1>2. fb.at + 1 \in 1 .. Len(fb.gem)
  BY FbTypeFacts
<1>3. next \in FbType
  BY <1>1, <1>2, FbTypeIntro, FbTypeFacts
<1> HIDE DEF next
<1>4. \A i : Closes(next, i) = Closes(fb, i)
  BY <1>1 DEF Closes
<1>5. Owned(next) \subseteq Owned(fb)
  BY <1>1, <1>4, FbTypeFacts DEF Owned
<1>6. ASSUME NEW h \in Owned(fb)
      PROVE  h \in Owned(next) \/ (Closes(fb, fb.at) /\ h = fb.gem[fb.at])
  <2>1. PICK i \in fb.at .. Len(fb.gem) : Closes(fb, i) /\ h = fb.gem[i]
    BY <1>6 DEF Owned
  <2>2. CASE i = fb.at
    BY <2>1, <2>2
  <2>3. CASE i # fb.at
    <3>1. i \in (fb.at + 1) .. Len(fb.gem)
      BY <2>3, FbTypeFacts
    <3>2. i \in next.at .. Len(next.gem) /\ Closes(next, i) /\ h = next.gem[i]
      BY <1>1, <1>4, <2>1, <3>1
    <3> QED BY <3>2 DEF Owned
  <2> QED BY <2>2, <2>3
<1> QED BY <1>1, <1>3, <1>5, <1>6 DEF next

(* The last handle of an object.                                           *)
LEMMA OwnedLast ==
  ASSUME NEW fb \in FbType, fb.at = Len(fb.gem), NEW h \in Owned(fb)
  PROVE  Closes(fb, fb.at) /\ h = fb.gem[fb.at]
<1>1. PICK i \in fb.at .. Len(fb.gem) : Closes(fb, i) /\ h = fb.gem[i]
  BY DEF Owned
<1>2. i = fb.at
  BY FbTypeFacts
<1> QED BY <1>1, <1>2

LEMMA OwnedAt ==
  ASSUME NEW fb \in FbType, Closes(fb, fb.at)
  PROVE  fb.gem[fb.at] \in Owned(fb)
<1>1. fb.at \in fb.at .. Len(fb.gem)
  BY FbTypeFacts
<1> QED BY <1>1 DEF Owned

(* Owned does not depend on who destroys the object.                       *)
LEMMA OwnedBy ==
  ASSUME NEW fb \in FbType, NEW t \in Threads
  PROVE  LET gone == [fb EXCEPT !.by = t]
         IN  gone \in FbType /\ gone.by = t /\ Owned(gone) = Owned(fb)
<1> DEFINE gone == [fb EXCEPT !.by = t]
<1>1. /\ gone.gem = fb.gem /\ gone.at = fb.at /\ gone.by = t
      /\ gone = [image |-> fb.image, gem |-> fb.gem, at |-> fb.at, by |-> t]
  BY FbTypeFacts
<1>2. gone \in FbType
  BY <1>1, FbTypeIntro, FbTypeFacts
<1> HIDE DEF gone
<1>3. Owned(gone) = Owned(fb)
  BY <1>1 DEF Owned, Closes
<1> QED BY <1>1, <1>2, <1>3 DEF gone

-----------------------------------------------------------------------------
(* Letting go of references.                                               *)

ObjectsOK(objects) == DOMAIN objects \subseteq Fbs /\ \A f \in DOMAIN objects : objects[f] \in FbType
EntriesOK(entries) == DOMAIN entries \subseteq Handles /\ Range(entries) \subseteq Fbs \cup {None}

ComposerOK ==
  /\ headless \in BOOLEAN /\ raced \in BOOLEAN
  /\ slots \in [Slots -> Entry \cup {None}] /\ layer \in Entry \cup {None}
  /\ shown \in Fbs \cup {None} /\ prior \subseteq Fbs
  /\ job \in Job \cup {None}

HandlesOK(open) == DOMAIN open \subseteq Handles /\ Range(open) \subseteq DmaBufs

LEMMA TypeParts == TypeOK <=> ComposerOK /\ EntriesOK(cache) /\ ObjectsOK(fbs) /\ HandlesOK(handles)
  BY DEF TypeOK, ComposerOK, ObjectsOK, EntriesOK, HandlesOK

(* What becomes of objects and entries: an object nobody holds is          *)
(* destroyed and its entry with it, nothing else changes.                  *)
LEMMA LetGoObjects ==
  ASSUME NEW t \in Threads, NEW objects, NEW entries,
         ObjectsOK(objects), EntriesOK(entries), LetGoAmong(t, objects, entries)
  PROVE  /\ ObjectsOK(fbs') /\ EntriesOK(cache')
         /\ DOMAIN fbs' = DOMAIN objects /\ DOMAIN cache' = DOMAIN entries
         /\ LiveOf(fbs') = LiveOf(objects) \cap Held(slots', layer', shown', prior')
         /\ \A f \in DOMAIN objects :
              Owned(fbs'[f]) = Owned(objects[f]) /\ (f \in LiveOf(fbs') => fbs'[f] = objects[f])
         /\ \A f \in DOMAIN objects \ LiveOf(objects) : fbs'[f] = objects[f]
         /\ \A f \in LiveOf(objects) \ LiveOf(fbs') : fbs'[f].by = t
         /\ \A h \in DOMAIN entries :
              cache'[h] = IF entries[h] \in LiveOf(objects) \ LiveOf(fbs') THEN None ELSE entries[h]
<1> DEFINE held == Held(slots', layer', shown', prior')
           gone == {f \in DOMAIN objects : objects[f].by = None} \ held
<1>1. fbs' = [f \in DOMAIN objects |->
                IF f \in gone THEN [objects[f] EXCEPT !.by = t] ELSE objects[f]]
  BY DEF LetGoAmong
<1>2. cache' = [h \in DOMAIN entries |-> IF entries[h] \in gone THEN None ELSE entries[h]]
  BY DEF LetGoAmong
<1>3. t # None
  BY ConstantsAssumption
<1>4. \A f \in gone : f \in DOMAIN objects /\ objects[f].by = None /\ f \notin held
  OBVIOUS
<1>5. \A f \in DOMAIN objects : f \notin gone => objects[f].by # None \/ f \in held
  OBVIOUS
<1> HIDE DEF gone, held
<1>6. ASSUME NEW f \in DOMAIN objects
      PROVE  /\ fbs'[f] \in FbType /\ Owned(fbs'[f]) = Owned(objects[f])
             /\ f \in gone => fbs'[f].by = t
             /\ f \notin gone => fbs'[f] = objects[f]
  <2>1. objects[f] \in FbType
    BY DEF ObjectsOK
  <2>2. CASE f \in gone
    BY <1>1, <2>1, <2>2, OwnedBy
  <2>3. CASE f \notin gone
    BY <1>1, <2>1, <2>3
  <2> QED BY <2>2, <2>3
<1>7. DOMAIN fbs' = DOMAIN objects
  BY <1>1
<1>8. LiveOf(fbs') = LiveOf(objects) \cap held
  BY <1>3, <1>4, <1>5, <1>6, <1>7 DEF LiveOf
<1>9. LiveOf(objects) \ LiveOf(fbs') = gone
  BY <1>3, <1>4, <1>5, <1>6, <1>7 DEF LiveOf
<1>10. /\ DOMAIN cache' = DOMAIN entries
       /\ \A h \in DOMAIN entries : cache'[h] = IF entries[h] \in gone THEN None ELSE entries[h]
  BY <1>2
<1>11. ObjectsOK(fbs')
  BY <1>6, <1>7 DEF ObjectsOK
<1>12. EntriesOK(cache')
  BY <1>10 DEF EntriesOK, Range
<1>13. \A f \in LiveOf(fbs') : fbs'[f] = objects[f]
  BY <1>9, <1>8, <1>6, <1>7 DEF LiveOf
<1>14. \A f \in DOMAIN objects \ LiveOf(objects) : fbs'[f] = objects[f]
  BY <1>4, <1>6 DEF LiveOf
<1>15. \A f \in gone : fbs'[f].by = t
  BY <1>4, <1>6
<1> QED BY <1>6, <1>7, <1>8, <1>9, <1>10, <1>11, <1>12, <1>13, <1>14, <1>15 DEF held

LEMMA LetGoFound ==
  ASSUME NEW t \in Threads, NEW objects, NEW entries,
         ObjectsOK(objects), EntriesOK(entries), LetGoAmong(t, objects, entries),
         Found(objects, entries),
         Held(slots', layer', shown', prior') \subseteq LiveOf(objects) \cup {None}
  PROVE  Found(fbs', cache') /\ HeldInv'
<1> USE LetGoObjects
<1>1. HeldInv'
  BY DEF HeldInv, Live, LiveOf
<1>2. None \notin Fbs
  BY ConstantsAssumption
<1>3. ASSUME NEW h \in DOMAIN cache', cache'[h] # None
      PROVE  cache'[h] \in LiveOf(fbs') /\ fbs'[cache'[h]].gem[1] = h
  <2>1. cache'[h] = entries[h] /\ entries[h] \notin LiveOf(objects) \ LiveOf(fbs')
    BY <1>3
  <2>2. entries[h] \in LiveOf(objects) /\ objects[entries[h]].gem[1] = h
    BY <1>3, <2>1 DEF Found
  <2>3. entries[h] \in LiveOf(fbs') /\ entries[h] \in DOMAIN objects
    BY <2>1, <2>2 DEF LiveOf
  <2> QED BY <2>1, <2>2, <2>3
<1>4. ASSUME NEW f \in LiveOf(fbs')
      PROVE  fbs'[f].at = 1
  <2>1. f \in LiveOf(objects) /\ f \in DOMAIN objects
    BY DEF LiveOf
  <2> QED BY <2>1 DEF Found
<1> QED BY <1>1, <1>3, <1>4 DEF Found

(* Two live framebuffers have no handle in common.                         *)
LEMMA LiveUnique ==
  ASSUME NEW objects, NEW entries, NEW open, ObjectsOK(objects),
         Clean(objects, entries, open), OneHandle(open),
         NEW f \in LiveOf(objects), NEW g \in LiveOf(objects),
         NEW h \in Range(objects[f].gem), h \in Range(objects[g].gem)
  PROVE  f = g
<1> DEFINE ff == objects[f]  gg == objects[g]
<1>1. ff \in FbType /\ gg \in FbType
  BY DEF ObjectsOK, LiveOf
<1>2. CleanFb(objects, entries, open, f) /\ CleanFb(objects, entries, open, g)
  BY DEF Clean
<1>3. PICK b \in Buffers : ff.image = Planes[b]
  BY <1>2 DEF CleanFb
<1>4. PICK c \in Buffers : gg.image = Planes[c]
  BY <1>2 DEF CleanFb
<1>5. PICK i \in 1 .. Len(ff.gem) : h = ff.gem[i]
  BY <1>1, FbTypeFacts DEF Range
<1>6. PICK j \in 1 .. Len(gg.gem) : h = gg.gem[j]
  BY <1>1, FbTypeFacts DEF Range
<1>7. ff.image[i] = gg.image[j]
  BY <1>2, <1>5, <1>6 DEF CleanFb
<1>8. ff.image[i] \in Range(Planes[b]) /\ gg.image[j] \in Range(Planes[c])
  <2>1. Len(ff.gem) = Len(ff.image) /\ Len(gg.gem) = Len(gg.image)
    BY <1>2 DEF CleanFb
  <2>2. DOMAIN ff.image = 1 .. Len(ff.image) /\ DOMAIN gg.image = 1 .. Len(gg.image)
    BY <1>1, FbTypeFacts
  <2> QED BY <1>3, <1>4, <2>1, <2>2 DEF Range
<1>9. b = c
  BY <1>7, <1>8, ConstantsAssumption DEF ConstantsAssumption
<1>10. ff.gem[1] = gg.gem[1]
  <2>1. 1 \in 1 .. Len(ff.gem) /\ 1 \in 1 .. Len(gg.gem)
    BY <1>1, FbTypeFacts
  <2>2. /\ ff.gem[1] \in DOMAIN open /\ open[ff.gem[1]] = ff.image[1]
        /\ gg.gem[1] \in DOMAIN open /\ open[gg.gem[1]] = gg.image[1]
    BY <1>2, <2>1 DEF CleanFb
  <2> QED BY <1>3, <1>4, <1>9, <2>2 DEF OneHandle
<1> QED BY <1>2, <1>10 DEF CleanFb

LEMMA LetGoClean ==
  ASSUME NEW t \in Threads, NEW objects, NEW entries, NEW open, NEW given,
         ObjectsOK(objects), EntriesOK(entries), LetGoAmong(t, objects, entries),
         Found(objects, entries), Clean(objects, entries, open), OneHandle(open),
         Apart(objects, given),
         \A f \in LiveOf(objects) \ LiveOf(fbs') : Owned(objects[f]) \cap given = {}
  PROVE  Clean(fbs', cache', open) /\ Apart(fbs', given)
<1> USE LetGoObjects
<1>1. LiveOf(fbs') \subseteq LiveOf(objects) /\ LiveOf(objects) \subseteq DOMAIN objects
  BY DEF LiveOf
<1>2. ASSUME NEW f \in LiveOf(fbs')
      PROVE  CleanFb(fbs', cache', open, f)
  <2>1. CleanFb(objects, entries, open, f) /\ fbs'[f] = objects[f]
    BY <1>1 DEF Clean
  <2>2. objects[f].gem[1] \in DOMAIN entries /\ entries[objects[f].gem[1]] = f
    BY <2>1 DEF CleanFb
  <2>3. cache'[objects[f].gem[1]] = f
    BY <2>2
  <2> QED BY <2>1, <2>2, <2>3 DEF CleanFb
<1>3. ASSUME NEW f \in DOMAIN fbs' \ LiveOf(fbs'), NEW h \in Owned(fbs'[f])
      PROVE  h \notin given /\ \A g \in LiveOf(fbs') : h \notin Range(fbs'[g].gem)
  <2>1. h \in Owned(objects[f]) /\ f \in DOMAIN objects
    OBVIOUS
  <2>2. CASE f \in LiveOf(objects)
    <3>1. h \notin given
      BY <2>1, <2>2
    <3>2. ASSUME NEW g \in LiveOf(fbs'), h \in Range(fbs'[g].gem)
          PROVE  FALSE
      <4>1. g \in LiveOf(objects) /\ h \in Range(objects[g].gem) /\ f # g
        BY <1>1, <3>2
      <4>2. objects[f] \in FbType /\ objects[f].at = 1
        BY <2>2 DEF ObjectsOK, Found, LiveOf
      <4>3. h \in Range(objects[f].gem)
        BY <2>1, <4>2, OwnedFull
      <4> QED BY <2>2, <4>1, <4>3, LiveUnique
    <3> QED BY <3>1, <3>2
  <2>3. CASE f \notin LiveOf(objects)
    BY <1>1, <2>1, <2>3 DEF Apart
  <2> QED BY <2>2, <2>3
<1> QED BY <1>2, <1>3 DEF Clean, Apart

-----------------------------------------------------------------------------
(* A step that lets go of references keeps the invariant, if it leaves the *)
(* import alone or ends it, and refers to nothing that is not alive.       *)

Shows(entry, objects) ==
  entry # None /\ entry.fb # None => objects[entry.fb].image = Planes[entry.buffer]

AllShow(objects) == Shows(layer, objects) /\ \A s \in Slots : Shows(slots[s], objects)

LEMMA FbOfBufferIsAllShow == FbOfBuffer <=> (~raced => AllShow(fbs))
  BY DEF FbOfBuffer, ShowsBuffer, AllShow, Shows

LEMMA HeldEntries ==
  ASSUME NEW sl, NEW la, NEW sh, NEW pr
  PROVE  /\ la # None => la.fb \in Held(sl, la, sh, pr)
         /\ \A s \in Slots : sl[s] # None => sl[s].fb \in Held(sl, la, sh, pr)
  BY DEF Held

(* What shows its buffer before references are let go of does so after.    *)
LEMMA LetGoShows ==
  ASSUME NEW t \in Threads, NEW objects, NEW entries,
         ObjectsOK(objects), EntriesOK(entries), LetGoAmong(t, objects, entries),
         Held(slots', layer', shown', prior') \subseteq LiveOf(objects) \cup {None},
         Shows(layer', objects), \A s \in Slots : Shows(slots'[s], objects)
  PROVE  Shows(layer', fbs') /\ \A s \in Slots : Shows(slots'[s], fbs')
<1> DEFINE held == Held(slots', layer', shown', prior')
<1>1. ASSUME NEW f \in held, f # None
      PROVE  fbs'[f] = objects[f]
  <2>1. f \in LiveOf(fbs') /\ f \in DOMAIN objects
    BY <1>1, LetGoObjects DEF LiveOf
  <2> QED BY <2>1, LetGoObjects
<1>2. /\ layer' # None => layer'.fb \in held
      /\ \A s \in Slots : slots'[s] # None => slots'[s].fb \in held
  BY HeldEntries
<1> HIDE DEF held
<1> QED BY <1>1, <1>2 DEF Shows

(* The same when objects and entries are those AddFB2 has just made.       *)
LEMMA LetGoAmongStep ==
  ASSUME NEW t \in Threads, NEW objects, NEW entries, ObjectsOK(objects), EntriesOK(entries),
         LetGoAmong(t, objects, entries), Found(objects, entries),
         HandlesOK(handles'), OneHandle(handles'), ComposerOK', JobInv',
         Held(slots', layer', shown', prior') \subseteq LiveOf(objects) \cup {None},
         \A h \in DOMAIN handles' :
           h \in JobGem' \/ \E f \in DOMAIN objects : h \in Owned(objects[f]),
         ~raced' => /\ Clean(objects, entries, handles') /\ Apart(objects, JobGem')
                    /\ \A f \in LiveOf(objects) \ LiveOf(fbs') :
                         Owned(objects[f]) \cap JobGem' = {}
                    /\ JobClean'
                    /\ Shows(layer', objects) /\ \A s \in Slots : Shows(slots'[s], objects)
  PROVE  IInv'
<1>1. TypeOK'
  <2>1. ObjectsOK(fbs)' /\ EntriesOK(cache)' /\ HandlesOK(handles)'
    BY LetGoObjects DEF ObjectsOK, EntriesOK, HandlesOK
  <2>2. (TypeOK <=> ComposerOK /\ EntriesOK(cache) /\ ObjectsOK(fbs) /\ HandlesOK(handles))'
    BY TypeParts, PTL
  <2> QED BY <2>1, <2>2
<1>2. HeldInv' /\ Found(fbs', cache')
  BY LetGoFound
<1>3. OwnedInv'
  <2>1. ASSUME NEW h, \E f \in DOMAIN objects : h \in Owned(objects[f])
        PROVE  \E f \in DOMAIN fbs' : h \in Owned(fbs'[f])
    BY <2>1, LetGoObjects
  <2> QED BY <2>1 DEF OwnedInv
<1>4. ~raced' => Clean(fbs', cache', handles') /\ Apart(fbs', JobGem') /\ JobClean'
  BY LetGoClean
<1>5. FbOfBuffer'
  <2>1. ASSUME ~raced'
        PROVE  Shows(layer', fbs') /\ \A s \in Slots : Shows(slots'[s], fbs')
    BY <2>1, LetGoShows
  <2>2. AllShow(fbs)' <=> Shows(layer', fbs') /\ \A s \in Slots : Shows(slots'[s], fbs')
    BY DEF AllShow, Shows
  <2>3. (FbOfBuffer <=> (~raced => AllShow(fbs)))'
    BY FbOfBufferIsAllShow, PTL
  <2> QED BY <2>1, <2>2, <2>3
<1>6. ~raced' => CleanInv'
  BY <1>4 DEF CleanInv, Clean, CleanFb, Apart, LiveOf, JobGem, Owned, Closes
<1>7. Found(fbs, cache)' /\ OneHandle(handles)'
  BY <1>2 DEF Found, OneHandle, LiveOf
<1> QED BY <1>1, <1>2, <1>3, <1>5, <1>6, <1>7 DEF IInv

LEMMA LetGoStep ==
  ASSUME IInv, NEW t \in Threads, LetGo(t), UNCHANGED handles,
         ComposerOK', JobInv', raced => raced',
         Held(slots', layer', shown', prior') \subseteq Live \cup {None},
         \A h \in JobGem : h \in JobGem' \/ \E f \in DOMAIN fbs : h \in Owned(fbs[f]),
         \/ job' = None \/ (job'.gem = <<>> /\ job'.step = "first")
         \/ /\ job' = job /\ slots' = slots
            /\ ~raced' => \A f \in Live \ LiveOf(fbs') : Owned(fbs[f]) \cap JobGem = {},
         ~raced' => Shows(layer', fbs) /\ \A s \in Slots : Shows(slots'[s], fbs)
  PROVE  IInv'
<1>1. /\ ObjectsOK(fbs) /\ EntriesOK(cache) /\ Found(fbs, cache) /\ OwnedInv
      /\ LetGoAmong(t, fbs, cache) /\ Live = LiveOf(fbs)
  BY TypeParts DEF IInv, LetGo, Live, LiveOf
<1>2. HandlesOK(handles') /\ OneHandle(handles')
  BY TypeParts DEF IInv, HandlesOK, OneHandle
<1>3. ASSUME ~raced'
      PROVE  Clean(fbs, cache, handles') /\ Apart(fbs, JobGem) /\ JobClean
  BY <1>3 DEF IInv, CleanInv
<1>4. CASE job' = None \/ (job'.gem = <<>> /\ job'.step = "first")
  <2>1. JobGem' = {} /\ JobClean'
    BY <1>4 DEF JobGem, Range, JobClean
  <2>2. ~raced' => Apart(fbs, JobGem')
    BY <1>3, <2>1 DEF Apart
  <2>3. \A h \in DOMAIN handles' : \E f \in DOMAIN fbs : h \in Owned(fbs[f])
    BY <1>1, <2>1 DEF OwnedInv
  <2> QED BY <1>1, <1>2, <1>3, <2>1, <2>2, <2>3, LetGoAmongStep
<1>5. CASE /\ job' = job /\ slots' = slots
           /\ ~raced' => \A f \in Live \ LiveOf(fbs') : Owned(fbs[f]) \cap JobGem = {}
  <2>1. JobGem' = JobGem
    BY <1>5 DEF JobGem
  <2>2. \A f \in LiveOf(fbs') : f \in LiveOf(fbs) /\ fbs'[f] = fbs[f]
    <3>1. \A f \in LiveOf(fbs') : f \in DOMAIN fbs /\ f \in LiveOf(fbs)
      BY <1>1, LetGoObjects DEF LiveOf
    <3> QED BY <1>1, <3>1, LetGoObjects
  <2>3. Live' = LiveOf(fbs')
    BY DEF Live, LiveOf
  <2>4. ~raced' => JobClean'
    BY <1>1, <1>3, <1>5, <2>2, <2>3 DEF JobClean, JobBuffer
  <2>5. \A h \in DOMAIN handles' : h \in JobGem' \/ \E f \in DOMAIN fbs : h \in Owned(fbs[f])
    BY <1>1, <2>1 DEF OwnedInv
  <2> QED BY <1>1, <1>2, <1>3, <1>5, <2>1, <2>4, <2>5, LetGoAmongStep
<1> QED BY <1>4, <1>5

-----------------------------------------------------------------------------
(* The commands of the client, and the clean-up of frames.                 *)

LEMMA EntryFacts ==
  ASSUME ComposerOK
  PROVE  /\ \A s \in Slots : slots[s] # None =>
              slots[s].buffer \in Buffers /\ slots[s].fb \in Fbs \cup {None}
         /\ layer # None => layer.buffer \in Buffers /\ layer.fb \in Fbs \cup {None}
         /\ slots \in [Slots -> Entry \cup {None}]
  BY DEF ComposerOK, Entry

LEMMA NewEntry ==
  ASSUME NEW b \in Buffers, NEW f \in Fbs \cup {None}
  PROVE  /\ [buffer |-> b, fb |-> f] \in Entry
         /\ [buffer |-> b, fb |-> f] # None
  BY ConstantsAssumption DEF Entry

LEMMA NewJob ==
  ASSUME NEW s \in Slots, NEW tries \in {1, 2}
  PROVE  /\ Import(s, tries) \in Job /\ Import(s, tries) # None
         /\ Import(s, tries).slot = s /\ Import(s, tries).step = "first"
         /\ Import(s, tries).gem = <<>>
<1>1. <<>> \in Seq(Handles \cup {None})
  OBVIOUS
<1>2. Import(s, tries) \in Job
  <2> DEFINE gems == Seq(Handles \cup {None})
  <2>1. <<>> \in gems
    BY <1>1
  <2> HIDE DEF gems
  <2>2. Import(s, tries) \in [slot : Slots, tries : {1, 2},
                            step : {"first", "lookup", "planes"}, gem : gems]
    BY <2>1 DEF Import
  <2> QED BY <2>2 DEF Job, gems
<1>3. /\ Import(s, tries).slot = s /\ Import(s, tries).step = "first"
      /\ Import(s, tries).gem = <<>>
  BY DEF Import
<1> QED BY <1>2, <1>3, ConstantsAssumption

LEMMA PlanesLength ==
  ASSUME NEW b \in Buffers
  PROVE  /\ Planes[b] \in Seq(DmaBufs) /\ Len(Planes[b]) \in Nat /\ Len(Planes[b]) >= 1
         /\ DOMAIN Planes[b] = 1 .. Len(Planes[b])
<1>1. Planes[b] \in Seq(DmaBufs) /\ Planes[b] # <<>>
  BY ConstantsAssumption
<1> QED BY <1>1

(* A job that begins is none that has a handle.                            *)
LEMMA FreshJob ==
  ASSUME ComposerOK', NEW s \in Slots, NEW tries \in {1, 2}, job' = Import(s, tries),
         slots'[s] # None
  PROVE  JobInv'
<1>1. slots'[s].buffer \in Buffers
  BY DEF ComposerOK, Entry
<1>2. Len(Planes[slots'[s].buffer]) \in Nat
  BY <1>1, PlanesLength
<1> QED BY <1>2, NewJob DEF JobInv, JobBuffer

LEMMA IdleStep ==
  ASSUME IInv, Idle, LetGo(Main), UNCHANGED <<handles, raced>>, ComposerOK',
         job' = None \/ \E s \in Slots, n \in {1, 2} : job' = Import(s, n) /\ slots'[s] # None,
         \A s \in Slots : slots'[s] = None \/ slots'[s] = slots[s] \/ slots'[s].fb = None,
         layer' = None \/ layer' = layer \/ \E s \in Slots : layer' = slots[s],
         shown' \in {shown, None} \/ (layer # None /\ shown' = layer.fb),
         prior' \subseteq prior \cup {shown}
  PROVE  IInv'
<1>1. JobInv' /\ (job' = None \/ (job'.gem = <<>> /\ job'.step = "first"))
  <2>1. CASE job' = None
    BY <2>1 DEF JobInv
  <2>2. CASE \E s \in Slots, n \in {1, 2} : job' = Import(s, n) /\ slots'[s] # None
    BY <2>2, FreshJob, NewJob
  <2> QED BY <2>1, <2>2
<1>2. JobGem = {}
  BY DEF Idle, JobGem
<1>3. Held(slots, layer, shown, prior) \subseteq Live \cup {None}
  BY DEF IInv, HeldInv
<1>4. Held(slots', layer', shown', prior') \subseteq Held(slots, layer, shown, prior) \cup {None}
  BY DEF Held
<1>5. ASSUME ~raced'
      PROVE  Shows(layer', fbs) /\ \A s \in Slots : Shows(slots'[s], fbs)
  <2>1. AllShow(fbs)
    BY <1>5, FbOfBufferIsAllShow DEF IInv
  <2> QED BY <2>1 DEF AllShow, Shows
<1>6. Main \in Threads
  BY DEF Threads
<1> QED BY <1>1, <1>2, <1>3, <1>4, <1>5, <1>6, LetGoStep

LEMMA ComposerOKNow == IInv => ComposerOK
  BY TypeParts DEF IInv

LEMMA NextBufferInv ==
  ASSUME IInv, NEW s \in Slots, NEW b \in Buffers, NextBuffer(s, b)
  PROVE  IInv'
<1> DEFINE e == [buffer |-> b, fb |-> None]
<1>1. e \in Entry /\ e # None /\ e.fb = None
  BY NewEntry
<1>2. slots' = [slots EXCEPT ![s] = e] /\ job' = Import(s, 2)
  BY DEF NextBuffer
<1>3. UNCHANGED <<headless, layer, shown, prior, handles, raced>> /\ Idle /\ LetGo(Main)
  BY DEF NextBuffer
<1> HIDE DEF e
<1>4. slots \in [Slots -> Entry \cup {None}]
  BY ComposerOKNow DEF ComposerOK
<1>5. /\ slots' \in [Slots -> Entry \cup {None}] /\ slots'[s] = e
      /\ \A x \in Slots : x # s => slots'[x] = slots[x]
  BY <1>1, <1>2, <1>4
<1>6. job' \in Job
  BY <1>2, NewJob
<1>7. ComposerOK'
  BY <1>3, <1>5, <1>6, ComposerOKNow DEF ComposerOK
<1>8. \E x \in Slots, n \in {1, 2} : job' = Import(x, n) /\ slots'[x] # None
  BY <1>1, <1>2, <1>5
<1>9. \A x \in Slots : slots'[x] = slots[x] \/ slots'[x].fb = None
  BY <1>1, <1>5
<1> QED BY <1>3, <1>7, <1>8, <1>9, IdleStep

LEMMA CachedBufferInv ==
  ASSUME IInv, NEW s \in Slots, CachedBuffer(s)
  PROVE  IInv'
<1>1. /\ UNCHANGED <<headless, slots, shown, prior, handles, raced>> /\ Idle /\ LetGo(Main)
      /\ slots[s] # None /\ ComposerOK /\ job = None
  BY ComposerOKNow DEF CachedBuffer, Idle
<1>2. CASE job' = Import(s, 1) /\ UNCHANGED layer
  <2>1. job' \in Job
    BY <1>2, NewJob
  <2>2. ComposerOK'
    BY <1>1, <1>2, <2>1 DEF ComposerOK
  <2>3. \E x \in Slots, n \in {1, 2} : job' = Import(x, n) /\ slots'[x] # None
    BY <1>1, <1>2
  <2> QED BY <1>1, <1>2, <2>2, <2>3, IdleStep
<1>3. CASE layer' = slots[s] /\ UNCHANGED job
  <2>1. ComposerOK'
    BY <1>1, <1>3 DEF ComposerOK
  <2> QED BY <1>1, <1>3, <2>1, IdleStep
<1> QED BY <1>2, <1>3 DEF CachedBuffer

LEMMA OtherCommandsInv ==
  ASSUME IInv, (\E S \in SUBSET Slots : ClearSlots(S)) \/ DestroyLayer \/ Present \/ Teardown
  PROVE  IInv'
<1> USE ComposerOKNow
<1>1. ASSUME NEW S \in SUBSET Slots, ClearSlots(S)
      PROVE  IInv'
  <2>1. ComposerOK'
    BY <1>1 DEF ClearSlots, ComposerOK
  <2> QED BY <1>1, <2>1, IdleStep DEF ClearSlots, Idle
<1>2. CASE DestroyLayer
  <2>1. ComposerOK'
    BY <1>2 DEF DestroyLayer, ComposerOK
  <2> QED BY <1>2, <2>1, IdleStep DEF DestroyLayer, Idle
<1>3. CASE Present
  <2>1. ComposerOK'
    BY <1>3, EntryFacts DEF Present, ComposerOK
  <2> QED BY <1>3, <2>1, IdleStep DEF Present, Idle
<1>4. CASE Teardown
  <2>1. ComposerOK'
    BY <1>4 DEF Teardown, ComposerOK
  <2> QED BY <1>4, <2>1, IdleStep DEF Teardown, Idle
<1> QED BY <1>1, <1>2, <1>3, <1>4

(* A clean-up by a tracking thread may come in the middle of an import;    *)
(* what it drops is then none of the import's, or it is raced.             *)
LEMMA CleanupInv ==
  ASSUME IInv, NEW t \in Threads, CleanupPriorFrames(t)
  PROVE  IInv'
<1> DEFINE race == \E f \in Live : fbs'[f].by = t /\ ImportHas(fbs[f])
<1>1. /\ UNCHANGED <<headless, slots, layer, shown, job, handles>> /\ LetGo(t) /\ prior' = {}
      /\ raced' = (raced \/ race)
  BY DEF CleanupPriorFrames
<1>2. raced' \in BOOLEAN /\ (raced => raced') /\ (~raced' => ~race)
  BY <1>1
<1> HIDE DEF race
<1>3. ComposerOK'
  BY <1>1, <1>2, ComposerOKNow DEF ComposerOK
<1>4. JobInv'
  BY <1>1 DEF IInv, JobInv, JobBuffer
<1>5. Held(slots', layer', shown', prior') \subseteq Live \cup {None}
  BY <1>1 DEF IInv, HeldInv, Held
<1>6. JobGem' = JobGem
  BY <1>1 DEF JobGem
<1>7. ASSUME ~raced'
      PROVE  \A f \in Live \ LiveOf(fbs') : Owned(fbs[f]) \cap JobGem = {}
  <2>1. LetGoAmong(t, fbs, cache) /\ ObjectsOK(fbs) /\ EntriesOK(cache) /\ Live = LiveOf(fbs)
    BY <1>1, TypeParts DEF IInv, LetGo, Live, LiveOf
  <2>2. ASSUME NEW f \in Live \ LiveOf(fbs')
        PROVE  Owned(fbs[f]) \cap JobGem = {}
    <3>1. fbs'[f].by = t
      BY <2>1, LetGoObjects
    <3>2. ~ImportHas(fbs[f])
      BY <1>2, <1>7, <3>1 DEF race
    <3> QED BY <3>2 DEF ImportHas, JobGem
  <2> QED BY <2>2
<1>8. ASSUME ~raced'
      PROVE  Shows(layer', fbs) /\ \A s \in Slots : Shows(slots'[s], fbs)
  <2>1. AllShow(fbs)
    BY <1>2, <1>8, FbOfBufferIsAllShow DEF IInv
  <2> QED BY <1>1, <2>1 DEF AllShow
<1> QED BY <1>1, <1>2, <1>3, <1>4, <1>5, <1>6, <1>7, <1>8, LetGoStep

-----------------------------------------------------------------------------
(* Closing a handle.                                                       *)

LEMMA CloseHandleInv ==
  ASSUME IInv, NEW t \in Threads, CloseHandle(t)
  PROVE  IInv'
<1>1. PICK f \in Dying(t) :
        LET fb == fbs[f]
        IN  /\ IF Closes(fb, fb.at)
               THEN handles' = Restrict(handles, DOMAIN handles \ {fb.gem[fb.at]})
               ELSE UNCHANGED handles
            /\ fbs' = IF fb.at = Len(fb.gem) THEN Restrict(fbs, DOMAIN fbs \ {f})
                      ELSE [fbs EXCEPT ![f].at = @ + 1]
  BY DEF CloseHandle
<1>2. UNCHANGED <<headless, slots, layer, shown, prior, job, cache, raced>>
  BY DEF CloseHandle, composer
<1> DEFINE fb == fbs[f]
           closed == IF Closes(fb, fb.at) THEN {fb.gem[fb.at]} ELSE {}
<1>3. /\ ObjectsOK(fbs) /\ EntriesOK(cache) /\ HandlesOK(handles) /\ ComposerOK
      /\ Found(fbs, cache) /\ OwnedInv /\ OneHandle(handles) /\ JobInv /\ HeldInv
  BY TypeParts DEF IInv
<1>4. f \in DOMAIN fbs /\ f \notin LiveOf(fbs) /\ fb \in FbType
  BY <1>3, ConstantsAssumption DEF Dying, LiveOf, ObjectsOK
<1>5. /\ DOMAIN handles' = DOMAIN handles \ closed
      /\ \A h \in DOMAIN handles' : handles'[h] = handles[h]
      /\ closed \subseteq Owned(fb)
  BY <1>1, <1>4, OwnedAt DEF Restrict
<1>6. /\ DOMAIN fbs' \subseteq DOMAIN fbs
      /\ \A g \in DOMAIN fbs : g # f => g \in DOMAIN fbs' /\ fbs'[g] = fbs[g]
      /\ f \in DOMAIN fbs' => /\ fbs'[f] \in FbType /\ fbs'[f].by = fb.by
                              /\ Owned(fbs'[f]) \subseteq Owned(fb)
      /\ \A h \in Owned(fb) : h \in closed \/ (f \in DOMAIN fbs' /\ h \in Owned(fbs'[f]))
  <2>1. CASE fb.at = Len(fb.gem)
    BY <1>1, <1>4, <2>1, OwnedLast DEF Restrict
  <2>2. CASE fb.at # Len(fb.gem)
    <3>1. /\ DOMAIN fbs' = DOMAIN fbs /\ fbs'[f] = [fb EXCEPT !.at = @ + 1]
          /\ \A g \in DOMAIN fbs : g # f => fbs'[g] = fbs[g]
      BY <1>1, <1>4, <2>2
    <3>2. /\ fbs'[f] \in FbType /\ fbs'[f].by = fb.by /\ Owned(fbs'[f]) \subseteq Owned(fb)
          /\ \A h \in Owned(fb) : h \in Owned(fbs'[f]) \/ h \in closed
      BY <1>4, <2>2, <3>1, OwnedNext
    <3> QED BY <1>4, <3>1, <3>2
  <2> QED BY <2>1, <2>2
<1> HIDE DEF closed
<1>7. LiveOf(fbs') = LiveOf(fbs) /\ \A g \in LiveOf(fbs) : fbs'[g] = fbs[g]
  BY <1>4, <1>6 DEF LiveOf
<1>8. Live' = Live /\ JobGem' = JobGem
  BY <1>2, <1>7 DEF Live, LiveOf, JobGem
<1>9. TypeOK'
  <2>1. ObjectsOK(fbs)'
    BY <1>3, <1>6 DEF ObjectsOK
  <2>2. EntriesOK(cache)' /\ ComposerOK'
    BY <1>2, <1>3 DEF EntriesOK, ComposerOK
  <2>3. HandlesOK(handles)'
    BY <1>3, <1>5 DEF HandlesOK, Range
  <2>4. (TypeOK <=> ComposerOK /\ EntriesOK(cache) /\ ObjectsOK(fbs) /\ HandlesOK(handles))'
    BY TypeParts, PTL
  <2> QED BY <2>1, <2>2, <2>3, <2>4
<1>10. JobInv'
  BY <1>2, <1>3 DEF JobInv, JobBuffer
<1>11. HeldInv'
  BY <1>2, <1>3, <1>8 DEF HeldInv
<1>12. Found(fbs, cache)'
  BY <1>2, <1>3, <1>7 DEF Found
<1>13. OwnedInv'
  <2>1. ASSUME NEW h \in DOMAIN handles'
        PROVE  h \in JobGem' \/ \E g \in DOMAIN fbs' : h \in Owned(fbs'[g])
    <3>1. h \in DOMAIN handles /\ h \notin closed
      BY <1>5, <2>1
    <3>2. CASE h \in JobGem
      BY <1>8, <3>2
    <3>3. CASE \E g \in DOMAIN fbs : h \in Owned(fbs[g])
      BY <1>6, <3>1, <3>3
    <3> QED BY <1>3, <3>1, <3>2, <3>3 DEF OwnedInv
  <2> QED BY <2>1 DEF OwnedInv
<1>14. OneHandle(handles)'
  BY <1>3, <1>5 DEF OneHandle
<1>15. ASSUME ~raced'
       PROVE  CleanInv'
  <2>1. Clean(fbs, cache, handles) /\ Apart(fbs, JobGem) /\ JobClean
    BY <1>2, <1>15 DEF IInv, CleanInv
  <2>2. /\ \A h \in closed : h \notin JobGem
        /\ \A h \in closed : \A g \in LiveOf(fbs) : h \notin Range(fbs[g].gem)
    BY <1>4, <1>5, <2>1 DEF Apart
  <2>3. ASSUME NEW g \in LiveOf(fbs)
        PROVE  CleanFb(fbs', cache', handles', g)
    <3>1. CleanFb(fbs, cache, handles, g) /\ fbs'[g] = fbs[g] /\ cache' = cache
      BY <1>2, <1>7, <2>1 DEF Clean
    <3>2. \A i \in 1 .. Len(fbs[g].gem) : fbs[g].gem[i] \in Range(fbs[g].gem)
      BY <1>3, FbTypeFacts DEF ObjectsOK, LiveOf, Range
    <3>3. \A i \in 1 .. Len(fbs[g].gem) :
            fbs[g].gem[i] \in DOMAIN handles' /\ handles'[fbs[g].gem[i]] = fbs[g].image[i]
      BY <1>5, <2>2, <3>1, <3>2 DEF CleanFb
    <3> QED BY <3>1, <3>3 DEF CleanFb
  <2>4. Clean(fbs', cache', handles')
    BY <1>7, <2>3 DEF Clean
  <2>5. Apart(fbs', JobGem')
    <3>1. ASSUME NEW g \in DOMAIN fbs' \ LiveOf(fbs'), NEW h \in Owned(fbs'[g])
          PROVE  g \in DOMAIN fbs \ LiveOf(fbs) /\ h \in Owned(fbs[g])
      BY <1>6, <1>7
    <3> QED BY <1>7, <1>8, <2>1, <3>1 DEF Apart
  <2>6. JobClean'
    <3>1. ASSUME job # None, NEW i \in 1 .. Len(job.gem), job.gem[i] # None
          PROVE  job.gem[i] \in DOMAIN handles' /\ handles'[job.gem[i]] = Planes[JobBuffer][i]
      <4>1. job.gem[i] \in JobGem
        BY <1>3, <3>1 DEF JobGem, Range, ComposerOK, Job
      <4> QED BY <1>5, <2>1, <2>2, <3>1, <4>1 DEF JobClean
    <3>2. JobBuffer' = JobBuffer
      BY <1>2 DEF JobBuffer
    <3>3. \A g \in Live : fbs'[g] = fbs[g]
      BY <1>7 DEF Live, LiveOf
    <3> QED BY <1>2, <1>8, <2>1, <3>1, <3>2, <3>3 DEF JobClean
  <2> QED BY <2>4, <2>5, <2>6 DEF CleanInv, Clean, CleanFb, Apart, LiveOf, Owned, Closes
<1>16. FbOfBuffer'
  <2>1. ASSUME ~raced', NEW e, e # None => e.fb \in Live \cup {None}, Shows(e, fbs)
        PROVE  Shows(e, fbs')
    BY <1>7, <2>1 DEF Shows, Live, LiveOf
  <2>2. /\ layer # None => layer.fb \in Live \cup {None}
        /\ \A s \in Slots : slots[s] # None => slots[s].fb \in Live \cup {None}
    BY <1>3, HeldEntries DEF HeldInv
  <2>3. ~raced => AllShow(fbs)
    BY FbOfBufferIsAllShow DEF IInv
  <2>4. ~raced' => Shows(layer', fbs') /\ \A s \in Slots : Shows(slots'[s], fbs')
    BY <1>2, <2>1, <2>2, <2>3 DEF AllShow
  <2>5. AllShow(fbs)' <=> Shows(layer', fbs') /\ \A s \in Slots : Shows(slots'[s], fbs')
    BY DEF AllShow, Shows
  <2>6. (FbOfBuffer <=> (~raced => AllShow(fbs)))'
    BY FbOfBufferIsAllShow, PTL
  <2> QED BY <2>4, <2>5, <2>6
<1> QED BY <1>9, <1>10, <1>11, <1>12, <1>13, <1>14, <1>15, <1>16 DEF IInv

-----------------------------------------------------------------------------
(* The end of an import.                                                   *)

LEMMA JobFacts ==
  ASSUME ComposerOK, JobInv, job # None
  PROVE  /\ job.slot \in Slots /\ job.tries \in {1, 2}
         /\ job.step \in {"first", "lookup", "planes"}
         /\ job.gem \in Seq(Handles \cup {None}) /\ Len(job.gem) \in Nat
         /\ DOMAIN job.gem = 1 .. Len(job.gem)
         /\ JobBuffer \in Buffers /\ JobGem = Range(job.gem)
         /\ slots[job.slot] # None /\ slots[job.slot].buffer = JobBuffer
         /\ \A f : [slots[job.slot] EXCEPT !.fb = f] = [buffer |-> JobBuffer, fb |-> f]
<1>1. job \in Job /\ slots[job.slot] # None
  BY DEF ComposerOK, JobInv
<1>2. job.slot \in Slots /\ job.tries \in {1, 2} /\ job.step \in {"first", "lookup", "planes"}
  BY <1>1 DEF Job
<1>3. job.gem \in Seq(Handles \cup {None})
  BY <1>1 DEF Job
<1>4. slots[job.slot] \in Entry
  BY <1>1, <1>2 DEF ComposerOK
<1>5. slots[job.slot].buffer \in Buffers
  BY <1>4 DEF Entry
<1>6. \A f : [slots[job.slot] EXCEPT !.fb = f] = [buffer |-> slots[job.slot].buffer, fb |-> f]
  BY <1>4 DEF Entry
<1>7. Len(job.gem) \in Nat /\ DOMAIN job.gem = 1 .. Len(job.gem)
  BY <1>3
<1> QED BY <1>1, <1>2, <1>3, <1>5, <1>6, <1>7 DEF JobBuffer, JobGem

LEMMA ImportDone ==
  ASSUME ComposerOK, JobInv, job # None, NEW f \in Fbs \cup {None}, ImportFbDone(f),
         UNCHANGED <<headless, shown, prior>>, raced' \in BOOLEAN
  PROVE  /\ ComposerOK' /\ JobInv'
         /\ job' = None \/ (job'.gem = <<>> /\ job'.step = "first")
         /\ Held(slots', layer', shown', prior') \subseteq Held(slots, layer, shown, prior) \cup {f, None}
         /\ \A objects :
              AllShow(objects) /\ (f # None => objects[f].image = Planes[JobBuffer])
                => Shows(layer', objects) /\ \A s \in Slots : Shows(slots'[s], objects)
<1> DEFINE e == [buffer |-> JobBuffer, fb |-> f]
<1>1. e \in Entry /\ e # None /\ e.fb = f /\ e.buffer = JobBuffer
  BY JobFacts, NewEntry
<1>2. /\ slots' = [slots EXCEPT ![job.slot] = e]
      /\ \/ job' = Import(job.slot, job.tries - 1) /\ job.tries > 1 /\ layer' = layer
         \/ job' = None /\ layer' = e
  BY JobFacts DEF ImportFbDone
<1> HIDE DEF e
<1>3. slots \in [Slots -> Entry \cup {None}] /\ layer \in Entry \cup {None}
  BY DEF ComposerOK
<1>4. /\ slots' \in [Slots -> Entry \cup {None}] /\ slots'[job.slot] = e
      /\ \A s \in Slots : s # job.slot => slots'[s] = slots[s]
  BY <1>1, <1>2, <1>3, JobFacts
<1>5. layer' \in Entry \cup {None} /\ (layer' = layer \/ layer' = e)
  BY <1>1, <1>2, <1>3
<1>6. /\ job' \in Job \cup {None}
      /\ \/ job' = None
         \/ \E s \in Slots, n \in {1, 2} : job' = Import(s, n) /\ slots'[s] # None
  <2>1. CASE job' = None
    BY <2>1
  <2>2. CASE job' = Import(job.slot, job.tries - 1) /\ job.tries > 1
    <3>1. job.tries - 1 \in {1, 2}
      BY <2>2, JobFacts
    <3> QED BY <1>1, <1>4, <2>2, <3>1, JobFacts, NewJob
  <2> QED BY <1>2, <2>1, <2>2
<1>7. ComposerOK'
  BY <1>4, <1>5, <1>6 DEF ComposerOK
<1>8. JobInv' /\ (job' = None \/ (job'.gem = <<>> /\ job'.step = "first"))
  <2>1. CASE job' = None
    BY <2>1 DEF JobInv
  <2>2. CASE \E s \in Slots, n \in {1, 2} : job' = Import(s, n) /\ slots'[s] # None
    BY <1>7, <2>2, FreshJob, NewJob
  <2> QED BY <1>6, <2>1, <2>2
<1>9. Held(slots', layer', shown', prior') \subseteq Held(slots, layer, shown, prior) \cup {f, None}
  <2>1. ASSUME NEW s \in Slots, slots'[s] # None
        PROVE  slots'[s].fb \in Held(slots, layer, shown, prior) \cup {f, None}
    BY <1>1, <1>4, <2>1, HeldEntries
  <2>2. ASSUME layer' # None
        PROVE  layer'.fb \in Held(slots, layer, shown, prior) \cup {f, None}
    BY <1>1, <1>5, <2>2, HeldEntries
  <2>3. {shown} \cup prior \subseteq Held(slots, layer, shown, prior)
    BY DEF Held
  <2> QED BY <2>1, <2>2, <2>3 DEF Held
<1>10. ASSUME NEW objects, AllShow(objects), f # None => objects[f].image = Planes[JobBuffer]
       PROVE  Shows(layer', objects) /\ \A s \in Slots : Shows(slots'[s], objects)
  <2>1. Shows(e, objects)
    BY <1>1, <1>10 DEF Shows
  <2> QED BY <1>4, <1>5, <1>10, <2>1 DEF AllShow
<1> QED BY <1>7, <1>8, <1>9, <1>10

(* A live framebuffer that has a handle of a dma-buf of buffer b shows b,  *)
(* and is found by the handle of b's first dma-buf.                        *)
LEMMA ShowsTheBuffer ==
  ASSUME ObjectsOK(fbs), Clean(fbs, cache, handles), OneHandle(handles), NEW b \in Buffers,
         NEW f \in Live, NEW h \in Range(fbs[f].gem), handles[h] \in Range(Planes[b])
  PROVE  fbs[f].image = Planes[b]
<1>1. fbs[f] \in FbType /\ CleanFb(fbs, cache, handles, f)
  BY DEF ObjectsOK, Clean, Live, LiveOf
<1>2. PICK c \in Buffers : fbs[f].image = Planes[c]
  BY <1>1 DEF CleanFb
<1>3. PICK i \in 1 .. Len(fbs[f].gem) : h = fbs[f].gem[i]
  BY <1>1, FbTypeFacts DEF Range
<1>4. handles[h] = Planes[c][i] /\ i \in DOMAIN Planes[c]
  BY <1>1, <1>2, <1>3, PlanesLength DEF CleanFb
<1>5. handles[h] \in Range(Planes[c])
  BY <1>4 DEF Range
<1>6. b = c
  BY <1>5, ConstantsAssumption
<1> QED BY <1>2, <1>6

(* Until the race, the handles of the import are those of its buffer.      *)
LEMMA JobHandles ==
  ASSUME ComposerOK, JobInv, JobClean, job # None, NEW h \in JobGem, h # None
  PROVE  h \in DOMAIN handles /\ handles[h] \in Range(Planes[JobBuffer])
<1>1. PICK i \in 1 .. Len(job.gem) : h = job.gem[i]
  BY JobFacts DEF Range
<1>2. h \in DOMAIN handles /\ handles[h] = Planes[JobBuffer][i]
  BY <1>1 DEF JobClean
<1>3. i \in DOMAIN Planes[JobBuffer]
  BY JobFacts, PlanesLength DEF JobInv
<1> QED BY <1>2, <1>3 DEF Range

-----------------------------------------------------------------------------
(* The steps of an import.                                                 *)

LEMMA IInvParts ==
  ASSUME IInv
  PROVE  /\ ObjectsOK(fbs) /\ EntriesOK(cache) /\ HandlesOK(handles) /\ ComposerOK
         /\ Found(fbs, cache) /\ OwnedInv /\ OneHandle(handles) /\ JobInv /\ HeldInv
         /\ Live = LiveOf(fbs) /\ Live \subseteq DOMAIN fbs /\ (~raced => AllShow(fbs))
         /\ ~raced => Clean(fbs, cache, handles) /\ Apart(fbs, JobGem) /\ JobClean
  BY TypeParts, FbOfBufferIsAllShow DEF IInv, CleanInv, Live, LiveOf

(* An import ends with a framebuffer of its buffer, or with none, and has  *)
(* no handle that it alone knows.                                          *)
LEMMA ImportEnds ==
  ASSUME IInv, job # None, NEW f \in Live \cup {None}, ImportFbDone(f),
         ~raced /\ f # None => fbs[f].image = Planes[JobBuffer],
         UNCHANGED <<headless, shown, prior, handles, raced>>, LetGo(Main),
         \A h \in JobGem : \E g \in DOMAIN fbs : h \in Owned(fbs[g])
  PROVE  IInv'
<1>1. f \in Fbs \cup {None}
  BY IInvParts DEF ObjectsOK
<1>2. Main \in Threads /\ raced' \in BOOLEAN
  BY IInvParts DEF Threads, ComposerOK
<1>3. /\ ComposerOK' /\ JobInv'
      /\ job' = None \/ (job'.gem = <<>> /\ job'.step = "first")
      /\ Held(slots', layer', shown', prior') \subseteq Held(slots, layer, shown, prior) \cup {f, None}
  BY <1>1, <1>2, IInvParts, ImportDone
<1>4. Held(slots', layer', shown', prior') \subseteq Live \cup {None}
  BY <1>3, IInvParts DEF HeldInv
<1>5. ~raced' => Shows(layer', fbs) /\ \A s \in Slots : Shows(slots'[s], fbs)
  BY <1>1, <1>2, IInvParts, ImportDone
<1> QED BY <1>2, <1>3, <1>4, <1>5, LetGoStep

LEMMA LookupHitInv ==
  ASSUME IInv, Importing("lookup"), job.gem[1] \in DOMAIN cache, cache[job.gem[1]] # None,
         ImportFbDone(cache[job.gem[1]]), UNCHANGED <<headless, shown, prior, handles, raced>>,
         LetGo(Main)
  PROVE  IInv'
<1> DEFINE key == job.gem[1]
           f == cache[key]
<1>1. job # None /\ JobGem = {key} /\ key \in JobGem
  BY IInvParts, JobFacts DEF Importing, JobInv, Range
<1>2. f \in Live /\ fbs[f].gem[1] = key /\ fbs[f].at = 1
  BY IInvParts DEF Found
<1>3. fbs[f] \in FbType
  BY <1>2, IInvParts DEF ObjectsOK
<1>4. key \in Range(fbs[f].gem) /\ key # None
  BY <1>2, <1>3, FbTypeFacts DEF Range
<1>5. key \in Owned(fbs[f])
  BY <1>2, <1>3, <1>4, OwnedFull
<1> HIDE DEF key, f
<1>6. ASSUME ~raced
      PROVE  fbs[f].image = Planes[JobBuffer]
  <2>1. handles[key] \in Range(Planes[JobBuffer]) /\ JobBuffer \in Buffers
    BY <1>1, <1>4, <1>6, IInvParts, JobHandles, JobFacts
  <2> QED BY <1>2, <1>4, <1>6, <2>1, IInvParts, ShowsTheBuffer
<1>7. \A h \in JobGem : \E g \in DOMAIN fbs : h \in Owned(fbs[g])
  BY <1>1, <1>2, <1>5, IInvParts
<1>8. ImportFbDone(f)
  BY DEF f, key
<1>9. f \in Live \cup {None}
  BY <1>2
<1> QED BY <1>1, <1>6, <1>7, <1>8, <1>9, ImportEnds

(* A lookup that finds nothing drops entries of no live framebuffer.       *)
LEMMA LookupMissInv ==
  ASSUME IInv, Importing("lookup"),
         ~(job.gem[1] \in DOMAIN cache /\ cache[job.gem[1]] # None),
         LET erased == Restrict(cache, DOMAIN cache \ {job.gem[1]})
             alive == {h \in DOMAIN erased : erased[h] # None}
         IN  cache' = IF Cardinality(DOMAIN erased) > CleanupSize
                      THEN Restrict(erased, alive) ELSE erased,
         job' = [job EXCEPT !.step = "planes"],
         UNCHANGED <<headless, slots, layer, shown, prior, fbs, handles, raced>>
  PROVE  IInv'
<1> DEFINE key == job.gem[1]
<1>1. job # None /\ JobGem = {key} /\ key \in JobGem /\ Len(job.gem) = 1 /\ key # None
  BY IInvParts, JobFacts DEF Importing, JobInv, Range
<1>2. /\ DOMAIN cache' \subseteq DOMAIN cache
      /\ \A h \in DOMAIN cache' : cache'[h] = cache[h]
      /\ \A h \in DOMAIN cache : cache[h] # None => h \in DOMAIN cache'
  BY DEF Restrict
<1>3. /\ job' \in Job /\ job' # None /\ job'.slot = job.slot /\ job'.gem = job.gem
      /\ job'.step = "planes"
  <2>1. job \in Job
    BY <1>1, IInvParts DEF ComposerOK
  <2>2. job' \in Job /\ job'.slot = job.slot /\ job'.gem = job.gem /\ job'.step = "planes"
    BY <2>1 DEF Job
  <2> QED BY <2>2, ConstantsAssumption
<1>4. JobBuffer' = JobBuffer /\ JobGem' = JobGem /\ Live' = Live
  BY <1>1, <1>3 DEF JobBuffer, JobGem, Live
<1>5. TypeOK'
  <2>1. EntriesOK(cache)'
    BY <1>2, IInvParts DEF EntriesOK, Range
  <2>2. ComposerOK' /\ ObjectsOK(fbs)' /\ HandlesOK(handles)'
    BY <1>3, IInvParts DEF ComposerOK, ObjectsOK, HandlesOK
  <2>3. (TypeOK <=> ComposerOK /\ EntriesOK(cache) /\ ObjectsOK(fbs) /\ HandlesOK(handles))'
    BY TypeParts, PTL
  <2> QED BY <2>1, <2>2, <2>3
<1>6. JobInv'
  <2>1. /\ slots[job.slot] # None /\ Len(job.gem) <= Len(Planes[JobBuffer])
        /\ Len(job.gem) >= 1 /\ job.gem[1] # None
    BY <1>1, IInvParts DEF JobInv
  <2>2. slots'[job'.slot] # None /\ job'.gem = job.gem
    BY <1>3, <2>1
  <2> QED BY <1>3, <1>4, <2>1, <2>2 DEF JobInv
<1>7. HeldInv' /\ OwnedInv' /\ OneHandle(handles)'
  BY <1>4, IInvParts DEF HeldInv, OwnedInv, OneHandle
<1>8. Found(fbs, cache)'
  BY <1>2, IInvParts DEF Found, LiveOf
<1>9. FbOfBuffer'
  BY DEF IInv, FbOfBuffer, ShowsBuffer
<1>10. ASSUME ~raced'
       PROVE  CleanInv'
  <2>1. Clean(fbs, cache, handles) /\ Apart(fbs, JobGem) /\ JobClean
    BY <1>10, IInvParts
  <2>2. ASSUME NEW f \in Live
        PROVE  /\ CleanFb(fbs, cache, handles, f) /\ fbs[f].gem[1] # key
               /\ fbs[f] \in FbType /\ fbs[f].gem[1] \in Range(fbs[f].gem)
    <3>1. CleanFb(fbs, cache, handles, f)
      BY <2>1, IInvParts DEF Clean
    <3>2. fbs[f] \in FbType
      BY IInvParts DEF ObjectsOK
    <3>3. fbs[f].gem[1] \in Range(fbs[f].gem)
      BY <3>2, FbTypeFacts DEF Range
    <3>4. f # None
      BY IInvParts, ConstantsAssumption DEF ObjectsOK
    <3> QED BY <3>1, <3>2, <3>3, <3>4 DEF CleanFb
  <2>3. Clean(fbs', cache', handles')
    <3>1. ASSUME NEW f \in Live
          PROVE  CleanFb(fbs, cache', handles, f)
      <4>1. f # None
        BY IInvParts, ConstantsAssumption DEF ObjectsOK
      <4> QED BY <1>2, <2>2, <4>1 DEF CleanFb
    <3> QED BY <3>1, IInvParts DEF Clean
  <2>4. Apart(fbs', JobGem')
    BY <1>4, <2>1
  <2>5. ASSUME NEW f \in Live
        PROVE  fbs[f].image # Planes[JobBuffer]
    <3> SUFFICES ASSUME fbs[f].image = Planes[JobBuffer]
                 PROVE  FALSE
      OBVIOUS
    <3>1. 1 \in 1 .. Len(fbs[f].gem) /\ 1 \in 1 .. Len(job.gem)
      BY <1>1, <2>2, FbTypeFacts
    <3>2. fbs[f].gem[1] \in DOMAIN handles /\ handles[fbs[f].gem[1]] = Planes[JobBuffer][1]
      BY <2>2, <3>1 DEF CleanFb
    <3>3. key \in DOMAIN handles /\ handles[key] = Planes[JobBuffer][1]
      BY <1>1, <2>1, <3>1 DEF JobClean
    <3> QED BY <2>2, <3>2, <3>3, IInvParts DEF OneHandle
  <2>6. JobClean'
    <3>1. \A i \in 1 .. Len(job.gem) :
            job.gem[i] # None =>
              job.gem[i] \in DOMAIN handles /\ handles[job.gem[i]] = Planes[JobBuffer][i]
      BY <1>1, <2>1 DEF JobClean
    <3> QED BY <1>3, <1>4, <2>5, <3>1 DEF JobClean
  <2> QED BY <2>3, <2>4, <2>6 DEF CleanInv, Clean, CleanFb, Apart, LiveOf, Owned, Closes
<1> QED BY <1>5, <1>6, <1>7, <1>8, <1>9, <1>10 DEF IInv

LEMMA LookupInv ==
  ASSUME IInv, Lookup
  PROVE  IInv'
<1>1. Importing("lookup") /\ UNCHANGED <<headless, raced>>
  BY DEF Lookup
<1>2. CASE job.gem[1] \in DOMAIN cache /\ cache[job.gem[1]] # None
  <2>1. /\ ImportFbDone(cache[job.gem[1]]) /\ UNCHANGED <<shown, prior, handles>> /\ LetGo(Main)
    BY <1>2 DEF Lookup, KeepKey
  <2> QED BY <1>1, <1>2, <2>1, LookupHitInv
<1>3. CASE ~(job.gem[1] \in DOMAIN cache /\ cache[job.gem[1]] # None)
  <2>1. /\ LET erased == Restrict(cache, DOMAIN cache \ {job.gem[1]})
               alive == {h \in DOMAIN erased : erased[h] # None}
           IN  cache' = IF Cardinality(DOMAIN erased) > CleanupSize
                        THEN Restrict(erased, alive) ELSE erased
        /\ job' = [job EXCEPT !.step = "planes"]
        /\ UNCHANGED <<slots, layer, shown, prior, fbs, handles>>
    BY <1>3 DEF Lookup
  <2> QED BY <1>1, <1>3, <2>1, LookupMissInv
<1> QED BY <1>2, <1>3

(* PrimeFDToHandle opens at most the one handle it returns, and none that  *)
(* is about to be closed unless it is raced.                               *)
LEMMA Prime ==
  ASSUME IInv, NEW dmabuf \in DmaBufs, NEW h \in Handles, PrimeFDToHandle(dmabuf, h)
  PROVE  /\ DOMAIN handles' = DOMAIN handles \cup {h} /\ handles'[h] = dmabuf
         /\ \A x \in DOMAIN handles : handles'[x] = handles[x]
         /\ HandlesOK(handles') /\ OneHandle(handles')
         /\ raced' \in BOOLEAN /\ (raced => raced')
         /\ ~raced' => \A f \in DOMAIN fbs \ Live : h \notin Owned(fbs[f])
<1>1. /\ DOMAIN handles' = DOMAIN handles \cup {h} /\ handles'[h] = dmabuf
      /\ \A x \in DOMAIN handles : x # h => handles'[x] = handles[x]
  BY DEF PrimeFDToHandle
<1>2. /\ h \in DOMAIN handles => handles[h] = dmabuf
      /\ \A x \in DOMAIN handles : handles[x] = dmabuf => h \in DOMAIN handles
  BY DEF PrimeFDToHandle, HandlesFor
<1>3. \A x \in DOMAIN handles : handles'[x] = handles[x]
  BY <1>1, <1>2
<1>4. HandlesOK(handles')
  <2>1. \A x \in DOMAIN handles : handles[x] \in DmaBufs
    BY IInvParts DEF HandlesOK, Range
  <2> QED BY <1>1, <1>3, <2>1, IInvParts DEF HandlesOK, Range
<1>5. OneHandle(handles')
  BY <1>1, <1>2, <1>3, IInvParts DEF OneHandle
<1>6. /\ raced' \in BOOLEAN /\ (raced => raced')
      /\ ~raced' => \A f \in DOMAIN fbs \ Live : h \notin Owned(fbs[f])
  BY IInvParts DEF PrimeFDToHandle, AboutToBeClosed, ComposerOK
<1> QED BY <1>1, <1>3, <1>4, <1>5, <1>6

(* The import gets the handle of its next plane, or notes that it has none.*)
LEMMA NextHandle ==
  ASSUME IInv, job # None, NEW x \in Handles \cup {None}, JobInv',
         job' \in Job, job'.slot = job.slot, job'.gem = Append(job.gem, x),
         UNCHANGED <<headless, slots, layer, shown, prior, cache, fbs>>,
         HandlesOK(handles'), OneHandle(handles'),
         DOMAIN handles \subseteq DOMAIN handles', DOMAIN handles' \subseteq DOMAIN handles \cup {x},
         \A h \in DOMAIN handles : handles'[h] = handles[h],
         raced' \in BOOLEAN, raced => raced',
         ~raced' => /\ x # None => /\ x \in DOMAIN handles'
                                   /\ handles'[x] = Planes[JobBuffer][Len(job.gem) + 1]
                    /\ \A f \in DOMAIN fbs \ Live : x \notin Owned(fbs[f])
                    /\ job'.step = "planes" => \A f \in Live : fbs[f].image # Planes[JobBuffer]
  PROVE  IInv'
<1>1. /\ job.gem \in Seq(Handles \cup {None}) /\ Len(job.gem) \in Nat
      /\ DOMAIN job.gem = 1 .. Len(job.gem) /\ JobGem = Range(job.gem)
  BY IInvParts, JobFacts
<1>2. /\ Len(job'.gem) = Len(job.gem) + 1 /\ DOMAIN job'.gem = 1 .. (Len(job.gem) + 1)
      /\ job'.gem[Len(job.gem) + 1] = x
      /\ \A i \in 1 .. Len(job.gem) : job'.gem[i] = job.gem[i]
  BY <1>1
<1>3. job' # None
  BY ConstantsAssumption
<1>4. Range(job'.gem) = Range(job.gem) \cup {x}
  <2>1. Len(job.gem) + 1 \in 1 .. (Len(job.gem) + 1)
    BY <1>1
  <2>2. \A i \in 1 .. (Len(job.gem) + 1) : i \in 1 .. Len(job.gem) \/ i = Len(job.gem) + 1
    BY <1>1
  <2>3. \A i \in 1 .. Len(job.gem) : i \in 1 .. (Len(job.gem) + 1)
    BY <1>1
  <2> QED BY <1>1, <1>2, <2>1, <2>2, <2>3 DEF Range
<1>5. JobGem' = JobGem \cup {x} /\ JobBuffer' = JobBuffer /\ Live' = Live
  BY <1>1, <1>3, <1>4 DEF JobGem, JobBuffer, Live
<1>6. TypeOK'
  <2>1. ComposerOK'
    BY IInvParts DEF ComposerOK
  <2>2. EntriesOK(cache)' /\ ObjectsOK(fbs)' /\ HandlesOK(handles)'
    BY IInvParts DEF EntriesOK, ObjectsOK, HandlesOK
  <2>3. (TypeOK <=> ComposerOK /\ EntriesOK(cache) /\ ObjectsOK(fbs) /\ HandlesOK(handles))'
    BY TypeParts, PTL
  <2> QED BY <2>1, <2>2, <2>3
<1>7. HeldInv' /\ OwnedInv' /\ OneHandle(handles)' /\ Found(fbs, cache)'
  BY <1>5, IInvParts DEF HeldInv, OwnedInv, OneHandle, Found, LiveOf
<1>8. FbOfBuffer'
  BY DEF IInv, FbOfBuffer, ShowsBuffer
<1>9. ASSUME ~raced'
      PROVE  CleanInv'
  <2>1. Clean(fbs, cache, handles) /\ Apart(fbs, JobGem) /\ JobClean
    BY <1>9, IInvParts
  <2>2. Clean(fbs', cache', handles')
    BY <2>1 DEF Clean, CleanFb
  <2>3. Apart(fbs', JobGem')
    BY <1>5, <1>9, <2>1, IInvParts DEF Apart
  <2>4. ASSUME NEW i \in 1 .. Len(job'.gem), job'.gem[i] # None
        PROVE  job'.gem[i] \in DOMAIN handles' /\ handles'[job'.gem[i]] = Planes[JobBuffer][i]
    <3>1. CASE i \in 1 .. Len(job.gem)
      BY <1>2, <2>1, <2>4, <3>1 DEF JobClean
    <3>2. CASE i = Len(job.gem) + 1
      BY <1>2, <1>9, <2>4, <3>2
    <3> QED BY <1>1, <1>2, <3>1, <3>2
  <2>5. JobClean'
    BY <1>5, <1>9, <2>4 DEF JobClean
  <2> QED BY <2>2, <2>3, <2>5 DEF CleanInv, Clean, CleanFb, Apart, LiveOf, Owned, Closes
<1> QED BY <1>6, <1>7, <1>8, <1>9 DEF IInv

LEMMA ImportFirstInv ==
  ASSUME IInv, ImportFirst
  PROVE  IInv'
<1>1. job # None /\ job.step = "first" /\ UNCHANGED headless
  BY DEF ImportFirst, Importing
<1>2. job.gem = <<>> /\ JobBuffer \in Buffers /\ slots[job.slot].buffer = JobBuffer /\ job \in Job
  BY <1>1, IInvParts, JobFacts DEF JobInv, ComposerOK
<1>3. ASSUME NEW h \in Handles, PrimeFDToHandle(Planes[JobBuffer][1], h),
             job' = [job EXCEPT !.step = "lookup", !.gem = <<h>>],
             UNCHANGED <<slots, layer, shown, prior, cache, fbs>>
      PROVE  IInv'
  <2>1. /\ job' \in Job /\ job'.slot = job.slot /\ job'.step = "lookup" /\ job'.gem = <<h>>
    <3>1. <<h>> \in Seq(Handles \cup {None})
      OBVIOUS
    <3> DEFINE gems == Seq(Handles \cup {None})
    <3>2. job \in [slot : Slots, tries : {1, 2}, step : {"first", "lookup", "planes"}, gem : gems]
          /\ <<h>> \in gems
      BY <1>2, <3>1 DEF Job
    <3> HIDE DEF gems
    <3>3. /\ job' \in [slot : Slots, tries : {1, 2}, step : {"first", "lookup", "planes"}, gem : gems]
          /\ job'.slot = job.slot /\ job'.step = "lookup" /\ job'.gem = <<h>>
      BY <1>3, <3>2
    <3> QED BY <3>3 DEF Job, gems
  <2>2. <<h>> = Append(job.gem, h) /\ Len(job.gem) = 0 /\ Len(<<h>>) = 1 /\ <<h>>[1] = h
    BY <1>2
  <2>3. Planes[JobBuffer][1] \in DmaBufs /\ Len(Planes[JobBuffer]) >= 1
        /\ Len(Planes[JobBuffer]) \in Nat
    BY <1>2, PlanesLength
  <2>4. JobInv'
    <3>1. JobBuffer' = JobBuffer /\ slots'[job'.slot] # None
      BY <1>1, <1>3, <2>1, IInvParts, JobFacts DEF JobBuffer
    <3>2. h # None
      BY ConstantsAssumption
    <3> QED BY <2>1, <2>2, <2>3, <3>1, <3>2 DEF JobInv
  <2>5. h \in DOMAIN handles' /\ handles'[h] = Planes[JobBuffer][Len(job.gem) + 1]
    <3>1. h \in DOMAIN handles' /\ handles'[h] = Planes[JobBuffer][1]
      BY <1>3, <2>3, Prime
    <3>2. Len(job.gem) + 1 = 1
      BY <2>2
    <3> QED BY <3>1, <3>2
  <2> QED BY <1>1, <1>3, <2>1, <2>2, <2>3, <2>4, <2>5, Prime, NextHandle
<1>4. CASE ImportFbDone(None) /\ UNCHANGED <<shown, prior, handles, raced>> /\ LetGo(Main)
  <2>1. JobGem = {}
    BY <1>2 DEF JobGem, Range
  <2> QED BY <1>1, <1>4, <2>1, ImportEnds
<1> QED BY <1>2, <1>3, <1>4 DEF ImportFirst

LEMMA ImportPlaneInv ==
  ASSUME IInv, ImportPlane
  PROVE  IInv'
<1> DEFINE dmabufs == Planes[JobBuffer]
           i == Len(job.gem) + 1
<1>1. /\ job # None /\ job.step = "planes" /\ job \in Job /\ JobBuffer \in Buffers
      /\ slots[job.slot].buffer = JobBuffer /\ slots[job.slot] # None
      /\ job.gem \in Seq(Handles \cup {None}) /\ Len(job.gem) \in Nat /\ Len(job.gem) >= 1
      /\ job.gem[1] # None /\ job.gem[1] \in JobGem
  <2>1. job # None /\ job.step = "planes" /\ ComposerOK /\ JobInv
    BY IInvParts DEF ImportPlane, Importing
  <2>2. Len(job.gem) >= 1 /\ job.gem[1] # None
    BY <2>1 DEF JobInv
  <2>3. job.gem[1] \in Range(job.gem)
    BY <2>1, <2>2, JobFacts DEF Range
  <2> QED BY <2>1, <2>2, <2>3, JobFacts DEF ComposerOK
<1>2. UNCHANGED <<headless, slots, layer, shown, prior, cache, fbs>> /\ i \in DOMAIN dmabufs
  BY <1>1 DEF ImportPlane
<1>3. dmabufs[i] \in DmaBufs /\ i <= Len(dmabufs) /\ Len(dmabufs) \in Nat
  BY <1>1, <1>2, PlanesLength
<1>4. ASSUME NEW x \in Handles \cup {None}, job' = [job EXCEPT !.gem = Append(@, x)]
      PROVE  /\ JobInv' /\ job' \in Job /\ job'.slot = job.slot
             /\ job'.gem = Append(job.gem, x) /\ job'.step = "planes"
  <2> DEFINE gems == Seq(Handles \cup {None})
  <2>1. Append(job.gem, x) \in gems /\ Len(Append(job.gem, x)) = Len(job.gem) + 1
        /\ Append(job.gem, x)[1] = job.gem[1]
    BY <1>1
  <2>2. job \in [slot : Slots, tries : {1, 2}, step : {"first", "lookup", "planes"}, gem : gems]
    BY <1>1 DEF Job
  <2> HIDE DEF gems
  <2>3. /\ job' \in [slot : Slots, tries : {1, 2}, step : {"first", "lookup", "planes"}, gem : gems]
        /\ job'.slot = job.slot /\ job'.gem = Append(job.gem, x) /\ job'.step = "planes"
    BY <1>1, <1>4, <2>1, <2>2
  <2>4. job' \in Job
    BY <2>3 DEF Job, gems
  <2>5. slots'[job'.slot] # None /\ JobBuffer' = JobBuffer
    BY <1>1, <1>2, <2>3 DEF JobBuffer
  <2>6. Len(job'.gem) <= Len(Planes[JobBuffer]) /\ Len(job'.gem) >= 1 /\ job'.gem[1] # None
    BY <1>1, <1>3, <2>1, <2>3
  <2>7. JobInv'
    BY <2>3, <2>5, <2>6 DEF JobInv
  <2> QED BY <2>3, <2>4, <2>7
<1>5. ~raced => /\ Apart(fbs, JobGem) /\ JobClean
                /\ \A f \in Live : fbs[f].image # Planes[JobBuffer]
  BY <1>1, IInvParts DEF JobClean
<1> HIDE DEF i, dmabufs
<1>6. CASE /\ dmabufs[i] = dmabufs[1] /\ job' = [job EXCEPT !.gem = Append(@, @[1])]
           /\ UNCHANGED <<handles, raced>>
  <2>1. job.gem[1] \in Handles \cup {None} /\ job' = [job EXCEPT !.gem = Append(@, job.gem[1])]
    BY <1>1, <1>6
  <2>2. ~raced => /\ job.gem[1] \in DOMAIN handles
                  /\ handles[job.gem[1]] = Planes[JobBuffer][Len(job.gem) + 1]
    <3>1. 1 \in 1 .. Len(job.gem)
      BY <1>1
    <3> QED BY <1>1, <1>5, <1>6, <3>1 DEF JobClean, i, dmabufs
  <2>3. ~raced => \A f \in DOMAIN fbs \ Live : job.gem[1] \notin Owned(fbs[f])
    BY <1>1, <1>5, IInvParts DEF Apart
  <2>4. HandlesOK(handles') /\ OneHandle(handles') /\ raced' \in BOOLEAN
    BY <1>6, IInvParts DEF ComposerOK
  <2> QED BY <1>1, <1>2, <1>4, <1>5, <1>6, <2>1, <2>2, <2>3, <2>4, NextHandle
<1>7. ASSUME NEW h \in Handles, PrimeFDToHandle(dmabufs[i], h),
             job' = [job EXCEPT !.gem = Append(@, h)]
      PROVE  IInv'
  <2>1. /\ DOMAIN handles' = DOMAIN handles \cup {h} /\ handles'[h] = dmabufs[i]
        /\ \A x \in DOMAIN handles : handles'[x] = handles[x]
        /\ HandlesOK(handles') /\ OneHandle(handles')
        /\ raced' \in BOOLEAN /\ (raced => raced')
        /\ ~raced' => \A f \in DOMAIN fbs \ Live : h \notin Owned(fbs[f])
    BY <1>3, <1>7, Prime
  <2>2. handles'[h] = Planes[JobBuffer][Len(job.gem) + 1]
    BY <2>1 DEF i, dmabufs
  <2> QED BY <1>1, <1>2, <1>4, <1>5, <1>7, <2>1, <2>2, NextHandle
<1>8. CASE job' = [job EXCEPT !.gem = Append(@, None)] /\ UNCHANGED <<handles, raced>>
  <2>1. \A f \in DOMAIN fbs \ Live : None \notin Owned(fbs[f])
    BY DEF Owned, Closes
  <2>2. HandlesOK(handles') /\ OneHandle(handles') /\ raced' \in BOOLEAN
    BY <1>8, IInvParts DEF ComposerOK
  <2> QED BY <1>1, <1>2, <1>4, <1>5, <1>8, <2>1, <2>2, NextHandle
<1>9. \/ /\ dmabufs[i] = dmabufs[1] /\ job' = [job EXCEPT !.gem = Append(@, @[1])]
         /\ UNCHANGED <<handles, raced>>
      \/ \E h \in Handles : /\ PrimeFDToHandle(dmabufs[i], h)
                            /\ job' = [job EXCEPT !.gem = Append(@, h)]
      \/ job' = [job EXCEPT !.gem = Append(@, None)] /\ UNCHANGED <<handles, raced>>
  BY <1>1 DEF ImportPlane, i, dmabufs
<1> QED BY <1>6, <1>7, <1>8, <1>9

(* The object of a framebuffer that is being made owns the handles of the  *)
(* import.                                                                 *)
LEMMA NewObject ==
  ASSUME IInv, Importing("planes"), NEW f \in Fbs \ DOMAIN fbs, NEW image \in Seq(DmaBufs),
         NEW by \in {None, Main}
  PROVE  LET objects == WithFb(f, Object(image, by))
         IN  /\ ObjectsOK(objects) /\ DOMAIN objects = DOMAIN fbs \cup {f}
             /\ objects[f].image = image /\ objects[f].gem = job.gem /\ objects[f].at = 1
             /\ \A g \in DOMAIN fbs : objects[g] = fbs[g]
             /\ LiveOf(objects) = IF by = None THEN Live \cup {f} ELSE Live
             /\ Owned(objects[f]) \subseteq JobGem
             /\ \A h \in DOMAIN handles : \E g \in DOMAIN objects : h \in Owned(objects[g])
<1> DEFINE objects == WithFb(f, Object(image, by))
<1>1. /\ job # None /\ job.gem \in Seq(Handles \cup {None}) /\ job.gem[1] # None
      /\ Len(job.gem) \in Nat /\ Len(job.gem) >= 1 /\ JobGem = Range(job.gem)
  <2>1. job # None /\ ComposerOK /\ JobInv /\ job.step = "planes"
    BY IInvParts DEF Importing
  <2> QED BY <2>1, JobFacts DEF JobInv
<1>2. by \in Threads \cup {None} /\ (by = None <=> by # Main) /\ f # None
  BY ConstantsAssumption DEF Threads
<1>3. /\ Object(image, by) \in FbType /\ Object(image, by).image = image
      /\ Object(image, by).gem = job.gem /\ Object(image, by).at = 1
      /\ Object(image, by).by = by
  <2>1. 1 \in 1 .. Len(job.gem)
    BY <1>1
  <2>2. Object(image, by) \in FbType
    BY <1>1, <1>2, <2>1, FbTypeIntro DEF Object
  <2> QED BY <2>2 DEF Object
<1>4. /\ DOMAIN objects = DOMAIN fbs \cup {f} /\ objects[f] = Object(image, by)
      /\ \A g \in DOMAIN fbs : objects[g] = fbs[g]
  BY DEF WithFb
<1> HIDE DEF objects
<1>5. ObjectsOK(objects)
  BY <1>3, <1>4, IInvParts DEF ObjectsOK
<1>6. LiveOf(objects) = IF by = None THEN Live \cup {f} ELSE Live
  BY <1>2, <1>3, <1>4 DEF LiveOf, Live
<1>7. Owned(objects[f]) \subseteq JobGem /\ \A h \in JobGem : h # None => h \in Owned(objects[f])
  BY <1>1, <1>3, <1>4, OwnedFull
<1>8. \A h \in DOMAIN handles : \E g \in DOMAIN objects : h \in Owned(objects[g])
  <2>1. ASSUME NEW h \in DOMAIN handles
        PROVE  \E g \in DOMAIN objects : h \in Owned(objects[g])
    <3>1. h # None
      BY IInvParts, ConstantsAssumption DEF HandlesOK
    <3>2. CASE h \in JobGem
      BY <1>4, <1>7, <3>1, <3>2
    <3>3. CASE \E g \in DOMAIN fbs : h \in Owned(fbs[g])
      BY <1>4, <3>3
    <3> QED BY <3>2, <3>3, IInvParts DEF OwnedInv
  <2> QED BY <2>1
<1> QED BY <1>3, <1>4, <1>5, <1>6, <1>7, <1>8 DEF objects

(* After a lookup that found nothing, no live framebuffer has a handle of  *)
(* the import.                                                             *)
LEMMA NoneHasTheHandles ==
  ASSUME IInv, Importing("planes"), ~raced, NEW g \in Live, NEW h \in JobGem, h # None
  PROVE  h \notin Range(fbs[g].gem)
<1>1. /\ job # None /\ Clean(fbs, cache, handles) /\ JobClean
      /\ fbs[g].image # Planes[JobBuffer]
  BY IInvParts DEF Importing, JobClean
<1>2. handles[h] \in Range(Planes[JobBuffer]) /\ JobBuffer \in Buffers
  BY <1>1, IInvParts, JobHandles, JobFacts
<1> QED BY <1>1, <1>2, IInvParts, ShowsTheBuffer

LEMMA AddFB2FailsInv ==
  ASSUME IInv, NEW f \in Fbs \ DOMAIN fbs, AddFB2Fails(f)
  PROVE  IInv'
<1> DEFINE objects == WithFb(f, Object(<<>>, Main))
<1>1. /\ Importing("planes") /\ ImportFbDone(None)
      /\ UNCHANGED <<headless, shown, prior, handles, raced>>
      /\ LetGoAmong(Main, objects, cache)
  BY DEF AddFB2Fails, DestroyFailed
<1>2. <<>> \in Seq(DmaBufs)
  OBVIOUS
<1>3. /\ ObjectsOK(objects) /\ DOMAIN objects = DOMAIN fbs \cup {f}
      /\ \A g \in DOMAIN fbs : objects[g] = fbs[g]
      /\ LiveOf(objects) = Live /\ Owned(objects[f]) \subseteq JobGem
      /\ \A h \in DOMAIN handles : \E g \in DOMAIN objects : h \in Owned(objects[g])
  <2>1. Main # None /\ Main \in {None, Main}
    BY ConstantsAssumption DEF Threads
  <2>2. /\ ObjectsOK(objects) /\ DOMAIN objects = DOMAIN fbs \cup {f}
        /\ \A g \in DOMAIN fbs : objects[g] = fbs[g]
        /\ LiveOf(objects) = IF Main = None THEN Live \cup {f} ELSE Live
        /\ Owned(objects[f]) \subseteq JobGem
        /\ \A h \in DOMAIN handles : \E g \in DOMAIN objects : h \in Owned(objects[g])
    BY <1>1, <1>2, <2>1, NewObject
  <2> QED BY <2>1, <2>2
<1> HIDE DEF objects
<1>4. job # None /\ raced' \in BOOLEAN /\ Main \in Threads
  BY <1>1, IInvParts DEF Importing, ComposerOK, Threads
<1>5. /\ ComposerOK' /\ JobInv'
      /\ job' = None \/ (job'.gem = <<>> /\ job'.step = "first")
      /\ Held(slots', layer', shown', prior') \subseteq Held(slots, layer, shown, prior) \cup {None}
      /\ ~raced => Shows(layer', fbs) /\ \A s \in Slots : Shows(slots'[s], fbs)
  BY <1>1, <1>4, IInvParts, ImportDone
<1>6. JobGem' = {} /\ JobClean'
  BY <1>5 DEF JobGem, JobClean, Range
<1>7. Found(objects, cache)
  BY <1>3, IInvParts DEF Found
<1>8. Held(slots', layer', shown', prior') \subseteq LiveOf(objects) \cup {None}
  BY <1>3, <1>5, IInvParts DEF HeldInv
<1>9. ASSUME ~raced'
      PROVE  Clean(objects, cache, handles') /\ Apart(objects, JobGem')
  <2>1. ~raced /\ Clean(fbs, cache, handles) /\ Apart(fbs, JobGem)
    BY <1>1, <1>9, IInvParts
  <2>2. ASSUME NEW g \in Live
        PROVE  CleanFb(objects, cache, handles', g)
    <3>1. CleanFb(fbs, cache, handles, g) /\ objects[g] = fbs[g]
      BY <1>3, <2>1, IInvParts DEF Clean
    <3> QED BY <1>1, <3>1 DEF CleanFb
  <2>3. ASSUME NEW g \in DOMAIN objects \ Live, NEW h \in Owned(objects[g]), NEW x \in Live
        PROVE  h \notin Range(objects[x].gem)
    <3>1. objects[x] = fbs[x]
      BY <1>3, IInvParts
    <3>2. CASE g = f
      <4>1. h \in JobGem /\ h # None
        BY <1>3, <2>3, <3>2 DEF Owned, Closes
      <4> QED BY <1>1, <2>1, <3>1, <4>1, NoneHasTheHandles
    <3>3. CASE g \in DOMAIN fbs
      BY <1>3, <2>1, <2>3, <3>1, <3>3, IInvParts DEF Apart
    <3> QED BY <1>3, <2>3, <3>2, <3>3
  <2> QED BY <1>3, <1>6, <2>2, <2>3 DEF Clean, Apart
<1>10. ASSUME ~raced'
       PROVE  Shows(layer', objects) /\ \A s \in Slots : Shows(slots'[s], objects)
  <2>1. Shows(layer', fbs) /\ \A s \in Slots : Shows(slots'[s], fbs)
    BY <1>1, <1>5, <1>10
  <2>2. ASSUME NEW x \in Held(slots', layer', shown', prior'), x # None
        PROVE  objects[x] = fbs[x]
    BY <1>3, <1>8, <2>2, IInvParts
  <2> QED BY <2>1, <2>2, HeldEntries DEF Shows
<1>11. HandlesOK(handles') /\ OneHandle(handles') /\ EntriesOK(cache)
  BY <1>1, IInvParts
<1>12. \A h \in DOMAIN handles' : h \in JobGem' \/ \E g \in DOMAIN objects : h \in Owned(objects[g])
  BY <1>1, <1>3
<1> QED BY <1>1, <1>3, <1>4, <1>5, <1>6, <1>7, <1>8, <1>9, <1>10, <1>11, <1>12, LetGoAmongStep

LEMMA AddFB2Inv ==
  ASSUME IInv, NEW f \in Fbs \ DOMAIN fbs, AddFB2(f)
  PROVE  IInv'
<1> DEFINE objects == WithFb(f, Object(Image, None))
           entries == WithKey(f)
           key == job.gem[1]
<1>1. /\ Importing("planes") /\ AllPlanes /\ ImportFbDone(f)
      /\ \A i \in DOMAIN job.gem : job.gem[i] \in DOMAIN handles
      /\ UNCHANGED <<headless, shown, prior, handles, raced>>
      /\ LetGoAmong(Main, objects, entries)
  BY DEF AddFB2
<1>2. job # None /\ job.step = "planes" /\ raced' \in BOOLEAN /\ Main \in Threads /\ f # None
  BY <1>1, IInvParts, ConstantsAssumption DEF Importing, ComposerOK, Threads
<1>3. /\ job.gem \in Seq(Handles \cup {None}) /\ Len(job.gem) \in Nat /\ Len(job.gem) >= 1
      /\ DOMAIN job.gem = 1 .. Len(job.gem) /\ 1 \in 1 .. Len(job.gem)
      /\ key \in JobGem /\ key \in Handles /\ key # None
      /\ JobBuffer \in Buffers /\ JobGem = Range(job.gem)
      /\ Len(job.gem) = Len(Planes[JobBuffer])
  <2>1. Len(job.gem) >= 1 /\ key # None
    BY <1>2, IInvParts DEF JobInv
  <2>2. /\ job.gem \in Seq(Handles \cup {None}) /\ Len(job.gem) \in Nat /\ JobBuffer \in Buffers
        /\ DOMAIN job.gem = 1 .. Len(job.gem) /\ JobGem = Range(job.gem)
        /\ slots[job.slot].buffer = JobBuffer
    BY <1>2, IInvParts, JobFacts
  <2>3. 1 \in 1 .. Len(job.gem)
    BY <2>1, <2>2
  <2>4. key \in JobGem /\ key \in Handles \cup {None}
    BY <2>2, <2>3 DEF Range
  <2>5. Len(job.gem) = Len(Planes[JobBuffer])
    BY <1>1, <2>2 DEF AllPlanes
  <2> QED BY <2>1, <2>2, <2>3, <2>4, <2>5
<1>4. Image \in Seq(DmaBufs)
  <2>1. \A i \in 1 .. Len(job.gem) : handles[job.gem[i]] \in DmaBufs
    BY <1>1, <1>3, IInvParts DEF HandlesOK, Range
  <2>2. Image = [i \in 1 .. Len(job.gem) |-> handles[job.gem[i]]]
    BY <1>3 DEF Image
  <2> QED BY <1>3, <2>1, <2>2
<1>5. /\ ObjectsOK(objects) /\ DOMAIN objects = DOMAIN fbs \cup {f}
      /\ objects[f].image = Image /\ objects[f].gem = job.gem /\ objects[f].at = 1
      /\ \A g \in DOMAIN fbs : objects[g] = fbs[g]
      /\ LiveOf(objects) = Live \cup {f}
      /\ \A h \in DOMAIN handles : \E g \in DOMAIN objects : h \in Owned(objects[g])
  BY <1>1, <1>4, NewObject
<1>6. /\ DOMAIN entries = DOMAIN cache \cup {key} /\ entries[key] = f
      /\ \A h \in DOMAIN cache : h # key => entries[h] = cache[h]
  BY DEF WithKey
<1> HIDE DEF objects, entries, key
<1>7. EntriesOK(entries)
  <2>1. \A h \in DOMAIN cache : cache[h] \in Fbs \cup {None}
    BY IInvParts DEF EntriesOK, Range
  <2>2. \A h \in DOMAIN entries : entries[h] \in Fbs \cup {None}
    BY <1>6, <2>1
  <2>3. DOMAIN entries \subseteq Handles
    BY <1>3, <1>6, IInvParts DEF EntriesOK
  <2> QED BY <2>2, <2>3 DEF EntriesOK, Range
<1>8. Found(objects, entries)
  <2>1. ASSUME NEW h \in DOMAIN entries, entries[h] # None
        PROVE  entries[h] \in LiveOf(objects) /\ objects[entries[h]].gem[1] = h
    <3>1. CASE h = key
      BY <1>5, <1>6, <3>1 DEF key
    <3>2. CASE h # key
      <4>1. h \in DOMAIN cache /\ entries[h] = cache[h]
        BY <1>6, <3>2
      <4>2. cache[h] \in Live /\ fbs[cache[h]].gem[1] = h
        BY <2>1, <4>1, IInvParts DEF Found
      <4> QED BY <1>5, <4>1, <4>2, IInvParts
    <3> QED BY <3>1, <3>2
  <2>2. \A g \in LiveOf(objects) : objects[g].at = 1
    BY <1>5, IInvParts DEF Found
  <2> QED BY <2>1, <2>2 DEF Found
<1>9. /\ ComposerOK' /\ JobInv'
      /\ job' = None \/ (job'.gem = <<>> /\ job'.step = "first")
      /\ Held(slots', layer', shown', prior') \subseteq Held(slots, layer, shown, prior) \cup {f, None}
      /\ AllShow(objects) /\ objects[f].image = Planes[JobBuffer]
           => Shows(layer', objects) /\ \A s \in Slots : Shows(slots'[s], objects)
  BY <1>1, <1>2, IInvParts, ImportDone
<1>10. JobGem' = {} /\ JobClean'
  BY <1>9 DEF JobGem, JobClean, Range
<1>11. Held(slots', layer', shown', prior') \subseteq LiveOf(objects) \cup {None}
  BY <1>5, <1>9, IInvParts DEF HeldInv
<1>12. ASSUME ~raced
       PROVE  /\ objects[f].image = Planes[JobBuffer]
              /\ \A i \in 1 .. Len(job.gem) :
                   job.gem[i] \in DOMAIN handles /\ handles[job.gem[i]] = Planes[JobBuffer][i]
  <2>1. \A i \in 1 .. Len(job.gem) :
          job.gem[i] \in DOMAIN handles /\ handles[job.gem[i]] = Planes[JobBuffer][i]
    <3>1. \A i \in 1 .. Len(job.gem) : job.gem[i] \in DOMAIN handles /\ job.gem[i] # None
      BY <1>1, <1>3, IInvParts, ConstantsAssumption DEF HandlesOK
    <3> QED BY <1>2, <1>12, <3>1, IInvParts DEF JobClean
  <2>2. Image = [i \in 1 .. Len(job.gem) |-> Planes[JobBuffer][i]]
    BY <1>3, <2>1 DEF Image
  <2>3. Planes[JobBuffer] = [i \in 1 .. Len(job.gem) |-> Planes[JobBuffer][i]]
    BY <1>3, PlanesLength
  <2> QED BY <1>5, <2>1, <2>2, <2>3
<1>13. ASSUME ~raced'
       PROVE  Clean(objects, entries, handles') /\ Apart(objects, JobGem')
  <2>1. ~raced /\ Clean(fbs, cache, handles) /\ Apart(fbs, JobGem)
    BY <1>1, <1>13, IInvParts
  <2>2. ASSUME NEW g \in Live
        PROVE  CleanFb(objects, entries, handles', g)
    <3>1. CleanFb(fbs, cache, handles, g) /\ objects[g] = fbs[g] /\ fbs[g] \in FbType
      BY <1>5, <2>1, IInvParts DEF Clean, ObjectsOK
    <3>2. fbs[g].gem[1] \in Range(fbs[g].gem)
      BY <3>1, FbTypeFacts DEF Range
    <3>3. fbs[g].gem[1] # key
      BY <1>1, <1>3, <2>1, <3>2, NoneHasTheHandles
    <3>4. fbs[g].gem[1] \in DOMAIN entries /\ entries[fbs[g].gem[1]] = g
      BY <1>6, <3>1, <3>3 DEF CleanFb
    <3> QED BY <1>1, <3>1, <3>4 DEF CleanFb
  <2>3. CleanFb(objects, entries, handles', f)
    <3>1. Len(objects[f].gem) = Len(objects[f].image)
      BY <1>3, <1>5, <1>12, <2>1
    <3>2. objects[f].gem[1] \in DOMAIN entries /\ entries[objects[f].gem[1]] = f
      BY <1>5, <1>6 DEF key
    <3> QED BY <1>1, <1>3, <1>5, <1>12, <2>1, <3>1, <3>2 DEF CleanFb
  <2>4. ASSUME NEW g \in DOMAIN objects \ LiveOf(objects), NEW h \in Owned(objects[g]),
               NEW x \in LiveOf(objects)
        PROVE  h \notin Range(objects[x].gem)
    <3>1. g \in DOMAIN fbs \ LiveOf(fbs) /\ h \in Owned(fbs[g])
      BY <1>5, <2>4, IInvParts
    <3>2. CASE x = f
      BY <1>3, <1>5, <2>1, <3>1, <3>2 DEF Apart
    <3>3. CASE x \in Live
      BY <1>5, <2>1, <3>1, <3>3, IInvParts DEF Apart
    <3> QED BY <1>5, <3>2, <3>3
  <2> QED BY <1>5, <1>10, <2>2, <2>3, <2>4 DEF Clean, Apart
<1>14. ASSUME ~raced'
       PROVE  Shows(layer', objects) /\ \A s \in Slots : Shows(slots'[s], objects)
  <2>1. AllShow(fbs) /\ objects[f].image = Planes[JobBuffer]
    BY <1>1, <1>12, <1>14, IInvParts
  <2>2. ASSUME NEW x \in Held(slots, layer, shown, prior), x # None
        PROVE  objects[x] = fbs[x]
    BY <1>5, <2>2, IInvParts DEF HeldInv
  <2>3. AllShow(objects)
    BY <2>1, <2>2, HeldEntries DEF AllShow, Shows
  <2> QED BY <1>9, <2>1, <2>3
<1>15. HandlesOK(handles') /\ OneHandle(handles')
  BY <1>1, IInvParts
<1>16. \A h \in DOMAIN handles' : h \in JobGem' \/ \E g \in DOMAIN objects : h \in Owned(objects[g])
  BY <1>1, <1>5
<1> QED BY <1>1, <1>2, <1>5, <1>7, <1>8, <1>9, <1>10, <1>11, <1>13, <1>14, <1>15, <1>16,
           LetGoAmongStep

-----------------------------------------------------------------------------
(* The theorems.                                                           *)

LEMMA InitIInv ==
  ASSUME Init
  PROVE  IInv
<1>1. DOMAIN fbs = {} /\ DOMAIN cache = {} /\ DOMAIN handles = {}
  BY DEF Init
<1>2. TypeOK
  BY <1>1 DEF Init, TypeOK, Range
<1>3. JobInv /\ HeldInv /\ FbOfBuffer
  BY DEF Init, JobInv, HeldInv, Held, FbOfBuffer, ShowsBuffer
<1>4. Found(fbs, cache) /\ OwnedInv /\ OneHandle(handles)
  BY <1>1 DEF Found, OwnedInv, OneHandle, LiveOf
<1>5. CleanInv
  <2>1. job = None
    BY DEF Init
  <2> QED BY <1>1, <2>1 DEF CleanInv, Clean, Apart, JobClean, LiveOf
<1> QED BY <1>2, <1>3, <1>4, <1>5 DEF IInv

LEMMA StepKeepsIInv ==
  ASSUME IInv, [Next]_vars
  PROVE  IInv'
<1>1. CASE UNCHANGED vars
  <2>1. UNCHANGED <<headless, slots, layer, shown, prior, job, cache, fbs, handles, raced>>
    BY <1>1 DEF vars, composer
  <2> QED BY <2>1 DEF IInv, TypeOK, JobInv, JobBuffer, JobGem, HeldInv, Live, Found, LiveOf,
                      OwnedInv, OneHandle, CleanInv, Clean, CleanFb, Apart, JobClean,
                      FbOfBuffer, ShowsBuffer, Owned, Closes
<1>2. ASSUME NEW s \in Slots, NEW b \in Buffers, NextBuffer(s, b)
      PROVE  IInv'
  BY <1>2, NextBufferInv
<1>3. ASSUME NEW s \in Slots, CachedBuffer(s)
      PROVE  IInv'
  BY <1>3, CachedBufferInv
<1>4. CASE (\E S \in SUBSET Slots : ClearSlots(S)) \/ DestroyLayer \/ Present \/ Teardown
  BY <1>4, OtherCommandsInv
<1>5. ASSUME NEW t \in Threads, CleanupPriorFrames(t)
      PROVE  IInv'
  BY <1>5, CleanupInv
<1>6. ASSUME NEW t \in Threads, CloseHandle(t)
      PROVE  IInv'
  BY <1>6, CloseHandleInv
<1>7. CASE ImportFirst
  BY <1>7, ImportFirstInv
<1>8. CASE Lookup
  BY <1>8, LookupInv
<1>9. CASE ImportPlane
  BY <1>9, ImportPlaneInv
<1>10. CASE CreateInstance
  BY <1>10, AddFB2Inv, AddFB2FailsInv DEF CreateInstance
<1> QED BY <1>1, <1>2, <1>3, <1>4, <1>5, <1>6, <1>7, <1>8, <1>9, <1>10 DEF Next

LEMMA InvariantCorrect == Spec => []IInv
  BY InitIInv, StepKeepsIInv, PTL DEF Spec

(* The types are right in every reachable state.                           *)
THEOREM TypeCorrect == Spec => []TypeOK
<1>1. IInv => TypeOK
  BY DEF IInv
<1> QED BY <1>1, InvariantCorrect, PTL

(* The framebuffer of a slot, and that of the layer, shows the buffer the  *)
(* client has put there, unless an import was given a handle of a          *)
(* framebuffer that a thread which tracks frames destroys meanwhile        *)
(* (GetOrCreateFbId, CreateInstance and ~DrmFbIdHandle).                   *)
THEOREM FbOfBufferCorrect == Spec => []FbOfBuffer
<1>1. IInv => FbOfBuffer
  BY DEF IInv
<1> QED BY <1>1, InvariantCorrect, PTL

(* Between two imports, each open handle is one that a framebuffer will    *)
(* close, or is closing (CreateInstance and ~DrmFbIdHandle); the race      *)
(* makes no difference to that.                                            *)
THEOREM NothingLeaksCorrect == Spec => []NothingLeaks
<1>1. IInv => NothingLeaks
  BY DEF IInv, NothingLeaks, OwnedInv, JobGem
<1> QED BY <1>1, InvariantCorrect, PTL
=============================================================================

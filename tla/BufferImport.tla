---------------------------- MODULE BufferImport ----------------------------
(***************************************************************************)
(* From the client's buffers to framebuffers: the buffer slots of a layer  *)
(* (GrallocBufferCache, HwcBufferCache), the importer that caches the      *)
(* framebuffers of a device by GEM handle (DrmFbCachedImporter), their     *)
(* destruction with the last reference (DrmFbIdHandle), and the table of   *)
(* GEM handles the kernel keeps for the composer.                          *)
(*                                                                         *)
(* The composer imports under its main lock.  The threads that track the   *)
(* frames take no part in that lock, and it may be one of them that drops  *)
(* the last reference to a framebuffer and closes its handles.             *)
(*                                                                         *)
(* A buffer is the sequence of the dma-bufs its planes are in.  No two     *)
(* buffers share one, but two planes of a buffer may.                      *)
(***************************************************************************)
EXTENDS Naturals, Sequences, FiniteSets, Functions

CONSTANTS
  Buffers,      \* the client's buffers
  Planes,       \* of each, the dma-buf of each plane
  Slots,        \* buffer slots of the layer
  Handles,      \* GEM handles the kernel has to give
  Fbs,          \* names of framebuffer objects (DrmFbIdHandle)
  Trackers,     \* threads that track the frames of a display
  None,         \* nothing; as a handle, 0
  CleanupSize   \* minimal_cleanup_size

Main == "main"
Threads == Trackers \cup {Main}
DmaBufs == UNION {Range(Planes[b]) : b \in Buffers}

Entry == [buffer : Buffers, fb : Fbs \cup {None}]
Job == [slot : Slots, tries : {1, 2}, step : {"first", "lookup", "planes"},
        gem : Seq(Handles \cup {None})]

ASSUME ConstantsAssumption ==
  /\ Planes \in [Buffers -> Seq(DmaBufs) \ {<<>>}]
  /\ \A b, c \in Buffers : b # c => Range(Planes[b]) \cap Range(Planes[c]) = {}
  /\ None \notin Handles /\ None \notin Fbs /\ None \notin Threads
  /\ None \notin Entry /\ None \notin Job
  /\ Main \notin Trackers
  /\ CleanupSize \in Nat

VARIABLES
  headless,  \* the display has no pipeline
  slots,     \* slots_: of each slot None, or its buffer and framebuffer
  layer,     \* the same of the layer (layer_data_)
  shown,     \* the framebuffer of the newest frame
  prior,     \* those of older frames not cleaned up yet
  job,       \* the import under way: None, or
             \*   slot, tries, the imports left; step, where it is;
             \*   gem, the handles it has got
  cache,     \* drm_fb_id_handle_cache_: handle -> framebuffer, None when it is gone
  fbs,       \* framebuffer objects:
             \*   image, the dma-bufs the kernel shows, <<>> if it has none;
             \*   gem, gem_handles_;
             \*   by, the thread that destroys it; at, how far that is
  \* the kernel
  handles,   \* open handle -> dma-buf
  \* history
  raced      \* a thread that tracks frames destroyed a framebuffer while an import
             \*   was given one of its handles

composer == <<headless, slots, layer, shown, prior, job>>
vars == <<composer, cache, fbs, handles, raced>>

Init ==
  /\ headless \in BOOLEAN
  /\ slots = [s \in Slots |-> None] /\ layer = None
  /\ shown = None /\ prior = {}
  /\ job = None
  /\ cache = <<>> /\ fbs = <<>> /\ handles = <<>>
  /\ raced = FALSE

(* Operators whose comment begins "Wrong on purpose" are no part of the    *)
(* specification: each is a slip the code could have had in the operator   *)
(* after it, kept to show which property notices.                          *)

-----------------------------------------------------------------------------
(* References and their end.                                               *)

Live == {f \in DOMAIN fbs : fbs[f].by = None}

Dying(t) == {f \in DOMAIN fbs : fbs[f].by = t}

\* What the shared pointers of the composer refer to, with these values.
Held(sl, la, sh, pr) ==
  {sl[s].fb : s \in {x \in Slots : sl[x] # None}}
    \cup (IF la # None THEN {la.fb} ELSE {}) \cup {sh} \cup pr

\* ~DrmFbIdHandle closes the handles in turn: one that planes share with the
\* first plane once, and none for a plane whose import failed.
Closes(fb, i) == fb.gem[i] # None /\ (i # 1 => fb.gem[i] # fb.gem[1])

\* The handles a framebuffer has, or still has to close.
Owned(fb) == {fb.gem[i] : i \in {j \in fb.at .. Len(fb.gem) : Closes(fb, j)}}

\* Thread t has let go of references, among these objects and entries of the
\* cache: a framebuffer nobody holds now is gone for whoever looks it up, and
\* t destroys it.
LetGoAmong(t, objects, entries) ==
  LET gone == {f \in DOMAIN objects : objects[f].by = None}
                \ Held(slots', layer', shown', prior')
  IN  /\ fbs' = [f \in DOMAIN objects |->
                   IF f \in gone THEN [objects[f] EXCEPT !.by = t] ELSE objects[f]]
      /\ cache' = [h \in DOMAIN entries |->
                     IF entries[h] \in gone THEN None ELSE entries[h]]

LetGo(t) == LetGoAmong(t, fbs, cache)

\* The next handle: GEM_CLOSE, which fails for one that is not open.
CloseHandle(t) ==
  /\ \E f \in Dying(t) :
       LET fb == fbs[f]
       IN  /\ IF Closes(fb, fb.at)
              THEN handles' = Restrict(handles, DOMAIN handles \ {fb.gem[fb.at]})
              ELSE UNCHANGED handles
           /\ fbs' = IF fb.at = Len(fb.gem) THEN Restrict(fbs, DOMAIN fbs \ {f})
                     ELSE [fbs EXCEPT ![f].at = @ + 1]
  /\ UNCHANGED <<composer, cache, raced>>

\* The import under way has been given one of its handles.
ImportHas(fb) == job # None /\ Range(job.gem) \cap Owned(fb) # {}

\* The composer goes on when it has destroyed what it let go of.
MainIsFree == Dying(Main) = {}
Idle == job = None /\ MainIsFree

-----------------------------------------------------------------------------
(* Commands of the client.                                                 *)

Import(s, tries) == [slot |-> s, tries |-> tries, step |-> "first", gem |-> <<>>]

\* HandleNextBuffer with a buffer: SetSlot and GetFb both try to import it.
NextBuffer(s, b) ==
  /\ Idle
  /\ slots' = [slots EXCEPT ![s] = [buffer |-> b, fb |-> None]]
  /\ job' = Import(s, 2)
  /\ UNCHANGED <<headless, layer, shown, prior, handles, raced>>
  /\ LetGo(Main)

\* Without one: GetFb tries again what could not be imported.
CachedBuffer(s) ==
  /\ Idle /\ slots[s] # None
  /\ \/ /\ slots[s].fb = None
        /\ job' = Import(s, 1)
        /\ UNCHANGED layer
     \/ /\ slots[s].fb # None
        /\ layer' = slots[s]
        /\ UNCHANGED job
  /\ UNCHANGED <<headless, slots, shown, prior, handles, raced>>
  /\ LetGo(Main)

\* bufferSlotsToClear, and ClearSlots for a client target of another size.
ClearSlots(S) ==
  /\ Idle
  /\ slots' = [s \in Slots |-> IF s \in S THEN None ELSE slots[s]]
  /\ UNCHANGED <<headless, layer, shown, prior, job, handles, raced>>
  /\ LetGo(Main)

DestroyLayer ==
  /\ Idle
  /\ slots' = [s \in Slots |-> None] /\ layer' = None
  /\ UNCHANGED <<headless, shown, prior, job, handles, raced>>
  /\ LetGo(Main)

\* A commit: the frame refers to the framebuffer.
Present ==
  /\ Idle /\ ~headless /\ layer # None /\ layer.fb # None
  /\ prior' = (prior \cup {shown}) \ {None} /\ shown' = layer.fb
  /\ UNCHANGED <<headless, slots, layer, job, handles, raced>>
  /\ LetGo(Main)

\* CleanupPriorFrameResources, by the thread that tracks the frames or by the
\* composer when it waits for the last one.
CleanupPriorFrames(t) ==
  /\ IF t = Main THEN Idle ELSE Dying(t) = {}
  /\ prior # {} /\ prior' = {}
  /\ UNCHANGED <<headless, slots, layer, shown, job, handles>>
  /\ LetGo(t)
  /\ raced' = (raced \/ \E f \in Live : fbs'[f].by = t /\ ImportHas(fbs[f]))

\* A teardown has no framebuffers; it is what the pipeline goes with.
Teardown ==
  /\ Idle
  /\ shown' = None /\ prior' = {}
  /\ headless' \in BOOLEAN
  /\ UNCHANGED <<slots, layer, job, handles, raced>>
  /\ LetGo(Main)

-----------------------------------------------------------------------------
(* GetOrCreateFbId and CreateInstance.                                     *)

\* PrimeFDToHandle: the handle that is open for the dma-buf, or a new one.
HandlesFor(dmabuf) ==
  LET open == {h \in DOMAIN handles : handles[h] = dmabuf}
  IN  IF open # {} THEN open ELSE Handles \ DOMAIN handles

AboutToBeClosed(h) == \E f \in DOMAIN fbs \ Live : h \in Owned(fbs[f])

PrimeFDToHandle(dmabuf, h) ==
  /\ h \in HandlesFor(dmabuf)
  /\ handles' = [x \in DOMAIN handles \cup {h} |-> IF x = h THEN dmabuf ELSE handles[x]]
  /\ raced' = (raced \/ AboutToBeClosed(h))

\* ImportFb ends with framebuffer f, or None: it may be tried again, and what
\* the slot has then is what the layer gets (SetLayerProperties).
ImportFbDone(f) ==
  LET entry == [slots[job.slot] EXCEPT !.fb = f]
  IN  /\ slots' = [slots EXCEPT ![job.slot] = entry]
      /\ IF f = None /\ job.tries > 1
         THEN job' = Import(job.slot, job.tries - 1) /\ UNCHANGED layer
         ELSE job' = None /\ layer' = entry

Importing(step) == job # None /\ MainIsFree /\ job.step = step

\* The first handle, the key of the cache.  Nothing is imported for a display
\* without a pipeline.
ImportFirst ==
  /\ Importing("first")
  /\ LET buffer == slots[job.slot].buffer
     IN \/ /\ ~headless
           /\ \E h \in Handles :
                /\ PrimeFDToHandle(Planes[buffer][1], h)
                /\ job' = [job EXCEPT !.step = "lookup", !.gem = <<h>>]
           /\ UNCHANGED <<slots, layer, shown, prior, cache, fbs>>
        \/ /\ ImportFbDone(None)
           /\ UNCHANGED <<shown, prior, handles, raced>>
           /\ LetGo(Main)
  /\ UNCHANGED headless

\* Wrong on purpose: the handle of the lookup is closed when it was found.
CloseKey(h) == handles' = Restrict(handles, DOMAIN handles \ {h})

\* A framebuffer that was found owns the handle already.
KeepKey(h) == UNCHANGED handles

Lookup ==
  /\ Importing("lookup")
  /\ LET key == job.gem[1]
         hit == key \in DOMAIN cache /\ cache[key] # None
         erased == Restrict(cache, DOMAIN cache \ {key})
         alive == {h \in DOMAIN erased : erased[h] # None}
     IN \/ /\ hit
           /\ ImportFbDone(cache[key])
           /\ UNCHANGED <<shown, prior>>
           /\ KeepKey(key)
           /\ LetGo(Main)
        \/ /\ ~hit
           /\ cache' = (IF Cardinality(DOMAIN erased) > CleanupSize
                        THEN Restrict(erased, alive) ELSE erased)
           /\ job' = [job EXCEPT !.step = "planes"]
           /\ UNCHANGED <<slots, layer, shown, prior, fbs, handles>>
  /\ UNCHANGED <<headless, raced>>

\* The handle of one more plane, or none.
ImportPlane ==
  /\ Importing("planes")
  /\ LET dmabufs == Planes[slots[job.slot].buffer]
         i == Len(job.gem) + 1
     IN  /\ i \in DOMAIN dmabufs
         /\ \/ /\ dmabufs[i] = dmabufs[1]
               /\ job' = [job EXCEPT !.gem = Append(@, @[1])]
               /\ UNCHANGED <<handles, raced>>
            \/ /\ dmabufs[i] # dmabufs[1]
               /\ \E h \in Handles :
                    /\ PrimeFDToHandle(dmabufs[i], h)
                    /\ job' = [job EXCEPT !.gem = Append(@, h)]
            \/ /\ dmabufs[i] # dmabufs[1]
               /\ job' = [job EXCEPT !.gem = Append(@, None)]
               /\ UNCHANGED <<handles, raced>>
  /\ UNCHANGED <<headless, slots, layer, shown, prior, cache, fbs>>

AllPlanes == Len(job.gem) = Len(Planes[slots[job.slot].buffer])

\* AddFB2 takes what the handles stand for now.
Image == [i \in DOMAIN job.gem |-> handles[job.gem[i]]]

\* A new object.
Object(image, by) == [image |-> image, gem |-> job.gem, at |-> 1, by |-> by]

WithFb(f, fb) == [g \in DOMAIN fbs \cup {f} |-> IF g = f THEN fb ELSE fbs[g]]

WithKey(f) ==
  [h \in DOMAIN cache \cup {job.gem[1]} |-> IF h = job.gem[1] THEN f ELSE cache[h]]

AddFB2(f) ==
  /\ Importing("planes") /\ AllPlanes
  /\ \A i \in DOMAIN job.gem : job.gem[i] \in DOMAIN handles
  /\ ImportFbDone(f)
  /\ UNCHANGED <<headless, shown, prior, handles, raced>>
  /\ LetGoAmong(Main, WithFb(f, Object(Image, None)), WithKey(f))

\* Wrong on purpose: the handles are forgotten with the framebuffer.
DropFailed(f) == fbs

\* What was created is destroyed again, with the handles it has got.
DestroyFailed(f) == WithFb(f, Object(<<>>, Main))

\* AddFB2 fails, or the modifiers of the buffer are not supported.
AddFB2Fails(f) ==
  /\ Importing("planes") /\ AllPlanes
  /\ ImportFbDone(None)
  /\ UNCHANGED <<headless, shown, prior, handles, raced>>
  /\ LetGoAmong(Main, DestroyFailed(f), cache)

CreateInstance ==
  \E f \in Fbs \ DOMAIN fbs : AddFB2(f) \/ AddFB2Fails(f)

-----------------------------------------------------------------------------
Next ==
  \/ \E s \in Slots, b \in Buffers : NextBuffer(s, b)
  \/ \E s \in Slots : CachedBuffer(s)
  \/ \E S \in SUBSET Slots : ClearSlots(S)
  \/ DestroyLayer \/ Present \/ Teardown
  \/ \E t \in Threads : CleanupPriorFrames(t) \/ CloseHandle(t)
  \/ ImportFirst \/ Lookup \/ ImportPlane \/ CreateInstance

Spec == Init /\ [][Next]_vars

-----------------------------------------------------------------------------
(* Properties.                                                             *)

FbType == {fb \in [image : Seq(DmaBufs), gem : Seq(Handles \cup {None}), at : Nat,
                   by : Threads \cup {None}] :
             fb.at \in 1 .. Len(fb.gem) /\ fb.gem[1] # None}

\* Types.
TypeOK ==
  /\ headless \in BOOLEAN /\ raced \in BOOLEAN
  /\ slots \in [Slots -> Entry \cup {None}] /\ layer \in Entry \cup {None}
  /\ shown \in Fbs \cup {None} /\ prior \subseteq Fbs
  /\ job \in Job \cup {None}
  /\ DOMAIN cache \subseteq Handles /\ Range(cache) \subseteq Fbs \cup {None}
  /\ DOMAIN fbs \subseteq Fbs /\ \A f \in DOMAIN fbs : fbs[f] \in FbType
  /\ DOMAIN handles \subseteq Handles /\ Range(handles) \subseteq DmaBufs

\* The framebuffer of a slot, and that of the layer, shows the buffer the
\* client has put there, however buffers are replaced, forgotten and imported
\* again: "First handle serves as a cache key" (DrmFbImporter.cpp:152).
\* Excepted is what follows once an import was given a handle of a framebuffer
\* that a thread which tracks frames destroys meanwhile.
ShowsBuffer(entry) ==
  entry # None /\ entry.fb # None => fbs[entry.fb].image = Planes[entry.buffer]

FbOfBuffer == ~raced => ShowsBuffer(layer) /\ \A s \in Slots : ShowsBuffer(slots[s])

\* Between two imports, each open handle is one that a framebuffer will close,
\* or is closing: no import that fails, at whichever plane, and no lookup that
\* succeeds leaves one behind (CreateInstance and ~DrmFbIdHandle).
NothingLeaks ==
  job = None => DOMAIN handles \subseteq UNION {Owned(fbs[f]) : f \in DOMAIN fbs}
=============================================================================

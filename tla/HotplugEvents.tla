---------------------------- MODULE HotplugEvents ---------------------------
(***************************************************************************)
(* The way a hotplug takes to the client: a thread of the ResourceManager  *)
(* binds and unbinds displays under the main lock, which queues events in  *)
(* DrmHwc; it releases the lock, swaps the queue out under the queue's own *)
(* lock and calls the client with no lock at all.  Several threads do so:  *)
(* uevents, EDID recovery, the deferred settle, and the binder thread that *)
(* registers the client's callback.                                        *)
(*                                                                         *)
(* The handle of an external display is never used again once the display  *)
(* is gone; the primary display is always there, headless if need be.      *)
(***************************************************************************)
EXTENDS Naturals, Sequences

CONSTANTS
  External,   \* handles of external displays
  Primary,    \* kPrimaryDisplay
  Threads,    \* threads of the ResourceManager that handle hotplugs
  Client,     \* the binder thread in registerCallback
  NoThread,   \* holds no lock
  MaxEvents   \* bound: events scheduled

ASSUME ConstantsAssumption ==
  /\ Primary \notin External
  /\ Client \notin Threads /\ NoThread \notin Threads \cup {Client}
  /\ MaxEvents \in Nat

Handles == External \cup {Primary}
Flushers == Threads \cup {Client}

Errors == {"LinkTrainingFailed", "IncompatibleCable"}
Statuses == {"Connected", "Disconnected"} \cup Errors
Event == [handle : Handles, status : Statuses]

VARIABLES
  display,    \* per handle: "none", "bound" to a pipeline, "gone"
  queue,      \* hotplug_event_queue_.events_
  lock,       \* the thread that holds the main lock
  callback,   \* composer_callback_ is set
  pc,         \* per flusher: the step it is at
  batch,      \* per flusher: events it has still to send, in that order
  connected,  \* connected_displays_ of DrmHwcThree
  told,       \* what the client was told last of each display
  scheduled,  \* events scheduled so far
  crossed     \* handles of which two flushers held events at once

vars == <<display, queue, lock, callback, pc, batch, connected, told, scheduled, crossed>>

Init ==
  /\ display = [h \in Handles |-> "none"]
  /\ queue = <<>> /\ lock = NoThread /\ callback = FALSE
  /\ pc = [t \in Flushers |-> "idle"]
  /\ batch = [t \in Flushers |-> <<>>]
  /\ connected = {} /\ told = [h \in Handles |-> "none"]
  /\ scheduled = 0 /\ crossed = {}

(* Operators whose comment begins "Wrong on purpose" are no part of the    *)
(* specification: each is a slip the code could have had in the operator   *)
(* after it, kept to show which property notices.                          *)

(* The events of a set, in their order.                                    *)
Among(events, S) ==
  LET kept[n \in Nat] ==
        IF n = 0 THEN <<>>
        ELSE IF events[n] \in S THEN Append(kept[n - 1], events[n]) ELSE kept[n - 1]
  IN  kept[Len(events)]

(* Wrong on purpose: a disconnect forgets nothing.                         *)
NothingObsolete(h) == {}

(* Wrong on purpose: it forgets the connects only.                         *)
ConnectsObsolete(h) == [handle : {h}, status : {"Connected"}]

(* Events that a disconnect makes pointless.                               *)
Obsolete(h) == [handle : {h}, status : {"Connected", "LinkTrainingFailed"}]

Of(events, h) == Among(events, [handle : {h}, status : Statuses])

LastIs(events, h, status) ==
  LET own == Of(events, h) IN own # <<>> /\ own[Len(own)].status = status

(* HotplugEventQueue::Add.                                                 *)
Add(h, status) ==
  LET kept == IF status = "Disconnected" THEN Among(queue, Event \ Obsolete(h)) ELSE queue
  IN IF LastIs(kept, h, status)
       THEN kept ELSE Append(kept, [handle |-> h, status |-> status])

Disconnects == [handle : Handles, status : {"Disconnected"}]

(* The order in which FlushHotplugEvents sends a batch: two passes.        *)
TwoPasses(events) == Among(events, Disconnects) \o Among(events, Event \ Disconnects)

-----------------------------------------------------------------------------
(* Handling a hotplug under the main lock.                                 *)

Lock(t) ==
  /\ t \in Threads /\ pc[t] = "idle" /\ lock = NoThread /\ scheduled < MaxEvents
  /\ lock' = t /\ pc' = [pc EXCEPT ![t] = "locked"]
  /\ UNCHANGED <<display, queue, callback, batch, connected, told, scheduled, crossed>>

Schedule(t, h, status) ==
  /\ lock = t /\ pc[t] = "locked" /\ scheduled < MaxEvents
  /\ queue' = Add(h, status) /\ scheduled' = scheduled + 1
  /\ UNCHANGED <<lock, callback, pc, batch, connected, told, crossed>>

(* BindDisplay and SetPipeline: the primary handle, or a new one.          *)
BindDisplay(t) ==
  \E h \in Handles :
    /\ display[h] = "none"
    /\ display' = [display EXCEPT ![h] = "bound"]
    /\ Schedule(t, h, "Connected")

(* UnbindDisplay: the primary display stays connected, in headless mode.   *)
UnbindDisplay(t) ==
  \E h \in Handles :
    /\ display[h] = "bound"
    /\ IF h = Primary
         THEN UNCHANGED display /\ Schedule(t, h, "Connected")
         ELSE display' = [display EXCEPT ![h] = "gone"] /\ Schedule(t, h, "Disconnected")

(* ReplaceDisplay, or a pipeline for the headless primary (if SetPipeline  *)
(* fails, the primary is headless again, and connected as well).           *)
ReplaceDisplay(t) ==
  \E h \in Handles :
    /\ display[h] = "bound" /\ UNCHANGED display /\ Schedule(t, h, "Connected")

(* NotifyDisplayLinkStatus.                                                *)
NotifyDisplayLinkStatus(t) ==
  \E h \in Handles, status \in Errors :
    /\ display[h] = "bound" /\ UNCHANGED display /\ Schedule(t, h, status)

(* NotifyIncompatibleCable, of a display that is not even bound.           *)
NotifyIncompatibleCable(t) == UNCHANGED display /\ Schedule(t, Primary, "IncompatibleCable")

Unlock(t) ==
  /\ lock = t
  /\ lock' = NoThread /\ pc' = [pc EXCEPT ![t] = "flush"]
  /\ UNCHANGED <<display, queue, callback, batch, connected, told, scheduled, crossed>>

(* registerCallback: SetCallback, then a flush of its own.                 *)
RegisterCallback ==
  /\ pc[Client] = "idle" /\ ~callback /\ lock = NoThread
  /\ callback' = TRUE /\ connected' = {}
  /\ pc' = [pc EXCEPT ![Client] = "flush"]
  /\ UNCHANGED <<display, queue, lock, batch, told, scheduled, crossed>>

-----------------------------------------------------------------------------
(* FlushHotplugEvents and SendHotplugEventToClient.                        *)

(* Wrong on purpose: the queue is emptied whether or not somebody listens. *)
AlwaysEmptied == <<>>

(* Without a client the events wait in the queue.                          *)
QueueAfterFlush == IF callback THEN <<>> ELSE queue

Flush(t) ==
  /\ pc[t] = "flush"
  /\ queue' = QueueAfterFlush
  /\ batch' = [batch EXCEPT ![t] = IF callback THEN TwoPasses(queue) ELSE <<>>]
  /\ pc' = [pc EXCEPT ![t] = IF callback THEN "send" ELSE "idle"]
  /\ crossed' = IF callback
       THEN crossed \cup {h \in Handles : /\ Of(queue, h) # <<>>
                                          /\ \E u \in Flushers : Of(batch[u], h) # <<>>}
       ELSE crossed
  /\ UNCHANGED <<display, lock, callback, connected, told, scheduled>>

Sent(t) ==
  /\ batch' = [batch EXCEPT ![t] = Tail(@)]
  /\ pc' = [pc EXCEPT ![t] = "send"]

(* A disconnected display gets no refresh from before the client knows, a  *)
(* connected one from after it knows.                                      *)
SendBegin(t) ==
  /\ pc[t] = "send" /\ batch[t] # <<>>
  /\ LET e == Head(batch[t])
     IN IF e.status = "Disconnected"
          THEN connected' = connected \ {e.handle} /\ UNCHANGED told
          ELSE /\ told' = IF e.status = "Connected"
                            THEN [told EXCEPT ![e.handle] = "Connected"] ELSE told
               /\ UNCHANGED connected
  /\ pc' = [pc EXCEPT ![t] = "sending"]
  /\ UNCHANGED <<display, queue, lock, callback, batch, scheduled, crossed>>

SendEnd(t) ==
  /\ pc[t] = "sending"
  /\ LET e == Head(batch[t])
     IN IF e.status = "Disconnected"
          THEN told' = [told EXCEPT ![e.handle] = "Disconnected"] /\ UNCHANGED connected
          ELSE /\ connected' = IF e.status = "Connected"
                                 THEN connected \cup {e.handle} ELSE connected
               /\ UNCHANGED told
  /\ Sent(t)
  /\ UNCHANGED <<display, queue, lock, callback, scheduled, crossed>>

FlushDone(t) ==
  /\ pc[t] = "send" /\ batch[t] = <<>>
  /\ pc' = [pc EXCEPT ![t] = "idle"]
  /\ UNCHANGED <<display, queue, lock, callback, batch, connected, told, scheduled, crossed>>

Goes(t) == Unlock(t) \/ Flush(t) \/ SendBegin(t) \/ SendEnd(t) \/ FlushDone(t)

Next ==
  \/ RegisterCallback
  \/ \E t \in Threads :
       \/ Lock(t) \/ BindDisplay(t) \/ UnbindDisplay(t) \/ ReplaceDisplay(t)
       \/ NotifyDisplayLinkStatus(t) \/ NotifyIncompatibleCable(t)
  \/ \E t \in Flushers : Goes(t)

(* A thread that handles a hotplug goes on until it has flushed; no        *)
(* hotplug has to happen and no client has to come.                        *)
Fairness == \A t \in Flushers : WF_vars(Goes(t))

Spec == Init /\ [][Next]_vars /\ Fairness

-----------------------------------------------------------------------------
(* Properties.                                                             *)

TypeOK ==
  /\ display \in [Handles -> {"none", "bound", "gone"}]
  /\ queue \in Seq(Event)
  /\ lock \in Threads \cup {NoThread}
  /\ callback \in BOOLEAN
  /\ pc \in [Flushers -> {"idle", "locked", "flush", "send", "sending"}]
  /\ batch \in [Flushers -> Seq(Event)]
  /\ connected \subseteq Handles
  /\ told \in [Handles -> {"none", "Connected", "Disconnected"}]
  /\ scheduled \in 0 .. MaxEvents
  /\ crossed \subseteq Handles

Quiet == callback /\ queue = <<>> /\ \A t \in Flushers : pc[t] = "idle"

Expected(h) ==
  CASE display[h] = "none" -> "none"
    [] display[h] = "bound" -> "Connected"
    [] display[h] = "gone" -> "Disconnected"

(* Once the hotplugs are handled, the client's view of every display and   *)
(* the set of displays it may be asked to refresh agree with the displays  *)
(* there are, however the events were queued, merged and reordered.  Only  *)
(* two threads sending events of one display at the same time can spoil it. *)
ClientKnows ==
  Quiet => \A h \in Handles \ crossed :
             /\ told[h] = Expected(h)
             /\ h \in connected <=> told[h] = "Connected"

(* A link error never reaches the client for a display it does not know,   *)
(* or that it was told is gone.                                            *)
ErrorsOfConnected ==
  \A t \in Flushers :
    pc[t] = "send" /\ batch[t] # <<>> /\ Head(batch[t]).status = "LinkTrainingFailed"
      => LET h == Head(batch[t]).handle IN told[h] = "Connected" \/ h \in crossed

(* Every change is told to a client that listens, also one that registers  *)
(* after it, while other threads flush.                                    *)
ClientLearns ==
  \A h \in Handles :
    callback /\ display[h] # "none"
      ~> (told[h] = Expected(h) \/ h \in crossed)

(* DrmHwc.cpp, HotplugEventQueue::Add: the dispatch does not "leave a      *)
(* disconnected display active in SurfaceFlinger".                         *)
NoGhostDisplay ==
  Quiet => \A h \in Handles : display[h] = "gone" => told[h] # "Connected"
=============================================================================

----------------------------- MODULE DisplayLife ----------------------------
(***************************************************************************)
(* What a display handle goes through, as the client sees it: it becomes   *)
(* connected, and is spent once it is disconnected; a spent handle never   *)
(* stands for another display.  The primary handle is never spent: without *)
(* a monitor its display goes on, headless.                                *)
(*                                                                         *)
(* DisplayBinding, which gives the handles out, implements this module.    *)
(***************************************************************************)
CONSTANTS
  Handles,  \* display handles
  Primary   \* kPrimaryDisplay

VARIABLE life  \* per handle: "unused", "connected", "spent"

Init == life = [h \in Handles |-> "unused"]

(* A display gets the handle, or its display is announced once more.       *)
Connect(h) == life[h] # "spent" /\ life'[h] = "connected"

Disconnect(h) == h # Primary /\ life[h] = "connected" /\ life'[h] = "spent"

(* The binding that took the handle failed.                                *)
Waste(h) == h # Primary /\ life[h] = "unused" /\ life'[h] = "spent"

(* One step may move two: a display that moves to the primary handle       *)
(* leaves the one it had.                                                  *)
Next ==
  /\ \A h \in Handles : Connect(h) \/ Disconnect(h) \/ Waste(h) \/ life'[h] = life[h]
  /\ life' \in [Handles -> {"unused", "connected", "spent"}]

Spec == Init /\ [][Next]_life
=============================================================================

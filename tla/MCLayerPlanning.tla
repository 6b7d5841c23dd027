-------------------------- MODULE MCLayerPlanning ---------------------------
(***************************************************************************)
(* An internal display that is given many stacks of layers, and an         *)
(* external one that competes with it for two overlay planes.              *)
(***************************************************************************)
EXTENDS LayerPlanning

CONSTANTS internal, external

MCPlanes == <<[kind |-> "overlay", crtcs |-> {internal, external}],
              [kind |-> "cursor", crtcs |-> {internal}],
              [kind |-> "overlay", crtcs |-> {internal, external}]>>

Anywhere == {"primary", "overlay", "cursor"}

App == [sf |-> "Device", usable |-> TRUE, on |-> Anywhere, hidden |-> FALSE,
        video |-> FALSE, busy |-> FALSE, limits |-> "none", pixels |-> 2]

Movie == [App EXCEPT !.video = TRUE, !.on = {"primary", "overlay"},
                     !.limits = "shrunk", !.pixels = 4]
Overlaid == [Movie EXCEPT !.on = {"overlay"}, !.pixels = 3]
Game == [App EXCEPT !.busy = TRUE, !.pixels = 4]
Hidden == [App EXCEPT !.hidden = TRUE]
Rotated == [App EXCEPT !.limits = "beyond"]
Drawn == [App EXCEPT !.sf = "Client", !.pixels = 1]
NoBuffer == [App EXCEPT !.usable = FALSE]
Cursor == [App EXCEPT !.sf = "Cursor", !.pixels = 1, !.limits = "scaled"]
OddCursor == [Cursor EXCEPT !.on = {"primary", "overlay"}]

MCStacks ==
  (internal :> {<<Movie, Movie, Cursor>>, <<Game, Hidden, App>>, <<Drawn, App, Overlaid>>,
                <<App, Drawn, App, Cursor>>, <<Rotated, App, NoBuffer, OddCursor>>})
  @@ (external :> {<<Overlaid, App>>})

MCSymmetry == Permutations(Buffers)
=============================================================================

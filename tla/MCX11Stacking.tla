----------------------------- MODULE MCX11Stacking -----------------------------
(* Instances of X11Stacking for TLC. *)
EXTENDS X11Stacking, TLC

CONSTANTS c1, c2, c3, g, o1, o2

Plain ==
  [transientFor |-> NoTransient, group |-> g, role |-> "Normal",
   layer |-> "Normal", covering |-> "No", output |-> o1]
Child == [Plain EXCEPT !.transientFor = c1]
Caught == [Plain EXCEPT !.transientFor = c2]
Helper == [Plain EXCEPT !.transientFor = GroupTransient]
OnTopLayer == [Plain EXCEPT !.layer = "Above"]
Panel == [Plain EXCEPT !.role = "Dock"]
Fullscreen == [Plain EXCEPT !.covering = "Fullscreen"]
FullscreenElsewhere == [Fullscreen EXCEPT !.output = o2]
Covering == [Plain EXCEPT !.covering = "Coverage"]
Elsewhere == [Plain EXCEPT !.output = o2]

\* One client that may cover the output, one that may be its dialog, its parent or
\* both, or leave the output, one that may be a dialog or a helper of the whole group.
LayerShapes ==
  c1 :> {Plain, Caught, OnTopLayer, Fullscreen, FullscreenElsewhere, Covering}
  @@ c2 :> {Plain, Child, Covering, Elsewhere, Panel}
  @@ c3 :> {Plain, Child, Helper, Fullscreen, Elsewhere}
===============================================================================

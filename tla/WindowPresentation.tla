-------------------------- MODULE WindowPresentation --------------------------
(***************************************************************************)
(* How nobox_core presents one client: its geometry, the axes on which it  *)
(* is maximized, fullscreen, shading and decorations, with the geometries  *)
(* remembered to undo them.  The operators are the ClientSet methods that  *)
(* change this data; a client is a value of PresentationOf(G) below, and a *)
(* geometry a span per axis.  Spans have no structure here.                *)
(***************************************************************************)
EXTENDS Naturals

CONSTANT NoGeometry  \* an Option<Geometry> that is None

Axes == {"horizontal", "vertical"}
Roles == {"Normal", "Toolbar", "Splash"}
Preferences == {"Default", "Decorated", "Undecorated"}

\* What the methods read and write of a client, with geometries from G.
PresentationOf(G) ==
  [geometry : G,
   maximized : SUBSET Axes,
   restore : G \cup {NoGeometry},     \* MaximizeState::restore
   fullscreen : G \cup {NoGeometry},  \* FullscreenState::restore
   shaded : BOOLEAN,
   role : Roles,
   natural : BOOLEAN,                 \* natural_decorations
   preference : Preferences]          \* decoration_override

\* for_role: a toolbar can be decorated only, a splash screen nothing at all.
CanFill(role) == role = "Normal"
CanDecorate(role) == role # "Splash"

IsFullscreen(c) == c.fullscreen # NoGeometry

\* policy_with_decoration_override
Decorated(c) ==
  CASE c.preference = "Default" -> c.natural
    [] c.preference = "Decorated" -> CanDecorate(c.role)
    [] c.preference = "Undecorated" -> FALSE

\* g, with the spans of another geometry on some axes.
Replace(g, axes, other) == [a \in Axes |-> IF a \in axes THEN other[a] ELSE g[a]]

\* unmanaged_geometry: where the client would be if it were neither maximized
\* nor fullscreen.
UnmanagedGeometry(c) ==
  LET shown == IF IsFullscreen(c) THEN c.fullscreen ELSE c.geometry
  IN IF c.maximized = {} THEN shown ELSE Replace(shown, c.maximized, c.restore)

\* set_geometry: the axes that are not maximized follow in what is restored.
SetGeometry(c, g) ==
  [c EXCEPT !.geometry = g,
            !.restore = IF c.maximized = {} THEN @ ELSE Replace(@, Axes \ c.maximized, g)]

\* Mutant: both axes are remembered whenever one becomes maximized.
UpdateMaximizedForgetful(c, axes, available) ==
  LET old == c.maximized
      restore == IF axes \subseteq old THEN c.restore ELSE c.geometry
  IN [c EXCEPT !.maximized = axes,
               !.restore = IF axes = {} THEN NoGeometry ELSE restore,
               !.geometry = IF old = {} THEN Replace(@, axes, available)
                            ELSE Replace(Replace(@, old, restore), axes, available)]

\* update_maximized_geometry: an axis that becomes maximized is remembered, one
\* that ceases to be is restored.
UpdateMaximized(c, axes, available) ==
  LET old == c.maximized
      restore == Replace(IF old = {} THEN c.geometry ELSE c.restore, axes \ old, c.geometry)
  IN [c EXCEPT !.maximized = axes,
               !.restore = CASE axes = {} -> NoGeometry
                             [] axes = old -> @
                             [] OTHER -> restore,
               !.geometry = Replace(Replace(@, old \ axes, restore), axes, available)]

\* set_maximized: a fullscreen client is maximized behind its fullscreen
\* geometry.
SetMaximized(c, axes, available) ==
  IF axes # {} /\ ~CanFill(c.role) THEN c
  ELSE IF ~IsFullscreen(c) THEN UpdateMaximized(c, axes, available)
  ELSE LET behind == UpdateMaximized([c EXCEPT !.geometry = c.fullscreen], axes, available)
       IN [behind EXCEPT !.fullscreen = behind.geometry, !.geometry = c.geometry]

\* set_fullscreen
SetFullscreen(c, fullscreen, output) ==
  CASE fullscreen /\ ~CanFill(c.role) -> c
    [] fullscreen /\ CanFill(c.role) ->
         [c EXCEPT !.fullscreen = IF IsFullscreen(c) THEN @ ELSE c.geometry,
                   !.geometry = output]
    [] ~fullscreen /\ IsFullscreen(c) ->
         [c EXCEPT !.fullscreen = NoGeometry, !.geometry = c.fullscreen]
    [] ~fullscreen /\ ~IsFullscreen(c) -> c

\* operations().shadeable, and set_shaded which asks for the same.
Shadeable(c) == Decorated(c) /\ ~IsFullscreen(c)
SetShaded(c, shaded) ==
  IF shaded /\ ~Shadeable(c) THEN c ELSE [c EXCEPT !.shaded = shaded]

\* operations().decoratable
Decoratable(c) == CanDecorate(c.role) /\ ~IsFullscreen(c)

\* toggle_decorations
Toggled(c) ==
  CASE c.preference # "Default" -> "Default"
    [] c.preference = "Default" -> IF Decorated(c) THEN "Undecorated" ELSE "Decorated"

\* set_policy: a role, with the decorations the client and the rules give it.
SetPolicy(c, role, natural) == [c EXCEPT !.role = role, !.natural = natural]
===============================================================================

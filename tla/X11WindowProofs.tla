---------------------------- MODULE X11WindowProofs ----------------------------
(***************************************************************************)
(* Proofs about X11WindowState and X11Focus.                               *)
(*                                                                         *)
(* X11WindowState, for any outputs, lengths, policies and kinds of drag:   *)
(* its types; that the frame on the server follows the policy and a shaded *)
(* client has a titlebar; that no handler disturbs where a held client     *)
(* returns to; that what fills the screen goes on to fit it; and that a    *)
(* motion that waits is reached.  The handlers are functions from windows  *)
(* to windows, so each property has a lemma saying what a handler makes of *)
(* a window, and an action follows from those of its handlers.             *)
(*                                                                         *)
(* X11Focus, for any clients, dialogs and numbers of acts: once everything *)
(* under way is handled, the client the window manager calls active has    *)
(* the focus.  What waits is summarised (the last gain of the focus and    *)
(* the losses after it; the last request for the focus), and each action   *)
(* is shown to keep what the summaries say of each other.                  *)
(***************************************************************************)
EXTENDS X11WindowState, X11Focus, FiniteSetTheorems, SequenceTheorems,
        WellFoundedInduction, TLAPS

ClientOK(c) ==
  /\ c \in PresentationOf(Geometries)
  /\ (c.restore = NoGeometry) = (c.maximized = {})
  /\ c.natural => CanDecorate(c.role)
DragOK(d) ==
  /\ d \in DragType \cup {NoDrag}
  /\ d # NoDrag /\ d.sync # "Waiting" => d.pending = NoGeometry
WindowOK(w) ==
  /\ w \in [client : PresentationOf(Geometries), framed : BOOLEAN,
            drag : DragType \cup {NoDrag}]
  /\ ClientOK(w.client)
  /\ DragOK(w.drag)
Places == [outputs : (SUBSET Outputs) \ {{}}, strut : BOOLEAN]

\* What the policy asks for: a titlebar.
Dressed(c) == Decorated(c) /\ ~IsFullscreen(c)

\* c and d differ in their geometries and maximized axes only.
SameDress(c, d) ==
  /\ c.role = d.role /\ c.natural = d.natural /\ c.preference = d.preference
  /\ IsFullscreen(c) = IsFullscreen(d)
  /\ c.shaded = d.shaded

\* The inductive invariant, for one window: between two actions a window is
\* settled, although handlers meet it in the middle of a change.
TitleShown(w) == w.client.shaded => Dressed(w.client)
Settled(w) == WindowOK(w) /\ w.framed = Dressed(w.client) /\ TitleShown(w)

IInv == Settled(window) /\ area \in Places

LEMMA IInvMeaning == IInv => TypeOK /\ FrameFollowsPolicy /\ ShadedHasTitlebar
BY DEF IInv, Settled, TitleShown, Dressed, WindowOK, ClientOK, DragOK, Places, TypeOK,
       FrameFollowsPolicy, ShadedHasTitlebar, client, drag

(* ---- Records and geometries ---- *)
LEMMA ReplaceTyped ==
  ASSUME NEW g \in Geometries, NEW h \in Geometries, NEW axes
  PROVE  Replace(g, axes, h) \in Geometries
BY DEF Replace, Geometries

\* Changing one part of a window leaves the others alone.
LEMMA WithClient ==
  ASSUME NEW w, WindowOK(w), NEW c, ClientOK(c)
  PROVE  LET v == [w EXCEPT !.client = c]
         IN WindowOK(v) /\ v.client = c /\ v.framed = w.framed /\ v.drag = w.drag
BY DEF WindowOK, ClientOK

LEMMA WithDrag ==
  ASSUME NEW w, WindowOK(w), NEW d, DragOK(d)
  PROVE  LET v == [w EXCEPT !.drag = d]
         IN WindowOK(v) /\ v.client = w.client /\ v.framed = w.framed /\ v.drag = d
BY DEF WindowOK, DragOK

LEMMA WithFrame ==
  ASSUME NEW w, WindowOK(w), NEW b \in BOOLEAN
  PROVE  LET v == [w EXCEPT !.framed = b]
         IN WindowOK(v) /\ v.client = w.client /\ v.framed = b /\ v.drag = w.drag
BY DEF WindowOK

LEMMA DressedTyped ==
  ASSUME NEW c, ClientOK(c)
  PROVE  Decorated(c) \in BOOLEAN /\ Dressed(c) \in BOOLEAN
BY DEF ClientOK, PresentationOf, Dressed, Decorated, CanDecorate, Preferences, IsFullscreen

\* A settled window stays settled when only its client's geometry changes.
LEMMA SettledWithClient ==
  ASSUME NEW w, Settled(w), NEW c, ClientOK(c), SameDress(c, w.client)
  PROVE  Settled([w EXCEPT !.client = c])
<1> DEFINE v == [w EXCEPT !.client = c]
<1>1. WindowOK(v) /\ v.client = c /\ v.framed = w.framed
  BY WithClient DEF Settled
<1>2. Dressed(c) = Dressed(w.client) /\ c.shaded = w.client.shaded
  BY DEF SameDress, Dressed, Decorated, IsFullscreen
<1> HIDE DEF v
<1>3. Settled(v)
  BY <1>1, <1>2 DEF Settled, TitleShown
<1> QED BY <1>3 DEF v

LEMMA OutputForTyped ==
  ASSUME NEW g \in Geometries, NEW place \in Places
  PROVE  OutputFor(g, place.outputs) \in Outputs
<1>1. place.outputs # {} /\ place.outputs \subseteq Outputs
  BY DEF Places
<1>2. (CHOOSE o \in place.outputs : TRUE) \in place.outputs
  BY <1>1
<1> QED BY <1>1, <1>2 DEF OutputFor

LEMMA SpansTyped ==
  ASSUME NEW at \in Outputs \cup {NoOutput}, NEW strut \in BOOLEAN, NEW framed \in BOOLEAN
  PROVE  Span(at, Fitted, strut, framed) \in Spans
BY DEF Span, Spans

LEMMA FullOutputTyped ==
  ASSUME NEW g \in Geometries, NEW place \in Places
  PROVE  FullOutput(g, place.outputs) \in Geometries
BY OutputForTyped, SpansTyped DEF FullOutput, Geometries

LEMMA AvailableTyped ==
  ASSUME NEW w, WindowOK(w), NEW place \in Places
  PROVE  Available(w, place) \in Geometries
<1>1. OutputFor(w.client.geometry, place.outputs) \in Outputs
  BY OutputForTyped DEF WindowOK, PresentationOf
<1>2. place.strut \in BOOLEAN /\ w.framed \in BOOLEAN
  BY DEF Places, WindowOK
<1>3. ASSUME NEW a \in Axes
      PROVE  Span(OutputFor(w.client.geometry, place.outputs), Fitted,
                  a = "vertical" /\ place.strut, w.framed) \in Spans
  <2>1. (a = "vertical" /\ place.strut) \in BOOLEAN
    OBVIOUS
  <2> QED BY <1>1, <1>2, <2>1, SpansTyped
<1> QED BY <1>3 DEF Available, Geometries

LEMMA FreeTyped ==
  ASSUME NEW place \in Places
  PROVE  /\ FreeGeometries(place.outputs) \subseteq Geometries
         /\ \A a \in Axes : FreeSpans(a, place.outputs) \subseteq Spans
BY DEF FreeSpans, FreeGeometries, Geometries

(* ---- The methods of the core ---- *)
LEMMA SetGeometryOK ==
  ASSUME NEW c, ClientOK(c), NEW g \in Geometries
  PROVE  ClientOK(SetGeometry(c, g)) /\ SameDress(SetGeometry(c, g), c)
<1> DEFINE restore == IF c.maximized = {} THEN c.restore
                      ELSE Replace(c.restore, Axes \ c.maximized, g)
<1>1. restore \in Geometries \cup {NoGeometry}
  BY ReplaceTyped DEF ClientOK, PresentationOf
<1>2. (restore = NoGeometry) = (c.maximized = {})
  BY ReplaceTyped, SentinelsAssumption DEF ClientOK, PresentationOf
<1>3. SetGeometry(c, g) = [c EXCEPT !.geometry = g, !.restore = restore]
  BY DEF SetGeometry, ClientOK, PresentationOf
<1> HIDE DEF restore
<1> QED BY <1>1, <1>2, <1>3 DEF ClientOK, PresentationOf, SameDress, IsFullscreen

LEMMA UpdateMaximizedOK ==
  ASSUME NEW c, ClientOK(c), NEW axes \in SUBSET Axes, NEW available \in Geometries
  PROVE  /\ ClientOK(UpdateMaximized(c, axes, available))
         /\ SameDress(UpdateMaximized(c, axes, available), c)
         /\ UpdateMaximized(c, axes, available).fullscreen = c.fullscreen
<1> DEFINE old == c.maximized
           base == IF old = {} THEN c.geometry ELSE c.restore
           saved == Replace(base, axes \ old, c.geometry)
           restore == CASE axes = {} -> NoGeometry
                        [] axes = old -> c.restore
                        [] OTHER -> saved
           geometry == Replace(Replace(c.geometry, old \ axes, saved), axes, available)
<1>1. base \in Geometries /\ c.geometry \in Geometries
  BY DEF ClientOK, PresentationOf
<1>2. saved \in Geometries
  BY <1>1, ReplaceTyped
<1>3. restore \in Geometries \cup {NoGeometry} /\ ((restore = NoGeometry) = (axes = {}))
  BY <1>2, SentinelsAssumption DEF ClientOK, PresentationOf
<1>4. geometry \in Geometries
  BY <1>1, <1>2, ReplaceTyped
<1>5. UpdateMaximized(c, axes, available)
        = [c EXCEPT !.maximized = axes, !.restore = restore, !.geometry = geometry]
  BY DEF UpdateMaximized, ClientOK, PresentationOf
<1> HIDE DEF restore, geometry
<1> QED BY <1>3, <1>4, <1>5 DEF ClientOK, PresentationOf, SameDress, IsFullscreen

LEMMA SetMaximizedOK ==
  ASSUME NEW c, ClientOK(c), NEW axes \in SUBSET Axes, NEW available \in Geometries
  PROVE  /\ ClientOK(SetMaximized(c, axes, available))
         /\ SameDress(SetMaximized(c, axes, available), c)
<1>1. CASE axes # {} /\ ~CanFill(c.role)
  BY <1>1 DEF SetMaximized, SameDress
<1>2. CASE ~(axes # {} /\ ~CanFill(c.role)) /\ ~IsFullscreen(c)
  BY <1>2, UpdateMaximizedOK DEF SetMaximized
<1>3. CASE ~(axes # {} /\ ~CanFill(c.role)) /\ IsFullscreen(c)
  <2> DEFINE front == [c EXCEPT !.geometry = c.fullscreen]
             behind == UpdateMaximized(front, axes, available)
  <2>1. ClientOK(front) /\ SameDress(front, c) /\ front.fullscreen = c.fullscreen
    BY <1>3 DEF ClientOK, PresentationOf, SameDress, IsFullscreen
  <2>2. ClientOK(behind) /\ SameDress(behind, front) /\ behind.fullscreen = front.fullscreen
    BY <2>1, UpdateMaximizedOK
  <2>3. SetMaximized(c, axes, available)
          = [behind EXCEPT !.fullscreen = behind.geometry, !.geometry = c.geometry]
    BY <1>3 DEF SetMaximized
  <2>4. behind.geometry \in Geometries /\ c.geometry \in Geometries
    BY <2>2 DEF ClientOK, PresentationOf
  <2> HIDE DEF behind, front
  <2> QED
    BY <1>3, <2>1, <2>2, <2>3, <2>4, SentinelsAssumption, ZenonT(60)
       DEF ClientOK, PresentationOf, SameDress, IsFullscreen
<1> QED BY <1>1, <1>2, <1>3

LEMMA SetFullscreenOK ==
  ASSUME NEW c, ClientOK(c), NEW fullscreen \in BOOLEAN, NEW output \in Geometries
  PROVE  LET d == SetFullscreen(c, fullscreen, output)
         IN /\ ClientOK(d)
            /\ d.role = c.role /\ d.natural = c.natural /\ d.preference = c.preference
            /\ d.shaded = c.shaded
            /\ ~fullscreen => ~IsFullscreen(d)
            /\ IsFullscreen(d) # IsFullscreen(c) => IsFullscreen(d) = fullscreen
BY SentinelsAssumption DEF SetFullscreen, ClientOK, PresentationOf, IsFullscreen

LEMMA SetShadedOK ==
  ASSUME NEW c, ClientOK(c), NEW shaded \in BOOLEAN
  PROVE  LET d == SetShaded(c, shaded)
         IN /\ ClientOK(d)
            /\ Dressed(d) = Dressed(c)
            /\ d.natural = c.natural /\ d.role = c.role /\ d.preference = c.preference
            /\ d.shaded => shaded \/ c.shaded
            /\ ~shaded => ~d.shaded
            /\ (c.shaded => Dressed(c)) => (d.shaded => Dressed(d))
BY DEF SetShaded, ClientOK, PresentationOf, Dressed, Decorated, Shadeable, IsFullscreen

(* ---- The handlers ---- *)
\* v is w with another geometry: what resizing handlers do in the middle of a
\* change, before the frame follows.
Resized(v, w) ==
  WindowOK(v) /\ v.framed = w.framed /\ SameDress(v.client, w.client)

LEMMA ResizedSettled ==
  ASSUME NEW v, NEW w, Resized(v, w)
  PROVE  /\ Settled(w) => Settled(v)
         /\ TitleShown(w) => TitleShown(v)
         /\ Dressed(v.client) = Dressed(w.client)
BY DEF Resized, Settled, TitleShown, SameDress, Dressed, Decorated, IsFullscreen

LEMMA ResizedTransitive ==
  ASSUME NEW u, NEW v, NEW w, Resized(u, v), Resized(v, w)
  PROVE  Resized(u, w)
BY DEF Resized, SameDress

LEMMA ResizedReflexive ==
  ASSUME NEW w, WindowOK(w)
  PROVE  Resized(w, w)
BY DEF Resized, SameDress

LEMMA MaximizeOK ==
  ASSUME NEW w, WindowOK(w), NEW axes \in SUBSET Axes, NEW place \in Places
  PROVE  Resized(Maximize(w, axes, place), w)
<1> DEFINE c == SetMaximized(w.client, axes, Available(w, place))
<1>1. ClientOK(c) /\ SameDress(c, w.client)
  BY AvailableTyped, SetMaximizedOK DEF WindowOK
<1>2. Maximize(w, axes, place) = [w EXCEPT !.client = c]
  BY DEF Maximize
<1> HIDE DEF c
<1> QED BY <1>1, <1>2, WithClient DEF Resized

LEMMA RefitOK ==
  ASSUME NEW w, WindowOK(w), NEW place \in Places
  PROVE  Resized(Refit(w, place), w)
<1>1. w.client.maximized \in SUBSET Axes
  BY DEF WindowOK, PresentationOf
<1> QED BY <1>1, MaximizeOK, ResizedReflexive DEF Refit

\* The frame follows whatever the client has become.
LEMMA ApplyFramePolicyOK ==
  ASSUME NEW w, WindowOK(w), TitleShown(w), NEW place \in Places
  PROVE  Settled(ApplyFramePolicy(w, place))
<1> DEFINE dressed == Decorated(w.client) /\ ~IsFullscreen(w.client)
           framed == [w EXCEPT !.framed = dressed]
<1>1. dressed \in BOOLEAN /\ dressed = Dressed(w.client)
  BY DressedTyped DEF WindowOK, Dressed
<1> HIDE DEF dressed
<1>2. WindowOK(framed) /\ framed.client = w.client /\ framed.framed = dressed
  BY <1>1, WithFrame
<1>3. Settled(framed)
  BY <1>1, <1>2 DEF Settled, TitleShown
<1>4. Resized(Refit(framed, place), framed)
  BY <1>2, RefitOK
<1>5. ApplyFramePolicy(w, place) \in {framed, Refit(framed, place)}
  BY DEF ApplyFramePolicy, dressed
<1> HIDE DEF framed
<1> QED BY <1>3, <1>4, <1>5, ResizedSettled

LEMMA DragGeometriesTyped ==
  ASSUME NEW w, WindowOK(w), w.drag # NoDrag
  PROVE  /\ w.drag \in DragType
         /\ w.drag.initial \in Geometries
         /\ w.drag.pending # NoGeometry => w.drag.pending \in Geometries
BY DEF WindowOK, DragOK, DragType

\* A drag ends, and the client is given a geometry.
LEMMA DragEnds ==
  ASSUME NEW w, WindowOK(w), NEW g \in Geometries
  PROVE  /\ Resized([w EXCEPT !.drag = NoDrag], w)
         /\ Resized([w EXCEPT !.drag = NoDrag, !.client = SetGeometry(@, g)], w)
<1> DEFINE c == SetGeometry(w.client, g)
           ended == [w EXCEPT !.drag = NoDrag]
<1>1. ClientOK(c) /\ SameDress(c, w.client)
  BY SetGeometryOK DEF WindowOK
<1>2. DragOK(NoDrag)
  BY DEF DragOK
<1>3. WindowOK(ended) /\ ended.client = w.client /\ ended.framed = w.framed
  BY <1>2, WithDrag
<1>4. [w EXCEPT !.drag = NoDrag, !.client = SetGeometry(@, g)]
        = [ended EXCEPT !.client = c]
  BY DEF WindowOK
<1> HIDE DEF c, ended
<1>5. Resized(ended, w)
  BY <1>3 DEF Resized, SameDress
<1>6. Resized([ended EXCEPT !.client = c], w)
  BY <1>1, <1>3, WithClient DEF Resized
<1> QED BY <1>4, <1>5, <1>6 DEF ended

LEMMA FinishDragOK ==
  ASSUME NEW w, WindowOK(w)
  PROVE  Resized(FinishDrag(w), w)
<1>1. CASE w.drag = NoDrag
  BY <1>1, ResizedReflexive DEF FinishDrag
<1>2. CASE w.drag # NoDrag /\ w.drag.pending = NoGeometry
  <2>1. FinishDrag(w) = [w EXCEPT !.drag = NoDrag]
    BY <1>2 DEF FinishDrag, WindowOK
  <2>2. w.client.geometry \in Geometries
    BY DEF WindowOK, PresentationOf
  <2> QED BY <2>1, <2>2, DragEnds
<1>3. CASE w.drag # NoDrag /\ w.drag.pending # NoGeometry
  BY <1>3, DragGeometriesTyped, DragEnds DEF FinishDrag
<1> QED BY <1>1, <1>2, <1>3

LEMMA CancelDragOK ==
  ASSUME NEW w, WindowOK(w)
  PROVE  Resized(CancelDrag(w), w)
BY DragGeometriesTyped, DragEnds, ResizedReflexive DEF CancelDrag

LEMMA ShadeOK ==
  ASSUME NEW w, Settled(w), NEW shaded \in BOOLEAN
  PROVE  /\ Settled(Shade(w, shaded))
         /\ ~shaded => ~Shade(w, shaded).client.shaded
<1>1. CASE w.client.shaded = shaded \/ (shaded /\ ~Shadeable(w.client))
  BY <1>1 DEF Shade
<1>2. CASE ~(w.client.shaded = shaded \/ (shaded /\ ~Shadeable(w.client)))
  <2> DEFINE v == FinishDrag(w)
             c == SetShaded(v.client, shaded)
  <2>1. Settled(v)
    BY FinishDragOK, ResizedSettled DEF Settled
  <2>2. /\ ClientOK(c)
        /\ Dressed(c) = Dressed(v.client)
        /\ c.shaded => Dressed(c)
        /\ ~shaded => ~c.shaded
    BY <2>1, SetShadedOK DEF Settled, TitleShown, WindowOK
  <2>3. Shade(w, shaded) = [v EXCEPT !.client = c]
    BY <1>2 DEF Shade
  <2> HIDE DEF v, c
  <2> QED BY <2>1, <2>2, <2>3, WithClient DEF Settled, TitleShown
<1> QED BY <1>1, <1>2

LEMMA SwitchFullscreenOK ==
  ASSUME NEW w, Settled(w), NEW fullscreen \in BOOLEAN, NEW place \in Places,
         fullscreen => ~w.client.shaded
  PROVE  Settled(SwitchFullscreen(w, fullscreen, place))
<1> DEFINE c == SetFullscreen(w.client, fullscreen,
                              FullOutput(w.client.geometry, place.outputs))
           switched == [w EXCEPT !.client = c]
<1>1. w.client.geometry \in Geometries /\ ClientOK(w.client)
  BY DEF Settled, WindowOK, PresentationOf
<1>2. /\ ClientOK(c)
      /\ c.role = w.client.role /\ c.natural = w.client.natural
      /\ c.preference = w.client.preference /\ c.shaded = w.client.shaded
      /\ IsFullscreen(c) # IsFullscreen(w.client) => IsFullscreen(c) = fullscreen
  BY <1>1, FullOutputTyped, SetFullscreenOK
<1>3. SwitchFullscreen(w, fullscreen, place)
        = IF IsFullscreen(switched.client) = IsFullscreen(w.client) THEN switched
          ELSE ApplyFramePolicy(switched, place)
  BY DEF SwitchFullscreen
<1> HIDE DEF c
<1>4. WindowOK(switched) /\ switched.client = c /\ switched.framed = w.framed
  BY <1>2, WithClient DEF Settled
<1> HIDE DEF switched
<1>5. CASE IsFullscreen(c) = IsFullscreen(w.client)
  <2>1. Resized(switched, w)
    BY <1>2, <1>4, <1>5 DEF Resized, SameDress
  <2> QED BY <1>3, <1>4, <1>5, <2>1, ResizedSettled
<1>6. CASE IsFullscreen(c) # IsFullscreen(w.client)
  <2>1. ~c.shaded
    BY <1>2, <1>6 DEF Settled, TitleShown, Dressed, IsFullscreen
  <2> QED BY <1>3, <1>4, <1>6, <2>1, ApplyFramePolicyOK DEF TitleShown
<1> QED BY <1>5, <1>6

LEMMA FullscreenOK ==
  ASSUME NEW w, Settled(w), NEW fullscreen \in BOOLEAN, NEW place \in Places
  PROVE  Settled(Fullscreen(w, fullscreen, place))
BY ShadeOK, SwitchFullscreenOK DEF Fullscreen

LEMMA PreferOK ==
  ASSUME NEW w, Settled(w), NEW preference \in Preferences, NEW place \in Places
  PROVE  Settled(Prefer(w, preference, place))
<1> DEFINE bare == Shade(w, FALSE)
           c == [bare.client EXCEPT !.preference = preference]
           preferred == [bare EXCEPT !.client = c]
<1>1. Settled(bare) /\ ~bare.client.shaded
  BY ShadeOK
<1>2. Prefer(w, preference, place) \in {w, ApplyFramePolicy(preferred, place)}
  BY <1>1 DEF Prefer, Settled, WindowOK
<1> HIDE DEF bare
<1>3. ClientOK(c) /\ ~c.shaded
  BY <1>1 DEF Settled, WindowOK, ClientOK, PresentationOf
<1> HIDE DEF c
<1>4. WindowOK(preferred) /\ preferred.client = c
  BY <1>1, <1>3, WithClient DEF Settled
<1> QED BY <1>2, <1>3, <1>4, ApplyFramePolicyOK DEF TitleShown

LEMMA RefreshPolicyOK ==
  ASSUME NEW w, Settled(w), NEW policy \in Policies, NEW place \in Places
  PROVE  Settled(RefreshPolicy(w, policy.role, policy.natural, place))
<1> DEFINE role == policy.role
           natural == policy.natural
           unmaximized == IF ~CanFill(role) THEN Maximize(w, {}, place) ELSE w
           windowed == IF ~CanFill(role) THEN Fullscreen(unmaximized, FALSE, place)
                       ELSE unmaximized
           unshaded == IF ~natural THEN Shade(windowed, FALSE) ELSE windowed
           c == SetPolicy(unshaded.client, role, natural)
           changed == [unshaded EXCEPT !.client = c]
<1>1. role \in Roles /\ natural \in BOOLEAN /\ (natural => CanDecorate(role))
  BY PoliciesAssumption
<1>2. RefreshPolicy(w, role, natural, place) \in {unshaded, ApplyFramePolicy(changed, place)}
  BY DEF RefreshPolicy
<1> HIDE DEF role, natural
<1>3. Settled(unmaximized)
  BY MaximizeOK, ResizedSettled DEF Settled
<1> HIDE DEF unmaximized
<1>4. Settled(windowed)
  BY <1>3, FullscreenOK
<1> HIDE DEF windowed
<1>5. Settled(unshaded) /\ (unshaded.client.shaded => natural)
  BY <1>1, <1>4, ShadeOK
<1> HIDE DEF unshaded
<1>6. ClientOK(c) /\ (c.shaded => Dressed(c))
  <2>1. ClientOK(unshaded.client) /\ (unshaded.client.shaded => Dressed(unshaded.client))
    BY <1>5 DEF Settled, TitleShown, WindowOK
  <2>2. /\ ClientOK(c)
        /\ c.role = role /\ c.natural = natural
        /\ c.preference = unshaded.client.preference
        /\ c.shaded = unshaded.client.shaded
        /\ IsFullscreen(c) = IsFullscreen(unshaded.client)
    BY <1>1, <2>1 DEF SetPolicy, ClientOK, PresentationOf, IsFullscreen
  <2>3. c.preference \in Preferences
    BY <2>2 DEF ClientOK, PresentationOf
  <2> HIDE DEF c
  <2>4. ASSUME c.shaded PROVE Decorated(c) /\ ~IsFullscreen(c)
    BY <1>1, <1>5, <2>1, <2>2, <2>3, <2>4 DEF Dressed, Decorated, Preferences
  <2> QED BY <2>2, <2>4 DEF Dressed
<1> HIDE DEF c
<1>7. WindowOK(changed) /\ changed.client = c
  BY <1>5, <1>6, WithClient DEF Settled
<1> QED BY <1>2, <1>5, <1>6, <1>7, ApplyFramePolicyOK DEF TitleShown, role, natural

LEMMA SetGeometrySettled ==
  ASSUME NEW w, Settled(w), NEW g \in Geometries
  PROVE  Settled([w EXCEPT !.client = SetGeometry(@, g)])
<1> DEFINE c == SetGeometry(w.client, g)
<1>1. ClientOK(c) /\ SameDress(c, w.client)
  BY SetGeometryOK DEF Settled, WindowOK
<1> HIDE DEF c
<1>2. Settled([w EXCEPT !.client = c])
  BY <1>1, SettledWithClient
<1> QED BY <1>2 DEF c

LEMMA ConfigureOK ==
  ASSUME NEW w, Settled(w), NEW axes, NEW g \in Geometries
  PROVE  Settled(Configure(w, axes, g))
<1> DEFINE shown == Replace(w.client.geometry, axes \ Held(w.client), g)
<1>1. shown \in Geometries
  BY ReplaceTyped DEF Settled, WindowOK, PresentationOf
<1>2. Configure(w, axes, g) = [w EXCEPT !.client = SetGeometry(@, shown)]
  BY DEF Configure, Settled, WindowOK
<1> HIDE DEF shown
<1> QED BY <1>1, <1>2, SetGeometrySettled

LEMMA SettledWithDrag ==
  ASSUME NEW w, Settled(w), NEW d, DragOK(d)
  PROVE  Settled([w EXCEPT !.drag = d])
BY WithDrag DEF Settled, TitleShown

LEMMA ApplyDragGeometryOK ==
  ASSUME NEW w, Settled(w), w.drag # NoDrag, NEW g \in Geometries
  PROVE  Settled(ApplyDragGeometry(w, g))
<1>1. w.drag \in DragType /\ DragOK(w.drag)
  BY DragGeometriesTyped DEF Settled, WindowOK
<1>2. CASE w.client.geometry = g
  BY <1>2 DEF ApplyDragGeometry
<1>3. CASE w.client.geometry # g /\ w.drag.sync = "Waiting"
  <2> DEFINE d == [w.drag EXCEPT !.pending = g]
  <2>1. DragOK(d)
    BY <1>1, <1>3 DEF DragOK, DragType
  <2>2. ApplyDragGeometry(w, g) = [w EXCEPT !.drag = d]
    BY <1>3 DEF ApplyDragGeometry, Settled, WindowOK
  <2> HIDE DEF d
  <2> QED BY <2>1, <2>2, SettledWithDrag
<1>4. CASE w.client.geometry # g /\ w.drag.sync # "Waiting"
  <2> DEFINE moved == [w EXCEPT !.client = SetGeometry(@, g)]
             sync == IF w.drag.sync = "Ready" THEN "Waiting" ELSE w.drag.sync
             d == [w.drag EXCEPT !.sync = sync]
  <2>1. DragOK(d)
    BY <1>1, <1>4, SentinelsAssumption DEF DragOK, DragType
  <2>2. ApplyDragGeometry(w, g) = [moved EXCEPT !.drag = d]
    BY <1>4 DEF ApplyDragGeometry, Settled, WindowOK
  <2>3. Settled(moved)
    BY SetGeometrySettled
  <2> HIDE DEF moved, d
  <2> QED BY <2>1, <2>2, <2>3, SettledWithDrag
<1> QED BY <1>2, <1>3, <1>4

LEMMA ResumeOK ==
  ASSUME NEW w, Settled(w), w.drag # NoDrag, NEW sync \in {"None", "Ready"}
  PROVE  Settled(Resume(w, sync))
<1> DEFINE d == [w.drag EXCEPT !.sync = sync, !.pending = NoGeometry]
           resumed == [w EXCEPT !.drag = d]
<1>1. /\ w.drag \in DragType
      /\ w.drag.pending # NoGeometry => w.drag.pending \in Geometries
  BY DragGeometriesTyped DEF Settled
<1>2. DragOK(d) /\ d # NoDrag
  BY <1>1, SentinelsAssumption DEF DragOK, DragType
<1>3. Resume(w, sync) = IF w.drag.pending = NoGeometry THEN resumed
                        ELSE ApplyDragGeometry(resumed, w.drag.pending)
  BY DEF Resume, Settled, WindowOK
<1> HIDE DEF d
<1>4. Settled(resumed) /\ resumed.drag = d
  BY <1>2, SettledWithDrag, WithDrag DEF Settled
<1> HIDE DEF resumed
<1> QED BY <1>1, <1>2, <1>3, <1>4, ApplyDragGeometryOK

LEMMA RehomeOK ==
  ASSUME NEW w, Settled(w), NEW place \in Places
  PROVE  Settled(Rehome(w, place))
<1> DEFINE g == w.client.geometry
           o == OutputFor(g, place.outputs)
           home == [g EXCEPT !["horizontal"].at = o]
<1>1. g \in Geometries
  BY DEF Settled, WindowOK, PresentationOf
<1>2. o \in Outputs
  BY <1>1, OutputForTyped
<1>3. Rehome(w, place) \in {w, [w EXCEPT !.client = SetGeometry(@, home)]}
  BY DEF Rehome
<1> HIDE DEF g, o
<1>4. home \in Geometries
  BY <1>1, <1>2 DEF Geometries, Spans, Axes
<1> HIDE DEF home
<1> QED BY <1>3, <1>4, SetGeometrySettled

LEMMA ArrangeOK ==
  ASSUME NEW w, Settled(w), NEW place \in Places
  PROVE  Settled(Arrange(w, place))
<1>1. Settled(Refit(w, place))
  BY RefitOK, ResizedSettled DEF Settled
<1>2. Settled(Rehome(Refit(w, place), place))
  BY <1>1, RehomeOK
<1> QED BY <1>2, FullscreenOK DEF Arrange

LEMMA NewWindowOK ==
  ASSUME NEW g \in Geometries, NEW policy \in Policies, NEW preference \in Preferences
  PROVE  Settled(NewWindow(g, policy, preference))
<1> DEFINE c == [geometry |-> g, maximized |-> {}, restore |-> NoGeometry,
                 fullscreen |-> NoGeometry, shaded |-> FALSE, role |-> policy.role,
                 natural |-> policy.natural, preference |-> preference]
<1>1. /\ policy.role \in Roles /\ policy.natural \in BOOLEAN
      /\ policy.natural => CanDecorate(policy.role)
  BY PoliciesAssumption
<1>2. ClientOK(c) /\ ~IsFullscreen(c) /\ ~c.shaded
  BY <1>1 DEF ClientOK, PresentationOf, IsFullscreen
<1>3. NewWindow(g, policy, preference)
        = [client |-> c, framed |-> Decorated(c), drag |-> NoDrag]
  BY DEF NewWindow
<1> HIDE DEF c
<1>4. Decorated(c) \in BOOLEAN
  BY <1>2, DressedTyped
<1> QED BY <1>2, <1>3, <1>4 DEF Settled, TitleShown, Dressed, WindowOK, ClientOK, DragOK

LEMMA ManageOK ==
  ASSUME NEW w, Settled(w), NEW shaded \in BOOLEAN, NEW axes \in SUBSET Axes,
         NEW fullscreen \in BOOLEAN, NEW place \in Places
  PROVE  Settled(Manage(w, shaded, axes, fullscreen, place))
<1> DEFINE drawn == IF shaded /\ ~fullscreen THEN Shade(w, TRUE) ELSE w
           filled == IF axes # {} THEN Maximize(drawn, axes, place) ELSE drawn
<1>1. Settled(drawn)
  BY ShadeOK
<1> HIDE DEF drawn
<1>2. Settled(filled)
  BY <1>1, MaximizeOK, ResizedSettled DEF Settled
<1> HIDE DEF filled
<1> QED BY <1>2, FullscreenOK DEF Manage, filled, drawn

(* ---- The invariant ---- *)
LEMMA InitIInv == Init => IInv
<1> SUFFICES ASSUME Init PROVE IInv
  OBVIOUS
<1>1. area \in Places
  BY DEF Init, Places
<1>2. PICK g \in FreeGeometries(area.outputs), policy \in Policies,
           preference \in Preferences, shaded \in BOOLEAN, fullscreen \in BOOLEAN,
           axes \in SUBSET Axes :
        window = Manage(NewWindow(g, policy, preference), shaded, axes, fullscreen, area)
  BY DEF Init
<1>3. Settled(NewWindow(g, policy, preference))
  BY <1>1, FreeTyped, NewWindowOK
<1> QED BY <1>1, <1>2, <1>3, ManageOK DEF IInv

LEMMA StateStepIInv == IInv /\ StateStep => IInv'
<1> SUFFICES ASSUME IInv, StateStep PROVE Settled(window') /\ area' \in Places
  BY DEF IInv, Settled, TitleShown, WindowOK, ClientOK, DragOK
<1>1. Settled(window) /\ area \in Places
  BY DEF IInv
<1>2. ASSUME NEW shaded \in BOOLEAN, SetShadedRequest(shaded)
      PROVE  Settled(window') /\ area' \in Places
  BY <1>1, <1>2, ShadeOK DEF SetShadedRequest
<1>3. ASSUME NEW axes \in SUBSET Axes, SetMaximizedRequest(axes)
      PROVE  Settled(window') /\ area' \in Places
  BY <1>1, <1>3, MaximizeOK, ResizedSettled DEF SetMaximizedRequest, Settled
<1>4. ASSUME ToggleFullscreen PROVE Settled(window') /\ area' \in Places
  BY <1>1, <1>4, FullscreenOK DEF ToggleFullscreen, IsFullscreen
<1>5. ASSUME NEW verb, NEW requested, UpdateNetWmState(verb, requested)
      PROVE  Settled(window') /\ area' \in Places
  <2> DEFINE shaded == IF "Shaded" \in requested
                       THEN Shade(window, Wanted(verb, client.shaded)) ELSE window
             fullscreen == Wanted(verb, IsFullscreen(client))
             filled == IF "Fullscreen" \in requested /\ fullscreen # IsFullscreen(client)
                       THEN Fullscreen(shaded, fullscreen, area) ELSE shaded
             old == filled.client.maximized
             axes == {a \in Axes : IF a \in requested THEN Wanted(verb, a \in old)
                                   ELSE a \in old}
  <2>1. Wanted(verb, client.shaded) \in BOOLEAN /\ fullscreen \in BOOLEAN
    BY DEF Wanted
  <2>2. Settled(shaded)
    BY <1>1, <2>1, ShadeOK
  <2>3. window' = (IF axes = old THEN filled ELSE Maximize(filled, axes, area))
        /\ area' = area
    BY <1>5 DEF UpdateNetWmState
  <2>4. axes \in SUBSET Axes
    OBVIOUS
  <2> HIDE DEF shaded, fullscreen, axes
  <2>5. Settled(filled)
    BY <1>1, <2>1, <2>2, FullscreenOK
  <2> HIDE DEF filled
  <2> QED BY <1>1, <2>3, <2>4, <2>5, MaximizeOK, ResizedSettled DEF Settled
<1>6. ASSUME NEW maximized \in (SUBSET Axes) \cup {Omitted},
             NEW fullscreen \in BOOLEAN \cup {Omitted},
             NEW shaded \in BOOLEAN \cup {Omitted},
             AgentApplyState(maximized, fullscreen, shaded)
      PROVE  Settled(window') /\ area' \in Places
  <2> DEFINE sized == IF maximized = Omitted THEN window
                      ELSE Maximize(window, maximized, area)
             filled == IF fullscreen = Omitted THEN sized
                       ELSE Fullscreen(sized, fullscreen, area)
  <2>1. window' = (IF shaded = Omitted THEN filled ELSE Shade(filled, shaded))
        /\ area' = area
    BY <1>6 DEF AgentApplyState
  <2>2. Settled(sized)
    BY <1>1, MaximizeOK, ResizedSettled DEF Settled
  <2> HIDE DEF sized
  <2>3. Settled(filled)
    BY <1>1, <2>2, FullscreenOK
  <2> HIDE DEF filled
  <2> QED BY <1>1, <2>1, <2>3, ShadeOK
<1> QED BY <1>2, <1>3, <1>4, <1>5, <1>6 DEF StateStep

LEMMA PolicyStepIInv == IInv /\ PolicyStep => IInv'
<1> SUFFICES ASSUME IInv, PolicyStep PROVE Settled(window') /\ area' \in Places
  BY DEF IInv, Settled, TitleShown, WindowOK, ClientOK, DragOK
<1>1. Settled(window) /\ area \in Places
  BY DEF IInv
<1>2. ASSUME NEW preference \in Preferences, SetDecorationOverride(preference)
      PROVE  Settled(window') /\ area' \in Places
  BY <1>1, <1>2, PreferOK DEF SetDecorationOverride
<1>3. ASSUME ToggleDecorations PROVE Settled(window') /\ area' \in Places
  <2>1. Toggled(client) \in Preferences
    BY <1>1 DEF Toggled, Preferences, Settled, WindowOK, PresentationOf, client
  <2> QED BY <1>1, <1>3, <2>1, PreferOK DEF ToggleDecorations
<1>4. ASSUME NEW policy \in Policies, RefreshClientPolicy(policy)
      PROVE  Settled(window') /\ area' \in Places
  BY <1>1, <1>4, RefreshPolicyOK DEF RefreshClientPolicy
<1>5. ASSUME Reconfigure PROVE Settled(window') /\ area' \in Places
  <2>1. Settled(CancelDrag(window))
    BY <1>1, CancelDragOK, ResizedSettled DEF Settled
  <2> QED BY <1>1, <1>5, <2>1, ApplyFramePolicyOK DEF Reconfigure, Settled
<1> QED BY <1>2, <1>3, <1>4, <1>5 DEF PolicyStep

LEMMA GeometryStepIInv == IInv /\ (GeometryStep \/ DragStep) => IInv'
<1> SUFFICES ASSUME IInv, GeometryStep \/ DragStep
             PROVE  Settled(window') /\ area' \in Places
  BY DEF IInv, Settled, TitleShown, WindowOK, ClientOK, DragOK
<1>1. Settled(window) /\ area \in Places
  BY DEF IInv
<1>2. ASSUME NEW g \in FreeGeometries(area.outputs), PointerMotion(g)
      PROVE  Settled(window') /\ area' \in Places
  BY <1>1, <1>2, FreeTyped, ApplyDragGeometryOK DEF PointerMotion, drag
<1>3. ASSUME NEW g \in FreeGeometries(area.outputs), NEW axes, ConfigureRequest(axes, g)
      PROVE  Settled(window') /\ area' \in Places
  BY <1>1, <1>3, FreeTyped, ConfigureOK DEF ConfigureRequest
<1>4. ASSUME NEW kind \in Drags, BeginDrag(kind)
      PROVE  Settled(window') /\ area' \in Places
  <2> DEFINE d == [keyboard |-> kind.keyboard, sync |-> kind.sync,
                   initial |-> client.geometry, pending |-> NoGeometry]
  <2>1. client.geometry \in Geometries
    BY <1>1 DEF Settled, WindowOK, PresentationOf, client
  <2>2. DragOK(d)
    BY <2>1, DragsAssumption DEF DragOK, DragType
  <2>3. window' = [window EXCEPT !.drag = d] /\ area' = area
    BY <1>4 DEF BeginDrag
  <2> HIDE DEF d
  <2> QED BY <1>1, <2>2, <2>3, SettledWithDrag
<1>5. ASSUME NEW axis \in Axes, NEW span \in FreeSpans(axis, area.outputs),
             KeyboardDrag(axis, span)
      PROVE  Settled(window') /\ area' \in Places
  <2> DEFINE g == [client.geometry EXCEPT ![axis] = span]
  <2>1. client.geometry \in Geometries /\ span \in Spans
    BY <1>1, FreeTyped DEF Settled, WindowOK, PresentationOf, client
  <2>2. g \in Geometries
    BY <2>1 DEF Geometries
  <2>3. drag # NoDrag /\ window' = ApplyDragGeometry(window, g) /\ area' = area
    BY <1>5 DEF KeyboardDrag
  <2> HIDE DEF g
  <2> QED BY <1>1, <2>2, <2>3, ApplyDragGeometryOK DEF drag
<1>6. ASSUME SyncAlarmNotify \/ SyncResizeTimeout
      PROVE  Settled(window') /\ area' \in Places
  BY <1>1, <1>6, ResumeOK DEF SyncAlarmNotify, SyncResizeTimeout, drag
<1>7. ASSUME EndDrag PROVE Settled(window') /\ area' \in Places
  BY <1>1, <1>7, FinishDragOK, CancelDragOK, ResizedSettled DEF EndDrag, Settled
<1> QED BY <1>2, <1>3, <1>4, <1>5, <1>6, <1>7 DEF GeometryStep, DragStep

LEMMA EnvironmentStepIInv == IInv /\ EnvironmentStep => IInv'
<1> SUFFICES ASSUME IInv, EnvironmentStep PROVE Settled(window') /\ area' \in Places
  BY DEF IInv, Settled, TitleShown, WindowOK, ClientOK, DragOK
<1>1. Settled(window) /\ area \in Places
  BY DEF IInv
<1>2. ASSUME NEW outputs \in (SUBSET Outputs) \ {{}}, RefreshOutputs(outputs)
      PROVE  Settled(window') /\ area' \in Places
  <2>1. [area EXCEPT !.outputs = outputs] \in Places
    BY <1>1 DEF Places
  <2> QED BY <1>1, <1>2, <2>1, ArrangeOK DEF RefreshOutputs
<1>3. ASSUME NEW strut \in BOOLEAN, RefreshWorkArea(strut)
      PROVE  Settled(window') /\ area' \in Places
  <2>1. [area EXCEPT !.strut = strut] \in Places
    BY <1>1 DEF Places
  <2> QED BY <1>1, <1>3, <2>1, RefitOK, ResizedSettled DEF RefreshWorkArea, Settled
<1> QED BY <1>2, <1>3 DEF EnvironmentStep

LEMMA StutterIInv == IInv /\ UNCHANGED vars => IInv'
BY DEF IInv, vars, Settled, TitleShown, WindowOK, ClientOK, DragOK

LEMMA Invariance == Spec => []IInv
<1>1. IInv /\ [Next]_vars => IInv'
  BY StateStepIInv, PolicyStepIInv, GeometryStepIInv, EnvironmentStepIInv, StutterIInv
     DEF Next
<1> QED BY InitIInv, <1>1, PTL DEF Spec

\* Whatever is asked of a client, its record and its drag stay well formed: a
\* geometry is remembered exactly while an axis is maximized, and none waits
\* for a client that is not painting.
THEOREM TypeCorrect == Spec => []TypeOK
<1>1. IInv => TypeOK
  BY IInvMeaning
<1> QED BY Invariance, <1>1, PTL

\* No handler changes policy, preference or fullscreen without carrying the
\* frame on the server along.
THEOREM FrameCorrect == Spec => []FrameFollowsPolicy
<1>1. IInv => FrameFollowsPolicy
  BY IInvMeaning
<1> QED BY Invariance, <1>1, PTL

\* Every way to lose the titlebar unshades the client first.
THEOREM ShadedCorrect == Spec => []ShadedHasTitlebar
<1>1. IInv => ShadedHasTitlebar
  BY IInvMeaning
<1> QED BY Invariance, <1>1, PTL

(***************************************************************************)
(* Where a client returns to survives every handler.  Maximizing,          *)
(* fullscreen, frames and policies leave it alone on both axes; geometries *)
(* that are set directly, on the axes that are held.  Handlers that do     *)
(* both can only go wrong by releasing an axis before they end a drag      *)
(* whose last motion still waits.                                          *)
(***************************************************************************)
\* Where c would be, were its geometry g.
Beneath(c, g) == IF c.maximized = {} THEN g ELSE Replace(g, c.maximized, c.restore)

(* ---- The methods of the core ---- *)
LEMMA UnmanagedBeneath ==
  ASSUME NEW c
  PROVE  UnmanagedGeometry(c) = Beneath(c, IF IsFullscreen(c) THEN c.fullscreen ELSE c.geometry)
BY DEF UnmanagedGeometry, Beneath

\* Shading, preferences and policies do not matter to placement.
LEMMA SamePlacement ==
  ASSUME NEW c, NEW d,
         d.geometry = c.geometry, d.maximized = c.maximized,
         d.restore = c.restore, d.fullscreen = c.fullscreen
  PROVE  UnmanagedGeometry(d) = UnmanagedGeometry(c) /\ Held(d) = Held(c)
BY DEF UnmanagedGeometry, Held, IsFullscreen

LEMMA GeometriesEqual ==
  ASSUME NEW g \in Geometries, NEW h \in Geometries, \A a \in Axes : g[a] = h[a]
  PROVE  g = h
BY DEF Geometries

LEMMA ReplaceOnAxes ==
  ASSUME NEW g \in Geometries, NEW h \in Geometries, NEW axes
  PROVE  /\ Replace(g, axes, h) \in Geometries
         /\ \A a \in Axes : Replace(g, axes, h)[a] = IF a \in axes THEN h[a] ELSE g[a]
BY ReplaceTyped DEF Replace

LEMMA SetGeometryKeeps ==
  ASSUME NEW c, ClientOK(c), NEW g \in Geometries
  PROVE  /\ Held(SetGeometry(c, g)) = Held(c)
         /\ \A a \in Held(c) :
              UnmanagedGeometry(SetGeometry(c, g))[a] = UnmanagedGeometry(c)[a]
<1> DEFINE restore == IF c.maximized = {} THEN c.restore
                      ELSE Replace(c.restore, Axes \ c.maximized, g)
           d == SetGeometry(c, g)
<1>1. /\ d.geometry = g /\ d.restore = restore
      /\ d.maximized = c.maximized /\ d.fullscreen = c.fullscreen
  BY DEF SetGeometry, ClientOK, PresentationOf
<1>2. c.maximized \subseteq Axes
  BY DEF ClientOK, PresentationOf
<1> HIDE DEF d
<1>3. Held(d) = Held(c)
  BY <1>1 DEF Held, IsFullscreen
<1>4. ASSUME NEW a \in Held(c) PROVE UnmanagedGeometry(d)[a] = UnmanagedGeometry(c)[a]
  <2>1. a \in Axes
    BY <1>2 DEF Held
  <2>2. CASE c.maximized = {}
    BY <1>1, <2>2, <1>4 DEF UnmanagedGeometry, Held, IsFullscreen
  <2>3. CASE c.maximized # {} /\ a \in c.maximized
    <3>1. restore[a] = c.restore[a]
      BY <2>1, <2>3 DEF Replace
    <3> HIDE DEF restore
    <3> QED BY <1>1, <2>1, <2>3, <3>1 DEF UnmanagedGeometry, Replace
  <2>4. CASE c.maximized # {} /\ a \notin c.maximized
    <3>1. IsFullscreen(c) /\ IsFullscreen(d)
      BY <1>1, <1>4, <2>4 DEF Held, IsFullscreen
    <3> QED BY <1>1, <2>1, <2>4, <3>1 DEF UnmanagedGeometry, Replace
  <2> QED BY <2>2, <2>3, <2>4
<1> QED BY <1>3, <1>4 DEF d

LEMMA UpdateMaximizedKeeps ==
  ASSUME NEW c, ClientOK(c), NEW axes \in SUBSET Axes, NEW available \in Geometries
  PROVE  LET d == UpdateMaximized(c, axes, available)
         IN d.maximized = axes /\ Beneath(d, d.geometry) = Beneath(c, c.geometry)
<1> DEFINE old == c.maximized
           base == IF old = {} THEN c.geometry ELSE c.restore
           saved == Replace(base, axes \ old, c.geometry)
           restore == CASE axes = {} -> NoGeometry
                        [] axes = old -> c.restore
                        [] OTHER -> saved
           geometry == Replace(Replace(c.geometry, old \ axes, saved), axes, available)
           d == UpdateMaximized(c, axes, available)
<1>1. base \in Geometries /\ c.geometry \in Geometries /\ old \subseteq Axes
  BY DEF ClientOK, PresentationOf
<1>2. /\ saved \in Geometries
      /\ \A a \in Axes : saved[a] = IF a \in old THEN c.restore[a]
                                    ELSE IF a \in axes THEN c.geometry[a] ELSE base[a]
  <2>1. /\ saved \in Geometries
        /\ \A a \in Axes : saved[a] = IF a \in axes \ old THEN c.geometry[a] ELSE base[a]
    BY ONLY <1>1, ReplaceOnAxes
  <2>2. \A a \in old : base[a] = c.restore[a]
    OBVIOUS
  <2> HIDE DEF base, saved
  <2> QED BY <2>1, <2>2
<1>3. axes # {} => /\ restore \in Geometries
                   /\ \A a \in axes : restore[a] = saved[a]
  BY <1>1, <1>2 DEF ClientOK, PresentationOf
<1> HIDE DEF base, saved
<1>4. /\ geometry \in Geometries
      /\ \A a \in Axes : geometry[a] = IF a \in axes THEN available[a]
                                       ELSE IF a \in old THEN saved[a] ELSE c.geometry[a]
  <2> DEFINE restored == Replace(c.geometry, old \ axes, saved)
  <2>1. /\ restored \in Geometries
        /\ \A a \in Axes : restored[a] = IF a \in old \ axes THEN saved[a]
                                         ELSE c.geometry[a]
    BY ONLY <1>1, <1>2, ReplaceOnAxes
  <2> HIDE DEF restored
  <2>2. /\ Replace(restored, axes, available) \in Geometries
        /\ \A a \in Axes : Replace(restored, axes, available)[a]
                             = IF a \in axes THEN available[a] ELSE restored[a]
    BY ONLY <2>1, available \in Geometries, ReplaceOnAxes
  <2>3. geometry = Replace(restored, axes, available)
    BY DEF restored
  <2> HIDE DEF geometry
  <2> QED BY <2>1, <2>2, <2>3
<1>5. d.maximized = axes /\ d.restore = restore /\ d.geometry = geometry
  BY DEF UpdateMaximized, ClientOK, PresentationOf, base, saved
<1> HIDE DEF restore, geometry, d
<1>6. /\ Beneath(c, c.geometry) \in Geometries
      /\ \A a \in Axes : Beneath(c, c.geometry)[a]
                           = IF a \in old THEN c.restore[a] ELSE c.geometry[a]
  <2>1. old # {} => c.restore \in Geometries
    BY DEF ClientOK, PresentationOf
  <2> QED BY <1>1, <2>1, ReplaceTyped DEF Beneath, Replace
<1>7. /\ Beneath(d, d.geometry) \in Geometries
      /\ \A a \in Axes : Beneath(d, d.geometry)[a]
                           = IF a \in axes THEN restore[a] ELSE geometry[a]
  BY <1>3, <1>4, <1>5, ReplaceTyped DEF Beneath, Replace
<1>8. \A a \in Axes : Beneath(d, d.geometry)[a] = Beneath(c, c.geometry)[a]
  BY <1>2, <1>3, <1>4, <1>6, <1>7
<1>9. Beneath(d, d.geometry) = Beneath(c, c.geometry)
  BY <1>6, <1>7, <1>8, GeometriesEqual
<1> QED BY <1>5, <1>9 DEF d

LEMMA SetMaximizedKeeps ==
  ASSUME NEW c, ClientOK(c), NEW axes \in SUBSET Axes, NEW available \in Geometries
  PROVE  LET d == SetMaximized(c, axes, available)
         IN /\ UnmanagedGeometry(d) = UnmanagedGeometry(c)
            /\ d.maximized \in {axes, c.maximized}
<1>1. CASE axes # {} /\ ~CanFill(c.role)
  BY <1>1 DEF SetMaximized
<1>2. CASE ~(axes # {} /\ ~CanFill(c.role)) /\ ~IsFullscreen(c)
  <2>1. SetMaximized(c, axes, available) = UpdateMaximized(c, axes, available)
    BY <1>2 DEF SetMaximized
  <2>2. ~IsFullscreen(UpdateMaximized(c, axes, available))
    BY <1>2, UpdateMaximizedOK DEF IsFullscreen
  <2> QED BY <1>2, <2>1, <2>2, UnmanagedBeneath, UpdateMaximizedKeeps
<1>3. CASE ~(axes # {} /\ ~CanFill(c.role)) /\ IsFullscreen(c)
  <2> DEFINE front == [c EXCEPT !.geometry = c.fullscreen]
             behind == UpdateMaximized(front, axes, available)
             d == [behind EXCEPT !.fullscreen = behind.geometry, !.geometry = c.geometry]
  <2>1. ClientOK(front) /\ front.geometry = c.fullscreen
        /\ front.maximized = c.maximized /\ front.restore = c.restore
    BY <1>3 DEF ClientOK, PresentationOf, IsFullscreen
  <2>2. Beneath(front, front.geometry) = UnmanagedGeometry(c)
    BY <1>3, <2>1 DEF Beneath, UnmanagedGeometry
  <2>3. SetMaximized(c, axes, available) = d
    BY <1>3 DEF SetMaximized
  <2> HIDE DEF front
  <2>4. /\ ClientOK(behind) /\ behind.maximized = axes
        /\ Beneath(behind, behind.geometry) = Beneath(front, front.geometry)
    BY <2>1, UpdateMaximizedOK, UpdateMaximizedKeeps
  <2> HIDE DEF behind
  <2>5. /\ d.fullscreen = behind.geometry /\ behind.geometry \in Geometries
        /\ d.maximized = behind.maximized /\ d.restore = behind.restore
    BY <2>4 DEF ClientOK, PresentationOf
  <2> HIDE DEF d
  <2>6. IsFullscreen(d)
    BY <2>5, SentinelsAssumption DEF IsFullscreen
  <2>7. UnmanagedGeometry(d) = Beneath(behind, behind.geometry)
    BY <2>5, <2>6 DEF UnmanagedGeometry, Beneath
  <2> QED BY <2>2, <2>3, <2>4, <2>5, <2>7
<1> QED BY <1>1, <1>2, <1>3

LEMMA SetFullscreenKeeps ==
  ASSUME NEW c, ClientOK(c), NEW fullscreen \in BOOLEAN, NEW output \in Geometries
  PROVE  UnmanagedGeometry(SetFullscreen(c, fullscreen, output)) = UnmanagedGeometry(c)
<1> DEFINE d == SetFullscreen(c, fullscreen, output)
           shown(e) == IF IsFullscreen(e) THEN e.fullscreen ELSE e.geometry
<1>1. shown(d) = shown(c) /\ d.maximized = c.maximized /\ d.restore = c.restore
  BY SentinelsAssumption DEF SetFullscreen, ClientOK, PresentationOf, IsFullscreen
<1> HIDE DEF d
<1>2. UnmanagedGeometry(d) = Beneath(d, shown(d))
      /\ UnmanagedGeometry(c) = Beneath(c, shown(c))
  BY UnmanagedBeneath
<1> HIDE DEF shown
<1> QED BY <1>1, <1>2 DEF Beneath, d

(* ---- The handlers ---- *)
\* v keeps what w returns to on both axes, and at most ends its drag.
Undisturbed(v, w) ==
  /\ UnmanagedGeometry(v.client) = UnmanagedGeometry(w.client)
  /\ v.drag \in {w.drag, NoDrag}
\* v does, or it has applied the motion that waited.
Kept(v, w) ==
  \/ Undisturbed(v, w)
  \/ w.drag # NoDrag /\ v.drag = NoDrag /\ w.drag.pending # NoGeometry
\* v keeps what w returns to on the axes that are held.
HeldKept(v, w) ==
  \A a \in Held(w.client) :
    UnmanagedGeometry(v.client)[a] = UnmanagedGeometry(w.client)[a]

LEMMA KeptReflexive == \A w : Kept(w, w)
BY DEF Kept, Undisturbed

LEMMA KeptTransitive ==
  ASSUME NEW u, NEW v, NEW w, Kept(u, v), Kept(v, w)
  PROVE  Kept(u, w)
BY DEF Kept, Undisturbed

\* The window with another client.
LEMMA ClientKept ==
  ASSUME NEW w, WindowOK(w), NEW c, UnmanagedGeometry(c) = UnmanagedGeometry(w.client)
  PROVE  Undisturbed([w EXCEPT !.client = c], w)
BY DEF Undisturbed, WindowOK

LEMMA MaximizeKept ==
  ASSUME NEW w, WindowOK(w), NEW axes \in SUBSET Axes, NEW place \in Places
  PROVE  /\ Undisturbed(Maximize(w, axes, place), w)
         /\ Maximize(w, axes, place).client.maximized \in {axes, w.client.maximized}
<1> DEFINE c == SetMaximized(w.client, axes, Available(w, place))
<1>1. /\ UnmanagedGeometry(c) = UnmanagedGeometry(w.client)
      /\ c.maximized \in {axes, w.client.maximized}
  BY AvailableTyped, SetMaximizedKeeps DEF WindowOK
<1>2. Maximize(w, axes, place) = [w EXCEPT !.client = c]
  BY DEF Maximize
<1> HIDE DEF c
<1>3. [w EXCEPT !.client = c].client = c
  BY DEF WindowOK
<1> QED BY <1>1, <1>2, <1>3, ClientKept

LEMMA RefitKept ==
  ASSUME NEW w, WindowOK(w), NEW place \in Places
  PROVE  /\ Undisturbed(Refit(w, place), w)
         /\ Held(Refit(w, place).client) = Held(w.client)
<1>1. w.client.maximized \in SUBSET Axes
  BY DEF WindowOK, PresentationOf
<1>2. CASE w.client.maximized = {}
  BY <1>2 DEF Refit, Undisturbed
<1>3. CASE w.client.maximized # {}
  <2> DEFINE v == Maximize(w, w.client.maximized, place)
  <2>1. Refit(w, place) = v
    BY <1>3 DEF Refit
  <2>2. Undisturbed(v, w) /\ v.client.maximized = w.client.maximized
    BY <1>1, MaximizeKept
  <2>3. IsFullscreen(v.client) = IsFullscreen(w.client)
    BY <1>1, MaximizeOK DEF Resized, SameDress
  <2> HIDE DEF v
  <2> QED BY <2>1, <2>2, <2>3 DEF Held
<1> QED BY <1>2, <1>3

LEMMA ApplyFramePolicyKept ==
  ASSUME NEW w, WindowOK(w), NEW place \in Places
  PROVE  Undisturbed(ApplyFramePolicy(w, place), w)
<1> DEFINE dressed == Decorated(w.client) /\ ~IsFullscreen(w.client)
           framed == [w EXCEPT !.framed = dressed]
<1>1. dressed \in BOOLEAN
  BY DressedTyped DEF WindowOK, Dressed
<1> HIDE DEF dressed
<1>2. WindowOK(framed) /\ framed.client = w.client /\ framed.drag = w.drag
  BY <1>1, WithFrame
<1>3. ApplyFramePolicy(w, place) \in {framed, Refit(framed, place)}
  BY DEF ApplyFramePolicy, dressed
<1> HIDE DEF framed
<1> QED BY <1>2, <1>3, RefitKept DEF Undisturbed

\* Setting a geometry, with whatever it does to the drag.
LEMMA SetGeometryHeld ==
  ASSUME NEW w, WindowOK(w), NEW v, NEW g \in Geometries,
         v.client = SetGeometry(w.client, g)
  PROVE  HeldKept(v, w)
BY SetGeometryKeeps DEF HeldKept, WindowOK

LEMMA FinishDragKept ==
  ASSUME NEW w, WindowOK(w)
  PROVE  Kept(FinishDrag(w), w) /\ HeldKept(FinishDrag(w), w)
<1>1. CASE w.drag = NoDrag
  BY <1>1 DEF FinishDrag, Kept, Undisturbed, HeldKept
<1>2. CASE w.drag # NoDrag /\ w.drag.pending = NoGeometry
  <2>1. FinishDrag(w).client = w.client /\ FinishDrag(w).drag = NoDrag
    BY <1>2 DEF FinishDrag, WindowOK
  <2> QED BY <2>1 DEF Kept, Undisturbed, HeldKept
<1>3. CASE w.drag # NoDrag /\ w.drag.pending # NoGeometry
  <2>1. FinishDrag(w).client = SetGeometry(w.client, w.drag.pending)
        /\ FinishDrag(w).drag = NoDrag
    BY <1>3 DEF FinishDrag, WindowOK
  <2>2. w.drag.pending \in Geometries
    BY <1>3, DragGeometriesTyped
  <2> QED BY <1>3, <2>1, <2>2, SetGeometryHeld DEF Kept
<1> QED BY <1>1, <1>2, <1>3

LEMMA CancelDragKept ==
  ASSUME NEW w, WindowOK(w)
  PROVE  HeldKept(CancelDrag(w), w)
<1>1. CASE w.drag = NoDrag
  BY <1>1 DEF CancelDrag, HeldKept
<1>2. CASE w.drag # NoDrag
  <2>1. CancelDrag(w).client = SetGeometry(w.client, w.drag.initial)
    BY <1>2 DEF CancelDrag, WindowOK
  <2> QED BY <1>2, <2>1, DragGeometriesTyped, SetGeometryHeld
<1> QED BY <1>1, <1>2

LEMMA ShadeKept ==
  ASSUME NEW w, WindowOK(w), NEW shaded \in BOOLEAN
  PROVE  Kept(Shade(w, shaded), w)
<1> DEFINE v == FinishDrag(w)
           c == SetShaded(v.client, shaded)
<1>1. WindowOK(v) /\ Kept(v, w)
  BY FinishDragOK, FinishDragKept DEF Resized
<1>2. Shade(w, shaded) \in {w, [v EXCEPT !.client = c]}
  BY DEF Shade
<1>3. UnmanagedGeometry(c) = UnmanagedGeometry(v.client)
  <2>1. /\ c.geometry = v.client.geometry /\ c.maximized = v.client.maximized
        /\ c.restore = v.client.restore /\ c.fullscreen = v.client.fullscreen
    BY <1>1 DEF SetShaded, WindowOK, ClientOK, PresentationOf
  <2> HIDE DEF c, v
  <2> QED BY <2>1, SamePlacement
<1> HIDE DEF c, v
<1>4. Kept([v EXCEPT !.client = c], v)
  BY <1>1, <1>3, ClientKept DEF Kept
<1> QED BY <1>1, <1>2, <1>4, KeptReflexive, KeptTransitive

LEMMA SwitchFullscreenKept ==
  ASSUME NEW w, WindowOK(w), NEW fullscreen \in BOOLEAN, NEW place \in Places
  PROVE  Kept(SwitchFullscreen(w, fullscreen, place), w)
<1> DEFINE c == SetFullscreen(w.client, fullscreen,
                              FullOutput(w.client.geometry, place.outputs))
           switched == [w EXCEPT !.client = c]
<1>1. w.client.geometry \in Geometries /\ ClientOK(w.client)
  BY DEF WindowOK, PresentationOf
<1>2. ClientOK(c) /\ UnmanagedGeometry(c) = UnmanagedGeometry(w.client)
  BY <1>1, FullOutputTyped, SetFullscreenOK, SetFullscreenKeeps
<1>3. SwitchFullscreen(w, fullscreen, place) \in {switched, ApplyFramePolicy(switched, place)}
  BY DEF SwitchFullscreen
<1> HIDE DEF c
<1>4. WindowOK(switched) /\ Undisturbed(switched, w)
  BY <1>2, WithClient, ClientKept
<1> HIDE DEF switched
<1>5. Undisturbed(ApplyFramePolicy(switched, place), switched)
  BY <1>4, ApplyFramePolicyKept
<1> QED BY <1>3, <1>4, <1>5, KeptTransitive DEF Kept

LEMMA FullscreenKept ==
  ASSUME NEW w, Settled(w), NEW fullscreen \in BOOLEAN, NEW place \in Places
  PROVE  Kept(Fullscreen(w, fullscreen, place), w)
<1> DEFINE v == IF fullscreen THEN Shade(w, FALSE) ELSE w
<1>1. WindowOK(v) /\ Kept(v, w)
  BY ShadeOK, ShadeKept, KeptReflexive DEF Settled
<1>2. Fullscreen(w, fullscreen, place) = SwitchFullscreen(v, fullscreen, place)
  BY DEF Fullscreen
<1> HIDE DEF v
<1> QED BY <1>1, <1>2, SwitchFullscreenKept, KeptTransitive

LEMMA PreferKept ==
  ASSUME NEW w, Settled(w), NEW preference \in Preferences, NEW place \in Places
  PROVE  Kept(Prefer(w, preference, place), w)
<1> DEFINE bare == Shade(w, FALSE)
           c == [bare.client EXCEPT !.preference = preference]
           preferred == [bare EXCEPT !.client = c]
<1>1. WindowOK(bare) /\ Kept(bare, w)
  BY ShadeOK, ShadeKept DEF Settled
<1>2. Prefer(w, preference, place) \in {w, ApplyFramePolicy(preferred, place)}
  BY <1>1 DEF Prefer, WindowOK
<1> HIDE DEF bare
<1>3. ClientOK(c) /\ UnmanagedGeometry(c) = UnmanagedGeometry(bare.client)
  <2>1. /\ ClientOK(c)
        /\ c.geometry = bare.client.geometry /\ c.maximized = bare.client.maximized
        /\ c.restore = bare.client.restore /\ c.fullscreen = bare.client.fullscreen
    BY <1>1 DEF WindowOK, ClientOK, PresentationOf
  <2> HIDE DEF c
  <2> QED BY <2>1, SamePlacement
<1> HIDE DEF c
<1>4. WindowOK(preferred) /\ Undisturbed(preferred, bare)
  BY <1>1, <1>3, WithClient, ClientKept
<1> HIDE DEF preferred
<1>5. Undisturbed(ApplyFramePolicy(preferred, place), preferred)
  BY <1>4, ApplyFramePolicyKept
<1>6. Kept(ApplyFramePolicy(preferred, place), bare)
  BY <1>4, <1>5, KeptTransitive DEF Kept
<1> QED BY <1>1, <1>2, <1>6, KeptReflexive, KeptTransitive

LEMMA RefreshPolicyKept ==
  ASSUME NEW w, Settled(w), NEW policy \in Policies, NEW place \in Places
  PROVE  Kept(RefreshPolicy(w, policy.role, policy.natural, place), w)
<1> DEFINE role == policy.role
           natural == policy.natural
           unmaximized == IF ~CanFill(role) THEN Maximize(w, {}, place) ELSE w
           windowed == IF ~CanFill(role) THEN Fullscreen(unmaximized, FALSE, place)
                       ELSE unmaximized
           unshaded == IF ~natural THEN Shade(windowed, FALSE) ELSE windowed
           c == SetPolicy(unshaded.client, role, natural)
           changed == [unshaded EXCEPT !.client = c]
<1>1. role \in Roles /\ natural \in BOOLEAN /\ (natural => CanDecorate(role))
  BY PoliciesAssumption
<1>2. RefreshPolicy(w, role, natural, place) \in {unshaded, ApplyFramePolicy(changed, place)}
  BY DEF RefreshPolicy
<1> HIDE DEF role, natural
<1>3. Settled(unmaximized) /\ Kept(unmaximized, w)
  BY MaximizeOK, ResizedSettled, MaximizeKept, KeptReflexive DEF Settled, Kept
<1> HIDE DEF unmaximized
<1>4. Settled(windowed) /\ Kept(windowed, w)
  BY <1>3, FullscreenOK, FullscreenKept, KeptTransitive
<1> HIDE DEF windowed
<1>5. Settled(unshaded) /\ Kept(unshaded, w)
  BY <1>4, ShadeOK, ShadeKept, KeptTransitive DEF Settled
<1> HIDE DEF unshaded
<1>6. ClientOK(c) /\ UnmanagedGeometry(c) = UnmanagedGeometry(unshaded.client)
  <2>1. /\ ClientOK(c)
        /\ c.geometry = unshaded.client.geometry
        /\ c.maximized = unshaded.client.maximized
        /\ c.restore = unshaded.client.restore
        /\ c.fullscreen = unshaded.client.fullscreen
    BY <1>1, <1>5 DEF SetPolicy, Settled, WindowOK, ClientOK, PresentationOf
  <2> HIDE DEF c
  <2> QED BY <2>1, SamePlacement
<1> HIDE DEF c
<1>7. WindowOK(changed) /\ Undisturbed(changed, unshaded)
  BY <1>5, <1>6, WithClient, ClientKept DEF Settled
<1> HIDE DEF changed
<1>8. Undisturbed(ApplyFramePolicy(changed, place), changed)
  BY <1>7, ApplyFramePolicyKept
<1>9. Kept(ApplyFramePolicy(changed, place), unshaded)
  BY <1>7, <1>8, KeptTransitive DEF Kept
<1> QED BY <1>2, <1>5, <1>9, KeptTransitive DEF role, natural

LEMMA ApplyDragGeometryKept ==
  ASSUME NEW w, WindowOK(w), w.drag # NoDrag, NEW g \in Geometries
  PROVE  HeldKept(ApplyDragGeometry(w, g), w)
<1>1. w.drag \in DragType
  BY DragGeometriesTyped
<1>2. ApplyDragGeometry(w, g).client \in {w.client, SetGeometry(w.client, g)}
  BY <1>1 DEF ApplyDragGeometry, WindowOK
<1> QED BY <1>2, SetGeometryHeld DEF HeldKept

LEMMA ResumeKept ==
  ASSUME NEW w, Settled(w), w.drag # NoDrag, NEW sync \in {"None", "Ready"}
  PROVE  HeldKept(Resume(w, sync), w)
<1> DEFINE d == [w.drag EXCEPT !.sync = sync, !.pending = NoGeometry]
           resumed == [w EXCEPT !.drag = d]
<1>1. /\ w.drag \in DragType
      /\ w.drag.pending # NoGeometry => w.drag.pending \in Geometries
  BY DragGeometriesTyped DEF Settled
<1>2. DragOK(d) /\ d # NoDrag
  BY <1>1, SentinelsAssumption DEF DragOK, DragType
<1>3. Resume(w, sync) = IF w.drag.pending = NoGeometry THEN resumed
                        ELSE ApplyDragGeometry(resumed, w.drag.pending)
  BY DEF Resume, Settled, WindowOK
<1> HIDE DEF d
<1>4. WindowOK(resumed) /\ resumed.drag = d /\ resumed.client = w.client
  BY <1>2, WithDrag DEF Settled
<1> HIDE DEF resumed
<1> QED BY <1>1, <1>2, <1>3, <1>4, ApplyDragGeometryKept DEF HeldKept

LEMMA ArrangeKept ==
  ASSUME NEW w, Settled(w), NEW place \in Places
  PROVE  Kept(Arrange(w, place), w) \/ Held(w.client) = {}
<1> DEFINE fitted == Refit(w, place)
           homed == Rehome(fitted, place)
<1>1. Settled(fitted) /\ Undisturbed(fitted, w) /\ Held(fitted.client) = Held(w.client)
  BY RefitOK, ResizedSettled, RefitKept DEF Settled
<1>2. Settled(homed) /\ (Held(w.client) # {} => homed = fitted)
  BY <1>1, RehomeOK DEF Rehome
<1>3. Arrange(w, place) \in {homed, Fullscreen(homed, TRUE, place)}
  BY DEF Arrange
<1> HIDE DEF fitted, homed
<1>4. Kept(Fullscreen(homed, TRUE, place), homed)
  BY <1>2, FullscreenKept
<1>5. CASE Held(w.client) # {}
  <2>1. Kept(homed, w)
    BY <1>1, <1>2, <1>5 DEF Kept
  <2>2. Kept(Fullscreen(homed, TRUE, place), w)
    BY <1>4, <2>1, KeptTransitive
  <2> QED BY <1>3, <2>1, <2>2
<1> QED BY <1>5

(* ---- The actions ---- *)
LEMMA KeptSuffices ==
  (Kept(window', window) \/ HeldKept(window', window)) => PlacementStep
BY DEF Kept, Undisturbed, HeldKept, PlacementStep, client, drag

LEMMA StateStepKeeps == IInv /\ StateStep => PlacementStep
<1> SUFFICES ASSUME IInv, StateStep PROVE Kept(window', window)
  BY KeptSuffices
<1>1. Settled(window) /\ WindowOK(window) /\ area \in Places
  BY DEF IInv, Settled
<1>2. ASSUME NEW shaded \in BOOLEAN, SetShadedRequest(shaded)
      PROVE  Kept(window', window)
  BY <1>1, <1>2, ShadeKept DEF SetShadedRequest
<1>3. ASSUME NEW axes \in SUBSET Axes, SetMaximizedRequest(axes)
      PROVE  Kept(window', window)
  BY <1>1, <1>3, MaximizeKept DEF SetMaximizedRequest, Kept
<1>4. ASSUME ToggleFullscreen PROVE Kept(window', window)
  BY <1>1, <1>4, FullscreenKept DEF ToggleFullscreen, IsFullscreen
<1>5. ASSUME NEW verb, NEW requested, UpdateNetWmState(verb, requested)
      PROVE  Kept(window', window)
  <2> DEFINE shaded == IF "Shaded" \in requested
                       THEN Shade(window, Wanted(verb, client.shaded)) ELSE window
             fullscreen == Wanted(verb, IsFullscreen(client))
             filled == IF "Fullscreen" \in requested /\ fullscreen # IsFullscreen(client)
                       THEN Fullscreen(shaded, fullscreen, area) ELSE shaded
             old == filled.client.maximized
             axes == {a \in Axes : IF a \in requested THEN Wanted(verb, a \in old)
                                   ELSE a \in old}
  <2>1. Wanted(verb, client.shaded) \in BOOLEAN /\ fullscreen \in BOOLEAN
    BY DEF Wanted
  <2>2. Settled(shaded) /\ Kept(shaded, window)
    BY <1>1, <2>1, ShadeOK, ShadeKept, KeptReflexive
  <2>3. window' \in {filled, Maximize(filled, axes, area)}
    BY <1>5 DEF UpdateNetWmState
  <2>4. axes \in SUBSET Axes
    OBVIOUS
  <2> HIDE DEF shaded, fullscreen, axes
  <2>5. Settled(filled) /\ Kept(filled, window)
    BY <1>1, <2>1, <2>2, FullscreenOK, FullscreenKept, KeptTransitive
  <2> HIDE DEF filled
  <2>6. Kept(Maximize(filled, axes, area), filled)
    BY <1>1, <2>4, <2>5, MaximizeKept DEF Settled, Kept
  <2> QED BY <2>3, <2>5, <2>6, KeptTransitive
<1>6. ASSUME NEW maximized \in (SUBSET Axes) \cup {Omitted},
             NEW fullscreen \in BOOLEAN \cup {Omitted},
             NEW shaded \in BOOLEAN \cup {Omitted},
             AgentApplyState(maximized, fullscreen, shaded)
      PROVE  Kept(window', window)
  <2> DEFINE sized == IF maximized = Omitted THEN window
                      ELSE Maximize(window, maximized, area)
             filled == IF fullscreen = Omitted THEN sized
                       ELSE Fullscreen(sized, fullscreen, area)
  <2>1. window' = (IF shaded = Omitted THEN filled ELSE Shade(filled, shaded))
    BY <1>6 DEF AgentApplyState
  <2>2. Settled(sized) /\ Kept(sized, window)
    <3>1. ASSUME maximized # Omitted
          PROVE  LET v == Maximize(window, maximized, area)
                 IN Settled(v) /\ Kept(v, window)
      BY <1>1, <3>1, MaximizeOK, ResizedSettled, MaximizeKept DEF Kept
    <3> QED BY <1>1, <3>1, KeptReflexive
  <2> HIDE DEF sized
  <2>3. Settled(filled) /\ Kept(filled, window)
    BY <1>1, <2>2, FullscreenOK, FullscreenKept, KeptTransitive
  <2> HIDE DEF filled
  <2>4. shaded # Omitted => Kept(Shade(filled, shaded), filled)
    BY <2>3, ShadeKept DEF Settled
  <2> QED BY <2>1, <2>3, <2>4, KeptTransitive
<1> QED BY <1>2, <1>3, <1>4, <1>5, <1>6 DEF StateStep

LEMMA PolicyStepKeeps == IInv /\ PolicyStep => PlacementStep
<1> SUFFICES ASSUME IInv, PolicyStep
             PROVE  Kept(window', window) \/ HeldKept(window', window)
  BY KeptSuffices
<1>1. Settled(window) /\ WindowOK(window) /\ area \in Places
  BY DEF IInv, Settled
<1>2. ASSUME NEW preference \in Preferences, SetDecorationOverride(preference)
      PROVE  Kept(window', window)
  BY <1>1, <1>2, PreferKept DEF SetDecorationOverride
<1>3. ASSUME ToggleDecorations PROVE Kept(window', window)
  <2>1. Toggled(client) \in Preferences
    BY <1>1 DEF Toggled, Preferences, WindowOK, PresentationOf, client
  <2> QED BY <1>1, <1>3, <2>1, PreferKept DEF ToggleDecorations
<1>4. ASSUME NEW policy \in Policies, RefreshClientPolicy(policy)
      PROVE  Kept(window', window)
  BY <1>1, <1>4, RefreshPolicyKept DEF RefreshClientPolicy
<1>5. ASSUME Reconfigure PROVE HeldKept(window', window)
  <2>1. WindowOK(CancelDrag(window)) /\ HeldKept(CancelDrag(window), window)
    BY <1>1, CancelDragOK, CancelDragKept DEF Resized
  <2>2. Undisturbed(ApplyFramePolicy(CancelDrag(window), area), CancelDrag(window))
    BY <1>1, <2>1, ApplyFramePolicyKept
  <2> QED BY <1>5, <2>1, <2>2 DEF Reconfigure, HeldKept, Undisturbed
<1> QED BY <1>2, <1>3, <1>4, <1>5 DEF PolicyStep

LEMMA GeometryStepKeeps == IInv /\ (GeometryStep \/ DragStep) => PlacementStep
<1> SUFFICES ASSUME IInv, GeometryStep \/ DragStep
             PROVE  HeldKept(window', window)
  BY KeptSuffices
<1>1. Settled(window) /\ WindowOK(window) /\ area \in Places
  BY DEF IInv, Settled
<1>2. client.geometry \in Geometries
  BY <1>1 DEF WindowOK, PresentationOf, client
<1>3. ASSUME NEW g \in FreeGeometries(area.outputs), PointerMotion(g)
      PROVE  HeldKept(window', window)
  BY <1>1, <1>3, FreeTyped, ApplyDragGeometryKept DEF PointerMotion, drag
<1>4. ASSUME NEW g \in FreeGeometries(area.outputs), NEW axes, ConfigureRequest(axes, g)
      PROVE  HeldKept(window', window)
  <2> DEFINE shown == Replace(client.geometry, axes \ Held(client), g)
  <2>1. shown \in Geometries
    BY <1>1, <1>2, FreeTyped, ReplaceTyped
  <2>2. window'.client = SetGeometry(window.client, shown)
    BY <1>1, <1>4 DEF ConfigureRequest, Configure, WindowOK, client
  <2> HIDE DEF shown
  <2> QED BY <1>1, <2>1, <2>2, SetGeometryHeld
<1>5. ASSUME NEW kind \in Drags, BeginDrag(kind)
      PROVE  HeldKept(window', window)
  <2>1. window'.client = window.client
    BY <1>1, <1>5 DEF BeginDrag, WindowOK
  <2> QED BY <2>1 DEF HeldKept
<1>6. ASSUME NEW axis \in Axes, NEW span \in FreeSpans(axis, area.outputs),
             KeyboardDrag(axis, span)
      PROVE  HeldKept(window', window)
  <2> DEFINE g == [client.geometry EXCEPT ![axis] = span]
  <2>1. g \in Geometries
    BY <1>1, <1>2, FreeTyped DEF Geometries
  <2>2. drag # NoDrag /\ window' = ApplyDragGeometry(window, g)
    BY <1>6 DEF KeyboardDrag
  <2> HIDE DEF g
  <2> QED BY <1>1, <2>1, <2>2, ApplyDragGeometryKept DEF drag
<1>7. ASSUME SyncAlarmNotify \/ SyncResizeTimeout
      PROVE  HeldKept(window', window)
  BY <1>1, <1>7, ResumeKept DEF SyncAlarmNotify, SyncResizeTimeout, drag
<1>8. ASSUME EndDrag PROVE HeldKept(window', window)
  BY <1>1, <1>8, FinishDragKept, CancelDragKept DEF EndDrag
<1> QED BY <1>3, <1>4, <1>5, <1>6, <1>7, <1>8 DEF GeometryStep, DragStep

LEMMA EnvironmentStepKeeps == IInv /\ EnvironmentStep => PlacementStep
<1> SUFFICES ASSUME IInv, EnvironmentStep
             PROVE  Kept(window', window) \/ HeldKept(window', window)
  BY KeptSuffices
<1>1. Settled(window) /\ WindowOK(window) /\ area \in Places
  BY DEF IInv, Settled
<1>2. ASSUME NEW outputs \in (SUBSET Outputs) \ {{}}, RefreshOutputs(outputs)
      PROVE  Kept(window', window) \/ HeldKept(window', window)
  <2>1. [area EXCEPT !.outputs = outputs] \in Places
    BY <1>1 DEF Places
  <2>2. window' = Arrange(window, [area EXCEPT !.outputs = outputs])
    BY <1>2 DEF RefreshOutputs
  <2> QED BY <1>1, <2>1, <2>2, ArrangeKept DEF HeldKept
<1>3. ASSUME NEW strut \in BOOLEAN, RefreshWorkArea(strut)
      PROVE  Kept(window', window)
  <2>1. [area EXCEPT !.strut = strut] \in Places
    BY <1>1 DEF Places
  <2> QED BY <1>1, <1>3, <2>1, RefitKept DEF RefreshWorkArea, Kept
<1> QED BY <1>2, <1>3 DEF EnvironmentStep

LEMMA StutterKeeps == UNCHANGED vars => PlacementStep
BY DEF vars, PlacementStep, client

\* Between any two states, on every axis that is maximized and on both while
\* the client is fullscreen, the place it will return to is the same, unless
\* the step ended a drag with a motion still waiting.
THEOREM PlacementCorrect == Spec => PlacementKept
<1>1. IInv /\ [Next]_vars => PlacementStep
  BY StateStepKeeps, PolicyStepKeeps, GeometryStepKeeps, EnvironmentStepKeeps, StutterKeeps
     DEF Next
<1> QED BY Invariance, <1>1, PTL DEF Spec, PlacementKept

(***************************************************************************)
(* What fills the screen fits it.  A client that is maximized or           *)
(* fullscreen has a role that may be, or a change of the outputs could not *)
(* fit it again; this holds in the middle of every handler, and so does    *)
(* the fit itself wherever the frame and the outputs are those in force.   *)
(***************************************************************************)
Filled(w) ==
  w.client.maximized # {} \/ IsFullscreen(w.client) => CanFill(w.client.role)

\* A client, seen with or without a frame, fits a place.
ClientFits(c, framed, place) ==
  IF IsFullscreen(c) THEN c.geometry = FullOutput(c.geometry, place.outputs)
  ELSE /\ "vertical" \in c.maximized =>
            \E o \in place.outputs :
              c.geometry["vertical"] = Span(o, Fitted, place.strut, framed)
       /\ "horizontal" \in c.maximized =>
            \A a \in c.maximized :
              c.geometry[a] = Span(OutputFor(c.geometry, place.outputs), Fitted,
                                   a = "vertical" /\ place.strut, framed)
FitsIn(w, place) == ClientFits(w.client, w.framed, place)

LEMMA FitsMeaning ==
  ASSUME WindowOK(window)
  PROVE  Fits <=> FitsIn(window, area)
BY DEF Fits, FitsIn, ClientFits, FitsVertically, Available, client, WindowOK, PresentationOf

\* The output a geometry is on is connected, and it stays on it.
LEMMA OutputForConnected ==
  ASSUME NEW g, NEW place \in Places
  PROVE  /\ OutputFor(g, place.outputs) \in place.outputs
         /\ \A h : h["horizontal"].at = OutputFor(g, place.outputs) =>
              OutputFor(h, place.outputs) = OutputFor(g, place.outputs)
<1>1. place.outputs # {}
  BY DEF Places
<1>2. (CHOOSE o \in place.outputs : TRUE) \in place.outputs
  BY <1>1
<1> QED BY <1>2 DEF OutputFor

\* Nothing but these parts of a client decides whether it fits.
LEMMA SameFit ==
  ASSUME NEW c, NEW d, NEW framed, NEW place,
         d.geometry = c.geometry, d.maximized = c.maximized,
         IsFullscreen(d) = IsFullscreen(c),
         ClientFits(c, framed, place)
  PROVE  ClientFits(d, framed, place)
BY DEF ClientFits

\* A window that nothing fills fits anywhere.
LEMMA UnheldFits ==
  ASSUME NEW c, NEW framed, NEW place, c.maximized = {}, ~IsFullscreen(c)
  PROVE  ClientFits(c, framed, place)
BY DEF ClientFits

\* A client that takes the whole output fits it.
LEMMA OutputFits ==
  ASSUME NEW c, NEW g, NEW framed, NEW place \in Places,
         IsFullscreen(c), c.geometry = FullOutput(g, place.outputs)
  PROVE  ClientFits(c, framed, place)
<1>1. c.geometry["horizontal"].at = OutputFor(g, place.outputs)
  BY DEF FullOutput, Span, Axes
<1>2. OutputFor(c.geometry, place.outputs) = OutputFor(g, place.outputs)
  BY <1>1, OutputForConnected
<1> QED BY <1>2 DEF ClientFits, FullOutput

\* Where the client is maximized to when it is not fullscreen.
LEMMA UpdateMaximizedGeometry ==
  ASSUME NEW c, ClientOK(c), NEW axes \in SUBSET Axes, NEW available \in Geometries
  PROVE  LET d == UpdateMaximized(c, axes, available)
         IN /\ d.maximized = axes
            /\ \A a \in axes : d.geometry[a] = available[a]
            /\ c.maximized = {} => \A a \in Axes \ axes : d.geometry[a] = c.geometry[a]
<1> DEFINE old == c.maximized
           saved == Replace(IF old = {} THEN c.geometry ELSE c.restore, axes \ old, c.geometry)
           restore == CASE axes = {} -> NoGeometry
                        [] axes = old -> c.restore
                        [] OTHER -> saved
           geometry == Replace(Replace(c.geometry, old \ axes, saved), axes, available)
           d == UpdateMaximized(c, axes, available)
<1>1. d.maximized = axes /\ d.geometry = geometry
  BY DEF UpdateMaximized, ClientOK, PresentationOf
<1> HIDE DEF d, saved
<1>2. \A a \in axes : geometry[a] = available[a]
  BY DEF Replace
<1>3. c.maximized = {} => \A a \in Axes \ axes : geometry[a] = c.geometry[a]
  BY DEF Replace
<1> HIDE DEF geometry
<1> QED BY <1>1, <1>2, <1>3 DEF d

LEMMA UpdateMaximizedFits ==
  ASSUME NEW w, WindowOK(w), NEW axes \in SUBSET Axes, NEW place \in Places,
         ~IsFullscreen(w.client)
  PROVE  ClientFits(UpdateMaximized(w.client, axes, Available(w, place)), w.framed, place)
<1> DEFINE d == UpdateMaximized(w.client, axes, Available(w, place))
           o == OutputFor(w.client.geometry, place.outputs)
<1>1. Available(w, place) \in Geometries
  BY AvailableTyped
<1>2. d.maximized = axes /\ \A a \in axes : d.geometry[a] = Available(w, place)[a]
  BY <1>1, UpdateMaximizedGeometry DEF WindowOK
<1>3. ~IsFullscreen(d)
  BY <1>1, UpdateMaximizedOK DEF WindowOK, IsFullscreen
<1> HIDE DEF d
<1>4. \A a \in axes :
        d.geometry[a] = Span(o, Fitted, a = "vertical" /\ place.strut, w.framed)
  BY <1>2 DEF Available
<1>5. o \in place.outputs
  BY OutputForConnected
<1>6. ASSUME "vertical" \in axes
      PROVE  d.geometry["vertical"] = Span(o, Fitted, place.strut, w.framed)
  <2>1. ("vertical" = "vertical" /\ place.strut) = place.strut
    BY DEF Places
  <2> QED BY <1>4, <1>6, <2>1
<1>7. ASSUME "horizontal" \in axes
      PROVE  OutputFor(d.geometry, place.outputs) = o
  <2>1. \A l, s, f : Span(o, l, s, f).at = o
    BY DEF Span
  <2> HIDE DEF o
  <2>2. d.geometry["horizontal"].at = o
    BY <1>4, <1>7, <2>1
  <2> QED BY <2>2, OutputForConnected DEF o
<1> HIDE DEF o
<1>8. ClientFits(d, w.framed, place)
  BY <1>2, <1>3, <1>4, <1>5, <1>6, <1>7 DEF ClientFits
<1> QED BY <1>8 DEF d

(* ---- The handlers ---- *)
\* v is filled only if it may be; if no drag was under way, none is, and v fits if w did.
StillFits(v, w, place) ==
  /\ Filled(v)
  /\ w.drag = NoDrag => v.drag = NoDrag /\ (FitsIn(w, place) => FitsIn(v, place))

LEMMA StillFitsReflexive == \A w, place : Filled(w) => StillFits(w, w, place)
BY DEF StillFits

LEMMA StillFitsTransitive ==
  ASSUME NEW u, NEW v, NEW w, NEW place, StillFits(u, v, place), StillFits(v, w, place)
  PROVE  StillFits(u, w, place)
BY DEF StillFits

LEMMA MaximizeFits ==
  ASSUME NEW w, WindowOK(w), Filled(w), NEW axes \in SUBSET Axes, NEW place \in Places
  PROVE  LET v == Maximize(w, axes, place)
         IN /\ StillFits(v, w, place)
            /\ ~IsFullscreen(w.client) /\ (axes # {} => CanFill(w.client.role)) =>
                 FitsIn(v, place)
            /\ axes = {} => v.client.maximized = {}
<1> DEFINE c == SetMaximized(w.client, axes, Available(w, place))
           v == [w EXCEPT !.client = c]
<1>1. Available(w, place) \in Geometries /\ ClientOK(w.client)
  BY AvailableTyped DEF WindowOK
<1>2. /\ ClientOK(c) /\ c.role = w.client.role
      /\ IsFullscreen(c) = IsFullscreen(w.client)
      /\ c.maximized \in {axes, w.client.maximized}
  BY <1>1, SetMaximizedOK, SetMaximizedKeeps DEF SameDress
<1>3. v.client = c /\ v.framed = w.framed /\ v.drag = w.drag
  <2> HIDE DEF c
  <2> QED BY DEF WindowOK
<1>4. CASE axes # {} /\ ~CanFill(w.client.role)
  <2>1. c = w.client
    BY <1>4 DEF SetMaximized
  <2> HIDE DEF c, v
  <2>2. StillFits(v, w, place)
    BY <1>3, <2>1 DEF StillFits, FitsIn, Filled
  <2> QED BY <1>4, <2>2 DEF Maximize, v, c
<1>5. CASE ~(axes # {} /\ ~CanFill(w.client.role)) /\ ~IsFullscreen(w.client)
  <2>1. c = UpdateMaximized(w.client, axes, Available(w, place))
    BY <1>5 DEF SetMaximized
  <2>2. ClientFits(c, w.framed, place)
    BY <1>5, <2>1, UpdateMaximizedFits
  <2>3. c.maximized = axes
    BY <1>1, <2>1, UpdateMaximizedGeometry
  <2> HIDE DEF c, v
  <2>4. StillFits(v, w, place) /\ FitsIn(v, place) /\ v.client.maximized = axes
    BY <1>2, <1>3, <1>5, <2>2, <2>3 DEF StillFits, FitsIn, Filled
  <2> QED BY <2>4 DEF Maximize, v, c
<1>6. CASE ~(axes # {} /\ ~CanFill(w.client.role)) /\ IsFullscreen(w.client)
  <2> DEFINE front == [w.client EXCEPT !.geometry = w.client.fullscreen]
             behind == UpdateMaximized(front, axes, Available(w, place))
  <2>1. ClientOK(front)
    BY <1>1, <1>6 DEF ClientOK, PresentationOf, IsFullscreen
  <2> HIDE DEF front
  <2>2. behind.maximized = axes /\ ClientOK(behind)
    BY <1>1, <2>1, UpdateMaximizedGeometry, UpdateMaximizedOK
  <2>3. c = [behind EXCEPT !.fullscreen = behind.geometry, !.geometry = w.client.geometry]
    BY <1>6 DEF SetMaximized, front
  <2> HIDE DEF behind
  <2>4. c.geometry = w.client.geometry /\ c.maximized = axes
    BY <2>2, <2>3 DEF ClientOK, PresentationOf
  <2> HIDE DEF c
  <2>5. ClientFits(w.client, w.framed, place) => ClientFits(c, w.framed, place)
    BY <1>2, <1>6, <2>4 DEF ClientFits
  <2> HIDE DEF v
  <2>6. StillFits(v, w, place) /\ v.client.maximized = axes
    BY <1>2, <1>3, <1>6, <2>4, <2>5 DEF StillFits, FitsIn, Filled
  <2> QED BY <1>6, <2>6 DEF Maximize, v, c
<1> QED BY <1>4, <1>5, <1>6

\* A window that is not fullscreen is fitted again, whatever it was fitted to.
LEMMA RefitFits ==
  ASSUME NEW w, WindowOK(w), Filled(w), NEW place \in Places
  PROVE  /\ StillFits(Refit(w, place), w, place)
         /\ ~IsFullscreen(w.client) => FitsIn(Refit(w, place), place)
<1>1. w.client.maximized \in SUBSET Axes
  BY DEF WindowOK, PresentationOf
<1>2. CASE w.client.maximized = {}
  BY <1>2, UnheldFits, StillFitsReflexive DEF Refit, FitsIn
<1>3. CASE w.client.maximized # {}
  BY <1>1, <1>3, MaximizeFits DEF Refit, Filled
<1> QED BY <1>2, <1>3

\* So is one whose frame has changed; a fullscreen one has none to fit.
LEMMA ApplyFramePolicyFits ==
  ASSUME NEW w, WindowOK(w), Filled(w), NEW place \in Places
  PROVE  LET v == ApplyFramePolicy(w, place)
         IN /\ StillFits(v, w, place)
            /\ ~IsFullscreen(w.client) => FitsIn(v, place)
            /\ v.client.maximized = w.client.maximized
            /\ IsFullscreen(v.client) = IsFullscreen(w.client)
<1> DEFINE dressed == Decorated(w.client) /\ ~IsFullscreen(w.client)
           framed == [w EXCEPT !.framed = dressed]
<1>1. dressed \in BOOLEAN
  BY DressedTyped DEF WindowOK, Dressed
<1> HIDE DEF dressed
<1>2. WindowOK(framed) /\ framed.client = w.client /\ framed.drag = w.drag
  BY <1>1, WithFrame
<1>3. ApplyFramePolicy(w, place)
        = IF IsFullscreen(w.client) THEN framed ELSE Refit(framed, place)
  BY DEF ApplyFramePolicy, dressed
<1> HIDE DEF framed
<1>4. Filled(framed)
  BY <1>2 DEF Filled
<1>5. CASE IsFullscreen(w.client)
  <2>1. StillFits(framed, w, place)
    BY <1>2, <1>4, <1>5 DEF StillFits, FitsIn, ClientFits
  <2> QED BY <1>2, <1>3, <1>5, <2>1
<1>6. CASE ~IsFullscreen(w.client)
  <2> DEFINE v == Refit(framed, place)
  <2>1. StillFits(v, framed, place) /\ FitsIn(v, place)
    BY <1>2, <1>4, <1>6, RefitFits
  <2>2. /\ IsFullscreen(v.client) = IsFullscreen(framed.client)
        /\ Held(v.client) = Held(framed.client)
    BY <1>2, RefitOK, RefitKept DEF Resized, SameDress
  <2> HIDE DEF v
  <2>3. StillFits(v, w, place)
    BY <1>2, <2>1 DEF StillFits
  <2>4. v.client.maximized = w.client.maximized
    BY <1>2, <1>6, <2>2 DEF Held
  <2> QED BY <1>2, <1>3, <1>6, <2>1, <2>2, <2>3, <2>4 DEF v
<1> QED BY <1>5, <1>6

\* A handler that changes neither the geometry nor what fills it.
LEMMA UnchangedFits ==
  ASSUME NEW w, WindowOK(w), Filled(w), NEW c, NEW place,
         c.geometry = w.client.geometry, c.maximized = w.client.maximized,
         IsFullscreen(c) = IsFullscreen(w.client), c.role = w.client.role
  PROVE  StillFits([w EXCEPT !.client = c], w, place)
<1> DEFINE v == [w EXCEPT !.client = c]
<1>1. v.client = c /\ v.framed = w.framed /\ v.drag = w.drag
  BY DEF WindowOK
<1> HIDE DEF v
<1>2. FitsIn(w, place) => FitsIn(v, place)
  BY <1>1, SameFit DEF FitsIn
<1> QED BY <1>1, <1>2 DEF StillFits, Filled, v

\* Setting a geometry leaves what fills the client to be filled.
LEMMA SetGeometryFilled ==
  ASSUME NEW w, WindowOK(w), Filled(w), NEW g \in Geometries, NEW v,
         v.client = SetGeometry(w.client, g)
  PROVE  Filled(v)
<1>1. SameDress(v.client, w.client)
  BY SetGeometryOK DEF WindowOK
<1>2. v.client.maximized = w.client.maximized
  BY DEF SetGeometry, WindowOK, PresentationOf
<1> QED BY <1>1, <1>2 DEF Filled, SameDress

LEMMA FinishDragFits ==
  ASSUME NEW w, WindowOK(w), Filled(w)
  PROVE  /\ Filled(FinishDrag(w)) /\ Filled(CancelDrag(w))
         /\ w.drag = NoDrag => FinishDrag(w) = w /\ CancelDrag(w) = w
         /\ FinishDrag(w).drag = NoDrag
<1>1. CASE w.drag = NoDrag
  BY <1>1 DEF FinishDrag, CancelDrag
<1>2. CASE w.drag # NoDrag
  <2>1. CancelDrag(w).client = SetGeometry(w.client, w.drag.initial)
    BY <1>2 DEF CancelDrag, WindowOK
  <2>2. Filled(CancelDrag(w))
    BY <1>2, <2>1, DragGeometriesTyped, SetGeometryFilled
  <2>3. /\ FinishDrag(w).drag = NoDrag
        /\ FinishDrag(w).client = IF w.drag.pending = NoGeometry THEN w.client
                                  ELSE SetGeometry(w.client, w.drag.pending)
    BY <1>2 DEF FinishDrag, WindowOK
  <2>4. Filled(FinishDrag(w))
    <3>1. CASE w.drag.pending = NoGeometry
      BY <2>3, <3>1 DEF Filled
    <3>2. CASE w.drag.pending # NoGeometry
      BY <1>2, <2>3, <3>2, DragGeometriesTyped, SetGeometryFilled
    <3> QED BY <3>1, <3>2
  <2> QED BY <1>2, <2>2, <2>3, <2>4
<1> QED BY <1>1, <1>2

LEMMA ShadeFits ==
  ASSUME NEW w, Settled(w), Filled(w), NEW shaded \in BOOLEAN, NEW place
  PROVE  LET v == Shade(w, shaded)
         IN /\ StillFits(v, w, place)
            /\ v.client.maximized = w.client.maximized
            /\ IsFullscreen(v.client) = IsFullscreen(w.client)
            /\ v.client.role = w.client.role
<1> DEFINE ended == FinishDrag(w)
           c == SetShaded(ended.client, shaded)
           v == [ended EXCEPT !.client = c]
<1>1. /\ WindowOK(ended) /\ SameDress(ended.client, w.client)
      /\ Filled(ended) /\ ended.drag = NoDrag /\ (w.drag = NoDrag => ended = w)
  BY FinishDragOK, FinishDragFits DEF Settled, Resized
<1>2. ended.client.maximized = w.client.maximized
  BY DEF FinishDrag, SetGeometry, Settled, WindowOK, PresentationOf
<1>3. Shade(w, shaded) \in {w, v}
  BY DEF Shade
<1> HIDE DEF ended
<1>4. /\ c.geometry = ended.client.geometry /\ c.maximized = ended.client.maximized
      /\ c.fullscreen = ended.client.fullscreen /\ c.role = ended.client.role
  BY <1>1 DEF SetShaded, WindowOK, PresentationOf
<1> HIDE DEF c
<1>5. StillFits(v, ended, place) /\ v.client = c
  BY <1>1, <1>4, UnchangedFits DEF IsFullscreen, WindowOK
<1> HIDE DEF v
<1>6. /\ StillFits(v, w, place) /\ v.client.maximized = w.client.maximized
      /\ IsFullscreen(v.client) = IsFullscreen(w.client) /\ v.client.role = w.client.role
  BY <1>1, <1>2, <1>4, <1>5 DEF StillFits, SameDress, IsFullscreen
<1> QED BY <1>3, <1>6, StillFitsReflexive

LEMMA SwitchFullscreenFits ==
  ASSUME NEW w, WindowOK(w), Filled(w), NEW fullscreen \in BOOLEAN, NEW place \in Places
  PROVE  LET v == SwitchFullscreen(w, fullscreen, place)
         IN /\ StillFits(v, w, place)
            /\ fullscreen /\ CanFill(w.client.role) => FitsIn(v, place) /\ IsFullscreen(v.client)
            /\ ~fullscreen => ~IsFullscreen(v.client)
            /\ v.client.maximized = w.client.maximized
<1> DEFINE output == FullOutput(w.client.geometry, place.outputs)
           c == SetFullscreen(w.client, fullscreen, output)
           switched == [w EXCEPT !.client = c]
           v == IF IsFullscreen(switched.client) = IsFullscreen(w.client) THEN switched
                ELSE ApplyFramePolicy(switched, place)
<1>1. output \in Geometries /\ ClientOK(w.client) /\ w.client.geometry \in Geometries
  BY FullOutputTyped DEF WindowOK, PresentationOf
<1> HIDE DEF output
<1>2. /\ ClientOK(c) /\ c.role = w.client.role /\ c.maximized = w.client.maximized
      /\ fullscreen /\ CanFill(w.client.role) => IsFullscreen(c) /\ c.geometry = output
      /\ ~fullscreen => ~IsFullscreen(c)
      /\ fullscreen /\ ~CanFill(w.client.role) => c = w.client
      /\ ~fullscreen /\ ~IsFullscreen(w.client) => c = w.client
  BY <1>1, SetFullscreenOK, SentinelsAssumption
     DEF SetFullscreen, ClientOK, PresentationOf, IsFullscreen
<1> HIDE DEF c
<1>3. WindowOK(switched) /\ switched.client = c /\ switched.drag = w.drag
      /\ switched.framed = w.framed
  BY <1>2, WithClient
<1>4. SwitchFullscreen(w, fullscreen, place) = v
  BY DEF SwitchFullscreen, c, output
<1> HIDE DEF switched
<1>5. Filled(switched)
  BY <1>2, <1>3 DEF Filled
<1>6. CASE c = w.client
  <2>1. StillFits(switched, w, place)
    BY <1>3, <1>5, <1>6 DEF StillFits, FitsIn
  <2>2. ~(fullscreen /\ CanFill(w.client.role)) \/ FitsIn(switched, place)
    BY <1>2, <1>3, OutputFits DEF FitsIn, output
  <2> QED BY <1>2, <1>3, <1>4, <1>6, <2>1, <2>2
<1>7. CASE fullscreen /\ CanFill(w.client.role)
  <2>1. FitsIn(switched, place) /\ IsFullscreen(switched.client)
    BY <1>2, <1>3, <1>7, OutputFits DEF FitsIn, output
  <2>2. /\ StillFits(ApplyFramePolicy(switched, place), switched, place)
        /\ FitsIn(ApplyFramePolicy(switched, place), place)
        /\ ApplyFramePolicy(switched, place).client.maximized = c.maximized
        /\ IsFullscreen(ApplyFramePolicy(switched, place).client)
    <3>1. FitsIn(ApplyFramePolicy(switched, place), place)
      <4>1. \E b : ApplyFramePolicy(switched, place) = [switched EXCEPT !.framed = b]
        BY <2>1 DEF ApplyFramePolicy
      <4>2. ApplyFramePolicy(switched, place).client = switched.client
        BY <1>3, <4>1 DEF WindowOK
      <4> QED BY <2>1, <4>2 DEF FitsIn, ClientFits
    <3> QED BY <1>3, <1>5, <2>1, <3>1, ApplyFramePolicyFits
  <2> QED BY <1>2, <1>3, <1>4, <1>5, <1>7, <2>1, <2>2 DEF StillFits
<1>8. CASE ~fullscreen /\ IsFullscreen(w.client)
  <2>1. v = ApplyFramePolicy(switched, place)
    BY <1>2, <1>3, <1>8
  <2>2. /\ StillFits(ApplyFramePolicy(switched, place), switched, place)
        /\ FitsIn(ApplyFramePolicy(switched, place), place)
        /\ ApplyFramePolicy(switched, place).client.maximized = c.maximized
        /\ ~IsFullscreen(ApplyFramePolicy(switched, place).client)
    BY <1>2, <1>3, <1>5, <1>8, ApplyFramePolicyFits
  <2> QED BY <1>2, <1>3, <1>4, <1>8, <2>1, <2>2 DEF StillFits
<1> QED BY <1>2, <1>6, <1>7, <1>8

LEMMA FullscreenFits ==
  ASSUME NEW w, Settled(w), Filled(w), NEW fullscreen \in BOOLEAN, NEW place \in Places
  PROVE  LET v == Fullscreen(w, fullscreen, place)
         IN /\ StillFits(v, w, place)
            /\ fullscreen /\ CanFill(w.client.role) => FitsIn(v, place)
            /\ ~fullscreen => ~IsFullscreen(v.client)
            /\ v.client.maximized = w.client.maximized
<1> DEFINE bare == IF fullscreen THEN Shade(w, FALSE) ELSE w
           v == SwitchFullscreen(bare, fullscreen, place)
<1>1. /\ WindowOK(bare) /\ StillFits(bare, w, place)
      /\ bare.client.maximized = w.client.maximized /\ bare.client.role = w.client.role
  BY ShadeOK, ShadeFits, StillFitsReflexive DEF Settled
<1>2. Fullscreen(w, fullscreen, place) = v
  BY DEF Fullscreen
<1> HIDE DEF bare
<1>3. /\ StillFits(v, bare, place)
      /\ fullscreen /\ CanFill(bare.client.role) => FitsIn(v, place)
      /\ ~fullscreen => ~IsFullscreen(v.client)
      /\ v.client.maximized = bare.client.maximized
  BY <1>1, SwitchFullscreenFits DEF StillFits
<1> HIDE DEF v
<1>4. StillFits(v, w, place)
  BY <1>1, <1>3, StillFitsTransitive
<1> QED BY <1>1, <1>2, <1>3, <1>4

LEMMA PreferFits ==
  ASSUME NEW w, Settled(w), Filled(w), NEW preference \in Preferences, NEW place \in Places
  PROVE  StillFits(Prefer(w, preference, place), w, place)
<1> DEFINE bare == Shade(w, FALSE)
           c == [bare.client EXCEPT !.preference = preference]
           preferred == [bare EXCEPT !.client = c]
<1>1. WindowOK(bare) /\ StillFits(bare, w, place)
  BY ShadeOK, ShadeFits DEF Settled
<1>2. Prefer(w, preference, place) \in {w, ApplyFramePolicy(preferred, place)}
  BY <1>1 DEF Prefer, WindowOK
<1> HIDE DEF bare
<1>3. /\ ClientOK(c) /\ c.geometry = bare.client.geometry
      /\ c.maximized = bare.client.maximized /\ c.role = bare.client.role
      /\ IsFullscreen(c) = IsFullscreen(bare.client)
  BY <1>1 DEF WindowOK, ClientOK, PresentationOf, IsFullscreen
<1> HIDE DEF c
<1>4. WindowOK(preferred) /\ StillFits(preferred, bare, place)
  BY <1>1, <1>3, WithClient, UnchangedFits DEF StillFits
<1> HIDE DEF preferred
<1>5. StillFits(ApplyFramePolicy(preferred, place), preferred, place)
  BY <1>4, ApplyFramePolicyFits DEF StillFits
<1> QED BY <1>1, <1>2, <1>4, <1>5, StillFitsReflexive, StillFitsTransitive

\* What the new policy does not allow is given up before it is in force.
LEMMA RefreshPolicyFits ==
  ASSUME NEW w, Settled(w), Filled(w), NEW policy \in Policies, NEW place \in Places
  PROVE  StillFits(RefreshPolicy(w, policy.role, policy.natural, place), w, place)
<1> DEFINE role == policy.role
           natural == policy.natural
           unmaximized == IF ~CanFill(role) THEN Maximize(w, {}, place) ELSE w
           windowed == IF ~CanFill(role) THEN Fullscreen(unmaximized, FALSE, place)
                       ELSE unmaximized
           unshaded == IF ~natural THEN Shade(windowed, FALSE) ELSE windowed
           c == SetPolicy(unshaded.client, role, natural)
           changed == [unshaded EXCEPT !.client = c]
<1>1. role \in Roles /\ natural \in BOOLEAN /\ (natural => CanDecorate(role))
  BY PoliciesAssumption
<1>2. RefreshPolicy(w, role, natural, place) \in {unshaded, ApplyFramePolicy(changed, place)}
  BY DEF RefreshPolicy
<1> HIDE DEF role, natural
<1>3. /\ Settled(unmaximized) /\ StillFits(unmaximized, w, place)
      /\ ~CanFill(role) => unmaximized.client.maximized = {}
  BY MaximizeOK, ResizedSettled, MaximizeFits, StillFitsReflexive DEF Settled
<1> HIDE DEF unmaximized
<1>4. /\ Settled(windowed) /\ StillFits(windowed, w, place)
      /\ ~CanFill(role) => windowed.client.maximized = {} /\ ~IsFullscreen(windowed.client)
  <2>1. Filled(unmaximized)
    BY <1>3 DEF StillFits
  <2>2. CASE CanFill(role)
    BY <1>3, <2>2
  <2>3. CASE ~CanFill(role)
    <3> DEFINE v == Fullscreen(unmaximized, FALSE, place)
    <3>1. /\ Settled(v) /\ StillFits(v, unmaximized, place)
          /\ ~IsFullscreen(v.client) /\ v.client.maximized = {}
      BY <1>3, <2>1, <2>3, FullscreenOK, FullscreenFits
    <3> HIDE DEF v
    <3>2. StillFits(v, w, place)
      BY <1>3, <3>1, StillFitsTransitive
    <3> QED BY <2>3, <3>1, <3>2 DEF v
  <2> QED BY <2>2, <2>3
<1> HIDE DEF windowed
<1>5. /\ Settled(unshaded) /\ StillFits(unshaded, w, place)
      /\ ~CanFill(role) => unshaded.client.maximized = {} /\ ~IsFullscreen(unshaded.client)
  <2>1. Filled(windowed)
    BY <1>4 DEF StillFits
  <2>2. Shade(windowed, FALSE) \in {unshaded} \/ unshaded = windowed
    OBVIOUS
  <2>3. LET v == Shade(windowed, FALSE)
        IN /\ Settled(v) /\ StillFits(v, windowed, place)
           /\ v.client.maximized = windowed.client.maximized
           /\ IsFullscreen(v.client) = IsFullscreen(windowed.client)
    BY <1>4, <2>1, ShadeOK, ShadeFits
  <2>4. StillFits(Shade(windowed, FALSE), w, place)
    BY <1>4, <2>3, StillFitsTransitive
  <2> QED BY <1>4, <2>3, <2>4
<1> HIDE DEF unshaded
<1>6. /\ ClientOK(c) /\ c.role = role /\ c.geometry = unshaded.client.geometry
      /\ c.maximized = unshaded.client.maximized
      /\ IsFullscreen(c) = IsFullscreen(unshaded.client)
  BY <1>1, <1>5 DEF SetPolicy, Settled, WindowOK, ClientOK, PresentationOf, IsFullscreen
<1> HIDE DEF c
<1>7. /\ WindowOK(changed) /\ changed.client = c
      /\ changed.framed = unshaded.framed /\ changed.drag = unshaded.drag
  BY <1>5, <1>6, WithClient DEF Settled
<1> HIDE DEF changed
<1>8. StillFits(changed, unshaded, place)
  <2>1. Filled(changed)
    BY <1>5, <1>6, <1>7 DEF Filled
  <2>2. FitsIn(unshaded, place) => FitsIn(changed, place)
    BY <1>6, <1>7, SameFit DEF FitsIn
  <2> QED BY <1>7, <2>1, <2>2 DEF StillFits
<1>9. StillFits(ApplyFramePolicy(changed, place), changed, place)
  BY <1>7, <1>8, ApplyFramePolicyFits DEF StillFits
<1> QED BY <1>2, <1>5, <1>8, <1>9, StillFitsTransitive DEF role, natural

\* The axes that are held keep what they show.
LEMMA ConfigureFits ==
  ASSUME NEW w, WindowOK(w), Filled(w), NEW axes, NEW g \in Geometries, NEW place \in Places
  PROVE  StillFits(Configure(w, axes, g), w, place)
<1> DEFINE shown == Replace(w.client.geometry, axes \ Held(w.client), g)
           c == SetGeometry(w.client, shown)
           v == [w EXCEPT !.client = c]
<1>1. /\ shown \in Geometries /\ w.client.geometry \in Geometries
      /\ \A a \in Held(w.client) \cap Axes : shown[a] = w.client.geometry[a]
  BY ReplaceTyped DEF WindowOK, PresentationOf, Replace
<1>2. Configure(w, axes, g) = v
  BY DEF Configure, WindowOK
<1>3. c.geometry = shown /\ c.maximized = w.client.maximized /\ c.fullscreen = w.client.fullscreen
  BY DEF SetGeometry, WindowOK, PresentationOf
<1>4. v.client = c /\ v.framed = w.framed /\ v.drag = w.drag
  <2> HIDE DEF c
  <2> QED BY DEF WindowOK
<1> HIDE DEF v
<1>5. Filled(v)
  BY <1>1, <1>4, SetGeometryFilled
<1> HIDE DEF c
<1>6. IsFullscreen(c) = IsFullscreen(w.client)
  BY <1>3 DEF IsFullscreen
<1>7. CASE IsFullscreen(w.client)
  <2>1. shown = w.client.geometry
    BY <1>1, <1>7, GeometriesEqual DEF Held
  <2>2. FitsIn(w, place) => FitsIn(v, place)
    BY <1>3, <1>4, <1>6, <2>1, SameFit DEF FitsIn
  <2> QED BY <1>2, <1>4, <1>5, <2>2 DEF StillFits
<1>8. CASE ~IsFullscreen(w.client)
  <2>1. w.client.maximized \subseteq Axes
    BY DEF WindowOK, PresentationOf
  <2>2. \A a \in w.client.maximized : shown[a] = w.client.geometry[a]
    BY <1>1, <1>8, <2>1 DEF Held
  <2> HIDE DEF shown
  <2>3. "horizontal" \in w.client.maximized =>
          OutputFor(shown, place.outputs) = OutputFor(w.client.geometry, place.outputs)
    BY <2>2 DEF OutputFor
  <2>4. FitsIn(w, place) => FitsIn(v, place)
    BY <1>3, <1>4, <1>6, <1>8, <2>2, <2>3 DEF FitsIn, ClientFits
  <2> QED BY <1>2, <1>4, <1>5, <2>4 DEF StillFits
<1> QED BY <1>7, <1>8

\* Drags leave what fills the client to be filled.
LEMMA ApplyDragGeometryFilled ==
  ASSUME NEW w, WindowOK(w), Filled(w), w.drag # NoDrag, NEW g \in Geometries
  PROVE  Filled(ApplyDragGeometry(w, g))
<1>1. w.drag \in DragType
  BY DragGeometriesTyped
<1>2. ApplyDragGeometry(w, g).client \in {w.client, SetGeometry(w.client, g)}
  BY <1>1 DEF ApplyDragGeometry, WindowOK
<1>3. CASE ApplyDragGeometry(w, g).client = w.client
  BY <1>3 DEF Filled
<1>4. CASE ApplyDragGeometry(w, g).client = SetGeometry(w.client, g)
  BY <1>4, SetGeometryFilled
<1> QED BY <1>2, <1>3, <1>4

LEMMA ResumeFilled ==
  ASSUME NEW w, WindowOK(w), Filled(w), w.drag # NoDrag, NEW sync \in {"None", "Ready"}
  PROVE  Filled(Resume(w, sync))
<1> DEFINE d == [w.drag EXCEPT !.sync = sync, !.pending = NoGeometry]
           resumed == [w EXCEPT !.drag = d]
<1>1. /\ w.drag \in DragType
      /\ w.drag.pending # NoGeometry => w.drag.pending \in Geometries
  BY DragGeometriesTyped
<1>2. DragOK(d) /\ d # NoDrag
  BY <1>1, SentinelsAssumption DEF DragOK, DragType
<1>3. Resume(w, sync) = IF w.drag.pending = NoGeometry THEN resumed
                        ELSE ApplyDragGeometry(resumed, w.drag.pending)
  BY DEF Resume, WindowOK
<1> HIDE DEF d
<1>4. WindowOK(resumed) /\ resumed.drag = d /\ resumed.client = w.client
  BY <1>2, WithDrag
<1> HIDE DEF resumed
<1>5. Filled(resumed)
  BY <1>4 DEF Filled
<1> QED BY <1>1, <1>2, <1>3, <1>4, <1>5, ApplyDragGeometryFilled

\* Once the outputs have changed, whatever fills the screen is fitted to them.
LEMMA ArrangeFits ==
  ASSUME NEW w, Settled(w), Filled(w), NEW place \in Places
  PROVE  LET v == Arrange(w, place)
         IN Filled(v) /\ (w.drag = NoDrag => v.drag = NoDrag /\ FitsIn(v, place))
<1> DEFINE fitted == Refit(w, place)
           g == fitted.client.geometry
           home == [g EXCEPT !["horizontal"].at = OutputFor(g, place.outputs)]
           homed == Rehome(fitted, place)
<1>1. /\ Settled(fitted) /\ StillFits(fitted, w, place)
      /\ IsFullscreen(fitted.client) = IsFullscreen(w.client)
      /\ ~IsFullscreen(w.client) => FitsIn(fitted, place)
  BY RefitOK, ResizedSettled, RefitFits DEF Settled, Resized, SameDress
<1> HIDE DEF fitted
<1>2. homed = IF Held(fitted.client) # {} THEN fitted
              ELSE [fitted EXCEPT !.client = SetGeometry(@, home)]
  BY DEF Rehome
<1>3. home \in Geometries
  <2>1. g \in Geometries
    BY <1>1 DEF Settled, WindowOK, PresentationOf
  <2>2. OutputFor(g, place.outputs) \in Outputs
    BY <2>1, OutputForTyped
  <2> QED BY <2>1, <2>2 DEF Geometries, Spans, Axes
<1> HIDE DEF home
<1>4. Settled(homed)
  BY <1>1, RehomeOK
<1>5. /\ Filled(homed) /\ (fitted.drag = NoDrag => homed.drag = NoDrag)
      /\ ~IsFullscreen(homed.client) => (~IsFullscreen(w.client) /\
             (FitsIn(fitted, place) => FitsIn(homed, place)))
  <2>1. CASE Held(fitted.client) # {}
    BY <1>1, <1>2, <2>1 DEF StillFits
  <2>2. CASE Held(fitted.client) = {}
    <3> DEFINE c == SetGeometry(fitted.client, home)
    <3>1. homed.client = c /\ homed.drag = fitted.drag
      BY <1>1, <1>2, <2>2 DEF Settled, WindowOK
    <3>2. Filled(homed)
      BY <1>1, <1>3, <3>1, SetGeometryFilled DEF StillFits, Settled
    <3>3. c.maximized = fitted.client.maximized /\ c.fullscreen = fitted.client.fullscreen
      BY <1>1 DEF SetGeometry, Settled, WindowOK, PresentationOf
    <3>4. ~IsFullscreen(fitted.client) /\ fitted.client.maximized = {}
      BY <2>2 DEF Held, Axes
    <3> HIDE DEF c
    <3>5. FitsIn(homed, place)
      BY <3>1, <3>3, <3>4, UnheldFits DEF FitsIn, IsFullscreen
    <3> QED BY <1>1, <3>1, <3>2, <3>4, <3>5
  <2> QED BY <2>1, <2>2
<1> HIDE DEF homed
<1>6. Arrange(w, place) = IF IsFullscreen(homed.client) THEN Fullscreen(homed, TRUE, place)
                          ELSE homed
  BY DEF Arrange, homed, fitted
<1>7. CASE IsFullscreen(homed.client)
  <2>1. CanFill(homed.client.role)
    BY <1>5, <1>7 DEF Filled
  <2>2. StillFits(Fullscreen(homed, TRUE, place), homed, place)
        /\ FitsIn(Fullscreen(homed, TRUE, place), place)
    BY <1>4, <1>5, <2>1, FullscreenFits
  <2> QED BY <1>1, <1>5, <1>6, <1>7, <2>2 DEF StillFits
<1>8. CASE ~IsFullscreen(homed.client)
  BY <1>1, <1>5, <1>6, <1>8 DEF StillFits
<1> QED BY <1>7, <1>8

LEMMA ManageFilled ==
  ASSUME NEW g \in Geometries, NEW policy \in Policies, NEW preference \in Preferences,
         NEW shaded \in BOOLEAN, NEW axes \in SUBSET Axes, NEW fullscreen \in BOOLEAN,
         NEW place \in Places
  PROVE  Filled(Manage(NewWindow(g, policy, preference), shaded, axes, fullscreen, place))
<1> DEFINE w == NewWindow(g, policy, preference)
           drawn == IF shaded /\ ~fullscreen THEN Shade(w, TRUE) ELSE w
           filled == IF axes # {} THEN Maximize(drawn, axes, place) ELSE drawn
<1>1. Settled(w)
  BY NewWindowOK
<1>2. Filled(w)
  BY DEF NewWindow, Filled, IsFullscreen
<1> HIDE DEF w
<1>3. Settled(drawn) /\ Filled(drawn)
  BY <1>1, <1>2, ShadeOK, ShadeFits DEF StillFits
<1> HIDE DEF drawn
<1>4. Settled(filled) /\ Filled(filled)
  BY <1>3, MaximizeOK, ResizedSettled, MaximizeFits DEF Settled, StillFits
<1> HIDE DEF filled
<1>5. fullscreen => Filled(Fullscreen(filled, TRUE, place))
  BY <1>4, FullscreenFits DEF StillFits
<1> QED BY <1>4, <1>5 DEF Manage, filled, drawn, w

(* ---- The actions ---- *)
FilledInv == IInv /\ Filled(window)

\* What an action does to the fit: what was filled may be, and, if no drag was under
\* way, what fitted still does.
FitStep ==
  Filled(window') /\ (window.drag = NoDrag => (FitsIn(window, area) => FitsIn(window', area')))

LEMMA StillFitsSuffices ==
  ASSUME StillFits(window', window, area), area' = area
  PROVE  FitStep
BY DEF StillFits, FitStep

LEMMA StateStepFits == FilledInv /\ StateStep => FitStep
<1> SUFFICES ASSUME FilledInv, StateStep
             PROVE  StillFits(window', window, area) /\ area' = area
  BY StillFitsSuffices
<1>1. Settled(window) /\ WindowOK(window) /\ area \in Places /\ Filled(window)
  BY DEF FilledInv, IInv, Settled
<1>2. ASSUME NEW shaded \in BOOLEAN, SetShadedRequest(shaded)
      PROVE  StillFits(window', window, area) /\ area' = area
  BY <1>1, <1>2, ShadeFits DEF SetShadedRequest
<1>3. ASSUME NEW axes \in SUBSET Axes, SetMaximizedRequest(axes)
      PROVE  StillFits(window', window, area) /\ area' = area
  BY <1>1, <1>3, MaximizeFits DEF SetMaximizedRequest
<1>4. ASSUME ToggleFullscreen
      PROVE  StillFits(window', window, area) /\ area' = area
  BY <1>1, <1>4, FullscreenFits DEF ToggleFullscreen, IsFullscreen
<1>5. ASSUME NEW verb, NEW requested, UpdateNetWmState(verb, requested)
      PROVE  StillFits(window', window, area) /\ area' = area
  <2> DEFINE shaded == IF "Shaded" \in requested
                       THEN Shade(window, Wanted(verb, client.shaded)) ELSE window
             fullscreen == Wanted(verb, IsFullscreen(client))
             filled == IF "Fullscreen" \in requested /\ fullscreen # IsFullscreen(client)
                       THEN Fullscreen(shaded, fullscreen, area) ELSE shaded
             old == filled.client.maximized
             axes == {a \in Axes : IF a \in requested THEN Wanted(verb, a \in old)
                                   ELSE a \in old}
  <2>1. Wanted(verb, client.shaded) \in BOOLEAN /\ fullscreen \in BOOLEAN
    BY DEF Wanted
  <2>2. Settled(shaded) /\ StillFits(shaded, window, area)
    BY <1>1, <2>1, ShadeOK, ShadeFits, StillFitsReflexive
  <2>3. window' \in {filled, Maximize(filled, axes, area)} /\ area' = area
    BY <1>5 DEF UpdateNetWmState
  <2>4. axes \in SUBSET Axes
    OBVIOUS
  <2> HIDE DEF shaded, fullscreen, axes
  <2>5. Settled(filled) /\ StillFits(filled, window, area)
    <3> DEFINE v == Fullscreen(shaded, fullscreen, area)
    <3>1. Filled(shaded)
      BY <2>2 DEF StillFits
    <3>2. Settled(v) /\ StillFits(v, shaded, area)
      BY <1>1, <2>1, <2>2, <3>1, FullscreenOK, FullscreenFits
    <3> HIDE DEF v
    <3>3. StillFits(v, window, area)
      BY <2>2, <3>2, StillFitsTransitive
    <3> QED BY <2>2, <3>2, <3>3 DEF v
  <2> HIDE DEF filled
  <2>6. StillFits(Maximize(filled, axes, area), filled, area)
    BY <1>1, <2>4, <2>5, MaximizeFits DEF Settled, StillFits
  <2> QED BY <2>3, <2>5, <2>6, StillFitsTransitive
<1>6. ASSUME NEW maximized \in (SUBSET Axes) \cup {Omitted},
             NEW fullscreen \in BOOLEAN \cup {Omitted},
             NEW shaded \in BOOLEAN \cup {Omitted},
             AgentApplyState(maximized, fullscreen, shaded)
      PROVE  StillFits(window', window, area) /\ area' = area
  <2> DEFINE sized == IF maximized = Omitted THEN window
                      ELSE Maximize(window, maximized, area)
             filled == IF fullscreen = Omitted THEN sized
                       ELSE Fullscreen(sized, fullscreen, area)
  <2>1. window' = (IF shaded = Omitted THEN filled ELSE Shade(filled, shaded))
        /\ area' = area
    BY <1>6 DEF AgentApplyState
  <2>2. Settled(sized) /\ StillFits(sized, window, area)
    <3>1. ASSUME maximized # Omitted
          PROVE  LET v == Maximize(window, maximized, area)
                 IN Settled(v) /\ StillFits(v, window, area)
      BY <1>1, <3>1, MaximizeOK, ResizedSettled, MaximizeFits
    <3> QED BY <1>1, <3>1, StillFitsReflexive
  <2> HIDE DEF sized
  <2>3. Settled(filled) /\ StillFits(filled, window, area)
    <3>1. ASSUME fullscreen # Omitted
          PROVE  LET v == Fullscreen(sized, fullscreen, area)
                 IN Settled(v) /\ StillFits(v, sized, area)
      BY <1>1, <2>2, <3>1, FullscreenOK, FullscreenFits DEF StillFits
    <3> QED BY <2>2, <3>1, StillFitsTransitive
  <2> HIDE DEF filled
  <2>4. shaded # Omitted => StillFits(Shade(filled, shaded), filled, area)
    BY <2>3, ShadeFits DEF StillFits
  <2> QED BY <2>1, <2>3, <2>4, StillFitsTransitive
<1> QED BY <1>2, <1>3, <1>4, <1>5, <1>6 DEF StateStep

LEMMA PolicyStepFits == FilledInv /\ PolicyStep => FitStep
<1> SUFFICES ASSUME FilledInv, PolicyStep
             PROVE  StillFits(window', window, area) /\ area' = area
  BY StillFitsSuffices
<1>1. Settled(window) /\ WindowOK(window) /\ area \in Places /\ Filled(window)
  BY DEF FilledInv, IInv, Settled
<1>2. ASSUME NEW preference \in Preferences, SetDecorationOverride(preference)
      PROVE  StillFits(window', window, area) /\ area' = area
  BY <1>1, <1>2, PreferFits DEF SetDecorationOverride
<1>3. ASSUME ToggleDecorations
      PROVE  StillFits(window', window, area) /\ area' = area
  <2>1. Toggled(client) \in Preferences
    BY <1>1 DEF Toggled, Preferences, WindowOK, PresentationOf, client
  <2> QED BY <1>1, <1>3, <2>1, PreferFits DEF ToggleDecorations
<1>4. ASSUME NEW policy \in Policies, RefreshClientPolicy(policy)
      PROVE  StillFits(window', window, area) /\ area' = area
  BY <1>1, <1>4, RefreshPolicyFits DEF RefreshClientPolicy
<1>5. ASSUME Reconfigure
      PROVE  StillFits(window', window, area) /\ area' = area
  <2> DEFINE v == CancelDrag(window)
  <2>1. WindowOK(v) /\ Filled(v) /\ (window.drag = NoDrag => v = window)
    BY <1>1, CancelDragOK, FinishDragFits DEF Resized
  <2> HIDE DEF v
  <2>2. StillFits(ApplyFramePolicy(v, area), v, area)
    BY <1>1, <2>1, ApplyFramePolicyFits
  <2> QED BY <1>5, <2>1, <2>2 DEF Reconfigure, StillFits, v
<1> QED BY <1>2, <1>3, <1>4, <1>5 DEF PolicyStep

LEMMA GeometryStepFits == FilledInv /\ (GeometryStep \/ DragStep) => FitStep
<1> SUFFICES ASSUME FilledInv, GeometryStep \/ DragStep
             PROVE  FitStep
  OBVIOUS
<1>1. Settled(window) /\ WindowOK(window) /\ area \in Places /\ Filled(window)
  BY DEF FilledInv, IInv, Settled
<1>2. client.geometry \in Geometries
  BY <1>1 DEF WindowOK, PresentationOf, client
<1>3. ASSUME NEW g \in FreeGeometries(area.outputs), PointerMotion(g)
      PROVE  FitStep
  BY <1>1, <1>3, FreeTyped, ApplyDragGeometryFilled DEF PointerMotion, drag, FitStep
<1>4. ASSUME NEW g \in FreeGeometries(area.outputs), NEW axes, ConfigureRequest(axes, g)
      PROVE  FitStep
  <2>1. g \in Geometries
    BY <1>1, FreeTyped
  <2> QED BY <1>1, <1>4, <2>1, ConfigureFits, StillFitsSuffices DEF ConfigureRequest
<1>5. ASSUME NEW kind \in Drags, BeginDrag(kind)
      PROVE  FitStep
  <2>1. window'.client = window.client /\ window'.framed = window.framed /\ area' = area
    BY <1>1, <1>5 DEF BeginDrag, WindowOK
  <2> QED BY <1>1, <2>1 DEF FitStep, FitsIn, Filled
<1>6. ASSUME NEW axis \in Axes, NEW span \in FreeSpans(axis, area.outputs),
             KeyboardDrag(axis, span)
      PROVE  FitStep
  <2> DEFINE g == [client.geometry EXCEPT ![axis] = span]
  <2>1. g \in Geometries
    BY <1>1, <1>2, FreeTyped DEF Geometries
  <2>2. drag # NoDrag /\ window' = ApplyDragGeometry(window, g)
    BY <1>6 DEF KeyboardDrag
  <2> HIDE DEF g
  <2> QED BY <1>1, <2>1, <2>2, ApplyDragGeometryFilled DEF drag, FitStep
<1>7. ASSUME SyncAlarmNotify \/ SyncResizeTimeout
      PROVE  FitStep
  BY <1>1, <1>7, ResumeFilled DEF SyncAlarmNotify, SyncResizeTimeout, drag, FitStep
<1>8. ASSUME EndDrag PROVE FitStep
  BY <1>1, <1>8, FinishDragFits DEF EndDrag, drag, FitStep
<1> QED BY <1>3, <1>4, <1>5, <1>6, <1>7, <1>8 DEF GeometryStep, DragStep

LEMMA EnvironmentStepFits == FilledInv /\ EnvironmentStep => FitStep
<1> SUFFICES ASSUME FilledInv, EnvironmentStep PROVE FitStep
  OBVIOUS
<1>1. Settled(window) /\ WindowOK(window) /\ area \in Places /\ Filled(window)
  BY DEF FilledInv, IInv, Settled
<1>2. ASSUME NEW outputs \in (SUBSET Outputs) \ {{}}, RefreshOutputs(outputs)
      PROVE  FitStep
  <2>1. [area EXCEPT !.outputs = outputs] \in Places
    BY <1>1 DEF Places
  <2>2. area' = [area EXCEPT !.outputs = outputs] /\ window' = Arrange(window, area')
    BY <1>2 DEF RefreshOutputs
  <2> QED BY <1>1, <2>1, <2>2, ArrangeFits DEF FitStep
<1>3. ASSUME NEW strut \in BOOLEAN, RefreshWorkArea(strut)
      PROVE  FitStep
  <2>1. [area EXCEPT !.strut = strut] \in Places
    BY <1>1 DEF Places
  <2>2. /\ area' = [area EXCEPT !.strut = strut] /\ window' = Refit(window, area')
        /\ area'.outputs = area.outputs
    BY <1>1, <1>3 DEF RefreshWorkArea, Places
  <2>3. IsFullscreen(window.client) => (FitsIn(window, area) => FitsIn(window, area'))
    BY <2>2 DEF FitsIn, ClientFits
  <2>4. StillFits(Refit(window, area'), window, area')
        /\ (~IsFullscreen(window.client) => FitsIn(Refit(window, area'), area'))
    BY <1>1, <2>1, <2>2, RefitFits
  <2> QED BY <2>2, <2>3, <2>4 DEF FitStep, StillFits
<1> QED BY <1>2, <1>3 DEF EnvironmentStep

LEMMA StutterFits == FilledInv /\ UNCHANGED vars => FitStep
BY DEF FilledInv, FitStep, vars, Filled, FitsIn

LEMMA FilledInvariance == Spec => []FilledInv
<1>1. Init => Filled(window)
  <2> SUFFICES ASSUME Init PROVE Filled(window)
    OBVIOUS
  <2>1. area \in Places
    BY DEF Init, Places
  <2>2. PICK g \in FreeGeometries(area.outputs), policy \in Policies,
             preference \in Preferences, shaded \in BOOLEAN, fullscreen \in BOOLEAN,
             axes \in SUBSET Axes :
          window = Manage(NewWindow(g, policy, preference), shaded, axes, fullscreen, area)
    BY DEF Init
  <2>3. g \in Geometries
    BY <2>1, FreeTyped
  <2> QED BY <2>1, <2>2, <2>3, ManageFilled
<1>2. Init => FilledInv
  BY <1>1, InitIInv DEF FilledInv
<1>3. FilledInv /\ [Next]_vars => FitStep
  BY StateStepFits, PolicyStepFits, GeometryStepFits, EnvironmentStepFits, StutterFits DEF Next
<1>4. FilledInv /\ [Next]_vars => FilledInv'
  <2>1. IInv /\ [Next]_vars => IInv'
    BY StateStepIInv, PolicyStepIInv, GeometryStepIInv, EnvironmentStepIInv, StutterIInv
       DEF Next
  <2>2. FitStep => Filled(window)'
    BY DEF FitStep, Filled
  <2> QED BY <1>3, <2>1, <2>2 DEF FilledInv
<1> QED BY <1>2, <1>4, PTL DEF Spec

\* Whatever happens to frames, policies, panels and outputs, in any order and also behind
\* fullscreen, a client that fits what it fills goes on to, unless a drag is under way
\* (reflow_maximized_clients, apply_frame_policy, set_fullscreen, refresh_outputs).
THEOREM FitCorrect == Spec => FitsKept
<1>1. FilledInv /\ [Next]_vars => FitStep
  BY StateStepFits, PolicyStepFits, GeometryStepFits, EnvironmentStepFits, StutterFits DEF Next
<1>2. FilledInv /\ FilledInv' /\ FitStep => (Fits /\ drag = NoDrag => Fits')
  <2> SUFFICES ASSUME FilledInv, FilledInv', FitStep, Fits, drag = NoDrag
               PROVE  Fits'
    OBVIOUS
  <2>1. WindowOK(window) /\ WindowOK(window)'
    BY DEF FilledInv, IInv, Settled
  <2>2. FitsIn(window, area)
    BY <2>1, FitsMeaning
  <2>3. FitsIn(window, area)'
    BY <2>2 DEF FitStep, drag, FitsIn
  <2>4. WindowOK(window)' => (Fits <=> FitsIn(window, area))'
    BY DEF Fits, FitsIn, ClientFits, FitsVertically, Available, client, WindowOK, PresentationOf
  <2> QED BY <2>1, <2>3, <2>4
<1> QED BY FilledInvariance, <1>1, <1>2, PTL DEF Spec, FitsKept

(***************************************************************************)
(* A motion that waits is reached.  A handler leaves the drag as it was,   *)
(* with its motion waiting, or ends it, and then the client is where the   *)
(* motion took it on every axis that is free, or was before the drag.      *)
(***************************************************************************)
\* The drag is over and the client at g on every axis that is free.
Reached(w, g) ==
  /\ w.drag = NoDrag
  /\ \A a \in Axes \ Held(w.client) : w.client.geometry[a] = g[a]
\* Either the drag d is still under way, or its goal g is reached.
Heading(w, d, g) == w.drag = d \/ Reached(w, g)

\* The axes that stay free show what they did.
LEMMA UpdateMaximizedFree ==
  ASSUME NEW c, ClientOK(c), NEW axes \in SUBSET Axes, c.maximized \subseteq axes,
         NEW available \in Geometries
  PROVE  \A a \in Axes \ axes :
           UpdateMaximized(c, axes, available).geometry[a] = c.geometry[a]
<1> DEFINE old == c.maximized
           saved == Replace(IF old = {} THEN c.geometry ELSE c.restore, axes \ old, c.geometry)
           restore == CASE axes = {} -> NoGeometry
                        [] axes = old -> c.restore
                        [] OTHER -> saved
           geometry == Replace(Replace(c.geometry, old \ axes, saved), axes, available)
           d == UpdateMaximized(c, axes, available)
<1>1. d.geometry = geometry
  BY DEF UpdateMaximized, ClientOK, PresentationOf
<1> HIDE DEF d, saved
<1>2. \A a \in Axes \ axes : geometry[a] = c.geometry[a]
  BY DEF Replace
<1> HIDE DEF geometry
<1> QED BY <1>1, <1>2 DEF d

\* Maximizing more axes keeps a goal reached, and so does whatever fills the
\* screen behind fullscreen.
LEMMA MaximizeHeads ==
  ASSUME NEW w, WindowOK(w), NEW axes \in SUBSET Axes, NEW place \in Places,
         w.client.maximized \subseteq axes, NEW d, NEW g, Heading(w, d, g)
  PROVE  Heading(Maximize(w, axes, place), d, g)
<1> DEFINE available == Available(w, place)
           c == SetMaximized(w.client, axes, available)
           v == [w EXCEPT !.client = c]
<1>1. available \in Geometries /\ ClientOK(w.client)
  BY AvailableTyped DEF WindowOK
<1>2. Maximize(w, axes, place) = v
  BY DEF Maximize
<1>3. v.client = c /\ v.drag = w.drag
  BY DEF WindowOK
<1> HIDE DEF v, available
<1>4. CASE w.drag = d
  BY <1>2, <1>3, <1>4 DEF Heading
<1>5. ASSUME Reached(w, g) PROVE Reached(v, g)
  <2>1. IsFullscreen(c) = IsFullscreen(w.client)
    BY <1>1, SetMaximizedOK DEF SameDress
  <2>2. CASE IsFullscreen(w.client)
    BY <1>3, <1>5, <2>1, <2>2 DEF Reached, Held
  <2>3. CASE ~IsFullscreen(w.client) /\ c = w.client
    BY <1>3, <1>5, <2>3 DEF Reached
  <2>4. CASE ~IsFullscreen(w.client) /\ c # w.client
    <3>1. c = UpdateMaximized(w.client, axes, available)
      BY <2>4 DEF SetMaximized
    <3> HIDE DEF c
    <3>2. c.maximized = axes /\ \A a \in Axes \ axes : c.geometry[a] = w.client.geometry[a]
      BY <1>1, <3>1, UpdateMaximizedGeometry, UpdateMaximizedFree
    <3>3. Held(c) = axes /\ Held(w.client) = w.client.maximized
      BY <2>1, <2>4, <3>2 DEF Held
    <3> QED BY <1>3, <1>5, <3>2, <3>3 DEF Reached
  <2> QED BY <2>2, <2>3, <2>4
<1> QED BY <1>2, <1>4, <1>5 DEF Heading

LEMMA RefitHeads ==
  ASSUME NEW w, WindowOK(w), NEW place \in Places, NEW d, NEW g, Heading(w, d, g)
  PROVE  Heading(Refit(w, place), d, g)
<1>1. w.client.maximized \in SUBSET Axes
  BY DEF WindowOK, PresentationOf
<1> QED BY <1>1, MaximizeHeads DEF Refit

LEMMA ApplyFramePolicyHeads ==
  ASSUME NEW w, WindowOK(w), NEW place \in Places, NEW d, NEW g, Heading(w, d, g)
  PROVE  Heading(ApplyFramePolicy(w, place), d, g)
<1> DEFINE dressed == Decorated(w.client) /\ ~IsFullscreen(w.client)
           framed == [w EXCEPT !.framed = dressed]
<1>1. dressed \in BOOLEAN
  BY DressedTyped DEF WindowOK, Dressed
<1>2. ApplyFramePolicy(w, place) \in {framed, Refit(framed, place)}
  BY DEF ApplyFramePolicy
<1> HIDE DEF dressed
<1>3. WindowOK(framed) /\ framed.client = w.client /\ framed.drag = w.drag
  BY <1>1, WithFrame
<1> HIDE DEF framed
<1>4. Heading(framed, d, g)
  BY <1>3 DEF Heading, Reached
<1> QED BY <1>2, <1>3, <1>4, RefitHeads

\* A handler that changes neither the geometry nor what fills it.
LEMMA UnchangedHeads ==
  ASSUME NEW w, WindowOK(w), NEW d, NEW g, Heading(w, d, g), NEW c,
         c.geometry = w.client.geometry, c.maximized = w.client.maximized,
         IsFullscreen(c) = IsFullscreen(w.client)
  PROVE  Heading([w EXCEPT !.client = c], d, g)
<1> DEFINE v == [w EXCEPT !.client = c]
<1>1. v.client = c /\ v.drag = w.drag
  BY DEF WindowOK
<1> HIDE DEF v
<1>2. Held(c) = Held(w.client)
  BY DEF Held
<1>3. Heading(v, d, g)
  BY <1>1, <1>2 DEF Heading, Reached
<1> QED BY <1>3 DEF v

\* Ending a drag applies the motion that waits.
LEMMA FinishDragHeads ==
  ASSUME NEW w, WindowOK(w), NEW d, d # NoDrag, d.pending # NoGeometry,
         Heading(w, d, d.pending)
  PROVE  Reached(FinishDrag(w), d.pending)
<1>1. CASE w.drag = NoDrag
  BY <1>1 DEF FinishDrag, Heading
<1>2. CASE w.drag # NoDrag
  <2>1. w.drag = d
    BY <1>2 DEF Heading, Reached
  <2>2. /\ FinishDrag(w).drag = NoDrag
        /\ FinishDrag(w).client = SetGeometry(w.client, d.pending)
    BY <1>2, <2>1 DEF FinishDrag, WindowOK
  <2>3. SetGeometry(w.client, d.pending).geometry = d.pending
    BY DEF SetGeometry, WindowOK, PresentationOf
  <2> QED BY <2>2, <2>3 DEF Reached
<1> QED BY <1>1, <1>2

LEMMA ShadeHeads ==
  ASSUME NEW w, Settled(w), NEW shaded \in BOOLEAN,
         NEW d, d # NoDrag, d.pending # NoGeometry, Heading(w, d, d.pending)
  PROVE  Heading(Shade(w, shaded), d, d.pending)
<1> DEFINE ended == FinishDrag(w)
           c == SetShaded(ended.client, shaded)
           v == [ended EXCEPT !.client = c]
<1>1. WindowOK(ended) /\ Heading(ended, d, d.pending)
  BY FinishDragOK, FinishDragHeads DEF Settled, Resized, Heading
<1>2. Shade(w, shaded) \in {w, v}
  BY DEF Shade
<1> HIDE DEF ended
<1>3. /\ c.geometry = ended.client.geometry /\ c.maximized = ended.client.maximized
      /\ c.fullscreen = ended.client.fullscreen
  BY <1>1 DEF SetShaded, WindowOK, PresentationOf
<1> HIDE DEF c
<1>4. Heading(v, d, d.pending)
  BY <1>1, <1>3, UnchangedHeads DEF IsFullscreen
<1> QED BY <1>2, <1>4

\* A client becomes fullscreen, or it was not and does not.
LEMMA SwitchFullscreenHeads ==
  ASSUME NEW w, WindowOK(w), NEW fullscreen \in BOOLEAN, NEW place \in Places,
         fullscreen \/ ~IsFullscreen(w.client),
         NEW d, NEW g, Heading(w, d, g)
  PROVE  Heading(SwitchFullscreen(w, fullscreen, place), d, g)
<1> DEFINE output == FullOutput(w.client.geometry, place.outputs)
           c == SetFullscreen(w.client, fullscreen, output)
           switched == [w EXCEPT !.client = c]
<1>1. output \in Geometries /\ ClientOK(w.client) /\ w.client.geometry \in Geometries
  BY FullOutputTyped DEF WindowOK, PresentationOf
<1>2. SwitchFullscreen(w, fullscreen, place) \in {switched, ApplyFramePolicy(switched, place)}
  BY DEF SwitchFullscreen
<1> HIDE DEF output
<1>3. ClientOK(c) /\ (c = w.client \/ IsFullscreen(c))
  BY <1>1, SetFullscreenOK, SentinelsAssumption
     DEF SetFullscreen, ClientOK, PresentationOf, IsFullscreen
<1> HIDE DEF c
<1>4. WindowOK(switched) /\ switched.client = c /\ switched.drag = w.drag
  BY <1>3, WithClient
<1> HIDE DEF switched
<1>5. Heading(switched, d, g)
  <2>1. CASE c = w.client
    BY <1>4, <2>1 DEF Heading, Reached
  <2>2. CASE IsFullscreen(c)
    BY <1>4, <2>2 DEF Heading, Reached, Held
  <2> QED BY <1>3, <2>1, <2>2
<1> QED BY <1>2, <1>4, <1>5, ApplyFramePolicyHeads

LEMMA FullscreenHeads ==
  ASSUME NEW w, Settled(w), NEW fullscreen \in BOOLEAN, NEW place \in Places,
         fullscreen \/ ~IsFullscreen(w.client),
         NEW d, d # NoDrag, d.pending # NoGeometry, Heading(w, d, d.pending)
  PROVE  Heading(Fullscreen(w, fullscreen, place), d, d.pending)
<1> DEFINE v == IF fullscreen THEN Shade(w, FALSE) ELSE w
<1>1. /\ WindowOK(v) /\ Heading(v, d, d.pending)
      /\ fullscreen \/ ~IsFullscreen(v.client)
  BY ShadeOK, ShadeHeads DEF Settled
<1>2. Fullscreen(w, fullscreen, place) = SwitchFullscreen(v, fullscreen, place)
  BY DEF Fullscreen
<1> HIDE DEF v
<1> QED BY <1>1, <1>2, SwitchFullscreenHeads

LEMMA PreferHeads ==
  ASSUME NEW w, Settled(w), NEW preference \in Preferences, NEW place \in Places,
         NEW d, d # NoDrag, d.pending # NoGeometry, Heading(w, d, d.pending)
  PROVE  Heading(Prefer(w, preference, place), d, d.pending)
<1> DEFINE bare == Shade(w, FALSE)
           c == [bare.client EXCEPT !.preference = preference]
           preferred == [bare EXCEPT !.client = c]
<1>1. WindowOK(bare) /\ Heading(bare, d, d.pending)
  BY ShadeOK, ShadeHeads DEF Settled
<1>2. Prefer(w, preference, place) \in {w, ApplyFramePolicy(preferred, place)}
  BY <1>1 DEF Prefer, WindowOK
<1> HIDE DEF bare
<1>3. /\ ClientOK(c)
      /\ c.geometry = bare.client.geometry /\ c.maximized = bare.client.maximized
      /\ c.fullscreen = bare.client.fullscreen
  BY <1>1 DEF WindowOK, ClientOK, PresentationOf
<1> HIDE DEF c
<1>4. WindowOK(preferred) /\ Heading(preferred, d, d.pending)
  BY <1>1, <1>3, WithClient, UnchangedHeads DEF IsFullscreen
<1> HIDE DEF preferred
<1>5. Heading(ApplyFramePolicy(preferred, place), d, d.pending)
  BY <1>4, ApplyFramePolicyHeads
<1> QED BY <1>2, <1>5

LEMMA RefreshPolicyHeads ==
  ASSUME NEW w, Settled(w), Held(w.client) = {}, NEW policy \in Policies,
         NEW place \in Places,
         NEW d, d # NoDrag, d.pending # NoGeometry, Heading(w, d, d.pending)
  PROVE  Heading(RefreshPolicy(w, policy.role, policy.natural, place), d, d.pending)
<1> DEFINE role == policy.role
           natural == policy.natural
           unmaximized == IF ~CanFill(role) THEN Maximize(w, {}, place) ELSE w
           windowed == IF ~CanFill(role) THEN Fullscreen(unmaximized, FALSE, place)
                       ELSE unmaximized
           unshaded == IF ~natural THEN Shade(windowed, FALSE) ELSE windowed
           c == SetPolicy(unshaded.client, role, natural)
           changed == [unshaded EXCEPT !.client = c]
<1>1. role \in Roles /\ natural \in BOOLEAN /\ (natural => CanDecorate(role))
  BY PoliciesAssumption
<1>2. RefreshPolicy(w, role, natural, place) \in {unshaded, ApplyFramePolicy(changed, place)}
  BY DEF RefreshPolicy
<1> HIDE DEF role, natural
<1>3. /\ Settled(unmaximized) /\ Heading(unmaximized, d, d.pending)
      /\ ~IsFullscreen(unmaximized.client)
  <2>1. w.client.maximized = {} /\ ~IsFullscreen(w.client)
    BY DEF Held, Axes
  <2>2. /\ Settled(Maximize(w, {}, place)) /\ ~IsFullscreen(Maximize(w, {}, place).client)
        /\ Heading(Maximize(w, {}, place), d, d.pending)
    BY <2>1, MaximizeOK, ResizedSettled, MaximizeHeads DEF Settled, Resized, SameDress
  <2> QED BY <2>1, <2>2
<1> HIDE DEF unmaximized
<1>4. Settled(windowed) /\ Heading(windowed, d, d.pending)
  BY <1>3, FullscreenOK, FullscreenHeads
<1> HIDE DEF windowed
<1>5. Settled(unshaded) /\ Heading(unshaded, d, d.pending)
  BY <1>4, ShadeOK, ShadeHeads
<1> HIDE DEF unshaded
<1>6. /\ ClientOK(c)
      /\ c.geometry = unshaded.client.geometry /\ c.maximized = unshaded.client.maximized
      /\ c.fullscreen = unshaded.client.fullscreen
  BY <1>1, <1>5 DEF SetPolicy, Settled, WindowOK, ClientOK, PresentationOf
<1> HIDE DEF c
<1>7. WindowOK(changed) /\ Heading(changed, d, d.pending)
  BY <1>5, <1>6, WithClient, UnchangedHeads DEF Settled, IsFullscreen
<1> HIDE DEF changed
<1>8. Heading(ApplyFramePolicy(changed, place), d, d.pending)
  BY <1>7, ApplyFramePolicyHeads
<1> QED BY <1>2, <1>5, <1>8 DEF role, natural

(* ---- The actions ---- *)
\* Pacing goes on with the motion that waited applied, or is given up.
LEMMA ResumeReaches ==
  ASSUME NEW w, WindowOK(w), w.drag # NoDrag, w.drag.pending # NoGeometry,
         NEW sync \in {"None", "Ready"}
  PROVE  Resume(w, sync).client.geometry = w.drag.pending
<1> DEFINE d == [w.drag EXCEPT !.sync = sync, !.pending = NoGeometry]
           g == w.drag.pending
           resumed == [w EXCEPT !.drag = d]
<1>1. w.drag \in DragType
  BY DragGeometriesTyped
<1>2. Resume(w, sync) = ApplyDragGeometry(resumed, g)
  BY DEF Resume, WindowOK
<1>3. DragOK(d) /\ d.sync # "Waiting"
  BY <1>1, SentinelsAssumption DEF DragOK, DragType
<1> HIDE DEF d
<1>4. WindowOK(resumed) /\ resumed.client = w.client /\ resumed.drag = d
  BY <1>3, WithDrag
<1> HIDE DEF resumed, g
<1>5. SetGeometry(resumed.client, g).geometry = g
  BY <1>4 DEF SetGeometry, WindowOK, PresentationOf
<1>6. CASE resumed.client.geometry = g
  BY <1>2, <1>6 DEF ApplyDragGeometry, g
<1>7. CASE resumed.client.geometry # g
  <2>1. ApplyDragGeometry(resumed, g) =
          [resumed EXCEPT !.client = SetGeometry(@, g),
                          !.drag.sync = IF @ = "Ready" THEN "Waiting" ELSE @]
    BY <1>3, <1>4, <1>7 DEF ApplyDragGeometry
  <2>2. ApplyDragGeometry(resumed, g).client = SetGeometry(resumed.client, g)
    BY <1>4, <2>1 DEF WindowOK
  <2> QED BY <1>2, <1>5, <2>2 DEF g
<1> QED BY <1>6, <1>7

\* A newer motion waits instead, or the old one still does.
LEMMA ApplyDragGeometryWaits ==
  ASSUME NEW w, WindowOK(w), w.drag # NoDrag, w.drag.pending # NoGeometry,
         NEW g \in Geometries
  PROVE  LET v == ApplyDragGeometry(w, g)
         IN v.drag # NoDrag /\ v.drag.pending # NoGeometry
<1>1. w.drag \in DragType /\ w.drag.sync = "Waiting"
  BY DragGeometriesTyped DEF WindowOK, DragOK
<1>2. CASE w.client.geometry = g
  BY <1>2 DEF ApplyDragGeometry
<1>3. CASE w.client.geometry # g
  <2> DEFINE d == [w.drag EXCEPT !.pending = g]
  <2>1. d \in DragType /\ d.pending = g
    BY <1>1 DEF DragType
  <2>2. ApplyDragGeometry(w, g) = [w EXCEPT !.drag.pending = g]
    BY <1>1, <1>3 DEF ApplyDragGeometry
  <2>3. ApplyDragGeometry(w, g).drag = d
    BY <2>2 DEF WindowOK
  <2> HIDE DEF d
  <2> QED BY <2>1, <2>3, SentinelsAssumption
<1> QED BY <1>2, <1>3

PendingStep ==
  drag # NoDrag /\ drag.pending # NoGeometry /\ Held(client) = {} =>
    \/ drag' # NoDrag /\ drag'.pending # NoGeometry
    \/ \E g \in {drag.pending, drag.initial} :
         \A a \in Axes \ Held(client') : client'.geometry[a] = g[a]

LEMMA HeadingSuffices ==
  ASSUME NEW g \in {window.drag.pending, window.drag.initial},
         Heading(window', window.drag, g)
  PROVE  PendingStep
BY DEF Heading, Reached, PendingStep, client, drag

\* The states PendingStep is about, before it.
Waiting ==
  /\ FilledInv
  /\ window.drag # NoDrag /\ window.drag.pending # NoGeometry
  /\ Held(window.client) = {}

LEMMA WaitingMeaning ==
  Waiting => /\ Settled(window) /\ WindowOK(window) /\ area \in Places /\ Filled(window)
             /\ window.client.maximized = {} /\ ~IsFullscreen(window.client)
             /\ \A g : Heading(window, window.drag, g)
BY DEF Waiting, FilledInv, IInv, Settled, Held, Axes, Heading

LEMMA StateStepReaches == Waiting /\ StateStep => PendingStep
<1> SUFFICES ASSUME Waiting, StateStep
             PROVE  Heading(window', window.drag, window.drag.pending)
  BY HeadingSuffices
<1> DEFINE d == window.drag
<1>1. /\ Settled(window) /\ WindowOK(window) /\ area \in Places /\ Filled(window)
      /\ window.client.maximized = {} /\ ~IsFullscreen(window.client)
      /\ d # NoDrag /\ d.pending # NoGeometry /\ Heading(window, d, d.pending)
  BY WaitingMeaning DEF Waiting
<1> HIDE DEF d
<1>2. ASSUME NEW shaded \in BOOLEAN, SetShadedRequest(shaded)
      PROVE  Heading(window', d, d.pending)
  BY <1>1, <1>2, ShadeHeads DEF SetShadedRequest
<1>3. ASSUME NEW axes \in SUBSET Axes, SetMaximizedRequest(axes)
      PROVE  Heading(window', d, d.pending)
  BY <1>1, <1>3, MaximizeHeads DEF SetMaximizedRequest
<1>4. ASSUME ToggleFullscreen
      PROVE  Heading(window', d, d.pending)
  BY <1>1, <1>4, FullscreenHeads DEF ToggleFullscreen, client
<1>5. ASSUME NEW verb, NEW requested, UpdateNetWmState(verb, requested)
      PROVE  Heading(window', d, d.pending)
  <2> DEFINE shaded == IF "Shaded" \in requested
                       THEN Shade(window, Wanted(verb, client.shaded)) ELSE window
             fullscreen == Wanted(verb, IsFullscreen(client))
             filled == IF "Fullscreen" \in requested /\ fullscreen # IsFullscreen(client)
                       THEN Fullscreen(shaded, fullscreen, area) ELSE shaded
             old == filled.client.maximized
             axes == {a \in Axes : IF a \in requested THEN Wanted(verb, a \in old)
                                   ELSE a \in old}
  <2>1. Wanted(verb, client.shaded) \in BOOLEAN /\ fullscreen \in BOOLEAN
    BY DEF Wanted
  <2>2. /\ Settled(shaded) /\ Filled(shaded) /\ Heading(shaded, d, d.pending)
        /\ shaded.client.maximized = {} /\ ~IsFullscreen(shaded.client)
    <3>1. ASSUME NEW s \in BOOLEAN
          PROVE  LET v == Shade(window, s)
                 IN /\ Settled(v) /\ Filled(v) /\ Heading(v, d, d.pending)
                    /\ v.client.maximized = {} /\ ~IsFullscreen(v.client)
      BY <1>1, ShadeOK, ShadeFits, ShadeHeads DEF StillFits
    <3> QED BY <1>1, <2>1, <3>1
  <2>3. window' \in {filled, Maximize(filled, axes, area)}
    BY <1>5 DEF UpdateNetWmState
  <2>4. axes \in SUBSET Axes
    OBVIOUS
  <2> HIDE DEF shaded, fullscreen, axes
  <2>5. Settled(filled) /\ Heading(filled, d, d.pending) /\ filled.client.maximized = {}
    <3> DEFINE v == Fullscreen(shaded, fullscreen, area)
    <3>1. Settled(v) /\ Heading(v, d, d.pending) /\ v.client.maximized = {}
      BY <1>1, <2>1, <2>2, FullscreenOK, FullscreenFits, FullscreenHeads
    <3> QED BY <2>2, <3>1
  <2> HIDE DEF filled
  <2>6. Heading(Maximize(filled, axes, area), d, d.pending)
    BY <1>1, <2>4, <2>5, MaximizeHeads DEF Settled
  <2> QED BY <2>3, <2>5, <2>6
<1>6. ASSUME NEW maximized \in (SUBSET Axes) \cup {Omitted},
             NEW fullscreen \in BOOLEAN \cup {Omitted},
             NEW shaded \in BOOLEAN \cup {Omitted},
             AgentApplyState(maximized, fullscreen, shaded)
      PROVE  Heading(window', d, d.pending)
  <2> DEFINE sized == IF maximized = Omitted THEN window
                      ELSE Maximize(window, maximized, area)
             filled == IF fullscreen = Omitted THEN sized
                       ELSE Fullscreen(sized, fullscreen, area)
  <2>1. window' = (IF shaded = Omitted THEN filled ELSE Shade(filled, shaded))
    BY <1>6 DEF AgentApplyState
  <2>2. Settled(sized) /\ Heading(sized, d, d.pending) /\ ~IsFullscreen(sized.client)
    <3>1. ASSUME maximized # Omitted
          PROVE  LET v == Maximize(window, maximized, area)
                 IN Settled(v) /\ Heading(v, d, d.pending) /\ ~IsFullscreen(v.client)
      BY <1>1, <3>1, MaximizeOK, ResizedSettled, MaximizeHeads DEF Resized, SameDress
    <3> QED BY <1>1, <3>1
  <2> HIDE DEF sized
  <2>3. Settled(filled) /\ Heading(filled, d, d.pending)
    <3>1. ASSUME fullscreen # Omitted
          PROVE  LET v == Fullscreen(sized, fullscreen, area)
                 IN Settled(v) /\ Heading(v, d, d.pending)
      BY <1>1, <2>2, <3>1, FullscreenOK, FullscreenHeads
    <3> QED BY <2>2, <3>1
  <2> HIDE DEF filled
  <2>4. shaded # Omitted => Heading(Shade(filled, shaded), d, d.pending)
    BY <1>1, <2>3, ShadeHeads
  <2> QED BY <2>1, <2>3, <2>4
<1> QED BY <1>2, <1>3, <1>4, <1>5, <1>6 DEF StateStep, d

LEMMA PolicyStepReaches == Waiting /\ PolicyStep => PendingStep
<1> SUFFICES ASSUME Waiting, PolicyStep
             PROVE  \E g \in {window.drag.pending, window.drag.initial} :
                      Heading(window', window.drag, g)
  BY HeadingSuffices
<1> DEFINE d == window.drag
<1>1. /\ Settled(window) /\ WindowOK(window) /\ area \in Places
      /\ d # NoDrag /\ d.pending # NoGeometry /\ Heading(window, d, d.pending)
      /\ Held(window.client) = {}
  BY WaitingMeaning DEF Waiting
<1>2. ASSUME NEW preference \in Preferences, SetDecorationOverride(preference)
      PROVE  Heading(window', d, d.pending)
  BY <1>1, <1>2, PreferHeads DEF SetDecorationOverride
<1>3. ASSUME ToggleDecorations
      PROVE  Heading(window', d, d.pending)
  <2>1. Toggled(client) \in Preferences
    BY <1>1 DEF Toggled, Preferences, WindowOK, PresentationOf, client
  <2> QED BY <1>1, <1>3, <2>1, PreferHeads DEF ToggleDecorations
<1>4. ASSUME NEW policy \in Policies, RefreshClientPolicy(policy)
      PROVE  Heading(window', d, d.pending)
  BY <1>1, <1>4, RefreshPolicyHeads DEF RefreshClientPolicy
<1>5. ASSUME Reconfigure
      PROVE  Heading(window', d, d.initial)
  <2> DEFINE v == CancelDrag(window)
  <2>1. WindowOK(v)
    BY <1>1, CancelDragOK DEF Resized
  <2>2. v.drag = NoDrag /\ v.client = SetGeometry(window.client, d.initial)
    BY <1>1 DEF CancelDrag, WindowOK
  <2>3. SetGeometry(window.client, d.initial).geometry = d.initial
    BY <1>1 DEF SetGeometry, WindowOK, PresentationOf
  <2> HIDE DEF v
  <2>4. Heading(v, d, d.initial)
    BY <2>2, <2>3 DEF Heading, Reached
  <2>5. Heading(ApplyFramePolicy(v, area), d, d.initial)
    BY <1>1, <2>1, <2>4, ApplyFramePolicyHeads
  <2> QED BY <1>5, <2>5 DEF Reconfigure, v
<1> QED BY <1>2, <1>3, <1>4, <1>5 DEF PolicyStep

LEMMA GeometryStepReaches == Waiting /\ (GeometryStep \/ DragStep) => PendingStep
<1> SUFFICES ASSUME Waiting, GeometryStep \/ DragStep
             PROVE  PendingStep
  OBVIOUS
<1>1. /\ Settled(window) /\ WindowOK(window) /\ area \in Places
      /\ window.drag # NoDrag /\ window.drag.pending # NoGeometry
  BY WaitingMeaning DEF Waiting
<1>2. client.geometry \in Geometries
  BY <1>1 DEF WindowOK, PresentationOf, client
<1>3. ASSUME NEW g \in Geometries, window' = ApplyDragGeometry(window, g)
      PROVE  PendingStep
  BY <1>1, <1>3, ApplyDragGeometryWaits DEF PendingStep, drag
<1>4. ASSUME NEW g \in FreeGeometries(area.outputs), PointerMotion(g)
      PROVE  PendingStep
  BY <1>1, <1>3, <1>4, FreeTyped DEF PointerMotion
<1>5. ASSUME NEW g \in FreeGeometries(area.outputs), NEW axes, ConfigureRequest(axes, g)
      PROVE  PendingStep
  <2>1. window'.drag = window.drag
    BY <1>1, <1>5 DEF ConfigureRequest, Configure, WindowOK
  <2> QED BY <2>1, HeadingSuffices DEF Heading
<1>6. ASSUME NEW kind \in Drags, BeginDrag(kind) PROVE PendingStep
  BY <1>1, <1>6 DEF BeginDrag, drag
<1>7. ASSUME NEW axis \in Axes, NEW span \in FreeSpans(axis, area.outputs),
             KeyboardDrag(axis, span)
      PROVE  PendingStep
  <2> DEFINE g == [client.geometry EXCEPT ![axis] = span]
  <2>1. g \in Geometries
    BY <1>1, <1>2, FreeTyped DEF Geometries
  <2>2. window' = ApplyDragGeometry(window, g)
    BY <1>7 DEF KeyboardDrag
  <2> HIDE DEF g
  <2> QED BY <1>3, <2>1, <2>2
<1>8. ASSUME SyncAlarmNotify \/ SyncResizeTimeout PROVE PendingStep
  <2>1. window'.client.geometry = window.drag.pending
    BY <1>1, <1>8, ResumeReaches DEF SyncAlarmNotify, SyncResizeTimeout
  <2> QED BY <2>1 DEF PendingStep, client, drag
<1>9. ASSUME EndDrag PROVE PendingStep
  <2>1. FinishDrag(window).client = SetGeometry(window.client, window.drag.pending)
        /\ CancelDrag(window).client = SetGeometry(window.client, window.drag.initial)
    BY <1>1 DEF FinishDrag, CancelDrag, WindowOK
  <2>2. \A g : SetGeometry(window.client, g).geometry = g
    BY <1>1 DEF SetGeometry, WindowOK, PresentationOf
  <2>3. \E g \in {window.drag.pending, window.drag.initial} : window'.client.geometry = g
    BY <1>9, <2>1, <2>2 DEF EndDrag
  <2> QED BY <2>3 DEF PendingStep, client, drag
<1> QED BY <1>4, <1>5, <1>6, <1>7, <1>8, <1>9 DEF GeometryStep, DragStep

LEMMA EnvironmentStepReaches == Waiting /\ (EnvironmentStep \/ UNCHANGED vars) => PendingStep
<1> SUFFICES ASSUME Waiting, EnvironmentStep \/ UNCHANGED vars
             PROVE  window'.drag = window.drag
  BY HeadingSuffices DEF Heading
<1>1. WindowOK(window) /\ window.client.maximized = {} /\ ~IsFullscreen(window.client)
  BY WaitingMeaning
<1>2. \A place : Refit(window, place) = window
  BY <1>1 DEF Refit
<1>3. ASSUME NEW place PROVE Arrange(window, place).drag = window.drag
  <2> DEFINE home == [client.geometry EXCEPT
                        !["horizontal"].at = OutputFor(client.geometry, place.outputs)]
             c == SetGeometry(client, home)
             homed == [window EXCEPT !.client = c]
  <2>1. Rehome(window, place) = homed
    BY <1>1 DEF Rehome, Held, client
  <2>2. c.fullscreen = client.fullscreen
    BY <1>1 DEF SetGeometry, WindowOK, PresentationOf, client
  <2> HIDE DEF c
  <2>3. homed.client = c /\ homed.drag = window.drag
    BY <1>1 DEF WindowOK
  <2> HIDE DEF homed
  <2>4. ~IsFullscreen(homed.client)
    BY <1>1, <2>2, <2>3 DEF IsFullscreen, client
  <2> QED BY <1>2, <2>1, <2>3, <2>4 DEF Arrange
<1> QED BY <1>2, <1>3 DEF EnvironmentStep, RefreshOutputs, RefreshWorkArea, vars

\* A motion that waits for the client to paint is never lost to a request, a
\* change of policy, frame, panel or output, or the end of the drag: a newer one
\* waits, or the client is or will return to where it was sent, or the drag was
\* cancelled (finish_drag, cancel_drag, sync_alarm_notify, sync_resize_timeout).
THEOREM PendingCorrect == Spec => PendingReached
<1>1. FilledInv /\ [Next]_vars => PendingStep
  <2> SUFFICES ASSUME Waiting, [Next]_vars PROVE PendingStep
    BY DEF Waiting, PendingStep, client, drag
  <2> QED
    BY StateStepReaches, PolicyStepReaches, GeometryStepReaches, EnvironmentStepReaches
       DEF Next
<1>2. [][PendingStep]_vars => PendingReached
  BY PTL DEF PendingReached, PendingStep
<1> QED BY FilledInvariance, <1>1, <1>2, PTL DEF Spec

(* ---- Queues ---- *)
Queue(q) == \E S : q \in Seq(S)

LEMMA QueueAppend ==
    ASSUME NEW q, Queue(q), NEW x
    PROVE  /\ Queue(Append(q, x)) /\ Len(q) \in Nat /\ Len(Append(q, x)) = Len(q) + 1
           /\ DOMAIN q = 1..Len(q) /\ DOMAIN Append(q, x) = 1..(Len(q) + 1)
           /\ \A i \in 1..Len(q) : Append(q, x)[i] = q[i]
           /\ Append(q, x)[Len(q) + 1] = x
           /\ q \o <<x>> = Append(q, x)
  <1>1. PICK S : q \in Seq(S)
    BY DEF Queue
  <1>2. q \in Seq(S \cup {x}) /\ x \in S \cup {x}
    BY <1>1
  <1>3. Append(q, x) \in Seq(S \cup {x})
    BY <1>2
  <1> QED BY <1>2, <1>3 DEF Queue

LEMMA QueueTail ==
    ASSUME NEW q, Queue(q), q # <<>>
    PROVE  /\ Queue(Tail(q)) /\ Len(q) \in Nat \ {0} /\ Head(q) = q[1] /\ Len(Tail(q)) = Len(q) - 1
           /\ DOMAIN q = 1..Len(q) /\ DOMAIN Tail(q) = 1..(Len(q) - 1)
           /\ \A i \in 1..(Len(q) - 1) : Tail(q)[i] = q[i + 1]
  <1>1. PICK S : q \in Seq(S)
    BY DEF Queue
  <1>2. Tail(q) \in Seq(S)
    BY <1>1
  <1> QED BY <1>1, <1>2 DEF Queue

LEMMA QueueJoin ==
    ASSUME NEW q, Queue(q), NEW x, NEW y
    PROVE  /\ q \o <<>> = q /\ <<>> \o q = q
           /\ q \o <<x>> = Append(q, x)
           /\ q \o <<x, y>> = Append(Append(q, x), y)
  <1>1. PICK S : q \in Seq(S)
    BY DEF Queue
  <1>2. q \in Seq(S \cup {x, y}) /\ x \in S \cup {x, y} /\ y \in S \cup {x, y}
    BY <1>1
  <1>3. q \o <<>> = q /\ <<>> \o q = q
    BY <1>1, ConcatEmptySeq
  <1>4. q \o <<x>> = Append(q, x)
    BY <1>2
  <1>5. q \o <<x, y>> = Append(Append(q, x), y)
    <2>1. Append(q, x) \in Seq(S \cup {x, y})
      BY <1>2
    <2>2. <<x, y>> \in Seq(S \cup {x, y})
      BY <1>2
    <2> DEFINE l == q \o <<x, y>>
               r == Append(Append(q, x), y)
    <2>3. l \in Seq(S \cup {x, y}) /\ r \in Seq(S \cup {x, y}) /\ Len(l) = Len(r)
      BY <1>2, <2>1, <2>2
    <2>4. \A i \in 1..Len(l) : l[i] = r[i]
      BY <1>2, <2>1, <2>2
    <2> QED BY <2>3, <2>4, SeqEqual
  <1> QED BY <1>3, <1>4, <1>5

\* Whether a queue holds a certain message.
Waits(kind, c, q) == \E i \in DOMAIN q : q[i].kind = kind /\ q[i].client = c

LEMMA WaitsAppend ==
    ASSUME NEW q, Queue(q), NEW x, NEW kind, NEW c
    PROVE  Waits(kind, c, Append(q, x)) <=> (Waits(kind, c, q) \/ (x.kind = kind /\ x.client = c))
  <1> DEFINE q2 == Append(q, x)
  <1>1. /\ DOMAIN q = 1..Len(q) /\ Len(q) \in Nat /\ DOMAIN q2 = 1..(Len(q) + 1)
        /\ \A i \in 1..Len(q) : q2[i] = q[i]
        /\ q2[Len(q) + 1] = x
    BY QueueAppend
  <1> HIDE DEF q2
  <1>2. Waits(kind, c, q2) <=> (Waits(kind, c, q) \/ (x.kind = kind /\ x.client = c))
    <2>1. \A i \in DOMAIN q2 : i \in 1..Len(q) \/ i = Len(q) + 1
      BY <1>1
    <2>2. ASSUME Waits(kind, c, q2) PROVE Waits(kind, c, q) \/ (x.kind = kind /\ x.client = c)
      BY <1>1, <2>1, <2>2 DEF Waits
    <2>3. ASSUME Waits(kind, c, q) PROVE Waits(kind, c, q2)
      <3>1. PICK i \in 1..Len(q) : q[i].kind = kind /\ q[i].client = c
        BY <1>1, <2>3 DEF Waits
      <3>2. i \in DOMAIN q2 /\ q2[i] = q[i]
        BY <1>1
      <3> QED BY <3>1, <3>2 DEF Waits
    <2>4. ASSUME x.kind = kind /\ x.client = c PROVE Waits(kind, c, q2)
      <3>1. Len(q) + 1 \in DOMAIN q2
        BY <1>1
      <3> QED BY <3>1, <1>1, <2>4 DEF Waits
    <2> QED BY <2>2, <2>3, <2>4
  <1> QED BY <1>2 DEF q2

LEMMA WaitsTail ==
    ASSUME NEW q, Queue(q), q # <<>>, NEW kind, NEW c
    PROVE  Waits(kind, c, q) <=> (Waits(kind, c, Tail(q)) \/ (Head(q).kind = kind /\ Head(q).client = c))
  <1> DEFINE q2 == Tail(q)
  <1>1. /\ DOMAIN q = 1..Len(q) /\ Len(q) \in Nat \ {0} /\ DOMAIN q2 = 1..(Len(q) - 1)
        /\ \A i \in 1..(Len(q) - 1) : q2[i] = q[i + 1]
        /\ Head(q) = q[1]
    BY QueueTail
  <1> HIDE DEF q2
  <1>2. Waits(kind, c, q) <=> (Waits(kind, c, q2) \/ (Head(q).kind = kind /\ Head(q).client = c))
    <2>1. ASSUME NEW i \in DOMAIN q PROVE i = 1 \/ (i - 1 \in DOMAIN q2 /\ q2[i - 1] = q[i])
      BY <1>1
    <2>2. ASSUME NEW i \in DOMAIN q2 PROVE i + 1 \in DOMAIN q /\ q2[i] = q[i + 1]
      BY <1>1
    <2>3. 1 \in DOMAIN q
      BY <1>1
    <2> QED BY <1>1, <2>1, <2>2, <2>3 DEF Waits
  <1> QED BY <1>2 DEF q2

(***************************************************************************)
(* What the notifications of the focus that wait make of the window        *)
(* manager: the last gain of a client, and the losses after it.            *)
(***************************************************************************)
HasIn(q) == \E i \in DOMAIN q : q[i].kind = "in"

LastIn(q, c) ==
    \E i \in DOMAIN q : /\ q[i].kind = "in" /\ q[i].client = c
                        /\ \A j \in DOMAIN q : j > i => q[j].kind # "in"

OutLater(q, c) ==
    \E i \in DOMAIN q : /\ q[i].kind = "out" /\ q[i].client = c
                        /\ \A j \in DOMAIN q : j > i => q[j].kind # "in"

LEMMA InAppended ==
    ASSUME NEW q, Queue(q), NEW x, x.kind = "in"
    PROVE  /\ HasIn(Append(q, x))
           /\ \A c : LastIn(Append(q, x), c) <=> c = x.client
           /\ \A c : ~ OutLater(Append(q, x), c)
  <1> DEFINE q2 == Append(q, x)
             n == Len(q) + 1
  <1>1. n \in Nat \ {0} /\ DOMAIN q2 = 1..n /\ q2[n] = x
    BY QueueAppend
  <1> HIDE DEF q2, n
  <1>2. \A i \in DOMAIN q2 : n >= i /\ n \in DOMAIN q2
    BY <1>1
  <1>3. HasIn(q2)
    BY <1>1, <1>2 DEF HasIn
  <1>4. \A c : LastIn(q2, c) <=> c = x.client
    <2>1. \A i \in DOMAIN q2 : (\A j \in DOMAIN q2 : j > i => q2[j].kind # "in") => i = n
      BY <1>1
    <2>2. \A j \in DOMAIN q2 : ~ (j > n)
      BY <1>1
    <2>3. n \in DOMAIN q2
      BY <1>1
    <2> QED BY <1>1, <2>1, <2>2, <2>3 DEF LastIn
  <1>5. \A c : ~ OutLater(q2, c)
    <2>1. \A i \in DOMAIN q2 : i = n \/ n > i
      BY <1>1
    <2>2. n \in DOMAIN q2 /\ q2[n].kind = "in"
      BY <1>1
    <2> QED BY <2>1, <2>2 DEF OutLater
  <1> QED BY <1>3, <1>4, <1>5 DEF q2

LEMMA OtherAppended ==
    ASSUME NEW q, Queue(q), NEW x, x.kind # "in"
    PROVE  /\ HasIn(Append(q, x)) <=> HasIn(q)
           /\ \A c : LastIn(Append(q, x), c) <=> LastIn(q, c)
           /\ \A c : OutLater(Append(q, x), c) <=> (OutLater(q, c) \/ (x.kind = "out" /\ x.client = c))
  <1> DEFINE q2 == Append(q, x)
             n == Len(q) + 1
  <1>1. /\ n \in Nat \ {0} /\ DOMAIN q2 = 1..n /\ q2[n] = x /\ DOMAIN q = 1..(n - 1)
        /\ \A i \in DOMAIN q : q2[i] = q[i]
    BY QueueAppend
  <1> HIDE DEF q2, n
  <1>2. \A i \in DOMAIN q2 : i \in DOMAIN q \/ i = n
    BY <1>1
  <1>3. \A i \in DOMAIN q : i \in DOMAIN q2 /\ n > i
    BY <1>1
  <1>4. \A j \in DOMAIN q2 : ~ (j > n)
    BY <1>1
  <1>5. n \in DOMAIN q2 /\ q2[n].kind # "in"
    BY <1>1
  <1>6. HasIn(q2) <=> HasIn(q)
    BY <1>1, <1>2, <1>3 DEF HasIn
  <1>7. ASSUME NEW i \in DOMAIN q
        PROVE  (\A j \in DOMAIN q2 : j > i => q2[j].kind # "in")
               <=> (\A j \in DOMAIN q : j > i => q[j].kind # "in")
    BY <1>1, <1>2, <1>3, <1>5
  <1>8. \A c : LastIn(q2, c) <=> LastIn(q, c)
    <2>1. ASSUME NEW c, LastIn(q2, c) PROVE LastIn(q, c)
      <3>1. PICK i \in DOMAIN q2 : /\ q2[i].kind = "in" /\ q2[i].client = c
                                   /\ \A j \in DOMAIN q2 : j > i => q2[j].kind # "in"
        BY <2>1 DEF LastIn
      <3>2. i \in DOMAIN q
        BY <3>1, <1>2, <1>5
      <3> QED BY <3>1, <3>2, <1>7, <1>1 DEF LastIn
    <2>2. ASSUME NEW c, LastIn(q, c) PROVE LastIn(q2, c)
      <3>1. PICK i \in DOMAIN q : /\ q[i].kind = "in" /\ q[i].client = c
                                  /\ \A j \in DOMAIN q : j > i => q[j].kind # "in"
        BY <2>2 DEF LastIn
      <3> QED BY <3>1, <1>3, <1>7, <1>1 DEF LastIn
    <2> QED BY <2>1, <2>2
  <1>9. \A c : OutLater(q2, c) <=> (OutLater(q, c) \/ (x.kind = "out" /\ x.client = c))
    <2>1. ASSUME NEW c, OutLater(q2, c) PROVE OutLater(q, c) \/ (x.kind = "out" /\ x.client = c)
      <3>1. PICK i \in DOMAIN q2 : /\ q2[i].kind = "out" /\ q2[i].client = c
                                   /\ \A j \in DOMAIN q2 : j > i => q2[j].kind # "in"
        BY <2>1 DEF OutLater
      <3>2. CASE i = n
        BY <3>1, <3>2, <1>1
      <3>3. CASE i \in DOMAIN q
        BY <3>1, <3>3, <1>7, <1>1 DEF OutLater
      <3> QED BY <3>2, <3>3, <1>2
    <2>2. ASSUME NEW c, OutLater(q, c) PROVE OutLater(q2, c)
      <3>1. PICK i \in DOMAIN q : /\ q[i].kind = "out" /\ q[i].client = c
                                  /\ \A j \in DOMAIN q : j > i => q[j].kind # "in"
        BY <2>2 DEF OutLater
      <3> QED BY <3>1, <1>3, <1>7, <1>1 DEF OutLater
    <2>3. ASSUME NEW c, x.kind = "out" /\ x.client = c PROVE OutLater(q2, c)
      BY <2>3, <1>1, <1>4, <1>5 DEF OutLater
    <2> QED BY <2>1, <2>2, <2>3
  <1> QED BY <1>6, <1>8, <1>9 DEF q2

LEMMA FirstTaken ==
    ASSUME NEW q, Queue(q), q # <<>>
    PROVE  /\ HasIn(Tail(q)) => HasIn(q)
           /\ HasIn(q) /\ Head(q).kind # "in" => HasIn(Tail(q))
           /\ HasIn(q) /\ ~ HasIn(Tail(q)) => LastIn(q, Head(q).client)
           /\ \A c : LastIn(Tail(q), c) => LastIn(q, c)
           /\ \A c : OutLater(Tail(q), c) => OutLater(q, c)
           /\ \A c : OutLater(q, c) /\ (HasIn(Tail(q)) \/ Head(q).kind # "out" \/ Head(q).client # c)
                     => OutLater(Tail(q), c)
  <1> DEFINE q2 == Tail(q)
  <1>1. /\ DOMAIN q = 1..Len(q) /\ Len(q) \in Nat \ {0} /\ DOMAIN q2 = 1..(Len(q) - 1)
        /\ \A i \in 1..(Len(q) - 1) : q2[i] = q[i + 1]
        /\ Head(q) = q[1]
    BY QueueTail
  <1> HIDE DEF q2
  <1>2. \A i \in DOMAIN q : i = 1 \/ (i - 1 \in DOMAIN q2 /\ q2[i - 1] = q[i] /\ i > 1)
    BY <1>1
  <1>3. \A i \in DOMAIN q2 : i + 1 \in DOMAIN q /\ q2[i] = q[i + 1] /\ i \in Int
    BY <1>1
  <1>4. 1 \in DOMAIN q /\ DOMAIN q \subseteq Int
    BY <1>1
  <1>5. HasIn(q2) => HasIn(q)
    BY <1>3 DEF HasIn
  <1>6. HasIn(q) /\ Head(q).kind # "in" => HasIn(q2)
    BY <1>1, <1>2 DEF HasIn
  <1>7. HasIn(q) /\ ~ HasIn(q2) => LastIn(q, Head(q).client)
    BY <1>1, <1>2, <1>4 DEF HasIn, LastIn
  <1>8. ASSUME NEW i \in DOMAIN q2
        PROVE  (\A j \in DOMAIN q : j > i + 1 => q[j].kind # "in")
               <=> (\A j \in DOMAIN q2 : j > i => q2[j].kind # "in")
    <2>1. ASSUME \A j \in DOMAIN q2 : j > i => q2[j].kind # "in", NEW j \in DOMAIN q, j > i + 1
          PROVE  q[j].kind # "in"
      <3>1. j - 1 \in DOMAIN q2 /\ q2[j - 1] = q[j] /\ j - 1 > i
        BY <2>1, <1>2, <1>3, <1>4, <1>1
      <3> QED BY <3>1, <2>1
    <2>2. ASSUME \A j \in DOMAIN q : j > i + 1 => q[j].kind # "in", NEW j \in DOMAIN q2, j > i
          PROVE  q2[j].kind # "in"
      <3>1. j + 1 \in DOMAIN q /\ q2[j] = q[j + 1] /\ j + 1 > i + 1
        BY <2>2, <1>3
      <3> QED BY <3>1, <2>2
    <2> QED BY <2>1, <2>2
  <1>9. \A c : LastIn(q2, c) => LastIn(q, c)
    BY <1>3, <1>8 DEF LastIn
  <1>10. \A c : OutLater(q2, c) => OutLater(q, c)
    BY <1>3, <1>8 DEF OutLater
  <1>11. ASSUME NEW c, OutLater(q, c), HasIn(q2) \/ Head(q).kind # "out" \/ Head(q).client # c
         PROVE  OutLater(q2, c)
    <2>1. PICK i \in DOMAIN q : /\ q[i].kind = "out" /\ q[i].client = c
                                /\ \A j \in DOMAIN q : j > i => q[j].kind # "in"
      BY <1>11 DEF OutLater
    <2>2. i # 1
      <3>1. CASE HasIn(q2)
        <4>1. PICK k \in DOMAIN q2 : q2[k].kind = "in"
          BY <3>1 DEF HasIn
        <4>2. k + 1 \in DOMAIN q /\ q[k + 1].kind = "in" /\ k + 1 > 1
          BY <4>1, <1>3, <1>1
        <4> QED BY <4>2, <2>1
      <3>2. CASE ~ HasIn(q2)
        BY <3>2, <1>11, <2>1, <1>1
      <3> QED BY <3>1, <3>2
    <2>3. i - 1 \in DOMAIN q2 /\ q2[i - 1] = q[i] /\ (i - 1) + 1 = i
      BY <2>2, <1>2, <1>4
    <2> QED BY <2>1, <2>3, <1>8 DEF OutLater
  <1> QED BY <1>5, <1>6, <1>7, <1>9, <1>10, <1>11 DEF q2

\* Every withdrawal of a client that waits has a gain of the focus behind it.
GainLater(q, c) ==
    \A i \in DOMAIN q : q[i].kind = "unmap" /\ q[i].client = c => \E j \in DOMAIN q : j > i /\ q[j].kind = "in"

LEMMA GainAppended ==
    ASSUME NEW q, Queue(q), NEW x
    PROVE  /\ x.kind = "in" => \A c : GainLater(Append(q, x), c)
           /\ \A c : GainLater(q, c) /\ (x.kind # "unmap" \/ x.client # c) => GainLater(Append(q, x), c)
  <1> DEFINE q2 == Append(q, x)
             n == Len(q) + 1
  <1>1. /\ n \in Nat \ {0} /\ DOMAIN q2 = 1..n /\ q2[n] = x /\ DOMAIN q = 1..(n - 1)
        /\ \A i \in DOMAIN q : q2[i] = q[i]
    BY QueueAppend
  <1> HIDE DEF q2, n
  <1>2. \A i \in DOMAIN q2 : i = n \/ (i \in DOMAIN q /\ n > i)
    BY <1>1
  <1>3. n \in DOMAIN q2 /\ \A i \in DOMAIN q : i \in DOMAIN q2
    BY <1>1
  <1>4. x.kind = "in" => \A c : GainLater(q2, c)
    BY <1>1, <1>2, <1>3 DEF GainLater
  <1>5. ASSUME NEW c, GainLater(q, c), x.kind # "unmap" \/ x.client # c PROVE GainLater(q2, c)
    BY <1>5, <1>1, <1>2, <1>3 DEF GainLater
  <1> QED BY <1>4, <1>5 DEF q2

LEMMA GainTail ==
    ASSUME NEW q, Queue(q), q # <<>>, NEW c, GainLater(q, c)
    PROVE  /\ GainLater(Tail(q), c)
           /\ Head(q).kind = "unmap" /\ Head(q).client = c => HasIn(Tail(q))
  <1> DEFINE q2 == Tail(q)
  <1>1. /\ DOMAIN q = 1..Len(q) /\ Len(q) \in Nat \ {0} /\ DOMAIN q2 = 1..(Len(q) - 1)
        /\ \A i \in 1..(Len(q) - 1) : q2[i] = q[i + 1]
        /\ Head(q) = q[1]
    BY QueueTail
  <1> HIDE DEF q2
  <1>2. \A j \in DOMAIN q : j > 1 => j - 1 \in DOMAIN q2 /\ q2[j - 1] = q[j]
    BY <1>1
  <1>3. \A i \in DOMAIN q2 : i + 1 \in DOMAIN q /\ q2[i] = q[i + 1] /\ i \in Nat \ {0}
    BY <1>1
  <1>4. 1 \in DOMAIN q /\ DOMAIN q \subseteq Nat
    BY <1>1
  <1>5. GainLater(q2, c)
    <2>1. ASSUME NEW i \in DOMAIN q2, q2[i].kind = "unmap", q2[i].client = c
          PROVE  \E j \in DOMAIN q2 : j > i /\ q2[j].kind = "in"
      <3>1. PICK j \in DOMAIN q : j > i + 1 /\ q[j].kind = "in"
        BY <2>1, <1>3 DEF GainLater
      <3>2. j - 1 \in DOMAIN q2 /\ q2[j - 1] = q[j] /\ j - 1 > i
        BY <3>1, <1>2, <1>3, <1>4
      <3> QED BY <3>1, <3>2
    <2> QED BY <2>1 DEF GainLater
  <1>6. Head(q).kind = "unmap" /\ Head(q).client = c => HasIn(q2)
    BY <1>1, <1>2, <1>4 DEF GainLater, HasIn
  <1> QED BY <1>5, <1>6 DEF q2

LEMMA EmptyQueue ==
    /\ Queue(<<>>) /\ ~ HasIn(<<>>)
    /\ \A c : ~ OutLater(<<>>, c) /\ ~ LastIn(<<>>, c)
    /\ \A kind, c : ~ Waits(kind, c, <<>>)
  BY DEF HasIn, OutLater, LastIn, Waits, Queue

(* ---- What the messages that wait will make of the managed clients ---- *)
\* A message turns the set of managed clients from a into b.
Turns(a, b, e) ==
    /\ e.kind = "map" => e.client \notin a /\ b = a \cup {e.client}
    /\ e.kind = "unmap" => e.client \in a /\ b = a \ {e.client}
    /\ e.kind = "in" => e.client \in a
    /\ e.kind \notin {"map", "unmap"} => b = a

\* The messages lead from the clients managed now to those whose programs want to be seen.
LeadTo(a, b, q) ==
    \E v \in [0..Len(q) -> SUBSET Clients] :
        /\ v[0] = a /\ v[Len(q)] = b
        /\ \A i \in 1..Len(q) : Turns(v[i - 1], v[i], q[i])

LEMMA LeadAppend ==
    ASSUME NEW q, Queue(q), NEW e, NEW a, NEW b, NEW c \in SUBSET Clients,
           LeadTo(a, b, q), Turns(b, c, e)
    PROVE  LeadTo(a, c, Append(q, e))
  <1> DEFINE q2 == Append(q, e)
             n == Len(q)
  <1>1. /\ n \in Nat /\ Len(q2) = n + 1 /\ q2[n + 1] = e
        /\ \A i \in 1..n : q2[i] = q[i]
    BY QueueAppend
  <1>2. PICK v \in [0..n -> SUBSET Clients] :
            /\ v[0] = a /\ v[n] = b
            /\ \A i \in 1..n : Turns(v[i - 1], v[i], q[i])
    BY DEF LeadTo
  <1> HIDE DEF q2, n
  <1> DEFINE v2 == [i \in 0..(n + 1) |-> IF i = n + 1 THEN c ELSE v[i]]
  <1>3. v2 \in [0..(n + 1) -> SUBSET Clients]
    BY <1>1, <1>2
  <1>4. v2[0] = a /\ v2[n + 1] = c
    BY <1>1, <1>2
  <1>5. ASSUME NEW i \in 1..(n + 1) PROVE Turns(v2[i - 1], v2[i], q2[i])
    <2>1. CASE i = n + 1
      <3>1. v2[i - 1] = b /\ v2[i] = c /\ q2[i] = e
        BY <2>1, <1>1, <1>2
      <3> HIDE DEF v2
      <3> QED BY <3>1
    <2>2. CASE i # n + 1
      <3>1. i \in 1..n /\ v2[i - 1] = v[i - 1] /\ v2[i] = v[i] /\ q2[i] = q[i]
        BY <2>2, <1>1
      <3> HIDE DEF v2
      <3> QED BY <3>1, <1>2
    <2> QED BY <2>1, <2>2
  <1> HIDE DEF v2
  <1>6. LeadTo(a, c, q2)
    BY <1>1, <1>3, <1>4, <1>5 DEF LeadTo
  <1> QED BY <1>6 DEF q2

LEMMA LeadTail ==
    ASSUME NEW q, Queue(q), q # <<>>, NEW a, NEW b, LeadTo(a, b, q)
    PROVE  \E c \in SUBSET Clients : Turns(a, c, Head(q)) /\ LeadTo(c, b, Tail(q))
  <1> DEFINE q2 == Tail(q)
             n == Len(q)
  <1>1. /\ n \in Nat \ {0} /\ Len(q2) = n - 1 /\ Head(q) = q[1]
        /\ \A i \in 1..(n - 1) : q2[i] = q[i + 1]
    BY QueueTail
  <1>2. PICK v \in [0..n -> SUBSET Clients] :
            /\ v[0] = a /\ v[n] = b
            /\ \A i \in 1..n : Turns(v[i - 1], v[i], q[i])
    BY DEF LeadTo
  <1> HIDE DEF q2, n
  <1> DEFINE v2 == [i \in 0..(n - 1) |-> v[i + 1]]
  <1>3. v2 \in [0..(n - 1) -> SUBSET Clients]
    BY <1>1, <1>2
  <1>4. v2[0] = v[1] /\ v2[n - 1] = b /\ v[1] \in SUBSET Clients /\ Turns(a, v[1], Head(q))
    <2>1. 1 \in 1..n /\ 1 - 1 = 0 /\ (n - 1) + 1 = n /\ 0 \in 0..(n - 1) /\ n - 1 \in 0..(n - 1) /\ 1 \in 0..n
      BY <1>1
    <2>2. Turns(v[1 - 1], v[1], q[1])
      BY <1>2, <2>1
    <2> QED BY <2>1, <2>2, <1>1, <1>2
  <1>5. ASSUME NEW i \in 1..(n - 1) PROVE Turns(v2[i - 1], v2[i], q2[i])
    <2>1. /\ i - 1 \in 0..(n - 1) /\ i \in 0..(n - 1) /\ i + 1 \in 1..n
          /\ (i - 1) + 1 = i /\ (i + 1) - 1 = i
      BY <1>1
    <2>2. v2[i - 1] = v[i] /\ v2[i] = v[i + 1] /\ q2[i] = q[i + 1]
      BY <1>1, <2>1
    <2>3. Turns(v[(i + 1) - 1], v[i + 1], q[i + 1])
      BY <2>1, <1>2
    <2> HIDE DEF v2
    <2> QED BY <2>1, <2>2, <2>3
  <1> HIDE DEF v2
  <1>6. LeadTo(v[1], b, q2)
    BY <1>1, <1>3, <1>4, <1>5 DEF LeadTo
  <1> QED BY <1>6, <1>4 DEF q2

\* A non-empty set of natural numbers has a least member.
LEMMA LeastOf ==
    ASSUME NEW S, S \subseteq Nat, S # {}
    PROVE  \E k \in S : \A j \in S : j >= k
<1>1. PICK k \in S : \A j \in S : ~ (<<j, k>> \in OpToRel(<, Nat))
    BY NatLessThanWellFounded, WFMin, Zenon
<1>2. \A j \in S : j < k => <<j, k>> \in OpToRel(<, Nat)
    BY Zenon DEF OpToRel
<1>3. \A j \in S : ~ (j < k)
    BY <1>1, <1>2
<1> QED BY <1>3

\* A managed client that does not want to be seen any more has said so.
LEMMA WithdrawalComes ==
    ASSUME NEW q, Queue(q), NEW a, NEW b, LeadTo(a, b, q), NEW c \in a \ b
    PROVE  Waits("unmap", c, q)
  <1>1. PICK v \in [0..Len(q) -> SUBSET Clients] :
            /\ v[0] = a /\ v[Len(q)] = b
            /\ \A i \in 1..Len(q) : Turns(v[i - 1], v[i], q[i])
    BY DEF LeadTo
  <1>2. Len(q) \in Nat /\ DOMAIN q = 1..Len(q)
    BY QueueAppend
  <1> DEFINE S == {i \in 0..Len(q) : c \notin v[i]}
  <1>3. S \subseteq Nat /\ Len(q) \in S /\ 0 \notin S
    BY <1>1, <1>2
  <1>4. PICK k \in S : \A j \in S : j >= k
    <2> HIDE DEF S
    <2> QED BY <1>3, LeastOf
  <1>5. k \in 1..Len(q) /\ k - 1 \in 0..Len(q) /\ ~ (k - 1 >= k)
    BY <1>2, <1>3, <1>4
  <1>6. c \in v[k - 1] /\ c \notin v[k]
    BY <1>4, <1>5
  <1>7. Turns(v[k - 1], v[k], q[k])
    BY <1>1, <1>5
  <1>8. q[k].kind = "unmap" /\ q[k].client = c
    BY <1>6, <1>7 DEF Turns
  <1> QED BY <1>2, <1>5, <1>8 DEF Waits

LEMMA LeadEmpty ==
    ASSUME NEW a \in SUBSET Clients
    PROVE  LeadTo(a, a, <<>>)
  <1> DEFINE v == [i \in 0..0 |-> a]
  <1>1. Len(<<>>) = 0 /\ v \in [0..0 -> SUBSET Clients] /\ v[0] = a /\ 1..0 = {}
    OBVIOUS
  <1> HIDE DEF v
  <1> QED BY <1>1 DEF LeadTo

(* ---- The notifications of a change of the focus ---- *)
Focuses ==
    {Window(c) : c \in Clients} \cup {Frame(c) : c \in Clients}
        \cup {Other(kind) : kind \in {"root", "pointer", "popup", "nothing"}}

In(c) == [kind |-> "in", client |-> c]
Out(c) == [kind |-> "out", client |-> c]

LEMMA FocusFacts ==
    ASSUME NEW f \in Focuses
    PROVE  /\ f.client \in Clients \cup {Nobody}
           /\ f.kind = "window" => f = Window(f.client) /\ f.client \in Clients
           /\ f \in OnRoot => f.client = Nobody
           /\ f.client = Nobody => f = Other(f.kind)
           /\ f.client # Nobody => f \in {Window(f.client), Frame(f.client)}
  BY ClientsAssumption DEF Focuses, Window, Frame, Other, OnRoot

LEMMA FrameFacts ==
    ASSUME NEW f \in Focuses, f.kind = "frame"
    PROVE  f = Frame(f.client)
  BY DEF Focuses, Window, Frame, Other

LEMMA SetToSeqFacts ==
    ASSUME NEW x
    PROVE  SetToSeq({}) = <<>> /\ SetToSeq({x}) = <<x>>
  <1>1. SetToSeq({}) = <<>>
    <2>1. Cardinality({}) = 0 /\ 1..0 = {}
      BY FS_EmptySet
    <2>2. \A f \in [1..0 -> {}] : f = <<>>
      BY <2>1
    <2>3. <<>> \in [1..0 -> {}] /\ IsInjective(<<>>)
      BY <2>1 DEF IsInjective
    <2> QED BY <2>1, <2>2, <2>3 DEF SetToSeq
  <1>2. SetToSeq({x}) = <<x>>
    <2>1. Cardinality({x}) = 1 /\ 1..1 = {1}
      BY FS_Singleton
    <2>2. \A f \in [1..1 -> {x}] : f = <<x>>
      BY <2>1
    <2>3. <<x>> \in [1..1 -> {x}] /\ IsInjective(<<x>>)
      BY <2>1 DEF IsInjective
    <2> QED BY <2>1, <2>2, <2>3 DEF SetToSeq
  <1> QED BY <1>1, <1>2

\* Who is told when the focus comes or goes.
Told1(f, under) == IF f \in OnRoot THEN under ELSE f.client

LEMMA NoticesFacts ==
    ASSUME NEW f \in Focuses, NEW under \in Clients \cup {Nobody}, NEW kind
    PROVE  Notices(kind, f, under) =
               IF Told1(f, under) = Nobody THEN <<>>
               ELSE <<[kind |-> kind, client |-> Told1(f, under)]>>
  <1> DEFINE who == Told1(f, under)
             x == [kind |-> kind, client |-> who]
             S == {[kind |-> kind, client |-> c] : c \in Concerned(f, under)}
  <1>1. Concerned(f, under) = {who} \ {Nobody}
    BY FocusFacts DEF Concerned, Told1
  <1>2. S = IF who = Nobody THEN {} ELSE {x}
    <2> HIDE DEF who
    <2>1. CASE who = Nobody
      BY <1>1, <2>1
    <2>2. CASE who # Nobody
      BY <1>1, <2>2
    <2> QED BY <2>1, <2>2
  <1>3. SetToSeq(S) = IF who = Nobody THEN <<>> ELSE <<x>>
    <2> HIDE DEF S, x, who
    <2> QED BY <1>2, SetToSeqFacts
  <1> QED BY <1>3 DEF Notices

LEMMA PairJoin ==
    ASSUME NEW x, NEW y
    PROVE  <<x>> \o <<y>> = <<x, y>>
  <1> DEFINE S == {x, y}
             l == <<x>> \o <<y>>
             r == <<x, y>>
  <1>1. <<x>> \in Seq(S) /\ <<y>> \in Seq(S) /\ r \in Seq(S)
    OBVIOUS
  <1>2. Len(<<x>>) = 1 /\ Len(<<y>>) = 1 /\ Len(r) = 2
    OBVIOUS
  <1>3. l \in Seq(S) /\ Len(l) = 2
    BY <1>1, <1>2
  <1>4. l[1] = x /\ l[2] = y /\ r[1] = x /\ r[2] = y
    BY <1>1, <1>2
  <1> HIDE DEF S, l, r
  <1>5. \A i \in 1..Len(l) : l[i] = r[i]
    BY <1>3, <1>4
  <1>6. l = r
    BY <1>1, <1>2, <1>3, <1>5, SeqEqual
  <1> QED BY <1>6 DEF l, r

LEMMA ToldFacts ==
    ASSUME NEW s, s.focus \in Focuses, NEW f \in Focuses, NEW under \in Clients \cup {Nobody},
           NEW q, Queue(q)
    PROVE  LET x == Told1(s.focus, under)
               y == Told1(f, under)
           IN  q \o Told(s, f, under) =
                   IF s.focus = f \/ (x = Nobody /\ y = Nobody) THEN q
                   ELSE IF x = Nobody THEN Append(q, In(y))
                   ELSE IF y = Nobody THEN Append(q, Out(x))
                   ELSE Append(Append(q, Out(x)), In(y))
  <1> DEFINE x == Told1(s.focus, under)
             y == Told1(f, under)
  <1>1. /\ Notices("out", s.focus, under) = IF x = Nobody THEN <<>> ELSE <<Out(x)>>
        /\ Notices("in", f, under) = IF y = Nobody THEN <<>> ELSE <<In(y)>>
    BY NoticesFacts DEF In, Out
  <1>2. Queue(<<In(y)>>) /\ Queue(<<Out(x)>>) /\ Queue(<<>>)
    <2>1. <<In(y)>> \in Seq({In(y)}) /\ <<Out(x)>> \in Seq({Out(x)})
      OBVIOUS
    <2> QED BY <2>1, EmptyQueue DEF Queue
  <1>3. /\ <<>> \o <<>> = <<>> /\ <<>> \o <<In(y)>> = <<In(y)>> /\ <<Out(x)>> \o <<>> = <<Out(x)>>
        /\ <<Out(x)>> \o <<In(y)>> = <<Out(x), In(y)>>
    <2>1. <<>> \o <<>> = <<>> /\ <<>> \o <<In(y)>> = <<In(y)>> /\ <<Out(x)>> \o <<>> = <<Out(x)>>
      BY <1>2, QueueJoin
    <2>2. <<Out(x)>> \o <<In(y)>> = <<Out(x), In(y)>>
      BY PairJoin
    <2> QED BY <2>1, <2>2
  <1>4. /\ q \o <<>> = q /\ q \o <<In(y)>> = Append(q, In(y)) /\ q \o <<Out(x)>> = Append(q, Out(x))
        /\ q \o <<Out(x), In(y)>> = Append(Append(q, Out(x)), In(y))
    BY QueueJoin
  <1>5. Told(s, f, under) =
            IF s.focus = f THEN <<>>
            ELSE (IF x = Nobody THEN <<>> ELSE <<Out(x)>>) \o (IF y = Nobody THEN <<>> ELSE <<In(y)>>)
    BY <1>1 DEF Told
  <1> HIDE DEF x, y
  <1>6. q \o Told(s, f, under) =
                   IF s.focus = f \/ (x = Nobody /\ y = Nobody) THEN q
                   ELSE IF x = Nobody THEN Append(q, In(y))
                   ELSE IF y = Nobody THEN Append(q, Out(x))
                   ELSE Append(Append(q, Out(x)), In(y))
    BY <1>3, <1>4, <1>5
  <1> QED BY <1>6 DEF x, y

Servers ==
    [wanted : SUBSET Clients, seen : SUBSET Clients, focus : Focuses, time : Nat,
     under : Clients \cup {Nobody}, late : BOOLEAN]

(* ---- What the server tells of the focus ---- *)
\* The last notification that waits is of the client that has the focus; when no client
\* has it, of one that passes for it, unless its loss waits too.
ToldOK(s, q) ==
    /\ s.focus.client = Nobody =>
          \A c : LastIn(q, c) => c = s.under \/ OutLater(q, c) \/ OutLater(q, Nobody)
    /\ s.focus.client # Nobody =>
          \A c : (LastIn(q, c) => c = s.focus.client) /\ ~ OutLater(q, c)

\* The window manager that calls f active agrees with the server, or will be told.
Agrees(s, q, f) ==
    \/ HasIn(q)
    \/ f \in Owners(s)
    \/ s.focus.client = Nobody /\ (OutLater(q, f) \/ OutLater(q, Nobody))

\* A client whose window got the focus back after it was withdrawn gains it later.
GainOK(s, q) == s.focus.kind = "window" => GainLater(q, s.focus.client)

\* Clients are named where they have to be, and what people do has its time.
EventOK(e) ==
    /\ e.kind \in {"in", "map", "unmap"} => e.client \in Clients
    /\ e.kind \in {"click", "root", "iconify", "activate"} => e.time \in Nat

EventsOK(q) == \A i \in DOMAIN q : EventOK(q[i])

LEMMA EventAppended ==
    ASSUME NEW q, Queue(q), EventsOK(q), NEW e, EventOK(e)
    PROVE  EventsOK(Append(q, e))
  <1> DEFINE q2 == Append(q, e)
  <1>1. /\ DOMAIN q = 1..Len(q) /\ DOMAIN q2 = 1..(Len(q) + 1) /\ Len(q) \in Nat
        /\ \A i \in 1..Len(q) : q2[i] = q[i]
        /\ q2[Len(q) + 1] = e
    BY QueueAppend
  <1> HIDE DEF q2
  <1>2. EventsOK(q2)
    BY <1>1 DEF EventsOK
  <1> QED BY <1>2 DEF q2

Passes(s, q, s2, q2) ==
    /\ Queue(q2)
    /\ EventsOK(q) => EventsOK(q2)
    /\ ToldOK(s, q) => ToldOK(s2, q2)
    /\ GainOK(s, q) => GainOK(s2, q2)
    /\ HasIn(q) => HasIn(q2)
    /\ s2.focus = s.focus \/ s2.focus.client = Nobody \/ HasIn(q2)
    /\ ~ s2.late => \A f : s.late \/ Agrees(s, q, f) => Agrees(s2, q2, f)
    /\ \A a, b : LeadTo(a, b, q) /\ b \in SUBSET Clients /\ s.wanted \subseteq b => LeadTo(a, b, q2)
    /\ \A c : Waits("unmap", c, q) => Waits("unmap", c, q2)

InOut == \A c : In(c).kind = "in" /\ In(c).client = c /\ Out(c).kind = "out" /\ Out(c).client = c

LEMMA InOutFacts == InOut
  BY DEF InOut, In, Out

LEMMA LeadIn ==
    ASSUME NEW q, Queue(q), NEW a, NEW b \in SUBSET Clients, LeadTo(a, b, q), NEW c \in b
    PROVE  LeadTo(a, b, Append(q, In(c)))
  <1>1. Turns(b, b, In(c))
    BY DEF Turns, In
  <1> QED BY <1>1, LeadAppend

LEMMA LeadOut ==
    ASSUME NEW q, Queue(q), NEW a, NEW b \in SUBSET Clients, LeadTo(a, b, q), NEW c
    PROVE  LeadTo(a, b, Append(q, Out(c)))
  <1>1. Turns(b, b, Out(c))
    BY DEF Turns, Out
  <1> QED BY <1>1, LeadAppend

LEMMA Lead ==
    ASSUME NEW q, Queue(q), NEW x, NEW y
    PROVE  /\ Queue(Append(q, In(y))) /\ Queue(Append(q, Out(x)))
           /\ Queue(Append(Append(q, Out(x)), In(y)))
           /\ EventsOK(q) =>
                 /\ EventsOK(Append(q, Out(x)))
                 /\ y \in Clients => EventsOK(Append(q, In(y))) /\ EventsOK(Append(Append(q, Out(x)), In(y)))
           /\ \A a, b \in SUBSET Clients : LeadTo(a, b, q) =>
                 /\ LeadTo(a, b, Append(q, Out(x)))
                 /\ y \in b => LeadTo(a, b, Append(q, In(y))) /\ LeadTo(a, b, Append(Append(q, Out(x)), In(y)))
           /\ \A c : Waits("unmap", c, q) =>
                 /\ Waits("unmap", c, Append(q, Out(x))) /\ Waits("unmap", c, Append(q, In(y)))
                 /\ Waits("unmap", c, Append(Append(q, Out(x)), In(y)))
  <1>1. /\ Queue(Append(q, In(y))) /\ Queue(Append(q, Out(x)))
        /\ Queue(Append(Append(q, Out(x)), In(y)))
    BY QueueAppend
  <1>2. ASSUME NEW a \in SUBSET Clients, NEW b \in SUBSET Clients, LeadTo(a, b, q)
        PROVE  /\ LeadTo(a, b, Append(q, Out(x)))
               /\ y \in b => LeadTo(a, b, Append(q, In(y))) /\ LeadTo(a, b, Append(Append(q, Out(x)), In(y)))
    BY <1>1, <1>2, LeadIn, LeadOut
  <1>3. ASSUME NEW c, Waits("unmap", c, q)
        PROVE  /\ Waits("unmap", c, Append(q, Out(x))) /\ Waits("unmap", c, Append(q, In(y)))
               /\ Waits("unmap", c, Append(Append(q, Out(x)), In(y)))
    BY <1>1, <1>3, WaitsAppend
  <1>4. EventsOK(q) =>
            /\ EventsOK(Append(q, Out(x)))
            /\ y \in Clients => EventsOK(Append(q, In(y))) /\ EventsOK(Append(Append(q, Out(x)), In(y)))
    <2>1. EventOK(Out(x)) /\ (y \in Clients => EventOK(In(y)))
      BY DEF EventOK, Out, In
    <2> QED BY <1>1, <2>1, EventAppended
  <1> QED BY <1>1, <1>2, <1>3, <1>4

LEMMA MovedPasses ==
    ASSUME NEW s \in Servers, s.seen \subseteq s.wanted, NEW q, Queue(q),
           NEW f \in Focuses, f.client \in s.seen \cup {Nobody},
           NEW under \in UnderPointer(s), NEW t
    PROVE  Passes(s, q, Moved(s, f, t, under), q \o Told(s, f, under))
  <1> DEFINE s2 == Moved(s, f, t, under)
             q2 == q \o Told(s, f, under)
             x == Told1(s.focus, under)
             y == Told1(f, under)
  <1>1. /\ s.focus \in Focuses /\ under \in Clients \cup {Nobody} /\ under \in s.wanted \cup {Nobody}
        /\ s.wanted \subseteq Clients /\ s.late \in BOOLEAN
    BY DEF Servers, UnderPointer
  <1>2. /\ s2.focus = f /\ s2.wanted = s.wanted
        /\ s2.late = (s.late /\ (f.client = Nobody \/ f = s.focus))
        /\ s2.under = IF f.client # Nobody THEN Nobody
                      ELSE IF f \in OnRoot \ {s.focus} /\ under # Nobody THEN under
                      ELSE s.under
    BY DEF Moved, Servers
  <1>3. /\ f.client # Nobody => f \notin OnRoot /\ y = f.client
        /\ s.focus.client # Nobody => s.focus \notin OnRoot /\ x = s.focus.client
        /\ f \in OnRoot => y = under /\ f.client = Nobody
        /\ f \notin OnRoot /\ f.client = Nobody => y = Nobody
        /\ y # Nobody => y \in s.wanted
    BY <1>1, FocusFacts DEF Told1
  <1>4. q2 = IF s.focus = f \/ (x = Nobody /\ y = Nobody) THEN q
             ELSE IF x = Nobody THEN Append(q, In(y))
             ELSE IF y = Nobody THEN Append(q, Out(x))
             ELSE Append(Append(q, Out(x)), In(y))
    BY <1>1, ToldFacts
  <1>5. /\ Queue(Append(q, In(y))) /\ Queue(Append(q, Out(x)))
        /\ Queue(Append(Append(q, Out(x)), In(y)))
        /\ EventsOK(q) =>
              /\ EventsOK(Append(q, Out(x)))
              /\ y \in Clients => EventsOK(Append(q, In(y))) /\ EventsOK(Append(Append(q, Out(x)), In(y)))
        /\ \A a, b \in SUBSET Clients : LeadTo(a, b, q) =>
              /\ LeadTo(a, b, Append(q, Out(x)))
              /\ y \in b => LeadTo(a, b, Append(q, In(y))) /\ LeadTo(a, b, Append(Append(q, Out(x)), In(y)))
        /\ \A c : Waits("unmap", c, q) =>
              /\ Waits("unmap", c, Append(q, Out(x))) /\ Waits("unmap", c, Append(q, In(y)))
              /\ Waits("unmap", c, Append(Append(q, Out(x)), In(y)))
    BY Lead
  <1>6. \A a, b : LeadTo(a, b, q) => a \in SUBSET Clients
    <2>1. ASSUME NEW a, NEW b, LeadTo(a, b, q) PROVE a \in SUBSET Clients
      <3>1. Len(q) \in Nat
        BY QueueAppend
      <3> QED BY <2>1, <3>1 DEF LeadTo
    <2> QED BY <2>1
  <1> HIDE DEF s2, q2, x, y
  <1>7. /\ Queue(q2) /\ (EventsOK(q) => EventsOK(q2))
        /\ \A a, b : LeadTo(a, b, q) /\ b \in SUBSET Clients /\ s.wanted \subseteq b => LeadTo(a, b, q2)
        /\ \A c : Waits("unmap", c, q) => Waits("unmap", c, q2)
    BY <1>1, <1>3, <1>4, <1>5, <1>6
  <1>8. /\ (ToldOK(s, q) => ToldOK(s2, q2))
        /\ (GainOK(s, q) => GainOK(s2, q2)) /\ (HasIn(q) => HasIn(q2))
        /\ s2.focus = s.focus \/ s2.focus.client = Nobody \/ HasIn(q2)
        /\ ~ s2.late => \A g : s.late \/ Agrees(s, q, g) => Agrees(s2, q2, g)
    <2>1. CASE s.focus = f
      <3>1. q2 = q /\ s2.focus = s.focus /\ s2.late = s.late
        BY <2>1, <1>2, <1>4, <1>1
      <3>2. s.focus.client = Nobody => s2.under = s.under
        BY <2>1, <1>2
      <3> QED BY <3>1, <3>2 DEF ToldOK, Agrees, Owners, GainOK
    <2>2. CASE s.focus # f /\ y # Nobody
      <3> DEFINE q1 == IF x = Nobody THEN q ELSE Append(q, Out(x))
      <3>1. q2 = Append(q1, In(y)) /\ Queue(q1)
        BY <2>2, <1>4, <1>5
      <3> HIDE DEF q1
      <3>2. /\ HasIn(q2)
            /\ \A c : LastIn(q2, c) <=> c = y
            /\ \A c : ~ OutLater(q2, c)
            /\ \A c : GainLater(q2, c)
        BY <3>1, InAppended, GainAppended, InOutFacts DEF InOut
      <3>3. s2.focus.client = Nobody => y = s2.under
        BY <1>2, <1>3, <2>2
      <3>4. s2.focus.client # Nobody => y = s2.focus.client
        BY <1>2, <1>3
      <3> QED BY <3>2, <3>3, <3>4 DEF ToldOK, Agrees, GainOK
    <2>3. CASE s.focus # f /\ y = Nobody
      <3>1. f.client = Nobody
        BY <2>3, <1>3
      <3>2. /\ s2.focus.client = Nobody /\ s2.late = s.late /\ s2.under = s.under
        BY <3>1, <1>1, <1>2, <1>3, <2>3
      <3>3. q2 = IF x = Nobody THEN q ELSE Append(q, Out(x))
        BY <2>3, <1>4
      <3>4. /\ HasIn(q2) <=> HasIn(q)
            /\ \A c : LastIn(q2, c) <=> LastIn(q, c)
            /\ \A c : OutLater(q, c) => OutLater(q2, c)
            /\ x # Nobody => OutLater(q2, x)
        BY <3>3, OtherAppended, InOutFacts DEF InOut
      <3>5. s.focus.client # Nobody => x = s.focus.client
        BY <1>3
      <3>6. ToldOK(s, q) => ToldOK(s2, q2)
        BY <3>2, <3>4, <3>5 DEF ToldOK
      <3>7. ~ s2.late => \A g : s.late \/ Agrees(s, q, g) => Agrees(s2, q2, g)
        BY <3>2, <3>4, <3>5 DEF Agrees, Owners
      <3>8. GainOK(s2, q2)
        BY <3>1, <1>2, FocusFacts, ClientsAssumption DEF GainOK
      <3> QED BY <3>2, <3>4, <3>6, <3>7, <3>8
    <2> QED BY <2>1, <2>2, <2>3
  <1> QED BY <1>7, <1>8 DEF Passes, s2, q2

LEMMA DestroyPasses ==
    ASSUME NEW s \in Servers, NEW q, Queue(q), s.focus.client # Nobody,
           NEW s2, s2.focus = Other("nothing")
    PROVE  Passes(s, q, s2, Append(q, Out(Nobody)))
  <1> DEFINE q2 == Append(q, Out(Nobody))
  <1>1. /\ Queue(q2) /\ (EventsOK(q) => EventsOK(q2))
        /\ \A a, b \in SUBSET Clients : LeadTo(a, b, q) => LeadTo(a, b, q2)
        /\ \A c : Waits("unmap", c, q) => Waits("unmap", c, q2)
    BY Lead
  <1>2. \A a, b : LeadTo(a, b, q) => a \in SUBSET Clients
    <2>1. ASSUME NEW a, NEW b, LeadTo(a, b, q) PROVE a \in SUBSET Clients
      <3>1. Len(q) \in Nat
        BY QueueAppend
      <3> QED BY <2>1, <3>1 DEF LeadTo
    <2> QED BY <2>1
  <1>3. OutLater(q2, Nobody) /\ s2.focus.client = Nobody /\ s2.focus.kind = "nothing" /\ (HasIn(q) => HasIn(q2))
    BY OtherAppended, InOutFacts DEF InOut, Other
  <1> HIDE DEF q2
  <1>4. ToldOK(s2, q2) /\ \A f : Agrees(s2, q2, f)
    BY <1>3 DEF ToldOK, Agrees
  <1>5. Passes(s, q, s2, q2)
    BY <1>1, <1>2, <1>3, <1>4 DEF Passes, GainOK
  <1> QED BY <1>5 DEF q2

LEMMA FramePasses ==
    ASSUME NEW s \in Servers, NEW q, Queue(q), NEW c \in s.wanted, NEW s2, s2.focus = Frame(c)
    PROVE  Passes(s, q, s2, Append(Append(q, Out(c)), In(c)))
  <1> DEFINE q1 == Append(q, Out(c))
             q2 == Append(q1, In(c))
  <1>1. /\ Queue(q1) /\ Queue(q2) /\ (EventsOK(q) /\ c \in Clients => EventsOK(q2))
        /\ \A a, b \in SUBSET Clients : LeadTo(a, b, q) /\ c \in b => LeadTo(a, b, q2)
        /\ \A d : Waits("unmap", d, q) => Waits("unmap", d, q2)
    BY Lead
  <1>2. \A a, b : LeadTo(a, b, q) => a \in SUBSET Clients
    <2>1. ASSUME NEW a, NEW b, LeadTo(a, b, q) PROVE a \in SUBSET Clients
      <3>1. Len(q) \in Nat
        BY QueueAppend
      <3> QED BY <2>1, <3>1 DEF LeadTo
    <2> QED BY <2>1
  <1> HIDE DEF q1
  <1>3. /\ HasIn(q2)
        /\ \A d : LastIn(q2, d) <=> d = c
        /\ \A d : ~ OutLater(q2, d)
    BY <1>1, InAppended, InOutFacts DEF InOut
  <1> HIDE DEF q2
  <1>4. s2.focus.client = c /\ s2.focus.kind = "frame" /\ c # Nobody /\ c \in Clients
    BY ClientsAssumption DEF Frame, Servers
  <1>5. Passes(s, q, s2, q2)
    BY <1>1, <1>2, <1>3, <1>4 DEF Passes, ToldOK, Agrees, GainOK
  <1> QED BY <1>5 DEF q2, q1

LEMMA NothingPasses ==
    ASSUME NEW s \in Servers, NEW q, Queue(q), NEW s2,
           s2.focus = s.focus, s2.under = s.under, s.late => s2.late
    PROVE  Passes(s, q, s2, q)
  BY DEF Passes, ToldOK, Agrees, Owners, GainOK

\* Messages that are not about the focus.
LEMMA OtherKeeps ==
    ASSUME NEW s, NEW q, Queue(q), NEW s2, s2.focus = s.focus, s2.under = s.under,
           NEW e, e.kind \notin {"in", "out"}
    PROVE  /\ ToldOK(s, q) => ToldOK(s2, Append(q, e))
           /\ \A f : Agrees(s, q, f) => Agrees(s2, Append(q, e), f)
  BY OtherAppended DEF ToldOK, Agrees, Owners

(* ---- The requests of the window manager ---- *)
Focusing(r) == r.kind \in {"focus", "take", "release"}

Asking(q) == \E i \in DOMAIN q : Focusing(q[i])

Serves(r, f) == IF r.kind = "release" THEN f = Nobody ELSE f = r.client

\* The last request for the focus is for the client the window manager calls active.
Served(q, f) ==
    \A i \in DOMAIN q :
        Focusing(q[i]) /\ (\A j \in DOMAIN q : j > i => ~ Focusing(q[j])) => Serves(q[i], f)

\* A client is shown before it is given the focus.
MapsFirst(q) ==
    \A i, j \in DOMAIN q : q[i].kind = "map" /\ Focusing(q[j]) => i < j

Kinds == {"map", "hide", "destroy", "focus", "take", "release"}

RequestOK(w, r) ==
    /\ r.kind \in Kinds
    /\ r.kind # "release" => r.client \in Clients
    /\ r.kind \in {"focus", "take", "map"} => r.client \in Usable(w)
    /\ Focusing(r) => r.time \in Nat
    /\ r.kind = "hide" => r.client \in w.iconic

RequestsOK(w, q) == \A i \in DOMAIN q : RequestOK(w, q[i])

LEMMA RequestTaken ==
    ASSUME NEW q, Queue(q), q # <<>>, NEW w
    PROVE  /\ Queue(Tail(q))
           /\ RequestsOK(w, q) => RequestOK(w, Head(q)) /\ RequestsOK(w, Tail(q))
           /\ MapsFirst(q) => MapsFirst(Tail(q))
           /\ \A f : Served(q, f) => Served(Tail(q), f)
           /\ Asking(Tail(q)) => Asking(q)
           /\ Asking(q) => Focusing(Head(q)) \/ Asking(Tail(q))
           /\ Focusing(Head(q)) /\ MapsFirst(q) => \A c : ~ Waits("map", c, Tail(q))
           /\ \A f : Focusing(Head(q)) /\ ~ Asking(Tail(q)) /\ Served(q, f) => Serves(Head(q), f)
  <1> DEFINE q2 == Tail(q)
  <1>1. /\ DOMAIN q = 1..Len(q) /\ Len(q) \in Nat \ {0} /\ DOMAIN q2 = 1..(Len(q) - 1)
        /\ \A i \in 1..(Len(q) - 1) : q2[i] = q[i + 1]
        /\ Head(q) = q[1] /\ Queue(q2)
    BY QueueTail
  <1> HIDE DEF q2
  <1>2. \A i \in DOMAIN q : i \in Int /\ (i = 1 \/ (i - 1 \in DOMAIN q2 /\ q2[i - 1] = q[i] /\ i > 1))
    BY <1>1
  <1>3. \A i \in DOMAIN q2 : i + 1 \in DOMAIN q /\ q2[i] = q[i + 1] /\ i \in Int /\ i + 1 > 1
    BY <1>1
  <1>4. 1 \in DOMAIN q
    BY <1>1
  <1>5. RequestsOK(w, q) => RequestOK(w, Head(q)) /\ RequestsOK(w, q2)
    BY <1>1, <1>3, <1>4 DEF RequestsOK
  <1>6. MapsFirst(q) => MapsFirst(q2)
    <2>1. ASSUME MapsFirst(q), NEW i \in DOMAIN q2, NEW j \in DOMAIN q2, q2[i].kind = "map", Focusing(q2[j])
          PROVE  i < j
      <3>1. i + 1 < j + 1
        BY <2>1, <1>3 DEF MapsFirst
      <3> QED BY <3>1, <1>3
    <2> QED BY <2>1 DEF MapsFirst
  <1>7. \A f : Served(q, f) => Served(q2, f)
    <2>1. ASSUME NEW f, Served(q, f), NEW i \in DOMAIN q2, Focusing(q2[i]),
                 \A j \in DOMAIN q2 : j > i => ~ Focusing(q2[j])
          PROVE  Serves(q2[i], f)
      <3>1. ASSUME NEW j \in DOMAIN q, j > i + 1 PROVE ~ Focusing(q[j])
        <4>1. j - 1 \in DOMAIN q2 /\ q2[j - 1] = q[j] /\ j - 1 > i
          BY <3>1, <1>2, <1>3
        <4> QED BY <4>1, <2>1
      <3> QED BY <3>1, <2>1, <1>3 DEF Served
    <2> QED BY <2>1 DEF Served
  <1>8. Asking(q2) => Asking(q)
    BY <1>3 DEF Asking
  <1>9. Asking(q) => Focusing(Head(q)) \/ Asking(q2)
    BY <1>1, <1>2 DEF Asking
  <1>10. Focusing(Head(q)) /\ MapsFirst(q) => \A c : ~ Waits("map", c, q2)
    <2>1. ASSUME Focusing(Head(q)), MapsFirst(q), NEW i \in DOMAIN q2, q2[i].kind = "map"
          PROVE  FALSE
      <3>1. i + 1 < 1
        BY <2>1, <1>1, <1>3, <1>4 DEF MapsFirst
      <3> QED BY <3>1, <1>3
    <2> QED BY <2>1 DEF Waits
  <1>11. \A f : Focusing(Head(q)) /\ ~ Asking(q2) /\ Served(q, f) => Serves(Head(q), f)
    <2>1. ASSUME NEW f, Focusing(Head(q)), ~ Asking(q2), Served(q, f)
          PROVE  Serves(Head(q), f)
      <3>1. \A j \in DOMAIN q : j > 1 => ~ Focusing(q[j])
        BY <2>1, <1>2 DEF Asking
      <3> QED BY <3>1, <2>1, <1>1, <1>4 DEF Served
    <2> QED BY <2>1
  <1> QED BY <1>1, <1>5, <1>6, <1>7, <1>8, <1>9, <1>10, <1>11 DEF q2

(* ---- The inductive invariant ---- *)
WMFields == {"managed", "iconic", "history", "focused", "pending", "timestamp", "dialogs", "stack"}

ManagerOK(w) ==
    /\ DOMAIN w = WMFields
    /\ w.managed \subseteq Clients /\ w.iconic \subseteq w.managed
    /\ w.pending \in Clients \cup {Nobody}
    /\ w.timestamp \in Nat
    /\ w.dialogs \in Families /\ w.stack \in Stacks(w.dialogs)

ServerOK(s) ==
    /\ s \in Servers
    /\ s.seen \subseteq s.wanted
    /\ s.focus.kind = "window" => s.focus.client \in s.seen

AskedOK(w, q) ==
    /\ Queue(q) /\ RequestsOK(w, q) /\ MapsFirst(q) /\ Served(q, w.focused)
    /\ Asking(q) \/ ~ Waits("map", w.focused, q)

\* A client that can be used is seen, will be, or was withdrawn.
Visible(w, s, q, p) ==
    \A c \in Usable(w) \ s.seen : Waits("map", c, q) \/ Waits("unmap", c, p)

\* An iconic client is hidden or will be.
Hidden(w, s, q) ==
    \A c \in w.iconic : Waits("hide", c, q) \/ (c \notin s.seen /\ s.focus.client # c)

DialogsAccept == \A dialogs \in Families : \A d \in DOMAIN dialogs : Accepts(d)

\* The window manager agrees with the server, will be told, or is about to ask.
Active(f, s, q, p, t) ==
    DialogsAccept /\ ~ s.late =>
        \/ Agrees(s, p, f)
        \/ Asking(q)
        \/ f # Nobody /\ (t[f] # Never \/ Waits("unmap", f, p))

\* The client that has the focus is managed, or its frame goes away, or the window
\* manager is yet to hear of it.
OwnerOK(w, s, q, p) ==
    \/ s.focus.client \in w.managed \cup {Nobody}
    \/ HasIn(p)
    \/ s.focus.kind = "frame" /\ Waits("destroy", s.focus.client, q)

InvAt(w, s, q, p, t) ==
    /\ ManagerOK(w) /\ w.focused \in Usable(w) \cup {Nobody}
    /\ ServerOK(s)
    /\ Queue(p) /\ EventsOK(p)
    /\ LeadTo(w.managed, s.wanted, p)
    /\ AskedOK(w, q)
    /\ ToldOK(s, p) /\ GainOK(s, p) /\ OwnerOK(w, s, q, p)
    /\ Visible(w, s, q, p) /\ Hidden(w, s, q)
    /\ t \in [Clients -> Nat \cup {Never}]
    /\ Active(w.focused, s, q, p, t)

FInv == InvAt(wm, server, requests, events, told) /\ now \in Nat

LEMMA Agreement == FInv => FocusAgrees
  <1> SUFFICES ASSUME FInv, DialogsAccept, Quiet, ~ server.late
               PROVE  wm.focused \in Owners(server)
    BY DEF FocusAgrees, DialogsAccept
  <1>1. events = <<>> /\ requests = <<>> /\ \A c \in Clients : told[c] = Never
    BY DEF Quiet
  <1>2. ~ Asking(requests)
    BY <1>1 DEF Asking
  <1>3. /\ ~ HasIn(events) /\ (\A c : ~ OutLater(events, c)) /\ \A c : ~ Waits("unmap", c, events)
    BY <1>1, EmptyQueue
  <1>4. wm.focused \in Clients \cup {Nobody}
    BY DEF FInv, InvAt, ManagerOK, Usable
  <1> QED BY <1>1, <1>2, <1>3, <1>4 DEF FInv, InvAt, Active, Agrees

(* ---- The server and the programs ---- *)
LEMMA ActivePasses ==
    ASSUME NEW f, NEW s, NEW q, NEW p, NEW t, Active(f, s, q, p, t),
           NEW s2, NEW q2, NEW p2, Passes(s, p, s2, p2), Asking(q) => Asking(q2)
    PROVE  Active(f, s2, q2, p2, t)
  BY DEF Active, Passes

\* Requests that were carried out without asking for the focus, and programs.
LEMMA StepKeeps ==
    ASSUME NEW w, NEW s, NEW q, NEW p, NEW t, InvAt(w, s, q, p, t),
           NEW s2, NEW q2, NEW p2, NEW t2, ServerOK(s2), s2.wanted = s.wanted, Passes(s, p, s2, p2),
           s2.focus.kind = "frame" /\ Waits("destroy", s2.focus.client, q) => Waits("destroy", s2.focus.client, q2),
           AskedOK(w, q2), Visible(w, s2, q2, p2), Hidden(w, s2, q2), t2 \in [Clients -> Nat \cup {Never}],
           Active(w.focused, s2, q2, p2, t2)
    PROVE  InvAt(w, s2, q2, p2, t2)
  <1>1. Queue(p2) /\ EventsOK(p2) /\ ToldOK(s2, p2) /\ GainOK(s2, p2)
    BY DEF InvAt, Passes
  <1>3. OwnerOK(w, s2, q2, p2)
    BY DEF InvAt, Passes, OwnerOK
  <1>2. LeadTo(w.managed, s2.wanted, p2)
    BY DEF InvAt, Passes, ServerOK, Servers
  <1> QED BY <1>1, <1>2, <1>3 DEF InvAt

\* The focus goes to a window that can be seen or away from the clients.
LEMMA ChangeKeeps ==
    ASSUME NEW w, NEW s, NEW q, NEW p, NEW t, InvAt(w, s, q, p, t),
           NEW s2, NEW p2, NEW q2, AskedOK(w, q2), \A kind \in {"map", "hide"} : \A c :
               Waits(kind, c, q) => Waits(kind, c, q2),
           NEW t2, t2 \in [Clients -> Nat \cup {Never}],
           ServerOK(s2), s2.wanted = s.wanted, s2.seen = s.seen, Passes(s, p, s2, p2),
           s2.focus.client \in s.seen \cup {Nobody, s.focus.client},
           s2.focus.kind = "frame" /\ Waits("destroy", s2.focus.client, q) => Waits("destroy", s2.focus.client, q2),
           Active(w.focused, s2, q2, p2, t2)
    PROVE  InvAt(w, s2, q2, p2, t2)
  <1>1. Visible(w, s2, q2, p2)
    BY DEF InvAt, Visible, Passes
  <1>2. Hidden(w, s2, q2)
    <2>1. ASSUME NEW c \in w.iconic PROVE Waits("hide", c, q2) \/ (c \notin s2.seen /\ s2.focus.client # c)
      <3>1. Waits("hide", c, q) \/ (c \notin s.seen /\ s.focus.client # c)
        BY DEF InvAt, Hidden
      <3>2. c # Nobody
        BY ClientsAssumption DEF InvAt, ManagerOK
      <3> QED BY <3>1, <3>2
    <2> QED BY <2>1 DEF Hidden
  <1> QED BY <1>1, <1>2, StepKeeps

LEMMA SetFocusFacts ==
    ASSUME ServerOK(server), Queue(events), NEW f,
           f \in {Window(c) : c \in Clients} \cup {Other("pointer"), Other("popup")},
           NEW t \in Nat, SetFocus(f, t)
    PROVE  /\ Passes(server, events, server', events')
           /\ ServerOK(server') /\ server'.wanted = server.wanted /\ server'.seen = server.seen
           /\ server'.focus.client \in server.seen \cup {Nobody, server.focus.client}
           /\ server'.late \/ server'.focus = f \/ f.client \in Clients \ server.seen
  <1>1. f \in Focuses /\ f.client \in Clients \cup {Nobody}
    BY FocusFacts DEF Focuses
  <1>2. server \in Servers /\ server.seen \subseteq server.wanted
    BY DEF ServerOK
  <1>3. CASE t < server.time
    <2>1. server' = [server EXCEPT !.late = TRUE] /\ events' = events
      BY <1>3 DEF SetFocus
    <2>2. /\ server'.focus = server.focus /\ server'.under = server.under /\ server'.late = TRUE
          /\ server'.wanted = server.wanted /\ server'.seen = server.seen /\ server' \in Servers
      BY <2>1, <1>2 DEF Servers
    <2> QED BY <2>1, <2>2, <1>2, NothingPasses DEF ServerOK
  <1>4. CASE ~ (t < server.time) /\ f.client \in Clients \ server.seen
    <2>1. server' = server /\ events' = events
      BY <1>4 DEF SetFocus
    <2> QED BY <2>1, <1>2, <1>4, NothingPasses DEF ServerOK
  <1>5. CASE ~ (t < server.time) /\ f.client \notin Clients \ server.seen
    <2>1. PICK under \in UnderPointer(server) :
             /\ server' = Moved(server, f, t, under)
             /\ events' = events \o Told(server, f, under)
      BY <1>5 DEF SetFocus
    <2>2. f.client \in server.seen \cup {Nobody}
      BY <1>1, <1>5
    <2>3. Passes(server, events, server', events')
      BY <1>1, <1>2, <2>1, <2>2, MovedPasses
    <2>4. under \in Clients \cup {Nobody}
      BY <1>2 DEF UnderPointer, Servers
    <2>5. /\ server'.focus = f /\ server'.wanted = server.wanted /\ server'.seen = server.seen
          /\ server' \in Servers
      BY <1>1, <1>2, <2>1, <2>4 DEF Moved, Servers
    <2>6. f.kind = "window" => f.client \in server.seen
      BY <2>2, ClientsAssumption, <1>1, FocusFacts
    <2> QED BY <1>2, <2>2, <2>3, <2>5, <2>6 DEF ServerOK
  <1> QED BY <1>3, <1>4, <1>5

LEMMA QuietAppend ==
    ASSUME NEW w, NEW s, NEW q, NEW p, NEW t, InvAt(w, s, q, p, t),
           NEW e, EventOK(e), e.kind \notin {"in", "out"},
           ~ (e.kind = "unmap" /\ s.focus.kind = "window" /\ e.client = s.focus.client),
           NEW s2, ServerOK(s2), s2.focus = s.focus, s2.under = s.under, s2.late = s.late,
           Turns(s.wanted, s2.wanted, e), Visible(w, s2, q, Append(p, e)), Hidden(w, s2, q)
    PROVE  InvAt(w, s2, q, Append(p, e), t)
  <1> DEFINE p2 == Append(p, e)
  <1>1. Queue(p) /\ EventsOK(p) /\ LeadTo(w.managed, s.wanted, p) /\ ToldOK(s, p) /\ Active(w.focused, s, q, p, t)
    BY DEF InvAt
  <1>2. Queue(p2) /\ EventsOK(p2)
    BY <1>1, QueueAppend, EventAppended
  <1>3. LeadTo(w.managed, s2.wanted, p2)
    BY <1>1, LeadAppend DEF ServerOK, Servers
  <1>4. ToldOK(s2, p2) /\ \A f : Agrees(s, p, f) => Agrees(s2, p2, f)
    BY <1>1, OtherKeeps
  <1>5. \A c : Waits("unmap", c, p) => Waits("unmap", c, p2)
    BY <1>1, WaitsAppend
  <1>8. GainOK(s2, p2)
    BY <1>1, GainAppended DEF GainOK, InvAt
  <1>9. OwnerOK(w, s2, q, p2)
    BY <1>1, OtherAppended DEF OwnerOK, InvAt
  <1> HIDE DEF p2
  <1>6. Active(w.focused, s2, q, p2, t)
    BY <1>1, <1>4, <1>5 DEF Active
  <1>7. InvAt(w, s2, q, p2, t)
    <2>1. Visible(w, s2, q, p2)
      BY DEF p2
    <2> QED BY <1>2, <1>3, <1>4, <1>6, <1>8, <1>9, <2>1 DEF InvAt
  <1> QED BY <1>7 DEF p2

LEMMA ActsKeeps ==
    ASSUME FInv, NEW kind \in {"click", "iconify", "activate", "root"}, NEW c, Acts(kind, c)
    PROVE  FInv'
  <1> DEFINE e == [kind |-> kind, client |-> c, time |-> now']
  <1>1. /\ events' = Append(events, e)
        /\ wm' = wm /\ server' = server /\ requests' = requests /\ told' = told
        /\ now' \in Nat
    BY DEF Acts, Notify, Acting, FInv
  <1>2. EventOK(e) /\ e.kind \notin {"in", "out", "unmap"} /\ Turns(server.wanted, server.wanted, e)
    BY <1>1 DEF EventOK, Turns
  <1> HIDE DEF e
  <1>3. InvAt(wm, server, requests, events, told)
    BY DEF FInv
  <1>4. ServerOK(server) /\ Hidden(wm, server, requests)
    BY <1>3 DEF InvAt
  <1>5. Visible(wm, server, requests, Append(events, e))
    <2>1. Queue(events) /\ Visible(wm, server, requests, events)
      BY <1>3 DEF InvAt
    <2>2. \A d : Waits("unmap", d, events) => Waits("unmap", d, Append(events, e))
      BY <2>1, WaitsAppend
    <2> QED BY <2>1, <2>2 DEF Visible
  <1>6. InvAt(wm, server, requests, Append(events, e), told)
    BY <1>2, <1>3, <1>4, <1>5, QuietAppend
  <1> QED BY <1>1, <1>6 DEF FInv

LEMMA ProgramMapsKeeps ==
    ASSUME FInv, NEW c \in Clients, ProgramMaps(c)
    PROVE  FInv'
  <1> DEFINE e == [kind |-> "map", client |-> c]
  <1>1. /\ events' = Append(events, e)
        /\ server' = [server EXCEPT !.wanted = @ \cup {c}] /\ c \notin server.wanted
        /\ wm' = wm /\ requests' = requests /\ told' = told /\ now' = now
    BY DEF ProgramMaps, Notify
  <1>2. InvAt(wm, server, requests, events, told)
    BY DEF FInv
  <1>3. /\ server \in Servers /\ Queue(events) /\ Visible(wm, server, requests, events)
        /\ Hidden(wm, server, requests) /\ ServerOK(server)
    BY <1>2 DEF InvAt, ServerOK
  <1>4. /\ server'.focus = server.focus /\ server'.under = server.under /\ server'.late = server.late
        /\ server'.wanted = server.wanted \cup {c} /\ server'.seen = server.seen /\ server' \in Servers
    BY <1>1, <1>3 DEF Servers
  <1>5. ServerOK(server') /\ Hidden(wm, server', requests)
    BY <1>3, <1>4 DEF ServerOK, Hidden
  <1>6. EventOK(e) /\ e.kind \notin {"in", "out", "unmap"} /\ Turns(server.wanted, server'.wanted, e)
    BY <1>1, <1>4 DEF EventOK, Turns
  <1> HIDE DEF e
  <1>7. Visible(wm, server', requests, Append(events, e))
    <2>2. \A d : Waits("unmap", d, events) => Waits("unmap", d, Append(events, e))
      BY <1>3, WaitsAppend
    <2> QED BY <1>3, <1>4, <2>2 DEF Visible
  <1>8. InvAt(wm, server', requests, Append(events, e), told)
    BY <1>2, <1>4, <1>5, <1>6, <1>7, QuietAppend
  <1> QED BY <1>1, <1>8 DEF FInv

LEMMA ProgramWithdrawsKeeps ==
    ASSUME FInv, NEW c \in Clients, ProgramWithdraws(c)
    PROVE  FInv'
  <1> DEFINE e == [kind |-> "unmap", client |-> c]
             p1 == IF server.focus = Window(c) THEN Append(Append(events, Out(c)), In(c)) ELSE events
             p2 == Append(p1, e)
             s2 == server'
  <1>1. InvAt(wm, server, requests, events, told)
    BY DEF FInv
  <1>2. /\ server \in Servers /\ Queue(events) /\ EventsOK(events) /\ Visible(wm, server, requests, events)
        /\ Hidden(wm, server, requests) /\ ServerOK(server) /\ ToldOK(server, events)
        /\ LeadTo(wm.managed, server.wanted, events)
        /\ Active(wm.focused, server, requests, events, told)
        /\ server.focus \in Focuses /\ c \in server.seen /\ c \in server.wanted /\ c # Nobody
        /\ ManagerOK(wm)
    BY <1>1, ClientsAssumption DEF InvAt, ServerOK, Servers, ProgramWithdraws
  <1>3. /\ s2 = [server EXCEPT !.seen = @ \ {c}, !.wanted = @ \ {c},
                               !.focus = IF @ = Window(c) THEN Frame(c) ELSE @]
        /\ wm' = wm /\ requests' = requests /\ told' = told /\ now' = now
    BY DEF ProgramWithdraws
  <1>4. events' = p2
    <2>1. events' = events
            \o (IF server.focus = Window(c) THEN <<Out(c), In(c)>> ELSE <<>>)
            \o <<e>>
      BY DEF ProgramWithdraws, Out, In
    <2>2. events \o <<Out(c), In(c)>> = Append(Append(events, Out(c)), In(c)) /\ events \o <<>> = events
      BY <1>2, QueueJoin
    <2>3. Queue(p1)
      BY <1>2, QueueAppend
    <2>4. p1 \o <<e>> = Append(p1, e)
      BY <2>3, QueueJoin
    <2> HIDE DEF e
    <2> QED BY <2>1, <2>2, <2>4
  <1>5. /\ s2.wanted = server.wanted \ {c} /\ s2.seen = server.seen \ {c}
        /\ s2.focus = IF server.focus = Window(c) THEN Frame(c) ELSE server.focus
        /\ s2.under = server.under /\ s2.late = server.late /\ s2 \in Servers
        /\ s2.focus.client = server.focus.client
    <2>1. /\ s2.wanted = server.wanted \ {c} /\ s2.seen = server.seen \ {c}
          /\ s2.focus = IF server.focus = Window(c) THEN Frame(c) ELSE server.focus
          /\ s2.under = server.under /\ s2.late = server.late
      BY <1>2, <1>3 DEF Servers
    <2>2. Frame(c) \in Focuses /\ Frame(c).client = Window(c).client
      BY DEF Focuses, Frame, Window
    <2>3. s2 \in Servers
      BY <1>2, <1>3, <2>2 DEF Servers
    <2> QED BY <2>1, <2>2, <2>3
  <1> HIDE DEF s2, p2
  <1>6. Passes(server, events, s2, p1)
    <2>1. CASE server.focus = Window(c)
      BY <2>1, <1>2, <1>5, FramePasses
    <2>2. CASE server.focus # Window(c)
      BY <2>2, <1>2, <1>5, NothingPasses
    <2> QED BY <2>1, <2>2
  <1> HIDE DEF p1
  <1>7. /\ Queue(p1) /\ EventsOK(p1) /\ ToldOK(s2, p1) /\ LeadTo(wm.managed, server.wanted, p1)
        /\ \A d : Waits("unmap", d, events) => Waits("unmap", d, p1)
        /\ Active(wm.focused, s2, requests, p1, told)
    <2>1. Active(wm.focused, s2, requests, p1, told)
      BY <1>2, <1>6, ActivePasses
    <2> QED BY <1>2, <1>6, <2>1 DEF Passes, Servers
  <1>8. EventOK(e) /\ e.kind \notin {"in", "out"} /\ Turns(server.wanted, s2.wanted, e)
        /\ e.kind = "unmap" /\ e.client = c
    BY <1>2, <1>5 DEF EventOK, Turns
  <1> HIDE DEF e
  <1>9. /\ Queue(p2) /\ EventsOK(p2) /\ LeadTo(wm.managed, s2.wanted, p2)
    BY <1>5, <1>7, <1>8, QueueAppend, EventAppended, LeadAppend DEF p2, Servers
  <1>10. ToldOK(s2, p2) /\ \A f : Agrees(s2, p1, f) => Agrees(s2, p2, f)
    BY <1>7, <1>8, OtherKeeps DEF p2
  <1>11. /\ \A d : Waits("unmap", d, p1) => Waits("unmap", d, p2)
         /\ Waits("unmap", c, p2)
    BY <1>7, <1>8, WaitsAppend DEF p2
  <1>12. Active(wm.focused, s2, requests, p2, told)
    BY <1>7, <1>10, <1>11 DEF Active
  <1>13. Visible(wm, s2, requests, p2)
    BY <1>2, <1>5, <1>7, <1>11 DEF Visible
  <1>14. Hidden(wm, s2, requests)
    BY <1>2, <1>5 DEF Hidden
  <1>15. ServerOK(s2)
    <2>1. s2.focus.kind = "window" => s2.focus = server.focus /\ server.focus # Window(c)
      BY <1>5 DEF Frame
    <2>2. server.focus.kind = "window" /\ server.focus # Window(c) => server.focus.client # c
      BY <1>2, FocusFacts
    <2> QED BY <1>2, <1>5, <2>1, <2>2 DEF ServerOK
  <1>17. GainOK(s2, p2)
    <2>1. GainOK(s2, p1)
      BY <1>1, <1>6 DEF InvAt, Passes
    <2>2. s2.focus.kind = "window" => s2.focus.client # c
      <3>1. s2.focus.kind = "window" => s2.focus = server.focus /\ server.focus # Window(c)
        BY <1>5 DEF Frame
      <3> QED BY <3>1, <1>2, <1>5, FocusFacts
    <2> QED BY <2>1, <2>2, <1>7, <1>8, GainAppended DEF GainOK, p2
  <1>18. OwnerOK(wm, s2, requests, p2)
    <2>1. HasIn(p2) <=> HasIn(p1)
      BY <1>7, <1>8, OtherAppended DEF p2
    <2> QED BY <2>1, <1>1, <1>6 DEF InvAt, Passes, OwnerOK
  <1>16. InvAt(wm, s2, requests, p2, told)
    BY <1>1, <1>9, <1>10, <1>12, <1>13, <1>14, <1>15, <1>17, <1>18 DEF InvAt
  <1> QED BY <1>3, <1>4, <1>16 DEF FInv, s2

LEMMA ProgramFocusesKeeps ==
    ASSUME FInv, NEW f \in {Window(c) : c \in Clients} \cup {Other("popup")}, ProgramFocuses(f)
    PROVE  FInv'
  <1>1. /\ SetFocus(f, now') /\ now' \in Nat
        /\ wm' = wm /\ requests' = requests /\ told' = told
    BY DEF ProgramFocuses, Acting, FInv
  <1>2. InvAt(wm, server, requests, events, told)
    BY DEF FInv
  <1>3. /\ ServerOK(server) /\ Queue(events) /\ AskedOK(wm, requests)
        /\ Active(wm.focused, server, requests, events, told) /\ told \in [Clients -> Nat \cup {Never}]
    BY <1>2 DEF InvAt
  <1>4. /\ Passes(server, events, server', events')
        /\ ServerOK(server') /\ server'.wanted = server.wanted /\ server'.seen = server.seen
        /\ server'.focus.client \in server.seen \cup {Nobody, server.focus.client}
    BY <1>1, <1>3, SetFocusFacts
  <1>5. Active(wm.focused, server', requests, events', told)
    BY <1>3, <1>4, ActivePasses
  <1>6. InvAt(wm, server', requests, events', told)
    BY <1>2, <1>3, <1>4, <1>5, ChangeKeeps
  <1> QED BY <1>1, <1>6 DEF FInv

LEMMA PopupClosesKeeps ==
    ASSUME FInv, PopupCloses
    PROVE  FInv'
  <1>1. InvAt(wm, server, requests, events, told)
    BY DEF FInv
  <1>2. /\ ServerOK(server) /\ server \in Servers /\ server.seen \subseteq server.wanted
        /\ Queue(events) /\ AskedOK(wm, requests)
        /\ Active(wm.focused, server, requests, events, told) /\ told \in [Clients -> Nat \cup {Never}]
    BY <1>1 DEF InvAt, ServerOK
  <1>3. PICK under \in UnderPointer(server) :
           /\ server' = Moved(server, Other("root"), server.time, under)
           /\ events' = events \o Told(server, Other("root"), under)
    BY DEF PopupCloses
  <1>4. wm' = wm /\ requests' = requests /\ told' = told /\ now' = now
    BY DEF PopupCloses
  <1>5. Other("root") \in Focuses /\ Other("root").client = Nobody /\ Other("root").kind = "root"
    BY DEF Focuses, Other
  <1>6. Passes(server, events, server', events')
    BY <1>2, <1>3, <1>5, MovedPasses
  <1>7. under \in Clients \cup {Nobody}
    BY <1>2 DEF UnderPointer, Servers
  <1>8. /\ server'.focus = Other("root") /\ server'.wanted = server.wanted /\ server'.seen = server.seen
        /\ server' \in Servers
    BY <1>2, <1>3, <1>5, <1>7 DEF Moved, Servers
  <1>9. ServerOK(server')
    BY <1>2, <1>5, <1>8 DEF ServerOK
  <1>10. Active(wm.focused, server', requests, events', told)
    BY <1>2, <1>6, ActivePasses
  <1>11. InvAt(wm, server', requests, events', told)
    BY <1>1, <1>2, <1>5, <1>6, <1>8, <1>9, <1>10, ChangeKeeps
  <1> QED BY <1>4, <1>11 DEF FInv

\* When the client that is called active has been given the focus, or could not be.
LEMMA ActiveGiven ==
    ASSUME NEW w, NEW s, NEW q, NEW p, NEW t, InvAt(w, s, q, p, t), w.focused \in Clients,
           ~ Waits("map", w.focused, q), NEW q2, NEW t2,
           NEW s2, NEW p2, Passes(s, p, s2, p2),
           s2.late \/ s2.focus = Window(w.focused) \/ w.focused \notin s.seen
    PROVE  Active(w.focused, s2, q2, p2, t2)
  <1>1. CASE s2.late
    BY <1>1 DEF Active
  <1>2. CASE s2.focus = Window(w.focused)
    BY <1>2, ClientsAssumption DEF Active, Agrees, Owners, Window
  <1>3. CASE w.focused \notin s.seen
    <2>1. w.focused \in Usable(w)
      BY ClientsAssumption DEF InvAt
    <2>2. Waits("unmap", w.focused, p)
      BY <2>1, <1>3 DEF InvAt, Visible
    <2> QED BY <2>2, ClientsAssumption DEF Passes, Active
  <1> QED BY <1>1, <1>2, <1>3

LEMMA ProgramTakesFocusKeeps ==
    ASSUME FInv, NEW c \in Clients, ProgramTakesFocus(c)
    PROVE  FInv'
  <1>1. InvAt(wm, server, requests, events, told)
    BY DEF FInv
  <1>2. /\ ServerOK(server) /\ server \in Servers /\ Queue(events) /\ AskedOK(wm, requests)
        /\ Active(wm.focused, server, requests, events, told) /\ told \in [Clients -> Nat \cup {Never}]
    BY <1>1 DEF InvAt, ServerOK
  <1>3. /\ wm' = wm /\ requests' = requests /\ now' = now
        /\ told' = [told EXCEPT ![c] = Never] /\ told[c] # Never
    BY DEF ProgramTakesFocus
  <1>4. told' \in [Clients -> Nat \cup {Never}] /\ \A d \in Clients : d # c => told'[d] = told[d]
    BY <1>2, <1>3 DEF Never
  <1>5. /\ Passes(server, events, server', events')
        /\ ServerOK(server') /\ server'.wanted = server.wanted /\ server'.seen = server.seen
        /\ server'.focus.client \in server.seen \cup {Nobody, server.focus.client}
        /\ server'.late \/ server'.focus = Window(c) \/ c \notin server.seen
    <2>1. CASE SetFocus(Window(c), told[c])
      <3>1. Window(c).client = c /\ told[c] \in Nat
        BY <1>2, <1>3 DEF Window
      <3> QED BY <2>1, <3>1, <1>2, SetFocusFacts
    <2>2. CASE server' = [server EXCEPT !.late = TRUE] /\ UNCHANGED events
      <3>1. /\ server'.focus = server.focus /\ server'.under = server.under /\ server'.late = TRUE
            /\ server'.wanted = server.wanted /\ server'.seen = server.seen /\ server' \in Servers
        BY <2>2, <1>2 DEF Servers
      <3> QED BY <2>2, <3>1, <1>2, NothingPasses DEF ServerOK
    <2> QED BY <2>1, <2>2 DEF ProgramTakesFocus
  <1>6. Active(wm.focused, server', requests, events', told')
    <2>1. CASE Asking(requests)
      BY <2>1 DEF Active
    <2>2. CASE wm.focused = c /\ ~ Asking(requests)
      BY <2>2, <1>1, <1>2, <1>5, ActiveGiven DEF AskedOK
    <2>3. CASE wm.focused # c
      <3>1. Active(wm.focused, server', requests, events', told)
        BY <1>2, <1>5, ActivePasses
      <3>2. wm.focused \in Clients \cup {Nobody}
        BY <1>1 DEF InvAt, ManagerOK, Usable
      <3> QED BY <3>1, <3>2, <2>3, <1>4 DEF Active
    <2> QED BY <2>1, <2>2, <2>3
  <1>7. InvAt(wm, server', requests, events', told')
    BY <1>1, <1>2, <1>4, <1>5, <1>6, ChangeKeeps
  <1> QED BY <1>3, <1>7 DEF FInv

LEMMA TakenFacts ==
    ASSUME NEW w, NEW q, AskedOK(w, q), q # <<>>
    PROVE  /\ AskedOK(w, Tail(q)) /\ RequestOK(w, Head(q))
           /\ Asking(q) => Focusing(Head(q)) \/ Asking(Tail(q))
           /\ \A kind, c : Waits(kind, c, q) =>
                 Waits(kind, c, Tail(q)) \/ (Head(q).kind = kind /\ Head(q).client = c)
           /\ Focusing(Head(q)) /\ ~ Asking(Tail(q)) => Serves(Head(q), w.focused)
  <1>1. Queue(q) /\ RequestsOK(w, q) /\ MapsFirst(q) /\ Served(q, w.focused)
    BY DEF AskedOK
  <1>2. /\ Queue(Tail(q)) /\ RequestsOK(w, Tail(q)) /\ RequestOK(w, Head(q))
        /\ MapsFirst(Tail(q)) /\ Served(Tail(q), w.focused)
        /\ Asking(Tail(q)) => Asking(q)
        /\ Asking(q) => Focusing(Head(q)) \/ Asking(Tail(q))
        /\ Focusing(Head(q)) => \A c : ~ Waits("map", c, Tail(q))
        /\ Focusing(Head(q)) /\ ~ Asking(Tail(q)) => Serves(Head(q), w.focused)
    BY <1>1, RequestTaken
  <1>3. \A kind, c : Waits(kind, c, q) <=>
                 Waits(kind, c, Tail(q)) \/ (Head(q).kind = kind /\ Head(q).client = c)
    BY <1>1, WaitsTail
  <1>4. Asking(Tail(q)) \/ ~ Waits("map", w.focused, Tail(q))
    BY <1>2, <1>3 DEF AskedOK
  <1> QED BY <1>2, <1>3, <1>4 DEF AskedOK

Executes(kind) == requests # <<>> /\ Head(requests).kind = kind /\ Execute

LEMMA ExecutesFacts ==
    ASSUME FInv, Execute
    PROVE  /\ requests # <<>> /\ requests' = Tail(requests) /\ wm' = wm /\ now' = now
           /\ InvAt(wm, server, requests, events, told)
           /\ AskedOK(wm, requests') /\ RequestOK(wm, Head(requests))
           /\ Asking(requests) => Focusing(Head(requests)) \/ Asking(requests')
           /\ \A kind, c : Waits(kind, c, requests) =>
                 Waits(kind, c, requests') \/ (Head(requests).kind = kind /\ Head(requests).client = c)
           /\ Focusing(Head(requests)) /\ ~ Asking(requests') => Serves(Head(requests), wm.focused)
  <1>1. requests # <<>> /\ requests' = Tail(requests) /\ wm' = wm /\ now' = now
    BY DEF Execute
  <1>2. InvAt(wm, server, requests, events, told)
    BY DEF FInv
  <1>3. AskedOK(wm, requests)
    BY <1>2 DEF InvAt
  <1> QED BY <1>1, <1>2, <1>3, TakenFacts

LEMMA ExecuteMap ==
    ASSUME FInv, Execute, Head(requests).kind = "map"
    PROVE  InvAt(wm, server', requests', events', told')
  <1> DEFINE c == Head(requests).client
             q2 == requests'
             s2 == server'
  <1>1. /\ InvAt(wm, server, requests, events, told)
        /\ AskedOK(wm, q2) /\ RequestOK(wm, Head(requests))
        /\ Asking(requests) => Asking(q2)
        /\ \A kind, d : Waits(kind, d, requests) => Waits(kind, d, q2) \/ (kind = "map" /\ d = c)
    BY ExecutesFacts DEF Focusing
  <1>2. /\ s2 = [server EXCEPT !.seen = @ \cup ({c} \cap server.wanted)]
        /\ events' = events /\ told' = told
    BY DEF Execute
  <1>3. c \in Usable(wm) /\ c \in Clients
    BY <1>1 DEF RequestOK, Kinds
  <1>4. /\ ServerOK(server) /\ server \in Servers /\ Queue(events)
        /\ Visible(wm, server, requests, events) /\ Hidden(wm, server, requests)
        /\ LeadTo(wm.managed, server.wanted, events)
        /\ Active(wm.focused, server, requests, events, told) /\ told \in [Clients -> Nat \cup {Never}]
    BY <1>1 DEF InvAt, ServerOK
  <1> HIDE DEF c, q2
  <1>5. /\ s2.focus = server.focus /\ s2.under = server.under /\ s2.late = server.late
        /\ s2.wanted = server.wanted /\ s2.seen = server.seen \cup ({c} \cap server.wanted)
        /\ s2 \in Servers
    BY <1>2, <1>3, <1>4 DEF Servers
  <1> HIDE DEF s2
  <1>6. ServerOK(s2)
    BY <1>4, <1>5 DEF ServerOK
  <1>7. Passes(server, events, s2, events)
    BY <1>4, <1>5, NothingPasses
  <1>8. Visible(wm, s2, q2, events)
    <2>1. c \in wm.managed \ server.wanted => Waits("unmap", c, events)
      BY <1>4, WithdrawalComes
    <2>2. c \in wm.managed
      BY <1>3 DEF Usable
    <2> QED BY <2>1, <2>2, <1>1, <1>4, <1>5 DEF Visible
  <1>9. Hidden(wm, s2, q2)
    <2>1. c \notin wm.iconic
      BY <1>3 DEF Usable
    <2> QED BY <2>1, <1>1, <1>4, <1>5 DEF Hidden
  <1>10. Active(wm.focused, s2, q2, events, told)
    BY <1>1, <1>4, <1>7, ActivePasses
  <1>11. InvAt(wm, s2, q2, events, told)
    BY <1>1, <1>4, <1>5, <1>6, <1>7, <1>8, <1>9, <1>10, StepKeeps
  <1> QED BY <1>2, <1>11 DEF s2, q2

LEMMA ExecuteHide ==
    ASSUME FInv, Execute, Head(requests).kind = "hide"
    PROVE  InvAt(wm, server', requests', events', told')
  <1> DEFINE c == Head(requests).client
             q2 == requests'
             s2 == server'
             p2 == events'
             left == [server EXCEPT !.seen = @ \ {c}]
             root == Other("root")
  <1>1. /\ InvAt(wm, server, requests, events, told)
        /\ AskedOK(wm, q2) /\ RequestOK(wm, Head(requests))
        /\ Asking(requests) => Asking(q2)
        /\ \A kind, d : Waits(kind, d, requests) => Waits(kind, d, q2) \/ (kind = "hide" /\ d = c)
    BY ExecutesFacts DEF Focusing
  <1>2. Disappears(server, {c}, root) /\ told' = told
    BY DEF Execute
  <1>3. c \in wm.iconic /\ c \in Clients
    BY <1>1 DEF RequestOK, Kinds
  <1>4. /\ ServerOK(server) /\ server \in Servers /\ server.seen \subseteq server.wanted
        /\ Queue(events) /\ server.focus \in Focuses
        /\ Visible(wm, server, requests, events) /\ Hidden(wm, server, requests)
        /\ Active(wm.focused, server, requests, events, told) /\ told \in [Clients -> Nat \cup {Never}]
    BY <1>1 DEF InvAt, ServerOK, Servers
  <1>5. /\ left.focus = server.focus /\ left.under = server.under /\ left.late = server.late
        /\ left.wanted = server.wanted /\ left.seen = server.seen \ {c} /\ left.time = server.time
        /\ left \in Servers
    BY <1>4 DEF Servers
  <1>6. root \in Focuses /\ root.client = Nobody /\ root.kind = "root"
    BY DEF Focuses, Other
  <1>7. PICK under \in UnderPointer(left) :
            /\ s2 = IF server.focus.client \in {c} THEN Moved(left, root, server.time, under) ELSE left
            /\ p2 = IF server.focus.client \in {c} THEN events \o Told(server, root, under) ELSE events
    BY <1>2 DEF Disappears
  <1> HIDE DEF c, q2, s2, p2, left, root
  <1>8. /\ Passes(left, events, s2, p2) /\ s2 \in Servers /\ s2.wanted = server.wanted
        /\ s2.seen = server.seen \ {c} /\ s2.focus \in {server.focus, root} /\ s2.focus.client # c
    <2>1. CASE server.focus.client = c
      <3>1. Told(server, root, under) = Told(left, root, under)
        BY <1>5 DEF Told
      <3>2. Passes(left, events, Moved(left, root, server.time, under), events \o Told(left, root, under))
        BY <1>4, <1>5, <1>6, MovedPasses
      <3>3. under \in Clients \cup {Nobody}
        BY <1>5 DEF UnderPointer, Servers
      <3>4. s2 \in Servers /\ s2.wanted = server.wanted /\ s2.seen = server.seen \ {c} /\ s2.focus = root
        BY <2>1, <3>3, <1>4, <1>5, <1>6, <1>7 DEF Moved, Servers
      <3> QED BY <2>1, <3>1, <3>2, <3>4, <1>3, <1>6, <1>7, ClientsAssumption
    <2>2. CASE server.focus.client # c
      <3>1. s2 = left /\ p2 = events
        BY <2>2, <1>7
      <3> QED BY <3>1, <2>2, <1>4, <1>5, NothingPasses
    <2> QED BY <2>1, <2>2
  <1>9. Passes(server, events, s2, p2)
    BY <1>5, <1>8 DEF Passes, ToldOK, GainOK, Agrees, Owners
  <1>10. ServerOK(s2)
    BY <1>4, <1>6, <1>8 DEF ServerOK
  <1>11. Visible(wm, s2, q2, p2)
    <2>1. c \notin Usable(wm)
      BY <1>3 DEF Usable
    <2> QED BY <2>1, <1>1, <1>4, <1>8, <1>9 DEF Visible, Passes
  <1>12. Hidden(wm, s2, q2)
    <2>1. ASSUME NEW d \in wm.iconic, ~ Waits("hide", d, q2) PROVE d \notin s2.seen /\ s2.focus.client # d
      <3>1. CASE d = c
        BY <3>1, <1>8
      <3>2. CASE d # c
        <4>1. d \notin server.seen /\ server.focus.client # d
          BY <2>1, <3>2, <1>1, <1>4 DEF Hidden
        <4>2. d # Nobody
          BY <1>1, ClientsAssumption DEF InvAt, ManagerOK
        <4> QED BY <4>1, <4>2, <1>6, <1>8
      <3> QED BY <3>1, <3>2
    <2> QED BY <2>1 DEF Hidden
  <1>13. Active(wm.focused, s2, q2, p2, told)
    BY <1>1, <1>4, <1>9, ActivePasses
  <1>14. InvAt(wm, s2, q2, p2, told)
    BY <1>1, <1>4, <1>8, <1>9, <1>10, <1>11, <1>12, <1>13, StepKeeps
  <1> QED BY <1>2, <1>14 DEF s2, q2, p2

LEMMA ExecuteDestroy ==
    ASSUME FInv, Execute, Head(requests).kind = "destroy"
    PROVE  InvAt(wm, server', requests', events', told')
  <1> DEFINE c == Head(requests).client
             q2 == requests'
             s2 == server'
             p2 == events'
  <1>1. /\ InvAt(wm, server, requests, events, told)
        /\ AskedOK(wm, q2) /\ RequestOK(wm, Head(requests))
        /\ Asking(requests) => Asking(q2)
        /\ \A kind, d : Waits(kind, d, requests) => Waits(kind, d, q2) \/ (kind = "destroy" /\ d = c)
    BY ExecutesFacts DEF Focusing
  <1>2. /\ s2 = IF server.focus = Frame(c)
                THEN [server EXCEPT !.focus = Other("nothing"), !.late = FALSE] ELSE server
        /\ p2 = IF server.focus = Frame(c) THEN Append(events, Out(Nobody)) ELSE events
        /\ told' = told
    BY DEF Execute, Out
  <1>3. c \in Clients
    BY <1>1 DEF RequestOK, Kinds
  <1>4. /\ ServerOK(server) /\ server \in Servers /\ Queue(events)
        /\ Active(wm.focused, server, requests, events, told) /\ told \in [Clients -> Nat \cup {Never}]
    BY <1>1 DEF InvAt, ServerOK
  <1> HIDE DEF c, q2
  <1>5. CASE server.focus # Frame(c)
    <2>1. s2 = server /\ p2 = events
      BY <1>2, <1>5
    <2>2. Passes(server, events, server, events)
      BY <1>4, NothingPasses
    <2>3. Active(wm.focused, server, q2, events, told)
      BY <1>1, <1>4, <2>2, ActivePasses
    <2>4. \A kind \in {"map", "hide"} : \A d : Waits(kind, d, requests) => Waits(kind, d, q2)
      BY <1>1
    <2>6. server.focus.kind = "frame" => server.focus.client # c
      <3>1. server.focus.kind = "frame" => server.focus = Frame(server.focus.client)
        BY <1>4, FrameFacts DEF Servers
      <3> QED BY <3>1, <1>5
    <2>7. server.focus.kind = "frame" /\ Waits("destroy", server.focus.client, requests)
             => Waits("destroy", server.focus.client, q2)
      BY <2>6, <1>1
    <2>5. InvAt(wm, server, q2, events, told)
      BY <1>1, <1>4, <2>2, <2>3, <2>4, <2>7, ChangeKeeps
    <2> QED BY <2>1, <2>5, <1>2 DEF q2
  <1>6. CASE server.focus = Frame(c)
    <2>1. s2 = [server EXCEPT !.focus = Other("nothing"), !.late = FALSE] /\ p2 = Append(events, Out(Nobody))
      BY <1>2, <1>6
    <2>2. Other("nothing") \in Focuses /\ Other("nothing").client = Nobody /\ Other("nothing").kind = "nothing"
      BY DEF Focuses, Other
    <2>3. s2.focus = Other("nothing") /\ s2.wanted = server.wanted /\ s2.seen = server.seen /\ s2 \in Servers
      BY <1>4, <2>1, <2>2 DEF Servers
    <2>4. server.focus.client # Nobody
      BY <1>3, <1>6, ClientsAssumption DEF Frame
    <2> HIDE DEF s2
    <2>5. Passes(server, events, s2, p2)
      BY <1>4, <2>1, <2>3, <2>4, DestroyPasses
    <2>6. Active(wm.focused, s2, q2, p2, told)
      BY <1>1, <1>4, <2>5, ActivePasses
    <2>7. ServerOK(s2)
      BY <1>4, <2>2, <2>3 DEF ServerOK
    <2>8. \A kind \in {"map", "hide"} : \A d : Waits(kind, d, requests) => Waits(kind, d, q2)
      BY <1>1
    <2>9. InvAt(wm, s2, q2, p2, told)
      BY <1>1, <1>4, <2>2, <2>3, <2>5, <2>6, <2>7, <2>8, ChangeKeeps
    <2> QED BY <2>9, <1>2 DEF q2, s2
  <1> QED BY <1>5, <1>6

\* The request was the last one for the focus, or others follow.
LEMMA ExecuteSets ==
    ASSUME FInv, Execute, Head(requests).kind \in {"focus", "release"}
    PROVE  InvAt(wm, server', requests', events', told')
  <1> DEFINE r == Head(requests)
             q2 == requests'
             f == IF r.kind = "focus" THEN Window(r.client) ELSE Other("pointer")
  <1>1. /\ InvAt(wm, server, requests, events, told)
        /\ AskedOK(wm, q2) /\ RequestOK(wm, r)
        /\ ~ Asking(q2) => Serves(r, wm.focused)
        /\ \A kind \in {"map", "hide", "destroy"} : \A d : Waits(kind, d, requests) => Waits(kind, d, q2)
    BY ExecutesFacts DEF Focusing
  <1>2. SetFocus(f, r.time) /\ told' = told
    BY DEF Execute
  <1>3. /\ r.time \in Nat /\ (r.kind = "focus" => r.client \in Clients)
        /\ f \in {Window(c) : c \in Clients} \cup {Other("pointer"), Other("popup")}
    BY <1>1 DEF RequestOK, Kinds, Focusing
  <1>4. /\ ServerOK(server) /\ Queue(events) /\ told \in [Clients -> Nat \cup {Never}]
    BY <1>1 DEF InvAt
  <1>5. /\ r.kind = "focus" => f = Window(r.client) /\ f.client = r.client
        /\ r.kind = "release" => f.client = Nobody
    BY DEF Window, Other
  <1>6. r.kind = "focus" \/ r.kind = "release"
    OBVIOUS
  <1> HIDE DEF r, q2, f
  <1>7. /\ Passes(server, events, server', events')
        /\ ServerOK(server') /\ server'.wanted = server.wanted /\ server'.seen = server.seen
        /\ server'.focus.client \in server.seen \cup {Nobody, server.focus.client}
        /\ server'.late \/ server'.focus = f \/ f.client \in Clients \ server.seen
    BY <1>2, <1>3, <1>4, SetFocusFacts
  <1>8. Active(wm.focused, server', q2, events', told)
    <2>1. CASE Asking(q2)
      BY <2>1 DEF Active
    <2>2. CASE ~ Asking(q2) /\ r.kind = "focus"
      <3>1. wm.focused = r.client /\ wm.focused \in Clients
        BY <2>2, <1>1, <1>3 DEF Serves
      <3>2. CASE server'.late
        BY <3>2 DEF Active
      <3>3. CASE server'.focus = f
        BY <2>2, <3>1, <3>3, <1>5, ClientsAssumption DEF Active, Agrees, Owners
      <3>4. CASE wm.focused \notin server.seen
        <4>1. Visible(wm, server, requests, events) /\ wm.focused \in Usable(wm)
          BY <3>1, <1>1, ClientsAssumption DEF InvAt
        <4>2. ~ Waits("map", wm.focused, q2)
          BY <2>2, <1>1 DEF AskedOK
        <4>3. Waits("unmap", wm.focused, events)
          BY <4>1, <4>2, <3>4, <1>1 DEF Visible
        <4> QED BY <4>3, <3>1, <1>7, ClientsAssumption DEF Active, Passes
      <3> QED BY <3>1, <3>2, <3>3, <3>4, <2>2, <1>5, <1>7
    <2>3. CASE ~ Asking(q2) /\ r.kind = "release"
      <3>1. wm.focused = Nobody
        BY <2>3, <1>1 DEF Serves
      <3>2. server'.late \/ server'.focus.client = Nobody
        BY <2>3, <1>5, <1>7, ClientsAssumption
      <3> QED BY <3>1, <3>2 DEF Active, Agrees, Owners
    <2> QED BY <1>6, <2>1, <2>2, <2>3
  <1>9. InvAt(wm, server', q2, events', told)
    BY <1>1, <1>4, <1>7, <1>8, ChangeKeeps
  <1> QED BY <1>2, <1>9 DEF q2

LEMMA ExecuteTake ==
    ASSUME FInv, Execute, Head(requests).kind = "take"
    PROVE  InvAt(wm, server', requests', events', told')
  <1> DEFINE r == Head(requests)
             q2 == requests'
  <1>1. /\ InvAt(wm, server, requests, events, told)
        /\ AskedOK(wm, q2) /\ RequestOK(wm, r)
        /\ ~ Asking(q2) => Serves(r, wm.focused)
        /\ \A kind \in {"map", "hide", "destroy"} : \A d : Waits(kind, d, requests) => Waits(kind, d, q2)
    BY ExecutesFacts DEF Focusing
  <1>2. server' = server /\ events' = events /\ told' = [told EXCEPT ![r.client] = r.time]
    BY DEF Execute
  <1>3. r.time \in Nat /\ r.client \in Clients /\ r.kind = "take"
    BY <1>1 DEF RequestOK, Kinds, Focusing
  <1>4. /\ ServerOK(server) /\ server \in Servers /\ Queue(events) /\ told \in [Clients -> Nat \cup {Never}]
    BY <1>1 DEF InvAt, ServerOK
  <1> HIDE DEF r, q2
  <1>5. told' \in [Clients -> Nat \cup {Never}] /\ told'[r.client] # Never
    BY <1>2, <1>3, <1>4 DEF Never
  <1>6. Active(wm.focused, server, q2, events, told')
    <2>1. CASE Asking(q2)
      BY <2>1 DEF Active
    <2>2. CASE ~ Asking(q2)
      BY <2>2, <1>1, <1>3, <1>5, ClientsAssumption DEF Active, Serves
    <2> QED BY <2>1, <2>2
  <1>7. Passes(server, events, server, events)
    BY <1>4, NothingPasses
  <1>8. InvAt(wm, server, q2, events, told')
    BY <1>1, <1>4, <1>5, <1>6, <1>7, ChangeKeeps
  <1> QED BY <1>2, <1>8 DEF q2

LEMMA ExecuteKeeps ==
    ASSUME FInv, Execute
    PROVE  FInv'
  <1>1. Head(requests).kind \in Kinds /\ wm' = wm /\ now' = now
    BY ExecutesFacts DEF RequestOK
  <1>2. InvAt(wm, server', requests', events', told')
    BY <1>1, ExecuteMap, ExecuteHide, ExecuteDestroy, ExecuteSets, ExecuteTake DEF Kinds
  <1> QED BY <1>1, <1>2 DEF FInv

(* ---- What the handlers have in common ---- *)
\* A result: a view and the requests that were made so far.
Shape(r) ==
    /\ DOMAIN r = {"wm", "requests"}
    /\ ManagerOK(r.wm)
    /\ Queue(r.requests) /\ RequestsOK(r.wm, r.requests) /\ MapsFirst(r.requests)

\* A result that can follow in a handler.
Part(r) ==
    /\ Shape(r)
    /\ \A c \in Usable(r.wm) \ Usable(wm) : Waits("map", c, r.requests)
    /\ \A c \in r.wm.iconic \ wm.iconic : Waits("hide", c, r.requests)
    /\ Turns(wm.managed, r.wm.managed, Head(events))
    /\ \A c \in wm.managed \ r.wm.managed : Waits("destroy", c, r.requests)

\* A result that settles who is active.
Good(r) ==
    /\ Part(r)
    /\ r.wm.focused \in Usable(r.wm) \cup {Nobody}
    /\ AskedOK(r.wm, r.requests)
    /\ Active(r.wm.focused, server, r.requests, Tail(events), told)

LEMMA LargestOf ==
    ASSUME NEW n \in Nat, NEW T \in SUBSET (1..n), T # {}
    PROVE  Max(T) \in T
  <1>0. n \in Int /\ \A i \in T : i \in Int
    OBVIOUS
  <1> DEFINE S == {n - i : i \in T}
  <1>1. S \subseteq Nat /\ S # {}
    <2>1. \A i \in T : n - i \in Nat
      OBVIOUS
    <2> QED BY <2>1
  <1>2. PICK k \in S : \A j \in S : j >= k
    BY <1>1, LeastOf
  <1>3. PICK m \in T : k = n - m
    OBVIOUS
  <1>4. \A i \in T : m >= i
    <2>1. \A i \in T : n - i >= n - m
      BY <1>2, <1>3
    <2> HIDE DEF S
    <2> QED BY <1>0, <2>1
  <1> QED BY <1>3, <1>4 DEF Max

\* A place of the stack, and what stands there.
LEMMA StackPlaces ==
    ASSUME NEW w, ManagerOK(w), NEW T, T \subseteq DOMAIN w.stack, T # {}
    PROVE  Max(T) \in T /\ w.stack[Max(T)] \in DOMAIN w.dialogs
  <1>1. IsFiniteSet(DOMAIN w.dialogs)
    BY FamiliesAssumption DEF ManagerOK
  <1> DEFINE n == Cardinality(DOMAIN w.dialogs)
  <1>2. n \in Nat
    BY <1>1, FS_CardinalityType
  <1>3. w.stack \in [1..n -> DOMAIN w.dialogs]
    BY DEF ManagerOK, Stacks, SetToSeqs
  <1> HIDE DEF n
  <1>4. T \in SUBSET (1..n)
    BY <1>3
  <1>5. Max(T) \in T
    BY <1>2, <1>4, LargestOf
  <1> QED BY <1>3, <1>4, <1>5

\* Where a request can get to from a client that can be used.
OnWay(w, c, r) ==
    r.target \in Usable(w) /\ (r.target = c \/ r.target \in DOMAIN w.dialogs)

LEMMA OnwardReaches ==
    ASSUME NEW w, ManagerOK(w), NEW c, NEW r, OnWay(w, c, r)
    PROVE  OnWay(w, c, Onward(w, r))
  <1> DEFINE blocking == {i \in DOMAIN w.stack : LET d == w.stack[i] IN
                             d \in Usable(w) \ r.visited /\ r.target \in w.dialogs[d]}
             next == w.stack[Max(blocking)]
  <1>1. Onward(w, r) = IF blocking = {} THEN r
                       ELSE [target |-> next, visited |-> r.visited \cup {next}]
    BY DEF Onward
  <1>2. \A i \in blocking : i \in DOMAIN w.stack /\ w.stack[i] \in Usable(w)
    OBVIOUS
  <1> HIDE DEF blocking
  <1>3. CASE blocking = {}
    BY <1>1, <1>3
  <1>4. CASE blocking # {}
    <2>1. blocking \subseteq DOMAIN w.stack
      BY <1>2
    <2>2. next \in Usable(w) /\ next \in DOMAIN w.dialogs
      BY <1>2, <1>4, <2>1, StackPlaces
    <2> HIDE DEF next
    <2>3. Onward(w, r).target = next
      BY <1>1, <1>4
    <2> QED BY <2>2, <2>3 DEF OnWay
  <1> QED BY <1>3, <1>4

Resolving ==
    INSTANCE FoldFacts WITH
        Op <- LAMBDA env, k, r : Onward(env.view, r),
        Pick <- LAMBDA T : CHOOSE k \in T : TRUE,
        Holds <- LAMBDA env, k, r : OnWay(env.view, env.client, r)

LEMMA TargetFacts ==
    ASSUME NEW w, ManagerOK(w), NEW c
    PROVE  /\ Target(w, c) \in Usable(w) \cup {Nobody}
           /\ Target(w, c) # Nobody => c \in Usable(w)
           /\ Target(w, c) \notin {c, Nobody} => Target(w, c) \in DOMAIN w.dialogs
           /\ c \in Usable(w) => Target(w, c) # Nobody
  <1>1. Nobody \notin Usable(w)
    BY ClientsAssumption DEF ManagerOK, Usable
  <1>2. CASE c \notin Usable(w)
    BY <1>2 DEF Target
  <1>3. CASE c \in Usable(w)
    <2> DEFINE env == [view |-> w, client |-> c]
               base == [target |-> c, visited |-> {c}]
               n == Len(w.stack)
               last == Resolving!Loop(env, base, n)
    <2>1. env.view = w /\ env.client = c
      OBVIOUS
    <2>2. Target(w, c) = last.target
      BY <1>3 DEF Target, Resolving!Loop
    <2>3. n \in Nat
      <3>1. IsFiniteSet(DOMAIN w.dialogs)
        BY FamiliesAssumption DEF ManagerOK
      <3> DEFINE m == Cardinality(DOMAIN w.dialogs)
      <3>2. m \in Nat
        BY <3>1, FS_CardinalityType
      <3>3. w.stack \in [1..m -> DOMAIN w.dialogs]
        BY DEF ManagerOK, Stacks, SetToSeqs
      <3> HIDE DEF m
      <3> QED BY <3>2, <3>3
    <2>4. OnWay(w, c, base)
      BY <1>3 DEF OnWay
    <2> HIDE DEF env, base, n
    <2>5. \A k \in 1..n : \A r : OnWay(env.view, env.client, r)
                                => OnWay(env.view, env.client, Onward(env.view, r))
      BY <2>1, OnwardReaches
    <2>6. OnWay(env.view, env.client, base)
      BY <2>1, <2>4
    <2>7. OnWay(env.view, env.client, last)
      BY <2>3, <2>5, <2>6, Resolving!LoopKeeps
    <2> HIDE DEF last
    <2> QED BY <1>1, <1>3, <2>1, <2>2, <2>7 DEF OnWay
  <1> QED BY <1>2, <1>3

\* A request for the focus ends a list of requests.
LEMMA AskAppended ==
    ASSUME NEW q, Queue(q), NEW w, RequestsOK(w, q), MapsFirst(q),
           NEW x, RequestOK(w, x), Focusing(x)
    PROVE  /\ Queue(Append(q, x)) /\ RequestsOK(w, Append(q, x)) /\ MapsFirst(Append(q, x))
           /\ Asking(Append(q, x))
           /\ \A f : Serves(x, f) => Served(Append(q, x), f)
           /\ \A kind, c : Waits(kind, c, q) => Waits(kind, c, Append(q, x))
           /\ \A i \in DOMAIN Append(q, x) :
                 Focusing(Append(q, x)[i]) \/ \E j \in DOMAIN q : q[j] = Append(q, x)[i]
  <1> DEFINE q2 == Append(q, x)
             n == Len(q) + 1
  <1>1. /\ n \in Nat \ {0} /\ DOMAIN q2 = 1..n /\ q2[n] = x /\ DOMAIN q = 1..(n - 1)
        /\ \A i \in DOMAIN q : q2[i] = q[i]
        /\ Queue(q2)
    BY QueueAppend
  <1>2. \A kind, c : Waits(kind, c, q) => Waits(kind, c, q2)
    BY WaitsAppend
  <1> HIDE DEF q2, n
  <1>3. \A i \in DOMAIN q2 : i = n \/ (i \in DOMAIN q /\ n > i)
    BY <1>1
  <1>4. n \in DOMAIN q2 /\ \A i \in DOMAIN q : i \in DOMAIN q2
    BY <1>1
  <1>5. RequestsOK(w, q2)
    BY <1>1, <1>3 DEF RequestsOK
  <1>6. MapsFirst(q2)
    <2>1. ASSUME NEW i \in DOMAIN q2, NEW j \in DOMAIN q2, q2[i].kind = "map", Focusing(q2[j])
          PROVE  i < j
      <3>1. i # n
        BY <2>1, <1>1 DEF Focusing
      <3>2. i \in DOMAIN q /\ n > i /\ q[i].kind = "map"
        BY <3>1, <2>1, <1>1, <1>3
      <3>3. CASE j = n
        BY <3>2, <3>3, <1>1
      <3>4. CASE j # n
        BY <3>2, <3>4, <2>1, <1>1, <1>3 DEF MapsFirst
      <3> QED BY <3>3, <3>4
    <2> QED BY <2>1 DEF MapsFirst
  <1>7. Asking(q2)
    BY <1>1, <1>4 DEF Asking
  <1>8. ASSUME NEW f, Serves(x, f) PROVE Served(q2, f)
    BY <1>8, <1>1, <1>3, <1>4 DEF Served
  <1>9. \A i \in DOMAIN q2 : Focusing(q2[i]) \/ \E j \in DOMAIN q : q[j] = q2[i]
    BY <1>1, <1>3
  <1> QED BY <1>1, <1>2, <1>5, <1>6, <1>7, <1>8, <1>9 DEF q2

SameClients(w, w2) == w2.managed = w.managed /\ w2.iconic = w.iconic

\* The second result is the first with requests for the focus added.
Asks(r, r2) ==
    /\ Shape(r2) /\ SameClients(r.wm, r2.wm)
    /\ r2.wm.pending = r.wm.pending /\ r2.wm.timestamp = r.wm.timestamp
    /\ r2.wm.focused \in Usable(r2.wm) \cup {Nobody}
    /\ Asking(r2.requests) /\ Served(r2.requests, r2.wm.focused)
    /\ \A kind, c : Waits(kind, c, r.requests) => Waits(kind, c, r2.requests)
    /\ \A i \in DOMAIN r2.requests :
          Focusing(r2.requests[i]) \/ \E j \in DOMAIN r.requests : r.requests[j] = r2.requests[i]

LEMMA OneAsks ==
    ASSUME NEW r, Shape(r), NEW w2, ManagerOK(w2), SameClients(r.wm, w2),
           w2.pending = r.wm.pending, w2.timestamp = r.wm.timestamp,
           NEW x, RequestOK(w2, x), Focusing(x),
           w2.focused \in Usable(w2) \cup {Nobody}, Serves(x, w2.focused),
           NEW r2, DOMAIN r2 = {"wm", "requests"}, r2.wm = w2, r2.requests = Append(r.requests, x)
    PROVE  Asks(r, r2)
  <1>1. Usable(w2) = Usable(r.wm) /\ \A y : RequestOK(r.wm, y) <=> RequestOK(w2, y)
    BY DEF SameClients, Usable, RequestOK
  <1>2. Queue(r.requests) /\ RequestsOK(w2, r.requests) /\ MapsFirst(r.requests)
    BY <1>1 DEF Shape, RequestsOK
  <1>3. /\ Queue(r2.requests) /\ RequestsOK(w2, r2.requests) /\ MapsFirst(r2.requests)
        /\ Asking(r2.requests) /\ Served(r2.requests, w2.focused)
        /\ \A kind, c : Waits(kind, c, r.requests) => Waits(kind, c, r2.requests)
        /\ \A i \in DOMAIN r2.requests :
              Focusing(r2.requests[i]) \/ \E j \in DOMAIN r.requests : r.requests[j] = r2.requests[i]
    BY <1>2, AskAppended
  <1>4. Shape(r2)
    BY <1>3 DEF Shape
  <1> QED BY <1>3, <1>4 DEF Asks

LEMMA ResultAsks ==
    ASSUME NEW r, Shape(r), NEW w2, ManagerOK(w2), SameClients(r.wm, w2),
           w2.pending = r.wm.pending, w2.timestamp = r.wm.timestamp,
           NEW x, RequestOK(w2, x), Focusing(x),
           w2.focused \in Usable(w2) \cup {Nobody}, Serves(x, w2.focused)
    PROVE  Asks(r, Result(w2, Append(r.requests, x)))
  <1> DEFINE r2 == Result(w2, Append(r.requests, x))
  <1>1. DOMAIN r2 = {"wm", "requests"} /\ r2.wm = w2 /\ r2.requests = Append(r.requests, x)
    BY DEF Result
  <1> HIDE DEF r2
  <1>2. Asks(r, r2)
    BY <1>1, OneAsks
  <1> QED BY <1>2 DEF r2

LEMMA AsksBoth ==
    ASSUME NEW r, NEW r1, Asks(r, r1), NEW r2, Asks(r1, r2)
    PROVE  Asks(r, r2)
  BY DEF Asks, SameClients

LEMMA AsksGood ==
    ASSUME NEW r, Part(r), NEW r2, Asks(r, r2)
    PROVE  Good(r2)
  <1>1. Part(r2)
    BY DEF Part, Asks, SameClients, Usable
  <1>2. AskedOK(r2.wm, r2.requests) /\ Active(r2.wm.focused, server, r2.requests, Tail(events), told)
    BY DEF Asks, Shape, AskedOK, Active
  <1> QED BY <1>1, <1>2 DEF Good, Asks

\* focus asks for a client that can take the focus, and leaves everything else alone.
LEMMA FocusAsks ==
    ASSUME NEW r, Shape(r), NEW c, NEW t \in Nat
    PROVE  \/ Focus(r, c, t) = r /\ (Target(r.wm, c) = Nobody \/ ~ Accepts(Target(r.wm, c)))
           \/ Asks(r, Focus(r, c, t))
  <1> DEFINE target == Target(r.wm, c)
             w2 == Focused(r.wm, target)
             x == [kind |-> "focus", client |-> target, time |-> t]
             y == [kind |-> "take", client |-> target, time |-> t]
             r2 == Focus(r, c, t)
  <1>1. CASE target = Nobody \/ ~ Accepts(target)
    BY <1>1 DEF Focus
  <1>2. CASE target # Nobody /\ Accepts(target)
    <2>1. ManagerOK(r.wm) /\ Queue(r.requests)
      BY DEF Shape
    <2>2. target \in Usable(r.wm) /\ target \in Clients
      BY <1>2, <2>1, TargetFacts DEF ManagerOK, Usable
    <2>3. /\ ManagerOK(w2) /\ SameClients(r.wm, w2) /\ w2.focused = target
          /\ w2.pending = r.wm.pending /\ w2.timestamp = r.wm.timestamp /\ target \in Usable(w2)
      BY <2>1, <2>2 DEF Focused, ManagerOK, WMFields, SameClients, Usable
    <2>4. r2 = Result(w2, r.requests \o (IF target \in Direct THEN <<x>> ELSE <<>>)
                                     \o (IF target \in Takers THEN <<y>> ELSE <<>>))
      BY <1>2 DEF Focus
    <2>5. /\ RequestOK(w2, x) /\ Focusing(x) /\ Serves(x, target)
          /\ RequestOK(w2, y) /\ Focusing(y) /\ Serves(y, target)
      BY <2>2, <2>3 DEF RequestOK, Focusing, Serves, Kinds
    <2>6. target \in Direct \/ target \in Takers
      BY <1>2 DEF Accepts
    <2> HIDE DEF x, y, r2, target, w2
    <2>7. Asks(r, Result(w2, Append(r.requests, x))) /\ Asks(r, Result(w2, Append(r.requests, y)))
      BY <2>3, <2>5, ResultAsks
    <2>8. CASE target \in Direct /\ target \notin Takers
      <3>1. r2 = Result(w2, Append(r.requests, x))
        <4>1. Queue(Append(r.requests, x)) /\ r.requests \o <<x>> = Append(r.requests, x)
          BY <2>1, QueueAppend
        <4>2. Append(r.requests, x) \o <<>> = Append(r.requests, x)
          BY <4>1, QueueJoin
        <4> QED BY <2>4, <2>8, <4>1, <4>2
      <3>2. Asks(r, r2)
        BY <3>1, <2>7
      <3> QED BY <3>2 DEF r2
    <2>9. CASE target \notin Direct /\ target \in Takers
      <3>1. r2 = Result(w2, Append(r.requests, y))
        <4>1. r.requests \o <<y>> = Append(r.requests, y) /\ r.requests \o <<>> = r.requests
          BY <2>1, QueueJoin
        <4> QED BY <2>4, <2>9, <4>1
      <3>2. Asks(r, r2)
        BY <3>1, <2>7
      <3> QED BY <3>2 DEF r2
    <2>10. CASE target \in Direct /\ target \in Takers
      <3> DEFINE r1 == Result(w2, Append(r.requests, x))
      <3>1. r2 = Result(w2, Append(Append(r.requests, x), y))
        <4>1. Queue(Append(r.requests, x)) /\ r.requests \o <<x>> = Append(r.requests, x)
          BY <2>1, QueueAppend
        <4>2. Append(r.requests, x) \o <<y>> = Append(Append(r.requests, x), y)
          BY <4>1, QueueJoin
        <4> QED BY <2>4, <2>10, <4>1, <4>2
      <3>2. Asks(r, r1) /\ Shape(r1) /\ r1.wm = w2 /\ r1.requests = Append(r.requests, x)
        BY <2>7 DEF Asks, Result
      <3>3. SameClients(r1.wm, w2)
        BY <3>2 DEF SameClients
      <3> HIDE DEF r1
      <3>4. Asks(r1, Result(w2, Append(r1.requests, y)))
        BY <3>2, <3>3, <2>3, <2>5, ResultAsks
      <3>5. Asks(r, r2)
        BY <3>1, <3>2, <3>4, AsksBoth
      <3> QED BY <3>5 DEF r2
    <2> QED BY <2>6, <2>8, <2>9, <2>10 DEF r2
  <1> QED BY <1>1, <1>2

LEMMA FocusGood ==
    ASSUME NEW r, Part(r), NEW c, NEW t \in Nat
    PROVE  \/ Focus(r, c, t) = r /\ (Target(r.wm, c) = Nobody \/ ~ Accepts(Target(r.wm, c)))
           \/ Good(Focus(r, c, t))
  BY FocusAsks, AsksGood DEF Part

LEMMA ReleaseGood ==
    ASSUME NEW r, Part(r), NEW t \in Nat
    PROVE  Good(Release(r, t))
  <1> DEFINE x == [kind |-> "release", time |-> t]
             w2 == [r.wm EXCEPT !.focused = Nobody]
             r2 == Release(r, t)
  <1>1. ManagerOK(r.wm) /\ Queue(r.requests) /\ DOMAIN r = {"wm", "requests"}
    BY DEF Part, Shape
  <1>2. ManagerOK(w2) /\ SameClients(r.wm, w2) /\ w2.focused = Nobody
        /\ w2.pending = r.wm.pending /\ w2.timestamp = r.wm.timestamp
    BY <1>1 DEF ManagerOK, WMFields, SameClients
  <1>3. RequestOK(w2, x) /\ Focusing(x) /\ Serves(x, Nobody)
    BY DEF RequestOK, Focusing, Serves, Kinds
  <1>4. r.requests \o <<x>> = Append(r.requests, x)
    BY <1>1, QueueJoin
  <1>5. DOMAIN r2 = {"wm", "requests"} /\ r2.wm = w2 /\ r2.requests = Append(r.requests, x)
    BY <1>1, <1>4 DEF Release, Then
  <1> HIDE DEF x, w2, r2
  <1>6. Asks(r, r2)
    BY <1>2, <1>3, <1>5, OneAsks DEF Part
  <1>7. Good(r2)
    BY <1>6, AsksGood
  <1> QED BY <1>7 DEF r2

LEMMA RealizeGood ==
    ASSUME NEW r, Part(r), NEW t \in Nat
    PROVE  Good(Realize(r, t))
  <1>1. CASE r.wm.focused /= Nobody /\ Focusable(r.wm, r.wm.focused)
    BY <1>1, FocusGood DEF Realize, Focusable
  <1>2. CASE ~ (r.wm.focused /= Nobody /\ Focusable(r.wm, r.wm.focused))
    BY <1>2, ReleaseGood DEF Realize
  <1> QED BY <1>1, <1>2

LEMMA FinishedGood ==
    ASSUME NEW r, Good(r)
    PROVE  Good(Finished(r))
  <1> DEFINE w2 == [r.wm EXCEPT !.pending = Nobody]
             r2 == [r EXCEPT !.wm.pending = Nobody]
  <1>1. Part(r) /\ ManagerOK(r.wm) /\ DOMAIN r = {"wm", "requests"}
    BY DEF Good, Part, Shape
  <1>2. ManagerOK(w2) /\ SameClients(r.wm, w2) /\ w2.focused = r.wm.focused
    BY <1>1 DEF ManagerOK, WMFields, SameClients
  <1>3. DOMAIN r2 = {"wm", "requests"} /\ r2.wm = w2 /\ r2.requests = r.requests
    BY <1>1
  <1>4. r.wm.timestamp \in Nat
    BY <1>1 DEF ManagerOK
  <1>5. Finished(r) = IF r.wm.pending = Nobody THEN r ELSE Focus(r2, r.wm.pending, r.wm.timestamp)
    BY DEF Finished
  <1> HIDE DEF w2, r2
  <1>6. Usable(w2) = Usable(r.wm) /\ \A y : RequestOK(r.wm, y) <=> RequestOK(w2, y)
    BY <1>2 DEF SameClients, Usable, RequestOK
  <1>7. Part(r2)
    BY <1>1, <1>2, <1>3, <1>6 DEF Part, Shape, RequestsOK, SameClients
  <1>8. Good(r2)
    BY <1>2, <1>3, <1>6, <1>7 DEF Good, AskedOK, RequestsOK
  <1> QED BY <1>4, <1>5, <1>7, <1>8, FocusGood

LEMMA EndsGood ==
    ASSUME NEW r, Good(r), Ends(r)
    PROVE  \E done : Good(done) /\ wm' = done.wm /\ requests' = done.requests
  BY FinishedGood DEF Ends

\* The server and the messages that are left when a handler begins.
LEMMA HandlesFacts ==
    ASSUME FInv, NEW kind, Handles(kind)
    PROVE  /\ requests = <<>> /\ events # <<>> /\ Head(events).kind = kind /\ events' = Tail(events)
           /\ server' = server /\ told' = told /\ now' = now
           /\ InvAt(wm, server, requests, events, told)
           /\ ManagerOK(wm) /\ wm.focused \in Usable(wm) \cup {Nobody}
           /\ ServerOK(server) /\ server.focus \in Focuses
           /\ Queue(events) /\ Queue(Tail(events)) /\ EventsOK(Tail(events)) /\ EventOK(Head(events))
           /\ ToldOK(server, events) /\ ToldOK(server, Tail(events))
           /\ GainOK(server, Tail(events))
           /\ ~ Asking(requests) /\ \A k, c : ~ Waits(k, c, requests)
           /\ \E c \in SUBSET Clients :
                 Turns(wm.managed, c, Head(events)) /\ LeadTo(c, server.wanted, Tail(events))
  <1>1. /\ requests = <<>> /\ events # <<>> /\ Head(events).kind = kind /\ events' = Tail(events)
        /\ server' = server /\ told' = told /\ now' = now
    BY DEF Handles
  <1>2. InvAt(wm, server, requests, events, told)
    BY DEF FInv
  <1>3. /\ ManagerOK(wm) /\ wm.focused \in Usable(wm) \cup {Nobody}
        /\ ServerOK(server) /\ server.focus \in Focuses
        /\ Queue(events) /\ EventsOK(events) /\ ToldOK(server, events) /\ GainOK(server, events)
        /\ LeadTo(wm.managed, server.wanted, events)
    BY <1>2 DEF InvAt, ServerOK, Servers
  <1>4. Queue(Tail(events)) /\ EventsOK(Tail(events)) /\ EventOK(Head(events))
    <2>1. /\ DOMAIN events = 1..Len(events) /\ Len(events) \in Nat \ {0}
          /\ DOMAIN Tail(events) = 1..(Len(events) - 1) /\ Head(events) = events[1]
          /\ \A i \in 1..(Len(events) - 1) : Tail(events)[i] = events[i + 1]
          /\ Queue(Tail(events))
      BY <1>1, <1>3, QueueTail
    <2>2. 1 \in DOMAIN events /\ \A i \in DOMAIN Tail(events) : i + 1 \in DOMAIN events
      BY <2>1
    <2> QED BY <2>1, <2>2, <1>3 DEF EventsOK
  <1>5. ToldOK(server, Tail(events))
    <2>1. \A c : LastIn(Tail(events), c) => LastIn(events, c) /\ HasIn(Tail(events))
      BY <1>1, <1>3, FirstTaken DEF LastIn, HasIn
    <2>2. \A c : OutLater(Tail(events), c) => OutLater(events, c)
      BY <1>1, <1>3, FirstTaken
    <2>3. HasIn(Tail(events)) => \A c : OutLater(events, c) => OutLater(Tail(events), c)
      BY <1>1, <1>3, FirstTaken
    <2> QED BY <2>1, <2>2, <2>3, <1>3 DEF ToldOK
  <1>6. GainOK(server, Tail(events))
    BY <1>1, <1>3, GainTail DEF GainOK
  <1>7. ~ Asking(requests) /\ \A k, c : ~ Waits(k, c, requests)
    BY <1>1, EmptyQueue DEF Asking
  <1>8. \E c \in SUBSET Clients :
           Turns(wm.managed, c, Head(events)) /\ LeadTo(c, server.wanted, Tail(events))
    BY <1>1, <1>3, LeadTail
  <1> QED BY <1>1, <1>2, <1>3, <1>4, <1>5, <1>6, <1>7, <1>8

\* A handler that settles who is active keeps the invariant.
LEMMA GoodStep ==
    ASSUME FInv, NEW kind, Handles(kind), NEW r, Good(r), Ends(r)
    PROVE  FInv'
  <1> DEFINE p2 == Tail(events)
  <1>1. PICK done : Good(done) /\ wm' = done.wm /\ requests' = done.requests
    BY EndsGood
  <1>2. /\ Part(done) /\ done.wm.focused \in Usable(done.wm) \cup {Nobody}
        /\ AskedOK(done.wm, done.requests)
        /\ Active(done.wm.focused, server, done.requests, p2, told)
    BY <1>1 DEF Good
  <1> DEFINE w2 == done.wm
             q2 == done.requests
  <1>3. /\ ManagerOK(w2) /\ Turns(wm.managed, w2.managed, Head(events))
        /\ \A c \in Usable(w2) \ Usable(wm) : Waits("map", c, q2)
        /\ \A c \in w2.iconic \ wm.iconic : Waits("hide", c, q2)
        /\ \A c \in wm.managed \ w2.managed : Waits("destroy", c, q2)
    BY <1>2 DEF Part, Shape
  <1>4. /\ events # <<>> /\ events' = p2
        /\ server' = server /\ told' = told /\ now' = now
        /\ InvAt(wm, server, requests, events, told)
        /\ ServerOK(server) /\ server.focus \in Focuses
        /\ Queue(events) /\ Queue(p2) /\ EventsOK(p2)
        /\ ToldOK(server, events) /\ ToldOK(server, p2)
        /\ GainOK(server, p2)
        /\ ~ Asking(requests) /\ \A k, c : ~ Waits(k, c, requests)
    BY HandlesFacts
  <1>5. PICK m \in SUBSET Clients : Turns(wm.managed, m, Head(events)) /\ LeadTo(m, server.wanted, p2)
    BY HandlesFacts
  <1>6. \A c : Waits("unmap", c, events) =>
            Waits("unmap", c, p2) \/ (Head(events).kind = "unmap" /\ Head(events).client = c)
    BY <1>4, WaitsTail
  <1>15. HasIn(events) /\ ~ HasIn(p2) => Head(events).kind = "in" /\ LastIn(events, Head(events).client)
    BY <1>4, FirstTaken
  <1>16. GainOK(server, events) /\ server.focus.kind = "window" /\ Head(events).kind = "unmap"
           /\ Head(events).client = server.focus.client => HasIn(p2)
    BY <1>4, GainTail DEF GainOK
  <1> HIDE DEF w2, q2, p2
  <1>7. LeadTo(w2.managed, server.wanted, p2)
    <2>1. w2.managed = m
      BY <1>3, <1>5 DEF Turns
    <2> QED BY <2>1, <1>5
  <1>8. Visible(w2, server, q2, p2)
    <2>1. ASSUME NEW c \in Usable(w2) \ server.seen, ~ Waits("map", c, q2) PROVE Waits("unmap", c, p2)
      <3>1. c \in Usable(wm)
        BY <2>1, <1>3
      <3>2. Waits("unmap", c, events)
        BY <2>1, <3>1, <1>4 DEF InvAt, Visible
      <3>3. Head(events).kind = "unmap" /\ Head(events).client = c => c \notin w2.managed
        BY <1>3 DEF Turns
      <3> QED BY <2>1, <3>2, <3>3, <1>6 DEF Usable
    <2> QED BY <2>1 DEF Visible
  <1>9. Hidden(w2, server, q2)
    BY <1>3, <1>4 DEF InvAt, Hidden
  <1>10. OwnerOK(w2, server, q2, p2)
    <2>1. CASE HasIn(p2) \/ server.focus.client = Nobody
      BY <2>1 DEF OwnerOK
    <2>2. CASE ~ HasIn(p2) /\ HasIn(events) /\ server.focus.client # Nobody
      <3>1. Head(events).client = server.focus.client
        BY <2>2, <1>4, <1>15 DEF ToldOK
      <3>2. server.focus.client \in w2.managed
        BY <2>2, <3>1, <1>3, <1>15 DEF Turns
      <3> QED BY <3>2 DEF OwnerOK
    <2>3. CASE ~ HasIn(p2) /\ ~ HasIn(events) /\ server.focus.client # Nobody
      <3>1. server.focus.client \in wm.managed
        BY <2>3, <1>4 DEF InvAt, OwnerOK
      <3>2. CASE server.focus.client \in w2.managed
        BY <3>2 DEF OwnerOK
      <3>3. CASE server.focus.client \notin w2.managed
        <4>1. Head(events).kind = "unmap" /\ Head(events).client = server.focus.client
          BY <3>1, <3>3, <1>3 DEF Turns
        <4>2. server.focus.kind # "window"
          BY <4>1, <2>3, <1>4, <1>16 DEF InvAt
        <4>3. server.focus.kind = "frame"
          BY <2>3, <4>2, <1>4, FocusFacts DEF Window, Frame
        <4> QED BY <4>3, <3>1, <3>3, <1>3 DEF OwnerOK
      <3> QED BY <3>2, <3>3
    <2> QED BY <2>1, <2>2, <2>3
  <1>11. /\ AskedOK(w2, q2) /\ Active(w2.focused, server, q2, p2, told)
         /\ w2.focused \in Usable(w2) \cup {Nobody} /\ told \in [Clients -> Nat \cup {Never}]
    BY <1>2, <1>4 DEF w2, q2, p2, InvAt
  <1>12. InvAt(w2, server, q2, p2, told)
    BY <1>3, <1>4, <1>7, <1>8, <1>9, <1>10, <1>11 DEF InvAt
  <1>13. wm' = w2 /\ requests' = q2
    BY <1>1 DEF w2, q2
  <1> QED BY <1>4, <1>12, <1>13 DEF FInv

\* A view that differs in nothing but times, claims and who is active.
LEMMA PlainPart ==
    ASSUME FInv, NEW kind, Handles(kind), kind \notin {"map", "unmap"},
           NEW w2, ManagerOK(w2), SameClients(wm, w2)
    PROVE  Part(Result(w2, <<>>))
  <1> DEFINE r == Result(w2, <<>>)
  <1>1. DOMAIN r = {"wm", "requests"} /\ r.wm = w2 /\ r.requests = <<>>
    BY DEF Result
  <1>2. Head(events).kind = kind /\ \E c \in SUBSET Clients : Turns(wm.managed, c, Head(events))
    BY HandlesFacts
  <1>3. Turns(wm.managed, w2.managed, Head(events))
    BY <1>2 DEF Turns, SameClients
  <1>4. Queue(<<>>) /\ DOMAIN <<>> = {}
    BY EmptyQueue
  <1>5. Usable(w2) = Usable(wm)
    BY DEF Usable, SameClients
  <1> HIDE DEF r
  <1>6. Part(r)
    BY <1>1, <1>3, <1>4, <1>5 DEF Part, Shape, RequestsOK, MapsFirst, SameClients
  <1> QED BY <1>6 DEF r

\* Without requests it is enough that who is active be right.
LEMMA PlainGood ==
    ASSUME FInv, NEW kind, Handles(kind), kind \notin {"map", "unmap"},
           NEW w2, ManagerOK(w2), SameClients(wm, w2), w2.focused \in Usable(wm) \cup {Nobody},
           Active(w2.focused, server, <<>>, Tail(events), told)
    PROVE  Good(Result(w2, <<>>))
  <1> DEFINE r == Result(w2, <<>>)
  <1>1. Part(r)
    BY PlainPart
  <1>2. r.wm = w2 /\ r.requests = <<>>
    BY DEF Result
  <1>3. Queue(<<>>) /\ DOMAIN <<>> = {} /\ \A k, c : ~ Waits(k, c, <<>>)
    BY EmptyQueue
  <1>4. Usable(w2) = Usable(wm)
    BY DEF Usable, SameClients
  <1> HIDE DEF r
  <1>5. AskedOK(w2, <<>>)
    BY <1>3 DEF AskedOK, RequestsOK, MapsFirst, Served
  <1>6. Good(r)
    BY <1>1, <1>2, <1>4, <1>5 DEF Good
  <1> QED BY <1>6 DEF r

\* A message that is not about the focus leaves it to the others.
LEMMA ActiveLeft ==
    ASSUME FInv, NEW kind, Handles(kind), kind # "in", kind = "unmap" => wm.focused # Head(events).client,
           kind = "out" => wm.focused \notin {Nobody, Head(events).client} /\ Head(events).client # Nobody,
           NEW q
    PROVE  Active(wm.focused, server, q, Tail(events), told)
  <1>1. /\ events # <<>> /\ Queue(events) /\ Head(events).kind = kind /\ ~ Asking(requests)
        /\ InvAt(wm, server, requests, events, told)
    BY HandlesFacts
  <1>2. Active(wm.focused, server, requests, events, told)
    BY <1>1 DEF InvAt
  <1>3. HasIn(events) => HasIn(Tail(events))
    BY <1>1, FirstTaken
  <1>4. \A c \in {wm.focused, Nobody} : OutLater(events, c) => OutLater(Tail(events), c)
    BY <1>1, FirstTaken
  <1>5. Waits("unmap", wm.focused, events) => Waits("unmap", wm.focused, Tail(events))
    BY <1>1, WaitsTail
  <1> QED BY <1>1, <1>2, <1>3, <1>4, <1>5 DEF Active, Agrees

LEMMA OneRequest ==
    ASSUME NEW x, ~ Focusing(x)
    PROVE  /\ Queue(<<x>>) /\ MapsFirst(<<x>>) /\ ~ Asking(<<x>>)
           /\ \A f : Served(<<x>>, f)
           /\ \A w : RequestOK(w, x) => RequestsOK(w, <<x>>)
           /\ \A kind, c : Waits(kind, c, <<x>>) <=> (x.kind = kind /\ x.client = c)
  <1> DEFINE q == <<x>>
  <1>1. q \in Seq({x}) /\ DOMAIN q = {1} /\ q[1] = x
    OBVIOUS
  <1> HIDE DEF q
  <1>2. Queue(q) /\ MapsFirst(q) /\ ~ Asking(q) /\ (\A f : Served(q, f))
    BY <1>1 DEF Queue, MapsFirst, Asking, Served
  <1>3. \A w : RequestOK(w, x) => RequestsOK(w, q)
    BY <1>1 DEF RequestsOK
  <1>4. \A kind, c : Waits(kind, c, q) <=> (x.kind = kind /\ x.client = c)
    BY <1>1 DEF Waits
  <1> QED BY <1>2, <1>3, <1>4 DEF q

(* ---- The notifications of the focus ---- *)
LEMMA ObserveGood ==
    ASSUME FInv, NEW kind \in {"in", "out"}, Handles(kind), NEW c \in wm.managed,
           Agrees(server, Tail(events), c),
           c \in wm.iconic => Agrees(server, Tail(events), Nobody)
    PROVE  Good(Observe(wm, c))
  <1>1. /\ ManagerOK(wm) /\ wm.focused \in Usable(wm) \cup {Nobody}
        /\ InvAt(wm, server, requests, events, told)
    BY HandlesFacts
  <1>2. CASE Target(wm, c) = Nobody
    <2> DEFINE w2 == [wm EXCEPT !.focused = Nobody]
    <2>1. ManagerOK(w2) /\ SameClients(wm, w2) /\ w2.focused = Nobody
      BY <1>1 DEF ManagerOK, WMFields, SameClients
    <2>2. Observe(wm, c) = Result(w2, <<>>)
      BY <1>1, <1>2, ClientsAssumption DEF Observe, ManagerOK
    <2> HIDE DEF w2
    <2>3. c \in wm.iconic
      BY <1>1, <1>2, TargetFacts DEF Usable
    <2>4. Active(w2.focused, server, <<>>, Tail(events), told)
      BY <2>1, <2>3 DEF Active
    <2>5. Good(Result(w2, <<>>))
      BY <2>1, <2>4, PlainGood
    <2> QED BY <2>2, <2>5
  <1>3. CASE Target(wm, c) = c /\ Target(wm, c) # Nobody
    <2> DEFINE w2 == Focused(wm, c)
    <2>1. ManagerOK(w2) /\ SameClients(wm, w2) /\ w2.focused = c
      BY <1>1 DEF Focused, ManagerOK, WMFields, SameClients
    <2>2. Observe(wm, c) = Result(w2, <<>>)
      BY <1>3 DEF Observe
    <2> HIDE DEF w2
    <2>3. c \in Usable(wm)
      BY <1>1, <1>3, TargetFacts
    <2>4. Active(w2.focused, server, <<>>, Tail(events), told)
      BY <2>1 DEF Active
    <2>5. Good(Result(w2, <<>>))
      BY <2>1, <2>3, <2>4, PlainGood
    <2> QED BY <2>2, <2>5
  <1>4. CASE Target(wm, c) \notin {c, Nobody}
    <2> DEFINE d == Target(wm, c)
    <2>1. Observe(wm, c) = Focus(Result(wm, <<>>), d, wm.timestamp)
      BY <1>4 DEF Observe
    <2>2. SameClients(wm, wm) /\ wm.timestamp \in Nat
      BY <1>1 DEF SameClients, ManagerOK
    <2>3. Part(Result(wm, <<>>))
      BY <1>1, <2>2, PlainPart
    <2>4. Result(wm, <<>>).wm = wm
      BY DEF Result
    <2>5. d \in Usable(wm) /\ d \in DOMAIN wm.dialogs
      BY <1>1, <1>4, TargetFacts
    <2> HIDE DEF d
    <2>6. Target(wm, d) # Nobody /\ Target(wm, d) \in DOMAIN wm.dialogs
      BY <1>1, <2>5, TargetFacts
    <2>7. CASE ~ Accepts(Target(wm, d))
      <3>1. ~ DialogsAccept
        BY <1>1, <2>6, <2>7 DEF DialogsAccept, ManagerOK
      <3>2. Active(wm.focused, server, <<>>, Tail(events), told)
        BY <3>1 DEF Active
      <3>3. Good(Result(wm, <<>>))
        BY <1>1, <2>2, <3>2, PlainGood
      <3>4. Focus(Result(wm, <<>>), d, wm.timestamp) = Result(wm, <<>>)
        BY <2>4, <2>7 DEF Focus
      <3> QED BY <2>1, <3>3, <3>4
    <2>8. CASE Accepts(Target(wm, d))
      <3>1. \/ Target(Result(wm, <<>>).wm, d) = Nobody \/ ~ Accepts(Target(Result(wm, <<>>).wm, d))
            \/ Good(Focus(Result(wm, <<>>), d, wm.timestamp))
        BY <2>2, <2>3, FocusGood
      <3> QED BY <2>1, <2>4, <2>6, <2>8, <3>1
    <2> QED BY <2>7, <2>8
  <1> QED BY <1>2, <1>3, <1>4

LEMMA FocusInKeeps ==
    ASSUME FInv, HandleFocusIn
    PROVE  FInv'
  <1> DEFINE c == Head(events).client
  <1>1. Handles("in")
    BY DEF HandleFocusIn
  <1>2. /\ events # <<>> /\ Queue(events) /\ Head(events).kind = "in" /\ ToldOK(server, events)
        /\ InvAt(wm, server, requests, events, told) /\ ManagerOK(wm)
        /\ \A k, d : ~ Waits(k, d, requests)
        /\ \E m \in SUBSET Clients : Turns(wm.managed, m, Head(events))
    BY <1>1, HandlesFacts
  <1>3. c \in wm.managed
    BY <1>2 DEF Turns
  <1>4. Ends(Observe(wm, c))
    BY <1>3 DEF HandleFocusIn
  <1>5. HasIn(events)
    BY <1>2, QueueTail DEF HasIn
  <1>6. ~ HasIn(Tail(events)) => LastIn(events, c)
    BY <1>2, <1>5, FirstTaken
  <1>7. \A d : OutLater(events, d) => OutLater(Tail(events), d)
    BY <1>2, FirstTaken
  <1>8. c # Nobody /\ c \in Clients
    BY <1>2, <1>3, ClientsAssumption DEF ManagerOK
  <1> HIDE DEF c
  <1>9. Agrees(server, Tail(events), c)
    BY <1>2, <1>6, <1>7, <1>8 DEF Agrees, ToldOK, Owners
  <1>10. c \in wm.iconic => Agrees(server, Tail(events), Nobody)
    <2>1. c \in wm.iconic => server.focus.client # c
      BY <1>2 DEF InvAt, Hidden
    <2>2. CASE server.focus.client = Nobody
      BY <2>2 DEF Agrees, Owners
    <2>3. CASE server.focus.client # Nobody
      BY <2>1, <2>3, <1>2, <1>6 DEF Agrees, ToldOK
    <2> QED BY <2>2, <2>3
  <1>11. Good(Observe(wm, c))
    BY <1>1, <1>3, <1>9, <1>10, ObserveGood
  <1> QED BY <1>1, <1>4, <1>11, GoodStep

LEMMA NothingGood ==
    ASSUME FInv, NEW kind, Handles(kind), kind \notin {"map", "unmap", "in"},
           kind = "out" => wm.focused \notin {Nobody, Head(events).client} /\ Head(events).client # Nobody,
           NEW w2, ManagerOK(w2), SameClients(wm, w2), w2.focused = wm.focused
    PROVE  Good(Result(w2, <<>>))
  <1>1. Active(w2.focused, server, <<>>, Tail(events), told)
    BY ActiveLeft
  <1>2. wm.focused \in Usable(wm) \cup {Nobody}
    BY HandlesFacts
  <1> QED BY <1>1, <1>2, PlainGood

LEMMA ReconcileGood ==
    ASSUME FInv, Handles("out")
    PROVE  Good(Reconcile(wm))
  <1> DEFINE c == server.focus.client
  <1>1. /\ InvAt(wm, server, requests, events, told) /\ ManagerOK(wm) /\ ServerOK(server)
        /\ \A k, d : ~ Waits(k, d, requests)
        /\ events # <<>> /\ Queue(events) /\ Head(events).kind = "out"
    BY HandlesFacts
  <1>2. CASE c \in wm.managed
    <2>1. Reconcile(wm) = Observe(wm, c)
      BY <1>2 DEF Reconcile
    <2>2. c # Nobody
      BY <1>1, <1>2, ClientsAssumption DEF ManagerOK
    <2>3. Agrees(server, Tail(events), c)
      BY <2>2 DEF Agrees, Owners
    <2>4. c \notin wm.iconic
      BY <1>1 DEF InvAt, Hidden
    <2> HIDE DEF c
    <2> QED BY <1>2, <2>1, <2>3, <2>4, ObserveGood
  <1>3. CASE c \notin wm.managed
    <2> DEFINE w2 == [wm EXCEPT !.focused = Nobody]
    <2>1. ManagerOK(w2) /\ SameClients(wm, w2) /\ w2.focused = Nobody
      BY <1>1 DEF ManagerOK, WMFields, SameClients
    <2>2. Reconcile(wm) = Result(w2, <<>>)
      BY <1>3 DEF Reconcile
    <2> HIDE DEF w2
    <2>3. HasIn(events) => HasIn(Tail(events))
      BY <1>1, FirstTaken
    <2>4. c = Nobody \/ HasIn(Tail(events))
      BY <1>1, <1>3, <2>3 DEF InvAt, OwnerOK
    <2>5. Active(w2.focused, server, <<>>, Tail(events), told)
      BY <2>1, <2>4 DEF Active, Agrees, Owners
    <2>6. Good(Result(w2, <<>>))
      BY <2>1, <2>5, PlainGood
    <2> QED BY <2>2, <2>6
  <1> QED BY <1>2, <1>3

LEMMA FocusOutKeeps ==
    ASSUME FInv, HandleFocusOut
    PROVE  FInv'
  <1> DEFINE c == Head(events).client
             skip == c \in wm.managed /\ wm.focused \notin {c, Nobody}
  <1>1. /\ Handles("out")
        /\ Ends(IF skip THEN Result(wm, <<>>) ELSE Reconcile(wm))
    BY DEF HandleFocusOut
  <1>2. ManagerOK(wm) /\ SameClients(wm, wm)
    BY <1>1, HandlesFacts DEF SameClients
  <1>3. skip => wm.focused \notin {Nobody, Head(events).client} /\ Head(events).client # Nobody
    BY <1>2, ClientsAssumption DEF ManagerOK
  <1> HIDE DEF skip
  <1>4. skip => Good(Result(wm, <<>>))
    BY <1>1, <1>2, <1>3, NothingGood
  <1>5. Good(Reconcile(wm))
    BY <1>1, ReconcileGood
  <1>6. Good(IF skip THEN Result(wm, <<>>) ELSE Reconcile(wm))
    BY <1>4, <1>5
  <1> QED BY <1>1, <1>6, GoodStep

(* ---- What people ask for ---- *)
LEMMA InputFacts ==
    ASSUME FInv, NEW kind \in {"click", "root", "iconify"}, Handles(kind)
    PROVE  /\ Head(events).time \in Nat
           /\ ManagerOK(Input(Head(events).time)) /\ SameClients(wm, Input(Head(events).time))
           /\ Input(Head(events).time).focused = wm.focused
           /\ Good(Result(Input(Head(events).time), <<>>))
  <1>1. Head(events).kind = kind /\ EventOK(Head(events)) /\ ManagerOK(wm)
    BY HandlesFacts
  <1>2. Head(events).time \in Nat
    BY <1>1 DEF EventOK
  <1> DEFINE w2 == Input(Head(events).time)
  <1>3. ManagerOK(w2) /\ SameClients(wm, w2) /\ w2.focused = wm.focused
    BY <1>1, <1>2 DEF Input, ManagerOK, WMFields, SameClients
  <1> HIDE DEF w2
  <1>4. Good(Result(w2, <<>>))
    BY <1>3, NothingGood
  <1> QED BY <1>2, <1>3, <1>4 DEF w2

LEMMA ClickKeeps ==
    ASSUME FInv, HandleClick
    PROVE  FInv'
  <1> DEFINE t == Head(events).time
             r == Result(Input(t), <<>>)
             r2 == Focus(r, Head(events).client, t)
  <1>1. Handles("click") /\ Ends(r2)
    BY DEF HandleClick
  <1>2. t \in Nat /\ Good(r)
    BY <1>1, InputFacts
  <1> HIDE DEF t, r
  <1>3. Good(r2)
    BY <1>2, FocusGood DEF Good
  <1> HIDE DEF r2
  <1> QED BY <1>1, <1>3, GoodStep

LEMMA RootClickKeeps ==
    ASSUME FInv, HandleRootClick
    PROVE  FInv'
  <1> DEFINE t == Head(events).time
             r == Result(Input(t), <<>>)
             r2 == Release(r, t)
  <1>1. Handles("root") /\ Ends(r2)
    BY DEF HandleRootClick
  <1>2. t \in Nat /\ Good(r)
    BY <1>1, InputFacts
  <1> HIDE DEF t, r
  <1>3. Good(r2)
    BY <1>2, ReleaseGood DEF Good
  <1> HIDE DEF r2
  <1> QED BY <1>1, <1>3, GoodStep

LEMMA IconifyKeeps ==
    ASSUME FInv, HandleIconify
    PROVE  FInv'
  <1> DEFINE t == Head(events).time
             c == Head(events).client
             w == Input(t)
             w1 == [w EXCEPT !.iconic = @ \cup {c}]
             w2 == Lost(w1, c)
             x == [kind |-> "hide", client |-> c]
             r == Result(w2, <<x>>)
             r2 == IF c \notin Usable(wm) THEN Result(w, <<>>) ELSE Realize(r, t)
  <1>1. Handles("iconify") /\ Ends(r2)
    BY DEF HandleIconify
  <1>2. t \in Nat /\ Good(Result(w, <<>>)) /\ ManagerOK(w) /\ SameClients(wm, w)
    BY <1>1, InputFacts
  <1>3. ASSUME c \in Usable(wm) PROVE Good(Realize(r, t))
    <2>1. /\ ManagerOK(w1) /\ w1.managed = wm.managed /\ w1.iconic = wm.iconic \cup {c}
      BY <1>2, <1>3 DEF ManagerOK, WMFields, SameClients, Usable
    <2> HIDE DEF w, w1
    <2>2. /\ ManagerOK(w2) /\ w2.managed = wm.managed /\ w2.iconic = wm.iconic \cup {c}
      BY <2>1 DEF Lost, Recovered, ManagerOK, WMFields
    <2> HIDE DEF w2
    <2>3. RequestOK(w2, x) /\ ~ Focusing(x) /\ x.kind = "hide" /\ x.client = c
      BY <2>2, <1>3 DEF RequestOK, Focusing, Kinds, ManagerOK
    <2>4. Head(events).kind = "iconify" /\ \E m \in SUBSET Clients : Turns(wm.managed, m, Head(events))
      BY <1>1, HandlesFacts
    <2>5. Turns(wm.managed, w2.managed, Head(events))
      BY <2>2, <2>4 DEF Turns
    <2>6. DOMAIN r = {"wm", "requests"} /\ r.wm = w2 /\ r.requests = <<x>>
      BY DEF Result
    <2> HIDE DEF r, x, c
    <2>7. /\ Queue(<<x>>) /\ MapsFirst(<<x>>) /\ RequestsOK(w2, <<x>>) /\ Waits("hide", c, <<x>>)
      BY <2>3, OneRequest
    <2>8. Part(r)
      BY <2>2, <2>5, <2>6, <2>7 DEF Part, Shape, Usable
    <2> QED BY <2>8, <1>2, RealizeGood
  <1> HIDE DEF w, r, t, c
  <1>4. Good(r2)
    BY <1>2, <1>3
  <1> HIDE DEF r2
  <1> QED BY <1>1, <1>4, GoodStep

\* A client that comes back is shown again.
LEMMA RestoredGood ==
    ASSUME FInv, Handles("activate"), NEW c \in wm.managed
    PROVE  Good(Result(Restored(wm, c), Shown(wm, c)))
  <1> DEFINE w2 == Restored(wm, c)
             x == [kind |-> "map", client |-> c]
             r == Result(w2, Shown(wm, c))
  <1>1. ManagerOK(wm) /\ wm.focused \in Usable(wm) \cup {Nobody}
    BY HandlesFacts
  <1>2. /\ ManagerOK(w2) /\ w2.managed = wm.managed /\ w2.iconic = wm.iconic \ {c}
        /\ w2.focused = wm.focused
    BY <1>1 DEF Restored, ManagerOK, WMFields
  <1>3. CASE c \notin wm.iconic
    <2>1. SameClients(wm, w2)
      BY <1>2, <1>3 DEF SameClients
    <2>2. r = Result(w2, <<>>)
      BY <1>3 DEF Shown
    <2> HIDE DEF w2, r
    <2>3. Good(r)
      BY <1>2, <2>1, <2>2, NothingGood
    <2> QED BY <2>3 DEF r, w2
  <1>4. CASE c \in wm.iconic
    <2>1. Shown(wm, c) = <<x>>
      BY <1>4 DEF Shown
    <2>2. DOMAIN r = {"wm", "requests"} /\ r.wm = w2 /\ r.requests = <<x>>
      BY <2>1 DEF Result
    <2> HIDE DEF w2, r
    <2>3. RequestOK(w2, x) /\ ~ Focusing(x) /\ x.kind = "map" /\ x.client = c
      BY <1>1, <1>2, <1>4 DEF RequestOK, Focusing, Kinds, ManagerOK, Usable
    <2> HIDE DEF x
    <2>4. /\ Queue(<<x>>) /\ MapsFirst(<<x>>) /\ RequestsOK(w2, <<x>>)
          /\ \A f : Served(<<x>>, f)
          /\ \A kind, d : Waits(kind, d, <<x>>) <=> (kind = "map" /\ d = c)
      BY <2>3, OneRequest
    <2>5. Head(events).kind = "activate" /\ \E m \in SUBSET Clients : Turns(wm.managed, m, Head(events))
      BY HandlesFacts
    <2>6. Turns(wm.managed, w2.managed, Head(events))
      BY <1>2, <2>5 DEF Turns
    <2>7. Part(r)
      BY <1>2, <2>2, <2>4, <2>6 DEF Part, Shape, Usable
    <2>8. w2.focused \in Usable(w2) \cup {Nobody} /\ w2.focused # c
      BY <1>1, <1>2, <1>4, ClientsAssumption DEF Usable, ManagerOK
    <2>9. Active(wm.focused, server, <<x>>, Tail(events), told)
      BY ActiveLeft
    <2>10. AskedOK(w2, <<x>>)
      BY <2>4, <2>8 DEF AskedOK
    <2>11. Good(r)
      BY <1>2, <2>2, <2>7, <2>8, <2>9, <2>10 DEF Good
    <2> QED BY <2>11 DEF r, w2
  <1> QED BY <1>3, <1>4

LEMMA ActivateKeeps ==
    ASSUME FInv, HandleActivate
    PROVE  FInv'
  <1> DEFINE e == Head(events)
             r == Result(Restored(wm, e.client), Shown(wm, e.client))
  <1>1. Handles("activate")
    BY DEF HandleActivate
  <1>2. ManagerOK(wm) /\ SameClients(wm, wm) /\ EventOK(e) /\ e.kind = "activate"
    BY <1>1, HandlesFacts DEF SameClients
  <1>3. CASE Ends(Result(wm, <<>>))
    <2>1. Good(Result(wm, <<>>))
      BY <1>1, <1>2, NothingGood
    <2> QED BY <2>1, <1>1, <1>3, GoodStep
  <1>4. CASE /\ e.client \in wm.managed
             /\ \E t \in {e.time, wm.timestamp} : Ends(Focus(r, e.client, t))
    <2>1. PICK t \in {e.time, wm.timestamp} : Ends(Focus(r, e.client, t))
      BY <1>4
    <2>2. t \in Nat
      BY <1>2, <2>1 DEF EventOK, ManagerOK
    <2>3. Good(r)
      BY <1>1, <1>4, RestoredGood
    <2> HIDE DEF r
    <2>4. Good(Focus(r, e.client, t))
      BY <2>2, <2>3, FocusGood DEF Good
    <2> QED BY <2>1, <2>4, <1>1, GoodStep
  <1> QED BY <1>3, <1>4 DEF HandleActivate

(* ---- Windows that come and go ---- *)
LEMMA MapRequestKeeps ==
    ASSUME FInv, HandleMapRequest
    PROVE  FInv'
  <1> DEFINE c == Head(events).client
             x == [kind |-> "map", client |-> c]
  <1>1. Handles("map")
    BY DEF HandleMapRequest
  <1>2. /\ ManagerOK(wm) /\ wm.focused \in Usable(wm) \cup {Nobody}
        /\ Head(events).kind = "map" /\ EventOK(Head(events))
        /\ \E m \in SUBSET Clients : Turns(wm.managed, m, Head(events))
    BY <1>1, HandlesFacts
  <1>3. c \notin wm.managed /\ c \in Clients
    BY <1>2 DEF Turns, EventOK
  <1>4. PICK claim \in {c, wm.pending} :
           Ends(Result([wm EXCEPT !.managed = @ \cup {c}, !.history = Append(@, c), !.pending = claim], <<x>>))
    BY <1>3 DEF HandleMapRequest
  <1> DEFINE w2 == [wm EXCEPT !.managed = @ \cup {c}, !.history = Append(@, c), !.pending = claim]
             r == Result(w2, <<x>>)
  <1>5. /\ ManagerOK(w2) /\ w2.managed = wm.managed \cup {c} /\ w2.iconic = wm.iconic
        /\ w2.focused = wm.focused
    BY <1>2, <1>3 DEF ManagerOK, WMFields
  <1>6. Turns(wm.managed, w2.managed, Head(events))
    BY <1>2, <1>3, <1>5 DEF Turns
  <1>7. DOMAIN r = {"wm", "requests"} /\ r.wm = w2 /\ r.requests = <<x>>
    BY DEF Result
  <1>8. Ends(r)
    BY <1>4
  <1> HIDE DEF w2, r, c
  <1>9. RequestOK(w2, x) /\ ~ Focusing(x) /\ x.kind = "map" /\ x.client = c
    BY <1>2, <1>3, <1>5 DEF RequestOK, Focusing, Kinds, ManagerOK, Usable
  <1> HIDE DEF x
  <1>10. /\ Queue(<<x>>) /\ MapsFirst(<<x>>) /\ RequestsOK(w2, <<x>>)
         /\ \A f : Served(<<x>>, f)
         /\ \A kind, d : Waits(kind, d, <<x>>) <=> (kind = "map" /\ d = c)
    BY <1>9, OneRequest
  <1>11. Part(r)
    BY <1>5, <1>6, <1>7, <1>10 DEF Part, Shape, Usable
  <1>12. w2.focused \in Usable(w2) \cup {Nobody} /\ w2.focused # c
    BY <1>2, <1>3, <1>5, ClientsAssumption DEF Usable
  <1>13. Active(wm.focused, server, <<x>>, Tail(events), told)
    BY <1>1, ActiveLeft
  <1>14. AskedOK(w2, <<x>>)
    BY <1>10, <1>12 DEF AskedOK
  <1>15. Good(r)
    BY <1>5, <1>7, <1>11, <1>12, <1>13, <1>14 DEF Good
  <1> QED BY <1>1, <1>8, <1>15, GoodStep

LEMMA UnmapKeeps ==
    ASSUME FInv, HandleUnmap
    PROVE  FInv'
  <1> DEFINE c == Head(events).client
             x == [kind |-> "destroy", client |-> c]
             w1 == [wm EXCEPT !.managed = @ \ {c}, !.iconic = @ \ {c},
                              !.history = Remove(@, c),
                              !.pending = IF @ = c THEN Nobody ELSE @]
             w2 == Lost(w1, c)
             r == Result(w2, <<x>>)
             r2 == IF c \notin wm.managed THEN Result(wm, <<>>)
                   ELSE IF wm.focused = c THEN Realize(r, wm.timestamp) ELSE r
  <1>1. Handles("unmap") /\ Ends(r2)
    BY DEF HandleUnmap
  <1>2. /\ ManagerOK(wm) /\ wm.focused \in Usable(wm) \cup {Nobody} /\ wm.timestamp \in Nat
        /\ Head(events).kind = "unmap" /\ EventOK(Head(events))
        /\ \E m \in SUBSET Clients : Turns(wm.managed, m, Head(events))
    BY <1>1, HandlesFacts DEF ManagerOK
  <1>3. c \in wm.managed /\ c \in Clients
    BY <1>2 DEF Turns, EventOK
  <1>4. /\ ManagerOK(w1) /\ w1.managed = wm.managed \ {c} /\ w1.iconic = wm.iconic \ {c}
        /\ w1.focused = wm.focused
    BY <1>2, <1>3 DEF ManagerOK, WMFields
  <1> HIDE DEF w1
  <1>5. /\ ManagerOK(w2) /\ w2.managed = wm.managed \ {c} /\ w2.iconic = wm.iconic \ {c}
        /\ wm.focused # c => w2.focused = wm.focused
    BY <1>4 DEF Lost, Recovered, ManagerOK, WMFields
  <1> HIDE DEF w2
  <1>6. Turns(wm.managed, w2.managed, Head(events))
    BY <1>2, <1>3, <1>5 DEF Turns
  <1>7. DOMAIN r = {"wm", "requests"} /\ r.wm = w2 /\ r.requests = <<x>>
    BY DEF Result
  <1>8. RequestOK(w2, x) /\ ~ Focusing(x) /\ x.kind = "destroy" /\ x.client = c
    BY <1>3 DEF RequestOK, Focusing, Kinds
  <1>9. Head(events).client = c
    OBVIOUS
  <1> HIDE DEF r, x, c
  <1>10. /\ Queue(<<x>>) /\ MapsFirst(<<x>>) /\ RequestsOK(w2, <<x>>)
         /\ \A f : Served(<<x>>, f)
         /\ \A kind, d : Waits(kind, d, <<x>>) <=> (kind = "destroy" /\ d = c)
    BY <1>8, OneRequest
  <1>11. Part(r)
    BY <1>5, <1>6, <1>7, <1>10 DEF Part, Shape, Usable
  <1>12. Good(Realize(r, wm.timestamp))
    BY <1>2, <1>11, RealizeGood
  <1>13. wm.focused # c => Good(r)
    <2>1. ASSUME wm.focused # c PROVE Good(r)
      <3>1. w2.focused \in Usable(w2) \cup {Nobody}
        BY <2>1, <1>2, <1>5 DEF Usable
      <3>2. Active(wm.focused, server, <<x>>, Tail(events), told)
        BY <2>1, <1>1, <1>9, ActiveLeft
      <3>3. AskedOK(w2, <<x>>)
        BY <1>10 DEF AskedOK
      <3> QED BY <2>1, <1>5, <1>7, <1>11, <3>1, <3>2, <3>3 DEF Good
    <2> QED BY <2>1
  <1>14. Good(r2)
    BY <1>3, <1>12, <1>13
  <1> QED BY <1>1, <1>14, GoodStep

(* ---- The windows that were there before the window manager ---- *)
\* What a window manager that starts has after adopting the clients of a set.
Adopting(r, S) ==
    /\ Shape(r)
    /\ r.wm.managed = S /\ r.wm.iconic = {} /\ r.wm.timestamp = 0
    /\ r.wm.focused \in Usable(r.wm) \cup {Nobody}
    /\ \A i \in DOMAIN r.requests : Focusing(r.requests[i])
    /\ Served(r.requests, r.wm.focused)
    /\ Asking(r.requests) \/ r.wm.focused = Nobody

LEMMA AdoptingNobody ==
    ASSUME NEW dialogs \in Families, NEW stack \in Stacks(dialogs)
    PROVE  Adopting(Result(NoClients(dialogs, stack), <<>>), {})
  <1> DEFINE w == NoClients(dialogs, stack)
             r == Result(w, <<>>)
  <1>1. /\ DOMAIN r = {"wm", "requests"} /\ r.wm = w /\ r.requests = <<>>
    BY DEF Result
  <1>2. /\ ManagerOK(w) /\ w.managed = {} /\ w.iconic = {}
        /\ w.timestamp = 0 /\ w.focused = Nobody
    BY DEF NoClients, ManagerOK, WMFields
  <1>3. Queue(<<>>) /\ DOMAIN <<>> = {}
    BY EmptyQueue
  <1> HIDE DEF r, w
  <1>4. Adopting(r, {})
    BY <1>1, <1>2, <1>3 DEF Adopting, Shape, RequestsOK, MapsFirst, Served
  <1> QED BY <1>4 DEF r, w

LEMMA AdoptKeeps ==
    ASSUME NEW r, NEW S \in SUBSET Clients, Adopting(r, S), NEW c \in Clients, NEW allowed
    PROVE  Adopting(Adopt(r, c, allowed), S \cup {c})
  <1> DEFINE w1 == [r.wm EXCEPT !.managed = @ \cup {c}, !.history = Append(@, c)]
             r1 == [r EXCEPT !.wm.managed = @ \cup {c}, !.wm.history = Append(@, c)]
  <1>1. ManagerOK(r.wm) /\ DOMAIN r = {"wm", "requests"}
    BY DEF Adopting, Shape
  <1>2. /\ ManagerOK(w1) /\ w1.managed = S \cup {c} /\ w1.iconic = {} /\ w1.timestamp = 0
        /\ w1.focused = r.wm.focused
    BY <1>1 DEF Adopting, ManagerOK, WMFields
  <1>3. DOMAIN r1 = {"wm", "requests"} /\ r1.wm = w1 /\ r1.requests = r.requests
    BY <1>1, <1>2 DEF ManagerOK, WMFields
  <1>4. Adopt(r, c, allowed) = IF c \in allowed THEN Focus(r1, c, 0) ELSE r1
    BY DEF Adopt, Adopting
  <1> HIDE DEF w1, r1
  <1>5. RequestsOK(w1, r.requests)
    BY <1>1, <1>2 DEF Adopting, Shape, RequestsOK, RequestOK, Usable
  <1>6. Adopting(r1, S \cup {c})
    BY <1>2, <1>3, <1>5 DEF Adopting, Shape, Usable
  <1>7. ASSUME Asks(r1, Focus(r1, c, 0)) PROVE Adopting(Focus(r1, c, 0), S \cup {c})
    <2> DEFINE r2 == Focus(r1, c, 0)
    <2>1. Asks(r1, r2)
      BY <1>7
    <2> HIDE DEF r2
    <2>2. Adopting(r2, S \cup {c})
      BY <2>1, <1>6 DEF Asks, SameClients, Adopting
    <2> QED BY <2>2 DEF r2
  <1>8. Focus(r1, c, 0) = r1 \/ Asks(r1, Focus(r1, c, 0))
    BY <1>6, FocusAsks DEF Adopting
  <1> QED BY <1>4, <1>6, <1>7, <1>8

\* env is the order of the windows, and the clients that may have the focus.
Adopted1(env, T, r) == Adopting(r, {env[1][i] : i \in T})

AdoptAll ==
    INSTANCE FoldFacts WITH
        Op <- LAMBDA env, k, n : Adopt(n, env[1][k], env[2]),
        Pick <- LAMBDA T : Max(T),
        Holds <- Adopted1

Started(order, allowed, dialogs, stack) ==
    FoldLeft(LAMBDA s, c : Adopt(s, c, allowed), Result(NoClients(dialogs, stack), <<>>), order)

LEMMA AdoptedAll ==
    ASSUME NEW order \in SetToSeqs(Adopted), NEW allowed,
           NEW dialogs \in Families, NEW stack \in Stacks(dialogs)
    PROVE  Adopting(Started(order, allowed, dialogs, stack), Adopted)
  <1> DEFINE env == <<order, allowed>>
             base == Result(NoClients(dialogs, stack), <<>>)
             n == Cardinality(Adopted)
  <1>1. /\ n \in Nat /\ order \in [1..n -> Adopted]
        /\ \A i, j \in 1..n : i # j => order[i] # order[j]
    BY ClientsAssumption, FS_CardinalityType DEF SetToSeqs
  <1>2. DOMAIN order = 1..n /\ IsFiniteSet(1..n) /\ Cardinality(1..n) = n
    BY <1>1, FS_Interval
  <1>3. Adopted = {order[i] : i \in 1..n}
    <2>1. order \in Injection(1..n, Adopted)
      BY <1>1 DEF Injection, IsInjective
    <2>2. order \in Surjection(1..n, Adopted)
      BY <1>2, <2>1, ClientsAssumption, FS_Injection
    <2> QED BY <1>1, <2>2 DEF Surjection
  <1>4. AdoptAll!IsFiniteSet(1..n)
    BY <1>2 DEF IsFiniteSet, AdoptAll!IsFiniteSet
  <1>5. AdoptAll!Picks(1..n)
    BY <1>1, LargestOf DEF AdoptAll!Picks
  <1>6. Adopted1(env, {}, base)
    BY AdoptingNobody DEF Adopted1
  <1>7. ASSUME NEW T \in SUBSET (1..n), NEW r, T # {}, Adopted1(env, T \ {Max(T)}, r)
        PROVE  Adopted1(env, T, Adopt(r, order[Max(T)], allowed))
    <2> DEFINE k == Max(T)
               S == {order[i] : i \in T \ {k}}
    <2>1. k \in T
      BY <1>1, <1>7, LargestOf
    <2>2. Adopting(r, S)
      BY <1>7 DEF Adopted1
    <2>3. order[k] \in Clients /\ S \in SUBSET Clients
      BY <1>1, <2>1, ClientsAssumption
    <2>4. {order[i] : i \in T} = S \cup {order[k]}
      BY <2>1
    <2> HIDE DEF k, S
    <2>5. Adopting(Adopt(r, order[k], allowed), S \cup {order[k]})
      BY <2>2, <2>3, AdoptKeeps
    <2> QED BY <2>4, <2>5 DEF Adopted1, k
  <1>8. Adopted1(env, 1..n, AdoptAll!Fold(env, base, 1..n))
    <2>1. \A T \in SUBSET (1..n) : \A r :
             T # {} /\ Adopted1(env, T \ {Max(T)}, r)
             => Adopted1(env, T, Adopt(r, env[1][Max(T)], env[2]))
      BY <1>7
    <2> HIDE DEF env, base, n
    <2> QED BY <1>4, <1>5, <1>6, <2>1, AdoptAll!FoldKeeps
  <1>9. FoldLeft(LAMBDA s, c : Adopt(s, c, allowed), base, order) = AdoptAll!Fold(env, base, 1..n)
    <2> HIDE DEF base
    <2> QED BY <1>2 DEF FoldLeft, MapThenFoldSet, AdoptAll!Fold
  <1> HIDE DEF base
  <1>10. Adopting(AdoptAll!Fold(env, base, 1..n), Adopted)
    BY <1>3, <1>8 DEF Adopted1
  <1>11. Adopting(FoldLeft(LAMBDA s, c : Adopt(s, c, allowed), base, order), Adopted)
    BY <1>9, <1>10
  <1> QED BY <1>11, Zenon DEF base, Started

LEMMA InitAgrees == FocusInit => FInv
  <1> SUFFICES ASSUME FocusInit PROVE FInv
    OBVIOUS
  <1>1. PICK order \in SetToSeqs(Adopted), allowed \in SUBSET Adopted, dialogs \in Families :
           \E stack \in Stacks(dialogs) :
              /\ wm = Started(order, allowed, dialogs, stack).wm
              /\ requests = Started(order, allowed, dialogs, stack).requests
    BY Zenon DEF FocusInit, Started
  <1>0. PICK stack \in Stacks(dialogs) :
           /\ wm = Started(order, allowed, dialogs, stack).wm
           /\ requests = Started(order, allowed, dialogs, stack).requests
    BY <1>1
  <1> DEFINE r == Started(order, allowed, dialogs, stack)
  <1>2. wm = r.wm /\ requests = r.requests /\ Adopting(r, Adopted)
    BY <1>0, AdoptedAll
  <1> HIDE DEF r
  <1>3. /\ server = [wanted |-> Adopted, seen |-> Adopted, focus |-> Other("pointer"), time |-> 0,
                     under |-> Nobody, late |-> FALSE]
        /\ events = <<>> /\ now = 0
        /\ told = [c \in Clients |-> Never]
    BY DEF FocusInit
  <1>4. Other("pointer") \in Focuses /\ Other("pointer").client = Nobody /\ Other("pointer").kind = "pointer"
    BY DEF Focuses, Other
  <1>5. /\ server \in Servers /\ ServerOK(server)
        /\ server.wanted = Adopted /\ server.seen = Adopted /\ server.focus.client = Nobody
        /\ server.focus.kind = "pointer"
    BY <1>3, <1>4, ClientsAssumption DEF ServerOK, Servers
  <1>6. /\ Queue(events) /\ EventsOK(events) /\ ~ HasIn(events)
        /\ \A c : ~ OutLater(events, c) /\ ~ LastIn(events, c)
    BY <1>3, EmptyQueue DEF EventsOK
  <1>7. ManagerOK(wm) /\ wm.managed = Adopted /\ wm.iconic = {} /\ wm.focused \in Usable(wm) \cup {Nobody}
    BY <1>2 DEF Adopting, Shape
  <1>8. LeadTo(wm.managed, server.wanted, events)
    BY <1>3, <1>5, <1>7, ClientsAssumption, LeadEmpty
  <1>9. AskedOK(wm, requests) /\ (Asking(requests) \/ wm.focused = Nobody)
    <2>1. \A c : ~ Waits("map", c, requests)
      BY <1>2 DEF Adopting, Waits, Focusing
    <2> QED BY <1>2, <2>1 DEF Adopting, Shape, AskedOK
  <1>10. ToldOK(server, events) /\ GainOK(server, events) /\ OwnerOK(wm, server, requests, events)
    BY <1>5, <1>6 DEF ToldOK, GainOK, OwnerOK
  <1>11. Visible(wm, server, requests, events) /\ Hidden(wm, server, requests)
    BY <1>5, <1>7 DEF Visible, Hidden, Usable
  <1>12. Active(wm.focused, server, requests, events, told)
    BY <1>5, <1>9 DEF Active, Agrees, Owners
  <1>13. told \in [Clients -> Nat \cup {Never}]
    BY <1>3
  <1>14. InvAt(wm, server, requests, events, told)
    BY <1>5, <1>6, <1>7, <1>8, <1>9, <1>10, <1>11, <1>12, <1>13 DEF InvAt
  <1> QED BY <1>3, <1>14 DEF FInv

LEMMA RestackKeeps ==
    ASSUME FInv, Restack
    PROVE  FInv'
  <1>1. PICK stack \in Stacks(wm.dialogs) : wm' = [wm EXCEPT !.stack = stack]
    BY DEF Restack
  <1>2. ManagerOK(wm) /\ InvAt(wm, server, requests, events, told) /\ now \in Nat
    BY DEF FInv, InvAt
  <1>3. ManagerOK(wm') /\ SameClients(wm, wm') /\ wm'.focused = wm.focused
    BY <1>1, <1>2 DEF ManagerOK, WMFields, SameClients
  <1>4. Usable(wm') = Usable(wm) /\ \A x : RequestOK(wm, x) <=> RequestOK(wm', x)
    BY <1>3 DEF SameClients, Usable, RequestOK
  <1>5. InvAt(wm', server, requests, events, told)
    BY <1>2, <1>3, <1>4 DEF InvAt, AskedOK, RequestsOK, OwnerOK, Visible, Hidden, SameClients
  <1>6. now' \in Nat
    BY <1>2 DEF Restack, Acting
  <1> QED BY <1>5, <1>6 DEF FInv, Restack

LEMMA NextAgrees == FInv /\ [FocusNext]_focusVars => FInv'
  <1> SUFFICES ASSUME FInv, [FocusNext]_focusVars PROVE FInv'
    OBVIOUS
  <1>1. CASE UNCHANGED focusVars
    BY <1>1 DEF focusVars, FInv, InvAt
  <1>2. CASE Execute
    BY <1>2, ExecuteKeeps
  <1>3. CASE ProgramStep
    <2>1. CASE \E c \in Clients : ProgramMaps(c) \/ ProgramWithdraws(c) \/ ProgramTakesFocus(c)
      BY <2>1, ProgramMapsKeeps, ProgramWithdrawsKeeps, ProgramTakesFocusKeeps
    <2>2. CASE \E f \in {Window(c) : c \in Clients} \cup {Other("popup")} : ProgramFocuses(f)
      BY <2>2, ProgramFocusesKeeps
    <2>3. CASE PopupCloses
      BY <2>3, PopupClosesKeeps
    <2>4. CASE \/ \E c \in server.seen, kind \in {"click", "iconify"} : Acts(kind, c)
               \/ \E c \in wm.managed : Acts("activate", c)
               \/ Acts("root", Nobody)
      BY <2>4, ActsKeeps
    <2> QED BY <1>3, <2>1, <2>2, <2>3, <2>4 DEF ProgramStep
  <1>4. CASE ManagerStep
    BY <1>4, FocusInKeeps, FocusOutKeeps, MapRequestKeeps, UnmapKeeps, ClickKeeps, RootClickKeeps,
       IconifyKeeps, ActivateKeeps DEF ManagerStep
  <1>5. CASE Restack
    BY <1>5, RestackKeeps
  <1> QED BY <1>1, <1>2, <1>3, <1>4, <1>5 DEF FocusNext

\* Once everything under way has been carried out and handled, the client that the
\* window manager calls active has the focus, however its requests, those of
\* programs, the disappearance of windows and the notifications of all these cross
\* (focus_in, focus_out, observe_focus, reconcile_server_focus); whatever dialogs there
\* are, of one client or of a group, and whomever they block, each other included.
THEOREM FocusAgreement == FocusSpec => []FocusAgrees
  <1>1. FocusSpec => []FInv
    BY InitAgrees, NextAgrees, PTL DEF FocusSpec
  <1> QED BY <1>1, Agreement, PTL
===============================================================================

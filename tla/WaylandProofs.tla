---------------------------- MODULE WaylandProofs ----------------------------
(***************************************************************************)
(* Proofs about the Wayland compositor.                                    *)
(*                                                                         *)
(* The window: where it returns to, the states its program was told and    *)
(* the size it answered with, for every set of output modes, every set of  *)
(* lengths a program may choose and every bound.  A handler changes the    *)
(* client, then tells the program, then ends an operation, in several      *)
(* calls.  The proof follows them: Settled holds of the pair of a window   *)
(* and an xdg role after every call, and Follows says what one pair may    *)
(* owe to the one it came from.  Follows composes, so each call has a      *)
(* lemma of its own and an action is their composition.                    *)
(*                                                                         *)
(* The session lock, for any outputs and any bounds.  That nothing         *)
(* ordinary is under way once the lock has been confirmed is not           *)
(* inductive: while the lock waits, it is the outputs that are no longer   *)
(* awaited that have nothing ordinary under way.  When the program that    *)
(* locked dies, nothing is awaited any more and nothing is promised        *)
(* either, which is why the invariant speaks of `told' and not of          *)
(* `confirmed' alone.                                                      *)
(***************************************************************************)
EXTENDS WaylandWindow, WaylandLock, TLAPS

States == {"Maximized", "Fullscreen", "Resizing"}
Configures == [size : Sizes \cup {NoGeometry}, states : SUBSET States]

ClientOK(c) ==
  /\ c \in PresentationOf(Geometries)
  /\ (c.restore = NoGeometry) = (c.maximized = {})
  /\ c.role = "Normal"
WindowOK(w) ==
  /\ w \in [client : PresentationOf(Geometries),
            pointer : Operations \cup {NoDrag}, keyboard : Operations \cup {NoDrag}]
  /\ ClientOK(w.client)
XdgOK(x) ==
  /\ x \in [alive : BOOLEAN, told : Configures, unanswered : Seq(Configures),
            drawn : Configures]
  \* what the program was told last is the last thing it has to answer, or what
  \* it draws for
  /\ IF x.unanswered = <<>> THEN x.drawn = x.told
     ELSE x.unanswered[Len(x.unanswered)] = x.told
\* A program that was never told a size was told no state, and fills nothing.
SizeTold(w, x) ==
  x.told.size = NoGeometry => x.told.states = {} /\ ~IsFullscreen(w.client)

\* The inductive invariant, for a window and its xdg role: it holds in the
\* middle of every handler.
Settled(w, x) == WindowOK(w) /\ XdgOK(x) /\ (x.alive => SizeTold(w, x))
IInv == Settled(window, xdg) /\ mode \in Modes

(* ---- Records and geometries ---- *)
LEMMA ReplaceTyped ==
  ASSUME NEW g \in Geometries, NEW h \in Geometries, NEW axes
  PROVE  /\ Replace(g, axes, h) \in Geometries
         /\ \A a \in Axes : Replace(g, axes, h)[a] = IF a \in axes THEN h[a] ELSE g[a]
BY DEF Replace, Geometries

LEMMA GeometriesEqual ==
  ASSUME NEW g \in Geometries, NEW h \in Geometries, \A a \in Axes : g[a] = h[a]
  PROVE  g = h
BY DEF Geometries

LEMMA FillingTyped ==
  ASSUME NEW m \in Modes
  PROVE  FullOutput(m) \in Geometries /\ WorkArea(m) \in Geometries
BY DEF FullOutput, WorkArea, Filling, Geometries, Lengths, Length

LEMMA SizeTyped ==
  ASSUME NEW g \in Geometries
  PROVE  SizeOf(g) \in Sizes /\ SizeOf(g) # NoGeometry
BY SentinelsAssumption DEF SizeOf, Geometries, Sizes

LEMMA ResizedTyped ==
  ASSUME NEW g \in Geometries, NEW size \in Sizes
  PROVE  Resized(g, size) \in Geometries /\ SizeOf(Resized(g, size)) = size
<1>1. Resized(g, size) \in Geometries
  BY DEF Resized, Geometries, Sizes
<1>2. \A a \in Axes : Resized(g, size)[a].length = size[a]
  BY DEF Resized, Geometries
<1>3. SizeOf(Resized(g, size)) = [a \in Axes |-> size[a]]
  BY <1>2 DEF SizeOf
<1> QED BY <1>1, <1>3 DEF Sizes

LEMMA ChosenTyped == ChosenSizes \subseteq Sizes
BY DEF ChosenSizes

LEMMA WithClient ==
  ASSUME NEW w, WindowOK(w), NEW c, ClientOK(c)
  PROVE  LET v == [w EXCEPT !.client = c]
         IN /\ WindowOK(v)
            /\ v.client = c /\ v.pointer = w.pointer /\ v.keyboard = w.keyboard
BY DEF WindowOK, ClientOK

(* ---- The methods of the core ---- *)
\* Where c would be, were its geometry g.
Beneath(c, g) == IF c.maximized = {} THEN g ELSE Replace(g, c.maximized, c.restore)

LEMMA UnmanagedBeneath ==
  ASSUME NEW c
  PROVE  UnmanagedGeometry(c) = Beneath(c, IF IsFullscreen(c) THEN c.fullscreen ELSE c.geometry)
BY DEF UnmanagedGeometry, Beneath

\* A new geometry fills nothing anew and keeps what the covered axes return to.
LEMMA SetGeometryFacts ==
  ASSUME NEW c, ClientOK(c), NEW g \in Geometries
  PROVE  LET d == SetGeometry(c, g)
         IN /\ ClientOK(d) /\ d.geometry = g
            /\ d.maximized = c.maximized /\ IsFullscreen(d) = IsFullscreen(c)
            /\ \A a \in Covered(c) : UnmanagedGeometry(d)[a] = UnmanagedGeometry(c)[a]
<1> DEFINE restore == IF c.maximized = {} THEN c.restore
                      ELSE Replace(c.restore, Axes \ c.maximized, g)
           d == SetGeometry(c, g)
<1>1. /\ d = [c EXCEPT !.geometry = g, !.restore = restore]
      /\ d.geometry = g /\ d.restore = restore
      /\ d.maximized = c.maximized /\ d.fullscreen = c.fullscreen
  BY DEF SetGeometry, ClientOK, PresentationOf
<1>2. c.maximized \subseteq Axes
  BY DEF ClientOK, PresentationOf
<1>3. /\ restore \in Geometries \cup {NoGeometry}
      /\ (restore = NoGeometry) = (c.maximized = {})
      /\ c.maximized # {} =>
           \A a \in Axes : restore[a] = IF a \in c.maximized THEN c.restore[a] ELSE g[a]
  <2>1. c.maximized # {} => c.restore \in Geometries
    BY DEF ClientOK, PresentationOf
  <2> QED BY <1>2, <2>1, ReplaceTyped, SentinelsAssumption DEF ClientOK, PresentationOf
<1> HIDE DEF restore, d
<1>4. ClientOK(d)
  BY <1>1, <1>3 DEF ClientOK, PresentationOf
<1>5. ASSUME NEW a \in Covered(c) PROVE UnmanagedGeometry(d)[a] = UnmanagedGeometry(c)[a]
  <2>1. a \in Axes
    BY <1>2 DEF Covered
  <2>2. CASE c.maximized = {}
    BY <1>1, <2>2, <1>5 DEF UnmanagedGeometry, Covered, IsFullscreen
  <2>3. CASE c.maximized # {} /\ a \in c.maximized
    BY <1>1, <1>3, <2>1, <2>3 DEF UnmanagedGeometry, Replace
  <2>4. CASE c.maximized # {} /\ a \notin c.maximized
    <3>1. IsFullscreen(c) /\ IsFullscreen(d)
      BY <1>1, <1>5, <2>4 DEF Covered, IsFullscreen
    <3> QED BY <1>1, <2>1, <2>4, <3>1 DEF UnmanagedGeometry, Replace
  <2> QED BY <2>2, <2>3, <2>4
<1> QED BY <1>1, <1>4, <1>5 DEF IsFullscreen, d

LEMMA UpdateMaximizedFacts ==
  ASSUME NEW c, ClientOK(c), NEW axes \in SUBSET Axes, NEW available \in Geometries
  PROVE  LET d == UpdateMaximized(c, axes, available)
         IN /\ ClientOK(d) /\ d.maximized = axes /\ d.fullscreen = c.fullscreen
            /\ Beneath(d, d.geometry) = Beneath(c, c.geometry)
<1> DEFINE old == c.maximized
           base == IF old = {} THEN c.geometry ELSE c.restore
           saved == Replace(base, axes \ old, c.geometry)
           restore == CASE axes = {} -> NoGeometry
                        [] axes = old -> c.restore
                        [] OTHER -> saved
           geometry == Replace(Replace(c.geometry, old \ axes, saved), axes, available)
           d == UpdateMaximized(c, axes, available)
<1>1. base \in Geometries /\ c.geometry \in Geometries /\ old \subseteq Axes
  BY DEF ClientOK, PresentationOf
<1>2. /\ saved \in Geometries
      /\ \A a \in Axes : saved[a] = IF a \in old THEN c.restore[a]
                                    ELSE IF a \in axes THEN c.geometry[a] ELSE base[a]
  <2>1. /\ saved \in Geometries
        /\ \A a \in Axes : saved[a] = IF a \in axes \ old THEN c.geometry[a] ELSE base[a]
    BY ONLY <1>1, ReplaceTyped
  <2>2. \A a \in old : base[a] = c.restore[a]
    OBVIOUS
  <2> HIDE DEF base, saved
  <2> QED BY <2>1, <2>2
<1>3. /\ restore \in Geometries \cup {NoGeometry} /\ ((restore = NoGeometry) = (axes = {}))
      /\ axes # {} => \A a \in axes : restore[a] = saved[a]
  BY <1>1, <1>2, SentinelsAssumption DEF ClientOK, PresentationOf
<1> HIDE DEF base, saved
<1>4. /\ geometry \in Geometries
      /\ \A a \in Axes : geometry[a] = IF a \in axes THEN available[a]
                                       ELSE IF a \in old THEN saved[a] ELSE c.geometry[a]
  <2> DEFINE restored == Replace(c.geometry, old \ axes, saved)
  <2>1. /\ restored \in Geometries
        /\ \A a \in Axes : restored[a] = IF a \in old \ axes THEN saved[a]
                                         ELSE c.geometry[a]
    BY ONLY <1>1, <1>2, ReplaceTyped
  <2> HIDE DEF restored
  <2>2. /\ Replace(restored, axes, available) \in Geometries
        /\ \A a \in Axes : Replace(restored, axes, available)[a]
                             = IF a \in axes THEN available[a] ELSE restored[a]
    BY ONLY <2>1, available \in Geometries, ReplaceTyped
  <2>3. geometry = Replace(restored, axes, available)
    BY DEF restored
  <2> HIDE DEF geometry
  <2> QED BY <2>1, <2>2, <2>3
<1>5. /\ d = [c EXCEPT !.maximized = axes, !.restore = restore, !.geometry = geometry]
      /\ d.maximized = axes /\ d.restore = restore /\ d.geometry = geometry
      /\ d.fullscreen = c.fullscreen
  BY DEF UpdateMaximized, ClientOK, PresentationOf, base, saved
<1> HIDE DEF restore, geometry, d
<1>6. ClientOK(d)
  BY <1>3, <1>4, <1>5 DEF ClientOK, PresentationOf
<1>7. /\ Beneath(c, c.geometry) \in Geometries
      /\ \A a \in Axes : Beneath(c, c.geometry)[a]
                           = IF a \in old THEN c.restore[a] ELSE c.geometry[a]
  <2>1. old # {} => c.restore \in Geometries
    BY DEF ClientOK, PresentationOf
  <2> QED BY <1>1, <2>1, ReplaceTyped DEF Beneath
<1>8. /\ Beneath(d, d.geometry) \in Geometries
      /\ \A a \in Axes : Beneath(d, d.geometry)[a]
                           = IF a \in axes THEN restore[a] ELSE geometry[a]
  BY <1>3, <1>4, <1>5, ReplaceTyped DEF Beneath
<1>9. \A a \in Axes : Beneath(d, d.geometry)[a] = Beneath(c, c.geometry)[a]
  BY <1>2, <1>3, <1>4, <1>7, <1>8
<1>10. Beneath(d, d.geometry) = Beneath(c, c.geometry)
  BY <1>7, <1>8, <1>9, GeometriesEqual
<1> QED BY <1>5, <1>6, <1>10 DEF d

\* A client that is fullscreen keeps what it shows while it is maximized.
LEMMA SetMaximizedFacts ==
  ASSUME NEW c, ClientOK(c), NEW axes \in SUBSET Axes, NEW available \in Geometries
  PROVE  LET d == SetMaximized(c, axes, available)
         IN /\ ClientOK(d) /\ d.maximized = axes
            /\ IsFullscreen(d) = IsFullscreen(c)
            /\ IsFullscreen(c) => d.geometry = c.geometry
            /\ UnmanagedGeometry(d) = UnmanagedGeometry(c)
<1>1. CanFill(c.role)
  BY DEF ClientOK, CanFill
<1>2. CASE ~IsFullscreen(c)
  <2> DEFINE d == UpdateMaximized(c, axes, available)
  <2>1. SetMaximized(c, axes, available) = d
    BY <1>1, <1>2 DEF SetMaximized
  <2>2. /\ ClientOK(d) /\ d.maximized = axes /\ ~IsFullscreen(d)
        /\ Beneath(d, d.geometry) = Beneath(c, c.geometry)
    BY <1>2, UpdateMaximizedFacts DEF IsFullscreen
  <2> HIDE DEF d
  <2>3. UnmanagedGeometry(d) = UnmanagedGeometry(c)
    BY <1>2, <2>2, UnmanagedBeneath
  <2> QED BY <1>2, <2>1, <2>2, <2>3 DEF d, IsFullscreen
<1>3. CASE IsFullscreen(c)
  <2> DEFINE front == [c EXCEPT !.geometry = c.fullscreen]
             behind == UpdateMaximized(front, axes, available)
             d == [behind EXCEPT !.fullscreen = behind.geometry, !.geometry = c.geometry]
  <2>1. /\ ClientOK(front) /\ front.geometry = c.fullscreen
        /\ front.maximized = c.maximized /\ front.restore = c.restore
    BY <1>3 DEF ClientOK, PresentationOf, IsFullscreen
  <2>2. Beneath(front, front.geometry) = UnmanagedGeometry(c)
    BY <1>3, <2>1 DEF Beneath, UnmanagedGeometry
  <2>3. SetMaximized(c, axes, available) = d
    BY <1>1, <1>3 DEF SetMaximized
  <2> HIDE DEF front
  <2>4. /\ ClientOK(behind) /\ behind.maximized = axes
        /\ Beneath(behind, behind.geometry) = Beneath(front, front.geometry)
    BY <2>1, UpdateMaximizedFacts
  <2> HIDE DEF behind
  <2>5. /\ d.fullscreen = behind.geometry /\ behind.geometry \in Geometries
        /\ d.maximized = behind.maximized /\ d.restore = behind.restore
        /\ d.geometry = c.geometry /\ ClientOK(d)
    BY <2>4 DEF ClientOK, PresentationOf
  <2> HIDE DEF d
  <2>6. IsFullscreen(d)
    BY <2>5, SentinelsAssumption DEF IsFullscreen
  <2>7. UnmanagedGeometry(d) = Beneath(behind, behind.geometry)
    BY <2>5, <2>6 DEF UnmanagedGeometry, Beneath
  <2> QED BY <1>3, <2>2, <2>3, <2>4, <2>5, <2>6, <2>7
<1> QED BY <1>2, <1>3

LEMMA SetFullscreenFacts ==
  ASSUME NEW c, ClientOK(c), NEW fullscreen \in BOOLEAN, NEW output \in Geometries
  PROVE  LET d == SetFullscreen(c, fullscreen, output)
         IN /\ ClientOK(d) /\ d.maximized = c.maximized
            /\ IsFullscreen(d) = fullscreen
            /\ ~fullscreen /\ ~IsFullscreen(c) => d = c
            /\ UnmanagedGeometry(d) = UnmanagedGeometry(c)
<1> DEFINE d == SetFullscreen(c, fullscreen, output)
           painted(e) == IF IsFullscreen(e) THEN e.fullscreen ELSE e.geometry
<1>1. CanFill(c.role)
  BY DEF ClientOK, CanFill
<1>2. /\ ClientOK(d) /\ d.maximized = c.maximized
      /\ painted(d) = painted(c) /\ d.restore = c.restore
      /\ IsFullscreen(d) = fullscreen
      /\ ~fullscreen /\ ~IsFullscreen(c) => d = c
  BY <1>1, SentinelsAssumption DEF SetFullscreen, ClientOK, PresentationOf, IsFullscreen
<1> HIDE DEF d
<1>3. UnmanagedGeometry(d) = Beneath(d, painted(d))
      /\ UnmanagedGeometry(c) = Beneath(c, painted(c))
  BY UnmanagedBeneath
<1> HIDE DEF painted
<1> QED BY <1>2, <1>3 DEF Beneath, d

(* ---- Telling the program ---- *)
LEMMA SendFacts ==
  ASSUME NEW x, XdgOK(x), NEW configure \in Configures
  PROVE  LET y == Send(x, configure)
         IN /\ XdgOK(y)
            /\ y.alive => x.alive /\ y.told = configure
            /\ y.unanswered = <<>> => x.unanswered = <<>>
<1>1. CASE configure = x.told
  BY <1>1 DEF Send
<1>2. CASE configure # x.told /\ Len(x.unanswered) = MaxPending
  <2>1. Send(x, configure) = [x EXCEPT !.alive = FALSE]
    BY <1>2 DEF Send
  <2> QED BY <2>1 DEF XdgOK
<1>3. CASE configure # x.told /\ Len(x.unanswered) # MaxPending
  <2> DEFINE list == Append(x.unanswered, configure)
             y == [x EXCEPT !.told = configure, !.unanswered = list]
  <2>1. Send(x, configure) = y
    BY <1>3 DEF Send
  <2>2. list \in Seq(Configures) /\ list # <<>> /\ list[Len(list)] = configure
    <3>1. x.unanswered \in Seq(Configures)
      BY DEF XdgOK
    <3>2. list \in Seq(Configures) /\ Len(list) = Len(x.unanswered) + 1
          /\ list[Len(x.unanswered) + 1] = configure /\ Len(x.unanswered) \in Nat
      BY <3>1
    <3> QED BY <3>2
  <2> HIDE DEF list
  <2>3. /\ y \in [alive : BOOLEAN, told : Configures, unanswered : Seq(Configures),
                  drawn : Configures]
        /\ y.told = configure /\ y.unanswered = list /\ y.alive = x.alive
    BY <2>2 DEF XdgOK
  <2> HIDE DEF y
  <2> QED BY <2>1, <2>2, <2>3 DEF XdgOK
<1> QED BY <1>1, <1>2, <1>3

LEMMA ApplyFacts ==
  ASSUME NEW x, XdgOK(x), NEW g \in Geometries, NEW on \in SUBSET States, NEW off,
         NEW y, y = Apply(x, g, on, off)
  PROVE  /\ XdgOK(y)
         /\ y.alive => /\ x.alive
                       /\ y.told.size = SizeOf(g) /\ y.told.size # NoGeometry
                       /\ y.told.states = (x.told.states \cup on) \ off
<1> DEFINE configure == [size |-> SizeOf(g), states |-> (x.told.states \cup on) \ off]
<1>1. configure \in Configures /\ configure.size = SizeOf(g)
      /\ configure.states = (x.told.states \cup on) \ off
  BY SizeTyped DEF Configures, XdgOK
<1>2. Apply(x, g, on, off) = Send(x, configure)
  BY DEF Apply
<1> HIDE DEF configure
<1> QED BY <1>1, <1>2, SendFacts, SizeTyped

(* ---- What a handler makes of a window w with its role x ---- *)
StatesIn(w, x) ==
  /\ ("Fullscreen" \in x.told.states) = IsFullscreen(w.client)
  /\ ("Maximized" \in x.told.states) = (w.client.maximized = Axes)
SizeIn(w, x) ==
  x.unanswered = <<>> /\ x.told.states \cap {"Maximized", "Fullscreen"} # {}
    => SizeOf(w.client.geometry) = x.told.size

StatesFollow(v, y, w, x) == y.alive => (StatesIn(w, x) => StatesIn(v, y))
SizesFollow(v, y, w, x) == y.alive => (SizeIn(w, x) => SizeIn(v, y))
Follows(v, y, w, x) ==
  /\ Settled(v, y) /\ (y.alive => x.alive)
  /\ StatesFollow(v, y, w, x) /\ SizesFollow(v, y, w, x)

LEMMA FollowsReflexive ==
  ASSUME NEW w, NEW x, Settled(w, x)
  PROVE  Follows(w, x, w, x)
BY DEF Follows, StatesFollow, SizesFollow

LEMMA FollowsTransitive ==
  ASSUME NEW u, NEW z, NEW v, NEW y, NEW w, NEW x, Follows(u, z, v, y), Follows(v, y, w, x)
  PROVE  Follows(u, z, w, x)
BY DEF Follows, StatesFollow, SizesFollow

\* The program is told the size of the new geometry.
LEMMA AppliedFollows ==
  ASSUME NEW v, WindowOK(v), NEW w, NEW x, Settled(w, x),
         NEW on \in SUBSET States, NEW off,
         LET states == (x.told.states \cup on) \ off
         IN StatesIn(w, x) => /\ ("Fullscreen" \in states) = IsFullscreen(v.client)
                              /\ ("Maximized" \in states) = (v.client.maximized = Axes)
  PROVE  Follows(v, Apply(x, v.client.geometry, on, off), w, x)
<1> DEFINE g == v.client.geometry
           y == Apply(x, g, on, off)
<1>1. g \in Geometries
  BY DEF WindowOK, PresentationOf
<1> HIDE DEF g
<1>2. /\ XdgOK(y)
      /\ y.alive => x.alive
      /\ y.alive => y.told.size = SizeOf(g) /\ y.told.size # NoGeometry
      /\ y.alive => y.told.states = (x.told.states \cup on) \ off
  <2>1. XdgOK(x)
    BY DEF Settled
  <2> QED BY ONLY <1>1, <2>1, on \in SUBSET States, ApplyFacts
<1> HIDE DEF y
<1>3. Settled(v, y) /\ SizesFollow(v, y, w, x) /\ (y.alive => x.alive)
  BY <1>2 DEF Settled, SizeTold, SizesFollow, SizeIn, g
<1>4. StatesFollow(v, y, w, x)
  BY <1>2 DEF StatesFollow, StatesIn
<1> QED BY <1>3, <1>4 DEF Follows, y, g

\* It is told nothing, as nothing fills the screen anew and no size changes.
LEMMA QuietFollows ==
  ASSUME NEW v, WindowOK(v), NEW w, NEW x, Settled(w, x),
         IsFullscreen(v.client) = IsFullscreen(w.client),
         v.client.maximized = w.client.maximized,
         SizeOf(v.client.geometry) = SizeOf(w.client.geometry)
  PROVE  Follows(v, x, w, x)
BY DEF Follows, Settled, SizeTold, StatesFollow, StatesIn, SizesFollow, SizeIn

\* apply_client_maximized_axes
LEMMA ApplyAxesFollows ==
  ASSUME NEW w, NEW x, Settled(w, x), NEW axes \in SUBSET Axes, mode \in Modes
  PROVE  LET r == ApplyAxes(w, x, axes)
         IN /\ Follows(r.window, r.xdg, w, x)
            /\ UnmanagedGeometry(r.window.client) = UnmanagedGeometry(w.client)
<1> DEFINE new == SetMaximized(w.client, axes, WorkArea(mode))
           states == IF axes = Axes THEN x.told.states \cup {"Maximized"}
                     ELSE x.told.states \ {"Maximized"}
           v == [w EXCEPT !.client = new]
           r == ApplyAxes(w, x, axes)
           applied == Switched(x, new.geometry, "Maximized", axes = Axes)
           told == [x.told EXCEPT !.states = states]
<1>1. /\ ClientOK(new) /\ new.maximized = axes
      /\ IsFullscreen(new) = IsFullscreen(w.client)
      /\ IsFullscreen(new) => new.geometry = w.client.geometry
      /\ UnmanagedGeometry(new) = UnmanagedGeometry(w.client)
  BY SetMaximizedFacts, FillingTyped DEF Settled, WindowOK
<1>2. /\ r.window = v
      /\ r.xdg = CASE MaximizeApplies(w.client, new) -> applied
                   [] /\ ~MaximizeApplies(w.client, new)
                      /\ new.maximized # w.client.maximized -> Send(x, told)
                   [] OTHER -> x
  BY DEF ApplyAxes
<1> HIDE DEF new, r
<1>3. WindowOK(v) /\ v.client = new
  BY <1>1, WithClient DEF Settled
<1> HIDE DEF v
<1>4. CASE MaximizeApplies(w.client, new)
  <2> DEFINE on == IF axes = Axes THEN {"Maximized"} ELSE {}
             off == IF axes = Axes THEN {} ELSE {"Maximized"}
  <2>1. r.xdg = Apply(x, v.client.geometry, on, off)
    BY <1>2, <1>3, <1>4 DEF Switched
  <2>2. on \in SUBSET States
    BY DEF States
  <2>3. LET s == (x.told.states \cup on) \ off
        IN StatesIn(w, x) => /\ ("Fullscreen" \in s) = IsFullscreen(v.client)
                             /\ ("Maximized" \in s) = (v.client.maximized = Axes)
    BY <1>1, <1>3 DEF StatesIn
  <2> HIDE DEF on, off
  <2>4. Follows(v, r.xdg, w, x)
    BY <1>3, <2>1, <2>2, <2>3, AppliedFollows
  <2> QED BY <1>1, <1>2, <1>3, <2>4 DEF r
<1>5. CASE ~MaximizeApplies(w.client, new) /\ new.maximized # w.client.maximized
  <2>1. r.xdg = Send(x, told)
    BY <1>2, <1>5
  <2>2. IsFullscreen(w.client)
    BY <1>5 DEF MaximizeApplies
  <2>3. told \in Configures /\ told.size = x.told.size /\ told.states = states
    BY DEF Configures, Settled, XdgOK, States
  <2> HIDE DEF told
  <2>4. /\ XdgOK(r.xdg)
        /\ r.xdg.alive => x.alive /\ r.xdg.told = told
        /\ r.xdg.unanswered = <<>> => x.unanswered = <<>>
    BY <2>1, <2>3, SendFacts DEF Settled
  <2>5. Settled(v, r.xdg)
    BY <1>3, <2>2, <2>3, <2>4 DEF Settled, SizeTold
  <2>6. StatesFollow(v, r.xdg, w, x)
    BY <1>1, <1>3, <2>3, <2>4 DEF StatesFollow, StatesIn
  <2>7. SizesFollow(v, r.xdg, w, x)
    \* Only what the program was told already leaves it nothing to answer.
    <3>1. r.xdg.alive /\ r.xdg.unanswered = <<>> => r.xdg = x
      <4>1. Len(Append(x.unanswered, told)) # 0
        BY <2>3 DEF Settled, XdgOK
      <4>2. Append(x.unanswered, told) # <<>>
        BY <4>1
      <4>3. [x EXCEPT !.told = told, !.unanswered = Append(@, told)].unanswered
              = Append(x.unanswered, told)
            /\ [x EXCEPT !.alive = FALSE].alive = FALSE
        BY DEF Settled, XdgOK
      <4> QED BY <2>1, <4>2, <4>3 DEF Send
    <3> QED BY <1>1, <1>3, <2>2, <3>1 DEF SizesFollow, SizeIn
  <2> QED BY <1>1, <1>2, <1>3, <2>4, <2>5, <2>6, <2>7 DEF Follows, r
<1>6. CASE ~MaximizeApplies(w.client, new) /\ new.maximized = w.client.maximized
  <2>1. r.xdg = x /\ new.geometry = w.client.geometry
    BY <1>1, <1>2, <1>6 DEF MaximizeApplies
  <2> QED BY <1>1, <1>2, <1>3, <1>6, <2>1, QuietFollows DEF r
<1> QED BY <1>4, <1>5, <1>6 DEF r

\* fullscreen_request, unfullscreen_request and apply_client_fullscreen
LEMMA ApplyFullscreenFollows ==
  ASSUME NEW w, NEW x, Settled(w, x), NEW enabled \in BOOLEAN, mode \in Modes
  PROVE  LET r == ApplyFullscreen(w, x, enabled)
         IN /\ Follows(r.window, r.xdg, w, x)
            /\ UnmanagedGeometry(r.window.client) = UnmanagedGeometry(w.client)
<1> DEFINE new == SetFullscreen(w.client, enabled, FullOutput(mode))
           v == [w EXCEPT !.client = new]
           r == ApplyFullscreen(w, x, enabled)
<1>1. /\ ClientOK(new) /\ new.maximized = w.client.maximized
      /\ IsFullscreen(new) = enabled
      /\ ~enabled /\ ~IsFullscreen(w.client) => new = w.client
      /\ UnmanagedGeometry(new) = UnmanagedGeometry(w.client)
  BY SetFullscreenFacts, FillingTyped DEF Settled, WindowOK
<1>2. /\ r.window = v
      /\ r.xdg = IF FullscreenApplies(w.client, new)
                 THEN Switched(x, new.geometry, "Fullscreen", enabled) ELSE x
  BY DEF ApplyFullscreen
<1> HIDE DEF new, r
<1>3. WindowOK(v) /\ v.client = new
  BY <1>1, WithClient DEF Settled
<1> HIDE DEF v
<1>4. CASE FullscreenApplies(w.client, new)
  <2> DEFINE on == IF enabled THEN {"Fullscreen"} ELSE {}
             off == IF enabled THEN {} ELSE {"Fullscreen"}
  <2>1. r.xdg = Apply(x, v.client.geometry, on, off)
    BY <1>2, <1>3, <1>4 DEF Switched
  <2>2. on \in SUBSET States
    BY DEF States
  <2>3. LET s == (x.told.states \cup on) \ off
        IN StatesIn(w, x) => /\ ("Fullscreen" \in s) = IsFullscreen(v.client)
                             /\ ("Maximized" \in s) = (v.client.maximized = Axes)
    BY <1>1, <1>3 DEF StatesIn
  <2> HIDE DEF on, off
  <2>4. Follows(v, r.xdg, w, x)
    BY <1>3, <2>1, <2>2, <2>3, AppliedFollows
  <2> QED BY <1>1, <1>2, <1>3, <2>4 DEF r
<1>5. CASE ~FullscreenApplies(w.client, new)
  <2>1. /\ r.xdg = x /\ new.geometry = w.client.geometry
        /\ IsFullscreen(new) = IsFullscreen(w.client)
    BY <1>1, <1>2, <1>5 DEF FullscreenApplies
  <2> QED BY <1>1, <1>2, <1>3, <2>1, QuietFollows DEF r
<1> QED BY <1>4, <1>5 DEF r

\* configure_client_geometry, and whatever else sets a geometry and tells it.
LEMMA ConfiguredFollows ==
  ASSUME NEW w, NEW x, Settled(w, x), NEW g \in Geometries, NEW v, WindowOK(v),
         v.client = SetGeometry(w.client, g),
         NEW on \in SUBSET {"Resizing"}, NEW off \in SUBSET {"Resizing"}
  PROVE  Follows(v, Apply(x, g, on, off), w, x)
<1>1. /\ v.client.geometry = g /\ v.client.maximized = w.client.maximized
      /\ IsFullscreen(v.client) = IsFullscreen(w.client)
  BY SetGeometryFacts DEF Settled, WindowOK
<1>2. on \in SUBSET States
  BY DEF States
<1>3. LET s == (x.told.states \cup on) \ off
      IN StatesIn(w, x) => /\ ("Fullscreen" \in s) = IsFullscreen(v.client)
                           /\ ("Maximized" \in s) = (v.client.maximized = Axes)
  BY <1>1 DEF StatesIn
<1> QED BY <1>1, <1>2, <1>3, AppliedFollows

\* The same for a window whose client stays as it is.
LEMMA RetoldFollows ==
  ASSUME NEW w, NEW x, Settled(w, x), NEW v, WindowOK(v), v.client = w.client,
         NEW on \in SUBSET {"Resizing"}, NEW off \in SUBSET {"Resizing"}
  PROVE  Follows(v, Apply(x, w.client.geometry, on, off), w, x)
<1>1. on \in SUBSET States
  BY DEF States
<1>2. LET s == (x.told.states \cup on) \ off
      IN StatesIn(w, x) => /\ ("Fullscreen" \in s) = IsFullscreen(v.client)
                           /\ ("Maximized" \in s) = (v.client.maximized = Axes)
  BY DEF StatesIn
<1> QED BY <1>1, <1>2, AppliedFollows

(* ---- The actions ---- *)
\* What a step does, apart from the exceptions the properties name.
SettledStep == Settled(window', xdg') /\ mode' \in Modes
PlacedStep ==
  \A a \in Covered(window.client) :
    UnmanagedGeometry(window'.client)[a] = UnmanagedGeometry(window.client)[a]
StatesKept == StatesFollow(window', xdg', window, xdg)
SizesKept == SizesFollow(window', xdg', window, xdg)
GoodStep == SettledStep /\ PlacedStep /\ StatesKept /\ SizesKept

LEMMA FollowsSuffices ==
  ASSUME Follows(window', xdg', window, xdg), mode' \in Modes, PlacedStep
  PROVE  GoodStep
BY DEF Follows, GoodStep, SettledStep, StatesKept, SizesKept

LEMMA OperationTyped ==
  ASSUME NEW w, WindowOK(w)
  PROVE  /\ w.client.geometry \in Geometries
         /\ w.pointer # NoDrag => w.pointer \in Operations /\ w.pointer.start \in Geometries
         /\ w.keyboard # NoDrag => w.keyboard \in Operations /\ w.keyboard.start \in Geometries
BY DEF WindowOK, PresentationOf, Operations

\* Changing an operation leaves the client alone.
LEMMA WithPointer ==
  ASSUME NEW w, WindowOK(w), NEW p \in Operations \cup {NoDrag}
  PROVE  LET v == [w EXCEPT !.pointer = p]
         IN WindowOK(v) /\ v.client = w.client /\ v.keyboard = w.keyboard
BY DEF WindowOK

LEMMA WithKeyboard ==
  ASSUME NEW w, WindowOK(w), NEW p \in Operations \cup {NoDrag}
  PROVE  LET v == [w EXCEPT !.keyboard = p]
         IN WindowOK(v) /\ v.client = w.client /\ v.pointer = w.pointer
BY DEF WindowOK

LEMMA AlteredTyped ==
  ASSUME NEW g \in Geometries, NEW edge \in BOOLEAN
  PROVE  LET h == [g EXCEPT !["horizontal"].edge = edge]
         IN h \in Geometries /\ SizeOf(h) = SizeOf(g)
<1> DEFINE h == [g EXCEPT !["horizontal"].edge = edge]
<1>1. h \in Geometries /\ \A a \in Axes : h[a].length = g[a].length
  BY DEF Geometries, Axes
<1> HIDE DEF h
<1>2. SizeOf(h) = SizeOf(g)
  BY <1>1 DEF SizeOf
<1> QED BY <1>1, <1>2 DEF h

\* maximize_request and unmaximize_request
LEMMA ProgramMaximizesStep ==
  ASSUME IInv, NEW enabled \in BOOLEAN, ProgramMaximizes(enabled)
  PROVE  /\ SettledStep /\ PlacedStep /\ SizesKept
         /\ ~IsFullscreen(client) => StatesKept
<1> DEFINE axes == IF enabled THEN Axes ELSE {}
           new == SetMaximized(client, axes, WorkArea(mode))
           v == [window EXCEPT !.client = new]
           r == ApplyAxes(window, xdg, axes)
<1>1. /\ Settled(window, xdg) /\ mode \in Modes /\ mode' = mode
      /\ axes \in SUBSET Axes /\ (axes = Axes) = enabled
  BY DEF IInv, ProgramMaximizes, Axes
<1>2. /\ ClientOK(new) /\ new.maximized = axes
      /\ IsFullscreen(new) = IsFullscreen(client)
      /\ IsFullscreen(client) => new.geometry = client.geometry
      /\ UnmanagedGeometry(new) = UnmanagedGeometry(client)
  BY <1>1, SetMaximizedFacts, FillingTyped DEF Settled, WindowOK, client
<1>3. /\ window' = v
      /\ xdg' = IF MaximizeApplies(client, new)
                THEN Switched(xdg, new.geometry, "Maximized", enabled) ELSE xdg
  BY DEF ProgramMaximizes, ByProgram, Install, client
<1>4. /\ r.window = v
      /\ r.xdg = CASE MaximizeApplies(client, new) ->
                        Switched(xdg, new.geometry, "Maximized", axes = Axes)
                   [] /\ ~MaximizeApplies(client, new)
                      /\ new.maximized # client.maximized ->
                        Send(xdg, [xdg.told EXCEPT !.states =
                          IF axes = Axes THEN xdg.told.states \cup {"Maximized"}
                          ELSE xdg.told.states \ {"Maximized"}])
                   [] OTHER -> xdg
  BY DEF ApplyAxes, client
<1> HIDE DEF new, r, axes
<1>5. WindowOK(v) /\ v.client = new
  BY <1>1, <1>2, WithClient DEF Settled
<1>6. CASE ~IsFullscreen(client)
  <2>1. ~MaximizeApplies(client, new) => new.maximized = client.maximized
    BY <1>6 DEF MaximizeApplies
  <2>2. window' = r.window /\ xdg' = r.xdg
    BY <1>1, <1>3, <1>4, <2>1
  <2>3. /\ Follows(r.window, r.xdg, window, xdg)
        /\ UnmanagedGeometry(r.window.client) = UnmanagedGeometry(window.client)
    BY <1>1, ApplyAxesFollows DEF r
  <2>4. GoodStep
    BY <1>1, <2>2, <2>3, FollowsSuffices DEF PlacedStep
  <2> QED BY <2>4 DEF GoodStep
<1>7. CASE IsFullscreen(client)
  <2>1. xdg' = xdg
    BY <1>3, <1>7 DEF MaximizeApplies
  <2> HIDE DEF v
  <2>2. SettledStep
    BY <1>1, <1>2, <1>3, <1>5, <1>7, <2>1 DEF SettledStep, Settled, SizeTold, client
  <2>3. SizesKept
    BY <1>2, <1>3, <1>5, <1>7, <2>1 DEF SizesKept, SizesFollow, SizeIn, client
  <2>4. PlacedStep
    BY <1>2, <1>3, <1>5 DEF PlacedStep, client
  <2> QED BY <1>7, <2>2, <2>3, <2>4
<1> QED BY <1>6, <1>7

\* apply_agent_state: each part follows from the one before.
LEMMA AgentSetsStateStep ==
  ASSUME IInv, NEW axes \in (SUBSET Axes) \cup {Omitted},
         NEW fullscreen \in BOOLEAN \cup {Omitted}, AgentSetsState(axes, fullscreen)
  PROVE  GoodStep
<1> DEFINE left == IF fullscreen = FALSE THEN ApplyFullscreen(window, xdg, FALSE)
                   ELSE [window |-> window, xdg |-> xdg]
           filled == IF axes = Omitted THEN left ELSE ApplyAxes(left.window, left.xdg, axes)
           entered == IF fullscreen = TRUE
                      THEN ApplyFullscreen(filled.window, filled.xdg, TRUE) ELSE filled
           Good(r) == /\ Follows(r.window, r.xdg, window, xdg)
                      /\ UnmanagedGeometry(r.window.client) = UnmanagedGeometry(window.client)
<1>1. Settled(window, xdg) /\ mode \in Modes /\ mode' = mode
      /\ window' = entered.window /\ xdg' = entered.xdg
  BY DEF IInv, AgentSetsState, Install
<1>2. Good(left)
  <2>1. CASE fullscreen = FALSE
    BY <1>1, <2>1, ApplyFullscreenFollows
  <2>2. CASE fullscreen # FALSE
    BY <1>1, <2>2, FollowsReflexive
  <2> QED BY <2>1, <2>2
<1> HIDE DEF left
<1>3. Good(filled)
  <2>1. CASE axes = Omitted
    BY <1>2, <2>1
  <2>2. CASE axes # Omitted
    <3> DEFINE r == ApplyAxes(left.window, left.xdg, axes)
    <3>1. Follows(r.window, r.xdg, left.window, left.xdg)
          /\ UnmanagedGeometry(r.window.client) = UnmanagedGeometry(left.window.client)
      BY <1>1, <1>2, <2>2, ApplyAxesFollows DEF Follows
    <3> HIDE DEF r
    <3>2. Good(r)
      BY <1>2, <3>1, FollowsTransitive
    <3> QED BY <2>2, <3>2 DEF r
  <2> QED BY <2>1, <2>2
<1> HIDE DEF filled
<1>4. Good(entered)
  <2>1. CASE fullscreen # TRUE
    BY <1>3, <2>1
  <2>2. CASE fullscreen = TRUE
    <3> DEFINE r == ApplyFullscreen(filled.window, filled.xdg, TRUE)
    <3>1. Follows(r.window, r.xdg, filled.window, filled.xdg)
          /\ UnmanagedGeometry(r.window.client) = UnmanagedGeometry(filled.window.client)
      BY <1>1, <1>3, ApplyFullscreenFollows DEF Follows
    <3> HIDE DEF r
    <3>2. Good(r)
      BY <1>3, <3>1, FollowsTransitive
    <3> QED BY <2>2, <3>2 DEF r
  <2> QED BY <2>1, <2>2
<1> HIDE DEF entered
<1> QED BY <1>1, <1>4, FollowsSuffices DEF PlacedStep

\* Whatever sets a geometry and tells it.
LEMMA ConfiguredStep ==
  ASSUME IInv, NEW g \in Geometries, WindowOK(window'), mode' = mode,
         window'.client = SetGeometry(window.client, g),
         NEW on \in SUBSET {"Resizing"}, NEW off \in SUBSET {"Resizing"},
         xdg' = Apply(xdg, g, on, off)
  PROVE  GoodStep
<1>1. Settled(window, xdg) /\ mode \in Modes
  BY DEF IInv
<1>2. Follows(window', xdg', window, xdg)
  BY <1>1, ConfiguredFollows
<1>3. PlacedStep
  BY <1>1, SetGeometryFacts DEF PlacedStep, Settled, WindowOK
<1> QED BY <1>1, <1>2, <1>3, FollowsSuffices

\* Whatever leaves the client alone, and tells its size or nothing.
LEMMA RetoldStep ==
  ASSUME IInv, WindowOK(window'), mode' = mode, window'.client = window.client,
         NEW on \in SUBSET {"Resizing"}, NEW off \in SUBSET {"Resizing"},
         xdg' \in {xdg, Apply(xdg, window.client.geometry, on, off)}
  PROVE  GoodStep
<1>1. Settled(window, xdg) /\ mode \in Modes
  BY DEF IInv
<1>2. Follows(window', xdg', window, xdg)
  BY <1>1, RetoldFollows, QuietFollows
<1> QED BY <1>1, <1>2, FollowsSuffices DEF PlacedStep

\* Whatever sets a geometry and tells nobody.
LEMMA MovedStep ==
  ASSUME IInv, NEW g \in Geometries, WindowOK(window'), mode' = mode,
         window'.client = SetGeometry(window.client, g), xdg' = xdg
  PROVE  /\ SettledStep /\ PlacedStep /\ StatesKept
         /\ SizeOf(g) = SizeOf(window.client.geometry) => SizesKept
<1> DEFINE d == SetGeometry(window.client, g)
<1>1. Settled(window, xdg) /\ mode \in Modes
  BY DEF IInv
<1>2. /\ d.geometry = g
      /\ d.maximized = window.client.maximized
      /\ IsFullscreen(d) = IsFullscreen(window.client)
      /\ \A a \in Covered(window.client) :
           UnmanagedGeometry(d)[a] = UnmanagedGeometry(window.client)[a]
  BY <1>1, SetGeometryFacts DEF Settled, WindowOK
<1>3. window'.client = d
  OBVIOUS
<1> HIDE DEF d
<1>4. SettledStep
  BY <1>1, <1>2, <1>3 DEF SettledStep, Settled, SizeTold
<1>5. PlacedStep /\ StatesKept
  BY <1>2, <1>3 DEF PlacedStep, StatesKept, StatesFollow, StatesIn
<1>6. SizeOf(g) = SizeOf(window.client.geometry) => SizesKept
  BY <1>2, <1>3 DEF SizesKept, SizesFollow, SizeIn
<1> QED BY <1>4, <1>5, <1>6

\* The client with another geometry, and perhaps without its keyboard operation.
LEMMA WithGeometry ==
  ASSUME NEW w, WindowOK(w), NEW g \in Geometries
  PROVE  LET v == [w EXCEPT !.client = SetGeometry(@, g)]
         IN WindowOK(v) /\ v.client = SetGeometry(w.client, g)
<1> DEFINE c == SetGeometry(w.client, g)
<1>1. ClientOK(c)
  BY SetGeometryFacts DEF WindowOK
<1>2. [w EXCEPT !.client = SetGeometry(@, g)] = [w EXCEPT !.client = c]
  BY DEF WindowOK
<1> HIDE DEF c
<1>3. WindowOK([w EXCEPT !.client = c]) /\ [w EXCEPT !.client = c].client = c
  BY <1>1, WithClient
<1> QED BY <1>2, <1>3 DEF c

\* replace_outputs
LEMMA ReplaceOutputsStep ==
  ASSUME IInv, NEW new \in Modes, NEW outside \in BOOLEAN, ReplaceOutputs(new, outside)
  PROVE  GoodStep
<1> DEFINE fitted == CASE IsFullscreen(client) ->
                            SetFullscreen(client, TRUE, FullOutput(new))
                       [] ~IsFullscreen(client) /\ client.maximized # {} ->
                            SetMaximized(client, client.maximized, WorkArea(new))
                       [] OTHER -> client
           bare == [window EXCEPT !.pointer = NoDrag]
           dropped == [bare EXCEPT !.keyboard = NoDrag]
<1>1. Settled(window, xdg) /\ mode' = new /\ ClientOK(client)
      /\ client.maximized \in SUBSET Axes
  BY DEF IInv, ReplaceOutputs, Settled, WindowOK, ClientOK, PresentationOf, client
<1>2. /\ ClientOK(fitted) /\ fitted.maximized = client.maximized
      /\ IsFullscreen(fitted) = IsFullscreen(client)
      /\ UnmanagedGeometry(fitted) = UnmanagedGeometry(client)
  <2>1. CASE IsFullscreen(client)
    <3> DEFINE d == SetFullscreen(client, TRUE, FullOutput(new))
    <3>1. /\ ClientOK(d) /\ d.maximized = client.maximized /\ IsFullscreen(d)
          /\ UnmanagedGeometry(d) = UnmanagedGeometry(client)
      BY <1>1, FillingTyped, SetFullscreenFacts
    <3>2. fitted = d
      BY <2>1
    <3> HIDE DEF d, fitted
    <3> QED BY <2>1, <3>1, <3>2 DEF IsFullscreen
  <2>2. CASE ~IsFullscreen(client) /\ client.maximized # {}
    <3> DEFINE d == SetMaximized(client, client.maximized, WorkArea(new))
    <3>1. /\ ClientOK(d) /\ d.maximized = client.maximized
          /\ IsFullscreen(d) = IsFullscreen(client)
          /\ UnmanagedGeometry(d) = UnmanagedGeometry(client)
      BY <1>1, FillingTyped, SetMaximizedFacts
    <3>2. fitted = d
      BY <2>2
    <3> HIDE DEF d, fitted
    <3> QED BY <3>1, <3>2
  <2>3. CASE ~IsFullscreen(client) /\ client.maximized = {}
    <3>1. fitted = client
      BY <2>3
    <3> HIDE DEF fitted
    <3> QED BY <1>1, <3>1
  <2> QED BY <2>1, <2>2, <2>3
<1>3. /\ window' = [dropped EXCEPT !.client = fitted]
      /\ xdg' \in {xdg, Apply(xdg, fitted.geometry, {}, {})}
      /\ xdg' = xdg => \/ fitted.geometry = client.geometry
                       \/ xdg' = Apply(xdg, fitted.geometry, {}, {})
  <2>1. [window EXCEPT !.pointer = NoDrag, !.keyboard = NoDrag] = dropped
    BY <1>1 DEF Settled, WindowOK
  <2> HIDE DEF fitted, dropped
  <2> QED BY <2>1 DEF ReplaceOutputs, fitted
<1> HIDE DEF fitted
<1>4. WindowOK(bare) /\ bare.client = client
  BY <1>1, WithPointer DEF Settled, client
<1> HIDE DEF bare
<1>5. WindowOK(dropped)
  BY <1>4, WithKeyboard
<1> HIDE DEF dropped
<1>6. WindowOK(window') /\ window'.client = fitted
  BY <1>2, <1>3, <1>5, WithClient
<1>7. Follows(window', xdg', window, xdg)
  <2>1. CASE xdg' = Apply(xdg, fitted.geometry, {}, {})
    BY <1>1, <1>2, <1>6, <2>1, AppliedFollows DEF StatesIn, client
  <2>2. CASE xdg' = xdg /\ fitted.geometry = client.geometry
    BY <1>1, <1>2, <1>6, <2>2, QuietFollows DEF client
  <2> QED BY <1>3, <2>1, <2>2
<1> QED BY <1>1, <1>2, <1>6, <1>7, FollowsSuffices DEF PlacedStep, client

LEMMA RequestsStep ==
  ASSUME IInv, Requests
  PROVE  /\ SettledStep /\ PlacedStep /\ SizesKept
         /\ \/ StatesKept
            \/ IsFullscreen(client) /\ \E enabled \in BOOLEAN : ProgramMaximizes(enabled)
<1>1. Settled(window, xdg) /\ mode \in Modes
  BY DEF IInv
<1>2. ASSUME NEW enabled \in BOOLEAN, ProgramMaximizes(enabled)
      PROVE  /\ SettledStep /\ PlacedStep /\ SizesKept
             /\ ~IsFullscreen(client) => StatesKept
  BY <1>2, ProgramMaximizesStep
<1>3. ASSUME NEW enabled \in BOOLEAN, Fullscreens(enabled) PROVE GoodStep
  <2> DEFINE r == ApplyFullscreen(window, xdg, enabled)
  <2>1. window' = r.window /\ xdg' = r.xdg /\ mode' = mode
    BY <1>3 DEF Fullscreens, Install
  <2>2. /\ Follows(r.window, r.xdg, window, xdg)
        /\ UnmanagedGeometry(r.window.client) = UnmanagedGeometry(window.client)
    BY <1>1, ApplyFullscreenFollows
  <2> HIDE DEF r
  <2> QED BY <1>1, <2>1, <2>2, FollowsSuffices DEF PlacedStep
<1>4. ASSUME NEW axes \in SUBSET Axes, UserMaximizes(axes) PROVE GoodStep
  <2> DEFINE r == ApplyAxes(window, xdg, axes)
  <2>1. window' = r.window /\ xdg' = r.xdg /\ mode' = mode
    BY <1>4 DEF UserMaximizes, Install
  <2>2. /\ Follows(r.window, r.xdg, window, xdg)
        /\ UnmanagedGeometry(r.window.client) = UnmanagedGeometry(window.client)
    BY <1>1, ApplyAxesFollows
  <2> HIDE DEF r
  <2> QED BY <1>1, <2>1, <2>2, FollowsSuffices DEF PlacedStep
<1> QED BY <1>2, <1>3, <1>4, AgentSetsStateStep, ReplaceOutputsStep DEF Requests, GoodStep

LEMMA GeometryStep == IInv /\ Geometry => GoodStep
<1> SUFFICES ASSUME IInv, Geometry PROVE GoodStep
  OBVIOUS
<1>1. WindowOK(window) /\ client.geometry \in Geometries
  BY OperationTyped DEF IInv, Settled, client
<1>2. ASSUME NEW g \in Geometries, Install(Configure(window, xdg, g)), UNCHANGED mode
      PROVE  GoodStep
  <2>1. window' = [window EXCEPT !.client = SetGeometry(@, g)]
        /\ xdg' = Apply(xdg, g, {}, {})
    BY <1>2 DEF Install, Configure
  <2>2. WindowOK(window') /\ window'.client = SetGeometry(window.client, g)
    BY <1>1, <2>1, WithGeometry
  <2> QED BY <1>2, <2>1, <2>2, ConfiguredStep
<1>3. PICK g \in {Sized(size) : size \in ChosenSizes} \cup {Placed(edge) : edge \in BOOLEAN} :
        UserConfigures(g) \/ AgentConfigures(g)
  BY DEF Geometry
<1>4. g \in Geometries
  BY <1>1, ResizedTyped, ChosenTyped, AlteredTyped DEF Sized, Placed
<1>5. CASE UserConfigures(g)
  BY <1>2, <1>4, <1>5 DEF UserConfigures
<1>6. CASE AgentConfigures(g)
  <2> DEFINE kept == IF IsFullscreen(client) THEN Axes ELSE client.maximized
             h == Replace(g, kept, client.geometry)
  <2>1. h \in Geometries
    BY <1>1, <1>4, ReplaceTyped
  <2>2. Install(Configure(window, xdg, h)) /\ UNCHANGED mode
    BY <1>6 DEF AgentConfigures
  <2> HIDE DEF h
  <2> QED BY <1>2, <2>1, <2>2
<1> QED BY <1>3, <1>5, <1>6

\* finish_keyboard_interactive: the client stays or goes back to where it was, and
\* after a resize the program is told.
LEMMA KeyboardEndsFollows ==
  ASSUME NEW w, NEW x, Settled(w, x), w.keyboard # NoDrag, NEW cancel \in BOOLEAN
  PROVE  LET r == KeyboardEnds(w, x, cancel)
         IN /\ Settled(r.window, r.xdg) /\ (r.xdg.alive => x.alive)
            /\ StatesFollow(r.window, r.xdg, w, x)
            /\ \A a \in Covered(w.client) :
                 UnmanagedGeometry(r.window.client)[a] = UnmanagedGeometry(w.client)[a]
            /\ ~cancel => /\ SizesFollow(r.window, r.xdg, w, x)
                          /\ r.window.client = w.client
<1> DEFINE start == w.keyboard.start
           new == IF cancel THEN SetGeometry(w.client, start) ELSE w.client
           changed == [w EXCEPT !.client = new]
           v == [changed EXCEPT !.keyboard = NoDrag]
           y == IF w.keyboard.kind = "Resize"
                THEN Apply(x, new.geometry, {}, {"Resizing"}) ELSE x
           r == KeyboardEnds(w, x, cancel)
<1>1. WindowOK(w) /\ ClientOK(w.client) /\ start \in Geometries
  BY OperationTyped DEF Settled, WindowOK
<1>2. /\ ClientOK(new) /\ new.maximized = w.client.maximized
      /\ IsFullscreen(new) = IsFullscreen(w.client)
      /\ \A a \in Covered(w.client) :
           UnmanagedGeometry(new)[a] = UnmanagedGeometry(w.client)[a]
      /\ ~cancel => new = w.client
  <2>1. CASE cancel
    <3> DEFINE d == SetGeometry(w.client, start)
    <3>1. /\ ClientOK(d) /\ d.maximized = w.client.maximized
          /\ IsFullscreen(d) = IsFullscreen(w.client)
          /\ \A a \in Covered(w.client) :
               UnmanagedGeometry(d)[a] = UnmanagedGeometry(w.client)[a]
      BY <1>1, SetGeometryFacts
    <3>2. new = d
      BY <2>1
    <3> HIDE DEF d, new
    <3> QED BY <2>1, <3>1, <3>2
  <2>2. CASE ~cancel
    <3>1. new = w.client
      BY <2>2
    <3> HIDE DEF new
    <3> QED BY <1>1, <2>2, <3>1
  <2> QED BY <2>1, <2>2
<1>3. r.window = v /\ r.xdg = y
  <2>1. r.window = [w EXCEPT !.client = new, !.keyboard = NoDrag] /\ r.xdg = y
    BY DEF KeyboardEnds
  <2> HIDE DEF new
  <2>2. [w EXCEPT !.client = new, !.keyboard = NoDrag] = v
    BY <1>1 DEF WindowOK
  <2> QED BY <2>1, <2>2
<1> HIDE DEF new, r
<1>4. WindowOK(changed) /\ changed.client = new
  BY <1>1, <1>2, WithClient
<1> HIDE DEF changed
<1>5. WindowOK(v) /\ v.client = new
  BY <1>4, WithKeyboard
<1> HIDE DEF v
<1>6. CASE w.keyboard.kind = "Resize"
  <2>1. y = Apply(x, v.client.geometry, {}, {"Resizing"})
    BY <1>5, <1>6
  <2>2. LET s == (x.told.states \cup {}) \ {"Resizing"}
        IN StatesIn(w, x) => /\ ("Fullscreen" \in s) = IsFullscreen(v.client)
                             /\ ("Maximized" \in s) = (v.client.maximized = Axes)
    BY <1>2, <1>5 DEF StatesIn
  <2> HIDE DEF y
  <2>3. Follows(v, y, w, x)
    BY <1>5, <2>1, <2>2, AppliedFollows
  <2> QED BY <1>2, <1>3, <1>5, <2>3 DEF Follows, r
<1>7. CASE w.keyboard.kind # "Resize"
  <2>1. y = x
    BY <1>7
  <2> HIDE DEF y
  <2>2. Settled(v, x) /\ StatesFollow(v, x, w, x)
    BY <1>2, <1>5 DEF Settled, SizeTold, StatesFollow, StatesIn
  <2>3. ~cancel => SizesFollow(v, x, w, x)
    BY <1>2, <1>5 DEF SizesFollow, SizeIn
  <2> QED BY <1>2, <1>3, <1>5, <2>1, <2>2, <2>3 DEF r
<1> QED BY <1>6, <1>7

LEMMA StartsStep == IInv /\ Starts => GoodStep
<1> SUFFICES ASSUME IInv, Starts PROVE GoodStep
  OBVIOUS
<1>1. /\ Settled(window, xdg) /\ mode \in Modes /\ WindowOK(window)
      /\ client.geometry \in Geometries
  BY OperationTyped DEF IInv, Settled, client
<1>2. ASSUME NEW kind \in Kinds, NEW byProgram \in BOOLEAN, StartPointer(kind, byProgram)
      PROVE  GoodStep
  <2> DEFINE op == [kind |-> kind, start |-> client.geometry]
  <2>1. op \in Operations
    BY <1>1 DEF Operations
  <2>2. /\ window' = [window EXCEPT !.pointer = op] /\ mode' = mode
        /\ xdg' \in {xdg, Apply(xdg, window.client.geometry, {"Resizing"}, {})}
    BY <1>2 DEF StartPointer, client
  <2> HIDE DEF op
  <2>3. WindowOK(window') /\ window'.client = window.client
    BY <1>1, <2>1, <2>2, WithPointer
  <2> QED BY <2>2, <2>3, RetoldStep
<1>3. ASSUME NEW kind \in Kinds, StartKeyboard(kind) PROVE GoodStep
  <2> DEFINE ended == KeyboardEnds(window, xdg, FALSE)
             op == [kind |-> kind, start |-> client.geometry]
  <2>1. op \in Operations
    BY <1>1 DEF Operations
  <2>2. /\ window' = [ended.window EXCEPT !.keyboard = op] /\ mode' = mode
        /\ xdg' \in {ended.xdg, Apply(ended.xdg, window.client.geometry, {"Resizing"}, {})}
    BY <1>3 DEF StartKeyboard, client
  <2>3. Follows(ended.window, ended.xdg, window, xdg) /\ ended.window.client = window.client
    <3>1. CASE window.keyboard = NoDrag
      <4>1. ended.window = window /\ ended.xdg = xdg
        BY <3>1 DEF KeyboardEnds
      <4> HIDE DEF ended
      <4> QED BY <1>1, <4>1, FollowsReflexive
    <3>2. CASE window.keyboard # NoDrag
      BY <1>1, <3>2, KeyboardEndsFollows DEF Follows
    <3> QED BY <3>1, <3>2
  <2> HIDE DEF op, ended
  <2>4. WindowOK(window') /\ window'.client = window.client
    BY <2>1, <2>2, <2>3, WithKeyboard DEF Follows, Settled
  <2>5. Follows(window', xdg', ended.window, ended.xdg)
    <3>1. CASE xdg' = ended.xdg
      BY <2>3, <2>4, <3>1, QuietFollows DEF Follows
    <3>2. CASE xdg' = Apply(ended.xdg, ended.window.client.geometry, {"Resizing"}, {})
      BY <2>3, <2>4, <3>2, RetoldFollows DEF Follows
    <3> QED BY <2>2, <2>3, <3>1, <3>2
  <2>6. Follows(window', xdg', window, xdg)
    BY <2>3, <2>5, FollowsTransitive
  <2> QED BY <1>1, <2>2, <2>4, <2>6, FollowsSuffices DEF PlacedStep
<1> QED BY <1>2, <1>3 DEF Starts

LEMMA InteractionStep ==
  ASSUME IInv, Interaction
  PROVE  /\ SettledStep /\ PlacedStep /\ StatesKept
         /\ \/ SizesKept
            \/ \E edge \in BOOLEAN : PointerMoves(edge)
            \/ KeyboardFinishes(TRUE)
<1>1. /\ Settled(window, xdg) /\ mode \in Modes /\ WindowOK(window)
      /\ client.geometry \in Geometries
  BY OperationTyped DEF IInv, Settled, client
<1>2. ASSUME NEW edge \in BOOLEAN, PointerMoves(edge)
      PROVE  SettledStep /\ PlacedStep /\ StatesKept
  <2> DEFINE g == [window.pointer.start EXCEPT !["horizontal"].edge = edge]
  <2>1. g \in Geometries
    BY <1>1, <1>2, OperationTyped, AlteredTyped DEF PointerMoves
  <2>2. /\ window' = [window EXCEPT !.client = SetGeometry(@, g)]
        /\ xdg' = xdg /\ mode' = mode
    BY <1>2 DEF PointerMoves
  <2> HIDE DEF g
  <2>3. WindowOK(window') /\ window'.client = SetGeometry(window.client, g)
    BY <1>1, <2>1, <2>2, WithGeometry
  <2> QED BY <2>1, <2>2, <2>3, MovedStep
<1>3. ASSUME NEW edge \in BOOLEAN, KeyMoves(edge) PROVE GoodStep
  <2> DEFINE g == Placed(edge)
  <2>1. g \in Geometries /\ SizeOf(g) = SizeOf(window.client.geometry)
    BY <1>1, AlteredTyped DEF Placed, client
  <2>2. /\ window' = [window EXCEPT !.client = SetGeometry(@, g)]
        /\ xdg' = xdg /\ mode' = mode
    BY <1>3 DEF KeyMoves
  <2> HIDE DEF g
  <2>3. WindowOK(window') /\ window'.client = SetGeometry(window.client, g)
    BY <1>1, <2>1, <2>2, WithGeometry
  <2> QED BY <2>1, <2>2, <2>3, MovedStep DEF GoodStep
<1>4. ASSUME NEW g \in Geometries, window' = [window EXCEPT !.client = SetGeometry(@, g)],
             xdg' = Apply(xdg, g, {"Resizing"}, {}), mode' = mode
      PROVE  GoodStep
  <2>1. WindowOK(window') /\ window'.client = SetGeometry(window.client, g)
    BY <1>1, <1>4, WithGeometry
  <2> QED BY <1>4, <2>1, ConfiguredStep
<1>5. ASSUME NEW size \in ChosenSizes, PointerResizes(size) PROVE GoodStep
  <2>1. Resized(window.pointer.start, size) \in Geometries
    BY <1>1, <1>5, OperationTyped, ChosenTyped, ResizedTyped DEF PointerResizes
  <2> QED BY <1>4, <1>5, <2>1 DEF PointerResizes
<1>6. ASSUME PointerReleases PROVE GoodStep
  <2>1. WindowOK(window') /\ window'.client = window.client
    BY <1>1, <1>6, WithPointer DEF PointerReleases
  <2> QED BY <1>6, <2>1, RetoldStep DEF PointerReleases, client
<1>7. ASSUME NEW axis \in Axes, NEW value \in Chosen[axis], KeyResizes(axis, value)
      PROVE  GoodStep
  <2> DEFINE g == [client.geometry EXCEPT ![axis].length = Length("Chosen", value)]
  <2>1. Length("Chosen", value) \in Lengths
    BY DEF Length, Lengths
  <2>2. g \in Geometries
    BY <1>1, <2>1 DEF Geometries
  <2>3. /\ window' = [window EXCEPT !.client = SetGeometry(@, g)]
        /\ xdg' = Apply(xdg, g, {"Resizing"}, {}) /\ mode' = mode
    BY <1>7 DEF KeyResizes
  <2> HIDE DEF g
  <2> QED BY <1>4, <2>2, <2>3
<1>8. ASSUME NEW cancel \in BOOLEAN, KeyboardFinishes(cancel)
      PROVE  SettledStep /\ PlacedStep /\ StatesKept /\ (cancel \/ SizesKept)
  <2> DEFINE r == KeyboardEnds(window, xdg, cancel)
  <2>1. window.keyboard # NoDrag /\ window' = r.window /\ xdg' = r.xdg /\ mode' = mode
    BY <1>8 DEF KeyboardFinishes, Install
  <2>2. /\ Settled(r.window, r.xdg) /\ StatesFollow(r.window, r.xdg, window, xdg)
        /\ \A a \in Covered(window.client) :
             UnmanagedGeometry(r.window.client)[a] = UnmanagedGeometry(window.client)[a]
        /\ ~cancel => SizesFollow(r.window, r.xdg, window, xdg)
    BY <1>1, <2>1, KeyboardEndsFollows
  <2> HIDE DEF r
  <2> QED BY <1>1, <2>1, <2>2 DEF SettledStep, PlacedStep, StatesKept, SizesKept
<1> QED BY <1>2, <1>3, <1>5, <1>6, <1>7, <1>8 DEF Interaction, GoodStep

\* A buffer of the size the program was told, or of its own where it may choose.
LEMMA CommitsStep == IInv /\ Commits => GoodStep
<1> SUFFICES ASSUME IInv, Commits PROVE GoodStep
  OBVIOUS
<1>1. /\ Settled(window, xdg) /\ mode \in Modes /\ WindowOK(window) /\ XdgOK(xdg)
      /\ client.geometry \in Geometries
  BY OperationTyped DEF IInv, Settled, client
<1>2. \A configure \in Configures : MayShow(configure) \subseteq Sizes
  BY ChosenTyped DEF MayShow, Configures
<1>3. ASSUME NEW size \in Sizes, NEW y, XdgOK(y), y.alive = xdg.alive, y.told = xdg.told,
             window' = [window EXCEPT !.client = Committed(@, size)], xdg' = y, mode' = mode,
             xdg.alive /\ y.unanswered = <<>> => size \in MayShow(xdg.told)
      PROVE  GoodStep
  <2> DEFINE g == Resized(window.client.geometry, size)
             d == SetGeometry(window.client, g)
  <2>1. g \in Geometries /\ SizeOf(g) = size
    BY <1>1, ResizedTyped DEF client
  <2>2. [window EXCEPT !.client = Committed(@, size)] = [window EXCEPT !.client = d]
    BY <1>1 DEF Committed, WindowOK
  <2> HIDE DEF g
  <2>3. /\ ClientOK(d) /\ d.geometry = g /\ d.maximized = window.client.maximized
        /\ IsFullscreen(d) = IsFullscreen(window.client)
        /\ \A a \in Covered(window.client) :
             UnmanagedGeometry(d)[a] = UnmanagedGeometry(window.client)[a]
    BY <1>1, <2>1, SetGeometryFacts DEF WindowOK
  <2> HIDE DEF d
  <2>4. WindowOK(window') /\ window'.client = d
    BY <1>1, <1>3, <2>2, <2>3, WithClient
  <2>5. Settled(window', y)
    BY <1>1, <1>3, <2>3, <2>4 DEF Settled, SizeTold
  <2>6. StatesFollow(window', y, window, xdg)
    BY <1>3, <2>3, <2>4 DEF StatesFollow, StatesIn
  <2>7. SizesFollow(window', y, window, xdg)
    <3> SUFFICES ASSUME xdg.alive, y.unanswered = <<>>,
                        xdg.told.states \cap {"Maximized", "Fullscreen"} # {}
                 PROVE  SizeOf(d.geometry) = xdg.told.size
      BY <1>3, <2>4 DEF SizesFollow, SizeIn
    <3>1. xdg.told.size # NoGeometry
      BY <1>1 DEF Settled, SizeTold
    <3>2. size = xdg.told.size
      BY <1>3, <3>1 DEF MayShow
    <3> QED BY <2>1, <2>3, <3>2
  <2> QED BY <1>1, <1>3, <2>3, <2>4, <2>5, <2>6, <2>7, FollowsSuffices DEF Follows, PlacedStep
<1>4. ASSUME NEW k \in 1..Len(xdg.unanswered), NEW size \in MayShow(xdg.unanswered[k]),
             Answer(k, size)
      PROVE  GoodStep
  <2> DEFINE rest == SubSeq(xdg.unanswered, k + 1, Len(xdg.unanswered))
             y == [xdg EXCEPT !.unanswered = rest, !.drawn = xdg.unanswered[k]]
  <2>1. xdg.unanswered \in Seq(Configures) /\ xdg.unanswered[k] \in Configures
    BY <1>1 DEF XdgOK
  <2>2. /\ rest \in Seq(Configures)
        /\ rest = <<>> => k = Len(xdg.unanswered)
        /\ k = Len(xdg.unanswered) => rest = <<>>
        /\ rest # <<>> => rest[Len(rest)] = xdg.unanswered[Len(xdg.unanswered)]
    <3>1. Len(xdg.unanswered) \in Nat
      BY <2>1
    <3>2. rest \in Seq(Configures) /\ Len(rest) = Len(xdg.unanswered) - k
          /\ \A i \in 1..Len(rest) : rest[i] = xdg.unanswered[k + i]
      BY <2>1, <3>1
    <3> HIDE DEF rest
    <3>3. k \in Nat /\ k >= 1 /\ k <= Len(xdg.unanswered)
      BY <3>1
    <3>4. rest = <<>> <=> Len(rest) = 0
      BY <3>2
    <3>5. Len(rest) \in Nat
      BY <3>2
    <3>6. rest = <<>> <=> k = Len(xdg.unanswered)
      BY <3>1, <3>2, <3>3, <3>4
    <3>7. ASSUME rest # <<>> PROVE rest[Len(rest)] = xdg.unanswered[Len(xdg.unanswered)]
      <4>1. Len(rest) \in 1..Len(rest)
        BY <3>4, <3>5, <3>7
      <4>2. k + Len(rest) = Len(xdg.unanswered)
        BY <3>1, <3>2, <3>3
      <4>3. rest[Len(rest)] = xdg.unanswered[k + Len(rest)]
        BY <3>2, <4>1
      <4> QED BY <4>2, <4>3
    <3> QED BY <3>2, <3>6, <3>7
  <2> HIDE DEF rest
  <2>3. /\ y \in [alive : BOOLEAN, told : Configures, unanswered : Seq(Configures),
                  drawn : Configures]
        /\ y.alive = xdg.alive /\ y.told = xdg.told /\ y.unanswered = rest
        /\ y.drawn = xdg.unanswered[k]
    BY <1>1, <2>1, <2>2 DEF XdgOK
  <2>4. xdg' = y /\ window' = [window EXCEPT !.client = Committed(@, size)] /\ mode' = mode
    BY <1>4 DEF Answer, rest
  <2> HIDE DEF y
  <2>5. xdg.unanswered # <<>>
    BY <2>1
  <2>6. XdgOK(y)
    BY <1>1, <2>2, <2>3, <2>5 DEF XdgOK
  <2>7. y.unanswered = <<>> => size \in MayShow(xdg.told)
    BY <1>1, <1>4, <2>2, <2>3, <2>5 DEF XdgOK
  <2>8. size \in Sizes
    BY <1>2, <1>4, <2>1
  <2> QED BY <1>3, <2>3, <2>4, <2>6, <2>7, <2>8
<1>5. ASSUME NEW size \in MayShow(xdg.drawn), Redraw(size) PROVE GoodStep
  <2>1. xdg.drawn \in Configures /\ (xdg.unanswered = <<>> => xdg.drawn = xdg.told)
    BY <1>1 DEF XdgOK
  <2>2. size \in Sizes
    BY <1>2, <1>5, <2>1
  <2> QED BY <1>1, <1>3, <1>5, <2>1, <2>2 DEF Redraw
<1> QED BY <1>4, <1>5 DEF Commits

LEMMA StutterStep == IInv /\ UNCHANGED vars => GoodStep
<1> SUFFICES ASSUME IInv, UNCHANGED vars PROVE GoodStep
  OBVIOUS
<1>1. window' = window /\ xdg' = xdg /\ mode' = mode
  BY DEF vars
<1> QED BY <1>1, FollowsReflexive, FollowsSuffices DEF IInv, PlacedStep

\* A step does what the properties say, with the exceptions they name.
LEMMA NextStep ==
  IInv /\ [Next]_vars =>
    /\ SettledStep /\ PlacedStep
    /\ \/ StatesKept
       \/ IsFullscreen(client) /\ \E enabled \in BOOLEAN : ProgramMaximizes(enabled)
    /\ \/ SizesKept
       \/ \E edge \in BOOLEAN : PointerMoves(edge)
       \/ KeyboardFinishes(TRUE)
BY RequestsStep, GeometryStep, StartsStep, InteractionStep, CommitsStep, StutterStep
   DEF Next, GoodStep

LEMMA InitIInv == Init => IInv
<1> SUFFICES ASSUME Init PROVE IInv
  OBVIOUS
<1> DEFINE first == [size |-> NoGeometry, states |-> {}]
<1>1. PICK size \in ChosenSizes :
        window =
         [client |->
            [geometry |-> [a \in Axes |-> [edge |-> a = "vertical", length |-> size[a]]],
             maximized |-> {}, restore |-> NoGeometry, fullscreen |-> NoGeometry,
             shaded |-> FALSE, role |-> "Normal", natural |-> TRUE,
             preference |-> "Default"],
          pointer |-> NoDrag, keyboard |-> NoDrag]
  BY DEF Init
<1>2. [a \in Axes |-> [edge |-> a = "vertical", length |-> size[a]]] \in Geometries
  BY ChosenTyped DEF Geometries, Sizes
<1>3. WindowOK(window) /\ ~IsFullscreen(window.client)
  BY <1>1, <1>2 DEF WindowOK, ClientOK, PresentationOf, Roles, Preferences, IsFullscreen
<1>4. first \in Configures /\ first.states = {}
  BY DEF Configures
<1>5. xdg = [alive |-> TRUE, told |-> first, unanswered |-> <<>>, drawn |-> first]
      /\ mode \in Modes
  BY DEF Init
<1> HIDE DEF first
<1>6. XdgOK(xdg) /\ xdg.told = first
  BY <1>4, <1>5 DEF XdgOK
<1> QED BY <1>3, <1>4, <1>5, <1>6 DEF IInv, Settled, SizeTold

\* Between any two states the window and its xdg role are as WindowOK and XdgOK say:
\* what the program was told last is the last it has to answer, or, if it has answered
\* everything, what it draws for; and a program that was never told a size fills
\* nothing (send_pending_toplevel_configure, ack_configure).
THEOREM Invariance == Spec => []IInv
<1>1. IInv /\ [Next]_vars => IInv'
  BY NextStep DEF SettledStep, IInv, Settled, WindowOK, XdgOK, ClientOK, SizeTold
<1> QED BY InitIInv, <1>1, PTL DEF Spec

\* No step, not a late buffer, a new output or an operation that goes on, moves the
\* place a maximized or fullscreen client returns to (set_geometry,
\* update_maximized_geometry, map_toplevel_if_ready).
THEOREM PlacementCorrect == Spec => PlacementKept
<1>1. PlacedStep => PlacementStep
  BY DEF PlacedStep, PlacementStep, client
<1>2. IInv /\ [Next]_vars => PlacementStep
  BY NextStep, <1>1
<1> QED BY Invariance, <1>2, PTL DEF Spec, PlacementKept

\* The states the program was told last go on to be those of the policy, however
\* requests of the program, the user and agents alternate, except after the program's
\* own request while it is fullscreen (apply_client_maximized_axes).
THEOREM StatesCorrect == Spec => StatesTold
<1>1. StatesKept => (StatesAgree /\ xdg.alive' => StatesAgree')
  BY DEF StatesKept, StatesFollow, StatesIn, StatesAgree, client
<1>2. IInv /\ [Next]_vars => StatesStep
  BY NextStep, <1>1 DEF StatesStep
<1> QED BY Invariance, <1>2, PTL DEF Spec, StatesTold

\* A program that has answered everything has the size it was told last, whatever it
\* committed on the way, unless a move goes on (map_toplevel_if_ready,
\* apply_state_geometry).
THEOREM SizesCorrect == Spec => AnswersAgree
<1>1. SizesKept => (SizeAgrees /\ xdg.alive' => SizeAgrees')
  BY DEF SizesKept, SizesFollow, SizeIn, SizeAgrees, client
<1>2. IInv /\ [Next]_vars => SizesStep
  BY NextStep, <1>1 DEF SizesStep
<1> QED BY Invariance, <1>2, PTL DEF Spec, AnswersAgree

-----------------------------------------------------------------------------
(* ---- The session lock: the inductive invariant ---- *)
Locks ==
    [active : BOOLEAN, alive : BOOLEAN, confirmed : BOOLEAN, told : BOOLEAN,
     awaiting_present : SUBSET Outputs, surfaces : SUBSET Outputs, drawn : SUBSET Outputs]

\* The outputs known to have nothing ordinary under way
Cleared(o) == lock.told \/ (~ lock.confirmed /\ o \notin lock.awaiting_present)

ClearedAreClear ==
    lock.active => \A o \in outputs : Cleared(o) => queued[o] \notin Scenes

\* An owner that is there was told of what it may rely on.
OwnerTold == lock.active /\ lock.alive /\ lock.confirmed => lock.told

\* A lock that was undone leaves nothing behind.
IdleIsNoLock == ~ lock.active => lock = NoLock

LockOK == TypeOK /\ lock \in Locks /\ ClearedAreClear /\ OwnerTold /\ IdleIsNoLock

-----------------------------------------------------------------------------
(* ---- Facts about the operators ---- *)
LEMMA ContentsApart ==
    /\ Scenes \cap Secure = {}
    /\ "none" \notin Contents
    /\ Scenes \subseteq Contents /\ Secure \subseteq Contents
  BY DEF Scenes, Secure, Contents

LEMMA NoLockType ==
    /\ NoLock \in Locks
    /\ ~ NoLock.active
    /\ NoLock.awaiting_present = {} /\ NoLock.surfaces = {} /\ NoLock.drawn = {}
  BY DEF NoLock, Locks

\* Whatever is rendered under a lock is secure.
LEMMA TargetSecure ==
    ASSUME NEW o \in Outputs, scene \in Scenes
    PROVE  /\ Target(o) \in Contents
           /\ lock.active => Target(o) \in Secure
  BY DEF Target, Scenes, Secure, Contents

LEMMA FramePresentedFacts ==
    ASSUME NEW l \in Locks, NEW o \in Outputs
    PROVE  LET m == FramePresented(l, o) IN
           /\ m \in Locks
           /\ m.active = l.active /\ m.alive = l.alive
           /\ m.surfaces = l.surfaces /\ m.drawn = l.drawn
           /\ m.awaiting_present = l.awaiting_present \ {o}
           /\ m.told => l.told \/ (m.awaiting_present = {} /\ ~ l.confirmed)
           /\ m.confirmed => l.confirmed \/ m.told
           /\ l.told => m.told
           /\ l.confirmed => m.confirmed
  BY DEF FramePresented, Locks

LEMMA SyncFacts ==
    ASSUME NEW l \in Locks, NEW connected \in SUBSET Outputs
    PROVE  LET m == SyncLockOutputs(l, connected) IN
           /\ m \in Locks
           /\ m.active = l.active /\ m.alive = l.alive
           /\ m.told = l.told /\ m.confirmed = l.confirmed
           /\ l.active => /\ m.awaiting_present \subseteq connected
                          /\ m.surfaces = l.surfaces \cap connected
                          /\ m.drawn = l.drawn \cap connected
                          /\ ~ l.confirmed => m.awaiting_present = connected
           /\ ~ l.active => m = l
  BY DEF SyncLockOutputs, Locks

-----------------------------------------------------------------------------
(* ---- The invariant holds, one lemma for each action ---- *)
LEMMA LockInitInv == LockInit => LockOK
  <1> SUFFICES ASSUME LockInit PROVE LockOK
    OBVIOUS
  <1>1. TypeOK
    <2>1. shown \in [Outputs -> Contents] /\ queued \in [Outputs -> Contents \cup {"none"}]
      BY ContentsApart DEF LockInit, Contents, Scenes, Secure
    <2> QED BY <2>1, NoLockType DEF LockInit, TypeOK, Scenes
  <1> QED BY <1>1, NoLockType DEF LockInit, LockOK, ClearedAreClear, OwnerTold, IdleIsNoLock

LEMMA RenderInv == ASSUME LockOK, Render PROVE LockOK'
  <1>1. \A o \in Outputs :
           /\ queued'[o] \in Contents \cup {"none"}
           /\ queued'[o] /= queued[o] =>
                 o \in outputs /\ (lock.active => queued'[o] \in Secure)
    BY TargetSecure DEF LockOK, TypeOK, Render
  <1>2. queued' \in [Outputs -> Contents \cup {"none"}]
    BY <1>1 DEF Render
  <1>3. redraw_needed' \in BOOLEAN
    BY DEF Render
  <1>4. TypeOK'
    BY <1>1, <1>2, <1>3 DEF LockOK, TypeOK, Render
  <1>5. ClearedAreClear'
    BY <1>1, ContentsApart DEF LockOK, TypeOK, ClearedAreClear, Cleared, Render
  <1> QED BY <1>4, <1>5 DEF LockOK, OwnerTold, IdleIsNoLock, Render

LEMMA VBlankInv == ASSUME LockOK, NEW o \in Outputs, VBlank(o) PROVE LockOK'
  <1> DEFINE l == IF lock.active THEN FramePresented(lock, o) ELSE lock
  <1>1. /\ lock' = l /\ l \in Locks
        /\ ~ lock.active => l = lock
        /\ l.active = lock.active /\ l.alive = lock.alive
        /\ l.surfaces = lock.surfaces /\ l.drawn = lock.drawn
        /\ l.awaiting_present \subseteq lock.awaiting_present
    BY FramePresentedFacts DEF LockOK, VBlank
  <1>2. lock.active =>
           /\ l.awaiting_present = lock.awaiting_present \ {o}
           /\ l.told => lock.told \/ (l.awaiting_present = {} /\ ~ lock.confirmed)
           /\ l.confirmed => lock.confirmed \/ l.told
           /\ lock.told => l.told
           /\ lock.confirmed => l.confirmed
    BY FramePresentedFacts DEF LockOK
  <1> HIDE DEF l
  <1>3. /\ o \in outputs /\ queued[o] \in Contents
        /\ shown' \in [Outputs -> Contents]
        /\ queued' \in [Outputs -> Contents \cup {"none"}]
        /\ queued' = [queued EXCEPT ![o] = "none"]
    BY DEF LockOK, TypeOK, VBlank, Pending
  <1>4. TypeOK'
    BY <1>1, <1>3 DEF LockOK, TypeOK, VBlank
  <1>5. ClearedAreClear'
    <2> SUFFICES ASSUME lock.active, NEW p \in outputs, p /= o, Cleared(p)'
                 PROVE  queued[p] \notin Scenes
      BY <1>1, <1>3, ContentsApart DEF LockOK, TypeOK, ClearedAreClear, VBlank
    <2>1. Cleared(p)
      BY <1>1, <1>2 DEF Cleared
    <2> QED BY <2>1 DEF LockOK, ClearedAreClear
  <1>6. OwnerTold'
    BY <1>1, <1>2 DEF LockOK, OwnerTold
  <1>7. IdleIsNoLock'
    BY <1>1 DEF LockOK, IdleIsNoLock
  <1> QED BY <1>1, <1>4, <1>5, <1>6, <1>7 DEF LockOK

LEMMA PlugInv == ASSUME LockOK, Plug PROVE LockOK'
  <1> DEFINE l == SyncLockOutputs(lock, outputs')
  <1>1. outputs' \in SUBSET Outputs /\ outputs' /= {} /\ lock' = l
    BY DEF Plug
  <1>2. /\ l \in Locks
        /\ l.active = lock.active /\ l.alive = lock.alive
        /\ l.told = lock.told /\ l.confirmed = lock.confirmed
        /\ lock.active => /\ l.awaiting_present \subseteq outputs'
                          /\ l.surfaces = lock.surfaces \cap outputs'
                          /\ l.drawn = lock.drawn \cap outputs'
                          /\ ~ lock.confirmed => l.awaiting_present = outputs'
        /\ ~ lock.active => l = lock
    BY <1>1, SyncFacts DEF LockOK
  <1> HIDE DEF l
  <1>3. \A o \in Outputs :
           queued'[o] = IF o \in outputs \cap outputs' THEN queued[o] ELSE "none"
    BY DEF Plug
  <1>4. ~ lock.active => /\ lock.awaiting_present = {}
                         /\ lock.surfaces = {} /\ lock.drawn = {}
    BY NoLockType DEF LockOK, IdleIsNoLock
  <1>5. TypeOK'
    <2>1. /\ shown' \in [Outputs -> Contents]
          /\ queued' \in [Outputs -> Contents \cup {"none"}]
      BY ContentsApart DEF LockOK, TypeOK, Plug, Contents, Secure
    <2>2. \A o \in Outputs \ outputs' : queued'[o] = "none"
      BY <1>3
    <2>3. /\ lock'.awaiting_present \subseteq outputs'
          /\ lock'.drawn \subseteq lock'.surfaces /\ lock'.surfaces \subseteq outputs'
      BY <1>1, <1>2, <1>4 DEF LockOK, TypeOK
    <2> QED BY <1>1, <2>1, <2>2, <2>3 DEF LockOK, TypeOK, Plug
  <1>6. ClearedAreClear'
    <2> SUFFICES ASSUME lock.active, NEW o \in outputs', Cleared(o)'
                 PROVE  queued'[o] \notin Scenes
      BY <1>1, <1>2 DEF ClearedAreClear
    <2>1. lock.told
      BY <1>1, <1>2 DEF Cleared
    <2>2. CASE o \in outputs
      BY <1>1, <1>3, <2>1, <2>2 DEF LockOK, ClearedAreClear, Cleared
    <2>3. CASE o \notin outputs
      BY <1>1, <1>3, <2>3, ContentsApart
    <2> QED BY <2>2, <2>3
  <1>7. OwnerTold' /\ IdleIsNoLock'
    BY <1>1, <1>2 DEF LockOK, OwnerTold, IdleIsNoLock
  <1> QED BY <1>1, <1>2, <1>5, <1>6, <1>7 DEF LockOK

\* The steps of programs change neither what is shown nor what is under way.
LEMMA LockInv == ASSUME LockOK, Lock PROVE LockOK'
  <1>1. /\ lock' \in Locks /\ lock'.active
        /\ ~ lock'.told /\ ~ lock'.confirmed /\ lock'.awaiting_present = outputs
        /\ lock'.surfaces = {} /\ lock'.drawn = {}
    BY DEF LockOK, TypeOK, Lock, NewLock, NoLock, Locks
  <1> QED
    BY <1>1 DEF LockOK, TypeOK, ClearedAreClear, Cleared, OwnerTold, IdleIsNoLock, Lock, Locking

LEMMA SurfaceInv ==
    ASSUME LockOK, NEW o \in Outputs, NewSurface(o) \/ DrawSurface(o)
    PROVE  LockOK'
  <1>1. /\ lock' \in Locks /\ lock'.active /\ lock.active
        /\ lock'.alive = lock.alive /\ lock'.told = lock.told
        /\ lock'.confirmed = lock.confirmed
        /\ lock'.awaiting_present = lock.awaiting_present
        /\ lock'.drawn \subseteq lock'.surfaces /\ lock'.surfaces \subseteq outputs
    BY DEF LockOK, TypeOK, NewSurface, DrawSurface, Locks
  <1> QED
    BY <1>1 DEF LockOK, TypeOK, ClearedAreClear, Cleared, OwnerTold, IdleIsNoLock,
                NewSurface, DrawSurface, Locking

LEMMA UnlockInv == ASSUME LockOK, Unlock PROVE LockOK'
  BY NoLockType DEF LockOK, TypeOK, ClearedAreClear, OwnerTold, IdleIsNoLock, Unlock, Locking

LEMMA LockerDiesInv == ASSUME LockOK, LockerDies PROVE LockOK'
  <1>1. /\ lock' \in Locks /\ lock'.active /\ lock.active
        /\ ~ lock'.alive /\ lock'.told = lock.told /\ lock'.confirmed
        /\ lock'.awaiting_present = {} /\ lock'.surfaces = {} /\ lock'.drawn = {}
    BY DEF LockOK, LockerDies, Locks
  <1> QED
    BY <1>1 DEF LockOK, TypeOK, ClearedAreClear, Cleared, OwnerTold, IdleIsNoLock,
                LockerDies, Locking

LEMMA SceneChangesInv == ASSUME LockOK, SceneChanges PROVE LockOK'
  BY DEF LockOK, TypeOK, ClearedAreClear, Cleared, OwnerTold, IdleIsNoLock, SceneChanges

LEMMA LockNextInv == ASSUME LockOK, [LockNext]_lockVars PROVE LockOK'
  <1>1. CASE UNCHANGED lockVars
    BY <1>1 DEF lockVars, LockOK, TypeOK, ClearedAreClear, Cleared, OwnerTold, IdleIsNoLock
  <1> QED
    BY <1>1, RenderInv, VBlankInv, PlugInv, LockInv, SurfaceInv, UnlockInv, LockerDiesInv,
       SceneChangesInv DEF LockNext

LEMMA LockInvariance == LockSpec => []LockOK
  BY LockInitInv, LockNextInv, PTL DEF LockSpec

-----------------------------------------------------------------------------
(* ---- The theorems ---- *)
\* The frames and the lock stay well formed, whatever outputs come and go
\* (sync_session_lock_outputs).
THEOREM LockTyped == LockSpec => []TypeOK
  <1>1. LockOK => TypeOK
    BY DEF LockOK
  <1> QED BY <1>1, LockInvariance, PTL

\* Once the program that locked the session has been told so, no frame of ordinary windows
\* is on its way to any output (session_lock_frame_presented).
THEOREM NothingOrdinary == LockSpec => []NothingOrdinaryUnderWay
  <1>1. LockOK => NothingOrdinaryUnderWay
    BY DEF LockOK, ClearedAreClear, Cleared, NothingOrdinaryUnderWay
  <1> QED BY <1>1, LockInvariance, PTL

\* A step under a lock uncovers nothing.
LEMMA StepCovers ==
    ASSUME LockOK, LockNext, lock.active, NEW o \in outputs', SecureShown(o)
    PROVE  shown'[o] \notin Scenes /\ queued'[o] \notin Scenes
  <1> USE ContentsApart DEF LockOK, TypeOK, SecureShown
  <1>1. CASE UNCHANGED <<shown, queued>>
    BY <1>1
  <1>2. CASE Render
    BY <1>2, TargetSecure DEF Render
  <1>3. ASSUME NEW p \in Outputs, VBlank(p)
        PROVE  shown'[o] \notin Scenes /\ queued'[o] \notin Scenes
    BY <1>3 DEF VBlank, Pending
  <1>4. CASE Plug
    BY <1>4 DEF Plug
  <1>5. QED
    BY <1>1, <1>2, <1>3, <1>4
       DEF LockNext, NewSurface, DrawSurface, SceneChanges, Lock, Unlock, LockerDies, Locking

\* A lock is undone by its owner only, who was told of it.
LEMMA StepUnlocks ==
    ASSUME LockOK, LockNext, lock.active, ~ lock'.active
    PROVE  OwnerUnlocks
  <1> USE DEF LockOK
  <1>1. CASE Unlock
    BY <1>1 DEF OwnerTold, Unlock, OwnerUnlocks
  <1>2. ASSUME NEW o \in Outputs, VBlank(o) PROVE FALSE
    BY <1>2, FramePresentedFacts DEF VBlank
  <1>3. CASE Plug
    BY <1>3, SyncFacts DEF Plug
  <1>4. ASSUME NEW o \in Outputs, NewSurface(o) \/ DrawSurface(o) PROVE FALSE
    BY <1>4 DEF NewSurface, DrawSurface, Locks
  <1>5. CASE LockerDies
    BY <1>5 DEF LockerDies, Locks
  <1>6. QED BY <1>1, <1>2, <1>3, <1>4, <1>5 DEF LockNext, Render, SceneChanges, Lock

\* What is covered stays covered until the owner of the lock, who has been told of it,
\* undoes it (render_output, unlock, cleanup_disconnected_selection_owners).
THEOREM Covering == LockSpec => StaysCovered
  <1>1. ASSUME LockOK, [LockNext]_lockVars
        PROVE  [/\ ~ Uncovers
                /\ (lock.active /\ ~ lock'.active) => OwnerUnlocks]_lockVars
    BY <1>1, StepCovers, StepUnlocks DEF Uncovers
  <1> QED BY <1>1, LockInvariance, PTL DEF LockSpec, StaysCovered
=============================================================================

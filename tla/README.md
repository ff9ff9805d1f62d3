# A TLA+ model of nobox

nobox is a window manager for X11 and a Wayland compositor, in Rust. Both backends
share a protocol-neutral core, `crates/nobox-core`, which owns the *policy*: which
clients exist, where they are stacked, who has the focus, what a client may do,
what an agent may see. The backends own the *realization*: they translate protocol
events into core calls and core state into requests to the display server.

This directory holds specifications of the parts of that program whose errors tests
hardly reach, the TLC configurations that check them, and the TLAPS proofs.

    tlc -workers 2 -config ClientSetWorkspaces.cfg MCClientSet
    tlc -workers 2 -config AgentEvents.cfg MCAgentEvents
    tlapm SharedProofs.tla

Each run is one `.cfg` file; the module it belongs to is named in PROJECT.json, and is
the file's component with the prefix `MC` (both `ClientSet` configurations belong to
`MCClientSet`).

## Inventory

Paths are relative to `src/crates/`.

| Component | State | Operations | Interacts with |
|---|---|---|---|
| core client set (`nobox-core/src/lib.rs`, `ClientSet`) | map of clients, management order, stacking order, workspace count / current / last, a focus history per workspace, focused client, show-desktop flag | manage, unmanage, focus, fallback, workspace insert / remove / switch / resize, assignment of a client or a family, raise, lower, sync_stacking, attribute setters | called by both backends from every handler |
| core stacking policy (same file, `policy_stacking`) | none: a function of clients, stacking order and focus | layers, inherited layers, coverage, depth-first placement | read by the backends, which store the result with `sync_stacking` |
| core client presentation (same file) | geometry, maximize and fullscreen states with the geometry they restore, shading, decorations and their override | set_geometry, set_maximized, set_fullscreen, set_shaded, toggle_decorations, set_policy | called by the state handlers and the drags |
| core geometry, outputs, workspace grid (same file) | none, or an output list | placement, snapping, resize, work areas, output selection | pure functions for both backends |
| X11 backend (`nobox-x11/src/lib.rs`) | the core, frames, expected unmaps, drag in progress, pending pings and sync resizes, cached properties | one handler per X event and per action | X server (asynchronous events), core, agent seat, session manager |
| Wayland backend (`nobox-wayland/src/lib.rs`, `direct_runtime.rs`, `xwayland.rs`, `tablet.rs`, ...) | the core, surfaces and configure serials, seats, outputs, drags | one handler per request and input event | clients (asynchronous requests), DRM, Xwayland |
| core agent policy (`nobox-core/src/agent.rs`) | sessions with status, grant and sequence, subscriptions with bounded queues, visibility and generation per client | open, close, grant, freeze, resume, revoke, observe, publish, take / pop / requeue | filled by the backend's shadow of the clients, drained into the transport |
| agent seat transport (`nobox-agent-seat/src/lib.rs`) | bounded inbox, a bounded writer queue per session, wakeup flag, acceptor and session threads | accept, send, offer, close, stop, take_inbound | socket threads on one side, window manager loop on the other |
| agent wire format, semantics, helper, MCP companion (`nobox-agent-wire`, `nobox-agent-semantic`, `agent-semantic-helper`, `nobox-agent`) | codec buffers; the helper's lifecycle; buffered events | encode, decode; start, refresh, expire; JSON-RPC tools | agent seat socket, D-Bus |
| runtime (`nobox-runtime`: control, session, process) | instance record and control socket; session file | bind, discover, send, save, restore | files shared with other processes |
| supervision (`nobox-common/src/lib.rs`) | panel child and its generation, signals, autostart | sync, stop, readiness threads | child processes |
| configuration (`nobox-config`) | a document and its file | load, edit, save | settings program, reload request |
| panel, settings, screenshot, desktop catalog | their own windows | user interface | the backends, as clients |

What is hard, and therefore what the models are for:

* *Long sequences of legal calls.* Workspace indices, histories and orders are
  changed by two dozen methods, each of which updates several structures by hand.
* *Two copies of one fact.* The core's stacking order and the server's; the window
  an agent has seen and the window as it is; geometry and what is derived from it.
  The handlers refresh the second copy only where their author thought of it.
* *Interleavings.* A drag spans many events, and any request may come between them;
  asynchronous X notifications describe a past the window manager has left; agent
  queues, socket threads and panel readiness threads run concurrently.
* *Bounds.* Agent queues overflow and resynchronise; writer queues and the inbox
  are full; workspaces have a maximum.

What makes each component correct, in short (the lines where it is at risk are listed in
PROJECT.json under "hazards"):

* client set: orders, histories and indices agree; focus is on a client that may have it.
* stacking: the two orders agree; parents below dialogs, layers respected, raises work.
* presentation and drags: what a client returns to survives; frames follow policy; what
  fills an area goes on filling it; no motion is lost or applied late.
* agent policy and glue: a subscriber sees every event about what it may see, in order,
  or is told of the gap; revoked and frozen sessions cause and see nothing.
* agent seat: no frame waits unseen; a full queue delays or ends one session, never the
  window manager; stop returns.
* runtime and configuration files: after a crash at any point, the old or the new content
  is there, and a dead instance is not taken for a live one.
* supervision: one panel at most, the newest, and none after stop.
* geometry, outputs, grid: results lie inside their area and are stable under repetition.

## What is modelled

### ClientSet (`UniqueSeqs`, `ClientSet`, `MCClientSet`)

The core client set as a state machine: nine variables that are the fields of
`ClientSet`, and one action per mutating method, each the whole method with the
`recover_focus` it ends with. A backend may call any method at any time with any
value in use, so `Next` is the disjunction of all of them.

Data is cut down to what the methods read: a client has a workspace assignment,
the iconic and shaded flags, a policy reduced to role, focusability and titlebar,
a presentation reduced to the task-list and urgency hints, and its relationships.
A method that does nothing when its early return is taken has that condition as
its guard. Focus targets, family roots and transient descendants are recursive
functions that follow the loops of the code, visited sets included, because
relationships may form cycles. `UniqueSeqs` holds the operations on `Vec<ClientId>`.

`Refresh` is `manage` for an identifier already managed. No backend takes that
path, and it is in the model because the method provides for it.

### Restacking on X11 (`PolicyStacking`, `X11Stacking`, `MCX11Stacking`)

`PolicyStacking` is `policy_stacking` and all it calls, as operators. `X11Stacking`
is the window manager around it: the core's order, the server's order, and each
handler that changes an input of the policy, with the `ConfigureWindow` requests it
sends (all frames from the top down in `enforce_layers`, one frame in the fast path
of `enforce_client_layer`, none in several handlers). Which client is focused next
is `ClientSet`'s business, so here it is any client that may be. How a client covers
its output is a datum of the client: fullscreen, legacy coverage (a window as large
as its output), or not at all; the handlers that change geometry change it. A step of a drag
that outlives `set_fullscreen` is `MoveFullscreen`, which restacks as little.

Relationships are what programs ask for, so clients may be transients of each other; then
no order satisfies the policy. `Demands` names what a client has to be above within its
layer, and `Orderable` that these demands can be met at all, which `StackStaysSettled`
supposes of the state after a step.

Only one workspace is modelled: hiding clients of other workspaces changes no
stacking. The compositor's own windows, docks' struts and menus are left out.

### Window state on X11 (`WindowPresentation`, `X11WindowState`, `MCX11WindowState`)

`WindowPresentation` holds the methods of the core that change how one client is
presented: a client is a record of its geometry, the axes on which it is maximized,
the geometries it returns to, shading, role and decorations, and each method an
operator with its name. `X11WindowState` is one managed client under the X11 backend.
Its `window` is that record, whether the frame on the server has extents, and the
drag under way; its `area` is the set of connected outputs and whether a panel
reserves space. Handlers call each other, so each is an operator from a window to a
window (`ApplyFramePolicy`, `Shade`, `Fullscreen`, `FinishDrag`, `Refit`, ...) and an
action composes them in the order of the code. The initial states are those `manage`
leaves, with every combination of states asked for on the way in.

A geometry is a span per axis, and a span says where it came from: chosen on some
output with a free length, or computed from the work area of an output with the strut
and the frame of that moment. That is what the properties tell apart: whether a
computed span is current, and whether a chosen one survives.

Requests may come while a drag is under way, since the grabs of a drag hold back
neither the messages of clients and pagers nor the further actions of the binding
that started it. The acknowledgement of a paced resize, its timeout and the pointer
are independent actions, in any order.

Natural decorations are full or none. Left out: requests for fullscreen over several
monitors, visibility, the work areas of other workspaces, timers that fire for a drag
already ended (the code compares a serial number), and the keyboard steps of a client
that a request has maximized during its drag. Size hints and gravity are in the geometry
modules.

### Mapping on X11 (`X11Mapping`, `MCX11Mapping`)

One window, its program, the server and the window manager. `requests` is the connection
to the server and `events` the connection back, both in order; `server` is what the
server has carried out, `client` what the window manager believes. Every handler
(`map_request`, `unmap_notify`, `destroy_notify`, `set_shaded`, `iconify`, `restore`,
`sync_workspace_visibility`) is an action that reads an event or a command and appends
requests; a request with a reply makes the window manager wait until the server has
caught up, which is an action that empties the queue. What is hard is told apart by one
counter: an `UnmapNotify` is either a withdrawal or the echo of hiding.

### Focus on X11 (`X11Focus`, `MCX11Focus`)

Clients that appear, withdraw and focus their own windows; clients that let the window
manager focus them (`Direct`), that are told with `WM_TAKE_FOCUS` and may decline
(`Takers`), both, or neither; popups that grab the keyboard, and a person who clicks.
Dialogs are any of `Families`: which clients each of them blocks, so that there are chains,
several dialogs of one client, and dialogs of a whole group. `Target` follows them from the
top of the stack as `focus_target` does, and `Restack` lets the stack change at any time.
The server follows `SetInputFocus` only if its time is not older than the last
one it followed, and reverts the focus when its owner disappears; it tells the window
manager of every change, which that reads later. `wm.focused` is `ClientSet`'s focus, and
its fallback the usable client that had the focus last.

### Agent policy and the X11 glue (`AgentPolicy`, `AgentGlue`, `AgentEvents`, `EventStream`, `AgentRequests`, `RequestBook`)

`AgentPolicy` is `AgentState` as a record and its methods as operators: sessions with
status, grant and sequence number, subscriptions with a bounded queue, visibility and
generation of each client. `AgentGlue` is what the window manager does around it on its
one thread: comparing the desktop with its shadow (`sync_agent_events`), publishing and
draining queues into the transport, grants and their reload, consent, the chord that
freezes all sessions, and finishing or abandoning what takes time.

Two state machines are made of it. In `AgentEvents` the desktop changes in bursts
between which the window manager compares, publishes and drains, as the event loop does,
and a companion reads at any speed and keeps a view. `EventStream` says what a companion
may rely on without any of this machinery: from a snapshot on, its events carry the next
number each, or it is told to start over. In `AgentRequests` sessions ask for text to be
typed, for an action to be watched, and for the semantic tree of a window; people act,
timers fire late, the helper answers or does not, sessions end and grants are withdrawn.
`RequestBook` says: each request is answered once, sooner or later, or its session is
gone. `AgentEvents` implements the first and `AgentRequests` the second. Events that put off
the deadline of an observation arm its timer again at once (nobox-x11/src/lib.rs:2734); the
model arms it when it fires early, and may fail to there.

### Agent seat (`AgentSeat`, `MCAgentSeat`)

The threads of `nobox-agent-seat`: the acceptor, and a reader and a writer for each
session, with a program counter each, the bounded inbox, the wake-up flag and the
message it stands for, the bounded writer queues, and the part of the event loop that
takes the inbox as a whole and answers. An action is what a thread does between two
points at which another can notice. The window manager may stop the seat at any time, and
the listener may fail.

### Session lock on Wayland (`WaylandLock`, `MCWaylandLock`)

The direct backend: each output has a frame on the screen and at most one with the
kernel. `Render` is one pass over all outputs that are due, as the event loop makes it;
`VBlank` is the kernel's completion of one output's frame; outputs are plugged and
unplugged, and the locking program creates and draws its surfaces, unlocks or dies. Others
that try are refused, also after its death. Scenes stand for whatever ordinary windows show.
The session stays active: a switch to another terminal (direct_runtime.rs:1208-1230), which
forgets the frames under way and stops rendering, is left out.

### Windows on Wayland (`WaylandWindow`, `MCWaylandWindow`)

One mapped toplevel over `WindowPresentation`, which both backends share. The policy
changes at once; the program is told with a configure, which it answers late or never,
and a commit in between brings a buffer of the old size. Requests of the program, of
people and of agents, drags with the pointer and the keyboard, and a replaced output
interleave with this. Left out: shading, decorations and layers, several
outputs, and toplevels that are unmapped and mapped again.

### Saving files (`FileSaving`, `AtomicFiles`, `MCFileSaving`)

The steps of `save_source` (configuration) and of `SessionSnapshot::save`: create a
temporary file whose name holds the process number, write it, make it durable, rename
it, and, for the configuration only, make the directory durable. Each step may fail, a
process may be killed between any two, the power may fail (then the directory is as it
was at some moment since it was last made durable), and numbers of dead processes are
given to new ones. `AtomicFiles` is the promise without these steps.

### Geometry and the workspace grid (`CoreGeometry`, `CoreResize`, `CorePlacement`, `X11Geometry`, `MCX11Geometry`, `WorkspaceGrid`)

Functions without state, as operators with the names of the code. `CoreGeometry` has
rectangles, decoration extents, work areas, clamping, snapping and the set of outputs;
`CoreResize` size hints, the three ways of resizing, gravity and the edge actions;
`CorePlacement` smart, centred, absolute and keyboard placement, the next window in a
direction and the adaptive restack; `X11Geometry` composes them as the X11 backend does
(work areas from struts and margins, the place of a new window, configuring with hints,
gravity and wire limits, drags, edge actions). `WorkspaceGrid` is `WorkspaceLayout`.

A rectangle is a span for each axis, so what the code writes twice is written once.
Coordinates and lengths saturate as the code's do, at `MaxCoordinate` instead of the
ends of an `i32`; sums between them are `i64` in the code and exact here.
`Geometry::snap_resize` and `snap_axis_length` are used by tests only and left out.

## Runs

| Run | Instance | What it shows |
|---|---|---|
| ClientSetWorkspaces | 2 clients, fixed or sticky, two roles; requests for the first workspace, the last one (possibly invalid) and all; up to 2 workspaces; a partial report that repeats a client | `Consistent`: orders, histories and indices agree through every insertion, removal, merge and count change. `MembersRemembered`: a client of one workspace is in the history of that workspace. `FocusSurvives`: focus never stays on a client that is hidden, iconic or gone, and is given up only if nobody can take it (no client is iconic in this instance: only the proof reaches that). |
| ClientSetDialogs | 3 clients that may be modal dialogs of the first two, so that chains and cycles occur; the same report | `FocusReachesModal`: a focus request ends at a client nothing blocks, where dialogs form trees (where they do not, the run shows only that it ends). `FallbackEligibleInTrees`: so does a fallback, at a client it may choose. |
| X11Stacking | 3 clients over 2 outputs: one that may be on top, fullscreen, covering or a dialog of the second; one that may be a dialog of the first, a panel, covering or elsewhere; one that may be a dialog of the first, a group transient, fullscreen on either output or elsewhere | `ServerAgrees`: the server's order is the core's after every handler. `FamiliesStacked`: in a settled stack dialogs and group transients are above what they belong to. `RaiseLeafReachesTop`: raising works for a client nobody has to be above. `StackStaysSettled`: where the policy can be met, the list of handlers that may leave the stack unsettled is complete. |
| X11WindowState | one client, two outputs, one panel, every role and decoration, every kind of drag | `FrameFollowsPolicy`: the frame on the server is the one the policy asks for. `PlacementKept`: what a client returns to is never overwritten. `FitsKept`: what fills a work area or an output goes on filling it when frame, panels, policy or outputs change. `PendingReached`: a motion waiting for the client to paint is not lost. |
| X11Mapping | one window, three commands of people, two withdrawals; rectangles of a few pixels | `NothingExpectedForEver`, `NeverGivenUpUnasked`, `VisibilitySettles`: hiding and withdrawing are told apart in every order of requests and events, and what is on the screen is what should be. `PlacementIsBest`, `PlacedOnItsOutput`, `WindowsDoNotCreep`, `ActionsLeadOn`, `GridLeadsBack`: see below. |
| X11Focus | 3 clients: one that accepts no focus, and two that do, of which one is also told to take it and may decline; these two are its modal dialogs, or one is a dialog of both others; any reordering of the stack; popups; times up to 2; one mapping | `FocusAgrees`: once everything is handled the window manager and the server agree who has the focus. `FocusSettles`: when people and programs stop, requests and notifications end. |
| AgentEvents | one client with titles that leave it visible, redact or hide it, one session with any grant, queues of 2, three changes, two requests, 2 workspaces, 2 places | `StreamPromise`: `EventStream` is implemented. `ViewTracksDesktop`: a session that has read everything knows what it may see. `GenerationTells`: an expected generation never vouches for a stale view. |
| AgentRequests | one client, one session, three requests, texts of 2 keys, one change, or one restart of the seat | `RequestsAnswered`: `RequestBook` is implemented, its liveness included, until the seat is opened over requests that wait (see below). `PendingHasTimer`: nothing waits without a timer. `PreemptedNeverSucceeds`: what a person, a freeze or a revocation has overtaken fails. |
| AgentSeat | two connections of which one session is admitted at a time, queues of 1, two frames, sound or garbage | `WakeupNotLost`: no item waits in the inbox without a wake-up. `SessionsInOrder`: each session is announced first and ended last. `BackpressureEnds`: an acceptor that waits for room goes on. |
| WaylandLock | two outputs, two locks, two changes of the outputs, two of the scene | `NothingOrdinaryUnderWay`, `StaysCovered`, `FirstLockAnswered`: a confirmed lock leaves no ordinary frame on its way, what is covered stays covered, and the first lock is answered. |
| WaylandWindow | one toplevel, one output in two sizes, two unanswered configures, two requests, one drag | `PlacementKept`: where the window returns to survives late buffers. `StatesTold`: the program is told every change of its states. `AnswersAgree`: once it has answered everything, a filled window has the size it was told. |
| FileSaving | two files, two process numbers, three saves, two deaths, one failure, one loss of power | `ReplacedAtomically`: `AtomicFiles` is implemented. `LeftoverBlocksOnce`: a leftover of a dead process is in the way once. |

### Bounds

Counters of the program that the models keep are bounded by constants the program has too:
`MaxWorkspaces` stands for the backends' `MAX_WORKSPACES` (32), `MaxQueuedEvents`,
`WriterQueue`, `WriterLimit`, `InboxQueue` and `MaxSessions` for the limits of the agent code,
`MaxPending` for how far a program lags behind. The other bounds, `MaxChanges`,
`MaxRequests`, `MaxCommands`, `MaxWithdrawals`, `MaxTime`, `MaxMappings`, `MaxFrames`,
`MaxLocks`, `MaxPlugs`, `MaxScenes`, `MaxDrags`, `MaxSaves`, `MaxDeaths`, `MaxFailures`
and `MaxLosses`, limit what the surroundings do, and are guards of those actions only.

Client set: two workspaces are enough for an index below, at and above the one removed
or inserted and for a merge with the neighbour on either side; the proofs of `Consistent`
hold for any number. Three clients are enough for a chain of dialogs, a cycle of two with
an outsider, and a dialog, its parent and a stranger in a stack; two are enough for the
properties that relate one client to a history or to the focus. What would need four
clients (two groups of transients across each other) is not checked.

Window state: two outputs are enough for one to go and one to stay, and their symmetry is
sound, since the nearest survivor of two outputs is the only one left and the model makes
no choice that tells them apart. One free length per axis is enough because positions
already give two geometries to choose between, and a computed length is distinct from any
chosen one. Three outputs, where a *nearest* one would have to be chosen, are not checked.

Asynchronous X: three commands and two withdrawals let every kind of echo cross every
kind of withdrawal; times up to 2 give a request that is older, equal or newer.

Agents: queues of two overflow, resynchronise and fill again; three changes put one
before, one between and one after a snapshot and an overflow. For `AgentRequests` two
requests are enough to wait at the same time, which is where they get in each other's way;
a third connects again after a restart, which counts as a change.

Seat: with queues of one every blocking call blocks. Lock: two outputs are the least
where one is behind the other. Files: two processes are the least with a number used
again, and one loss of power reaches any point of any save.

Geometry and the grid: the five properties say what the answers to one kind of question
have in common. `MCX11Geometry` keeps the question as its only state, chosen from the
listed rectangles, hints, struts, outputs and grids; the run they belong to is the one
that begins with placing a window, and a behaviour of it is one of the mapping protocol or
asks a single question. Every decision of the code compares edges
and never looks at how far apart they are, so rectangles of a few pixels meet all of them:
apart, touching, overlapping, inside, outside and across an edge of the bounds, with sizes
below, at and above increments and limits. `MaxCoordinate` (100) keeps saturation away
from these; the proofs hold for any. The listed sets are in `MCX11Geometry`:

* `PlacementIsBest`: for up to two windows in a small work area no position overlaps less
  than the one smart placement chooses, which lies inside.
* `PlacedOnItsOutput`: on three arrangements of outputs with up to two struts, work areas
  are clear of what is reserved, new windows and absolute placements land in the work area
  of the output chosen, and a window without an output is recovered into one.
* `WindowsDoNotCreep`: drags, keyboard steps, relative resizes and requests with gravity
  leave the edge that should stay where it was, under every combination of the hints listed (no
  aspect ratios).
* `ActionsLeadOn`: repeated moves to edges end at the bounds and can be retraced, growth
  covers nothing that was clear, shrinking and growing do not alternate in place, shaded
  windows keep their height, and directions lead from every window to the next.
* `GridLeadsBack`: on every grid of up to six workspaces cells and workspaces translate into
  each other, a step and its opposite lead back, and what has a cell can be reached.

### Fairness

Where liveness is stated, fairness is that of the threads and of the machine, and never of
programs, people or companions:

* `X11Focus`: the event loop handles events that have arrived, and the server executes
  requests it has been sent.
* `AgentRequests`: the message of a timer that is due is handled in the end, unless its
  timer is cancelled first. Weak fairness is spelled out (`Handling`), since being enabled
  is here the same as the message being there. The helper may never answer.
* `AgentSeat`: the acceptor, the event loop and each reader and writer go on when they can.
* `WaylandLock`: the event loop comes round at least every 16 ms, and the kernel completes
  the frames it has accepted. The locking program owes nothing.

The other modules state what calls do, and no call is ever owed.

### Refinements

| Detailed | Abstract | Mapping |
|---|---|---|
| `AgentEvents` | `EventStream` | what is unread is what the transport holds followed by the queue of the subscription; the companion's position is its own |
| `AgentRequests` | `RequestBook` | a request waits while something pending belongs to it, and is answered when exactly one response to it has been sent or read |
| `FileSaving` | `AtomicFiles` | the past of a file is the documents its name has led to since the directory was last durable (proved as well) |

## Known exceptions

Writing these models turned up behaviour that differs from what a comment, a test or a
document of the repository says, or that a reader would hardly expect. The models contain
this behaviour; the properties are stated so as to be true of the code, and name the
exception where they have to.

Client set and stacking

* `focus_fallback_from` may keep the focus where it was: it resolves a candidate to its
  modal dialog and `focus` resolves again; for two modal dialogs of one group the second
  resolution comes back to `old`, which the comment at nobox-core/src/lib.rs:2799 excludes.
* A raise may have no effect: the depth-first placement pulls a parent down to a dialog in
  a lower layer (nobox-core/src/lib.rs:3754, against docs/configuration.md:446).
* Clients that are transients of each other have no settled stack: `policy_stacking` applied
  to its own result gives another order, so two enforcements may differ.
* A move of the focused window to another output does not restack, so a covering window
  there stays on top (nobox-x11/src/lib.rs:17234, against docs/architecture.md:511). Nor does
  sending a fullscreen client to another output (15528). `StackStaysSettled` lists both.

Window state

* `apply_drag_geometry` ignores a motion that asks for the geometry shown, and forgets to
  drop the older motion that waits; the acknowledgement then moves the client there
  (nobox-x11/src/lib.rs:17113, against docs/x11-behavior.md:36).
* A client maximized vertically may be left beside an output that was disconnected
  (nobox-x11/src/lib.rs:15347, against docs/architecture.md:502).
* On Wayland, toggling maximize twice before the program answers makes the size of the old
  buffer the geometry to restore; a replaced output drops an operation without unsetting
  Resizing (nobox-wayland/src/lib.rs:4829); a program that maximizes itself while it is
  fullscreen is not told (14677); fullscreen and decorations do not unshade (12203).

Mapping and focus

* A window withdrawn while it is being adopted or mapped may stay managed, or be mapped
  again as an unmanaged window; `withdrawals` in the properties allows for this.
* A stale `last_timestamp` makes the server ignore the window manager after a program has
  focused itself with `CurrentTime`; `focus_in` does not look at the detail of the event;
  a client that declines `WM_TAKE_FOCUS` stays active. `FocusAgrees` excludes the states
  in which the server was told something late.
* `observe_focus` drops the answer of `focus` (nobox-x11/src/lib.rs:10275): when a program
  focuses its window while a modal dialog that accepts no focus blocks it, the core keeps the
  client it had before. `FocusAgrees` asks that every modal dialog accepts the focus.
* Two modal dialogs of one group block each other; a focus that crosses the notification of
  the last one may go from one to the other for ever (nobox-x11/src/lib.rs:10269,
  nobox-core/src/lib.rs:3408). `FocusSettles` excepts such circles; `FocusAgrees` does not.

Agents

* A snapshot taken during a drag, or between two changes that cancel out in one turn of the
  loop, stays stale (nobox-x11/src/lib.rs:2591, against docs/agent-protocol.md:383).
* A window that is mapped and given a sensitive title before the window manager first compares
  it with its shadow is announced under that title, and is not hidden until its title
  changes once more (nobox-x11/src/lib.rs:2548, against the comment at line 2579). A rule
  may also make a window more private with no event that says so: a session goes on showing
  a title it may no longer read; `ViewTracksDesktop` excepts these windows (`Reclassified`).
* Freezing and resuming all sessions reactivates a revoked one (nobox-core/src/agent.rs:306,
  against the test at agent.rs:1583).
* Stopping the seat leaves pending work and consent behind while session numbers start
  again, so that a new session is sent the answers of an old one, or denied its own
  (nobox-x11/src/lib.rs:6599); `RequestsAnswered` promises nothing from there on (`leftover`);
  consent that is answered after a disconnect opens a session without a transport;
  a reload applies new grants before it may fail (nobox-x11/src/lib.rs:7501).
* Generations start again at 1 when a window is mapped again, so an expectation may be met
  by another life of the window; `GenerationTells` speaks of one life.
* The event loop joins an acceptor that may be blocked on a full inbox
  (nobox-agent-seat/src/lib.rs:431, against the comment at line 8), a failed wake-up leaves
  the flag set, and a reader that cannot be started delivers no end. `BackpressureEnds`
  excludes a seat that is stopping.

Session lock and files

* A frame submitted before the lock that completes after it counts as the first secure one,
  so `locked` may be sent while that output shows ordinary windows, against
  docs/wayland-roadmap.md:1081 (`NothingOrdinaryUnderWay` is about frames under way); an output whose frame is unchanged may clear the request to draw of another
  (nobox-wayland/src/direct_runtime.rs:413), and `FirstLockAnswered` does not say that every
  output is drawn again; unplugging an output while the lock is not
  confirmed can leave the locking program without an answer. `FirstLockAnswered` excludes
  changes of outputs.
* The session is reported saved although its directory was not made durable
  (nobox-runtime/src/session.rs:111, against docs/usage.md:205); a directory that cannot be
  made durable is reported as a failure although the document was replaced; the settings
  program overwrites grants stored since it opened (nobox-settings/src/main.rs:2733).

Geometry

* `grow_to_fill_geometry` may cover a window that is diagonal to this one; a promoted
  increment makes an edge resize pass an edge when the gap is smaller than the increment.
* `relative_resize_geometry` moves the opposite edge when the current size violates the
  hints, or when it shrinks by no multiple of the increment.
* A move to an edge of a window outside the bounds may go the other way.
* A grid with fewer cells than workspaces leaves workspaces without a cell.
* A client that is recovered onto an output whose work area is smaller than its frame may
  have its content outside every output.
* A window that snaps to other windows may snap once more when it is taken up again without
  being moved; without them it stays.

## Proofs

TLC checks small instances; the theorems below hold for every value of the constants.
Seven modules hold them, each beside the one or two modules it is about; `FoldFacts` holds
the lemmas on folds and loops they share. Every invariant of a state machine that the runs check is stated by
one of them, and every action property but `StreamPromise` of `AgentEvents`.

| Module | Theorem | States |
|---|---|---|
| `SharedProofs` | `TypeCorrect`, `Consistency`, `Remembering` | `Spec => []TypeOK`, `Spec => []Consistent`, `Spec => []MembersRemembered` |
| | `FocusKeeping`, `ModalReached`, `FallbackChooses` | `Spec => FocusSurvives`, `Spec => []FocusReachesModal`, `Spec => FallbackEligibleInTrees` |
| | `Atomicity`, `ReportsKept`, `Leftovers` | `FileSpec => ReplacedAtomically`, `FileSpec => []ReportedIsKept`, `FileSpec => []LeftoverBlocksOnce` of `FileSaving` |
| `X11StackingProofs` | `Agreement`, `Families`, `LeafRaises` | `Spec => []ServerAgrees`, `Spec => []FamiliesStacked`, `Spec => []RaiseLeafReachesTop` |
| | `SettledStays` | `Spec => StackStaysSettled` |
| `X11WindowProofs` | `TypeCorrect`, `FrameCorrect`, `ShadedCorrect` | `Spec => []TypeOK`, `Spec => []FrameFollowsPolicy`, `Spec => []ShadedHasTitlebar` of `X11WindowState` |
| | `PlacementCorrect`, `FitCorrect`, `PendingCorrect` | `Spec => PlacementKept`, `Spec => FitsKept`, `Spec => PendingReached` |
| | `FocusAgreement` | `FocusSpec => []FocusAgrees` of `X11Focus` |
| `X11MappingProofs` | `NothingLeftExpected`, `Settling`, `KeptUntilWithdrawn` | `Spec => []NothingExpectedForEver`, `Spec => []VisibilitySettles`, `Spec => NeverGivenUpUnasked` |
| | `WorkAreaInside`, `MoveResizeInside`, `ResizeDragKeepsAnchor`, `GrowthCoversNothing` | the geometry a window is placed, moved and resized with |
| `AgentProofs` | `TimersArmed`, `PreemptedFail` | `Spec => []PendingHasTimer`, `Spec => []PreemptedNeverSucceeds` of `AgentRequests` |
| | `BookKept` | the safety half of `RequestsAnswered`: `Spec => AnsweredOnce` |
| | `NoWakeupLost`, `SessionOrder` | `SeatSpec => []WakeupNotLost`, `SeatSpec => []SessionsInOrder` of `AgentSeat` |
| `AgentEventProofs` | `ViewFollows`, `GenerationSuffices` | `Spec => []ViewTracksDesktop`, `Spec => []GenerationTells` of `AgentEvents` |
| `WaylandProofs` | `LockTyped`, `NothingOrdinary`, `Covering` | `LockSpec => []TypeOK`, `LockSpec => []NothingOrdinaryUnderWay`, `LockSpec => StaysCovered` of `WaylandLock` |
| | `PlacementCorrect`, `StatesCorrect`, `SizesCorrect` | `Spec => PlacementKept`, `Spec => StatesTold`, `Spec => AnswersAgree` of `WaylandWindow` |

No theorem assumes fairness. The assumptions are those the modules declare: sentinels are
distinct from data, sets of clients, sessions, outputs and of
windows that were there at the start, and of dialogs in a family, are finite, bounds are natural numbers,
and the values in use have their types.

### The client set

One inductive invariant, `IInv`, is split by what a method changes: `DataOK` (the clients
and their types, the two orders, the workspace indices, the histories) and `FocusOK`. The
split matters because nearly every method ends with `recover_focus`, whose result depends
on the *new* data: lemma `RecoveredOK` shows that it yields a managed client or none
whenever `DataOK` holds, and each method then has only its own changes to account for. The
hard steps are those that renumber workspaces: `RenumberPreserves` reduces insertion,
removal and count changes to facts about the index map and the histories. `Consistent`
alone is not inductive, since `remove_workspace` merges two histories and needs both to be
duplicate-free sequences of managed clients, which is type information.

`MembersRemembered` is inductive beside `IInv`; again each renumbering is a lemma of its
own. `FocusKeeping` says that `recover_focus` misses nobody: if a usable client exists
after the step, the search through the history and the orders finds one.

`ModalReached` and `FallbackChooses` are about the loop that follows modal dialogs, a
recursive function on paths. A path grows by a client it does not contain, so its length
is a measure; `TailRecursion` shows that a recursion that descends along a measure has a
solution, so the `CHOOSE` behind the recursive function finds one and its equation may be
used. That the loop ends at an unblocked client is then shown for the shortest remaining
path.

### Stacking

The proof follows the layers of the code, from below.

1. What the operations on duplicate-free sequences return; that the requests of
   `enforce_layers`, each frame below the one above it, leave the server with the core's
   order whatever it had before (`RestackedIsOrder`); and that the one request of
   `enforce_client_layer` does when the orders differ in one client (`OneRequest`).
2. `place`, the depth-first recursion of `policy_stacking`, on any finite set of clients:
   it ends, it lists whom it is given and nobody twice, it puts a client above what it
   demands if its demands form no cycle, and applied to its own result it does nothing.
   The measure counts the clients not yet visited first and the clients pending second.
3. Layers: the effective layer of a client is the highest of its own and those it descends
   from, and the order is the concatenation of the layers, each placed by itself.
4. The specification: the invariant `IInv` (types, and the core's order is an enumeration
   of the managed clients that the server shows) and two facts it needs beside it, `NoSelf`
   (nobody is its own parent) and `FocusTakes` (the focused client is one that takes the
   focus).

`Agreement` needs the first part only. `Families` holds for cyclic relationships too: a
settled stack excludes the cycles. `SettledStays` is the deepest: what is enforced twice
must not change, which is where the demands have to be free of cycles, and a handler that
enforces only if some client covers its output is right because the focus decides nothing
otherwise.

### Window state on X11

The handlers are functions from windows to windows, so the proofs follow the code's call
graph: one lemma per method of the core, one per handler in terms of those it calls, and
an action is a line or two. The inductive invariant is `Settled`: a well formed window
whose frame follows the policy and which is shaded only under a titlebar. Handlers call
each other in the middle of a change, when the frame is not yet right; what they keep
then is `Resized` (nothing but geometry changed) and `Shown`, and `ApplyFramePolicy` turns
a shown window into a settled one. `ShadedHasTitlebar` is not inductive alone: that
unshading precedes the loss of the titlebar is seen only together with the frame.

For `PlacementKept` the lemmas distinguish operators that keep what a client returns to
on *both* axes (`Undisturbed`: maximizing, fullscreen, frames), which may follow each other
freely, from setting a geometry, which keeps only the axes held at that moment
(`HeldKept`). The two meet where a handler ends a drag, and `Kept` names the one case in
which that is not harmless. `FitsKept` needs `Filled` in addition: what is maximized or
fullscreen has a role that may be, or a change of the outputs could not fit it again. For `PendingReached` each
handler either leaves the drag alone or takes the client where the waiting motion asked
for (`Heading`).

### Mapping on X11

`NothingExpectedForEver` counts: each expected notification is still among the events or
will be caused by a request on its way (`ExpectedComes`), and exactly so until the program
withdraws its window (`ExactUnwithdrawn`). `Settling` has the last request of each kind in
the queue decide what the server will show (`FrameFollows`, `ContentFollows`,
`ShadedFollows` of `SInv`); the invariant holds with anything under way, and with
nothing under way it is the property.

The geometry theorems are about the operators, for any coordinates: whatever is reserved,
a work area is a rectangle inside its output; an absolute placement that fits ends inside
its target; a dragged edge leaves the opposite edge where it was, whatever the pointer, the
bounds and the size hints say; growing to the next edge covers no window that was clear.
They are the unbounded halves of `PlacedOnItsOutput`, `WindowsDoNotCreep` and
`ActionsLeadOn`. They assume that the spans concerned end within the coordinates, which is
where the code's saturation does nothing. Maxima over sets of windows are defined by
`CHOOSE`; that they exist is shown with the well-foundedness of finite sets.

### Focus on X11

`FocusAgrees` speaks of the moment when nothing is under way, and nearly every state is not
such a moment. The invariant (`FInv`) therefore says what the messages that wait will come
to:

* the last gain of the focus that waits is of the client that has it, and no loss of the
  owner waits after that gain; when no client has the focus, a loss waits after the last gain, or
  the gain is of the client under the pointer, which passes for the owner (`ToldOK`);
* a client that has the focus without being managed is one whose frame goes away, or a gain
  of the focus still waits (`OwnerOK`); when a withdrawal waits for a client whose window has
  the focus, a gain waits behind it (`GainOK`);
* the last request for the focus is for the client the window manager calls active, and
  a client is mapped before it is given the focus (`AskedOK`);
* the maps and withdrawals that wait lead from the managed clients to those whose programs
  want to be seen (`LeadTo`); a client that may take the focus is seen, will be, or was
  withdrawn (`Visible`), and an iconic one is hidden or will be (`Hidden`);
* the window manager and the server agree who is active, or a gain or a loss that waits
  will tell, or a request for the focus is on its way, or the client has been told to take
  it (`Active`).

`Active` is what `FocusAgrees` follows from, and is not inductive alone: that a request for
the focus will be followed needs that its client is seen when it is carried out, hence the
order of the requests and `Visible`; that what programs do to the focus is heard of needs
`ToldOK`.

The proof has a lemma for what a change of the focus by the server does to the summaries
(`Passes`), which serves requests, programs and windows that disappear alike. On the side of
the window manager a handler is a chain of results, each a view with the requests made so
far: `Part` is what may be said in the middle, `Good` adds that it is settled who is
active, and `Asks` says that requests for the focus were added and nothing else. An action is one
lemma, and the state in which the windows found at the start have been adopted is a fold
over them.

### Agent requests

The inductive invariant (`IInv`) says of every session and request that one thing at most
waits for the answer; that what waits has no answer yet, sent or read, and what was asked
and does not wait has exactly one; and that what was overtaken has not succeeded and cannot
any more, since nothing waits for it but queries that are cancelled. None of the three is
inductive alone: that an overtaken request does not succeed later needs that nothing else
waits under its name, and that nothing does needs the count of the answers.

A handler changes the manager in many calls, most of them folds over sessions, clients or
pending work, so the lemmas compare managers: `n2` follows from `n` (`Leads`) when it keeps
all of the invariant, makes no pending work of its own and lets nothing succeed that could
not. `Leads` is transitive. Each call has a lemma that says it leads, each fold is an
instance of `FoldFacts`, and an action is a composition; only the actions that start, finish
or overtake work are argued by themselves. What a step leaves (`Kept`) says in addition of
each session that it is served on, given up or replaced, which is a step of `RequestBook`:
`BookKept`.

`leftover` is a history variable. When the seat is opened again the sessions are numbered
from the first, and work still pending for the seat that was closed passes for that of a
new session; from then on nothing can be said of answers, and the promises are made until
then (see *Known exceptions*). `TimersArmed` holds throughout.

### Agent events

Both properties compare what the companion of a session knows, once it has read everything,
with the desktop. Between the two lie the shadow, the queue of the subscription and the
frames on the transport, and a handler changes several of them in several steps, so the
invariant (`Inv`) speaks of the whole way. It is stated of every session that can be told
something:

* Reading what is on its way in order, from the view its companion has now, makes a chain
  of views, and each of them `Fits`: what it knows of a client belongs to a life that is
  over or to a generation that has been, and, if to the present one, is what the shadow
  says.
* The last of them, unless the session has to start over, `Tracks` the shadow: it knows
  every client the session may perceive as it was last announced, the focus and the
  workspace.
* Outside of a drain, what it knows of a client it no longer perceives is in doubt, as are
  the clients concealed, reclassified or granted anew since: these are what the two
  properties except.

Neither property is inductive. A view on its way may be older than the one that was
read, so what `GenerationTells` says of one has to be said of all; and
`ViewTracksDesktop` speaks only of sessions that have read everything, which is no help
for what is read next.

`sync_agent_events` compares one client after another with its shadow, changes the shadow,
and publishes the changes one by one to one session after another, so that in the middle
the shadow is ahead of some of the views. The invariant is therefore stated of a manager
together with a record of what is being announced: a client, the fields still to come, and
whether the focus and the workspace are outstanding (`Amid`). `Carries` says that whatever
fits or tracks one such pair does so with the next; it is reflexive and transitive, each
operator of `AgentGlue` has a lemma that says what it carries, the folds over sessions and
clients are instances of `FoldFacts`, and an action is their composition. The rest of the
manager (requests that wait, clipboards, consent) is not constrained at all: what these
operators leave alone is shown, not assumed (`SameFace`, `SameTraffic`).

### Agent seat

`WakeupNotLost` is proved with `FlagIsSignal` (who has set the flag sends the message or
has sent it) and `WakeupComes` (an item that arrives after the inbox was taken has somebody
about to wake the loop). `SessionsInOrder` is about what has been handed over; it is
inductive together with what the threads may still deliver: `StartsAnnounced` and
`StreamsFit`.

### Session lock

The invariant has the types, `ClearedAreClear` (an output that is no longer
awaited has no ordinary frame under way), `OwnerTold` (the living owner of a confirmed
lock was told) and `IdleIsNoLock`. `NothingOrdinaryUnderWay` alone is not inductive: it
is the presentation of the last awaited output that makes it true, and only
`ClearedAreClear` knows about the others.

### Windows on Wayland

A handler changes the client, then tells the program, then ends an operation.
`Settled` holds of the window and its xdg role after each of these calls, and `Follows`
says what the pair after a call owes to the one before; it composes, so that an action is
the composition of its calls. All three properties are read off `Follows`.

### Files

The refinement needs to know that whatever a file has been since its directory was last
durable is a whole durable document, and that a saver about to report finds its own
document among those kept. Every step of a saver then maps to a step of `AtomicFiles` or to
none, and losing power to its own loss of power. `ReportsKept` says what a saver may rely
on: what it was told is saved is on the disk, or was replaced by a later save.

### What is not proved

That a shaded client has a titlebar and the type invariants of `ClientSet`,
`X11WindowState` and `WaylandLock` are proved and no part of a run. Checked by TLC only:

* liveness (`FocusSettles`, `RequestsAnswered`, `BackpressureEnds`, `FirstLockAnswered`),
  which needs `ENABLED`, out of the prover's reach;
* of the refinement of `RequestBook`, that each request is answered sooner or later
  (liveness again); its steps are proved;
* `StreamPromise` of `AgentEvents`, the refinement of `EventStream`;
* `PlacementIsBest`, `PlacedOnItsOutput`, `WindowsDoNotCreep`, `ActionsLeadOn` and
  `GridLeadsBack` as they stand: each says what many operators have in common, smart
  placement and snapping with several folds over the windows among them. The theorems on
  geometry are the parts that hold for all coordinates.

The library's induction theorems take an operator as a parameter, which no prover here
instantiates. Inductions are therefore made by taking the least counterexample of a measure
(`WFMin`), once for each fact, or once for all in `FoldFacts`, whose operators are constants
that an instance gives a value.

## Plan

What is left, in this order.

1. One more proof: `AgentEvents` refines `EventStream`.
2. Panel supervision (`nobox-common/src/lib.rs`, lines 273 to 391): readiness threads
   against stop and newer panels.
3. Runtime control (`nobox-runtime/src/control.rs`): instance records, stale sockets and
   process numbers that are used again.
4. The Wayland window: shading and decorations, unmapping and mapping again, popups; then
   selections and input routing.
5. The agent glue: launching programs with startup notification, captures, the clipboard.
6. XSMP: the session manager's requests against shutdown.

## Not modelled

Rendering, menus, theming, property publication, key bindings, input injection, parsing of
configuration and desktop files, the wire codec's data definitions, the accessibility walk
of the semantic helper, DRM and tablet hardware, Xwayland, and the programs beside the
window manager (companion, probe, panel, settings, screenshot): input and output, or
functions over text. They are most of the repository's lines. Panel
supervision, runtime control and XSMP have state worth a model and are in the plan.

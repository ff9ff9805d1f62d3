---------------------------- MODULE WaylandLock ----------------------------
(***************************************************************************)
(* The session lock of crates/nobox-wayland on the direct backend: when a  *)
(* locking program may be told that the session is locked, and what the    *)
(* outputs show meanwhile (src/lib.rs, src/direct_runtime.rs).             *)
(*                                                                         *)
(* Every output has one frame on the screen and at most one more with the  *)
(* kernel, which puts it on the screen at the output's own next refresh    *)
(* and then says so.  Outputs are rendered again when something has been   *)
(* marked for redrawing, those with a frame at the kernel excepted; a      *)
(* frame equal to the one before is not submitted at all.                  *)
(*                                                                         *)
(* The session is abstracted to what can be told apart on the screen: two  *)
(* different scenes of ordinary windows, black, and a lock surface.        *)
(***************************************************************************)
EXTENDS Naturals, FiniteSets

CONSTANTS
    Outputs,
    MaxLocks,         \* bound: locks accepted
    MaxPlugs,         \* bound: changes of the connected outputs
    MaxScenes         \* bound: changes of what ordinary windows show

ASSUME OutputsAssumption == IsFiniteSet(Outputs) /\ Outputs /= {}
ASSUME BoundsAssumption == MaxLocks \in Nat /\ MaxPlugs \in Nat /\ MaxScenes \in Nat

VARIABLES
    outputs,          \* those connected, never none
    shown,            \* on each output
    queued,           \* with the kernel, for each output; "none"
    scene,            \* what ordinary windows show
    redraw_needed,
    lock,             \* session_lock
    locks, plugs, scenes

lockVars == <<outputs, shown, queued, scene, redraw_needed, lock, locks, plugs, scenes>>

Scenes == {"scene", "other scene"}

Secure == {"black", "lock surface"}

\* ActiveSessionLock, with what its owner has drawn, and whether it is still there and has been
\* told that the session is locked.
NoLock == [active |-> FALSE, alive |-> FALSE, confirmed |-> FALSE, told |-> FALSE,
           awaiting_present |-> {}, surfaces |-> {}, drawn |-> {}]

(* ---- Rendering ---- *)
\* A mutant: without a lock surface the ordinary scene is rendered.
TargetUncovered(o) ==
    IF lock.active /\ o \in lock.drawn THEN "lock surface" ELSE scene

\* What render_output draws
Target(o) ==
    IF ~ lock.active THEN scene
    ELSE IF o \in lock.drawn THEN "lock surface" ELSE "black"

Pending == {o \in outputs : queued[o] /= "none"}

\* The outputs whose frame would be the one already on the screen
Unchanged == {o \in outputs \ Pending : Target(o) = shown[o]}

\* render, when something was marked: an unchanged output takes the mark away, like the
\* end of a pass in which no output was passed over.
Render ==
    /\ redraw_needed
    /\ queued' = [o \in Outputs |->
                    IF o \in outputs \ (Pending \cup Unchanged) THEN Target(o) ELSE queued[o]]
    /\ redraw_needed' = (Pending /= {} /\ Unchanged = {})
    /\ UNCHANGED <<outputs, shown, scene, lock, locks, plugs, scenes>>

\* A mutant: the first output that presents a frame confirms the lock.
FirstPresented(l, o) ==
    [l EXCEPT !.awaiting_present = @ \ {o}, !.confirmed = TRUE, !.told = @ \/ ~ l.confirmed]

\* session_lock_frame_presented: the last output awaited confirms the lock, and its owner
\* is told so.
FramePresented(l, o) ==
    LET awaiting == l.awaiting_present \ {o}
        confirms == awaiting = {} /\ ~ l.confirmed
    IN  [l EXCEPT !.awaiting_present = awaiting,
                  !.confirmed = @ \/ confirms,
                  !.told = @ \/ confirms]

\* The kernel has put a frame on the screen (finish_frame_callbacks_for_output).
VBlank(o) ==
    /\ o \in Pending
    /\ shown' = [shown EXCEPT ![o] = queued[o]]
    /\ queued' = [queued EXCEPT ![o] = "none"]
    /\ lock' = IF lock.active THEN FramePresented(lock, o) ELSE lock
    /\ UNCHANGED <<outputs, scene, redraw_needed, locks, plugs, scenes>>

(* ---- Outputs come and go ---- *)
\* sync_session_lock_outputs
SyncLockOutputs(l, connected) ==
    IF ~ l.active THEN l
    ELSE [l EXCEPT !.surfaces = @ \cap connected, !.drawn = @ \cap connected,
                   !.awaiting_present = IF l.confirmed THEN @ \cap connected ELSE connected]

\* apply_scanned_topology: a new output starts black and idle.
Plug ==
    /\ plugs < MaxPlugs /\ plugs' = plugs + 1
    /\ outputs' \in (SUBSET Outputs) \ {{}, outputs}
    /\ shown' = [o \in Outputs |-> IF o \in outputs \cap outputs' THEN shown[o] ELSE "black"]
    /\ queued' = [o \in Outputs |-> IF o \in outputs \cap outputs' THEN queued[o] ELSE "none"]
    /\ lock' = SyncLockOutputs(lock, outputs')
    /\ redraw_needed' = TRUE
    /\ UNCHANGED <<scene, locks, scenes>>

(* ---- Programs ---- *)
\* An ordinary window commits; what the commits of one moment draw counts as one.
SceneChanges ==
    /\ scenes < MaxScenes /\ scenes' = scenes + 1
    /\ scene' \in Scenes
    /\ redraw_needed' = TRUE
    /\ UNCHANGED <<outputs, shown, queued, lock, locks, plugs>>

Locking == UNCHANGED <<outputs, shown, queued, scene, plugs, scenes>>

NewLock ==
    [NoLock EXCEPT !.active = TRUE, !.alive = TRUE, !.awaiting_present = outputs]

\* A mutant: a lock is accepted without anything being drawn.
LockUndrawn ==
    /\ ~ lock.active
    /\ locks < MaxLocks /\ locks' = locks + 1
    /\ lock' = NewLock
    /\ UNCHANGED redraw_needed
    /\ Locking

\* lock: one that comes second is refused and changes nothing.
Lock ==
    /\ ~ lock.active
    /\ locks < MaxLocks /\ locks' = locks + 1
    /\ lock' = NewLock
    /\ redraw_needed' = TRUE
    /\ Locking

\* new_surface, and a commit to a lock surface
NewSurface(o) ==
    /\ lock.active /\ lock.alive
    /\ o \in outputs \ lock.surfaces
    /\ lock' = [lock EXCEPT !.surfaces = @ \cup {o}]
    /\ redraw_needed' = TRUE
    /\ UNCHANGED locks /\ Locking

DrawSurface(o) ==
    /\ lock.active /\ o \in lock.surfaces \ lock.drawn
    /\ lock' = [lock EXCEPT !.drawn = @ \cup {o}]
    /\ redraw_needed' = TRUE
    /\ UNCHANGED locks /\ Locking

\* unlock, which the owner may ask for once the lock is confirmed
Unlock ==
    /\ lock.active /\ lock.alive /\ lock.confirmed
    /\ lock' = NoLock
    /\ redraw_needed' = TRUE
    /\ UNCHANGED locks /\ Locking

\* The owner is gone, of itself or for asking to unlock too early
\* (cleanup_disconnected_selection_owners): the session stays locked.
LockerDies ==
    /\ lock.active /\ lock.alive
    /\ lock' = [lock EXCEPT !.alive = FALSE, !.confirmed = TRUE, !.surfaces = {},
                            !.drawn = {}, !.awaiting_present = {}]
    /\ redraw_needed' = TRUE
    /\ UNCHANGED locks /\ Locking

(* ---- The specification ---- *)
\* The backend has started and every output shows the session.
LockInit ==
    /\ outputs \in (SUBSET Outputs) \ {{}}
    /\ scene = "scene"
    /\ shown = [o \in Outputs |-> IF o \in outputs THEN "scene" ELSE "black"]
    /\ queued = [o \in Outputs |-> "none"]
    /\ redraw_needed = FALSE
    /\ lock = NoLock
    /\ locks = 0 /\ plugs = 0 /\ scenes = 0

LockNext ==
    \/ Render
    \/ \E o \in Outputs : VBlank(o) \/ NewSurface(o) \/ DrawSurface(o)
    \/ Plug \/ SceneChanges
    \/ Lock \/ Unlock \/ LockerDies

\* The event loop goes round at least every 16 ms, and the kernel completes the frames
\* it has been given.
Fairness == WF_lockVars(Render) /\ \A o \in Outputs : WF_lockVars(VBlank(o))

LockSpec == LockInit /\ [][LockNext]_lockVars /\ Fairness

(* ---- Properties ---- *)
Contents == Scenes \cup Secure

\* The frames and the lock are well formed; only what is connected is rendered, awaited
\* or covered (sync_session_lock_outputs).
TypeOK ==
    /\ outputs \in SUBSET Outputs /\ outputs /= {}
    /\ shown \in [Outputs -> Contents]
    /\ queued \in [Outputs -> Contents \cup {"none"}]
    /\ \A o \in Outputs \ outputs : queued[o] = "none"
    /\ scene \in Scenes /\ redraw_needed \in BOOLEAN
    /\ lock.awaiting_present \subseteq outputs
    /\ lock.drawn \subseteq lock.surfaces /\ lock.surfaces \subseteq outputs

\* Once the owner of a lock has been told that the session is locked, no frame of ordinary
\* windows is on its way to any output, those connected later included
\* (session_lock_frame_presented, render_output).
NothingOrdinaryUnderWay ==
    lock.active /\ lock.told => \A o \in outputs : queued[o] \notin Scenes

\* Under a lock an output that has shown something secure, and has nothing else under
\* way, never shows ordinary windows again before the lock is undone by the program that
\* took it: not when that program dies, not when outputs change, not when ordinary
\* windows go on drawing (render_output, cleanup_disconnected_selection_owners).
SecureShown(o) == o \in outputs /\ shown[o] \in Secure /\ queued[o] \notin Scenes

Uncovers ==
    /\ lock.active
    /\ \E o \in outputs' : SecureShown(o) /\ (shown'[o] \in Scenes \/ queued'[o] \in Scenes)

OwnerUnlocks == lock.alive /\ lock.told

StaysCovered ==
    [][/\ ~ Uncovers
       /\ (lock.active /\ ~ lock'.active) => OwnerUnlocks]_lockVars

\* The first program to lock the session is told so in the end, unless it dies or outputs
\* change (session_lock_frame_presented).
FirstLockAnswered ==
    (lock.active /\ locks = 1) ~> (~ lock.alive \/ lock.told \/ plugs > 0)
=============================================================================

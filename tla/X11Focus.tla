------------------------------- MODULE X11Focus -------------------------------
(***************************************************************************)
(* Who has the keyboard, as the X server, the programs, the person and the *)
(* window manager of crates/nobox-x11/src/lib.rs bring it about together.  *)
(*                                                                         *)
(* The window manager asks for the focus and is told of it, and so does    *)
(* every program: the notifications it handles describe changes that it    *)
(* may have asked for, or that a program made meanwhile.  The server       *)
(* ignores a request that is older than the last one it followed, and      *)
(* gives the focus to somebody else when its owner disappears.             *)
(*                                                                         *)
(* One workspace; windows come and go but are not destroyed.  A window    *)
(* that its program has withdrawn is not mapped again by mistake: for the  *)
(* races of mapping there is X11Mapping.                                   *)
(***************************************************************************)
EXTENDS Integers, Sequences, SequencesExt, Functions

CONSTANTS
    Clients,
    Adopted,          \* the clients whose windows were there before the window manager
    Direct,           \* the clients that let the window manager focus them (WM_HINTS)
    Takers,           \* the clients that focus themselves when told (WM_TAKE_FOCUS)
    Families,         \* what the modal dialogs may be, each with the clients it blocks: its
                      \* parent, or everybody of its group
    Nobody,
    MaxTime,          \* bound: how often people and programs act at a time of their own
    MaxMappings       \* bound: how often programs map and withdraw windows

ASSUME ClientsAssumption ==
    /\ Direct \subseteq Clients /\ Takers \subseteq Clients /\ Adopted \subseteq Clients
    /\ IsFiniteSet(Adopted)
    /\ Nobody \notin Clients
ASSUME FamiliesAssumption ==
    \A dialogs \in Families : DOMAIN dialogs \subseteq Clients /\ IsFiniteSet(DOMAIN dialogs)
ASSUME BoundsAssumption == MaxTime \in Nat /\ MaxMappings \in Nat

VARIABLES
    wm,               \* the window manager's view, with the core's focus history
    server,           \* the windows that can be seen, and the focus
    requests,         \* of the window manager, on their way to the server
    events,           \* on their way to the window manager
    told,             \* the clients told to take the focus, and with which time
    now, mappings

focusVars == <<wm, server, requests, events, told, now, mappings>>

Never == -1

(* ---- The server ---- *)
\* What has the focus: a window of a client, or its frame; a window that is not
\* managed; the root window, whatever is under the pointer, or nothing at all.
Window(c) == [kind |-> "window", client |-> c]
Frame(c) == [kind |-> "frame", client |-> c]
Other(kind) == [kind |-> kind, client |-> Nobody]
OnRoot == {Other("root"), Other("pointer")}

\* The client whose window or frame the focus leaves or enters is told; when the
\* root window or the pointer has it, so is the client under the pointer.
Concerned(focus, under) ==
    {focus.client, IF focus \in OnRoot THEN under ELSE Nobody} \ {Nobody}
Notices(kind, focus, under) ==
    SetToSeq({[kind |-> kind, client |-> c] : c \in Concerned(focus, under)})

UnderPointer(s) == s.seen \cup {Nobody}

Told(s, focus, under) ==
    IF s.focus = focus THEN <<>> ELSE Notices("out", s.focus, under) \o Notices("in", focus, under)

\* The focus moves.  `under` remembers the last client told only because it was
\* under the pointer: it is told of the end as well only if it still is.  `late`
\* says that a request was not followed since a client last got the focus.
Moved(s, focus, time, under) ==
    [s EXCEPT !.focus = focus, !.time = time,
              !.late = @ /\ (focus.client = Nobody \/ focus = s.focus),
              !.under = IF focus.client /= Nobody THEN Nobody
                        ELSE IF focus \in OnRoot \ {s.focus} /\ under /= Nobody THEN under
                        ELSE @]

\* SetInputFocus: an old request is ignored, and so is one for a window that
\* cannot be seen.
SetFocus(focus, time) ==
    IF time < server.time
    THEN server' = [server EXCEPT !.late = TRUE] /\ UNCHANGED events
    ELSE IF focus.client \in Clients \ server.seen THEN UNCHANGED <<server, events>>
    ELSE \E under \in UnderPointer(server) :
            /\ server' = Moved(server, focus, time, under)
            /\ events' = events \o Told(server, focus, under)

\* A window disappears: if it had the focus, somebody else gets it.
Disappears(s, gone, heir) ==
    \E under \in UnderPointer([s EXCEPT !.seen = @ \ gone]) :
        LET left == [s EXCEPT !.seen = @ \ gone]
            had == s.focus.client \in gone
        IN  /\ server' = IF had THEN Moved(left, heir, s.time, under) ELSE left
            /\ events' = IF had THEN events \o Told(s, heir, under) ELSE events

Execute ==
    LET request == Head(requests) IN
    /\ requests /= <<>>
    /\ requests' = Tail(requests)
    /\ CASE request.kind = "map" ->
              /\ server' = [server EXCEPT !.seen = @ \cup ({request.client} \cap server.wanted)]
              /\ UNCHANGED <<events, told>>
         [] request.kind = "hide" ->
              Disappears(server, {request.client}, Other("root")) /\ UNCHANGED told
         [] request.kind = "destroy" ->
              /\ server' = IF server.focus = Frame(request.client)
                           THEN [server EXCEPT !.focus = Other("nothing"), !.late = FALSE] ELSE server
              /\ events' = IF server.focus = Frame(request.client)
                           THEN Append(events, [kind |-> "out", client |-> Nobody]) ELSE events
              /\ UNCHANGED told
         [] request.kind = "focus" -> SetFocus(Window(request.client), request.time) /\ UNCHANGED told
         [] request.kind = "release" -> SetFocus(Other("pointer"), request.time) /\ UNCHANGED told
         [] request.kind = "take" ->
              told' = [told EXCEPT ![request.client] = request.time] /\ UNCHANGED <<server, events>>
    /\ UNCHANGED <<wm, now, mappings>>

(* ---- The programs and the person ---- *)
Notify(event) == events' = Append(events, event)
Mapping == mappings < MaxMappings /\ mappings' = mappings + 1
Acting == now < MaxTime /\ now' = now + 1

ProgramMaps(c) ==
    /\ Mapping
    /\ c \notin server.wanted
    /\ server' = [server EXCEPT !.wanted = @ \cup {c}]
    /\ Notify([kind |-> "map", client |-> c])
    /\ UNCHANGED <<wm, requests, told, now>>

\* A withdrawn window leaves the focus to its frame, which can still be seen.
ProgramWithdraws(c) ==
    /\ Mapping
    /\ c \in server.seen
    /\ server' = [server EXCEPT !.seen = @ \ {c}, !.wanted = @ \ {c}, 
                               !.focus = IF @ = Window(c) THEN Frame(c) ELSE @]
    /\ events' = events
            \o (IF server.focus = Window(c) THEN <<[kind |-> "out", client |-> c], [kind |-> "in", client |-> c]>>
                ELSE <<>>)
            \o <<[kind |-> "unmap", client |-> c]>>
    /\ UNCHANGED <<wm, requests, told, now>>

\* A program focuses a window of its own, managed or not, whenever it likes.
ProgramFocuses(window) ==
    /\ Acting
    /\ window.client \in server.seen \cup {Nobody} /\ window /= server.focus
    /\ SetFocus(window, now')
    /\ UNCHANGED <<wm, requests, told, mappings>>

PopupCloses ==
    /\ server.focus = Other("popup")
    /\ \E under \in UnderPointer(server) :
          /\ server' = Moved(server, Other("root"), server.time, under)
          /\ events' = events \o Told(server, Other("root"), under)
    /\ UNCHANGED <<wm, requests, told, now, mappings>>

\* A client that was told to take the focus takes it, or does not.
ProgramTakesFocus(c) ==
    /\ told[c] /= Never
    /\ told' = [told EXCEPT ![c] = Never]
    /\ \/ SetFocus(Window(c), told[c])
       \/ server' = [server EXCEPT !.late = TRUE] /\ UNCHANGED events
    /\ UNCHANGED <<wm, requests, now, mappings>>

\* A click, a key, or the message of a pager or of the program itself.
Acts(kind, c) ==
    /\ Acting
    /\ Notify([kind |-> kind, client |-> c, time |-> now'])
    /\ UNCHANGED <<wm, server, requests, told, mappings>>

(* ---- The window manager: the core's part ---- *)
Usable(w) == w.managed \ w.iconic

\* Where a request has got to, and where it was: a client that is blocked passes it
\* on to the topmost dialog in front of it, unless the request was there before.
Onward(w, r) ==
    LET blocking == {i \in DOMAIN w.stack : LET d == w.stack[i] IN
                        d \in Usable(w) \ r.visited /\ r.target \in w.dialogs[d]}
        next == w.stack[Max(blocking)]
    IN  IF blocking = {} THEN r ELSE [target |-> next, visited |-> r.visited \cup {next}]

\* ClientSet::focus_target: through dialogs of dialogs, and of groups.
Target(w, c) ==
    LET reached[k \in 0..Len(w.stack)] ==
            IF k = 0 THEN [target |-> c, visited |-> {c}] ELSE Onward(w, reached[k - 1])
    IN  IF c \in Usable(w) THEN reached[Len(w.stack)].target ELSE Nobody

\* ClientSet::focus, for a target
Focused(w, c) ==
    [w EXCEPT !.focused = c, !.history = Append(Remove(@, c), c)]

\* ClientSet::recover_focus
Recovered(w) ==
    LET usable == SelectSeq(w.history, LAMBDA c : c \in Usable(w))
    IN  [w EXCEPT !.focused = IF usable = <<>> THEN Nobody ELSE Last(usable)]

Lost(w, c) == IF w.focused = c THEN Recovered(w) ELSE w

(***************************************************************************)
(* The window manager: what the handlers have in common.  A result holds   *)
(* the new view and the requests made.                                     *)
(***************************************************************************)
Result(w, list) == [wm |-> w, requests |-> list]
Then(r, list) == [r EXCEPT !.requests = @ \o list]

\* focus_methods, with a time that is not CURRENT_TIME
Accepts(c) == c \in Direct \cup Takers

\* focus
Focus(r, c, time) ==
    LET target == Target(r.wm, c) IN
    IF target = Nobody \/ ~ Accepts(target) THEN r
    ELSE Result(Focused(r.wm, target),
            r.requests
              \o (IF target \in Direct
                  THEN <<[kind |-> "focus", client |-> target, time |-> time]>> ELSE <<>>)
              \o (IF target \in Takers
                  THEN <<[kind |-> "take", client |-> target, time |-> time]>> ELSE <<>>))
Focusable(w, c) == Target(w, c) /= Nobody /\ Accepts(Target(w, c))

\* realize_cleared_x_focus
Release(r, time) ==
    Then([r EXCEPT !.wm.focused = Nobody], <<[kind |-> "release", time |-> time]>>)

\* The end of iconify and of unmanage: the server is told whom the core chose.
Realize(r, time) ==
    IF r.wm.focused /= Nobody /\ Focusable(r.wm, r.wm.focused)
    THEN Focus(r, r.wm.focused, time) ELSE Release(r, time)

\* observe_focus
Observe(w, c) ==
    CASE Target(w, c) = Nobody -> Result([w EXCEPT !.focused = Nobody], <<>>)
      [] Target(w, c) = c -> Result(Focused(w, c), <<>>)
      [] OTHER -> Focus(Result(w, <<>>), Target(w, c), w.timestamp)

\* reconcile_server_focus
Reconcile(w) ==
    IF server.focus.client \in w.managed THEN Observe(w, server.focus.client)
    ELSE Result([w EXCEPT !.focused = Nobody], <<>>)

(* ---- The window manager: the handlers ---- *)
\* A handler that asks the server waits until its requests are carried out.
Handles(kind) ==
    /\ requests = <<>> /\ events /= <<>> /\ Head(events).kind = kind
    /\ events' = Tail(events)
    /\ UNCHANGED <<server, told, now, mappings>>

\* finish_pending_new_focus
Finished(r) ==
    IF r.wm.pending = Nobody THEN r
    ELSE Focus([r EXCEPT !.wm.pending = Nobody], r.wm.pending, r.wm.timestamp)

\* The end of a round of the event loop: a new client gets the focus when no more
\* events have arrived.  Those under way may or may not have.
Ends(r) ==
    \E done \in IF Tail(events) = <<>> THEN {Finished(r)} ELSE {r, Finished(r)} :
        wm' = done.wm /\ requests' = done.requests

\* A click or a key: the time is remembered, and a new client loses its claim.
Input(time) == [wm EXCEPT !.timestamp = time, !.pending = Nobody]

HandleFocusIn ==
    /\ Handles("in")
    /\ LET c == Head(events).client
       IN  Ends(IF c \in wm.managed THEN Observe(wm, c) ELSE Result(wm, <<>>))

\* A mutant: the loss of the focus is not looked into.
IgnoreFocusOut == Handles("out") /\ Ends(Result(wm, <<>>))

\* A mutant: a focus that was not given away is taken back.
TakeFocusBack ==
    /\ Handles("out")
    /\ LET c == Head(events).client
       IN  Ends(IF c \in wm.managed /\ wm.focused \notin {c, Nobody} THEN Result(wm, <<>>)
                ELSE IF c \in wm.managed THEN Focus(Result(wm, <<>>), c, wm.timestamp)
                ELSE Reconcile(wm))

\* focus_out: when the window manager has given the focus to another client, the
\* loss was to be expected.
HandleFocusOut ==
    /\ Handles("out")
    /\ LET c == Head(events).client
       IN  Ends(IF c \in wm.managed /\ wm.focused \notin {c, Nobody} THEN Result(wm, <<>>)
                ELSE Reconcile(wm))

\* restore
Restored(w, c) == [w EXCEPT !.iconic = @ \ {c}]
Shown(w, c) == IF c \in w.iconic THEN <<[kind |-> "map", client |-> c]>> ELSE <<>>

\* manage: a new client may be denied the focus (focus_request_allowed).
HandleMapRequest ==
    /\ Handles("map")
    /\ LET c == Head(events).client IN
       IF c \in wm.managed
       THEN Ends(Focus(Result(Restored(wm, c), Shown(wm, c)), c, wm.timestamp))
       ELSE \E claim \in {c, wm.pending} :
               Ends(Result([wm EXCEPT !.managed = @ \cup {c}, !.history = Append(@, c),
                                      !.pending = claim],
                           <<[kind |-> "map", client |-> c]>>))

\* unmanage
HandleUnmap ==
    /\ Handles("unmap")
    /\ LET c == Head(events).client
           left == [wm EXCEPT !.managed = @ \ {c}, !.iconic = @ \ {c},
                              !.history = Remove(@, c),
                              !.pending = IF @ = c THEN Nobody ELSE @]
           r == Result(Lost(left, c), <<[kind |-> "destroy", client |-> c]>>)
       IN  Ends(IF c \notin wm.managed THEN Result(wm, <<>>)
                ELSE IF wm.focused = c THEN Realize(r, wm.timestamp) ELSE r)

\* button_press on a client, and the actions that focus one
HandleClick ==
    /\ Handles("click")
    /\ LET e == Head(events) IN Ends(Focus(Result(Input(e.time), <<>>), e.client, e.time))

\* button_press on the root window
HandleRootClick ==
    /\ Handles("root")
    /\ LET time == Head(events).time IN Ends(Release(Result(Input(time), <<>>), time))

\* iconify, from a key
HandleIconify ==
    /\ Handles("iconify")
    /\ LET e == Head(events)
           w == Input(e.time)
           iconic == Lost([w EXCEPT !.iconic = @ \cup {e.client}], e.client)
       IN  Ends(IF e.client \notin Usable(wm) THEN Result(w, <<>>)
                ELSE Realize(Result(iconic, <<[kind |-> "hide", client |-> e.client]>>), e.time))

\* _NET_ACTIVE_WINDOW; a program may be denied it, and may leave out the time.
HandleActivate ==
    /\ Handles("activate")
    /\ LET e == Head(events) IN
       \/ Ends(Result(wm, <<>>))
       \/ /\ e.client \in wm.managed
          /\ \E time \in {e.time, wm.timestamp} :
                Ends(Focus(Result(Restored(wm, e.client), Shown(wm, e.client)), e.client, time))

(* ---- The specification ---- *)
\* The orders the dialogs can have in the stack, from the bottom up.
Stacks(dialogs) == SetToSeqs(DOMAIN dialogs)

NoClients(dialogs, stack) ==
    [managed |-> {}, iconic |-> {}, history |-> <<>>, focused |-> Nobody,
     pending |-> Nobody, timestamp |-> 0, dialogs |-> dialogs, stack |-> stack]

\* manage_existing_windows: every window that is there is managed, and focused if
\* that is allowed.
Adopt(r, c, allowed) ==
    LET managed == [r EXCEPT !.wm.managed = @ \cup {c}, !.wm.history = Append(@, c)]
    IN  IF c \in allowed THEN Focus(managed, c, r.wm.timestamp) ELSE managed

FocusInit ==
    /\ \E order \in SetToSeqs(Adopted), allowed \in SUBSET Adopted, dialogs \in Families :
          \E stack \in Stacks(dialogs) :
             LET r == FoldLeft(LAMBDA s, c : Adopt(s, c, allowed),
                               Result(NoClients(dialogs, stack), <<>>), order)
             IN  wm = r.wm /\ requests = r.requests
    /\ server = [wanted |-> Adopted, seen |-> Adopted, focus |-> Other("pointer"), time |-> 0,
                 under |-> Nobody, late |-> FALSE]
    /\ events = <<>>
    /\ told = [c \in Clients |-> Never]
    /\ now = 0 /\ mappings = 0

ProgramStep ==
    \/ \E c \in Clients : ProgramMaps(c) \/ ProgramWithdraws(c) \/ ProgramTakesFocus(c)
    \/ \E window \in {Window(c) : c \in Clients} \cup {Other("popup")} : ProgramFocuses(window)
    \/ PopupCloses
    \/ \E c \in server.seen, kind \in {"click", "iconify"} : Acts(kind, c)
    \/ \E c \in wm.managed : Acts("activate", c)
    \/ Acts("root", Nobody)

ManagerStep ==
    \/ HandleFocusIn \/ HandleFocusOut \/ HandleMapRequest \/ HandleUnmap
    \/ HandleClick \/ HandleRootClick \/ HandleIconify \/ HandleActivate

\* Whatever raises or lowers a dialog (X11Stacking): it may happen at any time.
Restack ==
    /\ Acting
    /\ \E stack \in Stacks(wm.dialogs) \ {wm.stack} : wm' = [wm EXCEPT !.stack = stack]
    /\ UNCHANGED <<server, requests, events, told, mappings>>

FocusNext == Execute \/ ProgramStep \/ ManagerStep \/ Restack

\* The event loop goes round while there are events, and the server reads what the
\* window manager has sent.  Programs and people need not do anything.  Only handlers
\* take events, and there is one for every kind.
TakesEvent == requests = <<>> /\ events /= <<>> /\ events' = Tail(events)

Fairness == WF_focusVars(Execute) /\ WF_events(TakesEvent)

FocusSpec == FocusInit /\ [][FocusNext]_focusVars /\ Fairness

(* ---- Properties ---- *)
Quiet == requests = <<>> /\ events = <<>> /\ \A c \in Clients : told[c] = Never

\* The clients that may pass for the owner of the focus: when no client has it,
\* the one under the pointer was told that it has.
Owners(s) ==
    IF s.focus.client /= Nobody THEN {s.focus.client} ELSE {Nobody, s.under}

\* Once everything under way has been carried out and handled, the client the
\* window manager calls active has the focus, in whatever order its own requests,
\* those of programs and the notifications of both crossed; unless the server or
\* the client would not follow a request (focus_in, focus_out, observe_focus,
\* reconcile_server_focus).  A modal dialog that takes no focus at all is the
\* exception: when its parent's program focuses the parent, observe_focus asks for
\* the dialog, drops the refusal, and the core keeps the client it had.
FocusAgrees ==
    (\A dialogs \in Families : \A d \in DOMAIN dialogs : Accepts(d)) /\ Quiet /\ ~ server.late
    => wm.focused \in Owners(server)

\* No dialogs block each other in a circle.
NoCircle(dialogs) ==
    \A S \in SUBSET DOMAIN dialogs \ {{}} :
        \E d \in S : \A e \in S \ {d} : d \notin dialogs[e]

\* The window manager never fights over the focus: when people and programs stop,
\* so do the requests and the notifications they cause.  Dialogs that block each
\* other are the exception, such as two that are modal for the same group: whichever
\* gets the focus, observe_focus asks for the other, focus_target turns that into a
\* request for the same one again, and two notifications that crossed go on forever.
FocusSettles == NoCircle(wm.dialogs) => <>[](requests = <<>> /\ events = <<>>)
===============================================================================

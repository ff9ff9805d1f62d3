----------------------------- MODULE X11Mapping -----------------------------
(***************************************************************************)
(* Which windows are on the screen, as the X server, a program and the     *)
(* window manager of crates/nobox-x11/src/lib.rs bring it about together.  *)
(*                                                                         *)
(* The window manager's requests are carried out by the server in order,   *)
(* some time after they were made; the server's events are handled by the  *)
(* window manager in order, some time after they happened.  In between     *)
(* the program goes on.  Only a request with a reply makes the window      *)
(* manager wait until the server has caught up.                            *)
(*                                                                         *)
(* An unmap notification may mean that a program has withdrawn its window  *)
(* or that the window manager has hidden it.  It tells them apart by       *)
(* counting those it expects.                                              *)
(*                                                                         *)
(* One window, with its frame.                                             *)
(***************************************************************************)
EXTENDS Integers, Sequences

CONSTANTS
    MaxCommands,      \* bound: how often people shade, iconify, restore or switch
    MaxWithdrawals    \* bound: how often the program withdraws its window or destroys it

ASSUME BoundsAssumption == MaxCommands \in Nat /\ MaxWithdrawals \in Nat

VARIABLES
    server,           \* the window: exists, mapped, its parent; the frame
    client,           \* the window manager's view of it
    visible,          \* whether its workspace is on the screen
    requests,         \* on their way to the server
    events,           \* on their way to the window manager
    wanted,           \* whether the program wants its window mapped
    commands, withdrawals

vars == <<server, client, visible, requests, events, wanted, commands, withdrawals>>

(* ---- The server ---- *)
\* Both the window's own subscription and its parent's bring a notification.
UnmapEvents(s) == IF s.selected THEN <<"unmap", "unmap">> ELSE <<"unmap">>

Unmapped(s) == [s EXCEPT !.mapped = FALSE]

Reparented(s, parent) == [s EXCEPT !.parent = parent]

\* What a request does, and the events it causes.  A mapped window that is given
\* another parent is unmapped and mapped again.
Result(s, request) ==
    CASE request = "select" -> [s EXCEPT !.selected = TRUE, !.frame = "unmapped"]
      [] request = "map"    -> [s EXCEPT !.mapped = TRUE]
      [] request = "unmap"  -> Unmapped(s)
      [] request = "frame"  -> Reparented(s, "frame")
      [] request = "root"   -> Reparented(s, "root")
      [] request = "show"   -> [s EXCEPT !.frame = IF @ = "none" THEN @ ELSE "mapped"]
      [] request = "hide"   -> [s EXCEPT !.frame = IF @ = "none" THEN @ ELSE "unmapped"]
      [] request = "destroy" -> [s EXCEPT !.frame = "none"]

Causes(s, request) ==
    IF s.mapped /\ request \in {"unmap", "frame", "root"} THEN UnmapEvents(s) ELSE <<>>

ForFrame == {"show", "hide", "destroy"}

\* The server carries out the next request; those about a window that is gone fail.
Execute ==
    LET request == Head(requests)
        fails == ~ server.exists /\ request \notin ForFrame
    IN  /\ requests /= <<>>
        /\ requests' = Tail(requests)
        /\ server' = IF fails THEN server ELSE Result(server, request)
        /\ events' = IF fails THEN events ELSE events \o Causes(server, request)
        /\ UNCHANGED <<client, visible, wanted, commands, withdrawals>>

(* ---- The program ---- *)
Call == server.exists /\ UNCHANGED <<client, visible, requests, commands>>

Withdrawal == withdrawals < MaxWithdrawals /\ withdrawals' = withdrawals + 1

\* Mapping a window is left to the window manager.
ProgramMaps ==
    /\ Call
    /\ ~ wanted /\ wanted' = TRUE
    /\ events' = IF server.mapped THEN events ELSE Append(events, "map_request")
    /\ UNCHANGED <<server, withdrawals>>

\* XWithdrawWindow: the window is unmapped, and the window manager is told besides.
ProgramWithdraws ==
    /\ Call /\ Withdrawal
    /\ wanted /\ wanted' = FALSE
    /\ server' = Unmapped(server)
    /\ events' = (IF server.mapped THEN events \o UnmapEvents(server) ELSE events)
                    \o <<"synthetic_unmap">>

ProgramDestroys ==
    /\ Call /\ Withdrawal
    /\ wanted' = FALSE
    /\ server' = [server EXCEPT !.exists = FALSE, !.mapped = FALSE]
    /\ events' = events \o (IF server.mapped THEN UnmapEvents(server) ELSE <<>>) \o <<"destroy">>

(* ---- The window manager ---- *)
NoClient == [managed |-> FALSE, iconic |-> FALSE, shaded |-> FALSE, starting |-> FALSE,
             expected |-> 0]

\* A handler that asks the server waits until all its requests are carried out.
Asks == requests = <<>>

Handles(event) ==
    /\ ~ client.starting
    /\ events /= <<>> /\ Head(events) = event
    /\ events' = Tail(events)
    /\ UNCHANGED <<server, wanted, commands, withdrawals>>

Requests(list) == requests' = requests \o list

Ignored == UNCHANGED <<client, visible, requests>>

\* map_frame
MapFrame(c) == IF c.shaded THEN <<"show">> ELSE <<"map", "show">>

Shown(c) == ~ c.iconic /\ visible

\* A mutant: a window is restored although its workspace is not on the screen.
RestoreAnywhere(c) ==
    /\ client' = [c EXCEPT !.iconic = FALSE]
    /\ Requests(IF c.iconic THEN MapFrame(c) ELSE <<>>)

\* restore
Restore(c) ==
    /\ client' = [c EXCEPT !.iconic = FALSE]
    /\ Requests(IF c.iconic /\ visible THEN MapFrame(c) ELSE <<>>)

\* A mutant: one notification is expected, as if only the parent's subscription brought one.
ExpectedOnce == IF server.mapped THEN 1 ELSE 0

\* The notifications of one request that unmaps a window, one from each subscription
Expected == IF server.mapped THEN 2 ELSE 0

ShowNew(c) == IF Shown(c) THEN MapFrame(c) ELSE <<>>

\* create_frame, and manage, for a window that is not managed; it may ask to start as an
\* icon, or shaded.
Manage(iconic, shaded) ==
    LET managed == [managed |-> TRUE, iconic |-> iconic, shaded |-> FALSE, starting |-> shaded,
                    expected |-> Expected]
    IN  /\ client' = managed
        /\ Requests(<<"select", "frame">> \o (IF shaded THEN <<>> ELSE ShowNew(managed)))

\* The rest of manage for a window that starts shaded: set_shaded asks the server again.
StartShaded ==
    /\ client.starting /\ Asks
    /\ LET shaded == [client EXCEPT !.starting = FALSE, !.shaded = TRUE, !.expected = @ + Expected]
       IN  /\ client' = shaded
           /\ Requests((IF server.mapped THEN <<"unmap">> ELSE <<>>) \o ShowNew(shaded))
    /\ UNCHANGED <<server, visible, events, wanted, commands, withdrawals>>

HandleMapRequest ==
    /\ Handles("map_request") /\ Asks
    /\ \/ ~ server.exists /\ Ignored
       \/ server.exists /\ client.managed /\ Restore(client) /\ UNCHANGED visible
       \/ /\ server.exists /\ ~ client.managed
          /\ \E iconic, shaded \in BOOLEAN : Manage(iconic, shaded)
          /\ UNCHANGED visible

\* manage_existing_windows, when the window manager starts; a rule or a restored session may
\* make the window an icon.
HandleAdopt ==
    /\ Handles("adopt") /\ Asks
    /\ IF server.mapped THEN (\E iconic, shaded \in BOOLEAN : Manage(iconic, shaded)) /\ UNCHANGED visible
       ELSE Ignored

\* unmanage: a window that still exists is given back to the root window.
Unmanage(withdrawn) ==
    /\ client' = NoClient
    /\ Requests(IF ~ client.managed THEN <<>>
                ELSE (IF withdrawn THEN <<"root">> ELSE <<>>) \o <<"destroy">>)
    /\ UNCHANGED visible

\* unmap_notify, for a notification that is expected
HandleExpectedUnmap ==
    /\ client.expected > 0
    /\ \/ Handles("unmap") \/ Handles("synthetic_unmap")
    /\ client' = [client EXCEPT !.expected = @ - 1]
    /\ UNCHANGED <<visible, requests>>

HandleUnmap ==
    /\ client.expected = 0
    /\ Handles("unmap") /\ Asks
    /\ Unmanage(server.exists)

HandleSyntheticUnmap ==
    /\ client.expected = 0
    /\ Handles("synthetic_unmap") /\ Asks
    /\ IF server.mapped THEN Ignored ELSE Unmanage(server.exists)

HandleDestroy == Handles("destroy") /\ Unmanage(FALSE)

\* A mutant: unshading expects notifications too.
HandleShadeCounting ==
    /\ Handles("shade") /\ Asks
    /\ IF ~ client.managed \/ ~ server.exists THEN Ignored
       ELSE /\ client' = [client EXCEPT
                   !.shaded = ~ @,
                   !.expected = @ + 2]
            /\ Requests(IF ~ client.shaded THEN (IF server.mapped THEN <<"unmap">> ELSE <<>>)
                        ELSE IF Shown(client) THEN <<"map">> ELSE <<>>)
            /\ UNCHANGED visible

\* set_shaded
HandleShade ==
    /\ Handles("shade") /\ Asks
    /\ IF ~ client.managed \/ ~ server.exists THEN Ignored
       ELSE /\ client' = [client EXCEPT
                   !.shaded = ~ @,
                   !.expected = IF client.shaded THEN @ ELSE @ + Expected]
            /\ Requests(IF ~ client.shaded THEN (IF server.mapped THEN <<"unmap">> ELSE <<>>)
                        ELSE IF Shown(client) THEN <<"map">> ELSE <<>>)
            /\ UNCHANGED visible

\* iconify, and restore by a person
HandleIconify ==
    /\ Handles("iconify")
    /\ IF ~ client.managed THEN Ignored
       ELSE /\ UNCHANGED visible
            /\ IF client.iconic THEN Restore(client)
               ELSE client' = [client EXCEPT !.iconic = TRUE] /\ Requests(<<"hide">>)

\* sync_workspace_visibility, after switch_workspace or set_showing_desktop
HandleSwitch ==
    /\ Handles("switch")
    /\ visible' = ~ visible
    /\ Requests(IF ~ client.managed THEN <<>>
                ELSE IF ~ client.iconic /\ visible' THEN MapFrame(client) ELSE <<"hide">>)
    /\ UNCHANGED client

(* ---- People ---- *)
Command(command) ==
    /\ commands < MaxCommands
    /\ commands' = commands + 1
    /\ events' = Append(events, command)
    /\ UNCHANGED <<server, client, visible, requests, wanted, withdrawals>>

(* ---- The specification ---- *)
\* The window manager starts, and finds the window or not.
Init ==
    /\ server \in [exists : {TRUE}, mapped : BOOLEAN, parent : {"root"}, frame : {"none"},
                   selected : {FALSE}]
    /\ client = NoClient /\ visible = TRUE
    /\ requests = <<>> /\ events = <<"adopt">>
    /\ wanted = server.mapped
    /\ commands = 0 /\ withdrawals = 0

ServerStep == Execute

ProgramStep == ProgramMaps \/ ProgramWithdraws \/ ProgramDestroys

ManagerStep ==
    \/ HandleMapRequest \/ HandleAdopt \/ StartShaded \/ HandleDestroy
    \/ HandleExpectedUnmap \/ HandleUnmap \/ HandleSyntheticUnmap
    \/ HandleShade \/ HandleIconify \/ HandleSwitch

PersonStep == \E command \in {"shade", "iconify", "switch"} : Command(command)

Next == ServerStep \/ ProgramStep \/ ManagerStep \/ PersonStep

Spec == Init /\ [][Next]_vars

Settled == requests = <<>> /\ events = <<>> /\ ~ client.starting

(* ---- Properties ---- *)
\* Once everything under way has been carried out and handled, no notification is
\* expected any more: one that were would hide the next withdrawal of the window
\* (unmap_notify).
NothingExpectedForEver == Settled => client.expected = 0

\* A window its program never withdrew is never given up, in whatever order the
\* notifications of its frame, its shading and its workspace arrive (unmap_notify,
\* create_frame, set_shaded).
GivenUp == client.managed /\ ~ client'.managed

NeverGivenUpUnasked == [][GivenUp => withdrawals > 0]_vars

FramesSettle ==
    Settled =>
        /\ client.managed =>
              /\ server.exists /\ server.parent = "frame"
              /\ server.frame = IF Shown(client) THEN "mapped" ELSE "unmapped"
        /\ ~ client.managed => server.frame = "none" /\ (server.exists => server.parent = "root")

ContentSettles ==
    Settled /\ client.managed =>
        /\ ~ client.shaded /\ Shown(client) => server.mapped
        /\ client.shaded => ~ server.mapped

\* Once settled, what is managed is in its frame, and the frame is on the screen exactly
\* when the window is not iconic and its workspace is shown; what is not managed, or no
\* longer exists, has no frame.  A managed window that should be on the screen and is
\* not shaded is mapped, whatever its program asked for, and a shaded one is not
\* (map_frame, set_shaded, iconify, restore, sync_workspace_visibility).
VisibilitySettles == FramesSettle /\ ContentSettles
=============================================================================

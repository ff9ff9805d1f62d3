---------------------------- MODULE AgentEvents ----------------------------
(***************************************************************************)
(* The X11 window manager, its desktop and its agent sessions: the event   *)
(* loop of crates/nobox-x11/src/lib.rs as far as agents can see it.        *)
(*                                                                         *)
(* The window manager takes events from the server in bursts.  It compares *)
(* the desktop with its shadow when a burst is over, before it handles the *)
(* frames that have arrived from agents, and after them.  An agent's       *)
(* companion reads what it is sent, at any speed, and keeps a view of the  *)
(* desktop from it.                                                        *)
(*                                                                         *)
(* `doubt` is not part of the program.  It says about which clients (and   *)
(* about the focus and the workspace) the latest snapshot of a session may *)
(* be misleading: what was `unsettled` when it was taken, what has been    *)
(* `concealed` since; and about which some snapshot may `ever` have been.  *)
(* It also remembers whether the session has been revoked.                 *)
(***************************************************************************)
EXTENDS AgentGlue, Integers

CONSTANTS
    MaxChanges,       \* bound: changes of the desktop
    MaxRequests,      \* bound: connections, greetings and requests of agents
    Watched,          \* the session StreamPromise is about
    Deals             \* what the configuration may give a session, see Deal

ASSUME DealsAssumption == Deals \subseteq [grant : Grants, matcher : SUBSET Clients]

VARIABLES
    m,                \* the window manager, see AgentGlue
    phase,            \* "idle", in a "burst", or in the "drain" of agent frames
    view,             \* what each companion knows
    doubt,
    lives,            \* how often each window has been given up, not part of the program
    changes, requests

vars == <<m, phase, view, doubt, lives, changes, requests>>

S == INSTANCE SequencesExt

\* A grant, and the clients its scope matches (all, without a scope).
Deal(grant, matcher) == [grant |-> grant, matcher |-> matcher]

(* ---- The companion's view ---- *)
NoView ==
    [at |-> 0, lost |-> TRUE, clients |-> [c \in Clients |-> NoShadow],
     focus |-> NoClient, current |-> 0]

ViewOf(snapshot) ==
    [at |-> snapshot.sequence, lost |-> FALSE, clients |-> snapshot.clients,
     focus |-> snapshot.focus, current |-> snapshot.current]

\* A change of one field of a client the view knows.
WithField(v, event, field) ==
    LET c == event.client
    IN  IF v.clients[c].known
        THEN [v EXCEPT !.clients[c][field] = event.value,
                       !.clients[c].generation = event.generation]
        ELSE v

Changed(v, event) ==
    CASE event.kind = "client_mapped"      -> [v EXCEPT !.clients[event.client] = event.descriptor]
      [] event.kind = "client_closed"      -> [v EXCEPT !.clients[event.client] = NoShadow]
      [] event.kind = "title_changed"      -> WithField(v, event, "title")
      [] event.kind = "state_changed"      -> WithField(v, event, "state")
      [] event.kind = "geometry_changed"   -> WithField(v, event, "place")
      [] event.kind = "focus_changed"      -> [v EXCEPT !.focus = event.client]
      [] event.kind = "workspace_switched" -> [v EXCEPT !.current = event.workspace]
      [] OTHER                             -> v

ReadEvent(v, stamped) ==
    IF stamped.event.kind = "resync_required" THEN [v EXCEPT !.lost = TRUE]
    ELSE IF v.lost \/ stamped.sequence <= v.at THEN v
    ELSE [Changed(v, stamped.event) EXCEPT !.at = stamped.sequence]

IsSnapshot(frame) == frame.frame = "response" /\ frame.request = "snapshot"

ReadFrame(v, frame) ==
    IF frame.frame = "event" THEN ReadEvent(v, frame.event)
    ELSE IF IsSnapshot(frame) THEN ViewOf(frame.outcome) ELSE v

\* What has been published for a session and not yet handed to the transport.
Backlog(s) ==
    LET subscription == m.agents.sessions[s].subscription
    IN  IF subscription.resync THEN <<NextEvent(m.agents, s)>> ELSE subscription.queue

Served(s) == Held(m, s) /\ s \in OpenSessions(m.agents)

Subscribed(s) == Served(s) /\ m.agents.sessions[s].subscription.on

\* The view the companion will have once it has read everything.
FinalView(s) ==
    S!FoldLeft(ReadEvent, S!FoldLeft(ReadFrame, view[s], m.outbox[s]), Backlog(s))

(* ---- Doubt ---- *)
\* What has changed in the middle of things, and may change back unnoticed.
Unsettled(n) ==
    {c \in Clients : Managed(n, c) /\ n.shadow[c] /= Live(n, c)}
    \cup {c \in Clients : n.shadow[c].known /\ ~ Managed(n, c)}
    \cup (IF n.shownFocus /= n.focus THEN {"focus"} ELSE {})
    \cup (IF n.shownWorkspace /= n.current THEN {"workspace"} ELSE {})

\* The clients events no longer speak of, or no longer in the same way.
Concealed(n, s) ==
    IF s \notin OpenSessions(n.agents) THEN {}
    ELSE {c \in Clients : n.shadow[c].known /\ ~ Perceives(n.agents, s, c)}

\* The clients that a rule has made more private, with their titles as they were announced.
Reclassified(n) ==
    {c \in Clients : /\ n.agents.visibility[c] /= m.agents.visibility[c]
                     /\ m.shadow[c].known /\ n.shadow[c].known
                     /\ n.shadow[c].title = m.shadow[c].title}

Regranted(n, s) ==
    /\ s \in OpenSessions(m.agents) \cap OpenSessions(n.agents)
    /\ n.agents.sessions[s].grant.capabilities /= m.agents.sessions[s].grant.capabilities

Revoked(n, s) == s \in OpenSessions(n.agents) /\ n.agents.sessions[s].status = "revoked"

\* Every step but the one that takes a snapshot.
Become(n) ==
    /\ m' = n
    /\ doubt' = [s \in Sessions |->
        LET more == Concealed(n, s) \cup Reclassified(n)
                    \cup IF Regranted(n, s) THEN Clients ELSE {}
        IN  [doubt[s] EXCEPT !.concealed = @ \cup more, !.ever = @ \cup more,
                               !.revoked = @ \/ Revoked(n, s)]]

(* ---- The desktop ---- *)
Change(n) ==
    /\ phase \in {"idle", "burst"}
    /\ changes < MaxChanges
    /\ changes' = changes + 1
    /\ phase' = "burst"
    /\ Become(n)
    /\ UNCHANGED <<view, requests>>

Moves(n) == Change(n) /\ UNCHANGED lives

Appeared(n, c, title, place) ==
    Register([n EXCEPT !.desk[c] =
        [managed |-> TRUE, title |-> title, workspace |-> n.current, place |-> place,
         life |-> lives[c]]], c)

\* manage: an agent's rules apply at once, its events come with the boundary.
Manage(c, title, place) ==
    /\ ~ Managed(m, c)
    /\ Moves(Appeared(m, c, title, place))

Focusable == {NoClient} \cup {c \in Clients : Managed(m, c) /\ m.desk[c].workspace = m.current}

\* unmanage: the client's own drag is over, and some other client is focused.
Unmanage(c, next) ==
    /\ Managed(m, c)
    /\ next /= c /\ next \in Focusable
    /\ m.focus \in {c, next}
    /\ Change([m EXCEPT !.desk[c] = Unmanaged, !.focus = next,
                        !.drag = IF @.on /\ @.client = c THEN NoDrag ELSE @])
    /\ lives' = [lives EXCEPT ![c] = @ + 1]

\* apply_title
Retitle(c, title) ==
    /\ Managed(m, c) /\ m.desk[c].title /= title
    /\ Moves([m EXCEPT !.desk[c].title = title])

\* A move by the client or by a key.
Move(c, place) ==
    /\ Managed(m, c) /\ m.desk[c].place /= place
    /\ m.drag.on => m.drag.client /= c
    /\ Moves([m EXCEPT !.desk[c].place = place])

BeginDrag(c) ==
    /\ Managed(m, c) /\ ~ m.drag.on
    /\ Moves([m EXCEPT !.drag = [on |-> TRUE, client |-> c, initial |-> m.desk[c].place]])

DragTo(place) ==
    /\ m.drag.on /\ m.desk[m.drag.client].place /= place
    /\ Moves([m EXCEPT !.desk[m.drag.client].place = place])

FinishDrag == m.drag.on /\ Moves([m EXCEPT !.drag = NoDrag])

CancelDrag ==
    /\ m.drag.on
    /\ Moves([m EXCEPT !.desk[m.drag.client].place = m.drag.initial, !.drag = NoDrag])

Focus(f) == m.focus /= f /\ f \in Focusable /\ Moves([m EXCEPT !.focus = f])

SwitchWorkspace(w) ==
    /\ w /= m.current
    /\ Moves([m EXCEPT !.current = w, !.focus = NoClient])

SendToWorkspace(c, w) ==
    /\ Managed(m, c) /\ m.desk[c].workspace /= w
    /\ Moves([m EXCEPT !.desk[c].workspace = w, !.focus = IF @ = c THEN NoClient ELSE @])

HumanInput == Moves(NoteHuman(m, TRUE))

KillChord == Moves(ToggleFreeze(m))

\* reload_config: new grants and scopes for the sessions.
Reload(grants, matchers) == Moves(ReapplyGrants(m, grants, matchers))

(* ---- The end of a burst, and the drain of the frames agents sent ---- *)
Boundary ==
    /\ phase = "burst"
    /\ phase' = "idle"
    /\ Become(FlushEvents(SyncEvents(m)))
    /\ UNCHANGED <<view, lives, changes, requests>>

Drain ==
    /\ phase \in {"idle", "burst"}
    /\ requests < MaxRequests
    /\ phase' = "drain"
    /\ Become(SyncEvents(m))
    /\ UNCHANGED <<view, lives, changes, requests>>

EndDrain ==
    /\ phase = "drain"
    /\ phase' = "idle"
    /\ Become(FlushEvents(SyncEvents(m)))
    /\ UNCHANGED <<view, lives, changes, requests>>

Inbound ==
    /\ phase = "drain"
    /\ requests < MaxRequests
    /\ requests' = requests + 1
    /\ UNCHANGED <<phase, view, lives, changes>>

\* handle_agent_inbound: Connected and Disconnected, and a greeting that is answered
\* at once.  A second one ends the session.
Connect(s) ==
    /\ m.link[s] = "none"
    /\ Inbound /\ Become([m EXCEPT !.link[s] = "connected"])

Greet(s, grant, matcher) ==
    /\ Held(m, s)
    /\ Inbound
    /\ Become(IF m.link[s] = "greeted" THEN Fault(m, s)
              ELSE CompleteGreeting([m EXCEPT !.matchers[s] = matcher], s, grant))

Disconnect(s) ==
    /\ m.link[s] \notin {"none", "gone"}
    /\ Inbound
    /\ Become([CloseSession(m, s) EXCEPT !.link[s] = "gone", !.outbox[s] = <<>>])

\* agent_call: a look at the desktop, alone or with a subscription.
Answer(n, s) ==
    IF Authorize(n.agents, s, {"observe"}) = "ok"
    THEN Respond(n, s, "snapshot", Snapshot(n, s))
    ELSE Respond(n, s, "refused", Authorize(n.agents, s, {"observe"}))

Looks(s, n) ==
    LET granted == Authorize(m.agents, s, {"observe"}) = "ok"
        sent == Len(n.outbox[s]) > Len(m.outbox[s])
    IN  /\ Inbound
        /\ m' = n
        /\ doubt' = IF granted /\ sent
                    THEN [doubt EXCEPT ![s].unsettled = Unsettled(m), ![s].concealed = {},
                                       ![s].ever = @ \cup Unsettled(m)]
                    ELSE doubt

AskSnapshot(s) == m.link[s] = "greeted" /\ Looks(s, Answer(m, s))

AskSubscribe(s) ==
    /\ m.link[s] = "greeted"
    /\ LET granted == Authorize(m.agents, s, {"observe"}) = "ok"
           subscribed == IF granted THEN [m EXCEPT !.agents = Subscribe(@, s, {})] ELSE m
       IN  Looks(s, Answer(subscribed, s))

\* An agent's own action on a client, answered at once.
Acts(s, n) ==
    /\ m.link[s] = "greeted"
    /\ Inbound
    /\ Become(IF Authorize(m.agents, s, {"manage"}) = "ok" THEN Respond(n, s, "act", "ok")
              ELSE Respond(m, s, "act", Authorize(m.agents, s, {"manage"})))

AgentMove(s, c, place) == Seen(m, s, c) /\ Acts(s, [m EXCEPT !.desk[c].place = place])

AgentFocus(s, f) ==
    /\ f /= NoClient /\ f \in Focusable /\ Seen(m, s, f)
    /\ Acts(s, [m EXCEPT !.focus = f])

(***************************************************************************)
(* The companion reads a frame.  Little of a burst depends on when, so it  *)
(* reads between bursts and during drains.                                 *)
(***************************************************************************)
Read(s) ==
    /\ phase /= "burst"
    /\ m.outbox[s] /= <<>>
    /\ view' = [view EXCEPT ![s] = ReadFrame(@, Head(m.outbox[s]))]
    /\ m' = [m EXCEPT !.outbox[s] = Tail(@)]
    /\ UNCHANGED <<phase, doubt, lives, changes, requests>>

(* ---- The specification ---- *)
\* A client has been managed and a session has been greeted and has read its welcome.
UnderWay(c, t, s, deal) ==
    LET there == SyncEvents(Appeared(Started, c, t, CHOOSE p \in Places : TRUE))
        joined == CompleteGreeting([there EXCEPT !.link[s] = "connected",
                                                 !.matchers[s] = deal.matcher], s, deal.grant)
    IN  [joined EXCEPT !.outbox[s] = <<>>]

Trusting == {deal \in Deals : deal.grant = Unscoped(Capabilities)}

Init ==
    /\ lives = [c \in Clients |-> 0]
    /\ m \in {Started} \cup
             {UnderWay(c, t, s, deal) : c \in Clients, t \in {t \in Titles : Rule[t] = "visible"},
                                        s \in Sessions, deal \in Trusting}
    /\ phase = "idle"
    /\ view = [s \in Sessions |-> NoView]
    /\ doubt = [s \in Sessions |-> [unsettled |-> {}, concealed |-> {}, ever |-> {}, revoked |-> FALSE]]
    /\ changes = 0 /\ requests = 0

DesktopStep ==
    \/ \E c \in Clients, t \in Titles : Manage(c, t, CHOOSE p \in Places : TRUE)
    \/ \E c \in Clients, f \in Clients \cup {NoClient} : Unmanage(c, f)
    \/ \E c \in Clients, t \in Titles : Retitle(c, t)
    \/ \E c \in Clients, p \in Places : Move(c, p)
    \/ \E c \in Clients : BeginDrag(c)
    \/ \E p \in Places : DragTo(p)
    \/ FinishDrag
    \/ CancelDrag
    \/ \E f \in Clients \cup {NoClient} : Focus(f)
    \/ \E w \in Workspaces : SwitchWorkspace(w)
    \/ \E c \in Clients, w \in Workspaces : SendToWorkspace(c, w)
    \/ HumanInput
    \/ KillChord
    \/ \E deals \in [Sessions -> Deals] :
        Reload([s \in Sessions |-> deals[s].grant], [s \in Sessions |-> deals[s].matcher])

AgentStep ==
    \/ \E s \in Sessions : Connect(s) \/ Disconnect(s) \/ AskSnapshot(s) \/ AskSubscribe(s)
    \/ \E s \in Sessions, deal \in Deals : Greet(s, deal.grant, deal.matcher)
    \/ \E s \in Sessions, c \in Clients, p \in Places : AgentMove(s, c, p)
    \/ \E s \in Sessions, f \in Clients : AgentFocus(s, f)
    \/ \E s \in Sessions : Read(s)

Next == DesktopStep \/ Boundary \/ Drain \/ EndDrain \/ AgentStep

Spec == Init /\ [][Next]_vars

(* ---- Properties ---- *)
\* The promise of EventStream.  What is on its way to a session is what the transport
\* has and what is queued behind it.
Stamp(s) == IF Served(s) THEN m.agents.sessions[s].sequence ELSE -1

Item(frame) ==
    IF frame.frame = "response" THEN [what |-> "snapshot", n |-> frame.outcome.sequence]
    ELSE IF frame.event.event.kind = "resync_required" THEN [what |-> "resync", n |-> 0]
    ELSE [what |-> "event", n |-> frame.event.sequence]

Relevant(frame) == frame.frame = "event" \/ IsSnapshot(frame)

Unread(s) ==
    LET sent == SelectSeq(m.outbox[s], Relevant)
        waiting == IF ~ Served(s) THEN <<>>
                   ELSE [i \in DOMAIN Backlog(s) |-> [frame |-> "event", event |-> Backlog(s)[i]]]
        all == sent \o waiting
    IN  [i \in DOMAIN all |-> Item(all[i])]

Stream ==
    INSTANCE EventStream WITH stamp <- Stamp(Watched), on <- Subscribed(Watched),
                              unread <- Unread(Watched),
                              at <- view[Watched].at, lost <- view[Watched].lost

\* A session reads its events in order and without a gap, or is told to start
\* over (next_event, publish, requeue_event, flush_agent_events).
StreamPromise == Stream!Spec

\* When nothing is going on, a subscribed session that reads all it is sent knows the
\* clients it may see, their titles, states and places, the focus and the workspace,
\* whatever happened in whatever order since its snapshot (sync_agent_events).
TrueOf(s, v, c) ==
    IF ~ Seen(m, s, c) THEN ~ v.clients[c].known
    ELSE /\ v.clients[c].known
         /\ v.clients[c].title = ReadableTitle(m, s, c)
         /\ v.clients[c].state = ClientState(m, c)
         /\ ~ m.drag.on => v.clients[c].place = m.desk[c].place

TrueView(s, v, excepted) ==
    /\ \A c \in Clients \ excepted : TrueOf(s, v, c)
    /\ \/ "focus" \in excepted \/ m.focus \in excepted \/ v.focus \in excepted
       \/ v.focus = SeenFocus(m, s)
    /\ "workspace" \in excepted \/ v.current = m.current

Informed(s) == Subscribed(s) /\ ~ FinalView(s).lost

ViewTracksDesktop ==
    phase = "idle" =>
        \A s \in Sessions :
            Informed(s) => TrueView(s, FinalView(s), doubt[s].unsettled \cup doubt[s].concealed)

\* A session that acts on a client it expects to be at the generation it has read of
\* knows the client as it is, however far behind its view is (check_expects).
GenerationTells ==
    phase = "idle" =>
        \A s \in Sessions, c \in Clients :
            LET known == view[s].clients[c]
            IN  /\ Served(s) /\ Seen(m, s, c) /\ c \notin doubt[s].ever /\ known.known
                /\ known.life = m.desk[c].life
                /\ CheckExpects(m.agents, c, known.generation)
                => TrueOf(s, view[s], c)

=============================================================================

----------------------------- MODULE AgentGlue -----------------------------
(***************************************************************************)
(* How the X11 window manager feeds its agent sessions: the functions of   *)
(* crates/nobox-x11/src/lib.rs that compare the desktop with a shadow copy, *)
(* turn the differences into events, hand events and replies to the        *)
(* transport, and finish or abandon the requests that take time.           *)
(*                                                                         *)
(* They run on one thread and call each other, so each is an operator from *)
(* a manager to a manager.  A manager, `m`, is a record:                   *)
(*   desk, focus, current, drag  the desktop, as far as agents may see it; *)
(*   agents                      the policy state of AgentPolicy;          *)
(*   shadow, shownFocus, shownWorkspace, matchers                          *)
(*                               what the events have said so far, and     *)
(*                               the scope of each session's grant;        *)
(*   link, outbox                the transport's view of each session and  *)
(*                               the frames queued for it;                 *)
(*   text, observations, semantics                                         *)
(*                               the requests that take time;              *)
(*   clipboard                   whether text is offered as a selection;   *)
(*   consent, consented          the sessions a person is asked about, the *)
(*                               first of them on the screen, and those a  *)
(*                               person has allowed.                       *)
(***************************************************************************)
EXTENDS AgentPolicy, FiniteSetsExt

CONSTANTS
    Titles, Workspaces, Places,
    Rule,             \* the configured visibility of a window with each title
    WriterQueue       \* frames one session may have queued in the transport

ASSUME WriterAssumption == WriterQueue \in Nat \ {0}

Unmanaged == [managed |-> FALSE]

NoShadow == [known |-> FALSE]

NoDrag == [on |-> FALSE]

NoText == [on |-> FALSE]

Managed(m, c) == m.desk[c].managed

(* ---- What a client looks like, to the shadow and to a session ---- *)
\* The seat has just been opened, and nothing is managed.
Started ==
    [desk |-> [c \in Clients |-> Unmanaged], focus |-> NoClient,
     current |-> CHOOSE w \in Workspaces : TRUE, drag |-> NoDrag, agents |-> NoAgents,
     shadow |-> [c \in Clients |-> NoShadow], shownFocus |-> NoClient,
     shownWorkspace |-> CHOOSE w \in Workspaces : TRUE,
     matchers |-> [s \in Sessions |-> Clients],
     link |-> [s \in Sessions |-> "none"], outbox |-> [s \in Sessions |-> <<>>],
     text |-> NoText, observations |-> {}, semantics |-> {}, clipboard |-> FALSE,
     consent |-> <<>>, consented |-> {}]

ClientState(m, c) ==
    [focused |-> m.focus = c, visible |-> m.desk[c].workspace = m.current]

Live(m, c) ==
    [known |-> TRUE, title |-> m.desk[c].title, state |-> ClientState(m, c),
     place |-> m.desk[c].place]

ReadableTitle(m, s, c) ==
    IF m.agents.visibility[c] = "redacted"
       \/ "titles" \notin m.agents.sessions[s].grant.capabilities
    THEN "none" ELSE m.desk[c].title

Descriptor(m, s, c) ==
    [known |-> TRUE, title |-> ReadableTitle(m, s, c), state |-> ClientState(m, c),
     place |-> m.desk[c].place, workspace |-> m.desk[c].workspace,
     life |-> m.desk[c].life, generation |-> Generation(m.agents, c)]

Seen(m, s, c) == Managed(m, c) /\ Perceives(m.agents, s, c)

SeenFocus(m, s) ==
    IF m.focus /= NoClient /\ Perceives(m.agents, s, m.focus) THEN m.focus ELSE NoClient

Snapshot(m, s) ==
    [sequence |-> m.agents.sessions[s].sequence,
     clients  |-> [c \in Clients |-> IF Seen(m, s, c) THEN Descriptor(m, s, c) ELSE NoShadow],
     focus    |-> SeenFocus(m, s),
     current  |-> m.current]

(***************************************************************************)
(* The transport, as the window manager uses it.  `link` is where the      *)
(* session stands: unknown to the window manager, connected, greeted, or   *)
(* given up, with its frames still on their way.                           *)
(***************************************************************************)
Held(m, s) == m.link[s] \in {"connected", "greeted"}

HasRoom(m, s) == Len(m.outbox[s]) < WriterQueue

\* AgentSeat::close
CloseLink(m, s) ==
    IF Held(m, s)
    THEN [m EXCEPT !.link[s] = "ending",
                   !.outbox[s] = IF HasRoom(m, s) THEN Append(@, [frame |-> "goodbye"]) ELSE @]
    ELSE m

\* AgentSeat::send: a reply that does not fit ends the session.
Send(m, s, frame) ==
    IF ~ Held(m, s) THEN m
    ELSE IF HasRoom(m, s) THEN [m EXCEPT !.outbox[s] = Append(@, frame)]
    ELSE CloseLink(m, s)

\* AgentSeat::offer: an event that does not fit is not accepted.
Accepts(m, s) == Held(m, s) /\ HasRoom(m, s)

Respond(m, s, request, outcome) ==
    Send(m, s, [frame |-> "response", request |-> request, outcome |-> outcome])

(* ---- Requests that take time ---- *)
\* finish_agent_text_error: text offered as a selection is offered no longer.
FinishTextError(m) ==
    Respond([m EXCEPT !.text = NoText, !.clipboard = @ /\ ~ m.text.offered],
            m.text.session, m.text.request, "error")

FailText(m, s) == IF m.text.on /\ m.text.session = s THEN FinishTextError(m) ELSE m

\* Mutant of FailObservation: nobody is told.
ForgetObservation(m, pending) == [m EXCEPT !.observations = @ \ {pending}]

FailObservation(m, pending) ==
    Respond([m EXCEPT !.observations = @ \ {pending}], pending.session, pending.request, "error")

OfSession(work, s) == {pending \in work : pending.session = s}

FailObservations(m, s) ==
    FoldSet(LAMBDA pending, n : FailObservation(n, pending), m, OfSession(m.observations, s))

CancelSemantic(pending) == [pending EXCEPT !.cancelled = TRUE, !.result = "unavailable"]

\* The cancellations of emit_agent_event: everything asked about the subject.
CancelSemanticsAbout(m, subject) ==
    [m EXCEPT !.semantics =
        {IF pending.target = subject THEN CancelSemantic(pending) ELSE pending : pending \in @}]

FailSemantic(m, pending) ==
    Respond([m EXCEPT !.semantics = @ \ {pending}], pending.session, pending.request, "error")

FailSemantics(m, s) ==
    FoldSet(LAMBDA pending, n : FailSemantic(n, pending), m, OfSession(m.semantics, s))

FailWork(m, s) == FailSemantics(FailObservations(FailText(m, s), s), s)

\* Mutant of InterruptWork: a text is typed on.
InterruptWatching(m) ==
    LET alone == FoldSet(LAMBDA pending, n : FailObservation(n, pending), m, m.observations)
    IN  [alone EXCEPT !.semantics = {CancelSemantic(pending) : pending \in @}]

\* interrupt_pending_agent_work
InterruptWork(m) ==
    LET untyped == IF m.text.on THEN FinishTextError(m) ELSE m
        alone == FoldSet(LAMBDA pending, n : FailObservation(n, pending), untyped, untyped.observations)
    IN  [alone EXCEPT !.semantics = {CancelSemantic(pending) : pending \in @}]

(* ---- Events ---- *)
\* emit_agent_event, with the event each session would be told.
Emit(m, kind, subject, event) ==
    LET touched == TouchObservers(m.agents, subject)
        told == [s \in Subscribers(touched, kind, subject) |-> event[s]]
    IN  [CancelSemanticsAbout(m, subject) EXCEPT !.agents = Publish(touched, told)]

\* The same for every session.
Everyone(m, event) == [s \in OpenSessions(m.agents) |-> event]

\* register_agent_client
Register(m, c) ==
    [m EXCEPT !.agents =
        ObserveClient(@, c, Rule[m.desk[c].title], {s \in Sessions : c \in m.matchers[s]})]

RegisterAll(m) ==
    FoldSet(LAMBDA c, n : Register(n, c), m, {c \in Clients : Managed(m, c)})

\* One difference between a client and its shadow: the client's generation moves,
\* and an event with the new value of the field is published.
Announce(m, c, kind, value) ==
    LET touched == [m EXCEPT !.agents = Touch(@, c)]
    IN  Emit(touched, kind, c,
             [s \in OpenSessions(m.agents) |->
                [kind |-> kind, client |-> c, value |-> value[s],
                 generation |-> Generation(touched.agents, c)]])

SyncMapped(m, c) ==
    Emit([m EXCEPT !.shadow[c] = Live(m, c)], "client_mapped", c,
         [s \in OpenSessions(m.agents) |->
            [kind |-> "client_mapped", client |-> c, descriptor |-> Descriptor(m, s, c)]])

\* Mutant of Shadowed: the shadow follows a drag that is not announced.
ShadowedAtOnce(m, c, moved) == Live(m, c)

\* The shadow of a client once its changes are announced: a drag waits until it is over.
Shadowed(m, c, moved) ==
    [Live(m, c) EXCEPT !.place = IF moved THEN @ ELSE m.shadow[c].place]

SyncKnown(m, c) ==
    LET live == Live(m, c)
        old == m.shadow[c]
        moved == ~ m.drag.on /\ old.place /= live.place
        known == IF old.title /= live.title THEN Register(m, c) ELSE m
        noted == [known EXCEPT !.shadow[c] = Shadowed(m, c, moved)]
        titled == IF old.title = live.title THEN noted
                  ELSE Announce(noted, c, "title_changed",
                         [s \in OpenSessions(m.agents) |-> ReadableTitle(noted, s, c)])
        stated == IF old.state = live.state THEN titled
                  ELSE Announce(titled, c, "state_changed", Everyone(m, live.state))
    IN  IF ~ moved THEN stated
        ELSE Announce(stated, c, "geometry_changed", Everyone(m, live.place))

SyncClosed(m, c) ==
    LET told == Emit([m EXCEPT !.shadow[c] = NoShadow], "client_closed", c,
                     Everyone(m, [kind |-> "client_closed", client |-> c]))
    IN  [told EXCEPT !.agents = ForgetClient(@, c)]

SyncClient(m, c) ==
    IF ~ Managed(m, c) THEN m
    ELSE IF m.shadow[c].known THEN SyncKnown(m, c) ELSE SyncMapped(m, c)

SyncFocus(m) ==
    IF m.shownFocus = m.focus THEN m
    ELSE Emit([m EXCEPT !.shownFocus = m.focus], "focus_changed", NoClient,
              [s \in OpenSessions(m.agents) |->
                [kind |-> "focus_changed", client |-> SeenFocus(m, s)]])

SyncWorkspace(m) ==
    IF m.shownWorkspace = m.current THEN m
    ELSE Emit([m EXCEPT !.shownWorkspace = m.current], "workspace_switched", NoClient,
              Everyone(m, [kind |-> "workspace_switched", workspace |-> m.current]))

\* sync_agent_events
SyncEvents(m) ==
    LET gone == {c \in Clients : m.shadow[c].known /\ ~ Managed(m, c)}
        closed == FoldSet(LAMBDA c, n : SyncClosed(n, c), m, gone)
        synced == FoldSet(LAMBDA c, n : SyncClient(n, c), closed, Clients)
    IN  SyncWorkspace(SyncFocus(synced))

\* flush_agent_events for one session: as much as the transport accepts.  What it
\* does not accept has been popped and is put back.
Undelivered(m, s) ==
    LET event == NextEvent(m.agents, s)
    IN  [m EXCEPT !.agents = RequeueEvent(PopEvent(@, s), s, event)]

Delivered(m, s) ==
    LET event == NextEvent(m.agents, s)
    IN  [m EXCEPT !.agents = PopEvent(@, s),
                  !.outbox[s] = Append(@, [frame |-> "event", event |-> event])]

FlushSession(m, s) ==
    LET flushed[n \in 0..WriterQueue] ==
            IF n = 0 THEN m
            ELSE LET before == flushed[n - 1]
                 IN  IF HasEvents(before.agents, s) /\ Accepts(before, s)
                     THEN Delivered(before, s) ELSE before
        last == flushed[WriterQueue]
    IN  IF HasEvents(last.agents, s) THEN Undelivered(last, s) ELSE last

FlushEvents(m) == FoldSet(LAMBDA s, n : FlushSession(n, s), m, OpenSessions(m.agents))

(* ---- Sessions ---- *)
\* complete_agent_greeting: the session is opened and everything managed is
\* registered for it.  The transport may have lost the session by now.
CompleteGreeting(m, s, grant) ==
    LET opened == RegisterAll([m EXCEPT !.agents = Open(@, s, grant)])
        greeted == IF Held(m, s) THEN [opened EXCEPT !.link[s] = "greeted"] ELSE opened
    IN  Send(greeted, s, [frame |-> "welcome"])

\* close_agent_session: the session's work is dropped without an answer.
CloseSession(m, s) ==
    [m EXCEPT !.text = IF @.on /\ @.session = s THEN NoText ELSE @,
              !.observations = @ \ OfSession(@, s),
              !.semantics = @ \ OfSession(@, s),
              !.agents = Close(@, s),
              !.matchers[s] = Clients,
              !.consented = @ \ {s}]

\* agent_fault
Fault(m, s) == CloseSession(CloseLink(m, s), s)

(* ---- What people do ---- *)
SessionControl(change) == [kind |-> "session_control", change |-> change]

FailAllWork(m, sessions) == FoldSet(LAMBDA s, n : FailWork(n, s), m, sessions)

\* toggle_agent_freeze: it does nothing, and tells nobody, when no status changes.
ToggleFreeze(m) ==
    LET resuming == AnyFrozen(m.agents)
        agents == IF resuming THEN ResumeAll(m.agents) ELSE FreezeAll(m.agents)
        changed == StatusChanged(m.agents, agents)
        set == [m EXCEPT !.agents = agents]
        failed == IF resuming THEN set ELSE FailAllWork(set, changed)
        change == SessionControl(IF resuming THEN "resumed" ELSE "frozen")
    IN  IF changed = {} THEN m
        ELSE FlushEvents(Emit(failed, "session_control", NoClient, Everyone(m, change)))

\* note_human_activity; announcements are limited to one in a while.
NoteHuman(m, announced) ==
    LET interrupted == InterruptWork(m)
    IN  IF announced
        THEN Emit(interrupted, "human_activity", NoClient,
                  Everyone(m, [kind |-> "human_activity"]))
        ELSE interrupted

\* reapply_agent_grants, with the grant and the scope configured for each session.
ReapplyGrants(m, grants, matchers) ==
    LET asked == {s \in OpenSessions(m.agents) : Held(m, s) /\ s \notin m.consented}
        revoked == {s \in asked : grants[s].capabilities = {}}
        granted == [m EXCEPT
            !.matchers = [s \in Sessions |-> IF s \in asked THEN matchers[s] ELSE @[s]],
            !.agents = FoldSet(LAMBDA s, a : SetGrant(a, s, grants[s]), @, asked)]
        registered == RegisterAll(granted)
        stopped == [registered EXCEPT
            !.agents = FoldSet(LAMBDA s, a : SetStatus(a, s, "revoked"), @, revoked)]
        change == SessionControl("revoked")
    IN  IF revoked = {} THEN registered
        ELSE FlushEvents(Emit(FailAllWork(stopped, revoked), "session_control", NoClient,
                              Everyone(m, change)))

\* stop_agent_seat: the sessions go, what waits for a timer or a person does not.
StopSeat(m) ==
    LET sessions == OpenSessions(m.agents)
        closed == FoldSet(LAMBDA s, n : CloseLink(n, s), m, Sessions)
    IN  [closed EXCEPT
            !.agents = FoldSet(LAMBDA s, a : Close(a, s), @, sessions),
            !.matchers = [s \in Sessions |-> Clients],
            !.consented = {},
            !.shadow = [c \in Clients |-> NoShadow]]

=============================================================================

---------------------------- MODULE AgentPolicy ----------------------------
(***************************************************************************)
(* What agent sessions may see and do: AgentState of                       *)
(* crates/nobox-core/src/agent.rs.  The state is a record, `a`, of         *)
(*   sessions    the open sessions, a function on a subset of Sessions,    *)
(*   visibility  how private a client is (absent entries are "visible"),   *)
(*   generation  how often a client has changed (0: no entry),             *)
(* and every method is an operator from such a record to such a record.    *)
(* The two backends own one such record each and call the methods from     *)
(* their event loops; the modules that extend this one say when.           *)
(***************************************************************************)
EXTENDS Naturals, Sequences, FiniteSets

CONSTANTS
    Sessions,         \* session identifiers
    Clients,
    NoClient,         \* the subject of an event that is about no client
    MaxQueuedEvents   \* events one session may have queued

ASSUME QueueAssumption == MaxQueuedEvents \in Nat \ {0}
ASSUME FiniteAssumption == IsFiniteSet(Sessions) /\ IsFiniteSet(Clients)
ASSUME NoClientAssumption == NoClient \notin Clients

\* The atoms of a grant the models tell apart: to look, to read titles, to act.
Capabilities == {"observe", "titles", "manage"}

(* ---- Visibility only moves to the right ---- *)
Visibilities == {"visible", "redacted", "hidden"}

MorePrivate(v, w) ==
    IF "hidden" \in {v, w} THEN "hidden"
    ELSE IF "redacted" \in {v, w} THEN "redacted" ELSE "visible"

(***************************************************************************)
(* Grants.  A scope is a set of clients, kept apart from the marker of a   *)
(* grant without one.                                                      *)
(***************************************************************************)
Grants == [capabilities : SUBSET Capabilities, scoped : BOOLEAN, scope : SUBSET Clients]

Unscoped(capabilities) == [capabilities |-> capabilities, scoped |-> FALSE, scope |-> {}]

Scoped(capabilities) == [capabilities |-> capabilities, scoped |-> TRUE, scope |-> {}]

Denied == Unscoped({})

Covers(grant, c) == grant.scoped => c \in grant.scope

Include(grant, c) ==
    IF grant.scoped THEN [grant EXCEPT !.scope = @ \cup {c}] ELSE grant

Forget(grant, c) == [grant EXCEPT !.scope = @ \ {c}]

(***************************************************************************)
(* Subscriptions.  An event is a record with a kind; a queue holds events  *)
(* stamped with the sequence of their session.                             *)
(***************************************************************************)
Statuses == {"active", "frozen", "revoked"}

FilterableKinds ==
    {"client_mapped", "client_closed", "title_changed", "focus_changed",
     "state_changed", "geometry_changed", "workspace_switched", "human_activity"}

NoSubscription == [on |-> FALSE, kinds |-> {}, queue |-> <<>>, dropped |-> 0, resync |-> FALSE]

Wants(subscription, kind) ==
    \/ kind \notin FilterableKinds
    \/ subscription.kinds = {}
    \/ kind \in subscription.kinds

(* ---- Sessions ---- *)
NoAgents ==
    [sessions |-> [s \in {} |-> {}], visibility |-> [c \in Clients |-> "visible"],
     generation |-> [c \in Clients |-> 0]]

OpenSessions(a) == DOMAIN a.sessions

Open(a, s, grant) ==
    LET fresh == [grant |-> grant, status |-> "active", subscription |-> NoSubscription,
                  sequence |-> 0]
    IN  [a EXCEPT !.sessions =
            [t \in DOMAIN @ \cup {s} |-> IF t = s THEN fresh ELSE a.sessions[t]]]

SetGrant(a, s, grant) == [a EXCEPT !.sessions[s].grant = grant]

Close(a, s) == [a EXCEPT !.sessions = [t \in DOMAIN @ \ {s} |-> a.sessions[t]]]

WithStatus(session, status) == [session EXCEPT !.status = status]

SetAll(a, status) ==
    [a EXCEPT !.sessions = [s \in DOMAIN @ |-> WithStatus(@[s], status)]]

FreezeAll(a) == SetAll(a, "frozen")

ResumeAll(a) ==
    [a EXCEPT !.sessions =
        [s \in DOMAIN @ |-> IF @[s].status = "frozen" THEN WithStatus(@[s], "active") ELSE @[s]]]

SetStatus(a, s, status) == [a EXCEPT !.sessions[s].status = status]

\* The sessions a change of all statuses has touched, which the methods return.
StatusChanged(before, after) ==
    {s \in DOMAIN after.sessions : before.sessions[s].status /= after.sessions[s].status}

AnyFrozen(a) == \E s \in OpenSessions(a) : a.sessions[s].status = "frozen"

(* ---- Clients ---- *)
Including(session, c) == [session EXCEPT !.grant = Include(@, c)]

Forgetting(session, c) == [session EXCEPT !.grant = Forget(@, c)]

ObserveClient(a, c, visibility, inScope) ==
    [a EXCEPT
        !.visibility[c] = MorePrivate(@, visibility),
        !.generation[c] = IF @ = 0 THEN 1 ELSE @,
        !.sessions = [s \in DOMAIN @ |->
            IF s \in inScope THEN Including(@[s], c) ELSE @[s]]]

ForgetClient(a, c) ==
    [a EXCEPT
        !.visibility[c] = "visible",
        !.generation[c] = 0,
        !.sessions = [s \in DOMAIN @ |-> Forgetting(@[s], c)]]

\* Mutant of Touch: a change that the generation does not count.
TouchNothing(a, c) == a

Touch(a, c) == [a EXCEPT !.generation[c] = @ + 1]

Generation(a, c) == IF a.generation[c] = 0 THEN 1 ELSE a.generation[c]

Perceives(a, s, c) ==
    /\ s \in OpenSessions(a)
    /\ a.visibility[c] /= "hidden"
    /\ Covers(a.sessions[s].grant, c)

\* The answer to a call that needs `required`: "ok" or why not.
Authorize(a, s, required) ==
    CASE s \notin OpenSessions(a)              -> "session_revoked"
      [] a.sessions[s].status = "frozen"       -> "session_frozen"
      [] a.sessions[s].status = "revoked"      -> "session_revoked"
      [] OTHER -> IF required \subseteq a.sessions[s].grant.capabilities THEN "ok" ELSE "denied"

\* A client may be acted on if it is the one the caller has seen.  Expected
\* generation 0 stands for no expectation.  The other expectations compare with the
\* core's state of the moment and cannot be out of date, so they are left out.
CheckExpects(a, c, generation) == generation \in {0, Generation(a, c)}

(* ---- Events ---- *)
Subscribe(a, s, kinds) ==
    [a EXCEPT !.sessions[s].subscription = [NoSubscription EXCEPT !.on = TRUE, !.kinds = kinds]]

Observers(a, subject) ==
    {s \in OpenSessions(a) : subject = NoClient \/ Perceives(a, s, subject)}

Subscribers(a, kind, subject) ==
    {s \in Observers(a, subject) :
        /\ a.sessions[s].subscription.on
        /\ Wants(a.sessions[s].subscription, kind)}

Counted(session) == [session EXCEPT !.sequence = @ + 1]

TouchObservers(a, subject) ==
    [a EXCEPT !.sessions = [s \in DOMAIN @ |->
        IF s \in Observers(a, subject) THEN Counted(@[s]) ELSE @[s]]]

\* One more event for a subscription: an overflow drops the backlog and the event,
\* and from then on all is dropped until the agent has been told.
Queued(subscription, stamped) ==
    IF Len(subscription.queue) >= MaxQueuedEvents
    THEN [subscription EXCEPT !.dropped = @ + Len(subscription.queue) + 1,
                              !.queue = <<>>, !.resync = TRUE]
    ELSE IF subscription.resync THEN [subscription EXCEPT !.dropped = @ + 1]
    ELSE [subscription EXCEPT !.queue = Append(@, stamped)]

Stamped(sequence, event) == [sequence |-> sequence, event |-> event]

\* One session is told an event.
Notified(session, event) ==
    [session EXCEPT !.subscription = Queued(@, Stamped(session.sequence, event))]

\* `events` maps some sessions to the event each is to be told.
Publish(a, events) ==
    [a EXCEPT !.sessions = [s \in DOMAIN @ |->
        IF s \in DOMAIN events /\ @[s].subscription.on
        THEN Notified(@[s], events[s]) ELSE @[s]]]

HasEvents(a, s) ==
    /\ s \in OpenSessions(a)
    /\ \/ a.sessions[s].subscription.resync
       \/ a.sessions[s].subscription.queue /= <<>>

ResyncRequired(dropped) == [kind |-> "resync_required", dropped |-> dropped]

\* The event to be delivered next; only when HasEvents.
NextEvent(a, s) ==
    LET session == a.sessions[s]
        subscription == session.subscription
    IN  IF subscription.resync
        THEN Stamped(session.sequence, ResyncRequired(subscription.dropped))
        ELSE Head(subscription.queue)

\* What pop_event leaves behind.
Popped(subscription) ==
    IF subscription.resync
    THEN [subscription EXCEPT !.resync = FALSE, !.dropped = 0, !.queue = <<>>]
    ELSE [subscription EXCEPT !.queue = Tail(@)]

PopEvent(a, s) == [a EXCEPT !.sessions[s].subscription = Popped(@)]

\* A subscription that has missed events, as many as `event` says.
Missing(subscription, event) == [subscription EXCEPT !.resync = TRUE, !.dropped = event.dropped]

\* Mutant of Requeued: the event goes to the end of the queue.
RequeuedAtEnd(subscription, stamped) ==
    IF stamped.event.kind = "resync_required" THEN Missing(subscription, stamped.event)
    ELSE [subscription EXCEPT !.queue = Append(@, stamped)]

Requeued(subscription, stamped) ==
    IF stamped.event.kind = "resync_required" THEN Missing(subscription, stamped.event)
    ELSE [subscription EXCEPT !.queue = <<stamped>> \o @]

RequeueEvent(a, s, stamped) == [a EXCEPT !.sessions[s].subscription = Requeued(@, stamped)]

=============================================================================

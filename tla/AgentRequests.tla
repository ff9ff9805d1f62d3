--------------------------- MODULE AgentRequests ---------------------------
(***************************************************************************)
(* The requests of agent sessions, from the frame to the answer, in the    *)
(* X11 window manager: crates/nobox-x11/src/lib.rs.  Looking at the        *)
(* desktop is answered at once.  Typing text, watching what an action does *)
(* and asking the semantic helper take several turns of the event loop,    *)
(* between which people act, windows change, sessions end and grants are   *)
(* taken away.                                                             *)
(*                                                                         *)
(* The timer thread sends the window manager messages that carry the       *)
(* generation of what they are for.  A message may already be on its way   *)
(* when its timer is cancelled, so `timers` keeps it.                      *)
(***************************************************************************)
EXTENDS AgentGlue

CONSTANTS
    Requests,         \* the identifiers a companion gives its requests, 1..n
    Strokes,          \* the characters of a text
    MaxRequests,      \* bound: requests made in all
    MaxChanges        \* bound: changes of the desktop, by people and by programs, among
                      \* them that the seat is closed

VARIABLES
    m,                \* the window manager, see AgentGlue
    seat,             \* whether the seat is open
    timers,           \* messages of the timer thread on their way
    next,             \* the next generation
    suppressed,       \* whether a person used an input device a moment ago
    asked,            \* the requests each connection has made
    heard,            \* how many answers to each request each companion has read
    preempted,        \* the requests that were overtaken, not part of the program
    leftover,         \* whether the seat was opened again over requests that still
                      \* waited, not part of the program
    made, changes

vars == <<m, seat, timers, next, suppressed, asked, heard, preempted, leftover, made, changes>>

(* ---- What is pending ---- *)
Texts(n) == IF n.text.on THEN {n.text} ELSE {}

Pending(n) == Texts(n) \cup n.observations \cup n.semantics

Of(pending) == [session |-> pending.session, request |-> pending.request]

Timer(kind, generation) == [kind |-> kind, generation |-> generation]

Cancelled(n) == {pending \in n.semantics : pending.cancelled}

\* A step of the manager: what it becomes, the timers that are armed, and the requests
\* that are overtaken, besides the queries that are cancelled.
Become(n, armed, overtaken) ==
    /\ m' = n
    /\ timers' = armed
    /\ preempted' = preempted \cup {Of(pending) : pending \in overtaken \cup Cancelled(n)}

Still == UNCHANGED <<seat, suppressed, asked, heard, leftover, made, changes>>

(* ---- Texts ---- *)
Busy == m.text.on

Observing(s) == OfSession(m.observations, s) /= {}

\* Nothing is compared or registered while the seat is closed.
Synced(n) == IF seat THEN SyncEvents(n) ELSE n

\* prepare_agent_input, for a client that need not be raised, and the focus that keys
\* and texts need: "ok" or why not.
Prepared(n, s, c) ==
    IF ~ Seen(n, s, c) THEN "no_such_client"
    ELSE IF n.agents.visibility[c] = "redacted" THEN "denied"
    ELSE IF suppressed THEN "interrupted"
    ELSE IF n.focus /= c THEN "stale_state" ELSE "ok"

Observation(s, r, c) == [session |-> s, request |-> r, target |-> c, generation |-> next]

Observe(n, pending) == [n EXCEPT !.observations = @ \cup {pending}]

\* finish_agent_text_success
FinishTextSuccess(n) ==
    LET done == [n EXCEPT !.text = NoText]
    IN  IF n.text.observe
        THEN Observe(done, Observation(n.text.session, n.text.request, n.text.target))
        ELSE Respond(done, n.text.session, n.text.request, "ok")

\* Why advance_agent_text does not go on.
Stopped(n) ==
    \/ Authorize(n.agents, n.text.session, {"manage"}) /= "ok"
    \/ ~ Seen(n, n.text.session, n.text.target)
    \/ n.agents.visibility[n.text.target] = "redacted"
    \/ n.focus /= n.text.target
    \/ suppressed

\* One character, or the offer of the whole text, or the end of the offer.
Typed(n) ==
    IF n.text.offered THEN FinishTextSuccess([n EXCEPT !.clipboard = FALSE])
    ELSE IF n.text.paste
    THEN [n EXCEPT !.text.offered = TRUE, !.clipboard = TRUE]
    ELSE IF n.text.left = 1 THEN FinishTextSuccess(n)
    ELSE [n EXCEPT !.text.left = @ - 1]

\* advance_agent_text, whether or not the server accepts what it injects.
AdvanceText(generation) ==
    LET timer == Timer("text", generation)
        fired == timers \ {timer}
        went == IF Stopped(m) THEN FinishTextError(m) ELSE Typed(m)
        watching == went.observations \ m.observations
        armed == fired \cup (IF went.text.on THEN {timer} ELSE {})
                       \cup {Timer("observation", pending.generation) : pending \in watching}
    IN  /\ timer \in timers
        /\ IF ~ m.text.on \/ m.text.generation /= generation
           THEN Become(m, fired, {}) /\ UNCHANGED next
           ELSE /\ \/ Become(went, armed, {})
                   \/ Become(FinishTextError(m), fired, {})
                /\ next' = IF watching = {} THEN next ELSE next + 1
        /\ Still

(* ---- Observations and semantic queries ---- *)
\* finish_agent_observation: before the deadline, which events have put off, the timer
\* is armed again, which the timer thread may refuse.
FinishObservation(generation) ==
    LET timer == Timer("observation", generation)
        synced == Synced(m)
        due == {pending \in synced.observations : pending.generation = generation}
        answered == FoldSet(LAMBDA pending, n :
                        Respond([n EXCEPT !.observations = @ \ {pending}],
                                pending.session, pending.request, "ok"), synced, due)
        failed == FoldSet(LAMBDA pending, n : FailObservation(n, pending), synced, due)
    IN  /\ timer \in timers
        /\ \/ Become(answered, timers \ {timer}, {})
           \/ Become(failed, timers \ {timer}, {})
           \/ due /= {} /\ Become(synced, timers, {})
        /\ UNCHANGED next
        /\ Still

\* collect_agent_semantic_results: the helper has found something.
HelperAnswers(pending) ==
    /\ pending \in m.semantics
    /\ pending.result = "none" /\ ~ pending.cancelled
    /\ Become([m EXCEPT !.semantics =
                 (@ \ {pending}) \cup {[pending EXCEPT !.result = "matched"]}], timers, {})
    /\ UNCHANGED next
    /\ Still

\* What finish_agent_semantic answers.
SemanticOutcome(n, pending) ==
    IF /\ Authorize(n.agents, pending.session, {"observe"}) = "ok"
       /\ Seen(n, pending.session, pending.target)
       /\ n.agents.visibility[pending.target] /= "redacted"
       /\ ~ pending.cancelled
       /\ Generation(n.agents, pending.target) = pending.seen
       /\ pending.result = "matched"
    THEN "ok" ELSE "error"

FinishSemantic(generation) ==
    LET timer == Timer("semantic", generation)
        due == {pending \in m.semantics : pending.generation = generation}
        answered == FoldSet(LAMBDA pending, n :
                        Respond([n EXCEPT !.semantics = @ \ {pending}],
                                pending.session, pending.request, SemanticOutcome(n, pending)),
                        m, due)
    IN  /\ timer \in timers
        /\ Become(answered, timers \ {timer}, {})
        /\ UNCHANGED next
        /\ Still

(***************************************************************************)
(* Requests arrive: agent_request.  Each is handled between two            *)
(* comparisons of the desktop.                                             *)
(***************************************************************************)
Handled(n) == FlushEvents(SyncEvents(n))

Ask(s, r) ==
    /\ m.link[s] = "greeted"
    /\ r = Cardinality(asked[s]) + 1
    /\ asked' = [asked EXCEPT ![s] = @ \cup {r}]
    /\ made < MaxRequests /\ made' = made + 1
    /\ UNCHANGED <<seat, suppressed, heard, leftover, changes>>

Reply(n, s, r, outcome) ==
    Become(Handled(Respond(n, s, r, outcome)), timers, {}) /\ UNCHANGED next

\* Mutant of Wait: the timer is not armed.
WaitUnarmed(n, s, r, kind) ==
    \/ /\ Become(Handled(n), timers, {})
       /\ next' = next + 1
    \/ Reply(m, s, r, "error")

\* The answer waits for a timer, which the timer thread may refuse to arm.
Wait(n, s, r, kind) ==
    \/ /\ Become(Handled(n), timers \cup {Timer(kind, next)}, {})
       /\ next' = next + 1
    \/ Reply(m, s, r, "error")

\* desktop_snapshot
AskSnapshot(s, r) ==
    LET now == SyncEvents(m)
    IN  /\ Ask(s, r)
        /\ Reply(now, s, r, Authorize(now.agents, s, {"observe"}))

\* Input waits for nobody: it is refused while a text is typed, and an action is not
\* watched while another is.
Refused(s, c, observe, enough) ==
    LET now == SyncEvents(m)
    IN  \/ Busy
        \/ observe /\ Observing(s)
        \/ Authorize(now.agents, s, {"manage"}) /= "ok"
        \/ Prepared(now, s, c) \notin enough

\* client_key, and client_pointer, which needs no focus: what they inject may fail.
AskKey(s, r, c, observe, pointer) ==
    LET now == SyncEvents(m)
        enough == IF pointer THEN {"ok", "stale_state"} ELSE {"ok"}
    IN  /\ Ask(s, r)
        /\ \/ Reply(now, s, r, "error")
           \/ /\ ~ Refused(s, c, observe, enough)
              /\ IF observe THEN Wait(Observe(now, Observation(s, r, c)), s, r, "observation")
                 ELSE Reply(now, s, r, "ok")

\* client_type
AskType(s, r, c, observe, paste) ==
    LET now == SyncEvents(m)
        text == [on |-> TRUE, session |-> s, request |-> r, target |-> c, generation |-> next,
                 left |-> Strokes, paste |-> paste, offered |-> FALSE, observe |-> observe]
    IN  /\ Ask(s, r)
        /\ IF Refused(s, c, observe, {"ok"}) THEN Reply(now, s, r, "error")
           ELSE Wait([now EXCEPT !.text = text], s, r, "text")

\* client_semantic_root: the helper may not be there to ask.
AskSemantic(s, r, c) ==
    LET now == SyncEvents(m)
        query(result) ==
            [session |-> s, request |-> r, target |-> c, generation |-> next,
             seen |-> Generation(now.agents, c), cancelled |-> FALSE, result |-> result]
    IN  /\ Ask(s, r)
        /\ IF \/ Authorize(now.agents, s, {"observe"}) /= "ok"
              \/ ~ Seen(now, s, c)
              \/ now.agents.visibility[c] = "redacted"
           THEN Reply(now, s, r, "error")
           ELSE \E result \in {"none", "unavailable"} :
                    Wait([now EXCEPT !.semantics = @ \cup {query(result)}], s, r, "semantic")

(* ---- Sessions come and go ---- *)
Keep == UNCHANGED <<timers, preempted, leftover, next, seat, suppressed, made, changes>>

Connect(s) ==
    /\ seat /\ m.link[s] = "none"
    /\ m' = [m EXCEPT !.link[s] = "connected"]
    /\ UNCHANGED <<asked, heard>> /\ Keep

\* agent_greet.  Without a stored grant a person is asked.
Greet(s, grant, matcher) ==
    /\ Held(m, s)
    /\ m' = IF m.link[s] = "greeted" THEN Fault(m, s)
            ELSE CompleteGreeting([m EXCEPT !.matchers[s] = matcher], s, grant)
    /\ UNCHANGED <<asked, heard>> /\ Keep

AskPerson(s) ==
    /\ m.link[s] = "connected"
    /\ s \notin {m.consent[i] : i \in DOMAIN m.consent}
    /\ m' = [m EXCEPT !.consent = Append(@, s)]
    /\ UNCHANGED <<asked, heard>> /\ Keep

\* finish_agent_consent: the session may have ended while it waited.
AnswerConsent(allowed) ==
    /\ m.consent /= <<>>
    /\ LET s == Head(m.consent)
           shown == [m EXCEPT !.consent = Tail(@),
                              !.consented = IF allowed THEN @ \cup {s} ELSE @]
       IN  m' = CompleteGreeting(shown, s, IF allowed THEN Unscoped(Capabilities) ELSE Denied)
    /\ UNCHANGED <<asked, heard>> /\ Keep

Unheard == [r \in Requests |-> 0]

\* The reader thread has seen the end of the connection.
Disconnect(s) ==
    /\ seat /\ m.link[s] \in {"connected", "greeted", "ending"}
    /\ m' = [CloseSession(m, s) EXCEPT !.link[s] = "gone", !.outbox[s] = <<>>]
    /\ asked' = [asked EXCEPT ![s] = {}]
    /\ heard' = [heard EXCEPT ![s] = Unheard]
    /\ preempted' = {request \in preempted : request.session /= s}
    /\ UNCHANGED <<timers, next, seat, suppressed, leftover, made, changes>>

\* The companion reads a frame.
Read(s) ==
    LET frame == Head(m.outbox[s])
    IN  /\ m.outbox[s] /= <<>>
        /\ m' = [m EXCEPT !.outbox[s] = Tail(@)]
        /\ heard' = IF frame.frame = "response" THEN [heard EXCEPT ![s][frame.request] = @ + 1]
                    ELSE heard
        /\ UNCHANGED asked /\ Keep

(* ---- The desktop, people, and the seat itself ---- *)
Happens(n, overtaken) ==
    /\ changes < MaxChanges
    /\ changes' = changes + 1
    /\ Become(n, timers, overtaken)
    /\ UNCHANGED <<seat, next, asked, heard, leftover, made>>

Retitle(c, title) ==
    /\ Managed(m, c) /\ m.desk[c].title /= title
    /\ Happens([m EXCEPT !.desk[c].title = title], {})
    /\ UNCHANGED suppressed

Refocus(f) == m.focus /= f /\ Happens([m EXCEPT !.focus = f], {}) /\ UNCHANGED suppressed

Unmanage(c) ==
    /\ Managed(m, c)
    /\ Happens([m EXCEPT !.desk[c] = Unmanaged, !.focus = IF @ = c THEN NoClient ELSE @], {})
    /\ UNCHANGED suppressed

\* The end of a burst of events.
Boundary ==
    /\ seat
    /\ SyncEvents(m) /= m
    /\ Become(FlushEvents(SyncEvents(m)), timers, {})
    /\ UNCHANGED <<seat, next, suppressed, asked, heard, leftover, made, changes>>

\* note_human_activity
HumanInput ==
    /\ seat
    /\ \E announced \in BOOLEAN : Happens(NoteHuman(m, announced), Pending(m))
    /\ suppressed' = TRUE

Forgotten ==
    /\ suppressed
    /\ suppressed' = FALSE
    /\ UNCHANGED <<m, seat, timers, next, asked, heard, preempted, leftover, made, changes>>

\* toggle_agent_freeze.  Taking a freeze back is not counted as a change.
KillChord ==
    LET resuming == AnyFrozen(m.agents)
        frozen == IF resuming THEN {} ELSE StatusChanged(m.agents, FreezeAll(m.agents))
    IN  /\ resuming \/ changes < MaxChanges
        /\ changes' = IF resuming THEN changes ELSE changes + 1
        /\ Become(ToggleFreeze(m), timers, UNION {OfSession(Pending(m), s) : s \in frozen})
        /\ UNCHANGED <<seat, next, suppressed, asked, heard, leftover, made>>

\* reload_config with no grants left for anybody but those a person has allowed.
Revoke ==
    LET nothing == [s \in Sessions |-> Denied]
        taken == {s \in OpenSessions(m.agents) : Held(m, s) /\ s \notin m.consented}
    IN  /\ Happens(ReapplyGrants(m, nothing, [s \in Sessions |-> Clients]),
                   UNION {OfSession(Pending(m), s) : s \in taken})
        /\ UNCHANGED suppressed

\* agent_text_selection_lost: some other client takes the selection.
LoseSelection ==
    /\ m.clipboard
    /\ Happens(IF m.text.on /\ m.text.offered THEN FinishTextError([m EXCEPT !.clipboard = FALSE])
               ELSE [m EXCEPT !.clipboard = FALSE], {})
    /\ UNCHANGED suppressed

CloseSeat ==
    /\ seat /\ seat' = FALSE
    /\ changes < MaxChanges /\ changes' = changes + 1
    /\ Become(StopSeat(m), timers, {})
    /\ UNCHANGED <<next, suppressed, asked, heard, leftover, made>>

\* start_agent_seat: the sessions are numbered from the first again, so what still waits
\* for a session of the seat that was closed is taken for a request of the new one.
OpenSeat ==
    /\ ~ seat /\ seat' = TRUE
    /\ m' = [m EXCEPT !.link = [s \in Sessions |-> "none"],
                      !.outbox = [s \in Sessions |-> <<>>]]
    /\ asked' = [s \in Sessions |-> {}]
    /\ heard' = [s \in Sessions |-> Unheard]
    /\ preempted' = {}
    /\ leftover' = (leftover \/ Pending(m) /= {})
    /\ UNCHANGED <<timers, next, suppressed, made, changes>>

(* ---- The specification ---- *)
\* The clients have been managed, the first of them has the focus.
Init ==
    /\ m = [Started EXCEPT
               !.desk = [c \in Clients |->
                   [managed |-> TRUE, title |-> CHOOSE t \in Titles : Rule[t] = "visible",
                    workspace |-> Started.current, place |-> CHOOSE p \in Places : TRUE,
                    life |-> 0]],
               !.focus = CHOOSE c \in Clients : TRUE]
    /\ seat = FALSE /\ timers = {} /\ next = 1 /\ suppressed = FALSE
    /\ asked = [s \in Sessions |-> {}]
    /\ heard = [s \in Sessions |-> Unheard]
    /\ preempted = {} /\ leftover = FALSE
    /\ made = 0 /\ changes = 0

\* A request takes two generations at most: a text that is watched.
Generations == 1..(2 * MaxRequests)

SessionStep ==
    \E s \in Sessions :
        \/ Connect(s) \/ AskPerson(s) \/ Disconnect(s) \/ Read(s)
        \/ Greet(s, Unscoped(Capabilities), Clients)
        \/ \E r \in Requests : AskSnapshot(s, r)
        \/ \E r \in Requests, c \in Clients, observe, pointer \in BOOLEAN :
                AskKey(s, r, c, observe, pointer)
        \/ \E r \in Requests, c \in Clients, observe, paste \in BOOLEAN :
                AskType(s, r, c, observe, paste)
        \/ \E r \in Requests, c \in Clients : AskSemantic(s, r, c)

TimerStep ==
    \E g \in Generations : AdvanceText(g) \/ FinishObservation(g) \/ FinishSemantic(g)

DesktopStep ==
    \/ \E c \in Clients, title \in Titles : Retitle(c, title)
    \/ \E f \in Clients \cup {NoClient} : Refocus(f)
    \/ \E c \in Clients : Unmanage(c)
    \/ Boundary \/ LoseSelection
    \/ \E pending \in m.semantics : HelperAnswers(pending)

PersonStep ==
    \/ HumanInput \/ Forgotten \/ KillChord \/ Revoke
    \/ \E allowed \in BOOLEAN : AnswerConsent(allowed)
    \/ OpenSeat \/ CloseSeat

Next == SessionStep \/ TimerStep \/ DesktopStep \/ PersonStep

\* What shows that the message of a timer has been handled: it is gone, or the text
\* it is for has moved on.
Handling(timer) == timer \notin timers' \/ m'.text /= m.text

\* The timer thread sends what is due, and the event loop handles it: every message is
\* handled sooner or later.  Events put the deadline of an observation off, but never
\* beyond the longest time that was asked for, so its timer is not armed again for ever.
Timers == {Timer(kind, g) : kind \in {"text", "observation", "semantic"}, g \in Generations}

Fairness == \A timer \in Timers : []<>(timer \notin timers) \/ []<><<Handling(timer)>>_vars

Spec == Init /\ [][Next]_vars /\ Fairness

(* ---- Properties ---- *)
\* Whatever waits has a timer message on its way (agent_request, advance_agent_text,
\* finish_agent_text_success, arm_* of RuntimeTimer).
KindOf(pending) ==
    IF pending \in m.semantics THEN "semantic"
    ELSE IF pending \in m.observations THEN "observation" ELSE "text"

PendingHasTimer == \A pending \in Pending(m) : Timer(KindOf(pending), pending.generation) \in timers

\* A request that was pending when a person took over, when its session was frozen or
\* its grant taken away, or when the window it asks about changed, never succeeds.  The
\* seat was not opened again meanwhile: what waited then is not told from new requests.
PreemptedNeverSucceeds ==
    ~ leftover => \A s \in Sessions : \A i \in DOMAIN m.outbox[s] :
        LET frame == m.outbox[s][i]
        IN  frame.frame = "response" /\ frame.outcome = "ok"
            => [session |-> s, request |-> frame.request] \notin preempted

\* The promise of RequestBook.
Answers(s, r) ==
    heard[s][r] + Cardinality({i \in DOMAIN m.outbox[s] :
                                  m.outbox[s][i].frame = "response" /\ m.outbox[s][i].request = r})

Standing(s, r) ==
    IF m.link[s] \in {"ending", "gone"} THEN "gone"
    ELSE IF [session |-> s, request |-> r] \in {Of(pending) : pending \in Pending(m)} THEN "waiting"
    ELSE IF r \notin asked[s] THEN "new"
    ELSE IF Answers(s, r) = 1 THEN "answered" ELSE "lost"

Promise == INSTANCE RequestBook WITH book <- [s \in Sessions |-> [r \in Requests |-> Standing(s, r)]]

\* Every request is answered exactly once, however long it takes and whatever happens
\* in between, as long as its session is served.  The exception is a seat that was opened
\* again over requests that still waited: their answers go to the sessions that have got
\* the numbers, but even then nothing waits for ever.
AnsweredOnce == Promise!Init /\ [][leftover' \/ Promise!Next]_vars

RequestsAnswered ==
    /\ AnsweredOnce
    /\ \A s \in Sessions, r \in Requests : Promise!Waits(s, r) ~> ~ Promise!Waits(s, r)

=============================================================================
